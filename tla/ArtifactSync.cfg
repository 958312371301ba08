SPECIFICATION Spec
CONSTANTS
    Calls = {c1, c2}
    Artifacts = {p1, p2}
    Outside = Outside
    Inputs = {a1}
    RunInputs = {{a1}}
    MaxVersion = 3
    MaxLosses = 1
SYMMETRY Symmetry
INVARIANTS TypeOK InSync ReturnedMeansPublished InputsHydrated
