-------------------------------- MODULE Excerpts -------------------------------
(***************************************************************************)
(* capabilities/sec.py, _query_snippets: the excerpts of a filing that     *)
(* sec_get_filing returns for one query. Its occurrences are looked for in *)
(* the case-folded text, those of its terms if it has none as a whole; the *)
(* candidates become spans of the text as it was, which may be shorter or  *)
(* longer than the folded one, and a span that overlaps an earlier one is  *)
(* passed over.                                                            *)
(***************************************************************************)
EXTENDS Naturals, FiniteSets

CONSTANTS Query, Terms,    \* the folded query and its terms: what is looked for
          Occurs,          \* of each, where it occurs in the folded text
          Width,           \* of each, its length
          Score,           \* of a position, the terms in the window around it
          Length,          \* len(text)
          Size,            \* snippet_chars
          MaxSnippets      \* max_snippets

VARIABLES
    phase,     \* "find" occurrences, "choose" among the candidates, "done"
    needle,    \* what is looked for
    unsought,  \* terms still to be looked for
    from,      \* start of _all_occurrences
    hits,      \* positions of _all_occurrences
    candidates,\* candidates; anchors before that
    left,      \* candidates that the loop has yet to reach
    exact,     \* match_type is "exact"
    spans      \* spans

excerptVars == <<phase, needle, unsought, from, hits, candidates, left, exact, spans>>

ExcerptInit ==
    /\ phase = "find" /\ needle = Query /\ unsought = Terms
    /\ from = 0 /\ hits = {}
    /\ candidates = {} /\ left = {} /\ exact = FALSE /\ spans = {}

-----------------------------------------------------------------------------
(***************************************************************************)
(* _all_occurrences                                                        *)
(***************************************************************************)
Limit(n) == IF n = Query THEN 100 ELSE 30

Advance(n) == IF Width[n] > 1 THEN Width[n] ELSE 1

Ahead == {p \in Occurs[needle] : p >= from}

(* text.find                                                               *)
Find ==
    /\ phase = "find" /\ Cardinality(hits) < Limit(needle)
    /\ \E p \in Ahead :
          /\ \A q \in Ahead : p <= q
          /\ hits' = hits \cup {p}
          /\ from' = p + Advance(needle)
    /\ UNCHANGED <<phase, needle, unsought, candidates, left, exact, spans>>

Found == phase = "find" /\ (Cardinality(hits) >= Limit(needle) \/ Ahead = {})

(* The next term, unless the query was found as a whole or none is left.   *)
NextNeedle ==
    /\ Found /\ (needle = Query => hits = {})
    /\ \E term \in unsought :
          /\ needle' = term /\ unsought' = unsought \ {term}
          /\ from' = 0 /\ hits' = {}
          /\ candidates' = candidates \cup hits
    /\ UNCHANGED <<phase, left, exact, spans>>

Candidates ==
    /\ Found /\ (unsought = {} \/ (needle = Query /\ hits # {}))
    /\ phase' = "choose"
    /\ candidates' = candidates \cup hits
    /\ left' = candidates'
    /\ exact' = (needle = Query /\ hits # {})
    /\ UNCHANGED <<needle, unsought, from, hits, spans>>

-----------------------------------------------------------------------------
(***************************************************************************)
(* The spans                                                               *)
(***************************************************************************)
(* candidates.sort: by score, then by position. Whole matches score alike. *)
Before(p, q) ==
    IF exact \/ Score[p] = Score[q] THEN p < q ELSE Score[p] > Score[q]

First(p) == p \in left /\ \A q \in left \ {p} : Before(p, q)

Start(p) == IF p > Size \div 3 THEN p - Size \div 3 ELSE 0

(* A third of the span before the match; at the end of the text, more.     *)
Span(p) ==
    LET end == IF Start(p) + Size < Length THEN Start(p) + Size ELSE Length
    IN  <<IF end > Size THEN end - Size ELSE 0, end>>

Overlap(s, t) == s[1] < t[2] /\ s[2] > t[1]

Choose(p) ==
    /\ phase = "choose" /\ First(p)
    /\ \A s \in spans : ~Overlap(Span(p), s)
    /\ spans' = spans \cup {Span(p)}
    /\ left' = left \ {p}
    /\ phase' = IF Cardinality(spans') >= MaxSnippets THEN "done" ELSE "choose"
    /\ UNCHANGED <<needle, unsought, from, hits, candidates, exact>>

PassOver(p) ==
    /\ phase = "choose" /\ First(p)
    /\ \E s \in spans : Overlap(Span(p), s)
    /\ left' = left \ {p}
    /\ UNCHANGED <<phase, needle, unsought, from, hits, candidates, exact, spans>>

Finish ==
    /\ phase = "choose" /\ left = {}
    /\ phase' = "done"
    /\ UNCHANGED <<needle, unsought, from, hits, candidates, left, exact, spans>>

ExcerptNext ==
    \/ Find \/ NextNeedle \/ Candidates \/ Finish
    \/ \E p \in left : Choose(p) \/ PassOver(p)

ExcerptSpec == ExcerptInit /\ [][ExcerptNext]_excerptVars

-----------------------------------------------------------------------------
(* Every excerpt is a piece of the text as long as was asked for, or the   *)
(* whole text, wherever in the folded text its match was found.            *)
ExcerptsFit ==
    \A s \in spans : /\ s[1] \in Nat /\ s[2] \in Nat /\ s[2] <= Length
                     /\ s[2] - s[1] = IF Size < Length THEN Size ELSE Length

(* The model is given no part of the text twice, nor more excerpts than    *)
(* were asked for (overlaps, max_snippets).                                *)
ExcerptsApart ==
    /\ Cardinality(spans) <= MaxSnippets
    /\ \A s, t \in spans : s # t => ~Overlap(s, t)

Shown(p) == \E s \in spans : s = Span(p) \/ Overlap(Span(p), s)

(* An occurrence of what was looked for, the query or, if it has none as a *)
(* whole, each of its terms, is neither shown nor next to what is shown    *)
(* only for one of three reasons: there are as many excerpts as were asked *)
(* for; it begins inside an earlier occurrence, and that one is shown or   *)
(* next to what is; or the search had stopped before it, at 100            *)
(* occurrences of the query or 30 of a term (_all_occurrences, overlaps).  *)
MatchesShown ==
    phase = "done" =>
        /\ exact <=> Occurs[Query] # {}
        /\ \/ Cardinality(spans) = MaxSnippets
           \/ \A n \in (IF exact THEN {Query} ELSE Terms) : \A p \in Occurs[n] :
                 \/ Shown(p)
                 \/ \E h \in Occurs[n] : h < p /\ p < h + Advance(n) /\ Shown(h)
                 \/ Cardinality({h \in candidates \cap Occurs[n] : h < p}) >= Limit(n)

(* Of the occurrences before from, _all_occurrences has all but those that *)
(* overlap one it has, and those it has do not overlap.                    *)
OccurrencesApart ==
    /\ \A p \in Occurs[needle] : p < from => \E h \in hits : h <= p /\ p < h + Advance(needle)
    /\ \A g, h \in hits : g < h => g + Advance(needle) <= h

================================================================================
