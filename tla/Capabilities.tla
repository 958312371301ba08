------------------------------ MODULE Capabilities -----------------------------
(***************************************************************************)
(* The domain tools of capabilities/ (sec.py, finance.py, macro.py) as the *)
(* agent calls them: a tool checks its arguments, is admitted by the       *)
(* gateway, sends the requests of one attempt together and, where the      *)
(* answer is large, writes a dataset into the sandbox. The retry           *)
(* middleware of agent/factory.py calls a tool whose attempt raised again, *)
(* from its start, so that the next attempt is admitted again. A dataset   *)
(* lasts as long as its sandbox, and the agent may delete it.              *)
(*                                                                         *)
(* What a tool makes of the rows it receives is in Selections and Excerpts.*)
(***************************************************************************)
EXTENDS CapabilityGateway

CONSTANTS ToolCalls,    \* calls of tools by the agent
          Scopes,       \* turns, and Threads of researchers
          Arguments,    \* arguments as the tool's schema normalises them
          MaxSeries,    \* series of one fred_get_observations: 10
          Retries       \* max_retries of ToolRetryMiddleware: 2

VARIABLES
    tool,     \* the calls
    holds,    \* the sandbox: the call whose dataset a file holds, if any
    removed,  \* history: the datasets removed since they were last written
    stored,   \* history: <<call, attempt>> whose dataset was written
    tried,    \* history: <<call, attempt>> that have asked for admission
    sent      \* history: those that were admitted

files == <<holds, removed, stored>>

toolVars == <<tool, files, tried, sent>>

Providers == {"SEC", "EDGAR", "Massive", "FRED"}    \* EDGAR: documents, read as text

CapabilityIds == {"sec.resolve_company", "sec.list_filings", "sec.get_filing",
                  "sec.company_facts", "market.resolve_instrument", "market.snapshots",
                  "market.bars", "market.corporate_actions", "fred.search_series",
                  "fred.observations"}

(* dataset_path: a file for each set of arguments, below a directory of    *)
(* the tool's own. The hash in the path of company facts is taken to be    *)
(* without collisions.                                                     *)
Datasets == {"filing", "facts"} \X Arguments

Dates == {"fine", "crossed"}    \* crossed: the first day is after the last

(* requests, those of one attempt; waiting, those without an answer yet;   *)
(* dataset, the file to write, in a set of one or none.                    *)
ToolStates ==
    [step : {"idle", "called", "asked", "writing", "stored", "answered", "failed"},
     key : Keys, provider : Providers, dates : Dates,
     requests : Nat, waiting : Nat, attempt : Nat,
     dataset : {{}} \cup {{d} : d \in Datasets}]

(* A call that has not been made: its key and provider mean nothing yet.   *)
Unmade == [step |-> "idle", key |-> CHOOSE k \in Keys : TRUE, provider |-> "SEC",
           dates |-> "fine", requests |-> 0, waiting |-> 0, dataset |-> {}, attempt |-> 0]

ToolInit ==
    /\ Init
    /\ tool = [c \in ToolCalls |-> Unmade]
    /\ holds = [d \in Datasets |-> {}]
    /\ removed = {}
    /\ stored = {}
    /\ tried = {}
    /\ sent = {}

-----------------------------------------------------------------------------
(***************************************************************************)
(* The tools, by what each asks for                                        *)
(***************************************************************************)
Call(c, capability, provider, dates, requests, dataset) ==
    /\ tool[c].step = "idle"
    /\ \E scope \in Scopes :
          tool' = [tool EXCEPT ![c] =
                     [step |-> "called", key |-> <<scope, capability>>,
                      provider |-> provider, dates |-> dates, requests |-> requests,
                      waiting |-> 0, dataset |-> dataset, attempt |-> 1]]
    /\ UNCHANGED <<vars, files, tried, sent>>

SecResolveCompany(c) == Call(c, "sec.resolve_company", "SEC", "fine", 1, {})

SecListFilings(c) ==
    \E dates \in Dates : Call(c, "sec.list_filings", "SEC", dates, 1, {})

SecGetFiling(c) ==
    \E a \in Arguments : Call(c, "sec.get_filing", "EDGAR", "fine", 1, {<<"filing", a>>})

SecGetCompanyFacts(c) ==
    \E dates \in Dates, a \in Arguments :
        Call(c, "sec.company_facts", "SEC", dates, 1, {<<"facts", a>>})

MarketResolveInstrument(c) == Call(c, "market.resolve_instrument", "Massive", "fine", 1, {})

MarketGetSnapshots(c) == Call(c, "market.snapshots", "Massive", "fine", 1, {})

MarketGetBars(c) ==
    \E dates \in Dates : Call(c, "market.bars", "Massive", dates, 1, {})

(* Dividends and splits are asked for together.                            *)
MarketGetCorporateActions(c) ==
    \E dates \in Dates : Call(c, "market.corporate_actions", "Massive", dates, 2, {})

FredSearchSeries(c) == Call(c, "fred.search_series", "FRED", "fine", 1, {})

(* The metadata and the observations of every series are asked for together.*)
FredGetObservations(c) ==
    \E dates \in Dates, series \in 1 .. MaxSeries :
        Call(c, "fred.observations", "FRED", dates, 2 * series, {})

-----------------------------------------------------------------------------
(***************************************************************************)
(* Answers of a provider                                                   *)
(***************************************************************************)
Statuses == {200, 304, 400, 403, 404, 408, 425, 429, 500, 503}

(* The body of a response: a JSON object, one whose status is an error,    *)
(* another JSON value, or no JSON.                                         *)
Bodies == {"object", "rejection", "value", "garbled"}

(* raise_for_provider_status with is_retryable_tool_error: an error is     *)
(* either worth another attempt or final.                                  *)
StatusVerdict(status) ==
    IF status < 400 THEN "ok"
    ELSE IF status \in {408, 425, 429} \/ status >= 500 THEN "retry" ELSE "final"

(* A body that is no JSON raises a ValueError, which is final; _fred_get   *)
(* makes it an error worth another attempt.                                *)
SecVerdicts(body) ==
    CASE body = "garbled" -> {"final"}
      [] body = "value"   -> {"ok", "retry"}    \* sec_resolve_company takes any value
      [] OTHER            -> {"ok"}

MassiveVerdicts(body) ==
    CASE body = "garbled" -> {"final"}
      [] body = "object"  -> {"ok"}
      [] OTHER            -> {"retry"}

FredVerdicts(body) == IF body \in {"object", "rejection"} THEN {"ok"} ELSE {"retry"}

Verdicts(provider, status, body) ==
    IF StatusVerdict(status) # "ok" THEN {StatusVerdict(status)}
    ELSE CASE provider = "SEC"     -> SecVerdicts(body)
           [] provider = "Massive" -> MassiveVerdicts(body)
           [] provider = "FRED"    -> FredVerdicts(body)
           [] OTHER                -> {"ok"}

-----------------------------------------------------------------------------
(***************************************************************************)
(* The attempts of a call                                                  *)
(***************************************************************************)
(* An attempt has raised: ToolRetryMiddleware tries again or answers with  *)
(* the error.                                                              *)
Raise(c, verdict) ==
    tool' = IF verdict = "retry" /\ tool[c].attempt <= Retries
            THEN [tool EXCEPT ![c].step = "called", ![c].attempt = @ + 1]
            ELSE [tool EXCEPT ![c].step = "failed"]

(* The check of the dates raises a ValueError before anything is counted.  *)
RejectDates(c) ==
    /\ tool[c].step = "called" /\ tool[c].dates = "crossed"
    /\ Raise(c, "final")
    /\ UNCHANGED <<vars, files, tried, sent>>

(* gateway.admit_runtime, then the requests leave; over the budget it      *)
(* raises a RuntimeError, which is tried again.                            *)
Try(c) ==
    LET this == <<c, tool[c].attempt>>
    IN  /\ tool[c].step = "called" /\ tool[c].dates = "fine"
        /\ Admit(tool[c].key)
        /\ tried' = tried \cup {this}
        /\ IF calls[tool[c].key] < MaxCalls
           THEN /\ tool' = [tool EXCEPT ![c].step = "asked", ![c].waiting = tool[c].requests]
                /\ sent' = sent \cup {this}
           ELSE Raise(c, "retry") /\ sent' = sent
        /\ UNCHANGED files

(* A request is answered. The first one that raises ends the attempt, and  *)
(* closing the client gives up the others.                                 *)
Respond(c) ==
    /\ tool[c].step = "asked"
    /\ \E status \in Statuses, body \in Bodies :
       \E verdict \in Verdicts(tool[c].provider, status, body) :
          IF verdict = "ok"
          THEN tool' = [tool EXCEPT ![c].waiting = @ - 1,
                          ![c].step = IF tool[c].waiting > 1 THEN "asked"
                                      ELSE IF tool[c].dataset = {} THEN "answered"
                                      ELSE "writing"]
          ELSE Raise(c, verdict)
    /\ UNCHANGED <<vars, files, tried, sent>>

(* No answer at all, or a setting that the client needs is missing.        *)
GetNoResponse(c) ==
    /\ tool[c].step = "asked"
    /\ Raise(c, "retry")
    /\ UNCHANGED <<vars, files, tried, sent>>

(* The sandbox writes the file of this attempt.                            *)
Store(c) ==
    /\ tool[c].step = "writing"
    /\ \E d \in tool[c].dataset : /\ holds' = [holds EXCEPT ![d] = {c}]
                                  /\ removed' = removed \ {d}
    /\ stored' = stored \cup {<<c, tool[c].attempt>>}
    /\ tool' = [tool EXCEPT ![c].step = "stored"]
    /\ UNCHANGED <<vars, tried, sent>>

(* materialize_text: awrite returns and the tool answers, or it raises,    *)
(* with the file written (its reply is lost) or not (the sandbox may also  *)
(* refuse because the file exists).                                        *)
Materialize(c) ==
    /\ \/ tool[c].step = "stored" /\ tool' = [tool EXCEPT ![c].step = "answered"]
       \/ tool[c].step \in {"writing", "stored"} /\ Raise(c, "retry")
    /\ UNCHANGED <<vars, files, tried, sent>>

(* The agent deletes datasets, or a command of its does, or the sandbox is *)
(* lost with all of them: they are not restored with the workspace.        *)
Remove(lost) ==
    /\ holds' = [d \in Datasets |-> IF d \in lost THEN {} ELSE holds[d]]
    /\ removed' = removed \cup lost
    /\ UNCHANGED <<vars, tool, stored, tried, sent>>

ToolStep(c) ==
    \/ SecResolveCompany(c) \/ SecListFilings(c) \/ SecGetFiling(c) \/ SecGetCompanyFacts(c)
    \/ MarketResolveInstrument(c) \/ MarketGetSnapshots(c) \/ MarketGetBars(c)
    \/ MarketGetCorporateActions(c)
    \/ FredSearchSeries(c) \/ FredGetObservations(c)
    \/ RejectDates(c) \/ Try(c) \/ Respond(c) \/ GetNoResponse(c)
    \/ Store(c) \/ Materialize(c)

ToolNext == \/ \E c \in ToolCalls : ToolStep(c)
            \/ \E lost \in SUBSET Datasets : Remove(lost)

ToolSpec == ToolInit /\ [][ToolNext]_<<vars, toolVars>>

-----------------------------------------------------------------------------
(* Every variable holds values of its kind.                                *)
ToolTypeOK ==
    /\ TypeOK
    /\ tool \in [ToolCalls -> ToolStates]
    /\ holds \in [Datasets -> SUBSET ToolCalls]
    /\ removed \subseteq Datasets
    /\ stored \subseteq sent
    /\ tried \subseteq ToolCalls \X (1 .. Retries + 1)
    /\ sent \subseteq tried

OfKey(attempts, k) == {p \in attempts : tool[p[1]].key = k}

(* Retries are counted: of the attempts of a turn's calls of a capability, *)
(* the provider sees the first MaxCalls and no more, unless the map has    *)
(* forgotten the key (admit_runtime, called by every attempt of a tool).   *)
RequestsWithinBudget ==
    \A k \in Keys \ forgotten :
        LET made == Cardinality(OfKey(tried, k))
        IN  Cardinality(OfKey(sent, k)) = IF made <= MaxCalls THEN made ELSE MaxCalls

(* The answer that names a dataset is that of the attempt that wrote it,   *)
(* never of an earlier one; and the file is there, as this call or a later *)
(* one with the same arguments wrote it, whatever calls failed meanwhile,  *)
(* until it is removed (dataset_path, materialize_text). Once removed it   *)
(* may be missing while the answer still names it.                         *)
DatasetBehindAnswer ==
    \A c \in ToolCalls : \A d \in tool[c].dataset :
        tool[c].step = "answered" =>
            /\ <<c, tool[c].attempt>> \in stored
            /\ \/ d \in removed
               \/ \E e \in ToolCalls, n \in 1 .. Retries + 1 :
                     holds[d] = {e} /\ d \in tool[e].dataset /\ <<e, n>> \in stored

(* An attempt asks for admission once, before its requests leave: one that *)
(* is made again is counted again, and dates out of order cost nothing     *)
(* (admit_runtime comes after the check of the dates in every tool).       *)
EveryAttemptCounted ==
    \A c \in ToolCalls :
        /\ tool[c].attempt <= Retries + 1
        /\ \A n \in 1 .. Retries + 1 :
              <<c, n>> \in tried <=>
                  \/ n < tool[c].attempt
                  \/ n = tool[c].attempt /\ tool[c].dates = "fine" /\ tool[c].step # "called"

================================================================================
