------------------------------- MODULE TurnBudgets -----------------------------
(***************************************************************************)
(* The budgets of a turn that are counted from its messages: calls of MCP  *)
(* tools (integrations/mcp.py) and searches that the model's provider makes*)
(* (capabilities/openai_web.py). Both count the messages since the user's  *)
(* last one, so that the calls of one message of the model are counted     *)
(* together, before any of them runs. The retry middleware of the factory  *)
(* makes an MCP call again whose answer could not be converted, though the *)
(* server has had it: it is counted once and may run several times. Calls  *)
(* that the code interpreter makes (mcp_ptc_allowlist, empty unless it is  *)
(* configured) are in no message: they are not counted, and left out here. *)
(***************************************************************************)
EXTENDS Naturals, FiniteSets

CONSTANTS MaxMcpCalls,   \* mcp_max_calls_per_run
          Repeats,       \* max_retries of ToolRetryMiddleware: 2
          MaxSearches,   \* openai_web_search_max_calls
          Batch,         \* bound: MCP calls in one message of the model
          Burst          \* bound: searches in one call of the model

VARIABLES
    named,      \* calls of MCP tools in the messages of the turn
    searches,   \* searches in the messages of the turn
    due,        \* calls of the newest message to be made: <<call, attempt>>
    ran         \* history: the <<call, attempt>> that reached the MCP server

budgetVars == <<named, searches, due, ran>>

BudgetInit == named = 0 /\ searches = 0 /\ due = {} /\ ran = {}

(* A message of the user: what ran before it counts no more, and calls that*)
(* a stopped run left without an answer are not made.                      *)
UserMessage ==
    /\ named' = 0 /\ searches' = 0 /\ due' = {} /\ ran' = {}

(* _bounded: the search tool is offered while the budget is not spent.     *)
SearchOffered == searches < MaxSearches

(* A call is known by its place among the calls of the turn.               *)
ModelMessage ==
    /\ due = {}
    /\ \E calls \in 0 .. Batch, found \in 0 .. Burst :
          /\ found # 0 => SearchOffered
          /\ named' = named + calls
          /\ due' = {<<call, 1>> : call \in named + 1 .. named + calls}
          /\ searches' = searches + found
    /\ ran' = ran

WithinBudget == named <= MaxMcpCalls

(* MCPGatewayInterceptor.__call__: within the budget the request goes to   *)
(* the server, unless the tool is not allowed or the call has no RunContext*)
Reach(attempt) ==
    \/ WithinBudget /\ ran' = ran \cup {attempt}
    \/ ran' = ran

(* The call has an answer, which may be an error.                          *)
McpAnswer ==
    \E attempt \in due :
        /\ Reach(attempt)
        /\ due' = due \ {attempt}
        /\ UNCHANGED <<named, searches>>

(* What the server answered cannot be redacted or converted, and the       *)
(* middleware makes the call again.                                        *)
McpRaise ==
    \E attempt \in due :
        /\ attempt[2] <= Repeats
        /\ Reach(attempt)
        /\ due' = (due \ {attempt}) \cup {<<attempt[1], attempt[2] + 1>>}
        /\ UNCHANGED <<named, searches>>

BudgetNext == UserMessage \/ ModelMessage \/ McpAnswer \/ McpRaise

BudgetSpec == BudgetInit /\ [][BudgetNext]_budgetVars

-----------------------------------------------------------------------------
(* Of the calls that a turn names no more than its budget reach the server,*)
(* though calls of one message run side by side and a call is made again   *)
(* after it ran. Requests are not what is budgeted: the server may have    *)
(* Repeats + 1 of each of those calls (_within_budget, ToolRetryMiddleware)*)
McpWithinBudget ==
    /\ Cardinality({attempt[1] : attempt \in ran}) <= MaxMcpCalls
    /\ Cardinality(ran) <= MaxMcpCalls * (Repeats + 1)

(* Searches are counted only after the model call that made them: a turn   *)
(* exceeds its budget by less than the searches of one call (_bounded).    *)
SearchesWithinBudget == searches <= MaxSearches \/ searches < MaxSearches + Burst

================================================================================
