------------------------------- MODULE Selections ------------------------------
(***************************************************************************)
(* Which of a provider's rows the domain tools answer with: sec.py keeps   *)
(* the best, the first or the latest few of the rows that pass its filters,*)
(* finance.py tells which days of a request have no bar. Rows are known by *)
(* their place in the provider's answer; texts and dates are numbers in    *)
(* their order, 0 for one that is missing.                                 *)
(***************************************************************************)
EXTENDS Naturals, FiniteSets

(* The first k of S in the order of R, a set of pairs: sort, then [:k].    *)
UpTo(S, R, x) == {y \in S : y = x \/ <<y, x>> \in R}

FirstOf(S, R, k) == {x \in S : Cardinality(UpTo(S, R, x)) <= k}

(* The places of an answer in their own order, the order of a stable sort. *)
InPlace(rows) == {p \in (DOMAIN rows) \X (DOMAIN rows) : p[1] < p[2]}

-----------------------------------------------------------------------------
(***************************************************************************)
(* sec_resolve_company: rows have a ticker, a cik, a title, the terms of   *)
(* all three, and within, whether the query's text occurs in them.         *)
(***************************************************************************)
Companies(rows, query) ==
    {i \in DOMAIN rows : rows[i].within \/ query.terms \subseteq rows[i].terms}

MatchRank(row, query) ==
    CASE query.text \in {row.ticker, row.cik} -> 0
      [] query.text = row.title               -> 1
      [] row.within                           -> 2
      [] OTHER                                -> 3

BetterMatch(rows, query) ==
    LET rank(i) == MatchRank(rows[i], query)
    IN  {p \in (DOMAIN rows) \X (DOMAIN rows) :
            \/ rank(p[1]) < rank(p[2])
            \/ /\ rank(p[1]) = rank(p[2])
               /\ \/ rows[p[1]].ticker < rows[p[2]].ticker
                  \/ rows[p[1]].ticker = rows[p[2]].ticker /\ p[1] < p[2]}

(* A query without terms has no answer.                                    *)
Resolved(rows, query, maxResults) ==
    IF query.terms = {} THEN {}
    ELSE FirstOf(Companies(rows, query), BetterMatch(rows, query), maxResults)

-----------------------------------------------------------------------------
(***************************************************************************)
(* sec_list_filings and sec_get_company_facts: forms is empty where the    *)
(* caller named none, and a row without a date is within any bounds.       *)
(***************************************************************************)
Within(date, from, to) ==
    date # 0 => (from # 0 => from <= date) /\ (to # 0 => date <= to)

Filings(rows, forms, from, to) ==
    {i \in DOMAIN rows : /\ forms # {} => rows[i].form \in forms
                         /\ Within(rows[i].filed, from, to)}

Listed(rows, forms, from, to, limit) ==
    FirstOf(Filings(rows, forms, from, to), InPlace(rows), limit)

(* The observations of one concept; a period is compared by its end.       *)
Observations(rows, forms, from, to) ==
    {i \in DOMAIN rows :
        /\ forms # {} => rows[i].form \in forms
        /\ Within(IF rows[i].end # 0 THEN rows[i].end ELSE rows[i].filed, from, to)}

FiledLater(rows) ==
    {p \in (DOMAIN rows) \X (DOMAIN rows) :
        \/ rows[p[1]].filed > rows[p[2]].filed
        \/ rows[p[1]].filed = rows[p[2]].filed /\ p[1] < p[2]}

Facts(rows, forms, from, to, limit) ==
    FirstOf(Observations(rows, forms, from, to), FiledLater(rows), limit)

(* facts[c] are the rows of concept c. One without a row that passes counts*)
(* as missing, like one that the company does not report.                  *)
MissingConcepts(facts, requested, forms, from, to, limit) ==
    {c \in requested : \/ c \notin DOMAIN facts
                       \/ Facts(facts[c], forms, from, to, limit) = {}}

-----------------------------------------------------------------------------
(* market_get_bars: the days of the request on which no bar was observed.  *)
DaysWithoutBars(rows, from, to) ==
    {day \in from .. to : \A i \in DOMAIN rows : rows[i].date # day}

================================================================================
