----------------------------- MODULE BrowserProofs -----------------------------
(***************************************************************************)
(* What a browser shows of a run it follows (EventStream), for any number  *)
(* of parts, calls and broken connections, and what its API client keeps   *)
(* (ApiClient), for any number of requests.                                *)
(*                                                                         *)
(* What is shown is a fold over the events of the view. A fold is a        *)
(* function defined by recursion over the sets 1 .. k: ActivitiesAreFold   *)
(* and MessagesAreFold state its equations, from which the facts about     *)
(* every sequence follow by induction over k.                              *)
(***************************************************************************)
EXTENDS EventStream, ApiClient, FiniteSetTheorems, SequenceTheorems,
        WellFoundedInduction, TLAPS

-----------------------------------------------------------------------------
(* Induction up to n, of membership in a set: no operator is instantiated. *)
LEMMA LeastNatural ==
    ASSUME NEW S \in SUBSET Nat, S # {}
    PROVE  \E x \in S : \A y \in S : x <= y
<1>1. \E x \in S : \A y \in S : <<y, x>> \notin OpToRel(<, Nat)
  BY WFMin, NatLessThanWellFounded, Zenon
<1>2. \A x, y \in Nat : y < x => <<y, x>> \in OpToRel(<, Nat)
  BY DEF OpToRel
<1>3. \E x \in S : \A y \in S : ~(y < x)
  BY <1>1, <1>2
<1> QED  BY <1>3

LEMMA InductionUpTo ==
    ASSUME NEW n \in Nat, NEW S, 0 \in S,
           \A k \in 0 .. n - 1 : k \in S => k + 1 \in S
    PROVE  \A k \in 0 .. n : k \in S
<1> SUFFICES ASSUME NEW k \in 0 .. n, k \notin S PROVE FALSE
  OBVIOUS
<1> DEFINE T == {i \in 0 .. n : i \notin S}
<1>1. PICK m \in T : \A y \in T : m <= y
  <2>1. T \in SUBSET Nat /\ T # {}
    OBVIOUS
  <2> QED  BY <2>1, LeastNatural
<1>2. m \in 1 .. n /\ m - 1 \in 0 .. n - 1 /\ m - 1 \notin T
  BY <1>1
<1> QED  BY <1>2

-----------------------------------------------------------------------------
(* The two folds of the reducer.                                           *)
LEMMA MaxIs ==
    ASSUME NEW m \in Nat, NEW s \in SUBSET (1 .. m), m \in s
    PROVE  Max(s) = m
<1>1. /\ m \in s /\ \A y \in s : m >= y
      /\ \A x \in s : (\A y \in s : x >= y) => x = m
  OBVIOUS
<1>2. Max(s) \in s /\ \A y \in s : Max(s) >= y
  BY <1>1, Zenon DEF Max
<1> QED  BY <1>1, <1>2

(* h[k] is what the first k events come to.                                *)
ActivityFold(events, n, h) ==
    /\ h[0] = NoActivities
    /\ \A k \in 1 .. n : h[k] = Merge(h[k - 1], events[k])

MessageFold(events, n, h) ==
    /\ h[0] = <<>>
    /\ \A k \in 1 .. n : h[k] = ShowMessage(h[k - 1], events[k])

(* f is the function that FoldLeft and MapThenFoldSet choose.              *)
ActivityIter(events, m, f) ==
    f = [s \in SUBSET (1 .. m) |->
            IF s = {} THEN NoActivities ELSE Merge(f[s \ {Max(s)}], events[Max(s)])]

MessageIter(events, m, f) ==
    f = [s \in SUBSET (1 .. m) |->
            IF s = {} THEN <<>> ELSE ShowMessage(f[s \ {Max(s)}], events[Max(s)])]

LEMMA ActivityIterExists ==
    ASSUME NEW n \in Nat, NEW events
    PROVE  \E f : ActivityIter(events, n, f)
<1> DEFINE S == {m \in 0 .. n : \E f : ActivityIter(events, m, f)}
<1>1. 0 \in S
  <2> DEFINE f == [s \in SUBSET (1 .. 0) |-> NoActivities]
  <2>1. ActivityIter(events, 0, f)
    BY DEF ActivityIter
  <2> QED  BY <2>1
<1>2. \A m \in 0 .. n - 1 : m \in S => m + 1 \in S
  <2> SUFFICES ASSUME NEW m \in 0 .. n - 1, NEW g, ActivityIter(events, m, g)
               PROVE  \E f : ActivityIter(events, m + 1, f)
    OBVIOUS
  <2> DEFINE f == [s \in SUBSET (1 .. m + 1) |->
                      IF m + 1 \in s THEN Merge(g[s \ {m + 1}], events[m + 1]) ELSE g[s]]
  <2>1. \A s \in SUBSET (1 .. m + 1) : m + 1 \notin s => s \in SUBSET (1 .. m)
    OBVIOUS
  <2>2. \A s \in SUBSET (1 .. m + 1) : m + 1 \in s => Max(s) = m + 1
    BY MaxIs
  <2>3. \A s \in SUBSET (1 .. m) :
           g[s] = IF s = {} THEN NoActivities ELSE Merge(g[s \ {Max(s)}], events[Max(s)])
    BY DEF ActivityIter
  <2>4. ASSUME NEW s \in SUBSET (1 .. m + 1)
        PROVE  f[s] = IF s = {} THEN NoActivities
                      ELSE Merge(f[s \ {Max(s)}], events[Max(s)])
    <3>1. CASE m + 1 \in s
      <4>1. s \ {m + 1} \in SUBSET (1 .. m + 1) /\ m + 1 \notin s \ {m + 1}
        OBVIOUS
      <4>2. f[s \ {m + 1}] = g[s \ {m + 1}]
        BY <4>1
      <4>3. f[s] = Merge(g[s \ {m + 1}], events[m + 1])
        BY <3>1
      <4> QED  BY <4>2, <4>3, <3>1, <2>2
    <3>2. CASE m + 1 \notin s
      <4>1. f[s] = g[s] /\ s \in SUBSET (1 .. m)
        BY <3>2, <2>1
      <4>2. s \ {Max(s)} \in SUBSET (1 .. m + 1) /\ m + 1 \notin s \ {Max(s)}
        BY <3>2
      <4>3. f[s \ {Max(s)}] = g[s \ {Max(s)}]
        BY <4>2
      <4> QED  BY <4>1, <4>3, <2>3
    <3> QED  BY <3>1, <3>2
  <2>5. ActivityIter(events, m + 1, f)
    <3> HIDE DEF f
    <3>1. f = [s \in SUBSET (1 .. m + 1) |-> f[s]]
      BY DEF f
    <3> QED  BY <2>4, <3>1 DEF ActivityIter
  <2> QED  BY <2>5
<1> HIDE DEF S
<1>3. \A k \in 0 .. n : k \in S
  BY <1>1, <1>2, InductionUpTo
<1> QED  BY <1>3 DEF S

LEMMA MessageIterExists ==
    ASSUME NEW n \in Nat, NEW events
    PROVE  \E f : MessageIter(events, n, f)
<1> DEFINE S == {m \in 0 .. n : \E f : MessageIter(events, m, f)}
<1>1. 0 \in S
  <2> DEFINE f == [s \in SUBSET (1 .. 0) |-> <<>>]
  <2>1. MessageIter(events, 0, f)
    BY DEF MessageIter
  <2> QED  BY <2>1
<1>2. \A m \in 0 .. n - 1 : m \in S => m + 1 \in S
  <2> SUFFICES ASSUME NEW m \in 0 .. n - 1, NEW g, MessageIter(events, m, g)
               PROVE  \E f : MessageIter(events, m + 1, f)
    OBVIOUS
  <2> DEFINE f == [s \in SUBSET (1 .. m + 1) |->
                      IF m + 1 \in s THEN ShowMessage(g[s \ {m + 1}], events[m + 1])
                      ELSE g[s]]
  <2>1. \A s \in SUBSET (1 .. m + 1) : m + 1 \notin s => s \in SUBSET (1 .. m)
    OBVIOUS
  <2>2. \A s \in SUBSET (1 .. m + 1) : m + 1 \in s => Max(s) = m + 1
    BY MaxIs
  <2>3. \A s \in SUBSET (1 .. m) :
           g[s] = IF s = {} THEN <<>> ELSE ShowMessage(g[s \ {Max(s)}], events[Max(s)])
    BY DEF MessageIter
  <2>4. ASSUME NEW s \in SUBSET (1 .. m + 1)
        PROVE  f[s] = IF s = {} THEN <<>>
                      ELSE ShowMessage(f[s \ {Max(s)}], events[Max(s)])
    <3>1. CASE m + 1 \in s
      <4>1. s \ {m + 1} \in SUBSET (1 .. m + 1) /\ m + 1 \notin s \ {m + 1}
        OBVIOUS
      <4>2. f[s \ {m + 1}] = g[s \ {m + 1}]
        BY <4>1
      <4>3. f[s] = ShowMessage(g[s \ {m + 1}], events[m + 1])
        BY <3>1
      <4> QED  BY <4>2, <4>3, <3>1, <2>2
    <3>2. CASE m + 1 \notin s
      <4>1. f[s] = g[s] /\ s \in SUBSET (1 .. m)
        BY <3>2, <2>1
      <4>2. s \ {Max(s)} \in SUBSET (1 .. m + 1) /\ m + 1 \notin s \ {Max(s)}
        BY <3>2
      <4>3. f[s \ {Max(s)}] = g[s \ {Max(s)}]
        BY <4>2
      <4> QED  BY <4>1, <4>3, <2>3
    <3> QED  BY <3>1, <3>2
  <2>5. MessageIter(events, m + 1, f)
    <3> HIDE DEF f
    <3>1. f = [s \in SUBSET (1 .. m + 1) |-> f[s]]
      BY DEF f
    <3> QED  BY <2>4, <3>1 DEF MessageIter
  <2> QED  BY <2>5
<1> HIDE DEF S
<1>3. \A k \in 0 .. n : k \in S
  BY <1>1, <1>2, InductionUpTo
<1> QED  BY <1>3 DEF S

LEMMA ActivitiesAreFold ==
    ASSUME NEW n \in Nat, NEW events, DOMAIN events = 1 .. n
    PROVE  \E h : ActivityFold(events, n, h) /\ ActivitiesShown(events) = h[n]
<1> DEFINE f == CHOOSE f : ActivityIter(events, n, f)
           h == [k \in 0 .. n |-> f[1 .. k]]
<1>1. ActivityIter(events, n, f)
  BY ActivityIterExists
<1>2. ActivitiesShown(events) = f[1 .. n]
  BY DEF ActivitiesShown, FoldLeft, MapThenFoldSet, ActivityIter
<1> HIDE DEF f
<1>3. h[0] = NoActivities
  BY <1>1 DEF ActivityIter
<1>4. ASSUME NEW k \in 1 .. n
      PROVE  h[k] = Merge(h[k - 1], events[k])
  <2>1. 1 .. k \in SUBSET (1 .. n) /\ 1 .. k # {} /\ Max(1 .. k) = k
    BY MaxIs
  <2>2. (1 .. k) \ {k} = 1 .. k - 1 /\ k - 1 \in 0 .. n
    OBVIOUS
  <2>3. \A s \in SUBSET (1 .. n) : s # {} =>
           f[s] = Merge(f[s \ {Max(s)}], events[Max(s)])
    BY <1>1 DEF ActivityIter
  <2>4. f[1 .. k] = Merge(f[(1 .. k) \ {k}], events[k])
    BY <2>1, <2>3
  <2>5. h[k] = f[1 .. k] /\ h[k - 1] = f[1 .. k - 1]
    BY <2>2
  <2> QED  BY <2>2, <2>4, <2>5
<1>5. h[n] = f[1 .. n]
  OBVIOUS
<1> HIDE DEF h
<1> QED  BY <1>2, <1>3, <1>4, <1>5 DEF ActivityFold

LEMMA MessagesAreFold ==
    ASSUME NEW n \in Nat, NEW events, DOMAIN events = 1 .. n
    PROVE  \E h : MessageFold(events, n, h) /\ MessagesShown(events) = h[n]
<1> DEFINE f == CHOOSE f : MessageIter(events, n, f)
           h == [k \in 0 .. n |-> f[1 .. k]]
<1>1. MessageIter(events, n, f)
  BY MessageIterExists
<1>2. MessagesShown(events) = f[1 .. n]
  BY DEF MessagesShown, FoldLeft, MapThenFoldSet, MessageIter
<1> HIDE DEF f
<1>3. h[0] = <<>>
  BY <1>1 DEF MessageIter
<1>4. ASSUME NEW k \in 1 .. n
      PROVE  h[k] = ShowMessage(h[k - 1], events[k])
  <2>1. 1 .. k \in SUBSET (1 .. n) /\ 1 .. k # {} /\ Max(1 .. k) = k
    BY MaxIs
  <2>2. (1 .. k) \ {k} = 1 .. k - 1 /\ k - 1 \in 0 .. n
    OBVIOUS
  <2>3. \A s \in SUBSET (1 .. n) : s # {} =>
           f[s] = ShowMessage(f[s \ {Max(s)}], events[Max(s)])
    BY <1>1 DEF MessageIter
  <2>4. f[1 .. k] = ShowMessage(f[(1 .. k) \ {k}], events[k])
    BY <2>1, <2>3
  <2>5. h[k] = f[1 .. k] /\ h[k - 1] = f[1 .. k - 1]
    BY <2>2
  <2> QED  BY <2>2, <2>4, <2>5
<1>5. h[n] = f[1 .. n]
  OBVIOUS
<1> HIDE DEF h
<1> QED  BY <1>2, <1>3, <1>4, <1>5 DEF MessageFold

-----------------------------------------------------------------------------
(* What the folds come to.                                                 *)
IsMessage(e) == e.kind = "message"

(* Messages in the order of their parts; no call after its own result.     *)
InOrder(events) ==
    \A i, j \in DOMAIN events :
        i < j /\ IsMessage(events[i]) /\ IsMessage(events[j]) => events[i].of < events[j].of

CallsFirst(events) ==
    \A i, j \in DOMAIN events :
        ~(/\ i < j /\ events[i].of = events[j].of
          /\ events[i].kind = "result" /\ events[j].kind = "call")

MessagesOf(events) == {events[i].of : i \in {k \in DOMAIN events : IsMessage(events[k])}}

Increasing(shown) == \A i, j \in DOMAIN shown : i < j => shown[i] < shown[j]

(* The first k events have been shown as t: the messages among them, and   *)
(* each smaller than those that follow if they are in order.               *)
MessagesUpTo(events, k, t) ==
    /\ t \in Seq(Nat)
    /\ Range(t) = {events[i].of : i \in {j \in 1 .. k : IsMessage(events[j])}}
    /\ InOrder(events) => Increasing(t)

LEMMA RangeOfAppend ==
    ASSUME NEW S, NEW t \in Seq(S), NEW x \in S
    PROVE  Range(Append(t, x)) = Range(t) \cup {x}
<1> DEFINE u == Append(t, x)
<1>1. /\ DOMAIN u = 1 .. Len(t) + 1 /\ DOMAIN t = 1 .. Len(t) /\ Len(t) \in Nat
      /\ \A i \in 1 .. Len(t) : u[i] = t[i]
      /\ u[Len(t) + 1] = x
  OBVIOUS
<1>2. Range(u) \subseteq Range(t) \cup {x}
  <2> SUFFICES ASSUME NEW i \in DOMAIN u PROVE u[i] \in Range(t) \cup {x}
    BY DEF Range
  <2> QED  BY <1>1 DEF Range
<1>3. Range(t) \subseteq Range(u)
  <2> SUFFICES ASSUME NEW i \in DOMAIN t PROVE t[i] \in Range(u)
    BY DEF Range
  <2>1. i \in DOMAIN u /\ u[i] = t[i]
    BY <1>1
  <2> HIDE DEF u
  <2> QED  BY <2>1 DEF Range
<1>4. x \in Range(u)
  <2>1. Len(t) + 1 \in DOMAIN u /\ u[Len(t) + 1] = x
    BY <1>1
  <2> HIDE DEF u
  <2> QED  BY <2>1 DEF Range
<1> QED  BY <1>2, <1>3, <1>4

LEMMA ShowKeeps ==
    ASSUME NEW n \in Nat, NEW events \in [1 .. n -> Events], NEW k \in 1 .. n, NEW t,
           MessagesUpTo(events, k - 1, t)
    PROVE  MessagesUpTo(events, k, ShowMessage(t, events[k]))
<1> DEFINE e == events[k]
           old == {j \in 1 .. k - 1 : IsMessage(events[j])}
           new == {j \in 1 .. k : IsMessage(events[j])}
<1>1. t \in Seq(Nat) /\ Range(t) = {events[i].of : i \in old}
      /\ (InOrder(events) => Increasing(t))
  BY DEF MessagesUpTo
<1>2. CASE IsMessage(e)
  <2>1. e.of \in Nat
    <3>1. e \in Events
      OBVIOUS
    <3> QED  BY <1>2, <3>1, Bounds DEF Events, IsMessage
  <2>2. ShowMessage(t, e) = Append(t, e.of)
    BY <1>2 DEF ShowMessage, IsMessage
  <2>3. new = old \cup {k}
    BY <1>2
  <2>4. Range(Append(t, e.of)) = Range(t) \cup {e.of}
    BY <1>1, <2>1, RangeOfAppend
  <2>5. {events[i].of : i \in new} = {events[i].of : i \in old} \cup {e.of}
    BY <2>3
  <2>6. ASSUME InOrder(events) PROVE Increasing(Append(t, e.of))
    <3>1. \A i \in DOMAIN t : t[i] < e.of
      <4> SUFFICES ASSUME NEW i \in DOMAIN t PROVE t[i] < e.of
        OBVIOUS
      <4>1. PICK j \in old : t[i] = events[j].of
        <5>1. t[i] \in Range(t)
          BY DEF Range
        <5> QED  BY <1>1, <5>1
      <4> QED  BY <1>2, <2>6, <4>1 DEF InOrder
    <3> QED  BY <1>1, <2>1, <2>6, <3>1 DEF Increasing
  <2> HIDE DEF new, old, e
  <2>7. Append(t, e.of) \in Seq(Nat)
    BY <1>1, <2>1
  <2> QED  BY <1>1, <2>2, <2>4, <2>5, <2>6, <2>7 DEF MessagesUpTo, new, e
<1>3. CASE ~IsMessage(e)
  <2>1. new = old /\ ShowMessage(t, e) = t
    BY <1>3 DEF ShowMessage, IsMessage
  <2> QED  BY <1>1, <2>1 DEF MessagesUpTo
<1> QED  BY <1>2, <1>3

LEMMA ShownAre ==
    ASSUME NEW events \in Seq(Events)
    PROVE  /\ MessagesShown(events) \in Seq(Nat)
           /\ Range(MessagesShown(events)) = MessagesOf(events)
           /\ InOrder(events) => Increasing(MessagesShown(events))
<1> DEFINE n == Len(events)
<1>1. n \in Nat /\ DOMAIN events = 1 .. n /\ events \in [1 .. n -> Events]
  OBVIOUS
<1>2. PICK h : MessageFold(events, n, h) /\ MessagesShown(events) = h[n]
  BY <1>1, MessagesAreFold
<1> DEFINE S == {k \in 0 .. n : MessagesUpTo(events, k, h[k])}
<1>3. 0 \in S
  <2>1. h[0] = <<>> /\ <<>> \in Seq(Nat) /\ Increasing(<<>>) /\ Range(<<>>) = {}
    BY <1>2 DEF MessageFold, Increasing, Range
  <2>2. {events[i].of : i \in {j \in 1 .. 0 : IsMessage(events[j])}} = {}
    OBVIOUS
  <2>3. MessagesUpTo(events, 0, <<>>)
    BY <2>1, <2>2 DEF MessagesUpTo
  <2> QED  BY <1>1, <2>1, <2>3
<1>4. ASSUME NEW k \in 0 .. n - 1, k \in S PROVE k + 1 \in S
  <2>1. k + 1 \in 1 .. n /\ (k + 1) - 1 = k
    BY <1>1
  <2>2. h[k + 1] = ShowMessage(h[k], events[k + 1])
    BY <1>2, <2>1 DEF MessageFold
  <2> QED  BY <1>1, <1>4, <2>1, <2>2, ShowKeeps
<1> HIDE DEF S
<1>5. \A k \in 0 .. n : k \in S
  BY <1>1, <1>3, <1>4, InductionUpTo
<1>6. MessagesUpTo(events, n, MessagesShown(events))
  BY <1>1, <1>2, <1>5 DEF S
<1> QED  BY <1>1, <1>6 DEF MessagesUpTo, MessagesOf

(* What the first k events say of calls and of results.                    *)
CallsUpTo(events, k) ==
    {events[i].of : i \in {j \in 1 .. k : events[j].kind = "call"}}

ResultsUpTo(events, k) ==
    {events[i].of : i \in {j \in 1 .. k : events[j].kind = "result"}}

(* items is what the first k events leave: the result of each call is      *)
(* shown, a start under its task only, and what is running is a call whose *)
(* result has not come.                                                    *)
SettledUpTo(events, k, items) ==
    /\ \A c \in ResultsUpTo(events, k) :
          /\ ResultActivity(c) \in DOMAIN items
          /\ c \in Starts => <<"call", c>> \notin DOMAIN items
    /\ \A id \in DOMAIN items : items[id] = "running" =>
          \E d \in CallsUpTo(events, k) \ ResultsUpTo(events, k) : CallActivity(d) = id

LEMMA ActivityOf ==
    /\ \A c, d : <<"call", c>> = <<"call", d>> => c = d
    /\ \A c, d : <<"call", c>> # <<"task", d>>
    /\ \A c \in Checks : CallActivity(c) = <<"task", TaskOf[c]>>
    /\ \A c : c \notin Checks => CallActivity(c) = <<"call", c>>
    /\ \A c \in Starts : ResultActivity(c) = <<"task", c>> /\ c \notin Checks
    /\ \A c : c \notin Starts => ResultActivity(c) = CallActivity(c)
    /\ \A c \in Starts : Replaced(c) = {<<"call", c>>}
    /\ \A c, id : id \in Replaced(c) => id = <<"call", c>> /\ c \in Starts \cup Checks
BY CallKinds DEF CallActivity, ResultActivity, Replaced

LEMMA CallKeepsSettled ==
    ASSUME NEW n \in Nat, NEW events \in [1 .. n -> Events], CallsFirst(events),
           NEW k \in 1 .. n, NEW items, SettledUpTo(events, k - 1, items),
           events[k].kind = "call"
    PROVE  SettledUpTo(events, k, Merge(items, events[k]))
<1> DEFINE c == events[k].of
           next == With(items, CallActivity(c), "running")
           C == CallsUpTo(events, k - 1)
           R == ResultsUpTo(events, k - 1)
<1>1. CallsUpTo(events, k) = C \cup {c} /\ ResultsUpTo(events, k) = R
  <2>1. {j \in 1 .. k : events[j].kind = "call"}
           = {j \in 1 .. k - 1 : events[j].kind = "call"} \cup {k}
    OBVIOUS
  <2>2. {j \in 1 .. k : events[j].kind = "result"}
           = {j \in 1 .. k - 1 : events[j].kind = "result"}
    OBVIOUS
  <2>3. CallsUpTo(events, k) = C \cup {c}
    BY <2>1 DEF CallsUpTo
  <2>4. ResultsUpTo(events, k) = R
    BY <2>2 DEF ResultsUpTo
  <2> QED  BY <2>3, <2>4
<1>2. c \notin R
  <2> SUFFICES ASSUME NEW i \in 1 .. k - 1, events[i].kind = "result", events[i].of = c
               PROVE  FALSE
    BY DEF ResultsUpTo
  <2>1. i \in DOMAIN events /\ k \in DOMAIN events /\ i < k
    OBVIOUS
  <2> QED  BY <2>1 DEF CallsFirst
<1>3. Merge(items, events[k]) = next
  BY DEF Merge
<1>4. /\ DOMAIN next = DOMAIN items \cup {CallActivity(c)}
      /\ \A id \in DOMAIN next : id # CallActivity(c) => next[id] = items[id]
  BY DEF With
<1> HIDE DEF c, C, R, next
<1>5. ASSUME NEW d \in R
      PROVE  /\ ResultActivity(d) \in DOMAIN next
             /\ d \in Starts => <<"call", d>> \notin DOMAIN next
  <2>1. /\ ResultActivity(d) \in DOMAIN items
        /\ d \in Starts => <<"call", d>> \notin DOMAIN items
    BY DEF SettledUpTo, R
  <2>2. d # c
    BY <1>2
  <2>3. CallActivity(c) # <<"call", d>>
    BY <2>2, ActivityOf
  <2> QED  BY <1>4, <2>1, <2>3
<1>6. ASSUME NEW id \in DOMAIN next, next[id] = "running"
      PROVE  \E d \in (C \cup {c}) \ R : CallActivity(d) = id
  <2>1. CASE id = CallActivity(c)
    BY <1>2, <2>1
  <2>2. CASE id # CallActivity(c)
    <3>1. id \in DOMAIN items /\ items[id] = "running"
      BY <1>4, <1>6, <2>2
    <3>2. \E d \in C \ R : CallActivity(d) = id
      BY <3>1 DEF SettledUpTo, C, R
    <3> QED  BY <3>2
  <2> QED  BY <2>1, <2>2
<1> QED  BY <1>1, <1>3, <1>5, <1>6 DEF SettledUpTo

LEMMA ResultKeepsSettled ==
    ASSUME NEW n \in Nat, NEW events \in [1 .. n -> Events],
           NEW k \in 1 .. n, NEW items, SettledUpTo(events, k - 1, items),
           events[k].kind = "result"
    PROVE  SettledUpTo(events, k, Merge(items, events[k]))
<1> DEFINE c == events[k].of
           left == Without(items, Replaced(c))
           next == With(left, ResultActivity(c), "complete")
           C == CallsUpTo(events, k - 1)
           R == ResultsUpTo(events, k - 1)
<1>1. CallsUpTo(events, k) = C /\ ResultsUpTo(events, k) = R \cup {c}
  <2>1. {j \in 1 .. k : events[j].kind = "call"}
           = {j \in 1 .. k - 1 : events[j].kind = "call"}
    OBVIOUS
  <2>2. {j \in 1 .. k : events[j].kind = "result"}
           = {j \in 1 .. k - 1 : events[j].kind = "result"} \cup {k}
    OBVIOUS
  <2>3. CallsUpTo(events, k) = C
    BY <2>1 DEF CallsUpTo
  <2>4. ResultsUpTo(events, k) = R \cup {c}
    BY <2>2 DEF ResultsUpTo
  <2> QED  BY <2>3, <2>4
<1>2. Merge(items, events[k]) = next
  BY DEF Merge
<1>3. /\ DOMAIN next = (DOMAIN items \ Replaced(c)) \cup {ResultActivity(c)}
      /\ next[ResultActivity(c)] = "complete"
      /\ \A id \in DOMAIN next : id # ResultActivity(c) => next[id] = items[id]
  <2>1. /\ DOMAIN left = DOMAIN items \ Replaced(c)
        /\ \A id \in DOMAIN left : left[id] = items[id]
    BY DEF Without
  <2> HIDE DEF left
  <2>2. DOMAIN next = DOMAIN left \cup {ResultActivity(c)}
    BY DEF With
  <2>3. /\ next[ResultActivity(c)] = "complete"
        /\ \A id \in DOMAIN left : id # ResultActivity(c) => next[id] = left[id]
    BY DEF With
  <2> HIDE DEF next
  <2> QED  BY <2>1, <2>2, <2>3
<1> HIDE DEF c, C, R, next
<1>4. ASSUME NEW d \in R \cup {c}
      PROVE  /\ ResultActivity(d) \in DOMAIN next
             /\ d \in Starts => <<"call", d>> \notin DOMAIN next
  <2>1. CASE d = c
    BY <1>3, <2>1, ActivityOf, Zenon
  <2>2. CASE d # c
    <3>1. /\ ResultActivity(d) \in DOMAIN items
          /\ d \in Starts => <<"call", d>> \notin DOMAIN items
      BY <2>2 DEF SettledUpTo, R
    <3>2. ResultActivity(d) \notin Replaced(c)
      BY <2>2, ActivityOf
    <3>3. d \in Starts => ResultActivity(c) # <<"call", d>>
      BY <2>2, ActivityOf
    <3> QED  BY <1>3, <3>1, <3>2, <3>3
  <2> QED  BY <2>1, <2>2
<1>5. ASSUME NEW id \in DOMAIN next, next[id] = "running"
      PROVE  \E d \in C \ (R \cup {c}) : CallActivity(d) = id
  <2>1. /\ id # ResultActivity(c) /\ id \in DOMAIN items /\ id \notin Replaced(c)
        /\ items[id] = "running"
    BY <1>3, <1>5
  <2>2. PICK d \in C \ R : CallActivity(d) = id
    BY <2>1 DEF SettledUpTo, C, R
  <2>3. d # c
    BY <2>1, <2>2, ActivityOf, Zenon
  <2> QED  BY <2>2, <2>3
<1> QED  BY <1>1, <1>2, <1>4, <1>5 DEF SettledUpTo

LEMMA SettledAlways ==
    ASSUME NEW events \in Seq(Events), CallsFirst(events)
    PROVE  SettledUpTo(events, Len(events), ActivitiesShown(events))
<1> DEFINE n == Len(events)
<1>1. n \in Nat /\ DOMAIN events = 1 .. n /\ events \in [1 .. n -> Events]
  OBVIOUS
<1>2. PICK h : ActivityFold(events, n, h) /\ ActivitiesShown(events) = h[n]
  BY <1>1, ActivitiesAreFold
<1> DEFINE S == {k \in 0 .. n : SettledUpTo(events, k, h[k])}
<1>3. 0 \in S
  <2>1. DOMAIN h[0] = {} /\ ResultsUpTo(events, 0) = {}
    BY <1>2 DEF ActivityFold, NoActivities, ResultsUpTo
  <2> QED  BY <1>1, <2>1 DEF SettledUpTo
<1>4. ASSUME NEW k \in 0 .. n - 1, k \in S PROVE k + 1 \in S
  <2> DEFINE m == k + 1
  <2>1. m \in 1 .. n /\ m - 1 = k /\ events[m] \in Events
    BY <1>1
  <2>2. h[m] = Merge(h[k], events[m])
    BY <1>2, <2>1 DEF ActivityFold
  <2>3. SettledUpTo(events, m - 1, h[k])
    BY <1>4, <2>1
  <2>4. CASE events[m].kind = "call"
    BY <1>1, <2>1, <2>2, <2>3, <2>4, CallKeepsSettled
  <2>5. CASE events[m].kind = "result"
    BY <1>1, <2>1, <2>2, <2>3, <2>5, ResultKeepsSettled
  <2>6. CASE events[m].kind = "message"
    <3>1. h[m] = h[k]
      BY <2>2, <2>6 DEF Merge
    <3>2. {j \in 1 .. m : events[j].kind = "call"} = {j \in 1 .. k : events[j].kind = "call"}
      BY <2>6
    <3>3. {j \in 1 .. m : events[j].kind = "result"}
             = {j \in 1 .. k : events[j].kind = "result"}
      BY <2>6
    <3>4. CallsUpTo(events, m) = CallsUpTo(events, k)
      BY <3>2 DEF CallsUpTo
    <3>5. ResultsUpTo(events, m) = ResultsUpTo(events, k)
      BY <3>3 DEF ResultsUpTo
    <3> QED  BY <1>4, <2>1, <3>1, <3>4, <3>5 DEF SettledUpTo
  <2>7. events[m].kind \in {"message", "call", "result"}
    BY <2>1 DEF Events
  <2> QED  BY <2>4, <2>5, <2>6, <2>7
<1> HIDE DEF S
<1>5. \A k \in 0 .. n : k \in S
  BY <1>1, <1>3, <1>4, InductionUpTo
<1> QED  BY <1>1, <1>2, <1>5 DEF S

(* Of any events in which no call follows its own result, the view shows   *)
(* each call with a result once and as settled.                            *)
Settles(events) ==
    LET shown == ActivitiesShown(events)
        n == Len(events)
    IN  \A c \in ResultsUpTo(events, n) :
            LET ids == {CallActivity(c), ResultActivity(c)} \cap DOMAIN shown
            IN  /\ Cardinality(ids) = 1
                /\ \A id \in ids : shown[id] = "running" =>
                      \E d \in CallsUpTo(events, n) \ ResultsUpTo(events, n) :
                          CallActivity(d) = id

LEMMA SettlesAlways ==
    ASSUME NEW events \in Seq(Events), CallsFirst(events)
    PROVE  Settles(events)
<1> DEFINE shown == ActivitiesShown(events)
           n == Len(events)
<1>1. SettledUpTo(events, n, shown)
  BY SettledAlways
<1> SUFFICES ASSUME NEW c \in ResultsUpTo(events, n)
             PROVE  LET ids == {CallActivity(c), ResultActivity(c)} \cap DOMAIN shown
                    IN  /\ Cardinality(ids) = 1
                        /\ \A id \in ids : shown[id] = "running" =>
                              \E d \in CallsUpTo(events, n) \ ResultsUpTo(events, n) :
                                  CallActivity(d) = id
  BY DEF Settles
<1> HIDE DEF shown, n
<1> DEFINE ids == {CallActivity(c), ResultActivity(c)} \cap DOMAIN shown
<1>2. ids = {ResultActivity(c)}
  <2>1. /\ ResultActivity(c) \in DOMAIN shown
        /\ c \in Starts => <<"call", c>> \notin DOMAIN shown
    BY <1>1 DEF SettledUpTo
  <2>2. c \notin Starts => ResultActivity(c) = CallActivity(c)
    BY ActivityOf, Zenon
  <2>3. c \in Starts => CallActivity(c) = <<"call", c>>
    BY ActivityOf, Zenon
  <2> QED  BY <2>1, <2>2, <2>3
<1>3. Cardinality(ids) = 1
  BY <1>2, FS_Singleton
<1>4. \A id \in ids : shown[id] = "running" =>
         \E d \in CallsUpTo(events, n) \ ResultsUpTo(events, n) : CallActivity(d) = id
  BY <1>1 DEF SettledUpTo
<1> QED  BY <1>3, <1>4

-----------------------------------------------------------------------------
(* The sequences that the projections make.                                *)
LEMMA OneOfEach ==
    ASSUME NEW calls
    PROVE  OneCall(calls) \subseteq calls /\ OneResult(calls) \subseteq calls
<1>1. \A c \in calls : \E d \in calls : CallActivity(d) = CallActivity(c)
  OBVIOUS
<1>2. \A c \in calls : \E d \in calls : ResultActivity(d) = ResultActivity(c)
  OBVIOUS
<1>3. OneCall(calls) \subseteq calls
  BY <1>1, Zenon DEF OneCall
<1>4. OneResult(calls) \subseteq calls
  BY <1>2, Zenon DEF OneResult
<1> QED  BY <1>3, <1>4

LEMMA EachIs ==
    ASSUME NEW kind \in {"call", "result"}, NEW calls \in SUBSET Calls,
           NEW live \in BOOLEAN
    PROVE  LET each == Each(kind, calls, live)
           IN  /\ each \in Seq(Events)
               /\ \A k \in DOMAIN each : each[k].kind = kind /\ each[k].of \in calls
<1>1. Cardinality(calls) \in Nat /\ Bijection(1 .. Cardinality(calls), calls) # {}
  <2>1. IsFiniteSet(calls)
    BY CallKinds, FS_Subset
  <2> QED  BY <2>1, FS_CardinalityType DEF ExistsBijection
<1> DEFINE n == Cardinality(calls)
<1>2. \E f \in [1 .. n -> calls] : IsInjective(f)
  BY <1>1 DEF Bijection, Injection
<1>3. SetToSeq(calls) \in [1 .. n -> calls]
  BY <1>2 DEF SetToSeq
<1> DEFINE each == [i \in 1 .. n |->
                       [kind |-> kind, of |-> SetToSeq(calls)[i], live |-> live]]
<1>4. Each(kind, calls, live) = each
  BY DEF Each
<1>5. \A i \in 1 .. n : /\ each[i] \in Events /\ each[i].kind = kind
                        /\ each[i].of \in calls
  BY <1>3 DEF Events
<1>6. each \in Seq(Events) /\ DOMAIN each = 1 .. n
  BY <1>1, <1>5
<1> QED  BY <1>4, <1>5, <1>6

(* The first m of the sequences, one after the other: where each element   *)
(* comes from, in order.                                                   *)
Flat(ss, m, t, from) ==
    /\ from \in [1 .. Len(t) -> (1 .. m) \X (Nat \ {0})]
    /\ \A k \in 1 .. Len(t) :
          from[k][2] <= Len(ss[from[k][1]]) /\ t[k] = ss[from[k][1]][from[k][2]]
    /\ \A j, k \in 1 .. Len(t) : j < k =>
          \/ from[j][1] < from[k][1]
          \/ from[j][1] = from[k][1] /\ from[j][2] < from[k][2]

FlattenIter(ss, m, f) ==
    f = [i \in 1 .. m |-> IF i = 1 THEN ss[i] ELSE f[i - 1] \o ss[i]]

LEMMA FlattenIterExists ==
    ASSUME NEW n \in Nat, NEW ss
    PROVE  \E f : FlattenIter(ss, n, f)
<1> DEFINE S == {m \in 0 .. n : \E f : FlattenIter(ss, m, f)}
<1>1. 0 \in S
  <2> DEFINE f == [i \in 1 .. 0 |-> ss[i]]
  <2>1. FlattenIter(ss, 0, f)
    BY DEF FlattenIter
  <2> QED  BY <2>1
<1>2. \A m \in 0 .. n - 1 : m \in S => m + 1 \in S
  <2> SUFFICES ASSUME NEW m \in 0 .. n - 1, NEW g, FlattenIter(ss, m, g)
               PROVE  \E f : FlattenIter(ss, m + 1, f)
    OBVIOUS
  <2> DEFINE f == [i \in 1 .. m + 1 |->
                      IF i <= m THEN g[i] ELSE IF i = 1 THEN ss[i] ELSE g[m] \o ss[i]]
  <2>1. ASSUME NEW i \in 1 .. m + 1
        PROVE  f[i] = IF i = 1 THEN ss[i] ELSE f[i - 1] \o ss[i]
    <3>1. CASE i = m + 1
      BY <3>1
    <3>2. CASE i \in 1 .. m
      <4>1. g[i] = IF i = 1 THEN ss[i] ELSE g[i - 1] \o ss[i]
        BY <3>2 DEF FlattenIter
      <4>2. f[i] = g[i] /\ (i # 1 => f[i - 1] = g[i - 1])
        BY <3>2
      <4> QED  BY <4>1, <4>2
    <3> QED  BY <3>1, <3>2
  <2>2. FlattenIter(ss, m + 1, f)
    <3> HIDE DEF f
    <3>1. f = [i \in 1 .. m + 1 |-> f[i]]
      BY DEF f
    <3> QED  BY <2>1, <3>1 DEF FlattenIter
  <2> QED  BY <2>2
<1> HIDE DEF S
<1>3. \A k \in 0 .. n : k \in S
  BY <1>1, <1>2, InductionUpTo
<1> QED  BY <1>3 DEF S

LEMMA FlatGrows ==
    ASSUME NEW S, NEW n \in Nat, NEW ss \in [1 .. n -> Seq(S)], NEW m \in 0 .. n - 1,
           NEW t \in Seq(S), \E from : Flat(ss, m, t, from)
    PROVE  \E from : Flat(ss, m + 1, t \o ss[m + 1], from)
<1> PICK from : Flat(ss, m, t, from)
  OBVIOUS
<1> DEFINE last == ss[m + 1]
           u == t \o last
           next == [k \in 1 .. Len(u) |->
                       IF k <= Len(t) THEN from[k] ELSE <<m + 1, k - Len(t)>>]
<1>1. /\ last \in Seq(S) /\ Len(t) \in Nat /\ Len(last) \in Nat
      /\ Len(u) = Len(t) + Len(last)
      /\ \A k \in 1 .. Len(t) : u[k] = t[k]
      /\ \A k \in 1 .. Len(u) : k > Len(t) =>
            k - Len(t) \in 1 .. Len(last) /\ u[k] = last[k - Len(t)]
  <2>1. last \in Seq(S)
    OBVIOUS
  <2> HIDE DEF last
  <2> QED  BY <2>1
<1> HIDE DEF u
<1>2. \A k \in 1 .. Len(t) : /\ from[k] \in (1 .. m) \X (Nat \ {0})
                             /\ from[k][1] \in 1 .. m /\ from[k][2] \in Nat \ {0}
                             /\ from[k][2] <= Len(ss[from[k][1]])
                             /\ t[k] = ss[from[k][1]][from[k][2]]
  BY <1>1 DEF Flat
<1>3. ASSUME NEW k \in 1 .. Len(u)
      PROVE  /\ next[k] \in (1 .. m + 1) \X (Nat \ {0})
             /\ next[k][2] <= Len(ss[next[k][1]])
             /\ u[k] = ss[next[k][1]][next[k][2]]
             /\ k > Len(t) => next[k][1] = m + 1 /\ next[k][2] = k - Len(t)
             /\ k <= Len(t) => next[k] = from[k]
  <2>1. CASE k <= Len(t)
    <3>1. next[k] = from[k] /\ k \in 1 .. Len(t)
      BY <1>1, <2>1
    <3>2. from[k] \in (1 .. m + 1) \X (Nat \ {0})
      BY <1>2, <3>1
    <3>3. u[k] = t[k] /\ ~(k > Len(t))
      BY <1>1, <2>1, <3>1
    <3>4. from[k][2] <= Len(ss[from[k][1]]) /\ t[k] = ss[from[k][1]][from[k][2]]
      BY <1>2, <3>1
    <3> HIDE DEF next
    <3> QED  BY <3>1, <3>2, <3>3, <3>4, Zenon
  <2>2. CASE k > Len(t)
    <3>1. next[k] = <<m + 1, k - Len(t)>> /\ k - Len(t) \in 1 .. Len(last)
      BY <1>1, <2>2
    <3> HIDE DEF next
    <3> QED  BY <1>1, <2>2, <3>1
  <2> QED  BY <1>1, <2>1, <2>2
<1>4. next \in [1 .. Len(u) -> (1 .. m + 1) \X (Nat \ {0})]
  BY <1>3
<1>5. ASSUME NEW j \in 1 .. Len(u), NEW k \in 1 .. Len(u), j < k
      PROVE  \/ next[j][1] < next[k][1]
             \/ next[j][1] = next[k][1] /\ next[j][2] < next[k][2]
  <2>1. CASE k <= Len(t)
    <3>1. j \in 1 .. Len(t) /\ k \in 1 .. Len(t)
      BY <1>1, <1>5, <2>1
    <3> QED  BY <1>3, <1>5, <3>1 DEF Flat
  <2>2. CASE k > Len(t) /\ j <= Len(t)
    <3>1. next[j] = from[j] /\ next[k][1] = m + 1 /\ from[j][1] \in 1 .. m
      BY <1>1, <1>2, <1>3, <2>2
    <3> QED  BY <3>1
  <2>3. CASE j > Len(t)
    <3>1. /\ next[j][1] = m + 1 /\ next[j][2] = j - Len(t)
          /\ next[k][1] = m + 1 /\ next[k][2] = k - Len(t)
      BY <1>1, <1>3, <1>5, <2>3
    <3> QED  BY <1>1, <1>5, <3>1
  <2> QED  BY <1>1, <2>1, <2>2, <2>3
<1> HIDE DEF next
<1>6. Flat(ss, m + 1, u, next)
  BY <1>3, <1>4, <1>5 DEF Flat
<1> QED  BY <1>6 DEF u

LEMMA FlattenIs ==
    ASSUME NEW S, NEW n \in Nat, NEW ss \in [1 .. n -> Seq(S)]
    PROVE  /\ FlattenSeq(ss) \in Seq(S)
           /\ \E from : Flat(ss, n, FlattenSeq(ss), from)
<1>1. ss \in Seq(Seq(S)) /\ Len(ss) = n
  OBVIOUS
<1>2. CASE n = 0
  <2>1. FlattenSeq(ss) = ss /\ ss = <<>>
    BY <1>1, <1>2 DEF FlattenSeq
  <2>2. Flat(ss, n, <<>>, <<>>)
    BY <1>2 DEF Flat
  <2>3. <<>> \in Seq(S)
    OBVIOUS
  <2>4. FlattenSeq(ss) = <<>>
    BY <2>1, Zenon
  <2> QED  BY <2>2, <2>3, <2>4, Zenon
<1>3. CASE n # 0
  <2> DEFINE f == CHOOSE f : FlattenIter(ss, n, f)
  <2>1. FlattenIter(ss, n, f)
    BY FlattenIterExists
  <2>2. FlattenSeq(ss) = f[n]
    BY <1>1, <1>3 DEF FlattenSeq, FlattenIter
  <2> HIDE DEF f
  <2>3. \A i \in 1 .. n : f[i] = IF i = 1 THEN ss[i] ELSE f[i - 1] \o ss[i]
    BY <2>1 DEF FlattenIter
  <2> DEFINE T == {m \in 0 .. n : m = 0 \/ (f[m] \in Seq(S) /\ \E from : Flat(ss, m, f[m], from))}
  <2>4. 0 \in T
    OBVIOUS
  <2>5. ASSUME NEW m \in 0 .. n - 1, m \in T PROVE m + 1 \in T
    <3>1. CASE m = 0
      <4>1. f[1] = <<>> \o ss[1] /\ <<>> \in Seq(S)
        <5>1. ss[1] \in Seq(S) /\ f[1] = ss[1]
          BY <1>3, <2>3
        <5> QED  BY <5>1
      <4>2. Flat(ss, 0, <<>>, <<>>)
        BY DEF Flat
      <4>3. \E from : Flat(ss, 0 + 1, <<>> \o ss[0 + 1], from)
        BY <4>1, <4>2, <3>1, FlatGrows
      <4>4. f[1] \in Seq(S)
        BY <1>3, <2>3
      <4> QED  BY <3>1, <4>1, <4>3, <4>4
    <3>2. CASE m # 0
      <4>1. f[m] \in Seq(S) /\ \E from : Flat(ss, m, f[m], from)
        BY <2>5, <3>2
      <4>2. f[m + 1] = f[m] \o ss[m + 1]
        <5>1. m + 1 \in 1 .. n /\ m + 1 # 1 /\ (m + 1) - 1 = m
          BY <3>2
        <5> QED  BY <2>3, <5>1
      <4>3. \E from : Flat(ss, m + 1, f[m] \o ss[m + 1], from)
        BY <4>1, FlatGrows
      <4>4. f[m] \o ss[m + 1] \in Seq(S)
        BY <4>1
      <4>5. m + 1 \in 0 .. n
        OBVIOUS
      <4> QED  BY <4>2, <4>3, <4>4, <4>5, Zenon
    <3> QED  BY <3>1, <3>2
  <2> HIDE DEF T
  <2>6. \A k \in 0 .. n : k \in T
    BY <2>4, <2>5, InductionUpTo
  <2> QED  BY <1>3, <2>2, <2>6 DEF T
<1> QED  BY <1>2, <1>3

-----------------------------------------------------------------------------
(* The inductive invariant.                                                *)

(* Results are streamed after their calls.                                 *)
PartsInv ==
    /\ Count <= MaxParts /\ run.saved <= Count
    /\ \A i, j \in 1 .. Count : \A c \in run.parts[i].calls :
          c \in run.parts[j].results => i < j
    /\ \A i \in 1 .. Count : \A c \in run.parts[i].results :
          \E j \in 1 .. Count : c \in run.parts[j].calls

(* Where the stream is follows from its cursor.                            *)
SourceInv ==
    /\ source.pos <= Count
    /\ source.last <= Count \/ source.last = Terminal
    /\ source.phase # "open" => source.sub = 0
    /\ source.sub # 0 =>
          /\ source.pos < Count /\ source.last = source.pos + 1
          /\ source.sub < FrameCount(source.pos + 1)
    /\ source.phase = "open" /\ source.sub = 0 /\ source.last # Terminal =>
          source.last = source.pos \/ (source.last = 0 /\ source.from = source.pos)

(* The parts that the view may hold events of.                             *)
Reached ==
    IF source.last \in 1 .. MaxParts THEN source.last
    ELSE IF source.last = 0 /\ source.phase = "open" THEN source.pos ELSE Count

(* The messages and results among the events are of the first b parts.     *)
Within(events, b) ==
    \A k \in DOMAIN events :
        /\ events[k].kind = "message" => events[k].of <= b
        /\ events[k].kind = "result" =>
              \E j \in 1 .. Count : j <= b /\ events[k].of \in run.parts[j].results

ViewInv ==
    /\ InOrder(view.events) /\ CallsFirst(view.events)
    /\ Within(view.events, Count)
    /\ source.phase # "none" => Within(view.events, Reached)
    /\ source.phase # "none" /\ source.last \in 1 .. MaxParts =>
          \A i \in source.from + 1 .. source.last :
              run.parts[i].text => i \in MessagesOf(view.events)

(* The page follows its run in one way at a time: with its EventSource, a  *)
(* check of the session, or a snapshot on its way ...                      *)
Alone ==
    /\ source.phase # "none" \/ me.old => \A l \in 1 .. MaxLoads : ~loads[l].asked
    /\ source.phase # "none" => ~me.old
    /\ \A l, m \in 1 .. MaxLoads : loads[l].asked /\ loads[m].asked => l = m

(* ... until it has seen the end, after which no snapshot finds the run    *)
(* active.                                                                 *)
Over ==
    /\ run.status \in Ended /\ source.phase = "none"
    /\ \A l \in 1 .. MaxLoads : loads[l].runs # "running"

LoadsInv ==
    /\ me.current => source.phase # "none"
    /\ \A l \in 1 .. MaxLoads :
          /\ ~loads[l].asked => loads[l] = NoLoad
          /\ loads[l].state # Terminal => loads[l].state <= run.saved
    /\ Over \/ Alone

StreamInv == TypeOK /\ PartsInv /\ SourceInv /\ ViewInv /\ LoadsInv

-----------------------------------------------------------------------------
(* The events of a part, and those of a snapshot.                          *)
LEMMA PartIs ==
    ASSUME TypeOK, NEW i \in 1 .. Count
    PROVE  /\ run.parts[i] \in Parts /\ Count \in Nat
           /\ run.parts[i].calls \in SUBSET Calls /\ run.parts[i].results \in SUBSET Calls
           /\ run.parts[i].text \in BOOLEAN
<1>1. run.parts \in Seq(Parts)
  BY DEF TypeOK, RunStates
<1>2. run.parts[i] \in Parts /\ Count \in Nat
  BY <1>1 DEF Count
<1> QED  BY <1>2 DEF Parts

LEMMA ConcatIs ==
    ASSUME NEW S, NEW s \in Seq(S), NEW t \in Seq(S)
    PROVE  /\ s \o t \in Seq(S) /\ Len(s \o t) = Len(s) + Len(t)
           /\ Len(s) \in Nat /\ Len(t) \in Nat
           /\ \A k \in DOMAIN s : (s \o t)[k] = s[k]
OBVIOUS

LEMMA MessagesAre ==
    ASSUME TypeOK, PartsInv, NEW i \in 1 .. Count, NEW live \in BOOLEAN
    PROVE  /\ Messages(i, live) \in Seq(Events)
           /\ DOMAIN Messages(i, live) = IF run.parts[i].text THEN {1} ELSE {}
           /\ Len(Messages(i, live)) \in {0, 1}
           /\ run.parts[i].text => Len(Messages(i, live)) = 1
           /\ \A k \in DOMAIN Messages(i, live) :
                 Messages(i, live)[k] = [kind |-> "message", of |-> i, live |-> live]
<1> DEFINE e == [kind |-> "message", of |-> i, live |-> live]
<1>1. e \in Events
  BY PartIs, Bounds DEF Events, PartsInv
<1> HIDE DEF e
<1>2. CASE run.parts[i].text
  <2>1. Messages(i, live) = <<e>>
    BY <1>2 DEF Messages, e
  <2>2. <<e>> \in Seq(Events) /\ Len(<<e>>) = 1 /\ DOMAIN <<e>> = {1} /\ <<e>>[1] = e
    BY <1>1
  <2> QED  BY <1>2, <2>1, <2>2 DEF e
<1>3. CASE ~run.parts[i].text
  <2>1. Messages(i, live) = <<>>
    BY <1>3 DEF Messages
  <2> QED  BY <1>3, <2>1
<1> QED  BY <1>2, <1>3

LEMMA PublicEventsAre ==
    ASSUME TypeOK, PartsInv, NEW i \in 1 .. Count
    PROVE  /\ PublicEvents(i) \in Seq(Events)
           /\ \A k \in DOMAIN PublicEvents(i) :
                 LET e == PublicEvents(i)[k]
                 IN  /\ e.kind = "message" => e.of = i /\ k = 1
                     /\ e.kind = "call" => e.of \in run.parts[i].calls
                     /\ e.kind = "result" => e.of \in run.parts[i].results
           /\ run.parts[i].text =>
                 /\ PublicEvents(i) # <<>>
                 /\ PublicEvents(i)[1] = [kind |-> "message", of |-> i, live |-> TRUE]
<1> DEFINE part == run.parts[i]
           calls == Each("call", OneCall(part.calls), TRUE)
           results == Each("result", OneResult(part.results), TRUE)
           texts == PublicMessages(i)
           acts == Activities(i)
           all == PublicEvents(i)
<1>1. /\ part.calls \in SUBSET Calls /\ part.results \in SUBSET Calls
      /\ part.text \in BOOLEAN /\ Count \in Nat
  BY PartIs
<1>2. /\ OneCall(part.calls) \in SUBSET Calls /\ OneCall(part.calls) \subseteq part.calls
      /\ OneResult(part.results) \in SUBSET Calls
      /\ OneResult(part.results) \subseteq part.results
  BY <1>1, OneOfEach
<1>3. /\ calls \in Seq(Events)
      /\ \A k \in DOMAIN calls : calls[k].kind = "call" /\ calls[k].of \in part.calls
  <2>1. "call" \in {"call", "result"} /\ TRUE \in BOOLEAN
    OBVIOUS
  <2>2. LET each == Each("call", OneCall(part.calls), TRUE)
        IN  /\ each \in Seq(Events)
            /\ \A k \in DOMAIN each : each[k].kind = "call" /\ each[k].of \in OneCall(part.calls)
    BY <1>2, <2>1, EachIs
  <2> QED  BY <1>2, <2>2
<1>4. /\ results \in Seq(Events)
      /\ \A k \in DOMAIN results :
            results[k].kind = "result" /\ results[k].of \in part.results
  <2>1. "result" \in {"call", "result"} /\ TRUE \in BOOLEAN
    OBVIOUS
  <2>2. LET each == Each("result", OneResult(part.results), TRUE)
        IN  /\ each \in Seq(Events)
            /\ \A k \in DOMAIN each :
                  each[k].kind = "result" /\ each[k].of \in OneResult(part.results)
    BY <1>2, <2>1, EachIs
  <2> QED  BY <1>2, <2>2
<1>5. acts = calls \o results
  BY DEF Activities
<1>6. /\ texts \in Seq(Events) /\ Len(texts) \in {0, 1}
      /\ \A k \in DOMAIN texts :
            texts[k] = [kind |-> "message", of |-> i, live |-> TRUE]
      /\ part.text => Len(texts) = 1
  BY MessagesAre DEF PublicMessages
<1>7. all = texts \o acts
  BY DEF PublicEvents
<1> HIDE DEF part, calls, results, texts, acts, all
<1>8. /\ acts \in Seq(Events)
      /\ \A k \in DOMAIN acts :
            \/ acts[k].kind = "call" /\ acts[k].of \in part.calls
            \/ acts[k].kind = "result" /\ acts[k].of \in part.results
  BY <1>3, <1>4, <1>5
<1>9. all \in Seq(Events)
  BY <1>6, <1>7, <1>8
<1>10. ASSUME NEW k \in DOMAIN all
       PROVE  /\ all[k].kind = "message" => all[k].of = i /\ k = 1
              /\ all[k].kind = "call" => all[k].of \in part.calls
              /\ all[k].kind = "result" => all[k].of \in part.results
  <2>1. CASE k <= Len(texts)
    <3>1. k = 1 /\ k \in DOMAIN texts /\ all[k] = texts[k]
      BY <1>6, <1>7, <1>8, <2>1
    <3>2. all[k] = [kind |-> "message", of |-> i, live |-> TRUE]
      BY <1>6, <3>1
    <3> QED  BY <3>1, <3>2
  <2>2. CASE k > Len(texts)
    <3>1. k - Len(texts) \in DOMAIN acts /\ all[k] = acts[k - Len(texts)]
      BY <1>6, <1>7, <1>8, <2>2
    <3>2. \/ all[k].kind = "call" /\ all[k].of \in part.calls
          \/ all[k].kind = "result" /\ all[k].of \in part.results
      BY <1>8, <3>1
    <3> QED  BY <3>2
  <2> QED  BY <1>6, <1>7, <1>9, <2>1, <2>2
<1>11. ASSUME part.text
       PROVE  all # <<>> /\ all[1] = [kind |-> "message", of |-> i, live |-> TRUE]
  <2>1. Len(texts) = 1 /\ 1 \in DOMAIN texts
    BY <1>6, <1>11
  <2>2. /\ Len(texts \o acts) = Len(texts) + Len(acts) /\ Len(acts) \in Nat
        /\ (texts \o acts)[1] = texts[1]
    BY <1>6, <1>8, <2>1, ConcatIs
  <2> QED  BY <1>6, <1>7, <1>9, <2>1, <2>2
<1> QED  BY <1>9, <1>10, <1>11 DEF all, part

LEMMA SnapshotIs ==
    ASSUME TypeOK, PartsInv, NEW n \in 0 .. Count
    PROVE  /\ SnapshotEvents(n) \in Seq(Events)
           /\ InOrder(SnapshotEvents(n)) /\ CallsFirst(SnapshotEvents(n))
           /\ Within(SnapshotEvents(n), n)
<1> DEFINE texts == [i \in 1 .. n |-> Messages(i, FALSE)]
           acts == [i \in 1 .. n |-> SnapshotActivities(i)]
           T == FlattenSeq(texts)
           A == FlattenSeq(acts)
           all == SnapshotEvents(n)
<1>1. n \in Nat /\ Count \in Nat /\ 1 .. n \subseteq 1 .. Count
  BY DEF TypeOK, RunStates, Count
<1>2. ASSUME NEW i \in 1 .. n
      PROVE  /\ Messages(i, FALSE) \in Seq(Events) /\ Len(Messages(i, FALSE)) \in {0, 1}
             /\ \A k \in DOMAIN Messages(i, FALSE) :
                   Messages(i, FALSE)[k].kind = "message" /\ Messages(i, FALSE)[k].of = i
  <2>1. i \in 1 .. Count
    BY <1>1
  <2>2. /\ Messages(i, FALSE) \in Seq(Events) /\ Len(Messages(i, FALSE)) \in {0, 1}
        /\ \A k \in DOMAIN Messages(i, FALSE) :
              Messages(i, FALSE)[k] = [kind |-> "message", of |-> i, live |-> FALSE]
    BY <2>1, MessagesAre
  <2> HIDE DEF Messages
  <2>3. LET e == [kind |-> "message", of |-> i, live |-> FALSE]
        IN  e.kind = "message" /\ e.of = i
    OBVIOUS
  <2> QED  BY <2>2, <2>3, Zenon
<1>3. ASSUME NEW i \in 1 .. n
      PROVE  /\ SnapshotActivities(i) \in Seq(Events)
             /\ \A k \in DOMAIN SnapshotActivities(i) :
                   LET e == SnapshotActivities(i)[k]
                   IN  \/ e.kind = "call" /\ e.of \in run.parts[i].calls
                       \/ e.kind = "result" /\ e.of \in run.parts[i].results
  <2> DEFINE calls == Each("call", OneCall(run.parts[i].calls), FALSE)
             results == Each("result", run.parts[i].results, FALSE)
  <2>1. run.parts[i].calls \in SUBSET Calls /\ run.parts[i].results \in SUBSET Calls
    BY <1>1, PartIs
  <2>2. OneCall(run.parts[i].calls) \in SUBSET Calls
        /\ OneCall(run.parts[i].calls) \subseteq run.parts[i].calls
    BY <2>1, OneOfEach
  <2>3. /\ calls \in Seq(Events)
        /\ \A k \in DOMAIN calls :
              calls[k].kind = "call" /\ calls[k].of \in run.parts[i].calls
    BY <2>2, EachIs
  <2>4. /\ results \in Seq(Events)
        /\ \A k \in DOMAIN results :
              results[k].kind = "result" /\ results[k].of \in run.parts[i].results
    BY <2>1, EachIs
  <2>5. SnapshotActivities(i) = calls \o results
    BY DEF SnapshotActivities
  <2> HIDE DEF calls, results
  <2> QED  BY <2>3, <2>4, <2>5
<1>4. texts \in [1 .. n -> Seq(Events)] /\ acts \in [1 .. n -> Seq(Events)]
  BY <1>2, <1>3
<1>5. /\ \A i \in 1 .. n : texts[i] = Messages(i, FALSE)
      /\ \A i \in 1 .. n : acts[i] = SnapshotActivities(i)
  OBVIOUS
<1>6. all = T \o A
  BY DEF SnapshotEvents
<1> HIDE DEF texts, acts
<1>7. T \in Seq(Events) /\ \E from : Flat(texts, n, T, from)
  BY <1>1, <1>4, FlattenIs
<1>8. A \in Seq(Events) /\ \E from : Flat(acts, n, A, from)
  BY <1>1, <1>4, FlattenIs
<1> HIDE DEF T, A, all
<1>9. PICK ft : Flat(texts, n, T, ft)
  BY <1>7
<1>10. PICK fa : Flat(acts, n, A, fa)
  BY <1>8
<1>11. ASSUME NEW k \in 1 .. Len(T)
       PROVE  /\ ft[k][1] \in 1 .. n /\ ft[k][2] = 1
              /\ T[k].kind = "message" /\ T[k].of = ft[k][1]
  <2>1. /\ ft[k][1] \in 1 .. n /\ ft[k][2] \in Nat \ {0}
        /\ ft[k][2] <= Len(texts[ft[k][1]])
        /\ T[k] = texts[ft[k][1]][ft[k][2]]
    BY <1>9 DEF Flat
  <2> DEFINE s == Messages(ft[k][1], FALSE)
  <2>2. /\ s \in Seq(Events) /\ Len(s) \in {0, 1} /\ T[k] = s[ft[k][2]]
        /\ ft[k][2] <= Len(s)
        /\ \A j \in DOMAIN s : s[j].kind = "message" /\ s[j].of = ft[k][1]
    BY <1>2, <1>5, <2>1
  <2> HIDE DEF s
  <2>3. ft[k][2] = 1 /\ ft[k][2] \in DOMAIN s
    BY <2>1, <2>2
  <2> QED  BY <2>1, <2>2, <2>3
<1>12. ASSUME NEW k \in 1 .. Len(A)
       PROVE  /\ fa[k][1] \in 1 .. n
              /\ \/ A[k].kind = "call" /\ A[k].of \in run.parts[fa[k][1]].calls
                 \/ A[k].kind = "result" /\ A[k].of \in run.parts[fa[k][1]].results
  <2>1. /\ fa[k][1] \in 1 .. n /\ fa[k][2] \in Nat \ {0}
        /\ fa[k][2] <= Len(acts[fa[k][1]])
        /\ A[k] = acts[fa[k][1]][fa[k][2]]
    BY <1>10 DEF Flat
  <2>2. fa[k][2] \in DOMAIN SnapshotActivities(fa[k][1])
    BY <1>3, <1>5, <2>1
  <2> QED  BY <1>3, <1>5, <2>1, <2>2
<1>13. \A j, k \in 1 .. Len(T) : j < k => ft[j][1] < ft[k][1]
  <2> SUFFICES ASSUME NEW j \in 1 .. Len(T), NEW k \in 1 .. Len(T), j < k
               PROVE  ft[j][1] < ft[k][1]
    OBVIOUS
  <2>1. \/ ft[j][1] < ft[k][1]
        \/ ft[j][1] = ft[k][1] /\ ft[j][2] < ft[k][2]
    BY <1>9 DEF Flat
  <2> QED  BY <1>11, <2>1
<1>14. \A j, k \in 1 .. Len(A) : j < k => fa[j][1] <= fa[k][1]
  <2> SUFFICES ASSUME NEW j \in 1 .. Len(A), NEW k \in 1 .. Len(A), j < k
               PROVE  fa[j][1] <= fa[k][1]
    OBVIOUS
  <2>1. \/ fa[j][1] < fa[k][1]
        \/ fa[j][1] = fa[k][1] /\ fa[j][2] < fa[k][2]
    BY <1>10 DEF Flat
  <2> QED  BY <1>12, <2>1
<1>15. /\ all \in Seq(Events) /\ DOMAIN all = 1 .. Len(T) + Len(A)
       /\ Len(T) \in Nat /\ Len(A) \in Nat
       /\ \A k \in DOMAIN all : k <= Len(T) => k \in 1 .. Len(T) /\ all[k] = T[k]
       /\ \A k \in DOMAIN all : k > Len(T) =>
             k - Len(T) \in 1 .. Len(A) /\ all[k] = A[k - Len(T)]
  BY <1>6, <1>7, <1>8
<1>16. InOrder(all)
  <2> SUFFICES ASSUME NEW j \in DOMAIN all, NEW k \in DOMAIN all, j < k,
                      all[j].kind = "message", all[k].kind = "message"
               PROVE  all[j].of < all[k].of
    BY DEF InOrder, IsMessage
  <2>1. k <= Len(T)
    <3> SUFFICES ASSUME k > Len(T) PROVE FALSE
      BY <1>15
    <3>1. k - Len(T) \in 1 .. Len(A) /\ all[k] = A[k - Len(T)]
      BY <1>15
    <3> QED  BY <1>12, <3>1
  <2>2. /\ j \in 1 .. Len(T) /\ k \in 1 .. Len(T)
        /\ all[j] = T[j] /\ all[k] = T[k]
    BY <1>15, <2>1
  <2> QED  BY <1>11, <1>13, <2>2
<1>17. CallsFirst(all)
  <2> SUFFICES ASSUME NEW j \in DOMAIN all, NEW k \in DOMAIN all, j < k,
                      all[j].of = all[k].of,
                      all[j].kind = "result", all[k].kind = "call"
               PROVE  FALSE
    BY DEF CallsFirst
  <2>1. j > Len(T)
    <3> SUFFICES ASSUME j <= Len(T) PROVE FALSE
      BY <1>15
    <3>1. j \in 1 .. Len(T) /\ all[j] = T[j]
      BY <1>15
    <3> QED  BY <1>11, <3>1
  <2> DEFINE a == j - Len(T)
             b == k - Len(T)
  <2>2. /\ a \in 1 .. Len(A) /\ b \in 1 .. Len(A) /\ a < b
        /\ all[j] = A[a] /\ all[k] = A[b]
    BY <1>15, <2>1
  <2> HIDE DEF a, b
  <2>3. fa[a][1] <= fa[b][1]
    BY <1>14, <2>2
  <2>4. /\ A[a].of \in run.parts[fa[a][1]].results /\ fa[a][1] \in 1 .. Count
        /\ A[a].of \in run.parts[fa[b][1]].calls /\ fa[b][1] \in 1 .. Count
    BY <1>1, <1>12, <2>2
  <2>5. fa[b][1] < fa[a][1]
    BY <2>4 DEF PartsInv
  <2> QED  BY <2>3, <2>4, <2>5
<1>18. Within(all, n)
  <2> SUFFICES ASSUME NEW k \in DOMAIN all
               PROVE  /\ all[k].kind = "message" => all[k].of <= n
                      /\ all[k].kind = "result" =>
                            \E j \in 1 .. Count : j <= n /\ all[k].of \in run.parts[j].results
    BY DEF Within
  <2>1. CASE k <= Len(T)
    <3>1. k \in 1 .. Len(T) /\ all[k] = T[k]
      BY <1>15, <2>1
    <3> QED  BY <1>11, <3>1
  <2>2. CASE k > Len(T)
    <3>1. k - Len(T) \in 1 .. Len(A) /\ all[k] = A[k - Len(T)]
      BY <1>15, <2>2
    <3>2. fa[k - Len(T)][1] \in 1 .. Count /\ fa[k - Len(T)][1] <= n
      BY <1>1, <1>12, <3>1
    <3> QED  BY <1>12, <3>1, <3>2
  <2> QED  BY <1>15, <2>1, <2>2
<1> QED  BY <1>15, <1>16, <1>17, <1>18 DEF all

-----------------------------------------------------------------------------
(* The parts of the type invariant and of the cursor.                      *)
LEMMA StateIs ==
    ASSUME TypeOK
    PROVE  /\ run = [parts |-> run.parts, saved |-> run.saved, status |-> run.status]
           /\ run.parts \in Seq(Parts) /\ run.saved \in 0 .. MaxParts
           /\ run.status \in {"running"} \cup Ended
           /\ Count \in Nat
           /\ source = [phase |-> source.phase, last |-> source.last,
                        from |-> source.from, pos |-> source.pos, sub |-> source.sub]
           /\ source.phase \in {"none", "connecting", "open"}
           /\ source.last \in 0 .. Terminal /\ source.from \in 0 .. MaxParts
           /\ source.pos \in 0 .. MaxParts /\ source.sub \in Nat
           /\ me.current \in BOOLEAN /\ me.old \in BOOLEAN
           /\ me = [current |-> me.current, old |-> me.old]
           /\ loads \in [1 .. MaxLoads -> LoadStates]
           /\ view = [events |-> view.events, active |-> view.active]
           /\ view.events \in Seq(Events) /\ view.active \in BOOLEAN
           /\ MaxParts \in Nat /\ MaxLoads \in Nat /\ Terminal = MaxParts + 1
<1>1. /\ run \in [parts : Seq(Parts), saved : 0 .. MaxParts,
                  status : {"running"} \cup Ended]
      /\ source \in [phase : {"none", "connecting", "open"}, last : 0 .. Terminal,
                     from : 0 .. MaxParts, pos : 0 .. MaxParts, sub : Nat]
      /\ me \in [current : BOOLEAN, old : BOOLEAN]
      /\ loads \in [1 .. MaxLoads -> LoadStates]
      /\ view \in [events : Seq(Events), active : BOOLEAN]
  BY DEF TypeOK, RunStates, Sources
<1>2. /\ run = [parts |-> run.parts, saved |-> run.saved, status |-> run.status]
      /\ run.parts \in Seq(Parts) /\ run.saved \in 0 .. MaxParts
      /\ run.status \in {"running"} \cup Ended
  BY <1>1
<1>3. Count \in Nat
  BY <1>2 DEF Count
<1>4. /\ source = [phase |-> source.phase, last |-> source.last,
                   from |-> source.from, pos |-> source.pos, sub |-> source.sub]
      /\ source.phase \in {"none", "connecting", "open"}
      /\ source.last \in 0 .. Terminal /\ source.from \in 0 .. MaxParts
      /\ source.pos \in 0 .. MaxParts /\ source.sub \in Nat
  BY <1>1
<1>5. /\ me.current \in BOOLEAN /\ me.old \in BOOLEAN
      /\ me = [current |-> me.current, old |-> me.old]
  BY <1>1
<1>6. /\ view = [events |-> view.events, active |-> view.active]
      /\ view.events \in Seq(Events) /\ view.active \in BOOLEAN
  BY <1>1
<1>7. MaxParts \in Nat /\ MaxLoads \in Nat /\ Terminal = MaxParts + 1
  BY Bounds DEF Terminal
<1> QED  BY <1>1, <1>2, <1>3, <1>4, <1>5, <1>6, <1>7

LEMMA ReachedIs ==
    ASSUME TypeOK, PartsInv, SourceInv
    PROVE  /\ Reached \in 0 .. Count /\ Count <= MaxParts
           /\ source.last \in 1 .. MaxParts => source.last <= Count /\ Reached = source.last
BY StateIs DEF PartsInv, SourceInv, Reached

LEMMA WithinGrows ==
    ASSUME NEW events \in Seq(Events), NEW b \in Nat, NEW c \in Nat, b <= c,
           Count \in Nat, Within(events, b)
    PROVE  Within(events, c)
<1> SUFFICES ASSUME NEW k \in DOMAIN events
             PROVE  /\ events[k].kind = "message" => events[k].of <= c
                    /\ events[k].kind = "result" =>
                          \E j \in 1 .. Count : j <= c /\ events[k].of \in run.parts[j].results
  BY DEF Within
<1>1. CASE events[k].kind = "message"
  <2>1. events[k] \in Events
    OBVIOUS
  <2>2. events[k].of \in 1 .. MaxParts /\ MaxParts \in Nat
    BY <1>1, <2>1, Bounds DEF Events
  <2> QED  BY <1>1, <2>2 DEF Within
<1>2. CASE events[k].kind = "result"
  BY <1>2 DEF Within
<1> QED  BY <1>1, <1>2

(* The view is kept, and the stream goes on from no earlier part.          *)
LEMMA ViewKept ==
    ASSUME TypeOK, TypeOK', PartsInv, SourceInv, SourceInv', ViewInv,
           run' = run, view'.events = view.events,
           source'.phase # "none" =>
              /\ source.phase # "none"
              /\ Reached <= Reached'
              /\ source'.last \in 1 .. MaxParts =>
                    source'.last = source.last /\ source'.from = source.from
    PROVE  ViewInv'
<1>1. PartsInv' /\ Count' = Count
  BY DEF PartsInv, Count
<1>2. Reached \in Nat /\ Reached' \in Nat /\ Count \in Nat
  <2>1. Reached \in 0 .. Count /\ Count \in Nat
    BY ReachedIs, StateIs
  <2>2. Reached' \in 0 .. Count /\ Count' \in Nat
    BY <1>1, StateIs DEF PartsInv, SourceInv, Reached, TypeOK, Sources, Terminal
  <2> QED  BY <2>1, <2>2
<1>3. view.events \in Seq(Events)
  BY StateIs
<1>4. /\ InOrder(view.events)' /\ CallsFirst(view.events)'
      /\ Within(view.events, Count)'
  <2>1. InOrder(view.events) /\ CallsFirst(view.events) /\ Within(view.events, Count)
    BY DEF ViewInv
  <2> QED  BY <1>1, <2>1 DEF InOrder, CallsFirst, Within
<1>5. ASSUME source'.phase # "none"
      PROVE  Within(view.events, Reached)'
  <2>1. Within(view.events, Reached)
    BY <1>5 DEF ViewInv
  <2>2. Within(view.events, Reached')
    BY <1>2, <1>3, <1>5, <2>1, WithinGrows
  <2> QED  BY <1>1, <2>2 DEF Within
<1>6. ASSUME source'.phase # "none", source'.last \in 1 .. MaxParts
      PROVE  \A i \in source'.from + 1 .. source'.last :
                run'.parts[i].text => i \in MessagesOf(view'.events)
  BY <1>6 DEF ViewInv
<1> QED  BY <1>4, <1>5, <1>6 DEF ViewInv

-----------------------------------------------------------------------------
(* Every step keeps the invariant.                                         *)
LEMMA StreamInit == Init => StreamInv
<1> SUFFICES ASSUME Init PROVE StreamInv
  OBVIOUS
<1> USE Bounds
<1>1. Count = 0 /\ MaxParts \in Nat /\ MaxLoads \in Nat
  BY DEF Init, Count
<1>2. TypeOK
  <2>1. run \in RunStates
    BY DEF Init, RunStates
  <2>2. source \in Sources
    BY DEF Init, NoSource, Sources, Terminal
  <2>3. \A l \in 1 .. MaxLoads : loads[l] \in LoadStates
    <3>1. NoLoad \in LoadStates
      BY <1>1 DEF LoadStates, NoLoad, Terminal
    <3>2. Asked \in LoadStates
      BY <3>1 DEF LoadStates, Asked
    <3> QED  BY <3>1, <3>2 DEF Init
  <2>4. loads \in [1 .. MaxLoads -> LoadStates]
    BY <2>3 DEF Init
  <2>5. view \in [events : Seq(Events), active : BOOLEAN]
    BY DEF Init
  <2> QED  BY <2>1, <2>2, <2>4, <2>5 DEF Init, TypeOK
<1>3. PartsInv
  BY <1>1 DEF Init, PartsInv
<1>4. SourceInv
  BY <1>1 DEF Init, SourceInv, NoSource
<1>5. ViewInv
  BY <1>1 DEF Init, ViewInv, NoSource, InOrder, CallsFirst, Within
<1>6. LoadsInv
  BY <1>1 DEF Init, LoadsInv, Alone, NoSource, Asked, NoLoad, Terminal
<1> QED  BY <1>2, <1>3, <1>4, <1>5, <1>6 DEF StreamInv

LEMMA PublicEventsKept ==
    ASSUME NEW i, run'.parts[i] = run.parts[i]
    PROVE  PublicEvents(i)' = PublicEvents(i) /\ FrameCount(i)' = FrameCount(i)
<1>1. PublicEvents(i)' = PublicEvents(i)
  BY DEF PublicEvents, PublicMessages, Messages, Activities
<1> QED  BY <1>1 DEF FrameCount

LEMMA StreamKeeps ==
    ASSUME StreamInv, NEW part \in Parts, Stream(part),
           part.calls \cap Called = {}, part.results \subseteq Called,
           part.calls \cap part.results = {}
    PROVE  StreamInv'
<1> DEFINE n == Count
<1>1. /\ TypeOK /\ PartsInv /\ SourceInv /\ ViewInv /\ LoadsInv
      /\ run.status = "running" /\ Count < MaxParts
      /\ run' = [run EXCEPT !.parts = Append(@, part)]
      /\ source' = source /\ me' = me /\ loads' = loads /\ view' = view
      /\ failed' = failed
  BY DEF StreamInv, Stream
<1>2. /\ run'.parts = Append(run.parts, part) /\ run'.saved = run.saved
      /\ run'.status = run.status /\ run.parts \in Seq(Parts) /\ Count \in Nat
      /\ run' = [parts |-> run'.parts, saved |-> run'.saved, status |-> run'.status]
      /\ MaxParts \in Nat
  BY <1>1, StateIs
<1>3. /\ run'.parts \in Seq(Parts) /\ Count' = Count + 1
      /\ \A i \in 1 .. Count : run'.parts[i] = run.parts[i]
      /\ run'.parts[Count + 1] = part
  BY <1>2 DEF Count
<1>4. TypeOK'
  <2>1. run' \in RunStates
    BY <1>1, <1>2, <1>3, StateIs DEF RunStates
  <2> QED  BY <1>1, <2>1 DEF TypeOK
<1>5. PartsInv'
  <2>1. Count' <= MaxParts /\ run'.saved <= Count'
    BY <1>1, <1>2, <1>3, StateIs DEF PartsInv
  <2>2. ASSUME NEW i \in 1 .. Count + 1, NEW j \in 1 .. Count + 1,
               NEW c \in run'.parts[i].calls, c \in run'.parts[j].results
        PROVE  i < j
    <3>1. CASE i \in 1 .. Count /\ j \in 1 .. Count
      BY <1>1, <1>3, <2>2, <3>1 DEF PartsInv
    <3>2. CASE i = Count + 1 /\ j \in 1 .. Count
      <4>1. c \in part.calls /\ c \in run.parts[j].results
        BY <1>3, <2>2, <3>2
      <4>2. c \in Called
        BY <1>1, <3>2, <4>1 DEF PartsInv, Called
      <4> QED  BY <4>1, <4>2
    <3>3. CASE i \in 1 .. Count /\ j = Count + 1
      BY <1>2, <3>3
    <3>4. CASE i = Count + 1 /\ j = Count + 1
      BY <1>3, <2>2, <3>4
    <3> QED  BY <1>2, <3>1, <3>2, <3>3, <3>4
  <2>3. ASSUME NEW i \in 1 .. Count + 1, NEW c \in run'.parts[i].results
        PROVE  \E j \in 1 .. Count + 1 : c \in run'.parts[j].calls
    <3>1. CASE i \in 1 .. Count
      <4>1. PICK j \in 1 .. Count : c \in run.parts[j].calls
        BY <1>1, <1>3, <2>3, <3>1 DEF PartsInv
      <4>2. Count \in Nat
        BY <1>2
      <4>3. j \in 1 .. Count + 1
        BY <4>2
      <4>4. run'.parts[j] = run.parts[j]
        BY <1>3
      <4> QED  BY <4>1, <4>3, <4>4
    <3>2. CASE i = Count + 1
      <4>1. PICK j \in 1 .. Count : c \in run.parts[j].calls
        BY <1>3, <2>3, <3>2 DEF Called
      <4>2. Count \in Nat
        BY <1>2
      <4>3. j \in 1 .. Count + 1
        BY <4>2
      <4>4. run'.parts[j] = run.parts[j]
        BY <1>3
      <4> QED  BY <4>1, <4>3, <4>4
    <3>3. i \in 1 .. Count \/ i = Count + 1
      BY <1>2
    <3> QED  BY <3>1, <3>2, <3>3, Zenon
  <2> QED  BY <1>3, <2>1, <2>2, <2>3 DEF PartsInv
<1>6. SourceInv'
  <2>1. source.sub # 0 => FrameCount(source.pos + 1)' = FrameCount(source.pos + 1)
    <3> SUFFICES ASSUME source.sub # 0
                 PROVE  FrameCount(source.pos + 1)' = FrameCount(source.pos + 1)
      OBVIOUS
    <3>1. source.pos + 1 \in 1 .. Count
      BY <1>1, StateIs DEF SourceInv
    <3>2. run'.parts[source'.pos + 1] = run.parts[source.pos + 1]
      BY <1>1, <1>3, <3>1
    <3> QED  BY <1>1, <3>2, PublicEventsKept
  <2>2. source.pos <= Count' /\ (source.last <= Count' \/ source.last = Terminal)
    BY <1>1, <1>2, <1>3, StateIs DEF SourceInv
  <2>3. source.sub # 0 =>
           /\ source.pos < Count' /\ source.last = source.pos + 1
           /\ source.sub < FrameCount(source.pos + 1)'
    BY <1>1, <1>2, <1>3, <2>1, StateIs DEF SourceInv
  <2> QED  BY <1>1, <2>2, <2>3 DEF SourceInv
<1>7. ASSUME NEW b, NEW c \in Nat, Within(view.events, b), b \in Nat, b <= c
      PROVE  \A k \in DOMAIN view.events :
                /\ view.events[k].kind = "message" => view.events[k].of <= c
                /\ view.events[k].kind = "result" =>
                      \E j \in 1 .. Count + 1 :
                          j <= c /\ view.events[k].of \in run'.parts[j].results
  <2>1. Within(view.events, c)
    BY <1>1, <1>2, <1>7, WithinGrows, StateIs
  <2>2. \A j \in 1 .. Count : j \in 1 .. Count + 1
    BY <1>2
  <2> QED  BY <1>3, <2>1, <2>2 DEF Within
<1>8. ViewInv'
  <2>1. InOrder(view'.events) /\ CallsFirst(view'.events)
    BY <1>1 DEF ViewInv
  <2>2. Within(view.events, Count)'
    <3>1. Within(view.events, Count) /\ Count + 1 \in Nat /\ Count <= Count + 1
      BY <1>1, <1>2 DEF ViewInv
    <3> QED  BY <1>1, <1>2, <1>3, <1>7, <3>1 DEF Within
  <2>3. ASSUME source.phase # "none" PROVE Within(view.events, Reached)'
    <3>1. Reached \in Nat /\ Reached' \in Nat /\ Reached <= Reached'
      BY <1>1, <1>2, <1>3, ReachedIs, StateIs DEF Reached
    <3>2. Within(view.events, Reached)
      BY <1>1, <2>3 DEF ViewInv
    <3> QED  BY <1>1, <1>3, <1>7, <3>1, <3>2 DEF Within
  <2>4. ASSUME source.phase # "none", source.last \in 1 .. MaxParts,
               NEW i \in source.from + 1 .. source.last, run'.parts[i].text
        PROVE  i \in MessagesOf(view.events)
    <3>1. i \in 1 .. Count
      BY <1>1, <2>4, ReachedIs, StateIs
    <3> QED  BY <1>1, <1>3, <2>4, <3>1 DEF ViewInv
  <2> QED  BY <1>1, <2>1, <2>2, <2>3, <2>4 DEF ViewInv
<1>9. LoadsInv'
  BY <1>1, <1>2 DEF LoadsInv, Over, Alone
<1> QED  BY <1>4, <1>5, <1>6, <1>8, <1>9 DEF StreamInv

LEMMA SaveKeeps == StreamInv /\ Save => StreamInv'
<1> SUFFICES ASSUME StreamInv, Save PROVE StreamInv'
  OBVIOUS
<1>1. /\ TypeOK /\ PartsInv /\ SourceInv /\ ViewInv /\ LoadsInv
      /\ run' = [run EXCEPT !.saved = Count] /\ run.saved < Count
      /\ source' = source /\ me' = me /\ loads' = loads /\ view' = view
      /\ failed' = failed
  BY DEF StreamInv, Save
<1>2. /\ run'.parts = run.parts /\ run'.saved = Count /\ run'.status = run.status
      /\ Count' = Count /\ Count \in Nat /\ Count <= MaxParts
  BY <1>1, StateIs DEF Count, PartsInv
<1>3. TypeOK'
  <2>1. Count \in 0 .. MaxParts
    BY <1>1, <1>2, StateIs
  <2>2. run' \in RunStates
    BY <1>1, <2>1, StateIs DEF RunStates
  <2> QED  BY <1>1, <2>2 DEF TypeOK
<1>4. PartsInv'
  BY <1>1, <1>2 DEF PartsInv
<1>5. SourceInv'
  BY <1>1, <1>2, PublicEventsKept DEF SourceInv
<1>6. ViewInv'
  BY <1>1, <1>2 DEF ViewInv, Within, Reached
<1>7. LoadsInv'
  <2>1. \A l \in 1 .. MaxLoads : loads[l].state # Terminal => loads[l].state <= Count
    <3> SUFFICES ASSUME NEW l \in 1 .. MaxLoads, loads[l].state # Terminal
                 PROVE  loads[l].state <= Count
      OBVIOUS
    <3>1. loads[l].state <= run.saved /\ loads[l].state \in 0 .. Terminal
      BY <1>1, StateIs DEF LoadsInv, LoadStates
    <3> QED  BY <1>1, <1>2, <3>1, StateIs
  <2> QED  BY <1>1, <1>2, <2>1 DEF LoadsInv, Over, Alone
<1> QED  BY <1>3, <1>4, <1>5, <1>6, <1>7 DEF StreamInv

LEMMA FinishKeeps ==
    ASSUME StreamInv, NEW status \in Ended, Finish(status)
    PROVE  StreamInv'
<1>1. /\ TypeOK /\ PartsInv /\ SourceInv /\ ViewInv /\ LoadsInv
      /\ run' = [run EXCEPT !.status = status] /\ run.status = "running"
      /\ source' = source /\ me' = me /\ loads' = loads /\ view' = view
      /\ failed' = failed
  BY DEF StreamInv, Finish
<1>2. /\ run'.parts = run.parts /\ run'.saved = run.saved /\ run'.status = status
      /\ Count' = Count
  BY <1>1, StateIs DEF Count
<1>3. TypeOK'
  BY <1>1, <1>2, StateIs DEF TypeOK, RunStates
<1>4. PartsInv'
  BY <1>1, <1>2 DEF PartsInv
<1>5. SourceInv'
  BY <1>1, <1>2, PublicEventsKept DEF SourceInv
<1>6. ViewInv'
  BY <1>1, <1>2 DEF ViewInv, Within, Reached
<1>7. LoadsInv'
  BY <1>1, <1>2 DEF LoadsInv, Over, Alone, Ended
<1> QED  BY <1>3, <1>4, <1>5, <1>6, <1>7 DEF StreamInv

(* A step that leaves the run as it is.                                    *)
LEMMA RunKept ==
    ASSUME run' = run
    PROVE  /\ Count' = Count /\ (PartsInv => PartsInv')
           /\ \A i : FrameCount(i)' = FrameCount(i)
<1>1. \A i : FrameCount(i)' = FrameCount(i)
  <2> TAKE i
  <2>1. run'.parts[i] = run.parts[i]
    OBVIOUS
  <2> QED  BY <2>1, PublicEventsKept
<1> QED  BY <1>1 DEF Count, PartsInv

LEMMA AcceptKeeps == StreamInv /\ Accept => StreamInv'
<1> SUFFICES ASSUME StreamInv, Accept PROVE StreamInv'
  OBVIOUS
<1> DEFINE from == IF source.last \in 1 .. MaxParts THEN source.last ELSE Count
<1>1. /\ TypeOK /\ PartsInv /\ SourceInv /\ ViewInv /\ LoadsInv
      /\ source.phase = "connecting"
      /\ source' = [source EXCEPT !.phase = "open", !.sub = 0, !.pos = from,
                        !.from = IF source.last = 0 THEN from ELSE @]
      /\ run' = run /\ me' = me /\ loads' = loads /\ view' = view /\ failed' = failed
  BY DEF StreamInv, Accept
<1>2. from \in 0 .. Count /\ Count <= MaxParts /\ Count \in Nat /\ MaxParts \in Nat
  BY <1>1, StateIs, ReachedIs
<1>3. /\ source'.phase = "open" /\ source'.sub = 0 /\ source'.pos = from
      /\ source'.last = source.last
      /\ source'.from = IF source.last = 0 THEN from ELSE source.from
      /\ source' = [phase |-> source'.phase, last |-> source'.last, from |-> source'.from,
                    pos |-> source'.pos, sub |-> source'.sub]
  BY <1>1, StateIs
<1>4. PartsInv' /\ Count' = Count
  BY <1>1, RunKept
<1>5. source' \in Sources
  BY <1>1, <1>2, <1>3, StateIs DEF Sources
<1>6. TypeOK'
  BY <1>1, <1>5 DEF TypeOK
<1>7. SourceInv'
  BY <1>1, <1>2, <1>3, <1>4, StateIs DEF SourceInv
<1>8. ViewInv'
  <2>1. Reached' = Reached /\ Reached \in 0 .. Count
    BY <1>1, <1>3, <1>4, StateIs, ReachedIs DEF Reached
  <2>2. source'.last \in 1 .. MaxParts =>
           source'.last = source.last /\ source'.from = source.from
    BY <1>3
  <2>3. Reached <= Reached'
    BY <1>2, <2>1
  <2>4. source.phase # "none"
    BY <1>1
  <2> QED  BY <1>1, <1>6, <1>7, <2>2, <2>3, <2>4, ViewKept
<1>9. LoadsInv'
  BY <1>1, <1>3 DEF LoadsInv, Over, Alone
<1> QED  BY <1>4, <1>6, <1>7, <1>8, <1>9 DEF StreamInv

LEMMA RefuseKeeps == StreamInv /\ Refuse => StreamInv'
<1> SUFFICES ASSUME StreamInv, Refuse PROVE StreamInv'
  OBVIOUS
<1>1. /\ TypeOK /\ PartsInv /\ SourceInv /\ ViewInv /\ LoadsInv
      /\ source.phase = "connecting" /\ source' = NoSource
      /\ me' = [me EXCEPT !.current = FALSE, !.old = @ \/ me.current]
      /\ failed' = failed \cup {"refused"}
      /\ run' = run /\ loads' = loads /\ view' = view
  BY DEF StreamInv, Refuse
<1>2. me'.current = FALSE /\ me'.old \in BOOLEAN /\ me' \in [current : BOOLEAN, old : BOOLEAN]
  BY <1>1, StateIs
<1>3. NoSource \in Sources
  BY StateIs DEF NoSource, Sources, Terminal, StreamInv
<1>4. PartsInv' /\ Count' = Count
  BY <1>1, RunKept
<1>5. TypeOK'
  BY <1>1, <1>2, <1>3 DEF TypeOK
<1>6. source'.phase = "none" /\ source'.pos = 0 /\ source'.last = 0 /\ source'.sub = 0
  BY <1>1 DEF NoSource
<1>7. SourceInv'
  BY <1>1, <1>4, <1>6, StateIs DEF SourceInv
<1>8. ViewInv'
  BY <1>1, <1>5, <1>6, <1>7, ViewKept
<1>9. LoadsInv'
  BY <1>1, <1>2, <1>6 DEF LoadsInv, Over, Alone
<1> QED  BY <1>4, <1>5, <1>7, <1>8, <1>9 DEF StreamInv

(* The stream breaks off: the source connects again, from its cursor or    *)
(* from nowhere.                                                           *)
LEMMA ReconnectKeeps ==
    ASSUME StreamInv, NEW last \in {source.last, Terminal},
           source.phase # "none",
           source' = [source EXCEPT !.phase = "connecting", !.sub = 0, !.last = last],
           me' = [me EXCEPT !.current = TRUE],
           run' = run, loads' = loads, view' = view, failed' = failed
    PROVE  StreamInv'
<1>1. TypeOK /\ PartsInv /\ SourceInv /\ ViewInv /\ LoadsInv
  BY DEF StreamInv
<1>2. /\ source'.phase = "connecting" /\ source'.sub = 0 /\ source'.last = last
      /\ source'.pos = source.pos /\ source'.from = source.from
      /\ source' = [phase |-> source'.phase, last |-> source'.last, from |-> source'.from,
                    pos |-> source'.pos, sub |-> source'.sub]
  BY <1>1, StateIs
<1>3. me' \in [current : BOOLEAN, old : BOOLEAN] /\ me'.old = me.old
  BY <1>1, StateIs
<1>4. PartsInv' /\ Count' = Count
  BY <1>1, RunKept
<1>5. source' \in Sources
  BY <1>1, <1>2, StateIs DEF Sources
<1>6. TypeOK'
  BY <1>1, <1>3, <1>5 DEF TypeOK
<1>7. SourceInv'
  BY <1>1, <1>2, <1>4, StateIs DEF SourceInv
<1>8. ViewInv'
  <2>1. Reached <= Reached'
    <3>1. Reached \in 0 .. Count /\ Count \in Nat
      BY <1>1, ReachedIs, StateIs
    <3>2. Reached' = Reached \/ Reached' = Count
      BY <1>1, <1>2, <1>4, StateIs DEF Reached
    <3> QED  BY <3>1, <3>2
  <2>2. source'.last \in 1 .. MaxParts => source'.last = source.last
    BY <1>1, <1>2, StateIs
  <2> QED  BY <1>1, <1>2, <1>6, <1>7, <2>1, <2>2, ViewKept
<1>9. LoadsInv'
  BY <1>1, <1>2, <1>3 DEF LoadsInv, Over, Alone
<1> QED  BY <1>4, <1>6, <1>7, <1>8, <1>9 DEF StreamInv

LEMMA BreakKeeps == StreamInv /\ (Break \/ EndEarly) => StreamInv'
<1> SUFFICES ASSUME StreamInv, Break \/ EndEarly PROVE StreamInv'
  OBVIOUS
<1>1. CASE Break
  <2>1. source' = [source EXCEPT !.phase = "connecting", !.sub = 0, !.last = source.last]
    BY <1>1, StateIs DEF Break, StreamInv
  <2> QED  BY <1>1, <2>1, ReconnectKeeps DEF Break
<1>2. CASE EndEarly
  <2>1. source.phase # "none"
    BY <1>2 DEF EndEarly
  <2> QED  BY <1>2, <2>1, ReconnectKeeps DEF EndEarly
<1> QED  BY <1>1, <1>2

LEMMA DeliverKeeps == StreamInv /\ Deliver => StreamInv'
<1> SUFFICES ASSUME StreamInv, Deliver PROVE StreamInv'
  OBVIOUS
<1> PICK i : i = source.pos + 1
  OBVIOUS
<1> DEFINE all == PublicEvents(i)
           e == all[source.sub + 1]
<1>1. /\ TypeOK /\ PartsInv /\ SourceInv /\ ViewInv /\ LoadsInv
      /\ source.phase = "open" /\ source.pos < Count /\ source.last # Terminal
      /\ view' = IF all = <<>> THEN view ELSE Record(e)
      /\ run' = run /\ me' = me /\ loads' = loads /\ failed' = failed
  BY DEF StreamInv, Deliver
<1>2. /\ i \in 1 .. Count /\ i \in 1 .. MaxParts /\ Count \in Nat /\ MaxParts \in Nat
      /\ source.sub \in Nat /\ source.last \in 0 .. MaxParts
      /\ source.from \in 0 .. MaxParts /\ source.pos \in Nat
  <2>1. /\ source.pos \in 0 .. MaxParts /\ source.sub \in Nat
        /\ source.last \in 0 .. Terminal /\ source.from \in 0 .. MaxParts
        /\ Count \in Nat /\ MaxParts \in Nat /\ Terminal = MaxParts + 1
    BY <1>1, StateIs
  <2>2. Count <= MaxParts
    BY <1>1 DEF PartsInv
  <2> QED  BY <1>1, <2>1, <2>2
<1>3. /\ all \in Seq(Events)
      /\ \A k \in DOMAIN all :
            /\ all[k].kind = "message" => all[k].of = i /\ k = 1
            /\ all[k].kind = "call" => all[k].of \in run.parts[i].calls
            /\ all[k].kind = "result" => all[k].of \in run.parts[i].results
      /\ run.parts[i].text =>
            all # <<>> /\ all[1] = [kind |-> "message", of |-> i, live |-> TRUE]
  BY <1>1, <1>2, PublicEventsAre
<1>4. FrameCount(i) = IF all = <<>> THEN 1 ELSE Len(all)
  BY DEF FrameCount
<1>5. /\ source'.phase = "open" /\ source'.last = i /\ source'.from = source.from
      /\ \/ source'.pos = i /\ source'.sub = 0
         \/ /\ source'.pos = source.pos /\ source'.sub = source.sub + 1
            /\ source.sub + 1 # FrameCount(i)
      /\ source' = [phase |-> source'.phase, last |-> source'.last, from |-> source'.from,
                    pos |-> source'.pos, sub |-> source'.sub]
  <2>1. source.sub # 0 => source.last = i
    BY <1>1 DEF SourceInv
  <2> DEFINE next == IF source.sub + 1 = FrameCount(i)
                     THEN [source EXCEPT !.pos = i, !.sub = 0]
                     ELSE [source EXCEPT !.sub = source.sub + 1]
  <2>2. source' = [next EXCEPT !.last = IF source.sub = 0 THEN i ELSE next.last]
    BY DEF Deliver
  <2>3. /\ next.phase = "open" /\ next.from = source.from /\ next.last = source.last
        /\ \/ next.pos = i /\ next.sub = 0
           \/ /\ next.pos = source.pos /\ next.sub = source.sub + 1
              /\ source.sub + 1 # FrameCount(i)
        /\ next = [phase |-> next.phase, last |-> next.last, from |-> next.from,
                   pos |-> next.pos, sub |-> next.sub]
    BY <1>1, StateIs
  <2> HIDE DEF next
  <2> QED  BY <2>1, <2>2, <2>3
<1>6. PartsInv' /\ Count' = Count
  BY <1>1, RunKept
<1>7. source.sub + 1 \in 1 .. FrameCount(i) /\ (all # <<>> => source.sub + 1 \in DOMAIN all)
  <2>1. FrameCount(i) \in Nat /\ FrameCount(i) >= 1
    BY <1>3, <1>4
  <2>2. source.sub # 0 => source.sub < FrameCount(i)
    BY <1>1 DEF SourceInv
  <2>3. source.sub + 1 \in 1 .. FrameCount(i)
    BY <1>2, <2>1, <2>2
  <2> QED  BY <1>3, <1>4, <2>3
<1>8. source' \in Sources
  BY <1>2, <1>5, StateIs, <1>1 DEF Sources
<1>9. view'.events \in Seq(Events) /\ view' \in [events : Seq(Events), active : BOOLEAN]
      /\ \/ /\ view'.events = view.events
            /\ all # <<>> => e \in Range(view.events)
         \/ all # <<>> /\ view'.events = Append(view.events, e)
  <2>1. CASE all = <<>> \/ e \in Range(view.events)
    <3>1. view' = view
      BY <1>1, <2>1 DEF Record
    <3> QED  BY <1>1, <2>1, <3>1, StateIs
  <2>2. CASE all # <<>> /\ e \notin Range(view.events)
    <3>1. view' = [view EXCEPT !.events = Append(view.events, e)]
      BY <1>1, <2>2 DEF Record
    <3>2. e \in Events
      BY <1>3, <1>7, <2>2
    <3>3. view.events \in Seq(Events) /\ view = [events |-> view.events, active |-> view.active]
          /\ view.active \in BOOLEAN
      BY <1>1, StateIs
    <3> HIDE DEF e
    <3>4. /\ view'.events = Append(view.events, e) /\ view'.active = view.active
          /\ view' = [events |-> view'.events, active |-> view'.active]
      BY <3>1, <3>3
    <3> QED  BY <2>2, <3>2, <3>3, <3>4
  <2> QED  BY <2>1, <2>2
<1>10. TypeOK'
  BY <1>1, <1>8, <1>9 DEF TypeOK
<1>11. SourceInv'
  <2>1. CASE source'.pos = i /\ source'.sub = 0
    BY <1>2, <1>5, <1>6, <2>1 DEF SourceInv
  <2>2. CASE source'.pos = source.pos /\ source'.sub = source.sub + 1
             /\ source.sub + 1 # FrameCount(i)
    <3>1. source'.pos + 1 = i
      BY <2>2
    <3>2. FrameCount(source.pos + 1)' = FrameCount(i)
      BY <1>1, <3>1
         DEF FrameCount, PublicEvents, PublicMessages, Messages, Activities
    <3>3. FrameCount(i) \in Nat
      BY <1>3, <1>4
    <3>4. source'.sub < FrameCount(i)
      BY <1>2, <1>7, <2>2, <3>3
    <3> QED  BY <1>1, <1>2, <1>5, <1>6, <2>2, <3>2, <3>4 DEF SourceInv
  <2> QED  BY <1>5, <2>1, <2>2
(* What the view held was of parts reached before, which do not include i  *)
(* when its first frame comes.                                             *)
<1>12. /\ Reached \in Nat /\ Reached <= i /\ Within(view.events, Reached)
       /\ source.sub = 0 => Reached < i
  <2>1. source.sub = 0 => source.last = source.pos \/ (source.last = 0)
    BY <1>1 DEF SourceInv
  <2>2. source.sub # 0 => source.last = i
    BY <1>1 DEF SourceInv
  <2>3. Reached = IF source.last = 0 THEN source.pos ELSE source.last
    BY <1>1, <1>2 DEF Reached
  <2> QED  BY <1>1, <1>2, <2>1, <2>2, <2>3 DEF ViewInv
<1>13. /\ view.events \in Seq(Events)
       /\ all # <<>> =>
             /\ e \in Events
             /\ e.kind = "message" => e.of = i /\ source.sub = 0
             /\ e.kind = "call" => e.of \in run.parts[i].calls
             /\ e.kind = "result" => e.of \in run.parts[i].results
       /\ run.parts[i].text /\ source.sub = 0 =>
             all # <<>> /\ e = [kind |-> "message", of |-> i, live |-> TRUE]
  <2>1. view.events \in Seq(Events)
    BY <1>1, StateIs
  <2> QED  BY <1>2, <1>3, <1>7, <2>1
<1> HIDE DEF all, e
<1> DEFINE old == view.events
           new == view'.events
           n == Len(old)
<1>14. n \in Nat /\ DOMAIN old = 1 .. n
  BY <1>13
<1>15. /\ \A k \in 1 .. n : k \in DOMAIN new /\ new[k] = old[k]
       /\ \A k \in DOMAIN new : \/ k \in 1 .. n
                                \/ k = n + 1 /\ all # <<>> /\ new[k] = e
  <2>1. CASE new = old
    <3> HIDE DEF n, old, new
    <3>1. DOMAIN new = 1 .. n
      BY <1>14, <2>1
    <3>2. \A k \in 1 .. n : k \in DOMAIN new /\ new[k] = old[k]
      BY <2>1, <3>1
    <3>3. \A k \in DOMAIN new : k \in 1 .. n
      BY <3>1
    <3> QED  BY <3>2, <3>3, Zenon
  <2>2. CASE all # <<>> /\ new = Append(old, e)
    <3>1. old \in Seq(Events) /\ e \in Events
      BY <1>13, <2>2
    <3>2. /\ DOMAIN Append(old, e) = 1 .. n + 1 /\ Append(old, e)[n + 1] = e
          /\ \A k \in 1 .. n : Append(old, e)[k] = old[k]
      BY <3>1
    <3> HIDE DEF n, old, new
    <3>3. /\ DOMAIN new = 1 .. n + 1 /\ new[n + 1] = e
          /\ \A k \in 1 .. n : new[k] = old[k]
      BY <2>2, <3>2
    <3>4. \A k \in 1 .. n + 1 : k \in 1 .. n \/ k = n + 1
      BY <1>14
    <3>5. \A k \in 1 .. n : k \in DOMAIN new /\ new[k] = old[k]
      BY <1>14, <3>3
    <3>6. \A k \in DOMAIN new : k \in 1 .. n \/ (k = n + 1 /\ new[k] = e)
      BY <3>3, <3>4
    <3> QED  BY <2>2, <3>5, <3>6, Zenon
  <2> QED  BY <1>9, <2>1, <2>2
<1>16. Within(view.events, i)
  BY <1>2, <1>12, <1>13, WithinGrows
<1>17. ASSUME NEW k \in 1 .. n
       PROVE  /\ old[k] \in Events
              /\ old[k].kind = "message" => old[k].of \in Nat /\ old[k].of <= Reached
              /\ old[k].kind = "result" =>
                    \E j \in 1 .. Count : j <= i /\ old[k].of \in run.parts[j].results
  <2>1. old[k] \in Events
    BY <1>13, <1>14
  <2>2. old[k].kind = "message" => old[k].of \in Nat
    BY <2>1, Bounds DEF Events
  <2> QED  BY <1>12, <1>14, <1>16, <2>1, <2>2 DEF Within
<1> HIDE DEF n, old, new
<1>18. InOrder(new)
  <2> SUFFICES ASSUME NEW j \in DOMAIN new, NEW k \in DOMAIN new, j < k,
                      new[j].kind = "message", new[k].kind = "message"
               PROVE  new[j].of < new[k].of
    BY DEF InOrder, IsMessage
  <2>1. j \in 1 .. n
    BY <1>14, <1>15
  <2>2. CASE k \in 1 .. n
    BY <1>1, <1>14, <1>15, <2>1, <2>2 DEF ViewInv, InOrder, IsMessage, old
  <2>3. CASE k = n + 1 /\ all # <<>> /\ new[k] = e
    BY <1>2, <1>12, <1>13, <1>15, <1>17, <2>1, <2>3
  <2> QED  BY <1>15, <2>2, <2>3
<1>19. CallsFirst(new)
  <2> SUFFICES ASSUME NEW j \in DOMAIN new, NEW k \in DOMAIN new, j < k,
                      new[j].of = new[k].of, new[j].kind = "result", new[k].kind = "call"
               PROVE  FALSE
    BY DEF CallsFirst
  <2>1. j \in 1 .. n
    BY <1>14, <1>15
  <2>2. CASE k \in 1 .. n
    BY <1>1, <1>14, <1>15, <2>1, <2>2 DEF ViewInv, CallsFirst, old
  <2>3. CASE k = n + 1 /\ all # <<>> /\ new[k] = e
    <3>1. PICK m \in 1 .. Count : m <= i /\ old[j].of \in run.parts[m].results
      BY <1>15, <1>17, <2>1
    <3>2. old[j].of \in run.parts[i].calls
      BY <1>13, <1>15, <2>1, <2>3
    <3>3. i < m
      BY <1>1, <1>2, <3>1, <3>2 DEF PartsInv
    <3> QED  BY <1>2, <3>1, <3>3
  <2> QED  BY <1>15, <2>2, <2>3
<1>20. ASSUME NEW b \in Nat, i <= b
       PROVE  \A k \in DOMAIN new :
                 /\ new[k].kind = "message" => new[k].of <= b
                 /\ new[k].kind = "result" =>
                       \E j \in 1 .. Count : j <= b /\ new[k].of \in run.parts[j].results
  <2> SUFFICES ASSUME NEW k \in DOMAIN new
               PROVE  /\ new[k].kind = "message" => new[k].of <= b
                      /\ new[k].kind = "result" =>
                            \E j \in 1 .. Count :
                                j <= b /\ new[k].of \in run.parts[j].results
    OBVIOUS
  <2>1. CASE k \in 1 .. n
    BY <1>2, <1>12, <1>15, <1>17, <1>20, <2>1
  <2>2. CASE k = n + 1 /\ all # <<>> /\ new[k] = e
    BY <1>2, <1>13, <1>20, <2>2
  <2> QED  BY <1>15, <2>1, <2>2
<1>21. ASSUME NEW k \in source.from + 1 .. i, run.parts[k].text
       PROVE  k \in MessagesOf(new)
  <2>1. CASE k = i /\ source.sub = 0
    <3>1. all # <<>> /\ e.kind = "message" /\ e.of = i
      BY <1>13, <1>21, <2>1
    <3>2. e \in Range(old) \/ new = Append(old, e)
      BY <1>9, <3>1 DEF old, new
    <3>3. \E j \in DOMAIN new : new[j] = e
      <4>1. CASE e \in Range(old)
        <5>1. PICK j \in DOMAIN old : old[j] = e
          BY <4>1 DEF Range
        <5> QED  BY <1>14, <1>15, <5>1
      <4>2. CASE new = Append(old, e)
        <5>1. old \in Seq(Events) /\ e \in Events
          BY <1>13, <3>1 DEF old
        <5>2. Len(old) + 1 \in DOMAIN new /\ new[Len(old) + 1] = e
          BY <4>2, <5>1
        <5> QED  BY <5>2
      <4> QED  BY <3>2, <4>1, <4>2
    <3> QED  BY <2>1, <3>1, <3>3 DEF MessagesOf, IsMessage
  <2>2. CASE ~(k = i /\ source.sub = 0)
    <3>1. source.last \in 1 .. MaxParts /\ k \in source.from + 1 .. source.last
      BY <1>1, <1>2, <1>21, <2>2 DEF SourceInv
    <3>2. k \in MessagesOf(old)
      BY <1>1, <1>21, <3>1 DEF ViewInv, old
    <3>3. PICK j \in 1 .. n : IsMessage(old[j]) /\ old[j].of = k
      BY <1>14, <3>2 DEF MessagesOf
    <3> QED  BY <1>15, <3>3 DEF MessagesOf
  <2> QED  BY <2>1, <2>2
<1>22. ViewInv'
  <2>1. Reached' = i
    BY <1>2, <1>5 DEF Reached
  <2>2. Within(view.events, Count)'
    BY <1>1, <1>2, <1>6, <1>20 DEF Within, new
  <2>3. Within(view.events, Reached)'
    BY <1>1, <1>2, <1>6, <1>20, <2>1 DEF Within, new
  <2>4. InOrder(view.events)' /\ CallsFirst(view.events)'
    BY <1>18, <1>19 DEF InOrder, CallsFirst, new
  <2>5. \A k \in source'.from + 1 .. source'.last :
           run'.parts[k].text => k \in MessagesOf(view'.events)
    BY <1>1, <1>5, <1>21 DEF new
  <2> QED  BY <2>2, <2>3, <2>4, <2>5 DEF ViewInv
<1>23. LoadsInv'
  BY <1>1, <1>5 DEF LoadsInv, Over, Alone
<1> QED  BY <1>6, <1>10, <1>11, <1>22, <1>23 DEF StreamInv

LEMMA LoadValues ==
    /\ Asked \in LoadStates /\ NoLoad \in LoadStates
    /\ Asked.asked /\ Asked.state = Terminal /\ Asked.runs = "none"
    /\ ~NoLoad.asked /\ NoLoad.state = Terminal /\ NoLoad.runs = "none"
<1>1. NoLoad \in LoadStates
  BY Bounds DEF NoLoad, LoadStates, Terminal
<1>2. ~NoLoad.asked /\ NoLoad.state = Terminal /\ NoLoad.runs = "none"
  BY DEF NoLoad
<1> QED  BY <1>1, <1>2 DEF Asked, LoadStates

(* The page follows its run by nothing but a snapshot.                     *)
LEMMA BeginKeeps ==
    ASSUME StreamInv, NEW l \in 1 .. MaxLoads, Begin(l),
           \A m \in 1 .. MaxLoads : loads[m].asked => Over,
           run' = run, failed' = failed, view'.events = view.events,
           view' \in [events : Seq(Events), active : BOOLEAN],
           \/ source' = NoSource
           \/ source' = source /\ source.phase = "none",
           me' \in [current : BOOLEAN, old : BOOLEAN], ~me'.current,
           ~me'.old \/ run.status \in Ended
    PROVE  StreamInv'
<1>1. TypeOK /\ PartsInv /\ SourceInv /\ ViewInv /\ LoadsInv
  BY DEF StreamInv
<1>2. /\ loads' = [loads EXCEPT ![l] = Asked] /\ ~loads[l].asked
      /\ loads \in [1 .. MaxLoads -> LoadStates]
  BY <1>1, StateIs DEF Begin
<1>3. PartsInv' /\ Count' = Count
  BY <1>1, RunKept
<1>4. source' \in Sources /\ source'.phase = "none"
  <2>1. NoSource \in Sources /\ NoSource.phase = "none"
    BY <1>1, StateIs DEF NoSource, Sources
  <2> QED  BY <1>1, <2>1 DEF TypeOK
<1>5. TypeOK'
  <2>1. loads' \in [1 .. MaxLoads -> LoadStates]
    BY <1>2, LoadValues
  <2> QED  BY <1>1, <1>4, <2>1 DEF TypeOK
<1>6. SourceInv'
  <2>1. CASE source' = NoSource
    <3>1. /\ source'.pos = 0 /\ source'.last = 0 /\ source'.sub = 0
          /\ source'.phase = "none"
      BY <2>1 DEF NoSource
    <3> QED  BY <1>1, <1>3, <3>1, StateIs DEF SourceInv
  <2>2. CASE source' = source
    <3>1. \A i : FrameCount(i)' = FrameCount(i)
      BY RunKept
    <3>2. FrameCount(source.pos + 1)' = FrameCount(source.pos + 1)
      BY <2>2, <3>1
    <3> QED  BY <1>1, <1>3, <2>2, <3>2 DEF SourceInv
  <2> QED  BY <2>1, <2>2
<1>7. ViewInv'
  BY <1>1, <1>4, <1>5, <1>6, ViewKept
<1>8. \A m \in 1 .. MaxLoads :
         /\ m # l => loads'[m] = loads[m]
         /\ m = l => loads'[m] = Asked
  BY <1>2
<1>9. ASSUME NEW m \in 1 .. MaxLoads
      PROVE  /\ ~loads'[m].asked => loads'[m] = NoLoad
             /\ loads'[m].state # Terminal => loads'[m].state <= run'.saved
  BY <1>1, <1>8, LoadValues DEF LoadsInv
<1>10. Over' \/ Alone'
  <2>1. CASE Over
    BY <1>4, <1>8, <2>1, LoadValues DEF Over
  <2>2. CASE ~Over /\ ~me'.old
    <3>1. \A m \in 1 .. MaxLoads : m # l => ~loads'[m].asked
      BY <1>8, <2>2
    <3> QED  BY <1>4, <2>2, <3>1 DEF Alone
  <2>3. CASE ~Over /\ run.status \in Ended
    <3>1. \A m \in 1 .. MaxLoads : loads'[m].runs = "none"
      BY <1>1, <1>8, <2>3, LoadValues DEF LoadsInv
    <3> QED  BY <1>4, <2>3, <3>1 DEF Over
  <2> QED  BY <2>1, <2>2, <2>3
<1>11. LoadsInv'
  BY <1>4, <1>9, <1>10 DEF LoadsInv
<1> QED  BY <1>3, <1>5, <1>6, <1>7, <1>11 DEF StreamInv

LEMMA DeliverEndKeeps ==
    ASSUME StreamInv, NEW l \in 1 .. MaxLoads, DeliverEnd(l)
    PROVE  StreamInv'
<1>1. /\ TypeOK /\ LoadsInv /\ source.phase = "open" /\ run.status \in Ended
      /\ view' = [view EXCEPT !.active = FALSE] /\ source' = NoSource
      /\ me' = [current |-> FALSE, old |-> me.current \/ me.old]
      /\ Begin(l) /\ run' = run /\ failed' = failed
  BY DEF StreamInv, DeliverEnd
<1>2. \A m \in 1 .. MaxLoads : ~loads[m].asked
  BY <1>1 DEF LoadsInv, Over, Alone
<1>3. view'.events = view.events /\ view' \in [events : Seq(Events), active : BOOLEAN]
  BY <1>1, StateIs
<1>4. me' \in [current : BOOLEAN, old : BOOLEAN] /\ ~me'.current
  BY <1>1, StateIs
<1> QED  BY <1>1, <1>2, <1>3, <1>4, BeginKeeps

LEMMA CheckedKeeps ==
    ASSUME StreamInv, NEW l \in 1 .. MaxLoads, Checked(l) \/ CheckedLate(l)
    PROVE  StreamInv'
<1>1. TypeOK /\ LoadsInv /\ view \in [events : Seq(Events), active : BOOLEAN]
  BY DEF StreamInv, TypeOK
<1>2. CASE Checked(l)
  <2>1. /\ me.current /\ source' = NoSource /\ me' = [me EXCEPT !.current = FALSE]
        /\ Begin(l) /\ run' = run /\ view' = view /\ failed' = failed
    BY <1>2 DEF Checked
  <2>2. source.phase # "none" /\ ~me.old /\ \A m \in 1 .. MaxLoads : ~loads[m].asked
    BY <1>1, <2>1 DEF LoadsInv, Over, Alone
  <2>3. /\ me' \in [current : BOOLEAN, old : BOOLEAN] /\ ~me'.current /\ ~me'.old
    BY <1>1, <2>1, <2>2, StateIs
  <2> QED  BY <1>1, <2>1, <2>2, <2>3, BeginKeeps
<1>3. CASE CheckedLate(l)
  <2>1. /\ me.old /\ source' = source /\ me' = [me EXCEPT !.old = FALSE]
        /\ Begin(l) /\ run' = run /\ view' = view /\ failed' = failed
    BY <1>3 DEF CheckedLate
  <2>2. source.phase = "none" /\ ~me.current
        /\ \A m \in 1 .. MaxLoads : loads[m].asked => Over
    BY <1>1, <2>1 DEF LoadsInv, Over, Alone
  <2>3. /\ me' \in [current : BOOLEAN, old : BOOLEAN] /\ ~me'.current /\ ~me'.old
    BY <1>1, <2>1, <2>2, StateIs
  <2> QED  BY <1>1, <2>1, <2>2, <2>3, BeginKeeps
<1> QED  BY <1>2, <1>3

(* Only the checks and the snapshots move on.                              *)
LEMMA LoadsKeep ==
    ASSUME StreamInv, run' = run, source' = source, view' = view,
           failed' \subseteq {"refused", "snapshot", "torn"},
           me' \in [current : BOOLEAN, old : BOOLEAN],
           me'.current => me.current, me'.old => me.old,
           loads' \in [1 .. MaxLoads -> LoadStates],
           \A m \in 1 .. MaxLoads :
              /\ loads'[m].asked => loads[m].asked
              /\ ~loads'[m].asked => loads'[m] = NoLoad
              /\ loads'[m].state # Terminal => loads'[m].state <= run.saved
              /\ loads'[m].runs = "running" =>
                    loads[m].runs = "running" \/ run.status = "running"
    PROVE  StreamInv'
<1>1. TypeOK /\ PartsInv /\ SourceInv /\ ViewInv /\ LoadsInv
  BY DEF StreamInv
<1>2. PartsInv' /\ Count' = Count
  BY <1>1, RunKept
<1>3. TypeOK'
  BY <1>1 DEF TypeOK
<1>4. SourceInv'
  <2>1. \A i : FrameCount(i)' = FrameCount(i)
    BY RunKept
  <2>2. FrameCount(source.pos + 1)' = FrameCount(source.pos + 1)
    BY <2>1
  <2> QED  BY <1>1, <1>2, <2>2 DEF SourceInv
<1>5. ViewInv'
  BY <1>1, <1>2 DEF ViewInv, Within, Reached
<1>6. Over => Over'
  BY DEF Over, Ended
<1>7. Alone => Alone'
  BY DEF Alone
<1>8. LoadsInv'
  BY <1>1, <1>6, <1>7 DEF LoadsInv
<1> QED  BY <1>2, <1>3, <1>4, <1>5, <1>8 DEF StreamInv

LEMMA WaitKeeps ==
    ASSUME StreamInv,
           \/ CheckFails
           \/ \E l \in 1 .. MaxLoads : ReadState(l) \/ ReadRuns(l) \/ LoadFails(l)
    PROVE  StreamInv'
<1>1. /\ TypeOK /\ LoadsInv /\ PartsInv /\ loads \in [1 .. MaxLoads -> LoadStates]
      /\ failed \subseteq {"refused", "snapshot", "torn"}
      /\ me \in [current : BOOLEAN, old : BOOLEAN]
      /\ run.saved \in 0 .. Terminal /\ run.status \in {"none", "running"} \cup Ended
      /\ run.saved <= run.saved
  BY StateIs DEF StreamInv, TypeOK
<1>2. \A m \in 1 .. MaxLoads :
         /\ loads[m] \in LoadStates
         /\ ~loads[m].asked => loads[m] = NoLoad
         /\ loads[m].state # Terminal => loads[m].state <= run.saved
  BY <1>1 DEF LoadsInv
<1>3. CASE CheckFails
  <2>1. /\ me' \in [current : BOOLEAN, old : BOOLEAN]
        /\ me'.current => me.current
        /\ me'.old => me.old
    BY <1>1, <1>3 DEF CheckFails
  <2> QED  BY <1>1, <1>2, <1>3, <2>1, LoadsKeep DEF CheckFails
<1>4. ASSUME NEW l \in 1 .. MaxLoads, NEW load \in LoadStates,
             loads' = [loads EXCEPT ![l] = load],
             load.asked => loads[l].asked, ~load.asked => load = NoLoad,
             load.state # Terminal => load.state <= run.saved,
             load.runs = "running" => loads[l].runs = "running" \/ run.status = "running",
             run' = run, source' = source, view' = view, me' = me,
             failed' \subseteq {"refused", "snapshot", "torn"}
      PROVE  StreamInv'
  <2>1. loads' \in [1 .. MaxLoads -> LoadStates]
    BY <1>1, <1>4
  <2>2. \A m \in 1 .. MaxLoads :
           /\ loads'[m].asked => loads[m].asked
           /\ ~loads'[m].asked => loads'[m] = NoLoad
           /\ loads'[m].state # Terminal => loads'[m].state <= run.saved
           /\ loads'[m].runs = "running" =>
                 loads[m].runs = "running" \/ run.status = "running"
    BY <1>1, <1>2, <1>4
  <2> QED  BY <1>1, <1>4, <2>1, <2>2, LoadsKeep
<1>5. ASSUME NEW l \in 1 .. MaxLoads, ReadState(l) PROVE StreamInv'
  <2> DEFINE load == [loads[l] EXCEPT !.state = run.saved]
  <2>1. /\ load \in LoadStates /\ load.asked = loads[l].asked /\ load.state = run.saved
        /\ load.runs = loads[l].runs
    BY <1>1, <1>2 DEF LoadStates
  <2>2. loads' = [loads EXCEPT ![l] = load] /\ loads[l].asked
    BY <1>5 DEF ReadState
  <2> HIDE DEF load
  <2> QED  BY <1>1, <1>4, <1>5, <2>1, <2>2 DEF ReadState
<1>6. ASSUME NEW l \in 1 .. MaxLoads, ReadRuns(l) PROVE StreamInv'
  <2> DEFINE load == [loads[l] EXCEPT !.runs = run.status]
  <2>1. /\ load \in LoadStates /\ load.asked = loads[l].asked
        /\ load.state = loads[l].state /\ load.runs = run.status
    BY <1>1, <1>2 DEF LoadStates
  <2>2. loads' = [loads EXCEPT ![l] = load] /\ loads[l].asked
    BY <1>6 DEF ReadRuns
  <2>3. load.state # Terminal => load.state <= run.saved
    BY <1>2, <2>1
  <2>4. run' = run /\ source' = source /\ view' = view /\ me' = me /\ failed' = failed
    BY <1>6 DEF ReadRuns
  <2> HIDE DEF load
  <2> QED  BY <1>1, <1>4, <2>1, <2>2, <2>3, <2>4
<1>7. ASSUME NEW l \in 1 .. MaxLoads, LoadFails(l) PROVE StreamInv'
  <2>1. failed' \subseteq {"refused", "snapshot", "torn"}
    BY <1>1, <1>7 DEF LoadFails
  <2> QED  BY <1>4, <1>7, <2>1, LoadValues DEF LoadFails
<1> QED  BY <1>3, <1>5, <1>6, <1>7

LEMMA ApplyKeeps ==
    ASSUME StreamInv, NEW l \in 1 .. MaxLoads, Apply(l)
    PROVE  StreamInv'
<1> DEFINE load == loads[l]
           active == load.runs = "running"
<1>1. /\ TypeOK /\ PartsInv /\ SourceInv /\ ViewInv /\ LoadsInv
      /\ load.state # Terminal
      /\ view' = [events |-> SnapshotEvents(load.state), active |-> active]
      /\ source' = IF active THEN NewSource ELSE source
      /\ me' = IF active THEN [current |-> FALSE, old |-> me.current \/ me.old] ELSE me
      /\ loads' = [loads EXCEPT ![l] = NoLoad]
      /\ failed' = IF ~active /\ load.state # run.saved THEN failed \cup {"torn"} ELSE failed
      /\ run' = run
  BY DEF StreamInv, Apply
<1>2. /\ load \in LoadStates /\ load.asked /\ load.state \in 0 .. Count
      /\ Count \in Nat
  <2>1. load \in LoadStates /\ load.state \in 0 .. Terminal
    BY <1>1, StateIs DEF LoadStates
  <2>2. load.asked
    BY <1>1, LoadValues DEF LoadsInv
  <2>3. load.state <= run.saved /\ run.saved <= Count
    BY <1>1 DEF LoadsInv, PartsInv
  <2> QED  BY <1>1, <2>1, <2>2, <2>3, StateIs
<1> DEFINE all == SnapshotEvents(load.state)
<1>3. /\ all \in Seq(Events) /\ InOrder(all) /\ CallsFirst(all)
      /\ Within(all, load.state)
  BY <1>1, <1>2, SnapshotIs
<1>4. Within(all, Count)
  BY <1>2, <1>3, WithinGrows
<1>5. PartsInv' /\ Count' = Count
  BY <1>1, RunKept
<1>6. active \in BOOLEAN
  OBVIOUS
<1>7. source.phase = "none" /\ (active => ~Over /\ ~me.current /\ ~me.old)
  <2>1. Over => source.phase = "none" /\ ~active
    BY DEF Over
  <2>2. Alone => source.phase = "none" /\ ~me.old
    BY <1>2 DEF Alone
  <2>3. source.phase = "none" => ~me.current
    BY <1>1 DEF LoadsInv
  <2> QED  BY <1>1, <2>1, <2>2, <2>3 DEF LoadsInv
<1> HIDE DEF load, active, all
<1>8. /\ NewSource.phase = "connecting" /\ NewSource.last = 0 /\ NewSource.pos = 0
      /\ NewSource.sub = 0 /\ NewSource.from = 0 /\ NewSource \in Sources
  <2>1. /\ NoSource.last = 0 /\ NoSource.pos = 0 /\ NoSource.sub = 0
        /\ NoSource.from = 0 /\ NoSource \in Sources
    BY <1>1, StateIs DEF NoSource, Sources
  <2> QED  BY <2>1 DEF NewSource, Sources
<1>9. view'.events = all /\ view' \in [events : Seq(Events), active : BOOLEAN]
  BY <1>1, <1>3, <1>6 DEF all
<1>10. TypeOK'
  <2>1. loads' \in [1 .. MaxLoads -> LoadStates]
    BY <1>1, StateIs, LoadValues
  <2>2. failed' \subseteq {"refused", "snapshot", "torn"}
    BY <1>1 DEF TypeOK
  <2>3. source' \in Sources
    BY <1>1, <1>8 DEF TypeOK
  <2>4. me' \in [current : BOOLEAN, old : BOOLEAN]
    BY <1>1, StateIs DEF TypeOK
  <2> QED  BY <1>1, <1>9, <2>1, <2>2, <2>3, <2>4 DEF TypeOK
<1>11. SourceInv'
  <2>1. CASE active
    BY <1>1, <1>2, <1>5, <1>8, <2>1 DEF SourceInv
  <2>2. CASE ~active
    <3>1. FrameCount(source.pos + 1)' = FrameCount(source.pos + 1)
      <4>1. \A i : FrameCount(i)' = FrameCount(i)
        BY <1>1, RunKept
      <4> QED  BY <1>1, <2>2, <4>1
    <3> QED  BY <1>1, <1>5, <2>2, <3>1 DEF SourceInv
  <2> QED  BY <2>1, <2>2
<1>12. ViewInv'
  <2>1. InOrder(view.events)' /\ CallsFirst(view.events)' /\ Within(view.events, Count)'
    BY <1>1, <1>3, <1>4, <1>5, <1>9 DEF InOrder, CallsFirst, Within
  <2>2. source'.phase # "none" => Reached' = Count' /\ source'.last = 0
    BY <1>1, <1>5, <1>7, <1>8 DEF Reached
  <2>3. source'.phase # "none" => Within(view.events, Reached)'
    BY <2>1, <2>2 DEF Within
  <2> QED  BY <2>1, <2>2, <2>3 DEF ViewInv
<1>13. \A m \in 1 .. MaxLoads :
          /\ m # l => loads'[m] = loads[m]
          /\ m = l => loads'[m] = NoLoad
  BY <1>1, StateIs
<1>14. ~me'.current
  BY <1>1, <1>7 DEF LoadsInv
<1>15. Over' \/ Alone'
  <2>1. CASE Over
    BY <1>1, <1>7, <1>13, <2>1, LoadValues DEF Over
  <2>2. CASE Alone
    <3>1. \A m \in 1 .. MaxLoads : ~loads'[m].asked
      BY <1>2, <1>13, <2>2, LoadValues DEF Alone, load
    <3>2. ~me'.old
      BY <1>1, <1>2, <1>7, <2>2 DEF Alone, load
    <3> QED  BY <3>1, <3>2 DEF Alone
  <2> QED  BY <1>1, <2>1, <2>2 DEF LoadsInv
<1>16. LoadsInv'
  <2>1. ASSUME NEW m \in 1 .. MaxLoads
        PROVE  /\ ~loads'[m].asked => loads'[m] = NoLoad
               /\ loads'[m].state # Terminal => loads'[m].state <= run'.saved
    BY <1>1, <1>13, LoadValues DEF LoadsInv
  <2> QED  BY <1>14, <1>15, <2>1 DEF LoadsInv
<1> QED  BY <1>5, <1>10, <1>11, <1>12, <1>16 DEF StreamInv

-----------------------------------------------------------------------------
(* The theorems.                                                           *)

LEMMA StreamStep == StreamInv /\ [Next]_vars => StreamInv'
<1> SUFFICES ASSUME StreamInv, [Next]_vars PROVE StreamInv'
  OBVIOUS
<1>1. ASSUME NEW text \in BOOLEAN, NEW calls \in SUBSET Calls, StreamMessage(text, calls)
      PROVE  StreamInv'
  <2> DEFINE part == [text |-> text, calls |-> calls, results |-> {}]
  <2>1. part \in Parts /\ part.calls = calls /\ part.results = {}
    BY DEF Parts
  <2>2. Stream(part) /\ calls \cap Called = {}
    BY <1>1 DEF StreamMessage
  <2> HIDE DEF part
  <2> QED  BY <2>1, <2>2, StreamKeeps
<1>2. ASSUME NEW results \in SUBSET Calls, StreamResults(results)
      PROVE  StreamInv'
  <2> DEFINE part == [text |-> FALSE, calls |-> {}, results |-> results]
  <2>1. part \in Parts /\ part.calls = {} /\ part.results = results
    BY DEF Parts
  <2>2. Stream(part) /\ results \subseteq Called
    BY <1>2 DEF StreamResults
  <2> HIDE DEF part
  <2> QED  BY <2>1, <2>2, StreamKeeps
<1>3. CASE UNCHANGED vars
  <2>1. /\ run' = run /\ source' = source /\ me' = me /\ loads' = loads
        /\ view' = view /\ failed' = failed
    BY <1>3 DEF vars
  <2>2. FrameCount(source.pos + 1)' = FrameCount(source.pos + 1)
    <3>1. \A i : FrameCount(i)' = FrameCount(i)
      BY <2>1, RunKept
    <3> QED  BY <2>1, <3>1
  <2> QED  BY <2>1, <2>2
           DEF StreamInv, TypeOK, PartsInv, SourceInv, ViewInv, LoadsInv, Count,
               Reached, Within, Alone, Over
<1>4. CASE Save
  BY <1>4, SaveKeeps
<1>5. ASSUME NEW status \in Ended, Finish(status) PROVE StreamInv'
  BY <1>5, FinishKeeps
<1>6. CASE Accept \/ Refuse \/ Deliver \/ Break \/ EndEarly
  BY <1>6, AcceptKeeps, RefuseKeeps, DeliverKeeps, BreakKeeps
<1>7. CASE CheckFails \/ \E l \in 1 .. MaxLoads : ReadState(l) \/ ReadRuns(l) \/ LoadFails(l)
  BY <1>7, WaitKeeps
<1>8. ASSUME NEW l \in 1 .. MaxLoads, DeliverEnd(l) \/ Checked(l) \/ CheckedLate(l)
      PROVE  StreamInv'
  BY <1>8, DeliverEndKeeps, CheckedKeeps
<1>9. ASSUME NEW l \in 1 .. MaxLoads, Apply(l) PROVE StreamInv'
  BY <1>9, ApplyKeeps
<1> QED  BY <1>1, <1>2, <1>3, <1>4, <1>5, <1>6, <1>7, <1>8, <1>9 DEF Next

(* What the page holds of the run, its stream and its snapshots fits       *)
(* together in every state: the stream's place in the run, the parts the   *)
(* view can know of, and the one way in which the page follows the run.    *)
THEOREM StreamInvariant == Spec => []StreamInv
<1>1. Init => StreamInv
  BY StreamInit
<1>2. StreamInv /\ [Next]_vars => StreamInv'
  BY StreamStep
<1> QED  BY <1>1, <1>2, PTL DEF Spec

(* The run, the cursors, the snapshots and the view keep their types.      *)
THEOREM StreamTypes == Spec => []TypeOK
<1>1. StreamInv => TypeOK
  BY DEF StreamInv
<1> QED  BY <1>1, StreamInvariant, PTL

(* No message is shown twice or out of order, however often connections    *)
(* break and snapshots rebuild the view (projectMessages, loadSnapshot).   *)
THEOREM MessagesAreInOrderOnce == Spec => []MessagesInOrderOnce
<1>1. StreamInv => MessagesInOrderOnce
  <2> SUFFICES ASSUME StreamInv PROVE MessagesInOrderOnce
    OBVIOUS
  <2>1. view.events \in Seq(Events) /\ InOrder(view.events)
    BY StateIs DEF StreamInv, ViewInv
  <2>2. Increasing(MessagesShown(view.events))
    BY <2>1, ShownAre
  <2> QED  BY <2>2 DEF MessagesInOrderOnce, Increasing
<1> QED  BY <1>1, StreamInvariant, PTL

(* Every message since the stream was joined and up to the cursor is in    *)
(* the view: a reconnect loses none (Last-Event-ID, stream_run).           *)
THEOREM CursorIsCovered == Spec => []CursorCoversMessages
<1>1. StreamInv => CursorCoversMessages
  <2> SUFFICES ASSUME StreamInv, source.phase # "none", source.last <= MaxParts,
                      NEW i \in source.from + 1 .. source.last, run.parts[i].text
               PROVE  i \in Range(MessagesShown(view.events))
    BY DEF CursorCoversMessages
  <2>1. source.last \in 1 .. MaxParts
    BY StateIs DEF StreamInv
  <2>2. i \in MessagesOf(view.events)
    BY <2>1 DEF StreamInv, ViewInv
  <2>3. view.events \in Seq(Events)
    BY StateIs DEF StreamInv
  <2> QED  BY <2>2, <2>3, ShownAre
<1> QED  BY <1>1, StreamInvariant, PTL

(* Whatever order snapshots and live events come in, a call with a result  *)
(* is shown once, and as running only for a call that is still open        *)
(* (projectActivity, replaces_id).                                         *)
THEOREM ResultsDoSettleCalls == Spec => []ResultsSettleCalls
<1>1. StreamInv => ResultsSettleCalls
  <2> SUFFICES ASSUME StreamInv PROVE ResultsSettleCalls
    OBVIOUS
  <2> DEFINE events == view.events
  <2>1. events \in Seq(Events) /\ CallsFirst(events)
    BY StateIs DEF StreamInv, ViewInv
  <2>2. Settles(events)
    BY <2>1, SettlesAlways
  <2>3. DOMAIN events = 1 .. Len(events)
    BY <2>1
  <2> QED  BY <2>2, <2>3 DEF Settles, ResultsSettleCalls, CallsUpTo, ResultsUpTo
<1> QED  BY <1>1, StreamInvariant, PTL

-----------------------------------------------------------------------------
(* The API client.                                                         *)

(* The session never holds a token that has been presented, but for the    *)
(* one under way and those a reload cut off.                               *)
SessionUnused ==
    session.token \in presented =>
        \/ session.token = 0 \/ session.token = refresh
        \/ session.token \in abandoned

(* Tokens are issued in order, and only issued ones are about.             *)
TokensIssued ==
    /\ session.token <= issued
    /\ presented \subseteq 0 .. issued

(* How often a request has been sent follows from where it is.             *)
Attempts(r) ==
    LET done == IF r.retry THEN 0 ELSE 1
    IN  /\ r.pc = "idle" => r.attempts = 0
        /\ r.pc = "again" => r.attempts = 1
        /\ r.pc = "waiting" => r.attempts = done
        /\ r.pc = "sent" => r.attempts = done + 1

AttemptsCount == \A r \in Requests : Attempts(request[r])

ClientInv ==
    /\ ClientTypes
    /\ SessionUnused
    /\ TokensIssued
    /\ WaitersHaveRefresh
    /\ AttemptsCount

LEMMA ClientInvInit == ClientInit => ClientInv
BY DEF ClientInit, SignedOut, Idle, ClientInv, ClientTypes, SessionUnused, TokensIssued,
       WaitersHaveRefresh, AttemptsCount, Attempts

LEMMA RequestKeeps ==
    ASSUME ClientInv, NEW r \in Requests, BeginRequest(r)
    PROVE  ClientInv'
<1> USE DEF ClientInv
<1>1. CASE Stale /\ Join
  <2>1. /\ session.token \in 1 .. issued
        /\ refresh' # 0 /\ session' = session /\ issued' = issued
        /\ abandoned' = abandoned
    BY <1>1 DEF BeginRequest, Stale, Join, ClientTypes, TokensIssued
  <2>2. /\ request[r].pc \in {"idle", "again"}
        /\ request' = [request EXCEPT ![r] =
                          [pc |-> "waiting", attempts |-> request[r].attempts,
                           retry |-> request[r].pc = "idle"]]
    BY <1>1 DEF BeginRequest
  <2>3. \/ refresh' = session.token /\ presented' = presented \cup {session.token}
        \/ refresh' = refresh /\ presented' = presented
    BY <1>1 DEF Join
  <2>4. ClientTypes'
    BY <2>1, <2>2, <2>3 DEF ClientTypes
  <2>5. SessionUnused'
    BY <2>1, <2>3 DEF SessionUnused
  <2>6. TokensIssued'
    <3>1. presented' \subseteq presented \cup {session.token}
      BY <2>3
    <3>2. session.token \in 0 .. issued /\ session.token <= issued
      BY <2>1 DEF ClientTypes, TokensIssued
    <3> QED  BY <2>1, <3>1, <3>2 DEF TokensIssued
  <2>7. WaitersHaveRefresh' /\ AttemptsCount'
    BY <2>1, <2>2 DEF ClientTypes, WaitersHaveRefresh, AttemptsCount, Attempts
  <2> QED  BY <2>4, <2>5, <2>6, <2>7
<1>2. CASE /\ request' = [request EXCEPT ![r] =
                             [pc |-> "sent", attempts |-> request[r].attempts + 1,
                              retry |-> request[r].pc = "idle"]]
           /\ UNCHANGED <<refresh, presented>>
  <2>1. ClientTypes' /\ SessionUnused' /\ TokensIssued' /\ WaitersHaveRefresh'
    BY <1>2 DEF BeginRequest, ClientTypes, SessionUnused, TokensIssued, WaitersHaveRefresh
  <2>2. /\ request[r].pc \in {"idle", "again"} /\ Attempts(request[r])
        /\ request[r].attempts \in Nat
    BY DEF BeginRequest, ClientTypes, AttemptsCount
  <2>3. Attempts(request'[r])
    BY <1>2, <2>2 DEF ClientTypes, Attempts
  <2>4. AttemptsCount'
    BY <1>2, <2>3 DEF ClientTypes, AttemptsCount
  <2> QED  BY <2>1, <2>4
<1> QED  BY <1>1, <1>2 DEF BeginRequest

LEMMA AgainKeeps ==
    ASSUME ClientInv, NEW r \in Requests, Again(r) \/ Answer(r)
    PROVE  ClientInv'
<1> USE DEF ClientInv
<1>1. CASE Again(r)
  <2>1. /\ session'.token = session.token /\ UNCHANGED <<refresh, issued, presented, abandoned>>
        /\ session' \in [signedIn : BOOLEAN, token : Nat, fresh : BOOLEAN]
    BY <1>1 DEF Again, ClientTypes
  <2> QED  BY <1>1, <2>1 DEF Again, ClientTypes, SessionUnused, TokensIssued,
                              WaitersHaveRefresh, AttemptsCount, Attempts
<1>2. CASE Answer(r)
  BY <1>2 DEF Answer, Idle, ClientTypes, SessionUnused, TokensIssued, WaitersHaveRefresh,
              AttemptsCount, Attempts
<1> QED  BY <1>1, <1>2

LEMMA RefreshedKeeps ==
    ASSUME ClientInv, Refreshed
    PROVE  ClientInv'
<1> USE DEF ClientInv
<1>1. /\ session' \in [signedIn : BOOLEAN, token : Nat, fresh : BOOLEAN]
      /\ session'.token = issued + 1 /\ issued' = issued + 1
      /\ UNCHANGED <<presented, abandoned>> /\ refresh' = 0
  BY DEF Refreshed, SignedInWith, ClientTypes
<1>2. SessionUnused' /\ TokensIssued'
  BY <1>1 DEF SessionUnused, TokensIssued, ClientTypes
<1>3. ClientTypes' /\ WaitersHaveRefresh' /\ AttemptsCount'
  BY <1>1 DEF Refreshed, ClientTypes, WaitersHaveRefresh, AttemptsCount, Attempts
<1> QED  BY <1>2, <1>3

LEMMA SessionKeeps ==
    ASSUME ClientInv, RefreshFails \/ SignIn \/ SignOut \/ Expire
    PROVE  ClientInv'
<1> USE DEF ClientInv
<1>1. CASE RefreshFails
  BY <1>1 DEF RefreshFails, SignedOut, Idle, ClientTypes, SessionUnused, TokensIssued,
              WaitersHaveRefresh, AttemptsCount, Attempts
<1>2. CASE SignIn
  <2>1. /\ session' \in [signedIn : BOOLEAN, token : Nat, fresh : BOOLEAN]
        /\ session'.token \in {0, issued + 1} /\ issued' = issued + 1
        /\ UNCHANGED <<refresh, request, presented, abandoned>>
    BY <1>2 DEF SignIn, SignedInWith, ClientTypes
  <2> QED  BY <2>1 DEF ClientTypes, SessionUnused, TokensIssued, WaitersHaveRefresh,
                       AttemptsCount, Attempts
<1>3. CASE SignOut
  BY <1>3 DEF SignOut, SignedOut, ClientTypes, SessionUnused, TokensIssued,
              WaitersHaveRefresh, AttemptsCount, Attempts
<1>4. CASE Expire
  BY <1>4 DEF Expire, ClientTypes, SessionUnused, TokensIssued, WaitersHaveRefresh,
              AttemptsCount, Attempts
<1> QED  BY <1>1, <1>2, <1>3, <1>4

LEMMA ReloadKeeps ==
    ASSUME ClientInv, Reload
    PROVE  ClientInv'
BY DEF ClientInv, Reload, Idle, ClientTypes, SessionUnused, TokensIssued, WaitersHaveRefresh,
       AttemptsCount, Attempts

LEMMA ClientStep ==
    ASSUME ClientInv, [ClientNext]_clientVars
    PROVE  ClientInv'
<1>1. CASE UNCHANGED clientVars
  BY <1>1 DEF clientVars, ClientInv, ClientTypes, SessionUnused, TokensIssued, WaitersHaveRefresh,
              AttemptsCount, Attempts
<1> QED  BY <1>1, RequestKeeps, AgainKeeps, RefreshedKeeps, SessionKeeps, ReloadKeeps
         DEF ClientNext

LEMMA ClientInvariant == ClientSpec => []ClientInv
BY ClientInvInit, ClientStep, PTL DEF ClientSpec

(* No refresh token is presented twice, for any number of overlapping      *)
(* requests, unless a reload cut off its refresh (accessToken).            *)
THEOREM PresentedOnce == ClientSpec => TokensPresentedOnce
<1>1. ASSUME ClientInv, [ClientNext]_clientVars
      PROVE  [\A t \in Nat \ {0} : refresh # t /\ refresh' = t
                 => t \notin presented \/ t \in abandoned]_clientVars
  <2> SUFFICES ASSUME NEW t \in Nat \ {0}, refresh # t, refresh' = t
               PROVE  t \notin presented \/ t \in abandoned
    OBVIOUS
  <2>1. refresh = 0 /\ t = session.token
    BY <1>1 DEF ClientNext, BeginRequest, Join, Again, Answer, Refreshed, RefreshFails, SignIn,
                SignOut, Expire, Reload, clientVars
  <2> QED  BY <1>1, <2>1 DEF ClientInv, SessionUnused
<1> QED  BY <1>1, ClientInvariant, PTL DEF ClientSpec, TokensPresentedOnce

(* Nobody waits for a refresh that is not under way (refreshPromise).      *)
THEOREM WaitersServed == ClientSpec => []WaitersHaveRefresh
BY ClientInvariant, PTL DEF ClientInv

(* A request is sent twice at most (request, retry).                       *)
THEOREM SentTwice == ClientSpec => []SentTwiceAtMost
<1>1. ClientInv => SentTwiceAtMost
  <2> SUFFICES ASSUME ClientInv, NEW r \in Requests PROVE request[r].attempts <= 2
    BY DEF SentTwiceAtMost
  <2>1. /\ request[r].pc \in {"idle", "waiting", "sent", "again"}
        /\ Attempts(request[r])
    BY DEF ClientInv, ClientTypes, AttemptsCount
  <2> QED  BY <2>1 DEF Attempts
<1> QED  BY <1>1, ClientInvariant, PTL

=============================================================================
