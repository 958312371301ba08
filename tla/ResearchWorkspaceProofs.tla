------------------------ MODULE ResearchWorkspaceProofs ------------------------
(***************************************************************************)
(* What ResearchWorkspace guarantees for every number of Threads, runs,    *)
(* EventSource objects and snapshots under way.                            *)
(***************************************************************************)
EXTENDS ResearchWorkspace, SequenceTheorems, TLAPS

(* The Threads that the view may show something of.                        *)
Shown == {selected} \cup strayed

(* What sourceRef holds is open, and follows a run.                        *)
RefIsOpen == ref # 0 => sources[ref].open /\ sources[ref].run # 0

(* Nothing that is open brings in events of other Threads, and what is     *)
(* open, checked or loaded is about a Thread.                              *)
StreamsOwned ==
    \A n \in Slots :
        /\ sources[n].open => sources[n].thread \in Shown
        /\ sources[n].open \/ sources[n].checking => sources[n].thread # 0 /\ sources[n].run # 0

LoadsNamed == \A l \in Loads : loads[l].request # 0 => loads[l].thread # 0

(* A request is about a run of its Thread, and cancellations come from the *)
(* composer.                                                               *)
PostsOwned ==
    \A f \in Forms :
        /\ posts[f].kind # "none" => posts[f].thread # 0
        /\ posts[f].kind = "cancel" => f = "composer" /\ posts[f].run \in RunIds
        /\ posts[f].answered /\ posts[f].kind \in {"submit", "resume", "cancel"}
              => posts[f].run \in RunIds /\ runs[posts[f].run].thread = posts[f].thread

Cancelling(f) ==
    posts[f].kind = "cancel" /\ posts[f].run = view.active /\ posts[f].thread = selected

(* Followed, with the one cancellation that counts.                        *)
FollowedOrCancelled ==
    view.active # 0 /\ ~lost => UnderWay \/ \E f \in Forms : Cancelling(f)

WorkspaceInv ==
    /\ TypeOK
    /\ OneStream
    /\ RefIsOpen
    /\ StreamsOwned
    /\ LoadsNamed
    /\ PostsOwned
    /\ ViewIsOfSelected
    /\ FollowedOrCancelled

-----------------------------------------------------------------------------
LEMMA NothingIsTyped ==
    ASSUME TypeOK
    PROVE  /\ Len(runs) \in Nat
           /\ NoSource \in Sources
           /\ NoLoad \in Snapshots
           /\ NoPost \in Posts
           /\ EmptyView \in Views
<1>1. Len(runs) \in Nat
  BY LenProperties DEF TypeOK
<1> QED
  BY <1>1, RequestsNumbered DEF NoSource, Sources, NoLoad, Snapshots, NoPost, Posts,
     EmptyView, Views

(* close() leaves a typed object that is not open, the others as they are. *)
LEMMA Closing ==
    ASSUME TypeOK, NEW n \in Slots
    PROVE  LET c == Closed(sources, n)[n] IN
           /\ Closed(sources, n) = [sources EXCEPT ![n] = c]
           /\ c \in Sources
           /\ ~c.open
           /\ c.checking = sources[n].checking
           /\ c.checking => c.thread = sources[n].thread /\ c.run = sources[n].run
<1> DEFINE old == sources[n]
           c == IF old.checking THEN [old EXCEPT !.open = FALSE] ELSE NoSource
<1>1. n # 0
  BY Numbered
<1>2. old \in Sources /\ sources \in [Slots -> Sources]
  BY DEF TypeOK
<1>3. c \in Sources /\ ~c.open /\ c.checking = old.checking
      /\ (c.checking => c.thread = old.thread /\ c.run = old.run)
  BY <1>2, NothingIsTyped DEF Sources, NoSource
<1>4. Closed(sources, n) = [sources EXCEPT ![n] = c]
  BY <1>1 DEF Closed
<1>5. Closed(sources, n)[n] = c
  BY <1>2, <1>4
<1> HIDE DEF c
<1> QED  BY <1>3, <1>4, <1>5

(* Nothing is open once the EventSource in sourceRef is closed.            *)
LEMMA ClosingRef ==
    ASSUME WorkspaceInv
    PROVE  /\ Closed(sources, ref) \in [Slots -> Sources]
           /\ \A m \in Slots :
                 LET c == Closed(sources, ref)[m] IN
                 /\ ~c.open
                 /\ c.checking <=> sources[m].checking
                 /\ c.checking => c.thread = sources[m].thread /\ c.run = sources[m].run
<1>1. CASE ref = 0
  BY <1>1, Numbered DEF WorkspaceInv, TypeOK, OneStream, Closed
<1>2. CASE ref # 0
  <2>1. ref \in Slots /\ sources \in [Slots -> Sources] /\ TypeOK /\ OneStream
    BY <1>2 DEF WorkspaceInv, TypeOK
  <2> QED  BY <2>1, Closing DEF OneStream
<1> QED  BY <1>1, <1>2

(* connectRun leaves one EventSource open, its own.                        *)
LEMMA Connecting ==
    ASSUME WorkspaceInv, NEW t \in Threads, NEW r \in RunIds, ConnectRun(sources, t, r)
    PROVE  /\ sources' \in [Slots -> Sources]
           /\ ref' \in Slots
           /\ sources'[ref'].open /\ sources'[ref'].thread = t /\ sources'[ref'].run = r
           /\ \A m \in Slots : sources'[m].open => m = ref'
           /\ \A m \in Slots : sources'[m].checking =>
                 sources'[m].thread = sources[m].thread /\ sources'[m].run = sources[m].run
                 /\ sources[m].checking
<1>1. PICK n \in Slots :
          ref' = n /\ sources' = [Closed(sources, ref) EXCEPT ![n] = Following(t, r)]
  BY DEF ConnectRun
<1>2. LET new == Following(t, r)
      IN  new \in Sources /\ new.open /\ ~new.checking /\ new.thread = t /\ new.run = r
  BY DEF Following, Sources, RunIds
<1> QED  BY <1>1, <1>2, ClosingRef

LEMMA Disconnecting ==
    ASSUME WorkspaceInv, Disconnect
    PROVE  /\ sources' \in [Slots -> Sources]
           /\ ref' = 0
           /\ \A m \in Slots : ~sources'[m].open
           /\ \A m \in Slots : sources'[m].checking =>
                 sources'[m].thread = sources[m].thread /\ sources'[m].run = sources[m].run
                 /\ sources[m].checking
BY ClosingRef DEF Disconnect

(* A request that sets out leaves the ones on their way alone.             *)
LEMMA BeginningLoad ==
    ASSUME WorkspaceInv, NEW t \in Threads, NEW id \in 1 .. MaxRequests, BeginLoad(t, id)
    PROVE  /\ loads' \in [Loads -> Snapshots]
           /\ \E l \in Loads : loads'[l].thread = t /\ loads'[l].request = id
           /\ \A k \in Loads : loads[k].request # 0 => loads'[k] = loads[k]
           /\ LoadsNamed'
<1>1. PICK l \in Loads : loads[l] = NoLoad /\ loads' = [loads EXCEPT ![l] = Loading(t, id)]
  BY DEF BeginLoad
<1>2. LET new == Loading(t, id)
      IN  new \in Snapshots /\ new.thread = t /\ new.request = id
  BY NothingIsTyped, RequestsNumbered DEF Loading, Snapshots, WorkspaceInv
<1>3. NoLoad.request = 0 /\ t # 0
  BY Numbered DEF NoLoad
<1> QED  BY <1>1, <1>2, <1>3 DEF WorkspaceInv, TypeOK, LoadsNamed

(* recordEvent adds the Thread of its run, and names no other run.         *)
LEMMA Recording ==
    ASSUME TypeOK, NEW v \in Views, NEW r \in RunIds, NEW type
    PROVE  /\ Record(v, r, type) \in Views
           /\ Record(v, r, type).owners = v.owners \cup {runs[r].thread}
           /\ Record(v, r, type).active \in {0, r, v.active}
<1>1. runs[r].thread \in Threads
  <2>1. runs[r] \in Runs
    BY ElementOfSeq DEF TypeOK, RunIds
  <2> QED  BY <2>1 DEF Runs
<1>2. r \in 0 .. Len(runs) /\ 0 \in 0 .. Len(runs)
  BY NothingIsTyped DEF RunIds
<1> QED  BY <1>1, <1>2 DEF Record, Views

-----------------------------------------------------------------------------
(* The Agent Server: runs are added and change their status.               *)

Grown ==
    /\ runs' \in Seq(Runs)
    /\ Len(runs') >= Len(runs)
    /\ \A r \in RunIds : runs'[r].thread = runs[r].thread

LEMMA TypesGrow ==
    ASSUME TypeOK, Grown
    PROVE  /\ Views \subseteq Views' /\ Sources \subseteq Sources'
           /\ Snapshots \subseteq Snapshots' /\ Posts \subseteq Posts'
           /\ RunIds \subseteq RunIds'
<1>1. Len(runs) \in Nat /\ Len(runs') \in Nat
  BY LenProperties DEF TypeOK, Grown
<1> QED  BY <1>1 DEF Grown, Views, Sources, Snapshots, Posts, RunIds

LEMMA Stopping ==
    ASSUME TypeOK, NEW t
    PROVE  /\ Stopped(t) \in Seq(Runs)
           /\ Len(Stopped(t)) = Len(runs)
           /\ \A r \in RunIds : Stopped(t)[r].thread = runs[r].thread
<1>1. Len(runs) \in Nat /\ \A r \in RunIds : runs[r] \in Runs
  BY LenProperties, ElementOfSeq DEF TypeOK, RunIds
<1>2. \A r \in RunIds :
          LET s == IF r \in RunsOf(t) /\ Active(r) THEN [runs[r] EXCEPT !.status = "cancelled"]
                   ELSE runs[r]
          IN  s \in Runs /\ s.thread = runs[r].thread
  BY <1>1 DEF Runs
<1>3. Stopped(t) \in [1 .. Len(runs) -> Runs]
  BY <1>2 DEF Stopped, RunIds
<1>4. Stopped(t) \in Seq(Runs) /\ Len(Stopped(t)) = Len(runs)
  BY <1>1, <1>3, IsASeq, LenProperties
<1> QED  BY <1>2, <1>4 DEF Stopped

(* One run gets another status.                                            *)
LEMMA Changing ==
    ASSUME TypeOK, NEW r \in RunIds,
           NEW status \in {"active", "success", "interrupted", "cancelled"},
           runs' = [runs EXCEPT ![r].status = status]
    PROVE  Grown /\ Len(runs') = Len(runs)
<1>1. Len(runs) \in Nat /\ runs \in [1 .. Len(runs) -> Runs]
  BY LenProperties DEF TypeOK
<1>2. [runs[r] EXCEPT !.status = status] \in Runs
  BY <1>1 DEF Runs, RunIds
<1>3. runs' \in [1 .. Len(runs) -> Runs]
  BY <1>1, <1>2
<1>4. runs' \in Seq(Runs) /\ Len(runs') = Len(runs)
  BY <1>1, <1>3, IsASeq, LenProperties
<1>5. \A q \in RunIds : runs'[q].thread = runs[q].thread
  BY <1>1 DEF Runs, RunIds
<1> QED  BY <1>1, <1>4, <1>5 DEF Grown

(* A run is added to runs, or to what has become of them.                  *)
LEMMA Adding ==
    ASSUME TypeOK, NEW s \in Seq(Runs), Len(s) = Len(runs), NEW new \in Runs,
           \A r \in RunIds : s[r].thread = runs[r].thread,
           runs' = Append(s, new)
    PROVE  Grown /\ Len(runs') \in RunIds' /\ runs'[Len(runs')] = new
<1>1. Len(runs) \in Nat
  BY LenProperties DEF TypeOK
<1>2. /\ runs' \in Seq(Runs) /\ Len(runs') = Len(runs) + 1
      /\ \A r \in 1 .. Len(runs) : runs'[r] = s[r]
      /\ runs'[Len(runs) + 1] = new
  BY AppendProperties
<1> QED  BY <1>1, <1>2 DEF Grown, RunIds

(* What is left of the invariant when only the server and the answers of   *)
(* requests change.                                                        *)
LEMMA ServerKeeps ==
    ASSUME WorkspaceInv, Grown, exists' \subseteq Threads,
           UNCHANGED <<selected, request, view, sources, ref, loads, strayed, lost>>,
           posts' \in [Forms -> Posts'], PostsOwned',
           \A f \in Forms : posts[f].kind = "cancel" =>
               /\ posts'[f].kind = "cancel" /\ posts'[f].run = posts[f].run
               /\ posts'[f].thread = posts[f].thread
    PROVE  WorkspaceInv'
<1>1. TypeOK'
  BY TypesGrow DEF WorkspaceInv, TypeOK, Grown
<1>2. OneStream' /\ RefIsOpen' /\ StreamsOwned' /\ LoadsNamed' /\ ViewIsOfSelected'
  BY DEF WorkspaceInv, OneStream, RefIsOpen, StreamsOwned, LoadsNamed, ViewIsOfSelected, Shown
<1>3. UnderWay' = UnderWay
  BY DEF UnderWay, Current
<1>4. FollowedOrCancelled'
  BY <1>3 DEF WorkspaceInv, FollowedOrCancelled, Cancelling
<1> QED  BY <1>1, <1>2, <1>4 DEF WorkspaceInv

LEMMA FinishKeeps ==
    ASSUME WorkspaceInv, NEW r \in RunIds, Finish(r)
    PROVE  WorkspaceInv'
<1>1. Grown
  BY Changing DEF Finish, WorkspaceInv
<1>2. posts' = posts /\ posts \in [Forms -> Posts']
  BY <1>1, TypesGrow DEF Finish, WorkspaceInv, TypeOK
<1>3. PostsOwned'
  BY <1>1, <1>2, TypesGrow DEF PostsOwned, WorkspaceInv, Grown
<1> QED  BY <1>1, <1>2, <1>3, ServerKeeps DEF Finish, WorkspaceInv, TypeOK

(* The run that a request has created, or names, is one of its Thread.     *)
LEMMA ArriveKeeps ==
    ASSUME WorkspaceInv, NEW f \in Forms, Arrive(f)
    PROVE  WorkspaceInv'
<1> DEFINE post == posts[f]
           t == post.thread
           new == [thread |-> t, status |-> "active"]
<1>1. /\ TypeOK /\ post \in Posts /\ post.kind # "none" /\ ~post.answered
      /\ t \in exists /\ t \in Threads
  BY DEF WorkspaceInv, TypeOK, Arrive
<1>2. new \in Runs
  BY <1>1 DEF Runs
<1>3. \/ /\ post.kind \in {"submit", "edit", "resume"} /\ exists' = exists
         /\ runs' = Append(runs, new) \/ runs' = Append(Stopped(t), new)
      \/ /\ post.kind = "cancel" /\ runs[post.run].thread = t /\ exists' = exists
         /\ \/ runs' = runs
            \/ runs' = [runs EXCEPT ![post.run].status = "cancelled"]
      \/ post.kind = "delete" /\ exists' = exists \ {t} /\ runs' = Stopped(t)
  <2> USE <1>1
  <2>1. CASE post.kind \in {"submit", "edit"}
    BY <2>1 DEF Arrive, WithRun
  <2>2. CASE post.kind = "resume"
    BY <2>2 DEF Arrive, WithRun
  <2>3. CASE post.kind = "cancel"
    BY <2>3 DEF Arrive
  <2>4. CASE post.kind = "delete"
    BY <2>4 DEF Arrive
  <2> QED  BY <2>1, <2>2, <2>3, <2>4 DEF Posts
<1>4. post.kind \in {"submit", "edit", "resume"} =>
          Grown /\ Len(runs') \in RunIds' /\ runs'[Len(runs')] = new
  <2> HAVE post.kind \in {"submit", "edit", "resume"}
  <2> HIDE DEF new
  <2>1. CASE runs' = Append(runs, new)
    BY <1>1, <1>2, <2>1, Adding DEF TypeOK
  <2>2. CASE runs' = Append(Stopped(t), new)
    <3>1. /\ Stopped(t) \in Seq(Runs) /\ Len(Stopped(t)) = Len(runs)
          /\ \A r \in RunIds : Stopped(t)[r].thread = runs[r].thread
      BY <1>1, Stopping
    <3> HIDE DEF t
    <3> QED  BY <1>1, <1>2, <2>2, <3>1, Adding
  <2> QED  BY <1>1, <1>3, <2>1, <2>2
<1>5. post.kind = "cancel" => Grown /\ post.run \in RunIds /\ runs[post.run].thread = t
  <2>1. post.kind = "cancel" => post.run \in RunIds
    BY DEF WorkspaceInv, PostsOwned
  <2>2. runs' = runs => Grown
    BY <1>1, NothingIsTyped DEF Grown, TypeOK
  <2> QED  BY <1>1, <1>3, <2>1, <2>2, Changing
<1>6. post.kind = "delete" => Grown /\ Len(runs') = Len(runs)
  BY <1>1, <1>3, Stopping, NothingIsTyped DEF Grown
<1>7. Grown /\ exists' \subseteq Threads
  BY <1>1, <1>3, <1>4, <1>5, <1>6 DEF Posts, TypeOK
<1> DEFINE answered == [post EXCEPT !.answered = TRUE,
                                    !.run = IF post.kind = "cancel" THEN @ ELSE Len(runs')]
<1>8. posts' = [posts EXCEPT ![f] = answered] /\ posts \in [Forms -> Posts']
  BY <1>7, TypesGrow DEF Arrive, WorkspaceInv, TypeOK
<1>9. /\ answered \in Posts' /\ answered.answered
      /\ answered.kind = post.kind /\ answered.thread = t
      /\ answered.run = IF post.kind = "cancel" THEN post.run ELSE Len(runs')
  <2>1. Len(runs') \in 0 .. Len(runs')
    BY <1>7, LenProperties DEF Grown
  <2>2. post \in Posts'
    BY <1>1, <1>7, TypesGrow
  <2> QED  BY <2>1, <2>2 DEF Posts
<1> HIDE DEF answered
<1>10. PostsOwned'
  <2> SUFFICES ASSUME NEW g \in Forms
               PROVE  /\ posts'[g].kind = "cancel" => g = "composer" /\ posts'[g].run \in RunIds'
                      /\ posts'[g].kind # "none" => posts'[g].thread # 0
                      /\ posts'[g].answered /\ posts'[g].kind \in {"submit", "resume", "cancel"}
                            => /\ posts'[g].run \in RunIds'
                               /\ runs'[posts'[g].run].thread = posts'[g].thread
    BY DEF PostsOwned
  <2>1. CASE g # f
    BY <2>1, <1>1, <1>7, <1>8, TypesGrow DEF WorkspaceInv, PostsOwned, Grown
  <2>2. CASE g = f
    <3>1. posts'[g] = answered
      BY <2>2, <1>8
    <3> QED  BY <2>2, <3>1, <1>1, <1>4, <1>5, <1>7, <1>9, TypesGrow DEF WorkspaceInv, PostsOwned, Grown
  <2> QED  BY <2>1, <2>2
<1> QED  BY <1>1, <1>7, <1>8, <1>9, <1>10, ServerKeeps DEF Arrive

-----------------------------------------------------------------------------
(* The browser: the runs stay as they are.                                 *)

LEMMA TypesStay ==
    ASSUME runs' = runs
    PROVE  /\ Views' = Views /\ Sources' = Sources /\ Snapshots' = Snapshots
           /\ Posts' = Posts /\ RunIds' = RunIds
BY DEF Views, Sources, Snapshots, Posts, RunIds

(* After connectRun.                                                       *)
LEMMA Connected ==
    ASSUME WorkspaceInv, NEW t \in Threads, NEW r \in RunIds, ConnectRun(sources, t, r)
    PROVE  /\ sources' \in [Slots -> Sources] /\ ref' \in Slots
           /\ OneStream' /\ RefIsOpen'
           /\ t \in Shown' => StreamsOwned'
           /\ t = selected' => UnderWay'
<1>1. r # 0 /\ t # 0
  BY Numbered DEF RunIds
<1> QED  BY <1>1, Connecting DEF WorkspaceInv, OneStream, RefIsOpen, StreamsOwned, UnderWay

LEMMA Disconnected ==
    ASSUME WorkspaceInv, Disconnect
    PROVE  /\ sources' \in [Slots -> Sources] /\ ref' = 0
           /\ OneStream' /\ RefIsOpen' /\ StreamsOwned'
BY Disconnecting DEF WorkspaceInv, OneStream, RefIsOpen, StreamsOwned

(* A request for the Thread selected brings the view up to date.           *)
LEMMA Loaded ==
    ASSUME WorkspaceInv, NEW t \in Threads, NEW id \in 1 .. MaxRequests, BeginLoad(t, id)
    PROVE  /\ loads' \in [Loads -> Snapshots]
           /\ LoadsNamed'
           /\ t = selected' /\ id = request' => UnderWay'
           /\ \A l \in Loads : Current(loads[l]) => Current(loads[l]) /\ loads'[l] = loads[l]
<1>1. \A l \in Loads : Current(loads[l]) => loads[l].request # 0
  BY RequestsNumbered DEF Current, WorkspaceInv, TypeOK
<1> QED  BY <1>1, BeginningLoad DEF UnderWay, Current

LEMMA PostGone ==
    ASSUME WorkspaceInv, runs' = runs, NEW f \in Forms, posts' = [posts EXCEPT ![f] = NoPost]
    PROVE  posts' \in [Forms -> Posts'] /\ PostsOwned'
<1>1. posts' \in [Forms -> Posts']
  BY NothingIsTyped, TypesStay DEF WorkspaceInv, TypeOK
<1> QED  BY <1>1, TypesStay DEF NoPost, PostsOwned, WorkspaceInv, TypeOK

LEMMA FailKeeps ==
    ASSUME WorkspaceInv, NEW f \in Forms, Fail(f)
    PROVE  WorkspaceInv'
<1>1. runs' = runs /\ posts' \in [Forms -> Posts'] /\ PostsOwned'
  BY PostGone DEF Fail, server
<1>2. Grown
  BY <1>1, NothingIsTyped DEF Grown, WorkspaceInv, TypeOK
<1>3. posts[f].kind # "cancel" /\ \A g \in Forms : g # f => posts'[g] = posts[g]
  BY DEF Fail, WorkspaceInv, TypeOK
<1> QED  BY <1>1, <1>2, <1>3, ServerKeeps DEF Fail, server, WorkspaceInv, TypeOK

LEMMA ReadSnapshotKeeps ==
    ASSUME WorkspaceInv, NEW l \in Loads, ReadSnapshot(l)
    PROVE  WorkspaceInv'
<1>1. PICK active, question \in 0 .. Len(runs) :
          loads' = [loads EXCEPT ![l].read = TRUE, ![l].active = active, ![l].question = question]
  BY DEF ReadSnapshot
<1>2. /\ UNCHANGED <<server, selected, request, view, sources, ref, posts, strayed, lost>>
      /\ TypeOK /\ runs' = runs
  BY DEF ReadSnapshot, server, WorkspaceInv
<1> DEFINE new == [loads[l] EXCEPT !.read = TRUE, !.active = active, !.question = question]
<1>3. new \in Snapshots /\ new.thread = loads[l].thread /\ new.request = loads[l].request
  BY <1>2 DEF TypeOK, Snapshots
<1>4. loads' = [loads EXCEPT ![l] = new]
  BY <1>1
<1> HIDE DEF new
<1>5. loads' \in [Loads -> Snapshots]
  BY <1>2, <1>3, <1>4 DEF TypeOK
<1>6. TypeOK'
  BY <1>2, <1>5, TypesStay DEF TypeOK, server
<1>7. \A k \in Loads : loads'[k].thread = loads[k].thread /\ loads'[k].request = loads[k].request
  BY <1>2, <1>3, <1>4 DEF TypeOK
<1>8. UnderWay' = UnderWay
  BY <1>2, <1>7 DEF UnderWay, Current
<1> QED
  BY <1>2, <1>6, <1>7, <1>8, TypesStay DEF WorkspaceInv, server, LoadsNamed, OneStream, RefIsOpen, StreamsOwned,
     PostsOwned, ViewIsOfSelected, Shown, FollowedOrCancelled, Cancelling

(* A snapshot for the selection starts the view over, and its active run   *)
(* is followed.                                                            *)
LEMMA ApplySnapshotKeeps ==
    ASSUME WorkspaceInv, NEW l \in Loads, ApplySnapshot(l)
    PROVE  WorkspaceInv'
<1> DEFINE load == loads[l]
<1>1. /\ UNCHANGED <<server, selected, request, posts, strayed>> /\ runs' = runs
      /\ TypeOK /\ load \in Snapshots /\ loads' = [loads EXCEPT ![l] = NoLoad]
  BY DEF ApplySnapshot, server, WorkspaceInv, TypeOK
<1>2. loads' \in [Loads -> Snapshots]
  BY <1>1, NothingIsTyped DEF TypeOK
<1>3. PostsOwned' /\ LoadsNamed'
  BY <1>1, TypesStay DEF PostsOwned, LoadsNamed, NoLoad, WorkspaceInv, TypeOK
<1>4. CASE ~Current(load)
  <2>1. UNCHANGED <<view, sources, ref, lost>>
    BY <1>4 DEF ApplySnapshot
  <2>2. TypeOK'
    BY <1>1, <1>2, <2>1, TypesStay DEF TypeOK, server
  <2>3. UnderWay => UnderWay'
    BY <1>1, <1>4, <2>1 DEF UnderWay, Current, TypeOK
  <2> QED
    BY <1>1, <1>3, <2>1, <2>2, <2>3 DEF WorkspaceInv, OneStream, RefIsOpen, StreamsOwned,
       ViewIsOfSelected, Shown, FollowedOrCancelled, Cancelling
<1>5. CASE Current(load)
  <2>1. load.thread = selected /\ load.thread \in Threads
    <3>1. load.thread = selected /\ load.request # 0
      BY <1>1, <1>5, RequestsNumbered DEF Current, TypeOK
    <3> QED  BY <1>1, <3>1 DEF WorkspaceInv, LoadsNamed, Snapshots
  <2>2. view' = [owners |-> {load.thread}, active |-> load.active, question |-> load.question]
    BY <1>5 DEF ApplySnapshot
  <2>3. /\ view' \in Views /\ ViewIsOfSelected' /\ view'.active = load.active
        /\ load.active \in 0 .. Len(runs)
    BY <1>1, <2>1, <2>2 DEF Snapshots, Views, ViewIsOfSelected
  <2>4. /\ sources' \in [Slots -> Sources] /\ ref' \in Slots \cup {0}
        /\ OneStream' /\ RefIsOpen' /\ StreamsOwned'
        /\ load.active # 0 => UnderWay'
    <3>1. CASE load.active = 0
      <4>1. UNCHANGED <<sources, ref, selected, strayed>>
        BY <1>1, <1>5, <3>1 DEF ApplySnapshot
      <4>2. sources' \in [Slots -> Sources] /\ ref' \in Slots \cup {0}
        BY <1>1, <4>1 DEF TypeOK
      <4>3. OneStream' /\ RefIsOpen' /\ StreamsOwned'
        BY <4>1 DEF WorkspaceInv, OneStream, RefIsOpen, StreamsOwned, Shown
      <4> QED  BY <3>1, <4>2, <4>3
    <3>2. CASE load.active # 0
      <4>1. load.active \in RunIds
        BY <2>3, <3>2, NothingIsTyped, <1>1 DEF RunIds
      <4>2. ConnectRun(sources, load.thread, load.active)
        BY <1>5, <3>2 DEF ApplySnapshot
      <4>3. load.thread \in Shown' /\ load.thread = selected'
        BY <1>1, <2>1 DEF Shown
      <4> QED  BY <2>1, <4>1, <4>2, <4>3, Connected
    <3> QED  BY <3>1, <3>2
  <2>5. TypeOK'
    BY <1>1, <1>2, <1>5, <2>3, <2>4, TypesStay DEF TypeOK, ApplySnapshot, server, RefIsOpen
  <2> QED  BY <1>3, <2>3, <2>4, <2>5 DEF WorkspaceInv, FollowedOrCancelled
<1> QED  BY <1>4, <1>5

-----------------------------------------------------------------------------
(* The EventSource.                                                        *)

LEMMA Streaming ==
    ASSUME WorkspaceInv, NEW n \in Slots, Streams(n)
    PROVE  /\ sources[n].run \in RunIds
           /\ runs[sources[n].run].thread = sources[n].thread
           /\ sources[n].thread \in Shown /\ sources[n].thread \in Threads
           /\ n = ref
<1>1. sources[n] \in Sources /\ Len(runs) \in Nat
  BY NothingIsTyped DEF WorkspaceInv, TypeOK
<1>2. sources[n].open /\ sources[n].thread # 0 /\ sources[n].run # 0
  BY DEF Streams, WorkspaceInv, StreamsOwned
<1> QED
  BY <1>1, <1>2 DEF Streams, Sources, RunIds, WorkspaceInv, OneStream, StreamsOwned

LEMMA PartKeeps ==
    ASSUME WorkspaceInv, NEW n \in Slots, Part(n)
    PROVE  WorkspaceInv'
<1> DEFINE r == sources[n].run
<1>1. /\ UNCHANGED <<server, selected, request, sources, ref, loads, posts, strayed, lost>>
      /\ runs' = runs /\ TypeOK
  BY DEF Part, server, WorkspaceInv
<1>2. r \in RunIds /\ runs[r].thread \in Shown /\ view' = Record(view, r, "message")
  BY Streaming DEF Part
<1>3. view' \in Views /\ view'.owners = view.owners \cup {runs[r].thread}
  BY <1>1, <1>2, Recording DEF TypeOK
<1>4. view'.active = view.active
  BY <1>2 DEF Record
<1>5. TypeOK'
  BY <1>1, <1>3, TypesStay DEF TypeOK, server
<1>6. ViewIsOfSelected'
  BY <1>1, <1>2, <1>3 DEF ViewIsOfSelected, WorkspaceInv, Shown
<1>7. UnderWay' = UnderWay
  BY <1>1 DEF UnderWay, Current
<1> QED
  BY <1>1, <1>4, <1>5, <1>6, <1>7, TypesStay DEF WorkspaceInv, OneStream, RefIsOpen, StreamsOwned,
     LoadsNamed, PostsOwned, Shown, FollowedOrCancelled, Cancelling

(* One EventSource is closed, or ends with its check; the others stay.     *)
LEMMA Dropping ==
    ASSUME WorkspaceInv, UNCHANGED <<runs, selected, strayed>>,
           NEW n \in Slots, NEW c \in Sources, ~c.open,
           sources' = [sources EXCEPT ![n] = c],
           c.checking => sources[n].checking /\ c.thread = sources[n].thread
                                             /\ c.run = sources[n].run,
           ref' = IF ref = n THEN 0 ELSE ref
    PROVE  /\ sources' \in [Slots -> Sources'] /\ ref' \in Slots \cup {0}
           /\ OneStream' /\ RefIsOpen' /\ StreamsOwned'
<1>1. sources \in [Slots -> Sources] /\ Sources' = Sources /\ ref \in Slots \cup {0} /\ n # 0
  BY TypesStay, Numbered DEF WorkspaceInv, TypeOK
<1>2. \A m \in Slots : sources'[m] = IF m = n THEN c ELSE sources[m]
  BY <1>1
<1>3. sources' \in [Slots -> Sources'] /\ ref' \in Slots \cup {0}
  BY <1>1
<1>4. OneStream' /\ RefIsOpen'
  BY <1>1, <1>2 DEF WorkspaceInv, OneStream, RefIsOpen
<1>5. StreamsOwned'
  BY <1>1, <1>2 DEF WorkspaceInv, StreamsOwned, Shown
<1> QED  BY <1>3, <1>4, <1>5

(* What goes on when one EventSource is gone.                              *)
LEMMA StillUnderWay ==
    ASSUME WorkspaceInv, UNCHANGED <<selected, request>>,
           NEW n \in Slots, NEW c, sources' = [sources EXCEPT ![n] = c],
           \A l \in Loads : Current(loads[l]) => loads'[l] = loads[l],
           UnderWay,
           \/ sources[n].thread # selected
           \/ c.thread = sources[n].thread /\ c.checking
    PROVE  UnderWay'
<1>1. \A m \in Slots : sources'[m] = IF m = n THEN c ELSE sources[m]
  BY DEF WorkspaceInv, TypeOK
<1>2. CASE \E l \in Loads : Current(loads[l])
  BY <1>2 DEF UnderWay, Current
<1>3. CASE \E m \in Slots : sources[m].thread = selected /\ (sources[m].open \/ sources[m].checking)
  BY <1>1, <1>3 DEF UnderWay
<1> QED  BY <1>2, <1>3 DEF UnderWay

(* A run that ends is followed by a snapshot of its Thread.                *)
LEMMA EndOfRunKeeps ==
    ASSUME WorkspaceInv, NEW n \in Slots, EndOfRun(n)
    PROVE  WorkspaceInv'
<1> DEFINE r == sources[n].run
           c == Closed(sources, n)[n]
<1>1. /\ UNCHANGED <<server, selected, request, posts, strayed, lost>> /\ runs' = runs
      /\ TypeOK /\ view \in Views /\ request \in 1 .. MaxRequests
  BY DEF EndOfRun, server, WorkspaceInv, TypeOK
<1>2. /\ r \in RunIds /\ runs[r].thread = sources[n].thread
      /\ runs[r].thread \in Shown /\ runs[r].thread \in Threads
      /\ view' = Record(view, r, runs[r].status)
      /\ BeginLoad(runs[r].thread, request)
      /\ sources' = Closed(sources, n) /\ ref' = IF ref = n THEN 0 ELSE ref
  BY Streaming DEF EndOfRun
<1>3. runs[r].status \in {"success", "interrupted", "cancelled"}
  <2>1. runs[r] \in Runs
    BY <1>1, <1>2, ElementOfSeq DEF TypeOK, RunIds
  <2>2. r # 0 /\ ~Active(r)
    BY <1>2 DEF EndOfRun, RunIds
  <2> QED  BY <2>1, <2>2 DEF Runs, Active
<1>4. view' \in Views /\ view'.owners = view.owners \cup {runs[r].thread}
  BY <1>1, <1>2, Recording
<1>5. view'.active \in {0, view.active}
  BY <1>2, <1>3 DEF Record
<1>6. /\ sources' = [sources EXCEPT ![n] = c] /\ c \in Sources /\ ~c.open
      /\ c.checking => sources[n].checking /\ c.thread = sources[n].thread /\ c.run = sources[n].run
  BY <1>1, <1>2, Closing
<1> HIDE DEF c, r
<1>7. /\ sources' \in [Slots -> Sources'] /\ ref' \in Slots \cup {0}
      /\ OneStream' /\ RefIsOpen' /\ StreamsOwned'
  BY <1>1, <1>2, <1>6, Dropping
<1>8. /\ loads' \in [Loads -> Snapshots] /\ LoadsNamed'
      /\ runs[r].thread = selected' => UnderWay'
      /\ \A l \in Loads : Current(loads[l]) => loads'[l] = loads[l]
  BY <1>1, <1>2, Loaded
<1>9. TypeOK'
  BY <1>1, <1>4, <1>7, <1>8, TypesStay DEF TypeOK, server, RefIsOpen
<1>10. ViewIsOfSelected' /\ PostsOwned'
  BY <1>1, <1>2, <1>4, TypesStay DEF ViewIsOfSelected, PostsOwned, WorkspaceInv, Shown
<1>11. FollowedOrCancelled'
  <2>1. CASE sources[n].thread = selected
    BY <1>1, <1>2, <1>8, <2>1 DEF FollowedOrCancelled
  <2>2. CASE sources[n].thread # selected
    <3>1. UnderWay => UnderWay'
      BY <1>1, <1>6, <1>8, <2>2, StillUnderWay
    <3> QED  BY <1>1, <1>5, <3>1 DEF WorkspaceInv, FollowedOrCancelled, Cancelling
  <2> QED  BY <2>1, <2>2
<1> QED  BY <1>7, <1>8, <1>9, <1>10, <1>11 DEF WorkspaceInv

LEMMA LoseKeeps ==
    ASSUME WorkspaceInv, NEW n \in Slots, Lose(n)
    PROVE  WorkspaceInv'
<1>1. /\ UNCHANGED <<server, selected, request, view, ref, loads, posts, strayed, lost>>
      /\ runs' = runs /\ TypeOK /\ sources[n].open
      /\ sources' = [sources EXCEPT ![n].checking = TRUE]
  BY DEF Lose, server, WorkspaceInv
<1> DEFINE new == [sources[n] EXCEPT !.checking = TRUE]
<1>2. /\ new \in Sources /\ new.open /\ new.checking
      /\ new.thread = sources[n].thread /\ new.run = sources[n].run
  BY <1>1 DEF TypeOK, Sources
<1>3. sources' = [sources EXCEPT ![n] = new] /\ sources \in [Slots -> Sources]
  BY <1>1 DEF TypeOK
<1> HIDE DEF new
<1>4. /\ sources' \in [Slots -> Sources]
      /\ \A m \in Slots :
            /\ sources'[m].open <=> sources[m].open
            /\ sources'[m].thread = sources[m].thread /\ sources'[m].run = sources[m].run
            /\ sources[m].checking => sources'[m].checking
            /\ sources'[m].checking => sources[m].open \/ sources[m].checking
  <2>1. \A m \in Slots : sources'[m] = IF m = n THEN new ELSE sources[m]
    BY <1>3
  <2> QED  BY <1>1, <1>2, <1>3, <2>1
<1>5. TypeOK'
  <2>1. ref # 0 => sources'[ref].run # 0
    BY <1>1, <1>4 DEF TypeOK
  <2> QED  BY <1>1, <1>4, <2>1, TypesStay DEF TypeOK, server
<1>6. RefIsOpen'
  BY <1>1, <1>4 DEF RefIsOpen, WorkspaceInv, TypeOK
<1>7. OneStream' /\ StreamsOwned'
  BY <1>1, <1>4 DEF OneStream, StreamsOwned, WorkspaceInv, Shown
<1>8. UnderWay => UnderWay'
  BY <1>1, <1>4 DEF UnderWay, Current
<1> QED
  BY <1>1, <1>5, <1>6, <1>7, <1>8, TypesStay DEF WorkspaceInv, LoadsNamed, PostsOwned,
     ViewIsOfSelected, Shown, FollowedOrCancelled, Cancelling

LEMMA RefuseKeeps ==
    ASSUME WorkspaceInv, NEW n \in Slots, Refuse(n)
    PROVE  WorkspaceInv'
<1> DEFINE c == Closed(sources, n)[n]
<1>1. /\ UNCHANGED <<server, selected, request, view, loads, posts, strayed>> /\ runs' = runs
      /\ TypeOK /\ sources' = Closed(sources, n) /\ ref' = IF ref = n THEN 0 ELSE ref
      /\ lost' = (lost \/ ~sources[n].checking)
  BY DEF Refuse, server, WorkspaceInv
<1>2. /\ sources' = [sources EXCEPT ![n] = c] /\ c \in Sources /\ ~c.open
      /\ c.checking = sources[n].checking
      /\ c.checking => c.thread = sources[n].thread /\ c.run = sources[n].run
  BY <1>1, Closing
<1> HIDE DEF c
<1>3. /\ sources' \in [Slots -> Sources'] /\ ref' \in Slots \cup {0}
      /\ OneStream' /\ RefIsOpen' /\ StreamsOwned'
  BY <1>1, <1>2, Dropping
<1>4. TypeOK'
  BY <1>1, <1>3, TypesStay DEF TypeOK, server, RefIsOpen
<1>5. FollowedOrCancelled'
  <2>1. CASE sources[n].checking
    <3>1. UnderWay => UnderWay'
      BY <1>1, <1>2, <2>1, StillUnderWay
    <3> QED  BY <1>1, <2>1, <3>1 DEF WorkspaceInv, FollowedOrCancelled, Cancelling, TypeOK
  <2>2. CASE ~sources[n].checking
    BY <1>1, <2>2 DEF FollowedOrCancelled
  <2> QED  BY <2>1, <2>2
<1> QED
  BY <1>1, <1>3, <1>4, <1>5, TypesStay DEF WorkspaceInv, LoadsNamed, PostsOwned,
     ViewIsOfSelected, Shown

(* A check that succeeds is followed by a snapshot.                        *)
LEMMA CheckedKeeps ==
    ASSUME WorkspaceInv, NEW n \in Slots, Checked(n)
    PROVE  WorkspaceInv'
<1> DEFINE t == sources[n].thread
<1>1. /\ UNCHANGED <<server, selected, request, view, posts, strayed, lost>> /\ runs' = runs
      /\ TypeOK /\ sources' = [sources EXCEPT ![n] = NoSource] /\ request \in 1 .. MaxRequests
      /\ ref' = IF ref = n THEN 0 ELSE ref
      /\ BeginLoad(t, request) /\ sources[n].checking
  BY DEF Checked, server, WorkspaceInv, TypeOK
<1>2. t \in Threads
  BY <1>1 DEF WorkspaceInv, StreamsOwned, TypeOK, Sources
<1>3. NoSource \in Sources /\ ~NoSource.open /\ ~NoSource.checking
  BY <1>1, NothingIsTyped DEF NoSource
<1>4. /\ sources' \in [Slots -> Sources'] /\ ref' \in Slots \cup {0}
      /\ OneStream' /\ RefIsOpen' /\ StreamsOwned'
  BY <1>1, <1>3, Dropping
<1>5. /\ loads' \in [Loads -> Snapshots] /\ LoadsNamed'
      /\ t = selected' => UnderWay'
      /\ \A l \in Loads : Current(loads[l]) => loads'[l] = loads[l]
  BY <1>1, <1>2, Loaded
<1>6. TypeOK'
  BY <1>1, <1>4, <1>5, TypesStay DEF TypeOK, server, RefIsOpen
<1>7. UnderWay => UnderWay'
  <2>1. CASE t = selected
    BY <1>1, <1>5, <2>1
  <2>2. CASE t # selected
    BY <1>1, <1>5, <2>2, StillUnderWay
  <2> QED  BY <2>1, <2>2
<1> QED
  BY <1>1, <1>4, <1>5, <1>6, <1>7, TypesStay DEF WorkspaceInv, PostsOwned,
     ViewIsOfSelected, Shown, FollowedOrCancelled, Cancelling

LEMMA CheckFailsKeeps ==
    ASSUME WorkspaceInv, NEW n \in Slots, CheckFails(n)
    PROVE  WorkspaceInv'
<1>1. /\ UNCHANGED <<server, selected, request, view, ref, loads, posts, strayed>> /\ runs' = runs
      /\ TypeOK /\ lost' = (lost \/ ~sources[n].open)
  BY DEF CheckFails, server, WorkspaceInv
<1> DEFINE new == IF sources[n].open THEN [sources[n] EXCEPT !.checking = FALSE] ELSE NoSource
<1>2. /\ new \in Sources /\ new.open = sources[n].open /\ ~new.checking
      /\ new.open => new.thread = sources[n].thread /\ new.run = sources[n].run
  BY <1>1, NothingIsTyped DEF TypeOK, Sources, NoSource
<1>3. sources' = [sources EXCEPT ![n] = new] /\ sources \in [Slots -> Sources]
  BY <1>1 DEF TypeOK, CheckFails
<1> HIDE DEF new
<1>4. /\ sources' \in [Slots -> Sources]
      /\ \A m \in Slots :
            /\ sources'[m].open = sources[m].open
            /\ sources'[m].open =>
                  sources'[m].thread = sources[m].thread /\ sources'[m].run = sources[m].run
            /\ sources'[m].checking => sources'[m] = sources[m]
            /\ m # n => sources'[m] = sources[m]
  BY <1>1, <1>2, <1>3
<1>5. RefIsOpen'
  BY <1>1, <1>4 DEF RefIsOpen, WorkspaceInv, TypeOK
<1>6. TypeOK'
  BY <1>1, <1>4, <1>5, TypesStay DEF TypeOK, server, RefIsOpen
<1>7. OneStream' /\ StreamsOwned'
  BY <1>1, <1>4 DEF OneStream, StreamsOwned, WorkspaceInv, Shown
<1>8. sources[n].open /\ UnderWay => UnderWay'
  BY <1>1, <1>4 DEF UnderWay, Current
<1> QED
  BY <1>1, <1>5, <1>6, <1>7, <1>8, TypesStay DEF WorkspaceInv, LoadsNamed, PostsOwned,
     ViewIsOfSelected, Shown, FollowedOrCancelled, Cancelling, TypeOK

(* A snapshot that fails is missed only if it was for the selection.       *)
LEMMA LoadFailsKeeps ==
    ASSUME WorkspaceInv, NEW l \in Loads, LoadFails(l)
    PROVE  WorkspaceInv'
<1>1. /\ UNCHANGED <<server, selected, request, view, sources, ref, posts, strayed>> /\ runs' = runs
      /\ TypeOK /\ loads' = [loads EXCEPT ![l] = NoLoad]
      /\ lost' = (lost \/ Current(loads[l]))
  BY DEF LoadFails, server, WorkspaceInv
<1>2. loads' \in [Loads -> Snapshots] /\ LoadsNamed'
  BY <1>1, NothingIsTyped DEF TypeOK, LoadsNamed, NoLoad, WorkspaceInv
<1>3. TypeOK'
  <2>1. lost' \in BOOLEAN
    BY <1>1 DEF Current, TypeOK
  <2> QED  BY <1>1, <1>2, <2>1, TypesStay DEF TypeOK, server
<1>4. ~Current(loads[l]) /\ UnderWay => UnderWay'
  BY <1>1 DEF UnderWay, Current, TypeOK
<1> QED
  BY <1>1, <1>2, <1>3, <1>4, TypesStay DEF WorkspaceInv, OneStream, RefIsOpen, StreamsOwned,
     PostsOwned, ViewIsOfSelected, Shown, FollowedOrCancelled, Cancelling

-----------------------------------------------------------------------------
(* The user.                                                               *)

LEMMA Asking ==
    ASSUME WorkspaceInv, runs' = runs, NEW f \in Forms,
           NEW kind \in {"submit", "resume", "edit", "cancel", "delete"},
           NEW t \in Threads \cup {0}, NEW r \in 0 .. Len(runs),
           kind = "cancel" => f = "composer" /\ r \in RunIds,
           Ask(f, kind, t, r)
    PROVE  /\ posts' \in [Forms -> Posts'] /\ PostsOwned'
           /\ \A g \in Forms : posts[g].kind = "cancel" => posts'[g] = posts[g]
           /\ posts'[f].kind = kind /\ posts'[f].thread = t /\ posts'[f].run = r
<1> DEFINE new == [kind |-> kind, thread |-> t, run |-> r,
                   wasActive |-> kind = "submit" /\ view.active # 0, answered |-> FALSE]
<1>1. /\ posts \in [Forms -> Posts] /\ posts[f].kind = "none" /\ t # 0
      /\ posts' = [posts EXCEPT ![f] = new]
  BY DEF Ask, NoPost, WorkspaceInv, TypeOK
<1>2. (kind = "submit" /\ view.active # 0) \in BOOLEAN
  OBVIOUS
<1>3. /\ new \in Posts /\ ~new.answered
      /\ new.kind = kind /\ new.thread = t /\ new.run = r
  BY <1>2 DEF Posts
<1> HIDE DEF new
<1>4. posts' \in [Forms -> Posts']
  BY <1>1, <1>3, TypesStay
<1>5. PostsOwned'
  BY <1>1, <1>3, TypesStay DEF PostsOwned, WorkspaceInv
<1> QED  BY <1>1, <1>3, <1>4, <1>5

(* Asking for something other than a cancellation changes nothing else.    *)
LEMMA AskKeeps ==
    ASSUME WorkspaceInv, NEW f \in Forms, NEW kind \in {"submit", "resume", "edit", "delete"},
           NEW t \in Threads \cup {0}, NEW r \in 0 .. Len(runs), Ask(f, kind, t, r),
           UNCHANGED <<server, selected, request, view, sources, ref, loads, strayed, lost>>
    PROVE  WorkspaceInv'
<1>1. runs' = runs /\ exists' = exists
  BY DEF server
<1>2. Grown /\ exists' \subseteq Threads
  BY <1>1, NothingIsTyped DEF Grown, WorkspaceInv, TypeOK
<1>3. /\ posts' \in [Forms -> Posts'] /\ PostsOwned'
      /\ \A g \in Forms : posts[g].kind = "cancel" => posts'[g] = posts[g]
  BY <1>1, Asking
<1> QED  BY <1>2, <1>3, ServerKeeps

LEMMA UserAsks ==
    ASSUME WorkspaceInv, Submit \/ Resume \/ Edit \/ \E t \in Threads : DeleteThread(t)
    PROVE  WorkspaceInv'
<1>1. /\ selected \in Threads \cup {0} /\ 0 \in 0 .. Len(runs)
      /\ view.question \in 0 .. Len(runs)
  BY NothingIsTyped DEF WorkspaceInv, TypeOK, Views
<1>2. "composer" \in Forms /\ "transcript" \in Forms /\ "rail" \in Forms
  BY DEF Forms
<1>3. CASE Submit
  BY <1>1, <1>2, <1>3, AskKeeps DEF Submit
<1>4. CASE Resume
  BY <1>1, <1>2, <1>4, AskKeeps DEF Resume
<1>5. CASE Edit
  BY <1>1, <1>2, <1>5, AskKeeps DEF Edit
<1>6. CASE \E t \in Threads : DeleteThread(t)
  <2>1. PICK t \in Threads : DeleteThread(t)
    BY <1>6
  <2> QED  BY <1>1, <1>2, <2>1, AskKeeps DEF DeleteThread
<1> QED  BY <1>3, <1>4, <1>5, <1>6

LEMMA CancelRunKeeps ==
    ASSUME WorkspaceInv, CancelRun
    PROVE  WorkspaceInv'
<1>1. /\ UNCHANGED <<server, selected, request, view, loads, strayed, lost>> /\ runs' = runs
      /\ TypeOK /\ Disconnect /\ view.active # 0
  BY DEF CancelRun, server, WorkspaceInv
<1>2. view.active \in RunIds /\ view.active \in 0 .. Len(runs) /\ selected \in Threads \cup {0}
  BY <1>1, NothingIsTyped DEF TypeOK, Views, RunIds
<1>3. /\ posts' \in [Forms -> Posts'] /\ PostsOwned'
      /\ posts'["composer"].kind = "cancel" /\ posts'["composer"].thread = selected
      /\ posts'["composer"].run = view.active
  BY <1>1, <1>2, Asking DEF CancelRun, Forms
<1>4. /\ sources' \in [Slots -> Sources] /\ ref' = 0
      /\ OneStream' /\ RefIsOpen' /\ StreamsOwned'
  BY <1>1, Disconnected
<1>5. TypeOK'
  BY <1>1, <1>3, <1>4, TypesStay DEF TypeOK, server
<1>6. FollowedOrCancelled'
  BY <1>1, <1>3 DEF FollowedOrCancelled, Cancelling, Forms
<1> QED
  BY <1>1, <1>3, <1>4, <1>5, <1>6 DEF WorkspaceInv, LoadsNamed, ViewIsOfSelected, Shown

(* The answers to requests.                                                *)
LEMMA SubmittedKeeps ==
    ASSUME WorkspaceInv, Submitted
    PROVE  WorkspaceInv'
<1> DEFINE post == posts["composer"]
<1>1. /\ UNCHANGED <<server, selected, request, loads>> /\ runs' = runs
      /\ TypeOK /\ view \in Views /\ post \in Posts /\ "composer" \in Forms
      /\ post.kind = "submit" /\ post.answered
      /\ posts' = [posts EXCEPT !["composer"] = NoPost]
      /\ view' = Record(view, post.run, "started")
      /\ Late(post.thread)
      /\ lost' = (lost \/ (post.wasActive /\ ~UnderWay) \/ post.thread # selected)
  BY DEF Submitted, Answered, server, WorkspaceInv, TypeOK, Forms
<1>2. /\ post.run \in RunIds /\ runs[post.run].thread = post.thread
      /\ post.thread \in Threads
  BY <1>1 DEF WorkspaceInv, PostsOwned, Posts
<1>3. view' \in Views /\ view'.owners = view.owners \cup {post.thread}
  BY <1>1, <1>2, Recording
<1>4. posts' \in [Forms -> Posts'] /\ PostsOwned'
  BY <1>1, PostGone
<1>5. post.thread \in Shown' /\ Shown \subseteq Shown' /\ strayed' \subseteq Threads
  BY <1>1, <1>2 DEF Late, Shown, TypeOK
<1>6. ViewIsOfSelected'
  BY <1>3, <1>5 DEF ViewIsOfSelected, WorkspaceInv, Shown
<1> HIDE DEF post
<1>7. CASE post.wasActive
  <2>1. UNCHANGED <<sources, ref>>
    BY <1>7 DEF Submitted, post
  <2>2. sources' \in [Slots -> Sources] /\ ref' \in Slots \cup {0} /\ OneStream' /\ RefIsOpen'
    BY <2>1 DEF WorkspaceInv, TypeOK, OneStream, RefIsOpen
  <2>3. StreamsOwned'
    BY <1>5, <2>1 DEF WorkspaceInv, StreamsOwned
  <2>4. TypeOK'
    BY <1>1, <1>3, <1>4, <1>5, <2>2, TypesStay DEF TypeOK, server, RefIsOpen
  <2>5. UnderWay' = UnderWay
    BY <1>1, <2>1 DEF UnderWay, Current
  <2> QED
    BY <1>1, <1>4, <1>6, <1>7, <2>2, <2>3, <2>4, <2>5
       DEF WorkspaceInv, LoadsNamed, FollowedOrCancelled
<1>8. CASE ~post.wasActive
  <2>1. ConnectRun(sources, post.thread, post.run)
    BY <1>8 DEF Submitted, post
  <2>2. /\ sources' \in [Slots -> Sources] /\ ref' \in Slots
        /\ OneStream' /\ RefIsOpen' /\ StreamsOwned'
        /\ post.thread = selected' => UnderWay'
    BY <1>2, <1>5, <2>1, Connected
  <2>3. TypeOK'
    BY <1>1, <1>3, <1>4, <1>5, <2>2, TypesStay DEF TypeOK, server, RefIsOpen
  <2> QED
    BY <1>1, <1>4, <1>6, <2>2, <2>3 DEF WorkspaceInv, LoadsNamed, FollowedOrCancelled
<1> QED  BY <1>7, <1>8

LEMMA ResumedKeeps ==
    ASSUME WorkspaceInv, Resumed
    PROVE  WorkspaceInv'
<1> DEFINE post == posts["transcript"]
           resumed == Record(view, post.run, "resumed")
<1>1. /\ UNCHANGED <<server, selected, request, loads>> /\ runs' = runs
      /\ TypeOK /\ view \in Views /\ post \in Posts /\ "transcript" \in Forms
      /\ post.kind = "resume" /\ post.answered
      /\ posts' = [posts EXCEPT !["transcript"] = NoPost]
      /\ view' = Record(resumed, post.run, "started")
      /\ ConnectRun(sources, post.thread, post.run)
      /\ Late(post.thread)
      /\ lost' = (lost \/ post.thread # selected)
  BY DEF Resumed, Answered, server, WorkspaceInv, TypeOK, Forms
<1>2. /\ post.run \in RunIds /\ runs[post.run].thread = post.thread
      /\ post.thread \in Threads
  BY <1>1 DEF WorkspaceInv, PostsOwned, Posts
<1>3. resumed \in Views /\ resumed.owners = view.owners \cup {post.thread}
  BY <1>1, <1>2, Recording
<1>4. view' \in Views /\ view'.owners = view.owners \cup {post.thread}
  <2> HIDE DEF resumed
  <2> QED  BY <1>1, <1>2, <1>3, Recording
<1>5. posts' \in [Forms -> Posts'] /\ PostsOwned'
  BY <1>1, PostGone
<1>6. post.thread \in Shown' /\ Shown \subseteq Shown' /\ strayed' \subseteq Threads
  BY <1>1, <1>2 DEF Late, Shown, TypeOK
<1>7. ViewIsOfSelected'
  BY <1>4, <1>6 DEF ViewIsOfSelected, WorkspaceInv, Shown
<1> HIDE DEF post, resumed
<1>8. /\ sources' \in [Slots -> Sources] /\ ref' \in Slots
      /\ OneStream' /\ RefIsOpen' /\ StreamsOwned'
      /\ post.thread = selected' => UnderWay'
  BY <1>1, <1>2, <1>6, Connected
<1>9. TypeOK'
  BY <1>1, <1>4, <1>5, <1>6, <1>8, TypesStay DEF TypeOK, server, RefIsOpen
<1> QED
  BY <1>1, <1>5, <1>7, <1>8, <1>9 DEF WorkspaceInv, LoadsNamed, FollowedOrCancelled

LEMMA EditedKeeps ==
    ASSUME WorkspaceInv, Edited
    PROVE  WorkspaceInv'
<1> DEFINE post == posts["transcript"]
<1>1. /\ UNCHANGED <<server, selected, view, strayed>> /\ runs' = runs
      /\ TypeOK /\ post \in Posts /\ "transcript" \in Forms
      /\ post.kind = "edit" /\ posts' = [posts EXCEPT !["transcript"] = NoPost]
      /\ NextRequest /\ Disconnect
      /\ BeginLoad(post.thread, request')
      /\ lost' = (lost \/ post.thread # selected)
  BY DEF Edited, Answered, server, WorkspaceInv, TypeOK, Forms
<1>2. post.thread \in Threads
  BY <1>1 DEF WorkspaceInv, PostsOwned, Posts
<1>3. request' \in 1 .. MaxRequests
  BY <1>1, RequestsNumbered DEF NextRequest, TypeOK
<1> HIDE DEF post
<1>4. posts' \in [Forms -> Posts'] /\ PostsOwned'
  BY <1>1, PostGone
<1>5. /\ sources' \in [Slots -> Sources] /\ ref' = 0
      /\ OneStream' /\ RefIsOpen' /\ StreamsOwned'
  BY <1>1, Disconnected
<1>6. /\ loads' \in [Loads -> Snapshots] /\ LoadsNamed'
      /\ post.thread = selected' => UnderWay'
  BY <1>1, <1>2, <1>3, Loaded
<1>7. TypeOK'
  BY <1>1, <1>3, <1>4, <1>5, <1>6, TypesStay DEF TypeOK, server
<1> QED
  BY <1>1, <1>4, <1>5, <1>6, <1>7 DEF WorkspaceInv, ViewIsOfSelected, Shown, FollowedOrCancelled

LEMMA SelectBranchKeeps ==
    ASSUME WorkspaceInv, SelectBranch
    PROVE  WorkspaceInv'
<1>1. /\ UNCHANGED <<server, selected, view, posts, strayed, lost>> /\ runs' = runs
      /\ TypeOK /\ selected \in Threads /\ view.active = 0
      /\ NextRequest /\ Disconnect /\ BeginLoad(selected, request')
  BY DEF SelectBranch, server, WorkspaceInv, TypeOK
<1>2. request' \in 1 .. MaxRequests
  BY <1>1, RequestsNumbered DEF NextRequest, TypeOK
<1>3. /\ sources' \in [Slots -> Sources] /\ ref' = 0
      /\ OneStream' /\ RefIsOpen' /\ StreamsOwned'
  BY <1>1, Disconnected
<1>4. loads' \in [Loads -> Snapshots] /\ LoadsNamed'
  BY <1>1, <1>2, Loaded
<1>5. TypeOK'
  BY <1>1, <1>2, <1>3, <1>4, TypesStay DEF TypeOK, server
<1> QED
  BY <1>1, <1>3, <1>4, <1>5, TypesStay DEF WorkspaceInv, ViewIsOfSelected, PostsOwned, Shown,
     FollowedOrCancelled

(* A selection starts from an empty view and silence.                      *)
LEMMA SelectThreadKeeps ==
    ASSUME WorkspaceInv, NEW t \in Threads, SelectThread(t), UNCHANGED server,
           posts' \in [Forms -> Posts'], PostsOwned'
    PROVE  WorkspaceInv'
<1>1. /\ runs' = runs /\ exists' = exists /\ TypeOK /\ selected' = t /\ view' = EmptyView
      /\ NextRequest /\ Disconnect /\ BeginLoad(t, request')
      /\ strayed' = {} /\ lost' = FALSE
  BY DEF SelectThread, server, WorkspaceInv
<1>2. request' \in 1 .. MaxRequests
  BY <1>1, RequestsNumbered DEF NextRequest, TypeOK
<1>3. /\ sources' \in [Slots -> Sources] /\ ref' = 0
      /\ OneStream' /\ RefIsOpen' /\ StreamsOwned'
  BY <1>1, Disconnected
<1>4. loads' \in [Loads -> Snapshots] /\ LoadsNamed'
  BY <1>1, <1>2, Loaded
<1>5. TypeOK'
  BY <1>1, <1>2, <1>3, <1>4, NothingIsTyped, TypesStay DEF TypeOK
<1> QED
  BY <1>1, <1>3, <1>4, <1>5 DEF WorkspaceInv, ViewIsOfSelected, EmptyView, FollowedOrCancelled

LEMMA SelectKeeps ==
    ASSUME WorkspaceInv, NEW t \in Threads, Select(t)
    PROVE  WorkspaceInv'
<1>1. posts' \in [Forms -> Posts'] /\ PostsOwned'
  BY TypesStay DEF Select, server, WorkspaceInv, TypeOK, PostsOwned
<1> QED  BY <1>1, SelectThreadKeeps DEF Select, server

LEMMA ThreadDeletedKeeps ==
    ASSUME WorkspaceInv, ThreadDeleted
    PROVE  WorkspaceInv'
<1>1. /\ UNCHANGED server /\ runs' = runs /\ exists' = exists /\ TypeOK
      /\ posts' = [posts EXCEPT !["rail"] = NoPost] /\ "rail" \in Forms
      /\ posts["rail"].kind = "delete"
  BY DEF ThreadDeleted, Answered, server, WorkspaceInv, Forms
<1>2. posts' \in [Forms -> Posts'] /\ PostsOwned'
  BY <1>1, PostGone
<1>3. CASE UNCHANGED <<selected, request, view, sources, ref, loads, strayed, lost>>
  <2>1. Grown /\ exists' \subseteq Threads
    BY <1>1, NothingIsTyped DEF Grown, TypeOK
  <2>2. \A f \in Forms : posts[f].kind = "cancel" => posts'[f] = posts[f]
    BY <1>1 DEF TypeOK
  <2> QED  BY <1>2, <1>3, <2>1, <2>2, ServerKeeps
<1>4. CASE \E t \in exists : SelectThread(t)
  BY <1>1, <1>2, <1>4, SelectThreadKeeps DEF TypeOK
<1>5. CASE /\ NextRequest /\ Disconnect
           /\ selected' = 0 /\ view' = EmptyView
           /\ strayed' = {} /\ lost' = FALSE /\ loads' = loads
  <2>1. request' \in 1 .. MaxRequests
    BY <1>1, <1>5, RequestsNumbered DEF NextRequest, TypeOK
  <2>2. /\ sources' \in [Slots -> Sources] /\ ref' = 0
        /\ OneStream' /\ RefIsOpen' /\ StreamsOwned'
    BY <1>5, Disconnected
  <2>3. TypeOK'
    BY <1>1, <1>2, <1>5, <2>1, <2>2, NothingIsTyped, TypesStay DEF TypeOK
  <2> QED
    BY <1>2, <1>5, <2>2, <2>3 DEF WorkspaceInv, LoadsNamed, ViewIsOfSelected, EmptyView,
       FollowedOrCancelled
<1> QED  BY <1>3, <1>4, <1>5 DEF ThreadDeleted

(* The one cancellation that the view counts on ends the active run.       *)
LEMMA RunCancelledKeeps ==
    ASSUME WorkspaceInv, RunCancelled
    PROVE  WorkspaceInv'
<1> DEFINE post == posts["composer"]
<1>1. /\ UNCHANGED <<server, selected, request, sources, ref, loads, lost>> /\ runs' = runs
      /\ TypeOK /\ view \in Views /\ post \in Posts /\ "composer" \in Forms
      /\ post.kind = "cancel" /\ post.answered
      /\ posts' = [posts EXCEPT !["composer"] = NoPost]
      /\ view' = Record(view, post.run, "cancelled")
      /\ Late(post.thread)
  BY DEF RunCancelled, Answered, server, WorkspaceInv, TypeOK, Forms
<1>2. /\ post.run \in RunIds /\ runs[post.run].thread = post.thread
      /\ post.thread \in Threads
  BY <1>1 DEF WorkspaceInv, PostsOwned, Posts
<1>3. view' \in Views /\ view'.owners = view.owners \cup {post.thread}
  BY <1>1, <1>2, Recording
<1>4. view'.active = IF view.active = post.run THEN 0 ELSE view.active
  BY <1>1 DEF Record
<1>5. posts' \in [Forms -> Posts'] /\ PostsOwned'
  BY <1>1, PostGone
<1>6. Shown \subseteq Shown' /\ post.thread \in Shown' /\ strayed' \subseteq Threads
  BY <1>1, <1>2 DEF Late, Shown, TypeOK
<1>7. ViewIsOfSelected'
  BY <1>3, <1>6 DEF ViewIsOfSelected, WorkspaceInv, Shown
<1>8. StreamsOwned'
  BY <1>1, <1>6 DEF StreamsOwned, WorkspaceInv
<1>9. TypeOK'
  BY <1>1, <1>3, <1>5, <1>6, TypesStay DEF TypeOK, server
<1>10. FollowedOrCancelled'
  <2>1. UnderWay' = UnderWay
    BY <1>1 DEF UnderWay, Current
  <2>2. \A f \in Forms : Cancelling(f) => view.active = post.run
    BY DEF WorkspaceInv, PostsOwned, Cancelling
  <2> QED  BY <1>1, <1>4, <2>1, <2>2 DEF WorkspaceInv, FollowedOrCancelled
<1> QED
  BY <1>1, <1>5, <1>7, <1>8, <1>9, <1>10 DEF WorkspaceInv, OneStream, RefIsOpen, LoadsNamed

LEMMA CancelFailsKeeps ==
    ASSUME WorkspaceInv, CancelFails
    PROVE  WorkspaceInv'
<1> DEFINE post == posts["composer"]
<1>1. /\ UNCHANGED <<server, selected, request, view, loads>> /\ runs' = runs
      /\ TypeOK /\ post \in Posts /\ "composer" \in Forms
      /\ post.kind = "cancel" /\ posts' = [posts EXCEPT !["composer"] = NoPost]
      /\ ConnectRun(sources, post.thread, post.run)
      /\ Late(post.thread)
      /\ lost' = (lost \/ post.thread # selected)
  BY DEF CancelFails, server, WorkspaceInv, TypeOK, Forms
<1>2. post.run \in RunIds /\ post.thread \in Threads
  BY <1>1 DEF WorkspaceInv, PostsOwned, Posts
<1>3. posts' \in [Forms -> Posts'] /\ PostsOwned'
  BY <1>1, PostGone
<1>4. Shown \subseteq Shown' /\ post.thread \in Shown' /\ strayed' \subseteq Threads
  BY <1>1, <1>2 DEF Late, Shown, TypeOK
<1>5. ViewIsOfSelected'
  BY <1>1, <1>4 DEF ViewIsOfSelected, WorkspaceInv, Shown
<1> HIDE DEF post
<1>6. /\ sources' \in [Slots -> Sources] /\ ref' \in Slots
      /\ OneStream' /\ RefIsOpen' /\ StreamsOwned'
      /\ post.thread = selected' => UnderWay'
  BY <1>1, <1>2, <1>4, Connected
<1>7. TypeOK'
  BY <1>1, <1>3, <1>4, <1>6, TypesStay DEF TypeOK, server, RefIsOpen
<1> QED
  BY <1>1, <1>3, <1>5, <1>6, <1>7 DEF WorkspaceInv, LoadsNamed, FollowedOrCancelled

-----------------------------------------------------------------------------
LEMMA StartsRight == Init => WorkspaceInv
<1> SUFFICES ASSUME Init PROVE WorkspaceInv
  OBVIOUS
<1>1. runs \in Seq(Runs) /\ Len(runs) = 0
  BY EmptySeq DEF Init
<1>2. NoSource \in Sources /\ NoPost \in Posts /\ EmptyView \in Views
  BY <1>1 DEF NoSource, Sources, NoPost, Posts, EmptyView, Views
<1>3. NoLoad \in Snapshots
  BY <1>1, RequestsNumbered DEF NoLoad, Snapshots
<1>4. TypeOK
  <2>1. 1 \in 1 .. MaxRequests
    BY RequestsNumbered
  <2>2. /\ exists = Threads /\ selected \in Threads /\ request = 1 /\ view = EmptyView
        /\ sources = [n \in Slots |-> NoSource] /\ ref = 0
        /\ loads = [l \in Loads |-> NoLoad] /\ posts = [f \in Forms |-> NoPost]
        /\ strayed = {} /\ lost = FALSE
    BY DEF Init, First
  <2> QED  BY <1>1, <1>2, <1>3, <2>1, <2>2 DEF TypeOK
<1>5. OneStream /\ RefIsOpen /\ StreamsOwned /\ LoadsNamed /\ PostsOwned
  BY DEF Init, OneStream, RefIsOpen, StreamsOwned, LoadsNamed, PostsOwned, NoSource, NoLoad, NoPost
<1>6. ViewIsOfSelected /\ FollowedOrCancelled
  BY DEF Init, ViewIsOfSelected, FollowedOrCancelled, EmptyView
<1> QED  BY <1>4, <1>5, <1>6 DEF WorkspaceInv

LEMMA StepsKeep == WorkspaceInv /\ [Next]_vars => WorkspaceInv'
<1> SUFFICES ASSUME WorkspaceInv, [Next]_vars PROVE WorkspaceInv'
  OBVIOUS
<1>1. CASE \E r \in RunIds : Finish(r)
  BY <1>1, FinishKeeps
<1>2. CASE \E f \in Forms : Arrive(f) \/ Fail(f)
  BY <1>2, ArriveKeeps, FailKeeps
<1>3. CASE \E l \in Loads : ReadSnapshot(l) \/ ApplySnapshot(l) \/ LoadFails(l)
  BY <1>3, ReadSnapshotKeeps, ApplySnapshotKeeps, LoadFailsKeeps
<1>4. CASE \E n \in Slots : Part(n) \/ EndOfRun(n) \/ Lose(n)
  BY <1>4, PartKeeps, EndOfRunKeeps, LoseKeeps
<1>5. CASE \E n \in Slots : Refuse(n) \/ Checked(n) \/ CheckFails(n)
  BY <1>5, RefuseKeeps, CheckedKeeps, CheckFailsKeeps
<1>6. CASE \E t \in Threads : Select(t)
  BY <1>6, SelectKeeps
<1>7. CASE Submit \/ Resume \/ Edit \/ \E t \in Threads : DeleteThread(t)
  BY <1>7, UserAsks
<1>8. CASE Submitted \/ Resumed \/ Edited
  BY <1>8, SubmittedKeeps, ResumedKeeps, EditedKeeps
<1>9. CASE SelectBranch \/ CancelRun \/ RunCancelled \/ CancelFails \/ ThreadDeleted
  BY <1>9, SelectBranchKeeps, CancelRunKeeps, RunCancelledKeeps, CancelFailsKeeps,
     ThreadDeletedKeeps
<1>10. CASE UNCHANGED vars
  <2>1. UNCHANGED <<runs, exists, selected, request, view, sources, ref, loads, posts, strayed, lost>>
    BY <1>10 DEF vars, server
  <2>2. Grown
    BY <2>1, NothingIsTyped DEF Grown, WorkspaceInv, TypeOK
  <2> QED  BY <2>1, <2>2, TypesStay, ServerKeeps DEF WorkspaceInv, TypeOK, PostsOwned
<1> QED
  BY <1>1, <1>2, <1>3, <1>4, <1>5, <1>6, <1>7, <1>8, <1>9, <1>10 DEF Next

LEMMA WorkspaceInvariant == Spec => []WorkspaceInv
<1>1. Init => WorkspaceInv
  BY StartsRight
<1>2. WorkspaceInv /\ [Next]_vars => WorkspaceInv'
  BY StepsKeep
<1> QED  BY <1>1, <1>2, PTL DEF Spec

(* Every variable of the workspace keeps its kind, and sourceRef holds an  *)
(* EventSource or nothing (useResearchWorkspace).                          *)
THEOREM TypeCorrect == Spec => []TypeOK
<1>1. WorkspaceInv => TypeOK
  BY DEF WorkspaceInv
<1> QED  BY <1>1, WorkspaceInvariant, PTL

(* However answers, errors and selections interleave, no EventSource is    *)
(* open but the one in sourceRef (connectRun, selectThread).               *)
THEOREM OneStreamHolds == Spec => []OneStream
<1>1. WorkspaceInv => OneStream
  BY DEF WorkspaceInv
<1> QED  BY <1>1, WorkspaceInvariant, PTL

(* The view never shows events of a Thread that is neither selected nor    *)
(* answered late (loadSnapshot, selectThread, connectRun).                 *)
THEOREM ViewStaysWithSelection == Spec => []ViewIsOfSelected
<1>1. WorkspaceInv => ViewIsOfSelected
  BY DEF WorkspaceInv
<1> QED  BY <1>1, WorkspaceInvariant, PTL

(* An active run in the view is followed, unless one of the losses that    *)
(* the code does not make good has occurred (connectRun, cancelRun).       *)
THEOREM ActiveRunFollowed == Spec => []Followed
<1>1. WorkspaceInv => Followed
  BY DEF WorkspaceInv, FollowedOrCancelled, Followed, Cancelling
<1> QED  BY <1>1, WorkspaceInvariant, PTL

================================================================================
