------------------------------- MODULE ApiClient -------------------------------
(***************************************************************************)
(* The requests of one page to the API (api-client.ts) and its session     *)
(* (useAuth.ts): the bearer token, its refresh shared by the requests that *)
(* find it about to expire, and the second attempt after a 401. Supabase   *)
(* Auth rotates refresh tokens: each is good for one refresh.              *)
(***************************************************************************)
EXTENDS Naturals

CONSTANT Requests       \* calls of ApiClient.request

VARIABLES
    session,    \* sessionRef and what localStorage has: the refresh token, 0 for
                \* none, and whether the access token is good for another minute
    refresh,    \* refreshPromise: the refresh token presented, 0 for none
    request,    \* the calls of request: where they are, their attempts
    issued,     \* Supabase: refresh tokens issued so far
    presented,  \* history: refresh tokens presented
    abandoned   \* history: those whose refresh a reload of the page cut off

clientVars == <<session, refresh, request, issued, presented, abandoned>>

SignedOut == [signedIn |-> FALSE, token |-> 0, fresh |-> FALSE]
SignedInWith(token, fresh) == [signedIn |-> TRUE, token |-> token, fresh |-> fresh]

Idle == [pc |-> "idle", attempts |-> 0, retry |-> FALSE]

ClientInit ==
    /\ session = SignedOut
    /\ refresh = 0
    /\ request = [r \in Requests |-> Idle]
    /\ issued = 0
    /\ presented = {} /\ abandoned = {}

(* accessToken: the token has to be refreshed first.                       *)
Stale == session.signedIn /\ ~session.fresh /\ session.token # 0

(* accessToken: a refresh under way is shared.                             *)
Join ==
    IF refresh = 0
    THEN refresh' = session.token /\ presented' = presented \cup {session.token}
    ELSE UNCHANGED <<refresh, presented>>

-----------------------------------------------------------------------------
(* request, up to its await of accessToken or of fetch; the second attempt *)
(* has retry = false.                                                      *)
BeginRequest(r) ==
    /\ request[r].pc \in {"idle", "again"}
    /\ \/ /\ Stale
          /\ Join
          /\ request' = [request EXCEPT ![r] =
                            [pc |-> "waiting", attempts |-> request[r].attempts,
                             retry |-> request[r].pc = "idle"]]
       \/ /\ ~Stale
          /\ request' = [request EXCEPT ![r] =
                            [pc |-> "sent", attempts |-> request[r].attempts + 1,
                             retry |-> request[r].pc = "idle"]]
          /\ UNCHANGED <<refresh, presented>>
    /\ UNCHANGED <<session, issued, abandoned>>

(* A 401 with a session that could be refreshed: the session is stored     *)
(* again with expires_at 0, which persistSession replaces by a full        *)
(* lifetime, so that accessToken has nothing to refresh.                   *)
Again(r) ==
    /\ request[r].pc = "sent" /\ request[r].retry
    /\ session.token # 0
    /\ session' = [session EXCEPT !.fresh = TRUE]
    /\ request' = [request EXCEPT ![r] =
                      [pc |-> "again", attempts |-> request[r].attempts, retry |-> FALSE]]
    /\ UNCHANGED <<refresh, issued, presented, abandoned>>

(* Any other answer, or none: the call returns or raises.                  *)
Answer(r) ==
    /\ request[r].pc = "sent"
    /\ request' = [request EXCEPT ![r] = Idle]
    /\ UNCHANGED <<session, refresh, issued, presented, abandoned>>

(* The refreshed session replaces whatever the session is by now, and the  *)
(* requests that waited go out with its token.                             *)
Refreshed ==
    /\ refresh # 0
    /\ issued' = issued + 1
    /\ \E fresh \in BOOLEAN : session' = SignedInWith(issued', fresh)
    /\ refresh' = 0
    /\ request' = [r \in Requests |->
                      IF request[r].pc = "waiting"
                      THEN [pc |-> "sent", attempts |-> request[r].attempts + 1,
                            retry |-> request[r].retry]
                      ELSE request[r]]
    /\ UNCHANGED <<presented, abandoned>>

(* The refresh fails, for whatever reason: the session is dropped and the  *)
(* requests that waited raise.                                             *)
RefreshFails ==
    /\ refresh # 0
    /\ session' = SignedOut
    /\ refresh' = 0
    /\ request' = [r \in Requests |->
                      IF request[r].pc = "waiting" THEN Idle ELSE request[r]]
    /\ UNCHANGED <<issued, presented, abandoned>>

(* signIn after its request, which may overlap a refresh; a session may    *)
(* come without a refresh token.                                           *)
SignIn ==
    /\ issued' = issued + 1
    /\ \E token \in {0, issued'}, fresh \in BOOLEAN :
          session' = SignedInWith(token, fresh)
    /\ UNCHANGED <<refresh, request, presented, abandoned>>

(* signOut after its request, whatever the answer.                         *)
SignOut ==
    /\ session' = SignedOut
    /\ UNCHANGED <<refresh, request, issued, presented, abandoned>>

Expire ==
    /\ session.fresh
    /\ session' = [session EXCEPT !.fresh = FALSE]
    /\ UNCHANGED <<refresh, request, issued, presented, abandoned>>

(* readStoredSession: the page starts again with the session it stored.    *)
Reload ==
    /\ refresh' = 0
    /\ request' = [r \in Requests |-> Idle]
    /\ abandoned' = IF refresh = 0 THEN abandoned ELSE abandoned \cup {refresh}
    /\ UNCHANGED <<session, issued, presented>>

ClientNext ==
    \/ \E r \in Requests : BeginRequest(r) \/ Again(r) \/ Answer(r)
    \/ Refreshed \/ RefreshFails
    \/ SignIn \/ SignOut \/ Expire \/ Reload

ClientSpec == ClientInit /\ [][ClientNext]_clientVars

-----------------------------------------------------------------------------
(* Every variable holds values of its kind.                                *)
ClientTypes ==
    /\ session \in [signedIn : BOOLEAN, token : Nat, fresh : BOOLEAN]
    /\ refresh \in Nat
    /\ request \in [Requests -> [pc : {"idle", "waiting", "sent", "again"},
                                 attempts : Nat, retry : BOOLEAN]]
    /\ issued \in Nat
    /\ presented \subseteq Nat /\ abandoned \subseteq Nat

(* However requests, refreshes, sign-ins and sign-outs overlap, a refresh  *)
(* token is presented again only if a reload cut off its first refresh:    *)
(* requests that meet an expiring token share one refresh (accessToken,    *)
(* refreshPromise).                                                        *)
TokensPresentedOnce ==
    [][\A t \in Nat \ {0} : refresh # t /\ refresh' = t
          => t \notin presented \/ t \in abandoned]_clientVars

(* A request that waits for a refresh waits for one that is under way, so  *)
(* that its end reaches it (refreshPromise and its finally).               *)
WaitersHaveRefresh ==
    \A r \in Requests : request[r].pc = "waiting" => refresh # 0

(* A request is sent twice at most, whatever the answers (request, retry). *)
SentTwiceAtMost == \A r \in Requests : request[r].attempts <= 2

================================================================================
