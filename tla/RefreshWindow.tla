--------------------------- MODULE RefreshWindow ---------------------------
(***************************************************************************)
(* The refresh_token grant of the broker: sealed refresh tokens, the       *)
(* replay window in which /token requests with the same Creatio refresh    *)
(* token share one refresh, Creatio's rotation, and revocation of refresh  *)
(* tokens.                                                                 *)
(*                                                                         *)
(* A pair of Creatio tokens is named by its origin, the login or the       *)
(* /token request that obtained it; a refresh call to Creatio is named by  *)
(* the request that started it.  The access token a request is answered    *)
(* with carries the access token of the pair named by its leader, and is   *)
(* not modelled further here (see AccessEdge).  Requests refused without a *)
(* state change (an expired token, another client's token) have no action. *)
(***************************************************************************)
EXTENDS Integers

CONSTANTS
    Login,      \* brokered logins, each of its own user
    Request,    \* refresh_token requests to /token
    None,       \* absence of a value
    Rotating,   \* BOOLEAN: Creatio rotates refresh tokens
    RefreshTtl, \* REFRESH_TOKEN_TTL_MS
    Window,     \* REFRESH_REPLAY_WINDOW_MS
    MaxTime     \* bound: the clock stops here

Origin == Login \cup Request

ASSUME OriginAssumption ==
    /\ Login \cap Request = {}
    /\ None \notin Origin
    /\ None \notin [sub : Login, crt : Origin, leader : Request, done : BOOLEAN]
    /\ None \notin [by : Request, expiresAt : Nat]
    /\ None \notin [session : Login, token : Origin]

ASSUME DurationAssumption ==
    /\ Rotating \in BOOLEAN
    /\ RefreshTtl \in Nat /\ MaxTime \in Nat
    /\ Window \in Nat \ {0}

VARIABLES
    now,
    owner,     \* Creatio: the login whose session the pair g belongs to
    crtLive,   \* Creatio: the refresh token of the pair g would be accepted
    renews,    \* renews[g]: UserTokens.refreshToken of the pair g
    call,      \* call[r]: the /token request r
    flight,    \* flight[r]: the refresh call that r started
    started,   \* started[r]: when it did
    recent,    \* _recentRefreshes, by Creatio refresh token
    revoking,  \* refresh tokens of /revoke requests awaiting Creatio
    rts,       \* sealed refresh tokens issued to clients
    fate       \* history, fate[c]: what became of the refresh token c or of
               \* its window entries

creatio == <<owner, crtLive>>
vars == <<now, creatio, renews, call, flight, started, recent, revoking, rts,
          fate>>

Call       == [sub : Login, crt : Origin, leader : Request, done : BOOLEAN]
Entry      == [by : Request, expiresAt : Nat]
RefreshTok == [sub : Login, crt : Origin, exp : Nat]
InFlight   == {"sent", "accepted", "refused"}

Init ==
    /\ now = 0
    /\ owner = [g \in Origin |-> None]
    /\ crtLive = [g \in Origin |-> FALSE]
    /\ renews = [g \in Origin |-> None]
    /\ call = [r \in Request |-> None]
    /\ flight = [r \in Request |-> "none"]
    /\ started = [r \in Request |-> 0]
    /\ recent = [g \in Origin |-> None]
    /\ revoking = {}
    /\ rts = {}
    /\ fate = [g \in Origin |-> {}]

\* The refresh token _issueTokens seals for the user sub, if there is one.
Sealed(sub, renewal) ==
    IF renewal = None THEN {}
    ELSE {[sub |-> sub, crt |-> renewal, exp |-> now + RefreshTtl]}

\* A login whose code has been redeemed.  A login without a refresh token
\* never reaches this grant.
LogIn(l) ==
    /\ owner[l] = None
    /\ owner' = [owner EXCEPT ![l] = l]
    /\ crtLive' = [crtLive EXCEPT ![l] = TRUE]
    /\ renews' = [renews EXCEPT ![l] = l]
    /\ rts' = rts \cup Sealed(l, l)
    /\ UNCHANGED <<now, call, flight, started, recent, revoking, fate>>

-----------------------------------------------------------------------------
(* exchangeRefreshToken: everything up to the await of the shared refresh  *)
(* is one step.                                                            *)

\* Mutant: only a finished refresh is shared.
HitFinished(c) ==
    /\ recent[c] # None /\ now < recent[c].expiresAt
    /\ flight[recent[c].by] = "ok"

\* Mutant: an entry counts until the timer drops it.
HitForever(c) == recent[c] # None

\* The window has an entry for the Creatio refresh token c.
Hit(c) == recent[c] # None /\ now < recent[c].expiresAt

Opens(t) == now <= t.exp

CallWith(t, q, done) ==
    [sub |-> t.sub, crt |-> t.crt, leader |-> q, done |-> done]

\* A request that finds a refresh that has succeeded is answered at once.
Replay(r, t) ==
    /\ call[r] = None
    /\ t \in rts /\ Opens(t)
    /\ Hit(t.crt)
    /\ LET q == recent[t.crt].by IN
         /\ flight[q] = "ok"
         /\ call' = [call EXCEPT ![r] = CallWith(t, q, TRUE)]
         /\ rts' = rts \cup Sealed(t.sub, renews[q])
    /\ UNCHANGED <<now, creatio, renews, flight, started, recent, revoking,
                   fate>>

\* One that finds a refresh in flight awaits it.
Join(r, t) ==
    /\ call[r] = None
    /\ t \in rts /\ Opens(t)
    /\ Hit(t.crt)
    /\ flight[recent[t.crt].by] \in InFlight
    /\ call' = [call EXCEPT ![r] = CallWith(t, recent[t.crt].by, FALSE)]
    /\ UNCHANGED <<now, creatio, renews, flight, started, recent, revoking,
                   rts, fate>>

\* One that finds nothing starts a refresh and opens a window for it.
Start(r, t) ==
    /\ call[r] = None
    /\ t \in rts /\ Opens(t)
    /\ ~Hit(t.crt)
    /\ call' = [call EXCEPT ![r] = CallWith(t, r, FALSE)]
    /\ flight' = [flight EXCEPT ![r] = "sent"]
    /\ started' = [started EXCEPT ![r] = now]
    /\ recent' = [recent EXCEPT ![t.crt] =
          [by |-> r, expiresAt |-> now + Window]]
    /\ UNCHANGED <<now, creatio, renews, revoking, rts, fate>>

-----------------------------------------------------------------------------
(* Creatio's side of a refresh call: a live refresh token buys a new pair.  *)

CreatioAccepts(r) ==
    /\ flight[r] = "sent"
    /\ LET c == call[r].crt IN
         /\ crtLive[c]
         /\ owner' = [owner EXCEPT ![r] = owner[c]]
         /\ crtLive' = IF Rotating
                       THEN [crtLive EXCEPT ![c] = FALSE, ![r] = TRUE]
                       ELSE crtLive
    /\ flight' = [flight EXCEPT ![r] = "accepted"]
    /\ UNCHANGED <<now, renews, call, started, recent, revoking, rts, fate>>

CreatioRefuses(r) ==
    /\ flight[r] = "sent"
    /\ ~crtLive[call[r].crt]
    /\ flight' = [flight EXCEPT ![r] = "refused"]
    /\ UNCHANGED <<now, creatio, renews, call, started, recent, revoking, rts,
                   fate>>

-----------------------------------------------------------------------------
(* The promise of the refresh r settles: all who await it are answered     *)
(* before anything else runs.                                              *)

\* Mutants: everybody, or the leader alone, is answered.
WaitingAll(r) == {w \in Request : call[w] # None /\ ~call[w].done}
WaitingLeader(r) == {w \in {r} : ~call[w].done}

Waiting(r) ==
    {w \in Request : call[w] # None /\ call[w].leader = r /\ ~call[w].done}

Settled(c) == [c EXCEPT !.done = TRUE]

Answered(r) ==
    [w \in Request |-> IF w \in Waiting(r) THEN Settled(call[w]) ELSE call[w]]

\* Without a new refresh token the previous one is kept.
Renewal(r) == IF Rotating THEN r ELSE call[r].crt

Resolve(r) ==
    /\ flight[r] = "accepted"
    /\ renews' = [renews EXCEPT ![r] = Renewal(r)]
    /\ rts' = rts \cup UNION {Sealed(call[w].sub, Renewal(r)) : w \in Waiting(r)}
    /\ flight' = [flight EXCEPT ![r] = "ok"]
    /\ call' = Answered(r)
    /\ UNCHANGED <<now, creatio, started, recent, revoking, fate>>

\* Mutant: the failed promise stays in the window.
FailCached(r) ==
    /\ flight[r] \in InFlight
    /\ flight' = [flight EXCEPT ![r] = "failed"]
    /\ call' = Answered(r)
    /\ UNCHANGED <<now, creatio, renews, started, recent, revoking, rts, fate>>

\* Refused by Creatio, or the call or its answer was lost.  The handler of the
\* failure deletes the entry of the refresh token, whoever put it there.
Fail(r) ==
    /\ flight[r] \in InFlight
    /\ LET c == call[r].crt IN
         /\ recent' = [recent EXCEPT ![c] = None]
         /\ fate' = IF recent[c] # None /\ recent[c].by # r
                    THEN [fate EXCEPT ![c] = @ \cup {"stale"}]
                    ELSE fate
    /\ flight' = [flight EXCEPT ![r] = "failed"]
    /\ call' = Answered(r)
    /\ UNCHANGED <<now, creatio, renews, started, revoking, rts>>

-----------------------------------------------------------------------------
(* POST /revoke with a refresh token: forget its entry, then await Creatio. *)

Revoke(t) ==
    /\ t \in rts /\ Opens(t)
    /\ recent' = [recent EXCEPT ![t.crt] = None]
    /\ fate' = [fate EXCEPT ![t.crt] = @ \cup {"forgotten"}]
    /\ revoking' = revoking \cup {t.crt}
    /\ UNCHANGED <<now, creatio, renews, call, flight, started, rts>>

\* Best effort: Creatio revokes the token, or the call fails.
RevokeEnds(c, worked) ==
    /\ c \in revoking
    /\ revoking' = revoking \ {c}
    /\ crtLive' = IF worked THEN [crtLive EXCEPT ![c] = FALSE] ELSE crtLive
    /\ fate' = IF worked THEN [fate EXCEPT ![c] = @ \cup {"revoked"}] ELSE fate
    /\ UNCHANGED <<now, owner, renews, call, flight, started, recent, rts>>

-----------------------------------------------------------------------------
\* OAuthServer.cleanup, on the five-minute timer.
Cleanup ==
    /\ recent' = [g \in Origin |->
          IF recent[g] # None /\ now >= recent[g].expiresAt
          THEN None ELSE recent[g]]
    /\ UNCHANGED <<now, creatio, renews, call, flight, started, revoking, rts,
                   fate>>

\* The process restarts: the window and everything in flight are gone, what
\* clients and Creatio hold survives.
Restart ==
    /\ recent' = [g \in Origin |-> None]
    /\ fate' = [g \in Origin |->
          IF recent[g] = None THEN fate[g] ELSE fate[g] \cup {"restart"}]
    /\ flight' = [r \in Request |->
          IF flight[r] \in InFlight THEN "failed" ELSE flight[r]]
    /\ call' = [r \in Request |->
          IF call[r] = None THEN None ELSE Settled(call[r])]
    /\ revoking' = {}
    /\ UNCHANGED <<now, creatio, renews, started, rts>>

Tick ==
    /\ now < MaxTime
    /\ now' = now + 1
    /\ UNCHANGED <<creatio, renews, call, flight, started, recent, revoking,
                   rts, fate>>

Next ==
    \/ \E l \in Login : LogIn(l)
    \/ \E r \in Request, t \in rts : Replay(r, t)
    \/ \E r \in Request, t \in rts : Join(r, t)
    \/ \E r \in Request, t \in rts : Start(r, t)
    \/ \E r \in Request : CreatioAccepts(r)
    \/ \E r \in Request : CreatioRefuses(r)
    \/ \E r \in Request : Resolve(r)
    \/ \E r \in Request : Fail(r)
    \/ \E t \in rts : Revoke(t)
    \/ \E c \in revoking, worked \in BOOLEAN : RevokeEnds(c, worked)
    \/ Cleanup
    \/ Restart
    \/ Tick

Spec == Init /\ [][Next]_vars

\* A call to Creatio ends: it is answered, or the HTTP client gives up on it.
FairSpec ==
    /\ Spec
    /\ \A r \in Request :
          /\ WF_vars(CreatioAccepts(r) \/ CreatioRefuses(r))
          /\ WF_vars(Resolve(r) \/ Fail(r))

-----------------------------------------------------------------------------
(* Properties. *)

TypeOK ==
    /\ now \in Nat
    /\ owner \in [Origin -> Login \cup {None}]
    /\ crtLive \in [Origin -> BOOLEAN]
    /\ renews \in [Origin -> Origin \cup {None}]
    /\ call \in [Request -> Call \cup {None}]
    /\ flight \in [Request -> InFlight \cup {"none", "ok", "failed"}]
    /\ started \in [Request -> Nat]
    /\ recent \in [Origin -> Entry \cup {None}]
    /\ revoking \in SUBSET Origin
    /\ rts \in SUBSET RefreshTok
    /\ fate \in [Origin -> SUBSET {"stale", "forgotten", "revoked", "restart"}]

\* Sharing one refresh between requests never crosses users: whatever a
\* request is answered with belongs to the session of the token it presented.
OwnSession ==
    /\ \A t \in rts : owner[t.crt] = t.sub
    /\ \A r \in Request :
          (call[r] # None /\ call[r].done /\ flight[call[r].leader] = "ok")
             => owner[call[r].leader] = call[r].sub

\* "A failed refresh must not be replayed to the next caller as a cached
\* failure": an entry of the window stands for a call that has not failed,
\* made with the refresh token it is filed under, whatever older refreshes of
\* that token did in the meantime.
NoCachedFailure ==
    \A c \in Origin : recent[c] # None =>
        LET q == recent[c].by IN
          /\ flight[q] \in InFlight \cup {"ok"}
          /\ call[q] # None /\ call[q].crt = c

\* The request r starts a refresh while the refresh of q, made with the same
\* refresh token less than Window ago, is in flight or has succeeded.
Respends(r, q) ==
    /\ flight[r] = "none" /\ flight'[r] = "sent"
    /\ q # r
    /\ flight[q] \in InFlight \cup {"ok"}
    /\ call[q].crt = call'[r].crt
    /\ now < started[q] + Window

\* "Concurrent / retried refreshes with the same Creatio refresh token share
\* one result": a refresh token is spent once in the window, unless its entry
\* was taken away by a revocation, a restart or the late failure of an older
\* refresh.
SpentOnce ==
    [][\A r, q \in Request :
          Respends(r, q) => fate[call'[r].crt] # {}]_vars

\* Every /token request is answered, also those that joined a refresh whose
\* entry has been forgotten or replaced since.
RequestsAnswered ==
    \A r \in Request : (call[r] # None) ~> (call[r] # None /\ call[r].done)

\* What SharedRefresh sees of the window.
Asked == [r \in Request |-> IF call[r] = None THEN None
                            ELSE [session |-> call[r].sub, token |-> call[r].crt]]
Shares == [r \in Request |-> IF call[r] = None THEN None ELSE call[r].leader]
Refreshes == [r \in Request |-> IF flight[r] \in InFlight THEN "open" ELSE flight[r]]
Replied == {r \in Request : call[r] # None /\ call[r].done}
Excused == {c \in Origin : fate[c] # {}}

Shared == INSTANCE SharedRefresh WITH
    Session <- Login, Token <- Origin, asked <- Asked, shares <- Shares,
    refresh <- Refreshes, since <- started, answered <- Replied, excused <- Excused

\* The window implements SharedRefresh: requests with one refresh token share one
\* refresh for Window and no longer, whoever shares it presented the same session, and
\* all of them, and nobody else, are answered when it settles.
ImplementsSharedRefresh == Shared!Spec

-----------------------------------------------------------------------------
(* What comments in the source say and the code does not do. *)

\* oauth-server.ts: refreshes with the same refresh token share one result
\* for Window, "so a rotating Creatio refresh token is never spent twice",
\* when neither a revocation nor a restart intervenes.
SharedForWindow ==
    [][\A r, q \in Request : Respends(r, q) =>
          fate[call'[r].crt] \cap {"forgotten", "restart"} # {}]_vars

\* oauth-server.ts: "a revoked Creatio refresh token cannot be replayed
\* through the replay window" once Creatio has revoked it.
RevokedNotReplayed ==
    \A c \in Origin :
        "revoked" \in fate[c] => ~(Hit(c) /\ flight[recent[c].by] = "ok")
=============================================================================
