------------------------------- MODULE HttpAuth -------------------------------
(***************************************************************************)
(* Requests to Creatio and the credentials they carry: the retry loop of   *)
(* CreatioHttpClient and the four auth providers behind it.  With "legacy" *)
(* and "oauth2" the program logs in for itself: it holds one session (a    *)
(* cookie or a token), numbered here in the order Creatio issued them,     *)
(* which all requests share.  With "bearer" and "broker" a request carries *)
(* the token it came with.  A request of the keep-alive is one of Request. *)
(*                                                                         *)
(* Everything between two answers of the network is one step: those who    *)
(* await one login go on, in turn, before anything else happens.           *)
(***************************************************************************)
EXTENDS Integers, FiniteSets

CONSTANTS
  Request,       \* the calls of fetchWithAuth
  Token,         \* tokens that requests bring along, negative numbers
  Carried        \* the token each request brings along

VARIABLES
  mode,          \* the provider CreatioAuthManager chose
  held,          \* _cookieHeader, accessToken: the session held, 0 for none
  fresh,         \* _isFresh: the clock is before accessTokenExpiryMs
  inflight,      \* _inflightLogin, _inflight is set
  logins,        \* logins (token fetches) Creatio has not answered
  issued,        \* sessions issued so far
  expired,       \* sessions Creatio accepts no more
  invalid,       \* SessionContext._rejectedCreatioTokens, by invalidate
  request        \* per request: where it is, what it carries and carried

ownVars == <<held, fresh, inflight, logins, issued, expired>>
vars == <<mode, ownVars, invalid, request>>

\* What the tokens of a deployment are.
CarriedAssumption ==
  /\ IsFiniteSet(Request)
  /\ Token \subseteq Int /\ \A t \in Token : t < 0
  /\ Carried \in [Request -> Token]

Own == mode \in {"legacy", "oauth2"}
Waiting == {"headers", "refresh"}
Final == {"answered", "failed", "unauthorized"}

Idle == [at |-> "idle", cred |-> 0, tried |-> FALSE, refused |-> 0]

Init ==
  /\ mode \in {"legacy", "oauth2", "bearer", "broker"}
  /\ held = 0 /\ fresh = FALSE
  /\ inflight = FALSE /\ logins = 0
  /\ issued = 0 /\ expired = {} /\ invalid = {}
  /\ request = [r \in Request |-> Idle]

-----------------------------------------------------------------------------
(* The credential *)

\* _ensureSession, ensureAccessToken: what is held will do.
Usable(s, f) == s # 0 /\ (mode = "oauth2" => f)

\* Mutant: every caller logs in for itself.
LogInEach == inflight' = TRUE /\ logins' = logins + 1

\* _ensureSession, ensureAccessToken with nothing usable: join the login in
\* flight or start one.
LogInOnce ==
  /\ inflight' = TRUE
  /\ logins' = IF inflight THEN logins ELSE logins + 1

Sending(q, c) == [q EXCEPT !.at = "sent", !.cred = c]
\* Mutant: a request that waits keeps the headers it was sent with.
AwaitStale(q, at) == [q EXCEPT !.at = at]
Await(q, at) == [q EXCEPT !.at = at, !.cred = 0]

-----------------------------------------------------------------------------
(* A request *)

\* The factory asks the provider for headers and the request goes out, at once
\* or when the login it awaits is there.
Begin(r) ==
  /\ request[r].at = "idle"
  /\ \/ /\ ~Own
        /\ request' = [request EXCEPT ![r] = Sending(@, Carried[r])]
        /\ UNCHANGED ownVars
     \/ /\ Own /\ Usable(held, fresh)
        /\ request' = [request EXCEPT ![r] = Sending(@, held)]
        /\ UNCHANGED ownVars
     \/ /\ Own /\ ~Usable(held, fresh)
        /\ request' = [request EXCEPT ![r] = Await(@, "headers")]
        /\ LogInOnce
        /\ UNCHANGED <<held, fresh, issued, expired>>
  /\ UNCHANGED <<mode, invalid>>

\* Creatio answers with anything but an auth bounce (handleErrorResponse and
\* fetchJson throw on an error status), or the connection fails.
Answer(r) ==
  /\ request[r].at = "sent"
  /\ \E end \in {"answered", "failed"} : request' = [request EXCEPT ![r].at = end]
  /\ UNCHANGED <<mode, ownVars, invalid>>

\* _looksLikeAuthBounce: 401, or a redirect that ended in HTML.  Creatio bounces
\* an expired session, and may bounce any token a request brought along.
Bounced(r) ==
  /\ request[r].at = "sent"
  /\ Own => request[r].cred \in expired

\* Mutant: refresh keeps the session there is.
RefreshIfNone(r) ==
  IF Usable(held, fresh)
  THEN /\ request' = [request EXCEPT ![r] =
                        [Sending(@, held) EXCEPT !.tried = TRUE, !.refused = request[r].cred]]
       /\ UNCHANGED ownVars
  ELSE /\ held' = 0 /\ fresh' = FALSE
       /\ LogInOnce
       /\ request' = [request EXCEPT ![r] =
                        [Await(@, "refresh") EXCEPT !.tried = TRUE, !.refused = request[r].cred]]
       /\ UNCHANGED <<issued, expired>>

\* refresh of the providers that log in: the session held is dropped, whoever
\* obtained it, and the request awaits another.
Refresh(r) ==
  /\ held' = 0 /\ fresh' = FALSE
  /\ LogInOnce
  /\ request' = [request EXCEPT ![r] =
                   [Await(@, "refresh") EXCEPT !.tried = TRUE, !.refused = request[r].cred]]
  /\ UNCHANGED <<issued, expired>>

\* BrokerProvider.invalidate, called at the second bounce; the other providers
\* have none.
Rejected(r) ==
  IF mode = "broker" /\ request[r].tried THEN invalid \cup {request[r].cred} ELSE invalid

\* The first bounce: refresh, then once more from the factory, with the headers
\* of _withFreshAuth.
FirstBounce(r) ==
  /\ Bounced(r) /\ ~request[r].tried
  /\ \/ Own /\ Refresh(r)
     \/ /\ ~Own
        /\ request' = [request EXCEPT ![r].tried = TRUE, ![r].refused = request[r].cred]
        /\ UNCHANGED ownVars
  /\ invalid' = Rejected(r)
  /\ UNCHANGED mode

\* The second bounce: the caller gets the 401.
SecondBounce(r) ==
  /\ Bounced(r) /\ request[r].tried
  /\ request' = [request EXCEPT ![r].at = "unauthorized"]
  /\ invalid' = Rejected(r)
  /\ UNCHANGED <<mode, ownVars>>

-----------------------------------------------------------------------------
(* Logging in *)

\* Creatio issues a session; all who await it send with it.
LoggedIn ==
  /\ logins > 0
  /\ issued' = issued + 1 /\ held' = issued + 1 /\ fresh' = TRUE
  /\ inflight' = FALSE /\ logins' = logins - 1
  /\ request' = [r \in Request |-> IF request[r].at \in Waiting
                                   THEN Sending(request[r], issued + 1) ELSE request[r]]
  /\ UNCHANGED <<mode, expired, invalid>>

\* Mutant: the one who retries after a token fetch that failed does not start
\* another.
FetchNotRepeated == inflight' = FALSE

\* OAuth2Provider.fetchToken failed: a refresh ends as if it had not, and the
\* first request to retry fetches again.
FetchRepeated == inflight' = (\E r \in Request : request[r].at = "refresh")

\* Creatio refuses, sends no cookie or cannot be reached.  _login throws to all
\* who await it.
LogInFailed ==
  /\ logins > 0
  /\ \/ /\ mode = "legacy"
        /\ inflight' = FALSE /\ logins' = logins - 1
        /\ request' = [r \in Request |-> IF request[r].at \in Waiting
                                         THEN [request[r] EXCEPT !.at = "failed"] ELSE request[r]]
        /\ UNCHANGED <<held, fresh>>
     \/ /\ mode = "oauth2"
        /\ held' = 0 /\ fresh' = FALSE
        /\ FetchRepeated
        /\ logins' = IF inflight' THEN logins ELSE logins - 1
        /\ request' = [r \in Request |->
              CASE request[r].at = "headers" -> [request[r] EXCEPT !.at = "failed"]
                [] request[r].at = "refresh" -> [request[r] EXCEPT !.at = "headers"]
                [] OTHER -> request[r]]
  /\ UNCHANGED <<mode, issued, expired, invalid>>

\* Creatio ends a session (idle time-out, restart, revocation).
Expire(s) ==
  /\ s \in 1..issued \ expired
  /\ expired' = expired \cup {s}
  /\ UNCHANGED <<mode, held, fresh, inflight, logins, issued, invalid, request>>

\* The clock reaches accessTokenExpiryMs.
Lapse ==
  /\ mode = "oauth2" /\ fresh
  /\ fresh' = FALSE
  /\ UNCHANGED <<mode, held, inflight, logins, issued, expired, invalid, request>>

Next ==
  \/ \E r \in Request : Begin(r) \/ Answer(r) \/ FirstBounce(r) \/ SecondBounce(r)
  \/ LoggedIn \/ LogInFailed \/ Lapse
  \/ \E s \in 1..issued : Expire(s)

Spec == Init /\ [][Next]_vars

\* Creatio, or the HTTP client's own time-out, answers every call in the end.
Fairness ==
  /\ \A r \in Request : WF_vars(Answer(r) \/ FirstBounce(r) \/ SecondBounce(r))
  /\ WF_vars(LoggedIn \/ LogInFailed)
FairSpec == Spec /\ Fairness

-----------------------------------------------------------------------------
(* Properties *)

Credential == 0..issued \cup Token

TypeOK ==
  /\ mode \in {"legacy", "oauth2", "bearer", "broker"}
  /\ held \in 0..issued /\ fresh \in BOOLEAN /\ inflight \in BOOLEAN
  /\ logins \in Nat /\ issued \in Nat /\ expired \subseteq 1..issued
  /\ invalid \subseteq Token
  /\ request \in [Request -> [at : {"idle", "sent"} \cup Waiting \cup Final,
                              cred : Credential, tried : BOOLEAN, refused : Credential]]
  /\ \A r \in Request : request[r].at \in Waiting => request[r].cred = 0

\* A burst of requests that find no session makes one login (_inflightLogin,
\* _inflight), and whoever waits is waiting for a login that is under way: the
\* promise in flight is cleared when its login ends, and not before.
OneLogin ==
  /\ logins = IF inflight THEN 1 ELSE 0
  /\ (\E r \in Request : request[r].at \in Waiting) => inflight

\* The retry carries a session issued after the one Creatio refused: the refresh
\* is not wasted on a session, held or being fetched, that is no newer.
RetryRenewed ==
  \A r \in Request :
    (Own /\ request[r].tried /\ request[r].at = "sent") => request[r].cred > request[r].refused

\* However the bounces of a burst and the logins interleave, and however logins
\* fail, every session of the cookie provider after the first is owed to a request
\* that was refused: N refusals never cost more than N logins.
LoginsBounded ==
  mode = "legacy" => issued <= 1 + Cardinality({r \in Request : request[r].tried})

\* Every request ends: after at most one retry, whatever the logins do.
RequestEnds == \A r \in Request : (request[r].at # "idle") ~> (request[r].at \in Final)
=============================================================================
