--------------------------- MODULE SharedRefresh ---------------------------
(***************************************************************************)
(* What the replay window of the broker promises, without the window, the  *)
(* calls and Creatio's side of them: requests that present the same        *)
(* refresh token of the same session within Window of one another share    *)
(* one refresh, each is answered when that refresh settles and with its    *)
(* outcome, and a refresh that has failed is shared with nobody more.      *)
(* The promise is given up for a token that is revoked, for tokens that    *)
(* were in the window when the process restarted, and for a token one of   *)
(* whose older refreshes fails late.  RefreshWindow implements this module.*)
(***************************************************************************)
EXTENDS Integers

CONSTANTS Session,  \* brokered logins
          Token,    \* Creatio refresh tokens
          Request,  \* refresh_token requests to /token
          None,     \* absence of a value
          Window    \* how long a refresh is shared

VARIABLES now,
          asked,    \* asked[r]: the session and the token that r presented
          shares,   \* shares[r]: the request whose refresh r shares
          refresh,  \* refresh[q]: what became of the refresh that q started
          since,    \* since[q]: when q started it
          answered, \* the requests that have been answered
          excused   \* tokens for which the promise was given up

vars == <<now, asked, shares, refresh, since, answered, excused>>

\* The refresh of q can be shared: it was made with the token c, not long ago, and
\* has not failed.
Shareable(q, c) ==
    /\ refresh[q] \in {"open", "ok"}
    /\ asked[q].token = c
    /\ now < since[q] + Window

Sharing(q) == {r \in Request : shares[r] = q}

Init ==
    /\ now = 0
    /\ asked = [r \in Request |-> None]
    /\ shares = [r \in Request |-> None]
    /\ refresh = [r \in Request |-> "none"]
    /\ since = [r \in Request |-> 0]
    /\ answered = {}
    /\ excused = {}

\* The request r presents a token of a session.
Present(r) ==
    /\ asked[r] = None
    /\ asked'[r] \in [session : Session, token : Token]
    /\ asked' = [asked EXCEPT ![r] = asked'[r]]

\* It spends the token, when there is nothing to share.
Spend(r) ==
    /\ LET c == asked'[r].token IN
          c \in excused \/ \A q \in Request : ~Shareable(q, c)
    /\ shares' = [shares EXCEPT ![r] = r]
    /\ refresh' = [refresh EXCEPT ![r] = "open"]
    /\ since' = [since EXCEPT ![r] = now]
    /\ UNCHANGED <<now, answered, excused>>

\* Or it shares the refresh of q, which presented the same.
Share(r, q) ==
    /\ asked[q] = asked'[r]
    /\ Shareable(q, asked[q].token)
    /\ shares' = [shares EXCEPT ![r] = q]
    /\ answered' = IF refresh[q] = "ok" THEN answered \cup {r} ELSE answered
    /\ UNCHANGED <<now, refresh, since, excused>>

Succeed(q) ==
    /\ refresh[q] = "open"
    /\ refresh' = [refresh EXCEPT ![q] = "ok"]
    /\ answered' = answered \cup Sharing(q)
    /\ UNCHANGED <<now, asked, shares, since, excused>>

\* The refresh of q fails; if another of the same token can be shared by then, that
\* one may be forgotten.
Fail(q) ==
    /\ refresh[q] = "open"
    /\ refresh' = [refresh EXCEPT ![q] = "failed"]
    /\ answered' = answered \cup Sharing(q)
    /\ \/ UNCHANGED excused
       \/ /\ \E p \in Request \ {q} : asked[p] # None /\ asked[p].token = asked[q].token
                                      /\ refresh[p] \in {"open", "ok"}
          /\ excused' = excused \cup {asked[q].token}
    /\ UNCHANGED <<now, asked, shares, since>>

\* A token is revoked.
Revoke(c) ==
    /\ excused' = excused \cup {c}
    /\ UNCHANGED <<now, asked, shares, refresh, since, answered>>

\* The process restarts: what is in flight is lost, and what was to be shared.
Restart ==
    /\ refresh' = [q \in Request |-> IF refresh[q] = "open" THEN "failed" ELSE refresh[q]]
    /\ answered' = {r \in Request : asked[r] # None}
    /\ \E C \in SUBSET {asked[q].token : q \in {p \in Request : asked[p] # None}} :
          excused' = excused \cup C
    /\ UNCHANGED <<now, asked, shares, since>>

Tick ==
    /\ now' = now + 1
    /\ UNCHANGED <<asked, shares, refresh, since, answered, excused>>

Next ==
    \/ \E r \in Request :
          Present(r) /\ (Spend(r) \/ \E q \in Request : Share(r, q))
    \/ \E q \in Request : Succeed(q) \/ Fail(q)
    \/ \E c \in Token : Revoke(c)
    \/ Restart \/ Tick

Spec == Init /\ [][Next]_vars

\* What follows from it: whoever shares a refresh presented what the one that started it
\* presented, and is answered exactly when it has settled.
AnsweredTogether ==
    \A r \in Request : asked[r] # None =>
        /\ shares[r] \in Request
        /\ asked[shares[r]] = asked[r]
        /\ r \in answered <=> refresh[shares[r]] \in {"ok", "failed"}
=============================================================================
