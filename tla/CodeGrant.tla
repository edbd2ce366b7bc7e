----------------------------- MODULE CodeGrant -----------------------------
(***************************************************************************)
(* What the broker's authorization-code flow promises, without storage,    *)
(* timers or PKCE: a login a user completed for one client's request can   *)
(* be turned into a token pair by that client, with the verifier of that   *)
(* request, and only once.  AuthorizationFlow implements this module.      *)
(***************************************************************************)
EXTENDS Integers

CONSTANTS Client,       \* MCP client ids
          Verifier,     \* PKCE verifiers of MCP clients (S256 is injective)
          User,         \* Creatio users
          BrokerState,  \* opaque states handed to Creatio
          None          \* absence of a value

VARIABLES request,  \* request[s]: the client request the state s stands for
          open,     \* completed logins that no token pair was issued for
          grants    \* grants[g]: token pairs issued for the grantee g

Login   == [user : User, state : BrokerState]
Request == [client : Client, challenge : Verifier]
Grantee == [user : User, state : BrokerState,
            client : Client, verifier : Verifier]

GranteeOf(l) == [user |-> l.user, state |-> l.state,
                 client |-> request[l.state].client,
                 verifier |-> request[l.state].challenge]

Granted(s) == \E g \in Grantee : g.state = s /\ grants[g] > 0

Init ==
    /\ request = [s \in BrokerState |-> None]
    /\ open = {}
    /\ grants = [g \in Grantee |-> 0]

\* A client asks for an authorization; the broker answers with a new state.
Ask(s, r) ==
    /\ request[s] = None
    /\ request' = [request EXCEPT ![s] = r]
    /\ UNCHANGED <<open, grants>>

\* A user logs in at Creatio for the request behind a state.
Consent(l) ==
    /\ request[l.state] # None
    /\ open' = open \cup {l}
    /\ UNCHANGED <<request, grants>>

\* The login is exchanged for a token pair, by the client that asked for it.
\* The user may have logged in once more for the same state.
Grant(l) ==
    /\ l \in open
    /\ ~Granted(l.state)
    /\ open' \in {open, open \ {l}}
    /\ grants' = [grants EXCEPT ![GranteeOf(l)] = @ + 1]
    /\ UNCHANGED request

\* Logins expire, fail at Creatio or are forgotten by a restart.
Lapse ==
    /\ open' \in SUBSET open
    /\ UNCHANGED <<request, grants>>

Next ==
    \/ \E s \in BrokerState, r \in Request : Ask(s, r)
    \/ \E l \in Login : Consent(l) \/ Grant(l)
    \/ Lapse

Spec == Init /\ [][Next]_<<request, open, grants>>
=============================================================================
