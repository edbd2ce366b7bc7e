------------------------- MODULE AuthorizationFlow -------------------------
(***************************************************************************)
(* The broker's authorization-code flow: OAuthStorage and the handlers of  *)
(* /register, /authorize, /oauth/callback and /token (code grant).  A       *)
(* handler is one action up to its first await and one more after it.      *)
(* Requests the broker answers with an error and no state change are       *)
(* stuttering steps and have no action.                                    *)
(***************************************************************************)
EXTENDS Integers, FiniteSets

CONSTANTS
    Client,           \* client ids
    Uuid,             \* the ids /register mints; the others are self-chosen
    Redirect,         \* redirect URIs
    Allowed,          \* those isAllowedRedirectUri accepts
    Verifier,         \* client PKCE verifiers; S256 is injective, so a
                      \* challenge is named by its verifier
    User,             \* Creatio users
    BrokerState,      \* opaque broker states (32 random bytes)
    Code,             \* authorization codes (32 random bytes)
    None,             \* an absent map entry
    PendingTtl, CodeTtl, ClientTtl, MaxClients,
    MaxTime,          \* bound: the clock stops here
    MaxRegistrations  \* bound: client store insertions

ASSUME IdAssumption ==
    /\ Uuid \subseteq Client
    /\ Allowed \subseteq Redirect
    /\ None \notin [client : Client, redirect : Redirect, challenge : Verifier,
                    creatio_verifier : BrokerState, expires_at : Nat]
    /\ None \notin [client : Client, redirect : Redirect, challenge : Verifier,
                    login : [user : User, state : BrokerState],
                    expires_at : Nat]
    /\ None \notin [redirect_uris : SUBSET Redirect, created_at : Nat,
                    order : Nat]
    /\ None \notin [client : Client, challenge : Verifier]

ASSUME BoundAssumption ==
    /\ PendingTtl \in Nat /\ CodeTtl \in Nat /\ ClientTtl \in Nat
    /\ MaxClients \in Nat \ {0}
    /\ MaxTime \in Nat /\ MaxRegistrations \in Nat

VARIABLES
    now,           \* Date.now()
    store,         \* _clients; order is the Map's insertion order
    insertions,    \* client store insertions so far
    minted,        \* ids handed out by /register
    authorizing,   \* /authorize handlers awaiting generatePkcePair
    pending,       \* _pendingAuthorizations
    creatioCodes,  \* Creatio: authorization codes not exchanged yet
    exchanging,    \* /oauth/callback handlers awaiting exchangeCode
    codes,         \* _authorizationCodes
    request,       \* history: the request each broker state was created for
    usedCodes,     \* history: authorization codes generated so far
    grants         \* history: token pairs issued, per grantee

storeVars == <<store, insertions, minted>>
flowVars  == <<authorizing, pending, creatioCodes, exchanging, codes>>
history   == <<request, usedCodes, grants>>
vars      == <<now, storeVars, flowVars, history>>

Login   == [user : User, state : BrokerState]
Request == [client : Client, challenge : Verifier]
Grantee == [user : User, state : BrokerState,
            client : Client, verifier : Verifier]

ClientEntry == [redirect_uris : SUBSET Redirect, created_at : Nat, order : Nat]
AuthRequest == [client : Client, redirect : Redirect, challenge : Verifier]

PendingData == [client : Client, redirect : Redirect, challenge : Verifier,
                creatio_verifier : BrokerState, expires_at : Nat]

\* userKey and the sealed Creatio tokens both come from the exchanged login.
CodeData == [client : Client, redirect : Redirect, challenge : Verifier,
             login : Login, expires_at : Nat]

Init ==
    /\ now = 0
    /\ store = [c \in Client |-> None]
    /\ insertions = 0
    /\ minted = {}
    /\ authorizing = {}
    /\ pending = [s \in BrokerState |-> None]
    /\ creatioCodes = {}
    /\ exchanging = {}
    /\ codes = [k \in Code |-> None]
    /\ request = [s \in BrokerState |-> None]
    /\ usedCodes = {}
    /\ grants = [g \in Grantee |-> 0]

-----------------------------------------------------------------------------
(* The client store. *)

Present(st) == {c \in Client : st[c] # None}

\* Mutant: the newest entries make room.
CapNewest(st) ==
    [c \in Client |->
        IF /\ c \in Present(st)
           /\ Cardinality({d \in Present(st) : st[d].order < st[c].order})
                < MaxClients
        THEN st[c] ELSE None]

\* The store after the oldest entries (in Map order) beyond the cap are gone.
CapClients(st) ==
    [c \in Client |->
        IF /\ c \in Present(st)
           /\ Cardinality({d \in Present(st) : st[d].order > st[c].order})
                < MaxClients
        THEN st[c] ELSE None]

\* Map.set keeps the position of an id that is already there.
AddClient(st, c, uris) ==
    CapClients([st EXCEPT ![c] =
        [redirect_uris |-> uris, created_at |-> now,
         order |-> IF @ = None THEN insertions + 1 ELSE @.order]])

EvictExpiredClients(st) ==
    CapClients([c \in Client |->
        IF c \in Present(st) /\ now - st[c].created_at > ClientTtl
        THEN None ELSE st[c]])

\* POST /register: validateClientRegistration, then a fresh UUID.
Register(c, uris) ==
    /\ insertions < MaxRegistrations
    /\ c \in Uuid \ minted
    /\ uris # {} /\ uris \subseteq Allowed
    /\ store' = AddClient(store, c, uris)
    /\ insertions' = insertions + 1
    /\ minted' = minted \cup {c}
    /\ UNCHANGED <<now, flowVars, history>>

-----------------------------------------------------------------------------
(* GET /authorize. *)

\* The store in which the request is validated: an unknown client is first
\* registered with the redirect URI of the request.
AutoRegister(c, r) ==
    IF store[c] = None THEN AddClient(store, c, {r}) ELSE store

\* Up to the await.  wellFormed: response_type is "code" and the challenge is
\* there with method S256; a malformed request still registers its client.
Authorize(c, r, v, wellFormed) ==
    /\ c \in Uuid => c \in minted
    /\ r \in Allowed
    /\ store[c] = None => insertions < MaxRegistrations
    /\ store' = AutoRegister(c, r)
    /\ insertions' = IF store[c] = None THEN insertions + 1 ELSE insertions
    /\ authorizing' =
          IF wellFormed /\ store'[c] # None /\ r \in store'[c].redirect_uris
          THEN authorizing \cup
                 {[client |-> c, redirect |-> r, challenge |-> v]}
          ELSE authorizing
    /\ UNCHANGED <<now, minted, pending, creatioCodes, exchanging, codes,
                   history>>

\* Mutant: two string arguments swapped.
PendingSwapped(a, s) ==
    [client |-> a.redirect, redirect |-> a.client,
     challenge |-> a.challenge, creatio_verifier |-> s,
     expires_at |-> now + PendingTtl]

\* Our own PKCE verifier is as fresh as the state, which names it.
PendingFor(a, s) ==
    [client |-> a.client, redirect |-> a.redirect,
     challenge |-> a.challenge, creatio_verifier |-> s,
     expires_at |-> now + PendingTtl]

\* After the await.
CreatePending(a, s) ==
    /\ a \in authorizing
    /\ request[s] = None
    /\ authorizing' = authorizing \ {a}
    /\ pending' = [pending EXCEPT ![s] = PendingFor(a, s)]
    /\ request' = [request EXCEPT ![s] =
          [client |-> a.client, challenge |-> a.challenge]]
    /\ UNCHANGED <<now, storeVars, creatioCodes, exchanging, codes,
                   usedCodes, grants>>

-----------------------------------------------------------------------------
(* Creatio: a user consents at the URL of a state; the code Creatio sends   *)
(* to the callback is bound to the challenge of that URL.                   *)

CreatioLogin(l) ==
    /\ request[l.state] # None
    /\ creatioCodes' = creatioCodes \cup {l}
    /\ UNCHANGED <<now, storeVars, authorizing, pending, exchanging, codes,
                   history>>

-----------------------------------------------------------------------------
(* GET /oauth/callback.  The code and the state come from the query, so    *)
(* they need not belong together.                                          *)

\* Mutant: the entry is looked up and left in place.
PeekPending(s) == pending' = pending

TakePending(s) == pending' = [pending EXCEPT ![s] = None]

Callback(l, s) ==
    /\ pending[s] # None
    /\ TakePending(s)
    /\ exchanging' = IF now > pending[s].expires_at THEN exchanging
                     ELSE exchanging \cup {[data |-> pending[s], code |-> l]}
    /\ UNCHANGED <<now, storeVars, authorizing, creatioCodes, codes, history>>

\* Creatio accepts the exchange: the code is unused and our verifier matches.
ExchangeOk(x, k) ==
    /\ x \in exchanging
    /\ x.code \in creatioCodes
    /\ x.code.state = x.data.creatio_verifier
    /\ k \notin usedCodes
    /\ exchanging' = exchanging \ {x}
    /\ creatioCodes' = creatioCodes \ {x.code}
    /\ codes' = [codes EXCEPT ![k] =
          [client |-> x.data.client, redirect |-> x.data.redirect,
           challenge |-> x.data.challenge, login |-> x.code,
           expires_at |-> now + CodeTtl]]
    /\ usedCodes' = usedCodes \cup {k}
    /\ UNCHANGED <<now, storeVars, authorizing, pending, request, grants>>

\* Creatio refuses, or the call fails: 502, and the pending entry stays taken.
ExchangeFails(x) ==
    /\ x \in exchanging
    /\ exchanging' = exchanging \ {x}
    /\ UNCHANGED <<now, storeVars, authorizing, pending, creatioCodes, codes,
                   history>>

-----------------------------------------------------------------------------
(* POST /token with grant_type authorization_code: no await between the    *)
(* lookup and the deletion of the code.                                    *)

\* Mutants: a comparison is missing.
MatchesAnyClient(d, c, r, v) ==
    /\ d.redirect = r
    /\ d.challenge = v

MatchesAnyVerifier(d, c, r, v) ==
    /\ d.client = c
    /\ d.redirect = r

\* validateAuthCodeData, past its expiry check.
Matches(d, c, r, v) ==
    /\ d.client = c
    /\ d.redirect = r
    /\ d.challenge = v

\* The grantee of a redemption by client c with verifier v.
RedeemedBy(d, c, v) ==
    [user |-> d.login.user, state |-> d.login.state,
     client |-> c, verifier |-> v]

Redeem(k, c, r, v) ==
    /\ codes[k] # None
    /\ now <= codes[k].expires_at
    /\ Matches(codes[k], c, r, v)
    /\ codes' = [codes EXCEPT ![k] = None]
    /\ grants' = [grants EXCEPT ![RedeemedBy(codes[k], c, v)] = @ + 1]
    /\ UNCHANGED <<now, storeVars, authorizing, pending, creatioCodes,
                   exchanging, request, usedCodes>>

\* Mutant: every refused redemption drops the code.
RedeemRefused(k) ==
    /\ codes[k] # None
    /\ codes' = [codes EXCEPT ![k] = None]
    /\ UNCHANGED <<now, storeVars, authorizing, pending, creatioCodes,
                   exchanging, history>>

\* A redemption of an expired code drops it; any other refusal keeps it.
RedeemExpired(k) ==
    /\ codes[k] # None
    /\ now > codes[k].expires_at
    /\ codes' = [codes EXCEPT ![k] = None]
    /\ UNCHANGED <<now, storeVars, authorizing, pending, creatioCodes,
                   exchanging, history>>

-----------------------------------------------------------------------------
\* Mutant: the comparison is the wrong way round.
EvictLive(m) ==
    [x \in DOMAIN m |->
        IF m[x] # None /\ now <= m[x].expires_at THEN None ELSE m[x]]

\* OAuthStorage.cleanup, on the five-minute timer.
EvictExpired(m) ==
    [x \in DOMAIN m |->
        IF m[x] # None /\ now > m[x].expires_at THEN None ELSE m[x]]

Cleanup ==
    /\ codes' = EvictExpired(codes)
    /\ pending' = EvictExpired(pending)
    /\ store' = EvictExpiredClients(store)
    /\ UNCHANGED <<now, insertions, minted, authorizing, creatioCodes,
                   exchanging, history>>

\* The process restarts: nothing of the storage is persisted, and handlers in
\* flight are gone.  Browsers, clients and Creatio keep what they hold.
Restart ==
    /\ store' = [c \in Client |-> None]
    /\ authorizing' = {}
    /\ pending' = [s \in BrokerState |-> None]
    /\ exchanging' = {}
    /\ codes' = [k \in Code |-> None]
    /\ UNCHANGED <<now, insertions, minted, creatioCodes, history>>

Tick ==
    /\ now < MaxTime
    /\ now' = now + 1
    /\ UNCHANGED <<storeVars, flowVars, history>>

Next ==
    \/ \E c \in Client, uris \in SUBSET Redirect : Register(c, uris)
    \/ \E c \in Client, r \in Redirect, v \in Verifier, w \in BOOLEAN :
          Authorize(c, r, v, w)
    \/ \E a \in authorizing, s \in BrokerState : CreatePending(a, s)
    \/ \E l \in Login : CreatioLogin(l)
    \/ \E l \in Login, s \in BrokerState : Callback(l, s)
    \/ \E x \in exchanging, k \in Code : ExchangeOk(x, k)
    \/ \E x \in exchanging : ExchangeFails(x)
    \/ \E k \in Code, c \in Client, r \in Redirect, v \in Verifier :
          Redeem(k, c, r, v)
    \/ \E k \in Code : RedeemExpired(k)
    \/ Cleanup
    \/ Restart
    \/ Tick

Spec == Init /\ [][Next]_vars

\* The cleanup timer runs for as long as the server is up.
FairSpec == Spec /\ WF_vars(Cleanup)

-----------------------------------------------------------------------------
(* Properties. *)

TypeOK ==
    /\ now \in Nat
    /\ store \in [Client -> ClientEntry \cup {None}]
    /\ insertions \in Nat
    /\ minted \in SUBSET Uuid
    /\ authorizing \in SUBSET AuthRequest
    /\ pending \in [BrokerState -> PendingData \cup {None}]
    /\ creatioCodes \in SUBSET Login
    /\ exchanging \in SUBSET [data : PendingData, code : Login]
    /\ codes \in [Code -> CodeData \cup {None}]
    /\ request \in [BrokerState -> Request \cup {None}]
    /\ usedCodes \in SUBSET Code
    /\ grants \in [Grantee -> Nat]

RequestOf(d) == [client |-> d.client, challenge |-> d.challenge]

\* A broker state travels with the request it was created for: whatever is
\* pending, being exchanged or waiting as a code names the client and the
\* challenge that asked for it, however callbacks mix codes and states, and a
\* token pair went to that client, presenting that verifier.
BoundToRequest ==
    /\ \A s \in BrokerState : pending[s] # None =>
          /\ pending[s].creatio_verifier = s
          /\ RequestOf(pending[s]) = request[s]
    /\ \A x \in exchanging :
          RequestOf(x.data) = request[x.data.creatio_verifier]
    /\ \A k \in Code : codes[k] # None =>
          RequestOf(codes[k]) = request[codes[k].login.state]
    /\ \A g \in Grantee : grants[g] > 0 =>
          [client |-> g.client, challenge |-> g.verifier] = request[g.state]

Granted(s) == \E g \in Grantee : g.state = s /\ grants[g] > 0
HasCode(s) == \E k \in Code : codes[k] # None /\ codes[k].login.state = s
Exchanging(s) == \E x \in exchanging : x.data.creatio_verifier = s

\* A broker state is used once: it is in one place at a time (pending, one
\* callback in flight, one code), and in none once a token pair was issued
\* for it, so repeated callbacks and redemptions find nothing.
UsedOnce ==
    /\ \A s \in BrokerState :
          /\ pending[s] # None => ~Exchanging(s) /\ ~HasCode(s) /\ ~Granted(s)
          /\ Exchanging(s) => ~HasCode(s) /\ ~Granted(s)
          /\ HasCode(s) => ~Granted(s)
    /\ \A x, y \in exchanging :
          x.data.creatio_verifier = y.data.creatio_verifier => x = y
    /\ \A j, k \in Code :
          (codes[j] # None /\ codes[k] # None
             /\ codes[j].login.state = codes[k].login.state) => j = k

\* A code that is not expired is not lost to a redemption that was refused
\* (wrong client, redirect URI or verifier): it leaves the store only when a
\* token pair is issued to its client, when it has expired, or by a restart.
CodeKept ==
    [][\A k \in Code : codes[k] # None /\ codes'[k] = None =>
          \/ now > codes[k].expires_at
          \/ LET g == RedeemedBy(codes[k], codes[k].client,
                                codes[k].challenge)
             IN  grants'[g] = grants[g] + 1
          \/ Restart]_vars

\* "Hard-cap the client store, evicting the oldest": the cap holds, a client
\* that is dropped before its time was created no later than any that stays,
\* and makes room in a full store for one that comes.
OldestEvicted ==
    /\ [](Cardinality(Present(store)) <= MaxClients)
    /\ [][insertions' > insertions =>
             \E c \in Client : store[c] = None /\ store'[c] # None]_vars
    /\ [][\A c \in Present(store) : store'[c] = None =>
             \/ now - store[c].created_at > ClientTtl
             \/ /\ Cardinality({d \in Client : store'[d] # None}) = MaxClients
                /\ \A d \in Client : store'[d] # None =>
                      store[c].created_at <= store'[d].created_at
             \/ Restart]_vars

\* Expired codes and pending authorizations nobody comes back for are dropped.
ExpiredForgotten ==
    /\ \A k \in Code :
          (codes[k] # None /\ now > codes[k].expires_at) ~> (codes[k] = None)
    /\ \A s \in BrokerState :
          (pending[s] # None /\ now > pending[s].expires_at)
             ~> (pending[s] = None)

\* The flow implements CodeGrant: the logins in hand are those Creatio holds a
\* code for and those the broker holds a code for.
Promise == INSTANCE CodeGrant WITH
    open <- creatioCodes \cup {codes[k].login : k \in {j \in Code : codes[j] # None}}

ImplementsCodeGrant == Promise!Spec
=============================================================================
