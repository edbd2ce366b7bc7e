---------------------- MODULE AuthorizationFlowProofs ----------------------
(***************************************************************************)
(* Proofs about AuthorizationFlow.  BoundToRequest and UsedOnce are         *)
(* inductive together with TypeOK; the refinement of CodeGrant follows.    *)
(***************************************************************************)
EXTENDS AuthorizationFlow, FiniteSetTheorems, WellFoundedInduction, TLAPS

LEMMA TypeStep == TypeOK /\ [Next]_vars => TypeOK'
<1> SUFFICES ASSUME TypeOK, [Next]_vars
             PROVE  TypeOK'
  OBVIOUS
<1> USE IdAssumption, BoundAssumption
<1> USE DEF TypeOK
<1>a. ASSUME NEW st \in [Client -> ClientEntry \cup {None}]
      PROVE  CapClients(st) \in [Client -> ClientEntry \cup {None}]
  BY DEF CapClients
<1>b. ASSUME NEW c \in Client, NEW uris \in SUBSET Redirect
      PROVE  AddClient(store, c, uris) \in [Client -> ClientEntry \cup {None}]
  <2> DEFINE e == [redirect_uris |-> uris, created_at |-> now,
                   order |-> IF store[c] = None THEN insertions + 1
                                                ELSE store[c].order]
  <2>1. e \in ClientEntry
    BY DEF ClientEntry
  <2>2. [store EXCEPT ![c] = e] \in [Client -> ClientEntry \cup {None}]
    BY <2>1
  <2> QED BY <2>2, <1>a DEF AddClient
<1>1. ASSUME NEW c \in Client, NEW uris \in SUBSET Redirect,
             Register(c, uris)
      PROVE  TypeOK'
  BY <1>1, <1>b DEF Register, flowVars, history
<1>2. ASSUME NEW c \in Client, NEW r \in Redirect, NEW v \in Verifier,
             NEW w \in BOOLEAN, Authorize(c, r, v, w)
      PROVE  TypeOK'
  <2>1. AutoRegister(c, r) \in [Client -> ClientEntry \cup {None}]
    BY <1>b DEF AutoRegister
  <2>2. [client |-> c, redirect |-> r, challenge |-> v] \in AuthRequest
    BY DEF AuthRequest
  <2> QED BY <1>2, <2>1, <2>2 DEF Authorize, history
<1>3. ASSUME NEW a \in authorizing, NEW s \in BrokerState,
             CreatePending(a, s)
      PROVE  TypeOK'
  BY <1>3 DEF CreatePending, PendingFor, storeVars, AuthRequest, PendingData, Request
<1>4. ASSUME NEW l \in Login, CreatioLogin(l)
      PROVE  TypeOK'
  BY <1>4 DEF CreatioLogin, storeVars, history
<1>5. ASSUME NEW l \in Login, NEW s \in BrokerState, Callback(l, s)
      PROVE  TypeOK'
  BY <1>5 DEF Callback, TakePending, storeVars, history
<1>6. ASSUME NEW x \in exchanging, NEW k \in Code, ExchangeOk(x, k)
      PROVE  TypeOK'
  BY <1>6 DEF ExchangeOk, storeVars, PendingData, CodeData
<1>7. ASSUME NEW x \in exchanging, ExchangeFails(x)
      PROVE  TypeOK'
  BY <1>7 DEF ExchangeFails, storeVars, history
<1>8. ASSUME NEW k \in Code, NEW c \in Client, NEW r \in Redirect,
             NEW v \in Verifier, Redeem(k, c, r, v)
      PROVE  TypeOK'
  <2>1. RedeemedBy(codes[k], c, v) \in Grantee
    BY <1>8 DEF Redeem, RedeemedBy, Grantee, CodeData, Login
  <2> QED BY <1>8, <2>1 DEF Redeem, storeVars
<1>9. ASSUME NEW k \in Code, RedeemExpired(k)
      PROVE  TypeOK'
  BY <1>9 DEF RedeemExpired, storeVars, history
<1>10. CASE Cleanup
  <2>1. EvictExpiredClients(store) \in [Client -> ClientEntry \cup {None}]
    BY <1>a DEF EvictExpiredClients
  <2> QED BY <1>10, <2>1 DEF Cleanup, EvictExpired, history
<1>11. CASE Restart
  BY <1>11 DEF Restart, history
<1>12. CASE Tick
  BY <1>12 DEF Tick, storeVars, flowVars, history
<1>13. CASE UNCHANGED vars
  BY <1>13 DEF vars, storeVars, flowVars, history
<1> QED
  BY <1>1, <1>2, <1>3, <1>4, <1>5, <1>6, <1>7, <1>8, <1>9, <1>10, <1>11,
     <1>12, <1>13 DEF Next

LEMMA InitInvariant == Init => TypeOK /\ BoundToRequest /\ UsedOnce
<1> SUFFICES ASSUME Init
             PROVE  TypeOK /\ BoundToRequest /\ UsedOnce
  OBVIOUS
<1>1. TypeOK
  BY DEF Init, TypeOK
<1>2. BoundToRequest /\ UsedOnce
  BY DEF Init, BoundToRequest, UsedOnce, Granted, HasCode, Exchanging
<1> QED BY <1>1, <1>2

\* The variables of AuthorizationFlow have the types its header declares.
THEOREM TypeCorrect == Spec => []TypeOK
  BY InitInvariant, TypeStep, PTL DEF Spec

-----------------------------------------------------------------------------
(* Binding and single use. *)

IInv == TypeOK /\ BoundToRequest /\ UsedOnce

\* What an action that touches neither flow state nor history preserves.
LEMMA FlowUnchanged ==
    ASSUME BoundToRequest, UsedOnce,
           UNCHANGED <<pending, exchanging, codes, request, grants>>
    PROVE  BoundToRequest' /\ UsedOnce'
  BY DEF BoundToRequest, UsedOnce, Granted, HasCode, Exchanging, RequestOf

\* An action that only drops pending entries, handlers and codes.
LEMMA FlowShrinks ==
    ASSUME BoundToRequest, UsedOnce,
           UNCHANGED <<request, grants>>,
           exchanging' \subseteq exchanging,
           \A s \in BrokerState : pending'[s] \in {pending[s], None},
           \A k \in Code : codes'[k] \in {codes[k], None}
    PROVE  BoundToRequest' /\ UsedOnce'
<1>1. BoundToRequest'
  BY DEF BoundToRequest, RequestOf
<1>2. \A s \in BrokerState :
        /\ Granted(s)' => Granted(s)
        /\ HasCode(s)' => HasCode(s)
        /\ Exchanging(s)' => Exchanging(s)
  BY DEF Granted, HasCode, Exchanging
<1>3. UsedOnce'
  BY <1>2 DEF UsedOnce
<1> QED BY <1>1, <1>3

LEMMA InductiveInvariant == IInv /\ [Next]_vars => IInv'
<1> SUFFICES ASSUME IInv, [Next]_vars
             PROVE  BoundToRequest' /\ UsedOnce'
  BY TypeStep DEF IInv
<1> USE IdAssumption, BoundAssumption DEF IInv
<1>1. ASSUME NEW c \in Client, NEW uris \in SUBSET Redirect,
             Register(c, uris)
      PROVE  BoundToRequest' /\ UsedOnce'
  BY <1>1, FlowUnchanged DEF Register, flowVars, history
<1>2. ASSUME NEW c \in Client, NEW r \in Redirect, NEW v \in Verifier,
             NEW w \in BOOLEAN, Authorize(c, r, v, w)
      PROVE  BoundToRequest' /\ UsedOnce'
  BY <1>2, FlowUnchanged DEF Authorize, history
<1>3. ASSUME NEW a \in authorizing, NEW s \in BrokerState,
             CreatePending(a, s)
      PROVE  BoundToRequest' /\ UsedOnce'
  <2> DEFINE d == [client |-> a.client, redirect |-> a.redirect,
                   challenge |-> a.challenge, creatio_verifier |-> s,
                   expires_at |-> now + PendingTtl]
  <2>1. /\ pending' = [pending EXCEPT ![s] = d]
        /\ request' = [request EXCEPT ![s] = RequestOf(d)]
        /\ request[s] = None
        /\ UNCHANGED <<exchanging, codes, grants>>
    BY <1>3 DEF CreatePending, PendingFor, RequestOf
  <2>2. \A q \in Request : q # None
    BY DEF Request
  <2>3. ~Exchanging(s) /\ ~HasCode(s) /\ ~Granted(s)
    <3>1. ~Exchanging(s)
      <4> SUFFICES ASSUME NEW x \in exchanging, x.data.creatio_verifier = s
                   PROVE  FALSE
        BY DEF Exchanging
      <4>1. RequestOf(x.data) = None
        BY <2>1 DEF BoundToRequest
      <4>2. RequestOf(x.data) \in Request
        BY DEF RequestOf, Request, TypeOK, PendingData
      <4> QED BY <4>1, <4>2, <2>2
    <3>2. ~HasCode(s)
      <4> SUFFICES ASSUME NEW k \in Code, codes[k] # None,
                          codes[k].login.state = s
                   PROVE  FALSE
        BY DEF HasCode
      <4>1. RequestOf(codes[k]) = None
        BY <2>1 DEF BoundToRequest
      <4>2. RequestOf(codes[k]) \in Request
        BY DEF RequestOf, Request, TypeOK, CodeData
      <4> QED BY <4>1, <4>2, <2>2
    <3>3. ~Granted(s)
      <4> SUFFICES ASSUME NEW g \in Grantee, g.state = s, grants[g] > 0
                   PROVE  FALSE
        BY DEF Granted
      <4>1. [client |-> g.client, challenge |-> g.verifier] = None
        BY <2>1 DEF BoundToRequest
      <4>2. [client |-> g.client, challenge |-> g.verifier] \in Request
        BY DEF Request, Grantee
      <4> QED BY <4>1, <4>2, <2>2
    <3> QED BY <3>1, <3>2, <3>3
  <2>4. BoundToRequest'
    BY <2>1, <2>3 DEF BoundToRequest, Exchanging, HasCode, Granted, RequestOf,
       TypeOK, PendingData, CodeData, Grantee, Login
  <2>5. UsedOnce'
    BY <2>1, <2>3 DEF UsedOnce, Exchanging, HasCode, Granted, TypeOK
  <2> QED BY <2>4, <2>5
<1>4. ASSUME NEW l \in Login, CreatioLogin(l)
      PROVE  BoundToRequest' /\ UsedOnce'
  BY <1>4, FlowUnchanged DEF CreatioLogin, history
<1>5. ASSUME NEW l \in Login, NEW s \in BrokerState, Callback(l, s)
      PROVE  BoundToRequest' /\ UsedOnce'
  <2>1. CASE now > pending[s].expires_at
    BY <1>5, <2>1, FlowShrinks DEF Callback, TakePending, history, TypeOK
  <2>2. CASE ~(now > pending[s].expires_at)
    <3> DEFINE x == [data |-> pending[s], code |-> l]
    <3>1. /\ pending[s] # None
          /\ pending' = [pending EXCEPT ![s] = None]
          /\ exchanging' = exchanging \cup {x}
          /\ UNCHANGED <<codes, request, grants>>
      BY <1>5, <2>2 DEF Callback, TakePending, history
    <3>2. /\ x.data.creatio_verifier = s
          /\ RequestOf(x.data) = request[s]
          /\ ~Exchanging(s) /\ ~HasCode(s) /\ ~Granted(s)
      BY <3>1 DEF BoundToRequest, UsedOnce
    <3>3. BoundToRequest'
      BY <3>1, <3>2 DEF BoundToRequest, RequestOf, TypeOK
    <3>4. UsedOnce'
      BY <3>1, <3>2 DEF UsedOnce, Exchanging, HasCode, Granted, TypeOK
    <3> QED BY <3>3, <3>4
  <2> QED BY <2>1, <2>2
<1>6. ASSUME NEW x \in exchanging, NEW k \in Code, ExchangeOk(x, k)
      PROVE  BoundToRequest' /\ UsedOnce'
  <2> DEFINE s == x.data.creatio_verifier
             d == [client |-> x.data.client, redirect |-> x.data.redirect,
                   challenge |-> x.data.challenge, login |-> x.code,
                   expires_at |-> now + CodeTtl]
  <2>1. /\ x.code.state = s
        /\ exchanging' = exchanging \ {x}
        /\ codes' = [codes EXCEPT ![k] = d]
        /\ UNCHANGED <<pending, request, grants>>
    BY <1>6 DEF ExchangeOk
  <2>2. /\ s \in BrokerState
        /\ Exchanging(s) /\ ~HasCode(s) /\ ~Granted(s) /\ pending[s] = None
    BY DEF UsedOnce, Exchanging, TypeOK, PendingData
  <2>3. BoundToRequest'
    BY <2>1, <2>2 DEF BoundToRequest, RequestOf, TypeOK
  <2>4. UsedOnce'
    BY <2>1, <2>2 DEF UsedOnce, Exchanging, HasCode, Granted, TypeOK
  <2> QED BY <2>3, <2>4
<1>7. ASSUME NEW x \in exchanging, ExchangeFails(x)
      PROVE  BoundToRequest' /\ UsedOnce'
  BY <1>7, FlowShrinks DEF ExchangeFails, history
<1>8. ASSUME NEW k \in Code, NEW c \in Client, NEW r \in Redirect,
             NEW v \in Verifier, Redeem(k, c, r, v)
      PROVE  BoundToRequest' /\ UsedOnce'
  <2> DEFINE d == codes[k]
             s == d.login.state
             g == RedeemedBy(d, c, v)
  <2>1. /\ d # None /\ d.client = c /\ d.challenge = v
        /\ codes' = [codes EXCEPT ![k] = None]
        /\ grants' = [grants EXCEPT ![g] = @ + 1]
        /\ UNCHANGED <<pending, exchanging, request>>
    BY <1>8 DEF Redeem, Matches
  <2>2. /\ s \in BrokerState /\ g \in Grantee /\ g.state = s
        /\ g.client = c /\ g.verifier = v
    BY <2>1 DEF TypeOK, CodeData, Login, RedeemedBy, Grantee
  <2>3. /\ HasCode(s) /\ ~Granted(s) /\ ~Exchanging(s) /\ pending[s] = None
        /\ RequestOf(d) = request[s]
    BY <2>1, <2>2 DEF UsedOnce, HasCode, BoundToRequest
  <2>4. BoundToRequest'
    BY <2>1, <2>2, <2>3 DEF BoundToRequest, RequestOf, TypeOK
  <2>5. \A t \in BrokerState :
          /\ Granted(t)' => Granted(t) \/ t = s
          /\ HasCode(t)' => HasCode(t) /\ t # s
          /\ Exchanging(t)' = Exchanging(t)
    BY <2>1, <2>2 DEF Granted, HasCode, Exchanging, UsedOnce, TypeOK
  <2>6. UsedOnce'
    BY <2>1, <2>3, <2>5 DEF UsedOnce, TypeOK
  <2> QED BY <2>4, <2>6
<1>9. ASSUME NEW k \in Code, RedeemExpired(k)
      PROVE  BoundToRequest' /\ UsedOnce'
  BY <1>9, FlowShrinks DEF RedeemExpired, history, TypeOK
<1>10. CASE Cleanup
  BY <1>10, FlowShrinks DEF Cleanup, EvictExpired, history, TypeOK
<1>11. CASE Restart
  BY <1>11, FlowShrinks DEF Restart, history, TypeOK
<1>12. CASE Tick
  BY <1>12, FlowUnchanged DEF Tick, flowVars, history
<1>13. CASE UNCHANGED vars
  BY <1>13, FlowUnchanged DEF vars, flowVars, history
<1> QED
  BY <1>1, <1>2, <1>3, <1>4, <1>5, <1>6, <1>7, <1>8, <1>9, <1>10, <1>11,
     <1>12, <1>13 DEF Next

LEMMA IInvHolds == Spec => []IInv
<1>1. Init => IInv
  BY InitInvariant DEF IInv
<1> QED BY <1>1, InductiveInvariant, PTL DEF Spec

\* However callbacks and redemptions interleave, a token pair issued by the
\* code grant goes to the client whose /authorize request started the flow,
\* presenting the verifier of that request's challenge.
THEOREM GrantsBound == Spec => []BoundToRequest
<1>1. IInv => BoundToRequest
  BY DEF IInv
<1> QED BY <1>1, IInvHolds, PTL

\* A broker state is spent at most once, whatever is repeated or raced.
THEOREM StateUsedOnce == Spec => []UsedOnce
<1>1. IInv => UsedOnce
  BY DEF IInv
<1> QED BY <1>1, IInvHolds, PTL

-----------------------------------------------------------------------------
(* Codes are not lost to refused redemptions. *)

\* A code leaves the store only when redeemed, expired or by a restart.
THEOREM CodesKept == Spec => CodeKept
<1> DEFINE Kept(k) ==
      \/ now > codes[k].expires_at
      \/ LET g == RedeemedBy(codes[k], codes[k].client, codes[k].challenge)
         IN  grants'[g] = grants[g] + 1
      \/ Restart
<1>1. ASSUME IInv, Next,
             NEW k \in Code, codes[k] # None, codes'[k] = None
      PROVE  Kept(k)
  <2> USE IdAssumption, BoundAssumption DEF IInv
  <2>1. CASE UNCHANGED codes
    BY <1>1, <2>1
  <2>2. ASSUME NEW x \in exchanging, NEW j \in Code, ExchangeOk(x, j)
        PROVE  Kept(k)
    <3> DEFINE d == [client |-> x.data.client, redirect |-> x.data.redirect,
                     challenge |-> x.data.challenge, login |-> x.code,
                     expires_at |-> now + CodeTtl]
    <3>0. x.data \in PendingData /\ x.code \in Login
      BY <1>1 DEF TypeOK
    <3>1. d \in CodeData
      BY <1>1, <3>0 DEF PendingData, CodeData, TypeOK
    <3>2. d # None
      BY <3>1 DEF CodeData, Login
    <3>3. codes' = [codes EXCEPT ![j] = d]
      BY <2>2 DEF ExchangeOk
    <3> QED BY <1>1, <3>2, <3>3 DEF TypeOK
  <2>3. ASSUME NEW j \in Code, NEW c \in Client, NEW r \in Redirect,
               NEW v \in Verifier, Redeem(j, c, r, v)
        PROVE  Kept(k)
    <3>1. j = k
      BY <1>1, <2>3 DEF Redeem, TypeOK
    <3>2. /\ c = codes[k].client
          /\ v = codes[k].challenge
          /\ grants' = [grants EXCEPT ![RedeemedBy(codes[k], c, v)] = @ + 1]
      BY <2>3, <3>1 DEF Redeem, Matches
    <3>3. RedeemedBy(codes[k], c, v) \in Grantee
      BY <1>1 DEF RedeemedBy, Grantee, TypeOK, CodeData, Login
    <3> QED BY <1>1, <3>2, <3>3 DEF TypeOK
  <2>4. ASSUME NEW j \in Code, RedeemExpired(j)
        PROVE  Kept(k)
    BY <1>1, <2>4 DEF RedeemExpired, TypeOK
  <2>5. CASE Cleanup
    BY <1>1, <2>5 DEF Cleanup, EvictExpired, TypeOK
  <2>6. CASE Restart
    BY <2>6
  <2> QED
    <3>1. CASE \E c \in Client, uris \in SUBSET Redirect : Register(c, uris)
      BY <3>1, <2>1 DEF Register, flowVars
    <3>2. CASE \E c \in Client, r \in Redirect, v \in Verifier,
                 w \in BOOLEAN : Authorize(c, r, v, w)
      BY <3>2, <2>1 DEF Authorize
    <3>3. CASE \E a \in authorizing, s \in BrokerState : CreatePending(a, s)
      BY <3>3, <2>1 DEF CreatePending, PendingFor
    <3>4. CASE \E l \in Login : CreatioLogin(l)
      BY <3>4, <2>1 DEF CreatioLogin
    <3>5. CASE \E l \in Login, s \in BrokerState : Callback(l, s)
      BY <3>5, <2>1 DEF Callback
    <3>6. CASE \E x \in exchanging : ExchangeFails(x)
      BY <3>6, <2>1 DEF ExchangeFails
    <3>7. CASE Tick
      BY <3>7, <2>1 DEF Tick, flowVars
    <3> QED
      BY <1>1, <2>2, <2>3, <2>4, <2>5, <2>6, <3>1, <3>2, <3>3, <3>4, <3>5,
         <3>6, <3>7 DEF Next
<1>2. IInv /\ [Next]_vars =>
        [\A k \in Code : codes[k] # None /\ codes'[k] = None => Kept(k)]_vars
  BY <1>1
<1> QED BY <1>2, IInvHolds, PTL DEF Spec, CodeKept

-----------------------------------------------------------------------------
(* AuthorizationFlow implements CodeGrant. *)

InHand == creatioCodes \cup {codes[k].login : k \in {j \in Code : codes[j] # None}}

\* The detailed flow implements the abstract promise: every token pair is the
\* one grant of a login that was completed for that client and verifier.
THEOREM FlowImplementsPromise == Spec => ImplementsCodeGrant
<1> USE IdAssumption, BoundAssumption
<1>1. Init => Promise!Init
  BY DEF Init, Promise!Init, Promise!Grantee, Grantee
<1>2. IInv /\ [Next]_vars =>
        [Promise!Next]_<<request, InHand, grants>>
  <2> SUFFICES ASSUME IInv, [Next]_vars
               PROVE  \/ Promise!Next
                      \/ UNCHANGED <<request, InHand, grants>>
    BY DEF InHand
  <2> USE DEF IInv
  <2>a. ASSUME UNCHANGED <<request, creatioCodes, codes, grants>>
        PROVE  UNCHANGED <<request, InHand, grants>>
    BY <2>a DEF InHand
  <2>b. ASSUME UNCHANGED <<request, creatioCodes, grants>>,
               \A k \in Code : codes'[k] \in {codes[k], None}
        PROVE  Promise!Next
    <3>1. InHand' \in SUBSET InHand
      BY <2>b DEF InHand
    <3> QED BY <2>b, <3>1 DEF Promise!Next, Promise!Lapse, InHand
  <2>1. ASSUME NEW a \in authorizing, NEW s \in BrokerState,
               CreatePending(a, s)
        PROVE  Promise!Next
    <3> DEFINE r == [client |-> a.client, challenge |-> a.challenge]
    <3>1. r \in Promise!Request
      BY DEF Promise!Request, TypeOK, AuthRequest
    <3>2. Promise!Ask(s, r)
      BY <2>1 DEF CreatePending, PendingFor, Promise!Ask
    <3> QED BY <3>1, <3>2 DEF Promise!Next
  <2>2. ASSUME NEW l \in Login, CreatioLogin(l)
        PROVE  Promise!Next
    <3>1. Promise!Consent(l)
      BY <2>2 DEF CreatioLogin, Promise!Consent, history
    <3> QED BY <3>1 DEF Promise!Next, Promise!Login, Login
  <2>3. ASSUME NEW x \in exchanging, NEW k \in Code, ExchangeOk(x, k)
        PROVE  Promise!Next
    <3> DEFINE d == [client |-> x.data.client, redirect |-> x.data.redirect,
                     challenge |-> x.data.challenge, login |-> x.code,
                     expires_at |-> now + CodeTtl]
    <3>1. /\ x.code \in creatioCodes
          /\ creatioCodes' = creatioCodes \ {x.code}
          /\ codes' = [codes EXCEPT ![k] = d]
          /\ UNCHANGED <<request, grants>>
      BY <2>3 DEF ExchangeOk
    <3>2. InHand' \in SUBSET InHand
      BY <3>1 DEF InHand, TypeOK
    <3> QED BY <3>1, <3>2 DEF Promise!Next, Promise!Lapse, InHand
  <2>4. ASSUME NEW k \in Code, NEW c \in Client, NEW r \in Redirect,
               NEW v \in Verifier, Redeem(k, c, r, v)
        PROVE  Promise!Next
    <3>0. PICK l \in Login : l = codes[k].login
      BY <2>4 DEF Redeem, TypeOK, CodeData
    <3>1. /\ codes[k] # None
          /\ codes[k].client = c /\ codes[k].challenge = v
          /\ codes' = [codes EXCEPT ![k] = None]
          /\ grants' = [grants EXCEPT ![RedeemedBy(codes[k], c, v)] = @ + 1]
          /\ UNCHANGED <<request, creatioCodes>>
      BY <2>4 DEF Redeem, Matches
    <3>2. /\ l \in Login
          /\ l \in InHand
      BY <3>0, <3>1 DEF TypeOK, CodeData, InHand
    <3>3. ~Granted(l.state)
      BY <3>0, <3>1, <3>2 DEF UsedOnce, HasCode, Login
    <3>4. ~Promise!Granted(l.state)
      BY <3>3 DEF Granted, Promise!Granted, Promise!Grantee, Grantee
    <3>5. request[l.state] = [client |-> c, challenge |-> v]
      BY <3>0, <3>1 DEF BoundToRequest, RequestOf
    <3>6. Promise!GranteeOf(l) = RedeemedBy(codes[k], c, v)
      BY <3>0, <3>5 DEF Promise!GranteeOf, RedeemedBy
    <3>7. InHand' \in {InHand, InHand \ {l}}
      <4>1. \A j \in Code : j # k /\ codes[j] # None => codes[j].login # l
        BY <3>0, <3>1, <3>2 DEF UsedOnce
      <4>2. InHand \ {l} \subseteq InHand' /\ InHand' \subseteq InHand
        BY <3>0, <3>1 DEF InHand, TypeOK
      <4> QED BY <4>2
    <3>8. Promise!Grant(l)
      BY <3>1, <3>2, <3>4, <3>6, <3>7 DEF Promise!Grant, InHand
    <3>9. l \in Promise!Login
      BY <3>2 DEF Promise!Login, Login
    <3> QED BY <3>8, <3>9 DEF Promise!Next
  <2>5. ASSUME NEW k \in Code, RedeemExpired(k)
        PROVE  Promise!Next
    BY <2>5, <2>b DEF RedeemExpired, history, TypeOK
  <2>6. CASE Cleanup
    BY <2>6, <2>b DEF Cleanup, EvictExpired, history, TypeOK
  <2>7. CASE Restart
    BY <2>7, <2>b DEF Restart, history
  <2> QED
    <3>1. CASE \E c \in Client, uris \in SUBSET Redirect : Register(c, uris)
      BY <3>1, <2>a DEF Register, flowVars, history
    <3>2. CASE \E c \in Client, r \in Redirect, v \in Verifier,
                 w \in BOOLEAN : Authorize(c, r, v, w)
      BY <3>2, <2>a DEF Authorize, history
    <3>3. CASE \E l \in Login, s \in BrokerState : Callback(l, s)
      BY <3>3, <2>a DEF Callback, history
    <3>4. CASE \E x \in exchanging : ExchangeFails(x)
      BY <3>4, <2>a DEF ExchangeFails, history
    <3>5. CASE Tick
      BY <3>5, <2>a DEF Tick, flowVars, history
    <3>6. CASE UNCHANGED vars
      BY <3>6, <2>a DEF vars, flowVars, history
    <3> QED
      BY <2>1, <2>2, <2>3, <2>4, <2>5, <2>6, <2>7, <3>1, <3>2, <3>3, <3>4,
         <3>5, <3>6 DEF Next
<1> QED BY <1>1, <1>2, IInvHolds, PTL DEF Spec, ImplementsCodeGrant,
           Promise!Spec, InHand
-----------------------------------------------------------------------------
(* The client store. *)

Stores == [Client -> ClientEntry \cup {None}]
Newer(st, c) == {d \in Present(st) : st[d].order > st[c].order}

\* The entries of a store stand in an order of their own, that of their creation,
\* n being the last place given away.
InOrder(st, n) ==
    /\ \A c \in Present(st) : st[c].order <= n /\ st[c].created_at <= now
    /\ \A c, d \in Present(st) : c # d =>
          /\ st[c].order # st[d].order
          /\ st[c].order < st[d].order => st[c].created_at <= st[d].created_at

AtMost(st, m) == IsFiniteSet(Present(st)) /\ Cardinality(Present(st)) <= m

\* An id that /register mints is new to the store.
MintedOnly == \A c \in Present(store) : c \in Uuid => c \in minted

StoreInv == InOrder(store, insertions) /\ AtMost(store, MaxClients) /\ MintedOnly

LEMMA Entries ==
    ASSUME NEW st \in Stores, NEW c \in Present(st)
    PROVE  c \in Client /\ st[c] \in ClientEntry /\ st[c].order \in Nat
           /\ st[c].created_at \in Nat
  BY DEF Stores, Present, ClientEntry

LEMMA Eldest ==
    ASSUME NEW st \in Stores, NEW n, InOrder(st, n), Present(st) # {}
    PROVE  \E x \in Present(st) :
              \A d \in Present(st) \ {x} : st[x].order < st[d].order
<1> DEFINE places == {st[c].order : c \in Present(st)}
<1>1. places \subseteq Nat /\ places # {}
  BY Entries
<1>2. PICK i \in places : \A j \in places : <<j, i>> \notin OpToRel(<, Nat)
  BY <1>1, NatLessThanWellFounded, WFMin
<1>3. PICK x \in Present(st) : i = st[x].order
  BY <1>2
<1>4. ASSUME NEW d \in Present(st) \ {x}
      PROVE  st[x].order < st[d].order
  <2>1. st[d].order \in places /\ st[d].order \in Nat /\ i \in Nat
    BY <1>1, <1>2
  <2>2. ~(st[d].order < i)
    BY <1>2, <2>1 DEF OpToRel
  <2>3. st[d].order # i
    BY <1>3, <1>4 DEF InOrder
  <2> QED BY <1>3, <2>1, <2>2, <2>3
<1> QED BY <1>4

\* A store that is not over its cap is left alone.
LEMMA CapKeeps ==
    ASSUME NEW st \in Stores, AtMost(st, MaxClients)
    PROVE  CapClients(st) = st
<1>1. ASSUME NEW c \in Present(st)
      PROVE  Cardinality(Newer(st, c)) < MaxClients
  <2>1. Newer(st, c) \subseteq Present(st) \ {c}
    BY Entries DEF Newer
  <2>2. /\ IsFiniteSet(Present(st) \ {c})
        /\ Cardinality(Present(st) \ {c}) = Cardinality(Present(st)) - 1
    BY FS_RemoveElement DEF AtMost
  <2>3. /\ Cardinality(Newer(st, c)) <= Cardinality(Present(st) \ {c})
        /\ IsFiniteSet(Newer(st, c))
    BY <2>1, <2>2, FS_Subset
  <2>4. Cardinality(Present(st)) \in Nat /\ Cardinality(Newer(st, c)) \in Nat
    BY <2>3, FS_CardinalityType DEF AtMost
  <2> QED BY <2>2, <2>3, <2>4, BoundAssumption DEF AtMost
<1>2. \A c \in Client : CapClients(st)[c] = st[c]
  BY <1>1 DEF CapClients, Newer, Present
<1> QED BY <1>2 DEF CapClients, Stores

\* A store with one entry too many loses the eldest.
LEMMA CapDropsOne ==
    ASSUME NEW st \in Stores, NEW n, InOrder(st, n), IsFiniteSet(Present(st)),
           Cardinality(Present(st)) = MaxClients + 1,
           NEW x \in Present(st),
           \A d \in Present(st) \ {x} : st[x].order < st[d].order
    PROVE  \A c \in Client : CapClients(st)[c] = IF c = x THEN None ELSE st[c]
<1>1. ASSUME NEW c \in Present(st), c # x
      PROVE  Cardinality(Newer(st, c)) < MaxClients
  <2>1. Newer(st, c) \subseteq (Present(st) \ {x}) \ {c}
    <3>1. st[x].order < st[c].order /\ st[x].order \in Nat /\ st[c].order \in Nat
      BY <1>1, Entries
    <3> QED BY <3>1 DEF Newer
  <2>2. /\ IsFiniteSet(Present(st) \ {x})
        /\ Cardinality(Present(st) \ {x}) = Cardinality(Present(st)) - 1
    BY FS_RemoveElement
  <2>3. /\ IsFiniteSet((Present(st) \ {x}) \ {c})
        /\ Cardinality((Present(st) \ {x}) \ {c}) = Cardinality(Present(st) \ {x}) - 1
    BY <1>1, <2>2, FS_RemoveElement
  <2>4. /\ Cardinality(Newer(st, c)) <= Cardinality((Present(st) \ {x}) \ {c})
        /\ IsFiniteSet(Newer(st, c))
    BY <2>1, <2>3, FS_Subset
  <2>5. Cardinality(Newer(st, c)) \in Nat
    BY <2>4, FS_CardinalityType
  <2> QED BY <2>2, <2>3, <2>4, <2>5, BoundAssumption
<1>2. Cardinality(Newer(st, x)) = MaxClients
  <2>1. Newer(st, x) = Present(st) \ {x}
    BY Entries DEF Newer
  <2>2. Cardinality(Present(st) \ {x}) = Cardinality(Present(st)) - 1
    BY FS_RemoveElement
  <2> QED BY <2>1, <2>2, BoundAssumption
<1>3. ~(Cardinality(Newer(st, x)) < MaxClients)
  BY <1>2, BoundAssumption
<1> QED BY <1>1, <1>3 DEF CapClients, Newer, Present

-----------------------------------------------------------------------------
(* A store of few entries stays one when entries are added and dropped. *)

\* What the cap may drop: in a full store, what was created no later than what stays.
EvictsOldest(new) ==
    \A c \in Present(store) : new[c] = None =>
        /\ Cardinality(Present(new)) = MaxClients
        /\ \A d \in Present(new) : store[c].created_at <= new[d].created_at

LEMMA Shrinks ==
    ASSUME NEW st \in Stores, NEW new \in Stores, NEW n, NEW m \in Nat,
           InOrder(st, n), AtMost(st, m),
           \A c \in Client : new[c] \in {st[c], None}
    PROVE  InOrder(new, n) /\ AtMost(new, m) /\ Present(new) \subseteq Present(st)
<1>1. /\ Present(new) \subseteq Present(st)
      /\ \A c \in Present(new) : new[c] = st[c]
  BY DEF Present
<1>2. InOrder(new, n)
  BY <1>1 DEF InOrder
<1>3. AtMost(new, m)
  <2>1. IsFiniteSet(Present(new)) /\ Cardinality(Present(new)) <= Cardinality(Present(st))
    BY <1>1, FS_Subset DEF AtMost
  <2>2. Cardinality(Present(new)) \in Nat /\ Cardinality(Present(st)) \in Nat
    BY <2>1, FS_CardinalityType DEF AtMost
  <2> QED BY <2>1, <2>2 DEF AtMost
<1> QED BY <1>1, <1>2, <1>3

LEMMA Adds ==
    ASSUME TypeOK, InOrder(store, insertions), AtMost(store, MaxClients),
           NEW c \in Client, NEW uris \in SUBSET Redirect, store[c] = None
    PROVE  /\ AddClient(store, c, uris) \in Stores
           /\ InOrder(AddClient(store, c, uris), insertions + 1)
           /\ AtMost(AddClient(store, c, uris), MaxClients)
           /\ AddClient(store, c, uris)[c] # None
           /\ EvictsOldest(AddClient(store, c, uris))
           /\ Present(AddClient(store, c, uris)) \subseteq Present(store) \cup {c}
<1> DEFINE e == [redirect_uris |-> uris, created_at |-> now, order |-> insertions + 1]
           st == [store EXCEPT ![c] = e]
           new == CapClients(st)
<1>0. /\ store \in Stores /\ insertions \in Nat /\ now \in Nat /\ MaxClients \in Nat
      /\ MaxClients >= 1
  BY BoundAssumption DEF TypeOK, Stores
<1>1. e \in ClientEntry /\ e # None
  BY <1>0, IdAssumption DEF ClientEntry
<1>2. AddClient(store, c, uris) = new
  BY <1>0 DEF AddClient, Stores
<1>3. /\ st \in Stores /\ st[c] = e /\ \A d \in Client : d # c => st[d] = store[d]
      /\ Present(st) = Present(store) \cup {c} /\ c \notin Present(store)
  BY <1>0, <1>1 DEF Stores, Present
<1>o. st[c].order = insertions + 1 /\ st[c].created_at = now
  BY <1>3
<1>n. new = CapClients(st)
  OBVIOUS
<1> HIDE DEF e, st, new
<1>b. \A d \in Present(store) :
        /\ d # c /\ d \in Client /\ st[d] = store[d]
        /\ st[d].order \in Nat /\ st[d].order <= insertions
        /\ st[d].created_at \in Nat /\ st[d].created_at <= now
  BY <1>0, <1>3, Entries DEF InOrder
<1>4. InOrder(st, insertions + 1)
  <2>1. ASSUME NEW d \in Present(st)
        PROVE  st[d].order <= insertions + 1 /\ st[d].created_at <= now
    <3>1. CASE d = c
      BY <1>0, <1>o, <3>1
    <3>2. CASE d # c
      <4>1. d \in Present(store)
        BY <1>3, <2>1, <3>2
      <4> QED BY <1>0, <1>b, <4>1
    <3> QED BY <3>1, <3>2
  <2>2. ASSUME NEW a \in Present(store), NEW b \in Present(store), a # b
        PROVE  /\ st[a].order # st[b].order
               /\ st[a].order < st[b].order => st[a].created_at <= st[b].created_at
    BY <1>b, <2>2 DEF InOrder
  <2>3. ASSUME NEW a \in Present(store)
        PROVE  st[a].order < st[c].order /\ st[a].created_at <= st[c].created_at
    BY <1>0, <1>b, <1>o, <2>3
  <2>4. ASSUME NEW a \in Present(st), NEW b \in Present(st), a # b
        PROVE  /\ st[a].order # st[b].order
               /\ st[a].order < st[b].order => st[a].created_at <= st[b].created_at
    <3>1. CASE a # c /\ b # c
      BY <1>3, <2>2, <2>4, <3>1
    <3>2. CASE a # c /\ b = c
      <4>1. a \in Present(store)
        BY <1>3, <3>2
      <4>2. st[a].order \in Nat /\ st[c].order \in Nat
        BY <1>0, <1>b, <1>o, <4>1
      <4> QED BY <2>3, <3>2, <4>1, <4>2
    <3>3. CASE a = c /\ b # c
      <4>1. b \in Present(store)
        BY <1>3, <3>3
      <4>2. st[b].order \in Nat /\ st[c].order \in Nat
        BY <1>0, <1>b, <1>o, <4>1
      <4> QED BY <2>3, <3>3, <4>1, <4>2
    <3> QED BY <2>4, <3>1, <3>2, <3>3
  <2> QED BY <2>1, <2>4 DEF InOrder
<1>5. /\ IsFiniteSet(Present(st)) /\ Cardinality(Present(st)) = Cardinality(Present(store)) + 1
      /\ Cardinality(Present(store)) \in 0..MaxClients
  BY <1>0, <1>3, FS_AddElement, FS_CardinalityType DEF AtMost
<1>6. CASE Cardinality(Present(store)) < MaxClients
  <2>1. AtMost(st, MaxClients)
    BY <1>0, <1>5, <1>6 DEF AtMost
  <2>2. new = st
    BY <1>3, <1>n, <2>1, CapKeeps
  <2>3. EvictsOldest(st)
    BY <1>3 DEF EvictsOldest, Present
  <2> QED BY <1>1, <1>2, <1>3, <1>4, <2>1, <2>2, <2>3
<1>7. CASE Cardinality(Present(store)) = MaxClients
  <2>1. PICK x \in Present(st) : \A d \in Present(st) \ {x} : st[x].order < st[d].order
    BY <1>3, <1>4, Eldest
  <2>2. x # c
    <3>1. PICK d : d \in Present(store)
      BY <1>0, <1>7, FS_EmptySet DEF AtMost
    <3>2. d \in Present(st) /\ d # c
      BY <1>3, <1>b, <3>1
    <3>3. st[d].order <= insertions /\ st[d].order \in Nat
      BY <1>b, <3>1
    <3> QED BY <1>0, <1>o, <2>1, <3>2, <3>3
  <2>3. \A d \in Client : new[d] = IF d = x THEN None ELSE st[d]
    BY <1>3, <1>4, <1>5, <1>7, <1>n, <2>1, CapDropsOne
  <2>4. new \in Stores
    BY <1>3, <1>n, <2>3 DEF CapClients, Stores
  <2>5. Present(new) = Present(st) \ {x}
    BY <2>3 DEF Present
  <2>6. IsFiniteSet(Present(new)) /\ Cardinality(Present(new)) = MaxClients
    <3>1. /\ IsFiniteSet(Present(st) \ {x})
          /\ Cardinality(Present(st) \ {x}) = Cardinality(Present(st)) - 1
      BY <1>5, FS_RemoveElement
    <3> QED BY <1>0, <1>5, <1>7, <2>5, <3>1
  <2>7. InOrder(new, insertions + 1)
    BY <1>4, <2>3, <2>5 DEF InOrder, Present
  <2>8. EvictsOldest(new)
    <3>1. ASSUME NEW b \in Present(store), new[b] = None
          PROVE  \A d \in Present(new) : store[b].created_at <= new[d].created_at
      <4>1. b = x /\ store[b] = st[x]
        BY <1>3, <2>2, <2>3, <3>1 DEF Present
      <4>2. \A d \in Present(st) \ {x} : st[x].created_at <= st[d].created_at
        BY <1>4, <2>1 DEF InOrder
      <4>3. \A d \in Present(new) : new[d] = st[d]
        BY <2>3, <2>5 DEF Present
      <4> QED BY <2>5, <4>1, <4>2, <4>3
    <3> QED BY <2>6, <3>1 DEF EvictsOldest
  <2>9. AtMost(new, MaxClients) /\ new[c] # None
    BY <1>0, <1>1, <1>3, <2>2, <2>3, <2>6 DEF AtMost
  <2> QED BY <1>2, <1>3, <2>4, <2>5, <2>7, <2>8, <2>9
<1> QED BY <1>0, <1>5, <1>6, <1>7

LEMMA Evicts ==
    ASSUME TypeOK, InOrder(store, insertions), AtMost(store, MaxClients)
    PROVE  /\ EvictExpiredClients(store) \in Stores
           /\ InOrder(EvictExpiredClients(store), insertions)
           /\ AtMost(EvictExpiredClients(store), MaxClients)
           /\ Present(EvictExpiredClients(store)) \subseteq Present(store)
           /\ \A c \in Present(store) : EvictExpiredClients(store)[c] = None =>
                 now - store[c].created_at > ClientTtl
<1> DEFINE st == [c \in Client |->
                    IF c \in Present(store) /\ now - store[c].created_at > ClientTtl
                    THEN None ELSE store[c]]
<1>1. store \in Stores /\ MaxClients \in Nat
  BY BoundAssumption DEF TypeOK, Stores
<1>2. /\ st \in Stores /\ \A c \in Client : st[c] \in {store[c], None}
      /\ \A c \in Present(store) : st[c] = None => now - store[c].created_at > ClientTtl
  BY <1>1 DEF Stores, Present
<1>3. EvictExpiredClients(store) = CapClients(st)
  BY DEF EvictExpiredClients
<1> HIDE DEF st
<1>4. InOrder(st, insertions) /\ AtMost(st, MaxClients) /\ Present(st) \subseteq Present(store)
  BY <1>1, <1>2, Shrinks
<1>5. CapClients(st) = st
  BY <1>2, <1>4, CapKeeps
<1> QED BY <1>2, <1>3, <1>4, <1>5

LEMMA Emptied ==
    ASSUME NEW st, st = [c \in Client |-> None], NEW n
    PROVE  InOrder(st, n) /\ AtMost(st, MaxClients) /\ Present(st) = {}
<1>1. Present(st) = {}
  BY DEF Present
<1>2. IsFiniteSet(Present(st)) /\ Cardinality(Present(st)) = 0
  BY <1>1, FS_EmptySet
<1> QED BY <1>1, <1>2, BoundAssumption DEF InOrder, AtMost

\* What a step does to the store, if it is not a restart.
Served ==
    /\ insertions' > insertions =>
          \E c \in Client : store[c] = None /\ store'[c] # None
    /\ \A c \in Present(store) : store'[c] = None =>
          \/ now - store[c].created_at > ClientTtl
          \/ /\ Cardinality(Present(store')) = MaxClients
             /\ \A d \in Present(store') : store[c].created_at <= store'[d].created_at

LEMMA StoreAlone ==
    ASSUME TypeOK, StoreInv, UNCHANGED <<store, insertions>>,
           now' \in Nat, now' >= now, minted \subseteq minted'
    PROVE  StoreInv' /\ Served
<1>1. store \in Stores /\ now \in Nat /\ insertions \in Nat
  BY DEF TypeOK, Stores
<1>2. InOrder(store, insertions)'
  BY <1>1, Entries DEF StoreInv, InOrder, Present
<1>3. AtMost(store, MaxClients)' /\ MintedOnly'
  BY DEF StoreInv, AtMost, MintedOnly, Present
<1>4. Served
  BY <1>1 DEF Served, Present
<1> QED BY <1>2, <1>3, <1>4 DEF StoreInv

LEMMA StoreAdds ==
    ASSUME TypeOK, StoreInv, NEW c \in Client, NEW uris \in SUBSET Redirect,
           store[c] = None, store' = AddClient(store, c, uris),
           insertions' = insertions + 1, now' = now,
           minted \subseteq minted', c \in Uuid => c \in minted'
    PROVE  StoreInv' /\ Served
<1>1. /\ InOrder(store', insertions') /\ AtMost(store', MaxClients) /\ store'[c] # None
      /\ EvictsOldest(store') /\ Present(store') \subseteq Present(store) \cup {c}
  BY Adds DEF StoreInv
<1>2. InOrder(store, insertions)' /\ AtMost(store, MaxClients)'
  BY <1>1 DEF InOrder, AtMost, Present
<1>3. MintedOnly'
  BY <1>1 DEF StoreInv, MintedOnly, Present
<1>4. Served
  BY <1>1 DEF Served, EvictsOldest
<1> QED BY <1>2, <1>3, <1>4 DEF StoreInv

LEMMA StoreStep ==
    ASSUME TypeOK, StoreInv, [Next]_vars
    PROVE  StoreInv' /\ (Restart \/ Served)
<1>0. now \in Nat /\ now <= now /\ insertions \in Nat /\ store \in Stores
  BY DEF TypeOK, Stores
<1>1. ASSUME NEW c \in Client, NEW uris \in SUBSET Redirect, Register(c, uris)
      PROVE  StoreInv' /\ Served
  <2>1. store[c] = None
    BY <1>1 DEF Register, StoreInv, MintedOnly, Present
  <2> QED BY <1>1, <2>1, StoreAdds DEF Register
<1>2. ASSUME NEW c \in Client, NEW r \in Redirect, NEW v \in Verifier, NEW w \in BOOLEAN,
             Authorize(c, r, v, w)
      PROVE  StoreInv' /\ Served
  <2>1. CASE store[c] = None
    <3>1. /\ store' = AddClient(store, c, {r}) /\ insertions' = insertions + 1
          /\ now' = now /\ minted' = minted /\ (c \in Uuid => c \in minted)
      BY <1>2, <2>1 DEF Authorize, AutoRegister
    <3>2. {r} \in SUBSET Redirect
      OBVIOUS
    <3> QED BY <2>1, <3>1, <3>2, StoreAdds
  <2>2. CASE store[c] # None
    <3>1. UNCHANGED <<store, insertions, now, minted>>
      BY <1>2, <2>2 DEF Authorize, AutoRegister
    <3> QED BY <1>0, <3>1, StoreAlone
  <2> QED BY <2>1, <2>2
<1>3. CASE Cleanup
  <2>1. /\ store' = EvictExpiredClients(store)
        /\ UNCHANGED <<insertions, now, minted>>
    BY <1>3 DEF Cleanup
  <2>2. /\ InOrder(store', insertions) /\ AtMost(store', MaxClients)
        /\ Present(store') \subseteq Present(store)
        /\ \A c \in Present(store) : store'[c] = None => now - store[c].created_at > ClientTtl
    BY <2>1, Evicts DEF StoreInv
  <2>3. InOrder(store, insertions)' /\ AtMost(store, MaxClients)'
    BY <2>1, <2>2 DEF InOrder, AtMost, Present
  <2>4. MintedOnly'
    BY <2>1, <2>2 DEF StoreInv, MintedOnly, Present
  <2>5. Served
    BY <1>0, <2>1, <2>2 DEF Served
  <2> QED BY <2>3, <2>4, <2>5 DEF StoreInv
<1>4. CASE Restart
  <2>1. store' = [c \in Client |-> None] /\ UNCHANGED <<insertions, now, minted>>
    BY <1>4 DEF Restart
  <2>2. InOrder(store', insertions) /\ AtMost(store', MaxClients) /\ Present(store') = {}
    BY <2>1, Emptied
  <2>3. InOrder(store, insertions)' /\ AtMost(store, MaxClients)'
    BY <2>1, <2>2 DEF InOrder, AtMost, Present
  <2>4. MintedOnly'
    BY <2>2 DEF MintedOnly, Present
  <2> QED BY <1>4, <2>3, <2>4 DEF StoreInv
<1>5. ASSUME UNCHANGED <<store, insertions, minted>>, now' = now \/ now' = now + 1
      PROVE  StoreInv' /\ Served
  <2>1. now' \in Nat /\ now' >= now
    BY <1>0, <1>5
  <2> QED BY <1>5, <2>1, StoreAlone
<1>6. ASSUME NEW a \in authorizing, NEW s \in BrokerState, CreatePending(a, s)
      PROVE  StoreInv' /\ Served
  BY <1>5, <1>6 DEF CreatePending, storeVars
<1>7. ASSUME NEW l \in Login, CreatioLogin(l)
      PROVE  StoreInv' /\ Served
  BY <1>5, <1>7 DEF CreatioLogin, storeVars
<1>8. ASSUME NEW l \in Login, NEW s \in BrokerState, Callback(l, s)
      PROVE  StoreInv' /\ Served
  BY <1>5, <1>8 DEF Callback, storeVars
<1>9. ASSUME NEW x \in exchanging, NEW k \in Code, ExchangeOk(x, k)
      PROVE  StoreInv' /\ Served
  BY <1>5, <1>9 DEF ExchangeOk, storeVars
<1>10. ASSUME NEW x \in exchanging, ExchangeFails(x)
       PROVE  StoreInv' /\ Served
  BY <1>5, <1>10 DEF ExchangeFails, storeVars
<1>11. ASSUME NEW k \in Code, NEW c \in Client, NEW r \in Redirect, NEW v \in Verifier,
              Redeem(k, c, r, v)
       PROVE  StoreInv' /\ Served
  BY <1>5, <1>11 DEF Redeem, storeVars
<1>12. ASSUME NEW k \in Code, RedeemExpired(k)
       PROVE  StoreInv' /\ Served
  BY <1>5, <1>12 DEF RedeemExpired, storeVars
<1>13. CASE Tick
  BY <1>5, <1>13 DEF Tick, storeVars
<1>14. CASE UNCHANGED vars
  BY <1>5, <1>14 DEF vars, storeVars
<1> QED
  BY <1>1, <1>2, <1>3, <1>4, <1>6, <1>7, <1>8, <1>9, <1>10, <1>11, <1>12,
     <1>13, <1>14 DEF Next

\* The hard cap of the client store (OAuthStorage._capClients) holds, a client that
\* is dropped before its time is the one created first, and it makes room in a full
\* store for one that comes, whatever is registered, used or expires.
THEOREM StoreEvictsOldest == Spec => OldestEvicted
<1>1. Init => StoreInv
  <2> SUFFICES ASSUME Init
               PROVE  StoreInv
    OBVIOUS
  <2>1. store = [c \in Client |-> None]
    BY DEF Init
  <2>2. InOrder(store, insertions) /\ AtMost(store, MaxClients) /\ Present(store) = {}
    BY <2>1, Emptied
  <2> QED BY <2>2 DEF StoreInv, MintedOnly
<1>2. TypeOK /\ StoreInv /\ [Next]_vars => StoreInv'
  BY StoreStep
<1>3. StoreInv => Cardinality(Present(store)) <= MaxClients
  BY DEF StoreInv, AtMost
<1>4. TypeOK /\ StoreInv /\ [Next]_vars =>
        [insertions' > insertions =>
            \E c \in Client : store[c] = None /\ store'[c] # None]_vars
  <2> SUFFICES ASSUME TypeOK, StoreInv, [Next]_vars, insertions' > insertions
               PROVE  \E c \in Client : store[c] = None /\ store'[c] # None
    OBVIOUS
  <2>1. ~Restart
    BY DEF Restart, TypeOK
  <2> QED BY <2>1, StoreStep DEF Served
<1>5. TypeOK /\ StoreInv /\ [Next]_vars =>
        [\A c \in Present(store) : store'[c] = None =>
             \/ now - store[c].created_at > ClientTtl
             \/ /\ Cardinality({d \in Client : store'[d] # None}) = MaxClients
                /\ \A d \in Client : store'[d] # None =>
                      store[c].created_at <= store'[d].created_at
             \/ Restart]_vars
  BY StoreStep DEF Served, Present
<1> QED BY <1>1, <1>2, <1>3, <1>4, <1>5, TypeCorrect, PTL DEF Spec, OldestEvicted

=============================================================================
