---------------------------- MODULE PartsProofs ----------------------------
(***************************************************************************)
(* Proofs about AccessEdge, for all lifetimes, margins and windows, and    *)
(* every duration of a mark that is at least the longest life of a JWT;    *)
(* and about the parts beside it, for all values of their constants, from  *)
(* the inductive invariants of their modules.                              *)
(***************************************************************************)
EXTENDS Parts, TLAPS

-----------------------------------------------------------------------------
(* Access tokens at the edge. *)

Received(p) == phase[p] \in {"held", "gone"}

\* What minting and the broker's record of a pair guarantee.
Recorded ==
    /\ \A j \in jwts :
          /\ Received(j.cat)
          /\ j.exp <= now + MaxTtl
          /\ j.iat < expiry[j.cat] => j.exp <= expiry[j.cat]
    /\ \A p \in prompt :
          /\ Received(p)
          /\ life[p] > Margin => expiry[p] <= dies[p]

\* A JWT that is to be kept out has expired, or a mark outlasts it.
Held ==
    \A p \in Pair : \A j \in barred[p] :
        /\ j.cat = p
        /\ now < j.exp => rejected[p] # None /\ j.exp <= rejected[p]

IInv == TypeOK /\ Recorded /\ Held

LEMMA MintedType ==
    ASSUME TypeOK, NEW p \in Pair, NEW e \in Nat
    PROVE  /\ Minted(p, e) \in Jwt
           /\ Minted(p, e).cat = p
           /\ Minted(p, e).exp <= now + MaxTtl
           /\ Minted(p, e).iat < e => Minted(p, e).exp <= e
  BY DurationAssumption
     DEF TypeOK, Minted, Jwt, ExpiresIn, AtLeastOne, AtMost

LEMMA TypeStep == TypeOK /\ [Next]_vars => TypeOK'
<1> SUFFICES ASSUME TypeOK, [Next]_vars
             PROVE  TypeOK'
  OBVIOUS
<1> USE DurationAssumption DEF TypeOK, pairVars, edgeVars
<1>1. ASSUME NEW p \in Pair, NEW k \in {"login", "refresh"}, Ask(p, k)
      PROVE  TypeOK'
  BY <1>1 DEF Ask
<1>2. ASSUME NEW p \in Pair, NEW n \in Lifetimes, CreatioIssues(p, n)
      PROVE  TypeOK'
  BY <1>2 DEF CreatioIssues
<1>3. ASSUME NEW p \in Pair, Receive(p)
      PROVE  TypeOK'
  <2>1. RecordedExpiry(life[p]) \in Nat
    BY DEF RecordedExpiry, AtLeastOne
  <2>2. expiry'[p] \in Nat
    BY <1>3, <2>1 DEF Receive
  <2>3. Minted(p, expiry'[p]) \in Jwt
    BY <2>2, MintedType
  <2> QED BY <1>3, <2>1, <2>3 DEF Receive
<1>4. ASSUME NEW p \in Pair, RedeemCode(p)
      PROVE  TypeOK'
  <2>1. Minted(p, expiry[p]) \in Jwt
    BY MintedType
  <2> QED BY <1>4, <2>1 DEF RedeemCode
<1>5. ASSUME NEW p \in Pair, ReplayRefresh(p)
      PROVE  TypeOK'
  <2>1. Minted(p, expiry[p]) \in Jwt
    BY MintedType
  <2> QED BY <1>5, <2>1 DEF ReplayRefresh
<1>6. ASSUME NEW j \in jwts, Admit(j) \/ RevokeAccess(j)
      PROVE  TypeOK'
  BY <1>6 DEF Admit, RevokeAccess, Mark, Jwt
<1>7. ASSUME NEW p \in Pair, Bounce(p) \/ Serve(p)
      PROVE  TypeOK'
  BY <1>7 DEF Bounce, Serve, Mark
<1>8. CASE Cleanup
  BY <1>8 DEF Cleanup
<1>9. CASE Restart
  BY <1>9 DEF Restart
<1>10. CASE Tick
  BY <1>10 DEF Tick
<1>11. CASE UNCHANGED vars
  BY <1>11 DEF vars
<1> QED
  BY <1>1, <1>2, <1>3, <1>4, <1>5, <1>6, <1>7, <1>8, <1>9, <1>10, <1>11
     DEF Next

LEMMA RecordedStep == IInv /\ [Next]_vars => Recorded'
<1> SUFFICES ASSUME TypeOK, Recorded, [Next]_vars
             PROVE  Recorded'
  BY DEF IInv
<1> USE DurationAssumption DEF pairVars, edgeVars
<1>t. /\ now \in Nat /\ phase \in [Pair -> {"unused", "asked", "issued",
                                            "held", "gone"}]
      /\ expiry \in [Pair -> Nat] /\ dies \in [Pair -> Nat]
      /\ life \in [Pair -> Nat]
      /\ \A j \in jwts : j.cat \in Pair /\ j.iat \in Nat /\ j.exp \in Nat
      /\ prompt \subseteq Pair
  BY DEF TypeOK, Jwt
\* Nothing is minted; the records of the received pairs stay as they are.
<1>u. ASSUME jwts' = jwts, prompt' = prompt, now' \in Nat, now' >= now,
             \A q \in Pair : Received(q) =>
                /\ Received(q)' /\ expiry'[q] = expiry[q]
                /\ life'[q] = life[q] /\ dies'[q] = dies[q]
      PROVE  Recorded'
  BY <1>u, <1>t DEF Recorded
<1>v. ASSUME NEW p \in Pair, Received(p), jwts' = jwts \cup {Minted(p, expiry[p])},
             UNCHANGED <<now, expiry, life, dies, prompt>>,
             \A q \in Pair : Received(q) => Received(q)'
      PROVE  Recorded'
  <2>1. /\ Minted(p, expiry[p]).cat = p
        /\ Minted(p, expiry[p]).exp <= now + MaxTtl
        /\ Minted(p, expiry[p]).iat < expiry[p]
              => Minted(p, expiry[p]).exp <= expiry[p]
    BY <1>t, MintedType
  <2> QED BY <1>v, <1>t, <2>1 DEF Recorded
<1>1. ASSUME NEW p \in Pair, NEW k \in {"login", "refresh"}, Ask(p, k)
      PROVE  Recorded'
  BY <1>1, <1>t, <1>u DEF Ask, Received
<1>2. ASSUME NEW p \in Pair, NEW n \in Lifetimes, CreatioIssues(p, n)
      PROVE  Recorded'
  BY <1>2, <1>t, <1>u DEF CreatioIssues, Received
<1>3. ASSUME NEW p \in Pair, Receive(p)
      PROVE  Recorded'
  <2>1. /\ ~Received(p) /\ Received(p)'
        /\ expiry'[p] = RecordedExpiry(life[p])
        /\ UNCHANGED <<now, life, dies>>
        /\ \A q \in Pair : q # p => phase'[q] = phase[q] /\ expiry'[q] = expiry[q]
        /\ prompt' = IF now <= dies[p] - life[p] + Margin THEN prompt \cup {p}
                                                          ELSE prompt
        /\ jwts' \subseteq jwts \cup {Minted(p, expiry'[p])}
    BY <1>3, <1>t DEF Receive, Received
  <2>2. expiry'[p] \in Nat
    BY <2>1, <1>t DEF RecordedExpiry, AtLeastOne
  <2>3. p \in prompt' /\ life[p] > Margin => expiry'[p] <= dies[p]
    <3>1. p \notin prompt
      BY <2>1 DEF Recorded
    <3> QED BY <2>1, <3>1, <1>t DEF RecordedExpiry, AtLeastOne
  <2>4. /\ Minted(p, expiry'[p]).cat = p
        /\ Minted(p, expiry'[p]).exp <= now + MaxTtl
        /\ Minted(p, expiry'[p]).iat < expiry'[p]
              => Minted(p, expiry'[p]).exp <= expiry'[p]
    BY <2>2, MintedType
  <2>5. ASSUME NEW j \in jwts'
        PROVE  /\ Received(j.cat)'
               /\ j.exp <= now' + MaxTtl
               /\ j.iat < expiry'[j.cat] => j.exp <= expiry'[j.cat]
    <3>1. CASE j \in jwts
      <4>1. Received(j.cat) /\ j.cat \in Pair /\ j.cat # p
        BY <3>1, <2>1, <1>t DEF Recorded
      <4>2. phase'[j.cat] = phase[j.cat] /\ expiry'[j.cat] = expiry[j.cat]
        BY <4>1, <2>1
      <4> QED BY <3>1, <4>1, <4>2, <2>1 DEF Recorded, Received
    <3>2. CASE j = Minted(p, expiry'[p])
      BY <3>2, <2>1, <2>4
    <3> QED BY <3>1, <3>2, <2>1, <2>5
  <2>6. ASSUME NEW q \in prompt'
        PROVE  Received(q)' /\ (life'[q] > Margin => expiry'[q] <= dies'[q])
    <3>1. CASE q = p
      BY <3>1, <2>1, <2>3, <2>6
    <3>2. CASE q # p
      <4>1. q \in prompt /\ q \in Pair
        BY <3>2, <2>1, <2>6, <1>t
      <4> QED BY <3>2, <4>1, <2>1 DEF Recorded, Received
    <3> QED BY <3>1, <3>2
  <2> QED BY <2>5, <2>6 DEF Recorded
<1>4. ASSUME NEW p \in Pair, RedeemCode(p)
      PROVE  Recorded'
  BY <1>4, <1>t, <1>v DEF RedeemCode, Received
<1>5. ASSUME NEW p \in Pair, ReplayRefresh(p)
      PROVE  Recorded'
  BY <1>5, <1>t, <1>v DEF ReplayRefresh, Received
<1>6. ASSUME NEW j \in jwts, Admit(j) \/ RevokeAccess(j)
      PROVE  Recorded'
  BY <1>6, <1>t, <1>u DEF Admit, RevokeAccess, Received
<1>7. ASSUME NEW p \in Pair, Bounce(p) \/ Serve(p)
      PROVE  Recorded'
  BY <1>7, <1>t, <1>u DEF Bounce, Serve, Received
<1>8. CASE Cleanup
  BY <1>8, <1>t, <1>u DEF Cleanup, Received
<1>9. CASE Restart
  BY <1>9, <1>t, <1>u DEF Restart, Received
<1>10. CASE Tick
  BY <1>10, <1>t, <1>u DEF Tick, Received
<1>11. CASE UNCHANGED vars
  BY <1>11, <1>t, <1>u DEF vars, Received
<1> QED
  BY <1>1, <1>2, <1>3, <1>4, <1>5, <1>6, <1>7, <1>8, <1>9, <1>10, <1>11
     DEF Next

LEMMA HeldStep == IInv /\ [Next]_vars => Held'
<1> SUFFICES ASSUME TypeOK, Recorded, Held, [Next]_vars
             PROVE  Held'
  BY DEF IInv
<1> USE DurationAssumption, NoneAssumption DEF edgeVars
<1>t. /\ now \in Nat /\ rejected \in [Pair -> Nat \cup {None}]
      /\ barred \in [Pair -> SUBSET Jwt]
      /\ \A j \in jwts : j.cat \in Pair /\ j.exp \in Nat
      /\ \A j \in Jwt : j.exp \in Nat
  BY DEF TypeOK, Jwt
<1>u. ASSUME UNCHANGED <<rejected, barred>>, now' \in Nat, now' >= now
      PROVE  Held'
  BY <1>u, <1>t DEF Held
<1>m. ASSUME NEW p \in Pair, NEW e \in Nat, NEW js \in SUBSET jwts,
             Mark(p, e, js), now' = now,
             \A j \in js : j.cat = p /\ j.exp <= e
      PROVE  Held'
  <2>1. /\ rejected'[p] = e /\ barred'[p] = js
        /\ \A q \in Pair : q # p =>
              rejected'[q] = rejected[q] /\ barred'[q] = barred[q]
    BY <1>m, <1>t DEF Mark
  <2>2. ASSUME NEW q \in Pair, NEW j \in barred'[q]
        PROVE  /\ j.cat = q
               /\ now' < j.exp => rejected'[q] # None /\ j.exp <= rejected'[q]
    <3>1. CASE q = p
      BY <3>1, <1>m, <2>1, <2>2
    <3>2. CASE q # p
      BY <3>2, <1>m, <2>1, <2>2 DEF Held
    <3> QED BY <3>1, <3>2
  <2> QED BY <2>2 DEF Held
<1>1. ASSUME NEW p \in Pair, Bounce(p)
      PROVE  Held'
  <2>1. \A j \in jwts : j.exp <= now + RejectFor
    BY <1>t DEF Recorded
  <2>2. /\ Mark(p, now + RejectFor, {j \in jwts : j.cat = p})
        /\ now' = now
    BY <1>1 DEF Bounce
  <2>3. now + RejectFor \in Nat
    BY <1>t
  <2> QED BY <2>1, <2>2, <2>3, <1>m
<1>2. ASSUME NEW j \in jwts, RevokeAccess(j)
      PROVE  Held'
  <2>1. Mark(j.cat, j.exp, {j}) /\ now' = now
    BY <1>2 DEF RevokeAccess
  <2> QED BY <2>1, <1>m, <1>t
<1>3. CASE Cleanup
  <2>1. ASSUME NEW p \in Pair, NEW j \in barred'[p]
        PROVE  /\ j.cat = p
               /\ now' < j.exp => rejected'[p] # None /\ j.exp <= rejected'[p]
    <3>1. /\ now' = now /\ j \in barred[p] /\ j.exp \in Nat
          /\ rejected'[p] = IF rejected[p] # None /\ now > rejected[p]
                            THEN None ELSE rejected[p]
      BY <1>3, <2>1, <1>t DEF Cleanup
    <3> QED BY <3>1, <1>t DEF Held
  <2> QED BY <2>1 DEF Held
<1>4. CASE Restart
  BY <1>4 DEF Restart, Held
<1>5. CASE Tick
  BY <1>5, <1>t, <1>u DEF Tick
<1>6. CASE now' = now /\ UNCHANGED <<rejected, barred>>
  BY <1>6, <1>t, <1>u
<1> QED
  BY <1>1, <1>2, <1>3, <1>4, <1>5, <1>6
     DEF Next, vars, Ask, CreatioIssues, Receive, RedeemCode, ReplayRefresh,
         Admit, Serve

-----------------------------------------------------------------------------
(* The theorems. *)

LEMMA InitialInvariant == Init => IInv
  BY DEF Init, IInv, TypeOK, Recorded, Held

LEMMA InvariantStep == IInv /\ [Next]_vars => IInv'
  BY TypeStep, RecordedStep, HeldStep DEF IInv

LEMMA InductiveInvariant == Spec => []IInv
<1>1. Init => IInv
  BY InitialInvariant
<1>2. IInv /\ [Next]_vars => IInv'
  BY InvariantStep
<1> QED BY <1>1, <1>2, PTL DEF Spec

\* The variables of AccessEdge have the types its header declares.
THEOREM TypeCorrect == Spec => []TypeOK
<1>1. IInv => TypeOK
  BY DEF IInv
<1> QED BY <1>1, InductiveInvariant, PTL

\* A JWT that a mark is to keep out is never accepted again, although marks
\* are dropped by a timer, as long as no later mark replaces it.
THEOREM MarksHold == Spec => []RejectionFinal
<1>1. IInv => RejectionFinal
  BY DEF IInv, Held, RejectionFinal, Accepted
<1> QED BY <1>1, InductiveInvariant, PTL

\* Under the stated conditions a JWT does not outlive its Creatio token.
THEOREM JwtsCapped == Spec => []CappedByCredential
<1>1. IInv => CappedByCredential
  <2> SUFFICES ASSUME IInv, NEW j \in jwts, j.cat \in prompt,
                      life[j.cat] > Margin, j.iat < expiry[j.cat]
               PROVE  j.exp <= dies[j.cat]
    BY DEF CappedByCredential
  <2>1. j.exp <= expiry[j.cat] /\ expiry[j.cat] <= dies[j.cat]
    BY DEF IInv, Recorded
  <2>2. /\ j.cat \in Pair /\ j.exp \in Nat
        /\ expiry[j.cat] \in Nat /\ dies[j.cat] \in Nat
    BY DEF IInv, TypeOK, Jwt
  <2> QED BY <2>1, <2>2
<1> QED BY <1>1, InductiveInvariant, PTL

-----------------------------------------------------------------------------
(* The parts side by side. *)

\* Whichever part runs, its own invariant holds.
PartsInv ==
  /\ part = "edge" => IInv
  /\ part = "limiter" => R!IInv
  /\ part = "credentials" => H!IInv
  /\ part = "tools" => T!IInv
  /\ part = "sessions" => S!IInv

LEMMA InitialParts ==
  ASSUME PartsInit
  PROVE  PartsInv
<1>1. Init /\ R!Init /\ H!Init /\ T!Init /\ S!Init
  BY DEF PartsInit
<1>2. IInv
  BY <1>1, InitialInvariant
<1>3. R!IInv
  BY <1>1, PartsAssumption, R!InitialInvariant
<1>4. H!IInv
  BY <1>1, PartsAssumption, H!InitialInvariant
<1>5. T!IInv
  BY <1>1, PartsAssumption, T!InitialInvariant
<1>6. S!IInv
  BY <1>1, PartsAssumption, S!InitialInvariant
<1> QED BY <1>2, <1>3, <1>4, <1>5, <1>6 DEF PartsInv

\* A step of the composition is a step of the part that runs, or a stutter of it.
LEMMA OneRuns ==
  ASSUME [PartsNext]_partsVars
  PROVE  /\ part' = part
         /\ part = "edge" => [Next]_vars
         /\ part = "limiter" => [R!Next]_(R!vars)
         /\ part = "credentials" => [H!Next]_(H!vars)
         /\ part = "tools" => [T!Next]_(T!vars)
         /\ part = "sessions" => [S!Next]_(S!vars)
<1>1. CASE PartsNext
  BY <1>1 DEF PartsNext, EdgeStep, LimiterStep, CredentialsStep, ToolsStep, SessionsStep
<1>2. CASE UNCHANGED partsVars
  <2>1. /\ part' = part
        /\ UNCHANGED <<now, marksAndPairs, limiterVars, credentialVars, toolVars, sessionVars>>
    BY <1>2 DEF partsVars
  <2>2. UNCHANGED vars
    BY <2>1 DEF vars, marksAndPairs, pairVars, edgeVars
  <2>3. UNCHANGED R!vars
    BY <2>1 DEF R!vars, limiterVars
  <2>4. UNCHANGED H!vars
    BY <2>1 DEF H!vars, H!ownVars, credentialVars
  <2>5. UNCHANGED T!vars
    BY <2>1 DEF T!vars, toolVars
  <2>6. UNCHANGED S!vars
    BY <2>1 DEF S!vars, S!sessionVars, sessionVars
  <2> QED BY <2>1, <2>2, <2>3, <2>4, <2>5, <2>6
<1> QED BY <1>1, <1>2

LEMMA PartsStep ==
  ASSUME PartsInv, [PartsNext]_partsVars
  PROVE  PartsInv'
<1>1. part = "edge" => IInv'
  BY OneRuns, InvariantStep DEF PartsInv
<1>2. part = "limiter" => R!IInv'
  BY OneRuns, PartsAssumption, R!InvariantStep DEF PartsInv
<1>3. part = "credentials" => H!IInv'
  BY OneRuns, PartsAssumption, H!InvariantStep DEF PartsInv
<1>4. part = "tools" => T!IInv'
  BY OneRuns, PartsAssumption, T!InvariantStep DEF PartsInv
<1>5. part = "sessions" => S!IInv'
  BY OneRuns, PartsAssumption, S!InvariantStep DEF PartsInv
<1> QED BY <1>1, <1>2, <1>3, <1>4, <1>5, OneRuns DEF PartsInv

LEMMA PartsInvariant == PartsSpec => []PartsInv
<1>1. PartsInit => PartsInv
  BY InitialParts
<1>2. PartsInv /\ [PartsNext]_partsVars => PartsInv'
  BY PartsStep
<1> QED BY <1>1, <1>2, PTL DEF PartsSpec

\* Every variable of the part that runs keeps its type.
THEOREM PartsTyped == PartsSpec => []PartsTypeOK
<1>1. PartsInv => PartsTypeOK
  BY PartsAssumption, H!InvariantGives, T!InvariantGives
     DEF PartsInv, PartsTypeOK, IInv, R!IInv, S!IInv
<1> QED BY <1>1, PartsInvariant, PTL

\* FixedWindowRateLimiter.check, for every window, maximum and set of addresses: no
\* span as long as a window lets more than twice the maximum through, and nobody is
\* refused who has not had the maximum.
THEOREM PartsLimit == PartsSpec => []LimitKept
<1>1. PartsInv => LimitKept
  BY PartsAssumption, R!AccountsKeepLimit DEF PartsInv, LimitKept
<1> QED BY <1>1, PartsInvariant, PTL

\* LegacyProvider, OAuth2Provider, for any number of requests: at most one login is
\* in flight, and no request waits for a login that is not.
THEOREM PartsLogin == PartsSpec => []OneLogin
<1>1. PartsInv => OneLogin
  BY PartsAssumption, H!InvariantGives DEF PartsInv, OneLogin
<1> QED BY <1>1, PartsInvariant, PTL

\* fetchWithAuth, for any number of requests: a second try carries a session newer
\* than the one refused.
THEOREM PartsRetry == PartsSpec => []RetryRenewed
<1>1. PartsInv => RetryRenewed
  BY PartsAssumption, H!InvariantGives DEF PartsInv, RetryRenewed
<1> QED BY <1>1, PartsInvariant, PTL

\* LegacyProvider.refresh, for any number of requests: a burst of refusals costs at
\* most one login each.
THEOREM PartsBurst == PartsSpec => []LoginsBounded
<1>1. PartsInv => LoginsBounded
  BY PartsAssumption, H!InvariantGives DEF PartsInv, LoginsBounded
<1> QED BY <1>1, PartsInvariant, PTL

\* BaseEngine, EntityAccessPolicy, for any set of objects: read-only mode and the
\* allowlist hold for every request sent.
THEOREM PartsAccess == PartsSpec => []AccessKept
<1>1. PartsInv => AccessKept
  BY PartsAssumption, T!InvariantGives DEF PartsInv, AccessKept
<1> QED BY <1>1, PartsInvariant, PTL

\* BaseEngine._mutate, for any set of objects: the trail has the attempt of every
\* write, and the failure of every mutation that throws, but never of a published tool
\* that Creatio answered with an error of its own.
THEOREM PartsTrail == PartsSpec => []TrailTells
<1>1. PartsInv => TrailTells
  BY PartsAssumption, T!InvariantGives DEF PartsInv, TrailTells
<1> QED BY <1>1, PartsInvariant, PTL

\* The providers, for any set of objects: a result that does not tell of a refusal is
\* that of requests Creatio performed, but for those the call does without.
THEOREM PartsConfirmed == PartsSpec => []Confirmed
<1>1. PartsInv => Confirmed
  BY PartsAssumption, T!InvariantGives DEF PartsInv, Confirmed
<1> QED BY <1>1, PartsInvariant, PTL

\* A part that only computes keeps its input, which is one of those it is for.
InputKept == part \in Part /\ input \in InputsOf(part)

LEMMA InputInvariant == PartsSpec => []InputKept
<1>1. PartsInit => InputKept
  BY DEF PartsInit, InputKept
<1>2. InputKept /\ [PartsNext]_partsVars => InputKept'
  BY DEF InputKept, PartsNext, partsVars
<1> QED BY <1>1, <1>2, PTL DEF PartsSpec

LEMMA InputOf ==
  ASSUME InputKept, part \notin WithState
  PROVE  part \in DOMAIN Inputs /\ input \in Inputs[part]
BY DEF InputKept, Part, InputsOf

\* The translators of filters, orders and writes, for all sets of values and any number
\* of conditions, terms and columns: over either backend every filter navigates its
\* lookups; one whose conditions fit - a column is compared with values that look like
\* its own, and a date is in UTC - selects what was asked for; and an update, a delete, an
\* order and a write mean what the arguments of their tool say.
THEOREM PartsDialects == PartsSpec => []DialectsAgree
<1>1. InputKept => DialectsAgree
  <2> SUFFICES ASSUME InputKept, part = "queries"
               PROVE  T!QueryMeans(input)
    BY DEF DialectsAgree
  <2>1. "queries" \in DOMAIN Inputs /\ input \in Inputs["queries"]
    BY InputOf DEF WithState
  <2>2. input \in T!Query
    BY <2>1, PartsAssumption
  <2> QED BY <2>2, PartsAssumption, T!QueriesMean
<1> QED BY <1>1, InputInvariant, PTL

\* extractRtf, for well-written documents of any length and depth: what is put out is the
\* text of the document, all of it, once and in order.  Well written is a document whose
\* groups close, and each of whose \uN stands in text that is shown, right before its
\* fallback characters: of a \uN in a skipped destination, for which the code takes
\* characters from the text behind it, nothing is said.
THEOREM PartsRtf == PartsSpec => []RtfTextKept
<1>1. InputKept => RtfTextKept
  <2> SUFFICES ASSUME InputKept, part = "rtf"
               PROVE  T!RtfMeans(input)
    BY DEF RtfTextKept
  <2>1. "rtf" \in DOMAIN Inputs /\ input \in Inputs["rtf"]
    BY InputOf DEF WithState
  <2>2. input \in Seq(T!Token)
    BY <2>1, PartsAssumption
  <2> QED BY <2>2, PartsAssumption, T!RtfKept
<1> QED BY <1>1, InputInvariant, PTL

\* read-file, for archives of any breadth, whose archives are opened three deep, and for
\* bodies of any number of chunks: the text of a file is what is read of its documents,
\* each reading once and in order, and a body is whole and within its limits.  A PDF with
\* a short layer has two readings, its layer and its pages, or one if its pages are not
\* wanted, or none if they are and cannot be recognised; an archive has none if one of its
\* entries, or its `mimetype`, cannot be inflated.
THEOREM PartsContent == PartsSpec => []ContentAccounted
<1>1. InputKept => ContentAccounted
  <2> SUFFICES ASSUME InputKept, part = "files"
               PROVE  T!ContentMeans(input)
    BY DEF ContentAccounted
  <2>1. "files" \in DOMAIN Inputs /\ input \in Inputs["files"]
    BY InputOf DEF WithState
  <2>2. input \in T!Content
    BY <2>1, PartsAssumption
  <2> QED BY <2>2, PartsAssumption, T!ContentsMean
<1> QED BY <1>1, InputInvariant, PTL
=============================================================================
