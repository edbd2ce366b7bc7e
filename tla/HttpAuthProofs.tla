--------------------------- MODULE HttpAuthProofs ---------------------------
(***************************************************************************)
(* Proofs about HttpAuth, for every number of requests under each provider.*)
(***************************************************************************)
EXTENDS HttpAuth, TLAPS, FiniteSetTheorems

\* With "bearer" and "broker" nobody logs in, and a request carries what it came
\* with from the start to the end.
CarriesOwn ==
  ~Own => /\ ~inflight
          /\ \A r \in Request : request[r].at # "idle" => request[r].cred = Carried[r]

NotYetTried == \A r \in Request : request[r].at = "idle" => ~request[r].tried

Tried == {r \in Request : request[r].tried}

\* With "legacy" a login is made only while no session is held, and whoever left
\* the server without one, the first excepted, had been refused.
SessionsOwed ==
  mode = "legacy" =>
    /\ inflight => held = 0
    /\ issued + (IF held = 0 THEN 1 ELSE 0) <= 1 + Cardinality(Tried)

IInv == TypeOK /\ OneLogin /\ CarriesOwn /\ NotYetTried /\ RetryRenewed /\ SessionsOwed

-----------------------------------------------------------------------------
(* Types. *)

\* The records of requests when n sessions have been issued.
Places == {"idle", "sent"} \cup Waiting \cup Final
Entry(n) == [at : Places, cred : 0..n \cup Token, tried : BOOLEAN, refused : 0..n \cup Token]

\* The updates of a request keep it one, and change what they say.
LEMMA Sends ==
  ASSUME NEW n \in Nat, NEW q \in Entry(n), NEW c \in 0..n \cup Token
  PROVE  /\ Sending(q, c) \in Entry(n)
         /\ Sending(q, c).at = "sent" /\ Sending(q, c).cred = c
         /\ Sending(q, c).tried = q.tried /\ Sending(q, c).refused = q.refused
<1>1. "sent" \in Places
  BY DEF Places
<1> QED BY <1>1 DEF Entry, Sending

LEMMA Awaits ==
  ASSUME NEW n \in Nat, NEW q \in Entry(n), NEW w \in Waiting
  PROVE  /\ Await(q, w) \in Entry(n)
         /\ Await(q, w).at = w /\ Await(q, w).cred = 0
         /\ Await(q, w).tried = q.tried /\ Await(q, w).refused = q.refused
<1>1. w \in Places /\ 0 \in 0..n
  BY DEF Places
<1> QED BY <1>1 DEF Entry, Await

LEMMA Moves ==
  ASSUME NEW n \in Nat, NEW q \in Entry(n), NEW a \in Places
  PROVE  /\ [q EXCEPT !.at = a] \in Entry(n)
         /\ [q EXCEPT !.at = a].at = a /\ [q EXCEPT !.at = a].cred = q.cred
         /\ [q EXCEPT !.at = a].tried = q.tried /\ [q EXCEPT !.at = a].refused = q.refused
  BY DEF Entry

\* What becomes of a request at its first bounce.
Retrying(q) == [q EXCEPT !.tried = TRUE, !.refused = q.cred]
Renewing(q) == [Await(q, "refresh") EXCEPT !.tried = TRUE, !.refused = q.cred]
LEMMA Bounces ==
  ASSUME NEW n \in Nat, NEW q \in Entry(n)
  PROVE  /\ Retrying(q) \in Entry(n)
         /\ Retrying(q).at = q.at /\ Retrying(q).cred = q.cred
         /\ Retrying(q).tried /\ Retrying(q).refused = q.cred
         /\ Renewing(q) \in Entry(n)
         /\ Renewing(q).at = "refresh" /\ Renewing(q).cred = 0
         /\ Renewing(q).tried /\ Renewing(q).refused = q.cred
<1>1. /\ Retrying(q) \in Entry(n)
      /\ Retrying(q).at = q.at /\ Retrying(q).cred = q.cred
      /\ Retrying(q).tried /\ Retrying(q).refused = q.cred
  BY DEF Retrying, Entry
<1>2. /\ Await(q, "refresh") \in Entry(n) /\ Await(q, "refresh").at = "refresh"
      /\ Await(q, "refresh").cred = 0 /\ q.cred \in 0..n \cup Token
  BY Awaits DEF Waiting, Entry
<1>3. /\ Renewing(q) \in Entry(n)
      /\ Renewing(q).at = "refresh" /\ Renewing(q).cred = 0
      /\ Renewing(q).tried /\ Renewing(q).refused = q.cred
  BY <1>2 DEF Renewing, Entry
<1> QED BY <1>1, <1>3

\* More sessions, more credentials.
LEMMA Later ==
  ASSUME NEW n \in Nat, NEW q \in Entry(n)
  PROVE  q \in Entry(n + 1)
<1>1. 0..n \subseteq 0..(n + 1)
  OBVIOUS
<1> QED BY <1>1 DEF Entry

LEMMA TypeStep ==
  ASSUME CarriedAssumption, IInv, [Next]_vars
  PROVE  TypeOK'
<1>t. /\ mode \in {"legacy", "oauth2", "bearer", "broker"}
      /\ held \in 0..issued /\ fresh \in BOOLEAN /\ inflight \in BOOLEAN
      /\ logins \in Nat /\ issued \in Nat /\ expired \subseteq 1..issued
      /\ invalid \subseteq Token
      /\ request \in [Request -> Entry(issued)]
      /\ \A r \in Request : request[r].at \in Waiting => request[r].cred = 0
  BY DEF IInv, TypeOK, Entry, Places, Credential
<1>c. \A r \in Request : Carried[r] \in Token
  BY DEF CarriedAssumption
<1>g. ASSUME mode' = mode, issued' = issued, held' \in 0..issued, fresh' \in BOOLEAN,
             inflight' \in BOOLEAN, logins' \in Nat, expired' \subseteq 1..issued,
             invalid' \subseteq Token, request' \in [Request -> Entry(issued)],
             \A r \in Request : request'[r].at \in Waiting => request'[r].cred = 0
      PROVE  TypeOK'
  BY <1>g, <1>t DEF TypeOK, Entry, Places, Credential, Waiting, Final
\* One request moves to q.
<1>p. ASSUME NEW r \in Request, NEW q \in Entry(issued), q.at \in Waiting => q.cred = 0,
             request' = [request EXCEPT ![r] = q], mode' = mode,
             issued' = issued, expired' = expired, invalid' \subseteq Token,
             \/ UNCHANGED <<held, fresh, inflight, logins>>
             \/ LogInOnce /\ UNCHANGED <<held, fresh>>
             \/ LogInOnce /\ held' = 0 /\ fresh' = FALSE
      PROVE  TypeOK'
  <2>1. request' \in [Request -> Entry(issued)]
    BY <1>p, <1>t
  <2>2. \A x \in Request : request'[x].at \in Waiting => request'[x].cred = 0
    BY <1>p, <1>t
  <2>3. held' \in 0..issued
    BY <1>p, <1>t
  <2>4. fresh' \in BOOLEAN /\ inflight' \in BOOLEAN
    BY <1>p, <1>t DEF LogInOnce
  <2>5. logins' \in Nat
    <3>1. logins' = logins \/ logins' = logins + 1
      BY <1>p DEF LogInOnce
    <3> QED BY <3>1, <1>t
  <2> QED BY <1>p, <1>g, <1>t, <2>1, <2>2, <2>3, <2>4, <2>5
<1>w. {"headers", "refresh"} = Waiting /\ {"answered", "failed", "unauthorized"} \subseteq Places
      /\ Waiting \subseteq Places /\ "sent" \notin Waiting
      /\ \A a \in {"answered", "failed", "unauthorized"} : a \notin Waiting
  BY DEF Places, Waiting, Final
<1>1. ASSUME NEW r \in Request, Begin(r)
      PROVE  TypeOK'
  <2>0. /\ request[r] \in Entry(issued) /\ "headers" \in Waiting
        /\ Carried[r] \in 0..issued \cup Token /\ held \in 0..issued \cup Token
    BY <1>t, <1>c, <1>w
  <2>1. /\ Sending(request[r], Carried[r]) \in Entry(issued)
        /\ Sending(request[r], Carried[r]).at = "sent"
        /\ Sending(request[r], held) \in Entry(issued)
        /\ Sending(request[r], held).at = "sent"
        /\ Await(request[r], "headers") \in Entry(issued)
        /\ Await(request[r], "headers").cred = 0
    BY <1>t, <2>0, Sends, Awaits
  <2>2. CASE ~Own /\ request' = [request EXCEPT ![r] = Sending(@, Carried[r])] /\ UNCHANGED ownVars
    BY <1>1, <2>1, <2>2, <1>p, <1>t, <1>w DEF Begin, ownVars
  <2>3. CASE request' = [request EXCEPT ![r] = Sending(@, held)] /\ UNCHANGED ownVars
    BY <1>1, <2>1, <2>3, <1>p, <1>t, <1>w DEF Begin, ownVars
  <2>4. CASE /\ request' = [request EXCEPT ![r] = Await(@, "headers")] /\ LogInOnce
             /\ UNCHANGED <<held, fresh, issued, expired>>
    BY <1>1, <2>1, <2>4, <1>p, <1>t DEF Begin
  <2> QED BY <1>1, <2>2, <2>3, <2>4 DEF Begin
<1>2. ASSUME NEW r \in Request, Answer(r)
      PROVE  TypeOK'
  <2> PICK end \in {"answered", "failed"} : request' = [request EXCEPT ![r].at = end]
    BY <1>2 DEF Answer
  <2>1. /\ [request[r] EXCEPT !.at = end] \in Entry(issued)
        /\ [request[r] EXCEPT !.at = end].at = end
    BY <1>t, <1>w, Moves
  <2>2. UNCHANGED <<mode, held, fresh, inflight, logins, issued, expired, invalid>>
    BY <1>2 DEF Answer, ownVars
  <2>3. end \notin Waiting
    BY <1>w
  <2>4. request' = [request EXCEPT ![r] = [request[r] EXCEPT !.at = end]]
    OBVIOUS
  <2> QED BY <2>1, <2>2, <2>3, <2>4, <1>p, <1>t
<1>3. ASSUME NEW r \in Request, FirstBounce(r)
      PROVE  TypeOK'
  <2>1. invalid' = invalid /\ mode' = mode
    BY <1>3 DEF FirstBounce, Rejected
  <2>2. CASE Own /\ Refresh(r)
    <3>1. Renewing(request[r]) \in Entry(issued) /\ Renewing(request[r]).cred = 0
      BY <1>t, Bounces
    <3>2. request' = [request EXCEPT ![r] = Renewing(request[r])]
      BY <2>2, <1>t DEF Refresh, Renewing
    <3> QED BY <2>1, <2>2, <3>1, <3>2, <1>p, <1>t DEF Refresh
  <2>3. CASE /\ request' = [request EXCEPT ![r].tried = TRUE, ![r].refused = request[r].cred]
             /\ UNCHANGED ownVars
    <3>1. /\ Retrying(request[r]) \in Entry(issued)
          /\ Retrying(request[r]).at = "sent"
      BY <1>3, <1>t, Bounces DEF FirstBounce, Bounced
    <3>2. request' = [request EXCEPT ![r] = Retrying(request[r])]
      BY <2>3, <1>t DEF Retrying
    <3> QED BY <2>1, <2>3, <3>1, <3>2, <1>p, <1>t, <1>w DEF ownVars
  <2> QED BY <1>3, <2>2, <2>3 DEF FirstBounce
<1>4. ASSUME NEW r \in Request, SecondBounce(r)
      PROVE  TypeOK'
  <2>1. invalid' \subseteq Token
    <3>1. CASE mode = "broker"
      <4>1. request[r].cred \in Token
        BY <1>4, <1>c, <3>1 DEF SecondBounce, Bounced, IInv, CarriesOwn, Own
      <4> QED BY <4>1, <1>4, <1>t DEF SecondBounce, Rejected
    <3>2. CASE mode # "broker"
      BY <1>4, <1>t, <3>2 DEF SecondBounce, Rejected
    <3> QED BY <3>1, <3>2
  <2>2. /\ [request[r] EXCEPT !.at = "unauthorized"] \in Entry(issued)
        /\ [request[r] EXCEPT !.at = "unauthorized"].at = "unauthorized"
    BY <1>t, <1>w, Moves
  <2> QED BY <2>1, <2>2, <1>4, <1>p, <1>t, <1>w DEF SecondBounce, ownVars
<1>5. CASE LoggedIn
  <2>1. /\ issued' = issued + 1 /\ held' = issued + 1 /\ fresh' = TRUE
        /\ inflight' = FALSE /\ logins' = logins - 1 /\ logins > 0
        /\ UNCHANGED <<mode, expired, invalid>>
    BY <1>5 DEF LoggedIn
  <2>2. ASSUME NEW r \in Request
        PROVE  /\ request'[r] \in Entry(issued + 1)
               /\ request'[r].at \notin Waiting
    <3>1. request[r] \in Entry(issued + 1) /\ issued + 1 \in 0..(issued + 1) /\ issued + 1 \in Nat
      BY <1>t, Later
    <3>2. CASE request[r].at \in Waiting
      <4>1. request'[r] = Sending(request[r], issued + 1)
        BY <1>5, <3>2 DEF LoggedIn
      <4>2. /\ Sending(request[r], issued + 1) \in Entry(issued + 1)
            /\ Sending(request[r], issued + 1).at = "sent"
        BY <3>1, Sends
      <4> QED BY <4>1, <4>2, <1>w
    <3>3. CASE request[r].at \notin Waiting
      BY <1>5, <3>1, <3>3 DEF LoggedIn
    <3> QED BY <3>2, <3>3
  <2>3. request' \in [Request -> Entry(issued')]
    BY <1>5, <2>1, <2>2 DEF LoggedIn
  <2>4. /\ held' \in 0..issued' /\ issued' \in Nat /\ logins' \in Nat
        /\ expired' \subseteq 1..issued'
    BY <2>1, <1>t
  <2> QED BY <2>1, <2>2, <2>3, <2>4, <1>t DEF TypeOK, Entry, Places, Credential, Waiting, Final
<1>6. CASE LogInFailed
  <2>1. UNCHANGED <<mode, issued, expired, invalid>> /\ logins > 0
    BY <1>6 DEF LogInFailed
  <2>h. held' \in 0..issued
    BY <1>6, <1>t DEF LogInFailed
  <2>b. fresh' \in BOOLEAN /\ inflight' \in BOOLEAN
    BY <1>6, <1>t DEF LogInFailed, FetchRepeated
  <2>2. logins' \in Nat
    <3>1. logins' = logins \/ logins' = logins - 1
      BY <1>6 DEF LogInFailed
    <3> QED BY <3>1, <2>1, <1>t
  <2>3. ASSUME NEW r \in Request
        PROVE  /\ request'[r] \in Entry(issued)
               /\ request'[r].at \in Waiting => request'[r].cred = 0
    <3>1. \/ request'[r] = request[r]
          \/ request'[r] = [request[r] EXCEPT !.at = "failed"]
          \/ request[r].at = "refresh" /\ request'[r] = [request[r] EXCEPT !.at = "headers"]
      BY <1>6 DEF LogInFailed, Waiting
    <3>2. \A a \in {"failed", "headers"} :
            /\ [request[r] EXCEPT !.at = a] \in Entry(issued)
            /\ [request[r] EXCEPT !.at = a].at = a
            /\ [request[r] EXCEPT !.at = a].cred = request[r].cred
      BY <1>t, <1>w, Moves
    <3>3. "failed" \notin Waiting /\ "refresh" \in Waiting
      BY <1>w
    <3>4. CASE request'[r] = request[r]
      BY <3>4, <1>t
    <3>5. CASE request'[r] = [request[r] EXCEPT !.at = "failed"]
      BY <3>5, <3>2, <3>3
    <3>6. CASE request[r].at = "refresh" /\ request'[r] = [request[r] EXCEPT !.at = "headers"]
      BY <3>6, <3>2, <3>3, <1>t
    <3> QED BY <3>1, <3>4, <3>5, <3>6
  <2>4. request' \in [Request -> Entry(issued)]
    BY <1>6, <2>3 DEF LogInFailed
  <2> QED BY <1>g, <1>t, <2>1, <2>h, <2>b, <2>2, <2>3, <2>4
<1>7. ASSUME NEW s \in 1..issued, Expire(s)
      PROVE  TypeOK'
  <2>1. expired' \subseteq 1..issued
    BY <1>7, <1>t DEF Expire
  <2> QED BY <1>7, <2>1, <1>t, <1>g DEF Expire
<1>8. CASE Lapse
  BY <1>8, <1>t, <1>g DEF Lapse
<1>9. CASE UNCHANGED vars
  BY <1>9, <1>t, <1>g DEF vars, ownVars
<1> QED BY <1>1, <1>2, <1>3, <1>4, <1>5, <1>6, <1>7, <1>8, <1>9 DEF Next

LEMMA LoginStep ==
  ASSUME CarriedAssumption, IInv, [Next]_vars
  PROVE  OneLogin' /\ CarriesOwn' /\ NotYetTried'
<1>t. /\ OneLogin /\ CarriesOwn /\ NotYetTried
      /\ request \in [Request -> Entry(issued)] /\ issued \in Nat
      /\ held \in 0..issued /\ logins \in Nat /\ inflight \in BOOLEAN
      /\ \A r \in Request : Carried[r] \in 0..issued \cup Token
      /\ mode \in {"legacy", "oauth2", "bearer", "broker"}
  BY DEF IInv, TypeOK, Entry, Places, Credential, CarriedAssumption
<1>w. /\ {"headers", "refresh"} = Waiting /\ "idle" \notin Waiting /\ "sent" \notin Waiting
      /\ {"answered", "failed", "unauthorized"} \cap Waiting = {}
      /\ Waiting \subseteq Places /\ {"answered", "failed", "unauthorized"} \subseteq Places
  BY DEF Waiting, Places, Final
\* One request moves to q, and may start or join a login.
<1>p. ASSUME NEW r \in Request, NEW q \in Entry(issued),
             request' = [request EXCEPT ![r] = q], mode' = mode, q.at # "idle",
             ~Own => q.cred = Carried[r],
             \/ UNCHANGED <<inflight, logins>> /\ (q.at \in Waiting => inflight)
             \/ Own /\ LogInOnce
      PROVE  OneLogin' /\ CarriesOwn' /\ NotYetTried'
  <2>1. \A x \in Request : request'[x] = IF x = r THEN q ELSE request[x]
    BY <1>p, <1>t
  <2>2. OneLogin'
    <3>1. CASE UNCHANGED <<inflight, logins>> /\ (q.at \in Waiting => inflight)
      BY <3>1, <2>1, <1>t DEF OneLogin
    <3>2. CASE LogInOnce
      <4>1. inflight' = TRUE /\ logins' = 1
        BY <3>2, <1>t DEF LogInOnce, OneLogin
      <4> QED BY <4>1 DEF OneLogin
    <3> QED BY <1>p, <3>1, <3>2
  <2>3. CarriesOwn'
    <3>1. Own' = Own
      BY <1>p DEF Own
    <3> QED BY <1>p, <1>t, <2>1, <3>1 DEF CarriesOwn
  <2>4. NotYetTried'
    BY <1>p, <1>t, <2>1 DEF NotYetTried
  <2> QED BY <2>2, <2>3, <2>4
<1>1. ASSUME NEW r \in Request, Begin(r)
      PROVE  OneLogin' /\ CarriesOwn' /\ NotYetTried'
  <2>0. request[r] \in Entry(issued) /\ mode' = mode /\ held \in 0..issued \cup Token
    BY <1>1, <1>t DEF Begin
  <2>1. CASE ~Own /\ request' = [request EXCEPT ![r] = Sending(@, Carried[r])] /\ UNCHANGED ownVars
    <3>1. /\ Sending(request[r], Carried[r]) \in Entry(issued)
          /\ Sending(request[r], Carried[r]).at = "sent"
          /\ Sending(request[r], Carried[r]).cred = Carried[r]
      BY <2>0, <1>t, Sends
    <3> QED BY <2>0, <2>1, <3>1, <1>p, <1>w DEF ownVars
  <2>2. CASE Own /\ request' = [request EXCEPT ![r] = Sending(@, held)] /\ UNCHANGED ownVars
    <3>1. /\ Sending(request[r], held) \in Entry(issued)
          /\ Sending(request[r], held).at = "sent"
      BY <2>0, <1>t, Sends
    <3> QED BY <2>0, <2>2, <3>1, <1>p, <1>w DEF ownVars
  <2>3. CASE Own /\ request' = [request EXCEPT ![r] = Await(@, "headers")] /\ LogInOnce
    <3>1. /\ Await(request[r], "headers") \in Entry(issued)
          /\ Await(request[r], "headers").at = "headers"
      BY <2>0, <1>t, <1>w, Awaits
    <3> QED BY <2>0, <2>3, <3>1, <1>p
  <2> QED BY <1>1, <2>1, <2>2, <2>3 DEF Begin
\* A request that was sent ends.
<1>e. ASSUME NEW r \in Request, NEW a \in {"answered", "failed", "unauthorized"},
             request[r].at = "sent", request' = [request EXCEPT ![r].at = a],
             UNCHANGED <<mode, inflight, logins>>
      PROVE  OneLogin' /\ CarriesOwn' /\ NotYetTried'
  <2>1. /\ [request[r] EXCEPT !.at = a] \in Entry(issued)
        /\ [request[r] EXCEPT !.at = a].at = a
        /\ [request[r] EXCEPT !.at = a].cred = request[r].cred
    BY <1>t, <1>w, Moves
  <2>2. a # "idle" /\ a \notin Waiting
    BY <1>w
  <2>3. ~Own => request[r].cred = Carried[r]
    BY <1>e, <1>t DEF CarriesOwn
  <2> QED BY <1>e, <2>1, <2>2, <2>3, <1>p
<1>2. ASSUME NEW r \in Request, Answer(r)
      PROVE  OneLogin' /\ CarriesOwn' /\ NotYetTried'
  BY <1>2, <1>e DEF Answer, ownVars
<1>3. ASSUME NEW r \in Request, FirstBounce(r)
      PROVE  OneLogin' /\ CarriesOwn' /\ NotYetTried'
  <2>0. /\ request[r] \in Entry(issued) /\ request[r].at = "sent" /\ mode' = mode
        /\ ~Own => request[r].cred = Carried[r]
    BY <1>3, <1>t DEF FirstBounce, Bounced, CarriesOwn
  <2>1. CASE Own /\ Refresh(r)
    <3>1. Renewing(request[r]) \in Entry(issued) /\ Renewing(request[r]).at = "refresh"
      BY <2>0, <1>t, Bounces
    <3>2. request' = [request EXCEPT ![r] = Renewing(request[r])] /\ LogInOnce
      BY <2>1 DEF Refresh, Renewing
    <3> QED BY <2>0, <2>1, <3>1, <3>2, <1>p
  <2>2. CASE /\ request' = [request EXCEPT ![r].tried = TRUE, ![r].refused = request[r].cred]
             /\ UNCHANGED ownVars
    <3>1. /\ Retrying(request[r]) \in Entry(issued) /\ Retrying(request[r]).at = "sent"
          /\ Retrying(request[r]).cred = request[r].cred
      BY <2>0, <1>t, Bounces
    <3>2. request' = [request EXCEPT ![r] = Retrying(request[r])]
      BY <2>2, <1>t DEF Retrying
    <3> QED BY <2>0, <2>2, <3>1, <3>2, <1>p, <1>w DEF ownVars
  <2> QED BY <1>3, <2>1, <2>2 DEF FirstBounce
<1>4. ASSUME NEW r \in Request, SecondBounce(r)
      PROVE  OneLogin' /\ CarriesOwn' /\ NotYetTried'
  BY <1>4, <1>e DEF SecondBounce, Bounced, ownVars
<1>5. CASE LoggedIn
  <2>1. /\ logins > 0 /\ inflight' = FALSE /\ logins' = logins - 1 /\ mode' = mode
    BY <1>5 DEF LoggedIn
  <2>2. inflight /\ logins' = 0 /\ Own
    BY <2>1, <1>t DEF OneLogin, CarriesOwn
  <2>3. ASSUME NEW r \in Request
        PROVE  /\ request'[r].at \notin Waiting
               /\ request'[r].at = "idle" => request'[r] = request[r]
    <3>1. CASE request[r].at \in Waiting
      <4>1. request'[r] = Sending(request[r], issued + 1)
        BY <1>5, <3>1 DEF LoggedIn
      <4>2. request[r] \in Entry(issued + 1) /\ issued + 1 \in 0..(issued + 1)
              /\ issued + 1 \in Nat
        BY <1>t, Later
      <4>3. Sending(request[r], issued + 1).at = "sent"
        BY <4>2, Sends
      <4> QED BY <4>1, <4>3, <1>w
    <3>2. CASE request[r].at \notin Waiting
      BY <1>5, <3>2 DEF LoggedIn
    <3> QED BY <3>1, <3>2
  <2>4. OneLogin'
    BY <2>1, <2>2, <2>3 DEF OneLogin
  <2>5. CarriesOwn'
    BY <2>1, <2>2 DEF CarriesOwn, Own
  <2>6. NotYetTried'
    BY <2>3, <1>t DEF NotYetTried
  <2> QED BY <2>4, <2>5, <2>6
<1>6. CASE LogInFailed
  <2>1. logins > 0 /\ mode' = mode
    BY <1>6 DEF LogInFailed
  <2>2. inflight /\ logins = 1 /\ Own /\ Own'
    BY <2>1, <1>t DEF OneLogin, CarriesOwn, Own
  <2>3. logins' = IF inflight' THEN 1 ELSE 0
    BY <1>6, <2>2 DEF LogInFailed
  <2>4. ASSUME NEW r \in Request
        PROVE  /\ request'[r].at \in Waiting => inflight'
               /\ request'[r].at = "idle" => request'[r] = request[r]
    <3>1. \A a \in {"failed", "headers"} : [request[r] EXCEPT !.at = a].at = a
      BY <1>t, <1>w, Moves
    <3>2. CASE mode = "legacy"
      <4>1. request'[r] = IF request[r].at \in Waiting
                          THEN [request[r] EXCEPT !.at = "failed"] ELSE request[r]
        BY <1>6, <3>2 DEF LogInFailed
      <4> QED BY <4>1, <3>1, <1>w
    <3>3. CASE mode = "oauth2"
      <4>1. /\ inflight' = (\E x \in Request : request[x].at = "refresh")
            /\ request'[r] = CASE request[r].at = "headers" -> [request[r] EXCEPT !.at = "failed"]
                                [] request[r].at = "refresh" -> [request[r] EXCEPT !.at = "headers"]
                                [] OTHER -> request[r]
        BY <1>6, <3>3 DEF LogInFailed, FetchRepeated
      <4>2. CASE request[r].at = "refresh"
        BY <4>1, <4>2, <3>1
      <4>3. CASE request[r].at = "headers"
        BY <4>1, <4>3, <3>1, <1>w
      <4>4. CASE request[r].at \notin {"headers", "refresh"}
        BY <4>1, <4>4, <1>w
      <4> QED BY <4>2, <4>3, <4>4
    <3> QED BY <3>2, <3>3, <2>2 DEF Own
  <2>5. OneLogin'
    BY <2>3, <2>4 DEF OneLogin
  <2>6. CarriesOwn'
    BY <2>2 DEF CarriesOwn
  <2>7. NotYetTried'
    BY <2>4, <1>t DEF NotYetTried
  <2> QED BY <2>5, <2>6, <2>7
<1>7. CASE UNCHANGED <<mode, inflight, logins, request>>
  BY <1>7, <1>t DEF OneLogin, CarriesOwn, NotYetTried, Own
<1> QED BY <1>1, <1>2, <1>3, <1>4, <1>5, <1>6, <1>7 DEF Next, vars, ownVars, Expire, Lapse

LEMMA RenewedStep ==
  ASSUME CarriedAssumption, IInv, [Next]_vars
  PROVE  RetryRenewed'
<1> USE DEF RetryRenewed, Own, Waiting
<1>t. /\ RetryRenewed /\ NotYetTried /\ issued \in Nat
      /\ request \in [Request -> [at : {"idle", "sent"} \cup Waiting \cup Final,
                              cred : Credential, tried : BOOLEAN, refused : Credential]]
  BY DEF IInv, TypeOK
<1>c. \A c \in Credential : c \in Int /\ c <= issued
  BY <1>t DEF Credential, CarriedAssumption
<1>1. ASSUME NEW r \in Request, Begin(r)
      PROVE  RetryRenewed'
  BY <1>1, <1>t DEF Begin, ownVars, Sending, Await, NotYetTried
<1>2. ASSUME NEW r \in Request, Answer(r)
      PROVE  RetryRenewed'
  BY <1>2, <1>t DEF Answer
<1>3. ASSUME NEW r \in Request, FirstBounce(r)
      PROVE  RetryRenewed'
  BY <1>3, <1>t DEF FirstBounce, Refresh, Await
<1>4. ASSUME NEW r \in Request, SecondBounce(r)
      PROVE  RetryRenewed'
  BY <1>4, <1>t DEF SecondBounce
<1>5. CASE LoggedIn
  <2> SUFFICES ASSUME NEW r \in Request, Own', request'[r].tried, request'[r].at = "sent"
               PROVE  request'[r].cred > request'[r].refused
    OBVIOUS
  <2>1. CASE request[r].at \in Waiting
    <3>1. request'[r].cred = issued + 1 /\ request'[r].refused = request[r].refused
      BY <1>5, <1>t, <2>1 DEF LoggedIn, Sending
    <3> QED BY <3>1, <1>t, <1>c
  <2>2. CASE request[r].at \notin Waiting
    BY <1>5, <1>t, <2>2 DEF LoggedIn
  <2> QED BY <2>1, <2>2
<1>6. CASE LogInFailed
  BY <1>6, <1>t DEF LogInFailed
<1>7. CASE UNCHANGED <<mode, request>>
  BY <1>7, <1>t
<1> QED BY <1>1, <1>2, <1>3, <1>4, <1>5, <1>6, <1>7 DEF Next, vars, Expire, Lapse

LEMMA OwedStep ==
  ASSUME CarriedAssumption, IInv, [Next]_vars
  PROVE  SessionsOwed'
<1>t. /\ OneLogin /\ SessionsOwed /\ issued \in Nat /\ held \in 0..issued
      /\ logins \in Nat /\ inflight \in BOOLEAN
      /\ request \in [Request -> [at : {"idle", "sent"} \cup Waiting \cup Final,
                              cred : Credential, tried : BOOLEAN, refused : Credential]]
  BY DEF IInv, TypeOK
<1> SUFFICES ASSUME mode' = "legacy"
             PROVE  /\ inflight' => held' = 0
                    /\ issued' + (IF held' = 0 THEN 1 ELSE 0) <= 1 + Cardinality(Tried')
  BY DEF SessionsOwed
<1>m. mode = "legacy"
  BY DEF Next, Begin, Answer, FirstBounce, SecondBounce, LoggedIn, LogInFailed, Expire, Lapse, vars
<1>o. /\ inflight => held = 0
      /\ issued + (IF held = 0 THEN 1 ELSE 0) <= 1 + Cardinality(Tried)
  BY <1>t, <1>m DEF SessionsOwed
<1>f. IsFiniteSet(Tried) /\ Cardinality(Tried) \in Nat
  BY FS_Subset, FS_CardinalityType DEF Tried, CarriedAssumption
\* Nobody is refused, no session is issued or dropped.
<1>u. ASSUME \A r \in Request : request'[r].tried = request[r].tried,
             UNCHANGED <<held, issued>>, inflight' => inflight \/ held = 0
      PROVE  /\ inflight' => held' = 0
             /\ issued' + (IF held' = 0 THEN 1 ELSE 0) <= 1 + Cardinality(Tried')
  <2>1. Tried' = Tried
    BY <1>u DEF Tried
  <2> QED BY <1>u, <1>o, <2>1
<1>1. ASSUME NEW r \in Request, Begin(r)
      PROVE  /\ inflight' => held' = 0
             /\ issued' + (IF held' = 0 THEN 1 ELSE 0) <= 1 + Cardinality(Tried')
  <2>1. \A x \in Request : request'[x].tried = request[x].tried
    <3>1. /\ request \in [Request -> Entry(issued)] /\ "headers" \in Waiting
          /\ Carried[r] \in 0..issued \cup Token /\ held \in 0..issued \cup Token
          /\ issued \in Nat
      BY <1>t DEF Entry, Places, Credential, Waiting, CarriedAssumption
    <3>s. request[r] \in Entry(issued)
      BY <3>1
    <3>2. Sending(request[r], Carried[r]).tried = request[r].tried
      BY <3>1, <3>s, Sends
    <3>3. Sending(request[r], held).tried = request[r].tried
      BY <3>1, <3>s, Sends
    <3>4. Await(request[r], "headers").tried = request[r].tried
      BY <3>1, <3>s, Awaits
    <3> QED BY <1>1, <3>1, <3>2, <3>3, <3>4 DEF Begin
  <2>2. UNCHANGED <<held, issued>>
    BY <1>1 DEF Begin, ownVars
  <2>3. inflight' => inflight \/ held = 0
    BY <1>1, <1>m DEF Begin, ownVars, Usable
  <2> QED BY <2>1, <2>2, <2>3, <1>u
<1>2. ASSUME NEW r \in Request, Answer(r) \/ SecondBounce(r)
      PROVE  /\ inflight' => held' = 0
             /\ issued' + (IF held' = 0 THEN 1 ELSE 0) <= 1 + Cardinality(Tried')
  BY <1>2, <1>t, <1>u DEF Answer, SecondBounce, ownVars
<1>3. ASSUME NEW r \in Request, FirstBounce(r)
      PROVE  /\ inflight' => held' = 0
             /\ issued' + (IF held' = 0 THEN 1 ELSE 0) <= 1 + Cardinality(Tried')
  <2>1. Refresh(r) /\ ~request[r].tried
    BY <1>3, <1>m DEF FirstBounce, Own
  <2>2. Tried' = Tried \cup {r} /\ r \notin Tried
    BY <2>1, <1>t DEF Refresh, Await, Tried
  <2>3. Cardinality(Tried') = Cardinality(Tried) + 1
    BY <2>2, <1>f, FS_AddElement
  <2>4. held' = 0 /\ issued' = issued
    BY <2>1 DEF Refresh
  <2> QED BY <2>3, <2>4, <1>t, <1>f, <1>o
<1>4. CASE LoggedIn
  <2>1. /\ inflight /\ held = 0 /\ ~inflight'
        /\ issued' = issued + 1 /\ held' = issued + 1
    BY <1>4, <1>t, <1>o DEF LoggedIn, OneLogin
  <2>2. Tried' = Tried
    BY <1>4, <1>t DEF LoggedIn, Sending, Tried
  <2> QED BY <2>1, <2>2, <1>t, <1>f, <1>o
<1>5. CASE LogInFailed
  BY <1>5, <1>t, <1>u, <1>m DEF LogInFailed
<1>6. CASE UNCHANGED <<held, issued, inflight, request>>
  BY <1>6, <1>u
<1> QED BY <1>1, <1>2, <1>3, <1>4, <1>5, <1>6 DEF Next, vars, ownVars, Expire, Lapse

-----------------------------------------------------------------------------
(* The theorems. *)

LEMMA InitialInvariant ==
  ASSUME CarriedAssumption, Init
  PROVE  IInv
<1>0. request = [r \in Request |-> [at |-> "idle", cred |-> 0, tried |-> FALSE, refused |-> 0]]
  BY DEF Init, Idle
<1>t. TypeOK
  <2>1. /\ issued = 0 /\ held = 0 /\ logins = 0 /\ expired = {} /\ invalid = {}
        /\ mode \in {"legacy", "oauth2", "bearer", "broker"}
    BY DEF Init
  <2>2. fresh \in BOOLEAN /\ inflight \in BOOLEAN
    BY DEF Init
  <2>3. 0 \in 0..issued /\ 0 \in Credential
    BY <2>1 DEF Credential
  <2>4. [at |-> "idle", cred |-> 0, tried |-> FALSE, refused |-> 0]
          \in [at : {"idle", "sent"} \cup Waiting \cup Final,
               cred : Credential, tried : BOOLEAN, refused : Credential]
    BY <2>3
  <2>5. /\ request \in [Request -> [at : {"idle", "sent"} \cup Waiting \cup Final,
                                    cred : Credential, tried : BOOLEAN, refused : Credential]]
        /\ \A r \in Request : request[r].at \in Waiting => request[r].cred = 0
    BY <1>0, <2>4
  <2> QED BY <2>1, <2>2, <2>3, <2>5 DEF TypeOK
<1>1. OneLogin /\ CarriesOwn /\ NotYetTried /\ RetryRenewed
  BY <1>0 DEF Init, OneLogin, CarriesOwn, NotYetTried, RetryRenewed, Waiting
<1>2. Cardinality(Tried) \in Nat
  BY FS_Subset, FS_CardinalityType DEF Tried, CarriedAssumption
<1> QED BY <1>t, <1>1, <1>2 DEF Init, IInv, SessionsOwed

LEMMA InvariantStep ==
  ASSUME CarriedAssumption, IInv, [Next]_vars
  PROVE  IInv'
BY TypeStep, LoginStep, RenewedStep, OwedStep DEF IInv

LEMMA InductiveInvariant == ASSUME CarriedAssumption PROVE Spec => []IInv
<1>1. Init => IInv
  BY InitialInvariant
<1>2. IInv /\ [Next]_vars => IInv'
  BY InvariantStep
<1> QED BY <1>1, <1>2, PTL DEF Spec

\* What the invariant says of the logins.
LEMMA InvariantGives ==
  ASSUME CarriedAssumption, IInv
  PROVE  TypeOK /\ OneLogin /\ RetryRenewed /\ LoginsBounded
<1>1. Cardinality(Tried) \in Nat
  BY FS_Subset, FS_CardinalityType DEF Tried, CarriedAssumption
<1>2. LoginsBounded
  BY <1>1 DEF IInv, TypeOK, SessionsOwed, LoginsBounded, Tried
<1> QED BY <1>2 DEF IInv

\* The credentials, the logins and the requests have their types; a request that
\* waits carries nothing.
THEOREM TypeCorrect == ASSUME CarriedAssumption PROVE Spec => []TypeOK
<1>1. IInv => TypeOK
  BY DEF IInv
<1> QED BY <1>1, InductiveInvariant, PTL

\* LegacyProvider, OAuth2Provider: at most one login is in flight, and no request
\* waits for a login that is not.
THEOREM LoginsShared == ASSUME CarriedAssumption PROVE Spec => []OneLogin
<1>1. IInv => OneLogin
  BY DEF IInv
<1> QED BY <1>1, InductiveInvariant, PTL

\* fetchWithAuth: a second try carries a session newer than the one refused, in
\* whatever order bounces, failures and logins of other requests come between.
THEOREM RetriesRenewed == ASSUME CarriedAssumption PROVE Spec => []RetryRenewed
<1>1. IInv => RetryRenewed
  BY DEF IInv
<1> QED BY <1>1, InductiveInvariant, PTL

\* LegacyProvider.refresh: a burst of refusals costs at most one login each.
THEOREM LoginsOwed == ASSUME CarriedAssumption PROVE Spec => []LoginsBounded
<1>1. IInv => LoginsBounded
  BY InvariantGives
<1> QED BY <1>1, InductiveInvariant, PTL
=============================================================================
