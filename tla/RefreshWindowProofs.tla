------------------------ MODULE RefreshWindowProofs ------------------------
(***************************************************************************)
(* Proofs about RefreshWindow, for every number of logins and requests,    *)
(* for Creatio with and without rotation, and for every window and clock.  *)
(***************************************************************************)
EXTENDS RefreshWindow, TLAPS

\* Whose session a request, a refresh and the tokens it obtained belong to:
\* what makes OwnSession inductive.
Descends(r) ==
    /\ flight[r] \in {"none", "sent"} => owner[r] = None
    /\ flight[r] # "none" => call[r] # None
    /\ call[r] # None =>
          /\ owner[call[r].crt] = call[r].sub
          /\ flight[call[r].leader] # "none"
          /\ call[call[r].leader].crt = call[r].crt
    /\ flight[r] \in {"accepted", "ok"} => owner[r] = owner[call[r].crt]
    /\ flight[r] = "ok" => renews[r] # None /\ owner[renews[r]] = owner[r]

Lineage == \A r \in Request : Descends(r)

Leads(q) == flight[q] \in InFlight \cup {"ok"}

\* The window still holds the entry of a refresh that has not failed, unless
\* something happened to the entries of its refresh token: what makes
\* SpentOnce follow.
Keeps(q) ==
    /\ Leads(q)
    /\ now < started[q] + Window
    /\ fate[call[q].crt] = {}
    => recent[call[q].crt] = [by |-> q, expiresAt |-> started[q] + Window]

WindowKept == \A q \in Request : Keeps(q)

IInv == TypeOK /\ NoCachedFailure /\ OwnSession /\ Lineage /\ WindowKept

-----------------------------------------------------------------------------
(* Types. *)

LEMMA TypeStep == IInv /\ [Next]_vars => TypeOK'
<1> SUFFICES ASSUME TypeOK, Lineage, [Next]_vars
             PROVE  TypeOK'
  BY DEF IInv
<1> USE OriginAssumption, DurationAssumption
<1> USE DEF TypeOK, creatio
<1>a. Login \subseteq Origin /\ Request \subseteq Origin
  BY DEF Origin
<1>b. ASSUME NEW sub \in Login, NEW g \in Origin \cup {None}
      PROVE  Sealed(sub, g) \in SUBSET RefreshTok
  BY DEF Sealed, RefreshTok
<1>c. ASSUME NEW t \in rts, NEW q \in Request, NEW done \in BOOLEAN
      PROVE  CallWith(t, q, done) \in Call
  BY DEF CallWith, Call, RefreshTok
<1>d. \A t \in rts : t.sub \in Login /\ t.crt \in Origin
  BY DEF RefreshTok
<1>e. \A c \in Origin : recent[c] # None => recent[c].by \in Request
  BY DEF Entry
<1>f. \A r \in Request : call[r] # None =>
         call[r].sub \in Login /\ call[r].crt \in Origin
  BY DEF Call
<1>g. \A r \in Request : flight[r] # "none" => call[r].crt \in Origin
  BY <1>f DEF Lineage, Descends
<1>s. \A w \in Request : call[w] # None => Settled(call[w]) \in Call
  <2>1. ASSUME NEW c \in Call
        PROVE  Settled(c) \in Call
    BY DEF Settled, Call
  <2> QED BY <2>1
<1>h. ASSUME NEW r \in Request
      PROVE  Answered(r) \in [Request -> Call \cup {None}]
  BY <1>s DEF Answered, Waiting
<1>1. ASSUME NEW l \in Login, LogIn(l)
      PROVE  TypeOK'
  <2>1. Sealed(l, l) \in SUBSET RefreshTok
    BY <1>a, <1>b
  <2> QED BY <1>1, <1>a, <2>1 DEF LogIn
<1>2. ASSUME NEW r \in Request, NEW t \in rts, Replay(r, t)
      PROVE  TypeOK'
  <2>1. recent[t.crt].by \in Request
    BY <1>2, <1>d, <1>e DEF Replay, Hit
  <2>2. Sealed(t.sub, renews[recent[t.crt].by]) \in SUBSET RefreshTok
    BY <2>1, <1>a, <1>b, <1>d
  <2>3. CallWith(t, recent[t.crt].by, TRUE) \in Call
    BY <2>1, <1>c
  <2> QED BY <1>2, <2>2, <2>3 DEF Replay
<1>3. ASSUME NEW r \in Request, NEW t \in rts, Join(r, t)
      PROVE  TypeOK'
  <2>1. recent[t.crt].by \in Request
    BY <1>3, <1>d, <1>e DEF Join, Hit
  <2>2. CallWith(t, recent[t.crt].by, FALSE) \in Call
    BY <2>1, <1>c
  <2> QED BY <1>3, <2>2 DEF Join
<1>4. ASSUME NEW r \in Request, NEW t \in rts, Start(r, t)
      PROVE  TypeOK'
  <2>1. CallWith(t, r, FALSE) \in Call
    BY <1>c
  <2>2. [by |-> r, expiresAt |-> now + Window] \in Entry
    BY DEF Entry
  <2> QED BY <1>4, <1>d, <2>1, <2>2 DEF Start, InFlight
<1>5. ASSUME NEW r \in Request, CreatioAccepts(r)
      PROVE  TypeOK'
  <2>1. call[r].crt \in Origin
    BY <1>5, <1>g DEF CreatioAccepts
  <2> QED BY <1>5, <1>a, <2>1 DEF CreatioAccepts, InFlight
<1>6. ASSUME NEW r \in Request, CreatioRefuses(r)
      PROVE  TypeOK'
  BY <1>6 DEF CreatioRefuses, InFlight
<1>7. ASSUME NEW r \in Request, Resolve(r)
      PROVE  TypeOK'
  <2>1. Renewal(r) \in Origin
    BY <1>7, <1>a, <1>g DEF Resolve, Renewal
  <2>2. \A w \in Waiting(r) : Sealed(call[w].sub, Renewal(r)) \in SUBSET RefreshTok
    BY <2>1, <1>b, <1>f DEF Waiting
  <2>3. rts' \in SUBSET RefreshTok
    BY <1>7, <2>2 DEF Resolve
  <2> QED BY <1>7, <1>h, <2>1, <2>3 DEF Resolve, InFlight
<1>8. ASSUME NEW r \in Request, Fail(r)
      PROVE  TypeOK'
  <2>1. call[r].crt \in Origin
    BY <1>8, <1>g DEF Fail, InFlight
  <2> QED BY <1>8, <1>h, <2>1 DEF Fail, InFlight
<1>9. ASSUME NEW t \in rts, Revoke(t)
      PROVE  TypeOK'
  BY <1>9, <1>d DEF Revoke
<1>10. ASSUME NEW c \in revoking, NEW worked \in BOOLEAN, RevokeEnds(c, worked)
       PROVE  TypeOK'
  BY <1>10 DEF RevokeEnds
<1>11. CASE Cleanup
  BY <1>11 DEF Cleanup
<1>12. CASE Restart
  BY <1>12, <1>s DEF Restart, InFlight
<1>13. CASE Tick
  BY <1>13 DEF Tick
<1>14. CASE UNCHANGED vars
  BY <1>14 DEF vars
<1> QED
  BY <1>1, <1>2, <1>3, <1>4, <1>5, <1>6, <1>7, <1>8, <1>9, <1>10, <1>11,
     <1>12, <1>13, <1>14 DEF Next

-----------------------------------------------------------------------------
(* Entries of the window. *)

\* Components of what the variables hold.
LEMMA Components ==
    ASSUME TypeOK
    PROVE  /\ \A t \in rts : t.sub \in Login /\ t.crt \in Origin
           /\ \A c \in Origin : recent[c] # None =>
                 recent[c].by \in Request /\ recent[c].expiresAt \in Nat
           /\ \A r \in Request : call[r] # None =>
                 /\ call[r].sub \in Login /\ call[r].crt \in Origin
                 /\ call[r].leader \in Request
           /\ Login \subseteq Origin /\ Request \subseteq Origin
  BY DEF TypeOK, RefreshTok, Entry, Call, Origin

\* A request that has not arrived has no refresh and leads nobody.
LEMMA Fresh ==
    ASSUME IInv, NEW r \in Request, call[r] = None
    PROVE  /\ flight[r] = "none"
           /\ \A c \in Origin : recent[c] # None => recent[c].by # r
           /\ \A w \in Request : call[w] # None => call[w].leader # r
<1>1. flight[r] = "none"
  BY DEF IInv, Lineage, Descends
<1>2. \A c \in Origin : recent[c] # None => recent[c].by # r
  BY DEF IInv, NoCachedFailure
<1>3. \A w \in Request : call[w] # None => call[w].leader # r
  BY <1>1 DEF IInv, Lineage, Descends
<1> QED BY <1>1, <1>2, <1>3

\* What a request that presents the token t turns into.
LEMMA CallWithKeeps ==
    ASSUME TypeOK, NEW t \in rts, NEW q \in Request, NEW done \in BOOLEAN
    PROVE  /\ CallWith(t, q, done) # None
           /\ CallWith(t, q, done).sub = t.sub
           /\ CallWith(t, q, done).crt = t.crt
           /\ CallWith(t, q, done).leader = q
<1>1. CallWith(t, q, done) \in [sub : Login, crt : Origin, leader : Request,
                               done : BOOLEAN]
  BY Components DEF CallWith
<1> QED BY <1>1, OriginAssumption DEF CallWith

\* What settling a refresh leaves of the requests.
LEMMA AnsweredKeeps ==
    ASSUME IInv, NEW r \in Request, NEW w \in Request
    PROVE  /\ Answered(r)[w] = None <=> call[w] = None
           /\ call[w] # None =>
                 /\ Answered(r)[w].sub = call[w].sub
                 /\ Answered(r)[w].crt = call[w].crt
                 /\ Answered(r)[w].leader = call[w].leader
<1>1. CASE call[w] = None
  BY <1>1 DEF Answered, Waiting
<1>2. CASE call[w] # None
  <2>1. ASSUME NEW c \in Call
        PROVE  /\ Settled(c) \in Call
               /\ Settled(c).sub = c.sub
               /\ Settled(c).crt = c.crt
               /\ Settled(c).leader = c.leader
    BY DEF Settled, Call
  <2>2. call[w] \in Call
    BY <1>2 DEF IInv, TypeOK
  <2>3. None \notin Call
    BY OriginAssumption DEF Call
  <2> QED BY <1>2, <2>1, <2>2, <2>3 DEF Answered
<1> QED BY <1>1, <1>2

LEMMA EntryStep == IInv /\ [Next]_vars => NoCachedFailure'
<1> SUFFICES ASSUME IInv, [Next]_vars
             PROVE  NoCachedFailure'
  OBVIOUS
<1> USE OriginAssumption
<1>k. TypeOK /\ NoCachedFailure
  BY DEF IInv
<1>t. /\ call \in [Request -> Call \cup {None}]
      /\ recent \in [Origin -> Entry \cup {None}]
      /\ flight \in [Request -> InFlight \cup {"none", "ok", "failed"}]
  BY <1>k DEF TypeOK
<1>u. ASSUME UNCHANGED <<call, flight>>,
             \A c \in Origin : recent'[c] \in {recent[c], None}
      PROVE  NoCachedFailure'
  BY <1>k, <1>u DEF NoCachedFailure
<1>1. ASSUME NEW l \in Login, LogIn(l)
      PROVE  NoCachedFailure'
  BY <1>1, <1>u DEF LogIn
<1>2. ASSUME NEW r \in Request, NEW t \in rts, Replay(r, t)
      PROVE  NoCachedFailure'
  <2>1. \A c \in Origin : recent[c] # None =>
           recent[c].by # r /\ recent[c].by \in Request
    BY <1>2, <1>k, Fresh, Components DEF Replay
  <2> QED BY <1>2, <1>k, <1>t, <2>1 DEF Replay, NoCachedFailure
<1>3. ASSUME NEW r \in Request, NEW t \in rts, Join(r, t)
      PROVE  NoCachedFailure'
  <2>1. \A c \in Origin : recent[c] # None =>
           recent[c].by # r /\ recent[c].by \in Request
    BY <1>3, <1>k, Fresh, Components DEF Join
  <2> QED BY <1>3, <1>k, <1>t, <2>1 DEF Join, NoCachedFailure
<1>4. ASSUME NEW r \in Request, NEW t \in rts, Start(r, t)
      PROVE  NoCachedFailure'
  <2>1. \A c \in Origin : recent[c] # None =>
           recent[c].by # r /\ recent[c].by \in Request
    BY <1>4, <1>k, Fresh, Components DEF Start
  <2>2. t.sub \in Login /\ t.crt \in Origin
    BY <1>k, Components
  <2>3. CallWith(t, r, FALSE) # None /\ CallWith(t, r, FALSE).crt = t.crt
    BY <1>k, CallWithKeeps
  <2>4. /\ call' = [call EXCEPT ![r] = CallWith(t, r, FALSE)]
        /\ flight' = [flight EXCEPT ![r] = "sent"]
        /\ recent' = [recent EXCEPT ![t.crt] =
              [by |-> r, expiresAt |-> now + Window]]
    BY <1>4 DEF Start
  <2>5. recent'[t.crt].by = r /\ flight'[r] = "sent"
          /\ call'[r] = CallWith(t, r, FALSE)
    BY <2>2, <2>4, <1>t
  <2>6. ASSUME NEW c \in Origin, c # t.crt, recent'[c] # None
        PROVE  /\ recent'[c] = recent[c] /\ recent[c] # None
               /\ flight'[recent[c].by] = flight[recent[c].by]
               /\ call'[recent[c].by] = call[recent[c].by]
    BY <2>1, <2>4, <2>6, <1>t
  <2>7. ASSUME NEW c \in Origin, recent'[c] # None
        PROVE  /\ flight'[recent'[c].by] \in InFlight \cup {"ok"}
               /\ call'[recent'[c].by] # None
               /\ call'[recent'[c].by].crt = c
    <3>1. CASE c = t.crt
      BY <3>1, <2>3, <2>5 DEF InFlight
    <3>2. CASE c # t.crt
      BY <3>2, <2>6, <2>7, <1>k DEF NoCachedFailure
    <3> QED BY <3>1, <3>2
  <2> QED BY <2>7 DEF NoCachedFailure
<1>5. ASSUME NEW r \in Request, CreatioAccepts(r)
      PROVE  NoCachedFailure'
  BY <1>5, <1>k, <1>t DEF CreatioAccepts, NoCachedFailure, InFlight
<1>6. ASSUME NEW r \in Request, CreatioRefuses(r)
      PROVE  NoCachedFailure'
  BY <1>6, <1>k, <1>t DEF CreatioRefuses, NoCachedFailure, InFlight
<1>7. ASSUME NEW r \in Request, Resolve(r)
      PROVE  NoCachedFailure'
  BY <1>7, <1>k, <1>t, Components, AnsweredKeeps
     DEF Resolve, NoCachedFailure, InFlight
<1>8. ASSUME NEW r \in Request, Fail(r)
      PROVE  NoCachedFailure'
  <2>1. /\ recent' = [recent EXCEPT ![call[r].crt] = None]
        /\ flight' = [flight EXCEPT ![r] = "failed"]
        /\ call' = Answered(r)
    BY <1>8 DEF Fail
  <2>2. ASSUME NEW c \in Origin, recent'[c] # None
        PROVE  /\ recent'[c] = recent[c] /\ recent[c] # None
               /\ recent[c].by \in Request /\ recent[c].by # r
    <3>1. recent'[c] = recent[c] /\ c # call[r].crt
      BY <2>1, <2>2, <1>t
    <3> QED BY <3>1, <2>2, <1>k, Components DEF NoCachedFailure
  <2>3. ASSUME NEW c \in Origin, recent'[c] # None
        PROVE  LET q == recent'[c].by IN
                 /\ flight'[q] \in InFlight \cup {"ok"}
                 /\ call'[q] # None /\ call'[q].crt = c
    BY <2>1, <2>2, <2>3, <1>k, <1>t, AnsweredKeeps DEF NoCachedFailure
  <2> QED BY <2>3 DEF NoCachedFailure
<1>9. ASSUME NEW t \in rts, Revoke(t)
      PROVE  NoCachedFailure'
  BY <1>9, <1>t, <1>u DEF Revoke
<1>10. ASSUME NEW c \in revoking, NEW worked \in BOOLEAN, RevokeEnds(c, worked)
       PROVE  NoCachedFailure'
  BY <1>10, <1>u DEF RevokeEnds
<1>11. CASE Cleanup
  BY <1>11, <1>u DEF Cleanup
<1>12. CASE Restart
  BY <1>12 DEF Restart, NoCachedFailure
<1>13. CASE Tick
  BY <1>13, <1>u DEF Tick
<1>14. CASE UNCHANGED vars
  BY <1>14, <1>u DEF vars
<1> QED
  BY <1>1, <1>2, <1>3, <1>4, <1>5, <1>6, <1>7, <1>8, <1>9, <1>10, <1>11,
     <1>12, <1>13, <1>14 DEF Next

-----------------------------------------------------------------------------
(* Sessions. *)

\* What belongs to a session stays in it.
LEMMA OwnerStable ==
    ASSUME IInv, [Next]_vars, NEW g \in Origin, owner[g] # None
    PROVE  owner'[g] = owner[g]
<1> USE OriginAssumption
<1>t. owner \in [Origin -> Login \cup {None}]
  BY DEF IInv, TypeOK
<1>1. ASSUME NEW l \in Login, LogIn(l)
      PROVE  owner'[g] = owner[g]
  BY <1>1, <1>t DEF LogIn
<1>2. ASSUME NEW r \in Request, CreatioAccepts(r)
      PROVE  owner'[g] = owner[g]
  <2>1. g # r
    BY <1>2 DEF CreatioAccepts, IInv, Lineage, Descends
  <2> QED BY <1>2, <1>t, <2>1 DEF CreatioAccepts
<1> QED
  BY <1>1, <1>2 DEF Next, vars, creatio, Replay, Join, Start, CreatioRefuses,
     Resolve, Fail, Revoke, RevokeEnds, Cleanup, Restart, Tick

LEMMA LineageStep == IInv /\ [Next]_vars => Lineage'
<1> SUFFICES ASSUME IInv, [Next]_vars, NEW w \in Request
             PROVE  Descends(w)'
  BY DEF Lineage
<1> USE OriginAssumption
<1>k. TypeOK /\ Lineage
  BY DEF IInv
<1>t. /\ call \in [Request -> Call \cup {None}]
      /\ owner \in [Origin -> Login \cup {None}]
      /\ renews \in [Origin -> Origin \cup {None}]
      /\ flight \in [Request -> InFlight \cup {"none", "ok", "failed"}]
  BY <1>k DEF TypeOK
<1>o. /\ call[w] # None => owner'[call[w].crt] = call[w].sub
      /\ flight[w] \in {"accepted", "ok"} =>
            owner[w] # None /\ owner'[w] = owner'[call[w].crt]
      /\ flight[w] = "ok" => owner'[renews[w]] = owner'[w]
  <2>1. None \notin Login
    BY DEF Origin
  <2>2. call[w] # None => /\ owner[call[w].crt] = call[w].sub
                          /\ owner[call[w].crt] # None
                          /\ call[w].crt \in Origin
    BY <2>1, <1>k, Components DEF Lineage, Descends
  <2>3. flight[w] \in {"accepted", "ok"} =>
           call[w] # None /\ owner[w] = owner[call[w].crt] /\ owner[w] # None
    BY <2>2, <1>k DEF Lineage, Descends
  <2>4. flight[w] = "ok" => /\ owner[renews[w]] = owner[w]
                            /\ renews[w] \in Origin
    BY <1>k, <1>t, Components DEF Lineage, Descends
  <2>5. \A g \in Origin : owner[g] # None => owner'[g] = owner[g]
    BY OwnerStable
  <2> QED BY <2>2, <2>3, <2>4, <2>5, <1>k, Components
<1>u. ASSUME UNCHANGED <<owner, renews, call, flight>>
      PROVE  Descends(w)'
  BY <1>u, <1>k DEF Lineage, Descends
<1>1. ASSUME NEW l \in Login, LogIn(l)
      PROVE  Descends(w)'
  <2>1. w # l
    BY DEF Origin
  <2>2. /\ owner'[w] = owner[w] /\ renews'[w] = renews[w]
        /\ UNCHANGED <<call, flight>>
    BY <1>1, <2>1, <1>t DEF LogIn
  <2> QED BY <2>2, <1>o, <1>k DEF Lineage, Descends
<1>b. ASSUME NEW r \in Request, NEW t \in rts, NEW q \in Request,
             NEW done \in BOOLEAN,
             call[r] = None, flight[q] # "none", call[q].crt = t.crt,
             call' = [call EXCEPT ![r] = CallWith(t, q, done)],
             UNCHANGED <<owner, renews, flight>>
      PROVE  Descends(w)'
  <2>1. q # r /\ flight[r] = "none"
    BY <1>b, Fresh
  <2>2. owner[t.crt] = t.sub
    BY DEF IInv, OwnSession
  <2>3. CASE w = r
    <3>1. /\ call'[r] = CallWith(t, q, done) /\ call'[q] = call[q]
          /\ owner'[r] = None
      BY <1>b, <1>k, <1>t, <2>1 DEF Lineage, Descends
    <3> QED BY <1>b, <1>k, <2>1, <2>2, <2>3, <3>1, CallWithKeeps DEF Descends
  <2>4. CASE w # r
    <3>1. call'[w] = call[w]
      BY <1>b, <1>t, <2>4
    <3>2. call[w] # None => call'[call[w].leader] = call[call[w].leader]
      BY <1>b, <1>k, <1>t, Fresh, Components
    <3> QED BY <1>b, <1>k, <3>1, <3>2 DEF Lineage, Descends
  <2> QED BY <2>3, <2>4
<1>e. \A c \in Origin : recent[c] # None =>
         /\ recent[c].by \in Request /\ flight[recent[c].by] # "none"
         /\ call[recent[c].by].crt = c
  BY <1>k, Components DEF IInv, NoCachedFailure, InFlight
<1>2. ASSUME NEW r \in Request, NEW t \in rts, Replay(r, t)
      PROVE  Descends(w)'
  <2>1. t.crt \in Origin /\ recent[t.crt] # None
    BY <1>2, <1>k, Components DEF Replay, Hit
  <2>2. PICK q \in Request : q = recent[t.crt].by
    BY <2>1, <1>e
  <2>3. /\ call[r] = None
        /\ call' = [call EXCEPT ![r] = CallWith(t, q, TRUE)]
        /\ UNCHANGED <<owner, renews, flight>>
    BY <1>2, <2>2 DEF Replay, creatio
  <2> QED BY <2>1, <2>2, <2>3, <1>b, <1>e
<1>3. ASSUME NEW r \in Request, NEW t \in rts, Join(r, t)
      PROVE  Descends(w)'
  <2>1. t.crt \in Origin /\ recent[t.crt] # None
    BY <1>3, <1>k, Components DEF Join, Hit
  <2>2. PICK q \in Request : q = recent[t.crt].by
    BY <2>1, <1>e
  <2>3. /\ call[r] = None
        /\ call' = [call EXCEPT ![r] = CallWith(t, q, FALSE)]
        /\ UNCHANGED <<owner, renews, flight>>
    BY <1>3, <2>2 DEF Join, creatio
  <2> QED BY <2>1, <2>2, <2>3, <1>b, <1>e
<1>4. ASSUME NEW r \in Request, NEW t \in rts, Start(r, t)
      PROVE  Descends(w)'
  <2>1. /\ call[r] = None
        /\ call' = [call EXCEPT ![r] = CallWith(t, r, FALSE)]
        /\ flight' = [flight EXCEPT ![r] = "sent"]
        /\ UNCHANGED <<owner, renews>>
    BY <1>4 DEF Start, creatio
  <2>2. owner' = owner /\ renews' = renews
    BY <2>1
  <2>3. owner[t.crt] = t.sub
    BY DEF IInv, OwnSession
  <2>4. CASE w = r
    <3>1. /\ call'[r] = CallWith(t, r, FALSE) /\ flight'[r] = "sent"
          /\ owner'[r] = None
      BY <2>1, <1>k, <1>t, Fresh DEF Lineage, Descends
    <3>2. /\ CallWith(t, r, FALSE) # None
          /\ CallWith(t, r, FALSE).sub = t.sub
          /\ CallWith(t, r, FALSE).crt = t.crt
          /\ CallWith(t, r, FALSE).leader = r
      BY <1>k, CallWithKeeps
    <3> QED BY <2>3, <2>4, <2>2, <3>1, <3>2 DEF Descends
  <2>5. CASE w # r
    <3>1. call'[w] = call[w] /\ flight'[w] = flight[w]
      BY <2>1, <2>5, <1>t
    <3>2. call[w] # None =>
             /\ call'[call[w].leader] = call[call[w].leader]
             /\ flight'[call[w].leader] = flight[call[w].leader]
      BY <2>1, <1>k, <1>t, Fresh, Components
    <3> QED BY <2>2, <1>k, <3>1, <3>2 DEF Lineage, Descends
  <2> QED BY <2>4, <2>5
<1>5. ASSUME NEW r \in Request, CreatioAccepts(r)
      PROVE  Descends(w)'
  <2>1. /\ flight[r] = "sent"
        /\ owner' = [owner EXCEPT ![r] = owner[call[r].crt]]
        /\ flight' = [flight EXCEPT ![r] = "accepted"]
        /\ UNCHANGED <<renews, call>>
    BY <1>5 DEF CreatioAccepts
  <2>2. call[w] # None => flight'[call[w].leader] # "none"
    BY <2>1, <1>k, <1>t, Components DEF Lineage, Descends
  <2>3. CASE w = r
    <3>1. flight'[r] = "accepted" /\ owner'[r] = owner[call[r].crt]
      BY <2>1, <1>t, <1>k, Components
    <3>2. call[r] # None /\ owner[call[r].crt] = call[r].sub
      BY <2>1, <1>k DEF Lineage, Descends
    <3> QED BY <2>1, <2>2, <2>3, <3>1, <3>2, <1>o, <1>k DEF Lineage, Descends
  <2>4. CASE w # r
    <3>1. flight'[w] = flight[w] /\ owner'[w] = owner[w]
      BY <2>1, <2>4, <1>t
    <3> QED BY <2>1, <2>2, <3>1, <1>o, <1>k DEF Lineage, Descends
  <2> QED BY <2>3, <2>4
<1>6. ASSUME NEW r \in Request, CreatioRefuses(r)
      PROVE  Descends(w)'
  <2>1. /\ flight[r] = "sent" /\ flight' = [flight EXCEPT ![r] = "refused"]
        /\ UNCHANGED <<owner, renews, call>>
    BY <1>6 DEF CreatioRefuses, creatio
  <2> QED BY <2>1, <1>k, <1>t, Components DEF Lineage, Descends
<1>a. ASSUME NEW r \in Request, call' = Answered(r)
      PROVE  /\ (call'[w] = None) <=> (call[w] = None)
             /\ call[w] # None =>
                   /\ call'[w].sub = call[w].sub /\ call'[w].crt = call[w].crt
                   /\ call'[w].leader = call[w].leader
                   /\ call'[call[w].leader].crt = call[w].crt
  <2>1. call[w] # None =>
           /\ call[w].leader \in Request /\ call[call[w].leader] # None
           /\ call[call[w].leader].crt = call[w].crt
    BY <1>k, Components DEF Lineage, Descends
  <2> QED BY <1>a, <2>1, AnsweredKeeps
<1>7. ASSUME NEW r \in Request, Resolve(r)
      PROVE  Descends(w)'
  <2>1. /\ flight[r] = "accepted"
        /\ renews' = [renews EXCEPT ![r] = Renewal(r)]
        /\ flight' = [flight EXCEPT ![r] = "ok"]
        /\ call' = Answered(r)
        /\ owner' = owner
    BY <1>7 DEF Resolve, creatio
  <2>2. call[w] # None => flight'[call[w].leader] # "none"
    BY <2>1, <1>k, <1>t, Components DEF Lineage, Descends
  <2>3. CASE w = r
    <3>1. Renewal(r) # None /\ owner[Renewal(r)] = owner[r]
      BY <2>1, <1>k, Components DEF Renewal, Lineage, Descends, Origin
    <3>2. flight'[r] = "ok" /\ renews'[r] = Renewal(r)
      BY <2>1, <1>k, <1>t, Components
    <3> QED BY <2>1, <2>2, <2>3, <3>1, <3>2, <1>a, <1>k DEF Lineage, Descends
  <2>4. CASE w # r
    <3>1. flight'[w] = flight[w] /\ renews'[w] = renews[w]
      BY <2>1, <2>4, <1>t
    <3> QED BY <2>1, <2>2, <3>1, <1>a, <1>k DEF Lineage, Descends
  <2> QED BY <2>3, <2>4
<1>8. ASSUME NEW r \in Request, Fail(r)
      PROVE  Descends(w)'
  <2>1. /\ flight[r] # "none"
        /\ flight' = [flight EXCEPT ![r] = "failed"]
        /\ call' = Answered(r)
        /\ owner' = owner /\ renews' = renews
    BY <1>8 DEF Fail, creatio, InFlight
  <2>2. /\ flight'[w] \in {flight[w], "failed"}
        /\ flight'[w] # "none" => flight[w] # "none"
    BY <2>1, <1>t
  <2>3. call[w] # None => flight'[call[w].leader] # "none"
    BY <2>1, <1>k, <1>t, Components DEF Lineage, Descends
  <2> QED BY <2>1, <2>2, <2>3, <1>a, <1>k DEF Lineage, Descends
<1>9. ASSUME NEW t \in rts, Revoke(t)
      PROVE  Descends(w)'
  BY <1>9, <1>u DEF Revoke, creatio
<1>10. ASSUME NEW c \in revoking, NEW worked \in BOOLEAN, RevokeEnds(c, worked)
       PROVE  Descends(w)'
  BY <1>10, <1>u DEF RevokeEnds
<1>11. CASE Cleanup
  BY <1>11, <1>u DEF Cleanup, creatio
<1>12. CASE Restart
  <2>1. /\ owner' = owner /\ renews' = renews
        /\ flight'[w] \in {flight[w], "failed"}
        /\ flight'[w] # "none" <=> flight[w] # "none"
        /\ call'[w] = IF call[w] = None THEN None ELSE Settled(call[w])
    BY <1>12, <1>t DEF Restart, creatio, InFlight
  <2>2. call[w] # None =>
           /\ call[w].leader \in Request
           /\ flight'[call[w].leader] # "none"
           /\ call[call[w].leader] # None
           /\ call'[call[w].leader] = Settled(call[call[w].leader])
    BY <1>12, <1>k, <1>t, Components DEF Restart, InFlight, Lineage, Descends
  <2>3. ASSUME NEW d \in Call
        PROVE  /\ Settled(d) # None /\ Settled(d).sub = d.sub
               /\ Settled(d).crt = d.crt /\ Settled(d).leader = d.leader
    <3>1. Settled(d) \in Call
      BY DEF Settled, Call
    <3>2. None \notin Call
      BY DEF Call
    <3> QED BY <3>1, <3>2 DEF Settled, Call
  <2>4. \A r \in Request : call[r] # None => call[r] \in Call
    BY <1>t
  <2> QED BY <2>1, <2>2, <2>3, <2>4, <1>k DEF Lineage, Descends
<1>13. CASE Tick
  BY <1>13, <1>u DEF Tick, creatio
<1>14. CASE UNCHANGED vars
  BY <1>14, <1>u DEF vars, creatio
<1> QED
  BY <1>1, <1>2, <1>3, <1>4, <1>5, <1>6, <1>7, <1>8, <1>9, <1>10, <1>11,
     <1>12, <1>13, <1>14 DEF Next

\* OwnSession.  The second conjunct follows from Lineage alone.
LEMMA SessionStep == IInv /\ [Next]_vars => OwnSession'
<1> SUFFICES ASSUME IInv, [Next]_vars
             PROVE  OwnSession'
  OBVIOUS
<1> USE OriginAssumption
<1>k. TypeOK /\ Lineage /\ OwnSession
  BY DEF IInv
<1>t. /\ recent \in [Origin -> Entry \cup {None}]
      /\ owner \in [Origin -> Login \cup {None}]
      /\ renews \in [Origin -> Origin \cup {None}]
  BY <1>k DEF TypeOK
<1>o. \A g \in Origin : owner[g] # None => owner'[g] = owner[g]
  BY OwnerStable
<1>s. ASSUME NEW sub \in Login, NEW g \in Origin \cup {None},
             g # None => owner'[g] = sub
      PROVE  \A t \in Sealed(sub, g) : owner'[t.crt] = t.sub
  BY <1>s DEF Sealed
<1>r. \A t \in rts : owner'[t.crt] = t.sub
  BY <1>k, <1>o, Components DEF OwnSession, Origin
<1>1. \A t \in rts' : owner'[t.crt] = t.sub
  <2>1. ASSUME NEW l \in Login, LogIn(l)
        PROVE  \A t \in rts' : owner'[t.crt] = t.sub
    <3>1. owner'[l] = l /\ rts' = rts \cup Sealed(l, l) /\ l \in Origin
      BY <2>1, <1>t DEF LogIn, Origin
    <3> QED BY <3>1, <1>r, <1>s
  <2>2. ASSUME NEW r \in Request, NEW t \in rts, Replay(r, t)
        PROVE  \A u \in rts' : owner'[u.crt] = u.sub
    <3>1. t.crt \in Origin /\ t.sub \in Login /\ recent[t.crt] # None
      BY <2>2, <1>k, Components DEF Replay, Hit
    <3>2. PICK q \in Request : q = recent[t.crt].by
      BY <3>1, <1>k, Components
    <3>3. /\ flight[q] = "ok" /\ owner' = owner
          /\ rts' = rts \cup Sealed(t.sub, renews[q])
      BY <2>2, <3>2 DEF Replay, creatio
    <3>4. call[q] # None /\ call[q].crt = t.crt
      BY <3>1, <3>2 DEF IInv, NoCachedFailure
    <3>5. owner[t.crt] = t.sub
      BY <1>k DEF OwnSession
    <3>6. owner'[renews[q]] = t.sub
      BY <3>3, <3>4, <3>5, <1>k DEF Lineage, Descends
    <3>7. renews[q] \in Origin \cup {None}
      BY <1>k, <1>t, Components
    <3> QED BY <3>1, <3>3, <3>6, <3>7, <1>r, <1>s
  <2>3. ASSUME NEW r \in Request, Resolve(r)
        PROVE  \A t \in rts' : owner'[t.crt] = t.sub
    <3>1. /\ flight[r] = "accepted" /\ owner' = owner
          /\ rts' = rts \cup UNION {Sealed(call[w].sub, Renewal(r)) :
                                    w \in Waiting(r)}
      BY <2>3 DEF Resolve, creatio
    <3>2. Renewal(r) \in Origin /\ owner[Renewal(r)] = owner[r]
      BY <3>1, <1>k, Components DEF Renewal, Lineage, Descends
    <3>3. \A w \in Waiting(r) : call[w].sub \in Login /\ owner[r] = call[w].sub
      BY <3>1, <1>k, Components DEF Waiting, Lineage, Descends
    <3>4. \A w \in Waiting(r) : \A t \in Sealed(call[w].sub, Renewal(r)) :
             owner'[t.crt] = t.sub
      BY <3>1, <3>2, <3>3, <1>s
    <3> QED BY <3>1, <3>4, <1>r
  <2>4. CASE UNCHANGED rts
    BY <2>4, <1>r
  <2> QED
    BY <2>1, <2>2, <2>3, <2>4
       DEF Next, vars, Join, Start, CreatioAccepts, CreatioRefuses, Fail,
           Revoke, RevokeEnds, Cleanup, Restart, Tick
<1>2. ASSUME TypeOK', Lineage', NEW r \in Request,
             (call[r] # None /\ call[r].done /\ flight[call[r].leader] = "ok")'
      PROVE  (owner[call[r].leader] = call[r].sub)'
  <2>1. call'[r].leader \in Request
    BY <1>2 DEF TypeOK, Call
  <2> QED BY <1>2, <2>1 DEF Lineage, Descends
<1> QED BY <1>1, <1>2, TypeStep, LineageStep DEF OwnSession

-----------------------------------------------------------------------------
(* The window. *)

LEMMA WindowStep == IInv /\ [Next]_vars => WindowKept'
<1> SUFFICES ASSUME IInv, [Next]_vars, NEW q \in Request,
                    Leads(q)', now' < started'[q] + Window,
                    fate'[call'[q].crt] = {}
             PROVE  recent'[call'[q].crt] =
                      [by |-> q, expiresAt |-> started'[q] + Window]
  BY DEF WindowKept, Keeps
<1> USE OriginAssumption, DurationAssumption
<1> DEFINE E(n) == [by |-> q, expiresAt |-> n + Window]
<1>k. TypeOK /\ Lineage /\ NoCachedFailure /\ Keeps(q)
  BY DEF IInv, WindowKept
<1>t. /\ call \in [Request -> Call \cup {None}]
      /\ started \in [Request -> Nat] /\ now \in Nat
      /\ recent \in [Origin -> Entry \cup {None}]
      /\ flight \in [Request -> InFlight \cup {"none", "ok", "failed"}]
      /\ fate \in [Origin -> SUBSET {"stale", "forgotten", "revoked", "restart"}]
  BY <1>k DEF TypeOK
<1>e. E(started[q]) # None
  <2>1. E(started[q]) \in [by : Request, expiresAt : Nat]
    BY <1>t
  <2> QED BY <2>1
<1>c. flight[q] # "none" => call[q] # None /\ call[q].crt \in Origin
  BY <1>k, Components DEF Lineage, Descends
\* The usual case: q led before, and nothing happened to its entry.
<1>u. ASSUME Leads(q), call'[q].crt = call[q].crt, started'[q] = started[q],
             now' >= now, now' \in Nat,
             fate[call[q].crt] \subseteq fate'[call[q].crt],
             recent[call[q].crt] = E(started[q])
               => recent'[call[q].crt] = recent[call[q].crt]
      PROVE  recent'[call'[q].crt] = E(started'[q])
  BY <1>u, <1>k, <1>t DEF Keeps
<1>l. Leads(q) => flight[q] # "none"
  BY DEF Leads, InFlight
<1>1. CASE UNCHANGED <<call, flight, started, recent, fate, now>>
  BY <1>1, <1>u, <1>t DEF Leads
<1>2. ASSUME NEW r \in Request, NEW d,
             call[r] = None, call' = [call EXCEPT ![r] = d],
             UNCHANGED <<flight, started, recent, fate, now>>
      PROVE  recent'[call'[q].crt] = E(started'[q])
  <2>1. Leads(q) /\ q # r
    BY <1>2, <1>c, <1>l DEF Leads
  <2>2. call'[q] = call[q]
    BY <1>2, <2>1, <1>t
  <2> QED BY <1>2, <2>1, <2>2, <1>u, <1>t
<1>3. ASSUME NEW r \in Request, NEW t \in rts, Start(r, t)
      PROVE  recent'[call'[q].crt] = E(started'[q])
  <2>1. /\ call[r] = None /\ ~Hit(t.crt)
        /\ call' = [call EXCEPT ![r] = CallWith(t, r, FALSE)]
        /\ flight' = [flight EXCEPT ![r] = "sent"]
        /\ started' = [started EXCEPT ![r] = now]
        /\ recent' = [recent EXCEPT ![t.crt] =
              [by |-> r, expiresAt |-> now + Window]]
        /\ now' = now /\ fate' = fate
    BY <1>3 DEF Start
  <2>2. t.crt \in Origin
    BY <1>k, Components
  <2>3. CASE q = r
    <3>1. call'[q] = CallWith(t, r, FALSE) /\ started'[q] = now
      BY <2>1, <2>3, <1>t
    <3>2. CallWith(t, r, FALSE).crt = t.crt
      BY <1>k, CallWithKeeps
    <3>3. recent'[t.crt] = [by |-> r, expiresAt |-> now + Window]
      BY <2>1, <2>2, <1>t
    <3> QED BY <3>1, <3>2, <3>3, <2>3
  <2>4. CASE q # r
    <3>1. call'[q] = call[q] /\ started'[q] = started[q] /\ Leads(q)
      BY <2>1, <2>4, <1>t DEF Leads
    <3>2. recent[call[q].crt] = E(started[q])
      BY <3>1, <2>1, <1>k DEF Keeps
    <3>3. call[q].crt # t.crt
      <4>1. now < started[q] + Window
        BY <2>1, <3>1
      <4> QED BY <3>2, <4>1, <2>1, <1>e DEF Hit
    <3>4. call[q].crt \in Origin
      BY <3>1, <1>c, <1>l
    <3>5. recent'[call[q].crt] = recent[call[q].crt]
      BY <2>1, <3>3, <3>4, <1>t
    <3> QED BY <3>1, <3>2, <3>5
  <2> QED BY <2>3, <2>4
\* A refresh of r moves on, without failing.
<1>m. ASSUME NEW r \in Request, flight[r] \in InFlight, NEW f,
             flight' = [flight EXCEPT ![r] = f],
             call' \in {call, Answered(r)},
             UNCHANGED <<started, recent, fate, now>>
      PROVE  recent'[call'[q].crt] = E(started'[q])
  <2>1. Leads(q)
    BY <1>m, <1>t DEF Leads
  <2>2. call'[q].crt = call[q].crt
    BY <1>m, <2>1, <1>c, <1>l, AnsweredKeeps
  <2> QED BY <1>m, <2>1, <2>2, <1>u, <1>t
<1>4. ASSUME NEW r \in Request, CreatioAccepts(r)
      PROVE  recent'[call'[q].crt] = E(started'[q])
  BY <1>4, <1>m DEF CreatioAccepts, InFlight
<1>5. ASSUME NEW r \in Request, CreatioRefuses(r)
      PROVE  recent'[call'[q].crt] = E(started'[q])
  BY <1>5, <1>m DEF CreatioRefuses, InFlight
<1>6. ASSUME NEW r \in Request, Resolve(r)
      PROVE  recent'[call'[q].crt] = E(started'[q])
  BY <1>6, <1>m DEF Resolve, InFlight
<1>7. ASSUME NEW r \in Request, Fail(r)
      PROVE  recent'[call'[q].crt] = E(started'[q])
  <2> DEFINE c == call[r].crt
  <2>1. /\ flight[r] # "none"
        /\ recent' = [recent EXCEPT ![c] = None]
        /\ fate' = IF recent[c] # None /\ recent[c].by # r
                   THEN [fate EXCEPT ![c] = @ \cup {"stale"}] ELSE fate
        /\ flight' = [flight EXCEPT ![r] = "failed"]
        /\ call' = Answered(r)
        /\ UNCHANGED <<started, now>>
    BY <1>7 DEF Fail, InFlight
  <2>2. Leads(q) /\ q # r
    BY <2>1, <1>t DEF Leads, InFlight
  <2>3. call'[q].crt = call[q].crt /\ call[q].crt \in Origin
    BY <2>1, <2>2, <1>c, <1>l, AnsweredKeeps
  <2>4. fate[call[q].crt] = {}
    BY <2>1, <2>3, <1>t
  <2>5. recent[call[q].crt] = E(started[q])
    BY <2>1, <2>2, <2>4, <1>k DEF Keeps
  <2>6. call[q].crt # c
    <3>1. SUFFICES ASSUME call[q].crt = c
                   PROVE  FALSE
      OBVIOUS
    <3>2. recent[c] # None /\ recent[c].by # r
      BY <3>1, <2>2, <2>5, <1>e
    <3>3. "stale" \in fate'[c]
      BY <3>1, <3>2, <2>1, <2>3, <1>t
    <3> QED BY <3>1, <3>3, <2>3
  <2> QED BY <2>1, <2>3, <2>5, <2>6, <1>t
<1>8. ASSUME NEW t \in rts, Revoke(t)
      PROVE  recent'[call'[q].crt] = E(started'[q])
  <2>1. /\ recent' = [recent EXCEPT ![t.crt] = None]
        /\ fate' = [fate EXCEPT ![t.crt] = @ \cup {"forgotten"}]
        /\ UNCHANGED <<call, flight, started, now>>
    BY <1>8 DEF Revoke
  <2>2. Leads(q)
    BY <2>1 DEF Leads
  <2>3. call[q].crt \in Origin
    BY <2>2, <1>c, <1>l
  <2>4. call[q].crt # t.crt
    BY <2>1, <2>3, <1>t
  <2>5. /\ recent'[call[q].crt] = recent[call[q].crt]
        /\ fate'[call[q].crt] = fate[call[q].crt]
    BY <2>1, <2>3, <2>4, <1>t
  <2> QED BY <2>1, <2>2, <2>5, <1>u, <1>t
<1>9. ASSUME NEW c \in revoking, NEW worked \in BOOLEAN, RevokeEnds(c, worked)
      PROVE  recent'[call'[q].crt] = E(started'[q])
  <2>1. /\ fate' = IF worked THEN [fate EXCEPT ![c] = @ \cup {"revoked"}]
                             ELSE fate
        /\ UNCHANGED <<call, flight, started, recent, now>>
    BY <1>9 DEF RevokeEnds
  <2>2. Leads(q)
    BY <2>1 DEF Leads
  <2>3. call[q].crt \in Origin
    BY <2>2, <1>c, <1>l
  <2>4. fate[call[q].crt] \subseteq fate'[call[q].crt]
    BY <2>1, <2>3, <1>t
  <2> QED BY <2>1, <2>2, <2>4, <1>u, <1>t
<1>10. CASE Cleanup
  <2>1. Leads(q) /\ UNCHANGED <<call, flight, started, fate, now>>
    BY <1>10 DEF Cleanup, Leads
  <2>2. call[q].crt \in Origin
    BY <2>1, <1>c, <1>l
  <2>3. recent'[call[q].crt] = IF /\ recent[call[q].crt] # None
                                  /\ now >= recent[call[q].crt].expiresAt
                               THEN None ELSE recent[call[q].crt]
    BY <1>10, <2>2 DEF Cleanup
  <2>4. recent[call[q].crt] = E(started[q])
    BY <2>1, <1>k DEF Keeps
  <2>5. ~(now >= recent[call[q].crt].expiresAt)
    <3>1. now < started[q] + Window
      BY <2>1
    <3> QED BY <2>4, <3>1, <1>t
  <2> QED BY <2>1, <2>3, <2>4, <2>5
<1>11. CASE Restart
  <2>1. /\ Leads(q)
        /\ call[q] # None => call'[q] = Settled(call[q])
    BY <1>11, <1>t DEF Restart, Leads, InFlight
  <2>2. call[q] # None /\ call[q].crt \in Origin
    BY <2>1, <1>c, <1>l
  <2>3. Settled(call[q]).crt = call[q].crt
    <3>1. ASSUME NEW d \in Call
          PROVE  Settled(d).crt = d.crt
      BY DEF Settled, Call
    <3> QED BY <3>1, <2>2, <1>t
  <2>4. fate[call[q].crt] = {} /\ recent[call[q].crt] = None
    BY <1>11, <2>1, <2>2, <2>3, <1>t DEF Restart
  <2>5. started' = started /\ now' = now
    BY <1>11 DEF Restart
  <2> QED BY <2>1, <2>4, <2>5, <1>k, <1>e DEF Keeps
<1>12. CASE Tick
  BY <1>12, <1>u, <1>t DEF Tick, Leads
<1> QED
  <2>1. ASSUME NEW r \in Request, NEW t \in rts, Replay(r, t) \/ Join(r, t)
        PROVE  recent'[call'[q].crt] = E(started'[q])
    BY <2>1, <1>2 DEF Replay, Join
  <2>2. ASSUME NEW l \in Login, LogIn(l)
        PROVE  recent'[call'[q].crt] = E(started'[q])
    BY <2>2, <1>1 DEF LogIn
  <2>3. CASE UNCHANGED vars
    BY <2>3, <1>1 DEF vars
  <2> QED
    BY <2>1, <2>2, <2>3, <1>3, <1>4, <1>5, <1>6, <1>7, <1>8, <1>9, <1>10,
       <1>11, <1>12 DEF Next

-----------------------------------------------------------------------------
(* The theorems. *)

LEMMA InitInvariant == Init => IInv
<1> SUFFICES ASSUME Init
             PROVE  IInv
  OBVIOUS
<1> USE OriginAssumption, DurationAssumption DEF Init
<1>1. TypeOK
  BY DEF TypeOK
<1>2. NoCachedFailure /\ OwnSession
  BY DEF NoCachedFailure, OwnSession
<1>3. Lineage
  BY DEF Lineage, Descends, Origin
<1>4. WindowKept
  BY DEF WindowKept, Keeps, Leads, InFlight
<1> QED BY <1>1, <1>2, <1>3, <1>4 DEF IInv

LEMMA InductiveInvariant == Spec => []IInv
<1>1. IInv /\ [Next]_vars => IInv'
  BY TypeStep, EntryStep, SessionStep, LineageStep, WindowStep DEF IInv
<1> QED BY <1>1, InitInvariant, PTL DEF Spec

\* The variables of RefreshWindow have the types its header declares.
THEOREM TypeCorrect == Spec => []TypeOK
<1>1. IInv => TypeOK
  BY DEF IInv
<1> QED BY <1>1, InductiveInvariant, PTL

\* No /token request finds a failed refresh in the window.
THEOREM FailureNeverCached == Spec => []NoCachedFailure
<1>1. IInv => NoCachedFailure
  BY DEF IInv
<1> QED BY <1>1, InductiveInvariant, PTL

\* Sharing refreshes never answers a user with another user's session.
THEOREM SessionsApart == Spec => []OwnSession
<1>1. IInv => OwnSession
  BY DEF IInv
<1> QED BY <1>1, InductiveInvariant, PTL

\* A refresh token is spent once per window, but for the listed exceptions.
THEOREM RefreshSpentOnce == Spec => SpentOnce
<1>1. ASSUME IInv, [Next]_vars
      PROVE  [\A r, q \in Request : Respends(r, q) => fate[call'[r].crt] # {}]_vars
  <2> SUFFICES ASSUME NEW r \in Request, NEW q \in Request, Respends(r, q),
                      fate[call'[r].crt] = {}
               PROVE  FALSE
    OBVIOUS
  <2>1. PICK s \in Request, t \in rts : Start(s, t)
    <3>1. flight[r] = "none" /\ flight'[r] = "sent"
      BY DEF Respends
    <3>2. flight \in [Request -> InFlight \cup {"none", "ok", "failed"}]
      BY <1>1 DEF IInv, TypeOK
    <3> QED
      BY <1>1, <3>1, <3>2
         DEF Next, vars, LogIn, Replay, Join, CreatioAccepts, CreatioRefuses,
             Resolve, Fail, Revoke, RevokeEnds, Cleanup, Restart, Tick, InFlight
  <2>2. call'[r].crt = t.crt
    <3>1. s = r
      BY <2>1, <1>1 DEF Start, Respends, IInv, TypeOK
    <3>2. call'[r] = CallWith(t, r, FALSE)
      BY <2>1, <3>1, <1>1 DEF Start, IInv, TypeOK
    <3>3. CallWith(t, r, FALSE).crt = t.crt
      BY <1>1, CallWithKeeps DEF IInv
    <3> QED BY <3>2, <3>3
  <2>3. recent[t.crt] = [by |-> q, expiresAt |-> started[q] + Window]
    BY <1>1, <2>2 DEF Respends, IInv, WindowKept, Keeps, Leads
  <2>4. recent[t.crt] # None
    <3>1. [by |-> q, expiresAt |-> started[q] + Window]
             \in [by : Request, expiresAt : Nat]
      BY <1>1, DurationAssumption DEF IInv, TypeOK
    <3> QED BY <2>3, <3>1, OriginAssumption
  <2>5. Hit(t.crt)
    BY <2>3, <2>4 DEF Hit, Respends
  <2> QED BY <2>1, <2>5 DEF Start
<1> QED BY <1>1, InductiveInvariant, PTL DEF Spec, SpentOnce
-----------------------------------------------------------------------------
(* Nobody waits for nothing: what RequestsAnswered needs besides fairness. *)

AwaitsFlight ==
    \A w \in Request :
        (call[w] # None /\ ~call[w].done) => flight[call[w].leader] \in InFlight

LEMMA Answers ==
    ASSUME TypeOK, AwaitsFlight, NEW r \in Request,
           NEW f, flight' = [flight EXCEPT ![r] = f], call' = Answered(r)
    PROVE  AwaitsFlight'
<1> SUFFICES ASSUME NEW w \in Request, call'[w] # None, ~call'[w].done
             PROVE  flight'[call'[w].leader] \in InFlight
  BY DEF AwaitsFlight
<1>1. w \notin Waiting(r)
  <2>1. CASE w \in Waiting(r)
    <3>1. call[w] \in Call /\ call'[w] = Settled(call[w])
      BY <2>1 DEF Answered, Waiting, TypeOK
    <3>2. call'[w].done = TRUE
      BY <3>1 DEF Settled, Call
    <3> QED BY <3>2
  <2> QED BY <2>1
<1>2. call'[w] = call[w]
  BY <1>1 DEF Answered
<1>3. call[w].leader # r
  BY <1>1, <1>2 DEF Waiting
<1>4. call[w].leader \in Request
  BY <1>2, OriginAssumption DEF TypeOK, Call
<1> QED BY <1>2, <1>3, <1>4 DEF AwaitsFlight, TypeOK

LEMMA AwaitsStep == TypeOK /\ AwaitsFlight /\ [Next]_vars => AwaitsFlight'
<1> SUFFICES ASSUME TypeOK, AwaitsFlight, [Next]_vars
             PROVE  AwaitsFlight'
  OBVIOUS
<1>1. CASE UNCHANGED <<call, flight>>
  BY <1>1 DEF AwaitsFlight
<1>2. ASSUME NEW r \in Request, NEW t \in rts, Replay(r, t)
      PROVE  AwaitsFlight'
  BY <1>2 DEF Replay, CallWith, AwaitsFlight, TypeOK
<1>3. ASSUME NEW r \in Request, NEW t \in rts, Join(r, t)
      PROVE  AwaitsFlight'
  BY <1>3 DEF Join, CallWith, AwaitsFlight, TypeOK
<1>4. ASSUME NEW r \in Request, NEW t \in rts, Start(r, t)
      PROVE  AwaitsFlight'
  BY <1>4 DEF Start, CallWith, AwaitsFlight, TypeOK, InFlight
<1>5. ASSUME NEW r \in Request, CreatioAccepts(r) \/ CreatioRefuses(r)
      PROVE  AwaitsFlight'
  <2>1. /\ call' = call
        /\ \A q \in Request : flight[q] \in InFlight => flight'[q] \in InFlight
    BY <1>5 DEF CreatioAccepts, CreatioRefuses, TypeOK, InFlight
  <2>2. \A w \in Request : call[w] # None => call[w].leader \in Request
    BY DEF TypeOK, Call
  <2> QED BY <2>1, <2>2 DEF AwaitsFlight
<1>6. ASSUME NEW r \in Request, Resolve(r) \/ Fail(r)
      PROVE  AwaitsFlight'
  BY <1>6, Answers DEF Resolve, Fail
<1>7. CASE Restart
  <2>1. \A w \in Request : call'[w] # None => call'[w].done = TRUE
    BY <1>7 DEF Restart, Settled, TypeOK, Call
  <2> QED BY <2>1 DEF AwaitsFlight
<1>8. ASSUME NEW l \in Login, LogIn(l)
      PROVE  UNCHANGED <<call, flight>>
  BY <1>8 DEF LogIn
<1>9. ASSUME NEW t \in rts, Revoke(t)
      PROVE  UNCHANGED <<call, flight>>
  BY <1>9 DEF Revoke
<1>10. ASSUME NEW c \in revoking, NEW worked \in BOOLEAN, RevokeEnds(c, worked)
       PROVE  UNCHANGED <<call, flight>>
  BY <1>10 DEF RevokeEnds
<1>11. CASE Cleanup \/ Tick \/ UNCHANGED vars
  BY <1>1, <1>11 DEF Cleanup, Tick, vars
<1> QED
  BY <1>1, <1>2, <1>3, <1>4, <1>5, <1>6, <1>7, <1>8, <1>9, <1>10, <1>11 DEF Next

\* exchangeRefreshToken: whoever awaits a shared refresh awaits one that is in flight,
\* although its entry may have been forgotten, replaced or deleted by an older failure:
\* no request is left with a promise that has settled, or that nobody will settle.
THEOREM NobodyStranded == Spec => []AwaitsFlight
<1>1. Init => AwaitsFlight
  BY DEF Init, AwaitsFlight
<1> QED BY <1>1, AwaitsStep, TypeCorrect, PTL DEF Spec

-----------------------------------------------------------------------------
(* RefreshWindow implements SharedRefresh. *)

\* An entry expires a window after the refresh it stands for was started.
EntryDated ==
    \A c \in Origin :
        recent[c] # None => recent[c].expiresAt = started[recent[c].by] + Window

LEMMA DatedStep == IInv /\ EntryDated /\ [Next]_vars => EntryDated'
<1> SUFFICES ASSUME IInv, EntryDated, [Next]_vars
             PROVE  EntryDated'
  OBVIOUS
<1>t. /\ recent \in [Origin -> Entry \cup {None}] /\ started \in [Request -> Nat]
      /\ call \in [Request -> Call \cup {None}]
  BY DEF IInv, TypeOK
<1>u. ASSUME started' = started, \A c \in Origin : recent'[c] \in {recent[c], None}
      PROVE  EntryDated'
  BY <1>u DEF EntryDated
<1>1. ASSUME NEW r \in Request, NEW t \in rts, Start(r, t)
      PROVE  EntryDated'
  <2>1. /\ call[r] = None /\ t.crt \in Origin
        /\ started' = [started EXCEPT ![r] = now]
        /\ recent' = [recent EXCEPT ![t.crt] =
              [by |-> r, expiresAt |-> now + Window]]
    BY <1>1, Components DEF Start, IInv
  <2>2. \A c \in Origin : recent[c] # None =>
           recent[c].by # r /\ recent[c].by \in Request
    BY <2>1, Fresh, Components DEF IInv
  <2>3. ASSUME NEW c \in Origin, recent'[c] # None
        PROVE  recent'[c].expiresAt = started'[recent'[c].by] + Window
    <3>1. CASE c = t.crt
      BY <3>1, <2>1, <1>t
    <3>2. CASE c # t.crt
      <4>1. recent'[c] = recent[c]
        BY <3>2, <2>1, <1>t
      <4>2. started'[recent[c].by] = started[recent[c].by]
        BY <4>1, <2>1, <2>2, <2>3, <1>t
      <4> QED BY <4>1, <4>2, <2>3 DEF EntryDated
    <3> QED BY <3>1, <3>2
  <2> QED BY <2>3 DEF EntryDated
<1>2. ASSUME NEW r \in Request, Fail(r)
      PROVE  EntryDated'
  BY <1>2, <1>u, <1>t DEF Fail
<1>3. ASSUME NEW t \in rts, Revoke(t)
      PROVE  EntryDated'
  BY <1>3, <1>u, <1>t DEF Revoke
<1>4. CASE Cleanup \/ Restart
  BY <1>4, <1>u DEF Cleanup, Restart
<1>5. CASE UNCHANGED <<started, recent>>
  BY <1>5, <1>u
<1> QED
  BY <1>1, <1>2, <1>3, <1>4, <1>5
     DEF Next, vars, LogIn, Replay, Join, CreatioAccepts, CreatioRefuses, Resolve,
         RevokeEnds, Tick

LEMMA DatedHolds == Spec => [](IInv /\ EntryDated)
<1>1. Init => EntryDated
  BY DEF Init, EntryDated
<1> QED BY <1>1, DatedStep, InductiveInvariant, PTL DEF Spec

\* What SharedRefresh sees of a request.
LEMMA SeenOf ==
    ASSUME NEW r \in Request
    PROVE  /\ call[r] = None => Asked[r] = None /\ Shares[r] = None
           /\ call[r] # None =>
                 /\ Asked[r] = [session |-> call[r].sub, token |-> call[r].crt]
                 /\ Shares[r] = call[r].leader
           /\ flight[r] \in InFlight => Refreshes[r] = "open"
           /\ flight[r] \notin InFlight => Refreshes[r] = flight[r]
           /\ r \in Replied <=> (call[r] # None /\ call[r].done)
  BY DEF Asked, Shares, Refreshes, Replied

\* A refresh that leads can be shared by what presents its token within the window;
\* nothing else can.
LEMMA SharedLeads ==
    ASSUME IInv, NEW q \in Request, NEW c
    PROVE  Shared!Shareable(q, c) <=>
              Leads(q) /\ call[q].crt = c /\ now < started[q] + Window
<1>1. Refreshes[q] \in {"open", "ok"} <=> Leads(q)
  <2>1. flight[q] \in InFlight \cup {"none", "ok", "failed"}
    BY DEF IInv, TypeOK
  <2> QED BY <2>1, SeenOf DEF Leads, InFlight
<1>2. Leads(q) => Asked[q].token = call[q].crt
  <2>1. Leads(q) => call[q] # None
    BY DEF Leads, InFlight, IInv, Lineage, Descends
  <2>2. call[q] # None => Asked[q] = [session |-> call[q].sub, token |-> call[q].crt]
    BY SeenOf
  <2> QED BY <2>1, <2>2
<1> QED BY <1>1, <1>2 DEF Shared!Shareable

\* The refresh an entry of the window stands for is there to be shared by what
\* presents the token, and only by the session of that token.
LEMMA HitShares ==
    ASSUME IInv, EntryDated, NEW t \in rts, Hit(t.crt)
    PROVE  LET q == recent[t.crt].by IN
             /\ q \in Request
             /\ call[q] # None
             /\ Asked[q] = [session |-> t.sub, token |-> t.crt]
             /\ Shared!Shareable(q, t.crt)
<1> DEFINE c == t.crt
           q == recent[c].by
<1>1. c \in Origin /\ recent[c] # None /\ now < recent[c].expiresAt
  BY Components DEF Hit, IInv
<1>2. q \in Request
  BY <1>1, Components DEF IInv
<1>3. Leads(q) /\ call[q] # None /\ call[q].crt = c
  BY <1>1 DEF IInv, NoCachedFailure, Leads
<1>4. now < started[q] + Window
  BY <1>1 DEF EntryDated
<1>5. call[q].sub = t.sub
  BY <1>2, <1>3 DEF IInv, Lineage, Descends, OwnSession
<1>6. Asked[q] = [session |-> t.sub, token |-> c]
  BY <1>2, <1>3, <1>5, SeenOf
<1>7. Shared!Shareable(q, c)
  BY <1>2, <1>3, <1>4, SharedLeads
<1> QED BY <1>2, <1>3, <1>6, <1>7

\* The request r with the token t arrives and follows q.
Arrives(r, t, q, done) ==
    call[r] = None /\ call' = [call EXCEPT ![r] = CallWith(t, q, done)]

LEMMA ArrivalSeen ==
    ASSUME IInv, NEW r \in Request, NEW t \in rts, NEW q \in Request,
           NEW done \in BOOLEAN, Arrives(r, t, q, done)
    PROVE  /\ Shared!Present(r)
           /\ Asked'[r] = [session |-> t.sub, token |-> t.crt]
           /\ Shares' = [Shares EXCEPT ![r] = q]
           /\ Replied' = IF done THEN Replied \cup {r} ELSE Replied
<1> DEFINE d == [session |-> t.sub, token |-> t.crt]
<1>1. call \in [Request -> Call \cup {None}]
  BY DEF IInv, TypeOK
<1>2. /\ call[r] = None
      /\ call' = [call EXCEPT ![r] = CallWith(t, q, done)]
  BY DEF Arrives
<1>3. /\ call'[r] # None /\ call'[r].sub = t.sub /\ call'[r].crt = t.crt
      /\ call'[r].leader = q /\ call'[r].done = done
  <2>1. call'[r] = CallWith(t, q, done)
    BY <1>1, <1>2
  <2>2. CallWith(t, q, done).done = done
    BY DEF CallWith
  <2> QED BY <2>1, <2>2, CallWithKeeps DEF IInv
<1>4. \A w \in Request : w # r => call'[w] = call[w]
  BY <1>1, <1>2
<1>5. Asked'[r] = d /\ Shares'[r] = q
  BY <1>3 DEF Asked, Shares
<1>6. Asked[r] = None
  BY <1>2, SeenOf
<1>7. Asked' = [Asked EXCEPT ![r] = d]
  <2>1. \A w \in Request : Asked'[w] = IF w = r THEN d ELSE Asked[w]
    BY <1>4, <1>5 DEF Asked
  <2> QED BY <2>1 DEF Asked
<1>8. Shares' = [Shares EXCEPT ![r] = q]
  <2>1. \A w \in Request : Shares'[w] = IF w = r THEN q ELSE Shares[w]
    BY <1>4, <1>5 DEF Shares
  <2> QED BY <2>1 DEF Shares
<1>9. Replied' = IF done THEN Replied \cup {r} ELSE Replied
  BY <1>2, <1>3, <1>4 DEF Replied
<1>10. d \in [session : Login, token : Origin]
  BY Components DEF IInv
<1>11. Shared!Present(r)
  BY <1>5, <1>6, <1>7, <1>10 DEF Shared!Present
<1> QED BY <1>5, <1>8, <1>9, <1>11

\* What SharedRefresh sees of the settling of the refresh of r.
LEMMA SettlingSeen ==
    ASSUME IInv, NEW r \in Request, flight[r] \in InFlight, NEW f,
           f \notin InFlight, flight' = [flight EXCEPT ![r] = f], call' = Answered(r)
    PROVE  /\ Refreshes[r] = "open"
           /\ Refreshes' = [Refreshes EXCEPT ![r] = f]
           /\ Asked' = Asked /\ Shares' = Shares
           /\ Replied' = Replied \cup Shared!Sharing(r)
<1>1. \A w \in Request :
         /\ call'[w] = None <=> call[w] = None
         /\ call[w] # None => /\ call'[w].sub = call[w].sub
                              /\ call'[w].crt = call[w].crt
                              /\ call'[w].leader = call[w].leader
  BY AnsweredKeeps
<1>2. Asked' = Asked /\ Shares' = Shares
  BY <1>1 DEF Asked, Shares
<1>3. Refreshes' = [Refreshes EXCEPT ![r] = f]
  <2>1. flight \in [Request -> InFlight \cup {"none", "ok", "failed"}]
    BY DEF IInv, TypeOK
  <2>2. \A q \in Request : flight'[q] = IF q = r THEN f ELSE flight[q]
    BY <2>1
  <2>3. \A q \in Request : Refreshes'[q] = IF q = r THEN f ELSE Refreshes[q]
    BY <2>2 DEF Refreshes
  <2> QED BY <2>3 DEF Refreshes
<1>4. ASSUME NEW w \in Request
      PROVE  w \in Replied' <=> w \in Replied \/ w \in Shared!Sharing(r)
  <2>1. w \in Replied' <=> (call'[w] # None /\ call'[w].done)
    BY DEF Replied
  <2>2. w \in Shared!Sharing(r) <=> (call[w] # None /\ call[w].leader = r)
    <3>1. None \notin Request
      BY OriginAssumption DEF Origin
    <3> QED BY <3>1, SeenOf DEF Shared!Sharing
  <2>3. CASE w \in Waiting(r)
    <3>1. call[w] \in Call /\ call'[w] = Settled(call[w])
      BY <2>3 DEF Answered, Waiting, IInv, TypeOK
    <3>2. call'[w].done
      BY <3>1 DEF Settled, Call
    <3>3. call[w] # None /\ call[w].leader = r
      BY <2>3 DEF Waiting
    <3> QED BY <3>2, <3>3, <2>1, <2>2, <1>1
  <2>4. CASE w \notin Waiting(r)
    <3>1. call'[w] = call[w]
      BY <2>4 DEF Answered
    <3>2. call[w] # None /\ call[w].leader = r => call[w].done
      BY <2>4 DEF Waiting
    <3> QED BY <3>1, <3>2, <2>1, <2>2, SeenOf
  <2> QED BY <2>3, <2>4
<1>5. Replied' \subseteq Request /\ Replied \subseteq Request
        /\ Shared!Sharing(r) \subseteq Request
  BY DEF Replied, Shared!Sharing
<1>6. Replied' = Replied \cup Shared!Sharing(r)
  BY <1>4, <1>5
<1> QED BY <1>2, <1>3, <1>6, SeenOf

\* Every step of the window is one of the promise, or none.
LEMMA StepShared ==
    ASSUME IInv, EntryDated, [Next]_vars
    PROVE  [Shared!Next]_(Shared!vars)
<1> USE OriginAssumption
<1> DEFINE seen == <<Asked, Shares, Refreshes, Replied>>
<1>t. /\ call \in [Request -> Call \cup {None}]
      /\ flight \in [Request -> InFlight \cup {"none", "ok", "failed"}]
      /\ recent \in [Origin -> Entry \cup {None}]
      /\ fate \in [Origin -> SUBSET {"stale", "forgotten", "revoked", "restart"}]
  BY DEF IInv, TypeOK
<1>q. call' = call => Asked' = Asked /\ Shares' = Shares /\ Replied' = Replied
  BY DEF Asked, Shares, Replied
<1>f. flight' = flight => Refreshes' = Refreshes
  BY DEF Refreshes
<1>e. fate' = fate => Excused' = Excused
  BY DEF Excused
\* Nothing the promise speaks of changes.
<1>u. ASSUME UNCHANGED <<now, call, started, fate>>, Refreshes' = Refreshes
      PROVE  UNCHANGED Shared!vars
  BY <1>u, <1>q, <1>e DEF Shared!vars
<1>m. ASSUME NEW r \in Request, flight[r] \in InFlight, NEW f \in InFlight,
             flight' = [flight EXCEPT ![r] = f]
      PROVE  Refreshes' = Refreshes
  <2>1. \A q \in Request : flight'[q] = IF q = r THEN f ELSE flight[q]
    BY <1>m, <1>t
  <2> QED BY <2>1, <1>m DEF Refreshes
\* A token is revoked.
<1>x. ASSUME NEW c \in Origin, NEW x,
             fate' = [fate EXCEPT ![c] = @ \cup {x}],
             UNCHANGED <<now, call, flight, started>>
      PROVE  Shared!Next
  <2>1. \A g \in Origin : fate'[g] = IF g = c THEN fate[g] \cup {x} ELSE fate[g]
    BY <1>x, <1>t
  <2>2. Excused' = Excused \cup {c}
    BY <2>1 DEF Excused
  <2>3. Shared!Revoke(c)
    BY <1>x, <1>q, <1>f, <2>2 DEF Shared!Revoke
  <2> QED BY <2>3 DEF Shared!Next
<1>1. ASSUME NEW r \in Request, NEW t \in rts, Replay(r, t)
      PROVE  Shared!Next
  <2> DEFINE q == recent[t.crt].by
  <2>1. /\ Hit(t.crt) /\ flight[q] = "ok" /\ Arrives(r, t, q, TRUE)
        /\ UNCHANGED <<now, flight, started, fate>>
    BY <1>1 DEF Replay, Arrives
  <2>2. /\ q \in Request /\ Asked[q] = [session |-> t.sub, token |-> t.crt]
        /\ Shared!Shareable(q, t.crt)
    BY <2>1, HitShares
  <2>3. /\ Shared!Present(r) /\ Asked'[r] = [session |-> t.sub, token |-> t.crt]
        /\ Shares' = [Shares EXCEPT ![r] = q] /\ Replied' = Replied \cup {r}
    BY <2>1, <2>2, ArrivalSeen
  <2>4. Refreshes[q] = "ok"
    BY <2>1, <2>2, SeenOf DEF InFlight
  <2>5. Asked[q].token = t.crt
    BY <2>2
  <2>6. Shared!Share(r, q)
    BY <2>1, <2>2, <2>3, <2>4, <2>5, <1>f, <1>e DEF Shared!Share
  <2> QED BY <2>2, <2>3, <2>6 DEF Shared!Next
<1>2. ASSUME NEW r \in Request, NEW t \in rts, Join(r, t)
      PROVE  Shared!Next
  <2> DEFINE q == recent[t.crt].by
  <2>1. /\ Hit(t.crt) /\ flight[q] \in InFlight /\ Arrives(r, t, q, FALSE)
        /\ UNCHANGED <<now, flight, started, fate>>
    BY <1>2 DEF Join, Arrives
  <2>2. /\ q \in Request /\ Asked[q] = [session |-> t.sub, token |-> t.crt]
        /\ Shared!Shareable(q, t.crt)
    BY <2>1, HitShares
  <2>3. /\ Shared!Present(r) /\ Asked'[r] = [session |-> t.sub, token |-> t.crt]
        /\ Shares' = [Shares EXCEPT ![r] = q] /\ Replied' = Replied
    BY <2>1, <2>2, ArrivalSeen
  <2>4. Refreshes[q] = "open"
    BY <2>1, <2>2, SeenOf
  <2>5. Asked[q].token = t.crt
    BY <2>2
  <2>6. Shared!Share(r, q)
    BY <2>1, <2>2, <2>3, <2>4, <2>5, <1>f, <1>e DEF Shared!Share
  <2> QED BY <2>2, <2>3, <2>6 DEF Shared!Next
<1>3. ASSUME NEW r \in Request, NEW t \in rts, Start(r, t)
      PROVE  Shared!Next
  <2> DEFINE c == t.crt
  <2>1. /\ ~Hit(c) /\ Arrives(r, t, r, FALSE)
        /\ flight' = [flight EXCEPT ![r] = "sent"]
        /\ started' = [started EXCEPT ![r] = now]
        /\ UNCHANGED <<now, fate>>
    BY <1>3 DEF Start, Arrives
  <2>2. /\ Shared!Present(r) /\ Asked'[r] = [session |-> t.sub, token |-> c]
        /\ Shares' = [Shares EXCEPT ![r] = r] /\ Replied' = Replied
    BY <2>1, ArrivalSeen
  <2>3. Asked'[r].token = c
    BY <2>2
  <2>4. c \in Origin
    BY Components DEF IInv
  <2>5. c \in Excused \/ \A q \in Request : ~Shared!Shareable(q, c)
    <3>1. SUFFICES ASSUME fate[c] = {}, NEW q \in Request, Shared!Shareable(q, c)
                   PROVE  Hit(c)
      BY <2>1, <2>4 DEF Excused
    <3>2. Leads(q) /\ call[q].crt = c /\ now < started[q] + Window
      BY <3>1, SharedLeads
    <3>3. recent[c] = [by |-> q, expiresAt |-> started[q] + Window]
      BY <3>1, <3>2 DEF IInv, WindowKept, Keeps
    <3>4. [by |-> q, expiresAt |-> started[q] + Window] \in [by : Request, expiresAt : Nat]
      BY DurationAssumption DEF IInv, TypeOK
    <3> QED BY <3>2, <3>3, <3>4 DEF Hit
  <2>6. Refreshes' = [Refreshes EXCEPT ![r] = "open"]
    <3>1. \A q \in Request : flight'[q] = IF q = r THEN "sent" ELSE flight[q]
      BY <2>1, <1>t
    <3>2. \A q \in Request : Refreshes'[q] = IF q = r THEN "open" ELSE Refreshes[q]
      BY <3>1 DEF Refreshes, InFlight
    <3> QED BY <3>2 DEF Refreshes
  <2>7. Shared!Spend(r)
    BY <2>1, <2>2, <2>3, <2>5, <2>6, <1>e DEF Shared!Spend
  <2> QED BY <2>2, <2>7 DEF Shared!Next
<1>4. ASSUME NEW r \in Request, Resolve(r)
      PROVE  Shared!Next
  <2>1. /\ flight[r] \in InFlight /\ "ok" \notin InFlight
        /\ flight' = [flight EXCEPT ![r] = "ok"] /\ call' = Answered(r)
        /\ UNCHANGED <<now, started, fate>>
    BY <1>4 DEF Resolve, InFlight
  <2>2. /\ Refreshes[r] = "open" /\ Refreshes' = [Refreshes EXCEPT ![r] = "ok"]
        /\ Asked' = Asked /\ Shares' = Shares
        /\ Replied' = Replied \cup Shared!Sharing(r)
    BY <2>1, SettlingSeen
  <2>3. Shared!Succeed(r)
    BY <2>1, <2>2, <1>e DEF Shared!Succeed
  <2> QED BY <2>3 DEF Shared!Next
<1>5. ASSUME NEW r \in Request, Fail(r)
      PROVE  Shared!Next
  <2> DEFINE c == call[r].crt
  <2>1. /\ flight[r] \in InFlight /\ "failed" \notin InFlight
        /\ flight' = [flight EXCEPT ![r] = "failed"] /\ call' = Answered(r)
        /\ fate' = IF recent[c] # None /\ recent[c].by # r
                   THEN [fate EXCEPT ![c] = @ \cup {"stale"}] ELSE fate
        /\ UNCHANGED <<now, started>>
    BY <1>5 DEF Fail, InFlight
  <2>2. /\ Refreshes[r] = "open" /\ Refreshes' = [Refreshes EXCEPT ![r] = "failed"]
        /\ Asked' = Asked /\ Shares' = Shares
        /\ Replied' = Replied \cup Shared!Sharing(r)
    BY <2>1, SettlingSeen
  <2>3. call[r] # None /\ c \in Origin
    BY <2>1, Components DEF IInv, Lineage, Descends, InFlight
  <2>4. Asked[r].token = c
    <3>1. Asked[r] = [session |-> call[r].sub, token |-> c]
      BY <2>3, SeenOf
    <3> QED BY <3>1
  <2>5. CASE recent[c] # None /\ recent[c].by # r
    <3> DEFINE p == recent[c].by
    <3>1. p \in Request /\ Leads(p) /\ call[p] # None /\ call[p].crt = c
      BY <2>3, <2>5, Components DEF IInv, NoCachedFailure, Leads
    <3>2. Refreshes[p] \in {"open", "ok"}
      BY <3>1, SeenOf DEF Leads
    <3>3. Asked[p] = [session |-> call[p].sub, token |-> c]
      BY <3>1, SeenOf
    <3>4. Asked[p].token = Asked[r].token
      BY <3>3, <2>4
    <3>5. Asked[p] # None
      <4>1. call[p].sub \in Login
        BY <3>1, Components DEF IInv
      <4> QED BY <3>3, <4>1, <2>3, OriginAssumption
    <3>6. Excused' = Excused \cup {Asked[r].token}
      <4>1. \A g \in Origin :
               fate'[g] = IF g = c THEN fate[g] \cup {"stale"} ELSE fate[g]
        BY <2>1, <2>5, <1>t
      <4>2. Excused' = Excused \cup {c}
        BY <4>1, <2>3 DEF Excused
      <4> QED BY <4>2, <2>4
    <3>7. p \in Request \ {r}
      BY <3>1, <2>5
    <3>8. Shared!Fail(r)
      BY <2>1, <2>2, <3>2, <3>4, <3>5, <3>6, <3>7 DEF Shared!Fail
    <3> QED BY <3>8 DEF Shared!Next
  <2>6. CASE ~(recent[c] # None /\ recent[c].by # r)
    <3>1. Excused' = Excused
      BY <2>1, <2>6, <1>e
    <3>2. Shared!Fail(r)
      BY <2>1, <2>2, <3>1 DEF Shared!Fail
    <3> QED BY <3>2 DEF Shared!Next
  <2> QED BY <2>5, <2>6
<1>6. CASE Restart
  <2>1. \A q \in Request :
           /\ flight'[q] = IF flight[q] \in InFlight THEN "failed" ELSE flight[q]
           /\ call'[q] = IF call[q] = None THEN None ELSE Settled(call[q])
    BY <1>6 DEF Restart
  <2>2. ASSUME NEW q \in Request, call[q] # None
        PROVE  /\ call'[q] # None /\ call'[q].sub = call[q].sub
               /\ call'[q].crt = call[q].crt /\ call'[q].leader = call[q].leader
               /\ call'[q].done
    <3>1. call[q] \in Call /\ call'[q] = Settled(call[q])
      BY <2>1, <2>2, <1>t
    <3>2. Settled(call[q]) \in Call
      BY <3>1 DEF Settled, Call
    <3>3. None \notin Call
      BY OriginAssumption DEF Call
    <3> QED BY <3>1, <3>2, <3>3 DEF Settled, Call
  <2>3. \A q \in Request : call[q] = None => call'[q] = None
    BY <2>1
  <2>4. Asked' = Asked /\ Shares' = Shares
    BY <2>2, <2>3 DEF Asked, Shares
  <2>5. \A q \in Request : call[q] # None => Asked[q] # None
    <3>1. ASSUME NEW q \in Request, call[q] # None
          PROVE  Asked[q] # None
      <4>1. call[q].sub \in Login /\ call[q].crt \in Origin
        BY <3>1, Components DEF IInv
      <4>2. Asked[q] = [session |-> call[q].sub, token |-> call[q].crt]
        BY <3>1, SeenOf
      <4> QED BY <4>1, <4>2, OriginAssumption
    <3> QED BY <3>1
  <2>6. Replied' = {r \in Request : Asked[r] # None}
    BY <2>2, <2>3, <2>5, SeenOf DEF Replied
  <2>7. Refreshes' = [q \in Request |-> IF Refreshes[q] = "open" THEN "failed"
                                       ELSE Refreshes[q]]
    <3>1. \A q \in Request : Refreshes[q] = "open" <=> flight[q] \in InFlight
      BY <1>t, SeenOf DEF InFlight
    <3>2. \A q \in Request : Refreshes'[q] = IF Refreshes[q] = "open" THEN "failed"
                                            ELSE Refreshes[q]
      BY <2>1, <3>1, SeenOf DEF Refreshes, InFlight
    <3> QED BY <3>2 DEF Refreshes
  <2> DEFINE C == {c \in Origin : recent[c] # None}
             P == {Asked[q].token : q \in {p \in Request : Asked[p] # None}}
  <2>8. Excused' = Excused \cup C
    <3>1. \A g \in Origin : fate'[g] = IF recent[g] = None THEN fate[g]
                                      ELSE fate[g] \cup {"restart"}
      BY <1>6 DEF Restart
    <3> QED BY <3>1 DEF Excused
  <2>9. C \in SUBSET P
    <3>1. SUFFICES ASSUME NEW c \in Origin, recent[c] # None
                   PROVE  c \in P
      OBVIOUS
    <3> DEFINE q == recent[c].by
    <3>2. q \in Request /\ call[q] # None /\ call[q].crt = c
      BY <3>1, Components DEF IInv, NoCachedFailure
    <3>3. Asked[q] = [session |-> call[q].sub, token |-> c]
      BY <3>2, SeenOf
    <3>4. Asked[q].token = c /\ Asked[q] # None
      BY <3>2, <3>3, <2>5
    <3> QED BY <3>2, <3>4
  <2>10. UNCHANGED <<now, started>>
    BY <1>6 DEF Restart
  <2>11. Shared!Restart
    <3>1. \E D \in SUBSET P : Excused' = Excused \cup D
      BY <2>8, <2>9
    <3> QED BY <2>4, <2>6, <2>7, <2>10, <3>1 DEF Shared!Restart
  <2> QED BY <2>11 DEF Shared!Next
<1>7. CASE Tick
  <2>1. Shared!Tick
    BY <1>7, <1>q, <1>f, <1>e DEF Tick, Shared!Tick
  <2> QED BY <2>1 DEF Shared!Next
<1>8. ASSUME NEW t \in rts, Revoke(t)
      PROVE  Shared!Next
  <2>1. t.crt \in Origin
    BY Components DEF IInv
  <2> QED BY <1>8, <1>x, <2>1 DEF Revoke
<1>9. ASSUME NEW c \in revoking, NEW worked \in BOOLEAN, RevokeEnds(c, worked)
      PROVE  Shared!Next \/ UNCHANGED Shared!vars
  <2>1. c \in Origin
    BY DEF IInv, TypeOK
  <2>2. CASE worked
    BY <1>9, <1>x, <2>1, <2>2 DEF RevokeEnds
  <2>3. CASE ~worked
    BY <1>9, <1>u, <1>f, <2>3 DEF RevokeEnds
  <2> QED BY <2>2, <2>3
<1>10. ASSUME NEW r \in Request, CreatioAccepts(r) \/ CreatioRefuses(r)
       PROVE  UNCHANGED Shared!vars
  <2>1. Refreshes' = Refreshes
    BY <1>10, <1>m DEF CreatioAccepts, CreatioRefuses, InFlight
  <2> QED BY <1>10, <2>1, <1>u DEF CreatioAccepts, CreatioRefuses
<1>11. ASSUME NEW l \in Login, LogIn(l)
       PROVE  UNCHANGED Shared!vars
  BY <1>11, <1>u, <1>f DEF LogIn
<1>12. CASE Cleanup \/ UNCHANGED vars
  BY <1>12, <1>u, <1>f DEF Cleanup, vars
<1> QED
  BY <1>1, <1>2, <1>3, <1>4, <1>5, <1>6, <1>7, <1>8, <1>9, <1>10, <1>11, <1>12
     DEF Next

\* oauth-server.ts: "concurrent / retried refreshes with the same Creatio refresh token
\* share one result": the grant keeps the promise of SharedRefresh in every step.
THEOREM WindowImplementsPromise == Spec => ImplementsSharedRefresh
<1>1. Init => Shared!Init
  <2> SUFFICES ASSUME Init
               PROVE  Shared!Init
    OBVIOUS
  <2> QED
    BY DEF Init, Shared!Init, Asked, Shares, Refreshes, Replied, Excused, InFlight
<1> QED
  BY <1>1, StepShared, DatedHolds, PTL DEF Spec, ImplementsSharedRefresh, Shared!Spec

-----------------------------------------------------------------------------
(* What the promise is worth: a property of SharedRefresh, which the window then has. *)

\* Requests that have not arrived started no refresh, those that have share one.
Promised ==
    /\ Asked = [r \in Request |-> Asked[r]]
    /\ Shares = [r \in Request |-> Shares[r]]
    /\ Refreshes \in [Request -> {"none", "open", "ok", "failed"}]
    /\ \A r \in Request :
          /\ Asked[r] = None => /\ Refreshes[r] = "none" /\ Shares[r] = None
                               /\ r \notin Replied
          /\ Asked[r] # None => Shares[r] \in Request /\ Refreshes[Shares[r]] # "none"
    /\ Shared!AnsweredTogether

LEMMA PromisedStep == Promised /\ [Shared!Next]_(Shared!vars) => Promised'
<1> SUFFICES ASSUME Promised, [Shared!Next]_(Shared!vars)
             PROVE  Promised'
  OBVIOUS
<1> USE DEF Promised, Shared!AnsweredTogether
<1>1. ASSUME NEW r \in Request, Shared!Present(r), Shared!Spend(r)
      PROVE  Promised'
  <2> DEFINE d == Asked'[r]
  <2>1. /\ Asked[r] = None /\ d \in [session : Login, token : Origin]
        /\ Asked' = [Asked EXCEPT ![r] = d]
        /\ Shares' = [Shares EXCEPT ![r] = r]
        /\ Refreshes' = [Refreshes EXCEPT ![r] = "open"]
        /\ Replied' = Replied
    BY <1>1 DEF Shared!Present, Shared!Spend
  <2>2. d # None
    BY <2>1, OriginAssumption
  <2> HIDE DEF d
  <2>3. /\ Asked'[r] = d /\ Shares'[r] = r /\ Refreshes'[r] = "open"
        /\ \A w \in Request \ {r} : /\ Asked'[w] = Asked[w] /\ Shares'[w] = Shares[w]
                                    /\ Refreshes'[w] = Refreshes[w]
    BY <2>1
  <2>4. \A w \in Request : Asked[w] # None => w # r /\ Shares[w] \in Request \ {r}
    BY <2>1
  <2>5. /\ Asked' = [w \in Request |-> Asked'[w]] /\ Shares' = [w \in Request |-> Shares'[w]]
        /\ Refreshes' \in [Request -> {"none", "open", "ok", "failed"}]
    BY <2>1
  <2> QED BY <2>1, <2>2, <2>3, <2>4, <2>5
<1>2. ASSUME NEW r \in Request, NEW q \in Request, Shared!Present(r), Shared!Share(r, q)
      PROVE  Promised'
  <2> DEFINE d == Asked'[r]
  <2>1. /\ Asked[r] = None /\ d \in [session : Login, token : Origin]
        /\ Asked' = [Asked EXCEPT ![r] = d] /\ Asked[q] = d
        /\ Refreshes[q] \in {"open", "ok"}
        /\ Shares' = [Shares EXCEPT ![r] = q]
        /\ Replied' = IF Refreshes[q] = "ok" THEN Replied \cup {r} ELSE Replied
        /\ Refreshes' = Refreshes
    BY <1>2 DEF Shared!Present, Shared!Share, Shared!Shareable
  <2>2. d # None
    BY <2>1, OriginAssumption
  <2> HIDE DEF d
  <2>3. /\ Asked'[r] = d /\ Shares'[r] = q
        /\ \A w \in Request \ {r} : Asked'[w] = Asked[w] /\ Shares'[w] = Shares[w]
    BY <2>1
  <2>4. \A w \in Request : Asked[w] # None => w # r /\ Shares[w] \in Request \ {r}
    BY <2>1
  <2>5. Asked' = [w \in Request |-> Asked'[w]] /\ Shares' = [w \in Request |-> Shares'[w]]
    BY <2>1
  <2>6. q # r
    BY <2>1, <2>2
  <2> QED BY <2>1, <2>2, <2>3, <2>4, <2>5, <2>6
\* The refresh of q settles.
<1>3. ASSUME NEW q \in Request, Refreshes[q] = "open", NEW f \in {"ok", "failed"},
             Refreshes' = [Refreshes EXCEPT ![q] = f],
             Replied' = Replied \cup Shared!Sharing(q),
             UNCHANGED <<Asked, Shares>>
      PROVE  Promised'
  <2>1. \A w \in Request : Refreshes'[w] = IF w = q THEN f ELSE Refreshes[w]
    BY <1>3
  <2>2. \A w \in Request : w \in Replied' <=> w \in Replied \/ Shares[w] = q
    BY <1>3 DEF Shared!Sharing
  <2>3. Refreshes' \in [Request -> {"none", "open", "ok", "failed"}]
    BY <1>3
  <2>4. Asked[q] # None
    BY <1>3
  <2>5. \A w \in Request : Asked[w] = None => w \notin Replied'
    <3>1. None \notin Request
      BY OriginAssumption DEF Origin
    <3> QED BY <3>1, <1>3, <2>2
  <2>6. Asked' = Asked /\ Shares' = Shares
    BY <1>3
  <2>7. ASSUME NEW w \in Request, Asked[w] # None
        PROVE  w \in Replied' <=> Refreshes'[Shares[w]] \in {"ok", "failed"}
    <3>1. CASE Shares[w] = q
      BY <3>1, <2>1, <2>2
    <3>2. CASE Shares[w] # q
      BY <3>2, <2>1, <2>2, <2>7
    <3> QED BY <3>1, <3>2
  <2>8. \A w \in Request : Refreshes[w] # "none" => Refreshes'[w] # "none"
    BY <2>1
  <2>9. \A w \in Request : Asked[w] = None => Refreshes'[w] = "none"
    BY <2>1, <2>4
  <2> QED BY <2>3, <2>5, <2>6, <2>7, <2>8, <2>9
<1>4. CASE Shared!Restart
  <2>1. /\ Refreshes' = [q \in Request |-> IF Refreshes[q] = "open" THEN "failed"
                                           ELSE Refreshes[q]]
        /\ Replied' = {r \in Request : Asked[r] # None}
        /\ Asked' = Asked /\ Shares' = Shares
    BY <1>4 DEF Shared!Restart
  <2>2. Refreshes' \in [Request -> {"none", "open", "ok", "failed"}]
    BY <2>1
  <2>3. \A q \in Request : /\ Refreshes[q] = "none" => Refreshes'[q] = "none"
                           /\ Refreshes[q] # "none" => Refreshes'[q] \in {"ok", "failed"}
    BY <2>1
  <2>4. \A r \in Request : r \in Replied' <=> Asked[r] # None
    BY <2>1
  <2> QED BY <2>1, <2>2, <2>3, <2>4
<1>5. CASE UNCHANGED <<Asked, Shares, Refreshes, Replied>>
  BY <1>5
<1> QED
  BY <1>1, <1>2, <1>3, <1>4, <1>5
     DEF Shared!Next, Shared!vars, Shared!Succeed, Shared!Fail, Shared!Revoke, Shared!Tick

\* The promise, and with it the window: who shares a refresh presented what the request
\* that started it presented, and all of them are answered when it settles, not before.
THEOREM AllAnsweredTogether == Spec => []Shared!AnsweredTogether
<1>1. Shared!Init => Promised
  BY DEF Shared!Init, Promised, Shared!AnsweredTogether
<1>2. Promised => Shared!AnsweredTogether
  BY DEF Promised
<1> QED
  BY <1>1, <1>2, PromisedStep, WindowImplementsPromise, PTL
     DEF ImplementsSharedRefresh, Shared!Spec

=============================================================================
