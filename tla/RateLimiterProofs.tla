------------------------- MODULE RateLimiterProofs -------------------------
(***************************************************************************)
(* Proofs about RateLimiter, for every set of addresses and every limit.   *)
(***************************************************************************)
EXTENDS RateLimiter, TLAPS

\* The bucket b accounts for the last b.count times of one address; what came
\* before them came before its window, and before the window in front of it
\* but for one more maximum.
Accounts(b, times, at) ==
  LET n == Len(times)
      opened == b.resetAt - WindowMs
  IN  /\ b.count <= n /\ opened <= at
      /\ \A i \in 1..n : times[i] < b.resetAt
      /\ \A i \in 1..n : i > n - b.count => times[i] >= opened
      /\ \A i \in 1..n : i <= n - b.count => times[i] < opened
      /\ \A i \in 1..n : i <= n - b.count - MaxRequests => times[i] < opened - WindowMs

\* An address without a bucket used up its last window, and had at most the
\* maximum in it.
Settled(times, at) ==
  LET n == Len(times)
  IN  /\ \A i \in 1..n : times[i] < at
      /\ \A i \in 1..n : i <= n - MaxRequests => times[i] < at - WindowMs

Spread(times) ==
  \A i \in 1..(Len(times) - 2 * MaxRequests) :
    times[i + 2 * MaxRequests] - times[i] >= WindowMs

Accounted ==
  /\ lastSweepAt <= now
  /\ \A key \in Key :
       /\ Spread(admitted[key])
       /\ key \in DOMAIN buckets =>
            /\ Accounts(buckets[key], admitted[key], now)
            /\ buckets[key].resetAt > lastSweepAt
       /\ key \notin DOMAIN buckets => Settled(admitted[key], now)

IInv == TypeOK /\ Accounted

-----------------------------------------------------------------------------
(* Lemmas on the times of one address. *)

\* A bucket that has run out leaves its address settled.
LEMMA RunOut ==
  ASSUME LimitAssumption, NEW b \in Bucket, NEW times \in Seq(Nat),
         NEW at \in Nat, Accounts(b, times, at), at >= b.resetAt
  PROVE  Settled(times, at)
<1>1. /\ b.count \in 1..MaxRequests /\ b.resetAt \in Nat
      /\ WindowMs \in Nat \ {0} /\ MaxRequests \in Nat \ {0}
  BY DEF LimitAssumption, Bucket
<1>2. Len(times) \in Nat /\ \A i \in 1..Len(times) : times[i] \in Nat
  OBVIOUS
<1>3. ASSUME NEW i \in 1..Len(times)
      PROVE  times[i] < at
  BY <1>1, <1>2 DEF Accounts
<1>4. ASSUME NEW i \in 1..Len(times), i <= Len(times) - MaxRequests
      PROVE  times[i] < at - WindowMs
  <2>1. i <= Len(times) - b.count
    BY <1>1, <1>2, <1>4
  <2>2. times[i] < b.resetAt - WindowMs
    BY <2>1 DEF Accounts
  <2> QED BY <2>2, <1>1, <1>2
<1> QED BY <1>3, <1>4 DEF Settled

\* What Append does to the times.
LEMMA Appended ==
  ASSUME NEW times \in Seq(Nat), NEW t \in Nat
  PROVE  /\ Append(times, t) \in Seq(Nat)
         /\ Len(Append(times, t)) = Len(times) + 1
         /\ Append(times, t)[Len(times) + 1] = t
         /\ \A i \in 1..Len(times) : Append(times, t)[i] = times[i] /\ times[i] \in Nat
  OBVIOUS

\* A window opened for a settled address accounts for the request that opens it.
LEMMA Opened ==
  ASSUME LimitAssumption, NEW times \in Seq(Nat), NEW at \in Nat, Settled(times, at), Spread(times)
  PROVE  /\ Accounts([count |-> 1, resetAt |-> at + WindowMs], Append(times, at), at)
         /\ Spread(Append(times, at))
<1> DEFINE n == Len(times)
           more == Append(times, at)
<1>1. WindowMs \in Nat \ {0} /\ MaxRequests \in Nat \ {0} /\ n \in Nat
  BY DEF LimitAssumption
<1>2. /\ Len(more) = n + 1 /\ more[n + 1] = at
      /\ \A i \in 1..n : more[i] = times[i] /\ times[i] \in Nat
  BY Appended
<1>3. /\ \A i \in 1..n : times[i] < at
      /\ \A i \in 1..n : i <= n - MaxRequests => times[i] < at - WindowMs
  BY DEF Settled
<1>4. \A i \in 1..(n - 2 * MaxRequests) : times[i + 2 * MaxRequests] - times[i] >= WindowMs
  BY DEF Spread
<1> HIDE DEF more, n
<1>5. \A i \in 1..(n + 1) : i \in 1..n \/ i = n + 1
  BY <1>1
<1>6. Accounts([count |-> 1, resetAt |-> at + WindowMs], more, at)
  <2>1. \A i \in 1..(n + 1) : more[i] < at + WindowMs
    BY <1>1, <1>2, <1>3, <1>5
  <2>2. \A i \in 1..(n + 1) : i > n + 1 - 1 => more[i] >= at
    BY <1>1, <1>2, <1>5
  <2>3. \A i \in 1..(n + 1) : i <= n + 1 - 1 => more[i] < at
    BY <1>1, <1>2, <1>3, <1>5
  <2>4. \A i \in 1..(n + 1) : i <= n + 1 - 1 - MaxRequests => more[i] < at - WindowMs
    BY <1>1, <1>2, <1>3, <1>5
  <2>5. at + WindowMs - WindowMs = at
    BY <1>1
  <2> QED BY <1>1, <1>2, <2>1, <2>2, <2>3, <2>4, <2>5 DEF Accounts
<1>7. Spread(more)
  <2> SUFFICES ASSUME NEW i \in 1..(n + 1 - 2 * MaxRequests)
               PROVE  more[i + 2 * MaxRequests] - more[i] >= WindowMs
    BY <1>1, <1>2 DEF Spread
  <2>1. CASE i + 2 * MaxRequests <= n
    <3>1. i \in 1..(n - 2 * MaxRequests) /\ i \in 1..n /\ i + 2 * MaxRequests \in 1..n
      BY <1>1, <2>1
    <3> QED BY <3>1, <1>2, <1>4
  <2>2. CASE i + 2 * MaxRequests = n + 1
    <3>1. i \in 1..n /\ i <= n - MaxRequests
      BY <1>1, <2>2
    <3>2. times[i] < at - WindowMs /\ times[i] \in Nat /\ more[i] = times[i]
      BY <3>1, <1>2, <1>3
    <3>3. more[i + 2 * MaxRequests] = at
      BY <2>2, <1>2
    <3> QED BY <3>2, <3>3, <1>1
  <2> QED BY <2>1, <2>2, <1>1
<1> QED BY <1>6, <1>7 DEF more

\* A bucket with room takes one more.
LEMMA OneMore ==
  ASSUME LimitAssumption, NEW b \in Bucket, b.count < MaxRequests
  PROVE  /\ [b EXCEPT !.count = @ + 1] \in Bucket
         /\ [b EXCEPT !.count = @ + 1].resetAt = b.resetAt
<1>1. [b EXCEPT !.count = @ + 1] = [count |-> b.count + 1, resetAt |-> b.resetAt]
  BY DEF Bucket
<1>2. b.count \in 1..MaxRequests /\ b.resetAt \in Nat /\ MaxRequests \in Nat
  BY DEF Bucket, LimitAssumption
<1>3. b.count + 1 \in 1..MaxRequests
  BY <1>2
<1> QED BY <1>1, <1>2, <1>3 DEF Bucket

\* One more request in an open window that is not full.
LEMMA Counted ==
  ASSUME LimitAssumption, NEW b \in Bucket, NEW times \in Seq(Nat),
         NEW at \in Nat, Accounts(b, times, at), Spread(times),
         at < b.resetAt, b.count < MaxRequests
  PROVE  /\ Accounts([b EXCEPT !.count = @ + 1], Append(times, at), at)
         /\ Spread(Append(times, at))
<1> DEFINE n == Len(times)
           c == b.count
           more == Append(times, at)
           opened == b.resetAt - WindowMs
<1>1. /\ WindowMs \in Nat /\ WindowMs > 0 /\ MaxRequests \in Nat /\ n \in Nat
      /\ c \in Nat /\ c < MaxRequests /\ b.resetAt \in Nat /\ at < b.resetAt
      /\ opened \in Int /\ opened = b.resetAt - WindowMs
  BY DEF LimitAssumption, Bucket
<1>b. [b EXCEPT !.count = @ + 1] = [count |-> b.count + 1, resetAt |-> b.resetAt]
  BY DEF Bucket
<1>2. /\ Len(more) = n + 1 /\ more[n + 1] = at
      /\ \A i \in 1..n : more[i] = times[i] /\ times[i] \in Nat
  BY Appended
<1>3. /\ c <= n /\ opened <= at
      /\ \A i \in 1..n : times[i] < b.resetAt
      /\ \A i \in 1..n : i > n - c => times[i] >= opened
      /\ \A i \in 1..n : i <= n - c => times[i] < opened
      /\ \A i \in 1..n : i <= n - c - MaxRequests => times[i] < opened - WindowMs
  BY DEF Accounts
<1>4. \A i \in 1..(n - 2 * MaxRequests) : times[i + 2 * MaxRequests] - times[i] >= WindowMs
  BY DEF Spread
<1> HIDE DEF more, n, c, opened
<1>5. \A i \in 1..(n + 1) : i \in 1..n \/ i = n + 1
  BY <1>1
<1>6. Accounts([count |-> c + 1, resetAt |-> b.resetAt], more, at)
  <2>1. \A i \in 1..(n + 1) : more[i] < b.resetAt
    BY <1>1, <1>2, <1>3, <1>5
  <2>2. \A i \in 1..(n + 1) : i > n + 1 - (c + 1) => more[i] >= opened
    BY <1>1, <1>2, <1>3, <1>5
  <2>3. \A i \in 1..(n + 1) : i <= n + 1 - (c + 1) => more[i] < opened
    BY <1>1, <1>2, <1>3, <1>5
  <2>4. \A i \in 1..(n + 1) :
          i <= n + 1 - (c + 1) - MaxRequests => more[i] < opened - WindowMs
    BY <1>1, <1>2, <1>3, <1>5
  <2> QED BY <1>1, <1>2, <1>3, <2>1, <2>2, <2>3, <2>4 DEF Accounts
<1>7. Spread(more)
  <2> SUFFICES ASSUME NEW i \in 1..(n + 1 - 2 * MaxRequests)
               PROVE  more[i + 2 * MaxRequests] - more[i] >= WindowMs
    BY <1>1, <1>2 DEF Spread
  <2>1. CASE i + 2 * MaxRequests <= n
    <3>1. i \in 1..(n - 2 * MaxRequests) /\ i \in 1..n /\ i + 2 * MaxRequests \in 1..n
      BY <1>1, <2>1
    <3> QED BY <3>1, <1>2, <1>4
  <2>2. CASE i + 2 * MaxRequests = n + 1
    <3>1. i \in 1..n /\ i <= n - c - MaxRequests
      BY <1>1, <2>2
    <3>2. times[i] < opened - WindowMs /\ times[i] \in Nat /\ more[i] = times[i]
      BY <3>1, <1>2, <1>3
    <3>3. more[i + 2 * MaxRequests] = at
      BY <2>2, <1>2
    <3> QED BY <3>2, <3>3, <1>1, <1>3
  <2> QED BY <2>1, <2>2, <1>1
<1> QED BY <1>b, <1>6, <1>7 DEF more, c
-----------------------------------------------------------------------------
(* Steps. *)

\* A sweep drops buckets that have run out, and nothing else.
LEMMA SweptBuckets ==
  ASSUME LimitAssumption, TypeOK
  PROVE  /\ DOMAIN Swept \subseteq DOMAIN buckets
         /\ Swept \in [DOMAIN Swept -> Bucket]
         /\ \A k \in DOMAIN Swept : Swept[k] = buckets[k]
         /\ \A k \in DOMAIN buckets \ DOMAIN Swept : now >= buckets[k].resetAt
         /\ SweepDue => \A k \in DOMAIN Swept : now < buckets[k].resetAt
<1>1. buckets \in [DOMAIN buckets -> Bucket] /\ now \in Nat
  BY DEF TypeOK
<1>2. \A b \in Bucket : b.resetAt \in Nat
  BY DEF Bucket
<1> DEFINE kept == {k \in DOMAIN buckets : now < buckets[k].resetAt}
<1>3. CASE SweepDue
  <2>1. Swept = [k \in kept |-> buckets[k]]
    BY <1>3 DEF Swept, Restrict
  <2> QED BY <2>1, <1>1, <1>2
<1>4. CASE ~SweepDue
  BY <1>1, <1>4 DEF Swept
<1> QED BY <1>3, <1>4

LEMMA TypeStep ==
  ASSUME LimitAssumption, TypeOK, [Next]_vars
  PROVE  TypeOK'
<1> USE DEF TypeOK
<1>1. CASE Tick
  BY <1>1 DEF Tick
<1>2. ASSUME NEW key \in Key, Check(key)
      PROVE  TypeOK'
  <2>1. now' = now /\ lastSweepAt' \in Nat
    BY <1>2 DEF Check
  <2>2. ASSUME NEW b \in Bucket, Admit(key, b)
        PROVE  TypeOK'
    <3>1. /\ DOMAIN buckets' \subseteq Key
          /\ buckets' \in [DOMAIN buckets' -> Bucket]
      BY <2>2, SweptBuckets DEF Admit
    <3>2. admitted' \in [Key -> Seq(Nat)]
      BY <2>2, Appended DEF Admit
    <3> QED BY <2>1, <3>1, <3>2
  <2>3. CASE Fresh(key) /\ Admit(key, [count |-> 1, resetAt |-> now + WindowMs])
    <3>1. [count |-> 1, resetAt |-> now + WindowMs] \in Bucket
      BY DEF Bucket, LimitAssumption
    <3> QED BY <2>2, <2>3, <3>1
  <2>4. CASE ~Fresh(key) /\ ~Full(key) /\ Admit(key, [Swept[key] EXCEPT !.count = @ + 1])
    <3>1. Swept[key] \in Bucket /\ Swept[key].count < MaxRequests
      BY <2>4, SweptBuckets DEF Fresh, Full, Bucket, LimitAssumption
    <3>2. [Swept[key] EXCEPT !.count = @ + 1] \in Bucket
      BY <3>1, OneMore
    <3> QED BY <2>2, <2>4, <3>2
  <2>5. CASE buckets' = Swept /\ UNCHANGED admitted
    BY <2>1, <2>5, SweptBuckets
  <2> QED BY <1>2, <2>3, <2>4, <2>5 DEF Check
<1>3. CASE UNCHANGED vars
  BY <1>3 DEF vars
<1> QED BY <1>1, <1>2, <1>3 DEF Next

LEMMA AccountedStep ==
  ASSUME LimitAssumption, IInv, [Next]_vars
  PROVE  Accounted'
<1>t. /\ now \in Nat /\ lastSweepAt \in Nat /\ lastSweepAt <= now
      /\ WindowMs \in Nat /\ WindowMs > 0
      /\ admitted \in [Key -> Seq(Nat)]
      /\ \A k \in DOMAIN buckets : buckets[k] \in Bucket
      /\ \A b \in Bucket : b.resetAt \in Nat /\ b.count \in Nat
  BY DEF IInv, TypeOK, Accounted, Bucket, LimitAssumption
<1>1. CASE Tick
  <2>1. now' = now + 1 /\ UNCHANGED <<buckets, lastSweepAt, admitted>>
    BY <1>1 DEF Tick
  <2>2. ASSUME NEW times \in Seq(Nat), Settled(times, now)
        PROVE  Settled(times, now + 1)
    <3>1. \A i \in 1..Len(times) : times[i] \in Nat
      OBVIOUS
    <3> QED BY <2>2, <3>1, <1>t DEF Settled
  <2>3. ASSUME NEW times \in Seq(Nat), NEW b \in Bucket, Accounts(b, times, now)
        PROVE  Accounts(b, times, now + 1)
    BY <2>3, <1>t DEF Accounts
  <2> QED BY <2>1, <2>2, <2>3, <1>t DEF Accounted, IInv
<1>2. ASSUME NEW key \in Key, Check(key)
      PROVE  Accounted'
  <2>1. /\ now' = now
        /\ lastSweepAt' = IF SweepDue THEN now ELSE lastSweepAt
    BY <1>2 DEF Check
  <2>2. \A k \in Key : k \notin DOMAIN Swept => Settled(admitted[k], now)
    <3> SUFFICES ASSUME NEW k \in Key, k \notin DOMAIN Swept
                 PROVE  Settled(admitted[k], now)
      OBVIOUS
    <3>1. CASE k \in DOMAIN buckets
      <4>1. now >= buckets[k].resetAt /\ Accounts(buckets[k], admitted[k], now)
        BY <3>1, SweptBuckets DEF IInv, Accounted
      <4> QED BY <4>1, <3>1, <1>t, RunOut
    <3>2. CASE k \notin DOMAIN buckets
      BY <3>2 DEF IInv, Accounted
    <3> QED BY <3>1, <3>2
  <2>3. \A k \in DOMAIN Swept : Swept[k].resetAt > lastSweepAt'
    <3>1. \A k \in DOMAIN Swept : k \in Key /\ buckets[k].resetAt > lastSweepAt
      BY SweptBuckets DEF IInv, Accounted, TypeOK
    <3>2. \A k \in DOMAIN Swept : SweepDue => buckets[k].resetAt > now
      BY SweptBuckets, <1>t DEF IInv
    <3> QED BY <2>1, <3>1, <3>2, SweptBuckets DEF IInv
  <2>4. \A k \in DOMAIN Swept : k \in Key /\ Accounts(Swept[k], admitted[k], now)
    BY SweptBuckets DEF IInv, Accounted, TypeOK
  <2>5. ASSUME NEW b \in Bucket, Admit(key, b), b.resetAt > lastSweepAt',
               Accounts(b, Append(admitted[key], now), now),
               Spread(Append(admitted[key], now))
        PROVE  Accounted'
    <3>1. admitted'[key] = Append(admitted[key], now)
      BY <2>5, <1>t DEF Admit
    <3>2. /\ DOMAIN buckets' = DOMAIN Swept \cup {key} /\ buckets'[key] = b
          /\ \A k \in Key : k # key => admitted'[k] = admitted[k]
          /\ \A k \in DOMAIN Swept : k # key => buckets'[k] = Swept[k]
      BY <2>5, <1>t DEF Admit
    <3>3. lastSweepAt' <= now'
      BY <2>1, <1>t
    <3>4. ASSUME NEW k \in Key
          PROVE  /\ Spread(admitted'[k])
                 /\ k \in DOMAIN buckets' =>
                      /\ Accounts(buckets'[k], admitted'[k], now)
                      /\ buckets'[k].resetAt > lastSweepAt'
                 /\ k \notin DOMAIN buckets' => Settled(admitted'[k], now)
      <4>1. CASE k = key
        BY <4>1, <3>1, <3>2, <2>5
      <4>2. CASE k # key
        <5>1. admitted'[k] = admitted[k] /\ Spread(admitted[k])
          BY <4>2, <3>2 DEF IInv, Accounted
        <5>2. CASE k \in DOMAIN Swept
          <6>1. buckets'[k] = Swept[k] /\ k \in DOMAIN buckets'
            BY <5>2, <4>2, <3>2
          <6>2. Accounts(Swept[k], admitted[k], now) /\ Swept[k].resetAt > lastSweepAt'
            BY <5>2, <2>3, <2>4
          <6> QED BY <5>1, <6>1, <6>2
        <5>3. CASE k \notin DOMAIN Swept
          BY <5>1, <5>3, <4>2, <3>2, <2>2
        <5> QED BY <5>2, <5>3
      <4> QED BY <4>1, <4>2
    <3> QED BY <2>1, <3>3, <3>4 DEF Accounted
  <2>6. CASE Fresh(key) /\ Admit(key, [count |-> 1, resetAt |-> now + WindowMs])
    <3>1. Settled(admitted[key], now)
      <4>1. CASE key \in DOMAIN Swept
        BY <4>1, <2>4, <2>6, <1>t, SweptBuckets, RunOut DEF Fresh, IInv
      <4> QED BY <4>1, <2>2
    <3>2. Spread(admitted[key])
      BY DEF IInv, Accounted
    <3>3. [count |-> 1, resetAt |-> now + WindowMs] \in Bucket
      BY <1>t DEF Bucket, LimitAssumption
    <3>4. now + WindowMs > lastSweepAt'
      BY <2>1, <1>t
    <3> QED BY <2>5, <2>6, <3>1, <3>2, <3>3, <3>4, <1>t, Opened
  <2>7. CASE ~Fresh(key) /\ ~Full(key) /\ Admit(key, [Swept[key] EXCEPT !.count = @ + 1])
    <3>1. /\ key \in DOMAIN Swept /\ Swept[key] \in Bucket
          /\ now < Swept[key].resetAt /\ Swept[key].count < MaxRequests
      BY <2>7, <1>t, SweptBuckets DEF Fresh, Full, IInv, LimitAssumption, Bucket
    <3>2. Spread(admitted[key]) /\ Accounts(Swept[key], admitted[key], now)
      BY <2>4, <3>1 DEF IInv, Accounted
    <3>3. /\ [Swept[key] EXCEPT !.count = @ + 1] \in Bucket
          /\ [Swept[key] EXCEPT !.count = @ + 1].resetAt = Swept[key].resetAt
      BY <3>1, OneMore
    <3>4. Swept[key].resetAt > lastSweepAt'
      BY <3>1, <2>3
    <3> QED BY <2>5, <2>7, <3>1, <3>2, <3>3, <3>4, <1>t, Counted
  <2>8. CASE buckets' = Swept /\ UNCHANGED admitted
    <3>1. lastSweepAt' <= now'
      BY <2>1, <1>t
    <3> QED BY <2>1, <2>2, <2>3, <2>4, <2>8, <3>1 DEF Accounted, IInv
  <2> QED BY <1>2, <2>6, <2>7, <2>8 DEF Check
<1>3. CASE UNCHANGED vars
  BY <1>3 DEF vars, IInv, Accounted
<1> QED BY <1>1, <1>2, <1>3 DEF Next

\* The limit, from the accounts.
LEMMA AccountsKeepLimit ==
  ASSUME LimitAssumption, IInv
  PROVE  LimitKept
<1> SUFFICES ASSUME NEW key \in Key
             PROVE  /\ Spread(admitted[key])
                    /\ ~Fresh(key) /\ Full(key) =>
                         /\ Len(admitted[key]) >= MaxRequests
                         /\ admitted[key][Len(admitted[key]) - MaxRequests + 1] > now - WindowMs
                    /\ key \in DOMAIN buckets => buckets[key].resetAt > lastSweepAt
  BY DEF LimitKept, Spread
<1>1. ASSUME ~Fresh(key), Full(key)
      PROVE  /\ Len(admitted[key]) >= MaxRequests
             /\ admitted[key][Len(admitted[key]) - MaxRequests + 1] > now - WindowMs
  <2> DEFINE b == buckets[key]
             n == Len(admitted[key])
  <2>1. /\ key \in DOMAIN Swept /\ Swept[key] = b /\ b \in Bucket
        /\ key \in DOMAIN buckets
    BY <1>1, SweptBuckets DEF Fresh, IInv
  <2>2. /\ n \in Nat /\ now \in Nat /\ b.resetAt \in Nat
        /\ WindowMs \in Nat /\ MaxRequests \in Nat /\ MaxRequests > 0
        /\ \A i \in 1..n : admitted[key][i] \in Nat
    BY <2>1 DEF IInv, TypeOK, Bucket, LimitAssumption
  <2>3. b.count = MaxRequests
    BY <1>1, <2>1, <2>2 DEF Full, Bucket
  <2>4. now < b.resetAt
    BY <1>1, <2>1, <2>2 DEF Fresh
  <2>5. Accounts(b, admitted[key], now)
    BY <2>1 DEF IInv, Accounted
  <2>6. /\ MaxRequests <= n
        /\ \A i \in 1..n : i > n - MaxRequests => admitted[key][i] >= b.resetAt - WindowMs
    BY <2>3, <2>5 DEF Accounts
  <2> HIDE DEF b, n
  <2>7. n - MaxRequests + 1 \in 1..n /\ n - MaxRequests + 1 > n - MaxRequests
    BY <2>2, <2>6
  <2>8. /\ admitted[key][n - MaxRequests + 1] >= b.resetAt - WindowMs
        /\ admitted[key][n - MaxRequests + 1] \in Nat
    BY <2>2, <2>6, <2>7
  <2>9. admitted[key][n - MaxRequests + 1] > now - WindowMs
    BY <2>2, <2>4, <2>8
  <2> QED BY <2>6, <2>9 DEF n
<1> QED BY <1>1 DEF IInv, Accounted

-----------------------------------------------------------------------------
(* The theorems. *)

LEMMA InitialInvariant ==
  ASSUME LimitAssumption, Init
  PROVE  IInv
BY DEF Init, IInv, TypeOK, Accounted, Settled, Spread, LimitAssumption

LEMMA InvariantStep ==
  ASSUME LimitAssumption, IInv, [Next]_vars
  PROVE  IInv'
BY TypeStep, AccountedStep DEF IInv

LEMMA InductiveInvariant == ASSUME LimitAssumption PROVE Spec => []IInv
<1>1. Init => IInv
  BY InitialInvariant
<1>2. IInv /\ [Next]_vars => IInv'
  BY InvariantStep
<1> QED BY <1>1, <1>2, PTL DEF Spec

\* The buckets, the clock and the times let through have their types.
THEOREM TypeCorrect == ASSUME LimitAssumption PROVE Spec => []TypeOK
<1>1. IInv => TypeOK
  BY DEF IInv
<1> QED BY <1>1, InductiveInvariant, PTL

\* FixedWindowRateLimiter.check: whatever the order of requests, windows and
\* sweeps, an address gets at most twice the maximum within the length of a
\* window, and is refused only when it had the maximum within the last one.
THEOREM LimitsKept == ASSUME LimitAssumption PROVE Spec => []LimitKept
<1>1. IInv => LimitKept
  BY AccountsKeepLimit
<1> QED BY <1>1, InductiveInvariant, PTL
=============================================================================
