---------------------------- MODULE RateLimiter ----------------------------
(***************************************************************************)
(* The fixed-window rate limiter in front of one route of the broker: a    *)
(* bucket per client address, swept at most once a window and only when a  *)
(* request comes.                                                          *)
(***************************************************************************)
EXTENDS Integers, Sequences, Functions

CONSTANTS
  Key,           \* addresses of clients
  WindowMs,      \* options.windowMs
  MaxRequests,   \* options.max
  MaxTime        \* bound: the clock stops here

LimitAssumption ==
  /\ WindowMs \in Nat \ {0} /\ MaxRequests \in Nat \ {0} /\ MaxTime \in Nat

VARIABLES
  now,
  buckets,       \* _buckets
  lastSweepAt,   \* _lastSweepAt
  admitted       \* history: when the requests of each key were let through, one after another

vars == <<now, buckets, lastSweepAt, admitted>>

Bucket == [count : 1..MaxRequests, resetAt : Nat]

TypeOK ==
  /\ now \in Nat /\ lastSweepAt \in Nat
  /\ DOMAIN buckets \subseteq Key /\ buckets \in [DOMAIN buckets -> Bucket]
  /\ admitted \in [Key -> Seq(Nat)]

\* _lastSweepAt is zero until the first request, which sweeps whatever the time.
Init ==
  /\ now = 0
  /\ buckets = <<>>
  /\ lastSweepAt = 0
  /\ admitted = [k \in Key |-> <<>>]

\* _maybeSweep: what is left of the buckets at the time of a request.
SweepDue == now - lastSweepAt >= WindowMs
Swept ==
  IF SweepDue THEN Restrict(buckets, {k \in DOMAIN buckets : now < buckets[k].resetAt})
  ELSE buckets

Admit(key, bucket) ==
  /\ buckets' = [k \in DOMAIN Swept \cup {key} |-> IF k = key THEN bucket ELSE Swept[k]]
  /\ admitted' = [admitted EXCEPT ![key] = Append(@, now)]

\* Mutant: a bucket that has run out is used up to the next sweep.
OpenUnlessSwept(key) == key \notin DOMAIN Swept

\* No bucket, or one that has run out and has not been swept.
Fresh(key) == key \in DOMAIN Swept => now >= Swept[key].resetAt
Full(key) == Swept[key].count >= MaxRequests

Check(key) ==
  /\ lastSweepAt' = IF SweepDue THEN now ELSE lastSweepAt
  /\ \/ Fresh(key) /\ Admit(key, [count |-> 1, resetAt |-> now + WindowMs])
     \/ /\ ~Fresh(key) /\ ~Full(key)
        /\ Admit(key, [Swept[key] EXCEPT !.count = @ + 1])
     \/ /\ ~Fresh(key) /\ Full(key)
        /\ buckets' = Swept /\ UNCHANGED admitted
  /\ UNCHANGED now

Tick == now < MaxTime /\ now' = now + 1 /\ UNCHANGED <<buckets, lastSweepAt, admitted>>

Next == Tick \/ \E key \in Key : Check(key)
Spec == Init /\ [][Next]_vars

-----------------------------------------------------------------------------
\* However the requests of an address fall on the windows, which it starts itself,
\* no span as long as a window lets more than twice the maximum through; whoever
\* is refused had the maximum within the last window; and a sweep leaves no bucket
\* that ended before it, so only addresses of two windows are kept.
LimitKept ==
  \A key \in Key :
    LET times == admitted[key]
        n == Len(times)
    IN  /\ \A i \in 1..(n - 2 * MaxRequests) :
             times[i + 2 * MaxRequests] - times[i] >= WindowMs
        /\ ~Fresh(key) /\ Full(key) =>
             n >= MaxRequests /\ times[n - MaxRequests + 1] > now - WindowMs
        /\ key \in DOMAIN buckets => buckets[key].resetAt > lastSweepAt
=============================================================================
