------------------------- MODULE SchemaCacheProofs -------------------------
(***************************************************************************)
(* Proofs about SchemaCache, for every set of sites, of cached things and  *)
(* of reads, every division into caches, and all lives and caps.           *)
(***************************************************************************)
EXTENDS SchemaCache, FiniteSetTheorems, WellFoundedInduction, TLAPS

PastBelow == \A s \in Site, t \in 0 .. MaxTime : past[s][t] <= model[s]

\* A token is not from the future of the site s.
Known(s, v) ==
    IF v.src = "hash" THEN v.n <= model[s] ELSE v.n * Bucket <= now

\* The token v changed with every change of s that was made before at.
Reflects(s, v, at) ==
    IF v.src = "hash"
    THEN \A t \in 0 .. MaxTime : t < at => past[s][t] <= v.n
    ELSE at < v.n * Bucket + Bucket

\* The schema x of s is no older than the token v.
Backs(s, v, x) ==
    IF v.src = "hash"
    THEN v.n <= x
    ELSE \A t \in 0 .. MaxTime : t < v.n * Bucket => past[s][t] <= x

SnapshotOK(s, p) ==
    p.at <= now /\ Known(s, p.token) /\ Reflects(s, p.token, p.at)

BoxOK(k, b) ==
    /\ Known(k.site, b.version)
    /\ k.of # List => Backs(k.site, b.version, b.value)

Versions(c) ==
    /\ c.token # None
    /\ Known(c.key.site, c.token)
    /\ Reflects(c.key.site, c.token, c.asked - SnapshotTtl + 1)

Result(c) ==
    /\ c.got # None
    /\ c.key.of # List => Backs(c.key.site, c.token, c.got)

ReadOK(c) ==
    /\ c.asked <= now
    /\ c.phase # "polling" => Versions(c)
    /\ c.phase = "polled" => Reflects(c.key.site, c.token, c.asked)
    /\ c.phase \in {"joined", "nested"} => c.peer # None
    /\ c.phase = "nested" => c.key.of = List
    /\ c.phase \in {"answered", "served"} => Result(c)

SnapshotsKnown == \A s \in Site : snapshot[s] # None => SnapshotOK(s, snapshot[s])
EntriesBacked == \A k \in Key : entries[k] # None => BoxOK(k, entries[k])
ReadsBacked == \A r \in Reader : read[r] # None => ReadOK(read[r])

IInv ==
    /\ TypeOK /\ SharedLoads
    /\ PastBelow /\ SnapshotsKnown /\ EntriesBacked /\ ReadsBacked

-----------------------------------------------------------------------------
(* Versions. *)

\* floor(asked / FALLBACK_BUCKET_MS) names the bucket that asked is in.
LEMMA Buckets ==
    ASSUME NEW a \in Nat, NEW b \in Nat \ {0}
    PROVE  /\ a \div b \in Nat
           /\ (a \div b) * b <= a
           /\ a < (a \div b) * b + b
  BY SMT

\* A token that reflects what was before b reflects what was before a.
LEMMA ReflectsEarlier ==
    ASSUME TypeOK, NEW s \in Site, NEW v \in Token,
           NEW a \in Int, NEW b \in Int, a <= b, Reflects(s, v, b)
    PROVE  Reflects(s, v, a)
<1>1. CASE v.src = "hash"
  <2>1. \A t \in 0 .. MaxTime : t < a => t < b
    BY DurationAssumption
  <2> QED BY <1>1, <2>1 DEF Reflects
<1>2. CASE v.src # "hash"
  <2>1. v.n * Bucket + Bucket \in Int
    BY DurationAssumption DEF Token
  <2> QED BY <1>2, <2>1 DEF Reflects
<1> QED BY <1>1, <1>2

\* A fresh snapshot is a version for a read that asks now.
LEMMA FreshVersion ==
    ASSUME IInv, NEW k \in Key, Fresh(k.site)
    PROVE  /\ Asking(k, snapshot[k.site].token) \in Read
           /\ ReadOK(Asking(k, snapshot[k.site].token))
           /\ Versions(Asking(k, snapshot[k.site].token))
<1> DEFINE p == snapshot[k.site]
           c == Asking(k, p.token)
<1> USE NoneAssumption, DurationAssumption
<1>1. k.site \in Site /\ p \in Snapshot /\ SnapshotOK(k.site, p)
  BY DEF IInv, TypeOK, Fresh, Key, SnapshotsKnown
<1>2. p.token \in Token /\ p.token # None /\ p.at \in Nat
      /\ now \in 0 .. MaxTime
  BY <1>1 DEF Snapshot, IInv, TypeOK
<1>3. now - SnapshotTtl + 1 <= p.at
  BY <1>2 DEF Fresh
<1>4. Reflects(k.site, p.token, now - SnapshotTtl + 1)
  BY <1>1, <1>2, <1>3, ReflectsEarlier DEF IInv, SnapshotOK
<1>5. c \in Read
  BY <1>2 DEF Asking, Read, Phase
<1>6. Versions(c)
  BY <1>1, <1>2, <1>4 DEF Versions, Asking, SnapshotOK
<1>7. ReadOK(c)
  BY <1>2, <1>6 DEF ReadOK, Asking
<1> QED BY <1>5, <1>6, <1>7

\* A hash computed after the question is a version, and so is the bucket of
\* the question.
LEMMA PolledVersion ==
    ASSUME IInv, NEW r \in Reader, NEW v \in Token, read[r] # None,
           Known(read[r].key.site, v),
           Reflects(read[r].key.site, v, read[r].asked),
           read[r].phase \in {"polling", "polled"}
    PROVE  LET c == [read[r] EXCEPT !.token = v]
           IN  c \in Read /\ ReadOK(c) /\ Versions(c)
<1> DEFINE c == [read[r] EXCEPT !.token = v]
<1> USE NoneAssumption, DurationAssumption
<1>1. read[r] \in Read /\ ReadOK(read[r])
  BY DEF IInv, TypeOK, ReadsBacked
<1>2. c \in Read /\ c.asked = read[r].asked /\ c.phase = read[r].phase
      /\ c.key = read[r].key /\ c.token = v
  BY <1>1 DEF Read
<1>3. read[r].asked \in 0 .. MaxTime /\ read[r].key.site \in Site
  BY <1>1 DEF Read, Key
<1>4. Reflects(read[r].key.site, v, read[r].asked - SnapshotTtl + 1)
  BY <1>3, ReflectsEarlier DEF IInv
<1>5. Versions(c)
  BY <1>2, <1>4 DEF Versions
<1>6. ReadOK(c)
  BY <1>1, <1>2, <1>5 DEF ReadOK
<1> QED BY <1>2, <1>5, <1>6

\* The hash that Creatio computes is of the data model as it is.
LEMMA HashVersion ==
    ASSUME IInv, NEW s \in Site, NEW at \in Int
    PROVE  LET v == [src |-> "hash", n |-> model[s]]
           IN  v \in Token /\ Known(s, v) /\ Reflects(s, v, at)
  BY DEF IInv, TypeOK, PastBelow, Token, Known, Reflects

LEMMA BucketVersion ==
    ASSUME IInv, NEW s \in Site, NEW at \in 0 .. MaxTime, at <= now
    PROVE  LET v == [src |-> "bucket", n |-> at \div Bucket]
           IN  v \in Token /\ Known(s, v) /\ Reflects(s, v, at)
<1>1. at \in Nat /\ Bucket \in Nat \ {0} /\ now \in Nat
  BY DurationAssumption DEF IInv, TypeOK
<1>2. /\ at \div Bucket \in Nat
      /\ (at \div Bucket) * Bucket <= at
      /\ at < (at \div Bucket) * Bucket + Bucket
  BY <1>1, Buckets
<1>3. (at \div Bucket) * Bucket \in Int
  BY <1>1, <1>2
<1>4. (at \div Bucket) * Bucket <= now
  BY <1>1, <1>2, <1>3
<1> QED BY <1>2, <1>4 DEF Token, Known, Reflects

-----------------------------------------------------------------------------
(* What is known of a version, an entry or a read stays known: time passes  *)
(* and data models change, but not what they were.                         *)

Later ==
    /\ now <= now'
    /\ \A s \in Site : model[s] <= model'[s]
    /\ \A s \in Site, t \in 0 .. MaxTime : t < now => past'[s][t] = past[s][t]

LEMMA KnownLater ==
    ASSUME TypeOK, TypeOK', Later, NEW s \in Site, NEW v \in Token,
           Known(s, v)
    PROVE  Known(s, v)'
<1>1. v.n \in Nat /\ v.n * Bucket \in Int
  BY DurationAssumption DEF Token
<1>2. now \in Int /\ now' \in Int /\ model[s] \in Int /\ model'[s] \in Int
  BY DurationAssumption DEF TypeOK
<1> QED BY <1>1, <1>2 DEF Known, Later

LEMMA ReflectsLater ==
    ASSUME TypeOK, TypeOK', Later, NEW s \in Site, NEW v \in Token,
           NEW at \in Int, at <= now, Reflects(s, v, at)
    PROVE  Reflects(s, v, at)'
<1>1. now \in Int /\ \A t \in 0 .. MaxTime : t < at => t < now
  BY DurationAssumption DEF TypeOK
<1> QED BY <1>1 DEF Reflects, Later

LEMMA BacksLater ==
    ASSUME TypeOK, TypeOK', Later, NEW s \in Site, NEW v \in Token, NEW x,
           Known(s, v), Backs(s, v, x)
    PROVE  Backs(s, v, x)'
<1>1. CASE v.src = "hash"
  BY <1>1 DEF Backs
<1>2. CASE v.src # "hash"
  <2>1. now \in Int /\ v.n * Bucket \in Int /\ v.n * Bucket <= now
    BY <1>2, DurationAssumption DEF TypeOK, Token, Known
  <2>2. \A t \in 0 .. MaxTime : t < v.n * Bucket => t < now
    BY <2>1
  <2> QED BY <1>2, <2>2 DEF Backs, Later
<1> QED BY <1>1, <1>2

LEMMA ReadLater ==
    ASSUME TypeOK, TypeOK', Later, NEW c \in Read, ReadOK(c)
    PROVE  ReadOK(c)'
<1> USE NoneAssumption, DurationAssumption
<1>1. c.key.site \in Site /\ c.asked \in 0 .. MaxTime /\ c.asked <= now
  BY DEF Read, Key, ReadOK
<1>2. now \in Int /\ now' \in Int /\ now <= now'
  BY DEF TypeOK, Later
<1>3. ASSUME c.phase # "polling"
      PROVE  c.token \in Token /\ Versions(c) /\ Versions(c)'
  <2>1. c.token \in Token /\ Versions(c)
    BY <1>3 DEF Read, ReadOK, Versions
  <2>2. c.asked - SnapshotTtl + 1 <= now
    BY <1>1, <1>2
  <2> QED BY <1>1, <2>1, <2>2, KnownLater, ReflectsLater DEF Versions
<1>4. ASSUME c.phase = "polled"
      PROVE  Reflects(c.key.site, c.token, c.asked)'
  BY <1>1, <1>3, <1>4, ReflectsLater DEF ReadOK
<1>5. ASSUME c.phase \in {"answered", "served"}
      PROVE  Result(c)'
  BY <1>1, <1>3, <1>5, BacksLater DEF ReadOK, Result, Versions
<1>6. c.asked <= now'
  BY <1>1, <1>2
<1> QED BY <1>3, <1>4, <1>5, <1>6 DEF ReadOK

LEMMA BoxLater ==
    ASSUME TypeOK, TypeOK', Later, NEW k \in Key, NEW b \in Box, BoxOK(k, b)
    PROVE  BoxOK(k, b)'
<1>1. k.site \in Site /\ b.version \in Token
  BY DEF Key, Box
<1> QED BY <1>1, KnownLater, BacksLater DEF BoxOK

LEMMA SnapshotLater ==
    ASSUME TypeOK, TypeOK', Later, NEW s \in Site, NEW p \in Snapshot,
           SnapshotOK(s, p)
    PROVE  SnapshotOK(s, p)'
<1>1. p.token \in Token /\ p.at \in Nat /\ p.at <= now
  BY DEF Snapshot, SnapshotOK
<1>2. p.at <= now'
  BY <1>1, DurationAssumption DEF Later, TypeOK
<1> QED BY <1>1, <1>2, KnownLater, ReflectsLater DEF SnapshotOK

\* Every step lets what is known be known.
LEMMA StepLater ==
    ASSUME IInv, TypeOK', [Next]_vars
    PROVE  Later /\ PastBelow'
<1>1. /\ now \in Int
      /\ \A s \in Site : model[s] \in Int /\ model'[s] \in Int
      /\ \A s \in Site, t \in 0 .. MaxTime : past[s][t] \in Int
  BY DurationAssumption DEF IInv, TypeOK
<1>2. \A s \in Site, t \in 0 .. MaxTime : past[s][t] <= model[s]
  BY DEF IInv, PastBelow
<1>3. CASE UNCHANGED <<now, creatio>>
  BY <1>1, <1>2, <1>3 DEF Later, PastBelow, creatio
<1>4. CASE Tick
  <2>1. \A s \in Site, t \in 0 .. MaxTime :
           past'[s][t] = IF t = now THEN model[s] ELSE past[s][t]
    BY <1>4 DEF Tick, IInv, TypeOK
  <2>2. model' = model /\ now' = now + 1
    BY <1>4 DEF Tick
  <2> QED BY <1>1, <1>2, <2>1, <2>2 DEF Later, PastBelow
<1>5. ASSUME NEW s \in Site, ChangeModel(s)
      PROVE  Later /\ PastBelow'
  <2>1. now' = now /\ past' = past
        /\ \A z \in Site : model'[z] = IF z = s THEN model[z] + 1 ELSE model[z]
    BY <1>5 DEF ChangeModel, IInv, TypeOK
  <2>2. \A z \in Site : model[z] <= model'[z]
    BY <1>1, <2>1
  <2> QED BY <1>1, <1>2, <2>1, <2>2 DEF Later, PastBelow
<1> QED
  BY <1>3, <1>4, <1>5
  DEF Next, vars, Ask, Begin, CreatioHashes, PollEnds, PollFails, Versioned,
      CreatioSchema, Nest, NestEnds, Loaded, LoadFails, NestFails, Return,
      Restart

-----------------------------------------------------------------------------
(* getOrLoad. *)

\* What becomes of a read c that knows its version.
LooksUp(c, d) ==
    /\ ReadOK(d) /\ d.key = c.key /\ d.token = c.token
    /\ \/ d.phase = "served"
       \/ d.phase = "joined" /\ d.peer \in Flight(c.key, c.token)
       \/ d.phase = "loading" /\ Flight(c.key, c.token) = {}

LEMMA LookupRead ==
    ASSUME IInv, NEW r \in Reader, NEW c \in Read, Versions(c), ReadOK(c),
           NEW rd, Lookup(r, c, rd)
    PROVE  \E d \in Read : LooksUp(c, d) /\ read' = [rd EXCEPT ![r] = d]
<1> USE NoneAssumption
<1>1. CASE Hit(r, c, rd)
  <2> DEFINE b == entries[c.key]
             d == Served(c, b.value)
  <2>1. c.key \in Key /\ b # None /\ b.version = c.token
    BY <1>1 DEF Hit, Valid, Read
  <2>2. b \in Box /\ BoxOK(c.key, b) /\ b.value \in Nat
    BY <2>1 DEF IInv, TypeOK, EntriesBacked, Box
  <2>3. d \in Read /\ d.phase = "served" /\ d.got = b.value
        /\ d.key = c.key /\ d.token = c.token /\ d.asked = c.asked
    BY <2>2 DEF Served, Read, Phase
  <2>4. Result(d)
    BY <2>1, <2>2, <2>3 DEF Result, BoxOK
  <2>5. ReadOK(d)
    BY <2>3, <2>4 DEF ReadOK, Versions
  <2> QED BY <1>1, <2>3, <2>5 DEF Hit, LooksUp
<1>2. CASE Join(r, c, rd)
  <2>1. PICK q \in Flight(c.key, c.token) :
           read' = [rd EXCEPT ![r] = [c EXCEPT !.phase = "joined", !.peer = q]]
    BY <1>2 DEF Join
  <2> DEFINE d == [c EXCEPT !.phase = "joined", !.peer = q]
  <2>2. q \in Reader /\ q # None
    BY <2>1 DEF Flight
  <2>3. d \in Read /\ d.phase = "joined" /\ d.peer = q
        /\ d.key = c.key /\ d.token = c.token /\ d.asked = c.asked
    BY <2>2 DEF Read, Phase
  <2>4. ReadOK(d)
    BY <2>2, <2>3 DEF ReadOK, Versions
  <2> QED BY <2>1, <2>3, <2>4 DEF LooksUp
<1>3. CASE Load(r, c, rd)
  <2> DEFINE d == [c EXCEPT !.phase = "loading"]
  <2>1. d \in Read /\ d.phase = "loading"
        /\ d.key = c.key /\ d.token = c.token /\ d.asked = c.asked
    BY DEF Read, Phase
  <2>2. ReadOK(d)
    BY <2>1 DEF ReadOK, Versions
  <2> QED BY <1>3, <2>1, <2>2 DEF Load, LooksUp
<1> QED BY <1>1, <1>2, <1>3 DEF Lookup

LEMMA LookupEntries ==
    ASSUME IInv, NEW r \in Reader, NEW c \in Read, NEW rd, Lookup(r, c, rd)
    PROVE  /\ entries' \in [Key -> Box \cup {None}]
           /\ \A k \in Key : entries'[k] # None => BoxOK(k, entries'[k])
<1> USE NoneAssumption
<1>1. CASE UNCHANGED entries
  BY <1>1 DEF IInv, TypeOK, EntriesBacked
<1>2. CASE Hit(r, c, rd)
  <2> DEFINE b == entries[c.key]
             a == [b EXCEPT !.lastAccess = now]
  <2>1. c.key \in Key /\ b # None /\ b \in Box /\ BoxOK(c.key, b)
        /\ now \in Nat
    BY <1>2, DurationAssumption
    DEF Hit, Valid, Read, IInv, TypeOK, EntriesBacked
  <2>2. a \in Box /\ a.version = b.version /\ a.value = b.value
    BY <2>1 DEF Box
  <2>3. BoxOK(c.key, a)
    BY <2>1, <2>2 DEF BoxOK
  <2>4. entries' = [entries EXCEPT ![c.key] = a]
    BY <1>2 DEF Hit
  <2> QED BY <2>1, <2>2, <2>3, <2>4 DEF IInv, TypeOK, EntriesBacked
<1> QED BY <1>1, <1>2 DEF Lookup, Join, Load

\* A read that begins.
LEMMA BeginRead ==
    ASSUME IInv, NEW r \in Reader, NEW k \in Key, NEW rd, Begin(r, k, rd)
    PROVE  /\ entries' \in [Key -> Box \cup {None}]
           /\ \A j \in Key : entries'[j] # None => BoxOK(j, entries'[j])
           /\ \E d \in Read :
                 /\ ReadOK(d) /\ read' = [rd EXCEPT ![r] = d]
                 /\ \/ d.phase = "polling"
                    \/ LooksUp(d, d)
<1>1. CASE Fresh(k.site) /\ Lookup(r, Asking(k, snapshot[k.site].token), rd)
  <2> DEFINE c == Asking(k, snapshot[k.site].token)
  <2>1. c \in Read /\ ReadOK(c) /\ Versions(c)
    BY <1>1, FreshVersion
  <2>2. PICK d \in Read : LooksUp(c, d) /\ read' = [rd EXCEPT ![r] = d]
    BY <1>1, <2>1, LookupRead
  <2>3. LooksUp(d, d)
    BY <2>2 DEF LooksUp
  <2> QED BY <1>1, <2>1, <2>2, <2>3, LookupEntries DEF LooksUp
<1>2. CASE UNCHANGED entries /\ read' = [rd EXCEPT ![r] = Asking(k, None)]
  <2> DEFINE d == Asking(k, None)
  <2>1. d \in Read
    BY DEF Asking, Read, Phase, IInv, TypeOK
  <2>2. ReadOK(d) /\ d.phase = "polling"
    BY DurationAssumption DEF ReadOK, Asking, IInv, TypeOK
  <2> QED BY <1>2, <2>1, <2>2 DEF IInv, TypeOK, EntriesBacked
<1> QED BY <1>1, <1>2 DEF Begin

\* A read that gets its version from a poll.
LEMMA VersionedRead ==
    ASSUME IInv, NEW r \in Reader, NEW v \in Token, read[r] # None,
           Known(read[r].key.site, v),
           Reflects(read[r].key.site, v, read[r].asked),
           read[r].phase \in {"polling", "polled"}, Versioned(r, v)
    PROVE  /\ entries' \in [Key -> Box \cup {None}]
           /\ \A j \in Key : entries'[j] # None => BoxOK(j, entries'[j])
           /\ \E d \in Read :
                 ReadOK(d) /\ LooksUp(d, d) /\ read' = [read EXCEPT ![r] = d]
           /\ snapshot' \in [Site -> Snapshot \cup {None}]
           /\ \A s \in Site : snapshot'[s] # None => SnapshotOK(s, snapshot'[s])
<1> DEFINE c == [read[r] EXCEPT !.token = v]
           s == read[r].key.site
           p == SnapshotOf(r, v)
<1>1. c \in Read /\ ReadOK(c) /\ Versions(c)
  BY PolledVersion
<1>2. PICK d \in Read : LooksUp(c, d) /\ read' = [read EXCEPT ![r] = d]
  BY <1>1, LookupRead DEF Versioned
<1>3. LooksUp(d, d)
  BY <1>2 DEF LooksUp
<1>4. s \in Site /\ read[r].asked \in Nat /\ read[r].asked <= now
  BY NoneAssumption, DurationAssumption
  DEF IInv, TypeOK, ReadsBacked, Read, Key, ReadOK
<1>5. p \in Snapshot /\ SnapshotOK(s, p)
  BY <1>4 DEF SnapshotOf, Snapshot, SnapshotOK
<1>6. snapshot' = [snapshot EXCEPT ![s] = p]
  BY DEF Versioned
<1>7. /\ snapshot' \in [Site -> Snapshot \cup {None}]
      /\ \A z \in Site : snapshot'[z] # None => SnapshotOK(z, snapshot'[z])
  BY <1>4, <1>5, <1>6 DEF IInv, TypeOK, SnapshotsKnown
<1> QED BY <1>1, <1>2, <1>3, <1>7, LookupEntries DEF Versioned, LooksUp

-----------------------------------------------------------------------------
(* What every step makes of the reads, the entries and the snapshots.      *)

ReadsOK(f) ==
    /\ f \in [Reader -> Read \cup {None}]
    /\ \A w \in Reader : f[w] # None => ReadOK(f[w])

EntriesOK(e) ==
    /\ e \in [Key -> Box \cup {None}]
    /\ \A k \in Key : e[k] # None => BoxOK(k, e[k])

SnapshotsOK(p) ==
    /\ p \in [Site -> Snapshot \cup {None}]
    /\ \A s \in Site : p[s] # None => SnapshotOK(s, p[s])

LEMMA PartsOK ==
    ASSUME IInv
    PROVE  ReadsOK(read) /\ EntriesOK(entries) /\ SnapshotsOK(snapshot)
  BY DEF IInv, TypeOK, ReadsOK, EntriesOK, SnapshotsOK, ReadsBacked,
         EntriesBacked, SnapshotsKnown

LEMMA OneRead ==
    ASSUME NEW f, ReadsOK(f), NEW r \in Reader,
           \E d \in Read : ReadOK(d) /\ read' = [f EXCEPT ![r] = d]
    PROVE  ReadsOK(read')
  BY DEF ReadsOK

LEMMA EndedRead ==
    ASSUME NEW f, ReadsOK(f), NEW r \in Reader,
           read' = [f EXCEPT ![r] = None]
    PROVE  ReadsOK(read')
  BY DEF ReadsOK

\* A read that is answered with the schema x.
LEMMA AnsweredRead ==
    ASSUME NEW c \in Read, ReadOK(c), c.phase # "polling", NEW x \in Nat,
           c.key.of # List => Backs(c.key.site, c.token, x),
           NEW p \in {"answered", "served"}
    PROVE  LET d == [c EXCEPT !.phase = p, !.got = x]
           IN  d \in Read /\ ReadOK(d)
<1> DEFINE d == [c EXCEPT !.phase = p, !.got = x]
<1>1. d \in Read /\ d.phase = p /\ d.got = x /\ d.key = c.key
      /\ d.token = c.token /\ d.asked = c.asked
  BY DEF Read, Phase
<1>2. x # None
  BY NoneAssumption
<1> QED BY <1>1, <1>2 DEF ReadOK, Versions, Result

LEMMA FailedRead ==
    ASSUME NEW c \in Read, ReadOK(c), c.phase # "polling"
    PROVE  Failed(c) \in Read /\ ReadOK(Failed(c))
<1>1. Failed(c) \in Read /\ Failed(c).phase = "failed"
      /\ Failed(c).key = c.key /\ Failed(c).token = c.token
      /\ Failed(c).asked = c.asked
  BY DEF Failed, Read, Phase
<1> QED BY <1>1 DEF ReadOK, Versions

\* Who awaits the load of q wants the schema and the version it is of.
LEMMA WaitingAlike ==
    ASSUME IInv, NEW q \in Reader, Leading(q), NEW w \in Waiting(q)
    PROVE  /\ w \in Reader /\ read[w] # None
           /\ read[w] \in Read /\ ReadOK(read[w])
           /\ read[w].key = read[q].key /\ read[w].token = read[q].token
           /\ read[w].phase # "polling"
  BY DEF IInv, TypeOK, ReadsBacked, Waiting, SharedLoads, Flight, In, Leading

LEMMA StoreEntries ==
    ASSUME IInv, NEW k \in Key, NEW x \in Nat, NEW v \in Token,
           BoxOK(k, BoxFor(x, v)), Store(k, x, v)
    PROVE  EntriesOK(entries')
<1> DEFINE e == [entries EXCEPT ![k] = BoxFor(x, v)]
           kept == Kept(k, e, Placed(k))
<1>1. BoxFor(x, v) \in Box
  BY DurationAssumption DEF BoxFor, Box, IInv, TypeOK
<1>2. EntriesOK(e)
  BY <1>1, PartsOK DEF EntriesOK
<1>3. entries' = [j \in Key |-> IF j \in kept THEN e[j] ELSE None]
  BY DEF Store
<1> HIDE DEF e, kept
<1> QED BY <1>2, <1>3 DEF EntriesOK

LEMMA PartsStep ==
    ASSUME IInv, [Next]_vars
    PROVE  ReadsOK(read') /\ EntriesOK(entries') /\ SnapshotsOK(snapshot')
<1> DEFINE Goal == ReadsOK(read') /\ EntriesOK(entries')
                   /\ SnapshotsOK(snapshot')
<1> USE NoneAssumption
<1>a. ReadsOK(read) /\ EntriesOK(entries) /\ SnapshotsOK(snapshot)
  BY PartsOK
<1>b. \A r \in Reader : read[r] # None => read[r] \in Read /\ ReadOK(read[r])
  BY <1>a DEF ReadsOK
<1>c. \A c \in Read : c.key \in Key /\ c.key.site \in Site
                      /\ c.asked \in 0 .. MaxTime
                      /\ (c.phase # "polling" /\ ReadOK(c) => c.token \in Token)
  BY DEF Read, Key, ReadOK, Versions
<1>1. ASSUME NEW r \in Reader, NEW k \in Key, Ask(r, k)
      PROVE  Goal
  <2>1. EntriesOK(entries') /\ \E d \in Read :
           ReadOK(d) /\ read' = [read EXCEPT ![r] = d]
    BY <1>1, BeginRead DEF Ask, EntriesOK
  <2>2. ReadsOK(read')
    BY <1>a, <2>1, OneRead
  <2> QED BY <1>1, <1>a, <2>1, <2>2 DEF Ask, Begin
<1>2. ASSUME NEW r \in Reader, CreatioHashes(r)
      PROVE  Goal
  <2> DEFINE s == read[r].key.site
             v == [src |-> "hash", n |-> model[s]]
             c == [read[r] EXCEPT !.token = v]
             d == [c EXCEPT !.phase = "polled"]
  <2>1. read[r] # None /\ read[r].phase = "polling"
    BY <1>2 DEF CreatioHashes, In
  <2>2. read[r] \in Read /\ s \in Site /\ read[r].asked \in Int
    BY <1>b, <1>c, <2>1
  <2>3. v \in Token /\ Known(s, v) /\ Reflects(s, v, read[r].asked)
    BY <2>2, HashVersion
  <2>4. c \in Read /\ ReadOK(c) /\ Versions(c)
    BY <2>1, <2>3, PolledVersion
  <2>5. d \in Read /\ d.phase = "polled" /\ d.token = v
        /\ d.asked = c.asked /\ d.key = read[r].key /\ c.asked = read[r].asked
        /\ c.key = read[r].key /\ c.token = v
    BY <2>2, <2>3 DEF Read, Phase
  <2>6. ReadOK(d)
    BY <2>3, <2>4, <2>5 DEF ReadOK, Versions
  <2>7. d = [read[r] EXCEPT !.phase = "polled", !.token = v]
    BY <2>2 DEF Read
  <2>8. read' = [read EXCEPT ![r] = d]
    BY <1>2, <2>7 DEF CreatioHashes
  <2>9. ReadsOK(read')
    BY <1>a, <2>5, <2>6, <2>8, OneRead
  <2> QED BY <1>2, <1>a, <2>9 DEF CreatioHashes, cache
<1>3. ASSUME NEW r \in Reader, NEW v \in Token, read[r] # None,
             Known(read[r].key.site, v),
             Reflects(read[r].key.site, v, read[r].asked),
             read[r].phase \in {"polling", "polled"}, Versioned(r, v)
      PROVE  Goal
  <2>1. /\ EntriesOK(entries') /\ SnapshotsOK(snapshot')
        /\ \E d \in Read : ReadOK(d) /\ read' = [read EXCEPT ![r] = d]
    BY <1>3, VersionedRead DEF EntriesOK, SnapshotsOK
  <2> QED BY <1>a, <2>1, OneRead
<1>4. ASSUME NEW r \in Reader, PollEnds(r)
      PROVE  Goal
  <2>1. read[r] # None /\ read[r].phase = "polled"
        /\ Versioned(r, read[r].token)
    BY <1>4 DEF PollEnds, In
  <2>2. read[r].token \in Token /\ Known(read[r].key.site, read[r].token)
        /\ Reflects(read[r].key.site, read[r].token, read[r].asked)
    BY <1>b, <1>c, <2>1 DEF ReadOK, Versions
  <2> QED BY <1>3, <2>1, <2>2
<1>5. ASSUME NEW r \in Reader, PollFails(r)
      PROVE  Goal
  <2> DEFINE v == [src |-> "bucket", n |-> read[r].asked \div Bucket]
  <2>1. read[r] # None /\ read[r].phase = "polling" /\ Versioned(r, v)
    BY <1>5 DEF PollFails, In
  <2>2. read[r].key.site \in Site /\ read[r].asked \in 0 .. MaxTime
        /\ read[r].asked <= now
    BY <1>b, <1>c, <2>1 DEF ReadOK
  <2>3. v \in Token /\ Known(read[r].key.site, v)
        /\ Reflects(read[r].key.site, v, read[r].asked)
    BY <2>2, BucketVersion
  <2> HIDE DEF v
  <2> QED BY <1>3, <2>1, <2>3
<1>6. ASSUME NEW q \in Reader, CreatioSchema(q)
      PROVE  Goal
  <2> DEFINE s == read[q].key.site
             d == [read[q] EXCEPT !.phase = "answered", !.got = model[s]]
  <2>1. read[q] # None /\ read[q].phase = "loading"
    BY <1>6 DEF CreatioSchema, In
  <2>2. read[q] \in Read /\ ReadOK(read[q]) /\ s \in Site
        /\ read[q].token \in Token /\ Known(s, read[q].token)
    BY <1>b, <1>c, <2>1 DEF ReadOK, Versions
  <2>3. model[s] \in Nat /\ Backs(s, read[q].token, model[s])
    BY <2>2 DEF Backs, Known, IInv, TypeOK, PastBelow
  <2>4. d \in Read /\ ReadOK(d)
    BY <2>1, <2>2, <2>3, AnsweredRead
  <2>5. read' = [read EXCEPT ![q] = d]
    BY <1>6 DEF CreatioSchema
  <2> QED BY <1>6, <1>a, <2>4, <2>5, OneRead DEF CreatioSchema, cache
<1>7. ASSUME NEW q \in Reader, NEW r \in Reader, Nest(q, r)
      PROVE  Goal
  <2> DEFINE d == [read[q] EXCEPT !.phase = "nested", !.peer = r]
             rd == [read EXCEPT ![q] = d]
             k == [read[q].key EXCEPT !.of = Doc]
  <2>1. read[q] # None /\ read[q].phase = "loading" /\ read[q].key.of = List
    BY <1>7 DEF Nest, In
  <2>2. read[q] \in Read /\ ReadOK(read[q]) /\ read[q].key \in Key
    BY <1>b, <1>c, <2>1
  <2>3. k \in Key
    BY <2>1, <2>2, KeyAssumption DEF Key
  <2>4. d \in Read /\ d.phase = "nested" /\ d.peer = r /\ d.key = read[q].key
        /\ d.token = read[q].token /\ d.asked = read[q].asked
    BY <2>2 DEF Read, Phase
  <2>5. ReadOK(d)
    BY <2>1, <2>2, <2>4 DEF ReadOK, Versions
  <2>6. ReadsOK(rd)
    BY <1>a, <2>4, <2>5 DEF ReadsOK
  <2>7. Begin(r, k, rd)
    BY <1>7 DEF Nest
  <2> HIDE DEF rd, k
  <2>8. EntriesOK(entries') /\ \E e \in Read :
           ReadOK(e) /\ read' = [rd EXCEPT ![r] = e]
    BY <2>3, <2>7, BeginRead DEF EntriesOK
  <2>9. ReadsOK(read')
    BY <2>6, <2>8, OneRead
  <2> QED BY <1>a, <2>7, <2>8, <2>9 DEF Begin
<1>8. ASSUME NEW q \in Reader, NestEnds(q)
      PROVE  Goal
  <2> DEFINE x == read[read[q].peer].got
             d == [read[q] EXCEPT !.phase = "answered", !.got = x]
  <2>1. read[q] # None /\ read[q].phase = "nested"
    BY <1>8 DEF NestEnds, In
  <2>2. read[q] \in Read /\ ReadOK(read[q]) /\ read[q].key.of = List
        /\ read[q].peer \in Reader
    BY <1>b, <2>1 DEF ReadOK, Read
  <2>3. read[read[q].peer] # None /\ read[read[q].peer].phase = "served"
    BY <1>8 DEF NestEnds, In
  <2>4. x \in Nat
    BY <1>b, <2>2, <2>3 DEF ReadOK, Result, Read
  <2>5. d \in Read /\ ReadOK(d)
    BY <2>1, <2>2, <2>4, AnsweredRead
  <2>6. read' = [[read EXCEPT ![q] = d] EXCEPT ![read[q].peer] = None]
    BY <1>8 DEF NestEnds
  <2>7. ReadsOK([read EXCEPT ![q] = d])
    BY <1>a, <2>5 DEF ReadsOK
  <2>8. ReadsOK(read')
    BY <2>2, <2>6, <2>7, EndedRead
  <2> QED BY <1>8, <1>a, <2>8 DEF NestEnds, cache
<1>9. ASSUME NEW q \in Reader, Loaded(q)
      PROVE  Goal
  <2> DEFINE x == read[q].got
  <2>1. read[q] # None /\ read[q].phase = "answered" /\ Leading(q)
    BY <1>9 DEF Loaded, In, Leading
  <2>2. read[q] \in Read /\ Versions(read[q]) /\ Result(read[q])
    BY <1>b, <2>1 DEF ReadOK
  <2>3. x \in Nat /\ read[q].key \in Key /\ read[q].token \in Token
        /\ (read[q].key.of # List => Backs(read[q].key.site, read[q].token, x))
    BY <2>2 DEF Result, Versions, Read
  <2>4. BoxOK(read[q].key, BoxFor(x, read[q].token))
    BY <2>2, <2>3 DEF BoxOK, BoxFor, Versions
  <2>5. EntriesOK(entries')
    BY <1>9, <2>3, <2>4, StoreEntries DEF Loaded
  <2>6. \A w \in Waiting(q) :
           Served(read[w], x) \in Read /\ ReadOK(Served(read[w], x))
    BY <2>1, <2>3, WaitingAlike, AnsweredRead DEF Served
  <2>7. read' = [w \in Reader |->
           IF w \in Waiting(q) THEN Served(read[w], x) ELSE read[w]]
    BY <1>9 DEF Loaded
  <2> HIDE DEF x
  <2>8. ReadsOK(read')
    BY <1>a, <2>6, <2>7 DEF ReadsOK
  <2> QED BY <1>9, <1>a, <2>5, <2>8 DEF Loaded
<1>10. ASSUME NEW q \in Reader, LoadFails(q) \/ NestFails(q)
       PROVE  Goal
  <2>1. Leading(q)
    BY <1>10 DEF LoadFails, NestFails, In, Leading
  <2>2. \A w \in Waiting(q) : Failed(read[w]) \in Read /\ ReadOK(Failed(read[w]))
    BY <2>1, WaitingAlike, FailedRead
  <2>3. /\ read' \in [Reader -> {read'[w] : w \in Reader}]
        /\ \A w \in Reader :
              IF w \in Waiting(q) THEN read'[w] = Failed(read[w])
              ELSE read'[w] \in {read[w], None}
    BY <1>10 DEF LoadFails, NestFails
  <2>4. ReadsOK(read')
    BY <1>a, <2>2, <2>3 DEF ReadsOK
  <2> QED BY <1>10, <1>a, <2>4 DEF LoadFails, NestFails, cache
<1>11. ASSUME NEW r \in Reader, Return(r)
       PROVE  Goal
  BY <1>11, <1>a, EndedRead DEF Return, cache
<1>12. CASE Restart
  BY <1>12 DEF Restart, ReadsOK, EntriesOK, SnapshotsOK
<1>13. ASSUME NEW s \in Site, ChangeModel(s)
       PROVE  Goal
  BY <1>13, <1>a DEF ChangeModel, cache
<1>14. CASE Tick \/ UNCHANGED vars
  BY <1>14, <1>a DEF Tick, vars, cache
<1> QED
  BY <1>1, <1>2, <1>4, <1>5, <1>6, <1>7, <1>8, <1>9, <1>10, <1>11, <1>12,
     <1>13, <1>14
  DEF Next

-----------------------------------------------------------------------------
(* Types. *)

LEMMA TypeStep == IInv /\ [Next]_vars => TypeOK'
<1> SUFFICES ASSUME IInv, [Next]_vars
             PROVE  TypeOK'
  OBVIOUS
<1> USE DurationAssumption
<1>1. /\ read' \in [Reader -> Read \cup {None}]
      /\ entries' \in [Key -> Box \cup {None}]
      /\ snapshot' \in [Site -> Snapshot \cup {None}]
  BY PartsStep DEF ReadsOK, EntriesOK, SnapshotsOK
<1>2. /\ now \in 0 .. MaxTime /\ model \in [Site -> Nat]
      /\ past \in [Site -> [0 .. MaxTime -> Nat]]
      /\ ahead \in [Key -> SUBSET Key] /\ begun \in Nat
  BY DEF IInv, TypeOK
<1>3. ASSUME NEW k \in Key, NEW x, NEW v, Store(k, x, v)
      PROVE  ahead' \in [Key -> SUBSET Key]
  <2> DEFINE kept == Kept(k, [entries EXCEPT ![k] = BoxFor(x, v)], Placed(k))
  <2>1. Placed(k) \in [Key -> SUBSET Key]
    BY <1>2 DEF Placed, Present
  <2>2. ahead' = [j \in Key |-> IF j \in kept THEN Placed(k)[j] \cap kept ELSE {}]
    BY <1>3 DEF Store
  <2> HIDE DEF kept
  <2> QED BY <2>1, <2>2
<1>4. ASSUME NEW q \in Reader, Loaded(q)
      PROVE  ahead' \in [Key -> SUBSET Key]
  <2>1. read[q].key \in Key
    BY <1>4 DEF Loaded, In, IInv, TypeOK, Read
  <2> QED BY <1>3, <1>4, <2>1 DEF Loaded
<1>5. /\ now' \in 0 .. MaxTime /\ model' \in [Site -> Nat]
      /\ past' \in [Site -> [0 .. MaxTime -> Nat]]
      /\ ahead' \in [Key -> SUBSET Key] /\ begun' \in Nat
  <2>1. CASE Restart
    BY <1>2, <2>1 DEF Restart, creatio
  <2>2. CASE \E s \in Site : ChangeModel(s)
    BY <1>2, <2>2 DEF ChangeModel, cache
  <2>3. CASE Tick
    BY <1>2, <2>3 DEF Tick, cache
  <2>4. CASE \E q \in Reader : Loaded(q)
    BY <1>2, <1>4, <2>4 DEF Loaded, creatio
  <2>5. CASE UNCHANGED <<now, creatio, ahead>> /\ begun' \in {begun, begun + 1}
    BY <1>2, <2>5 DEF creatio
  <2>6. ASSUME NEW r \in Reader, NEW k, NEW rd, Begin(r, k, rd)
        PROVE  UNCHANGED <<now, creatio, ahead>> /\ begun' \in {begun, begun + 1}
    BY <2>6 DEF Begin
  <2>7. ASSUME NEW r \in Reader,
               \/ CreatioHashes(r) \/ PollEnds(r) \/ PollFails(r)
               \/ CreatioSchema(r) \/ NestEnds(r) \/ LoadFails(r)
               \/ NestFails(r) \/ Return(r)
        PROVE  UNCHANGED <<now, creatio, ahead, begun>>
    BY <2>7 DEF CreatioHashes, PollEnds, PollFails, Versioned, CreatioSchema,
                NestEnds, LoadFails, NestFails, Return, cache
  <2>8. CASE UNCHANGED vars
    BY <2>5, <2>8 DEF vars, cache
  <2>9. CASE \E r \in Reader : (\E k \in Key : Ask(r, k))
                               \/ (\E q \in Reader : Nest(q, r))
    BY <2>5, <2>6, <2>9 DEF Ask, Nest
  <2> QED
    BY <2>1, <2>2, <2>3, <2>4, <2>5, <2>7, <2>8, <2>9 DEF Next
<1> QED BY <1>1, <1>5 DEF TypeOK

-----------------------------------------------------------------------------
(* Single flight. *)

Same(w) ==
    /\ read[w] # None /\ read'[w] # None
    /\ read'[w].key = read[w].key /\ read'[w].token = read[w].token

\* No load begins and none ends that is still awaited.
Keeping ==
    \A w \in Reader :
        /\ Leading(w)' => Leading(w) /\ Same(w)
        /\ In(w, "joined")' => /\ In(w, "joined") /\ Same(w)
                               /\ read'[w].peer = read[w].peer
                               /\ Leading(read[w].peer)'

LEMMA SharedKept ==
    ASSUME SharedLoads, Keeping
    PROVE  SharedLoads'
<1>1. ASSUME NEW w \in Reader, In(w, "joined")'
      PROVE  (read[w].peer \in Flight(read[w].key, read[w].token))'
  <2>1. read[w].peer \in Flight(read[w].key, read[w].token)
    BY <1>1 DEF Keeping, SharedLoads
  <2>2. read'[w].peer = read[w].peer /\ Same(w) /\ Leading(read[w].peer)'
    BY <1>1 DEF Keeping
  <2>3. read[w].peer \in Reader /\ Same(read[w].peer)
    BY <2>1, <2>2 DEF Keeping, Flight
  <2> QED BY <2>1, <2>2, <2>3 DEF Flight, Same
<1>2. ASSUME NEW p \in Reader, NEW q \in Reader, Leading(p)',
             (q \in Flight(read[p].key, read[p].token))'
      PROVE  p = q
  <2>1. Leading(q)' /\ read'[q].key = read'[p].key
        /\ read'[q].token = read'[p].token
    BY <1>2 DEF Flight
  <2>2. Leading(p) /\ Same(p) /\ Leading(q) /\ Same(q)
    BY <1>2, <2>1 DEF Keeping
  <2> QED BY <2>1, <2>2 DEF SharedLoads, Flight, Same
<1> QED BY <1>1, <1>2 DEF SharedLoads

\* r looks its schema up, another read being possibly nested by then.
LEMMA SharedLookup ==
    ASSUME SharedLoads, NEW r \in Reader, ~Leading(r),
           NEW rd, DOMAIN rd = Reader, rd = [w \in Reader |-> rd[w]],
           \A w \in Reader \ {r} :
              \/ rd[w] = read[w]
              \/ /\ In(w, "loading") /\ rd[w] # None
                 /\ rd[w].phase = "nested" /\ rd[w].key = read[w].key
                 /\ rd[w].token = read[w].token,
           NEW d, LooksUp(d, d), d # None, read' = [rd EXCEPT ![r] = d]
    PROVE  SharedLoads'
<1>1. read'[r] = d /\ \A w \in Reader \ {r} : read'[w] = rd[w]
  OBVIOUS
<1>2. \A w \in Reader \ {r} : (Leading(w)' <=> Leading(w))
                              /\ (Leading(w) => Same(w))
  BY <1>1 DEF Leading, Same, In
<1>3. \A w \in Reader \ {r} : In(w, "joined")' => In(w, "joined") /\ read'[w] = read[w]
  BY <1>1 DEF In
<1>4. d.phase \in {"served", "joined", "loading"}
  BY DEF LooksUp
<1>5. ASSUME NEW w \in Reader, In(w, "joined")'
      PROVE  (read[w].peer \in Flight(read[w].key, read[w].token))'
  <2>1. CASE w = r
    <3>1. d.peer \in Flight(d.key, d.token)
      BY <1>1, <1>5, <2>1 DEF In, LooksUp
    <3>2. d.peer \in Reader \ {r} /\ Leading(d.peer)
      BY <3>1 DEF Flight
    <3> QED BY <1>1, <1>2, <2>1, <3>1, <3>2 DEF Flight, Same
  <2>2. CASE w # r
    <3>1. read'[w] = read[w]
          /\ read[w].peer \in Flight(read[w].key, read[w].token)
      BY <1>3, <1>5, <2>2 DEF SharedLoads
    <3>2. read[w].peer \in Reader \ {r} /\ Leading(read[w].peer)
      BY <3>1 DEF Flight
    <3> QED BY <1>2, <3>1, <3>2 DEF Flight, Same
  <2> QED BY <2>1, <2>2
<1>6. ASSUME NEW q \in Reader \ {r}, Leading(r)', Leading(q)'
      PROVE  ~(read'[q].key = d.key /\ read'[q].token = d.token)
  <2>1. Flight(d.key, d.token) = {}
    BY <1>1, <1>4, <1>6 DEF Leading, LooksUp
  <2>2. q \notin Flight(d.key, d.token)
    BY <2>1
  <2> QED BY <1>2, <1>6, <2>2 DEF Flight, Same
<1>7. ASSUME NEW p \in Reader, NEW q \in Reader, Leading(p)',
             (q \in Flight(read[p].key, read[p].token))'
      PROVE  p = q
  <2>1. Leading(q)' /\ read'[q].key = read'[p].key
        /\ read'[q].token = read'[p].token
    BY <1>7 DEF Flight
  <2>2. CASE p # r /\ q # r
    BY <1>2, <1>7, <2>1, <2>2 DEF SharedLoads, Flight, Same
  <2> QED BY <1>1, <1>6, <1>7, <2>1, <2>2
<1> QED BY <1>5, <1>7 DEF SharedLoads

LEMMA SharedBegin ==
    ASSUME IInv, NEW r \in Reader, NEW k \in Key,
           NEW rd, DOMAIN rd = Reader, rd = [w \in Reader |-> rd[w]],
           \A w \in Reader \ {r} :
              \/ rd[w] = read[w]
              \/ /\ In(w, "loading") /\ rd[w] # None
                 /\ rd[w].phase = "nested" /\ rd[w].key = read[w].key
                 /\ rd[w].token = read[w].token,
           Begin(r, k, rd)
    PROVE  SharedLoads'
<1>1. read[r] = None /\ ~Leading(r) /\ SharedLoads
  BY DEF Begin, Leading, IInv
<1>2. PICK d \in Read : /\ read' = [rd EXCEPT ![r] = d]
                        /\ d.phase = "polling" \/ LooksUp(d, d)
  BY BeginRead
<1>3. d # None
  BY NoneAssumption
<1>4. CASE d.phase = "polling"
  <2>1. read'[r] = d /\ \A w \in Reader \ {r} : read'[w] = rd[w]
    BY <1>2
  <2>2. ~Leading(r)' /\ ~In(r, "joined")'
    BY <1>4, <2>1 DEF Leading, In
  <2>3. ASSUME NEW w \in Reader \ {r}
        PROVE  /\ Leading(w)' <=> Leading(w)
               /\ Leading(w) => Same(w)
               /\ In(w, "joined")' => In(w, "joined") /\ read'[w] = read[w]
    BY <2>1 DEF Leading, In, Same
  <2>4. ASSUME NEW w \in Reader, In(w, "joined")'
        PROVE  /\ In(w, "joined") /\ Same(w) /\ read'[w].peer = read[w].peer
               /\ Leading(read[w].peer)'
    <3>1. w # r /\ In(w, "joined") /\ read'[w] = read[w]
      BY <2>2, <2>3, <2>4
    <3>2. read[w].peer \in Reader \ {r} /\ Leading(read[w].peer)
      BY <1>1, <3>1 DEF SharedLoads, Flight
    <3>3. Same(w)
      BY <3>1 DEF In, Same
    <3> QED BY <2>3, <3>1, <3>2, <3>3
  <2>5. Keeping
    BY <2>2, <2>3, <2>4 DEF Keeping
  <2> QED BY <1>1, <2>5, SharedKept
<1>5. CASE LooksUp(d, d)
  BY <1>1, <1>2, <1>3, <1>5, SharedLookup
<1> QED BY <1>2, <1>4, <1>5

\* The reads of Gone end or are answered, no one awaiting them any more.
LEMMA SharedEnded ==
    ASSUME SharedLoads, NEW Gone \in SUBSET Reader,
           \A w \in Reader \ Gone : read'[w] = read[w],
           \A w \in Gone : ~Leading(w)' /\ ~In(w, "joined")',
           \A w \in Reader : In(w, "joined") /\ read[w].peer \in Gone => w \in Gone
    PROVE  SharedLoads'
<1>1. ASSUME NEW w \in Reader, In(w, "joined")'
      PROVE  /\ In(w, "joined") /\ Same(w) /\ read'[w].peer = read[w].peer
             /\ Leading(read[w].peer)'
  <2>1. w \notin Gone /\ read'[w] = read[w] /\ In(w, "joined")
    BY <1>1 DEF In
  <2>2. read[w].peer \in Reader \ Gone /\ Leading(read[w].peer)
    BY <2>1 DEF SharedLoads, Flight
  <2> QED BY <2>1, <2>2 DEF Leading, Same, In
<1>2. ASSUME NEW w \in Reader, Leading(w)'
      PROVE  Leading(w) /\ Same(w)
  BY <1>2 DEF Leading, Same
<1>3. Keeping
  BY <1>1, <1>2 DEF Keeping
<1> QED BY <1>3, SharedKept

LEMMA SharedStep == IInv /\ [Next]_vars => SharedLoads'
<1> SUFFICES ASSUME IInv, [Next]_vars
             PROVE  SharedLoads'
  OBVIOUS
<1> USE NoneAssumption
<1>a. SharedLoads /\ read \in [Reader -> Read \cup {None}]
  BY DEF IInv, TypeOK
<1>b. \A w \in Reader : In(w, "joined") =>
         read[w].peer \in Reader /\ Leading(read[w].peer)
  BY <1>a DEF SharedLoads, Flight
<1>1. ASSUME NEW r \in Reader, NEW k \in Key, Ask(r, k)
      PROVE  SharedLoads'
  BY <1>1, <1>a, SharedBegin DEF Ask
<1>2. ASSUME NEW r \in Reader, CreatioHashes(r)
      PROVE  SharedLoads'
  <2> DEFINE Gone == {r}
  <2>1. read[r] # None /\ read[r].phase = "polling" /\ read'[r].phase = "polled"
        /\ \A w \in Reader \ Gone : read'[w] = read[w]
    BY <1>2, <1>a DEF CreatioHashes, In, Read
  <2>2. ~Leading(r)' /\ ~In(r, "joined")' /\ ~Leading(r)
    BY <2>1 DEF Leading, In
  <2>3. \A w \in Reader : In(w, "joined") => read[w].peer \notin Gone
    BY <1>b, <2>2
  <2> QED BY <1>a, <2>1, <2>2, <2>3, SharedEnded
<1>3. ASSUME NEW r \in Reader, PollEnds(r) \/ PollFails(r)
      PROVE  SharedLoads'
  <2>1. PICK v \in Token :
           /\ read[r] # None /\ read[r].phase \in {"polling", "polled"}
           /\ Known(read[r].key.site, v)
           /\ Reflects(read[r].key.site, v, read[r].asked)
           /\ Versioned(r, v)
    <3>1. CASE PollEnds(r)
      <4>1. read[r] # None /\ read[r].phase = "polled"
            /\ Versioned(r, read[r].token)
        BY <3>1 DEF PollEnds, In
      <4>2. read[r] \in Read /\ ReadOK(read[r])
        BY <1>a, <4>1 DEF IInv, ReadsBacked
      <4> QED BY <4>1, <4>2 DEF ReadOK, Versions, Read
    <3>2. CASE PollFails(r)
      <4>1. read[r] # None /\ read[r].phase = "polling"
            /\ Versioned(r, [src |-> "bucket", n |-> read[r].asked \div Bucket])
        BY <3>2 DEF PollFails, In
      <4>2. read[r] \in Read /\ ReadOK(read[r])
        BY <1>a, <4>1 DEF IInv, ReadsBacked
      <4>3. read[r].key.site \in Site /\ read[r].asked \in 0 .. MaxTime
            /\ read[r].asked <= now
        BY <4>2 DEF Read, Key, ReadOK
      <4> QED BY <4>1, <4>3, BucketVersion
    <3> QED BY <1>3, <3>1, <3>2
  <2>2. PICK d \in Read : LooksUp(d, d) /\ read' = [read EXCEPT ![r] = d]
    BY <2>1, VersionedRead
  <2>3. ~Leading(r) /\ d # None
    BY <2>1 DEF Leading
  <2> QED BY <1>a, <2>2, <2>3, SharedLookup
<1>4. ASSUME NEW q \in Reader, CreatioSchema(q)
      PROVE  SharedLoads'
  <2> DEFINE d == [read[q] EXCEPT !.phase = "answered",
                                  !.got = model[read[q].key.site]]
  <2>a. In(q, "loading") /\ read[q] \in Read /\ read[q].key.site \in Site
        /\ read' = [read EXCEPT ![q] = d]
    BY <1>4, <1>a DEF CreatioSchema, In, Read, Key
  <2>b. d \in Read /\ d.phase = "answered" /\ d.key = read[q].key
        /\ d.token = read[q].token
    BY <2>a DEF Read, Phase, IInv, TypeOK
  <2> HIDE DEF d
  <2>1. /\ Leading(q) /\ read'[q] # None /\ read'[q].phase = "answered"
        /\ Same(q) /\ \A w \in Reader \ {q} : read'[w] = read[w]
    BY <1>a, <2>a, <2>b DEF In, Leading, Same
  <2>2. \A w \in Reader : (Leading(w)' <=> Leading(w))
                          /\ (Leading(w) => Same(w))
                          /\ (In(w, "joined")' => read'[w] = read[w])
    BY <2>1 DEF Leading, In, Same
  <2>3. Keeping
    BY <1>b, <2>2 DEF Keeping, In, Same
  <2> QED BY <1>a, <2>3, SharedKept
<1>5. ASSUME NEW q \in Reader, NEW r \in Reader, Nest(q, r)
      PROVE  SharedLoads'
  <2> DEFINE d == [read[q] EXCEPT !.phase = "nested", !.peer = r]
             rd == [read EXCEPT ![q] = d]
             k == [read[q].key EXCEPT !.of = Doc]
  <2>1. In(q, "loading") /\ read[q] \in Read /\ read[q].key \in Key
        /\ read[q].key.of = List /\ Begin(r, k, rd)
    BY <1>5, <1>a DEF Nest, In, Read
  <2>2. k \in Key
    BY <2>1, KeyAssumption DEF Key
  <2>3. d # None /\ d.phase = "nested" /\ d.key = read[q].key
        /\ d.token = read[q].token
    <3>1. d \in Read
      BY <2>1 DEF Read, Phase
    <3> QED BY <2>1, <3>1 DEF Read
  <2>4. DOMAIN rd = Reader /\ rd = [w \in Reader |-> rd[w]]
        /\ rd[q] = d /\ \A w \in Reader \ {q} : rd[w] = read[w]
    BY <1>a
  <2>5. ASSUME NEW w \in Reader \ {r}
        PROVE  \/ rd[w] = read[w]
               \/ /\ In(w, "loading") /\ rd[w] # None
                  /\ rd[w].phase = "nested" /\ rd[w].key = read[w].key
                  /\ rd[w].token = read[w].token
    BY <2>1, <2>3, <2>4
  <2> HIDE DEF rd, k, d
  <2> QED BY <2>1, <2>2, <2>4, <2>5, SharedBegin
<1>6. ASSUME NEW q \in Reader, NestEnds(q)
      PROVE  SharedLoads'
  <2> DEFINE p == read[q].peer
  <2>1. /\ read[q] # None /\ read[q].phase = "nested" /\ read[q] \in Read
        /\ read[p] # None /\ read[p].phase = "served" /\ p # q
    BY <1>6, <1>a DEF NestEnds, In
  <2>2. p \in Reader
    BY <2>1 DEF IInv, ReadsBacked, ReadOK, Read
  <2>3. /\ read'[p] = None
        /\ read'[q] = [read[q] EXCEPT !.phase = "answered", !.got = read[p].got]
        /\ \A w \in Reader \ {p, q} : read'[w] = read[w]
    BY <1>6, <1>a, <2>1, <2>2 DEF NestEnds
  <2>4. read'[q] # None
    <3>1. read[p].got \in Nat
      BY <1>a, <2>1, <2>2 DEF IInv, ReadsBacked, ReadOK, Result, Read
    <3>2. read'[q] \in Read
      BY <2>1, <2>3, <3>1 DEF Read, Phase
    <3> QED BY <3>2
  <2>5. /\ read'[q].phase = "answered" /\ read'[q].key = read[q].key
        /\ read'[q].token = read[q].token
    BY <2>1, <2>3 DEF Read
  <2>6. \A w \in Reader : (Leading(w)' <=> Leading(w))
                          /\ (Leading(w) => Same(w))
                          /\ (In(w, "joined")' => read'[w] = read[w])
    BY <2>1, <2>2, <2>3, <2>4, <2>5 DEF Leading, In, Same
  <2>7. Keeping
    BY <1>b, <2>6 DEF Keeping, In, Same
  <2> QED BY <1>a, <2>7, SharedKept
<1>7. ASSUME NEW q \in Reader, Loaded(q) \/ LoadFails(q) \/ NestFails(q)
      PROVE  SharedLoads'
  <2> DEFINE Peer == IF In(q, "nested") THEN {read[q].peer} ELSE {}
             Gone == Waiting(q) \cup {w \in Peer : In(w, "failed")}
  <2>1. Leading(q)
    BY <1>7 DEF Loaded, LoadFails, NestFails, In, Leading
  <2>2. Gone \in SUBSET Reader
    BY <1>a DEF Waiting, IInv, ReadsBacked, ReadOK, In, Read
  <2>3. \A w \in Waiting(q) : Served(read[w], read[q].got).phase = "served"
                              /\ Failed(read[w]).phase = "failed"
    BY <2>1, WaitingAlike DEF Served, Failed, Read
  <2>4. \A w \in Reader \ Gone : read'[w] = read[w]
    BY <1>7 DEF Loaded, LoadFails, NestFails
  <2>5. \A w \in Waiting(q) : read'[w] = Served(read[w], read[q].got)
                              \/ read'[w] = Failed(read[w])
    BY <1>7 DEF Loaded, LoadFails, NestFails, Waiting
  <2>6. \A w \in Gone \ Waiting(q) : read'[w] = None
    BY <1>7, <2>2 DEF Loaded, LoadFails, NestFails, In
  <2>7. \A w \in Gone : ~Leading(w)' /\ ~In(w, "joined")'
    BY <2>3, <2>5, <2>6 DEF Leading, In
  <2>8. \A w \in Reader : In(w, "joined") /\ read[w].peer \in Gone => w \in Gone
    BY <1>b DEF Waiting, Leading, In
  <2> HIDE DEF Gone
  <2> QED BY <1>a, <2>2, <2>4, <2>7, <2>8, SharedEnded
<1>8. ASSUME NEW r \in Reader, Return(r)
      PROVE  SharedLoads'
  <2>1. read'[r] = None /\ \A w \in Reader \ {r} : read'[w] = read[w]
    BY <1>8, <1>a DEF Return
  <2>2. ~Leading(r) /\ ~Leading(r)' /\ ~In(r, "joined")'
    BY <1>8, <2>1 DEF Return, Leading, In
  <2>3. \A w \in Reader : In(w, "joined") => read[w].peer \notin {r}
    BY <1>b, <2>2
  <2> QED BY <1>a, <2>1, <2>2, <2>3, SharedEnded
<1>9. CASE Restart
  BY <1>9 DEF Restart, SharedLoads, In, Leading
<1>10. CASE UNCHANGED read
  BY <1>10, <1>a DEF SharedLoads, In, Leading, Flight
<1>11. ASSUME (\E s \in Site : ChangeModel(s)) \/ Tick \/ UNCHANGED vars
       PROVE  UNCHANGED read
  BY <1>11 DEF ChangeModel, Tick, vars
<1> QED
  BY <1>1, <1>2, <1>3, <1>4, <1>5, <1>6, <1>7, <1>8, <1>9, <1>10, <1>11
  DEF Next

-----------------------------------------------------------------------------
(* The invariant, and what follows from it. *)

LEMMA InitIInv == Init => IInv
<1> SUFFICES ASSUME Init
             PROVE  IInv
  OBVIOUS
<1> USE NoneAssumption, DurationAssumption DEF Init
<1>1. TypeOK
  BY DEF TypeOK
<1>2. SharedLoads
  BY DEF SharedLoads, In, Leading
<1>3. PastBelow /\ SnapshotsKnown /\ EntriesBacked /\ ReadsBacked
  BY DEF PastBelow, SnapshotsKnown, EntriesBacked, ReadsBacked
<1> QED BY <1>1, <1>2, <1>3 DEF IInv

LEMMA StepIInv == IInv /\ [Next]_vars => IInv'
<1> SUFFICES ASSUME IInv, [Next]_vars
             PROVE  IInv'
  OBVIOUS
<1>1. TypeOK /\ TypeOK' /\ SharedLoads'
  BY TypeStep, SharedStep DEF IInv
<1>2. Later /\ PastBelow'
  BY <1>1, StepLater
<1>3. ReadsOK(read') /\ EntriesOK(entries') /\ SnapshotsOK(snapshot')
  BY PartsStep
<1>4. ReadsBacked'
  <2> SUFFICES ASSUME NEW r \in Reader, read'[r] # None
               PROVE  ReadOK(read[r])'
    BY DEF ReadsBacked
  <2>1. read'[r] \in Read /\ ReadOK(read'[r])
    BY <1>3 DEF ReadsOK
  <2>2. \A c \in Read : ReadOK(c) => ReadOK(c)'
    BY <1>1, <1>2, ReadLater
  <2> QED BY <2>1, <2>2
<1>5. EntriesBacked'
  <2> SUFFICES ASSUME NEW k \in Key, entries'[k] # None
               PROVE  BoxOK(k, entries[k])'
    BY DEF EntriesBacked
  <2>1. entries'[k] \in Box /\ BoxOK(k, entries'[k])
    BY <1>3 DEF EntriesOK
  <2>2. \A b \in Box : BoxOK(k, b) => BoxOK(k, b)'
    BY <1>1, <1>2, BoxLater
  <2> QED BY <2>1, <2>2
<1>6. SnapshotsKnown'
  <2> SUFFICES ASSUME NEW s \in Site, snapshot'[s] # None
               PROVE  SnapshotOK(s, snapshot[s])'
    BY DEF SnapshotsKnown
  <2>1. snapshot'[s] \in Snapshot /\ SnapshotOK(s, snapshot'[s])
    BY <1>3 DEF SnapshotsOK
  <2>2. \A p \in Snapshot : SnapshotOK(s, p) => SnapshotOK(s, p)'
    BY <1>1, <1>2, SnapshotLater
  <2> QED BY <2>1, <2>2
<1> QED BY <1>1, <1>2, <1>4, <1>5, <1>6 DEF IInv

\* The version of a read is no older than SnapshotTtl, and what it is served no
\* older than its version.
LEMMA BoundedIInv == IInv => BoundedStaleness
<1> SUFFICES ASSUME IInv, NEW r \in Reader, In(r, "served"),
                    read[r].key.of # List,
                    NEW t \in 0 .. read[r].asked,
                    read[r].asked - t >= Lag(read[r].token)
             PROVE  read[r].got >= past[read[r].key.site][t]
  BY DEF BoundedStaleness, SeesChangesAfter
<1> DEFINE c == read[r]
           s == c.key.site
<1> USE NoneAssumption, DurationAssumption
<1>1. c \in Read /\ Versions(c) /\ Result(c)
  BY DEF In, IInv, TypeOK, ReadsBacked, ReadOK
<1>2. /\ s \in Site /\ c.asked \in 0 .. MaxTime /\ c.token \in Token
      /\ c.got \in Nat /\ Reflects(s, c.token, c.asked - SnapshotTtl + 1)
      /\ Backs(s, c.token, c.got)
  BY <1>1 DEF Read, Key, Versions, Result
<1>3. t \in 0 .. MaxTime /\ t \in Int /\ past[s][t] \in Int
  <2>1. c.asked \in Nat /\ c.asked <= MaxTime
    BY <1>2
  <2>2. t \in 0 .. MaxTime
    BY <2>1
  <2>3. past[s] \in [0 .. MaxTime -> Nat]
    BY <1>2 DEF IInv, TypeOK
  <2> HIDE DEF s
  <2>4. past[s][t] \in Nat
    BY <2>2, <2>3
  <2> QED BY <2>2, <2>4
<1>4. c.token.n \in Nat /\ c.token.n * Bucket \in Int
  BY <1>2 DEF Token
<1>5. CASE c.token.src = "hash"
  <2>1. t < c.asked - SnapshotTtl + 1
    BY <1>2, <1>3, <1>5 DEF Lag
  <2>2. past[s][t] <= c.token.n /\ c.token.n <= c.got
    BY <1>2, <1>3, <1>5, <2>1 DEF Reflects, Backs
  <2> QED BY <1>2, <1>3, <1>4, <2>2
<1>6. CASE c.token.src # "hash"
  <2>1. c.asked - SnapshotTtl + 1 < c.token.n * Bucket + Bucket
    BY <1>2, <1>6 DEF Reflects
  <2>2. t < c.token.n * Bucket
    BY <1>2, <1>3, <1>4, <1>6, <2>1 DEF Lag
  <2> QED BY <1>2, <1>3, <1>6, <2>2 DEF Backs
<1> QED BY <1>5, <1>6

LEMMA Invariant == Spec => []IInv
  BY InitIInv, StepIInv, PTL DEF Spec

\* The variables have their types: in particular, what is stored and served is
\* always a schema, and what is joined a read.
THEOREM TypeCorrect == Spec => []TypeOK
<1>1. IInv => TypeOK
  BY DEF IInv
<1> QED BY <1>1, Invariant, PTL

\* getOrLoad: a read that joined a load waits for one that is going on and is of
\* the schema and version it wants; there is one at a time.
THEOREM LoadsShared == Spec => []SharedLoads
<1>1. IInv => SharedLoads
  BY DEF IInv
<1> QED BY <1>1, Invariant, PTL

\* What a read is served reflects every change of the data model that was made
\* SnapshotTtl, or without hashes a Bucket more, before the read asked.
THEOREM StalenessBounded == Spec => []BoundedStaleness
  BY Invariant, BoundedIInv, PTL
-----------------------------------------------------------------------------
(* The sort by recency, over finitely many keys. *)

Ordered(S, before) ==
    /\ \A j \in S : j \notin before[j]
    /\ \A i, j \in S : i # j => i \in before[j] \/ j \in before[i]
    /\ \A h, i, j \in S : h \in before[i] /\ i \in before[j] => h \in before[j]

Ranked(S, e, before) ==
    S \subseteq Key /\ Ordered(S, before) /\ \A j \in S : e[j].lastAccess \in Nat

After(S, e, before, j) == {i \in S : Colder(j, i, e, before)}
Coldest(S, e, before, x) == \A j \in S \ {x} : Colder(x, j, e, before)

LEMMA ColderOrders ==
    ASSUME NEW S, NEW e, NEW before, Ranked(S, e, before),
           NEW h \in S, NEW i \in S, NEW j \in S
    PROVE  /\ ~Colder(i, i, e, before)
           /\ i # j => Colder(i, j, e, before) \/ Colder(j, i, e, before)
           /\ Colder(h, i, e, before) /\ Colder(i, j, e, before) => Colder(h, j, e, before)
  BY DEF Ranked, Ordered, Colder

LEMMA SomeColdest ==
    ASSUME NEW S, NEW e, NEW before, Ranked(S, e, before), IsFiniteSet(S), S # {}
    PROVE  \E x \in S : Coldest(S, e, before, x)
<1> DEFINE colder(j) == {i \in S : Colder(i, j, e, before)}
           ranks == {Cardinality(colder(j)) : j \in S}
<1>1. \A j \in S : IsFiniteSet(colder(j)) /\ Cardinality(colder(j)) \in Nat
  <2> SUFFICES ASSUME NEW j \in S
               PROVE  IsFiniteSet(colder(j)) /\ Cardinality(colder(j)) \in Nat
    OBVIOUS
  <2>1. colder(j) \subseteq S
    OBVIOUS
  <2> QED BY <2>1, FS_Subset, FS_CardinalityType
<1>2. PICK x \in S : \A j \in S : ~(Cardinality(colder(j)) < Cardinality(colder(x)))
  <2>1. ranks \subseteq Nat /\ ranks # {}
    BY <1>1
  <2>2. PICK n \in ranks : \A m \in ranks : <<m, n>> \notin OpToRel(<, Nat)
    BY <2>1, NatLessThanWellFounded, WFMin
  <2>3. PICK x \in S : n = Cardinality(colder(x))
    BY <2>2
  <2>4. \A j \in S : ~(Cardinality(colder(j)) < n)
    BY <1>1, <2>1, <2>2 DEF OpToRel
  <2> QED BY <2>3, <2>4
<1>3. ASSUME NEW j \in S, Colder(j, x, e, before)
      PROVE  FALSE
  <2>1. \A i \in S : Colder(i, j, e, before) => Colder(i, x, e, before)
    BY <1>3, ColderOrders
  <2>2. colder(j) \subseteq colder(x) /\ j \in colder(x) /\ j \notin colder(j)
    BY <1>3, <2>1, ColderOrders
  <2>3. Cardinality(colder(j)) < Cardinality(colder(x))
    <3>1. /\ Cardinality(colder(j)) <= Cardinality(colder(x))
          /\ Cardinality(colder(x)) = Cardinality(colder(j)) => colder(x) = colder(j)
      BY <1>1, <2>2, FS_Subset
    <3>2. Cardinality(colder(x)) # Cardinality(colder(j))
      BY <2>2, <3>1
    <3>3. Cardinality(colder(j)) \in Nat /\ Cardinality(colder(x)) \in Nat
      BY <1>1
    <3> HIDE DEF colder
    <3> QED BY <3>1, <3>2, <3>3
  <2> QED BY <1>2, <2>3
<1> HIDE DEF colder
<1>4. \A j \in S \ {x} : Colder(x, j, e, before)
  BY <1>3, ColderOrders
<1> QED BY <1>4 DEF Coldest

\* A cache that is not over its cap has fewer than that many warmer than any.
LEMMA RoomForAll ==
    ASSUME NEW S, NEW e, NEW before, Ranked(S, e, before), IsFiniteSet(S),
           Cardinality(S) <= MaxEntries, NEW j \in S
    PROVE  Cardinality(After(S, e, before, j)) < MaxEntries
<1>1. After(S, e, before, j) \subseteq S \ {j}
  BY ColderOrders DEF After
<1>2. IsFiniteSet(S \ {j}) /\ Cardinality(S \ {j}) = Cardinality(S) - 1
  BY FS_RemoveElement
<1>3. /\ IsFiniteSet(After(S, e, before, j))
      /\ Cardinality(After(S, e, before, j)) <= Cardinality(S \ {j})
  BY <1>1, <1>2, FS_Subset
<1>4. Cardinality(After(S, e, before, j)) \in Nat /\ Cardinality(S) \in Nat
  BY <1>3, FS_CardinalityType
<1> QED BY <1>2, <1>3, <1>4, DurationAssumption

\* With one too many, that is so of all but the coldest.
LEMMA NoRoomForOne ==
    ASSUME NEW S, NEW e, NEW before, Ranked(S, e, before), IsFiniteSet(S),
           Cardinality(S) = MaxEntries + 1, NEW x \in S, Coldest(S, e, before, x),
           NEW j \in S
    PROVE  Cardinality(After(S, e, before, j)) < MaxEntries <=> j # x
<1>1. IsFiniteSet(S \ {x}) /\ Cardinality(S \ {x}) = MaxEntries
  <2>1. IsFiniteSet(S \ {x}) /\ Cardinality(S \ {x}) = Cardinality(S) - 1
    BY FS_RemoveElement
  <2> QED BY <2>1, DurationAssumption
<1>2. After(S, e, before, x) = S \ {x}
  BY ColderOrders DEF After, Coldest
<1>3. CASE j = x
  <2>1. Cardinality(After(S, e, before, j)) = MaxEntries
    BY <1>1, <1>2, <1>3
  <2>2. ~(MaxEntries < MaxEntries)
    BY DurationAssumption
  <2> QED BY <1>3, <2>1, <2>2
<1>4. CASE j # x
  <2>1. Colder(x, j, e, before) /\ ~Colder(j, x, e, before)
    BY <1>4, ColderOrders DEF Coldest
  <2>2. After(S, e, before, j) \subseteq (S \ {x}) \ {j}
    BY <2>1, ColderOrders DEF After
  <2>3. /\ IsFiniteSet((S \ {x}) \ {j})
        /\ Cardinality((S \ {x}) \ {j}) = Cardinality(S \ {x}) - 1
    BY <1>1, <1>4, FS_RemoveElement
  <2>4. /\ IsFiniteSet(After(S, e, before, j))
        /\ Cardinality(After(S, e, before, j)) <= Cardinality((S \ {x}) \ {j})
    BY <2>2, <2>3, FS_Subset
  <2>5. Cardinality(After(S, e, before, j)) \in Nat
    BY <2>4, FS_CardinalityType
  <2> QED BY <1>1, <1>4, <2>3, <2>4, <2>5, DurationAssumption
<1> QED BY <1>3, <1>4

-----------------------------------------------------------------------------
(* _prune: what a load drops, and what the caches hold. *)

Few(S) == IsFiniteSet(S) /\ Cardinality(S) <= MaxEntries

CacheInv ==
    /\ Ordered(Present(entries), ahead)
    /\ \A k \in Key : ahead[k] \subseteq Present(entries)
    /\ \A k \in Key : Few(InCacheOf(k, entries))
    /\ \A k \in Present(entries) : entries[k].lastAccess <= now

\* What is not expired in the cache of k.
Alive(k, e) == {j \in Present(e) : SameCache(j, k) /\ ~Expired(e[j])}

LEMMA KeptAlive ==
    ASSUME NEW k \in Key, NEW e, NEW before, NEW j \in Key
    PROVE  j \in Kept(k, e, before) <=>
              /\ j \in Present(e)
              /\ SameCache(j, k) =>
                    /\ j \in Alive(k, e)
                    /\ Cardinality(After(Alive(k, e), e, before, j)) < MaxEntries
<1> DEFINE live == {i \in Present(e) : SameCache(i, k) => ~Expired(e[i])}
<1>1. {i \in live : SameCache(i, k) /\ Colder(j, i, e, before)}
        = After(Alive(k, e), e, before, j)
  BY DEF Alive, After
<1>2. j \in Kept(k, e, before) <=>
        /\ j \in live
        /\ SameCache(j, k) =>
             Cardinality({i \in live : SameCache(i, k) /\ Colder(j, i, e, before)}) < MaxEntries
  BY DEF Kept
<1> QED BY <1>1, <1>2 DEF Alive

\* The place of the key that is stored.
LEMMA PlacedInOrder ==
    ASSUME TypeOK, CacheInv, NEW k \in Key, NEW e \in [Key -> Box \cup {None}],
           e[k] # None, \A j \in Key : j # k => e[j] = entries[j]
    PROVE  /\ Ordered(Present(e), Placed(k))
           /\ entries[k] = None =>
                \A j \in Present(e) : j # k => k \notin Placed(k)[j]
<1>1. Present(e) = Present(entries) \cup {k}
  BY DEF Present
<1>2. CASE entries[k] # None
  <2>1. Placed(k) = ahead /\ Present(e) = Present(entries)
    BY <1>1, <1>2 DEF Placed, Present
  <2> QED BY <1>2, <2>1 DEF CacheInv
<1>3. CASE entries[k] = None
  <2>1. /\ Placed(k)[k] = Present(entries)
        /\ \A j \in Key : j # k => Placed(k)[j] = ahead[j]
    BY <1>3 DEF Placed, TypeOK
  <2>2. k \notin Present(entries) /\ Present(entries) \subseteq Key
    BY <1>3 DEF Present
  <2>3. \A j \in Present(e) : j # k => j \in Present(entries) /\ k \notin Placed(k)[j]
    BY <1>1, <2>1, <2>2 DEF CacheInv
  <2>4. \A j \in Present(e) : j \notin Placed(k)[j]
    BY <2>1, <2>2, <2>3 DEF CacheInv, Ordered
  <2>5. ASSUME NEW i \in Present(e), NEW j \in Present(e), i # j
        PROVE  i \in Placed(k)[j] \/ j \in Placed(k)[i]
    <3>1. CASE i = k \/ j = k
      BY <2>1, <2>3, <2>5, <3>1
    <3>2. CASE i # k /\ j # k
      BY <2>1, <2>2, <2>3, <2>5, <3>2 DEF CacheInv, Ordered
    <3> QED BY <3>1, <3>2
  <2>6. ASSUME NEW h \in Present(e), NEW i \in Present(e), NEW j \in Present(e),
               h \in Placed(k)[i], i \in Placed(k)[j]
        PROVE  h \in Placed(k)[j]
    <3>1. CASE j = k
      <4>1. i \in Present(entries) /\ i # k
        BY <2>1, <2>2, <2>6, <3>1
      <4>2. h \in Present(entries)
        BY <2>1, <2>2, <2>6, <4>1 DEF CacheInv
      <4> QED BY <2>1, <3>1, <4>2
    <3>2. CASE j # k
      <4>1. i # k
        BY <2>3, <2>6, <3>2
      <4>2. h # k
        BY <2>3, <2>6, <4>1
      <4> QED BY <2>1, <2>2, <2>3, <2>6, <3>2, <4>1, <4>2 DEF CacheInv, Ordered
    <3> QED BY <3>1, <3>2
  <2> QED BY <2>3, <2>4, <2>5, <2>6 DEF Ordered
<1> QED BY <1>2, <1>3

LEMMA Fewer ==
    ASSUME NEW S, NEW T \in SUBSET S, Few(S)
    PROVE  Few(T)
<1>1. IsFiniteSet(T) /\ Cardinality(T) <= Cardinality(S)
  BY FS_Subset DEF Few
<1>2. Cardinality(T) \in Nat /\ Cardinality(S) \in Nat
  BY <1>1, FS_CardinalityType DEF Few
<1> QED BY <1>1, <1>2, DurationAssumption DEF Few

LEMMA OneMore ==
    ASSUME NEW S, NEW k, Few(S)
    PROVE  /\ IsFiniteSet(S \cup {k}) /\ Cardinality(S \cup {k}) <= MaxEntries + 1
           /\ Cardinality(S \cup {k}) \in Nat
           /\ k \in S => Cardinality(S \cup {k}) <= MaxEntries
<1>1. IsFiniteSet(S) /\ Cardinality(S) \in Nat /\ Cardinality(S) <= MaxEntries
  BY FS_CardinalityType DEF Few
<1>2. /\ IsFiniteSet(S \cup {k})
      /\ Cardinality(S \cup {k}) = IF k \in S THEN Cardinality(S) ELSE Cardinality(S) + 1
  BY <1>1, FS_AddElement
<1> QED BY <1>1, <1>2, DurationAssumption

\* A key is dropped for its age, or as the coldest of a full cache for one that is new.
DropsColdest ==
    \A k \in Present(entries) : entries'[k] = None =>
        \/ Expired(entries[k])
        \/ /\ Cardinality(InCacheOf(k, entries')) = MaxEntries
           /\ \A j \in InCacheOf(k, entries') :
                 entries[k].lastAccess <= entries'[j].lastAccess
           /\ \E j \in InCacheOf(k, entries') : entries[j] = None

\* The cache of k after k is stored in e and before anything is dropped.
Filled(k, e, S, before) ==
    /\ S = Alive(k, e) /\ k \in S /\ Ranked(S, e, before) /\ IsFiniteSet(S)
    /\ Cardinality(S) \in 0 .. MaxEntries + 1
    /\ Cardinality(S) = MaxEntries + 1 => entries[k] = None

LEMMA Fills ==
    ASSUME TypeOK, CacheInv, NEW k \in Key, NEW e \in [Key -> Box \cup {None}],
           e[k] # None, e[k].lastAccess = now, e[k].storedAt = now,
           \A j \in Key : j # k => e[j] = entries[j]
    PROVE  /\ Filled(k, e, Alive(k, e), Placed(k))
           /\ \A j \in Present(e) : e[j].lastAccess \in Nat /\ e[j].lastAccess <= now
<1> DEFINE S == Alive(k, e)
<1>0. now \in Nat /\ EntryTtl \in Nat \ {0} /\ MaxEntries \in Nat
  BY DurationAssumption DEF TypeOK
<1>1. /\ S \subseteq InCacheOf(k, entries) \cup {k} /\ S \subseteq Present(e)
      /\ Present(e) \subseteq Key
  BY DEF Alive, InCacheOf, Present
<1>2. k \in S
  <2>1. ~Expired(e[k])
    BY <1>0 DEF Expired
  <2>2. k \in Present(e) /\ SameCache(k, k)
    BY DEF Present, SameCache
  <2> QED BY <2>1, <2>2 DEF Alive
<1>3. \A j \in Present(e) : e[j].lastAccess \in Nat /\ e[j].lastAccess <= now
  BY <1>0 DEF Present, Box, CacheInv
<1>4. Ranked(S, e, Placed(k))
  <2>1. Ordered(Present(e), Placed(k))
    BY PlacedInOrder
  <2>2. Ordered(S, Placed(k))
    BY <1>1, <2>1 DEF Ordered
  <2> QED BY <1>1, <1>3, <2>2 DEF Ranked
<1>5. /\ IsFiniteSet(InCacheOf(k, entries)) /\ Cardinality(InCacheOf(k, entries)) \in Nat
      /\ Cardinality(InCacheOf(k, entries)) <= MaxEntries
  BY FS_CardinalityType DEF CacheInv, Few
<1>6. /\ IsFiniteSet(InCacheOf(k, entries) \cup {k})
      /\ Cardinality(InCacheOf(k, entries) \cup {k}) <= MaxEntries + 1
      /\ Cardinality(InCacheOf(k, entries) \cup {k}) \in Nat
      /\ k \in InCacheOf(k, entries) => Cardinality(InCacheOf(k, entries) \cup {k}) <= MaxEntries
  BY OneMore DEF CacheInv
<1>7. IsFiniteSet(S) /\ Cardinality(S) <= Cardinality(InCacheOf(k, entries) \cup {k})
  BY <1>1, <1>6, FS_Subset
<1>8. Cardinality(S) \in Nat
  BY <1>7, FS_CardinalityType
<1>9. k \in InCacheOf(k, entries) \/ entries[k] = None
  BY DEF InCacheOf, SameCache
<1> HIDE DEF S
<1>10. /\ Cardinality(S) \in 0 .. MaxEntries + 1
       /\ Cardinality(S) = MaxEntries + 1 => entries[k] = None
  BY <1>0, <1>6, <1>7, <1>8, <1>9
<1>11. S = Alive(k, e)
  BY DEF S
<1> QED BY <1>2, <1>3, <1>4, <1>7, <1>10, <1>11 DEF Filled

\* What stays of it: everything, or all but the coldest, which is not k.
Prunes(S, T, e) ==
    \/ T = S /\ Few(S)
    \/ \E x \in S : /\ T = S \ {x} /\ IsFiniteSet(T) /\ Cardinality(T) = MaxEntries
                    /\ \A j \in T : e[x].lastAccess <= e[j].lastAccess

LEMMA PrunesOne ==
    ASSUME TypeOK, CacheInv, NEW k \in Key, NEW e \in [Key -> Box \cup {None}],
           e[k] # None, e[k].lastAccess = now,
           \A j \in Key : j # k => e[j] = entries[j],
           NEW S, Filled(k, e, S, Placed(k)),
           \A j \in Present(e) : e[j].lastAccess \in Nat /\ e[j].lastAccess <= now,
           NEW T, T = {j \in S : Cardinality(After(S, e, Placed(k), j)) < MaxEntries}
    PROVE  k \in T /\ Prunes(S, T, e)
           /\ (T = S \/ (k \in Key /\ entries[k] = None))
<1>0. MaxEntries \in Nat \ {0} /\ now \in Nat
  BY DurationAssumption DEF TypeOK
<1>1. CASE Cardinality(S) <= MaxEntries
  <2>1. \A j \in S : Cardinality(After(S, e, Placed(k), j)) < MaxEntries
    BY <1>1, RoomForAll DEF Filled
  <2>2. T = S
    BY <2>1
  <2> QED BY <1>1, <2>2 DEF Prunes, Few, Filled
<1>2. CASE Cardinality(S) = MaxEntries + 1
  <2>1. Ranked(S, e, Placed(k)) /\ IsFiniteSet(S) /\ k \in S /\ entries[k] = None
    BY <1>2 DEF Filled
  <2>2. PICK x \in S : Coldest(S, e, Placed(k), x)
    BY <2>1, SomeColdest
  <2>3. T = S \ {x}
    <3>1. \A j \in S : Cardinality(After(S, e, Placed(k), j)) < MaxEntries <=> j # x
      BY <1>2, <2>1, <2>2, NoRoomForOne
    <3> QED BY <3>1
  <2>4. IsFiniteSet(T) /\ Cardinality(T) = MaxEntries
    <3>1. IsFiniteSet(S \ {x}) /\ Cardinality(S \ {x}) = Cardinality(S) - 1
      BY <2>1, FS_RemoveElement
    <3>2. Cardinality(S \ {x}) = MaxEntries
      BY <1>0, <1>2, <3>1
    <3> QED BY <2>3, <3>1, <3>2
  <2>5. \A j \in T : e[x].lastAccess <= e[j].lastAccess
    <3>1. \A j \in T : Colder(x, j, e, Placed(k))
      BY <2>2, <2>3 DEF Coldest
    <3>2. \A j \in S : e[j].lastAccess \in Nat
      BY <2>1 DEF Ranked
    <3> QED BY <2>3, <3>1, <3>2 DEF Colder
  <2>6. k # x
    <3>1. PICK j : j \in T
      BY <1>0, <2>4, FS_EmptySet
    <3>2. j \in S /\ j # x /\ Colder(x, j, e, Placed(k)) /\ j \in Present(e)
      BY <2>2, <2>3, <3>1 DEF Coldest, Filled, Alive
    <3>3. j # k => k \notin Placed(k)[j]
      BY <2>1, <3>2, PlacedInOrder
    <3>4. e[j].lastAccess \in Nat /\ e[j].lastAccess <= now
      BY <3>2
    <3>5. ASSUME k = x
          PROVE  FALSE
      <4>1. ~(e[k].lastAccess < e[j].lastAccess)
        BY <1>0, <3>4
      <4>2. k \in Placed(k)[j]
        BY <3>2, <3>5, <4>1 DEF Colder
      <4> QED BY <3>2, <3>3, <3>5, <4>2
    <3> QED BY <3>5
  <2>7. k \in T
    BY <2>1, <2>3, <2>6
  <2> QED BY <2>1, <2>3, <2>4, <2>5, <2>7 DEF Prunes
<1>3. Cardinality(S) <= MaxEntries \/ Cardinality(S) = MaxEntries + 1
  BY <1>0 DEF Filled
<1> QED BY <1>1, <1>2, <1>3

LEMMA StoreCache ==
    ASSUME TypeOK, CacheInv, NEW k \in Key, NEW x \in Nat, NEW v \in Token,
           Store(k, x, v), now' = now
    PROVE  CacheInv' /\ DropsColdest
<1> DEFINE e == [entries EXCEPT ![k] = BoxFor(x, v)]
           S == Alive(k, e)
           T == {j \in S : Cardinality(After(S, e, Placed(k), j)) < MaxEntries}
           kept == Kept(k, e, Placed(k))
<1>0. now \in Nat /\ entries \in [Key -> Box \cup {None}]
  BY DEF TypeOK
<1>1. /\ e \in [Key -> Box \cup {None}] /\ e[k] # None
      /\ e[k].lastAccess = now /\ e[k].storedAt = now
      /\ \A j \in Key : j # k => e[j] = entries[j]
  <2>1. BoxFor(x, v) \in Box
    BY <1>0 DEF BoxFor, Box
  <2>2. BoxFor(x, v) # None /\ BoxFor(x, v).lastAccess = now /\ BoxFor(x, v).storedAt = now
    BY <2>1, NoneAssumption DEF BoxFor
  <2> QED BY <1>0, <2>1, <2>2
<1>2. /\ entries' = [j \in Key |-> IF j \in kept THEN e[j] ELSE None]
      /\ ahead' = [j \in Key |-> IF j \in kept THEN Placed(k)[j] \cap kept ELSE {}]
  BY DEF Store
<1>3. \A j \in Key : j \in kept <=>
        /\ j \in Present(e)
        /\ SameCache(j, k) => j \in S /\ Cardinality(After(S, e, Placed(k), j)) < MaxEntries
  BY KeptAlive
<1> HIDE DEF e
<1>4. /\ Filled(k, e, S, Placed(k))
      /\ \A j \in Present(e) : e[j].lastAccess \in Nat /\ e[j].lastAccess <= now
  BY <1>1, Fills
<1>s. S \subseteq Present(e) /\ Present(e) \subseteq Key
      /\ \A j \in Present(e) : j \in S <=> SameCache(j, k) /\ ~Expired(e[j])
  BY DEF Alive, Present
<1>5. \A j \in Key : j \in kept <=> j \in Present(e) /\ (SameCache(j, k) => j \in T)
  BY <1>3
<1>t. T = {j \in S : Cardinality(After(S, e, Placed(k), j)) < MaxEntries} /\ T \subseteq S
  OBVIOUS
<1> HIDE DEF S, T, kept
<1>6. k \in T /\ Prunes(S, T, e) /\ (T = S \/ entries[k] = None)
  BY <1>1, <1>4, <1>t, PrunesOne
<1>7. kept \subseteq Key /\ Present(entries') = kept /\ \A j \in kept : entries'[j] = e[j]
  <2>1. kept \subseteq Key
    BY DEF kept, Kept, Present
  <2> QED BY <1>2, <1>5, <2>1 DEF Present
<1>8. \A c \in Key : InCacheOf(c, entries') = IF SameCache(c, k) THEN T
                                              ELSE InCacheOf(c, entries)
  <2> SUFFICES ASSUME NEW c \in Key
               PROVE  InCacheOf(c, entries') = IF SameCache(c, k) THEN T
                                               ELSE InCacheOf(c, entries)
    OBVIOUS
  <2>0. \A j \in Key : entries'[j] # None <=> j \in kept
    BY <1>7 DEF Present
  <2>1. CASE SameCache(c, k)
    <3>1. \A j \in Key : SameCache(j, c) <=> SameCache(j, k)
      BY <2>1 DEF SameCache
    <3>2. \A j \in T : j \in Key /\ j \in Present(e) /\ SameCache(j, k)
      BY <1>s, <1>t
    <3> QED BY <1>5, <2>0, <2>1, <3>1, <3>2 DEF InCacheOf
  <2>2. CASE ~SameCache(c, k)
    <3>1. \A j \in Key : SameCache(j, c) => ~SameCache(j, k) /\ j # k
      BY <2>2 DEF SameCache
    <3>2. \A j \in Key : SameCache(j, c) => (j \in kept <=> entries[j] # None)
      BY <1>1, <1>5, <3>1 DEF Present
    <3> QED BY <2>0, <2>2, <3>2 DEF InCacheOf
  <2> QED BY <2>1, <2>2
<1>9. CacheInv'
  <2>1. Ordered(Present(e), Placed(k))
    BY <1>1, PlacedInOrder
  <2>2. Ordered(kept, ahead')
    <3>1. kept \subseteq Present(e)
      BY <1>5, <1>7
    <3>2. \A i, j \in kept : i \in ahead'[j] <=> i \in Placed(k)[j]
      BY <1>2, <1>7
    <3> QED BY <2>1, <3>1, <3>2 DEF Ordered
  <2>3. \A c \in Key : ahead'[c] \subseteq kept
    BY <1>2
  <2>4. Few(T)
    BY <1>6, DurationAssumption DEF Prunes, Few
  <2>5. \A c \in Key : Few(InCacheOf(c, entries'))
    BY <1>8, <2>4 DEF CacheInv
  <2>6. \A j \in kept : entries'[j].lastAccess <= now'
    BY <1>4, <1>5, <1>7
  <2> QED BY <1>7, <2>2, <2>3, <2>5, <2>6 DEF CacheInv, Ordered, Present, InCacheOf, SameCache
<1>10. DropsColdest
  <2> SUFFICES ASSUME NEW c \in Present(entries), entries'[c] = None, ~Expired(entries[c])
               PROVE  /\ Cardinality(InCacheOf(c, entries')) = MaxEntries
                      /\ \A j \in InCacheOf(c, entries') :
                            entries[c].lastAccess <= entries'[j].lastAccess
                      /\ \E j \in InCacheOf(c, entries') : entries[j] = None
    BY DEF DropsColdest
  <2>0. c \in Key /\ entries[c] # None
    BY DEF Present
  <2>1. c \notin kept
    BY <1>7, <2>0 DEF Present
  <2>2. c # k
    <3>1. k \in kept
      BY <1>5, <1>6, <1>t, <1>s
    <3> QED BY <2>1, <3>1
  <2>3. e[c] = entries[c] /\ c \in Present(e)
    BY <1>1, <2>0, <2>2 DEF Present
  <2>4. SameCache(c, k) /\ c \notin T /\ c \in S
    BY <1>5, <1>s, <2>0, <2>1, <2>3
  <2>5. InCacheOf(c, entries') = T /\ entries[k] = None
    BY <1>6, <1>8, <2>0, <2>4
  <2>6. Cardinality(T) = MaxEntries /\ \A j \in T : e[c].lastAccess <= e[j].lastAccess
    BY <1>6, <2>4 DEF Prunes
  <2>7. \A j \in T : entries'[j] = e[j]
    <3>1. T \subseteq kept
      BY <1>5, <1>s, <1>t
    <3> QED BY <1>7, <3>1
  <2> QED BY <1>6, <2>3, <2>5, <2>6, <2>7
<1> QED BY <1>9, <1>10

\* Everything else leaves what is cached in place, and at most uses it.
Uses ==
    \A k \in Key :
        /\ entries'[k] # None <=> entries[k] # None
        /\ entries[k] # None => entries'[k].lastAccess \in {entries[k].lastAccess, now}

LEMMA LookupUses ==
    ASSUME TypeOK, NEW r, NEW c, NEW rd, Lookup(r, c, rd)
    PROVE  Uses
<1>1. CASE UNCHANGED entries
  BY <1>1 DEF Uses
<1>2. CASE Hit(r, c, rd)
  <2>1. /\ entries[c.key] # None
        /\ entries' = [entries EXCEPT ![c.key].lastAccess = now]
    BY <1>2 DEF Hit, Valid
  <2> DEFINE x == c.key
  <2> HIDE DEF x
  <2>2. /\ entries[x] # None
        /\ entries' = [entries EXCEPT ![x].lastAccess = now]
    BY <2>1 DEF x
  <2>3. ASSUME NEW k \in Key
        PROVE  /\ entries'[k] # None <=> entries[k] # None
               /\ entries[k] # None => entries'[k].lastAccess \in {entries[k].lastAccess, now}
    <3>1. CASE k = x
      <4>1. entries[k] \in Box /\ now \in Nat
        BY <2>2, <3>1 DEF TypeOK
      <4>2. entries'[k] = [entries[k] EXCEPT !.lastAccess = now]
        BY <2>2, <3>1 DEF TypeOK
      <4>3. entries'[k] \in Box /\ entries'[k].lastAccess = now
        BY <4>1, <4>2 DEF Box
      <4> QED BY <2>2, <3>1, <4>3, NoneAssumption
    <3>2. CASE k # x
      BY <2>2, <3>2 DEF TypeOK
    <3> QED BY <3>1, <3>2
  <2> QED BY <2>3 DEF Uses
<1> QED BY <1>1, <1>2 DEF Lookup, Join, Load

LEMMA CacheUsed ==
    ASSUME TypeOK, CacheInv, ahead' = ahead, now' \in Nat, now' >= now, Uses
    PROVE  CacheInv' /\ DropsColdest
<1>1. Present(entries') = Present(entries) /\ Present(entries) \subseteq Key
  BY DEF Present, Uses
<1>2. \A k \in Key : InCacheOf(k, entries') = InCacheOf(k, entries)
  BY DEF InCacheOf, Uses
<1>3. \A k \in Present(entries) : entries'[k].lastAccess <= now'
  <2> SUFFICES ASSUME NEW k \in Present(entries)
               PROVE  entries'[k].lastAccess <= now'
    OBVIOUS
  <2>1. k \in Key /\ entries[k] # None
    BY DEF Present
  <2>2. entries[k].lastAccess \in Nat /\ entries[k].lastAccess <= now /\ now \in Nat
    BY <2>1 DEF TypeOK, Box, CacheInv
  <2> QED BY <2>1, <2>2 DEF Uses
<1>4. CacheInv'
  <2>1. \A k \in Key : Few(InCacheOf(k, entries'))
    BY <1>2 DEF CacheInv
  <2>2. Ordered(Present(entries'), ahead') /\ \A k \in Key : ahead'[k] \subseteq Present(entries')
    BY <1>1 DEF CacheInv
  <2>3. \A k \in Present(entries') : entries'[k].lastAccess <= now'
    BY <1>1, <1>3
  <2> QED BY <2>1, <2>2, <2>3 DEF CacheInv, Ordered, Present, InCacheOf, SameCache
<1>5. DropsColdest
  BY DEF DropsColdest, Present, Uses
<1> QED BY <1>4, <1>5

LEMMA CacheStep ==
    ASSUME IInv, CacheInv, [Next]_vars
    PROVE  CacheInv' /\ (DropsColdest \/ Restart)
<1>0. TypeOK /\ now \in Nat /\ now >= now
  BY DEF IInv, TypeOK
<1>1. ASSUME UNCHANGED <<now, ahead>>, Uses
      PROVE  CacheInv' /\ DropsColdest
  BY <1>0, <1>1, CacheUsed
<1>2. ASSUME UNCHANGED <<entries, ahead>>, now' = now \/ now' = now + 1
      PROVE  CacheInv' /\ DropsColdest
  <2>1. now' \in Nat /\ now' >= now /\ Uses
    BY <1>0, <1>2 DEF Uses
  <2> QED BY <1>0, <1>2, <2>1, CacheUsed
<1>3. ASSUME NEW r, NEW k, NEW rd, Begin(r, k, rd)
      PROVE  CacheInv' /\ DropsColdest
  <2>1. UNCHANGED <<now, ahead>> /\ Uses
    BY <1>0, <1>3, LookupUses DEF Begin, Uses
  <2> QED BY <1>1, <2>1
<1>4. ASSUME NEW r, NEW v, Versioned(r, v)
      PROVE  CacheInv' /\ DropsColdest
  <2>1. UNCHANGED <<now, ahead>> /\ Uses
    BY <1>0, <1>4, LookupUses DEF Versioned
  <2> QED BY <1>1, <2>1
<1>5. ASSUME NEW q \in Reader, Loaded(q)
      PROVE  CacheInv' /\ DropsColdest
  <2>1. /\ read[q] # None /\ read[q].phase = "answered"
        /\ read[q] \in Read /\ ReadOK(read[q])
    BY <1>5 DEF Loaded, In, IInv, TypeOK, ReadsBacked
  <2>2. /\ read[q].got # None /\ read[q].token # None
    BY <2>1 DEF ReadOK, Versions, Result
  <2>3. read[q].key \in Key /\ read[q].got \in Nat /\ read[q].token \in Token
    BY <2>1, <2>2 DEF Read
  <2> QED BY <1>0, <1>5, <2>3, StoreCache DEF Loaded
<1>6. CASE Restart
  <2>1. /\ entries' = [k \in Key |-> None] /\ ahead' = [k \in Key |-> {}]
    BY <1>6 DEF Restart
  <2>2. Present(entries') = {} /\ \A k \in Key : InCacheOf(k, entries') = {}
    BY <2>1 DEF Present, InCacheOf
  <2>3. Few({})
    BY FS_EmptySet, DurationAssumption DEF Few
  <2>4. Ordered(Present(entries'), ahead') /\ \A k \in Key : ahead'[k] \subseteq Present(entries')
    BY <2>1, <2>2 DEF Ordered
  <2>5. \A k \in Key : Few(InCacheOf(k, entries'))
    BY <2>2, <2>3
  <2> QED BY <1>6, <2>2, <2>4, <2>5 DEF CacheInv, Ordered, Present, InCacheOf, SameCache
<1>7. CASE \E r \in Reader, k \in Key : Ask(r, k)
  BY <1>3, <1>7 DEF Ask
<1>8. CASE \E r \in Reader : PollEnds(r) \/ PollFails(r)
  BY <1>4, <1>8 DEF PollEnds, PollFails
<1>9. CASE \E q, r \in Reader : Nest(q, r)
  BY <1>3, <1>9 DEF Nest
<1>10. CASE \E r \in Reader : \/ CreatioHashes(r) \/ CreatioSchema(r) \/ NestEnds(r)
                              \/ LoadFails(r) \/ NestFails(r) \/ Return(r)
  BY <1>2, <1>10 DEF CreatioHashes, CreatioSchema, NestEnds, LoadFails, NestFails, Return,
                     cache
<1>11. CASE \E s \in Site : ChangeModel(s)
  BY <1>2, <1>11 DEF ChangeModel, cache
<1>12. CASE Tick
  BY <1>2, <1>12 DEF Tick, cache
<1>13. CASE UNCHANGED vars
  BY <1>2, <1>13 DEF vars, cache
<1> QED
  BY <1>5, <1>6, <1>7, <1>8, <1>9, <1>10, <1>11, <1>12, <1>13 DEF Next

\* VersionedTtlCache.set: a cache holds no more than its cap, and what a load drops
\* before its time is the entry used least recently, in a full cache, for a key that
\* was not there.
THEOREM CacheDropsColdest == Spec => ColdestEvicted
<1>1. Init => CacheInv
  <2> SUFFICES ASSUME Init
               PROVE  CacheInv
    OBVIOUS
  <2>1. entries = [k \in Key |-> None] /\ ahead = [k \in Key |-> {}]
    BY DEF Init
  <2>2. Present(entries) = {} /\ \A k \in Key : InCacheOf(k, entries) = {}
    BY <2>1 DEF Present, InCacheOf
  <2>3. Few({})
    BY FS_EmptySet, DurationAssumption DEF Few
  <2> QED BY <2>1, <2>2, <2>3 DEF CacheInv, Ordered
<1>2. IInv /\ CacheInv /\ [Next]_vars => CacheInv'
  BY CacheStep
<1>3. CacheInv => \A k \in Key : Cardinality(InCacheOf(k, entries)) <= MaxEntries
  BY DEF CacheInv, Few
<1>4. IInv /\ CacheInv /\ [Next]_vars =>
        [\A k \in Present(entries) : entries'[k] = None =>
            \/ Expired(entries[k])
            \/ Restart
            \/ /\ Cardinality(InCacheOf(k, entries')) = MaxEntries
               /\ \A j \in InCacheOf(k, entries') :
                     entries[k].lastAccess <= entries'[j].lastAccess
               /\ \E j \in InCacheOf(k, entries') : entries[j] = None]_vars
  BY CacheStep DEF DropsColdest
<1> QED BY <1>1, <1>2, <1>3, <1>4, Invariant, PTL DEF Spec, ColdestEvicted

=============================================================================
