---------------------------- MODULE SchemaCache ----------------------------
(***************************************************************************)
(* The schema caches: SchemaFreshnessGate, which turns the client-cache    *)
(* hashes of Creatio into version tokens, and VersionedTtlCache, whose     *)
(* entries are valid under the token they were loaded with.                *)
(*                                                                         *)
(* Runtime schemas of DataService are one cache of keys <<site, entity>>.  *)
(* OData has two caches keyed by site, $metadata documents and lists of    *)
(* entity sets; a list that the service document does not yield is taken   *)
(* from $metadata, by a read within the load.  A read is an async call; a  *)
(* data model, and a schema taken from it, is named by its number.         *)
(***************************************************************************)
EXTENDS Integers, FiniteSets

CONSTANTS
    Site,         \* Creatio base URLs
    Cached,       \* what is cached per site
    CacheOf,      \* CacheOf[x]: the VersionedTtlCache instance that x is in
    List, Doc,    \* in Cached for OData: the entity-set list and $metadata
    Reader,       \* reads of schemas that can be going on at a time
    None,         \* absence of a value
    SnapshotTtl,  \* DEFAULT_SNAPSHOT_TTL_MS
    Bucket,       \* FALLBACK_BUCKET_MS
    EntryTtl,     \* CACHE_TTL_MS, METADATA_TTL_MS
    MaxEntries,   \* MAX_SCHEMA_ENTRIES, DEFAULT_MAX_TENANTS
    MaxTime,      \* bound: the clock stops here
    MaxModel,     \* bound: changes of a data model
    MaxReads      \* bound: reads begun

Key   == [site : Site, of : Cached]
Token == [src : {"hash", "bucket"}, n : Nat]
Snapshot == [token : Token, at : Nat]
Box == [value : Nat, version : Token, storedAt : Nat, lastAccess : Nat]
Phase == {"polling", "polled", "joined", "loading",
          "nested", "answered", "served", "failed"}

\* peer is the read whose load a joined read awaits, and the read of $metadata
\* within a nested load; got is the schema loaded or served.
Read == [phase : Phase, key : Key, asked : 0 .. MaxTime,
         token : Token \cup {None}, peer : Reader \cup {None},
         got : Nat \cup {None}]

ASSUME KeyAssumption == List \in Cached => Doc \in Cached \ {List}

ASSUME NoneAssumption ==
    None \notin Reader \cup Nat \cup Token \cup Snapshot \cup Box \cup Read

ASSUME DurationAssumption ==
    /\ SnapshotTtl \in Nat \ {0} /\ Bucket \in Nat \ {0}
    /\ EntryTtl \in Nat \ {0} /\ MaxEntries \in Nat \ {0}
    /\ MaxTime \in Nat /\ MaxModel \in Nat /\ MaxReads \in Nat

VARIABLES
    now,
    model,      \* Creatio: model[s]: the data model of the site s
    past,       \* history, past[s][t]: the model of s when t was over
    snapshot,   \* _snapshots
    entries,    \* _entries of all caches
    ahead,      \* ahead[k]: the keys before k in the Map's order
    read,       \* the reads going on
    begun       \* reads begun so far

creatio == <<model, past>>
cache   == <<entries, ahead>>
vars    == <<now, creatio, snapshot, cache, read, begun>>

Init ==
    /\ now = 0
    /\ model = [s \in Site |-> 0]
    /\ past = [s \in Site |-> [t \in 0 .. MaxTime |-> 0]]
    /\ snapshot = [s \in Site |-> None]
    /\ entries = [k \in Key |-> None]
    /\ ahead = [k \in Key |-> {}]
    /\ read = [r \in Reader |-> None]
    /\ begun = 0

In(r, p) == read[r] # None /\ read[r].phase = p

-----------------------------------------------------------------------------
(* getOrLoad.  A read that knows its version looks the schema up before    *)
(* anything else happens.                                                  *)

Served(c, v) == [c EXCEPT !.phase = "served", !.got = v]
Failed(c)    == [c EXCEPT !.phase = "failed"]

Valid(k, v) ==
    /\ entries[k] # None
    /\ entries[k].version = v
    /\ now - entries[k].storedAt < EntryTtl

\* _inflight, which is keyed by key and version.
Leading(q) ==
    read[q] # None /\ read[q].phase \in {"loading", "nested", "answered"}
Flight(k, v) ==
    {q \in Reader : Leading(q) /\ read[q].key = k /\ read[q].token = v}

\* The read r is c, the others are those of rd.
Hit(r, c, rd) ==
    /\ Valid(c.key, c.token)
    /\ entries' = [entries EXCEPT ![c.key].lastAccess = now]
    /\ read' = [rd EXCEPT ![r] = Served(c, entries[c.key].value)]

Join(r, c, rd) ==
    /\ ~Valid(c.key, c.token)
    /\ \E q \in Flight(c.key, c.token) :
          read' = [rd EXCEPT ![r] = [c EXCEPT !.phase = "joined", !.peer = q]]
    /\ UNCHANGED entries

Load(r, c, rd) ==
    /\ ~Valid(c.key, c.token)
    /\ Flight(c.key, c.token) = {}
    /\ read' = [rd EXCEPT ![r] = [c EXCEPT !.phase = "loading"]]
    /\ UNCHANGED entries

Lookup(r, c, rd) == Hit(r, c, rd) \/ Join(r, c, rd) \/ Load(r, c, rd)

-----------------------------------------------------------------------------
(* The gate. *)

Fresh(s) == snapshot[s] # None /\ now - snapshot[s].at < SnapshotTtl

Asking(k, v) == [phase |-> "polling", key |-> k, asked |-> now, token |-> v,
                 peer |-> None, got |-> None]

\* A read of k begins, with the snapshot or a poll of its own: polls are not
\* shared.
Begin(r, k, rd) ==
    /\ read[r] = None
    /\ begun < MaxReads
    /\ begun' = begun + 1
    /\ \/ /\ Fresh(k.site)
          /\ Lookup(r, Asking(k, snapshot[k.site].token), rd)
       \/ /\ ~Fresh(k.site)
          /\ read' = [rd EXCEPT ![r] = Asking(k, None)]
          /\ UNCHANGED entries
    /\ UNCHANGED <<now, creatio, snapshot, ahead>>

Ask(r, k) == Begin(r, k, read)

\* Creatio computes the hashes, which change with the data model.
CreatioHashes(r) ==
    /\ In(r, "polling")
    /\ read' = [read EXCEPT ![r].phase = "polled",
          ![r].token = [src |-> "hash", n |-> model[read[r].key.site]]]
    /\ UNCHANGED <<now, creatio, snapshot, cache, begun>>

\* Mutants: the life is subtracted from the stamp; the snapshot is stamped with
\* the time of the answer.
SnapshotBefore(r, v) == [token |-> v, at |-> read[r].asked - SnapshotTtl]
SnapshotNow(r, v) == [token |-> v, at |-> now]

\* The snapshot is as old as the question.
SnapshotOf(r, v) == [token |-> v, at |-> read[r].asked]

\* The version v replaces whatever snapshot there is.
Versioned(r, v) ==
    /\ snapshot' = [snapshot EXCEPT ![read[r].key.site] = SnapshotOf(r, v)]
    /\ Lookup(r, [read[r] EXCEPT !.token = v], read)
    /\ UNCHANGED <<now, creatio, ahead, begun>>

PollEnds(r) == In(r, "polled") /\ Versioned(r, read[r].token)

\* The endpoint fails or its answer is lost: the time, in buckets, is the token.
PollFails(r) ==
    /\ In(r, "polling")
    /\ Versioned(r, [src |-> "bucket", n |-> read[r].asked \div Bucket])

-----------------------------------------------------------------------------
(* Loads. *)

\* Creatio describes its data model as it is.
CreatioSchema(q) ==
    /\ In(q, "loading")
    /\ read' = [read EXCEPT ![q].phase = "answered",
                            ![q].got = model[read[q].key.site]]
    /\ UNCHANGED <<now, creatio, snapshot, cache, begun>>

\* No service document: the list is taken from $metadata, by the read r.
Nest(q, r) ==
    /\ In(q, "loading") /\ read[q].key.of = List
    /\ Begin(r, [read[q].key EXCEPT !.of = Doc],
             [read EXCEPT ![q].phase = "nested", ![q].peer = r])

Nested(r) == \E q \in Reader : In(q, "nested") /\ read[q].peer = r

NestEnds(q) ==
    /\ In(q, "nested")
    /\ In(read[q].peer, "served")
    /\ read' = [read EXCEPT ![q].phase = "answered",
                            ![q].got = read[read[q].peer].got,
                            ![read[q].peer] = None]
    /\ UNCHANGED <<now, creatio, snapshot, cache, begun>>

-----------------------------------------------------------------------------
(* VersionedTtlCache.set. *)

Present(e) == {k \in Key : e[k] # None}
SameCache(j, k) == CacheOf[j.of] = CacheOf[k.of]

\* Map.set keeps the position of a key that is there.
Placed(k) ==
    IF entries[k] = None THEN [ahead EXCEPT ![k] = Present(entries)] ELSE ahead

\* Mutant: the most recently used entries make room.
Warmer(j, k, e, before) ==
    \/ e[j].lastAccess > e[k].lastAccess
    \/ e[j].lastAccess = e[k].lastAccess /\ j \in before[k]

\* The order of the sort by recency, which is stable.
Colder(j, k, e, before) ==
    \/ e[j].lastAccess < e[k].lastAccess
    \/ e[j].lastAccess = e[k].lastAccess /\ j \in before[k]

Expired(b) == now - b.storedAt >= EntryTtl

\* _prune, of the cache that k is in: the keys that stay once the expired
\* entries and then the coldest ones beyond the cap are gone.
Kept(k, e, before) ==
    LET live == {j \in Present(e) : SameCache(j, k) => ~Expired(e[j])}
    IN  {j \in live : SameCache(j, k) =>
            Cardinality({i \in live :
                            SameCache(i, k) /\ Colder(j, i, e, before)})
              < MaxEntries}

BoxFor(value, version) ==
    [value |-> value, version |-> version, storedAt |-> now, lastAccess |-> now]

Store(k, value, version) ==
    LET e == [entries EXCEPT ![k] = BoxFor(value, version)]
        kept == Kept(k, e, Placed(k))
    IN  /\ entries' = [j \in Key |-> IF j \in kept THEN e[j] ELSE None]
        /\ ahead' = [j \in Key |->
              IF j \in kept THEN Placed(k)[j] \cap kept ELSE {}]

-----------------------------------------------------------------------------
(* The load of q settles: all who await it go on before anything else       *)
(* happens.                                                                *)

\* Mutant: the read that loads is the only one to be answered.
WaitingAlone(q) == {q}

Waiting(q) == {q} \cup {w \in Reader : In(w, "joined") /\ read[w].peer = q}

Loaded(q) ==
    /\ In(q, "answered")
    /\ Store(read[q].key, read[q].got, read[q].token)
    /\ read' = [w \in Reader |->
          IF w \in Waiting(q) THEN Served(read[w], read[q].got) ELSE read[w]]
    /\ UNCHANGED <<now, creatio, snapshot, begun>>

\* A load that fails is not cached.  Lists have no failure of their own.
LoadFails(q) ==
    /\ In(q, "loading") /\ read[q].key.of # List
    /\ read' = [w \in Reader |->
          IF w \in Waiting(q) THEN Failed(read[w]) ELSE read[w]]
    /\ UNCHANGED <<now, creatio, snapshot, cache, begun>>

NestFails(q) ==
    /\ In(q, "nested")
    /\ In(read[q].peer, "failed")
    /\ read' = [w \in Reader |->
          IF w \in Waiting(q) THEN Failed(read[w])
          ELSE IF w = read[q].peer THEN None ELSE read[w]]
    /\ UNCHANGED <<now, creatio, snapshot, cache, begun>>

\* The caller takes the result.
Return(r) ==
    /\ In(r, "served") \/ In(r, "failed")
    /\ ~Nested(r)
    /\ read' = [read EXCEPT ![r] = None]
    /\ UNCHANGED <<now, creatio, snapshot, cache, begun>>

-----------------------------------------------------------------------------
\* The process restarts: snapshots, entries and reads are gone.
Restart ==
    /\ snapshot' = [s \in Site |-> None]
    /\ entries' = [k \in Key |-> None]
    /\ ahead' = [k \in Key |-> {}]
    /\ read' = [r \in Reader |-> None]
    /\ UNCHANGED <<now, creatio, begun>>

\* An administrator changes the data model of a site.
ChangeModel(s) ==
    /\ model[s] < MaxModel
    /\ model' = [model EXCEPT ![s] = @ + 1]
    /\ UNCHANGED <<now, past, snapshot, cache, read, begun>>

Tick ==
    /\ now < MaxTime
    /\ now' = now + 1
    /\ past' = [s \in Site |-> [past[s] EXCEPT ![now] = model[s]]]
    /\ UNCHANGED <<model, snapshot, cache, read, begun>>

Next ==
    \/ \E r \in Reader, k \in Key : Ask(r, k)
    \/ \E r \in Reader : CreatioHashes(r)
    \/ \E r \in Reader : PollEnds(r)
    \/ \E r \in Reader : PollFails(r)
    \/ \E q \in Reader : CreatioSchema(q)
    \/ \E q, r \in Reader : Nest(q, r)
    \/ \E q \in Reader : NestEnds(q)
    \/ \E q \in Reader : Loaded(q)
    \/ \E q \in Reader : LoadFails(q)
    \/ \E q \in Reader : NestFails(q)
    \/ \E r \in Reader : Return(r)
    \/ Restart
    \/ \E s \in Site : ChangeModel(s)
    \/ Tick

Spec == Init /\ [][Next]_vars

\* Calls to Creatio end, and so do the steps between them.
FairSpec ==
    /\ Spec
    /\ \A r \in Reader :
          /\ WF_vars(CreatioHashes(r) \/ PollEnds(r) \/ PollFails(r))
          /\ WF_vars(CreatioSchema(r) \/ LoadFails(r))
          /\ WF_vars(NestEnds(r) \/ NestFails(r) \/ Loaded(r))

-----------------------------------------------------------------------------
(* Properties. *)

TypeOK ==
    /\ now \in 0 .. MaxTime
    /\ model \in [Site -> Nat]
    /\ past \in [Site -> [0 .. MaxTime -> Nat]]
    /\ snapshot \in [Site -> Snapshot \cup {None}]
    /\ entries \in [Key -> Box \cup {None}]
    /\ ahead \in [Key -> SUBSET Key]
    /\ read \in [Reader -> Read \cup {None}]
    /\ begun \in Nat

\* What a served read reflects when changes may go unseen for lag.
SeesChangesAfter(c, lag) ==
    \A t \in 0 .. c.asked : c.asked - t >= lag => c.got >= past[c.key.site][t]

\* How old a schema served under the token v may be.
Lag(v) == IF v.src = "hash" THEN SnapshotTtl ELSE SnapshotTtl + Bucket

\* Staleness is bounded: a schema that a read is served, however the polls and
\* loads of other reads overtake each other, reflects every change of the data
\* model that was made SnapshotTtl before the read asked, and Bucket more when
\* the hash endpoint failed.  Lists of entity sets are the exception.
BoundedStaleness ==
    \A r \in Reader :
        (In(r, "served") /\ read[r].key.of # List)
            => SeesChangesAfter(read[r], Lag(read[r].token))

\* Single flight: a read that joined a load waits for one that is going on, of
\* the schema and the version it wants, and there is one such load at a time.
SharedLoads ==
    /\ \A r \in Reader : In(r, "joined") =>
          read[r].peer \in Flight(read[r].key, read[r].token)
    /\ \A p, q \in Reader :
          (Leading(p) /\ q \in Flight(read[p].key, read[p].token)) => p = q

InCacheOf(k, e) == {j \in Key : e[j] # None /\ SameCache(j, k)}

\* The caches hold MaxEntries each, and what a load drops before its time was
\* used no later than anything that stays, in a full cache, and is not what the
\* load has brought.
ColdestEvicted ==
    /\ [](\A k \in Key : Cardinality(InCacheOf(k, entries)) <= MaxEntries)
    /\ [][\A k \in Present(entries) : entries'[k] = None =>
            \/ Expired(entries[k])
            \/ Restart
            \/ /\ Cardinality(InCacheOf(k, entries')) = MaxEntries
               /\ \A j \in InCacheOf(k, entries') :
                     entries[k].lastAccess <= entries'[j].lastAccess
               /\ \E j \in InCacheOf(k, entries') : entries[j] = None]_vars

\* Every read ends, whoever made the load it waits for.
ReadsEnd ==
    \A r \in Reader :
        (read[r] # None)
            ~> (In(r, "served") \/ In(r, "failed") \/ read[r] = None)

-----------------------------------------------------------------------------
(* What a comment in the source says and the code does not do. *)

\* schema-freshness-gate.ts: the snapshot's life bounds "the worst-case
\* staleness window after a data-model change", also for lists of entity sets
\* when the read got its version from the hash endpoint.
ListStaleness ==
    \A r \in Reader :
        (In(r, "served") /\ read[r].token.src = "hash")
            => SeesChangesAfter(read[r], SnapshotTtl)
=============================================================================
