--------------------------- MODULE TenantRegistry ---------------------------
(***************************************************************************)
(* TenantToolRegistry: the bounded map from the Creatio instance a request *)
(* addresses to the tools found there and the session servers that list    *)
(* them.  The states are objects: code that holds one goes on using it     *)
(* after the map has dropped it, so the map is from tenants to object ids. *)
(* A registry is a record: `at`, the object of each tenant, `before`, which*)
(* tenant was inserted before which, and `of`, the objects.                *)
(***************************************************************************)
EXTENDS Integers, FiniteSets

CONSTANTS
  Tenant,        \* effective base URLs, DEFAULT_TENANT_KEY among them
  Server,        \* McpServer objects, one to a transport
  Object,        \* TenantToolState objects: bounds those alive at once
  Preparer,      \* the optional capabilities that are probed
  None,          \* no object
  MaxTenants,    \* maxTenants
  IdleTtl        \* ttlMs

ASSUME RegistryAssumption ==
  /\ MaxTenants \in Nat \ {0}
  /\ IdleTtl \in Nat
  /\ None \notin Object

\* A TenantToolState as its constructor leaves it.
NewState(now) ==
  [caps |-> [p \in Preparer |-> "unknown"], cooldown |-> [p \in Preparer |-> 0],
   tools |-> {}, servers |-> {}, complete |-> FALSE, lastAccess |-> now]

Empty == [at |-> [t \in Tenant |-> None], before |-> {},
          of |-> [o \in Object |-> NewState(0)]]

Present(reg) == {t \in Tenant : reg.at[t] # None}
StateOf(reg, t) == reg.of[reg.at[t]]
\* Only tenants without session servers are evicted.
Idle(reg) == {t \in Present(reg) : StateOf(reg, t).servers = {}}

Drop(reg, gone) ==
  [at |-> [t \in Tenant |-> IF t \in gone THEN None ELSE reg.at[t]],
   before |-> {pair \in reg.before : pair[1] \notin gone /\ pair[2] \notin gone},
   of |-> reg.of]

\* The sort of _prune is stable: tenants of one millisecond keep their order.
Colder(reg, a, b) ==
  LET la == StateOf(reg, a).lastAccess
      lb == StateOf(reg, b).lastAccess
  IN la < lb \/ (la = lb /\ <<a, b>> \in reg.before)

Expired(reg, now) == {t \in Idle(reg) : now - StateOf(reg, t).lastAccess > IdleTtl}
\* Mutant: one too many is dropped.
OverCapEarly(reg) ==
  LET over == Cardinality(Present(reg)) - MaxTenants + 1
  IN {t \in Idle(reg) : Cardinality({u \in Idle(reg) : Colder(reg, u, t)}) < over}

OverCap(reg) ==
  LET over == Cardinality(Present(reg)) - MaxTenants
  IN {t \in Idle(reg) : Cardinality({u \in Idle(reg) : Colder(reg, u, t)}) < over}

Prune(reg, now) ==
  LET fresh == Drop(reg, Expired(reg, now))
  IN Drop(fresh, OverCap(fresh))

\* The objects nothing refers to any more, given those that are still in use.
Unused(reg, inUse) == Object \ (inUse \cup {reg.at[t] : t \in Present(reg)})

\* What is left of an object nothing refers to is forgotten.
Collected(reg, inUse) ==
  [reg EXCEPT !.of = [o \in Object |->
     IF o \in Unused(reg, inUse) THEN NewState(0) ELSE reg.of[o]]]

\* getState: which object it returns, and the registry it leaves.  The object it
\* returns may be one that its own _prune has just dropped.
Found(reg, t, inUse) ==
  IF t \in Present(reg) THEN reg.at[t]
  ELSE CHOOSE o \in Unused(reg, inUse) : TRUE
GetState(reg, t, now, inUse) ==
  LET o == Found(reg, t, inUse)
      touched == IF t \in Present(reg)
                 THEN [reg EXCEPT !.of[o].lastAccess = now]
                 ELSE [at |-> [reg.at EXCEPT ![t] = o],
                       before |-> reg.before \cup (Present(reg) \X {t}),
                       of |-> [reg.of EXCEPT ![o] = NewState(now)]]
  IN Prune(touched, now)

\* Only a bound on the objects alive at once can keep getState from running.
CanGet(reg, t, inUse) == t \in Present(reg) \/ Unused(reg, inUse) # {}

\* findBySession and allSessionServers.
TenantsWith(reg, s) == {t \in Present(reg) : s \in StateOf(reg, t).servers}
Track(reg, o, s) == [reg EXCEPT !.of[o].servers = @ \cup {s}]
Untrack(reg, s) ==
  [reg EXCEPT !.of = [o \in Object |->
     IF \E t \in TenantsWith(reg, s) : reg.at[t] = o
     THEN [reg.of[o] EXCEPT !.servers = @ \ {s}] ELSE reg.of[o]]]
AllServers(reg) == UNION {StateOf(reg, t).servers : t \in Present(reg)}
Cleared(reg) == Drop(reg, Tenant)
=============================================================================
