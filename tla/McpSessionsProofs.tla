------------------------- MODULE McpSessionsProofs -------------------------
(***************************************************************************)
(* Proofs about McpSessions, for every set of tenants, sessions and        *)
(* preparers and every bound of the registry.                              *)
(***************************************************************************)
EXTENDS McpSessions, FiniteSetTheorems, SequenceTheorems, WellFoundedInduction, TLAPS

-----------------------------------------------------------------------------
(* The registry by itself: it stays within its cap. *)

\* Insertion is a strict order of the tenants there are.
Chained(reg) ==
  /\ reg.before \subseteq Present(reg) \X Present(reg)
  /\ \A a \in Tenant : <<a, a>> \notin reg.before
  /\ \A a, b, c \in Tenant :
       <<a, b>> \in reg.before /\ <<b, c>> \in reg.before => <<a, c>> \in reg.before

Aged(reg, at) == \A t \in Present(reg) : StateOf(reg, t).lastAccess <= at

Within(reg) == IsFiniteSet(Present(reg)) /\ Cardinality(Present(reg)) <= MaxTenants

Bounded(reg, at) == Chained(reg) /\ Aged(reg, at) /\ Within(reg)

\* The tenants that hold sessions.
Holding(reg) == Present(reg) \ Idle(reg)

-----------------------------------------------------------------------------
(* Who owns an object, and what is in it. *)

Busy(pr) == {o \in Object : pr[o].at # 0}

\* The object o works for the tenant t: the registry has it there, or a probe of t
\* goes on with it.
Owned(reg, pr, o, t) == reg.at[t] = o \/ (o \in Busy(pr) /\ pr[o].tenant = t)

\* What the object o has found, and the sessions it tracks, are those of t alone.
Belongs(reg, pr, hm, tr, o, t) ==
  /\ \A u \in Tenant : Owned(reg, pr, o, u) => u = t
  /\ \A tool \in reg.of[o].tools : tool.tenant = t
  /\ \A s \in reg.of[o].servers :
       /\ hm[s] = t /\ tr[s] # "none"
       /\ \A x \in Object, u \in Tenant :
            Owned(reg, pr, x, u) /\ s \in reg.of[x].servers => x = o

InStep(reg, ls) ==
  \A t \in Present(reg) :
    \A s \in StateOf(reg, t).servers : ls[s] = StateOf(reg, t).tools

Kept(reg, pr, hm, tr, ls) ==
  /\ \A o \in Object, t \in Tenant : Owned(reg, pr, o, t) => Belongs(reg, pr, hm, tr, o, t)
  /\ \A o \in Busy(pr) : pr[o].tenant \in Tenant
  /\ InStep(reg, ls)

\* Servers whose transport was ever created.
Begun == {s \in Server : transport[s] # "none"}

IInv ==
  /\ TypeOK
  /\ IsFiniteSet(Begun) /\ sessions \subseteq Begun
  /\ Bounded(registry, now)
  /\ Kept(registry, probe, home, transport, listed)
  /\ OwnTools

-----------------------------------------------------------------------------
(* What the updates of a state and of the registry leave in place. *)

LEMMA NewStates ==
  ASSUME NEW n \in Nat
  PROVE  /\ NewState(n) \in TenantState
         /\ NewState(n).tools = {} /\ NewState(n).servers = {} /\ NewState(n).lastAccess = n
BY DEF NewState, TenantState

LEMMA TouchedStates ==
  ASSUME NEW st \in TenantState, NEW n \in Nat
  PROVE  LET new == [st EXCEPT !.lastAccess = n]
         IN  /\ new \in TenantState /\ new.tools = st.tools /\ new.servers = st.servers
             /\ new.lastAccess = n
BY DEF TenantState

LEMMA CompleteStates ==
  ASSUME NEW st \in TenantState, NEW b \in BOOLEAN
  PROVE  LET new == [st EXCEPT !.complete = b]
         IN  /\ new \in TenantState /\ new.tools = st.tools /\ new.servers = st.servers
             /\ new.lastAccess = st.lastAccess
BY DEF TenantState

LEMMA TrackingStates ==
  ASSUME NEW st \in TenantState, NEW S \in SUBSET Server
  PROVE  LET new == [st EXCEPT !.servers = S]
         IN  /\ new \in TenantState /\ new.tools = st.tools /\ new.servers = S
             /\ new.lastAccess = st.lastAccess
BY DEF TenantState

LEMMA ToolStates ==
  ASSUME NEW st \in TenantState, NEW tool \in Tool
  PROVE  /\ WithTool(st, tool) \in TenantState
         /\ WithTool(st, tool).tools = st.tools \cup {tool}
         /\ WithTool(st, tool).servers = st.servers
         /\ WithTool(st, tool).lastAccess = st.lastAccess
BY DEF TenantState, WithTool

LEMMA VerdictStates ==
  ASSUME NEW st \in TenantState, NEW p \in Preparer, NEW v \in {"yes", "no"}
  PROVE  /\ Verdict(st, p, v) \in TenantState
         /\ Verdict(st, p, v).tools = st.tools
         /\ Verdict(st, p, v).servers = st.servers
         /\ Verdict(st, p, v).lastAccess = st.lastAccess
BY DEF TenantState, Verdict

LEMMA CoolingStates ==
  ASSUME NEW st \in TenantState, NEW p \in Preparer, NEW n \in Nat
  PROVE  LET new == [st EXCEPT !.cooldown[p] = n]
         IN  /\ new \in TenantState /\ new.tools = st.tools /\ new.servers = st.servers
             /\ new.lastAccess = st.lastAccess
BY DEF TenantState

\* The registry new differs from reg in the object o alone, which has become st.
Changes(reg, new, o, st) ==
  /\ new \in Registry /\ new.at = reg.at /\ new.before = reg.before
  /\ new.of[o] = st
  /\ \A x \in Object : x # o => new.of[x] = reg.of[x]

LEMMA Replaced ==
  ASSUME NEW reg \in Registry, NEW o \in Object, NEW st \in TenantState
  PROVE  Changes(reg, [reg EXCEPT !.of[o] = st], o, st)
BY DEF Registry, Changes

LEMMA Touched ==
  ASSUME NEW reg \in Registry, NEW o \in Object, NEW n \in Nat
  PROVE  Changes(reg, [reg EXCEPT !.of[o].lastAccess = n], o, [reg.of[o] EXCEPT !.lastAccess = n])
<1>1. reg.of[o] \in TenantState
  BY DEF Registry
<1>2. [reg.of[o] EXCEPT !.lastAccess = n] \in TenantState
  BY <1>1, TouchedStates
<1>3. [reg EXCEPT !.of[o].lastAccess = n] = [reg EXCEPT !.of[o] = [reg.of[o] EXCEPT !.lastAccess = n]]
  BY DEF Registry
<1> QED BY <1>2, <1>3, Replaced

LEMMA Completed ==
  ASSUME NEW reg \in Registry, NEW o \in Object, NEW b \in BOOLEAN
  PROVE  Changes(reg, [reg EXCEPT !.of[o].complete = b], o, [reg.of[o] EXCEPT !.complete = b])
<1>1. reg.of[o] \in TenantState
  BY DEF Registry
<1>2. [reg.of[o] EXCEPT !.complete = b] \in TenantState
  BY <1>1, CompleteStates
<1>3. [reg EXCEPT !.of[o].complete = b] = [reg EXCEPT !.of[o] = [reg.of[o] EXCEPT !.complete = b]]
  BY DEF Registry
<1> QED BY <1>2, <1>3, Replaced

LEMMA Tracked ==
  ASSUME NEW reg \in Registry, NEW o \in Object, NEW s \in Server
  PROVE  Changes(reg, Track(reg, o, s), o, [reg.of[o] EXCEPT !.servers = reg.of[o].servers \cup {s}])
<1>1. reg.of[o] \in TenantState
  BY DEF Registry
<1>2. reg.of[o].servers \cup {s} \in SUBSET Server
  BY <1>1 DEF TenantState
<1>3. [reg.of[o] EXCEPT !.servers = reg.of[o].servers \cup {s}] \in TenantState
  BY <1>1, <1>2, TrackingStates
<1>4. Track(reg, o, s) = [reg EXCEPT !.of[o] = [reg.of[o] EXCEPT !.servers = reg.of[o].servers \cup {s}]]
  BY DEF Registry, Track
<1> QED BY <1>3, <1>4, Replaced

LEMMA StaysBounded ==
  ASSUME NEW reg \in Registry, NEW new \in Registry, NEW n \in Nat, Bounded(reg, n),
         new.at = reg.at, new.before = reg.before,
         \A t \in Present(reg) : StateOf(new, t).lastAccess <= n
  PROVE  Bounded(new, n) /\ Present(new) = Present(reg)
<1>1. Present(new) = Present(reg)
  BY DEF Present
<1> QED BY <1>1 DEF Bounded, Chained, Aged, Within

LEMMA Drops ==
  ASSUME NEW reg \in Registry, NEW gone \in SUBSET Tenant
  PROVE  LET new == Drop(reg, gone)
         IN  /\ new \in Registry /\ new.of = reg.of
             /\ \A t \in Tenant : new.at[t] = IF t \in gone THEN None ELSE reg.at[t]
             /\ Present(new) = Present(reg) \ gone
             /\ \A t \in Present(new) : StateOf(new, t) = StateOf(reg, t)
             /\ \A a, b \in Tenant : <<a, b>> \in new.before <=>
                                       <<a, b>> \in reg.before /\ a \notin gone /\ b \notin gone
             /\ Chained(reg) => Chained(new)
             /\ \A n \in Nat : Aged(reg, n) => Aged(new, n)
             /\ Within(reg) => Within(new)
<1> DEFINE new == Drop(reg, gone)
<1>1. new \in Registry /\ new.of = reg.of
  BY DEF Drop, Registry
<1>2. \A t \in Tenant : new.at[t] = IF t \in gone THEN None ELSE reg.at[t]
  BY DEF Drop
<1>3. Present(new) = Present(reg) \ gone
  BY <1>2 DEF Present
<1>4. new.before = {pair \in reg.before : pair[1] \notin gone /\ pair[2] \notin gone}
  BY DEF Drop
<1> HIDE DEF new
<1>5. \A t \in Present(new) : t \in Present(reg) /\ StateOf(new, t) = StateOf(reg, t)
  <2>1. \A t \in Present(new) : t \in Present(reg) /\ new.at[t] = reg.at[t]
    BY <1>2, <1>3 DEF Present
  <2> QED BY <1>1, <2>1 DEF StateOf
<1>6. \A a, b \in Tenant : <<a, b>> \in new.before <=>
                             <<a, b>> \in reg.before /\ a \notin gone /\ b \notin gone
  BY <1>4
<1>7. ASSUME Chained(reg)
      PROVE  Chained(new)
  <2>1. new.before \subseteq Present(new) \X Present(new)
    BY <1>3, <1>4, <1>7 DEF Chained, Registry
  <2> QED BY <1>6, <2>1, <1>7 DEF Chained
<1>8. ASSUME NEW n \in Nat, Aged(reg, n)
      PROVE  Aged(new, n)
  BY <1>5, <1>8 DEF Aged
<1>9. ASSUME Within(reg)
      PROVE  Within(new)
  <2>1. Present(new) \subseteq Present(reg) /\ IsFiniteSet(Present(reg))
    BY <1>3, <1>9 DEF Within
  <2>2. /\ IsFiniteSet(Present(new)) /\ Cardinality(Present(new)) <= Cardinality(Present(reg))
        /\ Cardinality(Present(new)) \in Nat /\ Cardinality(Present(reg)) \in Nat
    BY <2>1, FS_Subset, FS_CardinalityType
  <2>3. Cardinality(Present(reg)) <= MaxTenants /\ MaxTenants \in Nat
    BY <1>9, RegistryAssumption DEF Within
  <2> QED BY <2>2, <2>3 DEF Within
<1> QED BY <1>1, <1>2, <1>3, <1>5, <1>6, <1>7, <1>8, <1>9 DEF new

LEMMA Collects ==
  ASSUME NEW reg \in Registry, NEW inUse \in SUBSET Object
  PROVE  LET new == Collected(reg, inUse)
         IN  /\ new \in Registry /\ new.at = reg.at /\ new.before = reg.before
             /\ \A t \in Present(reg) : StateOf(new, t) = StateOf(reg, t)
             /\ \A o \in inUse : new.of[o] = reg.of[o]
             /\ \A n \in Nat : Bounded(reg, n) => Bounded(new, n)
<1> DEFINE new == Collected(reg, inUse)
<1>1. NewState(0) \in TenantState
  BY NewStates
<1>2. new \in Registry /\ new.at = reg.at /\ new.before = reg.before
  BY <1>1 DEF Collected, Registry
<1>3. \A t \in Present(reg) : reg.at[t] \in Object /\ reg.at[t] \notin Unused(reg, inUse)
  BY DEF Present, Unused, Registry
<1>4. \A o \in Object : o \notin Unused(reg, inUse) => new.of[o] = reg.of[o]
  BY DEF Collected
<1>5. \A t \in Present(reg) : StateOf(new, t) = StateOf(reg, t)
  BY <1>2, <1>3, <1>4 DEF StateOf
<1>6. \A o \in inUse : new.of[o] = reg.of[o]
  BY <1>4 DEF Unused
<1> HIDE DEF new
<1>7. ASSUME NEW n \in Nat, Bounded(reg, n)
      PROVE  Bounded(new, n)
  BY <1>2, <1>5, <1>7, StaysBounded DEF Bounded, Aged
<1> QED BY <1>2, <1>5, <1>6, <1>7 DEF new

LEMMA Untracks ==
  ASSUME NEW reg \in Registry, NEW s \in Server
  PROVE  LET new == Untrack(reg, s)
         IN  /\ new \in Registry /\ new.at = reg.at /\ new.before = reg.before
             /\ \A o \in Object : /\ new.of[o].tools = reg.of[o].tools
                                  /\ new.of[o].servers \subseteq reg.of[o].servers
             /\ \A t \in Present(reg) : StateOf(new, t).servers = StateOf(reg, t).servers \ {s}
             /\ \A n \in Nat : Bounded(reg, n) => Bounded(new, n)
<1> DEFINE new == Untrack(reg, s)
           less(st) == [st EXCEPT !.servers = st.servers \ {s}]
<1>1. \A st \in TenantState : /\ less(st) \in TenantState /\ less(st).tools = st.tools
                              /\ less(st).servers = st.servers \ {s}
                              /\ less(st).lastAccess = st.lastAccess
  <2> SUFFICES ASSUME NEW st \in TenantState
               PROVE  /\ less(st) \in TenantState /\ less(st).tools = st.tools
                      /\ less(st).servers = st.servers \ {s}
                      /\ less(st).lastAccess = st.lastAccess
    OBVIOUS
  <2>1. st.servers \ {s} \in SUBSET Server
    BY DEF TenantState
  <2> QED BY <2>1, TrackingStates
<1>2. /\ new.at = reg.at /\ new.before = reg.before
      /\ new.of = [o \in Object |-> IF \E t \in TenantsWith(reg, s) : reg.at[t] = o
                                    THEN less(reg.of[o]) ELSE reg.of[o]]
  BY DEF Untrack, Registry
<1> HIDE DEF less
<1>3. \A o \in Object : reg.of[o] \in TenantState
  BY DEF Registry
<1>4. new \in Registry
  <2>1. new.of \in [Object -> TenantState]
    BY <1>1, <1>2, <1>3
  <2>2. new = [reg EXCEPT !.of = new.of]
    BY DEF Untrack, Registry
  <2> QED BY <2>1, <2>2 DEF Registry
<1>5. \A o \in Object : /\ new.of[o].tools = reg.of[o].tools
                        /\ new.of[o].servers \subseteq reg.of[o].servers
                        /\ new.of[o].lastAccess = reg.of[o].lastAccess
  BY <1>1, <1>2, <1>3
<1>6. ASSUME NEW t \in Present(reg)
      PROVE  StateOf(new, t).servers = StateOf(reg, t).servers \ {s}
  <2>1. reg.at[t] \in Object
    BY DEF Present, Registry
  <2>2. CASE s \in StateOf(reg, t).servers
    BY <1>1, <1>2, <1>3, <2>1, <2>2 DEF TenantsWith, StateOf
  <2>3. CASE s \notin StateOf(reg, t).servers
    <3>1. \/ new.of[reg.at[t]] = reg.of[reg.at[t]]
          \/ new.of[reg.at[t]] = less(reg.of[reg.at[t]])
      BY <1>2, <2>1
    <3> QED BY <1>1, <1>2, <1>3, <2>1, <2>3, <3>1 DEF StateOf
  <2> QED BY <2>2, <2>3
<1> HIDE DEF new
<1>7. ASSUME NEW n \in Nat, Bounded(reg, n)
      PROVE  Bounded(new, n)
  <2>1. \A t \in Present(reg) : reg.at[t] \in Object
    BY DEF Present, Registry
  <2>2. \A t \in Present(reg) : StateOf(new, t).lastAccess <= n
    BY <1>2, <1>5, <1>7, <2>1 DEF Bounded, Aged, StateOf
  <2> QED BY <1>2, <1>4, <1>7, <2>2, StaysBounded
<1> QED BY <1>2, <1>4, <1>5, <1>6, <1>7 DEF new

-----------------------------------------------------------------------------
(* _prune keeps the registry within its cap. *)

\* Some tenant among finitely many is colder than no other.
LEMMA Coldest ==
  ASSUME NEW reg \in Registry, Chained(reg), NEW S \in SUBSET Present(reg), IsFiniteSet(S), S # {}
  PROVE  \E t \in S : {u \in S : Colder(reg, u, t)} = {}
<1> DEFINE colder(t) == {u \in S : Colder(reg, u, t)}
           ages == {StateOf(reg, t).lastAccess : t \in S}
           ranks == {Cardinality(colder(t)) : t \in S}
<1>1. \A t \in S : IsFiniteSet(colder(t)) /\ Cardinality(colder(t)) \in Nat
  <2> SUFFICES ASSUME NEW t \in S PROVE IsFiniteSet(colder(t)) /\ Cardinality(colder(t)) \in Nat
    OBVIOUS
  <2>1. colder(t) \subseteq S
    OBVIOUS
  <2> QED BY <2>1, FS_Subset, FS_CardinalityType
<1>2. PICK t \in S : \A u \in S : ~(Cardinality(colder(u)) < Cardinality(colder(t)))
  <2>1. ranks \subseteq Nat /\ ranks # {}
    BY <1>1
  <2>2. PICK n \in ranks : \A m \in ranks : <<m, n>> \notin OpToRel(<, Nat)
    BY <2>1, NatLessThanWellFounded, WFMin
  <2>3. PICK t \in S : n = Cardinality(colder(t))
    BY <2>2
  <2>4. \A u \in S : ~(Cardinality(colder(u)) < n)
    BY <1>1, <2>1, <2>2 DEF OpToRel
  <2> QED BY <2>3, <2>4
<1>3. \A a \in S : a \in Tenant /\ StateOf(reg, a).lastAccess \in Nat
  BY DEF Present, Registry, TenantState, StateOf
<1>4. ASSUME NEW u \in colder(t) PROVE FALSE
  <2>1. \A w \in colder(u) : w \in colder(t)
    BY <1>3, <1>4 DEF Chained, Colder
  <2>2. u \notin colder(u)
    BY <1>3 DEF Chained, Colder
  <2>3. colder(u) \subseteq colder(t) /\ colder(u) # colder(t)
    BY <1>4, <2>1, <2>2
  <2>4. Cardinality(colder(u)) < Cardinality(colder(t))
    BY <1>1, <2>3, FS_Subset
  <2> QED BY <1>2, <1>4, <2>4
<1> QED BY <1>4

\* t has just been looked up: it is idle and inserted last if there is one too many.
Latest(reg, t, n) ==
  /\ t \in Present(reg) /\ StateOf(reg, t).lastAccess = n
  /\ IsFiniteSet(Present(reg)) /\ Cardinality(Present(reg)) <= MaxTenants + 1
  /\ Cardinality(Present(reg)) = MaxTenants + 1 =>
       t \in Idle(reg) /\ \A u \in Present(reg) : u # t => <<u, t>> \in reg.before

\* What _prune leaves: the tenants that hold sessions, no more than the cap, and the
\* one just looked up unless the cap is used up by others that hold sessions.
LEMMA Prunes ==
  ASSUME NEW reg \in Registry, NEW n \in Nat, NEW t \in Tenant,
         Chained(reg), Aged(reg, n), Latest(reg, t, n)
  PROVE  LET new == Prune(reg, n)
         IN  /\ new \in Registry /\ new.of = reg.of
             /\ \A u \in Tenant : new.at[u] \in {reg.at[u], None}
             /\ Bounded(new, n)
             /\ Holding(reg) \subseteq Present(new)
             /\ t \notin Present(new) => /\ Cardinality(Present(reg)) = MaxTenants + 1
                                         /\ Cardinality(Holding(reg)) >= MaxTenants
<1> DEFINE fresh == Drop(reg, Expired(reg, n))
           new == Drop(fresh, OverCap(fresh))
           over == Cardinality(Present(fresh)) - MaxTenants
<1>0. MaxTenants \in Nat \ {0} /\ IdleTtl \in Nat
  BY RegistryAssumption
<1>1. Expired(reg, n) \in SUBSET Tenant /\ Expired(reg, n) \subseteq Idle(reg)
  BY DEF Expired, Idle, Present
<1>2. /\ fresh \in Registry /\ fresh.of = reg.of /\ Chained(fresh) /\ Aged(fresh, n)
      /\ Present(fresh) = Present(reg) \ Expired(reg, n)
      /\ \A u \in Tenant : fresh.at[u] \in {reg.at[u], None}
      /\ \A u \in Present(fresh) : StateOf(fresh, u) = StateOf(reg, u)
      /\ \A a, b \in Present(fresh) : <<a, b>> \in reg.before => <<a, b>> \in fresh.before
  <2>1. \A a \in Present(fresh) : a \in Tenant
    BY DEF Present
  <2>2. Present(fresh) = Present(reg) \ Expired(reg, n)
    BY <1>1, Drops
  <2> QED BY <1>1, <2>1, <2>2, Drops
<1> HIDE DEF fresh
<1>3. OverCap(fresh) \in SUBSET Tenant /\ OverCap(fresh) \subseteq Idle(fresh)
  BY DEF OverCap, Idle, Present
<1>4. /\ new \in Registry /\ new.of = reg.of /\ Chained(new) /\ Aged(new, n)
      /\ Present(new) = Present(fresh) \ OverCap(fresh)
      /\ \A u \in Tenant : new.at[u] \in {reg.at[u], None}
  BY <1>2, <1>3, Drops
<1>5. new = Prune(reg, n)
  BY DEF Prune, fresh
<1> HIDE DEF new
<1>6. /\ IsFiniteSet(Present(fresh)) /\ Cardinality(Present(fresh)) \in Nat
      /\ Cardinality(Present(reg)) \in Nat
      /\ Cardinality(Present(fresh)) <= Cardinality(Present(reg))
      /\ IsFiniteSet(Present(new)) /\ Cardinality(Present(new)) \in Nat
      /\ Cardinality(Present(new)) <= Cardinality(Present(fresh))
  <2>1. Present(fresh) \subseteq Present(reg) /\ Present(new) \subseteq Present(fresh)
    BY <1>2, <1>4
  <2> QED BY <2>1, FS_Subset, FS_CardinalityType DEF Latest
<1>7. Idle(fresh) \subseteq Idle(reg) /\ Holding(reg) = Holding(fresh)
  BY <1>1, <1>2 DEF Idle, Holding
<1>8. Holding(reg) \subseteq Present(new)
  BY <1>3, <1>4, <1>7 DEF Holding
<1>9. t \in Present(fresh)
  <2>1. t \notin Expired(reg, n)
    BY <1>0 DEF Expired, Latest
  <2> QED BY <1>2, <2>1 DEF Latest
<1>10. /\ IsFiniteSet(Idle(fresh)) /\ Cardinality(Idle(fresh)) \in Nat
       /\ IsFiniteSet(Holding(fresh)) /\ Cardinality(Holding(fresh)) \in Nat
       /\ Cardinality(Present(fresh)) = Cardinality(Idle(fresh)) + Cardinality(Holding(fresh))
  <2>1. Idle(fresh) \subseteq Present(fresh) /\ Holding(fresh) = Present(fresh) \ Idle(fresh)
    BY DEF Idle, Holding
  <2>2. /\ IsFiniteSet(Idle(fresh)) /\ IsFiniteSet(Holding(fresh))
        /\ Cardinality(Idle(fresh)) \in Nat /\ Cardinality(Holding(fresh)) \in Nat
    BY <1>6, <2>1, FS_Subset, FS_CardinalityType
  <2>3. Cardinality(Idle(fresh) \cup Holding(fresh))
          = Cardinality(Idle(fresh)) + Cardinality(Holding(fresh))
              - Cardinality(Idle(fresh) \cap Holding(fresh))
    BY <2>2, FS_Union
  <2>4. Idle(fresh) \cup Holding(fresh) = Present(fresh) /\ Idle(fresh) \cap Holding(fresh) = {}
    BY <2>1
  <2>5. Cardinality({}) = 0
    BY FS_EmptySet
  <2>6. Cardinality(Idle(fresh) \cap Holding(fresh)) = 0
    BY <2>4, <2>5
  <2>7. Cardinality(Present(fresh)) = Cardinality(Idle(fresh)) + Cardinality(Holding(fresh)) - 0
    BY <2>3, <2>4, <2>6
  <2>8. \A a, b \in Nat : a + b - 0 = a + b
    OBVIOUS
  <2> QED BY <2>2, <2>7, <2>8
<1>11. Cardinality(Present(new)) <= MaxTenants
  <2>1. CASE Cardinality(Present(fresh)) <= MaxTenants
    BY <2>1, <1>0, <1>6
  <2>2. CASE Cardinality(Present(fresh)) > MaxTenants
    <3>1. /\ Cardinality(Present(fresh)) = MaxTenants + 1
          /\ Cardinality(Present(reg)) = MaxTenants + 1
      BY <2>2, <1>0, <1>6 DEF Latest
    <3>2. t \in Idle(fresh)
      BY <1>2, <1>9, <3>1 DEF Latest, Idle
    <3>3. PICK u \in Idle(fresh) : {w \in Idle(fresh) : Colder(fresh, w, u)} = {}
      <4>1. Idle(fresh) \in SUBSET Present(fresh) /\ Idle(fresh) # {}
        BY <3>2 DEF Idle
      <4> QED BY <4>1, <1>2, <1>10, Coldest
    <3>4. over = 1
      BY <3>1, <1>0
    <3>5. Cardinality({w \in Idle(fresh) : Colder(fresh, w, u)}) < over
      BY <3>3, <3>4, FS_EmptySet
    <3>6. u \in OverCap(fresh)
      BY <3>5 DEF OverCap
    <3>7. Present(new) \subseteq Present(fresh) /\ Present(new) # Present(fresh)
      BY <1>3, <1>4, <3>6 DEF Idle
    <3>8. Cardinality(Present(new)) < Cardinality(Present(fresh))
      BY <1>6, <3>7, FS_Subset
    <3> QED BY <1>0, <1>6, <3>1, <3>8
  <2> QED BY <2>1, <2>2, <1>0, <1>6
<1>12. ASSUME t \notin Present(new)
       PROVE  /\ Cardinality(Present(reg)) = MaxTenants + 1
              /\ Cardinality(Holding(reg)) >= MaxTenants
  <2> DEFINE colder == {u \in Idle(fresh) : Colder(fresh, u, t)}
  <2>1. t \in Idle(fresh) /\ Cardinality(colder) < over
    BY <1>4, <1>9, <1>12 DEF OverCap
  <2>2. colder \subseteq Idle(fresh) /\ IsFiniteSet(colder) /\ Cardinality(colder) \in Nat
    BY <1>10, FS_Subset, FS_CardinalityType
  <2>3. over > 0
    BY <1>0, <1>6, <2>1, <2>2
  <2>4. Cardinality(Present(reg)) = MaxTenants + 1
    BY <1>0, <1>6, <2>3 DEF Latest
  <2>5. \A u \in Idle(fresh) : u # t => Colder(fresh, u, t)
    <3> SUFFICES ASSUME NEW u \in Idle(fresh), u # t
                 PROVE  Colder(fresh, u, t)
      OBVIOUS
    <3>1. u \in Present(fresh) /\ u \in Present(reg) /\ u \in Tenant
      BY <1>2 DEF Idle, Present
    <3>2. <<u, t>> \in fresh.before
      BY <1>2, <1>9, <2>4, <3>1 DEF Latest
    <3>3. StateOf(fresh, t).lastAccess = n
      BY <1>2, <1>9 DEF Latest
    <3>4. StateOf(fresh, u).lastAccess <= n
      BY <1>2, <3>1 DEF Aged
    <3>5. StateOf(fresh, u).lastAccess \in Nat
      BY <1>2, <3>1 DEF StateOf, Present, Registry, TenantState
    <3> QED BY <3>2, <3>3, <3>4, <3>5 DEF Colder
  <2>6. Idle(fresh) \ {t} \subseteq colder
    BY <2>5
  <2>7. /\ Cardinality(Idle(fresh) \ {t}) = Cardinality(Idle(fresh)) - 1
        /\ IsFiniteSet(Idle(fresh) \ {t}) /\ Cardinality(Idle(fresh) \ {t}) \in Nat
    BY <1>10, <2>1, FS_RemoveElement, FS_CardinalityType
  <2>8. Cardinality(Idle(fresh) \ {t}) <= Cardinality(colder)
    BY <2>2, <2>6, FS_Subset
  <2> HIDE DEF colder
  <2>9. Cardinality(Holding(fresh)) >= MaxTenants
    BY <1>0, <1>6, <1>10, <2>1, <2>2, <2>7, <2>8
  <2> QED BY <1>7, <2>4, <2>9
<1>13. Bounded(new, n)
  BY <1>4, <1>6, <1>11 DEF Bounded, Within
<1> QED BY <1>4, <1>5, <1>8, <1>12, <1>13

LEMMA PresentObjects ==
  ASSUME NEW reg \in Registry
  PROVE  /\ \A t \in Tenant : t \in Present(reg) <=> reg.at[t] \in Object
         /\ \A t \in Tenant : t \notin Present(reg) => reg.at[t] = None
         /\ \A t \in Present(reg) : t \in Tenant /\ StateOf(reg, t) \in TenantState
BY RegistryAssumption DEF Present, Registry, StateOf

\* The registry that getState prunes.
Touching(reg, t, n, inUse) ==
  LET o == Found(reg, t, inUse)
  IN  IF t \in Present(reg)
      THEN [reg EXCEPT !.of[o].lastAccess = n]
      ELSE [at |-> [reg.at EXCEPT ![t] = o],
            before |-> reg.before \cup (Present(reg) \X {t}),
            of |-> [reg.of EXCEPT ![o] = NewState(n)]]

\* A tenant that is looked up again.
LEMMA TouchesAgain ==
  ASSUME NEW reg \in Registry, NEW n \in Nat, NEW t \in Present(reg), NEW inUse \in SUBSET Object,
         Bounded(reg, n)
  PROVE  LET o == reg.at[t]
             mid == Touching(reg, t, n, inUse)
         IN  /\ o = Found(reg, t, inUse) /\ o \in Object
             /\ mid \in Registry /\ mid.at = reg.at /\ Bounded(mid, n)
             /\ \A x \in Object : x # o => mid.of[x] = reg.of[x]
             /\ mid.of[o].tools = reg.of[o].tools /\ mid.of[o].servers = reg.of[o].servers
             /\ Latest(mid, t, n)
             /\ Present(mid) = Present(reg) /\ Holding(mid) = Holding(reg)
<1> DEFINE o == reg.at[t]
           mid == Touching(reg, t, n, inUse)
           st == [reg.of[o] EXCEPT !.lastAccess = n]
<1>1. o = Found(reg, t, inUse) /\ o \in Object /\ t \in Tenant
  BY PresentObjects DEF Found
<1>2. Changes(reg, mid, o, st)
  BY <1>1, Touched DEF Touching
<1>3. st.tools = reg.of[o].tools /\ st.servers = reg.of[o].servers /\ st.lastAccess = n
  BY <1>1, TouchedStates DEF Registry
<1> HIDE DEF mid, st
<1>4. /\ mid \in Registry /\ mid.at = reg.at /\ mid.before = reg.before
      /\ mid.of[o].tools = reg.of[o].tools /\ mid.of[o].servers = reg.of[o].servers
      /\ mid.of[o].lastAccess = n
      /\ \A x \in Object : x # o => mid.of[x] = reg.of[x]
  BY <1>2, <1>3 DEF Changes
<1>5. \A u \in Present(reg) : /\ reg.at[u] \in Object
                              /\ StateOf(mid, u).lastAccess <= n
                              /\ StateOf(mid, u).servers = StateOf(reg, u).servers
  <2> SUFFICES ASSUME NEW u \in Present(reg)
               PROVE  /\ reg.at[u] \in Object
                      /\ StateOf(mid, u).lastAccess <= n
                      /\ StateOf(mid, u).servers = StateOf(reg, u).servers
    OBVIOUS
  <2>1. reg.at[u] \in Object
    BY PresentObjects
  <2>2. StateOf(reg, u).lastAccess <= n
    BY DEF Bounded, Aged
  <2>3. CASE reg.at[u] = o
    BY <1>4, <2>1, <2>3 DEF StateOf
  <2>4. CASE reg.at[u] # o
    BY <1>4, <2>1, <2>2, <2>4 DEF StateOf
  <2> QED BY <2>1, <2>3, <2>4
<1>6. Bounded(mid, n) /\ Present(mid) = Present(reg)
  BY <1>4, <1>5, StaysBounded
<1>7. Holding(mid) = Holding(reg)
  BY <1>5, <1>6 DEF Holding, Idle
<1>8. Latest(mid, t, n)
  <2>1. StateOf(mid, t).lastAccess = n
    BY <1>4 DEF StateOf
  <2>2. /\ IsFiniteSet(Present(mid)) /\ Cardinality(Present(mid)) <= MaxTenants
        /\ Cardinality(Present(mid)) \in Nat /\ MaxTenants \in Nat
    BY <1>6, RegistryAssumption, FS_CardinalityType DEF Bounded, Within
  <2>3. Cardinality(Present(mid)) <= MaxTenants + 1 /\ Cardinality(Present(mid)) # MaxTenants + 1
    BY <2>2
  <2> QED BY <1>6, <2>1, <2>2, <2>3 DEF Latest
<1> QED BY <1>1, <1>4, <1>6, <1>7, <1>8 DEF mid

\* A tenant that is looked up for the first time.
LEMMA TouchesFirst ==
  ASSUME NEW reg \in Registry, NEW n \in Nat, NEW t \in Tenant, NEW inUse \in SUBSET Object,
         Bounded(reg, n), t \notin Present(reg), Unused(reg, inUse) # {}
  PROVE  LET o == Found(reg, t, inUse)
             mid == Touching(reg, t, n, inUse)
         IN  /\ o \in Unused(reg, inUse) /\ o \in Object
             /\ mid \in Registry /\ mid.at = [reg.at EXCEPT ![t] = o]
             /\ Chained(mid) /\ Aged(mid, n)
             /\ \A x \in Object : x # o => mid.of[x] = reg.of[x]
             /\ mid.of[o].tools = {} /\ mid.of[o].servers = {}
             /\ Latest(mid, t, n)
             /\ Holding(mid) = Holding(reg)
<1> DEFINE o == Found(reg, t, inUse)
           mid == Touching(reg, t, n, inUse)
<1>1. o \in Unused(reg, inUse) /\ o \in Object
  BY DEF Found, Unused
<1>2. /\ mid.at = [reg.at EXCEPT ![t] = o] /\ mid.of = [reg.of EXCEPT ![o] = NewState(n)]
      /\ mid.before = reg.before \cup (Present(reg) \X {t})
      /\ mid = [at |-> mid.at, before |-> mid.before, of |-> mid.of]
  BY DEF Touching
<1> HIDE DEF mid, o
<1>3. mid \in Registry
  <2>1. mid.at \in [Tenant -> Object \cup {None}] /\ mid.of \in [Object -> TenantState]
    BY <1>1, <1>2, NewStates DEF Registry
  <2>2. mid.before \subseteq Tenant \X Tenant
    BY <1>2 DEF Registry, Present
  <2> QED BY <1>2, <2>1, <2>2 DEF Registry
<1>4. /\ \A x \in Object : x # o => mid.of[x] = reg.of[x]
      /\ mid.of[o].tools = {} /\ mid.of[o].servers = {} /\ mid.of[o].lastAccess = n
  BY <1>1, <1>2, NewStates DEF Registry
<1>5. Present(mid) = Present(reg) \cup {t} /\ mid.at[t] = o
  BY <1>1, <1>2, RegistryAssumption DEF Present, Registry
<1>6. \A u \in Present(reg) : u # t /\ u \in Tenant /\ StateOf(mid, u) = StateOf(reg, u)
  <2> SUFFICES ASSUME NEW u \in Present(reg)
               PROVE  u # t /\ u \in Tenant /\ StateOf(mid, u) = StateOf(reg, u)
    OBVIOUS
  <2>1. u # t /\ u \in Tenant /\ reg.at[u] \in Object
    BY PresentObjects
  <2>2. reg.at[u] # o /\ mid.at[u] = reg.at[u]
    BY <1>1, <1>2, <2>1 DEF Unused, Registry
  <2> QED BY <1>4, <2>1, <2>2 DEF StateOf
<1>7. Aged(mid, n)
  <2>1. StateOf(mid, t).lastAccess <= n
    BY <1>4, <1>5 DEF StateOf
  <2> QED BY <1>5, <1>6, <2>1 DEF Aged, Bounded
<1>8. Chained(mid)
  <2>1. reg.before \subseteq Present(reg) \X Present(reg)
    BY DEF Bounded, Chained
  <2>2. \A a, b : <<a, b>> \in mid.before <=> <<a, b>> \in reg.before \/ (a \in Present(reg) /\ b = t)
    BY <1>2
  <2>3. \A a, b : <<a, b>> \in reg.before => a \in Present(reg) /\ b \in Present(reg)
    BY <2>1
  <2>4. mid.before \subseteq Present(mid) \X Present(mid)
    BY <1>2, <1>5, <2>1
  <2>5. \A a \in Tenant : <<a, a>> \notin mid.before
    BY <2>2 DEF Bounded, Chained
  <2>6. ASSUME NEW a \in Tenant, NEW b \in Tenant, NEW c \in Tenant,
               <<a, b>> \in mid.before, <<b, c>> \in mid.before
        PROVE  <<a, c>> \in mid.before
    <3>1. b # t /\ <<a, b>> \in reg.before
      BY <2>2, <2>3, <2>6
    <3>2. <<b, c>> \in reg.before => <<a, c>> \in reg.before
      BY <3>1 DEF Bounded, Chained
    <3> QED BY <2>2, <2>3, <2>6, <3>1, <3>2
  <2> QED BY <2>4, <2>5, <2>6 DEF Chained
<1>9. Latest(mid, t, n)
  <2>1. StateOf(mid, t).lastAccess = n /\ StateOf(mid, t).servers = {}
    BY <1>4, <1>5 DEF StateOf
  <2>2. /\ IsFiniteSet(Present(reg)) /\ Cardinality(Present(reg)) <= MaxTenants
        /\ Cardinality(Present(reg)) \in Nat /\ MaxTenants \in Nat
    BY RegistryAssumption, FS_CardinalityType DEF Bounded, Within
  <2>3. IsFiniteSet(Present(mid)) /\ Cardinality(Present(mid)) = Cardinality(Present(reg)) + 1
    BY <1>5, <2>2, FS_AddElement
  <2>4. Cardinality(Present(mid)) <= MaxTenants + 1
    BY <2>2, <2>3
  <2>5. t \in Idle(mid)
    BY <1>5, <2>1 DEF Idle
  <2>6. \A u \in Present(mid) : u # t => <<u, t>> \in mid.before
    BY <1>2, <1>5
  <2> QED BY <1>5, <2>1, <2>3, <2>4, <2>5, <2>6 DEF Latest
<1>10. Holding(mid) = Holding(reg)
  <2>1. StateOf(mid, t).servers = {}
    BY <1>4, <1>5 DEF StateOf
  <2> QED BY <1>5, <1>6, <2>1 DEF Holding, Idle
<1> QED BY <1>1, <1>2, <1>3, <1>4, <1>7, <1>8, <1>9, <1>10 DEF mid, o

\* getState: the object o it returns is the tenant's own, and what it does to the
\* others is to drop some.
Got(reg, new, t, n, inUse, o) ==
  /\ o \in Object /\ new \in Registry /\ Bounded(new, n)
  /\ IF t \in Present(reg) THEN o = reg.at[t] ELSE o \in Unused(reg, inUse)
  /\ \A u \in Tenant : u # t => new.at[u] \in {reg.at[u], None}
  /\ new.at[t] \in {o, None}
  /\ \A x \in Object : x # o => new.of[x] = reg.of[x]
  /\ new.of[o].tools = IF t \in Present(reg) THEN reg.of[o].tools ELSE {}
  /\ new.of[o].servers = IF t \in Present(reg) THEN reg.of[o].servers ELSE {}
  /\ Holding(reg) \subseteq Present(new)
  /\ t \in Present(reg) => t \in Present(new)
  /\ t \notin Present(new) => Cardinality(Holding(reg)) >= MaxTenants

LEMMA Gets ==
  ASSUME NEW reg \in Registry, NEW n \in Nat, NEW t \in Tenant, NEW inUse \in SUBSET Object,
         Bounded(reg, n), CanGet(reg, t, inUse)
  PROVE  Got(reg, GetState(reg, t, n, inUse), t, n, inUse, Found(reg, t, inUse))
<1> DEFINE o == Found(reg, t, inUse)
           mid == Touching(reg, t, n, inUse)
           new == Prune(mid, n)
<1>1. GetState(reg, t, n, inUse) = new
  BY DEF GetState, Touching
<1>2. CASE t \in Present(reg)
  <2>1. /\ o = reg.at[t] /\ o \in Object
        /\ mid \in Registry /\ mid.at = reg.at /\ Bounded(mid, n)
        /\ \A x \in Object : x # o => mid.of[x] = reg.of[x]
        /\ mid.of[o].tools = reg.of[o].tools /\ mid.of[o].servers = reg.of[o].servers
        /\ Latest(mid, t, n) /\ Present(mid) = Present(reg) /\ Holding(mid) = Holding(reg)
    BY <1>2, TouchesAgain
  <2> HIDE DEF o, mid
  <2>2. /\ new \in Registry /\ new.of = mid.of /\ Bounded(new, n)
        /\ \A u \in Tenant : new.at[u] \in {mid.at[u], None}
        /\ Holding(mid) \subseteq Present(new)
        /\ t \notin Present(new) => Cardinality(Present(mid)) = MaxTenants + 1
    BY <2>1, Prunes DEF Bounded
  <2>3. t \in Present(new)
    <3>1. Cardinality(Present(mid)) <= MaxTenants /\ Cardinality(Present(mid)) \in Nat
      BY <2>1, FS_CardinalityType DEF Bounded, Within
    <3>2. MaxTenants \in Nat
      BY RegistryAssumption
    <3> QED BY <2>2, <3>1, <3>2
  <2> HIDE DEF new
  <2> QED BY <1>1, <1>2, <2>1, <2>2, <2>3 DEF Got, o
<1>3. CASE t \notin Present(reg)
  <2>1. /\ o \in Unused(reg, inUse) /\ o \in Object
        /\ mid \in Registry /\ mid.at = [reg.at EXCEPT ![t] = o]
        /\ Chained(mid) /\ Aged(mid, n)
        /\ \A x \in Object : x # o => mid.of[x] = reg.of[x]
        /\ mid.of[o].tools = {} /\ mid.of[o].servers = {}
        /\ Latest(mid, t, n) /\ Holding(mid) = Holding(reg)
    BY <1>3, TouchesFirst DEF CanGet
  <2> HIDE DEF o, mid
  <2>2. /\ new \in Registry /\ new.of = mid.of /\ Bounded(new, n)
        /\ \A u \in Tenant : new.at[u] \in {mid.at[u], None}
        /\ Holding(mid) \subseteq Present(new)
        /\ t \notin Present(new) => Cardinality(Holding(mid)) >= MaxTenants
    BY <2>1, Prunes
  <2>3. mid.at[t] = o /\ \A u \in Tenant : u # t => mid.at[u] = reg.at[u]
    BY <2>1 DEF Registry
  <2> HIDE DEF new
  <2> QED BY <1>1, <1>3, <2>1, <2>2, <2>3 DEF Got, o
<1> QED BY <1>2, <1>3

-----------------------------------------------------------------------------
(* What keeps tools and sessions with their tenant. *)

\* Dropping objects and sessions, and probes that end.
LEMMA BelongsStill ==
  ASSUME NEW reg \in Registry, NEW new \in Registry, NEW pr, NEW pr2, NEW hm, NEW tr,
         \A x \in Object, u \in Tenant : Owned(new, pr2, x, u) =>
           /\ Owned(reg, pr, x, u)
           /\ new.of[x].tools = reg.of[x].tools /\ new.of[x].servers \subseteq reg.of[x].servers,
         NEW o \in Object, NEW t \in Tenant, Belongs(reg, pr, hm, tr, o, t),
         new.of[o].tools = reg.of[o].tools, new.of[o].servers \subseteq reg.of[o].servers
  PROVE  Belongs(new, pr2, hm, tr, o, t)
<1>1. \A s \in new.of[o].servers : s \in reg.of[o].servers
  OBVIOUS
<1>2. \A x \in Object, u \in Tenant : \A s \in new.of[x].servers :
         Owned(new, pr2, x, u) => Owned(reg, pr, x, u) /\ s \in reg.of[x].servers
  OBVIOUS
<1> QED BY <1>1, <1>2 DEF Belongs

LEMMA KeptStill ==
  ASSUME NEW reg \in Registry, NEW new \in Registry, NEW pr, NEW pr2, NEW hm, NEW tr, NEW ls,
         Kept(reg, pr, hm, tr, ls),
         \A x \in Object, u \in Tenant : Owned(new, pr2, x, u) =>
           /\ Owned(reg, pr, x, u)
           /\ new.of[x].tools = reg.of[x].tools /\ new.of[x].servers \subseteq reg.of[x].servers,
         \A t \in Present(new) : new.at[t] = reg.at[t],
         \A o \in Busy(pr2) : pr2[o].tenant \in Tenant
  PROVE  Kept(new, pr2, hm, tr, ls)
<1>1. ASSUME NEW o \in Object, NEW t \in Tenant, Owned(new, pr2, o, t)
      PROVE  Belongs(new, pr2, hm, tr, o, t)
  <2>1. /\ Belongs(reg, pr, hm, tr, o, t)
        /\ new.of[o].tools = reg.of[o].tools /\ new.of[o].servers \subseteq reg.of[o].servers
    BY <1>1 DEF Kept
  <2> QED BY <2>1, BelongsStill
<1>2. ASSUME NEW t \in Present(new), NEW s \in StateOf(new, t).servers
      PROVE  ls[s] = StateOf(new, t).tools
  <2>1. t \in Tenant /\ new.at[t] \in Object /\ new.at[t] = reg.at[t]
    BY PresentObjects
  <2>2. t \in Present(reg) /\ Owned(new, pr2, new.at[t], t)
    BY <2>1, PresentObjects DEF Owned
  <2>3. /\ StateOf(new, t).tools = StateOf(reg, t).tools
        /\ StateOf(new, t).servers \subseteq StateOf(reg, t).servers
    BY <2>1, <2>2 DEF StateOf
  <2> QED BY <1>2, <2>2, <2>3 DEF Kept, InStep
<1> QED BY <1>1, <1>2 DEF Kept, InStep

\* Another verdict, another time, the end of a probe.
LEMMA KeptByChange ==
  ASSUME NEW reg \in Registry, NEW new \in Registry, NEW pr, NEW pr2, NEW hm, NEW tr, NEW ls,
         NEW o \in Object, NEW st \in TenantState,
         Kept(reg, pr, hm, tr, ls), Changes(reg, new, o, st),
         st.tools = reg.of[o].tools, st.servers = reg.of[o].servers,
         \A x \in Busy(pr2) : x \in Busy(pr) /\ pr2[x].tenant = pr[x].tenant
  PROVE  Kept(new, pr2, hm, tr, ls)
<1>1. \A x \in Object : new.of[x].tools = reg.of[x].tools /\ new.of[x].servers = reg.of[x].servers
  BY DEF Changes
<1>2. new.at = reg.at
  BY DEF Changes
<1>3. \A x \in Object, u \in Tenant : Owned(new, pr2, x, u) => Owned(reg, pr, x, u)
  BY <1>2 DEF Owned
<1>4. \A x \in Busy(pr2) : pr2[x].tenant \in Tenant
  BY DEF Kept
<1> QED BY <1>1, <1>2, <1>3, <1>4, KeptStill

LEMMA KeptByCollecting ==
  ASSUME NEW reg \in Registry, NEW pr, NEW hm, NEW tr, NEW ls, Kept(reg, pr, hm, tr, ls)
  PROVE  Kept(Collected(reg, Busy(pr)), pr, hm, tr, ls)
<1> DEFINE new == Collected(reg, Busy(pr))
<1>1. Busy(pr) \in SUBSET Object
  BY DEF Busy
<1>2. /\ new \in Registry /\ new.at = reg.at
      /\ \A t \in Present(reg) : StateOf(new, t) = StateOf(reg, t)
      /\ \A o \in Busy(pr) : new.of[o] = reg.of[o]
  BY <1>1, Collects
<1> HIDE DEF new
<1>3. ASSUME NEW x \in Object, NEW u \in Tenant, Owned(new, pr, x, u)
      PROVE  Owned(reg, pr, x, u) /\ new.of[x] = reg.of[x]
  <2>1. Owned(reg, pr, x, u)
    BY <1>2, <1>3 DEF Owned
  <2>2. CASE reg.at[u] = x
    BY <1>2, <2>1, <2>2, PresentObjects DEF StateOf
  <2>3. CASE x \in Busy(pr)
    BY <1>2, <2>1, <2>3
  <2> QED BY <2>1, <2>2, <2>3 DEF Owned
<1>4. \A x \in Object, u \in Tenant : Owned(new, pr, x, u) =>
        /\ Owned(reg, pr, x, u)
        /\ new.of[x].tools = reg.of[x].tools /\ new.of[x].servers \subseteq reg.of[x].servers
  BY <1>3
<1>5. \A t \in Present(new) : new.at[t] = reg.at[t]
  BY <1>2
<1>6. \A o \in Busy(pr) : pr[o].tenant \in Tenant
  BY DEF Kept
<1>7. Kept(new, pr, hm, tr, ls)
  BY <1>2, <1>4, <1>5, <1>6, KeptStill
<1> QED BY <1>7 DEF new

\* A lookup: the object it returns is the tenant's, dropped or not.
LEMMA KeptByGet ==
  ASSUME NEW reg \in Registry, NEW new \in Registry, NEW pr, NEW hm, NEW tr, NEW ls,
         NEW n \in Nat, NEW t \in Tenant, NEW o \in Object,
         Kept(reg, pr, hm, tr, ls), Got(reg, new, t, n, Busy(pr), o)
  PROVE  Kept(new, pr, hm, tr, ls) /\ Belongs(new, pr, hm, tr, o, t)
<1>b. Busy(pr) \subseteq Object /\ None \notin Object
  BY RegistryAssumption DEF Busy
<1>1. CASE t \in Present(reg)
  <2>1. o = reg.at[t] /\ \A u \in Tenant : new.at[u] \in {reg.at[u], None}
    BY <1>1 DEF Got
  <2>2. \A x \in Object : /\ new.of[x].tools = reg.of[x].tools
                          /\ new.of[x].servers = reg.of[x].servers
    BY <1>1 DEF Got
  <2>3. \A x \in Object, u \in Tenant : Owned(new, pr, x, u) => Owned(reg, pr, x, u)
    BY <1>b, <2>1 DEF Owned
  <2>4. \A u \in Present(new) : new.at[u] = reg.at[u]
    BY <2>1 DEF Present
  <2>5. Kept(new, pr, hm, tr, ls)
    BY <2>2, <2>3, <2>4, KeptStill DEF Kept
  <2>6. Belongs(reg, pr, hm, tr, o, t)
    BY <2>1 DEF Kept, Owned
  <2>7. Belongs(new, pr, hm, tr, o, t)
    BY <2>2, <2>3, <2>6, BelongsStill
  <2> QED BY <2>5, <2>7
<1>2. CASE t \notin Present(reg)
  <2>1. o \in Unused(reg, Busy(pr)) /\ new.of[o].tools = {} /\ new.of[o].servers = {}
    BY <1>2 DEF Got
  <2>2. /\ \A x \in Object : x # o => new.of[x] = reg.of[x]
        /\ \A u \in Tenant : u # t => new.at[u] \in {reg.at[u], None}
        /\ new.at[t] \in {o, None}
    BY DEF Got
  <2>3. \A u \in Tenant : ~Owned(reg, pr, o, u)
    <3>1. o \notin Busy(pr) /\ \A u \in Present(reg) : reg.at[u] # o
      BY <2>1 DEF Unused
    <3> QED BY <3>1, PresentObjects DEF Owned
  <2>4. \A x \in Object, u \in Tenant : Owned(new, pr, x, u) =>
          (x # o /\ Owned(reg, pr, x, u)) \/ (x = o /\ u = t)
    BY <1>b, <2>2, <2>3 DEF Owned
  <2>5. Belongs(new, pr, hm, tr, o, t)
    BY <2>1, <2>4 DEF Belongs
  <2>6. ASSUME NEW x \in Object, NEW u \in Tenant, Owned(new, pr, x, u)
        PROVE  Belongs(new, pr, hm, tr, x, u)
    <3>1. CASE x = o /\ u = t
      BY <2>5, <3>1
    <3>2. CASE x # o /\ Owned(reg, pr, x, u)
      <4>1. Belongs(reg, pr, hm, tr, x, u) /\ new.of[x] = reg.of[x]
        BY <2>2, <3>2 DEF Kept
      <4>2. \A v \in Tenant : Owned(new, pr, x, v) => v = u
        BY <2>4, <3>2, <4>1 DEF Belongs
      <4>3. ASSUME NEW s \in new.of[x].servers, NEW y \in Object, NEW v \in Tenant,
                   Owned(new, pr, y, v), s \in new.of[y].servers
            PROVE  y = x
        <5>1. y # o /\ Owned(reg, pr, y, v) /\ new.of[y] = reg.of[y]
          BY <2>1, <2>2, <2>4, <4>3
        <5> QED BY <4>1, <4>3, <5>1 DEF Belongs
      <4> QED BY <4>1, <4>2, <4>3 DEF Belongs
    <3> QED BY <2>4, <2>6, <3>1, <3>2
  <2>7. ASSUME NEW u \in Present(new), NEW s \in StateOf(new, u).servers
        PROVE  ls[s] = StateOf(new, u).tools
    <3>1. u \in Tenant /\ new.at[u] # None
      BY DEF Present
    <3>2. u # t
      BY <2>1, <2>2, <2>7, <3>1 DEF StateOf
    <3>3. new.at[u] = reg.at[u] /\ u \in Present(reg)
      BY <2>2, <3>1, <3>2 DEF Present
    <3>4. reg.at[u] \in Object /\ reg.at[u] # o
      BY <2>3, <3>3, PresentObjects DEF Owned
    <3>5. StateOf(new, u) = StateOf(reg, u)
      BY <2>2, <3>3, <3>4 DEF StateOf
    <3> QED BY <2>7, <3>3, <3>5 DEF Kept, InStep
  <2> QED BY <2>5, <2>6, <2>7 DEF Kept, InStep
<1> QED BY <1>1, <1>2

\* A probe starts on an object of its tenant.
LEMMA KeptByProbe ==
  ASSUME NEW reg \in Registry, NEW pr, NEW pr2, NEW hm, NEW tr, NEW ls,
         NEW o \in Object, NEW t \in Tenant,
         Kept(reg, pr, hm, tr, ls), Belongs(reg, pr, hm, tr, o, t),
         pr2[o].tenant = t, \A x \in Object : x # o => pr2[x] = pr[x]
  PROVE  Kept(reg, pr2, hm, tr, ls)
<1>1. \A x \in Object, u \in Tenant : Owned(reg, pr2, x, u) => Owned(reg, pr, x, u) \/ (x = o /\ u = t)
  BY DEF Owned, Busy
<1>2. Belongs(reg, pr2, hm, tr, o, t)
  BY <1>1 DEF Belongs
<1>3. ASSUME NEW x \in Object, NEW u \in Tenant, Owned(reg, pr2, x, u)
      PROVE  Belongs(reg, pr2, hm, tr, x, u)
  <2>1. CASE x = o
    <3>1. u = t
      BY <1>2, <1>3, <2>1 DEF Belongs
    <3> QED BY <1>2, <2>1, <3>1
  <2>2. CASE x # o
    <3>1. Owned(reg, pr, x, u) /\ Belongs(reg, pr, hm, tr, x, u)
      BY <1>1, <1>3, <2>2 DEF Kept
    <3>2. \A v \in Tenant : Owned(reg, pr2, x, v) => v = u
      BY <1>1, <2>2, <3>1 DEF Belongs
    <3>3. ASSUME NEW s \in reg.of[x].servers, NEW y \in Object, NEW v \in Tenant,
                 Owned(reg, pr2, y, v), s \in reg.of[y].servers
          PROVE  y = x
      <4>1. CASE y = o
        BY <2>2, <3>1, <3>3, <4>1 DEF Belongs
      <4>2. CASE y # o
        BY <1>1, <3>1, <3>3, <4>2 DEF Belongs
      <4> QED BY <4>1, <4>2
    <3> QED BY <3>1, <3>2, <3>3 DEF Belongs
  <2> QED BY <2>1, <2>2
<1>4. \A x \in Busy(pr2) : pr2[x].tenant \in Tenant
  BY DEF Kept, Busy
<1> QED BY <1>3, <1>4 DEF Kept

\* A session of the tenant t opens, which lists the tools given.
Opens(hm, tr, ls, hm2, tr2, ls2, s, t, tools) ==
  /\ tr[s] = "none" /\ hm2[s] = t /\ tr2[s] = "open" /\ ls2[s] = tools
  /\ \A x \in Server : x # s => hm2[x] = hm[x] /\ tr2[x] = tr[x] /\ ls2[x] = ls[x]

\* A new session is tracked.
LEMMA KeptByTrack ==
  ASSUME NEW reg \in Registry, NEW pr, NEW hm, NEW tr, NEW ls, NEW hm2, NEW tr2, NEW ls2,
         NEW o \in Object, NEW t \in Tenant, NEW s \in Server,
         Kept(reg, pr, hm, tr, ls), Belongs(reg, pr, hm, tr, o, t),
         Opens(hm, tr, ls, hm2, tr2, ls2, s, t, reg.of[o].tools)
  PROVE  Kept(Track(reg, o, s), pr, hm2, tr2, ls2)
<1> DEFINE new == Track(reg, o, s)
<1>0. /\ \A x \in Object : reg.of[x].servers \subseteq Server
      /\ tr[s] = "none" /\ hm2[s] = t /\ tr2[s] = "open" /\ ls2[s] = reg.of[o].tools
      /\ \A x \in Server : x # s => hm2[x] = hm[x] /\ tr2[x] = tr[x] /\ ls2[x] = ls[x]
  BY DEF Registry, TenantState, Opens
<1>1. /\ new \in Registry /\ new.at = reg.at
      /\ new.of[o].servers = reg.of[o].servers \cup {s} /\ new.of[o].tools = reg.of[o].tools
      /\ \A x \in Object : x # o => new.of[x] = reg.of[x]
  <2>1. Changes(reg, new, o, [reg.of[o] EXCEPT !.servers = reg.of[o].servers \cup {s}])
    BY Tracked
  <2>2. reg.of[o] \in TenantState /\ reg.of[o].servers \cup {s} \in SUBSET Server
    BY <1>0 DEF Registry
  <2> QED BY <2>1, <2>2, TrackingStates DEF Changes
<1> HIDE DEF new
<1>2. /\ Present(new) = Present(reg)
      /\ \A x \in Object, u \in Tenant : Owned(new, pr, x, u) <=> Owned(reg, pr, x, u)
  BY <1>1 DEF Present, Owned
<1>3. s \notin reg.of[o].servers /\ \A u \in Tenant : Owned(reg, pr, o, u) => u = t
  BY <1>0 DEF Belongs
<1>4. \A x \in Object, u \in Tenant : Owned(reg, pr, x, u) => s \notin reg.of[x].servers
  BY <1>0 DEF Kept, Belongs
<1>5. ASSUME NEW x \in Object, NEW u \in Tenant, Owned(new, pr, x, u)
      PROVE  Belongs(new, pr, hm2, tr2, x, u)
  <2>1. Belongs(reg, pr, hm, tr, x, u) /\ Owned(reg, pr, x, u)
    BY <1>2, <1>5 DEF Kept
  <2>2. \A tool \in new.of[x].tools : tool.tenant = u
    BY <1>1, <2>1 DEF Belongs
  <2>3. \A y \in new.of[x].servers : hm2[y] = u /\ tr2[y] # "none"
    <3>1. \A y \in reg.of[x].servers : hm2[y] = u /\ tr2[y] # "none"
      BY <1>0, <1>4, <2>1 DEF Belongs
    <3>2. x = o => u = t
      BY <1>3, <2>1
    <3> QED BY <1>0, <1>1, <3>1, <3>2
  <2>4. ASSUME NEW y \in new.of[x].servers, NEW z \in Object, NEW v \in Tenant,
               Owned(new, pr, z, v), y \in new.of[z].servers
        PROVE  z = x
    <3>1. Owned(reg, pr, z, v)
      BY <1>2, <2>4
    <3>2. CASE y = s
      BY <1>1, <1>4, <2>1, <2>4, <3>1, <3>2
    <3>3. CASE y # s
      <4>1. y \in reg.of[x].servers /\ y \in reg.of[z].servers
        BY <1>1, <2>4, <3>3
      <4> QED BY <2>1, <3>1, <4>1 DEF Belongs
    <3> QED BY <3>2, <3>3
  <2> QED BY <1>2, <2>1, <2>2, <2>3, <2>4 DEF Belongs
<1>6. ASSUME NEW u \in Present(new), NEW y \in StateOf(new, u).servers
      PROVE  ls2[y] = StateOf(new, u).tools
  <2>1. u \in Tenant /\ u \in Present(reg) /\ reg.at[u] \in Object
    BY <1>2, PresentObjects
  <2>2. Owned(reg, pr, reg.at[u], u)
    BY DEF Owned
  <2>3. StateOf(new, u).tools = StateOf(reg, u).tools
    BY <1>1, <2>1 DEF StateOf
  <2>4. CASE y = s
    BY <1>0, <1>1, <1>4, <1>6, <2>1, <2>2, <2>4 DEF StateOf
  <2>5. CASE y # s
    <3>1. y \in StateOf(reg, u).servers /\ y \in Server
      BY <1>0, <1>1, <1>6, <2>1, <2>5 DEF StateOf
    <3> QED BY <1>0, <2>1, <2>3, <2>5, <3>1 DEF Kept, InStep
  <2> QED BY <2>4, <2>5
<1>7. Kept(new, pr, hm2, tr2, ls2)
  BY <1>5, <1>6 DEF Kept, InStep
<1> QED BY <1>7 DEF new

\* A tool is pushed to the sessions an object tracks.
Pushes(reg, o, tool, ls, ls2) ==
  \A s \in Server : ls2[s] = IF s \in reg.of[o].servers THEN ls[s] \cup {tool} ELSE ls[s]

\* A probe finds a tool: it is kept, and pushed.
LEMMA KeptByPush ==
  ASSUME NEW reg \in Registry, NEW new \in Registry, NEW pr, NEW hm, NEW tr, NEW ls, NEW ls2,
         NEW o \in Busy(pr), NEW tool, NEW st \in TenantState,
         Kept(reg, pr, hm, tr, ls), Changes(reg, new, o, st), tool.tenant = pr[o].tenant,
         st.tools = reg.of[o].tools \cup {tool}, st.servers = reg.of[o].servers,
         Pushes(reg, o, tool, ls, ls2)
  PROVE  Kept(new, pr, hm, tr, ls2)
<1> DEFINE t == pr[o].tenant
<1>0. \A x \in Object : reg.of[x].servers \subseteq Server
  BY DEF Registry, TenantState
<1>1. /\ o \in Object /\ t \in Tenant /\ Owned(reg, pr, o, t) /\ new.at = reg.at
      /\ new.of[o].tools = reg.of[o].tools \cup {tool}
      /\ \A x \in Object : new.of[x].servers = reg.of[x].servers
      /\ \A x \in Object : x # o => new.of[x].tools = reg.of[x].tools
  BY DEF Busy, Kept, Changes, Owned
<1>2. /\ Present(new) = Present(reg)
      /\ \A x \in Object, u \in Tenant : Owned(new, pr, x, u) <=> Owned(reg, pr, x, u)
  BY <1>1 DEF Present, Owned
<1>3. Belongs(reg, pr, hm, tr, o, t)
  BY <1>1 DEF Kept
<1>4. ASSUME NEW x \in Object, NEW u \in Tenant, Owned(new, pr, x, u)
      PROVE  Belongs(new, pr, hm, tr, x, u)
  <2>1. Owned(reg, pr, x, u) /\ Belongs(reg, pr, hm, tr, x, u)
    BY <1>2, <1>4 DEF Kept
  <2>2. x = o => u = t
    BY <2>1, <1>3 DEF Belongs
  <2>3. \A y \in new.of[x].tools : y.tenant = u
    BY <1>1, <2>1, <2>2 DEF Belongs
  <2> QED BY <1>1, <1>2, <2>1, <2>3 DEF Belongs
<1>5. ASSUME NEW u \in Present(new), NEW s \in StateOf(new, u).servers
      PROVE  ls2[s] = StateOf(new, u).tools
  <2>1. u \in Tenant /\ u \in Present(reg) /\ reg.at[u] \in Object
    BY <1>2, PresentObjects
  <2>2. s \in StateOf(reg, u).servers /\ s \in Server /\ ls[s] = StateOf(reg, u).tools
    <3>1. s \in StateOf(reg, u).servers
      BY <1>1, <1>5, <2>1 DEF StateOf
    <3>2. s \in Server
      BY <1>0, <2>1, <3>1 DEF StateOf
    <3> QED BY <2>1, <3>1, <3>2 DEF Kept, InStep
  <2>3. s \in reg.of[o].servers => reg.at[u] = o
    <3>1. Owned(reg, pr, reg.at[u], u) /\ s \in reg.of[reg.at[u]].servers
      BY <2>2 DEF StateOf, Owned
    <3> QED BY <1>3, <2>1, <3>1 DEF Belongs
  <2>4. CASE reg.at[u] = o
    BY <1>1, <2>2, <2>4 DEF StateOf, Pushes
  <2>5. CASE reg.at[u] # o
    BY <1>1, <2>1, <2>2, <2>3, <2>5 DEF StateOf, Pushes
  <2> QED BY <2>4, <2>5
<1> QED BY <1>4, <1>5 DEF Kept, InStep

-----------------------------------------------------------------------------
(* Probes. *)

LEMMA Smallest ==
  ASSUME NEW S \in SUBSET Nat, S # {}
  PROVE  \E i \in S : \A j \in S : i <= j
<1>1. PICK i \in S : \A j \in S : <<j, i>> \notin OpToRel(<, Nat)
  BY NatLessThanWellFounded, WFMin
<1>2. \A j \in S : ~(j < i)
  BY <1>1 DEF OpToRel
<1>3. \A j \in S : i <= j
  BY <1>2
<1> QED BY <1>3

LEMMA NextTyped ==
  ASSUME NEW st, NEW from \in Nat \ {0}, NEW since
  PROVE  NextPreparer(st, from, since) \in 0..Len(Order)
<1> DEFINE open == {i \in from..Len(Order) : /\ st.caps[Order[i]] = "unknown"
                                              /\ since >= st.cooldown[Order[i]]}
<1>1. Len(Order) \in Nat
  BY SessionsAssumption
<1>2. NextPreparer(st, from, since)
        = IF open = {} THEN 0 ELSE CHOOSE i \in open : \A j \in open : i <= j
  BY DEF NextPreparer
<1>3. open \in SUBSET Nat /\ open \subseteq 0..Len(Order)
  BY <1>1
<1> HIDE DEF open
<1>4. CASE open = {}
  BY <1>1, <1>2, <1>4
<1>5. CASE open # {}
  <2>1. \E i \in open : \A j \in open : i <= j
    BY <1>3, <1>5, Smallest
  <2>2. NextPreparer(st, from, since) \in open
    BY <1>2, <1>5, <2>1
  <2> QED BY <1>3, <2>2
<1> QED BY <1>4, <1>5

LEMMA ProbeTypes ==
  ASSUME NEW i \in 0..Len(Order), NEW since \in Nat, NEW t \in Tenant
  PROVE  /\ Asking(i, since, t) \in Probe /\ Asking(i, since, t).tenant = t
         /\ Asking(i, since, t).at = i
         /\ NoProbe \in Probe /\ NoProbe.at = 0
<1>1. 0 \in 0..Len(Order)
  BY SessionsAssumption
<1> QED BY <1>1 DEF Asking, NoProbe, Probe

\* ensureCapabilitiesProbed starts a probe of the tenant, or none.
LEMMA Ensures ==
  ASSUME NEW reg \in Registry, NEW o \in Object, NEW t \in Tenant, NEW hm, NEW tr, NEW ls,
         Ensure(reg, o, t), now \in Nat, probe \in [Object -> Probe],
         Bounded(reg, now), Kept(reg, probe, hm, tr, ls), Belongs(reg, probe, hm, tr, o, t)
  PROVE  /\ registry' \in Registry /\ probe' \in [Object -> Probe]
         /\ Bounded(registry', now) /\ Kept(registry', probe', hm, tr, ls)
         /\ registry'.at = reg.at
         /\ \A u \in Present(reg) : StateOf(registry', u).servers = StateOf(reg, u).servers
<1> DEFINE st == reg.of[o]
           first == NextPreparer(st, 1, now)
           idle == st.complete \/ o \in Probing
           done == IF idle \/ first # 0 THEN reg ELSE [reg EXCEPT !.of[o].complete = AllVerdicts(st)]
<1>1. first \in 0..Len(Order)
  BY NextTyped
<1>2. /\ probe' = IF idle \/ first = 0 THEN probe ELSE [probe EXCEPT ![o] = Asking(first, now, t)]
      /\ registry' = Collected(done, Busy(probe'))
  BY DEF Ensure, Busy
<1>3. AllVerdicts(st) \in BOOLEAN /\ st \in TenantState
  BY DEF AllVerdicts, Registry
<1> HIDE DEF first, idle
<1>4. probe' \in [Object -> Probe] /\ Kept(reg, probe', hm, tr, ls)
  <2>1. CASE probe' = probe
    BY <2>1
  <2>2. CASE probe' = [probe EXCEPT ![o] = Asking(first, now, t)]
    <3>1. probe' \in [Object -> Probe] /\ probe'[o].tenant = t
      BY <1>1, <2>2, ProbeTypes
    <3>2. \A x \in Object : x # o => probe'[x] = probe[x]
      BY <2>2
    <3> QED BY <3>1, <3>2, KeptByProbe
  <2> QED BY <1>2, <2>1, <2>2
<1>5. /\ done \in Registry /\ done.at = reg.at /\ Bounded(done, now)
      /\ Kept(done, probe', hm, tr, ls)
      /\ \A u \in Present(reg) : StateOf(done, u).servers = StateOf(reg, u).servers
  <2>1. CASE done = reg
    BY <1>4, <2>1
  <2>2. CASE done = [reg EXCEPT !.of[o].complete = AllVerdicts(st)]
    <3> DEFINE new == [st EXCEPT !.complete = AllVerdicts(st)]
    <3>1. Changes(reg, done, o, new)
      BY <1>3, <2>2, Completed
    <3>2. /\ new \in TenantState /\ new.tools = st.tools /\ new.servers = st.servers
          /\ new.lastAccess = st.lastAccess
      BY <1>3, CompleteStates
    <3> HIDE DEF new, done
    <3>3. Kept(done, probe', hm, tr, ls) /\ done \in Registry /\ done.at = reg.at
      BY <1>4, <3>1, <3>2, KeptByChange DEF Changes
    <3>4. ASSUME NEW u \in Present(reg)
          PROVE  /\ StateOf(done, u).servers = StateOf(reg, u).servers
                 /\ StateOf(done, u).lastAccess = StateOf(reg, u).lastAccess
      <4>1. reg.at[u] \in Object
        BY PresentObjects
      <4> QED BY <3>1, <3>2, <4>1 DEF Changes, StateOf
    <3>5. Bounded(done, now)
      <4>1. done.before = reg.before
        BY <3>1 DEF Changes
      <4> QED BY <3>3, <3>4, <4>1, StaysBounded DEF Bounded, Aged
    <3> QED BY <3>3, <3>4, <3>5
  <2> QED BY <2>1, <2>2
<1> HIDE DEF done
<1>6. /\ registry' \in Registry /\ registry'.at = done.at /\ Bounded(registry', now)
      /\ \A u \in Present(done) : StateOf(registry', u) = StateOf(done, u)
  <2>1. Busy(probe') \in SUBSET Object
    BY DEF Busy
  <2> QED BY <1>2, <1>5, <2>1, Collects
<1>7. Kept(registry', probe', hm, tr, ls)
  BY <1>2, <1>5, KeptByCollecting
<1>8. Present(done) = Present(reg)
  BY <1>5 DEF Present
<1> QED BY <1>4, <1>5, <1>6, <1>7, <1>8

\* A probe moves on, or ends.
LEMMA Advances ==
  ASSUME NEW o \in Probing, NEW st \in TenantState, NEW ls,
         Advance(o, st), now \in Nat, registry \in Registry, probe \in [Object -> Probe],
         Bounded(registry, now), \A x \in Probing : probe[x].tenant \in Tenant,
         st.lastAccess = registry.of[o].lastAccess,
         \A new \in Registry : \A done \in TenantState :
           (Changes(registry, new, o, done) /\ done.tools = st.tools /\ done.servers = st.servers)
             => Kept(new, probe, home, transport, ls)
  PROVE  /\ registry' \in Registry /\ probe' \in [Object -> Probe]
         /\ Bounded(registry', now) /\ Kept(registry', probe', home, transport, ls)
<1> DEFINE next == NextPreparer(st, probe[o].at + 1, probe[o].since)
           verdicts == next = 0 /\ AllVerdicts(st)
           done == [st EXCEPT !.complete = verdicts]
           mid == [registry EXCEPT !.of[o] = done]
<1>1. /\ o \in Object /\ probe[o] \in Probe /\ probe[o].tenant \in Tenant
      /\ probe[o].at \in 0..Len(Order) /\ probe[o].since \in Nat
  BY DEF Probing, Probe
<1>2. next \in 0..Len(Order)
  <2>1. probe[o].at + 1 \in Nat \ {0}
    BY <1>1, SessionsAssumption
  <2> QED BY <2>1, NextTyped
<1>3. /\ probe' = [probe EXCEPT ![o] = IF next = 0 THEN NoProbe
                                       ELSE Asking(next, probe[o].since, probe[o].tenant)]
      /\ registry' = Collected(mid, Busy(probe'))
  BY DEF Advance, Busy
<1>4. verdicts \in BOOLEAN
  BY DEF AllVerdicts
<1> HIDE DEF next, verdicts
<1>5. probe' \in [Object -> Probe]
  <2>1. NoProbe \in Probe /\ Asking(next, probe[o].since, probe[o].tenant) \in Probe
    BY <1>1, <1>2, ProbeTypes
  <2> QED BY <1>3, <2>1
<1>6. \A x \in Busy(probe') : x \in Busy(probe) /\ probe'[x].tenant = probe[x].tenant
  <2> SUFFICES ASSUME NEW x \in Busy(probe')
               PROVE  x \in Busy(probe) /\ probe'[x].tenant = probe[x].tenant
    OBVIOUS
  <2>0. x \in Object /\ probe'[x].at # 0 /\ o \in Busy(probe)
    BY DEF Busy, Probing
  <2>1. CASE x = o
    <3>1. NoProbe.at = 0 /\ Asking(next, probe[o].since, probe[o].tenant).tenant = probe[o].tenant
      BY <1>1, <1>2, ProbeTypes
    <3>2. \/ probe'[x] = NoProbe
          \/ probe'[x] = Asking(next, probe[o].since, probe[o].tenant)
      BY <1>3, <2>0, <2>1
    <3> QED BY <2>0, <2>1, <3>1, <3>2
  <2>2. CASE x # o
    BY <1>3, <2>0, <2>2 DEF Busy
  <2> QED BY <2>1, <2>2
<1>7. /\ done \in TenantState /\ done.tools = st.tools /\ done.servers = st.servers
      /\ done.lastAccess = st.lastAccess
  BY <1>4, CompleteStates
<1> HIDE DEF done
<1>8. Changes(registry, mid, o, done) /\ mid \in Registry
  BY <1>1, <1>7, Replaced DEF Changes
<1> HIDE DEF mid
<1>9. Kept(mid, probe, home, transport, ls)
  BY <1>7, <1>8
<1>10. Bounded(mid, now)
  <2>1. \A u \in Present(registry) : StateOf(mid, u).lastAccess = StateOf(registry, u).lastAccess
    <3> SUFFICES ASSUME NEW u \in Present(registry)
                 PROVE  StateOf(mid, u).lastAccess = StateOf(registry, u).lastAccess
      OBVIOUS
    <3>1. registry.at[u] \in Object
      BY PresentObjects
    <3> QED BY <1>7, <1>8, <3>1 DEF Changes, StateOf
  <2>2. mid.at = registry.at /\ mid.before = registry.before
    BY <1>8 DEF Changes
  <2> QED BY <1>8, <2>1, <2>2, StaysBounded DEF Bounded, Aged
<1>11. Kept(mid, probe', home, transport, ls)
  <2>1. \A x \in Object, u \in Tenant : Owned(mid, probe', x, u) => Owned(mid, probe, x, u)
    BY <1>6 DEF Owned
  <2>2. \A x \in Busy(probe') : probe'[x].tenant \in Tenant
    BY <1>6, <1>9 DEF Kept
  <2> QED BY <1>8, <1>9, <2>1, <2>2, KeptStill
<1>12. registry' \in Registry /\ Bounded(registry', now)
  <2>1. Busy(probe') \in SUBSET Object
    BY DEF Busy
  <2> QED BY <1>3, <1>8, <1>10, <2>1, Collects
<1>13. Kept(registry', probe', home, transport, ls)
  BY <1>3, <1>8, <1>11, KeptByCollecting
<1> QED BY <1>5, <1>12, <1>13

-----------------------------------------------------------------------------
(* The steps. *)

\* A transport opens or closes.
LEMMA KeptByTransport ==
  ASSUME NEW reg \in Registry, NEW pr, NEW hm, NEW tr, NEW tr2, NEW ls, Kept(reg, pr, hm, tr, ls),
         \A s \in Server : tr[s] # "none" => tr2[s] # "none"
  PROVE  Kept(reg, pr, hm, tr2, ls)
<1>1. \A x \in Object : reg.of[x].servers \subseteq Server
  BY DEF Registry, TenantState
<1>2. \A o \in Object, t \in Tenant : Belongs(reg, pr, hm, tr, o, t) => Belongs(reg, pr, hm, tr2, o, t)
  BY <1>1 DEF Belongs
<1> QED BY <1>2 DEF Kept

Step == {"transport.close", "onclose", "release", "deleteSession", "deleted"}
Chain == Seq(Step \X Server)

LEMMA Links ==
  ASSUME NEW s \in Server
  PROVE  /\ <<>> \in Chain
         /\ <<<<"onclose", s>>>> \in Chain /\ <<<<"release", s>>>> \in Chain
         /\ <<<<"deleteSession", s>>>> \in Chain /\ <<<<"transport.close", s>>>> \in Chain
         /\ <<<<"deleted", s>>>> \in Chain
<1>1. \A f \in Step : <<f, s>> \in Step \X Server
  OBVIOUS
<1>2. \A f \in Step : <<<<f, s>>>> \in Chain
  BY <1>1 DEF Chain
<1>3. <<>> \in Chain
  BY DEF Chain
<1>4. {"transport.close", "onclose", "release", "deleteSession", "deleted"} = Step
  BY DEF Step
<1> QED BY <1>2, <1>3, <1>4

LEMMA Returns ==
  ASSUME calls \in Chain, calls # <<>>, NEW made \in Chain, Return(made)
  PROVE  calls' \in Chain
<1>1. Tail(calls) \in Chain
  BY DEF Chain
<1> QED BY <1>1 DEF Return, Chain

\* An order of finitely many sessions, as the calls that close them.
LEMMA Orders ==
  ASSUME NEW S \in SUBSET Server, IsFiniteSet(S), NEW q \in Ordered(S)
  PROVE  /\ DOMAIN q = 1..Cardinality(S) /\ Cardinality(S) \in Nat /\ Len(q) = Cardinality(S)
         /\ \A i \in 1..Cardinality(S) : q[i] \in Server
         /\ q \in Seq(Server)
<1>1. Cardinality(S) \in Nat /\ q \in [1..Cardinality(S) -> S]
  BY FS_CardinalityType DEF Ordered
<1> QED BY <1>1

Rest == <<now, registry, probe, home, listed>>

\* What only the transports and the books of the sessions change in.
LEMMA SessionStep ==
  ASSUME IInv, UNCHANGED Rest,
         transport' \in [Server -> {"none", "open", "closed"}],
         \A s \in Server : transport[s] # "none" => transport'[s] # "none",
         IsFiniteSet(Begun'), sessions' \subseteq Begun', deleting' \subseteq Server,
         named' \subseteq Server, closed' \subseteq Server, stream' \subseteq Server,
         calls' \in Chain, phase' \in {"up", "stopping", "draining", "closing", "stopped"}
  PROVE  IInv'
<1>1. TypeOK'
  <2>1. sessions' \subseteq Server
    BY DEF Begun
  <2> QED BY <2>1 DEF IInv, TypeOK, Rest, Chain, Step
<1>2. Kept(registry', probe', home', transport', listed')
  <2>1. registry \in Registry /\ Kept(registry, probe, home, transport, listed)
    BY DEF IInv, TypeOK
  <2>2. Kept(registry, probe, home, transport', listed)
    BY <2>1, KeptByTransport
  <2> QED BY <2>2 DEF Rest
<1>3. Bounded(registry', now') /\ OwnTools'
  BY DEF IInv, OwnTools, Rest
<1> QED BY <1>1, <1>2, <1>3 DEF IInv

LEMMA BegunBy ==
  ASSUME IInv, NEW s \in Server, \A x \in Server : x # s => transport'[x] = transport[x]
  PROVE  IsFiniteSet(Begun')
<1>1. Begun' \subseteq Begun \cup {s}
  BY DEF Begun
<1>2. IsFiniteSet(Begun \cup {s})
  BY FS_AddElement DEF IInv
<1> QED BY <1>1, <1>2, FS_Subset

LEMMA StreamStep ==
  ASSUME IInv, NEW s \in Server, OpenStream(s) \/ EndStream(s) \/ Delete(s)
  PROVE  IInv'
<1>1. /\ UNCHANGED <<Rest, transport, sessions, deleting, named, closed, phase>>
      /\ stream' \subseteq stream \cup {s}
  BY DEF OpenStream, EndStream, Delete, sessionVars, Rest
<1>2. calls' \in Chain
  <2>1. calls' = calls \/ calls' = <<<<"transport.close", s>>>>
    BY DEF OpenStream, EndStream, Delete
  <2>2. calls \in Chain
    BY DEF IInv, TypeOK, Chain, Step
  <2> QED BY <2>1, <2>2, Links
<1>3. Begun' = Begun
  BY <1>1 DEF Begun
<1>4. TypeOK /\ IsFiniteSet(Begun) /\ sessions \subseteq Begun
  BY DEF IInv
<1>5. stream' \subseteq Server
  BY <1>1, <1>4 DEF TypeOK
<1> QED BY <1>1, <1>2, <1>3, <1>4, <1>5, SessionStep DEF TypeOK

LEMMA ClosingStep ==
  ASSUME IInv, NEW s \in Server,
         TransportClose(s) \/ OnClose(s) \/ DeleteSession(s) \/ Deleted(s)
  PROVE  IInv'
<1>0. TypeOK /\ sessions \subseteq Begun /\ IsFiniteSet(Begun)
  BY DEF IInv
<1>1. /\ UNCHANGED <<Rest, named, phase>>
      /\ calls # <<>>
      /\ transport' \in {transport, [transport EXCEPT ![s] = "closed"]}
      /\ sessions' \subseteq sessions /\ deleting' \subseteq deleting \cup {s}
      /\ closed' \subseteq closed \cup {s} /\ stream' \subseteq stream
  BY DEF TransportClose, OnClose, DeleteSession, Deleted, Call, Rest
<1>2. calls' \in Chain
  <2>1. calls \in Chain
    BY <1>0 DEF TypeOK, Chain, Step
  <2>4. /\ <<>> \in Chain
        /\ <<<<"onclose", s>>>> \in Chain /\ <<<<"release", s>>>> \in Chain
        /\ <<<<"deleteSession", s>>>> \in Chain /\ <<<<"transport.close", s>>>> \in Chain
        /\ <<<<"deleted", s>>>> \in Chain
    BY Links
  <2>5. \A a, b \in Chain : a \o b \in Chain
    BY DEF Chain
  <2>6. \E made \in Chain : Return(made)
    <3>1. CASE TransportClose(s)
      BY <2>4, <3>1 DEF TransportClose
    <3>2. CASE OnClose(s)
      <4>1. CASE s \in closed
        BY <2>4, <3>2, <4>1 DEF OnClose
      <4>2. CASE s \notin closed
        <5>1. (<<<<"release", s>>>> \o IF s \in named THEN <<<<"deleteSession", s>>>> ELSE <<>>) \in Chain
          BY <2>4, <2>5
        <5> QED BY <3>2, <4>2, <5>1 DEF OnClose
      <4> QED BY <4>1, <4>2
    <3>3. CASE DeleteSession(s)
      <4>1. CASE s \in deleting
        BY <2>4, <3>3, <4>1 DEF DeleteSession
      <4>2. CASE s \notin deleting
        <5>1. ((IF s \in sessions THEN <<<<"transport.close", s>>>> ELSE <<>>)
                 \o <<<<"deleted", s>>>>) \in Chain
          BY <2>4, <2>5
        <5> QED BY <3>3, <4>2, <5>1 DEF DeleteSession
      <4> QED BY <4>1, <4>2
    <3>4. CASE Deleted(s)
      BY <2>4, <3>4 DEF Deleted
    <3> QED BY <3>1, <3>2, <3>3, <3>4
  <2> QED BY <1>1, <2>1, <2>6, Returns
<1>3. /\ transport' \in [Server -> {"none", "open", "closed"}]
      /\ \A x \in Server : transport[x] # "none" => transport'[x] # "none"
      /\ \A x \in Server : x # s => transport'[x] = transport[x]
  BY <1>0, <1>1 DEF TypeOK
<1>4. IsFiniteSet(Begun')
  BY <1>3, BegunBy
<1>5. sessions' \subseteq Begun'
  BY <1>0, <1>1, <1>3 DEF Begun
<1>6. /\ deleting' \subseteq Server /\ named' \subseteq Server /\ closed' \subseteq Server
      /\ stream' \subseteq Server
      /\ phase' \in {"up", "stopping", "draining", "closing", "stopped"}
  BY <1>0, <1>1 DEF TypeOK
<1> QED BY <1>1, <1>2, <1>3, <1>4, <1>5, <1>6, SessionStep

LEMMA AllServersBegun ==
  ASSUME IInv
  PROVE  AllServers(registry) \subseteq Begun
<1> SUFFICES ASSUME NEW t \in Present(registry), NEW s \in StateOf(registry, t).servers
             PROVE  s \in Begun
  BY DEF AllServers
<1>1. registry \in Registry /\ Kept(registry, probe, home, transport, listed)
  BY DEF IInv, TypeOK
<1>2. t \in Tenant /\ registry.at[t] \in Object /\ StateOf(registry, t) \in TenantState
  BY <1>1, PresentObjects
<1>3. Belongs(registry, probe, home, transport, registry.at[t], t)
  BY <1>1, <1>2 DEF Kept, Owned
<1>4. transport[s] # "none" /\ s \in Server
  BY <1>2, <1>3 DEF Belongs, StateOf, TenantState
<1> QED BY <1>4 DEF Begun

LEMMA StopStep ==
  ASSUME IInv, Stop \/ Drained \/ Stopped
  PROVE  IInv'
<1>0. TypeOK /\ sessions \subseteq Begun /\ IsFiniteSet(Begun) /\ Begun \subseteq Server
  BY DEF IInv, Begun
<1>1. /\ UNCHANGED <<Rest, transport, sessions, deleting, named, closed, stream>>
      /\ phase' \in {"up", "stopping", "draining", "closing", "stopped"}
  BY DEF Stop, Drained, Stopped, sessionVars, Rest
<1>2. calls' \in Chain
  <2>1. CASE Stop
    <3>1. PICK q \in Ordered(AllServers(registry)) :
            calls' = [i \in DOMAIN q |-> <<"transport.close", q[i]>>]
      BY <2>1 DEF Stop
    <3>2. AllServers(registry) \in SUBSET Server /\ IsFiniteSet(AllServers(registry))
      BY <1>0, AllServersBegun, FS_Subset
    <3> DEFINE n == Cardinality(AllServers(registry))
    <3>3. DOMAIN q = 1..n /\ n \in Nat /\ \A i \in 1..n : q[i] \in Server
      BY <3>2, Orders
    <3> HIDE DEF n
    <3>4. \A i \in 1..n : <<"transport.close", q[i]>> \in Step \X Server
      BY <3>3 DEF Step
    <3> QED BY <3>1, <3>3, <3>4 DEF Chain
  <2>2. CASE Drained
    <3>1. PICK q \in Ordered(sessions) :
            calls' = [i \in 1..(2 * Len(q)) |->
                        <<IF i % 2 = 1 THEN "transport.close" ELSE "deleteSession", q[(i + 1) \div 2]>>]
      BY <2>2 DEF Drained
    <3>2. sessions \in SUBSET Server /\ IsFiniteSet(sessions)
      BY <1>0, FS_Subset
    <3> DEFINE n == Cardinality(sessions)
    <3>3. Len(q) = n /\ n \in Nat /\ \A i \in 1..n : q[i] \in Server
      BY <3>2, Orders
    <3> HIDE DEF n
    <3>4. \A i \in 1..(2 * n) : (i + 1) \div 2 \in 1..n
      BY <3>3
    <3>5. \A i \in 1..(2 * n) :
            <<IF i % 2 = 1 THEN "transport.close" ELSE "deleteSession", q[(i + 1) \div 2]>>
              \in Step \X Server
      BY <3>3, <3>4 DEF Step
    <3>6. 2 * n \in Nat
      BY <3>3
    <3> QED BY <3>1, <3>3, <3>5, <3>6 DEF Chain
  <2>3. CASE Stopped
    BY <1>0, <2>3 DEF Stopped, TypeOK, Chain, Step
  <2> QED BY <2>1, <2>2, <2>3
<1>3. Begun' = Begun
  BY <1>1 DEF Begun
<1> QED BY <1>0, <1>1, <1>2, <1>3, SessionStep DEF TypeOK

\* A step of the registry and its probes that leaves the books of the sessions alone.
LEMMA RegistryStep ==
  ASSUME IInv, UNCHANGED <<now, home, transport, named, closed, stream, sessions, deleting, phase>>,
         calls' \in Chain, registry' \in Registry, probe' \in [Object -> Probe],
         listed' \in [Server -> SUBSET Tool], Bounded(registry', now),
         Kept(registry', probe', home, transport, listed'), OwnTools'
  PROVE  IInv'
<1>1. TypeOK' /\ Begun' = Begun
  BY DEF IInv, TypeOK, Begun, Chain, Step
<1> QED BY <1>1 DEF IInv

LEMMA ReleaseStep ==
  ASSUME IInv, NEW s \in Server, Release(s)
  PROVE  IInv'
<1>0. /\ registry \in Registry /\ probe \in [Object -> Probe] /\ now \in Nat
      /\ Bounded(registry, now) /\ Kept(registry, probe, home, transport, listed) /\ OwnTools
      /\ calls \in Chain /\ listed \in [Server -> SUBSET Tool]
  BY DEF IInv, TypeOK, Chain, Step
<1>1. /\ UNCHANGED <<now, probe, sessionVars, phase>> /\ registry' = Untrack(registry, s)
  BY DEF Release
<1>2. calls' \in Chain
  BY <1>0, Links, Returns DEF Release, Call
<1>3. /\ registry' \in Registry /\ registry'.at = registry.at /\ Bounded(registry', now)
      /\ \A o \in Object : /\ registry'.of[o].tools = registry.of[o].tools
                           /\ registry'.of[o].servers \subseteq registry.of[o].servers
  BY <1>0, <1>1, Untracks
<1>4. Kept(registry', probe, home, transport, listed)
  <2>1. \A x \in Object, u \in Tenant : Owned(registry', probe, x, u) => Owned(registry, probe, x, u)
    BY <1>3 DEF Owned
  <2>2. \A x \in Busy(probe) : probe[x].tenant \in Tenant
    BY <1>0 DEF Kept
  <2> QED BY <1>0, <1>3, <2>1, <2>2, KeptStill
<1>5. OwnTools'
  BY <1>0, <1>1 DEF OwnTools, sessionVars
<1> QED BY <1>0, <1>1, <1>2, <1>3, <1>4, <1>5, RegistryStep DEF sessionVars

LEMMA ClearStep ==
  ASSUME IInv, Clear
  PROVE  IInv'
<1> DEFINE none == Drop(registry, Tenant)
<1>0. /\ registry \in Registry /\ probe \in [Object -> Probe] /\ now \in Nat
      /\ Bounded(registry, now) /\ Kept(registry, probe, home, transport, listed)
  BY DEF IInv, TypeOK
<1>1. /\ UNCHANGED <<now, probe, sessionVars, calls>> /\ registry' = Collected(none, Busy(probe))
      /\ phase' = "draining"
  BY DEF Clear, Cleared, Probing, Busy
<1>2. /\ none \in Registry /\ none.of = registry.of /\ \A t \in Tenant : none.at[t] = None
      /\ Bounded(none, now)
  BY <1>0, Drops DEF Bounded
<1> HIDE DEF none
<1>3. Kept(none, probe, home, transport, listed)
  <2>1. \A x \in Object, u \in Tenant : Owned(none, probe, x, u) => Owned(registry, probe, x, u)
    BY <1>2, RegistryAssumption DEF Owned
  <2>2. \A t \in Present(none) : none.at[t] = registry.at[t]
    BY <1>2 DEF Present
  <2>3. \A x \in Busy(probe) : probe[x].tenant \in Tenant
    BY <1>0 DEF Kept
  <2> QED BY <1>0, <1>2, <2>1, <2>2, <2>3, KeptStill
<1>4. /\ registry' \in Registry /\ Bounded(registry', now)
      /\ Kept(registry', probe, home, transport, listed)
  <2>1. Busy(probe) \in SUBSET Object
    BY DEF Busy
  <2> QED BY <1>0, <1>1, <1>2, <1>3, <2>1, Collects, KeptByCollecting
<1>5. TypeOK' /\ Begun' = Begun /\ OwnTools'
  BY <1>1, <1>4 DEF IInv, TypeOK, Begun, OwnTools, sessionVars
<1>6. IsFiniteSet(Begun') /\ sessions' \subseteq Begun'
  BY <1>1, <1>5 DEF IInv, sessionVars
<1>7. Bounded(registry', now') /\ Kept(registry', probe', home', transport', listed')
  BY <1>1, <1>4 DEF sessionVars
<1> QED BY <1>5, <1>6, <1>7 DEF IInv

LEMMA TickStep ==
  ASSUME IInv, Tick
  PROVE  IInv'
<1>0. /\ registry \in Registry /\ now \in 0..MaxTime /\ MaxTime \in Nat /\ Bounded(registry, now)
  BY SessionsAssumption DEF IInv, TypeOK
<1>1. /\ UNCHANGED <<registry, probe, sessionVars, calls, phase>>
      /\ now' = now + 1 /\ now < MaxTime
  BY DEF Tick
<1>2. Bounded(registry', now')
  <2>1. \A t \in Present(registry) : StateOf(registry, t).lastAccess \in Nat
    BY <1>0, PresentObjects DEF TenantState
  <2>2. Aged(registry, now + 1)
    BY <1>0, <2>1 DEF Bounded, Aged
  <2> QED BY <1>0, <1>1, <2>2 DEF Bounded
<1>3. now' \in 0..MaxTime
  BY <1>0, <1>1
<1> QED BY <1>1, <1>2, <1>3 DEF IInv, TypeOK, Begun, OwnTools, sessionVars

\* What is known of a probe under way.
LEMMA ProbeFacts ==
  ASSUME IInv, NEW o \in Probing
  PROVE  /\ registry \in Registry /\ probe \in [Object -> Probe] /\ now \in Nat
         /\ Bounded(registry, now) /\ Kept(registry, probe, home, transport, listed)
         /\ o \in Object /\ o \in Busy(probe) /\ registry.of[o] \in TenantState
         /\ \A x \in Probing : probe[x].tenant \in Tenant
         /\ Current(o) \in Preparer
<1>1. /\ registry \in Registry /\ probe \in [Object -> Probe] /\ now \in Nat
      /\ Bounded(registry, now) /\ Kept(registry, probe, home, transport, listed)
  BY DEF IInv, TypeOK
<1>2. o \in Object /\ o \in Busy(probe) /\ Busy(probe) = Probing /\ registry.of[o] \in TenantState
  BY <1>1 DEF Probing, Busy, Registry
<1>3. \A x \in Probing : probe[x].tenant \in Tenant
  BY <1>1, <1>2 DEF Kept
<1>4. Current(o) \in Preparer
  <2>1. probe[o].at \in 1..Len(Order)
    BY <1>1, <1>2, SessionsAssumption DEF Probing, Probe
  <2> QED BY <2>1, SessionsAssumption DEF Current
<1> QED BY <1>1, <1>2, <1>3, <1>4

\* Nothing is found, or a tool for the tenant that is probed; it is listed wherever
\* the object is tracked.
Finds(o, tools) ==
  \/ tools = registry.of[o].tools /\ UNCHANGED listed
  \/ \E tool \in Tool : /\ tool.tenant = probe[o].tenant
                        /\ tools = registry.of[o].tools \cup {tool}
                        /\ PushTool(o, tool)

LEMMA FindsKept ==
  ASSUME IInv, NEW o \in Probing, NEW tools, Finds(o, tools),
         home' = home
  PROVE  /\ listed' \in [Server -> SUBSET Tool] /\ OwnTools'
         /\ \A new \in Registry : \A st \in TenantState :
              (Changes(registry, new, o, st) /\ st.tools = tools
                 /\ st.servers = registry.of[o].servers)
                => Kept(new, probe, home, transport, listed')
<1>0. /\ registry \in Registry /\ Kept(registry, probe, home, transport, listed)
      /\ o \in Object /\ o \in Busy(probe) /\ registry.of[o] \in TenantState
      /\ probe[o].tenant \in Tenant
  BY ProbeFacts
<1>l. listed \in [Server -> SUBSET Tool] /\ OwnTools
  BY DEF IInv, TypeOK
<1>1. CASE tools = registry.of[o].tools /\ UNCHANGED listed
  <2>1. \A new \in Registry : \A st \in TenantState :
          (Changes(registry, new, o, st) /\ st.tools = registry.of[o].tools
             /\ st.servers = registry.of[o].servers)
            => Kept(new, probe, home, transport, listed)
    BY <1>0, KeptByChange
  <2> QED BY <1>1, <1>l, <2>1 DEF OwnTools
<1>2. CASE \E tool \in Tool : /\ tool.tenant = probe[o].tenant
                              /\ tools = registry.of[o].tools \cup {tool}
                              /\ PushTool(o, tool)
  <2>1. PICK tool \in Tool : /\ tool.tenant = probe[o].tenant
                             /\ tools = registry.of[o].tools \cup {tool}
                             /\ PushTool(o, tool)
    BY <1>2
  <2>2. listed' = [s \in Server |-> IF s \in registry.of[o].servers
                                    THEN listed[s] \cup {tool} ELSE listed[s]]
    BY <2>1 DEF PushTool
  <2>3. listed' \in [Server -> SUBSET Tool]
    BY <1>l, <2>2
  <2>4. OwnTools'
    <3>1. \A s \in registry.of[o].servers : home[s] = probe[o].tenant
      BY <1>0 DEF Kept, Belongs, Owned
    <3> QED BY <1>l, <2>1, <2>2, <3>1 DEF OwnTools
  <2>5. Pushes(registry, o, tool, listed, listed')
    BY <2>2 DEF Pushes
  <2>6. ASSUME NEW new \in Registry, NEW st \in TenantState, Changes(registry, new, o, st),
               st.tools = tools, st.servers = registry.of[o].servers
        PROVE  Kept(new, probe, home, transport, listed')
    <3>1. st.tools = registry.of[o].tools \cup {tool}
      BY <2>1, <2>6
    <3> QED BY <1>0, <2>1, <2>5, <2>6, <3>1, KeptByPush
  <2> QED BY <2>3, <2>4, <2>6
<1> QED BY <1>1, <1>2 DEF Finds

\* A probe moves on with what it found.
LEMMA AdvanceStep ==
  ASSUME IInv, NEW o \in Probing, NEW st \in TenantState, Advance(o, st),
         Finds(o, st.tools),
         st.servers = registry.of[o].servers, st.lastAccess = registry.of[o].lastAccess,
         UNCHANGED <<now, home, transport, named, closed, stream, sessions, deleting, calls, phase>>
  PROVE  IInv'
<1>1. /\ listed' \in [Server -> SUBSET Tool] /\ OwnTools'
      /\ \A new \in Registry : \A done \in TenantState :
           (Changes(registry, new, o, done) /\ done.tools = st.tools /\ done.servers = st.servers)
             => Kept(new, probe, home, transport, listed')
  BY FindsKept
<1>2. /\ registry' \in Registry /\ probe' \in [Object -> Probe]
      /\ Bounded(registry', now) /\ Kept(registry', probe', home, transport, listed')
  BY <1>1, ProbeFacts, Advances
<1>3. calls' \in Chain
  BY DEF IInv, TypeOK, Chain, Step
<1> QED BY <1>1, <1>2, <1>3, RegistryStep

LEMMA SettingStep ==
  ASSUME IInv, NEW o \in Object, SettingAnswered(o)
  PROVE  IInv'
<1>1. /\ o \in Probing /\ Current(o) \in Setting
      /\ UNCHANGED <<now, home, transport, named, closed, stream, sessions, deleting, calls, phase>>
  BY DEF SettingAnswered
<1>2. /\ registry.of[o] \in TenantState /\ Current(o) \in Preparer
      /\ probe[o].tenant \in Tenant
  BY <1>1, ProbeFacts
<1>3. CASE /\ Advance(o, Verdict(registry.of[o], Current(o), "no"))
           /\ UNCHANGED listed
  <2> DEFINE st == Verdict(registry.of[o], Current(o), "no")
  <2>1. /\ st \in TenantState /\ st.tools = registry.of[o].tools
        /\ st.servers = registry.of[o].servers /\ st.lastAccess = registry.of[o].lastAccess
    BY <1>2, VerdictStates
  <2>2. Finds(o, st.tools)
    BY <1>3, <2>1 DEF Finds
  <2> HIDE DEF st
  <2> QED BY <1>1, <1>3, <2>1, <2>2, AdvanceStep DEF st
<1>4. CASE LET tool == Discovered(o, Current(o))
           IN /\ Advance(o, Verdict(WithTool(registry.of[o], tool), Current(o), "yes"))
              /\ PushTool(o, tool)
  <2> DEFINE tool == Discovered(o, Current(o))
             st == Verdict(WithTool(registry.of[o], tool), Current(o), "yes")
  <2>1. tool \in Tool /\ tool.tenant = probe[o].tenant
    BY <1>1, <1>2 DEF Discovered, Tool
  <2>2. /\ st \in TenantState /\ st.tools = registry.of[o].tools \cup {tool}
        /\ st.servers = registry.of[o].servers /\ st.lastAccess = registry.of[o].lastAccess
    <3> DEFINE found == WithTool(registry.of[o], tool)
    <3>1. /\ found \in TenantState /\ found.tools = registry.of[o].tools \cup {tool}
          /\ found.servers = registry.of[o].servers
          /\ found.lastAccess = registry.of[o].lastAccess
      BY <1>2, <2>1, ToolStates
    <3> HIDE DEF found
    <3>2. LET new == Verdict(found, Current(o), "yes")
          IN  /\ new \in TenantState /\ new.tools = found.tools
              /\ new.servers = found.servers /\ new.lastAccess = found.lastAccess
      BY <1>2, <3>1, VerdictStates
    <3> QED BY <3>1, <3>2 DEF found
  <2>3. Advance(o, st) /\ PushTool(o, tool)
    BY <1>4
  <2> HIDE DEF st, tool
  <2>4. Finds(o, st.tools)
    BY <2>1, <2>2, <2>3 DEF Finds
  <2> QED BY <1>1, <2>2, <2>3, <2>4, AdvanceStep
<1> QED BY <1>3, <1>4 DEF SettingAnswered

\* A probe that stays where it is.
LEMMA ProbeStays ==
  ASSUME IInv, NEW o \in Probing, NEW p \in Probe, probe' = [probe EXCEPT ![o] = p],
         p.at # 0, p.tenant = probe[o].tenant
  PROVE  /\ probe' \in [Object -> Probe]
         /\ \A new \in Registry : \A ls : Kept(new, probe, home, transport, ls) =>
              Kept(new, probe', home, transport, ls)
<1>1. /\ probe \in [Object -> Probe] /\ o \in Object /\ o \in Busy(probe)
  BY ProbeFacts
<1>2. probe' \in [Object -> Probe]
  BY <1>1
<1>3. \A x \in Busy(probe') : x \in Busy(probe) /\ probe'[x].tenant = probe[x].tenant
  BY <1>1 DEF Busy
<1>4. ASSUME NEW new \in Registry, NEW ls, Kept(new, probe, home, transport, ls)
      PROVE  Kept(new, probe', home, transport, ls)
  <2>1. \A x \in Object, u \in Tenant : Owned(new, probe', x, u) => Owned(new, probe, x, u)
    BY <1>3 DEF Owned
  <2>2. \A x \in Busy(probe') : probe'[x].tenant \in Tenant
    BY <1>3, <1>4 DEF Kept
  <2> QED BY <1>4, <2>1, <2>2, KeptStill
<1> QED BY <1>2, <1>4

LEMMA AppStep ==
  ASSUME IInv, NEW o \in Object, AppAnswered(o)
  PROVE  IInv'
<1>1. /\ o \in Probing /\ Current(o) = Published
      /\ UNCHANGED <<now, sessionVars, calls, phase>>
  BY DEF AppAnswered
<1>2. /\ registry \in Registry /\ registry.of[o] \in TenantState /\ Published \in Preparer
      /\ probe[o] \in Probe /\ probe[o].at # 0 /\ now \in Nat
      /\ Bounded(registry, now) /\ Kept(registry, probe, home, transport, listed)
  BY <1>1, ProbeFacts DEF Probing
<1>3. CASE Advance(o, Verdict(registry.of[o], Published, "no"))
  <2> DEFINE st == Verdict(registry.of[o], Published, "no")
  <2>1. /\ st \in TenantState /\ st.tools = registry.of[o].tools
        /\ st.servers = registry.of[o].servers /\ st.lastAccess = registry.of[o].lastAccess
    BY <1>2, VerdictStates
  <2>2. Finds(o, st.tools)
    BY <1>1, <2>1 DEF Finds, sessionVars
  <2> HIDE DEF st
  <2> QED BY <1>1, <1>3, <2>1, <2>2, AdvanceStep DEF st, sessionVars
<1>4. CASE Advance(o, [registry.of[o] EXCEPT !.cooldown[Published] = now + Cooldown])
  <2> DEFINE st == [registry.of[o] EXCEPT !.cooldown[Published] = now + Cooldown]
  <2>1. now + Cooldown \in Nat
    BY <1>2, SessionsAssumption
  <2>2. /\ st \in TenantState /\ st.tools = registry.of[o].tools
        /\ st.servers = registry.of[o].servers /\ st.lastAccess = registry.of[o].lastAccess
    BY <1>2, <2>1, CoolingStates
  <2>3. Finds(o, st.tools)
    BY <1>1, <2>2 DEF Finds, sessionVars
  <2> HIDE DEF st
  <2> QED BY <1>1, <1>4, <2>2, <2>3, AdvanceStep DEF st, sessionVars
<1>5. CASE \E online \in SUBSET PublishedApp \ {{}} :
             /\ probe' = [probe EXCEPT ![o].left = online]
             /\ UNCHANGED registry
  <2>1. PICK online \in SUBSET PublishedApp :
             /\ probe' = [probe EXCEPT ![o].left = online]
             /\ UNCHANGED registry
    BY <1>5
  <2> DEFINE p == [probe[o] EXCEPT !.left = online]
  <2>2. p \in Probe /\ p.at = probe[o].at /\ p.tenant = probe[o].tenant
    BY <1>2 DEF Probe
  <2>3. probe' = [probe EXCEPT ![o] = p]
    BY <2>1
  <2> HIDE DEF p
  <2>4. /\ probe' \in [Object -> Probe] /\ Kept(registry, probe', home, transport, listed)
    BY <1>1, <1>2, <2>2, <2>3, ProbeStays
  <2>5. calls' \in Chain /\ OwnTools' /\ listed' \in [Server -> SUBSET Tool]
    BY <1>1 DEF IInv, TypeOK, Chain, Step, OwnTools, sessionVars
  <2> QED BY <1>1, <1>2, <2>1, <2>4, <2>5, RegistryStep DEF sessionVars
<1> QED BY <1>3, <1>4, <1>5 DEF AppAnswered

LEMMA ListedStep ==
  ASSUME IInv, NEW o \in Object, ServerListed(o)
  PROVE  IInv'
<1>1. /\ o \in Probing
      /\ UNCHANGED <<now, home, transport, named, closed, stream, sessions, deleting, calls, phase>>
  BY DEF ServerListed
<1>2. /\ registry \in Registry /\ registry.of[o] \in TenantState /\ Published \in Preparer
      /\ probe[o] \in Probe /\ probe[o].at # 0 /\ now \in Nat /\ probe[o].tenant \in Tenant
      /\ Bounded(registry, now)
  BY <1>1, ProbeFacts, SessionsAssumption DEF Probing
<1>3. PICK code \in probe[o].left, ok \in BOOLEAN :
        LET tool == Discovered(o, code)
            st == IF ok THEN WithTool(registry.of[o], tool) ELSE registry.of[o]
            found == probe[o].found \/ ok
        IN /\ IF probe[o].left = {code}
              THEN Advance(o, Verdict(st, Published, IF found THEN "yes" ELSE "no"))
              ELSE /\ probe' = [probe EXCEPT ![o].left = @ \ {code}, ![o].found = found]
                   /\ registry' = [registry EXCEPT !.of[o] = st]
           /\ IF ok THEN PushTool(o, tool) ELSE UNCHANGED listed
  BY DEF ServerListed
<1> DEFINE tool == Discovered(o, code)
           st == IF ok THEN WithTool(registry.of[o], tool) ELSE registry.of[o]
           found == probe[o].found \/ ok
<1>4. tool \in Tool /\ tool.tenant = probe[o].tenant
  BY <1>2 DEF Discovered, Tool, Probe
<1>5. /\ st \in TenantState /\ st.servers = registry.of[o].servers
      /\ st.lastAccess = registry.of[o].lastAccess
      /\ st.tools = IF ok THEN registry.of[o].tools \cup {tool} ELSE registry.of[o].tools
  <2>1. CASE ok
    BY <1>2, <1>4, <2>1, ToolStates
  <2>2. CASE ~ok
    BY <1>2, <2>2
  <2> QED BY <2>1, <2>2
<1>6. Finds(o, st.tools)
  <2>1. CASE ok
    BY <1>3, <1>4, <1>5, <2>1 DEF Finds
  <2>2. CASE ~ok
    BY <1>3, <1>5, <2>2 DEF Finds
  <2> QED BY <2>1, <2>2
<1> HIDE DEF tool, st
<1>7. CASE probe[o].left = {code}
  <2> DEFINE verdict == IF found THEN "yes" ELSE "no"
             over == Verdict(st, Published, verdict)
  <2>1. verdict \in {"yes", "no"}
    OBVIOUS
  <2>2. Advance(o, over)
    BY <1>3, <1>7 DEF st, tool
  <2> HIDE DEF verdict
  <2>3. /\ over \in TenantState /\ over.tools = st.tools /\ over.servers = registry.of[o].servers
        /\ over.lastAccess = registry.of[o].lastAccess
    BY <1>2, <1>5, <2>1, VerdictStates
  <2> HIDE DEF over
  <2> QED BY <1>1, <1>6, <2>2, <2>3, AdvanceStep
<1>8. CASE probe[o].left # {code}
  <2>1. /\ probe' = [probe EXCEPT ![o].left = @ \ {code}, ![o].found = found]
        /\ registry' = [registry EXCEPT !.of[o] = st]
    BY <1>3, <1>8 DEF st, tool
  <2>2. Changes(registry, registry', o, st) /\ registry' \in Registry
    BY <1>2, <1>5, <2>1, Replaced DEF Changes
  <2>3. /\ listed' \in [Server -> SUBSET Tool] /\ OwnTools'
        /\ Kept(registry', probe, home, transport, listed')
    BY <1>1, <1>5, <1>6, <2>2, FindsKept
  <2> DEFINE p == [probe[o] EXCEPT !.left = probe[o].left \ {code}, !.found = found]
  <2>4. p \in Probe /\ p.at = probe[o].at /\ p.tenant = probe[o].tenant
    <3>1. found \in BOOLEAN /\ probe[o].left \ {code} \in SUBSET PublishedApp
      BY <1>2 DEF Probe
    <3> QED BY <1>2, <3>1 DEF Probe
  <2>5. probe' = [probe EXCEPT ![o] = p]
    BY <2>1, ProbeFacts, <1>1
  <2> HIDE DEF p
  <2>6. probe' \in [Object -> Probe] /\ Kept(registry', probe', home, transport, listed')
    BY <1>1, <1>2, <2>2, <2>3, <2>4, <2>5, ProbeStays
  <2>7. Bounded(registry', now)
    <3>1. registry'.at = registry.at /\ registry'.before = registry.before
      BY <2>2 DEF Changes
    <3>2. \A u \in Present(registry) : StateOf(registry', u).lastAccess = StateOf(registry, u).lastAccess
      <4> SUFFICES ASSUME NEW u \in Present(registry)
                   PROVE  StateOf(registry', u).lastAccess = StateOf(registry, u).lastAccess
        OBVIOUS
      <4>1. registry.at[u] \in Object
        BY <1>2, PresentObjects
      <4> QED BY <1>5, <2>2, <4>1 DEF Changes, StateOf
    <3> QED BY <1>2, <2>2, <3>1, <3>2, StaysBounded DEF Bounded, Aged
  <2>8. calls' \in Chain
    BY <1>1 DEF IInv, TypeOK, Chain, Step
  <2> QED BY <1>1, <2>2, <2>3, <2>6, <2>7, <2>8, RegistryStep
<1> QED BY <1>7, <1>8

Untracked(reg, s) == TenantsWith(reg, s) = {}

\* A server that was not tracked is not tracked by the step either.
Forgets(reg, new) == \A x \in Server : Untracked(reg, x) => Untracked(new, x)

LEMMA Forgetting ==
  ASSUME NEW reg, NEW new,
         \A u \in Present(new) : u \in Present(reg) /\ StateOf(new, u).servers = StateOf(reg, u).servers
  PROVE  Forgets(reg, new)
BY DEF Forgets, Untracked, TenantsWith

LEMMA GotForgets ==
  ASSUME NEW reg \in Registry, NEW new, NEW t \in Tenant, NEW n, NEW inUse, NEW o,
         Got(reg, new, t, n, inUse, o)
  PROVE  Forgets(reg, new)
<1> SUFFICES ASSUME NEW x \in Server, Untracked(reg, x), NEW u \in Present(new),
                    x \in StateOf(new, u).servers
             PROVE  FALSE
  BY DEF Forgets, Untracked, TenantsWith
<1>0. u \in Tenant /\ new.at[u] # None /\ o \in Object /\ new \in Registry
  BY DEF Present, Got
<1>1. CASE u = t
  <2>1. new.at[u] = o
    BY <1>0, <1>1 DEF Got
  <2>2. t \in Present(reg) /\ x \in reg.of[o].servers /\ o = reg.at[t]
    BY <2>1 DEF Got, StateOf
  <2> QED BY <2>2 DEF Untracked, TenantsWith, StateOf
<1>2. CASE u # t
  <2>1. new.at[u] = reg.at[u] /\ u \in Present(reg)
    BY <1>0, <1>2 DEF Got, Present
  <2>2. reg.at[u] \in Object
    BY <2>1, PresentObjects
  <2>3. CASE reg.at[u] = o
    <3>1. t \in Present(reg)
      BY <2>1, <2>3 DEF Got, Unused
    <3>2. new.of[o].servers = reg.of[o].servers
      BY <3>1 DEF Got
    <3> QED BY <2>1, <2>3, <3>2 DEF Untracked, TenantsWith, StateOf
  <2>4. CASE reg.at[u] # o
    <3>1. new.of[reg.at[u]] = reg.of[reg.at[u]]
      BY <2>2, <2>4 DEF Got
    <3> QED BY <2>1, <3>1 DEF Untracked, TenantsWith, StateOf
  <2> QED BY <2>3, <2>4
<1> QED BY <1>1, <1>2

LEMMA CollectForgets ==
  ASSUME NEW reg \in Registry, NEW inUse \in SUBSET Object
  PROVE  Forgets(reg, Collected(reg, inUse))
<1> DEFINE new == Collected(reg, inUse)
<1>1. new.at = reg.at /\ \A t \in Present(reg) : StateOf(new, t) = StateOf(reg, t)
  BY Collects
<1> HIDE DEF new
<1>2. Present(new) = Present(reg)
  BY <1>1 DEF Present
<1>3. Forgets(reg, new)
  BY <1>1, <1>2, Forgetting
<1> QED BY <1>3 DEF new

LEMMA EnsureForgets ==
  ASSUME IInv, NEW reg \in Registry, NEW o \in Object, NEW t \in Tenant, NEW hm, NEW tr, NEW ls,
         Ensure(reg, o, t),
         Bounded(reg, now), Kept(reg, probe, hm, tr, ls), Belongs(reg, probe, hm, tr, o, t)
  PROVE  Forgets(reg, registry')
<1>1. now \in Nat /\ probe \in [Object -> Probe]
  BY DEF IInv, TypeOK
<1>2. /\ registry'.at = reg.at
      /\ \A u \in Present(reg) : StateOf(registry', u).servers = StateOf(reg, u).servers
  BY <1>1, Ensures
<1>3. Present(registry') = Present(reg)
  BY <1>2 DEF Present
<1> QED BY <1>2, <1>3, Forgetting

\* getState in a step: it runs with what the probes under way keep in use.
LEMMA Lookup ==
  ASSUME IInv, NEW t \in Tenant, CanGet(registry, t, Probing)
  PROVE  LET new == GetState(registry, t, now, Probing)
             o == Found(registry, t, Probing)
         IN  /\ Got(registry, new, t, now, Busy(probe), o)
             /\ Kept(new, probe, home, transport, listed)
             /\ Belongs(new, probe, home, transport, o, t)
<1> DEFINE new == GetState(registry, t, now, Probing)
           o == Found(registry, t, Probing)
<1>1. /\ registry \in Registry /\ now \in Nat /\ Bounded(registry, now)
      /\ Kept(registry, probe, home, transport, listed)
  BY DEF IInv, TypeOK
<1>2. Probing = Busy(probe) /\ Probing \in SUBSET Object
  BY DEF Probing, Busy
<1>3. Got(registry, new, t, now, Busy(probe), o)
  BY <1>1, <1>2, Gets
<1> HIDE DEF new, o
<1>4. o \in Object /\ new \in Registry
  BY <1>3 DEF Got
<1>5. /\ Kept(new, probe, home, transport, listed)
      /\ Belongs(new, probe, home, transport, o, t)
  BY <1>1, <1>3, <1>4, KeptByGet
<1> QED BY <1>3, <1>5 DEF new, o

LEMMA CallStep ==
  ASSUME IInv, NEW s \in Server, NEW t \in Tenant, PostCall(s, t) \/ DescribeEntity(s, t)
  PROVE  IInv'
<1> DEFINE new == GetState(registry, t, now, Probing)
           o == Found(registry, t, Probing)
<1>1. UNCHANGED <<now, sessionVars, calls, phase>> /\ CanGet(registry, t, Probing)
  BY DEF PostCall, DescribeEntity
<1>2. /\ Got(registry, new, t, now, Busy(probe), o)
      /\ Kept(new, probe, home, transport, listed)
      /\ Belongs(new, probe, home, transport, o, t)
  BY <1>1, Lookup
<1>3. now \in Nat /\ probe \in [Object -> Probe]
  BY DEF IInv, TypeOK
<1>4. \/ Ensure(new, o, t)
      \/ registry' = Collected(new, Busy(probe)) /\ probe' = probe
  BY DEF PostCall, DescribeEntity, Probing, Busy
<1> HIDE DEF new, o
<1>5. o \in Object /\ new \in Registry /\ Bounded(new, now)
  BY <1>2 DEF Got
<1>6. /\ registry' \in Registry /\ probe' \in [Object -> Probe]
      /\ Bounded(registry', now) /\ Kept(registry', probe', home, transport, listed)
  <2>1. CASE Ensure(new, o, t)
    BY <1>2, <1>3, <1>5, <2>1, Ensures
  <2>2. CASE registry' = Collected(new, Busy(probe)) /\ probe' = probe
    <3>1. Busy(probe) \in SUBSET Object
      BY DEF Busy
    <3>2. registry' \in Registry /\ Bounded(registry', now)
      BY <1>3, <1>5, <2>2, <3>1, Collects
    <3>3. Kept(registry', probe, home, transport, listed)
      BY <1>2, <1>5, <2>2, KeptByCollecting
    <3> QED BY <1>3, <2>2, <3>2, <3>3
  <2> QED BY <1>4, <2>1, <2>2
<1>7. calls' \in Chain /\ OwnTools' /\ listed' \in [Server -> SUBSET Tool]
  BY <1>1 DEF IInv, TypeOK, Chain, Step, OwnTools, sessionVars
<1> QED BY <1>1, <1>6, <1>7, RegistryStep DEF sessionVars

\* A session is opened: getState, tracking and the getState of the probe, which may
\* both prune.
LEMMA Initializes ==
  ASSUME IInv, NEW s \in Server, NEW t \in Tenant, PostInitialize(s, t)
  PROVE  /\ registry' \in Registry /\ probe' \in [Object -> Probe]
         /\ Bounded(registry', now) /\ Kept(registry', probe', home', transport', listed')
         /\ listed' \in [Server -> SUBSET Tool] /\ OwnTools'
         /\ TenantsWith(registry', s) = {} => Cardinality(Holding(registry)) >= MaxTenants
         /\ \A x \in Server : x # s /\ Untracked(registry, x) => Untracked(registry', x)
<1> DEFINE o == Found(registry, t, Probing)
           created == GetState(registry, t, now, Probing)
           kept == Track(created, o, s)
           tracked == Collected(kept, Probing)
           o2 == Found(tracked, t, Probing)
           got == GetState(tracked, t, now, Probing)
<1>0. /\ now \in Nat /\ probe \in [Object -> Probe] /\ OwnTools
      /\ home \in [Server -> Tenant \cup {None}] /\ listed \in [Server -> SUBSET Tool]
      /\ transport \in [Server -> {"none", "open", "closed"}]
      /\ Probing = Busy(probe) /\ Probing \in SUBSET Object
  BY DEF IInv, TypeOK, Probing, Busy
<1>1. /\ transport[s] = "none" /\ CanGet(registry, t, Probing)
      /\ listed' = [listed EXCEPT ![s] = created.of[o].tools]
      /\ home' = [home EXCEPT ![s] = t] /\ transport' = [transport EXCEPT ![s] = "open"]
      /\ Ensure(got, o2, t)
  BY DEF PostInitialize
<1>2. /\ Got(registry, created, t, now, Busy(probe), o)
      /\ Kept(created, probe, home, transport, listed)
      /\ Belongs(created, probe, home, transport, o, t)
  BY <1>1, Lookup
<1> HIDE DEF created, o
<1>3. /\ o \in Object /\ created \in Registry /\ Bounded(created, now)
      /\ created.of[o] \in TenantState
  BY <1>2 DEF Got, Registry
<1>4. /\ home'[s] = t /\ transport'[s] = "open" /\ listed'[s] = created.of[o].tools
      /\ \A x \in Server : x # s => /\ home'[x] = home[x] /\ transport'[x] = transport[x]
                                    /\ listed'[x] = listed[x]
  BY <1>0, <1>1
<1>5. listed' \in [Server -> SUBSET Tool] /\ OwnTools'
  <2>1. created.of[o].tools \in SUBSET Tool
    BY <1>3 DEF TenantState
  <2>2. \A tool \in created.of[o].tools : tool.tenant = t
    BY <1>2 DEF Belongs
  <2> QED BY <1>0, <1>1, <1>4, <2>1, <2>2 DEF OwnTools
<1>6. Kept(kept, probe, home', transport', listed')
  <2>1. Opens(home, transport, listed, home', transport', listed', s, t, created.of[o].tools)
    BY <1>1, <1>4 DEF Opens
  <2> QED BY <1>2, <1>3, <2>1, KeptByTrack
<1>7. /\ kept \in Registry /\ kept.at = created.at /\ Bounded(kept, now)
      /\ s \in kept.of[o].servers
      /\ \A x \in Server : x # s /\ Untracked(created, x) => Untracked(kept, x)
  <2> DEFINE st == [created.of[o] EXCEPT !.servers = created.of[o].servers \cup {s}]
  <2>1. Changes(created, kept, o, st)
    BY <1>3, Tracked
  <2>2. created.of[o].servers \cup {s} \in SUBSET Server
    BY <1>3 DEF TenantState
  <2>3. st.servers = created.of[o].servers \cup {s} /\ st.lastAccess = created.of[o].lastAccess
    BY <1>3, <2>2, TrackingStates
  <2> HIDE DEF st, kept
  <2>4. \A u \in Present(created) : StateOf(kept, u).lastAccess = StateOf(created, u).lastAccess
    <3> SUFFICES ASSUME NEW u \in Present(created)
                 PROVE  StateOf(kept, u).lastAccess = StateOf(created, u).lastAccess
      OBVIOUS
    <3>1. created.at[u] \in Object
      BY <1>3, PresentObjects
    <3> QED BY <2>1, <2>3, <3>1 DEF Changes, StateOf
  <2>5. kept \in Registry /\ kept.at = created.at /\ kept.before = created.before
    BY <2>1 DEF Changes
  <2>6. Bounded(kept, now)
    BY <1>0, <1>3, <2>4, <2>5, StaysBounded DEF Bounded, Aged
  <2>7. s \in kept.of[o].servers
    BY <2>1, <2>3 DEF Changes
  <2>8. ASSUME NEW x \in Server, x # s, Untracked(created, x)
        PROVE  Untracked(kept, x)
    <3>1. Present(kept) = Present(created) /\ \A u \in Present(created) : created.at[u] \in Object
      BY <1>3, <2>5, PresentObjects DEF Present
    <3>2. \A y \in Object : x \in kept.of[y].servers => x \in created.of[y].servers
      BY <2>1, <2>3, <2>8 DEF Changes
    <3> QED BY <2>5, <2>8, <3>1, <3>2 DEF Untracked, TenantsWith, StateOf
  <2> QED BY <2>5, <2>6, <2>7, <2>8
<1> HIDE DEF kept
<1>8. /\ tracked \in Registry /\ tracked.at = kept.at /\ Bounded(tracked, now)
      /\ \A u \in Present(kept) : StateOf(tracked, u) = StateOf(kept, u)
  BY <1>0, <1>7, Collects
<1>9. Kept(tracked, probe, home', transport', listed')
  BY <1>0, <1>6, <1>7, KeptByCollecting
<1> HIDE DEF tracked
<1>10. Present(tracked) = Present(created) /\ Present(kept) = Present(created)
  BY <1>7, <1>8 DEF Present
<1>11. CanGet(tracked, t, Probing)
  <2>1. CASE t \in Present(created)
    BY <1>10, <2>1 DEF CanGet
  <2>2. CASE t \notin Present(created)
    <3>1. o \in Unused(registry, Busy(probe))
      BY <1>2, <2>2 DEF Got
    <3>2. ASSUME NEW u \in Present(tracked)
          PROVE  tracked.at[u] # o
      <4>1. u \in Tenant /\ u # t /\ created.at[u] # None /\ tracked.at[u] = created.at[u]
        BY <1>7, <1>8, <1>10, <2>2 DEF Present
      <4>2. created.at[u] = registry.at[u] /\ u \in Present(registry)
        BY <1>2, <4>1 DEF Got, Present
      <4> QED BY <3>1, <4>1, <4>2 DEF Unused
    <3>3. o \in Unused(tracked, Probing)
      BY <1>0, <3>1, <3>2 DEF Unused
    <3> QED BY <3>3 DEF CanGet
  <2> QED BY <2>1, <2>2
<1>12. Got(tracked, got, t, now, Busy(probe), o2)
  BY <1>0, <1>8, <1>11, Gets
<1> HIDE DEF got, o2
<1>13. o2 \in Object /\ got \in Registry /\ Bounded(got, now)
  BY <1>12 DEF Got
<1>14. /\ Kept(got, probe, home', transport', listed')
       /\ Belongs(got, probe, home', transport', o2, t)
  BY <1>0, <1>8, <1>9, <1>12, <1>13, KeptByGet
<1>15. /\ registry' \in Registry /\ probe' \in [Object -> Probe]
       /\ Bounded(registry', now) /\ Kept(registry', probe', home', transport', listed')
       /\ registry'.at = got.at
       /\ \A u \in Present(got) : StateOf(registry', u).servers = StateOf(got, u).servers
  BY <1>0, <1>1, <1>13, <1>14, Ensures
<1>16. ASSUME TenantsWith(registry', s) = {}
       PROVE  Cardinality(Holding(registry)) >= MaxTenants
  <2>1. CASE t \notin Present(created)
    BY <1>2, <2>1 DEF Got
  <2>2. CASE t \in Present(created)
    <3>1. created.at[t] = o
      BY <1>2, <2>2 DEF Got, Present
    <3>2. t \in Present(tracked) /\ tracked.at[t] = o /\ s \in tracked.of[o].servers
      BY <1>7, <1>8, <1>10, <2>2, <3>1 DEF StateOf
    <3>3. o2 = o /\ t \in Present(got) /\ s \in got.of[o].servers
      BY <1>12, <3>2 DEF Got
    <3>4. got.at[t] = o
      BY <1>12, <3>3 DEF Got, Present
    <3>5. t \in Present(registry') /\ s \in StateOf(registry', t).servers
      <4>1. s \in StateOf(got, t).servers
        BY <3>3, <3>4 DEF StateOf
      <4>2. t \in Present(registry')
        BY <1>15, <3>3 DEF Present
      <4> QED BY <1>15, <3>3, <4>1, <4>2
    <3> QED BY <1>16, <3>5 DEF TenantsWith
  <2> QED BY <2>1, <2>2
<1>17. ASSUME NEW x \in Server, x # s, Untracked(registry, x)
       PROVE  Untracked(registry', x)
  <2>1. registry \in Registry
    BY DEF IInv, TypeOK
  <2>2. Untracked(kept, x)
    BY <1>2, <1>7, <1>17, <2>1, GotForgets DEF Forgets
  <2>3. Untracked(tracked, x)
    BY <1>0, <1>7, <2>2, CollectForgets DEF Forgets, tracked
  <2>4. Untracked(got, x)
    BY <1>8, <1>12, <2>3, GotForgets DEF Forgets
  <2> QED BY <1>1, <1>13, <1>14, <2>4, EnsureForgets DEF Forgets
<1> QED BY <1>5, <1>15, <1>16, <1>17

LEMMA InitializeStep ==
  ASSUME IInv, NEW s \in Server, NEW t \in Tenant, PostInitialize(s, t)
  PROVE  IInv'
<1>1. /\ registry' \in Registry /\ probe' \in [Object -> Probe]
      /\ Bounded(registry', now) /\ Kept(registry', probe', home', transport', listed')
      /\ listed' \in [Server -> SUBSET Tool] /\ OwnTools'
  BY Initializes
<1>2. /\ home' = [home EXCEPT ![s] = t] /\ transport' = [transport EXCEPT ![s] = "open"]
      /\ \/ named' = named \cup {s} /\ sessions' = sessions \cup {s}
         \/ UNCHANGED <<named, sessions>>
      /\ UNCHANGED <<now, closed, stream, deleting, calls, phase>>
  BY DEF PostInitialize
<1>3. TypeOK /\ sessions \subseteq Begun
  BY DEF IInv
<1>4. TypeOK'
  BY <1>1, <1>2, <1>3 DEF TypeOK
<1>5. transport'[s] = "open" /\ \A x \in Server : x # s => transport'[x] = transport[x]
  BY <1>2, <1>3 DEF TypeOK
<1>6. IsFiniteSet(Begun')
  BY <1>5, BegunBy
<1>7. sessions' \subseteq Begun'
  <2>1. Begun \subseteq Begun' /\ s \in Begun'
    BY <1>5 DEF Begun
  <2> QED BY <1>2, <1>3, <2>1
<1> QED BY <1>1, <1>2, <1>4, <1>6, <1>7 DEF IInv

LEMMA InitialInvariant ==
  ASSUME Init
  PROVE  IInv
<1>1. /\ registry = Empty /\ now = 0 /\ probe = [o \in Object |-> NoProbe]
      /\ \A t \in Tenant : registry.at[t] = None
  BY DEF Init, Empty
<1>2. registry \in Registry
  <2>1. NewState(0) \in TenantState
    BY NewStates
  <2> QED BY <1>1, <2>1 DEF Empty, Registry
<1>3. probe \in [Object -> Probe] /\ Busy(probe) = {}
  <2>1. NoProbe \in Probe /\ NoProbe.at = 0
    <3>1. 0 \in 0..Len(Order)
      BY SessionsAssumption
    <3> QED BY <3>1 DEF NoProbe, Probe
  <2> QED BY <1>1, <2>1 DEF Busy
<1>4. TypeOK
  <2>1. now \in 0..MaxTime
    BY <1>1, SessionsAssumption
  <2>2. calls = <<>>
    BY DEF Init
  <2> QED BY <1>2, <1>3, <2>1, <2>2 DEF Init, TypeOK
<1>5. Begun = {} /\ IsFiniteSet(Begun) /\ sessions \subseteq Begun
  <2>1. Begun = {} /\ sessions = {}
    BY DEF Init, Begun
  <2> QED BY <2>1, FS_EmptySet
<1>6. Present(registry) = {}
  BY <1>1 DEF Present
<1>7. Bounded(registry, now)
  <2>1. registry.before = {}
    BY <1>1 DEF Empty
  <2>2. Within(registry)
    <3>1. IsFiniteSet({}) /\ Cardinality({}) = 0
      BY FS_EmptySet
    <3> QED BY <1>6, <3>1, RegistryAssumption DEF Within
  <2> QED BY <1>6, <2>1, <2>2 DEF Bounded, Chained, Aged
<1>8. Kept(registry, probe, home, transport, listed)
  <2>1. \A o \in Object, t \in Tenant : ~Owned(registry, probe, o, t)
    BY <1>1, <1>3, RegistryAssumption DEF Owned
  <2> QED BY <1>3, <1>6, <2>1 DEF Kept, InStep
<1>9. OwnTools
  BY DEF Init, OwnTools
<1> QED BY <1>4, <1>5, <1>7, <1>8, <1>9 DEF IInv

LEMMA InvariantStep ==
  ASSUME IInv, [Next]_vars
  PROVE  IInv'
<1>1. ASSUME NEW s \in Server, NEW t \in Tenant,
             PostInitialize(s, t) \/ PostCall(s, t) \/ DescribeEntity(s, t)
      PROVE  IInv'
  BY <1>1, InitializeStep, CallStep
<1>2. ASSUME NEW s \in Server, OpenStream(s) \/ EndStream(s) \/ Delete(s)
      PROVE  IInv'
  BY <1>2, StreamStep
<1>3. ASSUME NEW s \in Server, Closing(s)
      PROVE  IInv'
  BY <1>3, ClosingStep, ReleaseStep DEF Closing
<1>4. ASSUME NEW o \in Object, Answer(o)
      PROVE  IInv'
  BY <1>4, SettingStep, AppStep, ListedStep DEF Answer
<1>5. ASSUME Stop \/ Clear \/ Drained \/ Stopped
      PROVE  IInv'
  BY <1>5, StopStep, ClearStep
<1>6. CASE Tick
  BY <1>6, TickStep
<1>7. CASE UNCHANGED vars
  BY <1>7 DEF vars, sessionVars, IInv, TypeOK, Begun, OwnTools
<1> QED BY <1>1, <1>2, <1>3, <1>4, <1>5, <1>6, <1>7 DEF Next

THEOREM InductiveInvariant == Spec => []IInv
<1>1. Init => IInv
  BY InitialInvariant
<1>2. IInv /\ [Next]_vars => IInv'
  BY InvariantStep
<1> QED BY <1>1, <1>2, PTL DEF Spec

-----------------------------------------------------------------------------
(* The chain of closing calls. *)

\* A server nothing is being done about: open or closed, with all that goes with it.
Settled(s) ==
  /\ transport[s] = "closed" <=> s \in closed
  /\ s \in closed => s \notin sessions /\ Untracked(registry, s)
  /\ s \notin deleting

Pending(cs, k, f) == \E i \in 1..k : cs[i][1] = f

\* The first k calls are about one server: how far its closing has got.
Stage(cs, k) ==
  LET s == cs[1][2]
      f == cs[1][1]
  IN  /\ \A i \in 2..k : /\ cs[i][1] \in {"deleteSession", "deleted"}
                         /\ cs[i][1] = "deleted" => i = 2 /\ f \in {"transport.close", "onclose"}
      /\ f \in {"deleteSession", "deleted"} => k <= 2
      /\ s \in deleting <=> Pending(cs, k, "deleted")
      /\ s \in deleting => s \notin sessions
      /\ s \notin closed =>
           /\ k <= 2 /\ ~Pending(cs, k, "deleted")
           /\ \/ f = "transport.close" /\ transport[s] = "open"
              \/ f = "onclose" /\ transport[s] = "closed"
      /\ s \in closed =>
           /\ transport[s] = "closed"
           /\ f # "release" => Untracked(registry, s)
           /\ s \in sessions => Pending(cs, k, "deleteSession")

\* The calls after the first k are those that stop has still to make: of each server
\* that it closes one, or two in a row.
Waiting(cs, k) ==
  /\ \A i \in k+1..Len(cs) :
       /\ cs[i][1] \in {"transport.close", "deleteSession"}
       /\ transport[cs[i][2]] = "open"
       /\ cs[i][1] = "deleteSession" => i > k + 1 /\ cs[i - 1] = <<"transport.close", cs[i][2]>>
       /\ k > 0 => cs[i][2] # cs[1][2]
  /\ \A i, j \in k+1..Len(cs) :
       i < j /\ cs[i][2] = cs[j][2] => j = i + 1 /\ cs[j][1] = "deleteSession"

Bracketed(cs, k) ==
  /\ k \in 0..Len(cs) /\ k <= 3
  /\ \A i \in 1..k : cs[i][2] = cs[1][2]
  /\ \A s \in Server : (k > 0 /\ s = cs[1][2]) \/ Settled(s)
  /\ k > 0 => Stage(cs, k)
  /\ Waiting(cs, k)

\* The books on named transports, and what the shutdown is owed.
Named ==
  /\ sessions \subseteq named
  /\ \A s \in named : transport[s] # "none" /\ (s \in sessions \/ s \in closed)
Owed ==
  /\ phase \in {"closing", "stopped"} =>
       \A s \in sessions : \E i \in DOMAIN calls : calls[i][2] = s
  /\ phase = "stopped" => calls = <<>>

BInv == IInv /\ Named /\ Owed /\ \E k \in 0..3 : Bracketed(calls, k)

\* What a call makes of the chain.
Spliced(cs, made, new) ==
  /\ Len(new) = Len(made) + Len(cs) - 1
  /\ \A i \in 1..Len(made) : new[i] = made[i]
  /\ \A i \in Len(made) + 1..Len(new) : new[i] = cs[i - Len(made) + 1]

LEMMA Splices ==
  ASSUME calls \in Chain, calls # <<>>, NEW made \in Chain, Return(made)
  PROVE  /\ Spliced(calls, made, calls') /\ calls' \in Chain
         /\ Len(calls') \in Nat /\ Len(made) \in Nat /\ Len(calls) \in Nat \ {0}
<1>1. /\ Tail(calls) \in Chain /\ Len(Tail(calls)) = Len(calls) - 1
      /\ \A i \in 1..Len(Tail(calls)) : Tail(calls)[i] = calls[i + 1]
      /\ Len(calls) \in Nat \ {0} /\ Len(made) \in Nat
  BY HeadTailProperties, EmptySeq DEF Chain
<1>2. /\ calls' \in Chain /\ Len(calls') = Len(made) + Len(Tail(calls))
      /\ \A i \in 1..Len(made) + Len(Tail(calls)) :
           calls'[i] = IF i <= Len(made) THEN made[i] ELSE Tail(calls)[i - Len(made)]
  BY <1>1, ConcatProperties DEF Chain, Return
<1>3. \A i \in 1..Len(made) : calls'[i] = made[i]
  BY <1>1, <1>2
<1>4. \A i \in Len(made) + 1..Len(calls') : calls'[i] = calls[i - Len(made) + 1]
  <2> SUFFICES ASSUME NEW i \in Len(made) + 1..Len(calls')
               PROVE  calls'[i] = calls[i - Len(made) + 1]
    OBVIOUS
  <2>1. i - Len(made) \in 1..Len(Tail(calls)) /\ i \in 1..Len(made) + Len(Tail(calls)) /\ ~(i <= Len(made))
    BY <1>1, <1>2
  <2>2. calls'[i] = Tail(calls)[i - Len(made)]
    BY <1>2, <2>1
  <2> QED BY <1>1, <2>1, <2>2
<1> QED BY <1>1, <1>2, <1>3, <1>4 DEF Spliced

\* A chain that is running is always about the server of its first call.
LEMMA Brackets ==
  ASSUME calls \in Chain, calls # <<>>, NEW j \in 0..3, Bracketed(calls, j)
  PROVE  \E k \in 1..3 : Bracketed(calls, k)
<1>0. Len(calls) \in Nat \ {0} /\ \A i \in 1..Len(calls) : calls[i] \in Step \X Server
  BY EmptySeq, ElementOfSeq DEF Chain
<1>1. CASE j > 0
  BY <1>1
<1>2. CASE j = 0
  <2>1. /\ calls[1][1] = "transport.close" /\ transport[calls[1][2]] = "open"
        /\ calls[1][2] \in Server /\ Settled(calls[1][2])
    BY <1>0, <1>2 DEF Bracketed, Waiting
  <2>2. CASE Len(calls) > 1 /\ calls[2] = <<"deleteSession", calls[1][2]>>
    <3>1. Stage(calls, 2)
      BY <1>0, <2>1, <2>2 DEF Stage, Settled, Pending
    <3>2. Waiting(calls, 2)
      <4>1. \A i \in 3..Len(calls) : calls[i][2] # calls[1][2]
        BY <1>0, <1>2 DEF Bracketed, Waiting
      <4>2. \A i \in 3..Len(calls) : calls[i][1] = "deleteSession" => i > 3
        BY <1>0, <1>2, <2>2, <4>1 DEF Bracketed, Waiting
      <4> QED BY <1>0, <1>2, <4>1, <4>2 DEF Bracketed, Waiting
    <3>3. Bracketed(calls, 2)
      BY <1>0, <1>2, <2>2, <3>1, <3>2 DEF Bracketed
    <3> QED BY <3>3
  <2>3. CASE ~(Len(calls) > 1 /\ calls[2] = <<"deleteSession", calls[1][2]>>)
    <3>1. Stage(calls, 1)
      BY <1>0, <2>1 DEF Stage, Settled, Pending
    <3>2. Waiting(calls, 1)
      <4>1. \A i \in 2..Len(calls) : calls[i][2] # calls[1][2]
        <5> SUFFICES ASSUME NEW i \in 2..Len(calls), calls[i][2] = calls[1][2]
                     PROVE  FALSE
          OBVIOUS
        <5>1. i = 2 /\ calls[2][1] = "deleteSession"
          BY <1>0, <1>2 DEF Bracketed, Waiting
        <5>2. calls[2] \in Step \X Server /\ Len(calls) > 1
          BY <1>0, <5>1
        <5> QED BY <2>3, <5>1, <5>2
      <4>2. \A i \in 2..Len(calls) : calls[i][1] = "deleteSession" => i > 2
        BY <1>0, <1>2, <4>1 DEF Bracketed, Waiting
      <4> QED BY <1>0, <1>2, <4>1, <4>2 DEF Bracketed, Waiting
    <3>3. Bracketed(calls, 1)
      BY <1>0, <1>2, <3>1, <3>2 DEF Bracketed
    <3> QED BY <3>3
  <2> QED BY <2>2, <2>3
<1> QED BY <1>1, <1>2

\* The others, while the server s is being closed.
Apart(s) ==
  \A x \in Server : x # s =>
    /\ transport'[x] = transport[x]
    /\ x \in closed' <=> x \in closed
    /\ x \in sessions' <=> x \in sessions
    /\ x \in deleting' <=> x \in deleting
    /\ Untracked(registry, x) => Untracked(registry', x)

LEMMA Places ==
  ASSUME NEW n \in Nat, NEW k \in Nat, k >= 1, NEW len \in Nat, NEW len2 \in Nat,
         len2 = n + len - 1, NEW m \in Nat, m = k - 1 + n, NEW i \in m + 1..len2
  PROVE  i - n + 1 \in k + 1..len /\ i \in n + 1..len2
OBVIOUS

LEMMA InFront ==
  ASSUME NEW n \in Nat, NEW k \in Nat, NEW m \in Nat, m = k - 1 + n,
         NEW len \in Nat, m <= len, NEW i \in n + 1..m
  PROVE  i \in n + 1..len /\ i - n + 1 \in 1..k
OBVIOUS

About(made, s) == \A i \in 1..Len(made) : made[i][2] = s

\* The first m calls of the new chain are what was made and what of the first calls
\* is left, all about one server.
Follows(cs, made, new, m, s) ==
  /\ m <= Len(new) /\ \A i \in 1..m : new[i][2] = s
  /\ \A i \in 1..Len(made) : new[i] = made[i]
  /\ \A i \in Len(made) + 1..m : new[i] = cs[i - Len(made) + 1]

OthersSettled(s) == \A x \in Server : x # s => Settled(x)

LEMMA Shifts ==
  ASSUME calls \in Chain, Len(calls) \in Nat, NEW k \in 1..3, Bracketed(calls, k),
         NEW made \in Chain, Len(made) \in Nat,
         NEW s \in Server, s = calls[1][2], About(made, s),
         Spliced(calls, made, calls'), Len(calls') \in Nat, Apart(s),
         NEW m \in 0..3, m = k - 1 + Len(made)
  PROVE  Follows(calls, made, calls', m, s) /\ OthersSettled(s)' /\ Waiting(calls, m)'
<1> DEFINE n == Len(made)
<1>0. /\ k <= Len(calls) /\ \A i \in 1..k : calls[i][2] = s
      /\ \A x \in Server : x # s => Settled(x)
      /\ Waiting(calls, k) /\ n \in Nat
  BY DEF Bracketed
<1>1. /\ Len(calls') = n + Len(calls) - 1
      /\ \A i \in 1..n : calls'[i] = made[i]
      /\ \A i \in n + 1..Len(calls') : calls'[i] = calls[i - n + 1]
  BY DEF Spliced
<1>a. \A i \in 1..n : made[i][2] = s
  BY DEF About
<1> HIDE DEF n
<1>2. m <= Len(calls') /\ m = k - 1 + n
  BY <1>0, <1>1 DEF n
<1>l. /\ Len(calls') = n + Len(calls) - 1 /\ n \in Nat /\ m = k - 1 + n /\ k \in Nat
      /\ m \in Nat /\ k >= 1
  BY <1>0, <1>1, <1>2
<1>p. /\ n \in Nat /\ m \in Nat /\ m = k - 1 + n /\ m <= Len(calls') /\ Len(calls') \in Nat
      /\ k \in Nat
  BY <1>l, <1>2
<1>3. \A i \in n + 1..m : calls'[i] = calls[i - n + 1] /\ calls'[i][2] = s
  <2> SUFFICES ASSUME NEW i \in n + 1..m
               PROVE  calls'[i] = calls[i - n + 1] /\ calls'[i][2] = s
    OBVIOUS
  <2>1. i \in n + 1..Len(calls') /\ i - n + 1 \in 1..k
    BY <1>p, InFront
  <2> QED BY <1>0, <1>1, <2>1
<1>4. \A i \in 1..m : calls'[i][2] = s
  <2> SUFFICES ASSUME NEW i \in 1..m
               PROVE  calls'[i][2] = s
    OBVIOUS
  <2>1. CASE i <= n
    <3>1. i \in 1..n
      BY <1>0, <2>1
    <3>2. calls'[i] = made[i]
      BY <1>1, <3>1
    <3>3. made[i][2] = s
      BY <1>a, <3>1
    <3> QED BY <3>2, <3>3
  <2>2. CASE i > n
    <3>1. i \in n + 1..m
      BY <1>0, <2>2
    <3> QED BY <1>3, <3>1
  <2> QED BY <1>0, <2>1, <2>2
<1>5. \A x \in Server : x # s => Settled(x)'
  BY <1>0 DEF Apart, Settled
<1>w. \A h \in k + 1..Len(calls) : calls[h][2] # s /\ calls[h][2] \in Server
  <2> SUFFICES ASSUME NEW h \in k + 1..Len(calls)
               PROVE  calls[h][2] # s /\ calls[h][2] \in Server
    OBVIOUS
  <2>1. h \in 1..Len(calls)
    OBVIOUS
  <2>2. calls[h] \in Step \X Server
    BY <2>1, ElementOfSeq DEF Chain
  <2>3. calls[h][2] \in Server
    BY <2>2
  <2>4. k > 0 => calls[h][2] # calls[1][2]
    BY <1>0 DEF Waiting
  <2> QED BY <2>3, <2>4
<1>6. ASSUME NEW i \in m + 1..Len(calls')
      PROVE  /\ i - n + 1 \in k + 1..Len(calls) /\ calls'[i] = calls[i - n + 1]
             /\ calls'[i][2] \in Server /\ calls'[i][2] # s
  <2>1. i - n + 1 \in k + 1..Len(calls) /\ i \in n + 1..Len(calls')
    BY <1>l, Places
  <2>2. calls[i - n + 1][2] # s /\ calls[i - n + 1][2] \in Server
    BY <1>w, <2>1
  <2> QED BY <1>1, <2>1, <2>2
<1>7. Waiting(calls, m)'
  <2>1. ASSUME NEW i \in m + 1..Len(calls')
        PROVE  /\ calls'[i][1] \in {"transport.close", "deleteSession"}
               /\ transport'[calls'[i][2]] = "open"
               /\ m > 0 => calls'[i][2] # calls'[1][2]
               /\ calls'[i][1] = "deleteSession" =>
                    i > m + 1 /\ calls'[i - 1] = <<"transport.close", calls'[i][2]>>
    <3> DEFINE h == i - n + 1
    <3>1. h \in k + 1..Len(calls) /\ calls'[i] = calls[h] /\ calls[h][2] \in Server /\ calls[h][2] # s
      BY <1>6
    <3>2. /\ calls[h][1] \in {"transport.close", "deleteSession"}
          /\ transport[calls[h][2]] = "open"
          /\ calls[h][1] = "deleteSession" =>
               h > k + 1 /\ calls[h - 1] = <<"transport.close", calls[h][2]>>
      BY <1>0, <3>1 DEF Waiting
    <3>3. transport'[calls[h][2]] = "open"
      BY <3>1, <3>2 DEF Apart
    <3>4. m > 0 => calls'[1][2] = s
      BY <1>4
    <3>5. h > k + 1 => i > m + 1 /\ calls'[i - 1] = calls[h - 1]
      <4> SUFFICES ASSUME h > k + 1
                   PROVE  i > m + 1 /\ calls'[i - 1] = calls[h - 1]
        OBVIOUS
      <4>1. i > m + 1 /\ i - 1 \in m + 1..Len(calls') /\ (i - 1) - n + 1 = h - 1
        BY <1>0, <1>1, <1>2
      <4> QED BY <1>6, <4>1
    <3> QED BY <3>1, <3>2, <3>3, <3>4, <3>5
  <2>2. ASSUME NEW i \in m + 1..Len(calls'), NEW j \in m + 1..Len(calls'),
               i < j, calls'[i][2] = calls'[j][2]
        PROVE  j = i + 1 /\ calls'[j][1] = "deleteSession"
    <3>1. /\ i - n + 1 \in k + 1..Len(calls) /\ calls'[i] = calls[i - n + 1]
          /\ j - n + 1 \in k + 1..Len(calls) /\ calls'[j] = calls[j - n + 1]
      BY <1>6
    <3>2. i - n + 1 < j - n + 1
      BY <1>0, <2>2
    <3>3. j - n + 1 = (i - n + 1) + 1 /\ calls[j - n + 1][1] = "deleteSession"
      BY <1>0, <2>2, <3>1, <3>2 DEF Waiting
    <3> QED BY <1>0, <3>1, <3>3
  <2> QED BY <2>1, <2>2 DEF Waiting
<1> QED BY <1>1, <1>2, <1>3, <1>4, <1>5, <1>7 DEF n, Follows, OthersSettled

\* The chain after a call.
LEMMA Moves ==
  ASSUME NEW s \in Server, NEW m \in 0..3, m <= Len(calls'), Len(calls') \in Nat,
         \A i \in 1..m : calls'[i][2] = s,
         \A x \in Server : x # s => Settled(x)',
         Waiting(calls, m)', m > 0 => Stage(calls, m)', m = 0 => Settled(s)'
  PROVE  \E k \in 0..3 : Bracketed(calls, k)'
<1>1. \A x \in Server : (m > 0 /\ x = calls'[1][2]) \/ Settled(x)'
  <2>1. m > 0 => calls'[1][2] = s
    OBVIOUS
  <2> QED BY <2>1
<1>2. \A i \in 1..m : calls'[i][2] = calls'[1][2]
  OBVIOUS
<1>3. Bracketed(calls, m)'
  BY <1>1, <1>2 DEF Bracketed
<1> QED BY <1>3

\* The calls that a call of the chain makes: none, one or two.
LEMMA Short ==
  ASSUME NEW a \in Step \X Server, NEW b \in Step \X Server
  PROVE  /\ <<>> \in Chain /\ Len(<<>>) = 0
         /\ <<a>> \in Chain /\ Len(<<a>>) = 1 /\ <<a>>[1] = a
         /\ <<a, b>> \in Chain /\ Len(<<a, b>>) = 2 /\ <<a, b>>[1] = a /\ <<a, b>>[2] = b
         /\ <<a>> \o <<>> = <<a>> /\ <<>> \o <<a>> = <<a>>
         /\ <<a>> \o <<b>> = <<a, b>>
<1>1. <<>> \in Chain /\ <<a>> \in Chain /\ <<a, b>> \in Chain
  BY DEF Chain
<1>2. Len(<<>>) = 0 /\ Len(<<a>>) = 1 /\ Len(<<a, b>>) = 2
  OBVIOUS
<1>3. <<a>>[1] = a /\ <<a, b>>[1] = a /\ <<a, b>>[2] = b
  OBVIOUS
<1>4. <<a>> \o <<>> = <<a>> /\ <<>> \o <<a>> = <<a>>
  BY <1>1, ConcatEmptySeq DEF Chain
<1>5. <<a>> \o <<b>> = <<a, b>>
  <2>1. <<b>> \in Chain /\ Len(<<b>>) = 1 /\ <<b>>[1] = b
    BY DEF Chain
  <2>2. /\ <<a>> \o <<b>> \in Chain /\ Len(<<a>> \o <<b>>) = 2
        /\ (<<a>> \o <<b>>)[1] = a /\ (<<a>> \o <<b>>)[2] = b
    BY <1>1, <1>2, <1>3, <2>1, ConcatProperties DEF Chain
  <2>3. \A i \in 1..2 : (<<a>> \o <<b>>)[i] = <<a, b>>[i]
    <3>1. \A i \in 1..2 : i = 1 \/ i = 2
      OBVIOUS
    <3> QED BY <1>3, <2>2, <3>1
  <2> QED BY <1>1, <1>2, <2>2, <2>3, SeqEqual DEF Chain
<1> QED BY <1>1, <1>2, <1>3, <1>4, <1>5

LEMMA Running ==
  ASSUME BInv, NEW s \in Server, NEW f, Call(f, s)
  PROVE  /\ calls \in Chain /\ Len(calls) \in Nat /\ calls # <<>>
         /\ calls[1] = <<f, s>> /\ calls[1][1] = f /\ calls[1][2] = s
         /\ \E k \in 1..3 : Bracketed(calls, k) /\ Stage(calls, k)
<1>1. calls \in Chain /\ Len(calls) \in Nat /\ calls # <<>>
  BY EmptySeq DEF BInv, IInv, TypeOK, Chain, Step, Call
<1>2. calls[1] = <<f, s>>
  BY <1>1 DEF Call, Chain
<1>3. \E k \in 1..3 : Bracketed(calls, k)
  BY <1>1, Brackets DEF BInv
<1>4. \A k \in 1..3 : Bracketed(calls, k) => Stage(calls, k)
  BY DEF Bracketed
<1> QED BY <1>1, <1>2, <1>3, <1>4

\* What a call splices into the chain, as the first m calls of the next one.
LEMMA Runs ==
  ASSUME BInv, NEW s \in Server, NEW f, Call(f, s), Apart(s),
         NEW k \in 1..3, Bracketed(calls, k), NEW made \in Chain, Return(made),
         NEW n \in 0..2, Len(made) = n, \A i \in 1..n : made[i][2] = s,
         NEW m \in 0..3, m = k - 1 + n
  PROVE  /\ \A i \in 1..n : calls'[i] = made[i]
         /\ \A i \in n + 1..m : calls'[i] = calls[i - n + 1]
         /\ (m > 0 => Stage(calls, m)') /\ (m = 0 => Settled(s)')
              => \E j \in 0..3 : Bracketed(calls, j)'
         /\ m > 0 => calls'[1][2] = s
<1>1. /\ calls \in Chain /\ Len(calls) \in Nat /\ calls # <<>> /\ calls[1][2] = s
  BY Running
<1>2. Spliced(calls, made, calls') /\ Len(calls') \in Nat
  BY <1>1, Splices
<1>h. Len(made) \in Nat /\ m = k - 1 + Len(made) /\ About(made, s)
  BY DEF About
<1>f. Follows(calls, made, calls', m, s) /\ OthersSettled(s)' /\ Waiting(calls, m)'
  BY <1>1, <1>2, <1>h, Shifts
<1>3. /\ m <= Len(calls') /\ \A i \in 1..m : calls'[i][2] = s
      /\ \A i \in 1..Len(made) : calls'[i] = made[i]
      /\ \A i \in Len(made) + 1..m : calls'[i] = calls[i - Len(made) + 1]
      /\ \A x \in Server : x # s => Settled(x)'
      /\ Waiting(calls, m)'
  BY <1>f DEF Follows, OthersSettled
<1>4. (m > 0 => Stage(calls, m)') /\ (m = 0 => Settled(s)')
        => \E j \in 0..3 : Bracketed(calls, j)'
  BY <1>2, <1>3, Moves
<1> QED BY <1>3, <1>4

LEMMA TransportCloseBooks ==
  ASSUME BInv, NEW s \in Server, TransportClose(s)
  PROVE  \E j \in 0..3 : Bracketed(calls, j)'
<1>1. /\ Call("transport.close", s) /\ Return(<<<<"onclose", s>>>>)
      /\ transport' = [transport EXCEPT ![s] = "closed"]
      /\ UNCHANGED <<registry, closed, sessions, deleting>>
      /\ transport \in [Server -> {"none", "open", "closed"}]
  BY DEF TransportClose, BInv, IInv, TypeOK
<1>2. transport'[s] = "closed" /\ Apart(s)
  BY <1>1 DEF Apart, Untracked
<1>3. PICK k \in 1..3 : Bracketed(calls, k) /\ Stage(calls, k)
  BY <1>1, Running
<1>4. calls[1][1] = "transport.close" /\ calls[1][2] = s
  BY <1>1, Running
<1> DEFINE made == <<<<"onclose", s>>>>
<1>5. /\ made \in Chain /\ Len(made) = 1 /\ \A i \in 1..1 : made[i][2] = s
      /\ made[1] = <<"onclose", s>>
  <2>1. <<"onclose", s>> \in Step \X Server
    BY DEF Step
  <2>2. made \in Chain /\ Len(made) = 1 /\ made[1] = <<"onclose", s>>
    BY <2>1, Short
  <2> HIDE DEF made
  <2> QED BY <2>2
<1>6. Return(made)
  BY <1>1
<1> HIDE DEF made
<1>7. /\ calls'[1] = <<"onclose", s>> /\ \A i \in 2..k : calls'[i] = calls[i]
      /\ Stage(calls, k)' => \E j \in 0..3 : Bracketed(calls, j)'
  <2>1. 1 \in 0..2 /\ k \in 0..3 /\ k = k - 1 + 1
    OBVIOUS
  <2>2. /\ \A i \in 1..1 : calls'[i] = made[i]
        /\ \A i \in 1 + 1..k : calls'[i] = calls[i - 1 + 1]
        /\ (k > 0 => Stage(calls, k)') /\ (k = 0 => Settled(s)')
             => \E j \in 0..3 : Bracketed(calls, j)'
    BY <1>1, <1>2, <1>3, <1>5, <1>6, <2>1, Runs
  <2> QED BY <1>5, <2>2
<1>8. Stage(calls, k)'
  BY <1>1, <1>2, <1>3, <1>4, <1>7 DEF Stage, Pending, Untracked
<1> QED BY <1>7, <1>8

LEMMA ReleaseBooks ==
  ASSUME BInv, NEW s \in Server, Release(s)
  PROVE  \E j \in 0..3 : Bracketed(calls, j)'
<1>1. /\ Call("release", s) /\ Return(<<<<"transport.close", s>>>>)
      /\ registry' = Untrack(registry, s) /\ registry \in Registry
      /\ UNCHANGED <<transport, closed, sessions, deleting>>
  BY DEF Release, BInv, IInv, TypeOK, sessionVars
<1>2. Untracked(registry', s) /\ Apart(s)
  <2>1. /\ registry'.at = registry.at
        /\ \A t \in Present(registry) : StateOf(registry', t).servers = StateOf(registry, t).servers \ {s}
    BY <1>1, Untracks
  <2>2. Present(registry') = Present(registry)
    BY <2>1 DEF Present
  <2>3. \A x \in Server : Untracked(registry, x) => Untracked(registry', x)
    BY <2>1, <2>2 DEF Untracked, TenantsWith
  <2>4. Untracked(registry', s)
    BY <2>1, <2>2 DEF Untracked, TenantsWith
  <2> QED BY <1>1, <2>3, <2>4 DEF Apart
<1>3. PICK k \in 1..3 : Bracketed(calls, k) /\ Stage(calls, k)
  BY <1>1, Running
<1>4. calls[1][1] = "release" /\ calls[1][2] = s
  BY <1>1, Running
<1> DEFINE made == <<<<"transport.close", s>>>>
<1>5. /\ made \in Chain /\ Len(made) = 1 /\ \A i \in 1..1 : made[i][2] = s
      /\ made[1] = <<"transport.close", s>>
  <2>1. <<"transport.close", s>> \in Step \X Server
    BY DEF Step
  <2>2. made \in Chain /\ Len(made) = 1 /\ made[1] = <<"transport.close", s>>
    BY <2>1, Short
  <2> HIDE DEF made
  <2> QED BY <2>2
<1>6. Return(made)
  BY <1>1
<1> HIDE DEF made
<1>7. /\ calls'[1] = <<"transport.close", s>> /\ \A i \in 2..k : calls'[i] = calls[i]
      /\ Stage(calls, k)' => \E j \in 0..3 : Bracketed(calls, j)'
  <2>1. 1 \in 0..2 /\ k \in 0..3 /\ k = k - 1 + 1
    OBVIOUS
  <2>2. /\ \A i \in 1..1 : calls'[i] = made[i]
        /\ \A i \in 1 + 1..k : calls'[i] = calls[i - 1 + 1]
        /\ (k > 0 => Stage(calls, k)') /\ (k = 0 => Settled(s)')
             => \E j \in 0..3 : Bracketed(calls, j)'
    BY <1>1, <1>2, <1>3, <1>5, <1>6, <2>1, Runs
  <2> QED BY <1>5, <2>2
<1>8. Stage(calls, k)'
  BY <1>1, <1>2, <1>3, <1>4, <1>7 DEF Stage, Pending
<1> QED BY <1>7, <1>8

\* A call that makes no other: the chain goes on with what is left to do for the
\* server, or with the next.
LEMMA NoneMade ==
  ASSUME BInv, NEW s \in Server, NEW f, Call(f, s), Apart(s), Return(<<>>),
         NEW k \in 1..3, Bracketed(calls, k)
  PROVE  /\ \A i \in 1..k - 1 : calls'[i] = calls[i + 1]
         /\ (k > 1 => Stage(calls, k - 1)') /\ (k = 1 => Settled(s)')
              => \E j \in 0..3 : Bracketed(calls, j)'
         /\ k > 1 => calls'[1][2] = s
<1> DEFINE m == k - 1
<1>1. m \in 0..3 /\ m = k - 1 + 0 /\ 0 \in 0..2 /\ (m > 0 <=> k > 1) /\ (m = 0 <=> k = 1)
  OBVIOUS
<1>2. <<>> \in Chain /\ Len(<<>>) = 0 /\ \A i \in 1..0 : <<>>[i][2] = s
  BY EmptySeq DEF Chain
<1> HIDE DEF m
<1>3. /\ \A i \in 0 + 1..m : calls'[i] = calls[i - 0 + 1]
      /\ (m > 0 => Stage(calls, m)') /\ (m = 0 => Settled(s)')
           => \E j \in 0..3 : Bracketed(calls, j)'
      /\ m > 0 => calls'[1][2] = s
  BY <1>1, <1>2, Runs
<1>4. \A i \in 1..m : calls'[i] = calls[i + 1]
  BY <1>1, <1>3
<1>5. \A i \in 1..k - 1 : calls'[i] = calls[i + 1]
  BY <1>4 DEF m
<1>6. Stage(calls, m)' <=> Stage(calls, k - 1)'
  BY DEF m
<1> QED BY <1>1, <1>3, <1>5, <1>6

LEMMA DeletedBooks ==
  ASSUME BInv, NEW s \in Server, Deleted(s)
  PROVE  \E j \in 0..3 : Bracketed(calls, j)'
<1>1. /\ Call("deleted", s) /\ Return(<<>>) /\ deleting' = deleting \ {s}
      /\ UNCHANGED <<registry, transport, closed, sessions>>
  BY DEF Deleted
<1>2. Apart(s)
  BY <1>1 DEF Apart, Untracked
<1>3. PICK k \in 1..3 : Bracketed(calls, k) /\ Stage(calls, k)
  BY <1>1, Running
<1>4. calls[1][1] = "deleted" /\ calls[1][2] = s
  BY <1>1, Running
<1>5. /\ \A i \in 1..k - 1 : calls'[i] = calls[i + 1]
      /\ (k > 1 => Stage(calls, k - 1)') /\ (k = 1 => Settled(s)')
           => \E j \in 0..3 : Bracketed(calls, j)'
      /\ k > 1 => calls'[1][2] = s
  BY <1>1, <1>2, <1>3, NoneMade
<1>6. /\ k <= 2 /\ s \in deleting /\ s \notin sessions /\ s \in closed
      /\ transport[s] = "closed" /\ Untracked(registry, s)
      /\ \A i \in 2..k : calls[i][1] = "deleteSession"
  BY <1>3, <1>4 DEF Stage, Pending
<1>7. k > 1 => Stage(calls, k - 1)'
  <2> SUFFICES ASSUME k > 1
               PROVE  Stage(calls, 1)'
    BY <1>6
  <2>1. calls'[1][1] = "deleteSession" /\ calls'[1][2] = s
    BY <1>5, <1>6
  <2> QED BY <1>1, <1>6, <2>1 DEF Stage, Pending, Untracked
<1>8. Settled(s)'
  BY <1>1, <1>6 DEF Settled, Untracked
<1> QED BY <1>5, <1>7, <1>8

LEMMA OnCloseBooks ==
  ASSUME BInv, NEW s \in Server, OnClose(s)
  PROVE  \E j \in 0..3 : Bracketed(calls, j)'
<1>1. /\ Call("onclose", s) /\ UNCHANGED <<registry, transport, named, sessions, deleting>>
  BY DEF OnClose
<1>2. PICK k \in 1..3 : Bracketed(calls, k) /\ Stage(calls, k)
  BY <1>1, Running
<1>3. calls[1][1] = "onclose" /\ calls[1][2] = s
  BY <1>1, Running
<1>4. CASE s \in closed
  <2>1. Return(<<>>) /\ closed' = closed
    BY <1>4 DEF OnClose
  <2>2. Apart(s)
    BY <1>1, <2>1 DEF Apart, Untracked
  <2>3. /\ \A i \in 1..k - 1 : calls'[i] = calls[i + 1]
        /\ (k > 1 => Stage(calls, k - 1)') /\ (k = 1 => Settled(s)')
             => \E j \in 0..3 : Bracketed(calls, j)'
        /\ k > 1 => calls'[1][2] = s
    BY <1>1, <1>2, <2>1, <2>2, NoneMade
  <2>4. /\ transport[s] = "closed" /\ Untracked(registry, s)
        /\ s \in sessions => Pending(calls, k, "deleteSession")
        /\ s \in deleting <=> Pending(calls, k, "deleted")
        /\ s \in deleting => s \notin sessions
        /\ \A i \in 2..k : /\ calls[i][1] \in {"deleteSession", "deleted"}
                           /\ calls[i][1] = "deleted" => i = 2
    BY <1>2, <1>3, <1>4 DEF Stage
  <2>5. k = 1 => Settled(s)'
    <3>1. k = 1 => s \notin sessions /\ s \notin deleting
      BY <1>3, <2>4 DEF Pending
    <3> QED BY <1>1, <1>4, <2>1, <2>4, <3>1 DEF Settled, Untracked
  <2>6. k > 1 => Stage(calls, k - 1)'
    <3> SUFFICES ASSUME k > 1
                 PROVE  Stage(calls, k - 1)'
      OBVIOUS
    <3>1. \A f : f # "onclose" => (Pending(calls, k, f) <=> Pending(calls, k - 1, f)')
      <4> SUFFICES ASSUME NEW f, f # "onclose"
                   PROVE  Pending(calls, k, f) <=> Pending(calls, k - 1, f)'
        OBVIOUS
      <4>1. ASSUME NEW i \in 1..k, calls[i][1] = f
            PROVE  \E j \in 1..k - 1 : calls'[j][1] = f
        <5>1. i # 1
          BY <1>3, <4>1
        <5>2. i - 1 \in 1..k - 1 /\ (i - 1) + 1 = i
          BY <5>1
        <5> QED BY <2>3, <4>1, <5>2
      <4>2. ASSUME NEW j \in 1..k - 1, calls'[j][1] = f
            PROVE  \E i \in 1..k : calls[i][1] = f
        <5>1. j + 1 \in 1..k
          OBVIOUS
        <5> QED BY <2>3, <4>2, <5>1
      <4> QED BY <4>1, <4>2 DEF Pending
    <3>2. \A i \in 2..k - 1 : calls'[i][1] = "deleteSession"
      <4> SUFFICES ASSUME NEW i \in 2..k - 1
                   PROVE  calls'[i][1] = "deleteSession"
        OBVIOUS
      <4>1. i + 1 \in 2..k /\ i + 1 # 2 /\ i \in 1..k - 1
        OBVIOUS
      <4> QED BY <2>3, <2>4, <4>1
    <3>3. calls'[1][1] \in {"deleteSession", "deleted"} /\ calls'[1][2] = s
      <4>1. 1 \in 1..k - 1 /\ 2 \in 2..k
        OBVIOUS
      <4> QED BY <2>3, <2>4, <4>1
    <3>4. k - 1 <= 2
      OBVIOUS
    <3>5. s \in closed'
      BY <1>4, <2>1
    <3> QED BY <1>1, <2>1, <2>4, <3>1, <3>2, <3>3, <3>4, <3>5 DEF Stage, Untracked
  <2> QED BY <2>3, <2>5, <2>6
<1>5. CASE s \notin closed
  <2>1. /\ closed' = closed \cup {s}
        /\ Return(<<<<"release", s>>>> \o IF s \in named THEN <<<<"deleteSession", s>>>> ELSE <<>>)
    BY <1>5 DEF OnClose
  <2>2. Apart(s)
    BY <1>1, <2>1 DEF Apart, Untracked
  <2>3. /\ k <= 2 /\ transport[s] = "closed" /\ s \notin deleting
        /\ \A i \in 2..k : calls[i][1] = "deleteSession"
    BY <1>2, <1>3, <1>5 DEF Stage, Pending
  <2>4. <<"release", s>> \in Step \X Server /\ <<"deleteSession", s>> \in Step \X Server
    BY DEF Step
  <2>5. CASE s \in named
    <3> DEFINE made == <<<<"release", s>>, <<"deleteSession", s>>>>
               m == k + 1
    <3>1. /\ made \in Chain /\ Len(made) = 2
          /\ made[1] = <<"release", s>> /\ made[2] = <<"deleteSession", s>> /\ Return(made)
      BY <2>1, <2>4, <2>5, Short
    <3> HIDE DEF made
    <3>2. \A i \in 1..2 : made[i][2] = s
      BY <3>1
    <3>3. m \in 0..3 /\ m = k - 1 + 2 /\ 2 \in 0..2 /\ m > 0 /\ m <= 3 /\ m >= 2
      BY <2>3
    <3> HIDE DEF m
    <3>4. /\ \A i \in 1..2 : calls'[i] = made[i]
          /\ \A i \in 2 + 1..m : calls'[i] = calls[i - 2 + 1]
          /\ (m > 0 => Stage(calls, m)') /\ (m = 0 => Settled(s)')
               => \E j \in 0..3 : Bracketed(calls, j)'
      BY <1>1, <1>2, <2>2, <3>1, <3>2, <3>3, Runs
    <3>5. calls'[1] = <<"release", s>> /\ calls'[2] = <<"deleteSession", s>>
      BY <3>1, <3>4
    <3>6. \A i \in 2..m : calls'[i][1] = "deleteSession"
      <4> SUFFICES ASSUME NEW i \in 2..m
                   PROVE  calls'[i][1] = "deleteSession"
        OBVIOUS
      <4>1. CASE i = 2
        BY <3>5, <4>1
      <4>2. CASE i # 2
        <5>1. i - 2 + 1 \in 2..k /\ i \in 2 + 1..m
          BY <3>3, <4>2
        <5> QED BY <2>3, <3>4, <5>1
      <4> QED BY <4>1, <4>2
    <3>7. ~Pending(calls, m, "deleted")' /\ Pending(calls, m, "deleteSession")'
      BY <3>3, <3>5, <3>6 DEF Pending
    <3>8. Stage(calls, m)'
      BY <1>1, <2>1, <2>3, <3>5, <3>6, <3>7 DEF Stage
    <3> QED BY <3>3, <3>4, <3>8
  <2>6. CASE s \notin named
    <3> DEFINE made == <<<<"release", s>>>>
    <3>1. /\ made \in Chain /\ Len(made) = 1 /\ made[1] = <<"release", s>> /\ Return(made)
      BY <2>1, <2>4, <2>6, Short
    <3> HIDE DEF made
    <3>2. \A i \in 1..1 : made[i][2] = s
      BY <3>1
    <3>3. k \in 0..3 /\ k = k - 1 + 1 /\ 1 \in 0..2
      OBVIOUS
    <3>4. /\ \A i \in 1..1 : calls'[i] = made[i]
          /\ \A i \in 1 + 1..k : calls'[i] = calls[i - 1 + 1]
          /\ (k > 0 => Stage(calls, k)') /\ (k = 0 => Settled(s)')
               => \E j \in 0..3 : Bracketed(calls, j)'
      BY <1>1, <1>2, <2>2, <3>1, <3>2, <3>3, Runs
    <3>5. calls'[1] = <<"release", s>> /\ \A i \in 2..k : calls'[i][1] = "deleteSession"
      BY <2>3, <3>1, <3>4
    <3>6. s \notin sessions
      BY <2>6 DEF BInv, Named
    <3>7. ~Pending(calls, k, "deleted")'
      BY <3>5 DEF Pending
    <3>8. Stage(calls, k)'
      BY <1>1, <2>1, <2>3, <3>5, <3>6, <3>7 DEF Stage
    <3> QED BY <3>4, <3>8
  <2> QED BY <2>5, <2>6
<1> QED BY <1>4, <1>5

LEMMA DeleteSessionBooks ==
  ASSUME BInv, NEW s \in Server, DeleteSession(s)
  PROVE  \E j \in 0..3 : Bracketed(calls, j)'
<1>1. Call("deleteSession", s) /\ UNCHANGED <<registry, transport, closed>>
  BY DEF DeleteSession
<1>2. PICK k \in 1..3 : Bracketed(calls, k) /\ Stage(calls, k)
  BY <1>1, Running
<1>3. calls[1][1] = "deleteSession" /\ calls[1][2] = s
  BY <1>1, Running
<1>4. /\ k <= 2 /\ s \notin deleting /\ s \in closed
      /\ transport[s] = "closed" /\ Untracked(registry, s)
      /\ \A i \in 2..k : calls[i][1] = "deleteSession"
  BY <1>2, <1>3 DEF Stage, Pending
<1>5. /\ deleting' = deleting \cup {s} /\ sessions' = sessions \ {s}
      /\ Return((IF s \in sessions THEN <<<<"transport.close", s>>>> ELSE <<>>) \o <<<<"deleted", s>>>>)
  BY <1>4 DEF DeleteSession
<1>6. Apart(s)
  BY <1>1, <1>5 DEF Apart, Untracked
<1>7. <<"transport.close", s>> \in Step \X Server /\ <<"deleted", s>> \in Step \X Server
  BY DEF Step
<1>8. CASE s \in sessions
  <2> DEFINE made == <<<<"transport.close", s>>, <<"deleted", s>>>>
             m == k + 1
  <2>1. /\ made \in Chain /\ Len(made) = 2
        /\ made[1] = <<"transport.close", s>> /\ made[2] = <<"deleted", s>> /\ Return(made)
    BY <1>5, <1>7, <1>8, Short
  <2> HIDE DEF made
  <2>2. \A i \in 1..2 : made[i][2] = s
    BY <2>1
  <2>3. m \in 0..3 /\ m = k - 1 + 2 /\ 2 \in 0..2 /\ m > 0 /\ m >= 2
    BY <1>4
  <2> HIDE DEF m
  <2>4. /\ \A i \in 1..2 : calls'[i] = made[i]
        /\ \A i \in 2 + 1..m : calls'[i] = calls[i - 2 + 1]
        /\ (m > 0 => Stage(calls, m)') /\ (m = 0 => Settled(s)')
             => \E j \in 0..3 : Bracketed(calls, j)'
    BY <1>1, <1>2, <1>6, <2>1, <2>2, <2>3, Runs
  <2>5. calls'[1] = <<"transport.close", s>> /\ calls'[2] = <<"deleted", s>>
    BY <2>1, <2>4
  <2>6. \A i \in 3..m : calls'[i][1] = "deleteSession"
    <3> SUFFICES ASSUME NEW i \in 3..m
                 PROVE  calls'[i][1] = "deleteSession"
      OBVIOUS
    <3>1. i - 2 + 1 \in 2..k /\ i \in 2 + 1..m
      BY <2>3
    <3> QED BY <1>4, <2>4, <3>1
  <2>7. Pending(calls, m, "deleted")'
    BY <2>3, <2>5 DEF Pending
  <2>8. \A i \in 2..m : i = 2 \/ i \in 3..m
    BY <2>3
  <2>9. Stage(calls, m)'
    BY <1>1, <1>4, <1>5, <2>5, <2>6, <2>7, <2>8 DEF Stage, Untracked
  <2> QED BY <2>3, <2>4, <2>9
<1>9. CASE s \notin sessions
  <2> DEFINE made == <<<<"deleted", s>>>>
  <2>1. /\ made \in Chain /\ Len(made) = 1 /\ made[1] = <<"deleted", s>> /\ Return(made)
    BY <1>5, <1>7, <1>9, Short
  <2> HIDE DEF made
  <2>2. \A i \in 1..1 : made[i][2] = s
    BY <2>1
  <2>3. k \in 0..3 /\ k = k - 1 + 1 /\ 1 \in 0..2
    OBVIOUS
  <2>4. /\ \A i \in 1..1 : calls'[i] = made[i]
        /\ \A i \in 1 + 1..k : calls'[i] = calls[i - 1 + 1]
        /\ (k > 0 => Stage(calls, k)') /\ (k = 0 => Settled(s)')
             => \E j \in 0..3 : Bracketed(calls, j)'
    BY <1>1, <1>2, <1>6, <2>1, <2>2, <2>3, Runs
  <2>5. calls'[1] = <<"deleted", s>> /\ \A i \in 2..k : calls'[i][1] = "deleteSession"
    BY <1>4, <2>1, <2>4
  <2>6. Pending(calls, k, "deleted")'
    BY <2>5 DEF Pending
  <2>7. Stage(calls, k)'
    BY <1>1, <1>4, <1>5, <2>5, <2>6 DEF Stage, Untracked
  <2> QED BY <2>4, <2>7
<1> QED BY <1>8, <1>9

\* What stop is owed stays owed while a chain runs: a server leaves the chain closed.
LEMMA OwedStill ==
  ASSUME BInv, NEW s \in Server, NEW f, Call(f, s), NEW made \in Chain, Return(made),
         s \in closed' \/ (made # <<>> /\ made[1][2] = s),
         sessions' \subseteq sessions, phase' = phase, \E j \in 0..3 : Bracketed(calls, j)'
  PROVE  Owed'
<1>1. /\ calls \in Chain /\ calls # <<>> /\ calls[1][2] = s /\ phase # "stopped"
  BY Running DEF BInv, Owed
<1>2. /\ Spliced(calls, made, calls') /\ Len(calls') \in Nat /\ Len(made) \in Nat
      /\ Len(calls) \in Nat \ {0} /\ calls' \in Chain
  BY <1>1, Splices
<1>3. ASSUME phase = "closing", NEW x \in sessions'
      PROVE  \E i \in DOMAIN calls' : calls'[i][2] = x
  <2> SUFFICES ASSUME \A i \in DOMAIN calls' : calls'[i][2] # x
               PROVE  FALSE
    OBVIOUS
  <2>0. /\ DOMAIN calls' = 1..Len(calls') /\ DOMAIN calls = 1..Len(calls) /\ DOMAIN made = 1..Len(made)
        /\ x \in Server /\ x \in sessions
    BY <1>1, <1>2, LenProperties DEF Chain, BInv, IInv, TypeOK
  <2>1. PICK i \in 1..Len(calls) : calls[i][2] = x
    BY <1>3, <2>0 DEF BInv, Owed
  <2>2. CASE i = 1
    <3>1. x = s
      BY <1>1, <2>1, <2>2
    <3>2. CASE made # <<>> /\ made[1][2] = s
      <4>1. Len(made) \in Nat \ {0}
        BY <3>2, EmptySeq DEF Chain
      <4>2. calls'[1] = made[1] /\ 1 \in 1..Len(calls')
        BY <1>2, <4>1 DEF Spliced
      <4> QED BY <2>0, <3>1, <3>2, <4>2
    <3>3. CASE s \in closed'
      <4>1. PICK j \in 0..3 : Bracketed(calls, j)'
        OBVIOUS
      <4>2. j > 0 => calls'[1][2] # s
        BY <1>2, <2>0, <3>1, <4>1 DEF Bracketed
      <4>3. Settled(s)'
        BY <4>1, <4>2 DEF Bracketed
      <4> QED BY <1>3, <3>1, <3>3, <4>3 DEF Settled
    <3> QED BY <3>2, <3>3
  <2>3. CASE i # 1
    <3> DEFINE h == i + Len(made) - 1
    <3>1. h \in Len(made) + 1..Len(calls') /\ h - Len(made) + 1 = i /\ h \in 1..Len(calls')
      BY <1>2, <2>1, <2>3 DEF Spliced
    <3> HIDE DEF h
    <3>2. calls'[h] = calls[i]
      BY <1>2, <3>1 DEF Spliced
    <3> QED BY <2>0, <2>1, <3>1, <3>2
  <2> QED BY <2>2, <2>3
<1> QED BY <1>1, <1>3 DEF Owed, BInv, IInv, TypeOK

LEMMA ClosingBooks ==
  ASSUME BInv, NEW s \in Server, Closing(s)
  PROVE  BInv'
<1>1. IInv'
  BY ClosingStep, ReleaseStep DEF Closing, BInv
<1>2. \E j \in 0..3 : Bracketed(calls, j)'
  BY TransportCloseBooks, OnCloseBooks, ReleaseBooks, DeleteSessionBooks, DeletedBooks DEF Closing
<1>3. Named /\ sessions \subseteq named /\ transport \in [Server -> {"none", "open", "closed"}]
  BY DEF BInv, Named, IInv, TypeOK
<1>4. \A a, b \in Chain : a \o b \in Chain
  BY DEF Chain
<1>5. ASSUME NEW f, NEW made, Call(f, s), Return(made), made \in Chain,
             s \in closed' \/ (made # <<>> /\ made[1][2] = s),
             sessions' \subseteq sessions, phase' = phase
      PROVE  Owed'
  BY <1>2, <1>5, OwedStill
<1>6. CASE TransportClose(s)
  <2>1. Named'
    BY <1>3, <1>6 DEF TransportClose, Named
  <2>2. <<<<"onclose", s>>>> \in Chain /\ <<<<"onclose", s>>>> # <<>> /\ <<<<"onclose", s>>>>[1][2] = s
    BY Links
  <2>3. Owed'
    BY <1>5, <1>6, <2>2 DEF TransportClose
  <2> QED BY <1>1, <1>2, <2>1, <2>3 DEF BInv
<1>7. CASE OnClose(s)
  <2>1. Named' /\ s \in closed'
    BY <1>3, <1>7 DEF OnClose, Named
  <2>2. <<>> \in Chain /\ <<<<"release", s>>>> \in Chain /\ <<<<"release", s>>>> \o <<<<"deleteSession", s>>>> \in Chain
        /\ <<<<"release", s>>>> \o <<>> \in Chain
    BY <1>4, Links
  <2>3. \E made \in Chain : Return(made)
    BY <1>7, <2>2 DEF OnClose
  <2>4. Owed'
    BY <1>5, <1>7, <2>1, <2>3 DEF OnClose
  <2> QED BY <1>1, <1>2, <2>1, <2>4 DEF BInv
<1>8. CASE Release(s)
  <2>1. Named'
    BY <1>3, <1>8 DEF Release, Named, sessionVars
  <2>2. <<<<"transport.close", s>>>> \in Chain /\ <<<<"transport.close", s>>>> # <<>>
        /\ <<<<"transport.close", s>>>>[1][2] = s
    BY Links
  <2>3. Owed'
    BY <1>5, <1>8, <2>2 DEF Release, sessionVars
  <2> QED BY <1>1, <1>2, <2>1, <2>3 DEF BInv
<1>9. CASE DeleteSession(s)
  <2>1. s \in closed
    BY <1>9, Running DEF DeleteSession, Stage
  <2>2. Named'
    BY <1>3, <1>9, <2>1 DEF DeleteSession, Named
  <2>3. <<>> \in Chain /\ <<<<"deleted", s>>>> \in Chain
        /\ <<<<"transport.close", s>>>> \o <<<<"deleted", s>>>> \in Chain
        /\ <<>> \o <<<<"deleted", s>>>> \in Chain
    BY <1>4, Links
  <2>4. \E made \in Chain : Return(made)
    BY <1>9, <2>3 DEF DeleteSession
  <2>5. Owed'
    BY <1>5, <1>9, <2>1, <2>4 DEF DeleteSession
  <2> QED BY <1>1, <1>2, <2>2, <2>5 DEF BInv
<1>10. CASE Deleted(s)
  <2>1. s \in closed
    <3>1. \E k \in 1..3 : Stage(calls, k) /\ calls[1][1] = "deleted" /\ calls[1][2] = s
      BY <1>10, Running DEF Deleted
    <3> QED BY <3>1 DEF Stage
  <2>2. Named'
    BY <1>3, <1>10 DEF Deleted, Named
  <2>3. Owed'
    BY <1>5, <1>10, <2>1, Links DEF Deleted
  <2> QED BY <1>1, <1>2, <2>2, <2>3 DEF BInv
<1> QED BY <1>6, <1>7, <1>8, <1>9, <1>10 DEF Closing

\* An object becomes st, which tracks the same servers.
LEMMA ChangeForgets ==
  ASSUME NEW reg \in Registry, NEW new, NEW o \in Object, NEW st, Changes(reg, new, o, st),
         st.servers = reg.of[o].servers
  PROVE  Forgets(reg, new)
<1>1. new.at = reg.at /\ \A x \in Object : new.of[x].servers = reg.of[x].servers
  BY DEF Changes
<1>2. Present(new) = Present(reg) /\ \A u \in Present(reg) : reg.at[u] \in Object
  BY <1>1, PresentObjects DEF Present
<1> QED BY <1>1, <1>2, Forgetting DEF StateOf

LEMMA AdvanceForgets ==
  ASSUME registry \in Registry, NEW o \in Object, NEW st \in TenantState, Advance(o, st),
         st.servers = registry.of[o].servers
  PROVE  Forgets(registry, registry')
<1> DEFINE verdicts == NextPreparer(st, probe[o].at + 1, probe[o].since) = 0 /\ AllVerdicts(st)
           done == [st EXCEPT !.complete = verdicts]
           mid == [registry EXCEPT !.of[o] = done]
<1>1. registry' = Collected(mid, Busy(probe'))
  BY DEF Advance, Busy
<1>2. verdicts \in BOOLEAN
  BY DEF AllVerdicts
<1> HIDE DEF verdicts
<1>3. done \in TenantState /\ done.servers = st.servers
  BY <1>2, CompleteStates
<1> HIDE DEF done
<1>4. Changes(registry, mid, o, done) /\ mid \in Registry
  BY <1>3, Replaced DEF Changes
<1> HIDE DEF mid
<1>5. Forgets(registry, mid)
  BY <1>3, <1>4, ChangeForgets
<1>6. Busy(probe') \in SUBSET Object
  BY DEF Busy
<1>7. Forgets(mid, registry')
  BY <1>1, <1>4, <1>6, CollectForgets
<1> QED BY <1>5, <1>7 DEF Forgets

LEMMA AnswerForgets ==
  ASSUME IInv, NEW o \in Object, Answer(o)
  PROVE  Forgets(registry, registry')
<1>1. o \in Probing
  BY DEF Answer, SettingAnswered, AppAnswered, ServerListed
<1>2. /\ registry \in Registry /\ registry.of[o] \in TenantState /\ Current(o) \in Preparer
      /\ probe[o] \in Probe /\ probe[o].tenant \in Tenant /\ now + Cooldown \in Nat
      /\ Published \in Preparer
  BY <1>1, ProbeFacts, SessionsAssumption
<1>3. Forgets(registry, registry)
  BY DEF Forgets
<1>4. CASE SettingAnswered(o)
  <2>1. Current(o) \in Setting
    BY <1>4 DEF SettingAnswered
  <2> DEFINE tool == Discovered(o, Current(o))
             no == Verdict(registry.of[o], Current(o), "no")
             with == WithTool(registry.of[o], tool)
             yes == Verdict(with, Current(o), "yes")
  <2>2. Advance(o, no) \/ Advance(o, yes)
    BY <1>4 DEF SettingAnswered
  <2>3. tool \in Tool
    BY <1>2, <2>1 DEF Discovered, Tool
  <2>4. no \in TenantState /\ no.servers = registry.of[o].servers
    BY <1>2, VerdictStates
  <2>5. with \in TenantState /\ with.servers = registry.of[o].servers
    BY <1>2, <2>3, ToolStates
  <2> HIDE DEF with, no
  <2>6. yes \in TenantState /\ yes.servers = registry.of[o].servers
    BY <1>2, <2>5, VerdictStates
  <2> HIDE DEF yes
  <2> QED BY <1>2, <2>2, <2>4, <2>6, AdvanceForgets
<1>5. CASE AppAnswered(o)
  <2> DEFINE no == Verdict(registry.of[o], Published, "no")
             cool == [registry.of[o] EXCEPT !.cooldown[Published] = now + Cooldown]
  <2>1. Advance(o, no) \/ Advance(o, cool) \/ registry' = registry
    BY <1>5 DEF AppAnswered
  <2>2. no \in TenantState /\ no.servers = registry.of[o].servers
    BY <1>2, VerdictStates
  <2>3. cool \in TenantState /\ cool.servers = registry.of[o].servers
    BY <1>2, CoolingStates
  <2> HIDE DEF no, cool
  <2> QED BY <1>2, <1>3, <2>1, <2>2, <2>3, AdvanceForgets
<1>6. CASE ServerListed(o)
  <2>1. PICK code \in probe[o].left, ok \in BOOLEAN :
          LET tool == Discovered(o, code)
              st == IF ok THEN WithTool(registry.of[o], tool) ELSE registry.of[o]
              found == probe[o].found \/ ok
          IN IF probe[o].left = {code}
             THEN Advance(o, Verdict(st, Published, IF found THEN "yes" ELSE "no"))
             ELSE registry' = [registry EXCEPT !.of[o] = st]
    BY <1>6 DEF ServerListed
  <2> DEFINE tool == Discovered(o, code)
             st == IF ok THEN WithTool(registry.of[o], tool) ELSE registry.of[o]
             verdict == IF probe[o].found \/ ok THEN "yes" ELSE "no"
             over == Verdict(st, Published, verdict)
  <2>2. tool \in Tool
    BY <1>2 DEF Discovered, Tool, Probe
  <2>3. WithTool(registry.of[o], tool) \in TenantState /\ WithTool(registry.of[o], tool).servers = registry.of[o].servers
    BY <1>2, <2>2, ToolStates
  <2>4. st \in TenantState /\ st.servers = registry.of[o].servers
    BY <1>2, <2>3
  <2>5. Advance(o, over) \/ registry' = [registry EXCEPT !.of[o] = st]
    BY <2>1
  <2>6. verdict \in {"yes", "no"}
    OBVIOUS
  <2> HIDE DEF st, verdict
  <2>7. over \in TenantState /\ over.servers = registry.of[o].servers
    BY <1>2, <2>4, <2>6, VerdictStates
  <2> HIDE DEF over
  <2>8. Changes(registry, [registry EXCEPT !.of[o] = st], o, st)
    BY <1>2, <2>4, Replaced
  <2> QED BY <1>2, <2>4, <2>5, <2>7, <2>8, AdvanceForgets, ChangeForgets
<1> QED BY <1>4, <1>5, <1>6 DEF Answer

\* Between chains every server is settled.
LEMMA Quiet ==
  ASSUME BInv, calls = <<>>
  PROVE  /\ \A s \in Server : Settled(s)
         /\ phase \in {"closing", "stopped"} => sessions = {}
<1>1. PICK k \in 0..3 : Bracketed(calls, k)
  BY DEF BInv
<1>2. k = 0
  BY <1>1, EmptySeq DEF Bracketed
<1>3. \A s \in Server : Settled(s)
  BY <1>1, <1>2 DEF Bracketed
<1>4. DOMAIN calls = {}
  OBVIOUS
<1>5. phase \in {"closing", "stopped"} => sessions = {}
  BY <1>4 DEF BInv, Owed
<1> QED BY <1>3, <1>5

\* A step between chains.
LEMMA QuietStep ==
  ASSUME BInv, IInv', calls = <<>>, calls' = <<>>, \A s \in Server : Settled(s)', Named',
         phase' \in {"closing", "stopped"} => sessions' = {}
  PROVE  BInv'
<1>1. Len(calls') = 0
  BY EmptySeq
<1>2. Bracketed(calls, 0)'
  BY <1>1 DEF Bracketed, Waiting
<1>3. Owed'
  BY DEF Owed
<1>4. \E k \in 0..3 : Bracketed(calls, k)'
  BY <1>2
<1> QED BY <1>3, <1>4 DEF BInv

\* The books are left alone.
LEMMA StillStep ==
  ASSUME BInv, IInv', calls = <<>>, UNCHANGED <<transport, closed, named, sessions, deleting, calls>>,
         Forgets(registry, registry'),
         phase' \in {"closing", "stopped"} => phase \in {"closing", "stopped"}
  PROVE  BInv'
<1>1. \A s \in Server : Settled(s)'
  BY Quiet DEF Settled, Forgets
<1>2. Named'
  BY DEF BInv, Named
<1>3. phase' \in {"closing", "stopped"} => sessions' = {}
  BY Quiet
<1> QED BY <1>1, <1>2, <1>3, QuietStep

LEMMA InitializeBooks ==
  ASSUME BInv, NEW s \in Server, NEW t \in Tenant, PostInitialize(s, t)
  PROVE  BInv'
<1>1. /\ calls = <<>> /\ phase \in {"up", "draining"} /\ transport[s] = "none"
      /\ transport' = [transport EXCEPT ![s] = "open"]
      /\ \/ named' = named \cup {s} /\ sessions' = sessions \cup {s}
         \/ UNCHANGED <<named, sessions>>
      /\ UNCHANGED <<now, closed, stream, deleting, calls, phase>>
  BY DEF PostInitialize, Free
<1>2. IInv /\ transport \in [Server -> {"none", "open", "closed"}] /\ Named
  BY DEF BInv, IInv, TypeOK
<1>3. IInv' /\ \A x \in Server : x # s /\ Untracked(registry, x) => Untracked(registry', x)
  BY <1>2, InitializeStep, Initializes
<1>4. /\ transport'[s] = "open"
      /\ \A x \in Server : x # s => transport'[x] = transport[x]
  BY <1>1, <1>2
<1>5. Settled(s)'
  BY <1>1, <1>4, Quiet DEF Settled
<1>6. ASSUME NEW x \in Server, x # s
      PROVE  Settled(x)'
  BY <1>1, <1>3, <1>4, <1>6, Quiet DEF Settled
<1>7. Named'
  <2>1. named \subseteq Server
    BY DEF BInv, IInv, TypeOK
  <2> QED BY <1>1, <1>2, <1>4, <2>1 DEF Named
<1>8. phase' \notin {"closing", "stopped"}
  BY <1>1
<1>9. \A x \in Server : Settled(x)'
  BY <1>5, <1>6
<1> QED BY <1>1, <1>3, <1>7, <1>8, <1>9, QuietStep

LEMMA CallBooks ==
  ASSUME BInv, NEW s \in Server, NEW t \in Tenant, PostCall(s, t) \/ DescribeEntity(s, t)
  PROVE  BInv'
<1> DEFINE new == GetState(registry, t, now, Probing)
           o == Found(registry, t, Probing)
<1>1. /\ UNCHANGED <<now, sessionVars, calls, phase>> /\ CanGet(registry, t, Probing)
      /\ calls = <<>>
  BY DEF PostCall, DescribeEntity, Free
<1>2. IInv /\ IInv' /\ registry \in Registry
  BY CallStep DEF BInv, IInv, TypeOK
<1>3. /\ Got(registry, new, t, now, Busy(probe), o)
      /\ Kept(new, probe, home, transport, listed)
      /\ Belongs(new, probe, home, transport, o, t)
  BY <1>1, <1>2, Lookup
<1>4. Ensure(new, o, t) \/ registry' = Collected(new, Busy(probe))
  BY DEF PostCall, DescribeEntity, Probing, Busy
<1> HIDE DEF new, o
<1>5. o \in Object /\ new \in Registry /\ Bounded(new, now)
  BY <1>3 DEF Got
<1>6. Forgets(registry, new)
  BY <1>2, <1>3, GotForgets
<1>7. Forgets(new, registry')
  <2>1. Busy(probe) \in SUBSET Object
    BY DEF Busy
  <2> QED BY <1>2, <1>3, <1>4, <1>5, <2>1, EnsureForgets, CollectForgets
<1>8. Forgets(registry, registry')
  BY <1>6, <1>7 DEF Forgets
<1> QED BY <1>1, <1>2, <1>8, StillStep DEF sessionVars

LEMMA AnswerBooks ==
  ASSUME BInv, NEW o \in Object, Answer(o)
  PROVE  BInv'
<1>1. IInv /\ IInv' /\ Forgets(registry, registry')
  BY SettingStep, AppStep, ListedStep, AnswerForgets DEF Answer, BInv
<1>2. calls = <<>> /\ UNCHANGED <<transport, closed, named, sessions, deleting, calls, phase>>
  BY DEF Answer, SettingAnswered, AppAnswered, ServerListed, sessionVars
<1> QED BY <1>1, <1>2, StillStep

\* Steps of the streams, of the clock, and of stop between its chains.
LEMMA StillBooks ==
  ASSUME BInv,
         \/ \E s \in Server : OpenStream(s) \/ EndStream(s)
         \/ Clear \/ Stopped \/ Tick
  PROVE  BInv'
<1>1. IInv /\ IInv' /\ registry \in Registry
  BY StreamStep, ClearStep, StopStep, TickStep DEF BInv, IInv, TypeOK
<1>2. /\ calls = <<>> /\ UNCHANGED <<transport, closed, named, sessions, deleting, calls>>
      /\ phase' \in {"closing", "stopped"} => phase \in {"closing", "stopped"}
  BY DEF OpenStream, EndStream, Clear, Stopped, Tick, Free, sessionVars
<1>3. Forgets(registry, registry')
  <2>1. CASE registry' = registry
    BY <2>1 DEF Forgets
  <2>2. CASE Clear
    <3> DEFINE none == Drop(registry, Tenant)
    <3>1. none \in Registry /\ \A t \in Tenant : none.at[t] = None
      BY <1>1, Drops
    <3>2. registry' = Collected(none, Probing) /\ Probing \in SUBSET Object
      BY <2>2 DEF Clear, Cleared, Probing
    <3> HIDE DEF none
    <3>3. Forgets(registry, none)
      BY <3>1, Forgetting DEF Present
    <3> QED BY <3>1, <3>2, <3>3, CollectForgets DEF Forgets
  <2> QED BY <2>1, <2>2 DEF OpenStream, EndStream, Stopped, Tick
<1> QED BY <1>1, <1>2, <1>3, StillStep

\* A chain starts: nothing else changes.
LEMMA Starts ==
  ASSUME BInv, IInv', calls = <<>>, UNCHANGED <<registry, transport, closed, named, sessions, deleting>>,
         Len(calls') \in Nat, Waiting(calls, 0)', Owed'
  PROVE  BInv'
<1>1. \A s \in Server : Settled(s)'
  BY Quiet DEF Settled, Untracked
<1>2. Bracketed(calls, 0)'
  BY <1>1 DEF Bracketed
<1>3. Named'
  BY DEF BInv, Named
<1>4. \E k \in 0..3 : Bracketed(calls, k)'
  BY <1>2
<1> QED BY <1>3, <1>4 DEF BInv

LEMMA DeleteBooks ==
  ASSUME BInv, NEW s \in Server, Delete(s)
  PROVE  BInv'
<1>1. /\ calls = <<>> /\ phase \in {"up", "draining"} /\ s \in sessions
      /\ calls' = <<<<"transport.close", s>>>>
      /\ UNCHANGED <<now, registry, probe, sessionVars, phase>>
  BY DEF Delete, Free
<1>2. IInv /\ IInv'
  BY StreamStep DEF BInv
<1>3. transport[s] = "open"
  <2>1. transport[s] \in {"none", "open", "closed"} /\ transport[s] # "none"
    BY <1>1 DEF BInv, IInv, TypeOK, Named
  <2>2. Settled(s)
    BY <1>1, Quiet
  <2> QED BY <1>1, <2>1, <2>2 DEF Settled
<1>4. Len(calls') = 1 /\ calls'[1] = <<"transport.close", s>>
  <2>1. <<"transport.close", s>> \in Step \X Server
    BY DEF Step
  <2> QED BY <1>1, <2>1, Short
<1>5. Waiting(calls, 0)'
  BY <1>1, <1>3, <1>4 DEF Waiting, sessionVars
<1>6. Owed'
  BY <1>1 DEF Owed
<1> QED BY <1>1, <1>2, <1>4, <1>5, <1>6, Starts DEF sessionVars

LEMMA StopBooks ==
  ASSUME BInv, Stop
  PROVE  BInv'
<1>1. calls = <<>> /\ phase' = "stopping" /\ UNCHANGED <<now, registry, probe, sessionVars>>
  BY DEF Stop
<1>2. IInv /\ IInv'
  BY StopStep DEF BInv
<1> DEFINE S == AllServers(registry)
           n == Cardinality(S)
<1>3. PICK q \in Ordered(S) : calls' = [i \in DOMAIN q |-> <<"transport.close", q[i]>>]
  BY DEF Stop
<1>4. S \in SUBSET Server /\ IsFiniteSet(S)
  <2>1. IsFiniteSet(Begun) /\ Begun \subseteq Server
    BY <1>2 DEF IInv, Begun
  <2> QED BY <1>2, <2>1, AllServersBegun, FS_Subset
<1>5. ASSUME NEW s \in S
      PROVE  transport[s] = "open"
  <2>1. s \in Server /\ ~Untracked(registry, s)
    BY <1>4 DEF AllServers, Untracked, TenantsWith
  <2>2. transport[s] # "none" /\ transport[s] \in {"none", "open", "closed"}
    BY <1>2, <2>1, AllServersBegun DEF Begun, IInv, TypeOK
  <2>3. Settled(s)
    BY <1>1, <2>1, Quiet
  <2> QED BY <2>1, <2>2, <2>3 DEF Settled
<1>6. /\ DOMAIN q = 1..n /\ n \in Nat /\ \A i \in 1..n : q[i] \in S
      /\ \A i, j \in 1..n : i # j => q[i] # q[j]
  BY <1>4, Orders DEF Ordered
<1> HIDE DEF n, S
<1>7. /\ Len(calls') = n
      /\ \A i \in 1..n : calls'[i] = <<"transport.close", q[i]>>
  BY <1>3, <1>6
<1>8. Waiting(calls, 0)'
  <2>1. \A i \in 1..n : /\ calls'[i][1] = "transport.close" /\ calls'[i][2] = q[i]
                        /\ transport'[q[i]] = "open"
    BY <1>1, <1>5, <1>6, <1>7 DEF sessionVars
  <2>2. ASSUME NEW i \in 1..n, NEW j \in 1..n, i < j
        PROVE  calls'[i][2] # calls'[j][2]
    BY <1>6, <2>1, <2>2
  <2> QED BY <1>6, <1>7, <2>1, <2>2 DEF Waiting
<1>9. Owed'
  BY <1>1 DEF Owed
<1> QED BY <1>1, <1>2, <1>6, <1>7, <1>8, <1>9, Starts DEF sessionVars

\* Halves of the calls of stop's second round: two to a session, one after the other.
LEMMA Halves ==
  ASSUME NEW n \in Nat, NEW i \in 1..(2 * n)
  PROVE  /\ (i + 1) \div 2 \in 1..n /\ i % 2 \in {0, 1}
         /\ i % 2 = 1 => 2 * ((i + 1) \div 2) = i + 1
         /\ i % 2 = 0 => 2 * ((i + 1) \div 2) = i /\ i > 1
         /\ i % 2 = 0 => (i - 1) % 2 = 1 /\ ((i - 1) + 1) \div 2 = (i + 1) \div 2
OBVIOUS

LEMMA DrainedBooks ==
  ASSUME BInv, Drained
  PROVE  BInv'
<1>1. calls = <<>> /\ phase' = "closing" /\ UNCHANGED <<now, registry, probe, sessionVars>>
  BY DEF Drained
<1>2. IInv /\ IInv'
  BY StopStep DEF BInv
<1> DEFINE n == Cardinality(sessions)
           half(i) == (i + 1) \div 2
<1>3. PICK q \in Ordered(sessions) :
        calls' = [i \in 1..(2 * Len(q)) |->
                    <<IF i % 2 = 1 THEN "transport.close" ELSE "deleteSession", q[(i + 1) \div 2]>>]
  BY DEF Drained
<1>4. sessions \in SUBSET Server /\ IsFiniteSet(sessions)
  <2>1. IsFiniteSet(Begun) /\ Begun \subseteq Server /\ sessions \subseteq Begun
    BY <1>2 DEF IInv, Begun
  <2> QED BY <2>1, FS_Subset
<1>5. ASSUME NEW s \in sessions
      PROVE  transport[s] = "open"
  <2>1. transport[s] # "none" /\ transport[s] \in {"none", "open", "closed"} /\ s \in Server
    BY <1>2, <1>4 DEF BInv, Named, IInv, TypeOK
  <2>2. Settled(s)
    BY <1>1, <2>1, Quiet
  <2> QED BY <2>1, <2>2 DEF Settled
<1>6. /\ Len(q) = n /\ DOMAIN q = 1..n /\ n \in Nat /\ \A i \in 1..n : q[i] \in sessions
      /\ \A i, j \in 1..n : i # j => q[i] # q[j]
      /\ q \in [1..n -> sessions]
  BY <1>4, Orders DEF Ordered
<1>7. \A s \in sessions : \E i \in 1..n : q[i] = s
  <2>1. q \in Injection(1..n, sessions)
    BY <1>6 DEF Injection, IsInjective
  <2>2. Cardinality(1..n) = n
    BY <1>6, FS_Interval
  <2>3. q \in Surjection(1..n, sessions)
    BY <1>4, <2>1, <2>2, FS_Injection
  <2> QED BY <2>3 DEF Surjection
<1> HIDE DEF n
<1>8. /\ Len(calls') = 2 * n /\ DOMAIN calls' = 1..(2 * n) /\ 2 * n \in Nat
      /\ \A i \in 1..(2 * n) :
           calls'[i] = <<IF i % 2 = 1 THEN "transport.close" ELSE "deleteSession", q[half(i)]>>
  BY <1>3, <1>6
<1>9. \A i \in 1..(2 * n) :
        /\ half(i) \in 1..n /\ i % 2 \in {0, 1}
        /\ i % 2 = 1 => 2 * half(i) = i + 1
        /\ i % 2 = 0 => 2 * half(i) = i /\ i > 1
        /\ i % 2 = 0 => (i - 1) % 2 = 1 /\ half(i - 1) = half(i)
  BY <1>6, Halves
<1> HIDE DEF half
<1>10. Waiting(calls, 0)'
  <2>1. ASSUME NEW i \in 1..(2 * n)
        PROVE  /\ calls'[i][1] \in {"transport.close", "deleteSession"}
               /\ transport'[calls'[i][2]] = "open"
               /\ calls'[i][1] = "deleteSession" =>
                    i > 1 /\ calls'[i - 1] = <<"transport.close", calls'[i][2]>>
    <3>1. calls'[i][2] = q[half(i)] /\ q[half(i)] \in sessions
      BY <1>6, <1>8, <1>9
    <3>2. calls'[i][1] = IF i % 2 = 1 THEN "transport.close" ELSE "deleteSession"
      BY <1>8
    <3>3. transport'[calls'[i][2]] = "open"
      BY <1>1, <1>5, <3>1 DEF sessionVars
    <3>4. i % 2 = 0 => i > 1 /\ calls'[i - 1] = <<"transport.close", calls'[i][2]>>
      <4> SUFFICES ASSUME i % 2 = 0
                   PROVE  i > 1 /\ calls'[i - 1] = <<"transport.close", calls'[i][2]>>
        OBVIOUS
      <4>1. i > 1 /\ (i - 1) % 2 = 1 /\ half(i - 1) = half(i)
        BY <1>9
      <4>2. i - 1 \in 1..(2 * n)
        BY <1>6, <4>1
      <4> QED BY <1>8, <3>1, <4>1, <4>2
    <3> QED BY <1>9, <3>2, <3>3, <3>4
  <2>2. ASSUME NEW i \in 1..(2 * n), NEW j \in 1..(2 * n), i < j, calls'[i][2] = calls'[j][2]
        PROVE  j = i + 1 /\ calls'[j][1] = "deleteSession"
    <3>1. q[half(i)] = q[half(j)] /\ half(i) \in 1..n /\ half(j) \in 1..n
      BY <1>8, <1>9, <2>2
    <3>2. half(i) = half(j)
      BY <1>6, <3>1
    <3>3. j = i + 1 /\ j % 2 = 0
      <4>1. (2 * half(i) = i + 1 \/ 2 * half(i) = i) /\ (2 * half(j) = j + 1 \/ 2 * half(j) = j)
        BY <1>9
      <4>2. j % 2 = 1 => 2 * half(j) = j + 1
        BY <1>9
      <4>3. j % 2 \in {0, 1} /\ half(i) \in Nat
        BY <1>9
      <4> QED BY <2>2, <3>2, <4>1, <4>2, <4>3
    <3> QED BY <1>8, <3>3
  <2> QED BY <1>8, <2>1, <2>2 DEF Waiting
<1>11. Owed'
  <2>1. ASSUME NEW s \in sessions
        PROVE  \E i \in DOMAIN calls' : calls'[i][2] = s
    <3>1. PICK i \in 1..n : q[i] = s
      BY <1>7
    <3>2. 2 * i \in 1..(2 * n) /\ half(2 * i) = i
      BY <1>6 DEF half
    <3>3. calls'[2 * i][2] = q[i]
      BY <1>8, <3>2
    <3> QED BY <1>8, <3>1, <3>2, <3>3
  <2> QED BY <1>1, <2>1 DEF Owed, sessionVars
<1> QED BY <1>1, <1>2, <1>8, <1>10, <1>11, Starts DEF sessionVars

LEMMA InitialBooks ==
  ASSUME Init
  PROVE  BInv
<1>1. IInv
  BY InitialInvariant
<1>2. /\ transport = [s \in Server |-> "none"] /\ calls = <<>> /\ phase = "up"
      /\ named = {} /\ closed = {} /\ sessions = {} /\ deleting = {}
  BY DEF Init
<1>3. Len(calls) = 0
  BY <1>2, EmptySeq
<1>4. Bracketed(calls, 0)
  BY <1>2, <1>3 DEF Bracketed, Waiting, Settled
<1>5. Named /\ Owed
  BY <1>2 DEF Named, Owed
<1> QED BY <1>1, <1>4, <1>5 DEF BInv

LEMMA BooksStep ==
  ASSUME BInv, [Next]_vars
  PROVE  BInv'
<1>1. ASSUME NEW s \in Server, NEW t \in Tenant,
             PostInitialize(s, t) \/ PostCall(s, t) \/ DescribeEntity(s, t)
      PROVE  BInv'
  BY <1>1, InitializeBooks, CallBooks
<1>2. ASSUME NEW s \in Server, OpenStream(s) \/ EndStream(s) \/ Delete(s)
      PROVE  BInv'
  BY <1>2, StillBooks, DeleteBooks
<1>3. ASSUME NEW s \in Server, Closing(s)
      PROVE  BInv'
  BY <1>3, ClosingBooks
<1>4. ASSUME NEW o \in Object, Answer(o)
      PROVE  BInv'
  BY <1>4, AnswerBooks
<1>5. ASSUME Stop \/ Clear \/ Drained \/ Stopped \/ Tick
      PROVE  BInv'
  BY <1>5, StopBooks, StillBooks, DrainedBooks
<1>6. ASSUME UNCHANGED vars
      PROVE  BInv'
  <2>1. IInv'
    BY <1>6, InvariantStep DEF BInv
  <2>2. UNCHANGED <<registry, transport, named, closed, sessions, deleting, calls, phase>>
    BY <1>6 DEF vars, sessionVars
  <2>3. Named' /\ Owed'
    BY <2>2 DEF BInv, Named, Owed
  <2>4. ASSUME NEW k \in 0..3, Bracketed(calls, k)
        PROVE  Bracketed(calls, k)'
    BY <2>2, <2>4 DEF Bracketed, Waiting, Stage, Pending, Settled, Untracked
  <2> QED BY <2>1, <2>3, <2>4 DEF BInv
<1> QED BY <1>1, <1>2, <1>3, <1>4, <1>5, <1>6 DEF Next

THEOREM BooksInvariant == Spec => []BInv
<1>1. Init => BInv
  BY InitialBooks
<1>2. BInv /\ [Next]_vars => BInv'
  BY BooksStep
<1> QED BY <1>1, <1>2, PTL DEF Spec

\* A server has no more calls in a bracketed chain than the bracket is long, or
\* than the two that stop makes of it.
LEMMA FewCalls ==
  ASSUME calls \in Chain, NEW k \in 0..3, Bracketed(calls, k), NEW s \in Server
  PROVE  Cardinality({i \in DOMAIN calls : calls[i][2] = s}) <= 3
<1> DEFINE I == {i \in DOMAIN calls : calls[i][2] = s}
<1>1. Len(calls) \in Nat /\ DOMAIN calls = 1..Len(calls)
  BY DEF Chain
<1>2. ASSUME NEW a \in Int, I \subseteq a..a + 2
      PROVE  Cardinality(I) <= 3
  <2>1. IsFiniteSet(a..a + 2) /\ Cardinality(a..a + 2) = 3
    <3>1. a + 2 \in Int /\ ~(a > a + 2) /\ (a + 2) - a + 1 = 3
      OBVIOUS
    <3>2. /\ IsFiniteSet(a..a + 2)
          /\ Cardinality(a..a + 2) = IF a > a + 2 THEN 0 ELSE (a + 2) - a + 1
      BY <3>1, FS_Interval, Zenon
    <3> QED BY <3>1, <3>2
  <2>2. Cardinality(I) <= Cardinality(a..a + 2)
    BY <1>2, <2>1, FS_Subset
  <2> QED BY <2>1, <2>2
<1>3. CASE k > 0 /\ s = calls[1][2]
  <2>1. \A i \in k+1..Len(calls) : calls[i][2] # s
    BY <1>3 DEF Bracketed, Waiting
  <2>2. I \subseteq 1..3
    BY <1>1, <2>1
  <2> QED BY <1>2, <2>2
<1>4. CASE ~(k > 0 /\ s = calls[1][2])
  <2>1. \A i \in 1..k : calls[i][2] # s
    BY <1>4 DEF Bracketed
  <2>2. \A i \in I : i \in k+1..Len(calls)
    BY <1>1, <2>1
  <2>3. \A i, j \in I : i < j => j = i + 1
    BY <2>2 DEF Bracketed, Waiting
  <2>4. CASE I = {}
    BY <2>4, FS_EmptySet
  <2>5. CASE I # {}
    <3>1. PICK i \in I : TRUE
      BY <2>5
    <3>2. i \in Int /\ \A j \in I : j \in Int
      BY <1>1
    <3>3. \A j \in I : j \in i - 1..(i - 1) + 2
      BY <2>3, <3>1, <3>2
    <3> QED BY <1>2, <3>2, <3>3
  <2> QED BY <2>4, <2>5
<1> QED BY <1>3, <1>4

-----------------------------------------------------------------------------
(* Theorems *)

\* Every variable keeps its type.
THEOREM TypeCorrect == Spec => []TypeOK
<1>1. IInv => TypeOK
  BY DEF IInv
<1> QED BY <1>1, InductiveInvariant, PTL

\* Sessions list the tools of the tenant they were opened for and no others,
\* whatever tenants their requests address and whenever objects are dropped and
\* reused: createSessionServer and the pushes of the registrars.
THEOREM ToolsOwn == Spec => []OwnTools
<1>1. IInv => OwnTools
  BY DEF IInv
<1> QED BY <1>1, InductiveInvariant, PTL

\* A tracked session lists exactly what its tenant's state holds: the copy made on
\* connect and the pushes on discovery leave no gap.
THEOREM ToolsStayInStep == Spec => []ToolsInStep
<1>1. IInv => ToolsInStep
  BY DEF IInv, Kept, InStep, ToolsInStep
<1> QED BY <1>1, InductiveInvariant, PTL

\* Between two steps the registry holds no more than maxTenants tenants, sessions
\* or not: what _prune is for.
THEOREM RegistryWithinCap == Spec => []Within(registry)
<1>1. IInv => Within(registry)
  BY DEF IInv, Bounded
<1> QED BY <1>1, InductiveInvariant, PTL

\* An initialize request leaves its session untracked only when as many tenants as
\* the registry holds at most have sessions: nothing else _prune does can take the
\* tenant away between the two getState calls of the request.
THEOREM UntrackedWhenFull == Spec => UntrackedOnlyWhenFull
<1> DEFINE Full(s) ==
      TenantsWith(registry', s) = {} =>
        Cardinality({t \in Present(registry) : StateOf(registry, t).servers # {}}) >= MaxTenants
<1>1. ASSUME IInv, [Next]_vars
      PROVE  \A s \in sessions' \ sessions : Full(s)
  <2> SUFFICES ASSUME NEW s \in sessions' \ sessions
               PROVE  Full(s)
    OBVIOUS
  <2>1. sessions' # sessions
    OBVIOUS
  <2>2. \E x \in Server, t \in Tenant : PostInitialize(x, t)
    <3>1. ASSUME NEW x \in Server, NEW t \in Tenant, PostCall(x, t) \/ DescribeEntity(x, t)
          PROVE  FALSE
      BY <2>1, <3>1 DEF PostCall, DescribeEntity, sessionVars
    <3>2. ASSUME NEW x \in Server, OpenStream(x) \/ EndStream(x) \/ Delete(x)
          PROVE  FALSE
      BY <2>1, <3>2 DEF OpenStream, EndStream, Delete, sessionVars
    <3>3. ASSUME NEW x \in Server, Closing(x)
          PROVE  FALSE
      <4>1. sessions' \subseteq sessions
        BY <3>3 DEF Closing, TransportClose, OnClose, Release, DeleteSession, Deleted, sessionVars
      <4> QED BY <4>1
    <3>4. ASSUME NEW o \in Object, Answer(o)
          PROVE  FALSE
      BY <2>1, <3>4 DEF Answer, SettingAnswered, AppAnswered, ServerListed, sessionVars
    <3>5. ~(Stop \/ Clear \/ Drained \/ Stopped \/ Tick)
      BY <2>1 DEF Stop, Clear, Drained, Stopped, Tick, sessionVars
    <3>6. ~UNCHANGED vars
      BY <2>1 DEF vars, sessionVars
    <3> QED BY <1>1, <3>1, <3>2, <3>3, <3>4, <3>5, <3>6 DEF Next
  <2>3. PICK x \in Server, t \in Tenant : PostInitialize(x, t)
    BY <2>2
  <2>4. s = x
    BY <2>3 DEF PostInitialize
  <2>5. TenantsWith(registry', x) = {} => Cardinality(Holding(registry)) >= MaxTenants
    BY <1>1, <2>3, Initializes
  <2>6. Holding(registry) = {u \in Present(registry) : StateOf(registry, u).servers # {}}
    BY DEF Holding, Idle
  <2> QED BY <2>4, <2>5, <2>6
<1>2. ASSUME IInv /\ [Next]_vars
      PROVE  [\A s \in sessions' \ sessions : Full(s)]_vars
  BY <1>1, <1>2
<1> HIDE DEF Full
<1>3. IInv /\ [Next]_vars => [\A s \in sessions' \ sessions : Full(s)]_vars
  BY <1>2
<1> QED BY <1>3, InductiveInvariant, PTL DEF Spec, UntrackedOnlyWhenFull, Full

\* Whenever no chain of closing calls is running, SessionContext, the transports
\* and the registry agree about every server: onclose, release and deleteSession
\* leave nothing half closed, whichever of them a chain began with.
THEOREM BooksMatch == Spec => []BooksAgree
<1>1. ASSUME BInv, calls = <<>>
      PROVE  /\ deleting = {}
             /\ \A s \in sessions : transport[s] = "open"
             /\ \A s \in Server : transport[s] = "closed" =>
                  s \in closed /\ s \notin sessions /\ TenantsWith(registry, s) = {}
  <2>1. /\ deleting \subseteq Server /\ sessions \subseteq Server
        /\ transport \in [Server -> {"none", "open", "closed"}]
    BY <1>1 DEF BInv, IInv, TypeOK
  <2>2. \A s \in Server : Settled(s)
    BY <1>1, Quiet
  <2>3. \A s \in sessions : transport[s] # "none"
    BY <1>1 DEF BInv, Named
  <2> QED BY <2>1, <2>2, <2>3 DEF Settled, Untracked
<1>2. BInv => BooksAgree
  BY <1>1 DEF BooksAgree
<1> QED BY <1>2, BooksInvariant, PTL

\* No server ever has more than three closing calls pending, however transport,
\* onclose, release and deleteSession call each other: `closed` and
\* _deletingSessions end the recursion.
THEOREM ChainsEnd == Spec => []CloseEnds
<1>1. ASSUME BInv, NEW s \in Server
      PROVE  Cardinality({i \in DOMAIN calls : calls[i][2] = s}) <= 3
  <2>1. calls \in Chain /\ \E k \in 0..3 : Bracketed(calls, k)
    BY <1>1 DEF BInv, IInv, TypeOK, Chain, Step
  <2> QED BY <2>1, FewCalls
<1>2. BInv => CloseEnds
  BY <1>1 DEF CloseEnds
<1> QED BY <1>2, BooksInvariant, PTL

\* HttpServer.stop leaves no session behind and every transport that was ever given
\* a session id closed, those opened while the listener drained included.
THEOREM ShutdownClean == Spec => []StoppedClean
<1>1. ASSUME BInv, phase = "stopped"
      PROVE  sessions = {} /\ \A s \in named : transport[s] = "closed"
  <2>1. calls = <<>>
    BY <1>1 DEF BInv, Owed
  <2>2. sessions = {} /\ \A s \in Server : Settled(s)
    BY <1>1, <2>1, Quiet
  <2>3. named \subseteq Server /\ \A s \in named : s \in sessions \/ s \in closed
    BY <1>1 DEF BInv, IInv, TypeOK, Named
  <2> QED BY <2>2, <2>3 DEF Settled
<1>2. BInv => StoppedClean
  BY <1>1 DEF StoppedClean
<1> QED BY <1>2, BooksInvariant, PTL

=============================================================================
