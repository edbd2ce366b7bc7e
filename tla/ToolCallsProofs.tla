-------------------------- MODULE ToolCallsProofs --------------------------
(***************************************************************************)
(* Proofs about ToolCalls, for every set of objects of Creatio; and about  *)
(* what its calls compute: the text of every RTF document, the meaning of  *)
(* every query in either dialect, and the text of every file and archive,  *)
(* for all sets of values.                                                 *)
(***************************************************************************)
EXTENDS ToolCalls, ReadQuery, FileExtraction, RtfText, FiniteSetTheorems, WellFoundedInduction, SequenceTheorems, TLAPS

ConfigOK ==
  config \in [readonly : BOOLEAN, allowed : SUBSET Entity,
              backend : {"odata", "dataservice"}, capable : BOOLEAN]

\* The gates a call passes before it sends anything.
Passes(tool, arg) ==
  /\ tool \in Listed
  /\ Mutates(tool) => ~config.readonly
  /\ ~Denied(tool, arg)

Reading ==
  {"ServiceDocument", "$metadata", "EntityType", "GET", "SelectList", "RuntimeSchema", "SelectRows",
   "SelectCount", "ColumnTypes", "DataForgeColumns", "QuerySysSettings", "UserInfo", "Data",
   "DataForgeRead", "Search"}
Endpoint == Reading \cup Writing

\* The requests a tool may send: those the deployment permits, writing only if the
\* engine treats the tool as a mutation, and asking DataForge only for a schema.
Proper(tool) ==
  {r \in [to : Endpoint, reach : SUBSET Entity] :
     /\ config.readonly => r.to \notin Writing
     /\ Restricted => r.reach \subseteq config.allowed
     /\ r.to \in Writing => Mutates(tool)
     /\ r.to = "DataForgeColumns" => tool = "describe-entity"}

\* Only the creation of a setting has a request left after one that writes.
WritesLast(tool, left) ==
  (Mutates(tool) /\ tool # "create-sys-setting") =>
    \/ Len(left) = 1
    \/ Len(left) = 2 /\ left[1].to \notin Writing

Stages == {"idle", "waiting", "ok", "failed"}
Record(P) == [at : Stages, tool : Tool, arg : Argument, left : Seq(P), told : BOOLEAN]

Underway ==
  /\ call \in Record(Proper(call.tool))
  /\ call.left # <<>> <=> call.at = "waiting"
  /\ trail \subseteq {"attempt", "failed"}
  /\ \A x \in exchanges : x.request \in Proper(call.tool)
  /\ call.at = "idle" => exchanges = {} /\ trail = {}
  /\ call.at = "waiting" => WritesLast(call.tool, call.left)

\* A mutation has its attempt in the trail before its first request; until it fails
\* it has no failure there, no error thrown outside of it, and no write behind it.
OnRecord ==
  /\ Mutates(call.tool) /\ (call.at = "waiting" \/ exchanges # {}) => "attempt" \in trail
  /\ call.at = "failed" /\ "attempt" \in trail /\ Mutates(call.tool) =>
       ("failed" \in trail <=> ~\E x \in exchanges : ThrownOutside(x.request.to, x.answer))
  /\ call.at = "waiting" => ~\E x \in exchanges : ThrownOutside(x.request.to, x.answer)
  /\ "failed" \in trail => call.at = "failed" \/ call.tool = "describe-entity"
  /\ call.tool # "create-sys-setting" =>
       \A x \in exchanges :
         /\ call.at = "waiting" => x.request.to \notin Writing
         /\ call.at = "failed" => x.request.to \notin Writing \/ x.answer # "done"

\* So far every request was performed, or the call goes on without it.
ConfirmedSoFar ==
  (call.at \in {"waiting", "ok"} /\ ~call.told) =>
    \A x \in exchanges :
      x.answer \in {"done", "page"} \/ x.request.to \in BestEffort \cup {"SelectList"}

IInv == ConfigOK /\ Underway /\ OnRecord /\ ConfirmedSoFar

-----------------------------------------------------------------------------
(* The requests of each tool are proper. *)

LEMMA Singles ==
  ASSUME NEW P, NEW r \in P, NEW c \in BOOLEAN
  PROVE  <<r>> \in Seq(P) /\ When(c, r) \in Seq(P)
BY DEF When

LEMMA Pairs ==
  ASSUME NEW P, NEW r \in P, NEW q \in P
  PROVE  <<r, q>> \in Seq(P)
OBVIOUS

\* What the allowlist leaves.
LEMMA Reached ==
  ASSUME ConfigOK, NEW tool \in Tool, NEW arg \in Argument, Passes(tool, arg), Restricted
  PROVE  /\ ~Capable /\ tool \in ENTITY_RESTRICTED_TOOLS
         /\ tool \in OnObject => arg.on \in config.allowed
         /\ tool = "read" => ~arg.raw /\ arg.via = arg.on
<1>1. ~Capable
  BY DEF Capable
<1>2. Prepared = {}
  BY <1>1 DEF Prepared
<1>3. tool \in ENTITY_RESTRICTED_TOOLS
  BY <1>2 DEF Passes, Listed
<1>4. tool \in OnObject => arg.on \in config.allowed
  BY DEF Passes, Denied
<1>5. tool = "read" => ~arg.raw /\ arg.via = arg.on
  BY DEF Passes, Denied, OnObject
<1> QED BY <1>1, <1>3, <1>4, <1>5

\* A request about the object of the call, or about none.
LEMMA AboutObject ==
  ASSUME ConfigOK, NEW tool \in Tool, NEW arg \in Argument, Passes(tool, arg), tool \in OnObject,
         NEW to \in Endpoint, to \in Writing => Mutates(tool),
         to = "DataForgeColumns" => tool = "describe-entity"
  PROVE  Request(to, {arg.on}) \in Proper(tool)
<1>1. arg.on \in Entity
  BY DEF Argument
<1>2. Restricted => arg.on \in config.allowed
  BY Reached
<1>3. config.readonly => to \notin Writing
  BY DEF Passes
<1> QED BY <1>1, <1>2, <1>3 DEF Request, Proper

\* A request that may reach any object, of a tool no allowlist leaves.
LEMMA Anywhere ==
  ASSUME ConfigOK, NEW tool \in Tool, NEW arg \in Argument, Passes(tool, arg),
         tool \notin ENTITY_RESTRICTED_TOOLS,
         NEW to \in Endpoint, to \in Writing => Mutates(tool), to # "DataForgeColumns"
  PROVE  Request(to, Entity) \in Proper(tool)
<1>1. ~Restricted
  BY Reached
<1>2. config.readonly => to \notin Writing
  BY DEF Passes
<1> QED BY <1>1, <1>2 DEF Request, Proper

\* A read stays where its paths may lead.
LEMMA ReadsWithin ==
  ASSUME ConfigOK, NEW arg \in Argument, Passes("read", arg),
         NEW to \in {"GET", "SelectRows", "SelectCount"}
  PROVE  Request(to, ReadReach(arg)) \in Proper("read")
<1>1. "read" \in Tool /\ to \notin Writing /\ to \in Endpoint /\ to # "DataForgeColumns"
  BY DEF Tool, Core, Writing, Reading, Endpoint
<1>2. ReadReach(arg) \subseteq Entity
  BY DEF ReadReach, Argument
<1>3. Restricted => ReadReach(arg) \subseteq config.allowed
  BY <1>1, Reached DEF ReadReach, OnObject
<1> QED BY <1>1, <1>2, <1>3 DEF Request, Proper

LEMMA CrudProper ==
  ASSUME ConfigOK, NEW arg \in Argument,
         NEW tool \in {"list-entities", "describe-entity", "read", "create", "update", "delete"},
         Passes(tool, arg)
  PROVE  /\ CrudPlan(tool, arg) \in Seq(Proper(tool))
         /\ WritesLast(tool, CrudPlan(tool, arg))
<1>t. tool \in Tool /\ (tool # "list-entities" => tool \in OnObject)
  BY DEF Tool, Core, Mutating, OnObject
<1>m. Mutates(tool) <=> tool \in {"create", "update", "delete"}
  BY DEF Mutates, Mutating, Capability
<1>1. CASE tool = "list-entities"
  <2>1. \A to \in {"ServiceDocument", "$metadata", "SelectList"} : Request(to, {}) \in Proper(tool)
    BY DEF Request, Proper, Writing, Reading, Endpoint
  <2>2. \E to \in {"$metadata", "SelectList"} :
          \/ CrudPlan(tool, arg) = <<Request(to, {})>>
          \/ CrudPlan(tool, arg) = <<Request("ServiceDocument", {}), Request(to, {})>>
    BY <1>1 DEF CrudPlan, ODataPlan, DataServicePlan
  <2>3. CrudPlan(tool, arg) \in Seq(Proper(tool))
    <3>1. PICK to \in {"$metadata", "SelectList"} :
            \/ CrudPlan(tool, arg) = <<Request(to, {})>>
            \/ CrudPlan(tool, arg) = <<Request("ServiceDocument", {}), Request(to, {})>>
      BY <2>2
    <3>2. Request(to, {}) \in Proper(tool) /\ Request("ServiceDocument", {}) \in Proper(tool)
      BY <2>1
    <3>3. /\ <<Request(to, {})>> \in Seq(Proper(tool))
          /\ <<Request("ServiceDocument", {}), Request(to, {})>> \in Seq(Proper(tool))
      BY <3>2, Singles, Pairs
    <3> QED BY <3>1, <3>3
  <2> QED BY <1>1, <1>m, <2>3 DEF WritesLast
<1>2. CASE tool = "describe-entity"
  <2>1. \A to \in {"EntityType", "RuntimeSchema"} : Request(to, {arg.on}) \in Proper(tool)
    BY <1>2, <1>t, AboutObject DEF Writing, Reading, Endpoint
  <2>2. \/ CrudPlan(tool, arg) = <<Request("EntityType", {arg.on})>>
        \/ CrudPlan(tool, arg) = <<Request("RuntimeSchema", {arg.on})>>
    BY <1>2 DEF CrudPlan, ODataPlan, DataServicePlan
  <2>3. CrudPlan(tool, arg) \in Seq(Proper(tool))
    BY <2>1, <2>2, Singles
  <2> QED BY <1>2, <1>m, <2>3 DEF WritesLast
<1>3. CASE tool = "read"
  <2> DEFINE reach == ReadReach(arg)
  <2>1. \A to \in {"GET", "SelectRows", "SelectCount"} : Request(to, reach) \in Proper("read")
    BY <1>3, ReadsWithin
  <2>2. arg.rows \in BOOLEAN /\ arg.extra \in BOOLEAN
    BY DEF Argument
  <2>3. /\ <<Request("GET", reach)>> \in Seq(Proper("read"))
        /\ When(arg.rows, Request("SelectRows", reach)) \in Seq(Proper("read"))
        /\ When(arg.extra, Request("SelectCount", reach)) \in Seq(Proper("read"))
    BY <2>1, <2>2, Singles
  <2>4. When(arg.rows, Request("SelectRows", reach)) \o When(arg.extra, Request("SelectCount", reach))
          \in Seq(Proper("read"))
    BY <2>3
  <2>5. CrudPlan("read", arg) \in
          {<<Request("GET", reach)>>,
           When(arg.rows, Request("SelectRows", reach)) \o When(arg.extra, Request("SelectCount", reach))}
    BY DEF CrudPlan, ODataPlan, DataServicePlan
  <2> HIDE DEF reach
  <2>6. CrudPlan("read", arg) \in Seq(Proper("read"))
    BY <2>3, <2>4, <2>5
  <2> QED BY <1>3, <1>m, <2>6 DEF WritesLast
<1>4. CASE tool \in {"create", "update", "delete"}
  <2>1. \A to \in {"POST", "PATCH", "DELETE", "ColumnTypes", "InsertQuery", "UpdateQuery", "DeleteQuery"} :
           Request(to, {arg.on}) \in Proper(tool)
    BY <1>4, <1>t, <1>m, AboutObject DEF Writing, Reading, Endpoint
  <2>2. CrudPlan(tool, arg) \in
          {<<Request(to, {arg.on})>> : to \in {"POST", "PATCH", "DELETE", "DeleteQuery"}}
            \cup {<<Request("ColumnTypes", {arg.on}), Request(to, {arg.on})>> :
                     to \in {"InsertQuery", "UpdateQuery"}}
    BY <1>4 DEF CrudPlan, ODataPlan, DataServicePlan
  <2>3. CASE \E to \in {"POST", "PATCH", "DELETE", "DeleteQuery"} :
               CrudPlan(tool, arg) = <<Request(to, {arg.on})>>
    BY <2>3, <2>1 DEF WritesLast
  <2>4. CASE \E to \in {"InsertQuery", "UpdateQuery"} :
               CrudPlan(tool, arg) = <<Request("ColumnTypes", {arg.on}), Request(to, {arg.on})>>
    <3>1. PICK to \in {"InsertQuery", "UpdateQuery"} :
               CrudPlan(tool, arg) = <<Request("ColumnTypes", {arg.on}), Request(to, {arg.on})>>
      BY <2>4
    <3>2. Request("ColumnTypes", {arg.on}).to \notin Writing
      BY DEF Request, Writing
    <3> QED BY <3>1, <3>2, <2>1 DEF WritesLast
  <2> QED BY <2>2, <2>3, <2>4
<1> QED BY <1>1, <1>2, <1>3, <1>4

LEMMA PlanProper ==
  ASSUME ConfigOK, NEW tool \in Tool, NEW arg \in Argument, Passes(tool, arg)
  PROVE  Plan(tool, arg) \in Seq(Proper(tool)) /\ WritesLast(tool, Plan(tool, arg))
<1> DEFINE crud == {"list-entities", "read", "create", "update", "delete"}
           single == {"update-sys-setting-definition", "set-sys-settings-value", "admin-operation",
                      "execute-process", "refresh-feature-cache", "call-configuration-service",
                      "get-current-user-info", "dataforge", "global-search", "published"}
<1>e. arg.extra \in BOOLEAN
  BY DEF Argument
<1>1. CASE tool = "describe-entity"
  <2>1. ~Mutates(tool) /\ tool \in OnObject
    BY <1>1 DEF Mutates, Mutating, Capability, OnObject
  <2>2. Request("DataForgeColumns", {arg.on}) \in Proper(tool)
    BY <1>1, <2>1, AboutObject DEF Writing, Reading, Endpoint
  <2>3. (Capable /\ ~config.readonly) \in BOOLEAN
    BY DEF Capable, Restricted
  <2>4. When(Capable /\ ~config.readonly, Request("DataForgeColumns", {arg.on})) \in Seq(Proper(tool))
    BY <2>2, <2>3, Singles
  <2>5. CrudPlan("describe-entity", arg) \in Seq(Proper(tool))
    BY <1>1, CrudProper
  <2>6. Plan(tool, arg) = When(Capable /\ ~config.readonly, Request("DataForgeColumns", {arg.on}))
                            \o CrudPlan("describe-entity", arg)
    BY <1>1 DEF Plan, DescribePlan
  <2> QED BY <2>1, <2>4, <2>5, <2>6 DEF WritesLast
<1>2. CASE tool \in crud
  <2>1. Plan(tool, arg) = CrudPlan(tool, arg)
    BY <1>2 DEF Plan
  <2> QED BY <1>2, <2>1, CrudProper
<1>3. CASE tool = "query-sys-settings"
  <2>1. tool \notin ENTITY_RESTRICTED_TOOLS /\ ~Mutates(tool)
    BY <1>3 DEF ENTITY_RESTRICTED_TOOLS, Mutates, Mutating, Capability
  <2>2. Request("QuerySysSettings", Entity) \in Proper(tool)
    BY <2>1, Anywhere DEF Writing, Reading, Endpoint
  <2>3. Plan(tool, arg) = When(arg.extra, Request("QuerySysSettings", Entity))
    BY <1>3 DEF Plan, SysSettingsPlan
  <2> QED BY <1>e, <2>1, <2>2, <2>3, Singles DEF WritesLast
<1>4. CASE tool = "create-sys-setting"
  <2>1. tool \notin ENTITY_RESTRICTED_TOOLS /\ Mutates(tool)
    BY <1>4 DEF ENTITY_RESTRICTED_TOOLS, Mutates, Mutating
  <2>2. /\ Request("InsertSysSetting", Entity) \in Proper(tool)
        /\ Request("PostSysSettingsValues", Entity) \in Proper(tool)
    BY <2>1, Anywhere DEF Writing, Reading, Endpoint
  <2>3. Plan(tool, arg) = <<Request("InsertSysSetting", Entity)>>
                            \o When(arg.extra, Request("PostSysSettingsValues", Entity))
    BY <1>4 DEF Plan, SysSettingsPlan
  <2>4. /\ <<Request("InsertSysSetting", Entity)>> \in Seq(Proper(tool))
        /\ When(arg.extra, Request("PostSysSettingsValues", Entity)) \in Seq(Proper(tool))
    BY <1>e, <2>2, Singles
  <2> QED BY <1>4, <2>3, <2>4 DEF WritesLast
<1>5. CASE tool = "read-file"
  <2>1. tool \in OnObject /\ ~Mutates(tool)
    BY <1>5 DEF OnObject, Mutates, Mutating, Capability
  <2>2. Request("Data", {arg.on}) \in Proper(tool)
    BY <2>1, AboutObject DEF Writing, Reading, Endpoint
  <2>3. Plan(tool, arg) = <<Request("Data", {arg.on})>>
    BY <1>5 DEF Plan, FilePlan
  <2> QED BY <2>1, <2>2, <2>3 DEF WritesLast
<1>6. CASE tool \in single
  <2> DEFINE posted == {"UpdateSysSetting", "PostSysSettingsValues", "RightsService", "RunProcess",
                        "FeatureService", "ConfigurationService", "UserInfo", "DataForgeRead",
                        "Search", "ToolServiceMcp"}
  <2>1. tool \notin ENTITY_RESTRICTED_TOOLS
    BY <1>6 DEF ENTITY_RESTRICTED_TOOLS
  <2>2. \E to \in posted : /\ Plan(tool, arg) = <<Request(to, Entity)>>
                           /\ to \in Writing => Mutates(tool)
    BY <1>6 DEF Plan, SysSettingsPlan, AdminOperationPlan, ProcessPlan, FeaturePlan,
                ConfigurationPlan, UserPlan, DataForgePlan, GlobalSearchPlan, PublishedPlan,
                Mutates, Mutating, Capability, Writing
  <2>3. PICK to \in posted : /\ Plan(tool, arg) = <<Request(to, Entity)>>
                             /\ to \in Writing => Mutates(tool)
    BY <2>2
  <2>4. Request(to, Entity) \in Proper(tool)
    BY <2>1, <2>3, Anywhere DEF Writing, Reading, Endpoint
  <2> QED BY <2>3, <2>4 DEF WritesLast
<1> QED BY <1>1, <1>2, <1>3, <1>4, <1>5, <1>6 DEF Tool, Core, Mutating, Capability

-----------------------------------------------------------------------------
(* The steps of a call. *)

\* What the updates of a call's record leave in place.
LEMMA Fails ==
  ASSUME NEW P, NEW q \in Record(P)
  PROVE  LET m == [q EXCEPT !.at = "failed", !.left = <<>>]
         IN  /\ m \in Record(P)
             /\ m.left = <<>> /\ m.at = "failed" /\ m.tool = q.tool
<1>1. <<>> \in Seq(P) /\ "failed" \in Stages
  BY DEF Stages
<1> QED BY <1>1 DEF Record

LEMMA Shortened ==
  ASSUME NEW P, NEW l \in Seq(P), l # <<>>
  PROVE  /\ Head(l) \in P /\ Head(l) = l[1]
         /\ Tail(l) \in Seq(P)
         /\ Len(l) = 1 => Tail(l) = <<>>
         /\ Len(l) = 2 => Len(Tail(l)) = 1
<1>1. Head(l) \in P /\ Tail(l) \in Seq(P) /\ Len(Tail(l)) = Len(l) - 1
  BY HeadTailProperties
<1>2. Head(l) = l[1]
  OBVIOUS
<1>3. Len(l) = 1 => Tail(l) = <<>>
  <2>1. Tail(l) # <<>> => Len(Tail(l)) \in Nat \ {0}
    BY <1>1, EmptySeq
  <2>2. Len(l) = 1 => Len(Tail(l)) = 0
    BY <1>1
  <2> QED BY <2>1, <2>2
<1> QED BY <1>1, <1>2, <1>3

LEMMA Properly ==
  ASSUME config' = config
  PROVE  \A tool : Proper(tool)' = Proper(tool)
BY DEF Proper, Restricted, Mutates

\* A call that is stopped at the gates sends nothing.
LEMMA StoppedStep ==
  ASSUME IInv, NEW tool \in Tool, NEW arg \in Argument, Block(tool, arg) \/ Deny(tool, arg)
  PROVE  Underway' /\ OnRecord' /\ ConfirmedSoFar'
<1>1. /\ exchanges' = {} /\ call' = Called(tool, arg, <<>>, "failed")
      /\ \/ trail' = {}
         \/ trail' = {"attempt", "failed"}
  BY DEF IInv, Underway, Block, Deny, Callable
<1>2. /\ (call \in Record(Proper(tool)))' /\ call'.tool = tool
      /\ call'.left = <<>> /\ call'.at = "failed"
  <2>1. <<>> \in Seq(Proper(tool)') /\ "failed" \in Stages
    BY DEF Stages
  <2> QED BY <1>1, <2>1 DEF Called, Record
<1>4. Underway'
  BY <1>1, <1>2 DEF Underway
<1>5. OnRecord'
  BY <1>1, <1>2 DEF OnRecord
<1>6. ConfirmedSoFar'
  BY <1>2 DEF ConfirmedSoFar
<1> QED BY <1>4, <1>5, <1>6

\* A call that begins has a proper plan, and its attempt on record.
LEMMA BeginStep ==
  ASSUME IInv, NEW tool \in Tool, NEW arg \in Argument, Begin(tool, arg)
  PROVE  Underway' /\ OnRecord' /\ ConfirmedSoFar'
<1> DEFINE left == Plan(tool, arg)
<1>1. ConfigOK /\ Passes(tool, arg)
  BY DEF IInv, Begin, Callable, Passes
<1>2. left \in Seq(Proper(tool)) /\ WritesLast(tool, left)
  BY <1>1, PlanProper
<1>3. /\ exchanges' = {} /\ config' = config
      /\ call' = Called(tool, arg, left, IF left = <<>> THEN "ok" ELSE "waiting")
      /\ trail' \subseteq {"attempt"}
      /\ Mutates(tool) => trail' = {"attempt"}
  BY DEF IInv, Underway, Begin, Callable
<1> HIDE DEF left
<1>4. \A t : Proper(t)' = Proper(t)
  BY <1>1, <1>3, Properly
<1>5. /\ call' \in Record(Proper(tool)) /\ call'.tool = tool /\ call'.left = left
      /\ call'.at = (IF left = <<>> THEN "ok" ELSE "waiting")
  <2>1. (IF left = <<>> THEN "ok" ELSE "waiting") \in Stages
    BY DEF Stages
  <2> QED BY <1>2, <1>3, <2>1 DEF Called, Record
<1>6. Underway'
  BY <1>2, <1>3, <1>4, <1>5 DEF Underway, WritesLast, Mutates
<1>7. OnRecord'
  BY <1>3, <1>5 DEF OnRecord, Mutates
<1>8. ConfirmedSoFar'
  BY <1>3 DEF ConfirmedSoFar
<1> QED BY <1>6, <1>7, <1>8

\* What the head of a call's requests is.
LEMMA HeadProper ==
  ASSUME IInv, call.at = "waiting"
  PROVE  /\ Head(call.left) \in Proper(call.tool) /\ Tail(call.left) \in Seq(Proper(call.tool))
         /\ (Mutates(call.tool) /\ call.tool # "create-sys-setting") =>
              (Head(call.left).to \notin Writing \/ Tail(call.left) = <<>>)
         /\ Tail(call.left) # <<>> => WritesLast(call.tool, Tail(call.left))
<1>1. call.left \in Seq(Proper(call.tool)) /\ call.left # <<>> /\ WritesLast(call.tool, call.left)
  BY DEF IInv, Underway, Record
<1>2. \A P : call.left \in Seq(P) =>
        /\ Head(call.left) \in P /\ Head(call.left) = call.left[1]
        /\ Tail(call.left) \in Seq(P)
        /\ Len(call.left) = 1 => Tail(call.left) = <<>>
        /\ Len(call.left) = 2 => Len(Tail(call.left)) = 1
  BY <1>1, Shortened
<1> QED BY <1>1, <1>2 DEF WritesLast

\* An answer that ends the call.
LEMMA FailStep ==
  ASSUME IInv, NEW answer, call.at = "waiting", Fail(answer), UNCHANGED config,
         exchanges' = exchanges \cup {[request |-> Head(call.left), answer |-> answer]}
  PROVE  Underway' /\ OnRecord' /\ ConfirmedSoFar'
<1> DEFINE tool == call.tool
           head == Head(call.left)
           sent == [request |-> Head(call.left), answer |-> answer]
<1>1. head \in Proper(tool) /\ \A t : Proper(t)' = Proper(t)
  BY HeadProper, Properly DEF IInv
<1>2. /\ call' \in Record(Proper(tool)) /\ call'.tool = tool
      /\ call'.left = <<>> /\ call'.at = "failed"
  BY Fails DEF IInv, Underway, Fail
<1>3. /\ trail' = trail \cup Recorded(answer) /\ Recorded(answer) \subseteq {"failed"}
      /\ Mutates(tool) => (Recorded(answer) = {"failed"} <=> ~ThrownOutside(head.to, answer))
  BY DEF Fail, Recorded, ThrownOutside
<1>4. sent.request = head /\ sent.answer = answer /\ answer # "done"
  BY DEF Fail, Throws
<1>5. Mutates(call'.tool) <=> Mutates(tool)
  BY <1>2
<1>6. Underway'
  BY <1>1, <1>2, <1>3, <1>4 DEF IInv, Underway
<1>7. OnRecord'
  <2> DEFINE outside(set) == \E x \in set : ThrownOutside(x.request.to, x.answer)
  <2>1. outside(exchanges') <=> ThrownOutside(head.to, answer)
    <3>1. ~outside(exchanges)
      BY DEF IInv, OnRecord
    <3> QED BY <1>4, <3>1
  <2>2. Mutates(tool) => ("failed" \in trail' <=> ~outside(exchanges'))
    <3>1. Mutates(tool) => "failed" \notin trail
      BY DEF IInv, OnRecord, Mutates, Mutating, Capability
    <3> QED BY <1>3, <2>1, <3>1
  <2>3. Mutates(tool) => "attempt" \in trail'
    BY <1>3 DEF IInv, OnRecord
  <2>4. tool # "create-sys-setting" =>
          \A x \in exchanges' : x.request.to \notin Writing \/ x.answer # "done"
    BY <1>4 DEF IInv, OnRecord
  <2> HIDE DEF outside
  <2>5. (Mutates(call.tool))' <=> Mutates(tool)
    BY <1>2 DEF Mutates
  <2> QED BY <1>2, <2>2, <2>3, <2>4, <2>5 DEF OnRecord, outside
<1>8. ConfirmedSoFar'
  BY <1>2 DEF ConfirmedSoFar
<1> QED BY <1>6, <1>7, <1>8

\* An answer the call goes on with.
LEMMA GoOnStep ==
  ASSUME IInv, NEW answer \in Answers(Head(call.left).to), call.at = "waiting", GoOn(answer),
         UNCHANGED config,
         exchanges' = exchanges \cup {[request |-> Head(call.left), answer |-> answer]}
  PROVE  Underway' /\ OnRecord' /\ ConfirmedSoFar'
<1> DEFINE tool == call.tool
           head == Head(call.left)
           sent == [request |-> Head(call.left), answer |-> answer]
           rest == IF Suffices(head.to, answer) THEN <<>> ELSE Tail(call.left)
<1>1. head \in Proper(tool) /\ \A t : Proper(t)' = Proper(t)
  BY HeadProper, Properly DEF IInv
<1>2. rest \in Seq(Proper(tool)) /\ (rest = <<>> \/ rest = Tail(call.left))
  <2>1. <<>> \in Seq(Proper(tool)) /\ Tail(call.left) \in Seq(Proper(tool))
    BY HeadProper
  <2> QED BY <2>1
<1>3. /\ ~Throws(head.to, answer)
      /\ call' = [call EXCEPT !.left = rest, !.at = IF rest = <<>> THEN "ok" ELSE "waiting",
                              !.told = call.told \/ Tells(head.to, answer)]
  BY DEF GoOn
<1>4. /\ trail' = trail \/ trail' = trail \cup {"failed"}
      /\ trail' # trail => tool = "describe-entity"
  BY <1>1 DEF GoOn, Recorded, Proper
<1>5. sent.request = head /\ sent.answer = answer
  OBVIOUS
<1>6. (call.told \/ Tells(head.to, answer)) \in BOOLEAN
  BY DEF Tells
<1>r. call \in Record(Proper(tool))
  BY DEF IInv, Underway
<1> HIDE DEF rest, sent
<1>7. /\ call' \in Record(Proper(tool)) /\ call'.tool = tool /\ call'.left = rest
      /\ call'.at = (IF rest = <<>> THEN "ok" ELSE "waiting")
      /\ call'.told = (call.told \/ Tells(head.to, answer))
  <2> DEFINE stage == IF rest = <<>> THEN "ok" ELSE "waiting"
             told == call.told \/ Tells(head.to, answer)
  <2>1. call' = [call EXCEPT !.left = rest, !.at = stage, !.told = told]
    BY <1>3
  <2>2. stage \in Stages /\ told \in BOOLEAN
    BY <1>6 DEF Stages
  <2> HIDE DEF stage, told
  <2>3. call' \in Record(Proper(tool))
    BY <1>2, <1>r, <2>1, <2>2 DEF Record
  <2>4. call'.tool = tool /\ call'.left = rest /\ call'.at = stage /\ call'.told = told
    BY <1>r, <2>1 DEF Record
  <2> QED BY <2>3, <2>4 DEF stage, told
<1>8. Underway'
  <2>1. (call \in Record(Proper(call.tool)))'
    BY <1>1, <1>7
  <2>2. call'.left # <<>> <=> call'.at = "waiting"
    BY <1>7
  <2>3. trail' \subseteq {"attempt", "failed"}
    BY <1>4 DEF IInv, Underway
  <2>4. \A x \in exchanges' : x.request \in Proper(tool)
    BY <1>1, <1>5 DEF IInv, Underway, sent
  <2>5. call'.at = "waiting" => WritesLast(tool, call'.left)
    BY <1>2, <1>7, HeadProper
  <2> QED BY <1>1, <1>7, <2>1, <2>2, <2>3, <2>4, <2>5 DEF Underway, WritesLast, Mutates
<1>9. OnRecord'
  <2>1. Mutates(tool) => "attempt" \in trail'
    BY <1>4 DEF IInv, OnRecord
  <2>2. "failed" \in trail' => tool = "describe-entity"
    BY <1>4 DEF IInv, OnRecord
  <2>3. ASSUME tool # "create-sys-setting", call'.at = "waiting", NEW x \in exchanges'
        PROVE  x.request.to \notin Writing
    <3>1. x \in exchanges \/ x = sent
      BY DEF sent
    <3>2. head.to \notin Writing
      BY <1>1, <1>2, <1>7, <2>3, HeadProper DEF Proper
    <3> QED BY <1>5, <2>3, <3>1, <3>2 DEF IInv, OnRecord
  <2>4. call'.at # "failed"
    BY <1>7
  <2>5. ~\E x \in exchanges' : ThrownOutside(x.request.to, x.answer)
    <3>1. ~ThrownOutside(head.to, answer)
      BY <1>3 DEF ThrownOutside, Throws, BestEffort, Checked
    <3> QED BY <1>5, <3>1 DEF IInv, OnRecord, sent
  <2> QED BY <1>7, <2>1, <2>2, <2>3, <2>4, <2>5 DEF OnRecord, Mutates
<1>10. ConfirmedSoFar'
  <2> SUFFICES ASSUME ~call'.told, NEW x \in exchanges'
               PROVE  x.answer \in {"done", "page"} \/ x.request.to \in BestEffort \cup {"SelectList"}
    BY DEF ConfirmedSoFar
  <2>1. ~call.told /\ ~Tells(head.to, answer)
    BY <1>7
  <2>2. CASE x \in exchanges
    BY <2>1, <2>2 DEF IInv, ConfirmedSoFar
  <2>3. CASE x = sent
    <3>1. answer \in {"done", "page", "error", "lost", "refused"}
      BY DEF Answers
    <3>2. answer \in {"error", "lost"} => head.to \in BestEffort
      BY <1>3 DEF Throws
    <3>3. answer = "refused" => head.to \in BestEffort \cup {"SelectList"}
      BY <1>3, <2>1 DEF Throws, Tells, Checked, Projected
    <3> QED BY <1>5, <2>3, <3>1, <3>2, <3>3
  <2> QED BY <2>2, <2>3 DEF sent
<1> QED BY <1>8, <1>9, <1>10

LEMMA InitialInvariant ==
  ASSUME ObjectAssumption, Init
  PROVE  IInv
<1>1. PICK e \in Entity : TRUE
  BY DEF ObjectAssumption
<1>2. [on |-> e, via |-> e, raw |-> FALSE, rows |-> FALSE, extra |-> FALSE] \in Argument
  BY DEF Argument
<1>3. \E arg \in Argument : ~arg.raw /\ ~arg.extra /\ arg.via = arg.on
  BY <1>2
<1>4. NoArgument \in Argument
  BY <1>3 DEF NoArgument
<1>5. "read" \in Tool /\ <<>> \in Seq(Proper("read"))
  BY DEF Tool, Core
<1>6. /\ call \in Record(Proper("read")) /\ call.tool = "read" /\ call.at = "idle"
      /\ call.left = <<>> /\ call.told = FALSE
  BY <1>4, <1>5 DEF Init, Idle, Record, Stages
<1> QED BY <1>6 DEF Init, IInv, ConfigOK, Underway, OnRecord, ConfirmedSoFar

LEMMA InvariantStep ==
  ASSUME ObjectAssumption, IInv, [Next]_vars
  PROVE  IInv'
<1>0. ConfigOK /\ config' = config
  BY DEF IInv, Next, vars, Block, Deny, Begin, Answer
<1>c. ConfigOK'
  BY <1>0 DEF ConfigOK
<1>1. ASSUME NEW tool \in Tool, NEW arg \in Argument, Block(tool, arg) \/ Deny(tool, arg)
      PROVE  IInv'
  BY <1>c, <1>1, StoppedStep DEF IInv
<1>2. ASSUME NEW tool \in Tool, NEW arg \in Argument, Begin(tool, arg)
      PROVE  IInv'
  BY <1>c, <1>2, BeginStep DEF IInv
<1>3. ASSUME NEW answer, Answer(answer)
      PROVE  IInv'
  <2>1. CASE Fail(answer)
    BY <1>0, <1>c, <1>3, <2>1, FailStep DEF IInv, Answer
  <2>2. CASE GoOn(answer)
    BY <1>0, <1>c, <1>3, <2>2, GoOnStep DEF IInv, Answer
  <2> QED BY <1>3, <2>1, <2>2 DEF Answer
<1>4. CASE UNCHANGED vars
  <2>1. Underway' /\ OnRecord' /\ ConfirmedSoFar'
    BY <1>4, <1>0, Properly
       DEF vars, IInv, Underway, OnRecord, ConfirmedSoFar, WritesLast, Mutates
  <2> QED BY <1>c, <2>1 DEF IInv
<1> QED BY <1>1, <1>2, <1>3, <1>4 DEF Next

LEMMA InductiveInvariant == ASSUME ObjectAssumption PROVE Spec => []IInv
<1>1. Init => IInv
  BY InitialInvariant
<1>2. IInv /\ [Next]_vars => IInv'
  BY InvariantStep
<1> QED BY <1>1, <1>2, PTL DEF Spec

\* What the invariant says of types, access, trail and results.
LEMMA InvariantGives ==
  ASSUME IInv
  PROVE  TypeOK /\ AccessKept /\ TrailTells /\ Confirmed
<1>1. TypeOK
  BY DEF IInv, ConfigOK, Underway, Record, Stages, TypeOK
<1>2. AccessKept
  <2> SUFFICES ASSUME NEW request \in Sent
               PROVE  /\ config.readonly => request.to \notin Writing
                      /\ Restricted => request.reach \subseteq config.allowed
    BY DEF AccessKept
  <2>1. request \in Proper(call.tool)
    BY HeadProper DEF Sent, IInv, Underway
  <2> QED BY <2>1 DEF Proper
<1>3. TrailTells
  <2>1. (\E request \in Sent : request.to \in Writing) => "attempt" \in trail
    <3> SUFFICES ASSUME NEW request \in Sent, request.to \in Writing
                 PROVE  "attempt" \in trail
      OBVIOUS
    <3>1. request \in Proper(call.tool) /\ (call.at = "waiting" \/ exchanges # {})
      BY HeadProper DEF Sent, IInv, Underway
    <3> QED BY <3>1 DEF Proper, IInv, OnRecord
  <2> QED BY <2>1 DEF IInv, OnRecord, TrailTells
<1>4. Confirmed
  BY DEF IInv, ConfirmedSoFar, Confirmed
<1> QED BY <1>1, <1>2, <1>3, <1>4

-----------------------------------------------------------------------------
(* The theorems. *)

\* A call and its trail have their types; it waits exactly while it has requests
\* left.
THEOREM TypeCorrect == ASSUME ObjectAssumption PROVE Spec => []TypeOK
<1>1. IInv => TypeOK
  BY InvariantGives
<1> QED BY <1>1, InductiveInvariant, PTL

\* BaseEngine, EntityAccessPolicy: whatever the objects of Creatio, the tool and its
\* arguments, read-only mode and the allowlist hold for every request sent.
THEOREM AccessHolds == ASSUME ObjectAssumption PROVE Spec => []AccessKept
<1>1. IInv => AccessKept
  BY InvariantGives
<1> QED BY <1>1, InductiveInvariant, PTL

\* BaseEngine._mutate: the trail has the attempt of every write, and the failure of
\* every mutation that throws but of a published tool that Creatio answers with an error
\* of its own, which has none; no call that succeeds has one, save a describe-entity
\* that DataForge failed.
THEOREM TrailComplete == ASSUME ObjectAssumption PROVE Spec => []TrailTells
<1>1. IInv => TrailTells
  BY InvariantGives
<1> QED BY <1>1, InductiveInvariant, PTL

\* The providers: a result that does not tell of a refusal is that of requests
\* Creatio performed, but for those the call does without.
THEOREM ResultsConfirmed == ASSUME ObjectAssumption PROVE Spec => []Confirmed
<1>1. IInv => Confirmed
  BY InvariantGives
<1> QED BY <1>1, InductiveInvariant, PTL

-----------------------------------------------------------------------------
(* Induction on the naturals, from their being well founded. *)

\* Every set of naturals with a member has a least one.
LEMMA Least ==
  ASSUME NEW T, T \subseteq Nat, T # {}
  PROVE  \E x \in T : \A y \in T : x <= y
<1>1. PICK x \in T : \A y \in T : <<y, x>> \notin OpToRel(<, Nat)
  BY NatLessThanWellFounded, WFMin
<1>2. \A y \in T : ~(y < x)
  BY <1>1 DEF OpToRel
<1> QED BY <1>2

\* What holds of 0 and is passed on up to a length holds up to it.
LEMMA UpTo ==
  ASSUME NEW len \in Nat, NEW T, 0 \in T, \A n \in 0..len : n < len /\ n \in T => n + 1 \in T
  PROVE  0..len \subseteq T
<1> DEFINE rest == (0..len) \ T
<1>1. SUFFICES ASSUME rest # {} PROVE FALSE
  OBVIOUS
<1>2. PICK x \in rest : \A y \in rest : x <= y
  <2>1. rest \subseteq Nat
    OBVIOUS
  <2> HIDE DEF rest
  <2> QED BY <1>1, <2>1, Least
<1>3. x # 0 /\ x - 1 \in 0..len /\ x - 1 < len /\ x = (x - 1) + 1
  BY <1>2
<1>4. x - 1 \in T
  BY <1>2, <1>3
<1> QED BY <1>2, <1>3, <1>4

\* The last member of a set of places.
LEMMA Greatest ==
  ASSUME NEW len \in Nat, NEW T, T \subseteq 1..len, T # {}
  PROVE  \E x \in T : \A y \in T : y <= x
<1> DEFINE U == {len - y : y \in T}
<1>1. PICK x \in U : \A y \in U : x <= y
  <2>1. U \subseteq Nat
    OBVIOUS
  <2>2. U # {}
    OBVIOUS
  <2> HIDE DEF U
  <2> QED BY <2>1, <2>2, Least
<1>2. PICK z \in T : x = len - z
  OBVIOUS
<1>3. \A y \in T : len - y \in U
  OBVIOUS
<1>4. \A y \in T : x <= len - y
  BY <1>1, <1>3
<1> QED BY <1>2, <1>4

-----------------------------------------------------------------------------
(* RTF.  The state of the pass after each token is what the document means   *)
(* there, by induction on the tokens.                                        *)

\* The states of the pass, up to a token.
PassTo(doc, n, run) ==
  run = [i \in 0..n |-> IF i = 0 THEN Start ELSE Step(run[i - 1], i, doc[i])]

\* extractRtf is the pass it is written as.
LEMMA PassDefined ==
  ASSUME NEW doc
  PROVE  Len(doc) \in Nat => PassTo(doc, Len(doc), Pass(doc))
<1> SUFFICES ASSUME Len(doc) \in Nat PROVE PassTo(doc, Len(doc), Pass(doc))
  OBVIOUS
<1> DEFINE T == {n \in Nat : \E run : PassTo(doc, n, run)}
<1>1. 0 \in T
  <2>1. PassTo(doc, 0, [i \in 0..0 |-> Start])
    BY DEF PassTo
  <2> QED BY <2>1
<1>2. ASSUME NEW n \in Nat, n \in T
      PROVE  n + 1 \in T
  <2>1. PICK run : PassTo(doc, n, run)
    BY <1>2
  <2> DEFINE on == [i \in 0..(n + 1) |-> IF i = n + 1 THEN Step(run[n], n + 1, doc[n + 1]) ELSE run[i]]
  <2>2. PassTo(doc, n + 1, on)
    BY <2>1 DEF PassTo
  <2> QED BY <2>2
<1>3. \E run : PassTo(doc, Len(doc), run)
  <2>1. 0..Len(doc) \subseteq T
    BY <1>1, <1>2, UpTo
  <2> QED BY <2>1
<1>4. Pass(doc) = CHOOSE run : PassTo(doc, Len(doc), run)
  BY DEF Pass, PassTo
<1> QED BY <1>3, <1>4

-----------------------------------------------------------------------------
(* The groups of a document. *)

\* A token counts among those before the next place.
LEMMA Counted ==
  ASSUME NEW doc, NEW i \in Nat \ {0}, NEW token
  PROVE  /\ Before(doc, i, token) \in Nat
         /\ Before(doc, i + 1, token) = Before(doc, i, token) + (IF doc[i] = token THEN 1 ELSE 0)
<1> DEFINE seen(k) == {j \in 1..k - 1 : doc[j] = token}
<1>1. IsFiniteSet(seen(i))
  <2>1. IsFiniteSet(1..i - 1)
    BY FS_Interval
  <2> QED BY <2>1, FS_Subset
<1>2. Cardinality(seen(i)) \in Nat
  BY <1>1, FS_CardinalityType
<1>3. CASE doc[i] = token
  <2>1. seen(i + 1) = seen(i) \cup {i} /\ i \notin seen(i)
    BY <1>3
  <2>2. Cardinality(seen(i) \cup {i}) = Cardinality(seen(i)) + 1
    <3> HIDE DEF seen
    <3> QED BY <1>1, <2>1, FS_AddElement
  <2> QED BY <1>2, <1>3, <2>1, <2>2 DEF Before
<1>4. CASE doc[i] # token
  <2>1. seen(i + 1) = seen(i)
    BY <1>4
  <2> QED BY <1>2, <1>4, <2>1 DEF Before
<1> QED BY <1>3, <1>4

\* A group is one deeper from its start on, and up again after its end.
LEMMA Deep ==
  ASSUME NEW doc, NEW i \in Nat \ {0}
  PROVE  /\ Depth(doc, i) \in Int
         /\ Depth(doc, i + 1) = CASE doc[i] = "open" -> Depth(doc, i) + 1
                                  [] doc[i] = "close" -> Depth(doc, i) - 1
                                  [] OTHER -> Depth(doc, i)
<1>1. /\ Before(doc, i, "open") \in Nat
      /\ Before(doc, i + 1, "open") = Before(doc, i, "open") + (IF doc[i] = "open" THEN 1 ELSE 0)
  BY Counted
<1>2. /\ Before(doc, i, "close") \in Nat
      /\ Before(doc, i + 1, "close") = Before(doc, i, "close") + (IF doc[i] = "close" THEN 1 ELSE 0)
  BY Counted
<1> QED BY <1>1, <1>2 DEF Depth

\* A document starts outside any group.
LEMMA Outside ==
  ASSUME NEW doc
  PROVE  Depth(doc, 1) = 0
<1>1. \A token : {j \in 1..1 - 1 : doc[j] = token} = {}
  OBVIOUS
<1> QED BY <1>1, FS_EmptySet DEF Depth, Before

\* Past any token but "close", what has reached it reaches on, and so does its own word.
LEMMA Onward ==
  ASSUME NEW doc, NEW i \in Nat \ {0}, doc[i] # "close", NEW k \in 1..i
  PROVE  Reaches(doc, k, i + 1) <=> k = i \/ Reaches(doc, k, i)
<1>1. Depth(doc, i + 1) >= Depth(doc, i) /\ Depth(doc, i) \in Int /\ Depth(doc, i + 1) \in Int
  BY Deep
<1>2. Depth(doc, k) \in Int
  BY Deep
<1>3. CASE k = i
  BY <1>1, <1>3 DEF Reaches
<1>4. CASE k < i
  BY <1>1, <1>2, <1>4 DEF Reaches
<1> QED BY <1>3, <1>4

\* The token that opens the group at a depth around a place.
Opener(doc, k, i, m) ==
  /\ k \in 1..i - 1 /\ doc[k] = "open" /\ Depth(doc, k) = m - 1
  /\ \A j \in k + 1..i : Depth(doc, j) >= m

\* Past a "close", what reaches on is what reached the group that it closes.
LEMMA Back ==
  ASSUME NEW doc, NEW i \in Nat \ {0}, doc[i] = "close", NEW k, Opener(doc, k, i, Depth(doc, i)),
         NEW q \in 1..i, doc[q] \notin {"open", "close"}
  PROVE  Reaches(doc, q, i + 1) <=> Reaches(doc, q, k)
<1>1. Depth(doc, i + 1) = Depth(doc, i) - 1 /\ Depth(doc, i) \in Int
  BY Deep
<1>2. k \in 1..i - 1 /\ Depth(doc, k) = Depth(doc, i) - 1 /\ doc[k] = "open"
  BY DEF Opener
<1>3. \A j \in k + 1..i : Depth(doc, j) >= Depth(doc, i)
  BY DEF Opener
<1>4. q # k /\ q # i
  BY <1>2
<1>5. \A j \in 1..i + 1 : Depth(doc, j) \in Int
  BY Deep
<1>6. CASE q > k
  <2>1. q \in k + 1..i
    BY <1>2, <1>6
  <2>2. Depth(doc, q) >= Depth(doc, i)
    BY <1>3, <2>1
  <2>3. ~Reaches(doc, q, i + 1)
    BY <1>1, <1>5, <2>2 DEF Reaches
  <2>4. ~Reaches(doc, q, k)
    BY <1>2, <1>6 DEF Reaches
  <2> QED BY <2>3, <2>4
<1>7. CASE q < k
  <2>1. ASSUME Reaches(doc, q, i + 1)
        PROVE  Reaches(doc, q, k)
    BY <1>2, <1>7, <2>1 DEF Reaches
  <2>2. ASSUME Reaches(doc, q, k)
        PROVE  Reaches(doc, q, i + 1)
    <3>1. Depth(doc, k) >= Depth(doc, q) /\ \A j \in q + 1..k : Depth(doc, j) >= Depth(doc, q)
      BY <1>2, <1>7, <2>2 DEF Reaches
    <3>2. ASSUME NEW j \in q + 1..i + 1
          PROVE  Depth(doc, j) >= Depth(doc, q)
      <4>1. CASE j <= k
        BY <1>2, <3>1, <4>1
      <4>2. CASE j \in k + 1..i
        BY <1>1, <1>2, <1>3, <1>5, <3>1, <4>2
      <4>3. CASE j = i + 1
        BY <1>1, <1>2, <1>5, <3>1, <4>3
      <4> QED BY <1>2, <4>1, <4>2, <4>3
    <3> QED BY <3>2 DEF Reaches
  <2> QED BY <2>1, <2>2
<1> QED BY <1>2, <1>4, <1>6, <1>7

\* What a token leaves behind of the words that hold where it is.
LEMMA SkippedOn ==
  ASSUME NEW doc \in Seq(Token), NEW i \in DOMAIN doc, doc[i] # "close"
  PROVE  InSkipped(doc, i + 1) <=> InSkipped(doc, i) \/ doc[i] = "skip"
<1>1. i \in Nat \ {0} /\ 1..i \subseteq DOMAIN doc
  BY LenProperties
<1>2. \A k \in DOMAIN doc : Reaches(doc, k, i + 1) => k \in 1..i
  BY LenProperties DEF Reaches
<1>3. \A k \in DOMAIN doc : Reaches(doc, k, i) => k \in 1..i
  BY LenProperties DEF Reaches
<1>4. \A k \in 1..i : Reaches(doc, k, i + 1) <=> k = i \/ Reaches(doc, k, i)
  BY <1>1, Onward
<1> QED BY <1>1, <1>2, <1>3, <1>4 DEF InSkipped

\* The same for the \uc that reach a place.
LEMMA DeclaredOn ==
  ASSUME NEW doc \in Seq(Token), NEW i \in DOMAIN doc, doc[i] # "close"
  PROVE  Declared(doc, i + 1) =
           IF doc[i] \in {"uc0", "uc2"} THEN Declared(doc, i) \cup {i} ELSE Declared(doc, i)
<1>1. i \in Nat \ {0} /\ 1..i \subseteq DOMAIN doc
  BY LenProperties
<1>2. \A k \in DOMAIN doc : Reaches(doc, k, i + 1) => k \in 1..i
  BY LenProperties DEF Reaches
<1>3. \A k \in DOMAIN doc : Reaches(doc, k, i) => k \in 1..i
  BY LenProperties DEF Reaches
<1>4. \A k \in 1..i : Reaches(doc, k, i + 1) <=> k = i \/ Reaches(doc, k, i)
  BY <1>1, Onward
<1> QED BY <1>1, <1>2, <1>3, <1>4 DEF Declared

\* The last \uc holds from behind it on.
LEMMA UcOn ==
  ASSUME NEW doc \in Seq(Token), NEW i \in DOMAIN doc, doc[i] # "close"
  PROVE  Uc(doc, i + 1) = CASE doc[i] = "uc0" -> 0 [] doc[i] = "uc2" -> 2 [] OTHER -> Uc(doc, i)
<1>1. CASE doc[i] \in {"uc0", "uc2"}
  <2> DEFINE last == CHOOSE k \in Declared(doc, i + 1) : \A j \in Declared(doc, i + 1) : j <= k
  <2>1. Declared(doc, i + 1) = Declared(doc, i) \cup {i}
    BY <1>1, DeclaredOn
  <2>2. \A j \in Declared(doc, i) : j \in Nat /\ j < i
    BY LenProperties DEF Declared, Reaches
  <2>3. i \in Nat
    BY LenProperties
  <2>4. \E k \in Declared(doc, i + 1) : \A j \in Declared(doc, i + 1) : j <= k
    BY <2>1, <2>2, <2>3
  <2>5. last \in Declared(doc, i + 1) /\ i <= last
    BY <2>1, <2>4
  <2>6. last = i
    BY <2>1, <2>2, <2>3, <2>5
  <2> QED BY <1>1, <2>1, <2>6 DEF Uc
<1>2. CASE doc[i] \notin {"uc0", "uc2"}
  <2>1. Declared(doc, i + 1) = Declared(doc, i)
    BY <1>2, DeclaredOn
  <2> QED BY <1>2, <2>1 DEF Uc
<1> QED BY <1>1, <1>2

\* After the end of a group what held before it holds again.
LEMMA Restored ==
  ASSUME NEW doc \in Seq(Token), NEW i \in DOMAIN doc, doc[i] = "close",
         NEW k, Opener(doc, k, i, Depth(doc, i))
  PROVE  /\ InSkipped(doc, i + 1) <=> InSkipped(doc, k)
         /\ Uc(doc, i + 1) = Uc(doc, k)
<1>1. i \in Nat \ {0} /\ 1..i \subseteq DOMAIN doc /\ k \in 1..i
  BY LenProperties DEF Opener
<1>2. \A q \in DOMAIN doc : Reaches(doc, q, i + 1) => q \in 1..i
  BY LenProperties DEF Reaches
<1>3. \A q \in DOMAIN doc : Reaches(doc, q, k) => q \in 1..i
  BY <1>1, LenProperties DEF Reaches
<1>4. \A q \in 1..i : doc[q] \notin {"open", "close"} =>
        (Reaches(doc, q, i + 1) <=> Reaches(doc, q, k))
  BY <1>1, Back
<1>5. InSkipped(doc, i + 1) <=> InSkipped(doc, k)
  BY <1>2, <1>3, <1>4 DEF InSkipped
<1>6. Declared(doc, i + 1) = Declared(doc, k)
  BY <1>2, <1>3, <1>4 DEF Declared
<1> QED BY <1>5, <1>6 DEF Uc

\* No group declares more than two fallback characters.
LEMMA UcType ==
  ASSUME NEW doc, NEW i
  PROVE  Uc(doc, i) \in 0..2
  BY DEF Uc

-----------------------------------------------------------------------------
(* The state of the pass after n tokens, by what the document means. *)

Saved == [skip : BOOLEAN, ucSkip : 0..2]
PassState ==
  [out : Seq(Nat \X {"any", "unicode", "cp1252", "cp1257"}), skip : BOOLEAN, ucSkip : 0..2,
   pendingUnicodeSkip : 0..2, stack : Seq(Saved), highTable : {"cp1252", "cp1257"}]

\* The stack holds what held before each group that is open.
Stacked(doc, n, stack) ==
  /\ Len(stack) = Depth(doc, n + 1)
  /\ \A m \in DOMAIN stack : \E k \in 1..n :
       Opener(doc, k, n + 1, m) /\ stack[m] = [skip |-> InSkipped(doc, k), ucSkip |-> Uc(doc, k)]

\* The count is that of the fallback characters the last \uN still has coming.
Owed(doc, n, s) ==
  /\ \A k \in 1..n : doc[k] = "u" => k + Uc(doc, k) <= n + s.pendingUnicodeSkip
  /\ s.pendingUnicodeSkip > 0 =>
       ~s.skip /\ \E k \in 1..n : doc[k] = "u" /\ k + Uc(doc, k) = n + s.pendingUnicodeSkip

Written(doc, n, out) ==
  /\ {out[m] : m \in DOMAIN out} = {<<i, As(doc, i)>> : i \in {i \in 1..n : Shown(doc, i)}}
  /\ \A p, q \in DOMAIN out : p < q => out[p][1] < out[q][1]

Tracks(doc, n, s) ==
  /\ s \in PassState
  /\ s.skip = InSkipped(doc, n + 1)
  /\ s.ucSkip = Uc(doc, n + 1)
  /\ s.highTable = IF \E k \in 1..n : doc[k] = "cpg" THEN "cp1257" ELSE "cp1252"
  /\ Stacked(doc, n, s.stack)
  /\ Owed(doc, n, s)
  /\ Written(doc, n, s.out)

\* The groups around a place stay open past any token but the end of one.
LEMMA StackedOn ==
  ASSUME NEW doc \in Seq(Token), NEW n \in 0..Len(doc), n + 1 \in DOMAIN doc,
         doc[n + 1] \notin {"open", "close"}, NEW stack \in Seq(Saved), Stacked(doc, n, stack)
  PROVE  Stacked(doc, n + 1, stack)
<1>1. n + 1 \in Nat \ {0}
  OBVIOUS
<1>2. Depth(doc, n + 2) = Depth(doc, n + 1) /\ Depth(doc, n + 1) \in Int
  BY <1>1, Deep
<1>3. ASSUME NEW m \in DOMAIN stack, NEW k \in 1..n, Opener(doc, k, n + 1, m)
      PROVE  Opener(doc, k, n + 2, m)
  BY <1>2, <1>3 DEF Opener
<1> QED BY <1>2, <1>3 DEF Stacked

\* The start of a group saves what holds before it.
LEMMA StackedOpen ==
  ASSUME NEW doc \in Seq(Token), NEW n \in 0..Len(doc), n + 1 \in DOMAIN doc,
         doc[n + 1] = "open", NEW stack \in Seq(Saved), Stacked(doc, n, stack)
  PROVE  Stacked(doc, n + 1,
           Append(stack, [skip |-> InSkipped(doc, n + 1), ucSkip |-> Uc(doc, n + 1)]))
<1> DEFINE group == [skip |-> InSkipped(doc, n + 1), ucSkip |-> Uc(doc, n + 1)]
           on == Append(stack, group)
<1>1. n + 1 \in Nat \ {0} /\ n + 2 = (n + 1) + 1
  OBVIOUS
<1>2. Depth(doc, n + 2) = Depth(doc, n + 1) + 1 /\ Depth(doc, n + 1) \in Int
  BY <1>1, Deep
<1>3. group \in Saved
  BY UcType DEF Saved, InSkipped
<1>4. /\ Len(on) = Len(stack) + 1 /\ DOMAIN on = 1..Len(stack) + 1
      /\ \A m \in DOMAIN stack : on[m] = stack[m]
      /\ on[Len(stack) + 1] = group
      /\ DOMAIN stack = 1..Len(stack) /\ Len(stack) \in Nat
  <2> HIDE DEF group
  <2> QED BY <1>3, AppendProperties, LenProperties
<1>5. Len(stack) = Depth(doc, n + 1)
  BY DEF Stacked
<1>6. ASSUME NEW m \in DOMAIN stack, NEW k \in 1..n, Opener(doc, k, n + 1, m)
      PROVE  Opener(doc, k, n + 2, m)
  <2>1. k \in 1..n + 1 /\ doc[k] = "open" /\ Depth(doc, k) = m - 1
    BY <1>6 DEF Opener
  <2>2. \A j \in k + 1..n + 1 : Depth(doc, j) >= m
    BY <1>6 DEF Opener
  <2>3. Depth(doc, n + 2) >= m
    BY <1>2, <1>4, <1>5
  <2> QED BY <2>1, <2>2, <2>3 DEF Opener
<1>7. Opener(doc, n + 1, n + 2, Len(stack) + 1)
  BY <1>1, <1>2, <1>5 DEF Opener
<1>8. ASSUME NEW m \in DOMAIN on
      PROVE  \E k \in 1..n + 1 :
               /\ Opener(doc, k, n + 2, m)
               /\ on[m] = [skip |-> InSkipped(doc, k), ucSkip |-> Uc(doc, k)]
  <2>1. CASE m = Len(stack) + 1
    BY <1>4, <1>7, <2>1
  <2>2. CASE m \in DOMAIN stack
    <3>1. PICK k \in 1..n : /\ Opener(doc, k, n + 1, m)
                            /\ stack[m] = [skip |-> InSkipped(doc, k), ucSkip |-> Uc(doc, k)]
      BY <2>2 DEF Stacked
    <3>2. Opener(doc, k, n + 2, m) /\ on[m] = stack[m]
      BY <1>4, <1>6, <2>2, <3>1
    <3> QED BY <3>1, <3>2
  <2> QED BY <1>4, <2>1, <2>2
<1>9. Len(on) = Depth(doc, n + 2)
  BY <1>2, <1>4, <1>5
<1> HIDE DEF group, on
<1>10. Stacked(doc, n + 1, on)
  BY <1>1, <1>8, <1>9 DEF Stacked
<1> QED BY <1>10 DEF on, group

\* The end of a group takes back what was saved before it.
LEMMA StackedClose ==
  ASSUME NEW doc \in Seq(Token), Balanced(doc), NEW n \in 0..Len(doc), n + 1 \in DOMAIN doc,
         doc[n + 1] = "close", NEW stack \in Seq(Saved), Stacked(doc, n, stack)
  PROVE  /\ stack # <<>>
         /\ stack[Len(stack)] = [skip |-> InSkipped(doc, n + 2), ucSkip |-> Uc(doc, n + 2)]
         /\ SubSeq(stack, 1, Len(stack) - 1) \in Seq(Saved)
         /\ Stacked(doc, n + 1, SubSeq(stack, 1, Len(stack) - 1))
<1> DEFINE on == SubSeq(stack, 1, Len(stack) - 1)
<1>1. n + 1 \in Nat \ {0} /\ n + 2 = (n + 1) + 1
  OBVIOUS
<1>2. Depth(doc, n + 2) = Depth(doc, n + 1) - 1 /\ Depth(doc, n + 1) \in Int
  BY <1>1, Deep
<1>3. Depth(doc, n + 2) >= 0
  BY <1>1 DEF Balanced
<1>4. /\ Len(stack) = Depth(doc, n + 1) /\ Len(stack) \in Nat \ {0}
      /\ DOMAIN stack = 1..Len(stack)
  BY <1>2, <1>3, LenProperties DEF Stacked
<1>5. /\ on \in Seq(Saved) /\ Len(on) = Len(stack) - 1 /\ DOMAIN on = 1..Len(stack) - 1
      /\ \A m \in DOMAIN on : on[m] = stack[m]
  BY <1>4
<1>6. PICK k \in 1..n : /\ Opener(doc, k, n + 1, Len(stack))
                        /\ stack[Len(stack)] = [skip |-> InSkipped(doc, k), ucSkip |-> Uc(doc, k)]
  BY <1>4 DEF Stacked
<1>7. (InSkipped(doc, n + 2) <=> InSkipped(doc, k)) /\ Uc(doc, n + 2) = Uc(doc, k)
  BY <1>1, <1>4, <1>6, Restored
<1>8. stack[Len(stack)] = [skip |-> InSkipped(doc, n + 2), ucSkip |-> Uc(doc, n + 2)]
  BY <1>6, <1>7 DEF InSkipped
<1>9. ASSUME NEW m \in DOMAIN on
      PROVE  \E q \in 1..n + 1 :
               /\ Opener(doc, q, n + 2, m)
               /\ on[m] = [skip |-> InSkipped(doc, q), ucSkip |-> Uc(doc, q)]
  <2>1. PICK q \in 1..n : /\ Opener(doc, q, n + 1, m)
                          /\ stack[m] = [skip |-> InSkipped(doc, q), ucSkip |-> Uc(doc, q)]
    BY <1>4, <1>5 DEF Stacked
  <2>2. q \in 1..n + 1 /\ doc[q] = "open" /\ Depth(doc, q) = m - 1
    BY <2>1 DEF Opener
  <2>3. \A j \in q + 1..n + 1 : Depth(doc, j) >= m
    BY <2>1 DEF Opener
  <2>4. Depth(doc, n + 2) >= m
    BY <1>2, <1>4, <1>5
  <2>5. Opener(doc, q, n + 2, m)
    BY <2>2, <2>3, <2>4 DEF Opener
  <2> QED BY <1>5, <2>1, <2>2, <2>5
<1>10. Len(on) = Depth(doc, n + 2)
  BY <1>2, <1>4, <1>5
<1>11. stack # <<>>
  BY <1>4
<1> HIDE DEF on
<1>12. Stacked(doc, n + 1, on)
  BY <1>1, <1>9, <1>10 DEF Stacked
<1>13. on \in Seq(Saved)
  BY <1>5
<1> QED BY <1>8, <1>11, <1>12, <1>13 DEF on

\* A count that is not zero is followed by one more fallback character.
LEMMA Coming ==
  ASSUME NEW doc \in Seq(Token), WellWritten(doc), NEW n \in 0..Len(doc),
         NEW s \in PassState, Owed(doc, n, s)
  PROVE  /\ s.pendingUnicodeSkip > 0 => n + 1 \in DOMAIN doc /\ doc[n + 1] \in {"char", "hex"}
         /\ Fallback(doc, n + 1) <=> s.pendingUnicodeSkip > 0
<1>1. s.pendingUnicodeSkip \in 0..2 /\ \A k : Uc(doc, k) \in 0..2
  BY UcType DEF PassState
<1>2. ASSUME s.pendingUnicodeSkip > 0
      PROVE  n + 1 \in DOMAIN doc /\ doc[n + 1] \in {"char", "hex"} /\ Fallback(doc, n + 1)
  <2>1. PICK k \in 1..n : doc[k] = "u" /\ k + Uc(doc, k) = n + s.pendingUnicodeSkip
    BY <1>2 DEF Owed
  <2>2. k \in DOMAIN doc
    BY LenProperties
  <2>3. k + Uc(doc, k) <= Len(doc) /\ \A i \in k + 1..k + Uc(doc, k) : doc[i] \in {"char", "hex"}
    BY <2>1, <2>2 DEF WellWritten
  <2>4. n + 1 \in k + 1..k + Uc(doc, k) /\ n + 1 <= Len(doc)
    BY <1>1, <1>2, <2>1, <2>3
  <2>5. Fallback(doc, n + 1)
    BY <2>1, <2>2, <2>4 DEF Fallback
  <2> QED BY <2>3, <2>4, <2>5, LenProperties
<1>3. ASSUME Fallback(doc, n + 1)
      PROVE  s.pendingUnicodeSkip > 0
  <2>1. PICK k \in DOMAIN doc : doc[k] = "u" /\ k < n + 1 /\ n + 1 <= k + Uc(doc, k)
    BY <1>3 DEF Fallback
  <2>2. k \in 1..n
    BY <2>1, LenProperties
  <2>3. k + Uc(doc, k) <= n + s.pendingUnicodeSkip
    BY <2>1, <2>2 DEF Owed
  <2> QED BY <1>1, <2>1, <2>2, <2>3
<1> QED BY <1>2, <1>3

\* A place that is not shown adds nothing to the text.
LEMMA WrittenOn ==
  ASSUME NEW doc \in Seq(Token), NEW n \in 0..Len(doc), n + 1 \in DOMAIN doc,
         NEW out \in Seq(Nat \X {"any", "unicode", "cp1252", "cp1257"}), Written(doc, n, out),
         ~Shown(doc, n + 1)
  PROVE  Written(doc, n + 1, out)
<1>1. {i \in 1..n + 1 : Shown(doc, i)} = {i \in 1..n : Shown(doc, i)}
  OBVIOUS
<1> QED BY <1>1 DEF Written

\* A place that is shown is put out behind all before it.
LEMMA WrittenMore ==
  ASSUME NEW doc \in Seq(Token), NEW n \in 0..Len(doc), n + 1 \in DOMAIN doc,
         NEW out \in Seq(Nat \X {"any", "unicode", "cp1252", "cp1257"}), Written(doc, n, out),
         Shown(doc, n + 1)
  PROVE  /\ Append(out, <<n + 1, As(doc, n + 1)>>) \in Seq(Nat \X {"any", "unicode", "cp1252", "cp1257"})
         /\ Written(doc, n + 1, Append(out, <<n + 1, As(doc, n + 1)>>))
<1> DEFINE new == <<n + 1, As(doc, n + 1)>>
           on == Append(out, new)
<1>1. As(doc, n + 1) \in {"any", "unicode", "cp1252", "cp1257"}
  BY DEF Shown, As
<1>2. /\ on \in Seq(Nat \X {"any", "unicode", "cp1252", "cp1257"})
      /\ Len(on) = Len(out) + 1 /\ DOMAIN on = 1..Len(out) + 1
      /\ \A m \in DOMAIN out : on[m] = out[m]
      /\ on[Len(out) + 1] = new
      /\ DOMAIN out = 1..Len(out) /\ Len(out) \in Nat
  <2>1. new \in Nat \X {"any", "unicode", "cp1252", "cp1257"}
    BY <1>1
  <2> HIDE DEF new
  <2> QED BY <2>1, AppendProperties, LenProperties
<1>3. {on[m] : m \in DOMAIN on} = {out[m] : m \in DOMAIN out} \cup {new}
  <2> HIDE DEF on, new
  <2>1. DOMAIN on = DOMAIN out \cup {Len(out) + 1}
    BY <1>2
  <2>2. ASSUME NEW m \in DOMAIN on
        PROVE  on[m] \in {out[k] : k \in DOMAIN out} \cup {new}
    <3>1. CASE m \in DOMAIN out
      BY <1>2, <3>1
    <3>2. CASE m = Len(out) + 1
      BY <1>2, <3>2
    <3> QED BY <2>1, <3>1, <3>2
  <2>3. ASSUME NEW k \in DOMAIN out
        PROVE  out[k] \in {on[m] : m \in DOMAIN on}
    <3>1. k \in DOMAIN on /\ on[k] = out[k]
      BY <1>2, <2>1
    <3> QED BY <3>1
  <2>4. new \in {on[m] : m \in DOMAIN on}
    <3>1. Len(out) + 1 \in DOMAIN on /\ on[Len(out) + 1] = new
      BY <1>2, <2>1
    <3> QED BY <3>1
  <2> QED BY <2>2, <2>3, <2>4
<1>4. {<<i, As(doc, i)>> : i \in {i \in 1..n + 1 : Shown(doc, i)}}
        = {<<i, As(doc, i)>> : i \in {i \in 1..n : Shown(doc, i)}} \cup {new}
  <2>1. {i \in 1..n + 1 : Shown(doc, i)} = {i \in 1..n : Shown(doc, i)} \cup {n + 1}
    OBVIOUS
  <2> QED BY <2>1
<1>5. \A m \in DOMAIN out : out[m][1] \in 1..n
  <2>1. ASSUME NEW m \in DOMAIN out
        PROVE  out[m][1] \in 1..n
    <3>1. out[m] \in {<<i, As(doc, i)>> : i \in {i \in 1..n : Shown(doc, i)}}
      BY DEF Written
    <3> QED BY <3>1
  <2> QED BY <2>1
<1>6. ASSUME NEW p \in DOMAIN on, NEW q \in DOMAIN on, p < q
      PROVE  on[p][1] < on[q][1]
  <2>1. CASE q \in DOMAIN out
    <3>1. p \in DOMAIN out
      BY <1>2, <1>6, <2>1
    <3>2. on[p] = out[p] /\ on[q] = out[q] /\ out[p][1] < out[q][1]
      BY <1>2, <1>6, <2>1, <3>1 DEF Written
    <3> QED BY <3>2
  <2>2. CASE q = Len(out) + 1
    <3>1. p \in DOMAIN out /\ on[p] = out[p] /\ on[q] = new
      BY <1>2, <1>6, <2>2
    <3>2. new[1] = n + 1 /\ out[p][1] \in 1..n
      BY <1>5, <3>1
    <3> QED BY <3>1, <3>2
  <2> QED BY <1>2, <2>1, <2>2
<1>7. {on[m] : m \in DOMAIN on} = {<<i, As(doc, i)>> : i \in {i \in 1..n + 1 : Shown(doc, i)}}
  BY <1>3, <1>4 DEF Written
<1> HIDE DEF on, new
<1>8. Written(doc, n + 1, on)
  BY <1>6, <1>7 DEF Written
<1> QED BY <1>2, <1>8 DEF on, new

\* A token that is no text leaves the count, which is zero, as it is.
LEMMA OwedOn ==
  ASSUME NEW doc \in Seq(Token), WellWritten(doc), NEW n \in 0..Len(doc), n + 1 \in DOMAIN doc,
         doc[n + 1] \notin {"char", "hex", "u"}, NEW s \in PassState, Owed(doc, n, s),
         NEW t \in PassState, t.pendingUnicodeSkip = s.pendingUnicodeSkip
  PROVE  Owed(doc, n + 1, t)
<1>1. s.pendingUnicodeSkip = 0
  <2>1. ~(s.pendingUnicodeSkip > 0)
    BY Coming
  <2> QED BY <2>1 DEF PassState
<1>2. \A k : Uc(doc, k) \in 0..2
  BY UcType
<1> QED BY <1>1, <1>2 DEF Owed

\* A \uN is met when nothing is owed, and owes what its group has declared.
LEMMA OwedUnicode ==
  ASSUME NEW doc \in Seq(Token), WellWritten(doc), NEW n \in 0..Len(doc), n + 1 \in DOMAIN doc,
         doc[n + 1] = "u", NEW s \in PassState, Owed(doc, n, s),
         NEW t \in PassState, ~t.skip, t.pendingUnicodeSkip = Uc(doc, n + 1)
  PROVE  Owed(doc, n + 1, t)
<1>1. s.pendingUnicodeSkip = 0
  <2>1. ~(s.pendingUnicodeSkip > 0)
    BY Coming
  <2> QED BY <2>1 DEF PassState
<1>2. \A k : Uc(doc, k) \in 0..2
  BY UcType
<1>3. \A k \in 1..n : doc[k] = "u" => k + Uc(doc, k) <= n
  BY <1>1, <1>2 DEF Owed
<1> QED BY <1>2, <1>3 DEF Owed

\* A character counts as one of those that are owed.
LEMMA OwedText ==
  ASSUME NEW doc \in Seq(Token), NEW n \in 0..Len(doc), n + 1 \in DOMAIN doc,
         doc[n + 1] \in {"char", "hex"}, NEW s \in PassState, Owed(doc, n, s),
         NEW t \in PassState, t.skip = s.skip,
         t.pendingUnicodeSkip = IF s.pendingUnicodeSkip > 0 THEN s.pendingUnicodeSkip - 1 ELSE 0
  PROVE  Owed(doc, n + 1, t)
<1>1. s.pendingUnicodeSkip \in 0..2 /\ \A k : Uc(doc, k) \in 0..2
  BY UcType DEF PassState
<1>2. CASE s.pendingUnicodeSkip = 0
  BY <1>1, <1>2 DEF Owed
<1>3. CASE s.pendingUnicodeSkip > 0
  <2>1. t.pendingUnicodeSkip = s.pendingUnicodeSkip - 1
    BY <1>3
  <2>2. PICK k \in 1..n : doc[k] = "u" /\ k + Uc(doc, k) = n + s.pendingUnicodeSkip
    BY <1>3 DEF Owed
  <2>3. k \in 1..n + 1 /\ k + Uc(doc, k) = n + 1 + t.pendingUnicodeSkip
    BY <1>1, <2>1, <2>2
  <2>4. ~t.skip
    BY <1>3 DEF Owed
  <2>5. ASSUME NEW q \in 1..n + 1, doc[q] = "u"
        PROVE  q + Uc(doc, q) <= n + 1 + t.pendingUnicodeSkip
    <3>1. q \in 1..n
      BY <2>5
    <3>2. q + Uc(doc, q) <= n + s.pendingUnicodeSkip
      BY <2>5, <3>1 DEF Owed
    <3> QED BY <1>1, <2>1, <3>1, <3>2
  <2> QED BY <2>2, <2>3, <2>4, <2>5 DEF Owed
<1> QED BY <1>1, <1>2, <1>3

\* Which bytes are read by which code page.
Paged(doc, n, table) == table = IF \E k \in 1..n : doc[k] = "cpg" THEN "cp1257" ELSE "cp1252"

\* A code page holds for the bytes behind it.
LEMMA PagedOn ==
  ASSUME NEW doc \in Seq(Token), NEW n \in 0..Len(doc), n + 1 \in DOMAIN doc, NEW table,
         Paged(doc, n, table)
  PROVE  Paged(doc, n + 1, IF doc[n + 1] = "cpg" THEN "cp1257" ELSE table)
<1>1. CASE doc[n + 1] = "cpg"
  BY <1>1 DEF Paged
<1>2. CASE doc[n + 1] # "cpg"
  <2>1. (\E k \in 1..n + 1 : doc[k] = "cpg") <=> (\E k \in 1..n : doc[k] = "cpg")
    BY <1>2
  <2> QED BY <1>2, <2>1 DEF Paged
<1> QED BY <1>1, <1>2

\* Tracks, by its parts.
LEMMA TracksBy ==
  ASSUME NEW doc, NEW n, NEW s
  PROVE  Tracks(doc, n, s) <=>
           /\ s \in PassState
           /\ s.skip = InSkipped(doc, n + 1)
           /\ s.ucSkip = Uc(doc, n + 1)
           /\ Paged(doc, n, s.highTable)
           /\ Stacked(doc, n, s.stack)
           /\ Owed(doc, n, s)
           /\ Written(doc, n, s.out)
BY DEF Tracks, Paged

\* A step on a character or a byte.
LEMMA TracksText ==
  ASSUME NEW doc \in Seq(Token), WellWritten(doc), NEW n \in 0..Len(doc), n + 1 \in DOMAIN doc,
         NEW s, Tracks(doc, n, s), doc[n + 1] \in {"char", "hex"},
         NEW table \in {"any", "cp1252", "cp1257"}, table = As(doc, n + 1)
  PROVE  Tracks(doc, n + 1, Put(s, n + 1, table))
<1> DEFINE t == Put(s, n + 1, table)
<1>1. /\ s \in PassState
      /\ s.skip = InSkipped(doc, n + 1)
      /\ s.ucSkip = Uc(doc, n + 1)
      /\ Paged(doc, n, s.highTable)
      /\ Stacked(doc, n, s.stack)
      /\ Owed(doc, n, s)
      /\ Written(doc, n, s.out)
  BY TracksBy
<1>2. /\ s.pendingUnicodeSkip \in 0..2 /\ s.skip \in BOOLEAN /\ s.stack \in Seq(Saved)
      /\ s.out \in Seq(Nat \X {"any", "unicode", "cp1252", "cp1257"})
  BY <1>1 DEF PassState
<1>3. /\ t \in PassState
      /\ t.skip = s.skip /\ t.ucSkip = s.ucSkip /\ t.highTable = s.highTable /\ t.stack = s.stack
      /\ t.pendingUnicodeSkip = IF s.pendingUnicodeSkip > 0 THEN s.pendingUnicodeSkip - 1 ELSE 0
      /\ t.out = IF Shown(doc, n + 1) THEN Append(s.out, <<n + 1, As(doc, n + 1)>>) ELSE s.out
  <2>1. Fallback(doc, n + 1) <=> s.pendingUnicodeSkip > 0
    BY <1>1, Coming
  <2>2. CASE s.skip
    <3>1. t = s
      BY <2>2 DEF Put
    <3>2. s.pendingUnicodeSkip = 0
      BY <1>1, <1>2, <2>2 DEF Owed
    <3>3. ~Shown(doc, n + 1)
      BY <1>1, <2>2 DEF Shown
    <3> QED BY <1>1, <3>1, <3>2, <3>3
  <2>3. CASE ~s.skip /\ s.pendingUnicodeSkip > 0
    <3>1. t = [s EXCEPT !.pendingUnicodeSkip = @ - 1]
      BY <2>3 DEF Put
    <3>2. ~Shown(doc, n + 1)
      BY <2>1, <2>3 DEF Shown
    <3> QED BY <1>1, <1>2, <2>3, <3>1, <3>2 DEF PassState
  <2>4. CASE ~s.skip /\ s.pendingUnicodeSkip = 0
    <3>1. t = [s EXCEPT !.out = Append(@, <<n + 1, table>>)]
      BY <2>4 DEF Put
    <3>2. Shown(doc, n + 1)
      BY <1>1, <2>1, <2>4 DEF Shown
    <3>3. Append(s.out, <<n + 1, table>>) \in Seq(Nat \X {"any", "unicode", "cp1252", "cp1257"})
      BY <1>2
    <3> HIDE DEF t
    <3>4. t \in PassState
      BY <1>1, <3>1, <3>3 DEF PassState
    <3>5. /\ t.skip = s.skip /\ t.ucSkip = s.ucSkip /\ t.highTable = s.highTable
          /\ t.stack = s.stack /\ t.pendingUnicodeSkip = 0
          /\ t.out = Append(s.out, <<n + 1, table>>)
      BY <1>1, <2>4, <3>1 DEF PassState
    <3> QED BY <2>4, <3>2, <3>4, <3>5
  <2> QED BY <1>2, <2>2, <2>3, <2>4
<1> HIDE DEF t
<1>4. (InSkipped(doc, n + 2) <=> InSkipped(doc, n + 1)) /\ Uc(doc, n + 2) = Uc(doc, n + 1)
  <2>1. doc[n + 1] \notin {"close", "skip", "uc0", "uc2"} /\ n + 2 = (n + 1) + 1
    OBVIOUS
  <2> QED BY <2>1, SkippedOn, UcOn
<1>5. t.skip = InSkipped(doc, n + 2) /\ t.ucSkip = Uc(doc, n + 2)
  BY <1>1, <1>2, <1>3, <1>4 DEF InSkipped
<1>6. Paged(doc, n + 1, t.highTable)
  BY <1>1, <1>3, PagedOn
<1>7. Stacked(doc, n + 1, t.stack)
  BY <1>1, <1>2, <1>3, StackedOn
<1>8. Owed(doc, n + 1, t)
  BY <1>1, <1>3, OwedText
<1>9. Written(doc, n + 1, t.out)
  BY <1>1, <1>2, <1>3, WrittenOn, WrittenMore
<1>10. Tracks(doc, n + 1, t)
  <2>1. n + 2 = (n + 1) + 1
    OBVIOUS
  <2> QED BY <1>3, <1>5, <1>6, <1>7, <1>8, <1>9, <2>1, TracksBy
<1> QED BY <1>10 DEF t

\* A step on \uN.
LEMMA TracksUnicode ==
  ASSUME NEW doc \in Seq(Token), WellWritten(doc), NEW n \in 0..Len(doc), n + 1 \in DOMAIN doc,
         NEW s, Tracks(doc, n, s), doc[n + 1] = "u"
  PROVE  Tracks(doc, n + 1, Step(s, n + 1, "u"))
<1> DEFINE t == Step(s, n + 1, "u")
<1>1. /\ s \in PassState
      /\ s.skip = InSkipped(doc, n + 1)
      /\ s.ucSkip = Uc(doc, n + 1)
      /\ Paged(doc, n, s.highTable)
      /\ Stacked(doc, n, s.stack)
      /\ Owed(doc, n, s)
      /\ Written(doc, n, s.out)
  BY TracksBy
<1>2. /\ s.ucSkip \in 0..2 /\ s.skip \in BOOLEAN /\ s.stack \in Seq(Saved)
      /\ s.out \in Seq(Nat \X {"any", "unicode", "cp1252", "cp1257"})
      /\ s.pendingUnicodeSkip \in 0..2
  BY <1>1 DEF PassState
<1>3. ~InSkipped(doc, n + 1)
  BY DEF WellWritten
<1>4. Shown(doc, n + 1) /\ As(doc, n + 1) = "unicode"
  <2>1. ~Fallback(doc, n + 1)
    BY <1>1, <1>2, Coming
  <2> QED BY <1>3, <2>1 DEF Shown, As
<1>5. t = [s EXCEPT !.out = Append(@, <<n + 1, "unicode">>), !.pendingUnicodeSkip = s.ucSkip]
  BY <1>1, <1>3 DEF Step
<1>6. Append(s.out, <<n + 1, "unicode">>) \in Seq(Nat \X {"any", "unicode", "cp1252", "cp1257"})
  BY <1>2
<1>7. /\ t \in PassState
      /\ t.skip = s.skip /\ t.ucSkip = s.ucSkip /\ t.highTable = s.highTable /\ t.stack = s.stack
      /\ t.pendingUnicodeSkip = s.ucSkip
      /\ t.out = Append(s.out, <<n + 1, As(doc, n + 1)>>)
  BY <1>1, <1>2, <1>4, <1>5, <1>6 DEF PassState
<1> HIDE DEF t
<1>8. (InSkipped(doc, n + 2) <=> InSkipped(doc, n + 1)) /\ Uc(doc, n + 2) = Uc(doc, n + 1)
  <2>1. doc[n + 1] \notin {"close", "skip", "uc0", "uc2"} /\ n + 2 = (n + 1) + 1
    OBVIOUS
  <2> QED BY <2>1, SkippedOn, UcOn
<1>9. t.skip = InSkipped(doc, n + 2) /\ t.ucSkip = Uc(doc, n + 2)
  BY <1>1, <1>2, <1>7, <1>8 DEF InSkipped
<1>10. Paged(doc, n + 1, t.highTable)
  BY <1>1, <1>7, PagedOn
<1>11. Stacked(doc, n + 1, t.stack)
  BY <1>1, <1>2, <1>7, StackedOn
<1>12. Owed(doc, n + 1, t)
  BY <1>1, <1>3, <1>7, OwedUnicode
<1>13. Written(doc, n + 1, t.out)
  BY <1>1, <1>2, <1>4, <1>7, WrittenMore
<1>14. Tracks(doc, n + 1, t)
  <2>1. n + 2 = (n + 1) + 1
    OBVIOUS
  <2> QED BY <1>7, <1>9, <1>10, <1>11, <1>12, <1>13, <2>1, TracksBy
<1> QED BY <1>14 DEF t

\* A word, or the start or the end of a group: the groups and the words change, no text.
LEMMA TracksWord ==
  ASSUME NEW doc \in Seq(Token), WellWritten(doc), NEW n \in 0..Len(doc), n + 1 \in DOMAIN doc,
         NEW s, Tracks(doc, n, s), doc[n + 1] \notin {"char", "hex", "u"}
  PROVE  Tracks(doc, n + 1, Step(s, n + 1, doc[n + 1]))
<1> DEFINE t == Step(s, n + 1, doc[n + 1])
<1>1. /\ s \in PassState
      /\ s.skip = InSkipped(doc, n + 1)
      /\ s.ucSkip = Uc(doc, n + 1)
      /\ Paged(doc, n, s.highTable)
      /\ Stacked(doc, n, s.stack)
      /\ Owed(doc, n, s)
      /\ Written(doc, n, s.out)
  BY TracksBy
<1>2. /\ s.ucSkip \in 0..2 /\ s.skip \in BOOLEAN /\ s.stack \in Seq(Saved)
      /\ s.out \in Seq(Nat \X {"any", "unicode", "cp1252", "cp1257"})
      /\ s.pendingUnicodeSkip \in 0..2 /\ s.highTable \in {"cp1252", "cp1257"}
  BY <1>1 DEF PassState
<1>3. doc[n + 1] \in {"open", "close", "uc0", "uc2", "skip", "cpg"} /\ n + 2 = (n + 1) + 1
  <2>1. doc[n + 1] \in Token
    BY ElementOfSeq
  <2> QED BY <2>1 DEF Token
<1>4. doc[n + 1] # "close" =>
        /\ InSkipped(doc, n + 2) <=> InSkipped(doc, n + 1) \/ doc[n + 1] = "skip"
        /\ Uc(doc, n + 2) = CASE doc[n + 1] = "uc0" -> 0 [] doc[n + 1] = "uc2" -> 2
                              [] OTHER -> Uc(doc, n + 1)
  BY <1>3, SkippedOn, UcOn
<1>5. doc[n + 1] \notin {"open", "close"} => Stacked(doc, n + 1, s.stack)
  BY <1>1, <1>2, StackedOn
<1>6. Paged(doc, n + 1, IF doc[n + 1] = "cpg" THEN "cp1257" ELSE s.highTable)
  BY <1>1, PagedOn
<1>7. ~Shown(doc, n + 1)
  BY DEF Shown
<1>8. Written(doc, n + 1, s.out)
  BY <1>1, <1>2, <1>7, WrittenOn
<1>9. /\ t \in PassState
      /\ t.skip = InSkipped(doc, n + 2) /\ t.ucSkip = Uc(doc, n + 2)
      /\ t.highTable = IF doc[n + 1] = "cpg" THEN "cp1257" ELSE s.highTable
      /\ t.pendingUnicodeSkip = s.pendingUnicodeSkip /\ t.out = s.out
      /\ Stacked(doc, n + 1, t.stack)
  <2>1. CASE doc[n + 1] = "open"
    <3> DEFINE group == [skip |-> InSkipped(doc, n + 1), ucSkip |-> Uc(doc, n + 1)]
    <3>1. t = [s EXCEPT !.stack = Append(s.stack, group)]
      BY <1>1, <2>1 DEF Step
    <3>2. group \in Saved
      BY UcType DEF Saved, InSkipped
    <3>3. Stacked(doc, n + 1, Append(s.stack, group))
      BY <1>1, <1>2, <2>1, StackedOpen
    <3>4. s.skip = InSkipped(doc, n + 2) /\ s.ucSkip = Uc(doc, n + 2)
      BY <1>1, <1>4, <2>1 DEF InSkipped
    <3> HIDE DEF group
    <3>5. Append(s.stack, group) \in Seq(Saved)
      BY <1>2, <3>2
    <3> HIDE DEF t
    <3> QED BY <1>1, <1>2, <2>1, <3>1, <3>3, <3>4, <3>5 DEF PassState
  <2>2. CASE doc[n + 1] = "close"
    <3>0. Balanced(doc)
      BY DEF WellWritten
    <3>1. /\ s.stack # <<>>
          /\ s.stack[Len(s.stack)] = [skip |-> InSkipped(doc, n + 2), ucSkip |-> Uc(doc, n + 2)]
          /\ SubSeq(s.stack, 1, Len(s.stack) - 1) \in Seq(Saved)
          /\ Stacked(doc, n + 1, SubSeq(s.stack, 1, Len(s.stack) - 1))
      BY <1>1, <1>2, <2>2, <3>0, StackedClose
    <3>2. t = [s EXCEPT !.skip = InSkipped(doc, n + 2), !.ucSkip = Uc(doc, n + 2),
                        !.stack = SubSeq(s.stack, 1, Len(s.stack) - 1)]
      BY <2>2, <3>1 DEF Step, Close, Top
    <3>3. InSkipped(doc, n + 2) \in BOOLEAN /\ Uc(doc, n + 2) \in 0..2
      BY UcType DEF InSkipped
    <3> HIDE DEF t
    <3> QED BY <1>1, <1>2, <2>2, <3>1, <3>2, <3>3 DEF PassState
  <2>3. CASE doc[n + 1] \in {"uc0", "uc2", "skip", "cpg"}
    <3>1. InSkipped(doc, n + 2) \in BOOLEAN /\ Uc(doc, n + 2) \in 0..2
      BY UcType DEF InSkipped
    <3>2. t = [s EXCEPT !.skip = InSkipped(doc, n + 2), !.ucSkip = Uc(doc, n + 2),
                        !.highTable = IF doc[n + 1] = "cpg" THEN "cp1257" ELSE s.highTable]
      BY <1>1, <1>2, <1>4, <2>3, <3>1 DEF Step, PassState
    <3> HIDE DEF t
    <3> QED BY <1>1, <1>2, <1>5, <2>3, <3>1, <3>2 DEF PassState
  <2> QED BY <1>3, <2>1, <2>2, <2>3
<1> HIDE DEF t
<1>10. Paged(doc, n + 1, t.highTable) /\ Written(doc, n + 1, t.out)
  BY <1>6, <1>8, <1>9
<1>11. Owed(doc, n + 1, t)
  BY <1>1, <1>9, OwedOn
<1>12. Tracks(doc, n + 1, t)
  BY <1>3, <1>9, <1>10, <1>11, TracksBy
<1> QED BY <1>12 DEF t

\* A step on any token.
LEMMA TracksOn ==
  ASSUME NEW doc \in Seq(Token), WellWritten(doc), NEW n \in 0..Len(doc), n + 1 \in DOMAIN doc,
         NEW s, Tracks(doc, n, s)
  PROVE  Tracks(doc, n + 1, Step(s, n + 1, doc[n + 1]))
<1>1. CASE doc[n + 1] = "char"
  <2>1. As(doc, n + 1) = "any" /\ Step(s, n + 1, doc[n + 1]) = Put(s, n + 1, "any")
    BY <1>1 DEF As, Step
  <2> QED BY <1>1, <2>1, TracksText
<1>2. CASE doc[n + 1] = "hex"
  <2>1. As(doc, n + 1) = s.highTable /\ s.highTable \in {"cp1252", "cp1257"}
    <3>1. Paged(doc, n, s.highTable)
      BY TracksBy
    <3>2. 1..(n + 1) - 1 = 1..n
      OBVIOUS
    <3> QED BY <1>2, <3>1, <3>2 DEF As, Paged
  <2>2. Step(s, n + 1, doc[n + 1]) = Put(s, n + 1, s.highTable)
    BY <1>2 DEF Step
  <2> QED BY <1>2, <2>1, <2>2, TracksText
<1>3. CASE doc[n + 1] = "u"
  BY <1>3, TracksUnicode
<1>4. CASE doc[n + 1] \notin {"char", "hex", "u"}
  BY <1>4, TracksWord
<1> QED BY <1>1, <1>2, <1>3, <1>4

\* The first state is that of no token read.
LEMMA TracksStart ==
  ASSUME NEW doc \in Seq(Token)
  PROVE  Tracks(doc, 0, Start)
<1>1. \A k \in DOMAIN doc : ~Reaches(doc, k, 1)
  BY LenProperties DEF Reaches
<1>2. ~InSkipped(doc, 1) /\ Uc(doc, 1) = 1
  BY <1>1 DEF InSkipped, Uc, Declared
<1>3. Start \in PassState
  BY DEF Start, PassState, Saved
<1>4. Stacked(doc, 0, <<>>)
  BY Outside DEF Stacked
<1>5. Owed(doc, 0, Start)
  BY DEF Owed, Start
<1>6. Written(doc, 0, <<>>)
  BY DEF Written
<1>7. Paged(doc, 0, "cp1252")
  BY DEF Paged
<1>8. Start.skip = InSkipped(doc, 1)
  BY <1>2 DEF Start, InSkipped
<1>9. Start.ucSkip = Uc(doc, 1) /\ Start.stack = <<>> /\ Start.out = <<>> /\ Start.highTable = "cp1252"
  BY <1>2 DEF Start
<1> QED BY <1>3, <1>4, <1>5, <1>6, <1>7, <1>8, <1>9, TracksBy

\* extractRtf puts out the text of every document that is well written, in order: one
\* whose groups close, and each of whose \uN stands in text that is shown, right before
\* its fallback characters.  (Those of a \uN in a skipped destination are taken from the
\* text behind it: nothing is said of such a document.)
THEOREM RtfKept == \A doc \in Seq(Token) : RtfMeans(doc)
<1> SUFFICES ASSUME NEW doc \in Seq(Token), WellWritten(doc)
             PROVE  LET out == ExtractRtf(doc)
                    IN  /\ {out[n] : n \in DOMAIN out} = {<<i, As(doc, i)>> : i \in {i \in DOMAIN doc : Shown(doc, i)}}
                        /\ \A m, n \in DOMAIN out : m < n => out[m][1] < out[n][1]
  BY DEF RtfMeans
<1> DEFINE run == Pass(doc)
           T == {n \in Nat : Tracks(doc, n, run[n])}
<1>1. Len(doc) \in Nat /\ DOMAIN doc = 1..Len(doc)
  BY LenProperties
<1>2. \A i \in 0..Len(doc) : run[i] = IF i = 0 THEN Start ELSE Step(run[i - 1], i, doc[i])
  <2>1. PassTo(doc, Len(doc), run)
    BY <1>1, PassDefined
  <2> HIDE DEF run
  <2> QED BY <1>1, <2>1 DEF PassTo
<1> HIDE DEF run
<1>3. 0 \in T
  <2>1. run[0] = Start
    BY <1>1, <1>2
  <2> QED BY <2>1, TracksStart
<1>4. ASSUME NEW n \in 0..Len(doc), n < Len(doc), n \in T
      PROVE  n + 1 \in T
  <2>1. n + 1 \in DOMAIN doc /\ run[n + 1] = Step(run[n], n + 1, doc[n + 1])
    BY <1>1, <1>2, <1>4
  <2>2. Tracks(doc, n + 1, run[n + 1])
    BY <1>4, <2>1, TracksOn
  <2> QED BY <2>2
<1>5. 0..Len(doc) \subseteq T
  <2> HIDE DEF T
  <2> QED BY <1>1, <1>3, <1>4, UpTo
<1>6. Written(doc, Len(doc), run[Len(doc)].out)
  <2>1. Tracks(doc, Len(doc), run[Len(doc)])
    BY <1>1, <1>5
  <2> QED BY <2>1, TracksBy
<1> QED BY <1>1, <1>6 DEF ExtractRtf, Written, run

-----------------------------------------------------------------------------
(* Queries.  What is rendered at each level of nesting means what it renders. *)

\* The columns are different.
LEMMA PathsDiffer ==
  /\ Name # Key /\ Name # OwnerId /\ Name # OwnerKey /\ Name # NoField /\ Name # CreatedOn
  /\ Key # OwnerId /\ Key # OwnerKey /\ Key # NoField /\ Key # CreatedOn
  /\ OwnerId # OwnerKey /\ OwnerId # NoField /\ OwnerKey # NoField
  /\ CreatedOn # OwnerId /\ CreatedOn # OwnerKey /\ CreatedOn # NoField
BY DEF Name, Key, OwnerId, OwnerKey, NoField, CreatedOn

Columns == {Name, CreatedOn, Key, OwnerId, OwnerKey}

\* Navigating a lookup keeps the value of a record, and its type.
LEMMA SameValue ==
  ASSUME NEW row, NEW path \in Columns, NEW value
  PROVE  /\ ValueAt(row, Navigated(path, value)) = ValueAt(row, path)
         /\ (path = OwnerId => value \in Guid) => Navigated(path, value) # OwnerId
BY PathsDiffer DEF Columns, ValueAt, Navigated, LookupIdPath

\* The literal of a value that fits its column has the column's type, in either
\* dialect, and is read as the value.
LEMMA LiteralKept ==
  ASSUME ValueAssumption, NEW column \in Columns, NEW value, Fits(column, value),
         NEW path, path \in {column, Navigated(column, value)},
         NEW temporal \in BOOLEAN, column = CreatedOn => temporal
  PROVE  /\ ODataLiteral(path, value, temporal).type = TypeOf(path)
         /\ Read(ODataLiteral(path, value, temporal)) = Wanted(value)
         /\ Parameter(value).type = TypeOf(path)
         /\ Read(Parameter(value)) = Wanted(value)
<1> DEFINE literal == ODataLiteral(path, value, temporal)
           parameter == Parameter(value)
<1>1. /\ literal.value = value
      /\ literal.type = CASE value = Null -> "Null"
                          [] value \in Guid /\ path \in Idish -> "Guid"
                          [] value \in DateLike /\ temporal -> "DateTime"
                          [] OTHER -> "Text"
  BY DEF ODataLiteral
<1>2. /\ parameter.type = InferDataValueType(value)
      /\ parameter.value = IF InferDataValueType(value) = "DateTime" /\ value \in DateLike
                           THEN WallClock(value) ELSE value
  BY DEF Parameter, Encoded
<1> HIDE DEF literal, parameter
<1>3. CASE column = Name
  <2>1. value \in Text /\ value # Null /\ value \notin Guid /\ value \notin DateLike
    BY <1>3, PathsDiffer DEF Fits, Idish, ValueAssumption
  <2>2. path = Name /\ TypeOf(path) = "Text"
    BY <1>3, <2>1, PathsDiffer DEF Navigated, TypeOf
  <2>3. literal.type = "Text" /\ parameter.type = "Text" /\ parameter.value = value
    BY <1>1, <1>2, <2>1 DEF InferDataValueType
  <2> QED BY <1>1, <2>1, <2>2, <2>3 DEF Read, Wanted, literal, parameter
<1>4. CASE column = CreatedOn
  <2>1. /\ value \in DateLike /\ value.zone = 0 /\ value # Null /\ value \notin Guid
        /\ value \in [clock : Int, zone : Int]
    BY <1>4, PathsDiffer DEF Fits, Idish, ValueAssumption
  <2>2. path = CreatedOn /\ TypeOf(path) = "DateTime"
    BY <1>4, <2>1, PathsDiffer DEF Navigated, TypeOf
  <2>3. literal.type = "DateTime" /\ parameter.type = "DateTime"
    BY <1>1, <1>2, <1>4, <2>1 DEF InferDataValueType
  <2>4. parameter.value = value
    <3>1. parameter.value = WallClock(value)
      BY <1>2, <2>1, <2>3
    <3>2. WallClock(value) = value
      BY <2>1 DEF WallClock
    <3> QED BY <3>1, <3>2
  <2> QED BY <1>1, <2>1, <2>2, <2>3, <2>4 DEF Read, Wanted, literal, parameter
<1>5. CASE column \in Idish
  <2>1. value \in Guid /\ value # Null /\ value \notin DateLike
    BY <1>5, PathsDiffer DEF Fits, Idish, ValueAssumption
  <2>2. path \in Idish /\ TypeOf(path) = "Guid"
    BY <1>5, <2>1, PathsDiffer DEF Idish, Navigated, LookupIdPath, TypeOf
  <2>3. literal.type = "Guid" /\ parameter.type = "Guid" /\ parameter.value = value
    BY <1>1, <1>2, <2>1, <2>2 DEF InferDataValueType
  <2> QED BY <1>1, <2>1, <2>2, <2>3 DEF Read, Wanted, literal, parameter
<1> QED BY <1>3, <1>4, <1>5 DEF Columns, Idish

\* A group of none is nothing, and a group of one is that one.
LEMMA JoinedIs ==
  ASSUME NEW logic, NEW items
  PROVE  LET rendered == {item \in items : IsNode(item)}
         IN  \/ rendered = {} /\ Joined(logic, items) = NoNode
             \/ \E item \in items : IsNode(item) /\ rendered = {item} /\ Joined(logic, items) = item
             \/ rendered # {} /\ Joined(logic, items) = Group(logic, rendered)
<1> DEFINE rendered == {item \in items : IsNode(item)}
<1>1. CASE rendered = {}
  BY <1>1 DEF Joined
<1>2. CASE \E item \in rendered : rendered = {item}
  <2>1. PICK item \in rendered : rendered = {item}
    BY <1>2
  <2>2. (CHOOSE x \in rendered : TRUE) = item
    BY <2>1
  <2>3. Joined(logic, items) = CHOOSE x \in rendered : TRUE
    BY <1>2, <2>1 DEF Joined
  <2> QED BY <2>1, <2>2, <2>3
<1>3. CASE rendered # {} /\ ~\E item \in rendered : rendered = {item}
  BY <1>3 DEF Joined
<1> QED BY <1>1, <1>2, <1>3

\* A filter means the same a level further out.
LEMMA LiftAlone ==
  ASSUME NEW filter, NavigatedAlone(filter)
  PROVE  /\ NavigatedList(filter) /\ filter.kind # "group"
         /\ \A row : SelectsList(filter, row) = SelectsAlone(filter, row)
BY DEF NavigatedAlone, NavigatedList, Throughout, SelectsList, Within

\* The same for a list.
LEMMA LiftList ==
  ASSUME NEW filter, NavigatedList(filter)
  PROVE  /\ NavigatedOne(filter)
         /\ \A row : SelectsOne(filter, row) = SelectsList(filter, row)
<1>1. CASE filter.kind = "group"
  <2>1. \A item \in filter.items : NavigatedAlone(item)
    BY <1>1 DEF NavigatedList, Throughout
  <2> QED BY <1>1, <2>1, LiftAlone DEF NavigatedOne, Throughout, SelectsOne, SelectsList, Within
<1>2. CASE filter.kind # "group"
  BY <1>2 DEF NavigatedList, NavigatedOne, Throughout, SelectsOne, SelectsList, Within
<1> QED BY <1>1, <1>2

\* The same for `all` or `any`.
LEMMA LiftOne ==
  ASSUME NEW filter, NavigatedOne(filter)
  PROVE  /\ NavigatedBoth(filter)
         /\ \A row : SelectsBoth(filter, row) = SelectsOne(filter, row)
<1>1. CASE filter.kind = "group"
  <2>1. \A item \in filter.items : NavigatedList(item)
    BY <1>1 DEF NavigatedOne, Throughout
  <2> QED BY <1>1, <2>1, LiftList DEF NavigatedBoth, Throughout, SelectsBoth, SelectsOne, Within
<1>2. CASE filter.kind # "group"
  BY <1>2 DEF NavigatedBoth, NavigatedOne, Throughout, SelectsBoth, SelectsOne, Within
<1> QED BY <1>1, <1>2

\* The same for both of them.
LEMMA LiftBoth ==
  ASSUME NEW filter, NavigatedBoth(filter)
  PROVE  /\ ByLookup(filter)
         /\ \A row : Selects(filter, row) = SelectsBoth(filter, row)
<1>1. CASE filter.kind = "group"
  <2>1. \A item \in filter.items : NavigatedOne(item)
    BY <1>1 DEF NavigatedBoth, Throughout
  <2> QED BY <1>1, <2>1, LiftOne DEF ByLookup, NavigatedBoth, Throughout, Selects, SelectsBoth, Within
<1>2. CASE filter.kind # "group"
  BY <1>2 DEF ByLookup, NavigatedBoth, Throughout, Selects, SelectsBoth, Within
<1> QED BY <1>1, <1>2

\* What joins filters selects what all of them select, or what one of them selects.
LEMMA JoinedList ==
  ASSUME NEW logic \in {"and", "or"}, NEW items, \A item \in items : NavigatedAlone(item),
         NEW joined, joined = Joined(logic, items)
  PROVE  /\ NavigatedList(joined)
         /\ IsNode(joined) <=> \E item \in items : IsNode(item)
         /\ \A row : logic = "and" =>
              (SelectsList(joined, row) <=> \A item \in items : IsNode(item) => SelectsAlone(item, row))
         /\ \A row : logic = "or" /\ IsNode(joined) =>
              (SelectsList(joined, row) <=> \E item \in items : IsNode(item) /\ SelectsAlone(item, row))
<1> DEFINE rendered == {item \in items : IsNode(item)}
<1>1. CASE rendered = {} /\ joined = NoNode
  <2>1. joined.kind = "none" /\ \A item \in items : ~IsNode(item)
    BY <1>1 DEF NoNode
  <2>2. NavigatedList(joined) /\ ~IsNode(joined)
    BY <2>1 DEF NavigatedList, Throughout, NavigatedAlone, IsNode
  <2>3. \A row : SelectsList(joined, row)
    BY <2>1 DEF SelectsList, Within, SelectsAlone
  <2> QED BY <2>1, <2>2, <2>3
<1>2. ASSUME NEW item \in items, IsNode(item), rendered = {item}, joined = item
      PROVE  /\ NavigatedList(joined) /\ IsNode(joined)
             /\ \A row : SelectsList(joined, row) = SelectsAlone(item, row)
  BY <1>2, LiftAlone
<1>3. CASE rendered # {} /\ joined = Group(logic, rendered)
  <2>1. joined.kind = "group" /\ joined.logic = logic /\ joined.items = rendered
    BY <1>3 DEF Group
  <2>2. NavigatedList(joined) /\ IsNode(joined)
    BY <2>1 DEF NavigatedList, Throughout, IsNode
  <2>3. \A row : logic = "and" =>
          (SelectsList(joined, row) <=> \A item \in rendered : SelectsAlone(item, row))
    BY <2>1 DEF SelectsList, Within
  <2>4. \A row : logic = "or" =>
          (SelectsList(joined, row) <=> \E item \in rendered : SelectsAlone(item, row))
    BY <2>1 DEF SelectsList, Within
  <2> QED BY <1>3, <2>2, <2>3, <2>4
<1>4. CASE \E item \in items : IsNode(item) /\ rendered = {item} /\ joined = item
  <2>1. PICK item \in items : IsNode(item) /\ rendered = {item} /\ joined = item
    BY <1>4
  <2>2. \A x \in items : IsNode(x) => x = item
    BY <2>1
  <2> QED BY <1>2, <2>1, <2>2
<1> QED BY <1>1, <1>3, <1>4, JoinedIs

\* The same for `all` or `any`.
LEMMA JoinedOne ==
  ASSUME NEW logic \in {"and", "or"}, NEW items, \A item \in items : NavigatedList(item),
         NEW joined, joined = Joined(logic, items)
  PROVE  /\ NavigatedOne(joined)
         /\ IsNode(joined) <=> \E item \in items : IsNode(item)
         /\ \A row : logic = "and" =>
              (SelectsOne(joined, row) <=> \A item \in items : IsNode(item) => SelectsList(item, row))
         /\ \A row : logic = "or" /\ IsNode(joined) =>
              (SelectsOne(joined, row) <=> \E item \in items : IsNode(item) /\ SelectsList(item, row))
<1> DEFINE rendered == {item \in items : IsNode(item)}
<1>1. CASE rendered = {} /\ joined = NoNode
  <2>1. joined.kind = "none" /\ \A item \in items : ~IsNode(item)
    BY <1>1 DEF NoNode
  <2>2. NavigatedOne(joined) /\ ~IsNode(joined)
    BY <2>1 DEF NavigatedOne, Throughout, NavigatedAlone, IsNode
  <2>3. \A row : SelectsOne(joined, row)
    BY <2>1 DEF SelectsOne, Within, SelectsAlone
  <2> QED BY <2>1, <2>2, <2>3
<1>2. ASSUME NEW item \in items, IsNode(item), rendered = {item}, joined = item
      PROVE  /\ NavigatedOne(joined) /\ IsNode(joined)
             /\ \A row : SelectsOne(joined, row) = SelectsList(item, row)
  BY <1>2, LiftList
<1>3. CASE rendered # {} /\ joined = Group(logic, rendered)
  <2>1. joined.kind = "group" /\ joined.logic = logic /\ joined.items = rendered
    BY <1>3 DEF Group
  <2>2. NavigatedOne(joined) /\ IsNode(joined)
    BY <2>1 DEF NavigatedOne, Throughout, IsNode
  <2>3. \A row : logic = "and" =>
          (SelectsOne(joined, row) <=> \A item \in rendered : SelectsList(item, row))
    BY <2>1 DEF SelectsOne, Within
  <2>4. \A row : logic = "or" =>
          (SelectsOne(joined, row) <=> \E item \in rendered : SelectsList(item, row))
    BY <2>1 DEF SelectsOne, Within
  <2> QED BY <1>3, <2>2, <2>3, <2>4
<1>4. CASE \E item \in items : IsNode(item) /\ rendered = {item} /\ joined = item
  <2>1. PICK item \in items : IsNode(item) /\ rendered = {item} /\ joined = item
    BY <1>4
  <2>2. \A x \in items : IsNode(x) => x = item
    BY <2>1
  <2> QED BY <1>2, <2>1, <2>2
<1> QED BY <1>1, <1>3, <1>4, JoinedIs

\* The same for both of them.
LEMMA JoinedBoth ==
  ASSUME NEW logic \in {"and", "or"}, NEW items, \A item \in items : NavigatedOne(item),
         NEW joined, joined = Joined(logic, items)
  PROVE  /\ NavigatedBoth(joined)
         /\ IsNode(joined) <=> \E item \in items : IsNode(item)
         /\ \A row : logic = "and" =>
              (SelectsBoth(joined, row) <=> \A item \in items : IsNode(item) => SelectsOne(item, row))
         /\ \A row : logic = "or" /\ IsNode(joined) =>
              (SelectsBoth(joined, row) <=> \E item \in items : IsNode(item) /\ SelectsOne(item, row))
<1> DEFINE rendered == {item \in items : IsNode(item)}
<1>1. CASE rendered = {} /\ joined = NoNode
  <2>1. joined.kind = "none" /\ \A item \in items : ~IsNode(item)
    BY <1>1 DEF NoNode
  <2>2. NavigatedBoth(joined) /\ ~IsNode(joined)
    BY <2>1 DEF NavigatedBoth, Throughout, NavigatedAlone, IsNode
  <2>3. \A row : SelectsBoth(joined, row)
    BY <2>1 DEF SelectsBoth, Within, SelectsAlone
  <2> QED BY <2>1, <2>2, <2>3
<1>2. ASSUME NEW item \in items, IsNode(item), rendered = {item}, joined = item
      PROVE  /\ NavigatedBoth(joined) /\ IsNode(joined)
             /\ \A row : SelectsBoth(joined, row) = SelectsOne(item, row)
  BY <1>2, LiftOne
<1>3. CASE rendered # {} /\ joined = Group(logic, rendered)
  <2>1. joined.kind = "group" /\ joined.logic = logic /\ joined.items = rendered
    BY <1>3 DEF Group
  <2>2. NavigatedBoth(joined) /\ IsNode(joined)
    BY <2>1 DEF NavigatedBoth, Throughout, IsNode
  <2>3. \A row : logic = "and" =>
          (SelectsBoth(joined, row) <=> \A item \in rendered : SelectsOne(item, row))
    BY <2>1 DEF SelectsBoth, Within
  <2>4. \A row : logic = "or" =>
          (SelectsBoth(joined, row) <=> \E item \in rendered : SelectsOne(item, row))
    BY <2>1 DEF SelectsBoth, Within
  <2> QED BY <1>3, <2>2, <2>3, <2>4
<1>4. CASE \E item \in items : IsNode(item) /\ rendered = {item} /\ joined = item
  <2>1. PICK item \in items : IsNode(item) /\ rendered = {item} /\ joined = item
    BY <1>4
  <2>2. \A x \in items : IsNode(x) => x = item
    BY <2>1
  <2> QED BY <1>2, <2>1, <2>2
<1> QED BY <1>1, <1>3, <1>4, JoinedIs

\* The same with a raw filter beside them.
LEMMA JoinedByRaw ==
  ASSUME NEW logic \in {"and", "or"}, NEW items, \A item \in items : NavigatedBoth(item),
         NEW joined, joined = Joined(logic, items)
  PROVE  /\ ByLookup(joined)
         /\ IsNode(joined) <=> \E item \in items : IsNode(item)
         /\ \A row : logic = "and" =>
              (Selects(joined, row) <=> \A item \in items : IsNode(item) => SelectsBoth(item, row))
         /\ \A row : logic = "or" /\ IsNode(joined) =>
              (Selects(joined, row) <=> \E item \in items : IsNode(item) /\ SelectsBoth(item, row))
<1> DEFINE rendered == {item \in items : IsNode(item)}
<1>1. CASE rendered = {} /\ joined = NoNode
  <2>1. joined.kind = "none" /\ \A item \in items : ~IsNode(item)
    BY <1>1 DEF NoNode
  <2>2. ByLookup(joined) /\ ~IsNode(joined)
    BY <2>1 DEF ByLookup, Throughout, NavigatedAlone, IsNode
  <2>3. \A row : Selects(joined, row)
    BY <2>1 DEF Selects, Within, SelectsAlone
  <2> QED BY <2>1, <2>2, <2>3
<1>2. ASSUME NEW item \in items, IsNode(item), rendered = {item}, joined = item
      PROVE  /\ ByLookup(joined) /\ IsNode(joined)
             /\ \A row : Selects(joined, row) = SelectsBoth(item, row)
  BY <1>2, LiftBoth
<1>3. CASE rendered # {} /\ joined = Group(logic, rendered)
  <2>1. joined.kind = "group" /\ joined.logic = logic /\ joined.items = rendered
    BY <1>3 DEF Group
  <2>2. ByLookup(joined) /\ IsNode(joined)
    BY <2>1 DEF ByLookup, Throughout, IsNode
  <2>3. \A row : logic = "and" =>
          (Selects(joined, row) <=> \A item \in rendered : SelectsBoth(item, row))
    BY <2>1 DEF Selects, Within
  <2>4. \A row : logic = "or" =>
          (Selects(joined, row) <=> \E item \in rendered : SelectsBoth(item, row))
    BY <2>1 DEF Selects, Within
  <2> QED BY <1>3, <2>2, <2>3, <2>4
<1>4. CASE \E item \in items : IsNode(item) /\ rendered = {item} /\ joined = item
  <2>1. PICK item \in items : IsNode(item) /\ rendered = {item} /\ joined = item
    BY <1>4
  <2>2. \A x \in items : IsNode(x) => x = item
    BY <2>1
  <2> QED BY <1>2, <2>1, <2>2
<1> QED BY <1>1, <1>3, <1>4, JoinedIs

-----------------------------------------------------------------------------
(* Conditions, groups of them and filters. *)

Backend == {"odata", "dataservice"}

\* The columns and operators of a condition.
LEMMA ConditionKinds ==
  ASSUME NEW c \in Condition
  PROVE  /\ c.field \in Columns \cup {NoField}
         /\ \/ /\ c.kind = "condition" /\ c.op \in {"eq", "ne", "ge", "contains"}
               /\ c.field = OwnerId => c.op \in {"eq", "ne"} /\ c.value \in Guid \cup {Null}
            \/ c.kind = "in" /\ (c.field = OwnerId => \A value \in c.values : value \in Guid)
<1>1. CASE c \in [kind : {"condition"}, field : {Name, CreatedOn, Key, OwnerKey, NoField},
                  op : {"eq", "ne", "ge", "contains"}, value : Value]
  BY <1>1, PathsDiffer DEF Columns
<1>2. CASE c \in [kind : {"condition"}, field : {OwnerId}, op : {"eq", "ne"}, value : Guid \cup {Null}]
  BY <1>2 DEF Columns
<1>3. CASE c \in [kind : {"in"}, field : {Name, CreatedOn, Key, OwnerKey, NoField}, values : SUBSET Value]
  BY <1>3, PathsDiffer DEF Columns
<1>4. CASE c \in [kind : {"in"}, field : {OwnerId}, values : SUBSET Guid]
  BY <1>4 DEF Columns
<1> QED BY <1>1, <1>2, <1>3, <1>4 DEF Condition

\* A condition is left out if it says nothing, and is no group.
LEMMA NodeOf ==
  ASSUME NEW c \in Condition
  PROVE  /\ IsNode(ToNode(c)) <=> Says(c)
         /\ ToNode(c).kind # "group"
BY ConditionKinds DEF ToNode, IsNode, NoNode, Says

\* A comparison, in either dialect, selects what it says, if it fits.
LEMMA ComparisonKept ==
  ASSUME ValueAssumption,
         NEW c \in Condition, c.kind = "condition", Says(c), NEW backend \in Backend
  PROVE  LET f == RenderedCondition(backend, ToNode(c))
         IN  /\ NavigatedList(f) /\ IsNode(f)
             /\ Fitting(c) => \A row : SelectsList(f, row) <=> True(c, row)
<1> DEFINE node == ToNode(c)
           f == RenderedCondition(backend, node)
<1>1. /\ c.field \in Columns /\ c.op \in {"eq", "ne", "ge", "contains"}
      /\ c.field = OwnerId => c.op \in {"eq", "ne"} /\ c.value \in Guid \cup {Null}
  BY ConditionKinds DEF Says
<1>2. CASE c.value = Null /\ c.op \in {"eq", "ne"}
  <2>1. node = [kind |-> "condition", field |-> c.field, value |-> Null,
                op |-> IF c.op = "eq" THEN "isNull" ELSE "isNotNull"]
    BY <1>2 DEF ToNode, Says
  <2>2. /\ node.kind = "condition" /\ node.field = c.field
        /\ node.op = IF c.op = "eq" THEN "isNull" ELSE "isNotNull"
    BY <2>1
  <2>3. f = NullCheck(c.field, c.op = "eq")
    <3>1. CASE backend = "odata"
      <4>1. f = ODataCondition(node)
        BY <2>2, <3>1 DEF RenderedCondition
      <4> HIDE DEF node, f
      <4>2. CASE c.op = "eq"
        BY <2>2, <4>1, <4>2 DEF ODataCondition
      <4>3. CASE c.op = "ne"
        BY <2>2, <4>1, <4>3 DEF ODataCondition
      <4> QED BY <1>2, <4>2, <4>3
    <3>2. CASE backend = "dataservice"
      <4>1. f = DataServiceCondition(node)
        BY <2>2, <3>2 DEF RenderedCondition
      <4> HIDE DEF node, f
      <4>2. (node.op = "isNull") = (c.op = "eq")
        BY <1>2, <2>2
      <4> QED BY <1>2, <2>2, <4>1, <4>2 DEF DataServiceCondition, DataServiceNull
    <3> QED BY <3>1, <3>2 DEF Backend
  <2> HIDE DEF f
  <2>4. f.kind = "null" /\ f.path = c.field /\ f.is = (c.op = "eq")
    BY <2>3 DEF NullCheck
  <2>5. NavigatedAlone(f) /\ IsNode(f)
    BY <2>4 DEF NavigatedAlone, IsNode
  <2>6. \A row : SelectsAlone(f, row) <=> True(c, row)
    <3>1. Wanted(Null) = Null
      BY DEF Wanted, ValueAssumption
    <3> QED BY <1>2, <2>4, <3>1 DEF SelectsAlone, True, Sat
  <2> QED BY <2>5, <2>6, LiftAlone DEF f
<1>3. CASE ~(c.value = Null /\ c.op \in {"eq", "ne"})
  <2>1. node = c
    BY <1>3 DEF ToNode, Says
  <2>2. c.op \notin {"isNull", "isNotNull"}
    BY <1>1
  <2> DEFINE temporal == c.op # "contains"
  <2>3. PICK path, literal :
          /\ f = Compare(path, c.op, literal)
          /\ path = Navigated(c.field, c.value) \/ (path = c.field /\ c.op \in {"ge", "contains"})
          /\ literal \in {ODataLiteral(path, c.value, temporal), Parameter(c.value)}
    <3>1. CASE backend = "odata"
      BY <1>1, <2>1, <2>2, <3>1 DEF RenderedCondition, ODataCondition
    <3>2. CASE backend = "dataservice"
      BY <1>1, <2>1, <2>2, <3>2 DEF RenderedCondition, DataServiceCondition
    <3> QED BY <3>1, <3>2 DEF Backend
  <2>4. path # OwnerId /\ \A row : ValueAt(row, path) = ValueAt(row, c.field)
    BY <1>1, <1>3, <2>3, SameValue
  <2>5. Fitting(c) => literal.type = TypeOf(path) /\ Read(literal) = Wanted(c.value)
    <3> SUFFICES ASSUME Fitting(c)
                 PROVE  literal.type = TypeOf(path) /\ Read(literal) = Wanted(c.value)
      OBVIOUS
    <3>1. Fits(c.field, c.value) /\ (c.op = "contains" => c.field = Name)
      BY <1>3 DEF Fitting
    <3>2. temporal \in BOOLEAN /\ (c.field = CreatedOn => temporal)
      BY <3>1, PathsDiffer
    <3> HIDE DEF temporal, f, node
    <3>3. path \in {c.field, Navigated(c.field, c.value)}
      BY <2>3
    <3> QED BY <1>1, <2>3, <3>1, <3>2, <3>3, LiteralKept
  <2> HIDE DEF f
  <2>6. f.kind = "compare" /\ f.path = path /\ f.op = c.op /\ f.literal = literal
    BY <2>3 DEF Compare
  <2>7. NavigatedAlone(f) /\ IsNode(f)
    BY <2>4, <2>6 DEF NavigatedAlone, IsNode
  <2>8. Fitting(c) => \A row : SelectsAlone(f, row) <=> True(c, row)
    BY <2>4, <2>5, <2>6 DEF SelectsAlone, True
  <2> QED BY <2>7, <2>8, LiftAlone DEF f
<1> QED BY <1>2, <1>3

\* A list, in either dialect, selects what it says, if it fits.
LEMMA ListKept ==
  ASSUME ValueAssumption,
         NEW c \in Condition, c.kind = "in", Says(c), NEW backend \in Backend
  PROVE  LET f == RenderedCondition(backend, ToNode(c))
         IN  /\ NavigatedList(f) /\ IsNode(f)
             /\ Fitting(c) => \A row : SelectsList(f, row) <=> True(c, row)
<1> DEFINE equal(value) == EqualTo(backend, Navigated(c.field, value), value)
           items == {equal(value) : value \in c.values}
           f == RenderedCondition(backend, ToNode(c))
<1>1. c.field \in Columns /\ c.values # {} /\ (c.field = OwnerId => \A value \in c.values : value \in Guid)
  BY ConditionKinds DEF Says
<1>2. ToNode(c) = c
  BY <1>1 DEF ToNode, Says
<1>3. f = Joined("or", items)
  BY <1>2 DEF RenderedCondition, RenderedIn
<1>4. ASSUME NEW value \in c.values
      PROVE  /\ NavigatedAlone(equal(value)) /\ IsNode(equal(value))
             /\ Fitting(c) =>
                  \A row : SelectsAlone(equal(value), row) <=> ValueAt(row, c.field) = Wanted(value)
  <2> DEFINE item == equal(value)
             path == Navigated(c.field, value)
             literal == IF backend = "odata" THEN ODataLiteral(path, value, TRUE) ELSE Parameter(value)
  <2>1. item.kind = "compare" /\ item.path = path /\ item.op = "eq" /\ item.literal = literal
    BY DEF EqualTo, Compare
  <2>2. (\A row : ValueAt(row, path) = ValueAt(row, c.field)) /\ path # OwnerId
    BY <1>1, SameValue
  <2>3. Fitting(c) => literal.type = TypeOf(path) /\ Read(literal) = Wanted(value)
    <3>1. Fitting(c) => Fits(c.field, value)
      BY DEF Fitting
    <3> QED BY <1>1, <3>1, LiteralKept
  <2> HIDE DEF path, literal, item
  <2>4. NavigatedAlone(item) /\ IsNode(item)
    BY <2>1, <2>2 DEF NavigatedAlone, IsNode
  <2>5. Fitting(c) => \A row : SelectsAlone(item, row) <=> ValueAt(row, c.field) = Wanted(value)
    BY <2>1, <2>2, <2>3 DEF SelectsAlone, Sat
  <2> QED BY <2>4, <2>5 DEF item
<1> HIDE DEF equal
<1>5. \A item \in items : NavigatedAlone(item)
  BY <1>4
<1>6. \E item \in items : IsNode(item)
  BY <1>1, <1>4
<1>7. Fitting(c) =>
        \A row : (\E item \in items : IsNode(item) /\ SelectsAlone(item, row))
                  <=> ValueAt(row, c.field) \in {Wanted(value) : value \in c.values}
  BY <1>4
<1> HIDE DEF items, f
<1>8. /\ NavigatedList(f) /\ IsNode(f)
      /\ \A row : SelectsList(f, row) <=> \E item \in items : IsNode(item) /\ SelectsAlone(item, row)
  BY <1>3, <1>5, <1>6, JoinedList
<1> QED BY <1>7, <1>8 DEF f, True

\* A condition, in either dialect, selects what it says, if it fits.
LEMMA ConditionKept ==
  ASSUME ValueAssumption, NEW c \in Condition, NEW backend \in Backend
  PROVE  LET f == RenderedCondition(backend, ToNode(c))
         IN  /\ NavigatedList(f)
             /\ IsNode(f) <=> Says(c)
             /\ Says(c) /\ Fitting(c) => \A row : SelectsList(f, row) <=> True(c, row)
<1>1. CASE ~Says(c)
  <2>1. ToNode(c).kind = "none"
    BY <1>1, NodeOf DEF IsNode
  <2>2. RenderedCondition(backend, ToNode(c)) = NoNode
    BY <2>1 DEF RenderedCondition
  <2>3. NavigatedList(NoNode) /\ ~IsNode(NoNode)
    BY DEF NavigatedList, Throughout, NavigatedAlone, IsNode, NoNode
  <2> QED BY <1>1, <2>2, <2>3
<1>2. CASE Says(c) /\ c.kind = "condition"
  BY <1>2, ComparisonKept
<1>3. CASE Says(c) /\ c.kind = "in"
  BY <1>3, ListKept
<1> QED BY <1>1, <1>2, <1>3, ConditionKinds

\* What a list of conditions asks of a record.
AsksOf(logic, conditions, row) ==
  IF logic = "and" THEN \A c \in conditions : Says(c) => True(c, row)
  ELSE \E c \in conditions : Says(c) /\ True(c, row)
Speaks(conditions) == \E c \in conditions : Says(c)

AllFit(conditions) == \A c \in conditions : Fitting(c)

\* A list of conditions that fit selects the records that all of them ask for, or one.
LEMMA GroupKept ==
  ASSUME ValueAssumption, NEW conditions, conditions \subseteq Condition, NEW logic \in {"and", "or"},
         NEW backend \in Backend
  PROVE  LET node == NodeGroup(logic, conditions)
             f == RenderedGroup(backend, node)
         IN  /\ IsNode(node) <=> Speaks(conditions)
             /\ IsNode(f) <=> Speaks(conditions)
             /\ NavigatedOne(f)
             /\ Speaks(conditions) /\ AllFit(conditions) =>
                  \A row : SelectsOne(f, row) <=> AsksOf(logic, conditions, row)
             /\ Rendered(backend, node) = f
<1> DEFINE nodes == {n \in {ToNode(c) : c \in conditions} : IsNode(n)}
           items == {RenderedCondition(backend, n) : n \in nodes}
           node == NodeGroup(logic, conditions)
           f == RenderedGroup(backend, node)
<1>1. \A c \in conditions : Says(c) => ToNode(c) \in nodes /\ RenderedCondition(backend, ToNode(c)) \in items
  BY NodeOf
<1>2. \A n \in nodes : /\ n.kind # "group"
                       /\ \E c \in conditions : Says(c) /\ n = ToNode(c)
  BY NodeOf
<1>3. \A item \in items : \E c \in conditions : Says(c) /\ item = RenderedCondition(backend, ToNode(c))
  BY <1>2
<1>4. nodes # {} <=> Speaks(conditions)
  <2> HIDE DEF nodes
  <2> QED BY <1>1, <1>2 DEF Speaks
<1>5. CASE ~Speaks(conditions)
  <2>1. node = NoNode
    BY <1>4, <1>5 DEF NodeGroup
  <2>2. NoNode.kind = "none" /\ ~IsNode(NoNode)
    BY DEF NoNode, IsNode
  <2>3. f = NoNode /\ Rendered(backend, node) = f
    BY <2>1, <2>2 DEF Rendered, RenderedGroup, RenderedCondition
  <2>4. NavigatedOne(NoNode)
    BY <2>2 DEF NavigatedOne, Throughout, NavigatedAlone
  <2> QED BY <1>5, <2>1, <2>2, <2>3, <2>4
<1>6. CASE Speaks(conditions)
  <2>1. node = Group(logic, nodes)
    BY <1>4, <1>6 DEF NodeGroup
  <2>2. node.kind = "group" /\ node.logic = logic /\ node.items = nodes /\ IsNode(node)
    BY <2>1 DEF Group, IsNode
  <2>3. f = Joined(logic, items)
    <3> HIDE DEF node, nodes
    <3> QED BY <2>2 DEF RenderedGroup
  <2>4. Rendered(backend, node) = f
    <3>1. {RenderedGroup(backend, n) : n \in nodes} = items
      <4> HIDE DEF nodes
      <4> QED BY <1>2 DEF RenderedGroup
    <3>2. Rendered(backend, node) = Joined(logic, {RenderedGroup(backend, n) : n \in nodes})
      <4> HIDE DEF node, nodes
      <4> QED BY <2>2 DEF Rendered
    <3> HIDE DEF f, items, nodes
    <3> QED BY <2>3, <3>1, <3>2
  <2>5. \A item \in items : NavigatedList(item) /\ IsNode(item)
    <3> HIDE DEF items
    <3> QED BY <1>3, ConditionKept
  <2>6. \E item \in items : IsNode(item)
    <3> HIDE DEF items, nodes
    <3> QED BY <1>1, <1>6, <2>5 DEF Speaks
  <2>7. ASSUME NEW row, AllFit(conditions)
        PROVE  /\ (\A item \in items : IsNode(item) => SelectsList(item, row)) <=> AsksOf("and", conditions, row)
               /\ (\E item \in items : IsNode(item) /\ SelectsList(item, row)) <=> AsksOf("or", conditions, row)
    <3>1. \A c \in conditions : Says(c) => (SelectsList(RenderedCondition(backend, ToNode(c)), row) <=> True(c, row))
      BY <2>7, ConditionKept DEF AllFit
    <3> HIDE DEF items, nodes
    <3> QED BY <1>1, <1>3, <2>5, <3>1 DEF AsksOf
  <2> HIDE DEF items, f, node, nodes
  <2>8. /\ NavigatedOne(f) /\ IsNode(f)
        /\ \A row : logic = "and" =>
             (SelectsOne(f, row) <=> \A item \in items : IsNode(item) => SelectsList(item, row))
        /\ \A row : logic = "or" =>
             (SelectsOne(f, row) <=> \E item \in items : IsNode(item) /\ SelectsList(item, row))
    BY <2>3, <2>5, <2>6, JoinedOne
  <2>9. AllFit(conditions) => \A row : SelectsOne(f, row) <=> AsksOf(logic, conditions, row)
    BY <2>7, <2>8
  <2> QED BY <1>6, <2>2, <2>4, <2>8, <2>9 DEF f, node
<1> QED BY <1>5, <1>6

\* The filter of a read, in either dialect, selects what was asked for, if its
\* conditions fit.
LEMMA FilterKept ==
  ASSUME ValueAssumption,
         NEW filters \in [all : SUBSET Condition, any : SUBSET Condition], NEW backend \in Backend
  PROVE  LET f == Rendered(backend, BuildFilterNode(filters))
         IN  /\ NavigatedBoth(f)
             /\ AllFit(filters.all \cup filters.any) =>
                  \A row : SelectsBoth(f, row) <=> Asked(filters, row)
             /\ ~IsNode(f) => \A row : Asked(filters, row)
<1> DEFINE all == NodeGroup("and", filters.all)
           any == NodeGroup("or", filters.any)
           fAll == RenderedGroup(backend, all)
           fAny == RenderedGroup(backend, any)
           f == Rendered(backend, BuildFilterNode(filters))
           fit == AllFit(filters.all \cup filters.any)
<1>f. fit => AllFit(filters.all) /\ AllFit(filters.any)
  BY DEF AllFit
<1>1. filters.all \subseteq Condition /\ filters.any \subseteq Condition
  OBVIOUS
<1>2. /\ IsNode(all) <=> Speaks(filters.all)
      /\ IsNode(fAll) <=> Speaks(filters.all)
      /\ NavigatedOne(fAll)
      /\ Speaks(filters.all) /\ fit => \A row : SelectsOne(fAll, row) <=> AsksOf("and", filters.all, row)
      /\ Rendered(backend, all) = fAll
  BY <1>1, <1>f, GroupKept
<1>3. /\ IsNode(any) <=> Speaks(filters.any)
      /\ IsNode(fAny) <=> Speaks(filters.any)
      /\ NavigatedOne(fAny)
      /\ Speaks(filters.any) /\ fit => \A row : SelectsOne(fAny, row) <=> AsksOf("or", filters.any, row)
      /\ Rendered(backend, any) = fAny
  BY <1>1, <1>f, GroupKept
<1>4. \A row : Asked(filters, row) <=>
        /\ AsksOf("and", filters.all, row)
        /\ Speaks(filters.any) => AsksOf("or", filters.any, row)
  BY DEF Asked, AsksOf, Speaks
<1>5. ~Speaks(filters.all) => \A row : AsksOf("and", filters.all, row)
  BY DEF AsksOf, Speaks
<1>6. BuildFilterNode(filters) =
        IF ~IsNode(any) THEN all ELSE IF ~IsNode(all) THEN any ELSE Group("and", {all, any})
  BY DEF BuildFilterNode
<1>7. \A x : ~IsNode(x) => \A row : SelectsOne(x, row)
  BY DEF IsNode, SelectsOne, Within, SelectsAlone
<1> HIDE DEF all, any, fit
<1>8. CASE ~Speaks(filters.any)
  <2>1. f = fAll
    BY <1>2, <1>3, <1>6, <1>8
  <2> HIDE DEF f, fAll
  <2>2. fit => \A row : SelectsOne(fAll, row) <=> AsksOf("and", filters.all, row)
    BY <1>2, <1>5, <1>7
  <2>3. NavigatedBoth(fAll) /\ \A row : SelectsBoth(fAll, row) = SelectsOne(fAll, row)
    BY <1>2, LiftOne
  <2> QED BY <1>2, <1>4, <1>5, <1>8, <2>1, <2>2, <2>3 DEF f, fit
<1>9. CASE Speaks(filters.any) /\ ~Speaks(filters.all)
  <2>1. f = fAny
    BY <1>2, <1>3, <1>6, <1>9
  <2> HIDE DEF f, fAny
  <2>2. NavigatedBoth(fAny) /\ \A row : SelectsBoth(fAny, row) = SelectsOne(fAny, row)
    BY <1>3, LiftOne
  <2> QED BY <1>3, <1>4, <1>5, <1>9, <2>1, <2>2 DEF f, fit
<1>10. CASE Speaks(filters.any) /\ Speaks(filters.all)
  <2>1. BuildFilterNode(filters) = Group("and", {all, any})
    BY <1>2, <1>3, <1>6, <1>10
  <2>2. f = Joined("and", {RenderedGroup(backend, n) : n \in {all, any}})
    <3>1. /\ BuildFilterNode(filters).kind = "group" /\ BuildFilterNode(filters).logic = "and"
          /\ BuildFilterNode(filters).items = {all, any}
      BY <2>1 DEF Group
    <3> QED BY <3>1 DEF Rendered
  <2>3. {RenderedGroup(backend, n) : n \in {all, any}} = {fAll, fAny}
    OBVIOUS
  <2> HIDE DEF f, fAll, fAny
  <2>4. /\ NavigatedBoth(f) /\ IsNode(f)
        /\ \A row : SelectsBoth(f, row) <=>
             \A item \in {fAll, fAny} : IsNode(item) => SelectsOne(item, row)
    BY <1>2, <1>3, <1>10, <2>2, <2>3, JoinedBoth
  <2> QED BY <1>2, <1>3, <1>4, <1>10, <2>4 DEF f, fit
<1> QED BY <1>8, <1>9, <1>10

\* Over either backend, and with a raw filter beside, a read is of what was asked for.
LEMMA FiltersMean ==
  ASSUME ValueAssumption,
         NEW filters \in [all : SUBSET Condition, any : SUBSET Condition], NEW raw \in BOOLEAN
  PROVE  FilterMeans(filters, raw)
<1> DEFINE plain == Rendered("odata", BuildFilterNode(filters))
           odata == ODataFilter(filters, raw)
           dataservice == DataServiceFilter(filters)
           rawNode == IF raw THEN Raw ELSE NoNode
           fit == \A c \in filters.all \cup filters.any : Fitting(c)
<1>1. /\ NavigatedBoth(plain)
      /\ fit => \A row : SelectsBoth(plain, row) <=> Asked(filters, row)
      /\ ~IsNode(plain) => \A row : Asked(filters, row)
  BY FilterKept DEF Backend, AllFit
<1>2. /\ NavigatedBoth(dataservice)
      /\ fit => \A row : SelectsBoth(dataservice, row) <=> Asked(filters, row)
  BY FilterKept DEF Backend, DataServiceFilter, AllFit
<1> HIDE DEF fit
<1>3. ByLookup(dataservice) /\ (fit => \A row : Selects(dataservice, row) <=> Asked(filters, row))
  BY <1>2, LiftBoth
<1>4. /\ NavigatedBoth(rawNode)
      /\ IsNode(rawNode) <=> raw
      /\ \A row : raw => (SelectsBoth(rawNode, row) <=> row.Name = Null)
  <2>1. CASE raw
    <3>1. rawNode.kind = "null" /\ rawNode.path = Name /\ rawNode.is = TRUE
      BY <2>1 DEF Raw, NullCheck
    <3> HIDE DEF rawNode
    <3>2. NavigatedBoth(rawNode) /\ IsNode(rawNode)
      BY <3>1 DEF NavigatedBoth, Throughout, NavigatedAlone, IsNode
    <3>3. \A row : SelectsBoth(rawNode, row) <=> row.Name = Null
      <4>1. \A row : ValueAt(row, Name) = row.Name
        BY PathsDiffer DEF ValueAt
      <4> QED BY <3>1, <4>1 DEF SelectsBoth, Within, SelectsAlone
    <3> QED BY <2>1, <3>2, <3>3
  <2>2. CASE ~raw
    <3>1. rawNode.kind = "none"
      BY <2>2 DEF NoNode
    <3> HIDE DEF rawNode
    <3>2. NavigatedBoth(rawNode) /\ ~IsNode(rawNode)
      BY <3>1 DEF NavigatedBoth, Throughout, NavigatedAlone, IsNode
    <3> QED BY <2>2, <3>2
  <2> QED BY <2>1, <2>2
<1>5. odata = Joined("and", {rawNode, plain})
  BY DEF ODataFilter
<1> HIDE DEF odata, dataservice, rawNode, plain
<1>6. /\ ByLookup(odata)
      /\ \A row : Selects(odata, row) <=>
           \A item \in {rawNode, plain} : IsNode(item) => SelectsBoth(item, row)
  BY <1>1, <1>4, <1>5, JoinedByRaw
<1>7. fit => \A row : Selects(odata, row) <=> Asked(filters, row) /\ (raw => row.Name = Null)
  BY <1>1, <1>4, <1>6
<1> QED BY <1>3, <1>6, <1>7 DEF FilterMeans, odata, dataservice, fit

\* An update or a delete is of the record with the key it is given.
LEMMA IdsMean ==
  ASSUME ValueAssumption, NEW id \in Guid
  PROVE  IdMeans(id)
<1> DEFINE c == Comparison(Key, "eq", id)
           f == ByIdFilter(id)
<1>1. c.op = "eq" /\ c.field = Key /\ c.value = id
  BY DEF Comparison
<1>2. Navigated(Key, id) = Key
  BY PathsDiffer DEF Navigated, LookupIdPath
<1>3. f = Compare(Key, "eq", Parameter(id))
  <2> HIDE DEF c
  <2>1. f = DataServiceCondition(c)
    BY DEF ByIdFilter, c
  <2> QED BY <1>1, <1>2, <2>1 DEF DataServiceCondition
<1> HIDE DEF f
<1>4. f.kind = "compare" /\ f.path = Key /\ f.op = "eq" /\ f.literal = Parameter(id)
  BY <1>3 DEF Compare
<1>5. Parameter(id).type = TypeOf(Key) /\ Read(Parameter(id)) = id
  <2>1. Key \in Columns /\ Fits(Key, id)
    BY PathsDiffer DEF Columns, Fits, Idish
  <2>2. Key # CreatedOn /\ TRUE \in BOOLEAN
    BY PathsDiffer
  <2>3. Wanted(id) = id
    BY DEF Wanted, ValueAssumption
  <2> QED BY <2>1, <2>2, <2>3, LiteralKept
<1>6. \A row : SelectsAlone(f, row) <=> row.Id = id
  <2>1. \A row : ValueAt(row, Key) = row.Id
    BY PathsDiffer DEF ValueAt
  <2> QED BY <1>4, <1>5, <2>1 DEF SelectsAlone, Sat
<1>7. \A row : Selects(f, row) = SelectsAlone(f, row)
  BY <1>4 DEF Selects, Within
<1> QED BY <1>6, <1>7 DEF IdMeans, f

\* Each term of an order is at its place, on its column.
LEMMA OrdersMean ==
  ASSUME NEW columns, NEW order \in Seq(Term)
  PROVE  OrderMeans(columns, order)
<1> DEFINE hints == OrderHints(columns, order)
<1> SUFFICES ASSUME \A i \in DOMAIN order : order[i].field \in columns,
                    \A i, j \in DOMAIN order : order[i].field = order[j].field => i = j
             PROVE  /\ \A i \in DOMAIN order : hints[order[i].field] = [pos |-> i, dir |-> order[i].dir]
                    /\ \A column \in columns :
                         hints[column] # NoHint => \E i \in DOMAIN order : order[i].field = column
  BY DEF OrderMeans
<1>1. \A i \in DOMAIN order : i <= i
  BY LenProperties
<1>2. ASSUME NEW i \in DOMAIN order
      PROVE  OrderPosition(order[i].field, order) = i
  <2>1. \A j \in DOMAIN order : order[j].field = order[i].field => j <= i
    BY <1>1
  <2> QED BY <2>1 DEF OrderPosition
<1>3. ASSUME NEW i \in DOMAIN order
      PROVE  hints[order[i].field] = [pos |-> i, dir |-> order[i].dir]
  <2>1. order[i].field \in columns /\ \E j \in DOMAIN order : order[j].field = order[i].field
    OBVIOUS
  <2>2. hints[order[i].field] =
          [pos |-> OrderPosition(order[i].field, order),
           dir |-> order[OrderPosition(order[i].field, order)].dir]
    BY <2>1 DEF OrderHints
  <2> QED BY <1>2, <2>2
<1>4. ASSUME NEW column \in columns, ~\E i \in DOMAIN order : order[i].field = column
      PROVE  hints[column] = NoHint
  BY <1>4 DEF OrderHints
<1> QED BY <1>3, <1>4

\* A column is written with the value of the last key that is for it, with its own type.
LEMMA WritesMean ==
  ASSUME ValueAssumption, NEW types \in {<<>>, Schema}, NEW data \in Seq(Entry)
  PROVE  WriteMeans(types, data)
<1> DEFINE values == ColumnValues(types, data)
           for(column) == {i \in DOMAIN data : ColumnOf(types, data[i].key) = column}
           last(column) == CHOOSE i \in DOMAIN data :
                   /\ ColumnOf(types, data[i].key) = column
                   /\ \A j \in DOMAIN data : ColumnOf(types, data[j].key) = column => j <= i
<1> SUFFICES ASSUME types # <<>>, NEW i \in DOMAIN data
             PROVE  LET column == ColumnOf(types, data[i].key)
                        value == data[i].value
                    IN  /\ column \in DOMAIN types
                        /\ values[column].type =
                             CASE column = "Name" -> "Text"
                               [] column = "CreatedOn" -> "DateTime"
                               [] column = "Owner" -> IF values[column].value \in Guid THEN "Guid" ELSE "Lookup"
                        /\ (/\ \A j \in DOMAIN data : ColumnOf(types, data[j].key) = column => j = i
                            /\ column = "CreatedOn" /\ value # Null => value.zone = 0)
                             => values[column].value = value
  BY DEF WriteMeans
<1> DEFINE column == ColumnOf(types, data[i].key)
           k == last(column)
           v == data[k].value
<1>1. /\ DOMAIN types = {"Name", "Owner", "CreatedOn"}
      /\ types["Name"] = "MediumText" /\ types["Owner"] = "Lookup" /\ types["CreatedOn"] = "DateTime"
  BY DEF Schema
<1>2. \A j \in DOMAIN data : data[j] \in Entry
  BY LenProperties
<1>3. /\ column \in {"Name", "Owner", "CreatedOn"}
      /\ column = "CreatedOn" => data[i].value \in DateLike \cup {Null}
  <2>1. /\ data[i].key \in {"Name", "OwnerId", "Owner", "CreatedOn"}
        /\ data[i].key = "CreatedOn" => data[i].value \in DateLike \cup {Null}
    BY <1>2 DEF Entry
  <2> QED BY <1>1, <2>1 DEF ColumnOf
<1>4. /\ k \in DOMAIN data /\ ColumnOf(types, data[k].key) = column
  <2>1. for(column) \subseteq 1..Len(data) /\ Len(data) \in Nat /\ for(column) # {}
    BY LenProperties
  <2>2. \E x \in for(column) : \A y \in for(column) : y <= x
    <3> HIDE DEF for
    <3> QED BY <2>1, Greatest
  <2> HIDE DEF column
  <2> QED BY <2>2
<1>5. values[column] = Encoded(ParameterType(types, column, v), v)
  <2>1. column \in {ColumnOf(types, data[j].key) : j \in DOMAIN data}
    OBVIOUS
  <2> HIDE DEF column
  <2> QED BY <2>1 DEF ColumnValues
<1> HIDE DEF k, values
<1>6. /\ values[column].type = ParameterType(types, column, v)
      /\ values[column].value =
           IF ParameterType(types, column, v) = "DateTime" /\ v \in DateLike THEN WallClock(v) ELSE v
  BY <1>5 DEF Encoded
<1>7. ParameterType(types, column, v) =
        CASE column = "Owner" -> IF v \in Guid THEN "Guid" ELSE "Lookup"
          [] column = "CreatedOn" -> "DateTime"
          [] column = "Name" -> "Text"
  <2> HIDE DEF column, v
  <2> QED BY <1>1, <1>3 DEF ParameterType
<1>8. (\A j \in DOMAIN data : ColumnOf(types, data[j].key) = column => j = i) => v = data[i].value
  BY <1>4
<1>9. column # "CreatedOn" => values[column].value = v
  <2> HIDE DEF column, v
  <2> QED BY <1>3, <1>6, <1>7
<1>10. values[column].type =
         CASE column = "Name" -> "Text"
           [] column = "CreatedOn" -> "DateTime"
           [] column = "Owner" -> IF values[column].value \in Guid THEN "Guid" ELSE "Lookup"
  <2> HIDE DEF column, v
  <2> QED BY <1>3, <1>6, <1>7, <1>9
<1>11. ASSUME column = "CreatedOn", v = data[i].value, v # Null => v.zone = 0
       PROVE  values[column].value = v
  <2>1. v \in DateLike \cup {Null}
    BY <1>3, <1>11
  <2>2. v \in DateLike => v.zone = 0 /\ v \in [clock : Int, zone : Int]
    BY <1>11 DEF ValueAssumption
  <2> HIDE DEF column, v
  <2>3. v \in DateLike => WallClock(v) = v
    BY <2>2 DEF WallClock
  <2> QED BY <1>6, <2>1, <2>3
<1> HIDE DEF column
<1>12. (/\ \A j \in DOMAIN data : ColumnOf(types, data[j].key) = column => j = i
        /\ column = "CreatedOn" /\ data[i].value # Null => data[i].value.zone = 0)
         => values[column].value = data[i].value
  <2> HIDE DEF v
  <2> QED BY <1>8, <1>9, <1>11
<1> QED BY <1>1, <1>3, <1>10, <1>12 DEF column

\* What a tool reads or writes means in either dialect what its arguments say: a filter
\* navigates its lookups, and selects what was asked for if each of its conditions
\* compares a column with values that look like the column's own, and no date with an
\* offset; an update or a delete is of one record; an order keeps its places; and a write
\* has the types of the schema.
THEOREM QueriesMean ==
  ASSUME ValueAssumption
  PROVE  \A query \in Query : QueryMeans(query)
<1> SUFFICES ASSUME NEW query \in Query
             PROVE  QueryMeans(query)
  OBVIOUS
<1>1. CASE query \in [kind : {"filter"}, raw : BOOLEAN,
                      filters : [all : SUBSET Condition, any : SUBSET Condition]]
  BY <1>1, FiltersMean DEF QueryMeans
<1>2. CASE query \in [kind : {"id"}, id : Guid]
  BY <1>2, IdsMean DEF QueryMeans
<1>3. CASE query \in [kind : {"order"}, columns : SUBSET {Name, OwnerId, Key}, order : Seq(Term)]
  BY <1>3, OrdersMean DEF QueryMeans
<1>4. CASE query \in [kind : {"write"}, types : {<<>>, Schema}, data : Seq(Entry)]
  BY <1>4, WritesMean DEF QueryMeans
<1> QED BY <1>1, <1>2, <1>3, <1>4 DEF Query

-----------------------------------------------------------------------------
(* The body of a download, chunk by chunk. *)

TotalTo(chunks, n, total) ==
  total = [i \in 0..n |-> IF i = 0 THEN 0 ELSE total[i - 1] + chunks[i]]

\* The totals of a body are what they are written as.
LEMMA TotalsDefined ==
  ASSUME NEW chunks \in Seq(Nat)
  PROVE  /\ \A i \in 0..Len(chunks) :
              Totals(chunks)[i] = IF i = 0 THEN 0 ELSE Totals(chunks)[i - 1] + chunks[i]
         /\ \A i \in 0..Len(chunks) : Totals(chunks)[i] \in Nat
<1> DEFINE T == {n \in Nat : \E total : TotalTo(chunks, n, total)}
<1>0. Len(chunks) \in Nat /\ DOMAIN chunks = 1..Len(chunks) /\ \A i \in 1..Len(chunks) : chunks[i] \in Nat
  BY LenProperties
<1>1. 0 \in T
  <2>1. TotalTo(chunks, 0, [i \in 0..0 |-> 0])
    BY DEF TotalTo
  <2> QED BY <2>1
<1>2. ASSUME NEW n \in Nat, n \in T
      PROVE  n + 1 \in T
  <2>1. PICK total : TotalTo(chunks, n, total)
    BY <1>2
  <2> DEFINE on == [i \in 0..(n + 1) |-> IF i = n + 1 THEN total[n] + chunks[n + 1] ELSE total[i]]
  <2>2. TotalTo(chunks, n + 1, on)
    BY <2>1 DEF TotalTo
  <2> QED BY <2>2
<1>3. \E total : TotalTo(chunks, Len(chunks), total)
  <2>1. 0..Len(chunks) \subseteq T
    BY <1>0, <1>1, <1>2, UpTo
  <2> QED BY <1>0, <2>1
<1>4. Totals(chunks) = CHOOSE total : TotalTo(chunks, Len(chunks), total)
  BY DEF Totals, TotalTo
<1> DEFINE total == Totals(chunks)
<1>5. TotalTo(chunks, Len(chunks), total)
  BY <1>3, <1>4
<1> HIDE DEF total
<1>6. \A i \in 0..Len(chunks) : total[i] = IF i = 0 THEN 0 ELSE total[i - 1] + chunks[i]
  BY <1>0, <1>5 DEF TotalTo
<1> DEFINE N == {n \in Nat : n <= Len(chunks) => total[n] \in Nat}
<1>7. 0 \in N
  BY <1>0, <1>6
<1>8. ASSUME NEW n \in 0..Len(chunks), n < Len(chunks), n \in N
      PROVE  n + 1 \in N
  <2>1. total[n + 1] = total[n] + chunks[n + 1] /\ total[n] \in Nat /\ chunks[n + 1] \in Nat
    BY <1>0, <1>6, <1>8
  <2> QED BY <2>1
<1>9. 0..Len(chunks) \subseteq N
  <2> HIDE DEF N
  <2> QED BY <1>0, <1>7, <1>8, UpTo
<1> QED BY <1>6, <1>9 DEF total

\* What a download returns is whole and within both limits.
LEMMA DownloadsMean ==
  ASSUME NEW request \in [maxBytes : Nat, defaultBytes : Nat, ceiling : Nat],
         NEW answer \in [chunks : Seq(Nat), streamed : BOOLEAN, declared : Int, loginPage : BOOLEAN]
  PROVE  DownloadMeans(request, answer)
<1> DEFINE total == Totals(answer.chunks)
           len == Len(answer.chunks)
           limit == MaxBytes(request)
           result == Download(request, answer)
<1>1. answer.chunks \in Seq(Nat) /\ len \in Nat /\ DOMAIN answer.chunks = 1..len
  BY LenProperties
<1>2. total[0] = 0 /\ total[len] \in Nat
  BY <1>1, TotalsDefined
<1>3. /\ limit \in Nat /\ limit <= request.ceiling
      /\ request.maxBytes # 0 => limit <= request.maxBytes
  BY DEF MaxBytes
<1> HIDE DEF total, len, limit
<1>4. ASSUME result.ok
      PROVE  result.bytes = total[len] /\ ~answer.loginPage /\ total[len] <= limit
  <2> DEFINE body == ReadBody(answer.chunks, answer.streamed, limit)
  <2>1. /\ body.ok = IF answer.streamed THEN \A i \in DOMAIN answer.chunks : total[i] <= limit
                     ELSE total[len] <= limit
        /\ body.bytes = total[len]
    BY DEF ReadBody, total, len
  <2> HIDE DEF body
  <2>2. ~answer.loginPage /\ body.ok /\ result.bytes = body.bytes
    BY <1>4 DEF Download, Thrown, body, limit
  <2>3. total[len] <= limit
    <3>1. CASE len = 0
      BY <1>2, <1>3, <3>1
    <3>2. CASE len # 0 /\ answer.streamed
      <4>1. len \in DOMAIN answer.chunks
        BY <1>1, <3>2
      <4>2. \A i \in DOMAIN answer.chunks : total[i] <= limit
        BY <2>1, <2>2, <3>2
      <4> QED BY <4>1, <4>2
    <3>3. CASE ~answer.streamed
      BY <2>1, <2>2, <3>3
    <3> QED BY <3>1, <3>2, <3>3
  <2> QED BY <2>1, <2>2, <2>3
<1>5. request.ceiling \in Nat /\ request.maxBytes \in Nat
  OBVIOUS
<1> QED BY <1>2, <1>3, <1>4, <1>5 DEF DownloadMeans, total, len

-----------------------------------------------------------------------------
(* Documents. *)

\* What an extraction must give for the documents that are delivered.
Agrees(result, delivered) ==
  /\ result.ok \in BOOLEAN
  /\ delivered \subseteq [place : Seq(Nat), words : Nat]
  /\ result.ok <=> delivered # {}
  /\ ~result.ok => result.error # "zip"
  /\ result.ok =>
       /\ result.text \in Seq(Seq(Nat))
       /\ {result.text[n] : n \in DOMAIN result.text} = WordsOf(delivered)
       /\ \A m, n \in DOMAIN result.text : m < n => Precedes(result.text[m], result.text[n])

\* A function on 1..n is a list of n.
LEMMA ListOf ==
  ASSUME NEW S, NEW n \in Nat, NEW f \in [1..n -> S]
  PROVE  f \in Seq(S) /\ Len(f) = n /\ DOMAIN f = 1..n
<1>1. f \in Seq(S)
  <2>1. f \in UNION {[1..k -> S] : k \in Nat}
    OBVIOUS
  <2> QED BY <2>1, SeqDef
<1>2. DOMAIN f = 1..n /\ DOMAIN f = 1..Len(f) /\ Len(f) \in Nat
  BY <1>1, LenProperties
<1> QED BY <1>1, <1>2

\* A document that is delivered whole, and one that is refused.
LEMMA OwnWords ==
  ASSUME NEW words \in Nat, NEW format
  PROVE  Agrees(Extracted(words, format), {[place |-> <<>>, words |-> words]})
<1> DEFINE result == Extracted(words, format)
           own == [place |-> <<>>, words |-> words]
<1>1. result.ok = TRUE /\ result.text = [n \in 1..words |-> <<n>>]
  BY DEF Extracted
<1>2. result.text \in Seq(Seq(Nat)) /\ DOMAIN result.text = 1..words
  <2>1. \A n \in 1..words : <<n>> \in Seq(Nat)
    OBVIOUS
  <2>2. [n \in 1..words |-> <<n>>] \in [1..words -> Seq(Nat)]
    BY <2>1
  <2> QED BY ONLY <1>1, <2>2, words \in Nat, ListOf
<1>3. \A n \in 1..words : result.text[n] = <<n>>
  BY <1>1
<1>4. \A n : Append(<<>>, n) = <<n>>
  OBVIOUS
<1>5. WordsOf({own}) = {<<n>> : n \in 1..words}
  <2>1. own.place = <<>> /\ own.words = words
    OBVIOUS
  <2> HIDE DEF own
  <2>2. WordsOf({own}) = UNION {{Append(d.place, n) : n \in 1..d.words} : d \in {own}}
    BY DEF WordsOf
  <2>3. UNION {{Append(d.place, n) : n \in 1..d.words} : d \in {own}} = {Append(own.place, n) : n \in 1..own.words}
    OBVIOUS
  <2>4. {Append(own.place, n) : n \in 1..own.words} = {Append(<<>>, n) : n \in 1..words}
    BY <2>1
  <2> QED BY <1>4, <2>2, <2>3, <2>4
<1>6. {result.text[n] : n \in DOMAIN result.text} = {<<n>> : n \in 1..words}
  BY <1>2, <1>3
<1>7. ASSUME NEW m \in 1..words, NEW n \in 1..words, m < n
      PROVE  Precedes(<<m>>, <<n>>)
  <2>1. 1 \in DOMAIN <<m>> \cap DOMAIN <<n>> /\ <<m>>[1] = m /\ <<n>>[1] = n
    OBVIOUS
  <2>2. \A j \in 1..1 - 1 : <<m>>[j] = <<n>>[j]
    OBVIOUS
  <2> QED BY <1>7, <2>1, <2>2 DEF Precedes
<1> HIDE DEF result, own
<1>8. Agrees(result, {own})
  <2>1. \A m, n \in 1..words : m < n => Precedes(<<m>>, <<n>>)
    BY <1>7
  <2>2. \A m, n \in DOMAIN result.text : m < n => Precedes(result.text[m], result.text[n])
    BY <1>2, <1>3, <2>1
  <2>3. {own} # {}
    OBVIOUS
  <2>4. {result.text[n] : n \in DOMAIN result.text} = WordsOf({own})
    BY <1>5, <1>6
  <2>5. {own} \subseteq [place : Seq(Nat), words : Nat]
    <3>1. <<>> \in Seq(Nat)
      BY EmptySeq
    <3> QED BY <3>1 DEF own
  <2> QED BY <1>1, <1>2, <2>2, <2>3, <2>4, <2>5 DEF Agrees
<1> QED BY <1>8 DEF result, own

\* A refusal delivers nothing; it is not that of bytes that cannot be inflated.
LEMMA Refused ==
  ASSUME NEW error, error # "zip"
  PROVE  Agrees(Thrown(error), {})
BY DEF Agrees, Thrown

\* A Word file or a mail is read whole whichever extractor is tried first.
LEMMA MailOrWord ==
  ASSUME NEW words \in Nat, NEW holds \in {"doc", "msg"}, holds = "msg" => words # 0,
         NEW streams, NEW file, file.words = words, file.holds = holds, NEW hint
  PROVE  \E format : ExtractCfbf(file, hint) = Extracted(words, format)
<1> DEFINE msg == ExtractMsg(file)
           doc == ExtractDoc(file)
<1>1. \A n, format : Extracted(n, format).ok = TRUE /\ Extracted(n, format).text = [k \in 1..n |-> <<k>>]
  BY DEF Extracted
<1>2. \A format : Extracted(0, format).text = <<>>
  <2>1. [k \in 1..0 |-> <<k>>] = <<>>
    OBVIOUS
  <2> QED BY <1>1, <2>1
<1>3. \A format : words # 0 => Extracted(words, format).text # <<>>
  <2>1. words # 0 => 1 \in DOMAIN [k \in 1..words |-> <<k>>]
    OBVIOUS
  <2>2. DOMAIN <<>> = {}
    OBVIOUS
  <2> QED BY <1>1, <2>1, <2>2
<1>4. CASE holds = "msg"
  <2>1. msg = Extracted(words, "msg") /\ doc = Failed /\ ~Failed.ok
    BY <1>4 DEF ExtractMsg, ExtractDoc, Failed, Thrown
  <2> HIDE DEF msg, doc
  <2>2. ExtractCfbf(file, hint) = msg
    <3>1. msg.ok /\ msg.text # <<>>
      BY <1>1, <1>3, <1>4, <2>1
    <3> QED BY <2>1, <3>1 DEF ExtractCfbf, msg, doc
  <2> QED BY <2>1, <2>2
<1>5. CASE holds = "doc"
  <2>1. msg = Extracted(0, "msg") /\ doc = Extracted(words, "doc")
    BY <1>5 DEF ExtractMsg, ExtractDoc
  <2> HIDE DEF msg, doc
  <2>2. msg.ok /\ msg.text = <<>> /\ doc.ok /\ (doc.text = <<>> => words = 0)
    BY <1>1, <1>2, <1>3, <2>1
  <2>3. ExtractCfbf(file, hint) = doc \/ (words = 0 /\ ExtractCfbf(file, hint) = msg)
    BY <2>2 DEF ExtractCfbf, msg, doc
  <2> QED BY <2>1, <2>3
<1> QED BY <1>4, <1>5

\* A word of a document is a word of what is delivered with it.
LEMMA WordIn ==
  ASSUME NEW S, NEW d \in S, NEW n \in 1..d.words
  PROVE  Append(d.place, n) \in WordsOf(S)
<1>1. Append(d.place, n) \in {Append(d.place, k) : k \in 1..d.words}
  OBVIOUS
<1>2. {Append(d.place, k) : k \in 1..d.words} \in {{Append(c.place, k) : k \in 1..c.words} : c \in S}
  OBVIOUS
<1> QED BY <1>1, <1>2 DEF WordsOf

\* A word behind a place of one number.
LEMMA Appended ==
  ASSUME NEW i \in Nat, NEW p, p = <<i>>, NEW n \in Nat
  PROVE  Append(p, n) = <<i, n>>
<1> DEFINE long == Append(p, n)
           pair == <<i, n>>
<1>1. p \in Seq(Nat) /\ Len(p) = 1 /\ p[1] = i
  OBVIOUS
<1>2. long \in Seq(Nat) /\ Len(long) = 2 /\ long[1] = i /\ long[2] = n
  <2>1. /\ long \in Seq(Nat) /\ Len(long) = Len(p) + 1
        /\ \A j \in 1..Len(p) : long[j] = p[j]
        /\ long[Len(p) + 1] = n
    <3>1. p \in Seq(Nat)
      BY <1>1
    <3> QED BY ONLY <3>1, n \in Nat, AppendProperties
  <2> HIDE DEF long
  <2>2. 1 \in 1..Len(p) /\ Len(p) + 1 = 2
    BY <1>1
  <2> QED BY ONLY <1>1, <2>1, <2>2
<1>3. pair \in Seq(Nat) /\ Len(pair) = 2 /\ pair[1] = i /\ pair[2] = n
  OBVIOUS
<1> HIDE DEF long, pair
<1>4. \A j \in 1..2 : long[j] = pair[j]
  <2>1. \A j \in 1..2 : j = 1 \/ j = 2
    OBVIOUS
  <2> QED BY ONLY <1>2, <1>3, <2>1
<1>5. long = pair
  BY ONLY <1>2, <1>3, <1>4, SeqEqual
<1> QED BY <1>5 DEF long, pair

\* The two readings of a PDF.
LayerOf(words) == [place |-> <<1>>, words |-> words]
PagesOf(words) == [place |-> <<2>>, words |-> words]

\* The words of a PDF: those of its layer, and behind them those of its pages.
LEMMA PdfWords ==
  ASSUME NEW layer \in Nat, NEW seen \in Nat, NEW result, result.ok = TRUE,
         result.text = PdfText(layer, seen), NEW delivered,
         delivered = {LayerOf(layer), PagesOf(seen)} \/ (seen = 0 /\ delivered = {LayerOf(layer)})
  PROVE  Agrees(result, delivered)
<1> DEFINE word(n) == IF n <= layer THEN <<1, n>> ELSE <<2, n - layer>>
           text == PdfText(layer, seen)
<1>1. \A n \in 1..layer + seen : word(n) \in Seq(Nat)
  OBVIOUS
<1>2. text \in Seq(Seq(Nat)) /\ DOMAIN text = 1..layer + seen
  <2>1. text \in [1..layer + seen -> Seq(Nat)] /\ layer + seen \in Nat
    BY <1>1 DEF PdfText
  <2> HIDE DEF text
  <2> QED BY ONLY <2>1, ListOf
<1>3. \A n \in 1..layer + seen : text[n] = word(n)
  BY DEF PdfText
<1> DEFINE one == <<1>>
           two == <<2>>
<1>4. \A n \in Nat : Append(one, n) = <<1, n>> /\ Append(two, n) = <<2, n>>
  <2>1. one = <<1>> /\ two = <<2>>
    OBVIOUS
  <2> HIDE DEF one, two
  <2>2. \A n \in Nat : Append(one, n) = <<1, n>>
    BY <2>1, Appended
  <2>3. \A n \in Nat : Append(two, n) = <<2, n>>
    BY <2>1, Appended
  <2> QED BY <2>2, <2>3
<1> DEFINE first == LayerOf(layer)
           second == PagesOf(seen)
<1>5. first.place = one /\ first.words = layer /\ second.place = two /\ second.words = seen
  BY DEF LayerOf, PagesOf
<1>6. delivered \subseteq [place : Seq(Nat), words : Nat] /\ delivered # {}
  <2>1. <<1>> \in Seq(Nat) /\ <<2>> \in Seq(Nat)
    OBVIOUS
  <2>2. first \in [place : Seq(Nat), words : Nat] /\ second \in [place : Seq(Nat), words : Nat]
    BY <2>1 DEF LayerOf, PagesOf
  <2> HIDE DEF first, second
  <2> QED BY <2>2 DEF first, second
<1>7. /\ first \in delivered
      /\ seen # 0 => second \in delivered
      /\ \A d \in delivered : d = first \/ d = second
  OBVIOUS
<1> HIDE DEF first, second, one, two
<1>8. ASSUME NEW w \in WordsOf(delivered)
       PROVE  (\E n \in 1..layer : w = <<1, n>>) \/ (\E n \in 1..seen : w = <<2, n>>)
  <2>1. PICK d \in delivered : \E n \in 1..d.words : w = Append(d.place, n)
    BY <1>8 DEF WordsOf
  <2>2. PICK n \in 1..d.words : w = Append(d.place, n)
    BY <2>1
  <2>3. CASE d = first
    <3>1. n \in 1..layer /\ n \in Nat /\ w = Append(one, n)
      BY <1>5, <2>2, <2>3
    <3> QED BY <1>4, <3>1
  <2>4. CASE d = second
    <3>1. n \in 1..seen /\ n \in Nat /\ w = Append(two, n)
      BY <1>5, <2>2, <2>4
    <3> QED BY <1>4, <3>1
  <2> QED BY <1>7, <2>3, <2>4
<1>9. ASSUME NEW n \in 1..layer
       PROVE  <<1, n>> \in WordsOf(delivered)
  <2>1. first \in delivered /\ n \in 1..first.words
    BY <1>5, <1>7
  <2>2. Append(first.place, n) \in WordsOf(delivered)
    BY <2>1, WordIn
  <2>3. n \in Nat
    OBVIOUS
  <2> QED BY <1>4, <1>5, <2>2, <2>3
<1>10. ASSUME NEW n \in 1..seen
       PROVE  <<2, n>> \in WordsOf(delivered)
  <2>1. second \in delivered /\ n \in 1..second.words
    <3>1. seen # 0
      OBVIOUS
    <3> QED BY <1>5, <1>7, <3>1
  <2>2. Append(second.place, n) \in WordsOf(delivered)
    BY <2>1, WordIn
  <2>3. n \in Nat
    OBVIOUS
  <2> QED BY <1>4, <1>5, <2>2, <2>3
<1>11. ASSUME NEW n \in 1..layer + seen
      PROVE  word(n) \in WordsOf(delivered)
  <2>1. CASE n <= layer
    <3>1. n \in 1..layer /\ word(n) = <<1, n>>
      BY <2>1
    <3> HIDE DEF word
    <3> QED BY <1>9, <3>1
  <2>2. CASE ~(n <= layer)
    <3>1. n - layer \in 1..seen /\ word(n) = <<2, n - layer>>
      BY <2>2
    <3> HIDE DEF word
    <3> QED BY <1>10, <3>1
  <2> QED BY <2>1, <2>2
<1>12. ASSUME NEW w \in WordsOf(delivered)
      PROVE  \E n \in 1..layer + seen : word(n) = w
  <2>1. ASSUME NEW n \in 1..layer, w = <<1, n>>
        PROVE  n \in 1..layer + seen /\ word(n) = w
    BY <2>1
  <2>2. ASSUME NEW n \in 1..seen, w = <<2, n>>
        PROVE  layer + n \in 1..layer + seen /\ word(layer + n) = w
    <3>1. layer + n \in 1..layer + seen /\ ~(layer + n <= layer) /\ (layer + n) - layer = n
      OBVIOUS
    <3> QED BY <2>2, <3>1
  <2> HIDE DEF word
  <2> QED BY <1>8, <2>1, <2>2
<1>13. ASSUME NEW m \in 1..layer + seen, NEW n \in 1..layer + seen, m < n
      PROVE  Precedes(word(m), word(n))
  <2>1. ASSUME NEW a \in 1..2, NEW b \in 1..2, NEW i \in Nat, NEW j \in Nat, a < b \/ (a = b /\ i < j)
        PROVE  Precedes(<<a, i>>, <<b, j>>)
    <3> DEFINE p == <<a, i>>
               q == <<b, j>>
    <3>1. DOMAIN p \cap DOMAIN q = {1, 2} /\ p[1] = a /\ q[1] = b /\ p[2] = i /\ q[2] = j
      OBVIOUS
    <3>2. 1..1 - 1 = {} /\ 1..2 - 1 = {1}
      OBVIOUS
    <3> HIDE DEF p, q
    <3>3. CASE a < b
      <4>1. 1 \in DOMAIN p \cap DOMAIN q /\ p[1] < q[1] /\ \A k \in 1..1 - 1 : p[k] = q[k]
        BY <3>1, <3>2, <3>3
      <4> QED BY <4>1 DEF Precedes, p, q
    <3>4. CASE a = b /\ i < j
      <4>1. 2 \in DOMAIN p \cap DOMAIN q /\ p[2] < q[2] /\ \A k \in 1..2 - 1 : p[k] = q[k]
        BY <3>1, <3>2, <3>4
      <4> QED BY <4>1 DEF Precedes, p, q
    <3> QED BY <2>1, <3>3, <3>4
  <2>2. CASE n <= layer
    <3>1. word(m) = <<1, m>> /\ word(n) = <<1, n>>
      BY <1>13, <2>2
    <3> HIDE DEF word
    <3> QED BY <1>13, <2>1, <3>1
  <2>3. CASE m <= layer /\ ~(n <= layer)
    <3>1. word(m) = <<1, m>> /\ word(n) = <<2, n - layer>> /\ n - layer \in Nat
      BY <2>3
    <3> HIDE DEF word
    <3> QED BY <2>1, <3>1
  <2>4. CASE ~(m <= layer)
    <3>1. /\ word(m) = <<2, m - layer>> /\ word(n) = <<2, n - layer>>
          /\ m - layer \in Nat /\ n - layer \in Nat /\ m - layer < n - layer
      BY <1>13, <2>4
    <3> HIDE DEF word
    <3> QED BY <2>1, <3>1
  <2> QED BY <2>2, <2>3, <2>4
<1> HIDE DEF word, text
<1>14. {text[n] : n \in DOMAIN text} = WordsOf(delivered)
  <2>1. \A n \in DOMAIN text : text[n] \in WordsOf(delivered)
    BY <1>2, <1>3, <1>11
  <2>2. \A w \in WordsOf(delivered) : \E n \in DOMAIN text : text[n] = w
    BY <1>2, <1>3, <1>12
  <2> QED BY <2>1, <2>2
<1>15. \A m, n \in DOMAIN text : m < n => Precedes(text[m], text[n])
  BY <1>2, <1>3, <1>13
<1>16. result.text = text
  BY DEF text
<1> QED BY <1>2, <1>6, <1>14, <1>15, <1>16 DEF Agrees

\* A PDF by itself.
LEMMA PdfAgrees ==
  ASSUME NEW file \in Document, file.kind = "pdf", NEW hint, NEW opts \in Options
  PROVE  Agrees(ExtractPdf(file, opts), Own(file, hint, opts))
<1> DEFINE seen == FirstPages(file.pages, opts.ocrMaxPages)
           result == ExtractPdf(file, opts)
           own == Own(file, hint, opts)
           wanted == Recognised(file, opts)
<1>1. file.layer \in Nat /\ file.pages \in Nat
  BY DEF Document
<1>2. seen \in Nat /\ opts.installed \in BOOLEAN
  BY <1>1 DEF Options, FirstPages
<1> HIDE DEF seen, wanted
<1>3. CASE ~wanted
  <2>1. result.ok = TRUE /\ result.text = PdfText(file.layer, 0)
    BY <1>3 DEF ExtractPdf, Extracted, wanted
  <2>2. own = {LayerOf(file.layer)}
    BY <1>3 DEF LayerOf, Own, Readable, Readings, wanted
  <2> HIDE DEF result, own
  <2>3. Agrees(result, own)
    BY <1>1, <2>1, <2>2, PdfWords
  <2> QED BY <2>3 DEF result, own
<1>4. CASE wanted /\ ~opts.installed
  <2>1. result = Failed
    BY <1>4 DEF ExtractPdf, wanted
  <2>2. own = {}
    BY <1>4 DEF Own, Readable, wanted
  <2> QED BY <2>1, <2>2, Refused DEF Failed
<1>5. CASE wanted /\ opts.installed
  <2>1. result.ok = TRUE /\ result.text = PdfText(file.layer, seen)
    BY <1>5 DEF ExtractPdf, Extracted, wanted, seen
  <2>2. own = {LayerOf(file.layer), PagesOf(seen)}
    BY <1>5 DEF LayerOf, PagesOf, Own, Readable, Readings, wanted, seen
  <2> HIDE DEF result, own
  <2>3. Agrees(result, own)
    BY <1>1, <1>2, <2>1, <2>2, PdfWords
  <2> QED BY <2>3 DEF result, own
<1> QED BY <1>2, <1>3, <1>4, <1>5

\* A document by itself.
LEMMA DocumentAgrees ==
  ASSUME NEW file \in Document, NEW hint, NEW opts \in Options, NEW result,
         \/ file.kind \in {"docx", "xlsx"} /\ result = ExtractOffice(file)
         \/ file.kind = "rtf" /\ result = Extracted(file.words, "rtf")
         \/ file.kind = "pdf" /\ result = ExtractPdf(file, opts)
         \/ file.kind = "cfbf" /\ result = ExtractCfbf(file, hint)
         \/ file.kind = "plain" /\ result = ExtractPlain(file, hint)
  PROVE  Agrees(result, Own(file, hint, opts))
<1> DEFINE own == {[place |-> <<>>, words |-> file.words]}
<1>1. \A n \in Nat : \A format : Agrees(Extracted(n, format), {[place |-> <<>>, words |-> n]})
  BY OwnWords
<1>2. Agrees(Failed, {}) /\ Agrees(Unsupported, {})
  BY Refused DEF Failed, Unsupported
<1>3. /\ file.kind \in {"docx", "xlsx", "rtf", "pdf", "cfbf", "plain"}
      /\ file.kind # "pdf" => file.words \in Nat /\ Readings(file, opts) = own
  BY DEF Document, Readings
<1>4. CASE file.kind \in {"docx", "xlsx"}
  <2>1. result = IF file.sound THEN Extracted(file.words, file.kind) ELSE Failed
    BY <1>4 DEF ExtractOffice
  <2>2. Own(file, hint, opts) = IF file.sound THEN own ELSE {}
    BY <1>3, <1>4 DEF Own, Readable
  <2> QED BY <1>1, <1>2, <1>3, <1>4, <2>1, <2>2
<1>5. CASE file.kind = "rtf"
  <2>1. Own(file, hint, opts) = own
    BY <1>3, <1>5 DEF Own, Readable
  <2> QED BY <1>1, <1>3, <1>5, <2>1
<1>6. CASE file.kind = "pdf"
  BY <1>6, PdfAgrees
<1>7. CASE file.kind = "cfbf"
  <2>1. file.holds \in {"doc", "msg"} /\ (file.holds = "msg" => file.words # 0)
    BY <1>7 DEF Document
  <2>2. \E format : result = Extracted(file.words, format)
    BY <1>3, <1>7, <2>1, MailOrWord
  <2>3. Own(file, hint, opts) = own
    BY <1>3, <1>7 DEF Own, Readable
  <2> QED BY <1>1, <1>3, <1>7, <2>2, <2>3
<1>8. CASE file.kind = "plain"
  <2>1. result = IF hint = "txt" \/ file.printable THEN Extracted(file.words, "txt") ELSE Unsupported
    BY <1>8 DEF ExtractPlain
  <2>2. Own(file, hint, opts) = IF hint = "txt" \/ file.printable THEN own ELSE {}
    BY <1>3, <1>8 DEF Own, Readable
  <2> QED BY <1>1, <1>2, <1>3, <1>8, <2>1, <2>2
<1> QED BY <1>3, <1>4, <1>5, <1>6, <1>7, <1>8

-----------------------------------------------------------------------------
(* Places. *)

\* A place in an entry, seen from its archive.
LEMMA Entered ==
  ASSUME NEW i \in Nat, NEW p \in Seq(Nat)
  PROVE  /\ <<i>> \o p \in Seq(Nat) /\ Len(<<i>> \o p) = Len(p) + 1 /\ Len(p) \in Nat
         /\ DOMAIN (<<i>> \o p) = 1..Len(p) + 1 /\ DOMAIN p = 1..Len(p)
         /\ (<<i>> \o p)[1] = i
         /\ \A k \in 1..Len(p) : (<<i>> \o p)[k + 1] = p[k]
<1>1. <<i>> \in Seq(Nat) /\ Len(<<i>>) = 1 /\ <<i>>[1] = i
  OBVIOUS
<1>2. Len(p) \in Nat /\ DOMAIN p = 1..Len(p)
  BY LenProperties
<1>3. /\ <<i>> \o p \in Seq(Nat)
      /\ Len(<<i>> \o p) = Len(<<i>>) + Len(p)
      /\ \A k \in 1..Len(<<i>>) + Len(p) :
           (<<i>> \o p)[k] = IF k <= Len(<<i>>) THEN <<i>>[k] ELSE p[k - Len(<<i>>)]
  BY <1>1, ConcatProperties
<1> DEFINE f == <<i>> \o p
<1>4. /\ f \in Seq(Nat) /\ Len(f) = Len(p) + 1
      /\ \A k \in 1..Len(p) + 1 : f[k] = IF k <= 1 THEN <<i>>[k] ELSE p[k - 1]
  BY <1>1, <1>2, <1>3
<1> HIDE DEF f
<1>5. DOMAIN f = 1..Len(p) + 1
  BY <1>4, LenProperties
<1>6. f[1] = i
  BY <1>1, <1>2, <1>4
<1>7. \A k \in 1..Len(p) : f[k + 1] = p[k]
  BY <1>2, <1>4
<1> QED BY <1>2, <1>4, <1>5, <1>6, <1>7 DEF f

\* A word of an entry, seen from its archive.
LEMMA WordEntered ==
  ASSUME NEW i \in Nat, NEW p \in Seq(Nat), NEW n \in Nat
  PROVE  Append(<<i>> \o p, n) = <<i>> \o Append(p, n) /\ Append(p, n) \in Seq(Nat)
<1>1. <<i>> \in Seq(Nat) /\ <<n>> \in Seq(Nat) /\ <<i>> \o p \in Seq(Nat)
  BY Entered
<1>2. Append(<<i>> \o p, n) = (<<i>> \o p) \o <<n>>
  BY <1>1, AppendIsConcat
<1>3. Append(p, n) = p \o <<n>> /\ Append(p, n) \in Seq(Nat)
  BY AppendIsConcat, AppendProperties
<1>4. (<<i>> \o p) \o <<n>> = <<i>> \o (p \o <<n>>)
  BY <1>1, ConcatAssociative
<1> QED BY <1>2, <1>3, <1>4

\* Within an entry the order is the entry's.
LEMMA SameEntry ==
  ASSUME NEW i \in Nat, NEW p \in Seq(Nat), NEW q \in Seq(Nat), Precedes(p, q)
  PROVE  Precedes(<<i>> \o p, <<i>> \o q)
<1> DEFINE f == <<i>> \o p
           g == <<i>> \o q
<1>1. /\ Len(p) \in Nat /\ DOMAIN f = 1..Len(p) + 1 /\ DOMAIN p = 1..Len(p) /\ f[1] = i
      /\ \A k \in 1..Len(p) : f[k + 1] = p[k]
  BY Entered
<1>2. /\ Len(q) \in Nat /\ DOMAIN g = 1..Len(q) + 1 /\ DOMAIN q = 1..Len(q) /\ g[1] = i
      /\ \A k \in 1..Len(q) : g[k + 1] = q[k]
  BY Entered
<1> HIDE DEF f, g
<1>3. PICK k \in DOMAIN p \cap DOMAIN q : p[k] < q[k] /\ \A j \in 1..k - 1 : p[j] = q[j]
  BY DEF Precedes
<1>4. k \in 1..Len(p) /\ k \in 1..Len(q)
  BY <1>1, <1>2, <1>3
<1>5. k + 1 \in DOMAIN f \cap DOMAIN g /\ f[k + 1] < g[k + 1]
  BY <1>1, <1>2, <1>3, <1>4
<1>6. ASSUME NEW j \in 1..(k + 1) - 1
      PROVE  f[j] = g[j]
  <2>1. CASE j = 1
    BY <1>1, <1>2, <2>1
  <2>2. CASE j # 1
    <3>0. k \in Nat /\ k <= Len(p) /\ k <= Len(q) /\ Len(p) \in Nat /\ Len(q) \in Nat
      BY <1>1, <1>2, <1>4
    <3>9. j \in Nat /\ 1 <= j /\ j <= k
      BY <1>6, <3>0
    <3>1. j - 1 \in 1..Len(p) /\ j - 1 \in 1..Len(q) /\ j - 1 \in 1..k - 1 /\ (j - 1) + 1 = j
      BY ONLY <3>0, <3>9, <2>2
    <3>2. f[(j - 1) + 1] = p[j - 1] /\ g[(j - 1) + 1] = q[j - 1] /\ p[j - 1] = q[j - 1]
      BY <1>1, <1>2, <1>3, <3>1
    <3> QED BY <3>1, <3>2
  <2> QED BY <2>1, <2>2
<1>7. Precedes(f, g)
  BY <1>5, <1>6 DEF Precedes
<1> QED BY <1>7 DEF f, g

\* One entry stands before the next.
LEMMA NextEntry ==
  ASSUME NEW i \in Nat, NEW j \in Nat, i < j, NEW p \in Seq(Nat), NEW q \in Seq(Nat)
  PROVE  Precedes(<<i>> \o p, <<j>> \o q)
<1> DEFINE f == <<i>> \o p
           g == <<j>> \o q
<1>1. Len(p) \in Nat /\ DOMAIN f = 1..Len(p) + 1 /\ f[1] = i
  BY Entered
<1>2. Len(q) \in Nat /\ DOMAIN g = 1..Len(q) + 1 /\ g[1] = j
  BY Entered
<1> HIDE DEF f, g
<1>3. 1 \in DOMAIN f \cap DOMAIN g /\ f[1] < g[1]
  BY <1>1, <1>2
<1>4. \A k \in 1..1 - 1 : f[k] = g[k]
  OBVIOUS
<1>5. Precedes(f, g)
  BY <1>3, <1>4 DEF Precedes
<1> QED BY <1>5 DEF f, g

\* The words of the documents that an archive delivers are those of its entries.
LEMMA WordsInside ==
  ASSUME NEW len \in Nat, NEW P \in SUBSET (1..len), NEW given,
         \A i \in P : given[i] \subseteq [place : Seq(Nat), words : Nat],
         NEW delivered, \A d : d \in delivered <=> \E i \in P : d \in Under(i, given[i])
  PROVE  /\ delivered \subseteq [place : Seq(Nat), words : Nat]
         /\ \A i \in P : \A w \in WordsOf(given[i]) : w \in Seq(Nat) /\ <<i>> \o w \in WordsOf(delivered)
         /\ \A v \in WordsOf(delivered) : \E i \in P : \E w \in WordsOf(given[i]) : v = <<i>> \o w
         /\ \A d \in delivered : d.place[1] \in P /\ given[d.place[1]] # {}
         /\ \A i \in P : given[i] # {} => \E d \in delivered : d.place[1] = i
<1>1. \A i \in P : \A d \in given[i] :
        /\ i \in Nat /\ d.place \in Seq(Nat) /\ d.words \in Nat
        /\ [place |-> <<i>> \o d.place, words |-> d.words] \in delivered
        /\ <<i>> \o d.place \in Seq(Nat) /\ (<<i>> \o d.place)[1] = i
  <2> SUFFICES ASSUME NEW i \in P, NEW d \in given[i]
               PROVE  /\ i \in Nat /\ d.place \in Seq(Nat) /\ d.words \in Nat
                      /\ [place |-> <<i>> \o d.place, words |-> d.words] \in delivered
                      /\ <<i>> \o d.place \in Seq(Nat) /\ (<<i>> \o d.place)[1] = i
    OBVIOUS
  <2>1. i \in Nat /\ d.place \in Seq(Nat) /\ d.words \in Nat
    <3>1. d \in [place : Seq(Nat), words : Nat] /\ i \in 1..len
      OBVIOUS
    <3> QED BY <3>1
  <2>2. [place |-> <<i>> \o d.place, words |-> d.words] \in Under(i, given[i])
    BY DEF Under
  <2> QED BY <2>1, <2>2, Entered
<1>2. \A e \in delivered : \E i \in P : \E d \in given[i] : e = [place |-> <<i>> \o d.place, words |-> d.words]
  BY DEF Under
<1>3. ASSUME NEW e \in delivered
      PROVE  e \in [place : Seq(Nat), words : Nat]
  <2>1. PICK i \in P : \E d \in given[i] : e = [place |-> <<i>> \o d.place, words |-> d.words]
    BY <1>2
  <2>2. PICK d \in given[i] : e = [place |-> <<i>> \o d.place, words |-> d.words]
    BY <2>1
  <2>3. <<i>> \o d.place \in Seq(Nat) /\ d.words \in Nat
    BY <1>1
  <2> QED BY ONLY <2>2, <2>3
<1>4. ASSUME NEW i \in P, NEW w \in WordsOf(given[i])
      PROVE  w \in Seq(Nat) /\ <<i>> \o w \in WordsOf(delivered)
  <2>0. PICK d \in given[i] : \E n \in 1..d.words : w = Append(d.place, n)
    BY <1>4 DEF WordsOf
  <2>1. PICK n \in 1..d.words : w = Append(d.place, n)
    BY <2>0
  <2>2. n \in Nat
    BY <1>1, <2>1
  <2>3. Append(<<i>> \o d.place, n) = <<i>> \o w /\ w \in Seq(Nat)
    BY <1>1, <2>1, <2>2, WordEntered
  <2> DEFINE e == [place |-> <<i>> \o d.place, words |-> d.words]
  <2>4. e \in delivered /\ e.place = <<i>> \o d.place /\ e.words = d.words
    BY <1>1
  <2> HIDE DEF e
  <2>5. Append(e.place, n) \in WordsOf(delivered)
    BY <2>1, <2>4, WordIn
  <2> QED BY <2>3, <2>4, <2>5
<1>5. ASSUME NEW v \in WordsOf(delivered)
      PROVE  \E i \in P : \E w \in WordsOf(given[i]) : v = <<i>> \o w
  <2>0. PICK e \in delivered : \E n \in 1..e.words : v = Append(e.place, n)
    BY <1>5 DEF WordsOf
  <2>1. PICK n \in 1..e.words : v = Append(e.place, n)
    BY <2>0
  <2>9. PICK i \in P : \E d \in given[i] : e = [place |-> <<i>> \o d.place, words |-> d.words]
    BY <1>2
  <2>2. PICK d \in given[i] : e = [place |-> <<i>> \o d.place, words |-> d.words]
    BY <2>9
  <2>3. e.place = <<i>> \o d.place /\ e.words = d.words
    BY <2>2
  <2>4. n \in Nat /\ i \in Nat /\ d.place \in Seq(Nat)
    BY <1>1, <2>1, <2>2, <2>3
  <2>5. v = <<i>> \o Append(d.place, n)
    <3>1. v = Append(<<i>> \o d.place, n)
      BY <2>1, <2>3
    <3>2. Append(<<i>> \o d.place, n) = <<i>> \o Append(d.place, n)
      BY ONLY <2>4, WordEntered
    <3> QED BY <3>1, <3>2
  <2>6. Append(d.place, n) \in WordsOf(given[i])
    <3>1. n \in 1..d.words
      BY <2>1, <2>3
    <3> QED BY <3>1, WordIn
  <2> QED BY <2>5, <2>6
<1>6. ASSUME NEW i \in P, given[i] # {}
      PROVE  \E d \in delivered : d.place[1] = i
  <2>1. PICK d \in given[i] : TRUE
    BY <1>6
  <2> DEFINE e == [place |-> <<i>> \o d.place, words |-> d.words]
  <2>2. e \in delivered /\ e.place = <<i>> \o d.place
    BY <1>1
  <2> HIDE DEF e
  <2>3. e.place[1] = i
    BY <1>1, <2>2
  <2> QED BY <2>2, <2>3
<1>7. ASSUME NEW e \in delivered
      PROVE  e.place[1] \in P /\ given[e.place[1]] # {}
  <2>1. PICK i \in P : \E d \in given[i] : e = [place |-> <<i>> \o d.place, words |-> d.words]
    BY <1>2
  <2>2. PICK d \in given[i] : e = [place |-> <<i>> \o d.place, words |-> d.words]
    BY <2>1
  <2>3. e.place = <<i>> \o d.place
    BY <2>2
  <2>4. e.place[1] = i
    BY <1>1, <2>3
  <2> QED BY <2>4
<1> QED BY <1>3, <1>4, <1>5, <1>6, <1>7

-----------------------------------------------------------------------------
(* The texts of the entries, one behind the other. *)

\* What one entry adds.
Adds(read, i) ==
  IF i \in DOMAIN read /\ read[i].ok
  THEN [n \in DOMAIN read[i].text |-> <<i>> \o read[i].text[n]] ELSE <<>>

BehindTo(read, n, upTo) ==
  upTo = [i \in 0..n |-> IF i = 0 THEN <<>> ELSE upTo[i - 1] \o Adds(read, i)]

\* The texts behind one another are what they are written as.
LEMMA BehindDefined ==
  ASSUME NEW len \in Nat, NEW read
  PROVE  /\ Behind(read, len)[0] = <<>>
         /\ \A n \in 0..len : n < len => Behind(read, len)[n + 1] = Behind(read, len)[n] \o Adds(read, n + 1)
<1> DEFINE T == {n \in Nat : \E upTo : BehindTo(read, n, upTo)}
<1>1. 0 \in T
  <2>1. BehindTo(read, 0, [i \in 0..0 |-> <<>>])
    BY DEF BehindTo
  <2> QED BY <2>1
<1>2. ASSUME NEW n \in Nat, n \in T
      PROVE  n + 1 \in T
  <2>1. PICK upTo : BehindTo(read, n, upTo)
    BY <1>2
  <2> DEFINE on == [i \in 0..(n + 1) |-> IF i = n + 1 THEN upTo[n] \o Adds(read, n + 1) ELSE upTo[i]]
  <2>2. BehindTo(read, n + 1, on)
    <3>1. \A i \in 0..n : upTo[i] = IF i = 0 THEN <<>> ELSE upTo[i - 1] \o Adds(read, i)
      BY <2>1 DEF BehindTo
    <3>2. on[n + 1] = upTo[n] \o Adds(read, n + 1) /\ \A i \in 0..n : on[i] = upTo[i]
      OBVIOUS
    <3>3. on = [i \in 0..(n + 1) |-> on[i]]
      OBVIOUS
    <3> HIDE DEF on
    <3>4. (n + 1) - 1 = n /\ n + 1 # 0 /\ n \in 0..n
      OBVIOUS
    <3>5. on[n + 1] = on[(n + 1) - 1] \o Adds(read, n + 1)
      BY <3>2, <3>4
    <3>6. ASSUME NEW i \in 0..n, i # 0
          PROVE  on[i] = on[i - 1] \o Adds(read, i)
      <4>1. i - 1 \in 0..n
        BY <3>6
      <4>2. upTo[i] = upTo[i - 1] \o Adds(read, i)
        BY <3>1, <3>6
      <4> QED BY <3>2, <4>1, <4>2
    <3>7. on[0] = <<>>
      BY <3>1, <3>2
    <3>8. ASSUME NEW i \in 0..(n + 1)
          PROVE  on[i] = IF i = 0 THEN <<>> ELSE on[i - 1] \o Adds(read, i)
      <4>1. i \in 0..n \/ i = n + 1
        OBVIOUS
      <4> QED BY <3>4, <3>5, <3>6, <3>7, <4>1
    <3> QED BY <3>3, <3>8 DEF BehindTo
  <2> QED BY <2>2
<1>3. \E upTo : BehindTo(read, len, upTo)
  <2>1. 0..len \subseteq T
    BY <1>1, <1>2, UpTo
  <2> QED BY <2>1
<1>4. Behind(read, len) = CHOOSE upTo : BehindTo(read, len, upTo)
  BY DEF Behind, BehindTo, Adds
<1> DEFINE upTo == Behind(read, len)
<1>5. BehindTo(read, len, upTo)
  BY <1>3, <1>4
<1> HIDE DEF upTo
<1>6. \A i \in 0..len : upTo[i] = IF i = 0 THEN <<>> ELSE upTo[i - 1] \o Adds(read, i)
  BY <1>5 DEF BehindTo
<1>7. \A n \in 0..len : n < len => n + 1 \in 0..len /\ n + 1 # 0 /\ (n + 1) - 1 = n
  OBVIOUS
<1>8. \A n \in 0..len : n < len => upTo[n + 1] = upTo[n] \o Adds(read, n + 1)
  BY <1>6, <1>7
<1>9. upTo[0] = <<>>
  BY <1>6
<1> QED BY <1>8, <1>9 DEF upTo

Ascending(text) == \A m, n \in DOMAIN text : m < n => Precedes(text[m], text[n])

\* The words that one entry adds.
LEMMA AddsWords ==
  ASSUME NEW read, NEW i \in Nat,
         i \in DOMAIN read /\ read[i].ok => read[i].text \in Seq(Seq(Nat)) /\ Ascending(read[i].text)
  PROVE  /\ Adds(read, i) \in Seq(Seq(Nat))
         /\ Ascending(Adds(read, i))
         /\ \A n \in DOMAIN Adds(read, i) :
              /\ i \in DOMAIN read /\ read[i].ok
              /\ n \in DOMAIN read[i].text /\ read[i].text[n] \in Seq(Nat)
              /\ Adds(read, i)[n] = <<i>> \o read[i].text[n]
         /\ i \in DOMAIN read /\ read[i].ok =>
              \A n \in DOMAIN read[i].text : n \in DOMAIN Adds(read, i) /\ Adds(read, i)[n] = <<i>> \o read[i].text[n]
<1>1. CASE i \in DOMAIN read /\ read[i].ok
  <2> DEFINE text == read[i].text
             adds == Adds(read, i)
  <2>1. adds = [n \in DOMAIN text |-> <<i>> \o text[n]]
    BY <1>1 DEF Adds
  <2>2. text \in Seq(Seq(Nat)) /\ Ascending(text)
    BY <1>1
  <2> HIDE DEF text, adds
  <2>3. Len(text) \in Nat /\ DOMAIN text = 1..Len(text) /\ \A n \in DOMAIN text : text[n] \in Seq(Nat)
    BY <2>2, LenProperties, ElementOfSeq
  <2>4. \A n \in DOMAIN text : <<i>> \o text[n] \in Seq(Nat)
    BY <2>3, Entered
  <2>5. adds \in [1..Len(text) -> Seq(Nat)]
    BY <2>1, <2>3, <2>4
  <2>6. adds \in Seq(Seq(Nat)) /\ DOMAIN adds = DOMAIN text
    BY <2>3, <2>5, ListOf
  <2>7. \A n \in DOMAIN text : adds[n] = <<i>> \o text[n]
    BY <2>1
  <2>8. ASSUME NEW m \in DOMAIN text, NEW n \in DOMAIN text, m < n
        PROVE  Precedes(adds[m], adds[n])
    <3>1. Precedes(text[m], text[n])
      BY <2>2, <2>8 DEF Ascending
    <3>2. text[m] \in Seq(Nat) /\ text[n] \in Seq(Nat)
      BY <2>3
    <3>3. Precedes(<<i>> \o text[m], <<i>> \o text[n])
      BY ONLY <3>1, <3>2, i \in Nat, SameEntry
    <3> QED BY <2>7, <3>3
  <2>9. Ascending(adds)
    BY <2>6, <2>8 DEF Ascending
  <2>10. /\ \A n \in DOMAIN adds : n \in DOMAIN text /\ text[n] \in Seq(Nat) /\ adds[n] = <<i>> \o text[n]
         /\ \A n \in DOMAIN text : n \in DOMAIN adds /\ adds[n] = <<i>> \o text[n]
    BY <2>3, <2>6, <2>7
  <2> QED BY <1>1, <2>6, <2>9, <2>10 DEF text, adds
<1>2. CASE ~(i \in DOMAIN read /\ read[i].ok)
  <2>1. Adds(read, i) = <<>>
    BY <1>2 DEF Adds
  <2>2. <<>> \in Seq(Seq(Nat)) /\ DOMAIN <<>> = {}
    BY EmptySeq
  <2> QED BY <1>2, <2>1, <2>2 DEF Ascending
<1> QED BY <1>1, <1>2

\* Two texts behind one another.
LEMMA JoinedTexts ==
  ASSUME NEW S, NEW s \in Seq(S), NEW t \in Seq(S)
  PROVE  /\ s \o t \in Seq(S) /\ Len(s) \in Nat /\ DOMAIN s = 1..Len(s)
         /\ Len(t) \in Nat /\ DOMAIN t = 1..Len(t)
         /\ \A k \in DOMAIN s : k \in DOMAIN (s \o t) /\ (s \o t)[k] = s[k]
         /\ \A k \in DOMAIN t : Len(s) + k \in DOMAIN (s \o t) /\ (s \o t)[Len(s) + k] = t[k]
         /\ \A k \in DOMAIN (s \o t) :
              \/ k \in DOMAIN s
              \/ k - Len(s) \in DOMAIN t /\ Len(s) + (k - Len(s)) = k /\ k > Len(s)
<1> DEFINE st == s \o t
<1>1. /\ Len(s) \in Nat /\ DOMAIN s = 1..Len(s)
      /\ Len(t) \in Nat /\ DOMAIN t = 1..Len(t)
  BY LenProperties
<1>2. /\ st \in Seq(S)
      /\ Len(st) = Len(s) + Len(t)
      /\ \A k \in 1..Len(s) + Len(t) : st[k] = IF k <= Len(s) THEN s[k] ELSE t[k - Len(s)]
  BY ConcatProperties
<1> HIDE DEF st
<1>3. DOMAIN st = 1..Len(s) + Len(t)
  BY <1>2, LenProperties
<1>4. \A k \in DOMAIN s : k \in DOMAIN st /\ st[k] = s[k]
  BY <1>1, <1>2, <1>3
<1>5. ASSUME NEW k \in DOMAIN t
      PROVE  Len(s) + k \in DOMAIN st /\ st[Len(s) + k] = t[k]
  <2>1. k \in Nat /\ 1 <= k /\ k <= Len(t)
    BY <1>1
  <2>2. Len(s) + k \in 1..Len(s) + Len(t) /\ ~(Len(s) + k <= Len(s)) /\ (Len(s) + k) - Len(s) = k
    BY <1>1, <2>1
  <2> QED BY <1>2, <1>3, <2>2
<1>6. \A k \in DOMAIN st :
        \/ k \in DOMAIN s
        \/ k - Len(s) \in DOMAIN t /\ Len(s) + (k - Len(s)) = k /\ k > Len(s)
  BY <1>1, <1>3
<1> QED BY <1>1, <1>2, <1>4, <1>5, <1>6 DEF st

\* What is read of the entries: their texts, each word behind the place of its entry, all
\* of them and in order.
Collects(read, n, text) ==
  /\ text \in Seq(Seq(Nat))
  /\ \A k \in DOMAIN text : \E j \in DOMAIN read :
       /\ j <= n /\ read[j].ok
       /\ \E m \in DOMAIN read[j].text : text[k] = <<j>> \o read[j].text[m]
  /\ \A j \in DOMAIN read : j <= n /\ read[j].ok =>
       \A m \in DOMAIN read[j].text : \E k \in DOMAIN text : text[k] = <<j>> \o read[j].text[m]
  /\ Ascending(text)

\* One entry more.
LEMMA CollectsOneMore ==
  ASSUME NEW read, DOMAIN read \subseteq Nat \ {0},
         \A i \in DOMAIN read : read[i].ok => read[i].text \in Seq(Seq(Nat)) /\ Ascending(read[i].text),
         NEW n \in Nat, NEW text, Collects(read, n, text)
  PROVE  Collects(read, n + 1, text \o Adds(read, n + 1))
<1> DEFINE adds == Adds(read, n + 1)
           on == text \o adds
<1>0. text \in Seq(Seq(Nat)) /\ Ascending(text) /\ n + 1 \in Nat
  BY DEF Collects
<1>1. /\ adds \in Seq(Seq(Nat)) /\ Ascending(adds)
      /\ \A k \in DOMAIN adds :
           /\ n + 1 \in DOMAIN read /\ read[n + 1].ok
           /\ k \in DOMAIN read[n + 1].text /\ read[n + 1].text[k] \in Seq(Nat)
           /\ adds[k] = <<n + 1>> \o read[n + 1].text[k]
      /\ n + 1 \in DOMAIN read /\ read[n + 1].ok =>
           \A k \in DOMAIN read[n + 1].text :
             k \in DOMAIN adds /\ adds[k] = <<n + 1>> \o read[n + 1].text[k]
  <2>1. n + 1 \in DOMAIN read /\ read[n + 1].ok =>
          read[n + 1].text \in Seq(Seq(Nat)) /\ Ascending(read[n + 1].text)
    OBVIOUS
  <2> QED BY ONLY <1>0, <2>1, AddsWords
<1> HIDE DEF adds
<1>2. /\ on \in Seq(Seq(Nat)) /\ Len(text) \in Nat /\ DOMAIN text = 1..Len(text)
      /\ Len(adds) \in Nat /\ DOMAIN adds = 1..Len(adds)
      /\ \A k \in DOMAIN text : k \in DOMAIN on /\ on[k] = text[k]
      /\ \A k \in DOMAIN adds : Len(text) + k \in DOMAIN on /\ on[Len(text) + k] = adds[k]
      /\ \A k \in DOMAIN on :
           \/ k \in DOMAIN text
           \/ k - Len(text) \in DOMAIN adds /\ Len(text) + (k - Len(text)) = k /\ k > Len(text)
  BY <1>0, <1>1, JoinedTexts
<1> HIDE DEF on
<1>3. \A k \in DOMAIN text : \E j \in DOMAIN read :
        /\ j <= n /\ read[j].ok
        /\ \E m \in DOMAIN read[j].text : text[k] = <<j>> \o read[j].text[m]
  BY DEF Collects
<1>4. ASSUME NEW k \in DOMAIN on
      PROVE  \E j \in DOMAIN read :
               /\ j <= n + 1 /\ read[j].ok
               /\ \E m \in DOMAIN read[j].text : on[k] = <<j>> \o read[j].text[m]
  <2>1. CASE k \in DOMAIN text
    <3>1. PICK j \in DOMAIN read : /\ j <= n /\ read[j].ok
                                   /\ \E m \in DOMAIN read[j].text : text[k] = <<j>> \o read[j].text[m]
      BY <1>3, <2>1
    <3>2. on[k] = text[k]
      BY <1>2, <2>1
    <3>3. j \in Nat
      OBVIOUS
    <3>4. j <= n + 1
      BY <3>1, <3>3
    <3> QED BY <3>1, <3>2, <3>4
  <2>2. CASE k - Len(text) \in DOMAIN adds /\ Len(text) + (k - Len(text)) = k
    <3>1. on[k] = adds[k - Len(text)]
      BY <1>2, <2>2
    <3>2. /\ n + 1 \in DOMAIN read /\ read[n + 1].ok
          /\ k - Len(text) \in DOMAIN read[n + 1].text
          /\ adds[k - Len(text)] = <<n + 1>> \o read[n + 1].text[k - Len(text)]
      BY <1>1, <2>2
    <3>3. n + 1 <= n + 1
      OBVIOUS
    <3> QED BY <3>1, <3>2, <3>3
  <2> QED BY <1>2, <2>1, <2>2
<1>5. ASSUME NEW j \in DOMAIN read, j <= n + 1, read[j].ok, NEW m \in DOMAIN read[j].text
      PROVE  \E k \in DOMAIN on : on[k] = <<j>> \o read[j].text[m]
  <2>1. CASE j <= n
    <3>1. PICK k \in DOMAIN text : text[k] = <<j>> \o read[j].text[m]
      BY <1>5, <2>1 DEF Collects
    <3> QED BY <1>2, <3>1
  <2>2. CASE j = n + 1
    <3>1. m \in DOMAIN adds /\ adds[m] = <<j>> \o read[j].text[m]
      BY <1>1, <1>5, <2>2
    <3> QED BY <1>2, <3>1
  <2>3. j \in Nat
    OBVIOUS
  <2>4. j <= n \/ j = n + 1
    BY ONLY <1>5, <2>3, n \in Nat
  <2> QED BY <2>1, <2>2, <2>4
<1>6. ASSUME NEW k \in DOMAIN on, NEW l \in DOMAIN on, k < l
      PROVE  Precedes(on[k], on[l])
  <2>1. CASE k \in DOMAIN text /\ l \in DOMAIN text
    BY <1>0, <1>2, <1>6, <2>1 DEF Ascending
  <2>2. CASE k \in DOMAIN text /\ l \notin DOMAIN text
    <3>1. PICK j \in DOMAIN read : /\ j <= n /\ read[j].ok
                                   /\ \E m \in DOMAIN read[j].text : text[k] = <<j>> \o read[j].text[m]
      BY <1>3, <2>2
    <3>2. PICK m \in DOMAIN read[j].text : text[k] = <<j>> \o read[j].text[m]
      BY <3>1
    <3>3. read[j].text[m] \in Seq(Nat) /\ j \in Nat /\ j < n + 1
      <4>1. read[j].text \in Seq(Seq(Nat))
        BY <3>1
      <4>2. j \in Nat
        OBVIOUS
      <4> QED BY <3>1, <4>1, <4>2, ElementOfSeq, LenProperties
    <3>4. l - Len(text) \in DOMAIN adds /\ on[l] = adds[l - Len(text)]
      BY <1>2, <2>2
    <3> DEFINE r == l - Len(text)
    <3>5. /\ r \in DOMAIN read[n + 1].text /\ read[n + 1].text[r] \in Seq(Nat)
          /\ adds[r] = <<n + 1>> \o read[n + 1].text[r]
      BY <1>1, <3>4
    <3> HIDE DEF r
    <3>6. Precedes(<<j>> \o read[j].text[m], <<n + 1>> \o read[n + 1].text[r])
      BY <1>0, <3>3, <3>5, NextEntry
    <3>7. on[k] = text[k]
      BY <1>2, <2>2
    <3> QED BY <3>2, <3>4, <3>5, <3>6, <3>7 DEF r
  <2>3. CASE k \notin DOMAIN text /\ l \in DOMAIN text
    <3>1. k > Len(text) /\ l <= Len(text) /\ Len(text) \in Nat /\ l \in Nat
      BY <1>2, <2>3
    <3>2. k \in Int
      <4>1. DOMAIN on = 1..Len(on) /\ Len(on) \in Nat
        BY <1>2, LenProperties
      <4> QED BY <4>1
    <3> QED BY <1>6, <3>1, <3>2
  <2>4. CASE k \notin DOMAIN text /\ l \notin DOMAIN text
    <3>1. /\ k - Len(text) \in DOMAIN adds /\ on[k] = adds[k - Len(text)]
          /\ l - Len(text) \in DOMAIN adds /\ on[l] = adds[l - Len(text)]
      BY <1>2, <2>4
    <3>2. k \in Int /\ l \in Int
      <4>1. DOMAIN on = 1..Len(on) /\ Len(on) \in Nat
        BY <1>2, LenProperties
      <4> QED BY <4>1
    <3>3. k - Len(text) < l - Len(text)
      BY <1>2, <1>6, <3>2
    <3> QED BY <1>1, <3>1, <3>3 DEF Ascending
  <2> QED BY <2>1, <2>2, <2>3, <2>4
<1>7. Ascending(on)
  BY <1>6 DEF Ascending
<1>8. Collects(read, n + 1, on)
  BY <1>2, <1>4, <1>5, <1>7 DEF Collects
<1> QED BY <1>8 DEF on, adds

\* The text of an archive is what is read of its entries.
LEMMA TogetherCollects ==
  ASSUME NEW len \in Nat, NEW read, DOMAIN read \subseteq 1..len,
         \A i \in DOMAIN read : read[i].ok => read[i].text \in Seq(Seq(Nat)) /\ Ascending(read[i].text)
  PROVE  Collects(read, len, Together(read, len))
<1> DEFINE upTo == Behind(read, len)
           T == {n \in 0..len : Collects(read, n, upTo[n])}
<1>1. upTo[0] = <<>> /\ \A n \in 0..len : n < len => upTo[n + 1] = upTo[n] \o Adds(read, n + 1)
  BY BehindDefined
<1>2. DOMAIN read \subseteq Nat \ {0} /\ \A i \in DOMAIN read : ~(i <= 0)
  OBVIOUS
<1> HIDE DEF upTo
<1>3. 0 \in T
  <2>1. <<>> \in Seq(Seq(Nat)) /\ DOMAIN <<>> = {}
    BY EmptySeq
  <2>2. Collects(read, 0, <<>>)
    BY <1>2, <2>1 DEF Collects, Ascending
  <2> QED BY <1>1, <2>2
<1>4. ASSUME NEW n \in 0..len, n < len, n \in T
      PROVE  n + 1 \in T
  <2>1. Collects(read, n, upTo[n]) /\ n \in Nat
    BY <1>4
  <2>2. Collects(read, n + 1, upTo[n] \o Adds(read, n + 1))
    BY <1>2, <2>1, CollectsOneMore
  <2>3. upTo[n + 1] = upTo[n] \o Adds(read, n + 1) /\ n + 1 \in 0..len
    <3>1. n + 1 \in 0..len
      BY <1>4
    <3> QED BY <1>1, <1>4, <3>1
  <2> QED BY <2>2, <2>3
<1>5. 0..len \subseteq T
  <2> HIDE DEF T
  <2> QED BY <1>3, <1>4, UpTo
<1>6. Collects(read, len, upTo[len])
  BY <1>5
<1> QED BY <1>6 DEF Together, upTo

-----------------------------------------------------------------------------
(* Archives, by what has been read of their payloads. *)

\* Each payload is a part or a skipped part, and a part if it delivers anything.
Accounts(result, file, delivered) ==
  result.ok => /\ result.parts \cup result.skippedParts = Payloads(file)
               /\ result.parts \cap result.skippedParts = {}
               /\ result.parts = {d.place[1] : d \in delivered}

\* An archive agrees with what it delivers if its payloads do: the induction over the depth.
LEMMA ArchiveAgrees ==
  ASSUME NEW S, NEW file, file.entries \in Seq(S), NEW read, DOMAIN read = Payloads(file), NEW given,
         \A i \in Payloads(file) : i \notin Legible(file) => read[i] = Unsupported,
         \A i \in Legible(file) : file.entries[i].inflates => Agrees(read[i], given[i]),
         \A i \in Legible(file) : ~file.entries[i].inflates => read[i] = Thrown("zip"),
         NEW delivered,
         delivered = IF Opens(file) THEN UNION {Under(i, given[i]) : i \in Legible(file)} ELSE {},
         NEW result, result = ExtractContainer(file, read)
  PROVE  Agrees(result, delivered) /\ Accounts(result, file, delivered)
<1> DEFINE len == Len(file.entries)
           P == Legible(file)
           parts == {i \in Payloads(file) : read[i].ok}
<1>1. len \in Nat /\ DOMAIN file.entries = 1..len
  BY LenProperties
<1>2. P \subseteq Payloads(file) /\ Payloads(file) \subseteq 1..len
  BY <1>1 DEF Legible, Payloads
<1>3. Agrees(Failed, {}) /\ Agrees(Unsupported, {}) /\ ~Failed.ok /\ ~Unsupported.ok /\ Unsupported # Thrown("zip")
  BY Refused DEF Failed, Unsupported, Thrown
<1> HIDE DEF P, len
<1>4. CASE ~Opens(file)
  <2>1. ~MimetypeReads(file) \/ \E i \in Payloads(file) : read[i] = Thrown("zip")
    <3>1. PICK i \in DOMAIN file.entries :
            file.entries[i].hint \notin {"plumbing", "picture"} /\ ~file.entries[i].inflates
      BY <1>4 DEF Opens
    <3>2. CASE file.entries[i].hint = "mimetype"
      BY <3>1, <3>2 DEF MimetypeReads
    <3>3. CASE file.entries[i].hint # "mimetype"
      <4>1. i \in P
        BY <3>1, <3>3 DEF P, Legible
      <4> QED BY <1>2, <3>1, <4>1 DEF P
    <3> QED BY <3>2, <3>3
  <2>2. result = Failed
    BY <2>1 DEF ExtractContainer
  <2>3. delivered = {}
    BY <1>4
  <2> QED BY <1>3, <2>2, <2>3 DEF Accounts
<1>5. CASE Opens(file)
  <2>0. MimetypeReads(file) /\ \A i \in P : file.entries[i].inflates
    BY <1>5 DEF Opens, MimetypeReads, P, Legible
  <2>1. \A i \in P : Agrees(read[i], given[i])
    BY <2>0 DEF P
  <2>2. delivered = UNION {Under(i, given[i]) : i \in P}
    BY <1>5 DEF P
  <2>3. \A i \in P : given[i] \subseteq [place : Seq(Nat), words : Nat]
    BY <2>1 DEF Agrees
  <2>4. /\ delivered \subseteq [place : Seq(Nat), words : Nat]
        /\ \A i \in P : \A w \in WordsOf(given[i]) : w \in Seq(Nat) /\ <<i>> \o w \in WordsOf(delivered)
        /\ \A v \in WordsOf(delivered) : \E i \in P : \E w \in WordsOf(given[i]) : v = <<i>> \o w
        /\ \A d \in delivered : d.place[1] \in P /\ given[d.place[1]] # {}
        /\ \A i \in P : given[i] # {} => \E d \in delivered : d.place[1] = i
    <3>1. P \in SUBSET (1..len)
      BY <1>2
    <3>2. \A d : d \in delivered <=> \E i \in P : d \in Under(i, given[i])
      BY <2>2
    <3> QED BY ONLY <1>1, <2>3, <3>1, <3>2, WordsInside
  <2>5. \A i \in Payloads(file) : read[i] # Thrown("zip")
    <3>1. \A i \in P : read[i] # Thrown("zip")
      BY <2>1 DEF Agrees, Thrown
    <3> QED BY <1>3, <3>1 DEF P
  <2>6. parts = {i \in P : given[i] # {}}
    <3>1. \A i \in P : read[i].ok <=> given[i] # {}
      BY <2>1 DEF Agrees
    <3>2. \A i \in Payloads(file) : i \notin P => ~read[i].ok
      BY <1>3 DEF P
    <3> QED BY <1>2, <3>1, <3>2
  <2>7. parts = {d.place[1] : d \in delivered}
    <3>1. \A d \in delivered : d.place[1] \in parts
      BY <2>4, <2>6
    <3>2. \A i \in parts : \E d \in delivered : d.place[1] = i
      BY <2>4, <2>6
    <3> HIDE DEF parts
    <3> QED BY <3>1, <3>2
  <2>8. parts = {} <=> delivered = {}
    <3>1. delivered = {} => {d.place[1] : d \in delivered} = {}
      OBVIOUS
    <3>2. ASSUME NEW d \in delivered
          PROVE  {c.place[1] : c \in delivered} # {}
      OBVIOUS
    <3> QED BY <2>7, <3>1, <3>2
  <2>9. CASE parts = {}
    <3>1. result = Unsupported
      BY <2>0, <2>5, <2>9 DEF ExtractContainer
    <3> QED BY <1>3, <2>8, <2>9, <3>1 DEF Accounts
  <2>10. CASE parts # {}
    <3>1. result = [ok |-> TRUE, format |-> "zip", parts |-> parts, skippedParts |-> Skipped(read),
                    text |-> Together(read, len)]
      BY <2>0, <2>5, <2>10 DEF ExtractContainer, len
    <3>2. /\ result.ok = TRUE /\ result.text = Together(read, len)
          /\ result.parts = parts /\ result.skippedParts = Skipped(read)
      BY <3>1
    <3>3. \A i \in DOMAIN read : read[i].ok =>
            /\ i \in P /\ i \in Nat
            /\ read[i].text \in Seq(Seq(Nat)) /\ Ascending(read[i].text)
            /\ {read[i].text[n] : n \in DOMAIN read[i].text} = WordsOf(given[i])
      <4>1. \A i \in DOMAIN read : read[i].ok => i \in P
        BY <1>3 DEF P
      <4>2. \A i \in P : i \in Nat
        BY <1>1, <1>2
      <4> QED BY <2>1, <4>1, <4>2 DEF Agrees, Ascending
    <3> DEFINE text == Together(read, len)
    <3>4. Collects(read, len, text)
      BY <1>1, <1>2, <3>3, TogetherCollects
    <3> HIDE DEF text, parts
    <3>5. text \in Seq(Seq(Nat)) /\ Ascending(text)
      BY <3>4 DEF Collects
    <3>6. ASSUME NEW k \in DOMAIN text
          PROVE  text[k] \in WordsOf(delivered)
      <4>1. PICK j \in DOMAIN read : read[j].ok /\ \E m \in DOMAIN read[j].text : text[k] = <<j>> \o read[j].text[m]
        BY <3>4 DEF Collects
      <4>2. PICK m \in DOMAIN read[j].text : text[k] = <<j>> \o read[j].text[m]
        BY <4>1
      <4>3. read[j].text[m] \in WordsOf(given[j]) /\ j \in P
        BY <3>3, <4>1
      <4> DEFINE w == read[j].text[m]
      <4>4. w \in WordsOf(given[j]) /\ text[k] = <<j>> \o w
        BY <4>2, <4>3
      <4> HIDE DEF w
      <4>5. \A i \in P : \A v \in WordsOf(given[i]) : <<i>> \o v \in WordsOf(delivered)
        BY <2>4
      <4>6. <<j>> \o w \in WordsOf(delivered)
        BY <4>3, <4>4, <4>5
      <4> QED BY <4>4, <4>6
    <3>7. ASSUME NEW v \in WordsOf(delivered)
          PROVE  \E k \in DOMAIN text : text[k] = v
      <4>1. PICK i \in P : \E w \in WordsOf(given[i]) : v = <<i>> \o w
        BY <2>4
      <4>2. PICK w \in WordsOf(given[i]) : v = <<i>> \o w
        BY <4>1
      <4>3. given[i] # {}
        BY <4>2 DEF WordsOf
      <4>4. i \in DOMAIN read /\ read[i].ok
        BY <1>2, <2>1, <4>3 DEF Agrees
      <4>5. i <= len
        BY <1>1, <1>2
      <4>6. PICK m \in DOMAIN read[i].text : w = read[i].text[m]
        BY <3>3, <4>4
      <4>7. \E k \in DOMAIN text : text[k] = <<i>> \o read[i].text[m]
        BY <3>4, <4>4, <4>5 DEF Collects
      <4> QED BY <4>2, <4>6, <4>7
    <3>8. {text[n] : n \in DOMAIN text} = WordsOf(delivered)
      BY <3>6, <3>7
    <3>9. delivered # {}
      BY <2>8, <2>10 DEF parts
    <3>10. Agrees(result, delivered)
      <4>1. \A m, n \in DOMAIN text : m < n => Precedes(text[m], text[n])
        BY <3>5 DEF Ascending
      <4>2. result.text = text
        BY <3>2 DEF text
      <4>3. {result.text[n] : n \in DOMAIN result.text} = WordsOf(delivered)
        BY <3>8, <4>2
      <4> QED BY <2>4, <3>2, <3>5, <3>9, <4>1, <4>2, <4>3 DEF Agrees
    <3>11. parts \cup Skipped(read) = Payloads(file) /\ parts \cap Skipped(read) = {}
      BY DEF parts, Skipped
    <3>12. Accounts(result, file, delivered)
      <4>1. parts = {d.place[1] : d \in delivered}
        BY <2>7 DEF parts
      <4> QED BY <3>2, <3>11, <4>1 DEF Accounts
    <3> QED BY <3>10, <3>12
  <2> QED BY <2>9, <2>10
<1> QED BY <1>4, <1>5

-----------------------------------------------------------------------------
(* Level by level, from the innermost archive out. *)

\* An archive in three others is refused.
LEMMA AgreesInThree ==
  ASSUME NEW file \in FileInThree, NEW hint, NEW opts \in Options
  PROVE  Agrees(ExtractInThree(file, hint, opts), DeliveredInThree(file, hint, opts))
<1> DEFINE result == ExtractInThree(file, hint, opts)
<1>1. CASE file \in Document
  <2>1. file.kind \in {"docx", "xlsx", "rtf", "pdf", "cfbf", "plain"}
    BY <1>1 DEF Document
  <2>2. \/ file.kind \in {"docx", "xlsx"} /\ result = ExtractOffice(file)
        \/ file.kind = "rtf" /\ result = Extracted(file.words, "rtf")
        \/ file.kind = "pdf" /\ result = ExtractPdf(file, opts)
        \/ file.kind = "cfbf" /\ result = ExtractCfbf(file, hint)
        \/ file.kind = "plain" /\ result = ExtractPlain(file, hint)
    BY <2>1 DEF ExtractInThree, ExtractBytes
  <2>3. Agrees(result, Own(file, hint, opts))
    <3> HIDE DEF result
    <3> QED BY <1>1, <2>2, DocumentAgrees
  <2>4. DeliveredInThree(file, hint, opts) = Own(file, hint, opts)
    BY <2>1 DEF DeliveredInThree
  <2> QED BY <2>3, <2>4
<1>2. CASE file.kind = "zip"
  <2>1. result = Unsupported
    BY <1>2 DEF ExtractInThree, ExtractBytes, ContainerTooDeep
  <2>2. DeliveredInThree(file, hint, opts) = {}
    BY <1>2 DEF DeliveredInThree
  <2> QED BY <2>1, <2>2, Refused DEF Unsupported
<1>3. file \in Document \/ file.kind = "zip"
  BY DEF FileInThree
<1> QED BY <1>1, <1>2, <1>3

\* An archive in two others.
LEMMA AgreesInTwo ==
  ASSUME NEW file \in FileInTwo, NEW hint, NEW opts \in Options
  PROVE  /\ Agrees(ExtractInTwo(file, hint, opts), DeliveredInTwo(file, hint, opts))
         /\ file.kind = "zip" => Accounts(ExtractInTwo(file, hint, opts), file, DeliveredInTwo(file, hint, opts))
<1> DEFINE result == ExtractInTwo(file, hint, opts)
           delivered == DeliveredInTwo(file, hint, opts)
<1>1. CASE file \in Document
  <2>1. file.kind \in {"docx", "xlsx", "rtf", "pdf", "cfbf", "plain"} /\ file.kind # "zip"
    BY <1>1 DEF Document
  <2>2. \/ file.kind \in {"docx", "xlsx"} /\ result = ExtractOffice(file)
        \/ file.kind = "rtf" /\ result = Extracted(file.words, "rtf")
        \/ file.kind = "pdf" /\ result = ExtractPdf(file, opts)
        \/ file.kind = "cfbf" /\ result = ExtractCfbf(file, hint)
        \/ file.kind = "plain" /\ result = ExtractPlain(file, hint)
    BY <2>1 DEF ExtractInTwo, ExtractBytes
  <2>3. Agrees(result, Own(file, hint, opts))
    <3> HIDE DEF result
    <3> QED BY <1>1, <2>2, DocumentAgrees
  <2>4. delivered = Own(file, hint, opts)
    BY <2>1 DEF DeliveredInTwo
  <2> QED BY <2>1, <2>3, <2>4
<1>2. CASE file \in Archive(FileInThree)
  <2> DEFINE S == [file : FileInThree, hint : Hint, inflates : BOOLEAN]
             inner(i) == ExtractInThree(file.entries[i].file, file.entries[i].hint, opts)
             read == [i \in Payloads(file) |-> ExtractEntry(file.entries[i], inner(i))]
             given == [i \in Legible(file) |-> DeliveredInThree(file.entries[i].file, file.entries[i].hint, opts)]
  <2>1. file.kind = "zip" /\ file.entries \in Seq(S)
    BY <1>2 DEF Archive
  <2>2. result = ExtractContainer(file, read)
    <3>1. result = ContainerInTwo(file, opts)
      BY <2>1 DEF ExtractInTwo, ExtractBytes
    <3>2. ContainerInTwo(file, opts) = ExtractContainer(file, read)
      BY DEF ContainerInTwo
    <3> QED BY <3>1, <3>2
  <2>3. delivered = IF Opens(file) THEN UNION {Under(i, given[i]) : i \in Legible(file)} ELSE {}
    <3>1. delivered = Inside(DeliveredInThree, file, opts)
      BY <2>1 DEF DeliveredInTwo
    <3>2. UNION {Under(i, DeliveredInThree(file.entries[i].file, file.entries[i].hint, opts)) : i \in Legible(file)}
            = UNION {Under(i, given[i]) : i \in Legible(file)}
      OBVIOUS
    <3>3. Inside(DeliveredInThree, file, opts) =
            IF Opens(file)
            THEN UNION {Under(i, DeliveredInThree(file.entries[i].file, file.entries[i].hint, opts)) : i \in Legible(file)}
            ELSE {}
      BY DEF Inside
    <3> QED BY <3>1, <3>2, <3>3
  <2>4. \A i \in Legible(file) : i \in Payloads(file) /\ file.entries[i].hint # "picture" /\ file.entries[i].file \in FileInThree
    <3>1. \A i \in DOMAIN file.entries : file.entries[i] \in S
      BY <2>1, LenProperties, ElementOfSeq
    <3> QED BY <3>1 DEF Legible, Payloads
  <2>5. \A i \in Legible(file) : Agrees(inner(i), given[i])
    <3>1. \A i \in Legible(file) : Agrees(inner(i), DeliveredInThree(file.entries[i].file, file.entries[i].hint, opts))
      BY <2>4, AgreesInThree
    <3> QED BY <3>1
  <2>6. /\ DOMAIN read = Payloads(file)
        /\ \A i \in Payloads(file) : i \notin Legible(file) => read[i] = Unsupported
    BY DEF Legible, Payloads, ExtractEntry
  <2>7. \A i \in Legible(file) : file.entries[i].inflates => read[i] = inner(i)
    BY <2>4 DEF ExtractEntry
  <2>8. \A i \in Legible(file) : ~file.entries[i].inflates => read[i] = Thrown("zip")
    BY <2>4 DEF ExtractEntry
  <2> HIDE DEF read, given, inner, S, result, delivered
  <2>9. Agrees(result, delivered) /\ Accounts(result, file, delivered)
    <3>1. \A i \in Legible(file) : file.entries[i].inflates => Agrees(read[i], given[i])
      BY <2>5, <2>7
    <3> QED BY <2>1, <2>2, <2>3, <2>6, <2>8, <3>1, ArchiveAgrees
  <2> QED BY <2>9 DEF result, delivered
<1>3. file \in Document \/ file \in Archive(FileInThree)
  BY DEF FileInTwo
<1> QED BY <1>1, <1>2, <1>3

\* An archive in another.
LEMMA AgreesInOne ==
  ASSUME NEW file \in FileInOne, NEW hint, NEW opts \in Options
  PROVE  /\ Agrees(ExtractInOne(file, hint, opts), DeliveredInOne(file, hint, opts))
         /\ file.kind = "zip" => Accounts(ExtractInOne(file, hint, opts), file, DeliveredInOne(file, hint, opts))
<1> DEFINE result == ExtractInOne(file, hint, opts)
           delivered == DeliveredInOne(file, hint, opts)
<1>1. CASE file \in Document
  <2>1. file.kind \in {"docx", "xlsx", "rtf", "pdf", "cfbf", "plain"} /\ file.kind # "zip"
    BY <1>1 DEF Document
  <2>2. \/ file.kind \in {"docx", "xlsx"} /\ result = ExtractOffice(file)
        \/ file.kind = "rtf" /\ result = Extracted(file.words, "rtf")
        \/ file.kind = "pdf" /\ result = ExtractPdf(file, opts)
        \/ file.kind = "cfbf" /\ result = ExtractCfbf(file, hint)
        \/ file.kind = "plain" /\ result = ExtractPlain(file, hint)
    BY <2>1 DEF ExtractInOne, ExtractBytes
  <2>3. Agrees(result, Own(file, hint, opts))
    <3> HIDE DEF result
    <3> QED BY <1>1, <2>2, DocumentAgrees
  <2>4. delivered = Own(file, hint, opts)
    BY <2>1 DEF DeliveredInOne
  <2> QED BY <2>1, <2>3, <2>4
<1>2. CASE file \in Archive(FileInTwo)
  <2> DEFINE S == [file : FileInTwo, hint : Hint, inflates : BOOLEAN]
             inner(i) == ExtractInTwo(file.entries[i].file, file.entries[i].hint, opts)
             read == [i \in Payloads(file) |-> ExtractEntry(file.entries[i], inner(i))]
             given == [i \in Legible(file) |-> DeliveredInTwo(file.entries[i].file, file.entries[i].hint, opts)]
  <2>1. file.kind = "zip" /\ file.entries \in Seq(S)
    BY <1>2 DEF Archive
  <2>2. result = ExtractContainer(file, read)
    <3>1. result = ContainerInOne(file, opts)
      BY <2>1 DEF ExtractInOne, ExtractBytes
    <3>2. ContainerInOne(file, opts) = ExtractContainer(file, read)
      BY DEF ContainerInOne
    <3> QED BY <3>1, <3>2
  <2>3. delivered = IF Opens(file) THEN UNION {Under(i, given[i]) : i \in Legible(file)} ELSE {}
    <3>1. delivered = Inside(DeliveredInTwo, file, opts)
      BY <2>1 DEF DeliveredInOne
    <3>2. UNION {Under(i, DeliveredInTwo(file.entries[i].file, file.entries[i].hint, opts)) : i \in Legible(file)}
            = UNION {Under(i, given[i]) : i \in Legible(file)}
      OBVIOUS
    <3>3. Inside(DeliveredInTwo, file, opts) =
            IF Opens(file)
            THEN UNION {Under(i, DeliveredInTwo(file.entries[i].file, file.entries[i].hint, opts)) : i \in Legible(file)}
            ELSE {}
      BY DEF Inside
    <3> QED BY <3>1, <3>2, <3>3
  <2>4. \A i \in Legible(file) : i \in Payloads(file) /\ file.entries[i].hint # "picture" /\ file.entries[i].file \in FileInTwo
    <3>1. \A i \in DOMAIN file.entries : file.entries[i] \in S
      BY <2>1, LenProperties, ElementOfSeq
    <3> QED BY <3>1 DEF Legible, Payloads
  <2>5. \A i \in Legible(file) : Agrees(inner(i), given[i])
    <3>1. \A i \in Legible(file) : Agrees(inner(i), DeliveredInTwo(file.entries[i].file, file.entries[i].hint, opts))
      BY <2>4, AgreesInTwo
    <3> QED BY <3>1
  <2>6. /\ DOMAIN read = Payloads(file)
        /\ \A i \in Payloads(file) : i \notin Legible(file) => read[i] = Unsupported
    BY DEF Legible, Payloads, ExtractEntry
  <2>7. \A i \in Legible(file) : file.entries[i].inflates => read[i] = inner(i)
    BY <2>4 DEF ExtractEntry
  <2>8. \A i \in Legible(file) : ~file.entries[i].inflates => read[i] = Thrown("zip")
    BY <2>4 DEF ExtractEntry
  <2> HIDE DEF read, given, inner, S, result, delivered
  <2>9. Agrees(result, delivered) /\ Accounts(result, file, delivered)
    <3>1. \A i \in Legible(file) : file.entries[i].inflates => Agrees(read[i], given[i])
      BY <2>5, <2>7
    <3> QED BY <2>1, <2>2, <2>3, <2>6, <2>8, <3>1, ArchiveAgrees
  <2> QED BY <2>9 DEF result, delivered
<1>3. file \in Document \/ file \in Archive(FileInTwo)
  BY DEF FileInOne
<1> QED BY <1>1, <1>2, <1>3

\* The file itself.
LEMMA AgreesAtAll ==
  ASSUME NEW file \in File, NEW hint, NEW opts \in Options
  PROVE  /\ Agrees(ExtractTextFromBytes(file, hint, opts), Delivered(file, hint, opts))
         /\ file.kind = "zip" => Accounts(ExtractTextFromBytes(file, hint, opts), file, Delivered(file, hint, opts))
<1> DEFINE result == ExtractTextFromBytes(file, hint, opts)
           delivered == Delivered(file, hint, opts)
<1>1. CASE file \in Document
  <2>1. file.kind \in {"docx", "xlsx", "rtf", "pdf", "cfbf", "plain"} /\ file.kind # "zip"
    BY <1>1 DEF Document
  <2>2. \/ file.kind \in {"docx", "xlsx"} /\ result = ExtractOffice(file)
        \/ file.kind = "rtf" /\ result = Extracted(file.words, "rtf")
        \/ file.kind = "pdf" /\ result = ExtractPdf(file, opts)
        \/ file.kind = "cfbf" /\ result = ExtractCfbf(file, hint)
        \/ file.kind = "plain" /\ result = ExtractPlain(file, hint)
    BY <2>1 DEF ExtractTextFromBytes, ExtractBytes
  <2>3. Agrees(result, Own(file, hint, opts))
    <3> HIDE DEF result
    <3> QED BY <1>1, <2>2, DocumentAgrees
  <2>4. delivered = Own(file, hint, opts)
    BY <2>1 DEF Delivered
  <2> QED BY <2>1, <2>3, <2>4
<1>2. CASE file \in Archive(FileInOne)
  <2> DEFINE S == [file : FileInOne, hint : Hint, inflates : BOOLEAN]
             inner(i) == ExtractInOne(file.entries[i].file, file.entries[i].hint, opts)
             read == [i \in Payloads(file) |-> ExtractEntry(file.entries[i], inner(i))]
             given == [i \in Legible(file) |-> DeliveredInOne(file.entries[i].file, file.entries[i].hint, opts)]
  <2>1. file.kind = "zip" /\ file.entries \in Seq(S)
    BY <1>2 DEF Archive
  <2>2. result = ExtractContainer(file, read)
    <3>1. result = Container(file, opts)
      BY <2>1 DEF ExtractTextFromBytes, ExtractBytes
    <3>2. Container(file, opts) = ExtractContainer(file, read)
      BY DEF Container
    <3> QED BY <3>1, <3>2
  <2>3. delivered = IF Opens(file) THEN UNION {Under(i, given[i]) : i \in Legible(file)} ELSE {}
    <3>1. delivered = Inside(DeliveredInOne, file, opts)
      BY <2>1 DEF Delivered
    <3>2. UNION {Under(i, DeliveredInOne(file.entries[i].file, file.entries[i].hint, opts)) : i \in Legible(file)}
            = UNION {Under(i, given[i]) : i \in Legible(file)}
      OBVIOUS
    <3>3. Inside(DeliveredInOne, file, opts) =
            IF Opens(file)
            THEN UNION {Under(i, DeliveredInOne(file.entries[i].file, file.entries[i].hint, opts)) : i \in Legible(file)}
            ELSE {}
      BY DEF Inside
    <3> QED BY <3>1, <3>2, <3>3
  <2>4. \A i \in Legible(file) : i \in Payloads(file) /\ file.entries[i].hint # "picture" /\ file.entries[i].file \in FileInOne
    <3>1. \A i \in DOMAIN file.entries : file.entries[i] \in S
      BY <2>1, LenProperties, ElementOfSeq
    <3> QED BY <3>1 DEF Legible, Payloads
  <2>5. \A i \in Legible(file) : Agrees(inner(i), given[i])
    <3>1. \A i \in Legible(file) : Agrees(inner(i), DeliveredInOne(file.entries[i].file, file.entries[i].hint, opts))
      BY <2>4, AgreesInOne
    <3> QED BY <3>1
  <2>6. /\ DOMAIN read = Payloads(file)
        /\ \A i \in Payloads(file) : i \notin Legible(file) => read[i] = Unsupported
    BY DEF Legible, Payloads, ExtractEntry
  <2>7. \A i \in Legible(file) : file.entries[i].inflates => read[i] = inner(i)
    BY <2>4 DEF ExtractEntry
  <2>8. \A i \in Legible(file) : ~file.entries[i].inflates => read[i] = Thrown("zip")
    BY <2>4 DEF ExtractEntry
  <2> HIDE DEF read, given, inner, S, result, delivered
  <2>9. Agrees(result, delivered) /\ Accounts(result, file, delivered)
    <3>1. \A i \in Legible(file) : file.entries[i].inflates => Agrees(read[i], given[i])
      BY <2>5, <2>7
    <3> QED BY <2>1, <2>2, <2>3, <2>6, <2>8, <3>1, ArchiveAgrees
  <2> QED BY <2>9 DEF result, delivered
<1>3. file \in Document \/ file \in Archive(FileInOne)
  BY DEF File
<1> QED BY <1>1, <1>2, <1>3

\* A file that is read says what its documents say, cut where it is said to be cut.
LEMMA FilesMean ==
  ASSUME NEW file \in File, NEW hint, NEW opts \in Options, NEW maxChars \in Nat
  PROVE  FileMeans(file, hint, opts, maxChars)
<1> DEFINE all == ExtractTextFromBytes(file, hint, opts)
           delivered == Delivered(file, hint, opts)
           result == ExtractText(file, hint, opts, maxChars)
           truncated == all.ok /\ Len(all.text) > maxChars
<1>1. Agrees(all, delivered) /\ (file.kind = "zip" => Accounts(all, file, delivered))
  BY AgreesAtAll
<1>2. /\ result.extracted = all /\ result.truncated = truncated
      /\ result.text = CASE ~all.ok -> <<>>
                         [] all.ok /\ truncated -> SubSeq(all.text, 1, maxChars)
                         [] all.ok /\ ~truncated -> all.text
  BY DEF ExtractText
<1> HIDE DEF all, delivered, result
<1>3. /\ all.ok <=> delivered # {}
      /\ all.ok => /\ all.text \in Seq(Seq(Nat))
                   /\ {all.text[n] : n \in DOMAIN all.text} = WordsOf(delivered)
                   /\ \A m, n \in DOMAIN all.text : m < n => Precedes(all.text[m], all.text[n])
  BY <1>1 DEF Agrees
<1>4. ASSUME all.ok
      PROVE  /\ Len(result.text) <= maxChars /\ Len(result.text) <= Len(all.text)
             /\ \A n \in DOMAIN result.text : result.text[n] = all.text[n]
             /\ ~result.truncated => result.text = all.text
             /\ result.truncated => Len(result.text) = maxChars /\ Len(all.text) > maxChars
  <2> DEFINE text == all.text
  <2>1. text \in Seq(Seq(Nat)) /\ Len(text) \in Nat /\ DOMAIN text = 1..Len(text)
    BY <1>3, <1>4, LenProperties
  <2>2. CASE truncated
    <3>1. result.truncated /\ Len(text) > maxChars /\ result.text = SubSeq(text, 1, maxChars)
      BY <1>2, <1>4, <2>2
    <3> HIDE DEF text
    <3>2. SubSeq(text, 1, maxChars) = [n \in 1..maxChars |-> text[n]]
      BY <2>1, <3>1
    <3>3. \A n \in 1..maxChars : text[n] \in Seq(Nat)
      BY <2>1, <3>1, ElementOfSeq
    <3>4. Len(result.text) = maxChars /\ DOMAIN result.text = 1..maxChars
      <4>1. result.text \in [1..maxChars -> Seq(Nat)]
        BY <3>1, <3>2, <3>3
      <4> QED BY ONLY <4>1, maxChars \in Nat, ListOf
    <3>5. \A n \in 1..maxChars : result.text[n] = text[n]
      BY <3>1, <3>2
    <3>6. maxChars <= Len(text)
      BY <2>1, <3>1
    <3> QED BY <3>1, <3>4, <3>5, <3>6 DEF text
  <2>3. CASE ~truncated
    <3>1. ~result.truncated /\ ~(Len(text) > maxChars) /\ result.text = text
      BY <1>2, <1>4, <2>3
    <3> HIDE DEF text
    <3>2. Len(text) <= maxChars
      BY <2>1, <3>1
    <3> QED BY <2>1, <3>1, <3>2 DEF text
  <2> QED BY <2>2, <2>3
<1>5. all.ok /\ file.kind = "zip" =>
        /\ all.parts \cup all.skippedParts = Payloads(file)
        /\ all.parts \cap all.skippedParts = {}
        /\ all.parts = {d.place[1] : d \in delivered}
  BY <1>1 DEF Accounts
<1>6. /\ all.ok <=> delivered # {}
      /\ all.ok =>
           /\ {all.text[n] : n \in DOMAIN all.text} = WordsOf(delivered)
           /\ \A m, n \in DOMAIN all.text : m < n => Precedes(all.text[m], all.text[n])
           /\ Len(result.text) <= maxChars /\ Len(result.text) <= Len(all.text)
           /\ \A n \in DOMAIN result.text : result.text[n] = all.text[n]
           /\ ~result.truncated => result.text = all.text
           /\ result.truncated => Len(result.text) = maxChars /\ Len(all.text) > maxChars
  BY <1>3, <1>4
<1>7. result.extracted = all
  BY <1>2
<1> QED BY <1>5, <1>6, <1>7 DEF FileMeans, result, delivered

\* Every file and every download means what FileMeans and DownloadMeans say of it: with a
\* PDF read from its layer and from its pages if that is short, and lost if the pages
\* cannot be; and with an archive lost by one entry, or `mimetype`, that cannot be
\* inflated.
THEOREM ContentsMean == \A content \in Content : ContentMeans(content)
<1> SUFFICES ASSUME NEW content \in Content PROVE ContentMeans(content)
  OBVIOUS
<1>1. CASE content.kind = "file"
  <2>1. content.file \in File /\ content.opts \in Options /\ content.maxChars \in Nat
    BY <1>1 DEF Content
  <2> QED BY <1>1, <2>1, FilesMean DEF ContentMeans
<1>2. CASE content.kind = "download"
  <2>1. /\ content.request \in [maxBytes : Nat, defaultBytes : Nat, ceiling : Nat]
        /\ content.answer \in [chunks : Seq(Nat), streamed : BOOLEAN, declared : Int, loginPage : BOOLEAN]
    BY <1>2 DEF Content
  <2> QED BY <1>2, <2>1, DownloadsMean DEF ContentMeans
<1>3. content.kind = "file" \/ content.kind = "download"
  BY DEF Content
<1> QED BY <1>1, <1>2, <1>3
=============================================================================
