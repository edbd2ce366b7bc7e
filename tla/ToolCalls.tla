------------------------------ MODULE ToolCalls ------------------------------
(***************************************************************************)
(* A tool call on its way to Creatio: which tools a deployment lists, the  *)
(* read-only gate and the audit trail of the engines, the entity           *)
(* allowlist, the requests each provider makes of the call, one after      *)
(* another, and what it makes of their answers.                            *)
(*                                                                         *)
(* One call is modelled: calls share nothing but the trail.  Credentials   *)
(* (HttpAuth), schema caches (SchemaCache) and the registration of tools   *)
(* (McpSessions) are modules of their own; a request here is one that      *)
(* HttpAuth has seen through.                                              *)
(***************************************************************************)
EXTENDS Sequences

CONSTANT Entity   \* objects of Creatio, each with its attachments (`<Entity>File`)

\* Creatio has objects.
ObjectAssumption == Entity # {}

VARIABLES
  config,      \* what the deployment is configured to, and what Creatio has
  call,        \* the call: its tool and arguments, the requests it has left
  trail,       \* records of the audit trail for this call
  exchanges    \* history: requests sent, each with the answer to it

vars == <<config, call, trail, exchanges>>

Core == {"get-current-user-info", "list-entities", "describe-entity", "read", "read-file",
         "query-sys-settings"}

\* The four tools for admin operations are one here.
Mutating ==
  {"create", "update", "delete", "execute-process", "set-sys-settings-value",
   "create-sys-setting", "update-sys-setting-definition", "refresh-feature-cache",
   "admin-operation", "call-configuration-service"}

\* The tools of the preparers: of DataForge, of Global Search, published by Creatio.
Capability == {"dataforge", "global-search", "published"}
Tool == Core \cup Mutating \cup Capability

ENTITY_RESTRICTED_TOOLS ==
  {"list-entities", "describe-entity", "read", "read-file", "create", "update", "delete"}

\* Arguments that decide something: the object; another one that column, filter
\* or order paths lead into (or the same); a raw filter or expand; rows and the
\* count of a read; the initial value of a setting, the codes of a query.
Argument == [on : Entity, via : Entity, raw : BOOLEAN, rows : BOOLEAN, extra : BOOLEAN]

-----------------------------------------------------------------------------
(* What is listed, and what is allowed *)

\* No allowlist: unrestricted.
Restricted == config.allowed # {}

\* Mutant: the preparers run under an allowlist too.
CapableAlways == config.capable

\* The preparers, and what they find on this Creatio.  An allowlist disables them.
Capable == config.capable /\ ~Restricted

\* Read-only mode lets no preparer find published tools: asking for their list is a
\* call of the configuration service.
Prepared ==
  CASE ~Capable -> {}
    [] Capable /\ config.readonly -> Capability \ {"published"}
    [] OTHER -> Capability

Static == IF config.readonly THEN Core ELSE Core \cup Mutating
Listed == Prepared \cup (IF Restricted THEN Static \cap ENTITY_RESTRICTED_TOOLS ELSE Static)

\* Tools whose engine operation is a _mutate: those of the preparers go through
\* ConfigurationEngine.call.
Mutates(tool) == tool \in Mutating \cup Capability

\* EntityAccessPolicy, as CrudEngine and FileEngine apply it.
OnObject == {"describe-entity", "read", "read-file", "create", "update", "delete"}

\* A read reaches the objects its paths lead into, and any object with a raw filter.
ReadReach(arg) == IF arg.raw THEN Entity ELSE {arg.on, arg.via}

\* A read may not leave the object by any path, not even to another allowed one.
Denied(tool, arg) ==
  /\ Restricted /\ tool \in OnObject
  /\ \/ arg.on \notin config.allowed
     \/ tool = "read" /\ (arg.raw \/ arg.via # arg.on)

-----------------------------------------------------------------------------
(* The requests of each tool *)

Request(to, reach) == [to |-> to, reach |-> reach]
When(condition, request) == IF condition THEN <<request>> ELSE <<>>

\* listEntitySets: the service document, and $metadata if that says nothing.
ODataPlan(tool, arg) ==
  CASE tool = "list-entities" -> <<Request("ServiceDocument", {}), Request("$metadata", {})>>
    [] tool = "describe-entity" -> <<Request("EntityType", {arg.on})>>
    [] tool = "read" -> <<Request("GET", ReadReach(arg))>>
    [] tool = "create" -> <<Request("POST", {arg.on})>>
    [] tool = "update" -> <<Request("PATCH", {arg.on})>>
    [] tool = "delete" -> <<Request("DELETE", {arg.on})>>

\* top: 0 asks for no rows; the count is a query of its own.  A write looks up the
\* types of its columns first.
DataServicePlan(tool, arg) ==
  CASE tool = "list-entities" -> <<Request("SelectList", {})>>
    [] tool = "describe-entity" -> <<Request("RuntimeSchema", {arg.on})>>
    [] tool = "read" -> When(arg.rows, Request("SelectRows", ReadReach(arg)))
                        \o When(arg.extra, Request("SelectCount", ReadReach(arg)))
    [] tool = "create" -> <<Request("ColumnTypes", {arg.on}), Request("InsertQuery", {arg.on})>>
    [] tool = "update" -> <<Request("ColumnTypes", {arg.on}), Request("UpdateQuery", {arg.on})>>
    [] tool = "delete" -> <<Request("DeleteQuery", {arg.on})>>

CrudPlan(tool, arg) ==
  IF config.backend = "odata" THEN ODataPlan(tool, arg) ELSE DataServicePlan(tool, arg)

\* Server._describeEntity asks DataForge first; in read-only mode its call throws
\* on the way, which getColumnsOrNull takes for a miss.
DescribePlan(arg) ==
  When(Capable /\ ~config.readonly, Request("DataForgeColumns", {arg.on}))
  \o CrudPlan("describe-entity", arg)

SysSettingsPlan(tool, arg) ==
  CASE tool = "query-sys-settings" -> When(arg.extra, Request("QuerySysSettings", Entity))
    [] tool = "set-sys-settings-value" -> <<Request("PostSysSettingsValues", Entity)>>
    [] tool = "update-sys-setting-definition" -> <<Request("UpdateSysSetting", Entity)>>
    [] tool = "create-sys-setting" -> <<Request("InsertSysSetting", Entity)>>
         \o When(arg.extra, Request("PostSysSettingsValues", Entity))

AdminOperationPlan == <<Request("RightsService", Entity)>>
ProcessPlan == <<Request("RunProcess", Entity)>>
FeaturePlan == <<Request("FeatureService", Entity)>>
ConfigurationPlan == <<Request("ConfigurationService", Entity)>>
UserPlan == <<Request("UserInfo", Entity)>>
FilePlan(arg) == <<Request("Data", {arg.on})>>
DataForgePlan == <<Request("DataForgeRead", Entity)>>
GlobalSearchPlan == <<Request("Search", Entity)>>
PublishedPlan == <<Request("ToolServiceMcp", Entity)>>

\* _clientToolDefs, and the handlers of the preparers.
Plan(tool, arg) ==
  CASE tool = "describe-entity" -> DescribePlan(arg)
    [] tool \in {"list-entities", "read", "create", "update", "delete"} -> CrudPlan(tool, arg)
    [] tool \in {"query-sys-settings", "set-sys-settings-value", "create-sys-setting",
                 "update-sys-setting-definition"} -> SysSettingsPlan(tool, arg)
    [] tool = "admin-operation" -> AdminOperationPlan
    [] tool = "execute-process" -> ProcessPlan
    [] tool = "refresh-feature-cache" -> FeaturePlan
    [] tool = "call-configuration-service" -> ConfigurationPlan
    [] tool = "get-current-user-info" -> UserPlan
    [] tool = "read-file" -> FilePlan(arg)
    [] tool = "dataforge" -> DataForgePlan
    [] tool = "global-search" -> GlobalSearchPlan
    [] tool = "published" -> PublishedPlan

-----------------------------------------------------------------------------
(* Answers *)

\* Creatio performs the request ("done") or refuses it in a 200 answer with
\* success: false; the login page comes, status 200, for a session that a login
\* did not mend ("page"); any other status ("error"); no answer, with the request
\* performed ("lost") or not ("error").
Answers(to) ==
  {"done", "page", "error", "lost"}
    \cup (IF to \in {"ServiceDocument", "$metadata", "EntityType", "GET", "POST", "PATCH",
                     "DELETE", "Data"}
          THEN {} ELSE {"refused"})

Writing ==
  {"POST", "PATCH", "DELETE", "InsertQuery", "UpdateQuery", "DeleteQuery", "InsertSysSetting",
   "UpdateSysSetting", "PostSysSettingsValues", "RightsService", "RunProcess",
   "FeatureService", "ConfigurationService", "ToolServiceMcp"}

\* Requests the call goes on without: columnTypes, getColumnsOrNull and
\* _tryGetEntitySetsFromService swallow what goes wrong.
BestEffort == {"ColumnTypes", "DataForgeColumns", "ServiceDocument"}

\* Answers that make the next request unnecessary.
Suffices(to, answer) ==
  \/ to = "DataForgeColumns" /\ answer \in {"done", "page"}
  \/ to = "ServiceDocument" /\ answer = "done"

\* Mutant: a read that was refused is not told from one that found nothing.
CheckedWrites == {"RuntimeSchema", "InsertQuery", "UpdateQuery", "DeleteQuery", "ToolServiceMcp"}

\* Answers whose success: false is thrown (assertSuccess, _assertReadSucceeded, _rpc).
Checked == {"SelectRows", "SelectCount", "RuntimeSchema", "InsertQuery", "UpdateQuery",
            "DeleteQuery", "ToolServiceMcp"}

\* Answers of which only the rows are in the result.
Projected == {"SelectRows", "SelectCount", "SelectList"}

\* The login page: thrown by those who parse it, and by read-file, which looks for
\* it; the text itself is the result of others; the rest take it for {}.
PageThrown == {"EntityType", "RuntimeSchema", "QuerySysSettings", "InsertSysSetting",
               "UpdateSysSetting", "RightsService", "RunProcess", "Data"}
PageTold == {"PATCH", "DELETE", "PostSysSettingsValues", "FeatureService",
             "ConfigurationService", "DataForgeRead", "DataForgeColumns", "Search"}

Throws(to, answer) ==
  /\ to \notin BestEffort
  /\ \/ answer \in {"error", "lost"}
     \/ answer = "refused" /\ to \in Checked
     \/ answer = "page" /\ to \in PageThrown

\* The result of the call carries the answer of a Creatio that did not do as asked.
Tells(to, answer) ==
  \/ answer = "refused" /\ to \notin Checked \cup Projected \cup BestEffort
  \/ answer = "page" /\ to \in PageTold

-----------------------------------------------------------------------------
(* The call *)

NoArgument == CHOOSE arg \in Argument : ~arg.raw /\ ~arg.extra /\ arg.via = arg.on
Idle == [at |-> "idle", tool |-> "read", arg |-> NoArgument, left |-> <<>>, told |-> FALSE]

Init ==
  /\ config \in [readonly : BOOLEAN, allowed : SUBSET Entity,
                 backend : {"odata", "dataservice"}, capable : BOOLEAN]
  /\ call = Idle /\ trail = {} /\ exchanges = {}

\* The tool as called: a backend without raw filter and expand takes none.
Called(tool, arg, left, at) ==
  [at |-> at, tool |-> tool, arg |-> arg, left |-> left, told |-> FALSE]
Callable(tool, arg) ==
  call.at = "idle" /\ tool \in Listed /\ (arg.raw => config.backend = "odata")

\* BaseEngine._mutate in read-only mode.
Block(tool, arg) ==
  /\ Callable(tool, arg)
  /\ Mutates(tool) /\ config.readonly
  /\ call' = Called(tool, arg, <<>>, "failed")
  /\ UNCHANGED <<config, trail, exchanges>>

\* The allowlist refuses: a mutation has recorded its attempt by then, and records
\* its failure.
Deny(tool, arg) ==
  /\ Callable(tool, arg)
  /\ Mutates(tool) => ~config.readonly
  /\ Denied(tool, arg)
  /\ call' = Called(tool, arg, <<>>, "failed")
  /\ trail' = IF Mutates(tool) THEN {"attempt", "failed"} ELSE {}
  /\ UNCHANGED <<config, exchanges>>

\* The first request goes out, if there is one.  The call of DataForge within
\* describe-entity is in the trail too.
Begin(tool, arg) ==
  /\ Callable(tool, arg)
  /\ Mutates(tool) => ~config.readonly
  /\ ~Denied(tool, arg)
  /\ LET left == Plan(tool, arg)
     IN  /\ call' = Called(tool, arg, left, IF left = <<>> THEN "ok" ELSE "waiting")
         /\ trail' = IF Mutates(tool) \/ (left # <<>> /\ Head(left).to = "DataForgeColumns")
                     THEN {"attempt"} ELSE {}
  /\ UNCHANGED <<config, exchanges>>

\* _rpc throws the error of a published tool when configuration.call, and with it
\* _mutate, has returned.
ThrownOutside(to, answer) == to = "ToolServiceMcp" /\ answer = "refused"

\* Mutant: a failure after the first request is not recorded.
RecordedOnce(answer) == IF Len(call.left) = 2 THEN {"failed"} ELSE {}

\* The catch of _mutate: around the whole call of a mutating tool, but for what is
\* thrown outside, and around the call of DataForge within describe-entity.
Recorded(answer) ==
  LET to == Head(call.left).to
  IN  IF \/ Mutates(call.tool) /\ ~ThrownOutside(to, answer)
         \/ to = "DataForgeColumns" /\ answer \in {"error", "lost"}
      THEN {"failed"} ELSE {}

\* An answer that makes the provider throw.
Fail(answer) ==
  /\ Throws(Head(call.left).to, answer)
  /\ call' = [call EXCEPT !.at = "failed", !.left = <<>>]
  /\ trail' = trail \cup Recorded(answer)

\* An answer the provider goes on with: the next request, or the result.
GoOn(answer) ==
  LET to == Head(call.left).to
      rest == IF Suffices(to, answer) THEN <<>> ELSE Tail(call.left)
  IN  /\ ~Throws(to, answer)
      /\ call' = [call EXCEPT !.left = rest,
                              !.at = IF rest = <<>> THEN "ok" ELSE "waiting",
                              !.told = @ \/ Tells(to, answer)]
      /\ trail' = IF to = "DataForgeColumns" THEN trail \cup Recorded(answer) ELSE trail

Answer(answer) ==
  /\ call.at = "waiting"
  /\ answer \in Answers(Head(call.left).to)
  /\ Fail(answer) \/ GoOn(answer)
  /\ exchanges' = exchanges \cup {[request |-> Head(call.left), answer |-> answer]}
  /\ UNCHANGED config

Next ==
  \/ \E tool \in Tool, arg \in Argument : Block(tool, arg) \/ Deny(tool, arg) \/ Begin(tool, arg)
  \/ \E answer \in {"done", "refused", "page", "error", "lost"} : Answer(answer)

Spec == Init /\ [][Next]_vars

-----------------------------------------------------------------------------
(* Properties *)

TypeOK ==
  /\ config.allowed \subseteq Entity
  /\ call.at \in {"idle", "waiting", "ok", "failed"} /\ call.tool \in Tool
  /\ call.arg \in Argument
  /\ call.left # <<>> <=> call.at = "waiting"
  /\ trail \subseteq {"attempt", "failed"}

Sent == {x.request : x \in exchanges} \cup (IF call.at = "waiting" THEN {Head(call.left)} ELSE {})

\* Whatever tool is called, and whatever other tool or capability its handler goes
\* through: a read-only deployment sends Creatio no request that writes, and one
\* with an allowlist none that reaches an object outside it.
AccessKept ==
  \A request \in Sent :
    /\ config.readonly => request.to \notin Writing
    /\ Restricted => request.reach \subseteq config.allowed

\* The trail tells attempts from failures: nothing is written without a record of
\* the attempt; a mutation that throws has the record of its failure, unless it is a
\* published tool that Creatio answered with an error of its own, which never has;
\* and no call that succeeded has, save a describe-entity that DataForge failed.
\* Only a new setting can fail with one part of it acknowledged by Creatio.
TrailTells ==
  /\ (\E request \in Sent : request.to \in Writing) => "attempt" \in trail
  /\ (call.at = "failed" /\ "attempt" \in trail /\ Mutates(call.tool)) =>
       ("failed" \in trail <=> ~\E x \in exchanges : ThrownOutside(x.request.to, x.answer))
  /\ "failed" \in trail => call.at = "failed" \/ call.tool = "describe-entity"
  /\ (call.at = "failed" /\ \E x \in exchanges : x.request.to \in Writing /\ x.answer = "done")
       => call.tool = "create-sys-setting"

\* A result that does not carry a refusal is the result of requests that Creatio
\* performed, all of them, but for those the call may do without, the list of
\* objects over DataService, and a login page in place of an answer.
Confirmed ==
  (call.at = "ok" /\ ~call.told) =>
    \A x \in exchanges :
      x.answer \in {"done", "page"} \/ x.request.to \in BestEffort \cup {"SelectList"}

-----------------------------------------------------------------------------
(* What the release notes say of the code and it does not do. *)

\* CHANGELOG 0.8.1: a SelectQuery that Creatio refuses with success: false and no
\* rows surfaces as an error, not as an empty result.
SelectRefusalSurfaces ==
  (\E x \in exchanges : x.request.to \in {"SelectRows", "SelectCount", "SelectList"}
                        /\ x.answer = "refused") => call.at = "failed"
=============================================================================
