-------------------------------- MODULE Parts --------------------------------
(***************************************************************************)
(* The parts of the server that have no state in common, side by side: a   *)
(* behaviour is one of one part, chosen at the start, and the other parts  *)
(* stay in the first of their initial states.  The clock is that of the    *)
(* part that runs.  The parts that only compute are there by name: they    *)
(* have an input and no step.  Instances are those of the modules with the *)
(* proofs, so that what is proved of a part is at hand for all of them.    *)
(***************************************************************************)
EXTENDS AccessEdge, Sequences

CONSTANTS
  Inputs,                                         \* of the parts that only compute, by name
  Address, WindowMs, MaxRequests, LimiterTime,    \* RateLimiter's
  ApiRequest, BearerToken, Carried,               \* HttpAuth's
  Entity,                                         \* ToolCalls'
  Text, DateLike, Guid,                           \* ReadQuery's
  Tenant, Server, Object, Setting, Published, Order, PublishedApp,   \* McpSessions'
  MaxTenants, IdleTtl, Cooldown, SessionsTime

VARIABLES
  part, input,
  buckets, lastSweepAt, admitted,
  mode, held, fresh, inflight, logins, issued, expired, invalid, request,
  config, call, trail, exchanges,
  registry, probe, home, transport, named, closed, listed, stream, sessions, deleting, calls,
  http         \* McpSessions' phase

R == INSTANCE RateLimiterProofs WITH Key <- Address, MaxTime <- LimiterTime
H == INSTANCE HttpAuthProofs WITH Request <- ApiRequest, Token <- BearerToken
T == INSTANCE ToolCallsProofs WITH Null <- None
S == INSTANCE McpSessionsProofs WITH
       Preparer <- Setting \cup {Published}, MaxTime <- SessionsTime, phase <- http

ASSUME PartsAssumption ==
  /\ R!LimitAssumption
  /\ H!CarriedAssumption
  /\ T!ObjectAssumption /\ T!ValueAssumption
  /\ "queries" \in DOMAIN Inputs => Inputs["queries"] \subseteq T!Query
  /\ "files" \in DOMAIN Inputs => Inputs["files"] \subseteq T!Content
  /\ "rtf" \in DOMAIN Inputs => Inputs["rtf"] \subseteq Seq(T!Token)
  /\ MaxTenants \in Nat \ {0} /\ IdleTtl \in Nat /\ None \notin Object
  /\ Published \notin Setting /\ Order \in Seq(Setting \cup {Published})
  /\ Cooldown \in Nat /\ SessionsTime \in Nat

WithState == {"edge", "limiter", "credentials", "tools", "sessions"}
Part == WithState \cup DOMAIN Inputs
InputsOf(p) == IF p \in DOMAIN Inputs THEN Inputs[p] ELSE {None}

marksAndPairs == <<kind, phase, until, dies, life, expiry, prompt, jwts, inUse, rejected, barred>>
limiterVars == <<buckets, lastSweepAt, admitted>>
credentialVars == <<mode, held, fresh, inflight, logins, issued, expired, invalid, request>>
toolVars == <<config, call, trail, exchanges>>
sessionVars == <<registry, probe, home, transport, named, closed, listed, stream, sessions,
                 deleting, calls, http>>
partsVars == <<part, input, now, marksAndPairs, limiterVars, credentialVars, toolVars, sessionVars>>

\* The state in which the parts wait that start in one of many.
Plainest == [readonly |-> FALSE, allowed |-> {}, backend |-> "odata", capable |-> FALSE]
PartsInit ==
  /\ part \in Part /\ input \in InputsOf(part)
  /\ part = "credentials" \/ mode = "legacy"
  /\ part = "tools" \/ config = Plainest
  /\ Init /\ R!Init /\ H!Init /\ T!Init /\ S!Init

EdgeStep ==
  part = "edge" /\ Next /\ UNCHANGED <<limiterVars, credentialVars, toolVars, sessionVars>>
LimiterStep ==
  /\ part = "limiter" /\ R!Next
  /\ UNCHANGED <<marksAndPairs, credentialVars, toolVars, sessionVars>>
CredentialsStep ==
  /\ part = "credentials" /\ H!Next
  /\ UNCHANGED <<now, marksAndPairs, limiterVars, toolVars, sessionVars>>
ToolsStep ==
  part = "tools" /\ T!Next /\ UNCHANGED <<now, marksAndPairs, limiterVars, credentialVars, sessionVars>>
SessionsStep ==
  /\ part = "sessions" /\ S!Next
  /\ UNCHANGED <<marksAndPairs, limiterVars, credentialVars, toolVars>>

PartsNext ==
  /\ UNCHANGED <<part, input>>
  /\ EdgeStep \/ LimiterStep \/ CredentialsStep \/ ToolsStep \/ SessionsStep

\* In its first state no part has a step that it is owed, so a part that does not
\* run is not asked for one.
PartsSpec == PartsInit /\ [][PartsNext]_partsVars /\ H!Fairness /\ S!Fairness

-----------------------------------------------------------------------------
(* RejectionFinal and CappedByCredential are AccessEdge's. *)

\* The types of the five parts that have state.
PartsTypeOK ==
  /\ part = "edge" => TypeOK
  /\ part = "limiter" => R!TypeOK
  /\ part = "credentials" => H!TypeOK
  /\ part = "tools" => T!TypeOK
  /\ part = "sessions" => S!TypeOK

\* RateLimiter.check: no address exceeds its windows, and none is refused for less.
LimitKept == part = "limiter" => R!LimitKept

\* LegacyProvider, OAuth2Provider: one login in flight, shared by all who wait.
OneLogin == part = "credentials" => H!OneLogin

\* fetchWithAuth: the second try never carries the session that was refused.
RetryRenewed == part = "credentials" => H!RetryRenewed

\* LegacyProvider.refresh: what a burst of refusals costs in logins.
LoginsBounded == part = "credentials" => H!LoginsBounded

\* fetchWithAuth: every request ends, whatever happens to its login.
RequestEnds == H!RequestEnds

\* BaseEngine, EntityAccessPolicy: read-only and the allowlist hold for every
\* request a tool sends on its way.
AccessKept == part = "tools" => T!AccessKept

\* BaseEngine._mutate: what the audit trail says of a call, and of which failure it
\* says nothing.
TrailTells == part = "tools" => T!TrailTells

\* The providers: a call that ends well has been performed.
Confirmed == part = "tools" => T!Confirmed

\* The query translators: over either backend a filter navigates its lookups, and selects
\* what was asked for if its conditions fit their columns; an order sorts and a write
\* stores what the arguments of the tool say.
DialectsAgree == part = "queries" => T!QueryMeans(input)

\* extractTextFromBytes, download: the text of an archive is what is read of its
\* documents, if it opens, each payload is listed, and a body is whole and within its
\* limit.
ContentAccounted == part = "files" => T!ContentMeans(input)

\* extractRtf: the text of a well-written document is what its groups show.
RtfTextKept == part = "rtf" => T!RtfMeans(input)

\* ensureCapabilitiesProbed: every probe ends.
ProbesEnd == S!ProbesEnd

\* HttpServer.stop: every shutdown ends, but for a stream opened during it.
StopEnds == S!StopEnds
=============================================================================
