# Verification of mcp-creatio

mcp-creatio is a Model Context Protocol server in front of Creatio. This
directory holds TLA+ models of its stateful parts, the TLC configurations that
check them on small instances, and proofs, checked by TLAPS, of the properties
that matter most. Paths below are relative to `src/src/`.

## 1. The system

The process is one Node.js event loop: a handler runs without interruption from
one `await` to the next, and between two awaits of one handler any other handler
or timer callback may run. Nothing is written to disk. What survives a restart is
what others hold: browsers and MCP clients their tokens, Creatio its sessions.

| Component | Source | State it keeps | Operations |
|---|---|---|---|
| Authorization flow of the OAuth broker | `server/oauth/storage.ts`, `oauth-server.ts`, `token-manager.ts`, `client-manager.ts`, `validators.ts`, `server/http/broker-handlers.ts` | clients (capped, expiring), pending authorizations, authorization codes | `/register`, `/authorize`, `/oauth/callback`, `/token` (code grant), timer |
| Refresh and revocation | `oauth-server.ts`, `sealed-tokens.ts`, `creatio/auth/providers/creatio-oauth-client.ts` | the replay window `_recentRefreshes` with promises of refreshes in flight | `/token` (refresh grant), `/revoke`, timer |
| Access tokens at the edge | `token-manager.ts`, `sessions/session-context.ts`, `broker-provider.ts`, `auth-edge.ts` | marks of rejected Creatio tokens; the JWTs are with the clients | minting, check of `/mcp`, mark on 401 and on revocation, timer |
| MCP sessions | `server/http/mcp-handlers.ts`, `http-server.ts`, `session-context.ts` | sessions, transports, two guards against re-entrant closing | initialize, request, DELETE, transport close, shutdown |
| Tenant tool registry and probes | `server/mcp/server.ts`, `tenant-tool-registry.ts`, `crtmcp/`, `dataforge/`, `globalsearch/` | per tenant: verdicts, cool-downs, discovered tools, session servers | lookup with eviction, probe, late registration, release |
| Schema caches | `creatio/services/versioned-ttl-cache.ts`, `schema-freshness-gate.ts`, `odata/metadata-store.ts`, `dataservice/data-service-schema.ts` | version snapshots, versioned entries, loads in flight | get version, get or load, prune |
| HTTP client and credentials | `creatio/services/http-client.ts`, `creatio/auth/`, `server/keepalive.ts` | cookie or token, login or fetch in flight | headers, refresh, invalidate, request with one retry, keep-alive |
| Rate limiter and middleware | `server/http/rate-limiter.ts`, `middleware.ts`, `health.ts` | a bucket per address | check, sweep |
| Bearer edge | `server/bearer/` | none | which credential and base URL a request runs with |
| Engines, access rules | `creatio/engines/` | configuration; the audit trail they write | read-only gate, entity allowlist, delegate |
| CRUD providers, translators | `creatio/services/odata/`, `dataservice/` | none (caches above) | translate queries and filters |
| Settings, administration, processes, features, files | `creatio/services/*-provider.ts` | none | one or two requests each, whose answers they check or relay |
| File extraction | `creatio/services/file-extraction/` | none | choose an extractor, open nested containers |
| Tool and prompt data; configuration, CLI, logging | `server/mcp/tools-data.ts`, `config-builder.ts`, ... | none that lasts | data, start-up |

Interactions. A request to `/mcp` passes the edge, which puts its credential into
an async context; a session binds it to a session server of its tenant; a tool
runs an engine, which uses a provider, which asks the schema caches and the HTTP
client; a second 401 from Creatio travels back through
`BrokerProvider.invalidate` to the marks of the edge. The broker's handlers share
`OAuthServer` and, through `SessionContext`, the marks. One five-minute timer
(`http-server.ts:87-96`) cleans up the storage, the window and the marks.

What is hard. Every `await` in a handler separates a check from its use; promises
of refreshes, logins and loads are shared by requests of different users; failures
and answers arrive in any order; caps and time-outs evict entries somebody still
needs; a restart may happen between any two steps. `PROJECT.json` lists the
hazards with their lines and the properties aimed at them.

What makes each component correct. Authorization flow: a login is turned into
tokens only by the client that asked, with its verifier, once; refused redemptions
lose nothing; caps evict the oldest. Refresh: one spend per window, no crossing of
users, no cached failure, every request answered, nothing replayed after a
revocation. Edge: a rejected token stays out, a JWT does not outlive the credential
it carries. Sessions: the transport, the session server and the entry in
`SessionContext` come and go together, whoever closes them. Registry: a session lists
every tool of its tenant and no other. Caches: bounded staleness, one load per
version, caps. Credentials: one login for concurrent requests, a retry never carries
what was refused, every request ends. Limiter: the bound per window, and over any span
as long. Tools: no write in read-only mode, nothing outside the allowlist, and a result
that does not hide a refusal. Translations: both dialects of a filter select the
records asked for; the text of a file is the text of what can be read in it.

## 2. Modules

| Module | Models | State and actions |
|---|---|---|
| `CodeGrant` | the promise of the authorization flow | requests, completed logins, token pairs issued |
| `AuthorizationFlow` | `OAuthStorage` and the handlers of the flow | one variable per map of the storage (`store`, `pending`, `codes`), one set per await in which a handler can be (`authorizing`, `exchanging`); a handler is one action up to its await (`Authorize`, `Callback`) and one after it (`CreatePending`, `ExchangeOk`, `ExchangeFails`); `Redeem` is one action because the code has no await between lookup and deletion; `Cleanup`, `Restart` |
| `RefreshWindow` | `exchangeRefreshToken`, `_refreshCreatioOnce`, `forgetRecentRefresh`, `/revoke` of refresh tokens, Creatio's rotation | `recent` is the window; `call` the requests, `flight` the refresh calls; `Replay`, `Join`, `Start` are the three ways a request meets the window; `Resolve` and `Fail` settle the promise and answer all who await it, as the microtask queue does; `Revoke` and `RevokeEnds` are the two sides of the await in `handleRevoke` |
| `SharedRefresh` | the promise of the replay window: who presents the same refresh token of the same session within `Window` shares one refresh, and all who share it are answered when it settles | what each request presented, whose refresh it shares, what became of the refreshes, who was answered; `Spend` and `Share` are the two ways a request is taken, `excused` the tokens for which the promise is given up, by `Revoke`, `Restart` or a late `Fail` |
| `AccessEdge` | life of a JWT, the check of `mcpAuth`, the marks | a pair of Creatio tokens goes from `Ask` over `CreatioIssues` and `Receive` to `RedeemCode` or `ReplayRefresh`; `Admit`, `Serve`, `Bounce`, `RevokeAccess` are requests; `Cleanup` drops marks |
| `SchemaCache` | `SchemaFreshnessGate` under `VersionedTtlCache`, as OData (`ODataMetadataStore`) and DataService (`_getRuntimeSchema`) use them | `snapshot` is the gate's map, `entries` and `ahead` (the order of the `Map`) are the caches; `read` holds the calls: `Ask` is a call up to its first await, `CreatioHashes`, `PollEnds` and `PollFails` the poll of the gate, `CreatioSchema`, `Loaded` and `LoadFails` the load; `Nest`, `NestEnds` and `NestFails` the list of entity sets that is taken from `$metadata`; a version leads on to `Hit`, `Join` or `Load` in the same step, as it does in `getOrLoad` |
| `TenantRegistry` | `TenantToolRegistry` | operators on a record: `at` from tenants to state objects (code holds objects the map has dropped), `before` which tenant was inserted before which, `of` the objects; `GetState` touches or inserts and then prunes, `OverCap` picks the coldest without sessions |
| `McpSessions` | `McpHttpHandlers`, `SessionContext`, the session servers and probes of `Server`, `HttpServer.stop`, on top of `TenantRegistry` | a `Server` id is a transport, its session server and its entry; `PostInitialize`, `PostCall`, `DescribeEntity`, `OpenStream`, `Delete` are requests; `calls` is the stack of the closing callbacks, and while it is not empty only `TransportClose`, `OnClose`, `Release`, `DeleteSession`, `Deleted` run; `probe` is `_prepareTools` between two preparers, moved on by `SettingAnswered`, `AppAnswered`, `ServerListed`; `Stop`, `Clear`, `Drained`, `Stopped` are the stages of `stop` |
| `HttpAuth` | `fetchWithAuth` over `LegacyProvider`, `OAuth2Provider`, `OAuth2BearerProvider`, `BrokerProvider` | `held` and `fresh` are the session, `inflight` the promise of a login, `logins` the logins Creatio has not answered; a request is idle, waits for headers or for a refresh, is sent, or has ended; `FirstBounce` refreshes and retries, `SecondBounce` gives up; `LoggedIn` and `LogInFailed` settle a login and let everyone who awaits it go on |
| `ToolCalls` | the tools `Server` lists, `BaseEngine._mutate`, `EntityAccessPolicy`, and every provider | `Listed` from the configuration; `Block`, `Deny` and `Begin` are the three ways a call starts; `Plan` is the requests it makes, in order, `Answer` takes what Creatio says to the first of them: `Fail` when the provider throws (`Throws`), else `GoOn`, which notes whether the result carries a refusal (`Tells`). `Suffices` is an answer that makes the rest of the plan unnecessary (the list of the service document), `Recorded` what the catch of `_mutate` leaves in the trail, which is nothing for what is thrown outside it (`ThrownOutside`) |
| `RateLimiter` | `FixedWindowRateLimiter` | `Check` is `check` with its sweep; `admitted` keeps when requests were let through, for the property |
| `ReadQuery` | `filters.ts`, `ODataQueryTranslator`, `DataServiceFilterTranslator`, `DataServiceQueryBuilder`, column values | the two renderings of a filter as trees, compared by the records they select with what the arguments say; the order of a read; the values of a write. A literal goes with the type it is taken to have, in a filter by what it looks like (`ODataLiteral`, `Parameter`: a date in a text column is a date), in a write by the schema if there is one; a date is its wall clock and offset, and loses the offset over DataService. What is joined or lifted from several conditions is a recursive function over them |
| `FileExtraction` | `extractTextFromBytes`, `extractContainer`, `extractCfbf`, the PDF fallback, `download` | from a file (what its bytes are and how many words it has) to a text, which is a sequence of words named by their places (`<<2, 1, 5>>` is word 5 of the first entry of the second entry; a word of a PDF is named by its reading as well, 1 for the text layer and 2 for the recognised pages), or an error; compared with the documents that nested archives deliver. The recursion is written out level by level, `ExtractTextFromBytes`, `ExtractInOne`, `ExtractInTwo`, `ExtractInThree`: `MAX_CONTAINER_DEPTH` ends it there. The download by chunks |
| `RtfText` | `extractRtf` | the pass over tokens as a recursive function, compared with what groups, destinations and fallbacks mean |
| `Parts` | the parts with state that share none, side by side | `part` names the one that runs, `input` what a part that only computes (the three translations, which `ToolCallsProofs` brings along) is given; a step is one of `EdgeStep`, `LimiterStep`, `CredentialsStep`, `ToolsStep`, `SessionsStep`. The instances are of the modules with the proofs |
| `MCParts` | the instance of `Parts`, with the inputs of the translations | see section 3 |
| `MC...` | instances for TLC | symmetry sets, pairs and caches of the instance, inputs of the translations |
| `...Proofs` | theorems about the module they extend | |

Abstractions. A token, code, state, verifier or user is a model value: they are
random or cryptographic in the code, and freshness is a guard. SHA-256 of a
verifier is injective. A sealed or signed token is the record it carries and cannot
be made by anybody else. Requests that change nothing (errors before the first
state change) are stuttering. `Map` order matters where entries are evicted: in the
client store, the schema caches and the tenant registry, where it is a field of its own. Time is a counter in units of which the time-outs are small
multiples; seconds in `AccessEdge`, where rounding matters. In `SchemaCache` a data
model is the number of changes made to it, a schema is the number of the model it was
taken from, and the hash that Creatio computes over its schemas is that number too:
a hash differs whenever the model does. One poll of the hash endpoint has an instant at
which Creatio computes the answer (`CreatioHashes`) and one at which the answer is
used, and so has a load. History variables (`request`, `grants`, `usedCodes`; `fate`;
`prompt`, `barred`; `past`; `admitted`; `exchanges`) are written and never read by
guards, except that `request` and `usedCodes` stand for the freshness of random
strings.

In `McpSessions` an object is collected when nothing refers to it, so that its id can
be used again; `CanGet` bounds how many are alive. Sessions Creatio issues are numbered in
`HttpAuth`, so that "newer" is an order. `ToolCalls` follows one call: calls share
nothing but the trail, credentials and caches are modules of their own, and two calls
at once add only interleavings of independent steps. Its four `admin-operation` tools are one
tool; the capability tools are three, one to a preparer, found together.

Creatio is external: it accepts a refresh token that is live, may rotate it, may
refuse it, may lose a request or an answer (`Fail` after `CreatioAccepts` is a lost
answer), answers schema requests from the model it has at that instant, and sends a browser to the callback with a code; callbacks may be repeated
and combine any code with any state, because both come from the query.

## 3. Runs

| Run | Question | Instance |
|---|---|---|
| `flow_codes` | Can mixed, repeated, failing callbacks and redemptions bind a login to the wrong request, or use it twice? | two users, clients, states, codes, verifiers; the clock moves once past the end of pending entries and codes |
| `flow_store` | Who is evicted from a full store, and is what expired forgotten? | three ids (one registered), a cap of two, four insertions, expiry within the run |
| `refresh` | Is a rotating refresh token spent once per window, do requests share only what is theirs, is everybody answered, and does the window keep the promise of `SharedRefresh`? | two users, two requests at any time up to the end of the window, rotation, so that spending a token twice shows |
| `refresh_shared` (violation) | "never spent twice" without revocation or restart | three requests are needed: old, new, next |
| `refresh_revoked` (violation) | "cannot be replayed" after a revocation | three requests, one of which starts during the await |
| `edge_dropped` (violation) | Is a mark dropped only when the token has expired? | one pair, a replay window longer than the first JWT |
| `schema_reads` | Is a served schema no staler than the lives allow, and is a load shared by exactly those who want its version? | OData: document and list in caches of one, three reads, two at a time or one within the other; a change of the model, failing polls, expiry of snapshots, buckets and entries |
| `schema_caps` | Who is evicted from a full cache, and does every read end? | DataService: three entities in a cache of two, entries that expire before the snapshot does |
| `schema_list` (violation) | "bounds the worst-case staleness window", for lists | two reads at a time, one change of the model |
| `mcp_sessions` | Do tools reach the sessions of their tenant, all of them and no others, and does closing leave anything behind? | two tenants, two sessions and state objects, room for one tenant; a capability behind a setting and then a published server, so that a probe has steps between which sessions come and go (`parts` has two published servers) |
| `parts` | the rest, one part at a time (below) | in the next table |
| `tools_select` (violation) | "must surface as that error, not as an empty result" | any call |

The run `parts` holds eight parts that have no state in common. A behaviour is
one of one part, chosen in its initial state; the others stay in theirs, where no fair
action of theirs is enabled, so that each property speaks of its part alone, and
checking them in one run adds their states instead of multiplying them. The clock is
that of the part that runs.

| Part | Properties | Instance |
|---|---|---|
| `edge` (`AccessEdge`) | `RejectionFinal`, `CappedByCredential` | one pair, with a lifetime the margin swallows, one below the cap and one above it; JWTs minted again and again from the window. One pair is enough: no action reads one pair and writes another |
| `limiter` | `LimitKept` | two addresses, two requests to a window of two, four units of time: two windows that touch, and one left unswept |
| `credentials` | `OneLogin`, `RetryRenewed`, `LoginsBounded`, `RequestEnds` | two requests under each of the four providers; sessions expire and logins fail at any time |
| `tools` | `AccessKept`, `TrailTells`, `Confirmed` | two objects; every configuration, tool, argument and answer |
| `sessions` (`McpSessions`) | `ProbesEnd`, `StopEnds` | one tenant, two sessions, a preparer with two published servers |
| `queries` | `DialectsAgree` | filters of up to three conditions out of thirteen, two of which do not fit their columns, dates with and without an offset from UTC, orders of two terms, records of two columns; records with and without a lookup |
| `files` | `ContentAccounted` | each kind of document by itself and beside another entry (a PDF with a long layer, a short one and none), other entries being a payload and a `mimetype` that can and cannot be inflated, archives of up to two entries, three in one another, where a fourth one, empty, is refused; downloads of three chunks |
| `rtf` | `RtfTextKept` | every well-written document of up to five tokens |

`PartsTypeOK` is the types of the five parts that have state.

What the violations show. (1) `refresh_shared`: a refresh that takes longer than its
60 s window and then fails deletes the entry of the refresh that has replaced it
(`oauth-server.ts:134`), so a further request spends the token once more while
that one is in flight or done. `SpentOnce` is what the code does guarantee: the
exceptions are recorded in `fate`. (2) `refresh_revoked`: `handleRevoke` forgets the
entry before it awaits Creatio; a refresh in between leaves an entry that answers
requests after the revocation. (3) `edge_dropped`: a mark is as long as the JWT
that was revoked, but other JWTs with the same Creatio token may live longer;
the timer then drops the mark while they are good. `RejectionFinal` is what does
hold: the JWTs a mark was made for stay out. (4) `schema_list`: `listEntitySets` takes
its version first and loads later; the nested read of `$metadata` asks for a version of
its own and may be served a document filed under an older token. The list made of it
is stored under the newer one and served until its 30 minutes are over or the version
changes. `BoundedStaleness` is what holds for documents and runtime schemas: polls and
loads may overtake each other, yet what is served was current `SnapshotTtl` before the
read asked (plus one fallback bucket when the version is a bucket of time).

(5) `tools_select`: `list-entities` over
DataService takes an answer with `success: false` for an empty list, which is what
release 0.8.1 set out to end for reads. `Confirmed` is what does hold: it names the
requests a call may do without, this list, and the login page that comes with status
200 when a second login did not mend a session.

`LoginsBounded` is what the comment of `LegacyProvider` (`legacy-provider.ts:14-16`: a burst
of 401s makes one login) comes to when the refusals of a burst arrive one after the
other: no more logins than refusals. `UntrackedOnlyWhenFull` names the one
case in which `getState` evicts the tenant it has just inserted, although its comment says the
tenant just accessed is never the one (`tenant-tool-registry.ts:93-95`): all others have
sessions. `StopEnds` excepts a session that is opened while the listener drains and holds a
stream: `stop` waits for it. `RtfTextKept` is about documents in which each `\u` has its
fallback characters and stands in text that is shown; after a `\u` in a skipped
destination the pass eats as many characters of the text (`rtf-extractor.ts:174`).

Three more properties say where the code does not do what one would ask of it.
`TrailTells`: a published tool to which Creatio answers with an error of its own throws
after `configuration.call` has returned (`crt-mcp-client.ts:61`), outside `_mutate`, so the
trail has its attempt and no failure; of every other mutation that throws it has both.
`DialectsAgree`: filters do not see the schema, and both translators type a value by what
it looks like. A text like a date is a date against a text column as well, and DataService
drops the offset of a date. The property is therefore about conditions that fit (`Fits`:
a text column with plain texts, a column of instants with dates in UTC, keys and lookups
with GUIDs), with a user profile in UTC, as the code says (`data-service-value-type.ts:92-94`);
that no filter compares a foreign key by its own column holds of all. `ContentAccounted`:
a PDF with less than 50 characters a page in its layer is recognised as well, if that is
wanted, and both readings are delivered, one behind the other, so what stands in both comes
twice; without the libraries for recognition the layer is lost too
(`pdf-extractor.ts:36-51`). An archive one of whose payloads, or whose entry `mimetype`
(`extract.ts:39`), cannot be inflated gives nothing.

`CappedByCredential` has three premises the comment at `oauth-server.ts:34-35`
("never outlives the credential") leaves out: the answer of Creatio is received
within the 30 s margin, the lifetime exceeds the margin, and the JWT is minted
before the recorded expiry (else it gets the floor of one second). Outside them the
JWT may live longer than the credential; Creatio then refuses and the edge bounces.

Bounds. `MaxTime` and `MaxRegistrations` stop the clock and the insertions; each
instance lets every time-out of its question pass at least once, and puts caps below
the number of ids. All identities come in pairs at least wherever a property
compares two of them, and in threes where two are needed to evict or replace a
third. `MaxReads` and `MaxModel` bound `SchemaCache`; the ids of objects and servers
bound `McpSessions`, two being enough for one to be dropped while the other is in use; three reads are the fewest in which
one fills the cache, one overtakes it and one is served. Symmetry is used in runs of
safety properties only, over sets no action orders. Deadlock is checked where `Cleanup` or
`Restart` is always enabled; `mcp_sessions`, `parts` and `tools_select` end, with the shutdown,
with a request or a call answered, or with an input.

Fairness. `AuthorizationFlow!FairSpec` has weak fairness of `Cleanup`: a `setInterval`
that is cleared only at shutdown. `RefreshWindow!FairSpec` has weak fairness of a
call to Creatio ending: `fetch` resolves or rejects (the runtime's own header and body
time-outs end a silent connection, although the code sets none).
`SchemaCache!FairSpec` has the same for polls and loads, and for the steps of a read
between them, which the event loop runs; no fairness of one outcome over another. `HttpAuth!Fairness`: every call to Creatio ends, a login or a request,
by an answer or by the time-outs of the runtime. `McpSessions!Fairness`: the thread runs the chain of calls it has
begun and the stages of `stop`, and Creatio answers a probe, if only with an error. No
fairness of clients, users, or the clock is assumed: nobody has to stop the server, to
close a session or to end a stream.

## 4. Proofs

The theorems hold for every value of the constants that satisfies the named
`ASSUME`s of the module: absent values differ from present ones, allowed URIs and
minted ids are subsets of all, durations are natural numbers (a window, a life in the
schema caches and a cap at least 1), where lists are cached so are the documents they are taken from, and in
`AccessEdge` `RejectFor >= MaxTtl` (both are one hour in the source;
`MarksHold` needs it). `LimitAssumption`: the window and the maximum are at least 1.
`CarriedAssumption`: the requests to Creatio are finitely many, each carries a token,
and a token is a negative integer, so that none is the number of a session.
`ObjectAssumption`: there is an object, for calls name one. `ValueAssumption`: a text looks
like a date, like a GUID or like neither, and Null like none. `RegistryAssumption` and
`SessionsAssumption`: `maxTenants` is at least 1, and the preparers probed are those
there are. `RateLimiter`, `HttpAuth`, `ToolCalls` and `ReadQuery` have their assumption as a
definition, which is a hypothesis of their theorems; `PartsAssumption` in `Parts` gathers
them, and TLC evaluates it in the run `parts`. No other set of ids is assumed finite:
that the client store, the caches and the registry hold finitely many entries, and that
only finitely many servers were ever begun, is part of the invariants.

* `AuthorizationFlowProofs`. `TypeCorrect`, `GrantsBound`, `StateUsedOnce`. The
  inductive invariant is `TypeOK /\ BoundToRequest /\ UsedOnce`: `BoundToRequest` says
  that an exchange in flight was made with the state it was taken for, without which
  two exchanges could yield codes of one state. `CodesKept` and
  `FlowImplementsPromise` follow from it: `Redeem` maps to `Grant` because the code's
  login is open and its state not granted, `ExchangeOk` keeps the login open
  (it moves from Creatio's codes to the broker's), and expiry, failures and restarts
  are `Lapse`. `StoreEvictsOldest` has an invariant of its own, `StoreInv`: places in the
  `Map` are distinct and agree with the times of creation (`InOrder`), because an id that
  `/register` mints is new to the store (`MintedOnly`) and a known client is not
  registered again. A store over its cap by one then has one eldest entry (`Eldest`),
  which is all that the cap takes (`CapKeeps`, `CapDropsOne`).
* `RefreshWindowProofs`. `TypeCorrect`, `FailureNeverCached`, `SessionsApart`,
  `RefreshSpentOnce`. The invariant adds two conjuncts. `Lineage`: the pair a request
  obtains, and the token it renews, belong to the user who presented the token it
  was started with. `WindowKept`: a refresh in flight or done, and started less
  than `Window` ago, still has its entry unless `fate` says what took it. `SpentOnce`
  is then immediate, since `Start` requires that there is no entry.
  `NobodyStranded` (`AwaitsFlight`: whoever waits, waits for a refresh in flight) is the
  part of `RequestsAnswered` that needs no fairness; `SharedLoads` and `OneLogin` are the
  same for loads and logins.
  `WindowImplementsPromise` adds `EntryDated`, an entry expires `Window` after the refresh
  it stands for was started. A request that finds an entry then maps to `Share`: the refresh
  has not failed, is not old, and was presented the same token (`NoCachedFailure`) of the
  same session (`Lineage` and `OwnSession`). One that finds none maps to `Spend`, by
  `WindowKept`. `Resolve` and `Fail` answer who shares the refresh and nobody else; a late
  failure gives the promise up for a token only if another refresh of it can be shared; a
  restart excuses the tokens in the window, all of which were presented. Logins, Creatio's
  answers and the timer are stutters. `AllAnsweredTogether` is a property of the promise that
  the window inherits: all who share a refresh presented the same, and each of them is
  answered exactly when it has settled.
* `PartsProofs`. About `AccessEdge`: `TypeCorrect`, `MarksHold`, `JwtsCapped`. The
  invariant adds `Recorded` (the recorded expiry against the end of the credential, and
  each JWT against the recorded expiry) and `Held` (a mark is at least as long as the JWTs
  it was made for, so that the timer drops it after they have expired). About the parts
  beside it: `PartsTyped`, `PartsLimit`, `PartsLogin`, `PartsRetry`, `PartsBurst`,
  `PartsAccess`, `PartsTrail`, `PartsConfirmed`, `PartsDialects`, `PartsContent`, `PartsRtf`,
  which are the properties that `parts` checks. The last three need of `PartsInv` that an
  input is one of those `PartsAssumption` allows (queries, contents and token sequences of
  any size), and are then what `ToolCallsProofs` proves of all of them. `PartsInv` has the inductive invariant of the part that runs; a step is one of that part
  (`OneRuns`), so that the lemma of its own module (`InvariantStep`) carries the invariant
  over.
* `SchemaCacheProofs`. `TypeCorrect`, `LoadsShared`, `StalenessBounded`,
  `CacheDropsColdest`. `SharedLoads` is
  inductive with the types. Staleness is split in two, joined by the version:
  `Reflects` (a version changed with every change made before a certain instant: the
  question, for the read that polled, and one snapshot life earlier for those that use
  the snapshot) and `Backs` (a schema is no older than the version it is filed under,
  because it is loaded after the version was known). Both, for snapshots, entries and
  reads (`SnapshotsKnown`, `EntriesBacked`, `ReadsBacked`), are kept by every step since
  the past does not change; `SharedLoads` hands them from a load to those who joined it.
  Lists are exempt from `Backs`, which is exactly where `schema_list` breaks it.
  For evictions, `CacheInv` says that `ahead` is a strict order of the keys that are
  present, so that the sort by recency is one too (`ColderOrders`): among finitely many
  keys one is coldest (`SomeColdest`), and a load can exceed a cap by one only with a key
  that was not there, which is then the warmest (`Fills`, `PrunesOne`).
* `RateLimiterProofs`. `TypeCorrect`, `LimitsKept`. The property speaks of any span of
  time, the code of buckets; `Accounted` joins them. A bucket accounts for the last
  `count` times let through; what came earlier came before its window, and what came
  more than one maximum earlier came before a whole window more (`Accounts`). An
  address without a bucket is as one whose bucket ran out (`Settled`), which is why
  sweeps do no harm. From these an address that is let through keeps `Spread`: a
  request and the one twice the maximum later are a window apart.
* `HttpAuthProofs`. `TypeCorrect`, `LoginsShared`, `RetriesRenewed`, `LoginsOwed`.
  `OneLogin` is inductive with the types. `RetryRenewed` needs that a session that was
  refused has been issued before (`CarriesOwn`, `NotYetTried`). `SessionsOwed`
  strengthens `LoginsBounded` to what steps keep: the sessions issued, and the one to come
  while there is none, are at most one more than the requests that were refused.
* `ToolCallsProofs`. `TypeCorrect`, `AccessHolds`, `TrailComplete`,
  `ResultsConfirmed`. A call that passed the checks has a plan all of whose requests
  are proper (`Proper`: no write in read-only mode, nothing outside the allowlist), by
  cases on the tool and the backend; what is left of the plan stays proper, and the
  writes in it come last (`Underway`). `OnRecord` ties the trail to the stage of the
  call (a failure is on record unless it was `ThrownOutside`) and `ConfirmedSoFar` says that what was answered so far was confirmed, or
  noted as not. The module also proves what the translations compute, for inputs of any
  length: `QueriesMean` (from `ValueAssumption`), `ContentsMean`, `RtfKept` (of the well-written documents). Each is an induction over data, in a form
  the provers take. A recursive function is first shown to be what its definition says
  (`PassDefined`, `TotalsDefined`, `BehindDefined`: there is a function that satisfies the
  equation, and the `CHOOSE` behind the definition picks one), and the set of numbers up to
  which the claim holds is then all of them (`Least`, `UpTo`, `Greatest`, from the least
  element of a set of naturals).
  - `QueriesMean`: the two trees of a filter select the records the arguments select,
    condition by condition if the conditions fit (`LiteralKept`: a value that fits is read back as what was wanted; `ComparisonKept`, `ListKept`), then for groups of any size
    (`JoinedList`, `GroupKept`), then the raw expression joined to them (`JoinedByRaw`);
    orders and writes term by term.
  - `RtfKept`: the pass `Tracks` the document. After n tokens its stack is what the open
    groups have saved (`Stacked`), it skips if a destination around says so (`InSkipped`),
    what it owes are the fallback characters of the last `\u` (`Owed`), its code page is the
    one declared (`Paged`), and its output is what was shown so far (`Written`).
  - `ContentsMean`: what is joined of the first n payloads of an archive is their words
    with the number of the entry before them, in order (`Collects`). `Agrees` says that a
    result is what is delivered; an archive agrees if its entries do (`ArchiveAgrees`), so
    that agreement climbs from the level where nothing is opened (`AgreesInThree`) to
    the file (`AgreesAtAll`). A PDF agrees by its two readings, one behind the other (`PdfAgrees`).
* `McpSessionsProofs`. Two invariants. `IInv` is about tenants, tools and the registry.
  `Bounded`: insertion is a strict order (`Chained`), no access lies in the future
  (`Aged`) and the tenants are no more than `maxTenants` (`Within`); that `_prune`
  brings them back to it is a lemma (`Prunes`) by the coldest idle tenant, which exists
  because the order is strict and the set finite. `Kept`: an object works for one
  tenant at a time, in the registry or for a probe that goes on after its tenant was
  dropped (`Owned`); its tools and servers are of that tenant, and a server is
  tracked by one object (`Belongs`); what a tracked server lists is what its object
  has found (`InStep`). `TypeCorrect`, `ToolsOwn`, `ToolsStayInStep` and
  `RegistryWithinCap` follow, and `UntrackedWhenFull`: the only step that adds a session
  prunes with that session's tenant hottest. `BInv` adds the chain of closing calls.
  Between chains every server is `Settled`. While one runs, its first calls, three at
  the most, are about one server, in one of the few ways `Stage` names; the calls
  behind them are those `stop` has still to make, about servers that are still open
  (`Waiting`); and a session that `stop` has yet to close has its call in the chain
  (`Owed`). Each call rewrites the first calls and leaves the others where they were
  (`Shifts`). `BooksMatch`, `ChainsEnd` and `ShutdownClean` follow.

Model-checked only: liveness (`ExpiredForgotten`, `RequestsAnswered`, `ReadsEnd`,
`RequestEnds`, `ProbesEnd`, `StopEnds`), whose proofs need ENABLED and fairness, and the
violations, which are about one behaviour each. Every other property of the passing runs
is proved; what `RequestsAnswered` needs besides fairness is `NobodyStranded`.

## 5. Plan, and what is not modelled

The plan of this project is carried out: the broker, the sessions, the caches and the
credentials with their interleavings, then the translations, then the proofs of every
safety property and of two refinements. What could come next: an abstract specification of
a shared load for `SchemaCache` to implement, which would say of loads what `SharedLoads`
and `BoundedStaleness` say of reads; and liveness, once the prover takes ENABLED.

Not modelled. The bearer edge decides each request by its headers and keeps nothing;
configuration and command line are read once, and what they decide is in the initial
states of `HttpAuth` and `ToolCalls`. HTML pages, wire formats, parsers of documents
and of XML, cookies, wording, logs, tool and prompt texts (data without state) and
start-up I/O are left out for good. Two compositions are left out because they add
nothing that the parts do not show: `HttpAuth` under `SchemaCache` (a failed load is any
failure) and `McpSessions` under `ToolCalls` (a tool is listed or it is not).
