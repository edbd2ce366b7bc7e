----------------------------- MODULE McpSessions -----------------------------
(***************************************************************************)
(* MCP sessions over HTTP: the transport, the session server and the entry *)
(* in SessionContext that one initialize request creates, the tenant whose *)
(* tools the server lists, the probes that find those tools while sessions *)
(* come and go, and the ways all of it is closed: a DELETE of the client   *)
(* and the shutdown of the process.  One Server id stands for the three    *)
(* objects of one session.  Everything between two awaits is one step; the *)
(* closing callbacks, which call each other, are steps of their own that   *)
(* nothing else can come between: `calls` is what the thread has left to do*)
(***************************************************************************)
EXTENDS TenantRegistry, Sequences

CONSTANTS
  Setting,       \* preparers that probe a system setting (DataForge, search)
  Published,     \* the preparer of the publishing app
  Order,         \* the preparers in the order they are probed
  PublishedApp,  \* codes of published servers, each with one tool
  Cooldown,      \* PROBE_RETRY_COOLDOWN_MS
  MaxTime        \* bound on the clock

VARIABLES
  now,
  registry,      \* TenantToolRegistry
  probe,         \* per object: its _prepareTools in flight
  home,          \* per server: the tenant its initialize request addressed
  transport,     \* per server: its transport
  named,         \* servers whose transport has been given a session id
  closed,        \* servers whose onclose has run: the flag `closed`
  listed,        \* per server: the capability tools it lists
  stream,        \* servers whose client holds a GET stream open
  sessions,      \* SessionContext: the ids of live sessions
  deleting,      \* SessionContext: _deletingSessions
  calls,         \* what is left of the running chain of closing calls
  phase          \* HttpServer: "up", "stopping", "draining", "closing", "stopped"

sessionVars == <<home, transport, named, closed, listed, stream, sessions, deleting>>
vars == <<now, registry, probe, sessionVars, calls, phase>>

\* A tool is known by its name; who found it for whom is kept for the properties.
Tool == [name : Setting \cup PublishedApp, tenant : Tenant]

ASSUME SessionsAssumption ==
  /\ Preparer = Setting \cup {Published} /\ Published \notin Setting
  /\ Order \in Seq(Preparer)
  /\ Cooldown \in Nat /\ MaxTime \in Nat

NoProbe == [at |-> 0, since |-> 0, left |-> {}, found |-> FALSE, tenant |-> None]
Probing == {o \in Object : probe[o].at # 0}

Init ==
  /\ now = 0
  /\ registry = Empty
  /\ probe = [o \in Object |-> NoProbe]
  /\ home = [s \in Server |-> None]
  /\ transport = [s \in Server |-> "none"]
  /\ named = {} /\ closed = {} /\ stream = {} /\ sessions = {} /\ deleting = {}
  /\ listed = [s \in Server |-> {}]
  /\ calls = <<>>
  /\ phase = "up"

\* The thread is free, and connections are served.
Free == calls = <<>> /\ phase \in {"up", "draining"}

-----------------------------------------------------------------------------
(* Probing *)

\* _prepareTools goes on to the next preparer without a verdict that is not in
\* its cooldown, by the clock read at its start; 0 when it is through.
NextPreparer(st, from, since) ==
  LET open == {i \in from..Len(Order) : /\ st.caps[Order[i]] = "unknown"
                                         /\ since >= st.cooldown[Order[i]]}
  IN IF open = {} THEN 0 ELSE CHOOSE i \in open : \A j \in open : i <= j
AllVerdicts(st) == \A i \in DOMAIN Order : st.caps[Order[i]] # "unknown"

\* Mutant: the cooldown is taken off the clock.
AskingEarly(i, since, t) ==
  [NoProbe EXCEPT !.at = i, !.since = since - Cooldown, !.tenant = t]

Asking(i, since, t) == [NoProbe EXCEPT !.at = i, !.since = since, !.tenant = t]

\* ensureCapabilitiesProbed on the object getState returned.
Ensure(reg, o, t) ==
  LET st == reg.of[o]
      first == NextPreparer(st, 1, now)
      idle == st.complete \/ o \in Probing
  IN /\ probe' = IF idle \/ first = 0 THEN probe
                 ELSE [probe EXCEPT ![o] = Asking(first, now, t)]
     /\ registry' = LET done == IF idle \/ first # 0 THEN reg
                                ELSE [reg EXCEPT !.of[o].complete = AllVerdicts(st)]
                    IN Collected(done, {x \in Object : probe'[x].at # 0})

\* A probe moves on from its preparer, the object having become st.
Advance(o, st) ==
  LET next == NextPreparer(st, probe[o].at + 1, probe[o].since)
      done == [st EXCEPT !.complete = (next = 0 /\ AllVerdicts(st))]
  IN /\ probe' = [probe EXCEPT ![o] =
                    IF next = 0 THEN NoProbe ELSE Asking(next, probe[o].since, probe[o].tenant)]
     /\ registry' = Collected([registry EXCEPT !.of[o] = done],
                              {x \in Object : probe'[x].at # 0})

\* Mutants: a tool is only pushed; it is pushed into every session there is.
PushedOnly(st, tool) == st
PushEverywhere(o, tool) ==
  listed' = [s \in Server |-> IF transport[s] = "open" THEN listed[s] \cup {tool} ELSE listed[s]]

\* The registrar of an object: the tool is kept for sessions to come and pushed
\* into those the object tracks.
Discovered(o, name) == [name |-> name, tenant |-> probe[o].tenant]
WithTool(st, tool) == [st EXCEPT !.tools = @ \cup {tool}]
PushTool(o, tool) ==
  listed' = [s \in Server |-> IF s \in registry.of[o].servers
                              THEN listed[s] \cup {tool} ELSE listed[s]]

Current(o) == Order[probe[o].at]
Verdict(st, p, v) == [st EXCEPT !.caps[p] = v]

\* DataForge and Global Search: the setting holds a value or it does not, and a
\* probe that fails counts as a setting without a value.
SettingAnswered(o) ==
  /\ calls = <<>> /\ phase # "stopped"
  /\ o \in Probing /\ Current(o) \in Setting
  /\ \/ /\ Advance(o, Verdict(registry.of[o], Current(o), "no"))
        /\ UNCHANGED listed
     \/ LET tool == Discovered(o, Current(o))
        IN /\ Advance(o, Verdict(WithTool(registry.of[o], tool), Current(o), "yes"))
           /\ PushTool(o, tool)
  /\ UNCHANGED <<now, home, transport, named, closed, stream, sessions, deleting,
                 calls, phase>>

\* The publishing app: not installed (or not asked about), a list that fails and
\* so leaves no verdict, or the codes of the servers online.
AppAnswered(o) ==
  /\ calls = <<>> /\ phase # "stopped"
  /\ o \in Probing /\ Current(o) = Published /\ probe[o].left = {}
  /\ \/ Advance(o, Verdict(registry.of[o], Published, "no"))
     \/ Advance(o, [registry.of[o] EXCEPT !.cooldown[Published] = now + Cooldown])
     \/ \E online \in SUBSET PublishedApp \ {{}} :
          /\ probe' = [probe EXCEPT ![o].left = online]
          /\ UNCHANGED registry
  /\ UNCHANGED <<now, sessionVars, calls, phase>>

\* One server of the publishing app lists its tool, or fails and is passed over.
ServerListed(o) ==
  /\ calls = <<>> /\ phase # "stopped"
  /\ o \in Probing
  /\ \E code \in probe[o].left, ok \in BOOLEAN :
       LET tool == Discovered(o, code)
           st == IF ok THEN WithTool(registry.of[o], tool) ELSE registry.of[o]
           found == probe[o].found \/ ok
       IN /\ IF probe[o].left = {code}
             THEN Advance(o, Verdict(st, Published, IF found THEN "yes" ELSE "no"))
             ELSE /\ probe' = [probe EXCEPT ![o].left = @ \ {code}, ![o].found = found]
                  /\ registry' = [registry EXCEPT !.of[o] = st]
          /\ IF ok THEN PushTool(o, tool) ELSE UNCHANGED listed
  /\ UNCHANGED <<now, home, transport, named, closed, stream, sessions, deleting,
                 calls, phase>>

-----------------------------------------------------------------------------
(* Requests *)

\* POST without a session id.  A transport; createSessionServer for the tenant of
\* the request, which lists the tools known so far and is tracked; then, connected,
\* the probe is started and the transport takes the initialize and reports the
\* session, or refuses it and never has an id.  No event comes between: the
\* promises awaited here are settled already.
PostInitialize(s, t) ==
  /\ Free
  /\ transport[s] = "none"
  /\ CanGet(registry, t, Probing)
  /\ LET o == Found(registry, t, Probing)
         created == GetState(registry, t, now, Probing)
         tracked == Collected(Track(created, o, s), Probing)
     IN /\ listed' = [listed EXCEPT ![s] = created.of[o].tools]
        /\ Ensure(GetState(tracked, t, now, Probing), Found(tracked, t, Probing), t)
  /\ home' = [home EXCEPT ![s] = t]
  /\ transport' = [transport EXCEPT ![s] = "open"]
  /\ \/ named' = named \cup {s} /\ sessions' = sessions \cup {s}
     \/ UNCHANGED <<named, sessions>>
  /\ UNCHANGED <<now, closed, stream, deleting, calls, phase>>

\* POST in a session: the tenant is that of the request, not of the session.
PostCall(s, t) ==
  /\ Free
  /\ s \in sessions
  /\ CanGet(registry, t, Probing)
  /\ Ensure(GetState(registry, t, now, Probing), Found(registry, t, Probing), t)
  /\ UNCHANGED <<now, sessionVars, calls, phase>>

\* describe-entity asks for the verdict of the tenant of the request.
DescribeEntity(s, t) ==
  /\ Free
  /\ s \in sessions
  /\ CanGet(registry, t, Probing)
  /\ registry' = Collected(GetState(registry, t, now, Probing), Probing)
  /\ UNCHANGED <<now, probe, sessionVars, calls, phase>>

\* GET: the stream stays until its transport or its client closes it.
OpenStream(s) ==
  /\ Free
  /\ s \in sessions
  /\ stream' = stream \cup {s}
  /\ UNCHANGED <<now, registry, probe, home, transport, named, closed, listed,
                 sessions, deleting, calls, phase>>
EndStream(s) ==
  /\ Free
  /\ s \in stream
  /\ stream' = stream \ {s}
  /\ UNCHANGED <<now, registry, probe, home, transport, named, closed, listed,
                 sessions, deleting, calls, phase>>

\* DELETE: the transport closes itself.
Delete(s) ==
  /\ Free
  /\ s \in sessions
  /\ calls' = <<<<"transport.close", s>>>>
  /\ UNCHANGED <<now, registry, probe, sessionVars, phase>>

-----------------------------------------------------------------------------
(* Closing *)

\* One call of the chain: the calls it makes go before what its caller has left.
Call(f, s) == calls # <<>> /\ Head(calls) = <<f, s>>
Return(made) == calls' = made \o Tail(calls)

\* Mutant: the stream stays open.
TransportCloseLeavingStream(s) ==
  /\ Call("transport.close", s)
  /\ transport' = [transport EXCEPT ![s] = "closed"]
  /\ Return(<<<<"onclose", s>>>>)
  /\ UNCHANGED <<now, registry, probe, home, named, closed, listed, stream, sessions,
                 deleting, phase>>

\* transport.close ends its stream and calls onclose, however often it is closed.
\* mcp.close is transport.close of the transport the server is connected to.
TransportClose(s) ==
  /\ Call("transport.close", s)
  /\ transport' = [transport EXCEPT ![s] = "closed"]
  /\ stream' = stream \ {s}
  /\ Return(<<<<"onclose", s>>>>)
  /\ UNCHANGED <<now, registry, probe, home, named, closed, listed, sessions,
                 deleting, phase>>
\* Mutants: the flag is not looked at; the session entry is left behind.
OnCloseUnguarded(s) ==
  /\ Call("onclose", s)
  /\ closed' = closed \cup {s}
  /\ Return(<<<<"release", s>>>> \o IF s \in named THEN <<<<"deleteSession", s>>>> ELSE <<>>)
  /\ UNCHANGED <<now, registry, probe, home, transport, named, listed, stream,
                 sessions, deleting, phase>>
OnCloseReleasing(s) ==
  /\ Call("onclose", s)
  /\ closed' = closed \cup {s}
  /\ Return(IF s \in closed THEN <<>> ELSE <<<<"release", s>>>>)
  /\ UNCHANGED <<now, registry, probe, home, transport, named, listed, stream,
                 sessions, deleting, phase>>

\* transport.onclose, set by handleMcpPost.
OnClose(s) ==
  /\ Call("onclose", s)
  /\ IF s \in closed THEN Return(<<>>) /\ UNCHANGED closed
     ELSE /\ closed' = closed \cup {s}
          /\ Return(<<<<"release", s>>>>
                      \o IF s \in named THEN <<<<"deleteSession", s>>>> ELSE <<>>)
  /\ UNCHANGED <<now, registry, probe, home, transport, named, listed, stream,
                 sessions, deleting, phase>>
Release(s) ==
  /\ Call("release", s)
  /\ registry' = Untrack(registry, s)
  /\ Return(<<<<"transport.close", s>>>>)
  /\ UNCHANGED <<now, probe, sessionVars, phase>>
DeleteSession(s) ==
  /\ Call("deleteSession", s)
  /\ IF s \in deleting THEN Return(<<>>) /\ UNCHANGED <<sessions, deleting>>
     ELSE /\ deleting' = deleting \cup {s}
          /\ sessions' = sessions \ {s}
          /\ Return((IF s \in sessions THEN <<<<"transport.close", s>>>> ELSE <<>>)
                      \o <<<<"deleted", s>>>>)
  /\ UNCHANGED <<now, registry, probe, home, transport, named, closed, listed,
                 stream, phase>>
Deleted(s) ==
  /\ Call("deleted", s)
  /\ deleting' = deleting \ {s}
  /\ Return(<<>>)
  /\ UNCHANGED <<now, registry, probe, home, transport, named, closed, listed,
                 stream, sessions, phase>>

\* Some order of a set of servers, to close them one after the other.
Ordered(S) == {q \in [1..Cardinality(S) -> S] : \A i, j \in DOMAIN q : i # j => q[i] # q[j]}

\* HttpServer.stop, up to its first await: stopAll closes every server the
\* registry tracks and clears it.
Stop ==
  /\ calls = <<>> /\ phase = "up"
  /\ phase' = "stopping"
  /\ \E q \in Ordered(AllServers(registry)) : calls' = [i \in DOMAIN q |-> <<"transport.close", q[i]>>]
  /\ UNCHANGED <<now, registry, probe, sessionVars>>
Clear ==
  /\ calls = <<>> /\ phase = "stopping"
  /\ phase' = "draining"
  /\ registry' = Collected(Cleared(registry), Probing)
  /\ UNCHANGED <<now, probe, sessionVars, calls>>

\* Mutant: nothing is closed once the listener is.
DrainedOnly ==
  /\ calls = <<>> /\ phase = "draining"
  /\ stream = {}
  /\ phase' = "closing"
  /\ UNCHANGED <<now, registry, probe, sessionVars, calls>>

\* srv.close: no new connections; it ends when every stream has.
\* Then what is left in SessionContext is closed, twice over.
Drained ==
  /\ calls = <<>> /\ phase = "draining"
  /\ stream = {}
  /\ phase' = "closing"
  /\ \E q \in Ordered(sessions) :
       calls' = [i \in 1..(2 * Len(q)) |->
                   <<IF i % 2 = 1 THEN "transport.close" ELSE "deleteSession", q[(i + 1) \div 2]>>]
  /\ UNCHANGED <<now, registry, probe, sessionVars>>
Stopped ==
  /\ calls = <<>> /\ phase = "closing"
  /\ phase' = "stopped"
  /\ UNCHANGED <<now, registry, probe, sessionVars, calls>>

Tick ==
  /\ calls = <<>> /\ phase # "stopped"
  /\ now < MaxTime
  /\ now' = now + 1
  /\ UNCHANGED <<registry, probe, sessionVars, calls, phase>>

-----------------------------------------------------------------------------
\* Mutant: the answer for a tenant that is gone is dropped.
AnswerPresent(o) ==
  /\ \E t \in Present(registry) : registry.at[t] = o
  /\ SettingAnswered(o) \/ AppAnswered(o) \/ ServerListed(o)

\* The probe of an object goes on when Creatio answers its preparer.
Answer(o) == SettingAnswered(o) \/ AppAnswered(o) \/ ServerListed(o)
Closing(s) == TransportClose(s) \/ OnClose(s) \/ Release(s)
                \/ DeleteSession(s) \/ Deleted(s)
Next ==
  \/ \E s \in Server, t \in Tenant : PostInitialize(s, t)
  \/ \E s \in Server, t \in Tenant : PostCall(s, t)
  \/ \E s \in Server, t \in Tenant : DescribeEntity(s, t)
  \/ \E s \in Server : OpenStream(s)
  \/ \E s \in Server : EndStream(s)
  \/ \E s \in Server : Delete(s)
  \/ \E s \in Server : Closing(s)
  \/ \E o \in Object : Answer(o)
  \/ Stop \/ Clear \/ Drained \/ Stopped
  \/ Tick

Spec == Init /\ [][Next]_vars

\* The thread runs what it has begun; Creatio answers a probe, if only with an
\* error.  Nobody has to stop the server, to close a session or to end a stream.
Fairness ==
  /\ WF_vars((\E s \in Server : Closing(s)) \/ Clear \/ Drained \/ Stopped)
  /\ \A o \in Object : WF_vars(Answer(o))
FairSpec == Spec /\ Fairness

-----------------------------------------------------------------------------
(* Properties *)

TenantState ==
  [caps : [Preparer -> {"unknown", "yes", "no"}], cooldown : [Preparer -> Nat],
   tools : SUBSET Tool, servers : SUBSET Server, complete : BOOLEAN, lastAccess : Nat]
Registry ==
  [at : [Tenant -> Object \cup {None}], before : SUBSET (Tenant \X Tenant),
   of : [Object -> TenantState]]
Probe ==
  [at : 0..Len(Order), since : Nat, left : SUBSET PublishedApp, found : BOOLEAN,
   tenant : Tenant \cup {None}]

TypeOK ==
  /\ now \in 0..MaxTime
  /\ registry \in Registry
  /\ probe \in [Object -> Probe]
  /\ home \in [Server -> Tenant \cup {None}]
  /\ transport \in [Server -> {"none", "open", "closed"}]
  /\ listed \in [Server -> SUBSET Tool]
  /\ named \subseteq Server /\ closed \subseteq Server /\ stream \subseteq Server
  /\ sessions \subseteq Server /\ deleting \subseteq Server
  /\ calls \in Seq({"transport.close", "onclose", "release", "deleteSession",
                    "deleted"} \X Server)
  /\ phase \in {"up", "stopping", "draining", "closing", "stopped"}

\* A session lists what was found for its own tenant and nothing else, whoever
\* probes while it is open and whatever tenants its requests address.
OwnTools == \A s \in Server : \A tool \in listed[s] : tool.tenant = home[s]

\* A tracked session lists every tool its tenant has, whether the probe found it
\* before the session was opened or after: no tool falls between the copy made
\* on connect and the push on discovery, and none is lost to an eviction.
ToolsInStep ==
  \A t \in Present(registry) :
    \A s \in StateOf(registry, t).servers : listed[s] = StateOf(registry, t).tools

\* Between chains of closing calls the three books agree: what SessionContext
\* has is open, and what is closed is nowhere, tracked or listed.
BooksAgree ==
  calls = <<>> =>
    /\ deleting = {}
    /\ \A s \in sessions : transport[s] = "open"
    /\ \A s \in Server : transport[s] = "closed" =>
         s \in closed /\ s \notin sessions /\ TenantsWith(registry, s) = {}

\* Closing calls call each other, but each of them is pending a bounded number of
\* times: the chain that once overflowed the stack ends.
CloseEnds ==
  \A s \in Server : Cardinality({i \in DOMAIN calls : calls[i][2] = s}) <= 3

\* After a shutdown nothing a client opened is left, sessions opened while the
\* listener drained included.
StoppedClean ==
  phase = "stopped" => sessions = {} /\ \A s \in named : transport[s] = "closed"

\* A session is left untracked, out of reach of late tools and of the shutdown's
\* stopAll, only when as many other tenants as the registry has room for hold
\* sessions: then the getState of its own initialize evicts the tenant it adds.
UntrackedOnlyWhenFull ==
  [][\A s \in sessions' \ sessions :
       TenantsWith(registry', s) = {} =>
         Cardinality({t \in Present(registry) : StateOf(registry, t).servers # {}})
           >= MaxTenants]_vars

\* Every probe comes to its end, also when its tenant has been dropped meanwhile,
\* unless the process ends first: a probe left in flight would keep its tenant
\* from ever being probed again.
ProbesEnd == \A o \in Object : probe[o].at # 0 ~> (probe[o].at = 0 \/ phase = "stopped")

\* A shutdown ends, streams that were open when it began included, unless a
\* session opened while the listener drained holds a stream: stop waits for it.
StopEnds ==
  phase = "stopping" ~>
    \/ phase = "stopped"
    \/ phase = "draining" /\ \E s \in stream : transport[s] = "open"
=============================================================================
