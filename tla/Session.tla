------------------------------- MODULE Session -------------------------------
(***************************************************************************)
(* The daemon and its clients: main, the constructor of Daemon, the loop   *)
(* of requests and their handlers (main.cpp, execution/daemon.cpp), over   *)
(* the listening socket (ServerSocket) and the trace (TraceLog), with the  *)
(* logs of the containers, and with what a daemon leaves to the next one.  *)
(*                                                                         *)
(* A client sends requests without waiting, and may leave at any point of  *)
(* a request.  A request is a block for its type and one for each field,   *)
(* received as Transport shows: whole, or cut short and then the last.     *)
(* What a launch and a configuration do in detail is in Launch and         *)
(* ConfigLoader; here they are their outcomes.                             *)
(***************************************************************************)
EXTENDS TraceLog, ServerSocket, FiniteSets, Functions

CONSTANTS
  Client,       \* connections
  NoClient,
  File,         \* files in the daemon's directory, which container names name
  OldLog,       \* those that are there, empty, before the first start
  LogName,      \* LogName[n]: the name n with .log appended
  Ns,           \* names of namespaces
  Request,      \* the requests clients send
  Asks,         \* Asks[c]: those that client c may send
  NoRequest,
  FdLimit,      \* descriptors the daemon may open besides its standard ones
  MaxRequests,  \* bound on the requests, over all clients
  MaxStarts     \* bound on the starts of a daemon

\* The requests of request_type, and one that is not among them.
RequestType == {"RUN_CONTAINER", "SEND_TRACE", "SEND_LOGS", "GET_CONFIGS", "unknown"}

ASSUME SessionAssumption ==
  /\ NoClient \notin Client /\ NoRequest \notin Request
  /\ IsFiniteSet(Ns)
  /\ Request \subseteq [type : RequestType, name : File, ns : SUBSET Ns]
  /\ Asks \in [Client -> SUBSET Request]
  /\ LogName \in [File -> File] /\ OldLog \subseteq File
  /\ Backlog \in Nat /\ FdLimit \in Nat /\ MaxRequests \in Nat /\ MaxStarts \in Nat

VARIABLES
  \* --- the daemon
  dpc,       \* off, accept, request, and in run_container open, lookup, clone
  cur,       \* client_socket: the client served
  job,       \* what run_container was asked for
  declared,  \* the namespaces in ns_pool
  active,    \* those of them that were created, and have their handle open
  fds,       \* descriptors in use, besides those open from start to end
  opened,    \* the logs opened by this daemon
  \* --- the clients
  phase,     \* phase[c]: new, open; shut or reset when the client has left
  in,        \* in[c]: the blocks sent by c and not received yet
  asked,     \* asked[c]: the requests of c
  answered,  \* answered[c]: the answers to c, by the number of the request
  \* --- what outlives the daemon
  launches,  \* the containers launched, in order
  text,      \* text[f]: the containers whose output is in log file f
  exists,    \* the log files there are
  starts

daemonVars == <<dpc, cur, job, declared, active, fds, opened>>
clientVars == <<phase, in, asked, answered>>
worldVars == <<launches, text, exists, starts>>
vars == <<daemonVars, clientVars, worldVars, traceVars, socketVars>>

Block == [id : Nat, part : 0..3, cut : BOOLEAN]
Launched == [name : File, ns : SUBSET Ns]
Answer == [id : Nat, text : SUBSET Nat]
Running == {"open", "lookup", "clone"}

DaemonTypeOK ==
  /\ dpc \in {"off", "accept", "request"} \cup Running
  /\ cur \in Client \cup {NoClient} /\ (cur = NoClient <=> dpc \in {"off", "accept"})
  /\ job \in Request \cup {NoRequest} /\ (dpc \in Running => job # NoRequest)
  /\ declared \in SUBSET Ns /\ active \in SUBSET declared
  /\ fds \in Nat /\ opened \in Nat
  /\ dpc = "clone" => job.ns \subseteq declared

ClientTypeOK ==
  /\ phase \in [Client -> {"new", "open", "shut", "reset"}]
  /\ in \in [Client -> Seq(Block)]
  /\ asked \in [Client -> Seq(Request)]
  /\ answered \in [Client -> Seq(Answer)]

WorldTypeOK ==
  /\ launches \in Seq(Launched)
  /\ text \in [File -> SUBSET (1..Len(launches))] /\ exists \in SUBSET File
  /\ starts \in 0..MaxStarts

SocketTypeOK == holders \subseteq 0..Len(launches) /\ queue \in Seq(Client)

TypeOK == TraceTypeOK /\ DaemonTypeOK /\ ClientTypeOK /\ WorldTypeOK /\ SocketTypeOK

Init ==
  /\ TraceInit /\ SocketInit
  /\ dpc = "off" /\ cur = NoClient /\ job = NoRequest
  /\ declared = {} /\ active = {} /\ fds = 0 /\ opened = 0
  /\ phase = [c \in Client |-> "new"]
  /\ in = [c \in Client |-> <<>>]
  /\ asked = [c \in Client |-> <<>>]
  /\ answered = [c \in Client |-> <<>>]
  /\ launches = <<>> /\ text = [f \in File |-> {}] /\ exists = OldLog /\ starts = 0

-----------------------------------------------------------------------------
(* The stream of a client *)

\* Plausible bug: send_logs looking for the log before it has read the name.
FieldCountNoName(t) ==
  CASE t = "RUN_CONTAINER" -> 3 [] t = "GET_CONFIGS" -> 2 [] OTHER -> 0

\* The fields the handler of a type reads.
FieldCount(t) ==
  CASE t = "RUN_CONTAINER" -> 3 [] t = "GET_CONFIGS" -> 2 [] t = "SEND_LOGS" -> 1 [] OTHER -> 0

\* The blocks of request number i, of type t, as the client sends them.
FieldsSent == [RUN_CONTAINER |-> 3, GET_CONFIGS |-> 2, SEND_LOGS |-> 1, SEND_TRACE |-> 0, unknown |-> 0]
Blocks(i, t) == [p \in 1..(FieldsSent[t] + 1) |-> [id |-> i, part |-> p - 1, cut |-> FALSE]]

\* The first n of them, when the client leaves within block n.
FirstBlocks(i, n) == [p \in 1..n |-> [id |-> i, part |-> p - 1, cut |-> p = n]]

\* The request whose type is next, if what is next is a type.
First(c) == asked[c][Head(in[c]).id]
TypeIs(c, t) == in[c] # <<>> /\ Head(in[c]).part = 0 /\ First(c).type = t

\* The handler's blocks are all there; or the stream ends within them.
Whole(c, n) == Len(in[c]) > n /\ \A i \in 1..(n + 1) : ~in[c][i].cut
CutShort(c, n) == \E i \in DOMAIN in[c] : i <= n + 1 /\ in[c][i].cut

\* They are received.  Nothing follows a block that was cut short.
Receive(c, n) ==
  in' = [in EXCEPT ![c] = IF CutShort(c, n) THEN <<>> ELSE SubSeq(@, n + 2, Len(@))]

\* Plausible bug: a handler that waits for its blocks also when the stream is over.
ServeWhole(c, t) ==
  /\ dpc = "request" /\ cur = c
  /\ TypeIs(c, t)
  /\ Whole(c, FieldCount(t))

\* The handler of type t runs.
Serve(c, t) ==
  /\ dpc = "request" /\ cur = c
  /\ TypeIs(c, t)
  /\ Whole(c, FieldCount(t)) \/ CutShort(c, FieldCount(t))

Cut(c, t) == CutShort(c, FieldCount(t))
Received(c, t) == Receive(c, FieldCount(t))

-----------------------------------------------------------------------------
(* The end of a daemon *)

\* Processes that end leave the sockets they hold; when it was the last holder
\* of the listening socket, the clients that wait are disconnected.
Leave(S) ==
  /\ holders' = HoldersAfter(S)
  /\ queue' = QueueAfter(holders')

\* An exception, main's return, or a signal: what the daemon knows is gone.
Forget ==
  /\ dpc' = "off" /\ cur' = NoClient /\ job' = NoRequest
  /\ declared' = {} /\ active' = {} /\ fds' = 0 /\ opened' = 0
  /\ TraceEnds

\* Whoever is no longer connected has no stream.
StreamsOf(Q, now) ==
  [c \in Client |-> IF c = now \/ \E i \in DOMAIN Q : Q[i] = c THEN in[c] ELSE <<>>]

End ==
  /\ Forget
  /\ Leave({0})
  /\ in' = StreamsOf(queue', NoClient)
  /\ UNCHANGED <<phase, asked, answered, worldVars>>

-----------------------------------------------------------------------------
(* Start and connections *)

Start ==
  /\ dpc = "off" /\ starts < MaxStarts
  /\ Bind
  /\ TraceBegins
  /\ dpc' = "accept" /\ starts' = starts + 1
  /\ UNCHANGED <<cur, job, declared, active, fds, opened, clientVars, launches, text, exists>>

\* Another daemon is started while one runs: it empties the trace, cannot bind
\* the port, and ends.
StartFails ==
  /\ dpc # "off" /\ starts < MaxStarts
  /\ Truncate
  /\ starts' = starts + 1
  /\ UNCHANGED <<daemonVars, clientVars, launches, text, exists, socketVars>>

\* accept needs a descriptor.
Accept ==
  /\ dpc = "accept" /\ fds < FdLimit
  /\ AcceptFirst
  /\ cur' = Head(queue)
  /\ dpc' = "request" /\ fds' = fds + 1
  /\ UNCHANGED <<job, declared, active, opened, clientVars, worldVars, traceVars, holders>>

\* accept(2) may report that the client broke the connection off already.
AcceptFails ==
  /\ dpc = "accept" /\ queue # <<>>
  /\ ~(fds < FdLimit /\ phase[Head(queue)] # "reset")
  /\ End

\* Plausible bug: reconnect without closing the old socket.
ReconnectKeepsSocket(c) ==
  /\ dpc = "request" /\ cur = c
  /\ in[c] = <<>> /\ phase[c] = "shut"
  /\ dpc' = "accept" /\ cur' = NoClient
  /\ UNCHANGED <<job, declared, active, fds, opened, clientVars, worldVars, traceVars, socketVars>>

\* Plausible bug: runtime without its else.
ReconnectNever(c) ==
  /\ dpc = "request" /\ cur = c
  /\ in[c] = <<>> /\ phase[c] = "shut"
  /\ UNCHANGED vars

\* get_request_type finds the end of the stream.
Reconnect(c) ==
  /\ dpc = "request" /\ cur = c
  /\ in[c] = <<>> /\ phase[c] = "shut"
  /\ dpc' = "accept" /\ cur' = NoClient /\ fds' = fds - 1
  /\ UNCHANGED <<job, declared, active, opened, clientVars, worldVars, traceVars, socketVars>>

\* The client broke the connection off instead of closing it: recv throws.
ConnectionReset(c) ==
  /\ dpc = "request" /\ cur = c
  /\ in[c] = <<>> /\ phase[c] = "reset"
  /\ End

-----------------------------------------------------------------------------
(* The handlers *)

\* Plausible bug: answers sent to the client that connected last.
AnsweredToLast(c, id, t) ==
  answered' = [answered EXCEPT ![IF queue = <<>> THEN c ELSE queue[Len(queue)]] =
                 Append(@, [id |-> id, text |-> t])]

Answered(c, id, t) == answered' = [answered EXCEPT ![c] = Append(@, [id |-> id, text |-> t])]

\* Plausible bug: the rest of the trace only sent when there is any.
SendTraceNotEmpty(c) ==
  /\ Serve(c, "SEND_TRACE")
  /\ Received(c, "SEND_TRACE")
  /\ IF phase[c] = "open" /\ Unread # {}
       THEN Answered(c, Head(in[c]).id, {}) /\ TraceSent
       ELSE UNCHANGED answered /\ TraceSwallowed
  /\ UNCHANGED <<daemonVars, phase, asked, worldVars, socketVars>>

\* What is sent to a client that has left is lost, or kills the daemon
\* (HandlerFails).  SEND_TRACE logs nothing.
SendTrace(c) ==
  /\ Serve(c, "SEND_TRACE")
  /\ Received(c, "SEND_TRACE")
  /\ IF phase[c] = "open"
       THEN Answered(c, Head(in[c]).id, {}) /\ TraceSent
       ELSE UNCHANGED answered /\ TraceSwallowed
  /\ UNCHANGED <<daemonVars, phase, asked, worldVars, socketVars>>

\* The name is a C string without an end: more characters may follow it, and
\* then there is no such file.  A name cut short names another file, or none.
LogFound(c) ==
  /\ ~Cut(c, "SEND_LOGS")
  /\ LogName[First(c).name] \in exists
  /\ fds < FdLimit

\* Plausible bug: .log added to the name that is opened, and not to what is read.
LogTextOfName(c) == text[First(c).name]

LogText(c) == text[LogName[First(c).name]]

SendLogs(c) ==
  /\ Serve(c, "SEND_LOGS")
  /\ Received(c, "SEND_LOGS")
  /\ \/ LogFound(c) /\ phase[c] = "open"
          /\ Answered(c, Head(in[c]).id, LogText(c))
     \/ UNCHANGED answered
  /\ LogMessage
  /\ UNCHANGED <<daemonVars, phase, asked, worldVars, socketVars>>

\* The namespaces a received file declares: all, or those before the cut.
GetConfigs(c) ==
  /\ Serve(c, "GET_CONFIGS")
  /\ fds < FdLimit
  /\ Received(c, "GET_CONFIGS")
  /\ \E S \in SUBSET First(c).ns :
       /\ ~Cut(c, "GET_CONFIGS") => S = First(c).ns
       /\ declared' = declared \cup S
  /\ LogMessage
  /\ UNCHANGED <<dpc, cur, job, active, fds, opened, phase, asked, answered, worldVars, socketVars>>

Unrecognized(c) ==
  /\ Serve(c, "unknown")
  /\ Received(c, "unknown")
  /\ LogMessage
  /\ UNCHANGED <<daemonVars, phase, asked, answered, worldVars, socketVars>>

\* Sizes that were not received, a file that is cut or bad, a file that cannot
\* be saved, an answer to a client that has left: the handler ends the daemon.
\* SEND_TRACE and SEND_LOGS do so only when the client has left.
HandlerFails(c) ==
  /\ \/ Serve(c, "RUN_CONTAINER") \/ Serve(c, "GET_CONFIGS")
     \/ \E t \in {"SEND_TRACE", "SEND_LOGS"} : Serve(c, t) /\ phase[c] # "open"
  /\ End

\* The binary and the configuration are received and parsed.  A configuration
\* cut within its last value is parsed like a whole one.
ReceiveRun(c) ==
  /\ Serve(c, "RUN_CONTAINER")
  /\ fds < FdLimit
  /\ ~Whole(c, 3) => Whole(c, 2) /\ CutShort(c, 3)
  /\ Received(c, "RUN_CONTAINER")
  /\ job' = First(c)
  /\ dpc' = "open"
  /\ LogMessage
  /\ UNCHANGED <<cur, declared, active, fds, opened, phase, asked, answered, worldVars, socketVars>>

\* The log is emptied before the namespaces are looked up.  Its descriptor is
\* not closed again.
OpenLog ==
  /\ dpc = "open" /\ fds < FdLimit
  /\ text' = [text EXCEPT ![job.name] = {}] /\ exists' = exists \cup {job.name}
  /\ dpc' = "lookup" /\ fds' = fds + 1 /\ opened' = opened + 1
  /\ UNCHANGED <<cur, job, declared, active, clientVars, launches, starts, traceVars, socketVars>>

\* Plausible bug: the namespaces marked active when they are looked up.
LookUpActivates ==
  /\ dpc = "lookup" /\ job.ns \subseteq declared
  /\ dpc' = "clone" /\ active' = active \cup job.ns
  /\ UNCHANGED <<cur, job, declared, fds, opened, clientVars, worldVars, traceVars, socketVars>>

\* Plausible bug: the names looked up, and launched with whether found or not.
LookUpUnchecked ==
  /\ dpc = "lookup"
  /\ dpc' = "clone"
  /\ UNCHANGED <<cur, job, declared, active, fds, opened, clientVars, worldVars, traceVars, socketVars>>

LookUp ==
  /\ dpc = "lookup" /\ job.ns \subseteq declared
  /\ dpc' = "clone"
  /\ UNCHANGED <<cur, job, declared, active, fds, opened, clientVars, worldVars, traceVars, socketVars>>

Child == Len(launches) + 1

\* The child inherits every descriptor.  A handle is opened for each of the
\* new namespaces.
Clone ==
  /\ dpc = "clone"
  /\ fds + Cardinality(job.ns \ active) <= FdLimit
  /\ launches' = Append(launches, [name |-> job.name, ns |-> job.ns])
  /\ holders' = holders \cup {Child}
  /\ active' = active \cup job.ns
  /\ fds' = fds + Cardinality(job.ns \ active)
  /\ dpc' = "request" /\ job' = NoRequest
  /\ UNCHANGED <<cur, declared, opened, clientVars, text, exists, starts, traceVars, queue>>

\* The launch fails after the clone: the daemon ends, the child goes on.
CloneThenEnd ==
  /\ dpc = "clone"
  /\ Forget
  /\ launches' = Append(launches, [name |-> job.name, ns |-> job.ns])
  /\ holders' = (holders \cup {Child}) \ {0}
  /\ in' = StreamsOf(queue, NoClient)
  /\ UNCHANGED <<phase, asked, answered, text, exists, starts, queue>>

\* The log cannot be opened, a namespace is not declared, or clone fails.
RunFails ==
  /\ dpc \in {"open", "clone"} \/ (dpc = "lookup" /\ ~(job.ns \subseteq declared))
  /\ End

\* A signal ends the daemon at any time.
Kill == dpc # "off" /\ End

-----------------------------------------------------------------------------
(* Clients and containers *)

Connected(c) == phase[c] = "open" /\ (cur = c \/ \E i \in DOMAIN queue : queue[i] = c)

Connect(c) ==
  /\ phase[c] = "new"
  /\ QueueClient(c)
  /\ phase' = [phase EXCEPT ![c] = "open"]
  /\ UNCHANGED <<daemonVars, in, asked, answered, worldVars, traceVars, holders>>

RequestsMade == FoldFunction(LAMBDA q, n : Len(q) + n, 0, asked)

\* The client sends request r, all of it or its first n blocks, the last of
\* them cut, perhaps to nothing.
Sends(c, r, blocks) ==
  /\ Connected(c) /\ RequestsMade < MaxRequests
  /\ asked' = [asked EXCEPT ![c] = Append(@, r)]
  /\ in' = [in EXCEPT ![c] = @ \o blocks]
  /\ UNCHANGED <<daemonVars, answered, worldVars, traceVars, socketVars>>

Send(c, r) == Sends(c, r, Blocks(Len(asked[c]) + 1, r.type)) /\ UNCHANGED phase

\* The type is never cut: its first byte is the type.
SendCut(c, r, n) ==
  /\ n \in 2..(FieldsSent[r.type] + 1)
  /\ Sends(c, r, FirstBlocks(Len(asked[c]) + 1, n))
  /\ phase' = [phase EXCEPT ![c] = "shut"]

Close(c) ==
  /\ Connected(c)
  /\ \E p \in {"shut", "reset"} : phase' = [phase EXCEPT ![c] = p]
  /\ UNCHANGED <<daemonVars, in, asked, answered, worldVars, traceVars, socketVars>>

Living == holders \ {0}

\* A container writes into the file it was given when it was launched.
Write(k) ==
  /\ k \in Living
  /\ text' = [text EXCEPT ![launches[k].name] = @ \cup {k}]
  /\ UNCHANGED <<daemonVars, clientVars, launches, exists, starts, traceVars, socketVars>>

Exit(k) ==
  /\ k \in Living
  /\ Leave({k})
  /\ in' = StreamsOf(queue', cur)
  /\ UNCHANGED <<daemonVars, phase, asked, answered, worldVars, traceVars>>

-----------------------------------------------------------------------------
Handler(c) ==
  \/ SendTrace(c) \/ SendLogs(c) \/ GetConfigs(c) \/ Unrecognized(c) \/ ReceiveRun(c)
  \/ HandlerFails(c) \/ Reconnect(c) \/ ConnectionReset(c)

RunStep == OpenLog \/ LookUp \/ Clone \/ CloneThenEnd \/ RunFails

DaemonStep == Accept \/ AcceptFails \/ RunStep \/ \E c \in Client : Handler(c)

ClientStep(c) ==
  \/ Connect(c) \/ Close(c)
  \/ \E r \in Asks[c] : Send(c, r) \/ \E n \in 2..4 : SendCut(c, r, n)

Next ==
  \/ DaemonStep \/ Start \/ StartFails \/ Kill
  \/ \E c \in Client : ClientStep(c)
  \/ \E k \in Living : Write(k) \/ Exit(k)

\* The daemon runs.  Nobody has to start it, connect, send or leave.
Safety == Init /\ [][Next]_vars
Spec == Safety /\ WF_vars(DaemonStep)

-----------------------------------------------------------------------------
(* Properties *)

\* What is received as a request type is one: no block of a request is left on
\* the connection when its handler is done, also when the handler returns early
\* or the request is cut (daemon.cpp:41, 58, 79).
InStep ==
  dpc \in {"request"} \cup Running /\ in[cur] # <<>> => Head(in[cur]).part = 0

\* A client is answered its own requests only, in the order it sent them, none
\* twice; and a trace that was asked for and is not on its way to the daemon any
\* more was sent, as long as the client is there.  A missing log has no answer.
AnswersOwn ==
  \A c \in Client :
    /\ \A i, j \in DOMAIN answered[c] : i < j => answered[c][i].id < answered[c][j].id
    /\ \A i \in DOMAIN answered[c] :
         /\ answered[c][i].id \in DOMAIN asked[c]
         /\ asked[c][answered[c][i].id].type \in {"SEND_TRACE", "SEND_LOGS"}
    /\ cur = c /\ phase[c] = "open" =>
         \A i \in DOMAIN asked[c] : asked[c][i].type = "SEND_TRACE" =>
           \/ \E b \in DOMAIN in[c] : in[c][b].id = i
           \/ \E a \in DOMAIN answered[c] : answered[c][a].id = i

\* What the daemon answers for the log of n is output of containers named n.log,
\* whichever daemon launched them, and of no others: send_logs looks up the name
\* with .log added, and run_container creates it without (daemon.cpp:76, 242).
LogsFromNamesakes ==
  \A c \in Client : \A i \in DOMAIN answered[c] :
    \A k \in answered[c][i].text :
      launches[k].name = LogName[asked[c][answered[c][i].id].name]

\* While a daemon runs, the namespaces of every container alive are in its pool,
\* active: it never creates a second namespace for a name that a container of an
\* earlier daemon still lives in.  That is so because the port is taken as long
\* as such a container lives (daemon_socket.cpp:16).
LivingAreKnown == dpc # "off" => \A k \in Living : launches[k].ns \subseteq active

Outcome == INSTANCE LaunchOutcome WITH
  running <- dpc # "off",
  group <- [k \in 1..Len(launches) |-> launches[k].ns],
  alive <- Living

\* Over all daemons, what happens to namespaces and containers is what
\* LaunchOutcome says: a namespace becomes active by a launch that succeeds, and a
\* daemon starts with no container alive.
OutcomeSpec == Outcome!Spec

\* What the session makes of a configuration in one step is what ConfigOutcome says,
\* over all daemons: what was declared stays as long as the daemon runs, and what
\* containers have for namespaces is among it.
Declarable == UNION {SUBSET r.ns : r \in Request}
Loaded == INSTANCE ConfigOutcome WITH
  running <- dpc # "off",
  used <- active
ConfigSpec == Loaded!Spec

\* Every descriptor is the client's, a log's or a namespace's; none is lost when
\* clients come and go, and the daemon never goes on without one it needs.
DescriptorsAccounted ==
  /\ fds = opened + Cardinality(active) + (IF cur = NoClient THEN 0 ELSE 1)
  /\ fds <= FdLimit

\* A client that stays gets the trace it asked for, as long as it is served.
Unanswered(i) ==
  /\ cur # NoClient /\ phase[cur] = "open"
  /\ i \in DOMAIN asked[cur] /\ asked[cur][i].type = "SEND_TRACE"
  /\ \A a \in DOMAIN answered[cur] : answered[cur][a].id # i

AnswerComes == \A i \in 1..MaxRequests : Unanswered(i) ~> ~Unanswered(i)

\* Once the client that is served has left, the next one is served, or the
\* daemon ends.
FirstWaits(c) ==
  /\ dpc # "off" /\ queue # <<>> /\ Head(queue) = c
  /\ cur = NoClient \/ phase[cur] # "open"

NextServed == \A c \in Client : FirstWaits(c) ~> (cur = c \/ dpc = "off")

\* There is something for the daemon to do: a launch under way, a client that
\* waits, something sent by the one that is served, or that this one has left.
HasWork ==
  \/ dpc \in Running
  \/ dpc = "accept" /\ queue # <<>>
  \/ dpc = "request" /\ (in[cur] # <<>> \/ phase[cur] # "open")

\* Then the daemon can do it.  Between two requests it waits, for a client or for
\* the one it serves; within a request never, wherever the client broke it off,
\* and whatever it has run out of (daemon.cpp:41, 106, 569).
NeverStuck == HasWork => ENABLED <<DaemonStep>>_vars
=============================================================================
