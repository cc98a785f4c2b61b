# Jokerd in TLA+

Jokerd is a container daemon: it takes requests over TCP, from one client at a
time, keeps a registry of namespaces and cgroups, and launches programs in
them. This directory holds TLA+ models of its core, the TLC configurations that
check them, and proofs that TLAPS checks. Paths below are relative to
`src/jocker-server/`.

## The system

| Component | State | Operations | Modelled in |
|---|---|---|---|
| Container launch (`container/`) | the container being launched; the child's copy of its namespace group | `prepare_flags`, `perform_clone`, `add_child`, `init_namespaces`; in the child `child_init_ns`, `execvp` | `Launch` |
| Namespace objects (`ns/ns_types/`) | `active`, `m_fd`, `m_processes_inside` of each | `set_fd`, `add_pid`, `set_active`, `external_setup_ns`, `internal_setup_ns`, `init_internal` | `Launch` |
| Registry (`ns/ns_pool.cpp`, `ns_group`, `ns_options`) | a vector of namespace objects per type | `declare_ns`, `get_ns`, `get_ns_group` | `ConfigLoader` |
| Configurations (`execution/daemon.cpp` 173-218, 300-563, `ns/ns_options/`) | templates per type | `get_configs`, `parse_*`, `add_config`, `find_config` | `ConfigLoader` |
| Cgroups (`cgroup/`) | the set of known names; the two kernel hierarchies | constructor, `init_cgroup`, `add_child` | `CgroupManager` |
| Session (`main.cpp`, `execution/daemon.cpp`) | the client's socket, the current request; descriptors | start, dispatch, the four handlers, `run_container`, `reconnect`, every end of the daemon | `Session` |
| Transport (`other/common.cpp`) | none | `recv_all`, `send_all`, `syscall_wrapper` | `Transport` |
| Server socket (`execution/daemon_socket.cpp`) | the listening socket, the clients that wait | `bind`, `listen`, `accept` | `ServerSocket`, composed by `Session` |
| Daemon log | the trace file, its writer and its reader | `log_message`, `send_trace` | `TraceLog`, composed by `Session` |
| Container logs | one file per container name, its descriptor in the child | the open in `run_container`, `send_logs` | `Session` |
| Parser (`parser/`), container cluster, documents | | not part of the server's build, or empty | no |

The daemon is one thread. A request is served to its end, including the sleep
after a launch, before the next is read. Concurrency is between the daemon and
the children it cloned: they share no memory (clone(2) without `CLONE_VM`), only
what the kernel keeps for them. Any exception ends the daemon (`main.cpp`);
children live on, and so do cgroups, mounts and files, so the next daemon
starts in a world the last one left.

What is hard here, and what makes each part correct:

* *Launch*: daemon and child are ordered by two `sleep`s only. Whatever the
  interleaving and whichever call fails, a declared namespace must be created
  once, its handle and maps must be those of its creator, it may count as
  active only when complete, and no program may start in a half-made
  namespace. Every launch must end.
* *Registry*: duplicate names are accepted, files fail in the middle. A name
  must mean one object for all containers that ever ask for it.
* *Cgroups*: every start repeats the setup over what is there; a start, or the
  creation of a cgroup, may be cut between any two calls.
* *Transport*: `recv` and `send` move any number of bytes, the callers take a
  block to be whole, and what `recv_all` returns is ignored. A block that is not
  whole must be the last, and a failed `send` must not shift what is sent.
* *Session*: requests follow each other on a stream without a frame, and a
  handler may return early. What is read as a type must be one, answers must go
  to the client that asked, in order, and a client that leaves at any point
  must make room for the next.
* *Logs*: the trace is read by a second stream while it is written, and emptied
  by any other start; the log of a container is looked up under a name other
  than the one it is created with.
* *Restarts*: children outlive the daemon and the registry does not. Only the
  port, which the children keep, prevents a daemon beside containers whose
  namespaces it does not know.

## The modules

`NsTypes` is the enumeration `ns_type`, whose order is the order of every loop.

`Launch` models a launch call by call. `dpc` is the place of the daemon in
`run_container`: `RunContainer` (receive, save the binary, look up the group,
clone), `AddToTasks` and `AddToProcs` (the two writes of
`add_child_to_cgroup`), `AddPids`, `OpenHandle` once per new entry in type
order, `HandlesDone`, `WriteMap` for `uid_map`, `setgroups` and `gid_map`,
`Activate`, `WakeUp`. `cpc[c]` is the place of a child in `child_function`:
`ChildWakes`, one `Setup` action per type that acts in `internal_setup_ns`,
`SetUid`, `SetGid` and `InitMount` of `init_internal`, `Exec`. Each call that may
fail has its failure: `DaemonFails` and `HandleMissing` end the daemon,
`ChildFails` ends the child. `new[c]` are the entries inactive when `c` was
cloned: the namespaces `c` created, and what its copies of the objects say. The
kernel is modelled by what the code needs of it: an id map is written once and
only for a process in a user namespace of its own, a namespace without maps
refuses `setuid(0)`, a `/proc` mounted in the daemon's own mount namespace
changes what the daemon's paths mean, a file being executed cannot be opened
for writing. Redirecting output to the log is left out.

`NsLifecycle` is what launches promise about one namespace: declared, created
by one process, open, active, in this order and never back. `Launch` implements
it (`LifecycleSpec`).

`LaunchOutcome` is what a launch comes to for everyone outside it: the container
is there and all its namespaces are active, at once; or it is there and the
daemon is gone; or it is not there. It is the joint between `Launch` and
`Session`: both implement it (`OutcomeSpec`), `Launch` with the containers whose
launch is over (`Settled`), `Session` over any number of daemons, clients and
requests. So what `Session` makes of a launch in one step is no more than what
`Launch` shows of its calls. It also says that a daemon starts only when no
container is alive, which in `Session` the port sees to.

`ConfigLoader` reads a configuration block by block. A block is the record of
what its lines say, or `bad`. `pool[t]` is a vector of `ns_pool`, `FirstOf` the
search of `get_ns`; `Found` is what `find_config` may return, given that
`compare_id` has no return for different ids. `GetNsGroup` resolves a
container's names, in the order of the types, and ends the daemon at a name
that nobody declared. `wanted` (the template a declaration asked for) and
`served` (what containers were given) record history for the properties.

`NamePool` is a write-once map from types and names to objects; `ConfigLoader`
implements it (`WriteOnce`).

`ConfigOutcome` is what a configuration comes to for the containers launched after
it: all it declares is there, at once and as long as the daemon runs, or the daemon
is gone. It is the joint between `ConfigLoader` and `Session`, and both implement it
(`ConfigSpec`). `ConfigLoader` reads a file block by block, may end at any of them,
and does not undo anything; a file counts as loaded from its first block on, since
no container is served before its last. So `Session` may take a configuration in
one step.

`CgroupManager` keeps the daemon's state and the kernel's apart. `Start`
forgets the first and keeps the second. `Fail` (a call that throws) and `Kill`
end it anywhere. `SetLimit` goes through the eight files in the order of the
four `set_` functions. The files of the first hierarchy exist only once it is
mounted, which is what makes a missing mount show. `accepted` records the
declaration with which a name entered `cgroups`.

`Transport` is one connection, one system call per step. Byte `k` of a direction
is the number `k`, so that a gap, a repetition or a shift shows. `ReceivePiece`
is a `recv` of any length, `ReceiveEnd` one that returns 0, `ReceiveError` one
that `syscall_wrapper` turns into an exception; `SendPiece` a `send` of any
length, `SendError` the -1 that the loop adds to its counters, `SendKilled` the
SIGPIPE that follows it. `peer` is what the daemon's kernel knows of the client.

`BlockTransfer` is what the handlers take for granted: blocks received whole until
the connection is over, and sent whole. `Transport` implements it (`BlockSpec`).

`Session` is the daemon of all requests, and composes two parts. `TraceLog` is
the trace: the places of the writer and the reader, and what another start does
to the file below them. `ServerSocket` is the listening socket: who has it open,
and who waits. The parts hold state and pieces of actions, and each action of
`Session` names the piece it takes. `in[c]` is the stream of a client, as blocks
with the request they belong to; a client may leave between requests (`Close`) or
within one (`SendCut`). A handler is `Serve` (its blocks are there, or the stream
ends within them), `Received` (they are taken off the stream) and what it does:
`SendTrace`, `SendLogs`, `GetConfigs`, `Unrecognized`, `ReceiveRun`, or
`HandlerFails`. It takes all its blocks in one step: that is what `BlockTransfer`
promises, and nobody else reads the connection or sees what the handler knows.
`run_container` is four steps, `ReceiveRun`, `OpenLog`, `LookUp` and `Clone`, for
its effects on files, descriptors and processes can be told apart; `CloneThenEnd`
is a launch that fails after the child exists. What happens between the clone and
the end of the launch is `Launch`, and what a configuration declares is
`ConfigLoader`: here they are their outcomes, `LaunchOutcome` and `ConfigOutcome`.
`End` is every way the daemon ends:
an exception, a signal at any time (`Kill`), a client that broke its connection
off. `Start` is a daemon that finds the port free, `StartFails` one that does not.
Containers write (`Write`) and end (`Exit`) at any time.

`MCLaunch`, `MCConfigLoader`, `MCCgroupManager`, `MCTransport` and `MCSession`
give the constants small values; `LaunchProofs`, `LaunchLiveness`, `OutcomeProofs`,
`ConfigProofs`, `CgroupProofs`, `TransportProofs`, `SessionProofs` and
`SessionLiveness` hold the theorems.

Each module has a section of plausible bugs: changed forms of its definitions,
used by no behaviour, each of which breaks one property when it replaces the
definition it is made from.

## The runs

| Run | Shows |
|---|---|
| `launch` | two launches over a pool of namespaces, every interleaving, every failure: `CreatedOnce`, `FirstPidIsCreator`, `HandleNamesCreator`, `MapsBeforeProgram`, `ActiveIsComplete`, `ConfinedOrLaunching`, `IsolatedRoot`, the refinements of `NsLifecycle` and `LaunchOutcome`, that launches and children end, and that neither side ever waits for the other (`NeverStuck`) |
| `config` | three configurations of at most two blocks, containers served between them: `NameMeansObject`, the refinements of `NamePool` and `ConfigOutcome` |
| `cgroups` | three starts, two cgroups, eight limits: `MountedAtMostOnce`, `KnownIsLimited`, `LimitsStable`, `AddedToBoth` |
| `transport` | blocks of up to three bytes both ways, every split, every way and moment for the client to leave: `ReceivedInOrder`, `ShortOnlyAtEnd`, `WireIsAnswer`, `StepsBackOnce`, the refinement of `BlockTransfer`, that a receive and a failed send end, and that neither waits for a client that has left (`NeverStuck`) |
| `session` | two clients, three requests, two starts, requests cut in every block, daemons killed at every step: `InStep`, `TraceExact`, `AnswersOwn`, `LogsFromNamesakes`, `LivingAreKnown`, `DescriptorsAccounted`, the refinements of `LaunchOutcome` and `ConfigOutcome`, that the daemon never stands still while it has something to do (`NeverStuck`), and that a trace is answered and the next client served |

The types are an invariant of `launch` and `session`; of all five machines they are a
theorem (`TypeCorrect`).

Seven runs end in a counterexample. Each checks a sentence of the repository
that the code does not keep:

| Run | Sentence | What happens |
|---|---|---|
| `join` | `docs/Container.md:18,42`: containers join existing namespaces | `prepare_flags` drops the flag and nothing calls `setns`: the second container runs in the daemon's namespace |
| `proc_mount` | `ns/ns_types/pid_ns.cpp:17`: /proc is mounted after the mount namespace is set up | with a PID but no mount namespace it is mounted over the daemon's |
| `unconfined` | `docs/Container.md:17`: a program is put inside its cgroups | the write fails, the daemon ends, the child starts its program all the same |
| `stale_binary` | `execution/daemon.cpp:152,162`: an existing file is rewritten | not one that is being executed; the failure is not noticed |
| `template` | `execution/daemon.cpp:292`: a namespace is created by its template | `compare_id` without a return may accept another |
| `unmounted` | `cgroup/cgroup_manager.cpp:7`: the controllers are mounted | not after a start that was cut between `mkdir` and `mount` |
| `left_limits` | `execution/daemon.cpp:294`: a cgroup is created with the received limits | one left by an earlier daemon keeps limits that are not given now |

### Bounds, and why they are enough

* Launches are sequential, so a third adds no new overlap on the daemon's side:
  two give a creator and a joiner, a failed and a later launch, and two living
  children. The groups of `MCLaunch` contain the types whose objects act. The
  proofs hold for any number.
* Two names, two template ids and two blocks give duplicates in a file and
  across files, a shadowed name, a missing template, and a failure after
  a successful block.
* Three starts allow two interrupted ones before a start that works. The four
  declarations of `MCCgroupManager` differ in which limits they give and in one
  value. `MaxStarts` and `MaxConfig` bound the runs; the theorems hold for all
  their values.

* A block of three bytes has a first, a middle and a last piece; five bytes per
  direction give a second block that starts where the first one ended, whole or
  cut.
* In `session`, the first client launches containers, one of which needs a
  namespace, declares the namespace and reads a log; the second asks for the
  trace or sends an unknown request, so that two clients share the trace. Three
  requests are a declaration, a launch that uses it, and one that reads or
  launches again. Two starts are a daemon and its successor, or one beside it.
  `FdLimit` is 3: the client, a log and a handle use them up, so `accept`,
  opening a log and cloning all meet the limit. One log file is there from an
  earlier time. `MaxRequests`, `MaxStarts` and `FdLimit` bound the run only; the
  theorems hold for all their values.

### Fairness

In `Launch`, the daemon's next step is weakly fair as long as one
is possible, for it is one thread that waits for nobody inside a launch, and so
is each child's. New requests, failures, and the end of a program are not fair:
they need never happen. The daemon's step includes ending by a missing handle
or a map it may not write, since then that is what the call does.

In `Transport`, the steps of a receive and of a send are weakly fair: a `recv`
that can return does. That `send` takes bytes is not, for it depends on a client
that reads; a send to a client that broke off ends without it.

In `Session`, the daemon's step is weakly fair. It waits for nobody but the client
it serves, and then has no step. Nobody has to connect, send, leave, start a
daemon, kill it, or end a container.

In all runs deadlock checking is off: a daemon that has ended, or has used up
its bounded requests, does nothing more.

## The proofs

All theorems hold for any values of the constants that satisfy the assumption
of the module (`LaunchAssumption`, `ConfigAssumption`, `CgroupAssumption`,
`TransportAssumption`, `SessionAssumption`). They say no more than what the constants mean: `None` is no container, an
`ns_group` has one slot per type, the blocks are blocks.

*LaunchProofs.* `TypeCorrect`, then `IInv`. None of the safety properties is
inductive alone: that a handle names its creator depends on who was recorded in
the entry, on which entries this launch found inactive, and on the place in
`init_namespaces`. `IInv` states that the daemon is in one launch and all
earlier ones are finished (so everything created before is active), what the
current launch has recorded, opened and written at each `dpc`, and what a child
at each `cpc` has behind it: a child past `SetGid` has had its maps written,
because the kernel refuses the call before; a child past `InitMount` has
pivoted. The lemmas take the two halves, pool and children, apart: a step of
one side leaves the invariant of the other alone. From `IInv` follow
`NamespacesCreatedOnce`, `MapsGoToCreator`, `HandlesCorrect`, `ActiveCorrect`,
`ProgramHasMaps`, `ProgramConfined` and `ProgramIsolated`, and
`ImplementsLifecycle`: every step is a step of `NsLifecycle` or leaves phases
and creators as they are. `ImplementsOutcome`: `Activate` is success, a
failure before the clone the end of the daemon, any later one, of a handle or a
map too, a launch abandoned; every other step of the daemon, and of a child whose
launch is not over, is a stutter. `IInv` gives that the container under way is
there and not settled.

*OutcomeProofs.* Of `LaunchOutcome` alone: whatever is alive was launched
(`OnlyLaunchedAlive`), and a daemon knows the namespaces of every container alive
(`DaemonKnowsNamespaces`). `LaunchedKnown` in `LaunchProofs` carries the second
over to `Launch` by the refinement, without another look at a step of it.

*LaunchLiveness.* `LaunchesEnd` and `ChildrenSettle`: what has begun ends. The
measure of a launch is the place in `run_container`, with the type of the next
handle to open for the loop over the types (`DaemonWithin`); that of a child is
its place in `child_function` with the types of the namespaces it has to set up
(`ChildWithin`). A step of one's own lessens it and no step of the other side
makes it greater; `LoopInv` says that a loop has one namespace of a type at most to
handle, and none but those it has work for.

Liveness needs that a step is possible wherever one is due, and the prover does not
know ENABLED. What the code has to do with that is proved: at every place of a launch
and of a child some guard of the next step holds (`NeverWaits`). A handle that is not
there and a map that may not be written have a way on too; `UserInv` (who is
in the middle of the work for a user namespace has one) and `FirstExists` (a loop that has something left has a
first one) are what it needs. The one hypothesis left is `[]GuardsEnable`: where a
guard holds, its action is enabled. It can be read off the actions, each of which says
what every variable becomes, it says nothing of where a step leads, and TLC checks what
follows from it, `NeverStuck` (`NobodyStuck`), in `launch`. `LaunchesEnd` and
`ChildrenSettle` rest on it and on the fairness. `TransportProofs` and `SessionLiveness`
do the same.

*ConfigProofs.* `IInv` adds to the types that an object is in one place of one
vector, that a name some object has is found by the search, and that what was
served resolves to the same object still. `DeclareEffect` is the core: an append
never changes what a bound name resolves to. `NamesCorrect` and
`ImplementsNamePool` follow; declaring a bound name again is a stuttering step
of `NamePool`. `ImplementsOutcome`: what is declared for `ConfigOutcome` is what the
search finds and what the rest of the file still declares. Reading a block moves a
namespace from the second to the first (`ReadIsStutter`, `DeclareGrows`), so only a
file's arrival, a container and the end of the daemon show.

*CgroupProofs.* `KnownIsLimited` needs to know how far `init_cgroup` has come
with a name that is not known yet (`CreateInv`: it has written exactly the given
limits before `next`), `MountedAtMostOnce` that the mount comes between the
`mkdir` that creates the directory and anything that sees it exist. From these,
`MountsOnce`, `KnownCgroupsLimited`, `LimitsKept`, `ChildrenAddedToBoth`.

*TransportProofs.* `ReceivedInOrder` needs that what the kernel has given out is
what callers were given and what the current call has read, and that `size` and
`total_bytes_read` always add up to what was asked (`StreamInv`); after a short
call, that nothing can come any more. `WireIsAnswer` needs the length of what was
sent (`AnswerInv`): it agrees with the counters except after the -1, and then
there is no connection left on which the difference could show. From these,
`BlocksInOrder`, `ShortIsLast`, `AnswersInOrder`, `OneStepBack`, and
`ImplementsBlocks`. `NobodyStuck`: a `recv` that has bytes to give, or an end to
report, and a `send` to a client that is gone, have a step, from `[]GuardsEnable`.
`SendsEnd` is `SendEnds`: a send to a client that broke off has a failure and the
signal before it, in this order. For a receive the number of calls depends on `MaxSize`:
`RecvGoesOn` leads from `n + 1` calls left to `n` for every `n`, `RecvBounded` gives
the bound at the start and that zero is never reached while it runs.

*SessionProofs.* There is one strengthening for each concern, so that a step is
looked at for one of them at a time. `StreamInv`: a stream is a sequence of whole
requests in order, beginning with a type, and only its last block can be cut;
each handler takes off exactly one request. `TypesAreTypes`, `TypeCorrect` and
`Descriptors` follow. `TraceInv`: what was sent lies before the reader's place,
so what is sent next is later; `SessionTraces` shows that every step of the
session does one thing of `TraceLog`, and `TraceSentOnce` is proved of those
alone. `PortInv`: the daemon holds the port as long as it runs, so a start finds
no container alive (`LivingKnown`). `AnswerInv`: what was answered precedes what
is still on the stream, for every client, the ones that wait included
(`OwnAnswers`). `LogInv`: a log file holds output of containers of its name only,
and the answers given stay so while the files change (`Namesakes`). `ImplementsOutcome`
uses `PortInv` for the start and that a daemon that is off has nothing active;
`ImplementsConfig` uses that a launch is looked up before it is cloned and that nothing
is declared in between.

Two action properties are what the liveness of the session rests on. `AnswerNearer`: as
long as a trace is asked for and not answered, its block is on the stream, and the
number of steps before it (four for each block ahead, and those of a launch under
way) never grows and shrinks with every step of the daemon; `NextNearer` says the same
of the client that waits first, once the one that is served has left. The first
needs that a handler takes exactly its request off the stream (`StreamInv`), the second that the
queue lives as long as the daemon (`PortInv`) and that who is served does not
connect again (`ConnectedInv`). `AnswerBounded` and `NextBounded` give the bounds: both waits
are over after a number of steps of the daemon that is fixed when they begin,
whatever the others do.

*SessionLiveness.* `NobodyStuck`: the daemon has a step wherever it has something to
do. What is next on a stream is the type of a request, and all its blocks are
there or it is cut (`RequestIsThere`, from `StreamInv`), so that a handler has what it
reads; a missing descriptor, a missing namespace and a client that is gone all have
a way on (`NeverWaits`). From this and the two action properties, `AnswerGoesOn` and
`NextGoesOn` lead from `n + 1` steps left to `n`, or to the end of the wait, for
every `n`, under the fairness of the daemon.

Model-checked only: `RecvEnds`, `AnswerComes` and `NextServed`. Their number of steps
depends on the constants or the state, so that they need an induction over a formula
with a leads-to in it, which the language of the prover does not admit. Each
step of the induction is proved (`RecvGoesOn`, `AnswerGoesOn`, `NextGoesOn`), and so
is its bound at the start and that zero is never reached before the end (`RecvBounded`,
`AnswerBounded`, `NextBounded`). `GuardsEnable` has ENABLED in it and is assumed where a
theorem names it. The seven counterexamples are TLC's too.

## What is not modelled

* A negative namespace type in a configuration: it indexes before a vector, and
  memory outside the vectors has no state here. A search that dereferences
  `end()` ends the daemon in the model.
* The destructors of `ns` and `mnt_ns`: they run when the daemon ends.
* A reboot, which resets everything, and process numbers used again.
* Parsing of single lines: a line that `parse_variable` or `stoi` rejects makes
  its block bad.
* `delete_ns`, `exists_ns`, `child_remount_cgroup` and the command-line parser:
  nothing calls them.
* A client that does not read: `send` then blocks, and the daemon with it, until
  the client reads or leaves; nothing in the code limits that wait. In `Session`
  an answer to a client that is there is taken. Nor a client that stops within a
  request without leaving, for which the daemon waits as long.
* A `send` that fails for another reason than a client that is gone.
* What lies in memory behind a name or a configuration that was received without
  a terminating NUL: a name that is not the one sent is taken to name no log.
  `PROJECT.json` has both as hazards without a property.
* The product of `Session` with `CgroupManager`: the session knows no cgroups. With
  `Launch` and `ConfigLoader` it is joined by `LaunchOutcome` and `ConfigOutcome`, which
  both sides implement; the products, with two clients and restarts, are out of TLC's
  reach and not needed for that.
* `container_cluster`, which is empty; the parser, which is not built; build
  files.

## What is left

1. A client that reads slowly, with a bounded socket buffer, in `Transport`.
2. What setting up a cgroup comes to, for `CgroupManager` and `Launch` as
   `ConfigOutcome` is for configurations.
