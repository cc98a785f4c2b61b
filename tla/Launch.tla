------------------------------- MODULE Launch -------------------------------
(***************************************************************************)
(* Launching containers: Daemon::run_container from the saved binary to    *)
(* the sleep after the launch (execution/daemon.cpp), the constructor of   *)
(* container (container/container.cpp), the function its clone(2) starts   *)
(* (container/children_functions.h) and the namespace objects both sides   *)
(* work on (ns/ns_types/).                                                 *)
(*                                                                         *)
(* The daemon is one sequential process; every launched child is another.  *)
(* clone(2) is called without CLONE_VM: the child works on a copy of the   *)
(* namespace objects as they were when it was cloned, so what the daemon   *)
(* sets in them afterwards is never seen by the child, and the two only    *)
(* meet in the kernel's objects (cgroups, id maps, mounts).  The sleeps on *)
(* both sides order nothing: every interleaving is a behaviour.            *)
(***************************************************************************)
EXTENDS NsTypes, FiniteSets, Sequences

CONSTANTS
  Container,  \* RUN_CONTAINER requests; each names the child it launches (its pid)
  Entry,      \* the namespace objects declared in the daemon's ns_pool
  TypeOf,     \* TypeOf[e]: the type of the namespace entry e stands for
  Groups,     \* the ns_groups requests may ask for
  Binary,     \* the file names under received-binaries/
  None        \* no process: the daemon's own namespace, MOCK_DESCRIPTOR, no file

ASSUME LaunchAssumption ==
  /\ None \notin Container
  /\ TypeOf \in [Entry -> NsType]
  /\ Groups \subseteq SUBSET Entry
  \* an ns_group has one slot per type
  /\ \A g \in Groups : \A e, f \in g : TypeOf[e] = TypeOf[f] => e = f

VARIABLES
  \* --- the daemon
  dpc,      \* where the daemon is in run_container
  cur,      \* the request being launched, None between launches
  todo,     \* entries init_namespaces has yet to open a handle for
  file,     \* file[b]: the request whose binary received-binaries/b holds
  \* --- the namespace objects of the pool
  active,   \* the entries with ns::active set
  fd,       \* fd[e]: the process whose namespace ns::m_fd is a handle of
  pids,     \* pids[e]: ns::m_processes_inside
  \* --- the children, and what the kernel keeps for each
  group,    \* group[c]: the entries of c's ns_group
  new,      \* new[c]: those that were inactive when c was cloned: c is the
            \* first process of a new namespace of each, and its copies of
            \* these entries say !active
  prog,     \* prog[c]: the name of the binary c starts
  cpc,      \* where the child is in child_function
  ctodo,    \* entries the current loop of child_init_ns has yet to handle
  cgroups,  \* cgroups[c]: the hierarchies c was added to
  maps,     \* maps[c]: the files of c's user namespace written so far
  root,     \* root[c]: c's root directory
  procAt,   \* procAt[c]: the root under which c mounted /proc
  hostProc  \* whose PID namespace /proc shows in the daemon's mount
            \* namespace; None while it shows the daemon's own

poolVars  == <<active, fd, pids>>
childVars == <<cpc, ctodo, root, procAt>>
staticVars == <<group, new, prog>>
vars == <<dpc, cur, todo, file, active, fd, pids, group, new, prog, cpc,
          ctodo, cgroups, maps, root, procAt, hostProc>>

Launching == {"tasks", "procs", "pids", "handles", "uid_map", "setgroups",
              "gid_map", "activate"}
DaemonPC == Launching \cup {"idle", "sleep", "down"}
ChildPC  == {"none", "sleep", "setup", "init", "setgid", "exec", "running", "dead"}

TypeOK ==
  /\ dpc \in DaemonPC
  /\ cur \in Container \cup {None}
  /\ dpc \in Launching \cup {"sleep"} => cur # None
  /\ dpc = "idle" => cur = None
  /\ todo \subseteq Entry
  /\ file \in [Binary -> Container \cup {None}]
  /\ active \subseteq Entry
  /\ fd \in [Entry -> Container \cup {None}]
  /\ pids \in [Entry -> Seq(Container)]
  /\ group \in [Container -> SUBSET Entry]
  /\ new \in [Container -> SUBSET Entry]
  /\ prog \in [Container -> Binary \cup {None}]
  /\ cpc \in [Container -> ChildPC]
  /\ ctodo \in [Container -> SUBSET Entry]
  /\ cgroups \in [Container -> SUBSET {"cpu_io", "mem_pid"}]
  /\ maps \in [Container -> SUBSET {"uid_map", "setgroups", "gid_map"}]
  /\ root \in [Container -> {"inherited", "pivoted", "detached"}]
  /\ procAt \in [Container -> {"none", "host", "inherited", "pivoted", "detached"}]
  /\ hostProc \in Container \cup {None}

Init ==
  /\ dpc = "idle" /\ cur = None /\ todo = {}
  /\ file = [b \in Binary |-> None]
  /\ active = {}
  /\ fd = [e \in Entry |-> None]
  /\ pids = [e \in Entry |-> <<>>]
  /\ group = [c \in Container |-> {}]
  /\ new = [c \in Container |-> {}]
  /\ prog = [c \in Container |-> None]
  /\ cpc = [c \in Container |-> "none"]
  /\ ctodo = [c \in Container |-> {}]
  /\ cgroups = [c \in Container |-> {}]
  /\ maps = [c \in Container |-> {}]
  /\ root = [c \in Container |-> "inherited"]
  /\ procAt = [c \in Container |-> "none"]
  /\ hostProc = None

-----------------------------------------------------------------------------
\* The entry a loop over the types reaches first.
First(S, e) == e \in S /\ \A f \in S : NsIndex(TypeOf[e]) <= NsIndex(TypeOf[f])

(* Plausible bugs, each a changed form of a definition below *)

\* prepare_flags without its test of is_active.
NewEntriesAll(g) == g

\* prepare_flags with = for |=: only the last type's flag is left.
NewEntriesLast(g) ==
  {e \in g \ active : \A f \in g \ active : NsIndex(TypeOf[f]) <= NsIndex(TypeOf[e])}

\* user_ns::init_internal with its test of active the wrong way round.
InitWorkMountOnly(c) == {e \in new[c] : TypeOf[e] = "MOUNT"}

\* add_child_to_cgroup returning after the first hierarchy.
AddToTasksOnly ==
  /\ dpc = "tasks"
  /\ cgroups' = [cgroups EXCEPT ![cur] = @ \cup {"cpu_io"}]
  /\ dpc' = "pids"
  /\ UNCHANGED <<cur, todo, file, poolVars, staticVars, childVars, maps, hostProc>>

\* ns::add_pid inserting at the front.
AddPidsInFront ==
  /\ dpc = "pids"
  /\ pids' = [e \in Entry |-> IF e \in group[cur] THEN <<cur>> \o pids[e] ELSE pids[e]]
  /\ todo' = group[cur] \ active
  /\ dpc' = "handles"
  /\ UNCHANGED <<cur, file, active, fd, staticVars, childVars, cgroups, maps, hostProc>>

\* The loop over the handles left after the first one.
OpenHandleOnce(e) ==
  /\ dpc = "handles"
  /\ First(todo, e)
  /\ fd' = [fd EXCEPT ![e] = cur]
  /\ todo' = {}
  /\ UNCHANGED <<dpc, cur, file, active, pids, staticVars, childVars, cgroups, maps, hostProc>>

\* The same loop without its increment.
OpenHandleForever(e) ==
  /\ dpc = "handles"
  /\ First(todo, e)
  /\ fd' = [fd EXCEPT ![e] = cur]
  /\ UNCHANGED <<dpc, cur, todo, file, active, pids, staticVars, childVars, cgroups, maps, hostProc>>

\* set_active called in the loop that opens the handles.
OpenHandleActivates(e) ==
  /\ dpc = "handles"
  /\ First(todo, e)
  /\ fd' = [fd EXCEPT ![e] = cur]
  /\ active' = active \cup {e}
  /\ todo' = todo \ {e}
  /\ UNCHANGED <<dpc, cur, file, pids, staticVars, childVars, cgroups, maps, hostProc>>

\* init_namespaces without the calls of external_setup_ns.
HandlesDoneNoSetup ==
  /\ dpc = "handles" /\ todo = {}
  /\ dpc' = "activate"
  /\ UNCHANGED <<cur, todo, file, poolVars, staticVars, childVars, cgroups, maps, hostProc>>

\* The request forgotten when the launch ends.
WakeUpKeepsCur ==
  /\ dpc = "sleep"
  /\ dpc' = "idle"
  /\ UNCHANGED <<cur, todo, file, poolVars, staticVars, childVars, cgroups, maps, hostProc>>

\* The daemon waiting for the child with waitpid(2) where it sleeps.
WakeUpWaits ==
  /\ dpc = "sleep" /\ cpc[cur] = "dead"
  /\ dpc' = "idle" /\ cur' = None
  /\ UNCHANGED <<todo, file, poolVars, staticVars, childVars, cgroups, maps, hostProc>>

\* The child's loop of internal_setup_ns without its increment.
SetupUtsForever(c, e) ==
  /\ cpc[c] = "setup" /\ First(ctodo[c], e) /\ TypeOf[e] = "UTS"
  /\ UNCHANGED vars

-----------------------------------------------------------------------------
(* Namespaces *)

\* The entries that get a flag for clone(2): not joined, but created.
\* prepare_flags throws for a type without one.
NewEntries(g) == g \ active
Unsupported(g) == \E e \in g \ active : TypeOf[e] \notin Cloneable

\* c is the first process of a new namespace of type t.
Owns(c, t) == \E e \in new[c] : TypeOf[e] = t

\* The namespace of type t process c is in, named by its first process.  The
\* program never calls setns(2): a process is in its own new namespace or in
\* the one it inherits from the daemon.
NsOf(c, t) == IF Owns(c, t) THEN c ELSE None

\* The entries of a type whose internal_setup_ns, resp. init_internal, does
\* anything; both test the child's copy of ns::active.
SetupWork(c) == {e \in new[c] : TypeOf[e] \in {"MOUNT", "PID", "UTS"}}
InitWork(c)  == {e \in new[c] : TypeOf[e] \in {"USER", "MOUNT"}}

-----------------------------------------------------------------------------
(* The daemon *)

\* A file cannot be opened for writing while a process executes it.  A child
\* with a new root executes the file of that name below its new root.
Executed(b) == \E c \in Container :
  cpc[c] = "running" /\ prog[c] = b /\ ~Owns(c, "MOUNT")

\* binary_file's open and writes fail silently.
SaveBinary(c, b) == file' = IF Executed(b) THEN file ELSE [file EXCEPT ![b] = c]

\* A request is received, its binary saved, its group taken from the pool,
\* and the child cloned.
RunContainer(c, g, b) ==
  /\ dpc = "idle"
  /\ cpc[c] = "none"
  /\ ~Unsupported(g)
  /\ SaveBinary(c, b)
  /\ dpc' = "tasks" /\ cur' = c
  /\ group' = [group EXCEPT ![c] = g]
  /\ new' = [new EXCEPT ![c] = NewEntries(g)]
  /\ prog' = [prog EXCEPT ![c] = b]
  /\ cpc' = [cpc EXCEPT ![c] = "sleep"]
  /\ UNCHANGED <<todo, poolVars, ctodo, cgroups, maps, root, procAt, hostProc>>

\* The request ends in an exception before a child exists: a broken
\* connection, a malformed configuration, a namespace the pool does not
\* have, a type clone(2) has no flag for, or clone(2) itself failing.
RunContainerFails(c, b) ==
  /\ dpc = "idle"
  /\ cpc[c] = "none"
  /\ SaveBinary(c, b) \/ UNCHANGED file
  /\ dpc' = "down"
  /\ UNCHANGED <<cur, todo, poolVars, staticVars, childVars, cgroups, maps, hostProc>>

\* Any of the daemon's system calls may fail: main logs the exception and ends.
\* The children live on.
DaemonFails ==
  /\ dpc \in Launching \ {"pids", "activate"}
  /\ dpc' = "down"
  /\ UNCHANGED <<cur, todo, file, poolVars, staticVars, childVars, cgroups, maps, hostProc>>

AddToTasks ==
  /\ dpc = "tasks"
  /\ cgroups' = [cgroups EXCEPT ![cur] = @ \cup {"cpu_io"}]
  /\ dpc' = "procs"
  /\ UNCHANGED <<cur, todo, file, poolVars, staticVars, childVars, maps, hostProc>>

AddToProcs ==
  /\ dpc = "procs"
  /\ cgroups' = [cgroups EXCEPT ![cur] = @ \cup {"mem_pid"}]
  /\ dpc' = "pids"
  /\ UNCHANGED <<cur, todo, file, poolVars, staticVars, childVars, maps, hostProc>>

AddPids ==
  /\ dpc = "pids"
  /\ pids' = [e \in Entry |-> IF e \in group[cur] THEN Append(pids[e], cur) ELSE pids[e]]
  /\ todo' = group[cur] \ active
  /\ dpc' = "handles"
  /\ UNCHANGED <<cur, file, active, fd, staticVars, childVars, cgroups, maps, hostProc>>

\* The process /proc/<pid of cur> leads to.  Once a container's PID namespace
\* is mounted over the daemon's /proc, it is the process that has this number
\* there, if there is one.
Reached(p) ==
  \/ hostProc = None /\ p = cur
  \/ hostProc # None /\ p = hostProc /\ cpc[p] # "dead"

\* ns::set_fd on an inactive entry: a handle it already has stays.
SetFd(e, p) == fd' = IF fd[e] = None THEN [fd EXCEPT ![e] = p] ELSE fd

OpenHandle(e) ==
  /\ dpc = "handles"
  /\ First(todo, e)
  /\ \E p \in Container : Reached(p) /\ SetFd(e, p)
  /\ todo' = todo \ {e}
  /\ UNCHANGED <<dpc, cur, file, active, pids, staticVars, childVars, cgroups, maps, hostProc>>

\* /proc/<pid> is not there, or the child is dead and its namespaces gone.
HandleMissing ==
  /\ dpc = "handles" /\ todo # {}
  /\ hostProc # None \/ cpc[cur] = "dead"
  /\ dpc' = "down"
  /\ UNCHANGED <<cur, todo, file, poolVars, staticVars, childVars, cgroups, maps, hostProc>>

\* external_setup_ns of every entry: only that of an inactive user_ns acts.
HandlesDone ==
  /\ dpc = "handles" /\ todo = {}
  /\ dpc' = IF \E u \in group[cur] \ active : TypeOf[u] = "USER" THEN "uid_map" ELSE "activate"
  /\ UNCHANGED <<cur, todo, file, poolVars, staticVars, childVars, cgroups, maps, hostProc>>

\* The kernel: an id map is written once, and only for a process in a user
\* namespace of its own; setgroups is closed once gid_map is written.
Writable(p, f) ==
  /\ hostProc = None
  /\ Owns(p, "USER")
  /\ f \in {"uid_map", "gid_map"} => f \notin maps[p]
  /\ f = "setgroups" => "gid_map" \notin maps[p]

AfterMap(f) ==
  CASE f = "uid_map" -> "setgroups" [] f = "setgroups" -> "gid_map" [] f = "gid_map" -> "activate"

\* user_ns::external_setup_ns writes the files of the first process recorded
\* in the entry.
WriteMap(u) ==
  /\ dpc \in {"uid_map", "setgroups", "gid_map"}
  /\ u \in group[cur] \ active /\ TypeOf[u] = "USER"
  /\ IF pids[u] # <<>> /\ Writable(Head(pids[u]), dpc)
       THEN /\ maps' = [maps EXCEPT ![Head(pids[u])] = @ \cup {dpc}]
            /\ dpc' = AfterMap(dpc)
       ELSE dpc' = "down" /\ UNCHANGED maps
  /\ UNCHANGED <<cur, todo, file, poolVars, staticVars, childVars, cgroups, hostProc>>

Activate ==
  /\ dpc = "activate"
  /\ active' = active \cup group[cur]
  /\ dpc' = "sleep"
  /\ UNCHANGED <<cur, todo, file, fd, pids, staticVars, childVars, cgroups, maps, hostProc>>

WakeUp ==
  /\ dpc = "sleep"
  /\ dpc' = "idle" /\ cur' = None
  /\ UNCHANGED <<todo, file, poolVars, staticVars, childVars, cgroups, maps, hostProc>>

DaemonStep ==
  \/ AddToTasks \/ AddToProcs \/ AddPids
  \/ \E e \in Entry : OpenHandle(e)
  \/ HandleMissing \/ HandlesDone
  \/ \E u \in Entry : WriteMap(u)
  \/ Activate \/ WakeUp

-----------------------------------------------------------------------------
(* The child *)

daemonVars == <<dpc, cur, todo, file, poolVars, cgroups, maps>>

ChildWakes(c) ==
  /\ cpc[c] = "sleep"
  /\ cpc' = [cpc EXCEPT ![c] = "setup"]
  /\ ctodo' = [ctodo EXCEPT ![c] = SetupWork(c)]
  /\ UNCHANGED <<daemonVars, staticVars, root, procAt, hostProc>>

\* An exception in the child is caught by nobody: it terminates.
Die(c) == cpc' = [cpc EXCEPT ![c] = "dead"]
Handled(c, e) == ctodo' = [ctodo EXCEPT ![c] = @ \ {e}]

\* The first entry the child's current loop has work for.
At(c, pc, e, t) == cpc[c] = pc /\ First(ctodo[c], e) /\ TypeOf[e] = t

\* Bind mount, pivot_root and chdir.
SetupMount(c, e) ==
  /\ At(c, "setup", e, "MOUNT")
  /\ root' = [root EXCEPT ![c] = "pivoted"]
  /\ Handled(c, e)
  /\ UNCHANGED <<daemonVars, staticVars, cpc, procAt, hostProc>>

\* mount("proc", "/proc").  In a user namespace of its own, c may mount only
\* in a mount namespace of its own, and proc only while the old /proc is still
\* visible below its root.  Without a mount namespace of its own, c is in the
\* daemon's and mounts over the daemon's /proc.
MayMountProc(c) ==
  Owns(c, "USER") => Owns(c, "MOUNT") /\ root[c] # "detached"

SetupPid(c, e) ==
  /\ At(c, "setup", e, "PID")
  /\ IF MayMountProc(c)
       THEN /\ Handled(c, e)
            /\ IF Owns(c, "MOUNT")
                 THEN procAt' = [procAt EXCEPT ![c] = root[c]] /\ UNCHANGED hostProc
                 ELSE procAt' = [procAt EXCEPT ![c] = "host"] /\ hostProc' = c
            /\ UNCHANGED cpc
       ELSE Die(c) /\ UNCHANGED <<ctodo, procAt, hostProc>>
  /\ UNCHANGED <<daemonVars, staticVars, root>>

SetupUts(c, e) ==
  /\ At(c, "setup", e, "UTS")
  /\ Handled(c, e)
  /\ UNCHANGED <<daemonVars, staticVars, cpc, root, procAt, hostProc>>

SetupDone(c) ==
  /\ cpc[c] = "setup" /\ ctodo[c] = {}
  /\ cpc' = [cpc EXCEPT ![c] = "init"]
  /\ ctodo' = [ctodo EXCEPT ![c] = InitWork(c)]
  /\ UNCHANGED <<daemonVars, staticVars, root, procAt, hostProc>>

\* setuid(0) and setgid(0) fail as long as 0 is not mapped in the namespace.
SetUid(c, e) ==
  /\ At(c, "init", e, "USER")
  /\ IF "uid_map" \in maps[c] THEN cpc' = [cpc EXCEPT ![c] = "setgid"] ELSE Die(c)
  /\ UNCHANGED <<daemonVars, staticVars, ctodo, root, procAt, hostProc>>

SetGid(c, e) ==
  /\ At(c, "setgid", e, "USER")
  /\ IF "gid_map" \in maps[c]
       THEN cpc' = [cpc EXCEPT ![c] = "init"] /\ Handled(c, e)
       ELSE Die(c) /\ UNCHANGED ctodo
  /\ UNCHANGED <<daemonVars, staticVars, root, procAt, hostProc>>

\* umount2(put_old, MNT_DETACH)
InitMount(c, e) ==
  /\ At(c, "init", e, "MOUNT")
  /\ root' = [root EXCEPT ![c] = "detached"]
  /\ Handled(c, e)
  /\ UNCHANGED <<daemonVars, staticVars, cpc, procAt, hostProc>>

InitDone(c) ==
  /\ cpc[c] = "init" /\ ctodo[c] = {}
  /\ cpc' = [cpc EXCEPT ![c] = "exec"]
  /\ UNCHANGED <<daemonVars, staticVars, ctodo, root, procAt, hostProc>>

\* execvp; when it fails, child_function returns and the child ends (ChildFails).
Exec(c) ==
  /\ cpc[c] = "exec"
  /\ cpc' = [cpc EXCEPT ![c] = "running"]
  /\ UNCHANGED <<daemonVars, staticVars, ctodo, root, procAt, hostProc>>

\* Any of the child's system calls may fail, and a program ends when it likes.
\* Nobody waits for the child: it stays a zombie and its pid is not used again.
ChildFails(c) ==
  /\ cpc[c] \in {"setup", "init", "setgid", "exec"}
  /\ Die(c)
  /\ UNCHANGED <<daemonVars, staticVars, ctodo, root, procAt, hostProc>>

Exit(c) ==
  /\ cpc[c] = "running"
  /\ Die(c)
  /\ UNCHANGED <<daemonVars, staticVars, ctodo, root, procAt, hostProc>>

ChildStep(c) ==
  \/ ChildWakes(c) \/ SetupDone(c) \/ InitDone(c) \/ Exec(c)
  \/ \E e \in Entry :
       \/ SetupMount(c, e) \/ SetupPid(c, e) \/ SetupUts(c, e)
       \/ SetUid(c, e) \/ SetGid(c, e) \/ InitMount(c, e)

-----------------------------------------------------------------------------
Next ==
  \/ DaemonStep
  \/ DaemonFails
  \/ \E c \in Container, b \in Binary :
       RunContainerFails(c, b) \/ \E g \in Groups : RunContainer(c, g, b)
  \/ \E c \in Container : ChildStep(c) \/ ChildFails(c) \/ Exit(c)

\* The scheduler runs the daemon and every child; requests, failures and the
\* end of a program are up to the environment.
ChildFair(c) == WF_vars(ChildStep(c))
ChildrenFair == \A c \in Container : ChildFair(c)
Fairness == WF_vars(DaemonStep) /\ ChildrenFair

Safety == Init /\ [][Next]_vars
Spec == Safety /\ Fairness
(* Safety *)

\* A declared namespace is created once: no two containers that ask for it
\* are both cloned with a flag for it (container.cpp, prepare_flags).
CreatedOnce == \A c, d \in Container : c # d => new[c] \cap new[d] = {}

\* user_ns::external_setup_ns writes the maps of m_processes_inside[0]: that
\* is the process the namespace was created with, however many joined since.
FirstPidIsCreator ==
  \A e \in Entry : pids[e] # <<>> => e \in new[Head(pids[e])]

\* As long as the daemon's /proc is its own, the handle kept in an entry is
\* one of the namespace its creator made, not of one inherited from the daemon
\* and not of another container's.
HandleNamesCreator ==
  hostProc = None => \A e \in Entry : fd[e] # None => e \in new[fd[e]]

\* The daemon writes the id maps and the child runs at the same time, with
\* nothing but two sleeps between them: no program ever runs in a new user
\* namespace before all three files are written.
MapsBeforeProgram ==
  \A c \in Container :
    cpc[c] = "running" /\ Owns(c, "USER") => maps[c] = {"uid_map", "setgroups", "gid_map"}

\* An entry is marked active, so joined and no longer created, only when the
\* launch that created it came to its end: the handle is open and, for a user
\* namespace, the maps are written.
ActiveIsComplete ==
  \A e \in active :
    /\ fd[e] # None
    /\ \E c \in Container :
         /\ e \in new[c]
         /\ TypeOf[e] = "USER" => maps[c] = {"uid_map", "setgroups", "gid_map"}

\* A program runs outside one of its cgroups only while its launch is still
\* adding it, or after the daemon ended in the middle.
ConfinedOrLaunching ==
  \A c \in Container :
    cpc[c] = "running" /\ cgroups[c] # {"cpu_io", "mem_pid"} =>
      dpc = "down" \/ (cur = c /\ dpc \in {"tasks", "procs"})

\* A program with a mount namespace of its own never sees the daemon's root,
\* and the /proc of a PID namespace of its own is mounted below its own root.
IsolatedRoot ==
  \A c \in Container :
    cpc[c] = "running" /\ Owns(c, "MOUNT") =>
      /\ root[c] = "detached"
      /\ Owns(c, "PID") => procAt[c] = "pivoted"

(* Liveness *)

\* Every cloned child starts its program or ends: its loops over the
\* namespaces end, and it waits for nothing the daemon does.
ChildSettles == \A c \in Container : cpc[c] = "sleep" ~> cpc[c] \in {"running", "dead"}

\* A launch ends: the daemon serves requests again or has ended.
LaunchEnds == dpc \in Launching ~> dpc \in {"idle", "down"}

(* Refinement *)

Creator(e) == IF \E c \in Container : e \in new[c]
              THEN CHOOSE c \in Container : e \in new[c] ELSE None
Phase(e) ==
  IF e \in active THEN "active"
  ELSE IF fd[e] # None THEN "open"
  ELSE IF Creator(e) # None THEN "created" ELSE "declared"

Lifecycle == INSTANCE NsLifecycle WITH
  Launch <- Container,
  phase <- [e \in Entry |-> Phase(e)],
  creator <- [e \in Entry |-> Creator(e)]

\* The launches drive every namespace through the life cycle of NsLifecycle.
LifecycleSpec == Lifecycle!Spec

\* The launch of c has come to something.
Settled(c) == cpc[c] # "none" /\ ~(cur = c /\ dpc \in Launching)

Outcome == INSTANCE LaunchOutcome WITH
  running <- dpc # "down",
  active <- IF dpc = "down" THEN {} ELSE active,
  group <- [c \in {d \in Container : Settled(d)} |-> group[c]],
  alive <- {c \in Container : Settled(c) /\ cpc[c] # "dead"}

\* Whatever fails, and whenever the child runs or ends, a launch comes to one of
\* the outcomes of LaunchOutcome: in particular namespaces become active all at
\* once, and never for a launch that ended the daemon.
OutcomeSpec == Outcome!Spec

\* The daemon and the children always have a step to take as long as they are in
\* run_container or child_function: no call of theirs waits for the other side.
NeverStuck ==
  /\ dpc \in Launching \cup {"sleep"} => ENABLED <<DaemonStep>>_vars
  /\ \A c \in Container :
       cpc[c] \in {"sleep", "setup", "init", "setgid", "exec"} => ENABLED <<ChildStep(c)>>_vars

(* What the documents and comments say *)

\* docs/Container.md:17-18 and :41-42: containers that name the same existing
\* namespace are put inside it.
SharedNamespace ==
  \A c, d \in Container : \A e \in group[c] \cap group[d] :
    cpc[c] = "running" /\ cpc[d] = "running" => NsOf(c, TypeOf[e]) = NsOf(d, TypeOf[e])

\* ns/ns_types/pid_ns.cpp:17: /proc is mounted after the setup of the mount
\* namespace, so below the container's new root.
ProcMountAfterPivot == \A c \in Container : procAt[c] \in {"none", "pivoted"}

\* docs/Container.md:17: a program is put inside the specified cgroups.
\* After the daemon ended no launch is under way any more.
ConfinedAfterLaunch ==
  \A c \in Container :
    cpc[c] = "running" /\ dpc \notin {"tasks", "procs"} => cgroups[c] = {"cpu_io", "mem_pid"}

\* execution/daemon.cpp:152 and :162: an existing file is rewritten, and what
\* the request sent is saved under the name it gave.
SavedBinaryIsSent == \A c \in Container : cur = c => file[prog[c]] = c
=============================================================================
