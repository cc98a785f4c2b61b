--------------------------- MODULE CgroupManager ---------------------------
(***************************************************************************)
(* The cgroups of the daemon: cgroup_manager (cgroup/cgroup_manager.cpp)   *)
(* and the writes into the two cgroup file systems it is made of           *)
(* (cgroup/cgroup.cpp).                                                    *)
(*                                                                         *)
(* What the manager knows is lost when the daemon ends; what it did to the *)
(* kernel stays: directories, the mount, the limits, and who is in which   *)
(* group.  The daemon may end between any two of its system calls, by an   *)
(* exception (main catches it and returns) or by being killed, and is      *)
(* started again on what the last one left.                                *)
(***************************************************************************)
EXTENDS Naturals, Sequences, FiniteSets

CONSTANTS
  Group,     \* names of cgroups
  Root,      \* the empty name, whose directory is that of the controllers
  Limits,    \* the files of a cgroup that take a limit, in the order written
  Value,     \* what is written to them
  Unset,     \* no value: in a declaration, leave the file alone
  Declared,  \* the cgroups of configurations: limits by name
  Process,   \* children of the daemon
  NoProcess,
  MaxStarts  \* bound on how often the daemon is started

Limit == {Limits[i] : i \in DOMAIN Limits}
NoLimits == [l \in Limit |-> Unset]

\* The limits kept in the first hierarchy, the one the daemon mounts.
CpuIo == {"cfs_quota", "cfs_period", "read_bps", "write_bps"}

ASSUME CgroupAssumption ==
  /\ Root \notin Group
  /\ Limits \in Seq({"cfs_quota", "cfs_period", "read_bps", "write_bps",
                     "memory_high", "memory_max", "swap_max", "pids_max"})
  /\ Unset \notin Value
  /\ Declared \subseteq [Limit -> Value \cup {Unset}]
  /\ NoProcess \notin Process
  /\ MaxStarts \in Nat

VARIABLES
  \* --- the daemon
  pc,       \* where it is in the constructor, init_cgroup or add_child
  name,     \* the cgroup init_cgroup or add_child works on
  decl,     \* the limits init_cgroup works on
  next,     \* the place in Limits of the next one to write
  child,    \* the process add_child works on
  cgroups,  \* cgroup_manager::cgroups
  accepted, \* accepted[n]: the declaration with which n entered cgroups (what
            \* the properties speak of; the program keeps only the name)
  starts,   \* how often the daemon was started
  \* --- the kernel
  made,     \* CPU_AND_IO_PATH is a directory
  mounts,   \* how many file systems are mounted there
  cpuDirs,  \* the groups of the first hierarchy,
  memDirs,  \* and of the second
  limit,    \* limit[n][l]: the limit in force
  tasks,    \* tasks[p]: the group of p in the first hierarchy,
  procs     \* and in the second

daemonVars == <<name, decl, next, child, cgroups, accepted, starts>>
kernelVars == <<made, mounts, cpuDirs, memDirs, limit, tasks, procs>>
vars == <<pc, name, decl, next, child, cgroups, accepted, starts,
          made, mounts, cpuDirs, memDirs, limit, tasks, procs>>

Starting == {"mkdir", "mount", "mkdir2"}
Creating == {"cpu_dir", "mem_dir", "limits"}
Adding   == {"tasks", "procs"}
Busy == Starting \cup Creating \cup Adding

TypeOK ==
  /\ pc \in Busy \cup {"off", "ready"}
  /\ name \in Group \cup {Root}
  /\ decl \in [Limit -> Value \cup {Unset}]
  /\ next \in 1..(Len(Limits) + 1)
  /\ child \in Process \cup {NoProcess}
  /\ cgroups \subseteq Group
  /\ accepted \in [Group -> [Limit -> Value \cup {Unset}]]
  /\ starts \in 0..MaxStarts
  /\ made \in BOOLEAN /\ mounts \in Nat
  /\ cpuDirs \subseteq Group /\ memDirs \subseteq Group
  /\ limit \in [Group -> [Limit -> Value \cup {Unset}]]
  /\ tasks \in [Process -> Group \cup {Root}]
  /\ procs \in [Process -> Group \cup {Root}]
  /\ pc \in Creating => name \in Group
  /\ pc \in Adding => child \in Process

Init ==
  /\ pc = "off" /\ name = Root /\ decl = NoLimits /\ next = 1 /\ child = NoProcess
  /\ cgroups = {} /\ accepted = [n \in Group |-> NoLimits] /\ starts = 0
  /\ made = FALSE /\ mounts = 0 /\ cpuDirs = {} /\ memDirs = {}
  /\ limit = [n \in Group |-> NoLimits]
  /\ tasks = [p \in Process |-> Root] /\ procs = [p \in Process |-> Root]

-----------------------------------------------------------------------------
(* Plausible bugs, each a changed form of a definition below *)

\* setup_controllers mounting also over a directory that is there.
MakeControllersAlways ==
  /\ pc = "mkdir" /\ pc' = "mount" /\ made' = TRUE
  /\ UNCHANGED <<daemonVars, mounts, cpuDirs, memDirs, limit, tasks, procs>>

\* init_cgroup without its test of cgroups.
NewCgroupAlways(n, d) == pc' = "cpu_dir" /\ name' = n /\ decl' = d /\ next' = 1

\* A set_ function that returns at the first value left out.
NextLimitOrLeave == IF decl[Limits[next]] = Unset THEN Len(Limits) + 1 ELSE next + 1

\* add_child_to_cgroup writing its pid only to the first hierarchy.
AddToTasksOnly(p) == tasks' = [tasks EXCEPT ![p] = name] /\ pc' = "ready" /\ UNCHANGED procs

-----------------------------------------------------------------------------
(* Starting and ending *)

\* A new daemon, with an empty set of known cgroups.
Start ==
  /\ pc = "off" /\ starts < MaxStarts
  /\ pc' = "mkdir" /\ starts' = starts + 1
  /\ cgroups' = {}
  /\ accepted' = [n \in Group |-> NoLimits]
  /\ UNCHANGED <<name, decl, next, child, kernelVars>>

End == pc' = "off" /\ UNCHANGED <<daemonVars, kernelVars>>

\* cgroup_manager::setup_controllers mounts only when it created the directory.
MakeControllers ==
  /\ pc = "mkdir"
  /\ pc' = IF made THEN "mkdir2" ELSE "mount"
  /\ made' = TRUE
  /\ UNCHANGED <<daemonVars, mounts, cpuDirs, memDirs, limit, tasks, procs>>

MountControllers ==
  /\ pc = "mount"
  /\ mounts' = mounts + 1
  /\ pc' = "mkdir2"
  /\ UNCHANGED <<daemonVars, made, cpuDirs, memDirs, limit, tasks, procs>>

\* MEM_AND_PID_PATH is the mount point of the system's cgroup file system:
\* its mkdir always ends in EEXIST.
MakeRoot ==
  /\ pc = "mkdir2"
  /\ pc' = "ready"
  /\ UNCHANGED <<daemonVars, kernelVars>>

-----------------------------------------------------------------------------
(* init_cgroup *)

\* The kernel: the files of a group exist while its directory does, and those
\* of the first hierarchy only when it is mounted; no other can be created.
FileExists(n, l) ==
  IF l \in CpuIo \cup {"tasks"} THEN mounts > 0 /\ n \in cpuDirs \cup {Root}
                                ELSE n \in memDirs \cup {Root}

\* A cgroup that is known is left as it is.
NewCgroup(n, d) ==
  IF n \in cgroups THEN UNCHANGED <<pc, name, decl, next>>
                   ELSE pc' = "cpu_dir" /\ name' = n /\ decl' = d /\ next' = 1

InitCgroup(n, d) ==
  /\ pc = "ready"
  /\ NewCgroup(n, d)
  /\ UNCHANGED <<child, cgroups, accepted, starts, kernelVars>>

\* cgroup::create_cgroup: a directory that is there will do.
MakeCpuDir ==
  /\ pc = "cpu_dir"
  /\ cpuDirs' = cpuDirs \cup {name}
  /\ pc' = "mem_dir"
  /\ UNCHANGED <<daemonVars, made, mounts, memDirs, limit, tasks, procs>>

MakeMemDir ==
  /\ pc = "mem_dir"
  /\ memDirs' = memDirs \cup {name}
  /\ pc' = "limits"
  /\ UNCHANGED <<daemonVars, made, mounts, cpuDirs, limit, tasks, procs>>

\* The set_ functions test one value after the other.
NextLimit == next + 1

\* cgroup::set_cpu_limit, set_io_limit, set_memory_limit and set_pids_limit:
\* a value that is left out is not written.
SetLimit ==
  /\ pc = "limits" /\ next <= Len(Limits)
  /\ LET l == Limits[next] IN
       IF decl[l] = Unset
         THEN UNCHANGED limit
         ELSE FileExists(name, l) /\ limit' = [limit EXCEPT ![name][l] = decl[l]]
  /\ next' = NextLimit
  /\ UNCHANGED <<pc, name, decl, child, cgroups, accepted, starts,
                 made, mounts, cpuDirs, memDirs, tasks, procs>>

CgroupDone ==
  /\ pc = "limits" /\ next > Len(Limits)
  /\ cgroups' = cgroups \cup {name}
  /\ accepted' = [accepted EXCEPT ![name] = decl]
  /\ pc' = "ready"
  /\ UNCHANGED <<name, decl, next, child, starts, kernelVars>>

-----------------------------------------------------------------------------
(* add_child *)

\* Whether the manager knows the cgroup is not asked.
AddChild(p, n) ==
  /\ pc = "ready"
  /\ pc' = "tasks" /\ child' = p /\ name' = n
  /\ UNCHANGED <<decl, next, cgroups, accepted, starts, kernelVars>>

\* cgroup::add_child_to_cgroup, the first write and what follows it
WriteTasks(p) == tasks' = [tasks EXCEPT ![p] = name] /\ pc' = "procs" /\ UNCHANGED procs

AddToTasks ==
  /\ pc = "tasks" /\ FileExists(name, "tasks")
  /\ WriteTasks(child)
  /\ UNCHANGED <<daemonVars, made, mounts, cpuDirs, memDirs, limit>>

AddToProcs ==
  /\ pc = "procs" /\ FileExists(name, "cgroup.procs")
  /\ procs' = [procs EXCEPT ![child] = name]
  /\ pc' = "ready"
  /\ UNCHANGED <<daemonVars, made, mounts, cpuDirs, memDirs, limit, tasks>>

-----------------------------------------------------------------------------
\* Each of these calls may fail instead: the daemon ends.
Fail == pc \in Busy /\ End
\* It may also be killed while it waits.
Kill == pc = "ready" /\ End

Next ==
  \/ Start \/ MakeControllers \/ MountControllers \/ MakeRoot
  \/ \E n \in Group, d \in Declared : InitCgroup(n, d)
  \/ MakeCpuDir \/ MakeMemDir \/ SetLimit \/ CgroupDone
  \/ \E p \in Process, n \in Group \cup {Root} : AddChild(p, n)
  \/ AddToTasks \/ AddToProcs
  \/ Fail \/ Kill

Spec == Init /\ [][Next]_vars

-----------------------------------------------------------------------------
(* Properties *)

\* The controllers are never mounted over a hierarchy that is in use,
\* however often the daemon is started (setup_controllers).
MountedAtMostOnce == mounts <= 1

\* A cgroup the manager knows has both its directories, and every limit its
\* declaration gives is in force: a create that was cut short, by this daemon
\* or one before it, is never taken for a finished one (init_cgroup).
KnownIsLimited ==
  pc # "off" => \A n \in cgroups :
    /\ n \in cpuDirs \cap memDirs
    /\ \A l \in Limit : accepted[n][l] # Unset => limit[n][l] = accepted[n][l]

\* While the daemon knows a cgroup its limits do not change under the
\* processes in it, whatever configurations declare it again.
LimitsStable ==
  [][\A n \in Group : pc # "off" /\ n \in cgroups => limit'[n] = limit[n]]_vars

\* A child that was added is in one group in both hierarchies: only one whose
\* add_child a failure cut short is in the group in just one of them.
AddedToBoth ==
  [][(pc \in Adding /\ pc' = "ready") => (tasks'[child] = name /\ procs'[child] = name)]_vars

\* cgroup/cgroup_manager.cpp:7: the constructor has mounted the controllers.
ControllersMounted == pc = "ready" => mounts > 0

\* execution/daemon.cpp:294: a cgroup has the limits received for it.
LimitsAreReceived == pc # "off" => \A n \in cgroups : limit[n] = accepted[n]
=============================================================================
