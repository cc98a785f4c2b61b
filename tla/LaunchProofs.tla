---------------------------- MODULE LaunchProofs ----------------------------
(***************************************************************************)
(* The safety properties of Launch, proved for any number of requests, any *)
(* pool of namespaces and any set of groups.                               *)
(***************************************************************************)
EXTENDS Launch, SequenceTheorems, TLAPS

USE DEF Launching, DaemonPC, ChildPC

\* Every variable keeps its type, and a launch in progress has a child.
THEOREM TypeCorrect == Safety => []TypeOK
<1>1. Init => TypeOK
  BY LaunchAssumption DEF Init, TypeOK
<1>2. TypeOK /\ [Next]_vars => TypeOK'
  <2> SUFFICES ASSUME TypeOK, [Next]_vars PROVE TypeOK'
    OBVIOUS
  <2> USE DEF TypeOK, poolVars, childVars, staticVars, daemonVars
  <2>1. ASSUME NEW c \in Container, NEW b \in Binary, NEW g \in Groups, RunContainer(c, g, b)
        PROVE  TypeOK'
    BY <2>1, LaunchAssumption DEF RunContainer, SaveBinary, NewEntries
  <2>2. ASSUME NEW c \in Container, NEW b \in Binary, RunContainerFails(c, b)
        PROVE  TypeOK'
    BY <2>2 DEF RunContainerFails, SaveBinary
  <2>3. CASE DaemonFails
    BY <2>3 DEF DaemonFails
  <2>4. CASE AddToTasks
    BY <2>4 DEF AddToTasks
  <2>5. CASE AddToProcs
    BY <2>5 DEF AddToProcs
  <2>6. CASE AddPids
    BY <2>6 DEF AddPids
  <2>7. ASSUME NEW e \in Entry, OpenHandle(e) PROVE TypeOK'
    BY <2>7 DEF OpenHandle, SetFd
  <2>8. CASE HandleMissing
    BY <2>8 DEF HandleMissing
  <2>9. CASE HandlesDone
    BY <2>9 DEF HandlesDone
  <2>10. ASSUME NEW u \in Entry, WriteMap(u) PROVE TypeOK'
    <3>1. pids[u] # <<>> => Head(pids[u]) \in Container
      BY HeadTailProperties
    <3> QED
      BY <2>10, <3>1 DEF WriteMap, AfterMap
  <2>11. CASE Activate
    BY <2>11 DEF Activate
  <2>12. CASE WakeUp
    BY <2>12 DEF WakeUp
  <2>13. ASSUME NEW c \in Container, ChildStep(c) PROVE TypeOK'
    <3>0. \A e \in Entry : [ctodo EXCEPT ![c] = @ \ {e}] \in [Container -> SUBSET Entry]
      <4>1. \A e \in Entry : ctodo[c] \ {e} \in SUBSET Entry
        OBVIOUS
      <4> QED
        BY <4>1
    <3>1. CASE ChildWakes(c)
      BY <3>1 DEF ChildWakes, SetupWork
    <3>2. CASE SetupDone(c)
      BY <3>2 DEF SetupDone, InitWork
    <3>3. CASE InitDone(c) \/ Exec(c)
      BY <3>3 DEF InitDone, Exec
    <3>4. ASSUME NEW e \in Entry, SetupMount(c, e) \/ SetupUts(c, e) PROVE TypeOK'
      <4>1. ctodo' \in [Container -> SUBSET Entry]
        BY <3>0, <3>4 DEF SetupMount, SetupUts, Handled
      <4>2. root' \in [Container -> {"inherited", "pivoted", "detached"}]
        BY <3>4 DEF SetupMount, SetupUts
      <4> QED
        BY <3>4, <4>1, <4>2 DEF SetupMount, SetupUts
    <3>5. ASSUME NEW e \in Entry, SetupPid(c, e) PROVE TypeOK'
      <4>1. procAt' \in [Container -> {"none", "host", "inherited", "pivoted", "detached"}]
        BY <3>5 DEF SetupPid
      <4>2. cpc' \in [Container -> ChildPC]
        BY <3>5 DEF SetupPid, Die
      <4>3. ctodo' \in [Container -> SUBSET Entry] /\ hostProc' \in Container \cup {None}
        BY <3>0, <3>5 DEF SetupPid, Handled
      <4> QED
        BY <3>5, <4>1, <4>2, <4>3 DEF SetupPid
    <3>6. ASSUME NEW e \in Entry, SetUid(c, e) PROVE TypeOK'
      BY <3>6 DEF SetUid, Die
    <3>7. ASSUME NEW e \in Entry, SetGid(c, e) PROVE TypeOK'
      <4>1. ctodo' \in [Container -> SUBSET Entry]
        BY SMTT(20), <3>0, <3>7 DEF SetGid, Handled
      <4>2. cpc' \in [Container -> ChildPC]
        BY <3>7 DEF SetGid, Die
      <4> QED
        BY <3>7, <4>1, <4>2 DEF SetGid
    <3>8. ASSUME NEW e \in Entry, InitMount(c, e) PROVE TypeOK'
      <4>1. ctodo' \in [Container -> SUBSET Entry]
        BY <3>0, <3>8 DEF InitMount, Handled
      <4>2. root' \in [Container -> {"inherited", "pivoted", "detached"}]
        BY <3>8 DEF InitMount
      <4> QED
        BY <3>8, <4>1, <4>2 DEF InitMount
    <3> QED
      BY <2>13, <3>1, <3>2, <3>3, <3>4, <3>5, <3>6, <3>7, <3>8 DEF ChildStep
  <2>14. ASSUME NEW c \in Container, ChildFails(c) \/ Exit(c) PROVE TypeOK'
    BY <2>14 DEF ChildFails, Exit, Die
  <2>15. CASE UNCHANGED vars
    BY <2>15 DEF vars
  <2> QED
    BY <2>1, <2>2, <2>3, <2>4, <2>5, <2>6, <2>7, <2>8, <2>9, <2>10, <2>11,
       <2>12, <2>13, <2>14, <2>15 DEF Next, DaemonStep
<1> QED
  BY <1>1, <1>2, PTL DEF Safety

-----------------------------------------------------------------------------
(* The inductive invariant *)

AllMaps == {"uid_map", "setgroups", "gid_map"}

\* The launch has recorded the child in the entries of its group.
Recorded == {"handles", "uid_map", "setgroups", "gid_map", "activate"}

\* What the daemon knows of the launch under way.
DaemonInv ==
  /\ dpc \in Launching \cup {"sleep"} => cpc[cur] # "none"
  /\ dpc \in Launching => new[cur] = group[cur] \ active
  /\ dpc \in Recorded => \A e \in group[cur] : pids[e] # <<>>
  /\ dpc = "handles" => todo \subseteq new[cur]
  /\ dpc \in Recorded \ {"handles"} => todo = {}
  /\ dpc \in Recorded => \A e \in new[cur] : fd[e] = None => e \in todo

\* Outside a launch every created namespace is active and nothing else has a
\* handle: that is why the next launch creates only what is not there yet.
PoolInv ==
  /\ \A c \in Container : cpc[c] = "none" => new[c] = {}
  /\ dpc # "down" =>
       /\ \A c \in Container : new[c] \subseteq active \/ (c = cur /\ dpc \in Launching)
       /\ \A e \in Entry : fd[e] # None =>
            e \in active \/ (dpc \in Recorded /\ e \in new[cur] /\ e \notin todo)
  /\ \A e \in active : pids[e] # <<>>

\* The files are written in the order uid_map, setgroups, gid_map.
MapsInv ==
  /\ \A c \in Container : "gid_map" \in maps[c] => maps[c] = AllMaps
  /\ dpc \in {"setgroups", "gid_map"} => "uid_map" \in maps[cur]
  /\ dpc = "gid_map" => "setgroups" \in maps[cur]
  /\ dpc = "activate" /\ Owns(cur, "USER") => maps[cur] = AllMaps

\* What each control state of child c has behind it.
ChildMaps(c) ==
  /\ cpc[c] \in {"init", "setgid"} =>
       \A e \in new[c] : TypeOf[e] = "USER" => e \in ctodo[c] \/ maps[c] = AllMaps
  /\ cpc[c] \in {"exec", "running"} /\ Owns(c, "USER") => maps[c] = AllMaps

ChildRoot(c) ==
  /\ cpc[c] = "setup" =>
       /\ \A e \in new[c] : TypeOf[e] = "MOUNT" => e \in ctodo[c] \/ root[c] = "pivoted"
       /\ Owns(c, "MOUNT") =>
            \A e \in new[c] : TypeOf[e] = "PID" => e \in ctodo[c] \/ procAt[c] = "pivoted"
  /\ cpc[c] \in {"init", "setgid", "exec", "running"} /\ Owns(c, "MOUNT") /\ Owns(c, "PID") =>
       procAt[c] = "pivoted"
  /\ cpc[c] \in {"init", "setgid"} =>
       \A e \in new[c] : TypeOf[e] = "MOUNT" => e \in ctodo[c] \/ root[c] = "detached"
  /\ cpc[c] \in {"exec", "running"} /\ Owns(c, "MOUNT") => root[c] = "detached"

\* The child is in both cgroups unless its launch is at it or was cut short.
CgroupInv ==
  /\ dpc = "procs" => "cpu_io" \in cgroups[cur]
  /\ \A c \in Container :
       cpc[c] # "none" /\ cgroups[c] # {"cpu_io", "mem_pid"} =>
         dpc = "down" \/ (cur = c /\ dpc \in {"tasks", "procs"})

PoolSafety ==
  /\ CreatedOnce /\ FirstPidIsCreator /\ HandleNamesCreator /\ ActiveIsComplete

IInv ==
  /\ DaemonInv /\ PoolInv /\ PoolSafety /\ MapsInv /\ CgroupInv
  /\ \A c \in Container : ChildMaps(c) /\ ChildRoot(c)

-----------------------------------------------------------------------------
(* What a step leaves alone *)

\* A step of a child touches nothing the daemon keeps, nothing of the other
\* children, and never gives the daemon its own /proc back.
OnlyChild(c) ==
  /\ UNCHANGED <<daemonVars, staticVars>>
  /\ cpc[c] # "none" /\ cpc'[c] # "none"
  /\ \A d \in Container \ {c} :
       /\ cpc'[d] = cpc[d] /\ ctodo'[d] = ctodo[d]
       /\ root'[d] = root[d] /\ procAt'[d] = procAt[d]
  /\ hostProc' = None => hostProc = None

LEMMA ChildFrame ==
  ASSUME TypeOK, NEW c \in Container, ChildStep(c) \/ ChildFails(c) \/ Exit(c)
  PROVE  OnlyChild(c)
<1> USE DEF OnlyChild, daemonVars, poolVars, staticVars
<1>0. /\ cpc \in [Container -> ChildPC] /\ ctodo \in [Container -> SUBSET Entry]
      /\ root \in [Container -> {"inherited", "pivoted", "detached"}]
      /\ procAt \in [Container -> {"none", "host", "inherited", "pivoted", "detached"}]
      /\ None \notin Container
  BY LaunchAssumption DEF TypeOK
<1>1. CASE ChildWakes(c)
  BY <1>0, <1>1 DEF ChildWakes
<1>2. CASE SetupDone(c)
  BY <1>0, <1>2 DEF SetupDone
<1>3. CASE InitDone(c) \/ Exec(c)
  BY <1>0, <1>3 DEF InitDone, Exec
<1>4. ASSUME NEW e \in Entry, SetupMount(c, e) \/ SetupUts(c, e) \/ InitMount(c, e)
      PROVE  OnlyChild(c)
  BY <1>0, <1>4 DEF SetupMount, SetupUts, InitMount, At, Handled
<1>5. ASSUME NEW e \in Entry, SetupPid(c, e) PROVE OnlyChild(c)
  BY <1>0, <1>5 DEF SetupPid, At, Handled, Die
<1>6. ASSUME NEW e \in Entry, SetUid(c, e) \/ SetGid(c, e) PROVE OnlyChild(c)
  BY <1>0, <1>6 DEF SetUid, SetGid, At, Handled, Die
<1>7. CASE ChildFails(c) \/ Exit(c)
  BY <1>0, <1>7 DEF ChildFails, Exit, Die
<1> QED
  BY <1>1, <1>2, <1>3, <1>4, <1>5, <1>6, <1>7 DEF ChildStep

\* A step of the daemon within a launch touches nothing of the children but
\* the files of their user namespaces, which it only adds to.
OnlyDaemon ==
  /\ UNCHANGED <<childVars, staticVars, hostProc>>
  /\ \A c \in Container : maps[c] \subseteq maps'[c]

LEMMA DaemonFrame ==
  ASSUME TypeOK, DaemonStep \/ DaemonFails
  PROVE  OnlyDaemon
<1> USE DEF OnlyDaemon, childVars, staticVars
<1>1. CASE AddToTasks \/ AddToProcs \/ AddPids
  BY <1>1 DEF AddToTasks, AddToProcs, AddPids
<1>2. CASE HandleMissing \/ HandlesDone \/ Activate \/ WakeUp \/ DaemonFails
  BY <1>2 DEF HandleMissing, HandlesDone, Activate, WakeUp, DaemonFails
<1>3. ASSUME NEW e \in Entry, OpenHandle(e) PROVE OnlyDaemon
  BY <1>3 DEF OpenHandle
<1>4. ASSUME NEW u \in Entry, WriteMap(u) PROVE OnlyDaemon
  BY <1>4 DEF WriteMap, TypeOK
<1> QED
  BY <1>1, <1>2, <1>3, <1>4 DEF DaemonStep

-----------------------------------------------------------------------------
(* Steps of a child *)

LEMMA ChildKeepsPool ==
  ASSUME TypeOK, IInv, NEW c \in Container, OnlyChild(c)
  PROVE  DaemonInv' /\ PoolInv' /\ PoolSafety' /\ MapsInv' /\ CgroupInv'
<1> USE DEF IInv, OnlyChild, daemonVars, poolVars, staticVars
<1>1. DaemonInv' /\ PoolInv'
  BY DEF DaemonInv, PoolInv, Recorded, TypeOK
<1>2. CreatedOnce' /\ FirstPidIsCreator' /\ HandleNamesCreator' /\ ActiveIsComplete'
  BY DEF PoolSafety, CreatedOnce, FirstPidIsCreator, HandleNamesCreator, ActiveIsComplete
<1>3. MapsInv' /\ CgroupInv'
  BY DEF MapsInv, CgroupInv, Owns
<1> QED
  BY <1>1, <1>2, <1>3 DEF PoolSafety

LEMMA ChildKeepsOthers ==
  ASSUME TypeOK, IInv, NEW c \in Container, OnlyChild(c), NEW d \in Container \ {c}
  PROVE  ChildMaps(d)' /\ ChildRoot(d)'
<1>1. /\ cpc'[d] = cpc[d] /\ ctodo'[d] = ctodo[d] /\ root'[d] = root[d]
      /\ procAt'[d] = procAt[d] /\ new' = new /\ maps' = maps
  BY DEF OnlyChild, daemonVars, staticVars
<1>2. ChildMaps(d) /\ ChildRoot(d)
  BY DEF IInv
<1> QED
  BY <1>1, <1>2 DEF ChildMaps, ChildRoot, Owns

\* The order of the enumeration: when the loop of the child reaches the PID
\* namespace, the mount namespace has been dealt with.
LEMMA MountBeforePid ==
  ASSUME NEW S, NEW e, First(S, e), TypeOf[e] = "PID"
  PROVE  \A f \in S : TypeOf[f] # "MOUNT"
BY DEF First, NsIndex

LEMMA ChildKeepsItself ==
  ASSUME TypeOK, IInv, NEW c \in Container, ChildStep(c) \/ ChildFails(c) \/ Exit(c)
  PROVE  ChildMaps(c)' /\ ChildRoot(c)'
<1>0. /\ cpc \in [Container -> ChildPC] /\ ctodo \in [Container -> SUBSET Entry]
      /\ root \in [Container -> {"inherited", "pivoted", "detached"}]
      /\ procAt \in [Container -> {"none", "host", "inherited", "pivoted", "detached"}]
      /\ new[c] \subseteq Entry
  BY DEF TypeOK
<1>1. /\ ChildMaps(c) /\ ChildRoot(c)
      /\ "gid_map" \in maps[c] => maps[c] = AllMaps
  BY DEF IInv, MapsInv
<1>2. new' = new /\ maps' = maps
  BY ChildFrame DEF OnlyChild, daemonVars, staticVars
<1> USE <1>0, <1>1, <1>2 DEF ChildMaps, ChildRoot, Owns
<1>3. CASE ChildWakes(c)
  BY <1>3 DEF ChildWakes, SetupWork
<1>4. CASE SetupDone(c)
  BY <1>4 DEF SetupDone, InitWork
<1>5. CASE InitDone(c)
  BY <1>5 DEF InitDone
<1>6. CASE Exec(c)
  BY <1>6 DEF Exec
<1>7. ASSUME NEW e \in Entry, SetupMount(c, e) PROVE ChildMaps(c)' /\ ChildRoot(c)'
  BY <1>7 DEF SetupMount, At, First, Handled
<1>8. ASSUME NEW e \in Entry, SetupPid(c, e) PROVE ChildMaps(c)' /\ ChildRoot(c)'
  <2>1. \A f \in ctodo[c] : TypeOf[f] # "MOUNT"
    BY <1>8, MountBeforePid DEF SetupPid, At
  <2>2. cpc[c] = "setup" /\ TypeOf[e] = "PID" /\ root' = root
    BY <1>8 DEF SetupPid, At
  <2>3. CASE MayMountProc(c)
    BY <1>8, <2>1, <2>2, <2>3 DEF SetupPid, Handled
  <2>4. CASE ~MayMountProc(c)
    BY <1>8, <2>4 DEF SetupPid, Die
  <2> QED
    BY <2>3, <2>4
<1>9. ASSUME NEW e \in Entry, SetupUts(c, e) PROVE ChildMaps(c)' /\ ChildRoot(c)'
  BY <1>9 DEF SetupUts, At, First, Handled
<1>10. ASSUME NEW e \in Entry, SetUid(c, e) PROVE ChildMaps(c)' /\ ChildRoot(c)'
  BY <1>10 DEF SetUid, At, Die
<1>11. ASSUME NEW e \in Entry, SetGid(c, e) PROVE ChildMaps(c)' /\ ChildRoot(c)'
  BY <1>11 DEF SetGid, At, Handled, Die
<1>12. ASSUME NEW e \in Entry, InitMount(c, e) PROVE ChildMaps(c)' /\ ChildRoot(c)'
  BY <1>12 DEF InitMount, At, Handled
<1>13. CASE ChildFails(c) \/ Exit(c)
  BY <1>13 DEF ChildFails, Exit, Die
<1> QED
  BY <1>3, <1>4, <1>5, <1>6, <1>7, <1>8, <1>9, <1>10, <1>11, <1>12, <1>13 DEF ChildStep

-----------------------------------------------------------------------------
(* Steps of the daemon *)

LEMMA DaemonKeepsChildren ==
  ASSUME TypeOK, TypeOK', IInv, OnlyDaemon, NEW c \in Container
  PROVE  ChildMaps(c)' /\ ChildRoot(c)'
<1>1. /\ cpc' = cpc /\ ctodo' = ctodo /\ root' = root /\ procAt' = procAt /\ new' = new
      /\ maps[c] = AllMaps => maps'[c] = AllMaps
  BY DEF OnlyDaemon, childVars, staticVars, TypeOK, AllMaps
<1>2. ChildMaps(c) /\ ChildRoot(c)
  BY DEF IInv
<1> QED
  BY <1>1, <1>2 DEF ChildMaps, ChildRoot, Owns

\* A launch starts: what was created before is active, so no entry is created
\* a second time.
LEMMA RunKeepsPool ==
  ASSUME TypeOK, IInv, NEW c \in Container, NEW g \in Groups, NEW b \in Binary,
         RunContainer(c, g, b)
  PROVE  DaemonInv' /\ PoolInv' /\ PoolSafety' /\ MapsInv' /\ CgroupInv'
<1>0. /\ c \in Container /\ dpc = "idle" /\ dpc' = "tasks" /\ cur' = c
      /\ cpc[c] = "none" /\ cpc' = [cpc EXCEPT ![c] = "sleep"]
      /\ group' = [group EXCEPT ![c] = g]
      /\ new' = [new EXCEPT ![c] = g \ active]
      /\ UNCHANGED <<todo, active, fd, pids, cgroups, maps, hostProc>>
  BY DEF RunContainer, NewEntries, poolVars
<1>1. /\ cpc \in [Container -> ChildPC] /\ new \in [Container -> SUBSET Entry]
      /\ group \in [Container -> SUBSET Entry] /\ fd \in [Entry -> Container \cup {None}]
      /\ pids \in [Entry -> Seq(Container)]
  BY DEF TypeOK
<1>2. /\ new[c] = {}
      /\ \A d \in Container : new[d] \subseteq active
      /\ \A e \in Entry : fd[e] # None => e \in active
      /\ \A e \in active : pids[e] # <<>>
  BY <1>0 DEF IInv, PoolInv, Recorded
<1>3. DaemonInv'
  BY <1>0, <1>1 DEF DaemonInv, Recorded
<1>4. PoolInv'
  BY <1>0, <1>1, <1>2 DEF IInv, PoolInv, Recorded
<1>5. CreatedOnce'
  BY <1>0, <1>1, <1>2 DEF IInv, PoolSafety, CreatedOnce
<1>6. FirstPidIsCreator' /\ HandleNamesCreator' /\ ActiveIsComplete'
  <2>1. \A d \in Container : new[d] \subseteq new'[d]
    BY <1>0, <1>1, <1>2
  <2>2. \A e \in Entry : pids[e] # <<>> => Head(pids[e]) \in Container
    BY <1>1, HeadTailProperties
  <2>3. FirstPidIsCreator' /\ HandleNamesCreator'
    BY <1>0, <1>1, <2>1, <2>2, LaunchAssumption
       DEF IInv, PoolSafety, FirstPidIsCreator, HandleNamesCreator
  <2>4. ActiveIsComplete'
    BY <1>0, <2>1 DEF IInv, PoolSafety, ActiveIsComplete
  <2> QED
    BY <2>3, <2>4
<1>7. MapsInv' /\ CgroupInv'
  BY <1>0, <1>1 DEF IInv, MapsInv, CgroupInv
<1> QED
  BY <1>3, <1>4, <1>5, <1>6, <1>7 DEF PoolSafety

PoolPart == DaemonInv /\ PoolInv /\ PoolSafety /\ MapsInv /\ CgroupInv

\* The daemon ends, or fails before there is a child: what it kept is not
\* used any more, and what it created stays created once.
LEMMA DownKeepsPool ==
  ASSUME TypeOK, IInv, dpc' = "down",
         UNCHANGED <<cur, todo, poolVars, staticVars, childVars, cgroups, hostProc>>,
         UNCHANGED maps
  PROVE  PoolPart'
BY DEF IInv, PoolPart, DaemonInv, PoolInv, PoolSafety, MapsInv, CgroupInv, Recorded,
       CreatedOnce, FirstPidIsCreator, HandleNamesCreator, ActiveIsComplete, Owns,
       poolVars, staticVars, childVars

LEMMA AddToCgroupsKeepsPool ==
  ASSUME TypeOK, IInv, AddToTasks \/ AddToProcs
  PROVE  PoolPart'
<1>1. /\ dpc \in {"tasks", "procs"} /\ dpc' \in {"procs", "pids"} /\ cur \in Container
      /\ cgroups \in [Container -> SUBSET {"cpu_io", "mem_pid"}]
      /\ UNCHANGED <<cur, todo, active, fd, pids, group, new, cpc, maps, hostProc>>
  BY DEF AddToTasks, AddToProcs, TypeOK, poolVars, staticVars, childVars
<1>2. DaemonInv' /\ PoolInv'
  BY <1>1 DEF IInv, DaemonInv, PoolInv, Recorded
<1>3. PoolSafety'
  BY <1>1 DEF IInv, PoolSafety, CreatedOnce, FirstPidIsCreator, HandleNamesCreator, ActiveIsComplete
<1>4. MapsInv'
  BY <1>1 DEF IInv, MapsInv
<1>5. CgroupInv'
  <2>1. CASE AddToTasks
    BY <1>1, <2>1 DEF IInv, CgroupInv, AddToTasks
  <2>2. CASE AddToProcs
    BY <1>1, <2>2 DEF IInv, CgroupInv, AddToProcs
  <2> QED
    BY <2>1, <2>2
<1> QED
  BY <1>2, <1>3, <1>4, <1>5 DEF PoolPart

LEMMA AddPidsKeepsPool ==
  ASSUME TypeOK, IInv, AddPids
  PROVE  PoolPart'
<1>1. /\ dpc = "pids" /\ dpc' = "handles" /\ cur \in Container /\ cur # None
      /\ pids' = [e \in Entry |-> IF e \in group[cur] THEN Append(pids[e], cur) ELSE pids[e]]
      /\ todo' = group[cur] \ active /\ new[cur] = group[cur] \ active
      /\ group[cur] \subseteq Entry /\ active \subseteq Entry
      /\ UNCHANGED <<cur, active, fd, group, new, cpc, cgroups, maps, hostProc>>
  BY LaunchAssumption DEF AddPids, TypeOK, poolVars, staticVars, childVars, IInv, DaemonInv
<1>2. ASSUME NEW e \in Entry
      PROVE  /\ pids'[e] # <<>> <=> e \in group[cur] \/ pids[e] # <<>>
             /\ pids'[e] # <<>> =>
                  Head(pids'[e]) = IF pids[e] # <<>> THEN Head(pids[e]) ELSE cur
  <2>1. pids[e] \in Seq(Container)
    BY DEF TypeOK
  <2> QED
    BY <1>1, <2>1, HeadTailAppend
<1>3. DaemonInv'
  BY <1>1, <1>2 DEF IInv, DaemonInv, PoolInv, Recorded
<1>4. PoolInv'
  BY <1>1, <1>2 DEF IInv, PoolInv, Recorded
<1>5. FirstPidIsCreator'
  BY <1>1, <1>2 DEF IInv, PoolInv, PoolSafety, FirstPidIsCreator
<1>6. CreatedOnce' /\ HandleNamesCreator' /\ ActiveIsComplete'
  BY <1>1 DEF IInv, PoolSafety, CreatedOnce, HandleNamesCreator, ActiveIsComplete
<1>7. MapsInv' /\ CgroupInv'
  BY <1>1 DEF IInv, MapsInv, CgroupInv
<1> QED
  BY <1>3, <1>4, <1>5, <1>6, <1>7 DEF PoolPart, PoolSafety

LEMMA OpenHandleKeepsPool ==
  ASSUME TypeOK, IInv, NEW e \in Entry, OpenHandle(e)
  PROVE  PoolPart'
<1>1. PICK p \in Container : Reached(p) /\ SetFd(e, p)
  BY DEF OpenHandle
<1>2. /\ dpc = "handles" /\ e \in todo /\ todo' = todo \ {e} /\ cur \in Container
      /\ e \in new[cur] /\ p # None /\ fd \in [Entry -> Container \cup {None}]
      /\ UNCHANGED <<dpc, cur, active, pids, group, new, cpc, cgroups, maps, hostProc>>
  BY LaunchAssumption
     DEF OpenHandle, First, TypeOK, poolVars, staticVars, childVars, IInv, DaemonInv
<1>3. /\ fd'[e] # None /\ (\A f \in Entry \ {e} : fd'[f] = fd[f])
      /\ hostProc = None => fd'[e] = fd[e] \/ fd'[e] = cur
  BY <1>1, <1>2 DEF SetFd, Reached
<1>4. DaemonInv'
  BY <1>2, <1>3 DEF IInv, DaemonInv, TypeOK
<1>5. PoolInv'
  BY <1>2, <1>3 DEF IInv, PoolInv, Recorded
<1>6. HandleNamesCreator'
  BY <1>2, <1>3 DEF IInv, PoolSafety, HandleNamesCreator
<1>7. CreatedOnce' /\ FirstPidIsCreator' /\ ActiveIsComplete'
  <2>1. \A f \in active : f \in Entry /\ (fd[f] # None => fd'[f] # None)
    BY <1>2, <1>3 DEF TypeOK
  <2> QED
    BY <1>2, <2>1 DEF IInv, PoolSafety, CreatedOnce, FirstPidIsCreator, ActiveIsComplete
<1>8. MapsInv' /\ CgroupInv'
  BY <1>2 DEF IInv, MapsInv, CgroupInv
<1> QED
  BY <1>4, <1>5, <1>6, <1>7, <1>8 DEF PoolPart, PoolSafety

LEMMA HandlesDoneKeepsPool ==
  ASSUME TypeOK, IInv, HandlesDone
  PROVE  PoolPart'
<1>1. /\ dpc = "handles" /\ todo = {} /\ cur \in Container
      /\ dpc' = IF \E u \in group[cur] \ active : TypeOf[u] = "USER" THEN "uid_map" ELSE "activate"
      /\ UNCHANGED <<cur, todo, active, fd, pids, group, new, cpc, cgroups, maps, hostProc>>
      /\ new[cur] = group[cur] \ active
  BY DEF HandlesDone, TypeOK, poolVars, staticVars, childVars, IInv, DaemonInv
<1>2. DaemonInv' /\ PoolInv'
  BY <1>1 DEF IInv, DaemonInv, PoolInv, Recorded
<1>3. PoolSafety'
  BY <1>1 DEF IInv, PoolSafety, CreatedOnce, FirstPidIsCreator, HandleNamesCreator, ActiveIsComplete
<1>4. MapsInv' /\ CgroupInv'
  BY <1>1 DEF IInv, MapsInv, CgroupInv, Owns
<1> QED
  BY <1>2, <1>3, <1>4 DEF PoolPart

\* The daemon writes the files of the launched child itself: it is the first
\* process recorded in the entry, and the only one that created it.
LEMMA WriteMapKeepsPool ==
  ASSUME TypeOK, TypeOK', IInv, NEW u \in Entry, WriteMap(u)
  PROVE  PoolPart'
<1>1. /\ dpc \in {"uid_map", "setgroups", "gid_map"} /\ cur \in Container
      /\ u \in new[cur] /\ pids[u] # <<>>
      /\ UNCHANGED <<cur, todo, active, fd, pids, group, new, prog, cpc, ctodo, root, procAt,
                     cgroups, hostProc>>
  BY DEF WriteMap, TypeOK, poolVars, staticVars, childVars, IInv, DaemonInv, Recorded
<1>2. Head(pids[u]) = cur
  <2>1. Head(pids[u]) \in Container
    BY <1>1, HeadTailProperties DEF TypeOK
  <2> QED
    BY <1>1, <2>1 DEF IInv, PoolSafety, FirstPidIsCreator, CreatedOnce
<1>3. CASE dpc' = "down" /\ UNCHANGED maps
  BY <1>1, <1>3, DownKeepsPool DEF poolVars, staticVars, childVars
<1>4. CASE maps' = [maps EXCEPT ![cur] = @ \cup {dpc}] /\ dpc' = AfterMap(dpc)
  <2>0. maps \in [Container -> SUBSET AllMaps]
    BY DEF TypeOK, AllMaps
  <2>1. DaemonInv' /\ PoolInv'
    BY <1>1, <1>4 DEF AfterMap, IInv, DaemonInv, PoolInv, Recorded
  <2>2. \A c \in Container : maps[c] \subseteq maps'[c] /\ maps'[c] \subseteq AllMaps
    BY <1>1, <1>4, <2>0 DEF AllMaps
  <2>3. CreatedOnce' /\ FirstPidIsCreator' /\ HandleNamesCreator'
    BY <1>1 DEF IInv, PoolSafety, CreatedOnce, FirstPidIsCreator, HandleNamesCreator
  <2>4. ActiveIsComplete'
    BY <1>1, <2>2 DEF IInv, PoolSafety, ActiveIsComplete, AllMaps
  <2>5. MapsInv'
    <3>1. dpc = "uid_map" \/ dpc = "setgroups" \/ dpc = "gid_map"
      BY <1>1
    <3>2. \A c \in Container : c # cur => maps'[c] = maps[c]
      BY <1>4, <2>0
    <3>3. maps'[cur] = maps[cur] \cup {dpc}
      BY <1>1, <1>4, <2>0
    <3>4. (dpc # "gid_map" /\ "gid_map" \notin maps[cur]) \/ maps'[cur] = AllMaps
      BY <1>1, <2>0, <3>1, <3>3 DEF IInv, MapsInv, AllMaps
    <3> QED
      BY <1>1, <1>4, <3>1, <3>2, <3>3, <3>4 DEF IInv, MapsInv, AfterMap
  <2>6. CgroupInv'
    BY <1>1, <1>4 DEF AfterMap, IInv, CgroupInv
  <2> QED
    BY <2>1, <2>3, <2>4, <2>5, <2>6 DEF PoolPart, PoolSafety
<1> QED
  BY <1>2, <1>3, <1>4 DEF WriteMap

LEMMA ActivateKeepsPool ==
  ASSUME TypeOK, IInv, Activate
  PROVE  PoolPart'
<1>1. /\ dpc = "activate" /\ dpc' = "sleep" /\ cur \in Container
      /\ active' = active \cup group[cur] /\ group[cur] \subseteq Entry
      /\ new[cur] = group[cur] \ active
      /\ UNCHANGED <<cur, todo, fd, pids, group, new, cpc, cgroups, maps, hostProc>>
  BY DEF Activate, TypeOK, poolVars, staticVars, childVars, IInv, DaemonInv
<1>2. /\ todo = {}
      /\ \A e \in group[cur] : pids[e] # <<>>
      /\ \A e \in new[cur] : fd[e] # None
      /\ Owns(cur, "USER") => maps[cur] = AllMaps
  BY <1>1 DEF IInv, DaemonInv, MapsInv, Recorded
<1>3. DaemonInv' /\ PoolInv'
  BY <1>1, <1>2 DEF IInv, DaemonInv, PoolInv, Recorded
<1>4. CreatedOnce' /\ FirstPidIsCreator' /\ HandleNamesCreator'
  BY <1>1 DEF IInv, PoolSafety, CreatedOnce, FirstPidIsCreator, HandleNamesCreator
<1>5. ActiveIsComplete'
  BY <1>1, <1>2 DEF IInv, PoolSafety, ActiveIsComplete, Owns, AllMaps
<1>6. MapsInv' /\ CgroupInv'
  BY <1>1 DEF IInv, MapsInv, CgroupInv
<1> QED
  BY <1>3, <1>4, <1>5, <1>6 DEF PoolPart, PoolSafety

LEMMA WakeUpKeepsPool ==
  ASSUME TypeOK, IInv, WakeUp
  PROVE  PoolPart'
<1>1. /\ dpc = "sleep" /\ dpc' = "idle"
      /\ UNCHANGED <<todo, active, fd, pids, group, new, cpc, cgroups, maps, hostProc>>
  BY DEF WakeUp, poolVars, staticVars, childVars
<1>2. DaemonInv' /\ PoolInv'
  BY <1>1 DEF IInv, DaemonInv, PoolInv, Recorded
<1>3. PoolSafety'
  BY <1>1 DEF IInv, PoolSafety, CreatedOnce, FirstPidIsCreator, HandleNamesCreator, ActiveIsComplete
<1>4. MapsInv' /\ CgroupInv'
  BY <1>1 DEF IInv, MapsInv, CgroupInv
<1> QED
  BY <1>2, <1>3, <1>4 DEF PoolPart

-----------------------------------------------------------------------------
(* The theorems *)

\* The inductive invariant holds in every behaviour.
THEOREM Invariance == Safety => []IInv
<1>1. Init => IInv
  <2> SUFFICES ASSUME Init PROVE IInv
    OBVIOUS
  <2>1. DaemonInv /\ PoolInv /\ MapsInv /\ CgroupInv
    BY LaunchAssumption DEF Init, DaemonInv, PoolInv, MapsInv, CgroupInv, Recorded
  <2>2. PoolSafety
    BY DEF Init, PoolSafety, CreatedOnce, FirstPidIsCreator, HandleNamesCreator, ActiveIsComplete
  <2>3. \A c \in Container : ChildMaps(c) /\ ChildRoot(c)
    BY DEF Init, ChildMaps, ChildRoot
  <2> QED
    BY <2>1, <2>2, <2>3 DEF IInv
<1>2. TypeOK /\ TypeOK' /\ IInv /\ [Next]_vars => IInv'
  <2> SUFFICES ASSUME TypeOK, TypeOK', IInv, [Next]_vars PROVE IInv'
    OBVIOUS
  <2>1. ASSUME NEW c \in Container, ChildStep(c) \/ ChildFails(c) \/ Exit(c) PROVE IInv'
    <3>1. OnlyChild(c)
      BY <2>1, ChildFrame
    <3>2. DaemonInv' /\ PoolInv' /\ PoolSafety' /\ MapsInv' /\ CgroupInv'
      BY <3>1, ChildKeepsPool
    <3>3. ChildMaps(c)' /\ ChildRoot(c)'
      BY <2>1, ChildKeepsItself
    <3>4. \A d \in Container \ {c} : ChildMaps(d)' /\ ChildRoot(d)'
      BY <3>1, ChildKeepsOthers
    <3> QED
      BY <3>2, <3>3, <3>4 DEF IInv
  <2>2. CASE DaemonStep \/ DaemonFails
    <3>1. \A c \in Container : ChildMaps(c)' /\ ChildRoot(c)'
      BY <2>2, DaemonFrame, DaemonKeepsChildren
    <3>2. PoolPart'
      <4>1. CASE DaemonFails \/ HandleMissing
        BY <4>1, DownKeepsPool DEF DaemonFails, HandleMissing
      <4>2. CASE AddToTasks \/ AddToProcs
        BY <4>2, AddToCgroupsKeepsPool
      <4>3. CASE AddPids
        BY <4>3, AddPidsKeepsPool
      <4>4. CASE \E e \in Entry : OpenHandle(e)
        BY <4>4, OpenHandleKeepsPool
      <4>5. CASE HandlesDone
        BY <4>5, HandlesDoneKeepsPool
      <4>6. CASE \E u \in Entry : WriteMap(u)
        BY <4>6, WriteMapKeepsPool
      <4>7. CASE Activate
        BY <4>7, ActivateKeepsPool
      <4>8. CASE WakeUp
        BY <4>8, WakeUpKeepsPool
      <4> QED
        BY <2>2, <4>1, <4>2, <4>3, <4>4, <4>5, <4>6, <4>7, <4>8 DEF DaemonStep
    <3> QED
      BY <3>1, <3>2 DEF IInv, PoolPart
  <2>3. ASSUME NEW c \in Container, NEW b \in Binary, RunContainerFails(c, b) PROVE IInv'
    <3>1. PoolPart'
      BY <2>3, DownKeepsPool DEF RunContainerFails
    <3>2. OnlyDaemon
      BY <2>3 DEF OnlyDaemon, RunContainerFails
    <3> QED
      BY <3>1, <3>2, DaemonKeepsChildren DEF IInv, PoolPart
  <2>4. ASSUME NEW c \in Container, NEW b \in Binary, NEW g \in Groups, RunContainer(c, g, b)
        PROVE  IInv'
    <3>1. DaemonInv' /\ PoolInv' /\ PoolSafety' /\ MapsInv' /\ CgroupInv'
      BY <2>4, RunKeepsPool
    <3>2. ASSUME NEW d \in Container PROVE ChildMaps(d)' /\ ChildRoot(d)'
      <4>1. /\ cpc' = [cpc EXCEPT ![c] = "sleep"] /\ cpc \in [Container -> ChildPC]
            /\ UNCHANGED <<ctodo, root, procAt, maps>>
            /\ d # c => new'[d] = new[d]
        BY <2>4 DEF RunContainer, TypeOK
      <4>2. ChildMaps(d) /\ ChildRoot(d)
        BY DEF IInv
      <4> QED
        BY <4>1, <4>2 DEF ChildMaps, ChildRoot, Owns
    <3> QED
      BY <3>1, <3>2 DEF IInv
  <2>5. CASE UNCHANGED vars
    <3>1. OnlyDaemon
      BY <2>5 DEF OnlyDaemon, vars, childVars, staticVars
    <3>2. PoolPart'
      BY <2>5 DEF IInv, PoolPart, DaemonInv, PoolInv, PoolSafety, MapsInv, CgroupInv,
         CreatedOnce, FirstPidIsCreator, HandleNamesCreator, ActiveIsComplete, Owns, vars
    <3> QED
      BY <3>1, <3>2, DaemonKeepsChildren DEF IInv, PoolPart
  <2> QED
    BY <2>1, <2>2, <2>3, <2>4, <2>5 DEF Next
<1> QED
  BY <1>1, <1>2, TypeCorrect, PTL DEF Safety

\* However many containers name it and in whatever order they are launched, a
\* declared namespace is created by one of them.
THEOREM NamespacesCreatedOnce == Safety => []CreatedOnce
<1>1. IInv => CreatedOnce
  BY DEF IInv, PoolSafety
<1> QED
  BY <1>1, Invariance, PTL

\* The process whose id maps the daemon writes is the one the namespace was
\* created with.
THEOREM MapsGoToCreator == Safety => []FirstPidIsCreator
<1>1. IInv => FirstPidIsCreator
  BY DEF IInv, PoolSafety
<1> QED
  BY <1>1, Invariance, PTL

\* The handle of an entry is one of the namespace its creator made.
THEOREM HandlesCorrect == Safety => []HandleNamesCreator
<1>1. IInv => HandleNamesCreator
  BY DEF IInv, PoolSafety
<1> QED
  BY <1>1, Invariance, PTL

\* An active entry is one whose launch came to its end.
THEOREM ActiveCorrect == Safety => []ActiveIsComplete
<1>1. IInv => ActiveIsComplete
  BY DEF IInv, PoolSafety
<1> QED
  BY <1>1, Invariance, PTL

\* No program runs in a new user namespace before its maps are written,
\* whatever the order in which the daemon and the child run.
THEOREM ProgramHasMaps == Safety => []MapsBeforeProgram
<1>1. IInv => MapsBeforeProgram
  BY DEF IInv, ChildMaps, MapsBeforeProgram, AllMaps
<1> QED
  BY <1>1, Invariance, PTL

\* A program is outside a cgroup only during, or after the failure of, the
\* daemon's attempt to add it.
THEOREM ProgramConfined == Safety => []ConfinedOrLaunching
<1>1. IInv => ConfinedOrLaunching
  BY DEF IInv, CgroupInv, ConfinedOrLaunching
<1> QED
  BY <1>1, Invariance, PTL

\* A program with a mount namespace of its own has a root and a /proc of its own.
THEOREM ProgramIsolated == Safety => []IsolatedRoot
<1>1. IInv => IsolatedRoot
  BY DEF IInv, ChildRoot, IsolatedRoot
<1> QED
  BY <1>1, Invariance, PTL

-----------------------------------------------------------------------------
(* Launch implements NsLifecycle *)

LEMMA CreatorOfNew ==
  ASSUME CreatedOnce, NEW c \in Container, NEW e \in new[c]
  PROVE  Creator(e) = c
<1>1. \A d \in Container : e \in new[d] => d = c
  BY DEF CreatedOnce
<1>2. (CHOOSE d \in Container : e \in new[d]) = c
  BY <1>1
<1> QED
  BY <1>2 DEF Creator

LEMMA CreatorOfNothing ==
  ASSUME NEW e, \A c \in Container : e \notin new[c]
  PROVE  Creator(e) = None
BY DEF Creator

\* The abstract state is a function of the pool and of what was created.
LEMMA SamePhases ==
  ASSUME UNCHANGED <<new, active, fd>>
  PROVE  UNCHANGED Lifecycle!vars
<1>1. \A e \in Entry : Creator(e)' = Creator(e)
  BY DEF Creator
<1>2. \A e \in Entry : Phase(e)' = Phase(e)
  BY <1>1 DEF Phase
<1> QED
  BY <1>1, <1>2 DEF Lifecycle!vars

LEMMA RunIsCreate ==
  ASSUME TypeOK, IInv, IInv', NEW c \in Container, NEW g \in Groups, NEW b \in Binary,
         RunContainer(c, g, b)
  PROVE  Lifecycle!Next
<1> DEFINE S == g \ active
<1>1. /\ dpc = "idle" /\ cpc[c] = "none" /\ UNCHANGED <<active, fd>>
      /\ new \in [Container -> SUBSET Entry] /\ new' = [new EXCEPT ![c] = S]
      /\ S \in SUBSET Entry /\ None \notin Container
  BY LaunchAssumption DEF RunContainer, NewEntries, poolVars, TypeOK
<1>2. /\ new[c] = {}
      /\ \A d \in Container : new[d] \subseteq active
      /\ \A e \in Entry \ active : fd[e] = None
  BY <1>1 DEF IInv, PoolInv, Recorded
<1>3. CreatedOnce /\ CreatedOnce'
  BY DEF IInv, PoolSafety
<1>4. \A e \in Entry \ active : Creator(e) = None /\ Phase(e) = "declared"
  BY <1>2, CreatorOfNothing DEF Phase
<1>5. Lifecycle!Settled
  BY <1>4 DEF Lifecycle!Settled, Phase
<1>6. Lifecycle!CreatedBy(c) = {}
  <2>1. \A e \in Entry : Creator(e) # c
    BY <1>1, <1>2 DEF Creator
  <2> QED
    BY <2>1 DEF Lifecycle!CreatedBy
<1>7. \A e \in Entry : Creator(e)' = IF e \in S THEN c ELSE Creator(e)
  <2> TAKE e \in Entry
  <2>1. CASE e \in S
    <3>1. e \in new'[c]
      BY <1>1, <2>1
    <3>2. \A d \in Container : e \in new'[d] => d = c
      BY <1>3, <3>1 DEF CreatedOnce
    <3> QED
      BY <2>1, <3>1, <3>2 DEF Creator
  <2>2. CASE e \notin S
    <3>1. \A d \in Container : e \in new'[d] <=> e \in new[d]
      BY <1>1, <1>2, <2>2
    <3> QED
      BY <2>2, <3>1 DEF Creator
  <2> QED
    BY <2>1, <2>2
<1>8. \A e \in Entry : Phase(e)' = IF e \in S THEN "created" ELSE Phase(e)
  BY <1>1, <1>2, <1>7 DEF Phase
<1>9. Lifecycle!Create(c, S)
  BY <1>1, <1>4, <1>5, <1>6, <1>7, <1>8 DEF Lifecycle!Create, Lifecycle!Move
<1> QED
  BY <1>1, <1>9 DEF Lifecycle!Next

LEMMA OpenHandleIsOpen ==
  ASSUME TypeOK, IInv, NEW e \in Entry, OpenHandle(e)
  PROVE  Lifecycle!Next
<1>1. PICK p \in Container : Reached(p) /\ SetFd(e, p)
  BY DEF OpenHandle
<1>2. /\ dpc = "handles" /\ e \in todo /\ cur \in Container /\ e \in new[cur] /\ e \notin active
      /\ UNCHANGED <<new, active>> /\ fd \in [Entry -> Container \cup {None}] /\ p # None
  BY LaunchAssumption
     DEF OpenHandle, First, TypeOK, IInv, DaemonInv, poolVars, staticVars
<1>3. fd[e] = None /\ fd' = [fd EXCEPT ![e] = p]
  BY <1>1, <1>2 DEF IInv, PoolInv, SetFd
<1>4. Creator(e) = cur /\ cur # None
  BY <1>2, CreatorOfNew, LaunchAssumption DEF IInv, PoolSafety
<1>5. \A f \in Entry : Creator(f)' = Creator(f)
  BY <1>2 DEF Creator
<1>6. Phase(e) = "created"
  BY <1>2, <1>3, <1>4 DEF Phase
<1>7. \A f \in Entry : Phase(f)' = IF f \in {e} THEN "open" ELSE Phase(f)
  BY <1>2, <1>3, <1>5 DEF Phase
<1>8. Lifecycle!Open(e)
  BY <1>5, <1>6, <1>7 DEF Lifecycle!Open, Lifecycle!Move
<1> QED
  BY <1>8 DEF Lifecycle!Next

LEMMA ActivateIsActivate ==
  ASSUME TypeOK, IInv, Activate
  PROVE  Lifecycle!Next
<1>1. /\ cur \in Container /\ UNCHANGED <<new, fd>> /\ active' = active \cup group[cur]
      /\ new[cur] = group[cur] \ active /\ new[cur] \subseteq Entry /\ None \notin Container
      /\ \A e \in new[cur] : fd[e] # None
  BY LaunchAssumption
     DEF Activate, TypeOK, IInv, DaemonInv, Recorded, staticVars
<1>2. \A e \in Entry : Creator(e) = cur <=> e \in new[cur]
  <2>1. \A e \in new[cur] : Creator(e) = cur
    BY <1>1, CreatorOfNew DEF IInv, PoolSafety
  <2>2. \A e \in Entry : Creator(e) = cur => e \in new[cur]
    BY <1>1 DEF Creator
  <2> QED
    BY <2>1, <2>2
<1>3. \A e \in Entry : Creator(e)' = Creator(e)
  BY <1>1 DEF Creator
<1>4. Lifecycle!CreatedBy(cur) = new[cur]
  BY <1>1, <1>2 DEF Lifecycle!CreatedBy
<1>5. \A e \in new[cur] : Phase(e) = "open"
  BY <1>1 DEF Phase
<1>6. \A e \in Entry : Phase(e)' = IF e \in new[cur] THEN "active" ELSE Phase(e)
  BY <1>1, <1>3 DEF Phase
<1>7. Lifecycle!Activate(cur)
  BY <1>1, <1>3, <1>4, <1>5, <1>6 DEF Lifecycle!Activate, Lifecycle!Move
<1> QED
  BY <1>1, <1>7 DEF Lifecycle!Next

\* Launches, failures and children in any interleaving drive every declared
\* namespace through the life cycle of NsLifecycle.
THEOREM ImplementsLifecycle == Safety => LifecycleSpec
<1>1. Init => Lifecycle!Init
  <2> SUFFICES ASSUME Init PROVE Lifecycle!Init
    OBVIOUS
  <2>1. \A e \in Entry : Creator(e) = None
    BY CreatorOfNothing DEF Init
  <2>2. \A e \in Entry : Phase(e) = "declared"
    BY <2>1 DEF Phase, Init
  <2> QED
    BY <2>1, <2>2 DEF Lifecycle!Init
<1>2. TypeOK /\ IInv /\ IInv' /\ [Next]_vars => [Lifecycle!Next]_(Lifecycle!vars)
  <2> SUFFICES ASSUME TypeOK, IInv, IInv', [Next]_vars
               PROVE  Lifecycle!Next \/ UNCHANGED Lifecycle!vars
    OBVIOUS
  <2>1. CASE \E c \in Container, g \in Groups, b \in Binary : RunContainer(c, g, b)
    BY <2>1, RunIsCreate
  <2>2. CASE \E e \in Entry : OpenHandle(e)
    BY <2>2, OpenHandleIsOpen
  <2>3. CASE Activate
    BY <2>3, ActivateIsActivate
  <2>4. CASE UNCHANGED <<new, active, fd>>
    BY <2>4, SamePhases
  <2>5. CASE \E c \in Container : ChildStep(c) \/ ChildFails(c) \/ Exit(c)
    BY <2>4, <2>5, ChildFrame DEF OnlyChild, daemonVars, poolVars, staticVars
  <2>6. CASE DaemonFails \/ \E c \in Container, b \in Binary : RunContainerFails(c, b)
    BY <2>4, <2>6 DEF DaemonFails, RunContainerFails, poolVars, staticVars
  <2>7. CASE AddToTasks \/ AddToProcs \/ AddPids
    BY <2>4, <2>7 DEF AddToTasks, AddToProcs, AddPids, poolVars, staticVars
  <2>8. CASE HandleMissing \/ HandlesDone \/ WakeUp \/ \E u \in Entry : WriteMap(u)
    BY <2>4, <2>8 DEF HandleMissing, HandlesDone, WakeUp, WriteMap, poolVars, staticVars
  <2>9. CASE UNCHANGED vars
    BY <2>4, <2>9 DEF vars
  <2> QED
    BY <2>1, <2>2, <2>3, <2>5, <2>6, <2>7, <2>8, <2>9 DEF Next, DaemonStep
<1> QED
  BY <1>1, <1>2, TypeCorrect, Invariance, PTL DEF Safety, LifecycleSpec, Lifecycle!Spec

-----------------------------------------------------------------------------
(* Launch implements LaunchOutcome *)

\* The abstract state: what is settled, with its namespaces, and what is alive.
SettledSet == {c \in Container : Settled(c)}
AliveSet == {c \in Container : Settled(c) /\ cpc[c] # "dead"}

\* Nothing happens as long as the daemon neither ends nor marks anything active
\* and what is settled stays as it is.
LEMMA SameOutcome ==
  ASSUME (dpc' = "down") <=> (dpc = "down"), dpc # "down" => active' = active,
         \A c \in Container :
           /\ Settled(c)' <=> Settled(c)
           /\ Settled(c) => group'[c] = group[c] /\ (cpc'[c] = "dead" <=> cpc[c] = "dead")
  PROVE  UNCHANGED Outcome!vars
<1>1. SettledSet' = SettledSet /\ AliveSet' = AliveSet
  BY DEF SettledSet, AliveSet
<1>2. [c \in SettledSet |-> group[c]]' = [c \in SettledSet |-> group[c]]
  BY <1>1 DEF SettledSet
<1>3. (IF dpc = "down" THEN {} ELSE active)' = IF dpc = "down" THEN {} ELSE active
  OBVIOUS
<1>4. (dpc # "down")' = (dpc # "down")
  OBVIOUS
<1> QED
  BY <1>1, <1>2, <1>3, <1>4 DEF Outcome!vars, SettledSet, AliveSet

\* The launch under way comes to something: its child joins what is settled.
LEMMA CurSettles ==
  ASSUME TypeOK, IInv, dpc \in Launching, dpc' \notin Launching,
         UNCHANGED <<cur, group, cpc>>, NEW c \in Container, c = cur
  PROVE  /\ c \in SettledSet' /\ Outcome!Launched(c)
<1>1. /\ cpc[c] # "none" /\ ~Settled(c) /\ Settled(c)'
      /\ \A d \in Container : d # c => (Settled(d)' <=> Settled(d))
  BY DEF TypeOK, IInv, DaemonInv, Settled
<1>2. c \notin SettledSet /\ SettledSet' = SettledSet \cup {c}
  BY <1>1 DEF SettledSet
<1>3. AliveSet' \in {AliveSet, AliveSet \cup {c}}
  <2>1. AliveSet' = IF cpc[c] # "dead" THEN AliveSet \cup {c} ELSE AliveSet
    BY <1>1 DEF AliveSet
  <2> QED
    BY <2>1
<1>4. [x \in SettledSet' |-> group'[x]] =
        [d \in SettledSet \cup {c} |->
           IF d = c THEN [x \in SettledSet' |-> group'[x]][c]
                    ELSE [x \in SettledSet |-> group[x]][d]]
  BY <1>2
<1> QED
  BY <1>1, <1>2, <1>3, <1>4 DEF Outcome!Launched, SettledSet, AliveSet

LEMMA ActivateIsSucceed ==
  ASSUME TypeOK, IInv, Activate
  PROVE  Outcome!Next
<1>1. /\ dpc = "activate" /\ dpc' = "sleep" /\ active' = active \cup group[cur]
      /\ UNCHANGED <<cur, group, cpc>>
  BY DEF Activate, staticVars, childVars
<1>2. PICK c \in Container : c = cur
  BY <1>1 DEF TypeOK
<1>3. c \in SettledSet' /\ Outcome!Launched(c)
  BY <1>1, <1>2, CurSettles
<1>4. /\ c \in DOMAIN [x \in SettledSet' |-> group'[x]]
      /\ [x \in SettledSet' |-> group'[x]][c] = group[c]
  BY <1>1, <1>3
<1>5. Outcome!Succeed(c)
  BY <1>1, <1>2, <1>3, <1>4 DEF Outcome!Succeed, SettledSet
<1> QED
  BY <1>4, <1>5 DEF Outcome!Next, SettledSet

LEMMA DownIsAbandon ==
  ASSUME TypeOK, IInv, dpc \in Launching, dpc' = "down", UNCHANGED <<cur, group, cpc>>
  PROVE  Outcome!Next
<1>1. PICK c \in Container : c = cur
  BY DEF TypeOK
<1>2. c \in SettledSet' /\ Outcome!Launched(c)
  BY <1>1, CurSettles
<1>3. c \in DOMAIN [x \in SettledSet' |-> group'[x]]
  BY <1>2
<1>4. Outcome!Abandon(c)
  BY <1>2 DEF Outcome!Abandon
<1> QED
  BY <1>3, <1>4 DEF Outcome!Next, SettledSet

\* A request that fails before the clone leaves nothing but a daemon that ended.
LEMMA FailureIsEnd ==
  ASSUME TypeOK, NEW c \in Container, NEW b \in Binary, RunContainerFails(c, b)
  PROVE  Outcome!Next
<1>1. /\ dpc = "idle" /\ dpc' = "down" /\ UNCHANGED <<cur, group, cpc>>
  BY DEF RunContainerFails, staticVars, childVars
<1>2. \A d \in Container : Settled(d)' <=> Settled(d)
  BY <1>1 DEF Settled
<1>3. SettledSet' = SettledSet /\ AliveSet' = AliveSet
  BY <1>1, <1>2 DEF SettledSet, AliveSet
<1>4. [d \in SettledSet |-> group[d]]' = [d \in SettledSet |-> group[d]]
  BY <1>1, <1>3
<1>5. Outcome!End
  BY <1>1, <1>3, <1>4 DEF Outcome!End, SettledSet, AliveSet
<1> QED
  BY <1>5 DEF Outcome!Next

LEMMA RunIsNothing ==
  ASSUME TypeOK, NEW c \in Container, NEW g \in Groups, NEW b \in Binary, RunContainer(c, g, b)
  PROVE  UNCHANGED Outcome!vars
<1>1. /\ dpc = "idle" /\ cpc[c] = "none" /\ dpc' = "tasks" /\ cur' = c
      /\ cpc' = [cpc EXCEPT ![c] = "sleep"] /\ group' = [group EXCEPT ![c] = g]
      /\ active' = active
  BY DEF RunContainer, poolVars
<1>2. \A d \in Container : d # c => cpc'[d] = cpc[d] /\ group'[d] = group[d]
  BY <1>1 DEF TypeOK
<1>3. \A d \in Container :
        /\ Settled(d)' <=> Settled(d)
        /\ Settled(d) => group'[d] = group[d] /\ (cpc'[d] = "dead" <=> cpc[d] = "dead")
  BY <1>1, <1>2 DEF Settled
<1> QED
  BY <1>1, <1>3, SameOutcome

\* A step of a child of a settled launch is nothing, or its end; before the
\* launch is settled it is nothing to anyone.
LEMMA ChildIsExit ==
  ASSUME TypeOK, NEW c \in Container, OnlyChild(c), cpc[c] # "dead"
  PROVE  Outcome!Next \/ UNCHANGED Outcome!vars
<1>1. /\ UNCHANGED <<dpc, cur, active, group>>
      /\ cpc[c] # "none" /\ cpc'[c] # "none"
      /\ \A d \in Container : d # c => cpc'[d] = cpc[d]
  BY DEF OnlyChild, daemonVars, poolVars, staticVars
<1>2. \A d \in Container : Settled(d)' <=> Settled(d)
  BY <1>1 DEF Settled
<1>3. CASE Settled(c) /\ cpc'[c] = "dead"
  <2>1. c \in AliveSet /\ SettledSet' = SettledSet /\ AliveSet' = AliveSet \ {c}
    BY <1>1, <1>2, <1>3 DEF SettledSet, AliveSet
  <2>2. [d \in SettledSet |-> group[d]]' = [d \in SettledSet |-> group[d]]
    BY <1>1, <2>1
  <2>3. Outcome!Exit(c)
    BY <1>1, <2>1, <2>2 DEF Outcome!Exit, SettledSet, AliveSet
  <2> QED
    BY <2>1, <2>3 DEF Outcome!Next, AliveSet
<1>4. CASE ~(Settled(c) /\ cpc'[c] = "dead")
  BY <1>1, <1>2, <1>4, SameOutcome
<1> QED
  BY <1>3, <1>4

\* The other steps of the daemon go on with a launch, or forget it when its
\* outcome is known.
LEMMA DaemonIsNothing ==
  ASSUME TypeOK, UNCHANGED <<active, group, cpc>>,
         \/ UNCHANGED cur /\ dpc \in Launching /\ dpc' \in Launching
         \/ UNCHANGED <<dpc, cur>>
         \/ WakeUp
  PROVE  UNCHANGED Outcome!vars
<1>1. CASE UNCHANGED cur /\ dpc \in Launching /\ dpc' \in Launching
  BY <1>1, SameOutcome DEF Settled
<1>2. CASE UNCHANGED <<dpc, cur>>
  BY <1>2, SameOutcome DEF Settled
<1>3. CASE WakeUp
  BY <1>3, SameOutcome DEF Settled, WakeUp
<1> QED
  BY <1>1, <1>2, <1>3

\* Whatever the daemon and the children do meanwhile, and whichever of their
\* system calls fails, a launch comes to one of the outcomes of LaunchOutcome.
THEOREM ImplementsOutcome == Safety => OutcomeSpec
<1>1. Init => Outcome!Init
  <2> SUFFICES ASSUME Init PROVE Outcome!Init
    OBVIOUS
  <2>1. SettledSet = {} /\ AliveSet = {}
    BY DEF Init, SettledSet, AliveSet, Settled
  <2>2. [c \in SettledSet |-> group[c]] = [c \in {} |-> {}]
    BY <2>1
  <2> QED
    BY <2>1, <2>2 DEF Outcome!Init, Init, SettledSet, AliveSet
<1>2. TypeOK /\ IInv /\ [Next]_vars => [Outcome!Next]_(Outcome!vars)
  <2> SUFFICES ASSUME TypeOK, IInv, [Next]_vars
               PROVE  Outcome!Next \/ UNCHANGED Outcome!vars
    OBVIOUS
  <2> USE DEF poolVars, staticVars, childVars
  <2>1. CASE \E c \in Container, g \in Groups, b \in Binary : RunContainer(c, g, b)
    BY <2>1, RunIsNothing
  <2>2. CASE \E c \in Container, b \in Binary : RunContainerFails(c, b)
    BY <2>2, FailureIsEnd
  <2>3. CASE Activate
    BY <2>3, ActivateIsSucceed
  <2>4. CASE DaemonFails \/ HandleMissing
    BY <2>4, DownIsAbandon DEF DaemonFails, HandleMissing
  <2>5. CASE AddToTasks \/ AddToProcs \/ AddPids \/ HandlesDone
    BY <2>5, DaemonIsNothing DEF AddToTasks, AddToProcs, AddPids, HandlesDone
  <2>6. CASE \E e \in Entry : OpenHandle(e)
    BY <2>6, DaemonIsNothing DEF OpenHandle
  <2>7. ASSUME NEW u \in Entry, WriteMap(u) PROVE Outcome!Next \/ UNCHANGED Outcome!vars
    <3>1. dpc \in Launching /\ UNCHANGED <<active, group, cpc, cur>>
      BY <2>7 DEF WriteMap
    <3>2. CASE dpc' = "down"
      BY <3>1, <3>2, DownIsAbandon
    <3>3. CASE dpc' # "down"
      <4>1. dpc' \in Launching
        BY <2>7, <3>3 DEF WriteMap, AfterMap
      <4> QED
        BY <3>1, <4>1, DaemonIsNothing
    <3> QED
      BY <3>2, <3>3
  <2>8. CASE WakeUp
    BY <2>8, DaemonIsNothing DEF WakeUp
  <2>9. ASSUME NEW c \in Container, ChildStep(c) \/ ChildFails(c) \/ Exit(c)
        PROVE  Outcome!Next \/ UNCHANGED Outcome!vars
    <3>1. cpc[c] # "dead"
      BY <2>9 DEF ChildStep, ChildFails, Exit, ChildWakes, SetupDone, InitDone, Exec,
         SetupMount, SetupPid, SetupUts, SetUid, SetGid, InitMount, At
    <3> QED
      BY <2>9, <3>1, ChildFrame, ChildIsExit
  <2>10. CASE UNCHANGED vars
    BY <2>10, DaemonIsNothing DEF vars
  <2> QED
    BY <2>1, <2>2, <2>3, <2>4, <2>5, <2>6, <2>7, <2>8, <2>9, <2>10 DEF Next, DaemonStep
<1> QED
  BY <1>1, <1>2, TypeCorrect, Invariance, PTL DEF Safety, OutcomeSpec, Outcome!Spec

OutcomeFacts == INSTANCE OutcomeProofs WITH
  running <- dpc # "down",
  active <- IF dpc = "down" THEN {} ELSE active,
  group <- [c \in {d \in Container : Settled(d)} |-> group[c]],
  alive <- {c \in Container : Settled(c) /\ cpc[c] # "dead"}

\* What the outcomes imply holds of the launches: as long as the daemon runs, the
\* namespaces of every container alive whose launch is over are active.
THEOREM LaunchedKnown == Safety => []Outcome!Known
<1>1. OutcomeSpec => OutcomeFacts!Spec
  <2>1. Outcome!Init => OutcomeFacts!Init
    BY DEF Outcome!Init, OutcomeFacts!Init
  <2>2. [Outcome!Next]_(Outcome!vars) => [OutcomeFacts!Next]_(OutcomeFacts!vars)
    BY DEF Outcome!Next, OutcomeFacts!Next, Outcome!vars, OutcomeFacts!vars,
       Outcome!Succeed, OutcomeFacts!Succeed, Outcome!Abandon, OutcomeFacts!Abandon,
       Outcome!Launched, OutcomeFacts!Launched, Outcome!Exit, OutcomeFacts!Exit,
       Outcome!End, OutcomeFacts!End, Outcome!Start, OutcomeFacts!Start
  <2> QED
    BY <2>1, <2>2, PTL DEF OutcomeSpec, Outcome!Spec, OutcomeFacts!Spec
<1>2. OutcomeFacts!Spec => []OutcomeFacts!Known
  BY OutcomeFacts!DaemonKnowsNamespaces
<1>3. OutcomeFacts!Known => Outcome!Known
  BY DEF OutcomeFacts!Known, Outcome!Known
<1> QED
  BY <1>1, <1>2, <1>3, ImplementsOutcome, PTL
=============================================================================
