---------------------------- MODULE CgroupProofs ----------------------------
(***************************************************************************)
(* The safety properties of CgroupManager, for any cgroups, limits and     *)
(* declarations and any number of starts.                                  *)
(***************************************************************************)
EXTENDS CgroupManager, TLAPS

\* The directory is made before, and stays after, the one mount.
MountInv ==
  /\ mounts \in {0, 1}
  /\ pc = "mount" => made /\ mounts = 0
  /\ mounts = 1 => made

\* What init_cgroup has done so far of a cgroup that is not known yet.
CreateInv ==
  /\ pc \in Creating => name \notin cgroups
  /\ pc \in {"cpu_dir", "mem_dir"} => next = 1
  /\ pc \in {"mem_dir", "limits"} => name \in cpuDirs
  /\ pc = "limits" =>
       /\ name \in memDirs
       /\ \A i \in DOMAIN Limits :
            i < next /\ decl[Limits[i]] # Unset => limit[name][Limits[i]] = decl[Limits[i]]

\* What add_child has done before its second write.
AddInv == pc = "procs" => tasks[child] = name

IInv == TypeOK /\ MountInv /\ KnownIsLimited /\ CreateInv /\ AddInv

LEMMA LimitFacts ==
  /\ Len(Limits) \in Nat /\ DOMAIN Limits = 1..Len(Limits)
  /\ \A i \in DOMAIN Limits : Limits[i] \in Limit
  /\ \A l \in Limit : \E i \in DOMAIN Limits : l = Limits[i]
  /\ NoLimits \in [Limit -> Value \cup {Unset}]
BY CgroupAssumption DEF Limit, NoLimits

LEMMA InitInv == Init => IInv
<1> SUFFICES ASSUME Init PROVE IInv
  OBVIOUS
<1>1. TypeOK
  <2>1. next \in 1..(Len(Limits) + 1) /\ starts \in 0..MaxStarts
    BY LimitFacts, CgroupAssumption DEF Init
  <2>2. /\ limit \in [Group -> [Limit -> Value \cup {Unset}]]
        /\ accepted \in [Group -> [Limit -> Value \cup {Unset}]]
        /\ decl \in [Limit -> Value \cup {Unset}]
    BY LimitFacts DEF Init
  <2> QED
    BY <2>1, <2>2 DEF Init, TypeOK, Creating, Adding
<1>2. MountInv /\ KnownIsLimited /\ CreateInv /\ AddInv
  BY DEF Init, MountInv, KnownIsLimited, CreateInv, AddInv, Creating
<1> QED
  BY <1>1, <1>2 DEF IInv

LEMMA TypeStep ==
  ASSUME TypeOK, [Next]_vars
  PROVE  TypeOK'
<1> USE LimitFacts DEF TypeOK, Busy, Starting, Creating, Adding, daemonVars, kernelVars
<1>1. CASE Start
  BY <1>1, CgroupAssumption DEF Start
<1>2. CASE End
  BY <1>2 DEF End
<1>3. CASE MakeControllers
  BY <1>3 DEF MakeControllers
<1>4. CASE MountControllers
  BY <1>4 DEF MountControllers
<1>5. CASE MakeRoot
  BY <1>5 DEF MakeRoot
<1>6. ASSUME NEW n \in Group, NEW d \in Declared, InitCgroup(n, d) PROVE TypeOK'
  BY <1>6, CgroupAssumption DEF InitCgroup, NewCgroup
<1>7. CASE MakeCpuDir
  BY <1>7 DEF MakeCpuDir
<1>8. CASE MakeMemDir
  BY <1>8 DEF MakeMemDir
<1>9. CASE SetLimit
  <2>1. next \in DOMAIN Limits /\ Limits[next] \in Limit /\ next' = next + 1 /\ name \in Group
    BY <1>9 DEF SetLimit, NextLimit
  <2>2. limit' \in [Group -> [Limit -> Value \cup {Unset}]]
    <3>1. CASE UNCHANGED limit
      BY <3>1
    <3>2. CASE limit' = [limit EXCEPT ![name][Limits[next]] = decl[Limits[next]]]
      <4>1. decl[Limits[next]] \in Value \cup {Unset}
        BY <2>1
      <4> QED
        BY <2>1, <3>2, <4>1
    <3> QED
      BY <1>9, <3>1, <3>2 DEF SetLimit
  <2> QED
    BY <1>9, <2>1, <2>2 DEF SetLimit
<1>10. CASE CgroupDone
  BY <1>10 DEF CgroupDone
<1>11. ASSUME NEW p \in Process, NEW n \in Group \cup {Root}, AddChild(p, n) PROVE TypeOK'
  BY <1>11 DEF AddChild
<1>12. CASE AddToTasks
  BY <1>12 DEF AddToTasks, WriteTasks
<1>13. CASE AddToProcs
  BY <1>13 DEF AddToProcs
<1>14. CASE UNCHANGED vars
  BY <1>14 DEF vars
<1> QED
  BY <1>1, <1>2, <1>3, <1>4, <1>5, <1>6, <1>7, <1>8, <1>9, <1>10, <1>11, <1>12, <1>13, <1>14
  DEF Next, Fail, Kill

LEMMA MountStep ==
  ASSUME IInv, [Next]_vars
  PROVE  MountInv'
<1>1. CASE pc = "mkdir" /\ MakeControllers
  BY <1>1 DEF IInv, MountInv, MakeControllers
<1>2. CASE MountControllers
  BY <1>2 DEF IInv, MountInv, MountControllers
<1>3. CASE UNCHANGED <<made, mounts>> /\ pc' # "mount"
  BY <1>3 DEF IInv, MountInv
<1>4. CASE UNCHANGED vars
  BY <1>4 DEF IInv, MountInv, vars
<1> QED
  BY <1>1, <1>2, <1>3, <1>4
  DEF Next, Start, MakeControllers, MakeRoot, InitCgroup, NewCgroup, MakeCpuDir, MakeMemDir,
      SetLimit, CgroupDone, AddChild, AddToTasks, WriteTasks, AddToProcs, Fail, Kill, End,
      daemonVars, kernelVars

\* The steps that change a limit or a directory, or what is known of them.
LEMMA CgroupStep ==
  ASSUME IInv, [Next]_vars
  PROVE  KnownIsLimited' /\ CreateInv' /\ AddInv'
<1> USE DEF IInv, KnownIsLimited, CreateInv, AddInv, Creating
<1>0. TypeOK
  OBVIOUS
<1>1. CASE Start \/ End
  BY <1>1 DEF Start, End, kernelVars
<1>2. CASE MakeControllers \/ MountControllers \/ MakeRoot
  BY <1>2 DEF MakeControllers, MountControllers, MakeRoot, daemonVars, kernelVars
<1>3. ASSUME NEW n \in Group, NEW d \in Declared, InitCgroup(n, d)
      PROVE  KnownIsLimited' /\ CreateInv' /\ AddInv'
  BY <1>3 DEF InitCgroup, NewCgroup, kernelVars
<1>4. CASE MakeCpuDir
  BY <1>0, <1>4 DEF MakeCpuDir, daemonVars
<1>5. CASE MakeMemDir
  <2>1. ~\E i \in DOMAIN Limits : i < 1
    BY LimitFacts
  <2> QED
    BY <1>5, <2>1 DEF MakeMemDir, daemonVars
<1>6. CASE SetLimit
  <2>1. /\ next \in DOMAIN Limits /\ next' = next + 1 /\ next \in Nat
        /\ pc = "limits" /\ name \in Group /\ name \notin cgroups
        /\ Limits[next] \in Limit
        /\ limit \in [Group -> [Limit -> Value \cup {Unset}]]
    BY <1>0, <1>6, LimitFacts DEF SetLimit, NextLimit, TypeOK
  <2>2. \/ decl[Limits[next]] = Unset /\ limit' = limit
        \/ limit' = [limit EXCEPT ![name][Limits[next]] = decl[Limits[next]]]
    BY <1>6 DEF SetLimit
  <2>3. UNCHANGED <<pc, name, decl, child, cgroups, accepted, cpuDirs, memDirs, tasks>>
    BY <1>6 DEF SetLimit
  <2>4. \A n \in Group : n # name => limit'[n] = limit[n]
    BY <2>1, <2>2
  <2>5. KnownIsLimited'
    BY <1>0, <2>1, <2>3, <2>4 DEF TypeOK
  <2>6. ASSUME NEW i \in DOMAIN Limits, i < next', decl[Limits[i]] # Unset
        PROVE  limit'[name][Limits[i]] = decl[Limits[i]]
    <3>1. i < next \/ i = next
      BY <2>1, <2>6, LimitFacts
    <3>2. i < next => limit[name][Limits[i]] = decl[Limits[i]]
      BY <2>1, <2>6
    <3>3. Limits[i] \in Limit
      BY LimitFacts
    <3> QED
      BY <2>1, <2>2, <2>6, <3>1, <3>2, <3>3
  <2> QED
    BY <2>1, <2>3, <2>5, <2>6
<1>7. CASE CgroupDone
  <2>1. /\ pc = "limits" /\ name \in Group /\ name \in cpuDirs \cap memDirs
        /\ \A i \in DOMAIN Limits : i < next
        /\ cgroups' = cgroups \cup {name} /\ pc' = "ready"
        /\ UNCHANGED <<cpuDirs, memDirs, limit>>
    BY <1>0, <1>7, LimitFacts DEF CgroupDone, TypeOK, kernelVars
  <2>2. accepted'[name] = decl /\ \A n \in cgroups : accepted'[n] = accepted[n]
    BY <1>0, <1>7, <2>1 DEF CgroupDone, TypeOK
  <2>3. \A l \in Limit : decl[l] # Unset => limit[name][l] = decl[l]
    BY <2>1, LimitFacts
  <2>4. KnownIsLimited'
    BY <2>1, <2>2, <2>3
  <2> QED
    BY <2>1, <2>4
<1>8. ASSUME NEW p \in Process, NEW n \in Group \cup {Root}, AddChild(p, n)
      PROVE  KnownIsLimited' /\ CreateInv' /\ AddInv'
  BY <1>8 DEF AddChild, kernelVars
<1>9. CASE AddToTasks
  BY <1>0, <1>9 DEF AddToTasks, WriteTasks, daemonVars, TypeOK, Adding
<1>10. CASE AddToProcs
  BY <1>10 DEF AddToProcs, daemonVars
<1>11. CASE UNCHANGED vars
  BY <1>11 DEF vars
<1> QED
  BY <1>1, <1>2, <1>3, <1>4, <1>5, <1>6, <1>7, <1>8, <1>9, <1>10, <1>11
  DEF Next, Fail, Kill

LEMMA InvStep == IInv /\ [Next]_vars => IInv'
BY TypeStep, MountStep, CgroupStep DEF IInv

LEMMA Invariance == Spec => []IInv
BY InitInv, InvStep, PTL DEF Spec

-----------------------------------------------------------------------------
\* Every variable keeps its type over any number of starts.
THEOREM TypeCorrect == Spec => []TypeOK
BY Invariance, PTL DEF IInv

\* The controllers are never mounted a second time (setup_controllers).
THEOREM MountsOnce == Spec => []MountedAtMostOnce
<1>1. IInv => MountedAtMostOnce
  BY DEF IInv, MountInv, MountedAtMostOnce
<1> QED
  BY <1>1, Invariance, PTL

\* A cgroup the manager knows is complete: both directories are there and
\* every limit it was declared with is in force (init_cgroup).
THEOREM KnownCgroupsLimited == Spec => []KnownIsLimited
BY Invariance, PTL DEF IInv

\* Nothing changes the limits of a cgroup the daemon knows (init_cgroup's test
\* of cgroups).
THEOREM LimitsKept == Spec => LimitsStable
<1> DEFINE A == \A n \in Group : pc # "off" /\ n \in cgroups => limit'[n] = limit[n]
<1>1. IInv /\ [Next]_vars => A
  <2> SUFFICES ASSUME IInv, [Next]_vars PROVE A
    OBVIOUS
  <2>1. CASE UNCHANGED limit
    BY <2>1
  <2>2. CASE SetLimit
    <3>1. name \notin cgroups /\ limit \in [Group -> [Limit -> Value \cup {Unset}]]
      BY <2>2 DEF SetLimit, IInv, CreateInv, Creating, TypeOK
    <3>2. limit' = limit \/ limit' = [limit EXCEPT ![name][Limits[next]] = decl[Limits[next]]]
      BY <2>2 DEF SetLimit
    <3> QED
      BY <3>1, <3>2
  <2> QED
    BY <2>1, <2>2
    DEF Next, vars, Start, MakeControllers, MountControllers, MakeRoot, InitCgroup, MakeCpuDir,
        MakeMemDir, CgroupDone, AddChild, AddToTasks, AddToProcs, Fail, Kill, End, kernelVars
<1>2. [][A]_vars <=> LimitsStable
  BY PTL DEF LimitsStable
<1> QED
  BY <1>1, <1>2, Invariance, PTL DEF Spec

\* When add_child returns, the child is in the cgroup in both hierarchies.
THEOREM ChildrenAddedToBoth == Spec => AddedToBoth
<1> DEFINE A == (pc \in Adding /\ pc' = "ready") =>
                  (tasks'[child] = name /\ procs'[child] = name)
<1>1. IInv /\ [Next]_vars => A
  <2> SUFFICES ASSUME IInv, [Next]_vars, pc \in Adding, pc' = "ready"
               PROVE  tasks'[child] = name /\ procs'[child] = name
    OBVIOUS
  <2>1. AddToProcs
    BY DEF Next, vars, Adding, Start, MakeControllers, MountControllers, MakeRoot, InitCgroup,
       MakeCpuDir, MakeMemDir, SetLimit, CgroupDone, AddChild, AddToTasks, WriteTasks, Fail,
       Kill, End
  <2>2. child \in Process /\ procs \in [Process -> Group \cup {Root}]
    BY DEF IInv, TypeOK
  <2> QED
    BY <2>1, <2>2 DEF AddToProcs, IInv, AddInv
<1>2. [][A]_vars <=> AddedToBoth
  BY PTL DEF AddedToBoth
<1> QED
  BY <1>1, <1>2, Invariance, PTL DEF Spec
=============================================================================
