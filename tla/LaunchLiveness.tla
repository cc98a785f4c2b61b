--------------------------- MODULE LaunchLiveness ---------------------------
(***************************************************************************)
(* Launches and children come to their end, proved for any number of       *)
(* requests and any pool of namespaces.  The argument is the one by which  *)
(* a loop terminates: from every control point a bounded number of steps   *)
(* is left, every step of the process takes one off, and no step of        *)
(* another process adds to it.                                             *)
(*                                                                         *)
(* Fairness makes a process go on where it has a step to take.  That it    *)
(* has one is proved (NeverWaits): the guard of an action holds wherever a *)
(* process is not at its end.  That an action is enabled where its guard   *)
(* holds, which can be read off its text, is the hypothesis []GuardsEnable *)
(* of the theorems: tlapm has no rule for ENABLED.                         *)
(***************************************************************************)
EXTENDS LaunchProofs

USE DEF Launching, DaemonPC, ChildPC

\* A request names at most one namespace of a type, and the child's loops stay
\* within the namespaces of its request that their loop has work for.
LoopInv ==
  /\ \A c \in Container : \A e, f \in group[c] : TypeOf[e] = TypeOf[f] => e = f
  /\ \A c \in Container : new[c] \subseteq group[c]
  /\ \A c \in Container : cpc[c] = "setup" => ctodo[c] \subseteq SetupWork(c)
  /\ \A c \in Container : cpc[c] \in {"init", "setgid"} => ctodo[c] \subseteq InitWork(c)

LEMMA LoopChildStep ==
  ASSUME TypeOK, LoopInv, NEW c \in Container, ChildStep(c) \/ ChildFails(c) \/ Exit(c)
  PROVE  LoopInv'
<1>1. /\ UNCHANGED <<group, new>>
      /\ \A d \in Container \ {c} : cpc'[d] = cpc[d] /\ ctodo'[d] = ctodo[d]
  BY ChildFrame DEF OnlyChild, staticVars
<1>2. /\ cpc'[c] = "setup" => ctodo'[c] \subseteq SetupWork(c)
      /\ cpc'[c] \in {"init", "setgid"} => ctodo'[c] \subseteq InitWork(c)
  <2> USE DEF LoopInv, TypeOK, Handled, Die, At
  <2>1. CASE ChildWakes(c) \/ SetupDone(c) \/ InitDone(c) \/ Exec(c)
    BY <2>1 DEF ChildWakes, SetupDone, InitDone, Exec
  <2>2. CASE \E e \in Entry : SetupMount(c, e) \/ SetupUts(c, e) \/ InitMount(c, e)
    BY <2>2 DEF SetupMount, SetupUts, InitMount
  <2>3. CASE \E e \in Entry : SetupPid(c, e) \/ SetUid(c, e) \/ SetGid(c, e)
    BY <2>3 DEF SetupPid, SetUid, SetGid
  <2>4. CASE ChildFails(c) \/ Exit(c)
    BY <2>4 DEF ChildFails, Exit
  <2> QED
    BY <2>1, <2>2, <2>3, <2>4 DEF ChildStep
<1> QED
  BY <1>1, <1>2 DEF LoopInv, SetupWork, InitWork

LEMMA LoopStep == TypeOK /\ LoopInv /\ [Next]_vars => LoopInv'
<1> SUFFICES ASSUME TypeOK, LoopInv, [Next]_vars PROVE LoopInv'
  OBVIOUS
<1> USE DEF staticVars, childVars
<1>1. ASSUME UNCHANGED <<group, new, cpc, ctodo>> PROVE LoopInv'
  BY <1>1 DEF LoopInv, SetupWork, InitWork
<1>2. CASE DaemonStep \/ DaemonFails
  BY <1>1, <1>2, DaemonFrame DEF OnlyDaemon
<1>3. CASE \E c \in Container, b \in Binary : RunContainerFails(c, b)
  BY <1>1, <1>3 DEF RunContainerFails
<1>4. ASSUME NEW c \in Container, NEW b \in Binary, NEW g \in Groups, RunContainer(c, g, b)
      PROVE  LoopInv'
  <2>1. /\ group' = [group EXCEPT ![c] = g] /\ new' = [new EXCEPT ![c] = g \ active]
        /\ cpc' = [cpc EXCEPT ![c] = "sleep"] /\ ctodo' = ctodo
    BY <1>4 DEF RunContainer, NewEntries
  <2>2. \A e, f \in g : TypeOf[e] = TypeOf[f] => e = f
    BY LaunchAssumption
  <2>3. \A d \in Container : d # c =>
          group'[d] = group[d] /\ new'[d] = new[d] /\ cpc'[d] = cpc[d]
    BY <2>1 DEF TypeOK
  <2>4. group'[c] = g /\ new'[c] = g \ active /\ cpc'[c] = "sleep"
    BY <2>1 DEF TypeOK
  <2> QED
    BY <2>1, <2>2, <2>3, <2>4 DEF LoopInv, SetupWork, InitWork
<1>5. CASE \E c \in Container : ChildStep(c) \/ ChildFails(c) \/ Exit(c)
  BY <1>5, LoopChildStep
<1>6. CASE UNCHANGED vars
  BY <1>1, <1>6 DEF vars
<1> QED
  BY <1>2, <1>3, <1>4, <1>5, <1>6 DEF Next

LEMMA LoopsBounded == Safety => []LoopInv
<1>1. Init => LoopInv
  BY DEF Init, LoopInv
<1> QED
  BY <1>1, LoopStep, TypeCorrect, PTL DEF Safety

-----------------------------------------------------------------------------
(* Nobody waits for anybody *)

\* The guards of the actions of the daemon: it is at a call that either succeeds
\* or fails, or in a loop with a next entry.
DaemonCan ==
  \/ dpc \in {"tasks", "procs", "pids", "activate", "sleep"}
  \/ dpc = "handles" /\ todo = {}
  \/ dpc = "handles" /\ todo # {} /\ (hostProc # None \/ cpc[cur] = "dead")
  \/ dpc = "handles" /\ \E e \in Entry : First(todo, e) /\ \E p \in Container : Reached(p)
  \/ dpc \in {"uid_map", "setgroups", "gid_map"} /\ \E u \in group[cur] \ active : TypeOf[u] = "USER"

\* Those of the actions of a child.
ChildCan(c) ==
  \/ cpc[c] \in {"sleep", "exec"}
  \/ cpc[c] \in {"setup", "init"} /\ ctodo[c] = {}
  \/ \E e \in Entry : \/ At(c, "setup", e, "MOUNT") \/ At(c, "setup", e, "PID") \/ At(c, "setup", e, "UTS")
                     \/ At(c, "init", e, "USER") \/ At(c, "setgid", e, "USER") \/ At(c, "init", e, "MOUNT")

GuardsEnable ==
  /\ DaemonCan => ENABLED <<DaemonStep>>_vars
  /\ \A c \in Container : ChildCan(c) => ENABLED <<ChildStep(c)>>_vars

\* What a process that is in the middle of the two-part work for a user namespace
\* has it for: the daemon at the files, the child between setuid and setgid.
UserInv ==
  /\ dpc \in {"uid_map", "setgroups", "gid_map"} => \E u \in group[cur] \ active : TypeOf[u] = "USER"
  /\ \A c \in Container : cpc[c] = "setgid" => \E e \in ctodo[c] : TypeOf[e] = "USER"

LEMMA UserStep == TypeOK /\ UserInv /\ [Next]_vars => UserInv'
<1> SUFFICES ASSUME TypeOK, UserInv, [Next]_vars PROVE UserInv'
  OBVIOUS
<1> DEFINE Daemons == dpc \in {"uid_map", "setgroups", "gid_map"} =>
                        \E u \in group[cur] \ active : TypeOf[u] = "USER"
           Childs == \A c \in Container : cpc[c] = "setgid" => \E e \in ctodo[c] : TypeOf[e] = "USER"
<1> USE DEF staticVars, childVars, poolVars
<1>1. ASSUME UNCHANGED <<dpc, cur, group, active>> PROVE Daemons'
  BY <1>1 DEF UserInv
<1>2. ASSUME UNCHANGED <<cpc, ctodo>> PROVE Childs'
  BY <1>2 DEF UserInv
<1>3. CASE DaemonStep
  <2>1. UNCHANGED <<cpc, ctodo>>
    BY <1>3, DaemonFrame DEF OnlyDaemon
  <2>2. Daemons'
    BY <1>3 DEF DaemonStep, AddToTasks, AddToProcs, AddPids, OpenHandle, HandleMissing,
       HandlesDone, WriteMap, AfterMap, Activate, WakeUp, UserInv
  <2> QED
    BY <1>2, <2>1, <2>2 DEF UserInv
<1>4. CASE DaemonFails
  BY <1>2, <1>4 DEF DaemonFails, UserInv
<1>5. CASE \E c \in Container, b \in Binary : RunContainerFails(c, b)
  BY <1>2, <1>5 DEF RunContainerFails, UserInv
<1>6. ASSUME NEW c \in Container, NEW b \in Binary, NEW g \in Groups, RunContainer(c, g, b)
      PROVE  UserInv'
  <2>1. dpc' = "tasks" /\ cpc' = [cpc EXCEPT ![c] = "sleep"] /\ ctodo' = ctodo
    BY <1>6 DEF RunContainer
  <2> QED
    BY <2>1 DEF UserInv, TypeOK
<1>7. ASSUME NEW c \in Container, ChildStep(c) \/ ChildFails(c) \/ Exit(c) PROVE UserInv'
  <2>1. /\ UNCHANGED <<dpc, cur, group, active>>
        /\ \A d \in Container \ {c} : cpc'[d] = cpc[d] /\ ctodo'[d] = ctodo[d]
    BY <1>7, ChildFrame DEF OnlyChild, daemonVars
  <2>2. cpc'[c] = "setgid" => \E e \in ctodo'[c] : TypeOf[e] = "USER"
    <3> SUFFICES ASSUME cpc'[c] = "setgid" PROVE \E e \in ctodo'[c] : TypeOf[e] = "USER"
      OBVIOUS
    <3> USE DEF TypeOK, Die
    <3>1. CASE \E e \in Entry : SetUid(c, e)
      BY <3>1 DEF SetUid, At, First
    <3>2. CASE \E e \in Entry : SetGid(c, e)
      BY <3>2 DEF SetGid
    <3>3. CASE \E e \in Entry : SetupMount(c, e) \/ SetupPid(c, e) \/ SetupUts(c, e) \/ InitMount(c, e)
      BY <3>3 DEF SetupMount, SetupPid, SetupUts, InitMount, At
    <3>4. CASE ChildWakes(c) \/ SetupDone(c) \/ InitDone(c) \/ Exec(c) \/ ChildFails(c) \/ Exit(c)
      BY <3>4 DEF ChildWakes, SetupDone, InitDone, Exec, ChildFails, Exit
    <3> QED
      BY <1>7, <3>1, <3>2, <3>3, <3>4 DEF ChildStep
  <2> QED
    BY <1>1, <2>1, <2>2 DEF UserInv
<1>8. CASE UNCHANGED vars
  BY <1>1, <1>2, <1>8 DEF vars, UserInv
<1> QED
  BY <1>3, <1>4, <1>5, <1>6, <1>7, <1>8 DEF Next

LEMMA UserHandled == Safety => []UserInv
<1>1. Init => UserInv
  BY DEF Init, UserInv
<1> QED
  BY <1>1, UserStep, TypeCorrect, PTL DEF Safety

\* The order of the types is one of numbers from 0 to 6, one for each type.
LEMMA IndexFacts ==
  /\ \A t \in NsType : NsIndex(t) \in 0..6
  /\ \A t, u \in NsType : NsIndex(t) = NsIndex(u) => t = u
<1>1. \A t \in NsType : NsIndex(t) \in 0..6
  BY DEF NsType, NsIndex
<1>2. ASSUME NEW t \in NsType, NEW u \in NsType, NsIndex(t) = NsIndex(u) PROVE t = u
  BY <1>2 DEF NsType, NsIndex
<1> QED
  BY <1>1, <1>2

\* When the loop over a group has handled the first entry, what is left comes
\* strictly after it in the order of the types.
LEMMA FirstIsStrict ==
  ASSUME NEW S \in SUBSET Entry, \A e, f \in S : TypeOf[e] = TypeOf[f] => e = f,
         NEW e, First(S, e), NEW f \in S \ {e}
  PROVE  NsIndex(TypeOf[f]) >= NsIndex(TypeOf[e]) + 1
<1>1. e \in S /\ TypeOf[e] \in NsType /\ TypeOf[f] \in NsType /\ TypeOf[e] # TypeOf[f]
  BY LaunchAssumption DEF First
<1>2. NsIndex(TypeOf[e]) # NsIndex(TypeOf[f])
  BY <1>1, IndexFacts
<1>3. NsIndex(TypeOf[e]) \in 0..6 /\ NsIndex(TypeOf[f]) \in 0..6
  BY <1>1, IndexFacts
<1> QED
  BY <1>2, <1>3 DEF First

\* A loop with work left has a next entry: the types are ordered, and no two of
\* seven come before each other.
LEMMA FirstExists ==
  ASSUME NEW S \in SUBSET Entry, S # {}
  PROVE  \E e \in S : First(S, e)
<1> DEFINE Upto(k) == \E e \in S : NsIndex(TypeOf[e]) <= k
<1>1. \A e \in S : NsIndex(TypeOf[e]) \in 0..6
  BY IndexFacts, LaunchAssumption
<1>2. Upto(6)
  BY <1>1
<1>3. ASSUME NEW k \in 0..6, Upto(k), ~\E e \in S : First(S, e)
      PROVE  k > 0 /\ Upto(k - 1)
  <2>1. PICK e \in S : NsIndex(TypeOf[e]) <= k
    BY <1>3
  <2>2. PICK f \in S : ~(NsIndex(TypeOf[e]) <= NsIndex(TypeOf[f]))
    BY <1>3, <2>1 DEF First
  <2>3. PICK i \in 0..6, j \in 0..6 : i = NsIndex(TypeOf[e]) /\ j = NsIndex(TypeOf[f])
    BY <1>1, <2>1, <2>2
  <2>4. i <= k /\ ~(i <= j)
    BY <2>1, <2>2, <2>3
  <2>5. j <= k - 1 /\ k > 0
    BY <2>4
  <2> QED
    BY <2>2, <2>3, <2>5
<1>4. SUFFICES ASSUME ~\E e \in S : First(S, e) PROVE FALSE
  OBVIOUS
<1> HIDE DEF Upto
<1>5. Upto(5)  BY <1>2, <1>3, <1>4, 6 - 1 = 5
<1>6. Upto(4)  BY <1>3, <1>4, <1>5, 5 - 1 = 4
<1>7. Upto(3)  BY <1>3, <1>4, <1>6, 4 - 1 = 3
<1>8. Upto(2)  BY <1>3, <1>4, <1>7, 3 - 1 = 2
<1>9. Upto(1)  BY <1>3, <1>4, <1>8, 2 - 1 = 1
<1>10. Upto(0) BY <1>3, <1>4, <1>9, 1 - 1 = 0
<1> QED
  BY <1>3, <1>4, <1>10

LEMMA DaemonNeverWaits ==
  ASSUME TypeOK, UserInv, dpc \in Launching \cup {"sleep"}
  PROVE  DaemonCan
<1>1. cur \in Container /\ todo \subseteq Entry
  BY DEF TypeOK
<1>2. CASE dpc = "handles" /\ todo # {} /\ hostProc = None
  <2>1. Reached(cur)
    BY <1>2 DEF Reached
  <2>2. \E e \in Entry : First(todo, e)
    BY <1>1, <1>2, FirstExists
  <2> QED
    BY <1>1, <1>2, <2>1, <2>2 DEF DaemonCan
<1>3. CASE ~(dpc = "handles" /\ todo # {} /\ hostProc = None)
  BY <1>3 DEF DaemonCan, UserInv
<1> QED
  BY <1>2, <1>3

LEMMA ChildNeverWaits ==
  ASSUME TypeOK, LoopInv, UserInv, NEW c \in Container,
         cpc[c] \in {"sleep", "setup", "init", "setgid", "exec"}
  PROVE  ChildCan(c)
<1>1. ctodo[c] \in SUBSET Entry
  BY DEF TypeOK
<1>2. CASE cpc[c] = "setup" /\ ctodo[c] # {}
  <2>1. PICK e \in ctodo[c] : First(ctodo[c], e)
    BY <1>1, <1>2, FirstExists
  <2>2. e \in Entry /\ TypeOf[e] \in {"MOUNT", "PID", "UTS"}
    BY <1>1, <1>2, <2>1 DEF LoopInv, SetupWork
  <2> QED
    BY <1>2, <2>1, <2>2 DEF ChildCan, At
<1>3. CASE cpc[c] = "init" /\ ctodo[c] # {}
  <2>1. PICK e \in ctodo[c] : First(ctodo[c], e)
    BY <1>1, <1>3, FirstExists
  <2>2. e \in Entry /\ TypeOf[e] \in {"USER", "MOUNT"}
    BY <1>1, <1>3, <2>1 DEF LoopInv, InitWork
  <2> QED
    BY <1>3, <2>1, <2>2 DEF ChildCan, At
<1>4. CASE cpc[c] = "setgid"
  <2>1. PICK e \in ctodo[c] : TypeOf[e] = "USER"
    BY <1>4 DEF UserInv
  <2>2. First(ctodo[c], e) /\ e \in Entry
    <3>1. \A f \in ctodo[c] : NsIndex(TypeOf[f]) \in 0..6
      BY <1>1, IndexFacts, LaunchAssumption
    <3>2. NsIndex("USER") = 0
      BY DEF NsIndex
    <3> QED
      BY <1>1, <2>1, <3>1, <3>2 DEF First
  <2> QED
    BY <1>4, <2>1, <2>2 DEF ChildCan, At
<1> QED
  BY <1>2, <1>3, <1>4 DEF ChildCan

\* In run_container and in child_function there is always a next step, with no
\* condition that another process would have to make true.
THEOREM NeverWaits ==
  Safety => [](/\ dpc \in Launching \cup {"sleep"} => DaemonCan
               /\ \A c \in Container :
                    cpc[c] \in {"sleep", "setup", "init", "setgid", "exec"} => ChildCan(c))
<1>1. TypeOK /\ UserInv => (dpc \in Launching \cup {"sleep"} => DaemonCan)
  BY DaemonNeverWaits
<1>2. TypeOK /\ LoopInv /\ UserInv =>
        \A c \in Container : cpc[c] \in {"sleep", "setup", "init", "setgid", "exec"} => ChildCan(c)
  BY ChildNeverWaits
<1> QED
  BY <1>1, <1>2, TypeCorrect, LoopsBounded, UserHandled, PTL

\* So neither side is ever stuck, for any requests and any pool.
THEOREM NobodyStuck == Safety /\ []GuardsEnable => []NeverStuck
<1> DEFINE D == dpc \in Launching \cup {"sleep"} => DaemonCan
           C == \A c \in Container :
                  cpc[c] \in {"sleep", "setup", "init", "setgid", "exec"} => ChildCan(c)
<1>1. D /\ C /\ GuardsEnable => NeverStuck
  BY Zenon DEF GuardsEnable, NeverStuck
<1> QED
  BY <1>1, NeverWaits, PTL

\* What fairness gives: the processes run.
Live == Spec /\ []GuardsEnable

LEMMA LiveIsLive == Live => Spec /\ []NeverStuck
BY NobodyStuck, PTL DEF Live, Spec

-----------------------------------------------------------------------------
(* The daemon *)

\* The daemon is at most n steps from the end of the launch.  The loop over the
\* handles takes the types in their order.
DaemonWithin(n) ==
  \/ dpc = "tasks" /\ n >= 16
  \/ dpc = "procs" /\ n >= 15
  \/ dpc = "pids"  /\ n >= 14
  \/ dpc = "handles" /\ n >= 6 /\ \A e \in todo : n + NsIndex(TypeOf[e]) >= 13
  \/ dpc = "uid_map" /\ n >= 5
  \/ dpc = "setgroups" /\ n >= 4
  \/ dpc = "gid_map" /\ n >= 3
  \/ dpc = "activate" /\ n >= 2
  \/ dpc = "sleep" /\ n >= 1

LaunchOver == dpc \in {"idle", "down"}

LEMMA DaemonAdvances ==
  ASSUME TypeOK, TypeOK', IInv, LoopInv, NEW n \in 1..16, NEW m \in 0..15, n = m + 1,
         DaemonWithin(n), DaemonStep
  PROVE  DaemonWithin(m)' \/ LaunchOver'
<1> USE DEF DaemonWithin, LaunchOver
<1>1. CASE AddToTasks \/ AddToProcs
  BY <1>1 DEF AddToTasks, AddToProcs
<1>2. CASE AddPids
  <2>1. todo' \subseteq Entry
    BY DEF TypeOK
  <2>2. \A e \in todo' : NsIndex(TypeOf[e]) \in 0..6
    BY <2>1, IndexFacts, LaunchAssumption
  <2>3. dpc' = "handles" /\ m >= 13
    BY <1>2 DEF AddPids
  <2> QED
    BY <2>2, <2>3
<1>3. ASSUME NEW e \in Entry, OpenHandle(e) PROVE DaemonWithin(m)'
  <2>1. /\ dpc = "handles" /\ dpc' = "handles" /\ todo' = todo \ {e} /\ First(todo, e)
        /\ e \in todo
    BY <1>3 DEF OpenHandle, First
  <2> HIDE DEF DaemonWithin, LaunchOver
  <2>6. cur \in Container /\ todo \subseteq Entry
    BY <2>1 DEF TypeOK
  <2>7. todo \subseteq group[cur]
    BY <2>1 DEF IInv, DaemonInv
  <2>2. \A f, h \in todo : TypeOf[f] = TypeOf[h] => f = h
    BY <2>6, <2>7 DEF LoopInv
  <2>3. NsIndex(TypeOf[e]) \in 0..6 /\ n + NsIndex(TypeOf[e]) >= 13
    BY <2>1, <2>6, IndexFacts, LaunchAssumption DEF DaemonWithin
  <2>4. ASSUME NEW f \in todo' PROVE m + NsIndex(TypeOf[f]) >= 13
    <3>1. NsIndex(TypeOf[f]) >= NsIndex(TypeOf[e]) + 1 /\ NsIndex(TypeOf[f]) \in 0..6
      BY <2>1, <2>2, <2>4, <2>6, FirstIsStrict, IndexFacts, LaunchAssumption
    <3> QED
      BY <2>3, <3>1
  <2>5. m >= 6
    BY <2>3
  <2> QED
    BY <2>1, <2>4, <2>5 DEF DaemonWithin
<1>4. CASE HandleMissing
  BY <1>4 DEF HandleMissing
<1>5. CASE HandlesDone
  BY <1>5 DEF HandlesDone
<1>6. ASSUME NEW u \in Entry, WriteMap(u) PROVE DaemonWithin(m)' \/ LaunchOver'
  BY <1>6 DEF WriteMap, AfterMap
<1>7. CASE Activate \/ WakeUp
  BY <1>7 DEF Activate, WakeUp
<1> QED
  BY <1>1, <1>2, <1>3, <1>4, <1>5, <1>6, <1>7 DEF DaemonStep

\* Nothing takes the daemon back.
LEMMA DaemonKept ==
  ASSUME TypeOK, TypeOK', IInv, LoopInv, NEW n \in 1..16, DaemonWithin(n), [Next]_vars
  PROVE  DaemonWithin(n)' \/ LaunchOver'
<1>1. CASE UNCHANGED <<dpc, todo>>
  BY <1>1 DEF DaemonWithin
<1>2. CASE DaemonStep
  <2>1. DaemonWithin(n - 1)' \/ LaunchOver'
    BY <1>2, DaemonAdvances
  <2>2. DaemonWithin(n - 1)' => DaemonWithin(n)'
    <3>1. todo' \subseteq Entry
      BY DEF TypeOK
    <3>2. \A e \in todo' : NsIndex(TypeOf[e]) \in 0..6
      BY <3>1, IndexFacts, LaunchAssumption
    <3> QED
      BY <3>2 DEF DaemonWithin
  <2> QED
    BY <2>1, <2>2
<1>3. CASE DaemonFails
  BY <1>3 DEF DaemonFails, LaunchOver
<1>4. CASE \E c \in Container, b \in Binary :
             RunContainerFails(c, b) \/ \E g \in Groups : RunContainer(c, g, b)
  BY <1>4 DEF RunContainerFails, RunContainer, DaemonWithin
<1>5. CASE \E c \in Container : ChildStep(c) \/ ChildFails(c) \/ Exit(c)
  BY <1>1, <1>5, ChildFrame DEF OnlyChild, daemonVars
<1>6. CASE UNCHANGED vars
  BY <1>1, <1>6 DEF vars
<1> QED
  BY <1>2, <1>3, <1>4, <1>5, <1>6 DEF Next

DaemonLeadsTo(n, m) == DaemonWithin(n) ~> (DaemonWithin(m) \/ LaunchOver)

LEMMA DaemonGoesOn ==
  ASSUME NEW n \in 1..16, NEW m \in 0..15, n = m + 1
  PROVE  Live => DaemonLeadsTo(n, m)
<1> DEFINE I == TypeOK /\ IInv /\ LoopInv
<1>1. I /\ TypeOK' /\ DaemonWithin(n) /\ [Next]_vars => DaemonWithin(n)' \/ LaunchOver'
  BY DaemonKept
<1>2. I /\ TypeOK' /\ DaemonWithin(n) /\ <<DaemonStep>>_vars => DaemonWithin(m)' \/ LaunchOver'
  BY DaemonAdvances
<1>3. NeverStuck /\ DaemonWithin(n) => ENABLED <<DaemonStep>>_vars
  <2>1. DaemonWithin(n) => dpc \in Launching \cup {"sleep"}
    BY DEF DaemonWithin
  <2> QED
    BY <2>1, Zenon DEF NeverStuck
<1> QED
  BY <1>1, <1>2, <1>3, TypeCorrect, Invariance, LoopsBounded, LiveIsLive, PTL
  DEF Spec, Safety, Fairness, DaemonLeadsTo

\* A launch ends, with the daemon ready for the next request or gone: none of
\* its loops runs on, and no step of a child or of the kernel's other users
\* takes it back.
THEOREM LaunchesEnd == Spec /\ []GuardsEnable => LaunchEnds
<1>1. dpc \in Launching /\ TypeOK => DaemonWithin(16)
  <2>1. SUFFICES ASSUME dpc \in Launching, TypeOK PROVE DaemonWithin(16)
    OBVIOUS
  <2>2. \A e \in todo : NsIndex(TypeOf[e]) \in 0..6
    BY <2>1, IndexFacts, LaunchAssumption DEF TypeOK
  <2>3. \A e \in todo : 16 + NsIndex(TypeOf[e]) >= 13
    BY <2>2
  <2> QED
    BY <2>1, <2>3 DEF DaemonWithin
<1>2. Live => DaemonLeadsTo(16, 15)  BY DaemonGoesOn
<1>3. Live => DaemonLeadsTo(15, 14)  BY DaemonGoesOn
<1>4. Live => DaemonLeadsTo(14, 13)  BY DaemonGoesOn
<1>5. Live => DaemonLeadsTo(13, 12)  BY DaemonGoesOn
<1>6. Live => DaemonLeadsTo(12, 11)  BY DaemonGoesOn
<1>7. Live => DaemonLeadsTo(11, 10)  BY DaemonGoesOn
<1>8. Live => DaemonLeadsTo(10, 9)   BY DaemonGoesOn
<1>9. Live => DaemonLeadsTo(9, 8)    BY DaemonGoesOn
<1>10. Live => DaemonLeadsTo(8, 7)   BY DaemonGoesOn
<1>11. Live => DaemonLeadsTo(7, 6)   BY DaemonGoesOn
<1>12. Live => DaemonLeadsTo(6, 5)   BY DaemonGoesOn
<1>13. Live => DaemonLeadsTo(5, 4)   BY DaemonGoesOn
<1>14. Live => DaemonLeadsTo(4, 3)   BY DaemonGoesOn
<1>15. Live => DaemonLeadsTo(3, 2)   BY DaemonGoesOn
<1>16. Live => DaemonLeadsTo(2, 1)   BY DaemonGoesOn
<1>17. Live => DaemonLeadsTo(1, 0)   BY DaemonGoesOn
<1>18. ~DaemonWithin(0)
  BY DEF DaemonWithin
<1>19. LaunchOver => dpc \in {"idle", "down"}
  BY DEF LaunchOver
<1> QED
  BY <1>1, <1>2, <1>3, <1>4, <1>5, <1>6, <1>7, <1>8, <1>9, <1>10, <1>11, <1>12,
     <1>13, <1>14, <1>15, <1>16, <1>17, <1>18, <1>19, TypeCorrect, PTL
  DEF Live, Spec, DaemonLeadsTo, LaunchEnds

-----------------------------------------------------------------------------
(* The children *)

\* Child c is at most n steps from its program.  setuid and setgid are two
\* steps for the user namespace, which is the first of the loop they are in.
ChildWithin(c, n) ==
  \/ cpc[c] = "sleep" /\ n >= 10
  \/ /\ cpc[c] = "setup" /\ n >= 6
     /\ \A e \in ctodo[c] : n >= CASE TypeOf[e] = "MOUNT" -> 9 [] TypeOf[e] = "PID" -> 8 [] OTHER -> 7
  \/ cpc[c] = "setgid" /\ n >= 4
  \/ /\ cpc[c] = "init" /\ n >= 2
     /\ \A e \in ctodo[c] : n >= IF TypeOf[e] = "USER" THEN 5 ELSE 3
  \/ cpc[c] = "exec" /\ n >= 1

ChildOver(c) == cpc[c] \in {"running", "dead"}

LEMMA ChildAdvances ==
  ASSUME TypeOK, LoopInv, NEW c \in Container, NEW n \in 1..10, NEW m \in 0..9, n = m + 1,
         ChildWithin(c, n), ChildStep(c)
  PROVE  ChildWithin(c, m)' \/ ChildOver(c)'
<1>0. /\ cpc \in [Container -> ChildPC] /\ ctodo \in [Container -> SUBSET Entry]
      /\ ctodo[c] \subseteq Entry
      /\ cpc[c] = "setup" => ctodo[c] \subseteq SetupWork(c)
      /\ cpc[c] \in {"init", "setgid"} => ctodo[c] \subseteq InitWork(c)
  BY DEF TypeOK, LoopInv
<1>1. cpc[c] \in {"setup", "init", "setgid"} =>
        \A e, f \in ctodo[c] : TypeOf[e] = TypeOf[f] => e = f
  BY <1>0 DEF LoopInv, SetupWork, InitWork
<1>2. CASE ChildWakes(c)
  BY <1>0, <1>2 DEF ChildWakes, ChildWithin
<1>3. CASE SetupDone(c)
  BY <1>0, <1>3 DEF SetupDone, ChildWithin
<1>4. CASE InitDone(c) \/ Exec(c)
  BY <1>0, <1>4 DEF InitDone, Exec, ChildWithin, ChildOver
<1>5. ASSUME NEW e \in Entry, SetupMount(c, e) \/ SetupPid(c, e) \/ SetupUts(c, e)
      PROVE  ChildWithin(c, m)' \/ ChildOver(c)'
  <2>1. /\ cpc[c] = "setup" /\ First(ctodo[c], e) /\ e \in ctodo[c]
        /\ TypeOf[e] \in {"MOUNT", "PID", "UTS"}
    BY <1>5 DEF SetupMount, SetupPid, SetupUts, At, First
  <2>2. CASE cpc' = cpc /\ ctodo' = [ctodo EXCEPT ![c] = @ \ {e}]
    <3>1. cpc'[c] = "setup" /\ ctodo'[c] = ctodo[c] \ {e}
      BY <1>0, <2>1, <2>2
    <3>2. \A f \in ctodo[c] \ {e} :
            /\ TypeOf[f] \in {"MOUNT", "PID", "UTS"} /\ TypeOf[f] # TypeOf[e]
            /\ NsIndex(TypeOf[e]) <= NsIndex(TypeOf[f])
      BY <1>0, <1>1, <2>1 DEF First, SetupWork
    <3>3. \A f \in ctodo[c] \ {e} :
            \/ TypeOf[e] = "MOUNT" /\ TypeOf[f] \in {"PID", "UTS"}
            \/ TypeOf[e] = "PID" /\ TypeOf[f] = "UTS"
      BY <2>1, <3>2 DEF NsIndex
    <3> QED
      BY <2>1, <3>1, <3>3 DEF ChildWithin
  <2>3. CASE cpc'[c] = "dead"
    BY <2>3 DEF ChildOver
  <2> QED
    BY <1>0, <1>5, <2>2, <2>3 DEF SetupMount, SetupPid, SetupUts, Handled, Die
<1>6. ASSUME NEW e \in Entry, SetUid(c, e) PROVE ChildWithin(c, m)' \/ ChildOver(c)'
  <2>1. cpc[c] = "init" /\ e \in ctodo[c] /\ TypeOf[e] = "USER"
    BY <1>6 DEF SetUid, At, First
  <2>2. n >= 5
    BY <2>1 DEF ChildWithin
  <2> QED
    BY <1>0, <1>6, <2>2 DEF SetUid, Die, ChildWithin, ChildOver
<1>7. ASSUME NEW e \in Entry, SetGid(c, e) \/ InitMount(c, e)
      PROVE  ChildWithin(c, m)' \/ ChildOver(c)'
  <2>1. /\ First(ctodo[c], e) /\ e \in ctodo[c]
        /\ \/ cpc[c] = "setgid" /\ TypeOf[e] = "USER"
           \/ cpc[c] = "init" /\ TypeOf[e] = "MOUNT"
    BY <1>7 DEF SetGid, InitMount, At, First
  <2>2. n >= 3 /\ (cpc[c] = "setgid" => n >= 4)
    BY <2>1 DEF ChildWithin
  <2>3. CASE cpc'[c] = "init" /\ ctodo' = [ctodo EXCEPT ![c] = @ \ {e}]
    <3>1. ctodo'[c] = ctodo[c] \ {e}
      BY <1>0, <2>3
    <3>2. \A f \in ctodo[c] \ {e} :
            /\ TypeOf[f] \in {"USER", "MOUNT"} /\ TypeOf[f] # TypeOf[e]
            /\ NsIndex(TypeOf[e]) <= NsIndex(TypeOf[f])
      BY <1>0, <1>1, <2>1 DEF First, InitWork
    <3>3. \A f \in ctodo[c] \ {e} : TypeOf[e] = "USER" /\ TypeOf[f] = "MOUNT"
      BY <2>1, <3>2 DEF NsIndex
    <3> QED
      BY <2>1, <2>2, <2>3, <3>1, <3>3 DEF ChildWithin
  <2>4. CASE cpc'[c] = "dead"
    BY <2>4 DEF ChildOver
  <2> QED
    BY <1>0, <1>7, <2>1, <2>3, <2>4 DEF SetGid, InitMount, At, Handled, Die
<1> QED
  BY <1>2, <1>3, <1>4, <1>5, <1>6, <1>7 DEF ChildStep

\* Neither the daemon nor another child takes c back.
LEMMA ChildKept ==
  ASSUME TypeOK, LoopInv, NEW c \in Container, NEW n \in 1..10, ChildWithin(c, n), [Next]_vars
  PROVE  ChildWithin(c, n)' \/ ChildOver(c)'
<1> USE DEF staticVars, childVars
<1>0. cpc[c] # "none"
  BY DEF ChildWithin
<1>1. CASE cpc'[c] = cpc[c] /\ ctodo'[c] = ctodo[c]
  BY <1>1 DEF ChildWithin
<1>2. CASE ChildStep(c)
  <2>1. ChildWithin(c, n - 1)' \/ ChildOver(c)'
    BY <1>2, ChildAdvances
  <2>2. ChildWithin(c, n - 1)' => ChildWithin(c, n)'
    <3>1. \A e \in ctodo'[c] :
            n - 1 >= (CASE TypeOf[e] = "MOUNT" -> 9 [] TypeOf[e] = "PID" -> 8 [] OTHER -> 7) =>
            n >= CASE TypeOf[e] = "MOUNT" -> 9 [] TypeOf[e] = "PID" -> 8 [] OTHER -> 7
      OBVIOUS
    <3>2. \A e \in ctodo'[c] :
            n - 1 >= (IF TypeOf[e] = "USER" THEN 5 ELSE 3) => n >= IF TypeOf[e] = "USER" THEN 5 ELSE 3
      OBVIOUS
    <3> QED
      BY <3>1, <3>2 DEF ChildWithin
  <2> QED
    BY <2>1, <2>2
<1>3. CASE ChildFails(c) \/ Exit(c)
  BY <1>3 DEF ChildFails, Exit, Die, TypeOK, ChildOver
<1>4. CASE \E d \in Container \ {c} : ChildStep(d) \/ ChildFails(d) \/ Exit(d)
  BY <1>1, <1>4, ChildFrame DEF OnlyChild
<1>5. CASE DaemonStep \/ DaemonFails
  BY <1>1, <1>5, DaemonFrame DEF OnlyDaemon
<1>6. CASE \E d \in Container, b \in Binary : RunContainerFails(d, b)
  BY <1>1, <1>6 DEF RunContainerFails
<1>7. CASE \E d \in Container, b \in Binary, g \in Groups : RunContainer(d, g, b)
  BY <1>0, <1>1, <1>7 DEF RunContainer, TypeOK
<1>8. CASE UNCHANGED vars
  BY <1>1, <1>8 DEF vars
<1> QED
  BY <1>2, <1>3, <1>4, <1>5, <1>6, <1>7, <1>8 DEF Next

ChildLeadsTo(c, n, m) == ChildWithin(c, n) ~> (ChildWithin(c, m) \/ ChildOver(c))

LEMMA ChildGoesOn ==
  ASSUME NEW c \in Container, NEW n \in 1..10, NEW m \in 0..9, n = m + 1
  PROVE  Live => ChildLeadsTo(c, n, m)
<1> DEFINE I == TypeOK /\ LoopInv
<1>1. I /\ ChildWithin(c, n) /\ [Next]_vars => ChildWithin(c, n)' \/ ChildOver(c)'
  BY ChildKept
<1>2. I /\ ChildWithin(c, n) /\ <<ChildStep(c)>>_vars => ChildWithin(c, m)' \/ ChildOver(c)'
  BY ChildAdvances
<1>3. NeverStuck /\ ChildWithin(c, n) => ENABLED <<ChildStep(c)>>_vars
  <2>1. ChildWithin(c, n) => cpc[c] \in {"sleep", "setup", "init", "setgid", "exec"}
    BY DEF ChildWithin
  <2> QED
    BY <2>1, Zenon DEF NeverStuck
<1>4. ChildrenFair => ChildFair(c)
  BY DEF ChildrenFair
<1> QED
  BY <1>1, <1>2, <1>3, <1>4, TypeCorrect, LoopsBounded, LiveIsLive, PTL
  DEF Spec, Safety, Fairness, ChildFair, ChildLeadsTo

ChildSettle(c) == cpc[c] = "sleep" ~> cpc[c] \in {"running", "dead"}

LEMMA ChildSettled ==
  ASSUME NEW c \in Container
  PROVE  Live => ChildSettle(c)
<1>1. cpc[c] = "sleep" => ChildWithin(c, 10)
  BY DEF ChildWithin
<1>2. Live => ChildLeadsTo(c, 10, 9)  BY ChildGoesOn
<1>3. Live => ChildLeadsTo(c, 9, 8)   BY ChildGoesOn
<1>4. Live => ChildLeadsTo(c, 8, 7)   BY ChildGoesOn
<1>5. Live => ChildLeadsTo(c, 7, 6)   BY ChildGoesOn
<1>6. Live => ChildLeadsTo(c, 6, 5)   BY ChildGoesOn
<1>7. Live => ChildLeadsTo(c, 5, 4)   BY ChildGoesOn
<1>8. Live => ChildLeadsTo(c, 4, 3)   BY ChildGoesOn
<1>9. Live => ChildLeadsTo(c, 3, 2)   BY ChildGoesOn
<1>10. Live => ChildLeadsTo(c, 2, 1)  BY ChildGoesOn
<1>11. Live => ChildLeadsTo(c, 1, 0)  BY ChildGoesOn
<1>12. ~ChildWithin(c, 0)
  <2>1. \A e \in ctodo[c] : ~(0 >= IF TypeOf[e] = "USER" THEN 5 ELSE 3)
    OBVIOUS
  <2> QED
    BY <2>1 DEF ChildWithin
<1>13. ChildOver(c) => cpc[c] \in {"running", "dead"}
  BY DEF ChildOver
<1> QED
  BY <1>1, <1>2, <1>3, <1>4, <1>5, <1>6, <1>7, <1>8, <1>9, <1>10, <1>11, <1>12, <1>13, PTL
  DEF ChildLeadsTo, ChildSettle

\* Every child that was cloned starts its program or ends, whatever the daemon
\* does and whether it is still there.
THEOREM ChildrenSettle == Spec /\ []GuardsEnable => ChildSettles
<1>1. ASSUME NEW c \in Container PROVE Live => ChildSettle(c)
  BY ChildSettled
<1>2. Live => \A c \in Container : ChildSettle(c)
  BY <1>1
<1> QED
  BY <1>2, PTL DEF Live, ChildSettles, ChildSettle
=============================================================================
