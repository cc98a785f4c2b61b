--------------------------- MODULE OutcomeProofs ---------------------------
(***************************************************************************)
(* What follows for containers and namespaces from launches that come to   *)
(* one of the outcomes of LaunchOutcome, however many there are.           *)
(***************************************************************************)
EXTENDS LaunchOutcome, TLAPS

\* Only what was launched is alive.
THEOREM OnlyLaunchedAlive == Spec => []TypeOK
<1>1. Init => TypeOK
  BY DEF Init, TypeOK
<1>2. TypeOK /\ [Next]_vars => TypeOK'
  <2> SUFFICES ASSUME TypeOK, [Next]_vars PROVE TypeOK'
    OBVIOUS
  <2>1. ASSUME NEW c \in DOMAIN group', Succeed(c) \/ Abandon(c) PROVE TypeOK'
    BY <2>1 DEF Succeed, Abandon, Launched, TypeOK
  <2>2. ASSUME NEW c \in alive, Exit(c) PROVE TypeOK'
    BY <2>2 DEF Exit, TypeOK
  <2>3. CASE End \/ Start \/ UNCHANGED vars
    BY <2>3 DEF End, Start, vars, TypeOK
  <2> QED
    BY <2>1, <2>2, <2>3 DEF Next
<1> QED
  BY <1>1, <1>2, PTL DEF Spec

\* What a daemon has not marked active no container alive has: a launch that
\* shares a namespace with one alive finds it active, and one that finds it
\* inactive is right to create it.
THEOREM DaemonKnowsNamespaces == Spec => []Known
<1>1. Init => Known
  BY DEF Init, Known
<1>2. TypeOK /\ Known /\ [Next]_vars => Known'
  <2> SUFFICES ASSUME TypeOK, Known, [Next]_vars, running', NEW c \in alive'
               PROVE  group'[c] \subseteq active'
    BY DEF Known
  <2>1. ASSUME NEW d \in DOMAIN group', Succeed(d) PROVE group'[c] \subseteq active'
    <3>1. /\ running /\ d \notin DOMAIN group /\ active' = active \cup group'[d]
          /\ alive' \subseteq alive \cup {d}
          /\ \A x \in DOMAIN group : group'[x] = group[x]
      BY <2>1 DEF Succeed, Launched
    <3>2. CASE c = d
      BY <3>1, <3>2
    <3>3. CASE c # d
      BY <3>1, <3>3 DEF Known, TypeOK
    <3> QED
      BY <3>2, <3>3
  <2>2. ASSUME NEW d \in DOMAIN group', Abandon(d) PROVE FALSE
    BY <2>2 DEF Abandon
  <2>3. ASSUME NEW d \in alive, Exit(d) PROVE group'[c] \subseteq active'
    BY <2>3 DEF Exit, Known
  <2>4. CASE End \/ Start \/ UNCHANGED vars
    BY <2>4 DEF End, Start, vars, Known
  <2> QED
    BY <2>1, <2>2, <2>3, <2>4 DEF Next
<1> QED
  BY <1>1, <1>2, OnlyLaunchedAlive, PTL DEF Spec
=============================================================================
