--------------------------- MODULE LaunchOutcome ---------------------------
(***************************************************************************)
(* What a launch comes to, for everyone but the daemon and the child that  *)
(* are in the middle of it: the container is there and its namespaces,     *)
(* all at once, are active; or the container is there and the daemon is    *)
(* gone; or there is no container.  Launch shows that run_container comes  *)
(* to nothing else, and Session uses launches as nothing more.             *)
(***************************************************************************)
VARIABLES
  running,  \* a daemon runs
  active,   \* the namespaces it takes for existing
  group,    \* group[c]: the namespaces of c, for every container launched
  alive     \* the containers that have not ended

vars == <<running, active, group, alive>>

Init ==
  /\ running \in BOOLEAN /\ active = {}
  /\ group = [c \in {} |-> {}] /\ alive = {}

\* Another container is there, unless it ended while it was launched.
Launched(c) ==
  /\ running /\ c \notin DOMAIN group
  /\ group' = [d \in DOMAIN group \cup {c} |-> IF d = c THEN group'[c] ELSE group[d]]
  /\ alive' \in {alive, alive \cup {c}}

Succeed(c) ==
  /\ Launched(c)
  /\ active' = active \cup group'[c]
  /\ UNCHANGED running

Abandon(c) ==
  /\ Launched(c)
  /\ running' = FALSE /\ active' = {}

End ==
  /\ running
  /\ running' = FALSE /\ active' = {}
  /\ UNCHANGED <<group, alive>>

\* Nothing of what a daemon knows outlives it, so neither may a container.
Start ==
  /\ ~running /\ alive = {}
  /\ running' = TRUE /\ active' = {}
  /\ UNCHANGED <<group, alive>>

Exit(c) ==
  /\ alive' = alive \ {c}
  /\ UNCHANGED <<running, active, group>>

Next ==
  \/ \E c \in DOMAIN group' : Succeed(c) \/ Abandon(c)
  \/ \E c \in alive : Exit(c)
  \/ End \/ Start

Spec == Init /\ [][Next]_vars

TypeOK == alive \subseteq DOMAIN group

\* A daemon knows the namespaces of every container alive.
Known == running => \A c \in alive : group[c] \subseteq active
=============================================================================
