---------------------------- MODULE ConfigOutcome ----------------------------
(***************************************************************************)
(* What a configuration comes to, for the containers that are launched     *)
(* after it: all the namespaces it declares are there at once, and stay as *)
(* long as the daemon runs; or the daemon ends.  No container is launched  *)
(* from a part of a file that was given up.  ConfigLoader shows that       *)
(* reading a file block by block comes to nothing else, and Session uses   *)
(* configurations as nothing more.                                         *)
(***************************************************************************)
CONSTANT Declarable  \* the sets of namespaces a configuration may declare

VARIABLES
  running,   \* a daemon runs
  declared,  \* the namespaces declared to it
  used       \* those of them containers were given

vars == <<running, declared, used>>

Init == running \in BOOLEAN /\ declared = {} /\ used = {}

Load(S) ==
  /\ running
  /\ declared' = declared \cup S
  /\ UNCHANGED <<running, used>>

Use(S) ==
  /\ running
  /\ used' = used \cup S
  /\ UNCHANGED <<running, declared>>

End ==
  /\ running
  /\ running' = FALSE /\ declared' = {} /\ used' = {}

Start ==
  /\ ~running
  /\ running' = TRUE
  /\ UNCHANGED <<declared, used>>

Next ==
  \/ \E S \in Declarable : Load(S)
  \/ \E S \in SUBSET declared : Use(S)
  \/ End \/ Start

Spec == Init /\ [][Next]_vars
=============================================================================
