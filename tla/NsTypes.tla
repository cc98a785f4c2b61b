------------------------------ MODULE NsTypes ------------------------------
(***************************************************************************)
(* The namespace types of src/jocker-server/ns/ns_types/ns_type.h.         *)
(*                                                                         *)
(* The enumerators index every per-type vector of the program, and every   *)
(* loop over the types runs in their order, so the order of the enum is    *)
(* the order in which namespaces are handled, set up and initialised.      *)
(***************************************************************************)
EXTENDS Naturals

NsType == {"USER", "MOUNT", "PID", "IPC", "NETWORK", "TIME", "UTS"}

\* A child that handles PID before MOUNT (for the mutation of NsIndex).
PidBeforeMount(t) ==
  CASE t = "USER" -> 0 [] t = "PID" -> 1 [] t = "MOUNT" -> 2 [] t = "IPC" -> 3
    [] t = "NETWORK" -> 4 [] t = "TIME" -> 5 [] t = "UTS" -> 6

\* The enumerator's value.
NsIndex(t) ==
  CASE t = "USER" -> 0 [] t = "MOUNT" -> 1 [] t = "PID" -> 2 [] t = "IPC" -> 3
    [] t = "NETWORK" -> 4 [] t = "TIME" -> 5 [] t = "UTS" -> 6

\* The types with a flag for clone(2): CLONE_NEWTIME is commented out.
Cloneable == NsType \ {"TIME"}
=============================================================================
