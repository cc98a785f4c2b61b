------------------------------ MODULE NamePool ------------------------------
(***************************************************************************)
(* What the registry of namespaces promises to the containers: a name of a *)
(* type is bound to one object, the first one declared under it, for as    *)
(* long as the daemon runs, and every container that asks for the name     *)
(* gets that object.                                                       *)
(***************************************************************************)
CONSTANTS
  Key,     \* what a namespace is asked for by: its type and its name
  Object,  \* namespace objects
  None     \* no object

VARIABLES
  bound,   \* bound[k]: the object k stands for
  served   \* what containers were given: pairs of a key and an object
vars == <<bound, served>>

Init == bound = [k \in Key |-> None] /\ served = {}

Bind(k) ==
  /\ bound[k] = None
  /\ bound'[k] \in Object
  /\ \A j \in Key : bound[j] # bound'[k]
  /\ bound' = [bound EXCEPT ![k] = bound'[k]]
  /\ UNCHANGED served

Serve(K) ==
  /\ \A k \in K : bound[k] # None
  /\ served' = served \cup {<<k, bound[k]>> : k \in K}
  /\ UNCHANGED bound

Next == \/ \E k \in Key : Bind(k)
        \/ \E K \in SUBSET Key : Serve(K)

Spec == Init /\ [][Next]_vars
=============================================================================
