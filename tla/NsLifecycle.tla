---------------------------- MODULE NsLifecycle ----------------------------
(***************************************************************************)
(* What the pool of namespaces promises, without the daemon's steps, the   *)
(* children or the kernel: a declared namespace is created by one launch   *)
(* and by no other; the handles of the namespaces a launch creates are     *)
(* opened one by one; only when all of them are open do they, together,    *)
(* become active, that is, open to other containers.  One launch is under  *)
(* way at a time, and one that stops half way leaves its namespaces        *)
(* unusable for good.                                                      *)
(***************************************************************************)
CONSTANTS Launch, Entry, None

VARIABLES phase, creator
vars == <<phase, creator>>

Phase == {"declared", "created", "open", "active"}

CreatedBy(c) == {e \in Entry : creator[e] = c}
Settled == \A e \in Entry : phase[e] \in {"declared", "active"}

Init ==
  /\ phase = [e \in Entry |-> "declared"]
  /\ creator = [e \in Entry |-> None]

Move(S, p) == phase' = [e \in Entry |-> IF e \in S THEN p ELSE phase[e]]

Create(c, S) ==
  /\ Settled
  /\ CreatedBy(c) = {}
  /\ \A e \in S : phase[e] = "declared"
  /\ Move(S, "created")
  /\ creator' = [e \in Entry |-> IF e \in S THEN c ELSE creator[e]]

Open(e) ==
  /\ phase[e] = "created"
  /\ Move({e}, "open")
  /\ UNCHANGED creator

Activate(c) ==
  /\ \A e \in CreatedBy(c) : phase[e] = "open"
  /\ Move(CreatedBy(c), "active")
  /\ UNCHANGED creator

Next ==
  \/ \E c \in Launch : Activate(c) \/ \E S \in SUBSET Entry : Create(c, S)
  \/ \E e \in Entry : Open(e)

Spec == Init /\ [][Next]_vars
=============================================================================
