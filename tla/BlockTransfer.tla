---------------------------- MODULE BlockTransfer ----------------------------
(***************************************************************************)
(* What the handlers of the daemon take for granted of a connection: a     *)
(* block is received whole, or the connection is over and nothing comes    *)
(* after it; a block is sent whole or the daemon ends.  Blocks follow each *)
(* other without a gap, so the bytes given and sent are just counts.       *)
(***************************************************************************)
EXTENDS Naturals

VARIABLES
  given,  \* bytes of the client's stream that callers were given
  over,   \* a caller was given less than it asked for
  sent    \* bytes of the daemon's answers that were sent

vars == <<given, over, sent>>

Init == given = 0 /\ over = FALSE /\ sent = 0

ReadBlock ==
  /\ ~over
  /\ given' \in Nat /\ given' > given
  /\ UNCHANGED <<over, sent>>

ReadRest ==
  /\ ~over
  /\ over' = TRUE
  /\ given' \in Nat /\ given' >= given
  /\ UNCHANGED sent

WriteBlock ==
  /\ sent' \in Nat /\ sent' > sent
  /\ UNCHANGED <<given, over>>

Next == ReadBlock \/ ReadRest \/ WriteBlock

Spec == Init /\ [][Next]_vars
=============================================================================
