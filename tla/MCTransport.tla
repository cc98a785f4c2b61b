----------------------------- MODULE MCTransport -----------------------------
(***************************************************************************)
(* Transport with blocks of up to three bytes: a block can come, or be     *)
(* sent, in three pieces, and end after none, one or two of its bytes.     *)
(***************************************************************************)
EXTENDS Transport
=============================================================================
