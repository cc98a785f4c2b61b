------------------------------ MODULE MCLaunch ------------------------------
(***************************************************************************)
(* Launch on a small pool.  The groups are the shapes that behave          *)
(* differently: no namespace, a user namespace alone, a mount namespace    *)
(* with and without the PID namespace below it, a PID namespace with no    *)
(* mount namespace, everything together, and the type that cannot be       *)
(* created.                                                                *)
(***************************************************************************)
EXTENDS Launch, TLC

CONSTANTS c1, c2, usr, mnt, pid, uts, time, b1

MCTypeOf == (usr :> "USER") @@ (mnt :> "MOUNT") @@ (pid :> "PID")
              @@ (uts :> "UTS") @@ (time :> "TIME")

MCGroups == {{}, {usr}, {mnt}, {mnt, pid}, {usr, pid}, {pid},
             {usr, mnt, pid, uts}, {time}}
=============================================================================
