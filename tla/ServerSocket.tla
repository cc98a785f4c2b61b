----------------------------- MODULE ServerSocket -----------------------------
(***************************************************************************)
(* The listening socket (execution/daemon_socket.cpp).  It lives as long   *)
(* as a process has it open: the daemon, and every container it launched,  *)
(* for the descriptor is not closed before execvp.  The port is taken as   *)
(* long, and clients go on connecting to it.                               *)
(*                                                                         *)
(* The daemon is process 0, the containers are numbered from 1.  The       *)
(* module holds the state and the parts of actions; Session composes them. *)
(***************************************************************************)
EXTENDS Naturals, Sequences

CONSTANT Backlog  \* the argument of listen(2)

VARIABLES
  holders,  \* the processes that have the listening socket open
  queue     \* the clients connected and not accepted yet

socketVars == <<holders, queue>>

SocketInit == holders = {} /\ queue = <<>>

\* Plausible bug: SO_REUSEPORT, so that a port in use can be bound again.
BindShared == holders' = holders \cup {0} /\ queue' = <<>>

\* socket, bind and listen.  bind(2) fails while the port is taken.
Bind ==
  /\ holders = {}
  /\ holders' = {0} /\ queue' = <<>>

\* The kernel completes connections on its own, one more than the backlog.
QueueClient(c) ==
  /\ holders # {} /\ Len(queue) <= Backlog
  /\ queue' = Append(queue, c)

AcceptFirst ==
  /\ queue # <<>>
  /\ queue' = Tail(queue)

\* Who is left when the processes of S end, and which clients still wait: the
\* socket goes with the last process that holds it.
HoldersAfter(S) == holders \ S
QueueAfter(H) == IF H = {} THEN <<>> ELSE queue
=============================================================================
