------------------------------ MODULE Transport ------------------------------
(***************************************************************************)
(* recv_all and send_all (other/common.cpp) over one TCP connection.  The  *)
(* daemon calls one at a time.  Every step of a loop is one system call,   *)
(* which moves as many bytes as the kernel likes.                          *)
(*                                                                         *)
(* Byte k of the client's stream is the number k, and so is byte k of what *)
(* the daemon sends.  0 is memory nobody wrote: the caller's variables are *)
(* not initialised, and what lies outside a buffer is unknown.             *)
(***************************************************************************)
EXTENDS Integers, Sequences

CONSTANTS
  MaxStream,  \* bound on the bytes the client sends
  MaxWire,    \* bound on the bytes the daemon sends
  MaxSize     \* bound on the size of a block

ASSUME TransportAssumption ==
  MaxStream \in Nat /\ MaxWire \in Nat /\ MaxSize \in Nat

VARIABLES
  call,    \* the call the daemon is in; "received" after recv_all returned
  asked,   \* the size the caller asked for
  size,    \* what is left of it (the parameter, which the loop counts down)
  total,   \* total_bytes_read or total_bytes_send
  moved,   \* bytes_read
  buffer,  \* the caller's memory
  stream,  \* bytes the client sent
  taken,   \* bytes recv(2) took out of the kernel
  peer,    \* what the daemon's kernel knows of the client
  wire,    \* the bytes send(2) took
  given,   \* bytes of the stream in the buffers of calls that returned
  sent,    \* bytes in the buffers of the sends that returned
  cut      \* a call returned less than it was asked for

loopVars == <<asked, size, total, moved, buffer>>
kernelVars == <<stream, taken, peer, wire>>
history == <<given, sent, cut>>
vars == <<call, loopVars, kernelVars, history>>

\* closed: the client ended its stream.  reset: it broke the connection off,
\* and no call has been told yet.  broken: there is no connection any more.
Peer == {"open", "closed", "reset", "broken"}

TypeOK ==
  /\ call \in {"none", "recv", "received", "send", "down"}
  /\ asked \in 0..MaxSize
  /\ size \in Nat /\ total \in Int /\ moved \in Nat
  /\ call = "recv" => total \in Nat
  /\ buffer \in [1..asked -> Nat]
  /\ stream \in 0..MaxStream /\ taken \in 0..stream
  /\ peer \in Peer
  /\ wire \in Seq(Nat)
  /\ given \in Nat /\ sent \in Nat /\ cut \in BOOLEAN

Init ==
  /\ call = "none" /\ asked = 0 /\ size = 0 /\ total = 0 /\ moved = 1
  /\ buffer = [i \in 1..0 |-> 0]
  /\ stream = 0 /\ taken = 0 /\ peer = "open" /\ wire = <<>>
  /\ given = 0 /\ sent = 0 /\ cut = FALSE

-----------------------------------------------------------------------------
(* Plausible bugs, each a changed form of a definition below *)

\* recv_all writing to buffer instead of buffer + total_bytes_read.
ReceivePieceAtStart(n) ==
  /\ call = "recv" /\ size > 0 /\ moved > 0
  /\ n \in 1..size /\ n <= stream - taken
  /\ buffer' = [i \in 1..asked |-> IF i <= n THEN taken + i ELSE buffer[i]]
  /\ taken' = taken + n /\ moved' = n /\ total' = total + n /\ size' = size - n
  /\ UNCHANGED <<call, asked, stream, peer, wire, history>>

\* recv_all with one recv(2) and no loop.
RecvReturnsEarly ==
  /\ call = "recv"
  /\ total > 0 \/ size = 0 \/ moved = 0
  /\ call' = "received"
  /\ given' = given + total /\ cut' = (cut \/ size > 0)
  /\ UNCHANGED <<loopVars, kernelVars, sent>>

\* recv_all with only size > 0 as its condition.
ReceiveEndUnnoticed ==
  /\ call = "recv" /\ size > 0 /\ moved > 0
  /\ taken = stream /\ peer \in {"closed", "broken"}
  /\ UNCHANGED vars

\* send_all sending from buffer instead of buffer + total_bytes_send.
SentFromStart(n) == [j \in 1..n |-> IF j \in 1..asked THEN buffer[j] ELSE 0]

\* send called with MSG_NOSIGNAL.
SendNoSignal ==
  /\ call = "send" /\ size > 0
  /\ peer = "broken"
  /\ total' = total - 1 /\ size' = size + 1
  /\ UNCHANGED <<call, asked, moved, buffer, kernelVars, history>>

\* SIGPIPE ignored, and send(2) called again for the same bytes.
SendRetried ==
  /\ call = "send" /\ size > 0
  /\ peer = "broken"
  /\ UNCHANGED vars

-----------------------------------------------------------------------------
(* recv_all *)

StartRecv(n) ==
  /\ call \in {"none", "received"}
  /\ call' = "recv"
  /\ asked' = n /\ size' = n /\ total' = 0 /\ moved' = 1
  /\ buffer' = [i \in 1..n |-> 0]
  /\ UNCHANGED <<kernelVars, history>>

Receiving == call = "recv" /\ size > 0 /\ moved > 0

\* recv(2) waits for a byte, then takes any number of those that are there.
ReceivePiece(n) ==
  /\ Receiving
  /\ n \in 1..size /\ n <= stream - taken
  /\ buffer' = [i \in 1..asked |-> IF i \in (total + 1)..(total + n)
                                   THEN taken + i - total ELSE buffer[i]]
  /\ taken' = taken + n /\ moved' = n /\ total' = total + n /\ size' = size - n
  /\ UNCHANGED <<call, asked, stream, peer, wire, history>>

\* All that came has been taken, and no more will come: recv(2) returns 0.
ReceiveEnd ==
  /\ Receiving
  /\ taken = stream /\ peer \in {"closed", "broken"}
  /\ moved' = 0
  /\ UNCHANGED <<call, asked, size, total, buffer, kernelVars, history>>

\* syscall_wrapper throws, and the daemon ends.
ReceiveError ==
  /\ Receiving
  /\ taken = stream /\ peer = "reset"
  /\ call' = "down"
  /\ UNCHANGED <<loopVars, kernelVars, history>>

RecvReturns ==
  /\ call = "recv"
  /\ size = 0 \/ moved = 0
  /\ call' = "received"
  /\ given' = given + total /\ cut' = (cut \/ size > 0)
  /\ UNCHANGED <<loopVars, kernelVars, sent>>

-----------------------------------------------------------------------------
(* send_all *)

StartSend(n) ==
  /\ call \in {"none", "received"}
  /\ sent + n <= MaxWire
  /\ call' = "send"
  /\ asked' = n /\ size' = n /\ total' = 0
  /\ buffer' = [i \in 1..n |-> sent + i]
  /\ UNCHANGED <<moved, kernelVars, history>>

\* The n bytes from buffer + total_bytes_send on.
Sent(n) == [j \in 1..n |-> IF total + j \in 1..asked THEN buffer[total + j] ELSE 0]

\* The kernel takes bytes also when the client has closed: it only learns from
\* the client's answer to them that nobody reads them.
SendPiece(n) ==
  /\ call = "send" /\ n \in 1..size
  /\ peer \in {"open", "closed"}
  /\ wire' = wire \o Sent(n)
  /\ total' = total + n /\ size' = size - n
  /\ UNCHANGED <<call, asked, moved, buffer, stream, taken, peer, history>>

\* send(2) reports a reset once, by -1, which the loop counts.
SendError ==
  /\ call = "send" /\ size > 0
  /\ peer = "reset"
  /\ total' = total - 1 /\ size' = size + 1
  /\ peer' = "broken"
  /\ UNCHANGED <<call, asked, moved, buffer, stream, taken, wire, history>>

\* From then on it raises SIGPIPE, which nobody handles.
SendKilled ==
  /\ call = "send" /\ size > 0
  /\ peer = "broken"
  /\ call' = "down"
  /\ UNCHANGED <<loopVars, kernelVars, history>>

SendReturns ==
  /\ call = "send" /\ size = 0
  /\ call' = "none"
  /\ sent' = sent + asked
  /\ UNCHANGED <<loopVars, kernelVars, given, cut>>

-----------------------------------------------------------------------------
(* The client *)

ClientSends ==
  /\ peer = "open" /\ stream < MaxStream
  /\ stream' = stream + 1
  /\ UNCHANGED <<call, loopVars, taken, peer, wire, history>>

\* After a close the connection breaks at the first byte sent to it.
ClientLeaves ==
  /\ \/ peer = "open" /\ peer' \in {"closed", "reset"}
     \/ peer = "closed" /\ peer' = "broken"
  /\ UNCHANGED <<call, loopVars, stream, taken, wire, history>>

-----------------------------------------------------------------------------
RecvStep == (\E n \in 1..MaxSize : ReceivePiece(n)) \/ ReceiveEnd \/ ReceiveError \/ RecvReturns
SendStep == SendError \/ SendKilled \/ SendReturns

Next ==
  \/ RecvStep \/ SendStep
  \/ \E n \in 0..MaxSize : StartRecv(n) \/ StartSend(n) \/ SendPiece(n)
  \/ ClientSends \/ ClientLeaves

\* The daemon runs.  That send(2) takes bytes depends on a client that reads.
Safety == Init /\ [][Next]_vars
Spec == Safety /\ WF_vars(RecvStep) /\ WF_vars(SendStep)

-----------------------------------------------------------------------------
(* Properties *)

\* However a block arrives, recv_all puts the bytes that follow the last block
\* in the caller's memory, in order and without a gap, and leaves the rest of
\* the memory as it was (common.cpp:46-48).
ReceivedInOrder ==
  call \in {"recv", "received"} =>
    LET before == IF call = "recv" THEN given ELSE given - total IN
      \A i \in 1..asked : buffer[i] = IF i <= total THEN before + i ELSE 0

\* The callers of recv_all ignore what it returns.  A block that is not
\* complete is the last: the stream is over, and later blocks are empty.
ShortOnlyAtEnd == cut => peer \in {"closed", "broken"} /\ taken = stream

\* What send_all puts on the connection is what its callers gave it, also after
\* the -1 it adds to its counters: no byte is missing, sent twice, or of the
\* memory around the buffer (common.cpp:59-61).
WireIsAnswer == \A i \in 1..Len(wire) : wire[i] = i

\* The counters run back by one byte at most before the daemon is killed: they
\* never grow without end in a loop that sends nothing.
StepsBackOnce == call = "send" => total >= -1 /\ size <= asked + 1

\* A block that is there, or whose stream has ended, is received.
RecvEnds ==
  (call = "recv" /\ (peer # "open" \/ stream - taken >= size)) ~> call # "recv"

\* A send to a client that broke the connection off ends, with the daemon.
SendEnds == (call = "send" /\ peer \in {"reset", "broken"}) ~> call # "send"

\* The only things a call waits for are bytes of a client that is still there, and
\* room for bytes to one that does not read: never for one that has left.
NeverStuck ==
  /\ call = "recv" /\ (peer # "open" \/ taken < stream \/ size = 0) => ENABLED <<RecvStep>>_vars
  /\ call = "send" /\ (peer \in {"reset", "broken"} \/ size = 0) => ENABLED <<SendStep>>_vars

Blocks == INSTANCE BlockTransfer WITH over <- cut

\* The two loops make a connection of blocks out of one of bytes.
BlockSpec == Blocks!Spec
=============================================================================
