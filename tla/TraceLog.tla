------------------------------ MODULE TraceLog ------------------------------
(***************************************************************************)
(* The trace of the daemon: the file that log_message writes, and what     *)
(* send_trace reads of it (execution/daemon.cpp).  One stream writes and   *)
(* another reads, each with its own place in the file.  The constructor    *)
(* truncates the file before it finds out whether the port is free: a      *)
(* second daemon that fails to start empties the trace of the first.       *)
(*                                                                         *)
(* Message k of a daemon is the k-th cell of the file.  The module holds   *)
(* the state and the parts of actions; Session composes them.              *)
(***************************************************************************)
EXTENDS Naturals, Sequences

VARIABLES
  wrote,      \* messages written: the place of log_file_writer
  length,     \* the length of the file
  position,   \* the place of log_file_reader
  erased,     \* the messages a failed start truncated away
  swallowed,  \* the messages sent to a client that had gone
  traces      \* the messages of each trace sent

traceVars == <<wrote, length, position, erased, swallowed, traces>>

\* Plausible bug: the file opened with std::ios::app, so that the writer goes
\* on at the end the file has.
LogMessageAppending ==
  /\ wrote' = length + 1 /\ length' = length + 1
  /\ UNCHANGED <<position, erased, swallowed, traces>>

\* Plausible bug: send_trace reading the file from the start each time.
UnreadFromStart == (1..length) \ erased

\* The places of a daemon that has not begun, or has ended.
TraceInit ==
  /\ wrote = 0 /\ length = 0 /\ position = 0
  /\ erased = {} /\ swallowed = {} /\ traces = <<>>

TraceEnds ==
  /\ wrote' = 0 /\ length' = 0 /\ position' = 0
  /\ erased' = {} /\ swallowed' = {} /\ traces' = <<>>

\* The constructor, with the message that the daemon is listening.
TraceBegins ==
  /\ wrote' = 1 /\ length' = 1 /\ position' = 0
  /\ erased' = {} /\ swallowed' = {} /\ traces' = <<>>

\* std::endl flushes every message.  After a truncation the writer goes on at
\* its own place: what lies before it has become a hole, which reads as NULs.
LogMessage ==
  /\ wrote' = wrote + 1 /\ length' = wrote + 1
  /\ UNCHANGED <<position, erased, swallowed, traces>>

\* The constructor of another daemon with the same file.
Truncate ==
  /\ length' = 0 /\ erased' = 1..wrote
  /\ UNCHANGED <<wrote, position, swallowed, traces>>

\* send_trace sends what was written since it last read.
Unread == ((position + 1)..length) \ erased

ReadOn == position' = IF position < length THEN length ELSE position

TraceSent ==
  /\ ReadOn
  /\ traces' = Append(traces, Unread)
  /\ UNCHANGED <<wrote, length, erased, swallowed>>

TraceSwallowed ==
  /\ ReadOn
  /\ swallowed' = swallowed \cup Unread
  /\ UNCHANGED <<wrote, length, erased, traces>>

-----------------------------------------------------------------------------
TraceTypeOK ==
  /\ wrote \in Nat /\ length \in 0..wrote /\ position \in 0..wrote
  /\ erased \subseteq 1..wrote /\ swallowed \subseteq 1..wrote
  /\ traces \in Seq(SUBSET (1..wrote))

\* Over all clients of a daemon, every message is sent at most once and in the
\* order it was written; one that the reader has passed was sent, unless it was
\* erased by a failed start or went to a client that had gone.
TraceExact ==
  /\ \A i, j \in DOMAIN traces : i < j =>
       \A m \in traces[i], k \in traces[j] : m < k
  /\ \A m \in 1..position :
       m \in erased \/ m \in swallowed \/ \E i \in DOMAIN traces : m \in traces[i]
=============================================================================
