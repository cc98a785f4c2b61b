--------------------------- MODULE SessionLiveness ---------------------------
(***************************************************************************)
(* The daemon never stands still while it has something to do, and the     *)
(* waits of the clients go on step by step, proved for any clients and     *)
(* requests.                                                               *)
(*                                                                         *)
(* That the guard of an action of the daemon holds wherever it has work is *)
(* proved (NeverWaits).  That an action is enabled where its guard holds,  *)
(* which can be read off its text, is the hypothesis []GuardsEnable: tlapm *)
(* has no rule for ENABLED.                                                *)
(***************************************************************************)
EXTENDS SessionProofs

\* The guards of the actions of the daemon.
DaemonCan ==
  \/ dpc = "accept" /\ queue # <<>> /\ fds < FdLimit
  \/ dpc = "accept" /\ queue # <<>> /\ ~(fds < FdLimit /\ phase[Head(queue)] # "reset")
  \/ \E c \in Client : dpc = "request" /\ cur = c /\ in[c] = <<>> /\ phase[c] \in {"shut", "reset"}
  \/ \E c \in Client, t \in RequestType : Serve(c, t)
  \/ dpc \in {"open", "clone"}
  \/ dpc = "lookup" /\ job.ns \subseteq declared
  \/ dpc = "lookup" /\ ~(job.ns \subseteq declared)

GuardsEnable == DaemonCan => ENABLED <<DaemonStep>>_vars

\* What is next on a stream is a request, and it is there whole or cut short.
LEMMA RequestIsThere ==
  ASSUME StreamInv, NEW c \in Client, in[c] # <<>>
  PROVE  \E t \in RequestType :
           TypeIs(c, t) /\ (Whole(c, FieldCount(t)) \/ CutShort(c, FieldCount(t)))
<1>1. /\ ClientTypeOK /\ StreamOK(c) /\ in[c] \in Seq(Block) /\ asked[c] \in Seq(Request)
      /\ 1 \in DOMAIN in[c] /\ Head(in[c]) = in[c][1]
  BY Elements DEF StreamInv, TypeOK
<1>2. in[c][1].part = 0 /\ in[c][1].id \in DOMAIN asked[c]
  BY <1>1 DEF StreamOK
<1>3. First(c) \in Request
  BY <1>1, <1>2 DEF First
<1>4. PICK t \in RequestType : t = First(c).type
  BY <1>3, RequestFacts
<1>5. TypeIs(c, t)
  BY <1>1, <1>2, <1>4 DEF TypeIs
<1>6. CASE CutShort(c, FieldCount(t))
  BY <1>5, <1>6
<1>7. CASE ~CutShort(c, FieldCount(t))
  <2>1. PICK k \in 0..3 : k = FieldCount(t)
    BY CountIsSent
  <2>2. \A i \in DOMAIN in[c] : i <= k + 1 => ~in[c][i].cut /\ in[c][i].part = i - 1 /\ Fields(c, i) = k
    BY <1>5, <1>7, <2>1, OneRequest DEF CutShort
  <2>3. Len(in[c]) > k
    <3>1. SUFFICES ASSUME Len(in[c]) <= k PROVE FALSE
      BY <1>1, <2>1
    <3>2. PICK l \in 1..3 : l = Len(in[c]) /\ l <= k
      <4>1. Len(in[c]) \in Nat /\ Len(in[c]) >= 1
        BY <1>1
      <4>2. PICK l \in Nat : l = Len(in[c])
        BY <4>1
      <4>3. l >= 1 /\ l <= k
        BY <3>1, <4>1, <4>2
      <4>4. l \in 1..3
        BY <4>3
      <4> QED
        BY <4>2, <4>3, <4>4
    <3>3. l \in DOMAIN in[c]
      BY <1>1, <3>2
    <3>4. in[c][l].part = l - 1 /\ Fields(c, l) = k /\ ~in[c][l].cut
      BY <2>2, <3>2, <3>3
    <3>5. in[c][l].part = Fields(c, l)
      BY <1>1, <3>2, <3>3, <3>4 DEF StreamOK
    <3> QED
      BY <3>2, <3>4, <3>5
  <2>4. \A i \in 1..(k + 1) : i \in DOMAIN in[c] /\ i <= k + 1
    BY <1>1, <2>3
  <2> QED
    BY <1>5, <2>1, <2>2, <2>3, <2>4 DEF Whole
<1> QED
  BY <1>6, <1>7

LEMMA DaemonNeverWaits == StreamInv /\ ConnectedInv /\ HasWork => DaemonCan
<1> SUFFICES ASSUME StreamInv, ConnectedInv, HasWork PROVE DaemonCan
  OBVIOUS
<1>1. CASE dpc \in Running
  BY <1>1 DEF Running, DaemonCan
<1>2. CASE dpc = "accept" /\ queue # <<>>
  BY <1>2 DEF DaemonCan
<1>3. CASE dpc = "request" /\ (in[cur] # <<>> \/ phase[cur] # "open")
  <2>1. cur \in Client /\ phase[cur] \in {"open", "shut", "reset"}
    BY <1>3, SessionAssumption DEF StreamInv, TypeOK, DaemonTypeOK, ClientTypeOK, ConnectedInv
  <2>2. CASE in[cur] # <<>>
    BY <1>3, <2>1, <2>2, RequestIsThere DEF DaemonCan, Serve
  <2>3. CASE in[cur] = <<>>
    BY <1>3, <2>1, <2>3 DEF DaemonCan
  <2> QED
    BY <2>2, <2>3
<1> QED
  BY <1>1, <1>2, <1>3 DEF HasWork

LEMMA Connecteds == Spec => []ConnectedInv
<1>1. Init => ConnectedInv
  BY DEF Init, SocketInit, ConnectedInv
<1> QED
  BY <1>1, ConnectedStep, Streams, PTL DEF Spec, Safety

\* Wherever the daemon has something to do, the guard of a step of it holds: a
\* launch is never held up, a request is never waited for in its middle, and who
\* left is found out, whichever way it left.
THEOREM NeverWaits == Spec => [](HasWork => DaemonCan)
BY DaemonNeverWaits, Connecteds, Streams, PTL

\* So the daemon does not stand still.
THEOREM NobodyStuck == Spec /\ []GuardsEnable => []NeverStuck
<1>1. (HasWork => DaemonCan) /\ GuardsEnable => NeverStuck
  BY Zenon DEF GuardsEnable, NeverStuck
<1> QED
  BY <1>1, NeverWaits, PTL

-----------------------------------------------------------------------------
(* The waits go on *)

\* Waiting for the answer to a request for a trace, one can wait for the next step
\* of the daemon: n + 1 of them come to n, whatever n is (AnswerBounded: there are
\* finitely many to begin with, and none are left in the end).
THEOREM AnswerGoesOn ==
  ASSUME NEW i, NEW n \in Nat
  PROVE  Spec /\ []GuardsEnable => (AnswerWithin(i, n + 1) ~> AnswerWithin(i, n) \/ ~Unanswered(i))
<1>1. AnswerWithin(i, n + 1) /\ [AnswerAdvances(i, n)]_vars =>
        AnswerWithin(i, n + 1)' \/ ~Unanswered(i)'
  <2>1. AnswerWithin(i, n + 1) /\ UNCHANGED vars => AnswerWithin(i, n + 1)'
    BY DEF AnswerWithin, Unanswered, Stage, vars, daemonVars, clientVars
  <2> QED
    BY <2>1 DEF AnswerAdvances
<1>2. AnswerWithin(i, n + 1) /\ AnswerAdvances(i, n) /\ <<DaemonStep>>_vars =>
        AnswerWithin(i, n)' \/ ~Unanswered(i)'
  BY DEF AnswerAdvances
<1>3. StreamInv /\ AnswerWithin(i, n + 1) => HasWork
  <2>1. SUFFICES ASSUME StreamInv, AnswerWithin(i, n + 1) PROVE HasWork
    OBVIOUS
  <2>2. cur \in Client /\ dpc \in {"request"} \cup Running
    BY <2>1, SessionAssumption DEF AnswerWithin, Unanswered, StreamInv, TypeOK, DaemonTypeOK
  <2>3. in[cur] # <<>>
    BY <2>1 DEF AnswerWithin
  <2> QED
    BY <2>2, <2>3 DEF HasWork
<1>4. NeverStuck /\ HasWork => ENABLED <<DaemonStep>>_vars
  BY Zenon DEF NeverStuck
<1> QED
  BY <1>1, <1>2, <1>3, <1>4, AnswerNearer, NobodyStuck, Streams, PTL DEF Spec

\* Once the client that is served has left, the next one waits for one step of the
\* daemon after the other in the same way.
THEOREM NextGoesOn ==
  ASSUME NEW c \in Client, NEW n \in Nat
  PROVE  Spec /\ []GuardsEnable => (NextWithin(c, n + 1) ~> NextWithin(c, n) \/ ServedOrOff(c))
<1>1. NextWithin(c, n + 1) /\ [NextAdvances(c, n)]_vars =>
        NextWithin(c, n + 1)' \/ ServedOrOff(c)'
  <2>1. NextWithin(c, n + 1) /\ UNCHANGED vars => NextWithin(c, n + 1)'
    BY DEF NextWithin, FirstWaits, Work, Stage, vars, daemonVars, clientVars, socketVars
  <2> QED
    BY <2>1 DEF NextAdvances
<1>2. NextWithin(c, n + 1) /\ NextAdvances(c, n) /\ <<DaemonStep>>_vars =>
        NextWithin(c, n)' \/ ServedOrOff(c)'
  BY DEF NextAdvances
<1>3. StreamInv /\ NextWithin(c, n + 1) => HasWork
  <2>1. SUFFICES ASSUME StreamInv, NextWithin(c, n + 1) PROVE HasWork
    OBVIOUS
  <2>2. dpc \in {"accept", "request"} \cup Running /\ (cur = NoClient <=> dpc = "accept")
    BY <2>1 DEF NextWithin, FirstWaits, StreamInv, TypeOK, DaemonTypeOK, Running
  <2> QED
    BY <2>1, <2>2 DEF NextWithin, FirstWaits, HasWork
<1>4. NeverStuck /\ HasWork => ENABLED <<DaemonStep>>_vars
  BY Zenon DEF NeverStuck
<1> QED
  BY <1>1, <1>2, <1>3, <1>4, NextNearer, NobodyStuck, Streams, PTL DEF Spec
=============================================================================
