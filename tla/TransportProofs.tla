--------------------------- MODULE TransportProofs ---------------------------
(***************************************************************************)
(* Theorems about Transport, for streams and blocks of any size.           *)
(***************************************************************************)
EXTENDS Transport, TLAPS

-----------------------------------------------------------------------------
(* Types *)

\* The initial state has the types.
LEMMA InitTypes == Init => TypeOK
<1> SUFFICES ASSUME Init PROVE TypeOK
  OBVIOUS
<1>1. buffer \in [1..asked -> Nat]
  BY DEF Init
<1>2. wire \in Seq(Nat)
  BY DEF Init
<1>3. asked \in 0..MaxSize /\ stream \in 0..MaxStream /\ taken \in 0..stream
  BY TransportAssumption DEF Init
<1>4. cut \in BOOLEAN /\ peer \in Peer
  BY DEF Init, Peer
<1>5. /\ size \in Nat /\ total \in Nat /\ moved \in Nat /\ given \in Nat /\ sent \in Nat
      /\ call = "none"
  BY DEF Init
<1> QED BY <1>1, <1>2, <1>3, <1>4, <1>5 DEF TypeOK

\* Every variable of Transport keeps its type.
THEOREM TypeCorrect == Safety => []TypeOK
<1>1. Init => TypeOK
  BY InitTypes
<1>2. TypeOK /\ [Next]_vars => TypeOK'
  <2> SUFFICES ASSUME TypeOK, [Next]_vars PROVE TypeOK'
    OBVIOUS
  <2> USE TransportAssumption DEF TypeOK, loopVars, kernelVars, history, Peer
  <2>1. ASSUME NEW n \in 1..MaxSize, ReceivePiece(n) PROVE TypeOK'
    BY <2>1 DEF ReceivePiece, Receiving
  <2>2. CASE ReceiveEnd
    BY <2>2 DEF ReceiveEnd, Receiving
  <2>3. CASE ReceiveError
    BY <2>3 DEF ReceiveError, Receiving
  <2>4. CASE RecvReturns
    BY <2>4 DEF RecvReturns
  <2>5. CASE SendError
    BY <2>5 DEF SendError
  <2>6. CASE SendKilled
    BY <2>6 DEF SendKilled
  <2>7. CASE SendReturns
    BY <2>7 DEF SendReturns
  <2>8. ASSUME NEW n \in 0..MaxSize, StartRecv(n) PROVE TypeOK'
    BY <2>8 DEF StartRecv
  <2>9. ASSUME NEW n \in 0..MaxSize, StartSend(n) PROVE TypeOK'
    BY <2>9 DEF StartSend
  <2>10. ASSUME NEW n \in 0..MaxSize, SendPiece(n) PROVE TypeOK'
    <3>1. Sent(n) \in Seq(Nat)
      BY DEF Sent
    <3> QED BY <2>10, <3>1 DEF SendPiece
  <2>11. CASE ClientSends
    BY <2>11 DEF ClientSends
  <2>12. CASE ClientLeaves
    BY <2>12 DEF ClientLeaves
  <2>13. CASE UNCHANGED vars
    BY <2>13 DEF vars
  <2> QED
    BY <2>1, <2>2, <2>3, <2>4, <2>5, <2>6, <2>7, <2>8, <2>9, <2>10, <2>11, <2>12, <2>13
    DEF Next, RecvStep, SendStep
<1> QED BY <1>1, <1>2, PTL DEF Safety

-----------------------------------------------------------------------------
(* The inductive invariant *)

\* Where the bytes taken out of the stream are: in the buffers of the calls
\* that returned, and in that of the call under way.
StreamInv ==
  /\ size + total = asked
  /\ call = "recv" => total >= 0 /\ size >= 0 /\ taken = given + total
  /\ call = "received" => total >= 0 /\ size >= 0 /\ taken = given /\ given >= total
  /\ call \in {"none", "send"} => taken = given
  /\ call = "recv" /\ moved = 0 => peer \in {"closed", "broken"} /\ taken = stream
  /\ call = "recv" /\ cut => total = 0
  /\ ReceivedInOrder
  /\ ShortOnlyAtEnd

\* What the kernel took of the answers.  Only a connection that is gone can
\* find the counters of send_all out of step with it.
AnswerInv ==
  /\ call \in {"none", "recv", "received"} => Len(wire) = sent
  /\ call = "send" =>
       /\ \A i \in 1..asked : buffer[i] = sent + i
       /\ peer # "broken" => total >= 0
       /\ peer # "broken" \/ size = 0 => Len(wire) = sent + total
       /\ total >= -1
  /\ WireIsAnswer

IInv == TypeOK /\ StreamInv /\ AnswerInv

-----------------------------------------------------------------------------
(* Single steps *)

\* A piece that recv(2) delivers continues the block where it stopped.
LEMMA PieceInOrder ==
  ASSUME IInv, NEW n \in 1..MaxSize, ReceivePiece(n)
  PROVE  StreamInv'
<1> USE TransportAssumption DEF IInv, TypeOK, StreamInv, ReceivePiece, Receiving, history
<1>1. ReceivedInOrder'
  BY DEF ReceivedInOrder
<1>2. ShortOnlyAtEnd'
  BY DEF ShortOnlyAtEnd
<1>3. taken' = given' + total' /\ size' >= 0 /\ total' >= 0 /\ size' + total' = asked'
  BY DEF ReceivedInOrder
<1>4. moved' # 0 /\ (cut' => total' = 0)
  BY DEF ShortOnlyAtEnd
<1> QED BY <1>1, <1>2, <1>3, <1>4

\* The length of two sequences one after the other.
LEMMA LengthOfConcat ==
  ASSUME NEW s \in Seq(Nat), NEW t \in Seq(Nat)
  PROVE  Len(s \o t) = Len(s) + Len(t)
OBVIOUS

\* A piece that send(2) takes continues the answer where it stopped.
LEMMA PieceOfAnswer ==
  ASSUME IInv, NEW n \in 0..MaxSize, SendPiece(n)
  PROVE  AnswerInv'
<1> USE TransportAssumption DEF IInv, TypeOK, SendPiece
<1>1. /\ Len(wire) = sent + total /\ total >= 0 /\ total + n <= asked
      /\ \A i \in 1..asked : buffer[i] = sent + i
  BY DEF StreamInv, AnswerInv
<1>2. /\ Sent(n) \in Seq(Nat) /\ Len(Sent(n)) = n
      /\ \A j \in 1..n : Sent(n)[j] = Len(wire) + j
  BY <1>1 DEF Sent
<1>3. wire' = wire \o Sent(n) /\ Len(wire') = Len(wire) + n
  <2>1. wire \in Seq(Nat) /\ wire' = wire \o Sent(n)
    OBVIOUS
  <2> QED BY <1>2, <2>1, LengthOfConcat
<1>4. Len(wire') = sent' + total'
  BY <1>1, <1>3 DEF history
<1>5. ASSUME NEW i \in 1..Len(wire') PROVE wire'[i] = i
  <2>1. CASE i <= Len(wire)
    BY <2>1, <1>2 DEF AnswerInv, WireIsAnswer
  <2>2. CASE i > Len(wire)
    <3>1. i - Len(wire) \in 1..n /\ wire'[i] = Sent(n)[i - Len(wire)]
      BY <2>2, <1>2, <1>3
    <3> QED BY <3>1, <1>2, <2>2
  <2> QED BY <2>1, <2>2
<1> QED BY <1>1, <1>4, <1>5 DEF AnswerInv, WireIsAnswer, history

\* Every step preserves the invariant.
LEMMA Preserved ==
  ASSUME IInv, TypeOK', [Next]_vars
  PROVE  IInv'
<1> USE TransportAssumption DEF loopVars, kernelVars, history
<1>1. ASSUME NEW n \in 1..MaxSize, ReceivePiece(n) PROVE StreamInv' /\ AnswerInv'
  BY <1>1, PieceInOrder DEF IInv, AnswerInv, WireIsAnswer, ReceivePiece, Receiving
<1>2. CASE ReceiveEnd
  BY <1>2 DEF IInv, TypeOK, StreamInv, AnswerInv, ReceivedInOrder, ShortOnlyAtEnd, WireIsAnswer,
     ReceiveEnd, Receiving
<1>3. CASE ReceiveError
  BY <1>3 DEF IInv, TypeOK, StreamInv, AnswerInv, ReceivedInOrder, ShortOnlyAtEnd, WireIsAnswer,
     ReceiveError, Receiving
<1>4. CASE RecvReturns
  BY <1>4 DEF IInv, TypeOK, StreamInv, AnswerInv, ReceivedInOrder, ShortOnlyAtEnd, WireIsAnswer,
     RecvReturns
<1>5. CASE SendError
  BY <1>5 DEF IInv, TypeOK, StreamInv, AnswerInv, ReceivedInOrder, ShortOnlyAtEnd, WireIsAnswer,
     SendError
<1>6. CASE SendKilled
  BY <1>6 DEF IInv, TypeOK, StreamInv, AnswerInv, ReceivedInOrder, ShortOnlyAtEnd, WireIsAnswer,
     SendKilled
<1>7. CASE SendReturns
  BY <1>7 DEF IInv, TypeOK, StreamInv, AnswerInv, ReceivedInOrder, ShortOnlyAtEnd, WireIsAnswer,
     SendReturns
<1>8. ASSUME NEW n \in 0..MaxSize, StartRecv(n) PROVE StreamInv' /\ AnswerInv'
  BY <1>8 DEF IInv, TypeOK, StreamInv, AnswerInv, ReceivedInOrder, ShortOnlyAtEnd, WireIsAnswer,
     StartRecv
<1>9. ASSUME NEW n \in 0..MaxSize, StartSend(n) PROVE StreamInv' /\ AnswerInv'
  BY <1>9 DEF IInv, TypeOK, StreamInv, AnswerInv, ReceivedInOrder, ShortOnlyAtEnd, WireIsAnswer,
     StartSend
<1>10. ASSUME NEW n \in 0..MaxSize, SendPiece(n) PROVE StreamInv' /\ AnswerInv'
  <2>1. StreamInv'
    BY <1>10 DEF IInv, TypeOK, StreamInv, ReceivedInOrder, ShortOnlyAtEnd, SendPiece
  <2> QED BY <1>10, <2>1, PieceOfAnswer
<1>11. CASE ClientSends
  BY <1>11 DEF IInv, TypeOK, StreamInv, AnswerInv, ReceivedInOrder, ShortOnlyAtEnd, WireIsAnswer,
     ClientSends
<1>12. CASE ClientLeaves
  BY <1>12 DEF IInv, TypeOK, StreamInv, AnswerInv, ReceivedInOrder, ShortOnlyAtEnd, WireIsAnswer,
     ClientLeaves
<1>13. CASE UNCHANGED vars
  BY <1>13 DEF IInv, TypeOK, StreamInv, AnswerInv, ReceivedInOrder, ShortOnlyAtEnd, WireIsAnswer, vars
<1>14. StreamInv' /\ AnswerInv'
  BY <1>1, <1>2, <1>3, <1>4, <1>5, <1>6, <1>7, <1>8, <1>9, <1>10, <1>11, <1>12, <1>13
  DEF Next, RecvStep, SendStep, IInv
<1> QED BY <1>14 DEF IInv

-----------------------------------------------------------------------------
(* The theorems *)

\* The invariant above holds in every reachable state.
THEOREM Invariance == Safety => []IInv
<1>1. Init => IInv
  <2>1. Init => TypeOK
    BY InitTypes
  <2>2. Init => StreamInv /\ AnswerInv
    BY DEF Init, StreamInv, AnswerInv, ReceivedInOrder, ShortOnlyAtEnd, WireIsAnswer
  <2> QED BY <2>1, <2>2 DEF IInv
<1>2. IInv /\ TypeOK' /\ [Next]_vars => IInv'
  BY Preserved
<1> QED BY <1>1, <1>2, TypeCorrect, PTL DEF Safety

\* recv_all puts the bytes of the stream in its callers' buffers in order.
THEOREM BlocksInOrder == Safety => []ReceivedInOrder
<1>1. IInv => ReceivedInOrder
  BY DEF IInv, StreamInv
<1> QED BY <1>1, Invariance, PTL

\* A block that is not complete is the last one of its connection.
THEOREM ShortIsLast == Safety => []ShortOnlyAtEnd
<1>1. IInv => ShortOnlyAtEnd
  BY DEF IInv, StreamInv
<1> QED BY <1>1, Invariance, PTL

\* What send_all sends is what it was given, whatever send(2) returns.
THEOREM AnswersInOrder == Safety => []WireIsAnswer
<1>1. IInv => WireIsAnswer
  BY DEF IInv, AnswerInv
<1> QED BY <1>1, Invariance, PTL

\* The counters of send_all step back once at most.
THEOREM OneStepBack == Safety => []StepsBackOnce
<1>1. IInv => StepsBackOnce
  BY DEF IInv, TypeOK, StreamInv, AnswerInv, StepsBackOnce
<1> QED BY <1>1, Invariance, PTL

\* A step of the loops is a block received, a block sent, the end of the
\* stream, or nothing the callers see.
LEMMA StepOfBlocks ==
  ASSUME IInv, IInv', [Next]_vars
  PROVE  [Blocks!Next]_Blocks!vars
<1> USE DEF Blocks!vars, loopVars, kernelVars, history
<1>1. CASE RecvReturns
  <2>1. CASE size > 0 /\ ~cut
    <3>1. cut' = TRUE
      BY <1>1, <2>1 DEF RecvReturns
    <3> QED BY <1>1, <2>1, <3>1 DEF IInv, TypeOK, StreamInv, RecvReturns, Blocks!Next, Blocks!ReadRest
  <2>2. CASE size = 0 /\ total > 0
    BY <1>1, <2>2 DEF IInv, TypeOK, StreamInv, RecvReturns, Blocks!Next, Blocks!ReadBlock
  <2>3. CASE total = 0 /\ (size = 0 \/ cut)
    BY <1>1, <2>3 DEF IInv, TypeOK, RecvReturns
  <2> QED BY <1>1, <2>1, <2>2, <2>3 DEF IInv, TypeOK, StreamInv, RecvReturns
<1>2. CASE SendReturns
  BY <1>2 DEF IInv, TypeOK, SendReturns, Blocks!Next, Blocks!WriteBlock
<1>3. CASE ~RecvReturns /\ ~SendReturns
  BY <1>3 DEF Next, RecvStep, SendStep, ReceivePiece, ReceiveEnd, ReceiveError, SendError,
     SendKilled, StartRecv, StartSend, SendPiece, ClientSends, ClientLeaves, vars
<1> QED BY <1>1, <1>2, <1>3

\* recv_all and send_all implement the transfer of blocks.
THEOREM ImplementsBlocks == Safety => BlockSpec
<1>1. Init => Blocks!Init
  BY DEF Init, Blocks!Init
<1>2. IInv /\ IInv' /\ [Next]_vars => [Blocks!Next]_Blocks!vars
  BY StepOfBlocks
<1> QED BY <1>1, <1>2, Invariance, PTL DEF Safety, BlockSpec, Blocks!Spec

-----------------------------------------------------------------------------
(* A call that has something to do is not stuck *)

\* The guards of the steps of recv_all, and of those of send_all that do not need
\* a client that reads.
RecvCan ==
  \/ Receiving /\ \E n \in 1..MaxSize : n \in 1..size /\ n <= stream - taken
  \/ Receiving /\ taken = stream /\ peer \in {"closed", "broken", "reset"}
  \/ call = "recv" /\ (size = 0 \/ moved = 0)
SendCan == call = "send" /\ (size = 0 \/ (size > 0 /\ peer \in {"reset", "broken"}))

\* That a step is enabled where its guard holds: tlapm has no rule for ENABLED, so
\* this is the hypothesis of the theorems that need fairness.
GuardsEnable ==
  /\ RecvCan => ENABLED <<RecvStep>>_vars
  /\ SendCan => ENABLED <<SendStep>>_vars

LEMMA CallNeverWaits ==
  ASSUME IInv
  PROVE  /\ call = "recv" /\ (peer # "open" \/ taken < stream \/ size = 0) => RecvCan
         /\ call = "send" /\ (peer \in {"reset", "broken"} \/ size = 0) => SendCan
<1>1. /\ size \in Nat /\ moved \in Nat /\ stream \in Nat /\ taken \in 0..stream
      /\ asked \in 0..MaxSize /\ peer \in Peer /\ MaxSize \in Nat
  BY TransportAssumption DEF IInv, TypeOK
<1>2. ASSUME Receiving, taken < stream PROVE RecvCan
  <2>1. size >= 1 /\ size <= MaxSize
    BY <1>1, <1>2 DEF IInv, TypeOK, StreamInv, Receiving
  <2> QED
    BY <1>1, <1>2, <2>1 DEF RecvCan
<1>3. ASSUME Receiving, taken = stream, peer # "open" PROVE RecvCan
  BY <1>1, <1>3 DEF RecvCan, Peer
<1>4. CASE call = "recv" /\ ~Receiving
  BY <1>1, <1>4 DEF RecvCan, Receiving
<1>5. taken < stream \/ taken = stream
  BY <1>1
<1> QED
  BY <1>1, <1>2, <1>3, <1>4, <1>5 DEF SendCan, Receiving

\* The calls wait for a client that is there, and for nothing else.
THEOREM NobodyStuck == Safety /\ []GuardsEnable => []NeverStuck
<1>1. IInv /\ GuardsEnable => NeverStuck
  BY CallNeverWaits, Zenon DEF GuardsEnable, NeverStuck
<1> QED
  BY <1>1, Invariance, PTL

-----------------------------------------------------------------------------
(* The end of a send *)

\* A send to a client that broke the connection off ends: the reset is reported
\* once, and the next send(2) ends the daemon.
THEOREM SendsEnd == Spec /\ []GuardsEnable => SendEnds
<1> DEFINE Reset == call = "send" /\ peer = "reset"
           Broken == call = "send" /\ peer = "broken"
           Over == call # "send"
<1>1. ASSUME TypeOK, Reset \/ Broken, [Next]_vars
      PROVE  (Reset => Reset' \/ Broken' \/ Over') /\ (Broken => Broken' \/ Over')
  BY <1>1 DEF Next, RecvStep, SendStep, ReceivePiece, ReceiveEnd, ReceiveError, Receiving,
     RecvReturns, SendError, SendKilled, SendReturns, StartRecv, StartSend, SendPiece,
     ClientSends, ClientLeaves, vars, kernelVars
<1>2. ASSUME Reset \/ Broken, <<SendStep>>_vars
      PROVE  (Reset => Broken' \/ Over') /\ (Broken => Over')
  BY <1>2 DEF SendStep, SendError, SendKilled, SendReturns
<1>3. TypeOK /\ Reset /\ [Next]_vars => Reset' \/ Broken' \/ Over'
  BY <1>1
<1>4. TypeOK /\ Broken /\ [Next]_vars => Broken' \/ Over'
  BY <1>1
<1>5. Reset /\ <<SendStep>>_vars => Broken' \/ Over'
  BY <1>2
<1>6. Broken /\ <<SendStep>>_vars => Over'
  BY <1>2
<1>7. NeverStuck /\ (Reset \/ Broken) => ENABLED <<SendStep>>_vars
  BY Zenon DEF NeverStuck
<1>8. call = "send" /\ peer \in {"reset", "broken"} => Reset \/ Broken
  OBVIOUS
<1> QED
  BY <1>3, <1>4, <1>5, <1>6, <1>7, <1>8, TypeCorrect, NobodyStuck, PTL DEF Spec, Safety, SendEnds

-----------------------------------------------------------------------------
(* The end of a receive *)

\* A block that is there, or whose stream has ended: recv_all is at most n system
\* calls from its return.
RecvLeft == IF size = 0 \/ moved = 0 THEN 1 ELSE size + 1
RecvWithin(n) ==
  /\ call = "recv" /\ (peer # "open" \/ stream - taken >= size)
  /\ RecvLeft <= n

\* Every system call of the loop brings its return nearer, and nothing the client
\* does puts it off.
LEMMA RecvAdvances ==
  ASSUME IInv, NEW n \in Nat, RecvWithin(n + 1), [Next]_vars
  PROVE  /\ RecvWithin(n + 1)' \/ call' # "recv"
         /\ RecvStep => RecvWithin(n)' \/ call' # "recv"
<1>1. /\ size \in Nat /\ moved \in Nat /\ stream \in Nat /\ taken \in 0..stream /\ call = "recv"
  BY TransportAssumption DEF IInv, TypeOK, RecvWithin
<1>2. ASSUME UNCHANGED <<call, size, moved, taken>>, peer' = peer \/ peer' # "open",
             stream' \in {stream, stream + 1}
      PROVE  RecvWithin(n + 1)'
  <2>1. RecvLeft' = RecvLeft
    BY <1>2 DEF RecvLeft
  <2>2. stream - taken >= size => stream' - taken' >= size'
    <3>1. taken' = taken /\ size' = size
      BY <1>2
    <3>2. /\ stream' >= stream /\ stream' \in Int /\ stream \in Int /\ taken \in Int
          /\ size \in Int
      BY <1>1, <1>2
    <3>3. \A a, b, c, d \in Int : d >= a /\ a - b >= c => d - b >= c
      OBVIOUS
    <3> QED
      BY <3>1, <3>2, <3>3
  <2> QED
    BY <1>2, <2>1, <2>2 DEF RecvWithin
<1>3. ASSUME NEW k \in 1..MaxSize, ReceivePiece(k) PROVE RecvWithin(n)' /\ RecvWithin(n + 1)'
  BY <1>1, <1>3 DEF ReceivePiece, Receiving, RecvWithin, RecvLeft, TransportAssumption
<1>4. CASE ReceiveEnd
  BY <1>1, <1>4 DEF ReceiveEnd, Receiving, RecvWithin, RecvLeft, kernelVars
<1>5. CASE ReceiveError \/ RecvReturns
  BY <1>5 DEF ReceiveError, RecvReturns
<1>6. CASE RecvStep
  BY <1>3, <1>4, <1>5, <1>6 DEF RecvStep
<1>7. CASE ~RecvStep
  <2>1. ClientSends \/ ClientLeaves \/ UNCHANGED vars
    BY <1>1, <1>7 DEF Next, RecvStep, SendStep, SendError, SendKilled, SendReturns, StartRecv,
       StartSend, SendPiece
  <2> QED
    BY <1>1, <1>2, <1>7, <2>1 DEF ClientSends, ClientLeaves, vars, loopVars, kernelVars
<1> QED
  BY <1>6, <1>7

\* Waiting for the return of recv_all, one can wait for the next of its system
\* calls: n + 1 of them come to n, whatever n is, and none are left in the end.
THEOREM RecvGoesOn ==
  ASSUME NEW n \in Nat
  PROVE  Spec /\ []GuardsEnable => (RecvWithin(n + 1) ~> RecvWithin(n) \/ call # "recv")
<1>1. IInv /\ RecvWithin(n + 1) /\ [Next]_vars => RecvWithin(n + 1)' \/ (call # "recv")'
  BY RecvAdvances
<1>2. IInv /\ RecvWithin(n + 1) /\ <<RecvStep>>_vars => RecvWithin(n)' \/ (call # "recv")'
  BY RecvAdvances DEF Next
<1>3. IInv /\ NeverStuck /\ RecvWithin(n + 1) => ENABLED <<RecvStep>>_vars
  <2>1. IInv /\ RecvWithin(n + 1) =>
          call = "recv" /\ (peer # "open" \/ taken < stream \/ size = 0)
    BY TransportAssumption DEF IInv, TypeOK, RecvWithin
  <2> QED
    BY <2>1, Zenon DEF NeverStuck
<1> QED
  BY <1>1, <1>2, <1>3, Invariance, NobodyStuck, PTL DEF Spec, Safety

\* The bounds between which the system calls are counted.
THEOREM RecvBounded ==
  Safety => [](/\ ~RecvWithin(0)
               /\ call = "recv" /\ (peer # "open" \/ stream - taken >= size) => RecvWithin(MaxSize + 1))
<1>1. IInv => ~RecvWithin(0)
  BY DEF IInv, TypeOK, RecvWithin, RecvLeft
<1>2. IInv => (call = "recv" /\ (peer # "open" \/ stream - taken >= size) => RecvWithin(MaxSize + 1))
  BY TransportAssumption DEF IInv, TypeOK, StreamInv, RecvWithin, RecvLeft
<1> QED
  BY <1>1, <1>2, Invariance, PTL
=============================================================================
