---------------------------- MODULE SessionProofs ----------------------------
(* Theorems about Session, for all values of its constants. *)
EXTENDS Session, TLAPS, SequenceTheorems, FiniteSetTheorems

-----------------------------------------------------------------------------
(* Types *)

USE DEF vars, daemonVars, clientVars, worldVars, traceVars, socketVars

LEMMA RequestFacts ==
  ASSUME NEW r \in Request
  PROVE  r.type \in RequestType /\ r.name \in File /\ r.ns \in SUBSET Ns
BY SessionAssumption

LEMMA FieldsType == \A t \in RequestType : FieldsSent[t] \in 0..3 /\ FieldsSent[t] \in Nat
BY DEF FieldsSent, RequestType

LEMMA BlocksType ==
  ASSUME NEW i \in Nat, NEW t \in RequestType
  PROVE  /\ FieldsSent[t] \in 0..3
         /\ Blocks(i, t) \in Seq(Block)
         /\ Len(Blocks(i, t)) = FieldsSent[t] + 1
<1>1. FieldsSent[t] \in 0..3  BY DEF FieldsSent, RequestType
<1>2. \A p \in 1..(FieldsSent[t] + 1) : [id |-> i, part |-> p - 1, cut |-> FALSE] \in Block
  BY <1>1 DEF Block
<1> QED  BY <1>1, <1>2 DEF Blocks

\* What is left of a sequence.
LEMMA RestType ==
  ASSUME NEW S, NEW s \in Seq(S), NEW n \in Nat
  PROVE  SubSeq(s, n + 2, Len(s)) \in Seq(S)
OBVIOUS

LEMMA RestElements ==
  ASSUME NEW S, NEW s \in Seq(S), NEW n \in Nat, n < Len(s), NEW r, r = SubSeq(s, n + 2, Len(s))
  PROVE  /\ Len(r) = Len(s) - n - 1 /\ DOMAIN r = 1..(Len(s) - n - 1)
         /\ \A i \in DOMAIN r : r[i] = s[i + n + 1]
<1>1. Len(s) \in Nat /\ n + 2 \in Int  OBVIOUS
<1>2. r = [i \in 1..(Len(s) - (n + 2) + 1) |-> s[(n + 2) + i - 1]]
  <2>1. CASE n + 1 = Len(s)  BY <1>1, <2>1
  <2>2. CASE n + 1 # Len(s)  BY <1>1, <2>2
  <2> QED  BY <2>1, <2>2
<1>3. Len(s) - (n + 2) + 1 = Len(s) - n - 1 /\ Len(s) - n - 1 \in Nat  BY <1>1
<1>4. DOMAIN r = 1..(Len(s) - n - 1)  BY <1>2, <1>3
<1>5. \A i \in 1..(Len(s) - n - 1) : (n + 2) + i - 1 = i + n + 1  BY <1>1
<1>6. Len(r) = Len(s) - n - 1
  <2>1. \A i \in (n + 2)..Len(s) : s[i] \in S  BY <1>1
  <2>2. Len(r) = IF n + 2 <= Len(s) THEN Len(s) - (n + 2) + 1 ELSE 0
    BY <1>1, <2>1, SubSeqProperties
  <2> QED  BY <1>1, <2>2
<1> QED  BY <1>2, <1>3, <1>4, <1>5, <1>6

LEMMA ReceiveType ==
  ASSUME in \in [Client -> Seq(Block)], NEW c \in Client, NEW n \in Nat, Receive(c, n)
  PROVE  in' \in [Client -> Seq(Block)]
<1>1. SubSeq(in[c], n + 2, Len(in[c])) \in Seq(Block)  BY RestType
<1> QED  BY <1>1 DEF Receive

LEMMA FieldCountType == ASSUME NEW t PROVE FieldCount(t) \in Nat
BY DEF FieldCount

LEMMA StreamsType ==
  ASSUME in \in [Client -> Seq(Block)], NEW Q, NEW now
  PROVE  StreamsOf(Q, now) \in [Client -> Seq(Block)]
BY DEF StreamsOf

-----------------------------------------------------------------------------
(* The streams of the clients *)

\* The fields that belong to the request of block i on c's stream.
Fields(c, i) == FieldsSent[asked[c][in[c][i].id].type]

\* A stream is a sequence of whole requests of the client, in their order,
\* that begins with a type.  Only its end can be cut.
StreamOK(c) ==
  /\ \A i \in DOMAIN in[c] :
       /\ in[c][i].id \in DOMAIN asked[c]
       /\ in[c][i].part <= Fields(c, i)
       /\ in[c][i].cut => i = Len(in[c]) /\ phase[c] = "shut" /\ in[c][i].part > 0
       /\ ~in[c][i].cut /\ i = Len(in[c]) => in[c][i].part = Fields(c, i)
       /\ i = 1 => in[c][i].part = 0
  /\ \A i, j \in DOMAIN in[c] : j = i + 1 =>
       IF in[c][i].part < Fields(c, i)
         THEN in[c][j].id = in[c][i].id /\ in[c][j].part = in[c][i].part + 1
         ELSE in[c][j].part = 0
  /\ \A i, j \in DOMAIN in[c] : i < j =>
       /\ in[c][i].id <= in[c][j].id
       /\ in[c][j].part = 0 => in[c][i].id < in[c][j].id

StreamInv == TypeOK /\ DescriptorsAccounted /\ \A c \in Client : StreamOK(c)

\* The fields a handler reads are those that are sent for its type.
LEMMA CountIsSent ==
  ASSUME NEW t \in RequestType
  PROVE  FieldCount(t) = FieldsSent[t] /\ FieldCount(t) \in 0..3
BY DEF FieldCount, FieldsSent, RequestType

LEMMA Elements ==
  ASSUME ClientTypeOK, NEW c \in Client
  PROVE  /\ in[c] \in Seq(Block) /\ asked[c] \in Seq(Request) /\ answered[c] \in Seq(Answer)
         /\ \A i \in DOMAIN in[c] : in[c][i] \in Block
         /\ \A i \in DOMAIN asked[c] : asked[c][i] \in Request
BY DEF ClientTypeOK

\* The blocks that a handler finds: those of the request, and no others.
LEMMA OneRequest ==
  ASSUME StreamInv, NEW c \in Client, NEW t \in RequestType, TypeIs(c, t)
  PROVE  /\ First(c) \in Request /\ First(c).type = t
         /\ in[c] # <<>> /\ Head(in[c]) = in[c][1] /\ 1 \in DOMAIN in[c]
         /\ in[c][1].id \in DOMAIN asked[c]
         /\ \A i \in DOMAIN in[c] : i <= FieldCount(t) + 1 =>
              in[c][i].id = in[c][1].id /\ in[c][i].part = i - 1 /\ Fields(c, i) = FieldCount(t)
<1>1. ClientTypeOK /\ StreamOK(c)  BY DEF StreamInv, TypeOK
<1>2. in[c] \in Seq(Block) /\ asked[c] \in Seq(Request)  BY <1>1, Elements
<1>3. in[c] # <<>> /\ Head(in[c]) = in[c][1] /\ 1 \in DOMAIN in[c]
  BY <1>2 DEF TypeIs
<1>4. in[c][1].id \in DOMAIN asked[c]  BY <1>1, <1>3 DEF StreamOK
<1>5. First(c) \in Request /\ First(c) = asked[c][in[c][1].id]
  BY <1>1, <1>3, <1>4, Elements DEF First
<1>6. First(c).type = t  BY DEF TypeIs
<1>7. FieldCount(t) = FieldsSent[t] /\ FieldCount(t) \in 0..3  BY CountIsSent
<1>8. Fields(c, 1) = FieldCount(t) /\ in[c][1].part = 0
  BY <1>1, <1>3, <1>5, <1>6, <1>7 DEF Fields, StreamOK
<1> DEFINE P(i) == i \in DOMAIN in[c] /\ i <= FieldCount(t) + 1 =>
              in[c][i].id = in[c][1].id /\ in[c][i].part = i - 1 /\ Fields(c, i) = FieldCount(t)
<1>9. P(1)  BY <1>8
<1>10. ASSUME NEW i \in {1, 2, 3}, P(i) PROVE P(i + 1)
  <2>1. SUFFICES ASSUME i + 1 \in DOMAIN in[c], i + 1 <= FieldCount(t) + 1
                 PROVE  in[c][i + 1].id = in[c][1].id /\ in[c][i + 1].part = (i + 1) - 1
                        /\ Fields(c, i + 1) = FieldCount(t)
    OBVIOUS
  <2>2. i \in DOMAIN in[c]  BY <1>2, <2>1
  <2>3. in[c][i].id = in[c][1].id /\ in[c][i].part = i - 1 /\ Fields(c, i) = FieldCount(t)
    BY <1>7, <1>10, <2>1, <2>2
  <2>4. in[c][i].part < Fields(c, i)  BY <1>7, <2>1, <2>3
  <2>5. in[c][i + 1].id = in[c][i].id /\ in[c][i + 1].part = in[c][i].part + 1
    BY <1>1, <2>1, <2>2, <2>4 DEF StreamOK
  <2>6. Fields(c, i + 1) = Fields(c, i)  BY <2>5 DEF Fields
  <2> QED  BY <2>3, <2>5, <2>6
<1>11. P(2) /\ P(3) /\ P(4)
  <2>1. P(1 + 1)  BY <1>9, <1>10
  <2>2. P(2)  BY <2>1
  <2>3. P(2 + 1)  BY <2>2, <1>10
  <2>4. P(3)  BY <2>3
  <2>5. P(3 + 1)  BY <2>4, <1>10
  <2> QED  BY <2>2, <2>4, <2>5
<1>12. \A i \in DOMAIN in[c] : i <= FieldCount(t) + 1 => P(i)
  <2>1. SUFFICES ASSUME NEW i \in DOMAIN in[c], i <= FieldCount(t) + 1 PROVE P(i)
    OBVIOUS
  <2>2. i \in {1, 2, 3, 4}  BY <1>2, <1>7, <2>1
  <2> QED  BY <1>9, <1>11, <2>2
<1> QED  BY <1>3, <1>4, <1>5, <1>6, <1>12

\* A handler leaves the stream at the next type, with nothing of its request.
LEMMA HandlerReads ==
  ASSUME StreamInv, NEW c \in Client, NEW t \in RequestType, Serve(c, t), Received(c, t),
         UNCHANGED <<asked, phase>>
  PROVE  /\ in' \in [Client -> Seq(Block)]
         /\ \A d \in Client : StreamOK(d)'
         /\ \A i \in DOMAIN in'[c] : in[c][1].id < in'[c][i].id
         /\ \A i \in DOMAIN in[c] : in[c][i].id # in[c][1].id =>
              \E j \in DOMAIN in'[c] : in'[c][j].id = in[c][i].id
         /\ \A d \in Client \ {c} : in'[d] = in[d]
<1> DEFINE n == FieldCount(t)
<1>0. ClientTypeOK /\ StreamOK(c) /\ n \in 0..3
  BY CountIsSent DEF StreamInv, TypeOK
<1>1. in[c] \in Seq(Block) /\ \A i \in DOMAIN in[c] : in[c][i] \in Block  BY <1>0, Elements
<1>2. in' \in [Client -> Seq(Block)] /\ \A d \in Client \ {c} : in'[d] = in[d]
  BY <1>0, ReceiveType DEF Received, Receive, ClientTypeOK
<1>3. \A d \in Client \ {c} : StreamOK(d)'
  BY <1>2 DEF StreamInv, StreamOK, Fields
<1>4. TypeIs(c, t) /\ (Whole(c, n) \/ CutShort(c, n))  BY DEF Serve
<1>5. /\ 1 \in DOMAIN in[c]
      /\ \A i \in DOMAIN in[c] : i <= n + 1 =>
            in[c][i].id = in[c][1].id /\ in[c][i].part = i - 1 /\ Fields(c, i) = n
  BY <1>4, OneRequest
<1>6. CASE CutShort(c, n)
  <2>1. in'[c] = <<>>  BY <1>0, <1>6 DEF Received, Receive, ClientTypeOK
  <2>2. StreamOK(c)'  BY <2>1 DEF StreamOK
  <2>3. PICK k \in DOMAIN in[c] : k <= n + 1 /\ in[c][k].cut  BY <1>6 DEF CutShort
  <2>4. k = Len(in[c])  BY <1>0, <2>3 DEF StreamOK
  <2>5. \A i \in DOMAIN in[c] : in[c][i].id = in[c][1].id  BY <1>0, <1>1, <1>5, <2>3, <2>4
  <2> QED  BY <1>2, <1>3, <2>1, <2>2, <2>5
<1>7. CASE ~CutShort(c, n)
  <2>1. Whole(c, n) /\ in'[c] = SubSeq(in[c], n + 2, Len(in[c]))
    BY <1>0, <1>4, <1>7 DEF Received, Receive, ClientTypeOK
  <2>2. Len(in[c]) > n  BY <2>1 DEF Whole
  <2>3. /\ DOMAIN in'[c] = 1..(Len(in[c]) - n - 1) /\ Len(in'[c]) = Len(in[c]) - n - 1
        /\ \A i \in DOMAIN in'[c] : in'[c][i] = in[c][i + n + 1]
    <3>1. n \in Nat /\ n < Len(in[c])  BY <1>0, <1>1, <2>2
    <3> HIDE DEF n
    <3> QED  BY <1>1, <2>1, <3>1, RestElements
  <2>4. \A i \in DOMAIN in'[c] : i + n + 1 \in DOMAIN in[c] /\ i \in Nat
    BY <1>0, <1>1, <2>3
  <2>5. \A i \in DOMAIN in'[c] : Fields(c, i)' = Fields(c, i + n + 1)
    BY <2>3 DEF Fields
  <2>6. n + 1 \in DOMAIN in[c] /\ in[c][n + 1].part = n /\ Fields(c, n + 1) = n
    <3>1. n \in Nat /\ Len(in[c]) \in Nat /\ n + 1 \in 1..Len(in[c])  BY <1>0, <1>1, <2>2
    <3>2. n + 1 \in DOMAIN in[c] /\ (n + 1) - 1 = n /\ n + 1 <= n + 1  BY <1>1, <3>1
    <3> HIDE DEF n
    <3> QED  BY <1>5, <3>2
  <2>7. n + 2 \in DOMAIN in[c] => in[c][n + 2].part = 0
    BY <1>0, <2>6 DEF StreamOK
  <2>8. \A i \in DOMAIN in'[c] : i = 1 => in'[c][i].part = 0
    <3>1. SUFFICES ASSUME 1 \in DOMAIN in'[c] PROVE in'[c][1].part = 0  OBVIOUS
    <3>2. 1 + n + 1 = n + 2  BY <1>0
    <3> QED  BY <2>3, <2>4, <2>7, <3>1, <3>2
  <2>9. \A i, j \in DOMAIN in'[c] :
          /\ i + n + 1 \in DOMAIN in[c] /\ j + n + 1 \in DOMAIN in[c]
          /\ j = i + 1 => j + n + 1 = (i + n + 1) + 1
          /\ i < j => i + n + 1 < j + n + 1
    BY <1>0, <2>4
  <2>10. \A i \in DOMAIN in'[c] :
       /\ in'[c][i].id \in DOMAIN asked[c]
       /\ in'[c][i].part <= Fields(c, i)'
       /\ in'[c][i].cut => i = Len(in'[c]) /\ phase[c] = "shut" /\ in'[c][i].part > 0
       /\ ~in'[c][i].cut /\ i = Len(in'[c]) => in'[c][i].part = Fields(c, i)'
    <3>1. TAKE i \in DOMAIN in'[c]
    <3> DEFINE k == i + n + 1
    <3>2. k \in DOMAIN in[c] /\ in'[c][i] = in[c][k] /\ Fields(c, i)' = Fields(c, k)
      BY <2>3, <2>4, <2>5
    <3>3. i = Len(in'[c]) <=> k = Len(in[c])
      BY <1>0, <1>1, <2>2, <2>3, <2>4
    <3>5. in[c][k].cut => k = Len(in[c]) /\ phase[c] = "shut" /\ in[c][k].part > 0
      BY <1>0, <3>2 DEF StreamOK
    <3>6. ~in[c][k].cut /\ k = Len(in[c]) => in[c][k].part = Fields(c, k)
      BY <1>0, <3>2 DEF StreamOK
    <3>7. in[c][k].id \in DOMAIN asked[c] /\ in[c][k].part <= Fields(c, k)
      BY <1>0, <3>2 DEF StreamOK
    <3> QED  BY <3>2, <3>3, <3>5, <3>6, <3>7
  <2>11. \A i, j \in DOMAIN in'[c] :
       /\ j = i + 1 =>
            IF in'[c][i].part < Fields(c, i)'
              THEN in'[c][j].id = in'[c][i].id /\ in'[c][j].part = in'[c][i].part + 1
              ELSE in'[c][j].part = 0
       /\ i < j =>
            /\ in'[c][i].id <= in'[c][j].id
            /\ in'[c][j].part = 0 => in'[c][i].id < in'[c][j].id
    BY <1>0, <2>3, <2>5, <2>9 DEF StreamOK
  <2>12. StreamOK(c)'  BY <2>8, <2>10, <2>11 DEF StreamOK
  <2>13. \A i \in DOMAIN in'[c] : in[c][1].id < in'[c][i].id
    <3>1. SUFFICES ASSUME NEW i \in DOMAIN in'[c] PROVE in[c][1].id < in'[c][i].id
      OBVIOUS
    <3>2. n + 2 \in DOMAIN in[c] /\ 1 < n + 2  BY <1>0, <1>1, <2>3, <2>4
    <3>3. in[c][1].id < in[c][n + 2].id  BY <1>0, <1>5, <2>7, <3>2 DEF StreamOK
    <3>4. i + n + 1 = n + 2 \/ n + 2 < i + n + 1  BY <1>0, <1>1, <2>3, <2>4
    <3>5. in[c][n + 2].id <= in[c][i + n + 1].id
      BY <1>0, <1>1, <2>4, <3>2, <3>4 DEF StreamOK, Block
    <3>6. in[c][1].id \in Nat /\ in[c][n + 2].id \in Nat /\ in[c][i + n + 1].id \in Nat
      BY <1>1, <1>5, <2>4, <3>2 DEF Block
    <3> QED  BY SMTT(20), <2>3, <3>3, <3>5, <3>6
  <2>14. ASSUME NEW i \in DOMAIN in[c], in[c][i].id # in[c][1].id
         PROVE  \E j \in DOMAIN in'[c] : in'[c][j].id = in[c][i].id
    <3>1. i > n + 1  BY <1>0, <1>1, <1>5, <2>14
    <3>2. i - n - 1 \in DOMAIN in'[c] /\ (i - n - 1) + n + 1 = i  BY <1>0, <1>1, <2>3, <3>1
    <3>3. in'[c][i - n - 1] = in[c][i]  BY <2>3, <3>2
    <3> QED  BY <3>2, <3>3
  <2> QED  BY <1>2, <1>3, <2>12, <2>13, <2>14
<1> QED  BY <1>6, <1>7

\* A client that sends puts its next request behind those that are there.
LEMMA SendsKeeps ==
  ASSUME StreamInv, NEW c \in Client, NEW r \in Request, NEW B \in Seq(Block),
         Len(B) \in 1..(FieldsSent[r.type] + 1),
         \A p \in DOMAIN B :
           /\ B[p].id = Len(asked[c]) + 1 /\ B[p].part = p - 1
           /\ B[p].cut => p = Len(B) /\ p > 1 /\ phase'[c] = "shut"
           /\ ~B[p].cut /\ p = Len(B) => p = FieldsSent[r.type] + 1,
         Sends(c, r, B), \A d \in Client \ {c} : phase'[d] = phase[d]
  PROVE  /\ in' \in [Client -> Seq(Block)] /\ asked' \in [Client -> Seq(Request)]
         /\ \A d \in Client : StreamOK(d)'
         /\ asked'[c] = Append(asked[c], r) /\ \A d \in Client \ {c} : asked'[d] = asked[d]
         /\ \A i \in DOMAIN in[c] : i \in DOMAIN in'[c] /\ in'[c][i] = in[c][i]
         /\ \E i \in DOMAIN in'[c] : in'[c][i].id = Len(asked[c]) + 1
         /\ \A i \in DOMAIN in'[c] :
              i \notin DOMAIN in[c] => in'[c][i].id = Len(asked[c]) + 1
         /\ \A d \in Client \ {c} : in'[d] = in[d]
<1> DEFINE L == Len(in[c])
<1> DEFINE F == FieldsSent[r.type]
<1> DEFINE A == Len(asked[c])
<1>0. ClientTypeOK /\ StreamOK(c) /\ phase[c] = "open"
  BY DEF StreamInv, TypeOK, Sends, Connected
<1>1. /\ in[c] \in Seq(Block) /\ asked[c] \in Seq(Request) /\ L \in Nat /\ A \in Nat
      /\ \A i \in DOMAIN in[c] : in[c][i] \in Block
  BY <1>0, Elements
<1>2. F \in 0..3 /\ r.type \in RequestType  BY RequestFacts, BlocksType
<1>3. in'[c] = in[c] \o B /\ \A d \in Client \ {c} : in'[d] = in[d]
  BY <1>0 DEF Sends, ClientTypeOK
<1>4. asked'[c] = Append(asked[c], r) /\ \A d \in Client \ {c} : asked'[d] = asked[d]
  BY <1>0 DEF Sends, ClientTypeOK
<1>5. in[c] \o B \in Seq(Block) /\ Append(asked[c], r) \in Seq(Request)
  BY <1>1, ConcatProperties, AppendProperties
<1>6. in' \in [Client -> Seq(Block)] /\ asked' \in [Client -> Seq(Request)]
  BY <1>0, <1>5 DEF Sends, ClientTypeOK
<1>7. /\ DOMAIN in'[c] = 1..(L + Len(B)) /\ Len(in'[c]) = L + Len(B) /\ Len(B) \in 1..(F + 1)
      /\ \A i \in DOMAIN in'[c] : in'[c][i] = IF i <= L THEN in[c][i] ELSE B[i - L]
  <2>1. Len(in'[c]) = L + Len(B)  BY <1>1, <1>3, ConcatProperties
  <2>2. DOMAIN in'[c] = 1..(L + Len(B))  BY <1>3, <1>5, <2>1, LenProperties
  <2>3. \A i \in 1..(L + Len(B)) : in'[c][i] = IF i <= L THEN in[c][i] ELSE B[i - L]
    BY <1>1, <1>3, ConcatProperties
  <2> QED  BY <2>1, <2>2, <2>3
<1>8. /\ DOMAIN asked'[c] = 1..(A + 1) /\ asked'[c][A + 1] = r
      /\ \A i \in DOMAIN asked[c] : i \in DOMAIN asked'[c] /\ asked'[c][i] = asked[c][i] /\ i <= A
  BY <1>1, <1>4
<1>9. ASSUME NEW i \in DOMAIN in'[c], i <= L
      PROVE  /\ i \in DOMAIN in[c] /\ in'[c][i] = in[c][i] /\ ~in[c][i].cut
             /\ in[c][i].id \in DOMAIN asked[c] /\ in[c][i].id <= A
             /\ Fields(c, i)' = Fields(c, i)
  <2>1. i \in DOMAIN in[c] /\ in'[c][i] = in[c][i]  BY <1>1, <1>7, <1>9
  <2>2. ~in[c][i].cut /\ in[c][i].id \in DOMAIN asked[c]  BY <1>0, <2>1 DEF StreamOK
  <2>3. Fields(c, i)' = Fields(c, i)  BY <1>8, <2>1, <2>2 DEF Fields
  <2> QED  BY <1>8, <2>1, <2>2, <2>3
<1>10. ASSUME NEW i \in DOMAIN in'[c], i > L
       PROVE  /\ i - L \in DOMAIN B /\ in'[c][i] = B[i - L]
              /\ in'[c][i].id = A + 1 /\ in'[c][i].part = i - L - 1
              /\ Fields(c, i)' = F
              /\ i - L \in 1..Len(B) /\ (i - L = Len(B) <=> i = Len(in'[c]))
  <2>1. i - L \in 1..Len(B) /\ (i - L = Len(B) <=> i = Len(in'[c])) /\ ~(i <= L)
    BY <1>1, <1>7, <1>10
  <2>2. i - L \in DOMAIN B /\ in'[c][i] = B[i - L]  BY <1>7, <2>1
  <2>3. in'[c][i].id = A + 1 /\ in'[c][i].part = i - L - 1  BY <2>2
  <2>4. Fields(c, i)' = F  BY <1>8, <2>3 DEF Fields
  <2> QED  BY <2>1, <2>2, <2>3, <2>4
<1>11. \A i \in DOMAIN in'[c] : i \in Nat /\ (i <= L \/ i > L)  BY <1>1, <1>7
<1>12. \A i \in DOMAIN in'[c] :
       /\ in'[c][i].id \in DOMAIN asked'[c]
       /\ in'[c][i].part <= Fields(c, i)'
       /\ in'[c][i].cut => i = Len(in'[c]) /\ phase'[c] = "shut" /\ in'[c][i].part > 0
       /\ ~in'[c][i].cut /\ i = Len(in'[c]) => in'[c][i].part = Fields(c, i)'
       /\ i = 1 => in'[c][i].part = 0
  <2>1. TAKE i \in DOMAIN in'[c]
  <2>2. CASE i <= L
    <3>1. i # Len(in'[c])  BY <1>1, <1>7, <2>2
    <3> QED  BY <1>0, <1>8, <1>9, <2>2, <3>1 DEF StreamOK
  <2>3. CASE i > L
    <3>1. A + 1 \in DOMAIN asked'[c]  BY <1>1, <1>8
    <3>2. i - L - 1 <= F /\ (i - L = F + 1 => i - L - 1 = F) /\ (i = 1 => i - L - 1 = 0)
          /\ (i - L > 1 => i - L - 1 > 0)
      <4>1. i - L \in 1..Len(B) /\ Len(B) \in 1..(F + 1) /\ F \in Nat /\ L \in Nat /\ i \in Nat
        <5>1. i - L \in 1..Len(B)  BY <1>10, <2>3
        <5>2. Len(B) \in 1..(F + 1) /\ F \in Nat  BY <1>2, <1>7
        <5> QED  BY <1>1, <1>11, <5>1, <5>2
      <4> HIDE DEF L, F
      <4> QED  BY <4>1
    <3> QED  BY <1>10, <2>3, <3>1, <3>2
  <2> QED  BY <1>11, <2>2, <2>3
<1>13. \A i, j \in DOMAIN in'[c] : j = i + 1 =>
       IF in'[c][i].part < Fields(c, i)'
         THEN in'[c][j].id = in'[c][i].id /\ in'[c][j].part = in'[c][i].part + 1
         ELSE in'[c][j].part = 0
  <2>1. TAKE i, j \in DOMAIN in'[c]
  <2>2. HAVE j = i + 1
  <2>3. CASE j <= L
    <3>1. i <= L  BY <1>1, <1>7, <2>2, <2>3
    <3> QED  BY <1>0, <1>9, <2>2, <2>3, <3>1 DEF StreamOK
  <2>4. CASE j > L /\ i <= L
    <3>1. i = L /\ j - L - 1 = 0  BY <1>1, <1>7, <2>2, <2>4
    <3>2. in'[c][j].part = 0  BY <1>10, <2>4, <3>1
    <3>3. in'[c][i].part = Fields(c, i)'  BY <1>0, <1>9, <2>4, <3>1 DEF StreamOK
    <3>4. Fields(c, i)' \in Nat
      <4>1. asked'[c][in'[c][i].id] \in Request  BY <1>1, <1>8, <1>9, <2>4
      <4>2. asked'[c][in'[c][i].id].type \in RequestType  BY <4>1, RequestFacts
      <4>3. FieldsSent[asked'[c][in'[c][i].id].type] \in Nat  BY <4>2, FieldsType
      <4> QED  BY <4>3 DEF Fields
    <3> QED  BY <3>2, <3>3, <3>4
  <2>5. CASE j > L /\ i > L
    <3>1. j - L - 1 = (i - L - 1) + 1 /\ i - L - 1 < F
      <4>1. j - L \in 1..Len(B) /\ Len(B) \in 1..(F + 1) /\ F \in Nat /\ L \in Nat /\ i \in Nat
        <5>1. j - L \in 1..Len(B)  BY <1>10, <2>5
        <5>2. Len(B) \in 1..(F + 1) /\ F \in Nat  BY <1>2, <1>7
        <5> QED  BY <1>1, <1>11, <5>1, <5>2
      <4> HIDE DEF L, F
      <4> QED  BY <2>2, <4>1
    <3> QED  BY <1>10, <2>5, <3>1
  <2> QED  BY <1>11, <2>3, <2>4, <2>5
<1>14. \A i, j \in DOMAIN in'[c] : i < j =>
       /\ in'[c][i].id <= in'[c][j].id
       /\ in'[c][j].part = 0 => in'[c][i].id < in'[c][j].id
  <2>1. TAKE i, j \in DOMAIN in'[c]
  <2>2. HAVE i < j
  <2>3. CASE j <= L
    <3>1. i <= L  BY <1>1, <1>7, <2>2, <2>3
    <3> QED  BY <1>0, <1>9, <2>2, <2>3, <3>1 DEF StreamOK
  <2>4. CASE j > L /\ i <= L
    <3>1. in'[c][i].id \in Nat /\ in'[c][i].id <= A /\ in'[c][j].id = A + 1
      BY <1>1, <1>9, <1>10, <2>4 DEF Block
    <3> QED  BY <1>1, <3>1
  <2>5. CASE j > L /\ i > L
    <3>1. j - L - 1 # 0  BY <1>1, <1>7, <2>2, <2>5
    <3> QED  BY <1>1, <1>10, <2>5, <3>1
  <2> QED  BY <1>11, <2>3, <2>4, <2>5
<1>15. StreamOK(c)'  BY <1>12, <1>13, <1>14 DEF StreamOK
<1>16. \A d \in Client \ {c} : StreamOK(d)'
  BY <1>3, <1>4 DEF StreamInv, StreamOK, Fields
<1>17. \A i \in DOMAIN in[c] : i \in DOMAIN in'[c] /\ in'[c][i] = in[c][i]
  <2>1. \A i \in DOMAIN in[c] : i \in 1..(L + Len(B)) /\ i <= L  BY <1>1, <1>7
  <2> QED  BY <1>7, <2>1
<1>18. \E i \in DOMAIN in'[c] : in'[c][i].id = A + 1
  <2>1. L + 1 \in DOMAIN in'[c] /\ L + 1 > L  BY <1>1, <1>7
  <2> QED  BY <1>10, <2>1
<1>19. \A i \in DOMAIN in'[c] : i \notin DOMAIN in[c] => in'[c][i].id = A + 1
  BY <1>9, <1>10, <1>11
<1> QED  BY <1>3, <1>4, <1>6, <1>15, <1>16, <1>17, <1>18, <1>19

\* The streams of those that are disconnected are gone.
LEMMA StreamsKeep ==
  ASSUME StreamInv, NEW Q, NEW now, in' = StreamsOf(Q, now), UNCHANGED <<phase, asked>>
  PROVE  /\ in' \in [Client -> Seq(Block)] /\ \A c \in Client : StreamOK(c)'
         /\ \A c \in Client : in'[c] = in[c] \/ in'[c] = <<>>
<1>1. in' \in [Client -> Seq(Block)]  BY StreamsType DEF StreamInv, TypeOK, ClientTypeOK
<1>2. \A c \in Client : in'[c] = in[c] \/ in'[c] = <<>>  BY DEF StreamsOf
<1>3. ASSUME NEW c \in Client PROVE StreamOK(c)'
  <2>1. CASE in'[c] = in[c]  BY <2>1 DEF StreamInv, StreamOK, Fields
  <2>2. CASE in'[c] = <<>>  BY <2>2 DEF StreamOK
  <2> QED  BY <1>2, <2>1, <2>2
<1> QED  BY <1>1, <1>2, <1>3

\* Nobody receives or sends.
LEMMA StreamsSame ==
  ASSUME StreamInv, UNCHANGED <<in, asked>>,
         \A c \in Client : phase'[c] = phase[c] \/ phase[c] \in {"new", "open"}
  PROVE  \A c \in Client : StreamOK(c)'
BY DEF StreamInv, StreamOK, Fields

LEMMA WholeBlocks ==
  ASSUME NEW k \in Nat, NEW t \in RequestType, NEW B, B = Blocks(k, t)
  PROVE  /\ B \in Seq(Block) /\ Len(B) = FieldsSent[t] + 1
         /\ \A p \in DOMAIN B : B[p] = [id |-> k, part |-> p - 1, cut |-> FALSE]
<1>1. FieldsSent[t] + 1 \in Nat  BY FieldsType
<1> QED  BY <1>1, BlocksType DEF Blocks

LEMMA CutBlocks ==
  ASSUME NEW k \in Nat, NEW n \in 2..4
  PROVE  /\ FirstBlocks(k, n) \in Seq(Block) /\ Len(FirstBlocks(k, n)) = n
         /\ \A p \in DOMAIN FirstBlocks(k, n) :
              FirstBlocks(k, n)[p] = [id |-> k, part |-> p - 1, cut |-> (p = n)]
<1>1. \A p \in 1..n : [id |-> k, part |-> p - 1, cut |-> (p = n)] \in Block  BY DEF Block
<1> QED  BY <1>1 DEF FirstBlocks

LEMMA SendStep ==
  ASSUME StreamInv, NEW c \in Client, NEW r \in Request, Send(c, r)
  PROVE  /\ in' \in [Client -> Seq(Block)] /\ asked' \in [Client -> Seq(Request)]
         /\ \A d \in Client : StreamOK(d)'
         /\ asked'[c] = Append(asked[c], r) /\ \A d \in Client \ {c} : asked'[d] = asked[d]
         /\ \A i \in DOMAIN in[c] : i \in DOMAIN in'[c] /\ in'[c][i] = in[c][i]
         /\ \E i \in DOMAIN in'[c] : in'[c][i].id = Len(asked[c]) + 1
         /\ \A i \in DOMAIN in'[c] : i \notin DOMAIN in[c] => in'[c][i].id = Len(asked[c]) + 1
         /\ \A d \in Client \ {c} : in'[d] = in[d]
<1> DEFINE B == Blocks(Len(asked[c]) + 1, r.type)
<1>1. r.type \in RequestType  BY RequestFacts
<1>2. Len(asked[c]) + 1 \in Nat  BY Elements DEF StreamInv, TypeOK
<1>3. /\ B \in Seq(Block) /\ Len(B) = FieldsSent[r.type] + 1
      /\ \A p \in DOMAIN B : B[p] = [id |-> Len(asked[c]) + 1, part |-> p - 1, cut |-> FALSE]
  BY <1>1, <1>2, WholeBlocks
<1>4. Sends(c, r, B) /\ phase' = phase  BY DEF Send
<1>5. Len(B) \in 1..(FieldsSent[r.type] + 1)  BY <1>1, <1>3, FieldsType
<1> HIDE DEF B
<1> QED  BY <1>3, <1>4, <1>5, SendsKeeps

LEMMA SendCutStep ==
  ASSUME StreamInv, NEW c \in Client, NEW r \in Request, NEW n, SendCut(c, r, n)
  PROVE  /\ in' \in [Client -> Seq(Block)] /\ asked' \in [Client -> Seq(Request)]
         /\ \A d \in Client : StreamOK(d)'
         /\ asked'[c] = Append(asked[c], r) /\ \A d \in Client \ {c} : asked'[d] = asked[d]
         /\ \A i \in DOMAIN in[c] : i \in DOMAIN in'[c] /\ in'[c][i] = in[c][i]
         /\ \E i \in DOMAIN in'[c] : in'[c][i].id = Len(asked[c]) + 1
         /\ \A i \in DOMAIN in'[c] : i \notin DOMAIN in[c] => in'[c][i].id = Len(asked[c]) + 1
         /\ \A d \in Client \ {c} : in'[d] = in[d]
<1> DEFINE B == FirstBlocks(Len(asked[c]) + 1, n)
<1>1. r.type \in RequestType  BY RequestFacts
<1>2. Len(asked[c]) + 1 \in Nat  BY Elements DEF StreamInv, TypeOK
<1>3. n \in 2..(FieldsSent[r.type] + 1) /\ Sends(c, r, B)
      /\ phase' = [phase EXCEPT ![c] = "shut"]
  BY DEF SendCut
<1>4. /\ B \in Seq(Block) /\ Len(B) = n
      /\ \A p \in DOMAIN B : B[p] = [id |-> Len(asked[c]) + 1, part |-> p - 1, cut |-> (p = n)]
  <2>1. n \in 2..4  BY <1>1, <1>3, FieldsType
  <2> QED  BY <1>2, <2>1, CutBlocks
<1>5. phase'[c] = "shut" /\ \A d \in Client \ {c} : phase'[d] = phase[d]
  BY <1>3 DEF StreamInv, TypeOK, ClientTypeOK
<1>6. Len(B) \in 1..(FieldsSent[r.type] + 1) /\ n > 1 /\ n \in Nat  BY <1>1, <1>3, <1>4, FieldsType
<1> HIDE DEF B
<1>7. \A p \in DOMAIN B :
        /\ B[p].id = Len(asked[c]) + 1 /\ B[p].part = p - 1
        /\ B[p].cut => p = Len(B) /\ p > 1 /\ phase'[c] = "shut"
        /\ ~B[p].cut /\ p = Len(B) => p = FieldsSent[r.type] + 1
  <2>1. TAKE p \in DOMAIN B
  <2>2. B[p].id = Len(asked[c]) + 1 /\ B[p].part = p - 1  BY <1>4
  <2>3. B[p].cut = (p = n)  BY <1>4
  <2>4. (p = n) => p = Len(B) /\ p > 1 /\ phase'[c] = "shut"  BY <1>4, <1>5, <1>6
  <2>5. p = Len(B) => p = n  BY <1>4
  <2> QED  BY <2>2, <2>3, <2>4, <2>5, Zenon
<1> QED  BY <1>3, <1>4, <1>5, <1>6, <1>7, SendsKeeps

-----------------------------------------------------------------------------
(* The trace *)

TraceStep ==
  \/ TraceBegins \/ TraceEnds \/ LogMessage \/ Truncate \/ TraceSent \/ TraceSwallowed
  \/ UNCHANGED traceVars

\* Whatever the session does, the trace takes one of its own steps.
LEMMA SessionTraces == [Next]_vars => TraceStep
<1>1. SUFFICES ASSUME [Next]_vars PROVE TraceStep  OBVIOUS
<1>2. End => TraceStep  BY DEF End, Forget, TraceStep
<1>3. CASE \E c \in Client : Handler(c)
  <2>1. PICK c \in Client : Handler(c)  BY <1>3
  <2>2. SendTrace(c) => TraceStep  BY DEF SendTrace, TraceStep
  <2>3. SendLogs(c) \/ GetConfigs(c) \/ Unrecognized(c) \/ ReceiveRun(c) => TraceStep
    BY DEF SendLogs, GetConfigs, Unrecognized, ReceiveRun, TraceStep
  <2>4. HandlerFails(c) \/ ConnectionReset(c) => TraceStep
    BY <1>2 DEF HandlerFails, ConnectionReset
  <2>5. Reconnect(c) => TraceStep  BY DEF Reconnect, TraceStep
  <2> QED  BY <2>1, <2>2, <2>3, <2>4, <2>5 DEF Handler
<1>4. CASE RunStep
  BY <1>2, <1>4 DEF RunStep, OpenLog, LookUp, Clone, CloneThenEnd, Forget, RunFails, TraceStep
<1>5. CASE Accept \/ AcceptFails \/ Start \/ StartFails \/ Kill
  BY <1>2, <1>5 DEF Accept, AcceptFails, Start, StartFails, Kill, TraceStep
<1>6. CASE \E c \in Client : ClientStep(c)
  <2>1. PICK c \in Client : ClientStep(c)  BY <1>6
  <2>2. CASE Connect(c) \/ Close(c)  BY <2>2 DEF Connect, Close, TraceStep
  <2>3. CASE \E r \in Asks[c] : Send(c, r)  BY <2>3 DEF Send, Sends, TraceStep
  <2>4. CASE \E r \in Asks[c] : \E n \in 2..4 : SendCut(c, r, n)
    BY <2>4 DEF SendCut, Sends, TraceStep
  <2> QED  BY <2>1, <2>2, <2>3, <2>4 DEF ClientStep
<1>7. CASE \E k \in Living : Write(k) \/ Exit(k)
  BY <1>7 DEF Write, Exit, TraceStep
<1>8. CASE UNCHANGED vars  BY <1>8 DEF TraceStep
<1> QED  BY <1>1, <1>3, <1>4, <1>5, <1>6, <1>7, <1>8 DEF Next, DaemonStep

LEMMA UnreadType ==
  ASSUME TraceTypeOK
  PROVE  Unread \in SUBSET (1..wrote)
BY DEF TraceTypeOK, Unread

LEMMA TraceTyped ==
  ASSUME TraceTypeOK, TraceStep
  PROVE  TraceTypeOK'
<1> USE DEF TraceTypeOK
<1>1. CASE TraceBegins \/ TraceEnds
  <2>1. /\ wrote' \in Nat /\ length' \in 0..wrote' /\ position' \in 0..wrote'
        /\ erased' = {} /\ swallowed' = {} /\ traces' = <<>>
    BY <1>1 DEF TraceBegins, TraceEnds
  <2>2. <<>> \in Seq(SUBSET (1..wrote'))  OBVIOUS
  <2> QED  BY <2>1, <2>2
<1>2. CASE LogMessage
  <2>1. 1..wrote \subseteq 1..(wrote + 1)  OBVIOUS
  <2>2. traces \in Seq(SUBSET (1..(wrote + 1)))  BY <2>1
  <2> QED  BY <1>2, <2>1, <2>2 DEF LogMessage
<1>3. CASE Truncate  BY <1>3 DEF Truncate
<1>4. CASE TraceSent
  <2>1. Append(traces, Unread) \in Seq(SUBSET (1..wrote))  BY UnreadType, AppendProperties
  <2>2. position' \in 0..wrote  BY <1>4 DEF TraceSent, ReadOn
  <2> QED  BY <1>4, <2>1, <2>2 DEF TraceSent
<1>5. CASE TraceSwallowed
  <2>1. position' \in 0..wrote  BY <1>5 DEF TraceSwallowed, ReadOn
  <2> QED  BY <1>5, <2>1, UnreadType DEF TraceSwallowed
<1>6. CASE UNCHANGED traceVars  BY <1>6
<1> QED  BY <1>1, <1>2, <1>3, <1>4, <1>5, <1>6 DEF TraceStep

\* What was sent, swallowed or erased is all the reader has passed, and nothing
\* the reader has yet to pass was sent.
TraceInv ==
  /\ TraceExact
  /\ \A i \in DOMAIN traces : traces[i] \subseteq 1..position

LEMMA TraceKept ==
  ASSUME TraceTypeOK, TraceInv, TraceStep
  PROVE  TraceInv'
<1> USE DEF TraceTypeOK, TraceInv, TraceExact
<1>1. CASE TraceBegins \/ TraceEnds  BY <1>1 DEF TraceBegins, TraceEnds
<1>2. CASE LogMessage \/ UNCHANGED traceVars  BY <1>2 DEF LogMessage
<1>3. CASE Truncate
  <2>1. erased \subseteq erased'  BY <1>3 DEF Truncate
  <2> QED  BY <1>3, <2>1 DEF Truncate
<1>4. CASE TraceSent
  <2> DEFINE S == Unread
  <2>1. S \in SUBSET (1..wrote) /\ traces' = Append(traces, S)
    BY <1>4, UnreadType DEF TraceSent
  <2>2. /\ Len(traces) \in Nat /\ DOMAIN traces = 1..Len(traces)
        /\ DOMAIN traces' = 1..(Len(traces) + 1) /\ traces'[Len(traces) + 1] = S
        /\ \A i \in DOMAIN traces : traces'[i] = traces[i]
    BY <2>1
  <2>3. position <= position' /\ position \in Nat /\ position' \in Nat /\ length \in Nat
    BY <1>4 DEF TraceSent, ReadOn
  <2>4. \A m \in S : m > position /\ m <= position' /\ m \in Nat
    BY <1>4 DEF TraceSent, ReadOn, Unread
  <2>5. \A m \in 1..position' : m \in 1..position \/ m \in S \/ m \in erased
    BY <1>4 DEF TraceSent, ReadOn, Unread
  <2>6. UNCHANGED <<erased, swallowed>>  BY <1>4 DEF TraceSent
  <2> HIDE DEF S
  <2>7. ASSUME NEW i \in DOMAIN traces', NEW j \in DOMAIN traces', i < j,
               NEW m \in traces'[i], NEW k \in traces'[j]
        PROVE  m < k
    <3>1. i \in DOMAIN traces /\ m \in traces[i] /\ m \in 1..position  BY <2>2, <2>7
    <3>2. CASE j \in DOMAIN traces  BY <2>2, <2>7, <3>1, <3>2
    <3>3. CASE j = Len(traces) + 1  BY <2>2, <2>3, <2>4, <2>7, <3>1, <3>3
    <3> QED  BY <2>2, <3>2, <3>3
  <2>8. ASSUME NEW m \in 1..position'
        PROVE  m \in erased' \/ m \in swallowed' \/ \E i \in DOMAIN traces' : m \in traces'[i]
    <3>1. CASE m \in 1..position  BY <2>2, <2>6, <3>1
    <3>2. CASE m \in S  BY <2>2, <3>2
    <3> QED  BY <2>5, <2>6, <2>8, <3>1, <3>2
  <2>9. \A i \in DOMAIN traces' : traces'[i] \subseteq 1..position'
    <3>1. TAKE i \in DOMAIN traces'
    <3>2. CASE i \in DOMAIN traces
      <4>1. 1..position \subseteq 1..position'  BY <2>3
      <4> QED  BY <2>2, <3>2, <4>1
    <3>3. CASE i = Len(traces) + 1
      <4>1. \A m \in S : m \in 1..position'  BY <2>1, <2>3, <2>4
      <4> QED  BY <2>2, <3>3, <4>1
    <3> QED  BY <2>2, <3>2, <3>3
  <2> QED  BY <2>7, <2>8, <2>9
<1>5. CASE TraceSwallowed
  <2>1. position <= position' /\ position \in Nat /\ position' \in Nat
    BY <1>5 DEF TraceSwallowed, ReadOn
  <2>2. \A m \in 1..position' : m \in 1..position \/ m \in swallowed' \/ m \in erased
    BY <1>5 DEF TraceSwallowed, ReadOn, Unread
  <2>3. UNCHANGED <<erased, traces>> /\ swallowed \subseteq swallowed'  BY <1>5 DEF TraceSwallowed
  <2>4. 1..position \subseteq 1..position'  BY <2>1
  <2> QED  BY <2>2, <2>3, <2>4
<1> QED  BY <1>1, <1>2, <1>3, <1>4, <1>5 DEF TraceStep

-----------------------------------------------------------------------------
(* The streams and the types are kept *)

Good ==
  /\ DaemonTypeOK /\ ClientTypeOK /\ WorldTypeOK /\ SocketTypeOK /\ DescriptorsAccounted
  /\ \A c \in Client : StreamOK(c)

LEMMA QueueType ==
  ASSUME SocketTypeOK, NEW H
  PROVE  QueueAfter(H) \in Seq(Client)
BY EmptySeq DEF SocketTypeOK, QueueAfter

LEMMA ActiveFinite ==
  ASSUME DaemonTypeOK
  PROVE  IsFiniteSet(active) /\ Cardinality(active) \in Nat
BY SessionAssumption, FS_Subset, FS_CardinalityType DEF DaemonTypeOK

LEMMA EndStep ==
  ASSUME StreamInv, End
  PROVE  Good'
<1>1. DaemonTypeOK'
  BY DEF StreamInv, TypeOK, End, Forget, DaemonTypeOK, Running
<1>2. in' \in [Client -> Seq(Block)] /\ \A c \in Client : StreamOK(c)'
  BY StreamsKeep DEF End
<1>3. ClientTypeOK' /\ WorldTypeOK'
  BY <1>2 DEF StreamInv, TypeOK, End, ClientTypeOK, WorldTypeOK
<1>4. SocketTypeOK'
  BY QueueType DEF StreamInv, TypeOK, End, Leave, HoldersAfter, SocketTypeOK
<1>5. DescriptorsAccounted'
  BY SessionAssumption, FS_EmptySet DEF End, Forget, DescriptorsAccounted
<1> QED  BY <1>1, <1>2, <1>3, <1>4, <1>5 DEF Good

\* A handler that neither ends the daemon nor opens a descriptor.
LEMMA ServeStep ==
  ASSUME StreamInv, NEW c \in Client, NEW t \in RequestType, Serve(c, t), Received(c, t),
         UNCHANGED <<asked, phase, cur, active, fds, opened, worldVars, socketVars>>,
         answered' \in [Client -> Seq(Answer)], DaemonTypeOK'
  PROVE  Good'
<1>1. in' \in [Client -> Seq(Block)] /\ \A d \in Client : StreamOK(d)'
  BY HandlerReads
<1>2. ClientTypeOK' /\ WorldTypeOK' /\ SocketTypeOK'
  BY <1>1 DEF StreamInv, TypeOK, ClientTypeOK, WorldTypeOK, SocketTypeOK
<1>3. DescriptorsAccounted'
  BY DEF StreamInv, DescriptorsAccounted
<1> QED  BY <1>1, <1>2, <1>3 DEF Good

LEMMA AnsweredType ==
  ASSUME ClientTypeOK, NEW c \in Client, NEW id \in Nat, NEW T \in SUBSET Nat, Answered(c, id, T)
  PROVE  answered' \in [Client -> Seq(Answer)]
<1>1. [id |-> id, text |-> T] \in Answer  BY DEF Answer
<1>2. Append(answered[c], [id |-> id, text |-> T]) \in Seq(Answer)
  BY <1>1, Elements, AppendProperties
<1> QED  BY <1>2 DEF Answered, ClientTypeOK

LEMMA HandlerStep ==
  ASSUME StreamInv, NEW c \in Client, Handler(c)
  PROVE  Good'
<1>0. TypeOK /\ DescriptorsAccounted /\ \A d \in Client : StreamOK(d)  BY DEF StreamInv
<1>1. DaemonTypeOK /\ ClientTypeOK /\ WorldTypeOK /\ SocketTypeOK  BY <1>0 DEF TypeOK
<1>2. \A t \in RequestType : TypeIs(c, t) =>
         /\ First(c) \in Request /\ First(c).type = t
         /\ Head(in[c]).id \in Nat
  <2>1. SUFFICES ASSUME NEW t \in RequestType, TypeIs(c, t)
                 PROVE  First(c) \in Request /\ First(c).type = t /\ Head(in[c]).id \in Nat
    OBVIOUS
  <2>2. /\ First(c) \in Request /\ First(c).type = t
        /\ Head(in[c]) = in[c][1] /\ 1 \in DOMAIN in[c]
    BY <2>1, OneRequest
  <2> QED  BY <1>1, <2>2, Elements DEF Block
<1>3. CASE HandlerFails(c) \/ ConnectionReset(c)
  BY <1>3, EndStep DEF HandlerFails, ConnectionReset
<1>4. CASE Reconnect(c)
  <2>1. cur # NoClient /\ fds = opened + Cardinality(active) + 1 /\ fds' = fds - 1
    BY <1>0, <1>1, <1>4 DEF Reconnect, DaemonTypeOK, DescriptorsAccounted
  <2>2. opened \in Nat /\ Cardinality(active) \in Nat /\ FdLimit \in Nat /\ fds <= FdLimit
    BY <1>0, <1>1, ActiveFinite, SessionAssumption DEF DaemonTypeOK, DescriptorsAccounted
  <2>3. fds' = opened + Cardinality(active) + 0 /\ fds' \in Nat /\ fds' <= FdLimit
    BY <2>1, <2>2
  <2>4. DaemonTypeOK' /\ DescriptorsAccounted'
    BY <1>1, <1>4, <2>3 DEF Reconnect, DaemonTypeOK, DescriptorsAccounted, Running
  <2>5. \A d \in Client : StreamOK(d)'  BY <1>4, StreamsSame DEF Reconnect
  <2> QED
    BY <1>1, <1>4, <2>4, <2>5 DEF Reconnect, ClientTypeOK, WorldTypeOK, SocketTypeOK, Good
<1>5. CASE SendTrace(c)
  <2>1. "SEND_TRACE" \in RequestType  BY DEF RequestType
  <2>2. answered' \in [Client -> Seq(Answer)]
    <3>1. Head(in[c]).id \in Nat  BY <1>2, <1>5, <2>1 DEF SendTrace, Serve
    <3> QED  BY <1>1, <1>5, <3>1, AnsweredType DEF SendTrace, ClientTypeOK
  <2>3. DaemonTypeOK'  BY <1>1, <1>5 DEF SendTrace, DaemonTypeOK
  <2> QED  BY <1>5, <2>1, <2>2, <2>3, ServeStep DEF SendTrace
<1>6. CASE SendLogs(c)
  <2>1. "SEND_LOGS" \in RequestType  BY DEF RequestType
  <2>2. answered' \in [Client -> Seq(Answer)]
    <3>1. Head(in[c]).id \in Nat /\ First(c) \in Request  BY <1>2, <1>6, <2>1 DEF SendLogs, Serve
    <3>2. LogText(c) \in SUBSET Nat
      BY <1>1, <3>1, RequestFacts, SessionAssumption DEF LogText, WorldTypeOK
    <3> QED  BY <1>1, <1>6, <3>1, <3>2, AnsweredType DEF SendLogs, ClientTypeOK
  <2>3. DaemonTypeOK'  BY <1>1, <1>6 DEF SendLogs, DaemonTypeOK
  <2> QED  BY <1>6, <2>1, <2>2, <2>3, ServeStep DEF SendLogs
<1>7. CASE GetConfigs(c)
  <2>1. "GET_CONFIGS" \in RequestType  BY DEF RequestType
  <2>2. First(c).ns \in SUBSET Ns  BY <1>2, <1>7, <2>1, RequestFacts DEF GetConfigs, Serve
  <2>3. DaemonTypeOK'  BY <1>1, <1>7, <2>2 DEF GetConfigs, Serve, DaemonTypeOK, Running
  <2> QED  BY <1>1, <1>7, <2>1, <2>3, ServeStep DEF GetConfigs, ClientTypeOK
<1>8. CASE Unrecognized(c)
  <2>1. "unknown" \in RequestType  BY DEF RequestType
  <2>2. DaemonTypeOK'  BY <1>1, <1>8 DEF Unrecognized, DaemonTypeOK
  <2> QED  BY <1>1, <1>8, <2>1, <2>2, ServeStep DEF Unrecognized, ClientTypeOK
<1>9. CASE ReceiveRun(c)
  <2>1. "RUN_CONTAINER" \in RequestType  BY DEF RequestType
  <2>2. First(c) \in Request  BY <1>2, <1>9, <2>1 DEF ReceiveRun, Serve
  <2>3. DaemonTypeOK'
    BY <1>1, <1>9, <2>2, SessionAssumption DEF ReceiveRun, Serve, DaemonTypeOK, Running
  <2> QED  BY <1>1, <1>9, <2>1, <2>3, ServeStep DEF ReceiveRun, ClientTypeOK
<1> QED  BY <1>3, <1>4, <1>5, <1>6, <1>7, <1>8, <1>9 DEF Handler

LEMMA LaunchedType ==
  ASSUME WorldTypeOK, job \in Request
  PROVE  /\ Append(launches, [name |-> job.name, ns |-> job.ns]) \in Seq(Launched)
         /\ Len(Append(launches, [name |-> job.name, ns |-> job.ns])) = Len(launches) + 1
         /\ Len(launches) \in Nat
         /\ text \in [File -> SUBSET (1..(Len(launches) + 1))]
<1>1. [name |-> job.name, ns |-> job.ns] \in Launched  BY RequestFacts DEF Launched
<1>2. launches \in Seq(Launched) /\ text \in [File -> SUBSET (1..Len(launches))]
  BY DEF WorldTypeOK
<1>3. Len(launches) \in Nat /\ 1..Len(launches) \subseteq 1..(Len(launches) + 1)  BY <1>2
<1> QED  BY <1>1, <1>2, <1>3, AppendProperties

LEMMA RunStepKeeps ==
  ASSUME StreamInv, RunStep
  PROVE  Good'
<1>0. TypeOK /\ DescriptorsAccounted /\ \A d \in Client : StreamOK(d)  BY DEF StreamInv
<1>1. DaemonTypeOK /\ ClientTypeOK /\ WorldTypeOK /\ SocketTypeOK  BY <1>0 DEF TypeOK
<1>2. dpc \in Running => job \in Request /\ cur # NoClient
  BY <1>1, SessionAssumption DEF DaemonTypeOK, Running
<1>3. CASE RunFails  BY <1>3, EndStep DEF RunFails
<1>4. CASE OpenLog
  <2>1. DaemonTypeOK' /\ DescriptorsAccounted'
    <3>1. fds \in Nat /\ opened \in Nat /\ FdLimit \in Nat /\ Cardinality(active) \in Nat
      BY <1>1, ActiveFinite, SessionAssumption DEF DaemonTypeOK
    <3>2. DescriptorsAccounted'
      BY <1>0, <1>4, <3>1 DEF OpenLog, DescriptorsAccounted
    <3>3. DaemonTypeOK'
      BY <1>1, <1>4, <3>1 DEF OpenLog, DaemonTypeOK, Running
    <3> QED  BY <3>2, <3>3
  <2>2. WorldTypeOK'
    <3>1. job.name \in File  BY <1>2, <1>4, RequestFacts DEF OpenLog, Running
    <3> QED  BY <1>1, <1>4, <3>1 DEF OpenLog, WorldTypeOK
  <2>3. ClientTypeOK' /\ SocketTypeOK' /\ \A d \in Client : StreamOK(d)'
    BY <1>1, <1>4, StreamsSame DEF OpenLog, ClientTypeOK, SocketTypeOK
  <2> QED  BY <2>1, <2>2, <2>3 DEF Good
<1>5. CASE LookUp
  <2>1. DaemonTypeOK' /\ DescriptorsAccounted'
    BY <1>0, <1>1, <1>5 DEF LookUp, DaemonTypeOK, DescriptorsAccounted, Running
  <2>2. ClientTypeOK' /\ WorldTypeOK' /\ SocketTypeOK' /\ \A d \in Client : StreamOK(d)'
    BY <1>1, <1>5, StreamsSame DEF LookUp, ClientTypeOK, WorldTypeOK, SocketTypeOK
  <2> QED  BY <2>1, <2>2 DEF Good
<1>6. CASE Clone
  <2> DEFINE N == job.ns \ active
  <2>1. job \in Request /\ job.ns \subseteq declared /\ declared \subseteq Ns
    BY <1>1, <1>2, <1>6 DEF Clone, Running, DaemonTypeOK
  <2>2. IsFiniteSet(N) /\ Cardinality(N) \in Nat
    BY <2>1, SessionAssumption, FS_Subset, FS_CardinalityType
  <2>3. Cardinality(active \cup job.ns) = Cardinality(active) + Cardinality(N)
    <3>1. active \cup job.ns = active \cup N /\ active \cap N = {}  OBVIOUS
    <3>2. IsFiniteSet(active)  BY <1>1, ActiveFinite
    <3>3. Cardinality(active \cup N) = Cardinality(active) + Cardinality(N) - Cardinality({})
      BY <2>2, <3>1, <3>2, FS_Union
    <3> HIDE DEF N
    <3>4. Cardinality({}) = 0 /\ Cardinality(active) \in Nat
      BY <1>1, ActiveFinite, FS_EmptySet
    <3> QED  BY <2>2, <3>1, <3>3, <3>4
  <2>4. DescriptorsAccounted'
    <3> DEFINE k == Cardinality(N)
    <3> DEFINE a == Cardinality(active)
    <3>1. active' = active \cup job.ns /\ fds' = fds + k /\ fds + k <= FdLimit
          /\ UNCHANGED <<opened, cur>>
      BY <1>6 DEF Clone
    <3>2. fds = opened + a + (IF cur = NoClient THEN 0 ELSE 1)
      BY <1>0 DEF DescriptorsAccounted
    <3>3. opened \in Nat /\ a \in Nat /\ k \in Nat  BY <1>1, <2>2, ActiveFinite DEF DaemonTypeOK
    <3>4. Cardinality(active') = a + k  BY <2>3, <3>1
    <3> HIDE DEF k, a
    <3>5. fds' = opened' + Cardinality(active') + (IF cur' = NoClient THEN 0 ELSE 1)
      BY <3>1, <3>2, <3>3, <3>4
    <3> QED  BY <3>1, <3>5 DEF DescriptorsAccounted
  <2>5. DaemonTypeOK'
    <3>1. active' \in SUBSET declared'  BY <1>1, <1>6, <2>1 DEF Clone, DaemonTypeOK
    <3>2. fds' \in Nat  BY <1>1, <1>6, <2>2 DEF Clone, DaemonTypeOK
    <3> QED  BY <1>1, <1>6, <3>1, <3>2, SessionAssumption DEF Clone, DaemonTypeOK, Running
  <2>6. WorldTypeOK' /\ SocketTypeOK'
    <3>1. launches' = Append(launches, [name |-> job.name, ns |-> job.ns])  BY <1>6 DEF Clone
    <3>2. /\ launches' \in Seq(Launched) /\ Len(launches') = Len(launches) + 1
          /\ Len(launches) \in Nat /\ text \in [File -> SUBSET (1..Len(launches'))]
      BY <1>1, <2>1, <3>1, LaunchedType
    <3>3. WorldTypeOK'  BY <1>1, <1>6, <3>2 DEF Clone, WorldTypeOK
    <3>4. holders' \subseteq 0..Len(launches')
      <4>1. 0..Len(launches) \subseteq 0..Len(launches') /\ Child \in 0..Len(launches')
        BY <3>2 DEF Child
      <4> QED  BY <1>1, <1>6, <4>1 DEF Clone, SocketTypeOK
    <3> QED  BY <1>1, <1>6, <3>3, <3>4 DEF Clone, SocketTypeOK
  <2>7. ClientTypeOK' /\ \A d \in Client : StreamOK(d)'
    BY <1>1, <1>6, StreamsSame DEF Clone, ClientTypeOK
  <2> QED  BY <2>4, <2>5, <2>6, <2>7 DEF Good
<1>7. CASE CloneThenEnd
  <2>1. DaemonTypeOK'
    BY <1>1, <1>7 DEF CloneThenEnd, Forget, DaemonTypeOK, Running
  <2>2. DescriptorsAccounted'
    BY <1>7, SessionAssumption, FS_EmptySet DEF CloneThenEnd, Forget, DescriptorsAccounted
  <2>3. ClientTypeOK' /\ \A d \in Client : StreamOK(d)'
    BY <1>1, <1>7, StreamsKeep DEF CloneThenEnd, ClientTypeOK
  <2>4. WorldTypeOK' /\ SocketTypeOK'
    <3>1. job \in Request  BY <1>2, <1>7 DEF CloneThenEnd, Running
    <3>2. launches' = Append(launches, [name |-> job.name, ns |-> job.ns])
      BY <1>7 DEF CloneThenEnd
    <3>3. /\ launches' \in Seq(Launched) /\ Len(launches') = Len(launches) + 1
          /\ Len(launches) \in Nat /\ text \in [File -> SUBSET (1..Len(launches'))]
      BY <1>1, <3>1, <3>2, LaunchedType
    <3>4. WorldTypeOK'  BY <1>1, <1>7, <3>3 DEF CloneThenEnd, WorldTypeOK
    <3>5. holders' \subseteq 0..Len(launches')
      <4>1. 0..Len(launches) \subseteq 0..Len(launches') /\ Child \in 0..Len(launches')
        BY <3>3 DEF Child
      <4> QED  BY <1>1, <1>7, <4>1 DEF CloneThenEnd, SocketTypeOK
    <3> QED  BY <1>1, <1>7, <3>4, <3>5 DEF CloneThenEnd, SocketTypeOK
  <2> QED  BY <2>1, <2>2, <2>3, <2>4 DEF Good
<1> QED  BY <1>3, <1>4, <1>5, <1>6, <1>7 DEF RunStep

LEMMA ConnectionStep ==
  ASSUME StreamInv, Accept \/ AcceptFails \/ Start \/ StartFails \/ Kill
  PROVE  Good'
<1>0. TypeOK /\ DescriptorsAccounted /\ \A d \in Client : StreamOK(d)  BY DEF StreamInv
<1>1. DaemonTypeOK /\ ClientTypeOK /\ WorldTypeOK /\ SocketTypeOK  BY <1>0 DEF TypeOK
<1>2. CASE AcceptFails \/ Kill  BY <1>2, EndStep DEF AcceptFails, Kill
<1>3. CASE Accept
  <2>1. /\ Head(queue) \in Client /\ Tail(queue) \in Seq(Client) /\ Head(queue) # NoClient
        /\ cur = NoClient
    BY <1>1, <1>3, SessionAssumption DEF Accept, AcceptFirst, SocketTypeOK, DaemonTypeOK
  <2>2. DaemonTypeOK'  BY <1>1, <1>3, <2>1 DEF Accept, DaemonTypeOK, Running
  <2>3. DescriptorsAccounted'
    <3>1. opened \in Nat /\ Cardinality(active) \in Nat /\ FdLimit \in Nat
      BY <1>1, ActiveFinite, SessionAssumption DEF DaemonTypeOK
    <3> QED  BY <1>0, <1>3, <2>1, <3>1 DEF Accept, DescriptorsAccounted
  <2>4. ClientTypeOK' /\ WorldTypeOK' /\ SocketTypeOK' /\ \A d \in Client : StreamOK(d)'
    BY <1>1, <1>3, <2>1, StreamsSame
    DEF Accept, AcceptFirst, ClientTypeOK, WorldTypeOK, SocketTypeOK
  <2> QED  BY <2>2, <2>3, <2>4 DEF Good
<1>4. CASE Start
  <2>1. DaemonTypeOK' /\ DescriptorsAccounted'
    BY <1>0, <1>1, <1>4 DEF Start, DaemonTypeOK, DescriptorsAccounted, Running
  <2>2. WorldTypeOK'
    BY <1>1, <1>4, SessionAssumption DEF Start, WorldTypeOK
  <2>3. SocketTypeOK'
    <3>1. 0 \in 0..Len(launches)  BY <1>1 DEF WorldTypeOK
    <3> QED  BY <1>4, <3>1, EmptySeq DEF Start, Bind, SocketTypeOK
  <2>4. ClientTypeOK' /\ \A d \in Client : StreamOK(d)'
    BY <1>1, <1>4, StreamsSame DEF Start, ClientTypeOK
  <2> QED  BY <2>1, <2>2, <2>3, <2>4 DEF Good
<1>5. CASE StartFails
  <2>1. DaemonTypeOK' /\ DescriptorsAccounted'
    BY <1>0, <1>1, <1>5 DEF StartFails, DaemonTypeOK, DescriptorsAccounted
  <2>2. WorldTypeOK' /\ SocketTypeOK'
    BY <1>1, <1>5, SessionAssumption DEF StartFails, WorldTypeOK, SocketTypeOK
  <2>3. ClientTypeOK' /\ \A d \in Client : StreamOK(d)'
    BY <1>1, <1>5, StreamsSame DEF StartFails, ClientTypeOK
  <2> QED  BY <2>1, <2>2, <2>3 DEF Good
<1> QED  BY <1>2, <1>3, <1>4, <1>5

LEMMA ClientStepKeeps ==
  ASSUME StreamInv, NEW c \in Client, ClientStep(c)
  PROVE  Good'
<1>0. TypeOK /\ DescriptorsAccounted /\ \A d \in Client : StreamOK(d)  BY DEF StreamInv
<1>1. DaemonTypeOK /\ ClientTypeOK /\ WorldTypeOK /\ SocketTypeOK  BY <1>0 DEF TypeOK
<1>2. ASSUME UNCHANGED <<daemonVars, worldVars>> PROVE DaemonTypeOK' /\ WorldTypeOK' /\ DescriptorsAccounted'
  BY <1>0, <1>1, <1>2 DEF DaemonTypeOK, WorldTypeOK, DescriptorsAccounted
<1>3. CASE Connect(c)
  <2>1. queue' \in Seq(Client)
    BY <1>1, <1>3, AppendProperties DEF Connect, QueueClient, SocketTypeOK
  <2>2. ClientTypeOK' /\ SocketTypeOK'
    BY <1>1, <1>3, <2>1 DEF Connect, ClientTypeOK, SocketTypeOK
  <2>3. \A d \in Client : StreamOK(d)'
    BY <1>1, <1>3, StreamsSame DEF Connect, ClientTypeOK
  <2>4. UNCHANGED <<daemonVars, worldVars>>  BY <1>3 DEF Connect
  <2> QED  BY <1>2, <2>2, <2>3, <2>4 DEF Good
<1>4. CASE Close(c)
  <2>1. ClientTypeOK' /\ SocketTypeOK'
    BY <1>1, <1>4 DEF Close, ClientTypeOK, SocketTypeOK
  <2>2. \A d \in Client : StreamOK(d)'
    BY <1>1, <1>4, StreamsSame DEF Close, Connected, ClientTypeOK
  <2>3. UNCHANGED <<daemonVars, worldVars>>  BY <1>4 DEF Close
  <2> QED  BY <1>2, <2>1, <2>2, <2>3 DEF Good
<1>5. ASSUME NEW r \in Asks[c], Send(c, r) PROVE Good'
  <2>1. r \in Request  BY SessionAssumption
  <2>2. /\ in' \in [Client -> Seq(Block)] /\ asked' \in [Client -> Seq(Request)]
        /\ \A d \in Client : StreamOK(d)'
    BY <1>5, <2>1, SendStep
  <2>3. ClientTypeOK' /\ SocketTypeOK'
    BY <1>1, <1>5, <2>2 DEF Send, Sends, ClientTypeOK, SocketTypeOK
  <2>4. UNCHANGED <<daemonVars, worldVars>>  BY <1>5 DEF Send, Sends
  <2> QED  BY <1>2, <2>2, <2>3, <2>4 DEF Good
<1>6. ASSUME NEW r \in Asks[c], NEW n \in 2..4, SendCut(c, r, n) PROVE Good'
  <2>1. r \in Request  BY SessionAssumption
  <2>2. /\ in' \in [Client -> Seq(Block)] /\ asked' \in [Client -> Seq(Request)]
        /\ \A d \in Client : StreamOK(d)'
    BY <1>6, <2>1, SendCutStep
  <2>3. ClientTypeOK' /\ SocketTypeOK'
    BY <1>1, <1>6, <2>2 DEF SendCut, Sends, ClientTypeOK, SocketTypeOK
  <2>4. UNCHANGED <<daemonVars, worldVars>>  BY <1>6 DEF SendCut, Sends
  <2> QED  BY <1>2, <2>2, <2>3, <2>4 DEF Good
<1> QED  BY <1>3, <1>4, <1>5, <1>6 DEF ClientStep

LEMMA ContainerStep ==
  ASSUME StreamInv, NEW k \in Living, Write(k) \/ Exit(k)
  PROVE  Good'
<1>0. TypeOK /\ DescriptorsAccounted /\ \A d \in Client : StreamOK(d)  BY DEF StreamInv
<1>1. DaemonTypeOK /\ ClientTypeOK /\ WorldTypeOK /\ SocketTypeOK  BY <1>0 DEF TypeOK
<1>2. DaemonTypeOK' /\ DescriptorsAccounted'
  BY <1>0, <1>1 DEF Write, Exit, DaemonTypeOK, DescriptorsAccounted
<1>3. CASE Write(k)
  <2>1. k \in 1..Len(launches)  BY <1>1 DEF Living, SocketTypeOK, WorldTypeOK
  <2>2. WorldTypeOK'  BY <1>1, <1>3, <2>1 DEF Write, WorldTypeOK
  <2>3. ClientTypeOK' /\ SocketTypeOK' /\ \A d \in Client : StreamOK(d)'
    BY <1>1, <1>3, StreamsSame DEF Write, ClientTypeOK, SocketTypeOK
  <2> QED  BY <1>2, <2>2, <2>3 DEF Good
<1>4. CASE Exit(k)
  <2>1. SocketTypeOK' /\ WorldTypeOK'
    BY <1>1, <1>4, QueueType DEF Exit, Leave, HoldersAfter, SocketTypeOK, WorldTypeOK
  <2>2. ClientTypeOK' /\ \A d \in Client : StreamOK(d)'
    BY <1>1, <1>4, StreamsKeep DEF Exit, ClientTypeOK
  <2> QED  BY <1>2, <2>1, <2>2 DEF Good
<1> QED  BY <1>3, <1>4

LEMMA StreamStep == StreamInv /\ [Next]_vars => StreamInv'
<1>1. SUFFICES ASSUME StreamInv, [Next]_vars PROVE StreamInv'  OBVIOUS
<1>2. TraceTypeOK'  BY <1>1, SessionTraces, TraceTyped DEF StreamInv, TypeOK
<1>3. Good'
  <2>1. CASE DaemonStep
    BY <1>1, <2>1, HandlerStep, RunStepKeeps, ConnectionStep DEF DaemonStep
  <2>2. CASE Start \/ StartFails \/ Kill  BY <1>1, <2>2, ConnectionStep
  <2>3. CASE \E c \in Client : ClientStep(c)  BY <1>1, <2>3, ClientStepKeeps
  <2>4. CASE \E k \in Living : Write(k) \/ Exit(k)  BY <1>1, <2>4, ContainerStep
  <2>5. CASE UNCHANGED vars
    <3>1. \A c \in Client : StreamOK(c)'  BY <1>1, <2>5, StreamsSame
    <3> QED
      BY <1>1, <2>5, <3>1 DEF StreamInv, TypeOK, Good, DaemonTypeOK, ClientTypeOK, WorldTypeOK,
         SocketTypeOK, DescriptorsAccounted
  <2> QED  BY <1>1, <2>1, <2>2, <2>3, <2>4, <2>5 DEF Next
<1> QED  BY <1>2, <1>3 DEF Good, StreamInv, TypeOK

LEMMA StreamInit == Init => StreamInv
<1> SUFFICES ASSUME Init PROVE StreamInv  OBVIOUS
<1>1. TraceTypeOK  BY EmptySeq DEF Init, TraceInit, TraceTypeOK
<1>2. DaemonTypeOK  BY DEF Init, DaemonTypeOK, Running
<1>3. ClientTypeOK  BY EmptySeq DEF Init, ClientTypeOK
<1>4. WorldTypeOK /\ SocketTypeOK
  BY EmptySeq, SessionAssumption DEF Init, SocketInit, WorldTypeOK, SocketTypeOK
<1>5. DescriptorsAccounted
  BY SessionAssumption, FS_EmptySet DEF Init, DescriptorsAccounted
<1>6. \A c \in Client : StreamOK(c)  BY DEF Init, StreamOK
<1> QED  BY <1>1, <1>2, <1>3, <1>4, <1>5, <1>6 DEF StreamInv, TypeOK

-----------------------------------------------------------------------------
(* The theorems *)

\* The inductive invariant: the types, the descriptors and the streams.
THEOREM Streams == Spec => []StreamInv
<1>1. Init => StreamInv  BY StreamInit
<1>2. StreamInv /\ [Next]_vars => StreamInv'  BY StreamStep
<1> QED  BY <1>1, <1>2, PTL DEF Spec, Safety

\* Every variable keeps its type, over any number of clients, requests, daemons
\* and containers.
THEOREM TypeCorrect == Spec => []TypeOK
<1>1. StreamInv => TypeOK  BY DEF StreamInv
<1> QED  BY <1>1, Streams, PTL

\* The daemon loses no descriptor, and never needs one it cannot have.
THEOREM Descriptors == Spec => []DescriptorsAccounted
<1>1. StreamInv => DescriptorsAccounted  BY DEF StreamInv
<1> QED  BY <1>1, Streams, PTL

\* What the daemon takes for the type of a request is one (daemon.cpp:41).
THEOREM TypesAreTypes == Spec => []InStep
<1>1. StreamInv => InStep
  <2>1. SUFFICES ASSUME StreamInv, dpc \in {"request"} \cup Running, in[cur] # <<>>
                 PROVE  Head(in[cur]).part = 0
    BY DEF InStep
  <2>2. cur \in Client
    BY <2>1 DEF StreamInv, TypeOK, DaemonTypeOK, Running
  <2>3. in[cur] \in Seq(Block)  BY <2>1, <2>2, Elements DEF StreamInv, TypeOK
  <2>4. 1 \in DOMAIN in[cur] /\ Head(in[cur]) = in[cur][1]  BY <2>1, <2>3
  <2> QED  BY <2>1, <2>2, <2>4 DEF StreamInv, StreamOK
<1> QED  BY <1>1, Streams, PTL

\* Every message is sent at most once and in order, and the reader passes none
\* that was not sent, erased by a failed start, or lost with a client.
THEOREM TraceSentOnce == Spec => []TraceExact
<1>1. Init => TraceInv  BY DEF Init, TraceInit, TraceInv, TraceExact
<1>2. StreamInv /\ TraceInv /\ [Next]_vars => TraceInv'
  BY SessionTraces, TraceKept DEF StreamInv, TypeOK
<1>3. TraceInv => TraceExact  BY DEF TraceInv
<1> QED  BY <1>1, <1>2, <1>3, Streams, PTL DEF Spec, Safety

-----------------------------------------------------------------------------
(* Containers that outlive a daemon *)

\* The daemon holds its socket, and whoever lives without one is not known.
PortInv ==
  /\ dpc # "off" <=> 0 \in holders
  /\ LivingAreKnown

LEMMA PortEnds ==
  ASSUME End
  PROVE  PortInv'
BY DEF End, Forget, Leave, HoldersAfter, PortInv, LivingAreKnown

LEMMA PortStep == StreamInv /\ PortInv /\ [Next]_vars => PortInv'
<1>1. SUFFICES ASSUME StreamInv, PortInv, [Next]_vars PROVE PortInv'  OBVIOUS
<1>2. DaemonTypeOK /\ WorldTypeOK /\ SocketTypeOK  BY <1>1 DEF StreamInv, TypeOK
<1>3. ASSUME UNCHANGED <<holders, launches, active>>, dpc # "off" <=> dpc' # "off"
      PROVE  PortInv'
  BY <1>1, <1>3 DEF PortInv, LivingAreKnown, Living
<1>4. CASE \E c \in Client : Handler(c)
  <2>1. PICK c \in Client : Handler(c)  BY <1>4
  <2>2. CASE HandlerFails(c) \/ ConnectionReset(c)
    BY <2>2, PortEnds DEF HandlerFails, ConnectionReset
  <2>3. CASE SendTrace(c) \/ SendLogs(c) \/ GetConfigs(c) \/ Unrecognized(c)
    BY <1>3, <2>3 DEF SendTrace, SendLogs, GetConfigs, Unrecognized
  <2>4. CASE ReceiveRun(c) \/ Reconnect(c)
    BY <1>3, <2>4 DEF ReceiveRun, Serve, Reconnect
  <2> QED  BY <2>1, <2>2, <2>3, <2>4 DEF Handler
<1>5. CASE OpenLog \/ LookUp  BY <1>3, <1>5 DEF OpenLog, LookUp
<1>6. CASE Clone
  <2>1. /\ Len(launches) \in Nat /\ Child \in Nat \ {0} /\ Child \notin holders
        /\ launches \in Seq(Launched)
    BY <1>2 DEF WorldTypeOK, SocketTypeOK, Child
  <2>2. /\ launches'[Child].ns = job.ns
        /\ \A k \in 1..Len(launches) : launches'[k] = launches[k]
    BY <1>6, <2>1 DEF Clone, Child
  <2>3. dpc' # "off" /\ 0 \in holders'
    BY <1>1, <1>6 DEF Clone, PortInv
  <2>4. ASSUME NEW k \in Living' PROVE launches'[k].ns \subseteq active'
    <3>1. active' = active \cup job.ns  BY <1>6 DEF Clone
    <3>2. CASE k = Child  BY <2>2, <3>1, <3>2
    <3>3. CASE k # Child
      <4>1. k \in Living  BY <1>6, <2>4, <3>3 DEF Clone, Living
      <4>2. k \in 1..Len(launches)  BY <1>2, <4>1 DEF Living, SocketTypeOK, WorldTypeOK
      <4> QED  BY <1>1, <1>6, <2>2, <3>1, <4>1, <4>2 DEF PortInv, LivingAreKnown, Clone
    <3> QED  BY <3>2, <3>3
  <2> QED  BY <2>3, <2>4 DEF PortInv, LivingAreKnown
<1>7. CASE CloneThenEnd
  <2>1. Child # 0  BY <1>2 DEF Child, WorldTypeOK
  <2> QED  BY <1>7, <2>1 DEF CloneThenEnd, Forget, PortInv, LivingAreKnown
<1>8. CASE RunFails \/ AcceptFails \/ Kill  BY <1>8, PortEnds DEF RunFails, AcceptFails, Kill
<1>9. CASE Start
  BY <1>9 DEF Start, Bind, PortInv, LivingAreKnown, Living
<1>10. CASE Accept \/ StartFails  BY <1>3, <1>10 DEF Accept, StartFails
<1>11. CASE \E c \in Client : ClientStep(c)
  BY <1>3, <1>11 DEF ClientStep, Connect, Close, Send, SendCut, Sends
<1>12. CASE \E k \in Living : Write(k)  BY <1>3, <1>12 DEF Write
<1>13. CASE \E k \in Living : Exit(k)
  BY <1>1, <1>13 DEF Exit, Leave, HoldersAfter, PortInv, LivingAreKnown, Living
<1>14. CASE UNCHANGED vars  BY <1>3, <1>14
<1> QED
  BY <1>1, <1>4, <1>5, <1>6, <1>7, <1>8, <1>9, <1>10, <1>11, <1>12, <1>13, <1>14
  DEF Next, DaemonStep, RunStep

\* No daemon runs beside a container whose namespaces it does not know.
THEOREM LivingKnown == Spec => []LivingAreKnown
<1>1. Init => PortInv
  BY DEF Init, SocketInit, PortInv, LivingAreKnown
<1>2. PortInv => LivingAreKnown  BY DEF PortInv
<1> QED  BY <1>1, <1>2, PortStep, Streams, PTL DEF Spec, Safety

-----------------------------------------------------------------------------
(* Answers *)

\* The answers to c come before the requests that are still on their way, and
\* between them no trace is missing.
AnswerOK(c) ==
  /\ \A i, j \in DOMAIN answered[c] : i < j => answered[c][i].id < answered[c][j].id
  /\ \A i \in DOMAIN answered[c] :
       /\ answered[c][i].id \in DOMAIN asked[c]
       /\ asked[c][answered[c][i].id].type \in {"SEND_TRACE", "SEND_LOGS"}
       /\ \A b \in DOMAIN in[c] : answered[c][i].id < in[c][b].id
  /\ Connected(c) =>
       \A i \in DOMAIN asked[c] : asked[c][i].type = "SEND_TRACE" =>
         \/ \E b \in DOMAIN in[c] : in[c][b].id = i
         \/ \E a \in DOMAIN answered[c] : answered[c][a].id = i
  /\ phase[c] = "new" => asked[c] = <<>>

AnswerInv == \A c \in Client : AnswerOK(c)

\* Nothing happens to client c, except that it may be disconnected.
LEMMA AnswerSame ==
  ASSUME NEW c \in Client, AnswerOK(c),
         asked'[c] = asked[c], answered'[c] = answered[c],
         in'[c] = in[c] \/ (in'[c] = <<>> /\ ~Connected(c)'),
         Connected(c)' => Connected(c), phase'[c] = "new" => phase[c] = "new"
  PROVE  AnswerOK(c)'
BY DEF AnswerOK

LEMMA AnswerEnds ==
  ASSUME AnswerInv, NEW now, UNCHANGED <<phase, asked, answered>>,
         in' = StreamsOf(queue', now), queue' \in {queue, <<>>}, cur' = now, now \in {cur, NoClient}
  PROVE  AnswerInv'
<1>1. SUFFICES ASSUME NEW c \in Client PROVE AnswerOK(c)'  BY DEF AnswerInv
<1>2. Connected(c)' => Connected(c)
  BY SessionAssumption DEF Connected
<1>3. in'[c] = in[c] \/ (in'[c] = <<>> /\ ~Connected(c)')
  BY DEF StreamsOf, Connected
<1> QED  BY <1>2, <1>3, AnswerSame DEF AnswerInv

LEMMA EndAnswers ==
  ASSUME AnswerInv, End
  PROVE  AnswerInv'
<1>1. queue' \in {queue, <<>>} /\ in' = StreamsOf(queue', NoClient) /\ cur' = NoClient
      /\ UNCHANGED <<phase, asked, answered>>
  BY DEF End, Forget, Leave, QueueAfter
<1> QED  BY <1>1, AnswerEnds

\* A handler answers the request it has received, or none; a request for a trace
\* it does answer.
LEMMA AnswerServe ==
  ASSUME StreamInv, AnswerInv, NEW c \in Client, NEW t \in RequestType,
         Serve(c, t), Received(c, t), UNCHANGED <<asked, phase, cur, queue>>,
         \/ UNCHANGED answered /\ (t = "SEND_TRACE" => phase[c] # "open")
         \/ t \in {"SEND_TRACE", "SEND_LOGS"} /\ \E T \in SUBSET Nat : Answered(c, Head(in[c]).id, T)
  PROVE  AnswerInv'
<1> DEFINE h == in[c][1].id
<1>0. ClientTypeOK  BY DEF StreamInv, TypeOK
<1>1. /\ First(c).type = t /\ Head(in[c]) = in[c][1] /\ 1 \in DOMAIN in[c] /\ h \in DOMAIN asked[c]
      /\ First(c) = asked[c][h]
  BY OneRequest DEF Serve, First
<1>2. /\ \A i \in DOMAIN in'[c] : h < in'[c][i].id
      /\ \A i \in DOMAIN in[c] : in[c][i].id # h => \E j \in DOMAIN in'[c] : in'[c][j].id = in[c][i].id
      /\ \A d \in Client \ {c} : in'[d] = in[d]
      /\ in' \in [Client -> Seq(Block)]
  BY HandlerReads
<1>3. \A d \in Client : Connected(d)' = Connected(d)  BY DEF Connected
<1>4. \A d \in Client \ {c} : answered'[d] = answered[d]  BY <1>0 DEF Answered, ClientTypeOK
<1>5. \A d \in Client \ {c} : AnswerOK(d)'
  BY <1>2, <1>3, <1>4, AnswerSame DEF AnswerInv
<1>6. AnswerOK(c)  BY DEF AnswerInv
<1>7. /\ h \in Nat /\ in'[c] \in Seq(Block) /\ \A i \in DOMAIN in'[c] : in'[c][i].id \in Nat
      /\ answered[c] \in Seq(Answer) /\ \A i \in DOMAIN answered[c] : answered[c][i].id \in Nat
  <2>1. in'[c] \in Seq(Block)  BY <1>2
  <2>2. \A i \in DOMAIN in'[c] : in'[c][i] \in Block  BY <2>1
  <2>3. in[c][1] \in Block  BY <1>0, <1>1, Elements
  <2>4. answered[c] \in Seq(Answer)  BY <1>0, Elements
  <2>5. \A i \in DOMAIN answered[c] : answered[c][i] \in Answer  BY <2>4
  <2> QED  BY <2>1, <2>2, <2>3, <2>4, <2>5 DEF Block, Answer
<1>8. \A i \in DOMAIN answered[c] : \A b \in DOMAIN in'[c] : answered[c][i].id < in'[c][b].id
  BY <1>1, <1>2, <1>6, <1>7 DEF AnswerOK
<1>9. CASE UNCHANGED answered /\ (t = "SEND_TRACE" => phase[c] # "open")
  <2>1. ASSUME Connected(c)', NEW i \in DOMAIN asked[c], asked[c][i].type = "SEND_TRACE"
        PROVE  \/ \E b \in DOMAIN in'[c] : in'[c][b].id = i
               \/ \E a \in DOMAIN answered[c] : answered[c][a].id = i
    <3>1. Connected(c) /\ i # h  BY <1>1, <1>3, <1>9, <2>1 DEF Connected
    <3> QED  BY <1>2, <1>6, <2>1, <3>1 DEF AnswerOK
  <2>2. AnswerOK(c)'  BY <1>6, <1>8, <1>9, <2>1 DEF AnswerOK
  <2> QED  BY <1>5, <2>2 DEF AnswerInv
<1>10. CASE /\ t \in {"SEND_TRACE", "SEND_LOGS"}
            /\ \E T \in SUBSET Nat : Answered(c, Head(in[c]).id, T)
  <2>1. PICK T \in SUBSET Nat : answered'[c] = Append(answered[c], [id |-> h, text |-> T])
    BY <1>0, <1>1, <1>10 DEF Answered, ClientTypeOK
  <2> DEFINE n == Len(answered[c])
  <2>2. /\ n \in Nat /\ DOMAIN answered[c] = 1..n /\ DOMAIN answered'[c] = 1..(n + 1)
        /\ answered'[c][n + 1] = [id |-> h, text |-> T]
        /\ \A i \in DOMAIN answered[c] : answered'[c][i] = answered[c][i]
    BY <1>7, <2>1
  <2>3. answered'[c][n + 1].id = h  BY <2>2
  <2>4. \A i \in DOMAIN answered[c] : answered[c][i].id < h  BY <1>1, <1>6 DEF AnswerOK
  <2> HIDE DEF n, h
  <2>5. \A i, j \in DOMAIN answered'[c] : i < j => answered'[c][i].id < answered'[c][j].id
    <3>1. TAKE i, j \in DOMAIN answered'[c]
    <3>2. HAVE i < j
    <3>3. i \in DOMAIN answered[c] /\ (j \in DOMAIN answered[c] \/ j = n + 1)  BY <2>2, <3>2
    <3> QED  BY <1>6, <2>2, <2>3, <2>4, <3>2, <3>3 DEF AnswerOK
  <2>6. \A i \in DOMAIN answered'[c] :
       /\ answered'[c][i].id \in DOMAIN asked[c]
       /\ asked[c][answered'[c][i].id].type \in {"SEND_TRACE", "SEND_LOGS"}
       /\ \A b \in DOMAIN in'[c] : answered'[c][i].id < in'[c][b].id
    <3>1. TAKE i \in DOMAIN answered'[c]
    <3>2. CASE i \in DOMAIN answered[c]  BY <1>6, <1>8, <2>2, <3>2 DEF AnswerOK
    <3>3. CASE i = n + 1  BY <1>1, <1>2, <1>10, <2>3, <3>3 DEF h
    <3> QED  BY <2>2, <3>2, <3>3
  <2>7. ASSUME Connected(c)', NEW i \in DOMAIN asked[c], asked[c][i].type = "SEND_TRACE"
        PROVE  \/ \E b \in DOMAIN in'[c] : in'[c][b].id = i
               \/ \E a \in DOMAIN answered'[c] : answered'[c][a].id = i
    <3>1. CASE i = h
      <4>1. n + 1 \in DOMAIN answered'[c]  BY <2>2
      <4> QED  BY <2>3, <3>1, <4>1
    <3>2. CASE i # h
      <4>1. \/ \E b \in DOMAIN in[c] : in[c][b].id = i
            \/ \E a \in DOMAIN answered[c] : answered[c][a].id = i
        BY <1>3, <1>6, <2>7 DEF AnswerOK
      <4>2. DOMAIN answered[c] \subseteq DOMAIN answered'[c]  BY <2>2
      <4> QED  BY SMTT(20), <1>2, <2>2, <3>2, <4>1, <4>2 DEF h
    <3> QED  BY <3>1, <3>2
  <2>8. AnswerOK(c)'  BY <1>6, <2>5, <2>6, <2>7 DEF AnswerOK
  <2> QED  BY <1>5, <2>8 DEF AnswerInv
<1> QED  BY <1>9, <1>10

LEMMA AnswerSends ==
  ASSUME StreamInv, AnswerInv, NEW c \in Client, NEW r \in Request,
         Send(c, r) \/ \E n \in 2..4 : SendCut(c, r, n)
  PROVE  AnswerInv'
<1> DEFINE A == Len(asked[c])
<1>1. /\ asked'[c] = Append(asked[c], r) /\ \A d \in Client \ {c} : asked'[d] = asked[d]
      /\ \A i \in DOMAIN in[c] : i \in DOMAIN in'[c] /\ in'[c][i] = in[c][i]
      /\ \E i \in DOMAIN in'[c] : in'[c][i].id = A + 1
      /\ \A i \in DOMAIN in'[c] : i \notin DOMAIN in[c] => in'[c][i].id = A + 1
      /\ \A d \in Client \ {c} : in'[d] = in[d]
  <2>1. CASE Send(c, r)  BY <2>1, SendStep
  <2>2. CASE \E n \in 2..4 : SendCut(c, r, n)  BY <2>2, SendCutStep
  <2> QED  BY <2>1, <2>2
<1>2. Sends(c, r, Blocks(A + 1, r.type)) \/ \E n \in 2..4 : Sends(c, r, FirstBlocks(A + 1, n))
  BY DEF Send, SendCut
<1>3. UNCHANGED <<answered, cur, queue>> /\ Connected(c)  BY <1>2 DEF Sends
<1>4. phase' = phase \/ phase' = [phase EXCEPT ![c] = "shut"]  BY DEF Send, SendCut
<1>5. ClientTypeOK  BY DEF StreamInv, TypeOK
<1>6. \A d \in Client : /\ Connected(d)' => Connected(d)
                        /\ phase'[d] = "new" => phase[d] = "new"
  BY <1>3, <1>4, <1>5 DEF Connected, ClientTypeOK
<1>7. \A d \in Client \ {c} : AnswerOK(d)'
  BY <1>1, <1>3, <1>6, AnswerSame DEF AnswerInv
<1>8. AnswerOK(c)  BY DEF AnswerInv
<1>9. /\ A \in Nat /\ DOMAIN asked[c] = 1..A /\ DOMAIN asked'[c] = 1..(A + 1)
      /\ asked'[c][A + 1] = r /\ \A i \in 1..A : asked'[c][i] = asked[c][i]
  BY <1>1, <1>5, Elements
<1>10. \A i \in DOMAIN answered[c] :
       /\ answered[c][i].id \in DOMAIN asked'[c]
       /\ asked'[c][answered[c][i].id].type \in {"SEND_TRACE", "SEND_LOGS"}
       /\ \A b \in DOMAIN in'[c] : answered[c][i].id < in'[c][b].id
  <2>1. TAKE i \in DOMAIN answered[c]
  <2>2. answered[c][i].id \in 1..A /\ answered[c][i].id < A + 1  BY <1>8, <1>9 DEF AnswerOK
  <2>3. answered[c][i].id \in DOMAIN asked'[c] /\ asked'[c][answered[c][i].id] = asked[c][answered[c][i].id]
    BY <1>9, <2>2
  <2> QED  BY <1>1, <1>8, <2>2, <2>3 DEF AnswerOK
<1>11. ASSUME Connected(c)', NEW i \in DOMAIN asked'[c], asked'[c][i].type = "SEND_TRACE"
       PROVE  \/ \E b \in DOMAIN in'[c] : in'[c][b].id = i
              \/ \E a \in DOMAIN answered[c] : answered[c][a].id = i
  <2>1. CASE i = A + 1  BY <1>1, <2>1
  <2>2. CASE i \in 1..A
    <3>1. \/ \E b \in DOMAIN in[c] : in[c][b].id = i
          \/ \E a \in DOMAIN answered[c] : answered[c][a].id = i
      BY <1>3, <1>8, <1>9, <1>11, <2>2 DEF AnswerOK
    <3> QED  BY <1>1, <3>1
  <2> QED  BY <1>9, <2>1, <2>2
<1>12. phase'[c] # "new"  BY <1>3, <1>4, <1>5 DEF Connected, ClientTypeOK
<1>13. AnswerOK(c)'  BY <1>3, <1>8, <1>10, <1>11, <1>12 DEF AnswerOK
<1> QED  BY <1>7, <1>13 DEF AnswerInv

LEMMA AnswerStep == StreamInv /\ AnswerInv /\ [Next]_vars => AnswerInv'
<1>1. SUFFICES ASSUME StreamInv, AnswerInv, [Next]_vars PROVE AnswerInv'  OBVIOUS
<1>2. DaemonTypeOK /\ ClientTypeOK /\ WorldTypeOK /\ SocketTypeOK  BY <1>1 DEF StreamInv, TypeOK
<1>3. ASSUME UNCHANGED <<in, asked, answered>>,
             \A c \in Client : (Connected(c)' => Connected(c)) /\ (phase'[c] = "new" => phase[c] = "new")
      PROVE  AnswerInv'
  BY <1>1, <1>3, AnswerSame DEF AnswerInv
<1>4. ASSUME UNCHANGED <<in, asked, answered, phase, cur, queue>> PROVE AnswerInv'
  BY <1>3, <1>4 DEF Connected
<1>5. CASE \E c \in Client : Handler(c)
  <2>1. PICK c \in Client : Handler(c)  BY <1>5
  <2>2. CASE HandlerFails(c) \/ ConnectionReset(c)
    BY <1>1, <2>2, EndAnswers DEF HandlerFails, ConnectionReset
  <2>3. CASE Reconnect(c)
    BY <1>3, <2>3, SessionAssumption DEF Reconnect, Connected
  <2>4. CASE SendTrace(c)
    <3>1. "SEND_TRACE" \in RequestType /\ {} \in SUBSET Nat  BY DEF RequestType
    <3> QED  BY <1>1, <2>4, <3>1, AnswerServe DEF SendTrace
  <2>5. CASE SendLogs(c)
    <3>1. "SEND_LOGS" \in RequestType  BY DEF RequestType
    <3>2. First(c) \in Request  BY <1>1, <2>5, <3>1, OneRequest DEF SendLogs, Serve
    <3>3. LogText(c) \in SUBSET Nat
      BY <1>2, <3>2, RequestFacts, SessionAssumption DEF LogText, WorldTypeOK
    <3> QED  BY <1>1, <2>5, <3>1, <3>3, AnswerServe DEF SendLogs
  <2>6. CASE GetConfigs(c)
    <3>1. "GET_CONFIGS" \in RequestType  BY DEF RequestType
    <3> QED  BY <1>1, <2>6, <3>1, AnswerServe DEF GetConfigs
  <2>7. CASE Unrecognized(c)
    <3>1. "unknown" \in RequestType  BY DEF RequestType
    <3> QED  BY <1>1, <2>7, <3>1, AnswerServe DEF Unrecognized
  <2>8. CASE ReceiveRun(c)
    <3>1. "RUN_CONTAINER" \in RequestType  BY DEF RequestType
    <3> QED  BY <1>1, <2>8, <3>1, AnswerServe DEF ReceiveRun
  <2> QED  BY <2>1, <2>2, <2>3, <2>4, <2>5, <2>6, <2>7, <2>8 DEF Handler
<1>6. CASE OpenLog \/ LookUp \/ Clone  BY <1>4, <1>6 DEF OpenLog, LookUp, Clone
<1>7. CASE CloneThenEnd
  BY <1>1, <1>7, AnswerEnds DEF CloneThenEnd, Forget
<1>8. CASE RunFails \/ AcceptFails \/ Kill
  BY <1>1, <1>8, EndAnswers DEF RunFails, AcceptFails, Kill
<1>9. CASE Start
  <2>1. \A c \in Client : ~Connected(c)'
    BY <1>2, <1>9, SessionAssumption DEF Start, Bind, Connected, DaemonTypeOK
  <2> QED  BY <1>3, <1>9, <2>1 DEF Start
<1>10. CASE Accept
  <2>1. \A i \in DOMAIN queue' : i + 1 \in DOMAIN queue /\ queue'[i] = queue[i + 1]
    BY <1>2, <1>10 DEF Accept, AcceptFirst, SocketTypeOK
  <2>2. 1 \in DOMAIN queue /\ cur' = queue[1]
    BY <1>2, <1>10 DEF Accept, AcceptFirst, SocketTypeOK
  <2>3. \A c \in Client : Connected(c)' => Connected(c)
    BY <1>10, <2>1, <2>2 DEF Accept, Connected
  <2> QED  BY <1>3, <1>10, <2>3 DEF Accept
<1>11. CASE StartFails  BY <1>4, <1>11 DEF StartFails
<1>12. CASE \E c \in Client : ClientStep(c)
  <2>1. PICK c \in Client : ClientStep(c)  BY <1>12
  <2>2. CASE Connect(c)
    <3>1. \A d \in Client \ {c} : Connected(d)' => Connected(d)
      <4>1. queue' = Append(queue, c) /\ UNCHANGED cur /\ \A d \in Client \ {c} : phase'[d] = phase[d]
        BY <1>2, <2>2 DEF Connect, QueueClient, ClientTypeOK
      <4>2. \A i \in DOMAIN queue' : queue'[i] = c \/ (i \in DOMAIN queue /\ queue'[i] = queue[i])
        BY <1>2, <4>1 DEF SocketTypeOK
      <4> QED  BY <4>1, <4>2 DEF Connected
    <3>2. \A d \in Client : phase'[d] = "new" => phase[d] = "new"
      BY <1>2, <2>2 DEF Connect, ClientTypeOK
    <3>3. \A d \in Client \ {c} : AnswerOK(d)'
      BY <1>1, <2>2, <3>1, <3>2, AnswerSame DEF Connect, AnswerInv
    <3>4. asked[c] = <<>> /\ asked' = asked /\ answered' = answered /\ in' = in /\ phase'[c] = "open"
      BY <1>1, <1>2, <2>2 DEF Connect, AnswerInv, AnswerOK, ClientTypeOK
    <3>5. AnswerOK(c)'  BY <1>1, <3>4 DEF AnswerInv, AnswerOK
    <3> QED  BY <3>3, <3>5 DEF AnswerInv
  <2>3. CASE Close(c)
    <3>1. \A d \in Client : (Connected(d)' => Connected(d)) /\ (phase'[d] = "new" => phase[d] = "new")
      BY <1>2, <2>3 DEF Close, Connected, ClientTypeOK
    <3> QED  BY <1>3, <2>3, <3>1 DEF Close
  <2>4. CASE \E r \in Asks[c] : Send(c, r) \/ \E n \in 2..4 : SendCut(c, r, n)
    <3>1. PICK r \in Asks[c] : Send(c, r) \/ \E n \in 2..4 : SendCut(c, r, n)  BY <2>4
    <3>2. r \in Request  BY SessionAssumption
    <3> QED  BY <1>1, <3>1, <3>2, AnswerSends
  <2> QED  BY <2>1, <2>2, <2>3, <2>4 DEF ClientStep
<1>13. CASE \E k \in Living : Write(k)  BY <1>4, <1>13 DEF Write
<1>14. CASE \E k \in Living : Exit(k)
  <2>1. PICK k \in Living : Exit(k)  BY <1>14
  <2>2. queue' \in {queue, <<>>} /\ in' = StreamsOf(queue', cur) /\ UNCHANGED <<phase, asked, answered, cur>>
    BY <2>1 DEF Exit, Leave, QueueAfter
  <2> QED  BY <1>1, <2>2, AnswerEnds
<1>15. CASE UNCHANGED vars  BY <1>4, <1>15
<1> QED
  BY <1>1, <1>5, <1>6, <1>7, <1>8, <1>9, <1>10, <1>11, <1>12, <1>13, <1>14, <1>15
  DEF Next, DaemonStep, RunStep

\* A client is sent the answers to its own requests, in their order, each once,
\* and no trace is left out between them.
THEOREM OwnAnswers == Spec => []AnswersOwn
<1>1. Init => AnswerInv
  BY SessionAssumption DEF Init, SocketInit, AnswerInv, AnswerOK
<1>2. AnswerInv => AnswersOwn
  BY DEF AnswerInv, AnswerOK, AnswersOwn, Connected
<1> QED  BY <1>1, <1>2, AnswerStep, Streams, PTL DEF Spec, Safety

-----------------------------------------------------------------------------
(* The logs of the containers *)

\* A file holds what containers of its name wrote, and so does an answer.
LogInv ==
  /\ \A f \in File : \A k \in text[f] : launches[k].name = f
  /\ \A c \in Client : \A i \in DOMAIN answered[c] :
       /\ answered[c][i].text \subseteq 1..Len(launches)
       /\ \A k \in answered[c][i].text :
            launches[k].name = LogName[asked[c][answered[c][i].id].name]

\* Files are emptied, containers launched and requests sent, no more.
LEMMA LogSame ==
  ASSUME TypeOK, AnswerInv, LogInv, UNCHANGED answered,
         \A f \in File : text'[f] \subseteq text[f],
         Len(launches) <= Len(launches'), Len(launches') \in Nat,
         \A k \in 1..Len(launches) : launches'[k] = launches[k],
         \A c \in Client : \A i \in DOMAIN asked[c] : asked'[c][i] = asked[c][i]
  PROVE  LogInv'
<1>1. WorldTypeOK /\ Len(launches) \in Nat  BY DEF TypeOK, WorldTypeOK
<1>2. \A f \in File : \A k \in text'[f] : launches'[k].name = f
  <2>1. \A f \in File : text[f] \subseteq 1..Len(launches)  BY <1>1 DEF WorldTypeOK
  <2> QED  BY <2>1 DEF LogInv
<1>3. 1..Len(launches) \subseteq 1..Len(launches')  BY <1>1
<1>4. \A c \in Client : \A i \in DOMAIN answered[c] :
        asked'[c][answered[c][i].id] = asked[c][answered[c][i].id]
  BY DEF AnswerInv, AnswerOK
<1> QED  BY <1>2, <1>3, <1>4 DEF LogInv

LEMMA LogAnswered ==
  ASSUME StreamInv, AnswerInv, LogInv, NEW c \in Client, NEW t \in RequestType, Serve(c, t),
         UNCHANGED <<launches, text, asked>>, NEW T \in SUBSET (1..Len(launches)),
         \A k \in T : launches[k].name = LogName[First(c).name],
         Answered(c, Head(in[c]).id, T)
  PROVE  LogInv'
<1>0. ClientTypeOK  BY DEF StreamInv, TypeOK
<1>1. First(c) = asked[c][Head(in[c]).id]  BY DEF First
<1>2. answered'[c] = Append(answered[c], [id |-> Head(in[c]).id, text |-> T])
      /\ \A d \in Client \ {c} : answered'[d] = answered[d]
  BY <1>0 DEF Answered, ClientTypeOK
<1>3. \A i \in DOMAIN answered'[c] :
        \/ i \in DOMAIN answered[c] /\ answered'[c][i] = answered[c][i]
        \/ answered'[c][i].id = Head(in[c]).id /\ answered'[c][i].text = T
  BY <1>0, <1>2, Elements
<1>4. \A i \in DOMAIN answered'[c] :
       /\ answered'[c][i].text \subseteq 1..Len(launches)
       /\ \A k \in answered'[c][i].text :
            launches[k].name = LogName[asked[c][answered'[c][i].id].name]
  <2>1. TAKE i \in DOMAIN answered'[c]
  <2>2. CASE i \in DOMAIN answered[c] /\ answered'[c][i] = answered[c][i]  BY <2>2 DEF LogInv
  <2>3. CASE answered'[c][i].id = Head(in[c]).id /\ answered'[c][i].text = T
    <3>1. asked[c][answered'[c][i].id] = First(c)  BY <1>1, <2>3
    <3>2. LogName[asked[c][answered'[c][i].id].name] = LogName[First(c).name]  BY <3>1
    <3>3. \A k \in T : launches[k].name = LogName[asked[c][answered'[c][i].id].name]  BY <3>2
    <3>4. T \subseteq 1..Len(launches) /\ answered'[c][i].text = T  BY <2>3
    <3> QED  BY <3>3, <3>4, Zenon
  <2> QED  BY <1>3, <2>2, <2>3
<1>5. \A f \in File : \A k \in text'[f] : launches'[k].name = f  BY DEF LogInv
<1>6. ASSUME NEW d \in Client, NEW i \in DOMAIN answered'[d]
      PROVE  /\ answered'[d][i].text \subseteq 1..Len(launches')
             /\ \A k \in answered'[d][i].text :
                  launches'[k].name = LogName[asked'[d][answered'[d][i].id].name]
  <2>1. CASE d = c  BY <1>4, <1>6, <2>1
  <2>2. CASE d # c  BY <1>2, <1>6, <2>2 DEF LogInv
  <2> QED  BY <2>1, <2>2
<1> QED  BY <1>5, <1>6 DEF LogInv

LEMMA LogStep == StreamInv /\ AnswerInv /\ LogInv /\ [Next]_vars => LogInv'
<1>1. SUFFICES ASSUME StreamInv, AnswerInv, LogInv, [Next]_vars PROVE LogInv'  OBVIOUS
<1>2. TypeOK /\ DaemonTypeOK /\ ClientTypeOK /\ WorldTypeOK /\ SocketTypeOK
  BY <1>1 DEF StreamInv, TypeOK
<1>3. Len(launches) \in Nat  BY <1>2 DEF WorldTypeOK
<1>4. ASSUME UNCHANGED <<answered, asked, text, launches>> PROVE LogInv'
  BY <1>1, <1>4 DEF LogInv
<1>5. End => LogInv'  BY <1>4 DEF End
<1>6. CASE \E c \in Client : Handler(c)
  <2>1. PICK c \in Client : Handler(c)  BY <1>6
  <2>2. CASE HandlerFails(c) \/ ConnectionReset(c)
    BY <1>5, <2>2 DEF HandlerFails, ConnectionReset
  <2>3. CASE Reconnect(c) \/ GetConfigs(c) \/ Unrecognized(c) \/ ReceiveRun(c)
    BY <1>4, <2>3 DEF Reconnect, GetConfigs, Unrecognized, ReceiveRun
  <2>4. CASE SendTrace(c)
    <3>1. CASE UNCHANGED answered  BY <1>4, <2>4, <3>1 DEF SendTrace
    <3>2. CASE Answered(c, Head(in[c]).id, {})
      <4>1. "SEND_TRACE" \in RequestType  BY DEF RequestType
      <4>2. {} \in SUBSET (1..Len(launches))
            /\ \A k \in {} : launches[k].name = LogName[First(c).name]
        OBVIOUS
      <4>3. UNCHANGED <<launches, text, asked>> /\ Serve(c, "SEND_TRACE")  BY <2>4 DEF SendTrace
      <4> QED  BY <1>1, <3>2, <4>1, <4>2, <4>3, LogAnswered
    <3> QED  BY <2>4, <3>1, <3>2 DEF SendTrace
  <2>5. CASE SendLogs(c)
    <3>1. CASE UNCHANGED answered  BY <1>4, <2>5, <3>1 DEF SendLogs
    <3>2. CASE Answered(c, Head(in[c]).id, LogText(c))
      <4>1. "SEND_LOGS" \in RequestType  BY DEF RequestType
      <4>2. First(c) \in Request  BY <1>1, <2>5, <4>1, OneRequest DEF SendLogs, Serve
      <4>3. LogName[First(c).name] \in File  BY <4>2, RequestFacts, SessionAssumption
      <4>4. LogText(c) \in SUBSET (1..Len(launches))  BY <1>2, <4>3 DEF LogText, WorldTypeOK
      <4>5. \A k \in LogText(c) : launches[k].name = LogName[First(c).name]
        BY <1>1, <4>3 DEF LogText, LogInv
      <4>6. UNCHANGED <<launches, text, asked>> /\ Serve(c, "SEND_LOGS")  BY <2>5 DEF SendLogs
      <4> QED  BY <1>1, <3>2, <4>1, <4>4, <4>5, <4>6, LogAnswered
    <3> QED  BY <2>5, <3>1, <3>2 DEF SendLogs
  <2> QED  BY <2>1, <2>2, <2>3, <2>4, <2>5 DEF Handler
<1>7. CASE OpenLog
  <2>1. \A f \in File : text'[f] \subseteq text[f]
    BY <1>2, <1>7 DEF OpenLog, WorldTypeOK
  <2> QED  BY <1>1, <1>2, <1>3, <1>7, <2>1, LogSame DEF OpenLog
<1>8. CASE Clone \/ CloneThenEnd
  <2>1. job \in Request
    BY <1>2, <1>8, SessionAssumption DEF Clone, CloneThenEnd, DaemonTypeOK, Running
  <2>2. launches' = Append(launches, [name |-> job.name, ns |-> job.ns])
        /\ UNCHANGED <<answered, asked, text>>
    BY <1>8 DEF Clone, CloneThenEnd
  <2>3. /\ Len(launches) <= Len(launches') /\ Len(launches') \in Nat
        /\ \A k \in 1..Len(launches) : launches'[k] = launches[k]
    <3>1. launches \in Seq(Launched) /\ [name |-> job.name, ns |-> job.ns] \in Launched
      BY <1>2, <2>1, RequestFacts DEF WorldTypeOK, Launched
    <3> QED  BY <1>3, <2>2, <3>1, AppendProperties
  <2> QED  BY <1>1, <1>2, <2>2, <2>3, LogSame
<1>9. CASE LookUp \/ Accept \/ Start \/ StartFails
  BY <1>4, <1>9 DEF LookUp, Accept, Start, StartFails
<1>10. CASE RunFails \/ AcceptFails \/ Kill  BY <1>5, <1>10 DEF RunFails, AcceptFails, Kill
<1>11. CASE \E c \in Client : ClientStep(c)
  <2>1. PICK c \in Client : ClientStep(c)  BY <1>11
  <2>2. CASE Connect(c) \/ Close(c)  BY <1>4, <2>2 DEF Connect, Close
  <2>3. CASE \E r \in Asks[c] : Send(c, r) \/ \E n \in 2..4 : SendCut(c, r, n)
    <3>1. PICK r \in Asks[c] : Send(c, r) \/ \E n \in 2..4 : SendCut(c, r, n)  BY <2>3
    <3>2. r \in Request  BY SessionAssumption
    <3>3. asked'[c] = Append(asked[c], r) /\ \A d \in Client \ {c} : asked'[d] = asked[d]
      BY <1>1, <3>1, <3>2, SendStep, SendCutStep
    <3>4. \A d \in Client : \A i \in DOMAIN asked[d] : asked'[d][i] = asked[d][i]
      <4>1. \A i \in DOMAIN asked[c] : asked'[c][i] = asked[c][i]
        <5>1. asked[c] \in Seq(Request)  BY <1>2, Elements
        <5> QED  BY <3>2, <3>3, <5>1
      <4> QED  BY <3>3, <4>1
    <3>5. UNCHANGED <<answered, text, launches>>  BY <3>1 DEF Send, SendCut, Sends
    <3> QED  BY <1>1, <1>2, <1>3, <3>4, <3>5, LogSame
  <2> QED  BY <2>1, <2>2, <2>3 DEF ClientStep
<1>12. CASE \E k \in Living : Write(k)
  BY <1>1, <1>2, <1>12 DEF Write, LogInv, WorldTypeOK
<1>13. CASE \E k \in Living : Exit(k)  BY <1>4, <1>13 DEF Exit
<1>14. CASE UNCHANGED vars  BY <1>4, <1>14
<1> QED
  BY <1>1, <1>6, <1>7, <1>8, <1>9, <1>10, <1>11, <1>12, <1>13, <1>14
  DEF Next, DaemonStep, RunStep

\* The answer for the log of n is what containers named n.log wrote.
THEOREM Namesakes == Spec => []LogsFromNamesakes
<1>1. Init => AnswerInv /\ LogInv
  BY SessionAssumption DEF Init, SocketInit, AnswerInv, AnswerOK, LogInv
<1>2. LogInv => LogsFromNamesakes  BY DEF LogInv, LogsFromNamesakes
<1> QED  BY <1>1, <1>2, AnswerStep, LogStep, Streams, PTL DEF Spec, Safety

-----------------------------------------------------------------------------
(* Session implements LaunchOutcome *)

\* Nothing a daemon knew is left when it is gone.
OffInv == dpc = "off" => active = {}

LEMMA OffStep == OffInv /\ [Next]_vars => OffInv'
<1>1. SUFFICES ASSUME OffInv, [Next]_vars PROVE OffInv'  OBVIOUS
<1> USE DEF OffInv
<1>2. ASSUME UNCHANGED active, dpc' = "off" => dpc = "off" PROVE OffInv'
  BY <1>1, <1>2
<1>3. ASSUME End PROVE OffInv'  BY <1>3 DEF End, Forget
<1>4. CASE \E c \in Client : Handler(c)
  <2>1. PICK c \in Client : Handler(c)  BY <1>4
  <2>2. CASE HandlerFails(c) \/ ConnectionReset(c)
    BY <1>3, <2>2 DEF HandlerFails, ConnectionReset
  <2>3. CASE SendTrace(c) \/ SendLogs(c) \/ GetConfigs(c) \/ Unrecognized(c)
    BY <1>2, <2>3 DEF SendTrace, SendLogs, GetConfigs, Unrecognized
  <2>4. CASE ReceiveRun(c) \/ Reconnect(c)
    BY <1>2, <2>4 DEF ReceiveRun, Reconnect
  <2> QED  BY <2>1, <2>2, <2>3, <2>4 DEF Handler
<1>5. CASE OpenLog \/ LookUp \/ Clone \/ CloneThenEnd
  BY <1>1, <1>5 DEF OpenLog, LookUp, Clone, CloneThenEnd, Forget
<1>6. CASE RunFails \/ AcceptFails \/ Kill  BY <1>3, <1>6 DEF RunFails, AcceptFails, Kill
<1>7. CASE Start \/ Accept \/ StartFails  BY <1>2, <1>7 DEF Start, Accept, StartFails
<1>8. CASE \E c \in Client : ClientStep(c)
  BY <1>2, <1>8 DEF ClientStep, Connect, Close, Send, SendCut, Sends
<1>9. CASE \E k \in Living : Write(k) \/ Exit(k)  BY <1>2, <1>9 DEF Write, Exit
<1>10. CASE UNCHANGED vars  BY <1>2, <1>10
<1> QED
  BY <1>1, <1>4, <1>5, <1>6, <1>7, <1>8, <1>9, <1>10 DEF Next, DaemonStep, RunStep

\* The namespaces of the containers launched.
GroupOf == [k \in 1..Len(launches) |-> launches[k].ns]

LEMMA OutcomeSame ==
  ASSUME UNCHANGED <<launches, active>>, dpc # "off" <=> dpc' # "off", Living' = Living
  PROVE  UNCHANGED Outcome!vars
<1>1. (dpc # "off")' = (dpc # "off")  OBVIOUS
<1> QED  BY <1>1 DEF Outcome!vars

LEMMA EndIsEnd ==
  ASSUME dpc # "off", End
  PROVE  Outcome!Next
<1>1. Living' = Living
  BY DEF End, Leave, HoldersAfter, Living
<1>2. dpc' = "off" /\ active' = {} /\ UNCHANGED launches
  BY DEF End, Forget
<1>3. Outcome!End  BY <1>1, <1>2 DEF Outcome!End
<1> QED  BY <1>3 DEF Outcome!Next

\* A clone adds one container, the last, and changes nothing of the others.
LEMMA CloneIsLaunched ==
  ASSUME StreamInv, dpc = "clone", NEW k, k = Child,
         launches' = Append(launches, [name |-> job.name, ns |-> job.ns]),
         holders' \ {0} = Living \cup {k}
  PROVE  Outcome!Launched(k) /\ k \in DOMAIN GroupOf' /\ GroupOf'[k] = job.ns
<1>1. /\ launches \in Seq(Launched) /\ Len(launches) \in Nat /\ k = Len(launches) + 1
      /\ job \in Request
  BY SessionAssumption DEF StreamInv, TypeOK, WorldTypeOK, DaemonTypeOK, Child, Running
<1>2. [name |-> job.name, ns |-> job.ns] \in Launched
  BY <1>1, RequestFacts DEF Launched
<1>3. /\ Len(launches') = k /\ launches'[k].ns = job.ns
      /\ \A d \in 1..Len(launches) : launches'[d] = launches[d]
  BY <1>1, <1>2
<1>4. 1..Len(launches') = 1..Len(launches) \cup {k} /\ k \notin 1..Len(launches)
  BY <1>1, <1>3
<1>5. GroupOf'[k] = job.ns /\ k \in DOMAIN GroupOf'
  BY <1>3, <1>4 DEF GroupOf
<1>6. GroupOf' = [d \in DOMAIN GroupOf \cup {k} |->
                   IF d = k THEN GroupOf'[k] ELSE GroupOf[d]]
  BY <1>3, <1>4 DEF GroupOf
<1>7. Living' = Living \cup {k}  BY DEF Living
<1>8. k \notin DOMAIN GroupOf  BY <1>4 DEF GroupOf
<1>9. Outcome!Launched(k)
  BY <1>6, <1>7, <1>8 DEF Outcome!Launched, GroupOf
<1> QED  BY <1>5, <1>9

LEMMA CloneIsSucceed ==
  ASSUME StreamInv, Clone
  PROVE  Outcome!Next
<1>1. /\ dpc = "clone" /\ dpc' = "request" /\ active' = active \cup job.ns
      /\ launches' = Append(launches, [name |-> job.name, ns |-> job.ns])
      /\ holders' = holders \cup {Child}
  BY DEF Clone
<1>2. PICK k \in Nat \ {0} : k = Child
  BY DEF StreamInv, TypeOK, WorldTypeOK, Child
<1>3. holders' \ {0} = Living \cup {k}  BY <1>1, <1>2 DEF Living
<1>4. Outcome!Launched(k) /\ k \in DOMAIN GroupOf' /\ GroupOf'[k] = job.ns
  BY <1>1, <1>2, <1>3, CloneIsLaunched
<1>5. Outcome!Succeed(k)  BY <1>1, <1>4 DEF Outcome!Succeed, GroupOf
<1> QED  BY <1>4, <1>5 DEF Outcome!Next, GroupOf

LEMMA CloneThenEndIsAbandon ==
  ASSUME StreamInv, CloneThenEnd
  PROVE  Outcome!Next
<1>1. /\ dpc = "clone" /\ dpc' = "off" /\ active' = {}
      /\ launches' = Append(launches, [name |-> job.name, ns |-> job.ns])
      /\ holders' = (holders \cup {Child}) \ {0}
  BY DEF CloneThenEnd, Forget
<1>2. PICK k \in Nat \ {0} : k = Child
  BY DEF StreamInv, TypeOK, WorldTypeOK, Child
<1>3. holders' \ {0} = Living \cup {k}  BY <1>1, <1>2 DEF Living
<1>4. Outcome!Launched(k) /\ k \in DOMAIN GroupOf'
  BY <1>1, <1>2, <1>3, CloneIsLaunched
<1>5. Outcome!Abandon(k)  BY <1>1, <1>4 DEF Outcome!Abandon, GroupOf
<1> QED  BY <1>4, <1>5 DEF Outcome!Next, GroupOf

\* The listening socket says that no container is alive when a daemon starts.
LEMMA StartIsStart ==
  ASSUME OffInv, Start
  PROVE  Outcome!Next
<1>1. /\ dpc = "off" /\ dpc' # "off" /\ active' = {} /\ UNCHANGED launches
      /\ Living = {} /\ Living' = {}
  BY DEF OffInv, Start, Bind, Living
<1>2. Outcome!Start  BY <1>1 DEF Outcome!Start
<1> QED  BY <1>2 DEF Outcome!Next

LEMMA ExitIsExit ==
  ASSUME NEW k \in Living, Exit(k)
  PROVE  Outcome!Next
<1>1. UNCHANGED <<dpc, active, launches>> /\ Living' = Living \ {k}
  BY DEF Exit, Leave, HoldersAfter, Living
<1>2. Outcome!Exit(k)  BY <1>1 DEF Outcome!Exit
<1> QED  BY <1>2 DEF Outcome!Next

\* To the namespaces and the containers, whatever clients ask for and however
\* often the daemon ends and starts, requests are launches that come to one of
\* the outcomes of LaunchOutcome, and every start finds no container alive.
THEOREM ImplementsOutcome == Spec => OutcomeSpec
<1>1. Init => PortInv /\ OffInv /\ Outcome!Init
  <2>1. SUFFICES ASSUME Init PROVE Outcome!Init
    BY DEF Init, SocketInit, PortInv, LivingAreKnown, OffInv
  <2>2. Len(launches) = 0 /\ Living = {} /\ active = {}
    BY <2>1 DEF Init, SocketInit, Living
  <2>3. GroupOf = [k \in {} |-> {}]  BY <2>2 DEF GroupOf
  <2> QED  BY <2>2, <2>3 DEF Outcome!Init, GroupOf
<1>2. StreamInv /\ PortInv /\ OffInv /\ [Next]_vars => [Outcome!Next]_(Outcome!vars)
  <2>1. SUFFICES ASSUME StreamInv, PortInv, OffInv, [Next]_vars
                 PROVE  Outcome!Next \/ UNCHANGED Outcome!vars
    OBVIOUS
  <2>2. CASE \E c \in Client : Handler(c)
    <3>1. PICK c \in Client : Handler(c)  BY <2>2
    <3>2. CASE HandlerFails(c) \/ ConnectionReset(c)
      BY <3>2, EndIsEnd DEF HandlerFails, ConnectionReset, Serve
    <3>3. CASE SendTrace(c) \/ SendLogs(c) \/ GetConfigs(c) \/ Unrecognized(c)
      BY <3>3, OutcomeSame DEF SendTrace, SendLogs, GetConfigs, Unrecognized, Living
    <3>4. CASE ReceiveRun(c) \/ Reconnect(c)
      BY <3>4, OutcomeSame DEF ReceiveRun, Serve, Reconnect, Living
    <3> QED  BY <3>1, <3>2, <3>3, <3>4 DEF Handler
  <2>3. CASE OpenLog \/ LookUp \/ Accept \/ StartFails
    BY <2>3, OutcomeSame DEF OpenLog, LookUp, Accept, StartFails, Living
  <2>4. CASE Clone  BY <2>1, <2>4, CloneIsSucceed
  <2>5. CASE CloneThenEnd  BY <2>1, <2>5, CloneThenEndIsAbandon
  <2>6. CASE RunFails \/ AcceptFails \/ Kill
    BY <2>6, EndIsEnd DEF RunFails, AcceptFails, Kill
  <2>7. CASE Start  BY <2>1, <2>7, StartIsStart
  <2>8. CASE \E c \in Client : ClientStep(c)
    BY <2>8, OutcomeSame DEF ClientStep, Connect, Close, Send, SendCut, Sends, Living
  <2>9. CASE \E k \in Living : Write(k)
    BY <2>9, OutcomeSame DEF Write, Living
  <2>10. CASE \E k \in Living : Exit(k)  BY <2>10, ExitIsExit
  <2>11. CASE UNCHANGED vars  BY <2>11, OutcomeSame DEF Living
  <2> QED
    BY <2>1, <2>2, <2>3, <2>4, <2>5, <2>6, <2>7, <2>8, <2>9, <2>10, <2>11
    DEF Next, DaemonStep, RunStep
<1> QED
  BY <1>1, <1>2, PortStep, OffStep, Streams, PTL
  DEF Spec, Safety, OutcomeSpec, Outcome!Spec

-----------------------------------------------------------------------------
(* Session implements ConfigOutcome *)

LEMMA LoadedSame ==
  ASSUME UNCHANGED <<declared, active>>, dpc # "off" <=> dpc' # "off"
  PROVE  UNCHANGED Loaded!vars
<1>1. (dpc # "off")' = (dpc # "off")  OBVIOUS
<1> QED  BY <1>1 DEF Loaded!vars

LEMMA ForgetIsEnd ==
  ASSUME dpc # "off", Forget
  PROVE  Loaded!Next
BY DEF Forget, Loaded!Next, Loaded!End

\* What the next request on the stream of the client is.
LEMMA ServedRequest ==
  ASSUME StreamInv, NEW c \in Client, NEW t \in RequestType, Serve(c, t)
  PROVE  First(c) \in Request
<1>1. /\ StreamOK(c) /\ in[c] \in Seq(Block) /\ asked[c] \in Seq(Request)
      /\ in[c] # <<>> /\ Head(in[c]).part = 0
  BY DEF StreamInv, TypeOK, ClientTypeOK, Serve, TypeIs
<1>2. 1 \in DOMAIN in[c] /\ Head(in[c]) = in[c][1]  BY <1>1
<1>3. Head(in[c]).id \in DOMAIN asked[c]  BY <1>1, <1>2 DEF StreamOK
<1> QED  BY <1>1, <1>3 DEF First

LEMMA GetConfigsIsLoad ==
  ASSUME StreamInv, NEW c \in Client, GetConfigs(c)
  PROVE  Loaded!Next
<1>1. PICK S \in SUBSET First(c).ns : declared' = declared \cup S  BY DEF GetConfigs
<1>2. First(c) \in Request
  BY ServedRequest DEF GetConfigs, RequestType
<1>3. S \in Declarable  BY <1>1, <1>2 DEF Declarable
<1>4. dpc # "off" /\ (dpc # "off")' = (dpc # "off") /\ UNCHANGED active
  BY DEF GetConfigs, Serve
<1>5. Loaded!Load(S)  BY <1>1, <1>4 DEF Loaded!Load
<1> QED  BY <1>3, <1>5 DEF Loaded!Next

\* A configuration is all there for what follows it, a container has no namespace
\* that was not declared to the daemon that launched it, and what one daemon was
\* told is nothing to the next (daemon.cpp:217, 258).
THEOREM ImplementsConfig == Spec => ConfigSpec
<1>1. Init => Loaded!Init  BY DEF Init, Loaded!Init
<1>2. StreamInv /\ [Next]_vars => [Loaded!Next]_(Loaded!vars)
  <2>1. SUFFICES ASSUME StreamInv, [Next]_vars
                 PROVE  Loaded!Next \/ UNCHANGED Loaded!vars
    OBVIOUS
  <2>2. CASE \E c \in Client : Handler(c)
    <3>1. PICK c \in Client : Handler(c)  BY <2>2
    <3>2. CASE HandlerFails(c) \/ ConnectionReset(c)
      BY <3>2, ForgetIsEnd DEF HandlerFails, ConnectionReset, Serve, End
    <3>3. CASE SendTrace(c) \/ SendLogs(c) \/ Unrecognized(c)
      BY <3>3, LoadedSame DEF SendTrace, SendLogs, Unrecognized
    <3>4. CASE ReceiveRun(c) \/ Reconnect(c)
      BY <3>4, LoadedSame DEF ReceiveRun, Serve, Reconnect
    <3>5. CASE GetConfigs(c)  BY <2>1, <3>5, GetConfigsIsLoad
    <3> QED  BY <3>1, <3>2, <3>3, <3>4, <3>5 DEF Handler
  <2>3. CASE OpenLog \/ LookUp \/ Accept \/ StartFails
    BY <2>3, LoadedSame DEF OpenLog, LookUp, Accept, StartFails
  <2>4. CASE Clone
    <3>1. job.ns \in SUBSET declared  BY <2>1, <2>4 DEF Clone, StreamInv, TypeOK, DaemonTypeOK
    <3>2. dpc # "off" /\ (dpc # "off")' = (dpc # "off") /\ active' = active \cup job.ns
      BY <2>4 DEF Clone
    <3>3. Loaded!Use(job.ns)  BY <2>4, <3>2 DEF Clone, Loaded!Use
    <3> QED  BY <3>1, <3>3 DEF Loaded!Next
  <2>5. CASE CloneThenEnd  BY <2>5, ForgetIsEnd DEF CloneThenEnd
  <2>6. CASE RunFails \/ AcceptFails \/ Kill
    BY <2>6, ForgetIsEnd DEF RunFails, AcceptFails, Kill, End
  <2>7. CASE Start
    BY <2>7 DEF Start, Loaded!Next, Loaded!Start
  <2>8. CASE \E c \in Client : ClientStep(c)
    BY <2>8, LoadedSame DEF ClientStep, Connect, Close, Send, SendCut, Sends
  <2>9. CASE \E k \in Living : Write(k) \/ Exit(k)
    BY <2>9, LoadedSame DEF Write, Exit
  <2>10. CASE UNCHANGED vars  BY <2>10, LoadedSame
  <2> QED
    BY <2>1, <2>2, <2>3, <2>4, <2>5, <2>6, <2>7, <2>8, <2>9, <2>10
    DEF Next, DaemonStep, RunStep
<1> QED
  BY <1>1, <1>2, Streams, PTL DEF Spec, Safety, ConfigSpec, Loaded!Spec

-----------------------------------------------------------------------------
(* The way to an answer *)

\* Steps of run_container, and one for the next request.
Stage == CASE dpc = "open" -> 4 [] dpc = "lookup" -> 3 [] dpc = "clone" -> 2 [] OTHER -> 1

\* Request i of the client that is served, for a trace, is still on its way, and
\* the daemon is at most n steps from it.
AnswerWithin(i, n) ==
  /\ Unanswered(i)
  /\ \E b \in DOMAIN in[cur] : in[cur][b].id = i /\ 4 * (b - 1) + Stage <= n

\* A handler takes the blocks of its request, and none of those that follow, from
\* the stream of a client that is there.
LEMMA HandlerShifts ==
  ASSUME StreamInv, NEW c \in Client, NEW t \in RequestType, Serve(c, t), Received(c, t),
         phase[c] = "open", NEW b \in DOMAIN in[c], b > FieldCount(t) + 1
  PROVE  /\ b - FieldCount(t) - 1 \in DOMAIN in'[c]
         /\ in'[c][b - FieldCount(t) - 1] = in[c][b]
<1> DEFINE k == FieldCount(t)
<1>1. ClientTypeOK /\ StreamOK(c) /\ k \in 0..3 /\ in[c] \in Seq(Block)
  BY CountIsSent, Elements DEF StreamInv, TypeOK
<1>2. ~CutShort(c, k)
  BY <1>1 DEF CutShort, StreamOK
<1>3. in'[c] = SubSeq(in[c], k + 2, Len(in[c])) /\ k < Len(in[c])
  BY <1>1, <1>2 DEF Serve, Whole, Received, Receive, ClientTypeOK
<1>4. /\ DOMAIN in'[c] = 1..(Len(in[c]) - k - 1)
      /\ \A i \in DOMAIN in'[c] : in'[c][i] = in[c][i + k + 1]
  <2>1. k \in Nat /\ k < Len(in[c]) /\ in'[c] = SubSeq(in[c], k + 2, Len(in[c]))
    BY <1>1, <1>3
  <2> HIDE DEF k
  <2>2. in[c] \in Seq(Block)  BY <1>1
  <2> QED  BY <2>1, <2>2, RestElements
<1>5. b \in 1..Len(in[c]) /\ Len(in[c]) \in Nat  BY <1>1
<1>6. b - k - 1 \in 1..(Len(in[c]) - k - 1) /\ (b - k - 1) + k + 1 = b
  BY <1>1, <1>5
<1> QED  BY <1>4, <1>6

\* When a handler has run, the request is nearer, or it was its turn.
LEMMA HandlerNearer ==
  ASSUME StreamInv, NEW i, NEW n \in Nat, AnswerWithin(i, n + 1),
         NEW c \in Client, NEW t \in RequestType, Serve(c, t), Received(c, t), cur' = c,
         t = "RUN_CONTAINER" \/ dpc' = "request", Unanswered(i)',
         t = "SEND_TRACE" => Answered(c, Head(in[c]).id, {})
  PROVE  AnswerWithin(i, n)'
<1>1. cur = c /\ dpc = "request" /\ TypeIs(c, t)  BY DEF Serve
<1>2. ClientTypeOK /\ FieldCount(t) \in 0..3 /\ in[c] \in Seq(Block)
  BY CountIsSent, Elements DEF StreamInv, TypeOK
<1>3. PICK b \in DOMAIN in[c] : in[c][b].id = i /\ 4 * (b - 1) + 1 <= n + 1
  BY <1>1 DEF AnswerWithin, Stage
<1>4. b \in Nat \ {0}  BY <1>2, <1>3
<1>5. phase[c] = "open" /\ asked[c][i].type = "SEND_TRACE"
  BY <1>1 DEF AnswerWithin, Unanswered
<1>6. b > FieldCount(t) + 1
  <2>1. SUFFICES ASSUME b <= FieldCount(t) + 1 PROVE FALSE  BY <1>2, <1>4
  <2>2. in[c][1].id = i /\ First(c) = asked[c][i] /\ First(c).type = t /\ Head(in[c]).id = i
    BY <1>1, <1>3, <2>1, OneRequest DEF First
  <2>3. t = "SEND_TRACE" /\ Answered(c, i, {})  BY <1>5, <2>2
  <2>4. answered[c] \in Seq(Answer) /\ i \in Nat /\ answered \in [Client -> Seq(Answer)]
    BY <1>2, <1>3, Elements DEF ClientTypeOK, Block
  <2>5. [id |-> i, text |-> {}] \in Answer  BY <2>4 DEF Answer
  <2>6. answered'[c] = Append(answered[c], [id |-> i, text |-> {}])
    BY <2>3, <2>4 DEF Answered
  <2>7. Len(answered[c]) + 1 \in DOMAIN answered'[c]
        /\ answered'[c][Len(answered[c]) + 1].id = i
    BY <2>4, <2>5, <2>6
  <2> QED  BY <2>7 DEF Unanswered
<1> DEFINE a == b - FieldCount(t) - 1
<1>7. a \in DOMAIN in'[c] /\ in'[c][a].id = i
  BY <1>3, <1>5, <1>6, HandlerShifts
<1>8. 4 * (a - 1) + Stage' <= n
  <2>1. PICK s \in 1..4 : s = Stage'  BY DEF Stage
  <2>2. PICK k \in 0..3 : k = FieldCount(t)  BY <1>2
  <2>3. k = 3 \/ s = 1
    <3>1. t = "RUN_CONTAINER" => k = 3  BY <2>2 DEF FieldCount
    <3>2. dpc' = "request" => s = 1  BY <2>1 DEF Stage
    <3> QED  BY <3>1, <3>2
  <2>4. PICK x \in Int : x = a /\ x = b - k - 1  BY <1>4, <2>2
  <2> HIDE DEF a
  <2>5. 4 * (x - 1) + s <= n
    <3>1. b \in Nat /\ 4 * (b - 1) + 1 <= n + 1  BY <1>3, <1>4
    <3>2. 4 * (b - 1) <= n  BY <3>1
    <3>3. PICK y \in Int : y = 4 * (x - 1)  BY <2>4
    <3>4. CASE k = 3
      <4>1. y + 16 <= n  BY <2>4, <3>1, <3>2, <3>3, <3>4
      <4>2. y + s <= n  BY <4>1
      <4> QED  BY <3>3, <4>2
    <3>5. CASE s = 1
      <4>1. y + 4 <= n  BY <2>2, <2>4, <3>1, <3>2, <3>3
      <4>2. y + s <= n  BY <3>5, <4>1
      <4> QED  BY <3>3, <4>2
    <3> QED  BY <2>3, <3>4, <3>5
  <2> QED  BY <2>1, <2>4, <2>5
<1> QED  BY <1>7, <1>8 DEF AnswerWithin

\* No step but the daemon's own concerns the request, unless the client leaves.
LEMMA AnswerKept ==
  ASSUME StreamInv, NEW i, NEW n \in Nat, AnswerWithin(i, n), Unanswered(i)',
         UNCHANGED <<dpc, cur>>,
         \A b \in DOMAIN in[cur] : b \in DOMAIN in'[cur] /\ in'[cur][b] = in[cur][b]
  PROVE  AnswerWithin(i, n)'
BY DEF AnswerWithin, Stage

AnswerAdvances(i, n) ==
  AnswerWithin(i, n + 1) =>
    \/ ~Unanswered(i)'
    \/ AnswerWithin(i, n + 1)' /\ (DaemonStep => AnswerWithin(i, n)')

LEMMA DaemonNearer ==
  ASSUME StreamInv, NEW i, NEW n \in Nat, AnswerWithin(i, n + 1), DaemonStep, Unanswered(i)'
  PROVE  AnswerWithin(i, n)'
<1>1. cur \in Client /\ cur' # NoClient /\ phase[cur] = "open" /\ dpc \notin {"off", "accept"}
  BY DEF AnswerWithin, Unanswered, StreamInv, TypeOK, DaemonTypeOK
<1>2. ~End  BY <1>1 DEF End, Forget
<1>3. CASE \E c \in Client : Handler(c)
  <2>1. PICK c \in Client : Handler(c)  BY <1>3
  <2>2. CASE HandlerFails(c) \/ ConnectionReset(c)
    BY <1>2, <2>2 DEF HandlerFails, ConnectionReset
  <2>3. CASE Reconnect(c)
    BY <1>1, <2>3 DEF Reconnect
  <2>4. CASE SendTrace(c)
    <3>1. Answered(c, Head(in[c]).id, {})  BY <1>1, <2>4 DEF SendTrace, Serve
    <3> QED  BY <2>4, <3>1, HandlerNearer DEF SendTrace, Serve, RequestType
  <2>5. CASE SendLogs(c)
    BY <2>5, HandlerNearer DEF SendLogs, Serve, RequestType
  <2>6. CASE GetConfigs(c)
    BY <2>6, HandlerNearer DEF GetConfigs, Serve, RequestType
  <2>7. CASE Unrecognized(c)
    BY <2>7, HandlerNearer DEF Unrecognized, Serve, RequestType
  <2>8. CASE ReceiveRun(c)
    BY <2>8, HandlerNearer DEF ReceiveRun, Serve, RequestType
  <2> QED  BY <2>1, <2>2, <2>3, <2>4, <2>5, <2>6, <2>7, <2>8 DEF Handler
<1>4. CASE OpenLog \/ LookUp \/ Clone
  <2>1. /\ Stage \in 2..4 /\ Stage' = Stage - 1 /\ UNCHANGED <<cur, in>>
    BY <1>4 DEF OpenLog, LookUp, Clone, Stage
  <2>2. PICK b \in DOMAIN in[cur] : in[cur][b].id = i /\ 4 * (b - 1) + Stage <= n + 1
    BY DEF AnswerWithin
  <2>3. in[cur] \in Seq(Block)  BY <1>1, Elements DEF StreamInv, TypeOK
  <2>4. b \in Nat  BY <2>2, <2>3
  <2>5. 4 * (b - 1) + Stage' <= n  BY <2>1, <2>2, <2>4
  <2> QED  BY <2>1, <2>2, <2>5 DEF AnswerWithin
<1>5. CASE CloneThenEnd  BY <1>1, <1>5 DEF CloneThenEnd, Forget
<1>6. CASE RunFails \/ AcceptFails  BY <1>2, <1>6 DEF RunFails, AcceptFails
<1>7. CASE Accept  BY <1>1, <1>7 DEF Accept
<1> QED  BY <1>3, <1>4, <1>5, <1>6, <1>7 DEF DaemonStep, RunStep

LEMMA OthersLater ==
  ASSUME StreamInv, NEW i, NEW n \in Nat, AnswerWithin(i, n), [Next]_vars, ~DaemonStep,
         Unanswered(i)'
  PROVE  AnswerWithin(i, n)'
<1>1. cur \in Client /\ cur' # NoClient /\ phase[cur] = "open" /\ dpc \notin {"off", "accept"}
  BY DEF AnswerWithin, Unanswered, StreamInv, TypeOK, DaemonTypeOK
<1>2. ASSUME UNCHANGED <<dpc, cur>>, in'[cur] = in[cur] PROVE AnswerWithin(i, n)'
  BY <1>2, AnswerKept
<1>3. CASE Start \/ Kill  BY <1>1, <1>3 DEF Start, Kill, End, Forget
<1>4. CASE StartFails  BY <1>2, <1>4 DEF StartFails
<1>5. CASE \E c \in Client : ClientStep(c)
  <2>1. PICK c \in Client : ClientStep(c)  BY <1>5
  <2>2. CASE Connect(c) \/ Close(c)
    BY <1>2, <2>2 DEF Connect, Close
  <2>3. CASE \E r \in Asks[c] : Send(c, r) \/ \E m \in 2..4 : SendCut(c, r, m)
    <3>1. PICK r \in Asks[c] : Send(c, r) \/ \E m \in 2..4 : SendCut(c, r, m)  BY <2>3
    <3>2. r \in Request  BY SessionAssumption
    <3>3. /\ \A b \in DOMAIN in[c] : b \in DOMAIN in'[c] /\ in'[c][b] = in[c][b]
          /\ \A d \in Client \ {c} : in'[d] = in[d]
      BY <3>1, <3>2, SendStep, SendCutStep
    <3>4. UNCHANGED <<dpc, cur>>  BY <3>1 DEF Send, SendCut, Sends
    <3> QED  BY <1>1, <3>3, <3>4, AnswerKept
  <2> QED  BY <2>1, <2>2, <2>3 DEF ClientStep
<1>6. CASE \E k \in Living : Write(k)  BY <1>2, <1>6 DEF Write
<1>7. CASE \E k \in Living : Exit(k)
  <2>1. UNCHANGED <<dpc, cur>> /\ in'[cur] = in[cur]
    BY <1>1, <1>7 DEF Exit, StreamsOf
  <2> QED  BY <1>2, <2>1
<1>8. CASE UNCHANGED vars  BY <1>2, <1>8
<1> QED  BY <1>3, <1>4, <1>5, <1>6, <1>7, <1>8 DEF Next

\* A request for a trace that has no answer is on its way, and every step of the
\* daemon brings it nearer, or the client or the daemon leaves: no request that
\* was sent before it, none that is sent after it and no launch can put it off.
THEOREM AnswerNearer ==
  ASSUME NEW i, NEW n \in Nat
  PROVE  Spec => [][AnswerAdvances(i, n)]_vars
<1>1. ASSUME StreamInv, StreamInv', [Next]_vars, AnswerWithin(i, n + 1), Unanswered(i)'
      PROVE  AnswerWithin(i, n + 1)' /\ (DaemonStep => AnswerWithin(i, n)')
  <2>1. CASE DaemonStep
    <3>1. AnswerWithin(i, n)'  BY <1>1, <2>1, DaemonNearer
    <3>2. cur' \in Client  BY <1>1 DEF Unanswered, StreamInv, TypeOK, DaemonTypeOK
    <3>3. in'[cur'] \in Seq(Block)  BY <1>1, <3>2 DEF StreamInv, TypeOK, ClientTypeOK
    <3>4. PICK b \in DOMAIN in'[cur'] : in'[cur'][b].id = i /\ 4 * (b - 1) + Stage' <= n
      BY <3>1 DEF AnswerWithin
    <3>5. PICK x \in Int : x = 4 * (b - 1)  BY <3>3
    <3>6. PICK y \in 1..4 : y = Stage'  BY DEF Stage
    <3>7. 4 * (b - 1) + Stage' <= n + 1
      <4>1. x + y <= n  BY <3>4, <3>5, <3>6
      <4>2. x + y <= n + 1  BY <4>1
      <4> QED  BY <3>5, <3>6, <4>2
    <3> QED  BY <1>1, <3>1, <3>4, <3>7 DEF AnswerWithin
  <2>2. CASE ~DaemonStep
    <3>1. n + 1 \in Nat  OBVIOUS
    <3> QED  BY <1>1, <2>2, <3>1, OthersLater
  <2> QED  BY <2>1, <2>2
<1>2. StreamInv /\ StreamInv' /\ [Next]_vars => AnswerAdvances(i, n)
  BY <1>1 DEF AnswerAdvances
<1> QED  BY <1>2, Streams, PTL DEF Spec, Safety

\* There is a bound to begin with, and none is left at zero.
THEOREM AnswerBounded ==
  ASSUME NEW i
  PROVE  Spec => [](~AnswerWithin(i, 0) /\ (Unanswered(i) => AnswerWithin(i, 4 * Len(in[cur]))))
<1>1. StreamInv => ~AnswerWithin(i, 0)
  <2>1. SUFFICES ASSUME StreamInv, AnswerWithin(i, 0) PROVE FALSE  OBVIOUS
  <2>2. cur \in Client  BY <2>1 DEF AnswerWithin, Unanswered, StreamInv, TypeOK, DaemonTypeOK
  <2>3. in[cur] \in Seq(Block)  BY <2>1, <2>2, Elements DEF StreamInv, TypeOK
  <2>4. PICK b \in DOMAIN in[cur] : 4 * (b - 1) + Stage <= 0  BY <2>1 DEF AnswerWithin
  <2>5. b \in Nat \ {0} /\ Stage \in 1..4  BY <2>3 DEF Stage
  <2> QED  BY <2>4, <2>5
<1>2. StreamInv /\ AnswerInv => (Unanswered(i) => AnswerWithin(i, 4 * Len(in[cur])))
  <2>1. SUFFICES ASSUME StreamInv, AnswerInv, Unanswered(i)
                 PROVE  AnswerWithin(i, 4 * Len(in[cur]))
    OBVIOUS
  <2>2. cur \in Client  BY <2>1 DEF Unanswered, StreamInv, TypeOK, DaemonTypeOK
  <2>3. in[cur] \in Seq(Block)  BY <2>1, <2>2, Elements DEF StreamInv, TypeOK
  <2>4. PICK b \in DOMAIN in[cur] : in[cur][b].id = i
    BY <2>1, <2>2 DEF Unanswered, AnswerInv, AnswerOK, Connected
  <2>5. b \in 1..Len(in[cur]) /\ Len(in[cur]) \in Nat /\ Stage \in 1..4
    BY <2>3 DEF Stage
  <2>6. 4 * (b - 1) + Stage <= 4 * Len(in[cur])  BY <2>5
  <2> QED  BY <2>1, <2>4, <2>6 DEF AnswerWithin
<1>3. Init => AnswerInv
  BY SessionAssumption DEF Init, SocketInit, AnswerInv, AnswerOK
<1> QED  BY <1>1, <1>2, <1>3, AnswerStep, Streams, PTL DEF Spec, Safety

-----------------------------------------------------------------------------
(* The way to the next client *)

\* Whoever is served or waits has connected.
ConnectedInv ==
  /\ cur # NoClient => phase[cur] # "new"
  /\ \A i \in DOMAIN queue : phase[queue[i]] # "new"

LEMMA ConnectedStep == StreamInv /\ ConnectedInv /\ [Next]_vars => ConnectedInv'
<1>1. SUFFICES ASSUME StreamInv, ConnectedInv, [Next]_vars PROVE ConnectedInv'  OBVIOUS
<1> USE DEF ConnectedInv
<1>2. /\ ClientTypeOK /\ queue \in Seq(Client) /\ cur \in Client \cup {NoClient}
      /\ phase \in [Client -> {"new", "open", "shut", "reset"}]
  BY <1>1 DEF StreamInv, TypeOK, SocketTypeOK, ClientTypeOK, DaemonTypeOK
<1>3. ASSUME UNCHANGED phase, cur' \in {cur, NoClient}, queue' \in {queue, <<>>}
      PROVE  ConnectedInv'
  BY <1>1, <1>3
<1>4. ASSUME End PROVE ConnectedInv'
  BY <1>3, <1>4 DEF End, Forget, Leave, QueueAfter
<1>5. CASE \E c \in Client : Handler(c)
  <2>1. PICK c \in Client : Handler(c)  BY <1>5
  <2>2. CASE HandlerFails(c) \/ ConnectionReset(c)
    BY <1>4, <2>2 DEF HandlerFails, ConnectionReset
  <2>3. CASE SendTrace(c) \/ SendLogs(c) \/ GetConfigs(c) \/ Unrecognized(c)
    BY <1>3, <2>3 DEF SendTrace, SendLogs, GetConfigs, Unrecognized
  <2>4. CASE ReceiveRun(c) \/ Reconnect(c)
    BY <1>3, <2>4 DEF ReceiveRun, Reconnect
  <2> QED  BY <2>1, <2>2, <2>3, <2>4 DEF Handler
<1>6. CASE OpenLog \/ LookUp \/ Clone \/ CloneThenEnd
  BY <1>3, <1>6 DEF OpenLog, LookUp, Clone, CloneThenEnd, Forget
<1>7. CASE RunFails \/ AcceptFails \/ Kill  BY <1>4, <1>7 DEF RunFails, AcceptFails, Kill
<1>8. CASE Accept
  <2>1. /\ queue # <<>> /\ queue' = Tail(queue) /\ cur' = Head(queue) /\ UNCHANGED phase
    BY <1>8 DEF Accept, AcceptFirst
  <2>2. 1 \in DOMAIN queue /\ cur' = queue[1]  BY <1>2, <2>1
  <2>3. \A i \in DOMAIN queue' : i + 1 \in DOMAIN queue /\ queue'[i] = queue[i + 1]
    BY <1>2, <2>1
  <2> QED  BY <1>1, <2>1, <2>2, <2>3
<1>9. CASE Start \/ StartFails  BY <1>3, <1>9 DEF Start, Bind, StartFails
<1>10. CASE \E c \in Client : ClientStep(c)
  <2>1. PICK c \in Client : ClientStep(c)  BY <1>10
  <2>2. CASE Connect(c)
    <3>1. queue' = Append(queue, c) /\ phase' = [phase EXCEPT ![c] = "open"] /\ cur' = cur
      BY <2>2 DEF Connect, QueueClient
    <3>2. \A d \in Client : phase'[d] = phase[d] \/ phase'[d] = "open"  BY <1>2, <3>1
    <3>3. \A i \in DOMAIN queue' :
            queue'[i] \in Client /\ (queue'[i] = c \/ (i \in DOMAIN queue /\ queue'[i] = queue[i]))
      BY <1>2, <3>1
    <3> QED  BY <1>1, <1>2, <3>1, <3>2, <3>3
  <2>3. CASE Close(c) \/ \E r \in Asks[c] : Send(c, r) \/ \E n \in 2..4 : SendCut(c, r, n)
    <3>1. /\ UNCHANGED <<cur, queue>>
          /\ phase' = phase \/ \E p \in {"shut", "reset"} : phase' = [phase EXCEPT ![c] = p]
      BY <2>3 DEF Close, Send, SendCut, Sends
    <3>2. \A d \in Client : phase'[d] = "new" => phase[d] = "new"  BY <1>2, <3>1
    <3>3. \A i \in DOMAIN queue : queue[i] \in Client  BY <1>2
    <3> QED  BY <1>1, <1>2, <3>1, <3>2, <3>3
  <2> QED  BY <2>1, <2>2, <2>3 DEF ClientStep
<1>11. CASE \E k \in Living : Write(k) \/ Exit(k)
  BY <1>3, <1>11 DEF Write, Exit, Leave, QueueAfter
<1>12. CASE UNCHANGED vars  BY <1>3, <1>12
<1> QED
  BY <1>1, <1>5, <1>6, <1>7, <1>8, <1>9, <1>10, <1>11, <1>12 DEF Next, DaemonStep, RunStep

\* Steps of the daemon, at most, for what the client that is served had sent, and
\* to find that it has left.
Work == IF cur = NoClient THEN 0 ELSE 4 * Len(in[cur]) + Stage

\* The first client that waits is at most n steps of the daemon from being served:
\* those, and the accept.
NextWithin(c, n) == FirstWaits(c) /\ Work + 1 <= n

ServedOrOff(c) == cur = c \/ dpc = "off"

\* A handler takes at least the type of its request from the stream.
LEMMA HandlerShortens ==
  ASSUME StreamInv, NEW c \in Client, NEW t \in RequestType, Serve(c, t), Received(c, t)
  PROVE  /\ Len(in'[c]) \in Nat /\ Len(in[c]) \in Nat
         /\ Len(in'[c]) <= Len(in[c]) - 1
<1> DEFINE k == FieldCount(t)
<1>1. ClientTypeOK /\ StreamOK(c) /\ k \in 0..3 /\ in[c] \in Seq(Block) /\ in[c] # <<>>
  BY CountIsSent, Elements DEF StreamInv, TypeOK, Serve, TypeIs
<1>2. CASE CutShort(c, k)
  <2>1. in'[c] = <<>>  BY <1>1, <1>2 DEF Received, Receive, ClientTypeOK
  <2> QED  BY <1>1, <2>1
<1>3. CASE ~CutShort(c, k)
  <2>1. in'[c] = SubSeq(in[c], k + 2, Len(in[c])) /\ k < Len(in[c])
    BY <1>1, <1>3 DEF Serve, Whole, Received, Receive, ClientTypeOK
  <2>2. Len(in'[c]) = Len(in[c]) - k - 1
    <3>1. k \in Nat /\ in[c] \in Seq(Block)  BY <1>1
    <3> HIDE DEF k
    <3> QED  BY <2>1, <3>1, RestElements
  <2> QED  BY <1>1, <2>1, <2>2
<1> QED  BY <1>2, <1>3

LEMMA WorkType == ASSUME StreamInv PROVE Work \in Nat
<1>1. ASSUME cur # NoClient PROVE Len(in[cur]) \in Nat
  BY <1>1, Elements DEF StreamInv, TypeOK, DaemonTypeOK
<1>2. Stage \in Nat  BY DEF Stage
<1> QED  BY <1>1, <1>2 DEF Work

NextAdvances(c, n) ==
  NextWithin(c, n + 1) =>
    \/ ServedOrOff(c)'
    \/ NextWithin(c, n + 1)' /\ (DaemonStep => NextWithin(c, n)')

\* A handler brings it nearer, whatever the client that left had sent.
LEMMA HandlerLessens ==
  ASSUME StreamInv, NEW c \in Client, NEW t \in RequestType, Serve(c, t), Received(c, t), cur' = c
  PROVE  Work' \in Nat /\ Work' + 1 <= Work
<1>1. cur = c /\ dpc = "request" /\ c # NoClient  BY SessionAssumption DEF Serve
<1>2. PICK a \in Nat : a = Len(in[c])  BY HandlerShortens
<1>3. PICK b \in Nat : b = Len(in'[c]) /\ b <= a - 1  BY <1>2, HandlerShortens
<1>4. PICK s \in 1..4 : s = Stage'  BY DEF Stage
<1>5. Work = 4 * a + 1 /\ Work' = 4 * b + s
  BY <1>1, <1>2, <1>3, <1>4 DEF Work, Stage
<1> QED  BY <1>3, <1>5

LEMMA DaemonLessens ==
  ASSUME StreamInv, NEW c \in Client, FirstWaits(c), DaemonStep, ~ServedOrOff(c)'
  PROVE  FirstWaits(c)' /\ Work' \in Nat /\ Work' + 1 <= Work
<1>1. DaemonTypeOK /\ dpc # "off" /\ dpc' # "off"
  BY DEF StreamInv, TypeOK, FirstWaits, ServedOrOff
<1>2. ~End  BY <1>1 DEF End, Forget
<1>3. ASSUME UNCHANGED <<phase, queue>>, cur' \in {cur, NoClient} PROVE FirstWaits(c)'
  BY <1>1, <1>3 DEF FirstWaits
<1>4. CASE \E d \in Client : Handler(d)
  <2>1. PICK d \in Client : Handler(d)  BY <1>4
  <2>2. CASE HandlerFails(d) \/ ConnectionReset(d)
    BY <1>2, <2>2 DEF HandlerFails, ConnectionReset
  <2>3. CASE Reconnect(d)
    <3>1. cur = d /\ d # NoClient /\ in[d] = <<>> /\ dpc = "request" /\ cur' = NoClient
      BY <2>3, SessionAssumption DEF Reconnect
    <3>2. Work = 1 /\ Work' = 0  BY <3>1 DEF Work, Stage
    <3> QED  BY <1>3, <2>3, <3>2 DEF Reconnect
  <2>4. CASE SendTrace(d)
    BY <1>3, <2>4, HandlerLessens DEF SendTrace, Serve, RequestType
  <2>5. CASE SendLogs(d)
    BY <1>3, <2>5, HandlerLessens DEF SendLogs, Serve, RequestType
  <2>6. CASE GetConfigs(d)
    BY <1>3, <2>6, HandlerLessens DEF GetConfigs, Serve, RequestType
  <2>7. CASE Unrecognized(d)
    BY <1>3, <2>7, HandlerLessens DEF Unrecognized, Serve, RequestType
  <2>8. CASE ReceiveRun(d)
    BY <1>3, <2>8, HandlerLessens DEF ReceiveRun, Serve, RequestType
  <2> QED  BY <2>1, <2>2, <2>3, <2>4, <2>5, <2>6, <2>7, <2>8 DEF Handler
<1>5. CASE OpenLog \/ LookUp \/ Clone
  <2>1. /\ Stage \in 2..4 /\ Stage' = Stage - 1 /\ UNCHANGED <<cur, in, phase, queue>>
        /\ cur # NoClient
    BY <1>1, <1>5 DEF OpenLog, LookUp, Clone, Stage, DaemonTypeOK
  <2>2. PICK a \in Nat : a = Len(in[cur])
    BY <1>1, <2>1, Elements DEF StreamInv, TypeOK, DaemonTypeOK
  <2>3. Work = 4 * a + Stage /\ Work' = 4 * a + Stage'  BY <2>1, <2>2 DEF Work
  <2> QED  BY <1>3, <2>1, <2>3
<1>6. CASE CloneThenEnd  BY <1>1, <1>6 DEF CloneThenEnd, Forget
<1>7. CASE RunFails \/ AcceptFails  BY <1>2, <1>7 DEF RunFails, AcceptFails
<1>8. CASE Accept  BY <1>8 DEF Accept, FirstWaits, ServedOrOff
<1> QED  BY <1>4, <1>5, <1>6, <1>7, <1>8 DEF DaemonStep, RunStep

LEMMA OthersWait ==
  ASSUME StreamInv, PortInv, ConnectedInv, NEW c \in Client, FirstWaits(c), [Next]_vars,
         ~DaemonStep, ~ServedOrOff(c)'
  PROVE  FirstWaits(c)' /\ Work' = Work
<1>1. /\ DaemonTypeOK /\ ClientTypeOK /\ queue \in Seq(Client) /\ queue # <<>>
      /\ dpc # "off" /\ dpc' # "off"
  BY DEF StreamInv, TypeOK, SocketTypeOK, FirstWaits, ServedOrOff
<1>2. cur # NoClient => cur \in Client /\ phase[cur] \notin {"new", "open"}
  BY <1>1 DEF FirstWaits, ConnectedInv, DaemonTypeOK
<1>3. ASSUME UNCHANGED <<dpc, cur>>, queue' # <<>>, Head(queue') = Head(queue),
             cur # NoClient => phase'[cur] = phase[cur] /\ in'[cur] = in[cur]
      PROVE  FirstWaits(c)' /\ Work' = Work
  BY <1>3 DEF FirstWaits, Work, Stage
<1>4. CASE Start \/ Kill  BY <1>1, <1>4 DEF Start, Kill, End, Forget
<1>5. CASE StartFails  BY <1>1, <1>3, <1>5 DEF StartFails
<1>6. CASE \E d \in Client : ClientStep(d)
  <2>1. PICK d \in Client : ClientStep(d)  BY <1>6
  <2>2. phase[d] \in {"new", "open"} /\ \A e \in Client \ {d} : phase'[e] = phase[e]
    BY <1>1, <2>1 DEF ClientStep, Connect, Close, Send, SendCut, Sends, Connected, ClientTypeOK
  <2>3. cur # NoClient => cur \in Client \ {d} /\ phase'[cur] = phase[cur]  BY <1>2, <2>2
  <2>4. CASE Connect(d)
    <3>1. UNCHANGED <<dpc, cur, in>> /\ queue' = Append(queue, d)
      BY <2>4 DEF Connect, QueueClient
    <3>2. queue' # <<>> /\ Head(queue') = Head(queue)  BY <1>1, <3>1
    <3> QED  BY <1>3, <2>3, <3>1, <3>2
  <2>5. CASE Close(d)  BY <1>1, <1>3, <2>3, <2>5 DEF Close
  <2>6. CASE \E r \in Asks[d] : Send(d, r) \/ \E m \in 2..4 : SendCut(d, r, m)
    <3>1. PICK r \in Asks[d] : Send(d, r) \/ \E m \in 2..4 : SendCut(d, r, m)  BY <2>6
    <3>2. UNCHANGED <<dpc, cur, queue>> /\ \A e \in Client \ {d} : in'[e] = in[e]
      BY <1>1, <3>1 DEF Send, SendCut, Sends, ClientTypeOK
    <3> QED  BY <1>1, <1>3, <2>3, <3>2
  <2> QED  BY <2>1, <2>4, <2>5, <2>6 DEF ClientStep
<1>7. CASE \E k \in Living : Write(k)  BY <1>1, <1>3, <1>7 DEF Write
<1>8. CASE \E k \in Living : Exit(k)
  <2>1. 0 \in holders'
    BY <1>1, <1>8 DEF PortInv, Exit, Leave, HoldersAfter, Living
  <2>2. UNCHANGED <<dpc, cur, phase, queue>>
    BY <1>8, <2>1 DEF Exit, Leave, QueueAfter
  <2>3. cur # NoClient => in'[cur] = in[cur]
    BY <1>2, <1>8 DEF Exit, StreamsOf
  <2> QED  BY <1>1, <1>3, <2>2, <2>3
<1>9. CASE UNCHANGED vars  BY <1>1, <1>3, <1>9
<1> QED  BY <1>4, <1>5, <1>6, <1>7, <1>8, <1>9 DEF Next

\* Once the client that is served has left, every step of the daemon brings the
\* next one nearer, or it is served, or the daemon ends: nothing that the others
\* do, and nothing that the client that left had sent, puts it off.
THEOREM NextNearer ==
  ASSUME NEW c \in Client, NEW n \in Nat
  PROVE  Spec => [][NextAdvances(c, n)]_vars
<1>1. ASSUME StreamInv, StreamInv', PortInv, ConnectedInv, [Next]_vars, NextWithin(c, n + 1),
             ~ServedOrOff(c)'
      PROVE  NextWithin(c, n + 1)' /\ (DaemonStep => NextWithin(c, n)')
  <2>1. PICK a \in Nat : a = Work  BY <1>1, WorkType
  <2>2. FirstWaits(c) /\ a + 1 <= n + 1  BY <1>1, <2>1 DEF NextWithin
  <2>3. CASE DaemonStep
    <3>1. FirstWaits(c)' /\ Work' \in Nat /\ Work' + 1 <= a
      BY <1>1, <2>1, <2>2, <2>3, DaemonLessens
    <3>2. PICK b \in Nat : b = Work' /\ b + 1 <= a  BY <3>1
    <3>3. b + 1 <= n + 1 /\ b + 1 <= n
      <4>1. ASSUME NEW x \in Nat, NEW y \in Nat, x + 1 <= y, y + 1 <= n + 1
            PROVE  x + 1 <= n + 1 /\ x + 1 <= n
        BY <4>1
      <4> QED  BY <2>1, <2>2, <3>2, <4>1
    <3> QED  BY <3>1, <3>2, <3>3 DEF NextWithin
  <2>4. CASE ~DaemonStep
    <3>1. FirstWaits(c)' /\ Work' = a  BY <1>1, <2>1, <2>2, <2>4, OthersWait
    <3> QED  BY <2>2, <2>4, <3>1 DEF NextWithin
  <2> QED  BY <2>3, <2>4
<1>2. StreamInv /\ StreamInv' /\ PortInv /\ ConnectedInv /\ [Next]_vars => NextAdvances(c, n)
  BY <1>1 DEF NextAdvances
<1>3. Init => PortInv /\ ConnectedInv
  BY DEF Init, SocketInit, PortInv, LivingAreKnown, ConnectedInv
<1> QED  BY <1>2, <1>3, PortStep, ConnectedStep, Streams, PTL DEF Spec, Safety

\* There is a bound to begin with, and none is left at zero.
THEOREM NextBounded ==
  ASSUME NEW c \in Client
  PROVE  Spec => [](~NextWithin(c, 0) /\ (FirstWaits(c) => NextWithin(c, Work + 1)))
<1>1. StreamInv => ~NextWithin(c, 0) /\ (FirstWaits(c) => NextWithin(c, Work + 1))
  BY WorkType DEF NextWithin
<1> QED  BY <1>1, Streams, PTL
=============================================================================
