---------------------------- MODULE ConfigProofs ----------------------------
(***************************************************************************)
(* ConfigLoader implements the write-once map NamePool, and ConfigOutcome, *)
(* for any sequence of configurations and requests.                        *)
(***************************************************************************)
EXTENDS ConfigLoader, SequenceTheorems, TLAPS

LEMMA AppendFacts ==
  ASSUME NEW S, NEW s \in Seq(S), NEW e \in S
  PROVE  /\ Append(s, e) \in Seq(S)
         /\ DOMAIN s = 1..Len(s) /\ DOMAIN Append(s, e) = 1..(Len(s) + 1)
         /\ Len(s) \in Nat
         /\ \A i \in DOMAIN s : Append(s, e)[i] = s[i]
         /\ Append(s, e)[Len(s) + 1] = e
OBVIOUS

LEMMA TailInSeq ==
  ASSUME NEW S, NEW s \in Seq(S), s # <<>>
  PROVE  Tail(s) \in Seq(S) /\ Head(s) \in S
BY HeadTailProperties

LEMMA TypeInit == Init => TypeOK
BY ConfigAssumption DEF Init, TypeOK

LEMMA TypeStep == TypeOK /\ [Next]_vars => TypeOK'
<1> SUFFICES ASSUME TypeOK, [Next]_vars PROVE TypeOK'
  OBVIOUS
<1>0. conf # <<>> => Tail(conf) \in Seq(Block) /\ Head(conf) \in Block
  BY TailInSeq DEF TypeOK
<1>1. CASE Down
  BY <1>1 DEF Down, TypeOK
<1>2. ASSUME NEW f \in Config, GetConfigs(f) PROVE TypeOK'
  <2>1. CASE conf' = f /\ configs' = configs + 1 /\ UNCHANGED <<up, repo, pool, objects, served>>
    BY <1>2, <2>1, ConfigAssumption DEF GetConfigs, TypeOK
  <2> QED
    BY <1>1, <1>2, <2>1 DEF GetConfigs
<1>3. CASE ParseEmpty
  BY <1>0, <1>3 DEF ParseEmpty, At, TypeOK
<1>4. CASE ParseTemplate
  <2> DEFINE t == Head(conf).type
  <2>1. CASE t \in NsType
    <3>1. Head(conf).id \in Id /\ Tail(conf) \in Seq(Block)
      BY <1>0, <1>4 DEF ParseTemplate, At, Block
    <3>2. /\ repo' = [repo EXCEPT ![t] = Append(@, Head(conf).id)]
          /\ conf' = Tail(conf)
          /\ UNCHANGED <<up, pool, objects, served, configs>>
      BY <1>4, <2>1 DEF ParseTemplate
    <3>3. repo[t] \in Seq(Id)
      BY <2>1 DEF TypeOK
    <3>4. /\ Append(repo[t], Head(conf).id) \in Seq(Id)
          /\ DOMAIN repo[t] \subseteq DOMAIN Append(repo[t], Head(conf).id)
      BY <3>1, <3>3, AppendFacts
    <3>5. repo' \in [NsType -> Seq(Id)]
      BY <2>1, <3>2, <3>4 DEF TypeOK
    <3>6. \A u \in NsType : DOMAIN repo[u] \subseteq DOMAIN repo'[u]
      BY <2>1, <3>2, <3>4 DEF TypeOK
    <3> QED
      BY <3>1, <3>2, <3>5, <3>6 DEF TypeOK
  <2>2. CASE t \notin NsType
    BY <1>1, <1>4, <2>2 DEF ParseTemplate
  <2> QED
    BY <2>1, <2>2
<1>5. CASE ParseNamespace
  <2> DEFINE t == Head(conf).type
  <2>1. CASE Down
    BY <1>1, <2>1
  <2>2. ASSUME NEW i \in Found(t, Head(conf).id), t \in NsType,
               DeclareNs(t, [name |-> Head(conf).name, obj |-> objects, template |-> i,
                             wanted |-> Head(conf).id]),
               objects' = objects + 1, conf' = Tail(conf), up, conf # <<>>,
               Head(conf).kind = "namespace",
               UNCHANGED <<up, repo, served, configs>>
        PROVE  TypeOK'
    <3> DEFINE e == [name |-> Head(conf).name, obj |-> objects, template |-> i,
                     wanted |-> Head(conf).id]
    <3>1. Head(conf).id \in Id /\ Head(conf).name \in Name /\ Tail(conf) \in Seq(Block)
      BY <1>0, <2>2 DEF Block
    <3>2. i \in DOMAIN repo[t] /\ i \in Nat
      BY <2>2 DEF Found, TypeOK
    <3>3. e \in NsEntry
      BY <3>1, <3>2 DEF NsEntry, TypeOK
    <3>4. pool[t] \in Seq(NsEntry) /\ pool' = [pool EXCEPT ![t] = Append(@, e)]
      BY <2>2 DEF TypeOK, DeclareNs
    <3> HIDE DEF e
    <3>5. /\ Append(pool[t], e) \in Seq(NsEntry)
          /\ \A j \in DOMAIN Append(pool[t], e) :
               \/ j \in DOMAIN pool[t] /\ Append(pool[t], e)[j] = pool[t][j]
               \/ Append(pool[t], e)[j] = e
      BY <3>3, <3>4, AppendFacts
    <3>6. pool' \in [NsType -> Seq(NsEntry)]
      BY <2>2, <3>4, <3>5 DEF TypeOK
    <3>7. ASSUME NEW u \in NsType, NEW j \in DOMAIN pool'[u]
          PROVE  pool'[u][j].obj < objects' /\ pool'[u][j].template \in DOMAIN repo'[u]
      <4>1. CASE u # t
        <5>1. pool'[u] = pool[u] /\ j \in DOMAIN pool[u]
          BY <3>4, <4>1 DEF TypeOK
        <5>2. pool[u][j] \in NsEntry
          BY <5>1 DEF TypeOK
        <5>3. pool[u][j].obj \in Nat /\ pool[u][j].obj < objects /\ objects \in Nat
              /\ pool[u][j].template \in DOMAIN repo[u]
          BY <5>1, <5>2 DEF TypeOK, NsEntry
        <5> QED
          BY <2>2, <5>1, <5>3
      <4>2. CASE u = t /\ j \in DOMAIN pool[t] /\ pool'[u][j] = pool[t][j]
        <5>1. pool[t][j] \in NsEntry
          BY <3>4, <4>2
        <5> QED
          BY <2>2, <4>2, <5>1 DEF TypeOK, NsEntry
      <4>3. CASE u = t /\ pool'[u][j] = e
        BY <2>2, <3>2, <4>3 DEF TypeOK, e
      <4> QED
        BY <3>4, <3>5, <4>1, <4>2, <4>3 DEF TypeOK
    <3> QED
      BY <2>2, <3>1, <3>6, <3>7 DEF TypeOK
  <2> QED
    BY <1>5, <2>1, <2>2 DEF ParseNamespace, At
<1>6. CASE ParseCgroup
  <2>1. CASE conf' = <<>> /\ UNCHANGED <<up, repo, pool, objects, served, configs>>
    BY <2>1 DEF TypeOK
  <2> QED
    BY <1>1, <1>6, <2>1 DEF ParseCgroup
<1>7. ASSUME NEW r \in Request, GetNsGroup(r) PROVE TypeOK'
  <2>1. CASE Down
    BY <1>1, <2>1
  <2>2. CASE /\ \A t \in Wanted(r) : Declared(t, r[t])
             /\ served' = served \cup {<<<<t, r[t]>>, Resolve(t, r[t])>> : t \in Wanted(r)}
             /\ UNCHANGED <<up, conf, repo, pool, objects, configs>>
    <3>1. ASSUME NEW t \in Wanted(r)
          PROVE  <<<<t, r[t]>>, Resolve(t, r[t])>> \in (NsType \X Name) \X Nat
      <4>1. t \in NsType /\ r[t] \in Name
        BY ConfigAssumption DEF Wanted
      <4>2. PICK i \in FirstOf(pool[t], r[t]) : Resolve(t, r[t]) = pool[t][i].obj
        BY <2>2 DEF Declared, Resolve
      <4>3. pool[t][i] \in NsEntry
        BY <4>1, <4>2 DEF FirstOf, TypeOK
      <4> QED
        BY <4>1, <4>2, <4>3 DEF NsEntry
    <3> QED
      BY <2>2, <3>1 DEF TypeOK
  <2> QED
    BY <1>7, <2>1, <2>2 DEF GetNsGroup
<1>8. CASE UNCHANGED vars
  BY <1>8 DEF vars, TypeOK
<1> QED
  BY <1>1, <1>2, <1>3, <1>4, <1>5, <1>6, <1>7, <1>8 DEF Next, ParseBad

\* Every variable keeps its type; a namespace was made from a template of its
\* own type, and its identity was given out before.
THEOREM TypeCorrect == Spec => []TypeOK
BY TypeInit, TypeStep, PTL DEF Spec

-----------------------------------------------------------------------------
(* What an append does to the first match *)

LEMMA FirstUnique ==
  ASSUME NEW S, NEW s \in Seq(S), NEW n, NEW i \in FirstOf(s, n), NEW j \in FirstOf(s, n)
  PROVE  i = j
<1>1. i \in Nat /\ j \in Nat /\ i >= 1 /\ j >= 1
  BY DEF FirstOf
<1>2. ~(i < j) /\ ~(j < i)
  BY <1>1 DEF FirstOf
<1> QED
  BY <1>1, <1>2

LEMMA FirstAppend ==
  ASSUME NEW S, NEW s \in Seq(S), NEW e \in S, NEW n,
         (\E i \in DOMAIN s : s[i].name = n) => FirstOf(s, n) # {}
  PROVE  /\ FirstOf(s, n) # {} => FirstOf(Append(s, e), n) = FirstOf(s, n)
         /\ FirstOf(s, n) = {} /\ e.name = n => FirstOf(Append(s, e), n) = {Len(s) + 1}
         /\ e.name # n => FirstOf(Append(s, e), n) = FirstOf(s, n)
<1> DEFINE a == Append(s, e)
           k == Len(s) + 1
<1>0. /\ k \in Nat /\ Len(s) \in Nat /\ DOMAIN s = 1..Len(s) /\ DOMAIN a = 1..k
      /\ \A i \in 1..Len(s) : a[i] = s[i]
      /\ a[k] = e
  BY AppendFacts
<1> HIDE DEF a
<1>1. \A i \in 1..Len(s) : i \in FirstOf(a, n) <=> i \in FirstOf(s, n)
  BY <1>0 DEF FirstOf
<1>2. FirstOf(a, n) \subseteq 1..k /\ FirstOf(s, n) \subseteq 1..Len(s)
  BY <1>0 DEF FirstOf
<1>3. k \in FirstOf(a, n) <=> e.name = n /\ FirstOf(s, n) = {}
  <2>1. k \in FirstOf(a, n) <=> e.name = n /\ \A j \in 1..Len(s) : s[j].name # n
    BY <1>0 DEF FirstOf
  <2>2. FirstOf(s, n) = {} <=> \A j \in 1..Len(s) : s[j].name # n
    BY <1>0 DEF FirstOf
  <2> QED
    BY <2>1, <2>2
<1>4. \A i \in 1..k : i \in 1..Len(s) \/ i = k
  BY <1>0
<1> QED
  BY <1>1, <1>2, <1>3, <1>4 DEF a

-----------------------------------------------------------------------------
(* The inductive invariant *)

\* An object is in one place of one vector.
ObjectOnce ==
  \A t, u \in NsType : \A i \in DOMAIN pool[t], j \in DOMAIN pool[u] :
    pool[t][i].obj = pool[u][j].obj => t = u /\ i = j

\* A name some object has is found by the search.
SearchFinds ==
  \A t \in NsType : \A n \in Name :
    (\E i \in DOMAIN pool[t] : pool[t][i].name = n) => Declared(t, n)

\* What a container was given is what the search finds still.
ServedResolves ==
  \A p \in served : Declared(p[1][1], p[1][2]) /\ p[2] = Resolve(p[1][1], p[1][2])

IInv == TypeOK /\ ObjectOnce /\ SearchFinds /\ ServedResolves

Bound == [k \in NsType \X Name |-> IF Declared(k[1], k[2]) THEN Resolve(k[1], k[2]) ELSE NoObject]

LEMMA ResolveFacts ==
  ASSUME TypeOK, NEW t \in NsType, NEW n \in Name, Declared(t, n)
  PROVE  \E i \in DOMAIN pool[t] :
            /\ i \in FirstOf(pool[t], n)
            /\ Resolve(t, n) = pool[t][i].obj
            /\ pool[t][i].name = n
            /\ pool[t][i].obj \in Nat /\ pool[t][i].obj < objects
<1>1. PICK i \in FirstOf(pool[t], n) : Resolve(t, n) = pool[t][i].obj
  BY DEF Declared, Resolve
<1>2. i \in DOMAIN pool[t] /\ pool[t][i].name = n
  BY <1>1 DEF FirstOf
<1>3. pool[t][i] \in NsEntry
  BY <1>2 DEF TypeOK
<1> QED
  BY <1>1, <1>2, <1>3 DEF NsEntry, TypeOK

LEMMA DeclareEffect ==
  ASSUME IInv, NEW t \in NsType, NEW e \in NsEntry, e.obj = objects, DeclareNs(t, e)
  PROVE  /\ \A u \in NsType : \A n \in Name :
              Declared(u, n) => Declared(u, n)' /\ Resolve(u, n)' = Resolve(u, n)
         /\ ~Declared(t, e.name) => Declared(t, e.name)' /\ Resolve(t, e.name)' = objects
         /\ \A u \in NsType : \A n \in Name :
              u # t \/ n # e.name => (Declared(u, n)' => Declared(u, n))
         /\ ObjectOnce' /\ SearchFinds'
<1> DEFINE a == Append(pool[t], e)
           k == Len(pool[t]) + 1
<1>1. pool \in [NsType -> Seq(NsEntry)] /\ pool[t] \in Seq(NsEntry)
  BY DEF IInv, TypeOK
<1>2. pool' = [pool EXCEPT ![t] = a]
  BY DEF DeclareNs
<1>3. pool'[t] = a /\ \A u \in NsType : u # t => pool'[u] = pool[u]
  BY <1>1, <1>2
<1>4. /\ k \in Nat /\ DOMAIN pool[t] = 1..Len(pool[t]) /\ DOMAIN a = 1..k
      /\ Len(pool[t]) \in Nat
      /\ \A i \in DOMAIN pool[t] : a[i] = pool[t][i]
      /\ a[k] = e
  BY <1>1, AppendFacts
<1>5. \A n \in Name :
        /\ FirstOf(pool[t], n) # {} => FirstOf(a, n) = FirstOf(pool[t], n)
        /\ FirstOf(pool[t], n) = {} /\ e.name = n => FirstOf(a, n) = {k}
        /\ e.name # n => FirstOf(a, n) = FirstOf(pool[t], n)
  <2> TAKE n \in Name
  <2>1. (\E i \in DOMAIN pool[t] : pool[t][i].name = n) => FirstOf(pool[t], n) # {}
    BY DEF IInv, SearchFinds, Declared
  <2> QED
    BY <1>1, <2>1, FirstAppend
<1>6. \A u \in NsType : \A n \in Name : FirstOf(pool[u], n) \subseteq DOMAIN pool[u]
  BY DEF FirstOf
<1>7. \A u \in NsType : \A i \in DOMAIN pool[u] : pool[u][i].obj \in Nat /\ pool[u][i].obj < objects
  <2> TAKE u \in NsType
  <2> TAKE i \in DOMAIN pool[u]
  <2>1. pool[u][i] \in NsEntry
    BY <1>1
  <2> QED
    BY <2>1 DEF IInv, TypeOK, NsEntry
<1>8. objects \in Nat
  BY DEF IInv, TypeOK
<1>9. \A i \in DOMAIN a : i \in DOMAIN pool[t] \/ i = k
  BY <1>4
<1> HIDE DEF a, k
<1>10. ASSUME NEW u \in NsType, NEW n \in Name, Declared(u, n)
       PROVE  Declared(u, n)' /\ Resolve(u, n)' = Resolve(u, n)
  <2>1. FirstOf(pool'[u], n) = FirstOf(pool[u], n)
    BY <1>3, <1>5, <1>10 DEF Declared
  <2>2. PICK i : i = (CHOOSE j \in FirstOf(pool[u], n) : TRUE) /\ i \in FirstOf(pool[u], n)
    BY <1>10 DEF Declared
  <2>3. pool'[u][i] = pool[u][i]
    BY <1>3, <1>4, <1>6, <2>2
  <2> QED
    BY <1>10, <2>1, <2>2, <2>3 DEF Declared, Resolve
<1>11. ASSUME ~Declared(t, e.name)
       PROVE  Declared(t, e.name)' /\ Resolve(t, e.name)' = objects
  <2>1. e.name \in Name
    BY DEF NsEntry
  <2>2. FirstOf(pool'[t], e.name) = {k}
    BY <1>3, <1>5, <1>11, <2>1 DEF Declared
  <2>3. (CHOOSE i \in {k} : TRUE) = k
    OBVIOUS
  <2> QED
    BY <1>3, <1>4, <2>2, <2>3 DEF Declared, Resolve
<1>12. ASSUME NEW u \in NsType, NEW n \in Name, u # t \/ n # e.name, Declared(u, n)'
       PROVE  Declared(u, n)
  BY <1>3, <1>5, <1>12 DEF Declared
<1>13. ObjectOnce'
  <2> SUFFICES ASSUME NEW u \in NsType, NEW v \in NsType,
                      NEW i \in DOMAIN pool'[u], NEW j \in DOMAIN pool'[v],
                      pool'[u][i].obj = pool'[v][j].obj
               PROVE  u = v /\ i = j
    BY DEF ObjectOnce
  <2>1. \/ i \in DOMAIN pool[u] /\ pool'[u][i] = pool[u][i]
        \/ u = t /\ i = k /\ pool'[u][i] = e
    BY <1>3, <1>4, <1>9
  <2>2. \/ j \in DOMAIN pool[v] /\ pool'[v][j] = pool[v][j]
        \/ v = t /\ j = k /\ pool'[v][j] = e
    BY <1>3, <1>4, <1>9
  <2>3. \A w \in NsType : \A l \in DOMAIN pool[w] : pool[w][l].obj # objects
    BY <1>7, <1>8
  <2> QED
    BY <2>1, <2>2, <2>3 DEF IInv, ObjectOnce
<1>14. SearchFinds'
  <2> SUFFICES ASSUME NEW u \in NsType, NEW n \in Name, NEW i \in DOMAIN pool'[u],
                      pool'[u][i].name = n
               PROVE  Declared(u, n)'
    BY DEF SearchFinds
  <2>1. \/ i \in DOMAIN pool[u] /\ pool'[u][i] = pool[u][i]
        \/ u = t /\ pool'[u][i] = e
    BY <1>3, <1>4, <1>9
  <2>2. CASE i \in DOMAIN pool[u] /\ pool'[u][i] = pool[u][i]
    BY <1>10, <2>2 DEF IInv, SearchFinds
  <2>3. CASE u = t /\ pool'[u][i] = e
    BY <1>10, <1>11, <2>3
  <2> QED
    BY <2>1, <2>2, <2>3
<1> QED
  BY <1>10, <1>11, <1>12, <1>13, <1>14

LEMMA ConfigInit == Init => IInv /\ Pool!Init
<1> SUFFICES ASSUME Init PROVE IInv /\ Pool!Init
  OBVIOUS
<1>1. \A t \in NsType : pool[t] = <<>>
  BY DEF Init
<1>2. \A t \in NsType : \A n : ~Declared(t, n)
  BY <1>1 DEF Declared, FirstOf
<1>3. ObjectOnce /\ SearchFinds
  BY <1>1 DEF ObjectOnce, SearchFinds
<1>4. ServedResolves
  BY DEF Init, ServedResolves
<1>5. Pool!Init
  BY <1>2 DEF Init, Pool!Init
<1> QED
  BY <1>3, <1>4, <1>5, TypeInit DEF IInv

\* A step that leaves the pool and what was served alone.
LEMMA QuietStep ==
  ASSUME IInv, [Next]_vars, UNCHANGED <<pool, served>>
  PROVE  IInv' /\ UNCHANGED Pool!vars
<1>1. \A t, n : Declared(t, n)' = Declared(t, n) /\ Resolve(t, n)' = Resolve(t, n)
  BY DEF Declared, Resolve
<1> QED
  BY <1>1, TypeStep DEF IInv, ObjectOnce, SearchFinds, ServedResolves, Pool!vars

LEMMA DeclareStep ==
  ASSUME IInv, [Next]_vars, NEW t \in NsType, NEW e \in NsEntry, e.obj = objects,
         DeclareNs(t, e), UNCHANGED served
  PROVE  IInv' /\ [Pool!Next]_(Pool!vars)
<1>1. ServedResolves'
  <2> SUFFICES ASSUME NEW p \in served
               PROVE  Declared(p[1][1], p[1][2])' /\ p[2] = Resolve(p[1][1], p[1][2])'
    BY DEF ServedResolves
  <2>1. p[1][1] \in NsType /\ p[1][2] \in Name
    BY DEF IInv, TypeOK
  <2> QED
    BY <2>1, DeclareEffect DEF IInv, ServedResolves
<1>2. IInv'
  BY <1>1, TypeStep, DeclareEffect DEF IInv
<1>3. CASE Declared(t, e.name)
  <2>1. \A u \in NsType : \A n \in Name :
          (Declared(u, n)' <=> Declared(u, n)) /\ (Declared(u, n) => Resolve(u, n)' = Resolve(u, n))
    BY <1>3, DeclareEffect
  <2>2. Bound' = Bound
    BY <2>1 DEF Bound
  <2> QED
    BY <1>2, <2>2 DEF Pool!vars, Bound
<1>4. CASE ~Declared(t, e.name)
  <2> DEFINE k == <<t, e.name>>
  <2>1. k \in NsType \X Name
    BY DEF NsEntry
  <2>2. \A u \in NsType : \A n \in Name :
          u # t \/ n # e.name =>
            (Declared(u, n)' <=> Declared(u, n)) /\ (Declared(u, n) => Resolve(u, n)' = Resolve(u, n))
    BY DeclareEffect
  <2>3. Declared(t, e.name)' /\ Resolve(t, e.name)' = objects
    BY <1>4, DeclareEffect
  <2>4. objects \in Nat
    BY DEF IInv, TypeOK
  <2>5. Bound[k] = NoObject /\ Bound'[k] = objects
    BY <1>4, <2>1, <2>3 DEF Bound
  <2>6. \A j \in NsType \X Name : j # k => Bound'[j] = Bound[j]
    BY <2>2 DEF Bound
  <2>7. \A j \in NsType \X Name : Bound[j] # objects
    <3> TAKE j \in NsType \X Name
    <3>1. CASE Declared(j[1], j[2])
      <4>1. Resolve(j[1], j[2]) \in Nat /\ Resolve(j[1], j[2]) < objects
        BY <3>1, ResolveFacts DEF IInv
      <4> QED
        BY <2>4, <3>1, <4>1 DEF Bound
    <3>2. CASE ~Declared(j[1], j[2])
      BY <2>4, <3>2, ConfigAssumption DEF Bound
    <3> QED
      BY <3>1, <3>2
  <2>8. Bound' = [Bound EXCEPT ![k] = Bound'[k]]
    BY <2>1, <2>6 DEF Bound
  <2>9. Pool!Bind(k)
    BY <2>1, <2>4, <2>5, <2>7, <2>8 DEF Pool!Bind, Bound
  <2> QED
    BY <1>2, <2>1, <2>9 DEF Pool!Next
<1> QED
  BY <1>3, <1>4

LEMMA ServeStep ==
  ASSUME IInv, [Next]_vars, NEW r \in Request,
         \A t \in Wanted(r) : Declared(t, r[t]),
         served' = served \cup {<<<<t, r[t]>>, Resolve(t, r[t])>> : t \in Wanted(r)},
         UNCHANGED pool
  PROVE  IInv' /\ Pool!Next
<1> DEFINE K == {<<t, r[t]>> : t \in Wanted(r)}
<1>1. \A t \in Wanted(r) : t \in NsType /\ r[t] \in Name
  BY ConfigAssumption DEF Wanted
<1>2. \A t, n : Declared(t, n)' = Declared(t, n) /\ Resolve(t, n)' = Resolve(t, n)
  BY DEF Declared, Resolve
<1>3. IInv'
  <2>1. ServedResolves'
    BY <1>2 DEF IInv, ServedResolves
  <2> QED
    BY <1>2, <2>1, TypeStep DEF IInv, ObjectOnce, SearchFinds
<1>4. \A t \in Wanted(r) : Bound[<<t, r[t]>>] = Resolve(t, r[t]) /\ Bound[<<t, r[t]>>] # NoObject
  <2> TAKE t \in Wanted(r)
  <2>1. Declared(t, r[t]) /\ Resolve(t, r[t]) \in Nat
    BY <1>1, ResolveFacts DEF IInv
  <2> QED
    BY <1>1, <2>1, ConfigAssumption DEF Bound
<1>5. K \in SUBSET (NsType \X Name)
  BY <1>1
<1>6. {<<k, Bound[k]>> : k \in K} = {<<<<t, r[t]>>, Resolve(t, r[t])>> : t \in Wanted(r)}
  BY <1>4
<1>7. Bound' = Bound
  BY <1>2 DEF Bound
<1>8. Pool!Serve(K)
  <2>1. \A k \in K : Bound[k] # NoObject
    BY <1>4
  <2>2. served' = served \cup {<<k, Bound[k]>> : k \in K}
    BY <1>6
  <2> HIDE DEF K
  <2> QED
    BY <1>7, <2>1, <2>2, Zenon DEF Pool!Serve, Bound
<1> QED
  BY <1>3, <1>5, <1>8 DEF Pool!Next

LEMMA ConfigStep ==
  ASSUME IInv, [Next]_vars
  PROVE  IInv' /\ [Pool!Next]_(Pool!vars)
<1>0. conf # <<>> => Head(conf) \in Block
  BY TailInSeq DEF IInv, TypeOK
<1>1. CASE UNCHANGED <<pool, served>>
  BY <1>1, QuietStep
<1>2. CASE ParseNamespace
  <2> DEFINE t == Head(conf).type
  <2>1. CASE Down
    BY <1>1, <2>1 DEF Down
  <2>2. ASSUME t \in NsType, At("namespace"), UNCHANGED served, NEW i \in Found(t, Head(conf).id),
               DeclareNs(t, [name |-> Head(conf).name, obj |-> objects, template |-> i,
                             wanted |-> Head(conf).id])
        PROVE  IInv' /\ [Pool!Next]_(Pool!vars)
    <3> DEFINE e == [name |-> Head(conf).name, obj |-> objects, template |-> i,
                     wanted |-> Head(conf).id]
    <3>1. Head(conf).id \in Id /\ Head(conf).name \in Name
      BY <1>0, <2>2 DEF At, Block
    <3>2. e \in NsEntry /\ e.obj = objects
      BY <2>2, <3>1 DEF NsEntry, Found, IInv, TypeOK
    <3> HIDE DEF e
    <3> QED
      BY <2>2, <3>2, DeclareStep DEF e
  <2> QED
    BY <1>2, <2>1, <2>2 DEF ParseNamespace
<1>3. ASSUME NEW r \in Request, GetNsGroup(r) PROVE IInv' /\ [Pool!Next]_(Pool!vars)
  <2>1. CASE Down
    BY <1>1, <2>1 DEF Down
  <2> QED
    BY <1>3, <2>1, ServeStep DEF GetNsGroup
<1> QED
  BY <1>1, <1>2, <1>3
  DEF Next, vars, GetConfigs, ParseEmpty, ParseBad, ParseTemplate, ParseCgroup, Down

LEMMA Invariance == Spec => []IInv
BY ConfigInit, ConfigStep, PTL DEF Spec

\* Containers that ask for the same name get the same namespace object, and
\* containers that ask for different ones never do (ns_pool::get_ns,
\* ns_pool::declare_ns), whatever configurations the daemon gets.
THEOREM NamesCorrect == Spec => []NameMeansObject
<1>1. IInv => NameMeansObject
  <2> SUFFICES ASSUME IInv, NEW p \in served, NEW q \in served
               PROVE  p[1] = q[1] <=> p[2] = q[2]
    BY DEF NameMeansObject
  <2>1. /\ p[1] \in NsType \X Name /\ q[1] \in NsType \X Name
        /\ Declared(p[1][1], p[1][2]) /\ p[2] = Resolve(p[1][1], p[1][2])
        /\ Declared(q[1][1], q[1][2]) /\ q[2] = Resolve(q[1][1], q[1][2])
    BY DEF IInv, TypeOK, ServedResolves
  <2>2. PICK i \in DOMAIN pool[p[1][1]] :
           p[2] = pool[p[1][1]][i].obj /\ pool[p[1][1]][i].name = p[1][2]
    BY <2>1, ResolveFacts DEF IInv
  <2>3. PICK j \in DOMAIN pool[q[1][1]] :
           q[2] = pool[q[1][1]][j].obj /\ pool[q[1][1]][j].name = q[1][2]
    BY <2>1, ResolveFacts DEF IInv
  <2>4. ASSUME p[2] = q[2] PROVE p[1] = q[1]
    <3> DEFINE t == p[1][1]
               u == q[1][1]
    <3>1. t \in NsType /\ u \in NsType /\ i \in DOMAIN pool[t] /\ j \in DOMAIN pool[u]
      BY <2>1
    <3>2. pool[t][i].obj = pool[u][j].obj
      BY <2>2, <2>3, <2>4
    <3>3. pool[t][i].name = p[1][2] /\ pool[u][j].name = q[1][2]
      BY <2>2, <2>3
    <3>4. p[1] = <<t, p[1][2]>> /\ q[1] = <<u, q[1][2]>>
      BY <2>1
    <3> HIDE DEF t, u
    <3>5. t = u /\ i = j
      BY <3>1, <3>2 DEF IInv, ObjectOnce
    <3> QED
      BY <3>3, <3>4, <3>5
  <2>5. ASSUME p[1] = q[1] PROVE p[2] = q[2]
    BY <2>1, <2>5
  <2> QED
    BY <2>4, <2>5
<1> QED
  BY <1>1, Invariance, PTL

\* The vectors of ns_pool, searched from their front, implement a write-once
\* map from the types and names to the namespace objects.
THEOREM ImplementsNamePool == Spec => WriteOnce
<1>1. Spec => Pool!Init
  BY ConfigInit DEF Spec
<1>2. IInv /\ [Next]_vars => [Pool!Next]_(Pool!vars)
  BY ConfigStep
<1> QED
  BY <1>1, <1>2, Invariance, PTL DEF Spec, WriteOnce, Pool!Spec

-----------------------------------------------------------------------------
(* ConfigLoader implements ConfigOutcome *)

\* The namespace a block declares, if it does.
Declares(b) == IF b.kind = "namespace" /\ b.type \in NsType THEN {<<b.type, b.name>>} ELSE {}

\* What a file declares is what its first block and the rest of it declare.
LEMMA DeclaredByTail ==
  ASSUME NEW s \in Seq(Block), s # <<>>
  PROVE  DeclaredBy(s) = Declares(Head(s)) \cup DeclaredBy(Tail(s))
<1>1. /\ Tail(s) \in Seq(Block) /\ Head(s) = s[1]
      /\ Len(s) \in Nat /\ Len(s) >= 1 /\ DOMAIN s = 1..Len(s)
      /\ DOMAIN Tail(s) = 1..(Len(s) - 1)
      /\ \A i \in 1..(Len(s) - 1) : Tail(s)[i] = s[i + 1]
  OBVIOUS
<1>2. \A x : x \in DeclaredBy(s) <=> \E i \in DOMAIN s : x \in Declares(s[i])
  BY DEF DeclaredBy, Declares
<1>3. \A x : x \in DeclaredBy(Tail(s)) <=> \E i \in DOMAIN Tail(s) : x \in Declares(Tail(s)[i])
  BY DEF DeclaredBy, Declares
<1>4. \A i \in DOMAIN s : i = 1 \/ (i - 1 \in DOMAIN Tail(s) /\ Tail(s)[i - 1] = s[i])
  BY <1>1
<1>5. \A i \in DOMAIN Tail(s) : i + 1 \in DOMAIN s /\ Tail(s)[i] = s[i + 1]
  BY <1>1
<1>6. \A x : x \in DeclaredBy(s) <=> x \in Declares(Head(s)) \/ x \in DeclaredBy(Tail(s))
  <2> TAKE x
  <2>1. ASSUME NEW i \in DOMAIN s, x \in Declares(s[i])
        PROVE  x \in Declares(Head(s)) \/ x \in DeclaredBy(Tail(s))
    BY <1>1, <1>3, <1>4, <2>1
  <2>2. ASSUME NEW i \in DOMAIN Tail(s), x \in Declares(Tail(s)[i]) PROVE x \in DeclaredBy(s)
    BY <1>2, <1>5, <2>2
  <2>3. x \in Declares(Head(s)) => x \in DeclaredBy(s)
    BY <1>1, <1>2
  <2> QED
    BY <1>2, <1>3, <2>1, <2>2, <2>3
<1> QED
  BY <1>6

LEMMA NothingDeclared == DeclaredBy(<<>>) = {}
BY DEF DeclaredBy

\* A step that reads a block, and what it declares comes to the pool.
LEMMA ReadIsStutter ==
  ASSUME TypeOK, conf # <<>>, conf' = Tail(conf), UNCHANGED <<up, served>>,
         InPool' = InPool \cup Declares(Head(conf))
  PROVE  UNCHANGED Outcome!vars
<1>1. DeclaredBy(conf) = Declares(Head(conf)) \cup DeclaredBy(conf')
  BY DeclaredByTail DEF TypeOK
<1>2. InPool' \cup DeclaredBy(conf)' = InPool \cup DeclaredBy(conf)
  BY <1>1 DEF DeclaredBy
<1> QED
  BY <1>2 DEF Outcome!vars

LEMMA DownIsEnd == up /\ Down => Outcome!Next
BY DEF Down, Outcome!Next, Outcome!End

LEMMA SamePool == UNCHANGED pool => InPool' = InPool
BY DEF InPool, Declared

LEMMA DeclareGrows ==
  ASSUME IInv, NEW t \in NsType, NEW e \in NsEntry, e.obj = objects, DeclareNs(t, e)
  PROVE  InPool' = InPool \cup {<<t, e.name>>}
<1>1. /\ \A u \in NsType : \A n \in Name : Declared(u, n) => Declared(u, n)'
      /\ ~Declared(t, e.name) => Declared(t, e.name)'
      /\ \A u \in NsType : \A n \in Name :
           u # t \/ n # e.name => (Declared(u, n)' => Declared(u, n))
  BY DeclareEffect
<1>2. e.name \in Name
  BY DEF NsEntry
<1>3. \A u \in NsType : \A n \in Name : Declared(u, n)' <=> Declared(u, n) \/ (u = t /\ n = e.name)
  BY <1>1, <1>2
<1>4. \A k \in NsType \X Name : k = <<t, e.name>> <=> k[1] = t /\ k[2] = e.name
  OBVIOUS
<1> QED
  BY <1>2, <1>3, <1>4 DEF InPool

LEMMA OutcomeStep ==
  ASSUME IInv, [Next]_vars
  PROVE  Outcome!Next \/ UNCHANGED Outcome!vars
<1>0. TypeOK /\ (conf # <<>> => Head(conf) \in Block)
  BY TailInSeq DEF IInv, TypeOK
<1>1. ASSUME NEW f \in Config, GetConfigs(f) PROVE Outcome!Next
  <2>1. CASE conf' = f /\ UNCHANGED <<up, repo, pool, objects, served>>
    <3>1. up /\ conf = <<>> /\ InPool' = InPool
      BY <1>1, <2>1, SamePool DEF GetConfigs
    <3>2. DeclaredBy(conf) = {} /\ DeclaredBy(conf)' = DeclaredBy(f)
      BY <2>1, <3>1, NothingDeclared DEF DeclaredBy
    <3>3. Outcome!Load(DeclaredBy(f))
      BY <2>1, <3>1, <3>2 DEF Outcome!Load
    <3> QED
      BY <3>3 DEF Outcome!Next, Declarable
  <2> QED
    BY <1>1, <2>1, DownIsEnd DEF GetConfigs
<1>2. CASE ParseEmpty
  BY <1>0, <1>2, ReadIsStutter, SamePool DEF ParseEmpty, At, Declares
<1>3. CASE ParseBad
  BY <1>3, DownIsEnd DEF ParseBad, At
<1>4. CASE ParseTemplate
  BY <1>0, <1>4, ReadIsStutter, SamePool, DownIsEnd DEF ParseTemplate, At, Declares
<1>5. CASE ParseNamespace
  <2> DEFINE t == Head(conf).type
             n == Head(conf).name
  <2>1. CASE Down
    BY <1>5, <2>1, DownIsEnd DEF ParseNamespace, At
  <2>2. ASSUME t \in NsType, NEW i \in Found(t, Head(conf).id),
               DeclareNs(t, [name |-> n, obj |-> objects, template |-> i, wanted |-> Head(conf).id])
        PROVE  InPool' = InPool \cup Declares(Head(conf))
    <3> DEFINE e == [name |-> n, obj |-> objects, template |-> i, wanted |-> Head(conf).id]
    <3>1. Head(conf).id \in Id /\ n \in Name
      BY <1>0, <1>5 DEF ParseNamespace, At, Block
    <3>2. e \in NsEntry /\ e.obj = objects /\ e.name = n /\ DeclareNs(t, e)
      BY <1>0, <2>2, <3>1 DEF NsEntry, Found, TypeOK
    <3>3. Declares(Head(conf)) = {<<t, n>>}
      BY <1>5, <2>2 DEF ParseNamespace, At, Declares
    <3> HIDE DEF e
    <3> QED
      BY <2>2, <3>2, <3>3, DeclareGrows
  <2> QED
    BY <1>0, <1>5, <2>1, <2>2, ReadIsStutter DEF ParseNamespace, At
<1>6. CASE ParseCgroup
  <2>1. ASSUME Tail(conf) = <<>>, conf' = <<>>, UNCHANGED <<up, repo, pool, objects, served, configs>>
        PROVE  UNCHANGED Outcome!vars
    BY <1>0, <1>6, <2>1, ReadIsStutter, SamePool DEF ParseCgroup, At, Declares
  <2> QED
    BY <1>6, <2>1, DownIsEnd DEF ParseCgroup, At
<1>7. ASSUME NEW r \in Request, GetNsGroup(r) PROVE Outcome!Next
  <2>1. CASE /\ \A t \in Wanted(r) : Declared(t, r[t])
             /\ served' = served \cup {<<<<t, r[t]>>, Resolve(t, r[t])>> : t \in Wanted(r)}
             /\ UNCHANGED <<up, conf, repo, pool, objects, configs>>
    <3> DEFINE K == {<<t, r[t]>> : t \in Wanted(r)}
    <3>1. up /\ InPool' = InPool /\ DeclaredBy(conf)' = DeclaredBy(conf)
      BY <1>7, <2>1, SamePool DEF GetNsGroup, DeclaredBy
    <3>2. \A t \in Wanted(r) : t \in NsType /\ r[t] \in Name
      BY ConfigAssumption DEF Wanted
    <3>3. K \subseteq InPool
      BY <2>1, <3>2 DEF InPool
    <3>4. {p[1] : p \in served'} = {p[1] : p \in served} \cup K
      <4>1. \A p \in served' : p \in served \/ p[1] \in K
        BY <2>1
      <4>2. ASSUME NEW t \in Wanted(r) PROVE \E p \in served' : p[1] = <<t, r[t]>>
        <5>1. <<<<t, r[t]>>, Resolve(t, r[t])>> \in served'
          BY <2>1
        <5>2. <<<<t, r[t]>>, Resolve(t, r[t])>>[1] = <<t, r[t]>>
          OBVIOUS
        <5> QED
          BY <5>1, <5>2
      <4>3. served \subseteq served'
        BY <2>1
      <4>4. \A k \in K : \E p \in served' : p[1] = k
        BY <4>2
      <4> HIDE DEF K
      <4> QED
        BY <4>1, <4>3, <4>4
    <3> HIDE DEF K
    <3>5. Outcome!Use(K)
      BY <2>1, <3>1, <3>4 DEF Outcome!Use
    <3> QED
      BY <3>1, <3>3, <3>5 DEF Outcome!Next
  <2> QED
    BY <1>7, <2>1, DownIsEnd DEF GetNsGroup
<1>8. CASE UNCHANGED vars
  BY <1>8, SamePool DEF vars, DeclaredBy, Outcome!vars
<1> QED
  BY <1>1, <1>2, <1>3, <1>4, <1>5, <1>6, <1>7, <1>8 DEF Next

\* A configuration takes effect as a whole or ends the daemon: although its blocks
\* are declared one by one and any of them may be the last (parse_config), no
\* container is served from a part of a file.
THEOREM ImplementsOutcome == Spec => ConfigSpec
<1>1. Init => Outcome!Init
  <2>1. SUFFICES ASSUME Init PROVE Outcome!Init
    OBVIOUS
  <2>2. InPool = {}
    BY <2>1 DEF Init, InPool, Declared, FirstOf
  <2> QED
    BY <2>1, <2>2, NothingDeclared DEF Init, Outcome!Init
<1>2. IInv /\ [Next]_vars => [Outcome!Next]_(Outcome!vars)
  BY OutcomeStep
<1> QED
  BY <1>1, <1>2, Invariance, PTL DEF Spec, ConfigSpec, Outcome!Spec
=============================================================================
