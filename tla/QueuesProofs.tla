---------------------------- MODULE QueuesProofs ----------------------------
(***************************************************************************)
(* What the queue operations of Queues do to a queue without duplicates.   *)
(***************************************************************************)
EXTENDS Queues, SequenceTheorems, WellFoundedInduction, TLAPS

\* Every nonempty set of naturals has a least element; Min finds it.
LEMMA MinNat ==
  ASSUME NEW T, T \subseteq Nat, T # {}
  PROVE  Min(T) \in T /\ \A y \in T : Min(T) <= y
<1> DEFINE Less == {ss \in Nat \X Nat : ss[1] < ss[2]}
<1>1. IsWellFoundedOn(Less, Nat)
  BY NatLessThanWellFounded DEF OpToRel
<1>2. PICK x \in T : \A y \in T : ~(<<y, x>> \in Less)
  BY <1>1, WFMin
<1>3. ASSUME NEW y \in T  PROVE x <= y
  <2>1. x \in Nat /\ y \in Nat
    OBVIOUS
  <2>2. CASE y < x
    <3>1. <<y, x>> \in Less
      BY <2>1, <2>2
    <3> QED  BY <1>2, <3>1
  <2> QED  BY <2>1, <2>2
<1> QED  BY <1>3 DEF Min

\* An item put into a sequence at a place of it.
LEMMA InsertAtElements ==
  ASSUME NEW S, NEW q \in Seq(S), NEW e \in S, NEW i \in 1 .. Len(q)+1
  PROVE  InsertAt(q, i, e) =
            [j \in 1 .. Len(q)+1 |-> IF j < i THEN q[j] ELSE IF j = i THEN e ELSE q[j-1]]
<1> DEFINE a == SubSeq(q, 1, i-1)
           b == SubSeq(q, i, Len(q))
<1>1. a \in Seq(S) /\ Len(a) = i-1 /\ \A j \in 1 .. i-1 : a[j] = q[j]
  BY SubSeqProperties
<1>2. b \in Seq(S) /\ Len(b) = Len(q)-i+1 /\ \A j \in 1 .. Len(q)-i+1 : b[j] = q[i+j-1]
  BY SubSeqProperties
<1>3. <<e>> \in Seq(S) /\ Len(<<e>>) = 1 /\ <<e>>[1] = e
  OBVIOUS
<1> HIDE DEF a, b
<1> DEFINE c == a \o <<e>>
<1>4. c \in Seq(S) /\ Len(c) = i /\ \A j \in 1 .. i : c[j] = IF j < i THEN q[j] ELSE e
  BY <1>1, <1>3, ConcatProperties
<1> HIDE DEF c
<1> DEFINE d == c \o b
<1>5. /\ d \in Seq(S)
      /\ Len(d) = Len(q)+1
      /\ \A j \in 1 .. Len(q)+1 : d[j] = IF j <= i THEN c[j] ELSE b[j-i]
  BY <1>2, <1>4, ConcatProperties
<1> HIDE DEF d
<1>6. \A j \in 1 .. Len(q)+1 : d[j] = IF j < i THEN q[j] ELSE IF j = i THEN e ELSE q[j-1]
  <2> SUFFICES ASSUME NEW j \in 1 .. Len(q)+1
               PROVE  d[j] = IF j < i THEN q[j] ELSE IF j = i THEN e ELSE q[j-1]
    OBVIOUS
  <2>1. CASE j <= i
    BY <1>4, <1>5, <2>1
  <2>2. CASE j > i
    <3>1. j-i \in 1 .. Len(q)-i+1 /\ i+(j-i)-1 = j-1
      BY <2>2
    <3>2. b[j-i] = q[j-1]
      BY <1>2, <3>1
    <3>3. d[j] = b[j-i]
      BY <1>5, <2>2
    <3> QED  BY <2>2, <3>2, <3>3
  <2> QED  BY <2>1, <2>2
<1>7. d = [j \in 1 .. Len(q)+1 |-> IF j < i THEN q[j] ELSE IF j = i THEN e ELSE q[j-1]]
  BY <1>5, <1>6
<1> QED  BY <1>7 DEF InsertAt, a, b, c, d

\* And one taken out.
LEMMA RemoveAtElements ==
  ASSUME NEW S, NEW q \in Seq(S), NEW i \in 1 .. Len(q)
  PROVE  RemoveAt(q, i) = [j \in 1 .. Len(q)-1 |-> IF j < i THEN q[j] ELSE q[j+1]]
<1> DEFINE a == SubSeq(q, 1, i-1)
           b == SubSeq(q, i+1, Len(q))
           c == a \o b
           d == [j \in 1 .. Len(q)-1 |-> IF j < i THEN q[j] ELSE q[j+1]]
<1>1. q \in Seq(S) /\ DOMAIN q = 1 .. Len(q) /\ Len(q) \in Nat
  OBVIOUS
<1>2. a \in Seq(S) /\ Len(a) = i-1 /\ \A j \in 1 .. i-1 : a[j] = q[j]
  BY <1>1, SubSeqProperties
<1>3. b \in Seq(S) /\ Len(b) = Len(q)-i /\ \A j \in 1 .. Len(q)-i : b[j] = q[i+1+j-1]
  <2>1. i+1 \in Int /\ Len(q) \in Int /\ \A j \in i+1 .. Len(q) : q[j] \in S
    BY <1>1
  <2>2. /\ b \in Seq(S)
        /\ Len(b) = IF i+1 <= Len(q) THEN Len(q)-(i+1)+1 ELSE 0
        /\ \A j \in 1 .. Len(q)-(i+1)+1 : b[j] = q[i+1+j-1]
    BY <2>1, SubSeqProperties
  <2> HIDE DEF a, b
  <2>3. Len(q)-(i+1)+1 = Len(q)-i
    BY <1>1
  <2>4. Len(b) = Len(q)-i
    <3>1. CASE i+1 <= Len(q)
      BY <2>2, <2>3, <3>1
    <3>2. CASE ~(i+1 <= Len(q))
      <4>1. Len(b) = 0
        BY <2>2, <3>2
      <4>2. i = Len(q)
        <5>1. Len(q) \in Nat /\ i \in Nat /\ i <= Len(q)
          BY <1>1
        <5> QED  BY <3>2, <5>1
      <4> QED  BY <1>1, <4>1, <4>2
    <3> QED  BY <3>1, <3>2
  <2> QED  BY <2>2, <2>3, <2>4
<1> HIDE DEF a, b
<1>4. /\ c \in Seq(S)
      /\ Len(c) = Len(q)-1
      /\ \A j \in 1 .. Len(q)-1 : c[j] = IF j <= i-1 THEN a[j] ELSE b[j-(i-1)]
  <2>1. /\ c \in Seq(S)
        /\ Len(c) = Len(a) + Len(b)
        /\ \A j \in 1 .. Len(a)+Len(b) : c[j] = IF j <= Len(a) THEN a[j] ELSE b[j-Len(a)]
    BY <1>2, <1>3, ConcatProperties
  <2>2. Len(a) + Len(b) = Len(q)-1
    BY <1>1, <1>2, <1>3
  <2> QED  BY <1>2, <2>1, <2>2
<1> HIDE DEF c
<1>5. ASSUME NEW j \in 1 .. Len(q)-1  PROVE c[j] = d[j]
  <2>1. CASE j < i
    BY <1>2, <1>4, <2>1
  <2>2. CASE j >= i
    <3>1. j-(i-1) \in 1 .. Len(q)-i /\ i+1+(j-(i-1))-1 = j+1
      BY <1>1, <2>2
    <3>2. b[j-(i-1)] = q[j+1]
      BY <1>3, <3>1
    <3>3. c[j] = b[j-(i-1)]
      BY <1>4, <2>2
    <3> QED  BY <2>2, <3>2, <3>3
  <2> QED  BY <2>1, <2>2
<1>6. c = d
  BY <1>1, <1>4, <1>5
<1> HIDE DEF d
<1>7. RemoveAt(q, i) = d
  BY <1>6, Zenon DEF RemoveAt, a, b, c
<1> QED  BY <1>7 DEF d

-----------------------------------------------------------------------------
\* A queue of processes: a sequence without duplicates.
Queue(S) == {q \in Seq(S) : IsInjective(q)}

\* The empty sequence is a queue, of nobody.
LEMMA EmptyQueue ==
  ASSUME NEW S
  PROVE  <<>> \in Queue(S) /\ Range(<<>>) = {}
BY DEF Queue, IsInjective, Range

\* InsertAt puts one new item into a queue.
LEMMA InsertAtQueue ==
  ASSUME NEW S, NEW q \in Queue(S), NEW e \in S, e \notin Range(q),
         NEW i \in 1 .. Len(q)+1
  PROVE  /\ InsertAt(q, i, e) \in Queue(S)
         /\ Range(InsertAt(q, i, e)) = Range(q) \cup {e}
<1> DEFINE r == [j \in 1 .. Len(q)+1 |-> IF j < i THEN q[j] ELSE IF j = i THEN e ELSE q[j-1]]
<1>1. InsertAt(q, i, e) = r
  BY InsertAtElements DEF Queue
<1>2. q \in Seq(S) /\ DOMAIN q = 1 .. Len(q) /\ Len(q) \in Nat /\ IsInjective(q)
  BY DEF Queue
<1>3. \A j \in 1 .. Len(q) : q[j] \in S /\ q[j] # e
  BY <1>2 DEF Range
<1>4. r \in Seq(S) /\ DOMAIN r = 1 .. Len(q)+1
  BY <1>2, <1>3
<1>5. IsInjective(r)
  BY <1>2, <1>3, <1>4 DEF IsInjective
<1>6. Range(r) \subseteq Range(q) \cup {e}
  BY <1>2, <1>4 DEF Range
<1>7. e \in Range(r)
  BY <1>4 DEF Range
<1>8. ASSUME NEW j \in 1 .. Len(q)  PROVE q[j] \in Range(r)
  <2>1. CASE j < i
    BY <1>4, <2>1 DEF Range
  <2>2. CASE j >= i
    <3>1. j+1 \in 1 .. Len(q)+1 /\ r[j+1] = q[j]
      BY <1>2, <2>2
    <3> QED  BY <1>4, <3>1 DEF Range
  <2> QED  BY <2>1, <2>2
<1>9. Range(r) = Range(q) \cup {e}
  BY <1>2, <1>6, <1>7, <1>8 DEF Range
<1> QED  BY <1>1, <1>4, <1>5, <1>9 DEF Queue

\* RemoveAt takes one item out of a queue.
LEMMA RemoveAtQueue ==
  ASSUME NEW S, NEW q \in Queue(S), NEW i \in 1 .. Len(q)
  PROVE  /\ RemoveAt(q, i) \in Queue(S)
         /\ Len(RemoveAt(q, i)) = Len(q) - 1
         /\ Range(RemoveAt(q, i)) = Range(q) \ {q[i]}
<1> DEFINE d == [j \in 1 .. Len(q)-1 |-> IF j < i THEN q[j] ELSE q[j+1]]
<1>1. q \in Seq(S) /\ DOMAIN q = 1 .. Len(q) /\ Len(q) \in Nat /\ IsInjective(q)
  BY DEF Queue
<1>2. RemoveAt(q, i) = d
  BY <1>1, RemoveAtElements
<1>3. d \in Seq(S) /\ DOMAIN d = 1 .. Len(q)-1 /\ Len(d) = Len(q)-1
  BY <1>1
<1>4. IsInjective(d)
  BY <1>1, <1>3 DEF IsInjective
<1>5. Range(d) \subseteq Range(q) \ {q[i]}
  BY <1>1, <1>3 DEF Range, IsInjective
<1>6. ASSUME NEW j \in 1 .. Len(q), j # i  PROVE q[j] \in Range(d)
  <2>1. CASE j < i
    <3>1. j \in 1 .. Len(q)-1 /\ d[j] = q[j]
      BY <1>1, <2>1
    <3> QED  BY <1>3, <3>1 DEF Range
  <2>2. CASE j > i
    <3>1. j-1 \in 1 .. Len(q)-1 /\ d[j-1] = q[j]
      BY <1>1, <2>2
    <3> QED  BY <1>3, <3>1 DEF Range
  <2> QED  BY <1>6, <2>1, <2>2
<1>7. Range(d) = Range(q) \ {q[i]}
  BY <1>1, <1>5, <1>6 DEF Range
<1> QED  BY <1>2, <1>3, <1>4, <1>7 DEF Queue

-----------------------------------------------------------------------------
\* getitem, of a process that is on the queue.
LEMMA GetItemQueue ==
  ASSUME NEW S, NEW q \in Queue(S), NEW p \in Range(q)
  PROVE  /\ GetItem(q, p) \in Queue(S)
         /\ Len(GetItem(q, p)) = Len(q) - 1
         /\ Range(GetItem(q, p)) = Range(q) \ {p}
<1>1. DOMAIN q = 1 .. Len(q)
  BY DEF Queue
<1> DEFINE i == CHOOSE j \in DOMAIN q : q[j] = p
<1>2. i \in 1 .. Len(q) /\ q[i] = p
  BY <1>1 DEF Range
<1> HIDE DEF i
<1>3. GetItem(q, p) = RemoveAt(q, i)
  BY DEF GetItem, i
<1> QED  BY <1>2, <1>3, RemoveAtQueue

\* The library's RemoveFirst, of an item that is on the queue, is getitem.
LEMMA RemoveFirstQueue ==
  ASSUME NEW S, NEW q \in Queue(S), NEW p \in Range(q)
  PROVE  RemoveFirst(q, p) = GetItem(q, p)
<1>1. DOMAIN q = 1 .. Len(q) /\ Len(q) \in Nat
  BY DEF Queue
<1>2. PICK i \in 1 .. Len(q) : q[i] = p
  BY <1>1 DEF Range
<1>3. \A j \in 1 .. Len(q) : q[j] = p => j = i
  BY <1>1, <1>2 DEF Queue, IsInjective
<1>4. {j \in 1 .. Len(q) : q[j] = p} = {i}
  BY <1>2, <1>3
<1>5. Min({i}) = i
  <2>1. {i} \subseteq Nat /\ {i} # {}
    BY <1>1
  <2>2. Min({i}) \in {i}
    BY <2>1, MinNat
  <2> QED  BY <2>2
<1>6. SelectInSeq(q, LAMBDA v : v = p) = i
  BY <1>4, <1>5 DEF SelectInSeq
<1>7. RemoveFirst(q, p) = RemoveAt(q, i)
  BY <1>2, <1>6 DEF RemoveFirst
<1>8. (CHOOSE j \in DOMAIN q : q[j] = p) = i
  BY <1>1, <1>2, <1>3
<1> QED  BY <1>7, <1>8 DEF GetItem

\* dequeue, of a queue that is not empty.
LEMMA DequeueQueue ==
  ASSUME NEW S, NEW q \in Queue(S), ~IsEmpty(q)
  PROVE  /\ Head(q) \in Range(q) /\ Head(q) \in S
         /\ Tail(q) \in Queue(S)
         /\ Len(Tail(q)) = Len(q) - 1
         /\ Range(Tail(q)) = Range(q) \ {Head(q)}
<1>1. q \in Seq(S) /\ DOMAIN q = 1 .. Len(q) /\ Len(q) \in Nat /\ Len(q) >= 1 /\ q # <<>>
  BY DEF Queue, IsEmpty
<1>2. Head(q) = q[1]
  BY <1>1
<1>3. Tail(q) \in Seq(S) /\ Len(Tail(q)) = Len(q)-1
        /\ \A j \in 1 .. Len(q)-1 : Tail(q)[j] = q[j+1]
  BY <1>1, HeadTailProperties
<1>4. DOMAIN Tail(q) = 1 .. Len(q)-1
  BY <1>3
<1>5. \A j, k \in 1 .. Len(q) : q[j] = q[k] => j = k
  BY <1>1 DEF Queue, IsInjective
<1>6. IsInjective(Tail(q))
  BY <1>1, <1>3, <1>4, <1>5 DEF IsInjective
<1>7. Range(Tail(q)) \subseteq Range(q) \ {q[1]}
  BY <1>1, <1>3, <1>4, <1>5 DEF Range
<1>8. ASSUME NEW j \in 1 .. Len(q), j # 1  PROVE q[j] \in Range(Tail(q))
  <2>1. j-1 \in 1 .. Len(q)-1 /\ Tail(q)[j-1] = q[j]
    BY <1>1, <1>3, <1>8
  <2> QED  BY <1>4, <2>1 DEF Range
<1>9. Range(Tail(q)) = Range(q) \ {q[1]}
  BY <1>1, <1>7, <1>8 DEF Range
<1>10. q[1] \in Range(q) /\ q[1] \in S
  BY <1>1 DEF Range
<1> QED  BY <1>2, <1>3, <1>6, <1>9, <1>10 DEF Queue

\* enqueue, of a process that is not on the queue.
LEMMA EnqueueQueue ==
  ASSUME NEW S, NEW q \in Queue(S), NEW p \in S, p \notin Range(q)
  PROVE  /\ Enqueue(q, p) \in Queue(S)
         /\ Len(Enqueue(q, p)) = Len(q) + 1
         /\ Range(Enqueue(q, p)) = Range(q) \cup {p}
<1> DEFINE r == Append(q, p)
<1>1. q \in Seq(S) /\ DOMAIN q = 1 .. Len(q) /\ Len(q) \in Nat /\ IsInjective(q)
  BY DEF Queue
<1>2. /\ r \in Seq(S) /\ Len(r) = Len(q)+1 /\ DOMAIN r = 1 .. Len(q)+1
      /\ (\A j \in 1 .. Len(q) : r[j] = q[j]) /\ r[Len(q)+1] = p
  BY <1>1, AppendProperties
<1>3. \A j \in 1 .. Len(q) : q[j] # p
  BY <1>1 DEF Range
<1> HIDE DEF r
<1>4. IsInjective(r)
  BY <1>1, <1>2, <1>3 DEF IsInjective
<1>5. Range(r) = Range(q) \cup {p}
  BY <1>1, <1>2 DEF Range
<1> QED  BY <1>2, <1>4, <1>5 DEF Enqueue, Queue, r

\* insert stays within the queue, and links in one process.
LEMMA InsertQueue ==
  ASSUME NEW S, NEW q \in Queue(S), NEW p \in S, p \notin Range(q), NEW qkey, NEW key
  PROVE  /\ Insert(q, qkey, p, key) \in Queue(S)
         /\ Range(Insert(q, qkey, p, key)) = Range(q) \cup {p}
<1> DEFINE T == {i \in DOMAIN q : qkey[q[i]] < key} \cup {Len(q) + 1}
<1>1. DOMAIN q = 1 .. Len(q) /\ Len(q) \in Nat
  BY DEF Queue
<1>2. T \subseteq 1 .. Len(q)+1 /\ T # {} /\ T \subseteq Nat
  BY <1>1
<1> HIDE DEF T
<1>3. Min(T) \in 1 .. Len(q)+1
  BY <1>2, MinNat
<1>4. InsertPos(q, qkey, key) = Min(T)
  BY DEF InsertPos, T
<1> QED  BY <1>3, <1>4, InsertAtQueue DEF Insert

\* And so does insertd, whatever the keys.
LEMMA InsertdQueue ==
  ASSUME NEW S, NEW q \in Queue(S), NEW p \in S, p \notin Range(q), NEW qkey, NEW key
  PROVE  /\ InsertdPos(q, qkey, key) \in 1 .. Len(q)+1
         /\ Insertd(q, qkey, p, key) \in Queue(S)
         /\ Range(Insertd(q, qkey, p, key)) = Range(q) \cup {p}
<1> DEFINE T == {i \in DOMAIN q : Ahead(q, qkey)[i] > key} \cup {Len(q) + 1}
<1>1. DOMAIN q = 1 .. Len(q) /\ Len(q) \in Nat
  BY DEF Queue
<1>2. T \subseteq 1 .. Len(q)+1 /\ T # {} /\ T \subseteq Nat
  BY <1>1
<1> HIDE DEF T
<1>3. Min(T) \in 1 .. Len(q)+1
  BY <1>2, MinNat
<1>4. InsertdPos(q, qkey, key) = Min(T)
  BY DEF InsertdPos, T
<1> QED  BY <1>3, <1>4, InsertAtQueue DEF Insertd

-----------------------------------------------------------------------------
\* The partial sums of a delta list exist and are integers: by the least
\* length, and then the least index, for which they would not be.
LEMMA AheadInt ==
  ASSUME NEW S, NEW q \in Seq(S), NEW qkey \in [S -> Int]
  PROVE  \A i \in 0 .. Len(q) : Ahead(q, qkey)[i] \in Int
<1> DEFINE n == Len(q)
           Step(f, i) == IF i = 0 THEN 0 ELSE f[i-1] + qkey[q[i]]
           Sums(m, f) == f \in [0..m -> Int] /\ \A i \in 0..m : f[i] = Step(f, i)
           T == {m \in 0..n : ~ \E f : Sums(m, f)}
<1>1. n \in Nat /\ \A i \in 1..n : qkey[q[i]] \in Int
  OBVIOUS
<1>2. T = {}
  <2> SUFFICES ASSUME T # {}  PROVE FALSE
    OBVIOUS
  <2> DEFINE m == Min(T)
  <2>1. m \in T /\ (\A y \in T : m <= y) /\ m \in 0..n
    <3>1. T \subseteq Nat
      BY <1>1
    <3> HIDE DEF T
    <3>2. m \in T /\ (\A y \in T : m <= y)
      BY <3>1, MinNat
    <3> QED  BY <3>2 DEF T
  <2> HIDE DEF m
  <2>2. CASE m = 0
    <3> DEFINE f == [i \in 0..0 |-> 0]
    <3>1. Sums(0, f)
      OBVIOUS
    <3> QED  BY <2>1, <2>2, <3>1
  <2>3. CASE m # 0
    <3>1. m-1 \in 0..n /\ m \in 1..n
      BY <1>1, <2>1, <2>3
    <3> HIDE DEF Sums
    <3>6. m-1 \notin T
      <4> HIDE DEF T
      <4> QED  BY <2>1, <3>1
    <3>2. PICK f : Sums(m-1, f)
      BY <3>1, <3>6
    <3> USE DEF Sums
    <3> DEFINE g == [i \in 0..m |-> IF i < m THEN f[i] ELSE f[m-1] + qkey[q[m]]]
    <3>3. g \in [0..m -> Int]
      BY <1>1, <3>1, <3>2
    <3>4. \A i \in 0..m : g[i] = Step(g, i)
      BY <1>1, <3>1, <3>2
    <3>5. Sums(m, g)
      BY <3>3, <3>4
    <3> QED  BY <2>1, <3>5
  <2> QED  BY <2>2, <2>3
<1> HIDE DEF Sums
<1>3. PICK f : Sums(n, f)
  <2>1. n \in 0..n
    BY <1>1
  <2> QED  BY <1>2, <2>1
<1> USE DEF Sums
<1> DEFINE sum == Ahead(q, qkey)
<1>4. sum = [i \in 0..n |-> Step(sum, i)]
  <2>1. f = [i \in 0..n |-> Step(f, i)]
    BY <1>3
  <2> QED  BY <2>1 DEF Ahead
<1> HIDE DEF sum
<1> DEFINE U == {i \in 0..n : sum[i] \notin Int}
<1>5. U = {}
  <2> SUFFICES ASSUME U # {}  PROVE FALSE
    OBVIOUS
  <2> DEFINE m == Min(U)
  <2>1. m \in U /\ (\A y \in U : m <= y) /\ m \in 0..n
    <3>1. U \subseteq Nat
      BY <1>1
    <3> HIDE DEF U
    <3>2. m \in U /\ (\A y \in U : m <= y)
      BY <3>1, MinNat
    <3> QED  BY <3>2 DEF U
  <2> HIDE DEF m
  <2>2. sum[m] = Step(sum, m)
    BY <1>4, <2>1
  <2>3. m # 0
    BY <2>1, <2>2
  <2>4. m-1 \in 0..n /\ m-1 \notin U /\ m \in 1..n
    BY <1>1, <2>1, <2>3
  <2> QED  BY <1>1, <2>1, <2>2, <2>3, <2>4
<1> QED  BY <1>5 DEF sum

\* So insertd and unsleep keep the keys integers.
LEMMA InsertdKeysInt ==
  ASSUME NEW S, NEW q \in Queue(S), NEW p \in S, p \notin Range(q),
         NEW qkey \in [S -> Int], NEW key \in Int
  PROVE  InsertdKeys(q, qkey, p, key) \in [S -> Int]
<1> DEFINE i == InsertdPos(q, qkey, key)
           k == key - Ahead(q, qkey)[i-1]
<1>1. q \in Seq(S) /\ Len(q) \in Nat
  BY DEF Queue
<1>2. i \in 1 .. Len(q)+1
  BY InsertdQueue
<1> HIDE DEF i
<1>3. i-1 \in 0 .. Len(q)
  BY <1>1, <1>2
<1>4. k \in Int
  BY <1>1, <1>3, AheadInt
<1> HIDE DEF k
<1>5. InsertdKeys(q, qkey, p, key) =
        [x \in S |-> IF x = p THEN k
                     ELSE IF i <= Len(q) /\ x = q[i] THEN qkey[x] - k ELSE qkey[x]]
  BY DEF InsertdKeys, i, k
<1> QED  BY <1>4, <1>5

\* unsleep adds one key to another.
LEMMA UnsleepKeysInt ==
  ASSUME NEW S, NEW q, NEW p \in S, NEW qkey \in [S -> Int]
  PROVE  UnsleepKeys(q, qkey, p) \in [S -> Int]
BY DEF UnsleepKeys

\* Both touch the keys of nobody but the processes on the queue and the one
\* that joins it.
LEMMA OtherKeysStay ==
  ASSUME NEW S, NEW q \in Queue(S), NEW p \in S, NEW qkey \in [S -> Int], NEW key,
         NEW x \in S, x \notin Range(q)
  PROVE  /\ UnsleepKeys(q, qkey, p)[x] = qkey[x]
         /\ x # p => InsertdKeys(q, qkey, p, key)[x] = qkey[x]
<1>1. q \in Seq(S) /\ DOMAIN q = 1 .. Len(q) /\ Len(q) \in Nat
  BY DEF Queue
<1>2. \A i \in 1 .. Len(q) : q[i] # x
  BY <1>1 DEF Range
<1>3. UnsleepKeys(q, qkey, p)[x] = qkey[x]
  BY <1>1, <1>2 DEF UnsleepKeys
<1>4. ASSUME x # p
      PROVE  InsertdKeys(q, qkey, p, key)[x] = qkey[x]
  <2> DEFINE i == InsertdPos(q, qkey, key)
             T == {j \in DOMAIN q : Ahead(q, qkey)[j] > key} \cup {Len(q) + 1}
  <2>1. i \in 1 .. Len(q)+1
    <3>1. T \subseteq 1 .. Len(q)+1 /\ T # {} /\ T \subseteq Nat
      BY <1>1
    <3> HIDE DEF T
    <3>2. Min(T) \in 1 .. Len(q)+1
      BY <3>1, MinNat
    <3> QED  BY <3>2 DEF InsertdPos, T
  <2> HIDE DEF i
  <2>2. ~(i <= Len(q) /\ x = q[i])
    BY <1>1, <1>2, <2>1
  <2> QED  BY <1>4, <2>2 DEF InsertdKeys, i
<1> QED  BY <1>3, <1>4

-----------------------------------------------------------------------------
\* A queue by key: the ready list, the highest priority first.
Descending(q, key) == \A i, j \in 1 .. Len(q) : i < j => key[q[i]] >= key[q[j]]

\* Nobody on it has a higher key than its head.
LEMMA HeadHighest ==
  ASSUME NEW S, NEW q \in Queue(S), ~IsEmpty(q), NEW qkey \in [S -> Int], Descending(q, qkey),
         NEW p \in Range(q)
  PROVE  qkey[p] <= qkey[Head(q)]
<1>1. q \in Seq(S) /\ DOMAIN q = 1 .. Len(q) /\ Len(q) \in Nat /\ Len(q) >= 1 /\ Head(q) = q[1]
  BY DEF Queue, IsEmpty
<1>2. PICK i \in 1 .. Len(q) : q[i] = p
  BY <1>1 DEF Range
<1>3. 1 \in 1 .. Len(q) /\ q[1] \in S /\ q[i] \in S
  BY <1>1
<1>4. CASE i = 1
  BY <1>1, <1>2, <1>3, <1>4
<1>5. CASE 1 < i
  BY <1>1, <1>2, <1>3, <1>5 DEF Descending
<1> QED  BY <1>4, <1>5

\* insert keeps the order, whatever keys it does not look at become.
LEMMA InsertDescending ==
  ASSUME NEW S, NEW q \in Queue(S), NEW p \in S, p \notin Range(q), NEW qkey \in [S -> Int],
         NEW key \in Int, Descending(q, qkey)
  PROVE  Descending(Insert(q, qkey, p, key), [qkey EXCEPT ![p] = key])
<1> DEFINE T == {i \in DOMAIN q : qkey[q[i]] < key} \cup {Len(q) + 1}
           pos == Min(T)
           new == [qkey EXCEPT ![p] = key]
           r == [j \in 1 .. Len(q)+1 |-> IF j < pos THEN q[j] ELSE IF j = pos THEN p ELSE q[j-1]]
<1>1. /\ q \in Seq(S) /\ DOMAIN q = 1 .. Len(q) /\ Len(q) \in Nat
      /\ \A j \in 1 .. Len(q) : q[j] \in S /\ q[j] # p
  BY DEF Queue, Range
<1>2. pos \in T /\ (\A y \in T : pos <= y) /\ pos \in 1 .. Len(q)+1
  <2>1. T \subseteq 1 .. Len(q)+1 /\ T # {} /\ T \subseteq Nat
    BY <1>1
  <2> HIDE DEF T
  <2>2. pos \in T /\ (\A y \in T : pos <= y)
    BY <2>1, MinNat
  <2> QED  BY <2>1, <2>2
<1> HIDE DEF pos
<1>3. Insert(q, qkey, p, key) = r
  <2>1. InsertPos(q, qkey, key) = pos
    BY DEF InsertPos, pos
  <2>2. InsertAt(q, pos, p) = r
    BY <1>1, <1>2, InsertAtElements
  <2> HIDE DEF r
  <2> QED  BY <2>1, <2>2 DEF Insert
<1>4. \A j \in 1 .. Len(q) : new[q[j]] = qkey[q[j]] /\ qkey[q[j]] \in Int
  BY <1>1
<1>5. new[p] = key
  OBVIOUS
<1>6. \A j \in 1 .. Len(q) : j < pos => qkey[q[j]] >= key
  BY <1>1, <1>2, <1>4
<1>7. \A j \in 1 .. Len(q) : pos <= j => qkey[q[j]] < key
  <2> SUFFICES ASSUME NEW j \in 1 .. Len(q), pos <= j  PROVE qkey[q[j]] < key
    OBVIOUS
  <2>1. pos \in 1 .. Len(q) /\ qkey[q[pos]] < key
    BY <1>1, <1>2
  <2>2. qkey[q[pos]] >= qkey[q[j]]
    BY <1>4, <2>1 DEF Descending
  <2> QED  BY <1>4, <2>1, <2>2
<1> HIDE DEF new, T
<1>8. Len(r) = Len(q)+1
  BY <1>1
<1>9. \A i, j \in 1 .. Len(q)+1 : i < j => new[r[i]] >= new[r[j]]
  <2> SUFFICES ASSUME NEW i \in 1 .. Len(q)+1, NEW j \in 1 .. Len(q)+1, i < j
               PROVE  new[r[i]] >= new[r[j]]
    OBVIOUS
  <2>1. CASE j < pos
    <3>1. i \in 1 .. Len(q) /\ j \in 1 .. Len(q) /\ r[i] = q[i] /\ r[j] = q[j]
      BY <1>1, <1>2, <2>1
    <3> QED  BY <1>4, <3>1 DEF Descending
  <2>2. CASE j = pos
    <3>1. i \in 1 .. Len(q) /\ i < pos /\ r[i] = q[i] /\ r[j] = p
      BY <1>1, <1>2, <2>2
    <3> QED  BY <1>4, <1>5, <1>6, <3>1
  <2>3. CASE pos < j
    <3>1. j-1 \in 1 .. Len(q) /\ pos <= j-1 /\ r[j] = q[j-1]
      BY <1>1, <1>2, <2>3
    <3>2. new[r[j]] < key /\ new[r[j]] \in Int
      BY <1>4, <1>7, <3>1
    <3>3. CASE i < pos
      <4>1. i \in 1 .. Len(q) /\ r[i] = q[i]
        BY <1>1, <1>2, <3>3
      <4>2. new[r[i]] >= key /\ new[r[i]] \in Int
        BY <1>4, <1>6, <3>3, <4>1
      <4> QED  BY <3>2, <4>2
    <3>4. CASE i = pos
      BY <1>5, <3>2, <3>4
    <3>5. CASE pos < i
      <4>1. i-1 \in 1 .. Len(q) /\ i-1 < j-1 /\ r[i] = q[i-1]
        BY <1>1, <1>2, <3>5
      <4> QED  BY <1>4, <3>1, <4>1 DEF Descending
    <3> QED  BY <1>2, <3>3, <3>4, <3>5
  <2> QED  BY <1>2, <2>1, <2>2, <2>3
<1> QED  BY <1>3, <1>8, <1>9 DEF Descending, new

\* So do dequeue and getitem.
LEMMA LeaveDescending ==
  ASSUME NEW S, NEW q \in Queue(S), NEW qkey, Descending(q, qkey), NEW p \in Range(q)
  PROVE  /\ Descending(Tail(q), qkey)
         /\ Descending(GetItem(q, p), qkey)
<1>1. q \in Seq(S) /\ DOMAIN q = 1 .. Len(q) /\ Len(q) \in Nat
  BY DEF Queue
<1>2. PICK i \in 1 .. Len(q) : i = (CHOOSE j \in DOMAIN q : q[j] = p)
  BY <1>1 DEF Range
<1>3. q # <<>>
  BY <1>1, <1>2
<1>4. /\ Len(Tail(q)) = Len(q)-1
      /\ \A j \in 1 .. Len(q)-1 : Tail(q)[j] = q[j+1]
  BY <1>1, <1>3, HeadTailProperties
<1>5. Descending(Tail(q), qkey)
  BY <1>1, <1>4 DEF Descending
<1> DEFINE d == [j \in 1 .. Len(q)-1 |-> IF j < i THEN q[j] ELSE q[j+1]]
<1>6. GetItem(q, p) = d
  BY <1>1, <1>2, RemoveAtElements DEF GetItem
<1>7. Len(d) = Len(q)-1
  BY <1>1, <1>2
<1>8. \A j, k \in 1 .. Len(q)-1 : j < k => qkey[d[j]] >= qkey[d[k]]
  <2> SUFFICES ASSUME NEW j \in 1 .. Len(q)-1, NEW k \in 1 .. Len(q)-1, j < k
               PROVE  qkey[d[j]] >= qkey[d[k]]
    OBVIOUS
  <2>1. \E a, b \in 1 .. Len(q) : a < b /\ d[j] = q[a] /\ d[k] = q[b]
    <3>1. CASE k < i
      BY <1>1, <3>1
    <3>2. CASE ~(k < i) /\ j < i
      <4>1. j \in 1 .. Len(q) /\ k+1 \in 1 .. Len(q) /\ j < k+1 /\ d[j] = q[j] /\ d[k] = q[k+1]
        BY <1>1, <3>2
      <4> QED  BY <4>1
    <3>3. CASE ~(j < i)
      <4>1. /\ j+1 \in 1 .. Len(q) /\ k+1 \in 1 .. Len(q) /\ j+1 < k+1
            /\ d[j] = q[j+1] /\ d[k] = q[k+1]
        BY <1>1, <3>3
      <4> QED  BY <4>1
    <3> QED  BY <3>1, <3>2, <3>3
  <2> QED  BY <2>1 DEF Descending
<1> QED  BY <1>5, <1>6, <1>7, <1>8 DEF Descending
=============================================================================
