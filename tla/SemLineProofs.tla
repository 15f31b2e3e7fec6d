--------------------------- MODULE SemLineProofs ---------------------------
(***************************************************************************)
(* What wait, signal and kill do to a semaphore that is a count and a line *)
(* of processes, and how the cardinality of a set of processes changes.    *)
(***************************************************************************)
EXTENDS SemLine, QueuesProofs, FiniteSetTheorems

\* A semaphore whose negative count is the number of processes in its line.
SemOK(s, P) ==
    /\ s = [count |-> s.count, line |-> s.line]
    /\ s.count \in Int
    /\ s.line \in Queue(P)
    /\ s.count >= 0 => s.line = <<>>
    /\ s.count < 0  => Len(s.line) + s.count = 0

\* A new semaphore has nobody in line.
LEMMA NewSemOK ==
    ASSUME NEW P, NEW n \in Nat
    PROVE  /\ SemOK(NewSem(n), P) /\ InLine(NewSem(n)) = {}
           /\ NewSem(n).count = n
<1>1. NewSem(n).count = n /\ NewSem(n).line = <<>>
      /\ NewSem(n) = [count |-> NewSem(n).count, line |-> NewSem(n).line]
  BY DEF NewSem
<1> QED BY <1>1, EmptyQueue DEF SemOK, InLine

\* Nobody is in line for a semaphore that has units or none to spare.
LEMMA NobodyInLine ==
    ASSUME NEW P, NEW s, SemOK(s, P)
    PROVE  /\ s.count >= 0 => InLine(s) = {}
           /\ s.count < 0 => InLine(s) # {}
           /\ InLine(s) \subseteq P
<1>1. s.count >= 0 => InLine(s) = {}
  BY EmptyQueue DEF SemOK, InLine
<1>2. s.count < 0 => InLine(s) # {}
  <2> SUFFICES ASSUME s.count < 0 PROVE InLine(s) # {}
    OBVIOUS
  <2>1. s.line \in Seq(P) /\ Len(s.line) >= 1
    BY DEF SemOK, Queue
  <2>2. s.line[1] \in Range(s.line)
    BY <2>1 DEF Range
  <2> QED BY <2>2 DEF InLine
<1>3. InLine(s) \subseteq P
  BY DEF SemOK, InLine, Queue, Range
<1> QED BY <1>1, <1>2, <1>3

\* wait takes a unit, or joins the line.
LEMMA SemWaitOK ==
    ASSUME NEW P, NEW s, SemOK(s, P), NEW p \in P, p \notin InLine(s)
    PROVE  /\ SemOK(SemWait(s, p), P)
           /\ SemWait(s, p).count = s.count - 1
           /\ InLine(SemWait(s, p)) = IF s.count <= 0 THEN InLine(s) \cup {p} ELSE {}
<1> DEFINE w == SemWait(s, p)
<1>1. /\ w.count = s.count - 1
      /\ w.line = IF s.count - 1 < 0 THEN Append(s.line, p) ELSE s.line
      /\ w = [count |-> w.count, line |-> w.line]
  BY DEF SemWait
<1>2. s.count \in Int /\ s.line \in Queue(P)
  BY DEF SemOK
<1>3. /\ Append(s.line, p) \in Queue(P)
      /\ Len(Append(s.line, p)) = Len(s.line) + 1
      /\ Range(Append(s.line, p)) = Range(s.line) \cup {p}
  BY <1>2, EnqueueQueue DEF InLine, Enqueue
<1> HIDE DEF w
<1>4. CASE s.count <= 0
  <2>1. /\ w.line = Append(s.line, p) /\ Len(w.line) + w.count = 0
        /\ w.count < 0
    <3>1. Len(<<>>) = 0
      OBVIOUS
    <3>2. Len(s.line) + s.count = 0
      BY <1>2, <1>4, <3>1 DEF SemOK
    <3> QED BY <1>1, <1>2, <1>3, <1>4, <3>2
  <2>2. SemOK(w, P)
    BY <1>1, <1>2, <1>3, <2>1 DEF SemOK
  <2>3. InLine(w) = InLine(s) \cup {p}
    BY <1>3, <2>1 DEF InLine
  <2> QED BY <1>1, <1>4, <2>2, <2>3 DEF w
<1>5. CASE s.count > 0
  <2>1. w.line = <<>> /\ w.count >= 0 /\ w.count \in Int
    BY <1>1, <1>2, <1>5 DEF SemOK
  <2>2. w.line \in Queue(P) /\ Range(w.line) = {}
    BY <2>1, EmptyQueue
  <2>3. SemOK(w, P)
    BY <1>1, <2>1, <2>2 DEF SemOK
  <2>4. InLine(w) = {}
    BY <2>1, <2>2 DEF InLine
  <2>5. ~(s.count <= 0)
    BY <1>2, <1>5
  <2> QED BY <1>1, <2>3, <2>4, <2>5 DEF w
<1> QED BY <1>2, <1>4, <1>5

\* signal gives a unit back, or lets the first in line go.
LEMMA SemSignalOK ==
    ASSUME NEW P, NEW s, SemOK(s, P)
    PROVE  /\ SemOK(SemSignal(s), P)
           /\ SemSignal(s).count = s.count + 1
           /\ s.count >= 0 => InLine(SemSignal(s)) = InLine(s)
           /\ s.count < 0 => \E h \in InLine(s) : InLine(SemSignal(s)) = InLine(s) \ {h}
<1> DEFINE w == SemSignal(s)
<1>1. /\ w.count = s.count + 1
      /\ w.line = IF s.count < 0 THEN Tail(s.line) ELSE s.line
      /\ w = [count |-> w.count, line |-> w.line]
  BY DEF SemSignal
<1>2. /\ s.count \in Int /\ s.line \in Queue(P)
      /\ s.count >= 0 => s.line = <<>>
      /\ s.count < 0  => Len(s.line) + s.count = 0
  BY DEF SemOK
<1> HIDE DEF w
<1>3. ASSUME s.count < 0
      PROVE  /\ Head(s.line) \in Range(s.line)
             /\ Tail(s.line) \in Queue(P)
             /\ Len(Tail(s.line)) = Len(s.line) - 1
             /\ Range(Tail(s.line)) = Range(s.line) \ {Head(s.line)}
  <2>1. s.line # <<>>
    <3>1. Len(<<>>) = 0
      OBVIOUS
    <3> QED BY <1>2, <1>3, <3>1
  <2> QED BY <1>2, <2>1, DequeueQueue DEF IsEmpty
<1>4. ASSUME s.count < 0, s.count + 1 >= 0
      PROVE  Tail(s.line) = <<>>
  <2>1. PICK t : t = Tail(s.line)
    OBVIOUS
  <2>2. t \in Seq(P) /\ Len(t) = Len(s.line) - 1
    BY <1>3, <1>4, <2>1 DEF Queue
  <2>3. Len(t) = 0
    <3>1. s.count = -1
      BY <1>2, <1>4
    <3>2. Len(s.line) = 1
      <4>1. Len(s.line) \in Nat /\ s.count < 0
        BY <1>2, <3>1 DEF Queue
      <4>2. Len(s.line) + s.count = 0
        BY <1>2, <4>1
      <4> QED BY <3>1, <4>1, <4>2
    <3> QED BY <2>2, <3>2
  <2>4. t = <<>>
    BY <2>2, <2>3
  <2> QED BY <2>1, <2>4
<1>5. CASE s.count < 0
  BY <1>1, <1>2, <1>3, <1>4, <1>5 DEF SemOK, InLine, w
<1>6. CASE s.count >= 0
  BY <1>1, <1>2, <1>6 DEF SemOK, InLine, w
<1> QED BY <1>2, <1>5, <1>6

\* kill takes one process out of the line, and gives its unit back.
LEMMA SemKillOK ==
    ASSUME NEW P, NEW s, SemOK(s, P), NEW p
    PROVE  /\ SemOK(SemKill(s, p), P)
           /\ InLine(SemKill(s, p)) = InLine(s) \ {p}
           /\ p \in InLine(s) => SemKill(s, p).count = s.count + 1 /\ s.count < 0
           /\ p \notin InLine(s) => SemKill(s, p) = s
<1>1. CASE p \notin InLine(s)
  BY <1>1 DEF SemKill
<1>2. CASE p \in InLine(s)
  <2> DEFINE w == SemKill(s, p)
  <2>1. /\ w.count = s.count + 1 /\ w.line = RemoveFirst(s.line, p)
        /\ w = [count |-> w.count, line |-> w.line]
    BY <1>2 DEF SemKill
  <2> HIDE DEF w
  <2>2. /\ s.count \in Int /\ s.line \in Queue(P)
        /\ s.count >= 0 => s.line = <<>>
        /\ s.count < 0  => Len(s.line) + s.count = 0
    BY DEF SemOK
  <2>3. s.count < 0
    BY <1>2, <2>2, NobodyInLine
  <2>4. /\ w.line \in Queue(P) /\ Len(w.line) = Len(s.line) - 1
        /\ Range(w.line) = Range(s.line) \ {p}
    BY <1>2, <2>1, <2>2, RemoveFirstQueue, GetItemQueue DEF InLine
  <2>5. Len(w.line) = 0 => w.line = <<>>
    BY <2>4 DEF Queue
  <2> QED BY <1>2, <2>1, <2>2, <2>3, <2>4, <2>5 DEF SemOK, InLine, w
<1> QED BY <1>1, <1>2

\* The units of a semaphore are its count, if that is not negative.
LEMMA UnitsAre ==
    ASSUME NEW P, NEW s, SemOK(s, P)
    PROVE  /\ Units(s) \in Nat
           /\ s.count > 0 => Units(s) = s.count
           /\ s.count <= 0 => Units(s) = 0
  BY DEF SemOK, Units

\* A signal gives a unit or lets the first in line come in.
LEMMA SignalLetsIn ==
    ASSUME NEW P, NEW s, SemOK(s, P)
    PROVE  \E h : /\ InLine(SemSignal(s)) \subseteq InLine(s)
                  /\ InLine(s) \subseteq InLine(SemSignal(s)) \cup {h}
                  /\ \/ Units(SemSignal(s)) = Units(s)
                     \/ Units(SemSignal(s)) = Units(s) + 1 /\ InLine(s) = InLine(SemSignal(s))
<1>1. /\ SemOK(SemSignal(s), P)
      /\ SemSignal(s).count = s.count + 1
      /\ s.count >= 0 => InLine(SemSignal(s)) = InLine(s)
      /\ s.count < 0 => \E h \in InLine(s) : InLine(SemSignal(s)) = InLine(s) \ {h}
  BY SemSignalOK
<1>2. s.count \in Int
  BY DEF SemOK
<1>3. CASE s.count < 0
  <2>1. Units(SemSignal(s)) = Units(s)
    BY <1>1, <1>2, <1>3, UnitsAre
  <2>2. PICK h \in InLine(s) : InLine(SemSignal(s)) = InLine(s) \ {h}
    BY <1>1, <1>3
  <2> QED BY <2>1, <2>2
<1>4. CASE s.count >= 0
  <2>1. Units(SemSignal(s)) = Units(s) + 1
    <3>1. Units(SemSignal(s)) = s.count + 1
      BY <1>1, <1>2, <1>4, UnitsAre
    <3>2. Units(s) = s.count
      BY <1>2, <1>4, UnitsAre
    <3> QED BY <3>1, <3>2
  <2> QED BY <1>1, <1>4, <2>1
<1> QED BY <1>2, <1>3, <1>4

\* Cardinality of subsets of a finite set.
LEMMA SubsetCard ==
    ASSUME NEW P, IsFiniteSet(P), NEW S, NEW T, S \subseteq P, T \subseteq P
    PROVE  /\ Cardinality(S) \in Nat
           /\ S \subseteq T => Cardinality(S) <= Cardinality(T)
           /\ \A h : S \subseteq T \cup {h} => Cardinality(S) <= Cardinality(T) + 1
           /\ \A p : p \in T /\ S \subseteq T \ {p} => Cardinality(S) <= Cardinality(T) - 1
<1>1. IsFiniteSet(S) /\ IsFiniteSet(T)
  BY FS_Subset
<1>2. Cardinality(S) \in Nat /\ Cardinality(T) \in Nat
  BY <1>1, FS_CardinalityType
<1>3. S \subseteq T => Cardinality(S) <= Cardinality(T)
  BY <1>1, FS_Subset
<1>4. ASSUME NEW h, S \subseteq T \cup {h}
      PROVE  Cardinality(S) <= Cardinality(T) + 1
  <2>1. /\ IsFiniteSet(T \cup {h})
        /\ Cardinality(T \cup {h}) = IF h \in T THEN Cardinality(T) ELSE Cardinality(T) + 1
    BY <1>1, FS_AddElement
  <2>2. Cardinality(S) <= Cardinality(T \cup {h})
    BY <1>4, <2>1, FS_Subset
  <2> QED BY <1>2, <2>1, <2>2
<1>5. ASSUME NEW p, p \in T, S \subseteq T \ {p}
      PROVE  Cardinality(S) <= Cardinality(T) - 1
  <2>1. IsFiniteSet(T \ {p}) /\ Cardinality(T \ {p}) = Cardinality(T) - 1
    BY <1>1, <1>5, FS_RemoveElement
  <2>2. Cardinality(S) <= Cardinality(T \ {p})
    BY <1>5, <2>1, FS_Subset
  <2> QED BY <2>1, <2>2
<1> QED BY <1>2, <1>3, <1>4, <1>5

-----------------------------------------------------------------------------
\* Units, and the processes of a set W that want one and have been let in.

LEMMA WaitCounts ==
    ASSUME NEW P, IsFiniteSet(P), NEW s, SemOK(s, P), NEW W, W \subseteq P, InLine(s) \subseteq W,
           NEW p \in P, p \notin W
    PROVE  LET w == SemWait(s, p)
           IN  /\ SemOK(w, P)
               /\ p \in InLine(w) =>
                     /\ InLine(w) = InLine(s) \cup {p}
                     /\ Units(w) + Cardinality((W \cup {p}) \ InLine(w))
                           = Units(s) + Cardinality(W \ InLine(s))
               /\ p \notin InLine(w) =>
                     /\ InLine(w) = {} /\ InLine(s) = {} /\ s.count > 0
                     /\ Units(w) + 1 = Units(s)
<1> DEFINE w == SemWait(s, p)
<1>1. /\ SemOK(w, P) /\ w.count = s.count - 1
      /\ InLine(w) = IF s.count <= 0 THEN InLine(s) \cup {p} ELSE {}
  BY SemWaitOK
<1>2. s.count \in Int
  BY DEF SemOK
<1>3. CASE s.count <= 0
  <2>1. Units(w) = 0 /\ Units(s) = 0
    BY <1>1, <1>2, <1>3, UnitsAre
  <2>2. p \in InLine(w) /\ InLine(w) = InLine(s) \cup {p}
    BY <1>1, <1>3
  <2>3. (W \cup {p}) \ InLine(w) = W \ InLine(s)
    BY <2>2
  <2> QED BY <1>1, <2>1, <2>2, <2>3
<1>4. CASE s.count > 0
  <2>1. Units(w) + 1 = Units(s)
    <3>1. Units(s) = s.count /\ Units(w) = s.count - 1
      BY <1>1, <1>2, <1>4, UnitsAre
    <3> QED BY <1>2, <3>1
  <2>2. InLine(w) = {} /\ InLine(s) = {}
    BY <1>1, <1>2, <1>4, NobodyInLine
  <2> QED BY <1>1, <1>4, <2>1, <2>2
<1> QED BY <1>2, <1>3, <1>4

LEMMA SignalCounts ==
    ASSUME NEW P, IsFiniteSet(P), NEW s, SemOK(s, P), NEW W, W \subseteq P, InLine(s) \subseteq W
    PROVE  LET w == SemSignal(s)
           IN  /\ SemOK(w, P) /\ InLine(w) \subseteq InLine(s)
               /\ Units(w) + Cardinality(W \ InLine(w))
                     = Units(s) + Cardinality(W \ InLine(s)) + 1
<1> DEFINE w == SemSignal(s)
<1>1. /\ SemOK(w, P) /\ w.count = s.count + 1
      /\ s.count >= 0 => InLine(w) = InLine(s)
      /\ s.count < 0 => \E h \in InLine(s) : InLine(w) = InLine(s) \ {h}
  BY SemSignalOK
<1>2. s.count \in Int
  BY DEF SemOK
<1>3. IsFiniteSet(W \ InLine(s)) /\ Cardinality(W \ InLine(s)) \in Nat
  BY FS_Subset, FS_CardinalityType
<1>4. CASE s.count < 0
  <2>1. Units(w) = 0 /\ Units(s) = 0
    BY <1>1, <1>2, <1>4, UnitsAre
  <2>2. PICK h \in InLine(s) : InLine(w) = InLine(s) \ {h}
    BY <1>1, <1>4
  <2>3. W \ InLine(w) = (W \ InLine(s)) \cup {h} /\ h \notin W \ InLine(s)
    BY <2>2
  <2>4. Cardinality(W \ InLine(w)) = Cardinality(W \ InLine(s)) + 1
    BY <1>3, <2>3, FS_AddElement
  <2> QED BY <1>1, <1>3, <2>1, <2>2, <2>4
<1>5. CASE s.count >= 0
  <2>1. Units(w) = Units(s) + 1 /\ Units(s) \in Nat
    <3>1. Units(w) = s.count + 1 /\ Units(s) = s.count
      BY <1>1, <1>2, <1>5, UnitsAre
    <3> QED BY <1>2, <1>5, <3>1
  <2> QED BY <1>1, <1>3, <1>5, <2>1
<1> QED BY <1>2, <1>4, <1>5

-----------------------------------------------------------------------------
\* Lists without duplicates.

\* A list is as long as the set of its items.
LEMMA QueueCard ==
    ASSUME NEW S, NEW q \in Queue(S)
    PROVE  /\ IsFiniteSet(Range(q)) /\ Cardinality(Range(q)) = Len(q)
           /\ Len(q) \in Nat /\ Range(q) \subseteq S
<1>1. q \in Seq(S) /\ Len(q) \in Nat /\ DOMAIN q = 1 .. Len(q) /\ IsInjective(q)
  BY DEF Queue
<1>2. Range(q) \subseteq S
  BY <1>1 DEF Range
<1>3. q \in Bijection(1 .. Len(q), Range(q))
  <2>1. q \in [1 .. Len(q) -> Range(q)]
    BY <1>1 DEF Range
  <2>2. \A i, j \in 1 .. Len(q) : q[i] = q[j] => i = j
    BY <1>1 DEF IsInjective
  <2>3. \A y \in Range(q) : \E i \in 1 .. Len(q) : q[i] = y
    BY <1>1 DEF Range
  <2> QED BY <2>1, <2>2, <2>3 DEF Bijection, Injection, Surjection, IsInjective
<1>4. IsFiniteSet(1 .. Len(q)) /\ Cardinality(1 .. Len(q)) = Len(q)
  BY <1>1, FS_Interval
<1>5. ExistsBijection(1 .. Len(q), Range(q))
  BY <1>3 DEF ExistsBijection
<1>6. IsFiniteSet(Range(q)) /\ Cardinality(Range(q)) = Len(q)
  BY <1>4, <1>5, FS_Bijection
<1> QED BY <1>1, <1>2, <1>6

\* A new item at the head of a list.
LEMMA PrependQueue ==
    ASSUME NEW S, NEW q \in Queue(S), NEW e \in S, e \notin Range(q)
    PROVE  /\ <<e>> \o q \in Queue(S)
           /\ Range(<<e>> \o q) = Range(q) \cup {e}
           /\ Len(<<e>> \o q) = Len(q) + 1
<1> DEFINE r == <<e>> \o q
<1>1. q \in Seq(S) /\ Len(q) \in Nat /\ DOMAIN q = 1 .. Len(q) /\ IsInjective(q)
  BY DEF Queue
<1>2. /\ r \in Seq(S) /\ Len(r) = Len(q) + 1 /\ DOMAIN r = 1 .. Len(q) + 1
      /\ r[1] = e /\ \A i \in 1 .. Len(q) : r[i+1] = q[i]
  BY <1>1
<1>3. \A i \in 1 .. Len(q)+1 : i # 1 => i-1 \in 1 .. Len(q) /\ r[i] = q[i-1]
  BY <1>1, <1>2
<1>4. \A i \in 1 .. Len(q) : q[i] # e
  BY <1>1 DEF Range
<1>5. IsInjective(r)
  <2> SUFFICES ASSUME NEW i \in 1 .. Len(q)+1, NEW j \in 1 .. Len(q)+1, r[i] = r[j]
               PROVE  i = j
    BY <1>2 DEF IsInjective
  <2>1. CASE i = 1 \/ j = 1
    BY <1>2, <1>3, <1>4, <2>1
  <2>2. CASE i # 1 /\ j # 1
    <3>1. i-1 = j-1
      BY <1>1, <1>3, <2>2 DEF IsInjective
    <3> QED BY <3>1
  <2> QED BY <2>1, <2>2
<1>6. Range(r) = Range(q) \cup {e}
  <2>1. \A x \in Range(r) : x \in Range(q) \cup {e}
    BY <1>1, <1>2, <1>3 DEF Range
  <2>2. e \in Range(r)
    BY <1>1, <1>2 DEF Range
  <2>3. ASSUME NEW x \in Range(q) PROVE x \in Range(r)
    <3>1. PICK i \in 1 .. Len(q) : q[i] = x
      BY <1>1 DEF Range
    <3>2. i+1 \in DOMAIN r /\ r[i+1] = x
      BY <1>1, <1>2, <3>1
    <3> QED BY <3>2 DEF Range
  <2> QED BY <2>1, <2>2, <2>3
<1> QED BY <1>2, <1>5, <1>6 DEF Queue

\* One list after another that it shares nothing with.
LEMMA ConcatQueue ==
    ASSUME NEW S, NEW q \in Queue(S), NEW r \in Queue(S), Range(q) \cap Range(r) = {}
    PROVE  /\ q \o r \in Queue(S)
           /\ Range(q \o r) = Range(q) \cup Range(r)
           /\ Len(q \o r) = Len(q) + Len(r)
<1> DEFINE c == q \o r
           n == Len(q)
           m == Len(r)
<1>1. /\ q \in Seq(S) /\ n \in Nat /\ DOMAIN q = 1 .. n /\ IsInjective(q)
      /\ r \in Seq(S) /\ m \in Nat /\ DOMAIN r = 1 .. m /\ IsInjective(r)
  BY DEF Queue
<1>2. c \in Seq(S) /\ Len(c) = n + m /\ DOMAIN c = 1 .. n+m
  BY <1>1
<1>3. \A i \in 1 .. n : i \in 1 .. n+m /\ c[i] = q[i]
  BY <1>1
<1>4. \A i \in 1 .. m : n+i \in 1 .. n+m /\ c[n+i] = r[i]
  BY <1>1
<1>5. \A i \in 1 .. n+m : i \notin 1 .. n => i-n \in 1 .. m /\ c[i] = r[i-n]
  BY <1>1
<1>6. \A i \in 1 .. n, j \in 1 .. m : q[i] # r[j]
  BY <1>1 DEF Range
<1> HIDE DEF c, n, m
<1>7. IsInjective(c)
  <2> SUFFICES ASSUME NEW i \in 1 .. n+m, NEW j \in 1 .. n+m, c[i] = c[j]
               PROVE  i = j
    BY <1>2 DEF IsInjective
  <2>1. CASE i \in 1 .. n /\ j \in 1 .. n
    BY <1>1, <1>3, <2>1 DEF IsInjective
  <2>2. CASE i \notin 1 .. n /\ j \notin 1 .. n
    <3>1. i-n = j-n
      BY <1>1, <1>5, <2>2 DEF IsInjective
    <3> QED BY <1>1, <3>1
  <2>3. CASE i \in 1 .. n /\ j \notin 1 .. n
    BY <1>3, <1>5, <1>6, <2>3
  <2>4. CASE i \notin 1 .. n /\ j \in 1 .. n
    BY <1>3, <1>5, <1>6, <2>4
  <2> QED BY <2>1, <2>2, <2>3, <2>4
<1>8. Range(c) = Range(q) \cup Range(r)
  <2>1. ASSUME NEW i \in 1 .. n+m PROVE c[i] \in Range(q) \cup Range(r)
    BY <1>1, <1>3, <1>5 DEF Range
  <2>2. ASSUME NEW x \in Range(q) PROVE x \in Range(c)
    BY <1>1, <1>2, <1>3 DEF Range
  <2>3. ASSUME NEW x \in Range(r) PROVE x \in Range(c)
    <3>1. PICK i \in 1 .. m : r[i] = x
      BY <1>1 DEF Range
    <3> QED BY <1>2, <1>4, <3>1 DEF Range
  <2>4. \A x \in Range(c) : x \in Range(q) \cup Range(r)
    BY <1>2, <2>1 DEF Range
  <2> QED BY <2>2, <2>3, <2>4
<1> QED BY <1>2, <1>7, <1>8 DEF Queue, c, n, m

\* A list the other way round.
LEMMA ReverseQueue ==
    ASSUME NEW S, NEW q \in Queue(S)
    PROVE  Reverse(q) \in Queue(S) /\ Range(Reverse(q)) = Range(q) /\ Len(Reverse(q)) = Len(q)
<1> DEFINE r == Reverse(q)
           n == Len(q)
<1>1. q \in Seq(S) /\ n \in Nat /\ DOMAIN q = 1 .. n /\ IsInjective(q)
  BY DEF Queue
<1>2. r = [i \in 1 .. n |-> q[(n - i) + 1]]
  BY DEF Reverse
<1> HIDE DEF n, r
<1>3. \A i \in 1 .. n : (n - i) + 1 \in 1 .. n
  BY <1>1
<1>4. \A i \in 1 .. n : q[i] \in S
  BY <1>1 DEF n
<1>5. r \in [1 .. n -> S] /\ r \in Seq(S) /\ Len(r) = n /\ DOMAIN r = 1 .. n
  <2>1. r \in [1 .. n -> S]
    BY <1>2, <1>3, <1>4
  <2> QED BY <1>1, <2>1
<1>6. IsInjective(r)
  <2> SUFFICES ASSUME NEW i \in 1 .. n, NEW j \in 1 .. n, r[i] = r[j]
               PROVE  i = j
    BY <1>5 DEF IsInjective
  <2>1. (n - i) + 1 = (n - j) + 1
    BY <1>1, <1>2, <1>3 DEF IsInjective
  <2> QED BY <1>1, <2>1
<1>7. Range(r) = Range(q)
  <2>1. ASSUME NEW x \in Range(q) PROVE x \in Range(r)
    <3>1. PICK i \in 1 .. n : q[i] = x
      BY <1>1 DEF Range
    <3>2. (n - i) + 1 \in 1 .. n /\ (n - ((n - i) + 1)) + 1 = i
      BY <1>1
    <3>3. r[(n - i) + 1] = x
      BY <1>2, <3>1, <3>2
    <3> QED BY <1>5, <3>2, <3>3 DEF Range
  <2>2. ASSUME NEW x \in Range(r) PROVE x \in Range(q)
    BY <1>1, <1>2, <1>3, <1>5, <2>2 DEF Range
  <2> QED BY <2>1, <2>2
<1> QED BY <1>5, <1>6, <1>7 DEF Queue, r, n
=============================================================================
