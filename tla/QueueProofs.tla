---------------------------- MODULE QueueProofs ----------------------------
(***************************************************************************)
(* The two bounded queues of the server, proved to lose count of nothing:  *)
(* the rooms of AnalyzeStream (StreamAdmission), for any number of         *)
(* streams, any caps and any sizes, and the document sink's queue          *)
(* (SinkForwarder), for any number of threads, offers and sizes, any       *)
(* bounds and any word.                                                    *)
(*                                                                         *)
(* A sum is the number of units of a function (Sums). Each step changes    *)
(* the part of one stream or of one thread, so each sum changes by that    *)
(* part of it (OneStream, OneThread); what is left is what a step does to  *)
(* the stream or the thread it is about.                                   *)
(*                                                                         *)
(* That a permit is taken once needs the queues of the semaphores: a       *)
(* reader is in the queue of its stage, once. That closing turns nobody    *)
(* away, and leaves nothing behind, needs who holds the sender's mutex.    *)
(***************************************************************************)
EXTENDS StreamAdmission, SinkForwarder, FiniteSetTheorems, TLAPS

-----------------------------------------------------------------------------
(* Sums *)

\* One part of a sum over a finite set, and the rest of it.
LEMMA TotalPart ==
    ASSUME NEW S, IsFiniteSet(S), NEW f \in [S -> Nat], NEW s \in S
    PROVE  /\ IsFiniteSet(Units(f)) /\ Total(f) \in Nat /\ f[s] <= Total(f)
           /\ Total(f) = Cardinality(Units([t \in S \ {s} |-> f[t]])) + f[s]
           /\ Cardinality(Units([t \in S \ {s} |-> f[t]])) \in Nat
<1> DEFINE part(t) == {t} \X (1 .. f[t])
           rest == Units([t \in S \ {s} |-> f[t]])
<1>1. ASSUME NEW t \in S PROVE IsFiniteSet(part(t)) /\ Cardinality(part(t)) = f[t]
  <2>1. IsFiniteSet(1 .. f[t]) /\ Cardinality(1 .. f[t]) = f[t]
    BY FS_Interval
  <2>2. IsFiniteSet({t}) /\ Cardinality({t}) = 1
    BY FS_Singleton
  <2>3. IsFiniteSet(part(t)) /\ Cardinality(part(t)) = Cardinality({t}) * Cardinality(1 .. f[t])
    BY <2>1, <2>2, FS_Product, Zenon
  <2>4. 1 * f[t] = f[t]
    OBVIOUS
  <2> QED  BY <2>1, <2>2, <2>3, <2>4
<1>2. Units(f) = rest \cup part(s) /\ rest \cap part(s) = {}
  BY DEF Units
<1>3. IsFiniteSet(rest)
  <2> DEFINE each == [t \in S \ {s} |-> part(t)]
  <2>1. IsFiniteSet(S \ {s})
    BY FS_RemoveElement
  <2>2. each \in Surjection(S \ {s}, {part(t) : t \in S \ {s}})
    BY DEF Surjection
  <2>3. IsFiniteSet({part(t) : t \in S \ {s}})
    BY <2>1, <2>2, FS_Surjection
  <2>4. rest = UNION {part(t) : t \in S \ {s}}
    BY DEF Units
  <2>5. \A T \in {part(t) : t \in S \ {s}} : IsFiniteSet(T)
    BY <1>1
  <2> QED  BY <2>3, <2>4, <2>5, FS_UNION
<1>4. Cardinality(rest \cap part(s)) = 0 /\ Cardinality(rest) \in Nat
  BY <1>2, <1>3, FS_EmptySet, FS_CardinalityType
<1>5. IsFiniteSet(Units(f)) /\ Cardinality(Units(f)) = Cardinality(rest) + f[s]
  <2>1. IsFiniteSet(part(s)) /\ Cardinality(part(s)) = f[s] /\ f[s] \in Nat
    BY <1>1
  <2>2. /\ IsFiniteSet(rest \cup part(s))
        /\ Cardinality(rest \cup part(s))
             = Cardinality(rest) + Cardinality(part(s)) - Cardinality(rest \cap part(s))
    BY <1>3, <2>1, FS_Union, Zenon
  <2> HIDE DEF rest, part
  <2> QED  BY <1>2, <1>4, <2>1, <2>2
<1> HIDE DEF rest
<1>6. Total(f) = Cardinality(rest) + f[s] /\ f[s] \in Nat
  BY <1>5 DEF Total
<1>7. IsFiniteSet(Units(f)) /\ Total(f) \in Nat /\ f[s] <= Total(f) /\ Cardinality(rest) \in Nat
  BY <1>4, <1>5, <1>6
<1> QED  BY <1>6, <1>7 DEF rest

\* A sum of nothing.
LEMMA TotalNothing ==
    ASSUME NEW S, NEW f \in [S -> Nat], \A s \in S : f[s] = 0
    PROVE  Total(f) = 0
<1>1. Units(f) = {}
  BY DEF Units
<1> QED  BY <1>1, FS_EmptySet DEF Total

\* A sum over a finite set is a number.
LEMMA TotalIsNumber ==
    ASSUME NEW S, IsFiniteSet(S), NEW f \in [S -> Nat]
    PROVE  Total(f) \in Nat
<1>1. CASE S = {}
  <2>1. Total(f) = 0
    BY <1>1, TotalNothing
  <2> QED  BY <2>1
<1>2. CASE S # {}
  BY <1>2, TotalPart
<1> QED  BY <1>1, <1>2

\* One part changes: so does the sum.
LEMMA TotalChange ==
    ASSUME NEW S, IsFiniteSet(S), NEW f \in [S -> Nat], NEW g \in [S -> Nat], NEW s \in S,
           \A t \in S : t # s => g[t] = f[t]
    PROVE  Total(f) \in Nat /\ Total(g) \in Nat /\ Total(g) - g[s] = Total(f) - f[s]
<1>1. [t \in S \ {s} |-> f[t]] = [t \in S \ {s} |-> g[t]]
  OBVIOUS
<1> DEFINE rest == Cardinality(Units([t \in S \ {s} |-> f[t]]))
<1>2. Total(f) \in Nat /\ Total(f) = rest + f[s] /\ rest \in Nat
  BY TotalPart
<1>3. Total(g) \in Nat /\ Total(g) = rest + g[s]
  BY <1>1, TotalPart
<1> HIDE DEF rest
<1> QED  BY <1>2, <1>3

\* The parts of one sum are no larger than those of another.
LEMMA TotalBelow ==
    ASSUME NEW S, IsFiniteSet(S), NEW f \in [S -> Nat], NEW g \in [S -> Nat],
           \A s \in S : f[s] <= g[s]
    PROVE  Total(f) <= Total(g)
<1>1. CASE S = {}
  <2>1. Total(f) = 0 /\ Total(g) = 0
    BY <1>1, TotalNothing
  <2> QED  BY <2>1
<1>2. CASE S # {}
  <2>1. IsFiniteSet(Units(g))
    BY <1>2, TotalPart
  <2>2. Units(f) \subseteq Units(g)
    BY DEF Units
  <2> QED  BY <2>1, <2>2, FS_Subset DEF Total
<1> QED  BY <1>1, <1>2

-----------------------------------------------------------------------------
(* Sequences *)

\* What RemoveAt leaves.
LEMMA RemoveAtFacts ==
    ASSUME NEW T, NEW q \in Seq(T), NEW i \in DOMAIN q
    PROVE  /\ RemoveAt(q, i) \in Seq(T) /\ Len(RemoveAt(q, i)) = Len(q) - 1
           /\ \A j \in 1 .. Len(q) - 1 : RemoveAt(q, i)[j] = IF j < i THEN q[j] ELSE q[j + 1]
<1> DEFINE a == SubSeq(q, 1, i - 1)
           b == SubSeq(q, i + 1, Len(q))
<1>1. a \in Seq(T) /\ Len(a) = i - 1 /\ \A j \in 1 .. i - 1 : a[j] = q[j]
  OBVIOUS
<1>2. b \in Seq(T) /\ Len(b) = Len(q) - i /\ \A j \in 1 .. Len(q) - i : b[j] = q[j + i]
  OBVIOUS
<1>3. RemoveAt(q, i) = a \o b /\ i \in 1 .. Len(q) /\ Len(q) \in Nat
  BY DEF RemoveAt
<1> HIDE DEF a, b
<1>4. a \o b \in Seq(T) /\ Len(a \o b) = Len(q) - 1
  BY <1>1, <1>2, <1>3
<1>5. ASSUME NEW j \in 1 .. Len(q) - 1
      PROVE  (a \o b)[j] = IF j < i THEN q[j] ELSE q[j + 1]
  <2>1. CASE j < i
    <3>1. (a \o b)[j] = a[j]
      BY <1>1, <1>2, <1>3, <2>1
    <3> QED  BY <1>1, <1>3, <2>1, <3>1
  <2>2. CASE ~(j < i)
    <3> DEFINE k == j - (i - 1)
    <3>1. k \in 1 .. Len(q) - i /\ k + i = j + 1 /\ j > Len(a) /\ j - Len(a) = k
      BY <1>1, <1>3, <2>2
    <3>2. j \in 1 .. Len(a) + Len(b)
      BY <1>1, <1>2, <1>3
    <3>3. (a \o b)[j] = b[j - Len(a)]
      BY <1>1, <1>2, <3>1, <3>2, SMTT(30)
    <3> HIDE DEF k
    <3>4. b[k] = q[k + i]
      BY <1>2, <3>1
    <3> QED  BY <1>1, <1>3, <2>2, <3>1, <3>3, <3>4
  <2> QED  BY <1>3, <2>1, <2>2
<1> QED  BY <1>3, <1>4, <1>5

\* A sequence of numbers is a function on a finite set.
LEMMA NumbersAreAFunction ==
    ASSUME NEW q \in Seq(Nat)
    PROVE  q \in [1 .. Len(q) -> Nat] /\ IsFiniteSet(1 .. Len(q)) /\ Len(q) \in Nat
<1>1. q \in [1 .. Len(q) -> Nat] /\ Len(q) \in Nat
  OBVIOUS
<1> QED  BY <1>1, FS_Interval

\* The sum of a sequence is a number, and each of its numbers is below it.
LEMMA TotalOfNumbers ==
    ASSUME NEW q \in Seq(Nat)
    PROVE  /\ IsFiniteSet(Units(q)) /\ Total(q) \in Nat
           /\ \A i \in DOMAIN q : q[i] <= Total(q)
<1>1. CASE q = <<>>
  <2>1. Units(q) = {}
    BY <1>1 DEF Units
  <2> QED  BY <1>1, <2>1, FS_EmptySet DEF Total
<1>2. CASE q # <<>>
  <2>1. 1 \in 1 .. Len(q)
    BY <1>2
  <2>2. DOMAIN q = 1 .. Len(q)
    OBVIOUS
  <2> QED  BY <2>1, <2>2, TotalPart, NumbersAreAFunction
<1> QED  BY <1>1, <1>2

\* The sums of an empty sequence, of one with a number more, and of one with a
\* number less.
LEMMA TotalOfEmpty == Total(<<>>) = 0
<1>1. Units(<<>>) = {}
  BY DEF Units
<1> QED  BY <1>1, FS_EmptySet DEF Total

LEMMA TotalOfAppend ==
    ASSUME NEW q \in Seq(Nat), NEW n \in Nat
    PROVE  Total(Append(q, n)) = Total(q) + n
<1> DEFINE r == Append(q, n)
           k == Len(q) + 1
<1>1. r \in Seq(Nat) /\ k \in 1 .. Len(r) /\ r[k] = n /\ (1 .. Len(r)) \ {k} = 1 .. Len(q)
  OBVIOUS
<1>2. [i \in (1 .. Len(r)) \ {k} |-> r[i]] = q
  <2>1. q = [i \in 1 .. Len(q) |-> q[i]]
    BY NumbersAreAFunction
  <2>2. \A i \in 1 .. Len(q) : r[i] = q[i]
    OBVIOUS
  <2> HIDE DEF r, k
  <2> QED  BY <1>1, <2>1, <2>2
<1>3. Total(r) = Cardinality(Units([i \in (1 .. Len(r)) \ {k} |-> r[i]])) + r[k]
  BY <1>1, TotalPart, NumbersAreAFunction, ZenonT(60)
<1> QED  BY <1>1, <1>2, <1>3 DEF Total

\* Where the others go when the k-th is left out, and back.
ClosedUp(i, k) == IF i < k THEN i ELSE i - 1
Opened(j, k) == IF j < k THEN j ELSE j + 1

LEMMA ClosingUp ==
    ASSUME NEW n \in Nat, NEW k \in Nat, 1 <= k, k <= n
    PROVE  /\ \A i \in Nat : 1 <= i /\ i <= n /\ i # k =>
                 /\ ClosedUp(i, k) \in Nat /\ 1 <= ClosedUp(i, k) /\ ClosedUp(i, k) <= n - 1
                 /\ Opened(ClosedUp(i, k), k) = i
           /\ \A j \in Nat : 1 <= j /\ j <= n - 1 =>
                 /\ Opened(j, k) \in Nat /\ 1 <= Opened(j, k) /\ Opened(j, k) <= n /\ Opened(j, k) # k
                 /\ ClosedUp(Opened(j, k), k) = j
BY DEF ClosedUp, Opened

ClosesUp(n, k, m) ==
    /\ \A i \in (1 .. n) \ {k} : ClosedUp(i, k) \in 1 .. m /\ Opened(ClosedUp(i, k), k) = i
    /\ \A j \in 1 .. m : Opened(j, k) \in (1 .. n) \ {k} /\ ClosedUp(Opened(j, k), k) = j

LEMMA ClosingUpIntervals ==
    ASSUME NEW n \in Nat, NEW k \in 1 .. n, NEW m, m = n - 1
    PROVE  ClosesUp(n, k, m)
<1>1. k \in Nat /\ 1 <= k /\ k <= n
  OBVIOUS
<1>2. ASSUME NEW i \in (1 .. n) \ {k} PROVE ClosedUp(i, k) \in 1 .. m /\ Opened(ClosedUp(i, k), k) = i
  <2>1. i \in Nat /\ 1 <= i /\ i <= n /\ i # k
    OBVIOUS
  <2> QED  BY <1>1, <2>1, ClosingUp
<1>3. ASSUME NEW j \in 1 .. m PROVE Opened(j, k) \in (1 .. n) \ {k} /\ ClosedUp(Opened(j, k), k) = j
  <2>1. j \in Nat /\ 1 <= j /\ j <= n - 1
    OBVIOUS
  <2> QED  BY <1>1, <2>1, ClosingUp
<1> QED  BY <1>2, <1>3 DEF ClosesUp

\* One number less, the rest in its order.
LEMMA TotalOfLess ==
    ASSUME NEW q \in Seq(Nat), NEW r \in Seq(Nat), NEW k \in 1 .. Len(q), Len(r) = Len(q) - 1,
           \A j \in 1 .. Len(r) : r[j] = IF j < k THEN q[j] ELSE q[j + 1]
    PROVE  Total(q) = Total(r) + q[k] /\ Total(r) \in Nat /\ q[k] \in Nat
<1> DEFINE rest == [i \in (1 .. Len(q)) \ {k} |-> q[i]]
           to(u) == <<ClosedUp(u[1], k), u[2]>>
           f == [u \in Units(rest) |-> to(u)]
<1>0. /\ DOMAIN r = 1 .. Len(r)
      /\ \A i \in (1 .. Len(q)) \ {k} : ClosedUp(i, k) \in 1 .. Len(r) /\ Opened(ClosedUp(i, k), k) = i
      /\ \A j \in 1 .. Len(r) : Opened(j, k) \in (1 .. Len(q)) \ {k} /\ ClosedUp(Opened(j, k), k) = j
      /\ \A j \in 1 .. Len(r) : r[j] = q[Opened(j, k)]
  <2>1. Len(q) \in Nat /\ DOMAIN r = 1 .. Len(r)
    OBVIOUS
  <2>2. \A j \in 1 .. Len(r) : r[j] = q[Opened(j, k)]
    BY DEF Opened
  <2>3. /\ \A i \in (1 .. Len(q)) \ {k} : ClosedUp(i, k) \in 1 .. Len(r) /\ Opened(ClosedUp(i, k), k) = i
        /\ \A j \in 1 .. Len(r) : Opened(j, k) \in (1 .. Len(q)) \ {k} /\ ClosedUp(Opened(j, k), k) = j
    <3>1. Len(q) \in Nat /\ k \in 1 .. Len(q) /\ Len(r) \in Nat /\ Len(r) = Len(q) - 1
      BY <2>1
    <3>2. ClosesUp(Len(q), k, Len(r))
      BY <3>1, ClosingUpIntervals
    <3> QED  BY <3>2, Zenon DEF ClosesUp
  <2> QED  BY <2>1, <2>2, <2>3
<1>1. Total(q) = Cardinality(Units(rest)) + q[k] /\ q[k] \in Nat
  BY TotalPart, NumbersAreAFunction
<1>2. ASSUME NEW u \in Units(rest) PROVE to(u) \in Units(r)
  <2>1. PICK i \in (1 .. Len(q)) \ {k} : u \in {i} \X (1 .. q[i])
    BY DEF Units
  <2>2. u[1] = i /\ u[2] \in 1 .. q[i]
    BY <2>1
  <2> DEFINE j == ClosedUp(i, k)
  <2>3. j \in 1 .. Len(r) /\ r[j] = q[i]
    BY <1>0
  <2> HIDE DEF j
  <2>4. to(u) \in {j} \X (1 .. r[j])
    BY <2>2, <2>3 DEF j
  <2> HIDE DEF to
  <2> QED  BY <1>0, <2>3, <2>4 DEF Units
<1>3. ASSUME NEW u \in Units(rest), NEW v \in Units(rest), to(u) = to(v) PROVE u = v
  <2>1. PICK i \in (1 .. Len(q)) \ {k} : u \in {i} \X (1 .. q[i])
    BY DEF Units
  <2>2. PICK j \in (1 .. Len(q)) \ {k} : v \in {j} \X (1 .. q[j])
    BY DEF Units
  <2>3. u = <<u[1], u[2]>> /\ u[1] = i /\ v = <<v[1], v[2]>> /\ v[1] = j
    BY <2>1, <2>2
  <2>4. u[2] = v[2] /\ ClosedUp(i, k) = ClosedUp(j, k)
    BY <1>3, <2>3
  <2>5. i = Opened(ClosedUp(i, k), k) /\ j = Opened(ClosedUp(j, k), k)
    BY <1>0
  <2>6. i = j
    BY <2>4, <2>5
  <2> QED  BY <2>3, <2>4, <2>6
<1>4. ASSUME NEW w \in Units(r) PROVE \E u \in Units(rest) : to(u) = w
  <2>1. PICK j \in 1 .. Len(r) : w \in {j} \X (1 .. r[j])
    <3>1. DOMAIN r = 1 .. Len(r)
      BY <1>0
    <3> HIDE DEF rest, to, f
    <3> QED  BY ONLY <3>1, w \in Units(r) DEF Units
  <2>2. w = <<j, w[2]>> /\ w[2] \in 1 .. r[j]
    BY <2>1
  <2> DEFINE i == Opened(j, k)
  <2>3. i \in (1 .. Len(q)) \ {k} /\ rest[i] = r[j] /\ ClosedUp(i, k) = j
    BY <1>0
  <2>4. <<i, w[2]>> \in Units(rest)
    <3>1. i \in DOMAIN rest /\ w[2] \in 1 .. rest[i]
      BY <2>2, <2>3
    <3> HIDE DEF i, rest
    <3> QED  BY <3>1, SMTT(30) DEF Units
  <2> HIDE DEF i
  <2>5. to(<<i, w[2]>>) = w
    BY <2>2, <2>3
  <2> QED  BY <2>4, <2>5
<1>5. f \in Bijection(Units(rest), Units(r))
  <2>1. f \in [Units(rest) -> Units(r)]
    BY <1>2
  <2>2. \A u, v \in Units(rest) : f[u] = f[v] => u = v
    BY <1>3
  <2>3. \A w \in Units(r) : \E u \in Units(rest) : f[u] = w
    BY <1>4
  <2> HIDE DEF f, rest
  <2> QED  BY <2>1, <2>2, <2>3 DEF Bijection, Injection, Surjection, IsInjective
<1>6. IsFiniteSet(Units(rest))
  <2>1. IsFiniteSet(Units(q))
    BY TotalOfNumbers
  <2>2. Units(rest) \subseteq Units(q)
    BY DEF Units
  <2> QED  BY <2>1, <2>2, FS_Subset
<1>7. Cardinality(Units(rest)) = Cardinality(Units(r))
  <2>1. ExistsBijection(Units(rest), Units(r))
    BY <1>5 DEF ExistsBijection
  <2> QED  BY <1>6, <2>1, FS_Bijection
<1>8. Total(r) \in Nat
  BY TotalOfNumbers
<1> HIDE DEF rest
<1> QED  BY <1>1, <1>7, <1>8 DEF Total

LEMMA TotalOfRemoveAt ==
    ASSUME NEW q \in Seq(Nat), NEW k \in DOMAIN q
    PROVE  Total(q) = Total(RemoveAt(q, k)) + q[k]
<1>1. k \in 1 .. Len(q)
  OBVIOUS
<1> DEFINE r == RemoveAt(q, k)
<1>2. /\ r \in Seq(Nat) /\ Len(r) = Len(q) - 1
      /\ \A j \in 1 .. Len(q) - 1 : r[j] = IF j < k THEN q[j] ELSE q[j + 1]
  BY RemoveAtFacts
<1> HIDE DEF r
<1>3. Total(q) = Total(r) + q[k]
  BY <1>1, <1>2, TotalOfLess
<1> QED  BY <1>3 DEF r

LEMMA TotalOfTail ==
    ASSUME NEW q \in Seq(Nat), q # <<>>
    PROVE  Total(q) = Total(Tail(q)) + Head(q)
<1> DEFINE r == Tail(q)
<1>1. 1 \in 1 .. Len(q) /\ r \in Seq(Nat) /\ Len(r) = Len(q) - 1 /\ Head(q) = q[1]
  OBVIOUS
<1>2. \A j \in 1 .. Len(r) : r[j] = IF j < 1 THEN q[j] ELSE q[j + 1]
  OBVIOUS
<1> HIDE DEF r
<1>3. Total(q) = Total(r) + q[1]
  BY <1>1, <1>2, TotalOfLess
<1> QED  BY <1>1, <1>3 DEF r

-----------------------------------------------------------------------------
(* The queues of the semaphores *)

\* Every reader that waits at stage p is in q once, and no other is.
Queue(q, p) ==
    /\ q \in Seq(Streams)
    /\ \A i, j \in DOMAIN q : q[i] = q[j] => i = j
    /\ \A s \in Streams : stage[s] = p <=> s \in ToSet(q)

\* A reader joins a queue.
LEMMA JoinsOnce ==
    ASSUME NEW q \in Seq(Streams), NEW s \in Streams, s \notin ToSet(q),
           \A i, j \in DOMAIN q : q[i] = q[j] => i = j
    PROVE  /\ Append(q, s) \in Seq(Streams)
           /\ \A i, j \in DOMAIN Append(q, s) : Append(q, s)[i] = Append(q, s)[j] => i = j
           /\ ToSet(Append(q, s)) = ToSet(q) \cup {s}
<1> DEFINE r == Append(q, s)
<1>1. r \in Seq(Streams) /\ Len(r) = Len(q) + 1 /\ Len(q) \in Nat /\ r[Len(q) + 1] = s
  OBVIOUS
<1>2. \A i \in 1 .. Len(q) : r[i] = q[i]
  OBVIOUS
<1>3. DOMAIN r = 1 .. Len(q) + 1 /\ DOMAIN q = 1 .. Len(q)
  OBVIOUS
<1> HIDE DEF r
<1>4. \A i \in 1 .. Len(q) + 1 : i \in 1 .. Len(q) \/ i = Len(q) + 1
  BY <1>1
<1>5. \A i \in 1 .. Len(q) : i \in 1 .. Len(q) + 1 /\ q[i] # s
  BY <1>1, <1>3 DEF ToSet
<1>6. \A i, j \in DOMAIN r : r[i] = r[j] => i = j
  BY <1>1, <1>2, <1>3, <1>4, <1>5
<1>7. ToSet(r) = ToSet(q) \cup {s}
  BY <1>1, <1>2, <1>3, <1>4, <1>5 DEF ToSet
<1> QED  BY <1>1, <1>6, <1>7 DEF r

\* A reader's place in a queue goes: it is no longer there, the others are.
LEMMA LeavesOnce ==
    ASSUME NEW q \in Seq(Streams), NEW k \in DOMAIN q, NEW r \in Seq(Streams),
           \A i, j \in DOMAIN q : q[i] = q[j] => i = j,
           Len(r) = Len(q) - 1,
           \A j \in 1 .. Len(q) - 1 : r[j] = IF j < k THEN q[j] ELSE q[j + 1]
    PROVE  /\ \A i, j \in DOMAIN r : r[i] = r[j] => i = j
           /\ ToSet(r) = ToSet(q) \ {q[k]}
<1> DEFINE place(j) == IF j < k THEN j ELSE j + 1
<1>1. DOMAIN r = 1 .. Len(q) - 1 /\ DOMAIN q = 1 .. Len(q) /\ Len(q) \in Nat /\ k \in 1 .. Len(q)
  OBVIOUS
<1>2. \A j \in 1 .. Len(q) - 1 : place(j) \in DOMAIN q /\ place(j) # k /\ r[j] = q[place(j)]
  BY <1>1
<1>3. \A i, j \in 1 .. Len(q) - 1 : place(i) = place(j) => i = j
  BY <1>1
<1>4. ASSUME NEW i \in DOMAIN q, i # k PROVE \E j \in 1 .. Len(q) - 1 : place(j) = i
  <2>1. CASE i < k
    BY <1>1, <2>1
  <2>2. CASE i > k
    <3>1. i - 1 \in 1 .. Len(q) - 1 /\ place(i - 1) = i
      BY <1>1, <2>2
    <3> QED  BY <3>1
  <2> QED  BY <1>1, <1>4, <2>1, <2>2
<1> HIDE DEF place
<1>5. \A i, j \in DOMAIN r : r[i] = r[j] => i = j
  BY <1>1, <1>2, <1>3
<1>6. ASSUME NEW x PROVE x \in ToSet(r) <=> x \in ToSet(q) /\ x # q[k]
  <2>1. x \in ToSet(r) <=> \E j \in 1 .. Len(q) - 1 : q[place(j)] = x
    <3>1. x \in ToSet(r) <=> \E j \in DOMAIN r : r[j] = x
      BY DEF ToSet
    <3> QED  BY <1>1, <1>2, <3>1
  <2>2. x \in ToSet(q) /\ x # q[k] <=> \E i \in DOMAIN q : i # k /\ q[i] = x
    BY <1>1 DEF ToSet
  <2>3. (\E j \in 1 .. Len(q) - 1 : q[place(j)] = x) <=> (\E i \in DOMAIN q : i # k /\ q[i] = x)
    BY <1>2, <1>4
  <2> QED  BY <2>1, <2>2, <2>3
<1> QED  BY <1>5, <1>6

\* The first of a queue goes.
LEMMA TailLeaves ==
    ASSUME NEW q \in Seq(Streams), q # <<>>, \A i, j \in DOMAIN q : q[i] = q[j] => i = j
    PROVE  /\ Tail(q) \in Seq(Streams) /\ Head(q) \in ToSet(q)
           /\ \A i, j \in DOMAIN Tail(q) : Tail(q)[i] = Tail(q)[j] => i = j
           /\ ToSet(Tail(q)) = ToSet(q) \ {Head(q)}
<1> DEFINE r == Tail(q)
<1>1. 1 \in DOMAIN q /\ r \in Seq(Streams) /\ Len(r) = Len(q) - 1 /\ Head(q) = q[1]
  OBVIOUS
<1>2. \A j \in 1 .. Len(q) - 1 : r[j] = IF j < 1 THEN q[j] ELSE q[j + 1]
  OBVIOUS
<1>3. Head(q) \in ToSet(q)
  BY <1>1 DEF ToSet
<1> HIDE DEF r
<1>4. /\ \A i, j \in DOMAIN r : r[i] = r[j] => i = j
      /\ ToSet(r) = ToSet(q) \ {q[1]}
  BY <1>1, <1>2, LeavesOnce
<1> QED  BY <1>1, <1>3, <1>4 DEF r

\* A waiter leaves a queue wherever it is.
LEMMA LeaveLeaves ==
    ASSUME NEW q \in Seq(Streams), NEW s \in Streams, \A i, j \in DOMAIN q : q[i] = q[j] => i = j
    PROVE  /\ Leave(q, s) \in Seq(Streams)
           /\ \A i, j \in DOMAIN Leave(q, s) : Leave(q, s)[i] = Leave(q, s)[j] => i = j
           /\ ToSet(Leave(q, s)) = ToSet(q) \ {s}
<1>1. CASE s \notin ToSet(q)
  BY <1>1 DEF Leave
<1>2. CASE s \in ToSet(q)
  <2> DEFINE k == CHOOSE i \in DOMAIN q : q[i] = s
             r == RemoveAt(q, k)
  <2>1. \E i \in DOMAIN q : q[i] = s
    BY <1>2 DEF ToSet
  <2>2. k \in DOMAIN q /\ q[k] = s
    BY <2>1
  <2>3. Leave(q, s) = r
    BY <1>2 DEF Leave
  <2> HIDE DEF k
  <2>4. /\ r \in Seq(Streams) /\ Len(r) = Len(q) - 1
        /\ \A j \in 1 .. Len(q) - 1 : r[j] = IF j < k THEN q[j] ELSE q[j + 1]
    BY <2>2, RemoveAtFacts
  <2> HIDE DEF r
  <2>5. (\A i, j \in DOMAIN r : r[i] = r[j] => i = j) /\ ToSet(r) = ToSet(q) \ {q[k]}
    BY <2>2, <2>4, LeavesOnce
  <2> QED  BY <2>2, <2>3, <2>4, <2>5
<1> QED  BY <1>1, <1>2

-----------------------------------------------------------------------------
(* The invariant *)

\* What an admission under way asks for: a size that its stream's room has.
Sized(s) ==
    IF stage[s] \in {"idle", "over"} THEN want[s] = 0 ELSE want[s] \in 1 .. StreamBytes

\* Types, without the caps: those follow.
RoomShapes ==
    /\ stage \in [Streams -> Stages]
    /\ want \in [Streams -> Nat]
    /\ dead \in [Streams -> BOOLEAN]
    /\ rooms \in [Streams -> Seq(1 .. StreamBytes)]
    /\ releasing \in [Streams -> Seq(1 .. StreamBytes)]
    /\ freeItems \in Nat /\ freeBytes \in Nat
    /\ ownItems \in [Streams -> Nat]
    /\ ownBytes \in [Streams -> Nat]

\* The inductive invariant.
RoomsInv ==
    /\ RoomShapes
    /\ Queue(itemQueue, "item")
    /\ Queue(byteQueue, "bytes")
    /\ \A s \in Streams : Sized(s)
    /\ PermitsConserved

-----------------------------------------------------------------------------
(* Each step is about one stream *)

\* A stream's rooms are a sequence of numbers.
LEMMA RoomsAreNumbers ==
    ASSUME NEW q \in Seq(1 .. StreamBytes)
    PROVE  q \in Seq(Nat) /\ Len(q) \in Nat /\ Total(q) \in Nat
<1>1. StreamBytes \in Nat
  BY AdmissionAssumption
<1>2. q \in Seq(Nat)
  BY <1>1
<1> QED  BY <1>2, TotalOfNumbers

\* What a stream holds is counted in numbers, before a step and after it.
LEMMA PartsAreNumbers ==
    ASSUME RoomShapes, NEW s \in Streams
    PROVE  /\ HeldBy(s) \in Nat /\ Full(s) \in Nat
           /\ ItemsOf(s) \in Nat /\ BytesOf(s) \in Nat
           /\ Len(rooms[s]) \in Nat /\ Total(rooms[s]) \in Nat
<1>1. /\ Len(rooms[s]) \in Nat /\ Total(rooms[s]) \in Nat
      /\ Len(releasing[s]) \in Nat /\ Total(releasing[s]) \in Nat
  BY RoomsAreNumbers DEF RoomShapes
<1>2. HeldBy(s) \in Nat /\ Full(s) \in Nat /\ want[s] \in Nat
  BY <1>1 DEF HeldBy, Full, RoomShapes
<1> QED  BY <1>1, <1>2 DEF ItemsOf, BytesOf

LEMMA PartsStayNumbers ==
    ASSUME RoomShapes', NEW s \in Streams
    PROVE  /\ HeldBy(s)' \in Nat /\ Full(s)' \in Nat
           /\ ItemsOf(s)' \in Nat /\ BytesOf(s)' \in Nat
           /\ Len(rooms'[s]) \in Nat /\ Total(rooms'[s]) \in Nat
<1>1. /\ Len(rooms'[s]) \in Nat /\ Total(rooms'[s]) \in Nat
      /\ Len(releasing'[s]) \in Nat /\ Total(releasing'[s]) \in Nat
  BY RoomsAreNumbers DEF RoomShapes
<1>2. HeldBy(s)' \in Nat /\ Full(s)' \in Nat /\ want'[s] \in Nat
  BY <1>1 DEF HeldBy, Full, RoomShapes
<1> QED  BY <1>1, <1>2 DEF ItemsOf, BytesOf

\* Nothing of the other streams changes.
OnlyOf(s) ==
    \A t \in Streams : t # s =>
        /\ stage'[t] = stage[t] /\ want'[t] = want[t]
        /\ rooms'[t] = rooms[t] /\ releasing'[t] = releasing[t]
        /\ ownItems'[t] = ownItems[t] /\ ownBytes'[t] = ownBytes[t]

\* The gauges are the rooms' numbers.
LEMMA CountsAreNumbers ==
    ASSUME RoomShapes, PermitsConserved
    PROVE  itemCount \in Nat /\ byteCount \in Nat
<1> DEFINE f == [s \in Streams |-> Len(rooms[s])]
           g == [s \in Streams |-> Total(rooms[s])]
<1>1. f \in [Streams -> Nat] /\ g \in [Streams -> Nat] /\ IsFiniteSet(Streams)
  BY PartsAreNumbers, AdmissionAssumption
<1>2. itemCount = Total(f) /\ byteCount = Total(g)
  BY DEF PermitsConserved
<1> HIDE DEF f, g
<1> QED  BY <1>1, <1>2, TotalIsNumber

\* The stream's item that its admission holds.
OwnHas(s) == IF Has(s, "own_item") THEN 1 ELSE 0

\* What a step has to show of its stream.
LEMMA OneStream ==
    ASSUME RoomShapes, RoomShapes', PermitsConserved, NEW s \in Streams, OnlyOf(s),
           freeItems' + ItemsOf(s)' = freeItems + ItemsOf(s),
           freeBytes' + BytesOf(s)' = freeBytes + BytesOf(s),
           itemCount' = itemCount - Len(rooms[s]) + Len(rooms'[s]),
           byteCount' = byteCount - Total(rooms[s]) + Total(rooms'[s]),
           ownItems'[s] + HeldBy(s)' + OwnHas(s)' = ownItems[s] + HeldBy(s) + OwnHas(s),
           ownBytes'[s] + Full(s)' = ownBytes[s] + Full(s)
    PROVE  PermitsConserved'
<1> IsFiniteSet(Streams) /\ {ServerItems, ServerBytes} \subseteq Nat
  BY AdmissionAssumption
<1>1. \A t \in Streams : t # s =>
          /\ ItemsOf(t)' = ItemsOf(t) /\ BytesOf(t)' = BytesOf(t)
          /\ HeldBy(t)' = HeldBy(t) /\ Full(t)' = Full(t) /\ OwnHas(t)' = OwnHas(t)
  BY DEF OnlyOf, ItemsOf, BytesOf, HeldBy, Full, OwnHas, Has
<1>2. (freeItems + Total([t \in Streams |-> ItemsOf(t)]) = ServerItems)'
  <2> DEFINE f == [t \in Streams |-> ItemsOf(t)]
             g == [t \in Streams |-> ItemsOf(t)']
  <2>1. f \in [Streams -> Nat] /\ g \in [Streams -> Nat] /\ \A t \in Streams : t # s => g[t] = f[t]
    BY <1>1, PartsAreNumbers, PartsStayNumbers
  <2>2. f[s] = ItemsOf(s) /\ g[s] = ItemsOf(s)'
    OBVIOUS
  <2>3. freeItems + Total(f) = ServerItems
    BY DEF PermitsConserved
  <2>4. f[s] \in Nat /\ g[s] \in Nat /\ freeItems \in Nat /\ freeItems' \in Nat
    BY <2>1 DEF RoomShapes
  <2> HIDE DEF f, g
  <2>5. Total(f) \in Nat /\ Total(g) \in Nat /\ Total(g) - g[s] = Total(f) - f[s]
    BY <2>1, TotalChange
  <2>6. freeItems' + g[s] = freeItems + f[s]
    BY <2>2
  <2>7. freeItems' + Total(g) = ServerItems
    BY ONLY <2>3, <2>4, <2>5, <2>6
  <2> QED  BY <2>7 DEF g
<1>3. (freeBytes + Total([t \in Streams |-> BytesOf(t)]) = ServerBytes)'
  <2> DEFINE f == [t \in Streams |-> BytesOf(t)]
             g == [t \in Streams |-> BytesOf(t)']
  <2>1. f \in [Streams -> Nat] /\ g \in [Streams -> Nat] /\ \A t \in Streams : t # s => g[t] = f[t]
    BY <1>1, PartsAreNumbers, PartsStayNumbers
  <2>2. f[s] = BytesOf(s) /\ g[s] = BytesOf(s)'
    OBVIOUS
  <2>3. freeBytes + Total(f) = ServerBytes
    BY DEF PermitsConserved
  <2>4. f[s] \in Nat /\ g[s] \in Nat /\ freeBytes \in Nat /\ freeBytes' \in Nat
    BY <2>1 DEF RoomShapes
  <2> HIDE DEF f, g
  <2>5. Total(f) \in Nat /\ Total(g) \in Nat /\ Total(g) - g[s] = Total(f) - f[s]
    BY <2>1, TotalChange
  <2>6. freeBytes' + g[s] = freeBytes + f[s]
    BY <2>2
  <2>7. freeBytes' + Total(g) = ServerBytes
    BY ONLY <2>3, <2>4, <2>5, <2>6
  <2> QED  BY <2>7 DEF g
<1>4. (itemCount = Total([t \in Streams |-> Len(rooms[t])]))'
  <2> DEFINE f == [t \in Streams |-> Len(rooms[t])]
             g == [t \in Streams |-> Len(rooms'[t])]
  <2>1. f \in [Streams -> Nat] /\ g \in [Streams -> Nat] /\ \A t \in Streams : t # s => g[t] = f[t]
    BY PartsAreNumbers, PartsStayNumbers DEF OnlyOf
  <2>2. itemCount' = itemCount - f[s] + g[s] /\ itemCount = Total(f)
    BY DEF PermitsConserved
  <2>3. f[s] \in Nat /\ g[s] \in Nat
    BY <2>1
  <2> HIDE DEF f, g
  <2>4. Total(f) \in Nat /\ Total(g) \in Nat /\ Total(g) - g[s] = Total(f) - f[s]
    BY <2>1, TotalChange
  <2>5. itemCount' = Total(g)
    BY <2>2, <2>3, <2>4
  <2> QED  BY <2>5 DEF g
<1>5. (byteCount = Total([t \in Streams |-> Total(rooms[t])]))'
  <2> DEFINE f == [t \in Streams |-> Total(rooms[t])]
             g == [t \in Streams |-> Total(rooms'[t])]
  <2>1. f \in [Streams -> Nat] /\ g \in [Streams -> Nat] /\ \A t \in Streams : t # s => g[t] = f[t]
    BY PartsAreNumbers, PartsStayNumbers DEF OnlyOf
  <2>2. byteCount' = byteCount - f[s] + g[s] /\ byteCount = Total(f)
    BY DEF PermitsConserved
  <2>3. f[s] \in Nat /\ g[s] \in Nat
    BY <2>1
  <2> HIDE DEF f, g
  <2>4. Total(f) \in Nat /\ Total(g) \in Nat /\ Total(g) - g[s] = Total(f) - f[s]
    BY <2>1, TotalChange
  <2>5. byteCount' = Total(g)
    BY <2>2, <2>3, <2>4
  <2> QED  BY <2>5 DEF g
<1>6. ASSUME NEW t \in Streams
      PROVE  /\ ownItems'[t] + HeldBy(t)' + (IF Has(t, "own_item") THEN 1 ELSE 0)' = StreamItems
             /\ ownBytes'[t] + Full(t)' = StreamBytes
  <2>1. /\ ownItems[t] + HeldBy(t) + OwnHas(t) = StreamItems
        /\ ownBytes[t] + Full(t) = StreamBytes
    BY DEF PermitsConserved, OwnHas
  <2>2. /\ ownItems'[t] + HeldBy(t)' + OwnHas(t)' = StreamItems
        /\ ownBytes'[t] + Full(t)' = StreamBytes
    BY <1>1, <2>1 DEF OnlyOf
  <2> QED  BY <2>2 DEF OwnHas
<1> QED  BY <1>2, <1>3, <1>4, <1>5, <1>6 DEF PermitsConserved

-----------------------------------------------------------------------------
(* The steps *)

\* Arithmetic the steps need, stated apart from the terms it is used for.
LEMMA Swapped == \A a, b, c \in Nat : a + c + b = a + b + c
  OBVIOUS

LEMMA Exchanged == \A a, b, c \in Nat : a + c = a - b + (b + c)
  OBVIOUS

LEMMA OneMore == \A a, b \in Nat : a + 1 + b = a + b + 1
  OBVIOUS

LEMMA OneExchanged == \A a, b \in Nat : a + 1 = a - b + (b + 1)
  OBVIOUS

LEMMA OneMoved == \A a, b \in Nat : (a - 1) + (b + 1) = a + b
  OBVIOUS

LEMMA OneLost == \A a, b \in Nat : a - 1 = a - b + (b - 1) /\ a + (b - 1) = (a + b) - 1
  OBVIOUS

LEMMA Unchanged == \A a, b \in Nat : a = a - b + b
  OBVIOUS

\* Whatever is asked for fits in a stream's room: the caps come first.
LEMMA AskedFits ==
    ASSUME NEW n \in DocSizes, NEW i \in IdSizes
    PROVE  (IF OverByteCap(n) THEN Refused(i) ELSE Asked(n)) \in 1 .. StreamBytes
<1>1. n \in Nat /\ i \in Nat /\ StreamBytes \in Nat /\ StreamBytes > 0
  BY AdmissionAssumption
<1> QED  BY <1>1 DEF OverByteCap, Refused, Asked

\* Every number a step of a stream computes with.
PermitNumbers(s) ==
    /\ itemCount \in Nat /\ byteCount \in Nat /\ freeItems \in Nat /\ freeBytes \in Nat
    /\ ownItems[s] \in Nat /\ ownBytes[s] \in Nat /\ want[s] \in Nat
    /\ HeldBy(s) \in Nat /\ Full(s) \in Nat /\ ItemsOf(s) \in Nat /\ BytesOf(s) \in Nat
    /\ OwnHas(s) \in Nat /\ Len(rooms[s]) \in Nat /\ Total(rooms[s]) \in Nat

LEMMA InvNumbers ==
    ASSUME RoomsInv, NEW s \in Streams
    PROVE  PermitNumbers(s)
<1>1. RoomShapes /\ PermitsConserved
  BY DEF RoomsInv
<1>2. itemCount \in Nat /\ byteCount \in Nat
  BY <1>1, CountsAreNumbers
<1>3. /\ HeldBy(s) \in Nat /\ Full(s) \in Nat /\ ItemsOf(s) \in Nat /\ BytesOf(s) \in Nat
      /\ Len(rooms[s]) \in Nat /\ Total(rooms[s]) \in Nat
  BY <1>1, PartsAreNumbers
<1> QED  BY <1>1, <1>2, <1>3 DEF RoomShapes, OwnHas, PermitNumbers

\* A reader asks: it joins the items' queue, once, with a size.
LEMMA AskKeeps ==
    ASSUME RoomsInv, NEW s \in Streams, Ask(s)
    PROVE  RoomsInv'
<1>0. PermitNumbers(s)
  BY InvNumbers
<1>1. PICK w \in 1 .. StreamBytes : want' = [want EXCEPT ![s] = w]
  BY AskedFits DEF Ask
<1>2. /\ stage[s] = "idle" /\ want[s] = 0 /\ s \notin ToSet(itemQueue)
      /\ stage' = [stage EXCEPT ![s] = "item"] /\ itemQueue' = Append(itemQueue, s)
      /\ UNCHANGED <<byteQueue, permits, rooms, releasing, dead, gauges>>
  BY DEF Ask, Waits, RoomsInv, Queue, Sized
<1>3. RoomShapes'
  <2>0. w \in Nat
    BY AdmissionAssumption
  <2>1. stage' \in [Streams -> Stages] /\ want' \in [Streams -> Nat]
    BY <1>1, <1>2, <2>0 DEF RoomsInv, RoomShapes, Stages
  <2> QED  BY <1>2, <2>1 DEF RoomsInv, RoomShapes, permits
<1>4. Queue(itemQueue, "item")'
  <2>1. /\ itemQueue' \in Seq(Streams) /\ ToSet(itemQueue)' = ToSet(itemQueue) \cup {s}
        /\ \A i, j \in DOMAIN itemQueue' : itemQueue'[i] = itemQueue'[j] => i = j
    BY <1>2, JoinsOnce DEF RoomsInv, Queue
  <2>2. \A t \in Streams : stage'[t] = "item" <=> t \in ToSet(itemQueue)'
    BY <1>2, <2>1 DEF RoomsInv, RoomShapes, Queue
  <2> QED  BY <2>1, <2>2 DEF Queue
<1>5. Queue(byteQueue, "bytes")'
  BY <1>2 DEF RoomsInv, RoomShapes, Queue
<1>6. \A t \in Streams : Sized(t)'
  BY <1>1, <1>2 DEF RoomsInv, RoomShapes, Sized
<1>7. PermitsConserved'
  <2>1. OnlyOf(s)
    BY <1>1, <1>2 DEF RoomsInv, RoomShapes, OnlyOf, permits
  <2>2. stage'[s] = "item"
    BY <1>2 DEF RoomsInv, RoomShapes
  <2>3. /\ ItemsOf(s)' = ItemsOf(s) /\ BytesOf(s)' = BytesOf(s) /\ OwnHas(s)' = OwnHas(s)
        /\ HeldBy(s)' = HeldBy(s) /\ Full(s)' = Full(s)
    BY <1>2, <2>2 DEF ItemsOf, BytesOf, OwnHas, HeldBy, Full, Has
  <2>4. /\ itemCount' = itemCount - Len(rooms[s]) + Len(rooms'[s])
        /\ byteCount' = byteCount - Total(rooms[s]) + Total(rooms'[s])
    <3>1. itemCount' = itemCount /\ byteCount' = byteCount /\ rooms' = rooms
      BY <1>2 DEF gauges
    <3> QED  BY <1>0, <3>1, Unchanged, Zenon DEF PermitNumbers
  <2>5. /\ freeItems' + ItemsOf(s)' = freeItems + ItemsOf(s)
        /\ freeBytes' + BytesOf(s)' = freeBytes + BytesOf(s)
        /\ ownItems'[s] + HeldBy(s)' + OwnHas(s)' = ownItems[s] + HeldBy(s) + OwnHas(s)
        /\ ownBytes'[s] + Full(s)' = ownBytes[s] + Full(s)
    BY <1>2, <2>3 DEF permits
  <2>6. RoomShapes /\ PermitsConserved
    BY DEF RoomsInv
  <2> QED  BY ONLY <1>3, <2>1, <2>4, <2>5, <2>6, OneStream, s \in Streams
<1> QED  BY <1>3, <1>4, <1>5, <1>6, <1>7 DEF RoomsInv

\* It takes a server item and joins the bytes' queue.
LEMMA TakeItemKeeps ==
    ASSUME RoomsInv, NEW s \in Streams, TakeItem(s)
    PROVE  RoomsInv'
<1>0. PermitNumbers(s)
  BY InvNumbers
<1>1. /\ itemQueue # <<>> /\ Head(itemQueue) = s /\ itemQueue' = Tail(itemQueue)
      /\ byteQueue' = Append(byteQueue, s) /\ stage' = [stage EXCEPT ![s] = "bytes"]
      /\ freeItems > 0 /\ freeItems' = freeItems - 1
      /\ UNCHANGED <<want, freeBytes, ownItems, ownBytes, rooms, releasing, dead, gauges>>
  BY DEF TakeItem, Waits
<1>2. /\ itemQueue' \in Seq(Streams) /\ ToSet(itemQueue)' = ToSet(itemQueue) \ {s}
      /\ \A i, j \in DOMAIN itemQueue' : itemQueue'[i] = itemQueue'[j] => i = j
      /\ stage[s] = "item"
  BY <1>1, TailLeaves DEF RoomsInv, Queue
<1>3. /\ byteQueue' \in Seq(Streams) /\ ToSet(byteQueue)' = ToSet(byteQueue) \cup {s}
      /\ \A i, j \in DOMAIN byteQueue' : byteQueue'[i] = byteQueue'[j] => i = j
  <2>1. s \notin ToSet(byteQueue)
    BY <1>2 DEF RoomsInv, Queue
  <2> QED  BY <1>1, <2>1, JoinsOnce DEF RoomsInv, Queue
<1>4. RoomShapes'
  <2>1. stage' \in [Streams -> Stages]
    BY <1>1 DEF RoomsInv, RoomShapes, Stages
  <2>2. freeItems' \in Nat
    BY <1>1, <1>0 DEF PermitNumbers
  <2> QED  BY <1>1, <2>1, <2>2 DEF RoomsInv, RoomShapes
<1>5. Queue(itemQueue, "item")'
  BY <1>1, <1>2 DEF RoomsInv, RoomShapes, Queue
<1>6. Queue(byteQueue, "bytes")'
  BY <1>1, <1>3 DEF RoomsInv, RoomShapes, Queue
<1>7. \A t \in Streams : Sized(t)'
  BY <1>1, <1>2 DEF RoomsInv, RoomShapes, Sized
<1>8. PermitsConserved'
  <2>1. OnlyOf(s)
    BY <1>1 DEF RoomsInv, RoomShapes, OnlyOf
  <2>2. stage'[s] = "bytes"
    BY <1>1 DEF RoomsInv, RoomShapes
  <2>3. /\ BytesOf(s)' = BytesOf(s) /\ OwnHas(s)' = OwnHas(s)
        /\ HeldBy(s)' = HeldBy(s) /\ Full(s)' = Full(s)
    BY <1>1, <1>2, <2>2 DEF BytesOf, OwnHas, HeldBy, Full, Has
  <2>4. ItemsOf(s) = HeldBy(s) /\ ItemsOf(s)' = HeldBy(s)' + 1
    <3>1. ~Has(s, "item") /\ Has(s, "item")'
      BY <1>2, <2>2 DEF Has
    <3> QED  BY <2>3, <3>1, <1>0 DEF ItemsOf, PermitNumbers
  <2>5. freeItems' + ItemsOf(s)' = freeItems + ItemsOf(s)
    BY <1>1, <2>3, <2>4, <1>0 DEF PermitNumbers
  <2>6. /\ itemCount' = itemCount - Len(rooms[s]) + Len(rooms'[s])
        /\ byteCount' = byteCount - Total(rooms[s]) + Total(rooms'[s])
    <3>1. itemCount' = itemCount /\ byteCount' = byteCount /\ rooms' = rooms
      BY <1>1 DEF gauges
    <3> QED  BY <1>0, <3>1, Unchanged, Zenon DEF PermitNumbers
  <2>7. /\ ownItems'[s] + HeldBy(s)' + OwnHas(s)' = ownItems[s] + HeldBy(s) + OwnHas(s)
        /\ ownBytes'[s] + Full(s)' = ownBytes[s] + Full(s)
        /\ freeBytes' + BytesOf(s)' = freeBytes + BytesOf(s)
    BY <1>1, <2>3
  <2>8. RoomShapes /\ PermitsConserved
    BY DEF RoomsInv
  <2> QED  BY ONLY <1>4, <2>1, <2>5, <2>6, <2>7, <2>8, OneStream, s \in Streams
<1> QED  BY <1>4, <1>5, <1>6, <1>7, <1>8 DEF RoomsInv

\* It takes the server's bytes.
LEMMA TakeBytesKeeps ==
    ASSUME RoomsInv, NEW s \in Streams, TakeBytes(s)
    PROVE  RoomsInv'
<1>0. PermitNumbers(s)
  BY InvNumbers
<1>1. /\ byteQueue # <<>> /\ Head(byteQueue) = s /\ byteQueue' = Tail(byteQueue)
      /\ stage' = [stage EXCEPT ![s] = "own_item"]
      /\ freeBytes >= want[s] /\ freeBytes' = freeBytes - want[s]
      /\ UNCHANGED <<want, itemQueue, freeItems, ownItems, ownBytes, rooms, releasing, dead, gauges>>
  BY DEF TakeBytes, Waits
<1>2. /\ byteQueue' \in Seq(Streams) /\ ToSet(byteQueue)' = ToSet(byteQueue) \ {s}
      /\ \A i, j \in DOMAIN byteQueue' : byteQueue'[i] = byteQueue'[j] => i = j
      /\ stage[s] = "bytes"
  BY <1>1, TailLeaves DEF RoomsInv, Queue
<1>3. RoomShapes'
  <2>1. stage' \in [Streams -> Stages]
    BY <1>1 DEF RoomsInv, RoomShapes, Stages
  <2>2. freeBytes' \in Nat
    BY <1>1, <1>0 DEF PermitNumbers
  <2> QED  BY <1>1, <2>1, <2>2 DEF RoomsInv, RoomShapes
<1>4. Queue(itemQueue, "item")'
  BY <1>1, <1>2 DEF RoomsInv, RoomShapes, Queue
<1>5. Queue(byteQueue, "bytes")'
  BY <1>1, <1>2 DEF RoomsInv, RoomShapes, Queue
<1>6. \A t \in Streams : Sized(t)'
  BY <1>1, <1>2 DEF RoomsInv, RoomShapes, Sized
<1>7. PermitsConserved'
  <2>1. OnlyOf(s)
    BY <1>1 DEF RoomsInv, RoomShapes, OnlyOf
  <2>2. stage'[s] = "own_item"
    BY <1>1 DEF RoomsInv, RoomShapes
  <2>3. /\ ItemsOf(s)' = ItemsOf(s) /\ OwnHas(s)' = OwnHas(s)
        /\ HeldBy(s)' = HeldBy(s) /\ Full(s)' = Full(s)
    BY <1>1, <1>2, <2>2 DEF ItemsOf, OwnHas, HeldBy, Full, Has
  <2>4. BytesOf(s) = Full(s) /\ BytesOf(s)' = Full(s)' + want[s]
    <3>1. ~Has(s, "bytes") /\ Has(s, "bytes")' /\ want'[s] = want[s]
      BY <1>1, <1>2, <2>2 DEF Has
    <3> QED  BY <2>3, <3>1, <1>0 DEF BytesOf, PermitNumbers
  <2>5. freeBytes' + BytesOf(s)' = freeBytes + BytesOf(s)
    BY <1>1, <2>3, <2>4, <1>0 DEF PermitNumbers
  <2>6. /\ itemCount' = itemCount - Len(rooms[s]) + Len(rooms'[s])
        /\ byteCount' = byteCount - Total(rooms[s]) + Total(rooms'[s])
    <3>1. itemCount' = itemCount /\ byteCount' = byteCount /\ rooms' = rooms
      BY <1>1 DEF gauges
    <3> QED  BY <1>0, <3>1, Unchanged, Zenon DEF PermitNumbers
  <2>7. /\ ownItems'[s] + HeldBy(s)' + OwnHas(s)' = ownItems[s] + HeldBy(s) + OwnHas(s)
        /\ ownBytes'[s] + Full(s)' = ownBytes[s] + Full(s)
        /\ freeItems' + ItemsOf(s)' = freeItems + ItemsOf(s)
    BY <1>1, <2>3
  <2>8. RoomShapes /\ PermitsConserved
    BY DEF RoomsInv
  <2> QED  BY ONLY <1>3, <2>1, <2>5, <2>6, <2>7, <2>8, OneStream, s \in Streams
<1> QED  BY <1>3, <1>4, <1>5, <1>6, <1>7 DEF RoomsInv

\* It takes an item of its stream's.
LEMMA TakeOwnItemKeeps ==
    ASSUME RoomsInv, NEW s \in Streams, TakeOwnItem(s)
    PROVE  RoomsInv'
<1>0. PermitNumbers(s)
  BY InvNumbers
<1>1. /\ stage[s] = "own_item" /\ stage' = [stage EXCEPT ![s] = "own_bytes"]
      /\ ownItems[s] > 0 /\ ownItems' = [ownItems EXCEPT ![s] = ownItems[s] - 1]
      /\ UNCHANGED <<want, queues, freeItems, freeBytes, ownBytes, rooms, releasing, dead, gauges>>
  BY DEF TakeOwnItem, Waits
<1>2. RoomShapes'
  <2>1. stage' \in [Streams -> Stages]
    BY <1>1 DEF RoomsInv, RoomShapes, Stages
  <2>2. ownItems[s] - 1 \in Nat
    BY <1>1, <1>0 DEF PermitNumbers
  <2>3. ownItems' \in [Streams -> Nat]
    BY <1>1, <2>2 DEF RoomsInv, RoomShapes
  <2> QED  BY <1>1, <2>1, <2>3 DEF RoomsInv, RoomShapes, queues
<1>3. Queue(itemQueue, "item")' /\ Queue(byteQueue, "bytes")'
  BY <1>1 DEF RoomsInv, RoomShapes, Queue, queues
<1>4. \A t \in Streams : Sized(t)'
  BY <1>1 DEF RoomsInv, RoomShapes, Sized
<1>5. PermitsConserved'
  <2>1. OnlyOf(s)
    BY <1>1 DEF RoomsInv, RoomShapes, OnlyOf
  <2>2. stage'[s] = "own_bytes" /\ ownItems'[s] = ownItems[s] - 1 /\ ownItems[s] \in Nat
    BY <1>1 DEF RoomsInv, RoomShapes
  <2>3. /\ ItemsOf(s)' = ItemsOf(s) /\ BytesOf(s)' = BytesOf(s)
        /\ HeldBy(s)' = HeldBy(s) /\ Full(s)' = Full(s)
    BY <1>1, <2>2 DEF ItemsOf, BytesOf, HeldBy, Full, Has
  <2>4. OwnHas(s) = 0 /\ OwnHas(s)' = 1
    BY <1>1, <2>2 DEF OwnHas, Has
  <2>5. ownItems'[s] + HeldBy(s)' + OwnHas(s)' = ownItems[s] + HeldBy(s) + OwnHas(s)
    BY <2>2, <2>3, <2>4, <1>0 DEF PermitNumbers
  <2>6. /\ itemCount' = itemCount - Len(rooms[s]) + Len(rooms'[s])
        /\ byteCount' = byteCount - Total(rooms[s]) + Total(rooms'[s])
    <3>1. itemCount' = itemCount /\ byteCount' = byteCount /\ rooms' = rooms
      BY <1>1 DEF gauges
    <3> QED  BY <1>0, <3>1, Unchanged, Zenon DEF PermitNumbers
  <2>7. /\ ownBytes'[s] + Full(s)' = ownBytes[s] + Full(s)
        /\ freeItems' + ItemsOf(s)' = freeItems + ItemsOf(s)
        /\ freeBytes' + BytesOf(s)' = freeBytes + BytesOf(s)
    BY <1>1, <2>3
  <2>8. RoomShapes /\ PermitsConserved
    BY DEF RoomsInv
  <2> QED  BY ONLY <1>2, <2>1, <2>5, <2>6, <2>7, <2>8, OneStream, s \in Streams
<1> QED  BY <1>2, <1>3, <1>4, <1>5 DEF RoomsInv

\* It takes its stream's bytes: what the admission held is now the room's.
LEMMA TakeOwnBytesKeeps ==
    ASSUME RoomsInv, NEW s \in Streams, TakeOwnBytes(s)
    PROVE  RoomsInv'
<1>0. PermitNumbers(s)
  BY InvNumbers
<1>1. /\ stage[s] = "own_bytes" /\ stage' = [stage EXCEPT ![s] = "idle"]
      /\ ownBytes[s] >= want[s] /\ ownBytes' = [ownBytes EXCEPT ![s] = ownBytes[s] - want[s]]
      /\ itemCount' = itemCount + 1 /\ byteCount' = byteCount + want[s]
      /\ rooms' = [rooms EXCEPT ![s] = Append(rooms[s], want[s])]
      /\ want' = [want EXCEPT ![s] = 0]
      /\ UNCHANGED <<queues, freeItems, freeBytes, ownItems, releasing, dead>>
  BY DEF TakeOwnBytes, Waits
<1>2. want[s] \in 1 .. StreamBytes /\ rooms[s] \in Seq(1 .. StreamBytes)
  BY <1>1 DEF RoomsInv, RoomShapes, Sized
<1>3. /\ rooms'[s] = Append(rooms[s], want[s])
      /\ Len(rooms'[s]) = Len(rooms[s]) + 1 /\ Total(rooms'[s]) = Total(rooms[s]) + want[s]
  <2>1. rooms'[s] = Append(rooms[s], want[s])
    BY <1>1 DEF RoomsInv, RoomShapes
  <2>2. rooms[s] \in Seq(Nat)
    BY <1>2, RoomsAreNumbers
  <2>3. Total(rooms'[s]) = Total(rooms[s]) + want[s]
    BY <1>0, <2>1, <2>2, TotalOfAppend DEF PermitNumbers
  <2> QED  BY <2>1, <2>2, <2>3
<1>4. RoomShapes'
  <2>1. stage' \in [Streams -> Stages] /\ want' \in [Streams -> Nat]
    BY <1>1 DEF RoomsInv, RoomShapes, Stages
  <2>2. ownBytes[s] - want[s] \in Nat
    BY <1>0, <1>1 DEF PermitNumbers
  <2>3. ownBytes' \in [Streams -> Nat]
    BY <1>1, <2>2 DEF RoomsInv, RoomShapes
  <2>4. Append(rooms[s], want[s]) \in Seq(1 .. StreamBytes)
    BY <1>2
  <2>5. rooms' \in [Streams -> Seq(1 .. StreamBytes)]
    BY <1>1, <2>4 DEF RoomsInv, RoomShapes
  <2> QED  BY <1>1, <2>1, <2>3, <2>5 DEF RoomsInv, RoomShapes
<1>5. Queue(itemQueue, "item")' /\ Queue(byteQueue, "bytes")'
  BY <1>1 DEF RoomsInv, RoomShapes, Queue, queues
<1>6. \A t \in Streams : Sized(t)'
  BY <1>1 DEF RoomsInv, RoomShapes, Sized
<1>7. PermitsConserved'
  <2>1. OnlyOf(s)
    BY <1>1 DEF RoomsInv, RoomShapes, OnlyOf
  <2>2. stage'[s] = "idle" /\ releasing' = releasing /\ ownBytes'[s] = ownBytes[s] - want[s]
    BY <1>1 DEF RoomsInv, RoomShapes
  <2>3. HeldBy(s)' = HeldBy(s) + 1 /\ Full(s)' = Full(s) + want[s]
    <3>1. Len(releasing[s]) \in Nat /\ Total(releasing[s]) \in Nat
      BY RoomsAreNumbers DEF RoomsInv, RoomShapes
    <3>2. /\ HeldBy(s) = Len(rooms[s]) + Len(releasing[s])
          /\ HeldBy(s)' = Len(rooms[s]) + 1 + Len(releasing[s])
      BY <1>0, <1>3, <2>2 DEF HeldBy, PermitNumbers
    <3>3. /\ Full(s) = Total(rooms[s]) + Total(releasing[s])
          /\ Full(s)' = Total(rooms[s]) + want[s] + Total(releasing[s])
      BY <1>0, <1>3, <2>2 DEF Full, PermitNumbers
    <3>4. Len(rooms[s]) \in Nat /\ Total(rooms[s]) \in Nat /\ want[s] \in Nat
      BY <1>0 DEF PermitNumbers
    <3>5. Len(rooms[s]) + 1 + Len(releasing[s]) = Len(rooms[s]) + Len(releasing[s]) + 1
      BY <3>1, <3>4, OneMore, Zenon
    <3>6. Total(rooms[s]) + want[s] + Total(releasing[s]) = Total(rooms[s]) + Total(releasing[s]) + want[s]
      BY ONLY <3>1, <3>4, Swapped, Z3
    <3>7. HeldBy(s)' = HeldBy(s) + 1
      BY <3>2, <3>5, Zenon
    <3>8. Full(s)' = Full(s) + want[s]
      BY <3>3, <3>6, Zenon
    <3> QED  BY <3>7, <3>8
  <2>4. ItemsOf(s) = HeldBy(s) + 1 /\ BytesOf(s) = Full(s) + want[s] /\ OwnHas(s) = 1
    BY <1>1 DEF ItemsOf, BytesOf, OwnHas, Has
  <2>5. ItemsOf(s)' = HeldBy(s)' /\ BytesOf(s)' = Full(s)' /\ OwnHas(s)' = 0
    BY <1>0, <2>2, <2>3 DEF ItemsOf, BytesOf, OwnHas, Has, PermitNumbers
  <2>6. /\ freeItems' + ItemsOf(s)' = freeItems + ItemsOf(s)
        /\ freeBytes' + BytesOf(s)' = freeBytes + BytesOf(s)
        /\ ownItems'[s] + HeldBy(s)' + OwnHas(s)' = ownItems[s] + HeldBy(s) + OwnHas(s)
        /\ ownBytes'[s] + Full(s)' = ownBytes[s] + Full(s)
    <3>1. freeItems' = freeItems /\ freeBytes' = freeBytes /\ ownItems'[s] = ownItems[s]
      BY <1>1
    <3>2. /\ freeItems \in Nat /\ freeBytes \in Nat /\ ownItems[s] \in Nat /\ ownBytes[s] \in Nat
          /\ want[s] \in Nat /\ HeldBy(s) \in Nat /\ Full(s) \in Nat
      BY <1>0 DEF PermitNumbers
    <3> QED  BY ONLY <2>2, <2>3, <2>4, <2>5, <3>1, <3>2
  <2>7. /\ itemCount' = itemCount - Len(rooms[s]) + Len(rooms'[s])
        /\ byteCount' = byteCount - Total(rooms[s]) + Total(rooms'[s])
    <3>1. itemCount' = itemCount + 1 /\ byteCount' = byteCount + want[s]
      BY <1>1
    <3>2. /\ itemCount \in Nat /\ byteCount \in Nat /\ want[s] \in Nat
          /\ Len(rooms[s]) \in Nat /\ Total(rooms[s]) \in Nat
      BY <1>0 DEF PermitNumbers
    <3>3. itemCount + 1 = itemCount - Len(rooms[s]) + (Len(rooms[s]) + 1)
      BY <3>2, OneExchanged, Zenon
    <3>4. byteCount + want[s] = byteCount - Total(rooms[s]) + (Total(rooms[s]) + want[s])
      BY ONLY <3>2, Exchanged, Z3
    <3> QED  BY <1>3, <3>1, <3>3, <3>4, Zenon
  <2>8. RoomShapes /\ PermitsConserved
    BY DEF RoomsInv
  <2> QED  BY ONLY <1>4, <2>1, <2>6, <2>7, <2>8, OneStream, s \in Streams
<1> QED  BY <1>4, <1>5, <1>6, <1>7 DEF RoomsInv

\* A stream dies: nothing is freed yet.
LEMMA DiesKeeps ==
    ASSUME RoomsInv, NEW s \in Streams, Dies(s)
    PROVE  RoomsInv'
<1>1. UNCHANGED <<stage, want, queues, permits, rooms, releasing, gauges>> /\ dead' = [dead EXCEPT ![s] = TRUE]
  BY DEF Dies
<1>2. RoomShapes'
  BY <1>1 DEF RoomsInv, RoomShapes, permits
<1>3. Queue(itemQueue, "item")' /\ Queue(byteQueue, "bytes")' /\ \A t \in Streams : Sized(t)'
  BY <1>1 DEF RoomsInv, Queue, Sized, queues
<1>4. PermitsConserved'
  BY <1>1 DEF RoomsInv, PermitsConserved, ItemsOf, BytesOf, HeldBy, Full, Has, permits, gauges
<1> QED  BY <1>2, <1>3, <1>4 DEF RoomsInv

\* An admission is dropped where it waits: what it holds goes back, and no more.
LEMMA CancelKeeps ==
    ASSUME RoomsInv, NEW s \in Streams, Cancel(s)
    PROVE  RoomsInv'
<1>0. PermitNumbers(s)
  BY InvNumbers
<1> DEFINE one == IF Has(s, "item") THEN 1 ELSE 0
           bytes == IF Has(s, "bytes") THEN want[s] ELSE 0
           own == IF Has(s, "own_item") THEN 1 ELSE 0
<1>1. /\ stage' = [stage EXCEPT ![s] = "over"] /\ want' = [want EXCEPT ![s] = 0]
      /\ freeItems' = freeItems + one /\ freeBytes' = freeBytes + bytes
      /\ ownItems' = [ownItems EXCEPT ![s] = ownItems[s] + own]
      /\ itemQueue' = Leave(itemQueue, s) /\ byteQueue' = Leave(byteQueue, s)
      /\ UNCHANGED <<ownBytes, rooms, releasing, dead, gauges>>
  BY DEF Cancel, Waits
<1>2. one \in Nat /\ bytes \in Nat /\ own \in Nat
  BY <1>0 DEF PermitNumbers
<1>3. ItemsOf(s) = HeldBy(s) + one /\ BytesOf(s) = Full(s) + bytes /\ OwnHas(s) = own
  BY DEF ItemsOf, BytesOf, OwnHas
<1> HIDE DEF one, bytes, own
<1>4. RoomShapes'
  <2>1. stage' \in [Streams -> Stages] /\ want' \in [Streams -> Nat]
    BY <1>1 DEF RoomsInv, RoomShapes, Stages
  <2>2. freeItems' \in Nat /\ freeBytes' \in Nat /\ ownItems[s] + own \in Nat
    BY <1>0, <1>1, <1>2 DEF PermitNumbers
  <2>3. ownItems' \in [Streams -> Nat]
    BY <1>1, <2>2 DEF RoomsInv, RoomShapes
  <2> QED  BY <1>1, <2>1, <2>2, <2>3 DEF RoomsInv, RoomShapes
<1>5. Queue(itemQueue, "item")'
  <2>1. /\ itemQueue' \in Seq(Streams) /\ ToSet(itemQueue)' = ToSet(itemQueue) \ {s}
        /\ \A i, j \in DOMAIN itemQueue' : itemQueue'[i] = itemQueue'[j] => i = j
    BY <1>1, LeaveLeaves DEF RoomsInv, Queue
  <2> QED  BY <1>1, <2>1 DEF RoomsInv, RoomShapes, Queue
<1>6. Queue(byteQueue, "bytes")'
  <2>1. /\ byteQueue' \in Seq(Streams) /\ ToSet(byteQueue)' = ToSet(byteQueue) \ {s}
        /\ \A i, j \in DOMAIN byteQueue' : byteQueue'[i] = byteQueue'[j] => i = j
    BY <1>1, LeaveLeaves DEF RoomsInv, Queue
  <2> QED  BY <1>1, <2>1 DEF RoomsInv, RoomShapes, Queue
<1>7. \A t \in Streams : Sized(t)'
  BY <1>1 DEF RoomsInv, RoomShapes, Sized
<1>8. PermitsConserved'
  <2>1. OnlyOf(s)
    BY <1>1 DEF RoomsInv, RoomShapes, OnlyOf
  <2>2. stage'[s] = "over" /\ ownItems'[s] = ownItems[s] + own
    BY <1>1 DEF RoomsInv, RoomShapes
  <2>3. HeldBy(s)' = HeldBy(s) /\ Full(s)' = Full(s)
    BY <1>1 DEF HeldBy, Full
  <2>4. ItemsOf(s)' = HeldBy(s) /\ BytesOf(s)' = Full(s) /\ OwnHas(s)' = 0
    BY <1>0, <2>2, <2>3 DEF ItemsOf, BytesOf, OwnHas, Has, PermitNumbers
  <2>5. /\ freeItems' + ItemsOf(s)' = freeItems + ItemsOf(s)
        /\ freeBytes' + BytesOf(s)' = freeBytes + BytesOf(s)
        /\ ownItems'[s] + HeldBy(s)' + OwnHas(s)' = ownItems[s] + HeldBy(s) + OwnHas(s)
        /\ ownBytes'[s] + Full(s)' = ownBytes[s] + Full(s)
    <3>1. freeItems' = freeItems + one /\ freeBytes' = freeBytes + bytes /\ ownBytes'[s] = ownBytes[s]
      BY <1>1
    <3>2. /\ freeItems \in Nat /\ freeBytes \in Nat /\ ownItems[s] \in Nat /\ ownBytes[s] \in Nat
          /\ HeldBy(s) \in Nat /\ Full(s) \in Nat
      BY <1>0 DEF PermitNumbers
    <3> QED  BY ONLY <1>2, <1>3, <2>2, <2>3, <2>4, <3>1, <3>2
  <2>6. /\ itemCount' = itemCount - Len(rooms[s]) + Len(rooms'[s])
        /\ byteCount' = byteCount - Total(rooms[s]) + Total(rooms'[s])
    BY <1>0, <1>1 DEF PermitNumbers, gauges
  <2>7. RoomShapes /\ PermitsConserved
    BY DEF RoomsInv
  <2> QED  BY ONLY <1>4, <2>1, <2>5, <2>6, <2>7, OneStream, s \in Streams
<1> QED  BY <1>4, <1>5, <1>6, <1>7, <1>8 DEF RoomsInv

\* A room is dropped: the gauges first.
LEMMA LowerKeeps ==
    ASSUME RoomsInv, NEW s \in Streams, Lower(s)
    PROVE  RoomsInv'
<1>0. PermitNumbers(s)
  BY InvNumbers
<1>1. PICK i \in DOMAIN rooms[s] :
        /\ itemCount' = itemCount - 1 /\ byteCount' = byteCount - rooms[s][i]
        /\ rooms' = [rooms EXCEPT ![s] = RemoveAt(rooms[s], i)]
        /\ releasing' = [releasing EXCEPT ![s] = Append(releasing[s], rooms[s][i])]
  BY DEF Lower
<1>2. UNCHANGED <<stage, want, queues, permits, dead>>
  BY DEF Lower
<1> DEFINE n == rooms[s][i]
<1>3. rooms[s] \in Seq(1 .. StreamBytes) /\ releasing[s] \in Seq(1 .. StreamBytes)
  BY DEF RoomsInv, RoomShapes
<1>4. rooms[s] \in Seq(Nat) /\ releasing[s] \in Seq(Nat)
  BY <1>3, RoomsAreNumbers
<1>5. n \in 1 .. StreamBytes /\ n \in Nat
  <2>1. ASSUME NEW T, NEW q \in Seq(T), NEW j \in DOMAIN q PROVE q[j] \in T
    OBVIOUS
  <2> QED  BY <1>3, <2>1, AdmissionAssumption
<1>6. rooms'[s] = RemoveAt(rooms[s], i) /\ releasing'[s] = Append(releasing[s], n)
  BY <1>1 DEF RoomsInv, RoomShapes
<1> HIDE DEF n
<1>7. /\ Len(rooms'[s]) = Len(rooms[s]) - 1 /\ rooms'[s] \in Seq(1 .. StreamBytes)
      /\ Total(rooms[s]) = Total(rooms'[s]) + n
  BY <1>3, <1>4, <1>6, RemoveAtFacts, TotalOfRemoveAt DEF n
<1>8. /\ Len(releasing'[s]) = Len(releasing[s]) + 1 /\ releasing'[s] \in Seq(1 .. StreamBytes)
      /\ Total(releasing'[s]) = Total(releasing[s]) + n
  <2>1. Total(Append(releasing[s], n)) = Total(releasing[s]) + n
    BY <1>4, <1>5, TotalOfAppend
  <2> QED  BY <1>3, <1>5, <1>6, <2>1
<1>9. /\ Total(rooms'[s]) \in Nat /\ Total(releasing[s]) \in Nat
      /\ Len(releasing[s]) \in Nat /\ Len(rooms[s]) \in Nat
  BY <1>3, <1>7, RoomsAreNumbers
<1>10. RoomShapes'
  BY <1>1, <1>2, <1>6, <1>7, <1>8 DEF RoomsInv, RoomShapes, permits
<1>11. Queue(itemQueue, "item")' /\ Queue(byteQueue, "bytes")' /\ \A t \in Streams : Sized(t)'
  BY <1>2 DEF RoomsInv, Queue, Sized, queues
<1>12. PermitsConserved'
  <2>1. OnlyOf(s)
    BY <1>1, <1>2 DEF RoomsInv, RoomShapes, OnlyOf, permits
  <2>2. HeldBy(s)' = HeldBy(s)
    <3>1. (Len(rooms[s]) - 1) + (Len(releasing[s]) + 1) = Len(rooms[s]) + Len(releasing[s])
      BY <1>9, OneMoved, Zenon
    <3> QED  BY <1>7, <1>8, <3>1, Zenon DEF HeldBy
  <2>3. Full(s)' = Full(s)
    BY <1>5, <1>7, <1>8, <1>9 DEF Full
  <2>4. ItemsOf(s)' = ItemsOf(s) /\ BytesOf(s)' = BytesOf(s) /\ OwnHas(s)' = OwnHas(s)
    BY <1>2, <2>2, <2>3 DEF ItemsOf, BytesOf, OwnHas, Has
  <2>5. /\ freeItems' + ItemsOf(s)' = freeItems + ItemsOf(s)
        /\ freeBytes' + BytesOf(s)' = freeBytes + BytesOf(s)
        /\ ownItems'[s] + HeldBy(s)' + OwnHas(s)' = ownItems[s] + HeldBy(s) + OwnHas(s)
        /\ ownBytes'[s] + Full(s)' = ownBytes[s] + Full(s)
    BY <1>2, <2>2, <2>3, <2>4 DEF permits
  <2>6. itemCount' = itemCount - Len(rooms[s]) + Len(rooms'[s])
    <3>1. itemCount - 1 = itemCount - Len(rooms[s]) + (Len(rooms[s]) - 1)
      BY <1>0, <1>9, OneLost, Zenon DEF PermitNumbers
    <3> QED  BY <1>1, <1>7, <3>1, Zenon
  <2>7. byteCount' = byteCount - Total(rooms[s]) + Total(rooms'[s])
    <3>1. byteCount' = byteCount - n
      BY <1>1 DEF n
    <3>2. byteCount \in Nat
      BY <1>0 DEF PermitNumbers
    <3>3. Total(rooms[s]) = Total(rooms'[s]) + n
      BY <1>7
    <3>4. Total(rooms'[s]) \in Nat
      BY <1>9
    <3> QED  BY ONLY <1>5, <3>1, <3>2, <3>3, <3>4
  <2>8. RoomShapes /\ PermitsConserved
    BY DEF RoomsInv
  <2> QED  BY ONLY <1>10, <2>1, <2>5, <2>6, <2>7, <2>8, OneStream, s \in Streams
<1> QED  BY <1>10, <1>11, <1>12 DEF RoomsInv

\* Then its permits.
LEMMA ReleaseKeeps ==
    ASSUME RoomsInv, NEW s \in Streams, Release(s)
    PROVE  RoomsInv'
<1>0. PermitNumbers(s)
  BY InvNumbers
<1> DEFINE n == Head(releasing[s])
<1>1. /\ releasing[s] # <<>> /\ releasing' = [releasing EXCEPT ![s] = Tail(releasing[s])]
      /\ freeItems' = freeItems + 1 /\ freeBytes' = freeBytes + n
      /\ ownItems' = [ownItems EXCEPT ![s] = ownItems[s] + 1]
      /\ ownBytes' = [ownBytes EXCEPT ![s] = ownBytes[s] + n]
      /\ UNCHANGED <<stage, want, queues, rooms, dead, gauges>>
  BY DEF Release
<1>2. releasing[s] \in Seq(1 .. StreamBytes) /\ rooms[s] \in Seq(1 .. StreamBytes)
  BY DEF RoomsInv, RoomShapes
<1>3. releasing[s] \in Seq(Nat)
  BY <1>2, RoomsAreNumbers
<1>4. n \in Nat
  BY <1>1, <1>3
<1>5. releasing'[s] = Tail(releasing[s])
  BY <1>1 DEF RoomsInv, RoomShapes
<1>6. /\ Len(releasing'[s]) = Len(releasing[s]) - 1 /\ releasing'[s] \in Seq(1 .. StreamBytes)
      /\ Total(releasing[s]) = Total(releasing'[s]) + n
  <2>1. releasing[s] # <<>>
    BY <1>1
  <2>2. Total(releasing[s]) = Total(Tail(releasing[s])) + n
    BY <1>3, <2>1, TotalOfTail
  <2>3. \A q \in Seq(1 .. StreamBytes) :
          q # <<>> => Len(Tail(q)) = Len(q) - 1 /\ Tail(q) \in Seq(1 .. StreamBytes)
    OBVIOUS
  <2> QED  BY <1>2, <1>5, <2>1, <2>2, <2>3, Zenon
<1> HIDE DEF n
<1>7. /\ Total(releasing'[s]) \in Nat /\ Total(rooms[s]) \in Nat
      /\ Len(releasing[s]) \in Nat /\ Len(rooms[s]) \in Nat
  BY <1>2, <1>6, RoomsAreNumbers
<1>8. RoomShapes'
  <2>1. /\ freeItems' \in Nat /\ freeBytes' \in Nat
        /\ ownItems[s] + 1 \in Nat /\ ownBytes[s] + n \in Nat
    <3>1. freeItems' = freeItems + 1 /\ freeBytes' = freeBytes + n
      BY <1>1
    <3>2. freeItems \in Nat /\ freeBytes \in Nat /\ ownItems[s] \in Nat /\ ownBytes[s] \in Nat
      BY <1>0 DEF PermitNumbers
    <3> QED  BY ONLY <1>4, <3>1, <3>2
  <2>2. ownItems' \in [Streams -> Nat] /\ ownBytes' \in [Streams -> Nat]
    BY <1>1, <2>1 DEF RoomsInv, RoomShapes
  <2> QED  BY <1>1, <1>5, <1>6, <2>1, <2>2 DEF RoomsInv, RoomShapes
<1>9. Queue(itemQueue, "item")' /\ Queue(byteQueue, "bytes")' /\ \A t \in Streams : Sized(t)'
  BY <1>1 DEF RoomsInv, Queue, Sized, queues
<1>10. PermitsConserved'
  <2>1. OnlyOf(s)
    BY <1>1 DEF RoomsInv, RoomShapes, OnlyOf
  <2>2. HeldBy(s)' = HeldBy(s) - 1
    <3>1. Len(rooms[s]) + (Len(releasing[s]) - 1) = (Len(rooms[s]) + Len(releasing[s])) - 1
      BY <1>7, OneLost, Zenon
    <3>2. rooms' = rooms
      BY <1>1
    <3> QED  BY <1>6, <3>1, <3>2, Zenon DEF HeldBy
  <2>3. Full(s) = Full(s)' + n /\ Full(s)' \in Nat
    BY <1>1, <1>4, <1>6, <1>7 DEF Full
  <2>4. /\ (Has(s, "item"))' = Has(s, "item") /\ (Has(s, "bytes"))' = Has(s, "bytes")
        /\ OwnHas(s)' = OwnHas(s) /\ want' = want
    BY <1>1 DEF OwnHas, Has
  <2>5. ItemsOf(s)' = ItemsOf(s) - 1
    <3>1. HeldBy(s) \in Nat
      BY <1>0 DEF PermitNumbers
    <3> QED  BY ONLY <2>2, <2>4, <3>1 DEF ItemsOf
  <2>6. BytesOf(s) = BytesOf(s)' + n
    <3>1. want[s] \in Nat
      BY <1>0 DEF PermitNumbers
    <3> QED  BY ONLY <1>4, <2>3, <2>4, <3>1 DEF BytesOf
  <2>7. BytesOf(s)' \in Nat /\ OwnHas(s) \in Nat
    BY <1>0, <1>8, PartsStayNumbers DEF PermitNumbers
  <2>8. ownItems'[s] = ownItems[s] + 1 /\ ownBytes'[s] = ownBytes[s] + n
    BY <1>1 DEF RoomsInv, RoomShapes
  <2>9. /\ freeItems' = freeItems + 1 /\ freeBytes' = freeBytes + n
        /\ freeItems \in Nat /\ freeBytes \in Nat /\ ItemsOf(s) \in Nat
        /\ ownItems[s] \in Nat /\ ownBytes[s] \in Nat /\ HeldBy(s) \in Nat
    BY <1>0, <1>1 DEF PermitNumbers
  <2>10. /\ freeItems' + ItemsOf(s)' = freeItems + ItemsOf(s)
         /\ freeBytes' + BytesOf(s)' = freeBytes + BytesOf(s)
         /\ ownItems'[s] + HeldBy(s)' + OwnHas(s)' = ownItems[s] + HeldBy(s) + OwnHas(s)
         /\ ownBytes'[s] + Full(s)' = ownBytes[s] + Full(s)
    <3>1. freeItems' + ItemsOf(s)' = freeItems + ItemsOf(s)
      BY ONLY <2>5, <2>9
    <3>2. freeBytes' + BytesOf(s)' = freeBytes + BytesOf(s)
      BY ONLY <1>4, <2>6, <2>7, <2>9
    <3>3. ownItems'[s] + HeldBy(s)' + OwnHas(s)' = ownItems[s] + HeldBy(s) + OwnHas(s)
      BY ONLY <2>2, <2>4, <2>7, <2>8, <2>9
    <3>4. ownBytes'[s] + Full(s)' = ownBytes[s] + Full(s)
      BY ONLY <1>4, <2>3, <2>8, <2>9
    <3> QED  BY <3>1, <3>2, <3>3, <3>4
  <2>11. rooms' = rooms /\ itemCount' = itemCount /\ byteCount' = byteCount
    BY <1>1 DEF gauges
  <2>12. /\ itemCount' = itemCount - Len(rooms[s]) + Len(rooms'[s])
         /\ byteCount' = byteCount - Total(rooms[s]) + Total(rooms'[s])
    BY <1>0, <2>11, Unchanged, Zenon DEF PermitNumbers
  <2>13. RoomShapes /\ PermitsConserved
    BY DEF RoomsInv
  <2> QED  BY ONLY <1>8, <2>1, <2>10, <2>12, <2>13, OneStream, s \in Streams
<1> QED  BY <1>8, <1>9, <1>10 DEF RoomsInv

-----------------------------------------------------------------------------
(* The theorems *)

\* At the start every permit is free.
LEMMA RoomsInitHolds == RoomsInit => RoomsInv
<1> SUFFICES ASSUME RoomsInit PROVE RoomsInv
  OBVIOUS
<1>1. /\ \A s \in Streams : stage[s] = "idle" /\ want[s] = 0 /\ rooms[s] = <<>> /\ releasing[s] = <<>>
      /\ itemQueue = <<>> /\ byteQueue = <<>> /\ freeItems = ServerItems /\ freeBytes = ServerBytes
      /\ itemCount = 0 /\ byteCount = 0
      /\ \A s \in Streams : ownItems[s] = StreamItems /\ ownBytes[s] = StreamBytes
  BY DEF RoomsInit
<1>2. RoomShapes
  <2>1. <<>> \in Seq(1 .. StreamBytes)
    OBVIOUS
  <2> QED  BY <2>1, AdmissionAssumption DEF RoomsInit, RoomShapes, Stages
<1>3. Queue(itemQueue, "item") /\ Queue(byteQueue, "bytes")
  <2>1. ToSet(<<>>) = {} /\ <<>> \in Seq(Streams) /\ DOMAIN <<>> = {}
    BY DEF ToSet
  <2> QED  BY <1>1, <2>1 DEF Queue
<1>4. \A s \in Streams : Sized(s)
  BY <1>1 DEF Sized
<1>5. ASSUME NEW s \in Streams
      PROVE  /\ HeldBy(s) = 0 /\ Full(s) = 0 /\ ItemsOf(s) = 0 /\ BytesOf(s) = 0
             /\ Len(rooms[s]) = 0 /\ Total(rooms[s]) = 0 /\ ~Has(s, "own_item")
  <2>1. Len(rooms[s]) = 0 /\ Len(releasing[s]) = 0 /\ Total(rooms[s]) = 0 /\ Total(releasing[s]) = 0
    BY <1>1, TotalOfEmpty
  <2>2. HeldBy(s) = 0 /\ Full(s) = 0
    BY <2>1 DEF HeldBy, Full
  <2>3. ~Has(s, "item") /\ ~Has(s, "bytes") /\ ~Has(s, "own_item")
    BY <1>1 DEF Has
  <2> QED  BY <2>1, <2>2, <2>3 DEF ItemsOf, BytesOf
<1>6. PermitsConserved
  <2>1. /\ Total([s \in Streams |-> ItemsOf(s)]) = 0
        /\ Total([s \in Streams |-> BytesOf(s)]) = 0
        /\ Total([s \in Streams |-> Len(rooms[s])]) = 0
        /\ Total([s \in Streams |-> Total(rooms[s])]) = 0
    <3>1. ASSUME NEW f \in [Streams -> {0}] PROVE Total(f) = 0
      BY TotalNothing
    <3> QED  BY <1>5, <3>1
  <2>2. \A s \in Streams :
           /\ ownItems[s] + HeldBy(s) + (IF Has(s, "own_item") THEN 1 ELSE 0) = StreamItems
           /\ ownBytes[s] + Full(s) = StreamBytes
    BY <1>1, <1>5, AdmissionAssumption
  <2> QED  BY <1>1, <2>1, <2>2, AdmissionAssumption DEF PermitsConserved
<1> QED  BY <1>2, <1>3, <1>4, <1>6 DEF RoomsInv

\* Every step keeps the invariant.
LEMMA RoomsNextKeeps == RoomsInv /\ [RoomsNext]_roomVars => RoomsInv'
<1> SUFFICES ASSUME RoomsInv, [RoomsNext]_roomVars PROVE RoomsInv'
  OBVIOUS
<1>1. ASSUME NEW s \in Streams, Ask(s) \/ Admission(s) \/ Dies(s) \/ Lower(s) \/ Release(s)
      PROVE  RoomsInv'
  BY <1>1, AskKeeps, TakeItemKeeps, TakeBytesKeeps, TakeOwnItemKeeps, TakeOwnBytesKeeps, CancelKeeps,
     DiesKeeps, LowerKeeps, ReleaseKeeps, Zenon DEF Admission
<1>2. CASE UNCHANGED roomVars
  <2>1. UNCHANGED <<stage, want, itemQueue, byteQueue, freeItems, freeBytes, ownItems, ownBytes, rooms,
                    releasing, dead, itemCount, byteCount>>
    BY <1>2 DEF roomVars, queues, permits, gauges
  <2>2. RoomShapes' /\ Queue(itemQueue, "item")' /\ Queue(byteQueue, "bytes")' /\ \A s \in Streams : Sized(s)'
    BY <2>1 DEF RoomsInv, RoomShapes, Queue, Sized
  <2>3. PermitsConserved'
    BY <2>1 DEF RoomsInv, PermitsConserved, ItemsOf, BytesOf, HeldBy, Full, Has
  <2> QED  BY <2>2, <2>3 DEF RoomsInv
<1> QED  BY <1>1, <1>2 DEF RoomsNext

\* The inductive invariant: the rooms are accounted for, every waiter is once in
\* the queue of its stage, and no admission asks for more than a stream's cap
\* (mod.rs admit_permits, Room; reader.rs wait_room).
THEOREM AdmissionInvariant == RoomsSpec => []RoomsInv
<1> QED  BY RoomsInitHolds, RoomsNextKeeps, PTL DEF RoomsSpec

\* No permit leaks, whatever was cancelled at which semaphore, and the gauges
\* count the rooms (mod.rs Room, admit_permits).
THEOREM PermitsAlwaysConserved == RoomsSpec => []PermitsConserved
<1>1. RoomsInv => PermitsConserved
  BY DEF RoomsInv
<1> QED  BY <1>1, AdmissionInvariant, PTL

\* Every variable keeps its type: no semaphore has more permits than it was made
\* with, no gauge is below zero or above the server's caps (mod.rs Shared).
THEOREM AdmissionTypes == RoomsSpec => []RoomTypes
<1>1. ASSUME RoomsInv PROVE RoomTypes
  <2>1. IsFiniteSet(Streams) /\ {ServerItems, ServerBytes, StreamItems, StreamBytes} \subseteq Nat
    BY AdmissionAssumption
  <2> DEFINE items == [s \in Streams |-> ItemsOf(s)]
             bytes == [s \in Streams |-> BytesOf(s)]
             lens == [s \in Streams |-> Len(rooms[s])]
             sizes == [s \in Streams |-> Total(rooms[s])]
  <2>2. RoomShapes /\ PermitsConserved
    BY <1>1 DEF RoomsInv
  <2>3. /\ items \in [Streams -> Nat] /\ bytes \in [Streams -> Nat]
        /\ lens \in [Streams -> Nat] /\ sizes \in [Streams -> Nat]
    BY <2>2, PartsAreNumbers
  <2>4. ASSUME NEW s \in Streams PROVE lens[s] <= items[s] /\ sizes[s] <= bytes[s]
    <3>1. /\ Len(rooms[s]) \in Nat /\ Total(rooms[s]) \in Nat
          /\ Len(releasing[s]) \in Nat /\ Total(releasing[s]) \in Nat /\ want[s] \in Nat
      BY <2>2, RoomsAreNumbers DEF RoomShapes
    <3>2. \A a, b, c \in Nat : a <= a + b + c
      OBVIOUS
    <3>3. ItemsOf(s) = Len(rooms[s]) + Len(releasing[s]) + (IF Has(s, "item") THEN 1 ELSE 0)
      BY DEF ItemsOf, HeldBy
    <3>4. BytesOf(s) = Total(rooms[s]) + Total(releasing[s]) + (IF Has(s, "bytes") THEN want[s] ELSE 0)
      BY DEF BytesOf, Full
    <3>5. /\ (IF Has(s, "item") THEN 1 ELSE 0) \in Nat
          /\ (IF Has(s, "bytes") THEN want[s] ELSE 0) \in Nat
      BY <3>1
    <3>6. Len(rooms[s]) <= ItemsOf(s)
      BY <3>1, <3>2, <3>3, <3>5, Zenon
    <3>7. Total(rooms[s]) <= BytesOf(s)
      BY <3>1, <3>2, <3>4, <3>5, Zenon
    <3> QED  BY <3>6, <3>7
  <2>5. /\ freeItems + Total(items) = ServerItems /\ freeBytes + Total(bytes) = ServerBytes
        /\ itemCount = Total(lens) /\ byteCount = Total(sizes)
    BY <2>2 DEF PermitsConserved
  <2> HIDE DEF items, bytes, lens, sizes
  <2>6. /\ Total(lens) <= Total(items) /\ Total(sizes) <= Total(bytes)
        /\ Total(items) \in Nat /\ Total(bytes) \in Nat
    BY <2>1, <2>3, <2>4, TotalBelow, TotalIsNumber
  <2>7. itemCount \in Nat /\ byteCount \in Nat
    BY <2>2, CountsAreNumbers
  <2>8. freeItems \in Nat /\ freeBytes \in Nat
    BY <2>2 DEF RoomShapes
  <2>9. freeItems \in 0 .. ServerItems /\ itemCount \in 0 .. ServerItems
    BY <2>1, <2>5, <2>6, <2>7, <2>8
  <2>10. freeBytes \in 0 .. ServerBytes /\ byteCount \in 0 .. ServerBytes
    BY <2>1, <2>5, <2>6, <2>7, <2>8
  <2>11. ASSUME NEW s \in Streams
         PROVE  ownItems[s] \in 0 .. StreamItems /\ ownBytes[s] \in 0 .. StreamBytes
    <3>1. /\ ownItems[s] + HeldBy(s) + OwnHas(s) = StreamItems /\ ownBytes[s] + Full(s) = StreamBytes
          /\ OwnHas(s) \in {0, 1}
      BY <2>2 DEF PermitsConserved, OwnHas
    <3>2. HeldBy(s) \in Nat /\ Full(s) \in Nat /\ ownItems[s] \in Nat /\ ownBytes[s] \in Nat
      BY <2>2, PartsAreNumbers DEF RoomShapes
    <3> QED  BY <2>1, <3>1, <3>2
  <2>12. ownItems \in [Streams -> 0 .. StreamItems] /\ ownBytes \in [Streams -> 0 .. StreamBytes]
    BY <2>2, <2>11 DEF RoomShapes
  <2>13. \A s \in Streams :
           /\ stage[s] = "item" <=> s \in ToSet(itemQueue)
           /\ stage[s] = "bytes" <=> s \in ToSet(byteQueue)
    BY <1>1 DEF RoomsInv, Queue
  <2> QED  BY <2>2, <2>9, <2>10, <2>12, <2>13 DEF RoomTypes, RoomShapes
<1> QED  BY <1>1, AdmissionInvariant, PTL

-----------------------------------------------------------------------------
(* No deadlock *)

\* The semaphore that an admission waits for has what it asks for.
CanGoOn(s) ==
    \/ itemQueue # <<>> /\ Head(itemQueue) = s /\ freeItems > 0
    \/ byteQueue # <<>> /\ Head(byteQueue) = s /\ freeBytes >= want[s]
    \/ stage[s] = "own_item" /\ ownItems[s] > 0
    \/ stage[s] = "own_bytes" /\ ownBytes[s] >= want[s]

\* Admissions never wait for each other alone: while one is under way, one can
\* go on, or a room is held whose drop gives its permits back.
NoDeadlock ==
    (\E s \in Streams : stage[s] \notin {"idle", "over"}) =>
        \E s \in Streams : CanGoOn(s) \/ rooms[s] # <<>> \/ releasing[s] # <<>>

LEMMA FirstIsOne ==
    ASSUME NEW q \in Seq(Streams), q # <<>>
    PROVE  Head(q) \in Streams /\ Head(q) \in ToSet(q)
<1>1. Len(q) \in Nat /\ Len(q) # 0 /\ Head(q) = q[1] /\ Head(q) \in Streams /\ DOMAIN q = 1 .. Len(q)
  OBVIOUS
<1>2. 1 \in DOMAIN q
  BY <1>1
<1> QED  BY <1>1, <1>2 DEF ToSet

\* The permits are taken in one order, a stream's own last, and no admission
\* asks for more than an empty queue has: admissions of any number of streams,
\* cancelled anywhere, never deadlock (mod.rs admit_permits). This is the part of
\* EveryAdmissionEnds that needs no fairness.
THEOREM AdmissionsNeverDeadlock == RoomsSpec => []NoDeadlock
<1>1. ASSUME RoomsInv, \A s \in Streams : rooms[s] = <<>> /\ releasing[s] = <<>>,
             \A s \in Streams : ~CanGoOn(s)
      PROVE  \A s \in Streams : stage[s] \in {"idle", "over"}
  <2>1. /\ RoomShapes /\ PermitsConserved /\ \A s \in Streams : Sized(s)
        /\ {ServerItems, ServerBytes, StreamItems, StreamBytes} \subseteq Nat \ {0}
        /\ StreamBytes <= ServerBytes /\ IsFiniteSet(Streams)
    BY <1>1, AdmissionAssumption DEF RoomsInv
  <2>2. \A s \in Streams : HeldBy(s) = 0 /\ Full(s) = 0
    <3>1. Len(<<>>) = 0 /\ Total(<<>>) = 0
      BY TotalOfEmpty
    <3>2. ASSUME NEW s \in Streams PROVE HeldBy(s) = 0 + 0 /\ Full(s) = 0 + 0
      BY <1>1, <3>1, Zenon DEF HeldBy, Full
    <3> QED  BY <3>2
  <2>3. ASSUME NEW s \in Streams PROVE stage[s] # "own_item"
    <3>1. ~Has(s, "own_item") /\ stage[s] = "own_item" => ownItems[s] + 0 + 0 = StreamItems
      BY <2>1, <2>2, Zenon DEF PermitsConserved
    <3>2. ~Has(s, "own_item") \/ stage[s] # "own_item"
      BY DEF Has
    <3>3. ownItems[s] > 0 => stage[s] # "own_item"
      BY <1>1 DEF CanGoOn
    <3>4. ownItems[s] \in Nat
      BY <2>1 DEF RoomShapes
    <3> QED  BY <2>1, <3>1, <3>2, <3>3, <3>4
  <2>4. ASSUME NEW s \in Streams PROVE stage[s] # "own_bytes"
    <3>1. ownBytes[s] + 0 = StreamBytes
      BY <2>1, <2>2, Zenon DEF PermitsConserved
    <3>2. ownBytes[s] >= want[s] => stage[s] # "own_bytes"
      BY <1>1 DEF CanGoOn
    <3>3. stage[s] = "own_bytes" => want[s] \in 1 .. StreamBytes
      BY <2>1 DEF Sized
    <3>4. ownBytes[s] \in Nat
      BY <2>1 DEF RoomShapes
    <3> QED  BY <2>1, <3>1, <3>2, <3>3, <3>4
  <2>5. ASSUME NEW s \in Streams PROVE stage[s] # "bytes"
    <3> SUFFICES ASSUME stage[s] = "bytes" PROVE FALSE
      OBVIOUS
    <3>1. byteQueue \in Seq(Streams) /\ \A t \in Streams : stage[t] = "bytes" <=> t \in ToSet(byteQueue)
      BY <1>1 DEF RoomsInv, Queue
    <3>2. byteQueue # <<>>
      BY <3>1 DEF ToSet
    <3> DEFINE h == Head(byteQueue)
    <3>3. h \in Streams /\ stage[h] = "bytes"
      BY <3>1, <3>2, FirstIsOne
    <3>4. want[h] \in 1 .. StreamBytes
      BY <2>1, <3>3 DEF Sized
    <3> DEFINE f == [t \in Streams |-> BytesOf(t)]
    <3>5. \A t \in Streams : BytesOf(t) = 0
      BY <2>2, <2>3, <2>4 DEF BytesOf, Has
    <3>6. f \in [Streams -> Nat] /\ \A t \in Streams : f[t] = 0
      BY <3>5
    <3>7. freeBytes + Total(f) = ServerBytes
      BY <2>1 DEF PermitsConserved
    <3> HIDE DEF f
    <3>8. Total(f) = 0 /\ freeBytes \in Nat
      BY <2>1, <3>6, TotalNothing DEF RoomShapes
    <3>9. freeBytes >= want[h]
      BY <2>1, <3>4, <3>7, <3>8
    <3> QED  BY <1>1, <3>2, <3>3, <3>9 DEF CanGoOn
  <2>6. ASSUME NEW s \in Streams PROVE stage[s] # "item"
    <3> SUFFICES ASSUME stage[s] = "item" PROVE FALSE
      OBVIOUS
    <3>1. itemQueue \in Seq(Streams) /\ \A t \in Streams : stage[t] = "item" <=> t \in ToSet(itemQueue)
      BY <1>1 DEF RoomsInv, Queue
    <3>2. itemQueue # <<>>
      BY <3>1 DEF ToSet
    <3>3. Head(itemQueue) \in Streams
      BY <3>1, <3>2, FirstIsOne
    <3> DEFINE f == [t \in Streams |-> ItemsOf(t)]
    <3>4. \A t \in Streams : ItemsOf(t) = 0
      BY <2>2, <2>3, <2>4, <2>5 DEF ItemsOf, Has
    <3>5. f \in [Streams -> Nat] /\ \A t \in Streams : f[t] = 0
      BY <3>4
    <3>6. freeItems + Total(f) = ServerItems
      BY <2>1 DEF PermitsConserved
    <3> HIDE DEF f
    <3>7. Total(f) = 0 /\ freeItems \in Nat
      BY <2>1, <3>5, TotalNothing DEF RoomShapes
    <3>8. freeItems > 0
      BY <2>1, <3>6, <3>7
    <3> QED  BY <1>1, <3>2, <3>3, <3>8 DEF CanGoOn
  <2> QED  BY <2>1, <2>3, <2>4, <2>5, <2>6 DEF RoomShapes, Stages
<1>2. RoomsInv => NoDeadlock
  BY <1>1 DEF NoDeadlock
<1> QED  BY <1>2, AdmissionInvariant, PTL

-----------------------------------------------------------------------------
(* The document sink *)

(* The sender's mutex is held by the thread that is between two of its steps *)
(* in it, which found the sender as it still is.                             *)
SenderOwner ==
    /\ \A t \in Threads : at[t] \in {"open", "closed", "sent"} => locked = t
    /\ \A t \in Threads : at[t] = "open" => sender
    /\ \A t \in Threads : at[t] = "closed" => ~sender

(* The task is over only once a Feed has seen the queue's end, from when on  *)
(* nothing can be put in it.                                                 *)
EndIsEnd ==
    /\ sender <=> closing = "open"
    /\ closed => queue = <<>> /\ ~sender
    /\ task = "done" => closed

IInv ==
    /\ at \in [Threads -> {"idle", "reserved", "open", "closed", "sent"}]
    /\ sender \in BOOLEAN
    /\ closing \in {"open", "waiting", "aborted", "taking", "uncounting", "counting", "over"}
    /\ SenderOwner /\ EndIsEnd
    /\ NoOfferTurnedAway /\ ClosedIsEmpty
-----------------------------------------------------------------------------
(* PROOFS *)
LEMMA InitInvariant == Init => IInv
  BY DEF Init, IInv, SenderOwner, EndIsEnd, NoOfferTurnedAway, ClosedIsEmpty

LEMMA OfferKeeps ==
    ASSUME IInv, NEW t \in Threads, Offer(t)
    PROVE  IInv'
<1> USE NoOneAssumption
    DEF IInv, SenderOwner, EndIsEnd, NoOfferTurnedAway, ClosedIsEmpty, draining, ending, counters, Locked
<1>1. CASE Reserve(t)
  BY <1>1 DEF Reserve
<1>2. CASE Lock(t)
  BY <1>2 DEF Lock
<1>3. CASE TrySend(t)
  BY <1>3 DEF TrySend
<1>4. CASE Drop(t)
  BY <1>4 DEF Drop
<1>5. CASE CountQueued(t)
  BY <1>5 DEF CountQueued
<1> QED  BY <1>1, <1>2, <1>3, <1>4, <1>5 DEF Offer

LEMMA DrainKeeps ==
    ASSUME IInv, Feeding \/ CallEnds \/ Reopen \/ FeedDropped
    PROVE  IInv'
<1> USE DEF IInv, SenderOwner, EndIsEnd, NoOfferTurnedAway, ClosedIsEmpty, threads, ending, counters
<1>1. CASE Take
  BY <1>1 DEF Take
<1>2. CASE Uncount \/ Forward
  BY <1>2 DEF Uncount, Forward
<1>3. CASE FeedEnds
  BY <1>3 DEF FeedEnds
<1>4. CASE CallEnds
  BY <1>4 DEF CallEnds
<1>5. CASE Reopen \/ FeedDropped
  BY <1>5 DEF Reopen, FeedDropped
<1> QED  BY <1>1, <1>2, <1>3, <1>4, <1>5 DEF Feeding

LEMMA CloseKeeps ==
    ASSUME IInv, Close \/ Closing
    PROVE  IInv'
<1> USE NoOneAssumption
    DEF IInv, SenderOwner, EndIsEnd, NoOfferTurnedAway, ClosedIsEmpty, threads, draining, counters
<1>1. CASE Close
  BY <1>1 DEF Close
<1>2. CASE Drained
  BY <1>2 DEF Drained
<1>3. CASE Timeout \/ LockReceiver
  BY <1>3 DEF Timeout, LockReceiver
<1>4. CASE TakeLeft
  BY <1>4 DEF TakeLeft
<1>5. CASE UncountLeft \/ Abandon
  BY <1>5 DEF UncountLeft, Abandon
<1> QED  BY <1>1, <1>2, <1>3, <1>4, <1>5 DEF Closing

LEMMA StepKeeps == IInv /\ [Next]_vars => IInv'
<1>1. IInv /\ UNCHANGED vars => IInv'
  BY DEF vars, threads, draining, ending, counters, IInv, SenderOwner, EndIsEnd, NoOfferTurnedAway, ClosedIsEmpty
<1> QED  BY <1>1, OfferKeeps, DrainKeeps, CloseKeeps DEF Next

LEMMA Invariant == Spec => []IInv
<1>1. Init => IInv
  BY InitInvariant
<1>2. IInv /\ [Next]_vars => IInv'
  BY StepKeeps
<1> QED  BY <1>1, <1>2, PTL DEF Spec

(* An item counted as offered before close took the sender, and that has     *)
(* room, is queued: close waits out the offer that has begun.                *)
THEOREM NoOfferIsTurnedAway == Spec => []NoOfferTurnedAway
<1>1. IInv => NoOfferTurnedAway
  BY DEF IInv
<1> QED  BY <1>1, Invariant, PTL

(* When close returns the queue is empty, and stays so. *)
THEOREM ClosedStaysEmpty == Spec => []ClosedIsEmpty
<1>1. IInv => ClosedIsEmpty
  BY DEF IInv
<1> QED  BY <1>1, Invariant, PTL
-----------------------------------------------------------------------------
(* The items of every count. The threads at a step inside the mutex are one  *)
(* or none, so that the sets counted are counted by whether they are empty.  *)
Offering == Count(\E t \in Threads : at[t] \in {"open", "closed"})
Counting == Count(\E t \in Threads : at[t] = "sent")
InHand   == Count(feed.at \in {"took", "uncounted"}) + Count(closing \in {"uncounting", "counting"})

Gone    == forwarded + dropped + abandoned
Held    == Len(queue) + Offering + InHand
Items   == Gone + Held
Waiting == Len(queue) - Counting + Count(feed.at = "took") + Count(closing = "uncounting")

Shapes ==
    /\ queue \in Seq(Nat)
    /\ item \in [Threads -> [bytes : Nat, fits : BOOLEAN]]
    /\ feed \in [at : {"none", "open", "took", "uncounted"}, bytes : Nat]
    /\ {offered, forwarded, dropped, abandoned} \subseteq Nat
    /\ queued \in Int

CInv ==
    /\ Shapes
    /\ task = "sleep" => feed.at = "none"
    /\ offered = Items
    /\ queued = Waiting % Word

LEMMA OneHolder ==
    ASSUME IInv, NEW P \in SUBSET {"open", "closed", "sent"}
    PROVE  Cardinality(Of(P)) = Count(\E t \in Threads : at[t] \in P)
<1>1. CASE \E t \in Threads : at[t] \in P
  <2>1. PICK t \in Threads : at[t] \in P
    BY <1>1
  <2>2. Of(P) = {t}
    BY <2>1 DEF IInv, SenderOwner, Of
  <2> QED  BY <1>1, <2>2, FS_Singleton DEF Count
<1>2. CASE ~ \E t \in Threads : at[t] \in P
  <2>1. Of(P) = {}
    BY <1>2 DEF Of
  <2> QED  BY <1>2, <2>1, FS_EmptySet DEF Count
<1> QED  BY <1>1, <1>2

(* Arithmetic of a word that wraps. *)
LEMMA Division ==
    ASSUME NEW x \in Int, NEW w \in Nat \ {0}
    PROVE  x = w * (x \div w) + (x % w) /\ x % w \in 0 .. (w - 1) /\ x \div w \in Int
  BY SMTT(30)

LEMMA NoMultiple ==
    ASSUME NEW w \in Nat \ {0}, NEW k \in Int, NEW m \in 0 .. (w - 1), NEW n \in 0 .. (w - 1), w * k = m - n
    PROVE  k = 0
<1>1. CASE k >= 1
  <2>1. w * k >= w
    BY <1>1, SMT
  <2> QED  BY <2>1
<1>2. CASE k <= -1
  <2>1. w * k <= -w
    BY <1>2, SMT
  <2> QED  BY <2>1
<1> QED  BY <1>1, <1>2

LEMMA Remainder ==
    ASSUME NEW w \in Nat \ {0}, NEW k \in Int, NEW r \in 0 .. (w - 1), NEW x \in Int, x = w * k + r
    PROVE  x % w = r
<1> DEFINE d == x \div w
           m == x % w
<1>1. d \in Int /\ m \in 0 .. (w - 1) /\ x = w * d + m
  BY Division
<1> HIDE DEF d, m
<1>2. w * (k - d) = m - r
  <2>1. w * (k - d) = w * k - w * d
    BY <1>1, SMT
  <2>2. w * k \in Int /\ w * d \in Int
    BY <1>1
  <2> QED  BY <1>1, <2>1, <2>2
<1>3. k - d = 0
  BY <1>1, <1>2, NoMultiple
<1>4. m = r
  <2>1. w * (k - d) = 0
    BY <1>3
  <2> QED  BY <1>1, <1>2, <2>1
<1> QED  BY <1>4 DEF m

(* A step of the counter does not lose count of it where it wraps. *)
LEMMA Wraps ==
    ASSUME NEW x \in Int, NEW w \in Nat \ {0}, NEW i \in {-1, 1}
    PROVE  ((x % w) + i) % w = (x + i) % w
<1> DEFINE q == (x + i) \div w
           r == (x + i) % w
           d == x \div w
           m == x % w
<1>1. q \in Int /\ r \in 0 .. (w - 1) /\ x + i = w * q + r
  <2>1. x + i \in Int
    OBVIOUS
  <2> QED  BY <2>1, Division
<1>2. d \in Int /\ m \in 0 .. (w - 1) /\ x = w * d + m
  BY Division
<1> HIDE DEF q, r, d, m
<1>3. m + i = w * (q - d) + r
  <2>1. w * (q - d) = w * q - w * d
    BY <1>1, <1>2, SMT
  <2>2. w * q \in Int /\ w * d \in Int
    BY <1>1, <1>2
  <2> QED  BY <1>1, <1>2, <2>1, <2>2
<1>4. (m + i) % w = r
  BY <1>1, <1>2, <1>3, Remainder
<1> QED  BY <1>4 DEF m, r

LEMMA InitCounts == Init => CInv
<1> SUFFICES ASSUME Init PROVE CInv
  OBVIOUS
<1>1. Shapes
  BY DEF Init, Shapes, NoItem, Polled
<1>2. Offering = 0 /\ Counting = 0 /\ InHand = 0 /\ Count(feed.at = "took") = 0 /\ Count(closing = "uncounting") = 0
  BY DEF Init, Offering, Counting, InHand, Count, Polled
<1>3. Items = 0 /\ Waiting = 0
  BY <1>2 DEF Init, Items, Gone, Held, Waiting
<1>4. 0 % Word = 0
  BY SinkAssumption, Remainder, 0 = Word * 0 + 0
<1>5. offered = 0 /\ queued = 0 /\ task # "sleep"
  BY DEF Init
<1> QED  BY <1>1, <1>3, <1>4, <1>5 DEF CInv

LEMMA Numbers ==
    ASSUME CInv
    PROVE  /\ Gone \in Nat /\ Held \in Nat /\ Waiting \in Int
           /\ forwarded \in Nat /\ dropped \in Nat /\ abandoned \in Nat /\ offered \in Nat
<1>1. Len(queue) \in Nat /\ forwarded \in Nat /\ dropped \in Nat /\ abandoned \in Nat /\ offered \in Nat
  BY DEF CInv, Shapes
<1>2. Offering \in Nat /\ Counting \in Nat /\ InHand \in Nat
  BY DEF Offering, Counting, InHand, Count
<1>3. Count(feed.at = "took") \in Nat /\ Count(closing = "uncounting") \in Nat
  BY DEF Count
<1> QED  BY <1>1, <1>2, <1>3 DEF Gone, Held, Waiting

LEMMA HeldNumbers ==
    ASSUME CInv
    PROVE  Len(queue) \in Nat /\ Offering \in Nat /\ InHand \in Nat
  BY DEF CInv, Shapes, Offering, InHand, Count

LEMMA WaitingNumbers ==
    ASSUME CInv
    PROVE  Len(queue) \in Nat /\ Counting \in Nat /\ Count(feed.at = "took") \in Nat /\ Count(closing = "uncounting") \in Nat
  BY DEF CInv, Shapes, Counting, Count

LEMMA GoneNumbers ==
    ASSUME CInv
    PROVE  forwarded \in Nat /\ dropped \in Nat /\ abandoned \in Nat
  BY DEF CInv, Shapes

LEMMA Counted ==
    ASSUME IInv, CInv
    PROVE  ItemsCounted /\ QueueCounted
<1>1. Cardinality(Of({"open", "closed"})) = Offering
  BY OneHolder DEF Offering
<1>2. Cardinality(Of({"sent"})) = Counting
  <2>1. Cardinality(Of({"sent"})) = Count(\E t \in Threads : at[t] \in {"sent"})
    BY OneHolder
  <2> QED  BY <2>1 DEF Counting, Count
<1>3. Offering \in Nat /\ Count(feed.at \in {"took", "uncounted"}) \in Nat /\ Count(closing \in {"uncounting", "counting"}) \in Nat
  BY DEF Offering, Count
<1>4. ItemsCounted
  <2> DEFINE fed  == Count(feed.at \in {"took", "uncounted"})
             left == Count(closing \in {"uncounting", "counting"})
  <2>1. Len(queue) \in Nat /\ forwarded \in Nat /\ dropped \in Nat /\ abandoned \in Nat
    BY HeldNumbers, GoneNumbers
  <2>2. offered = (forwarded + dropped + abandoned) + (Len(queue) + Offering + (fed + left))
    BY DEF CInv, Items, Gone, Held, InHand
  <2>3. fed \in Nat /\ left \in Nat
    BY <1>3
  <2> HIDE DEF fed, left
  <2>4. offered = forwarded + dropped + abandoned + Len(queue) + Offering + fed + left
    BY <1>3, <2>1, <2>2, <2>3
  <2> QED  BY <1>1, <2>4 DEF ItemsCounted, fed, left
<1>5. QueueCounted
  BY <1>2 DEF CInv, QueueCounted, Waiting
<1> QED  BY <1>4, <1>5
(* A counter of the queue that takes a step of its own. *)
LEMMA CounterSteps ==
    ASSUME CInv, NEW i \in {-1, 1}, queued' = (queued + i) % Word, Waiting' = Waiting + i
    PROVE  queued' = Waiting' % Word /\ queued' \in Int
<1>1. queued = Waiting % Word /\ Waiting \in Int
  BY Numbers DEF CInv
<1>2. ((Waiting % Word) + i) % Word = (Waiting + i) % Word
  BY <1>1, Wraps, SinkAssumption
<1>3. (Waiting + i) % Word \in Int
  BY <1>1, Division, SinkAssumption
<1> QED  BY <1>1, <1>2, <1>3

LEMMA OfferCounts ==
    ASSUME IInv, CInv, NEW t \in Threads, Offer(t)
    PROVE  CInv'
<1>0. feed' = feed /\ task' = task /\ InHand' = InHand /\ (task' = "sleep" => feed'.at = "none")
      /\ (Count(feed.at = "took") + Count(closing = "uncounting"))' = Count(feed.at = "took") + Count(closing = "uncounting")
  BY DEF Offer, Reserve, Lock, TrySend, Drop, CountQueued, draining, ending, CInv, InHand
<1>1. CASE Reserve(t)
  <2>1. Offering' = Offering /\ Counting' = Counting
    BY <1>1 DEF Reserve, IInv, Offering, Counting
  <2>2. item' \in [Threads -> [bytes : Nat, fits : BOOLEAN]]
    BY <1>1, SinkAssumption DEF Reserve, CInv, Shapes
  <2>3. UNCHANGED <<queue, offered, forwarded, dropped, abandoned, queued>>
    BY <1>1 DEF Reserve
  <2>4. Items' = Items /\ Waiting' = Waiting
    BY <1>0, <1>1, <2>1, <2>3 DEF Reserve, Items, Gone, Held, Waiting, draining, ending
  <2> QED  BY <1>0, <2>2, <2>3, <2>4 DEF CInv, Shapes
<1>2. CASE Lock(t)
  <2>1. Offering = 0 /\ Counting = 0 /\ Offering' = 1 /\ Counting' = 0
    BY <1>2, NoOneAssumption DEF Lock, IInv, SenderOwner, Offering, Counting, Count
  <2>2. offered' = offered + 1 /\ UNCHANGED <<item, queue, forwarded, dropped, abandoned, queued>>
    BY <1>2 DEF Lock
  <2>3. Items' = Items + 1
    <3>1. Gone' = Gone
      BY <1>0, <2>1, <2>2 DEF Gone
    <3>2. Held' = Held + 1
      BY <1>0, <2>1, <2>2, HeldNumbers DEF Held
    <3> QED  BY <3>1, <3>2, Numbers DEF Items
  <2>4. Waiting' = Waiting
    BY <1>2, <2>1, <2>2 DEF Lock, Waiting, draining, ending
  <2>5. Shapes'
    BY <1>0, <2>2 DEF CInv, Shapes
  <2> QED  BY <1>0, <2>2, <2>3, <2>4, <2>5 DEF CInv
<1>3. CASE TrySend(t)
  <2>1. Offering = 1 /\ Offering' = 0
    BY <1>3 DEF TrySend, Locked, IInv, SenderOwner, Offering, Count
  <2>2. Counting = 0 /\ Counting' = 1
    BY <1>3 DEF TrySend, Locked, IInv, SenderOwner, Counting, Count
  <2>3. queue' \in Seq(Nat) /\ Len(queue') = Len(queue) + 1
    BY <1>3 DEF TrySend, CInv, Shapes
  <2>4. UNCHANGED <<item, offered, forwarded, dropped, abandoned, queued>>
    BY <1>3 DEF TrySend, counters
  <2>5. Items' = Items
    <3>1. Gone' = Gone
      BY <1>0, <2>1, <2>3, <2>4 DEF Gone
    <3>2. Held' = Held
      BY <1>0, <2>1, <2>3, <2>4, HeldNumbers DEF Held
    <3> QED  BY <3>1, <3>2, Numbers DEF Items
  <2>6. Waiting' = Waiting
    BY <1>3, <2>2, <2>3, WaitingNumbers DEF TrySend, Waiting, draining, ending
  <2> QED  BY <1>0, <2>3, <2>4, <2>5, <2>6 DEF CInv, Shapes
<1>4. CASE Drop(t)
  <2>1. Offering = 1 /\ Counting = 0 /\ Offering' = 0 /\ Counting' = 0
    BY <1>4 DEF Drop, Locked, IInv, SenderOwner, Offering, Counting, Count
  <2>2. dropped' = dropped + 1 /\ UNCHANGED <<queue, offered, forwarded, abandoned, queued>>
    BY <1>4 DEF Drop
  <2>3. item' \in [Threads -> [bytes : Nat, fits : BOOLEAN]]
    BY <1>4 DEF Drop, NoItem, CInv, Shapes
  <2>4. Items' = Items
    <3>1. Gone' = Gone + 1
      BY <1>0, <2>1, <2>2, GoneNumbers DEF Gone
    <3>2. Held' = Held - 1
      BY <1>0, <2>1, <2>2, HeldNumbers DEF Held
    <3> QED  BY <3>1, <3>2, Numbers DEF Items
  <2>5. Waiting' = Waiting
    BY <1>4, <2>1, <2>2 DEF Drop, Waiting, draining, ending
  <2>6. dropped' \in Nat
    BY <2>2, Numbers
  <2>7. Shapes'
    BY <1>0, <2>2, <2>3, <2>6 DEF CInv, Shapes
  <2> QED  BY <1>0, <2>2, <2>4, <2>5, <2>7 DEF CInv
<1>5. CASE CountQueued(t)
  <2>1. Offering = 0 /\ Counting = 1 /\ Offering' = 0 /\ Counting' = 0
    BY <1>5 DEF CountQueued, IInv, SenderOwner, Offering, Counting, Count
  <2>2. queued' = (queued + 1) % Word /\ UNCHANGED <<queue, offered, forwarded, dropped, abandoned>>
    BY <1>5 DEF CountQueued
  <2>3. item' \in [Threads -> [bytes : Nat, fits : BOOLEAN]]
    BY <1>5 DEF CountQueued, NoItem, CInv, Shapes
  <2>4. Items' = Items
    BY <1>0, <2>1, <2>2 DEF Items, Gone, Held
  <2>5. Waiting' = Waiting + 1
    BY <1>5, <2>1, <2>2, WaitingNumbers DEF CountQueued, Waiting, draining, ending
  <2>6. queued' = Waiting' % Word /\ queued' \in Int
    BY <2>2, <2>5, CounterSteps
  <2> QED  BY <1>0, <2>2, <2>3, <2>4, <2>6 DEF CInv, Shapes
<1> QED  BY <1>1, <1>2, <1>3, <1>4, <1>5 DEF Offer

LEMMA DrainCounts ==
    ASSUME IInv, CInv, Feeding \/ CallEnds \/ Reopen \/ FeedDropped
    PROVE  CInv'
<1>1. UNCHANGED <<at, item, closing>> /\ Offering' = Offering /\ Counting' = Counting
  BY DEF Feeding, Take, Uncount, Forward, FeedEnds, CallEnds, Reopen, FeedDropped, threads, ending, Offering, Counting
<1>2. CASE Take
  <2>1. queue' \in Seq(Nat) /\ Len(queue') = Len(queue) - 1 /\ Head(queue) \in Nat
    BY <1>2 DEF Take, CInv, Shapes
  <2>2. feed.at = "open" /\ feed' = [at |-> "took", bytes |-> Head(queue)]
        /\ UNCHANGED <<task, offered, forwarded, dropped, abandoned, queued>>
    BY <1>2 DEF Take, counters
  <2>3. InHand' = InHand + 1
    BY <1>1, <2>2 DEF InHand, Count
  <2>4. Items' = Items
    <3>1. Gone' = Gone
      BY <1>1, <2>1, <2>2, <2>3 DEF Gone
    <3>2. Held' = Held
      BY <1>1, <2>1, <2>2, <2>3, HeldNumbers DEF Held
    <3> QED  BY <3>1, <3>2, Numbers DEF Items
  <2>5. Waiting' = Waiting
    <3>1. Count(feed.at = "took") = 0 /\ Count(feed.at = "took")' = 1 /\ Count(closing = "uncounting")' = Count(closing = "uncounting")
      BY <1>1, <2>2 DEF Count
    <3> QED  BY <1>1, <2>1, <3>1, WaitingNumbers DEF Waiting
  <2> QED  BY <1>1, <2>1, <2>2, <2>4, <2>5 DEF CInv, Shapes
<1>3. CASE Uncount
  <2>1. feed.at = "took" /\ feed'.at = "uncounted" /\ feed' \in [at : {"none", "open", "took", "uncounted"}, bytes : Nat]
    BY <1>3 DEF Uncount, CInv, Shapes
  <2>2. queued' = (queued - 1) % Word /\ UNCHANGED <<queue, task, offered, forwarded, dropped, abandoned>>
    BY <1>3 DEF Uncount
  <2>3. InHand' = InHand
    BY <1>1, <2>1 DEF InHand, Count
  <2>4. Items' = Items
    BY <1>1, <2>2, <2>3 DEF Items, Gone, Held
  <2>5. Waiting' = Waiting + (-1)
    <3>1. Count(feed.at = "took") = 1 /\ Count(feed.at = "took")' = 0 /\ Count(closing = "uncounting")' = Count(closing = "uncounting")
      BY <1>1, <2>1 DEF Count
    <3> QED  BY <1>1, <2>2, <3>1, WaitingNumbers DEF Waiting
  <2>6. queued' = (queued + (-1)) % Word
    BY <2>2 DEF CInv, Shapes
  <2>7. queued' = Waiting' % Word /\ queued' \in Int
    BY <2>5, <2>6, CounterSteps
  <2>8. task = "sleep" => feed.at = "none"
    BY DEF CInv
  <2> QED  BY <1>1, <2>1, <2>2, <2>4, <2>7, <2>8 DEF CInv, Shapes
<1>4. CASE Forward
  <2>1. feed.at = "uncounted" /\ feed' = Polled /\ forwarded' = forwarded + 1
        /\ UNCHANGED <<queue, task, offered, dropped, abandoned, queued>>
    BY <1>4 DEF Forward
  <2>2. InHand' = InHand - 1
    BY <1>1, <2>1 DEF InHand, Count, Polled
  <2>3. Items' = Items
    <3>1. Gone' = Gone + 1
      BY <1>1, <2>1, <2>2, GoneNumbers DEF Gone
    <3>2. Held' = Held - 1
      BY <1>1, <2>1, <2>2, HeldNumbers DEF Held
    <3> QED  BY <3>1, <3>2, Numbers DEF Items
  <2>4. Waiting' = Waiting
    BY <1>1, <2>1 DEF Waiting, Count, Polled
  <2>5. forwarded' \in Nat
    BY <2>1, Numbers
  <2>6. task' # "sleep"
    BY <2>1 DEF CInv
  <2>7. Shapes'
    BY <1>1, <2>1, <2>5 DEF CInv, Shapes, Polled
  <2> QED  BY <2>1, <2>3, <2>4, <2>6, <2>7 DEF CInv
<1>5. CASE FeedEnds \/ CallEnds \/ Reopen \/ FeedDropped
  <2>1. feed.at \in {"open", "none"} /\ feed' \in {NoFeed, Polled} /\ (task' = "sleep" => feed'.at = "none")
        /\ UNCHANGED <<queue, counters>>
    BY <1>5 DEF FeedEnds, CallEnds, Reopen, FeedDropped, CInv, Shapes, NoFeed
  <2>2. InHand' = InHand /\ Waiting' = Waiting
    BY <1>1, <2>1 DEF InHand, Waiting, Count, NoFeed, Polled
  <2>3. Items' = Items
    BY <1>1, <2>1, <2>2 DEF Items, Gone, Held, counters
  <2> QED  BY <1>1, <2>1, <2>2, <2>3 DEF CInv, Shapes, NoFeed, Polled, counters
<1> QED  BY <1>2, <1>3, <1>4, <1>5 DEF Feeding

LEMMA CloseCounts ==
    ASSUME IInv, CInv, Close \/ Closing
    PROVE  CInv'
<1>1. UNCHANGED <<at, item, feed>> /\ Offering' = Offering /\ Counting' = Counting
  BY DEF Close, Closing, Drained, Timeout, LockReceiver, TakeLeft, UncountLeft, Abandon, threads, draining, Offering, Counting
<1>2. task' = "sleep" => feed'.at = "none"
  BY <1>1 DEF CInv, Close, Closing, Drained, Timeout, LockReceiver, TakeLeft, UncountLeft, Abandon, draining
<1>3. CASE Close \/ Drained \/ Timeout \/ LockReceiver \/ (TakeLeft /\ queue = <<>>)
  <2>1. closing \notin {"uncounting", "counting"} /\ closing' \notin {"uncounting", "counting"} /\ UNCHANGED <<queue, counters>>
    BY <1>3 DEF Close, Drained, Timeout, LockReceiver, TakeLeft
  <2>2. InHand' = InHand /\ Waiting' = Waiting
    BY <1>1, <2>1 DEF InHand, Waiting, Count
  <2>3. Items' = Items
    BY <1>1, <2>1, <2>2 DEF Items, Gone, Held, counters
  <2> QED  BY <1>1, <1>2, <2>1, <2>2, <2>3 DEF CInv, Shapes, counters
<1>4. CASE TakeLeft /\ queue # <<>>
  <2>1. queue' = Tail(queue) /\ closing = "taking" /\ closing' = "uncounting" /\ UNCHANGED counters
    BY <1>4 DEF TakeLeft
  <2>2. queue' \in Seq(Nat) /\ Len(queue') = Len(queue) - 1
    BY <1>4, <2>1 DEF CInv, Shapes
  <2>3. InHand' = InHand + 1
    BY <1>1, <2>1 DEF InHand, Count
  <2>4. Items' = Items
    <3>1. Gone' = Gone
      BY <1>1, <2>1, <2>2, <2>3 DEF Gone, counters
    <3>2. Held' = Held
      BY <1>1, <2>1, <2>2, <2>3, HeldNumbers DEF Held, counters
    <3> QED  BY <3>1, <3>2, Numbers DEF Items
  <2>5. Waiting' = Waiting
    <3>1. Count(closing = "uncounting") = 0 /\ Count(closing = "uncounting")' = 1 /\ Count(feed.at = "took")' = Count(feed.at = "took")
      BY <1>1, <2>1 DEF Count
    <3> QED  BY <1>1, <2>2, <3>1, WaitingNumbers DEF Waiting
  <2> QED  BY <1>1, <1>2, <2>1, <2>2, <2>4, <2>5 DEF CInv, Shapes, counters
<1>5. CASE UncountLeft
  <2>1. closing = "uncounting" /\ closing' = "counting" /\ queued' = (queued - 1) % Word
        /\ UNCHANGED <<queue, offered, forwarded, dropped, abandoned>>
    BY <1>5 DEF UncountLeft
  <2>2. InHand' = InHand
    BY <1>1, <2>1 DEF InHand, Count
  <2>3. Items' = Items
    BY <1>1, <2>1, <2>2 DEF Items, Gone, Held
  <2>4. Waiting' = Waiting + (-1)
    <3>1. Count(closing = "uncounting") = 1 /\ Count(closing = "uncounting")' = 0 /\ Count(feed.at = "took")' = Count(feed.at = "took")
      BY <1>1, <2>1 DEF Count
    <3> QED  BY <1>1, <2>1, <3>1, WaitingNumbers DEF Waiting
  <2>5. queued' = (queued + (-1)) % Word
    BY <2>1 DEF CInv, Shapes
  <2>6. queued' = Waiting' % Word /\ queued' \in Int
    BY <2>4, <2>5, CounterSteps
  <2> QED  BY <1>1, <1>2, <2>1, <2>3, <2>6 DEF CInv, Shapes
<1>6. CASE Abandon
  <2>1. closing = "counting" /\ closing' = "taking" /\ abandoned' = abandoned + 1
        /\ UNCHANGED <<queue, offered, forwarded, dropped, queued>>
    BY <1>6 DEF Abandon
  <2>2. InHand' = InHand - 1
    BY <1>1, <2>1 DEF InHand, Count
  <2>3. Items' = Items
    <3>1. Gone' = Gone + 1
      BY <1>1, <2>1, <2>2, GoneNumbers DEF Gone
    <3>2. Held' = Held - 1
      BY <1>1, <2>1, <2>2, HeldNumbers DEF Held
    <3> QED  BY <3>1, <3>2, Numbers DEF Items
  <2>4. Waiting' = Waiting
    BY <1>1, <2>1 DEF Waiting, Count
  <2>5. abandoned' \in Nat
    BY <2>1, Numbers
  <2>6. Shapes'
    BY <1>1, <2>1, <2>5 DEF CInv, Shapes
  <2> QED  BY <1>2, <2>1, <2>3, <2>4, <2>6 DEF CInv
<1> QED  BY <1>3, <1>4, <1>5, <1>6 DEF Closing

LEMMA CountsKeep == IInv /\ CInv /\ [Next]_vars => CInv'
<1>1. IInv /\ CInv /\ UNCHANGED vars => CInv'
  BY DEF vars, threads, draining, ending, counters, CInv, Shapes, Items, Gone, Held, Waiting, Offering, Counting, InHand
<1>2. IInv /\ CInv /\ Next => CInv'
  BY OfferCounts, DrainCounts, CloseCounts DEF Next
<1> QED  BY <1>1, <1>2

-----------------------------------------------------------------------------
(* The bytes: each reserved byte is the queue's, or in one hand, and a hand  *)
(* that has given its item up holds none.                                    *)
Reservations == [t \in Threads |-> Reserved(t)]

BInv ==
    /\ queuedBytes \in Nat /\ taken \in Nat
    /\ feed.at \notin {"took", "uncounted"} => feed.bytes = 0
    /\ closing \notin {"uncounting", "counting"} => taken = 0
    /\ queuedBytes = Total(queue) + feed.bytes + taken + Total(Reservations)
    /\ queuedBytes <= MaxBytes

(* The parts of the sum are numbers. *)
LEMMA BytesAreNumbers ==
    ASSUME CInv
    PROVE  /\ Total(queue) \in Nat /\ feed.bytes \in Nat
           /\ Reservations \in [Threads -> Nat] /\ Total(Reservations) \in Nat
           /\ \A t \in Threads : Reserved(t) \in Nat /\ Reservations[t] = Reserved(t)
<1>1. \A t \in Threads : Reserved(t) \in Nat
  BY DEF CInv, Shapes, Reserved
<1>2. Reservations \in [Threads -> Nat] /\ \A t \in Threads : Reservations[t] = Reserved(t)
  BY <1>1 DEF Reservations
<1>3. Total(Reservations) \in Nat
  BY <1>2, TotalIsNumber, SinkAssumption
<1>4. queue \in Seq(Nat) /\ feed.bytes \in Nat
  BY DEF CInv, Shapes
<1>5. Total(queue) \in Nat
  BY <1>4, TotalOfNumbers
<1> QED  BY <1>1, <1>2, <1>3, <1>4, <1>5

(* A step of one thread changes what that thread has reserved. *)
LEMMA OneThread ==
    ASSUME CInv, CInv', NEW t \in Threads, \A u \in Threads : u # t => at'[u] = at[u] /\ item'[u] = item[u]
    PROVE  /\ Total(Reservations') \in Nat /\ Reserved(t)' \in Nat
           /\ Total(Reservations') - Reserved(t)' = Total(Reservations) - Reserved(t)
<1> DEFINE f == Reservations
           g == Reservations'
<1>1. f \in [Threads -> Nat] /\ f[t] = Reserved(t)
  BY BytesAreNumbers
<1>2. g \in [Threads -> Nat] /\ g[t] = Reserved(t)'
  <2>1. \A u \in Threads : Reserved(u)' \in Nat
    BY DEF CInv, Shapes, Reserved
  <2>2. g = [u \in Threads |-> Reserved(u)']
    BY DEF Reservations
  <2> QED  BY <2>1, <2>2
<1>3. \A u \in Threads : u # t => g[u] = f[u]
  BY DEF Reservations, Reserved
<1> HIDE DEF f, g
<1>4. Total(g) \in Nat /\ Total(g) - g[t] = Total(f) - f[t]
  BY <1>1, <1>2, <1>3, SinkAssumption, TotalChange
<1> QED  BY <1>1, <1>2, <1>4 DEF f, g

(* A step of the others leaves the threads' reservations. *)
LEMMA NoThread ==
    ASSUME UNCHANGED <<at, item>>
    PROVE  Total(Reservations') = Total(Reservations)
<1>1. Reservations' = Reservations
  BY DEF Reservations, Reserved
<1> QED  BY <1>1

LEMMA InitBytes == Init => BInv
<1> SUFFICES ASSUME Init PROVE BInv
  OBVIOUS
<1>1. CInv
  BY InitCounts
<1>2. Total(queue) = 0
  BY TotalOfEmpty DEF Init
<1>3. Total(Reservations) = 0
  <2>1. \A t \in Threads : Reservations[t] = 0
    BY DEF Init, Reservations, Reserved
  <2> QED  BY <1>1, <2>1, BytesAreNumbers, TotalNothing
<1> QED  BY <1>2, <1>3, SinkAssumption DEF Init, BInv, Polled

(* The arithmetic of an item that is queued, and of one that is dropped. *)
LEMMA Queued == \A a, b, c, d, e, r \in Nat : e - 0 = d - r => (a + r) + b + c + e = a + b + c + d
  OBVIOUS

LEMMA GivenBack ==
    \A a, b, c, d, e, r \in Nat : e - 0 = d - r => (a + b + c + d) - r = a + b + c + e
  OBVIOUS

LEMMA OfferBytes ==
    ASSUME IInv, CInv, CInv', BInv, NEW t \in Threads, Offer(t)
    PROVE  BInv'
<1> DEFINE a == Total(queue)
           b == feed.bytes
           c == taken
           d == Total(Reservations)
           r == Reserved(t)
           e == Total(Reservations')
           s == Reserved(t)'
<1>1. a \in Nat /\ b \in Nat /\ d \in Nat /\ r \in Nat /\ queue \in Seq(Nat)
  BY BytesAreNumbers DEF CInv, Shapes
<1>2. c \in Nat /\ queuedBytes \in Nat /\ queuedBytes = a + b + c + d /\ queuedBytes <= MaxBytes /\ MaxBytes \in Nat
  BY SinkAssumption DEF BInv
<1>4. \A u \in Threads : u # t => at'[u] = at[u] /\ item'[u] = item[u]
  BY DEF Offer, Reserve, Lock, TrySend, Drop, CountQueued, IInv, CInv, Shapes
<1>5. e \in Nat /\ s \in Nat /\ e - s = d - r
  BY <1>4, OneThread
<1>6. UNCHANGED <<feed, closing, taken>>
  BY DEF Offer, Reserve, Lock, TrySend, Drop, CountQueued, draining, ending
<1>7. SUFFICES queuedBytes' \in Nat /\ queuedBytes' = Total(queue') + b + c + e /\ queuedBytes' <= MaxBytes
  BY <1>6 DEF BInv
<1>8. \A u \in Threads : item[u] \in [bytes : Nat, fits : BOOLEAN]
  BY DEF CInv, Shapes
<1>9. at \in [Threads -> {"idle", "reserved", "open", "closed", "sent"}] /\ item \in [Threads -> [bytes : Nat, fits : BOOLEAN]]
  BY DEF IInv, CInv, Shapes
<1>10. CASE Reserve(t)
  <2>1. PICK n \in Sizes :
           LET fits == queuedBytes + n <= MaxBytes IN
           /\ item' = [item EXCEPT ![t] = [bytes |-> n, fits |-> fits]]
           /\ queuedBytes' = IF fits THEN queuedBytes + n ELSE queuedBytes
    BY <1>10 DEF Reserve
  <2>2. at[t] = "idle" /\ at'[t] = "reserved" /\ queue' = queue /\ n \in Nat
    BY <1>9, <1>10, SinkAssumption DEF Reserve
  <2>3. r = 0
    BY <2>2 DEF Reserved
  <2>4. CASE queuedBytes + n <= MaxBytes
    <3>1. item'[t] = [bytes |-> n, fits |-> TRUE] /\ queuedBytes' = queuedBytes + n
      BY <1>9, <2>1, <2>4
    <3>2. s = n
      BY <2>2, <3>1 DEF Reserved
    <3> HIDE DEF a, b, c, d, e, r, s
    <3> QED  BY <1>1, <1>2, <1>5, <2>2, <2>3, <2>4, <3>1, <3>2, SMTT(30) DEF a
  <2>5. CASE ~(queuedBytes + n <= MaxBytes)
    <3>1. ~item'[t].fits /\ queuedBytes' = queuedBytes
      BY <1>9, <2>1, <2>5
    <3>2. s = 0
      BY <2>2, <3>1 DEF Reserved
    <3> HIDE DEF a, b, c, d, e, r, s
    <3> QED  BY <1>1, <1>2, <1>5, <2>2, <2>3, <3>1, <3>2 DEF a
  <2> QED  BY <2>4, <2>5
<1>11. CASE Lock(t)
  <2>1. at[t] = "reserved" /\ at'[t] \in {"open", "closed"} /\ UNCHANGED <<item, queue, queuedBytes>>
    BY <1>9, <1>11 DEF Lock
  <2>2. s = r
    BY <2>1 DEF Reserved
  <2> HIDE DEF a, b, c, d, e, r, s
  <2> QED  BY <1>1, <1>2, <1>5, <2>1, <2>2 DEF a
<1>12. CASE TrySend(t)
  <2>1. at[t] \in {"open", "closed"} /\ item[t].fits /\ at'[t] = "sent" /\ UNCHANGED <<item, queuedBytes>>
    BY <1>9, <1>12 DEF TrySend, Locked, counters
  <2>2. queue' = Append(queue, item[t].bytes)
    BY <1>12 DEF TrySend
  <2>3. s = 0 /\ r = item[t].bytes
    BY <2>1 DEF Reserved
  <2>4. Total(queue') = a + r
    BY <1>1, <2>2, <2>3, TotalOfAppend
  <2>5. queuedBytes' = queuedBytes /\ e - 0 = d - r
    BY <1>5, <2>1, <2>3
  <2> HIDE DEF a, b, c, d, e, r, s
  <2>6. (a + r) + b + c + e = a + b + c + d
    BY <1>1, <1>2, <1>5, <2>5, Queued
  <2> QED  BY <1>2, <2>4, <2>5, <2>6
<1>13. CASE Drop(t)
  <2>1. /\ at[t] \in {"open", "closed"} /\ at'[t] = "idle" /\ UNCHANGED queue
        /\ queuedBytes' = IF item[t].fits THEN queuedBytes - item[t].bytes ELSE queuedBytes
    BY <1>9, <1>13 DEF Drop, Locked
  <2>2. s = 0 /\ r = IF item[t].fits THEN item[t].bytes ELSE 0
    BY <2>1 DEF Reserved
  <2>3. queuedBytes' = queuedBytes - r
    <3>1. CASE item[t].fits
      BY <2>1, <2>2, <3>1
    <3>2. CASE ~item[t].fits
      <4>1. r = 0 /\ queuedBytes' = queuedBytes
        BY <2>1, <2>2, <3>2
      <4> QED  BY <1>2, <4>1
    <3> QED  BY <3>1, <3>2
  <2>4. Total(queue') = a /\ e - 0 = d - r
    BY <1>5, <2>1, <2>2
  <2> HIDE DEF a, b, c, d, e, r, s
  <2>5. queuedBytes' = a + b + c + e
    BY <1>1, <1>2, <1>5, <2>3, <2>4, GivenBack
  <2>6. queuedBytes' \in Nat
    BY ONLY <1>1, <1>2, <1>5, <2>5
  <2>7. queuedBytes' <= MaxBytes
    BY ONLY <1>1, <1>2, <2>3, <2>6
  <2> QED  BY <2>4, <2>5, <2>6, <2>7
<1>14. CASE CountQueued(t)
  <2>1. at[t] = "sent" /\ at'[t] = "idle" /\ UNCHANGED <<queue, queuedBytes>>
    BY <1>9, <1>14 DEF CountQueued
  <2>2. s = 0 /\ r = 0
    BY <2>1 DEF Reserved
  <2> HIDE DEF a, b, c, d, e, r, s
  <2> QED  BY <1>1, <1>2, <1>5, <2>1, <2>2 DEF a
<1> QED  BY <1>10, <1>11, <1>12, <1>13, <1>14 DEF Offer

LEMMA DrainBytes ==
    ASSUME IInv, CInv, CInv', BInv, Feeding \/ CallEnds \/ Reopen \/ FeedDropped
    PROVE  BInv'
<1> DEFINE a == Total(queue)
           b == feed.bytes
           c == taken
           d == Total(Reservations)
<1>1. a \in Nat /\ b \in Nat /\ d \in Nat /\ queue \in Seq(Nat)
  BY BytesAreNumbers DEF CInv, Shapes
<1>2. c \in Nat /\ queuedBytes \in Nat /\ queuedBytes = a + b + c + d /\ queuedBytes <= MaxBytes /\ MaxBytes \in Nat
  BY SinkAssumption DEF BInv
<1>3. UNCHANGED <<at, item, closing, taken>>
  BY DEF Feeding, Take, Uncount, Forward, FeedEnds, CallEnds, Reopen, FeedDropped, threads, ending
<1>4. Total(Reservations') = d
  BY <1>3, NoThread
<1>5. SUFFICES /\ queuedBytes' \in Nat /\ queuedBytes' = Total(queue') + feed'.bytes + c + d /\ queuedBytes' <= MaxBytes
               /\ feed'.at \notin {"took", "uncounted"} => feed'.bytes = 0
  BY <1>3, <1>4 DEF BInv
<1>6. CASE Take
  <2>1. /\ feed.at = "open" /\ queue # <<>> /\ feed' = [at |-> "took", bytes |-> Head(queue)] /\ queue' = Tail(queue)
        /\ queuedBytes' = queuedBytes
    BY <1>6 DEF Take, counters
  <2>2. b = 0
    BY <2>1 DEF BInv
  <2>3. a = Total(queue') + Head(queue) /\ Total(queue') \in Nat /\ Head(queue) \in Nat
    <3>1. Tail(queue) \in Seq(Nat) /\ Head(queue) \in Nat
      BY <1>1, <2>1
    <3> QED  BY <1>1, <2>1, <3>1, TotalOfTail, TotalOfNumbers
  <2>4. feed'.bytes = Head(queue) /\ feed'.at = "took"
    BY <2>1
  <2> HIDE DEF a, b, c, d
  <2> QED  BY <1>1, <1>2, <2>1, <2>2, <2>3, <2>4
<1>7. CASE Uncount
  <2>1. feed'.bytes = b /\ feed'.at = "uncounted" /\ UNCHANGED <<queue, queuedBytes>>
    BY <1>7 DEF Uncount, CInv, Shapes
  <2> QED  BY <1>2, <2>1
<1>8. CASE Forward
  <2>1. queuedBytes' = queuedBytes - b /\ feed' = Polled /\ queue' = queue
    BY <1>8 DEF Forward
  <2>2. feed'.bytes = 0
    BY <2>1 DEF Polled
  <2> HIDE DEF a, b, c, d
  <2> QED  BY <1>1, <1>2, <2>1, <2>2 DEF a
<1>9. CASE FeedEnds \/ CallEnds \/ Reopen \/ FeedDropped
  <2>1. UNCHANGED <<queue, queuedBytes>> /\ feed' \in {NoFeed, Polled} /\ feed.at \in {"open", "none"}
    BY <1>9 DEF FeedEnds, CallEnds, Reopen, FeedDropped, CInv, counters
  <2>2. b = 0 /\ feed'.bytes = 0
    BY <2>1 DEF BInv, NoFeed, Polled
  <2> QED  BY <1>2, <2>1, <2>2
<1> QED  BY <1>6, <1>7, <1>8, <1>9 DEF Feeding

LEMMA CloseBytes ==
    ASSUME IInv, CInv, CInv', BInv, Close \/ Closing
    PROVE  BInv'
<1> DEFINE a == Total(queue)
           b == feed.bytes
           c == taken
           d == Total(Reservations)
<1>1. a \in Nat /\ b \in Nat /\ d \in Nat /\ queue \in Seq(Nat)
  BY BytesAreNumbers DEF CInv, Shapes
<1>2. c \in Nat /\ queuedBytes \in Nat /\ queuedBytes = a + b + c + d /\ queuedBytes <= MaxBytes /\ MaxBytes \in Nat
  BY SinkAssumption DEF BInv
<1>3. UNCHANGED <<at, item, feed>>
  BY DEF Close, Closing, Drained, Timeout, LockReceiver, TakeLeft, UncountLeft, Abandon, threads, draining
<1>4. Total(Reservations') = d
  BY <1>3, NoThread
<1>5. SUFFICES /\ queuedBytes' \in Nat /\ taken' \in Nat /\ queuedBytes' = Total(queue') + b + taken' + d /\ queuedBytes' <= MaxBytes
               /\ closing' \notin {"uncounting", "counting"} => taken' = 0
  BY <1>3, <1>4 DEF BInv
<1>6. CASE Close \/ Drained \/ Timeout \/ LockReceiver \/ (TakeLeft /\ queue = <<>>)
  <2>1. UNCHANGED <<queue, queuedBytes, taken>> /\ closing \notin {"uncounting", "counting"}
    BY <1>6 DEF Close, Drained, Timeout, LockReceiver, TakeLeft, counters
  <2>2. c = 0
    BY <2>1 DEF BInv
  <2> QED  BY <1>2, <2>1, <2>2
<1>7. CASE TakeLeft /\ queue # <<>>
  <2>1. queue' = Tail(queue) /\ taken' = Head(queue) /\ closing = "taking" /\ closing' = "uncounting" /\ queuedBytes' = queuedBytes
    BY <1>7 DEF TakeLeft, counters
  <2>2. c = 0
    BY <2>1 DEF BInv
  <2>3. a = Total(queue') + Head(queue) /\ Total(queue') \in Nat /\ Head(queue) \in Nat
    <3>1. Tail(queue) \in Seq(Nat) /\ Head(queue) \in Nat
      BY <1>1, <1>7
    <3> QED  BY <1>1, <1>7, <2>1, <3>1, TotalOfTail, TotalOfNumbers
  <2> HIDE DEF a, b, c, d
  <2> QED  BY <1>1, <1>2, <2>1, <2>2, <2>3, SMTT(30)
<1>8. CASE UncountLeft
  <2>1. UNCHANGED <<queue, queuedBytes, taken>> /\ closing' = "counting"
    BY <1>8 DEF UncountLeft
  <2> QED  BY <1>2, <2>1
<1>9. CASE Abandon
  <2>1. queuedBytes' = queuedBytes - c /\ taken' = 0 /\ queue' = queue
    BY <1>9 DEF Abandon
  <2> HIDE DEF a, b, c, d
  <2> QED  BY <1>1, <1>2, <2>1 DEF a
<1> QED  BY <1>6, <1>7, <1>8, <1>9 DEF Closing

(* The three inductive invariants together. *)
LEMMA AllCount == Spec => [](IInv /\ CInv /\ BInv)
<1>1. Init => IInv /\ CInv /\ BInv
  BY InitInvariant, InitCounts, InitBytes
<1>2. IInv /\ CInv /\ BInv /\ [Next]_vars => (IInv /\ CInv /\ BInv)'
  <2> SUFFICES ASSUME IInv, CInv, BInv, [Next]_vars PROVE (IInv /\ CInv /\ BInv)'
    OBVIOUS
  <2>1. IInv' /\ CInv'
    BY CountsKeep, StepKeeps
  <2>2. CASE UNCHANGED vars
    <3>1. UNCHANGED <<queue, feed, taken, closing, queuedBytes>> /\ Reservations' = Reservations
      BY <2>2 DEF vars, threads, draining, ending, counters, Reservations, Reserved
    <3> QED  BY <2>1, <3>1 DEF BInv
  <2>3. CASE Next
    BY <2>1, <2>3, OfferBytes, DrainBytes, CloseBytes DEF Next
  <2> QED  BY <2>1, <2>2, <2>3
<1> QED  BY <1>1, <1>2, PTL DEF Spec

(* The counts add up at every step, whoever is between which two of them,    *)
(* for any number of threads, any sizes and bounds: the items, the queue's   *)
(* count wherever its word wraps, and the queued bytes, which are those of   *)
(* the queue, of the reservations and of the two hands, within the bound.    *)
THEOREM CountsAlwaysAddUp == Spec => []CountsAddUp
<1>1. IInv /\ CInv /\ BInv => CountsAddUp
  <2> SUFFICES ASSUME IInv, CInv, BInv PROVE CountsAddUp
    OBVIOUS
  <2>1. ItemsCounted /\ QueueCounted
    BY Counted
  <2>2. BytesCounted
    BY DEF BInv, BytesCounted, Reservations
  <2> QED  BY <2>1, <2>2 DEF CountsAddUp
<1> QED  BY <1>1, AllCount, PTL
-----------------------------------------------------------------------------
(* The end of close *)

\* How far close is from an empty queue, and from its return.
CloseRank == CASE closing = "open" -> 6
               [] closing = "waiting" -> 5
               [] closing = "aborted" -> 4
               [] closing = "uncounting" -> 3
               [] closing = "counting" -> 2
               [] closing = "taking" -> 1
               [] closing = "over" -> 0
CloseLeft == 3 * Len(queue) + CloseRank

\* No step of an offer, a Feed or the task puts close off.
CloseNearer ==
    /\ Closing => CloseLeft' < CloseLeft
    /\ ~Closing /\ closing # "open" => CloseLeft' <= CloseLeft

LEMMA QueueLengths ==
    ASSUME NEW q \in Seq(Nat)
    PROVE  /\ Len(q) \in Nat
           /\ q # <<>> => Len(Tail(q)) = Len(q) - 1 /\ Len(q) >= 1
  OBVIOUS

LEMMA RankNumbers ==
    ASSUME NEW a \in Nat, NEW b \in Nat
    PROVE  /\ \A r, s \in 0 .. 6 : r < s => 3 * a + r < 3 * a + s
           /\ b = a - 1 => \A r \in 0 .. 6 : 3 * b + r <= 3 * a + r
           /\ b = a - 1 => 3 * b + 3 < 3 * a + 1
  OBVIOUS

LEMMA ClosingNearer ==
    ASSUME IInv, CInv, Closing
    PROVE  CloseLeft' < CloseLeft
<1> DEFINE a == Len(queue)
<1>1. queue \in Seq(Nat) /\ a \in Nat
  BY QueueLengths DEF CInv, Shapes
<1>2. CASE Drained \/ Timeout \/ LockReceiver \/ UncountLeft \/ Abandon
  <2>1. queue' = queue
    BY <1>2 DEF Drained, Timeout, LockReceiver, UncountLeft, Abandon
  <2>2. CloseRank \in 0 .. 6 /\ CloseRank' \in 0 .. 6 /\ CloseRank' < CloseRank
    BY <1>2 DEF Drained, Timeout, LockReceiver, UncountLeft, Abandon, CloseRank
  <2>3. CloseLeft = 3 * a + CloseRank /\ CloseLeft' = 3 * a + CloseRank'
    BY <2>1 DEF CloseLeft
  <2> HIDE DEF a
  <2> QED  BY <1>1, <2>2, <2>3, RankNumbers, Zenon
<1>3. CASE TakeLeft
  <2>1. CloseRank = 1
    BY <1>3 DEF TakeLeft, CloseRank
  <2>2. CASE queue = <<>>
    <3>1. queue' = queue /\ CloseRank' = 0
      BY <1>3, <2>2 DEF TakeLeft, CloseRank
    <3>2. CloseLeft = 3 * a + 1 /\ CloseLeft' = 3 * a + 0
      BY <2>1, <3>1 DEF CloseLeft
    <3>3. 0 \in 0 .. 6 /\ 1 \in 0 .. 6 /\ 0 < 1
      OBVIOUS
    <3> HIDE DEF a
    <3> QED  BY <1>1, <3>2, <3>3, RankNumbers, Zenon
  <2>3. CASE queue # <<>>
    <3>1. queue' = Tail(queue) /\ CloseRank' = 3
      BY <1>3, <2>3 DEF TakeLeft, CloseRank
    <3>2. Len(queue') = a - 1 /\ Len(queue') \in Nat
      BY <1>1, <2>3, <3>1, QueueLengths
    <3>3. CloseLeft = 3 * a + 1 /\ CloseLeft' = 3 * Len(queue') + 3
      BY <2>1, <3>1 DEF CloseLeft
    <3> HIDE DEF a
    <3> QED  BY <1>1, <3>2, <3>3, RankNumbers, Zenon
  <2> QED  BY <2>2, <2>3
<1> QED  BY <1>2, <1>3 DEF Closing

\* Once the sender is gone the queue only shrinks.
LEMMA OthersDoNotDelay ==
    ASSUME IInv, CInv, [Next]_vars, ~Closing, closing # "open"
    PROVE  CloseLeft' <= CloseLeft
<1>1. ~sender
  BY DEF IInv, EndIsEnd
<1>2. queue \in Seq(Nat) /\ Len(queue) \in Nat
  BY QueueLengths DEF CInv, Shapes
<1>3. closing' = closing /\ (queue' = queue \/ (queue # <<>> /\ queue' = Tail(queue)))
  <2>1. CASE UNCHANGED vars
    BY <2>1 DEF vars, ending
  <2>2. ASSUME NEW t \in Threads, Offer(t)
        PROVE  closing' = closing /\ queue' = queue
    BY <1>1, <2>2 DEF Offer, Reserve, Lock, TrySend, Drop, CountQueued, ending
  <2>3. CASE Feeding \/ CallEnds \/ Reopen \/ FeedDropped
    BY <2>3 DEF Feeding, Take, Uncount, Forward, FeedEnds, CallEnds, Reopen, FeedDropped, ending
  <2>4. ~Close
    BY DEF Close
  <2> QED  BY <2>1, <2>2, <2>3, <2>4 DEF Next
<1>4. CloseRank' = CloseRank /\ CloseRank \in 0 .. 6
  BY <1>3 DEF CloseRank, IInv
<1>5. CASE queue' = queue
  <2>1. CloseLeft' = CloseLeft /\ CloseLeft \in Nat
    BY <1>2, <1>4, <1>5 DEF CloseLeft
  <2> QED  BY <2>1
<1>6. CASE queue # <<>> /\ queue' = Tail(queue)
  <2>1. Len(queue') = Len(queue) - 1 /\ Len(queue') \in Nat
    BY <1>2, <1>6, QueueLengths
  <2>2. CloseLeft = 3 * Len(queue) + CloseRank /\ CloseLeft' = 3 * Len(queue') + CloseRank
    BY <1>4 DEF CloseLeft
  <2> QED  BY <1>2, <1>4, <2>1, <2>2, RankNumbers, Zenon
<1> QED  BY <1>3, <1>5, <1>6

\* close comes to its end however many threads go on offering and however many
\* Feeds are polled: each of its steps leaves it less to do, and nobody gives it
\* more once it has the sender (mod.rs close, drain). This is the part of CloseReturns
\* that needs no fairness.
THEOREM CloseGoesOn == Spec => [](CloseLeft \in Nat) /\ [][CloseNearer]_vars
<1>1. IInv /\ CInv => CloseLeft \in Nat
  <2> SUFFICES ASSUME IInv, CInv PROVE CloseLeft \in Nat
    OBVIOUS
  <2>1. Len(queue) \in Nat
    BY QueueLengths DEF CInv, Shapes
  <2>2. CloseRank \in Nat
    BY DEF IInv, CloseRank
  <2> QED  BY <2>1, <2>2 DEF CloseLeft
<1>2. IInv /\ CInv /\ [Next]_vars => [CloseNearer]_vars
  <2> SUFFICES ASSUME IInv, CInv, [Next]_vars, ~UNCHANGED vars PROVE CloseNearer
    OBVIOUS
  <2>1. CASE Closing
    BY <2>1, ClosingNearer DEF CloseNearer
  <2>2. CASE ~Closing
    BY <2>2, OthersDoNotDelay DEF CloseNearer
  <2> QED  BY <2>1, <2>2
<1> QED  BY <1>1, <1>2, AllCount, PTL DEF Spec
=============================================================================
