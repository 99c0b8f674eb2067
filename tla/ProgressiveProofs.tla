------------------------- MODULE ProgressiveProofs -------------------------
(***************************************************************************)
(* Proofs about Progressive: the schedule of a graph, its order as an      *)
(* ordering of steps, and the invariant of a run and its reply.            *)
(***************************************************************************)
EXTENDS Progressive, FiniteSetTheorems, WellFoundedInduction, TLAPS

----------------------------------------------------------------------------
(* Numbers and recursion *)

\* A set of numbers has a least one.
LEMMA LeastNumber ==
    ASSUME NEW T, T \subseteq Nat, T # {}
    PROVE  \E x \in T : \A y \in T : x <= y
<1> DEFINE R == {ss \in Nat \X Nat : ss[1] < ss[2]}
<1>1. \E x \in T : \A y \in T : ~ (<<y, x>> \in R)
  <2>1. IsWellFoundedOn(R, Nat)
    BY NatLessThanWellFounded, Zenon DEF OpToRel
  <2> HIDE DEF R
  <2> QED  BY <2>1, WFMin
<1>2. PICK x \in T : \A y \in T : ~ (<<y, x>> \in R)
  BY <1>1
<1>3. ASSUME NEW y \in T PROVE x <= y
  <2>1. x \in Nat /\ y \in Nat /\ <<y, x>> \notin R
    BY <1>2
  <2>2. ~(y < x)
    BY <2>1
  <2> QED  BY <2>1, <2>2
<1> QED  BY <1>3

\* What 0 has, and every number that follows one that has it, they all have.
LEMMA Reaches ==
    ASSUME NEW n \in Nat, NEW P, 0 \in P, \A k \in 1..n : k - 1 \in P => k \in P
    PROVE  \A k \in 0..n : k \in P
<1> DEFINE T == {k \in 0..n : k \notin P}
<1>1. SUFFICES ASSUME T # {} PROVE FALSE
  OBVIOUS
<1>2. PICK x \in T : \A y \in T : x <= y
  <2>1. T \subseteq Nat /\ T # {}
    BY <1>1
  <2> HIDE DEF T
  <2> QED  BY <2>1, LeastNumber
<1>3. x \in 1..n /\ x - 1 \notin T
  BY <1>2
<1> QED  BY <1>2, <1>3


\* n steps over S, and what they make of a start.
StepsOver(S, n) == [S \X (1..n) -> S]
Iteration(f, S, start, n, step) ==
    f \in [0..n -> S] /\ f[0] = start /\ \A k \in 1..n : f[k] = step[<<f[k - 1], k>>]

\* A function defined by recursion exists.
LEMMA Iterates ==
    ASSUME NEW S, NEW start \in S, NEW n \in Nat, NEW step \in StepsOver(S, n)
    PROVE  \E f : Iteration(f, S, start, n, step)
<1> USE DEF StepsOver
<1> DEFINE Upto(m, f) == f[0] = start /\ \A k \in 1..m : f[k] = step[<<f[k - 1], k>>]
           P == {m \in 0..n : \E f \in [0..n -> S] : Upto(m, f)}
<1>1. 0 \in P
  <2>1. [k \in 0..n |-> start] \in [0..n -> S]
    OBVIOUS
  <2>2. Upto(0, [k \in 0..n |-> start])
    OBVIOUS
  <2> HIDE DEF Upto
  <2>3. \E f \in [0..n -> S] : Upto(0, f)
    BY <2>1, <2>2
  <2> QED  BY <2>3
<1>2. ASSUME NEW m \in 1..n, m - 1 \in P PROVE m \in P
  <2>1. PICK f \in [0..n -> S] : Upto(m - 1, f)
    BY <1>2
  <2> DEFINE g == [f EXCEPT ![m] = step[<<f[m - 1], m>>]]
  <2>2. g \in [0..n -> S]
    OBVIOUS
  <2>3. Upto(m, g)
    <3>1. g[0] = start
      BY <2>1
    <3>2. ASSUME NEW k \in 1..m PROVE g[k] = step[<<g[k - 1], k>>]
      <4>1. g[k - 1] = f[k - 1]
        OBVIOUS
      <4>2. CASE k = m
        BY <4>1, <4>2, SMTT(30)
      <4>3. CASE k # m
        <5>1. k \in 1..(m - 1) /\ g[k] = f[k]
          BY <4>3
        <5> QED  BY <2>1, <4>1, <5>1
      <4> QED  BY <4>2, <4>3
    <3> QED  BY <3>1, <3>2
  <2> HIDE DEF Upto, g
  <2>4. \E h \in [0..n -> S] : Upto(m, h)
    BY <2>2, <2>3
  <2> QED  BY <2>4
<1>3. n \in P
  <2> HIDE DEF P
  <2>1. \A k \in 0..n : k \in P
    BY <1>1, <1>2, Reaches
  <2> QED  BY <2>1
<1> QED  BY <1>3 DEF Iteration

\* The least of a set of numbers.
LEMMA MinIs ==
    ASSUME NEW S, S \subseteq Nat, S # {}
    PROVE  Min(S) \in S /\ \A x \in S : Min(S) <= x
<1>1. PICK m \in S : \A x \in S : m <= x
  BY LeastNumber
<1> QED  BY <1>1 DEF Min

----------------------------------------------------------------------------
(* The plan *)

\* What the analyzer's graphs are.
LEMMA GraphIs ==
    ASSUME NEW g \in Jobs
    PROVE  /\ IsFiniteSet(Steps(g)) /\ Steps(g) \subseteq Nat \ {0}
           /\ Cardinality(Steps(g)) \in Nat
           /\ \A i \in Steps(g) : g.requires[i] \subseteq g.reads[i] /\ g.reads[i] \subseteq Steps(g)
BY ProgressiveAssumption, FS_CardinalityType

\* A stage is made of steps not scheduled before, whose required inputs are, and
\* none of which reads another.
LEMMA StageIs ==
    ASSUME NEW g \in Jobs, NEW done \in SUBSET Steps(g)
    PROVE  /\ Stage(g, done) \subseteq Steps(g)
           /\ \A i \in Stage(g, done) : /\ g.requires[i] \subseteq done
                                        /\ \A p \in g.reads[i] \cap Stage(g, done) : p = i
<1> DEFINE open  == Steps(g) \ done
           ready == {i \in open : g.reads[i] \subseteq done}
           loose == {i \in open : g.requires[i] \subseteq done /\ OnOptionalCycle(g, done, i)}
<1>1. Stage(g, done) = IF ready # {} \/ loose = {} THEN ready ELSE {Min(loose)}
  BY DEF Stage
<1>2. loose # {} => Min(loose) \in loose
  <2>1. loose \subseteq Nat
    BY GraphIs
  <2> HIDE DEF loose
  <2> QED  BY <2>1, MinIs
<1>3. /\ \A i \in ready : i \in Steps(g) /\ i \notin done /\ g.requires[i] \subseteq done /\ g.reads[i] \subseteq done
      /\ \A i \in loose : i \in Steps(g) /\ g.requires[i] \subseteq done
  BY GraphIs
<1> HIDE DEF ready, loose
<1> QED  BY <1>1, <1>2, <1>3

\* The schedule is what its recursion says.
LEMMA ScheduleIs ==
    ASSUME NEW g \in Jobs
    PROVE  /\ Scheduled(g) \in [0..Cardinality(Steps(g)) -> SUBSET Steps(g)]
           /\ Scheduled(g)[0] = {}
           /\ \A k \in 1..Cardinality(Steps(g)) :
                 Scheduled(g)[k] = Scheduled(g)[k - 1] \cup Stage(g, Scheduled(g)[k - 1])
<1> DEFINE n == Cardinality(Steps(g))
           S == SUBSET Steps(g)
           step == [x \in S \X (1..n) |-> x[1] \cup Stage(g, x[1])]
           P(h) == h = [k \in 0..n |-> IF k = 0 THEN {} ELSE h[k - 1] \cup Stage(g, h[k - 1])]
<1>1. n \in Nat /\ {} \in S
  BY GraphIs
<1>2. step \in StepsOver(S, n)
  BY StageIs DEF StepsOver
<1> HIDE DEF n
<1>3. PICK f : f \in [0..n -> S] /\ f[0] = {} /\ \A k \in 1..n : f[k] = step[<<f[k - 1], k>>]
  <2> HIDE DEF step, S
  <2>1. \E f : Iteration(f, S, {}, n, step)
    BY <1>1, <1>2, Iterates
  <2> QED  BY <2>1 DEF Iteration
<1>4. P(f)
  <2> DEFINE h == [k \in 0..n |-> IF k = 0 THEN {} ELSE f[k - 1] \cup Stage(g, f[k - 1])]
  <2>1. ASSUME NEW k \in 0..n PROVE f[k] = h[k]
    <3>1. CASE k = 0
      BY <1>3, <3>1
    <3>2. CASE k # 0
      <4>1. k \in 1..n /\ k - 1 \in 0..n
        BY <1>1, <3>2
      <4>2. f[k] = step[<<f[k - 1], k>>] /\ f[k - 1] \in S
        BY <1>3, <4>1
      <4> QED  BY <3>2, <4>1, <4>2
    <3> QED  BY <3>1, <3>2
  <2> QED  BY <1>3, <2>1
<1>5. Scheduled(g) = CHOOSE h : P(h)
  BY DEF Scheduled, n
<1>6. P(Scheduled(g))
  <2> HIDE DEF P
  <2> QED  BY <1>4, <1>5
<1>7. ASSUME NEW h, P(h) PROVE h[0] = {} /\ \A k \in 1..n : h[k] = h[k - 1] \cup Stage(g, h[k - 1])
  <2> DEFINE r == [k \in 0..n |-> IF k = 0 THEN {} ELSE h[k - 1] \cup Stage(g, h[k - 1])]
  <2>1. r[0] = {} /\ \A k \in 1..n : r[k] = h[k - 1] \cup Stage(g, h[k - 1])
    BY <1>1
  <2>2. h = r
    BY <1>7
  <2> HIDE DEF r
  <2> QED  BY <2>1, <2>2
<1>8. ASSUME NEW h, P(h) PROVE h \in [0..n -> S]
  <2> DEFINE Q == {k \in 0..n : h[k] \in S}
  <2>1. 0 \in Q
    BY <1>1, <1>7, <1>8
  <2>2. ASSUME NEW k \in 1..n, k - 1 \in Q PROVE k \in Q
    <3>1. h[k] = h[k - 1] \cup Stage(g, h[k - 1]) /\ h[k - 1] \in S
      BY <1>7, <1>8, <2>2
    <3>2. Stage(g, h[k - 1]) \subseteq Steps(g)
      BY <3>1, StageIs
    <3> QED  BY <3>1, <3>2
  <2>3. \A k \in 0..n : k \in Q
    <3> HIDE DEF Q
    <3> QED  BY <1>1, <2>1, <2>2, Reaches
  <2> QED  BY <1>8, <2>3
<1>9. Scheduled(g) \in [0..n -> S]
  <2> HIDE DEF P
  <2> QED  BY <1>6, <1>8
<1>10. Scheduled(g)[0] = {} /\ \A k \in 1..n : Scheduled(g)[k] = Scheduled(g)[k - 1] \cup Stage(g, Scheduled(g)[k - 1])
  <2> HIDE DEF P
  <2> QED  BY <1>6, <1>7
<1> QED  BY <1>9, <1>10 DEF n

\* Every step has a stage, after those of the steps it requires, and reads no other
\* step of its own.
LEMMA StageOfIs ==
    ASSUME NEW g \in Jobs
    PROVE  /\ StageOf(g) \in [Steps(g) -> Nat]
           /\ \A i \in Steps(g) : \A p \in g.requires[i] : StageOf(g)[p] < StageOf(g)[i]
           /\ \A i \in Steps(g) : \A p \in g.reads[i] : StageOf(g)[p] = StageOf(g)[i] => p = i
<1> DEFINE n == Cardinality(Steps(g))
           done == Scheduled(g)
           In(i) == {k \in DOMAIN done : i \in done[k]}
<1>1. n \in Nat /\ done \in [0..n -> SUBSET Steps(g)] /\ done[0] = {} /\ done[n] = Steps(g)
  BY GraphIs, ScheduleIs, ProgressiveAssumption DEF Valid
<1>2. \A k \in 1..n : done[k] = done[k - 1] \cup Stage(g, done[k - 1])
  BY ScheduleIs
<1>3. StageOf(g) = [i \in Steps(g) |-> Min(In(i))]
  BY DEF StageOf
<1> HIDE DEF n, done
<1>4. ASSUME NEW i \in Steps(g)
      PROVE  Min(In(i)) \in 1..n /\ i \in done[Min(In(i))] /\ \A k \in 0..n : i \in done[k] => Min(In(i)) <= k
  <2>1. In(i) \subseteq Nat /\ In(i) # {}
    BY <1>1
  <2>2. Min(In(i)) \in In(i) /\ \A k \in In(i) : Min(In(i)) <= k
    <3> HIDE DEF In
    <3> QED  BY <2>1, MinIs
  <2> QED  BY <1>1, <2>2
<1> HIDE DEF In
<1>5. ASSUME NEW i \in Steps(g), NEW p \in g.requires[i] PROVE Min(In(p)) < Min(In(i))
  <2> DEFINE k == Min(In(i))
  <2>1. k \in 1..n /\ i \in done[k] /\ k - 1 \in 0..n /\ i \notin done[k - 1]
    BY <1>1, <1>4
  <2>2. i \in Stage(g, done[k - 1]) /\ done[k - 1] \in SUBSET Steps(g)
    BY <1>1, <1>2, <2>1
  <2>3. p \in done[k - 1]
    BY <2>2, StageIs
  <2>4. p \in Steps(g)
    BY <2>2, <2>3
  <2>5. Min(In(p)) <= k - 1 /\ Min(In(p)) \in Nat
    BY <1>1, <1>4, <2>1, <2>3, <2>4
  <2> QED  BY <1>1, <2>1, <2>5
<1>6. ASSUME NEW i \in Steps(g) PROVE g.requires[i] \subseteq Steps(g) /\ g.reads[i] \subseteq Steps(g)
  BY GraphIs
<1>7. ASSUME NEW i \in Steps(g), NEW p \in g.reads[i], Min(In(p)) = Min(In(i)) PROVE p = i
  <2> DEFINE k == Min(In(i))
  <2>1. p \in Steps(g)
    BY <1>6
  <2>2. /\ k \in 1..n /\ k - 1 \in 0..n /\ i \in done[k] /\ p \in done[k]
        /\ i \notin done[k - 1] /\ p \notin done[k - 1]
    BY <1>1, <1>4, <1>7, <2>1
  <2>3. i \in Stage(g, done[k - 1]) /\ p \in Stage(g, done[k - 1]) /\ done[k - 1] \in SUBSET Steps(g)
    BY <1>1, <1>2, <2>2
  <2> HIDE DEF k
  <2> QED  BY <2>3, StageIs
<1> QED  BY <1>1, <1>3, <1>4, <1>5, <1>6, <1>7

\* One step comes before another: in an earlier stage, or added earlier to the same.
Earlier(g, i, j) ==
    StageOf(g)[i] < StageOf(g)[j] \/ (StageOf(g)[i] = StageOf(g)[j] /\ i < j)

\* The plan's order has every step in it, and nothing else, each where it comes.
LEMMA TopoIs ==
    ASSUME NEW g \in Jobs
    PROVE  /\ TopoSteps(g) \in Seq(Steps(g))
           /\ TopoSteps(g) \in [1..Cardinality(Steps(g)) -> Steps(g)]
           /\ \A p \in Steps(g) : \E k \in 1..Cardinality(Steps(g)) : TopoSteps(g)[k] = p
           /\ \A j, k \in 1..Cardinality(Steps(g)) : Earlier(g, TopoSteps(g)[j], TopoSteps(g)[k]) <=> j < k
<1> DEFINE n == Cardinality(Steps(g))
           stage == StageOf(g)
           before(i) == {j \in Steps(g) : stage[j] < stage[i] \/ (stage[j] = stage[i] /\ j < i)}
           rank == [i \in Steps(g) |-> Cardinality(before(i))]
<1>1. /\ IsFiniteSet(Steps(g)) /\ Steps(g) \subseteq Nat /\ n \in Nat
      /\ stage \in [Steps(g) -> Nat]
  BY GraphIs, StageOfIs
<1> HIDE DEF stage
<1>2. ASSUME NEW i \in Steps(g)
      PROVE  IsFiniteSet(before(i)) /\ Cardinality(before(i)) \in 0..(n - 1)
  <2>1. IsFiniteSet(before(i)) /\ Cardinality(before(i)) \in Nat /\ Cardinality(before(i)) <= n
    BY <1>1, FS_Subset, FS_CardinalityType
  <2>2. i \notin before(i)
    BY <1>1
  <2>3. Cardinality(before(i)) # n
    <3>1. before(i) \in SUBSET Steps(g) /\ before(i) # Steps(g)
      BY <2>2
    <3> HIDE DEF before
    <3> QED  BY <1>1, <3>1, FS_Subset
  <2> HIDE DEF before, n
  <2> QED  BY <1>1, <2>1, <2>3
<1>3. ASSUME NEW i \in Steps(g), NEW j \in Steps(g), i \in before(j)
      PROVE  Cardinality(before(i)) < Cardinality(before(j))
  <2>1. before(i) \in SUBSET before(j) /\ i \notin before(i)
    BY <1>1, <1>3
  <2>2. Cardinality(before(i)) <= Cardinality(before(j)) /\ Cardinality(before(i)) # Cardinality(before(j))
    <3> HIDE DEF before
    <3> QED  BY <1>2, <1>3, <2>1, FS_Subset
  <2>3. Cardinality(before(i)) \in Nat /\ Cardinality(before(j)) \in Nat
    BY <1>2, FS_CardinalityType
  <2> HIDE DEF before
  <2> QED  BY <2>2, <2>3
<1>4. ASSUME NEW i \in Steps(g), NEW j \in Steps(g), i # j
      PROVE  i \in before(j) \/ j \in before(i)
  BY <1>1, <1>4
<1>5. rank \in Injection(Steps(g), 0..(n - 1))
  <2>1. rank \in [Steps(g) -> 0..(n - 1)]
    BY <1>2
  <2>2. ASSUME NEW i \in Steps(g), NEW j \in Steps(g), i # j PROVE rank[i] # rank[j]
    <3>1. Cardinality(before(i)) < Cardinality(before(j)) \/ Cardinality(before(j)) < Cardinality(before(i))
      BY <1>3, <1>4, <2>2
    <3>2. Cardinality(before(i)) \in Nat /\ Cardinality(before(j)) \in Nat
      BY <1>2, FS_CardinalityType
    <3> HIDE DEF before
    <3> QED  BY <3>1, <3>2
  <2> HIDE DEF rank
  <2> QED  BY <2>1, <2>2 DEF Injection, IsInjective
<1>6. rank \in Surjection(Steps(g), 0..(n - 1))
  <2>1. IsFiniteSet(0..(n - 1)) /\ Cardinality(0..(n - 1)) = n
    BY <1>1, FS_Interval
  <2> HIDE DEF rank
  <2> QED  BY <1>5, <2>1, FS_Injection
<1>7. ASSUME NEW k \in 1..n PROVE \E i \in Steps(g) : Cardinality(before(i)) = k - 1
  <2>1. k - 1 \in 0..(n - 1)
    BY <1>1
  <2>2. PICK i \in Steps(g) : rank[i] = k - 1
    BY <1>6, <2>1 DEF Surjection
  <2> QED  BY <2>2
<1>8. TopoSteps(g) = [k \in 1..n |-> CHOOSE i \in Steps(g) : Cardinality(before(i)) = k - 1]
  BY DEF TopoSteps, stage
<1>9. \A k \in 1..n : /\ TopoSteps(g)[k] \in Steps(g)
                       /\ Cardinality(before(TopoSteps(g)[k])) = k - 1
  <2> HIDE DEF before, n
  <2> QED  BY <1>7, <1>8
<1>10. TopoSteps(g) \in [1..n -> Steps(g)]
  <2> DEFINE chosen(k) == CHOOSE i \in Steps(g) : Cardinality(before(i)) = k - 1
  <2>1. TopoSteps(g) = [k \in 1..n |-> chosen(k)]
    BY <1>8
  <2> HIDE DEF chosen, n
  <2> QED  BY <1>9, <2>1
<1>11. ASSUME NEW p \in Steps(g) PROVE \E k \in 1..n : TopoSteps(g)[k] = p
  <2> DEFINE k == Cardinality(before(p)) + 1
             q == TopoSteps(g)[k]
  <2>1. k \in 1..n /\ k - 1 = Cardinality(before(p))
    <3> HIDE DEF before, n
    <3> QED  BY <1>1, <1>2
  <2>2. q \in Steps(g) /\ rank[q] = rank[p]
    <3> HIDE DEF before, n, k
    <3> QED  BY <1>9, <2>1
  <2>3. q = p
    <3> HIDE DEF rank, q
    <3> QED  BY <1>5, <2>2 DEF Injection, IsInjective
  <2> QED  BY <2>1, <2>3
<1>12. ASSUME NEW j \in 1..n, NEW k \in 1..n
       PROVE  Earlier(g, TopoSteps(g)[j], TopoSteps(g)[k]) <=> j < k
  <2> DEFINE p == TopoSteps(g)[j]
             q == TopoSteps(g)[k]
  <2>1. /\ p \in Steps(g) /\ Cardinality(before(p)) = j - 1 /\ q \in Steps(g) /\ Cardinality(before(q)) = k - 1
        /\ j \in Nat /\ k \in Nat
    BY <1>1, <1>9
  <2> HIDE DEF p, q
  <2>2. Earlier(g, p, q) <=> p \in before(q)
    BY <2>1 DEF Earlier, stage
  <2>3. p \in before(q) => j < k
    <3>1. p \in before(q) => j - 1 < k - 1
      BY <1>3, <2>1
    <3> HIDE DEF before
    <3> QED  BY <2>1, <3>1
  <2>4. q \in before(p) => k < j
    <3>1. q \in before(p) => k - 1 < j - 1
      BY <1>3, <2>1
    <3> HIDE DEF before
    <3> QED  BY <2>1, <3>1
  <2>5. j < k => p # q
    <3> HIDE DEF before
    <3> QED  BY <2>1
  <2>6. j < k => p \in before(q)
    <3>1. p # q => p \in before(q) \/ q \in before(p)
      BY <1>4, <2>1
    <3> HIDE DEF before
    <3> QED  BY <2>1, <2>4, <2>5, <3>1
  <2> QED  BY <2>2, <2>3, <2>6 DEF p, q
<1> HIDE DEF before, n
<1>13. TopoSteps(g) \in Seq(Steps(g))
  BY <1>1, <1>10
<1> QED  BY <1>10, <1>11, <1>12, <1>13 DEF n

----------------------------------------------------------------------------
(* What a plain run leaves on a document *)

\* What WaitsFor is, and the order, of steps of one graph.
LEMMA WaitsIs ==
    ASSUME NEW g \in Jobs, NEW i \in Steps(g)
    PROVE  /\ WaitsFor(g, i) \subseteq g.reads[i] /\ WaitsFor(g, i) \subseteq Steps(g)
           /\ g.requires[i] \subseteq WaitsFor(g, i)
           /\ i \notin WaitsFor(g, i)
           /\ \A p \in WaitsFor(g, i) : Earlier(g, p, i)
           /\ \A p \in g.reads[i] : Earlier(g, p, i) => p \in WaitsFor(g, i)
<1>1. /\ StageOf(g) \in [Steps(g) -> Nat]
      /\ \A p \in g.requires[i] : StageOf(g)[p] < StageOf(g)[i]
      /\ \A p \in g.reads[i] : StageOf(g)[p] = StageOf(g)[i] => p = i
  BY StageOfIs
<1>2. g.requires[i] \subseteq g.reads[i] /\ g.reads[i] \subseteq Steps(g) /\ i \in Nat
  BY GraphIs
<1> QED  BY <1>1, <1>2 DEF WaitsFor, Earlier

LEMMA EarlierIs ==
    ASSUME NEW g \in Jobs, NEW i \in Steps(g), NEW j \in Steps(g)
    PROVE  /\ ~Earlier(g, i, i)
           /\ i # j => Earlier(g, i, j) \/ Earlier(g, j, i)
           /\ Earlier(g, i, j) => ~Earlier(g, j, i)
<1>1. StageOf(g)[i] \in Nat /\ StageOf(g)[j] \in Nat /\ i \in Nat /\ j \in Nat
  BY GraphIs, StageOfIs
<1> QED  BY <1>1 DEF Earlier

EarlierViews(g, v) == {u \in g.views : Earlier(g, u, v)}
ViewsOn(g, doc) == {p \in DOMAIN doc \cap g.views : doc[p].status = "complete"}

\* Step i's entry, as it follows from the entries of the steps it waits for and
\* of the views before it: nothing else of the document is in it.
EntryOf(g, d, i, doc) ==
    LET out == Compute(g, i, d, [p \in WaitsFor(g, i) |-> doc[p]])
    IN  [status |-> out.status,
         seen   |-> out.seen,
         reads  |-> {p \in g.reads[i] : p \in g.requires[i]
                       \/ (p \in WaitsFor(g, i) /\ doc[p].status = "complete")},
         view   |-> IF i \in g.views /\ out.status = "complete"
                      THEN Cardinality(ViewsOn(g, doc) \cap EarlierViews(g, i)) + 1 ELSE 0]

\* A document all of whose entries are those.
Made(g, d, doc) ==
    /\ DOMAIN doc \subseteq Steps(g)
    /\ \A i \in DOMAIN doc : WaitsFor(g, i) \subseteq DOMAIN doc /\ doc[i] = EntryOf(g, d, i, doc)
    /\ \A v \in DOMAIN doc \cap g.views : doc[v].status = "complete" => EarlierViews(g, v) \subseteq DOMAIN doc

\* What is computed depends on what the step reads.
LEMMA ComputeOn ==
    ASSUME NEW g \in Jobs, NEW i \in Steps(g), NEW d, NEW a, NEW b,
           g.reads[i] \cap DOMAIN a = g.reads[i] \cap DOMAIN b,
           \A p \in g.reads[i] \cap DOMAIN a : a[p] = b[p]
    PROVE  Compute(g, i, d, a) = Compute(g, i, d, b)
<1> DEFINE here(doc) == {p \in g.reads[i] \cap DOMAIN doc : doc[p].status = "complete"}
           lacks(doc) == \E p \in g.requires[i] \cap DOMAIN doc : doc[p].status # "complete"
<1>1. here(a) = here(b)
  OBVIOUS
<1>2. g.requires[i] \subseteq g.reads[i]
  BY GraphIs
<1>3. lacks(a) <=> lacks(b)
  BY <1>2
<1>4. /\ Compute(g, i, d, a) = IF lacks(a) THEN [status |-> "skipped", seen |-> {}]
            ELSE IF ~(g.requires[i] \subseteq here(a)) \/ d \in g.fails[i]
              THEN [status |-> "failed", seen |-> {}] ELSE [status |-> "complete", seen |-> here(a)]
      /\ Compute(g, i, d, b) = IF lacks(b) THEN [status |-> "skipped", seen |-> {}]
            ELSE IF ~(g.requires[i] \subseteq here(b)) \/ d \in g.fails[i]
              THEN [status |-> "failed", seen |-> {}] ELSE [status |-> "complete", seen |-> here(b)]
  BY DEF Compute
<1> HIDE DEF here, lacks
<1> QED  BY <1>1, <1>3, <1>4

\* So does its entry, but for the count of a view.
LEMMA EntryIs ==
    ASSUME NEW g \in Jobs, NEW i \in Steps(g), NEW d, NEW a, NEW b,
           \A p \in WaitsFor(g, i) : a[p] = b[p],
           i \in g.views => ViewsOn(g, a) \cap EarlierViews(g, i) = ViewsOn(g, b) \cap EarlierViews(g, i)
    PROVE  EntryOf(g, d, i, a) = EntryOf(g, d, i, b)
<1>1. [p \in WaitsFor(g, i) |-> a[p]] = [p \in WaitsFor(g, i) |-> b[p]]
  OBVIOUS
<1>2. {p \in g.reads[i] : p \in g.requires[i] \/ (p \in WaitsFor(g, i) /\ a[p].status = "complete")}
        = {p \in g.reads[i] : p \in g.requires[i] \/ (p \in WaitsFor(g, i) /\ b[p].status = "complete")}
  OBVIOUS
<1> QED  BY <1>1, <1>2 DEF EntryOf

\* A step stored on the inputs it waits for, and no others, after the views
\* before it if it writes one, leaves such a document.
LEMMA StoreMakes ==
    ASSUME NEW g \in Jobs, NEW d, NEW doc, Made(g, d, doc),
           NEW i \in Steps(g), i \notin DOMAIN doc,
           g.reads[i] \cap DOMAIN doc = WaitsFor(g, i),
           NEW from, g.reads[i] \cap DOMAIN from = WaitsFor(g, i),
           \A p \in WaitsFor(g, i) : from[p] = doc[p],
           i \in g.views /\ Compute(g, i, d, from).status = "complete" => EarlierViews(g, i) \subseteq DOMAIN doc
    PROVE  Made(g, d, Store(g, i, Compute(g, i, d, from), doc))
<1> DEFINE out == Compute(g, i, d, from)
           new == Store(g, i, out, doc)
           entry == [status |-> out.status,
                     seen   |-> out.seen,
                     reads  |-> {p \in g.reads[i] : p \in g.requires[i]
                                    \/ (p \in DOMAIN doc /\ doc[p].status = "complete")},
                     view   |-> IF i \in g.views /\ out.status = "complete"
                                  THEN Cardinality(ViewsOn(g, doc)) + 1 ELSE 0]
<1>1. new = [p \in DOMAIN doc \cup {i} |-> IF p = i THEN entry ELSE doc[p]]
  BY DEF Store, ViewsOn
<1>2. entry.status = out.status
  OBVIOUS
<1>3. /\ DOMAIN new = DOMAIN doc \cup {i} /\ new[i] = entry
      /\ \A p \in DOMAIN doc : p # i /\ new[p] = doc[p]
  BY <1>1
<1> HIDE DEF new
<1>4. WaitsFor(g, i) \subseteq DOMAIN doc
  OBVIOUS
<1>5. out = Compute(g, i, d, [p \in WaitsFor(g, i) |-> new[p]])
  <2> DEFINE b == [p \in WaitsFor(g, i) |-> new[p]]
  <2>1. DOMAIN b = WaitsFor(g, i) /\ \A p \in WaitsFor(g, i) : from[p] = b[p]
    BY <1>3, <1>4
  <2>2. /\ g.reads[i] \cap DOMAIN from = g.reads[i] \cap DOMAIN b
        /\ \A p \in g.reads[i] \cap DOMAIN from : from[p] = b[p]
    BY <2>1
  <2> HIDE DEF b
  <2>3. Compute(g, i, d, from) = Compute(g, i, d, b)
    BY <2>2, ComputeOn
  <2> QED  BY <2>3 DEF b
<1>6. \A v \in DOMAIN doc \cap g.views : doc[v].status = "complete" => i \notin EarlierViews(g, v)
  BY DEF Made
<1>7. i \in g.views /\ out.status = "complete" =>
        ViewsOn(g, doc) = ViewsOn(g, new) \cap EarlierViews(g, i)
  <2> SUFFICES ASSUME i \in g.views, out.status = "complete"
               PROVE  ViewsOn(g, doc) = ViewsOn(g, new) \cap EarlierViews(g, i)
    OBVIOUS
  <2>1. \A v \in ViewsOn(g, doc) : v \in EarlierViews(g, i)
    <3> TAKE v \in ViewsOn(g, doc)
    <3>1. v \in Steps(g) /\ v # i /\ ~Earlier(g, i, v) /\ v \in g.views
      BY <1>6 DEF ViewsOn, EarlierViews, Made
    <3> QED  BY <3>1, EarlierIs DEF EarlierViews
  <2>2. i \notin EarlierViews(g, i)
    BY EarlierIs DEF EarlierViews
  <2> QED  BY <1>3, <2>1, <2>2 DEF ViewsOn
<1>8. new[i] = EntryOf(g, d, i, new)
  <2>1. {p \in g.reads[i] : p \in g.requires[i] \/ (p \in DOMAIN doc /\ doc[p].status = "complete")}
          = {p \in g.reads[i] : p \in g.requires[i] \/ (p \in WaitsFor(g, i) /\ new[p].status = "complete")}
    BY <1>3
  <2> HIDE DEF out
  <2> QED  BY <1>3, <1>5, <1>7, <2>1 DEF EntryOf
<1>9. ASSUME NEW j \in DOMAIN doc
      PROVE  WaitsFor(g, j) \subseteq DOMAIN new /\ new[j] = EntryOf(g, d, j, new)
  <2>1. WaitsFor(g, j) \subseteq DOMAIN doc /\ doc[j] = EntryOf(g, d, j, doc) /\ j \in Steps(g)
    BY DEF Made
  <2>2. new[j] = doc[j] /\ \A p \in WaitsFor(g, j) : doc[p] = new[p]
    BY <1>3, <2>1
  <2>3. CASE j \in g.views /\ doc[j].status = "complete"
    <3>1. i \notin EarlierViews(g, j)
      BY <1>6, <2>3
    <3>2. ViewsOn(g, doc) \cap EarlierViews(g, j) = ViewsOn(g, new) \cap EarlierViews(g, j)
      BY <1>3, <3>1 DEF ViewsOn
    <3>3. EntryOf(g, d, j, doc) = EntryOf(g, d, j, new)
      BY <2>1, <2>2, <3>2, EntryIs
    <3> QED  BY <1>3, <2>1, <2>2, <3>3
  <2>4. CASE ~(j \in g.views /\ doc[j].status = "complete")
    <3>1. [p \in WaitsFor(g, j) |-> doc[p]] = [p \in WaitsFor(g, j) |-> new[p]]
      BY <2>2
    <3>2. {p \in g.reads[j] : p \in g.requires[j] \/ (p \in WaitsFor(g, j) /\ doc[p].status = "complete")}
            = {p \in g.reads[j] : p \in g.requires[j] \/ (p \in WaitsFor(g, j) /\ new[p].status = "complete")}
      BY <2>2
    <3> DEFINE other == Compute(g, j, d, [p \in WaitsFor(g, j) |-> doc[p]])
    <3>3. doc[j].status = other.status
      BY <2>1 DEF EntryOf
    <3>4. ~(j \in g.views /\ other.status = "complete")
      BY <2>4, <3>3
    <3> HIDE DEF other
    <3>5. EntryOf(g, d, j, doc) = EntryOf(g, d, j, new)
      BY <3>1, <3>2, <3>4 DEF EntryOf, other
    <3> QED  BY <1>3, <2>1, <2>2, <3>5
  <2> QED  BY <2>3, <2>4
<1>10. ASSUME NEW v \in DOMAIN new \cap g.views, new[v].status = "complete"
       PROVE  EarlierViews(g, v) \subseteq DOMAIN new
  <2>1. CASE v = i
    BY <1>2, <1>3, <1>10, <2>1
  <2>2. CASE v # i
    BY <1>3, <1>10, <2>2 DEF Made
  <2> QED  BY <2>1, <2>2
<1>11. DOMAIN new \subseteq Steps(g)
  BY <1>3 DEF Made
<1>12. Made(g, d, new)
  <2>1. \A j \in DOMAIN new : WaitsFor(g, j) \subseteq DOMAIN new /\ new[j] = EntryOf(g, d, j, new)
    BY <1>3, <1>4, <1>8, <1>9
  <2> QED  BY <1>10, <1>11, <2>1 DEF Made
<1> QED  BY <1>12 DEF new

Entries(g) == [status : {"complete", "failed", "skipped"}, seen : SUBSET Steps(g),
               reads : SUBSET Steps(g), view : Nat]
DocsOf(g) == UNION {[T -> Entries(g)] : T \in SUBSET Steps(g)}

\* The documents as step i's stage finds them, and as its output leaves them.
FoundBy(g, i, doc) == [p \in {p \in DOMAIN doc : StageOf(g)[p] < StageOf(g)[i]} |-> doc[p]]
RunStep(g, d, i, doc) == Store(g, i, Compute(g, i, d, FoundBy(g, i, doc)), doc)

\* A step's output leaves a document.
LEMMA RunStepIs ==
    ASSUME NEW g \in Jobs, NEW d, NEW i \in Steps(g), NEW doc \in DocsOf(g)
    PROVE  RunStep(g, d, i, doc) \in DocsOf(g)
<1> DEFINE out == Compute(g, i, d, FoundBy(g, i, doc))
           entry == [status |-> out.status,
                     seen   |-> out.seen,
                     reads  |-> {p \in g.reads[i] : p \in g.requires[i]
                                    \/ (p \in DOMAIN doc /\ doc[p].status = "complete")},
                     view   |-> IF i \in g.views /\ out.status = "complete"
                                  THEN Cardinality(ViewsOn(g, doc)) + 1 ELSE 0]
<1>1. PICK T \in SUBSET Steps(g) : doc \in [T -> Entries(g)]
  BY DEF DocsOf
<1>2. g.reads[i] \subseteq Steps(g) /\ IsFiniteSet(Steps(g))
  BY GraphIs
<1>3. out.status \in {"complete", "failed", "skipped"} /\ out.seen \in SUBSET Steps(g)
  BY <1>2 DEF Compute
<1>4. RunStep(g, d, i, doc) = [p \in T \cup {i} |-> IF p = i THEN entry ELSE doc[p]]
  <2> HIDE DEF out
  <2> QED  BY <1>1 DEF RunStep, Store, ViewsOn, out
<1>5. Cardinality(ViewsOn(g, doc)) \in Nat
  <2>1. ViewsOn(g, doc) \subseteq Steps(g)
    BY <1>1 DEF ViewsOn
  <2> QED  BY <1>2, <2>1, FS_Subset, FS_CardinalityType
<1> HIDE DEF out
<1>6. entry \in Entries(g)
  BY <1>2, <1>3, <1>5 DEF Entries
<1> HIDE DEF entry
<1>7. RunStep(g, d, i, doc) \in [T \cup {i} -> Entries(g)]
  BY <1>1, <1>4, <1>6
<1>8. T \cup {i} \in SUBSET Steps(g)
  OBVIOUS
<1> QED  BY <1>7, <1>8 DEF DocsOf

\* A run is what its recursion says.
LEMMA RunIs ==
    ASSUME NEW g \in Jobs, NEW d
    PROVE  \E held : /\ Run(g, d) = held[Cardinality(Steps(g))]
                     /\ held[0] = NoLayers
                     /\ \A k \in 1..Cardinality(Steps(g)) :
                           held[k] = RunStep(g, d, TopoSteps(g)[k], held[k - 1])
<1> DEFINE n == Cardinality(Steps(g))
           topo_ == TopoSteps(g)
           S == DocsOf(g)
           step == [x \in S \X (1..n) |-> RunStep(g, d, topo_[x[2]], x[1])]
           P(h) == h = [k \in 0..n |-> IF k = 0 THEN NoLayers ELSE RunStep(g, d, topo_[k], h[k - 1])]
<1>1. n \in Nat /\ \A k \in 1..n : topo_[k] \in Steps(g)
  BY GraphIs, TopoIs
<1>2. NoLayers \in S
  BY DEF DocsOf, NoLayers
<1> HIDE DEF n, topo_
<1>3. step \in StepsOver(S, n)
  <2> HIDE DEF S
  <2>1. \A x \in S \X (1..n) : RunStep(g, d, topo_[x[2]], x[1]) \in S
    BY <1>1, RunStepIs DEF S
  <2> QED  BY <2>1 DEF StepsOver
<1>4. PICK f : f \in [0..n -> S] /\ f[0] = NoLayers /\ \A k \in 1..n : f[k] = step[<<f[k - 1], k>>]
  <2> HIDE DEF step, S
  <2>1. \E f : Iteration(f, S, NoLayers, n, step)
    BY <1>1, <1>2, <1>3, Iterates
  <2> QED  BY <2>1 DEF Iteration
<1>5. P(f)
  <2> DEFINE h == [k \in 0..n |-> IF k = 0 THEN NoLayers ELSE RunStep(g, d, topo_[k], f[k - 1])]
  <2>1. ASSUME NEW k \in 0..n PROVE f[k] = h[k]
    <3>1. CASE k = 0
      BY <1>4, <3>1
    <3>2. CASE k # 0
      <4>1. k \in 1..n /\ k - 1 \in 0..n
        BY <1>1, <3>2
      <4>2. f[k] = step[<<f[k - 1], k>>] /\ f[k - 1] \in S
        BY <1>4, <4>1
      <4>3. step[<<f[k - 1], k>>] = RunStep(g, d, topo_[k], f[k - 1])
        BY <4>1, <4>2
      <4> QED  BY <3>2, <4>2, <4>3
    <3> QED  BY <3>1, <3>2
  <2> HIDE DEF S
  <2>2. f = [k \in 0..n |-> f[k]]
    BY <1>4
  <2> QED  BY <2>1, <2>2
<1> DEFINE held == CHOOSE h : P(h)
<1>6. Run(g, d) = held[n]
  BY DEF Run, RunStep, FoundBy, n, topo_
<1>7. P(held)
  <2> HIDE DEF P
  <2> QED  BY <1>5
<1>8. held[0] = NoLayers /\ \A k \in 1..n : held[k] = RunStep(g, d, topo_[k], held[k - 1])
  <2> HIDE DEF held
  <2> DEFINE r == [k \in 0..n |-> IF k = 0 THEN NoLayers ELSE RunStep(g, d, topo_[k], held[k - 1])]
  <2>1. r[0] = NoLayers /\ \A k \in 1..n : r[k] = RunStep(g, d, topo_[k], held[k - 1])
    BY <1>1
  <2>2. held = r
    BY <1>7
  <2> HIDE DEF r
  <2> QED  BY <2>1, <2>2
<1> HIDE DEF held
<1> QED  BY <1>6, <1>8 DEF n, topo_

\* A run makes every step's entry.
LEMMA RunMakes ==
    ASSUME NEW g \in Jobs, NEW d
    PROVE  Made(g, d, Run(g, d)) /\ DOMAIN Run(g, d) = Steps(g) /\ Run(g, d) \in DocsOf(g)
<1> DEFINE n == Cardinality(Steps(g))
           order == TopoSteps(g)
           S == DocsOf(g)
<1>1. /\ n \in Nat /\ \A k \in 1..n : order[k] \in Steps(g)
      /\ \A p \in Steps(g) : \E k \in 1..n : order[k] = p
      /\ \A j, k \in 1..n : Earlier(g, order[j], order[k]) <=> j < k
  BY GraphIs, TopoIs
<1>2. PICK held : /\ Run(g, d) = held[n] /\ held[0] = NoLayers
                  /\ \A k \in 1..n : held[k] = RunStep(g, d, order[k], held[k - 1])
  BY RunIs
<1> HIDE DEF n, order, S
<1> DEFINE Q == {k \in 0..n : /\ held[k] \in S /\ Made(g, d, held[k])
                              /\ DOMAIN held[k] = {order[j] : j \in 1..k}}
<1>3. 0 \in Q
  <2>1. NoLayers \in S /\ DOMAIN NoLayers = {} /\ Made(g, d, NoLayers)
    BY DEF DocsOf, NoLayers, Made, S
  <2>2. {order[j] : j \in 1..0} = {}
    OBVIOUS
  <2> QED  BY <1>1, <1>2, <2>1, <2>2
<1>4. ASSUME NEW k \in 1..n, k - 1 \in Q PROVE k \in Q
  <2> DEFINE i == order[k]
             doc == held[k - 1]
             from == FoundBy(g, i, doc)
  <2>1. i \in Steps(g) /\ doc \in S /\ Made(g, d, doc) /\ DOMAIN doc = {order[j] : j \in 1..(k - 1)}
    BY <1>1, <1>4
  <2>2. held[k] = RunStep(g, d, i, doc) /\ held[k] \in S
    BY <1>2, <2>1, RunStepIs DEF S
  <2>3. \A p \in Steps(g) : p \in DOMAIN doc <=> Earlier(g, p, i)
    <3> SUFFICES ASSUME NEW p \in Steps(g) PROVE p \in DOMAIN doc <=> Earlier(g, p, i)
      OBVIOUS
    <3>1. PICK j \in 1..n : order[j] = p
      BY <1>1
    <3>2. Earlier(g, p, i) => p \in DOMAIN doc
      <4>1. Earlier(g, p, i) => j < k
        BY <1>1, <3>1
      <4>2. j < k => j \in 1..(k - 1)
        BY <1>1
      <4> QED  BY <2>1, <3>1, <4>1, <4>2
    <3>3. p \in DOMAIN doc => Earlier(g, p, i)
      <4>1. SUFFICES ASSUME NEW m \in 1..(k - 1), p = order[m] PROVE Earlier(g, p, i)
        BY <2>1
      <4>2. m \in 1..n /\ m < k
        BY <1>1
      <4> QED  BY <1>1, <4>1, <4>2
    <3> QED  BY <3>2, <3>3
  <2>4. i \notin DOMAIN doc
    BY <2>1, <2>3, EarlierIs
  <2>5. g.reads[i] \subseteq Steps(g)
    BY <2>1, GraphIs
  <2> HIDE DEF i, doc
  <2>6. g.reads[i] \cap DOMAIN doc = WaitsFor(g, i)
    BY <2>1, <2>3, <2>5, WaitsIs
  <2>7. /\ g.reads[i] \cap DOMAIN from = WaitsFor(g, i)
        /\ \A p \in WaitsFor(g, i) : from[p] = doc[p]
    BY <2>6 DEF FoundBy, WaitsFor
  <2>8. EarlierViews(g, i) \subseteq DOMAIN doc
    <3>1. g.views \subseteq Steps(g)
      BY ProgressiveAssumption
    <3> QED  BY <2>3, <3>1 DEF EarlierViews
  <2> HIDE DEF from
  <2>9. Made(g, d, Store(g, i, Compute(g, i, d, from), doc))
    BY <2>1, <2>4, <2>6, <2>7, <2>8, StoreMakes
  <2>10. Made(g, d, held[k])
    BY <2>2, <2>9 DEF RunStep, from
  <2>11. DOMAIN held[k] = {order[j] : j \in 1..k}
    <3>1. DOMAIN held[k] = DOMAIN doc \cup {i}
      BY <2>2 DEF RunStep, Store
    <3>2. 1..k = (1..(k - 1)) \cup {k}
      BY <1>1
    <3> QED  BY <2>1, <3>1, <3>2 DEF i
  <2> QED  BY <1>1, <2>2, <2>10, <2>11
<1>5. \A k \in 0..n : k \in Q
  <2> HIDE DEF Q
  <2> QED  BY <1>1, <1>3, <1>4, Reaches
<1>6. n \in Q
  BY <1>1, <1>5
<1>7. {order[j] : j \in 1..n} = Steps(g)
  BY <1>1
<1> QED  BY <1>2, <1>6, <1>7 DEF S

----------------------------------------------------------------------------
(* The invariant *)

Plan ==
    /\ graph \in Jobs
    /\ stageOf = StageOf(graph)
    /\ topo = TopoSteps(graph)

DoneIn(st) == {i \in Steps(graph) : st[i] = "done"}

Entry == [status : {"complete", "failed", "skipped"}, seen : SUBSET Steps(graph),
          reads : SUBSET Steps(graph), view : Nat]

EarlierViewsDone(v, st) == \A u \in graph.views : Before(u, v) => u \in DoneIn(st)

CompleteViews(doc) == {p \in DOMAIN doc \cap graph.views : doc[p].status = "complete"}

\* An entry's inputs are on its document, and its view was counted after
\* those of all views before it.
DocKept(doc, st) ==
    /\ doc \in [DoneIn(st) -> Entry]
    /\ \A i \in DOMAIN doc : doc[i].reads \subseteq DOMAIN doc
    /\ \A v \in DOMAIN doc \cap graph.views : doc[v].view > 0 =>
          /\ EarlierViewsDone(v, st)
          /\ doc[v].view <= Cardinality(CompleteViews(doc))
          /\ \A u \in DOMAIN doc \cap graph.views :
                doc[u].view > 0 /\ Before(u, v) => doc[u].view < doc[v].view

\* A running step has a part of the documents that holds what it waited for.
RunningKept(ds, st, sn) ==
    \A i \in Steps(graph) : st[i] = "running" =>
       /\ i \in graph.views => EarlierViewsDone(i, st)
       /\ WaitsFor(graph, i) \subseteq DoneIn(st)
       /\ \A d \in Docs :
            /\ WaitsFor(graph, i) \subseteq DOMAIN sn[i][d]
            /\ DOMAIN sn[i][d] \subseteq DoneIn(st)
            /\ \A p \in DOMAIN sn[i][d] : sn[i][d][p] = ds[d][p]

\* A step without one of its required inputs, on document d.
Starved(j, d, ds, st, df) ==
    \E p \in graph.requires[j] : p \in df \/ (p \in DoneIn(st) /\ ds[d][p].status # "complete")

\* A deferred step will be skipped.
DeferredKept(ds, st, df) ==
    \A j \in df : \A d \in Docs :
       /\ Starved(j, d, ds, st, df)
       /\ st[j] = "done" => ds[d][j].status = "skipped"

\* What is done has waited, and where the makers of optional inputs wait for their
\* readers the documents are being made as a plain run makes them.
OrderKept(ds, st) ==
    /\ \A i \in DoneIn(st) : WaitsFor(graph, i) \subseteq DoneIn(st)
    /\ LoopsWait(graph) => \A d \in Docs : Made(graph, d, ds[d])

WorkInv(ds, st, df, sn) ==
    /\ st \in [Steps(graph) -> {"unstarted", "running", "done"}]
    /\ df \in SUBSET Steps(graph)
    /\ DOMAIN ds = Docs /\ \A d \in Docs : DocKept(ds[d], st)
    /\ RunningKept(ds, st, sn)
    /\ DeferredKept(ds, st, df)
    /\ OrderKept(ds, st)

EventSet == [kind : {"started", "layers", "step_failed"} \cup LastWords, seq : Nat,
             step : Steps(graph) \cup {0}, skips : SUBSET Steps(graph)]

\* What is sent and what is being sent.
Log == IF at = "sending" THEN Append(sent, event) ELSE sent

ToldIn(L, i) == \E k \in DOMAIN L : L[k].step = i
SkippedIn(L, i) == \E k \in DOMAIN L : i \in L[k].skips
Covered(L, i) == ToldIn(L, i) \/ SkippedIn(L, i)

WillBeSkipped(i, ds, st, df) ==
    i \in df \/ (st[i] = "done" /\ \A d \in Docs : ds[d][i].status = "skipped")

\* Of one event of the log.
EventKept(L, k, ds, st, df) ==
    /\ L[k].seq \in {0, k}
    /\ L[k].seq = 0 => L[k].step = 0 /\ L[k].skips = {} /\ L[k].kind \in {"failure", "deadline"}
    /\ L[k].seq = k => L[k].kind \notin {"failure", "deadline"} /\ (L[k].kind = "started" <=> k = 1)
    /\ L[k].step # 0 => st[L[k].step] = "done"
    /\ \A i \in L[k].skips : WillBeSkipped(i, ds, st, df)
    /\ L[k].kind = "complete" =>
          k = Len(L) /\ \A i \in Steps(graph) : st[i] = "done" /\ Covered(L, i)

\* Of two.
EventsKept(L, j, k) ==
    /\ L[j].seq = 0 => L[k].seq = 0
    /\ L[j].step = 0 \/ L[j].step # L[k].step
    /\ L[j].skips \cap L[k].skips = {}

LogInv(L, ds, st, df) ==
    /\ L \in Seq(EventSet)
    /\ \A k \in DOMAIN L : EventKept(L, k, ds, st, df)
    /\ \A j, k \in DOMAIN L : j < k => EventsKept(L, j, k)

Working == {"spawning", "receiving", "joined", "in_time"}

\* What a call that nobody cancelled has said.
Uncancelled ==
    /\ at \in Working \cup {"start", "sending"} => \A k \in DOMAIN sent : sent[k].seq # 0
    /\ at \in Working => sent # <<>>
    /\ at \in Working \/ (at = "sending" /\ after = "spawning") =>
          \A i \in Steps(graph) : state[i] = "done" \/ i \in deferred => Covered(Log, i)
    /\ at \in {"joined", "in_time"} => \A i \in Steps(graph) : state[i] = "done"

PhaseInv ==
    /\ at \in Working \cup {"start", "sending", "cancelling", "done"}
    /\ cancel \in BOOLEAN
    /\ sent \in Seq(EventSet)
    /\ at = "start" => sent = <<>> /\ deferred = {} /\ \A i \in Steps(graph) : state[i] = "unstarted"
    /\ at = "sending" => /\ event \in EventSet
                         /\ after \in {"spawning", "cancelling", "done"}
                         /\ after = "spawning" <=> event.kind \notin LastWords
                         /\ event.kind = "complete" => after = "done"
    /\ \A k \in DOMAIN sent : sent[k].kind = "complete" => at = "done"
    /\ ~cancel => Uncancelled

IInv ==
    /\ Plan
    /\ WorkInv(docs, state, deferred, snapshot)
    /\ LogInv(Log, docs, state, deferred)
    /\ PhaseInv
----------------------------------------------------------------------------
(* Storing an output *)

\* The plan's order of two steps is a strict total order, in which a step comes
\* after those it requires.
LEMMA PlanIs ==
    ASSUME Plan
    PROVE  /\ graph \in Jobs /\ Steps(graph) \subseteq Nat \ {0} /\ IsFiniteSet(Steps(graph))
           /\ stageOf \in [Steps(graph) -> Nat]
           /\ topo \in Seq(Steps(graph))
           /\ graph.views \subseteq Steps(graph)
           /\ \A i \in Steps(graph) :
                 /\ graph.requires[i] \subseteq graph.reads[i] /\ graph.reads[i] \subseteq Steps(graph)
                 /\ \A p \in graph.requires[i] : stageOf[p] < stageOf[i]
                 /\ graph.requires[i] \subseteq WaitsFor(graph, i)
                 /\ WaitsFor(graph, i) \subseteq graph.reads[i]
BY GraphIs, StageOfIs, TopoIs, WaitsIs, ProgressiveAssumption DEF Plan

\* What the task's own order and readiness are.
LEMMA OrderIs ==
    ASSUME Plan, NEW i \in Steps(graph)
    PROVE  /\ \A j \in Steps(graph) : Before(i, j) <=> Earlier(graph, i, j)
           /\ \A done : DepsReady(i, done) <=> WaitsFor(graph, i) \subseteq done
<1>1. stageOf = StageOf(graph) /\ graph \in Jobs
  BY DEF Plan
<1>2. \A p \in graph.reads[i] : stageOf[p] \in Nat /\ stageOf[i] \in Nat
  BY PlanIs
<1>3. \A p \in graph.reads[i] : p \in WaitsFor(graph, i) <=> ~(stageOf[p] >= stageOf[i])
  BY <1>1, <1>2 DEF WaitsFor
<1> QED  BY <1>1, <1>3, PlanIs DEF Before, Earlier, DepsReady

LEMMA BeforeIs ==
    ASSUME Plan, NEW i \in Steps(graph), NEW j \in Steps(graph)
    PROVE  /\ ~Before(i, i)
           /\ i # j => Before(i, j) \/ Before(j, i)
           /\ Before(i, j) => ~Before(j, i)
<1>1. stageOf[i] \in Nat /\ stageOf[j] \in Nat /\ i \in Nat /\ j \in Nat
  BY PlanIs
<1> QED  BY <1>1 DEF Before

\* What an annotator returns; it is skipped without one of its required inputs.
LEMMA ComputeIs ==
    ASSUME Plan, NEW i \in Steps(graph), NEW d, NEW doc
    PROVE  /\ Compute(graph, i, d, doc).status \in {"complete", "failed", "skipped"}
           /\ Compute(graph, i, d, doc).seen \in SUBSET Steps(graph)
           /\ (\E p \in graph.requires[i] \cap DOMAIN doc : doc[p].status # "complete")
                 => Compute(graph, i, d, doc).status = "skipped"
BY PlanIs DEF Compute

\* A document keeps what it had, and its views their order.
LEMMA StoreKeeps ==
    ASSUME Plan, NEW st, NEW doc, DocKept(doc, st),
           NEW i \in Steps(graph), i \notin DoneIn(st), graph.requires[i] \subseteq DoneIn(st),
           NEW out, out.status \in {"complete", "failed", "skipped"}, out.seen \in SUBSET Steps(graph),
           i \in graph.views /\ out.status = "complete" => EarlierViewsDone(i, st),
           NEW later, DoneIn(later) = DoneIn(st) \cup {i}
    PROVE  /\ DocKept(Store(graph, i, out, doc), later)
           /\ Store(graph, i, out, doc)[i].status = out.status
           /\ \A p \in DoneIn(st) : Store(graph, i, out, doc)[p] = doc[p]
<1> DEFINE new == Store(graph, i, out, doc)
           views == CompleteViews(doc)
           entry == [status |-> out.status,
                     seen   |-> out.seen,
                     reads  |-> {p \in graph.reads[i] : p \in graph.requires[i]
                                    \/ (p \in DOMAIN doc /\ doc[p].status = "complete")},
                     view   |-> IF i \in graph.views /\ out.status = "complete"
                                  THEN Cardinality(views) + 1 ELSE 0]
<1>1. new = [p \in DOMAIN doc \cup {i} |-> IF p = i THEN entry ELSE doc[p]]
  BY DEF Store, CompleteViews
<1>2. doc \in [DoneIn(st) -> Entry] /\ DOMAIN doc = DoneIn(st) /\ DoneIn(st) \subseteq Steps(graph)
  BY DEF DocKept, DoneIn
<1>3. IsFiniteSet(views) /\ Cardinality(views) \in Nat
  <2>1. views \in SUBSET Steps(graph)
    BY <1>2 DEF CompleteViews
  <2> HIDE DEF views
  <2> QED  BY <2>1, PlanIs, FS_Subset, FS_CardinalityType
<1> HIDE DEF views
<1>4. entry \in Entry /\ entry.reads \subseteq DoneIn(later)
  BY <1>2, <1>3, PlanIs DEF Entry
<1>5. entry.status = out.status /\ (entry.view > 0 => entry.view = Cardinality(views) + 1 /\ i \in graph.views /\ out.status = "complete")
  BY <1>3
<1> HIDE DEF entry
<1>6. /\ DOMAIN new = DoneIn(later) /\ new[i] = entry
      /\ \A p \in DoneIn(st) : p # i /\ new[p] = doc[p]
  BY <1>1, <1>2
<1> HIDE DEF new
<1>7. new \in [DoneIn(later) -> Entry]
  BY <1>1, <1>2, <1>4, <1>6
<1>8. \A p \in DOMAIN new : new[p].reads \subseteq DOMAIN new
  BY <1>2, <1>4, <1>6 DEF DocKept
<1>9. /\ IsFiniteSet(CompleteViews(new)) /\ Cardinality(CompleteViews(new)) \in Nat
      /\ Cardinality(views) <= Cardinality(CompleteViews(new))
      /\ entry.view > 0 => Cardinality(CompleteViews(new)) = Cardinality(views) + 1
  <2>1. /\ CompleteViews(new) = IF i \in graph.views /\ out.status = "complete" THEN views \cup {i} ELSE views
        /\ i \notin views
    BY <1>2, <1>5, <1>6 DEF CompleteViews, views
  <2>2. Cardinality(views \cup {i}) = Cardinality(views) + 1 /\ IsFiniteSet(views \cup {i})
    BY <1>3, <2>1, FS_AddElement
  <2> QED  BY <1>3, <1>5, <2>1, <2>2
<1>10. ASSUME NEW v \in DOMAIN new \cap graph.views, new[v].view > 0
       PROVE  /\ EarlierViewsDone(v, later)
              /\ new[v].view <= Cardinality(CompleteViews(new))
              /\ \A u \in DOMAIN new \cap graph.views :
                    new[u].view > 0 /\ Before(u, v) => new[u].view < new[v].view
  <2>1. EarlierViewsDone(v, st)
    BY <1>2, <1>5, <1>6, <1>10 DEF DocKept
  <2>2. EarlierViewsDone(v, later)
    BY <2>1 DEF EarlierViewsDone
  <2>3. ASSUME NEW w \in DoneIn(st) \cap graph.views, doc[w].view > 0
        PROVE  doc[w].view \in Nat /\ doc[w].view <= Cardinality(views)
    BY <1>2, <2>3 DEF DocKept, Entry, views
  <2>4. new[v].view <= Cardinality(CompleteViews(new))
    <3>1. CASE v = i
      BY <1>3, <1>5, <1>6, <1>9, <1>10, <3>1
    <3>2. CASE v # i
      <4>1. v \in DoneIn(st) \cap graph.views /\ new[v] = doc[v]
        BY <1>6, <3>2
      <4>2. doc[v].view \in Nat /\ doc[v].view <= Cardinality(views)
        BY <1>10, <2>3, <4>1
      <4> QED  BY <1>3, <1>9, <4>1, <4>2
    <3> QED  BY <3>1, <3>2
  <2>5. ASSUME NEW u \in DOMAIN new \cap graph.views, new[u].view > 0, Before(u, v)
        PROVE  new[u].view < new[v].view
    <3>1. u # v
      BY <1>6, <2>5, BeforeIs, PlanIs
    <3>2. u # i
      <4>1. SUFFICES ASSUME u = i PROVE FALSE
        OBVIOUS
      <4>2. u \in DoneIn(st)
        BY <2>1, <2>5 DEF EarlierViewsDone
      <4> QED  BY <4>1, <4>2
    <3>3. u \in DoneIn(st) \cap graph.views /\ new[u] = doc[u]
      BY <1>6, <3>2
    <3>4. CASE v = i
      <4>1. doc[u].view \in Nat /\ doc[u].view <= Cardinality(views)
        BY <2>3, <2>5, <3>3
      <4>2. new[v].view = Cardinality(views) + 1
        BY <1>5, <1>6, <1>10, <3>4
      <4> QED  BY <1>3, <3>3, <4>1, <4>2
    <3>5. CASE v # i
      <4>1. v \in DoneIn(st) \cap graph.views /\ new[v] = doc[v]
        BY <1>6, <3>5
      <4> QED  BY <1>2, <1>10, <2>5, <3>3, <4>1 DEF DocKept
    <3> QED  BY <3>4, <3>5
  <2> QED  BY <2>2, <2>4, <2>5
<1>11. DocKept(new, later)
  BY <1>7, <1>8, <1>10 DEF DocKept
<1> QED  BY <1>5, <1>6, <1>11 DEF new

\* So do all documents when a step, with all it waits for, is stored that started
\* with them or is without one of its inputs on each; and then it is skipped.
LEMMA StoreAllKeeps ==
    ASSUME Plan, NEW ds, NEW st, NEW df, NEW sn, WorkInv(ds, st, df, sn),
           NEW i \in Steps(graph), st[i] # "done", WaitsFor(graph, i) \subseteq DoneIn(st),
           NEW from,
           \A d \in Docs : /\ WaitsFor(graph, i) \subseteq DOMAIN from[d]
                           /\ DOMAIN from[d] \subseteq DoneIn(st)
                           /\ \A p \in DOMAIN from[d] : from[d][p] = ds[d][p],
           \/ i \in graph.views => EarlierViewsDone(i, st)
           \/ \A d \in Docs : Starved(i, d, ds, st, df)
    PROVE  /\ WorkInv(StoreAll(i, from, ds), [st EXCEPT ![i] = "done"], df, sn)
           /\ \A d \in Docs : \A p \in DoneIn(st) : StoreAll(i, from, ds)[d][p] = ds[d][p]
           /\ (\A d \in Docs : Starved(i, d, ds, st, df)) =>
                 \A d \in Docs : StoreAll(i, from, ds)[d][i].status = "skipped"
<1> DEFINE later == [st EXCEPT ![i] = "done"]
           out(d) == Compute(graph, i, d, from[d])
           new == StoreAll(i, from, ds)
<1>0. graph.requires[i] \subseteq WaitsFor(graph, i) /\ graph.requires[i] \subseteq DoneIn(st)
  BY PlanIs
<1>1. /\ st \in [Steps(graph) -> {"unstarted", "running", "done"}] /\ df \in SUBSET Steps(graph)
      /\ \A d \in Docs : DocKept(ds[d], st)
  BY DEF WorkInv
<1>2. /\ later \in [Steps(graph) -> {"unstarted", "running", "done"}]
      /\ DoneIn(later) = DoneIn(st) \cup {i} /\ i \notin DoneIn(st)
      /\ \A j \in Steps(graph) : j # i => later[j] = st[j]
      /\ later[i] = "done"
  BY <1>1 DEF DoneIn
<1> HIDE DEF later
<1>3. ASSUME NEW d \in Docs, Starved(i, d, ds, st, df) PROVE out(d).status = "skipped"
  <2>1. PICK p \in graph.requires[i] : p \in df \/ (p \in DoneIn(st) /\ ds[d][p].status # "complete")
    BY <1>3 DEF Starved
  <2>2. p \in DoneIn(st) /\ p \in DOMAIN from[d] /\ from[d][p] = ds[d][p]
    BY <1>0
  <2>3. ds[d][p].status # "complete"
    <3>1. p \in df => ds[d][p].status = "skipped"
      BY <2>2 DEF WorkInv, DeferredKept, DoneIn
    <3> QED  BY <2>1, <3>1
  <2> QED  BY <2>2, <2>3, ComputeIs
<1>4. ASSUME NEW d \in Docs
      PROVE  /\ DocKept(new[d], later) /\ new[d][i].status = out(d).status
             /\ \A p \in DoneIn(st) : new[d][p] = ds[d][p]
  <2>1. i \in graph.views /\ out(d).status = "complete" => EarlierViewsDone(i, st)
    BY <1>3
  <2>2. out(d).status \in {"complete", "failed", "skipped"} /\ out(d).seen \in SUBSET Steps(graph)
    BY ComputeIs
  <2>3. new[d] = Store(graph, i, out(d), ds[d])
    BY DEF StoreAll
  <2> HIDE DEF out, new
  <2> QED  BY <1>0, <1>1, <1>2, <2>1, <2>2, <2>3, StoreKeeps
<1>5. DOMAIN new = Docs
  BY DEF StoreAll
<1>6. ASSUME LoopsWait(graph), NEW d \in Docs PROVE Made(graph, d, new[d])
  <2> DEFINE doc == ds[d]
             found == from[d]
  <2>1. /\ graph \in Jobs /\ doc \in [DoneIn(st) -> Entry] /\ DOMAIN doc = DoneIn(st)
        /\ Made(graph, d, doc) /\ i \notin DOMAIN doc
    BY <1>1, <1>2, <1>6 DEF Plan, DocKept, WorkInv, OrderKept
  <2>2. \A j \in DoneIn(st) : WaitsFor(graph, j) \subseteq DoneIn(st)
    BY DEF WorkInv, OrderKept
  <2>3. ASSUME NEW p \in graph.reads[i] \cap DoneIn(st) PROVE p \in WaitsFor(graph, i)
    <3>1. SUFFICES ASSUME p \notin WaitsFor(graph, i) PROVE FALSE
      OBVIOUS
    <3>2. p \in graph.reads[i] \ (WaitsFor(graph, i) \cup {i}) /\ DoneIn(st) \in SUBSET Steps(graph)
      BY <1>2, <3>1 DEF DoneIn
    <3>3. i \in DoneIn(st)
      BY <1>6, <2>2, <3>2 DEF LoopsWait
    <3> QED  BY <1>2, <3>3
  <2>4. WaitsFor(graph, i) \subseteq graph.reads[i]
    BY PlanIs
  <2>5. /\ graph.reads[i] \cap DOMAIN doc = WaitsFor(graph, i)
        /\ graph.reads[i] \cap DOMAIN found = WaitsFor(graph, i)
        /\ \A p \in WaitsFor(graph, i) : found[p] = doc[p]
    BY <2>1, <2>3, <2>4
  <2>6. i \in graph.views /\ out(d).status = "complete" => EarlierViews(graph, i) \subseteq DOMAIN doc
    <3>1. i \in graph.views /\ out(d).status = "complete" => EarlierViewsDone(i, st)
      BY <1>3
    <3>2. EarlierViewsDone(i, st) => EarlierViews(graph, i) \subseteq DoneIn(st)
      BY OrderIs, PlanIs DEF EarlierViewsDone, EarlierViews
    <3> QED  BY <2>1, <3>1, <3>2
  <2>7. new[d] = Store(graph, i, Compute(graph, i, d, found), doc)
    BY DEF StoreAll
  <2> HIDE DEF doc, found, new
  <2> QED  BY <2>1, <2>5, <2>6, <2>7, StoreMakes DEF found
<1> HIDE DEF new, out
<1>7. OrderKept(new, later)
  <2>1. \A j \in DoneIn(later) : WaitsFor(graph, j) \subseteq DoneIn(later)
    BY <1>2 DEF WorkInv, OrderKept
  <2> QED  BY <1>6, <2>1 DEF OrderKept
<1>8. RunningKept(new, later, sn)
  <2>1. ASSUME NEW j \in Steps(graph), later[j] = "running"
        PROVE  /\ j \in graph.views => EarlierViewsDone(j, later)
               /\ WaitsFor(graph, j) \subseteq DoneIn(later)
               /\ \A d \in Docs : /\ WaitsFor(graph, j) \subseteq DOMAIN sn[j][d]
                                  /\ DOMAIN sn[j][d] \subseteq DoneIn(later)
                                  /\ \A p \in DOMAIN sn[j][d] : sn[j][d][p] = new[d][p]
    <3>1. st[j] = "running"
      BY <1>2, <2>1
    <3>2. /\ j \in graph.views => EarlierViewsDone(j, st)
          /\ WaitsFor(graph, j) \subseteq DoneIn(st)
          /\ \A d \in Docs : /\ WaitsFor(graph, j) \subseteq DOMAIN sn[j][d]
                             /\ DOMAIN sn[j][d] \subseteq DoneIn(st)
                             /\ \A p \in DOMAIN sn[j][d] : sn[j][d][p] = ds[d][p]
      BY <3>1 DEF WorkInv, RunningKept
    <3> QED  BY <1>2, <1>4, <3>2 DEF EarlierViewsDone
  <2> QED  BY <2>1 DEF RunningKept
<1>9. DeferredKept(new, later, df)
  <2>1. ASSUME NEW j \in df, NEW d \in Docs
        PROVE  Starved(j, d, new, later, df) /\ (later[j] = "done" => new[d][j].status = "skipped")
    <3>1. Starved(j, d, ds, st, df) /\ (st[j] = "done" => ds[d][j].status = "skipped")
      BY DEF WorkInv, DeferredKept
    <3>2. Starved(j, d, new, later, df)
      BY <1>2, <1>4, <3>1 DEF Starved
    <3>3. CASE j = i
      BY <1>3, <1>4, <3>1, <3>2, <3>3
    <3>4. CASE j # i
      <4>1. j \in Steps(graph) /\ later[j] = st[j]
        BY <1>1, <1>2, <3>4
      <4>2. st[j] = "done" => j \in DoneIn(st)
        BY <4>1 DEF DoneIn
      <4> QED  BY <1>4, <3>1, <3>2, <4>1, <4>2
    <3> QED  BY <3>3, <3>4
  <2> QED  BY <2>1 DEF DeferredKept
<1>10. WorkInv(new, later, df, sn)
  BY <1>1, <1>2, <1>4, <1>5, <1>8, <1>9, <1>7 DEF WorkInv
<1> QED  BY <1>3, <1>4, <1>10 DEF new, later

----------------------------------------------------------------------------
(* The cascade of a failed step *)

Documents == UNION {[T -> Entry] : T \in SUBSET Steps(graph)}
Nows == [docs : [Docs -> Documents], state : [Steps(graph) -> {"unstarted", "running", "done"}],
         deferred : SUBSET Steps(graph), skips : SUBSET Steps(graph)]

\* What a cascade that began at `base' may have come to: only steps that had not
\* started are touched, and each that is done or put off was told of before or is
\* told of now, once.
Cascaded(base, now) ==
    /\ WorkInv(now.docs, now.state, now.deferred, snapshot)
    /\ base.deferred \subseteq now.deferred
    /\ \A j \in Steps(graph) :
          /\ base.state[j] # "unstarted" => now.state[j] = base.state[j]
          /\ now.state[j] = "running" => base.state[j] = "running"
    /\ \A d \in Docs : \A p \in DoneIn(base.state) : now.docs[d][p] = base.docs[d][p]
    /\ \A j \in now.skips :
          /\ j \notin base.deferred /\ j \notin DoneIn(base.state)
          /\ \/ j \in now.deferred
             \/ j \in DoneIn(now.state) /\ \A d \in Docs : now.docs[d][j].status = "skipped"
    /\ \A j \in DoneIn(now.state) \cup now.deferred :
          j \in DoneIn(base.state) \/ j \in base.deferred \/ j \in now.skips

\* One step of the cascade, as a record.
LEMMA CascadeIs ==
    ASSUME NEW now \in Nows, NEW j \in Steps(graph)
    PROVE  LET touched == now.state[j] = "unstarted" /\ Blocked(j, now)
               ready   == DepsReady(j, DoneIn(now.state))
               skips   == IF j \in now.deferred THEN now.skips ELSE now.skips \cup {j}
           IN  /\ ~touched => Cascade(now, j) = now
               /\ touched /\ ready =>
                     Cascade(now, j) = [docs |-> StoreAll(j, now.docs, now.docs),
                                        state |-> [now.state EXCEPT ![j] = "done"],
                                        deferred |-> now.deferred, skips |-> skips]
               /\ touched /\ ~ready =>
                     Cascade(now, j) = [docs |-> now.docs, state |-> now.state,
                                        deferred |-> now.deferred \cup {j}, skips |-> skips]
<1>1. {p \in DOMAIN now.state : now.state[p] = "done"} = DoneIn(now.state)
  BY DEF Nows, DoneIn
<1> DEFINE told == [now EXCEPT !.skips = IF j \in now.deferred THEN @ ELSE @ \cup {j}]
<1>2. told = [docs |-> now.docs, state |-> now.state, deferred |-> now.deferred,
              skips |-> IF j \in now.deferred THEN now.skips ELSE now.skips \cup {j}]
  BY DEF Nows
<1>3. Cascade(now, j) = IF now.state[j] # "unstarted" \/ ~Blocked(j, now) THEN now
        ELSE IF DepsReady(j, DoneIn(now.state))
               THEN [told EXCEPT !.state[j] = "done", !.docs = StoreAll(j, told.docs, told.docs)]
               ELSE [told EXCEPT !.deferred = @ \cup {j}]
  BY <1>1 DEF Cascade
<1> HIDE DEF told
<1> QED  BY <1>2, <1>3

\* What the invariant says of the documents' type.
LEMMA WorkTyped ==
    ASSUME NEW ds, NEW st, NEW df, NEW sn, WorkInv(ds, st, df, sn), NEW skips \in SUBSET Steps(graph),
           NEW e, ds = [d \in Docs |-> e[d]]
    PROVE  [docs |-> ds, state |-> st, deferred |-> df, skips |-> skips] \in Nows
<1>1. \A d \in Docs : ds[d] \in Documents
  <2>1. DoneIn(st) \in SUBSET Steps(graph)
    BY DEF DoneIn
  <2>2. \A d \in Docs : ds[d] \in [DoneIn(st) -> Entry]
    BY DEF WorkInv, DocKept
  <2> QED  BY <2>1, <2>2 DEF Documents
<1>2. ds \in [Docs -> Documents]
  BY <1>1
<1> QED  BY <1>2 DEF Nows, WorkInv

\* The cascade keeps what Cascaded says, step by step.
LEMMA CascadeKeeps ==
    ASSUME Plan, NEW base, NEW now \in Nows, Cascaded(base, now), NEW j \in Steps(graph)
    PROVE  Cascade(now, j) \in Nows /\ Cascaded(base, Cascade(now, j))
<1> DEFINE skips == IF j \in now.deferred THEN now.skips ELSE now.skips \cup {j}
<1>1. CASE ~(now.state[j] = "unstarted" /\ Blocked(j, now))
  BY <1>1, CascadeIs
<1> SUFFICES ASSUME now.state[j] = "unstarted", Blocked(j, now)
             PROVE  Cascade(now, j) \in Nows /\ Cascaded(base, Cascade(now, j))
  BY <1>1
<1>2. /\ WorkInv(now.docs, now.state, now.deferred, snapshot)
      /\ now.state \in [Steps(graph) -> {"unstarted", "running", "done"}]
      /\ DOMAIN now.docs = Docs /\ \A d \in Docs : DOMAIN now.docs[d] = DoneIn(now.state)
      /\ now.deferred \subseteq Steps(graph) /\ now.skips \subseteq Steps(graph)
  BY DEF Cascaded, WorkInv, DocKept, Nows
<1>3. skips \in SUBSET Steps(graph)
  BY <1>2
<1>4. \A d \in Docs : Starved(j, d, now.docs, now.state, now.deferred)
  BY <1>2 DEF Blocked, Starved
<1>5. j \notin DoneIn(now.state) /\ j \notin DoneIn(base.state) /\ base.state[j] = "unstarted"
  BY DEF DoneIn, Cascaded
<1>6. \A k \in skips : /\ k \notin base.deferred /\ k \notin DoneIn(base.state)
                       /\ k = j \/ k \in now.skips
  BY <1>5 DEF Cascaded
<1>7. j \in skips \/ j \in base.deferred \/ j \in now.skips
  BY <1>5 DEF Cascaded
<1>8. now.skips \subseteq skips
  OBVIOUS
<1> HIDE DEF skips
<1>9. CASE DepsReady(j, DoneIn(now.state))
  <2> DEFINE ds == StoreAll(j, now.docs, now.docs)
             st == [now.state EXCEPT ![j] = "done"]
             new == [docs |-> ds, state |-> st, deferred |-> now.deferred, skips |-> skips]
  <2>1. Cascade(now, j) = new
    BY <1>9, CascadeIs DEF skips
  <2>2. /\ WorkInv(ds, st, now.deferred, snapshot)
        /\ \A d \in Docs : \A p \in DoneIn(now.state) : ds[d][p] = now.docs[d][p]
        /\ \A d \in Docs : ds[d][j].status = "skipped"
    <3>1. WaitsFor(graph, j) \subseteq DoneIn(now.state)
      BY <1>9, OrderIs
    <3> QED  BY <1>2, <1>4, <3>1, StoreAllKeeps
  <2>3. /\ DoneIn(st) = DoneIn(now.state) \cup {j} /\ st[j] = "done"
        /\ \A k \in Steps(graph) : k # j => st[k] = now.state[k]
    BY <1>2 DEF DoneIn
  <2>4. new \in Nows
    <3>1. ds = [d \in Docs |-> ds[d]]
      BY DEF StoreAll
    <3> HIDE DEF ds, st
    <3> QED  BY <1>3, <2>2, <3>1, WorkTyped
  <2> HIDE DEF ds, st
  <2>5. /\ new.docs = ds /\ new.state = st /\ new.deferred = now.deferred /\ new.skips = skips
    OBVIOUS
  <2> HIDE DEF new
  <2>6. base.deferred \subseteq new.deferred
    BY <2>5 DEF Cascaded
  <2>7. \A k \in Steps(graph) :
           /\ base.state[k] # "unstarted" => new.state[k] = base.state[k]
           /\ new.state[k] = "running" => base.state[k] = "running"
    BY <1>5, <2>3, <2>5 DEF Cascaded
  <2>8. \A d \in Docs : \A p \in DoneIn(base.state) : new.docs[d][p] = base.docs[d][p]
    <3>1. DoneIn(base.state) \subseteq DoneIn(now.state)
      BY DEF DoneIn, Cascaded
    <3> QED  BY <2>2, <2>5, <3>1 DEF Cascaded
  <2>9. ASSUME NEW k \in new.skips
        PROVE  /\ k \notin base.deferred /\ k \notin DoneIn(base.state)
               /\ \/ k \in new.deferred
                  \/ k \in DoneIn(new.state) /\ \A d \in Docs : new.docs[d][k].status = "skipped"
    <3>1. CASE k = j
      BY <1>6, <2>2, <2>3, <2>5, <2>9, <3>1
    <3>2. CASE k # j
      <4>1. k \in now.skips
        BY <1>6, <2>5, <2>9, <3>2
      <4>2. \/ k \in now.deferred
            \/ k \in DoneIn(now.state) /\ \A d \in Docs : now.docs[d][k].status = "skipped"
        BY <4>1 DEF Cascaded
      <4> QED  BY <1>6, <2>2, <2>3, <2>5, <2>9, <4>2
    <3> QED  BY <3>1, <3>2
  <2>10. ASSUME NEW k \in DoneIn(new.state) \cup new.deferred
         PROVE  k \in DoneIn(base.state) \/ k \in base.deferred \/ k \in new.skips
    <3>1. k = j \/ k \in DoneIn(now.state) \cup now.deferred
      BY <2>3, <2>5
    <3>2. k # j => k \in DoneIn(base.state) \/ k \in base.deferred \/ k \in now.skips
      BY <3>1 DEF Cascaded
    <3> QED  BY <1>7, <1>8, <2>5, <3>1, <3>2
  <2>11. Cascaded(base, new)
    <3>1. WorkInv(new.docs, new.state, new.deferred, snapshot)
      BY <2>2, <2>5
    <3> QED  BY <3>1, <2>6, <2>7, <2>8, <2>9, <2>10 DEF Cascaded
  <2> QED  BY <2>1, <2>4, <2>11
<1>10. CASE ~DepsReady(j, DoneIn(now.state))
  <2> DEFINE new == [docs |-> now.docs, state |-> now.state,
                     deferred |-> now.deferred \cup {j}, skips |-> skips]
  <2>1. Cascade(now, j) = new
    BY <1>10, CascadeIs DEF skips
  <2>2. new \in Nows
    BY <1>3 DEF Nows
  <2>3. /\ new.docs = now.docs /\ new.state = now.state
        /\ new.deferred = now.deferred \cup {j} /\ new.skips = skips
    OBVIOUS
  <2> HIDE DEF new
  <2>4. WorkInv(new.docs, new.state, new.deferred, snapshot)
    <3>1. DeferredKept(now.docs, now.state, now.deferred \cup {j})
      <4>1. ASSUME NEW k \in now.deferred \cup {j}, NEW d \in Docs
            PROVE  /\ Starved(k, d, now.docs, now.state, now.deferred \cup {j})
                   /\ now.state[k] = "done" => now.docs[d][k].status = "skipped"
        <5>1. Starved(k, d, now.docs, now.state, now.deferred)
          BY <1>2, <1>4 DEF WorkInv, DeferredKept
        <5>2. Starved(k, d, now.docs, now.state, now.deferred \cup {j})
          BY <5>1 DEF Starved
        <5>3. now.state[k] = "done" => k \in now.deferred
          OBVIOUS
        <5> QED  BY <1>2, <5>2, <5>3 DEF WorkInv, DeferredKept
      <4> QED  BY <4>1 DEF DeferredKept
    <3> QED  BY <1>2, <2>3, <3>1 DEF WorkInv
  <2>5. \A k \in new.skips :
           /\ k \notin base.deferred /\ k \notin DoneIn(base.state)
           /\ \/ k \in new.deferred
              \/ k \in DoneIn(new.state) /\ \A d \in Docs : new.docs[d][k].status = "skipped"
    BY <1>6, <2>3 DEF Cascaded
  <2>6. \A k \in DoneIn(new.state) \cup new.deferred :
           k \in DoneIn(base.state) \/ k \in base.deferred \/ k \in new.skips
    BY <1>7, <1>8, <2>3 DEF Cascaded
  <2>7. /\ base.deferred \subseteq new.deferred
        /\ \A k \in Steps(graph) :
              /\ base.state[k] # "unstarted" => new.state[k] = base.state[k]
              /\ new.state[k] = "running" => base.state[k] = "running"
        /\ \A d \in Docs : \A p \in DoneIn(base.state) : new.docs[d][p] = base.docs[d][p]
    BY <2>3 DEF Cascaded
  <2>8. Cascaded(base, new)
    BY <2>4, <2>5, <2>6, <2>7 DEF Cascaded
  <2> QED  BY <2>1, <2>2, <2>8
<1> QED  BY <1>9, <1>10

\* A step that failed on some document takes with it what the cascade leaves.
LEMMA CascadeEnds ==
    ASSUME Plan, NEW base \in Nows, Cascaded(base, base),
           NEW past, past = CHOOSE h : h = [k \in 0..Len(topo) |->
                                              IF k = 0 THEN base ELSE Cascade(h[k - 1], topo[k])]
    PROVE  past[Len(topo)] \in Nows /\ Cascaded(base, past[Len(topo)])
<1> DEFINE n == Len(topo)
           S == {now \in Nows : Cascaded(base, now)}
           step == [x \in S \X (1..n) |-> Cascade(x[1], topo[x[2]])]
           P(h) == h = [k \in 0..n |-> IF k = 0 THEN base ELSE Cascade(h[k - 1], topo[k])]
<1>1. n \in Nat /\ \A k \in 1..n : topo[k] \in Steps(graph)
  BY PlanIs
<1>2. base \in S
  OBVIOUS
<1> HIDE DEF n
<1>3. step \in StepsOver(S, n)
  BY <1>1, CascadeKeeps DEF StepsOver
<1>4. PICK f : f \in [0..n -> S] /\ f[0] = base /\ \A k \in 1..n : f[k] = step[<<f[k - 1], k>>]
  <2> HIDE DEF step, S
  <2>1. \E f : Iteration(f, S, base, n, step)
    BY <1>1, <1>2, <1>3, Iterates
  <2> QED  BY <2>1 DEF Iteration
<1>5. P(f)
  <2> DEFINE h == [k \in 0..n |-> IF k = 0 THEN base ELSE Cascade(f[k - 1], topo[k])]
  <2>1. ASSUME NEW k \in 0..n PROVE f[k] = h[k]
    <3>1. CASE k = 0
      BY <1>4, <3>1
    <3>2. CASE k # 0
      <4>1. k \in 1..n /\ k - 1 \in 0..n
        BY <1>1, <3>2
      <4>2. f[k] = step[<<f[k - 1], k>>] /\ f[k - 1] \in S
        BY <1>4, <4>1
      <4>3. step[<<f[k - 1], k>>] = Cascade(f[k - 1], topo[k])
        BY <4>1, <4>2
      <4> QED  BY <3>2, <4>2, <4>3
    <3> QED  BY <3>1, <3>2
  <2> HIDE DEF S
  <2>2. f = [k \in 0..n |-> f[k]]
    BY <1>4
  <2> QED  BY <2>1, <2>2
<1>6. P(past)
  <2>1. past = CHOOSE h : P(h)
    BY DEF n
  <2> HIDE DEF P
  <2> QED  BY <1>5, <2>1
<1> DEFINE Q == {k \in 0..n : past[k] \in S}
<1>7. /\ past[0] = base
      /\ \A k \in 1..n : past[k] = Cascade(past[k - 1], topo[k])
  <2> DEFINE r == [k \in 0..n |-> IF k = 0 THEN base ELSE Cascade(past[k - 1], topo[k])]
  <2>1. r[0] = base /\ \A k \in 1..n : r[k] = Cascade(past[k - 1], topo[k])
    BY <1>1
  <2>2. past = r
    BY <1>6
  <2> HIDE DEF r
  <2> QED  BY <2>1, <2>2
<1> HIDE DEF P
<1>8. 0 \in Q
  BY <1>1, <1>2, <1>7
<1>9. ASSUME NEW k \in 1..n, k - 1 \in Q PROVE k \in Q
  <2>1. past[k - 1] \in Nows /\ Cascaded(base, past[k - 1]) /\ topo[k] \in Steps(graph)
    BY <1>1, <1>9
  <2>2. Cascade(past[k - 1], topo[k]) \in S
    BY <2>1, CascadeKeeps
  <2> QED  BY <1>7, <2>2
<1>10. \A k \in 0..n : k \in Q
  <2> HIDE DEF Q
  <2> QED  BY <1>1, <1>8, <1>9, Reaches
<1>11. past[n] \in S
  BY <1>1, <1>10
<1> QED  BY <1>11 DEF n

\* The documents once the output of running step i is stored.
Stored(i) ==
    [docs |-> StoreAll(i, snapshot[i], docs), state |-> [state EXCEPT ![i] = "done"],
     deferred |-> deferred, skips |-> {}]

\* Settling a step keeps the documents, and tells of each step once.
LEMMA SettleKeeps ==
    ASSUME Plan, WorkInv(docs, state, deferred, snapshot),
           NEW i \in Steps(graph), state[i] = "running"
    PROVE  /\ Settle(i).now \in Nows
           /\ Cascaded(Stored(i), Settle(i).now)
           /\ DoneIn(Stored(i).state) = DoneIn(state) \cup {i}
           /\ \A d \in Docs : \A p \in DoneIn(state) : Stored(i).docs[d][p] = docs[d][p]
<1> DEFINE ds == StoreAll(i, snapshot[i], docs)
           st == [state EXCEPT ![i] = "done"]
<1>1. i \in DOMAIN state /\ state \in [Steps(graph) -> {"unstarted", "running", "done"}]
  BY DEF WorkInv
<1>2. /\ i \in graph.views => EarlierViewsDone(i, state)
      /\ WaitsFor(graph, i) \subseteq DoneIn(state)
      /\ \A d \in Docs : /\ WaitsFor(graph, i) \subseteq DOMAIN snapshot[i][d]
                         /\ DOMAIN snapshot[i][d] \subseteq DoneIn(state)
                         /\ \A p \in DOMAIN snapshot[i][d] : snapshot[i][d][p] = docs[d][p]
  BY DEF WorkInv, RunningKept
<1>3. /\ WorkInv(ds, st, deferred, snapshot)
      /\ \A d \in Docs : \A p \in DoneIn(state) : ds[d][p] = docs[d][p]
  BY <1>2, StoreAllKeeps
<1>4. DoneIn(st) = DoneIn(state) \cup {i}
  BY <1>1 DEF DoneIn
<1>5. Stored(i) \in Nows
  <2>1. ds = [d \in Docs |-> ds[d]]
    BY DEF StoreAll
  <2> HIDE DEF ds, st
  <2>2. [docs |-> ds, state |-> st, deferred |-> deferred, skips |-> {}] \in Nows
    BY <1>3, <2>1, WorkTyped
  <2> QED  BY <2>2 DEF Stored, ds, st
<1>6. /\ Stored(i).docs = ds /\ Stored(i).state = st /\ Stored(i).deferred = deferred
      /\ Stored(i).skips = {}
  BY DEF Stored
<1> HIDE DEF ds, st
<1>7. Cascaded(Stored(i), Stored(i))
  BY <1>3, <1>6 DEF Cascaded
<1> DEFINE past == CHOOSE h : h = [k \in 0..Len(topo) |->
                                     IF k = 0 THEN Stored(i) ELSE Cascade(h[k - 1], topo[k])]
<1>8. Settle(i).now = past[Len(topo)] \/ Settle(i).now = Stored(i)
  BY DEF Settle, Stored
<1>9. past[Len(topo)] \in Nows /\ Cascaded(Stored(i), past[Len(topo)])
  BY <1>5, <1>7, CascadeEnds
<1> QED  BY <1>3, <1>4, <1>5, <1>6, <1>7, <1>8, <1>9

----------------------------------------------------------------------------
(* Starting steps *)

\* A step is started with what it waits for stored, and a view's writer with
\* all views before it.
LEMMA ChosenIs ==
    ASSUME Plan, WorkInv(docs, state, deferred, snapshot)
    PROVE  \A i \in ToSpawn : /\ i \in Steps(graph) /\ state[i] = "unstarted"
                              /\ WaitsFor(graph, i) \subseteq DoneIn(state)
                              /\ i \in graph.views => EarlierViewsDone(i, state)
<1> DEFINE done == {i \in DOMAIN state : state[i] = "done"}
           ready == {i \in DOMAIN state : state[i] = "unstarted" /\ DepsReady(i, done)}
           views == ready \cap graph.views
           beside == {i \in ready \ views : \A v \in views : Before(i, v)}
           alone  == {v \in views : /\ Running = {}
                                    /\ \A i \in ready : ~Before(i, v)
                                    /\ \A u \in graph.views : Before(u, v) => u \in done}
<1>1. DOMAIN state = Steps(graph) /\ done = DoneIn(state)
  BY DEF WorkInv, DoneIn
<1>2. ToSpawn = IF Running \cap graph.views # {} THEN {} ELSE IF beside # {} THEN beside ELSE alone
  BY DEF ToSpawn
<1> HIDE DEF done
<1>3. ASSUME NEW i \in ready PROVE WaitsFor(graph, i) \subseteq DoneIn(state)
  BY <1>1, OrderIs
<1>4. \A i \in beside : i \in ready /\ i \notin graph.views
  OBVIOUS
<1>5. \A i \in alone : i \in ready /\ EarlierViewsDone(i, state)
  BY <1>1 DEF EarlierViewsDone
<1>6. \A i \in ready : i \in Steps(graph) /\ state[i] = "unstarted"
  BY <1>1
<1> HIDE DEF ready, beside, alone
<1> QED  BY <1>2, <1>3, <1>4, <1>5, <1>6

\* The first of some steps in the plan's order.
LEMMA FirstStep ==
    ASSUME Plan, NEW S, S \subseteq Steps(graph), S # {}
    PROVE  \E i \in S : \A j \in S : j # i => Before(i, j)
<1> DEFINE stages == {stageOf[i] : i \in S}
<1>1. stages \subseteq Nat /\ stages # {}
  BY PlanIs
<1>2. PICK s \in stages : \A x \in stages : s <= x
  <2> HIDE DEF stages
  <2> QED  BY <1>1, LeastNumber
<1> DEFINE first == {i \in S : stageOf[i] = s}
<1>3. first \subseteq Nat /\ first # {}
  BY PlanIs
<1>4. PICK i \in first : \A x \in first : i <= x
  <2> HIDE DEF first
  <2> QED  BY <1>3, LeastNumber
<1>5. ASSUME NEW j \in S, j # i PROVE Before(i, j)
  <2>1. stageOf[i] = s /\ s <= stageOf[j] /\ stageOf[i] \in Nat /\ stageOf[j] \in Nat
    BY <1>2, PlanIs
  <2>2. i \in Nat /\ j \in Nat
    BY PlanIs
  <2>3. stageOf[j] = s => i <= j
    BY <1>4
  <2> QED  BY <1>5, <2>1, <2>2, <2>3 DEF Before
<1> QED  BY <1>5

\* While a step is left and none runs, one can be started.
LEMMA SomeStepStarts ==
    ASSUME Plan, WorkInv(docs, state, deferred, snapshot),
           Running = {}, ToSpawn = {}
    PROVE  \A i \in Steps(graph) : state[i] = "done"
<1> DEFINE left == {i \in Steps(graph) : state[i] # "done"}
           done == {i \in DOMAIN state : state[i] = "done"}
           ready == {i \in DOMAIN state : state[i] = "unstarted" /\ DepsReady(i, done)}
           views == ready \cap graph.views
           beside == {i \in ready \ views : \A v \in views : Before(i, v)}
           alone  == {v \in views : /\ Running = {}
                                    /\ \A i \in ready : ~Before(i, v)
                                    /\ \A u \in graph.views : Before(u, v) => u \in done}
<1>1. /\ DOMAIN state = Steps(graph) /\ done = DoneIn(state)
      /\ state \in [Steps(graph) -> {"unstarted", "running", "done"}]
  BY DEF WorkInv, DoneIn
<1>2. ToSpawn = IF Running \cap graph.views # {} THEN {} ELSE IF beside # {} THEN beside ELSE alone
  BY DEF ToSpawn
<1> HIDE DEF done
<1>3. SUFFICES ASSUME left # {} PROVE FALSE
  OBVIOUS
<1>4. PICK i \in left : \A j \in left : j # i => Before(i, j)
  <2>1. left \subseteq Steps(graph)
    OBVIOUS
  <2> HIDE DEF left
  <2> QED  BY <1>3, <2>1, FirstStep
<1>5. ASSUME NEW u \in Steps(graph), Before(u, i) PROVE u \in DoneIn(state)
  <2>1. u # i /\ ~Before(i, u)
    BY <1>5, BeforeIs
  <2> QED  BY <1>4, <2>1 DEF DoneIn
<1>6. state[i] = "unstarted"
  BY <1>1 DEF Running
<1>7. DepsReady(i, DoneIn(state))
  <2>1. ASSUME NEW p \in graph.reads[i], ~(stageOf[p] >= stageOf[i]) PROVE p \in DoneIn(state)
    <3>1. p \in Steps(graph) /\ stageOf[p] \in Nat /\ stageOf[i] \in Nat
      BY PlanIs
    <3>2. Before(p, i)
      BY <2>1, <3>1 DEF Before
    <3> QED  BY <1>5, <3>1, <3>2
  <2> QED  BY <2>1 DEF DepsReady
<1>8. i \in ready
  BY <1>1, <1>6, <1>7
<1>9. \A j \in ready : j # i => Before(i, j)
  BY <1>1, <1>4
<1>10. CASE i \in graph.views
  <2>1. \A j \in ready : ~Before(j, i)
    BY <1>1, <1>9, BeforeIs
  <2>2. \A u \in graph.views : Before(u, i) => u \in DoneIn(state)
    BY <1>5, PlanIs
  <2>3. i \in alone
    BY <1>1, <1>8, <1>10, <2>1, <2>2
  <2> HIDE DEF beside, alone
  <2> QED  BY <1>2, <2>3
<1>11. CASE i \notin graph.views
  <2>1. i \in beside
    BY <1>8, <1>9, <1>11
  <2> HIDE DEF beside, alone
  <2> QED  BY <1>2, <2>1
<1> QED  BY <1>10, <1>11

\* The documents are kept when steps are started over them.
LEMMA SpawnKeeps ==
    ASSUME Plan, WorkInv(docs, state, deferred, snapshot),
           NEW chosen, chosen \subseteq ToSpawn,
           NEW st, st = [i \in DOMAIN state |-> IF i \in chosen THEN "running" ELSE state[i]],
           NEW sn, sn = [i \in DOMAIN state |-> IF i \in chosen THEN docs ELSE snapshot[i]]
    PROVE  WorkInv(docs, st, deferred, sn) /\ DoneIn(st) = DoneIn(state)
<1>1. /\ state \in [Steps(graph) -> {"unstarted", "running", "done"}]
      /\ deferred \in SUBSET Steps(graph) /\ DOMAIN docs = Docs
      /\ \A d \in Docs : DocKept(docs[d], state) /\ DOMAIN docs[d] = DoneIn(state)
  BY DEF WorkInv, DocKept
<1>2. \A i \in chosen : /\ i \in Steps(graph) /\ state[i] = "unstarted"
                        /\ WaitsFor(graph, i) \subseteq DoneIn(state)
                        /\ i \in graph.views => EarlierViewsDone(i, state)
  BY ChosenIs
<1>3. /\ st \in [Steps(graph) -> {"unstarted", "running", "done"}]
      /\ \A i \in Steps(graph) : /\ i \in chosen => st[i] = "running" /\ sn[i] = docs
                                 /\ i \notin chosen => st[i] = state[i] /\ sn[i] = snapshot[i]
  BY <1>1
<1>4. DoneIn(st) = DoneIn(state)
  BY <1>2, <1>3 DEF DoneIn
<1>5. \A d \in Docs : DocKept(docs[d], st)
  BY <1>1, <1>4 DEF DocKept, EarlierViewsDone
<1>6. RunningKept(docs, st, sn)
  <2>1. ASSUME NEW i \in Steps(graph), st[i] = "running"
        PROVE  /\ i \in graph.views => EarlierViewsDone(i, st)
               /\ WaitsFor(graph, i) \subseteq DoneIn(st)
               /\ \A d \in Docs : /\ WaitsFor(graph, i) \subseteq DOMAIN sn[i][d]
                                  /\ DOMAIN sn[i][d] \subseteq DoneIn(st)
                                  /\ \A p \in DOMAIN sn[i][d] : sn[i][d][p] = docs[d][p]
    <3>1. CASE i \in chosen
      BY <1>1, <1>2, <1>3, <1>4, <3>1 DEF EarlierViewsDone
    <3>2. CASE i \notin chosen
      <4>1. state[i] = "running" /\ sn[i] = snapshot[i]
        BY <1>3, <2>1, <3>2
      <4> QED  BY <1>4, <4>1 DEF WorkInv, RunningKept, EarlierViewsDone
    <3> QED  BY <3>1, <3>2
  <2> QED  BY <2>1 DEF RunningKept
<1>7. DeferredKept(docs, st, deferred)
  <2>1. ASSUME NEW j \in deferred, NEW d \in Docs
        PROVE  Starved(j, d, docs, st, deferred) /\ (st[j] = "done" => docs[d][j].status = "skipped")
    <3>1. Starved(j, d, docs, state, deferred) /\ (state[j] = "done" => docs[d][j].status = "skipped")
      BY DEF WorkInv, DeferredKept
    <3>2. st[j] = "done" => state[j] = "done"
      BY <1>1, <1>3
    <3> QED  BY <1>4, <3>1, <3>2 DEF Starved
  <2> QED  BY <2>1 DEF DeferredKept
<1>8. OrderKept(docs, st)
  BY <1>4 DEF WorkInv, OrderKept
<1> QED  BY <1>1, <1>3, <1>4, <1>5, <1>6, <1>7, <1>8 DEF WorkInv
----------------------------------------------------------------------------
(* The log *)

\* What is said of the log stays true as steps are done or put off.
LEMMA LogKeeps ==
    ASSUME NEW L, NEW ds, NEW st, NEW df, NEW ds2, NEW st2, NEW df2,
           LogInv(L, ds, st, df),
           \A i \in Steps(graph) : st[i] = "done" => st2[i] = "done",
           \A i \in Steps(graph) : WillBeSkipped(i, ds, st, df) => WillBeSkipped(i, ds2, st2, df2)
    PROVE  LogInv(L, ds2, st2, df2)
<1>1. ASSUME NEW k \in DOMAIN L PROVE EventKept(L, k, ds2, st2, df2)
  <2>1. EventKept(L, k, ds, st, df) /\ L[k] \in EventSet
    BY DEF LogInv
  <2>2. L[k].skips \subseteq Steps(graph) /\ L[k].step \in Steps(graph) \cup {0}
    BY <2>1 DEF EventSet
  <2> QED  BY <2>1, <2>2 DEF EventKept
<1> QED  BY <1>1 DEF LogInv

\* An event is added to a log that has no last word.
LEMMA LogAppend ==
    ASSUME NEW L, NEW ds, NEW st, NEW df, LogInv(L, ds, st, df),
           \A k \in DOMAIN L : L[k].kind # "complete",
           NEW e \in EventSet, EventKept(Append(L, e), Len(L) + 1, ds, st, df),
           \A j \in DOMAIN L : /\ L[j].seq = 0 => e.seq = 0
                               /\ L[j].step = 0 \/ L[j].step # e.step
                               /\ L[j].skips \cap e.skips = {}
    PROVE  LogInv(Append(L, e), ds, st, df)
<1> DEFINE M == Append(L, e)
           n == Len(L) + 1
<1>1. /\ L \in Seq(EventSet) /\ \A k \in DOMAIN L : EventKept(L, k, ds, st, df)
      /\ \A j, k \in DOMAIN L : j < k => EventsKept(L, j, k)
  BY DEF LogInv
<1>2. /\ M \in Seq(EventSet) /\ M[n] = e /\ DOMAIN M = DOMAIN L \cup {n}
      /\ \A k \in DOMAIN L : M[k] = L[k] /\ k \in Nat /\ k < n
      /\ n \in Nat
  BY <1>1
<1>3. EventKept(M, n, ds, st, df)
  OBVIOUS
<1> HIDE DEF M, n
<1>4. \A k \in DOMAIN L : EventKept(M, k, ds, st, df)
  BY <1>1, <1>2 DEF EventKept
<1>5. ASSUME NEW j \in DOMAIN M, NEW k \in DOMAIN M, j < k PROVE EventsKept(M, j, k)
  <2>1. CASE k \in DOMAIN L
    <3>1. j \in DOMAIN L
      BY <1>2, <1>5, <2>1
    <3> QED  BY <1>1, <1>2, <1>5, <2>1, <3>1 DEF EventsKept
  <2>2. CASE k = n
    <3>1. j \in DOMAIN L
      BY <1>2, <1>5, <2>2
    <3> QED  BY <1>2, <2>2, <3>1 DEF EventsKept
  <2> QED  BY <1>2, <2>1, <2>2
<1>6. LogInv(M, ds, st, df)
  BY <1>2, <1>3, <1>4, <1>5 DEF LogInv
<1> QED  BY <1>6 DEF M

\* Nothing before the last event is a last word, and the log is kept without it.
LEMMA LogPrefix ==
    ASSUME NEW L \in Seq(EventSet), NEW e, NEW ds, NEW st, NEW df, LogInv(Append(L, e), ds, st, df)
    PROVE  LogInv(L, ds, st, df) /\ \A k \in DOMAIN L : L[k].kind # "complete"
<1> DEFINE M == Append(L, e)
<1>1. /\ DOMAIN L \subseteq DOMAIN M /\ \A k \in DOMAIN L : M[k] = L[k] /\ k # Len(M)
  OBVIOUS
<1>2. /\ \A k \in DOMAIN M : EventKept(M, k, ds, st, df)
      /\ \A j, k \in DOMAIN M : j < k => EventsKept(M, j, k)
  BY DEF LogInv
<1> HIDE DEF M
<1>3. \A k \in DOMAIN L : L[k].kind # "complete"
  BY <1>1, <1>2 DEF EventKept
<1>4. \A k \in DOMAIN L : EventKept(L, k, ds, st, df)
  BY <1>1, <1>2, <1>3 DEF EventKept
<1>5. \A j, k \in DOMAIN L : j < k => EventsKept(L, j, k)
  BY <1>1, <1>2 DEF EventsKept
<1> QED  BY <1>3, <1>4, <1>5 DEF LogInv

\* Until the call is cancelled every event in the channel has its number.
LEMMA NextSeqIs ==
    ASSUME sent \in Seq(EventSet), \A k \in DOMAIN sent : sent[k].seq # 0
    PROVE  NextSeq = Len(sent) + 1 /\ NextSeq \in Nat
<1>1. ASSUME NEW k \in DOMAIN sent PROVE sent[k].seq > 0
  <2>1. sent[k] \in EventSet
    OBVIOUS
  <2> QED  BY <2>1 DEF EventSet
<1>2. {k \in DOMAIN sent : sent[k].seq > 0} = 1..Len(sent) /\ Len(sent) \in Nat
  BY <1>1
<1>3. Cardinality(1..Len(sent)) = Len(sent)
  <2>1. \A n \in Nat : Cardinality(1..n) = n
    <3> TAKE n \in Nat
    <3>1. Cardinality(1..n) = IF 1 > n THEN 0 ELSE n - 1 + 1
      BY FS_Interval
    <3> QED  BY <3>1
  <2>2. Len(sent) \in Nat
    BY <1>2
  <2> QED  BY <2>1, <2>2, Zenon
<1>4. NextSeq = Cardinality(1..Len(sent)) + 1
  BY <1>2, Zenon DEF NextSeq
<1>5. \A n \in Nat : n + 1 \in Nat
  OBVIOUS
<1> QED  BY <1>2, <1>3, <1>4, <1>5, Zenon

----------------------------------------------------------------------------
(* The invariant of the next state, from what it says of the next values while *)
(* the plan stays.                                                             *)

LEMMA PlanKept ==
    ASSUME Plan, UNCHANGED plan
    PROVE  Plan'
BY DEF Plan, plan

LEMMA WorkPrimed ==
    ASSUME UNCHANGED plan, WorkInv(docs', state', deferred', snapshot')
    PROVE  WorkInv(docs, state, deferred, snapshot)'
<1>1. graph' = graph /\ stageOf' = stageOf
  BY DEF plan
<1>2. \A d \in Docs : DocKept(docs[d], state)'
  <2>1. \A d \in Docs : DocKept(docs'[d], state')
    BY DEF WorkInv
  <2> QED  BY <1>1, <2>1, ZenonT(60) DEF DocKept, DoneIn, Entry, EarlierViewsDone, CompleteViews, Before
<1>3. RunningKept(docs, state, snapshot)'
  <2>1. RunningKept(docs', state', snapshot')
    BY DEF WorkInv
  <2> QED  BY <1>1, <2>1 DEF RunningKept, DoneIn, EarlierViewsDone, Before
<1>4. DeferredKept(docs, state, deferred)'
  <2>1. DeferredKept(docs', state', deferred')
    BY DEF WorkInv
  <2> QED  BY <1>1, <2>1 DEF DeferredKept, Starved, DoneIn
<1>5. OrderKept(docs, state)'
  <2>1. OrderKept(docs', state')
    BY DEF WorkInv
  <2> QED  BY <1>1, <2>1 DEF OrderKept, DoneIn
<1> QED  BY <1>1, <1>2, <1>3, <1>4, <1>5 DEF WorkInv

LEMMA LogPrimed ==
    ASSUME UNCHANGED plan, LogInv(Log', docs', state', deferred')
    PROVE  LogInv(Log, docs, state, deferred)'
<1> DEFINE L == Log'
<1>1. graph' = graph
  BY DEF plan
<1>2. EventSet' = EventSet
  BY <1>1 DEF EventSet
<1>3. \A k \in DOMAIN L : EventKept(Log, k, docs, state, deferred)'
  <2>1. \A k \in DOMAIN L : EventKept(L, k, docs', state', deferred')
    BY DEF LogInv
  <2> QED  BY <1>1, <2>1 DEF EventKept, WillBeSkipped, Covered, ToldIn, SkippedIn
<1>4. \A j, k \in DOMAIN L : j < k => EventsKept(Log, j, k)'
  BY DEF LogInv, EventsKept
<1> QED  BY <1>2, <1>3, <1>4 DEF LogInv
----------------------------------------------------------------------------
(* The steps *)

\* A step that leaves the task's work and log alone, and may cancel the call.
LEMMA QuietKeeps ==
    ASSUME IInv, UNCHANGED <<plan, at, after, event, work, sent>>,
           cancel' \in BOOLEAN, cancel => cancel'
    PROVE  IInv'
<1>1. /\ docs' = docs /\ state' = state /\ deferred' = deferred /\ snapshot' = snapshot
      /\ graph' = graph /\ at' = at /\ after' = after /\ event' = event /\ sent' = sent
      /\ UNCHANGED plan
  BY DEF work, plan
<1>2. Log' = Log
  BY <1>1 DEF Log
<1>3. Plan'
  BY <1>1, PlanKept DEF IInv
<1>4. WorkInv(docs, state, deferred, snapshot)'
  BY <1>1, WorkPrimed DEF IInv
<1>5. LogInv(Log, docs, state, deferred)'
  BY <1>1, <1>2, LogPrimed DEF IInv
<1>6. PhaseInv'
  <2>1. PhaseInv
    BY DEF IInv
  <2>2. EventSet' = EventSet
    BY <1>1 DEF EventSet
  <2>3. ~cancel' => Uncancelled'
    <3>1. ~cancel' => Uncancelled
      BY <2>1 DEF PhaseInv
    <3> QED  BY <1>1, <1>2, <3>1 DEF Uncancelled, Covered, ToldIn, SkippedIn
  <2> QED  BY <1>1, <2>1, <2>2, <2>3 DEF PhaseInv
<1> QED  BY <1>3, <1>4, <1>5, <1>6 DEF IInv

\* What the invariant asks of the next state when the work stays.
LEMMA WorkStays ==
    ASSUME IInv, UNCHANGED <<plan, work>>,
           LogInv(Log', docs, state, deferred), PhaseInv'
    PROVE  IInv'
<1>1. /\ docs' = docs /\ state' = state /\ deferred' = deferred /\ snapshot' = snapshot
      /\ UNCHANGED plan
  BY DEF work
<1>2. Plan' /\ WorkInv(docs, state, deferred, snapshot)'
  BY <1>1, PlanKept, WorkPrimed DEF IInv
<1>3. LogInv(Log, docs, state, deferred)'
  BY <1>1, LogPrimed
<1> QED  BY <1>2, <1>3 DEF IInv

\* What the channel holds before the last word, with no event under way.
LEMMA NotOver ==
    ASSUME IInv, at \notin {"sending", "done"}
    PROVE  /\ Log = sent /\ sent \in Seq(EventSet)
           /\ LogInv(sent, docs, state, deferred)
           /\ \A k \in DOMAIN sent : sent[k].kind # "complete" /\ sent[k] \in EventSet
<1>1. Log = sent /\ sent \in Seq(EventSet) /\ \A k \in DOMAIN sent : sent[k].kind # "complete"
  BY DEF IInv, PhaseInv, Log
<1> QED  BY <1>1 DEF IInv

\* An error is sent: it is the log's last event.
LEMMA ErrorSent ==
    ASSUME IInv, UNCHANGED <<graph, sent>>, at \in Working \cup {"start"},
           NEW kind \in {"failure", "deadline"}, NEW then \in {"cancelling", "done"},
           NEW ds, NEW st, NEW df, LogInv(sent, ds, st, df),
           Sending(Err(kind), then), cancel' \in BOOLEAN, cancel => cancel'
    PROVE  LogInv(Log', ds, st, df) /\ PhaseInv'
<1> DEFINE e == Err(kind)
<1>1. e \in EventSet /\ e.seq = 0 /\ e.step = 0 /\ e.skips = {} /\ e.kind = kind
  BY DEF Err, EventSet, LastWords
<1>2. at' = "sending" /\ event' = e /\ after' = then /\ Log' = Append(sent, e)
  BY DEF Sending, Log
<1> HIDE DEF e
<1>3. sent \in Seq(EventSet) /\ \A k \in DOMAIN sent : sent[k].kind # "complete"
  BY NotOver DEF Working
<1>4. Append(sent, e)[Len(sent) + 1] = e /\ Len(sent) \in Nat
  BY <1>1, <1>3
<1>5. EventKept(Append(sent, e), Len(sent) + 1, ds, st, df)
  BY <1>1, <1>4 DEF EventKept
<1>6. LogInv(Append(sent, e), ds, st, df)
  BY <1>1, <1>3, <1>5, LogAppend
<1>7. ~cancel' => \A k \in DOMAIN sent : sent[k].seq # 0
  BY DEF IInv, PhaseInv, Uncancelled, Working
<1>8. EventSet' = EventSet
  BY DEF EventSet
<1>9. ~cancel' => Uncancelled'
  BY <1>2, <1>7 DEF Uncancelled, Working
<1>10. PhaseInv'
  BY <1>1, <1>2, <1>3, <1>8, <1>9 DEF PhaseInv, LastWords
<1> QED  BY <1>2, <1>6, <1>10

\* The task starts: nothing is sent, nothing is done.
LEMMA StartKeeps ==
    ASSUME IInv, Start
    PROVE  IInv'
<1>1. /\ at = "start" /\ UNCHANGED <<plan, work, channel>>
      /\ cancel' \in BOOLEAN /\ (cancel => cancel')
  BY DEF Start, IsExpired, IInv, PhaseInv
<1>2. graph' = graph /\ sent' = sent /\ UNCHANGED <<plan, work>>
  BY <1>1 DEF plan, channel
<1>3. LogInv(sent, docs, state, deferred)
  BY <1>1, NotOver
<1>4. sent = <<>> /\ deferred = {} /\ \A i \in Steps(graph) : state[i] = "unstarted"
  BY <1>1 DEF IInv, PhaseInv
<1>5. ASSUME NEW kind \in {"failure", "deadline"}, Sending(Err(kind), "done") PROVE IInv'
  <2>1. at \in Working \cup {"start"} /\ "done" \in {"cancelling", "done"} /\ UNCHANGED <<graph, sent>>
    BY <1>1, <1>2
  <2>2. LogInv(Log', docs, state, deferred) /\ PhaseInv'
    BY <1>1, <1>3, <1>5, <2>1, ErrorSent, Zenon
  <2> QED  BY <1>2, <2>2, WorkStays
<1>6. ASSUME Sending(Ok(1, "started"), "spawning") PROVE IInv'
  <2> DEFINE e == Ok(1, "started")
  <2>1. e \in EventSet /\ e.seq = 1 /\ e.step = 0 /\ e.skips = {} /\ e.kind = "started"
    BY DEF Ok, EventSet
  <2>2. at' = "sending" /\ event' = e /\ after' = "spawning" /\ Log' = Append(sent, e)
    BY <1>2, <1>6 DEF Sending, Log
  <2> HIDE DEF e
  <2>3. sent \in Seq(EventSet) /\ Len(sent) = 0 /\ DOMAIN sent = {}
    BY <1>4
  <2>4. Append(sent, e)[1] = e
    BY <1>4, <2>1
  <2>5. EventKept(Append(sent, e), Len(sent) + 1, docs, state, deferred)
    BY <2>1, <2>3, <2>4 DEF EventKept
  <2>6. LogInv(Append(sent, e), docs, state, deferred)
    BY <1>3, <2>1, <2>3, <2>5, LogAppend
  <2>7. EventSet' = EventSet /\ Steps(graph)' = Steps(graph) /\ state' = state /\ deferred' = deferred
    BY <1>2 DEF EventSet, work
  <2>8. Uncancelled'
    BY <1>2, <1>4, <2>2, <2>3, <2>7 DEF Uncancelled, Working
  <2>9. PhaseInv'
    <3>1. event' \in EventSet' /\ after' = "spawning" /\ event'.kind = "started" /\ at' = "sending"
      BY <2>1, <2>2, <2>7
    <3>2. sent' \in Seq(EventSet)' /\ DOMAIN sent' = {}
      BY <1>2, <2>3, <2>7
    <3> QED  BY <1>1, <2>8, <3>1, <3>2 DEF PhaseInv, LastWords
  <2> QED  BY <1>2, <2>2, <2>6, <2>9, WorkStays
<1> QED  BY <1>5, <1>6 DEF Start

\* The event is in the channel.
LEMMA SendKeeps ==
    ASSUME IInv, Send
    PROVE  IInv'
<1>1. /\ at = "sending" /\ sent' = Append(sent, event) /\ at' = after /\ UNCHANGED <<plan, work, cancel>>
  BY DEF Send
<1>2. /\ sent \in Seq(EventSet) /\ event \in EventSet /\ after \in {"spawning", "cancelling", "done"}
      /\ after = "spawning" <=> event.kind \notin LastWords
      /\ event.kind = "complete" => after = "done"
      /\ Log = Append(sent, event)
  BY <1>1 DEF IInv, PhaseInv, Log
<1>3. Log' = Append(sent, event)
  BY <1>1, <1>2 DEF Log
<1>4. LogInv(Append(sent, event), docs, state, deferred)
  BY <1>2 DEF IInv
<1>5. \A k \in DOMAIN sent : sent[k].kind # "complete"
  BY <1>2, <1>4, LogPrefix
<1>6. /\ DOMAIN sent' = DOMAIN sent \cup {Len(sent) + 1} /\ sent' \in Seq(EventSet) /\ sent' # <<>>
      /\ \A k \in DOMAIN sent : sent'[k] = sent[k]
      /\ sent'[Len(sent) + 1] = event
  BY <1>1, <1>2
<1>7. \A k \in DOMAIN sent' : sent'[k].kind = "complete" => at' = "done"
  BY <1>1, <1>2, <1>5, <1>6
<1>8. graph' = graph /\ state' = state /\ deferred' = deferred /\ EventSet' = EventSet
  BY <1>1 DEF plan, work, EventSet
<1>9. ASSUME ~cancel', at' = "spawning" PROVE Uncancelled'
  <2>1. Uncancelled
    BY <1>1, <1>9 DEF IInv, PhaseInv
  <2>2. event.seq # 0
    <3>1. EventKept(sent', Len(sent) + 1, docs, state, deferred)
      BY <1>1, <1>4, <1>6 DEF LogInv
    <3>2. sent'[Len(sent) + 1].kind \notin LastWords
      BY <1>1, <1>2, <1>6, <1>9
    <3> QED  BY <1>6, <3>1, <3>2 DEF EventKept, LastWords
  <2>3. \A k \in DOMAIN sent' : sent'[k].seq # 0
    BY <1>1, <1>6, <2>1, <2>2 DEF Uncancelled
  <2>4. \A i \in Steps(graph) : state[i] = "done" \/ i \in deferred => Covered(Log, i)
    BY <1>1, <1>9, <2>1 DEF Uncancelled
  <2>5. \A i \in Steps(graph) : (Covered(Log, i))' <=> Covered(Log, i)
    BY <1>2, <1>3 DEF Covered, ToldIn, SkippedIn
  <2> QED  BY <1>6, <1>8, <1>9, <2>3, <2>4, <2>5 DEF Uncancelled
<1>10. ~cancel' => Uncancelled'
  <2>1. at' # "spawning" => Uncancelled'
    BY <1>1, <1>2 DEF Uncancelled, Working
  <2> QED  BY <1>9, <2>1
<1>11. PhaseInv'
  <2>1. cancel' \in BOOLEAN
    BY <1>1 DEF IInv, PhaseInv
  <2> QED  BY <1>1, <1>2, <1>6, <1>7, <1>8, <1>10, <2>1 DEF PhaseInv, Working
<1> QED  BY <1>1, <1>3, <1>4, <1>11, WorkStays

\* The event is lost, and the call cancelled unless it was the last.
LEMMA SendRefusedKeeps ==
    ASSUME IInv, SendRefused
    PROVE  IInv'
<1>1. /\ at = "sending" /\ at' = (IF event.kind = "started" THEN "done" ELSE after)
      /\ cancel' = (cancel \/ event.kind \notin LastWords) /\ UNCHANGED <<plan, work, channel>>
  BY DEF SendRefused
<1>2. /\ sent \in Seq(EventSet) /\ after \in {"spawning", "cancelling", "done"}
      /\ after = "spawning" <=> event.kind \notin LastWords
      /\ Log = Append(sent, event)
  BY <1>1 DEF IInv, PhaseInv, Log
<1>3. sent' = sent /\ Log' = sent /\ graph' = graph /\ UNCHANGED <<plan, work>>
  BY <1>1, <1>2 DEF Log, channel, plan
<1>4. LogInv(sent, docs, state, deferred) /\ \A k \in DOMAIN sent : sent[k].kind # "complete"
  <2>1. LogInv(Append(sent, event), docs, state, deferred)
    BY <1>2 DEF IInv
  <2> QED  BY <1>2, <2>1, LogPrefix
<1>5. PhaseInv'
  <2>1. EventSet' = EventSet
    BY <1>3 DEF EventSet
  <2>2. ~cancel' => Uncancelled'
    <3>1. ~cancel' => at' \in {"cancelling", "done"}
      BY <1>1, <1>2 DEF LastWords
    <3> QED  BY <3>1 DEF Uncancelled, Working
  <2>3. cancel' \in BOOLEAN
    BY <1>1 DEF IInv, PhaseInv
  <2> QED  BY <1>1, <1>2, <1>3, <1>4, <2>1, <2>2, <2>3 DEF PhaseInv, Working
<1> QED  BY <1>3, <1>4, <1>5, WorkStays

\* An export has failed and its error is sent: the call is cancelled.
LEMMA StepGivesUpKeeps ==
    ASSUME IInv, StepGivesUp
    PROVE  IInv'
<1>1. /\ at = "cancelling" /\ cancel' = TRUE /\ at' = "spawning" /\ UNCHANGED <<plan, work, channel>>
      /\ sent' = sent /\ graph' = graph
  BY DEF StepGivesUp, channel, plan
<1>2. /\ sent \in Seq(EventSet) /\ LogInv(sent, docs, state, deferred)
      /\ \A k \in DOMAIN sent : sent[k].kind # "complete"
  BY <1>1, NotOver
<1>3. Log' = sent
  BY <1>1 DEF Log
<1>4. PhaseInv'
  <2>1. EventSet' = EventSet
    BY <1>1 DEF EventSet
  <2> QED  BY <1>1, <1>2, <2>1 DEF PhaseInv, Working
<1> QED  BY <1>1, <1>2, <1>3, <1>4, WorkStays

\* Steps are started, or there are none left to.
LEMMA SpawnReadyTo ==
    ASSUME IInv, SpawnReady
    PROVE  IInv'
<1> DEFINE chosen == IF cancel THEN {} ELSE ToSpawn
<1>1. /\ at = "spawning"
      /\ state' = [i \in DOMAIN state |-> IF i \in chosen THEN "running" ELSE state[i]]
      /\ snapshot' = [i \in DOMAIN state |-> IF i \in chosen THEN docs ELSE snapshot[i]]
      /\ at' = IF chosen \cup Running = {} THEN "joined" ELSE "receiving"
      /\ UNCHANGED <<plan, docs, deferred, channel, cancel>>
  BY DEF SpawnReady
<1>2. chosen \subseteq ToSpawn /\ (~cancel => chosen = ToSpawn)
  OBVIOUS
<1> HIDE DEF chosen
<1>3. Plan /\ WorkInv(docs, state, deferred, snapshot) /\ PhaseInv
  BY DEF IInv
<1>4. WorkInv(docs, state', deferred, snapshot') /\ DoneIn(state') = DoneIn(state)
  BY <1>1, <1>2, <1>3, SpawnKeeps
<1>5. /\ docs' = docs /\ deferred' = deferred /\ sent' = sent /\ cancel' = cancel /\ graph' = graph
      /\ UNCHANGED plan
  BY <1>1 DEF plan, channel
<1>6. \A i \in Steps(graph) : state'[i] = "done" <=> state[i] = "done"
  BY <1>4 DEF DoneIn
<1>7. Log = sent /\ Log' = sent /\ at' \in {"joined", "receiving"}
  BY <1>1, <1>5 DEF Log
<1>8. LogInv(sent, docs, state', deferred)
  <2>1. LogInv(sent, docs, state, deferred)
    BY <1>7 DEF IInv
  <2>2. \A i \in Steps(graph) :
           WillBeSkipped(i, docs, state, deferred) => WillBeSkipped(i, docs, state', deferred)
    BY <1>6 DEF WillBeSkipped
  <2> QED  BY <1>6, <2>1, <2>2, LogKeeps
<1>9. at' = "joined" /\ ~cancel => \A i \in Steps(graph) : state[i] = "done"
  BY <1>1, <1>2, <1>3, SomeStepStarts
<1>10. Uncancelled' \/ cancel
  <2> SUFFICES ASSUME ~cancel PROVE Uncancelled'
    OBVIOUS
  <2>1. Uncancelled
    BY <1>3 DEF PhaseInv
  <2>2. /\ \A k \in DOMAIN sent : sent[k].seq # 0
        /\ sent # <<>>
        /\ \A i \in Steps(graph) : state[i] = "done" \/ i \in deferred => Covered(sent, i)
    BY <1>1, <1>7, <2>1 DEF Uncancelled, Working
  <2>3. \A i \in Steps(graph) : (Covered(Log, i))' <=> Covered(sent, i)
    BY <1>7 DEF Covered, ToldIn, SkippedIn
  <2> QED  BY <1>5, <1>6, <1>7, <1>9, <2>2, <2>3 DEF Uncancelled
<1>11. PhaseInv'
  <2>1. EventSet' = EventSet
    BY <1>5 DEF EventSet
  <2> QED  BY <1>1, <1>3, <1>5, <1>7, <1>10, <2>1 DEF PhaseInv, Working
<1>12. Plan' /\ WorkInv(docs, state, deferred, snapshot)'
  BY <1>3, <1>4, <1>5, PlanKept, WorkPrimed
<1>13. LogInv(Log, docs, state, deferred)'
  BY <1>5, <1>7, <1>8, LogPrimed
<1> QED  BY <1>11, <1>12, <1>13 DEF IInv

\* The documents, the states and the log once step i is settled.
LEMMA SettledKeeps ==
    ASSUME IInv, NEW i \in Steps(graph), state[i] = "running", at = "receiving",
           NEW now, now = Settle(i).now
    PROVE  /\ WorkInv(now.docs, now.state, now.deferred, [snapshot EXCEPT ![i] = NoLayers])
           /\ LogInv(sent, now.docs, now.state, now.deferred)
           /\ now.state[i] = "done" /\ now.skips \in SUBSET Steps(graph)
           /\ \A j \in now.skips : /\ WillBeSkipped(j, now.docs, now.state, now.deferred)
                                   /\ ~WillBeSkipped(j, docs, state, deferred)
           /\ \A j \in Steps(graph) : now.state[j] = "done" \/ j \in now.deferred =>
                 state[j] = "done" \/ j \in deferred \/ j = i \/ j \in now.skips
<1> DEFINE base == Stored(i)
<1>1. Plan /\ WorkInv(docs, state, deferred, snapshot)
  BY DEF IInv
<1>2. /\ now \in Nows /\ Cascaded(base, now)
      /\ DoneIn(base.state) = DoneIn(state) \cup {i}
      /\ \A d \in Docs : \A p \in DoneIn(state) : base.docs[d][p] = docs[d][p]
  BY <1>1, SettleKeeps
<1>3. base.deferred = deferred /\ base.state[i] = "done"
  <2>1. i \in DoneIn(base.state)
    BY <1>2
  <2> QED  BY <2>1 DEF DoneIn, Stored
<1> HIDE DEF base
<1>4. /\ WorkInv(now.docs, now.state, now.deferred, snapshot)
      /\ deferred \subseteq now.deferred
      /\ \A j \in Steps(graph) : base.state[j] # "unstarted" => now.state[j] = base.state[j]
      /\ \A d \in Docs : \A p \in DoneIn(base.state) : now.docs[d][p] = base.docs[d][p]
      /\ \A j \in now.skips :
            /\ j \notin deferred /\ j \notin DoneIn(base.state)
            /\ \/ j \in now.deferred
               \/ j \in DoneIn(now.state) /\ \A d \in Docs : now.docs[d][j].status = "skipped"
      /\ \A j \in DoneIn(now.state) \cup now.deferred :
            j \in DoneIn(base.state) \/ j \in deferred \/ j \in now.skips
  BY <1>2, <1>3 DEF Cascaded
<1>5. now.state[i] = "done" /\ now.skips \in SUBSET Steps(graph)
  BY <1>2, <1>3, <1>4 DEF Nows
<1>6. WorkInv(now.docs, now.state, now.deferred, [snapshot EXCEPT ![i] = NoLayers])
  <2> DEFINE sn == [snapshot EXCEPT ![i] = NoLayers]
  <2>1. \A j \in Steps(graph) : now.state[j] = "running" => sn[j] = snapshot[j]
    BY <1>5
  <2> HIDE DEF sn
  <2>2. RunningKept(now.docs, now.state, sn)
    BY <1>4, <2>1 DEF WorkInv, RunningKept
  <2>3. WorkInv(now.docs, now.state, now.deferred, sn)
    BY <1>4, <2>2 DEF WorkInv
  <2> QED  BY <2>3 DEF sn
<1>7. \A j \in Steps(graph) : state[j] = "done" => now.state[j] = "done"
  BY <1>2, <1>4 DEF DoneIn
<1>8. ASSUME NEW j \in Steps(graph), WillBeSkipped(j, docs, state, deferred)
      PROVE  WillBeSkipped(j, now.docs, now.state, now.deferred)
  <2>1. CASE j \in deferred
    BY <1>4, <2>1 DEF WillBeSkipped
  <2>2. CASE state[j] = "done" /\ \A d \in Docs : docs[d][j].status = "skipped"
    <3>1. j \in DoneIn(state) /\ j \in DoneIn(base.state)
      BY <1>2, <2>2 DEF DoneIn
    <3>2. \A d \in Docs : now.docs[d][j] = docs[d][j]
      BY <1>2, <1>4, <3>1
    <3> QED  BY <1>7, <2>2, <3>2 DEF WillBeSkipped
  <2> QED  BY <1>8, <2>1, <2>2 DEF WillBeSkipped
<1>9. LogInv(sent, now.docs, now.state, now.deferred)
  <2>1. LogInv(sent, docs, state, deferred)
    BY NotOver
  <2> QED  BY <1>7, <1>8, <2>1, LogKeeps
<1>10. ASSUME NEW j \in now.skips
       PROVE  /\ WillBeSkipped(j, now.docs, now.state, now.deferred)
              /\ ~WillBeSkipped(j, docs, state, deferred)
  <2>1. j \in Steps(graph) /\ j \notin DoneIn(state)
    BY <1>2, <1>4, <1>5
  <2> QED  BY <1>4, <2>1 DEF WillBeSkipped, DoneIn
<1>11. ASSUME NEW j \in Steps(graph), now.state[j] = "done" \/ j \in now.deferred
       PROVE  state[j] = "done" \/ j \in deferred \/ j = i \/ j \in now.skips
  <2>1. j \in DoneIn(now.state) \cup now.deferred
    BY <1>11 DEF DoneIn
  <2>2. j \in DoneIn(state) => state[j] = "done"
    BY DEF DoneIn
  <2> QED  BY <1>2, <1>4, <2>1, <2>2
<1> QED  BY <1>5, <1>6, <1>9, <1>10, <1>11

\* An output is stored, with what it takes along, and told of.
LEMMA ReceiveKeeps ==
    ASSUME IInv, NEW i \in DOMAIN state, Receive(i)
    PROVE  IInv'
<1> DEFINE now == Settle(i).now
<1>1. /\ at = "receiving" /\ state[i] = "running"
      /\ docs' = now.docs /\ state' = now.state /\ deferred' = now.deferred
      /\ snapshot' = [snapshot EXCEPT ![i] = NoLayers]
      /\ UNCHANGED <<plan, channel, cancel>>
  BY DEF Receive
<1>2. i \in Steps(graph) /\ Steps(graph) \subseteq Nat \ {0}
  BY PlanIs DEF IInv, WorkInv
<1>3. /\ WorkInv(docs', state', deferred', snapshot')
      /\ LogInv(sent, docs', state', deferred')
      /\ state'[i] = "done" /\ now.skips \in SUBSET Steps(graph)
      /\ \A j \in now.skips : /\ WillBeSkipped(j, docs', state', deferred')
                              /\ ~WillBeSkipped(j, docs, state, deferred)
      /\ \A j \in Steps(graph) : state'[j] = "done" \/ j \in deferred' =>
            state[j] = "done" \/ j \in deferred \/ j = i \/ j \in now.skips
  BY <1>1, <1>2, SettledKeeps
<1>4. /\ Log = sent /\ sent \in Seq(EventSet) /\ LogInv(sent, docs, state, deferred)
      /\ \A k \in DOMAIN sent : sent[k].kind # "complete" /\ sent[k] \in EventSet
  BY <1>1, NotOver
<1>5. sent' = sent /\ graph' = graph /\ cancel' = cancel /\ UNCHANGED plan /\ EventSet' = EventSet
  BY <1>1 DEF channel, plan, EventSet
<1>6. PhaseInv
  BY DEF IInv
<1>7. \/ cancel /\ at' = "spawning"
      \/ ~cancel /\ Sending(Err("failure"), "cancelling")
      \/ ~cancel /\ \E kind \in {"step_failed", "layers"} :
                       Sending(StepEvent(NextSeq, kind, i, now.skips), "spawning")
  BY DEF Receive
<1> HIDE DEF now
<1>8. ASSUME LogInv(Log', docs', state', deferred'), PhaseInv' PROVE IInv'
  BY <1>3, <1>5, <1>8, PlanKept, WorkPrimed, LogPrimed DEF IInv
<1>9. ASSUME cancel, at' = "spawning" PROVE IInv'
  <2>1. Log' = sent
    BY <1>5, <1>9 DEF Log
  <2>2. PhaseInv'
    BY <1>4, <1>5, <1>6, <1>9 DEF PhaseInv, Working
  <2> QED  BY <1>3, <1>8, <2>1, <2>2
<1>10. ASSUME Sending(Err("failure"), "cancelling") PROVE IInv'
  <2>1. at \in Working \cup {"start"} /\ cancel' \in BOOLEAN /\ (cancel => cancel')
    BY <1>1, <1>5, <1>6 DEF Working, PhaseInv
  <2>2. LogInv(Log', docs', state', deferred') /\ PhaseInv'
    BY <1>3, <1>5, <1>10, <2>1, ErrorSent
  <2> QED  BY <1>8, <2>2
<1>11. ASSUME ~cancel, NEW kind \in {"step_failed", "layers"},
              Sending(StepEvent(NextSeq, kind, i, now.skips), "spawning")
       PROVE  IInv'
  <2> DEFINE e == StepEvent(NextSeq, kind, i, now.skips)
             n == Len(sent) + 1
  <2>1. /\ \A k \in DOMAIN sent : sent[k].seq # 0
        /\ sent # <<>>
        /\ \A j \in Steps(graph) : state[j] = "done" \/ j \in deferred => Covered(sent, j)
    BY <1>1, <1>4, <1>6, <1>11 DEF PhaseInv, Uncancelled, Working
  <2>2. NextSeq = n /\ NextSeq \in Nat
    BY <1>4, <2>1, NextSeqIs
  <2>3. e \in EventSet /\ e.seq = n /\ e.step = i /\ e.skips = now.skips /\ e.kind = kind
    BY <1>2, <1>3, <2>2 DEF StepEvent, EventSet
  <2>4. at' = "sending" /\ event' = e /\ after' = "spawning" /\ Log' = Append(sent, e)
    BY <1>5, <1>11 DEF Sending, Log
  <2> HIDE DEF e
  <2>5. /\ Append(sent, e)[n] = e /\ n \in Nat /\ n # 0 /\ n # 1
        /\ DOMAIN Append(sent, e) = DOMAIN sent \cup {n}
        /\ \A k \in DOMAIN sent : Append(sent, e)[k] = sent[k]
    BY <1>4, <2>1, <2>3
  <2>6. EventKept(Append(sent, e), n, docs', state', deferred')
    <3>1. kind \notin {"failure", "deadline", "started", "complete"}
      BY <1>11
    <3> HIDE DEF n
    <3> QED  BY <1>3, <2>3, <2>5, <3>1 DEF EventKept
  <2>7. ASSUME NEW j \in DOMAIN sent
        PROVE  /\ sent[j].seq = 0 => e.seq = 0
               /\ sent[j].step = 0 \/ sent[j].step # e.step
               /\ sent[j].skips \cap e.skips = {}
    <3>1. EventKept(sent, j, docs, state, deferred)
      BY <1>4 DEF LogInv
    <3>2. \A x \in sent[j].skips : WillBeSkipped(x, docs, state, deferred)
      BY <3>1 DEF EventKept
    <3> QED  BY <1>1, <1>3, <2>1, <2>3, <3>1, <3>2 DEF EventKept
  <2>8. LogInv(Append(sent, e), docs', state', deferred')
    BY <1>3, <1>4, <2>3, <2>6, <2>7, LogAppend
  <2>9. Uncancelled'
    <3>1. ASSUME NEW j \in Steps(graph), state'[j] = "done" \/ j \in deferred'
          PROVE  Covered(Append(sent, e), j)
      <4>1. state[j] = "done" \/ j \in deferred \/ j = i \/ j \in now.skips
        BY <1>3, <3>1
      <4>2. CASE state[j] = "done" \/ j \in deferred
        <5>1. Covered(sent, j)
          BY <2>1, <4>2
        <5> HIDE DEF n
        <5> QED  BY <2>5, <5>1 DEF Covered, ToldIn, SkippedIn
      <4>3. CASE j = i \/ j \in now.skips
        <5> HIDE DEF n
        <5> QED  BY <2>3, <2>5, <4>3 DEF Covered, ToldIn, SkippedIn
      <4> QED  BY <4>1, <4>2, <4>3
    <3>2. \A j \in Steps(graph) : state'[j] = "done" \/ j \in deferred' => Covered(Log', j)
      BY <2>4, <3>1
    <3>3. \A j \in Steps(graph) : (Covered(Log, j))' <=> Covered(Log', j)
      BY DEF Covered, ToldIn, SkippedIn
    <3> QED  BY <1>5, <2>1, <2>4, <3>2, <3>3 DEF Uncancelled, Working
  <2>10. PhaseInv'
    <3>1. event' \in EventSet' /\ at' = "sending" /\ after' = "spawning" /\ event'.kind = kind
      BY <1>5, <2>3, <2>4
    <3>2. sent' \in Seq(EventSet)' /\ \A k \in DOMAIN sent' : sent'[k].kind # "complete"
      BY <1>4, <1>5
    <3>3. cancel' \in BOOLEAN
      BY <1>5, <1>6 DEF PhaseInv
    <3> QED  BY <1>11, <2>9, <3>1, <3>2, <3>3 DEF PhaseInv, LastWords
  <2> QED  BY <1>8, <2>4, <2>8, <2>10
<1> QED  BY <1>7, <1>9, <1>10, <1>11

\* The steps are over: the deadline is looked at.
LEMMA CheckDeadlineKeeps ==
    ASSUME IInv, CheckDeadline
    PROVE  IInv'
<1>1. /\ at = "joined" /\ UNCHANGED <<plan, work, channel>>
      /\ cancel' \in BOOLEAN /\ (cancel => cancel')
      /\ Sending(Err("deadline"), "done") \/ (at' = "in_time" /\ UNCHANGED <<after, event>>)
  BY DEF CheckDeadline, IsExpired, IInv, PhaseInv
<1>2. /\ graph' = graph /\ sent' = sent /\ UNCHANGED <<plan, work>> /\ EventSet' = EventSet
      /\ state' = state /\ deferred' = deferred
  BY <1>1 DEF plan, channel, EventSet, work
<1>3. /\ Log = sent /\ sent \in Seq(EventSet) /\ LogInv(sent, docs, state, deferred)
      /\ \A k \in DOMAIN sent : sent[k].kind # "complete"
  BY <1>1, NotOver
<1>4. CASE Sending(Err("deadline"), "done")
  <2>1. at \in Working \cup {"start"} /\ "done" \in {"cancelling", "done"} /\ UNCHANGED <<graph, sent>>
    BY <1>1, <1>2 DEF Working
  <2>2. LogInv(Log', docs, state, deferred) /\ PhaseInv'
    BY <1>1, <1>3, <1>4, <2>1, ErrorSent, Zenon
  <2> QED  BY <1>2, <2>2, WorkStays
<1>5. CASE at' = "in_time" /\ UNCHANGED <<after, event>>
  <2>1. Log' = sent
    BY <1>2, <1>5 DEF Log
  <2>2. ~cancel' => Uncancelled'
    <3> SUFFICES ASSUME ~cancel' PROVE Uncancelled'
      OBVIOUS
    <3>1. Uncancelled
      BY <1>1 DEF IInv, PhaseInv
    <3>2. /\ \A k \in DOMAIN sent : sent[k].seq # 0
          /\ sent # <<>>
          /\ \A i \in Steps(graph) : Covered(sent, i) /\ state[i] = "done"
      BY <1>1, <1>3, <3>1 DEF Uncancelled, Working
    <3>3. \A i \in Steps(graph) : (Covered(Log, i))' <=> Covered(sent, i)
      BY <2>1 DEF Covered, ToldIn, SkippedIn
    <3> QED  BY <1>2, <1>5, <3>2, <3>3 DEF Uncancelled, Working
  <2>3. PhaseInv'
    BY <1>1, <1>2, <1>3, <1>5, <2>2 DEF PhaseInv, Working
  <2> QED  BY <1>2, <1>3, <2>1, <2>3, WorkStays
<1> QED  BY <1>1, <1>4, <1>5

\* Then the flag: what was not cancelled is complete.
LEMMA CheckCancelKeeps ==
    ASSUME IInv, CheckCancel
    PROVE  IInv'
<1>1. /\ at = "in_time" /\ UNCHANGED <<plan, work, channel, cancel>>
      /\ \/ cancel /\ at' = "done"
         \/ ~cancel /\ Sending(Ok(NextSeq, "complete"), "done")
         \/ Sending(Err("failure"), "done")
  BY DEF CheckCancel
<1>2. /\ graph' = graph /\ sent' = sent /\ UNCHANGED <<plan, work>> /\ EventSet' = EventSet
      /\ state' = state /\ deferred' = deferred /\ cancel' = cancel /\ cancel \in BOOLEAN
  BY <1>1 DEF plan, channel, EventSet, work, IInv, PhaseInv
<1>3. /\ Log = sent /\ sent \in Seq(EventSet) /\ LogInv(sent, docs, state, deferred)
      /\ \A k \in DOMAIN sent : sent[k].kind # "complete"
  BY <1>1, NotOver
<1>4. CASE cancel /\ at' = "done"
  <2>1. Log' = sent
    BY <1>2, <1>4 DEF Log
  <2>2. PhaseInv'
    BY <1>1, <1>2, <1>3, <1>4 DEF PhaseInv
  <2> QED  BY <1>2, <1>3, <2>1, <2>2, WorkStays
<1>5. CASE Sending(Err("failure"), "done")
  <2>1. at \in Working \cup {"start"} /\ UNCHANGED <<graph, sent>>
    BY <1>1, <1>2 DEF Working
  <2>2. "failure" \in {"failure", "deadline"} /\ "done" \in {"cancelling", "done"}
    OBVIOUS
  <2>3. cancel' \in BOOLEAN /\ (cancel => cancel')
    BY <1>2
  <2>4. LogInv(Log', docs, state, deferred) /\ PhaseInv'
    BY <1>3, <1>5, <2>1, <2>2, <2>3, ErrorSent, Zenon
  <2> QED  BY <1>2, <2>4, WorkStays
<1>6. CASE ~cancel /\ Sending(Ok(NextSeq, "complete"), "done")
  <2> DEFINE e == Ok(NextSeq, "complete")
             n == Len(sent) + 1
  <2>1. /\ \A k \in DOMAIN sent : sent[k].seq # 0
        /\ sent # <<>>
        /\ \A i \in Steps(graph) : state[i] = "done" /\ Covered(sent, i)
    BY <1>1, <1>3, <1>6 DEF IInv, PhaseInv, Uncancelled, Working
  <2>2. NextSeq = n /\ NextSeq \in Nat
    BY <1>3, <2>1, NextSeqIs
  <2>3. e \in EventSet /\ e.seq = n /\ e.step = 0 /\ e.skips = {} /\ e.kind = "complete"
    BY <2>2 DEF Ok, EventSet, LastWords
  <2>4. at' = "sending" /\ event' = e /\ after' = "done" /\ Log' = Append(sent, e)
    BY <1>2, <1>6 DEF Sending, Log
  <2> HIDE DEF e
  <2>5. /\ Append(sent, e)[n] = e /\ n \in Nat /\ n # 0 /\ n # 1 /\ n = Len(Append(sent, e))
        /\ DOMAIN Append(sent, e) = DOMAIN sent \cup {n}
        /\ \A k \in DOMAIN sent : Append(sent, e)[k] = sent[k]
    BY <1>3, <2>1, <2>3
  <2>6. EventKept(Append(sent, e), n, docs, state, deferred)
    <3> HIDE DEF n
    <3>1. \A i \in Steps(graph) : Covered(Append(sent, e), i)
      BY <2>1, <2>5 DEF Covered, ToldIn, SkippedIn
    <3> QED  BY <2>1, <2>3, <2>5, <3>1 DEF EventKept
  <2>7. LogInv(Append(sent, e), docs, state, deferred)
    BY <1>3, <2>1, <2>3, <2>6, LogAppend
  <2>8. PhaseInv'
    <3>1. event' \in EventSet' /\ at' = "sending" /\ after' = "done" /\ event'.kind = "complete"
      BY <1>2, <2>3, <2>4
    <3>2. sent' \in Seq(EventSet)' /\ \A k \in DOMAIN sent' : sent'[k].kind # "complete" /\ sent'[k].seq # 0
      BY <1>2, <1>3, <2>1
    <3>3. Uncancelled'
      BY <3>1, <3>2 DEF Uncancelled, Working
    <3> QED  BY <1>2, <3>1, <3>2, <3>3 DEF PhaseInv, LastWords
  <2> QED  BY <1>2, <2>4, <2>7, <2>8, WorkStays
<1> QED  BY <1>1, <1>4, <1>5, <1>6

----------------------------------------------------------------------------
(* The theorems *)

\* At the start nothing is done and nothing is said.
LEMMA InitHolds == Init => IInv
<1> SUFFICES ASSUME Init PROVE IInv
  OBVIOUS
<1>1. Plan
  BY DEF Init, Plan
<1>2. /\ state \in [Steps(graph) -> {"unstarted"}] /\ deferred = {} /\ docs = [d \in Docs |-> NoLayers]
      /\ at = "start" /\ sent = <<>> /\ cancel = FALSE
  BY DEF Init
<1>3. WorkInv(docs, state, deferred, snapshot)
  <2>1. DoneIn(state) = {} /\ \A i \in Steps(graph) : state[i] = "unstarted"
    BY <1>2 DEF DoneIn
  <2>2. \A d \in Docs : docs[d] = NoLayers
    BY <1>2
  <2>3. DocKept(NoLayers, state)
    BY <2>1 DEF DocKept, NoLayers
  <2>4. \A d \in Docs : Made(graph, d, docs[d])
    BY <2>2 DEF Made, NoLayers
  <2> QED  BY <1>2, <2>1, <2>2, <2>3, <2>4 DEF WorkInv, RunningKept, DeferredKept, OrderKept
<1>4. Log = <<>>
  BY <1>2 DEF Log
<1>5. LogInv(Log, docs, state, deferred)
  BY <1>4 DEF LogInv
<1>6. PhaseInv
  <2>1. sent \in Seq(EventSet) /\ DOMAIN sent = {}
    BY <1>2
  <2>2. \A i \in Steps(graph) : state[i] = "unstarted"
    BY <1>2
  <2> QED  BY <1>2, <2>1, <2>2 DEF PhaseInv, Uncancelled, Working
<1> QED  BY <1>1, <1>3, <1>5, <1>6 DEF IInv

\* Every step keeps the invariant.
LEMMA NextKeeps == IInv /\ [Next]_vars => IInv'
<1> SUFFICES ASSUME IInv, [Next]_vars PROVE IInv'
  OBVIOUS
<1>1. CASE TimePasses \/ Timer \/ Client \/ ClientLeaves
  <2>1. UNCHANGED <<plan, at, after, event, work, sent>> /\ (cancel' = cancel \/ cancel' = TRUE)
    BY <1>1 DEF TimePasses, Timer, TimerFires, TimerCancels, Client, ClientReads, DropCancels, DropCloses,
                ClientLeaves, channel
  <2>2. cancel' \in BOOLEAN /\ (cancel => cancel')
    BY <2>1 DEF IInv, PhaseInv
  <2> QED  BY <2>1, <2>2, QuietKeeps
<1>2. CASE UNCHANGED vars
  <2>1. UNCHANGED <<plan, at, after, event, work, sent>> /\ cancel' = cancel
    BY <1>2 DEF vars, channel
  <2>2. cancel' \in BOOLEAN /\ (cancel => cancel')
    BY <2>1 DEF IInv, PhaseInv
  <2> QED  BY <2>1, <2>2, QuietKeeps
<1>3. CASE Task
  BY <1>3, StartKeeps, SendKeeps, SendRefusedKeeps, SpawnReadyTo, ReceiveKeeps, StepGivesUpKeeps,
     CheckDeadlineKeeps, CheckCancelKeeps, Zenon DEF Task
<1> QED  BY <1>1, <1>2, <1>3 DEF Next

\* The inductive invariant of a progressive run: what the documents, the steps
\* that run on a part of them and the steps put off have to do with each other, and
\* what has been said of them (progressive.rs run_progressive, mod.rs
\* run_progressive_task).
THEOREM ProgressiveInvariant == Spec => []IInv
<1> QED  BY InitHolds, NextKeeps, PTL DEF Spec

\* Whatever the graph, the order the steps finish in and the documents they fail
\* on, the documents an event carries hold every layer the provenance of one of
\* theirs names, and no view out of order (progressive.rs:69-72, spawn_ready).
THEOREM SnapshotsAlwaysClosed == Spec => []SnapshotsAreClosed
<1>1. IInv => SnapshotsAreClosed
  <2> SUFFICES ASSUME IInv PROVE SnapshotsAreClosed
    OBVIOUS
  <2>1. \A d \in Docs : DocKept(docs[d], state)
    BY DEF IInv, WorkInv
  <2> QED  BY <2>1 DEF DocKept, SnapshotsAreClosed
<1> QED  BY <1>1, ProgressiveInvariant, PTL

\* There is one such document: the first step whose entries differ would have them
\* from entries that do not.
LEMMA OneIsMade ==
    ASSUME Plan, NEW d, NEW a, NEW b, Made(graph, d, a), Made(graph, d, b),
           DOMAIN a = Steps(graph), DOMAIN b = Steps(graph)
    PROVE  \A i \in Steps(graph) : a[i] = b[i]
<1> DEFINE T == {i \in Steps(graph) : a[i] # b[i]}
<1>1. SUFFICES ASSUME T # {} PROVE FALSE
  OBVIOUS
<1>2. PICK i \in T : \A j \in T : j # i => Before(i, j)
  <2>1. T \subseteq Steps(graph)
    OBVIOUS
  <2> HIDE DEF T
  <2> QED  BY <1>1, <2>1, FirstStep
<1>3. ASSUME NEW p \in Steps(graph), Earlier(graph, p, i) PROVE a[p] = b[p]
  <2>1. Before(p, i) /\ p # i /\ ~Before(i, p)
    BY <1>3, OrderIs, EarlierIs DEF Plan
  <2> QED  BY <1>2, <2>1
<1>4. \A p \in WaitsFor(graph, i) : a[p] = b[p]
  BY <1>3, WaitsIs DEF Plan
<1>5. ViewsOn(graph, a) \cap EarlierViews(graph, i) = ViewsOn(graph, b) \cap EarlierViews(graph, i)
  BY <1>3 DEF ViewsOn, EarlierViews
<1>6. EntryOf(graph, d, i, a) = EntryOf(graph, d, i, b)
  BY <1>4, <1>5, EntryIs DEF Plan
<1>7. a[i] = EntryOf(graph, d, i, a) /\ b[i] = EntryOf(graph, d, i, b)
  BY DEF Made
<1> QED  BY <1>2, <1>6, <1>7

\* Whatever the order steps finish in, and whichever fail on which documents: if
\* the makers of optional inputs wait for their readers, a run that nobody cancelled
\* has run every step and leaves what Analyzer::run leaves (progressive.rs:74-76).
\* Without that it need not.
THEOREM OrderNeverShows == Spec => [](LoopsWait(graph) => MatchesRun)
<1>1. IInv => (LoopsWait(graph) => MatchesRun)
  <2> SUFFICES ASSUME IInv, LoopsWait(graph), Settled, ~cancel
               PROVE  /\ \A i \in DOMAIN state : state[i] = "done"
                      /\ \A d \in Docs : docs[d] = Run(graph, d)
    BY DEF MatchesRun
  <2>1. DOMAIN state = Steps(graph)
    BY DEF IInv, WorkInv
  <2>2. \A i \in Steps(graph) : state[i] = "done"
    <3>1. CASE at \in {"joined", "in_time"}
      BY <3>1 DEF IInv, PhaseInv, Uncancelled
    <3>2. CASE \E k \in DOMAIN sent : sent[k].kind = "complete"
      <4>1. at = "done"
        BY <3>2 DEF IInv, PhaseInv
      <4>2. Log = sent
        BY <4>1 DEF Log
      <4> QED  BY <3>2, <4>2 DEF IInv, LogInv, EventKept
    <3> QED  BY <3>1, <3>2 DEF Settled
  <2>3. DoneIn(state) = Steps(graph)
    BY <2>2 DEF DoneIn
  <2>4. ASSUME NEW d \in Docs PROVE docs[d] = Run(graph, d)
    <3>1. Plan /\ graph \in Jobs
      BY DEF IInv, Plan
    <3>2. docs[d] \in [Steps(graph) -> Entry] /\ Made(graph, d, docs[d])
      BY <2>3 DEF IInv, WorkInv, DocKept, OrderKept
    <3>3. Made(graph, d, Run(graph, d)) /\ DOMAIN Run(graph, d) = Steps(graph)
      BY <3>1, RunMakes
    <3>4. Run(graph, d) = [i \in Steps(graph) |-> Run(graph, d)[i]]
      <4>1. PICK T \in SUBSET Steps(graph) : Run(graph, d) \in [T -> Entries(graph)]
        BY <3>1, RunMakes DEF DocsOf
      <4> QED  BY <3>3, <4>1
    <3>5. \A i \in Steps(graph) : docs[d][i] = Run(graph, d)[i]
      BY <3>1, <3>2, <3>3, OneIsMade
    <3> QED  BY <3>2, <3>4, <3>5
  <2> QED  BY <2>1, <2>2, <2>4
<1> QED  BY <1>1, ProgressiveInvariant, PTL

\* Whatever the graph and whoever cancels, expires or fails where: the reply is
\* numbered without a gap, tells of a step at most once, and a Complete is its last
\* word, after it has accounted for every step (progressive/mod.rs:1-5, on_step).
THEOREM ReplyAlwaysWhole == Spec => []ReplyIsWhole
<1>1. IInv => ReplyIsWhole
  <2> SUFFICES ASSUME IInv PROVE ReplyIsWhole
    OBVIOUS
  <2>1. LogInv(sent, docs, state, deferred)
    <3>1. CASE at = "sending"
      <4>1. Log = Append(sent, event) /\ sent \in Seq(EventSet)
        BY <3>1 DEF IInv, PhaseInv, Log
      <4> QED  BY <4>1, LogPrefix DEF IInv
    <3>2. CASE at # "sending"
      BY <3>2 DEF IInv, Log
    <3> QED  BY <3>1, <3>2
  <2>2. /\ sent \in Seq(EventSet) /\ \A k \in DOMAIN sent : EventKept(sent, k, docs, state, deferred)
        /\ \A j, k \in DOMAIN sent : j < k => EventsKept(sent, j, k)
    BY <2>1 DEF LogInv
  <2>3. DOMAIN state = Steps(graph)
    BY DEF IInv, WorkInv
  <2>4. ASSUME NEW k \in DOMAIN sent
        PROVE  sent[k].seq \in {0, k} /\ (sent[k].seq = k => (sent[k].kind = "started" <=> k = 1))
    BY <2>2 DEF EventKept
  <2>5. ASSUME NEW k \in DOMAIN sent, sent[k].kind = "complete"
        PROVE  /\ k = Len(sent) /\ sent[k].seq = k
               /\ \A i \in DOMAIN state : Told(i) \/ Skipped(i)
               /\ \A i \in DOMAIN state : Skipped(i) => \A d \in Docs : docs[d][i].status = "skipped"
    <3>1. EventKept(sent, k, docs, state, deferred)
      BY <2>2
    <3>2. k = Len(sent) /\ sent[k].seq = k /\ \A i \in Steps(graph) : state[i] = "done" /\ Covered(sent, i)
      BY <2>5, <3>1 DEF EventKept
    <3>3. \A i \in DOMAIN state : Told(i) \/ Skipped(i)
      BY <2>3, <3>2 DEF Covered, ToldIn, SkippedIn, Told, Skipped
    <3>4. ASSUME NEW i \in DOMAIN state, Skipped(i), NEW d \in Docs PROVE docs[d][i].status = "skipped"
      <4>1. PICK j \in DOMAIN sent : i \in sent[j].skips
        BY <3>4 DEF Skipped
      <4>2. WillBeSkipped(i, docs, state, deferred)
        BY <2>2, <4>1 DEF EventKept
      <4>3. i \in deferred => docs[d][i].status = "skipped"
        BY <2>3, <3>2 DEF IInv, WorkInv, DeferredKept
      <4> QED  BY <4>2, <4>3 DEF WillBeSkipped
    <3> QED  BY <3>2, <3>3, <3>4
  <2>6. \A j, k \in DOMAIN sent : j < k =>
          /\ sent[j].seq = 0 => sent[k].seq = 0
          /\ sent[j].step = 0 \/ sent[j].step # sent[k].step
          /\ sent[j].skips \cap sent[k].skips = {}
    BY <2>2 DEF EventsKept
  <2> QED  BY <2>4, <2>5, <2>6 DEF ReplyIsWhole
<1> QED  BY <1>1, ProgressiveInvariant, PTL
----------------------------------------------------------------------------
(* The task's way to its end *)

Unstarted == {i \in DOMAIN state : state[i] = "unstarted"}

\* Each step is started and received once.
Pending == 2 * Cardinality(Unstarted) + Cardinality(Running)

\* How far the task is from its next wait for a step, or from its end.
Places == {"start", "cancelling", "spawning", "receiving", "joined", "in_time", "done"}
RankOf == [p \in Places |->
             CASE p = "start" -> 8
               [] p = "cancelling" -> 6
               [] p = "spawning" -> 5
               [] p = "receiving" -> 4
               [] p = "joined" -> 3
               [] p = "in_time" -> 2
               [] p = "done" -> 0]
Rank == IF at = "sending" THEN RankOf[after] + 1 ELSE RankOf[at]

\* What the task has left to do, at most.
Left == 4 * Pending + Rank

\* The task waits for a step only while one runs, which answers whatever becomes
\* of it.
WaitsForSomebody == at = "receiving" => Running # {}

\* Each step of the task brings its end nearer, and no step of the timer or the
\* client puts it off.
Nearer == (Task => Left' < Left) /\ (~Task => Left' = Left)

LEMMA Counted ==
    ASSUME Plan, WorkInv(docs, state, deferred, snapshot)
    PROVE  /\ state \in [Steps(graph) -> {"unstarted", "running", "done"}]
           /\ IsFiniteSet(Unstarted) /\ Cardinality(Unstarted) \in Nat
           /\ IsFiniteSet(Running) /\ Cardinality(Running) \in Nat
           /\ Pending \in Nat
<1>1. state \in [Steps(graph) -> {"unstarted", "running", "done"}] /\ IsFiniteSet(Steps(graph))
  BY PlanIs DEF WorkInv
<1>2. Unstarted \in SUBSET Steps(graph) /\ Running \in SUBSET Steps(graph)
  BY <1>1 DEF Unstarted, Running
<1>3. /\ IsFiniteSet(Unstarted) /\ Cardinality(Unstarted) \in Nat
      /\ IsFiniteSet(Running) /\ Cardinality(Running) \in Nat
  BY <1>1, <1>2, FS_Subset, FS_CardinalityType
<1> QED  BY <1>1, <1>3 DEF Pending

\* What a step costs: to start some steps, and to store one and those it takes
\* along.
LEMMA StartingSpends ==
    ASSUME Plan, WorkInv(docs, state, deferred, snapshot), NEW chosen, chosen \subseteq ToSpawn,
           state' = [i \in DOMAIN state |-> IF i \in chosen THEN "running" ELSE state[i]]
    PROVE  Pending' \in Nat /\ Pending' <= Pending /\ Running' = Running \cup chosen
<1>1. chosen \subseteq Unstarted /\ Unstarted \cap Running = {}
  BY ChosenIs DEF Unstarted, Running, WorkInv
<1>2. Unstarted' = Unstarted \ chosen /\ Running' = Running \cup chosen
  BY <1>1 DEF Unstarted, Running
<1>3. /\ IsFiniteSet(Unstarted) /\ Cardinality(Unstarted) \in Nat
      /\ IsFiniteSet(Running) /\ Cardinality(Running) \in Nat
  BY Counted
<1>4. IsFiniteSet(chosen) /\ Cardinality(chosen) \in Nat /\ Cardinality(chosen) <= Cardinality(Unstarted)
  BY <1>1, <1>3, FS_Subset, FS_CardinalityType
<1>5. Cardinality(Unstarted \ chosen) = Cardinality(Unstarted) - Cardinality(chosen)
  <2>1. Unstarted \cap chosen = chosen
    BY <1>1
  <2> QED  BY <1>3, <2>1, FS_Difference
<1>6. Cardinality(Running \cup chosen) = Cardinality(Running) + Cardinality(chosen)
  <2>1. Running \cap chosen = {} /\ Cardinality({}) = 0
    BY <1>1, FS_EmptySet
  <2>2. Cardinality(Running \cup chosen) =
           Cardinality(Running) + Cardinality(chosen) - Cardinality(Running \cap chosen)
    BY <1>3, <1>4, FS_Union
  <2> QED  BY <1>3, <1>4, <2>1, <2>2
<1>7. Pending' = 2 * Cardinality(Unstarted \ chosen) + Cardinality(Running \cup chosen)
  BY <1>2 DEF Pending
<1> QED  BY <1>2, <1>3, <1>4, <1>5, <1>6, <1>7 DEF Pending

LEMMA StoringSpends ==
    ASSUME Plan, WorkInv(docs, state, deferred, snapshot), NEW i \in Steps(graph),
           state[i] = "running", state' = Settle(i).now.state
    PROVE  Pending' \in Nat /\ Pending' + 1 <= Pending
<1> DEFINE base == Stored(i)
           now == Settle(i).now
<1>1. now \in Nows /\ Cascaded(base, now)
  BY SettleKeeps
<1>2. state \in [Steps(graph) -> {"unstarted", "running", "done"}]
  BY DEF WorkInv
<1>3. base.state = [state EXCEPT ![i] = "done"]
  BY DEF Stored
<1>4. DOMAIN state' = Steps(graph)
  BY <1>1 DEF Nows
<1>5. \A j \in Steps(graph) : /\ base.state[j] # "unstarted" => state'[j] = base.state[j]
                              /\ state'[j] = "running" => base.state[j] = "running"
  BY <1>1 DEF Cascaded
<1> HIDE DEF base, now
<1>6. /\ base.state[i] = "done"
      /\ \A j \in Steps(graph) : j # i => base.state[j] = state[j]
  BY <1>2, <1>3
<1>7. Running' = Running \ {i} /\ i \in Running
  BY <1>2, <1>4, <1>5, <1>6 DEF Running
<1>8. Unstarted' \in SUBSET Unstarted
  BY <1>2, <1>4, <1>5, <1>6 DEF Unstarted
<1>9. /\ IsFiniteSet(Unstarted) /\ Cardinality(Unstarted) \in Nat
      /\ IsFiniteSet(Running) /\ Cardinality(Running) \in Nat
  BY Counted
<1>10. Cardinality(Unstarted') \in Nat /\ Cardinality(Unstarted') <= Cardinality(Unstarted)
  BY <1>8, <1>9, FS_Subset, FS_CardinalityType
<1>11. Cardinality(Running') = Cardinality(Running) - 1 /\ Cardinality(Running') \in Nat
  BY <1>7, <1>9, FS_RemoveElement, FS_CardinalityType
<1> QED  BY <1>9, <1>10, <1>11 DEF Pending

LEMMA RankIs ==
    /\ RankOf["start"] = 8 /\ RankOf["cancelling"] = 6 /\ RankOf["spawning"] = 5
    /\ RankOf["receiving"] = 4 /\ RankOf["joined"] = 3 /\ RankOf["in_time"] = 2 /\ RankOf["done"] = 0
  BY DEF RankOf, Places

LEMMA RankTyped ==
    ASSUME IInv
    PROVE  Rank \in Nat /\ Pending \in Nat /\ Left \in Nat
<1>1. Rank \in Nat
  BY RankIs DEF IInv, PhaseInv, Working, Rank
<1>2. Pending \in Nat
  BY Counted DEF IInv
<1> QED  BY <1>1, <1>2 DEF Left

\* A step of the task that leaves the documents alone.
LEMMA RankFalls ==
    ASSUME IInv, UNCHANGED work, Rank' \in Nat, Rank' < Rank
    PROVE  Left' < Left
<1>1. Pending' = Pending
  <2>1. state' = state
    BY DEF work
  <2> QED  BY <2>1 DEF Pending, Unstarted, Running
<1>2. Rank \in Nat /\ Pending \in Nat
  BY RankTyped
<1>3. Left' = 4 * Pending + Rank' /\ Left = 4 * Pending + Rank
  BY <1>1 DEF Left
<1>4. \A p, a, b \in Nat : b < a => 4 * p + b < 4 * p + a
  OBVIOUS
<1> QED  BY <1>2, <1>3, <1>4, Zenon

LEMMA TaskIsNearer ==
    ASSUME IInv, Task
    PROVE  Left' < Left
<1> USE RankIs
<1>1. Plan /\ WorkInv(docs, state, deferred, snapshot) /\ PhaseInv
  BY DEF IInv
<1>2. CASE Start
  <2>1. UNCHANGED work /\ Rank = 8 /\ (Rank' = 1 \/ Rank' = 6)
    BY <1>2 DEF Start, Sending, Rank
  <2> QED  BY <2>1, RankFalls
<1>3. CASE Send
  <2>1. UNCHANGED work /\ at = "sending" /\ at' = after /\ after \in {"spawning", "cancelling", "done"}
    BY <1>1, <1>3 DEF Send, PhaseInv
  <2>2. Rank' \in Nat /\ Rank' < Rank
    BY <2>1 DEF Rank
  <2> QED  BY <2>1, <2>2, RankFalls
<1>4. CASE SendRefused
  <2>1. UNCHANGED work /\ at = "sending" /\ (at' = after \/ at' = "done")
        /\ after \in {"spawning", "cancelling", "done"}
    BY <1>1, <1>4 DEF SendRefused, PhaseInv
  <2>2. Rank' \in Nat /\ Rank' < Rank
    BY <2>1 DEF Rank
  <2> QED  BY <2>1, <2>2, RankFalls
<1>5. CASE SpawnReady
  <2> DEFINE chosen == IF cancel THEN {} ELSE ToSpawn
  <2>1. /\ state' = [i \in DOMAIN state |-> IF i \in chosen THEN "running" ELSE state[i]]
        /\ at = "spawning" /\ at' \in {"joined", "receiving"}
    BY <1>5 DEF SpawnReady
  <2>2. chosen \subseteq ToSpawn
    OBVIOUS
  <2> HIDE DEF chosen
  <2>3. Pending' \in Nat /\ Pending' <= Pending
    BY <1>1, <2>1, <2>2, StartingSpends
  <2>4. Rank = 5 /\ (Rank' = 3 \/ Rank' = 4)
    BY <2>1 DEF Rank
  <2>5. Pending \in Nat
    BY RankTyped
  <2> QED  BY <2>3, <2>4, <2>5 DEF Left
<1>6. ASSUME NEW i \in DOMAIN state, Receive(i) PROVE Left' < Left
  <2>1. /\ at = "receiving" /\ state[i] = "running" /\ i \in Steps(graph)
        /\ state' = Settle(i).now.state
        /\ at' = "spawning" \/ (at' = "sending" /\ after' \in {"spawning", "cancelling"})
    BY <1>1, <1>6 DEF Receive, Sending, WorkInv
  <2>2. Pending' \in Nat /\ Pending' + 1 <= Pending
    BY <1>1, <2>1, StoringSpends
  <2>3. Rank = 4 /\ (Rank' = 5 \/ Rank' = 6 \/ Rank' = 7)
    BY <2>1 DEF Rank
  <2>4. Pending \in Nat
    BY RankTyped
  <2>5. Left' = 4 * Pending' + Rank' /\ Left = 4 * Pending + Rank
    BY DEF Left
  <2>6. \A p, q \in Nat : \A b \in {5, 6, 7} : q + 1 <= p => 4 * q + b < 4 * p + 4
    OBVIOUS
  <2>7. Rank' \in {5, 6, 7}
    BY <2>3
  <2> QED  BY <2>2, <2>3, <2>4, <2>5, <2>6, <2>7, Zenon
<1>7. CASE StepGivesUp
  <2>1. UNCHANGED work /\ Rank = 6 /\ Rank' = 5
    BY <1>7 DEF StepGivesUp, Rank
  <2> QED  BY <2>1, RankFalls
<1>8. CASE CheckDeadline
  <2>1. UNCHANGED work /\ Rank = 3 /\ (Rank' = 1 \/ Rank' = 2)
    BY <1>8 DEF CheckDeadline, Sending, Rank
  <2> QED  BY <2>1, RankFalls
<1>9. CASE CheckCancel
  <2>1. UNCHANGED work /\ Rank = 2 /\ (Rank' = 0 \/ Rank' = 1)
    BY <1>9 DEF CheckCancel, Sending, Rank
  <2> QED  BY <2>1, RankFalls
<1> QED  BY <1>2, <1>3, <1>4, <1>5, <1>6, <1>7, <1>8, <1>9, Zenon DEF Task

\* A failed step, one that is skipped or put off, a cancelled call and a client that
\* goes all leave the task with a step that runs or with none to wait for
\* (progressive.rs run_progressive, spawn_ready): it is never left at the channel of
\* its steps.
THEOREM WaitsEnd == Spec => []WaitsForSomebody
<1>1. Init => WaitsForSomebody
  BY DEF Init, WaitsForSomebody
<1>2. ASSUME IInv, WaitsForSomebody, [Next]_vars PROVE WaitsForSomebody'
  <2>1. Plan /\ WorkInv(docs, state, deferred, snapshot) /\ PhaseInv
    BY <1>2 DEF IInv
  <2>2. CASE SpawnReady
    <3> DEFINE chosen == IF cancel THEN {} ELSE ToSpawn
    <3>1. /\ state' = [i \in DOMAIN state |-> IF i \in chosen THEN "running" ELSE state[i]]
          /\ at' = IF chosen \cup Running = {} THEN "joined" ELSE "receiving"
      BY <2>2 DEF SpawnReady
    <3>2. chosen \subseteq ToSpawn
      OBVIOUS
    <3> HIDE DEF chosen
    <3>3. Running' = Running \cup chosen
      BY <2>1, <3>1, <3>2, StartingSpends
    <3> QED  BY <3>1, <3>3 DEF WaitsForSomebody
  <2>3. CASE UNCHANGED <<at, state>>
    BY <1>2, <2>3 DEF WaitsForSomebody, Running
  <2>4. CASE Start \/ Send \/ SendRefused \/ (\E i \in DOMAIN state : Receive(i))
               \/ StepGivesUp \/ CheckDeadline \/ CheckCancel
    <3>1. at' # "receiving"
      BY <2>1, <2>4 DEF Start, Send, SendRefused, Receive, StepGivesUp, CheckDeadline, CheckCancel,
                        Sending, PhaseInv
    <3> QED  BY <3>1 DEF WaitsForSomebody
  <2>5. CASE TimePasses \/ Timer \/ Client \/ ClientLeaves \/ UNCHANGED vars
    BY <2>3, <2>5 DEF TimePasses, Timer, TimerFires, TimerCancels, Client, ClientReads, DropCancels,
                      DropCloses, ClientLeaves, work, vars
  <2> QED  BY <1>2, <2>2, <2>4, <2>5 DEF Next, Task
<1> QED  BY <1>1, <1>2, ProgressiveInvariant, PTL DEF Spec

\* The task cannot go on for ever: a number falls with each of its steps, whatever
\* fails, expires or leaves between them, and nobody else's step raises it. With
\* WaitsEnd this is what TaskEnds asks of the code; that the task and its
\* client's stream are scheduled is the rest.
THEOREM TaskGoesOn == Spec => [](Left \in Nat) /\ [][Nearer]_vars
<1>1. IInv => Left \in Nat
  BY RankTyped
<1>2. ASSUME IInv, [Next]_vars PROVE [Nearer]_vars
  <2>1. CASE Task
    BY <1>2, <2>1, TaskIsNearer DEF Nearer
  <2>2. CASE ~Task
    <3>1. CASE UNCHANGED vars
      BY <3>1
    <3>2. CASE Next
      <4>1. UNCHANGED <<at, after, state>>
        BY <2>2, <3>2 DEF Next, TimePasses, Timer, TimerFires, TimerCancels, Client, ClientReads,
                          DropCancels, DropCloses, ClientLeaves, work
      <4>2. Left' = Left
        BY <4>1 DEF Left, Rank, Pending, Unstarted, Running
      <4> QED  BY <2>2, <4>2 DEF Nearer
    <3> QED  BY <1>2, <3>1, <3>2
  <2> QED  BY <2>1, <2>2
<1> QED  BY <1>1, <1>2, ProgressiveInvariant, PTL DEF Spec
=============================================================================
