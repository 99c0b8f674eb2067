--------------------------- MODULE CpuPoolProofs ---------------------------
(***************************************************************************)
(* Proofs about CpuPool, for every number of workers, unit limit, modulus  *)
(* of the job number and set of task counts.                               *)
(***************************************************************************)
EXTENDS CpuPool, FiniteSetTheorems, TLAPS

-----------------------------------------------------------------------------
(* How run splits its tasks into units *)

\* A rounded-up quotient of positive numbers is positive and covers the whole.
LEMMA DivCeilBounds ==
    ASSUME NEW a \in Nat \ {0}, NEW b \in Nat \ {0}
    PROVE  /\ DivCeil(a, b) \in Nat \ {0}
           /\ a <= DivCeil(a, b) * b
BY SMT DEF DivCeil

\* No task is in two units.
LEMMA UnitsDisjoint ==
    ASSUME NEW u \in Nat, NEW v \in Nat, NEW p \in Nat, NEW n \in Nat,
           NEW i \in TasksOf(u, p, n), i \in TasksOf(v, p, n)
    PROVE  u = v
BY SMT DEF TasksOf

LEMMA UnitsOf ==
    ASSUME NEW n \in Nat \ {0}
    PROVE  Per(n) \in Nat \ {0} /\ Units(n) \in Nat \ {0}
BY DivCeilBounds, PoolAssumption DEF Per, Units

LEMMA UnitOfTask ==
    ASSUME NEW i \in Nat, NEW p \in Nat \ {0}
    PROVE  /\ i \div p \in Nat
           /\ (i \div p) * p <= i
           /\ i < ((i \div p) + 1) * p
BY SMT

\* The units of a job and the tasks of each: every task of 0..tasks is in
\* exactly one unit (the `per' and `units' of Pool::run and the task loop of
\* take_units).
THEOREM UnitsPartitionTasks ==
    ASSUME NEW n \in Nat \ {0}, NEW i \in 0 .. (n - 1)
    PROVE  \E u \in 0 .. (Units(n) - 1) :
              /\ i \in TasksOf(u, Per(n), n)
              /\ \A v \in Nat : i \in TasksOf(v, Per(n), n) => v = u
<1> DEFINE p == Per(n)
<1> DEFINE u == i \div p
<1>1. p \in Nat \ {0} /\ Units(n) \in Nat \ {0}
  BY UnitsOf
<1>2. n <= Units(n) * p
  BY <1>1, DivCeilBounds DEF Units
<1>3. u \in Nat /\ u * p <= i /\ i < (u + 1) * p
  BY <1>1, UnitOfTask
<1> HIDE DEF p, u
<1>4. u < Units(n)
  <2>1. SUFFICES ASSUME Units(n) <= u PROVE FALSE
    BY <1>1, <1>3
  <2>2. Units(n) * p <= u * p
    BY <2>1, <1>1, <1>3, SMT
  <2> QED
    BY <2>2, <1>1, <1>2, <1>3, SMT
<1>5. i \in TasksOf(u, p, n)
  BY <1>3 DEF TasksOf
<1>6. \A v \in Nat : i \in TasksOf(v, p, n) => v = u
  BY <1>1, <1>3, <1>5, UnitsDisjoint
<1> QED
  BY <1>1, <1>3, <1>4, <1>5, <1>6 DEF p

-----------------------------------------------------------------------------
(* Types *)

\* `want' is stored as units - 1, so a job to publish has tasks.
TypeInv == TypeOK /\ (Preparing => tasks > 1)

LEMMA WordIsTyped ==
    ASSUME NEW j \in Nat, NEW u \in Nat, NEW n \in Nat
    PROVE  Word(j, u, n) \in WordType
BY PoolAssumption, SMT DEF Word, WordType

(* One more unit counted in a word leaves it a word: what                   *)
(* `fetch_add(1)` makes of the claim and `next` of a thread's copy of it.   *)
LEMMA NextUnitIsTyped ==
    ASSUME NEW word \in WordType
    PROVE  [word EXCEPT !.next = word.next + 1] \in WordType /\ word.next \in Nat
BY SMT DEF WordType

LEMMA TypeInit == Init => TypeInv
<1> SUFFICES ASSUME Init PROVE TypeInv
  OBVIOUS
<1>1. Word(0, 0, 0) \in WordType
  BY WordIsTyped
<1>2. pc[0] = "idle" /\ \A i \in Workers : pc[i] = "spin"
  BY PoolAssumption DEF Init, Threads, Workers
<1>3. pc \in [Threads -> {"idle", "spin"}]
  BY DEF Init
<1>4. DOMAIN hits = {} /\ finished = {}
  BY DEF Init
<1> QED
  BY <1>1, <1>2, <1>3, <1>4
  DEF Init, TypeInv, TypeOK, Preparing, NoJob, CallerLabels, WorkerLabels, JobLabels

LEMMA TypeCaller == TypeInv /\ Caller => TypeInv'
<1> SUFFICES ASSUME TypeInv, Caller PROVE TypeInv'
  OBVIOUS
<1> USE DEF TypeInv, TypeOK, Preparing, Goto, CallerLabels, WorkerLabels, JobLabels,
            shared, flags, waking, history
<1>0. 0 \in Threads /\ 0 \notin Workers /\ Workers \subseteq Threads
  BY PoolAssumption DEF Threads, Workers
<1>1. ASSUME NEW n \in Sizes, RunInline(n) PROVE TypeInv'
  BY <1>1 DEF RunInline, vars
<1>2. ASSUME NEW n \in Sizes, Run(n) PROVE TypeInv'
  <2>1. n \in Nat \ {0} /\ Per(n) \in Nat
    BY <1>2, PoolAssumption, UnitsOf DEF Run
  <2>2. DOMAIN hits' = 0 .. (n - 1) /\ \A i \in DOMAIN hits' : hits'[i] = 0
    BY <1>2 DEF Run
  <2> QED
    BY <1>0, <1>2, <2>1, <2>2 DEF Run
<1>3. CASE StoreWant
  <2>1. Units(tasks) - 1 \in Nat
    BY <1>3, UnitsOf DEF StoreWant
  <2> QED
    BY <1>0, <1>3, <2>1 DEF StoreWant
<1>4. CASE Publish
  <2>1. claim' \in WordType
    BY <1>4, UnitsOf, WordIsTyped DEF Publish
  <2> QED
    BY <1>0, <1>4, <2>1 DEF Publish
<1>5. CASE Return
  BY <1>0, <1>5 DEF Return
<1>6. CASE Release
  BY <1>0, <1>6 DEF Release
<1>7. CASE DropClaim
  <2>1. claim' \in WordType
    BY <1>7, WordIsTyped DEF DropClaim
  <2> QED
    BY <1>0, <1>7, <2>1 DEF DropClaim
<1>8. CASE DropFlag
  BY <1>0, <1>8 DEF DropFlag
<1>9. CASE DropUnpark
  BY <1>0, <1>9 DEF DropUnpark
<1>10. CASE Join
  BY <1>0, <1>10 DEF Join
<1> QED
  BY <1>1, <1>2, <1>3, <1>4, <1>5, <1>6, <1>7, <1>8, <1>9, <1>10 DEF Caller, InCall

LEMMA TypeJob == TypeInv /\ (\E t \in Threads : Job(t)) => TypeInv'
<1> SUFFICES ASSUME TypeInv, NEW t \in Threads, Job(t) PROVE TypeInv'
  OBVIOUS
<1>0. /\ 0 \in Threads /\ 0 \notin Workers /\ Workers \subseteq Threads
      /\ t = 0 \/ t \in Workers
  BY PoolAssumption DEF Threads, Workers
<1>00. Workers \subseteq Nat
  BY DEF Workers
<1> USE DEF TypeInv, TypeOK, Preparing, Goto, CallerLabels, WorkerLabels, JobLabels,
            shared, flags, waking, history
<1>1. CASE WakeHas(t)
  <2>1. CASE LeaveWake(t)
    BY <1>0, <1>1, <2>1 DEF WakeHas, LeaveWake
  <2>2. CASE Goto(t, "wakeTake") /\ UNCHANGED waking
    BY <1>0, <1>1, <2>2 DEF WakeHas
  <2> QED
    BY <1>1, <2>1, <2>2 DEF WakeHas
<1>2. CASE WakeTake(t)
  <2>1. CASE want = 0 /\ LeaveWake(t) /\ UNCHANGED want
    BY <1>0, <1>2, <2>1 DEF WakeTake, LeaveWake
  <2>2. CASE want > 0 /\ want' = want - 1 /\ Goto(t, "scan") /\ UNCHANGED waking
    BY <1>0, <1>2, <2>2 DEF WakeTake
  <2> QED
    BY <1>2, <2>1, <2>2 DEF WakeTake
<1>3. CASE Scan(t)
  <2>1. CASE parked[cursor[t]]
    <3>1. parked' \in [Workers -> BOOLEAN] /\ pc' = [pc EXCEPT ![t] = "unpark"]
      BY <1>3, <2>1 DEF Scan
    <3>2. pc[t] = "scan" /\ cursor[t] \in Workers /\ UNCHANGED cursor
      BY <1>3, <2>1 DEF Scan
    <3> QED
      BY <1>0, <1>3, <3>1, <3>2, SMTT(20) DEF Scan
  <2>2. CASE ~parked[cursor[t]]
    <3>1. cursor' \in [Threads -> Nat] /\ pc' = pc /\ pc[t] = "scan"
      BY <1>3, <2>2 DEF Scan
    <3>2. \A x \in Threads : x # t => cursor'[x] = cursor[x]
      BY <1>3, <2>2 DEF Scan
    <3> QED
      BY <1>0, <1>3, <2>2, <3>1, <3>2 DEF Scan
  <2> QED
    BY <2>1, <2>2
<1>4. CASE GiveBack(t)
  BY <1>0, <1>4 DEF GiveBack, LeaveWake
<1>5. CASE Unpark(t)
  BY <1>0, <1>00, <1>5 DEF Unpark
<1>6. CASE ReadWord(t)
  BY <1>0, <1>6 DEF ReadWord
<1>7. CASE Claim(t)
  <2>1. claim' \in WordType
    <3>1. claim \in WordType
      OBVIOUS
    <3>2. claim' = [claim EXCEPT !.next = claim.next + 1]
      BY <1>7 DEF Claim
    <3> HIDE DEF TypeInv, TypeOK
    <3> QED
      BY <3>1, <3>2, NextUnitIsTyped
  <2> QED
    BY <1>0, <1>7, <2>1 DEF Claim
<1>8. CASE ClaimFails(t)
  BY <1>0, <1>8 DEF ClaimFails
<1>9. CASE Load(t)
  BY <1>0, <1>9 DEF Load
<1>10. CASE Call(t)
  <2>1. DOMAIN hits' = DOMAIN hits /\ \A i \in DOMAIN hits : hits'[i] \in Nat
    BY <1>10 DEF Call
  <2> QED
    BY <1>0, <1>10, <2>1 DEF Call
<1>11. CASE Count(t)
  <2>1. w' \in [Threads -> WordType] /\ w[t].next \in Nat
    <3>1. w[t] \in WordType
      OBVIOUS
    <3>2. [w[t] EXCEPT !.next = w[t].next + 1] \in WordType /\ w[t].next \in Nat
      <4> HIDE DEF TypeInv, TypeOK
      <4> QED
        BY <3>1, NextUnitIsTyped
    <3>3. w' = [w EXCEPT ![t] = [w[t] EXCEPT !.next = w[t].next + 1]]
      BY <1>11 DEF Count
    <3> QED
      BY <3>1, <3>2, <3>3
  <2>2. loc' \in [Threads -> [fn : Nat, per : Nat, tasks : Nat]]
    BY <1>11 DEF Count, NoJob
  <2> QED
    BY <1>0, <1>11, <2>1, <2>2 DEF Count
<1>12. CASE NoUnitLeft(t)
  <2>1. w' \in [Threads -> WordType]
    BY <1>12, WordIsTyped DEF NoUnitLeft
  <2>2. CASE t = 0
    BY <1>0, <1>12, <2>1, <2>2 DEF NoUnitLeft
  <2>3. CASE t # 0
    <3>1. t \in Workers /\ seen' = [seen EXCEPT ![t] = w[t]] /\ pc' = [pc EXCEPT ![t] = "spin"]
      BY <1>0, <1>12, <2>3 DEF NoUnitLeft
    <3>2. seen' \in [Workers -> WordType]
      BY <1>0, <3>1
    <3> QED
      BY <1>0, <1>12, <2>1, <2>3, <3>1, <3>2 DEF NoUnitLeft
  <2> QED
    BY <2>2, <2>3
<1> QED
  BY <1>1, <1>2, <1>3, <1>4, <1>5, <1>6, <1>7, <1>8, <1>9, <1>10, <1>11, <1>12 DEF Job

LEMMA TypeWorker ==
    TypeInv /\ (\E i \in Workers : Worker(i) \/ ParkSpurious(i)) => TypeInv'
<1> SUFFICES ASSUME TypeInv, NEW i \in Workers, Worker(i) \/ ParkSpurious(i)
             PROVE  TypeInv'
  OBVIOUS
<1>0. /\ 0 \in Threads /\ 0 \notin Workers /\ Workers \subseteq Threads
      /\ i # 0 /\ i \in Threads
  BY PoolAssumption DEF Threads, Workers
<1> USE DEF TypeInv, TypeOK, Preparing, Goto, CallerLabels, WorkerLabels, JobLabels,
            shared, flags, waking, history
<1>1. CASE SetFlag(i)
  BY <1>0, <1>1 DEF SetFlag
<1>2. CASE StoreFlag(i)
  BY <1>0, <1>2 DEF StoreFlag
<1>3. CASE Check(i)
  BY <1>0, <1>3 DEF Check
<1>4. CASE ParkReturns(i)
  BY <1>0, <1>4 DEF ParkReturns
<1>5. CASE ParkSpurious(i)
  BY <1>0, <1>5 DEF ParkSpurious
<1>6. CASE Unflag(i)
  BY <1>0, <1>6 DEF Unflag
<1>7. CASE SeesMoved(i)
  BY <1>0, <1>7 DEF SeesMoved
<1>8. CASE Joins(i)
  <2>1. want' \in Nat
    BY <1>8 DEF Joins
  <2>2. pc'[i] \in {"wakeHas", "read"} /\ pc' \in [Threads -> CallerLabels \union WorkerLabels]
    BY <1>0, <1>8 DEF Joins
  <2>3. \A x \in Threads : x # i => pc'[x] = pc[x]
    BY <1>0, <1>8 DEF Joins
  <2>4. counted' \in [Workers -> BOOLEAN]
    BY <1>8 DEF Joins
  <2> QED
    BY <1>0, <1>8, <2>1, <2>2, <2>3, <2>4 DEF Joins
<1> QED
  BY <1>1, <1>2, <1>3, <1>4, <1>5, <1>6, <1>7, <1>8 DEF Worker

LEMMA TypeStep == TypeInv /\ [Next]_vars => TypeInv'
<1>1. TypeInv /\ UNCHANGED vars => TypeInv'
  BY DEF TypeInv, TypeOK, Preparing, vars
<1> QED
  BY <1>1, TypeCaller, TypeJob, TypeWorker DEF Next

\* Every variable keeps its type in every behaviour of the pool: in
\* particular `want' and `done' are never taken below zero.
THEOREM TypeCorrect == Spec => []TypeOK
<1>1. TypeInv => TypeOK
  BY DEF TypeInv
<1> QED
  BY <1>1, TypeInit, TypeStep, PTL DEF Spec

-----------------------------------------------------------------------------
(* The inductive invariant *)

LEMMA ThreadZero ==
    /\ 0 \in Threads /\ 0 \notin Workers /\ Workers \subseteq Threads
    /\ \A t \in Threads : t = 0 \/ t \in Workers
BY PoolAssumption DEF Threads, Workers

LEMMA PoolInit == Init => PoolInv
<1> SUFFICES ASSUME Init PROVE PoolInv
  OBVIOUS
<1>1. pc \in [Threads -> {"idle", "spin"}] /\ pc[0] = "idle"
  BY ThreadZero DEF Init
<1>2. DOMAIN hits = {}
  BY DEF Init
<1>3. ~HasUnits(claim)
  BY DEF Init, HasUnits, Word
<1> QED
  BY <1>1, <1>2, <1>3
  DEF PoolInv, JobInv, FreshInv, WordInv, QuietBetweenJobs, UnitsInv, LoadInv,
      HitsInv, ReturnedInv, Preparing, InJob, Busy, JobLabels

\* A step that leaves the job, the claim word and every thread that holds a
\* unit as they are.
Frame ==
    /\ UNCHANGED <<claim, job, per, tasks, done, jobs, hits, finished>>
    /\ InJob' = InJob
    /\ Preparing' = Preparing
    /\ \A t \in Threads : Busy(t)' \/ Busy(t) =>
          pc'[t] = pc[t] /\ w'[t] = w[t] /\ loc'[t] = loc[t]

LEMMA FrameKeeps == PoolInv /\ Frame => PoolInv'
<1> SUFFICES ASSUME PoolInv, Frame PROVE PoolInv'
  OBVIOUS
<1>1. \A t \in Threads : Busy(t)' <=> Busy(t)
  BY DEF Frame, Busy
<1>2. JobInv' /\ FreshInv' /\ WordInv'
  BY DEF PoolInv, Frame, JobInv, FreshInv, WordInv
<1>3. QuietBetweenJobs'
  BY <1>1 DEF PoolInv, Frame, QuietBetweenJobs, HasUnits
<1>4. UnitsInv'
  BY <1>1 DEF PoolInv, Frame, UnitsInv
<1>5. LoadInv'
  BY <1>1 DEF PoolInv, Frame, LoadInv, Busy
<1>6. HitsInv'
  <2>1. \A t \in Threads : pc'[t] = "count" <=> pc[t] = "count"
    BY DEF Frame, Busy
  <2>2. \A t \in Threads : pc[t] = "count" => w'[t] = w[t]
    BY DEF Frame, Busy
  <2>3. \A u : Called(u)' <=> Called(u)
    BY <2>1, <2>2 DEF Frame, Called
  <2> QED
    BY <2>3 DEF PoolInv, Frame, HitsInv
<1>7. ReturnedInv'
  BY DEF PoolInv, Frame, ReturnedInv
<1> QED
  BY <1>2, <1>3, <1>4, <1>5, <1>6, <1>7 DEF PoolInv

\* The steps of wake, and those of take_units that claim nothing.
LEMMA FrameJob ==
    ASSUME TypeOK, NEW t \in Threads,
           \/ WakeHas(t) \/ WakeTake(t) \/ Scan(t) \/ GiveBack(t) \/ Unpark(t)
           \/ ReadWord(t) \/ ClaimFails(t) \/ NoUnitLeft(t)
    PROVE  Frame
<1>1. /\ UNCHANGED <<claim, job, per, tasks, done, jobs, hits, finished, loc>>
      /\ pc[t] \in JobLabels \ {"load", "call", "count"}
      /\ pc'[t] \in {"wakeHas", "wakeTake", "scan", "unpark", "read", "cas"}
         \/ pc'[t] = (IF t = 0 THEN "wait" ELSE "spin")
      /\ \A x \in Threads : x # t => pc'[x] = pc[x] /\ w'[x] = w[x]
  BY DEF TypeOK, WakeHas, WakeTake, Scan, GiveBack, Unpark, ReadWord, ClaimFails,
         NoUnitLeft, LeaveWake, Goto, shared, flags, waking, history, JobLabels
<1> QED
  BY <1>1, ThreadZero DEF Frame, InJob, Preparing, Busy, JobLabels

LEMMA FrameWorker ==
    ASSUME TypeOK, NEW i \in Workers, Worker(i) \/ ParkSpurious(i)
    PROVE  Frame
<1>1. /\ UNCHANGED <<claim, job, per, tasks, done, jobs, hits, finished, loc, w>>
      /\ pc[i] \notin {"load", "call", "count"}
      /\ pc'[i] \notin {"load", "call", "count"}
      /\ \A x \in Threads : x # i => pc'[x] = pc[x]
  BY ThreadZero
  DEF TypeOK, Worker, SetFlag, StoreFlag, Check, ParkReturns, ParkSpurious, Unflag,
      SeesMoved, Joins, Goto, shared, flags, waking, history
<1> QED
  BY <1>1, ThreadZero DEF Frame, InJob, Preparing, Busy

LEMMA FrameCaller ==
    ASSUME TypeOK,
           \/ \E n \in Sizes : RunInline(n)
           \/ StoreWant \/ Release \/ DropFlag \/ DropUnpark \/ Join
    PROVE  Frame
<1>1. CASE \E n \in Sizes : RunInline(n)
  BY <1>1 DEF RunInline, Frame, vars, InJob, Preparing, Busy
<1>2. CASE StoreWant \/ Release \/ DropFlag \/ DropUnpark \/ Join
  <2>1. /\ UNCHANGED <<claim, job, per, tasks, done, jobs, hits, finished, loc, w>>
        /\ \/ pc[0] = "want" /\ pc'[0] = "publish"
           \/ /\ pc[0] \in {"idle", "dropFlag", "dropUnpark", "join"}
              /\ pc'[0] \in {"dropClaim", "dropFlag", "dropUnpark", "join", "released"}
        /\ \A x \in Threads : x # 0 => pc'[x] = pc[x]
    BY <1>2, ThreadZero
    DEF TypeOK, StoreWant, Release, DropFlag, DropUnpark, Join, Goto, shared, flags,
        waking, history
  <2> QED
    BY <2>1, ThreadZero DEF Frame, InJob, Preparing, Busy, JobLabels
<1> QED
  BY <1>1, <1>2

\* run stores a job: until it publishes it, no thread holds a unit.
LEMMA RunKeeps ==
    ASSUME TypeOK, PoolInv, NEW n \in Sizes, Run(n)
    PROVE  PoolInv'
<1>1. /\ pc'[0] = "want" /\ pc[0] = "idle"
      /\ \A t \in Threads : t # 0 => pc'[t] = pc[t]
      /\ claim' = claim /\ w' = w /\ loc' = loc
      /\ job' = jobs' /\ per' = Per(n) /\ tasks' = n /\ done' = 0 /\ finished' = {}
  BY ThreadZero DEF TypeOK, Run, Goto, flags, waking
<1>2. DOMAIN hits' = 0 .. (n - 1) /\ \A i \in DOMAIN hits' : hits'[i] = 0
  BY DEF Run
<1>3. n > 1
  BY DEF Run
<1>4. ~InJob /\ ~InJob' /\ Preparing'
  BY <1>1 DEF InJob, Preparing, JobLabels
<1>5. \A t \in Threads : ~Busy(t)'
  BY <1>1, <1>4, ThreadZero DEF PoolInv, QuietBetweenJobs, Busy
<1>6. JobInv' /\ FreshInv' /\ ReturnedInv'
  BY <1>1, <1>2, <1>3, <1>4 DEF JobInv, FreshInv, ReturnedInv
<1>7. QuietBetweenJobs'
  BY <1>1, <1>4, <1>5 DEF PoolInv, QuietBetweenJobs, HasUnits
<1>8. LoadInv'
  BY <1>5 DEF LoadInv, Busy
<1> QED
  BY <1>4, <1>6, <1>7, <1>8 DEF PoolInv, WordInv, UnitsInv, HitsInv

LEMMA PublishKeeps ==
    ASSUME TypeOK, PoolInv, Publish
    PROVE  PoolInv'
<1>1. /\ pc'[0] = "wakeHas" /\ pc[0] = "publish"
      /\ \A t \in Threads : t # 0 => pc'[t] = pc[t]
      /\ UNCHANGED <<job, per, tasks, done, jobs, w, loc, hits, finished>>
      /\ claim'.units = Units(tasks) /\ claim'.next = 0
  BY ThreadZero DEF TypeOK, Publish, Goto, flags, waking, history, Word
<1>2. ~InJob /\ InJob' /\ Preparing /\ ~Preparing'
  BY <1>1 DEF InJob, Preparing, JobLabels
<1>3. tasks \in Nat \ {0} /\ per = Per(tasks) /\ Units(tasks) \in Nat \ {0}
  BY <1>2, UnitsOf DEF PoolInv, JobInv, TypeOK
<1>4. \A t \in Threads : ~Busy(t)'
  BY <1>1, <1>2, ThreadZero DEF PoolInv, QuietBetweenJobs, Busy
<1>5. done = 0 /\ finished = {} /\ \A i \in DOMAIN hits : hits[i] = 0
  BY <1>2 DEF PoolInv, FreshInv
<1>6. JobInv' /\ FreshInv' /\ WordInv' /\ QuietBetweenJobs' /\ ReturnedInv'
  BY <1>1, <1>2, <1>3
  DEF PoolInv, JobInv, FreshInv, WordInv, QuietBetweenJobs, ReturnedInv
<1>7. UnitsInv'
  BY <1>1, <1>4, <1>5, FS_EmptySet DEF UnitsInv
<1>8. LoadInv'
  BY <1>4 DEF LoadInv, Busy
<1>9. HitsInv'
  <2>1. \A u : ~Called(u)'
    BY <1>1, <1>4, <1>5 DEF Called, Busy
  <2>2. ASSUME NEW u, NEW i \in TasksOf(u, per, tasks) PROVE hits[i] = 0
    BY <1>2, <1>5, <2>2 DEF PoolInv, JobInv, TasksOf
  <2> QED
    BY <1>1, <2>1, <2>2 DEF HitsInv
<1> QED
  BY <1>6, <1>7, <1>8, <1>9 DEF PoolInv

LEMMA CardinalityBelow ==
    ASSUME NEW n \in Nat
    PROVE  IsFiniteSet(0 .. (n - 1)) /\ Cardinality(0 .. (n - 1)) = n
<1>1. n - 1 \in Int /\ 0 \in Int
  OBVIOUS
<1>2. /\ IsFiniteSet(0 .. (n - 1))
      /\ Cardinality(0 .. (n - 1)) = IF 0 > n - 1 THEN 0 ELSE (n - 1) - 0 + 1
  BY <1>1, FS_Interval, Zenon
<1> QED
  BY <1>2

\* `done' counts the finished units, so when it is their number they are all
\* finished and no thread holds one.
LEMMA AllFinished ==
    ASSUME TypeOK, PoolInv, InJob, done = Units(tasks)
    PROVE  /\ finished = 0 .. (Units(tasks) - 1)
           /\ claim.next = Units(tasks)
           /\ \A t \in Threads : ~Busy(t)
<1>1. /\ claim.units = Units(tasks) /\ claim.next <= Units(tasks)
      /\ finished \subseteq 0 .. (claim.next - 1)
      /\ done = Cardinality(finished)
  BY DEF PoolInv, WordInv, UnitsInv
<1>2. claim.next \in Nat /\ claim.units \in Nat
  BY DEF TypeOK, WordType
<1>3. /\ IsFiniteSet(0 .. (claim.next - 1))
      /\ Cardinality(0 .. (claim.next - 1)) = claim.next
  BY <1>2, CardinalityBelow
<1>4. /\ Cardinality(finished) <= claim.next
      /\ Cardinality(finished) = claim.next => finished = 0 .. (claim.next - 1)
  BY <1>1, <1>3, FS_Subset
<1>5. finished = 0 .. (claim.next - 1) /\ claim.next = Units(tasks)
  BY <1>1, <1>2, <1>4
<1> QED
  BY <1>5 DEF PoolInv, UnitsInv

LEMMA ReturnKeeps ==
    ASSUME TypeOK, PoolInv, Return
    PROVE  PoolInv'
<1>1. /\ pc[0] = "wait" /\ pc'[0] = "idle" /\ done = Units(tasks)
      /\ \A t \in Threads : t # 0 => pc'[t] = pc[t]
      /\ UNCHANGED <<claim, job, per, tasks, done, jobs, w, loc, hits, finished>>
  BY ThreadZero DEF TypeOK, Return, Goto, shared, flags, waking, history
<1>2. InJob /\ ~InJob' /\ ~Preparing'
  BY <1>1 DEF InJob, Preparing, JobLabels
<1>3. /\ finished = 0 .. (Units(tasks) - 1)
      /\ claim.next = Units(tasks) /\ claim.units = Units(tasks)
      /\ \A t \in Threads : ~Busy(t)
  BY <1>1, <1>2, AllFinished DEF PoolInv, WordInv
<1>4. \A t \in Threads : ~Busy(t)'
  BY <1>1, <1>3, ThreadZero DEF Busy
<1>5. QuietBetweenJobs'
  <2>1. claim.next \in Nat
    BY DEF TypeOK, WordType
  <2> QED
    BY <1>1, <1>3, <1>4, <2>1 DEF QuietBetweenJobs, HasUnits
<1>6. LoadInv'
  BY <1>4 DEF LoadInv, Busy
<1>7. \A i \in DOMAIN hits : hits[i] = 1
  <2>1. /\ tasks \in Nat \ {0} /\ per = Per(tasks) /\ DOMAIN hits = 0 .. (tasks - 1)
    BY <1>2 DEF PoolInv, JobInv, TypeOK
  <2>2. \A u \in finished : Called(u)
    BY DEF Called
  <2>3. TAKE i \in DOMAIN hits
  <2>4. PICK u \in 0 .. (Units(tasks) - 1) : i \in TasksOf(u, per, tasks)
    BY <2>1, UnitsPartitionTasks
  <2> QED
    BY <1>2, <1>3, <2>2, <2>4 DEF PoolInv, HitsInv
<1>8. ReturnedInv'
  BY <1>1, <1>7 DEF ReturnedInv
<1> QED
  BY <1>2, <1>5, <1>6, <1>8 DEF PoolInv, JobInv, FreshInv, WordInv, UnitsInv, HitsInv

LEMMA DropClaimKeeps ==
    ASSUME TypeOK, PoolInv, DropClaim
    PROVE  PoolInv'
<1>1. /\ pc[0] = "dropClaim" /\ pc'[0] = "dropFlag"
      /\ \A t \in Threads : t # 0 => pc'[t] = pc[t]
      /\ UNCHANGED <<job, per, tasks, done, jobs, w, loc, hits, finished>>
      /\ claim'.units = 0 /\ claim'.next = 0
  BY ThreadZero DEF TypeOK, DropClaim, Goto, flags, waking, history, Word
<1>2. ~InJob /\ ~InJob' /\ ~Preparing'
  BY <1>1 DEF InJob, Preparing, JobLabels
<1>3. \A t \in Threads : ~Busy(t)'
  BY <1>1, <1>2, ThreadZero DEF PoolInv, QuietBetweenJobs, Busy
<1>4. QuietBetweenJobs'
  BY <1>1, <1>3 DEF QuietBetweenJobs, HasUnits
<1>5. LoadInv'
  BY <1>3 DEF LoadInv, Busy
<1>6. ReturnedInv'
  <2>1. ~Preparing
    BY <1>1 DEF Preparing
  <2> QED
    BY <1>1, <1>2, <2>1 DEF PoolInv, ReturnedInv
<1> QED
  BY <1>2, <1>4, <1>5, <1>6 DEF PoolInv, JobInv, FreshInv, WordInv, UnitsInv, HitsInv

-----------------------------------------------------------------------------
(* The steps that claim a unit, run it and count it *)

LEMMA ClaimKeeps ==
    ASSUME TypeOK, PoolInv, NEW t \in Threads, Claim(t)
    PROVE  PoolInv'
<1>1. /\ pc[t] = "cas" /\ pc'[t] = "load"
      /\ \A x \in Threads : x # t => pc'[x] = pc[x]
      /\ UNCHANGED <<job, per, tasks, done, jobs, w, loc, hits, finished>>
      /\ w[t] = claim /\ HasUnits(claim)
  BY DEF TypeOK, Claim, Goto, flags, waking, history
<1>2. /\ claim.next \in Nat /\ claim.units \in Nat
      /\ claim'.units = claim.units /\ claim'.next = claim.next + 1
  BY DEF TypeOK, Claim, WordType
<1>3. InJob /\ InJob' /\ ~Preparing /\ ~Preparing'
  <2>1. InJob
    BY <1>1 DEF PoolInv, QuietBetweenJobs
  <2> QED
    BY <1>1, <2>1, ThreadZero DEF InJob, Preparing, JobLabels
<1>4. JobInv' /\ FreshInv' /\ QuietBetweenJobs' /\ ReturnedInv'
  BY <1>1, <1>3 DEF PoolInv, JobInv, FreshInv, QuietBetweenJobs, ReturnedInv, InJob, JobLabels
<1>5. WordInv'
  BY <1>1, <1>2, <1>3 DEF PoolInv, WordInv, HasUnits
<1>6. Busy(t)' /\ ~Busy(t) /\ \A x \in Threads : x # t => (Busy(x)' <=> Busy(x))
  BY <1>1 DEF Busy
<1>7. UnitsInv'
  <2>1. /\ finished \subseteq 0 .. (claim.next - 1)
        /\ \A x \in Threads : Busy(x) => w[x].next \in 0 .. (claim.next - 1) \ finished
        /\ \A u \in 0 .. (claim.next - 1) :
               u \in finished \/ \E x \in Threads : Busy(x) /\ w[x].next = u
        /\ \A x, y \in Threads :
               Busy(x) /\ Busy(y) /\ w[x].next = w[y].next => x = y
        /\ IsFiniteSet(finished)
        /\ done = Cardinality(finished)
    BY <1>3 DEF PoolInv, UnitsInv
  <2>2. finished' \subseteq 0 .. (claim'.next - 1)
    BY <1>1, <1>2, <2>1
  <2>3. \A x \in Threads : Busy(x)' => w'[x].next \in 0 .. (claim'.next - 1) \ finished'
    BY <1>1, <1>2, <1>6, <2>1
  <2>4. \A u \in 0 .. (claim'.next - 1) :
            u \in finished' \/ \E x \in Threads : Busy(x)' /\ w'[x].next = u
    <3>1. TAKE u \in 0 .. (claim'.next - 1)
    <3>2. CASE u = claim.next
      BY <1>1, <1>6, <3>2
    <3>3. CASE u # claim.next
      <4>1. u \in 0 .. (claim.next - 1)
        BY <1>2, <3>3
      <4> QED
        BY <1>1, <1>6, <2>1, <4>1
    <3> QED
      BY <3>2, <3>3
  <2>5. \A x, y \in Threads :
            Busy(x)' /\ Busy(y)' /\ w'[x].next = w'[y].next => x = y
    <3>1. \A x \in Threads : Busy(x) => w[x].next # claim.next
      BY <1>2, <2>1
    <3> QED
      BY <1>1, <1>6, <2>1, <3>1
  <2> QED
    BY <1>1, <2>1, <2>2, <2>3, <2>4, <2>5 DEF UnitsInv
<1>8. LoadInv'
  BY <1>1 DEF PoolInv, LoadInv
<1>9. HitsInv'
  <2>1. \A u : Called(u)' <=> Called(u)
    BY <1>1 DEF Called
  <2> QED
    BY <1>1, <1>3, <2>1 DEF PoolInv, HitsInv
<1> QED
  BY <1>4, <1>5, <1>7, <1>8, <1>9 DEF PoolInv

\* A thread that holds a unit is in the job, whose function it loads.
LEMMA LoadKeeps ==
    ASSUME TypeOK, PoolInv, NEW t \in Threads, Load(t)
    PROVE  PoolInv'
<1>1. /\ pc[t] = "load" /\ pc'[t] = "call"
      /\ \A x \in Threads : x # t => pc'[x] = pc[x] /\ loc'[x] = loc[x]
      /\ UNCHANGED <<claim, job, per, tasks, done, jobs, w, hits, finished>>
      /\ loc'[t] = [fn |-> job, per |-> per, tasks |-> tasks]
  BY DEF TypeOK, Load, Goto, shared, flags, waking, history
<1>2. InJob /\ InJob' /\ ~Preparing /\ ~Preparing'
  <2>1. InJob
    BY <1>1 DEF PoolInv, QuietBetweenJobs, Busy
  <2> QED
    BY <1>1, <2>1, ThreadZero DEF InJob, Preparing, JobLabels
<1>3. \A x \in Threads : Busy(x)' <=> Busy(x)
  BY <1>1 DEF Busy
<1>4. JobInv' /\ FreshInv' /\ WordInv' /\ QuietBetweenJobs' /\ ReturnedInv'
  BY <1>1, <1>2
  DEF PoolInv, JobInv, FreshInv, WordInv, QuietBetweenJobs, ReturnedInv, InJob, JobLabels
<1>5. UnitsInv'
  BY <1>1, <1>2, <1>3 DEF PoolInv, UnitsInv
<1>6. LoadInv'
  BY <1>1, <1>2 DEF PoolInv, LoadInv, JobInv
<1>7. HitsInv'
  <2>1. \A u : Called(u)' <=> Called(u)
    BY <1>1 DEF Called
  <2> QED
    BY <1>1, <1>2, <2>1 DEF PoolInv, HitsInv
<1> QED
  BY <1>4, <1>5, <1>6, <1>7 DEF PoolInv

LEMMA CallKeeps ==
    ASSUME TypeOK, PoolInv, NEW t \in Threads, Call(t)
    PROVE  PoolInv'
<1>1. /\ pc[t] = "call" /\ pc'[t] = "count"
      /\ \A x \in Threads : x # t => pc'[x] = pc[x]
      /\ UNCHANGED <<claim, job, per, tasks, done, jobs, w, loc, finished>>
  BY DEF TypeOK, Call, Goto, shared, flags, waking
<1>2. InJob /\ InJob' /\ ~Preparing /\ ~Preparing'
  <2>1. InJob
    BY <1>1 DEF PoolInv, QuietBetweenJobs, Busy
  <2> QED
    BY <1>1, <2>1, ThreadZero DEF InJob, Preparing, JobLabels
<1>3. \A x \in Threads : Busy(x)' <=> Busy(x)
  BY <1>1 DEF Busy
<1> DEFINE mine == TasksOf(w[t].next, per, tasks)
<1>4. /\ DOMAIN hits' = DOMAIN hits
      /\ \A i \in DOMAIN hits : hits'[i] = IF i \in mine THEN hits[i] + 1 ELSE hits[i]
  <2>1. loc[t].per = per /\ loc[t].tasks = tasks
    BY <1>1 DEF PoolInv, LoadInv
  <2> QED
    BY <2>1 DEF Call
<1>5. JobInv' /\ FreshInv' /\ WordInv' /\ QuietBetweenJobs' /\ ReturnedInv'
  BY <1>1, <1>2, <1>4
  DEF PoolInv, JobInv, FreshInv, WordInv, QuietBetweenJobs, ReturnedInv, InJob, JobLabels
<1>6. UnitsInv'
  BY <1>1, <1>2, <1>3 DEF PoolInv, UnitsInv
<1>7. LoadInv'
  BY <1>1 DEF PoolInv, LoadInv
<1>8. HitsInv'
  <2>1. SUFFICES ASSUME NEW u \in 0 .. (Units(tasks) - 1), NEW i \in TasksOf(u, per, tasks)
                 PROVE  hits'[i] = IF Called(u)' THEN 1 ELSE 0
    BY <1>1 DEF HitsInv
  <2>2. i \in DOMAIN hits /\ i \in Nat /\ u \in Nat /\ per \in Nat /\ tasks \in Nat
    BY <1>2, UnitsOf DEF PoolInv, JobInv, TasksOf, TypeOK
  <2>3. hits[i] = IF Called(u) THEN 1 ELSE 0
    BY <1>2 DEF PoolInv, HitsInv
  <2>4. w[t].next \in Nat /\ w[t].next \notin finished
    BY <1>1, <1>2 DEF PoolInv, UnitsInv, Busy
  <2>5. CASE u = w[t].next
    <3>1. ~Called(u)
      BY <1>1, <1>2, <2>4, <2>5 DEF PoolInv, UnitsInv, Called, Busy
    <3>2. Called(u)'
      BY <1>1, <2>5 DEF Called
    <3> QED
      BY <1>4, <2>2, <2>3, <2>5, <3>1, <3>2
  <2>6. CASE u # w[t].next
    <3>1. i \notin mine
      BY <2>2, <2>4, <2>6, UnitsDisjoint
    <3>2. Called(u)' <=> Called(u)
      BY <1>1, <2>6 DEF Called
    <3> QED
      BY <1>4, <2>2, <2>3, <3>1, <3>2
  <2> QED
    BY <2>5, <2>6
<1> QED
  BY <1>5, <1>6, <1>7, <1>8 DEF PoolInv

LEMMA CountKeeps ==
    ASSUME TypeOK, PoolInv, NEW t \in Threads, Count(t)
    PROVE  PoolInv'
<1>1. /\ pc[t] = "count" /\ pc'[t] = "cas"
      /\ \A x \in Threads : x # t => pc'[x] = pc[x] /\ w'[x] = w[x] /\ loc'[x] = loc[x]
      /\ UNCHANGED <<claim, job, per, tasks, jobs, hits>>
      /\ finished' = finished \union {w[t].next}
      /\ done' = done + 1
  BY DEF TypeOK, Count, Goto, flags, waking
<1>2. InJob /\ InJob' /\ ~Preparing /\ ~Preparing'
  <2>1. InJob
    BY <1>1 DEF PoolInv, QuietBetweenJobs, Busy
  <2> QED
    BY <1>1, <2>1, ThreadZero DEF InJob, Preparing, JobLabels
<1>3. Busy(t) /\ ~Busy(t)' /\ \A x \in Threads : x # t => (Busy(x)' <=> Busy(x))
  BY <1>1 DEF Busy
<1>4. JobInv' /\ FreshInv' /\ WordInv' /\ QuietBetweenJobs' /\ ReturnedInv'
  BY <1>1, <1>2
  DEF PoolInv, JobInv, FreshInv, WordInv, QuietBetweenJobs, ReturnedInv, InJob, JobLabels
<1>5. UnitsInv'
  <2>1. /\ finished \subseteq 0 .. (claim.next - 1)
        /\ \A x \in Threads : Busy(x) => w[x].next \in 0 .. (claim.next - 1) \ finished
        /\ \A u \in 0 .. (claim.next - 1) :
               u \in finished \/ \E x \in Threads : Busy(x) /\ w[x].next = u
        /\ \A x, y \in Threads :
               Busy(x) /\ Busy(y) /\ w[x].next = w[y].next => x = y
        /\ IsFiniteSet(finished)
        /\ done = Cardinality(finished)
    BY <1>2 DEF PoolInv, UnitsInv
  <2>2. IsFiniteSet(finished') /\ done' = Cardinality(finished')
    BY <1>1, <1>3, <2>1, FS_AddElement
  <2>3. finished' \subseteq 0 .. (claim.next - 1)
    <3>1. w[t].next \in 0 .. (claim.next - 1)
      BY <1>3, <2>1
    <3>2. finished \subseteq 0 .. (claim.next - 1)
      BY <2>1
    <3> QED
      BY <1>1, <3>1, <3>2, Zenon
  <2>4. \A x \in Threads : Busy(x)' => w'[x].next \in 0 .. (claim.next - 1) \ finished'
    BY <1>1, <1>3, <2>1
  <2>5. \A u \in 0 .. (claim.next - 1) :
            u \in finished' \/ \E x \in Threads : Busy(x)' /\ w'[x].next = u
    BY <1>1, <1>3, <2>1
  <2>6. \A x, y \in Threads :
            Busy(x)' /\ Busy(y)' /\ w'[x].next = w'[y].next => x = y
    BY <1>1, <1>3, <2>1
  <2> QED
    BY <1>1, <2>2, <2>3, <2>4, <2>5, <2>6 DEF UnitsInv
<1>6. LoadInv'
  BY <1>1 DEF PoolInv, LoadInv
<1>7. HitsInv'
  <2>1. \A u : Called(u)' <=> Called(u)
    BY <1>1 DEF Called
  <2> QED
    BY <1>1, <1>2, <2>1 DEF PoolInv, HitsInv
<1> QED
  BY <1>4, <1>5, <1>6, <1>7 DEF PoolInv

-----------------------------------------------------------------------------
(* Theorems *)

LEMMA PoolStep == TypeOK /\ PoolInv /\ [Next]_vars => PoolInv'
<1> SUFFICES ASSUME TypeOK, PoolInv, [Next]_vars PROVE PoolInv'
  OBVIOUS
<1>1. CASE Caller
  BY <1>1, RunKeeps, PublishKeeps, ReturnKeeps, DropClaimKeeps, FrameCaller, FrameKeeps
  DEF Caller, InCall
<1>2. ASSUME NEW t \in Threads, Job(t) PROVE PoolInv'
  BY <1>2, ClaimKeeps, LoadKeeps, CallKeeps, CountKeeps, FrameJob, FrameKeeps DEF Job
<1>3. ASSUME NEW i \in Workers, Worker(i) \/ ParkSpurious(i) PROVE PoolInv'
  BY <1>3, FrameWorker, FrameKeeps
<1>4. CASE UNCHANGED vars
  <2>1. Frame
    BY <1>4 DEF vars, Frame, InJob, Preparing, Busy
  <2> QED
    BY <2>1, FrameKeeps
<1> QED
  BY <1>1, <1>2, <1>3, <1>4 DEF Next

\* The inductive invariant holds in every reachable state: the units handed
\* out by the claim word are those counted in `done' and those a thread
\* holds, and a unit's tasks were called exactly when its call is behind it.
THEOREM PoolInvariant == Spec => []IInv
<1>1. Init => PoolInv
  BY PoolInit
<1> QED
  BY <1>1, PoolStep, TypeCorrect, PTL DEF Spec, IInv

\* SAFETY comments of run and take_units: a worker dereferences the job's
\* function and calls it only inside the run that borrowed it.
THEOREM FunctionAlwaysLive == Spec => []FunctionLive
<1>1. IInv => FunctionLive
  BY DEF IInv, PoolInv, QuietBetweenJobs, LoadInv, FunctionLive, Busy
<1> QED
  BY <1>1, PoolInvariant, PTL

\* Between jobs nothing is held and nothing can be claimed, whatever word a
\* descheduled worker still has, even after the job number has wrapped.
THEOREM AlwaysQuietBetweenJobs == Spec => []QuietBetweenJobs
<1>1. IInv => QuietBetweenJobs
  BY DEF IInv, PoolInv
<1> QED
  BY <1>1, PoolInvariant, PTL

\* Pool::run: "f(task, thread) for every task in 0..tasks ... returns when
\* all are done", and no task twice.
THEOREM EachTaskRunsOnce == Spec => []EachTaskOnce
<1>1. IInv => EachTaskOnce
  <2>1. SUFFICES ASSUME IInv PROVE EachTaskOnce
    OBVIOUS
  <2>2. ~Preparing /\ ~InJob => \A i \in DOMAIN hits : hits[i] = 1
    BY <2>1 DEF IInv, PoolInv, ReturnedInv
  <2>3. Preparing => \A i \in DOMAIN hits : hits[i] = 0
    BY <2>1 DEF IInv, PoolInv, FreshInv
  <2>4. ASSUME InJob, NEW i \in DOMAIN hits PROVE hits[i] <= 1
    <3>1. tasks \in Nat \ {0} /\ per = Per(tasks) /\ i \in 0 .. (tasks - 1)
      BY <2>1, <2>4 DEF IInv, PoolInv, JobInv, TypeOK
    <3>2. PICK u \in 0 .. (Units(tasks) - 1) : i \in TasksOf(u, per, tasks)
      BY <3>1, UnitsPartitionTasks
    <3> QED
      BY <2>1, <2>4, <3>2 DEF IInv, PoolInv, HitsInv
  <2>5. pc[0] = "idle" => ~Preparing /\ ~InJob
    BY DEF Preparing, InJob, JobLabels
  <2>6. \A i \in DOMAIN hits : hits[i] <= 1
    BY <2>2, <2>3, <2>4
  <2> QED
    BY <2>2, <2>5, <2>6 DEF EachTaskOnce
<1> QED
  BY <1>1, PoolInvariant, PTL

-----------------------------------------------------------------------------
(* A wake in two steps: its flag is cleared first, and its token given next. *)
Wakes(t, i) == pc[t] \in {"unpark", "dropUnpark"} /\ cursor[t] = i

WakeComing(i) == token[i] \/ \E t \in Threads : Wakes(t, i)

(* A worker a step neither parks nor robs of its flag or token keeps the     *)
(* wake that is on its way.                                                  *)
LEMMA WakeFrame ==
    ASSUME NoLostWake, NEW i \in Workers,
           pc'[i] = "park" => pc[i] = "park",
           parked'[i] = parked[i], token'[i] = token[i],
           \A t \in Threads : Wakes(t, i) => pc'[t] = pc[t] /\ cursor'[t] = cursor[t]
    PROVE  (pc[i] = "park" /\ ~parked[i] => WakeComing(i))'
  BY Zenon DEF NoLostWake, WakeComing, Wakes

LEMMA WakeWorker ==
    ASSUME TypeOK, NoLostWake, NEW i \in Workers, NEW j \in Workers, Worker(j) \/ ParkSpurious(j)
    PROVE  (pc[i] = "park" /\ ~parked[i] => WakeComing(i))'
<1>1. i \in Threads /\ j \in Threads
  BY ThreadZero
<1>2. cursor' = cursor /\ ~ pc[j] \in {"unpark", "dropUnpark"} /\ \A t \in Threads : t # j => pc'[t] = pc[t]
  BY <1>1 DEF TypeOK, Worker, SetFlag, StoreFlag, Check, ParkReturns, ParkSpurious, Unflag, SeesMoved, Joins, Goto, waking
<1>3. CASE i # j
  <2>1. pc'[i] = pc[i]
    BY <1>1, <1>2, <1>3
  <2>2. parked'[i] = parked[i]
    BY <1>3 DEF TypeOK, Worker, SetFlag, StoreFlag, Check, ParkReturns, ParkSpurious, Unflag, SeesMoved, Joins, flags
  <2>3. token'[i] = token[i]
    BY <1>3 DEF TypeOK, Worker, SetFlag, StoreFlag, Check, ParkReturns, ParkSpurious, Unflag, SeesMoved, Joins, flags
  <2>4. \A t \in Threads : Wakes(t, i) => pc'[t] = pc[t] /\ cursor'[t] = cursor[t]
    BY <1>2 DEF Wakes
  <2> QED  BY <2>1, <2>2, <2>3, <2>4, WakeFrame
<1>4. CASE i = j
  <2>1. CASE Check(i)
    BY <1>1, <2>1 DEF Check, Goto, flags, TypeOK
  <2>2. CASE ~Check(i)
    <3>1. pc'[i] # "park"
      BY <1>1, <1>4, <2>2 DEF TypeOK, Worker, SetFlag, StoreFlag, ParkReturns, ParkSpurious, Unflag, SeesMoved, Joins, Goto
    <3> QED  BY <3>1
  <2> QED  BY <2>1, <2>2
<1> QED  BY <1>3, <1>4

(* Who clears a flag goes on to give its token. *)
LEMMA WakeClears ==
    ASSUME TypeOK, NoLostWake, NEW i \in Workers, NEW t \in Threads, cursor[t] \in Workers,
           pc[t] \notin {"unpark", "dropUnpark"}, NEW next \in {"unpark", "dropUnpark"}, Goto(t, next),
           parked' = [parked EXCEPT ![cursor[t]] = FALSE], UNCHANGED <<token, cursor>>
    PROVE  (pc[i] = "park" /\ ~parked[i] => WakeComing(i))'
<1>1. pc'[t] = next /\ \A u \in Threads : u # t => pc'[u] = pc[u]
  BY DEF Goto, TypeOK
<1>2. CASE i = cursor[t]
  BY <1>1, <1>2 DEF WakeComing, Wakes
<1>3. CASE i # cursor[t]
  <2>1. parked'[i] = parked[i] /\ token'[i] = token[i]
    BY <1>3 DEF TypeOK
  <2>2. pc'[i] = "park" => pc[i] = "park"
    BY <1>1, ThreadZero
  <2>3. \A u \in Threads : Wakes(u, i) => pc'[u] = pc[u] /\ cursor'[u] = cursor[u]
    BY <1>1 DEF Wakes
  <2> QED  BY <2>1, <2>2, <2>3, WakeFrame
<1> QED  BY <1>2, <1>3

LEMMA WakeGives ==
    ASSUME TypeOK, NoLostWake, NEW i \in Workers, NEW t \in Threads, cursor[t] \in Workers,
           NEW next \in {"wakeHas", "dropFlag"}, Goto(t, next),
           token' = [token EXCEPT ![cursor[t]] = TRUE], cursor' = [cursor EXCEPT ![t] = @ + 1], UNCHANGED parked
    PROVE  (pc[i] = "park" /\ ~parked[i] => WakeComing(i))'
<1>1. pc'[t] = next /\ \A u \in Threads : u # t => pc'[u] = pc[u] /\ cursor'[u] = cursor[u]
  BY DEF Goto, TypeOK
<1>2. CASE i = cursor[t]
  BY <1>2 DEF WakeComing, TypeOK
<1>3. CASE i # cursor[t]
  <2>1. parked'[i] = parked[i] /\ token'[i] = token[i]
    BY <1>3 DEF TypeOK
  <2>2. pc'[i] = "park" => pc[i] = "park"
    BY <1>1, ThreadZero
  <2>3. \A u \in Threads : Wakes(u, i) => pc'[u] = pc[u] /\ cursor'[u] = cursor[u]
    BY <1>1, <1>3 DEF Wakes
  <2> QED  BY <2>1, <2>2, <2>3, WakeFrame
<1> QED  BY <1>2, <1>3

(* Any other step of a thread that wakes nobody. *)
LEMMA WakeElsewhere ==
    ASSUME TypeOK, NoLostWake, NEW i \in Workers, NEW t \in Threads,
           pc[t] \notin {"unpark", "dropUnpark"}, NEW next \in CallerLabels \union {"spin"}, pc' = [pc EXCEPT ![t] = next],
           \A u \in Threads : u # t => cursor'[u] = cursor[u], UNCHANGED flags
    PROVE  (pc[i] = "park" /\ ~parked[i] => WakeComing(i))'
<1>1. next # "park"
  BY DEF CallerLabels, JobLabels
<1>2. pc'[t] = next /\ \A u \in Threads : u # t => pc'[u] = pc[u]
  BY DEF TypeOK
<1>3. parked'[i] = parked[i] /\ token'[i] = token[i]
  BY DEF flags
<1>4. pc'[i] = "park" => pc[i] = "park"
  BY <1>1, <1>2 DEF Threads
<1>5. \A u \in Threads : Wakes(u, i) => pc'[u] = pc[u] /\ cursor'[u] = cursor[u]
  BY <1>2 DEF Wakes
<1> QED  BY <1>3, <1>4, <1>5, WakeFrame

LEMMA WakeJob ==
    ASSUME TypeOK, NoLostWake, NEW i \in Workers, NEW t \in Threads, Job(t)
    PROVE  (pc[i] = "park" /\ ~parked[i] => WakeComing(i))'
<1>1. CASE Scan(t)
  <2>1. CASE parked[cursor[t]]
    BY <1>1, <2>1, WakeClears DEF Scan
  <2>2. CASE ~parked[cursor[t]]
    <3>1. pc' = [pc EXCEPT ![t] = "scan"] /\ \A u \in Threads : u # t => cursor'[u] = cursor[u]
      BY <1>1, <2>2 DEF Scan, TypeOK
    <3>2. UNCHANGED flags /\ pc[t] = "scan"
      BY <1>1, <2>2 DEF Scan, flags
    <3> QED  BY <3>1, <3>2, WakeElsewhere DEF CallerLabels, JobLabels
  <2> QED  BY <2>1, <2>2
<1>2. CASE Unpark(t)
  BY <1>2, WakeGives DEF Unpark, TypeOK
<1>3. CASE ~Scan(t) /\ ~Unpark(t)
  <2>1. pc[t] \in {"wakeHas", "wakeTake", "scan", "read", "cas", "load", "call", "count"} /\ UNCHANGED flags
    BY <1>3 DEF Job, WakeHas, WakeTake, GiveBack, ReadWord, Claim, ClaimFails, Load, Call, Count, NoUnitLeft
  <2>2. \A u \in Threads : u # t => cursor'[u] = cursor[u]
    BY <1>3 DEF Job, WakeHas, WakeTake, GiveBack, LeaveWake, ReadWord, Claim, ClaimFails, Load, Call, Count, NoUnitLeft, waking, TypeOK
  <2>3. \E next \in CallerLabels \union {"spin"} : pc' = [pc EXCEPT ![t] = next]
    <3>1. CASE ClaimFails(t)
      <4>1. pc' = [pc EXCEPT ![t] = "cas"]
        BY <3>1 DEF ClaimFails, TypeOK
      <4> QED  BY <4>1 DEF CallerLabels, JobLabels
    <3>2. CASE ~ClaimFails(t)
      BY <1>3, <3>2 DEF Job, WakeHas, WakeTake, GiveBack, LeaveWake, ReadWord, Claim, Load, Call, Count, NoUnitLeft, Goto,
         CallerLabels, JobLabels
    <3> QED  BY <3>1, <3>2
  <2> QED  BY <2>1, <2>2, <2>3, WakeElsewhere
<1> QED  BY <1>1, <1>2, <1>3

LEMMA WakeCaller ==
    ASSUME TypeOK, NoLostWake, NEW i \in Workers, Caller
    PROVE  (pc[i] = "park" /\ ~parked[i] => WakeComing(i))'
<1>1. CASE DropFlag
  <2>1. CASE cursor[0] \in Workers
    BY <1>1, <2>1, ThreadZero, WakeClears DEF DropFlag, waking
  <2>2. CASE cursor[0] \notin Workers
    <3>1. pc[0] = "dropFlag" /\ Goto(0, "join") /\ UNCHANGED <<flags, cursor>>
      BY <1>1, <2>2 DEF DropFlag, flags, waking
    <3> QED  BY <3>1, ThreadZero, WakeElsewhere DEF Goto, CallerLabels
  <2> QED  BY <2>1, <2>2
<1>2. CASE DropUnpark
  BY <1>2, ThreadZero, WakeGives DEF DropUnpark, TypeOK
<1>3. CASE \E n \in Sizes : RunInline(n)
  <2>1. pc' = pc /\ UNCHANGED flags /\ cursor' = cursor
    BY <1>3 DEF RunInline, vars, flags
  <2> QED  BY <2>1, WakeFrame DEF flags
<1>4. CASE (\E n \in Sizes : Run(n)) \/ StoreWant \/ Publish \/ Return \/ DropClaim \/ Join \/ Release
  <2>1. pc[0] \in {"idle", "want", "publish", "wait", "dropClaim", "join"} /\ UNCHANGED <<flags, cursor>>
    BY <1>4 DEF Run, StoreWant, Publish, Return, DropClaim, Join, Release, flags, waking
  <2>2. \E next \in CallerLabels \union {"spin"} : pc' = [pc EXCEPT ![0] = next]
    BY <1>4 DEF Run, StoreWant, Publish, Return, DropClaim, Join, Release, Goto, CallerLabels, JobLabels
  <2> QED  BY <2>1, <2>2, ThreadZero, WakeElsewhere
<1> QED  BY <1>1, <1>2, <1>3, <1>4 DEF Caller, InCall

(* A worker that parks with its flag cleared has a token or a waker that     *)
(* will give it one, whatever the order of the flag, the word and the token. *)
THEOREM NoWakeIsLost == Spec => []NoLostWake
<1>1. Init => NoLostWake
  BY DEF Init, NoLostWake, Workers, Threads
<1>2. TypeOK /\ NoLostWake /\ [Next]_vars => NoLostWake'
  <2> SUFFICES ASSUME TypeOK, NoLostWake, [Next]_vars, NEW i \in Workers
               PROVE  (pc[i] = "park" /\ ~parked[i] => WakeComing(i))'
    BY DEF NoLostWake, WakeComing, Wakes
  <2>1. CASE UNCHANGED vars
    BY <2>1, WakeFrame DEF vars
  <2> QED  BY <2>1, WakeCaller, WakeJob, WakeWorker DEF Next
<1> QED  BY <1>1, <1>2, TypeCorrect, PTL DEF Spec

-----------------------------------------------------------------------------
(* The release of the pool *)

DropLabels == {"dropClaim", "dropFlag", "dropUnpark", "join", "released"}

\* The dropper has not come to worker i.
ToCome(i) ==
    \/ pc[0] = "dropClaim"
    \/ pc[0] = "dropFlag" /\ cursor[0] <= i
    \/ pc[0] = "dropUnpark" /\ cursor[0] < i

\* A worker that is parked with its flag set as the pool stops parked before,
\* and is unparked by the dropper, whose walk begins at the first.
DropInv ==
    /\ stop <=> pc[0] \in DropLabels
    /\ pc[0] \in {"idle", "want", "publish", "wait", "dropClaim", "read", "cas", "load", "call", "count"} =>
          cursor[0] = 1
    /\ cursor[0] # 0
    /\ \A i \in Workers : stop /\ pc[i] = "park" /\ parked[i] => ToCome(i)

\* A worker that is parked while the pool stops has its token, or somebody is on
\* the way to give it.
DropReaches ==
    \A i \in Workers : stop /\ pc[i] = "park" =>
        \/ token[i]
        \/ \E t \in Threads : pc[t] \in {"unpark", "dropUnpark"} /\ cursor[t] = i
        \/ ToCome(i)

LEMMA DropWorker ==
    ASSUME TypeOK, DropInv, NEW j \in Workers, Worker(j) \/ ParkSpurious(j)
    PROVE  DropInv'
<1>1. j \in Threads /\ j # 0 /\ 0 \in Threads
  BY ThreadZero
<1>2. /\ stop' = stop /\ cursor' = cursor
      /\ \A t \in Threads : t # j => pc'[t] = pc[t]
      /\ \A i \in Workers : i # j => parked'[i] = parked[i]
  BY <1>1 DEF TypeOK, Worker, SetFlag, StoreFlag, Check, ParkReturns, ParkSpurious, Unflag, SeesMoved, Joins,
     Goto, waking, flags, shared
<1>3. pc'[j] = "park" => ~stop
  BY <1>1 DEF TypeOK, Worker, SetFlag, StoreFlag, Check, ParkReturns, ParkSpurious, Unflag, SeesMoved, Joins,
     Goto, Moved
<1>4. ASSUME NEW i \in Workers, stop', pc'[i] = "park", parked'[i] PROVE ToCome(i)'
  <2>1. i # j /\ i \in Threads
    BY <1>2, <1>3, <1>4, ThreadZero
  <2>2. ToCome(i)
    BY <1>2, <1>4, <2>1 DEF DropInv
  <2> QED  BY <1>1, <1>2, <2>2 DEF ToCome
<1> QED  BY <1>1, <1>2, <1>4 DEF DropInv

LEMMA DropJob ==
    ASSUME TypeOK, DropInv, NEW t \in Threads, Job(t)
    PROVE  DropInv'
<1>1. /\ stop' = stop
      /\ pc[t] \in {"wakeHas", "wakeTake", "scan", "unpark", "read", "cas", "load", "call", "count"}
      /\ pc'[t] \in {"wakeHas", "wakeTake", "scan", "unpark", "read", "cas", "load", "call", "count", "wait", "spin"}
      /\ \A u \in Threads : u # t => pc'[u] = pc[u] /\ cursor'[u] = cursor[u]
  BY DEF TypeOK, Job, WakeHas, WakeTake, Scan, GiveBack, Unpark, LeaveWake, ReadWord, Claim, ClaimFails, Load,
     Call, Count, NoUnitLeft, Goto, shared, waking
<1>2. \A i \in Workers : parked'[i] => parked[i]
  BY DEF TypeOK, Job, WakeHas, WakeTake, Scan, GiveBack, Unpark, ReadWord, Claim, ClaimFails, Load,
     Call, Count, NoUnitLeft, flags
<1>3. CASE t # 0
  <2>1. pc'[0] = pc[0] /\ cursor'[0] = cursor[0]
    BY <1>1, <1>3, ThreadZero
  <2>2. \A i \in Workers : pc'[i] = "park" => pc[i] = "park"
    BY <1>1, ThreadZero
  <2> QED  BY <1>1, <1>2, <2>1, <2>2 DEF DropInv, ToCome
<1>4. CASE t = 0
  <2>1. ~stop' /\ pc'[0] \notin DropLabels
    BY <1>1, <1>4 DEF DropInv, DropLabels
  <2>2. pc'[0] \in {"read", "cas", "load", "call", "count", "wait"} => cursor'[0] = 1
    <3>1. CASE pc[0] \in {"wakeHas", "wakeTake", "scan", "unpark"}
      BY <1>4, <3>1 DEF TypeOK, Job, WakeHas, WakeTake, Scan, GiveBack, Unpark, LeaveWake, ReadWord, Claim,
         ClaimFails, Load, Call, Count, NoUnitLeft, Goto
    <3>2. CASE pc[0] \in {"read", "cas", "load", "call", "count"}
      <4>1. cursor' = cursor
        BY <1>4, <3>2 DEF Job, WakeHas, WakeTake, Scan, GiveBack, Unpark, ReadWord, Claim, ClaimFails, Load,
           Call, Count, NoUnitLeft, waking
      <4> QED  BY <3>2, <4>1 DEF DropInv
    <3> QED  BY <1>1, <1>4, <3>1, <3>2
  <2>3. cursor'[0] # 0
    <3>1. cursor[0] \in Nat /\ cursor[0] # 0
      BY ThreadZero DEF TypeOK, DropInv
    <3>2. cursor'[0] \in {1, cursor[0], cursor[0] + 1}
      BY <1>4 DEF TypeOK, Job, WakeHas, WakeTake, Scan, GiveBack, Unpark, LeaveWake, ReadWord, Claim,
         ClaimFails, Load, Call, Count, NoUnitLeft, Goto, waking
    <3> QED  BY <3>1, <3>2
  <2> QED  BY <1>1, <1>4, <2>1, <2>2, <2>3 DEF DropInv, DropLabels
<1> QED  BY <1>3, <1>4

LEMMA DropCaller ==
    ASSUME TypeOK, DropInv, Caller
    PROVE  DropInv'
<1>1. 0 \in Threads /\ \A i \in Workers : i # 0 /\ i \in Threads /\ i \in 1 .. N
  BY ThreadZero DEF Workers
<1>2. \A i \in Workers : pc'[i] = pc[i]
  BY <1>1 DEF TypeOK, Caller, InCall, RunInline, Run, StoreWant, Publish, Return, DropClaim, DropFlag, DropUnpark,
     Join, Release, Goto, vars
<1>3. \A i \in Workers : parked'[i] => parked[i]
  BY DEF TypeOK, Caller, InCall, RunInline, Run, StoreWant, Publish, Return, DropClaim, DropFlag, DropUnpark,
     Join, Release, flags, vars
<1>4. CASE (\E n \in Sizes : RunInline(n) \/ Run(n)) \/ StoreWant \/ Publish \/ Return
  <2>1. /\ stop' = stop /\ cursor' = cursor
        /\ pc[0] \in {"idle", "want", "publish", "wait"} /\ pc'[0] \in {"idle", "want", "publish", "wakeHas"}
    BY <1>1, <1>4 DEF TypeOK, RunInline, Run, StoreWant, Publish, Return, Goto, vars, waking, shared
  <2> QED  BY <2>1 DEF DropInv, DropLabels
<1>5. CASE Release
  <2>1. cursor' = cursor /\ pc[0] = "idle" /\ pc'[0] = "dropClaim" /\ stop'
    BY <1>1, <1>5 DEF TypeOK, Release, Goto, waking
  <2> QED  BY <2>1 DEF DropInv, DropLabels, ToCome
<1>6. CASE DropClaim
  <2>1. cursor' = cursor /\ pc[0] = "dropClaim" /\ pc'[0] = "dropFlag" /\ stop' = stop
    BY <1>1, <1>6 DEF TypeOK, DropClaim, Goto, waking
  <2>2. stop /\ cursor'[0] = 1
    BY <2>1 DEF DropInv, DropLabels
  <2> QED  BY <1>1, <2>1, <2>2 DEF DropInv, DropLabels, ToCome
<1>7. CASE DropFlag
  <2>1. cursor' = cursor /\ pc[0] = "dropFlag" /\ stop' = stop /\ pc'[0] \in {"dropUnpark", "join"} /\ stop
    BY <1>1, <1>7 DEF TypeOK, DropFlag, Goto, waking, shared, DropInv, DropLabels
  <2>2. cursor[0] \in Nat
    BY <1>1 DEF TypeOK
  <2>3. ASSUME NEW i \in Workers, pc'[i] = "park", parked'[i]
        PROVE  ToCome(i)'
    <3>1. cursor[0] <= i
      BY <1>2, <1>3, <2>1, <2>3 DEF DropInv, ToCome
    <3>2. cursor[0] \in Workers
      <4>1. cursor[0] # 0
        BY <1>7, <2>1, <2>2 DEF DropInv, DropLabels, TypeOK, DropFlag
      <4> QED  BY <1>1, <2>2, <3>1, <4>1, PoolAssumption DEF Workers
    <3>3. parked' = [parked EXCEPT ![cursor[0]] = FALSE] /\ pc'[0] = "dropUnpark"
      BY <1>1, <1>7, <3>2 DEF DropFlag, Goto, TypeOK
    <3>4. cursor[0] # i
      BY <2>3, <3>2, <3>3 DEF TypeOK
    <3> QED  BY <1>1, <2>1, <2>2, <3>1, <3>3, <3>4 DEF ToCome
  <2> QED  BY <2>1, <2>3 DEF DropInv, DropLabels
<1>8. CASE DropUnpark
  <2>1. /\ pc[0] = "dropUnpark" /\ stop' = stop /\ pc'[0] = "dropFlag" /\ stop
        /\ cursor'[0] = cursor[0] + 1 /\ cursor[0] \in Nat
    BY <1>1, <1>8 DEF TypeOK, DropUnpark, Goto, shared, DropInv, DropLabels
  <2> QED  BY <1>1, <1>2, <1>3, <2>1 DEF DropInv, DropLabels, ToCome
<1>9. CASE Join
  <2>1. /\ pc'[0] = "released" /\ stop' = stop /\ stop /\ cursor' = cursor /\ \A i \in Workers : pc[i] = "stopped"
    BY <1>1, <1>9 DEF TypeOK, Join, Goto, shared, waking, DropInv, DropLabels
  <2> QED  BY <1>2, <2>1 DEF DropInv, DropLabels
<1> QED  BY <1>4, <1>5, <1>6, <1>7, <1>8, <1>9 DEF Caller, InCall

\* No worker sleeps through the pool's release, wherever it was between its flag,
\* the claim word and its parking when stop was set (cpu/pool.rs Drop for Pool, worker):
\* the part of DropEnds that needs no fairness.
THEOREM ReleaseReachesAll == Spec => []DropReaches
<1>1. Init => DropInv
  BY ThreadZero DEF Init, DropInv, DropLabels
<1>2. TypeOK /\ DropInv /\ [Next]_vars => DropInv'
  <2>1. UNCHANGED vars /\ DropInv => DropInv'
    BY DEF vars, flags, DropInv, ToCome
  <2> QED  BY <2>1, DropCaller, DropJob, DropWorker DEF Next
<1>3. DropInv /\ NoLostWake => DropReaches
  BY DEF DropInv, NoLostWake, DropReaches
<1> QED  BY <1>1, <1>2, <1>3, TypeCorrect, NoWakeIsLost, PTL DEF Spec

-----------------------------------------------------------------------------
(* The end of run *)

\* The caller's copy of the claim word is of its own job, so it waits only for
\* units that others have taken.
CallerInv ==
    /\ pc[0] = "cas" => w[0].units = claim.units /\ w[0].next <= claim.next
    /\ pc[0] \in {"load", "call", "count"} => w[0].units = claim.units
    /\ pc[0] = "wait" => ~HasUnits(claim)

\* While run waits, its job is done or a thread is at one of its units.
RunIsAnswered == pc[0] = "wait" => done = Units(tasks) \/ \E t \in Threads : Busy(t)

LEMMA CallerKeeps ==
    ASSUME IInv, CallerInv, [Next]_vars
    PROVE  CallerInv'
<1>1. /\ 0 \in Threads /\ claim \in WordType /\ w[0] \in WordType
      /\ pc \in [Threads -> CallerLabels \union WorkerLabels] /\ w \in [Threads -> WordType]
  BY ThreadZero DEF IInv, TypeOK
<1>2. CASE UNCHANGED <<pc, w, claim>>
  BY <1>2 DEF CallerInv, HasUnits
<1>3. CASE Caller
  <2>1. CASE UNCHANGED vars
    BY <1>2, <2>1 DEF vars
  <2>2. CASE ~UNCHANGED vars
    <3>1. pc'[0] \notin {"cas", "load", "call", "count", "wait"}
      BY <1>1, <1>3, <2>2 DEF Caller, InCall, RunInline, Run, StoreWant, Publish, Return, DropClaim, DropFlag,
         DropUnpark, Join, Release, Goto
    <3> QED  BY <3>1 DEF CallerInv
  <2> QED  BY <2>1, <2>2
<1>4. ASSUME NEW i \in Workers, Worker(i) \/ ParkSpurious(i) PROVE CallerInv'
  <2>1. pc'[0] = pc[0] /\ w' = w /\ claim' = claim
    BY <1>1, <1>4, ThreadZero DEF Worker, SetFlag, StoreFlag, Check, ParkReturns, ParkSpurious, Unflag,
       SeesMoved, Joins, Goto, shared
  <2> QED  BY <2>1 DEF CallerInv, HasUnits
<1>5. ASSUME NEW t \in Threads, t # 0, Job(t) PROVE CallerInv'
  <2>1. pc'[0] = pc[0] /\ w'[0] = w[0]
    BY <1>1, <1>5 DEF Job, WakeHas, WakeTake, Scan, GiveBack, Unpark, LeaveWake, ReadWord, Claim, ClaimFails,
       Load, Call, Count, NoUnitLeft, Goto
  <2>2. CASE Claim(t)
    <3>1. HasUnits(claim) /\ claim'.units = claim.units /\ claim'.next = claim.next + 1
      BY <1>1, <2>2 DEF Claim, WordType
    <3> QED  BY <1>1, <2>1, <3>1 DEF CallerInv, WordType
  <2>3. CASE ~Claim(t)
    <3>1. claim' = claim
      BY <1>5, <2>3 DEF Job, WakeHas, WakeTake, Scan, GiveBack, Unpark, LeaveWake, ReadWord, ClaimFails,
         Load, Call, Count, NoUnitLeft, shared
    <3> QED  BY <2>1, <3>1 DEF CallerInv, HasUnits
  <2> QED  BY <2>2, <2>3
<1>6. CASE Job(0)
  <2>1. CASE ReadWord(0) \/ ClaimFails(0)
    <3>1. pc'[0] = "cas" /\ w'[0] = claim /\ claim' = claim
      BY <1>1, <2>1 DEF ReadWord, ClaimFails, Goto, shared
    <3> QED  BY <1>1, <3>1 DEF CallerInv, WordType
  <2>2. CASE Claim(0)
    <3>1. pc'[0] = "load" /\ w'[0] = claim /\ claim'.units = claim.units
      BY <1>1, <2>2 DEF Claim, Goto, WordType
    <3> QED  BY <3>1 DEF CallerInv
  <2>3. CASE Load(0) \/ Call(0)
    <3>1. pc[0] \in {"load", "call"} /\ pc'[0] \in {"call", "count"} /\ w' = w /\ claim' = claim
      BY <1>1, <2>3 DEF Load, Call, Goto, shared
    <3> QED  BY <3>1 DEF CallerInv
  <2>4. CASE Count(0)
    <3>1. /\ pc[0] = "count" /\ pc'[0] = "cas" /\ claim' = claim
          /\ w'[0].units = w[0].units /\ w'[0].next = w[0].next + 1
      BY <1>1, <2>4 DEF Count, Goto, WordType
    <3>2. w[0].next \in 0 .. (claim.next - 1)
      BY <1>1, <3>1 DEF IInv, PoolInv, UnitsInv, InJob, JobLabels, Busy
    <3> QED  BY <1>1, <3>1, <3>2 DEF CallerInv, WordType
  <2>5. CASE NoUnitLeft(0)
    <3>1. pc[0] = "cas" /\ ~HasUnits(w[0]) /\ pc'[0] = "wait" /\ claim' = claim
      BY <1>1, <2>5 DEF NoUnitLeft, Goto, shared
    <3> QED  BY <1>1, <3>1 DEF CallerInv, HasUnits, WordType
  <2>6. CASE WakeHas(0) \/ WakeTake(0) \/ Scan(0) \/ GiveBack(0) \/ Unpark(0)
    <3>1. pc'[0] \notin {"cas", "load", "call", "count", "wait"}
      BY <1>1, <2>6 DEF WakeHas, WakeTake, Scan, GiveBack, Unpark, LeaveWake, Goto
    <3> QED  BY <3>1 DEF CallerInv
  <2> QED  BY <1>6, <2>1, <2>2, <2>3, <2>4, <2>5, <2>6 DEF Job
<1> QED  BY <1>2, <1>3, <1>4, <1>5, <1>6 DEF Next, vars

\* run never spins for a unit nobody has: whatever stale words its threads hold,
\* what is not done when it waits is at a thread that calls it or counts it
\* (cpu/pool.rs run, take_units): the part of RunReturns that needs no fairness.
THEOREM RunWaitsForWork == Spec => []RunIsAnswered
<1>1. Init => CallerInv
  BY ThreadZero DEF Init, CallerInv
<1>2. IInv /\ CallerInv => RunIsAnswered
  <2> SUFFICES ASSUME IInv, CallerInv, pc[0] = "wait", \A t \in Threads : ~Busy(t)
               PROVE  done = Units(tasks)
    BY DEF RunIsAnswered
  <2>1. claim \in WordType /\ InJob /\ ~HasUnits(claim)
    BY DEF IInv, TypeOK, InJob, CallerInv
  <2>2. claim.next = Units(tasks) /\ claim.next \in Nat
    BY <2>1 DEF IInv, PoolInv, WordInv, HasUnits, WordType
  <2>3. finished = 0 .. (claim.next - 1) /\ done = Cardinality(finished)
    BY <2>1 DEF IInv, PoolInv, UnitsInv
  <2> QED  BY <2>2, <2>3, CardinalityBelow
<1> QED  BY <1>1, <1>2, CallerKeeps, PoolInvariant, PTL DEF Spec

-----------------------------------------------------------------------------
(* The pool implements ParallelFor *)

LEMMA LastUnitStarts ==
    ASSUME NEW a \in Nat \ {0}, NEW b \in Nat \ {0}
    PROVE  (DivCeil(a, b) - 1) * b < a
BY SMT DEF DivCeil

\* A unit of the job has a task.
LEMMA UnitHasTask ==
    ASSUME NEW n \in Nat \ {0}, NEW u \in 0 .. (Units(n) - 1)
    PROVE  TasksOf(u, Per(n), n) # {}
<1> DEFINE p == Per(n)
<1>1. p \in Nat \ {0} /\ Units(n) \in Nat \ {0}
  BY UnitsOf
<1>2. (Units(n) - 1) * p < n
  BY <1>1, LastUnitStarts DEF Units
<1> HIDE DEF p
<1>3. u * p <= (Units(n) - 1) * p
  BY <1>1, SMT
<1>4. u * p \in Nat /\ u * p < n /\ u * p < (u + 1) * p
  BY <1>1, <1>2, <1>3, SMT
<1>5. u * p \in TasksOf(u, p, n)
  BY <1>4 DEF TasksOf
<1> QED
  BY <1>5 DEF p

\* Taking unit c leaves the tasks of the units after it.
LEMMA RestAfter ==
    ASSUME NEW c \in Nat, NEW p \in Nat, NEW n \in Nat
    PROVE  {i \in 0 .. (n - 1) : (c + 1) * p <= i}
           = {i \in 0 .. (n - 1) : c * p <= i} \ TasksOf(c, p, n)
<1>1. c * p \in Nat /\ (c + 1) * p \in Nat /\ c * p <= (c + 1) * p
  BY SMT
<1>2. \A i \in 0 .. (n - 1) : (c + 1) * p <= i <=> ~(i < (c + 1) * p)
  BY <1>1
<1>3. \A i \in 0 .. (n - 1) : (c + 1) * p <= i => c * p <= i
  BY <1>1
<1> QED
  BY <1>2, <1>3, Zenon DEF TasksOf

LEMMA RefineInit == Init => PF!Init
<1> SUFFICES ASSUME Init PROVE PF!Init
  OBVIOUS
<1>1. pc \in [Threads -> {"idle", "spin"}] /\ pc[0] = "idle"
  BY ThreadZero DEF Init
<1>2. ~InJob /\ \A t \in Threads : ~Busy(t)
  BY <1>1 DEF InJob, JobLabels, Busy
<1> QED
  BY <1>1, <1>2 DEF PF!Init, Phase, Todo, Held

\* Where the job and the holders stay, only the phase can move.
LEMMA RefineFrame ==
    ASSUME Frame
    PROVE  Todo' = Todo /\ Held' = Held
<1>1. Todo' = Todo
  BY DEF Frame, Todo
<1>2. \A t \in Threads : Busy(t)' <=> Busy(t)
  BY DEF Frame, Busy
<1>3. \A t \in Threads : Busy(t) => w'[t] = w[t]
  BY DEF Frame
<1>4. per' = per /\ tasks' = tasks
  BY DEF Frame
<1>5. Held' = Held
  BY <1>2, <1>3, <1>4 DEF Held, TasksOf
<1> QED
  BY <1>1, <1>5

LEMMA RefineQuiet ==
    ASSUME PoolInv, ~InJob
    PROVE  Todo = {} /\ Held = [t \in Threads |-> {}]
BY DEF PoolInv, QuietBetweenJobs, Todo, Held

LEMMA RefineQuietNext ==
    ASSUME PoolInv', ~InJob'
    PROVE  Todo' = {} /\ Held' = [t \in Threads |-> {}]
BY DEF PoolInv, QuietBetweenJobs, Todo, Held

LEMMA RefineJob ==
    ASSUME IInv, PoolInv', NEW t \in Threads, Job(t)
    PROVE  [PF!Next]_PF!vars
<1> USE DEF IInv
<1>1. ASSUME \/ WakeHas(t) \/ WakeTake(t) \/ Scan(t) \/ GiveBack(t) \/ Unpark(t)
             \/ ReadWord(t) \/ ClaimFails(t) \/ NoUnitLeft(t)
      PROVE  UNCHANGED PF!vars
  <2>1. Frame
    BY <1>1, FrameJob
  <2>2. pc[0] \in {"idle", "want", "publish"} <=> pc'[0] \in {"idle", "want", "publish"}
    <3>1. CASE t = 0
      BY <1>1, <3>1, ThreadZero
      DEF TypeOK, WakeHas, WakeTake, Scan, GiveBack, Unpark, ReadWord, ClaimFails,
          NoUnitLeft, LeaveWake, Goto
    <3>2. CASE t # 0
      BY <1>1, <3>2, ThreadZero
      DEF TypeOK, WakeHas, WakeTake, Scan, GiveBack, Unpark, ReadWord, ClaimFails,
          NoUnitLeft, LeaveWake, Goto
    <3> QED
      BY <3>1, <3>2
  <2>3. Phase' = Phase
    BY <2>1, <2>2 DEF Frame, Phase
  <2> QED
    BY <2>1, <2>3, RefineFrame DEF PF!vars
<1>2. ASSUME Claim(t) \/ Load(t) \/ Call(t) \/ Count(t)
      PROVE  /\ InJob /\ InJob'
             /\ Phase = "running" /\ Phase' = "running"
             /\ per' = per /\ tasks' = tasks
             /\ per = Per(tasks) /\ per \in Nat \ {0} /\ tasks \in Nat \ {0}
             /\ \A x \in Threads : x # t => (Busy(x)' <=> Busy(x)) /\ w'[x] = w[x]
  <2>1. InJob
    BY <1>2 DEF PoolInv, QuietBetweenJobs, Busy, Claim, Load, Call, Count
  <2>2. /\ per' = per /\ tasks' = tasks
        /\ pc'[t] \in JobLabels
        /\ \A x \in Threads : x # t => pc'[x] = pc[x] /\ w'[x] = w[x]
    BY <1>2 DEF TypeOK, Claim, Load, Call, Count, Goto, shared, flags, waking, history,
       JobLabels
  <2>3. InJob'
    BY <2>1, <2>2, ThreadZero DEF InJob
  <2>4. per = Per(tasks) /\ tasks \in Nat \ {0}
    BY <2>1 DEF PoolInv, JobInv, TypeOK
  <2> QED
    BY <2>1, <2>2, <2>3, <2>4, UnitsOf DEF Phase, Busy
<1>3. CASE Claim(t)
  <2> DEFINE S == TasksOf(claim.next, per, tasks)
  <2>1. /\ w[t] = claim /\ w' = w /\ claim'.next = claim.next + 1
        /\ claim.next \in Nat
        /\ pc[t] = "cas" /\ pc'[t] = "load" /\ HasUnits(claim)
    BY <1>3 DEF Claim, TypeOK, WordType, Goto
  <2>2. claim.next \in 0 .. (Units(tasks) - 1)
    BY <1>2, <1>3, <2>1, UnitsOf DEF PoolInv, WordInv, HasUnits
  <2>3. S # {}
    BY <1>2, <1>3, <2>2, UnitHasTask
  <2>4. S \subseteq Todo /\ Todo' = Todo \ S
    <3>1. Todo = {i \in 0 .. (tasks - 1) : claim.next * per <= i}
      BY <1>2, <1>3 DEF Todo
    <3>2. Todo' = {i \in 0 .. (tasks - 1) : (claim.next + 1) * per <= i}
      BY <1>2, <1>3, <2>1 DEF Todo
    <3> QED
      BY <1>2, <1>3, <2>1, <3>1, <3>2, RestAfter DEF TasksOf
  <2>5. Held[t] = {} /\ Held' = [Held EXCEPT ![t] = S]
    BY <1>2, <1>3, <2>1 DEF Held, Busy
  <2>6. PF!Take(t)
    BY <1>2, <1>3, <2>3, <2>4, <2>5 DEF PF!Take
  <2> QED
    BY <2>6 DEF PF!Next
<1>4. CASE Load(t) \/ Call(t)
  <2>1. Todo' = Todo
    BY <1>2, <1>4 DEF Todo, Load, Call, shared
  <2>2. Held' = Held
    <3>1. Busy(t) /\ Busy(t)' /\ w' = w
      BY <1>4 DEF TypeOK, Load, Call, Goto, Busy
    <3> QED
      BY <1>2, <1>4, <3>1 DEF Held
  <2> QED
    BY <1>2, <1>4, <2>1, <2>2 DEF PF!vars
<1>5. CASE Count(t)
  <2>1. Busy(t) /\ ~Busy(t)'
    BY <1>5 DEF TypeOK, Count, Goto, Busy
  <2>2. Todo' = Todo
    BY <1>2, <1>5 DEF Todo, Count
  <2>3. Held[t] # {}
    <3>1. w[t].next \in 0 .. (Units(tasks) - 1)
      <4>1. w[t].next \in 0 .. (claim.next - 1) /\ claim.next <= Units(tasks)
        BY <1>2, <1>5, <2>1 DEF PoolInv, UnitsInv, WordInv
      <4> QED
        BY <4>1, <1>2, <1>5, UnitsOf DEF TypeOK, WordType
    <3> QED
      BY <1>2, <1>5, <2>1, <3>1, UnitHasTask DEF Held
  <2>4. Held' = [Held EXCEPT ![t] = {}]
    BY <1>2, <1>5, <2>1 DEF Held
  <2>5. PF!Finish(t)
    BY <1>2, <1>5, <2>2, <2>3, <2>4 DEF PF!Finish
  <2> QED
    BY <2>5 DEF PF!Next
<1> QED
  BY <1>1, <1>3, <1>4, <1>5 DEF Job

LEMMA RefineCaller ==
    ASSUME IInv, PoolInv', Caller
    PROVE  [PF!Next]_PF!vars
<1> USE DEF IInv
<1>1. CASE \E n \in Sizes : RunInline(n)
  BY <1>1 DEF RunInline, vars, PF!vars, Phase, Todo, Held, InJob, Busy
<1>2. ASSUME NEW n \in Sizes, Run(n) PROVE UNCHANGED PF!vars
  <2>1. pc[0] = "idle" /\ pc'[0] = "want"
    BY <1>2, ThreadZero DEF Run, Goto, TypeOK
  <2>2. ~InJob /\ ~InJob'
    BY <2>1 DEF InJob, JobLabels
  <2> QED
    BY <2>1, <2>2, RefineQuiet, RefineQuietNext DEF PF!vars, Phase
<1>3. CASE StoreWant \/ DropFlag \/ DropUnpark \/ Join
  <2>1. Frame
    BY <1>3, FrameCaller
  <2>2. Phase' = Phase
    <3>1. /\ pc[0] \in {"want", "publish", "dropFlag", "dropUnpark", "join"}
          /\ pc'[0] = IF pc[0] = "want" THEN "publish" ELSE pc'[0]
          /\ pc[0] # "want" => pc'[0] \in {"dropFlag", "dropUnpark", "join", "released"}
      BY <1>3, ThreadZero DEF TypeOK, StoreWant, DropFlag, DropUnpark, Join, Goto
    <3>2. pc[0] # "publish"
      BY <1>3 DEF StoreWant, DropFlag, DropUnpark, Join
    <3> QED
      BY <2>1, <3>1, <3>2 DEF Frame, Phase
  <2> QED
    BY <2>1, <2>2, RefineFrame DEF PF!vars
<1>4. CASE Publish
  <2>1. /\ pc[0] = "publish" /\ pc'[0] = "wakeHas"
        /\ UNCHANGED <<per, tasks>> /\ claim'.next = 0
        /\ \A t \in Threads : t # 0 => pc'[t] = pc[t]
    BY <1>4, ThreadZero DEF Publish, Goto, TypeOK, Word
  <2>2. ~InJob /\ InJob' /\ Preparing
    BY <2>1 DEF InJob, Preparing, JobLabels
  <2>3. Phase = "idle" /\ Phase' = "running"
    BY <2>1, <2>2 DEF Phase
  <2>4. tasks \in Sizes /\ tasks \in Nat /\ per \in Nat
    BY <2>2 DEF PoolInv, JobInv, TypeOK
  <2>5. Todo' = 0 .. (tasks - 1)
    BY <2>1, <2>2, <2>4 DEF Todo
  <2>6. Held' = Held
    <3>1. \A t \in Threads : ~Busy(t) /\ ~Busy(t)'
      BY <2>1, <2>2, ThreadZero DEF PoolInv, QuietBetweenJobs, Busy
    <3> QED
      BY <3>1 DEF Held
  <2>7. PF!Start(tasks)
    BY <2>3, <2>5, <2>6 DEF PF!Start
  <2> QED
    BY <2>4, <2>7 DEF PF!Next
<1>5. CASE Return
  <2>1. pc[0] = "wait" /\ pc'[0] = "idle" /\ done = Units(tasks)
    BY <1>5, ThreadZero DEF Return, Goto, TypeOK
  <2>2. InJob /\ ~InJob'
    BY <2>1 DEF InJob, JobLabels
  <2>3. Phase = "running" /\ Phase' = "idle"
    BY <2>1, <2>2 DEF Phase
  <2>4. claim.next = Units(tasks) /\ \A t \in Threads : ~Busy(t)
    BY <2>1, <2>2, AllFinished
  <2>5. Todo = {}
    <3>1. tasks \in Nat \ {0} /\ per \in Nat \ {0} /\ per = Per(tasks)
      BY <2>2, UnitsOf DEF PoolInv, JobInv, TypeOK
    <3>2. tasks <= Units(tasks) * per
      BY <3>1, DivCeilBounds DEF Units
    <3>3. Units(tasks) * per \in Nat
      BY <3>1, UnitsOf, SMT
    <3> QED
      BY <2>2, <2>4, <3>1, <3>2, <3>3 DEF Todo
  <2>6. Held = [t \in Threads |-> {}]
    BY <2>4 DEF Held
  <2>7. Todo' = {} /\ Held' = [t \in Threads |-> {}]
    BY <2>2, RefineQuietNext
  <2>8. PF!Return
    BY <2>3, <2>5, <2>6, <2>7 DEF PF!Return
  <2> QED
    BY <2>8 DEF PF!Next
<1>6. CASE Release
  <2>1. pc[0] = "idle" /\ pc'[0] = "dropClaim"
    BY <1>6, ThreadZero DEF Release, Goto, TypeOK
  <2>2. Phase = "idle" /\ Phase' = "closed"
    BY <2>1 DEF Phase, InJob, JobLabels
  <2>3. Todo' = Todo /\ Held' = Held
    BY <1>6, FrameCaller, RefineFrame
  <2>4. PF!Close
    BY <2>2, <2>3 DEF PF!Close
  <2> QED
    BY <2>4 DEF PF!Next
<1>7. CASE DropClaim
  <2>1. pc[0] = "dropClaim" /\ pc'[0] = "dropFlag"
    BY <1>7, ThreadZero DEF DropClaim, Goto, TypeOK
  <2>2. ~InJob /\ ~InJob'
    BY <2>1 DEF InJob, JobLabels
  <2> QED
    BY <2>1, <2>2, RefineQuiet, RefineQuietNext DEF PF!vars, Phase
<1> QED
  BY <1>1, <1>2, <1>3, <1>4, <1>5, <1>6, <1>7 DEF Caller, InCall

LEMMA RefineWorker ==
    ASSUME IInv, NEW i \in Workers, Worker(i) \/ ParkSpurious(i)
    PROVE  UNCHANGED PF!vars
<1> USE DEF IInv
<1>1. Frame
  BY FrameWorker
<1>2. pc'[0] = pc[0]
  BY ThreadZero
  DEF TypeOK, Worker, SetFlag, StoreFlag, Check, ParkReturns, ParkSpurious, Unflag,
      SeesMoved, Joins, Goto
<1> QED
  BY <1>1, <1>2, RefineFrame DEF Frame, Phase, PF!vars

LEMMA RefineStep == IInv /\ PoolInv' /\ [Next]_vars => [PF!Next]_PF!vars
<1> SUFFICES ASSUME IInv, PoolInv', [Next]_vars PROVE [PF!Next]_PF!vars
  OBVIOUS
<1>1. CASE UNCHANGED vars
  BY <1>1 DEF vars, PF!vars, Phase, Todo, Held, InJob, Busy
<1> QED
  BY <1>1, RefineCaller, RefineJob, RefineWorker DEF Next

\* The module comment of pool.rs as a specification: each task of a run is
\* taken by one thread, and the run returns when all it took are finished.
THEOREM PoolImplementsParallelFor == Spec => ImplementsParallelFor
<1>1. IInv => PoolInv
  BY DEF IInv
<1> QED
  BY <1>1, RefineInit, RefineStep, PoolInvariant, PTL
  DEF Spec, ImplementsParallelFor, PF!Spec

=============================================================================
