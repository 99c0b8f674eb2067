------------------------------ MODULE CpuPool ------------------------------
(***************************************************************************)
(* The thread pool a session computes on: core/src/cpu/pool.rs.            *)
(*                                                                         *)
(* Thread 0 is the caller, threads 1..N are the workers. Every atomic the  *)
(* threads share is a variable, and every access to one that another       *)
(* thread could interleave with is a step of its own. Memory is            *)
(* sequentially consistent: the relaxed accesses of the source are to      *)
(* words published by the store of the claim word, or to `want', whose     *)
(* value only steers how many workers are woken.                           *)
(***************************************************************************)
EXTENDS Integers, FiniteSets

CONSTANTS
    N,            \* workers spawned by Pool::new
    FAN,          \* parked workers each thread wakes for a job
    UNITS,        \* the most units the claim word can hold (0xffff)
    JobNumbers,   \* distinct job numbers of the claim word (2^32)
    Sizes,        \* bound: the task counts a run is called with
    MaxJobs       \* bound: runs published through the claim word

ASSUME PoolAssumption ==
    /\ N \in Nat
    /\ FAN \in Nat
    /\ UNITS \in Nat \ {0}
    /\ JobNumbers \in Nat \ {0}
    /\ Sizes \subseteq Nat
    /\ MaxJobs \in Nat

Workers == 1 .. N
Threads == 0 .. N

VARIABLES
    \* Shared
    claim,     \* the claim word: job number, units, next unit to take
    job,       \* the published function: the run whose stack frame holds it
    per,       \* tasks per unit of the current job
    tasks,     \* tasks of the current job
    done,      \* units of the current job counted as done
    want,      \* workers the current job still wants
    stop,      \* the pool is being released
    parked,    \* each worker's flag: parked or about to be
    token,     \* each worker's unpark token (std::thread)
    jobs,      \* Pool.jobs: the number of the last job published
    \* Local to a thread
    pc,        \* where each thread is
    w,         \* take_units: the claim word it works from
    loc,       \* take_units: the function, per and tasks it loaded
    seen,      \* worker: the claim word it saw last
    counted,   \* worker: its waker counted it in `want'
    cursor,    \* wake and drop: the next flag to look at
    woken,     \* wake: workers woken so far
    \* History
    hits,      \* how often each task of the current job was called
    finished   \* the units counted in `done'

shared  == <<claim, job, per, tasks, done, want, stop, jobs>>
flags   == <<parked, token>>
waking  == <<cursor, woken>>
history == <<hits, finished>>
vars == <<claim, job, per, tasks, done, want, stop, parked, token, jobs,
          pc, w, loc, seen, counted, cursor, woken, hits, finished>>

Word(j, u, n) == [job |-> j % JobNumbers, units |-> u, next |-> n]

DivCeil(a, b) == (a + b - 1) \div b
Per(n)  == DivCeil(n, UNITS)

\* MUTANT: the units are rounded down, so the last tasks have none.
UnitsRoundedDown(n) == n \div Per(n)

Units(n) == DivCeil(n, Per(n))

\* The tasks of unit u of a job of n tasks, p of them to a unit.
TasksOf(u, p, n) == {t \in 0 .. (n - 1) : u * p <= t /\ t < (u + 1) * p}

HasUnits(c) == c.next < c.units

\* moved(): the claim word is not the one last seen, or the pool stops.
Moved(i) == claim # seen[i] \/ stop

\* A local that is not in scope has its initial value.
NoJob == [fn |-> 0, per |-> 0, tasks |-> 0]

Goto(t, label) == pc' = [pc EXCEPT ![t] = label]

Init ==
    /\ claim = Word(0, 0, 0)
    /\ job = 0 /\ per = 1 /\ tasks = 0 /\ done = 0 /\ want = 0
    /\ stop = FALSE
    /\ parked = [i \in Workers |-> FALSE]
    /\ token = [i \in Workers |-> FALSE]
    /\ jobs = 0
    /\ pc = [t \in Threads |-> IF t = 0 THEN "idle" ELSE "spin"]
    /\ w = [t \in Threads |-> Word(0, 0, 0)]
    /\ loc = [t \in Threads |-> NoJob]
    /\ seen = [i \in Workers |-> Word(0, 0, 0)]
    /\ counted = [i \in Workers |-> FALSE]
    /\ cursor = [t \in Threads |-> 1]
    /\ woken = [t \in Threads |-> 0]
    /\ hits = [i \in {} |-> 0]
    /\ finished = {}

-----------------------------------------------------------------------------
(* Pool::run, on the caller's thread *)

\* No worker, or at most one task: the caller computes them all itself.
RunInline(n) ==
    /\ pc[0] = "idle"
    /\ N = 0 \/ n <= 1
    /\ UNCHANGED vars

\* The stores a claim publishes: no thread holds a unit here to read them.
Run(n) ==
    /\ pc[0] = "idle"
    /\ N > 0 /\ n > 1
    /\ jobs < MaxJobs
    /\ jobs' = jobs + 1
    /\ job' = jobs + 1
    /\ per' = Per(n)
    /\ tasks' = n
    /\ done' = 0
    /\ hits' = [t \in 0 .. (n - 1) |-> 0]
    /\ finished' = {}
    /\ Goto(0, "want")
    /\ UNCHANGED <<claim, want, stop, flags, w, loc, seen, counted, waking>>

StoreWant ==
    /\ pc[0] = "want"
    /\ want' = Units(tasks) - 1
    /\ Goto(0, "publish")
    /\ UNCHANGED <<claim, job, per, tasks, done, stop, jobs, flags, w, loc,
                   seen, counted, waking, history>>

Publish ==
    /\ pc[0] = "publish"
    /\ claim' = Word(jobs, Units(tasks), 0)
    /\ Goto(0, "wakeHas")
    /\ UNCHANGED <<job, per, tasks, done, want, stop, jobs, flags, w, loc,
                   seen, counted, waking, history>>

\* MUTANT: the caller leaves one unit early.
ReturnEarly ==
    /\ pc[0] = "wait"
    /\ done >= Units(tasks) - 1
    /\ Goto(0, "idle")
    /\ UNCHANGED <<shared, flags, w, loc, seen, counted, waking, history>>

\* The caller spins until every unit of the job is done.
Return ==
    /\ pc[0] = "wait"
    /\ done = Units(tasks)
    /\ Goto(0, "idle")
    /\ UNCHANGED <<shared, flags, w, loc, seen, counted, waking, history>>

-----------------------------------------------------------------------------
(* wake and take_want, by the caller after a publish and by a worker that   *)
(* joined the job or was woken for it                                       *)

\* wake returns; its locals go.
LeaveWake(t) ==
    /\ Goto(t, "read")
    /\ cursor' = [cursor EXCEPT ![t] = 1]
    /\ woken' = [woken EXCEPT ![t] = 0]

WakeHas(t) ==
    /\ pc[t] = "wakeHas"
    /\ \/ /\ woken[t] < FAN /\ HasUnits(claim)
          /\ Goto(t, "wakeTake")
          /\ UNCHANGED waking
       \/ /\ ~(woken[t] < FAN /\ HasUnits(claim))
          /\ LeaveWake(t)
    /\ UNCHANGED <<shared, flags, w, loc, seen, counted, history>>

WakeTake(t) ==
    /\ pc[t] = "wakeTake"
    /\ \/ /\ want > 0
          /\ want' = want - 1
          /\ Goto(t, "scan")
          /\ UNCHANGED waking
       \/ /\ want = 0
          /\ LeaveWake(t)
          /\ UNCHANGED want
    /\ UNCHANGED <<claim, job, per, tasks, done, stop, jobs, flags, w, loc,
                   seen, counted, history>>

\* The flag is loaded and then swapped; the two are one step, since a swap
\* of a flag another waker cleared meanwhile changes nothing.
Scan(t) ==
    /\ pc[t] = "scan"
    /\ cursor[t] \in Workers
    /\ \/ /\ parked[cursor[t]]
          /\ parked' = [parked EXCEPT ![cursor[t]] = FALSE]
          /\ Goto(t, "unpark")
          /\ UNCHANGED cursor
       \/ /\ ~parked[cursor[t]]
          /\ cursor' = [cursor EXCEPT ![t] = @ + 1]
          /\ UNCHANGED <<parked, pc>>
    /\ UNCHANGED <<shared, token, w, loc, seen, counted, woken, history>>

\* No flag is left to look at: the want taken goes back.
GiveBack(t) ==
    /\ pc[t] = "scan"
    /\ cursor[t] \notin Workers
    /\ want' = want + 1
    /\ LeaveWake(t)
    /\ UNCHANGED <<claim, job, per, tasks, done, stop, jobs, flags, w, loc,
                   seen, counted, history>>

\* MUTANT: the flag is cleared and the thread not unparked.
UnparkForgotten(t) ==
    /\ pc[t] = "unpark"
    /\ cursor' = [cursor EXCEPT ![t] = @ + 1]
    /\ woken' = [woken EXCEPT ![t] = @ + 1]
    /\ Goto(t, "wakeHas")
    /\ UNCHANGED <<shared, flags, w, loc, seen, counted, history>>

Unpark(t) ==
    /\ pc[t] = "unpark"
    /\ token' = [token EXCEPT ![cursor[t]] = TRUE]
    /\ cursor' = [cursor EXCEPT ![t] = @ + 1]
    /\ woken' = [woken EXCEPT ![t] = @ + 1]
    /\ Goto(t, "wakeHas")
    /\ UNCHANGED <<shared, parked, w, loc, seen, counted, history>>

-----------------------------------------------------------------------------
(* take_units *)

ReadWord(t) ==
    /\ pc[t] = "read"
    /\ w' = [w EXCEPT ![t] = claim]
    /\ Goto(t, "cas")
    /\ UNCHANGED <<shared, flags, loc, seen, counted, waking, history>>

\* MUTANT: the word is stored without comparing it.
ClaimByStore(t) ==
    /\ pc[t] = "cas"
    /\ HasUnits(w[t])
    /\ claim' = [w[t] EXCEPT !.next = @ + 1]
    /\ Goto(t, "load")
    /\ UNCHANGED <<job, per, tasks, done, want, stop, jobs, flags, w, loc,
                   seen, counted, waking, history>>

\* A unit is taken by a compare-exchange of the whole word, so a word of an
\* earlier job, or one whose next unit was taken, fails.
Claim(t) ==
    /\ pc[t] = "cas"
    /\ HasUnits(w[t])
    /\ claim = w[t]
    /\ claim' = [claim EXCEPT !.next = @ + 1]
    /\ Goto(t, "load")
    /\ UNCHANGED <<job, per, tasks, done, want, stop, jobs, flags, w, loc,
                   seen, counted, waking, history>>

\* MUTANT: a failed exchange keeps the old word.
ClaimFailsKeeps(t) ==
    /\ pc[t] = "cas"
    /\ HasUnits(w[t])
    /\ claim # w[t]
    /\ UNCHANGED vars

ClaimFails(t) ==
    /\ pc[t] = "cas"
    /\ HasUnits(w[t])
    /\ claim # w[t]
    /\ w' = [w EXCEPT ![t] = claim]
    /\ UNCHANGED <<shared, flags, pc, loc, seen, counted, waking, history>>

Load(t) ==
    /\ pc[t] = "load"
    /\ loc' = [loc EXCEPT ![t] = [fn |-> job, per |-> per, tasks |-> tasks]]
    /\ Goto(t, "call")
    /\ UNCHANGED <<shared, flags, w, seen, counted, waking, history>>

\* f(task, thread) for each task of the unit.
Call(t) ==
    /\ pc[t] = "call"
    /\ LET mine == TasksOf(w[t].next, loc[t].per, loc[t].tasks)
       IN  hits' = [i \in DOMAIN hits |-> IF i \in mine THEN hits[i] + 1 ELSE hits[i]]
    /\ Goto(t, "count")
    /\ UNCHANGED <<shared, flags, w, loc, seen, counted, waking, finished>>

Count(t) ==
    /\ pc[t] = "count"
    /\ done' = done + 1
    /\ finished' = finished \union {w[t].next}
    /\ w' = [w EXCEPT ![t].next = @ + 1]
    /\ loc' = [loc EXCEPT ![t] = NoJob]
    /\ Goto(t, "cas")
    /\ UNCHANGED <<claim, job, per, tasks, want, stop, jobs, flags,
                   seen, counted, waking, hits>>

NoUnitLeft(t) ==
    /\ pc[t] = "cas"
    /\ ~HasUnits(w[t])
    /\ \/ /\ t = 0
          /\ Goto(t, "wait")
          /\ UNCHANGED seen
       \/ /\ t # 0
          /\ seen' = [seen EXCEPT ![t] = w[t]]
          /\ Goto(t, "spin")
    /\ w' = [w EXCEPT ![t] = Word(0, 0, 0)]
    /\ UNCHANGED <<shared, flags, loc, counted, waking, history>>

-----------------------------------------------------------------------------
(* worker *)

\* Past its spin, however long that is, the worker goes to park.
SetFlag(i) ==
    /\ pc[i] = "spin"
    /\ ~Moved(i)
    /\ Goto(i, "flag")
    /\ UNCHANGED <<shared, flags, w, loc, seen, counted, waking, history>>

StoreFlag(i) ==
    /\ pc[i] = "flag"
    /\ parked' = [parked EXCEPT ![i] = TRUE]
    /\ Goto(i, "check")
    /\ UNCHANGED <<shared, token, w, loc, seen, counted, waking, history>>

\* MUTANT: the word is not looked at again once the flag is set.
CheckFlagOnly(i) ==
    /\ pc[i] = "check"
    /\ Goto(i, IF parked[i] THEN "park" ELSE "unflag")
    /\ UNCHANGED <<shared, flags, w, loc, seen, counted, waking, history>>

\* while flag && !moved(): one step at the read of the flag when both hold
\* (the word only ever moves away from `seen') and at the failing read when
\* one does not.
Check(i) ==
    /\ pc[i] = "check"
    /\ Goto(i, IF parked[i] /\ ~Moved(i) THEN "park" ELSE "unflag")
    /\ UNCHANGED <<shared, flags, w, loc, seen, counted, waking, history>>

\* std::thread::park returns with the token, or for no reason at all.
ParkReturns(i) ==
    /\ pc[i] = "park"
    /\ token[i]
    /\ token' = [token EXCEPT ![i] = FALSE]
    /\ Goto(i, "check")
    /\ UNCHANGED <<shared, parked, w, loc, seen, counted, waking, history>>

ParkSpurious(i) ==
    /\ pc[i] = "park"
    /\ ~token[i]
    /\ Goto(i, "check")
    /\ UNCHANGED <<shared, flags, w, loc, seen, counted, waking, history>>

Unflag(i) ==
    /\ pc[i] = "unflag"
    /\ counted' = [counted EXCEPT ![i] = ~parked[i]]
    /\ parked' = [parked EXCEPT ![i] = FALSE]
    /\ Goto(i, "spin")
    /\ UNCHANGED <<shared, token, w, loc, seen, waking, history>>

\* The word moved, and then: if stop { return }.
SeesMoved(i) ==
    /\ pc[i] = "spin"
    /\ Moved(i)
    /\ Goto(i, IF stop THEN "stopped" ELSE "join")
    /\ UNCHANGED <<shared, flags, w, loc, seen, counted, waking, history>>

\* if counted || take_want(s) { wake(s) }
Joins(i) ==
    /\ pc[i] = "join"
    /\ \/ /\ counted[i] \/ want > 0
          /\ want' = IF counted[i] THEN want ELSE want - 1
          /\ Goto(i, "wakeHas")
       \/ /\ ~counted[i] /\ want = 0
          /\ Goto(i, "read")
          /\ UNCHANGED want
    /\ counted' = [counted EXCEPT ![i] = FALSE]
    /\ UNCHANGED <<claim, job, per, tasks, done, stop, jobs, flags, w, loc,
                   seen, waking, history>>

-----------------------------------------------------------------------------
(* Drop for Pool *)

Release ==
    /\ pc[0] = "idle"
    /\ stop' = TRUE
    /\ Goto(0, "dropClaim")
    /\ UNCHANGED <<claim, job, per, tasks, done, want, jobs, flags, w, loc,
                   seen, counted, waking, history>>

DropClaim ==
    /\ pc[0] = "dropClaim"
    /\ claim' = Word(jobs + 1, 0, 0)
    /\ Goto(0, "dropFlag")
    /\ UNCHANGED <<job, per, tasks, done, want, stop, jobs, flags, w, loc,
                   seen, counted, waking, history>>

DropFlag ==
    /\ pc[0] = "dropFlag"
    /\ \/ /\ cursor[0] \in Workers
          /\ parked' = [parked EXCEPT ![cursor[0]] = FALSE]
          /\ Goto(0, "dropUnpark")
       \/ /\ cursor[0] \notin Workers
          /\ Goto(0, "join")
          /\ UNCHANGED parked
    /\ UNCHANGED <<shared, token, w, loc, seen, counted, waking, history>>

DropUnpark ==
    /\ pc[0] = "dropUnpark"
    /\ token' = [token EXCEPT ![cursor[0]] = TRUE]
    /\ cursor' = [cursor EXCEPT ![0] = @ + 1]
    /\ Goto(0, "dropFlag")
    /\ UNCHANGED <<shared, parked, w, loc, seen, counted, woken, history>>

Join ==
    /\ pc[0] = "join"
    /\ \A i \in Workers : pc[i] = "stopped"
    /\ Goto(0, "released")
    /\ UNCHANGED <<shared, flags, w, loc, seen, counted, waking, history>>

-----------------------------------------------------------------------------
\* wake and take_units, which any thread of the pool runs.
Job(t) ==
    \/ WakeHas(t) \/ WakeTake(t) \/ Scan(t) \/ GiveBack(t) \/ Unpark(t)
    \/ ReadWord(t) \/ Claim(t) \/ ClaimFails(t)
    \/ Load(t) \/ Call(t) \/ Count(t) \/ NoUnitLeft(t)

\* What the caller does once run or drop has been called, to its end.
InCall == StoreWant \/ Publish \/ Return
          \/ DropClaim \/ DropFlag \/ DropUnpark \/ Join

Caller ==
    \/ \E n \in Sizes : RunInline(n) \/ Run(n)
    \/ InCall
    \/ Release

Worker(i) ==
    \/ SetFlag(i) \/ StoreFlag(i) \/ Check(i)
    \/ ParkReturns(i) \/ Unflag(i) \/ SeesMoved(i) \/ Joins(i)

Next ==
    \/ Caller
    \/ \E t \in Threads : Job(t)
    \/ \E i \in Workers : Worker(i) \/ ParkSpurious(i)

\* The operating system runs every thread that can run; nobody has to call
\* run or drop, and park need not return without a token.
Fairness ==
    /\ WF_vars(InCall)
    /\ \A t \in Threads : WF_vars(Job(t))
    /\ \A i \in Workers : WF_vars(Worker(i))

Spec == Init /\ [][Next]_vars
FairSpec == Spec /\ Fairness

-----------------------------------------------------------------------------
(* Correctness *)

WordType == [job : 0 .. (JobNumbers - 1), units : Nat, next : Nat]

JobLabels == {"wakeHas", "wakeTake", "scan", "unpark", "read", "cas", "load",
              "call", "count"}
CallerLabels == JobLabels \union
    {"idle", "want", "publish", "wait", "dropClaim", "dropFlag", "dropUnpark",
     "join", "released"}
WorkerLabels == JobLabels \union
    {"spin", "flag", "check", "park", "unflag", "join", "stopped"}

\* Every variable keeps its type; in particular `want' and `done' never go
\* below zero, and a waker's cursor is on a worker when it unparks one.
TypeOK ==
    /\ claim \in WordType
    /\ job \in Nat /\ per \in Nat /\ tasks \in Nat /\ done \in Nat
    /\ want \in Nat /\ jobs \in Nat
    /\ stop \in BOOLEAN
    /\ parked \in [Workers -> BOOLEAN]
    /\ token \in [Workers -> BOOLEAN]
    /\ pc \in [Threads -> CallerLabels \union WorkerLabels]
    /\ pc[0] \in CallerLabels
    /\ \A i \in Workers : pc[i] \in WorkerLabels
    /\ w \in [Threads -> WordType]
    /\ loc \in [Threads -> [fn : Nat, per : Nat, tasks : Nat]]
    /\ seen \in [Workers -> WordType]
    /\ counted \in [Workers -> BOOLEAN]
    /\ cursor \in [Threads -> Nat]
    /\ \A t \in Threads : pc[t] \in {"unpark", "dropUnpark"} => cursor[t] \in Workers
    /\ woken \in [Threads -> Nat]
    /\ DOMAIN hits \subseteq Nat
    /\ \A i \in DOMAIN hits : hits[i] \in Nat
    /\ finished \in SUBSET Nat

\* The caller is inside run, after it published the job.
InJob == pc[0] \in JobLabels \union {"wait"}
\* A thread has claimed a unit it has not counted as done.
Busy(t) == pc[t] \in {"load", "call", "count"}

\* A thread calls the job's function only while the run that borrowed it is
\* still in progress, with that run's own per and tasks: the SAFETY comments
\* of run and take_units.
FunctionLive ==
    \A t \in Threads :
        pc[t] = "call" =>
            /\ InJob
            /\ loc[t] = [fn |-> jobs, per |-> per, tasks |-> tasks]

\* No task is called twice, and when run has returned every task of its job
\* has been called ("f(task, thread) for every task in 0..tasks").
EachTaskOnce ==
    /\ \A i \in DOMAIN hits : hits[i] <= 1
    /\ pc[0] = "idle" => \A i \in DOMAIN hits : hits[i] = 1

\* Between jobs no thread holds a unit, and no claim can succeed whatever
\* word a descheduled worker still holds.
QuietBetweenJobs ==
    ~InJob => /\ \A t \in Threads : ~Busy(t)
              /\ ~HasUnits(claim)

\* A worker about to park whose flag was cleared has its token, or a waker on
\* its way to give it: the wake is not lost between the swap and the unpark.
NoLostWake ==
    \A i \in Workers :
        pc[i] = "park" /\ ~parked[i] =>
            \/ token[i]
            \/ \E t \in Threads :
                  pc[t] \in {"unpark", "dropUnpark"} /\ cursor[t] = i

\* Every call of run returns.
RunReturns == (pc[0] = "want") ~> (pc[0] = "idle")

\* Dropping the pool joins every worker, parked or spinning, and ends.
DropEnds == (pc[0] = "dropClaim") ~> (pc[0] = "released")

\* The pool implements ParallelFor: a claim takes a unit's tasks, the count
\* finishes them.
Phase ==
    IF InJob THEN "running"
    ELSE IF pc[0] \in {"idle", "want", "publish"} THEN "idle" ELSE "closed"
Todo == IF InJob THEN {i \in 0 .. (tasks - 1) : claim.next * per <= i} ELSE {}
Held == [t \in Threads |-> IF Busy(t) THEN TasksOf(w[t].next, per, tasks) ELSE {}]

PF == INSTANCE ParallelFor WITH phase <- Phase, todo <- Todo, busy <- Held

ImplementsParallelFor == PF!Spec

-----------------------------------------------------------------------------
(* The inductive invariant, which CpuPoolProofs proves *)

\* The caller has stored a job it has not published yet.
Preparing == pc[0] \in {"want", "publish"}

JobInv ==
    Preparing \/ InJob =>
        /\ tasks > 1 /\ tasks \in Sizes
        /\ per = Per(tasks)
        /\ job = jobs
        /\ DOMAIN hits = 0 .. (tasks - 1)

FreshInv ==
    Preparing =>
        /\ done = 0
        /\ finished = {}
        /\ \A i \in DOMAIN hits : hits[i] = 0

WordInv == InJob => claim.units = Units(tasks) /\ claim.next <= claim.units

\* The units the claim word has handed out are those counted and those held,
\* each held by one thread.
UnitsInv ==
    InJob =>
        /\ finished \subseteq 0 .. (claim.next - 1)
        /\ \A t \in Threads : Busy(t) => w[t].next \in 0 .. (claim.next - 1) \ finished
        /\ \A u \in 0 .. (claim.next - 1) :
               u \in finished \/ \E t \in Threads : Busy(t) /\ w[t].next = u
        /\ \A t, x \in Threads :
               Busy(t) /\ Busy(x) /\ w[t].next = w[x].next => t = x
        /\ IsFiniteSet(finished)
        /\ done = Cardinality(finished)

LoadInv ==
    \A t \in Threads :
        pc[t] \in {"call", "count"} =>
            loc[t] = [fn |-> jobs, per |-> per, tasks |-> tasks]

\* The function was called for the tasks of unit u.
Called(u) == u \in finished \/ \E t \in Threads : pc[t] = "count" /\ w[t].next = u

HitsInv ==
    InJob =>
        \A u \in 0 .. (Units(tasks) - 1) :
            \A i \in TasksOf(u, per, tasks) :
                hits[i] = IF Called(u) THEN 1 ELSE 0

ReturnedInv == ~Preparing /\ ~InJob => \A i \in DOMAIN hits : hits[i] = 1

\* Why the pool is correct: the counted and the held units are exactly the
\* units handed out, so `done' reaches their number only when none is held.
PoolInv ==
    /\ JobInv /\ FreshInv /\ WordInv /\ QuietBetweenJobs
    /\ UnitsInv /\ LoadInv /\ HitsInv /\ ReturnedInv

IInv == TypeOK /\ PoolInv
=============================================================================
