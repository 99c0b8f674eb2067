--------------------------- MODULE AnalyzeStream ---------------------------
(***************************************************************************)
(* The bulk analysis call: server/src/stream/ (reader.rs, engine.rs,       *)
(* run.rs), with the sessions of state.rs and the timer of deadline.rs.    *)
(*                                                                         *)
(* Each stream has a reader task, an engine task and batches running on    *)
(* blocking threads; they share the work channel, the `dead' flag, the     *)
(* server's queue rooms and the sessions of the loads. The engine is one   *)
(* task whose branches await, so everything between two accesses to shared *)
(* state is one step, and a batch started, an answer sent, or a flag read  *)
(* again is a step of its own.                                             *)
(*                                                                         *)
(* A document is its number in the order the reader read it. The engine    *)
(* numbers envelopes in the order of a FIFO channel, so that number is     *)
(* also its `seq', counted from 1. A room or a window permit is held by    *)
(* the value it travels with and freed where that value is dropped: who    *)
(* holds one is therefore an operator over the places a document can be.   *)
(* One admission takes the items and bytes of both levels at once here;    *)
(* StreamAdmission models their acquisition one by one.                    *)
(***************************************************************************)
EXTENDS Integers, FiniteSets, SequencesExt

CONSTANTS
    Streams,
    Keys,         \* batching keys: load, output kind, options
    Loads,        \* model loads
    LoadOf,       \* the load of each key
    Sessions,     \* sessions in each load's pool
    BatchLimit,   \* documents a batch may hold
    Window,       \* max_inflight, and the capacity of the answer channel
    StreamRooms,  \* documents a stream may queue, and its work channel
    ServerRooms,  \* documents all streams may queue
    Orders,       \* the sets of streams whose headers may ask for ANALYZE_ORDER_INPUT
    Kinds,        \* the documents each stream's client may send: [key, fate]
    MaxDocs,      \* bound: documents each stream sends
    Deadlines,    \* streams called with a grpc-timeout
    Cancelling,   \* streams whose client may go away
    Breaking      \* streams whose client may break the protocol

\* What becomes of a document: "ok", "poison" (a run with it fails), "bad"
\* (validation or the byte cap refuses it).
Fates == {"ok", "poison", "bad"}

ASSUME StreamAssumption ==
    /\ LoadOf \in [Keys -> Loads]
    /\ Sessions \in [Loads -> Nat \ {0}]
    /\ {BatchLimit, Window, StreamRooms, ServerRooms} \subseteq Nat \ {0}
    /\ Orders \subseteq SUBSET Streams
    /\ Kinds \in [Streams -> SUBSET [key : Keys, fate : Fates]]
    /\ MaxDocs \in [Streams -> Nat]
    /\ Deadlines \cup Cancelling \cup Breaking \subseteq Streams

ABORT == 0      \* Envelope::Abort among the document numbers of `work'

VARIABLES
    \* The client, and what the call has told it
    ordered,    \* the streams whose header asked for ANALYZE_ORDER_INPUT
    conn,       \* "open", "closed" (half-closed), "broken" or "gone"
    got,        \* answers the client has read
    out,        \* answers sent into the answer channel: [doc, ok]
    how,        \* how the answers ended: "open", "clean", or a status
    \* The reader
    docs,       \* the documents read, each of a kind
    reader,     \* where the reader is
    work,       \* the work channel
    \* The engine
    eng,        \* where the engine is
    inputEnded, \* work.recv() returned None
    pending,    \* documents not dispatched
    round,      \* dispatch: groups to visit, their share, what is left over
    outcome,    \* the outcome being delivered
    rows,       \* answers of it not yet enqueued
    buffer,     \* answers waiting on an earlier one
    next,       \* the number an input-ordered stream answers next
    stalled,    \* batches waiting for a session
    timer,      \* stalled_at is set
    retries,    \* retry_stalled: batches left to retry
    runs,       \* batches in the JoinSet: [docs, session, phase, ok]
    \* Shared
    dead,       \* the stream died
    expired,    \* its deadline has passed
    idle        \* each load's idle sessions

client == <<ordered, conn, got>>
called == <<docs, reader>>
queues == <<pending, round, outcome, rows, buffer, next, stalled, timer, retries>>
told   == <<out, how>>
vars   == <<ordered, conn, got, out, how, docs, reader, work, eng, inputEnded, pending,
            round, outcome, rows, buffer, next, stalled, timer, retries, runs,
            dead, expired, idle>>

NoRound   == [groups |-> <<>>, share |-> 0, leftover |-> <<>>]
NoOutcome == [docs |-> <<>>, ok |-> FALSE]

KeyOf(s, d)  == docs[s][d].key
Fate(s, d)   == docs[s][d].fate
LoadFor(s, b) == LoadOf[KeyOf(s, Head(b))]

\* The documents in a sequence of batches.
InBatches(bs) == UNION {ToSet(b) : b \in ToSet(bs)}
InAnswers(as) == {a.doc : a \in as}
InRuns(s)     == UNION {ToSet(r.docs) : r \in runs[s]}

\* Documents that hold a window permit. A refused one is answered without.
Dispatched(s) ==
    InBatches(stalled[s]) \cup InRuns(s) \cup ToSet(outcome[s].docs)
        \cup {d \in InAnswers(ToSet(rows[s]) \cup buffer[s]) : Fate(s, d) # "bad"}
Available(s) == Window - Cardinality(Dispatched(s))

\* Documents that hold a queue room.
Queued(s) ==
    (IF reader[s] = "put" THEN {Len(docs[s])} ELSE {})
        \cup (ToSet(work[s]) \ {ABORT})
        \cup ToSet(pending[s]) \cup InBatches(round[s].groups)
        \cup ToSet(round[s].leftover) \cup InBatches(stalled[s]) \cup InRuns(s)
        \cup ToSet(outcome[s].docs) \cup InAnswers(ToSet(rows[s]) \cup buffer[s])

RoomFree(s) ==
    /\ Cardinality(Queued(s)) < StreamRooms
    /\ Cardinality(UNION {{t} \X Queued(t) : t \in Streams}) < ServerRooms

Init ==
    /\ ordered \in Orders
    /\ conn = [s \in Streams |-> "open"]
    /\ got = [s \in Streams |-> 0]
    /\ out = [s \in Streams |-> <<>>]
    /\ how = [s \in Streams |-> "open"]
    /\ docs = [s \in Streams |-> <<>>]
    /\ reader = [s \in Streams |-> "top"]
    /\ work = [s \in Streams |-> <<>>]
    /\ eng = [s \in Streams |-> "top"]
    /\ inputEnded = [s \in Streams |-> FALSE]
    /\ pending = [s \in Streams |-> <<>>]
    /\ round = [s \in Streams |-> NoRound]
    /\ outcome = [s \in Streams |-> NoOutcome]
    /\ rows = [s \in Streams |-> <<>>]
    /\ buffer = [s \in Streams |-> {}]
    /\ next = [s \in Streams |-> 1]
    /\ stalled = [s \in Streams |-> <<>>]
    /\ timer = [s \in Streams |-> FALSE]
    /\ retries = [s \in Streams |-> 0]
    /\ runs = [s \in Streams |-> {}]
    /\ dead = [s \in Streams |-> FALSE]
    /\ expired = [s \in Streams |-> FALSE]
    /\ idle = [l \in Loads |-> 1 .. Sessions[l]]

Ended(s) == eng[s] = "ended"

-----------------------------------------------------------------------------
(* The client *)

HalfClose(s) ==
    /\ conn[s] = "open"
    /\ conn' = [conn EXCEPT ![s] = "closed"]
    /\ UNCHANGED <<ordered, got, told, called, work, eng, inputEnded, queues, runs, dead, expired, idle>>

\* The request side fails while the client still reads answers.
Breaks(s) ==
    /\ s \in Breaking
    /\ conn[s] = "open"
    /\ conn' = [conn EXCEPT ![s] = "broken"]
    /\ UNCHANGED <<ordered, got, told, called, work, eng, inputEnded, queues, runs, dead, expired, idle>>

\* The client cancels: its requests fail and the answer channel closes.
GoesAway(s) ==
    /\ s \in Cancelling
    /\ conn[s] # "gone"
    /\ conn' = [conn EXCEPT ![s] = "gone"]
    /\ UNCHANGED <<ordered, got, told, called, work, eng, inputEnded, queues, runs, dead, expired, idle>>

ClientReads(s) ==
    /\ conn[s] # "gone"
    /\ got[s] < Len(out[s])
    /\ got' = [got EXCEPT ![s] = @ + 1]
    /\ UNCHANGED <<ordered, conn, told, called, work, eng, inputEnded, queues, runs, dead, expired, idle>>

Expires(s) ==
    /\ s \in Deadlines
    /\ ~expired[s]
    /\ expired' = [expired EXCEPT ![s] = TRUE]
    /\ UNCHANGED <<client, told, called, work, eng, inputEnded, queues, runs, dead, idle>>

\* The task bind_stream_dead spawned.
DeadTimer(s) ==
    /\ expired[s]
    /\ ~dead[s]
    /\ dead' = [dead EXCEPT ![s] = TRUE]
    /\ UNCHANGED <<client, told, called, work, eng, inputEnded, queues, runs, expired, idle>>

-----------------------------------------------------------------------------
(* The reader *)

ReaderGoes(s, p) == reader' = [reader EXCEPT ![s] = p]
OnlyReader == UNCHANGED <<client, told, eng, inputEnded, queues, runs, dead, expired, idle>>

ReaderLoop(s) ==
    /\ reader[s] = "top"
    /\ ReaderGoes(s, IF dead[s] THEN "done" ELSE "read")
    /\ UNCHANGED <<docs, work>>
    /\ OnlyReader

\* A document arrives; wait_room looks at `dead' before it waits.
ReadDoc(s) ==
    /\ reader[s] = "read"
    /\ conn[s] \in {"open", "closed"}
    /\ ~Ended(s)
    /\ Len(docs[s]) < MaxDocs[s]
    /\ \E k \in Kinds[s] : docs' = [docs EXCEPT ![s] = Append(@, k)]
    /\ ReaderGoes(s, IF dead[s] THEN "done" ELSE "wait")
    /\ UNCHANGED work
    /\ OnlyReader

\* A second header, or a message without a kind.
ReadMisplaced(s) ==
    /\ s \in Breaking
    /\ reader[s] = "read"
    /\ conn[s] = "open"
    /\ ReaderGoes(s, "abort")
    /\ UNCHANGED <<docs, work>>
    /\ OnlyReader

\* The half-close, or the end of a call the engine has ended.
ReadEnd(s) ==
    /\ reader[s] = "read"
    /\ conn[s] = "closed" \/ Ended(s)
    /\ ReaderGoes(s, "done")
    /\ UNCHANGED <<docs, work>>
    /\ OnlyReader

\* The inbound stream fails: the abort is offered with try_send.
ReadError(s) ==
    /\ reader[s] = "read"
    /\ conn[s] \in {"broken", "gone"}
    /\ work' = IF Ended(s) \/ Len(work[s]) = StreamRooms THEN work
                 ELSE [work EXCEPT ![s] = Append(@, ABORT)]
    /\ ReaderGoes(s, "done")
    /\ UNCHANGED docs
    /\ OnlyReader

\* admit, or admit_refusal, has its permits.
Admit(s) ==
    /\ reader[s] = "wait"
    /\ RoomFree(s)
    /\ ReaderGoes(s, "put")
    /\ UNCHANGED <<docs, work>>
    /\ OnlyReader

WaitDies(s) ==
    /\ reader[s] = "wait"
    /\ dead[s]
    /\ ReaderGoes(s, "done")
    /\ UNCHANGED <<docs, work>>
    /\ OnlyReader

\* work.send: the envelope waits for a place, or fails with the engine.
Put(s) ==
    /\ reader[s] \in {"put", "abort"}
    /\ IF Ended(s)
       THEN ReaderGoes(s, "done") /\ UNCHANGED work
       ELSE /\ Len(work[s]) < StreamRooms
            /\ work' = [work EXCEPT ![s] =
                   Append(@, IF reader[s] = "put" THEN Len(docs[s]) ELSE ABORT)]
            /\ ReaderGoes(s, IF reader[s] = "put" THEN "top" ELSE "done")
    /\ UNCHANGED docs
    /\ OnlyReader

-----------------------------------------------------------------------------
(* Sessions and runs *)

\* respawn, and the retry of one document: start the batch on an idle session,
\* or leave it behind those already stalled, on the timer unless the stream
\* died. `left' is what is stalled when it is tried.
Start(s, b, l, i) ==
    /\ idle' = [idle EXCEPT ![l] = @ \ {i}]
    /\ runs' = [runs EXCEPT ![s] =
           @ \cup {[docs |-> b, session |-> <<l, i>>, phase |-> "ready", ok |-> FALSE]}]

\* MUTANT: a stalled batch does not arm the retry timer.
TakeOrStashUntimed(s, b, left, set) ==
    LET l == LoadFor(s, b)
    IN  \/ /\ \E i \in idle[l] : Start(s, b, l, i)
           /\ stalled' = [stalled EXCEPT ![s] = left]
           /\ timer' = [timer EXCEPT ![s] = set]
        \/ /\ idle[l] = {}
           /\ stalled' = [stalled EXCEPT ![s] = Append(left, b)]
           /\ timer' = [timer EXCEPT ![s] = set]
           /\ UNCHANGED <<idle, runs>>

\* MUTANT: a batch that finds no idle session is not kept.
TakeOrStashDrops(s, b, left, set) ==
    LET l == LoadFor(s, b)
    IN  /\ \/ \E i \in idle[l] : Start(s, b, l, i)
           \/ idle[l] = {} /\ UNCHANGED <<idle, runs>>
        /\ stalled' = [stalled EXCEPT ![s] = left]
        /\ timer' = [timer EXCEPT ![s] = set]

TakeOrStash(s, b, left, set) ==
    LET l == LoadFor(s, b)
    IN  \/ /\ \E i \in idle[l] : Start(s, b, l, i)
           /\ stalled' = [stalled EXCEPT ![s] = left]
           /\ timer' = [timer EXCEPT ![s] = set]
        \/ /\ idle[l] = {}
           /\ stalled' = [stalled EXCEPT ![s] = Append(left, b)]
           /\ timer' = [timer EXCEPT ![s] = TRUE]
           /\ UNCHANGED <<idle, runs>>

Respawn(s, b, left, set) ==
    \/ /\ dead[s]
       /\ stalled' = [stalled EXCEPT ![s] = Append(left, b)]
       /\ timer' = [timer EXCEPT ![s] = set]
       /\ UNCHANGED <<idle, runs>>
    \/ /\ ~dead[s]
       /\ TakeOrStash(s, b, left, set)

\* MUTANT: only a run its engine waits for gives its session back.
FinishLeaks(s, r, ok) ==
    /\ idle' = IF Ended(s) THEN idle
               ELSE [idle EXCEPT ![r.session[1]] = @ \cup {r.session[2]}]
    /\ runs' = [runs EXCEPT ![s] = (@ \ {r}) \cup
           (IF Ended(s) THEN {} ELSE {[r EXCEPT !.phase = "done", !.ok = ok]})]

\* A run's closure returns: its session goes back to the pool, and the
\* outcome to the JoinSet, or nowhere when the engine is gone.
Finish(s, r, ok) ==
    /\ idle' = [idle EXCEPT ![r.session[1]] = @ \cup {r.session[2]}]
    /\ runs' = [runs EXCEPT ![s] = (@ \ {r}) \cup
           (IF Ended(s) THEN {} ELSE {[r EXCEPT !.phase = "done", !.ok = ok]})]

OnlyRuns == UNCHANGED <<client, told, called, work, eng, inputEnded, queues, dead, expired>>

\* A blocking thread takes the batch up: cancelled with its engine, refused
\* when the stream is dead, or under way.
RunStarts(s) ==
    /\ \E r \in runs[s] :
        /\ r.phase = "ready"
        /\ IF Ended(s) \/ dead[s]
           THEN Finish(s, r, FALSE)
           ELSE /\ runs' = [runs EXCEPT ![s] = (@ \ {r}) \cup {[r EXCEPT !.phase = "running"]}]
                /\ UNCHANGED idle
    /\ OnlyRuns

\* write, run and read are over: they failed, or `dead' was seen between them.
RunEnds(s) ==
    /\ \E r \in runs[s] :
        /\ r.phase = "running"
        /\ Finish(s, r, ~dead[s] /\ \A d \in ToSet(r.docs) : Fate(s, d) = "ok")
    /\ OnlyRuns

-----------------------------------------------------------------------------
(* The engine *)

Goto(s, p) == eng' = [eng EXCEPT ![s] = p]

\* The loop is left: `dead' is set and everything the engine holds is dropped.
\* A batch a blocking thread has not finished outlives it.
End(s, status) ==
    /\ Goto(s, "ended")
    /\ how' = [how EXCEPT ![s] = status]
    /\ dead' = [dead EXCEPT ![s] = TRUE]
    /\ work' = [work EXCEPT ![s] = <<>>]
    /\ pending' = [pending EXCEPT ![s] = <<>>]
    /\ outcome' = [outcome EXCEPT ![s] = NoOutcome]
    /\ rows' = [rows EXCEPT ![s] = <<>>]
    /\ buffer' = [buffer EXCEPT ![s] = {}]
    /\ next' = [next EXCEPT ![s] = 1]
    /\ stalled' = [stalled EXCEPT ![s] = <<>>]
    /\ timer' = [timer EXCEPT ![s] = FALSE]
    /\ runs' = [runs EXCEPT ![s] = {r \in @ : r.phase # "done"}]
    /\ UNCHANGED <<client, called, out, inputEnded, round, retries, expired, idle>>

\* abort_deadline up to its first await: the outcome just joined goes too.
AbortDeadline(s) ==
    /\ Goto(s, "joinall")
    /\ dead' = [dead EXCEPT ![s] = TRUE]
    /\ pending' = [pending EXCEPT ![s] = <<>>]
    /\ buffer' = [buffer EXCEPT ![s] = {}]
    /\ stalled' = [stalled EXCEPT ![s] = <<>>]
    /\ UNCHANGED <<client, told, called, work, inputEnded, round, outcome, rows,
                   next, timer, retries, expired, idle>>

\* The top of the loop.
Top(s) ==
    /\ eng[s] = "top"
    /\ IF expired[s]
       THEN AbortDeadline(s) /\ UNCHANGED runs
       ELSE /\ Goto(s, "select")
            /\ UNCHANGED <<client, told, called, work, inputEnded, queues, runs,
                           dead, expired, idle>>

\* The branches of the select. A branch that is not ready is not enabled.
BranchDeadline(s) ==
    /\ eng[s] = "select"
    /\ expired[s]
    /\ AbortDeadline(s)
    /\ UNCHANGED runs

BranchDoc(s) ==
    /\ eng[s] = "select"
    /\ ~inputEnded[s]
    /\ work[s] # <<>>
    /\ LET d == Head(work[s]) IN
        /\ work' = [work EXCEPT ![s] = Tail(@)]
        /\ \/ /\ d # ABORT
              /\ Fate(s, d) # "bad"
              /\ pending' = [pending EXCEPT ![s] = Append(@, d)]
              /\ Goto(s, "dispatch")
              /\ UNCHANGED <<rows, how>>
           \/ /\ d # ABORT
              /\ Fate(s, d) = "bad"
              /\ rows' = [rows EXCEPT ![s] = <<[doc |-> d, ok |-> FALSE]>>]
              /\ Goto(s, "answer")
              /\ UNCHANGED <<pending, how>>
           \/ /\ d = ABORT
              /\ Goto(s, "abort")
              /\ UNCHANGED <<rows, pending, how>>
    /\ UNCHANGED <<client, out, called, inputEnded, round, outcome, buffer, next,
                   stalled, timer, retries, runs, dead, expired, idle>>

\* Every sender is gone and the channel is empty.
BranchInputEnds(s) ==
    /\ eng[s] = "select"
    /\ ~inputEnded[s]
    /\ work[s] = <<>>
    /\ reader[s] = "done"
    /\ inputEnded' = [inputEnded EXCEPT ![s] = TRUE]
    /\ Goto(s, "dispatch")
    /\ UNCHANGED <<client, told, called, work, queues, runs, dead, expired, idle>>

\* MUTANT: the deadline is not looked at again when a batch is joined.
BranchJoinUnchecked(s) ==
    /\ eng[s] = "select"
    /\ \E r \in runs[s] :
        /\ r.phase = "done"
        /\ runs' = [runs EXCEPT ![s] = @ \ {r}]
        /\ outcome' = [outcome EXCEPT ![s] = [docs |-> r.docs, ok |-> r.ok]]
    /\ Goto(s, "deliver")
    /\ UNCHANGED <<client, told, called, work, inputEnded, pending, round,
                   rows, buffer, next, stalled, timer, retries, dead, expired, idle>>

BranchJoin(s) ==
    /\ eng[s] = "select"
    /\ \E r \in runs[s] :
        /\ r.phase = "done"
        /\ runs' = [runs EXCEPT ![s] = @ \ {r}]
        /\ IF expired[s]
           THEN AbortDeadline(s)
           ELSE /\ outcome' = [outcome EXCEPT ![s] = [docs |-> r.docs, ok |-> r.ok]]
                /\ Goto(s, "deliver")
                /\ UNCHANGED <<client, told, called, work, inputEnded, pending, round,
                       rows, buffer, next, stalled, timer, retries, dead, expired, idle>>

\* The linger after the front of the queue is over.
BranchLinger(s) ==
    /\ eng[s] = "select"
    /\ ~inputEnded[s]
    /\ pending[s] # <<>>
    /\ Available(s) > 0
    /\ Goto(s, "forced")
    /\ UNCHANGED <<client, told, called, work, inputEnded, queues, runs, dead, expired, idle>>

BranchRetry(s) ==
    /\ eng[s] = "select"
    /\ timer[s]
    /\ timer' = [timer EXCEPT ![s] = FALSE]
    /\ retries' = [retries EXCEPT ![s] = Len(stalled[s])]
    /\ Goto(s, "retry")
    /\ UNCHANGED <<client, told, called, work, inputEnded, pending, round, outcome,
                   rows, buffer, next, stalled, runs, dead, expired, idle>>

BranchClosed(s) ==
    /\ eng[s] = "select"
    /\ conn[s] = "gone"
    /\ End(s, "clean")

\* The select's continuation, when it is not an await of its own.
Local == UNCHANGED <<client, told, called, work, inputEnded, dead, expired>>

\* deliver, on rows or on one failed document.
Deliver(s) ==
    /\ eng[s] = "deliver"
    /\ outcome[s].ok \/ Len(outcome[s].docs) = 1
    /\ rows' = [rows EXCEPT ![s] =
           [i \in DOMAIN outcome[s].docs |-> [doc |-> outcome[s].docs[i], ok |-> outcome[s].ok]]]
    /\ outcome' = [outcome EXCEPT ![s] = NoOutcome]
    /\ Goto(s, "answer")
    /\ UNCHANGED <<pending, round, buffer, next, stalled, timer, retries, runs, idle>>
    /\ Local

\* deliver, on a batch that failed whole: its documents run one by one.
DeliverFailed(s) ==
    /\ eng[s] = "deliver"
    /\ ~outcome[s].ok
    /\ Len(outcome[s].docs) > 1
    /\ \/ dead[s] /\ End(s, "clean")
       \/ ~dead[s] /\ Goto(s, "split")
          /\ UNCHANGED <<queues, runs, idle>> /\ Local

Split(s) ==
    /\ eng[s] = "split"
    /\ IF outcome[s].docs = <<>>
       THEN Goto(s, "dispatch") /\ UNCHANGED <<stalled, timer, runs, idle, outcome>>
       ELSE /\ TakeOrStash(s, <<Head(outcome[s].docs)>>, stalled[s], timer[s])
            /\ outcome' = [outcome EXCEPT ![s].docs = Tail(@)]
            /\ UNCHANGED eng
    /\ UNCHANGED <<pending, round, rows, buffer, next, retries>>
    /\ Local

\* MUTANT: an input-ordered stream answers the earliest document it has.
DueEarliest(s) ==
    IF s \in ordered THEN {a \in buffer[s] : \A o \in buffer[s] : a.doc <= o.doc}
                      ELSE {a \in ToSet(rows[s]) : a = Head(rows[s])}

\* The answers the stream's order lets go now.
Due(s) ==
    IF s \in ordered THEN {a \in buffer[s] : a.doc = next[s]}
                      ELSE {a \in ToSet(rows[s]) : a = Head(rows[s])}

\* enqueue: an input-ordered answer goes to the buffer first.
Enqueue(s) ==
    /\ eng[s] = "answer"
    /\ s \in ordered
    /\ Due(s) = {}
    /\ rows[s] # <<>>
    /\ buffer' = [buffer EXCEPT ![s] = @ \cup {Head(rows[s])}]
    /\ rows' = [rows EXCEPT ![s] = Tail(@)]
    /\ UNCHANGED <<eng, pending, round, outcome, next, stalled, timer, retries, runs, idle>>
    /\ Local

\* send: the channel has a place; room and permit go with the answer.
Send(s) ==
    /\ eng[s] = "answer"
    /\ conn[s] # "gone"
    /\ Len(out[s]) - got[s] < Window
    /\ \E a \in Due(s) :
        /\ out' = [out EXCEPT ![s] = Append(@, a)]
        /\ buffer' = [buffer EXCEPT ![s] = @ \ {a}]
        /\ rows' = [rows EXCEPT ![s] = IF s \in ordered THEN @ ELSE Tail(@)]
    /\ next' = [next EXCEPT ![s] = @ + 1]
    /\ UNCHANGED <<client, how, called, work, eng, inputEnded, pending, round,
                   outcome, stalled, timer, retries, runs, dead, expired, idle>>

\* MUTANT: the answer is offered again to a client that is gone.
SendFailsRetries(s) ==
    /\ eng[s] = "answer"
    /\ conn[s] = "gone"
    /\ Due(s) # {}
    /\ UNCHANGED vars

SendFails(s) ==
    /\ eng[s] = "answer"
    /\ conn[s] = "gone"
    /\ Due(s) # {}
    /\ End(s, "clean")

Enqueued(s) ==
    /\ eng[s] = "answer"
    /\ Due(s) = {}
    /\ rows[s] = <<>>
    /\ Goto(s, "dispatch")
    /\ UNCHANGED <<queues, runs, idle>>
    /\ Local

\* retry_stalled: each batch once.
Retry(s) ==
    /\ eng[s] = "retry"
    /\ retries[s] > 0
    /\ Respawn(s, Head(stalled[s]), Tail(stalled[s]), timer[s])
    /\ retries' = [retries EXCEPT ![s] = @ - 1]
    /\ UNCHANGED <<eng, pending, round, outcome, rows, buffer, next>>
    /\ Local

Retried(s) ==
    /\ eng[s] = "retry"
    /\ retries[s] = 0
    /\ Goto(s, "dispatch")
    /\ UNCHANGED <<queues, runs, idle>>
    /\ Local

-----------------------------------------------------------------------------
(* dispatch: by the linger's timer ("forced"), then in every turn *)

\* The n-th smallest of a set of numbers, and what a sequence has of a set, in
\* its order: SelectSeq and SetToSortSeq in a form that can be proved about.
Nth(S, n) == CHOOSE i \in S : Cardinality({j \in S : j <= i}) = n
Keep(q, S) ==
    LET at == {i \in DOMAIN q : q[i] \in S}
    IN  [n \in 1 .. Cardinality(at) |-> q[Nth(at, n)]]

\* The pending documents of one key.
Group(s, k) == Keep(pending[s], {d \in ToSet(pending[s]) : KeyOf(s, d) = k})
Heads(s) == {Head(Group(s, KeyOf(s, d))) : d \in ToSet(pending[s])}

\* MUTANT: the groups keep no order of arrival.
GroupsUnsorted(s) ==
    [n \in 1 .. Cardinality(Heads(s)) |->
        Group(s, KeyOf(s, Nth(Heads(s), Cardinality(Heads(s)) + 1 - n)))]

\* The pending documents by key, the group of the earliest first.
Groups(s) ==
    [n \in 1 .. Cardinality(Heads(s)) |-> Group(s, KeyOf(s, Nth(Heads(s), n)))]

AfterDispatch(s) == IF eng[s] \in {"forced", "grouping forced"} THEN "dispatch" ELSE "check"

\* Nothing to dispatch, no permit, or the linger is not over.
DispatchNothing(s) ==
    /\ eng[s] \in {"forced", "dispatch"}
    /\ \/ pending[s] = <<>>
       \/ Available(s) = 0
       \/ eng[s] = "dispatch" /\ ~inputEnded[s]
    /\ Goto(s, AfterDispatch(s))
    /\ UNCHANGED <<queues, runs, idle>>
    /\ Local

DispatchGroups(s) ==
    /\ eng[s] \in {"forced", "dispatch"}
    /\ pending[s] # <<>>
    /\ Available(s) > 0
    /\ LET gs == Groups(s) IN
        round' = [round EXCEPT ![s] =
            [groups |-> gs, leftover |-> <<>>,
             share |-> IF Window \div Len(gs) = 0 THEN 1 ELSE Window \div Len(gs)]]
    /\ pending' = [pending EXCEPT ![s] = <<>>]
    /\ Goto(s, IF eng[s] = "forced" THEN "grouping forced" ELSE "grouping")
    /\ UNCHANGED <<outcome, rows, buffer, next, stalled, timer, retries, runs, idle>>
    /\ Local

\* The size of the next batch of a group.
BatchSize(s, g) ==
    CHOOSE n \in {Len(g), BatchLimit, round[s].share, Available(s)} :
        \A m \in {Len(g), BatchLimit, round[s].share, Available(s)} : n <= m

\* MUTANT: a group the window has no permit for is not left over.
DispatchGroupDrops(s) ==
    /\ eng[s] \in {"grouping", "grouping forced"}
    /\ round[s].groups # <<>>
    /\ LET g == Head(round[s].groups)
           n == BatchSize(s, g)
       IN  /\ round' = [round EXCEPT ![s].groups = Tail(@),
                   ![s].leftover = IF n = 0 THEN @ ELSE @ \o SubSeq(g, n + 1, Len(g))]
           /\ IF n = 0 THEN UNCHANGED <<stalled, timer, runs, idle>>
                       ELSE Respawn(s, SubSeq(g, 1, n), stalled[s], timer[s])
    /\ UNCHANGED <<eng, pending, outcome, rows, buffer, next, retries>>
    /\ Local

\* One group: its first documents start as a batch, the others are left over.
DispatchGroup(s) ==
    /\ eng[s] \in {"grouping", "grouping forced"}
    /\ round[s].groups # <<>>
    /\ LET g == Head(round[s].groups)
           n == BatchSize(s, g)
       IN  /\ round' = [round EXCEPT ![s].groups = Tail(@),
                                     ![s].leftover = @ \o SubSeq(g, n + 1, Len(g))]
           /\ IF n = 0 THEN UNCHANGED <<stalled, timer, runs, idle>>
                       ELSE Respawn(s, SubSeq(g, 1, n), stalled[s], timer[s])
    /\ UNCHANGED <<eng, pending, outcome, rows, buffer, next, retries>>
    /\ Local

DispatchEnds(s) ==
    /\ eng[s] \in {"grouping", "grouping forced"}
    /\ round[s].groups = <<>>
    /\ pending' = [pending EXCEPT ![s] = round[s].leftover]
    /\ round' = [round EXCEPT ![s] = NoRound]
    /\ Goto(s, AfterDispatch(s))
    /\ UNCHANGED <<outcome, rows, buffer, next, stalled, timer, retries, runs, idle>>
    /\ Local

-----------------------------------------------------------------------------
(* The ends of the loop *)

\* The exit test at the loop's foot.
Check(s) ==
    /\ eng[s] = "check"
    /\ IF inputEnded[s] /\ pending[s] = <<>> /\ runs[s] = {} /\ buffer[s] = {} /\ stalled[s] = <<>>
       THEN End(s, "clean")
       ELSE Goto(s, "top") /\ UNCHANGED <<queues, runs, idle>> /\ Local

\* MUTANT: what the batches under way return is not taken from the JoinSet.
JoinAllWaits(s) ==
    /\ eng[s] = "joinall"
    /\ runs[s] = {}
    /\ Goto(s, "deadline")
    /\ UNCHANGED <<queues, runs, idle>>
    /\ Local

\* abort_deadline waits for the batches under way, and drops what they return.
JoinAll(s) ==
    /\ eng[s] = "joinall"
    /\ runs' = [runs EXCEPT ![s] = {r \in @ : r.phase # "done"}]
    /\ runs'[s] # runs[s] \/ runs[s] = {}
    /\ Goto(s, IF runs[s] = {} THEN "deadline" ELSE "joinall")
    /\ UNCHANGED <<queues, idle>>
    /\ Local

\* The last message of a call that does not end well.
SendStatus(s) ==
    /\ eng[s] \in {"abort", "deadline"}
    /\ conn[s] = "gone" \/ Len(out[s]) - got[s] < Window
    /\ End(s, eng[s])

-----------------------------------------------------------------------------
Reader(s) == ReaderLoop(s) \/ ReadEnd(s) \/ ReadError(s) \/ Admit(s) \/ WaitDies(s) \/ Put(s)
Client(s) == HalfClose(s) \/ Breaks(s) \/ GoesAway(s) \/ ReadDoc(s) \/ ReadMisplaced(s)
Branch(s) ==
    \/ BranchDeadline(s) \/ BranchDoc(s) \/ BranchInputEnds(s) \/ BranchJoin(s)
    \/ BranchLinger(s) \/ BranchClosed(s)
Engine(s) ==
    \/ Top(s) \/ Branch(s) \/ BranchRetry(s)
    \/ Deliver(s) \/ DeliverFailed(s) \/ Split(s)
    \/ Enqueue(s) \/ Send(s) \/ SendFails(s) \/ Enqueued(s)
    \/ Retry(s) \/ Retried(s)
    \/ DispatchNothing(s) \/ DispatchGroups(s) \/ DispatchGroup(s) \/ DispatchEnds(s)
    \/ Check(s) \/ JoinAll(s) \/ SendStatus(s)

Next ==
    \E s \in Streams :
        \/ Reader(s) \/ Client(s) \/ ClientReads(s) \/ Engine(s)
        \/ RunStarts(s) \/ RunEnds(s) \/ Expires(s) \/ DeadTimer(s)

Spec == Init /\ [][Next]_vars

\* Fairness: the runtime polls every ready task and runs every blocking closure
\* (weak). A select picks among its ready branches at random, so one ready again
\* and again is picked (strong); only the retry of stalled batches can keep the
\* loop turning for ever, so it is the other branches that need it.
Fairness ==
    \A s \in Streams :
        /\ WF_vars(Reader(s))
        /\ WF_vars(Engine(s))
        /\ SF_vars(Branch(s))
        /\ WF_vars(RunStarts(s) \/ RunEnds(s))
        /\ WF_vars(DeadTimer(s))

FairSpec == Spec /\ Fairness
\* A client that goes on reading its answers.
ReadingSpec == FairSpec /\ \A s \in Streams : WF_vars(ClientReads(s))

-----------------------------------------------------------------------------
(* Safety *)

Answers(s) == [doc : 1 .. MaxDocs[s], ok : BOOLEAN]

\* Every variable keeps its type; no channel, window or queue passes its cap.
TypeOK ==
    /\ ordered \subseteq Streams
    /\ conn \in [Streams -> {"open", "closed", "broken", "gone"}]
    /\ how \in [Streams -> {"open", "clean", "deadline", "abort"}]
    /\ reader \in [Streams -> {"top", "read", "wait", "put", "abort", "done"}]
    /\ eng \in [Streams -> {"top", "select", "deliver", "split", "answer", "retry",
           "forced", "grouping forced", "dispatch", "grouping", "check", "joinall",
           "abort", "deadline", "ended"}]
    /\ inputEnded \in [Streams -> BOOLEAN]
    /\ timer \in [Streams -> BOOLEAN]
    /\ dead \in [Streams -> BOOLEAN]
    /\ expired \in [Streams -> BOOLEAN]
    /\ idle \in [Loads -> SUBSET Nat]
    /\ \A s \in Streams :
        /\ docs[s] \in Seq(Kinds[s]) /\ Len(docs[s]) <= MaxDocs[s]
        /\ out[s] \in Seq(Answers(s))
        /\ got[s] \in 0 .. Len(out[s])
        /\ Len(out[s]) - got[s] <= Window
        /\ Len(work[s]) <= StreamRooms
        /\ work[s] \in Seq(0 .. Len(docs[s]))
        /\ pending[s] \in Seq(1 .. Len(docs[s]))
        /\ outcome[s] \in [docs : Seq(1 .. Len(docs[s])), ok : BOOLEAN]
        /\ rows[s] \in Seq(Answers(s))
        /\ buffer[s] \subseteq Answers(s)
        /\ next[s] \in 1 .. MaxDocs[s] + 1
        /\ stalled[s] \in Seq(Seq(1 .. Len(docs[s])))
        /\ retries[s] \in 0 .. Len(stalled[s])
        /\ Available(s) >= 0
        /\ Cardinality(Queued(s)) <= StreamRooms

\* The documents the engine has been given.
Given(s) == Len(docs[s]) - (IF reader[s] \in {"wait", "put"} THEN 1 ELSE 0)

\* Every place a document is in, down to its position in its batch.
At(q, d) == {i \in DOMAIN q : q[i] = d}
AtBatch(bs, d) == UNION {{b} \X At(bs[b], d) : b \in DOMAIN bs}
AtAnswer(as, d) == {i \in DOMAIN as : as[i].doc = d}
Copies(s, d) ==
    ({"work"} \X At(work[s], d)) \cup ({"pending"} \X At(pending[s], d))
        \cup ({"groups"} \X AtBatch(round[s].groups, d))
        \cup ({"leftover"} \X At(round[s].leftover, d))
        \cup ({"stalled"} \X AtBatch(stalled[s], d))
        \cup ({"runs"} \X UNION {{r} \X At(r.docs, d) : r \in runs[s]})
        \cup ({"outcome"} \X At(outcome[s].docs, d))
        \cup ({"rows"} \X AtAnswer(rows[s], d))
        \cup ({"buffer"} \X {a \in buffer[s] : a.doc = d})
        \cup ({"out"} \X AtAnswer(out[s], d))

\* No document is lost or duplicated on its way through the queue, the groups
\* and leftovers of dispatch, the batches stalled, running, failed and split, and
\* the ordered buffer: while the stream lives, each one handed to the engine is
\* in exactly one of those places or answered, and no other document is
\* (engine.rs dispatch, deliver).
EachDocumentKept ==
    \A s \in Streams : ~dead[s] =>
        \A d \in 1 .. MaxDocs[s] : Cardinality(Copies(s, d)) = IF d <= Given(s) THEN 1 ELSE 0

\* An input-ordered stream never wedges: when no window permit is free, one is
\* held by a document earlier than every document still pending, so that an
\* answer can be sent and its permit freed (engine.rs dispatch, "a later
\* sequence must never take the last permit").
WindowNeverWedges ==
    \A s \in Streams : s \in ordered /\ pending[s] # <<>> /\ Available(s) = 0 =>
        \E d \in Dispatched(s) : \A p \in ToSet(pending[s]) : d < p

\* The runs of load l that have not returned.
Held(l) ==
    UNION {{<<s, r>> : r \in {x \in runs[s] : x.phase # "done" /\ x.session[1] = l}} : s \in Streams}

SessionsExclusive ==
    \A l \in Loads :
        /\ \A h \in Held(l) : h[2].session[2] \notin idle[l]
        /\ Cardinality(Held(l)) + Cardinality(idle[l]) = Sessions[l]

\* A session is idle or held by one run that has not returned, of one batching
\* key of its load, whatever ended the stream that took it (state.rs Held).
SessionsConserved ==
    /\ SessionsExclusive
    /\ \A l \in Loads : \A h \in Held(l) : \A d \in ToSet(h[2].docs) :
           KeyOf(h[1], d) = KeyOf(h[1], Head(h[2].docs)) /\ LoadOf[KeyOf(h[1], d)] = l

\* The call is the service StreamService describes: each answer is its own
\* document's, in the order asked for, and a good document is not answered as
\* failed because of the batch it ran in or of the deadline that stopped it;
\* before the deadline the call ends well only when all are answered
\* (engine.rs deliver, abort_deadline).
Service == INSTANCE StreamService
ImplementsService == Service!Spec

-----------------------------------------------------------------------------
(* Liveness *)

\* A client that half-closes and reads sees its call end: no batch is forgotten
\* stalled, lingering, buffered or unjoined.
CallEnds == \A s \in Streams : conn[s] = "closed" ~> (Ended(s) \/ conn[s] = "gone")

\* A client that goes away leaves no queue room, session or run behind, even
\* when it never read an answer.
CancelFrees ==
    \A s \in Streams : conn[s] = "gone" ~> (reader[s] = "done" /\ Queued(s) = {} /\ runs[s] = {})

\* A stream whose deadline passes ends, if its client reads.
DeadlineEnds == \A s \in Streams : expired[s] ~> Ended(s)

-----------------------------------------------------------------------------
(* What the documents say and the code does not do *)

\* docs/grpc.md: when the deadline expires the call answers DEADLINE_EXCEEDED; it
\* never ends without a status before the client has half-closed.
DeadlineIsReported == \A s \in Streams : conn[s] = "open" => how[s] # "clean"
=============================================================================
