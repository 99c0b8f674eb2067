--------------------------- MODULE SinkForwarder ---------------------------
(***************************************************************************)
(* The document sink's queue: server/src/sink/mod.rs. Threads offer items  *)
(* without waiting, the call of a draining task takes them out through its *)
(* Feed, and close takes what is left when its time is over.               *)
(*                                                                         *)
(* The sender and the receiver each have a mutex and the counters are      *)
(* atomics, so every change of a counter another thread could fall between *)
(* is a step of its own; what a thread does under a mutex to data nobody   *)
(* else sees is one with its neighbour. A call's Feed is dropped as the    *)
(* call ends; one whose task was aborted is polled by the connection for   *)
(* as long as that lives.                                                  *)
(***************************************************************************)
EXTENDS Integers, FiniteSets, SequencesExt, Sums

CONSTANTS
    Threads,   \* threads that offer
    MaxItems,  \* max_queue_items
    MaxBytes,  \* max_queue_bytes
    Word,      \* values of the AtomicU64 `queued' (2^64)
    Sizes,     \* bound: encoded sizes of the items
    MaxOffers  \* bound: items offered

ASSUME SinkAssumption ==
    /\ {MaxItems, MaxBytes, Word} \subseteq Nat \ {0}
    /\ MaxItems < Word
    /\ Sizes \subseteq Nat \ {0}
    /\ MaxOffers \in Nat
    /\ IsFiniteSet(Threads)

NoOne == "no_one"
ASSUME NoOneAssumption == NoOne \notin Threads

VARIABLES
    at,          \* where each thread is in enqueue
    item,        \* the item it offers: its bytes, and whether they fit
    asked,       \* offers started
    locked,      \* who holds the sender's mutex
    sender,      \* the queue has its sender
    queue,       \* the channel: items by their bytes
    task,        \* the draining task
    feed,        \* the Feed of its call: what it has taken, and where it is
    closed,      \* a Feed has seen the queue's end
    closing,     \* where close is
    taken,       \* the item close has taken
    offered, forwarded, dropped, abandoned, queued, queuedBytes,
    turnedAway   \* history: a fitting item dropped while the sender was there

threads  == <<at, item, asked, locked>>
counters == <<offered, forwarded, dropped, abandoned, queued, queuedBytes>>
draining == <<task, feed, closed>>
ending   == <<closing, taken>>
vars == <<threads, sender, queue, draining, ending, counters, turnedAway>>

NoItem == [bytes |-> 0, fits |-> FALSE]
NoFeed == [at |-> "none", bytes |-> 0]
Polled == [at |-> "open", bytes |-> 0]

Init ==
    /\ at = [t \in Threads |-> "idle"]
    /\ item = [t \in Threads |-> NoItem]
    /\ asked = 0
    /\ locked = NoOne
    /\ sender = TRUE
    /\ queue = <<>>
    /\ task = "call"
    /\ feed = Polled
    /\ closed = FALSE
    /\ closing = "open"
    /\ taken = 0
    /\ offered = 0 /\ forwarded = 0 /\ dropped = 0 /\ abandoned = 0
    /\ queued = 0 /\ queuedBytes = 0
    /\ turnedAway = FALSE

-----------------------------------------------------------------------------
(* enqueue *)

\* reserve: the bytes are taken by compare and exchange, if they fit.
Reserve(t) ==
    /\ at[t] = "idle"
    /\ asked < MaxOffers
    /\ \E n \in Sizes :
        LET fits == queuedBytes + n <= MaxBytes IN
        /\ item' = [item EXCEPT ![t] = [bytes |-> n, fits |-> fits]]
        /\ queuedBytes' = IF fits THEN queuedBytes + n ELSE queuedBytes
    /\ at' = [at EXCEPT ![t] = "reserved"]
    /\ asked' = asked + 1
    /\ UNCHANGED <<locked, sender, queue, draining, ending,
                   offered, forwarded, dropped, abandoned, queued, turnedAway>>

Lock(t) ==
    /\ at[t] = "reserved"
    /\ locked = NoOne
    /\ locked' = t
    /\ offered' = offered + 1
    /\ at' = [at EXCEPT ![t] = IF sender THEN "open" ELSE "closed"]
    /\ UNCHANGED <<item, asked, sender, queue, draining, ending,
                   forwarded, dropped, abandoned, queued, queuedBytes, turnedAway>>

Locked(t) == at[t] \in {"open", "closed"}

\* try_send succeeds: the item can be taken from here on.
TrySend(t) ==
    /\ Locked(t)
    /\ item[t].fits /\ sender /\ Len(queue) < MaxItems
    /\ queue' = Append(queue, item[t].bytes)
    /\ at' = [at EXCEPT ![t] = "sent"]
    /\ UNCHANGED <<item, asked, locked, sender, draining, ending, counters, turnedAway>>

\* MUTANT: the bytes of an item the queue refused stay reserved.
DropKeepsBytes(t) ==
    /\ Locked(t)
    /\ ~(item[t].fits /\ sender /\ Len(queue) < MaxItems)
    /\ dropped' = dropped + 1
    /\ turnedAway' = (turnedAway \/ (at[t] = "open" /\ item[t].fits /\ Len(queue) < MaxItems))
    /\ locked' = NoOne
    /\ at' = [at EXCEPT ![t] = "idle"]
    /\ item' = [item EXCEPT ![t] = NoItem]
    /\ UNCHANGED <<asked, sender, queue, draining, ending,
                   offered, forwarded, abandoned, queued, queuedBytes>>

\* The item is dropped, and its bytes given back if it had reserved any.
Drop(t) ==
    /\ Locked(t)
    /\ ~(item[t].fits /\ sender /\ Len(queue) < MaxItems)
    /\ queuedBytes' = IF item[t].fits THEN queuedBytes - item[t].bytes ELSE queuedBytes
    /\ dropped' = dropped + 1
    /\ turnedAway' = (turnedAway \/ (at[t] = "open" /\ item[t].fits /\ Len(queue) < MaxItems))
    /\ locked' = NoOne
    /\ at' = [at EXCEPT ![t] = "idle"]
    /\ item' = [item EXCEPT ![t] = NoItem]
    /\ UNCHANGED <<asked, sender, queue, draining, ending,
                   offered, forwarded, abandoned, queued>>

CountQueued(t) ==
    /\ at[t] = "sent"
    /\ queued' = (queued + 1) % Word
    /\ locked' = NoOne
    /\ at' = [at EXCEPT ![t] = "idle"]
    /\ item' = [item EXCEPT ![t] = NoItem]
    /\ UNCHANGED <<asked, sender, queue, draining, ending,
                   offered, forwarded, dropped, abandoned, queuedBytes, turnedAway>>

-----------------------------------------------------------------------------
(* The draining task and its Feed *)

\* poll_next takes an item under the receiver's mutex, which close holds while
\* it takes what is left.
Take ==
    /\ feed.at = "open"
    /\ queue # <<>>
    /\ closing \notin {"taking", "counting", "uncounting"}
    /\ feed' = [at |-> "took", bytes |-> Head(queue)]
    /\ queue' = Tail(queue)
    /\ UNCHANGED <<threads, sender, task, closed, ending, counters, turnedAway>>

Uncount ==
    /\ feed.at = "took"
    /\ queued' = (queued - 1) % Word
    /\ feed' = [feed EXCEPT !.at = "uncounted"]
    /\ UNCHANGED <<threads, sender, queue, task, closed, ending,
                   offered, forwarded, dropped, abandoned, queuedBytes, turnedAway>>

Forward ==
    /\ feed.at = "uncounted"
    /\ queuedBytes' = queuedBytes - feed.bytes
    /\ forwarded' = forwarded + 1
    /\ feed' = Polled
    /\ UNCHANGED <<threads, sender, queue, task, closed, ending,
                   offered, dropped, abandoned, queued, turnedAway>>

\* The queue's end: no sender, nothing left.
FeedEnds ==
    /\ feed.at = "open"
    /\ queue = <<>>
    /\ ~sender
    /\ closing \notin {"taking", "counting", "uncounting"}
    /\ closed' = TRUE
    /\ feed' = NoFeed
    /\ UNCHANGED <<threads, sender, queue, task, ending, counters, turnedAway>>

\* MUTANT: the task returns once the sender is gone.
CallEndsEarly ==
    /\ task = "call"
    /\ feed.at \in {"open", "none"}
    /\ feed' = NoFeed
    /\ task' = IF ~sender THEN "done" ELSE "sleep"
    /\ UNCHANGED <<threads, sender, queue, closed, ending, counters, turnedAway>>

\* stream_documents returns, with a summary or an error, at the queue's end or
\* before; the task is over once the queue has ended.
CallEnds ==
    /\ task = "call"
    /\ feed.at \in {"open", "none"}
    /\ feed' = NoFeed
    /\ task' = IF closed THEN "done" ELSE "sleep"
    /\ UNCHANGED <<threads, sender, queue, closed, ending, counters, turnedAway>>

Reopen ==
    /\ task = "sleep"
    /\ task' = "call"
    /\ feed' = Polled
    /\ UNCHANGED <<threads, sender, queue, closed, ending, counters, turnedAway>>

\* The connection drops the Feed of an aborted call.
FeedDropped ==
    /\ task = "aborted"
    /\ feed.at = "open"
    /\ feed' = NoFeed
    /\ UNCHANGED <<threads, sender, queue, task, closed, ending, counters, turnedAway>>

-----------------------------------------------------------------------------
(* close *)

\* MUTANT: the sender is taken without its mutex.
CloseUnlocked ==
    /\ closing = "open"
    /\ sender' = FALSE
    /\ closing' = "waiting"
    /\ UNCHANGED <<threads, queue, draining, taken, counters, turnedAway>>

Close ==
    /\ closing = "open"
    /\ locked = NoOne
    /\ sender' = FALSE
    /\ closing' = "waiting"
    /\ UNCHANGED <<threads, queue, draining, taken, counters, turnedAway>>

Drained ==
    /\ closing = "waiting"
    /\ task = "done"
    /\ closing' = "over"
    /\ UNCHANGED <<threads, sender, queue, draining, taken, counters, turnedAway>>

\* MUTANT: only a task between two calls is stopped.
TimeoutAsleep ==
    /\ closing = "waiting"
    /\ task = "sleep"
    /\ task' = "aborted"
    /\ closing' = "aborted"
    /\ UNCHANGED <<threads, sender, queue, feed, closed, taken, counters, turnedAway>>

\* The time is over: the task is aborted and joined.
Timeout ==
    /\ closing = "waiting"
    /\ task # "done"
    /\ task' = "aborted"
    /\ closing' = "aborted"
    /\ UNCHANGED <<threads, sender, queue, feed, closed, taken, counters, turnedAway>>

\* The receiver's mutex, held until the queue is empty.
LockReceiver ==
    /\ closing = "aborted"
    /\ closing' = "taking"
    /\ UNCHANGED <<threads, sender, queue, draining, taken, counters, turnedAway>>

TakeLeft ==
    /\ closing = "taking"
    /\ IF queue = <<>>
       THEN closing' = "over" /\ UNCHANGED <<queue, taken>>
       ELSE /\ taken' = Head(queue)
            /\ queue' = Tail(queue)
            /\ closing' = "uncounting"
    /\ UNCHANGED <<threads, sender, draining, counters, turnedAway>>

UncountLeft ==
    /\ closing = "uncounting"
    /\ queued' = (queued - 1) % Word
    /\ closing' = "counting"
    /\ UNCHANGED <<threads, sender, queue, draining, taken,
                   offered, forwarded, dropped, abandoned, queuedBytes, turnedAway>>

Abandon ==
    /\ closing = "counting"
    /\ queuedBytes' = queuedBytes - taken
    /\ abandoned' = abandoned + 1
    /\ taken' = 0
    /\ closing' = "taking"
    /\ UNCHANGED <<threads, sender, queue, draining,
                   offered, forwarded, dropped, queued, turnedAway>>

-----------------------------------------------------------------------------
Offer(t) == Reserve(t) \/ Lock(t) \/ TrySend(t) \/ Drop(t) \/ CountQueued(t)
Feeding == Take \/ Uncount \/ Forward \/ FeedEnds
Closing == Drained \/ Timeout \/ LockReceiver \/ TakeLeft \/ UncountLeft \/ Abandon

Next ==
    \/ \E t \in Threads : Offer(t)
    \/ Feeding \/ CallEnds \/ Reopen \/ FeedDropped
    \/ Close \/ Closing

Spec == Init /\ [][Next]_vars

\* An offer and a poll run to their end; close is scheduled and its timer fires.
\* Nothing is asked of the sink: a call may fail or hang for ever.
FairSpec ==
    /\ Spec
    /\ \A t \in Threads : WF_vars(Lock(t) \/ TrySend(t) \/ Drop(t) \/ CountQueued(t))
    /\ WF_vars(Uncount \/ Forward)
    /\ WF_vars(Closing)

-----------------------------------------------------------------------------
\* The bytes an offer has reserved for an item that is not in the queue yet.
Reserved(t) == IF at[t] \in {"reserved", "open", "closed"} /\ item[t].fits THEN item[t].bytes ELSE 0

Of(p) == {t \in Threads : at[t] \in p}
Count(b) == IF b THEN 1 ELSE 0

\* Types. The queue and its bytes never pass their bounds.
TypeOK ==
    /\ at \in [Threads -> {"idle", "reserved", "open", "closed", "sent"}]
    /\ item \in [Threads -> [bytes : Nat, fits : BOOLEAN]]
    /\ locked \in Threads \cup {NoOne}
    /\ sender \in BOOLEAN /\ closed \in BOOLEAN
    /\ queue \in Seq(Sizes) /\ Len(queue) <= MaxItems
    /\ task \in {"call", "sleep", "done", "aborted"}
    /\ feed \in [at : {"none", "open", "took", "uncounted"}, bytes : Nat]
    /\ closing \in {"open", "waiting", "aborted", "taking", "uncounting", "counting", "over"}
    /\ taken \in Nat
    /\ {offered, forwarded, dropped, abandoned} \subseteq 0 .. MaxOffers
    /\ queued \in 0 .. (Word - 1)
    /\ queuedBytes \in 0 .. MaxBytes

ItemsCounted ==
    offered = forwarded + dropped + abandoned + Len(queue)
        + Cardinality(Of({"open", "closed"}))
        + Count(feed.at \in {"took", "uncounted"})
        + Count(closing \in {"uncounting", "counting"})

QueueCounted ==
    queued = (Len(queue) - Cardinality(Of({"sent"}))
        + Count(feed.at = "took") + Count(closing = "uncounting")) % Word

BytesCounted ==
    /\ queuedBytes = Total(queue) + feed.bytes + taken + Total([t \in Threads |-> Reserved(t)])
    /\ queuedBytes <= MaxBytes

\* The counts add up at every step, whoever is between which two of them: what
\* was offered is forwarded, dropped, abandoned, queued or in someone's hand, and
\* the queued bytes are those of the queue and of nothing else, within the bound
\* (mod.rs enqueue, Feed::poll_next, close).
CountsAddUp == ItemsCounted /\ QueueCounted /\ BytesCounted

\* close waits out an offer that has begun: an item that was counted as offered
\* before the sender was taken, and has room, is queued (mod.rs enqueue, close).
NoOfferTurnedAway == ~turnedAway

\* When close returns the queue is empty, so an item it held was sent or counted
\* abandoned, and a later offer never waits in it (mod.rs close, drain).
ClosedIsEmpty == closing = "over" => queue = <<>>

\* close returns, though the sink never answers (mod.rs close).
CloseReturns == closing = "waiting" ~> closing = "over"
=============================================================================
