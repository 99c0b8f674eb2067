-------------------------- MODULE StreamAdmission --------------------------
(***************************************************************************)
(* The queue rooms of AnalyzeStream, permit by permit: admit_permits and   *)
(* Room in server/src/stream/mod.rs, and wait_room in reader.rs.           *)
(*                                                                         *)
(* An admission takes an item and the document's bytes from the server's   *)
(* semaphores, then from the stream's own, and holds what it has while it  *)
(* waits for the next. The semaphores are tokio's: first come, first       *)
(* served, and a waiter for many permits keeps those behind it waiting.    *)
(* Only one reader waits on a stream's semaphores, so theirs need no       *)
(* queue. Dropping a room lowers the gauges before its permits go back.    *)
(***************************************************************************)
EXTENDS Integers, SequencesExt, Sums

CONSTANTS
    Streams,
    ServerItems,  \* MAX_QUEUED_ITEMS_SERVER
    ServerBytes,  \* MAX_QUEUED_BYTES_SERVER
    StreamItems,  \* MAX_QUEUED_ITEMS_PER_STREAM
    StreamBytes,  \* MAX_QUEUED_BYTES_PER_STREAM
    DocSizes,     \* bound: document sizes sent
    IdSizes       \* bound: id sizes of documents over the byte cap

ASSUME AdmissionAssumption ==
    /\ {ServerItems, ServerBytes, StreamItems, StreamBytes} \subseteq Nat \ {0}
    /\ StreamBytes <= ServerBytes
    /\ DocSizes \cup IdSizes \subseteq Nat
    /\ IsFiniteSet(Streams)

VARIABLES
    stage,       \* what each reader's admission waits for
    want,        \* the bytes it asks for
    itemQueue,   \* the readers waiting on the server's items, in order
    byteQueue,   \* and on its bytes
    freeItems,   \* the server's free permits
    freeBytes,
    ownItems,    \* each stream's free permits
    ownBytes,
    rooms,       \* the rooms each stream holds, by their bytes
    releasing,   \* rooms whose gauges are lowered, their permits not yet back
    dead,        \* the stream died
    itemCount,   \* Shared.queued_item_count
    byteCount    \* Shared.queued_byte_count

queues  == <<itemQueue, byteQueue>>
permits == <<freeItems, freeBytes, ownItems, ownBytes>>
gauges  == <<itemCount, byteCount>>
roomVars    == <<stage, want, queues, permits, rooms, releasing, dead, gauges>>

Stages == {"idle", "item", "bytes", "own_item", "own_bytes", "over"}

RoomsInit ==
    /\ stage = [s \in Streams |-> "idle"]
    /\ want = [s \in Streams |-> 0]
    /\ itemQueue = <<>>
    /\ byteQueue = <<>>
    /\ freeItems = ServerItems
    /\ freeBytes = ServerBytes
    /\ ownItems = [s \in Streams |-> StreamItems]
    /\ ownBytes = [s \in Streams |-> StreamBytes]
    /\ rooms = [s \in Streams |-> <<>>]
    /\ releasing = [s \in Streams |-> <<>>]
    /\ dead = [s \in Streams |-> FALSE]
    /\ itemCount = 0
    /\ byteCount = 0

Waits(s, p) == stage' = [stage EXCEPT ![s] = p]

\* MUTANT: no document is refused for its size.
NeverOverByteCap(n) == FALSE

OverByteCap(n) == n > StreamBytes \/ n > ServerBytes

\* The bytes a document asks for, and those its refusal asks for: the bytes of
\* its id, cut to the stream's cap.
Asked(n)   == IF n = 0 THEN 1 ELSE n
Refused(i) == IF i > StreamBytes THEN StreamBytes ELSE Asked(i)

\* The reader has a document and starts an admission.
Ask(s) ==
    /\ stage[s] = "idle"
    /\ ~dead[s]
    /\ \E n \in DocSizes, i \in IdSizes :
        want' = [want EXCEPT ![s] = IF OverByteCap(n) THEN Refused(i) ELSE Asked(n)]
    /\ itemQueue' = Append(itemQueue, s)
    /\ Waits(s, "item")
    /\ UNCHANGED <<byteQueue, permits, rooms, releasing, dead, gauges>>

TakeItem(s) ==
    /\ itemQueue # <<>> /\ Head(itemQueue) = s
    /\ freeItems > 0
    /\ freeItems' = freeItems - 1
    /\ itemQueue' = Tail(itemQueue)
    /\ byteQueue' = Append(byteQueue, s)
    /\ Waits(s, "bytes")
    /\ UNCHANGED <<want, freeBytes, ownItems, ownBytes, rooms, releasing, dead, gauges>>

TakeBytes(s) ==
    /\ byteQueue # <<>> /\ Head(byteQueue) = s
    /\ freeBytes >= want[s]
    /\ freeBytes' = freeBytes - want[s]
    /\ byteQueue' = Tail(byteQueue)
    /\ Waits(s, "own_item")
    /\ UNCHANGED <<want, itemQueue, freeItems, ownItems, ownBytes, rooms, releasing, dead, gauges>>

TakeOwnItem(s) ==
    /\ stage[s] = "own_item"
    /\ ownItems[s] > 0
    /\ ownItems' = [ownItems EXCEPT ![s] = @ - 1]
    /\ Waits(s, "own_bytes")
    /\ UNCHANGED <<want, queues, freeItems, freeBytes, ownBytes, rooms, releasing, dead, gauges>>

\* The last permits: the gauges rise and the room is the document's.
TakeOwnBytes(s) ==
    /\ stage[s] = "own_bytes"
    /\ ownBytes[s] >= want[s]
    /\ ownBytes' = [ownBytes EXCEPT ![s] = @ - want[s]]
    /\ itemCount' = itemCount + 1
    /\ byteCount' = byteCount + want[s]
    /\ rooms' = [rooms EXCEPT ![s] = Append(@, want[s])]
    /\ want' = [want EXCEPT ![s] = 0]
    /\ Waits(s, "idle")
    /\ UNCHANGED <<queues, freeItems, freeBytes, ownItems, releasing, dead>>

\* The stream dies (engine.rs).
Dies(s) ==
    /\ ~dead[s]
    /\ dead' = [dead EXCEPT ![s] = TRUE]
    /\ UNCHANGED <<stage, want, queues, permits, rooms, releasing, gauges>>

Has(s, p) ==   \* the admission of s holds what stage p waits for
    \/ p = "item" /\ stage[s] \in {"bytes", "own_item", "own_bytes"}
    \/ p = "bytes" /\ stage[s] \in {"own_item", "own_bytes"}
    \/ p = "own_item" /\ stage[s] = "own_bytes"

\* A waiter leaves a semaphore's queue.
Leave(q, s) ==
    IF s \in ToSet(q) THEN RemoveAt(q, CHOOSE i \in DOMAIN q : q[i] = s) ELSE q

\* MUTANT: a cancelled admission gives the item back and not the bytes.
CancelForgetsBytes(s) ==
    /\ stage[s] \in Stages \ {"idle", "over"}
    /\ dead[s]
    /\ freeItems' = freeItems + (IF Has(s, "item") THEN 1 ELSE 0)
    /\ ownItems' = [ownItems EXCEPT ![s] = @ + (IF Has(s, "own_item") THEN 1 ELSE 0)]
    /\ itemQueue' = Leave(itemQueue, s)
    /\ byteQueue' = Leave(byteQueue, s)
    /\ want' = [want EXCEPT ![s] = 0]
    /\ Waits(s, "over")
    /\ UNCHANGED <<freeBytes, ownBytes, rooms, releasing, dead, gauges>>

\* wait_room sees the stream dead: the admission is dropped where it waits,
\* with the permits it has.
Cancel(s) ==
    /\ stage[s] # "over"
    /\ dead[s]
    /\ freeItems' = freeItems + (IF Has(s, "item") THEN 1 ELSE 0)
    /\ freeBytes' = freeBytes + (IF Has(s, "bytes") THEN want[s] ELSE 0)
    /\ ownItems' = [ownItems EXCEPT ![s] = @ + (IF Has(s, "own_item") THEN 1 ELSE 0)]
    /\ itemQueue' = Leave(itemQueue, s)
    /\ byteQueue' = Leave(byteQueue, s)
    /\ want' = [want EXCEPT ![s] = 0]
    /\ Waits(s, "over")
    /\ UNCHANGED <<ownBytes, rooms, releasing, dead, gauges>>

\* Room::drop: a document is answered, or dropped with its stream.
Lower(s) ==
    /\ \E i \in DOMAIN rooms[s] :
        /\ itemCount' = itemCount - 1
        /\ byteCount' = byteCount - rooms[s][i]
        /\ rooms' = [rooms EXCEPT ![s] = RemoveAt(@, i)]
        /\ releasing' = [releasing EXCEPT ![s] = Append(@, rooms[s][i])]
    /\ UNCHANGED <<stage, want, queues, permits, dead>>

\* Then its permits drop.
Release(s) ==
    /\ releasing[s] # <<>>
    /\ LET n == Head(releasing[s]) IN
        /\ freeItems' = freeItems + 1
        /\ freeBytes' = freeBytes + n
        /\ ownItems' = [ownItems EXCEPT ![s] = @ + 1]
        /\ ownBytes' = [ownBytes EXCEPT ![s] = @ + n]
    /\ releasing' = [releasing EXCEPT ![s] = Tail(@)]
    /\ UNCHANGED <<stage, want, queues, rooms, dead, gauges>>

Admission(s) ==
    TakeItem(s) \/ TakeBytes(s) \/ TakeOwnItem(s) \/ TakeOwnBytes(s) \/ Cancel(s)

RoomsNext == \E s \in Streams : Ask(s) \/ Admission(s) \/ Dies(s) \/ Lower(s) \/ Release(s)

RoomsSpec == RoomsInit /\ [][RoomsNext]_roomVars

\* A semaphore wakes its first waiter, a drop runs to its end, and every room
\* is dropped in the end: its document is answered or its stream dies.
RoomsFairSpec ==
    RoomsSpec /\ \A s \in Streams :
        WF_roomVars(Admission(s)) /\ WF_roomVars(Lower(s)) /\ WF_roomVars(Release(s))

-----------------------------------------------------------------------------
\* Types; every waiter is in the queue of its stage.
RoomTypes ==
    /\ stage \in [Streams -> Stages]
    /\ want \in [Streams -> Nat]
    /\ dead \in [Streams -> BOOLEAN]
    /\ rooms \in [Streams -> Seq(1 .. StreamBytes)]
    /\ releasing \in [Streams -> Seq(1 .. StreamBytes)]
    /\ freeItems \in 0 .. ServerItems /\ freeBytes \in 0 .. ServerBytes
    /\ ownItems \in [Streams -> 0 .. StreamItems]
    /\ ownBytes \in [Streams -> 0 .. StreamBytes]
    /\ itemCount \in 0 .. ServerItems /\ byteCount \in 0 .. ServerBytes
    /\ \A s \in Streams :
        /\ stage[s] = "item" <=> s \in ToSet(itemQueue)
        /\ stage[s] = "bytes" <=> s \in ToSet(byteQueue)

\* The items and the bytes of a stream's rooms, and with them those of its
\* admission under way.
HeldBy(s) == Len(rooms[s]) + Len(releasing[s])
Full(s) == Total(rooms[s]) + Total(releasing[s])
ItemsOf(s) == HeldBy(s) + (IF Has(s, "item") THEN 1 ELSE 0)
BytesOf(s) == Full(s) + (IF Has(s, "bytes") THEN want[s] ELSE 0)

\* Nothing leaks: at both levels the permits that are not free are those of the
\* rooms and of the admissions under way, whatever was cancelled at which stage,
\* and the gauges count the rooms (mod.rs Room, admit_permits).
PermitsConserved ==
    /\ freeItems + Total([s \in Streams |-> ItemsOf(s)]) = ServerItems
    /\ freeBytes + Total([s \in Streams |-> BytesOf(s)]) = ServerBytes
    /\ itemCount = Total([s \in Streams |-> Len(rooms[s])])
    /\ byteCount = Total([s \in Streams |-> Total(rooms[s])])
    /\ \A s \in Streams :
        /\ ownItems[s] + HeldBy(s) + (IF Has(s, "own_item") THEN 1 ELSE 0) = StreamItems
        /\ ownBytes[s] + Full(s) = StreamBytes

\* Two admissions never deadlock, no size blocks the queue behind it for ever,
\* and no admission outlives its stream (mod.rs admit, reader.rs wait_room).
EveryAdmissionEnds ==
    \A s \in Streams : stage[s] \notin {"idle", "over"} ~> stage[s] \in {"idle", "over"}
=============================================================================
