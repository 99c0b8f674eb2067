------------------------ MODULE AnalyzeStreamProofs ------------------------
(* Proofs about AnalyzeStream, for any number of streams, loads and          *)
(* sessions, any window, rooms, documents and fates.                         *)
(*                                                                           *)
(* First the sessions: none is lost or taken twice, whatever ends the stream *)
(* that took it. Their invariant, IInv, says that the sessions of a load that *)
(* are not idle and the runs that have not returned are one for one.         *)
(*                                                                           *)
(* Then the documents: none is lost, doubled, answered with another's result *)
(* or left behind a wedged window. Their invariant, DInv, says of each stream *)
(* where its documents are (Placed, Once), what keeps them in order (Keyed,  *)
(* Fifo), what their answers say (Told), why the window moves (Moves), and what *)
(* the engine holds in each of its states (Phased, Sane). From it follow the *)
(* properties the model states, and that the call implements StreamService.  *)
EXTENDS AnalyzeStream, SequenceTheorems, FunctionTheorems, FiniteSetTheorems, TLAPS

IsRun(r) == DOMAIN r = {"docs", "session", "phase", "ok"}

(* The runs of a stream that hold a session of a load. *)
Working(s, l) == {r \in runs[s] : r.phase # "done" /\ r.session[1] = l}
Taken(l) == (1 .. Sessions[l]) \ idle[l]

(* The sessions of a load that are not idle, and its runs, are one for one. *)
OneForOne(l) ==
    /\ \A s \in Streams : \A r \in Working(s, l) : r.session[2] \in Taken(l)
    /\ \A s, t \in Streams : \A r \in Working(s, l), q \in Working(t, l) :
           r.session[2] = q.session[2] => s = t /\ r = q
    /\ \A i \in Taken(l) : \E s \in Streams : \E r \in Working(s, l) : r.session[2] = i

Shapes ==
    /\ DOMAIN runs = Streams
    /\ runs = [s \in Streams |-> runs[s]]
    /\ \A s \in Streams : \A r \in runs[s] : IsRun(r)
    /\ idle \in [Loads -> SUBSET Nat]
    /\ \A l \in Loads : idle[l] \subseteq 1 .. Sessions[l]

IInv == Shapes /\ \A l \in Loads : OneForOne(l)
-----------------------------------------------------------------------------
(* PROOFS *)
LEMMA InitInvariant == Init => IInv
<1> SUFFICES ASSUME Init PROVE IInv
  OBVIOUS
<1>1. runs = [s \in Streams |-> {}] /\ idle = [l \in Loads |-> 1 .. Sessions[l]]
  BY DEF Init
<1>2. Shapes
  BY <1>1, StreamAssumption DEF Shapes
<1>3. \A l \in Loads : OneForOne(l)
  BY <1>1 DEF OneForOne, Working, Taken
<1> QED  BY <1>2, <1>3 DEF IInv

(* What a step may do to the runs and the sessions.                          *)

(* It drops runs that have returned, or touches none. *)
LEMMA SameWork ==
    ASSUME IInv, idle' = idle, runs' = [s \in Streams |-> runs'[s]],
           \A s \in Streams : runs'[s] \subseteq runs[s] /\ \A r \in runs[s] : r.phase # "done" => r \in runs'[s]
    PROVE  IInv'
<1>1. \A s \in Streams, l \in Loads : Working(s, l)' = Working(s, l)
  BY DEF Working
<1>2. \A l \in Loads : Taken(l)' = Taken(l)
  BY DEF Taken
<1>3. Shapes'
  <2>1. DOMAIN runs' = Streams
    OBVIOUS
  <2> QED  BY <2>1 DEF IInv, Shapes
<1>4. \A l \in Loads : OneForOne(l)'
  BY <1>1, <1>2 DEF IInv, OneForOne
<1> QED  BY <1>3, <1>4 DEF IInv

(* A run takes an idle session. *)
LEMMA StartKeeps ==
    ASSUME IInv, NEW s \in Streams, NEW b, NEW l, NEW i \in idle[l], Start(s, b, l, i)
    PROVE  IInv'
<1> DEFINE new == [docs |-> b, session |-> <<l, i>>, phase |-> "ready", ok |-> FALSE]
<1>1. /\ runs' = [runs EXCEPT ![s] = @ \cup {new}]
      /\ idle' = [idle EXCEPT ![l] = @ \ {i}]
  BY DEF Start
<1>2. new.session[1] = l /\ new.session[2] = i /\ new.phase # "done" /\ IsRun(new)
  BY DEF IsRun
<1> HIDE DEF new
<1>3. \A t \in Streams : runs'[t] = IF t = s THEN runs[t] \cup {new} ELSE runs[t]
  BY <1>1 DEF IInv, Shapes
<1>4. \A m \in Loads : idle'[m] = IF m = l THEN idle[m] \ {i} ELSE idle[m]
  BY <1>1 DEF IInv, Shapes
<1>5. Shapes'
  <2>1. DOMAIN runs' = Streams /\ runs' = [t \in Streams |-> runs'[t]]
    BY <1>1 DEF IInv, Shapes
  <2>2. \A t \in Streams : \A r \in runs[t] : IsRun(r)
    BY DEF IInv, Shapes
  <2>3. \A t \in Streams : \A r \in runs'[t] : IsRun(r)
    BY <1>2, <1>3, <2>2
  <2>4. idle' \in [Loads -> SUBSET Nat] /\ \A m \in Loads : idle'[m] \subseteq 1 .. Sessions[m]
    BY <1>1, <1>4 DEF IInv, Shapes
  <2> QED  BY <2>1, <2>3, <2>4 DEF Shapes
<1>6. \A t \in Streams, m \in Loads : Working(t, m)' = Working(t, m) \cup (IF t = s /\ m = l THEN {new} ELSE {})
  BY <1>2, <1>3 DEF Working
<1>7. ASSUME NEW m \in Loads PROVE OneForOne(m)'
  <2>1. CASE m # l
    <3>1. Taken(m)' = Taken(m)
      BY <1>4, <2>1 DEF Taken
    <3>2. \A t \in Streams : Working(t, m)' = Working(t, m)
      BY <1>6, <2>1, ZenonT(60)
    <3> QED  BY <3>1, <3>2 DEF IInv, OneForOne
  <2>2. CASE m = l
    <3>1. i \in 1 .. Sessions[m] /\ i \notin Taken(m)
      BY <2>2 DEF IInv, Shapes, Taken
    <3>2. Taken(m)' = Taken(m) \cup {i}
      BY <1>4, <2>2, <3>1 DEF Taken
    <3>3. \A t \in Streams : Working(t, m)' = Working(t, m) \cup (IF t = s THEN {new} ELSE {})
      BY <1>6, <2>2
    <3>4. OneForOne(m)
      BY DEF IInv
    <3>5. \A t \in Streams : \A r \in Working(t, m)' : r.session[2] \in Taken(m)'
      BY <1>2, <3>2, <3>3, <3>4 DEF OneForOne
    <3>6. \A t, u \in Streams : \A r \in Working(t, m)', q \in Working(u, m)' :
              r.session[2] = q.session[2] => t = u /\ r = q
      BY <1>2, <3>1, <3>3, <3>4 DEF OneForOne
    <3>7. \A k \in Taken(m)' : \E t \in Streams : \E r \in Working(t, m)' : r.session[2] = k
      BY <1>2, <3>2, <3>3, <3>4 DEF OneForOne
    <3> QED  BY <3>5, <3>6, <3>7 DEF OneForOne
  <2> QED  BY <2>1, <2>2
<1> QED  BY <1>5, <1>7 DEF IInv

(* A run goes on with the session it has. *)
LEMMA MoveKeeps ==
    ASSUME IInv, NEW s \in Streams, NEW r \in runs[s], r.phase # "done", NEW new,
           IsRun(new), new.phase # "done", new.session = r.session,
           runs' = [runs EXCEPT ![s] = (@ \ {r}) \cup {new}], idle' = idle
    PROVE  IInv'
<1>1. \A t \in Streams : runs'[t] = IF t = s THEN (runs[t] \ {r}) \cup {new} ELSE runs[t]
  BY DEF IInv, Shapes
<1>2. Shapes'
  <2>1. DOMAIN runs' = Streams /\ runs' = [t \in Streams |-> runs'[t]]
    BY DEF IInv, Shapes
  <2>2. \A t \in Streams : \A q \in runs'[t] : IsRun(q)
    BY <1>1 DEF IInv, Shapes
  <2> QED  BY <2>1, <2>2 DEF IInv, Shapes
<1>3. ASSUME NEW m \in Loads PROVE OneForOne(m)'
  <2>1. Taken(m)' = Taken(m) /\ OneForOne(m)
    BY DEF Taken, IInv
  <2>2. CASE m # r.session[1]
    <3>1. \A t \in Streams : Working(t, m)' = Working(t, m)
      BY <1>1, <2>2 DEF Working
    <3> QED  BY <2>1, <3>1 DEF OneForOne
  <2>3. CASE m = r.session[1]
    <3>1. r \in Working(s, m) /\ new.session[2] = r.session[2]
      BY <2>3 DEF Working
    <3>2. \A t \in Streams : Working(t, m)' = IF t = s THEN (Working(t, m) \ {r}) \cup {new} ELSE Working(t, m)
      BY <1>1, <2>3 DEF Working
    <3>3. \A t \in Streams : \A q \in Working(t, m)' : q.session[2] \in Taken(m)'
      BY <2>1, <3>1, <3>2 DEF OneForOne
    <3>4. \A t, u \in Streams : \A p \in Working(t, m)', q \in Working(u, m)' :
              p.session[2] = q.session[2] => t = u /\ p = q
      BY <2>1, <3>1, <3>2 DEF OneForOne
    <3>5. ASSUME NEW k \in Taken(m) PROVE \E t \in Streams : \E q \in Working(t, m)' : q.session[2] = k
      <4>1. PICK u \in Streams : \E p \in Working(u, m) : p.session[2] = k
        BY <2>1 DEF OneForOne
      <4>2. PICK p \in Working(u, m) : p.session[2] = k
        BY <4>1
      <4>3. CASE u = s /\ p = r
        BY <3>1, <3>2, <4>2, <4>3
      <4>4. CASE ~(u = s /\ p = r)
        BY <3>2, <4>2, <4>4
      <4> QED  BY <4>3, <4>4
    <3> QED  BY <2>1, <3>3, <3>4, <3>5 DEF OneForOne
  <2> QED  BY <2>2, <2>3
<1> QED  BY <1>2, <1>3 DEF IInv

(* A run returns, and its session with it. *)
LEMMA FinishKeeps ==
    ASSUME IInv, NEW s \in Streams, NEW r \in runs[s], r.phase # "done", NEW ok, Finish(s, r, ok)
    PROVE  IInv'
<1> DEFINE back == IF Ended(s) THEN {} ELSE {[r EXCEPT !.phase = "done", !.ok = ok]}
           l == r.session[1]
           i == r.session[2]
<1>1. runs' = [runs EXCEPT ![s] = (@ \ {r}) \cup back] /\ idle' = [idle EXCEPT ![l] = @ \cup {i}]
  BY DEF Finish
<1>2. \A q \in back : q.phase = "done" /\ IsRun(q)
  <2>1. IsRun(r)
    BY DEF IInv, Shapes
  <2> DEFINE q == [r EXCEPT !.phase = "done", !.ok = ok]
  <2>2. DOMAIN q = DOMAIN r /\ q.phase = "done"
    BY <2>1 DEF IsRun
  <2> HIDE DEF q
  <2>3. IsRun(q) /\ q.phase = "done"
    BY <2>1, <2>2 DEF IsRun
  <2> QED  BY <2>3 DEF q
<1> HIDE DEF back
<1>3. \A t \in Streams : runs'[t] = IF t = s THEN (runs[t] \ {r}) \cup back ELSE runs[t]
  BY <1>1 DEF IInv, Shapes
<1>4. \A m \in Loads : idle'[m] = IF m = l THEN idle[m] \cup {i} ELSE idle[m]
  BY <1>1 DEF IInv, Shapes
<1>5. \A m \in Loads : m = l => r \in Working(s, m) /\ i \in Taken(m)
  BY DEF IInv, OneForOne, Working
<1>6. Shapes'
  <2>1. DOMAIN runs' = Streams /\ runs' = [t \in Streams |-> runs'[t]]
    BY <1>1 DEF IInv, Shapes
  <2>2. \A t \in Streams : \A q \in runs'[t] : IsRun(q)
    BY <1>2, <1>3, ZenonT(60) DEF IInv, Shapes
  <2>3. \A m \in Loads : idle'[m] \subseteq 1 .. Sessions[m]
    <3>1. \A m \in Loads : idle[m] \subseteq 1 .. Sessions[m]
      BY DEF IInv, Shapes
    <3>2. \A m \in Loads : m = l => i \in 1 .. Sessions[m]
      BY <1>5 DEF Taken
    <3>3. \A m \in Loads : idle'[m] \subseteq idle[m] \cup (IF m = l THEN {i} ELSE {})
      BY <1>4
    <3> HIDE DEF l, i
    <3> QED  BY <3>1, <3>2, <3>3
  <2>4. idle' \in [Loads -> SUBSET Nat]
    <3>1. DOMAIN idle' = Loads /\ idle' = [m \in Loads |-> idle'[m]]
      BY <1>1 DEF IInv, Shapes
    <3>2. \A m \in Loads : idle'[m] \subseteq Nat
      BY <2>3
    <3> QED  BY <3>1, <3>2
  <2> QED  BY <2>1, <2>2, <2>3, <2>4 DEF Shapes
<1>7. ASSUME NEW m \in Loads PROVE OneForOne(m)'
  <2>1. OneForOne(m)
    BY DEF IInv
  <2>2. CASE m # l
    <3>1. Taken(m)' = Taken(m) /\ \A t \in Streams : Working(t, m)' = Working(t, m)
      BY <1>2, <1>3, <1>4, <2>2, ZenonT(60) DEF Taken, Working
    <3> QED  BY <2>1, <3>1 DEF OneForOne
  <2>3. CASE m = l
    <3>1. r \in Working(s, m) /\ Taken(m)' = Taken(m) \ {i}
      BY <1>4, <1>5, <2>3 DEF Taken
    <3>2. \A t \in Streams : Working(t, m)' = IF t = s THEN Working(t, m) \ {r} ELSE Working(t, m)
      BY <1>2, <1>3 DEF Working
    <3>3. \A t \in Streams : \A q \in Working(t, m)' : q \in Working(t, m) /\ q.session[2] # i
      BY <2>1, <3>1, <3>2 DEF OneForOne
    <3>4. \A t \in Streams : \A q \in Working(t, m)' : q.session[2] \in Taken(m)'
      BY <2>1, <3>1, <3>3 DEF OneForOne
    <3>5. \A t, u \in Streams : \A p \in Working(t, m)', q \in Working(u, m)' :
              p.session[2] = q.session[2] => t = u /\ p = q
      BY <2>1, <3>3 DEF OneForOne
    <3>6. \A k \in Taken(m)' : \E t \in Streams : \E q \in Working(t, m)' : q.session[2] = k
      BY <2>1, <3>1, <3>2 DEF OneForOne
    <3> QED  BY <3>4, <3>5, <3>6 DEF OneForOne
  <2> QED  BY <2>2, <2>3
<1> QED  BY <1>6, <1>7 DEF IInv

(* The steps of one stream, by what they do to the runs and the sessions.    *)
LocalWork == /\ idle' = idle
             /\ runs' = [s \in Streams |-> runs'[s]]
             /\ \A s \in Streams : runs'[s] \subseteq runs[s] /\ \A r \in runs[s] : r.phase # "done" => r \in runs'[s]

LEMMA Untouched ==
    ASSUME IInv, UNCHANGED <<runs, idle>>
    PROVE  LocalWork
<1>1. runs = [s \in Streams |-> runs[s]]
  BY DEF IInv, Shapes
<1> QED  BY <1>1 DEF LocalWork

(* A step that takes one run out of the set, or those that have returned. *)
LEMMA Dropped ==
    ASSUME IInv, NEW s \in Streams, NEW kept, runs' = [runs EXCEPT ![s] = kept], idle' = idle,
           kept \subseteq runs[s], \A r \in runs[s] : r.phase # "done" => r \in kept
    PROVE  LocalWork
<1>1. \A t \in Streams : runs'[t] = IF t = s THEN kept ELSE runs[t]
  BY DEF IInv, Shapes
<1>2. DOMAIN runs' = Streams /\ runs' = [t \in Streams |-> runs'[t]]
  BY DEF IInv, Shapes
<1> QED  BY <1>1, <1>2 DEF LocalWork

LEMMA EndDrops ==
    ASSUME IInv, NEW s \in Streams, NEW status, End(s, status)
    PROVE  LocalWork
<1> DEFINE kept == {r \in runs[s] : r.phase # "done"}
<1>1. runs' = [runs EXCEPT ![s] = kept] /\ idle' = idle
  BY DEF End
<1> QED  BY <1>1, Dropped

LEMMA LocalKeeps ==
    ASSUME IInv, LocalWork
    PROVE  IInv'
  BY SameWork DEF LocalWork

LEMMA TakeOrStashKeeps ==
    ASSUME IInv, NEW s \in Streams, NEW b, NEW left, NEW set, TakeOrStash(s, b, left, set)
    PROVE  IInv'
<1>1. CASE \E i \in idle[LoadFor(s, b)] : Start(s, b, LoadFor(s, b), i)
  BY <1>1, StartKeeps
<1>2. CASE UNCHANGED <<idle, runs>>
  BY <1>2, Untouched, LocalKeeps
<1> QED  BY <1>1, <1>2 DEF TakeOrStash

LEMMA RespawnKeeps ==
    ASSUME IInv, NEW s \in Streams, NEW b, NEW left, NEW set, Respawn(s, b, left, set)
    PROVE  IInv'
<1>1. CASE UNCHANGED <<idle, runs>>
  BY <1>1, Untouched, LocalKeeps
<1>2. CASE TakeOrStash(s, b, left, set)
  BY <1>2, TakeOrStashKeeps
<1> QED  BY <1>1, <1>2 DEF Respawn

LEMMA ReaderKeeps ==
    ASSUME IInv, NEW s \in Streams, Reader(s) \/ Client(s) \/ ClientReads(s) \/ Expires(s) \/ DeadTimer(s)
    PROVE  IInv'
<1>1. UNCHANGED <<runs, idle>>
  BY DEF Reader, Client, ReaderLoop, ReadEnd, ReadError, Admit, WaitDies, Put, OnlyReader, HalfClose, Breaks,
         GoesAway, ReadDoc, ReadMisplaced, ClientReads, Expires, DeadTimer
<1> QED  BY <1>1, Untouched, LocalKeeps

LEMMA BranchKeeps ==
    ASSUME IInv, NEW s \in Streams, Top(s) \/ Branch(s) \/ BranchRetry(s)
    PROVE  IInv'
<1>1. CASE Top(s) \/ BranchDeadline(s) \/ BranchDoc(s) \/ BranchInputEnds(s) \/ BranchLinger(s) \/ BranchRetry(s)
  <2>1. UNCHANGED <<runs, idle>>
    BY <1>1 DEF Top, BranchDeadline, BranchDoc, BranchInputEnds, BranchLinger, BranchRetry, AbortDeadline
  <2> QED  BY <2>1, Untouched, LocalKeeps
<1>2. CASE BranchJoin(s)
  <2>1. PICK r \in runs[s] : r.phase = "done" /\ runs' = [runs EXCEPT ![s] = @ \ {r}] /\ idle' = idle
    BY <1>2 DEF BranchJoin, AbortDeadline
  <2>2. runs' = [runs EXCEPT ![s] = runs[s] \ {r}]
    BY <2>1
  <2> QED  BY <2>1, <2>2, Dropped, LocalKeeps, ZenonT(60)
<1>3. CASE BranchClosed(s)
  BY <1>3, EndDrops, LocalKeeps DEF BranchClosed
<1> QED  BY <1>1, <1>2, <1>3 DEF Branch

LEMMA RunKeeps ==
    ASSUME IInv, NEW s \in Streams, RunStarts(s) \/ RunEnds(s)
    PROVE  IInv'
<1>1. CASE RunStarts(s)
  <2>1. PICK r \in runs[s] :
            /\ r.phase = "ready"
            /\ IF Ended(s) \/ dead[s]
               THEN Finish(s, r, FALSE)
               ELSE /\ runs' = [runs EXCEPT ![s] = (@ \ {r}) \cup {[r EXCEPT !.phase = "running"]}]
                    /\ UNCHANGED idle
    BY <1>1 DEF RunStarts
  <2>2. CASE Ended(s) \/ dead[s]
    BY <2>1, <2>2, FinishKeeps
  <2>3. CASE ~(Ended(s) \/ dead[s])
    <3> DEFINE new == [r EXCEPT !.phase = "running"]
    <3>1. IsRun(r)
      BY DEF IInv, Shapes
    <3>2. DOMAIN new = DOMAIN r /\ new.phase = "running" /\ new.session = r.session
      BY <3>1 DEF IsRun
    <3>3. runs' = [runs EXCEPT ![s] = (@ \ {r}) \cup {new}] /\ idle' = idle
      BY <2>1, <2>3
    <3> HIDE DEF new
    <3>4. IsRun(new)
      BY <3>1, <3>2 DEF IsRun
    <3> QED  BY <2>1, <3>2, <3>3, <3>4, MoveKeeps
  <2> QED  BY <2>2, <2>3
<1>2. CASE RunEnds(s)
  <2>1. PICK r \in runs[s] : r.phase = "running"
            /\ Finish(s, r, ~dead[s] /\ \A d \in ToSet(r.docs) : Fate(s, d) = "ok")
    BY <1>2 DEF RunEnds
  <2> QED  BY <2>1, FinishKeeps
<1> QED  BY <1>1, <1>2

LEMMA EngineKeeps ==
    ASSUME IInv, NEW s \in Streams, Engine(s)
    PROVE  IInv'
<1>1. CASE Top(s) \/ Branch(s) \/ BranchRetry(s)
  BY <1>1, BranchKeeps
<1>2. CASE Deliver(s) \/ Enqueue(s) \/ Send(s) \/ Enqueued(s) \/ Retried(s) \/ DispatchNothing(s)
           \/ DispatchGroups(s) \/ DispatchEnds(s)
  <2>1. UNCHANGED <<runs, idle>>
    BY <1>2, Zenon DEF Deliver, Enqueue, Send, Enqueued, Retried, DispatchNothing, DispatchGroups, DispatchEnds
  <2> QED  BY <2>1, Untouched, LocalKeeps
<1>3. CASE DeliverFailed(s)
  <2>1. CASE End(s, "clean")
    BY <2>1, EndDrops, LocalKeeps
  <2>2. CASE UNCHANGED <<runs, idle>>
    BY <2>2, Untouched, LocalKeeps
  <2> QED  BY <1>3, <2>1, <2>2 DEF DeliverFailed
<1>4. CASE SendFails(s)
  BY <1>4, EndDrops, LocalKeeps DEF SendFails
<1>5. CASE Check(s)
  <2>1. CASE End(s, "clean")
    BY <2>1, EndDrops, LocalKeeps
  <2>2. CASE UNCHANGED <<runs, idle>>
    BY <2>2, Untouched, LocalKeeps
  <2> QED  BY <1>5, <2>1, <2>2 DEF Check
<1>6. CASE SendStatus(s)
  BY <1>6, EndDrops, LocalKeeps DEF SendStatus
<1>7. CASE JoinAll(s)
  <2> DEFINE kept == {r \in runs[s] : r.phase # "done"}
  <2>1. runs' = [runs EXCEPT ![s] = kept] /\ idle' = idle
    BY <1>7 DEF JoinAll
  <2> QED  BY <2>1, Dropped, LocalKeeps
<1>8. CASE Split(s)
  <2>1. CASE UNCHANGED <<runs, idle>>
    BY <2>1, Untouched, LocalKeeps
  <2>2. CASE TakeOrStash(s, <<Head(outcome[s].docs)>>, stalled[s], timer[s])
    BY <2>2, TakeOrStashKeeps
  <2> QED  BY <1>8, <2>1, <2>2 DEF Split
<1>9. CASE Retry(s)
  BY <1>9, RespawnKeeps DEF Retry
<1>10. CASE DispatchGroup(s)
  <2> DEFINE g == Head(round[s].groups)
             n == BatchSize(s, g)
  <2>1. CASE n = 0
    <3>1. UNCHANGED <<runs, idle>>
      BY <1>10, <2>1, Zenon DEF DispatchGroup
    <3> QED  BY <3>1, Untouched, LocalKeeps
  <2>2. CASE n # 0
    <3>1. Respawn(s, SubSeq(g, 1, n), stalled[s], timer[s])
      BY <1>10, <2>2, Zenon DEF DispatchGroup
    <3> QED  BY <3>1, RespawnKeeps
  <2> QED  BY <2>1, <2>2
<1> QED  BY <1>1, <1>2, <1>3, <1>4, <1>5, <1>6, <1>7, <1>8, <1>9, <1>10 DEF Engine

LEMMA NextKeeps ==
    ASSUME IInv, [Next]_vars
    PROVE  IInv'
<1>1. CASE Next
  <2>1. PICK s \in Streams : \/ Reader(s) \/ Client(s) \/ ClientReads(s) \/ Engine(s)
                             \/ RunStarts(s) \/ RunEnds(s) \/ Expires(s) \/ DeadTimer(s)
    BY <1>1 DEF Next
  <2> QED  BY <2>1, ReaderKeeps, EngineKeeps, RunKeeps
<1>2. CASE UNCHANGED vars
  BY <1>2, Untouched, LocalKeeps DEF vars
<1> QED  BY <1>1, <1>2

(* The runs that hold a session and the sessions taken are as many.          *)
LEMMA HeldIsWorking ==
    ASSUME NEW l
    PROVE  \A h : h \in Held(l) <=> \E s \in Streams : \E r \in Working(s, l) : h = <<s, r>>
  BY DEF Held, Working

LEMMA HeldAsTaken ==
    ASSUME IInv, NEW l \in Loads
    PROVE  ExistsBijection(Held(l), Taken(l))
<1> DEFINE f == [h \in Held(l) |-> h[2].session[2]]
<1>1. OneForOne(l)
  BY DEF IInv
<1>2. \A h \in Held(l) : h[2].session[2] \in Taken(l)
  BY <1>1, HeldIsWorking DEF OneForOne
<1>3. \A g, h \in Held(l) : g[2].session[2] = h[2].session[2] => g = h
  <2>1. SUFFICES ASSUME NEW g \in Held(l), NEW h \in Held(l), g[2].session[2] = h[2].session[2]
                 PROVE  g = h
    OBVIOUS
  <2>2. PICK s \in Streams : \E r \in Working(s, l) : g = <<s, r>>
    BY HeldIsWorking
  <2>3. PICK r \in Working(s, l) : g = <<s, r>>
    BY <2>2
  <2>4. PICK t \in Streams : \E q \in Working(t, l) : h = <<t, q>>
    BY HeldIsWorking
  <2>5. PICK q \in Working(t, l) : h = <<t, q>>
    BY <2>4
  <2>6. r.session[2] = q.session[2]
    BY <2>1, <2>3, <2>5
  <2>7. s = t /\ r = q
    BY <1>1, <2>6 DEF OneForOne
  <2> QED  BY <2>3, <2>5, <2>7
<1>4. \A i \in Taken(l) : \E h \in Held(l) : h[2].session[2] = i
  <2>1. SUFFICES ASSUME NEW i \in Taken(l) PROVE \E h \in Held(l) : h[2].session[2] = i
    OBVIOUS
  <2>2. PICK s \in Streams : \E r \in Working(s, l) : r.session[2] = i
    BY <1>1 DEF OneForOne
  <2>3. PICK r \in Working(s, l) : r.session[2] = i
    BY <2>2
  <2>4. <<s, r>> \in Held(l)
    BY HeldIsWorking
  <2> QED  BY <2>3, <2>4
<1>5. f \in Bijection(Held(l), Taken(l))
  <2>1. f \in [Held(l) -> Taken(l)]
    BY <1>2
  <2>2. \A g, h \in Held(l) : f[g] = f[h] => g = h
    BY <1>3
  <2>3. \A i \in Taken(l) : \E h \in Held(l) : f[h] = i
    BY <1>4
  <2> QED  BY <2>1, <2>2, <2>3, Fun_IsBij
<1> QED  BY <1>5 DEF ExistsBijection

LEMMA InvariantIsExclusive == IInv => SessionsExclusive
<1> SUFFICES ASSUME IInv, NEW l \in Loads
             PROVE  /\ \A h \in Held(l) : h[2].session[2] \notin idle[l]
                    /\ Cardinality(Held(l)) + Cardinality(idle[l]) = Sessions[l]
  BY DEF SessionsExclusive
<1>1. Sessions[l] \in Nat /\ Sessions[l] > 0
  BY StreamAssumption
<1>2. idle[l] \subseteq 1 .. Sessions[l]
  BY DEF IInv, Shapes
<1>3. \A h \in Held(l) : h[2].session[2] \notin idle[l]
  BY HeldIsWorking DEF IInv, OneForOne, Taken
<1>4. IsFiniteSet(1 .. Sessions[l]) /\ Cardinality(1 .. Sessions[l]) = Sessions[l]
  <2>1. 1 \in Int /\ Sessions[l] \in Int
    BY <1>1
  <2>2. /\ IsFiniteSet(1 .. Sessions[l])
        /\ Cardinality(1 .. Sessions[l]) = IF 1 > Sessions[l] THEN 0 ELSE Sessions[l] - 1 + 1
    BY <2>1, FS_Interval
  <2> QED  BY <1>1, <2>2
<1>5. IsFiniteSet(Taken(l)) /\ Cardinality(Taken(l)) = Sessions[l] - Cardinality((1 .. Sessions[l]) \cap idle[l])
  BY <1>4, FS_Difference DEF Taken
<1>6. (1 .. Sessions[l]) \cap idle[l] = idle[l]
  BY <1>2
<1>7. Cardinality(idle[l]) \in Nat
  BY <1>2, <1>4, FS_Subset, FS_CardinalityType
<1>8. ExistsBijection(Taken(l), Held(l))
  BY HeldAsTaken, Fun_ExistsBijSymmetric
<1>9. Cardinality(Held(l)) = Cardinality(Taken(l))
  BY <1>5, <1>8, FS_Bijection
<1>10. Cardinality(Held(l)) = Sessions[l] - Cardinality(idle[l])
  BY <1>5, <1>6, <1>9
<1>11. Cardinality(Held(l)) + Cardinality(idle[l]) = Sessions[l]
  BY <1>1, <1>7, <1>10
<1> QED  BY <1>3, <1>11

(* Whatever ends the stream that took it - its end, its client, its deadline *)
(* or a failed run - a session is idle or held by one run that has not       *)
(* returned: none is lost, and none is given to two runs (state.rs Held).    *)
THEOREM SessionsAlwaysExclusive == Spec => []SessionsExclusive
<1>1. Spec => []IInv
  BY InitInvariant, NextKeeps, PTL DEF Spec
<1> QED  BY <1>1, InvariantIsExclusive, PTL

-----------------------------------------------------------------------------
(* Sequences and the sets of what is in them *)

(* Sequences without repetition.                                             *)
LEMMA SetOfTail ==
    ASSUME NEW S, NEW q \in Seq(S), q # <<>>
    PROVE  /\ ToSet(q) = {Head(q)} \cup ToSet(Tail(q))
           /\ IsInjective(q) => IsInjective(Tail(q)) /\ Head(q) \notin ToSet(Tail(q))
<1> DEFINE t == Tail(q)
           h == Head(q)
<1>1. t \in Seq(S) /\ Len(t) = Len(q) - 1 /\ Len(q) \in Nat /\ Len(q) > 0
      /\ h = q[1] /\ \A i \in 1 .. Len(t) : t[i] = q[i + 1]
  BY HeadTailProperties, EmptySeq, LenProperties
<1>2. DOMAIN q = 1 .. Len(q) /\ DOMAIN t = 1 .. Len(q) - 1
  BY <1>1, LenProperties
<1> HIDE DEF t, h
<1>3. \A i \in DOMAIN q : i = 1 \/ (i - 1 \in DOMAIN t /\ q[i] = t[i - 1])
  BY <1>1, <1>2
<1>4. \A i \in DOMAIN t : i + 1 \in DOMAIN q /\ t[i] = q[i + 1] /\ i + 1 # 1
  BY <1>1, <1>2
<1>5. 1 \in DOMAIN q
  BY <1>1, <1>2
<1>6. ToSet(q) = {h} \cup ToSet(t)
  <2>1. \A x \in ToSet(q) : x \in {h} \cup ToSet(t)
    BY <1>1, <1>3 DEF ToSet
  <2>2. h \in ToSet(q)
    BY <1>1, <1>5 DEF ToSet
  <2>3. \A x \in ToSet(t) : x \in ToSet(q)
    BY <1>4 DEF ToSet
  <2> QED  BY <2>1, <2>2, <2>3
<1>7. IsInjective(q) => IsInjective(t)
  <2>1. SUFFICES ASSUME IsInjective(q), NEW i \in DOMAIN t, NEW j \in DOMAIN t, t[i] = t[j] PROVE i = j
    BY DEF IsInjective
  <2>2. i + 1 = j + 1
    BY <1>4, <2>1 DEF IsInjective
  <2> QED  BY <1>1, <1>2, <2>2
<1>8. IsInjective(q) => h \notin ToSet(t)
  BY <1>1, <1>4, <1>5 DEF IsInjective, ToSet
<1> QED  BY <1>6, <1>7, <1>8 DEF t, h

(* Append adds one element.                                                  *)
LEMMA SetOfAppend ==
    ASSUME NEW S, NEW q \in Seq(S), NEW x \in S
    PROVE  /\ ToSet(Append(q, x)) = ToSet(q) \cup {x}
           /\ IsInjective(q) /\ x \notin ToSet(q) => IsInjective(Append(q, x))
<1> DEFINE p == Append(q, x)
<1>1. Len(q) \in Nat /\ DOMAIN q = 1 .. Len(q) /\ DOMAIN p = 1 .. Len(q) + 1 /\ p[Len(q) + 1] = x
      /\ \A i \in 1 .. Len(q) : p[i] = q[i]
  BY LenProperties
<1> HIDE DEF p
<1>2. ToSet(p) = ToSet(q) \cup {x}
  BY <1>1 DEF ToSet
<1>3. IsInjective(q) /\ x \notin ToSet(q) => IsInjective(p)
  BY <1>1 DEF ToSet, IsInjective
<1> QED  BY <1>2, <1>3 DEF p

(* A concatenation has what its parts have.                                  *)
LEMMA SetOfConcat ==
    ASSUME NEW S, NEW p \in Seq(S), NEW q \in Seq(S)
    PROVE  /\ ToSet(p \o q) = ToSet(p) \cup ToSet(q)
           /\ IsInjective(p) /\ IsInjective(q) /\ ToSet(p) \cap ToSet(q) = {} => IsInjective(p \o q)
<1> DEFINE r == p \o q
<1>1. Len(p) \in Nat /\ Len(q) \in Nat /\ DOMAIN p = 1 .. Len(p) /\ DOMAIN q = 1 .. Len(q)
      /\ DOMAIN r = 1 .. Len(p) + Len(q)
      /\ \A i \in 1 .. Len(p) + Len(q) : r[i] = IF i <= Len(p) THEN p[i] ELSE q[i - Len(p)]
  BY LenProperties, ConcatProperties
<1> HIDE DEF r
<1>2. \A i \in DOMAIN p : i \in DOMAIN r /\ r[i] = p[i]
  BY <1>1
<1>3. \A i \in DOMAIN q : i + Len(p) \in DOMAIN r /\ r[i + Len(p)] = q[i]
  BY <1>1
<1>4. \A i \in DOMAIN r : \/ i \in DOMAIN p /\ r[i] = p[i]
                          \/ i - Len(p) \in DOMAIN q /\ r[i] = q[i - Len(p)]
  BY <1>1
<1>5. ToSet(r) = ToSet(p) \cup ToSet(q)
  BY <1>2, <1>3, <1>4 DEF ToSet
<1>6. ASSUME IsInjective(p), IsInjective(q), ToSet(p) \cap ToSet(q) = {} PROVE IsInjective(r)
  <2>1. SUFFICES ASSUME NEW i \in DOMAIN r, NEW j \in DOMAIN r, r[i] = r[j] PROVE i = j
    BY DEF IsInjective
  <2>2. \A k \in DOMAIN p, l \in DOMAIN q : p[k] # q[l]
    BY <1>6 DEF ToSet
  <2>3. i \in Int /\ j \in Int
    BY <1>1
  <2>4. CASE i \in DOMAIN p /\ r[i] = p[i] /\ j \in DOMAIN p /\ r[j] = p[j]
    BY <1>6, <2>1, <2>4 DEF IsInjective
  <2>5. CASE i - Len(p) \in DOMAIN q /\ r[i] = q[i - Len(p)] /\ j - Len(p) \in DOMAIN q /\ r[j] = q[j - Len(p)]
    <3>1. i - Len(p) = j - Len(p)
      BY <1>6, <2>1, <2>5 DEF IsInjective
    <3> QED  BY <1>1, <2>3, <3>1
  <2> QED  BY <1>4, <2>1, <2>2, <2>4, <2>5
<1> QED  BY <1>5, <1>6 DEF r

(* A sequence cut in two. *)
LEMMA SetOfCut ==
    ASSUME NEW S, NEW q \in Seq(S), NEW n \in 0 .. Len(q)
    PROVE  /\ SubSeq(q, 1, n) \in Seq(S) /\ SubSeq(q, n + 1, Len(q)) \in Seq(S)
           /\ Len(SubSeq(q, 1, n)) = n /\ Len(SubSeq(q, n + 1, Len(q))) = Len(q) - n
           /\ \A i \in 1 .. n : SubSeq(q, 1, n)[i] = q[i]
           /\ \A i \in 1 .. Len(q) - n : SubSeq(q, n + 1, Len(q))[i] = q[n + i]
           /\ ToSet(q) = ToSet(SubSeq(q, 1, n)) \cup ToSet(SubSeq(q, n + 1, Len(q)))
           /\ IsInjective(q) => /\ IsInjective(SubSeq(q, 1, n)) /\ IsInjective(SubSeq(q, n + 1, Len(q)))
                                /\ ToSet(SubSeq(q, 1, n)) \cap ToSet(SubSeq(q, n + 1, Len(q))) = {}
<1> DEFINE a == SubSeq(q, 1, n)
           b == SubSeq(q, n + 1, Len(q))
<1>0. Len(q) \in Nat /\ n \in Nat /\ n <= Len(q)
  BY LenProperties
<1>1. Len(q) \in Nat /\ DOMAIN q = 1 .. Len(q) /\ n \in Nat /\ n <= Len(q) /\ \A i \in 1 .. Len(q) : q[i] \in S
  BY <1>0, LenProperties, ElementOfSeq
<1>2. a \in Seq(S) /\ Len(a) = n /\ \A i \in 1 .. n : a[i] = q[i]
  <2>1. 1 \in Int /\ n \in Int /\ \A i \in 1 .. n : q[i] \in S
    BY <1>1
  <2>2. /\ a \in Seq(S)
        /\ Len(a) = IF 1 <= n THEN n - 1 + 1 ELSE 0
        /\ \A i \in 1 .. n - 1 + 1 : a[i] = q[1 + i - 1]
    BY <2>1, SubSeqProperties
  <2> HIDE DEF a
  <2>3. \A i \in 1 .. n : a[i] = q[i]
    <3>1. SUFFICES ASSUME NEW i \in 1 .. n PROVE a[i] = q[i]
      OBVIOUS
    <3>2. i \in 1 .. n - 1 + 1 /\ 1 + i - 1 = i
      BY <1>1
    <3> QED  BY <2>2, <3>2
  <2> QED  BY <1>1, <2>2, <2>3
<1>3. b \in Seq(S) /\ Len(b) = Len(q) - n /\ \A i \in 1 .. Len(q) - n : b[i] = q[n + i]
  <2>1. n + 1 \in Int /\ Len(q) \in Int /\ \A i \in n + 1 .. Len(q) : q[i] \in S
    BY <1>1
  <2>2. /\ b \in Seq(S)
        /\ Len(b) = IF n + 1 <= Len(q) THEN Len(q) - (n + 1) + 1 ELSE 0
        /\ \A i \in 1 .. Len(q) - (n + 1) + 1 : b[i] = q[(n + 1) + i - 1]
    BY <2>1, SubSeqProperties
  <2> HIDE DEF b
  <2> HIDE DEF b
  <2>3. \A i \in 1 .. Len(q) - n : b[i] = q[n + i]
    <3>1. SUFFICES ASSUME NEW i \in 1 .. Len(q) - n PROVE b[i] = q[n + i]
      OBVIOUS
    <3>2. i \in 1 .. Len(q) - (n + 1) + 1 /\ (n + 1) + i - 1 = n + i
      BY <1>1
    <3> QED  BY <2>2, <3>2
  <2>4. Len(b) = Len(q) - n
    <3>1. n + 1 <= Len(q) \/ n = Len(q)
      BY <1>0
    <3> QED  BY <1>0, <2>2, <3>1
  <2> QED  BY <2>2, <2>3, <2>4
<1> HIDE DEF a, b
<1>4. DOMAIN a = 1 .. n /\ DOMAIN b = 1 .. Len(q) - n
  BY <1>2, <1>3, LenProperties
<1>5. \A i \in DOMAIN q : \/ i \in DOMAIN a /\ q[i] = a[i]
                          \/ i - n \in DOMAIN b /\ q[i] = b[i - n]
  <2>1. SUFFICES ASSUME NEW i \in 1 .. Len(q)
                 PROVE  (i \in DOMAIN a /\ q[i] = a[i]) \/ (i - n \in DOMAIN b /\ q[i] = b[i - n])
    BY <1>1
  <2>2. CASE i <= n
    <3>1. i \in 1 .. n
      BY <1>1, <2>2
    <3>2. i \in DOMAIN a /\ a[i] = q[i]
      BY <1>2, <1>4, <3>1
    <3> QED  BY <3>2
  <2>3. CASE i > n
    <3>1. i - n \in 1 .. Len(q) - n /\ n + (i - n) = i
      BY <1>1, <2>3
    <3> QED  BY <1>3, <1>4, <3>1
  <2> QED  BY <1>1, <2>2, <2>3
<1>6. \A i \in DOMAIN a : i \in DOMAIN q /\ a[i] = q[i] /\ i \in Nat /\ i <= n
  BY <1>1, <1>2, <1>4
<1>7. \A i \in DOMAIN b : n + i \in DOMAIN q /\ b[i] = q[n + i] /\ i \in Nat /\ i > 0
  BY <1>1, <1>3, <1>4
<1>8. ToSet(q) = ToSet(a) \cup ToSet(b)
  BY <1>5, <1>6, <1>7 DEF ToSet
<1>9. ASSUME IsInjective(q) PROVE IsInjective(a) /\ IsInjective(b) /\ ToSet(a) \cap ToSet(b) = {}
  <2>1. IsInjective(a)
    BY <1>6, <1>9 DEF IsInjective
  <2>2. IsInjective(b)
    <3>1. SUFFICES ASSUME NEW i \in DOMAIN b, NEW j \in DOMAIN b, b[i] = b[j] PROVE i = j
      BY DEF IsInjective
    <3>2. n + i = n + j
      BY <1>7, <1>9, <3>1 DEF IsInjective
    <3> QED  BY <1>1, <1>7, <3>2
  <2>3. \A i \in DOMAIN a, j \in DOMAIN b : a[i] # b[j]
    <3>1. SUFFICES ASSUME NEW i \in DOMAIN a, NEW j \in DOMAIN b, a[i] = b[j] PROVE FALSE
      OBVIOUS
    <3>2. i = n + j
      BY <1>6, <1>7, <1>9, <3>1 DEF IsInjective
    <3> QED  BY <1>1, <1>6, <1>7, <3>2
  <2> QED  BY <2>1, <2>2, <2>3 DEF ToSet
<1> QED  BY <1>2, <1>3, <1>8, <1>9 DEF a, b

(* Each number of a finite set has its rank, and each rank its number.       *)
LEMMA NthIsEach ==
    ASSUME NEW S \in SUBSET Nat, IsFiniteSet(S)
    PROVE  /\ Cardinality(S) \in Nat
           /\ \A n \in 1 .. Cardinality(S) : Nth(S, n) \in S
           /\ \A i \in S : \E n \in 1 .. Cardinality(S) : Nth(S, n) = i
           /\ \A m, n \in 1 .. Cardinality(S) : m < n => Nth(S, m) < Nth(S, n)
<1> DEFINE c == Cardinality(S)
           upto(i) == {j \in S : j <= i}
           rank == [i \in S |-> Cardinality(upto(i))]
<1>1. c \in Nat
  BY FS_CardinalityType
<1>2. ASSUME NEW i \in S PROVE rank[i] \in 1 .. c /\ IsFiniteSet(upto(i))
  <2>1. IsFiniteSet(upto(i)) /\ Cardinality(upto(i)) <= c
    BY FS_Subset
  <2>2. Cardinality(upto(i)) \in Nat
    BY <2>1, FS_CardinalityType
  <2>3. i \in upto(i)
    OBVIOUS
  <2>4. Cardinality(upto(i)) # 0
    <3> HIDE DEF upto
    <3> QED  BY <2>1, <2>3, FS_EmptySet
  <2>5. rank[i] = Cardinality(upto(i))
    OBVIOUS
  <2> HIDE DEF rank, upto, c
  <2> QED  BY <1>1, <2>1, <2>2, <2>4, <2>5
<1>3. ASSUME NEW i \in S, NEW j \in S, i < j PROVE rank[i] < rank[j]
  <2>0. i \in Nat /\ j \in Nat /\ \A k \in S : k \in Nat
    OBVIOUS
  <2>1. upto(i) \subseteq upto(j) /\ j \in upto(j) /\ j \notin upto(i)
    <3>1. \A k \in S : k <= i => k <= j
      BY <1>3, <2>0
    <3>2. j <= j /\ ~(j <= i)
      BY <1>3, <2>0
    <3> QED  BY <3>1, <3>2
  <2>2. IsFiniteSet(upto(i)) /\ IsFiniteSet(upto(j))
    BY <1>2
  <2>3. rank[i] = Cardinality(upto(i)) /\ rank[j] = Cardinality(upto(j))
    OBVIOUS
  <2> HIDE DEF upto, rank
  <2>4. Cardinality(upto(i)) <= Cardinality(upto(j)) /\ (Cardinality(upto(i)) = Cardinality(upto(j)) => upto(i) = upto(j))
    BY <2>1, <2>2, FS_Subset
  <2>5. Cardinality(upto(i)) \in Nat /\ Cardinality(upto(j)) \in Nat
    BY <2>2, FS_CardinalityType
  <2>6. upto(i) # upto(j)
    BY <2>1
  <2> QED  BY <2>3, <2>4, <2>5, <2>6
<1>4. IsFiniteSet(1 .. c) /\ Cardinality(1 .. c) = c
  <2>1. 1 \in Int /\ c \in Int
    BY <1>1
  <2>2. IsFiniteSet(1 .. c) /\ Cardinality(1 .. c) = IF 1 > c THEN 0 ELSE c - 1 + 1
    BY <2>1, FS_Interval
  <2> HIDE DEF c
  <2> QED  BY <1>1, <2>2
<1>5. rank \in Injection(S, 1 .. c)
  <2>1. rank \in [S -> 1 .. c]
    BY <1>2
  <2>2. \A i, j \in S : rank[i] = rank[j] => i = j
    <3>1. SUFFICES ASSUME NEW i \in S, NEW j \in S, rank[i] = rank[j], i # j PROVE FALSE
      OBVIOUS
    <3>2. i < j \/ j < i
      BY <3>1
    <3>3. rank[i] < rank[j] \/ rank[j] < rank[i]
      BY <1>3, <3>2
    <3>4. rank[i] \in Nat /\ rank[j] \in Nat
      BY <2>1
    <3> HIDE DEF rank
    <3> QED  BY <3>1, <3>3, <3>4
  <2> QED  BY <2>1, <2>2, Fun_IsInj
<1>6. rank \in Surjection(S, 1 .. c)
  <2> HIDE DEF rank
  <2> QED  BY <1>4, <1>5, FS_Injection DEF c
<1>7. \A n \in 1 .. c : \E i \in S : rank[i] = n
  <2> HIDE DEF rank, c
  <2> QED  BY <1>6, Fun_SurjectionProperties
<1>8. ASSUME NEW n \in 1 .. c PROVE Nth(S, n) \in S /\ rank[Nth(S, n)] = n
  <2>1. \E i \in S : Cardinality({j \in S : j <= i}) = n
    BY <1>7
  <2>2. Nth(S, n) \in S /\ Cardinality({j \in S : j <= Nth(S, n)}) = n
    BY <2>1 DEF Nth
  <2> QED  BY <2>2
<1> HIDE DEF rank
<1>9. ASSUME NEW i \in S PROVE Nth(S, rank[i]) = i
  <2>1. rank[i] \in 1 .. c
    BY <1>2
  <2>2. Nth(S, rank[i]) \in S /\ rank[Nth(S, rank[i])] = rank[i]
    BY <1>8, <2>1
  <2>3. \A j, k \in S : rank[j] = rank[k] => j = k
    BY <1>5, Fun_InjectionProperties
  <2> QED  BY <2>2, <2>3
<1>10. ASSUME NEW m \in 1 .. c, NEW n \in 1 .. c, m < n PROVE Nth(S, m) < Nth(S, n)
  <2>1. Nth(S, m) \in S /\ Nth(S, n) \in S /\ rank[Nth(S, m)] = m /\ rank[Nth(S, n)] = n
    BY <1>8
  <2>2. Nth(S, m) # Nth(S, n)
    BY <1>10, <2>1
  <2>3. ~(Nth(S, n) < Nth(S, m))
    <3>1. ASSUME Nth(S, n) < Nth(S, m) PROVE n < m
      BY <1>3, <2>1, <3>1
    <3> QED  BY <1>1, <1>10, <3>1
  <2>4. Nth(S, m) \in Nat /\ Nth(S, n) \in Nat
    BY <2>1
  <2> QED  BY <2>2, <2>3, <2>4
<1>11. \A i \in S : \E n \in 1 .. c : Nth(S, n) = i
  BY <1>2, <1>9
<1> QED  BY <1>1, <1>8, <1>10, <1>11

(* What a sequence keeps of a set, and its order.                            *)
LEMMA KeepIsKept ==
    ASSUME NEW T, NEW q \in Seq(T), NEW S
    PROVE  /\ Keep(q, S) \in Seq(T)
           /\ ToSet(Keep(q, S)) = ToSet(q) \cap S
           /\ \A i, j \in DOMAIN Keep(q, S) : i < j =>
                  \E k, l \in DOMAIN q : k < l /\ Keep(q, S)[i] = q[k] /\ Keep(q, S)[j] = q[l]
           /\ IsInjective(q) => IsInjective(Keep(q, S))
<1> DEFINE at == {i \in DOMAIN q : q[i] \in S}
           c == Cardinality(at)
           p == Keep(q, S)
<1>1. Len(q) \in Nat /\ DOMAIN q = 1 .. Len(q)
  BY LenProperties
<1>2. at \in SUBSET Nat /\ IsFiniteSet(at)
  <2>1. IsFiniteSet(1 .. Len(q))
    <3>1. 1 \in Int /\ Len(q) \in Int
      BY <1>1
    <3> QED  BY <3>1, FS_Interval
  <2>2. at \subseteq 1 .. Len(q)
    BY <1>1
  <2>3. at \in SUBSET Nat
    BY <1>1, <2>2
  <2> HIDE DEF at
  <2>4. IsFiniteSet(at)
    BY <2>1, <2>2, FS_Subset
  <2> QED  BY <2>3, <2>4
<1>3. p = [n \in 1 .. c |-> q[Nth(at, n)]]
  BY DEF Keep
<1>4. \A i \in at : i \in DOMAIN q /\ q[i] \in S
  OBVIOUS
<1>5. \A i \in DOMAIN q : q[i] \in S => i \in at
  OBVIOUS
<1> HIDE DEF at, p
<1>6. /\ c \in Nat
      /\ \A n \in 1 .. c : Nth(at, n) \in at
      /\ \A i \in at : \E n \in 1 .. c : Nth(at, n) = i
      /\ \A m, n \in 1 .. c : m < n => Nth(at, m) < Nth(at, n)
  BY <1>2, NthIsEach
<1> HIDE DEF c
<1>7. DOMAIN p = 1 .. c /\ \A n \in 1 .. c : p[n] = q[Nth(at, n)]
  BY <1>3
<1>8. p \in Seq(T)
  <2>1. \A n \in 1 .. c : q[Nth(at, n)] \in T
    BY <1>1, <1>4, <1>6, ElementOfSeq
  <2> QED  BY <1>3, <1>6, <2>1
<1>9. ToSet(p) = ToSet(q) \cap S
  <2>1. \A x \in ToSet(p) : x \in ToSet(q) \cap S
    BY <1>4, <1>6, <1>7 DEF ToSet
  <2>2. ASSUME NEW x \in ToSet(q) \cap S PROVE x \in ToSet(p)
    <3>1. PICK i \in DOMAIN q : q[i] = x
      BY DEF ToSet
    <3>2. PICK n \in 1 .. c : Nth(at, n) = i
      BY <1>5, <1>6, <3>1
    <3>3. p[n] = x
      BY <1>7, <3>1, <3>2
    <3> QED  BY <1>7, <3>3 DEF ToSet
  <2> QED  BY <2>1, <2>2
<1>10. ASSUME NEW i \in DOMAIN p, NEW j \in DOMAIN p, i < j
       PROVE  \E k, l \in DOMAIN q : k < l /\ p[i] = q[k] /\ p[j] = q[l]
  <2>1. Nth(at, i) < Nth(at, j) /\ Nth(at, i) \in DOMAIN q /\ Nth(at, j) \in DOMAIN q
    BY <1>4, <1>6, <1>7, <1>10
  <2> QED  BY <1>7, <2>1
<1>11. ASSUME IsInjective(q) PROVE IsInjective(p)
  <2>1. SUFFICES ASSUME NEW i \in DOMAIN p, NEW j \in DOMAIN p, i < j, p[i] = p[j] PROVE FALSE
    BY <1>6, <1>7 DEF IsInjective
  <2>2. PICK k \in DOMAIN q, l \in DOMAIN q : k < l /\ p[i] = q[k] /\ p[j] = q[l]
    BY <1>10, <2>1
  <2>3. k = l
    BY <1>11, <2>1, <2>2 DEF IsInjective
  <2> QED  BY <1>1, <2>2, <2>3
<1> QED  BY <1>8, <1>9, <1>10, <1>11 DEF p

-----------------------------------------------------------------------------
(* The invariant of the documents *)

(* What is true of the documents of one stream, in parts.                    *)

Answer == [doc : Nat, ok : BOOLEAN]
Grouping == {"grouping", "grouping forced"}

Typed(s) ==
    /\ docs[s] \in Seq(Kinds[s])
    /\ work[s] \in Seq(Nat)
    /\ pending[s] \in Seq(Nat)
    /\ round[s] \in [groups : Seq(Seq(Nat)), share : Nat, leftover : Seq(Nat)]
    /\ outcome[s] \in [docs : Seq(Nat), ok : BOOLEAN]
    /\ rows[s] \in Seq(Answer)
    /\ buffer[s] \in SUBSET Answer
    /\ out[s] \in Seq(Answer)
    /\ stalled[s] \in Seq(Seq(Nat))
    /\ \A r \in runs[s] : r.docs \in Seq(Nat) /\ r.ok \in BOOLEAN

(* What the engine holds only between two of its states. *)
Phased(s) ==
    /\ eng[s] \in Grouping => pending[s] = <<>> /\ round[s].share > 0
    /\ eng[s] \notin Grouping => round[s] = NoRound
    /\ eng[s] \notin {"deliver", "split"} => outcome[s].docs = <<>>
    /\ eng[s] = "deliver" => outcome[s].docs # <<>>
    /\ eng[s] # "answer" => rows[s] = <<>>
    /\ eng[s] = "retry" => retries[s] \in Nat /\ retries[s] <= Len(stalled[s])

(* Who has ended what, and why. *)
Sane(s) ==
    /\ dead[s] => expired[s] \/ Ended(s)
    /\ Ended(s) => dead[s]
    /\ eng[s] \in {"joinall", "deadline"} => expired[s] /\ dead[s]
    /\ how[s] = "open" <=> ~Ended(s)
    /\ inputEnded[s] => reader[s] = "done" /\ work[s] = <<>>
    /\ reader[s] = "done" => conn[s] # "open" \/ dead[s] \/ ABORT \in ToSet(work[s]) \/ eng[s] = "abort"
    /\ reader[s] \in {"wait", "put"} => Len(docs[s]) > 0

(* The places a document can be in: disjoint, and while the stream lives     *)
(* every document given to the engine is in one of them.                     *)
Places == {"work", "pending", "groups", "leftover", "stalled", "runs", "outcome", "rows", "buffer", "out"}
Lies(s) ==
    [work |-> ToSet(work[s]) \ {ABORT}, pending |-> ToSet(pending[s]),
     groups |-> InBatches(round[s].groups), leftover |-> ToSet(round[s].leftover),
     stalled |-> InBatches(stalled[s]), runs |-> InRuns(s), outcome |-> ToSet(outcome[s].docs),
     rows |-> InAnswers(ToSet(rows[s])), buffer |-> InAnswers(buffer[s]), out |-> InAnswers(ToSet(out[s]))]
Disjoint(P) == \A p, q \in Places : p # q => P[p] \cap P[q] = {}
InSome(P) == UNION {P[p] : p \in Places}
Placed(s) ==
    /\ Disjoint(Lies(s))
    /\ InSome(Lies(s)) \subseteq 1 .. Given(s)
    /\ ~dead[s] => 1 .. Given(s) \subseteq InSome(Lies(s))

(* In its place it is once. *)
Batches(bs) ==
    /\ \A b \in DOMAIN bs : bs[b] # <<>> /\ IsInjective(bs[b])
    /\ \A b, c \in DOMAIN bs : b # c => ToSet(bs[b]) \cap ToSet(bs[c]) = {}
Singles(as) == \A i, j \in DOMAIN as : as[i].doc = as[j].doc => i = j
Once(s) ==
    /\ IsInjective(pending[s])
    /\ IsInjective(round[s].leftover)
    /\ Batches(round[s].groups)
    /\ Batches(stalled[s])
    /\ IsInjective(outcome[s].docs)
    /\ \A r \in runs[s] : r.docs # <<>> /\ IsInjective(r.docs)
    /\ \A r, q \in runs[s] : r # q => ToSet(r.docs) \cap ToSet(q.docs) = {}
    /\ Singles(rows[s])
    /\ Singles(out[s])
    /\ \A a, b \in buffer[s] : a.doc = b.doc => a = b

(* A batch is of one key, and runs on a session of the key's load. *)
OneKey(s, q) == \A i, j \in DOMAIN q : KeyOf(s, q[i]) = KeyOf(s, q[j])
OtherKeys(s, p, q) == \A i \in DOMAIN p, j \in DOMAIN q : KeyOf(s, p[i]) # KeyOf(s, q[j])
Keyed(s) ==
    /\ \A b \in DOMAIN round[s].groups : OneKey(s, round[s].groups[b])
    /\ \A b, c \in DOMAIN round[s].groups : b # c => OtherKeys(s, round[s].groups[b], round[s].groups[c])
    /\ \A b \in DOMAIN round[s].groups : OtherKeys(s, round[s].leftover, round[s].groups[b])
    /\ \A b \in DOMAIN stalled[s] : OneKey(s, stalled[s][b])
    /\ \A r \in runs[s] : OneKey(s, r.docs) /\ r.session[1] = LoadFor(s, r.docs)

(* An answer is the document's own result. *)
AllOk(s, q) == \A d \in ToSet(q) : Fate(s, d) = "ok"
Told(s) ==
    /\ \A a \in ToSet(rows[s]) \cup buffer[s] \cup ToSet(out[s]) : a.ok = (Fate(s, a.doc) = "ok")
    /\ eng[s] = "deliver" => (outcome[s].ok <=> AllOk(s, outcome[s].docs))
    /\ \A r \in runs[s] : r.phase = "done" =>
           (r.ok => AllOk(s, r.docs)) /\ (~r.ok => dead[s] \/ ~AllOk(s, r.docs))
    /\ ~Ended(s) => next[s] = Len(out[s]) + 1

(* Documents of a key stay in the order they arrived. *)
Rest(s) == ToSet(pending[s]) \cup InBatches(round[s].groups) \cup ToSet(round[s].leftover)
Rises(q) == \A i, j \in DOMAIN q : i < j => q[i] < q[j]
KeysRise(s, q) == \A i, j \in DOMAIN q : i < j /\ KeyOf(s, q[i]) = KeyOf(s, q[j]) => q[i] < q[j]
WorkLater(s) ==
    /\ \A i, j \in DOMAIN work[s] : i < j /\ work[s][i] # ABORT /\ work[s][j] # ABORT => work[s][i] < work[s][j]
    /\ \A w \in ToSet(work[s]) \ {ABORT} : \A d \in Dispatched(s) \cup Rest(s) : d < w
Fifo(s) ==
    /\ WorkLater(s)
    /\ KeysRise(s, pending[s])
    /\ KeysRise(s, round[s].leftover)
    /\ \A b \in DOMAIN round[s].groups : Rises(round[s].groups[b])
    /\ \A b, c \in DOMAIN round[s].groups : b < c => Head(round[s].groups[b]) < Head(round[s].groups[c])

(* A permit is free, or one is held by a document before all that wait. *)
Leads(s) == \E d \in Dispatched(s) : \A p \in Rest(s) : d < p
Moves(s) ==
    /\ Cardinality(Dispatched(s)) <= Window
    /\ Rest(s) = {} \/ Available(s) > 0 \/ Leads(s)
    /\ eng[s] \in Grouping => Leads(s) \/ (round[s].leftover = <<>> /\ Available(s) > 0)

(* Every variable but `idle' and `ordered' is one value for each stream. *)
Maps ==
    /\ conn = [s \in Streams |-> conn[s]] /\ got = [s \in Streams |-> got[s]]
    /\ out = [s \in Streams |-> out[s]] /\ how = [s \in Streams |-> how[s]]
    /\ docs = [s \in Streams |-> docs[s]] /\ reader = [s \in Streams |-> reader[s]]
    /\ work = [s \in Streams |-> work[s]] /\ eng = [s \in Streams |-> eng[s]]
    /\ inputEnded = [s \in Streams |-> inputEnded[s]] /\ pending = [s \in Streams |-> pending[s]]
    /\ round = [s \in Streams |-> round[s]] /\ outcome = [s \in Streams |-> outcome[s]]
    /\ rows = [s \in Streams |-> rows[s]] /\ buffer = [s \in Streams |-> buffer[s]]
    /\ next = [s \in Streams |-> next[s]] /\ stalled = [s \in Streams |-> stalled[s]]
    /\ timer = [s \in Streams |-> timer[s]] /\ retries = [s \in Streams |-> retries[s]]
    /\ runs = [s \in Streams |-> runs[s]] /\ dead = [s \in Streams |-> dead[s]]
    /\ expired = [s \in Streams |-> expired[s]]

Kept(s) == Typed(s) /\ Phased(s) /\ Sane(s) /\ Placed(s) /\ Once(s) /\ Keyed(s) /\ Told(s) /\ Fifo(s) /\ Moves(s)
DInv == Maps /\ \A s \in Streams : Kept(s)

-----------------------------------------------------------------------------
(* Moves of documents between places *)

(* One move of documents between two places, one loss, one entry.            *)
Moved(P, Q, a, b, M) ==
    /\ a # b
    /\ M \subseteq P[a]
    /\ Q[a] = P[a] \ M
    /\ Q[b] = P[b] \cup M
    /\ \A c \in Places : c # a /\ c # b => Q[c] = P[c]

(* A move between two places keeps all places apart, and their union.        *)
LEMMA MovedApart ==
    ASSUME NEW P, NEW Q, NEW a \in Places, NEW b \in Places, NEW M, Moved(P, Q, a, b, M), Disjoint(P)
    PROVE  Disjoint(Q) /\ InSome(Q) = InSome(P)
<1>1. Disjoint(Q)
  <2> SUFFICES ASSUME NEW p \in Places, NEW q \in Places, p # q, NEW x \in Q[p], x \in Q[q] PROVE FALSE
    BY DEF Disjoint
  <2> QED  BY DEF Disjoint, Moved
<1>2. InSome(Q) = InSome(P)
  BY DEF InSome, Moved
<1> QED  BY <1>1, <1>2

(* A stream whose documents move between two places keeps them all.          *)
LEMMA PlacedByMove ==
    ASSUME NEW s, Placed(s), NEW a \in Places, NEW b \in Places, NEW M, Moved(Lies(s), Lies(s)', a, b, M),
           Given(s)' = Given(s), dead'[s] = dead[s]
    PROVE  Placed(s)'
<1>1. Disjoint(Lies(s)') /\ InSome(Lies(s)') = InSome(Lies(s))
  BY MovedApart DEF Placed
<1> QED  BY <1>1 DEF Placed, Disjoint, InSome

(* A stream that died may drop documents, never double one.                  *)
LEMMA PlacedByLoss ==
    ASSUME NEW s, Placed(s), \A c \in Places : Lies(s)'[c] \subseteq Lies(s)[c],
           Given(s) \in Nat, Given(s)' \in Nat, Given(s) <= Given(s)', dead'[s]
    PROVE  Placed(s)'
<1>1. Disjoint(Lies(s)')
  BY DEF Placed, Disjoint
<1>2. InSome(Lies(s)') \subseteq InSome(Lies(s))
  BY DEF InSome
<1>3. 1 .. Given(s) \subseteq (1 .. Given(s))'
  OBVIOUS
<1> HIDE DEF Given
<1> QED  BY <1>1, <1>2, <1>3 DEF Placed, Disjoint, InSome

(* A step that moves no document.                                            *)
LEMMA PlacedStill ==
    ASSUME NEW s, Placed(s), \A c \in Places : Lies(s)'[c] = Lies(s)[c], Given(s)' = Given(s), dead[s] => dead'[s]
    PROVE  Placed(s)'
<1>1. Disjoint(Lies(s)') /\ InSome(Lies(s)') = InSome(Lies(s))
  BY DEF Placed, Disjoint, InSome
<1> QED  BY <1>1 DEF Placed, Disjoint, InSome

(* The reader hands one more document to the engine.                         *)
LEMMA PlacedByEntry ==
    ASSUME NEW s, Placed(s), Given(s) \in Nat, Given(s)' = Given(s) + 1, dead'[s] = dead[s],
           Lies(s)'["work"] = Lies(s)["work"] \cup {Given(s) + 1},
           \A c \in Places : c # "work" => Lies(s)'[c] = Lies(s)[c]
    PROVE  Placed(s)'
<1> DEFINE g == Given(s)
           P == Lies(s)
           Q == Lies(s)'
<1>1. "work" \in Places
  BY DEF Places
<1>2. Disjoint(P) /\ InSome(P) \subseteq 1 .. g /\ (~dead[s] => 1 .. g \subseteq InSome(P))
  BY DEF Placed
<1>3. (1 .. g)' = 1 .. g \cup {g + 1} /\ g + 1 \notin 1 .. g
  OBVIOUS
<1> HIDE DEF g, P, Q
<1>4. g + 1 \notin InSome(P)
  BY <1>2, <1>3
<1>5. InSome(Q) = InSome(P) \cup {g + 1}
  BY <1>1 DEF InSome, g, P, Q
<1>6. Disjoint(Q)
  <2> SUFFICES ASSUME NEW p \in Places, NEW q \in Places, p # q, NEW x \in Q[p], x \in Q[q] PROVE FALSE
    BY DEF Disjoint
  <2>1. \A c \in Places : c # "work" => Q[c] = P[c] /\ g + 1 \notin P[c]
    BY <1>4 DEF P, Q, InSome
  <2>2. Q["work"] = P["work"] \cup {g + 1}
    BY DEF P, Q, g
  <2>3. P[p] \cap P[q] = {}
    BY <1>2 DEF Disjoint
  <2> QED  BY <2>1, <2>2, <2>3
<1>7. InSome(Q) \subseteq (1 .. g)' /\ (~dead[s] => (1 .. g)' \subseteq InSome(Q))
  BY <1>2, <1>3, <1>5
<1> QED  BY <1>6, <1>7 DEF Placed, Disjoint, InSome, Q, g

-----------------------------------------------------------------------------
(* Batches and places *)

(* Sequences of batches.                                                     *)
LEMMA TailOf ==
    ASSUME NEW S, NEW q \in Seq(S), q # <<>>
    PROVE  /\ Head(q) = q[1] /\ 1 \in DOMAIN q /\ Head(q) \in S /\ Tail(q) \in Seq(S)
           /\ \A i \in DOMAIN Tail(q) : i \in Nat /\ i > 0 /\ i + 1 \in DOMAIN q /\ Tail(q)[i] = q[i + 1]
           /\ Len(q) \in Nat /\ Len(q) > 0 /\ Len(Tail(q)) = Len(q) - 1
<1>1. Tail(q) \in Seq(S) /\ Len(Tail(q)) = Len(q) - 1 /\ Len(q) \in Nat /\ Len(q) > 0
      /\ Head(q) = q[1] /\ Head(q) \in S /\ \A i \in 1 .. Len(Tail(q)) : Tail(q)[i] = q[i + 1]
  BY HeadTailProperties, EmptySeq, LenProperties
<1>2. DOMAIN q = 1 .. Len(q) /\ DOMAIN Tail(q) = 1 .. Len(q) - 1
  BY <1>1, LenProperties
<1> DEFINE t == Tail(q)
<1> HIDE DEF t
<1>3. \A i \in DOMAIN t : i \in Nat /\ i > 0 /\ i + 1 \in DOMAIN q /\ t[i] = q[i + 1]
  BY <1>1, <1>2 DEF t
<1>4. 1 \in DOMAIN q
  BY <1>1, <1>2
<1> QED  BY <1>1, <1>3, <1>4 DEF t

(* What Append gives, position by position.                                  *)
LEMMA AppendOf ==
    ASSUME NEW S, NEW q \in Seq(S), NEW x \in S
    PROVE  /\ Append(q, x) \in Seq(S) /\ Append(q, x) # <<>> /\ Len(q) \in Nat
           /\ DOMAIN q = 1 .. Len(q) /\ Len(Append(q, x)) = Len(q) + 1
           /\ DOMAIN Append(q, x) = DOMAIN q \cup {Len(q) + 1} /\ Len(q) + 1 \notin DOMAIN q
           /\ \A i \in DOMAIN q : Append(q, x)[i] = q[i]
           /\ Append(q, x)[Len(q) + 1] = x
<1> DEFINE p == Append(q, x)
<1>1. p \in Seq(S) /\ p # <<>> /\ Len(q) \in Nat /\ DOMAIN q = 1 .. Len(q) /\ DOMAIN p = 1 .. Len(q) + 1 /\ p[Len(q) + 1] = x
      /\ Len(p) = Len(q) + 1 /\ \A i \in 1 .. Len(q) : p[i] = q[i]
  BY LenProperties
<1> HIDE DEF p
<1>2. DOMAIN p = DOMAIN q \cup {Len(q) + 1} /\ Len(q) + 1 \notin DOMAIN q
  BY <1>1
<1> QED  BY <1>1, <1>2 DEF p

(* A document in a sequence of batches is in one of them.                    *)
LEMMA InBatchesAre ==
    ASSUME NEW bs
    PROVE  \A d : d \in InBatches(bs) <=> \E b \in DOMAIN bs : d \in ToSet(bs[b])
<1>1. \A b : b \in ToSet(bs) <=> \E i \in DOMAIN bs : b = bs[i]
  BY DEF ToSet
<1> HIDE DEF ToSet
<1> QED  BY <1>1 DEF InBatches

(* Nothing is in an empty sequence.                                          *)
LEMMA EmptyBatches == InBatches(<<>>) = {} /\ ToSet(<<>>) = {} /\ InAnswers({}) = {}
  BY DEF InBatches, ToSet, InAnswers

(* Without its first batch.                                                  *)
LEMMA BatchesTail ==
    ASSUME NEW bs \in Seq(Seq(Nat)), bs # <<>>, Batches(bs)
    PROVE  /\ Head(bs) \in Seq(Nat) /\ Head(bs) # <<>> /\ IsInjective(Head(bs))
           /\ Batches(Tail(bs))
           /\ InBatches(bs) = ToSet(Head(bs)) \cup InBatches(Tail(bs))
           /\ ToSet(Head(bs)) \cap InBatches(Tail(bs)) = {}
<1> DEFINE t == Tail(bs)
           h == Head(bs)
<1>1. /\ h = bs[1] /\ 1 \in DOMAIN bs /\ h \in Seq(Nat)
      /\ \A i \in DOMAIN t : i \in Nat /\ i > 0 /\ i + 1 \in DOMAIN bs /\ t[i] = bs[i + 1]
  BY TailOf
<1>2. ToSet(bs) = {h} \cup ToSet(t)
  BY SetOfTail
<1> HIDE DEF t, h
<1>3. \A i, j \in DOMAIN t : i # j => i + 1 # j + 1
  <2>1. \A i \in DOMAIN t : i \in Nat
    BY <1>1
  <2> QED  BY <2>1
<1>4. InBatches(bs) = ToSet(h) \cup InBatches(t)
  BY <1>2 DEF InBatches
<1>5. h # <<>> /\ IsInjective(h)
  BY <1>1 DEF Batches
<1>6. Batches(t)
  <2>1. \A b \in DOMAIN t : t[b] # <<>> /\ IsInjective(t[b])
    BY <1>1 DEF Batches
  <2>2. \A b, c \in DOMAIN t : b # c => ToSet(t[b]) \cap ToSet(t[c]) = {}
    BY <1>1, <1>3 DEF Batches
  <2> QED  BY <2>1, <2>2 DEF Batches
<1>7. ToSet(h) \cap InBatches(t) = {}
  <2>1. \A b \in DOMAIN t : b + 1 # 1 /\ b + 1 \in DOMAIN bs
    BY <1>1
  <2>2. \A b \in DOMAIN t : ToSet(h) \cap ToSet(t[b]) = {}
    BY <1>1, <2>1 DEF Batches
  <2> QED  BY <2>2, InBatchesAre
<1> QED  BY <1>1, <1>4, <1>5, <1>6, <1>7 DEF t, h

(* With one more batch.                                                      *)
LEMMA BatchesAppend ==
    ASSUME NEW bs \in Seq(Seq(Nat)), NEW b \in Seq(Nat), Batches(bs), b # <<>>, IsInjective(b),
           ToSet(b) \cap InBatches(bs) = {}
    PROVE  /\ Batches(Append(bs, b))
           /\ InBatches(Append(bs, b)) = InBatches(bs) \cup ToSet(b)
<1> DEFINE a == Append(bs, b)
           n == Len(bs) + 1
<1>1. /\ DOMAIN a = DOMAIN bs \cup {n} /\ n \notin DOMAIN bs
      /\ \A i \in DOMAIN bs : a[i] = bs[i]
      /\ a[n] = b
  BY AppendOf
<1>2. ToSet(a) = ToSet(bs) \cup {b}
  BY SetOfAppend
<1> HIDE DEF a, n
<1>3. InBatches(a) = InBatches(bs) \cup ToSet(b)
  BY <1>2 DEF InBatches
<1>4. \A i \in DOMAIN bs : ToSet(bs[i]) \cap ToSet(b) = {}
  BY InBatchesAre
<1>5. \A i, j \in DOMAIN a : i # j => ToSet(a[i]) \cap ToSet(a[j]) = {}
  BY <1>1, <1>4 DEF Batches
<1>6. \A i \in DOMAIN a : a[i] # <<>> /\ IsInjective(a[i])
  BY <1>1 DEF Batches
<1> QED  BY <1>3, <1>5, <1>6 DEF Batches, a

(* The documents with a permit, and those without, by place. *)
LEMMA PermitsByPlace ==
    ASSUME NEW s
    PROVE  /\ Dispatched(s) = Lies(s)["stalled"] \cup Lies(s)["runs"] \cup Lies(s)["outcome"]
                                  \cup {d \in Lies(s)["rows"] \cup Lies(s)["buffer"] : Fate(s, d) # "bad"}
           /\ Rest(s) = Lies(s)["pending"] \cup Lies(s)["groups"] \cup Lies(s)["leftover"]
<1>1. InAnswers(ToSet(rows[s]) \cup buffer[s]) = InAnswers(ToSet(rows[s])) \cup InAnswers(buffer[s])
  BY DEF InAnswers
<1> QED  BY <1>1 DEF Dispatched, Rest, Lies

(* The documents in the places are finitely many.                            *)
LEMMA GivenFinite ==
    ASSUME NEW s, Placed(s), Given(s) \in Nat
    PROVE  \A T : T \subseteq InSome(Lies(s)) => IsFiniteSet(T) /\ Cardinality(T) \in Nat
<1>1. IsFiniteSet(1 .. Given(s))
  <2>1. 1 \in Int /\ Given(s) \in Int
    OBVIOUS
  <2> QED  BY <2>1, FS_Interval
<1>2. InSome(Lies(s)) \subseteq 1 .. Given(s)
  BY DEF Placed
<1> QED  BY <1>1, <1>2, FS_Subset, FS_CardinalityType

(* So are those with a permit.                                               *)
LEMMA DispatchedFinite ==
    ASSUME NEW s, Placed(s), Given(s) \in Nat
    PROVE  IsFiniteSet(Dispatched(s)) /\ Cardinality(Dispatched(s)) \in Nat
<1>1. Dispatched(s) \subseteq InSome(Lies(s))
  BY PermitsByPlace DEF InSome, Places
<1> QED  BY <1>1, GivenFinite

-----------------------------------------------------------------------------
(* A step of one stream *)

(* A step of one stream leaves the others as they are.                       *)
Same(t) ==
    /\ conn'[t] = conn[t] /\ out'[t] = out[t] /\ how'[t] = how[t] /\ docs'[t] = docs[t]
    /\ reader'[t] = reader[t] /\ work'[t] = work[t] /\ eng'[t] = eng[t] /\ inputEnded'[t] = inputEnded[t]
    /\ pending'[t] = pending[t] /\ round'[t] = round[t] /\ outcome'[t] = outcome[t] /\ rows'[t] = rows[t]
    /\ buffer'[t] = buffer[t] /\ next'[t] = next[t] /\ stalled'[t] = stalled[t] /\ retries'[t] = retries[t]
    /\ runs'[t] = runs[t] /\ dead'[t] = dead[t] /\ expired'[t] = expired[t]
Alone(s) == Maps' /\ \A t \in Streams : t # s => Same(t)

(* A step of the stream that moves no document. *)
SameEngine(t) ==
    /\ \A d \in InSome(Lies(t)) : docs'[t][d] = docs[t][d]
    /\ pending'[t] = pending[t] /\ round'[t] = round[t] /\ outcome'[t] = outcome[t] /\ rows'[t] = rows[t]
    /\ buffer'[t] = buffer[t] /\ out'[t] = out[t] /\ stalled'[t] = stalled[t] /\ runs'[t] = runs[t]
SameQueues(t) == SameEngine(t) /\ docs'[t] = docs[t] /\ work'[t] = work[t]

(* Where the documents, answers and runs of a stream are.                    *)
LEMMA LiesWhere ==
    ASSUME NEW s
    PROVE  /\ \A d \in ToSet(pending[s]) \cup ToSet(round[s].leftover) \cup InBatches(round[s].groups)
                      \cup InBatches(stalled[s]) \cup InRuns(s) \cup ToSet(outcome[s].docs) : d \in InSome(Lies(s))
           /\ \A a \in ToSet(rows[s]) \cup buffer[s] \cup ToSet(out[s]) : a.doc \in InSome(Lies(s))
           /\ \A r \in runs[s] : ToSet(r.docs) \subseteq InSome(Lies(s))
<1>1. \A p \in Places : Lies(s)[p] \subseteq InSome(Lies(s))
  BY DEF InSome
<1>2. \A r \in runs[s] : ToSet(r.docs) \subseteq InRuns(s)
  BY DEF InRuns
<1>3. \A a \in ToSet(rows[s]) : a.doc \in InAnswers(ToSet(rows[s]))
  BY DEF InAnswers
<1>4. \A a \in buffer[s] : a.doc \in InAnswers(buffer[s])
  BY DEF InAnswers
<1>5. \A a \in ToSet(out[s]) : a.doc \in InAnswers(ToSet(out[s]))
  BY DEF InAnswers
<1>6. {"pending", "leftover", "groups", "stalled", "runs", "outcome", "rows", "buffer", "out"} \subseteq Places
  BY DEF Places
<1>7. /\ ToSet(pending[s]) \subseteq InSome(Lies(s)) /\ ToSet(round[s].leftover) \subseteq InSome(Lies(s))
      /\ InBatches(round[s].groups) \subseteq InSome(Lies(s)) /\ InBatches(stalled[s]) \subseteq InSome(Lies(s))
      /\ InRuns(s) \subseteq InSome(Lies(s)) /\ ToSet(outcome[s].docs) \subseteq InSome(Lies(s))
      /\ InAnswers(ToSet(rows[s])) \subseteq InSome(Lies(s)) /\ InAnswers(buffer[s]) \subseteq InSome(Lies(s))
      /\ InAnswers(ToSet(out[s])) \subseteq InSome(Lies(s))
  BY <1>1, <1>6 DEF Lies
<1> QED  BY <1>2, <1>3, <1>4, <1>5, <1>7

(* A step that moves no document moves none in or out of the window.         *)
LEMMA SameLies ==
    ASSUME NEW t, SameEngine(t)
    PROVE  /\ \A c \in Places : c # "work" => Lies(t)'[c] = Lies(t)[c]
           /\ work'[t] = work[t] => Lies(t)'["work"] = Lies(t)["work"]
           /\ Dispatched(t)' = Dispatched(t) /\ Rest(t)' = Rest(t)
<1>1. /\ pending'[t] = pending[t] /\ round'[t] = round[t] /\ outcome'[t] = outcome[t] /\ rows'[t] = rows[t]
      /\ buffer'[t] = buffer[t] /\ out'[t] = out[t] /\ stalled'[t] = stalled[t] /\ runs'[t] = runs[t]
  BY DEF SameEngine
<1>2. InRuns(t)' = InRuns(t)
  BY <1>1 DEF InRuns
<1>3. /\ Lies(t)'["pending"] = Lies(t)["pending"] /\ Lies(t)'["groups"] = Lies(t)["groups"]
      /\ Lies(t)'["leftover"] = Lies(t)["leftover"] /\ Lies(t)'["stalled"] = Lies(t)["stalled"]
      /\ Lies(t)'["runs"] = Lies(t)["runs"] /\ Lies(t)'["outcome"] = Lies(t)["outcome"]
      /\ Lies(t)'["rows"] = Lies(t)["rows"] /\ Lies(t)'["buffer"] = Lies(t)["buffer"]
      /\ Lies(t)'["out"] = Lies(t)["out"]
  BY <1>1, <1>2 DEF Lies
<1>4. \A c \in Places : c # "work" => Lies(t)'[c] = Lies(t)[c]
  BY <1>3 DEF Places
<1>5. work'[t] = work[t] => Lies(t)'["work"] = Lies(t)["work"]
  BY DEF Lies
<1>6. \A d \in Lies(t)["rows"] \cup Lies(t)["buffer"] : Fate(t, d)' = Fate(t, d)
  <2>1. \A d \in Lies(t)["rows"] \cup Lies(t)["buffer"] : d \in InSome(Lies(t))
    BY DEF InSome, Places
  <2> QED  BY <2>1 DEF SameEngine, Fate
<1>7. /\ Dispatched(t)' = Lies(t)'["stalled"] \cup Lies(t)'["runs"] \cup Lies(t)'["outcome"]
                                  \cup {d \in Lies(t)'["rows"] \cup Lies(t)'["buffer"] : Fate(t, d)' # "bad"}
  <2>1. InAnswers(ToSet(rows'[t]) \cup buffer'[t]) = InAnswers(ToSet(rows'[t])) \cup InAnswers(buffer'[t])
    BY DEF InAnswers
  <2> QED  BY <2>1 DEF Dispatched, Lies
<1>8. Dispatched(t)' = Dispatched(t)
  <2> HIDE DEF Lies
  <2> QED  BY <1>3, <1>6, <1>7, PermitsByPlace
<1>9. Rest(t)' = Rest(t)
  BY <1>1 DEF Rest
<1> QED  BY <1>4, <1>5, <1>8, <1>9

(* ... nor changes a batch.                                                  *)
LEMMA SameKeyed ==
    ASSUME NEW t, SameEngine(t), Kept(t)
    PROVE  /\ Keyed(t)' /\ KeysRise(t, pending[t])' /\ KeysRise(t, round[t].leftover)'
<1> DEFINE D == InSome(Lies(t))
<1>1. /\ pending'[t] = pending[t] /\ round'[t] = round[t] /\ stalled'[t] = stalled[t] /\ runs'[t] = runs[t]
      /\ Keyed(t)
  BY DEF SameEngine, Kept
<1>2. \A d \in D : KeyOf(t, d)' = KeyOf(t, d)
  BY DEF SameEngine, KeyOf
<1>3. \A b \in DOMAIN round[t].groups : \A i \in DOMAIN round[t].groups[b] : round[t].groups[b][i] \in D
  <2>1. \A b \in DOMAIN round[t].groups : \A i \in DOMAIN round[t].groups[b] : round[t].groups[b][i] \in InBatches(round[t].groups)
    BY InBatchesAre DEF ToSet
  <2> QED  BY <2>1, LiesWhere
<1>4. \A b \in DOMAIN stalled[t] : \A i \in DOMAIN stalled[t][b] : stalled[t][b][i] \in D
  <2>1. \A b \in DOMAIN stalled[t] : \A i \in DOMAIN stalled[t][b] : stalled[t][b][i] \in InBatches(stalled[t])
    BY InBatchesAre DEF ToSet
  <2> QED  BY <2>1, LiesWhere
<1>5. (\A i \in DOMAIN round[t].leftover : round[t].leftover[i] \in D) /\ \A i \in DOMAIN pending[t] : pending[t][i] \in D
  <2>1. (\A i \in DOMAIN round[t].leftover : round[t].leftover[i] \in ToSet(round[t].leftover))
        /\ \A i \in DOMAIN pending[t] : pending[t][i] \in ToSet(pending[t])
    BY DEF ToSet
  <2> QED  BY <2>1, LiesWhere
<1>6. \A r \in runs[t] : \A i \in DOMAIN r.docs : r.docs[i] \in D
  <2>1. \A r \in runs[t] : \A i \in DOMAIN r.docs : r.docs[i] \in ToSet(r.docs)
    BY DEF ToSet
  <2> QED  BY <2>1, LiesWhere
<1> HIDE DEF D
<1>7. (\A b \in DOMAIN round[t].groups : OneKey(t, round[t].groups[b]))'
  BY <1>1, <1>2, <1>3 DEF Keyed, OneKey
<1>8. (\A b, c \in DOMAIN round[t].groups : b # c => OtherKeys(t, round[t].groups[b], round[t].groups[c]))'
  BY <1>1, <1>2, <1>3 DEF Keyed, OtherKeys
<1>9. (\A b \in DOMAIN round[t].groups : OtherKeys(t, round[t].leftover, round[t].groups[b]))'
  BY <1>1, <1>2, <1>3, <1>5 DEF Keyed, OtherKeys
<1>10. (\A b \in DOMAIN stalled[t] : OneKey(t, stalled[t][b]))'
  BY <1>1, <1>2, <1>4 DEF Keyed, OneKey
<1>11. (\A r \in runs[t] : OneKey(t, r.docs) /\ r.session[1] = LoadFor(t, r.docs))'
  <2>1. SUFFICES ASSUME NEW r \in runs[t] PROVE OneKey(t, r.docs)' /\ r.session[1] = LoadFor(t, r.docs)'
    BY <1>1
  <2>2. OneKey(t, r.docs) /\ r.session[1] = LoadFor(t, r.docs)
    BY <1>1 DEF Keyed
  <2>3. OneKey(t, r.docs)'
    BY <1>2, <1>6, <2>2 DEF OneKey
  <2>4. Head(r.docs) \in D
    <3>1. r.docs \in Seq(Nat) /\ r.docs # <<>>
      BY DEF Kept, Typed, Once
    <3>2. Head(r.docs) = r.docs[1] /\ 1 \in DOMAIN r.docs
      BY <3>1, TailOf
    <3> QED  BY <1>6, <3>2
  <2>5. KeyOf(t, Head(r.docs))' = KeyOf(t, Head(r.docs))
    BY <1>2, <2>4
  <2>6. LoadFor(t, r.docs)' = LoadFor(t, r.docs)
    BY <2>5 DEF LoadFor
  <2> QED  BY <2>2, <2>3, <2>6
<1>12. Keyed(t)'
  BY <1>7, <1>8, <1>9, <1>10, <1>11 DEF Keyed
<1>13. KeysRise(t, pending[t])' /\ KeysRise(t, round[t].leftover)'
  BY <1>1, <1>2, <1>5 DEF Kept, Fifo, KeysRise
<1> QED  BY <1>12, <1>13

(* The documents given are a number.                                         *)
LEMMA GivenIsNat ==
    ASSUME NEW s, docs[s] \in Seq(Kinds[s]), reader[s] \in {"wait", "put"} => Len(docs[s]) > 0
    PROVE  Given(s) \in Nat
<1>1. Len(docs[s]) \in Nat
  BY LenProperties
<1> QED  BY <1>1 DEF Given

(* A step that leaves the engine what it holds keeps what is true of it.     *)
LEMMA EngineKept ==
    ASSUME NEW s, SameEngine(s), Kept(s), dead[s] => dead'[s], next'[s] = next[s], ~Ended(s)' => ~Ended(s),
           eng'[s] = "deliver" => eng[s] = "deliver", eng'[s] \in Grouping => eng[s] \in Grouping,
           Typed(s)', Phased(s)', Sane(s)', Placed(s)', WorkLater(s)'
    PROVE  Kept(s)'
<1>1. /\ pending'[s] = pending[s] /\ round'[s] = round[s] /\ outcome'[s] = outcome[s] /\ rows'[s] = rows[s]
      /\ buffer'[s] = buffer[s] /\ out'[s] = out[s] /\ stalled'[s] = stalled[s] /\ runs'[s] = runs[s]
  BY DEF SameEngine
<1>2. \A d \in InSome(Lies(s)) : Fate(s, d)' = Fate(s, d)
  BY DEF SameEngine, Fate
<1>3. Once(s)'
  BY <1>1 DEF Kept, Once
<1>4. Keyed(s)'
  BY SameKeyed
<1>5. Told(s)'
  <2>1. Told(s)
    BY DEF Kept
  <2>2. (\A a \in ToSet(rows[s]) \cup buffer[s] \cup ToSet(out[s]) : a.ok = (Fate(s, a.doc) = "ok"))'
    BY <1>1, <1>2, <2>1, LiesWhere DEF Told
  <2>3. AllOk(s, outcome[s].docs)' <=> AllOk(s, outcome[s].docs)
    BY <1>1, <1>2, LiesWhere DEF AllOk
  <2>4. (eng[s] = "deliver" => (outcome[s].ok <=> AllOk(s, outcome[s].docs)))'
    BY <1>1, <2>1, <2>3 DEF Told
  <2>5. \A r \in runs[s] : AllOk(s, r.docs)' <=> AllOk(s, r.docs)
    BY <1>2, LiesWhere DEF AllOk
  <2>6. (\A r \in runs[s] : r.phase = "done" =>
           (r.ok => AllOk(s, r.docs)) /\ (~r.ok => dead[s] \/ ~AllOk(s, r.docs)))'
    BY <1>1, <2>1, <2>5 DEF Told
  <2>7. (~Ended(s) => next[s] = Len(out[s]) + 1)'
    BY <1>1, <2>1 DEF Told
  <2> QED  BY <2>2, <2>4, <2>6, <2>7 DEF Told
<1>6. Fifo(s)'
  <2>1. (\A b \in DOMAIN round[s].groups : Rises(round[s].groups[b]))'
        /\ (\A b, c \in DOMAIN round[s].groups : b < c => Head(round[s].groups[b]) < Head(round[s].groups[c]))'
    BY <1>1 DEF Kept, Fifo, Rises
  <2> QED  BY <2>1, SameKeyed DEF Fifo
<1>7. Moves(s)'
  BY <1>1, SameLies DEF Kept, Moves, Leads, Available
<1> QED  BY <1>3, <1>4, <1>5, <1>6, <1>7 DEF Kept

(* The same, of a step that also leaves the work channel.                    *)
LEMMA QuietKept ==
    ASSUME NEW s, SameQueues(s), Kept(s), dead[s] => dead'[s], next'[s] = next[s],
           Given(s)' = Given(s) \/ (dead'[s] /\ Given(s) <= Given(s)'), ~Ended(s)' => ~Ended(s),
           eng'[s] = "deliver" => eng[s] = "deliver", eng'[s] \in Grouping => eng[s] \in Grouping,
           Phased(s)', Sane(s)'
    PROVE  Kept(s)'
<1>1. /\ docs'[s] = docs[s] /\ work'[s] = work[s] /\ SameEngine(s)
  BY DEF SameQueues
<1>2. Given(s) \in Nat /\ Given(s)' \in Nat
  <2>1. Given(s) \in Nat
    BY GivenIsNat DEF Kept, Typed, Sane
  <2>2. Len(docs[s]) \in Nat
    BY LenProperties DEF Kept, Typed
  <2>3. Given(s)' \in Nat
    BY <1>1, <2>2 DEF Sane, Given
  <2> QED  BY <2>1, <2>3
<1>3. Typed(s)'
  BY <1>1 DEF Kept, Typed, SameEngine
<1>4. \A c \in Places : Lies(s)'[c] = Lies(s)[c]
  BY <1>1, SameLies
<1>5. Placed(s)'
  <2>1. Placed(s)
    BY DEF Kept
  <2>2. CASE Given(s)' = Given(s)
    BY <1>4, <2>1, <2>2, PlacedStill
  <2>3. CASE dead'[s] /\ Given(s) <= Given(s)'
    BY <1>2, <1>4, <2>1, <2>3, PlacedByLoss
  <2> QED  BY <2>2, <2>3
<1>6. WorkLater(s)'
  BY <1>1, SameLies DEF Kept, Fifo, WorkLater
<1> QED  BY <1>1, <1>3, <1>5, <1>6, EngineKept

(* A stream another stream's step leaves as it is.                           *)
LEMMA SameKept ==
    ASSUME NEW t \in Streams, Same(t), Kept(t)
    PROVE  Kept(t)'
<1>1. SameQueues(t)
  BY DEF Same, SameQueues, SameEngine
<1>2. Given(t)' = Given(t)
  BY DEF Same, Given
<1>3. Phased(t)'
  BY DEF Kept, Same, Phased
<1>4. Sane(t)'
  BY DEF Kept, Same, Sane, Ended
<1> QED  BY <1>1, <1>2, <1>3, <1>4, QuietKept DEF Same, Ended

(* The steps of one stream leave the others as they are: those of the client and the reader, *)
LEMMA ReaderAlone ==
    ASSUME Maps, NEW s \in Streams, Reader(s) \/ Client(s) \/ ClientReads(s) \/ Expires(s) \/ DeadTimer(s)
    PROVE  Alone(s)
<1>1. CASE ReaderLoop(s) \/ ReadEnd(s) \/ ReadError(s) \/ Admit(s) \/ WaitDies(s) \/ Put(s)
  BY <1>1 DEF ReaderLoop, ReadEnd, ReadError, Admit, WaitDies, Put, OnlyReader, ReaderGoes, client, told, called, queues,
              Maps, Alone, Same
<1>2. CASE HalfClose(s) \/ Breaks(s) \/ GoesAway(s) \/ ClientReads(s) \/ Expires(s) \/ DeadTimer(s)
  BY <1>2 DEF HalfClose, Breaks, GoesAway, ClientReads, Expires, DeadTimer, client, told, called, queues, Maps, Alone, Same
<1>3. CASE ReadDoc(s) \/ ReadMisplaced(s)
  BY <1>3 DEF ReadDoc, ReadMisplaced, OnlyReader, ReaderGoes, client, told, called, queues, Maps, Alone, Same
<1> QED  BY <1>1, <1>2, <1>3 DEF Reader, Client

(* the start of a batch,                                                     *)
LEMMA RespawnAlone ==
    ASSUME Maps, NEW s \in Streams, NEW b, NEW left, NEW set, Respawn(s, b, left, set) \/ TakeOrStash(s, b, left, set)
    PROVE  /\ stalled' = [t \in Streams |-> stalled'[t]] /\ timer' = [t \in Streams |-> timer'[t]]
           /\ runs' = [t \in Streams |-> runs'[t]]
           /\ \A t \in Streams : t # s => stalled'[t] = stalled[t] /\ timer'[t] = timer[t] /\ runs'[t] = runs[t]
  BY DEF Respawn, TakeOrStash, Start, Maps

(* the end,                                                                  *)
LEMMA EndAlone ==
    ASSUME Maps, NEW s \in Streams, NEW status, End(s, status)
    PROVE  Alone(s)
  BY DEF End, Goto, client, called, Maps, Alone, Same

(* the deadline,                                                             *)
LEMMA AbortAlone ==
    ASSUME Maps, NEW s \in Streams, AbortDeadline(s), runs' = [t \in Streams |-> runs'[t]],
           \A t \in Streams : t # s => runs'[t] = runs[t]
    PROVE  Alone(s)
  BY DEF AbortDeadline, Goto, client, told, called, Maps, Alone, Same

(* the runs,                                                                 *)
LEMMA RunAlone ==
    ASSUME Maps, NEW s \in Streams, RunStarts(s) \/ RunEnds(s)
    PROVE  Alone(s)
<1>1. runs' = [t \in Streams |-> runs'[t]] /\ \A t \in Streams : t # s => runs'[t] = runs[t]
  BY Zenon DEF RunStarts, RunEnds, Finish, Maps
<1> QED  BY <1>1 DEF RunStarts, RunEnds, OnlyRuns, client, told, called, queues, Maps, Alone, Same

(* and the engine.                                                           *)
LEMMA EngineAlone ==
    ASSUME Maps, NEW s \in Streams, Engine(s)
    PROVE  Alone(s)
<1> USE DEF Goto, Local, client, told, called, queues
<1>1. CASE Top(s) \/ BranchDeadline(s)
  BY <1>1, AbortAlone DEF Top, BranchDeadline, Maps, Alone, Same
<1>2. CASE BranchDoc(s) \/ BranchInputEnds(s) \/ BranchLinger(s) \/ BranchRetry(s)
  BY <1>2 DEF BranchDoc, BranchInputEnds, BranchLinger, BranchRetry, Maps, Alone, Same
<1>3. CASE BranchJoin(s)
  <2>1. runs' = [t \in Streams |-> runs'[t]] /\ \A t \in Streams : t # s => runs'[t] = runs[t]
    BY <1>3 DEF BranchJoin, Maps
  <2>2. CASE AbortDeadline(s)
    BY <2>1, <2>2, AbortAlone
  <2>3. CASE ~AbortDeadline(s)
    BY <1>3, <2>1, <2>3 DEF BranchJoin, Maps, Alone, Same
  <2> QED  BY <2>2, <2>3
<1>4. CASE BranchClosed(s) \/ SendFails(s) \/ SendStatus(s)
  BY <1>4, EndAlone DEF BranchClosed, SendFails, SendStatus
<1>5. CASE Deliver(s) \/ Enqueue(s) \/ Send(s) \/ Enqueued(s) \/ Retried(s) \/ JoinAll(s)
  BY <1>5 DEF Deliver, Enqueue, Send, Enqueued, Retried, JoinAll, Maps, Alone, Same
<1>6. CASE DeliverFailed(s) \/ Check(s)
  <2>1. CASE End(s, "clean")
    BY <2>1, EndAlone
  <2>2. CASE ~End(s, "clean")
    BY <1>6, <2>2 DEF DeliverFailed, Check, Maps, Alone, Same
  <2> QED  BY <2>1, <2>2
<1>7. CASE Split(s)
  BY <1>7, RespawnAlone DEF Split, Maps, Alone, Same
<1>8. CASE Retry(s)
  <2>1. Respawn(s, Head(stalled[s]), Tail(stalled[s]), timer[s])
    BY <1>8 DEF Retry
  <2>2. /\ stalled' = [t \in Streams |-> stalled'[t]] /\ timer' = [t \in Streams |-> timer'[t]]
        /\ runs' = [t \in Streams |-> runs'[t]]
        /\ \A t \in Streams : t # s => stalled'[t] = stalled[t] /\ timer'[t] = timer[t] /\ runs'[t] = runs[t]
    BY <2>1, RespawnAlone
  <2> QED  BY <1>8, <2>2 DEF Retry, Maps, Alone, Same
<1>9. CASE DispatchGroup(s)
  BY <1>9, RespawnAlone, Zenon DEF DispatchGroup, Maps, Alone, Same
<1>10. CASE DispatchNothing(s) \/ DispatchGroups(s) \/ DispatchEnds(s)
  BY <1>10, Zenon DEF DispatchNothing, DispatchGroups, DispatchEnds, Maps, Alone, Same
<1> QED  BY <1>1, <1>2, <1>3, <1>4, <1>5, <1>6, <1>7, <1>8, <1>9, <1>10 DEF Engine, Branch

-----------------------------------------------------------------------------
(* Steps of the client, the reader and the engine that move no document *)

(* The steps that move no document. *)
LEMMA ClientKept ==
    ASSUME Maps, NEW s \in Streams, Kept(s),
           HalfClose(s) \/ Breaks(s) \/ GoesAway(s) \/ ClientReads(s) \/ Expires(s) \/ DeadTimer(s)
    PROVE  Kept(s)'
<1>1. /\ SameQueues(s)
      /\ how'[s] = how[s] /\ reader'[s] = reader[s] /\ eng'[s] = eng[s] /\ inputEnded'[s] = inputEnded[s]
      /\ next'[s] = next[s] /\ retries'[s] = retries[s]
  BY DEF HalfClose, Breaks, GoesAway, ClientReads, Expires, DeadTimer, client, told, called, queues, SameQueues, SameEngine
<1>2. /\ conn'[s] # "open" \/ conn'[s] = conn[s]
      /\ expired[s] => expired'[s]
      /\ dead[s] => dead'[s]
      /\ dead'[s] => dead[s] \/ expired'[s]
  BY DEF HalfClose, Breaks, GoesAway, ClientReads, Expires, DeadTimer, client, Maps
<1>3. Given(s)' = Given(s)
  BY <1>1 DEF Given, SameQueues
<1>4. Phased(s)'
  BY <1>1 DEF Kept, Phased, SameQueues, SameEngine
<1>5. Sane(s)'
  BY <1>1, <1>2 DEF Kept, Sane, SameQueues, Ended
<1> QED  BY <1>1, <1>2, <1>3, <1>4, <1>5, QuietKept DEF Ended

(* The reader goes on without a document.                                    *)
LEMMA ReaderStillKept ==
    ASSUME Maps, NEW s \in Streams, Kept(s), OnlyReader, docs' = docs, work'[s] = work[s], NEW p,
           reader'[s] = p, p # "put" \/ reader[s] = "wait", p # "wait",
           p = "done" => conn[s] # "open" \/ dead[s] \/ reader[s] = "done",
           reader[s] \in {"wait", "put"} => p \in {"wait", "put"} \/ dead[s], ~inputEnded[s] \/ p = "done"
    PROVE  Kept(s)'
<1>1. /\ SameQueues(s)
      /\ how'[s] = how[s] /\ eng'[s] = eng[s] /\ inputEnded'[s] = inputEnded[s] /\ conn'[s] = conn[s]
      /\ dead'[s] = dead[s] /\ expired'[s] = expired[s] /\ next'[s] = next[s] /\ retries'[s] = retries[s]
  BY DEF OnlyReader, client, told, queues, SameQueues, SameEngine
<1>2. Len(docs[s]) \in Nat
  BY LenProperties DEF Kept, Typed
<1>3. Given(s)' = Given(s) \/ (dead'[s] /\ Given(s) <= Given(s)')
  <2>1. docs'[s] = docs[s]
    BY <1>1 DEF SameQueues
  <2>2. CASE reader[s] \in {"wait", "put"} <=> p \in {"wait", "put"}
    BY <2>1, <2>2 DEF Given
  <2>3. CASE reader[s] \in {"wait", "put"} /\ p \notin {"wait", "put"}
    <3>1. dead'[s] /\ Given(s) = Len(docs[s]) - 1 /\ Given(s)' = Len(docs[s])
      BY <1>1, <2>1, <2>3 DEF Given
    <3> QED  BY <1>2, <3>1
  <2> QED  BY <2>2, <2>3
<1>4. Phased(s)'
  BY <1>1 DEF Kept, Phased, SameQueues, SameEngine
<1>5. Sane(s)'
  BY <1>1 DEF Kept, Sane, SameQueues, Ended
<1> QED  BY <1>1, <1>3, <1>4, <1>5, QuietKept DEF Ended

(* The input ends after the reader.                                          *)
LEMMA InputStillOpen ==
    ASSUME NEW s, Kept(s), reader[s] # "done"
    PROVE  ~inputEnded[s]
  BY DEF Kept, Sane

(* The steps of the reader that bring nothing.                               *)
LEMMA ReaderQuietKept ==
    ASSUME Maps, NEW s \in Streams, Kept(s),
           ReaderLoop(s) \/ ReadMisplaced(s) \/ ReadEnd(s) \/ Admit(s) \/ WaitDies(s)
    PROVE  Kept(s)'
<1>1. Ended(s) => dead[s]
  BY DEF Kept, Sane
<1>2. reader[s] # "done" /\ OnlyReader /\ docs' = docs /\ work'[s] = work[s]
  BY DEF ReaderLoop, ReadMisplaced, ReadEnd, Admit, WaitDies
<1>3. ~inputEnded[s]
  BY <1>2, InputStillOpen
<1>4. CASE ReaderLoop(s)
  <2>1. reader[s] = "top" /\ ((reader'[s] = "done" /\ dead[s]) \/ reader'[s] = "read")
    BY <1>4 DEF ReaderLoop, ReaderGoes, Maps
  <2> QED  BY <1>2, <1>3, <2>1, ReaderStillKept
<1>5. CASE ReadMisplaced(s)
  <2>1. reader[s] = "read" /\ reader'[s] = "abort"
    BY <1>5 DEF ReadMisplaced, ReaderGoes, Maps
  <2> QED  BY <1>2, <1>3, <2>1, ReaderStillKept
<1>6. CASE ReadEnd(s)
  <2>1. reader[s] = "read" /\ reader'[s] = "done" /\ (conn[s] # "open" \/ dead[s])
    BY <1>1, <1>6 DEF ReadEnd, ReaderGoes, Maps
  <2> QED  BY <1>2, <1>3, <2>1, ReaderStillKept
<1>7. CASE Admit(s)
  <2>1. reader[s] = "wait" /\ reader'[s] = "put"
    BY <1>7 DEF Admit, ReaderGoes, Maps
  <2> QED  BY <1>2, <1>3, <2>1, ReaderStillKept
<1>8. CASE WaitDies(s)
  <2>1. reader[s] = "wait" /\ reader'[s] = "done" /\ dead[s]
    BY <1>8 DEF WaitDies, ReaderGoes, Maps
  <2> QED  BY <1>2, <1>3, <2>1, ReaderStillKept
<1> QED  BY <1>4, <1>5, <1>6, <1>7, <1>8

(* The engine goes to a state where it holds no more than it did. *)
LEMMA GotoKept ==
    ASSUME Maps, NEW s \in Streams, Kept(s), NEW p, Goto(s, p), client' = client, how'[s] = how[s], called' = called,
           SameQueues(s), next'[s] = next[s], dead'[s] = dead[s], expired'[s] = expired[s],
           inputEnded'[s] = inputEnded[s] \/ (inputEnded'[s] /\ reader[s] = "done" /\ work[s] = <<>>),
           p \notin {"deliver", "answer", "retry", "joinall", "deadline", "ended"} \cup Grouping, eng[s] \notin {"ended", "abort"} \cup Grouping,
           eng[s] \in {"deliver", "split"} => p = "split" \/ outcome[s].docs = <<>>,
           eng[s] = "answer" => rows[s] = <<>>
    PROVE  Kept(s)'
<1>1. /\ eng'[s] = p /\ conn'[s] = conn[s] /\ reader'[s] = reader[s] /\ docs'[s] = docs[s]
  BY DEF Goto, Maps, client, called
<1>2. Given(s)' = Given(s)
  BY <1>1 DEF Given
<1>3. Phased(s)'
  BY <1>1 DEF Kept, Phased, SameQueues, SameEngine
<1>4. Sane(s)'
  BY <1>1 DEF Kept, Sane, SameQueues, Ended
<1> QED  BY <1>1, <1>2, <1>3, <1>4, QuietKept DEF Ended

(* The steps of the engine that only go on.                                  *)
LEMMA EngineQuietKept ==
    ASSUME Maps, NEW s \in Streams, Kept(s),
           \/ Top(s) /\ ~expired[s]
           \/ BranchInputEnds(s) \/ BranchLinger(s) \/ Enqueued(s) \/ Retried(s) \/ DispatchNothing(s)
    PROVE  Kept(s)'
<1> USE DEF Grouping
<1>1. /\ client' = client /\ how'[s] = how[s] /\ called' = called /\ SameQueues(s) /\ next'[s] = next[s]
      /\ dead'[s] = dead[s] /\ expired'[s] = expired[s]
  BY DEF Top, BranchInputEnds, BranchLinger, Enqueued, Retried, DispatchNothing, Local, told, called, queues, SameQueues, SameEngine
<1>2. PICK p \in {"select", "dispatch", "forced", "check"} : Goto(s, p)
  BY Zenon DEF Top, BranchInputEnds, BranchLinger, Enqueued, Retried, DispatchNothing, AfterDispatch
<1>3. /\ eng[s] \in {"top", "select", "answer", "retry", "forced", "dispatch"}
      /\ eng[s] = "answer" => rows[s] = <<>>
      /\ inputEnded'[s] = inputEnded[s] \/ (inputEnded'[s] /\ reader[s] = "done" /\ work[s] = <<>>)
  BY DEF Top, BranchInputEnds, BranchLinger, Enqueued, Retried, DispatchNothing, Local, Maps
<1> QED  BY <1>1, <1>2, <1>3, GotoKept, Zenon

-----------------------------------------------------------------------------
(* The reader brings documents *)

(* The reader's steps that bring a document, or the abort. *)
LEMMA SameEngineByReader ==
    ASSUME NEW s, OnlyReader, \A d \in InSome(Lies(s)) : docs'[s][d] = docs[s][d]
    PROVE  /\ SameEngine(s)
           /\ conn'[s] = conn[s] /\ how'[s] = how[s] /\ eng'[s] = eng[s] /\ inputEnded'[s] = inputEnded[s]
           /\ dead'[s] = dead[s] /\ expired'[s] = expired[s] /\ next'[s] = next[s] /\ retries'[s] = retries[s]
  BY DEF OnlyReader, client, told, queues, SameEngine

(* The reader leaves the engine where it is.                                 *)
LEMMA ReaderPhased ==
    ASSUME NEW s, Kept(s), OnlyReader
    PROVE  Phased(s)'
  BY DEF OnlyReader, queues, Kept, Phased

(* What is known of the numbers of a stream's documents.                     *)
LEMMA KeptFacts ==
    ASSUME NEW s, Kept(s)
    PROVE  /\ Given(s) \in Nat /\ Len(docs[s]) \in Nat /\ DOMAIN docs[s] = 1 .. Len(docs[s])
           /\ Given(s) <= Len(docs[s]) /\ InSome(Lies(s)) \subseteq 1 .. Given(s)
           /\ \A d \in Dispatched(s) \cup Rest(s) : d \in 1 .. Given(s)
           /\ \A w \in ToSet(work[s]) \ {ABORT} : w \in 1 .. Given(s)
<1>1. Given(s) \in Nat
  BY GivenIsNat DEF Kept, Typed, Sane
<1>2. Len(docs[s]) \in Nat /\ DOMAIN docs[s] = 1 .. Len(docs[s])
  BY LenProperties DEF Kept, Typed
<1>3. Given(s) <= Len(docs[s])
  <2>1. CASE reader[s] \in {"wait", "put"}
    <3>1. Given(s) = Len(docs[s]) - 1
      BY <2>1 DEF Given
    <3> QED  BY <1>2, <3>1
  <2>2. CASE reader[s] \notin {"wait", "put"}
    <3>1. Given(s) = Len(docs[s]) - 0
      BY <2>2 DEF Given
    <3> QED  BY <1>2, <3>1
  <2> QED  BY <2>1, <2>2
<1>4. InSome(Lies(s)) \subseteq 1 .. Given(s)
  BY DEF Kept, Placed
<1>5. \A p \in Places : Lies(s)[p] \subseteq InSome(Lies(s))
  BY DEF InSome
<1>6. \A d \in Dispatched(s) \cup Rest(s) : d \in 1 .. Given(s)
  <2>1. Dispatched(s) \cup Rest(s) \subseteq InSome(Lies(s))
    BY <1>5, PermitsByPlace DEF Places
  <2> QED  BY <1>4, <2>1
<1>7. \A w \in ToSet(work[s]) \ {ABORT} : w \in 1 .. Given(s)
  <2>1. Lies(s)["work"] = ToSet(work[s]) \ {ABORT} /\ "work" \in Places
    BY DEF Lies, Places
  <2> QED  BY <1>4, <1>5, <2>1
<1> QED  BY <1>1, <1>2, <1>3, <1>4, <1>6, <1>7

(* A document is read: the engine is not given it yet.                       *)
LEMMA ReadDocKept ==
    ASSUME Maps, NEW s \in Streams, Kept(s), ReadDoc(s)
    PROVE  Kept(s)'
<1>1. PICK k \in Kinds[s] : docs'[s] = Append(docs[s], k)
  BY DEF ReadDoc, Maps
<1>2. /\ reader[s] = "read" /\ OnlyReader /\ work'[s] = work[s]
      /\ reader'[s] = (IF dead[s] THEN "done" ELSE "wait")
  BY DEF ReadDoc, ReaderGoes, Maps
<1>3. docs[s] \in Seq(Kinds[s])
  BY DEF Kept, Typed
<1>4. /\ docs'[s] \in Seq(Kinds[s]) /\ Len(docs'[s]) = Len(docs[s]) + 1 /\ Len(docs[s]) \in Nat
      /\ \A d \in DOMAIN docs[s] : docs'[s][d] = docs[s][d]
  <2>1. ASSUME NEW q \in Seq(Kinds[s]), NEW x \in Kinds[s]
        PROVE  /\ Append(q, x) \in Seq(Kinds[s]) /\ Len(Append(q, x)) = Len(q) + 1 /\ Len(q) \in Nat
               /\ \A d \in DOMAIN q : Append(q, x)[d] = q[d]
    BY AppendOf
  <2> QED  BY <1>1, <1>3, <2>1, ZenonT(60)
<1>5. Given(s) = Len(docs[s])
  BY <1>2 DEF Given
<1>6. \A d \in InSome(Lies(s)) : docs'[s][d] = docs[s][d]
  BY <1>4, <1>5, KeptFacts
<1>7. /\ SameEngine(s)
      /\ conn'[s] = conn[s] /\ how'[s] = how[s] /\ eng'[s] = eng[s] /\ inputEnded'[s] = inputEnded[s]
      /\ dead'[s] = dead[s] /\ expired'[s] = expired[s] /\ next'[s] = next[s] /\ retries'[s] = retries[s]
  BY <1>2, <1>6, SameEngineByReader
<1>8. Given(s)' = Given(s) \/ (dead'[s] /\ Given(s) <= Given(s)')
  <2>1. CASE dead[s]
    <3>1. Given(s)' = Len(docs'[s])
      BY <1>2, <2>1 DEF Given
    <3> QED  BY <1>4, <1>5, <1>7, <2>1, <3>1
  <2>2. CASE ~dead[s]
    <3>1. Given(s)' = Len(docs'[s]) - 1
      BY <1>2, <2>2 DEF Given
    <3> QED  BY <1>4, <1>5, <3>1
  <2> QED  BY <2>1, <2>2
<1>9. Typed(s)'
  <2>1. Typed(s)
    BY DEF Kept
  <2> QED  BY <1>2, <1>4, <1>7, <2>1 DEF Typed, SameEngine
<1>10. Sane(s)'
  <2>1. ~inputEnded[s]
    BY <1>2, InputStillOpen
  <2> QED  BY <1>2, <1>4, <1>7, <2>1 DEF Kept, Sane, Ended
<1>11. \A c \in Places : Lies(s)'[c] = Lies(s)[c]
  BY <1>2, <1>7, SameLies
<1>12. Given(s) \in Nat /\ Given(s)' \in Nat
  <2>1. Given(s)' \in Nat
    BY <1>4, <1>9, <1>10, <1>2 DEF Given
  <2> QED  BY <2>1, KeptFacts
<1>13. Placed(s)'
  <2>1. Placed(s)
    BY DEF Kept
  <2>2. CASE Given(s)' = Given(s)
    BY <1>7, <1>11, <2>1, <2>2, PlacedStill
  <2>3. CASE dead'[s] /\ Given(s) <= Given(s)'
    BY <1>11, <1>12, <2>1, <2>3, PlacedByLoss
  <2> QED  BY <1>8, <2>2, <2>3
<1>14. WorkLater(s)'
  BY <1>2, <1>7, SameLies DEF Kept, Fifo, WorkLater
<1>15. Phased(s)'
  BY <1>2, ReaderPhased
<1> QED  BY <1>7, <1>9, <1>10, <1>13, <1>14, <1>15, EngineKept DEF Ended

(* An envelope is put at the end of the work channel. *)
LEMMA EnvelopeKept ==
    ASSUME Maps, NEW s \in Streams, Kept(s), OnlyReader, docs'[s] = docs[s], NEW w \in Nat,
           work'[s] = Append(work[s], w), reader'[s] \in {"top", "done"}, reader[s] # "done",
           \/ w = ABORT /\ reader[s] \notin {"wait", "put"}
           \/ w = Len(docs[s]) /\ reader[s] = "put" /\ reader'[s] = "top"
    PROVE  Kept(s)'
<1>1. /\ SameEngine(s)
      /\ conn'[s] = conn[s] /\ how'[s] = how[s] /\ eng'[s] = eng[s] /\ inputEnded'[s] = inputEnded[s]
      /\ dead'[s] = dead[s] /\ expired'[s] = expired[s] /\ next'[s] = next[s] /\ retries'[s] = retries[s]
  BY SameEngineByReader
<1>2. work[s] \in Seq(Nat)
  BY DEF Kept, Typed
<1>3. /\ work'[s] \in Seq(Nat) /\ Len(work[s]) \in Nat
      /\ DOMAIN work[s] = 1 .. Len(work[s])
      /\ DOMAIN work'[s] = DOMAIN work[s] \cup {Len(work[s]) + 1}
      /\ \A i \in DOMAIN work[s] : work'[s][i] = work[s][i]
      /\ work'[s][Len(work[s]) + 1] = w
  BY <1>2, AppendOf
<1>4. ToSet(work'[s]) = ToSet(work[s]) \cup {w}
  BY <1>2, SetOfAppend
<1>5. Typed(s)'
  <2>1. Typed(s)
    BY DEF Kept
  <2> QED  BY <1>1, <1>3, <2>1 DEF Typed, SameEngine
<1>6. Sane(s)'
  <2>1. ~inputEnded[s]
    BY InputStillOpen
  <2>2. reader'[s] = "done" => ABORT \in ToSet(work'[s])
    BY <1>4
  <2> QED  BY <1>1, <2>1, <2>2 DEF Kept, Sane, Ended
<1>7. Phased(s)'
  BY ReaderPhased
<1>8. w # ABORT => w = Given(s) + 1 /\ Given(s)' = Given(s) + 1
  <2>1. SUFFICES ASSUME w # ABORT PROVE w = Given(s) + 1 /\ Given(s)' = Given(s) + 1
    OBVIOUS
  <2>2. reader[s] = "put" /\ reader'[s] = "top" /\ w = Len(docs[s]) /\ Len(docs[s]) \in Nat
    BY <2>1, KeptFacts
  <2>3. Given(s) = Len(docs[s]) - 1 /\ Given(s)' = Len(docs[s]) - 0
    BY <2>2 DEF Given
  <2> QED  BY <2>2, <2>3
<1>9. w = ABORT => Given(s)' = Given(s)
  <2>1. Sane(s)
    BY DEF Kept
  <2>2. w = ABORT => reader[s] \notin {"wait", "put"}
    BY <2>1, KeptFacts DEF Sane, ABORT
  <2> QED  BY <2>2 DEF Given
<1>10. \A c \in Places : c # "work" => Lies(s)'[c] = Lies(s)[c]
  BY <1>1, SameLies
<1>11. Lies(s)'["work"] = Lies(s)["work"] \cup ({w} \ {ABORT})
  BY <1>4 DEF Lies
<1>12. Placed(s)'
  <2>1. Placed(s)
    BY DEF Kept
  <2>2. CASE w = ABORT
    <3>1. \A c \in Places : Lies(s)'[c] = Lies(s)[c]
      BY <1>10, <1>11, <2>2
    <3> QED  BY <1>1, <1>9, <2>1, <2>2, <3>1, PlacedStill
  <2>3. CASE w # ABORT
    <3>1. Lies(s)'["work"] = Lies(s)["work"] \cup {Given(s) + 1}
      BY <1>8, <1>11, <2>3
    <3> QED  BY <1>1, <1>8, <1>10, <2>1, <2>3, <3>1, KeptFacts, PlacedByEntry
  <2> QED  BY <2>2, <2>3
<1>13. WorkLater(s)'
  <2>1. WorkLater(s)
    BY DEF Kept, Fifo
  <2>2. \A d \in Dispatched(s) \cup Rest(s) : d \in 1 .. Given(s)
    BY KeptFacts
  <2>3. \A x \in ToSet(work[s]) \ {ABORT} : x \in 1 .. Given(s)
    BY KeptFacts
  <2>4. (\A i, j \in DOMAIN work[s] : i < j /\ work[s][i] # ABORT /\ work[s][j] # ABORT => work[s][i] < work[s][j])'
    <3>1. SUFFICES ASSUME NEW i \in DOMAIN work'[s], NEW j \in DOMAIN work'[s], i < j, work'[s][i] # ABORT, work'[s][j] # ABORT
                   PROVE  work'[s][i] < work'[s][j]
      OBVIOUS
    <3>2. i \in DOMAIN work[s]
      BY <1>3, <3>1
    <3>3. CASE j \in DOMAIN work[s]
      BY <1>3, <2>1, <3>1, <3>2, <3>3 DEF WorkLater
    <3>4. CASE j = Len(work[s]) + 1
      <4>1. work[s][i] \in ToSet(work[s]) \ {ABORT}
        BY <1>3, <3>1, <3>2 DEF ToSet
      <4>2. work[s][i] \in 1 .. Given(s)
        BY <2>3, <4>1
      <4>3. work'[s][i] = work[s][i] /\ work'[s][j] = Given(s) + 1
        BY <1>3, <1>8, <3>1, <3>2, <3>4
      <4> QED  BY <4>2, <4>3, KeptFacts
    <3> QED  BY <1>3, <3>3, <3>4
  <2>5. Dispatched(s)' = Dispatched(s) /\ Rest(s)' = Rest(s)
    BY <1>1, SameLies
  <2>6. (\A x \in ToSet(work[s]) \ {ABORT} : \A d \in Dispatched(s) \cup Rest(s) : d < x)'
    <3>1. SUFFICES ASSUME NEW x \in ToSet(work'[s]) \ {ABORT}, NEW d \in Dispatched(s) \cup Rest(s) PROVE d < x
      BY <2>5
    <3>2. CASE x \in ToSet(work[s])
      BY <2>1, <3>2 DEF WorkLater
    <3>3. CASE x = w
      BY <1>8, <2>2, <3>1, <3>3, KeptFacts
    <3> QED  BY <1>4, <3>2, <3>3
  <2> QED  BY <2>4, <2>6 DEF WorkLater
<1> QED  BY <1>1, <1>5, <1>6, <1>7, <1>12, <1>13, EngineKept DEF Ended

(* An abort is offered, and may be lost.                                     *)
LEMMA ReadErrorKept ==
    ASSUME Maps, NEW s \in Streams, Kept(s), ReadError(s)
    PROVE  Kept(s)'
<1>1. /\ reader[s] = "read" /\ reader'[s] = "done" /\ OnlyReader /\ docs' = docs /\ conn[s] # "open"
  BY DEF ReadError, ReaderGoes, Maps
<1>2. CASE work'[s] = work[s]
  BY <1>1, <1>2, ReaderStillKept
<1>3. CASE work'[s] = Append(work[s], ABORT)
  BY <1>1, <1>3, EnvelopeKept DEF ABORT
<1>4. work'[s] = work[s] \/ work'[s] = Append(work[s], ABORT)
  BY DEF ReadError, Maps
<1> QED  BY <1>2, <1>3, <1>4

(* A document, or an abort, is sent.                                         *)
LEMMA PutKept ==
    ASSUME Maps, NEW s \in Streams, Kept(s), Put(s)
    PROVE  Kept(s)'
<1>1. /\ reader[s] \in {"put", "abort"} /\ OnlyReader /\ docs' = docs
      /\ Ended(s) => dead[s]
  BY DEF Put, Kept, Sane
<1>2. CASE Ended(s)
  <2>1. reader'[s] = "done" /\ work'[s] = work[s]
    BY <1>2 DEF Put, ReaderGoes, Maps
  <2> QED  BY <1>1, <1>2, <2>1, ReaderStillKept
<1>3. CASE ~Ended(s)
  <2>1. /\ work'[s] = Append(work[s], IF reader[s] = "put" THEN Len(docs[s]) ELSE ABORT)
        /\ reader'[s] = (IF reader[s] = "put" THEN "top" ELSE "done")
    BY <1>3 DEF Put, ReaderGoes, Maps
  <2>2. Len(docs[s]) \in Nat
    BY KeptFacts
  <2>3. CASE reader[s] = "put"
    BY <1>1, <2>1, <2>2, <2>3, EnvelopeKept
  <2>4. CASE reader[s] = "abort"
    BY <1>1, <2>1, <2>4, EnvelopeKept DEF ABORT
  <2> QED  BY <1>1, <2>3, <2>4
<1> QED  BY <1>2, <1>3

-----------------------------------------------------------------------------
(* The engine ends, or drops what it holds *)

(* What it takes to keep the order of the work and of the window. *)
LEMMA WorkStays ==
    ASSUME NEW s, WorkLater(s), work'[s] = work[s] \/ work'[s] = <<>>,
           Dispatched(s)' \cup Rest(s)' \subseteq Dispatched(s) \cup Rest(s)
    PROVE  WorkLater(s)'
<1>1. CASE work'[s] = work[s]
  BY <1>1 DEF WorkLater
<1>2. CASE work'[s] = <<>>
  BY <1>2, EmptyBatches DEF WorkLater
<1> QED  BY <1>1, <1>2

(* A window that only gives permits back does not wedge.                     *)
LEMMA MovesOn ==
    ASSUME NEW s, Kept(s), Dispatched(s)' \subseteq Dispatched(s), Rest(s)' \subseteq Rest(s), eng'[s] \notin Grouping
    PROVE  Moves(s)'
<1>1. IsFiniteSet(Dispatched(s)) /\ Cardinality(Dispatched(s)) \in Nat
  BY KeptFacts, DispatchedFinite DEF Kept
<1>2. /\ Cardinality(Dispatched(s)') \in Nat /\ Cardinality(Dispatched(s)') <= Cardinality(Dispatched(s))
      /\ Cardinality(Dispatched(s)') = Cardinality(Dispatched(s)) => Dispatched(s)' = Dispatched(s)
  BY <1>1, FS_Subset, FS_CardinalityType
<1>3. Moves(s)
  BY DEF Kept
<1>4. Window \in Nat
  BY StreamAssumption
<1>5. Cardinality(Dispatched(s)') <= Window
  BY <1>1, <1>2, <1>3, <1>4 DEF Moves
<1>6. (Rest(s) = {} \/ Available(s) > 0 \/ Leads(s))'
  <2>1. CASE Dispatched(s)' = Dispatched(s)
    BY <1>3, <2>1 DEF Moves, Available, Leads
  <2>2. CASE Dispatched(s)' # Dispatched(s)
    <3>1. Cardinality(Dispatched(s)') < Cardinality(Dispatched(s)) /\ Cardinality(Dispatched(s)) <= Window
      BY <1>1, <1>2, <1>3, <2>2 DEF Moves
    <3>2. Available(s)' = Window - Cardinality(Dispatched(s)')
      BY DEF Available
    <3> QED  BY <1>1, <1>2, <1>4, <3>1, <3>2
  <2> QED  BY <2>1, <2>2
<1> QED  BY <1>5, <1>6 DEF Moves

(* A stream that has died drops what it holds, or goes on as it was. *)
LEMMA LossKept ==
    ASSUME NEW s, Kept(s), docs'[s] = docs[s], reader'[s] = reader[s], out'[s] = out[s], dead'[s],
           round[s] = NoRound, round'[s] = NoRound,
           work'[s] = work[s] \/ work'[s] = <<>>, pending'[s] = pending[s] \/ pending'[s] = <<>>,
           outcome'[s].docs = <<>>, rows'[s] = <<>>,
           buffer'[s] = buffer[s] \/ buffer'[s] = {}, stalled'[s] = stalled[s] \/ stalled'[s] = <<>>,
           runs'[s] \subseteq runs[s], eng'[s] \notin Grouping, eng'[s] # "deliver",
           Ended(s)' \/ (~Ended(s) /\ next'[s] = next[s]), outcome'[s].ok \in BOOLEAN, outcome'[s] = [docs |-> outcome'[s].docs, ok |-> outcome'[s].ok],
           Phased(s)', Sane(s)'
    PROVE  Kept(s)'
<1>1. /\ Typed(s) /\ Placed(s) /\ Once(s) /\ Keyed(s) /\ Told(s) /\ Fifo(s)
  BY DEF Kept
<1>2. /\ NoRound.groups = <<>> /\ NoRound.leftover = <<>>
  BY DEF NoRound
<1>3. Typed(s)'
  <2>1. <<>> \in Seq(Nat) /\ <<>> \in Seq(Answer) /\ <<>> \in Seq(Seq(Nat))
    OBVIOUS
  <2>2. outcome'[s] \in [docs : Seq(Nat), ok : BOOLEAN]
    BY <2>1
  <2>3. round'[s] \in [groups : Seq(Seq(Nat)), share : Nat, leftover : Seq(Nat)]
    BY <1>1 DEF Typed
  <2> QED  BY <1>1, <2>1, <2>2, <2>3 DEF Typed
<1>4. \A c \in Places : Lies(s)'[c] \subseteq Lies(s)[c]
  <2>1. InRuns(s)' \subseteq InRuns(s)
    BY DEF InRuns
  <2>2. /\ Lies(s)'["work"] \subseteq Lies(s)["work"] /\ Lies(s)'["pending"] \subseteq Lies(s)["pending"]
        /\ Lies(s)'["groups"] \subseteq Lies(s)["groups"] /\ Lies(s)'["leftover"] \subseteq Lies(s)["leftover"]
        /\ Lies(s)'["stalled"] \subseteq Lies(s)["stalled"] /\ Lies(s)'["runs"] \subseteq Lies(s)["runs"]
        /\ Lies(s)'["outcome"] \subseteq Lies(s)["outcome"] /\ Lies(s)'["rows"] \subseteq Lies(s)["rows"]
        /\ Lies(s)'["buffer"] \subseteq Lies(s)["buffer"] /\ Lies(s)'["out"] \subseteq Lies(s)["out"]
    BY <2>1, EmptyBatches DEF Lies
  <2> QED  BY <2>2 DEF Places
<1>5. Placed(s)'
  <2>1. Given(s)' = Given(s) /\ Given(s) \in Nat
    BY KeptFacts DEF Given
  <2> QED  BY <1>1, <1>4, <2>1, PlacedByLoss
<1>6. DOMAIN <<>> = {} /\ IsInjective(<<>>) /\ Batches(<<>>) /\ Singles(<<>>)
  BY DEF IsInjective, Batches, Singles
<1>7. Once(s)'
  BY <1>1, <1>2, <1>6 DEF Once
<1>8. Keyed(s)'
  <2>1. \A q : OneKey(s, q)' <=> OneKey(s, q)
    BY DEF OneKey, KeyOf
  <2>2. \A q : LoadFor(s, q)' = LoadFor(s, q)
    BY DEF LoadFor, KeyOf
  <2> QED  BY <1>1, <1>2, <1>6, <2>1, <2>2 DEF Keyed
<1>9. Told(s)'
  <2>1. \A d : Fate(s, d)' = Fate(s, d)
    BY DEF Fate
  <2>2. \A q : AllOk(s, q)' <=> AllOk(s, q)
    BY <2>1 DEF AllOk
  <2>3. ToSet(rows'[s]) = {} /\ buffer'[s] \subseteq buffer[s]
    BY EmptyBatches
  <2>4. (\A a \in ToSet(rows[s]) \cup buffer[s] \cup ToSet(out[s]) : a.ok = (Fate(s, a.doc) = "ok"))'
    BY <1>1, <2>1, <2>3 DEF Told
  <2>5. (\A r \in runs[s] : r.phase = "done" =>
           (r.ok => AllOk(s, r.docs)) /\ (~r.ok => dead[s] \/ ~AllOk(s, r.docs)))'
    BY <1>1, <2>2 DEF Told
  <2>6. (~Ended(s) => next[s] = Len(out[s]) + 1)'
    BY <1>1 DEF Told
  <2> QED  BY <2>4, <2>5, <2>6 DEF Told
<1>10. Dispatched(s)' \subseteq Dispatched(s) /\ Rest(s)' \subseteq Rest(s)
  <2>1. \A d : Fate(s, d)' = Fate(s, d)
    BY DEF Fate
  <2>2. /\ InBatches(stalled'[s]) \subseteq InBatches(stalled[s]) /\ InRuns(s)' \subseteq InRuns(s)
        /\ ToSet(outcome'[s].docs) = {}
        /\ InAnswers(ToSet(rows'[s]) \cup buffer'[s]) \subseteq InAnswers(ToSet(rows[s]) \cup buffer[s])
    <3>1. \A A, B : A \subseteq B => InAnswers(A) \subseteq InAnswers(B)
      BY DEF InAnswers
    <3>2. ToSet(rows'[s]) \cup buffer'[s] \subseteq ToSet(rows[s]) \cup buffer[s]
      BY EmptyBatches
    <3>3. InBatches(stalled'[s]) \subseteq InBatches(stalled[s]) /\ ToSet(outcome'[s].docs) = {}
      BY EmptyBatches
    <3> QED  BY <3>1, <3>2, <3>3 DEF InRuns
  <2>3. Dispatched(s)' \subseteq Dispatched(s)
    BY <2>1, <2>2 DEF Dispatched
  <2>4. Rest(s)' \subseteq Rest(s)
    BY EmptyBatches DEF Rest
  <2> QED  BY <2>3, <2>4
<1>11. Fifo(s)'
  <2>1. WorkLater(s)'
    BY <1>1, <1>10, WorkStays DEF Fifo
  <2>2. KeysRise(s, pending[s])'
    <3>1. \A q : KeysRise(s, q)' <=> KeysRise(s, q)
      BY DEF KeysRise, KeyOf
    <3>2. KeysRise(s, <<>>)
      BY <1>6 DEF KeysRise
    <3> QED  BY <1>1, <3>1, <3>2 DEF Fifo
  <2>3. KeysRise(s, round[s].leftover)'
    BY <1>2, <1>6 DEF KeysRise
  <2>4. DOMAIN round'[s].groups = {}
    BY <1>2, <1>6
  <2> QED  BY <2>1, <2>2, <2>3, <2>4 DEF Fifo
<1>12. Moves(s)'
  BY <1>10, MovesOn
<1> QED  BY <1>3, <1>5, <1>7, <1>8, <1>9, <1>11, <1>12 DEF Kept

(* The end drops everything.                                                 *)
LEMMA EndKept ==
    ASSUME Maps, NEW s \in Streams, Kept(s), NEW status, End(s, status), status # "open",
           eng[s] \notin {"ended"} \cup Grouping
    PROVE  Kept(s)'
<1>1. /\ eng'[s] = "ended" /\ how'[s] = status /\ dead'[s] /\ work'[s] = <<>> /\ pending'[s] = <<>>
      /\ outcome'[s] = NoOutcome /\ rows'[s] = <<>> /\ buffer'[s] = {} /\ stalled'[s] = <<>>
      /\ runs'[s] \subseteq runs[s] /\ docs'[s] = docs[s] /\ reader'[s] = reader[s] /\ out'[s] = out[s]
      /\ inputEnded'[s] = inputEnded[s] /\ round'[s] = round[s] /\ conn'[s] = conn[s]
  BY DEF End, Goto, Maps, client, called
<1>2. round[s] = NoRound
  BY DEF Kept, Phased
<1>3. outcome'[s].docs = <<>> /\ outcome'[s].ok = FALSE /\ outcome'[s] = [docs |-> outcome'[s].docs, ok |-> outcome'[s].ok]
  BY <1>1 DEF NoOutcome
<1>4. Phased(s)'
  BY <1>1, <1>2, <1>3, Zenon DEF Phased, Grouping
<1>5. Sane(s)'
  BY <1>1 DEF Kept, Sane, Ended
<1> QED  BY <1>1, <1>2, <1>3, <1>4, <1>5, LossKept, Zenon DEF Ended, Grouping

(* The deadline drops what is not at work.                                   *)
LEMMA AbortKept ==
    ASSUME Maps, NEW s \in Streams, Kept(s), AbortDeadline(s), expired[s], eng[s] \in {"top", "select"},
           runs'[s] \subseteq runs[s]
    PROVE  Kept(s)'
<1>1. /\ eng'[s] = "joinall" /\ how'[s] = how[s] /\ dead'[s] /\ work'[s] = work[s] /\ pending'[s] = <<>>
      /\ outcome'[s] = outcome[s] /\ rows'[s] = rows[s] /\ buffer'[s] = {} /\ stalled'[s] = <<>>
      /\ docs'[s] = docs[s] /\ reader'[s] = reader[s] /\ out'[s] = out[s]
      /\ inputEnded'[s] = inputEnded[s] /\ round'[s] = round[s] /\ conn'[s] = conn[s]
      /\ expired'[s] = expired[s] /\ next'[s] = next[s]
  BY DEF AbortDeadline, Goto, Maps, client, called, told
<1>2. round[s] = NoRound /\ outcome[s].docs = <<>> /\ rows[s] = <<>>
  BY Zenon DEF Kept, Phased, Grouping
<1>3. outcome'[s].ok \in BOOLEAN /\ outcome'[s] = [docs |-> outcome'[s].docs, ok |-> outcome'[s].ok]
  BY <1>1 DEF Kept, Typed
<1>4. Phased(s)'
  BY <1>1, <1>2 DEF Phased, Grouping
<1>5. Sane(s)'
  BY <1>1 DEF Kept, Sane, Ended
<1> QED  BY <1>1, <1>2, <1>3, <1>4, <1>5, LossKept, Zenon DEF Ended, Grouping

(* What the batches under way return is dropped.                             *)
LEMMA JoinAllKept ==
    ASSUME Maps, NEW s \in Streams, Kept(s), JoinAll(s)
    PROVE  Kept(s)'
<1>1. /\ eng[s] = "joinall" /\ eng'[s] \in {"deadline", "joinall"} /\ how'[s] = how[s] /\ dead'[s] = dead[s]
      /\ work'[s] = work[s] /\ pending'[s] = pending[s]
      /\ outcome'[s] = outcome[s] /\ rows'[s] = rows[s] /\ buffer'[s] = buffer[s] /\ stalled'[s] = stalled[s]
      /\ docs'[s] = docs[s] /\ reader'[s] = reader[s] /\ out'[s] = out[s]
      /\ inputEnded'[s] = inputEnded[s] /\ round'[s] = round[s] /\ conn'[s] = conn[s]
      /\ expired'[s] = expired[s] /\ next'[s] = next[s] /\ runs'[s] \subseteq runs[s]
  BY DEF JoinAll, Goto, Maps, Local, client, called, told, queues
<1>2. round[s] = NoRound /\ outcome[s].docs = <<>> /\ rows[s] = <<>>
  BY <1>1 DEF Kept, Phased, Grouping
<1>3. outcome'[s].ok \in BOOLEAN /\ outcome'[s] = [docs |-> outcome'[s].docs, ok |-> outcome'[s].ok]
  BY <1>1 DEF Kept, Typed
<1>4. Phased(s)'
  BY <1>1, <1>2, Zenon DEF Phased, Grouping
<1>5. Sane(s)'
  BY <1>1 DEF Kept, Sane, Ended
<1>6. dead[s]
  BY <1>1 DEF Kept, Sane
<1> QED  BY <1>1, <1>2, <1>3, <1>4, <1>5, <1>6, LossKept, Zenon DEF Ended, Grouping

-----------------------------------------------------------------------------
(* Runs *)

(* A run goes on, or returns, with the documents it has. *)
LEMMA RunMoves ==
    ASSUME NEW s, Kept(s), docs'[s] = docs[s], reader'[s] = reader[s], out'[s] = out[s], dead'[s] = dead[s],
           work'[s] = work[s], eng'[s] = eng[s], pending'[s] = pending[s], round'[s] = round[s],
           outcome'[s] = outcome[s], rows'[s] = rows[s], buffer'[s] = buffer[s], next'[s] = next[s],
           stalled'[s] = stalled[s], Phased(s)', Sane(s)',
           NEW r \in runs[s], NEW new, runs'[s] = (runs[s] \ {r}) \cup {new},
           new.docs = r.docs, new.session = r.session, new.ok \in BOOLEAN,
           new.phase = "done" => (new.ok => AllOk(s, r.docs)) /\ (~new.ok => dead[s] \/ ~AllOk(s, r.docs))
    PROVE  Kept(s)'
<1>1. /\ Typed(s) /\ Placed(s) /\ Once(s) /\ Keyed(s) /\ Told(s) /\ Fifo(s)
  BY DEF Kept
<1>2. Typed(s)'
  BY <1>1 DEF Typed
<1>3. InRuns(s)' = InRuns(s)
  <2>1. \A d : d \in InRuns(s) <=> \E q \in runs[s] : d \in ToSet(q.docs)
    BY DEF InRuns
  <2>2. \A d : d \in InRuns(s)' <=> \E q \in runs'[s] : d \in ToSet(q.docs)
    BY DEF InRuns
  <2>3. \A d : (\E q \in runs'[s] : d \in ToSet(q.docs)) <=> \E q \in runs[s] : d \in ToSet(q.docs)
    OBVIOUS
  <2> QED  BY <2>1, <2>2, <2>3
<1>4. \A c \in Places : Lies(s)'[c] = Lies(s)[c]
  BY <1>3 DEF Lies, Places
<1>5. Placed(s)'
  <2>1. Given(s)' = Given(s)
    BY DEF Given
  <2> QED  BY <1>1, <1>4, <2>1, PlacedStill
<1>6. Once(s)'
  <2>1. \A q \in runs'[s] : q.docs # <<>> /\ IsInjective(q.docs)
    BY <1>1 DEF Once
  <2>2. \A p, q \in runs'[s] : p # q => ToSet(p.docs) \cap ToSet(q.docs) = {}
    <3>1. \A p, q \in runs[s] : p # q => ToSet(p.docs) \cap ToSet(q.docs) = {}
      BY <1>1 DEF Once
    <3> QED  BY <3>1
  <2> QED  BY <1>1, <2>1, <2>2 DEF Once
<1>7. Keyed(s)'
  <2>1. \A q : OneKey(s, q)' <=> OneKey(s, q)
    BY DEF OneKey, KeyOf
  <2>2. \A q : LoadFor(s, q)' = LoadFor(s, q)
    BY DEF LoadFor, KeyOf
  <2>3. \A p, q : OtherKeys(s, p, q)' <=> OtherKeys(s, p, q)
    BY DEF OtherKeys, KeyOf
  <2> QED  BY <1>1, <2>1, <2>2, <2>3 DEF Keyed
<1>8. Told(s)'
  <2>1. \A d : Fate(s, d)' = Fate(s, d)
    BY DEF Fate
  <2>2. \A q : AllOk(s, q)' <=> AllOk(s, q)
    BY <2>1 DEF AllOk
  <2>3. (\A a \in ToSet(rows[s]) \cup buffer[s] \cup ToSet(out[s]) : a.ok = (Fate(s, a.doc) = "ok"))'
    BY <1>1, <2>1 DEF Told
  <2>4. (\A q \in runs[s] : q.phase = "done" =>
           (q.ok => AllOk(s, q.docs)) /\ (~q.ok => dead[s] \/ ~AllOk(s, q.docs)))'
    BY <1>1, <2>2 DEF Told
  <2>5. (~Ended(s) => next[s] = Len(out[s]) + 1)' /\ (eng[s] = "deliver" => (outcome[s].ok <=> AllOk(s, outcome[s].docs)))'
    BY <1>1, <2>2 DEF Told, Ended
  <2> QED  BY <2>3, <2>4, <2>5 DEF Told
<1>9. Dispatched(s)' = Dispatched(s) /\ Rest(s)' = Rest(s)
  <2>1. \A d : Fate(s, d)' = Fate(s, d)
    BY DEF Fate
  <2>2. Dispatched(s)' = Dispatched(s)
    BY <1>3, <2>1 DEF Dispatched
  <2> QED  BY <2>2 DEF Rest
<1>10. Fifo(s)'
  <2>1. WorkLater(s)'
    BY <1>1, <1>9, WorkStays DEF Fifo
  <2>2. \A q : KeysRise(s, q)' <=> KeysRise(s, q)
    BY DEF KeysRise, KeyOf
  <2> QED  BY <1>1, <2>1, <2>2 DEF Fifo
<1>11. Moves(s)'
  BY <1>9 DEF Kept, Moves, Leads, Available
<1> QED  BY <1>2, <1>5, <1>6, <1>7, <1>8, <1>10, <1>11 DEF Kept

(* The steps of a blocking thread.                                           *)
LEMMA RunKept ==
    ASSUME Maps, NEW s \in Streams, Kept(s), \A r \in runs[s] : IsRun(r), RunStarts(s) \/ RunEnds(s)
    PROVE  Kept(s)'
<1>1. /\ docs'[s] = docs[s] /\ reader'[s] = reader[s] /\ out'[s] = out[s] /\ dead'[s] = dead[s]
      /\ work'[s] = work[s] /\ eng'[s] = eng[s] /\ pending'[s] = pending[s] /\ round'[s] = round[s]
      /\ outcome'[s] = outcome[s] /\ rows'[s] = rows[s] /\ buffer'[s] = buffer[s] /\ next'[s] = next[s]
      /\ stalled'[s] = stalled[s]
      /\ retries'[s] = retries[s] /\ conn'[s] = conn[s] /\ how'[s] = how[s] /\ expired'[s] = expired[s]
      /\ inputEnded'[s] = inputEnded[s]
  BY DEF RunStarts, RunEnds, OnlyRuns, client, told, called, queues
<1>2. Phased(s)' /\ Sane(s)'
  BY <1>1 DEF Kept, Phased, Sane, Ended
<1>3. ASSUME NEW r \in runs[s], NEW ok \in BOOLEAN, Finish(s, r, ok),
             (ok => AllOk(s, r.docs)) /\ (~ok => dead[s] \/ ~AllOk(s, r.docs))
      PROVE  Kept(s)'
  <2> DEFINE new == [r EXCEPT !.phase = "done", !.ok = ok]
  <2>1. new.docs = r.docs /\ new.session = r.session /\ new.phase = "done" /\ new.ok = ok
    BY DEF IsRun
  <2>2. CASE Ended(s)
    <3>1. runs'[s] \subseteq runs[s]
      BY <1>3, <2>2 DEF Finish, Maps
    <3>2. dead[s] /\ round[s] = NoRound /\ outcome[s].docs = <<>> /\ rows[s] = <<>>
      BY <2>2 DEF Kept, Sane, Phased, Ended, Grouping
    <3>3. outcome'[s].ok \in BOOLEAN /\ outcome'[s] = [docs |-> outcome'[s].docs, ok |-> outcome'[s].ok]
      BY <1>1 DEF Kept, Typed
    <3> QED  BY <1>1, <1>2, <2>2, <3>1, <3>2, <3>3, LossKept, Zenon DEF Ended, Grouping
  <2>3. CASE ~Ended(s)
    <3>1. runs'[s] = (runs[s] \ {r}) \cup {new}
      BY <1>3, <2>3 DEF Finish, Maps
    <3> HIDE DEF new
    <3> QED  BY <1>1, <1>2, <1>3, <2>1, <3>1, RunMoves
  <2> QED  BY <2>2, <2>3
<1>4. CASE RunStarts(s)
  <2>1. PICK r \in runs[s] :
            /\ r.phase = "ready"
            /\ IF Ended(s) \/ dead[s]
               THEN Finish(s, r, FALSE)
               ELSE /\ runs' = [runs EXCEPT ![s] = (@ \ {r}) \cup {[r EXCEPT !.phase = "running"]}]
                    /\ UNCHANGED idle
    BY <1>4 DEF RunStarts
  <2>2. Ended(s) => dead[s]
    BY DEF Kept, Sane
  <2>3. CASE Ended(s) \/ dead[s]
    BY <1>3, <2>1, <2>2, <2>3
  <2>4. CASE ~(Ended(s) \/ dead[s])
    <3> DEFINE new == [r EXCEPT !.phase = "running"]
    <3>1. new.docs = r.docs /\ new.session = r.session /\ new.phase = "running" /\ new.ok = r.ok
      BY DEF IsRun
    <3>2. runs'[s] = (runs[s] \ {r}) \cup {new}
      BY <2>1, <2>4 DEF Maps
    <3>3. r.ok \in BOOLEAN
      BY DEF Kept, Typed
    <3> HIDE DEF new
    <3> QED  BY <1>1, <1>2, <3>1, <3>2, <3>3, RunMoves
  <2> QED  BY <2>3, <2>4
<1>5. CASE RunEnds(s)
  <2>1. PICK r \in runs[s] : r.phase = "running"
            /\ Finish(s, r, ~dead[s] /\ \A d \in ToSet(r.docs) : Fate(s, d) = "ok")
    BY <1>5 DEF RunEnds
  <2> DEFINE ok == ~dead[s] /\ \A d \in ToSet(r.docs) : Fate(s, d) = "ok"
  <2>2. ok \in BOOLEAN /\ (ok => AllOk(s, r.docs)) /\ (~ok => dead[s] \/ ~AllOk(s, r.docs))
    BY DEF AllOk
  <2>3. Finish(s, r, ok)
    BY <2>1
  <2> HIDE DEF ok
  <2> QED  BY <1>3, <2>2, <2>3
<1> QED  BY <1>4, <1>5

(* The timer of the stalled batches.                                         *)
LEMMA BranchRetryKept ==
    ASSUME Maps, NEW s \in Streams, Kept(s), BranchRetry(s)
    PROVE  Kept(s)'
<1>1. /\ SameQueues(s) /\ eng[s] = "select" /\ eng'[s] = "retry" /\ conn'[s] = conn[s] /\ reader'[s] = reader[s]
      /\ how'[s] = how[s] /\ next'[s] = next[s] /\ dead'[s] = dead[s] /\ expired'[s] = expired[s]
      /\ inputEnded'[s] = inputEnded[s] /\ retries'[s] = Len(stalled[s])
  BY DEF BranchRetry, Goto, Maps, client, told, called, SameQueues, SameEngine
<1>2. Len(stalled[s]) \in Nat /\ Len(stalled[s]) <= Len(stalled[s])
  <2>1. Len(stalled[s]) \in Nat
    BY LenProperties DEF Kept, Typed
  <2> QED  BY <2>1
<1>3. Given(s)' = Given(s)
  BY <1>1 DEF Given, SameQueues
<1>4. Phased(s)'
  BY <1>1, <1>2 DEF Kept, Phased, SameQueues, SameEngine, Grouping
<1>5. Sane(s)'
  BY <1>1 DEF Kept, Sane, SameQueues, Ended
<1> QED  BY <1>1, <1>3, <1>4, <1>5, QuietKept, Zenon DEF Ended, Grouping

-----------------------------------------------------------------------------
(* A document is taken from the work channel *)

(* What the documents say does not change with the places they are in. *)
LEMMA SameDocs ==
    ASSUME NEW s, docs'[s] = docs[s]
    PROVE  /\ \A d : Fate(s, d)' = Fate(s, d)
           /\ \A d : KeyOf(s, d)' = KeyOf(s, d)
           /\ \A q : AllOk(s, q)' <=> AllOk(s, q)
           /\ \A q : OneKey(s, q)' <=> OneKey(s, q)
           /\ \A q : LoadFor(s, q)' = LoadFor(s, q)
           /\ \A p, q : OtherKeys(s, p, q)' <=> OtherKeys(s, p, q)
           /\ \A q : KeysRise(s, q)' <=> KeysRise(s, q)
  BY DEF Fate, KeyOf, AllOk, OneKey, LoadFor, OtherKeys, KeysRise

(* The places, one by one, before a step                                     *)
LEMMA LiesAre ==
    ASSUME NEW s
    PROVE  /\ Lies(s)["work"] = ToSet(work[s]) \ {ABORT} /\ Lies(s)["pending"] = ToSet(pending[s])
           /\ Lies(s)["groups"] = InBatches(round[s].groups) /\ Lies(s)["leftover"] = ToSet(round[s].leftover)
           /\ Lies(s)["stalled"] = InBatches(stalled[s]) /\ Lies(s)["runs"] = InRuns(s)
           /\ Lies(s)["outcome"] = ToSet(outcome[s].docs) /\ Lies(s)["rows"] = InAnswers(ToSet(rows[s]))
           /\ Lies(s)["buffer"] = InAnswers(buffer[s]) /\ Lies(s)["out"] = InAnswers(ToSet(out[s]))
  BY DEF Lies

(* and after it.                                                             *)
LEMMA LiesBecome ==
    ASSUME NEW s
    PROVE  /\ Lies(s)'["work"] = ToSet(work'[s]) \ {ABORT} /\ Lies(s)'["pending"] = ToSet(pending'[s])
           /\ Lies(s)'["groups"] = InBatches(round'[s].groups) /\ Lies(s)'["leftover"] = ToSet(round'[s].leftover)
           /\ Lies(s)'["stalled"] = InBatches(stalled'[s]) /\ Lies(s)'["runs"] = InRuns(s)'
           /\ Lies(s)'["outcome"] = ToSet(outcome'[s].docs) /\ Lies(s)'["rows"] = InAnswers(ToSet(rows'[s]))
           /\ Lies(s)'["buffer"] = InAnswers(buffer'[s]) /\ Lies(s)'["out"] = InAnswers(ToSet(out'[s]))
  BY DEF Lies

(* The window after a step, by place.                                        *)
LEMMA PermitsBecome ==
    ASSUME NEW s, docs'[s] = docs[s]
    PROVE  /\ Dispatched(s)' = Lies(s)'["stalled"] \cup Lies(s)'["runs"] \cup Lies(s)'["outcome"]
                                  \cup {d \in Lies(s)'["rows"] \cup Lies(s)'["buffer"] : Fate(s, d) # "bad"}
           /\ Rest(s)' = Lies(s)'["pending"] \cup Lies(s)'["groups"] \cup Lies(s)'["leftover"]
<1>1. InAnswers(ToSet(rows'[s]) \cup buffer'[s]) = InAnswers(ToSet(rows'[s])) \cup InAnswers(buffer'[s])
  BY DEF InAnswers
<1>2. \A d : Fate(s, d)' = Fate(s, d)
  BY SameDocs
<1>3. Rest(s)' = Lies(s)'["pending"] \cup Lies(s)'["groups"] \cup Lies(s)'["leftover"]
  BY DEF Rest, Lies
<1>4. Dispatched(s)' = Lies(s)'["stalled"] \cup Lies(s)'["runs"] \cup Lies(s)'["outcome"]
                                  \cup {d \in Lies(s)'["rows"] \cup Lies(s)'["buffer"] : Fate(s, d) # "bad"}
  <2>1. {d \in InAnswers(ToSet(rows'[s]) \cup buffer'[s]) : Fate(s, d)' # "bad"}
            = {d \in Lies(s)'["rows"] \cup Lies(s)'["buffer"] : Fate(s, d) # "bad"}
    <3>1. InAnswers(ToSet(rows'[s]) \cup buffer'[s]) = Lies(s)'["rows"] \cup Lies(s)'["buffer"]
      BY <1>1 DEF Lies
    <3> QED  BY <1>2, <3>1
  <2>2. Dispatched(s)' = Lies(s)'["stalled"] \cup Lies(s)'["runs"] \cup Lies(s)'["outcome"]
                             \cup {d \in InAnswers(ToSet(rows'[s]) \cup buffer'[s]) : Fate(s, d)' # "bad"}
    BY DEF Dispatched, Lies
  <2> QED  BY <2>1, <2>2
<1> QED  BY <1>3, <1>4

(* The engine takes the first of the work. *)
LEMMA WorkTail ==
    ASSUME NEW s, WorkLater(s), work[s] \in Seq(Nat), work[s] # <<>>, work'[s] = Tail(work[s]),
           Dispatched(s)' \cup Rest(s)' \subseteq Dispatched(s) \cup Rest(s) \cup ({Head(work[s])} \ {ABORT})
    PROVE  /\ WorkLater(s)'
           /\ work'[s] \in Seq(Nat)
           /\ ToSet(work[s]) = {Head(work[s])} \cup ToSet(work'[s])
           /\ Head(work[s]) # ABORT => Head(work[s]) \notin ToSet(work'[s])
<1> DEFINE t == Tail(work[s])
           h == Head(work[s])
<1>1. /\ h = work[s][1] /\ 1 \in DOMAIN work[s] /\ t \in Seq(Nat)
      /\ \A i \in DOMAIN t : i \in Nat /\ i > 0 /\ i + 1 \in DOMAIN work[s] /\ t[i] = work[s][i + 1]
  BY TailOf
<1>2. ToSet(work[s]) = {h} \cup ToSet(t)
  BY SetOfTail
<1>3. work'[s] = t
  OBVIOUS
<1> HIDE DEF t, h
<1>4. \A i, j \in DOMAIN t : i < j => i + 1 < j + 1
  <2>1. \A i \in DOMAIN t : i \in Nat
    BY <1>1
  <2> QED  BY <2>1
<1>5. \A i \in DOMAIN t : 1 < i + 1
  BY <1>1
<1>6. \A x \in ToSet(t) \ {ABORT} : h # ABORT => h < x
  BY <1>1, <1>5 DEF ToSet, WorkLater
<1>7. ToSet(t) \subseteq Nat
  BY <1>1 DEF ToSet
<1>8. h \in Nat
  BY <1>1, ElementOfSeq, LenProperties
<1>9. h # ABORT => h \notin ToSet(t)
  BY <1>6, <1>8
<1>10. \A i, j \in DOMAIN t : i < j /\ t[i] # ABORT /\ t[j] # ABORT => t[i] < t[j]
  BY <1>1, <1>4 DEF WorkLater
<1>11. (\A x \in ToSet(work[s]) \ {ABORT} : \A d \in Dispatched(s) \cup Rest(s) : d < x)'
  <2>1. SUFFICES ASSUME NEW x \in ToSet(t) \ {ABORT}, NEW d \in Dispatched(s)' \cup Rest(s)' PROVE d < x
    BY <1>3
  <2>2. CASE d \in Dispatched(s) \cup Rest(s)
    BY <1>2, <2>2 DEF WorkLater
  <2>3. CASE d = h /\ h # ABORT
    BY <1>6, <2>3
  <2> QED  BY <2>2, <2>3 DEF h
<1>12. WorkLater(s)'
  BY <1>3, <1>10, <1>11 DEF WorkLater
<1> QED  BY <1>1, <1>2, <1>3, <1>9, <1>12 DEF h

(* The first of the work channel.                                            *)
LEMMA HeadIsDoc ==
    ASSUME NEW s, Kept(s), work[s] # <<>>
    PROVE  Head(work[s]) \in Nat /\ (Head(work[s]) # ABORT => Head(work[s]) \in Lies(s)["work"])
<1>1. work[s] \in Seq(Nat)
  BY DEF Kept, Typed
<1>2. Head(work[s]) \in Nat /\ Head(work[s]) \in ToSet(work[s])
  BY <1>1, TailOf, SetOfTail
<1> QED  BY <1>2, LiesAre

(* It is an abort,                                                           *)
LEMMA TakeAbortKept ==
    ASSUME NEW s, Kept(s), work[s] # <<>>, Head(work[s]) = ABORT, work'[s] = Tail(work[s]), docs'[s] = docs[s],
           SameEngine(s), reader'[s] = reader[s], dead'[s] = dead[s], next'[s] = next[s], eng'[s] = "abort",
           eng[s] # "ended", Phased(s)', Sane(s)'
    PROVE  Kept(s)'
<1>1. Typed(s) /\ Placed(s) /\ Fifo(s)
  BY DEF Kept
<1>2. Dispatched(s)' = Dispatched(s) /\ Rest(s)' = Rest(s) /\ \A c \in Places : c # "work" => Lies(s)'[c] = Lies(s)[c]
  BY SameLies
<1>3. work[s] \in Seq(Nat) /\ WorkLater(s)
  BY <1>1 DEF Typed, Fifo
<1>4. WorkLater(s)' /\ work'[s] \in Seq(Nat) /\ ToSet(work[s]) = {ABORT} \cup ToSet(work'[s])
  BY <1>2, <1>3, WorkTail
<1>5. Typed(s)'
  BY <1>1, <1>4 DEF Typed, SameEngine
<1>6. Placed(s)'
  <2>1. Lies(s)'["work"] = Lies(s)["work"]
    <3>1. ToSet(work'[s]) \ {ABORT} = ToSet(work[s]) \ {ABORT}
      BY <1>4
    <3>2. Lies(s)["work"] = ToSet(work[s]) \ {ABORT}
      BY LiesAre
    <3>3. Lies(s)'["work"] = ToSet(work'[s]) \ {ABORT}
      BY LiesBecome
    <3> QED  BY <3>1, <3>2, <3>3
  <2>2. Given(s)' = Given(s)
    BY DEF Given
  <2>3. \A c \in Places : Lies(s)'[c] = Lies(s)[c]
    BY <1>2, <2>1
  <2> QED  BY <1>1, <2>2, <2>3, PlacedStill
<1> QED  BY <1>4, <1>5, <1>6, EngineKept, Zenon DEF Ended, Grouping

(* a document that waits to be dispatched,                                   *)
LEMMA TakeGoodKept ==
    ASSUME NEW s, Kept(s), NEW d, work[s] # <<>>, d = Head(work[s]), d # ABORT, work'[s] = Tail(work[s]),
           docs'[s] = docs[s], out'[s] = out[s], round'[s] = round[s], outcome'[s] = outcome[s], rows'[s] = rows[s],
           buffer'[s] = buffer[s], next'[s] = next[s], stalled'[s] = stalled[s], runs'[s] = runs[s],
           reader'[s] = reader[s], dead'[s] = dead[s], eng'[s] = "dispatch", eng[s] = "select",
           pending'[s] = Append(pending[s], d), Phased(s)', Sane(s)'
    PROVE  Kept(s)'
<1> USE DEF Grouping
<1>1. /\ Typed(s) /\ Placed(s) /\ Once(s) /\ Keyed(s) /\ Told(s) /\ Fifo(s) /\ Moves(s)
  BY DEF Kept
<1>2. d \in Nat /\ d \in Lies(s)["work"] /\ work[s] \in Seq(Nat) /\ pending[s] \in Seq(Nat) /\ WorkLater(s)
  BY <1>1, HeadIsDoc DEF Typed, Fifo
<1>3. InRuns(s)' = InRuns(s)
  BY DEF InRuns
<1>4. ToSet(pending'[s]) = ToSet(pending[s]) \cup {d}
  BY <1>2, SetOfAppend
<1>5. /\ \A c \in Places : c \notin {"work", "pending"} => Lies(s)'[c] = Lies(s)[c]
      /\ Lies(s)'["pending"] = Lies(s)["pending"] \cup {d}
  <2>1. /\ Lies(s)'["groups"] = Lies(s)["groups"] /\ Lies(s)'["leftover"] = Lies(s)["leftover"]
        /\ Lies(s)'["stalled"] = Lies(s)["stalled"] /\ Lies(s)'["runs"] = Lies(s)["runs"]
        /\ Lies(s)'["outcome"] = Lies(s)["outcome"] /\ Lies(s)'["rows"] = Lies(s)["rows"]
        /\ Lies(s)'["buffer"] = Lies(s)["buffer"] /\ Lies(s)'["out"] = Lies(s)["out"]
    BY <1>3, LiesAre, LiesBecome
  <2>2. Lies(s)'["pending"] = Lies(s)["pending"] \cup {d}
    BY <1>4, LiesAre, LiesBecome
  <2> QED  BY <2>1, <2>2 DEF Places
<1>6. /\ Dispatched(s)' = Dispatched(s)
      /\ Rest(s)' = Rest(s) \cup {d}
  <2>1. Lies(s)'["rows"] = Lies(s)["rows"] /\ Lies(s)'["buffer"] = Lies(s)["buffer"] /\ Lies(s)'["stalled"] = Lies(s)["stalled"]
        /\ Lies(s)'["runs"] = Lies(s)["runs"] /\ Lies(s)'["outcome"] = Lies(s)["outcome"]
        /\ Lies(s)'["groups"] = Lies(s)["groups"] /\ Lies(s)'["leftover"] = Lies(s)["leftover"]
    BY <1>5 DEF Places
  <2>2. Dispatched(s)' = Dispatched(s)
    BY <2>1, PermitsBecome, PermitsByPlace
  <2>3. Rest(s)' = Lies(s)'["pending"] \cup Lies(s)'["groups"] \cup Lies(s)'["leftover"]
    BY PermitsBecome
  <2>4. Rest(s) = Lies(s)["pending"] \cup Lies(s)["groups"] \cup Lies(s)["leftover"]
    BY PermitsByPlace
  <2> QED  BY <1>5, <2>1, <2>2, <2>3, <2>4
<1>7. /\ WorkLater(s)' /\ work'[s] \in Seq(Nat)
      /\ ToSet(work[s]) = {d} \cup ToSet(work'[s]) /\ d \notin ToSet(work'[s])
  BY <1>2, <1>6, WorkTail
<1>8. Lies(s)'["work"] = Lies(s)["work"] \ {d}
  BY <1>7, LiesAre, LiesBecome
<1>9. Placed(s)'
  <2>1. "work" \in Places /\ "pending" \in Places
    BY DEF Places
  <2>2. Moved(Lies(s), Lies(s)', "work", "pending", {d})
    BY <1>2, <1>5, <1>8 DEF Moved
  <2>3. Given(s)' = Given(s)
    BY DEF Given
  <2> QED  BY <1>1, <2>1, <2>2, <2>3, PlacedByMove
<1>10. d \notin ToSet(pending[s])
  BY <1>1, <1>2, LiesAre DEF Placed, Disjoint, Places
<1>11. Once(s)'
  <2>1. IsInjective(pending'[s])
    BY <1>1, <1>2, <1>10, SetOfAppend DEF Once
  <2> QED  BY <1>1, <2>1 DEF Once
<1>12. Typed(s)'
  <2>1. pending'[s] \in Seq(Nat)
    BY <1>2, AppendOf
  <2> QED  BY <1>1, <1>7, <2>1 DEF Typed
<1>13. Keyed(s)'
  BY <1>1, SameDocs DEF Keyed
<1>14. Told(s)'
  BY <1>1, SameDocs DEF Told, Ended
<1>15. \A e \in Dispatched(s) \cup Rest(s) : e < d
  BY <1>2, <1>7 DEF WorkLater
<1>16. Fifo(s)'
  <2> DEFINE p == Append(pending[s], d)
             n == Len(pending[s]) + 1
  <2>1. /\ DOMAIN p = DOMAIN pending[s] \cup {n} /\ n \notin DOMAIN pending[s] /\ p[n] = d
        /\ \A i \in DOMAIN pending[s] : p[i] = pending[s][i]
        /\ DOMAIN pending[s] = 1 .. Len(pending[s]) /\ Len(pending[s]) \in Nat
    <3>1. ASSUME NEW q \in Seq(Nat), NEW x \in Nat
          PROVE  /\ DOMAIN Append(q, x) = DOMAIN q \cup {Len(q) + 1} /\ Len(q) + 1 \notin DOMAIN q
                 /\ Append(q, x)[Len(q) + 1] = x /\ \A i \in DOMAIN q : Append(q, x)[i] = q[i]
                 /\ DOMAIN q = 1 .. Len(q) /\ Len(q) \in Nat
      BY AppendOf
    <3>2. pending[s] \in Seq(Nat) /\ d \in Nat
      BY <1>2
    <3> QED  BY ONLY <3>1, <3>2
  <2> HIDE DEF p
  <2>2. KeysRise(s, p)
    <3>1. SUFFICES ASSUME NEW i \in DOMAIN p, NEW j \in DOMAIN p, i < j, KeyOf(s, p[i]) = KeyOf(s, p[j]) PROVE p[i] < p[j]
      BY DEF KeysRise
    <3>2. i \in DOMAIN pending[s] /\ p[i] = pending[s][i]
      BY <2>1, <3>1
    <3>3. CASE j \in DOMAIN pending[s]
      BY <1>1, <2>1, <3>1, <3>2, <3>3 DEF Fifo, KeysRise
    <3>4. CASE j = n
      <4>1. pending[s][i] \in Rest(s)
        BY <3>2 DEF Rest, ToSet
      <4> QED  BY <1>15, <2>1, <3>2, <3>4, <4>1
    <3> QED  BY <2>1, <3>3, <3>4
  <2>3. KeysRise(s, pending[s])'
    BY <2>2, SameDocs DEF p
  <2> QED  BY <1>1, <1>7, <2>3, SameDocs DEF Fifo
<1>17. Moves(s)'
  <2>1. Available(s)' = Available(s) /\ Cardinality(Dispatched(s))' <= Window
    BY <1>1, <1>6 DEF Available, Moves
  <2>2. CASE Available(s) > 0
    BY <2>1, <2>2 DEF Moves
  <2>3. CASE Leads(s)
    <3>1. Leads(s)'
      BY <1>6, <1>15, <2>3 DEF Leads
    <3> QED  BY <2>1, <3>1 DEF Moves
  <2>4. CASE Rest(s) = {} /\ ~(Available(s) > 0)
    <3>1. Dispatched(s) # {}
      <4>1. Window \in Nat /\ Window > 0
        BY StreamAssumption
      <4>2. Cardinality(Dispatched(s)) \in Nat
        BY KeptFacts, DispatchedFinite, <1>1
      <4>3. Cardinality(Dispatched(s)) # 0
        BY <2>4, <4>1, <4>2 DEF Available
      <4> QED  BY <4>3, FS_EmptySet
    <3>2. Leads(s)'
      BY <1>6, <1>15, <2>4, <3>1 DEF Leads
    <3> QED  BY <2>1, <3>2 DEF Moves
  <2> QED  BY <1>1, <2>2, <2>3, <2>4 DEF Moves
<1> QED  BY <1>7, <1>9, <1>11, <1>12, <1>13, <1>14, <1>16, <1>17 DEF Kept

(* or one refused, answered at once.                                         *)
LEMMA TakeBadKept ==
    ASSUME NEW s, Kept(s), NEW d, work[s] # <<>>, d = Head(work[s]), d # ABORT, Fate(s, d) = "bad", work'[s] = Tail(work[s]),
           docs'[s] = docs[s], out'[s] = out[s], round'[s] = round[s], outcome'[s] = outcome[s], pending'[s] = pending[s],
           buffer'[s] = buffer[s], next'[s] = next[s], stalled'[s] = stalled[s], runs'[s] = runs[s],
           reader'[s] = reader[s], dead'[s] = dead[s], eng'[s] = "answer", eng[s] = "select",
           rows'[s] = <<[doc |-> d, ok |-> FALSE]>>, Phased(s)', Sane(s)'
    PROVE  Kept(s)'
<1> USE DEF Grouping
<1> DEFINE a == [doc |-> d, ok |-> FALSE]
<1>1. /\ Typed(s) /\ Placed(s) /\ Once(s) /\ Keyed(s) /\ Told(s) /\ Fifo(s) /\ Moves(s)
  BY DEF Kept
<1>2. d \in Nat /\ d \in Lies(s)["work"] /\ work[s] \in Seq(Nat) /\ rows[s] = <<>> /\ WorkLater(s)
  BY <1>1, HeadIsDoc, Zenon DEF Typed, Fifo, Kept, Phased
<1>3. InRuns(s)' = InRuns(s)
  BY DEF InRuns
<1>4. a \in Answer /\ a.doc = d /\ a.ok = FALSE
  BY <1>2 DEF Answer
<1> HIDE DEF a
<1>5. /\ DOMAIN rows'[s] = {1} /\ rows'[s][1] = a /\ rows'[s] \in Seq(Answer)
  BY <1>4 DEF a
<1>6. ToSet(rows'[s]) = {a}
  BY <1>5 DEF ToSet
<1>7. InAnswers(ToSet(rows'[s])) = {d} /\ InAnswers(ToSet(rows[s])) = {}
  BY <1>2, <1>4, <1>6, EmptyBatches DEF InAnswers
<1>8. /\ \A c \in Places : c \notin {"work", "rows"} => Lies(s)'[c] = Lies(s)[c]
      /\ Lies(s)'["rows"] = {d} /\ Lies(s)["rows"] = {}
  <2>1. /\ Lies(s)'["pending"] = Lies(s)["pending"] /\ Lies(s)'["groups"] = Lies(s)["groups"]
        /\ Lies(s)'["leftover"] = Lies(s)["leftover"] /\ Lies(s)'["stalled"] = Lies(s)["stalled"]
        /\ Lies(s)'["runs"] = Lies(s)["runs"] /\ Lies(s)'["outcome"] = Lies(s)["outcome"]
        /\ Lies(s)'["buffer"] = Lies(s)["buffer"] /\ Lies(s)'["out"] = Lies(s)["out"]
    BY <1>3, LiesAre, LiesBecome
  <2>2. Lies(s)'["rows"] = {d} /\ Lies(s)["rows"] = {}
    BY <1>7, LiesAre, LiesBecome
  <2> QED  BY <2>1, <2>2 DEF Places
<1>9. Dispatched(s)' = Dispatched(s) /\ Rest(s)' = Rest(s)
  <2>1. Lies(s)'["buffer"] = Lies(s)["buffer"] /\ Lies(s)'["stalled"] = Lies(s)["stalled"]
        /\ Lies(s)'["runs"] = Lies(s)["runs"] /\ Lies(s)'["outcome"] = Lies(s)["outcome"]
        /\ Lies(s)'["groups"] = Lies(s)["groups"] /\ Lies(s)'["leftover"] = Lies(s)["leftover"]
        /\ Lies(s)'["pending"] = Lies(s)["pending"]
    BY <1>8 DEF Places
  <2>2. {e \in Lies(s)'["rows"] \cup Lies(s)'["buffer"] : Fate(s, e) # "bad"}
            = {e \in Lies(s)["rows"] \cup Lies(s)["buffer"] : Fate(s, e) # "bad"}
    BY <1>8, <2>1
  <2>3. Dispatched(s)' = Dispatched(s)
    BY <2>1, <2>2, PermitsBecome, PermitsByPlace
  <2> QED  BY <2>1, <2>3, PermitsBecome, PermitsByPlace
<1>10. /\ WorkLater(s)' /\ work'[s] \in Seq(Nat)
       /\ ToSet(work[s]) = {d} \cup ToSet(work'[s]) /\ d \notin ToSet(work'[s])
  BY <1>2, <1>9, WorkTail
<1>11. Lies(s)'["work"] = Lies(s)["work"] \ {d}
  BY <1>10, LiesAre, LiesBecome
<1>12. Placed(s)'
  <2>1. "work" \in Places /\ "rows" \in Places
    BY DEF Places
  <2>2. Moved(Lies(s), Lies(s)', "work", "rows", {d})
    BY <1>2, <1>8, <1>11 DEF Moved
  <2>3. Given(s)' = Given(s)
    BY DEF Given
  <2> QED  BY <1>1, <2>1, <2>2, <2>3, PlacedByMove
<1>13. Once(s)'
  <2>1. Singles(rows'[s])
    BY <1>5 DEF Singles
  <2> QED  BY <1>1, <2>1 DEF Once
<1>14. Typed(s)'
  BY <1>1, <1>5, <1>10 DEF Typed
<1>15. Keyed(s)'
  BY <1>1, SameDocs DEF Keyed
<1>16. Told(s)'
  <2>1. a.ok = (Fate(s, a.doc) = "ok")
    BY <1>4
  <2>2. (\A x \in ToSet(rows[s]) \cup buffer[s] \cup ToSet(out[s]) : x.ok = (Fate(s, x.doc) = "ok"))'
    BY <1>1, <1>6, <2>1, SameDocs DEF Told
  <2> QED  BY <1>1, <2>2, SameDocs DEF Told, Ended
<1>17. Fifo(s)'
  BY <1>1, <1>10, SameDocs DEF Fifo
<1>18. Moves(s)'
  BY <1>9, MovesOn, Zenon
<1> QED  BY <1>12, <1>13, <1>14, <1>15, <1>16, <1>17, <1>18 DEF Kept

(* The branch of the select that takes it.                                   *)
LEMMA BranchDocKept ==
    ASSUME Maps, NEW s \in Streams, Kept(s), BranchDoc(s)
    PROVE  Kept(s)'
<1>1. /\ eng[s] = "select" /\ ~inputEnded[s] /\ work[s] # <<>> /\ work'[s] = Tail(work[s]) /\ docs'[s] = docs[s]
      /\ out'[s] = out[s] /\ round'[s] = round[s] /\ outcome'[s] = outcome[s] /\ buffer'[s] = buffer[s]
      /\ next'[s] = next[s] /\ stalled'[s] = stalled[s] /\ runs'[s] = runs[s] /\ reader'[s] = reader[s]
      /\ dead'[s] = dead[s] /\ conn'[s] = conn[s] /\ how'[s] = how[s] /\ expired'[s] = expired[s]
      /\ inputEnded'[s] = inputEnded[s] /\ retries'[s] = retries[s]
  BY DEF BranchDoc, Maps, client, called
<1>2. ToSet(work[s]) = {Head(work[s])} \cup ToSet(work'[s])
  <2>1. work[s] \in Seq(Nat)
    BY DEF Kept, Typed
  <2> QED  BY <1>1, <2>1, SetOfTail
<1>3. Sane(s) /\ Phased(s)
  BY DEF Kept
<1>4. CASE Head(work[s]) = ABORT
  <2>1. eng'[s] = "abort" /\ rows'[s] = rows[s] /\ pending'[s] = pending[s]
    BY <1>4 DEF BranchDoc, Goto, Maps
  <2>2. Sane(s)'
    BY <1>1, <1>3, <2>1 DEF Sane, Ended
  <2>3. Phased(s)'
    BY <1>1, <1>3, <2>1 DEF Phased, Grouping
  <2>4. SameEngine(s)
    BY <1>1, <2>1 DEF SameEngine
  <2> QED  BY <1>1, <1>4, <2>1, <2>2, <2>3, <2>4, TakeAbortKept
<1>5. CASE Head(work[s]) # ABORT /\ Fate(s, Head(work[s])) # "bad"
  <2>1. eng'[s] = "dispatch" /\ rows'[s] = rows[s] /\ pending'[s] = Append(pending[s], Head(work[s]))
    BY <1>5 DEF BranchDoc, Goto, Maps
  <2>2. Sane(s)'
    BY <1>1, <1>2, <1>3, <1>5, <2>1 DEF Sane, Ended
  <2>3. Phased(s)'
    BY <1>1, <1>3, <2>1 DEF Phased, Grouping
  <2> QED  BY <1>1, <1>5, <2>1, <2>2, <2>3, TakeGoodKept
<1>6. CASE Head(work[s]) # ABORT /\ Fate(s, Head(work[s])) = "bad"
  <2>1. eng'[s] = "answer" /\ rows'[s] = <<[doc |-> Head(work[s]), ok |-> FALSE]>> /\ pending'[s] = pending[s]
    BY <1>6 DEF BranchDoc, Goto, Maps
  <2>2. Sane(s)'
    BY <1>1, <1>2, <1>3, <1>6, <2>1 DEF Sane, Ended
  <2>3. Phased(s)'
    BY <1>1, <1>3, <2>1 DEF Phased, Grouping
  <2> QED  BY <1>1, <1>6, <2>1, <2>2, <2>3, TakeBadKept
<1> QED  BY <1>4, <1>5, <1>6

-----------------------------------------------------------------------------
(* An outcome is joined and delivered *)

(* Documents go from one place of the window to a later one, or out of it. *)
LEMMA HeldMove ==
    ASSUME NEW s, Kept(s), docs'[s] = docs[s], reader'[s] = reader[s], dead'[s] = dead[s], work'[s] = work[s],
           eng'[s] \notin Grouping, NEW a \in {"stalled", "runs", "outcome", "rows", "buffer"},
           NEW b \in {"stalled", "runs", "outcome", "rows", "buffer", "out"},
           a \in {"rows", "buffer"} => b \in {"rows", "buffer", "out"}, NEW M, Moved(Lies(s), Lies(s)', a, b, M)
    PROVE  Placed(s)' /\ WorkLater(s)' /\ Moves(s)'
<1>1. a \in Places /\ b \in Places
  BY DEF Places
<1>2. Given(s)' = Given(s)
  BY DEF Given
<1>3. Placed(s)'
  BY <1>1, <1>2, PlacedByMove DEF Kept
<1> DEFINE P == Lies(s)
           Q == Lies(s)'
<1>4. /\ a # b /\ M \subseteq P[a] /\ Q[a] = P[a] \ M /\ Q[b] = P[b] \cup M
      /\ \A c \in Places : c # a /\ c # b => Q[c] = P[c]
  BY DEF Moved
<1>5. /\ Dispatched(s) = P["stalled"] \cup P["runs"] \cup P["outcome"]
                             \cup {d \in P["rows"] \cup P["buffer"] : Fate(s, d) # "bad"}
      /\ Rest(s) = P["pending"] \cup P["groups"] \cup P["leftover"]
  BY PermitsByPlace
<1>6. /\ Dispatched(s)' = Q["stalled"] \cup Q["runs"] \cup Q["outcome"]
                             \cup {d \in Q["rows"] \cup Q["buffer"] : Fate(s, d) # "bad"}
      /\ Rest(s)' = Q["pending"] \cup Q["groups"] \cup Q["leftover"]
  BY PermitsBecome
<1> HIDE DEF P, Q
<1>7. Rest(s)' = Rest(s)
  BY <1>4, <1>5, <1>6 DEF Places
<1>8. Dispatched(s)' \subseteq Dispatched(s)
  <2>1. CASE a \in {"stalled", "runs", "outcome"}
    <3>1. \A c \in {"stalled", "runs", "outcome"} : P[c] \subseteq Dispatched(s)
      BY <1>5
    <3>2. M \subseteq Dispatched(s)
      BY <1>4, <2>1, <3>1
    <3>3. \A c \in {"stalled", "runs", "outcome", "rows", "buffer"} : Q[c] \subseteq P[c] \cup M
      BY <1>4 DEF Places
    <3>4. SUFFICES ASSUME NEW d \in Dispatched(s)', d \notin M PROVE d \in Dispatched(s)
      BY <3>2
    <3>5. CASE d \in Q["stalled"] \/ d \in Q["runs"] \/ d \in Q["outcome"]
      BY <3>1, <3>3, <3>4, <3>5
    <3>6. CASE (d \in Q["rows"] \/ d \in Q["buffer"]) /\ Fate(s, d) # "bad"
      BY <1>5, <3>3, <3>4, <3>6
    <3> QED  BY <1>6, <3>4, <3>5, <3>6
  <2>2. CASE a \in {"rows", "buffer"}
    <3>1. /\ Q["stalled"] = P["stalled"] /\ Q["runs"] = P["runs"] /\ Q["outcome"] = P["outcome"]
          /\ Q["rows"] \cup Q["buffer"] \subseteq P["rows"] \cup P["buffer"]
      BY <1>4, <2>2 DEF Places
    <3> QED  BY <1>5, <1>6, <3>1
  <2> QED  BY <2>1, <2>2
<1>9. WorkLater(s)'
  BY <1>7, <1>8, WorkStays DEF Kept, Fifo
<1>10. Moves(s)'
  BY <1>7, <1>8, MovesOn
<1> QED  BY <1>3, <1>9, <1>10

(* A run that returned becomes the outcome to deliver.                       *)
LEMMA JoinKept ==
    ASSUME NEW s, Kept(s), eng[s] = "select", ~dead[s], NEW r \in runs[s], r.phase = "done",
           docs'[s] = docs[s], reader'[s] = reader[s], out'[s] = out[s], dead'[s] = dead[s],
           work'[s] = work[s], eng'[s] = "deliver", pending'[s] = pending[s], round'[s] = round[s],
           outcome'[s] = [docs |-> r.docs, ok |-> r.ok], rows'[s] = rows[s], buffer'[s] = buffer[s], next'[s] = next[s],
           stalled'[s] = stalled[s], runs'[s] = runs[s] \ {r}, Phased(s)', Sane(s)'
    PROVE  Kept(s)'
<1>1. /\ Typed(s) /\ Placed(s) /\ Once(s) /\ Keyed(s) /\ Told(s) /\ Fifo(s) /\ Phased(s)
  BY DEF Kept
<1>2. r.docs \in Seq(Nat) /\ r.ok \in BOOLEAN /\ outcome'[s].docs = r.docs /\ outcome'[s].ok = r.ok /\ outcome[s].docs = <<>>
  BY <1>1, SMTT(30) DEF Typed, Phased
<1>3. Typed(s)'
  <2>1. outcome'[s] \in [docs : Seq(Nat), ok : BOOLEAN]
    BY <1>2
  <2> QED  BY <1>1, <2>1 DEF Typed
<1>4. InRuns(s)' = InRuns(s) \ ToSet(r.docs) /\ ToSet(r.docs) \subseteq InRuns(s)
  <2>1. \A d : d \in InRuns(s) <=> \E q \in runs[s] : d \in ToSet(q.docs)
    BY DEF InRuns
  <2>2. \A d : d \in InRuns(s)' <=> \E q \in runs'[s] : d \in ToSet(q.docs)
    BY DEF InRuns
  <2>3. \A q \in runs'[s] : ToSet(q.docs) \cap ToSet(r.docs) = {}
    BY <1>1 DEF Once
  <2> QED  BY <2>1, <2>2, <2>3
<1>5. Moved(Lies(s), Lies(s)', "runs", "outcome", ToSet(r.docs))
  <2>1. /\ Lies(s)'["work"] = Lies(s)["work"] /\ Lies(s)'["pending"] = Lies(s)["pending"]
        /\ Lies(s)'["groups"] = Lies(s)["groups"] /\ Lies(s)'["leftover"] = Lies(s)["leftover"]
        /\ Lies(s)'["stalled"] = Lies(s)["stalled"] /\ Lies(s)'["rows"] = Lies(s)["rows"]
        /\ Lies(s)'["buffer"] = Lies(s)["buffer"] /\ Lies(s)'["out"] = Lies(s)["out"]
    BY DEF Lies
  <2>2. Lies(s)'["runs"] = Lies(s)["runs"] \ ToSet(r.docs) /\ ToSet(r.docs) \subseteq Lies(s)["runs"]
    BY <1>4, LiesAre, LiesBecome
  <2>3. Lies(s)'["outcome"] = ToSet(r.docs) /\ Lies(s)["outcome"] = {}
    BY <1>2, LiesAre, LiesBecome, EmptyBatches
  <2> QED  BY <2>1, <2>2, <2>3 DEF Moved, Places
<1>6. Placed(s)' /\ WorkLater(s)' /\ Moves(s)'
  BY <1>5, HeldMove, Zenon DEF Grouping
<1>7. Once(s)'
  BY <1>1, <1>2 DEF Once
<1>8. Keyed(s)'
  BY <1>1, SameDocs DEF Keyed
<1>9. Told(s)'
  <2>1. r.ok <=> AllOk(s, r.docs)
    BY <1>1, <1>2 DEF Told
  <2>2. (eng[s] = "deliver" => (outcome[s].ok <=> AllOk(s, outcome[s].docs)))'
    BY <1>2, <2>1, SameDocs
  <2> QED  BY <1>1, <2>2, SameDocs DEF Told, Ended
<1>10. Fifo(s)'
  BY <1>1, <1>6, SameDocs DEF Fifo
<1> QED  BY <1>3, <1>6, <1>7, <1>8, <1>9, <1>10 DEF Kept

(* The branch of the select that joins it.                                   *)
LEMMA BranchJoinKept ==
    ASSUME Maps, NEW s \in Streams, Kept(s), BranchJoin(s)
    PROVE  Kept(s)'
<1>1. PICK r \in runs[s] :
        /\ r.phase = "done"
        /\ runs' = [runs EXCEPT ![s] = @ \ {r}]
        /\ IF expired[s]
           THEN AbortDeadline(s)
           ELSE /\ outcome' = [outcome EXCEPT ![s] = [docs |-> r.docs, ok |-> r.ok]]
                /\ Goto(s, "deliver")
                /\ UNCHANGED <<client, told, called, work, inputEnded, pending, round,
                       rows, buffer, next, stalled, timer, retries, dead, expired, idle>>
  BY DEF BranchJoin
<1>2. eng[s] = "select" /\ runs'[s] = runs[s] \ {r}
  BY <1>1 DEF BranchJoin, Maps
<1>3. CASE expired[s]
  BY <1>1, <1>2, <1>3, AbortKept
<1>4. CASE ~expired[s]
  <2>1. /\ docs'[s] = docs[s] /\ reader'[s] = reader[s] /\ out'[s] = out[s] /\ dead'[s] = dead[s]
        /\ work'[s] = work[s] /\ eng'[s] = "deliver" /\ pending'[s] = pending[s] /\ round'[s] = round[s]
        /\ outcome'[s] = [docs |-> r.docs, ok |-> r.ok] /\ rows'[s] = rows[s] /\ buffer'[s] = buffer[s]
        /\ next'[s] = next[s] /\ stalled'[s] = stalled[s] /\ retries'[s] = retries[s] /\ conn'[s] = conn[s]
        /\ how'[s] = how[s] /\ expired'[s] = expired[s] /\ inputEnded'[s] = inputEnded[s]
    BY <1>1, <1>4 DEF Goto, Maps, client, told, called
  <2>2. ~dead[s]
    BY <1>2, <1>4 DEF Kept, Sane, Ended
  <2>3. outcome'[s].docs # <<>>
    BY <2>1 DEF Kept, Once
  <2>4. Phased(s)' /\ Sane(s)'
    BY <1>2, <2>1, <2>3 DEF Kept, Phased, Sane, Ended, Grouping
  <2> QED  BY <1>1, <1>2, <2>1, <2>2, <2>4, JoinKept
<1> QED  BY <1>3, <1>4

(* The outcome becomes the answers to send.                                  *)
LEMMA DeliverKept ==
    ASSUME Maps, NEW s \in Streams, Kept(s), Deliver(s)
    PROVE  Kept(s)'
<1> DEFINE q == outcome[s].docs
           ok == outcome[s].ok
<1>1. /\ eng[s] = "deliver" /\ eng'[s] = "answer" /\ docs'[s] = docs[s] /\ reader'[s] = reader[s]
      /\ out'[s] = out[s] /\ dead'[s] = dead[s] /\ work'[s] = work[s] /\ pending'[s] = pending[s]
      /\ round'[s] = round[s] /\ outcome'[s] = NoOutcome /\ buffer'[s] = buffer[s]
      /\ next'[s] = next[s] /\ stalled'[s] = stalled[s] /\ retries'[s] = retries[s] /\ conn'[s] = conn[s]
      /\ runs'[s] = runs[s] /\ how'[s] = how[s] /\ expired'[s] = expired[s] /\ inputEnded'[s] = inputEnded[s]
  BY DEF Deliver, Goto, Maps, Local, client, told, called
<1>2. rows'[s] = [i \in DOMAIN q |-> [doc |-> q[i], ok |-> ok]] /\ (ok \/ Len(q) = 1)
  BY DEF Deliver, Maps
<1>3. /\ Typed(s) /\ Placed(s) /\ Once(s) /\ Keyed(s) /\ Told(s) /\ Fifo(s) /\ Phased(s) /\ Sane(s)
  BY DEF Kept
<1>4. q \in Seq(Nat) /\ ok \in BOOLEAN /\ rows[s] = <<>> /\ IsInjective(q)
  BY <1>1, <1>3 DEF Typed, Phased, Once
<1>5. NoOutcome.docs = <<>> /\ NoOutcome \in [docs : Seq(Nat), ok : BOOLEAN]
  BY DEF NoOutcome
<1> HIDE DEF q, ok
<1>6. \A i \in DOMAIN q : q[i] \in Nat
  BY <1>4
<1>7. DOMAIN rows'[s] = DOMAIN q /\ \A i \in DOMAIN q : rows'[s][i] = [doc |-> q[i], ok |-> ok]
  BY <1>2
<1>8. rows'[s] \in Seq(Answer)
  <2>1. DOMAIN q = 1 .. Len(q) /\ Len(q) \in Nat
    BY <1>4, LenProperties
  <2>2. \A i \in 1 .. Len(q) : [doc |-> q[i], ok |-> ok] \in Answer
    BY <1>4, <1>6, <2>1 DEF Answer
  <2>3. rows'[s] = [i \in 1 .. Len(q) |-> [doc |-> q[i], ok |-> ok]]
    BY <1>2, <2>1
  <2> QED  BY <2>1, <2>2, <2>3
<1>9. \A i \in DOMAIN q : rows'[s][i].doc = q[i] /\ rows'[s][i].ok = ok
  <2>1. SUFFICES ASSUME NEW i \in DOMAIN q PROVE rows'[s][i].doc = q[i] /\ rows'[s][i].ok = ok
    OBVIOUS
  <2>2. rows'[s][i] = [doc |-> q[i], ok |-> ok]
    BY <1>7
  <2> QED  BY <2>2
<1>10. InAnswers(ToSet(rows'[s])) = ToSet(q)
  BY <1>7, <1>9 DEF InAnswers, ToSet
<1>11. Moved(Lies(s), Lies(s)', "outcome", "rows", ToSet(q))
  <2>1. InRuns(s)' = InRuns(s)
    BY <1>1 DEF InRuns
  <2>2. /\ Lies(s)'["work"] = Lies(s)["work"] /\ Lies(s)'["pending"] = Lies(s)["pending"]
        /\ Lies(s)'["groups"] = Lies(s)["groups"] /\ Lies(s)'["leftover"] = Lies(s)["leftover"]
        /\ Lies(s)'["stalled"] = Lies(s)["stalled"] /\ Lies(s)'["runs"] = Lies(s)["runs"]
        /\ Lies(s)'["buffer"] = Lies(s)["buffer"] /\ Lies(s)'["out"] = Lies(s)["out"]
    BY <1>1, <2>1 DEF Lies
  <2>3. Lies(s)'["outcome"] = {} /\ Lies(s)["outcome"] = ToSet(q)
    BY <1>1, <1>5, LiesAre, LiesBecome, EmptyBatches DEF q
  <2>4. Lies(s)'["rows"] = ToSet(q) /\ Lies(s)["rows"] = {}
    <3>1. Lies(s)'["rows"] = InAnswers(ToSet(rows'[s])) /\ Lies(s)["rows"] = InAnswers(ToSet(rows[s]))
      BY LiesAre, LiesBecome
    <3> QED  BY <1>4, <1>10, <3>1, EmptyBatches
  <2> QED  BY <2>2, <2>3, <2>4 DEF Moved, Places
<1>12. Placed(s)' /\ WorkLater(s)' /\ Moves(s)'
  BY <1>1, <1>11, HeldMove, Zenon DEF Grouping
<1>13. Typed(s)'
  BY <1>1, <1>3, <1>5, <1>8 DEF Typed
<1>14. Once(s)'
  <2>1. Singles(rows'[s])
    BY <1>4, <1>7, <1>9 DEF Singles, IsInjective
  <2>2. IsInjective(<<>>)
    BY DEF IsInjective
  <2> QED  BY <1>1, <1>3, <1>5, <2>1, <2>2 DEF Once
<1>15. Keyed(s)'
  BY <1>1, <1>3, SameDocs DEF Keyed
<1>16. Told(s)'
  <2>1. ok <=> AllOk(s, q)
    BY <1>1, <1>3 DEF Told, q, ok
  <2>2. \A d \in ToSet(q) : ok <=> Fate(s, d) = "ok"
    <3>1. CASE ok
      BY <2>1, <3>1 DEF AllOk
    <3>2. CASE ~ok
      <4>1. DOMAIN q = {1}
        BY <1>2, <1>4, <3>2, LenProperties
      <4>2. \A d, e \in ToSet(q) : d = e
        BY <4>1 DEF ToSet
      <4> QED  BY <2>1, <3>2, <4>2 DEF AllOk
    <3> QED  BY <3>1, <3>2
  <2>3. \A a \in ToSet(rows'[s]) : a.doc \in ToSet(q) /\ a.ok = ok
    BY <1>7, <1>9 DEF ToSet
  <2>4. \A a \in ToSet(rows'[s]) : a.ok = (Fate(s, a.doc) = "ok")
    BY <1>4, <2>2, <2>3
  <2>5. (\A a \in ToSet(rows[s]) \cup buffer[s] \cup ToSet(out[s]) : a.ok = (Fate(s, a.doc) = "ok"))'
    <3>1. \A a \in buffer[s] \cup ToSet(out[s]) : a.ok = (Fate(s, a.doc) = "ok")
      BY <1>3 DEF Told
    <3>2. \A d : Fate(s, d)' = Fate(s, d)
      BY <1>1, SameDocs
    <3> QED  BY <1>1, <2>4, <3>1, <3>2
  <2>6. (\A r \in runs[s] : r.phase = "done" =>
           (r.ok => AllOk(s, r.docs)) /\ (~r.ok => dead[s] \/ ~AllOk(s, r.docs)))'
    BY <1>1, <1>3, SameDocs DEF Told
  <2> QED  BY <1>1, <1>3, <2>5, <2>6 DEF Told, Ended
<1>17. Fifo(s)'
  BY <1>1, <1>3, <1>12, SameDocs DEF Fifo
<1>18. Phased(s)' /\ Sane(s)'
  BY <1>1, <1>3, <1>5 DEF Phased, Sane, Ended, Grouping
<1> QED  BY <1>12, <1>13, <1>14, <1>15, <1>16, <1>17, <1>18 DEF Kept

-----------------------------------------------------------------------------
(* Answers *)

(* Sequences of answers. *)
LEMMA SinglesTail ==
    ASSUME NEW as \in Seq(Answer), as # <<>>, Singles(as)
    PROVE  /\ Head(as) \in Answer /\ Tail(as) \in Seq(Answer)
           /\ ToSet(as) = {Head(as)} \cup ToSet(Tail(as))
           /\ Singles(Tail(as))
           /\ InAnswers(ToSet(as)) = {Head(as).doc} \cup InAnswers(ToSet(Tail(as)))
           /\ Head(as).doc \notin InAnswers(ToSet(Tail(as)))
<1> DEFINE t == Tail(as)
           h == Head(as)
<1>1. /\ h = as[1] /\ 1 \in DOMAIN as /\ h \in Answer /\ t \in Seq(Answer)
      /\ \A i \in DOMAIN t : i \in Nat /\ i > 0 /\ i + 1 \in DOMAIN as /\ t[i] = as[i + 1]
  BY TailOf
<1>2. ToSet(as) = {h} \cup ToSet(t)
  BY SetOfTail
<1> HIDE DEF t, h
<1>3. \A i, j \in DOMAIN t : i + 1 = j + 1 => i = j
  <2>1. \A i \in DOMAIN t : i \in Nat
    BY <1>1
  <2> QED  BY <2>1
<1>4. Singles(t)
  <2>1. SUFFICES ASSUME NEW i \in DOMAIN t, NEW j \in DOMAIN t, t[i].doc = t[j].doc PROVE i = j
    BY DEF Singles
  <2>2. as[i + 1].doc = as[j + 1].doc /\ i + 1 \in DOMAIN as /\ j + 1 \in DOMAIN as
    BY <1>1, <2>1
  <2>3. i + 1 = j + 1
    BY <2>2 DEF Singles
  <2> QED  BY <1>3, <2>3
<1>5. \A i \in DOMAIN t : 1 # i + 1
  BY <1>1
<1>6. \A i \in DOMAIN t : t[i].doc # h.doc
  BY <1>1, <1>5 DEF Singles
<1>7. h.doc \notin InAnswers(ToSet(t))
  BY <1>6 DEF InAnswers, ToSet
<1>8. InAnswers(ToSet(as)) = {h.doc} \cup InAnswers(ToSet(t))
  BY <1>2 DEF InAnswers
<1> QED  BY <1>1, <1>2, <1>4, <1>7, <1>8 DEF t, h

(* An answer more.                                                           *)
LEMMA SinglesAppend ==
    ASSUME NEW as \in Seq(Answer), NEW a \in Answer, Singles(as), a.doc \notin InAnswers(ToSet(as))
    PROVE  /\ Append(as, a) \in Seq(Answer) /\ Singles(Append(as, a))
           /\ ToSet(Append(as, a)) = ToSet(as) \cup {a}
           /\ InAnswers(ToSet(Append(as, a))) = InAnswers(ToSet(as)) \cup {a.doc}
           /\ Len(as) \in Nat /\ Len(Append(as, a)) = Len(as) + 1
<1> DEFINE p == Append(as, a)
           n == Len(as) + 1
<1>1. /\ p \in Seq(Answer) /\ Len(as) \in Nat /\ Len(p) = Len(as) + 1
      /\ DOMAIN p = DOMAIN as \cup {n} /\ n \notin DOMAIN as
      /\ \A i \in DOMAIN as : p[i] = as[i]
      /\ p[n] = a
  <2> HIDE DEF Answer
  <2>1. DOMAIN p = DOMAIN as \cup {n} /\ n \notin DOMAIN as /\ Len(as) \in Nat /\ Len(p) = Len(as) + 1
    BY AppendOf
  <2>2. p \in Seq(Answer) /\ p[n] = a /\ \A i \in DOMAIN as : p[i] = as[i]
    <3>1. p \in Seq(Answer)
      BY AppendOf
    <3>2. ASSUME NEW q \in Seq(Answer), NEW x \in Answer
          PROVE  Append(q, x)[Len(q) + 1] = x /\ \A i \in DOMAIN q : Append(q, x)[i] = q[i]
      BY AppendOf
    <3> QED  BY <3>1, <3>2
  <2> QED  BY <2>1, <2>2
<1>2. ToSet(p) = ToSet(as) \cup {a}
  BY SetOfAppend, ZenonT(60)
<1> HIDE DEF p, n
<1>3. \A i \in DOMAIN as : as[i].doc # a.doc
  BY DEF InAnswers, ToSet
<1>4. Singles(p)
  BY <1>1, <1>3 DEF Singles
<1>5. InAnswers(ToSet(p)) = InAnswers(ToSet(as)) \cup {a.doc}
  BY <1>2 DEF InAnswers
<1> QED  BY <1>1, <1>2, <1>4, <1>5 DEF p

(* An answer waits in the buffer for the ones before it.                     *)
LEMMA EnqueueKept ==
    ASSUME Maps, NEW s \in Streams, Kept(s), Enqueue(s)
    PROVE  Kept(s)'
<1> DEFINE h == Head(rows[s])
<1>1. /\ eng[s] = "answer" /\ eng'[s] = eng[s] /\ docs'[s] = docs[s] /\ reader'[s] = reader[s]
      /\ out'[s] = out[s] /\ dead'[s] = dead[s] /\ work'[s] = work[s] /\ pending'[s] = pending[s]
      /\ round'[s] = round[s] /\ outcome'[s] = outcome[s] /\ rows[s] # <<>>
      /\ next'[s] = next[s] /\ stalled'[s] = stalled[s] /\ retries'[s] = retries[s] /\ conn'[s] = conn[s]
      /\ runs'[s] = runs[s] /\ how'[s] = how[s] /\ expired'[s] = expired[s] /\ inputEnded'[s] = inputEnded[s]
  BY DEF Enqueue, Maps, Local, client, told, called
<1>2. buffer'[s] = buffer[s] \cup {h} /\ rows'[s] = Tail(rows[s])
  BY DEF Enqueue, Maps
<1>3. /\ Typed(s) /\ Placed(s) /\ Once(s) /\ Keyed(s) /\ Told(s) /\ Fifo(s) /\ Phased(s) /\ Sane(s)
  BY DEF Kept
<1>4. rows[s] \in Seq(Answer) /\ Singles(rows[s])
  BY <1>3 DEF Typed, Once
<1>5. /\ h \in Answer /\ rows'[s] \in Seq(Answer) /\ ToSet(rows[s]) = {h} \cup ToSet(rows'[s])
      /\ Singles(rows'[s]) /\ InAnswers(ToSet(rows[s])) = {h.doc} \cup InAnswers(ToSet(rows'[s]))
      /\ h.doc \notin InAnswers(ToSet(rows'[s]))
  BY <1>1, <1>2, <1>4, SinglesTail
<1> HIDE DEF h
<1>6. InAnswers(buffer'[s]) = InAnswers(buffer[s]) \cup {h.doc}
  BY <1>2 DEF InAnswers
<1>7. Moved(Lies(s), Lies(s)', "rows", "buffer", {h.doc})
  <2>1. InRuns(s)' = InRuns(s)
    BY <1>1 DEF InRuns
  <2>2. /\ Lies(s)'["work"] = Lies(s)["work"] /\ Lies(s)'["pending"] = Lies(s)["pending"]
        /\ Lies(s)'["groups"] = Lies(s)["groups"] /\ Lies(s)'["leftover"] = Lies(s)["leftover"]
        /\ Lies(s)'["stalled"] = Lies(s)["stalled"] /\ Lies(s)'["runs"] = Lies(s)["runs"]
        /\ Lies(s)'["outcome"] = Lies(s)["outcome"] /\ Lies(s)'["out"] = Lies(s)["out"]
    BY <1>1, <2>1 DEF Lies
  <2>3. Lies(s)'["rows"] = Lies(s)["rows"] \ {h.doc} /\ {h.doc} \subseteq Lies(s)["rows"]
    <3>1. Lies(s)'["rows"] = InAnswers(ToSet(rows'[s])) /\ Lies(s)["rows"] = InAnswers(ToSet(rows[s]))
      BY LiesAre, LiesBecome
    <3> QED  BY <1>5, <3>1
  <2>4. Lies(s)'["buffer"] = Lies(s)["buffer"] \cup {h.doc}
    BY <1>6, LiesAre, LiesBecome
  <2> QED  BY <2>2, <2>3, <2>4 DEF Moved, Places
<1>8. Placed(s)' /\ WorkLater(s)' /\ Moves(s)'
  BY <1>1, <1>7, HeldMove, Zenon DEF Grouping
<1>9. Typed(s)'
  BY <1>1, <1>2, <1>3, <1>5 DEF Typed
<1>10. Once(s)'
  <2>1. h.doc \notin InAnswers(buffer[s])
    <3>1. Lies(s)["rows"] \cap Lies(s)["buffer"] = {}
      BY <1>3 DEF Placed, Disjoint, Places
    <3>2. Lies(s)["rows"] = InAnswers(ToSet(rows[s])) /\ Lies(s)["buffer"] = InAnswers(buffer[s])
      BY LiesAre
    <3> QED  BY <1>5, <3>1, <3>2
  <2>2. \A a, b \in buffer'[s] : a.doc = b.doc => a = b
    BY <1>2, <1>3, <2>1 DEF Once, InAnswers
  <2> QED  BY <1>1, <1>3, <1>5, <2>2 DEF Once
<1>11. Keyed(s)'
  BY <1>1, <1>3, SameDocs DEF Keyed
<1>12. Told(s)'
  <2>1. ToSet(rows'[s]) \cup buffer'[s] = ToSet(rows[s]) \cup buffer[s]
    BY <1>2, <1>5
  <2>2. (\A a \in ToSet(rows[s]) \cup buffer[s] \cup ToSet(out[s]) : a.ok = (Fate(s, a.doc) = "ok"))'
    BY <1>1, <1>3, <2>1, SameDocs DEF Told
  <2> QED  BY <1>1, <1>3, <2>2, SameDocs DEF Told, Ended
<1>13. Fifo(s)'
  BY <1>1, <1>3, <1>8, SameDocs DEF Fifo
<1>14. Phased(s)' /\ Sane(s)'
  BY <1>1, <1>3 DEF Phased, Sane, Ended, Grouping
<1> QED  BY <1>8, <1>9, <1>10, <1>11, <1>12, <1>13, <1>14 DEF Kept

(* An answer is sent, from the buffer or from the rows. *)
LEMMA SendKept ==
    ASSUME Maps, NEW s \in Streams, Kept(s), Send(s)
    PROVE  Kept(s)'
<1>1. /\ eng[s] = "answer" /\ eng'[s] = eng[s] /\ docs'[s] = docs[s] /\ reader'[s] = reader[s]
      /\ dead'[s] = dead[s] /\ work'[s] = work[s] /\ pending'[s] = pending[s]
      /\ round'[s] = round[s] /\ outcome'[s] = outcome[s]
      /\ next'[s] = next[s] + 1 /\ stalled'[s] = stalled[s] /\ retries'[s] = retries[s] /\ conn'[s] = conn[s]
      /\ runs'[s] = runs[s] /\ how'[s] = how[s] /\ expired'[s] = expired[s] /\ inputEnded'[s] = inputEnded[s]
  BY DEF Send, Maps, client, called
<1>2. PICK a \in Due(s) :
         /\ out'[s] = Append(out[s], a)
         /\ buffer'[s] = buffer[s] \ {a}
         /\ rows'[s] = IF s \in ordered THEN rows[s] ELSE Tail(rows[s])
  BY DEF Send, Maps
<1>3. /\ Typed(s) /\ Placed(s) /\ Once(s) /\ Keyed(s) /\ Told(s) /\ Fifo(s) /\ Phased(s) /\ Sane(s)
  BY DEF Kept
<1>4. rows[s] \in Seq(Answer) /\ Singles(rows[s]) /\ out[s] \in Seq(Answer) /\ Singles(out[s]) /\ buffer[s] \in SUBSET Answer
  BY <1>3 DEF Typed, Once
<1>5. PICK from \in {"rows", "buffer"} :
         /\ a \in Answer
         /\ a \in ToSet(rows[s]) \cup buffer[s] /\ a.doc \in Lies(s)[from]
         /\ rows'[s] \in Seq(Answer) /\ Singles(rows'[s])
         /\ ToSet(rows'[s]) \subseteq ToSet(rows[s]) /\ buffer'[s] \subseteq buffer[s]
         /\ Lies(s)'[from] = Lies(s)[from] \ {a.doc}
         /\ \A c \in {"rows", "buffer"} : c # from => Lies(s)'[c] = Lies(s)[c]
  <2>1. CASE s \in ordered
    <3>1. a \in buffer[s] /\ rows'[s] = rows[s]
      BY <1>2, <2>1 DEF Due
    <3>2. \A b \in buffer[s] : b.doc = a.doc => b = a
      BY <1>3, <3>1 DEF Once
    <3>3. InAnswers(buffer'[s]) = InAnswers(buffer[s]) \ {a.doc}
      BY <1>2, <3>1, <3>2 DEF InAnswers
    <3>4. a.doc \in InAnswers(buffer[s]) /\ a \in Answer
      BY <1>4, <3>1 DEF InAnswers
    <3>5. Lies(s)'["rows"] = Lies(s)["rows"] /\ Lies(s)'["buffer"] = Lies(s)["buffer"] \ {a.doc} /\ a.doc \in Lies(s)["buffer"]
      BY <3>1, <3>3, <3>4, LiesAre, LiesBecome
    <3>6. buffer'[s] \subseteq buffer[s]
      BY <1>2
    <3> WITNESS "buffer" \in {"rows", "buffer"}
    <3> QED  BY <1>4, <3>1, <3>4, <3>5, <3>6
  <2>2. CASE s \notin ordered
    <3>1. a \in ToSet(rows[s]) /\ a = Head(rows[s]) /\ rows'[s] = Tail(rows[s])
      BY <1>2, <2>2 DEF Due
    <3>2. rows[s] # <<>>
      BY <3>1, EmptyBatches
    <3>3. /\ a \in Answer /\ rows'[s] \in Seq(Answer) /\ ToSet(rows[s]) = {a} \cup ToSet(rows'[s])
          /\ Singles(rows'[s]) /\ InAnswers(ToSet(rows[s])) = {a.doc} \cup InAnswers(ToSet(rows'[s]))
          /\ a.doc \notin InAnswers(ToSet(rows'[s]))
      BY <1>4, <3>1, <3>2, SinglesTail
    <3>4. a \notin buffer[s]
      <4>1. a.doc \in Lies(s)["rows"]
        BY <3>3, LiesAre
      <4>2. a.doc \notin InAnswers(buffer[s])
        BY <1>3, <4>1, LiesAre DEF Placed, Disjoint, Places
      <4> QED  BY <4>2 DEF InAnswers
    <3>5. buffer'[s] = buffer[s]
      BY <1>2, <3>4
    <3>6. Lies(s)'["rows"] = Lies(s)["rows"] \ {a.doc} /\ a.doc \in Lies(s)["rows"]
      <4>1. Lies(s)'["rows"] = InAnswers(ToSet(rows'[s])) /\ Lies(s)["rows"] = InAnswers(ToSet(rows[s]))
        BY LiesAre, LiesBecome
      <4> QED  BY <3>3, <4>1
    <3>7. Lies(s)'["buffer"] = Lies(s)["buffer"]
      BY <3>5, LiesAre, LiesBecome
    <3> WITNESS "rows" \in {"rows", "buffer"}
    <3> QED  BY <3>1, <3>3, <3>5, <3>6, <3>7
  <2> QED  BY <2>1, <2>2
<1>6. a.doc \notin InAnswers(ToSet(out[s]))
  BY <1>3, <1>5, LiesAre DEF Placed, Disjoint, Places
<1>7. /\ out'[s] \in Seq(Answer) /\ Singles(out'[s])
      /\ ToSet(out'[s]) = ToSet(out[s]) \cup {a}
      /\ InAnswers(ToSet(out'[s])) = InAnswers(ToSet(out[s])) \cup {a.doc}
      /\ Len(out[s]) \in Nat /\ Len(out'[s]) = Len(out[s]) + 1
  BY <1>2, <1>4, <1>5, <1>6, SinglesAppend
<1>8. Moved(Lies(s), Lies(s)', from, "out", {a.doc})
  <2>1. InRuns(s)' = InRuns(s)
    BY <1>1 DEF InRuns
  <2>2. /\ Lies(s)'["work"] = Lies(s)["work"] /\ Lies(s)'["pending"] = Lies(s)["pending"]
        /\ Lies(s)'["groups"] = Lies(s)["groups"] /\ Lies(s)'["leftover"] = Lies(s)["leftover"]
        /\ Lies(s)'["stalled"] = Lies(s)["stalled"] /\ Lies(s)'["runs"] = Lies(s)["runs"]
        /\ Lies(s)'["outcome"] = Lies(s)["outcome"]
    BY <1>1, <2>1 DEF Lies
  <2>3. Lies(s)'["out"] = Lies(s)["out"] \cup {a.doc}
    BY <1>7, LiesAre, LiesBecome
  <2>4. \A c \in Places : c # from /\ c # "out" => Lies(s)'[c] = Lies(s)[c]
    BY <1>5, <2>2 DEF Places
  <2> QED  BY <1>5, <2>3, <2>4 DEF Moved
<1>9. Placed(s)' /\ WorkLater(s)' /\ Moves(s)'
  BY <1>1, <1>8, HeldMove, Zenon DEF Grouping
<1>10. Typed(s)'
  <2>1. buffer'[s] \in SUBSET Answer
    BY <1>4, <1>5
  <2> QED  BY <1>1, <1>3, <1>5, <1>7, <2>1 DEF Typed
<1>11. Once(s)'
  <2>1. \A x, y \in buffer'[s] : x.doc = y.doc => x = y
    BY <1>3, <1>5 DEF Once
  <2> QED  BY <1>1, <1>3, <1>5, <1>7, <2>1 DEF Once
<1>12. Keyed(s)'
  BY <1>1, <1>3, SameDocs DEF Keyed
<1>13. Told(s)'
  <2>1. \A x \in ToSet(rows'[s]) \cup buffer'[s] \cup ToSet(out'[s]) : x \in ToSet(rows[s]) \cup buffer[s] \cup ToSet(out[s])
    BY <1>5, <1>7
  <2>2. (\A x \in ToSet(rows[s]) \cup buffer[s] \cup ToSet(out[s]) : x.ok = (Fate(s, x.doc) = "ok"))'
    BY <1>1, <1>3, <2>1, SameDocs DEF Told
  <2>3. (~Ended(s) => next[s] = Len(out[s]) + 1)'
    BY <1>1, <1>3, <1>7 DEF Told, Ended
  <2> QED  BY <1>1, <1>3, <2>2, <2>3, SameDocs DEF Told
<1>14. Fifo(s)'
  BY <1>1, <1>3, <1>9, SameDocs DEF Fifo
<1>15. Phased(s)' /\ Sane(s)'
  BY <1>1, <1>3 DEF Phased, Sane, Ended, Grouping
<1> QED  BY <1>9, <1>10, <1>11, <1>12, <1>13, <1>14, <1>15 DEF Kept

-----------------------------------------------------------------------------
(* Batches start, or wait for a session *)

(* The batches of a stream, waiting or at work. *)
RunParts(s, r) ==
    /\ r.docs \in Seq(Nat) /\ r.ok \in BOOLEAN /\ r.docs # <<>> /\ IsInjective(r.docs)
    /\ OneKey(s, r.docs) /\ r.session[1] = LoadFor(s, r.docs)
    /\ r.phase = "done" => (r.ok => AllOk(s, r.docs)) /\ (~r.ok => dead[s] \/ ~AllOk(s, r.docs))
BatchParts(s) ==
    /\ stalled[s] \in Seq(Seq(Nat)) /\ Batches(stalled[s])
    /\ \A b \in DOMAIN stalled[s] : OneKey(s, stalled[s][b])
    /\ \A r \in runs[s] : RunParts(s, r)
    /\ \A r, q \in runs[s] : r # q => ToSet(r.docs) \cap ToSet(q.docs) = {}

(* A batch starts, or waits behind the batches left. *)
Stashed(s, b, left) == stalled'[s] = Append(left, b) /\ runs'[s] = runs[s]
Started(s, b, left) ==
    /\ stalled'[s] = left
    /\ \E r : /\ runs'[s] = runs[s] \cup {r}
              /\ r.docs = b /\ r.session[1] = LoadFor(s, b) /\ r.phase = "ready" /\ r.ok = FALSE

(* Respawn, or the retry of one document, starts the batch or leaves it stalled. *)
LEMMA TakeDoes ==
    ASSUME Maps, NEW s \in Streams, NEW b, NEW left, NEW set, Respawn(s, b, left, set) \/ TakeOrStash(s, b, left, set)
    PROVE  Stashed(s, b, left) \/ Started(s, b, left)
<1> DEFINE l == LoadFor(s, b)
<1>1. CASE \E i \in idle[l] : Start(s, b, l, i) /\ stalled' = [stalled EXCEPT ![s] = left]
  <2>1. PICK i \in idle[l] : Start(s, b, l, i) /\ stalled' = [stalled EXCEPT ![s] = left]
    BY <1>1
  <2> DEFINE r == [docs |-> b, session |-> <<l, i>>, phase |-> "ready", ok |-> FALSE]
  <2>2. r.docs = b /\ r.session[1] = l /\ r.phase = "ready" /\ r.ok = FALSE
    OBVIOUS
  <2>3. runs'[s] = runs[s] \cup {r} /\ stalled'[s] = left
    BY <2>1 DEF Start, Maps
  <2> HIDE DEF r
  <2> QED  BY <2>2, <2>3 DEF Started
<1>2. CASE stalled' = [stalled EXCEPT ![s] = Append(left, b)] /\ runs' = runs
  BY <1>2 DEF Stashed, Maps
<1> QED  BY <1>1, <1>2 DEF Respawn, TakeOrStash

(* Either way every batch stays what it was, and the new one is in one place. *)
LEMMA TakeParts ==
    ASSUME NEW s, BatchParts(s), docs'[s] = docs[s], dead'[s] = dead[s], NEW b \in Seq(Nat), NEW left \in Seq(Seq(Nat)),
           Batches(left), \A i \in DOMAIN left : OneKey(s, left[i]), b # <<>>, IsInjective(b), OneKey(s, b),
           ToSet(b) \cap InBatches(left) = {}, ToSet(b) \cap InRuns(s) = {},
           Stashed(s, b, left) \/ Started(s, b, left)
    PROVE  /\ BatchParts(s)'
           /\ Len(left) \in Nat /\ Len(stalled'[s]) \in Nat /\ Len(left) <= Len(stalled'[s])
           /\ \/ InBatches(stalled'[s]) = InBatches(left) \cup ToSet(b) /\ InRuns(s)' = InRuns(s)
              \/ InBatches(stalled'[s]) = InBatches(left) /\ InRuns(s)' = InRuns(s) \cup ToSet(b)
<1>1. CASE Stashed(s, b, left)
  <2>1. stalled'[s] = Append(left, b) /\ runs'[s] = runs[s]
    BY <1>1 DEF Stashed
  <2>2. Batches(stalled'[s]) /\ InBatches(stalled'[s]) = InBatches(left) \cup ToSet(b)
    BY <2>1, BatchesAppend
  <2> DEFINE n == Len(left) + 1
  <2>3. /\ stalled'[s] \in Seq(Seq(Nat)) /\ Len(left) \in Nat /\ Len(stalled'[s]) = Len(left) + 1
        /\ DOMAIN stalled'[s] = DOMAIN left \cup {n}
        /\ \A i \in DOMAIN left : stalled'[s][i] = left[i]
        /\ stalled'[s][n] = b
    <3>1. ASSUME NEW q \in Seq(Seq(Nat)), NEW x \in Seq(Nat)
          PROVE  /\ Append(q, x) \in Seq(Seq(Nat)) /\ Len(q) \in Nat /\ Len(Append(q, x)) = Len(q) + 1
                 /\ DOMAIN Append(q, x) = DOMAIN q \cup {Len(q) + 1}
                 /\ \A i \in DOMAIN q : Append(q, x)[i] = q[i]
                 /\ Append(q, x)[Len(q) + 1] = x
      BY AppendOf, SMTT(30)
    <3> QED  BY <2>1, <3>1
  <2> HIDE DEF n
  <2>4. (\A i \in DOMAIN stalled[s] : OneKey(s, stalled[s][i]))'
    <3>1. \A i \in DOMAIN stalled'[s] : OneKey(s, stalled'[s][i])
      BY <2>3
    <3> QED  BY <3>1, SameDocs
  <2>5. (\A r \in runs[s] : RunParts(s, r))'
    BY <2>1, SameDocs DEF BatchParts, RunParts
  <2>6. BatchParts(s)'
    <3>1. (stalled[s] \in Seq(Seq(Nat)) /\ Batches(stalled[s]))'
      BY <2>2, <2>3
    <3>2. (\A r, q \in runs[s] : r # q => ToSet(r.docs) \cap ToSet(q.docs) = {})'
      BY <2>1 DEF BatchParts
    <3> QED  BY ONLY <2>4, <2>5, <3>1, <3>2 DEF BatchParts
  <2>7. InRuns(s)' = InRuns(s)
    BY <2>1 DEF InRuns
  <2> QED  BY <2>2, <2>3, <2>6, <2>7
<1>2. CASE Started(s, b, left)
  <2>1. PICK new : /\ runs'[s] = runs[s] \cup {new}
                   /\ new.docs = b /\ new.session[1] = LoadFor(s, b) /\ new.phase = "ready" /\ new.ok = FALSE
    BY <1>2 DEF Started
  <2>2. stalled'[s] = left
    BY <1>2 DEF Started
  <2>3. InRuns(s)' = InRuns(s) \cup ToSet(b)
    <3>1. \A d : d \in InRuns(s) <=> \E q \in runs[s] : d \in ToSet(q.docs)
      BY DEF InRuns
    <3>2. \A d : d \in InRuns(s)' <=> \E q \in runs'[s] : d \in ToSet(q.docs)
      BY DEF InRuns
    <3> QED  BY <2>1, <3>1, <3>2
  <2>4. (\A r \in runs[s] : RunParts(s, r))'
    BY <2>1, SameDocs, ZenonT(60) DEF BatchParts, RunParts
  <2>5. \A r, q \in runs'[s] : r # q => ToSet(r.docs) \cap ToSet(q.docs) = {}
    <3>1. \A r \in runs[s] : ToSet(r.docs) \subseteq InRuns(s)
      BY DEF InRuns
    <3> QED  BY <2>1, <3>1 DEF BatchParts
  <2>6. (\A i \in DOMAIN stalled[s] : OneKey(s, stalled[s][i]))'
    BY <2>2, SameDocs
  <2>7. BatchParts(s)'
    <3>1. (stalled[s] \in Seq(Seq(Nat)) /\ Batches(stalled[s]))'
      BY <2>2
    <3>2. (\A r, q \in runs[s] : r # q => ToSet(r.docs) \cap ToSet(q.docs) = {})'
      BY <2>5
    <3> QED  BY ONLY <2>4, <2>6, <3>1, <3>2 DEF BatchParts
  <2>8. Len(left) \in Nat
    BY LenProperties
  <2> QED  BY <2>2, <2>3, <2>7, <2>8
<1> QED  BY <1>1, <1>2

(* What the invariant says of the batches.                                   *)
LEMMA KeptBatches ==
    ASSUME NEW s, Kept(s)
    PROVE  BatchParts(s)
  BY DEF Kept, Typed, Once, Keyed, Told, BatchParts, RunParts

(* A failed batch runs again, one document at a time.                        *)
LEMMA SplitKept ==
    ASSUME Maps, NEW s \in Streams, Kept(s), Split(s)
    PROVE  Kept(s)'
<1> DEFINE q == outcome[s].docs
<1>1. /\ eng[s] = "split" /\ docs'[s] = docs[s] /\ reader'[s] = reader[s] /\ out'[s] = out[s] /\ rows'[s] = rows[s]
      /\ dead'[s] = dead[s] /\ work'[s] = work[s] /\ pending'[s] = pending[s] /\ buffer'[s] = buffer[s]
      /\ round'[s] = round[s] /\ next'[s] = next[s] /\ retries'[s] = retries[s] /\ conn'[s] = conn[s]
      /\ how'[s] = how[s] /\ expired'[s] = expired[s] /\ inputEnded'[s] = inputEnded[s]
      /\ client' = client /\ called' = called
  BY DEF Split, Local, client, told, called
<1>2. CASE q = <<>>
  <2>1. Goto(s, "dispatch") /\ stalled' = stalled /\ runs' = runs /\ outcome' = outcome
    BY <1>2 DEF Split
  <2>2. SameQueues(s)
    BY <1>1, <2>1 DEF SameQueues, SameEngine
  <2> QED  BY <1>1, <1>2, <2>1, <2>2, GotoKept, Zenon DEF Grouping
<1>3. CASE q # <<>>
  <2> DEFINE h == Head(q)
             b == <<h>>
  <2>1. TakeOrStash(s, b, stalled[s], timer[s]) /\ outcome'[s] = [outcome[s] EXCEPT !.docs = Tail(q)] /\ eng'[s] = eng[s]
    BY <1>3 DEF Split, Maps
  <2>2. /\ Typed(s) /\ Placed(s) /\ Once(s) /\ Keyed(s) /\ Told(s) /\ Fifo(s) /\ Phased(s) /\ Sane(s)
    BY DEF Kept
  <2>3. outcome[s] \in [docs : Seq(Nat), ok : BOOLEAN] /\ q \in Seq(Nat) /\ IsInjective(q)
    BY <2>2 DEF Typed, Once
  <2>4. outcome'[s].docs = Tail(q) /\ outcome'[s].ok = outcome[s].ok /\ Tail(q) \in Seq(Nat) /\ h \in Nat
    BY <1>3, <2>1, <2>3, TailOf
  <2>5. outcome'[s] \in [docs : Seq(Nat), ok : BOOLEAN]
    BY <2>1, <2>3, <2>4
  <2>6. ToSet(q) = {h} \cup ToSet(Tail(q)) /\ IsInjective(Tail(q)) /\ h \notin ToSet(Tail(q))
    BY <1>3, <2>3, SetOfTail
  <2>7. b \in Seq(Nat) /\ b # <<>> /\ DOMAIN b = {1} /\ b[1] = h
    BY <2>4
  <2> HIDE DEF q, h, b
  <2>8. ToSet(b) = {h} /\ IsInjective(b) /\ OneKey(s, b)
    BY <2>7 DEF ToSet, IsInjective, OneKey
  <2>9. h \notin InBatches(stalled[s]) /\ h \notin InRuns(s)
    <3>1. Lies(s)["outcome"] \cap Lies(s)["stalled"] = {} /\ Lies(s)["outcome"] \cap Lies(s)["runs"] = {}
      BY <2>2 DEF Placed, Disjoint, Places
    <3>2. Lies(s)["outcome"] = ToSet(q) /\ Lies(s)["stalled"] = InBatches(stalled[s]) /\ Lies(s)["runs"] = InRuns(s)
      BY LiesAre DEF q
    <3> QED  BY <2>6, <3>1, <3>2
  <2>10. Stashed(s, b, stalled[s]) \/ Started(s, b, stalled[s])
    BY <2>1, TakeDoes
  <2>11. BatchParts(s)
    BY KeptBatches
  <2>12. /\ BatchParts(s)'
         /\ \/ InBatches(stalled'[s]) = InBatches(stalled[s]) \cup ToSet(b) /\ InRuns(s)' = InRuns(s)
            \/ InBatches(stalled'[s]) = InBatches(stalled[s]) /\ InRuns(s)' = InRuns(s) \cup ToSet(b)
    <3>1. /\ stalled[s] \in Seq(Seq(Nat)) /\ Batches(stalled[s]) /\ \A i \in DOMAIN stalled[s] : OneKey(s, stalled[s][i])
      BY <2>11 DEF BatchParts
    <3>2. ToSet(b) \cap InBatches(stalled[s]) = {} /\ ToSet(b) \cap InRuns(s) = {}
      BY <2>8, <2>9
    <3> QED  BY <1>1, <2>7, <2>8, <2>10, <2>11, <3>1, <3>2, TakeParts
  <2>13. \E to \in {"stalled", "runs"} : Moved(Lies(s), Lies(s)', "outcome", to, {h})
    <3>1. /\ Lies(s)'["work"] = Lies(s)["work"] /\ Lies(s)'["pending"] = Lies(s)["pending"]
          /\ Lies(s)'["groups"] = Lies(s)["groups"] /\ Lies(s)'["leftover"] = Lies(s)["leftover"]
          /\ Lies(s)'["rows"] = Lies(s)["rows"] /\ Lies(s)'["buffer"] = Lies(s)["buffer"]
          /\ Lies(s)'["out"] = Lies(s)["out"]
      BY <1>1 DEF Lies
    <3>2. Lies(s)'["outcome"] = Lies(s)["outcome"] \ {h} /\ {h} \subseteq Lies(s)["outcome"]
      <4>1. Lies(s)["outcome"] = ToSet(q) /\ Lies(s)'["outcome"] = ToSet(Tail(q))
        BY <2>4, LiesAre, LiesBecome DEF q
      <4> QED  BY <2>6, <4>1
    <3>3. /\ Lies(s)["stalled"] = InBatches(stalled[s]) /\ Lies(s)["runs"] = InRuns(s)
          /\ Lies(s)'["stalled"] = InBatches(stalled'[s]) /\ Lies(s)'["runs"] = InRuns(s)'
      BY LiesAre, LiesBecome
    <3>4. CASE InBatches(stalled'[s]) = InBatches(stalled[s]) \cup ToSet(b) /\ InRuns(s)' = InRuns(s)
      <4>1. Moved(Lies(s), Lies(s)', "outcome", "stalled", {h})
        BY <2>8, <3>1, <3>2, <3>3, <3>4 DEF Moved, Places
      <4> QED  BY <4>1
    <3>5. CASE InBatches(stalled'[s]) = InBatches(stalled[s]) /\ InRuns(s)' = InRuns(s) \cup ToSet(b)
      <4>1. Moved(Lies(s), Lies(s)', "outcome", "runs", {h})
        BY <2>8, <3>1, <3>2, <3>3, <3>5 DEF Moved, Places
      <4> QED  BY <4>1
    <3> QED  BY <2>12, <3>4, <3>5
  <2>14. Placed(s)' /\ WorkLater(s)' /\ Moves(s)'
    BY <1>1, <2>1, <2>13, HeldMove, Zenon DEF Grouping
  <2>15. Typed(s)'
    BY <1>1, <2>2, <2>5, <2>12 DEF Typed, BatchParts, RunParts
  <2>16. Once(s)'
    BY <1>1, <2>2, <2>4, <2>6, <2>12 DEF Once, BatchParts, RunParts
  <2>17. Keyed(s)'
    BY <1>1, <2>2, <2>12, SameDocs DEF Keyed, BatchParts, RunParts
  <2>18. Told(s)'
    BY <1>1, <2>1, <2>2, <2>12, SameDocs DEF Told, BatchParts, RunParts, Ended
  <2>19. Fifo(s)'
    BY <1>1, <2>2, <2>14, SameDocs DEF Fifo
  <2>20. Phased(s)' /\ Sane(s)'
    BY <1>1, <2>1, <2>2 DEF Phased, Sane, Ended, Grouping
  <2> QED  BY <2>14, <2>15, <2>16, <2>17, <2>18, <2>19, <2>20 DEF Kept
<1> QED  BY <1>2, <1>3

-----------------------------------------------------------------------------
(* Retries, and the ends of the loop *)

(* A stalled batch starts, or waits again behind the others. *)
LEMMA RetryKept ==
    ASSUME Maps, NEW s \in Streams, Kept(s), Retry(s)
    PROVE  Kept(s)'
<1> DEFINE b == Head(stalled[s])
           left == Tail(stalled[s])
<1>1. /\ eng[s] = "retry" /\ eng'[s] = eng[s] /\ docs'[s] = docs[s] /\ reader'[s] = reader[s] /\ out'[s] = out[s]
      /\ rows'[s] = rows[s] /\ outcome'[s] = outcome[s]
      /\ dead'[s] = dead[s] /\ work'[s] = work[s] /\ pending'[s] = pending[s] /\ buffer'[s] = buffer[s]
      /\ round'[s] = round[s] /\ next'[s] = next[s] /\ conn'[s] = conn[s]
      /\ how'[s] = how[s] /\ expired'[s] = expired[s] /\ inputEnded'[s] = inputEnded[s]
      /\ retries[s] > 0 /\ retries'[s] = retries[s] - 1
  BY DEF Retry, Local, client, told, called, Maps
<1>2. Respawn(s, b, left, timer[s])
  BY DEF Retry
<1>3. /\ Typed(s) /\ Placed(s) /\ Once(s) /\ Keyed(s) /\ Told(s) /\ Fifo(s) /\ Phased(s) /\ Sane(s)
  BY DEF Kept
<1>4. retries[s] \in Nat /\ retries[s] <= Len(stalled[s])
  BY <1>1, <1>3 DEF Phased
<1>5. BatchParts(s) /\ stalled[s] \in Seq(Seq(Nat)) /\ Batches(stalled[s]) /\ \A i \in DOMAIN stalled[s] : OneKey(s, stalled[s][i])
  BY KeptBatches DEF BatchParts
<1>6. stalled[s] # <<>>
  <2>1. Len(<<>>) = 0
    OBVIOUS
  <2>2. Len(stalled[s]) > 0
    <3>1. Len(stalled[s]) \in Nat
      BY <1>5, LenProperties
    <3> QED  BY <1>1, <1>4, <3>1
  <2> QED  BY <2>1, <2>2
<1>7. /\ b = stalled[s][1] /\ 1 \in DOMAIN stalled[s] /\ left \in Seq(Seq(Nat))
      /\ \A i \in DOMAIN left : i \in Nat /\ i > 0 /\ i + 1 \in DOMAIN stalled[s] /\ left[i] = stalled[s][i + 1]
      /\ Len(stalled[s]) \in Nat /\ Len(left) = Len(stalled[s]) - 1
  BY <1>5, <1>6, TailOf
<1>8. /\ b \in Seq(Nat) /\ b # <<>> /\ IsInjective(b) /\ Batches(left)
      /\ InBatches(stalled[s]) = ToSet(b) \cup InBatches(left) /\ ToSet(b) \cap InBatches(left) = {}
  BY <1>5, <1>6, BatchesTail
<1>9. Stashed(s, b, left) \/ Started(s, b, left)
  BY <1>2, TakeDoes
<1> HIDE DEF b, left
<1>10. OneKey(s, b) /\ \A i \in DOMAIN left : OneKey(s, left[i])
  BY <1>5, <1>7
<1>11. /\ Lies(s)["stalled"] = InBatches(stalled[s]) /\ Lies(s)["runs"] = InRuns(s)
       /\ Lies(s)'["stalled"] = InBatches(stalled'[s]) /\ Lies(s)'["runs"] = InRuns(s)'
  BY LiesAre, LiesBecome
<1>12. ToSet(b) \cap InRuns(s) = {}
  <2>1. Lies(s)["stalled"] \cap Lies(s)["runs"] = {}
    BY <1>3 DEF Placed, Disjoint, Places
  <2> QED  BY <1>8, <1>11, <2>1
<1>13. /\ BatchParts(s)'
       /\ Len(left) \in Nat /\ Len(stalled'[s]) \in Nat /\ Len(left) <= Len(stalled'[s])
       /\ \/ InBatches(stalled'[s]) = InBatches(left) \cup ToSet(b) /\ InRuns(s)' = InRuns(s)
          \/ InBatches(stalled'[s]) = InBatches(left) /\ InRuns(s)' = InRuns(s) \cup ToSet(b)
  <2>1. docs'[s] = docs[s] /\ dead'[s] = dead[s] /\ BatchParts(s)
    BY <1>1, <1>5
  <2>2. b \in Seq(Nat) /\ left \in Seq(Seq(Nat)) /\ Batches(left) /\ b # <<>> /\ IsInjective(b) /\ ToSet(b) \cap InBatches(left) = {}
    BY <1>7, <1>8
  <2> QED  BY ONLY <1>9, <1>10, <1>12, <2>1, <2>2, TakeParts
<1>14. Placed(s)' /\ WorkLater(s)' /\ Moves(s)'
  <2>1. /\ Lies(s)'["work"] = Lies(s)["work"] /\ Lies(s)'["pending"] = Lies(s)["pending"]
        /\ Lies(s)'["groups"] = Lies(s)["groups"] /\ Lies(s)'["leftover"] = Lies(s)["leftover"]
        /\ Lies(s)'["rows"] = Lies(s)["rows"] /\ Lies(s)'["buffer"] = Lies(s)["buffer"]
        /\ Lies(s)'["out"] = Lies(s)["out"] /\ Lies(s)'["outcome"] = Lies(s)["outcome"]
    BY <1>1 DEF Lies
  <2>2. CASE InBatches(stalled'[s]) = InBatches(left) \cup ToSet(b) /\ InRuns(s)' = InRuns(s)
    <3>1. Lies(s)'["stalled"] = Lies(s)["stalled"] /\ Lies(s)'["runs"] = Lies(s)["runs"]
      BY <1>8, <1>11, <2>2
    <3>2. \A c \in Places : Lies(s)'[c] = Lies(s)[c]
      BY <2>1, <3>1 DEF Places
    <3>3. Given(s)' = Given(s)
      BY <1>1 DEF Given
    <3>4. Dispatched(s)' = Dispatched(s) /\ Rest(s)' = Rest(s)
      <4>1. {d \in Lies(s)'["rows"] \cup Lies(s)'["buffer"] : Fate(s, d) # "bad"}
                = {d \in Lies(s)["rows"] \cup Lies(s)["buffer"] : Fate(s, d) # "bad"}
        BY <2>1
      <4>2. docs'[s] = docs[s]
        BY <1>1
      <4>3. Dispatched(s)' = Dispatched(s)
        BY <2>1, <3>1, <4>1, <4>2, PermitsByPlace, PermitsBecome
      <4>4. Rest(s)' = Rest(s)
        BY <2>1, <4>2, PermitsByPlace, PermitsBecome
      <4> QED  BY <4>3, <4>4
    <3>5. Placed(s)'
      BY <1>1, <1>3, <3>2, <3>3, PlacedStill
    <3>6. WorkLater(s)'
      BY <1>1, <1>3, <3>4, WorkStays DEF Fifo
    <3>7. Moves(s)'
      BY <1>1, <3>4, MovesOn, Zenon DEF Grouping
    <3> QED  BY <3>5, <3>6, <3>7
  <2>3. CASE InBatches(stalled'[s]) = InBatches(left) /\ InRuns(s)' = InRuns(s) \cup ToSet(b)
    <3>1. Lies(s)'["stalled"] = Lies(s)["stalled"] \ ToSet(b) /\ ToSet(b) \subseteq Lies(s)["stalled"]
          /\ Lies(s)'["runs"] = Lies(s)["runs"] \cup ToSet(b)
      BY <1>8, <1>11, <2>3
    <3>2. Moved(Lies(s), Lies(s)', "stalled", "runs", ToSet(b))
      BY <2>1, <3>1 DEF Moved, Places
    <3> QED  BY <1>1, <3>2, HeldMove, Zenon DEF Grouping
  <2> QED  BY <1>13, <2>2, <2>3
<1>15. Typed(s)'
  BY <1>1, <1>3, <1>13 DEF Typed, BatchParts, RunParts
<1>16. Once(s)'
  BY <1>1, <1>3, <1>13 DEF Once, BatchParts, RunParts
<1>17. Keyed(s)'
  BY <1>1, <1>3, <1>13, SameDocs DEF Keyed, BatchParts, RunParts
<1>18. Told(s)'
  BY <1>1, <1>3, <1>13, SameDocs DEF Told, BatchParts, RunParts, Ended
<1>19. Fifo(s)'
  BY <1>1, <1>3, <1>14, SameDocs DEF Fifo
<1>20. retries'[s] \in Nat /\ retries'[s] <= Len(stalled'[s])
  BY <1>1, <1>4, <1>7, <1>13
<1>21. Phased(s)' /\ Sane(s)'
  BY <1>1, <1>3, <1>20 DEF Phased, Sane, Ended, Grouping
<1> QED  BY <1>14, <1>15, <1>16, <1>17, <1>18, <1>19, <1>21 DEF Kept

(* The steps that go on or end the call. *)
LEMMA CrossroadsKept ==
    ASSUME Maps, NEW s \in Streams, Kept(s),
           Check(s) \/ DeliverFailed(s) \/ SendStatus(s) \/ SendFails(s) \/ BranchClosed(s) \/ BranchDeadline(s)
               \/ (Top(s) /\ expired[s])
    PROVE  Kept(s)'
<1> USE DEF Grouping
<1>1. CASE (Top(s) /\ expired[s]) \/ BranchDeadline(s)
  <2>1. AbortDeadline(s) /\ expired[s] /\ eng[s] \in {"top", "select"} /\ runs' = runs
    BY <1>1 DEF Top, BranchDeadline
  <2> QED  BY <2>1, AbortKept
<1>2. CASE SendStatus(s) \/ SendFails(s) \/ BranchClosed(s)
  <2>1. PICK status \in {"clean", "deadline", "abort"} : End(s, status)
    BY <1>2 DEF SendStatus, SendFails, BranchClosed
  <2>2. eng[s] \in {"abort", "deadline", "answer", "select"}
    BY <1>2 DEF SendStatus, SendFails, BranchClosed
  <2> QED  BY <2>1, <2>2, EndKept, Zenon
<1>3. CASE Check(s) \/ DeliverFailed(s)
  <2>1. eng[s] \in {"check", "deliver"}
    BY <1>3 DEF Check, DeliverFailed
  <2>2. CASE End(s, "clean")
    BY <2>1, <2>2, EndKept, Zenon
  <2>3. CASE ~End(s, "clean")
    <3>1. PICK p \in {"top", "split"} : Goto(s, p) /\ (eng[s] = "deliver" => p = "split")
      BY <1>3, <2>3 DEF Check, DeliverFailed
    <3>2. UNCHANGED <<queues, runs, idle>> /\ Local
      BY <1>3, <2>3 DEF Check, DeliverFailed
    <3>3. /\ client' = client /\ how'[s] = how[s] /\ called' = called /\ SameQueues(s) /\ next'[s] = next[s]
          /\ dead'[s] = dead[s] /\ expired'[s] = expired[s] /\ inputEnded'[s] = inputEnded[s]
      BY <3>2 DEF Local, told, called, queues, SameQueues, SameEngine
    <3> QED  BY <2>1, <3>1, <3>3, GotoKept, Zenon
  <2> QED  BY <2>2, <2>3
<1> QED  BY <1>1, <1>2, <1>3

-----------------------------------------------------------------------------
(* dispatch *)

(* dispatch: what was left over is pending again. *)
LEMMA DispatchEndsKept ==
    ASSUME Maps, NEW s \in Streams, Kept(s), DispatchEnds(s)
    PROVE  Kept(s)'
<1> USE DEF Grouping
<1>1. /\ eng[s] \in Grouping /\ eng'[s] \in {"dispatch", "check"} /\ docs'[s] = docs[s] /\ reader'[s] = reader[s]
      /\ out'[s] = out[s] /\ rows'[s] = rows[s] /\ outcome'[s] = outcome[s] /\ stalled'[s] = stalled[s] /\ runs'[s] = runs[s]
      /\ dead'[s] = dead[s] /\ work'[s] = work[s] /\ buffer'[s] = buffer[s] /\ next'[s] = next[s] /\ conn'[s] = conn[s]
      /\ how'[s] = how[s] /\ expired'[s] = expired[s] /\ inputEnded'[s] = inputEnded[s] /\ retries'[s] = retries[s]
      /\ pending'[s] = round[s].leftover /\ round'[s] = NoRound /\ round[s].groups = <<>>
  BY Zenon DEF DispatchEnds, AfterDispatch, Goto, Local, client, told, called, Maps
<1>2. /\ Typed(s) /\ Placed(s) /\ Once(s) /\ Keyed(s) /\ Told(s) /\ Fifo(s) /\ Phased(s) /\ Sane(s)
  BY DEF Kept
<1>3. pending[s] = <<>> /\ round[s].leftover \in Seq(Nat)
  BY <1>1, <1>2, Zenon DEF Phased, Typed
<1>4. NoRound.groups = <<>> /\ NoRound.leftover = <<>> /\ NoRound \in [groups : Seq(Seq(Nat)), share : Nat, leftover : Seq(Nat)]
  BY DEF NoRound
<1>5. InRuns(s)' = InRuns(s)
  BY <1>1, Zenon DEF InRuns
<1>6. /\ Lies(s)'["work"] = Lies(s)["work"] /\ Lies(s)'["groups"] = Lies(s)["groups"]
      /\ Lies(s)'["stalled"] = Lies(s)["stalled"] /\ Lies(s)'["runs"] = Lies(s)["runs"]
      /\ Lies(s)'["rows"] = Lies(s)["rows"] /\ Lies(s)'["buffer"] = Lies(s)["buffer"]
      /\ Lies(s)'["out"] = Lies(s)["out"] /\ Lies(s)'["outcome"] = Lies(s)["outcome"]
  BY <1>1, <1>4, <1>5, Zenon DEF Lies
<1>7. /\ Lies(s)["pending"] = {} /\ Lies(s)'["pending"] = Lies(s)["leftover"] /\ Lies(s)'["leftover"] = {}
  <2>1. /\ Lies(s)["pending"] = ToSet(pending[s]) /\ Lies(s)'["pending"] = ToSet(pending'[s])
        /\ Lies(s)["leftover"] = ToSet(round[s].leftover) /\ Lies(s)'["leftover"] = ToSet(round'[s].leftover)
    BY LiesAre, LiesBecome
  <2> QED  BY <1>1, <1>3, <1>4, <2>1, EmptyBatches, Zenon
<1>8. Moved(Lies(s), Lies(s)', "leftover", "pending", Lies(s)["leftover"])
  BY <1>6, <1>7 DEF Moved, Places
<1>9. Placed(s)'
  <2>1. Given(s)' = Given(s) /\ "leftover" \in Places /\ "pending" \in Places
    BY <1>1, Zenon DEF Given, Places
  <2> QED  BY <1>1, <1>2, <1>8, <2>1, PlacedByMove, Zenon
<1>10. Dispatched(s)' = Dispatched(s) /\ Rest(s)' = Rest(s)
  <2>1. {d \in Lies(s)'["rows"] \cup Lies(s)'["buffer"] : Fate(s, d) # "bad"}
            = {d \in Lies(s)["rows"] \cup Lies(s)["buffer"] : Fate(s, d) # "bad"}
    BY <1>6
  <2>2. docs'[s] = docs[s]
    BY <1>1, Zenon
  <2>3. Dispatched(s)' = Dispatched(s)
    BY <1>6, <2>1, <2>2, PermitsByPlace, PermitsBecome
  <2>4. Rest(s)' = Lies(s)'["pending"] \cup Lies(s)'["groups"] \cup Lies(s)'["leftover"]
    BY <2>2, PermitsBecome
  <2>5. Rest(s) = Lies(s)["pending"] \cup Lies(s)["groups"] \cup Lies(s)["leftover"]
    BY PermitsByPlace
  <2>6. Rest(s)' = Rest(s)
    BY <1>6, <1>7, <2>4, <2>5
  <2> QED  BY <2>3, <2>6
<1>11. Typed(s)'
  BY <1>1, <1>2, <1>3, <1>4, Zenon DEF Typed
<1>12. IsInjective(<<>>) /\ Batches(<<>>) /\ DOMAIN <<>> = {}
  BY DEF IsInjective, Batches
<1>13. Once(s)'
  BY <1>1, <1>2, <1>4, <1>12, Zenon DEF Once
<1>14. Keyed(s)'
  <2>1. DOMAIN round'[s].groups = {}
    BY <1>1, <1>4, <1>12, Zenon
  <2>2. (\A b \in DOMAIN stalled[s] : OneKey(s, stalled[s][b]))'
    BY <1>1, <1>2, SameDocs, Zenon DEF Keyed
  <2>3. (\A r \in runs[s] : OneKey(s, r.docs) /\ r.session[1] = LoadFor(s, r.docs))'
    BY <1>1, <1>2, SameDocs, Zenon DEF Keyed
  <2> QED  BY <2>1, <2>2, <2>3 DEF Keyed
<1>15. Told(s)'
  <2>1. (\A a \in ToSet(rows[s]) \cup buffer[s] \cup ToSet(out[s]) : a.ok = (Fate(s, a.doc) = "ok"))'
    <3>1. \A a \in ToSet(rows[s]) \cup buffer[s] \cup ToSet(out[s]) : a.ok = (Fate(s, a.doc) = "ok")
      BY <1>2 DEF Told
    <3>2. \A d : Fate(s, d)' = Fate(s, d)
      BY <1>1, SameDocs, Zenon
    <3>3. ToSet(rows'[s]) \cup buffer'[s] \cup ToSet(out'[s]) = ToSet(rows[s]) \cup buffer[s] \cup ToSet(out[s])
      BY <1>1, Zenon
    <3>4. \A a \in ToSet(rows'[s]) \cup buffer'[s] \cup ToSet(out'[s]) : a.ok = (Fate(s, a.doc)' = "ok")
      BY ONLY <3>1, <3>2, <3>3
    <3> QED  BY ONLY <3>4
  <2>2. (\A r \in runs[s] : r.phase = "done" =>
           (r.ok => AllOk(s, r.docs)) /\ (~r.ok => dead[s] \/ ~AllOk(s, r.docs)))'
    BY <1>1, <1>2, SameDocs, Zenon DEF Told
  <2>3. (eng[s] # "deliver")' /\ (~Ended(s) => next[s] = Len(out[s]) + 1)'
    BY <1>1, <1>2, Zenon DEF Told, Ended
  <2> QED  BY <2>1, <2>2, <2>3 DEF Told
<1>16. Fifo(s)'
  <2>1. WorkLater(s)'
    BY <1>1, <1>2, <1>10, WorkStays, Zenon DEF Fifo
  <2>2. KeysRise(s, pending[s])'
    BY <1>1, <1>2, SameDocs, Zenon DEF Fifo
  <2>3. KeysRise(s, round[s].leftover)'
    BY <1>1, <1>4, <1>12, Zenon DEF KeysRise
  <2>4. DOMAIN round'[s].groups = {}
    BY <1>1, <1>4, <1>12, Zenon
  <2> QED  BY <2>1, <2>2, <2>3, <2>4 DEF Fifo
<1>17. Moves(s)'
  BY <1>1, <1>10, MovesOn, Zenon
<1>18. Phased(s)' /\ Sane(s)'
  BY <1>1, <1>2, Zenon DEF Phased, Sane, Ended
<1> QED  BY <1>9, <1>11, <1>13, <1>14, <1>15, <1>16, <1>17, <1>18 DEF Kept

(* The group of a key: its documents, in their order. *)
LEMMA GroupIs ==
    ASSUME NEW s, pending[s] \in Seq(Nat), IsInjective(pending[s]), KeysRise(s, pending[s]), NEW d \in ToSet(pending[s])
    PROVE  LET g == Group(s, KeyOf(s, d)) IN
           /\ g \in Seq(Nat) /\ g # <<>> /\ IsInjective(g) /\ Rises(g)
           /\ ToSet(g) = {e \in ToSet(pending[s]) : KeyOf(s, e) = KeyOf(s, d)}
           /\ Head(g) \in ToSet(g)
<1> DEFINE q == pending[s]
           S == {e \in ToSet(pending[s]) : KeyOf(s, e) = KeyOf(s, d)}
           g == Keep(q, S)
<1>1. Group(s, KeyOf(s, d)) = g
  BY DEF Group
<1>2. /\ g \in Seq(Nat) /\ ToSet(g) = ToSet(q) \cap S /\ IsInjective(g)
      /\ \A i, j \in DOMAIN g : i < j => \E k, l \in DOMAIN q : k < l /\ g[i] = q[k] /\ g[j] = q[l]
  <2>1. ASSUME NEW p \in Seq(Nat), NEW T, IsInjective(p)
        PROVE  /\ Keep(p, T) \in Seq(Nat) /\ ToSet(Keep(p, T)) = ToSet(p) \cap T /\ IsInjective(Keep(p, T))
               /\ \A i, j \in DOMAIN Keep(p, T) : i < j =>
                      \E k, l \in DOMAIN p : k < l /\ Keep(p, T)[i] = p[k] /\ Keep(p, T)[j] = p[l]
    BY <2>1, KeepIsKept
  <2> HIDE DEF S
  <2>2. q \in Seq(Nat) /\ IsInjective(q)
    OBVIOUS
  <2> HIDE DEF q
  <2> QED  BY <2>1, <2>2 DEF g
<1>3. ToSet(q) \cap S = S /\ d \in S
  OBVIOUS
<1>4. \A e \in S : KeyOf(s, e) = KeyOf(s, d)
  OBVIOUS
<1>5. \A k, l \in DOMAIN q : k < l /\ KeyOf(s, q[k]) = KeyOf(s, q[l]) => q[k] < q[l]
  BY DEF KeysRise
<1> HIDE DEF g, S, q
<1>6. ToSet(g) = S
  BY <1>2, <1>3
<1>7. \A i \in DOMAIN g : g[i] \in S
  BY <1>6 DEF ToSet
<1>8. Rises(g)
  <2>1. SUFFICES ASSUME NEW i \in DOMAIN g, NEW j \in DOMAIN g, i < j PROVE g[i] < g[j]
    BY DEF Rises
  <2>2. PICK k \in DOMAIN q, l \in DOMAIN q : k < l /\ g[i] = q[k] /\ g[j] = q[l]
    BY <1>2, <2>1
  <2>3. KeyOf(s, g[i]) = KeyOf(s, g[j])
    BY <1>4, <1>7
  <2> QED  BY <1>5, <2>2, <2>3
<1>9. g # <<>>
  BY <1>3, <1>6, EmptyBatches
<1>10. Head(g) \in ToSet(g)
  BY <1>2, <1>9, SetOfTail
<1> QED  BY <1>1, <1>2, <1>6, <1>8, <1>9, <1>10 DEF S

(* The groups of a round: each document once, a key in one group, earlier groups first. *)
LEMMA GroupsAre ==
    ASSUME NEW s, pending[s] \in Seq(Nat), IsInjective(pending[s]), KeysRise(s, pending[s]), pending[s] # <<>>,
           IsFiniteSet(ToSet(pending[s]))
    PROVE  LET gs == Groups(s) IN
           /\ gs \in Seq(Seq(Nat)) /\ Len(gs) \in Nat /\ Len(gs) > 0
           /\ Batches(gs) /\ InBatches(gs) = ToSet(pending[s])
           /\ \A b \in DOMAIN gs : OneKey(s, gs[b]) /\ Rises(gs[b])
           /\ \A b, c \in DOMAIN gs : b # c => OtherKeys(s, gs[b], gs[c])
           /\ \A b, c \in DOMAIN gs : b < c => Head(gs[b]) < Head(gs[c])
<1> DEFINE D == ToSet(pending[s])
           G(d) == Group(s, KeyOf(s, d))
           H == Heads(s)
           c == Cardinality(H)
           gs == Groups(s)
<1>1. \A d \in D : /\ G(d) \in Seq(Nat) /\ G(d) # <<>> /\ IsInjective(G(d)) /\ Rises(G(d))
                   /\ ToSet(G(d)) = {e \in D : KeyOf(s, e) = KeyOf(s, d)}
                   /\ Head(G(d)) \in ToSet(G(d))
  BY GroupIs
<1>2. \A d \in D : Head(G(d)) \in D /\ KeyOf(s, Head(G(d))) = KeyOf(s, d)
  BY <1>1
<1>3. H = {Head(G(d)) : d \in D}
  BY DEF Heads
<1>4. \A h \in H : h \in D /\ Head(G(h)) = h
  <2>1. SUFFICES ASSUME NEW h \in H PROVE h \in D /\ Head(G(h)) = h
    OBVIOUS
  <2>2. PICK d \in D : h = Head(G(d))
    BY <1>3
  <2>3. h \in D /\ KeyOf(s, h) = KeyOf(s, d)
    BY <1>2, <2>2
  <2> QED  BY <2>2, <2>3
<1>5. D \subseteq Nat
  <2>1. \A i \in DOMAIN pending[s] : pending[s][i] \in Nat
    OBVIOUS
  <2> QED  BY <2>1 DEF ToSet
<1>6. H \in SUBSET Nat /\ IsFiniteSet(H)
  <2>1. H \subseteq D
    BY <1>4
  <2> QED  BY <1>5, <2>1, FS_Subset
<1>7. /\ c \in Nat
      /\ \A n \in 1 .. c : Nth(H, n) \in H
      /\ \A i \in H : \E n \in 1 .. c : Nth(H, n) = i
      /\ \A m, n \in 1 .. c : m < n => Nth(H, m) < Nth(H, n)
  BY <1>6, NthIsEach
<1>8. gs = [n \in 1 .. c |-> G(Nth(H, n))]
  BY DEF Groups
<1>9. D # {}
  <2>1. Head(pending[s]) \in D
    BY SetOfTail
  <2> QED  BY <2>1
<1> DEFINE N(n) == Nth(H, n)
<1> HIDE DEF D, G, H, N
<1>10. DOMAIN gs = 1 .. c /\ \A n \in 1 .. c : gs[n] = G(N(n)) /\ N(n) \in H /\ N(n) \in D
  BY <1>4, <1>7, <1>8 DEF N
<1>11. gs \in Seq(Seq(Nat)) /\ Len(gs) = c
  <2>1. gs \in [1 .. c -> Seq(Nat)]
    BY <1>1, <1>7, <1>8, <1>10 DEF N
  <2> QED  BY <1>7, <2>1
<1> HIDE DEF gs, c
<1>12. c > 0
  <2>1. PICK d : d \in D
    BY <1>9
  <2>2. Head(G(d)) \in H
    BY <1>3, <2>1
  <2>3. \E n \in 1 .. c : TRUE
    BY <1>7, <2>2
  <2> QED  BY <1>7, <2>3
<1>13. \A n \in 1 .. c : Head(gs[n]) = N(n)
  BY <1>4, <1>10
<1>14. \A m, n \in 1 .. c : m # n => N(m) # N(n)
  <2>1. SUFFICES ASSUME NEW m \in 1 .. c, NEW n \in 1 .. c, m # n PROVE N(m) # N(n)
    OBVIOUS
  <2>2. N(m) \in Nat /\ N(n) \in Nat
    BY <1>6, <1>7 DEF N
  <2>3. \A i, j \in 1 .. c : i < j => N(i) < N(j)
    BY <1>7 DEF N
  <2>4. m < n \/ n < m
    BY <1>7, <2>1
  <2> QED  BY <2>2, <2>3, <2>4
<1>15. \A n \in 1 .. c : \A e \in ToSet(gs[n]) : e \in D /\ KeyOf(s, e) = KeyOf(s, N(n))
  BY <1>1, <1>10
<1>16. \A m, n \in 1 .. c : m # n => KeyOf(s, N(m)) # KeyOf(s, N(n))
  <2>1. SUFFICES ASSUME NEW m \in 1 .. c, NEW n \in 1 .. c, KeyOf(s, N(m)) = KeyOf(s, N(n)) PROVE N(m) = N(n)
    BY <1>14
  <2>2. G(N(m)) = G(N(n))
    BY <2>1 DEF G
  <2> QED  BY <1>4, <1>10, <2>2
<1>17. Batches(gs)
  <2>1. \A b \in DOMAIN gs : gs[b] # <<>> /\ IsInjective(gs[b])
    BY <1>1, <1>10
  <2>2. \A a, b \in DOMAIN gs : a # b => ToSet(gs[a]) \cap ToSet(gs[b]) = {}
    BY <1>10, <1>15, <1>16
  <2> QED  BY <2>1, <2>2 DEF Batches
<1>18. InBatches(gs) = D
  <2>1. InBatches(gs) \subseteq D
    BY <1>10, <1>15, InBatchesAre
  <2>2. ASSUME NEW d \in D PROVE d \in InBatches(gs)
    <3>1. Head(G(d)) \in H /\ KeyOf(s, Head(G(d))) = KeyOf(s, d)
      BY <1>2, <1>3
    <3>2. PICK n \in 1 .. c : N(n) = Head(G(d))
      BY <1>7, <3>1 DEF N
    <3>3. gs[n] = G(d)
      BY <1>10, <3>1, <3>2 DEF G
    <3>4. d \in ToSet(gs[n])
      BY <1>1, <3>3
    <3> QED  BY <1>10, <3>4, InBatchesAre
  <2> QED  BY <2>1, <2>2
<1>19. \A b \in DOMAIN gs : \A i \in DOMAIN gs[b] : gs[b][i] \in ToSet(gs[b])
  BY DEF ToSet
<1>20. \A b \in DOMAIN gs : OneKey(s, gs[b]) /\ Rises(gs[b])
  <2>1. \A b \in DOMAIN gs : OneKey(s, gs[b])
    BY <1>10, <1>15, <1>19 DEF OneKey
  <2>2. \A b \in DOMAIN gs : Rises(gs[b])
    BY <1>1, <1>10
  <2> QED  BY <2>1, <2>2
<1>21. \A a, b \in DOMAIN gs : a # b => OtherKeys(s, gs[a], gs[b])
  BY <1>10, <1>15, <1>16, <1>19 DEF OtherKeys
<1>22. \A a, b \in DOMAIN gs : a < b => Head(gs[a]) < Head(gs[b])
  BY <1>7, <1>10, <1>13 DEF N
<1> QED  BY <1>7, <1>11, <1>12, <1>17, <1>18, <1>20, <1>21, <1>22 DEF D, gs

(* dispatch: what is pending becomes the groups of a round. *)
LEMMA DispatchGroupsKept ==
    ASSUME Maps, NEW s \in Streams, Kept(s), DispatchGroups(s)
    PROVE  Kept(s)'
<1> USE DEF Grouping
<1> DEFINE gs == Groups(s)
<1>1. /\ eng[s] \in {"forced", "dispatch"} /\ eng'[s] \in Grouping /\ docs'[s] = docs[s] /\ reader'[s] = reader[s]
      /\ out'[s] = out[s] /\ rows'[s] = rows[s] /\ outcome'[s] = outcome[s] /\ stalled'[s] = stalled[s] /\ runs'[s] = runs[s]
      /\ dead'[s] = dead[s] /\ work'[s] = work[s] /\ buffer'[s] = buffer[s] /\ next'[s] = next[s] /\ conn'[s] = conn[s]
      /\ how'[s] = how[s] /\ expired'[s] = expired[s] /\ inputEnded'[s] = inputEnded[s] /\ retries'[s] = retries[s]
      /\ pending'[s] = <<>> /\ pending[s] # <<>> /\ Available(s) > 0
      /\ round'[s] = [groups |-> gs, leftover |-> <<>>,
                      share |-> IF Window \div Len(gs) = 0 THEN 1 ELSE Window \div Len(gs)]
  BY Zenon DEF DispatchGroups, Goto, Local, client, told, called, Maps
<1>2. /\ Typed(s) /\ Placed(s) /\ Once(s) /\ Keyed(s) /\ Told(s) /\ Fifo(s) /\ Phased(s) /\ Sane(s) /\ Moves(s)
  BY DEF Kept
<1>3. round[s] = NoRound /\ NoRound.groups = <<>> /\ NoRound.leftover = <<>>
  BY <1>1, <1>2, Zenon DEF Phased, NoRound
<1>4. pending[s] \in Seq(Nat) /\ IsInjective(pending[s]) /\ KeysRise(s, pending[s])
  BY <1>2 DEF Typed, Once, Fifo
<1>5. IsFiniteSet(ToSet(pending[s]))
  <2>1. Given(s) \in Nat
    BY KeptFacts
  <2>2. ToSet(pending[s]) \subseteq InSome(Lies(s))
    BY LiesWhere
  <2> QED  BY <1>2, <2>1, <2>2, GivenFinite
<1>6. /\ gs \in Seq(Seq(Nat)) /\ Len(gs) \in Nat /\ Len(gs) > 0
      /\ Batches(gs) /\ InBatches(gs) = ToSet(pending[s])
      /\ \A b \in DOMAIN gs : OneKey(s, gs[b]) /\ Rises(gs[b])
      /\ \A b, c \in DOMAIN gs : b # c => OtherKeys(s, gs[b], gs[c])
      /\ \A b, c \in DOMAIN gs : b < c => Head(gs[b]) < Head(gs[c])
  BY <1>1, <1>4, <1>5, GroupsAre, Zenon
<1> HIDE DEF gs
<1> DEFINE sh == IF Window \div Len(gs) = 0 THEN 1 ELSE Window \div Len(gs)
<1>7. sh \in Nat /\ sh > 0
  <2>1. Window \in Nat
    BY StreamAssumption
  <2>2. ASSUME NEW m \in Nat, NEW n \in Nat, n > 0 PROVE m \div n \in Nat
    BY ONLY <2>2, Z3T(20)
  <2>3. Window \div Len(gs) \in Nat
    BY <1>6, <2>1, <2>2
  <2> QED  BY <2>3
<1>8. /\ round'[s].groups = gs /\ round'[s].leftover = <<>> /\ round'[s].share = sh
      /\ round'[s] \in [groups : Seq(Seq(Nat)), share : Nat, leftover : Seq(Nat)]
  <2>1. <<>> \in Seq(Nat)
    OBVIOUS
  <2>2. round'[s] = [groups |-> gs, leftover |-> <<>>, share |-> sh]
    BY <1>1, Zenon
  <2> HIDE DEF sh
  <2> QED  BY <1>6, <1>7, <2>1, <2>2
<1> HIDE DEF sh
<1>9. InRuns(s)' = InRuns(s)
  BY <1>1, Zenon DEF InRuns
<1>10. /\ Lies(s)'["work"] = Lies(s)["work"]
       /\ Lies(s)'["stalled"] = Lies(s)["stalled"] /\ Lies(s)'["runs"] = Lies(s)["runs"]
       /\ Lies(s)'["rows"] = Lies(s)["rows"] /\ Lies(s)'["buffer"] = Lies(s)["buffer"]
       /\ Lies(s)'["out"] = Lies(s)["out"] /\ Lies(s)'["outcome"] = Lies(s)["outcome"]
  BY <1>1, <1>9, Zenon DEF Lies
<1>11. /\ Lies(s)["groups"] = {} /\ Lies(s)'["groups"] = Lies(s)["pending"] /\ Lies(s)'["pending"] = {}
       /\ Lies(s)["leftover"] = {} /\ Lies(s)'["leftover"] = {}
  <2>1. /\ Lies(s)["pending"] = ToSet(pending[s]) /\ Lies(s)'["pending"] = ToSet(pending'[s])
        /\ Lies(s)["groups"] = InBatches(round[s].groups) /\ Lies(s)'["groups"] = InBatches(round'[s].groups)
        /\ Lies(s)["leftover"] = ToSet(round[s].leftover) /\ Lies(s)'["leftover"] = ToSet(round'[s].leftover)
    BY LiesAre, LiesBecome
  <2>2. /\ InBatches(round[s].groups) = {} /\ ToSet(round[s].leftover) = {} /\ ToSet(round'[s].leftover) = {}
        /\ ToSet(pending'[s]) = {}
    BY <1>1, <1>3, <1>8, EmptyBatches, Zenon
  <2> QED  BY <1>6, <1>8, <2>1, <2>2
<1>12. Moved(Lies(s), Lies(s)', "pending", "groups", Lies(s)["pending"])
  BY <1>10, <1>11 DEF Moved, Places
<1>13. Placed(s)'
  <2>1. Given(s)' = Given(s) /\ "pending" \in Places /\ "groups" \in Places
    BY <1>1, Zenon DEF Given, Places
  <2> QED  BY <1>1, <1>2, <1>12, <2>1, PlacedByMove, Zenon
<1>14. Dispatched(s)' = Dispatched(s) /\ Rest(s)' = Rest(s)
  <2>1. {d \in Lies(s)'["rows"] \cup Lies(s)'["buffer"] : Fate(s, d) # "bad"}
            = {d \in Lies(s)["rows"] \cup Lies(s)["buffer"] : Fate(s, d) # "bad"}
    BY <1>10
  <2>2. docs'[s] = docs[s]
    BY <1>1, Zenon
  <2>3. Dispatched(s)' = Dispatched(s)
    BY <1>10, <2>1, <2>2, PermitsByPlace, PermitsBecome
  <2>4. Rest(s)' = Lies(s)'["pending"] \cup Lies(s)'["groups"] \cup Lies(s)'["leftover"]
    BY <2>2, PermitsBecome
  <2>5. Rest(s) = Lies(s)["pending"] \cup Lies(s)["groups"] \cup Lies(s)["leftover"]
    BY PermitsByPlace
  <2>6. Rest(s)' = Rest(s)
    BY <1>11, <2>4, <2>5
  <2> QED  BY <2>3, <2>6
<1>15. Typed(s)'
  <2>1. <<>> \in Seq(Nat)
    OBVIOUS
  <2>2. pending'[s] \in Seq(Nat)
    BY <1>1, <2>1, Zenon
  <2> QED  BY <1>1, <1>2, <1>8, <2>2, Zenon DEF Typed
<1>16. IsInjective(<<>>) /\ DOMAIN <<>> = {}
  BY DEF IsInjective
<1>17. Once(s)'
  BY <1>1, <1>2, <1>6, <1>8, <1>16, Zenon DEF Once
<1>18. /\ \A q : OneKey(s, q)' <=> OneKey(s, q)
       /\ \A p, q : OtherKeys(s, p, q)' <=> OtherKeys(s, p, q)
       /\ \A q : LoadFor(s, q)' = LoadFor(s, q)
       /\ \A d : Fate(s, d)' = Fate(s, d)
       /\ \A q : AllOk(s, q)' <=> AllOk(s, q)
  BY <1>1, SameDocs, Zenon
<1>19. Keyed(s)'
  <2>1. (\A b \in DOMAIN round[s].groups : OneKey(s, round[s].groups[b]))'
    BY <1>6, <1>8, <1>18
  <2>2. (\A b, c \in DOMAIN round[s].groups : b # c => OtherKeys(s, round[s].groups[b], round[s].groups[c]))'
    BY <1>6, <1>8, <1>18
  <2>3. (\A b \in DOMAIN round[s].groups : OtherKeys(s, round[s].leftover, round[s].groups[b]))'
    <3>1. \A q : OtherKeys(s, <<>>, q)
      BY <1>16 DEF OtherKeys
    <3> QED  BY <1>8, <1>18, <3>1
  <2>4. (\A b \in DOMAIN stalled[s] : OneKey(s, stalled[s][b]))'
    BY <1>1, <1>2, <1>18, Zenon DEF Keyed
  <2>5. (\A r \in runs[s] : OneKey(s, r.docs) /\ r.session[1] = LoadFor(s, r.docs))'
    BY <1>1, <1>2, <1>18, Zenon DEF Keyed
  <2> QED  BY <2>1, <2>2, <2>3, <2>4, <2>5 DEF Keyed
<1>20. Told(s)'
  <2>1. (\A a \in ToSet(rows[s]) \cup buffer[s] \cup ToSet(out[s]) : a.ok = (Fate(s, a.doc) = "ok"))'
    <3>1. \A a \in ToSet(rows[s]) \cup buffer[s] \cup ToSet(out[s]) : a.ok = (Fate(s, a.doc) = "ok")
      BY <1>2 DEF Told
    <3>2. ToSet(rows'[s]) \cup buffer'[s] \cup ToSet(out'[s]) = ToSet(rows[s]) \cup buffer[s] \cup ToSet(out[s])
      BY <1>1, Zenon
    <3>3. \A a \in ToSet(rows'[s]) \cup buffer'[s] \cup ToSet(out'[s]) : a.ok = (Fate(s, a.doc)' = "ok")
      BY ONLY <1>18, <3>1, <3>2
    <3> QED  BY ONLY <3>3
  <2>2. (\A r \in runs[s] : r.phase = "done" =>
           (r.ok => AllOk(s, r.docs)) /\ (~r.ok => dead[s] \/ ~AllOk(s, r.docs)))'
    BY <1>1, <1>2, <1>18, Zenon DEF Told
  <2>3. (eng[s] # "deliver")' /\ (~Ended(s) => next[s] = Len(out[s]) + 1)'
    BY <1>1, <1>2, Zenon DEF Told, Ended
  <2> QED  BY <2>1, <2>2, <2>3 DEF Told
<1>21. Fifo(s)'
  <2>1. WorkLater(s)'
    BY <1>1, <1>2, <1>14, WorkStays, Zenon DEF Fifo
  <2>2. KeysRise(s, pending[s])' /\ KeysRise(s, round[s].leftover)'
    BY <1>1, <1>8, <1>16, Zenon DEF KeysRise
  <2>3. \A b \in DOMAIN round'[s].groups : Rises(round'[s].groups[b])
    BY <1>6, <1>8
  <2>4. \A b, c \in DOMAIN round'[s].groups : b < c => Head(round'[s].groups[b]) < Head(round'[s].groups[c])
    BY <1>6, <1>8
  <2> QED  BY <2>1, <2>2, <2>3, <2>4 DEF Fifo
<1>22. Moves(s)'
  <2>1. Available(s)' = Available(s)
    BY <1>14 DEF Available
  <2>2. Cardinality(Dispatched(s)') <= Window
    BY <1>2, <1>14, Zenon DEF Moves
  <2> QED  BY <1>1, <1>8, <2>1, <2>2, Zenon DEF Moves
<1>23. Phased(s)' /\ Sane(s)'
  <2>1. Phased(s)'
    BY <1>1, <1>2, <1>7, <1>8, Zenon DEF Phased
  <2>2. Sane(s)'
    BY <1>1, <1>2, Zenon DEF Sane, Ended
  <2> QED  BY <2>1, <2>2
<1> QED  BY <1>13, <1>15, <1>17, <1>19, <1>20, <1>21, <1>22, <1>23 DEF Kept

(* A batch fits its group and the window, and takes a document when it can.  *)
LEMMA BatchSizeIs ==
    ASSUME NEW s, NEW g \in Seq(Nat), g # <<>>, round[s].share \in Nat, round[s].share > 0,
           Available(s) \in Nat
    PROVE  BatchSize(s, g) \in 0 .. Len(g) /\ BatchSize(s, g) <= Available(s)
           /\ (Available(s) > 0 => BatchSize(s, g) > 0)
<1> DEFINE a == Len(g)
           c == round[s].share
           d == Available(s)
           n == BatchSize(s, g)
<1>1. a \in Nat /\ a > 0
  BY EmptySeq, LenProperties
<1>2. BatchLimit \in Nat /\ BatchLimit > 0
  BY StreamAssumption
<1>3. c \in Nat /\ c > 0 /\ d \in Nat
  OBVIOUS
<1>4. ASSUME NEW x \in Nat, NEW y \in Nat, NEW z \in Nat, NEW w \in Nat
      PROVE  \E m \in {x, y, z, w} : \A k \in {x, y, z, w} : m <= k
  <2>1. CASE x <= y /\ x <= z /\ x <= w
    BY <2>1
  <2>2. CASE y <= x /\ y <= z /\ y <= w
    BY <2>2
  <2>3. CASE z <= x /\ z <= y /\ z <= w
    BY <2>3
  <2>4. CASE w <= x /\ w <= y /\ w <= z
    BY <2>4
  <2> QED  BY <2>1, <2>2, <2>3, <2>4
<1>5. n \in {a, BatchLimit, c, d} /\ \A k \in {a, BatchLimit, c, d} : n <= k
  <2>1. n = CHOOSE m \in {a, BatchLimit, c, d} : \A k \in {a, BatchLimit, c, d} : m <= k
    BY DEF BatchSize
  <2> HIDE DEF n, a, c, d
  <2>2. \E m \in {a, BatchLimit, c, d} : \A k \in {a, BatchLimit, c, d} : m <= k
    BY <1>1, <1>2, <1>3, <1>4
  <2> QED  BY <2>1, <2>2
<1> HIDE DEF n, a, c, d
<1>6. n \in 0 .. a /\ n <= d /\ (d > 0 => n > 0)
  BY <1>1, <1>2, <1>3, <1>5
<1> QED  BY <1>6 DEF n, a, d

(* A round after the first n documents of its first group were taken. *)
Cut(s, n) ==
    LET g == Head(round[s].groups) IN
    /\ round'[s].groups = Tail(round[s].groups)
    /\ round'[s].leftover = round[s].leftover \o SubSeq(g, n + 1, Len(g))
    /\ round'[s].share = round[s].share
    /\ round'[s] = [groups |-> round'[s].groups, share |-> round'[s].share, leftover |-> round'[s].leftover]
RoundParts(s) ==
    /\ round[s] \in [groups : Seq(Seq(Nat)), share : Nat, leftover : Seq(Nat)]
    /\ IsInjective(round[s].leftover) /\ Batches(round[s].groups)
    /\ \A b \in DOMAIN round[s].groups : OneKey(s, round[s].groups[b])
    /\ \A b, c \in DOMAIN round[s].groups : b # c => OtherKeys(s, round[s].groups[b], round[s].groups[c])
    /\ \A b \in DOMAIN round[s].groups : OtherKeys(s, round[s].leftover, round[s].groups[b])
    /\ KeysRise(s, round[s].leftover)
    /\ \A b \in DOMAIN round[s].groups : Rises(round[s].groups[b])
    /\ \A b, c \in DOMAIN round[s].groups : b < c => Head(round[s].groups[b]) < Head(round[s].groups[c])

(* Taking the first documents of the first group leaves a round as it should be. *)
LEMMA CutParts ==
    ASSUME NEW s, RoundParts(s), round[s].groups # <<>>, docs'[s] = docs[s],
           ToSet(round[s].leftover) \cap InBatches(round[s].groups) = {},
           NEW n \in 0 .. Len(Head(round[s].groups)), Cut(s, n)
    PROVE  LET g == Head(round[s].groups)
               p == SubSeq(g, 1, n)
               q == SubSeq(g, n + 1, Len(g))
           IN  /\ RoundParts(s)'
               /\ g \in Seq(Nat) /\ g # <<>>
               /\ p \in Seq(Nat) /\ Len(p) = n /\ IsInjective(p) /\ OneKey(s, p)
               /\ ToSet(p) \cap ToSet(q) = {} /\ ToSet(p) \cup ToSet(q) \subseteq InBatches(round[s].groups)
               /\ InBatches(round'[s].groups) = InBatches(round[s].groups) \ (ToSet(p) \cup ToSet(q))
               /\ ToSet(round'[s].leftover) = ToSet(round[s].leftover) \cup ToSet(q)
               /\ n > 0 => /\ Head(g) \in ToSet(p) /\ Head(g) \in Nat
                           /\ \A d \in InBatches(round'[s].groups) \cup ToSet(q) : Head(g) < d
<1> DEFINE gs == round[s].groups
           l == round[s].leftover
           g == Head(gs)
           t == Tail(gs)
           p == SubSeq(g, 1, n)
           q == SubSeq(g, n + 1, Len(g))
           m == l \o q
<1>1. /\ gs \in Seq(Seq(Nat)) /\ gs # <<>> /\ l \in Seq(Nat) /\ round[s].share \in Nat /\ IsInjective(l) /\ Batches(gs)
      /\ KeysRise(s, l) /\ ToSet(l) \cap InBatches(gs) = {}
  BY DEF RoundParts
<1>2. /\ \A b \in DOMAIN gs : OneKey(s, gs[b]) /\ Rises(gs[b]) /\ OtherKeys(s, l, gs[b])
      /\ \A b, c \in DOMAIN gs : b # c => OtherKeys(s, gs[b], gs[c])
      /\ \A b, c \in DOMAIN gs : b < c => Head(gs[b]) < Head(gs[c])
  BY DEF RoundParts
<1>3. /\ round'[s].groups = t /\ round'[s].leftover = m /\ round'[s].share = round[s].share
      /\ round'[s] = [groups |-> t, share |-> round[s].share, leftover |-> m]
  BY DEF Cut
<1> HIDE DEF gs, l
<1>4. /\ t \in Seq(Seq(Nat)) /\ g = gs[1] /\ 1 \in DOMAIN gs
      /\ \A i \in DOMAIN t : i \in Nat /\ i > 0 /\ i + 1 \in DOMAIN gs /\ t[i] = gs[i + 1]
  <2>1. \A z \in Seq(Seq(Nat)) : z # <<>> =>
          /\ Tail(z) \in Seq(Seq(Nat)) /\ Head(z) = z[1] /\ 1 \in DOMAIN z
          /\ \A i \in DOMAIN Tail(z) : i \in Nat /\ i > 0 /\ i + 1 \in DOMAIN z /\ Tail(z)[i] = z[i + 1]
    BY TailOf
  <2> QED  BY <1>1, <2>1
<1>5. /\ g \in Seq(Nat) /\ g # <<>> /\ IsInjective(g) /\ Batches(t)
      /\ InBatches(gs) = ToSet(g) \cup InBatches(t) /\ ToSet(g) \cap InBatches(t) = {}
  BY <1>1, BatchesTail
<1>6. n \in 0 .. Len(g)
  BY DEF gs
<1> HIDE DEF g, t
<1>7. /\ p \in Seq(Nat) /\ q \in Seq(Nat) /\ Len(p) = n /\ Len(q) = Len(g) - n
      /\ \A i \in 1 .. n : p[i] = g[i]
      /\ \A i \in 1 .. Len(g) - n : q[i] = g[n + i]
      /\ ToSet(g) = ToSet(p) \cup ToSet(q) /\ IsInjective(p) /\ IsInjective(q) /\ ToSet(p) \cap ToSet(q) = {}
  BY <1>5, <1>6, SetOfCut
<1> HIDE DEF p, q
<1>8. /\ DOMAIN g = 1 .. Len(g) /\ DOMAIN p = 1 .. n /\ DOMAIN q = 1 .. Len(g) - n /\ Len(g) \in Nat /\ n \in Nat
      /\ DOMAIN l = 1 .. Len(l) /\ Len(l) \in Nat
  BY <1>1, <1>5, <1>6, <1>7, LenProperties
<1>9. /\ \A i \in DOMAIN p : i \in DOMAIN g /\ p[i] = g[i]
      /\ \A i \in DOMAIN q : n + i \in DOMAIN g /\ q[i] = g[n + i]
      /\ \A i, j \in DOMAIN q : i < j => n + i < n + j
  BY <1>6, <1>7, <1>8
<1>10. OneKey(s, g) /\ Rises(g) /\ OtherKeys(s, l, g)
  BY <1>2, <1>4
<1>11. OneKey(s, p)
  BY <1>9, <1>10 DEF OneKey
<1>12. ToSet(l) \cap ToSet(q) = {} /\ ToSet(p) \cup ToSet(q) \subseteq InBatches(gs)
       /\ InBatches(t) = InBatches(gs) \ (ToSet(p) \cup ToSet(q))
  BY <1>1, <1>5, <1>7
<1>13. m \in Seq(Nat) /\ ToSet(m) = ToSet(l) \cup ToSet(q) /\ IsInjective(m)
  <2>1. m \in Seq(Nat)
    BY <1>1, <1>7, ConcatProperties
  <2> QED  BY <1>1, <1>7, <1>12, <2>1, SetOfConcat
<1>14. /\ DOMAIN m = 1 .. Len(l) + (Len(g) - n)
       /\ \A i \in DOMAIN m : \/ i \in DOMAIN l /\ m[i] = l[i]
                              \/ i - Len(l) \in DOMAIN q /\ m[i] = q[i - Len(l)]
  <2>1. /\ DOMAIN m = 1 .. Len(l) + Len(q)
        /\ \A i \in 1 .. Len(l) + Len(q) : m[i] = IF i <= Len(l) THEN l[i] ELSE q[i - Len(l)]
    <3>1. ASSUME NEW x \in Seq(Nat), NEW y \in Seq(Nat)
          PROVE  /\ DOMAIN (x \o y) = 1 .. Len(x) + Len(y)
                 /\ \A i \in 1 .. Len(x) + Len(y) : (x \o y)[i] = IF i <= Len(x) THEN x[i] ELSE y[i - Len(x)]
      BY ConcatProperties, LenProperties
    <3>2. l \in Seq(Nat) /\ q \in Seq(Nat)
      BY <1>1, <1>7
    <3> QED  BY ONLY <3>1, <3>2
  <2> HIDE DEF m
  <2> QED  BY <1>7, <1>8, <2>1, SMTT(30)
<1>15. \A i, j \in DOMAIN m : i < j => \/ i \in DOMAIN l /\ j \in DOMAIN l /\ m[i] = l[i] /\ m[j] = l[j]
                                       \/ i \in DOMAIN l /\ j - Len(l) \in DOMAIN q /\ m[i] = l[i] /\ m[j] = q[j - Len(l)]
                                       \/ /\ i - Len(l) \in DOMAIN q /\ j - Len(l) \in DOMAIN q
                                          /\ m[i] = q[i - Len(l)] /\ m[j] = q[j - Len(l)] /\ i - Len(l) < j - Len(l)
  <2> HIDE DEF m
  <2>1. ASSUME NEW i \in DOMAIN m, NEW j \in DOMAIN m, i < j
        PROVE  \/ i \in DOMAIN l /\ j \in DOMAIN l /\ m[i] = l[i] /\ m[j] = l[j]
               \/ i \in DOMAIN l /\ j - Len(l) \in DOMAIN q /\ m[i] = l[i] /\ m[j] = q[j - Len(l)]
               \/ /\ i - Len(l) \in DOMAIN q /\ j - Len(l) \in DOMAIN q
                  /\ m[i] = q[i - Len(l)] /\ m[j] = q[j - Len(l)] /\ i - Len(l) < j - Len(l)
    <3>1. i \in Nat /\ j \in Nat /\ Len(l) \in Nat
      BY <1>8, <1>14
    <3>2. i - Len(l) \in DOMAIN q => j \notin DOMAIN l
      BY <1>8, <2>1, <3>1
    <3>3. i - Len(l) < j - Len(l)
      BY <2>1, <3>1
    <3> QED  BY <1>14, <3>2, <3>3
  <2> QED  BY <2>1
<1> HIDE DEF m
<1>16. OtherKeys(s, l, q) /\ KeysRise(s, q)
  <2>1. OtherKeys(s, l, q)
    BY <1>9, <1>10 DEF OtherKeys
  <2>2. \A i, j \in DOMAIN q : i < j => q[i] < q[j]
    BY <1>9, <1>10 DEF Rises
  <2> QED  BY <2>1, <2>2 DEF KeysRise
<1>17. KeysRise(s, m)
  <2>1. SUFFICES ASSUME NEW i \in DOMAIN m, NEW j \in DOMAIN m, i < j, KeyOf(s, m[i]) = KeyOf(s, m[j]) PROVE m[i] < m[j]
    BY DEF KeysRise
  <2>2. CASE i \in DOMAIN l /\ j \in DOMAIN l /\ m[i] = l[i] /\ m[j] = l[j]
    BY <1>1, <2>1, <2>2 DEF KeysRise
  <2>3. CASE i \in DOMAIN l /\ j - Len(l) \in DOMAIN q /\ m[i] = l[i] /\ m[j] = q[j - Len(l)]
    BY <1>16, <2>1, <2>3 DEF OtherKeys
  <2>4. CASE /\ i - Len(l) \in DOMAIN q /\ j - Len(l) \in DOMAIN q
             /\ m[i] = q[i - Len(l)] /\ m[j] = q[j - Len(l)] /\ i - Len(l) < j - Len(l)
    BY <1>16, <2>1, <2>4 DEF KeysRise
  <2> QED  BY <1>15, <2>1, <2>2, <2>3, <2>4
<1>18. \A b, c \in DOMAIN t : (b # c => b + 1 # c + 1) /\ (b < c => b + 1 < c + 1) /\ 1 # c + 1 /\ 1 < c + 1
  <2>1. \A b \in DOMAIN t : b \in Nat /\ b > 0
    BY <1>4
  <2> QED  BY <2>1
<1>19. /\ \A b \in DOMAIN t : OneKey(s, t[b]) /\ Rises(t[b])
       /\ \A b, c \in DOMAIN t : b # c => OtherKeys(s, t[b], t[c])
       /\ \A b, c \in DOMAIN t : b < c => Head(t[b]) < Head(t[c])
       /\ \A b \in DOMAIN t : OtherKeys(s, l, t[b]) /\ OtherKeys(s, g, t[b]) /\ Head(g) < Head(t[b])
  BY <1>2, <1>4, <1>18
<1>20. \A b \in DOMAIN t : OtherKeys(s, m, t[b])
  <2>1. \A b \in DOMAIN t : OtherKeys(s, q, t[b])
    BY <1>9, <1>19 DEF OtherKeys
  <2> QED  BY <1>14, <1>19, <2>1 DEF OtherKeys
<1>21. RoundParts(s)'
  <2>1. /\ \A k : OneKey(s, k)' <=> OneKey(s, k)
        /\ \A j, k : OtherKeys(s, j, k)' <=> OtherKeys(s, j, k)
        /\ \A k : KeysRise(s, k)' <=> KeysRise(s, k)
    BY SameDocs
  <2>2. round'[s] \in [groups : Seq(Seq(Nat)), share : Nat, leftover : Seq(Nat)]
    BY <1>1, <1>3, <1>4, <1>13
  <2>3. (IsInjective(round[s].leftover) /\ Batches(round[s].groups) /\ KeysRise(s, round[s].leftover))'
    BY <1>3, <1>5, <1>13, <1>17, <2>1
  <2>4. (\A b \in DOMAIN round[s].groups : OneKey(s, round[s].groups[b]))'
    BY <1>3, <1>19, <2>1
  <2>5. (\A b, c \in DOMAIN round[s].groups : b # c => OtherKeys(s, round[s].groups[b], round[s].groups[c]))'
    BY <1>3, <1>19, <2>1
  <2>6. (\A b \in DOMAIN round[s].groups : OtherKeys(s, round[s].leftover, round[s].groups[b]))'
    BY <1>3, <1>20, <2>1
  <2>7. (\A b \in DOMAIN round[s].groups : Rises(round[s].groups[b]))'
    BY <1>3, <1>19
  <2>8. (\A b, c \in DOMAIN round[s].groups : b < c => Head(round[s].groups[b]) < Head(round[s].groups[c]))'
    BY <1>3, <1>19
  <2> QED  BY ONLY <2>2, <2>3, <2>4, <2>5, <2>6, <2>7, <2>8 DEF RoundParts
<1>22. ASSUME n > 0
       PROVE  /\ Head(g) \in ToSet(p) /\ Head(g) \in Nat
              /\ \A d \in InBatches(t) \cup ToSet(q) : Head(g) < d
  <2>1. 1 \in DOMAIN p /\ 1 \in DOMAIN g /\ p[1] = g[1]
    BY <1>6, <1>7, <1>8, <1>22
  <2>2. \A z \in Seq(Nat) : z # <<>> => Head(z) = z[1] /\ Head(z) \in Nat
    BY HeadTailProperties
  <2>3. Head(g) = g[1] /\ Head(g) \in Nat
    BY <1>5, <2>2
  <2>4. Head(g) \in ToSet(p)
    BY <2>1, <2>3 DEF ToSet
  <2>5. ASSUME NEW d \in ToSet(q) PROVE Head(g) < d
    <3>1. PICK i \in DOMAIN q : d = q[i]
      BY <2>5 DEF ToSet
    <3>2. n + i \in DOMAIN g /\ d = g[n + i] /\ 1 < n + i
      BY <1>8, <1>9, <1>22, <3>1
    <3> QED  BY <1>10, <2>1, <2>3, <3>2 DEF Rises
  <2>6. ASSUME NEW d \in InBatches(t) PROVE Head(g) < d
    <3>1. PICK b \in DOMAIN t : d \in ToSet(t[b])
      BY <2>6, InBatchesAre
    <3>2. t[b] \in Seq(Nat) /\ t[b] # <<>> /\ Rises(t[b]) /\ Head(g) < Head(t[b])
      <4>1. \A z \in Seq(Seq(Nat)) : \A i \in DOMAIN z : z[i] \in Seq(Nat)
        OBVIOUS
      <4>2. t[b] \in Seq(Nat)
        BY <1>4, <4>1
      <4>3. t[b] # <<>>
        BY <1>5 DEF Batches
      <4> QED  BY <1>19, <4>2, <4>3
    <3>3. Head(t[b]) = t[b][1] /\ Head(t[b]) \in Nat
      BY <2>2, <3>2
    <3>4. PICK i \in DOMAIN t[b] : d = t[b][i]
      BY <3>1 DEF ToSet
    <3>5. i \in Nat /\ d \in Nat /\ (i = 1 \/ 1 < i) /\ 1 \in DOMAIN t[b]
      <4>1. \A z \in Seq(Nat) : z # <<>> => 1 \in DOMAIN z /\ \A j \in DOMAIN z : j \in Nat /\ z[j] \in Nat /\ (j = 1 \/ 1 < j)
        BY EmptySeq, LenProperties
      <4> QED  BY <3>2, <3>4, <4>1
    <3>6. Head(t[b]) <= d
      BY <3>2, <3>3, <3>4, <3>5 DEF Rises
    <3> QED  BY <2>3, <3>2, <3>3, <3>5, <3>6
  <2> QED  BY <2>3, <2>4, <2>5, <2>6
<1> QED  BY <1>3, <1>5, <1>7, <1>11, <1>12, <1>13, <1>21, <1>22, Zenon DEF gs, l, g, t, p, q, m

(* Documents leave one place for two others.                                 *)
LEMMA PlacedByTwo ==
    ASSUME NEW s, Placed(s), NEW a \in Places, NEW b \in Places, NEW c \in Places, a # b, a # c, b # c,
           NEW M, NEW N, M \cup N \subseteq Lies(s)[a], M \cap N = {},
           Lies(s)'[a] = Lies(s)[a] \ (M \cup N), Lies(s)'[b] = Lies(s)[b] \cup M, Lies(s)'[c] = Lies(s)[c] \cup N,
           \A x \in Places : x # a /\ x # b /\ x # c => Lies(s)'[x] = Lies(s)[x],
           Given(s)' = Given(s), dead'[s] = dead[s]
    PROVE  Placed(s)'
<1> DEFINE P == Lies(s)
           R == Lies(s)'
           Q == [x \in Places |-> IF x = a THEN P[a] \ M ELSE IF x = b THEN P[b] \cup M ELSE P[x]]
<1>1. /\ R[a] = P[a] \ (M \cup N) /\ R[b] = P[b] \cup M /\ R[c] = P[c] \cup N
      /\ \A x \in Places : x # a /\ x # b /\ x # c => R[x] = P[x]
  OBVIOUS
<1>2. /\ Disjoint(P) /\ InSome(P) \subseteq 1 .. Given(s) /\ (~dead[s] => 1 .. Given(s) \subseteq InSome(P))
  BY DEF Placed
<1> HIDE DEF P, R
<1>3. Moved(P, Q, a, b, M)
  BY DEF Moved, P
<1>4. Moved(Q, R, a, c, N)
  <2>1. Q[a] = P[a] \ M /\ Q[c] = P[c] /\ Q[b] = P[b] \cup M /\ \A x \in Places : x # a /\ x # b => Q[x] = P[x]
    OBVIOUS
  <2> HIDE DEF Q
  <2>2. N \subseteq Q[a] /\ R[a] = Q[a] \ N
    BY <1>1, <2>1 DEF P
  <2>3. R[c] = Q[c] \cup N /\ \A x \in Places : x # a /\ x # c => R[x] = Q[x]
    BY <1>1, <2>1
  <2> QED  BY <2>2, <2>3 DEF Moved
<1> HIDE DEF Q
<1>5. Disjoint(Q) /\ InSome(Q) = InSome(P)
  BY <1>2, <1>3, MovedApart
<1>6. Disjoint(R) /\ InSome(R) = InSome(Q)
  BY <1>4, <1>5, MovedApart
<1> QED  BY <1>2, <1>5, <1>6 DEF Placed, Disjoint, InSome, P, R

(* A window with room for a batch is not passed by it.                       *)
LEMMA FirstsFit ==
    ASSUME NEW S, NEW p \in Seq(Nat), NEW w \in Nat, IsFiniteSet(S), Cardinality(S) + Len(p) <= w
    PROVE  IsFiniteSet(S \cup ToSet(p)) /\ Cardinality(S \cup ToSet(p)) \in Nat /\ Cardinality(S \cup ToSet(p)) <= w
<1>1. p \in [1 .. Len(p) -> ToSet(p)] /\ Len(p) \in Nat
  BY LenProperties DEF ToSet
<1>2. IsFiniteSet(1 .. Len(p)) /\ Cardinality(1 .. Len(p)) = Len(p)
  <2>1. ASSUME NEW k \in Nat PROVE IsFiniteSet(1 .. k) /\ Cardinality(1 .. k) = k
    <3>1. 1 \in Int /\ k \in Int
      OBVIOUS
    <3> DEFINE i == 1 .. k
    <3>2. IsFiniteSet(i) /\ Cardinality(i) = IF 1 > k THEN 0 ELSE k - 1 + 1
      BY <3>1, FS_Interval
    <3> HIDE DEF i
    <3>3. Cardinality(i) = k
      BY <3>2
    <3> QED  BY <3>2, <3>3 DEF i
  <2> QED  BY <1>1, <2>1
<1>3. p \in Surjection(1 .. Len(p), ToSet(p))
  BY <1>1 DEF Surjection, ToSet
<1>4. IsFiniteSet(ToSet(p)) /\ Cardinality(ToSet(p)) <= Len(p)
  BY <1>2, <1>3, FS_Surjection
<1>5. /\ IsFiniteSet(S \cup ToSet(p))
      /\ Cardinality(S \cup ToSet(p)) = Cardinality(S) + Cardinality(ToSet(p)) - Cardinality(S \cap ToSet(p))
  BY <1>4, FS_Union
<1>6. /\ Cardinality(S) \in Nat /\ Cardinality(ToSet(p)) \in Nat /\ Cardinality(S \cap ToSet(p)) \in Nat
      /\ Cardinality(S \cup ToSet(p)) \in Nat
  BY <1>4, <1>5, FS_Intersection, FS_CardinalityType
<1> QED  BY <1>1, <1>4, <1>5, <1>6

(* dispatch: the first documents of a group start, or wait stalled; the      *)
(* others are left over.                                                     *)
LEMMA DispatchGroupKept ==
    ASSUME Maps, NEW s \in Streams, Kept(s), DispatchGroup(s)
    PROVE  Kept(s)'
<1> USE DEF Grouping
<1> DEFINE g == Head(round[s].groups)
           n == BatchSize(s, g)
           p == SubSeq(g, 1, n)
           q == SubSeq(g, n + 1, Len(g))
<1>1. /\ eng[s] \in Grouping /\ eng'[s] = eng[s] /\ docs'[s] = docs[s] /\ reader'[s] = reader[s]
      /\ out'[s] = out[s] /\ rows'[s] = rows[s] /\ outcome'[s] = outcome[s] /\ pending'[s] = pending[s]
      /\ dead'[s] = dead[s] /\ work'[s] = work[s] /\ buffer'[s] = buffer[s] /\ next'[s] = next[s] /\ conn'[s] = conn[s]
      /\ how'[s] = how[s] /\ expired'[s] = expired[s] /\ inputEnded'[s] = inputEnded[s] /\ retries'[s] = retries[s]
      /\ round[s].groups # <<>>
  BY Zenon DEF DispatchGroup, Goto, Local, client, told, called, Maps
<1>2. /\ Typed(s) /\ Placed(s) /\ Once(s) /\ Keyed(s) /\ Told(s) /\ Fifo(s) /\ Phased(s) /\ Sane(s) /\ Moves(s)
  BY DEF Kept
<1>3. round[s] \in [groups : Seq(Seq(Nat)), share : Nat, leftover : Seq(Nat)]
  BY <1>2 DEF Typed
<1>4. pending[s] = <<>> /\ round[s].share > 0 /\ round[s].share \in Nat
  BY <1>1, <1>2, <1>3, Zenon DEF Phased
<1>5. RoundParts(s)
  BY <1>2, <1>3 DEF RoundParts, Once, Keyed, Fifo
<1>6. Cut(s, n)
  <2>1. round' = [round EXCEPT ![s].groups = Tail(@), ![s].leftover = @ \o q]
    BY Zenon DEF DispatchGroup
  <2>2. round'[s] = [round[s] EXCEPT !.groups = Tail(round[s].groups), !.leftover = round[s].leftover \o q]
    BY <2>1 DEF Maps
  <2> QED  BY <1>3, <2>2 DEF Cut
<1>7. g \in Seq(Nat) /\ g # <<>>
  BY <1>1, <1>3, <1>5, BatchesTail, Zenon DEF RoundParts
<1>8. Available(s) \in Nat /\ IsFiniteSet(Dispatched(s)) /\ Cardinality(Dispatched(s)) \in Nat
      /\ Available(s) = Window - Cardinality(Dispatched(s)) /\ Window \in Nat
  <2>1. Given(s) \in Nat /\ Window \in Nat
    BY KeptFacts, StreamAssumption
  <2>2. IsFiniteSet(Dispatched(s)) /\ Cardinality(Dispatched(s)) \in Nat
    BY <1>2, <2>1, DispatchedFinite
  <2>3. Cardinality(Dispatched(s)) <= Window
    BY <1>2, Zenon DEF Moves
  <2> QED  BY <2>1, <2>2, <2>3 DEF Available
<1>9. n \in 0 .. Len(g) /\ n <= Available(s) /\ (Available(s) > 0 => n > 0)
  BY <1>4, <1>7, <1>8, BatchSizeIs
<1>10. IF n = 0 THEN stalled' = stalled /\ runs' = runs ELSE Respawn(s, p, stalled[s], timer[s])
  BY Zenon DEF DispatchGroup
<1> HIDE DEF n
<1>11. /\ Lies(s)["work"] = ToSet(work[s]) \ {ABORT} /\ Lies(s)["pending"] = ToSet(pending[s])
       /\ Lies(s)["groups"] = InBatches(round[s].groups) /\ Lies(s)["leftover"] = ToSet(round[s].leftover)
       /\ Lies(s)["stalled"] = InBatches(stalled[s]) /\ Lies(s)["runs"] = InRuns(s)
  BY LiesAre
<1>12. /\ Lies(s)["groups"] \cap Lies(s)["leftover"] = {} /\ Lies(s)["groups"] \cap Lies(s)["stalled"] = {}
       /\ Lies(s)["groups"] \cap Lies(s)["runs"] = {}
  BY <1>2 DEF Placed, Disjoint, Places
<1>13. /\ RoundParts(s)'
       /\ p \in Seq(Nat) /\ Len(p) = n /\ IsInjective(p) /\ OneKey(s, p)
       /\ ToSet(p) \cap ToSet(q) = {} /\ ToSet(p) \cup ToSet(q) \subseteq InBatches(round[s].groups)
       /\ InBatches(round'[s].groups) = InBatches(round[s].groups) \ (ToSet(p) \cup ToSet(q))
       /\ ToSet(round'[s].leftover) = ToSet(round[s].leftover) \cup ToSet(q)
       /\ n > 0 => /\ Head(g) \in ToSet(p) /\ Head(g) \in Nat
                   /\ \A d \in InBatches(round'[s].groups) \cup ToSet(q) : Head(g) < d
  <2>1. ToSet(round[s].leftover) \cap InBatches(round[s].groups) = {}
    BY <1>11, <1>12
  <2>2. n \in 0 .. Len(Head(round[s].groups))
    BY <1>9
  <2> QED  BY <1>1, <1>5, <1>6, <2>1, <2>2, CutParts, Zenon
<1> HIDE DEF g, p, q
<1>14. BatchParts(s)
  BY KeptBatches
<1>15. /\ BatchParts(s)'
       /\ \/ InBatches(stalled'[s]) = InBatches(stalled[s]) \cup ToSet(p) /\ InRuns(s)' = InRuns(s)
          \/ InBatches(stalled'[s]) = InBatches(stalled[s]) /\ InRuns(s)' = InRuns(s) \cup ToSet(p)
  <2>1. CASE n = 0
    <3>1. stalled'[s] = stalled[s] /\ runs'[s] = runs[s]
      BY <1>10, <2>1
    <3>2. ToSet(p) = {}
      BY <1>13, <2>1, EmptySeq, EmptyBatches
    <3>3. InRuns(s)' = InRuns(s)
      BY <3>1 DEF InRuns
    <3>4. BatchParts(s)'
      <4>1. (\A r \in runs[s] : RunParts(s, r))'
        BY <1>1, <1>14, <3>1, SameDocs, Zenon DEF BatchParts, RunParts
      <4>2. (\A i \in DOMAIN stalled[s] : OneKey(s, stalled[s][i]))'
        BY <1>1, <1>14, <3>1, SameDocs, Zenon DEF BatchParts
      <4>3. (stalled[s] \in Seq(Seq(Nat)) /\ Batches(stalled[s]))'
        BY <1>14, <3>1 DEF BatchParts
      <4>4. (\A r, k \in runs[s] : r # k => ToSet(r.docs) \cap ToSet(k.docs) = {})'
        BY <1>14, <3>1 DEF BatchParts
      <4> QED  BY ONLY <4>1, <4>2, <4>3, <4>4 DEF BatchParts
    <3> QED  BY <3>1, <3>2, <3>3, <3>4
  <2>2. CASE n # 0
    <3>1. Stashed(s, p, stalled[s]) \/ Started(s, p, stalled[s])
      BY <1>10, <2>2, TakeDoes
    <3>2. /\ stalled[s] \in Seq(Seq(Nat)) /\ Batches(stalled[s]) /\ \A i \in DOMAIN stalled[s] : OneKey(s, stalled[s][i])
      BY <1>14 DEF BatchParts
    <3>3. ToSet(p) \cap InBatches(stalled[s]) = {} /\ ToSet(p) \cap InRuns(s) = {}
      BY <1>11, <1>12, <1>13
    <3>4. p # <<>>
      BY <1>13, <2>2, EmptySeq
    <3> QED  BY <1>1, <1>13, <1>14, <3>1, <3>2, <3>3, <3>4, TakeParts, ZenonT(60)
  <2> QED  BY <2>1, <2>2
<1>16. \E to \in {"stalled", "runs"} :
         /\ Lies(s)'[to] = Lies(s)[to] \cup ToSet(p)
         /\ \A x \in {"stalled", "runs"} : x # to => Lies(s)'[x] = Lies(s)[x]
  <2>1. Lies(s)'["stalled"] = InBatches(stalled'[s]) /\ Lies(s)'["runs"] = InRuns(s)'
    BY LiesBecome
  <2>2. CASE InBatches(stalled'[s]) = InBatches(stalled[s]) \cup ToSet(p) /\ InRuns(s)' = InRuns(s)
    <3>1. Lies(s)'["stalled"] = Lies(s)["stalled"] \cup ToSet(p) /\ Lies(s)'["runs"] = Lies(s)["runs"]
      BY <1>11, <2>1, <2>2
    <3> QED  BY <3>1
  <2>3. CASE InBatches(stalled'[s]) = InBatches(stalled[s]) /\ InRuns(s)' = InRuns(s) \cup ToSet(p)
    <3>1. Lies(s)'["runs"] = Lies(s)["runs"] \cup ToSet(p) /\ Lies(s)'["stalled"] = Lies(s)["stalled"]
      BY <1>11, <2>1, <2>3
    <3> QED  BY <3>1
  <2> QED  BY <1>15, <2>2, <2>3
<1>17. /\ Lies(s)'["work"] = Lies(s)["work"] /\ Lies(s)'["pending"] = Lies(s)["pending"]
       /\ Lies(s)'["outcome"] = Lies(s)["outcome"] /\ Lies(s)'["rows"] = Lies(s)["rows"]
       /\ Lies(s)'["buffer"] = Lies(s)["buffer"] /\ Lies(s)'["out"] = Lies(s)["out"]
  BY <1>1, Zenon DEF Lies
<1>18. /\ ToSet(p) \cup ToSet(q) \subseteq Lies(s)["groups"]
       /\ Lies(s)'["groups"] = Lies(s)["groups"] \ (ToSet(p) \cup ToSet(q))
       /\ Lies(s)'["leftover"] = Lies(s)["leftover"] \cup ToSet(q)
       /\ Lies(s)'["groups"] = InBatches(round'[s].groups)
  <2>1. Lies(s)'["groups"] = InBatches(round'[s].groups) /\ Lies(s)'["leftover"] = ToSet(round'[s].leftover)
    BY LiesBecome
  <2> QED  BY <1>11, <1>13, <2>1
<1>19. Placed(s)'
  <2>1. PICK to \in {"stalled", "runs"} :
           /\ Lies(s)'[to] = Lies(s)[to] \cup ToSet(p)
           /\ \A x \in {"stalled", "runs"} : x # to => Lies(s)'[x] = Lies(s)[x]
    BY <1>16
  <2>2. \A x \in Places : x # "groups" /\ x # to /\ x # "leftover" => Lies(s)'[x] = Lies(s)[x]
    BY <1>17, <2>1 DEF Places
  <2>3. to \in Places /\ "groups" \in Places /\ "leftover" \in Places /\ to # "groups" /\ to # "leftover"
    BY DEF Places
  <2>4. Given(s)' = Given(s)
    BY <1>1, Zenon DEF Given
  <2>5. /\ ToSet(p) \cup ToSet(q) \subseteq Lies(s)["groups"] /\ ToSet(p) \cap ToSet(q) = {}
        /\ Lies(s)'["groups"] = Lies(s)["groups"] \ (ToSet(p) \cup ToSet(q))
        /\ Lies(s)'["leftover"] = Lies(s)["leftover"] \cup ToSet(q)
        /\ Lies(s)'[to] = Lies(s)[to] \cup ToSet(p) /\ Placed(s) /\ dead'[s] = dead[s] /\ "groups" # "leftover"
    BY <1>1, <1>2, <1>13, <1>18, <2>1, Zenon
  <2> QED  BY ONLY <2>2, <2>3, <2>4, <2>5, PlacedByTwo
<1>20. Dispatched(s)' = Dispatched(s) \cup ToSet(p)
  <2>1. {d \in Lies(s)'["rows"] \cup Lies(s)'["buffer"] : Fate(s, d) # "bad"}
            = {d \in Lies(s)["rows"] \cup Lies(s)["buffer"] : Fate(s, d) # "bad"}
    BY <1>17
  <2>2. Lies(s)'["stalled"] \cup Lies(s)'["runs"] = Lies(s)["stalled"] \cup Lies(s)["runs"] \cup ToSet(p)
    BY <1>16
  <2>3. Lies(s)'["outcome"] = Lies(s)["outcome"]
    BY <1>17
  <2>4. docs'[s] = docs[s]
    BY <1>1, Zenon
  <2> QED  BY <2>1, <2>2, <2>3, <2>4, PermitsByPlace, PermitsBecome
<1>21. /\ Rest(s)' = InBatches(round'[s].groups) \cup ToSet(q) \cup Lies(s)["leftover"]
       /\ Rest(s)' \subseteq Rest(s) /\ ToSet(p) \subseteq Rest(s)
  <2>1. Rest(s)' = Lies(s)'["pending"] \cup Lies(s)'["groups"] \cup Lies(s)'["leftover"]
    BY <1>1, PermitsBecome, Zenon
  <2>2. Rest(s) = Lies(s)["pending"] \cup Lies(s)["groups"] \cup Lies(s)["leftover"]
    BY PermitsByPlace
  <2>3. Lies(s)["pending"] = {}
    BY <1>4, <1>11, EmptyBatches
  <2> QED  BY <1>17, <1>18, <2>1, <2>2, <2>3
<1>22. WorkLater(s)'
  <2>1. Dispatched(s)' \cup Rest(s)' \subseteq Dispatched(s) \cup Rest(s)
    BY <1>20, <1>21
  <2> QED  BY <1>1, <1>2, <2>1, WorkStays, Zenon DEF Fifo
<1>23. IsFiniteSet(Dispatched(s)') /\ Cardinality(Dispatched(s)') \in Nat /\ Cardinality(Dispatched(s)') <= Window
  <2>1. ASSUME NEW c \in Nat, NEW w \in Nat, NEW k \in Nat, k <= w - c PROVE c + k <= w
    BY ONLY <2>1
  <2>2. Len(p) \in Nat /\ Len(p) <= Window - Cardinality(Dispatched(s))
    BY <1>8, <1>9, <1>13
  <2>3. Cardinality(Dispatched(s)) + Len(p) <= Window
    BY ONLY <1>8, <2>1, <2>2
  <2>4. IsFiniteSet(Dispatched(s)) /\ p \in Seq(Nat) /\ Window \in Nat
    BY <1>8, <1>13
  <2>5. LET D == Dispatched(s) \cup ToSet(p) IN IsFiniteSet(D) /\ Cardinality(D) \in Nat /\ Cardinality(D) <= Window
    BY ONLY <2>3, <2>4, FirstsFit
  <2> QED  BY ONLY <1>20, <2>5
<1>24. Leads(s)'
  <2>1. CASE Leads(s)
    <3>1. PICK d \in Dispatched(s) : \A k \in Rest(s) : d < k
      BY <2>1 DEF Leads
    <3>2. d \in Dispatched(s)' /\ \A k \in Rest(s)' : d < k
      BY <1>20, <1>21, <3>1
    <3> QED  BY <3>2 DEF Leads
  <2>2. CASE ~Leads(s)
    <3>1. round[s].leftover = <<>> /\ Available(s) > 0
      BY <1>1, <1>2, <2>2, Zenon DEF Moves
    <3>2. n > 0 /\ Lies(s)["leftover"] = {}
      BY <1>9, <1>11, <3>1, EmptyBatches
    <3>3. Head(g) \in Dispatched(s)' /\ \A k \in Rest(s)' : Head(g) < k
      BY <1>13, <1>20, <1>21, <3>2
    <3> QED  BY <3>3 DEF Leads
  <2> QED  BY <2>1, <2>2
<1>25. Moves(s)'
  BY <1>23, <1>24 DEF Moves
<1>26. Typed(s)'
  <2>1. round'[s] \in [groups : Seq(Seq(Nat)), share : Nat, leftover : Seq(Nat)]
    BY <1>13 DEF RoundParts
  <2>2. stalled'[s] \in Seq(Seq(Nat)) /\ \A r \in runs'[s] : r.docs \in Seq(Nat) /\ r.ok \in BOOLEAN
    BY <1>15 DEF BatchParts, RunParts
  <2> QED  BY <1>1, <1>2, <2>1, <2>2, Zenon DEF Typed
<1>27. Once(s)'
  <2>1. IsInjective(round'[s].leftover) /\ Batches(round'[s].groups)
    BY <1>13 DEF RoundParts
  <2>2. Batches(stalled'[s]) /\ \A r \in runs'[s] : r.docs # <<>> /\ IsInjective(r.docs)
    BY <1>15 DEF BatchParts, RunParts
  <2>3. \A r, k \in runs'[s] : r # k => ToSet(r.docs) \cap ToSet(k.docs) = {}
    BY <1>15 DEF BatchParts
  <2> QED  BY <1>1, <1>2, <2>1, <2>2, <2>3, Zenon DEF Once
<1>28. Keyed(s)'
  <2>1. (/\ \A b \in DOMAIN round[s].groups : OneKey(s, round[s].groups[b])
         /\ \A b, c \in DOMAIN round[s].groups : b # c => OtherKeys(s, round[s].groups[b], round[s].groups[c])
         /\ \A b \in DOMAIN round[s].groups : OtherKeys(s, round[s].leftover, round[s].groups[b]))'
    BY <1>13 DEF RoundParts
  <2>2. (/\ \A b \in DOMAIN stalled[s] : OneKey(s, stalled[s][b])
         /\ \A r \in runs[s] : OneKey(s, r.docs) /\ r.session[1] = LoadFor(s, r.docs))'
    BY <1>15 DEF BatchParts, RunParts
  <2> QED  BY ONLY <2>1, <2>2 DEF Keyed
<1>29. Told(s)'
  <2>1. (\A a \in ToSet(rows[s]) \cup buffer[s] \cup ToSet(out[s]) : a.ok = (Fate(s, a.doc) = "ok"))'
    <3>1. \A a \in ToSet(rows[s]) \cup buffer[s] \cup ToSet(out[s]) : a.ok = (Fate(s, a.doc) = "ok")
      BY <1>2 DEF Told
    <3>2. ToSet(rows'[s]) \cup buffer'[s] \cup ToSet(out'[s]) = ToSet(rows[s]) \cup buffer[s] \cup ToSet(out[s])
      BY <1>1, Zenon
    <3>3. \A d : Fate(s, d)' = Fate(s, d)
      BY <1>1, SameDocs, Zenon
    <3>4. \A a \in ToSet(rows'[s]) \cup buffer'[s] \cup ToSet(out'[s]) : a.ok = (Fate(s, a.doc)' = "ok")
      BY ONLY <3>1, <3>2, <3>3
    <3> QED  BY ONLY <3>4
  <2>2. (\A r \in runs[s] : r.phase = "done" =>
           (r.ok => AllOk(s, r.docs)) /\ (~r.ok => dead[s] \/ ~AllOk(s, r.docs)))'
    BY <1>15 DEF BatchParts, RunParts
  <2>3. (eng[s] # "deliver")' /\ (~Ended(s) => next[s] = Len(out[s]) + 1)'
    BY <1>1, <1>2, Zenon DEF Told, Ended
  <2> QED  BY <2>1, <2>2, <2>3 DEF Told
<1>30. Fifo(s)'
  <2>1. (/\ KeysRise(s, round[s].leftover)
         /\ \A b \in DOMAIN round[s].groups : Rises(round[s].groups[b])
         /\ \A b, c \in DOMAIN round[s].groups : b < c => Head(round[s].groups[b]) < Head(round[s].groups[c]))'
    BY <1>13 DEF RoundParts
  <2>2. KeysRise(s, pending[s])'
    BY <1>1, <1>2, SameDocs, Zenon DEF Fifo
  <2> QED  BY ONLY <1>22, <2>1, <2>2 DEF Fifo
<1>31. Phased(s)' /\ Sane(s)'
  <2>1. Phased(s)'
    <3>1. round'[s].share = round[s].share
      BY <1>6 DEF Cut
    <3> QED  BY <1>1, <1>2, <1>4, <3>1, Zenon DEF Phased
  <2>2. Sane(s)'
    BY <1>1, <1>2, Zenon DEF Sane, Ended
  <2> QED  BY <2>1, <2>2
<1> QED  BY <1>19, <1>25, <1>26, <1>27, <1>28, <1>29, <1>30, <1>31 DEF Kept

-----------------------------------------------------------------------------
(* Every step *)

(* Every step keeps what is true of the documents of every stream.           *)
LEMMA InitKept == Init => DInv
<1> SUFFICES ASSUME Init PROVE DInv
  OBVIOUS
<1>1. Maps
  BY DEF Init, Maps
<1>2. ASSUME NEW s \in Streams PROVE Kept(s)
  <2>1. /\ conn[s] = "open" /\ out[s] = <<>> /\ how[s] = "open" /\ docs[s] = <<>> /\ reader[s] = "top" /\ work[s] = <<>>
        /\ eng[s] = "top" /\ inputEnded[s] = FALSE /\ pending[s] = <<>> /\ round[s] = NoRound /\ outcome[s] = NoOutcome
        /\ rows[s] = <<>> /\ buffer[s] = {} /\ next[s] = 1 /\ stalled[s] = <<>> /\ runs[s] = {} /\ dead[s] = FALSE
    BY DEF Init
  <2>2. /\ round[s] = [groups |-> <<>>, share |-> 0, leftover |-> <<>>]
        /\ outcome[s] = [docs |-> <<>>, ok |-> FALSE]
    BY <2>1 DEF NoRound, NoOutcome
  <2>3. Typed(s)
    BY <2>1, <2>2 DEF Typed
  <2>4. Phased(s)
    BY <2>1, <2>2 DEF Phased, Grouping
  <2>5. Sane(s)
    BY <2>1 DEF Sane, Ended
  <2>6. DOMAIN <<>> = {} /\ IsInjective(<<>>)
    BY DEF IsInjective
  <2>7. Once(s)
    BY <2>1, <2>2, <2>6 DEF Once, Batches, Singles
  <2>8. Keyed(s)
    BY <2>1, <2>2, <2>6 DEF Keyed
  <2>9. ToSet(<<>>) = {} /\ InBatches(<<>>) = {} /\ InAnswers({}) = {}
    BY EmptyBatches
  <2>10. Told(s)
    BY <2>1, <2>9 DEF Told, Ended
  <2>11. Fifo(s)
    BY <2>1, <2>2, <2>6, <2>9 DEF Fifo, WorkLater, KeysRise
  <2>12. InRuns(s) = {}
    BY <2>1 DEF InRuns
  <2>13. \A p \in Places : Lies(s)[p] = {}
    <3>1. /\ Lies(s)["work"] = {} /\ Lies(s)["pending"] = {} /\ Lies(s)["groups"] = {} /\ Lies(s)["leftover"] = {}
          /\ Lies(s)["stalled"] = {} /\ Lies(s)["runs"] = {} /\ Lies(s)["outcome"] = {} /\ Lies(s)["rows"] = {}
          /\ Lies(s)["buffer"] = {} /\ Lies(s)["out"] = {}
      <4>1. /\ ToSet(work[s]) = {} /\ ToSet(pending[s]) = {} /\ ToSet(rows[s]) = {} /\ ToSet(out[s]) = {}
            /\ InBatches(stalled[s]) = {} /\ InBatches(round[s].groups) = {} /\ ToSet(round[s].leftover) = {}
            /\ ToSet(outcome[s].docs) = {} /\ InAnswers(buffer[s]) = {}
        BY <2>1, <2>2, <2>9
      <4>2. InAnswers(ToSet(rows[s])) = {} /\ InAnswers(ToSet(out[s])) = {}
        BY <2>9, <4>1
      <4> QED  BY <2>12, <4>1, <4>2, LiesAre
    <3> QED  BY <3>1 DEF Places
  <2>14. Given(s) = 0
    <3>1. Len(docs[s]) = 0
      BY <2>1
    <3> QED  BY <2>1, <3>1 DEF Given
  <2>15. Placed(s)
    <3>1. 1 .. Given(s) = {}
      BY <2>14
    <3> QED  BY <2>13, <3>1 DEF Placed, Disjoint, InSome
  <2>16. Moves(s)
    <3>1. Lies(s)["stalled"] = {} /\ Lies(s)["runs"] = {} /\ Lies(s)["outcome"] = {} /\ Lies(s)["rows"] = {}
          /\ Lies(s)["buffer"] = {} /\ Lies(s)["pending"] = {} /\ Lies(s)["groups"] = {} /\ Lies(s)["leftover"] = {}
      BY <2>13 DEF Places
    <3>2. Dispatched(s) = {} /\ Rest(s) = {}
      BY <3>1, PermitsByPlace
    <3>3. Cardinality(Dispatched(s)) = 0 /\ Window \in Nat
      BY <3>2, FS_EmptySet, StreamAssumption
    <3> QED  BY <2>1, <3>2, <3>3 DEF Moves, Grouping
  <2> QED  BY <2>3, <2>4, <2>5, <2>7, <2>8, <2>10, <2>11, <2>15, <2>16 DEF Kept
<1> QED  BY <1>1, <1>2 DEF DInv

(* Every step of the engine, and every step of the stream, keeps what is true of its documents. *)
LEMMA EngineStepKept ==
    ASSUME Maps, NEW s \in Streams, Kept(s), Engine(s)
    PROVE  Kept(s)'
<1>1. CASE Top(s) \/ BranchDeadline(s) \/ DeliverFailed(s) \/ SendFails(s) \/ Check(s) \/ SendStatus(s) \/ BranchClosed(s)
  BY <1>1, EngineQuietKept, CrossroadsKept
<1>2. CASE BranchInputEnds(s) \/ BranchLinger(s) \/ Enqueued(s) \/ Retried(s) \/ DispatchNothing(s)
  BY <1>2, EngineQuietKept
<1>3. CASE BranchDoc(s) \/ BranchJoin(s) \/ BranchRetry(s)
  BY <1>3, BranchDocKept, BranchJoinKept, BranchRetryKept
<1>4. CASE Deliver(s) \/ Split(s) \/ Enqueue(s) \/ Send(s) \/ Retry(s) \/ JoinAll(s)
  BY <1>4, DeliverKept, SplitKept, EnqueueKept, SendKept, RetryKept, JoinAllKept
<1>5. CASE DispatchGroups(s) \/ DispatchGroup(s) \/ DispatchEnds(s)
  BY <1>5, DispatchGroupsKept, DispatchGroupKept, DispatchEndsKept
<1> QED  BY <1>1, <1>2, <1>3, <1>4, <1>5 DEF Engine, Branch

LEMMA StepKept ==
    ASSUME Maps, NEW s \in Streams, Kept(s), \A r \in runs[s] : IsRun(r),
           \/ Reader(s) \/ Client(s) \/ ClientReads(s) \/ Engine(s)
           \/ RunStarts(s) \/ RunEnds(s) \/ Expires(s) \/ DeadTimer(s)
    PROVE  Kept(s)'
<1>1. CASE Reader(s)
  BY <1>1, ReaderQuietKept, ReadErrorKept, PutKept DEF Reader
<1>2. CASE Client(s)
  BY <1>2, ClientKept, ReadDocKept, ReaderQuietKept DEF Client
<1>3. CASE ClientReads(s) \/ Expires(s) \/ DeadTimer(s)
  BY <1>3, ClientKept
<1>4. CASE RunStarts(s) \/ RunEnds(s)
  BY <1>4, RunKept
<1> QED  BY <1>1, <1>2, <1>3, <1>4, EngineStepKept

(* With the other streams, the invariant is inductive.                       *)
LEMMA NextKept ==
    ASSUME DInv, IInv, [Next]_vars
    PROVE  DInv'
<1>1. CASE Next
  <2>1. PICK s \in Streams : \/ Reader(s) \/ Client(s) \/ ClientReads(s) \/ Engine(s)
                             \/ RunStarts(s) \/ RunEnds(s) \/ Expires(s) \/ DeadTimer(s)
    BY <1>1 DEF Next
  <2>2. Maps /\ \A t \in Streams : Kept(t)
    BY DEF DInv
  <2>3. Alone(s)
    BY <2>1, <2>2, ReaderAlone, EngineAlone, RunAlone
  <2>4. \A r \in runs[s] : IsRun(r)
    BY DEF IInv, Shapes
  <2>5. Kept(s)'
    BY <2>1, <2>2, <2>4, StepKept
  <2>6. ASSUME NEW t \in Streams, t # s PROVE Kept(t)'
    BY <2>2, <2>3, <2>6, SameKept DEF Alone
  <2> QED  BY <2>3, <2>5, <2>6 DEF DInv, Alone
<1>2. CASE UNCHANGED vars
  <2>1. Maps /\ \A t \in Streams : Kept(t)
    BY DEF DInv
  <2>2. Maps'
    BY <1>2, <2>1 DEF Maps, vars
  <2>3. ASSUME NEW t \in Streams PROVE Same(t)
    BY <1>2 DEF vars, Same
  <2> QED  BY <2>1, <2>2, <2>3, SameKept DEF DInv
<1> QED  BY <1>1, <1>2

(* The two invariants hold in every state: the sessions and their runs are one *)
(* for one, and every document is where its stream's engine expects it.      *)
THEOREM DocumentsAlwaysKept == Spec => [](IInv /\ DInv)
<1>1. Init => IInv /\ DInv
  BY InitInvariant, InitKept
<1>2. IInv /\ DInv /\ [Next]_vars => (IInv /\ DInv)'
  BY NextKeeps, NextKept
<1> QED  BY <1>1, <1>2, PTL DEF Spec

(* However documents arrive, batch, stall and return, a window without a free *)
(* permit has one held by a document before every pending one: an input-ordered *)
(* stream can always send an answer and free it (engine.rs dispatch).        *)
THEOREM WindowAlwaysMoves == Spec => []WindowNeverWedges
<1>1. ASSUME DInv PROVE WindowNeverWedges
  <2>1. SUFFICES ASSUME NEW s \in Streams, pending[s] # <<>>, Available(s) = 0
                 PROVE  \E d \in Dispatched(s) : \A p \in ToSet(pending[s]) : d < p
    BY DEF WindowNeverWedges
  <2>2. Moves(s) /\ pending[s] \in Seq(Nat)
    BY <1>1 DEF DInv, Kept, Typed
  <2>3. Head(pending[s]) \in ToSet(pending[s])
    BY <2>1, <2>2, SetOfTail
  <2>4. ToSet(pending[s]) \subseteq Rest(s)
    BY DEF Rest
  <2>5. Leads(s)
    BY <2>1, <2>2, <2>3, <2>4 DEF Moves
  <2> QED  BY <2>4, <2>5 DEF Leads
<1> QED  BY <1>1, DocumentsAlwaysKept, PTL

(* Whatever ends the stream that took it, a session is idle or held by one run *)
(* that has not returned, whose documents are all of one batching key of the *)
(* session's load (state.rs Held, engine.rs dispatch).                       *)
THEOREM SessionsAlwaysConserved == Spec => []SessionsConserved
<1>1. ASSUME IInv, DInv PROVE SessionsConserved
  <2>1. SessionsExclusive
    BY <1>1, InvariantIsExclusive
  <2>2. ASSUME NEW l \in Loads, NEW h \in Held(l), NEW d \in ToSet(h[2].docs)
        PROVE  KeyOf(h[1], d) = KeyOf(h[1], Head(h[2].docs)) /\ LoadOf[KeyOf(h[1], d)] = l
    <3>1. PICK s \in Streams : \E r \in Working(s, l) : h = <<s, r>>
      BY HeldIsWorking
    <3>2. PICK r \in Working(s, l) : h = <<s, r>>
      BY <3>1
    <3>3. h[1] = s /\ h[2] = r /\ r \in runs[s] /\ r.session[1] = l
      BY <3>2 DEF Working
    <3>4. r.docs \in Seq(Nat) /\ r.docs # <<>> /\ OneKey(s, r.docs) /\ r.session[1] = LoadFor(s, r.docs)
      BY <1>1, <3>3 DEF DInv, Kept, Typed, Once, Keyed
    <3>5. PICK i \in DOMAIN r.docs : d = r.docs[i]
      BY <3>3 DEF ToSet
    <3>6. 1 \in DOMAIN r.docs /\ Head(r.docs) = r.docs[1]
      BY <3>4, TailOf
    <3>7. KeyOf(s, d) = KeyOf(s, Head(r.docs))
      BY <3>4, <3>5, <3>6 DEF OneKey
    <3> QED  BY <3>3, <3>4, <3>7 DEF LoadFor
  <2> QED  BY <2>1, <2>2 DEF SessionsConserved
<1> QED  BY <1>1, DocumentsAlwaysKept, PTL

-----------------------------------------------------------------------------
(* Each document once *)

(* The places of one document, each with its positions there.                *)
Spots(s, d) ==
    [work |-> At(work[s], d), pending |-> At(pending[s], d), groups |-> AtBatch(round[s].groups, d),
     leftover |-> At(round[s].leftover, d), stalled |-> AtBatch(stalled[s], d),
     runs |-> UNION {{r} \X At(r.docs, d) : r \in runs[s]}, outcome |-> At(outcome[s].docs, d),
     rows |-> AtAnswer(rows[s], d), buffer |-> {a \in buffer[s] : a.doc = d}, out |-> AtAnswer(out[s], d)]
OneSpot(X, there) == (X = {} <=> ~there) /\ \A x, y \in X : x = y

(* A sequence without repetition has a document at one position,             *)
LEMMA SpotIn ==
    ASSUME NEW q, NEW d, IsInjective(q)
    PROVE  OneSpot(At(q, d), d \in ToSet(q))
  BY DEF OneSpot, At, ToSet, IsInjective

(* so have disjoint batches,                                                 *)
LEMMA SpotInBatches ==
    ASSUME NEW bs, NEW d, Batches(bs)
    PROVE  OneSpot(AtBatch(bs, d), d \in InBatches(bs))
<1>1. \A x : x \in AtBatch(bs, d) <=> \E b \in DOMAIN bs : \E i \in At(bs[b], d) : x = <<b, i>>
  BY DEF AtBatch
<1>2. \A b \in DOMAIN bs : OneSpot(At(bs[b], d), d \in ToSet(bs[b]))
  BY SpotIn DEF Batches
<1>3. AtBatch(bs, d) = {} <=> d \notin InBatches(bs)
  <2>1. d \in InBatches(bs) <=> \E b \in DOMAIN bs : d \in ToSet(bs[b])
    BY InBatchesAre
  <2>2. \A b \in DOMAIN bs : d \in ToSet(bs[b]) <=> \E i \in At(bs[b], d) : TRUE
    BY <1>2 DEF OneSpot
  <2> QED  BY <1>1, <2>1, <2>2
<1>4. ASSUME NEW x \in AtBatch(bs, d), NEW y \in AtBatch(bs, d) PROVE x = y
  <2>1. PICK b \in DOMAIN bs : \E i \in At(bs[b], d) : x = <<b, i>>
    BY <1>1
  <2>2. PICK i \in At(bs[b], d) : x = <<b, i>>
    BY <2>1
  <2>3. PICK c \in DOMAIN bs : \E j \in At(bs[c], d) : y = <<c, j>>
    BY <1>1
  <2>4. PICK j \in At(bs[c], d) : y = <<c, j>>
    BY <2>3
  <2>5. d \in ToSet(bs[b]) /\ d \in ToSet(bs[c])
    BY <1>2 DEF OneSpot
  <2>6. b = c
    BY <2>5 DEF Batches
  <2>7. i = j
    BY <1>2, <2>6 DEF OneSpot
  <2> QED  BY <2>2, <2>4, <2>6, <2>7
<1> QED  BY <1>3, <1>4 DEF OneSpot

(* answers                                                                   *)
LEMMA SpotInAnswers ==
    ASSUME NEW as, NEW d, Singles(as)
    PROVE  OneSpot(AtAnswer(as, d), d \in InAnswers(ToSet(as)))
  BY Zenon DEF OneSpot, AtAnswer, InAnswers, ToSet, Singles

(* and runs.                                                                 *)
LEMMA SpotInRuns ==
    ASSUME NEW s, NEW d, \A r \in runs[s] : IsInjective(r.docs),
           \A r, q \in runs[s] : r # q => ToSet(r.docs) \cap ToSet(q.docs) = {}
    PROVE  OneSpot(UNION {{r} \X At(r.docs, d) : r \in runs[s]}, d \in InRuns(s))
<1> DEFINE X == UNION {{r} \X At(r.docs, d) : r \in runs[s]}
<1>1. \A x : x \in X <=> \E r \in runs[s] : \E i \in At(r.docs, d) : x = <<r, i>>
  OBVIOUS
<1> HIDE DEF X
<1>2. \A r \in runs[s] : OneSpot(At(r.docs, d), d \in ToSet(r.docs))
  BY SpotIn
<1>3. X = {} <=> d \notin InRuns(s)
  <2>1. d \in InRuns(s) <=> \E r \in runs[s] : d \in ToSet(r.docs)
    BY DEF InRuns
  <2>2. \A r \in runs[s] : d \in ToSet(r.docs) <=> \E i \in At(r.docs, d) : TRUE
    BY <1>2 DEF OneSpot
  <2> QED  BY <1>1, <2>1, <2>2
<1>4. ASSUME NEW x \in X, NEW y \in X PROVE x = y
  <2>1. PICK r \in runs[s] : \E i \in At(r.docs, d) : x = <<r, i>>
    BY <1>1
  <2>2. PICK i \in At(r.docs, d) : x = <<r, i>>
    BY <2>1
  <2>3. PICK q \in runs[s] : \E j \in At(q.docs, d) : y = <<q, j>>
    BY <1>1
  <2>4. PICK j \in At(q.docs, d) : y = <<q, j>>
    BY <2>3
  <2>5. d \in ToSet(r.docs) /\ d \in ToSet(q.docs)
    BY <1>2 DEF OneSpot
  <2>6. r = q
    BY <2>5
  <2>7. i = j
    BY <1>2, <2>6 DEF OneSpot
  <2> QED  BY <2>2, <2>4, <2>6, <2>7
<1> QED  BY <1>3, <1>4 DEF OneSpot, X

(* In each place a document is at one position, or at none.                  *)
LEMMA EachSpot ==
    ASSUME NEW s, Kept(s), NEW d \in Nat, d # ABORT
    PROVE  \A p \in Places : OneSpot(Spots(s, d)[p], d \in Lies(s)[p])
<1>1. /\ Once(s) /\ Fifo(s) /\ work[s] \in Seq(Nat)
  BY DEF Kept, Typed
<1>2. OneSpot(At(work[s], d), d \in ToSet(work[s]) \ {ABORT})
  <2>1. \A i, j \in DOMAIN work[s] : i < j /\ work[s][i] # ABORT /\ work[s][j] # ABORT => work[s][i] < work[s][j]
    BY <1>1 DEF Fifo, WorkLater
  <2>2. \A i \in DOMAIN work[s] : i \in Nat
    BY <1>1, LenProperties
  <2>3. \A i, j \in At(work[s], d) : i = j
    <3>1. SUFFICES ASSUME NEW i \in At(work[s], d), NEW j \in At(work[s], d), i < j PROVE FALSE
      BY <2>2 DEF At
    <3> QED  BY <2>1, <3>1 DEF At
  <2> QED  BY <2>3 DEF OneSpot, At, ToSet
<1>3. /\ OneSpot(At(pending[s], d), d \in ToSet(pending[s])) /\ OneSpot(At(round[s].leftover, d), d \in ToSet(round[s].leftover))
      /\ OneSpot(At(outcome[s].docs, d), d \in ToSet(outcome[s].docs))
  BY <1>1, SpotIn DEF Once
<1>4. /\ OneSpot(AtBatch(round[s].groups, d), d \in InBatches(round[s].groups))
      /\ OneSpot(AtBatch(stalled[s], d), d \in InBatches(stalled[s]))
  BY <1>1, SpotInBatches DEF Once
<1>5. OneSpot(UNION {{r} \X At(r.docs, d) : r \in runs[s]}, d \in InRuns(s))
  <2>1. \A r \in runs[s] : IsInjective(r.docs)
    BY <1>1 DEF Once
  <2>2. \A r, q \in runs[s] : r # q => ToSet(r.docs) \cap ToSet(q.docs) = {}
    BY <1>1 DEF Once
  <2> QED  BY <2>1, <2>2, SpotInRuns
<1>6. /\ OneSpot(AtAnswer(rows[s], d), d \in InAnswers(ToSet(rows[s])))
      /\ OneSpot(AtAnswer(out[s], d), d \in InAnswers(ToSet(out[s])))
  BY <1>1, SpotInAnswers DEF Once
<1>7. OneSpot({a \in buffer[s] : a.doc = d}, d \in InAnswers(buffer[s]))
  BY <1>1 DEF Once, OneSpot, InAnswers
<1>8. /\ OneSpot(Spots(s, d)["work"], d \in Lies(s)["work"]) /\ OneSpot(Spots(s, d)["pending"], d \in Lies(s)["pending"])
      /\ OneSpot(Spots(s, d)["groups"], d \in Lies(s)["groups"]) /\ OneSpot(Spots(s, d)["leftover"], d \in Lies(s)["leftover"])
      /\ OneSpot(Spots(s, d)["stalled"], d \in Lies(s)["stalled"]) /\ OneSpot(Spots(s, d)["runs"], d \in Lies(s)["runs"])
      /\ OneSpot(Spots(s, d)["outcome"], d \in Lies(s)["outcome"]) /\ OneSpot(Spots(s, d)["rows"], d \in Lies(s)["rows"])
      /\ OneSpot(Spots(s, d)["buffer"], d \in Lies(s)["buffer"]) /\ OneSpot(Spots(s, d)["out"], d \in Lies(s)["out"])
  BY <1>2, <1>3, <1>4, <1>5, <1>6, <1>7, LiesAre DEF Spots
<1> QED  BY <1>8 DEF Places

(* Its copies are its positions in its places.                               *)
LEMMA CopiesAre ==
    ASSUME NEW s, NEW d
    PROVE  \A c : c \in Copies(s, d) <=> \E p \in Places : \E x \in Spots(s, d)[p] : c = <<p, x>>
<1>1. /\ Spots(s, d)["work"] = At(work[s], d) /\ Spots(s, d)["pending"] = At(pending[s], d)
      /\ Spots(s, d)["groups"] = AtBatch(round[s].groups, d) /\ Spots(s, d)["leftover"] = At(round[s].leftover, d)
      /\ Spots(s, d)["stalled"] = AtBatch(stalled[s], d)
      /\ Spots(s, d)["runs"] = UNION {{r} \X At(r.docs, d) : r \in runs[s]}
      /\ Spots(s, d)["outcome"] = At(outcome[s].docs, d) /\ Spots(s, d)["rows"] = AtAnswer(rows[s], d)
      /\ Spots(s, d)["buffer"] = {a \in buffer[s] : a.doc = d} /\ Spots(s, d)["out"] = AtAnswer(out[s], d)
  BY DEF Spots
<1> DEFINE P == Spots(s, d)
<1>2. Copies(s, d) = ({"work"} \X P["work"]) \cup ({"pending"} \X P["pending"]) \cup ({"groups"} \X P["groups"])
        \cup ({"leftover"} \X P["leftover"]) \cup ({"stalled"} \X P["stalled"]) \cup ({"runs"} \X P["runs"])
        \cup ({"outcome"} \X P["outcome"]) \cup ({"rows"} \X P["rows"]) \cup ({"buffer"} \X P["buffer"])
        \cup ({"out"} \X P["out"])
  BY <1>1 DEF Copies
<1> HIDE DEF P
<1>3. \A p : \A X : \A c : c \in {p} \X X <=> \E x \in X : c = <<p, x>>
  OBVIOUS
<1>4. \A c : c \in Copies(s, d) <=> \E p \in Places : c \in {p} \X P[p]
  BY <1>2 DEF Places
<1> QED  BY <1>3, <1>4 DEF P

(* While its stream lives, every document handed to the engine is in exactly one *)
(* place, at one position: it is not lost or doubled between the channel, the *)
(* groups and leftovers of dispatch, the stalled, running, failed and split  *)
(* batches, the ordered buffer and the answers (engine.rs dispatch, deliver). *)
THEOREM EachDocumentAlwaysKept == Spec => []EachDocumentKept
<1>1. ASSUME DInv PROVE EachDocumentKept
  <2>1. SUFFICES ASSUME NEW s \in Streams, ~dead[s], NEW d \in 1 .. MaxDocs[s]
                 PROVE  Cardinality(Copies(s, d)) = IF d <= Given(s) THEN 1 ELSE 0
    BY DEF EachDocumentKept
  <2>2. Kept(s) /\ d \in Nat /\ d # ABORT /\ d > 0
    BY <1>1, StreamAssumption DEF DInv, ABORT
  <2>3. /\ Disjoint(Lies(s)) /\ InSome(Lies(s)) \subseteq 1 .. Given(s) /\ 1 .. Given(s) \subseteq InSome(Lies(s))
        /\ Given(s) \in Nat
    BY <2>1, <2>2, KeptFacts DEF Kept, Placed
  <2>4. \A p \in Places : OneSpot(Spots(s, d)[p], d \in Lies(s)[p])
    BY <2>2, EachSpot
  <2>5. \A c : c \in Copies(s, d) <=> \E p \in Places : \E x \in Spots(s, d)[p] : c = <<p, x>>
    BY CopiesAre
  <2>6. CASE d <= Given(s)
    <3>1. d \in InSome(Lies(s))
      BY <2>2, <2>3, <2>6
    <3>2. PICK p \in Places : d \in Lies(s)[p]
      BY <3>1 DEF InSome
    <3>3. PICK x \in Spots(s, d)[p] : TRUE
      BY <2>4, <3>2 DEF OneSpot
    <3>4. \A q \in Places : \A y \in Spots(s, d)[q] : q = p /\ y = x
      <4>1. SUFFICES ASSUME NEW q \in Places, NEW y \in Spots(s, d)[q] PROVE q = p /\ y = x
        OBVIOUS
      <4>2. d \in Lies(s)[q]
        BY <2>4 DEF OneSpot
      <4>3. q = p
        BY <2>3, <3>2, <4>2 DEF Disjoint
      <4> QED  BY <2>4, <4>3 DEF OneSpot
    <3>5. Copies(s, d) = {<<p, x>>}
      BY <2>5, <3>3, <3>4
    <3> QED  BY <2>6, <3>5, FS_Singleton
  <2>7. CASE ~(d <= Given(s))
    <3>1. d \notin InSome(Lies(s))
      BY <2>2, <2>3, <2>7
    <3>2. \A p \in Places : Spots(s, d)[p] = {}
      BY <2>4, <3>1 DEF OneSpot, InSome
    <3>3. Copies(s, d) = {}
      BY <2>5, <3>2
    <3> QED  BY <2>7, <3>3, FS_EmptySet
  <2> QED  BY <2>6, <2>7
<1> QED  BY <1>1, DocumentsAlwaysKept, PTL

-----------------------------------------------------------------------------
(* The service *)

(* The service each step is a step of, or leaves as it was.                  *)
LEMMA ServiceAnswered ==
    ASSUME NEW s
    PROVE  Service!Answered(s) = Lies(s)["out"]
<1>1. Service!Answered(s) = InAnswers(ToSet(out[s]))
  BY DEF Service!Answered, InAnswers, ToSet
<1> QED  BY <1>1, LiesAre

(* The answer sent is an answer of the service.                              *)
LEMMA SendAnswers ==
    ASSUME Maps, NEW s \in Streams, Kept(s), Send(s)
    PROVE  Service!Answer(s)
<1>1. PICK a \in Due(s) : out' = [out EXCEPT ![s] = Append(@, a)]
  BY DEF Send
<1>2. eng[s] = "answer" /\ UNCHANGED <<ordered, conn, expired, docs, how>>
  BY DEF Send, client, called
<1>3. Typed(s) /\ Placed(s) /\ Told(s) /\ Sane(s) /\ Given(s) \in Nat /\ Given(s) <= Len(docs[s])
      /\ DOMAIN docs[s] = 1 .. Len(docs[s]) /\ Len(docs[s]) \in Nat
  BY KeptFacts DEF Kept
<1>4. how[s] = "open" /\ next[s] = Len(out[s]) + 1
  BY <1>2, <1>3 DEF Sane, Told, Ended
<1>5. a \in ToSet(rows[s]) \cup buffer[s] /\ (s \in ordered => a.doc = next[s])
  BY <1>1 DEF Due
<1>6. a \in Answer
  <2>1. \A q \in Seq(Answer) : \A x \in ToSet(q) : x \in Answer
    BY DEF ToSet
  <2> QED  BY <1>3, <1>5, <2>1 DEF Typed
<1>7. a = [doc |-> a.doc, ok |-> a.ok]
  BY <1>6 DEF Answer
<1>8. a.ok = (docs[s][a.doc].fate = "ok")
  BY <1>3, <1>5 DEF Told, Fate
<1>9. a.doc \in Lies(s)["rows"] \cup Lies(s)["buffer"]
  <2>1. \A X : \A x \in X : x.doc \in InAnswers(X)
    BY DEF InAnswers
  <2>2. Lies(s)["rows"] = InAnswers(ToSet(rows[s])) /\ Lies(s)["buffer"] = InAnswers(buffer[s])
    BY LiesAre
  <2> QED  BY <1>5, <2>1, <2>2
<1>10. a.doc \in 1 .. Given(s) /\ a.doc \notin Lies(s)["out"]
  BY <1>3, <1>9 DEF Placed, Disjoint, InSome, Places
<1>11. a.doc \in DOMAIN docs[s] \ Service!Answered(s)
  <2>1. a.doc \in DOMAIN docs[s]
    BY <1>3, <1>10
  <2> QED  BY <1>10, <2>1, ServiceAnswered
<1>12. out' = [out EXCEPT ![s] = Append(@, [doc |-> a.doc, ok |-> docs[s][a.doc].fate = "ok"])]
  BY <1>1, <1>7, <1>8
<1>13. s \in ordered => a.doc = Len(out[s]) + 1
  BY <1>4, <1>5
<1> QED  BY <1>2, <1>4, <1>11, <1>12, <1>13 DEF Service!Answer

(* An end the service allows.                                                *)
LEMMA EndEnds ==
    ASSUME NEW s \in Streams, NEW h \in {"clean", "deadline", "abort"}, End(s, h), ~Ended(s), Kept(s),
           h = "deadline" => expired[s],
           h = "clean" => conn[s] = "gone" \/ expired[s] \/ (conn[s] # "open" /\ Service!Answered(s) = DOMAIN docs[s])
    PROVE  Service!End(s)
<1>1. how[s] = "open"
  BY DEF Kept, Sane
<1>2. how' = [how EXCEPT ![s] = h] /\ UNCHANGED <<ordered, conn, expired, docs, out>>
  BY DEF End, client, called
<1> QED  BY <1>1, <1>2 DEF Service!End

(* The exit test holds only when every document is answered.                 *)
LEMMA CheckAnswered ==
    ASSUME NEW s, Kept(s), eng[s] = "check", inputEnded[s], pending[s] = <<>>, runs[s] = {}, buffer[s] = {},
           stalled[s] = <<>>, ~expired[s]
    PROVE  conn[s] # "open" /\ Service!Answered(s) = DOMAIN docs[s]
<1>1. Phased(s) /\ Sane(s) /\ Placed(s)
  BY DEF Kept
<1>2. ~dead[s] /\ reader[s] = "done" /\ work[s] = <<>>
  BY <1>1 DEF Sane, Ended
<1>3. round[s] = NoRound /\ outcome[s].docs = <<>> /\ rows[s] = <<>>
  BY <1>1 DEF Phased, Grouping
<1>4. /\ ToSet(<<>>) = {} /\ InBatches(<<>>) = {} /\ InAnswers({}) = {} /\ InRuns(s) = {}
      /\ round[s].groups = <<>> /\ round[s].leftover = <<>>
  BY <1>3, EmptyBatches DEF InRuns, NoRound
<1>5. conn[s] # "open"
  BY <1>1, <1>2, <1>4 DEF Sane
<1>6. /\ Lies(s)["work"] = {} /\ Lies(s)["pending"] = {} /\ Lies(s)["groups"] = {} /\ Lies(s)["leftover"] = {}
      /\ Lies(s)["stalled"] = {} /\ Lies(s)["runs"] = {} /\ Lies(s)["outcome"] = {} /\ Lies(s)["rows"] = {}
      /\ Lies(s)["buffer"] = {}
  <2>1. /\ ToSet(work[s]) = {} /\ ToSet(pending[s]) = {} /\ ToSet(rows[s]) = {}
        /\ InBatches(stalled[s]) = {} /\ InBatches(round[s].groups) = {} /\ ToSet(round[s].leftover) = {}
        /\ ToSet(outcome[s].docs) = {} /\ InAnswers(buffer[s]) = {}
    BY <1>2, <1>3, <1>4
  <2>2. InAnswers(ToSet(rows[s])) = {}
    BY <1>4, <2>1
  <2> QED  BY <1>4, <2>1, <2>2, LiesAre
<1>7. InSome(Lies(s)) = Lies(s)["out"]
  BY <1>6 DEF InSome, Places
<1>8. Given(s) = Len(docs[s]) /\ DOMAIN docs[s] = 1 .. Len(docs[s])
  BY <1>2, KeptFacts DEF Given
<1>9. Lies(s)["out"] = DOMAIN docs[s]
  BY <1>1, <1>2, <1>7, <1>8 DEF Placed
<1> QED  BY <1>5, <1>9, ServiceAnswered

Unseen == UNCHANGED <<ordered, conn, expired, docs, out, how>>

(* Every step is a step of the service, or one its client cannot see.        *)
LEMMA StepServes ==
    ASSUME Maps, NEW s \in Streams, Kept(s),
           \/ Reader(s) \/ Client(s) \/ ClientReads(s) \/ Engine(s)
           \/ RunStarts(s) \/ RunEnds(s) \/ Expires(s) \/ DeadTimer(s)
    PROVE  \/ Service!Client(s) \/ Service!Expires(s) \/ Service!Accept(s) \/ Service!Answer(s) \/ Service!End(s)
           \/ Unseen
<1>1. CASE HalfClose(s) \/ Breaks(s) \/ GoesAway(s)
  <2>1. Service!Client(s)
    BY <1>1 DEF HalfClose, Breaks, GoesAway, Service!Client, told, called
  <2> QED  BY <2>1
<1>2. CASE ReadDoc(s)
  <2>1. Service!Accept(s)
    BY <1>2 DEF ReadDoc, OnlyReader, client, told, Service!Accept
  <2> QED  BY <2>1
<1>3. CASE Expires(s)
  <2>1. Service!Expires(s)
    BY <1>3 DEF Expires, client, told, called, Service!Expires
  <2> QED  BY <2>1
<1>4. CASE Reader(s) \/ ReadMisplaced(s) \/ ClientReads(s) \/ DeadTimer(s) \/ RunStarts(s) \/ RunEnds(s)
  BY <1>4 DEF Reader, ReaderLoop, ReadEnd, ReadError, Admit, WaitDies, Put, OnlyReader, ReadMisplaced, ClientReads,
              DeadTimer, RunStarts, RunEnds, OnlyRuns, client, told, called, Unseen
<1>5. CASE \/ Top(s) \/ BranchDeadline(s) \/ BranchDoc(s) \/ BranchInputEnds(s) \/ BranchJoin(s) \/ BranchLinger(s)
           \/ BranchRetry(s)
  BY <1>5 DEF Top, BranchDeadline, BranchDoc, BranchInputEnds, BranchJoin, BranchLinger, BranchRetry, AbortDeadline,
              client, told, called, Unseen
<1>6. CASE \/ Deliver(s) \/ Split(s) \/ Enqueue(s) \/ Enqueued(s) \/ Retry(s) \/ Retried(s) \/ JoinAll(s)
           \/ DispatchNothing(s) \/ DispatchGroups(s) \/ DispatchGroup(s) \/ DispatchEnds(s)
  <2>1. Local
    BY <1>6, Zenon DEF Deliver, Split, Enqueue, Enqueued, Retry, Retried, JoinAll, DispatchNothing, DispatchGroups,
                DispatchGroup, DispatchEnds
  <2> QED  BY <2>1 DEF Local, client, told, called, Unseen
<1>7. CASE Send(s)
  BY <1>7, SendAnswers
<1>8. CASE SendFails(s) \/ BranchClosed(s)
  <2>1. End(s, "clean") /\ conn[s] = "gone" /\ ~Ended(s)
    BY <1>8 DEF SendFails, BranchClosed, Ended
  <2> QED  BY <2>1, EndEnds
<1>9. CASE SendStatus(s)
  <2>1. PICK h \in {"deadline", "abort"} : h = eng[s] /\ End(s, h)
    BY <1>9 DEF SendStatus
  <2>2. ~Ended(s) /\ (h = "deadline" => expired[s])
    BY <2>1 DEF Kept, Sane, Ended
  <2> QED  BY <2>1, <2>2, EndEnds
<1>10. CASE DeliverFailed(s)
  <2>1. CASE dead[s] /\ End(s, "clean")
    <3>1. ~Ended(s) /\ expired[s]
      BY <1>10, <2>1 DEF DeliverFailed, Kept, Sane, Ended
    <3> QED  BY <2>1, <3>1, EndEnds
  <2>2. CASE Local
    BY <2>2 DEF Local, client, told, called, Unseen
  <2> QED  BY <1>10, <2>1, <2>2 DEF DeliverFailed
<1>11. CASE Check(s)
  <2>1. CASE Local
    BY <2>1 DEF Local, client, told, called, Unseen
  <2>2. CASE ~Local
    <3>1. /\ eng[s] = "check" /\ inputEnded[s] /\ pending[s] = <<>> /\ runs[s] = {} /\ buffer[s] = {}
          /\ stalled[s] = <<>> /\ End(s, "clean")
      BY <1>11, <2>2 DEF Check
    <3>2. ~Ended(s)
      BY <3>1 DEF Ended
    <3>3. expired[s] \/ (conn[s] # "open" /\ Service!Answered(s) = DOMAIN docs[s])
      BY <3>1, CheckAnswered
    <3> QED  BY <3>1, <3>2, <3>3, EndEnds
  <2> QED  BY <2>1, <2>2
<1> QED  BY <1>1, <1>2, <1>3, <1>4, <1>5, <1>6, <1>7, <1>8, <1>9, <1>10, <1>11 DEF Client, Engine, Branch

(* The bulk call is the service its client was promised: every step of the   *)
(* reader, the engine and the runs is a step of StreamService or one the client *)
(* cannot see. Each document is answered at most once, with its own result, in *)
(* the order asked for, and a call ends well before its deadline only when all *)
(* its documents are answered (engine.rs deliver, abort_deadline).           *)
THEOREM StreamImplementsService == Spec => ImplementsService
<1>1. Init => Service!Init
  BY DEF Init, Service!Init
<1>2. DInv /\ [Next]_vars => [Service!Next]_Service!vars
  <2>1. SUFFICES ASSUME DInv, [Next]_vars PROVE [Service!Next]_Service!vars
    OBVIOUS
  <2>2. CASE Next
    <3>1. PICK s \in Streams : \/ Reader(s) \/ Client(s) \/ ClientReads(s) \/ Engine(s)
                               \/ RunStarts(s) \/ RunEnds(s) \/ Expires(s) \/ DeadTimer(s)
      BY <2>2 DEF Next
    <3>2. Maps /\ Kept(s)
      BY <2>1 DEF DInv
    <3>3. \/ Service!Client(s) \/ Service!Expires(s) \/ Service!Accept(s) \/ Service!Answer(s) \/ Service!End(s)
          \/ Unseen
      BY <3>1, <3>2, StepServes
    <3> QED  BY <3>3 DEF Service!Next, Service!vars, Unseen
  <2>3. CASE UNCHANGED vars
    BY <2>3 DEF vars, Service!vars
  <2> QED  BY <2>1, <2>2, <2>3
<1>3. Spec => []DInv
  BY DocumentsAlwaysKept, PTL
<1> QED  BY <1>1, <1>2, <1>3, PTL DEF Spec, ImplementsService, Service!Spec
=============================================================================
