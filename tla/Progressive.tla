---------------------------- MODULE Progressive ----------------------------
(***************************************************************************)
(* AnalyzeDocumentProgressive: Analyzer::run_progressive of                *)
(* analysis/core/src/analyzer/progressive.rs under the task that streams   *)
(* its events, server/src/progressive/mod.rs, with the deadline timer of   *)
(* server/src/deadline.rs and the client.                                  *)
(*                                                                         *)
(* The task is one blocking thread; `at' says where it is. The threads it  *)
(* spawns compute on the documents as they were when it spawned them and   *)
(* hand their outputs back through a channel, from which the task takes    *)
(* them in any order. The cancel flag is set by the timer, by the client's *)
(* dropped reply and by the task, and read by the task alone.              *)
(***************************************************************************)
EXTENDS StepGraph

CONSTANTS
    Jobs, \* the graphs run, each with the documents its steps fail on
    Docs, \* the documents of a run
    Room  \* events the reply's channel holds: 32

ASSUME ProgressiveAssumption ==
    /\ Room \in Nat \ {0}
    /\ \A g \in Jobs :
         /\ IsFiniteSet(Steps(g)) /\ Steps(g) \subseteq Nat \ {0}
         /\ DOMAIN g.requires = Steps(g) /\ DOMAIN g.fails = Steps(g)
         /\ g.views \subseteq Steps(g)
         /\ \A i \in Steps(g) : /\ g.requires[i] \subseteq g.reads[i]
                                /\ g.reads[i] \subseteq Steps(g)
                                /\ g.fails[i] \subseteq Docs
         /\ Valid(g)

VARIABLES
    graph,    \* the analyzer's steps
    stageOf, topo, \* its plan
    at,       \* where the task is
    after,    \* where it goes once its event is in the channel
    event,    \* the event it is sending
    docs,     \* the documents
    state,    \* each step: unstarted, running or done
    snapshot, \* the documents a running step computes on
    deferred, \* steps reported skipped that still wait for an input
    sent,     \* history: what went into the channel, in order
    read,     \* how many of those the client's stream has taken
    cancel,   \* the shared flag
    late,     \* the deadline's instant is past
    timedOut, \* the deadline's own flag
    client    \* where the client's stream is

plan     == <<graph, stageOf, topo>>
work     == <<docs, state, snapshot, deferred>>
channel  == <<sent, read>>
deadline == <<late, timedOut>>
vars == <<plan, at, after, event, work, channel, cancel, deadline, client>>

NoEvent == [kind |-> "none"]
Ok(seq, kind) == [kind |-> kind, seq |-> seq, step |-> 0, skips |-> {}]
StepEvent(seq, kind, i, skips) == [kind |-> kind, seq |-> seq, step |-> i, skips |-> skips]
Err(kind) == [kind |-> kind, seq |-> 0, step |-> 0, skips |-> {}]
LastWords == {"complete", "failure", "deadline"}

NextSeq == Cardinality({k \in DOMAIN sent : sent[k].seq > 0}) + 1

Init ==
    /\ graph \in Jobs
    /\ stageOf = StageOf(graph)
    /\ topo = TopoSteps(graph)
    /\ at = "start"
    /\ after = "none"
    /\ event = NoEvent
    /\ docs = [d \in Docs |-> NoLayers]
    /\ state = [i \in Steps(graph) |-> "unstarted"]
    /\ snapshot = [i \in Steps(graph) |-> NoLayers]
    /\ deferred = {}
    /\ sent = <<>>
    /\ read = 0
    /\ cancel = FALSE
    /\ late = FALSE
    /\ timedOut = FALSE
    /\ client = "reading"

----------------------------------------------------------------------------
(* The deadline: is_expired trips both flags itself when it finds the      *)
(* instant past before the timer has run.                                  *)

Expired == timedOut \/ late
IsExpired ==
    /\ timedOut' = (timedOut \/ late)
    /\ cancel' = (cancel \/ (late /\ ~timedOut))

TimePasses ==
    /\ ~late
    /\ late' = TRUE
    /\ UNCHANGED <<plan, at, after, event, work, channel, cancel, timedOut, client>>

TimerFires ==
    /\ late /\ ~timedOut
    /\ timedOut' = TRUE
    /\ UNCHANGED <<plan, at, after, event, work, channel, cancel, late, client>>

TimerCancels ==
    /\ timedOut /\ ~cancel
    /\ cancel' = TRUE
    /\ UNCHANGED <<plan, at, after, event, work, channel, deadline, client>>

----------------------------------------------------------------------------
(* blocking_send: waits for room, and fails when the reply is dropped.     *)

Sending(e, then) == at' = "sending" /\ event' = e /\ after' = then

Send ==
    /\ at = "sending"
    /\ client # "gone"
    /\ Len(sent) - read < Room
    /\ sent' = Append(sent, event)
    /\ event' = NoEvent
    /\ at' = after
    /\ after' = "none"
    /\ UNCHANGED <<plan, work, read, cancel, deadline, client>>

(* A refused start or step event cancels; nobody looks at a refused last   *)
(* one.                                                                    *)
SendRefused ==
    /\ at = "sending"
    /\ client = "gone"
    /\ at' = IF event.kind = "started" THEN "done" ELSE after
    /\ cancel' = (cancel \/ event.kind \notin LastWords)
    /\ event' = NoEvent
    /\ after' = "none"
    /\ UNCHANGED <<plan, work, channel, deadline, client>>

----------------------------------------------------------------------------
(* The task up to the steps. An export may fail at any time.               *)

Start ==
    /\ at = "start"
    /\ IsExpired
    /\ \/ Expired /\ Sending(Err("deadline"), "done")
       \/ ~Expired /\ Sending(Err("failure"), "done")
       \/ ~Expired /\ Sending(Ok(1, "started"), "spawning")
    /\ UNCHANGED <<plan, work, channel, late, client>>

(* The steps. An input that a later stage makes, an optional one on a      *)
(* cycle, is not waited for.                                               *)
Running == {i \in DOMAIN state : state[i] = "running"}

DepsReady(i, done) == \A p \in graph.reads[i] : stageOf[p] >= stageOf[i] \/ p \in done

Before(i, j) == stageOf[i] < stageOf[j] \/ (stageOf[i] = stageOf[j] /\ i < j)

ToSpawnViewsBeside ==
    LET done == {i \in DOMAIN state : state[i] = "done"}
    IN  {i \in DOMAIN state : state[i] = "unstarted" /\ DepsReady(i, done)}

(* A step that writes a view waits for the views before it and runs alone; *)
(* while one is ready, no step after it is started.                        *)
ToSpawn ==
    LET done  == {i \in DOMAIN state : state[i] = "done"}
        ready == {i \in DOMAIN state : state[i] = "unstarted" /\ DepsReady(i, done)}
        views == ready \cap graph.views
        beside == {i \in ready \ views : \A v \in views : Before(i, v)}
        alone  == {v \in views : /\ Running = {}
                                 /\ \A i \in ready : ~Before(i, v)
                                 /\ \A u \in graph.views : Before(u, v) => u \in done}
    IN  IF Running \cap graph.views # {} THEN {}
        ELSE IF beside # {} THEN beside ELSE alone

SpawnReadyAndWait ==
    /\ at = "spawning"
    /\ LET chosen == IF cancel THEN {} ELSE ToSpawn
       IN  /\ state' = [i \in DOMAIN state |-> IF i \in chosen THEN "running" ELSE state[i]]
           /\ snapshot' = [i \in DOMAIN state |-> IF i \in chosen THEN docs ELSE snapshot[i]]
           /\ at' = IF \A i \in DOMAIN state : state[i] = "done" THEN "joined" ELSE "receiving"
    /\ UNCHANGED <<plan, after, event, docs, deferred, channel, cancel, deadline, client>>

SpawnReady ==
    /\ at = "spawning"
    /\ LET chosen == IF cancel THEN {} ELSE ToSpawn
       IN  /\ state' = [i \in DOMAIN state |-> IF i \in chosen THEN "running" ELSE state[i]]
           /\ snapshot' = [i \in DOMAIN state |-> IF i \in chosen THEN docs ELSE snapshot[i]]
           /\ at' = IF chosen \cup Running = {} THEN "joined" ELSE "receiving"
    /\ UNCHANGED <<plan, after, event, docs, deferred, channel, cancel, deadline, client>>

StoreAll(i, from, onto) == [d \in Docs |-> Store(graph, i, Compute(graph, i, d, from[d]), onto[d])]

(* What a failed step takes with it, in plan order: each unstarted step    *)
(* blocked on every document is reported, and skipped at once if the rest  *)
(* of its inputs are settled; else it is left for later.                   *)
Blocked(j, now) ==
    \A d \in Docs : \E p \in graph.requires[j] :
       p \in now.deferred \/ (p \in DOMAIN now.docs[d] /\ now.docs[d][p].status # "complete")

CascadeAtOnce(now, j) ==
    IF now.state[j] # "unstarted" \/ ~Blocked(j, now) THEN now
    ELSE [now EXCEPT !.skips = @ \cup {j}, !.state[j] = "done", !.docs = StoreAll(j, @, @)]

CascadeAnew(now, j) ==
    IF now.state[j] # "unstarted" \/ ~Blocked(j, now) THEN now
    ELSE LET told == [now EXCEPT !.skips = @ \cup {j}]
         IN  IF DepsReady(j, {p \in DOMAIN now.state : now.state[p] = "done"})
               THEN [told EXCEPT !.state[j] = "done", !.docs = StoreAll(j, @, @)]
               ELSE [told EXCEPT !.deferred = @ \cup {j}]

Cascade(now, j) ==
    IF now.state[j] # "unstarted" \/ ~Blocked(j, now) THEN now
    ELSE LET told == [now EXCEPT !.skips = IF j \in now.deferred THEN @ ELSE @ \cup {j}]
         IN  IF DepsReady(j, {p \in DOMAIN now.state : now.state[p] = "done"})
               THEN [told EXCEPT !.state[j] = "done", !.docs = StoreAll(j, @, @)]
               ELSE [told EXCEPT !.deferred = @ \cup {j}]

Settle(i) ==
    LET stored == [docs |-> StoreAll(i, snapshot[i], docs), state |-> [state EXCEPT ![i] = "done"],
                   deferred |-> deferred, skips |-> {}]
        failed == \E d \in Docs : stored.docs[d][i].status = "failed"
        past[k \in 0..Len(topo)] == IF k = 0 THEN stored ELSE Cascade(past[k - 1], topo[k])
    IN  [failed |-> failed, now |-> IF failed THEN past[Len(topo)] ELSE stored]

(* on_step, unless the call is cancelled: the step's event, or the failure *)
(* of its export, its encoding or its size, which cancels once it is sent. *)
Receive(i) ==
    /\ at = "receiving"
    /\ state[i] = "running"
    /\ LET settled == Settle(i)
       IN  /\ docs' = settled.now.docs
           /\ state' = settled.now.state
           /\ deferred' = settled.now.deferred
           /\ snapshot' = [snapshot EXCEPT ![i] = NoLayers]
           /\ IF cancel
                THEN at' = "spawning" /\ UNCHANGED <<after, event>>
                ELSE \/ Sending(StepEvent(NextSeq, IF settled.failed THEN "step_failed" ELSE "layers",
                                          i, settled.now.skips), "spawning")
                     \/ Sending(Err("failure"), "cancelling")
    /\ UNCHANGED <<plan, channel, cancel, deadline, client>>

StepGivesUp ==
    /\ at = "cancelling"
    /\ cancel' = TRUE
    /\ at' = "spawning"
    /\ UNCHANGED <<plan, after, event, work, channel, deadline, client>>

----------------------------------------------------------------------------
(* The task after the steps.                                               *)

CheckDeadline ==
    /\ at = "joined"
    /\ IsExpired
    /\ IF Expired THEN Sending(Err("deadline"), "done")
                  ELSE at' = "in_time" /\ UNCHANGED <<after, event>>
    /\ UNCHANGED <<plan, work, channel, late, client>>

CheckCancel ==
    /\ at = "in_time"
    /\ \/ cancel /\ at' = "done" /\ UNCHANGED <<after, event>>
       \/ ~cancel /\ Sending(Ok(NextSeq, "complete"), "done")
       \/ ~cancel /\ Sending(Err("failure"), "done")
    /\ UNCHANGED <<plan, work, channel, cancel, deadline, client>>

----------------------------------------------------------------------------
(* The client's stream: tonic reads it, to its end or to an error, or      *)
(* drops it, which cancels before it closes the channel.                   *)

Ended == read = Len(sent) /\ at = "done"

ClientReads ==
    /\ client = "reading"
    /\ read < Len(sent)
    /\ read' = read + 1
    /\ client' = IF sent[read + 1].kind \in {"failure", "deadline"} THEN "dropping" ELSE client
    /\ UNCHANGED <<plan, at, after, event, work, sent, cancel, deadline>>

ClientLeaves ==
    /\ client = "reading"
    /\ client' = "dropping"
    /\ UNCHANGED <<plan, at, after, event, work, channel, cancel, deadline>>

DropCancels ==
    /\ client = "dropping"
    /\ cancel' = TRUE
    /\ client' = "closing"
    /\ UNCHANGED <<plan, at, after, event, work, channel, deadline>>

DropCloses ==
    /\ client = "closing"
    /\ client' = "gone"
    /\ UNCHANGED <<plan, at, after, event, work, channel, cancel, deadline>>

----------------------------------------------------------------------------
Task == Start \/ Send \/ SendRefused \/ SpawnReady \/ (\E i \in DOMAIN state : Receive(i))
          \/ StepGivesUp \/ CheckDeadline \/ CheckCancel
Timer == TimerFires \/ TimerCancels
Client == ClientReads \/ DropCancels \/ DropCloses

Next == Task \/ TimePasses \/ Timer \/ Client \/ ClientLeaves

Spec == Init /\ [][Next]_vars

(* The task's thread and its steps run, and the client's side is either    *)
(* read or dropped to the end. No timer has to fire.                       *)
FairSpec == Spec /\ WF_vars(Task) /\ WF_vars(Client)

----------------------------------------------------------------------------
Settled == at \in {"joined", "in_time"} \/ \E k \in DOMAIN sent : sent[k].kind = "complete"
Told(i) == \E k \in DOMAIN sent : sent[k].step = i
Skipped(i) == \E k \in DOMAIN sent : i \in sent[k].skips

(* progressive.rs:74-76 and the assertion at 257: whatever the order the   *)
(* steps finish in, and whichever fail, a run that nobody cancelled has    *)
(* run every step and leaves the documents Analyzer::run leaves, to their  *)
(* provenance and the ids of their views.                                  *)
MatchesRun ==
    Settled /\ ~cancel =>
       /\ \A i \in DOMAIN state : state[i] = "done"
       /\ \A d \in Docs : docs[d] = Run(graph, d)

(* When the code's order is right: who makes an optional input of a cycle  *)
(* waits, itself or through those it waits for, for the one that reads it. *)
(* The stages alone do not say so.                                         *)
WaitsFor(g, i) == {p \in g.reads[i] : StageOf(g)[p] < StageOf(g)[i]}

LoopsWait(g) ==
    \A i \in Steps(g) : \A p \in g.reads[i] \ (WaitsFor(g, i) \cup {i}) :
        \A S \in SUBSET Steps(g) :
            p \in S /\ (\A j \in S : WaitsFor(g, j) \subseteq S) => i \in S

(* progressive.rs:69-72 and 220: the documents an event carries hold every *)
(* layer the provenance of one of theirs names, and no view out of order.  *)
SnapshotsAreClosed ==
    \A d \in Docs : \A i \in DOMAIN docs[d] :
       /\ docs[d][i].reads \subseteq DOMAIN docs[d]
       /\ \A j \in DOMAIN docs[d] \cap graph.views :
            i \in graph.views /\ docs[d][i].view > 0 /\ docs[d][j].view > 0 /\ Before(i, j)
              => docs[d][i].view < docs[d][j].view

(* mod.rs:1-5: the reply starts with Started, numbers its events from 1    *)
(* without a gap, tells of a step at most once and skips it in one event   *)
(* at most. A Complete is the last word, after an event for every step     *)
(* that ran and a reported skip for every one that did not.                *)
ReplyIsWhole ==
    /\ \A k \in DOMAIN sent :
          /\ sent[k].seq \in {0, k}
          /\ sent[k].seq = k => (sent[k].kind = "started" <=> k = 1)
    /\ \A j, k \in DOMAIN sent : j < k =>
          /\ sent[j].seq = 0 => sent[k].seq = 0
          /\ sent[j].step = 0 \/ sent[j].step # sent[k].step
          /\ sent[j].skips \cap sent[k].skips = {}
    /\ \A k \in DOMAIN sent : sent[k].kind = "complete" =>
          /\ k = Len(sent) /\ sent[k].seq = k
          /\ \A i \in DOMAIN state : Told(i) \/ Skipped(i)
          /\ \A i \in DOMAIN state : Skipped(i) => \A d \in Docs : docs[d][i].status = "skipped"

(* The task ends, and frees its thread, whatever fails, expires or leaves, *)
(* as long as the client reads or goes.                                    *)
TaskEnds == <>(at = "done")

(* docs/grpc.md:293-295: "When a deadline expires, in-flight batches and   *)
(* pipeline steps stop cooperatively, ... and answer DEADLINE_EXCEEDED".   *)
DeadlineIsAnswered ==
    Ended /\ client = "reading" => \E k \in DOMAIN sent : sent[k].kind \in LastWords
=============================================================================
