--------------------------- MODULE ModelRegistry ---------------------------
(***************************************************************************)
(* The served models and the health watches that follow them:              *)
(* server/src/state.rs, server/src/health.rs and the LoadBundle and        *)
(* UnloadBundle handlers of server/src/analysis.rs.                        *)
(*                                                                         *)
(* A registration is an Arc<Served>: one per configured model and one per  *)
(* LoadBundle call, told apart by identity and not by name. A LoadBundle   *)
(* is two actors: its handler, which goes away when its client does, and   *)
(* its load, a blocking task that does not. `models' is an RwLock, taken   *)
(* for one step each time; a change and the notification after it are two  *)
(* steps. The version of the watch channel is, to each receiver, whether   *)
(* it has changed since it looked.                                         *)
(***************************************************************************)
EXTENDS Integers, FiniteSets, SequencesExt

CONSTANTS
    Boot,      \* the configured models' registrations
    BootName,  \* their names
    Calls,     \* LoadBundle calls, each the registration it may make
    Names,     \* names a model is served under
    MaxModels, \* MAX_LOADED_MODELS
    Watches,   \* Health/Watch calls
    Services,  \* what they name: the server, or models
    Server,    \* the empty service name
    Room,      \* frames a watch's channel holds
    Unloads    \* bound: UnloadBundle calls

ASSUME RegistryAssumption ==
    /\ Boot \cap Calls = {}
    /\ BootName \in [Boot -> Names]
    /\ \A a, b \in Boot : BootName[a] = BootName[b] => a = b
    /\ IsFiniteSet(Boot) /\ Cardinality(Boot) <= MaxModels
    /\ Services \subseteq Names \cup {Server}
    /\ Server \notin Names
    /\ {MaxModels, Room} \subseteq Nat \ {0}
    /\ Unloads \in Nat

Starting == "Server::load"
NoOne == "no_one"
ASSUME NobodyAssumption == {Starting, NoOne} \cap (Boot \cup Calls) = {}

Regs == Boot \cup Calls

VARIABLES
    models,    \* the served registrations, in serve order
    nameOf,    \* each registration's name
    loaded,    \* registrations whose load is published
    loading,   \* who holds the loading mutex
    handler,   \* where each LoadBundle handler is
    task,      \* where its load is
    start,     \* where Server::load is, and what it has left to load
    draining, stopping,
    stopper,   \* where drain and stop are
    unloader,  \* unloads under way that have not notified yet
    unloads,   \* unloads done
    watch,     \* where each watch's task is
    service,   \* what it names
    unseen,    \* the channel has changed since it looked
    wasDraining, \* what it has just read of `draining'
    last,      \* the last status it sent or is about to send
    frames,    \* its channel to the client
    shown,     \* the last status the client has read
    gone,      \* the client has dropped the watch
    loads      \* history: loads of each registration that succeeded

registry == <<models, nameOf, loaded, loading>>
loaders  == <<handler, task, start, loads>>
ending   == <<draining, stopping, stopper>>
unloading == <<unloader, unloads>>
watching == <<watch, service, wasDraining, last, frames, shown, gone>>
vars == <<registry, loaders, ending, unloading, watching, unseen>>

None == "none"

Init ==
    /\ models = SetToSeq(Boot)
    /\ nameOf = [r \in Regs |-> IF r \in Boot THEN BootName[r] ELSE None]
    /\ loaded = {}
    /\ loading = NoOne
    /\ handler = [c \in Calls |-> "idle"]
    /\ task = [c \in Calls |-> "none"]
    /\ start = [at |-> "start", left |-> <<>>]
    /\ draining = FALSE
    /\ stopping = FALSE
    /\ stopper = "serving"
    /\ unloader = 0
    /\ unloads = 0
    /\ watch = [w \in Watches |-> "idle"]
    /\ service = [w \in Watches |-> None]
    /\ unseen = [w \in Watches |-> FALSE]
    /\ wasDraining = [w \in Watches |-> FALSE]
    /\ last = [w \in Watches |-> None]
    /\ frames = [w \in Watches |-> <<>>]
    /\ shown = [w \in Watches |-> None]
    /\ gone = [w \in Watches |-> FALSE]
    /\ loads = [r \in Regs |-> 0]

Serving(n) == \E r \in Range(models) : nameOf[r] = n

(* A receiver lives as long as its watch's task.                           *)
NotifyHealth ==
    unseen' = [w \in Watches |-> watch[w] \notin {"idle", "dropped", "closed"}]

----------------------------------------------------------------------------
(* LoadBundle: the handler registers, hands the load to a blocking task,   *)
(* waits for it and answers, or takes its registration back. It returns    *)
(* before that when the task panicked.                                     *)

Add(c) ==
    /\ handler[c] = "idle"
    /\ \E n \in Names :
         IF Serving(n) \/ Len(models) >= MaxModels
           THEN /\ handler' = [handler EXCEPT ![c] = "refused"]
                /\ UNCHANGED <<models, nameOf>>
           ELSE /\ models' = Append(models, c)
                /\ nameOf' = [nameOf EXCEPT ![c] = n]
                /\ handler' = [handler EXCEPT ![c] = "adding"]
    /\ UNCHANGED <<loaded, loading, task, start, loads, ending, unloading, watching, unseen>>

Added(c) ==
    /\ handler[c] = "adding"
    /\ handler' = [handler EXCEPT ![c] = "waiting"]
    /\ task' = [task EXCEPT ![c] = "queued"]
    /\ NotifyHealth
    /\ UNCHANGED <<registry, start, loads, ending, unloading, watching>>

Answer(c) ==
    /\ handler[c] = "waiting"
    /\ task[c] = "ok"
    /\ handler' = [handler EXCEPT ![c] = "answered"]
    /\ UNCHANGED <<registry, task, start, loads, ending, unloading, watching, unseen>>

RemoveByName(c) ==
    /\ handler[c] = "waiting"
    /\ task[c] = "failed"
    /\ \/ \E i \in DOMAIN models :
             /\ nameOf[models[i]] = nameOf[c]
             /\ models' = RemoveAt(models, i)
             /\ handler' = [handler EXCEPT ![c] = "removing"]
       \/ /\ ~Serving(nameOf[c])
          /\ handler' = [handler EXCEPT ![c] = "failed"]
          /\ UNCHANGED models
    /\ UNCHANGED <<nameOf, loaded, loading, task, start, loads, ending, unloading, watching, unseen>>

KeepTheFailed(c) ==
    /\ handler[c] = "waiting"
    /\ task[c] = "failed"
    /\ handler' = [handler EXCEPT ![c] = "failed"]
    /\ UNCHANGED <<registry, task, start, loads, ending, unloading, watching, unseen>>

RemoveIf(c) ==
    /\ handler[c] = "waiting"
    /\ task[c] = "failed"
    /\ \/ \E i \in DOMAIN models :
             /\ models[i] = c
             /\ models' = RemoveAt(models, i)
             /\ handler' = [handler EXCEPT ![c] = "removing"]
       \/ /\ c \notin Range(models)
          /\ handler' = [handler EXCEPT ![c] = "failed"]
          /\ UNCHANGED models
    /\ UNCHANGED <<nameOf, loaded, loading, task, start, loads, ending, unloading, watching, unseen>>

Removed(c) ==
    /\ handler[c] = "removing"
    /\ handler' = [handler EXCEPT ![c] = "failed"]
    /\ NotifyHealth
    /\ UNCHANGED <<registry, task, start, loads, ending, unloading, watching>>

(* The join of a load that panicked is an error of its own, returned       *)
(* before anything is rolled back.                                         *)
JoinFails(c) ==
    /\ handler[c] = "waiting"
    /\ task[c] = "panicked"
    /\ handler' = [handler EXCEPT ![c] = "broken"]
    /\ UNCHANGED <<registry, task, start, loads, ending, unloading, watching, unseen>>

(* The client resets its call, and the handler is dropped where it waits.  *)
CancelLoad(c) ==
    /\ handler[c] = "waiting"
    /\ handler' = [handler EXCEPT ![c] = "cancelled"]
    /\ UNCHANGED <<registry, task, start, loads, ending, unloading, watching, unseen>>

----------------------------------------------------------------------------
(* load_one, in the call's blocking task. A load is one long step of its   *)
(* own that succeeds, fails or panics. A panic lets go of the mutex like a *)
(* failure, and poisons it, which no lock heeds.                           *)

LoadOneUnlocked(c) ==
    /\ task[c] = "queued"
    /\ task' = [task EXCEPT ![c] = IF c \in loaded THEN "ok" ELSE "loading"]
    /\ UNCHANGED <<registry, handler, start, loads, ending, unloading, watching, unseen>>

LoadOne(c) ==
    /\ task[c] = "queued"
    /\ loading = NoOne
    /\ IF c \in loaded
         THEN task' = [task EXCEPT ![c] = "ok"] /\ UNCHANGED loading
         ELSE task' = [task EXCEPT ![c] = "loading"] /\ loading' = c
    /\ UNCHANGED <<models, nameOf, loaded, handler, start, loads, ending, unloading, watching, unseen>>

(* OnceLock::set does nothing to a load already published.                 *)
Publish(r) ==
    /\ loaded' = loaded \cup {r}
    /\ loads' = [loads EXCEPT ![r] = @ + 1]

LoadOneSucceeds(c) ==
    /\ task[c] = "loading"
    /\ Publish(c)
    /\ task' = [task EXCEPT ![c] = "published"]
    /\ UNCHANGED <<models, nameOf, loading, handler, start, ending, unloading, watching, unseen>>

LoadOneFails(c) ==
    /\ task[c] = "loading"
    /\ task' = [task EXCEPT ![c] = "failed"]
    /\ loading' = IF loading = c THEN NoOne ELSE loading
    /\ UNCHANGED <<models, nameOf, loaded, handler, start, loads, ending, unloading, watching, unseen>>

LoadOnePanics(c) ==
    /\ task[c] = "loading"
    /\ task' = [task EXCEPT ![c] = "panicked"]
    /\ loading' = IF loading = c THEN NoOne ELSE loading
    /\ UNCHANGED <<models, nameOf, loaded, handler, start, loads, ending, unloading, watching, unseen>>

PublishedQuietly(c) ==
    /\ task[c] = "published"
    /\ task' = [task EXCEPT ![c] = "ok"]
    /\ loading' = IF loading = c THEN NoOne ELSE loading
    /\ UNCHANGED <<models, nameOf, loaded, handler, start, loads, ending, unloading, watching, unseen>>

Published(c) ==
    /\ task[c] = "published"
    /\ task' = [task EXCEPT ![c] = "ok"]
    /\ loading' = IF loading = c THEN NoOne ELSE loading
    /\ NotifyHealth
    /\ UNCHANGED <<models, nameOf, loaded, handler, start, loads, ending, unloading, watching>>

----------------------------------------------------------------------------
(* Server::load: every model of one listing, in order, to the first that   *)
(* fails or panics, either of which is its error. The server is listening  *)
(* already.                                                                *)

Start(at, left) == start' = [at |-> at, left |-> left]

LoadAll ==
    /\ start.at = "start"
    /\ loading = NoOne
    /\ loading' = Starting
    /\ Start("walking", models)
    /\ UNCHANGED <<models, nameOf, loaded, handler, task, loads, ending, unloading, watching, unseen>>

LoadNext ==
    /\ start.at = "walking"
    /\ start.left # <<>>
    /\ IF Head(start.left) \in loaded
         THEN Start("walking", Tail(start.left))
         ELSE Start("loading", start.left)
    /\ UNCHANGED <<registry, handler, task, loads, ending, unloading, watching, unseen>>

NextSucceeds ==
    /\ start.at = "loading"
    /\ Publish(Head(start.left))
    /\ Start("published", Tail(start.left))
    /\ UNCHANGED <<models, nameOf, loading, handler, task, ending, unloading, watching, unseen>>

NextPublished ==
    /\ start.at = "published"
    /\ Start("walking", start.left)
    /\ NotifyHealth
    /\ UNCHANGED <<registry, handler, task, loads, ending, unloading, watching>>

NextFailsHolding ==
    /\ start.at = "loading"
    /\ Start("failed", <<>>)
    /\ UNCHANGED <<registry, handler, task, loads, ending, unloading, watching, unseen>>

NextFails ==
    /\ start.at = "loading"
    /\ Start("failed", <<>>)
    /\ loading' = NoOne
    /\ UNCHANGED <<models, nameOf, loaded, handler, task, loads, ending, unloading, watching, unseen>>

AllLoaded ==
    /\ start.at = "walking"
    /\ start.left = <<>>
    /\ Start("done", <<>>)
    /\ loading' = NoOne
    /\ UNCHANGED <<models, nameOf, loaded, handler, task, loads, ending, unloading, watching, unseen>>

----------------------------------------------------------------------------
(* UnloadBundle. Its handler does not wait, so it is never cut in two by a *)
(* client that goes away.                                                  *)

Unload(n) ==
    /\ unloads < Unloads
    /\ \E i \in DOMAIN models : nameOf[models[i]] = n /\ models' = RemoveAt(models, i)
    /\ unloads' = unloads + 1
    /\ unloader' = unloader + 1
    /\ UNCHANGED <<nameOf, loaded, loading, loaders, ending, watching, unseen>>

NotifyRemoved ==
    /\ unloader > 0
    /\ unloader' = unloader - 1
    /\ NotifyHealth
    /\ UNCHANGED <<registry, loaders, ending, unloads, watching>>

----------------------------------------------------------------------------
(* drain, which main calls first and an embedder may leave out, and the    *)
(* shutdown that stop begins with.                                         *)

Drain ==
    /\ stopper = "serving"
    /\ draining' = TRUE
    /\ stopper' = "draining"
    /\ UNCHANGED <<registry, loaders, stopping, unloading, watching, unseen>>

Drained ==
    /\ stopper = "draining"
    /\ stopper' = "drained"
    /\ NotifyHealth
    /\ UNCHANGED <<registry, loaders, draining, stopping, unloading, watching>>

ShutdownDrains ==
    /\ stopper \in {"serving", "drained"}
    /\ draining' = TRUE
    /\ stopper' = "shutting"
    /\ UNCHANGED <<registry, loaders, stopping, unloading, watching, unseen>>

ShutdownStops ==
    /\ stopper = "shutting"
    /\ stopping' = TRUE
    /\ stopper' = "stopping"
    /\ UNCHANGED <<registry, loaders, draining, unloading, watching, unseen>>

ShutdownSilent ==
    /\ stopper = "stopping"
    /\ stopper' = "stopped"
    /\ UNCHANGED <<registry, loaders, draining, stopping, unloading, watching, unseen>>

ShutdownNotifies ==
    /\ stopper = "stopping"
    /\ stopper' = "stopped"
    /\ NotifyHealth
    /\ UNCHANGED <<registry, loaders, draining, stopping, unloading, watching>>

----------------------------------------------------------------------------
(* Health/Watch. service_status reads `draining' and then the listing: for *)
(* a model's name the listing is locked from the search on, which the step *)
(* that reads it stands for.                                               *)

StatusGiven(s, drains) ==
    IF s = Server
      THEN IF ~drains /\ Range(models) \subseteq loaded THEN "serving" ELSE "not_serving"
      ELSE IF ~Serving(s) THEN "unknown"
      ELSE IF ~drains /\ \E r \in Range(models) : nameOf[r] = s /\ r \in loaded
      THEN "serving" ELSE "not_serving"

Subscribe(w) ==
    /\ watch[w] = "idle"
    /\ \E s \in Services : service' = [service EXCEPT ![w] = s]
    /\ unseen' = [unseen EXCEPT ![w] = FALSE]
    /\ watch' = [watch EXCEPT ![w] = "reading"]
    /\ UNCHANGED <<registry, loaders, ending, unloading, wasDraining, last, frames, shown, gone>>

ReadDraining(w) ==
    /\ watch[w] = "reading"
    /\ wasDraining' = [wasDraining EXCEPT ![w] = draining]
    /\ watch' = [watch EXCEPT ![w] = "judging"]
    /\ UNCHANGED <<registry, loaders, ending, unloading, unseen, service, last, frames, shown, gone>>

Judge(w) ==
    /\ watch[w] = "judging"
    /\ LET status == StatusGiven(service[w], wasDraining[w])
       IN  /\ watch' = [watch EXCEPT ![w] = IF status # last[w] THEN "sending" ELSE "checking"]
           /\ last' = [last EXCEPT ![w] = status]
    /\ wasDraining' = [wasDraining EXCEPT ![w] = FALSE]
    /\ UNCHANGED <<registry, loaders, ending, unloading, unseen, service, frames, shown, gone>>

Send(w) ==
    /\ watch[w] = "sending"
    /\ IF gone[w]
         THEN watch' = [watch EXCEPT ![w] = "dropped"] /\ UNCHANGED frames
         ELSE /\ Len(frames[w]) < Room
              /\ frames' = [frames EXCEPT ![w] = Append(@, last[w])]
              /\ watch' = [watch EXCEPT ![w] = "checking"]
    /\ UNCHANGED <<registry, loaders, ending, unloading, unseen, service, wasDraining, last, shown, gone>>

CheckStopping(w) ==
    /\ watch[w] = "checking"
    /\ watch' = [watch EXCEPT ![w] = IF stopping THEN "closed" ELSE "waiting"]
    /\ UNCHANGED <<registry, loaders, ending, unloading, unseen, service, wasDraining, last, frames, shown, gone>>

WakeForgets(w) ==
    /\ watch[w] = "waiting"
    /\ unseen[w] \/ gone[w]
    /\ watch' = [watch EXCEPT ![w] = IF gone[w] THEN "dropped" ELSE "checking"]
    /\ unseen' = [unseen EXCEPT ![w] = FALSE]
    /\ UNCHANGED <<registry, loaders, ending, unloading, service, wasDraining, last, frames, shown, gone>>

Changed(w) ==
    /\ watch[w] = "waiting"
    /\ unseen[w]
    /\ unseen' = [unseen EXCEPT ![w] = FALSE]
    /\ watch' = [watch EXCEPT ![w] = "reading"]
    /\ UNCHANGED <<registry, loaders, ending, unloading, service, wasDraining, last, frames, shown, gone>>

Closed(w) ==
    /\ watch[w] = "waiting"
    /\ gone[w]
    /\ watch' = [watch EXCEPT ![w] = "dropped"]
    /\ UNCHANGED <<registry, loaders, ending, unloading, unseen, service, wasDraining, last, frames, shown, gone>>

(* The client, and the connection that carries its frames to it.           *)
ClientReads(w) ==
    /\ ~gone[w]
    /\ frames[w] # <<>>
    /\ shown' = [shown EXCEPT ![w] = Head(frames[w])]
    /\ frames' = [frames EXCEPT ![w] = Tail(@)]
    /\ UNCHANGED <<registry, loaders, ending, unloading, unseen, watch, service, wasDraining, last, gone>>

ClientLeaves(w) ==
    /\ ~gone[w]
    /\ watch[w] # "idle"
    /\ gone' = [gone EXCEPT ![w] = TRUE]
    /\ frames' = [frames EXCEPT ![w] = <<>>]
    /\ shown' = [shown EXCEPT ![w] = None]
    /\ UNCHANGED <<registry, loaders, ending, unloading, unseen, watch, service, wasDraining, last>>

----------------------------------------------------------------------------
Handle(c) == Added(c) \/ Answer(c) \/ RemoveIf(c) \/ Removed(c) \/ JoinFails(c)
RunLoad(c) == LoadOne(c) \/ LoadOneSucceeds(c) \/ LoadOneFails(c) \/ LoadOnePanics(c) \/ Published(c)
LoadStart == LoadAll \/ LoadNext \/ NextSucceeds \/ NextPublished \/ NextFails \/ AllLoaded
Shut == Drained \/ ShutdownStops \/ ShutdownNotifies
RunWatch(w) == ReadDraining(w) \/ Judge(w) \/ Send(w) \/ CheckStopping(w) \/ Changed(w) \/ Closed(w)

Next ==
    \/ \E c \in Calls : Add(c) \/ Handle(c) \/ CancelLoad(c) \/ RunLoad(c)
    \/ LoadStart
    \/ \E n \in Names : Unload(n)
    \/ NotifyRemoved
    \/ Drain \/ ShutdownDrains \/ Shut
    \/ \E w \in Watches : Subscribe(w) \/ RunWatch(w) \/ ClientReads(w) \/ ClientLeaves(w)

Spec == Init /\ [][Next]_vars

(* Handlers, blocking tasks and watch tasks run to their end, a load ends  *)
(* in one of its three ways, and a client that keeps its watch reads it.     *)
(* Nobody has to call, cancel, unload, drain or stop.                      *)
FairSpec ==
    /\ Spec
    /\ \A c \in Calls : WF_vars(Handle(c)) /\ WF_vars(RunLoad(c))
    /\ WF_vars(LoadStart)
    /\ WF_vars(NotifyRemoved)
    /\ WF_vars(Shut)
    /\ \A w \in Watches : WF_vars(RunWatch(w)) /\ WF_vars(ClientReads(w))

----------------------------------------------------------------------------
Statuses == {"serving", "not_serving", "unknown"}

(* Every variable has its type; the listing is within its cap and serves   *)
(* no name twice.                                                          *)
TypeOK ==
    /\ models \in Seq(Regs) /\ Len(models) <= MaxModels
    /\ \A i, j \in 1..Len(models) : nameOf[models[i]] = nameOf[models[j]] => i = j
    /\ nameOf \in [Regs -> Names \cup {None}]
    /\ loaded \subseteq Regs
    /\ loading \in Regs \cup {Starting, NoOne}
    /\ handler \in [Calls -> {"idle", "adding", "waiting", "removing", "answered",
                              "failed", "refused", "cancelled", "broken"}]
    /\ task \in [Calls -> {"none", "queued", "loading", "published", "ok", "failed", "panicked"}]
    /\ start.at \in {"start", "walking", "loading", "published", "done", "failed"}
    /\ start.left \in Seq(Regs)
    /\ {draining, stopping} \subseteq BOOLEAN
    /\ stopper \in {"serving", "draining", "drained", "shutting", "stopping", "stopped"}
    /\ unloader \in 0..Unloads /\ unloads \in 0..Unloads
    /\ watch \in [Watches -> {"idle", "reading", "judging", "sending", "checking",
                              "waiting", "dropped", "closed"}]
    /\ service \in [Watches -> Services \cup {None}]
    /\ {unseen, wasDraining, gone} \subseteq [Watches -> BOOLEAN]
    /\ {last, shown} \subseteq [Watches -> Statuses \cup {None}]
    /\ \A w \in Watches : frames[w] \in Seq(Statuses) /\ Len(frames[w]) <= Room
    /\ loads \in [Regs -> Nat]

(* state.rs:112-114 and 279-281: one load at a time, so the load of a      *)
(* registration is made once, though Server::load and the call that        *)
(* registered it may both have been asked for it.                          *)
LoadedOnce == \A r \in Regs : loads[r] <= 1

(* state.rs:251-254: a registration leaves the listing only when its name  *)
(* is unloaded or its own load has failed; one call's rollback never takes *)
(* away what another registered under the same name.                       *)
OnlyItsOwnRollback ==
    [][\A r \in Range(models) : r \notin Range(models)' =>
         unloads' # unloads \/ (r \in Calls /\ task[r] = "failed")]_vars

(* A listed model that is not loaded keeps the whole server not ready, so  *)
(* somebody must still be at work on it: its call, or Server::load. The    *)
(* exceptions are three: Server::load has failed; a call was cancelled,    *)
(* whose failed load nobody rolls back; a call's load panicked, whose join *)
(* is returned (analysis.rs:111-112) before the rollback at 114.           *)
UnloadedIsExpected ==
    \A r \in Range(models) \ loaded :
       \/ r \in Boot /\ (start.at = "start" \/ r \in Range(start.left) \/ start.at = "failed")
       \/ r \in Calls /\ handler[r] \in {"adding", "waiting", "cancelled", "broken"}

(* Whatever happens between a watch's reads, its client is in the end      *)
(* shown the status the server then has, for as long as the watch lives.   *)
WatchConverges ==
    \A w \in Watches :
       <>[](watch[w] \in {"idle", "closed"} \/ gone[w]
              \/ shown[w] = StatusGiven(service[w], draining))

(* state.rs:186-187: stop closes every watch, also one subscribed while the *)
(* server stops.                                                           *)
StopClosesWatches ==
    \A w \in Watches :
       stopping /\ watch[w] # "idle" ~> watch[w] \in {"closed", "dropped"}

(* Every LoadBundle ends, whoever else loads, unloads or stops.            *)
CallsSettle ==
    \A c \in Calls :
       handler[c] = "adding" ~> handler[c] \in {"answered", "failed", "cancelled", "broken"}

(* state.rs:186-187: "so active health watch streams emit their final      *)
(* `NOT_SERVING` frame and close cleanly".                                 *)
FinalFrameIsNotServing ==
    \A w \in Watches : watch[w] = "closed" => last[w] # "serving"
=============================================================================
