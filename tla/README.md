# turboembed: TLA+ models, model checking and proofs

This directory holds TLA+ models of the concurrent core of turboembed, the TLC
configurations that check them on small instances, and theorems about them
that TLAPS checks for every value of the constants. Paths below are relative
to the repository. `PROJECT.json` lists each run, the source lines behind each
definition, the hazards each property watches, and for every property a mutant
of the model, a plausible bug, that the property catches.

Run a configuration with `tlc -config MCCpuPool.cfg MCCpuPool`, check the
proofs of a module with `tlapm CpuPoolProofs.tla`.

## 1. Inventory

turboembed is a Rust workspace. Most of its lines are sequential: numeric
kernels, tokenizers, some sixty text analysis crates. What is hard to test is
concentrated in the gRPC server (`server/src`) and in the little shared state of
the core. The table names the parts; "hard" is what a test would hardly
reach.

| Part | State | Operations | Hard |
|---|---|---|---|
| CPU thread pool, `core/src/cpu/pool.rs` | claim word, job, `want`, `done`, flags, park tokens | `run`, `take_units`, `wake`, worker loop, `drop` | lock-free claims, lost wakes, a borrowed closure |
| AnalyzeStream, `server/src/stream` | reader, work channel, engine queues, runs, sessions | read, admit, dispatch, run, deliver, answer, abort | ordering, back-pressure, deadline and cancel at any point, retries |
| Queue rooms, `server/src/stream/mod.rs` | four semaphores, gauges | admit, cancel, release | partial acquisition |
| Sink forwarder, `server/src/sink` | bounded queue, counters, one outgoing call | offer, feed, drain, close | counters against a queue, time-out against a hung call |
| Model registry and health, `server/src/state.rs`, `health.rs`, `analysis.rs` | models listed, models loaded, draining, stopping, a watch channel | load, add, remove, rollback, drain, shutdown, watch | callers of one load, missed notifications |
| Search service, `server/src/search` | indexes, aliases, sealed flag, documents | create, delete, index, seal, reindex, alias | two locks that are taken one after the other |
| Progressive analysis, `analysis/core/src/analyzer/progressive.rs`, `server/src/progressive` | the steps' layers, cancel flag, event channel, deadline | start, settle and skip steps, send events, complete | steps that finish in any order; one flag that means three things |
| Incremental analysis, `analysis/core/src/analyzer` | step graph, layers written | edit, splice, rerun | which steps may be kept |
| Vocabulary store, `server/src/vocabulary/store.rs` | files and an index of them, one mutex | put, read, delete, open | a stop between two files, readers that let go of the mutex |
| Training, `server/src/training` | one slot, staging directories, publication lock | train, publish, delete | rollback over a shared registry |
| Catalog, `server/src/catalog`, and zoo, `analysis/zoo` | cache directory, install slot, gates, acceptances | install, read-through, prefetch, accept | writers of one file, clients that go away, free disk space counted twice |
| Core sessions, `core/src/session` | options, inputs, result generation | write, run, read | calls out of order |
| NPU blob cache, kernel tuning cache | bounded maps, files | load, keep, forget; get, put | fall-backs, files shared by processes |
| Chunk optimizer, tokenizers | none | pure functions | the algorithm itself |
| Inference and task handlers, inspection, metrics, TLS, configuration, backends, tools, bindings | little of their own | conversions, driver calls | not of this kind |

How they interact. A call enters through tonic and becomes a task. Handlers
take a session of a loaded model from its channel (`Loaded::take`), run it on a
blocking thread and drop it, which returns it; the CPU backend of that run
splits its loops over the thread pool. AnalyzeStream does that for many
documents at once and offers finished graphs to the sink forwarder, which
another task sends on. LoadBundle, UnloadBundle, training and the start of the
server all change the model registry, whose changes the health watches follow.
The deadline of a call is a flag set by a timer that readers, engines and runs
look at. A progressive call is one blocking task over the analyzer's step graph,
which hands events to the client through a bounded channel. The catalog's
installs and read-throughs write the cache that its readers stream from.

What makes each correct, in a line: the pool runs each task once, inside the
call that owns its closure; a stream answers each document once, with its own
result, in the order asked for, and gives back what it held; the forwarder's
counters tell what its queue holds and closing it empties it; a name is served
by one load of one registration, taken away only by its own caller, and watches
end up with the truth; a document answered for can be found, a sealed index
does not change, an alias leads somewhere; a progressive run leaves the documents
a plain run leaves and its reply is whole; the vocabulary store is a map that
survives a stop; a file under its name in the model cache is a verified one.

## 2. Modules

| Module | Role |
|---|---|
| `ParallelFor` | abstract: a loop whose tasks are taken and finished once |
| `CpuPool` | `pool.rs`, each shared atomic a step; refines `ParallelFor` |
| `CpuPoolProofs` | theorems about `CpuPool` and their proofs |
| `StreamService` | abstract: what a client of AnalyzeStream may see |
| `AnalyzeStream` | reader, engine, runs and sessions; refines `StreamService` |
| `StreamAdmission` | one document's admission, semaphore by semaphore |
| `SinkForwarder` | queue, counters, feed, drain and close |
| `ModelRegistry` | registry, load callers, start, drain, shutdown and watches |
| `SearchRegistry` | indexes, aliases, writes, reindex and searches |
| `StepGraph` | pure: the analyzer's schedule and the result of a plain run |
| `Progressive` | a progressive run and its reply, against `StepGraph` |
| `ArtifactMap` | abstract: the map of artifacts a vocabulary store promises |
| `VocabularyStore` | its files, index and mutex, with failures and stops; refines `ArtifactMap` |
| `CatalogCache` | installs, read-throughs and the prefetch over one cache of files |
| `Sums` | sums over a set, as the number of their units; used by `StreamAdmission` and `SinkForwarder` |
| `AnalyzeStreamProofs`, `ModelRegistryProofs`, `SearchRegistryProofs`, `ProgressiveProofs`, `VocabularyStoreProofs`, `CatalogCacheProofs` | theorems about those modules and their proofs |
| `QueueProofs` | theorems about `StreamAdmission` and `SinkForwarder`, and of sums, which both need |
| `MC...` | constants of the runs of the module they name |

Before the properties of a module stand its mutants, next to the definition
they change (`ReturnEarly` above `Return`, and so on). No specification uses
them.

### CpuPool

Thread 0 is the caller of `run`, threads 1..N the workers; `pc` says where each
is. `claim` is the 64-bit word of job number, units and next unit; `want`,
`done`, `stop`, `flag` and `token` are the atomics and park tokens they are in
the code; `w`, `seen`, `loc` are locals of the functions. Each access to shared
memory another thread can interleave with is a step. Accesses merged into one
step are commented where they are merged: a swap that follows a load of the
same flag, a test of the claim word that reads nothing else. Memory is
sequentially consistent. The code's `SeqCst` flag and claim make that true of
the wake protocol; the rest of its orderings are acquire and release around
the claim word. Locals that no later step reads are reset, to keep the state
space small. A task that panics aborts the process and ends nothing but the
process. `JobNumbers` is the modulus of the job number, 2^32 in the code, and
the runs let it wrap. `hits` counts the calls of each task and is written only.

The promise, `ParallelFor`: tasks move from `todo` to a thread and from the
thread to done, a call returns when nothing is left, and between calls nothing
is taken. The mapping reads `todo` off the claim word.

### AnalyzeStream and StreamAdmission

Per stream: the client (`conn`, `got`), the reader (`reader`, `docs`), the
channel `work`, the engine (`eng` and its queues) and its `runs`; shared: each
load's `idle` sessions. The engine is one task, so everything between two of
its awaits or accesses to shared state is one step; `eng` names the place it
awaits at. tokio's `select!` picks any ready branch, so the branches are
separate actions. `ordered`, the order the client asked for, is chosen once among
`Orders`. Documents are numbers in reading order: the work channel is
first in, first out, so that number is the engine's `seq`.

A queue room, a window permit and a session travel with a value and are freed
where it is dropped; `Queued`, `Dispatched` and `Available` compute the holders
from the places a document can be, so that a leak would have to be a lost
document. The admission that takes the permits is one step here.
`StreamAdmission` has the four semaphores one by one, with streams that die
while they hold some, and the refusals over the byte caps.

Abstractions: linger and retry timers may fire whenever they are set; a batching
key stands for load, output kind and options, and the two keys of the runs
share one load of one session, so that batches stall; a document's fate is
chosen when it is read: "ok", "bad" (refused by validation or a cap, answered
without running) or "poison" (fails the batch it is in). Runs that had not
started when the stream died are dropped when the blocking pool reaches them.
`End` forgets the engine's locals, as the return does.

The promise, `StreamService`: the client sends, the service accepts, each
accepted document is answered once with its own result, in input order when
that was asked for, and a clean end before the deadline comes after the last answer.
After the deadline the code may end without a status; `MCStreamStatus.cfg` shows it.

### SinkForwarder

Threads offer items (`Reserve`, `Lock`, `TrySend`, `CountQueued` or `Drop`, as
`enqueue` does them), the drain task opens a call whose `Feed` takes items under
the receiver's mutex, the call ends at any time (a sink's answer or its loss),
and `Close` takes the sender and waits for the drain or its time-out. `queued`
is a machine word of `Word` values that wraps. A `Feed` that hyper still holds
when its call has failed is dropped at once in the model.

### ModelRegistry

A registration is an element of `Boot` (listed in the configuration) or the
LoadBundle call that made it, as the code compares `Arc`s. `models` is the
listed map, `loaded` what is served; LoadBundle is the handler (which its client
may cancel at the await) and the blocking task that carries on without it;
`Server::load` runs beside them once the server listens. A load is one step
that succeeds, fails or panics, taken while the `loading` mutex is held; a panic
poisons the mutex, which no lock heeds. The handler of a load that panicked returns
the error of the join before it comes to the rollback (analysis.rs:110-114), so its
registration stays listed, never loaded, and the server not ready until somebody
unloads the name (`JoinFails`). The same is left by a call cancelled before its load
fails, and by a `Server::load` that fails or panics. `UnloadedIsExpected` says that
nothing else leaves a model so. A change of state
and the notification of the watch channel are two steps, as they are two
statements; the channel's version is a bit per watch, "unseen". A watch's reads
of the two flags and of the models are separate steps.

### SearchRegistry

Indexes are identities with their documents, staged and searched; `indexes`
and `aliases` are the two maps. Work done while one index's lock is held is one
step; the steps between two locks are separate. DeleteIndex is one step, since
it clears the aliases while it holds the indexes. Documents are the calls that
wrote them. A write may be refused at staging, or staged with vectors the index
then refuses: the rebuild fails now and in every later write.

### StepGraph and Progressive

`StepGraph` has the build's schedule (`Stage`, `Scheduled`, with the optional cycles
the code breaks) and `Run`, the result of running every stage over every
document. What an annotator returns is a function of its inputs, so an entry of a
document keeps which inputs it was computed from, which its provenance names,
and the id of its view; two runs agree when all of that does. A run is one pass over
the steps in plan order, each computed on the layers of earlier stages only, which
is the document as its stage found it.

`Progressive` is `run_progressive` in the task that streams it. One thread spawns
steps whose inputs are there (`SpawnReady`), each over a snapshot of the documents;
settles them in whatever order they finish (`Settle`); and stores layers, fails
documents and skips the steps behind (`Cascade`), putting off those that still wait
for another input. Every message is a blocking send into a channel of `Room`. The
deadline's timer, the drop of the client's stream and a refused send set one cancel
flag; the client's drop cancels in one step and closes in the next. A step has one
output; the order of entries in a document and the per-document status vector are
left out.

### ArtifactMap and VocabularyStore

A put holds the index's mutex through all its file operations: create, sync and
rename of the bytes, of the image if there is one, and last of the descriptor. A
delete removes the descriptor first. A read takes the descriptor under the mutex
and opens the file after. Every file operation may fail, and the server may stop
between any two steps and scan its directory again (`Crash`, `Open`). An id is the
digest of the content, so an id's bytes never differ. A stop is the process's:
no rename is lost and no written byte is torn, since files are synced before
their rename; the loss of a directory entry in a power failure is not modelled.
One server has the directory, and temporary names are not shared. A learner is
a read and then a put.

The promise, `ArtifactMap`: puts, deletes and reads happen at one instant between
call and answer; a stop keeps what was answered for. Two clauses of it are
weaker than one might wish, because the code is. A delete that fails past the
descriptor leaves the artifact listed until the next start (`Fade`). A put that
fails leaves bytes that nothing removes, against the sentence of `store.rs:7`.

### CatalogCache

`at` says where each call is: an install from its slot (`TakeSlot`) to the message
that gives it back (`InstallEnds`); a read that looks for its file, waits at its
artifact's gate, fetches all files of the artifact, looks again, opens and
streams; the prefetch, a fetch behind the gate without a client. The fetch is the
same steps for all: look at the next file, ask, verify, write, rename. Windows, which
the release supports, refuses to stat, open or replace a file while another handle
replaces it (fetch.rs:324-327). So a rename has a beginning and an end, and between
them the file is `Denied` to others (`Windows` is a constant; elsewhere nothing is
denied, and when a rename begins is not seen). The zoo's own looks and renames are
tried again until it is over, or fail after a second. The read's look and open
(read.rs:134, 147-148) are made once: a denied first look only means a needless
fetch, a denied second one the refusal that the file is not installed, a denied open an
I/O error, though the file is there. `FetchedIsFound` does not hide that: it says that a
read is refused a file that is there in no other way than this, damage by another
program or a stat or open that the system fails (`faults`), and that this way takes an
install beside the read, since calls behind the gate do not replace what is in place
on each other. Other
programs may damage or remove a file (`Damage`), and clients stop reading or go
away at any time: the blocking task goes on, only an install still waiting for its
admission is dropped with its call. A check that may refuse (licence, free space,
directory) is a step with two outcomes. Only the zoo's mode is modelled; a stream
is two messages; the code prefetches artifact by artifact, the model each in
a call of its own.

## 3. Runs

Passing runs check everything named; a violation run checks one sentence of the
documentation or of a comment against the code and finds it false.

| Run | Configuration | Checks | Shows |
|---|---|---|---|
| `pool` | 2 workers, 2 jobs with the same job number, fan-out 1, fair | `FunctionLive`, `EachTaskOnce`, `NoLostWake`, `ImplementsParallelFor`, `RunReturns`, `DropEnds` | parking, waking, claiming and stopping in every order; a stale claim word that compares equal is harmless; nobody sleeps through a job or the drop |
| `stream_order` | 4 documents of 2 keys, of which one fails, 1 session, window 2, either order; breaks at any point | `EachDocumentKept`, `WindowNeverWedges`, `ImplementsService` | no document lost or doubled, window never wedged, answers in the order asked for |
| `stream_liveness` | 2 documents of any fate, either order; deadline and cancel at any point; fair | `ImplementsService`, `SessionsConserved`, `CallEnds`, `CancelFrees`, `DeadlineEnds` | calls end and free what they held; a stopped run is no document's failure |
| `admission` | 3 streams over rooms for fewer, fair | `PermitsConserved`, `EveryAdmissionEnds` | no permit leaks, no two wait for each other |
| `sink` | 3 threads, queue of 2, fair | `CountsAddUp`, `NoOfferTurnedAway`, `ClosedIsEmpty`, `CloseReturns` | counters, reservations and closing |
| `registry` | 1 configured model, 2 LoadBundles, 1 unload, room for 2 models, loads that fail or panic, fair | `LoadedOnce`, `UnloadedIsExpected`, `OnlyItsOwnRollback`, `CallsSettle` | one load each; a rollback takes its own; every LoadBundle ends |
| `health_watch` | 1 load, 1 watch, fair | `WatchConverges`, `StopClosesWatches` | no change is missed |
| `search` | 2 writes, 1 reindex, 1 alias, 2 creations, 1 deletion | `AnsweredIsSearched`, `SealedIsFrozen` | answered documents are searched; sealed is frozen |
| `progressive` | 17 graphs of 3 shapes, up to 5 steps, 2 documents, some of which fail, fair | `MatchesRun`, `SnapshotsAreClosed`, `ReplyIsWhole`, `TaskEnds` | the order steps finish in does not show; the reply is numbered, complete and ends |
| `vocabulary` | 2 callers, 2 artifacts, 2 failures or stops | `DescriptorHasBytes`, `IndexIsOnDisk`, `ImplementsArtifactMap` | what was answered for is on disk, whole, also after a stop |
| `catalog` | 2 installs, a read and the prefetch of one artifact, one damage, one failed stat or open, Windows' denials, fair | `FilesVerify`, `FetchedIsFound`, `OneInstall`, `GateSharesAFetch`, `CallsEnd` | verified files only, a file in place refused only as named, one install, one gated fetch, every call ends |
| `progressive_nested` | one graph with two nested optional cycles | `MatchesRun`, violated | `run_progressive` starts a step beside the one that makes its optional input: the documents differ from `Analyzer::run`'s |

`findings` in `PROJECT.json` quotes the sentence the violation run contradicts.
Three more configurations show divergences, each by a counterexample to one
sentence: `MCStreamStatus.cfg` (`DeadlineIsReported`, docs/grpc.md:293-295: the
reader's return at the deadline is taken for the half-close, and the call ends
without a status), `MCHealthFinal.cfg` (`FinalFrameIsNotServing`, state.rs:186-187: a
shutdown between a watch's status and its look at `stopping` leaves SERVING as
the last frame) and `MCSearchTarget.cfg` (`ReindexFillsItsTarget`,
turbo_search.proto:38-39: the index a Reindex made is resolved through the aliases,
and another one is filled). The models reach other states that a comment or a
document excludes; the notes under `hazards` name them: a worker that gives its
`want` back to the next job, refused documents waiting outside `max_inflight`, a
linger counted from a document that is not the oldest, a reader's abort lost in a
full channel, queue rooms held after the deadline for a client that does not read,
`queued` below zero for a moment, a model the start has just loaded rolled back by
the LoadBundle that had failed, an alias bound to an index just deleted, a
progressive reply that ends without its DEADLINE_EXCEEDED (`DeadlineIsAnswered`).

### Bounds, and why they are enough

- Pool: two workers give every pair of claimers and wakers beside the caller;
  two jobs let a worker sleep over the end of one. `JobNumbers = 1` gives every
  job the number of the last, the wrap at its worst; one more number only lets
  a swap fail that here succeeds. Three tasks in two units, of which the second
  is short, and one task that runs inline. The proofs lift all of these bounds.
- Stream: two documents to a batch, four documents and a window of two are the
  least in which a round has leftovers of two groups, a batch stalls behind the
  only session, a failed batch is split, and a later document could take the
  last permit of an earlier one. The documents of one key succeed there, those of the
  other fail their batch; batches of both fates and refused documents are in
  `stream_liveness`, which has two documents of any fate. Broken requests are in the
  first, deadlines and cancellation in the second.
- Admission: three streams over three rooms, two each: one waits at every
  semaphore while the others release; sizes below, at and above both caps.
- Sink: a queue of two items and four bytes, sizes 1 and 3: either limit can be
  the one that is reached. Four offers fill it and refill it.
- Registry: two LoadBundles and one configured model over three names and room
  for two: a name registered, unloaded and registered again while the first
  call's load is still failing. The watch channel of eight frames is one
  (`Room = 1`): a watch blocked in `send` is then reached at once. The watch runs
  use one model to stay small.
- Progressive: the graphs are the least that have a skipped step behind two
  inputs of which one is slow, an optional cycle, two view writers, and a step after
  them; two documents fail apart or together. A channel of one (`Room = 1`)
  makes every send wait at once.
- Vocabulary: two callers of one artifact are what a race needs, a second artifact
  tells a leak between ids; one has an image, so that a put has three files. Two
  faults let a stop follow a failure. The proofs lift all of these bounds.
- Catalog: one artifact of one file is where every call meets. Two installs are
  needed for the slot, the read and the prefetch for the gate. Two files square the
  states and no new pair of steps meets. `Windows` is true: what happens where nothing
  is denied happens there too, by renames that end as they begin. The proofs hold for any number of files
  and artifacts.
- Search: two names and two creations: an index deleted and created again under
  its name. Two writes meet in one index. The main run keeps names and aliases
  apart; `MCSearchTarget.cfg` lets them overlap.

`MaxJobs`, `MaxDocs`, `MaxOffers`, `Unloads`, `Creations`, `Deletions`, `MaxFaults`,
`MaxDamage` are bounds of the environment only and appear in guards of its actions.

Deadlock is not checked (`CHECK_DEADLOCK FALSE`) since every system here stops:
the pool is dropped, streams and calls end, the sink is closed, the bounded
environment has no more to ask. The vocabulary store is the exception: it always
takes another call, and its run checks for deadlock. Deadlocks proper are what
`RunReturns`, `CallEnds`, `EveryAdmissionEnds`, `CloseReturns`, `CallsSettle`, `TaskEnds`
and `CallsEnd` exclude.

### Fairness

Weak fairness stands for: a thread the system schedules (`CpuPool`), a spawned
task whose future is ready (readers, engines, handlers, watches, the drain), a
blocking closure that runs to its end, a timer that is due. Strong fairness is
assumed of the branches of the engine's `select!`, except the retry: tokio starts
polling at a random branch, so one that is ready again and again is taken in
the end. Nothing is assumed of clients, of the sink or of the clock, save in
`ReadingSpec` (`stream_liveness`), whose client reads its answers: the docs
promise nothing to one that does not.
Semaphores and channels of tokio are first come first served: `StreamAdmission` has the
queues of the server's semaphores, only one reader waits on a stream's own, and weak
fairness is enough. Watches end for clients that keep reading. `TaskEnds` and `CallsEnd`
assume of a client that it reads or goes away: the code sends with blocking sends,
and one that does neither keeps a progressive task past its deadline and an
install in its slot: no property bounds that wait, as nothing in the code does.

## 4. Proofs

Each theorem holds for every value of the constants that satisfies the module's
named assumptions, which say what the code guarantees of them and nothing more.

`CpuPoolProofs` proves about `CpuPool`, for any number of workers, fan-out, units,
job numbers and sizes that satisfy `PoolAssumption`:

- `UnitsPartitionTasks`: the units of a job cover its tasks, each exactly once;
- `TypeCorrect`: `Spec => []TypeOK`;
- `PoolInvariant`: `Spec => []IInv`;
- `FunctionAlwaysLive`: whoever runs a task holds the function and the sizes of
  the job that is being run, so no call outlives its closure;
- `AlwaysQuietBetweenJobs`: nothing is claimed when no job is running;
- `EachTaskRunsOnce`: when `run` returns every task was called once;
- `NoWakeIsLost`: a worker parked with its flag cleared has a token, or a waker at
  the step that gives it one;
- `ReleaseReachesAll`: no worker sleeps through the release of the pool: a parked one
  has its token, or the waker or the dropper is still to come to it;
- `RunWaitsForWork`: while `run` waits, its job is done or a thread is at one of its
  units; so `RunReturns` is left with the scheduling of those threads;
- `PoolImplementsParallelFor`: the pool refines `ParallelFor`.

`TypeOK` with the properties is not inductive: that a task is called at most once
needs to know which units are finished, which are held, and that both are below
the claim word's next unit. `IInv` is `TypeOK` and `PoolInv`: between jobs the claim
word has no unit left (`FreshInv`, `WordInv`); within a job the units below `next`
are finished or held by exactly one thread, and `done` counts the finished ones
(`UnitsInv`); a thread that compared and swapped successfully, but has not yet
loaded the job, can only do so while the job cannot end (`LoadInv`); `hits`
follows from which units were called (`HitsInv`, `ReturnedInv`). The word a thread read
earlier is not constrained at all, which is why job numbers may wrap: a swap
that succeeds claims a unit of the job that runs now. Each action preserves the
invariant in a step of its own; the refinement maps `Publish` to `Start`, a
successful claim to `Take`, the count to `Finish`, and the rest to stutters.
The assumptions are those of `PoolAssumption` alone.

`VocabularyStoreProofs` proves `DescriptorHasBytes`, `IndexIsOnDisk` and that the
store implements `ArtifactMap`. Alone they are not inductive: what a writer has on
disk so far (`PutSoFar`, `DeleteSoFar`) and that only the holder of the mutex is
between two files (`LockOwner`) say why a stop anywhere leaves whole artifacts. The
mapping takes a put at its descriptor's insertion, a delete at its removal from the
index, a read at its look, and lets a half-deleted artifact fade.

`CatalogCacheProofs` proves all four safety properties of `CatalogCache`. `Own` says
of each call what it holds: its gate while it fetches, files of its own artifact
ahead of it, verified bytes when it writes. `Sound` adds, while no other program
touches the cache, that the files a call is past are good, so that a read finds
what its fetch left; a refusal is then a step whose look or open was not made, and one
denied is denied by an install's rename or by that of a call whose file an install has
put in place since (`Own` again). No other fact about another call is needed but that a gate has one
holder and that artifacts share no file: every step is shown to keep `Own` of its
call, and to leave the other calls' alone. `GatesGivenBack` says that who holds a gate
is at its own fetch, which waits for no other call.

`SearchRegistryProofs` proves `AnsweredIsSearched` and `SealedIsFrozen`: an index is
searched from documents of its own, a commit only adds, and a call that has
resolved a name holds an index that was made, under whatever name it is by then.

`ModelRegistryProofs` proves `LoadedOnce`, `UnloadedIsExpected`, `OnlyItsOwnRollback` and
the types (`RegistryTypes`, with the cap and that no name is served twice). Who loads
holds the mutex and has found the registration unpublished, and `loads` counts
publications exactly (`IInv`). The listing has no name twice, so none of its
registrations twice (`Listing`); an answered call has its load, and one that is idle,
refused or rolled back is not listed (`Registered`); until it fails, the walk of
`Server::load` has loaded or still has ahead of it every configured model that is
listed (`Begun`). Without the last two `UnloadedIsExpected` is not inductive: that a
call is answered says nothing of its load.

Three more are what its liveness properties ask of the code, without fairness.
`WatchMissesNothing`: a watch with no frame, no unseen change and no notification on
its way to it has shown its client the present status, wherever its reads of the
service and of `draining` fall among the steps that change them.
`StopReachesAll`: a watch that waits while the server stops has a change to see or
a notification to come. `MutexNeverLeftHeld`: the loading mutex is held only by a
task at its load or at what follows, however it ends. The first needs to know, of a
watch between two reads, what it has read and what has changed since (`WInv`).

`QueueProofs` proves `NoOfferTurnedAway`, `ClosedIsEmpty` and the whole of
`CountsAddUp`. The holder of the sender's mutex has found the sender as it still is,
and a Feed saw the queue's end only when nothing could be put in it any more
(`IInv`). At most one thread is between two steps inside the mutex, so each step
moves one item from one place to the next, and the counter that may wrap (a Feed
takes an item before its offer has counted it) equals its sum modulo the word at
every step (`CInv`). A reserved byte is in the queue, with an offer or in one of two
hands, and an empty hand holds none (`BInv`): a step moves bytes from one to
another, so what is given back was there to give. `CloseGoesOn`: a number falls with each
step of `close`, and once it has the sender no other step raises it, however many
offers go on.

It also proves `PermitsConserved` and the types of `StreamAdmission` (`RoomsInv`). A sum over streams or
over a queue is the number of units of a function (`Total`), which grows and shrinks
with one part of it (`TotalChange`, `TotalOfAppend`, `TotalOfLess`): so each step's
account is that of the one stream it is about (`OneStream`). What a cancelled
admission gives back is what it had: each reader is in the queue of its stage, once
(`Queue`), and asks for a size its stream's room has (`Sized`). From that
follows `AdmissionsNeverDeadlock`: the permits are asked for in one order, so while an
admission is under way one can go on, or a room is held whose drop gives back.

`AnalyzeStreamProofs` proves every safety property of `AnalyzeStream`, with two
invariants. `IInv`: the runs that have not returned and the sessions that are not idle
are one for one (`OneForOne`), across all streams; a run outlives the stream that
dropped it. `DInv` says of each stream (`Kept`) where each document is (`Placed`) and that
it is there once (`Once`), that a batch is of one key and runs on a session of the key's
load (`Keyed`), that an answer is the document's own result (`Told`), that documents of a
key stay in the order they arrived (`Fifo`), that a permit of the window is free or held
by a document before all that wait (`Moves`), and what the engine holds in which of its
states (`Phased`, `Sane`). From it follow `EachDocumentKept`, `WindowNeverWedges`, `SessionsConserved` (with
counting, the sum over runs) and `ImplementsService`: each step maps to one of
`StreamService` or to none. None of these is inductive alone; a document's place after
a batch splits, for one, depends on the batch's key and on the order in its group.
Dispatch's stable grouping is taken apart position by position (`Nth`, `Keep`, `Group`,
`Heads` in the model), so that no fact about it needs an induction.

Sequences without repetition are needed in several of these modules; their lemmas
stand in each, so that each can be read and checked alone. The definitions of
`StreamAdmission` are named for the rooms, since `QueueProofs` extends it together
with `SinkForwarder`.

`ProgressiveProofs` proves `SnapshotsAreClosed`, `ReplyIsWhole` and, under a named
condition, `MatchesRun`. It begins with the schedule: every step has a stage
(`StageOfIs`), reads no other step of its own, and the plan lists each step where it
comes (`TopoIs`). `IInv` says of the documents that an entry's inputs are stored and a
view was counted after those before it (`DocKept`); of a running step that it has a
part of the documents with all it waited for (`RunningKept`); of a step put off that
it will be skipped, since on every document it lacks an input (`DeferredKept`). Of
the reply: what is said of a step is so, and, while nobody cancels, everything done is
said (`EventKept`, `Uncancelled`). A cascade is an induction over the plan's order on
a function, each step of which keeps `Cascaded`.

`MatchesRun` is not true of every graph `build` accepts: the run `progressive_nested`
finds one. The condition is `LoopsWait`: who makes an optional input of a cycle waits,
itself or through others, for its reader. The theorem `OrderNeverShows` states
`Spec => [](LoopsWait(graph) => MatchesRun)`. Its argument: what is done has waited, so
a reader that is not done finds on the documents just what it waits for; each entry
is then a function (`EntryOf`) of the entries of those and of the views before it
(`OrderKept`, `StoreMakes`); a plain run's entries are the same function of its own
(`RunMakes`); and the first step on which two such documents differ could not differ
(`OneIsMade`). `WaitsEnd` and `TaskGoesOn` are the safety half of `TaskEnds`: the task
waits for a step only while one runs, and a number (`Left`) falls with each step of
the task and with nobody else's. `MCProgressive` assumes, and TLC evaluates, that the condition holds of
the 17 graphs of `progressive` and fails of the nested cycles.

Only model-checked: every liveness property (fairness and `ENABLED` are outside
the prover). What they ask of the code without fairness, that nobody waits for
nobody, or that a number falls, is proved of `RunReturns` (`RunWaitsForWork`), `DropEnds`
(`ReleaseReachesAll`), `EveryAdmissionEnds` (`AdmissionsNeverDeadlock`), `CloseReturns`
(`CloseGoesOn`), `WatchConverges` (`WatchMissesNothing`), `StopClosesWatches`
(`StopReachesAll`) and `TaskEnds` (`WaitsEnd`, `TaskGoesOn`), and a part of it of `CallsSettle`
(`MutexNeverLeftHeld`), `CallsEnd` (`GatesGivenBack`) and `CallEnds` (`WindowAlwaysMoves`);
nothing of `CancelFrees` and `DeadlineEnds`. Every safety property a passing run
checks is the subject of a theorem, `MatchesRun` under `LoopsWait`.

## 5. Not modelled

Numeric kernels and drivers, tokenizer and analysis data, conversions of tensors
and messages, TLS, configuration, metrics, inspection, command-line tools, language
bindings: they are sequential, or their difficulty is in data that no small
instance represents. They, with tables generated from Unicode and the snowball
stemmers, are nearly all of the repository's lines; the models cover the server's
and the core's shared state, some thousand lines of it.

Parts with state that no module covers:

- Training: the slot, the staging directory and the publication with its rollback.
- Incremental runs and splicing: `StepGraph` has the full run they must agree with.
- The kernel tuning cache and the NPU blob cache.
- Collections and their watchers, which lose the oldest events when they lag more
  than 256 behind (search/service.rs:432).
- Snapshots: two PersistIndex calls for one file share its temporary file
  (search/snapshot.rs:47).
- The catalog outside zoo mode, the acceptance file, free disk space.
- Sessions of the core beyond who holds them.

Chunk boundaries are a dynamic program that the repository's own tests compare with
every partition of small inputs. `components` in `PROJECT.json` gives the reason for
each part.
