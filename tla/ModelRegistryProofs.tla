------------------------ MODULE ModelRegistryProofs ------------------------
(* Proofs about ModelRegistry, for any number of configured models, calls,   *)
(* watches and unloads: each registration is loaded at most once; a listed   *)
(* model that is not loaded has somebody at work on it; a registration       *)
(* leaves the listing only by its name's unload or its own load's failure;   *)
(* no two listed models share a name.                                        *)
EXTENDS ModelRegistry, TLAPS, FiniteSetTheorems

(* Whoever loads holds the mutex, and loads what is not published; what is   *)
(* published was loaded once, and what is not, never.                        *)
IInv ==
    /\ loads \in [Regs -> Nat]
    /\ task \in [Calls -> {"none", "queued", "loading", "published", "ok", "failed", "panicked"}]
    /\ \A c \in Calls : task[c] \in {"loading", "published"} => loading = c
    /\ start.at \in {"walking", "loading", "published"} => loading = Starting
    /\ \A c \in Calls : task[c] = "loading" => c \notin loaded
    /\ start.at = "loading" => Head(start.left) \notin loaded
    /\ \A r \in Regs : loads[r] = IF r \in loaded THEN 1 ELSE 0
(* The listing is within its cap and serves no name twice, so it holds no    *)
(* registration twice.                                                       *)
Listing ==
    /\ models \in Seq(Regs) /\ Len(models) <= MaxModels
    /\ \A i, j \in DOMAIN models : nameOf[models[i]] = nameOf[models[j]] => i = j
    /\ nameOf \in [Regs -> Names \cup {None}]

(* A load that was published stays so; a call that is answered has its load; *)
(* one that has not registered yet, or has rolled back, is not listed.       *)
Registered ==
    /\ loaded \subseteq Regs
    /\ handler \in [Calls -> {"idle", "adding", "waiting", "removing", "answered",
                              "failed", "refused", "cancelled", "broken"}]
    /\ \A c \in Calls : task[c] \in {"published", "ok"} => c \in loaded
    /\ \A c \in Calls : handler[c] = "answered" => c \in loaded
    /\ \A c \in Calls : handler[c] \in {"idle", "refused", "removing", "failed"} => c \notin Range(models)

(* Server::load, until it fails, has loaded each configured model that is    *)
(* still listed, or has it ahead of it.                                      *)
Begun ==
    /\ start \in [at : {"start", "walking", "loading", "published", "done", "failed"}, left : Seq(Regs)]
    /\ start.at = "loading" => start.left # <<>>
    /\ start.at \in {"walking", "loading", "published", "done"} =>
         \A r \in Range(models) \cap Boot : r \in loaded \/ r \in Range(start.left)

LInv == Listing /\ Registered /\ Begun

(* The types of the rest: a watch that sends has a status to send, and an    *)
(* unload that has not notified is one of those done.                        *)
Rest ==
    /\ draining \in BOOLEAN /\ stopping \in BOOLEAN
    /\ stopper \in {"serving", "draining", "drained", "shutting", "stopping", "stopped"}
    /\ loading \in Regs \cup {Starting, NoOne}
    /\ unloader \in Nat /\ unloads \in Nat /\ unloader <= unloads /\ unloads <= Unloads
    /\ watch \in [Watches -> {"idle", "reading", "judging", "sending", "checking",
                              "waiting", "dropped", "closed"}]
    /\ service \in [Watches -> Services \cup {None}]
    /\ unseen \in [Watches -> BOOLEAN]
    /\ wasDraining \in [Watches -> BOOLEAN]
    /\ gone \in [Watches -> BOOLEAN]
    /\ last \in [Watches -> Statuses \cup {None}]
    /\ shown \in [Watches -> Statuses \cup {None}]
    /\ frames \in [Watches -> Seq(Statuses)]
    /\ \A w \in Watches : Len(frames[w]) <= Room
    /\ \A w \in Watches : watch[w] = "sending" => last[w] \in Statuses

(* The loading mutex is held only by one that is between its lock and its    *)
(* unlock: a call's task or Server::load, at a load or what follows it.      *)
MutexAtWork ==
    loading # NoOne =>
       \/ loading = Starting /\ start.at \in {"walking", "loading", "published"}
       \/ loading \in Calls /\ task[loading] \in {"loading", "published"}

(* A call has no task before its handler makes one.                          *)
MInv ==
    /\ MutexAtWork
    /\ \A c \in Calls : handler[c] \in {"idle", "adding"} => task[c] = "none"

(* A notification is on its way: somebody has changed the listing, a load or *)
(* the end of the server, and has not called notify_health yet.              *)
NoticePending ==
    \/ \E c \in Calls : handler[c] \in {"adding", "removing"} \/ task[c] = "published"
    \/ start.at = "published"
    \/ unloader > 0
    \/ stopper \in {"draining", "shutting", "stopping"}

Told(w) == unseen[w] \/ NoticePending

(* The last status on the way to the client, or shown to it.                 *)
Latest(w) == IF frames[w] = <<>> THEN shown[w] ELSE frames[w][Len(frames[w])]

(* A watch that holds an old `draining' or an old status will be told; what  *)
(* it holds is what it last sent; and stop wakes each watch that waits.      *)
Follows ==
    \A w \in Watches :
       /\ watch[w] = "judging" /\ wasDraining[w] # draining => Told(w)
       /\ watch[w] \in {"sending", "checking", "waiting"} =>
            Told(w) \/ last[w] = StatusGiven(service[w], draining)
Delivered ==
    \A w \in Watches : ~gone[w] /\ watch[w] # "sending" => Latest(w) = last[w]
StopTold ==
    /\ stopping => stopper \in {"stopping", "stopped"}
    /\ \A w \in Watches : watch[w] = "waiting" /\ stopping => unseen[w] \/ stopper = "stopping"
WInv == Follows /\ Delivered /\ StopTold

(* What a watch's client has been shown once there is nothing on the way to  *)
(* it: no frame, no change unseen, no notification not made yet.             *)
ShowsTheStatus ==
    \A w \in Watches :
       watch[w] = "waiting" /\ ~gone[w] /\ frames[w] = <<>> /\ ~Told(w) =>
          shown[w] = StatusGiven(service[w], draining)

(* A watch that waits while the server stops has a change to see, or is to   *)
(* be notified by the step of shutdown that comes.                           *)
StopReachesWatches ==
    \A w \in Watches : stopping /\ watch[w] = "waiting" => unseen[w] \/ stopper = "stopping"

-----------------------------------------------------------------------------
(* PROOFS *)
LEMMA InitInvariant == Init => IInv
  BY DEF Init, IInv, Regs

(* The steps of a call's load. *)
LEMMA RunLoadKeeps ==
    ASSUME IInv, NEW c \in Calls, RunLoad(c)
    PROVE  IInv'
<1> USE NobodyAssumption, RegistryAssumption DEF IInv, Regs
<1>1. CASE LoadOne(c)
  <2>1. CASE c \in loaded
    BY <1>1, <2>1 DEF LoadOne
  <2>2. CASE c \notin loaded
    <3>1. loading = NoOne /\ task' = [task EXCEPT ![c] = "loading"] /\ loading' = c /\ UNCHANGED <<loaded, start, loads>>
      BY <1>1, <2>2 DEF LoadOne
    <3>2. \A d \in Calls : task[d] \notin {"loading", "published"}
      BY <3>1
    <3>3. start.at \notin {"walking", "loading", "published"}
      BY <3>1 DEF Starting, NoOne
    <3> QED  BY <2>2, <3>1, <3>2, <3>3
  <2> QED  BY <2>1, <2>2
<1>2. CASE LoadOneSucceeds(c)
  BY <1>2 DEF LoadOneSucceeds, Publish
<1>3. CASE LoadOneFails(c) \/ LoadOnePanics(c)
  BY <1>3 DEF LoadOneFails, LoadOnePanics
<1>4. CASE Published(c)
  BY <1>4 DEF Published
<1> QED  BY <1>1, <1>2, <1>3, <1>4 DEF RunLoad

(* The steps of Server::load. *)
LEMMA LoadStartKeeps ==
    ASSUME IInv, LoadStart
    PROVE  IInv'
<1> USE NobodyAssumption, RegistryAssumption DEF IInv, Regs
<1>1. CASE LoadAll
  BY <1>1 DEF LoadAll, Start
<1>2. CASE LoadNext
  BY <1>2 DEF LoadNext, Start, registry
<1>3. CASE NextSucceeds
  <2> DEFINE r == Head(start.left)
  <2>1. r \notin loaded /\ loading = Starting /\ start'.at = "published" /\ UNCHANGED <<loading, task>>
    BY <1>3 DEF NextSucceeds, Start
  <2>2. loaded' = loaded \cup {r} /\ loads' = [loads EXCEPT ![r] = @ + 1]
    BY <1>3 DEF NextSucceeds, Publish
  <2> HIDE DEF r
  <2>3. \A c \in Calls : task[c] \notin {"loading", "published"}
    BY <2>1
  <2>4. \A q \in Regs : loads'[q] = IF q \in loaded' THEN 1 ELSE 0
    BY <2>1, <2>2
  <2>5. loads' \in [Regs -> Nat]
    <3>1. loads \in [Regs -> Nat] /\ \A q \in Regs : loads[q] + 1 \in Nat
      OBVIOUS
    <3> HIDE DEF IInv, Regs
    <3> QED  BY <2>2, <3>1
  <2> QED  BY <2>1, <2>3, <2>4, <2>5
<1>4. CASE NextPublished
  BY <1>4 DEF NextPublished, Start, registry
<1>5. CASE NextFails
  BY <1>5 DEF NextFails, Start
<1>6. CASE AllLoaded
  BY <1>6 DEF AllLoaded, Start
<1> QED  BY <1>1, <1>2, <1>3, <1>4, <1>5, <1>6 DEF LoadStart

(* A handler gives a new load to a task of its own, and touches no other. *)
LEMMA HandleKeeps ==
    ASSUME IInv, NEW c \in Calls, Add(c) \/ Handle(c) \/ CancelLoad(c)
    PROVE  IInv'
<1> USE RegistryAssumption DEF IInv, Regs, registry
<1>1. CASE Added(c)
  BY <1>1 DEF Added
<1>2. CASE ~Added(c)
  <2>1. UNCHANGED <<loaded, loading, task, start, loads>>
    BY <1>2 DEF Add, Handle, CancelLoad, Answer, RemoveIf, Removed, JoinFails
  <2> QED  BY <2>1
<1> QED  BY <1>1, <1>2

LEMMA StepKeeps == IInv /\ [Next]_vars => IInv'
<1> SUFFICES ASSUME IInv, [Next]_vars PROVE IInv'
  OBVIOUS
<1>1. ASSUME NEW c \in Calls, Add(c) \/ Handle(c) \/ CancelLoad(c) PROVE IInv'
  BY <1>1, HandleKeeps
<1>2. ASSUME NEW c \in Calls, RunLoad(c) PROVE IInv'
  BY <1>2, RunLoadKeeps
<1>3. CASE LoadStart
  BY <1>3, LoadStartKeeps
<1>4. CASE \/ \E n \in Names : Unload(n)
           \/ NotifyRemoved \/ Drain \/ ShutdownDrains \/ Shut
           \/ \E w \in Watches : Subscribe(w) \/ RunWatch(w) \/ ClientReads(w) \/ ClientLeaves(w)
           \/ UNCHANGED vars
  <2>1. UNCHANGED <<loaded, loading, task, start, loads>>
    BY <1>4 DEF Unload, NotifyRemoved, Drain, ShutdownDrains, Shut, Drained, ShutdownStops, ShutdownNotifies, Subscribe,
       RunWatch, ReadDraining, Judge, Send, CheckStopping, Changed, Closed, ClientReads, ClientLeaves, vars, registry, loaders
  <2> QED  BY <2>1 DEF IInv
<1> QED  BY <1>1, <1>2, <1>3, <1>4 DEF Next

(* One load at a time: the load of a registration is made at most once,      *)
(* though Server::load and the call that made the registration may both ask  *)
(* for it, whatever is unloaded, cancelled or stopped meanwhile.             *)
THEOREM EachLoadedOnce == Spec => []LoadedOnce
<1>1. Init => IInv
  BY InitInvariant
<1>2. IInv /\ [Next]_vars => IInv'
  BY StepKeeps
<1>3. IInv => LoadedOnce
  BY DEF IInv, LoadedOnce
<1> QED  BY <1>1, <1>2, <1>3, PTL DEF Spec
-----------------------------------------------------------------------------
(* What a listing holds once an entry has joined it or left it. *)

(* RemoveAt closes the gap. *)
LEMMA RemoveAtFacts ==
    ASSUME NEW T, NEW q \in Seq(T), NEW i \in DOMAIN q
    PROVE  /\ RemoveAt(q, i) \in Seq(T) /\ Len(RemoveAt(q, i)) = Len(q) - 1
           /\ \A j \in 1 .. Len(q) - 1 : RemoveAt(q, i)[j] = IF j < i THEN q[j] ELSE q[j + 1]
<1> DEFINE a == SubSeq(q, 1, i - 1)
           b == SubSeq(q, i + 1, Len(q))
<1>1. a \in Seq(T) /\ Len(a) = i - 1 /\ \A j \in 1 .. i - 1 : a[j] = q[j]
  OBVIOUS
<1>2. b \in Seq(T) /\ Len(b) = Len(q) - i /\ \A j \in 1 .. Len(q) - i : b[j] = q[j + i]
  OBVIOUS
<1>3. RemoveAt(q, i) = a \o b /\ i \in 1 .. Len(q) /\ Len(q) \in Nat
  BY DEF RemoveAt
<1> HIDE DEF a, b
<1>4. a \o b \in Seq(T) /\ Len(a \o b) = Len(q) - 1
  BY <1>1, <1>2, <1>3
<1>5. ASSUME NEW j \in 1 .. Len(q) - 1
      PROVE  (a \o b)[j] = IF j < i THEN q[j] ELSE q[j + 1]
  <2>1. CASE j < i
    <3>1. (a \o b)[j] = a[j]
      BY <1>1, <1>2, <1>3, <2>1
    <3> QED  BY <1>1, <1>3, <2>1, <3>1
  <2>2. CASE ~(j < i)
    <3> DEFINE k == j - (i - 1)
    <3>1. k \in 1 .. Len(q) - i /\ k + i = j + 1 /\ j > Len(a) /\ j - Len(a) = k
      BY <1>1, <1>3, <2>2
    <3>2. j \in 1 .. Len(a) + Len(b)
      BY <1>1, <1>2, <1>3
    <3>3. (a \o b)[j] = b[j - Len(a)]
      BY <1>1, <1>2, <3>1, <3>2, SMTT(30)
    <3> HIDE DEF k
    <3>4. b[k] = q[k + i]
      BY <1>2, <3>1
    <3> QED  BY <1>1, <1>3, <2>2, <3>1, <3>3, <3>4
  <2> QED  BY <1>3, <2>1, <2>2
<1> QED  BY <1>3, <1>4, <1>5

(* What is removed was there once, under a name nobody else has. *)
LEMMA LeavesOnce ==
    ASSUME NEW T, NEW q \in Seq(T), NEW f, NEW k \in DOMAIN q,
           \A i, j \in DOMAIN q : f[q[i]] = f[q[j]] => i = j
    PROVE  /\ RemoveAt(q, k) \in Seq(T) /\ Len(RemoveAt(q, k)) = Len(q) - 1
           /\ \A i, j \in DOMAIN RemoveAt(q, k) : f[RemoveAt(q, k)[i]] = f[RemoveAt(q, k)[j]] => i = j
           /\ Range(RemoveAt(q, k)) = Range(q) \ {q[k]}
<1> DEFINE r == RemoveAt(q, k)
           at(j) == IF j < k THEN j ELSE j + 1
<1>0. /\ r \in Seq(T) /\ Len(r) = Len(q) - 1
      /\ \A j \in 1 .. Len(q) - 1 : r[j] = IF j < k THEN q[j] ELSE q[j + 1]
  BY RemoveAtFacts
<1> HIDE DEF r
<1>1. DOMAIN r = 1 .. Len(q) - 1 /\ DOMAIN q = 1 .. Len(q) /\ Len(q) \in Nat /\ k \in 1 .. Len(q)
  BY <1>0
<1>2. \A j \in 1 .. Len(q) - 1 : at(j) \in DOMAIN q /\ at(j) # k /\ r[j] = q[at(j)]
  BY <1>0, <1>1
<1>3. \A i, j \in 1 .. Len(q) - 1 : at(i) = at(j) => i = j
  BY <1>1
<1>4. ASSUME NEW i \in DOMAIN q, i # k PROVE \E j \in 1 .. Len(q) - 1 : at(j) = i
  <2>1. CASE i < k
    BY <1>1, <2>1
  <2>2. CASE i > k
    <3>1. i - 1 \in 1 .. Len(q) - 1 /\ at(i - 1) = i
      BY <1>1, <2>2
    <3> QED  BY <3>1
  <2> QED  BY <1>1, <1>4, <2>1, <2>2
<1> HIDE DEF at
<1>5. \A i, j \in DOMAIN r : f[r[i]] = f[r[j]] => i = j
  BY <1>1, <1>2, <1>3
<1>6. ASSUME NEW x PROVE x \in Range(r) <=> x \in Range(q) /\ x # q[k]
  <2>1. x \in Range(r) <=> \E j \in 1 .. Len(q) - 1 : q[at(j)] = x
    <3>1. x \in Range(r) <=> \E j \in DOMAIN r : r[j] = x
      BY DEF Range
    <3> QED  BY <1>1, <1>2, <3>1
  <2>2. x \in Range(q) /\ x # q[k] <=> \E i \in DOMAIN q : i # k /\ q[i] = x
    BY <1>1 DEF Range
  <2>3. (\E j \in 1 .. Len(q) - 1 : q[at(j)] = x) <=> (\E i \in DOMAIN q : i # k /\ q[i] = x)
    BY <1>2, <1>4
  <2> QED  BY <2>1, <2>2, <2>3
<1> QED  BY <1>0, <1>5, <1>6 DEF r

(* A registration under a name not yet served joins at the end. *)
LEMMA JoinsOnce ==
    ASSUME NEW T, NEW q \in Seq(T), NEW f, NEW c \in T,
           \A i, j \in DOMAIN q : f[q[i]] = f[q[j]] => i = j,
           \A r \in Range(q) : f[r] # f[c]
    PROVE  /\ Append(q, c) \in Seq(T) /\ Len(Append(q, c)) = Len(q) + 1
           /\ \A i, j \in DOMAIN Append(q, c) : f[Append(q, c)[i]] = f[Append(q, c)[j]] => i = j
           /\ Range(Append(q, c)) = Range(q) \cup {c}
<1> DEFINE r == Append(q, c)
<1>1. /\ r \in Seq(T) /\ Len(r) = Len(q) + 1 /\ Len(q) \in Nat
      /\ DOMAIN r = 1 .. Len(q) + 1 /\ DOMAIN q = 1 .. Len(q)
      /\ r[Len(q) + 1] = c /\ \A i \in 1 .. Len(q) : r[i] = q[i]
  OBVIOUS
<1> HIDE DEF r
<1>2. \A i \in DOMAIN q : q[i] \in Range(q)
  BY DEF Range
<1>3. \A i \in DOMAIN r : i \in DOMAIN q \/ i = Len(q) + 1
  BY <1>1
<1>4. \A i \in DOMAIN q : r[i] = q[i] /\ f[q[i]] # f[c]
  BY <1>1, <1>2
<1>5. \A i, j \in DOMAIN r : f[r[i]] = f[r[j]] => i = j
  BY <1>1, <1>3, <1>4
<1>6. ASSUME NEW x PROVE x \in Range(r) <=> x \in Range(q) \/ x = c
  <2>1. x \in Range(r) <=> \E i \in DOMAIN r : r[i] = x
    BY DEF Range
  <2>2. x \in Range(q) <=> \E i \in DOMAIN q : q[i] = x
    BY DEF Range
  <2>3. \A i \in DOMAIN q : i \in DOMAIN r
    BY <1>1
  <2>4. Len(q) + 1 \in DOMAIN r
    BY <1>1
  <2> QED  BY <1>1, <1>3, <1>4, <2>1, <2>2, <2>3, <2>4
<1> QED  BY <1>1, <1>5, <1>6 DEF r

(* The walk's next model leaves what is ahead of it. *)
LEMMA TailRest ==
    ASSUME NEW T, NEW q \in Seq(T), q # <<>>
    PROVE  Head(q) \in T /\ Tail(q) \in Seq(T) /\ Range(q) \subseteq Range(Tail(q)) \cup {Head(q)}
<1>1. /\ Head(q) = q[1] /\ Head(q) \in T /\ Tail(q) \in Seq(T) /\ Len(q) \in Nat
      /\ DOMAIN q = 1 .. Len(q) /\ DOMAIN Tail(q) = 1 .. Len(q) - 1
      /\ \A j \in 1 .. Len(q) - 1 : Tail(q)[j] = q[j + 1]
  OBVIOUS
<1>2. ASSUME NEW x \in Range(q), x # Head(q) PROVE x \in Range(Tail(q))
  <2>1. PICK i \in DOMAIN q : q[i] = x
    BY DEF Range
  <2>2. i - 1 \in DOMAIN Tail(q) /\ Tail(q)[i - 1] = x
    BY <1>1, <1>2, <2>1
  <2> QED  BY <2>2 DEF Range
<1> QED  BY <1>1, <1>2

-----------------------------------------------------------------------------
(* The listing and those at work on it *)

(* The configured models are listed in some order, each once. *)
LEMMA BootListed ==
    /\ SetToSeq(Boot) \in Seq(Boot)
    /\ Len(SetToSeq(Boot)) = Cardinality(Boot) /\ Cardinality(Boot) <= MaxModels
    /\ \A i, j \in DOMAIN SetToSeq(Boot) : SetToSeq(Boot)[i] = SetToSeq(Boot)[j] => i = j
<1> DEFINE n == Cardinality(Boot)
           q == SetToSeq(Boot)
<1>1. n \in Nat /\ n <= MaxModels /\ ExistsBijection(1 .. n, Boot)
  BY RegistryAssumption, FS_CardinalityType
<1> HIDE DEF n
<1>3. \E f \in [1 .. n -> Boot] : IsInjective(f)
  BY <1>1, Zenon DEF ExistsBijection, Bijection, Injection
<1>4. q \in [1 .. n -> Boot] /\ IsInjective(q)
  BY <1>3, Zenon DEF SetToSeq, n
<1>5. q \in Seq(Boot) /\ Len(q) = n /\ DOMAIN q = 1 .. n
  BY <1>1, <1>4
<1> HIDE DEF q
<1>6. \A i, j \in DOMAIN q : q[i] = q[j] => i = j
  BY <1>4 DEF IsInjective
<1> QED  BY <1>1, <1>5, <1>6 DEF n, q

LEMMA InitLists == Init => LInv
<1> SUFFICES ASSUME Init PROVE LInv
  OBVIOUS
<1>1. /\ models \in Seq(Boot) /\ Len(models) <= MaxModels
      /\ \A i, j \in DOMAIN models : models[i] = models[j] => i = j
  BY BootListed DEF Init
<1>2. models \in Seq(Regs) /\ \A i \in DOMAIN models : models[i] \in Boot
  BY <1>1 DEF Regs
<1>3. \A i \in DOMAIN models : nameOf[models[i]] = BootName[models[i]]
  BY <1>2 DEF Init, Regs
<1>4. nameOf \in [Regs -> Names \cup {None}]
  BY RegistryAssumption DEF Init, Regs
<1>5. Listing
  BY <1>1, <1>2, <1>3, <1>4, RegistryAssumption DEF Listing
<1>6. Range(models) \subseteq Boot
  BY <1>2 DEF Range
<1>7. Registered
  BY <1>6, RegistryAssumption DEF Init, Registered
<1>8. Begun
  BY DEF Init, Begun
<1> QED  BY <1>5, <1>7, <1>8 DEF LInv

(* A registration leaves the listing. *)
LEMMA RemovalKeeps ==
    ASSUME Listing, NEW i \in DOMAIN models, models' = RemoveAt(models, i), UNCHANGED nameOf
    PROVE  Listing' /\ Range(models') = Range(models) \ {models[i]} /\ models[i] \in Range(models)
<1>1. models \in Seq(Regs) /\ \A a, b \in DOMAIN models : nameOf[models[a]] = nameOf[models[b]] => a = b
  BY DEF Listing
<1>2. /\ models' \in Seq(Regs) /\ Len(models') = Len(models) - 1
      /\ \A a, b \in DOMAIN models' : nameOf[models'[a]] = nameOf[models'[b]] => a = b
      /\ Range(models') = Range(models) \ {models[i]}
  BY <1>1, LeavesOnce
<1>3. Len(models') <= MaxModels
  BY <1>1, <1>2, RegistryAssumption DEF Listing
<1>4. models[i] \in Range(models)
  BY DEF Range
<1> QED  BY <1>2, <1>3, <1>4 DEF Listing

(* What leaves the listing leaves less to answer for. *)
LEMMA FewerKeep ==
    ASSUME LInv, Range(models') \subseteq Range(models), UNCHANGED <<start, loaded>>
    PROVE  Begun'
  BY DEF LInv, Begun

LEMMA AddLists ==
    ASSUME LInv, NEW c \in Calls, Add(c)
    PROVE  LInv'
<1> USE DEF LInv
<1>1. PICK n \in Names :
         IF Serving(n) \/ Len(models) >= MaxModels
           THEN /\ handler' = [handler EXCEPT ![c] = "refused"]
                /\ UNCHANGED <<models, nameOf>>
           ELSE /\ models' = Append(models, c)
                /\ nameOf' = [nameOf EXCEPT ![c] = n]
                /\ handler' = [handler EXCEPT ![c] = "adding"]
  BY DEF Add
<1>2. handler[c] = "idle" /\ UNCHANGED <<loaded, task, start>>
  BY DEF Add
<1>3. c \notin Range(models) /\ c \in Regs
  BY <1>2 DEF Registered, Regs
<1>4. CASE UNCHANGED <<models, nameOf>> /\ handler' = [handler EXCEPT ![c] = "refused"]
  <2>1. Listing'
    BY <1>4 DEF Listing
  <2>2. Registered'
    BY <1>2, <1>3, <1>4 DEF Registered
  <2>3. Begun'
    BY <1>2, <1>4 DEF Begun
  <2> QED  BY <2>1, <2>2, <2>3
<1>5. CASE ~(Serving(n) \/ Len(models) >= MaxModels)
  <2>1. /\ models' = Append(models, c) /\ nameOf' = [nameOf EXCEPT ![c] = n]
        /\ handler' = [handler EXCEPT ![c] = "adding"]
    BY <1>1, <1>5
  <2>2. models \in Seq(Regs) /\ nameOf \in [Regs -> Names \cup {None}] /\ Range(models) \subseteq Regs
    BY DEF Listing, Range
  <2>3. nameOf' \in [Regs -> Names \cup {None}] /\ nameOf'[c] = n
    BY <1>3, <2>1, <2>2
  <2>4. \A r \in Range(models) : nameOf'[r] = nameOf[r] /\ nameOf[r] # nameOf'[c]
    BY <1>3, <1>5, <2>1, <2>2, <2>3 DEF Serving
  <2>5. /\ models' \in Seq(Regs) /\ Len(models') = Len(models) + 1
        /\ \A i, j \in DOMAIN models' : nameOf'[models'[i]] = nameOf'[models'[j]] => i = j
        /\ Range(models') = Range(models) \cup {c}
    <3>1. \A i, j \in DOMAIN models : nameOf[models[i]] = nameOf[models[j]] => i = j
      BY DEF Listing
    <3> DEFINE g == nameOf'
    <3>2. \A r \in Range(models) : g[r] # g[c]
      BY <2>4
    <3>3. \A i, j \in DOMAIN models : g[models[i]] = g[models[j]] => i = j
      <4>1. \A i \in DOMAIN models : models[i] \in Range(models)
        BY DEF Range
      <4> QED  BY <2>4, <3>1, <4>1
    <3> HIDE DEF g
    <3>4. /\ Append(models, c) \in Seq(Regs) /\ Len(Append(models, c)) = Len(models) + 1
          /\ \A i, j \in DOMAIN Append(models, c) :
                g[Append(models, c)[i]] = g[Append(models, c)[j]] => i = j
          /\ Range(Append(models, c)) = Range(models) \cup {c}
      BY ONLY <1>3, <2>2, <3>2, <3>3, JoinsOnce
    <3> QED  BY <2>1, <3>4 DEF g
  <2>6. Len(models') <= MaxModels
    <3>1. Len(models) \in Nat /\ MaxModels \in Nat /\ ~(Len(models) >= MaxModels)
      BY <1>5, <2>2, RegistryAssumption
    <3> QED  BY <2>5, <3>1
  <2>7. Listing'
    BY <2>3, <2>5, <2>6 DEF Listing
  <2>8. Registered'
    BY <1>2, <2>1, <2>5 DEF Registered
  <2>9. Begun'
    <3>1. c \notin Boot
      BY RegistryAssumption
    <3> QED  BY <1>2, <2>5, <3>1 DEF Begun
  <2> QED  BY <2>7, <2>8, <2>9
<1> QED  BY <1>1, <1>4, <1>5

LEMMA HandleLists ==
    ASSUME LInv, IInv, NEW c \in Calls, Handle(c) \/ CancelLoad(c)
    PROVE  LInv'
<1> USE DEF LInv
<1>1. CASE Added(c)
  <2>1. UNCHANGED <<models, nameOf, loaded, start>> /\ handler[c] = "adding"
        /\ handler' = [handler EXCEPT ![c] = "waiting"] /\ task' = [task EXCEPT ![c] = "queued"]
    BY <1>1 DEF Added, registry
  <2>2. Listing' /\ Begun'
    BY <2>1 DEF Listing, Begun
  <2>3. Registered'
    BY <2>1 DEF Registered, IInv
  <2> QED  BY <2>2, <2>3
<1>2. CASE Answer(c)
  <2>1. UNCHANGED <<models, nameOf, loaded, start, task>> /\ task[c] = "ok"
        /\ handler' = [handler EXCEPT ![c] = "answered"]
    BY <1>2 DEF Answer, registry
  <2>2. Listing' /\ Begun'
    BY <2>1 DEF Listing, Begun
  <2>3. Registered'
    BY <2>1 DEF Registered
  <2> QED  BY <2>2, <2>3
<1>3. CASE RemoveIf(c)
  <2>1. UNCHANGED <<nameOf, loaded, start, task>>
    BY <1>3 DEF RemoveIf
  <2>2. CASE \E i \in DOMAIN models : models[i] = c /\ models' = RemoveAt(models, i) /\ handler' = [handler EXCEPT ![c] = "removing"]
    <3>1. PICK i \in DOMAIN models : models[i] = c /\ models' = RemoveAt(models, i)
      BY <2>2
    <3>2. handler' = [handler EXCEPT ![c] = "removing"]
      BY <2>2
    <3>3. Listing' /\ Range(models') = Range(models) \ {c}
      BY <2>1, <3>1, RemovalKeeps
    <3>4. Registered'
      BY <2>1, <3>2, <3>3 DEF Registered
    <3> QED  BY <2>1, <3>3, <3>4, FewerKeep
  <2>3. CASE c \notin Range(models) /\ handler' = [handler EXCEPT ![c] = "failed"] /\ UNCHANGED models
    <3>1. Listing' /\ Begun'
      BY <2>1, <2>3 DEF Listing, Begun
    <3>2. Registered'
      BY <2>1, <2>3 DEF Registered
    <3> QED  BY <3>1, <3>2
  <2> QED  BY <1>3, <2>2, <2>3 DEF RemoveIf
<1>4. CASE Removed(c)
  <2>1. UNCHANGED <<models, nameOf, loaded, start, task>> /\ handler[c] = "removing"
        /\ handler' = [handler EXCEPT ![c] = "failed"]
    BY <1>4 DEF Removed, registry
  <2>2. Listing' /\ Begun'
    BY <2>1 DEF Listing, Begun
  <2>3. Registered'
    BY <2>1 DEF Registered
  <2> QED  BY <2>2, <2>3
<1>5. CASE CancelLoad(c)
  <2>1. UNCHANGED <<models, nameOf, loaded, start, task>> /\ handler' = [handler EXCEPT ![c] = "cancelled"]
    BY <1>5 DEF CancelLoad, registry
  <2>2. Listing' /\ Begun'
    BY <2>1 DEF Listing, Begun
  <2>3. Registered'
    BY <2>1 DEF Registered
  <2> QED  BY <2>2, <2>3
<1>6. CASE JoinFails(c)
  <2>1. UNCHANGED <<models, nameOf, loaded, start, task>> /\ handler' = [handler EXCEPT ![c] = "broken"]
    BY <1>6 DEF JoinFails, registry
  <2>2. Listing' /\ Begun'
    BY <2>1 DEF Listing, Begun
  <2>3. Registered'
    BY <2>1 DEF Registered
  <2> QED  BY <2>2, <2>3
<1> QED  BY <1>1, <1>2, <1>3, <1>4, <1>5, <1>6 DEF Handle

LEMMA RunLoadLists ==
    ASSUME LInv, IInv, NEW c \in Calls, RunLoad(c)
    PROVE  LInv'
<1> USE DEF LInv
<1>1. UNCHANGED <<models, nameOf, handler, start>>
  BY DEF RunLoad, LoadOne, LoadOneSucceeds, LoadOneFails, LoadOnePanics, Published
<1>2. Listing'
  BY <1>1 DEF Listing
<1>3. /\ loaded' = loaded \/ loaded' = loaded \cup {c}
      /\ \E s \in {"ok", "loading", "published", "failed", "panicked"} :
           task' = [task EXCEPT ![c] = s] /\ (s \in {"ok", "published"} => c \in loaded')
  <2>1. CASE LoadOne(c)
    BY <2>1 DEF LoadOne
  <2>2. CASE LoadOneSucceeds(c)
    BY <2>2 DEF LoadOneSucceeds, Publish
  <2>3. CASE LoadOneFails(c) \/ LoadOnePanics(c)
    BY <2>3 DEF LoadOneFails, LoadOnePanics
  <2>4. CASE Published(c)
    BY <2>4 DEF Published, Registered
  <2> QED  BY <2>1, <2>2, <2>3, <2>4 DEF RunLoad
<1>4. loaded \subseteq loaded' /\ loaded' \subseteq Regs
  BY <1>3 DEF Registered, Regs
<1>5. Begun'
  BY <1>1, <1>4 DEF Begun
<1>6. Registered'
  BY <1>1, <1>3, <1>4 DEF Registered, IInv
<1> QED  BY <1>2, <1>5, <1>6

LEMMA LoadStartLists ==
    ASSUME LInv, IInv, LoadStart
    PROVE  LInv'
<1> USE DEF LInv
<1>0. models \in Seq(Regs) /\ start.left \in Seq(Regs)
  BY DEF Listing, Begun
<1>1. UNCHANGED <<models, nameOf, handler, task>>
  BY DEF LoadStart, LoadAll, LoadNext, NextSucceeds, NextPublished, NextFails, AllLoaded, registry
<1>2. Listing'
  BY <1>1 DEF Listing
<1>3. ASSUME UNCHANGED loaded PROVE Registered'
  BY <1>1, <1>3 DEF Registered
<1>4. CASE LoadAll
  <2>1. UNCHANGED loaded /\ start' = [at |-> "walking", left |-> models]
    BY <1>4 DEF LoadAll, Start
  <2>2. Begun'
    BY <1>0, <1>1, <2>1 DEF Begun
  <2> QED  BY <1>2, <1>3, <2>1, <2>2
<1>5. CASE LoadNext
  <2>1. UNCHANGED loaded /\ start.at = "walking" /\ start.left # <<>>
    BY <1>5 DEF LoadNext, registry
  <2>2. CASE Head(start.left) \in loaded
    <3>1. start' = [at |-> "walking", left |-> Tail(start.left)]
      BY <1>5, <2>2 DEF LoadNext, Start
    <3>2. Tail(start.left) \in Seq(Regs) /\ Range(start.left) \subseteq Range(Tail(start.left)) \cup {Head(start.left)}
      BY <1>0, <2>1, TailRest
    <3>3. Begun'
      BY <1>1, <2>1, <2>2, <3>1, <3>2 DEF Begun
    <3> QED  BY <1>2, <1>3, <2>1, <3>3
  <2>3. CASE Head(start.left) \notin loaded
    <3>1. start' = [at |-> "loading", left |-> start.left]
      BY <1>5, <2>3 DEF LoadNext, Start
    <3>2. Begun'
      BY <1>0, <1>1, <2>1, <3>1 DEF Begun
    <3> QED  BY <1>2, <1>3, <2>1, <3>2
  <2> QED  BY <2>2, <2>3
<1>6. CASE NextSucceeds
  <2>1. /\ start.at = "loading" /\ start.left # <<>> /\ loaded' = loaded \cup {Head(start.left)}
        /\ start' = [at |-> "published", left |-> Tail(start.left)]
    BY <1>6 DEF NextSucceeds, Publish, Start, Begun
  <2>2. /\ Tail(start.left) \in Seq(Regs) /\ Head(start.left) \in Regs
        /\ Range(start.left) \subseteq Range(Tail(start.left)) \cup {Head(start.left)}
    BY <1>0, <2>1, TailRest
  <2>3. Begun'
    BY <1>1, <2>1, <2>2 DEF Begun
  <2>4. Registered'
    BY <1>1, <2>1, <2>2 DEF Registered
  <2> QED  BY <1>2, <2>3, <2>4
<1>7. CASE NextPublished
  <2>1. UNCHANGED loaded /\ start.at = "published" /\ start' = [at |-> "walking", left |-> start.left]
    BY <1>7 DEF NextPublished, Start, registry
  <2>2. Begun'
    BY <1>0, <1>1, <2>1 DEF Begun
  <2> QED  BY <1>2, <1>3, <2>1, <2>2
<1>8. CASE NextFails
  <2>1. UNCHANGED loaded /\ start' = [at |-> "failed", left |-> <<>>]
    BY <1>8 DEF NextFails, Start
  <2>2. Begun'
    BY <1>1, <2>1 DEF Begun
  <2> QED  BY <1>2, <1>3, <2>1, <2>2
<1>9. CASE AllLoaded
  <2>1. UNCHANGED loaded /\ start.at = "walking" /\ start.left = <<>> /\ start' = [at |-> "done", left |-> <<>>]
    BY <1>9 DEF AllLoaded, Start
  <2>2. Begun'
    BY <1>1, <2>1 DEF Begun
  <2> QED  BY <1>2, <1>3, <2>1, <2>2
<1> QED  BY <1>4, <1>5, <1>6, <1>7, <1>8, <1>9 DEF LoadStart

LEMMA UnloadLists ==
    ASSUME LInv, NEW n \in Names, Unload(n)
    PROVE  LInv'
<1> USE DEF LInv
<1>1. UNCHANGED <<nameOf, loaded, start, task, handler>>
  BY DEF Unload, loaders
<1>2. PICK i \in DOMAIN models : models' = RemoveAt(models, i)
  BY DEF Unload
<1>3. Listing' /\ Range(models') \subseteq Range(models)
  BY <1>1, <1>2, RemovalKeeps
<1>4. Registered'
  BY <1>1, <1>3 DEF Registered
<1> QED  BY <1>1, <1>3, <1>4, FewerKeep

LEMMA StepLists == LInv /\ IInv /\ [Next]_vars => LInv'
<1> SUFFICES ASSUME LInv, IInv, [Next]_vars PROVE LInv'
  OBVIOUS
<1>1. ASSUME NEW c \in Calls, Add(c) \/ Handle(c) \/ CancelLoad(c) PROVE LInv'
  BY <1>1, AddLists, HandleLists
<1>2. ASSUME NEW c \in Calls, RunLoad(c) PROVE LInv'
  BY <1>2, RunLoadLists
<1>3. CASE LoadStart
  BY <1>3, LoadStartLists
<1>4. ASSUME NEW n \in Names, Unload(n) PROVE LInv'
  BY <1>4, UnloadLists
<1>5. CASE \/ NotifyRemoved \/ Drain \/ ShutdownDrains \/ Shut
           \/ \E w \in Watches : Subscribe(w) \/ RunWatch(w) \/ ClientReads(w) \/ ClientLeaves(w)
           \/ UNCHANGED vars
  <2>1. UNCHANGED <<models, nameOf, loaded, task, start, handler>>
    BY <1>5 DEF NotifyRemoved, Drain, ShutdownDrains, Shut, Drained, ShutdownStops, ShutdownNotifies, Subscribe,
       RunWatch, ReadDraining, Judge, Send, CheckStopping, Changed, Closed, ClientReads, ClientLeaves, vars, registry, loaders
  <2> QED  BY <2>1 DEF LInv, Listing, Registered, Begun
<1> QED  BY <1>1, <1>2, <1>3, <1>4, <1>5 DEF Next

(* Whatever fails, is cancelled, unloaded or stopped, a listed model that is *)
(* not loaded is ahead of Server::load or has a call at work on it, but for  *)
(* the three cases the code leaves: Server::load failed, the call is gone,   *)
(* or its load panicked.                                                     *)
THEOREM UnloadedAlwaysExpected == Spec => []UnloadedIsExpected
<1>1. Init => IInv /\ LInv
  BY InitInvariant, InitLists
<1>2. IInv /\ LInv /\ [Next]_vars => (IInv /\ LInv)'
  BY StepKeeps, StepLists
<1>3. LInv => UnloadedIsExpected
  <2> SUFFICES ASSUME LInv, NEW r \in Range(models) \ loaded
               PROVE  \/ r \in Boot /\ (start.at = "start" \/ r \in Range(start.left) \/ start.at = "failed")
                      \/ r \in Calls /\ handler[r] \in {"adding", "waiting", "cancelled", "broken"}
    BY DEF UnloadedIsExpected
  <2>1. r \in Regs
    BY DEF LInv, Listing, Range
  <2>2. CASE r \in Boot
    BY <2>2 DEF LInv, Begun
  <2>3. CASE r \in Calls
    BY <2>3 DEF LInv, Registered
  <2> QED  BY <2>1, <2>2, <2>3 DEF Regs
<1> QED  BY <1>1, <1>2, <1>3, PTL DEF Spec

-----------------------------------------------------------------------------
(* The loading mutex *)

(* A load that ends, in any way, gives the mutex back. *)
LEMMA LoadsUnlock ==
    ASSUME MInv, IInv, NEW c \in Calls, RunLoad(c)
    PROVE  MutexAtWork'
<1> USE NobodyAssumption DEF MutexAtWork, MInv
<1>1. task \in [Calls -> {"none", "queued", "loading", "published", "ok", "failed", "panicked"}]
  BY DEF IInv
<1>2. CASE LoadOne(c)
  <2>1. task[c] = "queued" /\ start' = start
        /\ \/ loading' = loading /\ task' = [task EXCEPT ![c] = "ok"]
           \/ loading' = c /\ task' = [task EXCEPT ![c] = "loading"]
    BY <1>2 DEF LoadOne
  <2> QED  BY <1>1, <2>1
<1>3. CASE LoadOneSucceeds(c)
  BY <1>1, <1>3 DEF LoadOneSucceeds
<1>4. CASE LoadOneFails(c) \/ LoadOnePanics(c)
  BY <1>4 DEF LoadOneFails, LoadOnePanics, IInv
<1>5. CASE Published(c)
  BY <1>5 DEF Published, IInv
<1> QED  BY <1>2, <1>3, <1>4, <1>5 DEF RunLoad

LEMMA StartUnlocks ==
    ASSUME MInv, LoadStart
    PROVE  MutexAtWork'
<1> USE NobodyAssumption DEF MutexAtWork, MInv
<1>1. UNCHANGED task
  BY DEF LoadStart, LoadAll, LoadNext, NextSucceeds, NextPublished, NextFails, AllLoaded
<1>2. CASE LoadAll
  BY <1>2 DEF LoadAll, Start
<1>3. CASE LoadNext
  <2>1. \/ start' = [at |-> "walking", left |-> Tail(start.left)]
        \/ start' = [at |-> "loading", left |-> start.left]
    BY <1>3, Zenon DEF LoadNext, Start
  <2>2. start.at = "walking" /\ loading' = loading
    BY <1>3 DEF LoadNext, registry
  <2> QED  BY <1>1, <2>1, <2>2
<1>4. CASE NextSucceeds
  BY <1>1, <1>4 DEF NextSucceeds, Start
<1>5. CASE NextPublished
  BY <1>1, <1>5 DEF NextPublished, Start, registry
<1>6. CASE NextFails \/ AllLoaded
  BY <1>6 DEF NextFails, AllLoaded
<1> QED  BY <1>2, <1>3, <1>4, <1>5, <1>6 DEF LoadStart

LEMMA StepUnlocks == MInv /\ IInv /\ LInv /\ [Next]_vars => MInv'
<1> SUFFICES ASSUME MInv, IInv, LInv, [Next]_vars PROVE MInv'
  OBVIOUS
<1>1. /\ task \in [Calls -> {"none", "queued", "loading", "published", "ok", "failed", "panicked"}]
      /\ handler \in [Calls -> {"idle", "adding", "waiting", "removing", "answered",
                                "failed", "refused", "cancelled", "broken"}]
  BY DEF IInv, LInv, Registered
<1>2. ASSUME NEW c \in Calls, Added(c) PROVE MInv'
  <2>1. /\ UNCHANGED <<loading, start>> /\ handler[c] = "adding"
        /\ task' = [task EXCEPT ![c] = "queued"] /\ handler' = [handler EXCEPT ![c] = "waiting"]
    BY <1>2 DEF Added, registry
  <2> QED  BY <1>1, <2>1 DEF MInv, MutexAtWork
<1>3. ASSUME NEW c \in Calls, Add(c) \/ Answer(c) \/ RemoveIf(c) \/ Removed(c) \/ JoinFails(c) \/ CancelLoad(c) PROVE MInv'
  <2>1. UNCHANGED <<loading, start, task>>
    BY <1>3 DEF Add, Answer, RemoveIf, Removed, JoinFails, CancelLoad, registry
  <2>2. \A d \in Calls : handler'[d] \in {"idle", "adding"} => handler[d] \in {"idle", "adding"}
    <3>1. CASE Add(c)
      BY <1>1, <3>1 DEF Add
    <3>2. CASE RemoveIf(c)
      BY <1>1, <3>2 DEF RemoveIf
    <3>3. CASE Answer(c) \/ Removed(c) \/ JoinFails(c) \/ CancelLoad(c)
      BY <1>1, <3>3 DEF Answer, Removed, JoinFails, CancelLoad
    <3> QED  BY <1>3, <3>1, <3>2, <3>3
  <2> QED  BY <2>1, <2>2 DEF MInv, MutexAtWork
<1>4. ASSUME NEW c \in Calls, RunLoad(c) PROVE MInv'
  <2>1. /\ handler' = handler /\ task[c] # "none" /\ \A d \in Calls : d # c => task'[d] = task[d]
    BY <1>1, <1>4 DEF RunLoad, LoadOne, LoadOneSucceeds, LoadOneFails, LoadOnePanics, Published
  <2> QED  BY <1>4, <2>1, LoadsUnlock DEF MInv
<1>5. CASE LoadStart
  <2>1. UNCHANGED <<task, handler>>
    BY <1>5 DEF LoadStart, LoadAll, LoadNext, NextSucceeds, NextPublished, NextFails, AllLoaded
  <2> QED  BY <1>5, <2>1, StartUnlocks DEF MInv
<1>6. CASE \/ \E n \in Names : Unload(n)
           \/ NotifyRemoved \/ Drain \/ ShutdownDrains \/ Shut
           \/ \E w \in Watches : Subscribe(w) \/ RunWatch(w) \/ ClientReads(w) \/ ClientLeaves(w)
           \/ UNCHANGED vars
  <2>1. UNCHANGED <<loading, task, start, handler>>
    BY <1>6 DEF Unload, NotifyRemoved, Drain, ShutdownDrains, Shut, Drained, ShutdownStops, ShutdownNotifies, Subscribe,
       RunWatch, ReadDraining, Judge, Send, CheckStopping, Changed, Closed, ClientReads, ClientLeaves, vars, registry, loaders
  <2> QED  BY <2>1 DEF MInv, MutexAtWork
<1> QED  BY <1>2, <1>3, <1>4, <1>5, <1>6 DEF Next, Handle

(* No load waits for one that is over: the mutex is held by a task that is   *)
(* at its load or what follows it, and by nobody once a load has failed,     *)
(* panicked or been published (state.rs load_one, Server::load): the part of *)
(* CallsSettle that needs no fairness.                                       *)
THEOREM MutexNeverLeftHeld == Spec => []MutexAtWork
<1>1. Init => IInv /\ LInv /\ MInv
  <2>1. Init => MInv
    BY DEF Init, MInv, MutexAtWork
  <2> QED  BY <2>1, InitInvariant, InitLists
<1>2. IInv /\ LInv /\ MInv /\ [Next]_vars => (IInv /\ LInv /\ MInv)'
  BY StepKeeps, StepLists, StepUnlocks
<1>3. MInv => MutexAtWork
  BY DEF MInv
<1> QED  BY <1>1, <1>2, <1>3, PTL DEF Spec

-----------------------------------------------------------------------------
(* The rest: the watches, those who unload, and the end of the server. *)

LEMMA StatusIsStatus == \A s, d : StatusGiven(s, d) \in Statuses
  BY DEF StatusGiven, Statuses

(* What changes no frame of a watch leaves the watches as they are typed. *)
LEMMA WatchRests ==
    ASSUME Rest, NEW w \in Watches, Subscribe(w) \/ RunWatch(w) \/ ClientReads(w) \/ ClientLeaves(w)
    PROVE  Rest'
<1> USE RegistryAssumption DEF Rest, ending, unloading, registry
<1>1. CASE Subscribe(w)
  BY <1>1 DEF Subscribe
<1>2. CASE ReadDraining(w)
  BY <1>2 DEF ReadDraining
<1>3. CASE Judge(w)
  <2>1. StatusGiven(service[w], wasDraining[w]) \in Statuses
    BY StatusIsStatus
  <2> DEFINE t == StatusGiven(service[w], wasDraining[w])
  <2>2. /\ last' = [last EXCEPT ![w] = t] /\ wasDraining' = [wasDraining EXCEPT ![w] = FALSE]
        /\ watch' = [watch EXCEPT ![w] = "sending"] \/ watch' = [watch EXCEPT ![w] = "checking"]
        /\ UNCHANGED <<draining, stopping, stopper, loading, unloader, unloads, service, unseen, gone, shown, frames>>
    BY <1>3 DEF Judge
  <2> HIDE DEF t
  <2> QED  BY <2>1, <2>2 DEF t
<1>4. CASE Send(w)
  <2>1. CASE gone[w]
    BY <1>4, <2>1, ZenonT(60) DEF Send
  <2>2. CASE ~gone[w]
    <3>1. /\ Len(frames[w]) < Room /\ last[w] \in Statuses /\ frames[w] \in Seq(Statuses) /\ Room \in Nat
          /\ frames' = [frames EXCEPT ![w] = Append(@, last[w])] /\ watch' = [watch EXCEPT ![w] = "checking"]
          /\ UNCHANGED <<draining, stopping, stopper, loading, unloader, unloads, service, unseen, wasDraining, last, gone, shown>>
      BY <1>4, <2>2 DEF Send
    <3>2. Append(frames[w], last[w]) \in Seq(Statuses) /\ Len(Append(frames[w], last[w])) <= Room
      <4>1. Append(frames[w], last[w]) \in Seq(Statuses) /\ Len(Append(frames[w], last[w])) = Len(frames[w]) + 1
            /\ Len(frames[w]) \in Nat
        BY <3>1
      <4> QED  BY <3>1, <4>1
    <3>3. frames' \in [Watches -> Seq(Statuses)] /\ \A v \in Watches : Len(frames'[v]) <= Room
      BY <3>1, <3>2
    <3> QED  BY <3>1, <3>3
  <2> QED  BY <2>1, <2>2
<1>5. CASE CheckStopping(w)
  BY <1>5 DEF CheckStopping
<1>6. CASE Changed(w)
  BY <1>6 DEF Changed
<1>7. CASE Closed(w)
  BY <1>7 DEF Closed
<1>8. CASE ClientReads(w)
  <2>1. frames[w] \in Seq(Statuses) /\ frames[w] # <<>> /\ Len(frames[w]) <= Room /\ Room \in Nat
    BY <1>8 DEF ClientReads
  <2>2. /\ Head(frames[w]) \in Statuses /\ Tail(frames[w]) \in Seq(Statuses)
        /\ Len(Tail(frames[w])) = Len(frames[w]) - 1 /\ Len(frames[w]) \in Nat
    BY <2>1
  <2>3. Len(Tail(frames[w])) <= Room
    BY <2>1, <2>2
  <2>4. /\ shown' = [shown EXCEPT ![w] = Head(frames[w])] /\ frames' = [frames EXCEPT ![w] = Tail(frames[w])]
        /\ UNCHANGED <<draining, stopping, stopper, loading, unloader, unloads, watch, service, unseen, wasDraining, last, gone>>
    BY <1>8 DEF ClientReads
  <2>5. frames' \in [Watches -> Seq(Statuses)] /\ \A v \in Watches : Len(frames'[v]) <= Room
    BY <2>2, <2>3, <2>4
  <2>6. shown' \in [Watches -> Statuses \cup {None}]
    BY <2>2, <2>4
  <2> QED  BY <2>4, <2>5, <2>6
<1>9. CASE ClientLeaves(w)
  <2>1. /\ gone' = [gone EXCEPT ![w] = TRUE] /\ frames' = [frames EXCEPT ![w] = <<>>] /\ shown' = [shown EXCEPT ![w] = None]
        /\ UNCHANGED <<draining, stopping, stopper, loading, unloader, unloads, watch, service, unseen, wasDraining, last>>
    BY <1>9 DEF ClientLeaves
  <2>2. <<>> \in Seq(Statuses) /\ Len(<<>>) <= Room
    OBVIOUS
  <2>3. frames' \in [Watches -> Seq(Statuses)] /\ \A v \in Watches : Len(frames'[v]) <= Room
    BY <2>1, <2>2
  <2> QED  BY <2>1, <2>3
<1> QED  BY <1>1, <1>2, <1>3, <1>4, <1>5, <1>6, <1>7, <1>8, <1>9 DEF RunWatch

(* The others leave the watches alone, but for what NotifyHealth tells them. *)
LEMMA OthersRest ==
    ASSUME Rest, LInv, IInv, Next,
           ~\E w \in Watches : Subscribe(w) \/ RunWatch(w) \/ ClientReads(w) \/ ClientLeaves(w)
    PROVE  Rest'
<1>1. /\ UNCHANGED watching
      /\ unseen' \in [Watches -> BOOLEAN]
  <2>1. CASE UNCHANGED <<watching, unseen>>
    BY <2>1 DEF Rest
  <2>2. CASE UNCHANGED watching /\ NotifyHealth
    BY <2>2 DEF NotifyHealth
  <2> QED  BY <2>1, <2>2 DEF Next, Add, Handle, CancelLoad, RunLoad, LoadStart, Unload, NotifyRemoved, Drain, ShutdownDrains, Shut,
             Added, Answer, RemoveIf, Removed, JoinFails, LoadOne, LoadOneSucceeds, LoadOneFails, LoadOnePanics, Published,
             LoadAll, LoadNext, NextSucceeds, NextPublished, NextFails, AllLoaded, Drained, ShutdownStops, ShutdownNotifies
<1>2. loading' \in Regs \cup {Starting, NoOne}
  <2>1. loading' = loading \/ loading' \in Regs \cup {Starting, NoOne}
    BY DEF Next, Add, Handle, CancelLoad, RunLoad, LoadStart, Unload, NotifyRemoved, Drain, ShutdownDrains, Shut,
       Added, Answer, RemoveIf, Removed, JoinFails, LoadOne, LoadOneSucceeds, LoadOneFails, LoadOnePanics, Published, registry, Regs,
       LoadAll, LoadNext, NextSucceeds, NextPublished, NextFails, AllLoaded, Drained, ShutdownStops, ShutdownNotifies
  <2> QED  BY <2>1 DEF Rest
<1>3. /\ draining' \in BOOLEAN /\ stopping' \in BOOLEAN
      /\ stopper' \in {"serving", "draining", "drained", "shutting", "stopping", "stopped"}
  <2>1. CASE UNCHANGED ending
    BY <2>1 DEF Rest, ending
  <2>2. CASE Drain \/ ShutdownDrains \/ Shut
    BY <2>2 DEF Rest, Drain, ShutdownDrains, Shut, Drained, ShutdownStops, ShutdownNotifies
  <2> QED  BY <2>1, <2>2 DEF Next, Add, Handle, CancelLoad, RunLoad, LoadStart, Unload, NotifyRemoved,
             Added, Answer, RemoveIf, Removed, JoinFails, LoadOne, LoadOneSucceeds, LoadOneFails, LoadOnePanics, Published,
             LoadAll, LoadNext, NextSucceeds, NextPublished, NextFails, AllLoaded
<1>4. unloader' \in Nat /\ unloads' \in Nat /\ unloader' <= unloads' /\ unloads' <= Unloads
  <2>1. CASE UNCHANGED unloading
    BY <2>1 DEF Rest, unloading
  <2>2. ASSUME NEW n \in Names, Unload(n)
        PROVE  unloader' \in Nat /\ unloads' \in Nat /\ unloader' <= unloads' /\ unloads' <= Unloads
    <3>1. unloads < Unloads /\ unloads' = unloads + 1 /\ unloader' = unloader + 1
      BY <2>2 DEF Unload
    <3> QED  BY <3>1, RegistryAssumption DEF Rest
  <2>3. CASE NotifyRemoved
    BY <2>3 DEF NotifyRemoved, Rest
  <2> QED  BY <2>1, <2>2, <2>3 DEF Next, Add, Handle, CancelLoad, RunLoad, LoadStart, Drain, ShutdownDrains, Shut,
             Added, Answer, RemoveIf, Removed, JoinFails, LoadOne, LoadOneSucceeds, LoadOneFails, LoadOnePanics, Published,
             LoadAll, LoadNext, NextSucceeds, NextPublished, NextFails, AllLoaded, Drained, ShutdownStops, ShutdownNotifies
<1> QED  BY <1>1, <1>2, <1>3, <1>4 DEF Rest, watching

LEMMA InitRests == Init => Rest
<1> SUFFICES ASSUME Init PROVE Rest
  OBVIOUS
<1>1. <<>> \in Seq(Statuses) /\ Len(<<>>) = 0 /\ Room \in Nat /\ Unloads \in Nat
  BY RegistryAssumption
<1>2. frames \in [Watches -> Seq(Statuses)] /\ \A w \in Watches : Len(frames[w]) <= Room
  <2>1. frames = [w \in Watches |-> <<>>]
    BY DEF Init
  <2> QED  BY <1>1, <2>1
<1>3. /\ loading \in Regs \cup {Starting, NoOne}
      /\ unloader \in Nat /\ unloads \in Nat /\ unloader <= unloads /\ unloads <= Unloads
  BY <1>1 DEF Init
<1> QED  BY <1>2, <1>3 DEF Init, Rest

LEMMA StepRests == Rest /\ LInv /\ IInv /\ [Next]_vars => Rest'
<1> SUFFICES ASSUME Rest, LInv, IInv, [Next]_vars PROVE Rest'
  OBVIOUS
<1>1. CASE UNCHANGED vars
  BY <1>1 DEF vars, Rest, registry, ending, unloading, watching
<1>2. ASSUME NEW w \in Watches, Subscribe(w) \/ RunWatch(w) \/ ClientReads(w) \/ ClientLeaves(w) PROVE Rest'
  BY <1>2, WatchRests
<1> QED  BY <1>1, <1>2, OthersRest

(* Every variable has its type; the listing is within its cap and no two     *)
(* listed models share a name, whoever registers, rolls back and unloads.    *)
THEOREM RegistryTypes == Spec => []TypeOK
<1>1. Init => IInv /\ LInv /\ Rest
  BY InitInvariant, InitLists, InitRests
<1>2. IInv /\ LInv /\ Rest /\ [Next]_vars => (IInv /\ LInv /\ Rest)'
  BY StepKeeps, StepLists, StepRests
<1>3. IInv /\ LInv /\ Rest => TypeOK
  <2> SUFFICES ASSUME IInv, LInv, Rest PROVE TypeOK
    OBVIOUS
  <2>1. /\ models \in Seq(Regs) /\ Len(models) <= MaxModels
        /\ \A i, j \in 1 .. Len(models) : nameOf[models[i]] = nameOf[models[j]] => i = j
    BY DEF LInv, Listing
  <2>2. /\ loaded \subseteq Regs /\ start.left \in Seq(Regs) /\ nameOf \in [Regs -> Names \cup {None}]
        /\ start.at \in {"start", "walking", "loading", "published", "done", "failed"}
    BY DEF LInv, Listing, Registered, Begun
  <2>3. \A w \in Watches : frames[w] \in Seq(Statuses) /\ Len(frames[w]) <= Room
    BY DEF Rest
  <2>4. unloader \in 0 .. Unloads /\ unloads \in 0 .. Unloads
    BY RegistryAssumption DEF Rest
  <2>5. loads \in [Regs -> Nat] /\ task \in [Calls -> {"none", "queued", "loading", "published", "ok", "failed", "panicked"}]
    BY DEF IInv
  <2>6. handler \in [Calls -> {"idle", "adding", "waiting", "removing", "answered",
                              "failed", "refused", "cancelled", "broken"}]
    BY DEF LInv, Registered
  <2>7. /\ {draining, stopping} \subseteq BOOLEAN /\ {unseen, wasDraining, gone} \subseteq [Watches -> BOOLEAN]
        /\ {last, shown} \subseteq [Watches -> Statuses \cup {None}]
    BY DEF Rest
  <2> QED  BY <2>1, <2>2, <2>3, <2>4, <2>5, <2>6, <2>7 DEF TypeOK, Rest
<1> QED  BY <1>1, <1>2, <1>3, PTL DEF Spec

(* A rollback takes away its own registration, and no other: not one made    *)
(* since under the same name.                                                *)
THEOREM RollbackOnlyItsOwn == Spec => OnlyItsOwnRollback
<1> DEFINE Fate == \A r \in Range(models) : r \notin Range(models)' =>
                      unloads' # unloads \/ (r \in Calls /\ task[r] = "failed")
<1>1. Init => IInv /\ LInv /\ Rest
  BY InitInvariant, InitLists, InitRests
<1>2. IInv /\ LInv /\ Rest /\ [Next]_vars => (IInv /\ LInv /\ Rest)'
  BY StepKeeps, StepLists, StepRests
<1>3. LInv /\ Rest /\ [Next]_vars => [Fate]_vars
  <2> SUFFICES ASSUME LInv, Rest, Next PROVE Fate
    OBVIOUS
  <2>1. CASE UNCHANGED models
    BY <2>1
  <2>2. ASSUME NEW c \in Calls, Add(c) PROVE Range(models) \subseteq Range(models')
    <3>1. models' = models \/ models' = Append(models, c)
      BY <2>2 DEF Add
    <3>2. models \in Seq(Regs) /\ c \in Regs
      BY DEF LInv, Listing, Regs
    <3>3. ASSUME NEW i \in DOMAIN models PROVE i \in DOMAIN Append(models, c) /\ Append(models, c)[i] = models[i]
      BY <3>2
    <3> QED  BY <3>1, <3>3 DEF Range
  <2>3. ASSUME NEW c \in Calls, RemoveIf(c) PROVE task[c] = "failed" /\ Range(models) \subseteq Range(models') \cup {c}
    <3>1. CASE UNCHANGED models
      BY <2>3, <3>1 DEF RemoveIf
    <3>2. ASSUME NEW i \in DOMAIN models, models[i] = c, models' = RemoveAt(models, i)
          PROVE  Range(models') = Range(models) \ {c}
      <4>1. UNCHANGED nameOf
        BY <2>3 DEF RemoveIf
      <4> QED  BY <3>2, <4>1, RemovalKeeps DEF LInv
    <3> QED  BY <2>3, <3>1, <3>2 DEF RemoveIf
  <2>4. ASSUME NEW n \in Names, Unload(n) PROVE unloads' # unloads
    BY <2>4 DEF Unload, Rest
  <2>5. UNCHANGED models \/ (\E c \in Calls : Add(c) \/ RemoveIf(c)) \/ (\E n \in Names : Unload(n))
    BY DEF Next, Handle, CancelLoad, RunLoad, LoadStart, NotifyRemoved, Drain, ShutdownDrains, Shut,
       Added, Answer, Removed, JoinFails, LoadOne, LoadOneSucceeds, LoadOneFails, LoadOnePanics, Published, registry,
       LoadAll, LoadNext, NextSucceeds, NextPublished, NextFails, AllLoaded, Drained, ShutdownStops, ShutdownNotifies,
       Subscribe, RunWatch, ReadDraining, Judge, Send, CheckStopping, Changed, Closed, ClientReads, ClientLeaves
  <2> QED  BY <2>1, <2>2, <2>3, <2>4, <2>5
<1> QED  BY <1>1, <1>2, <1>3, PTL DEF Spec, OnlyItsOwnRollback
-----------------------------------------------------------------------------
(* The watches and what they follow *)

LEMMA InitFollows == Init => WInv
  BY DEF Init, WInv, Follows, Delivered, StopTold, Latest

(* What the watches' own steps leave alone. *)
LEMMA StatusStays ==
    ASSUME UNCHANGED <<registry, loaders, ending, unloading>>
    PROVE  /\ NoticePending' = NoticePending
           /\ \A w \in Watches : service'[w] = service[w] =>
                StatusGiven(service[w], draining)' = StatusGiven(service[w], draining)
<1>1. NoticePending' = NoticePending
  BY DEF NoticePending, loaders, ending, unloading
<1>2. ASSUME NEW w \in Watches, service'[w] = service[w]
      PROVE  StatusGiven(service[w], draining)' = StatusGiven(service[w], draining)
  BY <1>2 DEF StatusGiven, Serving, registry, ending
<1> QED  BY <1>1, <1>2

(* A frame sent is the latest; one read leaves the latest what it was. *)
LEMMA LatestSent ==
    ASSUME NEW q \in Seq(Statuses), NEW s \in Statuses
    PROVE  Append(q, s) # <<>> /\ Append(q, s)[Len(Append(q, s))] = s
<1>1. Len(q) \in Nat /\ Len(Append(q, s)) = Len(q) + 1 /\ Append(q, s)[Len(q) + 1] = s
  OBVIOUS
<1> QED  BY <1>1

LEMMA NoneLeft == \A q \in Seq(Statuses) : q = <<>> <=> Len(q) = 0
  OBVIOUS

LEMMA LatestRead ==
    ASSUME NEW q \in Seq(Statuses), q # <<>>
    PROVE  IF Tail(q) = <<>> THEN q[Len(q)] = Head(q) ELSE Tail(q)[Len(Tail(q))] = q[Len(q)]
<1> DEFINE t == Tail(q)
<1>1. /\ Len(q) \in Nat /\ Len(q) # 0 /\ Head(q) = q[1]
      /\ Len(t) = Len(q) - 1 /\ t \in Seq(Statuses) /\ \A i \in 1 .. Len(t) : t[i] = q[i + 1]
  BY NoneLeft
<1> HIDE DEF t
<1>2. t = <<>> <=> Len(t) = 0
  BY <1>1, NoneLeft
<1>3. IF t = <<>> THEN q[Len(q)] = Head(q) ELSE t[Len(t)] = q[Len(q)]
  BY <1>1, <1>2
<1> QED  BY <1>3 DEF t

(* A watch's step, its client's included. *)
LEMMA WatchFollows ==
    ASSUME WInv, Rest, NEW w \in Watches, Subscribe(w) \/ RunWatch(w) \/ ClientReads(w) \/ ClientLeaves(w)
    PROVE  WInv'
<1> USE DEF WInv
<1>0. /\ UNCHANGED <<registry, loaders, ending, unloading>>
  BY DEF Subscribe, RunWatch, ReadDraining, Judge, Send, CheckStopping, Changed, Closed, ClientReads, ClientLeaves
<1>1. /\ NoticePending' = NoticePending
      /\ \A v \in Watches : service'[v] = service[v] =>
           StatusGiven(service[v], draining)' = StatusGiven(service[v], draining)
  BY <1>0, StatusStays
<1>2. UNCHANGED <<draining, stopping, stopper>>
  BY <1>0 DEF ending
(* The other watches stay as they are, and so does what they follow. *)
<1>3. ASSUME NEW v \in Watches, v # w
      PROVE  /\ watch'[v] = watch[v] /\ service'[v] = service[v] /\ unseen'[v] = unseen[v]
             /\ wasDraining'[v] = wasDraining[v] /\ last'[v] = last[v] /\ frames'[v] = frames[v]
             /\ shown'[v] = shown[v] /\ gone'[v] = gone[v]
  BY <1>3 DEF Rest, Subscribe, RunWatch, ReadDraining, Judge, Send, CheckStopping, Changed, Closed, ClientReads, ClientLeaves
<1> DEFINE Fine(v) ==
             /\ /\ watch[v] = "judging" /\ wasDraining[v] # draining => Told(v)
                /\ watch[v] \in {"sending", "checking", "waiting"} =>
                     Told(v) \/ last[v] = StatusGiven(service[v], draining)
             /\ ~gone[v] /\ watch[v] # "sending" => Latest(v) = last[v]
             /\ watch[v] = "waiting" /\ stopping => unseen[v] \/ stopper = "stopping"
<1>4. \A v \in Watches : Fine(v)
  BY DEF Follows, Delivered, StopTold
<1>5. ASSUME NEW v \in Watches, v # w PROVE Fine(v)'
  BY <1>1, <1>2, <1>3, <1>4, <1>5 DEF Told, Latest
<1>6. Fine(w)'
  <2> USE <1>1, <1>2, <1>4 DEF Rest, Told, Latest
  <2>1. CASE Subscribe(w)
    BY <2>1 DEF Subscribe
  <2>2. CASE ReadDraining(w)
    BY <2>2 DEF ReadDraining
  <2>3. CASE Judge(w)
    <3>1. last'[w] = StatusGiven(service[w], wasDraining[w]) /\ service'[w] = service[w] /\ unseen'[w] = unseen[w]
          /\ watch[w] = "judging"
          /\ frames'[w] = frames[w] /\ shown'[w] = shown[w] /\ gone'[w] = gone[w]
          /\ watch'[w] = IF StatusGiven(service[w], wasDraining[w]) # last[w] THEN "sending" ELSE "checking"
      BY <2>3 DEF Judge
    <3> QED  BY <3>1
  <2>4. CASE Send(w)
    <3>1. CASE gone[w]
      BY <2>4, <3>1 DEF Send
    <3>2. CASE ~gone[w]
      <4>1. frames'[w] = Append(frames[w], last[w]) /\ watch'[w] = "checking" /\ watch[w] = "sending"
            /\ frames[w] \in Seq(Statuses) /\ last[w] \in Statuses
            /\ UNCHANGED <<service, unseen, wasDraining, last, shown, gone>>
        BY <2>4, <3>2 DEF Send
      <4>2. Append(frames[w], last[w]) # <<>> /\ Append(frames[w], last[w])[Len(Append(frames[w], last[w]))] = last[w]
        BY <4>1, LatestSent, Zenon
      <4>3. frames'[w] # <<>> /\ frames'[w][Len(frames'[w])] = last[w]
        BY <4>1, <4>2, Zenon
      <4> QED  BY <4>1, <4>3
    <3> QED  BY <3>1, <3>2
  <2>5. CASE CheckStopping(w)
    BY <2>5 DEF CheckStopping
  <2>6. CASE Changed(w)
    BY <2>6 DEF Changed
  <2>7. CASE Closed(w)
    BY <2>7 DEF Closed
  <2>8. CASE ClientReads(w)
    <3>1. frames[w] \in Seq(Statuses) /\ frames[w] # <<>> /\ frames'[w] = Tail(frames[w]) /\ shown'[w] = Head(frames[w])
          /\ UNCHANGED <<watch, service, unseen, wasDraining, last, gone>>
      BY <2>8 DEF ClientReads
    <3>2. Latest(w)' = Latest(w)
      BY <3>1, LatestRead
    <3> HIDE DEF Latest
    <3> QED  BY <3>1, <3>2
  <2>9. CASE ClientLeaves(w)
    BY <2>9 DEF ClientLeaves
  <2> QED  BY <2>1, <2>2, <2>3, <2>4, <2>5, <2>6, <2>7, <2>8, <2>9 DEF RunWatch
<1>7. \A v \in Watches : Fine(v)'
  BY <1>5, <1>6
<1>8. Follows' /\ Delivered'
  BY <1>7 DEF Follows, Delivered
<1>9. StopTold'
  BY <1>2, <1>7 DEF StopTold
<1> QED  BY <1>8, <1>9

(* Whoever changes what a status is read from has a notification to make;    *)
(* whoever makes it reaches every watch that lives.                          *)
LEMMA OthersNotify ==
    ASSUME StopTold, Rest, LInv, IInv, Next,
           ~\E w \in Watches : Subscribe(w) \/ RunWatch(w) \/ ClientReads(w) \/ ClientLeaves(w)
    PROVE  /\ UNCHANGED watching
           /\ \/ NotifyHealth
              \/ NoticePending' /\ UNCHANGED unseen
              \/ UNCHANGED <<models, nameOf, loaded, draining, unseen>> /\ NoticePending' = NoticePending
           /\ UNCHANGED <<stopping, stopper>> \/ stopper' = "stopping" \/ ~stopping' \/ NotifyHealth
           /\ stopping' => stopper' \in {"stopping", "stopped"}
<1>1. UNCHANGED watching
  BY DEF Next, Add, Handle, CancelLoad, RunLoad, LoadStart, Unload, NotifyRemoved, Drain, ShutdownDrains, Shut,
     Added, Answer, RemoveIf, Removed, JoinFails, LoadOne, LoadOneSucceeds, LoadOneFails, LoadOnePanics, Published,
     LoadAll, LoadNext, NextSucceeds, NextPublished, NextFails, AllLoaded, Drained, ShutdownStops, ShutdownNotifies
<1> DEFINE Quiet == UNCHANGED <<models, nameOf, loaded, draining, unseen>> /\ NoticePending' = NoticePending
           Steady == UNCHANGED <<stopping, stopper>> \/ stopper' = "stopping" \/ ~stopping' \/ NotifyHealth
           Goal == /\ NotifyHealth \/ (NoticePending' /\ UNCHANGED unseen) \/ Quiet
                   /\ Steady
<1>n. NotifyHealth => Goal
  OBVIOUS
<1>p. NoticePending' /\ UNCHANGED unseen /\ UNCHANGED <<stopping, stopper>> => Goal
  OBVIOUS
<1>q. UNCHANGED <<models, nameOf, loaded, draining, stopping, stopper, unseen>> /\ NoticePending' = NoticePending => Goal
  OBVIOUS
<1> HIDE DEF Goal
(* The handlers. *)
<1>2. ASSUME NEW c \in Calls, Add(c) \/ Handle(c) \/ CancelLoad(c) PROVE Goal
  <2> USE <1>2
  <2>1. handler \in [Calls -> {"idle", "adding", "waiting", "removing", "answered", "failed", "refused", "cancelled", "broken"}]
        /\ task \in [Calls -> {"none", "queued", "loading", "published", "ok", "failed", "panicked"}]
    BY DEF LInv, Registered, IInv
  <2>2. CASE Added(c) \/ Removed(c)
    BY <2>2, <1>n DEF Added, Removed
  <2>3. ASSUME UNCHANGED <<models, nameOf, loaded, task, start, ending, unloading, unseen>>,
               handler[c] \notin {"adding", "removing"}, NEW h, h \notin {"adding", "removing"},
               handler' = [handler EXCEPT ![c] = h]
        PROVE  Goal
    <3>1. \A d \in Calls : handler'[d] \in {"adding", "removing"} <=> handler[d] \in {"adding", "removing"}
      BY <2>1, <2>3
    <3>2. NoticePending' = NoticePending
      BY <2>3, <3>1 DEF NoticePending, ending, unloading
    <3> QED  BY <2>3, <3>2, <1>q DEF ending
  <2>4. ASSUME UNCHANGED <<ending, unseen>>, NEW h \in {"adding", "removing"}, handler' = [handler EXCEPT ![c] = h]
        PROVE  Goal
    <3>1. handler'[c] \in {"adding", "removing"}
      BY <2>1, <2>4
    <3>2. NoticePending'
      BY <2>4, <3>1 DEF NoticePending
    <3> QED  BY <2>4, <3>2, <1>p DEF ending
  <2>5. CASE Add(c)
    <3>1. handler[c] = "idle" /\ UNCHANGED <<loaded, task, start, ending, unloading, unseen>>
          /\ \/ UNCHANGED <<models, nameOf>> /\ handler' = [handler EXCEPT ![c] = "refused"]
             \/ handler' = [handler EXCEPT ![c] = "adding"]
      BY <2>5 DEF Add
    <3> QED  BY <2>3, <2>4, <3>1
  <2>6. CASE RemoveIf(c)
    <3>1. handler[c] = "waiting" /\ UNCHANGED <<nameOf, loaded, task, start, ending, unloading, unseen>>
          /\ \/ UNCHANGED models /\ handler' = [handler EXCEPT ![c] = "failed"]
             \/ handler' = [handler EXCEPT ![c] = "removing"]
      BY <2>6 DEF RemoveIf
    <3> QED  BY <2>3, <2>4, <3>1
  <2>7. CASE Answer(c)
    BY <2>3, <2>7 DEF Answer, registry
  <2>8. CASE CancelLoad(c)
    BY <2>3, <2>8 DEF CancelLoad, registry
  <2>9. CASE JoinFails(c)
    BY <2>3, <2>9 DEF JoinFails, registry
  <2> QED  BY <2>2, <2>5, <2>6, <2>7, <2>8, <2>9 DEF Handle
(* The loads. *)
<1>3. ASSUME NEW c \in Calls, RunLoad(c) PROVE Goal
  <2> USE <1>3
  <2>1. task \in [Calls -> {"none", "queued", "loading", "published", "ok", "failed", "panicked"}]
    BY DEF IInv
  <2>2. CASE Published(c)
    BY <2>2, <1>n DEF Published
  <2>3. CASE LoadOneSucceeds(c)
    <3>1. task'[c] = "published" /\ UNCHANGED <<ending, unseen>>
      BY <2>1, <2>3 DEF LoadOneSucceeds
    <3>2. NoticePending'
      BY <3>1 DEF NoticePending
    <3> QED  BY <3>1, <3>2, <1>p DEF ending
  <2>4. CASE LoadOne(c) \/ LoadOneFails(c) \/ LoadOnePanics(c)
    <3>1. PICK t : task' = [task EXCEPT ![c] = t] /\ t # "published"
      BY <2>4 DEF LoadOne, LoadOneFails, LoadOnePanics
    <3>2. task[c] # "published" /\ UNCHANGED <<models, nameOf, loaded, handler, start, ending, unloading, unseen>>
      BY <2>4 DEF LoadOne, LoadOneFails, LoadOnePanics
    <3>3. \A d \in Calls : task'[d] = "published" <=> task[d] = "published"
      BY <2>1, <3>1, <3>2
    <3>4. NoticePending' = NoticePending
      BY <3>2, <3>3 DEF NoticePending, ending, unloading
    <3> QED  BY <3>2, <3>4, <1>q DEF ending
  <2> QED  BY <2>2, <2>3, <2>4 DEF RunLoad
<1>4. ASSUME LoadStart PROVE Goal
  <2>1. CASE NextPublished
    BY <2>1, <1>n DEF NextPublished
  <2>2. CASE NextSucceeds
    <3>1. start'.at = "published" /\ UNCHANGED <<ending, unseen>>
      BY <2>2 DEF NextSucceeds, Start
    <3>2. NoticePending'
      BY <3>1 DEF NoticePending
    <3> QED  BY <3>1, <3>2, <1>p DEF ending
  <2>3. CASE LoadAll \/ LoadNext \/ NextFails \/ AllLoaded
    <3>1. UNCHANGED <<models, nameOf, loaded, handler, task, ending, unloading, unseen>> /\ start.at # "published"
      BY <2>3 DEF LoadAll, LoadNext, NextFails, AllLoaded, registry
    <3>2. LoadNext => start'.at # "published"
      <4>1. LoadNext => \/ start' = [at |-> "walking", left |-> Tail(start.left)]
                        \/ start' = [at |-> "loading", left |-> start.left]
        BY Zenon DEF LoadNext, Start
      <4> QED  BY <4>1
    <3>3. LoadAll \/ NextFails \/ AllLoaded => start'.at # "published"
      <4>1. LoadAll \/ NextFails \/ AllLoaded =>
              \/ start' = [at |-> "walking", left |-> models]
              \/ start' = [at |-> "failed", left |-> <<>>]
              \/ start' = [at |-> "done", left |-> <<>>]
        BY Zenon DEF LoadAll, NextFails, AllLoaded, Start
      <4> QED  BY <4>1
    <3>4. NoticePending' = NoticePending
      BY <2>3, <3>1, <3>2, <3>3 DEF NoticePending, ending, unloading
    <3> QED  BY <3>1, <3>4, <1>q DEF ending
  <2> QED  BY <1>4, <2>1, <2>2, <2>3 DEF LoadStart
<1>5. ASSUME NEW n \in Names, Unload(n) PROVE Goal
  <2>1. unloader' = unloader + 1 /\ unloader \in Nat /\ UNCHANGED <<ending, unseen>>
    BY <1>5 DEF Unload, Rest
  <2>2. NoticePending'
    BY <2>1 DEF NoticePending
  <2> QED  BY <2>1, <2>2, <1>p DEF ending
<1>6. ASSUME NotifyRemoved PROVE Goal
  BY <1>6, <1>n DEF NotifyRemoved
<1>7. ASSUME Drain \/ ShutdownDrains \/ Shut PROVE Goal
  <2>1. CASE Drain \/ ShutdownDrains
    <3>1. UNCHANGED unseen /\ ~stopping' /\ stopper' \in {"draining", "shutting"}
      BY <2>1 DEF Drain, ShutdownDrains, StopTold, Rest
    <3> QED  BY <3>1 DEF NoticePending, Goal
  <2>2. CASE Drained \/ ShutdownNotifies
    BY <2>2, <1>n DEF Drained, ShutdownNotifies
  <2>3. CASE ShutdownStops
    <3>1. UNCHANGED unseen /\ stopper' = "stopping"
      BY <2>3 DEF ShutdownStops
    <3> QED  BY <3>1 DEF NoticePending, Goal
  <2> QED  BY <1>7, <2>1, <2>2, <2>3 DEF Shut
<1>8. Goal
  BY <1>2, <1>3, <1>4, <1>5, <1>6, <1>7 DEF Next
<1>9. stopping' => stopper' \in {"stopping", "stopped"}
  <2>1. CASE Drain \/ ShutdownDrains \/ Shut
    BY <2>1 DEF Drain, ShutdownDrains, Shut, Drained, ShutdownStops, ShutdownNotifies, StopTold
  <2>2. CASE UNCHANGED ending
    BY <2>2 DEF ending, StopTold
  <2> QED  BY <2>1, <2>2 DEF Next, Add, Handle, CancelLoad, RunLoad, LoadStart, Unload, NotifyRemoved,
             Added, Answer, RemoveIf, Removed, JoinFails, LoadOne, LoadOneSucceeds, LoadOneFails, LoadOnePanics, Published,
             LoadAll, LoadNext, NextSucceeds, NextPublished, NextFails, AllLoaded
<1> QED  BY <1>1, <1>8, <1>9 DEF Goal

(* The steps of everyone else. *)
LEMMA OthersFollow ==
    ASSUME WInv, Rest, LInv, IInv, Next,
           ~\E w \in Watches : Subscribe(w) \/ RunWatch(w) \/ ClientReads(w) \/ ClientLeaves(w)
    PROVE  WInv'
<1>1. /\ UNCHANGED watching
      /\ \/ NotifyHealth
         \/ NoticePending' /\ UNCHANGED unseen
         \/ UNCHANGED <<models, nameOf, loaded, draining, unseen>> /\ NoticePending' = NoticePending
      /\ UNCHANGED <<stopping, stopper>> \/ stopper' = "stopping" \/ ~stopping' \/ NotifyHealth
      /\ stopping' => stopper' \in {"stopping", "stopped"}
  BY OthersNotify DEF WInv
<1>2. NotifyHealth => \A w \in Watches : watch'[w] \in {"reading", "judging", "sending", "checking", "waiting"} => unseen'[w]
  BY <1>1 DEF NotifyHealth, Rest, watching
<1>3. NotifyHealth \/ UNCHANGED unseen
  BY <1>1
<1>4. Delivered'
  BY <1>1 DEF WInv, Delivered, Latest, watching
<1>5. StopTold'
  BY <1>1, <1>2, <1>3 DEF WInv, StopTold, watching
<1>6. Follows'
  <2>1. CASE NotifyHealth
    BY <1>2, <2>1 DEF Follows, Told
  <2>2. CASE NoticePending'
    BY <2>2 DEF Follows, Told
  <2>3. CASE UNCHANGED <<models, nameOf, loaded, draining, unseen>> /\ NoticePending' = NoticePending
    <3>1. \A w \in Watches : StatusGiven(service[w], draining)' = StatusGiven(service[w], draining)
      BY <1>1, <2>3 DEF StatusGiven, Serving, watching
    <3> QED  BY <1>1, <2>3, <3>1 DEF WInv, Follows, Told, watching
  <2> QED  BY <1>1, <2>1, <2>2, <2>3
<1> QED  BY <1>4, <1>5, <1>6 DEF WInv

LEMMA StepFollows == WInv /\ Rest /\ LInv /\ IInv /\ [Next]_vars => WInv'
<1> SUFFICES ASSUME WInv, Rest, LInv, IInv, [Next]_vars PROVE WInv'
  OBVIOUS
<1>1. CASE UNCHANGED vars
  BY <1>1 DEF vars, WInv, Follows, Delivered, StopTold, Told, Latest, NoticePending, StatusGiven, Serving,
     registry, loaders, ending, unloading, watching
<1>2. ASSUME NEW w \in Watches, Subscribe(w) \/ RunWatch(w) \/ ClientReads(w) \/ ClientLeaves(w) PROVE WInv'
  BY <1>2, WatchFollows
<1> QED  BY <1>1, <1>2, OthersFollow

LEMMA RegistryFollowed == Spec => [](IInv /\ LInv /\ Rest /\ WInv)
<1>1. Init => IInv /\ LInv /\ Rest /\ WInv
  BY InitInvariant, InitLists, InitRests, InitFollows
<1>2. IInv /\ LInv /\ Rest /\ WInv /\ [Next]_vars => (IInv /\ LInv /\ Rest /\ WInv)'
  BY StepKeeps, StepLists, StepRests, StepFollows
<1> QED  BY <1>1, <1>2, PTL DEF Spec

(* However a watch's reads fall between the steps of those who register,     *)
(* load, unload, drain and stop, its client is not left with an old status   *)
(* once there is nothing on the way to it: this much of WatchConverges is    *)
(* without fairness.                                                         *)
THEOREM WatchMissesNothing == Spec => []ShowsTheStatus
<1>1. WInv => ShowsTheStatus
  BY DEF WInv, Follows, Delivered, Latest, ShowsTheStatus
<1> QED  BY <1>1, RegistryFollowed, PTL

(* No watch waits on through a stop: the safety half of StopClosesWatches,   *)
(* for a watch subscribed before, while or after the server stops.           *)
THEOREM StopReachesAll == Spec => []StopReachesWatches
<1>1. WInv => StopReachesWatches
  BY DEF WInv, StopTold, StopReachesWatches
<1> QED  BY <1>1, RegistryFollowed, PTL
=============================================================================
