----------------------- MODULE VocabularyStoreProofs -----------------------
(* Proofs about VocabularyStore, for any number of artifacts, callers,        *)
(* failures and stops: the index and the directory agree, and every           *)
(* descriptor on disk has its bytes.                                          *)
EXTENDS VocabularyStore, TLAPS

Writing == {"create", "sync", "rename", "insert"}
Removing == {"remove", "forget"}

(* What a caller that is writing has on disk so far. *)
PutSoFar(p) ==
    LET id == call[p].id
        files == disk[id]
    IN  at[p] \in Writing =>
        /\ call[p].op = "put" /\ id \in Id /\ call[p].name \in Name
        /\ index[id] = None
        /\ at[p] = "rename" => temp = "whole"
        /\ \/ at[p] # "insert" /\ left[p] = Written(id) /\ files["meta"] = None
           \/ /\ at[p] # "insert" /\ left[p] = <<"image", "meta">>
              /\ id \in Images /\ files["data"] = "whole" /\ files["meta"] = None
           \/ /\ at[p] # "insert" /\ left[p] = <<"meta">>
              /\ files["data"] = "whole" /\ files["meta"] = None /\ (id \in Images => files["image"] = "whole")
           \/ /\ at[p] = "insert"
              /\ files["data"] = "whole" /\ files["meta"] = call[p].name /\ (id \in Images => files["image"] = "whole")

(* What a caller that is deleting has taken off the disk so far. *)
DeleteSoFar(p) ==
    LET id == call[p].id IN
    at[p] \in Removing =>
        /\ call[p].op = "delete" /\ id \in Id
        /\ index[id] # None
        /\ \/ at[p] = "remove" /\ left[p] = Removed /\ (id \in undone \/ index[id] = disk[id]["meta"])
           \/ at[p] = "remove" /\ left[p] \in {<<"data", "image">>, <<"image">>} /\ disk[id]["meta"] = None
           \/ at[p] = "forget" /\ disk[id]["meta"] = None

(* The mutex is held by whoever writes or deletes, and by nobody else. *)
LockOwner == \A p \in Proc : lock = p <=> at[p] \in Writing \cup Removing

(* A call that has begun asks for an artifact; a read that fetches its bytes *)
(* has seen a descriptor.                                                     *)
CallShape ==
    \A p \in Proc :
        /\ at[p] # "idle" => call[p].id \in Id /\ call[p].name \in Name /\ call[p].op \in Ops
        /\ at[p] # "idle" => call[p].answer = None
        /\ at[p] = "idle" => call[p] = NoCall \/ call[p].answer # None
        /\ at[p] \in {"asked"} \cup Writing \cup Removing => call[p].seen = None
        /\ at[p] = "fetch" => call[p].op = "read" /\ call[p].seen # None

Files == \A id \in Id : disk[id]["data"] \in {None, "whole"} /\ disk[id]["meta"] \in Name \cup {None}

Stopped == ~up => /\ lock = Free /\ undone = {}
                  /\ \A p \in Proc : at[p] = "idle"
                  /\ \A id \in Id : index[id] = None

HalfDeleted == \A id \in undone : index[id] # None /\ disk[id]["meta"] = None

IInv == /\ TypeOK /\ Files /\ Stopped /\ LockOwner /\ CallShape /\ HalfDeleted
        /\ \A p \in Proc : PutSoFar(p) /\ DeleteSoFar(p)
        /\ DescriptorHasBytes /\ IndexIsOnDisk
-----------------------------------------------------------------------------
(* PROOFS *)
(* The head, the tail and the length of the lists a put and a delete work on. *)
LEMMA ShortLists ==
    /\ \A x \in Ext : <<x>> \in Seq(Ext) /\ Len(<<x>>) = 1 /\ Head(<<x>>) = x /\ Tail(<<x>>) = <<>>
    /\ \A x, y \in Ext : /\ <<x, y>> \in Seq(Ext) /\ Len(<<x, y>>) = 2
                          /\ Head(<<x, y>>) = x /\ Tail(<<x, y>>) = <<y>>
    /\ <<>> \in Seq(Ext)
  BY DEF Ext

LEMMA LongLists ==
    ASSUME NEW x \in Ext, NEW y \in Ext, NEW z \in Ext
    PROVE  /\ <<x, y, z>> \in Seq(Ext) /\ Len(<<x, y, z>>) = 3
           /\ Head(<<x, y, z>>) = x /\ Tail(<<x, y, z>>) = <<y, z>>
<1>1. <<x, y, z>> \in Seq(Ext) /\ Len(<<x, y, z>>) = 3 /\ Head(<<x, y, z>>) = x
  OBVIOUS
<1>2. Tail(<<x, y, z>>) = <<y, z>>
  OBVIOUS
<1> QED  BY <1>1, <1>2

(* The lists of files a put and a delete work through, step by step. *)
LEMMA FileLists ==
    ASSUME NEW id \in Id
    PROVE  /\ Written(id) \in Seq(Ext) /\ Removed \in Seq(Ext)
           /\ Head(Written(id)) = "data" /\ Head(Removed) = "meta"
           /\ Len(Written(id)) # 1 /\ Len(Removed) # 1
           /\ Tail(Written(id)) = IF id \in Images THEN <<"image", "meta">> ELSE <<"meta">>
           /\ Tail(Removed) = <<"data", "image">>
<1> {"data", "image", "meta"} \subseteq Ext
  BY DEF Ext
<1>1. CASE id \in Images
  BY <1>1, ShortLists, LongLists DEF Written, Removed
<1>2. CASE id \notin Images
  BY <1>2, ShortLists, LongLists DEF Written, Removed
<1> QED  BY <1>1, <1>2

LEMMA InitInvariant == Init => IInv
  BY StoreAssumption DEF Init, IInv, TypeOK, Files, Stopped, LockOwner, CallShape, HalfDeleted, PutSoFar,
     DeleteSoFar, DescriptorHasBytes, IndexIsOnDisk, NoFiles, NoCall, Calls, Answers, Places, Writing, Removing, Ext, Changes

(* Every step keeps the invariant.  First the steps that leave the index, the *)
(* mutex and the files alone: a call that comes in, looks or is answered.     *)
LEMMA QuietKeeps ==
    ASSUME IInv, NEW p \in Proc, at[p] \notin Writing \cup Removing,
           NEW c \in Calls, call' = [call EXCEPT ![p] = c],
           NEW place \in {"idle", "asked", "fetch"}, at' = [at EXCEPT ![p] = place],
           place = "idle" => c.answer # None,
           place # "idle" => up /\ c.id \in Id /\ c.name \in Name /\ c.op \in Ops /\ c.answer = None,
           place = "asked" => c.seen = None,
           place = "fetch" => c.op = "read" /\ c.seen # None,
           faults' \in 0 .. MaxFaults,
           UNCHANGED <<up, index, lock, disk, temp, left, undone>>
    PROVE  IInv'
<1> USE StoreAssumption DEF IInv, Writing, Removing, Places
<1>1. TypeOK'
  BY DEF TypeOK
<1>2. Files' /\ Stopped' /\ HalfDeleted' /\ DescriptorHasBytes'
  BY DEF Files, Stopped, HalfDeleted, DescriptorHasBytes, TypeOK
<1>3. LockOwner' /\ CallShape'
  BY DEF LockOwner, CallShape, TypeOK
<1>4. \A q \in Proc : PutSoFar(q)' /\ DeleteSoFar(q)'
  BY DEF PutSoFar, DeleteSoFar, TypeOK
<1>5. IndexIsOnDisk'
  BY DEF IndexIsOnDisk, Changes, TypeOK
<1> QED  BY <1>1, <1>2, <1>3, <1>4, <1>5

(* A new answer makes a call of a call. *)
LEMMA AnswerTypes ==
    ASSUME TypeOK, NEW p \in Proc, NEW a \in Answers
    PROVE  [call[p] EXCEPT !.answer = a] \in Calls
  BY DEF TypeOK, Calls

LEMMA AskKeeps ==
    ASSUME IInv, NEW p \in Proc, NEW op \in Ops, NEW id \in Id, NEW name \in Name, Ask(p, op, id, name)
    PROVE  IInv'
<1> DEFINE c == [NoCall EXCEPT !.op = op, !.id = id, !.name = name]
<1>1. TypeOK
  BY DEF IInv
<1>2. c \in Calls
  BY <1>1, StoreAssumption DEF TypeOK, Calls, NoCall, Answers
<1>3. call' = [call EXCEPT ![p] = c] /\ at' = [at EXCEPT ![p] = "asked"]
  BY <1>1, StoreAssumption DEF Ask, Answer, Goto, TypeOK, Calls, IInv, Files, CallShape, Enters
<1>4. at[p] \notin Writing \cup Removing
  BY DEF Ask, Enters, Writing, Removing
<1>5. faults' \in 0 .. MaxFaults /\ UNCHANGED <<up, index, lock, disk, temp, left, undone>>
  BY <1>1, StoreAssumption DEF Ask, Fault, TypeOK
<1>6. up /\ c.id \in Id /\ c.name \in Name /\ c.op \in Ops /\ c.answer = None
  BY <1>1, StoreAssumption DEF Ask, Enters, IInv, CallShape, Stopped, TypeOK, Calls, NoCall, Ops
<1>7. c.seen = None
  BY <1>1, StoreAssumption DEF Ask, Enters, IInv, TypeOK, Calls, NoCall
<1> QED  BY <1>2, <1>3, <1>4, <1>5, <1>6, <1>7, QuietKeeps

LEMMA PutStoredKeeps ==
    ASSUME IInv, NEW p \in Proc, PutStored(p)
    PROVE  IInv'
<1> DEFINE a == index[call[p].id]
           c == [call[p] EXCEPT !.answer = a]
<1>1. TypeOK /\ a \in Answers /\ a # None
  BY StoreAssumption DEF IInv, TypeOK, CallShape, Files, Answers, Calls, PutStored, Enters
<1>2. c \in Calls
  BY <1>1, AnswerTypes
<1>3. call' = [call EXCEPT ![p] = c] /\ at' = [at EXCEPT ![p] = "idle"]
  BY <1>1, StoreAssumption DEF PutStored, Answer, Goto, TypeOK, Calls, IInv, Files, CallShape, Enters
<1>4. at[p] \notin Writing \cup Removing
  BY DEF PutStored, Enters, Writing, Removing
<1>5. faults' \in 0 .. MaxFaults /\ UNCHANGED <<up, index, lock, disk, temp, left, undone>>
  BY <1>1, StoreAssumption DEF PutStored, Fault, TypeOK
<1>6. c.answer # None
  BY <1>1 DEF TypeOK, Calls
<1> QED  BY <1>2, <1>3, <1>4, <1>5, <1>6, QuietKeeps

LEMMA DeleteMissingKeeps ==
    ASSUME IInv, NEW p \in Proc, DeleteMissing(p)
    PROVE  IInv'
<1> DEFINE a == "none"
           c == [call[p] EXCEPT !.answer = a]
<1>1. TypeOK /\ a \in Answers /\ a # None
  BY StoreAssumption DEF IInv, TypeOK, CallShape, Files, Answers, Calls, DeleteMissing, Enters
<1>2. c \in Calls
  BY <1>1, AnswerTypes
<1>3. call' = [call EXCEPT ![p] = c] /\ at' = [at EXCEPT ![p] = "idle"]
  BY <1>1, StoreAssumption DEF DeleteMissing, Answer, Goto, TypeOK, Calls, IInv, Files, CallShape, Enters
<1>4. at[p] \notin Writing \cup Removing
  BY DEF DeleteMissing, Enters, Writing, Removing
<1>5. faults' \in 0 .. MaxFaults /\ UNCHANGED <<up, index, lock, disk, temp, left, undone>>
  BY <1>1, StoreAssumption DEF DeleteMissing, Fault, TypeOK
<1>6. c.answer # None
  BY <1>1 DEF TypeOK, Calls
<1> QED  BY <1>2, <1>3, <1>4, <1>5, <1>6, QuietKeeps

LEMMA ReadMissingKeeps ==
    ASSUME IInv, NEW p \in Proc, ReadMissing(p)
    PROVE  IInv'
<1> DEFINE a == "none"
           c == [call[p] EXCEPT !.answer = a]
<1>1. TypeOK /\ a \in Answers /\ a # None
  BY StoreAssumption DEF IInv, TypeOK, CallShape, Files, Answers, Calls, ReadMissing, Enters
<1>2. c \in Calls
  BY <1>1, AnswerTypes
<1>3. call' = [call EXCEPT ![p] = c] /\ at' = [at EXCEPT ![p] = "idle"]
  BY <1>1, StoreAssumption DEF ReadMissing, Answer, Goto, TypeOK, Calls, IInv, Files, CallShape, Enters
<1>4. at[p] \notin Writing \cup Removing
  BY DEF ReadMissing, Enters, Writing, Removing
<1>5. faults' \in 0 .. MaxFaults /\ UNCHANGED <<up, index, lock, disk, temp, left, undone>>
  BY <1>1, StoreAssumption DEF ReadMissing, Fault, TypeOK
<1>6. c.answer # None
  BY <1>1 DEF TypeOK, Calls
<1> QED  BY <1>2, <1>3, <1>4, <1>5, <1>6, QuietKeeps

LEMMA LookKeeps ==
    ASSUME IInv, NEW p \in Proc, Look(p)
    PROVE  IInv'
<1> DEFINE c == [call[p] EXCEPT !.seen = index[call[p].id]]
<1>1. TypeOK
  BY DEF IInv
<1>2. c \in Calls
  <2>1. index[call[p].id] \in Name \cup {None} /\ call[p] \in Calls
    BY DEF IInv, TypeOK, CallShape, Look, Enters
  <2> QED  BY <2>1 DEF Calls
<1>3. call' = [call EXCEPT ![p] = c] /\ at' = [at EXCEPT ![p] = "fetch"]
  BY <1>1, StoreAssumption DEF Look, Answer, Goto, TypeOK, Calls, IInv, Files, CallShape, Enters
<1>4. at[p] \notin Writing \cup Removing
  BY DEF Look, Enters, Writing, Removing
<1>5. faults' \in 0 .. MaxFaults /\ UNCHANGED <<up, index, lock, disk, temp, left, undone>>
  BY <1>1, StoreAssumption DEF Look, Fault, TypeOK
<1>6. up /\ c.id \in Id /\ c.name \in Name /\ c.op \in Ops /\ c.answer = None
  BY <1>1, StoreAssumption DEF Look, Enters, IInv, CallShape, Stopped, TypeOK, Calls, NoCall, Ops
<1>7. c.op = "read" /\ c.seen # None
  BY <1>1, StoreAssumption DEF Look, Enters, IInv, TypeOK, Calls, NoCall
<1> QED  BY <1>2, <1>3, <1>4, <1>5, <1>6, <1>7, QuietKeeps

LEMMA FetchKeeps ==
    ASSUME IInv, NEW p \in Proc, Fetch(p)
    PROVE  IInv'
<1> DEFINE a == IF disk[call[p].id]["data"] = None THEN "none" ELSE call[p].seen
           c == [call[p] EXCEPT !.answer = a]
<1>1. TypeOK /\ a \in Answers /\ a # None
  BY StoreAssumption DEF IInv, TypeOK, CallShape, Files, Answers, Calls, Fetch, Enters
<1>2. c \in Calls
  BY <1>1, AnswerTypes
<1>3. call' = [call EXCEPT ![p] = c] /\ at' = [at EXCEPT ![p] = "idle"]
  BY <1>1, StoreAssumption DEF Fetch, Answer, Goto, TypeOK, Calls, IInv, Files, CallShape, Enters
<1>4. at[p] \notin Writing \cup Removing
  BY DEF Fetch, Enters, Writing, Removing
<1>5. faults' \in 0 .. MaxFaults /\ UNCHANGED <<up, index, lock, disk, temp, left, undone>>
  BY <1>1, StoreAssumption DEF Fetch, Fault, TypeOK
<1>6. c.answer # None
  BY <1>1 DEF TypeOK, Calls
<1> QED  BY <1>2, <1>3, <1>4, <1>5, <1>6, QuietKeeps

LEMMA FetchFailsKeeps ==
    ASSUME IInv, NEW p \in Proc, FetchFails(p)
    PROVE  IInv'
<1> DEFINE a == "error"
           c == [call[p] EXCEPT !.answer = a]
<1>1. TypeOK /\ a \in Answers /\ a # None
  BY StoreAssumption DEF IInv, TypeOK, CallShape, Files, Answers, Calls, FetchFails, Enters
<1>2. c \in Calls
  BY <1>1, AnswerTypes
<1>3. call' = [call EXCEPT ![p] = c] /\ at' = [at EXCEPT ![p] = "idle"]
  BY <1>1, StoreAssumption DEF FetchFails, Answer, Goto, TypeOK, Calls, IInv, Files, CallShape, Enters
<1>4. at[p] \notin Writing \cup Removing
  BY DEF FetchFails, Enters, Writing, Removing
<1>5. faults' \in 0 .. MaxFaults /\ UNCHANGED <<up, index, lock, disk, temp, left, undone>>
  BY <1>1, StoreAssumption DEF FetchFails, Fault, TypeOK
<1>6. c.answer # None
  BY <1>1 DEF TypeOK, Calls
<1> QED  BY <1>2, <1>3, <1>4, <1>5, <1>6, QuietKeeps

LEMMA PutBeginsKeeps ==
    ASSUME IInv, NEW p \in Proc, PutBegins(p)
    PROVE  IInv'
<1> USE StoreAssumption, ShortLists, FileLists
<1> USE DEF IInv, PutBegins, Enters, Goto, Answer, Fault, Ops, Writing, Removing, Ext, Places
<1>a. disk[call[p].id]["meta"] = None
  BY DEF CallShape, IndexIsOnDisk, HalfDeleted, Changes, LockOwner, Stopped, TypeOK
<1>0. call[p].id \in Id /\ call[p].name \in Name /\ call[p].op = "put" /\ Written(call[p].id) \in Seq(Ext)
  BY DEF CallShape
<1>1. call' \in [Proc -> Calls]
  BY DEF TypeOK
<1>2. TypeOK'
  BY <1>0, <1>1 DEF TypeOK
<1>3. Files' /\ Stopped'
  BY <1>0, <1>a DEF Files, Stopped, TypeOK
<1>4. LockOwner' /\ CallShape'
  BY <1>0, <1>a DEF LockOwner, TypeOK, Stopped, CallShape, Calls
<1>5. HalfDeleted'
  BY <1>0, <1>a DEF HalfDeleted, TypeOK, PutSoFar, DeleteSoFar, Calls
<1>6. ASSUME NEW q \in Proc PROVE PutSoFar(q)'
  <2>1. CASE q = p
    BY <1>0, <1>a, <2>1 DEF PutSoFar, TypeOK, LockOwner, HalfDeleted, IndexIsOnDisk, Changes
  <2>2. CASE q # p
    BY <1>0, <1>a, <2>2 DEF PutSoFar, TypeOK, LockOwner
  <2> QED  BY <2>1, <2>2
<1>7. \A q \in Proc : DeleteSoFar(q)'
  BY <1>0, <1>a DEF DeleteSoFar, TypeOK, LockOwner, Calls
<1>8. DescriptorHasBytes'
  BY <1>0, <1>a DEF DescriptorHasBytes, TypeOK, PutSoFar, DeleteSoFar
<1>9. IndexIsOnDisk'
  BY <1>0, <1>a DEF IndexIsOnDisk, Changes, TypeOK, PutSoFar, DeleteSoFar, HalfDeleted, LockOwner
<1> QED  BY <1>2, <1>3, <1>4, <1>5, <1>6, <1>7, <1>8, <1>9

LEMMA CreateKeeps ==
    ASSUME IInv, NEW p \in Proc, Create(p)
    PROVE  IInv'
<1> USE StoreAssumption
<1> USE DEF IInv, Create, Enters, Goto, Answer, Fault, Ops, Writing, Removing, Ext, Places
<1>1. call' \in [Proc -> Calls]
  BY DEF TypeOK
<1>2. TypeOK'
  BY <1>1 DEF TypeOK
<1>3. Files' /\ Stopped'
  BY DEF Files, Stopped, TypeOK
<1>4. LockOwner' /\ CallShape'
  BY DEF LockOwner, TypeOK, Stopped, CallShape, Calls
<1>5. HalfDeleted'
  BY DEF HalfDeleted, TypeOK, PutSoFar, DeleteSoFar, Calls
<1>6. \A q \in Proc : PutSoFar(q)'
  BY DEF PutSoFar, TypeOK, LockOwner, HalfDeleted, Calls, IndexIsOnDisk, Changes
<1>7. \A q \in Proc : DeleteSoFar(q)'
  BY DEF DeleteSoFar, TypeOK, LockOwner, Calls
<1>8. DescriptorHasBytes'
  BY DEF DescriptorHasBytes, TypeOK, PutSoFar, DeleteSoFar
<1>9. IndexIsOnDisk'
  BY DEF IndexIsOnDisk, Changes, TypeOK, PutSoFar, DeleteSoFar, HalfDeleted, LockOwner
<1> QED  BY <1>2, <1>3, <1>4, <1>5, <1>6, <1>7, <1>8, <1>9

LEMMA SyncKeeps ==
    ASSUME IInv, NEW p \in Proc, Sync(p)
    PROVE  IInv'
<1> USE StoreAssumption
<1> USE DEF IInv, Sync, Enters, Goto, Answer, Fault, Ops, Writing, Removing, Ext, Places
<1>1. call' \in [Proc -> Calls]
  BY DEF TypeOK
<1>2. TypeOK'
  BY <1>1 DEF TypeOK
<1>3. Files' /\ Stopped'
  BY DEF Files, Stopped, TypeOK
<1>4. LockOwner' /\ CallShape'
  BY DEF LockOwner, TypeOK, Stopped, CallShape, Calls
<1>5. HalfDeleted'
  BY DEF HalfDeleted, TypeOK, PutSoFar, DeleteSoFar, Calls
<1>6. \A q \in Proc : PutSoFar(q)'
  BY DEF PutSoFar, TypeOK, LockOwner, HalfDeleted, Calls, IndexIsOnDisk, Changes
<1>7. \A q \in Proc : DeleteSoFar(q)'
  BY DEF DeleteSoFar, TypeOK, LockOwner, Calls
<1>8. DescriptorHasBytes'
  BY DEF DescriptorHasBytes, TypeOK, PutSoFar, DeleteSoFar
<1>9. IndexIsOnDisk'
  BY DEF IndexIsOnDisk, Changes, TypeOK, PutSoFar, DeleteSoFar, HalfDeleted, LockOwner
<1> QED  BY <1>2, <1>3, <1>4, <1>5, <1>6, <1>7, <1>8, <1>9

LEMMA RenameKeeps ==
    ASSUME IInv, NEW p \in Proc, Rename(p)
    PROVE  IInv'
<1> USE StoreAssumption, ShortLists, FileLists
<1> USE DEF IInv, Rename, Enters, Goto, Answer, Fault, Ops, Writing, Removing, Ext, Places
<1> DEFINE id == call[p].id  x == Head(left[p])
<1>0. /\ call[p].op = "put" /\ id \in Id /\ call[p].name \in Name /\ temp = "whole" /\ index[id] = None
      /\ disk[id]["meta"] = None /\ Tail(left[p]) \in Seq(Ext)
      /\ \/ x = "data" /\ Len(left[p]) # 1 /\ Tail(left[p]) = IF id \in Images THEN <<"image", "meta">> ELSE <<"meta">>
         \/ x = "image" /\ Len(left[p]) # 1 /\ Tail(left[p]) = <<"meta">> /\ disk[id]["data"] = "whole"
         \/ x = "meta" /\ Len(left[p]) = 1 /\ disk[id]["data"] = "whole" /\ (id \in Images => disk[id]["image"] = "whole")
  <2>1. /\ call[p].op = "put" /\ id \in Id /\ call[p].name \in Name /\ temp = "whole" /\ index[id] = None
        /\ disk[id]["meta"] = None
        /\ \/ left[p] = Written(id)
           \/ left[p] = <<"image", "meta">> /\ disk[id]["data"] = "whole"
           \/ left[p] = <<"meta">> /\ disk[id]["data"] = "whole" /\ (id \in Images => disk[id]["image"] = "whole")
    BY DEF PutSoFar
  <2>2. CASE left[p] = Written(id)
    BY <2>1, <2>2
  <2>3. CASE left[p] = <<"image", "meta">> /\ disk[id]["data"] = "whole"
    BY <2>1, <2>3
  <2>4. CASE left[p] = <<"meta">> /\ disk[id]["data"] = "whole" /\ (id \in Images => disk[id]["image"] = "whole")
    BY <2>1, <2>4
  <2> QED  BY <2>1, <2>2, <2>3, <2>4
<1>a. disk' = [disk EXCEPT ![id] = [disk[id] EXCEPT ![x] = Body(p, x)]] /\ x \in Ext
  BY <1>0
<1>b. Body(p, x) = IF x = "meta" THEN call[p].name ELSE "whole"
  BY DEF Body
<1>c. disk' \in [Id -> [Ext -> Name \cup {None, "whole"}]]
  BY <1>0, <1>a, <1>b DEF TypeOK
<1>1. call' \in [Proc -> Calls]
  BY DEF TypeOK
<1>2. TypeOK'
  BY <1>0, <1>c, <1>1 DEF TypeOK
<1>3. Files' /\ Stopped'
  BY <1>0, <1>a, <1>b DEF Files, Stopped, TypeOK, Body
<1>4. LockOwner' /\ CallShape'
  BY <1>0, <1>a, <1>b DEF LockOwner, TypeOK, Stopped, CallShape, Calls
<1>5. HalfDeleted'
  BY <1>0, <1>a, <1>b DEF HalfDeleted, TypeOK, PutSoFar, DeleteSoFar, Calls
<1>6. ASSUME NEW q \in Proc PROVE PutSoFar(q)'
  <2>1. CASE q = p
    BY <1>0, <1>a, <1>b, <2>1 DEF PutSoFar, TypeOK, LockOwner, HalfDeleted, IndexIsOnDisk, Changes
  <2>2. CASE q # p
    BY <1>0, <1>a, <1>b, <2>2, SMTT(30) DEF PutSoFar, TypeOK, LockOwner
  <2> QED  BY <2>1, <2>2
<1>7. \A q \in Proc : DeleteSoFar(q)'
  BY <1>0, <1>a, <1>b DEF DeleteSoFar, TypeOK, LockOwner, Calls
<1>8. DescriptorHasBytes'
  BY <1>0, <1>a, <1>b DEF DescriptorHasBytes, TypeOK, PutSoFar, DeleteSoFar, Body
<1>9. IndexIsOnDisk'
  BY <1>0, <1>a, <1>b DEF IndexIsOnDisk, Changes, TypeOK, PutSoFar, DeleteSoFar, HalfDeleted, LockOwner
<1> QED  BY <1>2, <1>3, <1>4, <1>5, <1>6, <1>7, <1>8, <1>9

LEMMA WriteFailsKeeps ==
    ASSUME IInv, NEW p \in Proc, WriteFails(p)
    PROVE  IInv'
<1> USE StoreAssumption
<1> USE DEF IInv, WriteFails, Enters, Goto, Answer, Fault, Ops, Writing, Removing, Ext, Places
<1>1. call' \in [Proc -> Calls]
  <2>1. "error" \in Answers
    BY DEF Answers, CallShape
  <2>2. call' = [call EXCEPT ![p] = [call[p] EXCEPT !.answer = "error"]]
    BY DEF TypeOK
  <2> QED  BY <2>1, <2>2, AnswerTypes DEF TypeOK
<1>2. TypeOK'
  BY <1>1 DEF TypeOK
<1>3. Files' /\ Stopped'
  BY DEF Files, Stopped, TypeOK
<1>4. LockOwner' /\ CallShape'
  BY DEF LockOwner, TypeOK, Stopped, CallShape, Calls
<1>5. HalfDeleted'
  BY DEF HalfDeleted, TypeOK, PutSoFar, DeleteSoFar, Calls
<1>6. \A q \in Proc : PutSoFar(q)'
  BY DEF PutSoFar, TypeOK, LockOwner, HalfDeleted, Calls, IndexIsOnDisk, Changes
<1>7. \A q \in Proc : DeleteSoFar(q)'
  BY DEF DeleteSoFar, TypeOK, LockOwner, Calls
<1>8. DescriptorHasBytes'
  BY DEF DescriptorHasBytes, TypeOK, PutSoFar, DeleteSoFar
<1>9. IndexIsOnDisk'
  BY DEF IndexIsOnDisk, Changes, TypeOK, PutSoFar, DeleteSoFar, HalfDeleted, LockOwner
<1> QED  BY <1>2, <1>3, <1>4, <1>5, <1>6, <1>7, <1>8, <1>9

LEMMA InsertKeeps ==
    ASSUME IInv, NEW p \in Proc, Insert(p)
    PROVE  IInv'
<1> USE StoreAssumption
<1> USE DEF IInv, Insert, Enters, Goto, Answer, Fault, Ops, Writing, Removing, Ext, Places
<1>0. call[p].id \in Id /\ call[p].name \in Name
  BY DEF PutSoFar
<1>1. call' \in [Proc -> Calls]
  <2>1. call[p].name \in Answers
    BY DEF Answers, CallShape
  <2>2. call' = [call EXCEPT ![p] = [call[p] EXCEPT !.answer = call[p].name]]
    BY DEF TypeOK
  <2> QED  BY <2>1, <2>2, AnswerTypes DEF TypeOK
<1>2. TypeOK'
  BY <1>0, <1>1 DEF TypeOK
<1>3. Files' /\ Stopped'
  BY <1>0 DEF Files, Stopped, TypeOK
<1>4. LockOwner' /\ CallShape'
  BY <1>0 DEF LockOwner, TypeOK, Stopped, CallShape, Calls, PutSoFar
<1>5. HalfDeleted'
  BY <1>0 DEF HalfDeleted, TypeOK, PutSoFar, DeleteSoFar, Calls
<1>6. \A q \in Proc : PutSoFar(q)'
  BY <1>0 DEF PutSoFar, TypeOK, LockOwner, HalfDeleted, Calls, IndexIsOnDisk, Changes
<1>7. \A q \in Proc : DeleteSoFar(q)'
  BY <1>0 DEF DeleteSoFar, TypeOK, LockOwner, Calls
<1>8. DescriptorHasBytes'
  BY <1>0 DEF DescriptorHasBytes, TypeOK, PutSoFar, DeleteSoFar
<1>9. IndexIsOnDisk'
  BY <1>0 DEF IndexIsOnDisk, Changes, TypeOK, PutSoFar, DeleteSoFar, HalfDeleted, LockOwner
<1> QED  BY <1>2, <1>3, <1>4, <1>5, <1>6, <1>7, <1>8, <1>9

LEMMA DeleteBeginsKeeps ==
    ASSUME IInv, NEW p \in Proc, DeleteBegins(p)
    PROVE  IInv'
<1> USE StoreAssumption, ShortLists, FileLists
<1> USE DEF IInv, DeleteBegins, Enters, Goto, Answer, Fault, Ops, Writing, Removing, Ext, Places
<1>a. call[p].id \in undone \/ index[call[p].id] = disk[call[p].id]["meta"]
  BY DEF CallShape, IndexIsOnDisk, Changes, LockOwner, Stopped, TypeOK
<1>0. call[p].id \in Id /\ call[p].op = "delete" /\ Removed \in Seq(Ext)
  BY DEF CallShape
<1>1. call' \in [Proc -> Calls]
  BY DEF TypeOK
<1>2. TypeOK'
  BY <1>0, <1>1 DEF TypeOK
<1>3. Files' /\ Stopped'
  BY <1>0, <1>a DEF Files, Stopped, TypeOK
<1>4. LockOwner' /\ CallShape'
  BY <1>0, <1>a DEF LockOwner, TypeOK, Stopped, CallShape, Calls
<1>5. HalfDeleted'
  BY <1>0, <1>a DEF HalfDeleted, TypeOK, PutSoFar, DeleteSoFar, Calls
<1>6. \A q \in Proc : PutSoFar(q)'
  BY <1>0, <1>a DEF PutSoFar, TypeOK, LockOwner, HalfDeleted, Calls, IndexIsOnDisk, Changes
<1>7. ASSUME NEW q \in Proc PROVE DeleteSoFar(q)'
  <2>1. CASE q = p
    BY <1>0, <1>a, <2>1 DEF DeleteSoFar, TypeOK, LockOwner
  <2>2. CASE q # p
    BY <1>0, <1>a, <2>2 DEF DeleteSoFar, TypeOK, LockOwner
  <2> QED  BY <2>1, <2>2
<1>8. DescriptorHasBytes'
  BY <1>0, <1>a DEF DescriptorHasBytes, TypeOK, PutSoFar, DeleteSoFar
<1>9. IndexIsOnDisk'
  BY <1>0, <1>a DEF IndexIsOnDisk, Changes, TypeOK, PutSoFar, DeleteSoFar, HalfDeleted, LockOwner
<1> QED  BY <1>2, <1>3, <1>4, <1>5, <1>6, <1>7, <1>8, <1>9

LEMMA RemoveKeeps ==
    ASSUME IInv, NEW p \in Proc, Remove(p)
    PROVE  IInv'
<1> USE StoreAssumption, ShortLists, FileLists
<1> USE DEF IInv, Remove, Enters, Goto, Answer, Fault, Ops, Writing, Removing, Ext, Places
<1> DEFINE id == call[p].id  x == Head(left[p])
<1>0. /\ call[p].op = "delete" /\ id \in Id /\ index[id] # None /\ Tail(left[p]) \in Seq(Ext)
      /\ \/ x = "meta" /\ Len(left[p]) # 1 /\ Tail(left[p]) = <<"data", "image">>
         \/ x = "data" /\ Len(left[p]) # 1 /\ Tail(left[p]) = <<"image">> /\ disk[id]["meta"] = None
         \/ x = "image" /\ Len(left[p]) = 1 /\ disk[id]["meta"] = None
  <2>1. /\ call[p].op = "delete" /\ id \in Id /\ index[id] # None
        /\ \/ left[p] = Removed
           \/ left[p] \in {<<"data", "image">>, <<"image">>} /\ disk[id]["meta"] = None
    BY DEF DeleteSoFar
  <2>2. CASE left[p] = Removed
    BY <2>1, <2>2
  <2>3. CASE left[p] = <<"data", "image">> /\ disk[id]["meta"] = None
    BY <2>1, <2>3
  <2>4. CASE left[p] = <<"image">> /\ disk[id]["meta"] = None
    BY <2>1, <2>4
  <2> QED  BY <2>1, <2>2, <2>3, <2>4
<1>a. disk' = [disk EXCEPT ![id] = [disk[id] EXCEPT ![x] = None]] /\ x \in Ext
  BY <1>0
<1>c. disk' \in [Id -> [Ext -> Name \cup {None, "whole"}]]
  BY <1>0, <1>a DEF TypeOK
<1>1. call' \in [Proc -> Calls]
  BY DEF TypeOK
<1>2. TypeOK'
  BY <1>0, <1>c, <1>1 DEF TypeOK
<1>3. Files' /\ Stopped'
  BY <1>0, <1>a DEF Files, Stopped, TypeOK
<1>4. LockOwner' /\ CallShape'
  BY <1>0, <1>a DEF LockOwner, TypeOK, Stopped, CallShape, Calls
<1>5. HalfDeleted'
  BY <1>0, <1>a DEF HalfDeleted, TypeOK, PutSoFar, DeleteSoFar, Calls
<1>6. \A q \in Proc : PutSoFar(q)'
  BY <1>0, <1>a, SMTT(30) DEF PutSoFar, TypeOK, LockOwner, HalfDeleted, Calls, IndexIsOnDisk, Changes
<1>7. ASSUME NEW q \in Proc PROVE DeleteSoFar(q)'
  <2>1. CASE q = p
    BY <1>0, <1>a, <2>1 DEF DeleteSoFar, TypeOK, LockOwner
  <2>2. CASE q # p
    BY <1>0, <1>a, <2>2 DEF DeleteSoFar, TypeOK, LockOwner
  <2> QED  BY <2>1, <2>2
<1>8. DescriptorHasBytes'
  BY <1>0, <1>a DEF DescriptorHasBytes, TypeOK, PutSoFar, DeleteSoFar
<1>9. IndexIsOnDisk'
  BY <1>0, <1>a DEF IndexIsOnDisk, Changes, TypeOK, PutSoFar, DeleteSoFar, HalfDeleted, LockOwner
<1> QED  BY <1>2, <1>3, <1>4, <1>5, <1>6, <1>7, <1>8, <1>9

LEMMA RemoveFailsKeeps ==
    ASSUME IInv, NEW p \in Proc, RemoveFails(p)
    PROVE  IInv'
<1> USE StoreAssumption
<1> USE DEF IInv, RemoveFails, Enters, Goto, Answer, Fault, Ops, Writing, Removing, Ext, Places
<1>0. /\ call[p].id \in Id /\ index[call[p].id] # None
      /\ \/ Head(left[p]) = "meta" /\ (call[p].id \in undone \/ index[call[p].id] = disk[call[p].id]["meta"])
         \/ Head(left[p]) # "meta" /\ disk[call[p].id]["meta"] = None
  <2>1. /\ call[p].id \in Id /\ index[call[p].id] # None
        /\ \/ left[p] = Removed /\ (call[p].id \in undone \/ index[call[p].id] = disk[call[p].id]["meta"])
           \/ left[p] \in {<<"data", "image">>, <<"image">>} /\ disk[call[p].id]["meta"] = None
    BY DEF DeleteSoFar
  <2> QED  BY <2>1, ShortLists, FileLists
<1>1. call' \in [Proc -> Calls]
  <2>1. "error" \in Answers
    BY DEF Answers, CallShape
  <2>2. call' = [call EXCEPT ![p] = [call[p] EXCEPT !.answer = "error"]]
    BY DEF TypeOK
  <2> QED  BY <2>1, <2>2, AnswerTypes DEF TypeOK
<1>2. TypeOK'
  BY <1>0, <1>1 DEF TypeOK
<1>3. Files' /\ Stopped'
  BY <1>0 DEF Files, Stopped, TypeOK
<1>4. LockOwner' /\ CallShape'
  BY <1>0 DEF LockOwner, TypeOK, Stopped, CallShape, Calls
<1>5. HalfDeleted'
  BY <1>0 DEF HalfDeleted, TypeOK, PutSoFar, DeleteSoFar, Calls
<1>6. \A q \in Proc : PutSoFar(q)'
  BY <1>0 DEF PutSoFar, TypeOK, LockOwner, HalfDeleted, Calls, IndexIsOnDisk, Changes
<1>7. \A q \in Proc : DeleteSoFar(q)'
  BY <1>0 DEF DeleteSoFar, TypeOK, LockOwner, Calls
<1>8. DescriptorHasBytes'
  BY <1>0 DEF DescriptorHasBytes, TypeOK, PutSoFar, DeleteSoFar
<1>9. IndexIsOnDisk'
  BY <1>0 DEF IndexIsOnDisk, Changes, TypeOK, PutSoFar, DeleteSoFar, HalfDeleted, LockOwner
<1> QED  BY <1>2, <1>3, <1>4, <1>5, <1>6, <1>7, <1>8, <1>9

LEMMA ForgetKeeps ==
    ASSUME IInv, NEW p \in Proc, Forget(p)
    PROVE  IInv'
<1> USE StoreAssumption
<1> USE DEF IInv, Forget, Enters, Goto, Answer, Fault, Ops, Writing, Removing, Ext, Places
<1>1. call' \in [Proc -> Calls]
  <2>1. "deleted" \in Answers
    BY DEF Answers, CallShape
  <2>2. call' = [call EXCEPT ![p] = [call[p] EXCEPT !.answer = "deleted"]]
    BY DEF TypeOK
  <2> QED  BY <2>1, <2>2, AnswerTypes DEF TypeOK
<1>2. TypeOK'
  BY <1>1 DEF TypeOK
<1>3. Files' /\ Stopped'
  BY DEF Files, Stopped, TypeOK
<1>4. LockOwner' /\ CallShape'
  BY DEF LockOwner, TypeOK, Stopped, CallShape, Calls
<1>5. HalfDeleted'
  BY DEF HalfDeleted, TypeOK, PutSoFar, DeleteSoFar, Calls
<1>6. \A q \in Proc : PutSoFar(q)'
  BY DEF PutSoFar, TypeOK, LockOwner, HalfDeleted, Calls, IndexIsOnDisk, Changes
<1>7. \A q \in Proc : DeleteSoFar(q)'
  BY DEF DeleteSoFar, TypeOK, LockOwner, Calls
<1>8. DescriptorHasBytes'
  BY DEF DescriptorHasBytes, TypeOK, PutSoFar, DeleteSoFar
<1>9. IndexIsOnDisk'
  BY DEF IndexIsOnDisk, Changes, TypeOK, PutSoFar, DeleteSoFar, HalfDeleted, LockOwner
<1> QED  BY <1>2, <1>3, <1>4, <1>5, <1>6, <1>7, <1>8, <1>9

LEMMA CrashKeeps ==
    ASSUME IInv, Crash
    PROVE  IInv'
<1> USE StoreAssumption, ShortLists DEF IInv, Crash, Fault, Writing, Removing
<1>1. \A p \in Proc : [call[p] EXCEPT !.answer = "error"] \in Calls
  BY AnswerTypes DEF Answers
<1>a. call' \in [Proc -> Calls]
  BY <1>1 DEF TypeOK
<1>b. at' \in [Proc -> Places] /\ left' \in [Proc -> Seq(Ext)]
  BY DEF Places
<1>c. /\ up' \in BOOLEAN /\ lock' \in Proc \cup {Free} /\ temp' \in {None, "cut", "whole"}
      /\ undone' \in SUBSET Id
  BY DEF TypeOK
<1>e. faults' \in 0 .. MaxFaults
  <2>1. faults \in 0 .. MaxFaults
    BY DEF TypeOK
  <2> QED  BY <2>1
<1>d. index' \in [Id -> Name \cup {None}] /\ disk' \in [Id -> [Ext -> Name \cup {None, "whole"}]]
  BY DEF TypeOK
<1>2. TypeOK'
  BY <1>a, <1>b, <1>c, <1>d, <1>e DEF TypeOK
<1>3. Files' /\ Stopped' /\ LockOwner' /\ CallShape' /\ HalfDeleted' /\ DescriptorHasBytes' /\ IndexIsOnDisk'
  BY DEF TypeOK, Files, Stopped, LockOwner, CallShape, HalfDeleted, DescriptorHasBytes, IndexIsOnDisk
<1>4. \A p \in Proc : PutSoFar(p)' /\ DeleteSoFar(p)'
  BY DEF TypeOK, PutSoFar, DeleteSoFar
<1> QED  BY <1>2, <1>3, <1>4

LEMMA OpenKeeps ==
    ASSUME IInv, Open
    PROVE  IInv'
<1> USE StoreAssumption DEF IInv, Open, Writing, Removing
<1>1. TypeOK' /\ Files' /\ Stopped' /\ LockOwner' /\ CallShape' /\ HalfDeleted' /\ DescriptorHasBytes' /\ IndexIsOnDisk'
  BY DEF TypeOK, Files, Stopped, LockOwner, CallShape, HalfDeleted, DescriptorHasBytes, IndexIsOnDisk
<1>2. \A p \in Proc : PutSoFar(p)' /\ DeleteSoFar(p)'
  BY DEF TypeOK, PutSoFar, DeleteSoFar, Stopped
<1> QED  BY <1>1, <1>2

LEMMA StepKeeps == IInv /\ [Next]_vars => IInv'
<1> SUFFICES ASSUME IInv, [Next]_vars PROVE IInv'
  OBVIOUS
<1>1. ASSUME NEW p \in Proc, NEW op \in Ops, NEW id \in Id, NEW name \in Name, Ask(p, op, id, name)
      PROVE IInv'
  BY <1>1, AskKeeps
<1>2. ASSUME NEW p \in Proc, PutStored(p) \/ PutBegins(p) \/ Create(p) \/ Sync(p) \/ Rename(p) \/ WriteFails(p) \/ Insert(p)
      PROVE IInv'
  BY <1>2, PutStoredKeeps, PutBeginsKeeps, CreateKeeps, SyncKeeps, RenameKeeps, WriteFailsKeeps, InsertKeeps
<1>3. ASSUME NEW p \in Proc, DeleteMissing(p) \/ DeleteBegins(p) \/ Remove(p) \/ RemoveFails(p) \/ Forget(p)
      PROVE IInv'
  BY <1>3, DeleteMissingKeeps, DeleteBeginsKeeps, RemoveKeeps, RemoveFailsKeeps, ForgetKeeps
<1>4. ASSUME NEW p \in Proc, ReadMissing(p) \/ Look(p) \/ Fetch(p) \/ FetchFails(p)
      PROVE IInv'
  BY <1>4, ReadMissingKeeps, LookKeeps, FetchKeeps, FetchFailsKeeps
<1>5. CASE UNCHANGED vars
  BY <1>5 DEF vars, IInv, TypeOK, Files, Stopped, LockOwner, CallShape, HalfDeleted, PutSoFar, DeleteSoFar,
     DescriptorHasBytes, IndexIsOnDisk, Changes
<1> QED  BY <1>1, <1>2, <1>3, <1>4, <1>5, CrashKeeps, OpenKeeps DEF Next

(* The inductive invariant holds in every reachable state. *)
THEOREM StoreInvariant == Spec => []IInv
<1> QED  BY InitInvariant, StepKeeps, PTL DEF Spec

(* Every variable keeps its type, so no file under its own name is cut short. *)
THEOREM StoreTypes == Spec => []TypeOK
<1>1. IInv => TypeOK
  BY DEF IInv
<1> QED  BY <1>1, StoreInvariant, PTL

(* A descriptor on disk always has its bytes and its image beside it, wherever *)
(* a put, a delete or the server stopped (store.rs:6-7).                       *)
THEOREM DescriptorsHaveBytes == Spec => []DescriptorHasBytes
<1>1. IInv => DescriptorHasBytes
  BY DEF IInv
<1> QED  BY <1>1, StoreInvariant, PTL

(* What the index answers for is what a restart will find (store.rs:138-173). *)
THEOREM IndexAlwaysOnDisk == Spec => []IndexIsOnDisk
<1>1. IInv => IndexIsOnDisk
  BY DEF IInv
<1> QED  BY <1>1, StoreInvariant, PTL

-----------------------------------------------------------------------------
(* The refinement: each step of the store is a step of the map, or none. *)
Held == IF up THEN index ELSE [id \in Id |-> disk[id]["meta"]]
Fading == IF up THEN {id \in Id : index[id] # None /\ disk[id]["meta"] = None} ELSE {}

LEMMA InitMaps == Init => Map!Init
  BY DEF Init, Map!Init, NoFiles, NoCall, Map!NoCall

(* While the server runs the map's contents are the index's. *)
LEMMA Running ==
    ASSUME IInv, NEW p \in Proc, at[p] # "idle"
    PROVE  /\ up /\ call[p] \in Calls /\ call[p].answer = None /\ call[p].op \in Ops
           /\ call[p].id \in Id /\ call[p].name \in Name
  BY DEF IInv, TypeOK, Stopped, CallShape

LEMMA AskMaps ==
    ASSUME IInv, NEW p \in Proc, NEW op \in Ops, NEW id \in Id, NEW name \in Name, Ask(p, op, id, name)
    PROVE  Map!Ask(p, op, id, name)
  BY DEF Ask, Map!Ask, IInv, CallShape, NoCall, Map!NoCall

LEMMA PutMaps ==
    ASSUME IInv, NEW p \in Proc, PutStored(p) \/ Insert(p)
    PROVE  Map!Put(p)
<1> USE StoreAssumption
<1>1. CASE PutStored(p)
  BY <1>1, Running DEF PutStored, Enters, Answer, Map!Put, Map!Pending, Map!Answer, IInv, TypeOK
<1>2. CASE Insert(p)
  <2>1. call[p].op = "put" /\ index[call[p].id] = None /\ disk[call[p].id]["meta"] # None
    BY <1>2, Running DEF Insert, IInv, PutSoFar, Writing
  <2>2. \A id \in Id : index'[id] # None /\ disk'[id]["meta"] = None <=> index[id] # None /\ disk[id]["meta"] = None
    BY <1>2, <2>1 DEF Insert, IInv, TypeOK
  <2>3. Fading' = Fading
    BY <1>2, <2>2, Running DEF Insert, Fading
  <2> QED  BY <1>2, <2>1, <2>3, Running DEF Insert, Answer, Map!Put, Map!Pending, Map!Answer, IInv, TypeOK, Fading
<1> QED  BY <1>1, <1>2

(* What a put does before it inserts its descriptor is no step of the map. *)
LEMMA WritingMaps ==
    ASSUME IInv, NEW p \in Proc, PutBegins(p) \/ Create(p) \/ Sync(p) \/ Rename(p) \/ DeleteBegins(p)
    PROVE  UNCHANGED <<Held, Fading, call>>
<1> USE StoreAssumption
<1>1. CASE PutBegins(p) \/ Create(p) \/ Sync(p) \/ DeleteBegins(p)
  <2>1. UNCHANGED <<up, index, disk, call>>
    BY <1>1 DEF PutBegins, Create, Sync, DeleteBegins
  <2> QED  BY <2>1 DEF Held, Fading
<1>2. CASE Rename(p)
  <2>1. up /\ index[call[p].id] = None /\ call[p].id \in Id
    BY <1>2, Running DEF Rename, IInv, PutSoFar, Writing
  <2>2. \A id \in Id \ {call[p].id} : disk'[id] = disk[id]
    BY <1>2 DEF Rename, IInv, TypeOK
  <2> QED  BY <1>2, <2>1, <2>2 DEF Rename, Held, Fading
<1> QED  BY <1>1, <1>2

LEMMA FailMaps ==
    ASSUME IInv, NEW p \in Proc, WriteFails(p) \/ RemoveFails(p) \/ FetchFails(p)
    PROVE  Map!Fail(p)
<1>1. at[p] # "idle"
  BY DEF WriteFails, RemoveFails, FetchFails
<1>2. call[p].op # None /\ call[p].answer = None
  BY <1>1, Running, StoreAssumption DEF Ops
<1>3. Answer(p, "error") /\ UNCHANGED <<up, index, disk>>
  BY DEF WriteFails, RemoveFails, FetchFails
<1> QED  BY <1>2, <1>3 DEF Answer, Map!Fail, Map!Answer

LEMMA RemoveMaps ==
    ASSUME IInv, NEW p \in Proc, Remove(p)
    PROVE  Map!Fade(p) \/ UNCHANGED <<Held, Fading, call>>
<1> USE StoreAssumption
<1> DEFINE id == call[p].id  x == Head(left[p])
<1>1. up /\ id \in Id /\ call[p].op = "delete" /\ call[p].answer = None /\ index[id] # None
  BY Running DEF Remove, IInv, DeleteSoFar, Removing
<1>2. /\ \A i \in Id \ {id} : disk'[i] = disk[i]
      /\ disk'[id]["meta"] = IF x = "meta" THEN None ELSE disk[id]["meta"]
  BY <1>1 DEF Remove, IInv, TypeOK, Ext
<1>3. CASE x = "meta"
  <2>1. Fading' = Fading \cup {id}
    BY <1>1, <1>2, <1>3 DEF Remove, Fading
  <2> QED  BY <1>1, <2>1 DEF Remove, Fading, Map!Fade, Map!Pending
<1>4. CASE x # "meta"
  <2>1. Fading' = Fading
    BY <1>1, <1>2, <1>4 DEF Remove, Fading
  <2> QED  BY <1>1, <2>1 DEF Remove, Held
<1> QED  BY <1>3, <1>4

LEMMA DeleteMaps ==
    ASSUME IInv, NEW p \in Proc, DeleteMissing(p) \/ Forget(p)
    PROVE  Map!Delete(p)
<1> USE StoreAssumption
<1>1. CASE DeleteMissing(p)
  BY <1>1, Running DEF DeleteMissing, Enters, Answer, Map!Delete, Map!Pending, Map!Answer, IInv, TypeOK
<1>2. CASE Forget(p)
  <2>1. up /\ call[p].id \in Id /\ call[p].op = "delete" /\ index[call[p].id] # None
    BY <1>2, Running DEF Forget, IInv, DeleteSoFar, Removing
  <2>2. Fading' = Fading \ {call[p].id}
    BY <1>2, <2>1 DEF Forget, Fading, IInv, TypeOK
  <2> QED  BY <1>2, <2>1, <2>2, Running DEF Forget, Answer, Map!Delete, Map!Pending, Map!Answer, IInv, TypeOK, Fading
<1> QED  BY <1>1, <1>2

(* A read that finds no bytes reads an artifact that is gone or fading: a *)
(* descriptor on disk has its bytes.                                      *)
LEMMA ReadMaps ==
    ASSUME IInv, NEW p \in Proc, ReadMissing(p) \/ Look(p) \/ Fetch(p)
    PROVE  Map!NotFound(p) \/ Map!See(p) \/ Map!Found(p)
<1> USE StoreAssumption
<1>1. CASE ReadMissing(p)
  BY <1>1, Running DEF ReadMissing, Enters, Answer, Map!NotFound, Map!Pending, Map!Answer
<1>2. CASE Look(p)
  <2>1. call[p].seen = None /\ up
    BY <1>2, Running DEF Look, Enters, IInv, CallShape
  <2> QED  BY <1>2, <2>1, Running DEF Look, Enters, Answer, Map!See, Map!Pending
<1>3. CASE Fetch(p)
  <2>1. up /\ call[p].op = "read" /\ call[p].seen # None /\ call[p].id \in Id /\ call[p].answer = None
    BY <1>3, Running DEF Fetch, IInv, CallShape
  <2>2. CASE disk[call[p].id]["data"] = None
    <3>1. disk[call[p].id]["meta"] = None
      BY <2>1, <2>2 DEF IInv, DescriptorHasBytes
    <3> QED  BY <1>3, <2>1, <2>2, <3>1 DEF Fetch, Answer, Map!NotFound, Map!Pending, Map!Answer
  <2>3. CASE disk[call[p].id]["data"] = "whole"
    BY <1>3, <2>1, <2>3 DEF Fetch, Answer, Map!Found, Map!Pending, Map!Answer
  <2> QED  BY <2>1, <2>2, <2>3 DEF IInv, Files
<1> QED  BY <1>1, <1>2, <1>3

LEMMA CrashMaps ==
    ASSUME IInv, Crash
    PROVE  Map!Restart
<1> USE StoreAssumption
<1>1. up /\ ~up'
  BY DEF Crash
<1>2. [id \in Id |-> disk[id]["meta"]]' \in [Id -> Name \cup {None}]
  BY DEF Crash, IInv, Files
<1>3. ASSUME NEW id \in Id
      PROVE  \/ disk[id]["meta"] = IF id \in Fading THEN None ELSE index[id]
             \/ index[id] = None /\ \E p \in Proc : Map!Pending(p, "put") /\ call[p].id = id /\ disk[id]["meta"] = call[p].name
  <2>1. CASE id \in undone
    BY <1>1, <2>1 DEF IInv, HalfDeleted, Fading
  <2>2. CASE id \notin undone /\ \A p \in Proc : ~Changes(p, id)
    BY <1>1, <2>2 DEF IInv, IndexIsOnDisk, Fading
  <2>3. CASE id \notin undone /\ \E p \in Proc : Changes(p, id)
    <3>1. PICK p \in Proc : Changes(p, id)
      BY <2>3
    <3>2. CASE at[p] \in Writing
      <4>1. Map!Pending(p, "put") /\ call[p].id = id /\ index[id] = None
            /\ (disk[id]["meta"] = None \/ disk[id]["meta"] = call[p].name)
        BY <3>1, <3>2, Running DEF Changes, IInv, PutSoFar, Map!Pending, Writing
      <4> QED  BY <1>1, <4>1 DEF Fading
    <3>3. CASE at[p] \in Removing
      <4>1. (disk[id]["meta"] = None /\ index[id] # None) \/ disk[id]["meta"] = index[id]
        BY <2>3, <3>1, <3>3 DEF Changes, IInv, DeleteSoFar, Removing
      <4> QED  BY <1>1, <4>1 DEF Fading
    <3> QED  BY <3>1, <3>2, <3>3 DEF Changes, Writing, Removing
  <2> QED  BY <2>1, <2>2, <2>3
<1>4. call' = [p \in Proc |-> IF call[p].op # None /\ call[p].answer = None
                              THEN [call[p] EXCEPT !.answer = "error"] ELSE call[p]]
  <2>1. \A p \in Proc : at[p] # "idle" <=> call[p].op # None /\ call[p].answer = None
    BY Running DEF IInv, CallShape, NoCall, Ops
  <2> QED  BY <2>1 DEF Crash
<1>5. disk' = disk
  BY DEF Crash
<1> QED  BY <1>1, <1>2, <1>3, <1>4, <1>5 DEF Map!Restart, Fading

LEMMA OpenMaps ==
    ASSUME IInv, Open
    PROVE  UNCHANGED <<Held, Fading, call>>
  BY DEF Open, Held, Fading, IInv, Files

LEMMA StepMaps == IInv /\ [Next]_vars => [Map!Next]_(Map!vars)
<1> SUFFICES ASSUME IInv, [Next]_vars PROVE Map!Next \/ UNCHANGED <<Held, Fading, call>>
  BY DEF Map!vars, Held, Fading
<1>1. ASSUME NEW p \in Proc, NEW op \in Ops, NEW id \in Id, NEW name \in Name, Ask(p, op, id, name)
      PROVE Map!Next
  BY <1>1, AskMaps DEF Map!Next, Ops, Map!Ops
<1>2. ASSUME NEW p \in Proc, PutStored(p) \/ Insert(p) \/ DeleteMissing(p) \/ Forget(p)
      PROVE Map!Next
  BY <1>2, PutMaps, DeleteMaps DEF Map!Next
<1>3. ASSUME NEW p \in Proc, WriteFails(p) \/ RemoveFails(p) \/ FetchFails(p) \/ ReadMissing(p) \/ Look(p) \/ Fetch(p)
      PROVE Map!Next
  BY <1>3, FailMaps, ReadMaps DEF Map!Next
<1>4. ASSUME NEW p \in Proc, Remove(p)
      PROVE Map!Next \/ UNCHANGED <<Held, Fading, call>>
  BY <1>4, RemoveMaps DEF Map!Next
<1>5. ASSUME NEW p \in Proc, PutBegins(p) \/ Create(p) \/ Sync(p) \/ Rename(p) \/ DeleteBegins(p)
      PROVE UNCHANGED <<Held, Fading, call>>
  BY <1>5, WritingMaps
<1>6. CASE Crash
  BY <1>6, CrashMaps DEF Map!Next
<1>7. CASE UNCHANGED vars
  BY <1>7 DEF vars, Held, Fading
<1> QED  BY <1>1, <1>2, <1>3, <1>4, <1>5, <1>6, <1>7, OpenMaps DEF Next

(* The files and the index implement the map of artifacts, for any number of *)
(* artifacts, callers, failures and stops.                                   *)
THEOREM StoreImplementsMap == Spec => ImplementsArtifactMap
<1> QED  BY InitMaps, StepMaps, StoreInvariant, PTL DEF Spec, ImplementsArtifactMap, Map!Spec
=============================================================================
