-------------------------- MODULE VocabularyStore --------------------------
(* The vocabulary store of server/src/vocabulary/store.rs: artifacts as files *)
(* in a directory, an index of their descriptors in memory under one mutex,   *)
(* held through a whole put or delete while the files are written and removed *)
(* one by one, and readers that let go of it before they open a file.  The    *)
(* server may stop between any two steps and open the directory again.        *)
(*                                                                            *)
(* An id is the digest of what makes an artifact (vocabulary/mod.rs           *)
(* artifact_id), so an id has the same bytes whenever it is stored; only the  *)
(* descriptor may differ, in its name.  A dictionary's .data and a            *)
(* vocabulary's .tsv are both "data" here, and a vocabulary is an artifact    *)
(* without an image.                                                          *)
EXTENDS Naturals, Sequences

CONSTANTS
    Id,        \* the artifacts
    Images,    \* those with a compiled image beside their bytes
    Name,      \* what tells the descriptors of one artifact apart
    Proc,      \* the callers, each with one call at a time
    None,      \* no file, no descriptor, no answer
    Free,      \* the index's mutex is not held
    MaxFaults  \* how many file operations fail, and how often the server stops

ASSUME StoreAssumption ==
    /\ Images \subseteq Id
    /\ None \notin Name /\ None \notin {"put", "delete", "read", "error", "none", "deleted"}
    /\ None \notin {"cut", "whole"} /\ Name \cap {"cut", "whole", "error", "none", "deleted"} = {}
    /\ Free \notin Proc
    /\ MaxFaults \in Nat

VARIABLES
    up,     \* the server is running
    index,  \* [Id -> Name \cup {None}]: the descriptors in memory
    lock,   \* who holds the index's mutex
    disk,   \* [Id -> [Ext -> contents]]: the files under their own names
    temp,   \* the temporary file being written: None, "cut" or "whole"
    call,   \* [Proc -> its last call and the answer to it]
    at,     \* [Proc -> where its call is]
    left,   \* [Proc -> the files its put or delete has still to do]
    undone, \* history: the ids whose deletion failed past their descriptor
    faults  \* counts the failures and stops so far, up to MaxFaults
vars == <<up, index, lock, disk, temp, call, at, left, undone, faults>>

Ext == {"data", "image", "meta"}
Ops == {"put", "delete", "read"}
Places == {"idle", "asked", "create", "sync", "rename", "insert", "remove", "forget", "fetch"}
NoCall == [op |-> None, id |-> None, name |-> None, seen |-> None, answer |-> None]
NoFiles == [x \in Ext |-> None]

(* The files a put writes, the descriptor last, and a delete removes, the *)
(* descriptor first.                                                      *)
WrittenMetaFirst(id) == IF id \in Images THEN <<"meta", "data", "image">> ELSE <<"meta", "data">>
Written(id) == IF id \in Images THEN <<"data", "image", "meta">> ELSE <<"data", "meta">>
Removed == <<"meta", "data", "image">>

(* What a finished temporary file of p's put holds: whole bytes, or p's *)
(* descriptor.                                                          *)
Body(p, x) == IF x = "meta" THEN call[p].name ELSE "whole"

Goto(p, place) == at' = [at EXCEPT ![p] = place]
Answer(p, a) == call' = [call EXCEPT ![p].answer = a]
Fault == faults < MaxFaults /\ faults' = faults + 1

Init ==
    /\ up = TRUE
    /\ index = [id \in Id |-> None]
    /\ lock = Free
    /\ disk = [id \in Id |-> NoFiles]
    /\ temp = None
    /\ call = [p \in Proc |-> NoCall]
    /\ at = [p \in Proc |-> "idle"]
    /\ left = [p \in Proc |-> <<>>]
    /\ undone = {}
    /\ faults = 0

(***************************************************************************)
(* A call comes in, and takes the index's mutex.                           *)
(***************************************************************************)
Ask(p, op, id, name) ==
    /\ up /\ at[p] = "idle"
    /\ call' = [call EXCEPT ![p] = [NoCall EXCEPT !.op = op, !.id = id, !.name = name]]
    /\ Goto(p, "asked")
    /\ UNCHANGED <<up, index, lock, disk, temp, left, undone, faults>>

(* The mutex is there for p, whose call is op and has not had it yet. *)
Enters(p, op) == at[p] = "asked" /\ call[p].op = op /\ lock = Free

(* put_dictionary and put_vocabulary: what is stored is answered with. *)
PutStored(p) ==
    /\ Enters(p, "put")
    /\ index[call[p].id] # None
    /\ Answer(p, index[call[p].id])
    /\ Goto(p, "idle")
    /\ UNCHANGED <<up, index, lock, disk, temp, left, undone, faults>>

(* A mutant: the check and the writes under a lock released in between. *)
PutBeginsUnlocked(p) ==
    /\ Enters(p, "put")
    /\ index[call[p].id] = None
    /\ left' = [left EXCEPT ![p] = Written(call[p].id)]
    /\ Goto(p, "create")
    /\ UNCHANGED <<up, index, lock, disk, temp, call, undone, faults>>
PutBegins(p) ==
    /\ Enters(p, "put")
    /\ index[call[p].id] = None
    /\ lock' = p
    /\ left' = [left EXCEPT ![p] = Written(call[p].id)]
    /\ Goto(p, "create")
    /\ UNCHANGED <<up, index, disk, temp, call, undone, faults>>

(***************************************************************************)
(* Store::write: a temporary file is made, filled and synced, and renamed. *)
(***************************************************************************)
(* A mutant: the file is written under its own name. *)
CreateInPlace(p) ==
    /\ at[p] = "create"
    /\ temp' = "cut"
    /\ disk' = [disk EXCEPT ![call[p].id][Head(left[p])] = "cut"]
    /\ Goto(p, "sync")
    /\ UNCHANGED <<up, index, lock, call, left, undone, faults>>
Create(p) ==
    /\ at[p] = "create"
    /\ temp' = "cut"
    /\ Goto(p, "sync")
    /\ UNCHANGED <<up, index, lock, disk, call, left, undone, faults>>

Sync(p) ==
    /\ at[p] = "sync"
    /\ temp' = "whole"
    /\ Goto(p, "rename")
    /\ UNCHANGED <<up, index, lock, disk, call, left, undone, faults>>

Rename(p) ==
    LET x == Head(left[p]) IN
    /\ at[p] = "rename"
    /\ disk' = [disk EXCEPT ![call[p].id][x] = IF temp = "whole" THEN Body(p, x) ELSE "cut"]
    /\ temp' = None
    /\ left' = [left EXCEPT ![p] = Tail(left[p])]
    /\ Goto(p, IF Len(left[p]) = 1 THEN "insert" ELSE "create")
    /\ UNCHANGED <<up, index, lock, call, undone, faults>>

(* Creating, filling or renaming fails: put answers the error.  A file cut *)
(* short stays under its temporary name, which nothing reads or reuses     *)
(* (store.rs seq), until the directory is opened again.                    *)
WriteFails(p) ==
    /\ at[p] \in {"create", "sync", "rename"}
    /\ Fault
    /\ temp' = None
    /\ lock' = Free
    /\ left' = [left EXCEPT ![p] = <<>>]
    /\ Answer(p, "error")
    /\ Goto(p, "idle")
    /\ UNCHANGED <<up, index, disk, undone>>

Insert(p) ==
    /\ at[p] = "insert"
    /\ index' = [index EXCEPT ![call[p].id] = call[p].name]
    /\ lock' = Free
    /\ Answer(p, call[p].name)
    /\ Goto(p, "idle")
    /\ UNCHANGED <<up, disk, temp, left, undone, faults>>

(***************************************************************************)
(* Store::delete.                                                          *)
(***************************************************************************)
DeleteMissing(p) ==
    /\ Enters(p, "delete")
    /\ index[call[p].id] = None
    /\ Answer(p, "none")
    /\ Goto(p, "idle")
    /\ UNCHANGED <<up, index, lock, disk, temp, left, undone, faults>>

DeleteBegins(p) ==
    /\ Enters(p, "delete")
    /\ index[call[p].id] # None
    /\ lock' = p
    /\ left' = [left EXCEPT ![p] = Removed]
    /\ Goto(p, "remove")
    /\ UNCHANGED <<up, index, disk, temp, call, undone, faults>>

(* One file is removed; one that is not there does not matter. *)
Remove(p) ==
    /\ at[p] = "remove"
    /\ disk' = [disk EXCEPT ![call[p].id][Head(left[p])] = None]
    /\ left' = [left EXCEPT ![p] = Tail(left[p])]
    /\ Goto(p, IF Len(left[p]) = 1 THEN "forget" ELSE "remove")
    /\ UNCHANGED <<up, index, lock, temp, call, undone, faults>>

(* A file cannot be removed: delete returns where it is, the descriptor *)
(* perhaps gone from the disk but not from the index.                   *)
RemoveFails(p) ==
    /\ at[p] = "remove"
    /\ disk[call[p].id][Head(left[p])] # None
    /\ Fault
    /\ undone' = IF Head(left[p]) = "meta" THEN undone ELSE undone \cup {call[p].id}
    /\ lock' = Free
    /\ left' = [left EXCEPT ![p] = <<>>]
    /\ Answer(p, "error")
    /\ Goto(p, "idle")
    /\ UNCHANGED <<up, index, disk, temp>>

Forget(p) ==
    /\ at[p] = "forget"
    /\ index' = [index EXCEPT ![call[p].id] = None]
    /\ undone' = undone \ {call[p].id}
    /\ lock' = Free
    /\ Answer(p, "deleted")
    /\ Goto(p, "idle")
    /\ UNCHANGED <<up, disk, temp, left, faults>>

(***************************************************************************)
(* Store::read: the descriptor under the mutex, the file without it.       *)
(***************************************************************************)
ReadMissing(p) ==
    /\ Enters(p, "read")
    /\ index[call[p].id] = None
    /\ Answer(p, "none")
    /\ Goto(p, "idle")
    /\ UNCHANGED <<up, index, lock, disk, temp, left, undone, faults>>

Look(p) ==
    /\ Enters(p, "read")
    /\ index[call[p].id] # None
    /\ call' = [call EXCEPT ![p].seen = index[call[p].id]]
    /\ Goto(p, "fetch")
    /\ UNCHANGED <<up, index, lock, disk, temp, left, undone, faults>>

(* The bytes are checked against the descriptor's size and digest. *)
Fetch(p) ==
    LET bytes == disk[call[p].id]["data"] IN
    /\ at[p] = "fetch"
    /\ Answer(p, CASE bytes = None -> "none" [] bytes = "whole" -> call[p].seen [] OTHER -> "mismatch")
    /\ Goto(p, "idle")
    /\ UNCHANGED <<up, index, lock, disk, temp, left, undone, faults>>

FetchFails(p) ==
    /\ at[p] = "fetch"
    /\ Fault
    /\ Answer(p, "error")
    /\ Goto(p, "idle")
    /\ UNCHANGED <<up, index, lock, disk, temp, left, undone>>

(***************************************************************************)
(* The server stops between any two steps, and opens the store again.      *)
(***************************************************************************)
Crash ==
    /\ up
    /\ Fault
    /\ up' = FALSE
    /\ index' = [id \in Id |-> None]
    /\ lock' = Free
    /\ temp' = None
    /\ call' = [p \in Proc |-> IF at[p] # "idle" THEN [call[p] EXCEPT !.answer = "error"] ELSE call[p]]
    /\ at' = [p \in Proc |-> "idle"]
    /\ left' = [p \in Proc |-> <<>>]
    /\ undone' = {}
    /\ UNCHANGED disk

(* Store::open: temporary files are removed, and every descriptor is read. *)
Open ==
    /\ ~up
    /\ up' = TRUE
    /\ index' = [id \in Id |-> disk[id]["meta"]]
    /\ UNCHANGED <<lock, disk, temp, call, at, left, undone, faults>>

Next ==
    \/ \E p \in Proc :
          \/ \E op \in Ops, id \in Id, name \in Name : Ask(p, op, id, name)
          \/ PutStored(p) \/ PutBegins(p) \/ Create(p) \/ Sync(p) \/ Rename(p) \/ WriteFails(p) \/ Insert(p)
          \/ DeleteMissing(p) \/ DeleteBegins(p) \/ Remove(p) \/ RemoveFails(p) \/ Forget(p)
          \/ ReadMissing(p) \/ Look(p) \/ Fetch(p) \/ FetchFails(p)
    \/ Crash \/ Open

Spec == Init /\ [][Next]_vars
-----------------------------------------------------------------------------
Answers == Name \cup {None, "error", "none", "deleted"}
Calls == [op : Ops \cup {None}, id : Id \cup {None}, name : Name \cup {None},
          seen : Name \cup {None}, answer : Answers]

(* Every variable keeps its type; in particular no file is ever found cut   *)
(* short, and so no read answers that the bytes do not match (store.rs:290). *)
TypeOK ==
    /\ up \in BOOLEAN
    /\ index \in [Id -> Name \cup {None}]
    /\ lock \in Proc \cup {Free}
    /\ disk \in [Id -> [Ext -> Name \cup {None, "whole"}]]
    /\ temp \in {None, "cut", "whole"}
    /\ call \in [Proc -> Calls]
    /\ at \in [Proc -> Places]
    /\ left \in [Proc -> Seq(Ext)]
    /\ undone \in SUBSET Id
    /\ faults \in 0 .. MaxFaults

(* store.rs:6-7, "an artifact exists exactly when its descriptor does": a   *)
(* descriptor on disk has its whole bytes, and its image if it has one,     *)
(* beside it, wherever a put, a delete or the server stopped.               *)
DescriptorHasBytes ==
    \A id \in Id : disk[id]["meta"] # None =>
        /\ disk[id]["meta"] \in Name
        /\ disk[id]["data"] = "whole"
        /\ id \in Images => disk[id]["image"] = "whole"

(* The other half of it: while nobody writes or removes an artifact, what   *)
(* the index answers for is what a restart will find, descriptor for        *)
(* descriptor, unless a deletion of it has failed half way (store.rs:258).  *)
Changes(p, id) == call[p].id = id /\ at[p] \in {"create", "sync", "rename", "insert", "remove", "forget"}
IndexIsOnDisk ==
    up => \A id \in Id \ undone : (\A p \in Proc : ~Changes(p, id)) => index[id] = disk[id]["meta"]

(* The store implements the map it promises: puts, deletes and reads take    *)
(* effect one at a time, a read answers with the artifact's own bytes or    *)
(* that there is none, and a restart keeps what was answered for.           *)
Map == INSTANCE ArtifactMap WITH
    held <- IF up THEN index ELSE [id \in Id |-> disk[id]["meta"]],
    fading <- IF up THEN {id \in Id : index[id] # None /\ disk[id]["meta"] = None} ELSE {}
ImplementsArtifactMap == Map!Spec
=============================================================================
