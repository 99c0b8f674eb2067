--------------------------- MODULE SearchRegistry ---------------------------
(***************************************************************************)
(* The search service's indexes and aliases: server/src/search/registry.rs *)
(* and the handlers of server/src/search/service.rs.                       *)
(*                                                                         *)
(* An index is an Arc<RwLock<HybridIndex>>, here an entry of `store' that  *)
(* stays when its name is deleted, for the calls that still hold it. The   *)
(* maps of indexes and of aliases each have a lock of their own, taken for *)
(* one step. What a handler does under an index's lock is one step: nobody *)
(* else sees that index meanwhile. So is DeleteIndex, which changes the    *)
(* aliases while it holds the indexes: nobody sees the index gone and the  *)
(* aliases there. A document stands for its text, chunks and vectors.      *)
(***************************************************************************)
EXTENDS Integers, FiniteSets, SequencesExt

CONSTANTS
    Names,     \* names of indexes
    Aliases,   \* names of aliases, which may be names of indexes too
    Writes,    \* IndexDocuments calls, each the document it brings
    Reindexes, \* Reindex calls
    Binds,     \* SetAlias calls
    Creations, \* bound: CreateIndex and Reindex together
    Deletions  \* bound: DeleteIndex and DeleteAlias together

ASSUME SearchAssumption ==
    /\ Creations \in Nat
    /\ Deletions \in Nat
    /\ Writes \cap Reindexes = {} /\ Writes \cap Binds = {} /\ Reindexes \cap Binds = {}

Calls == Writes \cup Reindexes
None == "none"
NoIndex == 0

VARIABLES
    store,    \* every index made: its documents, those whose vectors the
              \* index refuses, the documents it answers searches from
    indexes,  \* the indexes by name
    aliases,  \* the aliases' targets
    at,       \* where each call is
    name,     \* the name it was given, then the one that stands for
    index,    \* the index it holds
    copy,     \* Reindex: the source's documents
    target,   \* Reindex: the name of its target; SetAlias: of the index
    deleted,  \* deletions done
    made      \* history: the index a Reindex has created

maps  == <<store, indexes, aliases>>
calls == <<at, name, index, copy, target>>
vars  == <<maps, calls, deleted, made>>

Init ==
    /\ store = <<>>
    /\ indexes = [n \in Names |-> NoIndex]
    /\ aliases = [a \in Aliases |-> None]
    /\ at = [c \in Calls \cup Binds |-> "idle"]
    /\ name = [c \in Calls \cup Binds |-> None]
    /\ index = [c \in Calls |-> NoIndex]
    /\ copy = [r \in Reindexes |-> {}]
    /\ target = [c \in Reindexes \cup Binds |-> None]
    /\ deleted = 0
    /\ made = [r \in Reindexes |-> NoIndex]

Bound(n) == n \in Aliases /\ aliases[n] # None
Meant(n) == IF Bound(n) THEN aliases[n] ELSE n
Exists(n) == n \in Names /\ indexes[n] # NoIndex
Move(c, place) == at' = [at EXCEPT ![c] = place]

----------------------------------------------------------------------------
(* resolve_index: the alias under one lock, the index under another.       *)

Ask(c) ==
    /\ at[c] = "idle"
    /\ \E n \in Names \cup Aliases : name' = [name EXCEPT ![c] = n]
    /\ IF c \in Reindexes
         THEN \E t \in Names : target' = [target EXCEPT ![c] = t]
         ELSE UNCHANGED target
    /\ Move(c, "asked")
    /\ UNCHANGED <<maps, index, copy, deleted, made>>

ReadAlias(c) ==
    /\ at[c] \in {"asked", "created"}
    /\ name' = [name EXCEPT ![c] = Meant(@)]
    /\ Move(c, IF at[c] = "asked" THEN "named" ELSE "named target")
    /\ UNCHANGED <<maps, index, copy, target, deleted, made>>

ReadIndex(c) ==
    /\ at[c] \in {"named", "named target"}
    /\ IF Exists(name[c])
         THEN /\ index' = [index EXCEPT ![c] = indexes[name[c]]]
              /\ Move(c, IF at[c] = "named" THEN "resolved" ELSE "resolved target")
         ELSE /\ Move(c, "not found")
              /\ UNCHANGED index
    /\ UNCHANGED <<maps, name, copy, target, deleted, made>>

----------------------------------------------------------------------------
Fresh == [docs |-> {}, refused |-> {}, searched |-> {}, sealed |-> FALSE]

CommitUnsearched(i, docs, bad) ==
    [store[i] EXCEPT !.docs = @ \cup docs, !.refused = @ \cup bad]

(* stage_document for each document, all refused if one is, then           *)
(* commit_staged_documents: the documents are in before the index is       *)
(* rebuilt, and a vector it refuses fails the rebuild, this time and every *)
(* time after. The answer is which of the two ways it went.                *)
Commit(i, docs, bad) ==
    LET new == [store[i] EXCEPT !.docs = @ \cup docs, !.refused = @ \cup bad]
    IN  [new EXCEPT !.searched = IF new.refused = {} THEN new.docs ELSE @]

StagedBlindly(i) == store[i].sealed \in BOOLEAN

Staged(i) == ~store[i].sealed

IndexAll(c, docs, done) ==
    LET i == index[c]
    IN  \/ /\ Staged(i) \/ docs = {}
           /\ \E bad \in SUBSET docs :
                /\ store' = [store EXCEPT ![i] = Commit(i, docs, bad)]
                /\ Move(c, IF store[i].refused \cup bad = {} THEN done ELSE "failed")
        \/ /\ docs # {}
           /\ Move(c, "failed")
           /\ UNCHANGED store

IndexDocuments(c) ==
    /\ c \in Writes
    /\ at[c] = "resolved"
    /\ IndexAll(c, {c}, "done")
    /\ UNCHANGED <<indexes, aliases, name, index, copy, target, deleted, made>>

----------------------------------------------------------------------------
(* Reindex: copy the source's documents, create the target, resolve it,    *)
(* fill it, and swap the alias if there is one to swap.                    *)

Copy(r) ==
    /\ r \in Reindexes
    /\ at[r] = "resolved"
    /\ copy' = [copy EXCEPT ![r] = store[index[r]].docs]
    /\ Move(r, "copied")
    /\ UNCHANGED <<maps, name, index, target, deleted, made>>

CreateTarget(r) ==
    /\ r \in Reindexes
    /\ at[r] = "copied"
    /\ ~Exists(target[r])
    /\ Len(store) < Creations
    /\ store' = Append(store, Fresh)
    /\ indexes' = [indexes EXCEPT ![target[r]] = Len(store')]
    /\ made' = [made EXCEPT ![r] = Len(store')]
    /\ name' = [name EXCEPT ![r] = target[r]]
    /\ Move(r, "created")
    /\ UNCHANGED <<aliases, index, copy, target, deleted>>

(* The name is taken, the specification is not valid, or the documents     *)
(* cannot be embedded in its space.                                        *)
TargetRefused(r) ==
    /\ r \in Reindexes
    /\ at[r] = "copied"
    /\ Move(r, "failed")
    /\ UNCHANGED <<maps, name, index, copy, target, deleted, made>>

FillTarget(r) ==
    /\ r \in Reindexes
    /\ at[r] = "resolved target"
    /\ IndexAll(r, copy[r], "filled")
    /\ UNCHANGED <<indexes, aliases, name, index, copy, target, deleted, made>>

SwapAlias(r) ==
    /\ r \in Reindexes
    /\ at[r] = "filled"
    /\ \/ \E a \in Aliases : aliases' = [aliases EXCEPT ![a] = target[r]]
       \/ UNCHANGED aliases
    /\ Move(r, "done")
    /\ UNCHANGED <<store, indexes, name, index, copy, target, deleted, made>>

----------------------------------------------------------------------------
(* CreateIndex, of an empty index or from a snapshot of one, which holds   *)
(* all of it, what it is searched from included.                           *)
Create ==
    /\ Len(store) < Creations
    /\ \E n \in Names :
         /\ ~Exists(n)
         /\ indexes' = [indexes EXCEPT ![n] = Len(store) + 1]
    /\ \/ store' = Append(store, Fresh)
       \/ \E i \in 1..Len(store) : store' = Append(store, store[i])
    /\ UNCHANGED <<aliases, calls, deleted, made>>

Delete ==
    /\ deleted < Deletions
    /\ \E n \in Names :
         /\ Exists(n)
         /\ indexes' = [indexes EXCEPT ![n] = NoIndex]
         /\ aliases' = [a \in Aliases |-> IF aliases[a] = n THEN None ELSE aliases[a]]
    /\ deleted' = deleted + 1
    /\ UNCHANGED <<store, calls, made>>

(* SealIndex also resolves its name in two steps; any of the indexes it    *)
(* may so come to seal is as good as another.                              *)
Seal ==
    /\ \E i \in 1..Len(store) :
         /\ ~store[i].sealed
         /\ store' = [store EXCEPT ![i].sealed = TRUE]
    /\ UNCHANGED <<indexes, aliases, calls, deleted, made>>

(* SetAlias looks for the index under one lock and binds under another.    *)
FindTarget(b) ==
    /\ at[b] = "idle"
    /\ \E a \in Aliases, n \in Names :
         /\ name' = [name EXCEPT ![b] = a]
         /\ target' = [target EXCEPT ![b] = n]
         /\ Move(b, IF Exists(n) THEN "found" ELSE "not found")
    /\ UNCHANGED <<maps, index, copy, deleted, made>>

Bind(b) ==
    /\ at[b] = "found"
    /\ aliases' = [aliases EXCEPT ![name[b]] = target[b]]
    /\ Move(b, "done")
    /\ UNCHANGED <<store, indexes, name, index, copy, target, deleted, made>>

DeleteAlias ==
    /\ deleted < Deletions
    /\ \E a \in Aliases :
         /\ aliases[a] # None
         /\ aliases' = [aliases EXCEPT ![a] = None]
    /\ deleted' = deleted + 1
    /\ UNCHANGED <<store, indexes, calls, made>>

----------------------------------------------------------------------------
Next ==
    \/ \E c \in Calls : \/ Ask(c) \/ ReadAlias(c) \/ ReadIndex(c)
                        \/ IndexDocuments(c)
                        \/ Copy(c) \/ CreateTarget(c) \/ TargetRefused(c)
                        \/ FillTarget(c) \/ SwapAlias(c)
    \/ \E b \in Binds : FindTarget(b) \/ Bind(b)
    \/ Create \/ Delete \/ Seal \/ DeleteAlias

Spec == Init /\ [][Next]_vars

----------------------------------------------------------------------------
(* Every variable has its type, and an index is searched from documents of *)
(* its own.                                                                *)
TypeOK ==
    /\ Len(store) <= Creations
    /\ \A i \in 1..Len(store) :
         /\ {store[i].docs, store[i].refused, store[i].searched} \subseteq SUBSET Writes
         /\ store[i].sealed \in BOOLEAN
         /\ store[i].searched \subseteq store[i].docs
    /\ indexes \in [Names -> 0..Len(store)]
    /\ aliases \in [Aliases -> Names \cup {None}]
    /\ index \in [Calls -> 0..Len(store)]
    /\ copy \in [Reindexes -> SUBSET Writes]

(* turbo_search.proto:35: a sealed index takes no more documents, also     *)
(* from a call that had resolved it before it was sealed, or a Reindex     *)
(* whose target it is; and no index ever loses one.                        *)
SealedIsFrozen ==
    [][\A i \in 1..Len(store) :
         /\ store[i].docs \subseteq store[i].docs'
         /\ store[i].sealed => store[i].docs' = store[i].docs]_vars

(* What IndexDocuments has answered for is searched from then on in the    *)
(* index it went to, and so is what a Reindex has copied in the one it     *)
(* filled, whatever other writers do to that index, failed ones included.  *)
AnsweredIsSearched ==
    /\ \A c \in Writes : at[c] = "done" => c \in store[index[c]].searched
    /\ \A r \in Reindexes :
         at[r] \in {"filled", "done"} => copy[r] \subseteq store[index[r]].searched

(* turbo_search.proto:38: the documents go into the destination index, the *)
(* one this call has created under target_spec.index_name.                 *)
ReindexFillsItsTarget ==
    \A r \in Reindexes : at[r] = "done" => index[r] = made[r]
=============================================================================
