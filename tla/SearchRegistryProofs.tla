------------------------ MODULE SearchRegistryProofs ------------------------
(* Proofs about SearchRegistry, for any number of calls, names, aliases,     *)
(* creations and deletions: what was answered for is searched, and a sealed  *)
(* index takes nothing more.                                                 *)
EXTENDS SearchRegistry, TLAPS

Made == 1 .. Len(store)
Index == [docs : SUBSET Writes, refused : SUBSET Writes, searched : SUBSET Writes, sealed : BOOLEAN]

Places == {"idle", "asked", "named", "resolved", "copied", "created", "named target", "resolved target", "filled", "found",
           "done", "failed", "not found"}

(* Every index a name or a call leads to has been made; what an index is     *)
(* searched from is among its documents.                                     *)
Shapes ==
    /\ store \in Seq(Index)
    /\ \A i \in Made : store[i].searched \subseteq store[i].docs
    /\ indexes \in [Names -> 0 .. Len(store)]
    /\ at \in [Calls \cup Binds -> Places]
    /\ index \in [Calls -> 0 .. Len(store)]
    /\ copy \in [Reindexes -> SUBSET Writes]

(* A call that has resolved a name holds an index. *)
Resolved ==
    \A c \in Calls : at[c] \in {"resolved", "copied", "created", "resolved target", "filled", "done"}
                     => index[c] \in Made

IInv == Shapes /\ Resolved /\ AnsweredIsSearched
-----------------------------------------------------------------------------
(* PROOFS *)
LEMMA InitInvariant == Init => IInv
<1> SUFFICES ASSUME Init PROVE IInv
  OBVIOUS
<1>1. Shapes
  BY DEF Init, Shapes, Made, NoIndex, Places
<1>2. Resolved /\ AnsweredIsSearched
  BY DEF Init, Resolved, AnsweredIsSearched, Calls
<1> QED  BY <1>1, <1>2 DEF IInv

(* Nothing that leaves the indexes alone and moves one call to a place where *)
(* nothing is claimed of it disturbs the invariant.                          *)
LEMMA MoveKeeps ==
    ASSUME IInv, NEW c \in Calls \cup Binds,
           NEW place \in {"idle", "asked", "named", "created", "named target", "found", "failed", "not found"},
           Move(c, place), place = "created" => c \in Calls /\ index[c] \in Made,
           UNCHANGED <<store, indexes, index, copy>>
    PROVE  IInv'
<1>1. at' \in [Calls \cup Binds -> Places]
  BY DEF IInv, Shapes, Move, Places
<1>2. Shapes'
  BY <1>1 DEF IInv, Shapes, Made, Places
<1>3. Resolved'
  BY DEF IInv, Shapes, Resolved, Made, Move, Places
<1>4. AnsweredIsSearched'
  BY DEF IInv, Shapes, AnsweredIsSearched, Move, Calls, Places
<1> QED  BY <1>2, <1>3, <1>4 DEF IInv

(* So does a new index, under any name, made by nobody or by a Reindex. *)
LEMMA AppendKeeps ==
    ASSUME IInv, NEW new \in Index, new.searched \subseteq new.docs, store' = Append(store, new),
           indexes' \in [Names -> 0 .. Len(store')],
           at' = at \/ \E r \in Reindexes : index[r] \in Made /\ Move(r, "created"),
           UNCHANGED <<index, copy>>
    PROVE  IInv'
<1>1. Len(store') = Len(store) + 1 /\ store' \in Seq(Index) /\ store'[Len(store) + 1] = new
  BY DEF IInv, Shapes
<1>2. \A i \in Made : store'[i] = store[i]
  BY DEF IInv, Shapes, Made
<1>3. Made' = Made \cup {Len(store) + 1} /\ 0 .. Len(store) \subseteq 0 .. Len(store')
  BY <1>1 DEF IInv, Shapes, Made
<1>4. at' \in [Calls \cup Binds -> Places]
  BY DEF IInv, Shapes, Move, Calls, Places
<1>5. \A i \in Made' : store'[i].searched \subseteq store'[i].docs
  BY <1>1, <1>2, <1>3 DEF IInv, Shapes
<1>6. Shapes'
  BY <1>1, <1>3, <1>4, <1>5 DEF IInv, Shapes, Places
<1>7. \A c \in Calls : at'[c] # at[c] => at'[c] = "created" /\ index[c] \in Made
  BY DEF IInv, Shapes, Move, Calls, Places
<1>8. Resolved'
  BY <1>3, <1>7 DEF IInv, Resolved
<1>9. AnsweredIsSearched'
  BY <1>2, <1>7, ZenonT(60) DEF IInv, AnsweredIsSearched, Resolved, Calls
<1> QED  BY <1>6, <1>8, <1>9 DEF IInv

(* What a Commit leaves in an index: all it had and the new documents, and   *)
(* it is searched from as much as before, or from all of them.               *)
LEMMA CommitAdds ==
    ASSUME Shapes, NEW i \in Made, NEW docs \in SUBSET Writes, NEW bad \in SUBSET docs
    PROVE  LET new == Commit(i, docs, bad) IN
           /\ new \in Index /\ new.searched \subseteq new.docs
           /\ new.docs = store[i].docs \cup docs
           /\ new.sealed = store[i].sealed
           /\ store[i].searched \subseteq new.searched
           /\ store[i].refused \cup bad = {} => new.searched = new.docs
<1> store[i] \in Index
  BY DEF Shapes, Made
<1> QED  BY DEF Shapes, Commit, Index

(* IndexAll, of a document or of a Reindex's copy: the index grows, unless   *)
(* it is sealed, and the call is done only if it is searched from all it has.*)
LEMMA IndexAllAdds ==
    ASSUME Shapes, NEW c \in Calls, index[c] \in Made, NEW docs \in SUBSET Writes,
           NEW done \in {"done", "filled"}, IndexAll(c, docs, done)
    PROVE  /\ store' \in Seq(Index) /\ Len(store') = Len(store)
           /\ \A i \in Made : /\ store'[i].searched \subseteq store'[i].docs
                              /\ store[i].docs \subseteq store'[i].docs
                              /\ store[i].searched \subseteq store'[i].searched
                              /\ store[i].sealed => store'[i].docs = store[i].docs
           /\ Move(c, "failed") \/ (Move(c, done) /\ docs \subseteq store'[index[c]].searched)
<1> DEFINE i == index[c]
<1>1. ASSUME Staged(i) \/ docs = {}, NEW bad \in SUBSET docs, store' = [store EXCEPT ![i] = Commit(i, docs, bad)],
             Move(c, IF store[i].refused \cup bad = {} THEN done ELSE "failed")
      PROVE  /\ store' \in Seq(Index) /\ Len(store') = Len(store)
             /\ \A j \in Made : /\ store'[j].searched \subseteq store'[j].docs
                                /\ store[j].docs \subseteq store'[j].docs
                                /\ store[j].searched \subseteq store'[j].searched
                                /\ store[j].sealed => store'[j].docs = store[j].docs
             /\ Move(c, "failed") \/ (Move(c, done) /\ docs \subseteq store'[index[c]].searched)
  <2> DEFINE new == Commit(i, docs, bad)
  <2>1. /\ new \in Index /\ new.searched \subseteq new.docs
        /\ new.docs = store[i].docs \cup docs
        /\ store[i].searched \subseteq new.searched
        /\ store[i].refused \cup bad = {} => new.searched = new.docs
    BY CommitAdds
  <2> HIDE DEF new
  <2>2. store' \in Seq(Index) /\ Len(store') = Len(store) /\ store'[i] = new
    BY <1>1, <2>1 DEF Shapes, Made, new
  <2>3. \A j \in Made \ {i} : store'[j] = store[j]
    BY <1>1 DEF Shapes, Made
  <2>4. store[i].sealed => new.docs = store[i].docs
    BY <1>1, <2>1 DEF Staged
  <2>5. Move(c, "failed") \/ (Move(c, done) /\ docs \subseteq new.searched)
    BY <1>1, <2>1
  <2> QED  BY <2>1, <2>2, <2>3, <2>4, <2>5 DEF Shapes
<1>2. CASE docs # {} /\ Move(c, "failed") /\ UNCHANGED store
  BY <1>2 DEF Shapes, Made
<1> QED  BY <1>1, <1>2 DEF IndexAll

(* IndexDocuments and FillTarget keep the invariant. *)
LEMMA IndexAllKeeps ==
    ASSUME IInv, NEW c \in Calls, index[c] \in Made, NEW docs \in SUBSET Writes,
           NEW done \in {"done", "filled"}, IndexAll(c, docs, done),
           c \in Writes => docs = {c}, c \in Reindexes => docs = copy[c],
           UNCHANGED <<indexes, index, copy>>
    PROVE  IInv'
<1>1. /\ store' \in Seq(Index) /\ Len(store') = Len(store)
      /\ \A i \in Made : /\ store'[i].searched \subseteq store'[i].docs
                         /\ store[i].searched \subseteq store'[i].searched
      /\ Move(c, "failed") \/ (Move(c, done) /\ docs \subseteq store'[index[c]].searched)
  BY IndexAllAdds DEF IInv
<1>2. Made' = Made
  BY <1>1 DEF Made
<1>3. at' \in [Calls \cup Binds -> Places]
  BY <1>1 DEF IInv, Shapes, Move, Places
<1>4. Shapes'
  BY <1>1, <1>2, <1>3 DEF IInv, Shapes, Places
<1>5. \A d \in Calls : d # c => at'[d] = at[d]
  BY <1>1 DEF IInv, Shapes, Move, Places
<1>6. Resolved'
  BY <1>2, <1>5 DEF IInv, Resolved
<1>7. at'[c] \in {"failed", done} /\ (at'[c] = done => docs \subseteq store'[index[c]].searched)
  BY <1>1 DEF IInv, Shapes, Move, Places
<1>8. ASSUME NEW w \in Writes, at'[w] = "done" PROVE w \in store'[index'[w]].searched
  <2>1. CASE w = c
    BY <1>7, <1>8, <2>1
  <2>2. CASE w # c
    BY <1>1, <1>5, <1>8, <2>2 DEF IInv, AnsweredIsSearched, Resolved, Calls
  <2> QED  BY <2>1, <2>2
<1>9. ASSUME NEW r \in Reindexes, at'[r] \in {"filled", "done"} PROVE copy'[r] \subseteq store'[index'[r]].searched
  <2>1. CASE r = c
    BY <1>7, <1>9, <2>1
  <2>2. CASE r # c
    BY <1>1, <1>5, <1>9, <2>2 DEF IInv, AnsweredIsSearched, Resolved, Calls
  <2> QED  BY <2>1, <2>2
<1> QED  BY <1>4, <1>6, <1>8, <1>9 DEF IInv, AnsweredIsSearched

LEMMA SealKeeps ==
    ASSUME IInv, Seal
    PROVE  IInv'
<1>1. PICK i \in Made : store' = [store EXCEPT ![i].sealed = TRUE]
  BY DEF Seal, Made
<1>2. store[i] \in Index
  BY DEF IInv, Shapes, Made
<1>3. store' \in Seq(Index) /\ Len(store') = Len(store)
  <2>1. [store[i] EXCEPT !.sealed = TRUE] \in Index
    BY <1>2 DEF Index
  <2>2. store' = [store EXCEPT ![i] = [store[i] EXCEPT !.sealed = TRUE]]
    BY <1>1
  <2> QED  BY <2>1, <2>2 DEF IInv, Shapes, Made
<1>4. \A j \in Made : store'[j].docs = store[j].docs /\ store'[j].searched = store[j].searched
  BY <1>1, <1>2 DEF IInv, Shapes, Made, Index
<1>5. Made' = Made /\ UNCHANGED <<indexes, at, index, copy>>
  BY <1>3 DEF Made, Seal, calls
<1>6. Shapes'
  BY <1>3, <1>4, <1>5 DEF IInv, Shapes, Places
<1>7. Resolved' /\ AnsweredIsSearched'
  BY <1>4, <1>5 DEF IInv, Resolved, AnsweredIsSearched, Calls
<1> QED  BY <1>6, <1>7 DEF IInv

(* A call finds its index, which has been made. *)
LEMMA ReadIndexKeeps ==
    ASSUME IInv, NEW c \in Calls, ReadIndex(c)
    PROVE  IInv'
<1>1. CASE Exists(name[c])
  <2>1. indexes[name[c]] \in Made
    BY <1>1 DEF IInv, Shapes, Exists, NoIndex, Made
  <2>2. index' = [index EXCEPT ![c] = indexes[name[c]]] /\ UNCHANGED <<store, indexes, copy>>
    BY <1>1 DEF ReadIndex, maps
  <2>3. at' = [at EXCEPT ![c] = IF at[c] = "named" THEN "resolved" ELSE "resolved target"]
    BY <1>1 DEF ReadIndex, Move
  <2>4. at' \in [Calls \cup Binds -> Places] /\ index' \in [Calls -> 0 .. Len(store)]
    <3>1. at' \in [Calls \cup Binds -> Places]
      BY <2>3 DEF IInv, Shapes, Places
    <3>2. indexes[name[c]] \in 0 .. Len(store)
      BY <2>1 DEF Made
    <3>3. index' \in [Calls -> 0 .. Len(store)]
      BY <2>2, <3>2 DEF IInv, Shapes
    <3> QED  BY <3>1, <3>3
  <2>5. Shapes'
    BY <2>2, <2>4 DEF IInv, Shapes, Made
  <2>6. Resolved'
    BY <2>1, <2>2, <2>3 DEF IInv, Shapes, Resolved, Made
  <2>7. \A d \in Calls : at'[d] \in {"filled", "done"} => at'[d] = at[d] /\ index'[d] = index[d]
    BY <2>2, <2>3 DEF IInv, Shapes, Places
  <2>8. AnsweredIsSearched'
    BY <2>2, <2>7 DEF IInv, AnsweredIsSearched, Calls
  <2> QED  BY <2>5, <2>6, <2>8 DEF IInv
<1>2. CASE ~Exists(name[c])
  <2>1. Move(c, "not found") /\ UNCHANGED <<store, indexes, index, copy>>
    BY <1>2 DEF ReadIndex, maps
  <2> QED  BY <2>1, MoveKeeps
<1> QED  BY <1>1, <1>2

LEMMA CopyKeeps ==
    ASSUME IInv, NEW r \in Calls, Copy(r)
    PROVE  IInv'
<1>1. r \in Reindexes /\ index[r] \in Made /\ at[r] = "resolved"
  BY DEF Copy, IInv, Resolved
<1>2. store[index[r]].docs \in SUBSET Writes
  <2>1. store[index[r]] \in Index
    BY <1>1 DEF IInv, Shapes, Made
  <2> QED  BY <2>1 DEF Index
<1>3. /\ copy' = [copy EXCEPT ![r] = store[index[r]].docs] /\ at' = [at EXCEPT ![r] = "copied"]
      /\ UNCHANGED <<store, indexes, index>>
  BY DEF Copy, Move, maps
<1>4. Shapes'
  BY <1>1, <1>2, <1>3 DEF IInv, Shapes, Made, Places
<1>5. Resolved'
  BY <1>1, <1>3 DEF IInv, Shapes, Resolved, Made
<1>6. AnsweredIsSearched'
  BY <1>1, <1>3 DEF IInv, Shapes, AnsweredIsSearched, Calls
<1> QED  BY <1>4, <1>5, <1>6 DEF IInv

LEMMA SwapAliasKeeps ==
    ASSUME IInv, NEW r \in Calls, SwapAlias(r)
    PROVE  IInv'
<1>1. r \in Reindexes /\ at[r] = "filled" /\ at' = [at EXCEPT ![r] = "done"] /\ UNCHANGED <<store, indexes, index, copy>>
  BY DEF SwapAlias, Move
<1>2. Shapes'
  BY <1>1 DEF IInv, Shapes, Made, Places
<1>3. Resolved'
  BY <1>1 DEF IInv, Shapes, Resolved, Made
<1>4. AnsweredIsSearched'
  BY <1>1, SearchAssumption DEF IInv, Shapes, AnsweredIsSearched, Calls
<1> QED  BY <1>2, <1>3, <1>4 DEF IInv

LEMMA BindKeeps ==
    ASSUME IInv, NEW b \in Binds, FindTarget(b) \/ Bind(b)
    PROVE  IInv'
<1>1. UNCHANGED <<store, indexes, index, copy>>
  BY DEF FindTarget, Bind, maps
<1>2. \A c \in Calls : at'[c] = at[c]
  <2>1. \A c \in Calls : c # b
    BY SearchAssumption DEF Calls
  <2>2. Move(b, "found") \/ Move(b, "not found") \/ Move(b, "done")
    BY DEF FindTarget, Bind
  <2> QED  BY <2>1, <2>2 DEF Move, IInv, Shapes
<1>3. at' \in [Calls \cup Binds -> Places]
  BY DEF FindTarget, Bind, Move, IInv, Shapes, Places
<1>4. Shapes'
  BY <1>1, <1>3 DEF IInv, Shapes, Made, Places
<1>5. Resolved' /\ AnsweredIsSearched'
  BY <1>1, <1>2 DEF IInv, Resolved, AnsweredIsSearched, Made, Calls
<1> QED  BY <1>4, <1>5 DEF IInv

LEMMA StepKeeps == IInv /\ [Next]_vars => IInv'
<1> SUFFICES ASSUME IInv, [Next]_vars PROVE IInv'
  OBVIOUS
<1>1. ASSUME NEW c \in Calls, Ask(c) PROVE IInv'
  <2>1. Move(c, "asked") /\ UNCHANGED <<store, indexes, index, copy>>
    BY <1>1 DEF Ask, maps
  <2> QED  BY <2>1, MoveKeeps
<1>2. ASSUME NEW c \in Calls, ReadAlias(c) PROVE IInv'
  <2>1. (Move(c, "named") \/ Move(c, "named target")) /\ UNCHANGED <<store, indexes, index, copy>>
    BY <1>2 DEF ReadAlias, maps
  <2> QED  BY <2>1, MoveKeeps
<1>3. ASSUME NEW c \in Calls, ReadIndex(c) PROVE IInv'
  BY <1>3, ReadIndexKeeps
<1>4. ASSUME NEW c \in Calls, IndexDocuments(c) PROVE IInv'
  <2>1. c \in Writes /\ index[c] \in Made /\ c \notin Reindexes
    BY <1>4, SearchAssumption DEF IndexDocuments, IInv, Resolved
  <2>2. IndexAll(c, {c}, "done") /\ UNCHANGED <<indexes, index, copy>>
    BY <1>4 DEF IndexDocuments
  <2> QED  BY <2>1, <2>2, IndexAllKeeps
<1>5. ASSUME NEW c \in Calls, Copy(c) PROVE IInv'
  BY <1>5, CopyKeeps
<1>6. ASSUME NEW c \in Calls, CreateTarget(c) PROVE IInv'
  <2>1. c \in Reindexes /\ index[c] \in Made /\ Move(c, "created")
    BY <1>6 DEF CreateTarget, IInv, Resolved
  <2>2. Fresh \in Index /\ Fresh.searched \subseteq Fresh.docs
    BY DEF Fresh, Index
  <2>3. store' = Append(store, Fresh) /\ indexes' = [indexes EXCEPT ![target[c]] = Len(store')] /\ UNCHANGED <<index, copy>>
    BY <1>6 DEF CreateTarget
  <2>4. Len(store') = Len(store) + 1 /\ Len(store) \in Nat
    BY <2>2, <2>3 DEF IInv, Shapes
  <2>5. indexes' \in [Names -> 0 .. Len(store')]
    <3>1. 0 .. Len(store) \subseteq 0 .. Len(store') /\ Len(store') \in 0 .. Len(store')
      BY <2>4
    <3> HIDE DEF Fresh
    <3> QED  BY <2>3, <3>1 DEF IInv, Shapes
  <2> QED  BY <2>1, <2>2, <2>3, <2>5, AppendKeeps
<1>7. ASSUME NEW c \in Calls, TargetRefused(c) PROVE IInv'
  <2>1. Move(c, "failed") /\ UNCHANGED <<store, indexes, index, copy>>
    BY <1>7 DEF TargetRefused, maps
  <2> QED  BY <2>1, MoveKeeps
<1>8. ASSUME NEW c \in Calls, FillTarget(c) PROVE IInv'
  <2>1. c \in Reindexes /\ index[c] \in Made /\ c \notin Writes /\ copy[c] \in SUBSET Writes
    BY <1>8, SearchAssumption DEF FillTarget, IInv, Resolved, Shapes
  <2>2. IndexAll(c, copy[c], "filled") /\ UNCHANGED <<indexes, index, copy>>
    BY <1>8 DEF FillTarget
  <2> QED  BY <2>1, <2>2, IndexAllKeeps
<1>9. ASSUME NEW c \in Calls, SwapAlias(c) PROVE IInv'
  BY <1>9, SwapAliasKeeps
<1>10. ASSUME NEW b \in Binds, FindTarget(b) \/ Bind(b) PROVE IInv'
  BY <1>10, BindKeeps
<1>11. CASE Create
  <2>1. PICK new \in {Fresh} \cup {store[i] : i \in Made} : store' = Append(store, new)
    BY <1>11 DEF Create, Made
  <2>2. new \in Index /\ new.searched \subseteq new.docs
    <3>1. CASE new = Fresh
      BY <3>1 DEF Fresh, Index
    <3>2. CASE \E i \in Made : new = store[i]
      BY <3>2 DEF IInv, Shapes, Made
    <3> QED  BY <2>1, <3>1, <3>2
  <2>3. Len(store') = Len(store) + 1 /\ Len(store) \in Nat
    BY <2>1, <2>2 DEF IInv, Shapes
  <2>4. at' = at /\ UNCHANGED <<index, copy>>
    BY <1>11 DEF Create, calls
  <2>5. indexes' \in [Names -> 0 .. Len(store')]
    <3>1. 0 .. Len(store) \subseteq 0 .. Len(store') /\ Len(store) + 1 \in 0 .. Len(store')
      BY <2>3
    <3>2. PICK n \in Names : indexes' = [indexes EXCEPT ![n] = Len(store) + 1]
      BY <1>11 DEF Create
    <3> QED  BY <3>1, <3>2 DEF IInv, Shapes
  <2> QED  BY <2>1, <2>2, <2>4, <2>5, AppendKeeps
<1>12. CASE Delete \/ DeleteAlias
  <2>1. indexes' \in [Names -> 0 .. Len(store)] /\ UNCHANGED <<store, at, index, copy>>
    BY <1>12 DEF Delete, DeleteAlias, calls, IInv, Shapes, NoIndex
  <2> QED  BY <2>1 DEF IInv, Shapes, Resolved, AnsweredIsSearched, Made
<1>13. CASE Seal
  BY <1>13, SealKeeps
<1>14. CASE UNCHANGED vars
  BY <1>14 DEF vars, maps, calls, IInv, Shapes, Resolved, AnsweredIsSearched, Made
<1> QED  BY <1>1, <1>2, <1>3, <1>4, <1>5, <1>6, <1>7, <1>8, <1>9, <1>10, <1>11, <1>12, <1>13, <1>14 DEF Next

(* The invariant: every name and every call leads to an index that was made, *)
(* and what was answered for is searched in it.                              *)
THEOREM RegistryInvariant == Spec => []IInv
<1>1. Init => IInv
  BY InitInvariant
<1>2. IInv /\ [Next]_vars => IInv'
  BY StepKeeps
<1> QED  BY <1>1, <1>2, PTL DEF Spec

(* A document that was answered for is searched from then on, and so are the *)
(* copies of a Reindex in the index it filled, whatever other writers do to  *)
(* that index, failed ones included.                                         *)
THEOREM AnsweredIsAlwaysSearched == Spec => []AnsweredIsSearched
<1>1. IInv => AnsweredIsSearched
  BY DEF IInv
<1> QED  BY <1>1, RegistryInvariant, PTL

(* No step takes a document from an index, and none gives one to an index    *)
(* that is sealed.                                                           *)
LEMMA StepFreezes ==
    ASSUME IInv, [Next]_vars
    PROVE  \A i \in 1 .. Len(store) :
              /\ store[i].docs \subseteq store[i].docs'
              /\ store[i].sealed => store[i].docs' = store[i].docs
<1>1. ASSUME NEW c \in Calls, IndexDocuments(c) \/ FillTarget(c), NEW i \in Made
      PROVE  store[i].docs \subseteq store'[i].docs /\ (store[i].sealed => store'[i].docs = store[i].docs)
  <2>1. index[c] \in Made
    BY <1>1 DEF IndexDocuments, FillTarget, IInv, Resolved
  <2>2. PICK docs \in SUBSET Writes, done \in {"done", "filled"} : IndexAll(c, docs, done)
    BY <1>1 DEF IndexDocuments, FillTarget, IInv, Shapes
  <2> QED  BY <2>1, <2>2, IndexAllAdds DEF IInv
<1>2. ASSUME NEW new \in Index, store' = Append(store, new), NEW i \in Made
      PROVE  store'[i] = store[i]
  BY <1>2 DEF IInv, Shapes, Made
<1>3. ASSUME Seal, NEW i \in Made
      PROVE  store'[i].docs = store[i].docs
  BY <1>3 DEF Seal, IInv, Shapes, Index, Made
<1>4. Create \/ (\E c \in Calls : CreateTarget(c)) => \E new \in Index : store' = Append(store, new)
  <2>1. Fresh \in Index
    BY DEF Fresh, Index
  <2>2. \A i \in 1 .. Len(store) : store[i] \in Index
    BY DEF IInv, Shapes
  <2> HIDE DEF Fresh
  <2> QED  BY <2>1, <2>2 DEF Create, CreateTarget
<1>5. \/ store' = store \/ Create \/ Seal
      \/ \E c \in Calls : CreateTarget(c) \/ IndexDocuments(c) \/ FillTarget(c)
  BY DEF Next, vars, maps, Ask, ReadAlias, ReadIndex, Copy, TargetRefused, SwapAlias, FindTarget, Bind, Delete, DeleteAlias
<1>6. \A i \in Made : store[i].docs \subseteq store'[i].docs /\ (store[i].sealed => store'[i].docs = store[i].docs)
  BY <1>1, <1>2, <1>3, <1>4, <1>5
<1> QED  BY <1>6 DEF Made

(* A sealed index takes no more documents, and no index ever loses one. *)
THEOREM SealedStaysFrozen == Spec => SealedIsFrozen
<1>1. IInv /\ [Next]_vars =>
         [\A i \in 1 .. Len(store) :
            /\ store[i].docs \subseteq store[i].docs'
            /\ store[i].sealed => store[i].docs' = store[i].docs]_vars
  BY StepFreezes
<1> QED  BY <1>1, RegistryInvariant, PTL DEF Spec, SealedIsFrozen
=============================================================================
