------------------------- MODULE CatalogCacheProofs -------------------------
(* Proofs about CatalogCache, for any number of calls, artifacts and files,  *)
(* any room in the channels and any damage: one install at a time, one gated *)
(* fetch per artifact, and only verified files under their names.            *)
EXTENDS CatalogCache, TLAPS

Working == {"look", "get", "verify", "write", "rename"}
Items(s) == {s[i] : i \in 1 .. Len(s)}

(* What holds of each call by itself.  One that works behind a gate holds   *)
(* it; what it has still to look at are files of its artifact, and it is at *)
(* one of them when it asks for it, verifies and writes it.                 *)
Own(c) ==
    /\ at[c] \in {"installed", "error"} => c \in Installs
    /\ at[c] \in {"gate", "again", "open", "stream", "hash", "missing", "io", "loss"} => c \in Gated
    /\ c \in Gated /\ at[c] \in Working \cup {"admit"} => gate[Art[c]] = c
    /\ at[c] \in Working => Items(todo[c]) \subseteq FilesIn(Art[c])
    /\ at[c] \in Working \ {"look"} => todo[c] # <<>>
    /\ at[c] \in {"write", "rename"} => temp[c] = "good"
    /\ c \in Gated /\ at[c] \in Working \ {"look"} =>
           (disk[Head(todo[c])] = "good" => Head(todo[c]) \in behind)

(* As long as no other program touches the cache, the files a call is past  *)
(* are there, and so is the file of a read once it is found, and what it    *)
(* opens is good.                                                           *)
Sound(c) ==
    /\ at[c] \in Working => \A f \in FilesIn(Art[c]) \ Items(todo[c]) : disk[f] = "good"
    /\ at[c] \in {"again", "open"} => disk[Want[c]] = "good"
    /\ at[c] \in {"stream", "hash"} => handle[c] = "good"
    /\ at[c] # "loss"

IInv ==
    /\ TypeOK
    /\ OneInstall
    /\ \A c \in Call : Own(c)
    /\ damage = 0 => /\ \A f \in File : disk[f] \in {None, "good"}
                     /\ \A c \in Call : Sound(c)

(* A gate that is held is held by a call at its fetch, which waits neither   *)
(* for another call nor, as it sends nothing there, for a client.            *)
GateAtWork ==
    \A a \in Artifact : gate[a] # None =>
        gate[a] \in Gated /\ Art[gate[a]] = a /\ at[gate[a]] \in Working \cup {"admit"}
-----------------------------------------------------------------------------
(* PROOFS *)
(* A sequence that is not empty is its head and its tail. *)
LEMMA HeadAndTail ==
    ASSUME NEW S, NEW s \in Seq(S), s # <<>>
    PROVE  /\ Head(s) \in S /\ Tail(s) \in Seq(S)
           /\ Items(s) = {Head(s)} \cup Items(Tail(s))
<1>1. Len(s) \in Nat /\ Len(s) # 0 /\ Head(s) = s[1] /\ Head(s) \in S
  OBVIOUS
<1>2. Tail(s) \in Seq(S) /\ Len(Tail(s)) = Len(s) - 1
  BY <1>1
<1>3. \A i \in 1 .. Len(Tail(s)) : Tail(s)[i] = s[i + 1]
  BY <1>1, <1>2
<1>4. Items(s) \subseteq {Head(s)} \cup Items(Tail(s))
  <2>1. ASSUME NEW i \in 1 .. Len(s), i # 1 PROVE s[i] \in Items(Tail(s))
    <3>1. i - 1 \in 1 .. Len(Tail(s)) /\ Tail(s)[i - 1] = s[i]
      BY <1>1, <1>2, <1>3, <2>1
    <3> QED  BY <3>1 DEF Items
  <2> QED  BY <1>1, <2>1 DEF Items
<1>5. {Head(s)} \cup Items(Tail(s)) \subseteq Items(s)
  BY <1>1, <1>2, <1>3 DEF Items
<1> QED  BY <1>1, <1>2, <1>4, <1>5

LEMMA NoItems == Items(<<>>) = {}
  BY DEF Items

(* The files of an artifact are files, and those a call is past are not the *)
(* one it is at.                                                            *)
LEMMA FilesAreFiles ==
    /\ \A c \in Call : FilesIn(Art[c]) \subseteq File /\ Items(FilesOf[Art[c]]) = FilesIn(Art[c])
    /\ \A c \in Call : Want[c] \in FilesIn(Art[c]) /\ FilesOf[Art[c]] \in Seq(File)
  BY CatalogAssumption DEF FilesIn, Items

(* Where a call that asks, verifies or writes is. *)
LEMMA AtAFile ==
    ASSUME IInv, NEW c \in Call, todo[c] # <<>>, at[c] \in Working
    PROVE  /\ Head(todo[c]) \in File /\ Head(todo[c]) \in FilesIn(Art[c])
           /\ Tail(todo[c]) \in Seq(File)
           /\ Items(todo[c]) = {Head(todo[c])} \cup Items(Tail(todo[c]))
  BY HeadAndTail, FilesAreFiles, ZenonT(60) DEF IInv, TypeOK, Own

LEMMA InitInvariant == Init => IInv
<1> SUFFICES ASSUME Init PROVE IInv
  OBVIOUS
<1>1. \A c \in Call : at[c] = "idle"
  BY DEF Init
<1>2. TypeOK
  <2>1. None \in Contents /\ "idle" \in Places /\ 0 \in 0 .. Room /\ 0 \in 0 .. MaxDamage /\ 0 \in 0 .. MaxFaults /\ <<>> \in Seq(File)
    BY CatalogAssumption DEF Contents, Places
  <2> QED  BY <2>1 DEF Init, TypeOK
<1>3. OneInstall
  BY <1>1 DEF Init, OneInstall, Running
<1>4. \A c \in Call : Own(c) /\ Sound(c)
  BY <1>1 DEF Own, Sound, Working
<1>5. \A f \in File : disk[f] = None
  BY DEF Init
<1> QED  BY <1>2, <1>3, <1>4, <1>5 DEF IInv

(* A call's going from one place to the next, silently, with a message to    *)
(* its client or for good, is a change of at, of its queue and its client.   *)
LEMMA Moves ==
    ASSUME TypeOK, NEW c \in Call, NEW place \in Places, Goes(c, place) \/ Ends(c, place) \/ Tells(c, place)
    PROVE  /\ at' = [at EXCEPT ![c] = place]
           /\ at' \in [Call -> Places]
           /\ queued' \in [Call -> 0 .. Room]
           /\ gone' \in SUBSET Call
<1>1. at' = [at EXCEPT ![c] = place]
  BY DEF Goes, Ends, Tells, Goto
<1>2. gone' \in SUBSET Call
  BY DEF TypeOK, Goes, Ends, Tells
<1>3. queued' \in [Call -> 0 .. Room]
  <2>1. CASE Goes(c, place)
    BY <2>1 DEF Goes, TypeOK
  <2>2. CASE Ends(c, place)
    BY <2>2, CatalogAssumption DEF Ends, TypeOK
  <2>3. CASE Tells(c, place)
    BY <2>3, CatalogAssumption DEF Tells, Heard, TypeOK
  <2> QED  BY <2>1, <2>2, <2>3
<1>4. at' \in [Call -> Places]
  BY <1>1 DEF TypeOK
<1> QED  BY <1>1, <1>2, <1>3, <1>4

(* A step of a call keeps the types. *)
LEMMA CallTypes ==
    ASSUME IInv, NEW c \in Call, Server(c) \/ Client(c)
    PROVE  TypeOK'
<1> USE CatalogAssumption DEF IInv, TypeOK, GivesGate, Fails, Contents, Working
<1>0. {"ended", "missing", "io", "loss", "idle", "gate", "admit", "look", "get", "verify", "write", "rename",
      "installed", "error", "again", "open", "stream",
       "hash"} = Places
  BY DEF Places, Ended
<1>1. CASE TakeSlot(c)
  BY <1>1, <1>0, Moves DEF TakeSlot
<1>2. CASE Busy(c)
  BY <1>2, <1>0, Moves DEF Busy
<1>3. CASE ReadRefused(c)
  BY <1>3, <1>0, Moves DEF ReadRefused
<1>4. CASE ReadFinds(c)
  BY <1>4, <1>0, Moves DEF ReadFinds, Made
<1>5. CASE ReadMisses(c)
  <2>1. /\ at' \in [Call -> Places] /\ queued' \in [Call -> 0 .. Room] /\ gone' \in SUBSET Call
    BY <1>5, <1>0, Moves DEF ReadMisses
  <2>2. faults' \in 0 .. MaxFaults
    BY <1>5 DEF ReadMisses, Made, NotMade
  <2> QED  BY <1>5, <2>1, <2>2 DEF ReadMisses
<1>6. CASE Prefetch(c)
  BY <1>6, <1>0, Moves DEF Prefetch
<1>7. CASE TakeGate(c)
  BY <1>7, <1>0, Moves DEF TakeGate
<1>8. CASE Admit(c)
  BY <1>8, <1>0, Moves, FilesAreFiles DEF Admit
<1>9. CASE Cached(c)
  BY <1>9, AtAFile DEF Cached
<1>10. CASE Missing(c)
  BY <1>10, <1>0, Moves DEF Missing
<1>11. CASE Get(c)
  BY <1>11, <1>0, Moves DEF Get
<1>12. CASE Verify(c)
  BY <1>12, <1>0, Moves DEF Verify
<1>13. CASE Rename(c)
  <2>1. /\ at' \in [Call -> Places] /\ queued' \in [Call -> 0 .. Room] /\ gone' \in SUBSET Call
    BY <1>13, <1>0, Moves DEF Rename
  <2>2. Head(todo[c]) \in File /\ Tail(todo[c]) \in Seq(File)
    BY <1>13, AtAFile DEF Rename, Own
  <2>3. temp' \in [Call -> Contents] /\ todo' \in [Call -> Seq(File)]
    BY <1>13, <2>2 DEF Rename
  <2>4. disk' \in [File -> Contents] /\ behind' \in SUBSET File
    BY <1>13, <2>2 DEF Rename
  <2> QED  BY <1>13, <2>1, <2>3, <2>4 DEF Rename
<1>14. CASE GatedFails(c)
  BY <1>14, <1>0, Moves DEF GatedFails
<1>15. CASE NotAdmitted(c)
  <2>1. /\ at' \in [Call -> Places] /\ queued' \in [Call -> 0 .. Room] /\ gone' \in SUBSET Call
    BY <1>15, <1>0, Moves DEF NotAdmitted
  <2>2. slot' \in BOOLEAN /\ UNCHANGED <<disk, gate, handle, behind, damage, faults>>
    BY <1>15 DEF NotAdmitted
  <2>3. temp' \in [Call -> Contents] /\ todo' \in [Call -> Seq(File)]
    BY <1>15 DEF NotAdmitted
  <2> QED  BY <2>1, <2>2, <2>3
<1>16. CASE InstallFails(c)
  BY <1>16, <1>0, Moves DEF InstallFails
<1>17. CASE GatedFetched(c)
  BY <1>17, <1>0, Moves DEF GatedFetched
<1>18. CASE InstallFetched(c)
  BY <1>18, <1>0, Moves DEF InstallFetched
<1>19. CASE InstallEnds(c)
  BY <1>19, <1>0, Moves DEF InstallEnds
<1>20. CASE LooksAgain(c)
  <2>1. /\ at' \in [Call -> Places] /\ queued' \in [Call -> 0 .. Room] /\ gone' \in SUBSET Call
    BY <1>20, <1>0, Moves DEF LooksAgain
  <2>2. faults' \in 0 .. MaxFaults
    BY <1>20 DEF LooksAgain, Made, NotMade
  <2> QED  BY <1>20, <2>1, <2>2 DEF LooksAgain
<1>21. CASE Open(c)
  <2>1. /\ at' \in [Call -> Places] /\ queued' \in [Call -> 0 .. Room] /\ gone' \in SUBSET Call
    BY <1>21, <1>0, Moves DEF Open
  <2>2. handle' \in [Call -> Contents]
    <3>1. disk[Want[c]] \in Contents
      BY FilesAreFiles
    <3>2. handle' = handle \/ handle' = [handle EXCEPT ![c] = disk[Want[c]]]
      BY <1>21 DEF Open
    <3> HIDE DEF Contents
    <3> QED  BY <3>1, <3>2, ZenonT(60)
  <2>3. faults' \in 0 .. MaxFaults
    BY <1>21 DEF Open, Made, NotMade
  <2> QED  BY <1>21, <2>1, <2>2, <2>3 DEF Open
<1>22. CASE SendChunk(c)
  <2>1. /\ at' \in [Call -> Places] /\ queued' \in [Call -> 0 .. Room] /\ gone' \in SUBSET Call
    BY <1>22, <1>0, Moves DEF SendChunk
  <2>2. handle' \in [Call -> Contents] /\ UNCHANGED <<disk, temp, todo, slot, gate, behind, damage, faults>>
    BY <1>22 DEF SendChunk
  <2> QED  BY <2>1, <2>2
<1>23. CASE EndStream(c)
  BY <1>23, <1>0, Moves DEF EndStream
<1>24. CASE ClientReads(c)
  BY <1>24 DEF ClientReads
<1>25. CASE Leave(c)
  BY <1>25 DEF Leave
<1>26. CASE LeaveEarly(c)
  BY <1>26, <1>0, Moves DEF LeaveEarly
<1>27. CASE BeginRename(c)
  BY <1>27, <1>0, Moves DEF BeginRename
<1> QED  BY <1>1, <1>2, <1>3, <1>4, <1>5, <1>6, <1>7, <1>8, <1>9, <1>10, <1>11, <1>12, <1>13, <1>14, <1>15,
         <1>16, <1>17, <1>18, <1>19, <1>20, <1>21, <1>22, <1>23, <1>24, <1>25, <1>26, <1>27 DEF Server, Client

(* A step of a call touches nothing of another call's. *)
LEMMA Elsewhere ==
    ASSUME IInv, NEW c \in Call, Server(c) \/ Client(c), NEW d \in Call, d # c
    PROVE  /\ at'[d] = at[d] /\ todo'[d] = todo[d] /\ temp'[d] = temp[d] /\ handle'[d] = handle[d]
           /\ damage' = damage
  BY CatalogAssumption
     DEF IInv, TypeOK, Server, Client, Goes, Goto, Ends, Tells, Fails, TakeSlot, Busy, ReadRefused, ReadFinds,
      ReadMisses,
     Prefetch, TakeGate, Admit, Cached, Missing, Get, Verify, BeginRename, Rename, GatedFails, NotAdmitted, InstallFails,
      GatedFetched,
     InstallFetched, InstallEnds, LooksAgain, Open, SendChunk, EndStream, ClientReads, Leave, LeaveEarly

(* The slot is taken with a step that begins an install, and given back with *)
(* the step that ends it.                                                    *)
SlotWithCall(c) ==
    \/ slot' = slot /\ (Running(c)' <=> Running(c))
    \/ ~slot /\ slot' = TRUE /\ Running(c)'
    \/ Running(c) /\ slot' = FALSE /\ ~Running(c)'

LEMMA SlotFollowsCall ==
    ASSUME IInv, NEW c \in Call, Server(c) \/ Client(c)
    PROVE  SlotWithCall(c)
<1> USE CatalogAssumption DEF IInv, TypeOK, Own, SlotWithCall, Running, Goes, Goto, Ends, Tells, Fails, Ended,
      Working, Gated
<1>1. CASE TakeSlot(c)
  BY <1>1, ZenonT(60) DEF TakeSlot
<1>2. CASE Busy(c)
  BY <1>2 DEF Busy
<1>3. CASE ReadRefused(c)
  BY <1>3 DEF ReadRefused, Installs
<1>4. CASE ReadFinds(c)
  BY <1>4 DEF ReadFinds, Installs
<1>5. CASE ReadMisses(c)
  BY <1>5 DEF ReadMisses, Installs
<1>6. CASE Prefetch(c)
  BY <1>6 DEF Prefetch, Installs
<1>7. CASE TakeGate(c)
  BY <1>7 DEF TakeGate
<1>8. CASE Admit(c)
  BY <1>8 DEF Admit
<1>9. CASE Cached(c)
  BY <1>9 DEF Cached
<1>10. CASE Missing(c)
  BY <1>10 DEF Missing
<1>11. CASE Get(c)
  BY <1>11 DEF Get
<1>12. CASE Verify(c)
  BY <1>12 DEF Verify
<1>13. CASE Rename(c)
  BY <1>13 DEF Rename
<1>14. CASE GatedFails(c)
  BY <1>14 DEF GatedFails
<1>15. CASE NotAdmitted(c)
  BY <1>15 DEF NotAdmitted
<1>16. CASE InstallFails(c)
  BY <1>16 DEF InstallFails
<1>17. CASE GatedFetched(c)
  BY <1>17 DEF GatedFetched, Installs
<1>18. CASE InstallFetched(c)
  BY <1>18 DEF InstallFetched
<1>19. CASE InstallEnds(c)
  BY <1>19 DEF InstallEnds
<1>20. CASE LooksAgain(c)
  BY <1>20 DEF LooksAgain
<1>21. CASE Open(c)
  BY <1>21 DEF Open
<1>22. CASE SendChunk(c)
  BY <1>22 DEF SendChunk
<1>23. CASE EndStream(c)
  BY <1>23 DEF EndStream
<1>24. CASE ClientReads(c)
  BY <1>24 DEF ClientReads
<1>25. CASE Leave(c)
  BY <1>25 DEF Leave, ClientOf
<1>26. CASE LeaveEarly(c)
  BY <1>26 DEF LeaveEarly, ClientOf
<1>27. CASE BeginRename(c)
  BY <1>27 DEF BeginRename
<1> QED  BY <1>1, <1>2, <1>3, <1>4, <1>5, <1>6, <1>7, <1>8, <1>9, <1>10, <1>11, <1>12, <1>13, <1>14, <1>15,
         <1>16, <1>17, <1>18, <1>19, <1>20, <1>21, <1>22, <1>23, <1>24, <1>25, <1>26, <1>27 DEF Server, Client

LEMMA CallSlot ==
    ASSUME IInv, NEW c \in Call, Server(c) \/ Client(c)
    PROVE  OneInstall'
<1>1. \A d \in Call \ {c} : Running(d)' <=> Running(d)
  BY Elsewhere DEF Running
<1>2. SlotWithCall(c)
  BY SlotFollowsCall
<1>3. \A d, e \in Call : Running(d)' /\ Running(e)' => d = e
  BY <1>1, <1>2 DEF SlotWithCall, IInv, OneInstall
<1>4. slot' <=> \E d \in Call : Running(d)'
  <2>1. CASE Running(c) /\ slot' = FALSE /\ ~Running(c)'
    BY <1>1, <2>1 DEF IInv, OneInstall
  <2>2. CASE ~slot /\ slot' = TRUE /\ Running(c)'
    BY <2>2
  <2>3. CASE slot' = slot /\ (Running(c)' <=> Running(c))
    BY <1>1, <2>3 DEF IInv, OneInstall
  <2> QED  BY <1>2, <2>1, <2>2, <2>3 DEF SlotWithCall
<1> QED  BY <1>3, <1>4 DEF OneInstall

(* A step of a call keeps what holds of that call. *)
LEMMA CallOwn ==
    ASSUME IInv, NEW c \in Call, Server(c) \/ Client(c)
    PROVE  Own(c)'
<1> USE CatalogAssumption DEF IInv, TypeOK, Own, Goes, Goto, Ends, Tells, GivesGate, Fails, Ended, Working,
      Installs, Gated
<1>1. CASE TakeSlot(c)
  BY <1>1 DEF TakeSlot
<1>2. CASE Busy(c)
  BY <1>2 DEF Busy
<1>3. CASE ReadRefused(c)
  BY <1>3 DEF ReadRefused
<1>4. CASE ReadFinds(c)
  BY <1>4 DEF ReadFinds
<1>5. CASE ReadMisses(c)
  BY <1>5 DEF ReadMisses
<1>6. CASE Prefetch(c)
  BY <1>6 DEF Prefetch
<1>7. CASE TakeGate(c)
  BY <1>7 DEF TakeGate
<1>8. CASE Admit(c)
  BY <1>8, FilesAreFiles DEF Admit
<1>9. CASE Cached(c)
  BY <1>9, AtAFile DEF Cached
<1>10. CASE Missing(c)
  BY <1>10 DEF Missing
<1>11. CASE Get(c)
  BY <1>11 DEF Get
<1>12. CASE Verify(c)
  BY <1>12 DEF Verify
<1>13. CASE Rename(c)
  <2>1. todo[c] # <<>> /\ at[c] \in Working
    BY <1>13 DEF Rename
  <2>2. Items(Tail(todo[c])) \subseteq FilesIn(Art[c])
    BY <2>1, AtAFile
  <2>3. at'[c] = "look" /\ todo'[c] = Tail(todo[c]) /\ gate' = gate
    BY <1>13 DEF Rename
  <2> QED  BY <1>13, <2>1, <2>2, <2>3 DEF Rename
<1>14. CASE GatedFails(c)
  BY <1>14 DEF GatedFails
<1>15. CASE NotAdmitted(c)
  BY <1>15 DEF NotAdmitted
<1>16. CASE InstallFails(c)
  BY <1>16 DEF InstallFails
<1>17. CASE GatedFetched(c)
  BY <1>17 DEF GatedFetched
<1>18. CASE InstallFetched(c)
  BY <1>18 DEF InstallFetched
<1>19. CASE InstallEnds(c)
  BY <1>19 DEF InstallEnds
<1>20. CASE LooksAgain(c)
  BY <1>20 DEF LooksAgain
<1>21. CASE Open(c)
  BY <1>21 DEF Open
<1>22. CASE SendChunk(c)
  BY <1>22 DEF SendChunk
<1>23. CASE EndStream(c)
  BY <1>23 DEF EndStream
<1>24. CASE ClientReads(c)
  BY <1>24 DEF ClientReads
<1>25. CASE Leave(c)
  BY <1>25 DEF Leave
<1>26. CASE LeaveEarly(c)
  BY <1>26 DEF LeaveEarly
<1>27. CASE BeginRename(c)
  BY <1>27 DEF BeginRename
<1> QED  BY <1>1, <1>2, <1>3, <1>4, <1>5, <1>6, <1>7, <1>8, <1>9, <1>10, <1>11, <1>12, <1>13, <1>14, <1>15,
         <1>16, <1>17, <1>18, <1>19, <1>20, <1>21, <1>22, <1>23, <1>24, <1>25, <1>26, <1>27 DEF Server, Client

(* A step of a call keeps the files good, and what holds of that call, while *)
(* no other program touches the cache.                                       *)
LEMMA CallSound ==
    ASSUME IInv, NEW c \in Call, Server(c) \/ Client(c), damage' = 0
    PROVE  Sound(c)' /\ \A f \in File : disk'[f] \in {None, "good"}
<1> USE CatalogAssumption DEF IInv, TypeOK, Sound, Goes, Goto, Ends, Tells, GivesGate, Fails, Ended, Working
<1>1. CASE TakeSlot(c)
  BY <1>1 DEF TakeSlot
<1>2. CASE Busy(c)
  BY <1>2 DEF Busy
<1>3. CASE ReadRefused(c)
  BY <1>3 DEF ReadRefused
<1>4. CASE ReadFinds(c)
  BY <1>4 DEF ReadFinds, Installed
<1>5. CASE ReadMisses(c)
  BY <1>5 DEF ReadMisses
<1>6. CASE Prefetch(c)
  BY <1>6 DEF Prefetch
<1>7. CASE TakeGate(c)
  BY <1>7 DEF TakeGate
<1>8. CASE Admit(c)
  BY <1>8, FilesAreFiles DEF Admit
<1>9. CASE Cached(c)
  BY <1>9, AtAFile DEF Cached
<1>10. CASE Missing(c)
  BY <1>10 DEF Missing
<1>11. CASE Get(c)
  BY <1>11 DEF Get
<1>12. CASE Verify(c)
  BY <1>12 DEF Verify
<1>13. CASE Rename(c)
  BY <1>13, AtAFile DEF Rename, Own
<1>14. CASE GatedFails(c)
  BY <1>14 DEF GatedFails
<1>15. CASE NotAdmitted(c)
  BY <1>15 DEF NotAdmitted
<1>16. CASE InstallFails(c)
  BY <1>16 DEF InstallFails
<1>17. CASE GatedFetched(c)
  BY <1>17, FilesAreFiles, NoItems DEF GatedFetched
<1>18. CASE InstallFetched(c)
  BY <1>18 DEF InstallFetched
<1>19. CASE InstallEnds(c)
  BY <1>19 DEF InstallEnds
<1>20. CASE LooksAgain(c)
  BY <1>20 DEF LooksAgain, Installed
<1>21. CASE Open(c)
  BY <1>21 DEF Open
<1>22. CASE SendChunk(c)
  BY <1>22 DEF SendChunk
<1>23. CASE EndStream(c)
  BY <1>23 DEF EndStream
<1>24. CASE ClientReads(c)
  BY <1>24 DEF ClientReads
<1>25. CASE Leave(c)
  BY <1>25 DEF Leave
<1>26. CASE LeaveEarly(c)
  BY <1>26 DEF LeaveEarly
<1>27. CASE BeginRename(c)
  BY <1>27 DEF BeginRename
<1> QED  BY <1>1, <1>2, <1>3, <1>4, <1>5, <1>6, <1>7, <1>8, <1>9, <1>10, <1>11, <1>12, <1>13, <1>14, <1>15,
         <1>16, <1>17, <1>18, <1>19, <1>20, <1>21, <1>22, <1>23, <1>24, <1>25, <1>26, <1>27 DEF Server, Client

(* A step of a call keeps what holds of the others: it takes no gate that    *)
(* another holds, and puts no file of another gate's artifact in place.      *)
LEMMA CallOthers ==
    ASSUME IInv, NEW c \in Call, Server(c) \/ Client(c), NEW d \in Call, d # c
    PROVE  Own(d)' /\ (damage' = 0 => Sound(d)')
<1> USE CatalogAssumption
<1>1. /\ at'[d] = at[d] /\ todo'[d] = todo[d] /\ temp'[d] = temp[d] /\ handle'[d] = handle[d]
      /\ damage' = damage
  BY Elsewhere
<1>2. d \in Gated /\ at[d] \in Working \cup {"admit"} => gate'[Art[d]] = gate[Art[d]]
  BY DEF IInv, TypeOK, Own, Gated, Working, Server, Client, GivesGate, Fails, TakeSlot, Busy, ReadRefused, ReadFinds,
     ReadMisses, Prefetch, TakeGate, Admit, Cached, Missing, Get, Verify, BeginRename, Rename, GatedFails, NotAdmitted, InstallFails,
     GatedFetched, InstallFetched, InstallEnds, LooksAgain, Open, SendChunk, EndStream, ClientReads, Leave, LeaveEarly
<1>3. CASE ~Rename(c)
  <2>1. disk' = disk /\ behind' = behind
    BY <1>3 DEF Server, Client, Fails, TakeSlot, Busy, ReadRefused, ReadFinds, ReadMisses, Prefetch, TakeGate,
      Admit, Cached,
       Missing, Get, Verify, BeginRename, GatedFails, NotAdmitted, InstallFails, GatedFetched, InstallFetched, InstallEnds,
      LooksAgain,
       Open, SendChunk, EndStream, ClientReads, Leave, LeaveEarly
  <2> QED  BY <1>1, <1>2, <2>1 DEF IInv, Own, Sound
<1>4. CASE Rename(c)
  <2> DEFINE f == Head(todo[c])
  <2>1. f \in FilesIn(Art[c]) /\ f \in File
    BY <1>4, AtAFile DEF Rename, IInv, Own, Working
  <2>2. /\ disk' = [disk EXCEPT ![f] = "good"]
        /\ behind' = IF c \in Installs THEN behind \cup {f} ELSE behind \ {f}
    BY <1>4 DEF Rename, IInv, Own, Working
  <2>3. ASSUME d \in Gated, at[d] \in Working \ {"look"}, disk'[Head(todo[d])] = "good"
        PROVE  Head(todo[d]) \in behind'
    <3>1. Head(todo[d]) \in FilesIn(Art[d]) /\ Head(todo[d]) \in File
      BY <2>3, AtAFile DEF IInv, Own, Working
    <3>2. CASE c \in Installs
      BY <2>1, <2>2, <2>3, <3>1, <3>2 DEF IInv, TypeOK, Own
    <3>3. CASE c \notin Installs
      <4>1. Art[c] # Art[d]
        BY <1>4, <2>3, <3>3 DEF Rename, IInv, Own, Gated, Working
      <4>2. Head(todo[d]) # f
        BY <2>1, <3>1, <4>1
      <4> QED  BY <2>1, <2>2, <2>3, <3>1, <3>3, <4>2 DEF IInv, TypeOK, Own
    <3> QED  BY <3>2, <3>3
  <2>4. Own(d)'
    BY <1>1, <1>2, <2>3 DEF IInv, Own
  <2>5. damage' = 0 => Sound(d)'
    BY <1>1, <2>1, <2>2, FilesAreFiles DEF IInv, TypeOK, Sound
  <2> QED  BY <2>4, <2>5
<1> QED  BY <1>3, <1>4

LEMMA DamageKeeps ==
    ASSUME IInv, NEW f \in File, Damage(f)
    PROVE  IInv'
<1> USE CatalogAssumption
<1>1. TypeOK'
  BY DEF IInv, TypeOK, Damage, Contents
<1>2. OneInstall'
  BY DEF IInv, OneInstall, Running, Damage
<1>3. ASSUME NEW c \in Call PROVE Own(c)'
  BY DEF IInv, TypeOK, Own, Damage
<1>4. damage' # 0
  BY DEF IInv, TypeOK, Damage
<1> QED  BY <1>1, <1>2, <1>3, <1>4 DEF IInv

LEMMA StepKeeps == IInv /\ [Next]_vars => IInv'
<1> SUFFICES ASSUME IInv, [Next]_vars PROVE IInv'
  OBVIOUS
<1>1. ASSUME NEW c \in Call, Server(c) \/ Client(c) PROVE IInv'
  <2>1. TypeOK' /\ OneInstall' /\ Own(c)'
    BY <1>1, CallTypes, CallSlot, CallOwn
  <2>2. \A d \in Call \ {c} : Own(d)' /\ (damage' = 0 => Sound(d)')
    BY <1>1, CallOthers
  <2>3. damage' = 0 => Sound(c)' /\ \A f \in File : disk'[f] \in {None, "good"}
    BY <1>1, CallSound
  <2> QED  BY <2>1, <2>2, <2>3 DEF IInv
<1>2. ASSUME NEW f \in File, Damage(f) PROVE IInv'
  BY <1>2, DamageKeeps
<1>3. CASE UNCHANGED vars
  BY <1>3 DEF vars, IInv, TypeOK, OneInstall, Running, Own, Sound
<1> QED  BY <1>1, <1>2, <1>3 DEF Next

LEMMA Invariant == Spec => []IInv
<1>1. Init => IInv
  BY InitInvariant
<1>2. IInv /\ [Next]_vars => IInv'
  BY StepKeeps
<1> QED  BY <1>1, <1>2, PTL DEF Spec
-----------------------------------------------------------------------------
(* Every variable keeps the shape the model gives it. *)
THEOREM TypeCorrect == Spec => []TypeOK
<1>1. IInv => TypeOK
  BY DEF IInv
<1> QED  BY <1>1, Invariant, PTL

(* Only verified files appear under their names, and no read of an undamaged *)
(* cache ends with DATA_LOSS: whatever the transport gives, and however many *)
(* calls write the same file.                                                *)
THEOREM FilesAlwaysVerify == Spec => []FilesVerify
<1>1. IInv => FilesVerify
  BY DEF IInv, FilesVerify, Sound
<1> QED  BY <1>1, Invariant, PTL

(* A read whose file is there is refused it only by the system, or by the    *)
(* replacement of the file that is under way, with an install beside it: a   *)
(* call behind the gate never replaces a file that is in place unless an     *)
(* install put it there.                                                     *)
THEOREM FetchedIsAlwaysFound == Spec => FetchedIsFound
<1> DEFINE Found == \A c \in Call : Refused(c)' /\ ~Refused(c) =>
                       \/ damage > 0 \/ faults' # faults
                       \/ Denied(c, Want[c]) /\ Installing(Want[c])
<1>1. IInv /\ [Next]_vars => [Found]_vars
  <2> SUFFICES ASSUME IInv, Next, NEW c \in Call, Refused(c)', ~Refused(c), ~(damage > 0), faults' = faults
               PROVE  Denied(c, Want[c]) /\ Installing(Want[c])
    OBVIOUS
  <2>1. damage = 0
    BY DEF IInv, TypeOK
  <2>2. LooksAgain(c) \/ Open(c)
    <3>1. PICK d \in Call : Server(d) \/ Client(d)
      BY DEF Next, Damage, Refused
    <3>2. d = c
      BY <3>1, Elsewhere DEF Refused
    <3>3. at \in [Call -> Places]
      BY DEF IInv, TypeOK
    <3> QED
      BY <3>1, <3>2, <3>3 DEF Refused, Server, Client, Goes, Goto, Ends, Tells, Fails, TakeSlot, Busy, ReadRefused,
         ReadFinds, ReadMisses, Prefetch, TakeGate, Admit, Cached, Missing, Get, Verify, BeginRename, Rename,
         GatedFails, NotAdmitted, InstallFails, GatedFetched, InstallFetched, InstallEnds, SendChunk, EndStream,
         ClientReads, Leave, LeaveEarly
  <2>3. disk[Want[c]] = "good"
    BY <2>1, <2>2 DEF IInv, Sound, LooksAgain, Open
  <2>4. Denied(c, Want[c])
    <3>1. at \in [Call -> Places]
      BY DEF IInv, TypeOK
    <3>2. CASE LooksAgain(c)
      BY <2>3, <3>1, <3>2 DEF LooksAgain, Refused, Made, NotMade, Installed, Goes, Goto, IInv, TypeOK
    <3>3. CASE Open(c)
      BY <2>3, <3>1, <3>3, CatalogAssumption DEF Open, Refused, Made, NotMade, Goes, Goto, IInv, TypeOK
    <3> QED  BY <2>2, <3>2, <3>3
  <2>5. PICK d \in Call \ {c} : Replacing(d, Want[c])
    BY <2>4 DEF Denied
  <2>6. CASE d \in Installs
    BY <2>4, <2>5, <2>6 DEF Installing
  <2>7. CASE d \in Gated
    <3>1. Own(d) /\ at[d] = "rename" /\ Head(todo[d]) = Want[c]
      BY <2>5 DEF IInv, Replacing
    <3>2. Want[c] \in behind
      BY <2>3, <2>7, <3>1 DEF Own, Working
    <3> QED  BY <2>4, <3>2 DEF Installing
  <2> QED  BY <2>4, <2>6, <2>7 DEF Gated
<1> QED  BY <1>1, Invariant, PTL DEF Spec, FetchedIsFound

(* One install runs at a time, and the slot is taken exactly while one does. *)
THEOREM OneInstallRuns == Spec => []OneInstall
<1>1. IInv => OneInstall
  BY DEF IInv
<1> QED  BY <1>1, Invariant, PTL

(* Of the calls that go through a gate one fetches at a time, and fetches no *)
(* file that another of them has put in place.                               *)
THEOREM GatesShareFetches == Spec => []GateSharesAFetch
<1>1. IInv => GateSharesAFetch
  BY DEF IInv, Own, GateSharesAFetch, Working, Gated
<1> QED  BY <1>1, Invariant, PTL

(* What a call's step does to the gates: it takes a free one, gives back its *)
(* own as its fetch ends, or is at work behind it before and after.          *)
LEMMA GateSteps ==
    ASSUME IInv, NEW c \in Call, Server(c) \/ Client(c)
    PROVE  /\ \A d \in Call \ {c} : at'[d] = at[d]
           /\ \/ c \in Gated /\ gate' = [gate EXCEPT ![Art[c]] = c] /\ at'[c] = "admit"
              \/ c \in Gated /\ gate' = [gate EXCEPT ![Art[c]] = None]
              \/ gate' = gate /\ (c \notin Gated \/ at[c] \notin Working \cup {"admit"}
                                  \/ at'[c] \in Working \cup {"admit"})
<1> DEFINE Goal == \/ c \in Gated /\ gate' = [gate EXCEPT ![Art[c]] = c] /\ at'[c] = "admit"
                   \/ c \in Gated /\ gate' = [gate EXCEPT ![Art[c]] = None]
                   \/ gate' = gate /\ (c \notin Gated \/ at[c] \notin Working \cup {"admit"}
                                       \/ at'[c] \in Working \cup {"admit"})
<1>1. at \in [Call -> Places] /\ (at[c] = "gate" => c \in Gated)
  BY DEF IInv, TypeOK, Own
<1>2. \A d \in Call \ {c} : at'[d] = at[d]
  BY Elsewhere
<1>3. ASSUME TakeGate(c) PROVE Goal
  BY <1>1, <1>3 DEF TakeGate, Goes, Goto
<1>4. ASSUME GatedFails(c) \/ GatedFetched(c) PROVE Goal
  BY <1>4 DEF GatedFails, GatedFetched, GivesGate
<1>5. ASSUME Admit(c) \/ Cached(c) \/ Missing(c) \/ Get(c) \/ Verify(c) \/ BeginRename(c) \/ Rename(c) PROVE Goal
  BY <1>1, <1>5 DEF Admit, Cached, Missing, Get, Verify, BeginRename, Rename, Goes, Tells, Goto, Working
<1>6. ASSUME \/ NotAdmitted(c) \/ InstallFails(c) \/ InstallFetched(c)
             \/ TakeSlot(c) \/ Busy(c) \/ LeaveEarly(c)
      PROVE  Goal
  BY <1>6 DEF NotAdmitted, InstallFails, InstallFetched, TakeSlot, Busy, LeaveEarly, Gated
<1>7. ASSUME \/ ReadRefused(c) \/ ReadFinds(c) \/ ReadMisses(c) \/ Prefetch(c) \/ InstallEnds(c)
             \/ LooksAgain(c) \/ Open(c) \/ SendChunk(c) \/ EndStream(c)
      PROVE  Goal
  BY <1>7 DEF ReadRefused, ReadFinds, ReadMisses, Prefetch, InstallEnds, LooksAgain, Open, SendChunk, EndStream, Working
<1>8. ASSUME ClientReads(c) \/ Leave(c) PROVE Goal
  BY <1>8 DEF ClientReads, Leave
<1>9. Goal
  BY <1>3, <1>4, <1>5, <1>6, <1>7, <1>8 DEF Server, Client
<1> QED  BY <1>2, <1>9

LEMMA StepFrees == GateAtWork /\ IInv /\ [Next]_vars => GateAtWork'
<1> SUFFICES ASSUME GateAtWork, IInv, [Next]_vars PROVE GateAtWork'
  OBVIOUS
<1> USE CatalogAssumption DEF GateAtWork
<1>1. gate \in [Artifact -> Call \cup {None}] /\ Gated \subseteq Call
  BY DEF IInv, TypeOK, Gated
<1>2. ASSUME NEW c \in Call, Server(c) \/ Client(c) PROVE GateAtWork'
  <2>1. \A d \in Call \ {c} : at'[d] = at[d]
    BY <1>2, GateSteps
  <2>2. CASE c \in Gated /\ gate' = [gate EXCEPT ![Art[c]] = c] /\ at'[c] = "admit"
    <3> SUFFICES ASSUME NEW a \in Artifact, gate'[a] # None
                 PROVE  gate'[a] \in Gated /\ Art[gate'[a]] = a /\ at'[gate'[a]] \in Working \cup {"admit"}
      OBVIOUS
    <3>1. gate'[a] = IF a = Art[c] THEN c ELSE gate[a]
      BY <1>1, <2>2, ZenonT(40)
    <3>2. CASE a = Art[c]
      BY <2>2, <3>1, <3>2
    <3>3. CASE a # Art[c]
      <4>1. gate'[a] = gate[a] /\ gate[a] \in Gated /\ Art[gate[a]] = a /\ at[gate[a]] \in Working \cup {"admit"}
        BY <3>1, <3>3, Zenon
      <4>2. gate[a] # c
        BY <3>3, <4>1
      <4> QED  BY <1>1, <2>1, <4>1, <4>2
    <3> QED  BY <3>2, <3>3
  <2>3. CASE c \in Gated /\ gate' = [gate EXCEPT ![Art[c]] = None]
    <3> SUFFICES ASSUME NEW a \in Artifact, gate'[a] # None
                 PROVE  gate'[a] \in Gated /\ Art[gate'[a]] = a /\ at'[gate'[a]] \in Working \cup {"admit"}
      OBVIOUS
    <3>1. gate'[a] = IF a = Art[c] THEN None ELSE gate[a]
      BY <1>1, <2>3, ZenonT(40)
    <3>2. a # Art[c] /\ gate'[a] = gate[a]
      BY <3>1, Zenon
    <3>3. gate[a] \in Gated /\ Art[gate[a]] = a /\ at[gate[a]] \in Working \cup {"admit"}
      BY <3>2, Zenon
    <3>4. gate[a] # c
      BY <3>2, <3>3
    <3> QED  BY <1>1, <2>1, <3>2, <3>3, <3>4
  <2>4. CASE gate' = gate /\ (c \notin Gated \/ at[c] \notin Working \cup {"admit"} \/ at'[c] \in Working \cup {"admit"})
    <3> SUFFICES ASSUME NEW a \in Artifact, gate'[a] # None
                 PROVE  gate'[a] \in Gated /\ Art[gate'[a]] = a /\ at'[gate'[a]] \in Working \cup {"admit"}
      OBVIOUS
    <3>1. gate[a] \in Gated /\ Art[gate[a]] = a /\ at[gate[a]] \in Working \cup {"admit"} /\ gate'[a] = gate[a]
      BY <2>4
    <3>2. CASE gate[a] = c
      BY <2>4, <3>1, <3>2
    <3>3. CASE gate[a] # c
      BY <1>1, <2>1, <3>1, <3>3
    <3> QED  BY <3>2, <3>3
  <2> QED  BY <1>2, <2>2, <2>3, <2>4, GateSteps
<1>3. CASE UNCHANGED <<gate, at>>
  BY <1>3
<1> QED  BY <1>2, <1>3 DEF Next, Damage, vars

(* Whoever waits for a gate waits for a call that waits for nobody: a gate   *)
(* is given back however the fetch behind it ends, so the calls on one       *)
(* artifact are never locked out (through.rs; catalog's part of CallsEnd     *)
(* that needs no fairness).                                                  *)
THEOREM GatesGivenBack == Spec => []GateAtWork
<1>1. Init => IInv /\ GateAtWork
  BY InitInvariant DEF Init, GateAtWork
<1>2. IInv /\ GateAtWork /\ [Next]_vars => (IInv /\ GateAtWork)'
  BY StepKeeps, StepFrees
<1> QED  BY <1>1, <1>2, PTL DEF Spec
=============================================================================
