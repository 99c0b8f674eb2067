---------------------------- MODULE CatalogCache ----------------------------
(* The model catalog's cache of files (server/src/catalog/install.rs,         *)
(* through.rs, read.rs; the zoo's fetch in analysis/zoo/src/fetch.rs) in zoo  *)
(* mode: InstallModel calls that share one slot, ReadModelFile calls that     *)
(* fetch what is missing behind a gate per artifact, and the prefetch of the  *)
(* start, all writing the same files, each through temporary files of its     *)
(* own, while other programs damage or remove files of the cache.             *)
(*                                                                            *)
(* A check that may say no (the licence, the free space, a directory) is a    *)
(* step with two outcomes.  On Windows a file that is being replaced can be   *)
(* neither looked at, opened nor replaced by another, so a rename is two      *)
(* steps there, its beginning and its end.  A file's bytes are "good", "rot" (of the right    *)
(* size) or "cut" (of another).  Clients read their stream's messages or go.  *)
EXTENDS Naturals, Sequences, FiniteSets

CONSTANTS
    Call,      \* the calls, each made at most once
    Kind,      \* [Call -> {"install", "read", "prefetch"}]
    Artifact,
    File,      \* files under their paths in the cache, <artifact>/<path>
    FilesOf,   \* [Artifact -> Seq(File)]: the files of each, in the index's order
    Art,       \* [Call -> Artifact]
    Want,      \* [Call -> File]: the file a read asks for
    Room,      \* messages that fit the channel to a client (16 and 4)
    Windows,   \* whether a file that is being replaced is denied to others
    MaxDamage, \* bound: how many times another program touches the cache
    MaxFaults, \* bound: how many times the system fails a read's stat or open
    None

FilesIn(a) == {FilesOf[a][i] : i \in 1 .. Len(FilesOf[a])}

ASSUME CatalogAssumption ==
    /\ Kind \in [Call -> {"install", "read", "prefetch"}]
    /\ FilesOf \in [Artifact -> Seq(File)]
    /\ \A a, b \in Artifact : a # b => FilesIn(a) \cap FilesIn(b) = {}
    /\ Art \in [Call -> Artifact]
    /\ Want \in [Call -> File]
    /\ \A c \in Call : Want[c] \in FilesIn(Art[c])
    /\ Room \in Nat \ {0}
    /\ Windows \in BOOLEAN
    /\ {MaxDamage, MaxFaults} \subseteq Nat
    /\ None \notin {"cut", "rot", "good"} /\ None \notin Call

VARIABLES
    disk,    \* [File -> None, "cut", "rot" or "good"]: the files under their names
    temp,    \* [Call -> the bytes its fetch has got, and writes to a temporary file]
    at,      \* [Call -> where it is; "missing", "io" and "loss" are refusals of a read]
    todo,    \* [Call -> the files its fetch has still to look at]
    slot,    \* the install slot (CatalogService.installing) is taken
    gate,    \* [Artifact -> the call that holds its gate, or None]
    handle,  \* [Call -> the bytes of the file a read has open]
    queued,  \* [Call -> messages in the channel to its client]
    gone,    \* the calls whose client has gone away
    behind,  \* history: the files that an install put in place last
    damage,  \* counts what other programs did, up to MaxDamage
    faults   \* counts the stats and opens of reads that the system failed
vars == <<disk, temp, at, todo, slot, gate, handle, queued, gone, behind, damage, faults>>

Contents == {None, "cut", "rot", "good"}
Ended == {"ended", "missing", "io", "loss"}
Installs == {c \in Call : Kind[c] = "install"}
Gated == Call \ Installs
Installed(f) == disk[f] \in {"rot", "good"}

Goto(c, place) == at' = [at EXCEPT ![c] = place]
Goes(c, place) == Goto(c, place) /\ UNCHANGED <<queued, gone>>

(* What is queued for the client of a call that is over, and whether it is *)
(* there, no longer matters.                                               *)
Ends(c, how) ==
    /\ Goto(c, how)
    /\ queued' = [queued EXCEPT ![c] = 0]
    /\ gone' = gone \ {c}

(* A message to a client that has gone is dropped; to one that is there it *)
(* waits for room in the channel.                                          *)
Heard(c) == c \in gone \/ queued[c] < Room
Tells(c, place) ==
    /\ Heard(c)
    /\ queued' = IF c \in gone THEN queued ELSE [queued EXCEPT ![c] = @ + 1]
    /\ gone' = gone
    /\ Goto(c, place)

(* Another call is replacing f, and c is not let near it. *)
Replacing(d, f) == at[d] = "rename" /\ Head(todo[d]) = f
Denied(c, f) == Windows /\ \E d \in Call \ {c} : Replacing(d, f)

(* A stat or an open in a read: it is made, denied, or failed by the system. *)
Made(c) == ~Denied(c, Want[c]) /\ faults' = faults
NotMade(c) ==
    \/ Denied(c, Want[c]) /\ faults' = faults
    \/ faults < MaxFaults /\ faults' = faults + 1

GivesGate(c) == gate' = [gate EXCEPT ![Art[c]] = None]

Init ==
    /\ disk = [f \in File |-> None]
    /\ temp = [c \in Call |-> None]
    /\ at = [c \in Call |-> "idle"]
    /\ todo = [c \in Call |-> <<>>]
    /\ slot = FALSE
    /\ gate = [a \in Artifact |-> None]
    /\ handle = [c \in Call |-> None]
    /\ queued = [c \in Call |-> 0]
    /\ gone = {}
    /\ behind = {}
    /\ damage = 0
    /\ faults = 0

(***************************************************************************)
(* InstallModel, until its stream begins.                                  *)
(***************************************************************************)
TakeSlot(c) ==
    /\ at[c] = "idle" /\ c \in Installs
    /\ ~slot
    /\ slot' = TRUE
    /\ Goes(c, "admit")
    /\ UNCHANGED <<disk, temp, todo, gate, handle, behind, damage, faults>>

Busy(c) ==
    /\ at[c] = "idle" /\ c \in Installs
    /\ slot
    /\ Ends(c, "ended")
    /\ UNCHANGED <<disk, temp, todo, slot, gate, handle, behind, damage, faults>>

(***************************************************************************)
(* ReadModelFile, until its file is found, and the prefetch.               *)
(***************************************************************************)
(* The licence check refuses a read before anything else. *)
ReadRefused(c) ==
    /\ at[c] = "idle" /\ Kind[c] = "read"
    /\ Ends(c, "ended")
    /\ UNCHANGED <<disk, temp, todo, slot, gate, handle, behind, damage, faults>>

(* A look that is not made counts as one that found nothing. *)
ReadFinds(c) ==
    /\ at[c] = "idle" /\ Kind[c] = "read"
    /\ Made(c) /\ Installed(Want[c])
    /\ Goes(c, "open")
    /\ UNCHANGED <<disk, temp, todo, slot, gate, handle, behind, damage>>

ReadMisses(c) ==
    /\ at[c] = "idle" /\ Kind[c] = "read"
    /\ NotMade(c) \/ (Made(c) /\ ~Installed(Want[c]))
    /\ Goes(c, "gate")
    /\ UNCHANGED <<disk, temp, todo, slot, gate, handle, behind, damage>>

Prefetch(c) ==
    /\ at[c] = "idle" /\ Kind[c] = "prefetch"
    /\ Goes(c, "gate")
    /\ UNCHANGED <<disk, temp, todo, slot, gate, handle, behind, damage, faults>>

(* A mutant: the gate is let go of at once. *)
TakeGateBriefly(c) ==
    /\ at[c] = "gate"
    /\ gate[Art[c]] = None
    /\ Goes(c, "admit")
    /\ UNCHANGED <<disk, temp, todo, slot, gate, handle, behind, damage, faults>>
TakeGate(c) ==
    /\ at[c] = "gate"
    /\ gate[Art[c]] = None
    /\ gate' = [gate EXCEPT ![Art[c]] = c]
    /\ Goes(c, "admit")
    /\ UNCHANGED <<disk, temp, todo, slot, handle, behind, damage, faults>>

(***************************************************************************)
(* admit and the zoo's fetch, the same for all three.                      *)
(***************************************************************************)
(* The licence and disk checks are passed, and fetch_with's licence check; *)
(* an install's first message is sent on the way.                          *)
Admit(c) ==
    /\ at[c] = "admit"
    /\ IF c \in Installs THEN Tells(c, "look") ELSE Goes(c, "look")
    /\ todo' = [todo EXCEPT ![c] = FilesOf[Art[c]]]
    /\ UNCHANGED <<disk, temp, slot, gate, handle, behind, damage, faults>>

(* The next file verifies as it is in the cache.  A look that is denied is  *)
(* made again, and fails when that goes on.                                 *)
Cached(c) ==
    /\ at[c] = "look" /\ todo[c] # <<>>
    /\ ~Denied(c, Head(todo[c]))
    /\ disk[Head(todo[c])] = "good"
    /\ todo' = [todo EXCEPT ![c] = Tail(@)]
    /\ UNCHANGED <<disk, temp, at, slot, gate, handle, queued, gone, behind, damage, faults>>

(* It does not, and is asked for; an install says so first. *)
Missing(c) ==
    /\ at[c] = "look" /\ todo[c] # <<>>
    /\ ~Denied(c, Head(todo[c]))
    /\ disk[Head(todo[c])] # "good"
    /\ IF c \in Installs THEN Tells(c, "get") ELSE Goes(c, "get")
    /\ UNCHANGED <<disk, temp, todo, slot, gate, handle, behind, damage, faults>>

(* The transport answers with bytes, good or not; an install says so. *)
Get(c) ==
    /\ at[c] = "get"
    /\ \E bytes \in {"good", "rot"} : temp' = [temp EXCEPT ![c] = bytes]
    /\ IF c \in Installs THEN Tells(c, "verify") ELSE Goes(c, "verify")
    /\ UNCHANGED <<disk, todo, slot, gate, handle, behind, damage, faults>>

(* Only bytes that verify are written: mutants write any, or open the file *)
(* under its own name.                                                     *)
VerifyNothing(c) ==
    /\ at[c] = "verify"
    /\ Goes(c, "write")
    /\ UNCHANGED <<disk, temp, todo, slot, gate, handle, behind, damage, faults>>
VerifyInPlace(c) ==
    /\ at[c] = "verify" /\ temp[c] = "good"
    /\ disk' = [disk EXCEPT ![Head(todo[c])] = "cut"]
    /\ Goes(c, "write")
    /\ UNCHANGED <<temp, todo, slot, gate, handle, behind, damage, faults>>
Verify(c) ==
    /\ at[c] = "verify" /\ temp[c] = "good"
    /\ Goes(c, "write")
    /\ UNCHANGED <<disk, temp, todo, slot, gate, handle, behind, damage, faults>>

(* They go to a temporary file that no other call opens, which is renamed *)
(* over the name, again while that is denied.                             *)
BeginRename(c) ==
    /\ at[c] = "write"
    /\ ~Denied(c, Head(todo[c]))
    /\ Goes(c, "rename")
    /\ UNCHANGED <<disk, temp, todo, slot, gate, handle, behind, damage, faults>>

Rename(c) ==
    LET f == Head(todo[c]) IN
    /\ at[c] = "rename"
    /\ disk' = [disk EXCEPT ![f] = temp[c]]
    /\ behind' = IF c \in Installs THEN behind \cup {f} ELSE behind \ {f}
    /\ temp' = [temp EXCEPT ![c] = None]
    /\ todo' = [todo EXCEPT ![c] = Tail(@)]
    /\ Goes(c, "look")
    /\ UNCHANGED <<slot, gate, handle, damage, faults>>

(* admit refuses, the transport fails, the bytes do not verify, a file      *)
(* cannot be written.  A temporary file is removed.  A call behind a gate   *)
(* is over, and so is an install that was not admitted; one that was still  *)
(* has its error to send.                                                   *)
Fails(c) ==
    /\ \/ at[c] \in {"admit", "get", "write", "rename"}
       \/ at[c] = "look" /\ todo[c] # <<>>
       \/ at[c] = "verify" /\ temp[c] # "good"
    /\ temp' = [temp EXCEPT ![c] = None]
    /\ todo' = [todo EXCEPT ![c] = <<>>]
    /\ UNCHANGED <<disk, handle, behind, damage, faults>>
GateFailsHolding(c) == c \in Gated /\ Fails(c) /\ Ends(c, "ended") /\ UNCHANGED <<slot, gate>>
GatedFails(c) == c \in Gated /\ Fails(c) /\ Ends(c, "ended") /\ GivesGate(c) /\ slot' = slot
NotAdmitted(c) ==
    c \in Installs /\ at[c] = "admit" /\ Fails(c) /\ Ends(c, "ended") /\ slot' = FALSE /\ gate' = gate
InstallFails(c) ==
    c \in Installs /\ at[c] # "admit" /\ Fails(c) /\ Goes(c, "error") /\ UNCHANGED <<slot, gate>>

(* Every file is in place.  A gate is given back as the fetch returns; an *)
(* install first sends its last messages.                                 *)
GatedFetched(c) ==
    /\ c \in Gated /\ at[c] = "look" /\ todo[c] = <<>>
    /\ IF Kind[c] = "read" THEN Goes(c, "again") ELSE Ends(c, "ended")
    /\ GivesGate(c)
    /\ UNCHANGED <<disk, temp, todo, slot, handle, behind, damage, faults>>

InstallFetched(c) ==
    /\ c \in Installs /\ at[c] = "look" /\ todo[c] = <<>>
    /\ Tells(c, "installed")
    /\ UNCHANGED <<disk, temp, todo, slot, gate, handle, behind, damage, faults>>

(* The outcome is sent, and then the slot given back. *)
InstallEnds(c) ==
    /\ at[c] \in {"installed", "error"}
    /\ Heard(c)
    /\ Ends(c, "ended")
    /\ slot' = FALSE
    /\ UNCHANGED <<disk, temp, todo, gate, handle, behind, damage, faults>>

(***************************************************************************)
(* The file is opened and streamed.                                        *)
(***************************************************************************)
LooksAgain(c) ==
    /\ at[c] = "again"
    /\ \/ Made(c) /\ Installed(Want[c]) /\ Goes(c, "open")
       \/ Made(c) /\ ~Installed(Want[c]) /\ Ends(c, "missing")
       \/ NotMade(c) /\ Ends(c, "missing")
    /\ UNCHANGED <<disk, temp, todo, slot, gate, handle, behind, damage>>

(* The open file is the one under the name now, whatever is renamed over *)
(* it later.  No open is tried again.                                    *)
Open(c) ==
    /\ at[c] = "open"
    /\ \/ /\ Made(c) /\ disk[Want[c]] # None
          /\ Goes(c, "stream")
          /\ handle' = [handle EXCEPT ![c] = disk[Want[c]]]
       \/ /\ NotMade(c) \/ (Made(c) /\ disk[Want[c]] = None)
          /\ Ends(c, "io")
          /\ handle' = handle
    /\ UNCHANGED <<disk, temp, todo, slot, gate, behind, damage>>

(* The bytes are read and sent; a client that has gone ends it. *)
SendChunk(c) ==
    /\ at[c] = "stream"
    /\ IF c \in gone THEN Ends(c, "ended") /\ handle' = [handle EXCEPT ![c] = None]
       ELSE Tells(c, "hash") /\ handle' = handle
    /\ UNCHANGED <<disk, temp, todo, slot, gate, behind, damage, faults>>

(* The bytes sent are the index's, or the stream ends with DATA_LOSS or  *)
(* the error of reading the file, once there is room for it.             *)
EndStream(c) ==
    /\ at[c] = "hash"
    /\ \/ handle[c] = "good" /\ Ends(c, "ended")
       \/ handle[c] # "good" /\ Heard(c) /\ Ends(c, "loss")
       \/ Heard(c) /\ Ends(c, "ended")
    /\ handle' = [handle EXCEPT ![c] = None]
    /\ UNCHANGED <<disk, temp, todo, slot, gate, behind, damage, faults>>

(***************************************************************************)
(* Clients, and other programs.                                            *)
(***************************************************************************)
ClientReads(c) ==
    /\ c \notin gone /\ queued[c] > 0
    /\ queued' = [queued EXCEPT ![c] = @ - 1]
    /\ UNCHANGED <<disk, temp, at, todo, slot, gate, handle, gone, behind, damage, faults>>

(* A client may go at any time.  The blocking task of its call goes on;    *)
(* only an install that is not admitted yet gives back its slot with the   *)
(* call (install.rs start), whatever the check it waited for will say.  A  *)
(* mutant keeps the slot with the call, and not with its task.             *)
ClientOf(c) == Kind[c] # "prefetch" /\ at[c] \notin Ended \cup {"idle"} /\ c \notin gone
LeaveDropsSlot(c) ==
    /\ ClientOf(c) /\ ~(at[c] = "admit" /\ c \in Installs)
    /\ gone' = gone \cup {c}
    /\ slot' = IF c \in Installs THEN FALSE ELSE slot
    /\ UNCHANGED <<disk, temp, at, todo, gate, handle, queued, behind, damage, faults>>
Leave(c) ==
    /\ ClientOf(c) /\ ~(at[c] = "admit" /\ c \in Installs)
    /\ gone' = gone \cup {c}
    /\ UNCHANGED <<disk, temp, at, todo, slot, gate, handle, queued, behind, damage, faults>>
LeaveEarly(c) ==
    /\ ClientOf(c) /\ at[c] = "admit" /\ c \in Installs
    /\ Ends(c, "ended")
    /\ slot' = FALSE
    /\ UNCHANGED <<disk, temp, todo, gate, handle, behind, damage, faults>>

Damage(f) ==
    /\ damage < MaxDamage
    /\ disk[f] # None
    /\ \E bytes \in {None, "cut", "rot"} \ {disk[f]} : disk' = [disk EXCEPT ![f] = bytes]
    /\ damage' = damage + 1
    /\ UNCHANGED <<temp, at, todo, slot, gate, handle, queued, gone, behind, faults>>

(* What the server does for a call without its client. *)
Server(c) ==
    \/ TakeSlot(c) \/ Busy(c)
    \/ ReadRefused(c) \/ ReadFinds(c) \/ ReadMisses(c) \/ Prefetch(c) \/ TakeGate(c)
    \/ Admit(c) \/ Cached(c) \/ Missing(c) \/ Get(c) \/ Verify(c)
    \/ BeginRename(c) \/ Rename(c)
    \/ GatedFails(c) \/ NotAdmitted(c) \/ InstallFails(c)
    \/ GatedFetched(c) \/ InstallFetched(c) \/ InstallEnds(c)
    \/ LooksAgain(c) \/ Open(c) \/ SendChunk(c) \/ EndStream(c)

Client(c) == ClientReads(c) \/ Leave(c) \/ LeaveEarly(c)
Next == (\E c \in Call : Server(c) \/ Client(c)) \/ (\E f \in File : Damage(f))

(* A blocking task runs on, whatever the others do; the mutex of a gate is  *)
(* given to one of the few that wait; and a client reads or goes away.      *)
Fairness == \A c \in Call : WF_vars(Server(c)) /\ WF_vars(Client(c))
Spec == Init /\ [][Next]_vars /\ Fairness
-----------------------------------------------------------------------------
Places == Ended \cup {"idle", "gate", "admit", "look", "get", "verify", "write", "rename", "installed", "error",
                      "again", "open", "stream", "hash"}
TypeOK ==
    /\ disk \in [File -> Contents]
    /\ temp \in [Call -> Contents]
    /\ at \in [Call -> Places]
    /\ todo \in [Call -> Seq(File)]
    /\ slot \in BOOLEAN
    /\ gate \in [Artifact -> Call \cup {None}]
    /\ handle \in [Call -> Contents]
    /\ queued \in [Call -> 0 .. Room]
    /\ gone \in SUBSET Call
    /\ behind \in SUBSET File
    /\ damage \in 0 .. MaxDamage
    /\ faults \in 0 .. MaxFaults

(* fetch.rs:139, "a file that fails its check is never left in the cache    *)
(* under its name": whoever writes a file, and whatever the transport gives *)
(* it, only other programs put bytes there that do not verify; and a read   *)
(* says DATA_LOSS only of those (read.rs:8-10).                             *)
FilesVerify ==
    damage = 0 => /\ \A f \in File : disk[f] \in {None, "good"}
                  /\ \A c \in Call : at[c] # "loss"

(* A read whose file is there, because it found it or its own fetch         *)
(* succeeded, is refused it (as not installed, or with an I/O error) only   *)
(* when another program has touched the cache, the system fails that very   *)
(* stat or open, or, on Windows, that very moment another call is replacing *)
(* the file (fetch.rs:324-327; read.rs:134 and 147-148 try once).  That     *)
(* takes an install beside the read: calls behind the gate do not do it to  *)
(* each other.                                                              *)
Refused(c) == at[c] \in {"missing", "io"}
Installing(f) == f \in behind \/ \E d \in Installs : Replacing(d, f)
FetchedIsFound ==
    [][\A c \in Call : Refused(c)' /\ ~Refused(c) =>
          \/ damage > 0 \/ faults' # faults
          \/ Denied(c, Want[c]) /\ Installing(Want[c])]_vars

(* docs/grpc-catalog.md:162, "One install runs at a time", also when the    *)
(* client of the one that runs has gone away; and the slot is taken only    *)
(* while one runs, so that no end of an install locks the others out.       *)
Running(c) == c \in Installs /\ at[c] \notin Ended \cup {"idle"}
OneInstall ==
    /\ \A c, d \in Call : Running(c) /\ Running(d) => c = d
    /\ slot <=> \E c \in Call : Running(c)

(* through.rs:5-7: of the calls that go through an artifact's gate, one      *)
(* fetches at a time, and fetches no file that is there; only an install,    *)
(* which takes no gate, may put a file in place behind its back.             *)
GateSharesAFetch ==
    \A c \in Gated : at[c] \in {"get", "verify", "write", "rename"} =>
        LET f == Head(todo[c]) IN disk[f] = "good" => f \in behind

(* Every call that begins ends (each is made at most once, so in the end    *)
(* none runs): none waits for ever for a gate, a slot or room in the        *)
(* channel to its client.                                                   *)
CallsEnd == <>[](\A c \in Call : at[c] \in Ended \cup {"idle"})
=============================================================================
