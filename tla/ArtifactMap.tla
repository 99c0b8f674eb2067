---------------------------- MODULE ArtifactMap ----------------------------
(* What the vocabulary store promises its callers: a map from artifact ids to *)
(* descriptors, whose calls take effect one at a time, and which a restart    *)
(* keeps.  One blemish of server/src/vocabulary/store.rs is part of it: a     *)
(* deletion that fails may leave its artifact fading, still answered for but  *)
(* perhaps without bytes, and gone after the next restart.                    *)
CONSTANTS Id, Name, Proc, None

VARIABLES
    held,   \* [Id -> Name \cup {None}]: the descriptors there are
    fading, \* the ids a deletion has begun to take away
    call    \* [Proc -> what its last call asked and was answered]
vars == <<held, fading, call>>

Ops == {"put", "delete", "read"}
NoCall == [op |-> None, id |-> None, name |-> None, seen |-> None, answer |-> None]

Pending(p, op) == call[p].op = op /\ call[p].answer = None
Answer(p, a) == call' = [call EXCEPT ![p].answer = a]

Init ==
    /\ held = [id \in Id |-> None]
    /\ fading = {}
    /\ call = [p \in Proc |-> NoCall]

Ask(p, op, id, name) ==
    /\ call[p] = NoCall \/ call[p].answer # None
    /\ call' = [call EXCEPT ![p] = [NoCall EXCEPT !.op = op, !.id = id, !.name = name]]
    /\ UNCHANGED <<held, fading>>

(* A put adds what is missing and answers with what is then there. *)
Put(p) ==
    LET id == call[p].id
        name == IF held[id] = None THEN call[p].name ELSE held[id]
    IN  /\ Pending(p, "put")
        /\ held' = [held EXCEPT ![id] = name]
        /\ Answer(p, name)
        /\ UNCHANGED fading

(* A delete may fade its artifact a while before it is gone, or fail there. *)
Fade(p) ==
    /\ Pending(p, "delete")
    /\ held[call[p].id] # None
    /\ fading' = fading \cup {call[p].id}
    /\ UNCHANGED <<held, call>>

Delete(p) ==
    LET id == call[p].id IN
    /\ Pending(p, "delete")
    /\ held' = [held EXCEPT ![id] = None]
    /\ fading' = fading \ {id}
    /\ Answer(p, IF held[id] = None THEN "none" ELSE "deleted")

(* A read answers with the descriptor it saw, and whole bytes; or that there *)
(* is none, when there is none at the time or the artifact is fading.        *)
See(p) ==
    /\ Pending(p, "read")
    /\ call[p].seen = None
    /\ held[call[p].id] # None
    /\ call' = [call EXCEPT ![p].seen = held[call[p].id]]
    /\ UNCHANGED <<held, fading>>

Found(p) ==
    /\ Pending(p, "read")
    /\ call[p].seen # None
    /\ Answer(p, call[p].seen)
    /\ UNCHANGED <<held, fading>>

NotFound(p) ==
    /\ Pending(p, "read")
    /\ held[call[p].id] = None \/ call[p].id \in fading
    /\ Answer(p, "none")
    /\ UNCHANGED <<held, fading>>

Fail(p) ==
    /\ call[p].op # None /\ call[p].answer = None
    /\ Answer(p, "error")
    /\ UNCHANGED <<held, fading>>

(* A stop loses what was fading, and may keep what a put had not yet *)
(* answered for; whoever waits for an answer gets an error.          *)
Restart ==
    /\ held' \in [Id -> Name \cup {None}]
    /\ \A id \in Id :
          \/ held'[id] = IF id \in fading THEN None ELSE held[id]
          \/ held[id] = None /\ \E p \in Proc : Pending(p, "put") /\ call[p].id = id /\ held'[id] = call[p].name
    /\ fading' = {}
    /\ call' = [p \in Proc |-> IF call[p].op # None /\ call[p].answer = None
                               THEN [call[p] EXCEPT !.answer = "error"] ELSE call[p]]

Next ==
    \/ \E p \in Proc : \/ \E op \in Ops, id \in Id, name \in Name : Ask(p, op, id, name)
                       \/ Put(p) \/ Fade(p) \/ Delete(p) \/ See(p) \/ Found(p) \/ NotFound(p) \/ Fail(p)
    \/ Restart

Spec == Init /\ [][Next]_vars
=============================================================================
