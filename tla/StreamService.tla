--------------------------- MODULE StreamService ---------------------------
(***************************************************************************)
(* What an AnalyzeStream call promises its client, whatever its windows,   *)
(* batches, sessions and queues: every document is answered at most once,  *)
(* with its own result, in the order the header asked for, and a call that *)
(* ends without an error before its deadline has answered every document   *)
(* of a client that half-closed or broke off. AnalyzeStream implements it. *)
(***************************************************************************)
EXTENDS Naturals, Sequences

CONSTANTS Streams, Kinds, Orders

VARIABLES
    ordered, \* the streams to be answered in input order
    conn,    \* what the client did to the call
    expired, \* its deadline has passed
    docs,    \* the documents the server has read
    out,     \* the answers, in the order they were sent
    how      \* how the call ended

vars == <<ordered, conn, expired, docs, out, how>>

Init ==
    /\ ordered \in Orders
    /\ conn = [s \in Streams |-> "open"]
    /\ expired = [s \in Streams |-> FALSE]
    /\ docs = [s \in Streams |-> <<>>]
    /\ out = [s \in Streams |-> <<>>]
    /\ how = [s \in Streams |-> "open"]

\* The client half-closes, breaks its requests or goes away.
Client(s) ==
    /\ \E c \in {"closed", "broken", "gone"} : conn' = [conn EXCEPT ![s] = c]
    /\ UNCHANGED <<ordered, expired, docs, out, how>>

Expires(s) ==
    /\ expired' = [expired EXCEPT ![s] = TRUE]
    /\ UNCHANGED <<ordered, conn, docs, out, how>>

Accept(s) ==
    /\ \E k \in Kinds[s] : docs' = [docs EXCEPT ![s] = Append(@, k)]
    /\ UNCHANGED <<ordered, conn, expired, out, how>>

Answered(s) == {out[s][i].doc : i \in DOMAIN out[s]}

Answer(s) ==
    /\ how[s] = "open"
    /\ \E d \in DOMAIN docs[s] \ Answered(s) :
        /\ s \in ordered => d = Len(out[s]) + 1
        /\ out' = [out EXCEPT ![s] = Append(@, [doc |-> d, ok |-> docs[s][d].fate = "ok"])]
    /\ UNCHANGED <<ordered, conn, expired, docs, how>>

\* The end of the answers: an error, or nothing left unanswered, unless
\* nobody is there to see it or the deadline has passed.
End(s) ==
    /\ how[s] = "open"
    /\ \E h \in {"clean", "deadline", "abort"} :
        /\ h = "deadline" => expired[s]
        /\ h = "clean" =>
               \/ conn[s] = "gone"
               \/ expired[s]
               \/ conn[s] # "open" /\ Answered(s) = DOMAIN docs[s]
        /\ how' = [how EXCEPT ![s] = h]
    /\ UNCHANGED <<ordered, conn, expired, docs, out>>

Next == \E s \in Streams : Client(s) \/ Expires(s) \/ Accept(s) \/ Answer(s) \/ End(s)

Spec == Init /\ [][Next]_vars
=============================================================================
