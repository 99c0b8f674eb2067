--------------------------- MODULE MCProgressive ---------------------------
(* Instances of Progressive for TLC. *)
EXTENDS Progressive

CONSTANTS d1, d2

Graph(reads, requires, views, fails) ==
    [reads |-> reads, requires |-> requires, views |-> views,
     fails |-> [i \in DOMAIN reads |-> IF i \in DOMAIN fails THEN fails[i] ELSE {}]]

Both == {d1, d2}

(* Step 3 needs both 1 and 2, and 4 needs 3: a failure of either leaves 3  *)
(* and 4 waiting for the other, which may fail too, or on one document.    *)
Waiting ==
    {Graph(<<{}, {}, {1, 2}, {3}>>, <<{}, {}, {1, 2}, {3}>>, {}, <<a, b>>) :
       a \in {{}, {d1}, Both}, b \in {{}, {d2}, Both}}

(* Step 1 can use what 2 makes of its own output, as TimeAnnotator and     *)
(* TimesDocumentDateSelector do; 3 uses both.                              *)
Looping ==
    {Graph(<<{2}, {1}, {1, 2}, {}>>, <<{}, {1}, {1}, {}>>, {}, <<a, b>>) :
       a \in {{}, Both}, b \in {{}, {d1}}}

(* Steps 2 and 4 write views, and 4 is ready while 3 computes.             *)
Viewing ==
    {Graph(<<{}, {}, {1}, {1}, {2, 4}>>, <<{}, {}, {}, {1}, {2}>>, {2, 4}, <<a, b>>) :
       a \in {{}, Both}, b \in {{}, Both}}

MCJobs == Waiting \cup Looping \cup Viewing

(* Two optional cycles, one in the other: 1 can use 2, which can use 3,    *)
(* which reads both.                                                       *)
MCNested == {Graph(<<{2}, {3}, {1, 2}>>, <<{}, {}, {1, 2}>>, {}, <<>>)}

ASSUME OnlyTheNestedLoopsDoNotWait ==
    /\ \A g \in MCJobs : LoopsWait(g)
    /\ \A g \in MCNested : ~LoopsWait(g)
=============================================================================
