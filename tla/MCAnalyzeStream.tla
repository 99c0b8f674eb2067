-------------------------- MODULE MCAnalyzeStream --------------------------
(* AnalyzeStream on small instances. *)
EXTENDS AnalyzeStream

CONSTANTS a, b, big, s1

\* Two batching keys of one load, which has one session.
MCKeys == {a, b}
MCLoadOf == [k \in MCKeys |-> big]
MCOneSession == [l \in {big} |-> 1]
\* A key whose documents succeed, and one whose documents fail their batch.
MCKinds == [s \in {s1} |-> {[key |-> a, fate |-> "ok"], [key |-> b, fate |-> "poison"]}]
MCFour == [s \in {s1} |-> 4]
\* Documents of one key: one that succeeds, one that fails its batch, one refused.
MCOneOfEach == [s \in {s1} |-> {[key |-> a, fate |-> f] : f \in Fates}]
\* Answers in either order, or in input order.
MCEither == {{}, {s1}}
MCAllInput == {{s1}}
\* Documents that succeed or fail their batch.
MCFailing == [s \in {s1} |-> {[key |-> a, fate |-> "ok"], [key |-> a, fate |-> "poison"]}]
MCTwo == [s \in {s1} |-> 2]
=============================================================================
