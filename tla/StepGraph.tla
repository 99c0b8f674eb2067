----------------------------- MODULE StepGraph -----------------------------
(***************************************************************************)
(* The graph of analysis steps and the run that defines its result:        *)
(* analysis/core/src/analyzer.rs and analysis/core/src/annotate.           *)
(*                                                                         *)
(* A graph g gives each step 1..n the steps whose layers it reads, those   *)
(* among them it requires, which steps write a view, and the documents     *)
(* each step's annotator fails on. A step writes one layer, named by the   *)
(* step; an input that no step writes is always there or never, and is     *)
(* left out. A document is a function from the layers it holds to their    *)
(* entries. What an annotator returns is a function of the inputs it is    *)
(* handed, so an entry keeps which inputs those were (`seen') in the place *)
(* of its value, beside the inputs its provenance names (`reads') and the  *)
(* id of its view.                                                         *)
(***************************************************************************)
EXTENDS Integers, FiniteSets, SequencesExt

Steps(g) == DOMAIN g.reads
Optional(g, i) == g.reads[i] \ g.requires[i]

(* validate_and_schedule: a stage is every step whose inputs are done; if  *)
(* there is none, the first step that lacks optional inputs only and lies  *)
(* on a cycle through one of them.                                         *)
OnOptionalCycle(g, done, c) ==
    LET open == Steps(g) \ done
        reached[k \in 0..Cardinality(open)] ==
            IF k = 0 THEN Optional(g, c) \cap open
                     ELSE reached[k - 1] \cup UNION {g.reads[s] \cap open : s \in reached[k - 1]}
    IN  c \in reached[Cardinality(open)]

Stage(g, done) ==
    LET open  == Steps(g) \ done
        ready == {i \in open : g.reads[i] \subseteq done}
        loose == {i \in open : g.requires[i] \subseteq done /\ OnOptionalCycle(g, done, i)}
    IN  IF ready # {} \/ loose = {} THEN ready ELSE {Min(loose)}

(* The steps of the first k stages.                                        *)
Scheduled(g) ==
    LET done[k \in 0..Cardinality(Steps(g))] ==
            IF k = 0 THEN {} ELSE done[k - 1] \cup Stage(g, done[k - 1])
    IN  done

(* build refuses a graph it cannot order.                                  *)
Valid(g) == Scheduled(g)[Cardinality(Steps(g))] = Steps(g)

StageOf(g) ==
    LET done == Scheduled(g)
    IN  [i \in Steps(g) |-> Min({k \in DOMAIN done : i \in done[k]})]

(* A stage's steps run in the order they were added.                       *)
TopoSteps(g) ==
    LET at == StageOf(g)
        before(i) == {j \in Steps(g) : at[j] < at[i] \/ (at[j] = at[i] /\ j < i)}
    IN  [k \in 1..Cardinality(Steps(g)) |->
            CHOOSE i \in Steps(g) : Cardinality(before(i)) = k - 1]

----------------------------------------------------------------------------
(* What a step makes of a document, and what storing it adds to one. The   *)
(* provenance is taken when the outputs are stored.                        *)

Compute(g, i, d, doc) ==
    LET here == {p \in g.reads[i] \cap DOMAIN doc : doc[p].status = "complete"}
    IN  IF \E p \in g.requires[i] \cap DOMAIN doc : doc[p].status # "complete"
          THEN [status |-> "skipped", seen |-> {}]
        ELSE IF ~(g.requires[i] \subseteq here) \/ d \in g.fails[i]
          THEN [status |-> "failed", seen |-> {}]
        ELSE [status |-> "complete", seen |-> here]

Store(g, i, out, doc) ==
    LET views == {p \in DOMAIN doc \cap g.views : doc[p].status = "complete"}
        entry == [status |-> out.status,
                  seen   |-> out.seen,
                  reads  |-> {p \in g.reads[i] : p \in g.requires[i]
                                 \/ (p \in DOMAIN doc /\ doc[p].status = "complete")},
                  view   |-> IF i \in g.views /\ out.status = "complete"
                               THEN Cardinality(views) + 1 ELSE 0]
    IN  [p \in DOMAIN doc \cup {i} |-> IF p = i THEN entry ELSE doc[p]]

NoLayers == [i \in {} |-> {}]

(* Analyzer::run: stage after stage, each computed on the documents as the *)
(* stage found them and stored in order. A layer read from a later stage   *)
(* is not there yet, so there is nothing for the run to take off the       *)
(* documents meanwhile.                                                    *)
Run(g, d) ==
    LET at    == StageOf(g)
        order == TopoSteps(g)
        found(i, held) == [p \in {p \in DOMAIN held : at[p] < at[i]} |-> held[p]]
        stored(i, held) == Store(g, i, Compute(g, i, d, found(i, held)), held)
        doc[k \in 0..Cardinality(Steps(g))] ==
            IF k = 0 THEN NoLayers ELSE stored(order[k], doc[k - 1])
    IN  doc[Cardinality(Steps(g))]
=============================================================================
