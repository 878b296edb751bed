------------------------------- MODULE MCEvaluation -------------------------------
(***************************************************************************)
(* An instance of Evaluation for TLC.                                      *)
(***************************************************************************)
EXTENDS Evaluation, TLC

CONSTANTS p1, p2, p3, n, design, review, pilot, b0, r1

MCPositive == {p1, p2, p3}
MCNegative == {n}
MCVersioned == {p1, p2}
MCReplays == {design, review, pilot}
MCCorpus == {design, review}
MCPilot == {pilot}
MCTarget ==
  (design :> "DESIGN_APPROVED") @@ (review :> "IMPL_APPROVED") @@ (pilot :> "refine")
MCExpect == (design :> "accepted") @@ (review :> "rejected") @@ (pilot :> "rejected")

Threshold(metric, op, part, whole) ==
  [metric |-> metric, op |-> op, value |-> [n |-> part, d |-> whole]]

MCProfile ==
  [minGold |-> 3, minReplay |-> 2, requireBaseline |-> TRUE,
   maxRegressed |-> 0, maxCritical |-> 0,
   retrieval |-> {Threshold("hit_at_1", ">=", 1, 3),
                  Threshold("wrong_version_rate", "<=", 1, 1)},
   workflow |-> {Threshold("design_acceptance_rate", ">=", 1, 2),
                 Threshold("human_intervention_rate", "<=", 1, 1)}]

Answer(rank) == [hits |-> TRUE, rank |-> rank, stray |-> FALSE]
Astray(rank) == [hits |-> TRUE, rank |-> rank, stray |-> TRUE]
Nothing == [hits |-> FALSE, rank |-> 0, stray |-> FALSE]

Of(answers, reviewed) ==
  [gold |-> answers,
   replay |-> (design :> "accepted") @@ (review :> reviewed) @@ (pilot :> "rejected")]

Answers(first, second, negative) == (p1 :> first) @@ (p2 :> second) @@ (n :> negative)

(* One hit and one miss; one more hit, but a server error in a review; a   *)
(* corpus in which another case has taken the place of the second, and     *)
(* makes up for the first; and, of earlier code only, a false positive and *)
(* an answer below one of another version.                                 *)
Usual == Of(Answers(Answer(1), Nothing, Nothing), "rejected")
Broken == Of(Answers(Answer(1), Answer(3), Nothing), "crashed")
Replaced == Of((p1 :> Nothing) @@ (p3 :> Answer(1)) @@ (n :> Nothing), "rejected")
Noisy == Of(Answers(Astray(2), Nothing, Answer(0)), "rejected")

MCBehaviours == {Usual, Broken, Replaced}

StoredAs(results) ==
  [NoReport EXCEPT !.made = {"dir", "run", "details", "replay"}, !.run = results,
                   !.details = results, !.replay = results.replay]

MCIds == {b0, r1}
MCSeeds ==
  {(b0 :> StoredAs(Loaded("eval", results))) @@ (r1 :> NoReport) :
     results \in {Usual, Noisy}}
  \cup {[i \in MCIds |-> NoReport]}

ProcSymmetry == Permutations(Procs)
=============================================================================
