-------------------------------- MODULE EvalGates --------------------------------
(***************************************************************************)
(* What an evaluation run is reduced to and how it is judged: the metrics  *)
(* of metrics.py, the comparison with a baseline of reporting.py, and the  *)
(* thresholds and the decision of gates.py.                                *)
(*                                                                         *)
(* The results of a run are, for the cases it has evaluated, what came of  *)
(* each.  A gold query has hits or none; the first answer that was         *)
(* expected has a rank among them, and the top hit may be of another       *)
(* version than the query asks for.  A replay case attempts one transition *)
(* that is accepted, refused, or ends in a server error; or it refines a   *)
(* packet, which makes objects ("accepted") or none.  Rates are pairs,     *)
(* compared without division: two of small corpora never differ by less    *)
(* than the six digits the code rounds to.                                 *)
(***************************************************************************)
EXTENDS Integers, FiniteSets

CONSTANTS Positive,  \* gold queries with expected answers,
          Negative,  \* and with none
          Versioned, \* those of either that ask for a version
          Replays,   \* replay cases
          Target,    \* of each: the state it attempts to reach, or "refine"
          Expect,    \* of each: "accepted" or "rejected"
          Profile    \* the thresholds

None == "none"

MaxHits == 10

(* `rank' is zero if no hit was expected, `stray' that the top hit is of   *)
(* another version.                                                        *)
GoldOutcomes ==
  {o \in [hits : BOOLEAN, rank : 0..MaxHits, stray : BOOLEAN] :
     o.rank > 0 \/ o.stray => o.hits}
ReplayOutcomes == {"accepted", "rejected", "crashed"}
Targets == {"DESIGN_APPROVED", "IMPL_APPROVED", "VALIDATED", "refine"}

ASSUME CasesAssumption == /\ IsFiniteSet(Positive \cup Negative \cup Replays)
                          /\ Positive \cap Negative = {}
ASSUME ReplaysAssumption == /\ Target \in [Replays -> Targets]
                            /\ Expect \in [Replays -> {"accepted", "rejected"}]
ASSUME ProfileAssumption == Profile.maxRegressed \in Int /\ Profile.minGold \in Int
                            /\ Profile.minReplay \in Int

Golds == Positive \cup Negative

(* Where no answer is expected none has a rank.                            *)
Results ==
  {r \in [gold : UNION {[S -> GoldOutcomes] : S \in SUBSET Golds},
          replay : UNION {[S -> ReplayOutcomes] : S \in SUBSET Replays}] :
     \A c \in Negative \cap DOMAIN r.gold : r.gold[c].rank = 0}

NoCases == [c \in {} |-> None]

-----------------------------------------------------------------------------
(* Metrics.                                                                *)

Share(part, whole) == [n |-> Cardinality(part), d |-> Cardinality(whole)]

(* A rate of nothing is zero.                                              *)
Less(a, b) ==
  IF a.d = 0 THEN b.n > 0 /\ b.d > 0
             ELSE b.d > 0 /\ a.n * b.d < b.n * a.d

Within(results, k) == {c \in DOMAIN results.gold : results.gold[c].rank \in 1..k}
Abstained(results) == {c \in DOMAIN results.gold : ~results.gold[c].hits}
Strays(results) ==
  {c \in DOMAIN results.gold \cap Versioned : results.gold[c].stray}

(* The sum of 1/rank over the cases, times 2520: a case of rank r is       *)
(* within each k from r on, and their weights add up to 2520/r.            *)
ReciprocalRanks(results) ==
  LET within(k) == Cardinality(Within(results, k))
  IN  1260 * within(1) + 420 * within(2) + 210 * within(3) + 126 * within(4)
      + 84 * within(5) + 60 * within(6) + 45 * within(7) + 35 * within(8)
      + 28 * within(9) + 252 * within(10)

Attempts(results, state) ==
  {c \in DOMAIN results.replay : Target[c] = state}
Outcome(results, state, outcomes) ==
  {c \in Attempts(results, state) : results.replay[c] \in outcomes}

RetrievalMetrics(results) ==
  LET total == DOMAIN results.gold
  IN  [cases_total |-> [n |-> Cardinality(total), d |-> 1],
       hit_at_1 |-> Share(Within(results, 1), total),
       hit_at_3 |-> Share(Within(results, 3), total),
       hit_at_5 |-> Share(Within(results, 5), total),
       mrr |-> [n |-> ReciprocalRanks(results), d |-> 2520 * Cardinality(total)],
       wrong_version_rate |-> Share(Strays(results), total \cap Versioned),
       false_positive_rate |->
         Share((total \cap Negative) \ Abstained(results), total \cap Negative),
       abstain_precision |->
         Share(Abstained(results) \cap Negative, Abstained(results))]

(* The rates of interventions and of escaped regressions are zero in       *)
(* run.json: a run is told of no interventions.                            *)
WorkflowMetrics(results) ==
  LET rate(state, outcomes) ==
        Share(Outcome(results, state, outcomes), Attempts(results, state))
  IN  [cases_total |-> [n |-> Cardinality(DOMAIN results.replay), d |-> 1],
       design_acceptance_rate |-> rate("DESIGN_APPROVED", {"accepted"}),
       review_rejection_rate |-> rate("IMPL_APPROVED", {"rejected", "crashed"}),
       validation_failure_rate |-> rate("VALIDATED", {"rejected", "crashed"}),
       writeback_promotion_rate |-> rate("refine", {"accepted"})]

-----------------------------------------------------------------------------
(* compare_runs.                                                           *)

LowerIsBetter == {"wrong_version_rate", "false_positive_rate",
                  "review_rejection_rate", "validation_failure_rate"}

(* Faulty variant: of wrong versions too more is better.                   *)
WorseIfLower(metric, base, cand) ==
  IF metric \in LowerIsBetter \ {"wrong_version_rate"}
    THEN Less(base, cand) ELSE Less(cand, base)

Worse(metric, base, cand) ==
  IF metric \in LowerIsBetter THEN Less(base, cand) ELSE Less(cand, base)

RegressedMetrics(base, cand) ==
  {m \in DOMAIN base : Worse(m, base[m], cand[m])}

Ok(results, c) == results.replay[c] = Expect[c]
Hit(results, c) == results.gold[c].rank \in 1..5

(* Faulty variant: only replay cases are compared one by one.              *)
RegressedReplays(base, cand) ==
  {c \in DOMAIN base.replay \cap DOMAIN cand.replay :
     Ok(base, c) /\ ~Ok(cand, c)}

RegressedCases(base, cand) ==
  {c \in DOMAIN base.replay \cap DOMAIN cand.replay :
     Ok(base, c) /\ ~Ok(cand, c)}
  \cup {c \in DOMAIN base.gold \cap DOMAIN cand.gold \cap Positive :
          Hit(base, c) /\ ~Hit(cand, c)}

Critical(results) ==
  {c \in DOMAIN results.replay : results.replay[c] = "crashed"}

Metrics == {"cases_total", "hit_at_1", "hit_at_3", "hit_at_5", "mrr",
            "wrong_version_rate", "false_positive_rate", "abstain_precision",
            "design_acceptance_rate", "review_rejection_rate",
            "validation_failure_rate", "writeback_promotion_rate"}
Comparisons ==
  [kind : {None, "made", "missing"},
   regressed : SUBSET (Metrics \cup Positive \cup Replays),
   critical : SUBSET Replays, status : {None, "ok", "regression", "no_baseline"}]

NoComparison == [kind |-> None, regressed |-> {}, critical |-> {}, status |-> None]
BaselineMissing == [NoComparison EXCEPT !.kind = "missing",
                                        !.status = "no_baseline"]

(* Of the stored runs and, where there are any, their shadow summaries.  A *)
(* case that only one of the runs has is not compared; the number of cases *)
(* is, under one name for both kinds.                                      *)
Compared(base, cand, baseSummary, candSummary) ==
  LET regressed ==
        RegressedMetrics(RetrievalMetrics(base), RetrievalMetrics(cand))
        \cup RegressedMetrics(WorkflowMetrics(base), WorkflowMetrics(cand))
        \cup RegressedCases(base, cand)
      critical == candSummary \ baseSummary
  IN  [kind |-> "made", regressed |-> regressed, critical |-> critical,
       status |-> IF regressed = {} /\ critical = {} THEN "ok" ELSE "regression"]

-----------------------------------------------------------------------------
(* Thresholds and decision.                                                *)

Attained(op, actual, expected) ==
  CASE op = ">=" -> ~Less(actual, expected)
    [] op = "<=" -> ~Less(expected, actual)
    [] op = "==" -> ~Less(actual, expected) /\ ~Less(expected, actual)

(* A metric there is not counts as zero.                                   *)
Failed(metrics, thresholds) ==
  LET actual(m) == IF m \in DOMAIN metrics THEN metrics[m] ELSE [n |-> 0, d |-> 1]
  IN  {t.metric : t \in {u \in thresholds :
                           ~Attained(u.op, actual(u.metric), u.value)}}

EvalFailures(results) ==
  {k \in {"gold", "replay"} :
     IF k = "gold" THEN Cardinality(DOMAIN results.gold) < Profile.minGold
                   ELSE Cardinality(DOMAIN results.replay) < Profile.minReplay}
  \cup Failed(RetrievalMetrics(results), Profile.retrieval)
  \cup Failed(WorkflowMetrics(results), Profile.workflow)

ComparisonFailures(c) ==
  IF c.kind = "made"
    THEN {k \in {"regressed", "critical"} :
            Cardinality(c[k]) > (IF k = "regressed" THEN Profile.maxRegressed
                                                    ELSE Profile.maxCritical)}
    ELSE IF Profile.requireBaseline /\ c.kind = "missing" THEN {"baseline"} ELSE {}

ReplayOk(results) == \A c \in DOMAIN results.replay : Ok(results, c)

Overall(results, drift, c) ==
  IF Profile.requireBaseline /\ c.kind # "made"
    THEN "blocked"
    ELSE IF drift \/ ~ReplayOk(results)
            \/ EvalFailures(results) \cup ComparisonFailures(c) # {}
      THEN "failed" ELSE "ok"
=============================================================================
