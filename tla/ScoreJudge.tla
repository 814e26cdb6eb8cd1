----------------------------- MODULE ScoreJudge -----------------------------
(***************************************************************************)
(* The judgement Foghorn publishes about one indexer over one window: its  *)
(* sub-scores, the composite and its penalties, whether it is rated, the   *)
(* verdicts that name it and the items that need attention.                *)
(*                                                                         *)
(* Everything is a function of one record of evidence.  Scores are in      *)
(* hundredths of a point and every division rounds down, where the code    *)
(* has doubles; rounding down keeps the order of two scores.  Rates and    *)
(* penalties of the configuration are in percent, stakes in whole GRT and  *)
(* lags in thousands of blocks.                                            *)
(* Wording, severities and urgencies decide nothing here and are left out. *)
(***************************************************************************)
EXTENDS Integers, Sequences, FiniteSets, FiniteSetsExt

CONSTANT Cfg   \* the thresholds, weights and penalties of ScoringConfig

Full == 10000

SubScore == {"correctness", "availability", "freshness", "coverage"}

ASSUME CfgAssumption ==
    /\ \A s \in SubScore : Cfg.weight[s] \in 1..100
    /\ Cfg.sybilPenalty \in 0..100 /\ Cfg.servingPenalty \in 0..100
    /\ {Cfg.gradeA, Cfg.gradeB, Cfg.gradeC, Cfg.gradeD} \subseteq 0..Full
    /\ {Cfg.badDataRate, Cfg.noDataRate, Cfg.sybilConfidence} \subseteq 0..100
    /\ {Cfg.minDeployments, Cfg.badDataFaults} \subseteq Nat \ {0}
    /\ {Cfg.lowCoverage, Cfg.leechStake, Cfg.leechQueries, Cfg.behindLag,
        Cfg.qosMinQueries, Cfg.brokenRef} \subseteq Int

\* An optional value: a column that may be NULL, a sub-score without a signal.
None == <<>>
Some(x) == <<x>>
Options(S) == {None} \cup {Some(x) : x \in S}

AtLeast(o, n) == o # None /\ o[1] >= n
AtMost(o, n) == o # None /\ o[1] <= n

Least(a, b) == IF a <= b THEN a ELSE b
Most(a, b) == IF a >= b THEN a ELSE b

\* What a out of b is worth, and what remains of the full score without it.
Share(a, b) == Least(Full, (a * Full) \div b)
Without(a, b) == Full - Share(a, b)

Tally(n, f, e, t) == [answered |-> n, faults |-> f, errors |-> e, total |-> t]
NoTally == Tally(0, 0, 0, 0)

-----------------------------------------------------------------------------
(* The sub-scores.                                                         *)

Correctness(i) ==
    IF i.seen.answered <= 0 THEN None
    ELSE Some(Without(i.seen.faults, i.seen.answered))

\* The share of the deployments measured often enough that serve errors.
BrokenShare(i) ==
    IF i.measured < Cfg.minDeployments THEN None
    ELSE Some(Share(i.erroring, i.measured))

\* Variation: the number counts in full.
BrokenSeverityUncapped(i) ==
    IF BrokenShare(i) = None THEN 0
    ELSE Most(BrokenShare(i)[1], Share(i.erroring, Most(Cfg.brokenRef, 1)))

\* The share, or half of how close the number of them comes to the reference.
BrokenSeverity(i) ==
    IF BrokenShare(i) = None THEN 0
    ELSE Most(BrokenShare(i)[1], Share(i.erroring, Most(Cfg.brokenRef, 1)) \div 2)

\* The mean of two scores, or the one that exists.
MeanOf(a, b) ==
    IF a = None THEN b
    ELSE IF b = None THEN a
    ELSE Some((a[1] + b[1]) \div 2)

AnswerShare(i) == IF i.seen.total > 0 THEN Some(Without(i.seen.errors, i.seen.total)) ELSE None

ServedShare(i) == IF BrokenShare(i) = None THEN None ELSE Some(Full - BrokenShare(i)[1])

Availability(i) == MeanOf(AnswerShare(i), ServedShare(i))

\* Variation: a lag off the scale is dropped instead of scoring nothing.
FreshnessCapped(i) ==
    IF i.lag = None \/ AtLeast(i.lag, 4 * Cfg.behindLag) THEN None
    ELSE Some(Without(i.lag[1], 4 * Most(Cfg.behindLag, 1)))

\* Nothing left at four times the lag that counts as behind.
Freshness(i) ==
    IF i.lag = None THEN None
    ELSE Some(Without(Most(i.lag[1], 0), 4 * Most(Cfg.behindLag, 1)))

Coverage(i) ==
    IF i.allocations = None THEN None
    ELSE Some(Share(i.allocations[1], 2 * Most(Cfg.lowCoverage, 1)))

SubScores(i) ==
    [correctness |-> Correctness(i), availability |-> Availability(i),
     freshness |-> Freshness(i), coverage |-> Coverage(i)]

Present(sub) == {s \in SubScore : sub[s] # None}

-----------------------------------------------------------------------------
(* The composite and the grade.                                            *)

Active(i) == i.seen.answered > 0 \/ AtLeast(i.queries, 1) \/ AtLeast(i.allocations, 1)

Measured(i) == Present(SubScores(i)) \ {"coverage"} # {}

Rated(i) == Active(i) /\ Measured(i)

OverAll(f) == f["correctness"] + f["availability"] + f["freshness"] + f["coverage"]

Worth(sub) == [s \in SubScore |-> IF sub[s] = None THEN 0 ELSE Cfg.weight[s] * sub[s][1]]

\* Variation: a missing sub-score keeps its weight.
CountedZeros(sub) == Cfg.weight

Counted(sub) == [s \in SubScore |-> IF sub[s] = None THEN 0 ELSE Cfg.weight[s]]

\* The mean over the sub-scores that exist, under their own weights only.
WeightedMean(sub) ==
    LET total == OverAll(Counted(sub))
    IN  IF total = 0 THEN 0 ELSE OverAll(Worth(sub)) \div total

SwarmMember(i) == AtLeast(i.swarm, Cfg.sybilConfidence)

\* Membership takes a part in proportion to its confidence, broken serving one
\* in proportion to its severity.
Penalised(i, score) ==
    LET kept == IF SwarmMember(i)
                THEN (score * (Full - i.swarm[1] * Cfg.sybilPenalty)) \div Full
                ELSE score
    IN  (kept * (Full - (BrokenSeverity(i) * Cfg.servingPenalty) \div 100)) \div Full

Composite(i) == Penalised(i, WeightedMean(SubScores(i)))

Grade(composite) ==
    IF composite >= Cfg.gradeA THEN "A"
    ELSE IF composite >= Cfg.gradeB THEN "B"
    ELSE IF composite >= Cfg.gradeC THEN "C"
    ELSE IF composite >= Cfg.gradeD THEN "D"
    ELSE "F"

-----------------------------------------------------------------------------
(* What is said of the indexer by name.                                    *)

FaultsReach(i, times) ==
    /\ i.seen.faults >= times * Cfg.badDataFaults
    /\ i.seen.answered > 0
    /\ 100 * i.seen.faults >= times * Cfg.badDataRate * i.seen.answered

ServingBadData(i) == FaultsReach(i, 1)

QosFailing(i) ==
    /\ AtLeast(i.queries, Cfg.qosMinQueries)
    /\ i.success # None /\ i.success[1] < 100 - Cfg.noDataRate

ServingNoData(i) ==
    \/ QosFailing(i)
    \/ i.recent.total >= 3 /\ 100 * i.recent.errors >= Cfg.noDataRate * i.recent.total

Behind(i) == i.lag # None /\ i.lag[1] > Cfg.behindLag

LowCoverage(i) == i.allocations # None /\ i.allocations[1] < Cfg.lowCoverage

Leech(i) == AtLeast(i.stake, Cfg.leechStake) /\ AtMost(i.queries, Cfg.leechQueries)

EligibleButFailing(i, composite) ==
    /\ i.eligible
    /\ composite < Cfg.gradeD \/ ServingBadData(i) \/ ServingNoData(i) \/ Leech(i)

Structural == {"leech", "low-coverage", "sybil-swarm-member"}

VerdictKind == Structural \cup {"serving-bad-data", "dispute-candidate",
    "serving-no-data", "behind-chainhead", "reo-ineligible-candidate"}

Grounds(kind, i, composite) ==
    CASE kind = "serving-bad-data" -> ServingBadData(i)
      [] kind = "dispute-candidate" -> ServingBadData(i) /\ FaultsReach(i, 2)
      [] kind = "serving-no-data" -> ServingNoData(i)
      [] kind = "behind-chainhead" -> Behind(i)
      [] kind = "low-coverage" -> LowCoverage(i)
      [] kind = "leech" -> Leech(i)
      [] kind = "reo-ineligible-candidate" -> EligibleButFailing(i, composite)
      [] kind = "sybil-swarm-member" -> SwarmMember(i)

Verdicts(i, composite) == {kind \in VerdictKind : Grounds(kind, i, composite)}

AttentionKind == {"serving-no-data", "serving-bad-data", "behind-chainhead"}

Attention(i) == {kind \in AttentionKind : Grounds(kind, i, 0)}

\* Not rated: no composite, no attention, and only what rests on facts that
\* need no measurement.
Judge(i) ==
    IF Rated(i)
    THEN [rated |-> TRUE, composite |-> Composite(i), grade |-> Grade(Composite(i)),
          flagged |-> SwarmMember(i),
          verdicts |-> Verdicts(i, Composite(i)), attention |-> Attention(i)]
    ELSE [rated |-> FALSE, composite |-> 0, grade |-> "NR", flagged |-> FALSE,
          verdicts |-> Verdicts(i, 0) \cap Structural, attention |-> {}]
=============================================================================
