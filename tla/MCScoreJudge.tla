---------------------------- MODULE MCScoreJudge ----------------------------
(***************************************************************************)
(* The judgement over bounded evidence.  The configuration is the default  *)
(* one.  From an indexer without a fault, evidence worsens one measurement *)
(* at a time, so that the states are every input of the bounded set and    *)
(* the steps are the pairs of inputs that differ by one harm.              *)
(***************************************************************************)
EXTENDS ScoreJudge, TLC

VARIABLE i

MCCfg ==
    [weight |-> [correctness |-> 40, availability |-> 30, freshness |-> 20, coverage |-> 10],
     gradeA |-> 9000, gradeB |-> 7500, gradeC |-> 6000, gradeD |-> 4000,
     lowCoverage |-> 20, leechStake |-> 1000000, leechQueries |-> 100,
     badDataFaults |-> 3, badDataRate |-> 10, noDataRate |-> 50,
     behindLag |-> 500, qosMinQueries |-> 500,
     sybilConfidence |-> 60, sybilPenalty |-> 60,
     servingPenalty |-> 70, minDeployments |-> 3, brokenRef |-> 20, minProbes |-> 10]

MaxProbes == 5

\* Nothing known of the demand, or a big stake that is queried.
Demand == {[stake |-> None, queries |-> None, success |-> None],
           [stake |-> Some(2000000), queries |-> Some(600), success |-> Some(99)]}

Faultless(n, m, l, a, d, w) ==
    [seen |-> Tally(n, 0, 0, n), recent |-> Tally(Least(n, 3), 0, 0, Least(n, 3)),
     measured |-> m, erroring |-> 0, lag |-> l, allocations |-> a,
     stake |-> d.stake, success |-> d.success, queries |-> d.queries,
     eligible |-> TRUE, swarm |-> w]

Clean ==
    {Faultless(n, m, l, a, d, w) :
        n \in {0, 2, MaxProbes}, m \in {0, 3, 40}, l \in {None, Some(0)},
        a \in {None, Some(40)}, d \in Demand, w \in {None, Some(59)}}

AnswerTurnsFault ==
    /\ i.seen.faults < i.seen.answered
    /\ i' = [i EXCEPT !.seen.faults = @ + 1]

\* A consensus answer of the recent tail, which lies inside the window.
AnswerTurnsError ==
    /\ i.seen.faults < i.seen.answered
    /\ i' = [i EXCEPT !.seen.answered = @ - 1, !.seen.errors = @ + 1,
                      !.recent.errors = Least(@ + 1, i.recent.total)]

DeploymentsBreak ==
    \E n \in IF i.measured > 3 THEN {10} ELSE {1} :
        /\ i.erroring + n <= i.measured
        /\ i' = [i EXCEPT !.erroring = @ + n]

LagGrows ==
    /\ i.lag # None /\ i.lag[1] < 2400
    /\ i' = [i EXCEPT !.lag = Some(@[1] + 1200)]

SuccessDrops == i.success = Some(99) /\ i' = [i EXCEPT !.success = Some(49)]

AllocationsClose == i.allocations = Some(40) /\ i' = [i EXCEPT !.allocations = Some(19)]

SwarmFound == i.swarm = Some(59) /\ i' = [i EXCEPT !.swarm = Some(90)]

Init == i \in Clean

Next == \/ AnswerTurnsFault \/ AnswerTurnsError \/ DeploymentsBreak \/ LagGrows
        \/ SuccessDrops \/ AllocationsClose \/ SwarmFound

Spec == Init /\ [][Next]_i

\* A harm more never helps: with an allocation open it can neither take the
\* rating away, nor raise the composite, nor withdraw a verdict or an item
\* (judge, weights renormalised over the sub-scores that exist).
HarmNeverHelps ==
    [][ LET before == Judge(i) after == Judge(i')
        IN  before.rated /\ AtLeast(i.allocations, 1) =>
              /\ after.rated
              /\ after.composite <= before.composite
              /\ before.verdicts \subseteq after.verdicts
              /\ before.attention \subseteq after.attention ]_i

\* "A zero is a verdict and an absent measurement is not": before the penalties
\* a rated indexer is worth at least its worst sub-score and at most its best,
\* however many of the four are missing.
AbsentIsNotZero ==
    Rated(i) =>
        LET sub == SubScores(i)
            scores == {sub[s][1] : s \in Present(sub)}
        IN  WeightedMean(sub) \in Min(scores)..Max(scores)

\* "A big operator neglecting 26 subgraphs is still 26 broken subgraphs", and
\* "a mostly-healthy giant lands at C/D, not F": faultless otherwise, as many
\* broken deployments as the reference cost the A, and at most half of them
\* broken never earns the F (serving_broken_severity).
BroadFailureGraded ==
    /\ Judge(i).rated /\ i.measured >= Cfg.minDeployments
    /\ i.seen.faults = 0 /\ i.seen.errors = 0 /\ i.seen.answered > 0
    /\ i.lag \in {None, Some(0)}
    /\ ~AtLeast(i.swarm, Cfg.sybilConfidence) /\ ~LowCoverage(i)
    => /\ i.erroring >= Cfg.brokenRef => Judge(i).grade # "A"
       /\ 2 * i.erroring <= i.measured => Judge(i).grade # "F"
=============================================================================
