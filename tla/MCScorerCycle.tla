--------------------------- MODULE MCScorerCycle ---------------------------
(***************************************************************************)
(* A small instance of ScorerCycle: two windows, two indexers, two         *)
(* deployments.  Thresholds are lowered so that one measurement decides.   *)
(***************************************************************************)
EXTENDS ScorerCycle

CONSTANTS x1, x2, d1, d2, none

MCIndexer == {x1, x2}
MCDeployment == {d1, d2}
MCWindows == {7, 30}

MCCfg ==
    [weight |-> [correctness |-> 40, availability |-> 30, freshness |-> 20, coverage |-> 10],
     gradeA |-> 9000, gradeB |-> 7500, gradeC |-> 6000, gradeD |-> 4000,
     lowCoverage |-> 2, leechStake |-> 1000000, leechQueries |-> 100,
     badDataFaults |-> 1, badDataRate |-> 10, noDataRate |-> 50,
     behindLag |-> 500, qosMinQueries |-> 500,
     sybilConfidence |-> 60, sybilPenalty |-> 60,
     servingPenalty |-> 70, minDeployments |-> 2, brokenRef |-> 20, minProbes |-> 2]

Profile == [stake |-> Some(2000000), allocations |-> Some(4), success |-> Some(99),
            queries |-> Some(600), eligible |-> TRUE]

On(probes, ok, timed, behind) ==
    [probes |-> probes, ok |-> ok, timed |-> timed, behind |-> behind]

Serving(s1, s2) == d1 :> s1 @@ d2 :> s2

Healthy ==
    [profile |-> Some(Profile),
     agg |-> (7 :> Some(Tally(3, 0, 0, 3))) @@ (30 :> Some(Tally(4, 0, 0, 4))),
     recent |-> Some(Tally(3, 0, 0, 3)), lag |-> Some(0), swarm |-> None,
     serving |-> Serving(On(2, 2, 2, Some(0)), On(2, 2, 2, Some(0)))]

\* Faults that only the longer window still sees.
OnceWrong == [Healthy EXCEPT !.agg[30] = Some(Tally(4, 2, 0, 4))]

\* One of a swarm.
Swarmed == [Healthy EXCEPT !.swarm = Some(90)]

\* Every deployment errs: one item for both.
Broken == [Healthy EXCEPT !.serving = Serving(On(2, 0, 2, Some(0)), On(2, 0, 2, Some(0)))]

\* No answer in the last hours, idle, behind on the whole and on one deployment,
\* and erring on the other, whose lag was measured in too few probes to compare.
Failing == [Healthy EXCEPT !.agg[7] = Some(Tally(0, 0, 3, 3)), !.agg[30] = Some(Tally(1, 0, 3, 4)),
                           !.recent = Some(Tally(0, 0, 3, 3)), !.lag = Some(900),
                           !.profile[1].queries = Some(0),
                           !.serving = Serving(On(2, 1, 2, Some(80)), On(2, 0, 1, Some(90)))]

\* Gone from the roster, and never probed.
Gone == [Healthy EXCEPT !.profile = None, !.agg = (7 :> None) @@ (30 :> None),
                        !.recent = None, !.lag = None,
                        !.serving = Serving(On(0, 0, 0, None), On(0, 0, 0, None))]

MCEvidence == {Healthy, OnceWrong, Swarmed, Broken, Failing, Gone}

\* Whatever they turn into, they start with one in trouble and its peer healthy.
MCTables == {(x1 :> e) @@ (x2 :> Healthy) : e \in {Broken, Swarmed}}
=============================================================================
