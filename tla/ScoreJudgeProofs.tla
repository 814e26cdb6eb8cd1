-------------------------- MODULE ScoreJudgeProofs --------------------------
(***************************************************************************)
(* The judgement for every configuration the code can be given and all     *)
(* evidence there can be, where the run takes one configuration and small  *)
(* tallies: a missing measurement is not a zero, one harm or many together *)
(* never help, and what the comments promise of broad failure.             *)
(*                                                                         *)
(* All of it is arithmetic of rounded divisions: what is proved first is   *)
(* how a share, a mean under weights and a penalty move with their         *)
(* arguments, each rounded down on its own.                                *)
(***************************************************************************)
EXTENDS MCScoreJudge, FiniteSetTheorems, NaturalsInduction, WellFoundedInduction, TLAPS

Tallies == [answered : Nat, faults : Nat, errors : Nat, total : Nat]

AnyEvidence ==
    [seen : Tallies, recent : Tallies, measured : Nat, erroring : Nat, lag : Options(Int),
     allocations : Options(Nat), stake : Options(Nat), success : Options(Nat),
     queries : Options(Nat), eligible : BOOLEAN, swarm : Options(0..100)]

\* Both are absent, or o is at most p.
NoMore(o, p) == (o = None <=> p = None) /\ (o # None => o[1] <= p[1])

\* f is e with any number of harms more.  Answers may be lost to errors, the last of
\* them only if it was no fault.
Worse(e, f) ==
    /\ f.seen.total = e.seen.total /\ f.recent.total = e.recent.total
    /\ e.seen.faults <= f.seen.faults /\ e.seen.errors <= f.seen.errors
    /\ f.seen.answered <= e.seen.answered
    /\ f.seen.answered = 0 /\ e.seen.answered > 0 => e.seen.faults = 0 /\ e.seen.total > 0
    /\ e.recent.errors <= f.recent.errors
    /\ f.measured = e.measured /\ e.erroring <= f.erroring
    /\ NoMore(e.lag, f.lag) /\ NoMore(f.success, e.success)
    /\ NoMore(f.allocations, e.allocations)
    /\ AtLeast(e.allocations, 1) => AtLeast(f.allocations, 1)
    /\ e.swarm # None => f.swarm # None /\ e.swarm[1] <= f.swarm[1]
    /\ f.stake = e.stake /\ f.queries = e.queries /\ f.eligible = e.eligible

-----------------------------------------------------------------------------
(* Rounded division.                                                       *)

LEMMA DivType ==
    ASSUME NEW a \in Nat, NEW d \in Nat \ {0}
    PROVE  a \div d \in Nat
OBVIOUS

LEMMA DivAtMost ==
    ASSUME NEW a \in Int, NEW d \in Nat \ {0}, NEW q \in Int, a <= d * q
    PROVE  a \div d <= q
OBVIOUS

LEMMA DivAtLeast ==
    ASSUME NEW a \in Int, NEW d \in Nat \ {0}, NEW q \in Int, d * q <= a
    PROVE  q <= a \div d
OBVIOUS

LEMMA DivGrows ==
    ASSUME NEW a \in Nat, NEW b \in Nat, NEW d \in Nat \ {0}, NEW e \in Nat \ {0},
           a <= b, e <= d
    PROVE  a \div d <= b \div e
OBVIOUS

LEMMA MulGrows ==
    ASSUME NEW a \in Nat, NEW b \in Nat, NEW c \in Nat, NEW d \in Nat, a <= b, c <= d
    PROVE  a * c <= b * d /\ a * c \in Nat
OBVIOUS

\* To leave out a full score of weight w never raises a mean.
LEMMA DivWithoutFull ==
    ASSUME NEW n \in Nat, NEW d \in Nat, NEW w \in Nat, w < d, n <= Full * d, w * Full <= n
    PROVE  (n - w * Full) \div (d - w) <= n \div d
<1> DEFINE q == n \div d
<1>1. q \in Nat /\ n < d * q + d
  BY DivType
<1>2. Full \in Nat
  BY DEF Full
<1> HIDE DEF q
<1>3. CASE q >= Full
  <2>1. n - w * Full <= (d - w) * Full
    BY <1>2
  <2>2. (n - w * Full) \div (d - w) <= Full
    BY <1>2, <2>1, DivAtMost
  <2> QED BY <1>1, <1>2, <1>3, <2>2 DEF q
<1>4. CASE q < Full
  <2>1. w * (q + 1) <= w * Full
    BY <1>1, <1>2, <1>4
  <2>2. n - w * Full < (d - w) * (q + 1)
    BY <1>1, <1>2, <2>1
  <2>3. (n - w * Full) \div (d - w) < q + 1
    BY <1>1, <1>2, <2>2
  <2> QED BY <1>1, <1>2, <2>3 DEF q
<1> QED BY <1>1, <1>2, <1>3, <1>4

LEMMA FullType == Full \in Nat \ {0}
BY DEF Full

LEMMA ShareType ==
    ASSUME NEW a \in Nat, NEW b \in Nat \ {0}
    PROVE  Share(a, b) \in 0..Full /\ Without(a, b) \in 0..Full
<1> DEFINE q == (a * Full) \div b
<1>1. a * Full \in Nat
  BY FullType
<1>2. q \in Nat
  BY <1>1, DivType
<1> HIDE DEF q
<1>3. Least(Full, q) \in 0..Full
  BY <1>2, FullType DEF Least
<1>4. Share(a, b) \in 0..Full
  BY <1>3 DEF Share, q
<1> HIDE DEF Share
<1>5. Full - Share(a, b) \in 0..Full
  BY <1>4, FullType
<1> QED BY <1>4, <1>5 DEF Without

LEMMA ShareGrows ==
    ASSUME NEW a \in Nat, NEW b \in Nat, NEW c \in Nat \ {0}, NEW d \in Nat \ {0}, a <= b, d <= c
    PROVE  Share(a, c) <= Share(b, d) /\ Without(b, d) <= Without(a, c)
<1>1. a * Full \in Nat /\ b * Full \in Nat /\ a * Full <= b * Full
  BY FullType
<1>2. (a * Full) \div c <= (b * Full) \div d
  BY <1>1, DivGrows
<1>3. (a * Full) \div c \in Nat /\ (b * Full) \div d \in Nat
  BY <1>1, DivType
<1> QED BY <1>2, <1>3, FullType DEF Share, Without, Least

-----------------------------------------------------------------------------
(* The sub-scores.                                                         *)

LEMMA OptionValue ==
    ASSUME NEW S, NEW o
    PROVE  o \in Options(S) <=> o = None \/ \E x \in S : o = Some(x) /\ o[1] = x
BY DEF Options, Some, None

LEMMA SomeValue ==
    ASSUME NEW x
    PROVE  Some(x) # None /\ Some(x)[1] = x
BY DEF Some, None

\* A sub-score, when there is one.
Scored == Options(0..Full)

LEMMA EvidenceFields ==
    ASSUME NEW e \in AnyEvidence
    PROVE  /\ e.seen \in Tallies /\ e.recent \in Tallies
           /\ {e.seen.answered, e.seen.faults, e.seen.errors, e.seen.total} \subseteq Nat
           /\ {e.recent.answered, e.recent.faults, e.recent.errors, e.recent.total} \subseteq Nat
           /\ e.measured \in Nat /\ e.erroring \in Nat
           /\ e.lag # None => e.lag[1] \in Int
           /\ e.allocations # None => e.allocations[1] \in Nat
           /\ e.stake # None => e.stake[1] \in Nat
           /\ e.success # None => e.success[1] \in Nat
           /\ e.queries # None => e.queries[1] \in Nat
           /\ e.swarm # None => e.swarm[1] \in 0..100
<1>1. /\ e.seen \in Tallies /\ e.recent \in Tallies
      /\ e.measured \in Nat /\ e.erroring \in Nat /\ e.lag \in Options(Int)
      /\ e.allocations \in Options(Nat) /\ e.stake \in Options(Nat)
      /\ e.success \in Options(Nat) /\ e.queries \in Options(Nat) /\ e.swarm \in Options(0..100)
  BY DEF AnyEvidence
<1>2. /\ {e.seen.answered, e.seen.faults, e.seen.errors, e.seen.total} \subseteq Nat
      /\ {e.recent.answered, e.recent.faults, e.recent.errors, e.recent.total} \subseteq Nat
  BY <1>1 DEF Tallies
<1>3. \A S, o : o \in Options(S) /\ o # None => o[1] \in S
  BY OptionValue
<1> QED BY <1>1, <1>2, <1>3

LEMMA MostType ==
    ASSUME NEW a \in Int
    PROVE  Most(a, 1) \in Nat \ {0} /\ Most(a, 0) \in Nat
BY DEF Most

LEMMA BrokenShareType ==
    ASSUME NEW e \in AnyEvidence
    PROVE  /\ BrokenShare(e) # None => BrokenShare(e)[1] \in 0..Full
           /\ BrokenShare(e) # None <=> e.measured >= Cfg.minDeployments
           /\ BrokenShare(e) # None => BrokenShare(e)[1] = Share(e.erroring, e.measured)
                                       /\ e.measured \in Nat \ {0}
<1>1. Cfg.minDeployments \in Nat \ {0} /\ e.measured \in Nat /\ e.erroring \in Nat
  BY CfgAssumption, EvidenceFields
<1>2. CASE e.measured < Cfg.minDeployments
  BY <1>1, <1>2 DEF BrokenShare
<1>3. CASE e.measured >= Cfg.minDeployments
  <2>1. BrokenShare(e) = Some(Share(e.erroring, e.measured)) /\ e.measured \in Nat \ {0}
    BY <1>1, <1>3 DEF BrokenShare
  <2> QED BY <1>1, <1>3, <2>1, SomeValue, ShareType
<1> QED BY <1>1, <1>2, <1>3

LEMMA BrokenSeverityType ==
    ASSUME NEW e \in AnyEvidence
    PROVE  BrokenSeverity(e) \in 0..Full
<1>1. e.erroring \in Nat /\ Cfg.brokenRef \in Int
  BY CfgAssumption, EvidenceFields
<1>2. Share(e.erroring, Most(Cfg.brokenRef, 1)) \in 0..Full
  BY <1>1, MostType, ShareType
<1>3. Share(e.erroring, Most(Cfg.brokenRef, 1)) \div 2 \in 0..Full
  BY <1>2, FullType
<1> QED BY <1>3, BrokenShareType, FullType DEF BrokenSeverity, Most

LEMMA MeanOfType ==
    ASSUME NEW a \in Scored, NEW b \in Scored
    PROVE  MeanOf(a, b) \in Scored /\ (MeanOf(a, b) = None <=> a = None /\ b = None)
<1>1. CASE a = None \/ b = None
  BY <1>1 DEF MeanOf
<1>2. CASE a # None /\ b # None
  <2>1. a[1] \in 0..Full /\ b[1] \in 0..Full
    BY <1>2, OptionValue DEF Scored
  <2>2. (a[1] + b[1]) \div 2 \in 0..Full
    BY <2>1, FullType
  <2> QED BY <1>2, <2>2, SomeValue, OptionValue DEF MeanOf, Scored
<1> QED BY <1>1, <1>2

LEMMA SubScoresType ==
    ASSUME NEW e \in AnyEvidence
    PROVE  /\ SubScores(e) \in [SubScore -> Scored]
           /\ Correctness(e) \in Scored /\ Availability(e) \in Scored
           /\ AnswerShare(e) \in Scored /\ ServedShare(e) \in Scored
           /\ Freshness(e) \in Scored /\ Coverage(e) \in Scored
<1>0. \A n \in 0..Full : Some(n) \in Scored
  BY OptionValue, SomeValue DEF Scored
<1>00. None \in Scored
  BY OptionValue DEF Scored
<1>1. Correctness(e) \in Scored
  BY <1>0, <1>00, EvidenceFields, ShareType DEF Correctness
<1>2. AnswerShare(e) \in Scored
  BY <1>0, <1>00, EvidenceFields, ShareType DEF AnswerShare
<1>3. ServedShare(e) \in Scored
  <2>1. BrokenShare(e) # None => Full - BrokenShare(e)[1] \in 0..Full
    BY BrokenShareType, FullType
  <2> QED BY <1>0, <1>00, <2>1 DEF ServedShare
<1>4. Availability(e) \in Scored
  BY <1>2, <1>3, MeanOfType DEF Availability
<1>5. Freshness(e) \in Scored
  <2>1. CASE e.lag # None
    <3>1. e.lag[1] \in Int /\ Cfg.behindLag \in Int
      BY <2>1, CfgAssumption, EvidenceFields
    <3>2. Most(e.lag[1], 0) \in Nat /\ 4 * Most(Cfg.behindLag, 1) \in Nat \ {0}
      BY <3>1, MostType
    <3> QED BY <1>0, <2>1, <3>2, ShareType DEF Freshness
  <2> QED BY <1>00, <2>1 DEF Freshness
<1>6. Coverage(e) \in Scored
  <2>1. CASE e.allocations # None
    <3>1. e.allocations[1] \in Nat /\ Cfg.lowCoverage \in Int
      BY <2>1, CfgAssumption, EvidenceFields
    <3>2. 2 * Most(Cfg.lowCoverage, 1) \in Nat \ {0}
      BY <3>1, MostType
    <3> QED BY <1>0, <2>1, <3>1, <3>2, ShareType DEF Coverage
  <2> QED BY <1>00, <2>1 DEF Coverage
<1> QED BY <1>1, <1>2, <1>3, <1>4, <1>5, <1>6 DEF SubScores, SubScore

-----------------------------------------------------------------------------
(* Absent is not zero.                                                     *)

\* Every weight counts once, and only if its sub-score exists.
LEMMA WeightsType ==
    ASSUME NEW sub \in [SubScore -> Scored]
    PROVE  \A s \in SubScore :
              /\ Cfg.weight[s] \in 1..100
              /\ sub[s] = None => Counted(sub)[s] = 0 /\ Worth(sub)[s] = 0
              /\ sub[s] # None =>
                    /\ sub[s][1] \in 0..Full /\ Counted(sub)[s] = Cfg.weight[s]
                    /\ Worth(sub)[s] = Cfg.weight[s] * sub[s][1]
              /\ Counted(sub)[s] \in 0..100 /\ Worth(sub)[s] \in Nat
              /\ Worth(sub)[s] <= Full * Counted(sub)[s]
<1> SUFFICES ASSUME NEW s \in SubScore
             PROVE  /\ Cfg.weight[s] \in 1..100
                    /\ sub[s] = None => Counted(sub)[s] = 0 /\ Worth(sub)[s] = 0
                    /\ sub[s] # None =>
                          /\ sub[s][1] \in 0..Full /\ Counted(sub)[s] = Cfg.weight[s]
                          /\ Worth(sub)[s] = Cfg.weight[s] * sub[s][1]
                    /\ Counted(sub)[s] \in 0..100 /\ Worth(sub)[s] \in Nat
                    /\ Worth(sub)[s] <= Full * Counted(sub)[s]
  OBVIOUS
<1>1. Cfg.weight[s] \in 1..100
  BY CfgAssumption
<1>2. CASE sub[s] = None
  BY <1>1, <1>2, FullType DEF Counted, Worth
<1>3. CASE sub[s] # None
  <2>1. sub[s][1] \in 0..Full
    BY <1>3, OptionValue DEF Scored
  <2>2. Counted(sub)[s] = Cfg.weight[s] /\ Worth(sub)[s] = Cfg.weight[s] * sub[s][1]
    BY <1>3 DEF Counted, Worth
  <2> DEFINE w == Cfg.weight[s]
             v == sub[s][1]
  <2>3. w \in 1..100 /\ v \in 0..Full
    BY <1>1, <2>1
  <2> HIDE DEF w, v
  <2>4. w * v \in Nat /\ w * v <= Full * w
    BY <2>3, FullType, MulGrows
  <2> QED BY <1>1, <1>3, <2>1, <2>2, <2>4 DEF w, v
<1> QED BY <1>2, <1>3

LEMMA OverAllType ==
    ASSUME NEW f, \A s \in SubScore : f[s] \in Nat
    PROVE  OverAll(f) \in Nat /\ \A s \in SubScore : f[s] <= OverAll(f)
BY DEF OverAll, SubScore

LEMMA SomeCounts ==
    ASSUME NEW sub \in [SubScore -> Scored], NEW s \in SubScore, sub[s] # None
    PROVE  OverAll(Counted(sub)) \in Nat \ {0}
<1>1. \A t \in SubScore : Counted(sub)[t] \in Nat
  BY WeightsType
<1>2. Counted(sub)[s] >= 1
  BY WeightsType
<1> HIDE DEF Counted
<1>3. OverAll(Counted(sub)) \in Nat /\ Counted(sub)[s] <= OverAll(Counted(sub))
  BY <1>1, OverAllType
<1> QED BY <1>1, <1>2, <1>3

\* The mean lies between any bounds that hold of every sub-score there is.
LEMMA MeanWithin ==
    ASSUME NEW sub \in [SubScore -> Scored], NEW lo \in Nat, NEW hi \in Nat,
           NEW t \in SubScore, sub[t] # None,
           \A s \in SubScore : sub[s] # None => lo <= sub[s][1] /\ sub[s][1] <= hi
    PROVE  WeightedMean(sub) \in lo..hi
<1> DEFINE c == Counted(sub)
           v == Worth(sub)
           d == OverAll(c)
           n == OverAll(v)
<1>1. ASSUME NEW s \in SubScore
      PROVE  c[s] \in Nat /\ v[s] \in Nat /\ lo * c[s] <= v[s] /\ v[s] <= hi * c[s]
  <2>1. CASE sub[s] = None
    BY <2>1, WeightsType
  <2>2. CASE sub[s] # None
    <3> DEFINE w == Cfg.weight[s]
               x == sub[s][1]
    <3>1. w \in Nat /\ x \in Nat /\ lo <= x /\ x <= hi /\ c[s] = w /\ v[s] = w * x
      BY <2>2, WeightsType, FullType
    <3> HIDE DEF w, x, c, v
    <3>2. lo * w <= w * x /\ w * x <= hi * w /\ w * x \in Nat
      BY <3>1
    <3> QED BY <3>1, <3>2
  <2> QED BY <2>1, <2>2
<1>2. d \in Nat \ {0}
  BY SomeCounts
<1>3. n \in Nat /\ lo * d <= n /\ n <= hi * d
  <2>1. /\ c["correctness"] \in Nat /\ v["correctness"] \in Nat
        /\ lo * c["correctness"] <= v["correctness"] /\ v["correctness"] <= hi * c["correctness"]
    BY <1>1 DEF SubScore
  <2>2. /\ c["availability"] \in Nat /\ v["availability"] \in Nat
        /\ lo * c["availability"] <= v["availability"]
        /\ v["availability"] <= hi * c["availability"]
    BY <1>1 DEF SubScore
  <2>3. /\ c["freshness"] \in Nat /\ v["freshness"] \in Nat
        /\ lo * c["freshness"] <= v["freshness"] /\ v["freshness"] <= hi * c["freshness"]
    BY <1>1 DEF SubScore
  <2>4. /\ c["coverage"] \in Nat /\ v["coverage"] \in Nat
        /\ lo * c["coverage"] <= v["coverage"] /\ v["coverage"] <= hi * c["coverage"]
    BY <1>1 DEF SubScore
  <2> HIDE DEF c, v
  <2> QED BY <2>1, <2>2, <2>3, <2>4 DEF OverAll
<1>4. WeightedMean(sub) = n \div d
  BY <1>2 DEF WeightedMean
<1> HIDE DEF n, d
<1>5. n \div d \in Nat
  BY <1>2, <1>3, DivType
<1>6. lo <= n \div d /\ n \div d <= hi
  BY <1>2, <1>3, DivAtLeast, DivAtMost
<1> QED BY <1>4, <1>5, <1>6

LEMMA NatWithEmpty ==
    ASSUME NEW sub \in [SubScore -> Scored], \A s \in SubScore : sub[s] = None
    PROVE  WeightedMean(sub) = 0
BY WeightsType DEF WeightedMean, OverAll, SubScore

LEMMA MeanType ==
    ASSUME NEW sub \in [SubScore -> Scored]
    PROVE  WeightedMean(sub) \in 0..Full
<1>1. CASE \A s \in SubScore : sub[s] = None
  BY <1>1, NatWithEmpty, FullType
<1>2. CASE \E t \in SubScore : sub[t] # None
  <2>1. \A s \in SubScore : sub[s] # None => 0 <= sub[s][1] /\ sub[s][1] <= Full
    BY WeightsType
  <2> QED BY <1>2, <2>1, FullType, MeanWithin
<1> QED BY <1>1, <1>2

-----------------------------------------------------------------------------
(* Least and greatest elements of sets of naturals.                        *)

\* A set of naturals that is not empty has a least element.
LEMMA HasLeast ==
    ASSUME NEW S \in SUBSET Nat, S # {}
    PROVE  \E a \in S : \A b \in S : a <= b
<1> DEFINE less == {pair \in Nat \X Nat : pair[1] < pair[2]}
<1>1. IsWellFoundedOn(less, Nat)
  BY NatLessThanWellFounded DEF OpToRel
<1>2. PICK a \in S : \A b \in S : ~(<<b, a>> \in less)
  <2> HIDE DEF less
  <2> QED BY <1>1, WFMin
<1>3. ASSUME NEW b \in S PROVE a <= b
  <2>1. a \in Nat /\ b \in Nat
    OBVIOUS
  <2>2. ~(b < a)
    BY <1>2, <2>1
  <2> QED BY <2>1, <2>2
<1> QED BY <1>3

\* And a greatest one when it is finite: of the finite sets without one there would
\* be a smallest, and to take an element from it would leave one with a greatest.
LEMMA FiniteHasGreatest ==
    ASSUME NEW S \in SUBSET Nat, IsFiniteSet(S), S # {}
    PROVE  \E a \in S : \A b \in S : b <= a
<1> DEFINE Bounded(U) == \E a \in U : \A b \in U : b <= a
           sizes == {n \in Nat : \E U \in SUBSET S :
                                     U # {} /\ Cardinality(U) = n /\ ~Bounded(U)}
<1> SUFFICES ASSUME ~Bounded(S) PROVE FALSE
  OBVIOUS
<1>1. Cardinality(S) \in sizes
  BY FS_CardinalityType
<1>2. PICK n \in sizes : \A m \in sizes : n <= m
  <2> HIDE DEF sizes
  <2>1. sizes \subseteq Nat
    BY DEF sizes
  <2> QED BY <1>1, <2>1, HasLeast
<1>3. PICK U \in SUBSET S : U # {} /\ Cardinality(U) = n /\ ~Bounded(U)
  OBVIOUS
<1>4. PICK x \in U : TRUE
  BY <1>3
<1>5. IsFiniteSet(U) /\ n \in Nat
  BY FS_Subset
<1>6. Cardinality(U \ {x}) = n - 1 /\ IsFiniteSet(U \ {x})
  BY <1>3, <1>4, <1>5, FS_RemoveElement
<1>7. Cardinality(U \ {x}) \in Nat
  BY <1>6, FS_CardinalityType
<1>8. n - 1 \notin sizes
  BY <1>2, <1>5
<1>9. CASE U \ {x} = {}
  <2>1. x \in Nat /\ \A b \in U : b = x
    BY <1>4, <1>9
  <2> QED BY <1>3, <1>4, <2>1
<1>10. CASE U \ {x} # {}
  <2>1. Bounded(U \ {x})
    BY <1>6, <1>7, <1>8, <1>10
  <2>2. PICK a \in U \ {x} : \A b \in U \ {x} : b <= a
    BY <2>1
  <2>3. a \in Nat /\ x \in Nat
    BY <1>4
  <2>4. \A b \in U : b <= (IF a <= x THEN x ELSE a)
    BY <1>4, <2>2, <2>3
  <2> QED BY <1>3, <1>4, <2>2, <2>3, <2>4
<1> QED BY <1>9, <1>10

LEMMA Extremes ==
    ASSUME NEW S \in SUBSET Nat, IsFiniteSet(S), S # {}
    PROVE  /\ Max(S) \in S /\ \A x \in S : x <= Max(S)
           /\ Min(S) \in S /\ \A x \in S : Min(S) <= x
<1>1. \E a \in S : \A b \in S : a >= b
  BY FiniteHasGreatest
<1>2. \E a \in S : \A b \in S : a <= b
  BY HasLeast
<1>3. Max(S) \in S /\ \A x \in S : x <= Max(S)
  BY <1>1 DEF Max
<1>4. Min(S) \in S /\ \A x \in S : Min(S) <= x
  BY <1>2 DEF Min
<1> QED BY <1>3, <1>4

\* A missing measurement does not pull the mean below the worst there is, nor does it
\* lift it above the best (judge, the weights renormalised over what exists).
LEMMA AbsentNeverCounts ==
    ASSUME i \in AnyEvidence
    PROVE  AbsentIsNotZero
<1> SUFFICES ASSUME Rated(i)
             PROVE  LET sub == SubScores(i)
                        scores == {sub[s][1] : s \in Present(sub)}
                    IN  WeightedMean(sub) \in Min(scores)..Max(scores)
  BY DEF AbsentIsNotZero
<1> DEFINE sub == SubScores(i)
           scores == {sub[s][1] : s \in Present(sub)}
<1>1. sub \in [SubScore -> Scored]
  BY SubScoresType
<1>2. PICK t \in SubScore : sub[t] # None
  BY DEF Rated, Measured, Present
<1> HIDE DEF sub
<1>3. scores \subseteq 0..Full /\ sub[t][1] \in scores
  <2>1. \A s \in SubScore : sub[s] # None => sub[s][1] \in 0..Full
    BY <1>1, WeightsType
  <2>2. \A s \in Present(sub) : sub[s][1] \in 0..Full
    BY <2>1 DEF Present
  <2>3. t \in Present(sub)
    BY <1>2 DEF Present
  <2> QED BY <2>2, <2>3
<1>4. \A s \in SubScore : sub[s] # None => sub[s][1] \in scores
  BY DEF Present
<1> HIDE DEF scores
<1>5. scores \subseteq Nat /\ IsFiniteSet(scores) /\ scores # {}
  <2>1. 0..Full \subseteq Nat /\ 0 \in Int /\ Full \in Int
    BY FullType
  <2>2. IsFiniteSet(0..Full)
    BY <2>1, FS_Interval
  <2> QED BY <1>3, <2>1, <2>2, FS_Subset
<1>6. /\ Max(scores) \in Nat /\ Min(scores) \in Nat
      /\ \A x \in scores : Min(scores) <= x /\ x <= Max(scores)
  BY <1>5, Extremes
<1>7. WeightedMean(sub) \in Min(scores)..Max(scores)
  BY <1>1, <1>2, <1>4, <1>6, MeanWithin
<1> QED BY <1>7 DEF sub, scores

-----------------------------------------------------------------------------
(* A harm more never helps.                                                *)

LEMMA MeanOfFalls ==
    ASSUME NEW a \in Scored, NEW b \in Scored, NEW c \in Scored, NEW d \in Scored,
           NoMore(a, c), NoMore(b, d)
    PROVE  NoMore(MeanOf(a, b), MeanOf(c, d))
<1>1. CASE a = None \/ b = None
  BY <1>1 DEF MeanOf, NoMore
<1>2. CASE a # None /\ b # None
  <2>1. c # None /\ d # None /\ a[1] <= c[1] /\ b[1] <= d[1]
    BY <1>2 DEF NoMore
  <2>2. a[1] \in Nat /\ b[1] \in Nat /\ c[1] \in Nat /\ d[1] \in Nat
    BY <1>2, <2>1, FullType, OptionValue DEF Scored
  <2>3. (a[1] + b[1]) \div 2 <= (c[1] + d[1]) \div 2
    BY <2>1, <2>2, DivGrows
  <2>4. /\ MeanOf(a, b) = Some((a[1] + b[1]) \div 2)
        /\ MeanOf(c, d) = Some((c[1] + d[1]) \div 2)
    BY <1>2, <2>1 DEF MeanOf
  <2> QED BY <2>3, <2>4, SomeValue DEF NoMore
<1> QED BY <1>1, <1>2

LEMMA BrokenShareRises ==
    ASSUME NEW e \in AnyEvidence, NEW f \in AnyEvidence, Worse(e, f)
    PROVE  NoMore(BrokenShare(e), BrokenShare(f))
<1>1. e.measured = f.measured /\ e.erroring <= f.erroring /\ e.erroring \in Nat /\ f.erroring \in Nat
  BY EvidenceFields DEF Worse
<1>2. BrokenShare(e) = None <=> BrokenShare(f) = None
  BY <1>1, BrokenShareType
<1>3. CASE BrokenShare(e) # None
  <2>1. e.measured \in Nat \ {0} /\ BrokenShare(e)[1] = Share(e.erroring, e.measured)
        /\ BrokenShare(f)[1] = Share(f.erroring, e.measured)
    BY <1>1, <1>2, <1>3, BrokenShareType
  <2>2. Share(e.erroring, e.measured) <= Share(f.erroring, e.measured)
    BY <1>1, <2>1, ShareGrows
  <2> QED BY <1>2, <2>1, <2>2 DEF NoMore
<1> QED BY <1>2, <1>3 DEF NoMore

\* Each sub-score falls or stays; only correctness may vanish, and then it was full.
LEMMA SubScoresFall ==
    ASSUME NEW e \in AnyEvidence, NEW f \in AnyEvidence, Worse(e, f)
    PROVE  /\ Correctness(e) = None => Correctness(f) = None
           /\ Correctness(f) # None => Correctness(f)[1] <= Correctness(e)[1]
           /\ Correctness(e) # None /\ Correctness(f) = None => Correctness(e)[1] = Full
           /\ NoMore(Availability(f), Availability(e))
           /\ NoMore(Freshness(f), Freshness(e))
           /\ NoMore(Coverage(f), Coverage(e))
<1>1. /\ {e.seen.answered, e.seen.faults, e.seen.errors, e.seen.total} \subseteq Nat
      /\ {f.seen.answered, f.seen.faults, f.seen.errors, f.seen.total} \subseteq Nat
  BY EvidenceFields
<1>2. /\ f.seen.total = e.seen.total
      /\ e.seen.faults <= f.seen.faults /\ e.seen.errors <= f.seen.errors
      /\ f.seen.answered <= e.seen.answered
      /\ f.seen.answered = 0 /\ e.seen.answered > 0 => e.seen.faults = 0
  BY DEF Worse
<1>3. Correctness(e) = None <=> e.seen.answered = 0
  BY <1>1, SomeValue DEF Correctness
<1>4. Correctness(f) = None <=> f.seen.answered = 0
  BY <1>1, SomeValue DEF Correctness
<1>5. Correctness(e) # None => Correctness(e)[1] = Without(e.seen.faults, e.seen.answered)
  BY <1>1, <1>3, SomeValue DEF Correctness
<1>6. Correctness(f) # None => Correctness(f)[1] = Without(f.seen.faults, f.seen.answered)
  BY <1>1, <1>4, SomeValue DEF Correctness
<1>7. Correctness(e) = None => Correctness(f) = None
  BY <1>1, <1>2, <1>3, <1>4
<1>8. Correctness(f) # None => Correctness(f)[1] <= Correctness(e)[1]
  <2> HAVE Correctness(f) # None
  <2>1. f.seen.answered \in Nat \ {0} /\ e.seen.answered \in Nat \ {0}
    BY <1>1, <1>2, <1>4
  <2>2. Without(f.seen.faults, f.seen.answered) <= Without(e.seen.faults, e.seen.answered)
    BY <1>1, <1>2, <2>1, ShareGrows
  <2> QED BY <1>5, <1>6, <1>7, <2>2
<1>9. Correctness(e) # None /\ Correctness(f) = None => Correctness(e)[1] = Full
  <2> HAVE Correctness(e) # None /\ Correctness(f) = None
  <2>1. e.seen.faults = 0 /\ e.seen.answered \in Nat \ {0}
    BY <1>1, <1>2, <1>3, <1>4
  <2>2. Without(0, e.seen.answered) = Full
    <3>1. 0 * Full = 0 /\ 0 \div e.seen.answered = 0
      BY <2>1, FullType
    <3>2. Share(0, e.seen.answered) = 0
      BY <3>1, FullType DEF Share, Least
    <3> QED BY <3>2, FullType DEF Without
  <2> QED BY <1>5, <2>1, <2>2
<1>10. NoMore(Availability(f), Availability(e))
  <2>1. NoMore(AnswerShare(f), AnswerShare(e))
    <3>1. CASE e.seen.total > 0
      <4>1. Without(f.seen.errors, f.seen.total) <= Without(e.seen.errors, e.seen.total)
        <5>1. f.seen.total \in Nat \ {0} /\ e.seen.total \in Nat \ {0}
          BY <1>1, <1>2, <3>1
        <5> QED BY <1>1, <1>2, <5>1, ShareGrows
      <4> QED BY <1>2, <3>1, <4>1, SomeValue DEF AnswerShare, NoMore
    <3> QED BY <1>2, <3>1 DEF AnswerShare, NoMore
  <2>2. NoMore(ServedShare(f), ServedShare(e))
    <3>1. NoMore(BrokenShare(e), BrokenShare(f))
      BY BrokenShareRises
    <3>2. CASE BrokenShare(e) # None
      <4>1. /\ BrokenShare(f) # None /\ BrokenShare(e)[1] <= BrokenShare(f)[1]
            /\ BrokenShare(e)[1] \in 0..Full /\ BrokenShare(f)[1] \in 0..Full
        BY <3>1, <3>2, BrokenShareType DEF NoMore
      <4>2. Full - BrokenShare(f)[1] <= Full - BrokenShare(e)[1]
        BY <4>1, FullType
      <4> QED BY <3>2, <4>1, <4>2, SomeValue DEF ServedShare, NoMore
    <3> QED BY <3>1, <3>2 DEF ServedShare, NoMore
  <2> QED BY <2>1, <2>2, SubScoresType, MeanOfFalls DEF Availability
<1>11. NoMore(Freshness(f), Freshness(e))
  <2>1. NoMore(e.lag, f.lag)
    BY DEF Worse
  <2>2. CASE e.lag # None
    <3>1. f.lag # None /\ e.lag[1] <= f.lag[1] /\ e.lag[1] \in Int /\ f.lag[1] \in Int
      BY <2>1, <2>2, EvidenceFields DEF NoMore
    <3>2. Most(e.lag[1], 0) <= Most(f.lag[1], 0) /\ Most(e.lag[1], 0) \in Nat /\ Most(f.lag[1], 0) \in Nat
      BY <3>1 DEF Most
    <3>3. 4 * Most(Cfg.behindLag, 1) \in Nat \ {0}
      BY CfgAssumption, MostType
    <3>4. Without(Most(f.lag[1], 0), 4 * Most(Cfg.behindLag, 1))
            <= Without(Most(e.lag[1], 0), 4 * Most(Cfg.behindLag, 1))
      BY <3>2, <3>3, ShareGrows
    <3> QED BY <2>2, <3>1, <3>4, SomeValue DEF Freshness, NoMore
  <2> QED BY <2>1, <2>2 DEF Freshness, NoMore
<1>12. NoMore(Coverage(f), Coverage(e))
  <2>1. NoMore(f.allocations, e.allocations)
    BY DEF Worse
  <2>2. CASE e.allocations # None
    <3>1. /\ f.allocations # None /\ f.allocations[1] <= e.allocations[1]
          /\ e.allocations[1] \in Nat /\ f.allocations[1] \in Nat
      BY <2>1, <2>2, EvidenceFields DEF NoMore
    <3>2. 2 * Most(Cfg.lowCoverage, 1) \in Nat \ {0}
      BY CfgAssumption, MostType
    <3>3. Share(f.allocations[1], 2 * Most(Cfg.lowCoverage, 1))
            <= Share(e.allocations[1], 2 * Most(Cfg.lowCoverage, 1))
      BY <3>1, <3>2, ShareGrows
    <3> QED BY <2>2, <3>1, <3>3, SomeValue DEF Coverage, NoMore
  <2> QED BY <2>1, <2>2 DEF Coverage, NoMore
<1> QED BY <1>7, <1>8, <1>9, <1>10, <1>11, <1>12

\* The weighted mean follows its sub-scores down, also when one that was full is lost.
LEMMA MeanFalls ==
    ASSUME NEW sub \in [SubScore -> Scored], NEW tub \in [SubScore -> Scored],
           \A s \in SubScore \ {"correctness"} : NoMore(tub[s], sub[s]),
           sub["correctness"] = None => tub["correctness"] = None,
           tub["correctness"] # None => tub["correctness"][1] <= sub["correctness"][1],
           sub["correctness"] # None /\ tub["correctness"] = None =>
               sub["correctness"][1] = Full
    PROVE  WeightedMean(tub) <= WeightedMean(sub)
<1> DEFINE c(s) == Counted(sub)[s]
           d(s) == Counted(tub)[s]
           v(s) == Worth(sub)[s]
           u(s) == Worth(tub)[s]
<1>1. \A s \in SubScore : /\ c(s) \in Nat /\ d(s) \in Nat /\ v(s) \in Nat /\ u(s) \in Nat
                          /\ v(s) <= Full * c(s) /\ u(s) <= Full * d(s)
  BY WeightsType
<1>2. ASSUME NEW s \in SubScore, NoMore(tub[s], sub[s])
      PROVE  d(s) = c(s) /\ u(s) <= v(s)
  <2>1. CASE sub[s] = None
    <3>1. tub[s] = None
      BY <1>2, <2>1 DEF NoMore
    <3> QED BY <2>1, <3>1, WeightsType
  <2>2. CASE sub[s] # None
    <3> DEFINE w == Cfg.weight[s]
               x == sub[s][1]
               y == tub[s][1]
    <3>1. tub[s] # None /\ y <= x
      BY <1>2, <2>2 DEF NoMore
    <3>2. /\ w \in Nat /\ x \in Nat /\ y \in Nat
          /\ c(s) = w /\ d(s) = w /\ v(s) = w * x /\ u(s) = w * y
      BY <2>2, <3>1, WeightsType, FullType
    <3> HIDE DEF w, x, y, c, d, u, v
    <3>3. w * y <= w * x
      BY <3>1, <3>2
    <3> QED BY <3>2, <3>3
  <2> QED BY <2>1, <2>2
<1>3. \A s \in {"availability", "freshness", "coverage"} :
          d(s) = c(s) /\ u(s) <= v(s)
  BY <1>2 DEF SubScore
<1> DEFINE C == c("availability") + c("freshness") + c("coverage")
           V == v("availability") + v("freshness") + v("coverage")
           U == u("availability") + u("freshness") + u("coverage")
<1>4. /\ OverAll(Counted(sub)) = c("correctness") + C
      /\ OverAll(Counted(tub)) = d("correctness") + C
      /\ OverAll(Worth(sub)) = v("correctness") + V
      /\ OverAll(Worth(tub)) = u("correctness") + U
      /\ C \in Nat /\ V \in Nat /\ U \in Nat /\ U <= V /\ V <= Full * C
      /\ c("correctness") \in Nat /\ d("correctness") \in Nat
      /\ v("correctness") \in Nat /\ u("correctness") \in Nat
      /\ v("correctness") <= Full * c("correctness")
  <2>1. /\ c("correctness") \in Nat /\ v("correctness") \in Nat /\ d("correctness") \in Nat
        /\ u("correctness") \in Nat /\ v("correctness") <= Full * c("correctness")
    BY <1>1 DEF SubScore
  <2>2. /\ c("availability") \in Nat /\ v("availability") \in Nat
        /\ u("availability") \in Nat /\ v("availability") <= Full * c("availability")
        /\ d("availability") = c("availability") /\ u("availability") <= v("availability")
    BY <1>1, <1>3 DEF SubScore
  <2>3. /\ c("freshness") \in Nat /\ v("freshness") \in Nat
        /\ u("freshness") \in Nat /\ v("freshness") <= Full * c("freshness")
        /\ d("freshness") = c("freshness") /\ u("freshness") <= v("freshness")
    BY <1>1, <1>3 DEF SubScore
  <2>4. /\ c("coverage") \in Nat /\ v("coverage") \in Nat
        /\ u("coverage") \in Nat /\ v("coverage") <= Full * c("coverage")
        /\ d("coverage") = c("coverage") /\ u("coverage") <= v("coverage")
    BY <1>1, <1>3 DEF SubScore
  <2>5. /\ OverAll(Counted(sub)) = c("correctness") + c("availability") + c("freshness") + c("coverage")
        /\ OverAll(Counted(tub)) = d("correctness") + d("availability") + d("freshness") + d("coverage")
        /\ OverAll(Worth(sub)) = v("correctness") + v("availability") + v("freshness") + v("coverage")
        /\ OverAll(Worth(tub)) = u("correctness") + u("availability") + u("freshness") + u("coverage")
    BY DEF OverAll
  <2> HIDE DEF c, d, u, v
  <2> QED BY <2>1, <2>2, <2>3, <2>4, <2>5, FullType
<1>5. /\ WeightedMean(sub) = IF c("correctness") + C = 0 THEN 0
                             ELSE (v("correctness") + V) \div (c("correctness") + C)
      /\ WeightedMean(tub) = IF d("correctness") + C = 0 THEN 0
                             ELSE (u("correctness") + U) \div (d("correctness") + C)
  BY <1>4 DEF WeightedMean
<1>6. CASE NoMore(tub["correctness"], sub["correctness"])
  <2>1. d("correctness") = c("correctness") /\ u("correctness") <= v("correctness")
    BY <1>2, <1>6 DEF SubScore
  <2> HIDE DEF c, d, u, v, C, U, V
  <2>2. CASE c("correctness") + C # 0
    <3> DEFINE m == u("correctness") + U
               n == v("correctness") + V
               t == c("correctness") + C
    <3>1. m \in Nat /\ n \in Nat /\ t \in Nat \ {0} /\ m <= n
      BY <1>4, <2>1, <2>2
    <3>2. WeightedMean(tub) = m \div t /\ WeightedMean(sub) = n \div t
      BY <1>5, <2>1, <2>2
    <3> HIDE DEF m, n, t
    <3>3. m \div t <= n \div t
      BY <3>1, DivGrows
    <3> QED BY <3>2, <3>3
  <2> QED BY <1>5, <2>1, <2>2
<1>7. CASE sub["correctness"] # None /\ tub["correctness"] = None
  <2> DEFINE w == Cfg.weight["correctness"]
  <2>1. /\ w \in Nat \ {0} /\ c("correctness") = w /\ v("correctness") = w * Full
        /\ d("correctness") = 0 /\ u("correctness") = 0
    BY <1>7, WeightsType DEF SubScore
  <2> HIDE DEF c, d, u, v, C, U, V, w
  <2>2. WeightedMean(sub) = (w * Full + V) \div (w + C)
    BY <1>4, <1>5, <2>1
  <2>3. CASE C = 0
    <3>1. WeightedMean(sub) \in Nat
      BY FullType, MeanType
    <3>2. WeightedMean(tub) = 0
      BY <1>5, <2>1, <2>3
    <3> QED BY <3>1, <3>2
  <2>4. CASE C # 0
    <3>1. WeightedMean(tub) = U \div C
      BY <1>4, <1>5, <2>1, <2>4
    <3>0. C \in Nat \ {0} /\ U \in Nat /\ V \in Nat /\ U <= V
      BY <1>4, <2>4
    <3>2. U \div C <= V \div C
      BY <3>0, DivGrows
    <3> DEFINE n == w * Full + V
               t == w + C
    <3>3. /\ n \in Nat /\ t \in Nat /\ w < t /\ n <= Full * t /\ w * Full <= n
          /\ n - w * Full = V /\ t - w = C
      BY <1>4, <2>1, <2>4, FullType
    <3> HIDE DEF n, t
    <3>4. (n - w * Full) \div (t - w) <= n \div t
      BY <2>1, <3>3, DivWithoutFull
    <3>5. V \div C <= n \div t
      BY <3>3, <3>4
    <3>6. U \div C \in Nat /\ V \div C \in Nat /\ n \div t \in Nat
      BY <1>4, <2>1, <2>4, <3>3, DivType
    <3> QED BY <2>2, <3>1, <3>2, <3>5, <3>6 DEF n, t
  <2> QED BY <2>3, <2>4
<1> QED BY <1>6, <1>7 DEF NoMore

\* The two penalties: what membership leaves of a score, and what broken serving takes.
Kept(e, score) ==
    IF SwarmMember(e) THEN (score * (Full - e.swarm[1] * Cfg.sybilPenalty)) \div Full ELSE score

ServingCost(e) == (BrokenSeverity(e) * Cfg.servingPenalty) \div 100

LEMMA PenalisedParts ==
    ASSUME NEW e, NEW score
    PROVE  Penalised(e, score) = (Kept(e, score) * (Full - ServingCost(e))) \div Full
BY DEF Penalised, Kept, ServingCost

LEMMA KeptFactor ==
    ASSUME NEW e \in AnyEvidence, SwarmMember(e)
    PROVE  Full - e.swarm[1] * Cfg.sybilPenalty \in 0..Full /\ e.swarm[1] \in 0..100
<1> DEFINE a == e.swarm[1]
           b == Cfg.sybilPenalty
<1>1. a \in 0..100 /\ b \in 0..100
  BY CfgAssumption, EvidenceFields DEF SwarmMember, AtLeast
<1> HIDE DEF a, b
<1>2. a * b \in Nat /\ a * b <= 100 * 100
  BY <1>1, MulGrows
<1>3. 100 * 100 = Full
  BY DEF Full
<1>4. Full - a * b \in 0..Full
  BY <1>2, <1>3, FullType
<1> QED BY <1>1, <1>4 DEF a, b

LEMMA KeptType ==
    ASSUME NEW e \in AnyEvidence, NEW score \in Nat
    PROVE  Kept(e, score) \in Nat /\ Kept(e, score) <= score
<1>1. CASE SwarmMember(e)
  <2> DEFINE k == Full - e.swarm[1] * Cfg.sybilPenalty
  <2>1. k \in Nat /\ k <= Full /\ Kept(e, score) = (score * k) \div Full
    BY <1>1, KeptFactor, FullType DEF Kept
  <2> HIDE DEF k
  <2>2. score * k \in Nat /\ score * k <= Full * score
    BY <2>1, FullType, MulGrows
  <2> QED BY <2>1, <2>2, FullType, DivType, DivAtMost
<1> QED BY <1>1 DEF Kept

LEMMA ServingCostType ==
    ASSUME NEW e \in AnyEvidence
    PROVE  ServingCost(e) \in 0..Full
<1> DEFINE a == BrokenSeverity(e)
           b == Cfg.servingPenalty
<1>1. a \in 0..Full /\ b \in 0..100
  BY CfgAssumption, BrokenSeverityType
<1> HIDE DEF a, b
<1>2. a * b \in Nat /\ a * b <= Full * 100
  BY <1>1, FullType, MulGrows
<1>3. (a * b) \div 100 \in Nat /\ (a * b) \div 100 <= Full
  BY <1>2, FullType, DivType, DivAtMost
<1> QED BY <1>3, FullType DEF ServingCost, a, b

LEMMA PenalisedType ==
    ASSUME NEW e \in AnyEvidence, NEW score \in Nat
    PROVE  Penalised(e, score) \in Nat /\ Penalised(e, score) <= score
<1> DEFINE k == Kept(e, score)
           r == Full - ServingCost(e)
<1>1. k \in Nat /\ k <= score /\ r \in Nat /\ r <= Full
  BY KeptType, ServingCostType, FullType
<1>2. Penalised(e, score) = (k * r) \div Full
  BY PenalisedParts
<1> HIDE DEF k, r
<1>3. k * r \in Nat /\ k * r <= Full * score
  BY <1>1, FullType, MulGrows
<1> QED BY <1>2, <1>3, FullType, DivType, DivAtMost

LEMMA SeverityRises ==
    ASSUME NEW e \in AnyEvidence, NEW f \in AnyEvidence, Worse(e, f)
    PROVE  BrokenSeverity(e) <= BrokenSeverity(f)
<1>1. NoMore(BrokenShare(e), BrokenShare(f))
  BY BrokenShareRises
<1>2. CASE BrokenShare(e) # None
  <2> DEFINE r == Most(Cfg.brokenRef, 1)
             a == Share(e.erroring, r)
             b == Share(f.erroring, r)
  <2>1. /\ e.erroring \in Nat /\ f.erroring \in Nat /\ e.erroring <= f.erroring
        /\ r \in Nat \ {0}
    BY CfgAssumption, EvidenceFields, MostType DEF Worse
  <2>2. a \in 0..Full /\ b \in 0..Full /\ a <= b
    <3> HIDE DEF r
    <3> QED BY <2>1, ShareType, ShareGrows
  <2>3. /\ BrokenShare(f) # None /\ BrokenShare(e)[1] <= BrokenShare(f)[1]
        /\ BrokenShare(e)[1] \in 0..Full /\ BrokenShare(f)[1] \in 0..Full
    BY <1>1, <1>2, BrokenShareType DEF NoMore
  <2>4. /\ BrokenSeverity(e) = Most(BrokenShare(e)[1], a \div 2)
        /\ BrokenSeverity(f) = Most(BrokenShare(f)[1], b \div 2)
    BY <1>2, <2>3 DEF BrokenSeverity
  <2> HIDE DEF a, b
  <2>5. a \div 2 <= b \div 2 /\ a \div 2 \in Nat /\ b \div 2 \in Nat
    BY <2>2, FullType, DivType, DivGrows
  <2> QED BY <2>3, <2>4, <2>5, FullType DEF Most
<1>3. CASE BrokenShare(e) = None
  BY <1>1, <1>3 DEF BrokenSeverity, NoMore
<1> QED BY <1>2, <1>3

LEMMA MembershipStays ==
    ASSUME NEW e \in AnyEvidence, NEW f \in AnyEvidence, Worse(e, f), SwarmMember(e)
    PROVE  SwarmMember(f) /\ e.swarm[1] <= f.swarm[1]
<1> DEFINE x == e.swarm[1]
           y == f.swarm[1]
           c == Cfg.sybilConfidence
<1>1. e.swarm # None /\ x >= c
  BY DEF SwarmMember, AtLeast
<1>2. f.swarm # None /\ x <= y
  BY <1>1 DEF Worse
<1>3. x \in 0..100 /\ y \in 0..100
  BY <1>1, <1>2, EvidenceFields
<1>4. c \in 0..100
  BY CfgAssumption
<1>5. y >= c
  <2> HIDE DEF x, y, c
  <2> QED BY <1>1, <1>2, <1>3, <1>4
<1> QED BY <1>2, <1>5 DEF SwarmMember, AtLeast

LEMMA PenalisedFalls ==
    ASSUME NEW e \in AnyEvidence, NEW f \in AnyEvidence, Worse(e, f),
           NEW a \in Nat, NEW b \in Nat, b <= a
    PROVE  Penalised(f, b) <= Penalised(e, a)
<1>1. Kept(f, b) <= Kept(e, a)
  <2>1. CASE SwarmMember(e)
    <3>1. SwarmMember(f) /\ e.swarm[1] <= f.swarm[1]
      BY <2>1, MembershipStays
    <3> DEFINE p == Cfg.sybilPenalty
               x == e.swarm[1]
               y == f.swarm[1]
               k == Full - x * p
               j == Full - y * p
    <3>2. p \in Nat /\ x \in Nat /\ y \in Nat /\ x <= y /\ k \in 0..Full /\ j \in 0..Full
      BY <2>1, <3>1, CfgAssumption, KeptFactor
    <3>3. Kept(e, a) = (a * k) \div Full /\ Kept(f, b) = (b * j) \div Full
      BY <2>1, <3>1 DEF Kept
    <3>4. j <= k
      <4>0. p \in Nat /\ x \in Nat /\ y \in Nat /\ x <= y
        BY <3>2
      <4> HIDE DEF p, x, y
      <4>1. x * p <= y * p /\ x * p \in Nat /\ y * p \in Nat
        BY <4>0, MulGrows
      <4> QED BY <4>1, FullType
    <3>5. k \in Nat /\ j \in Nat
      BY <3>2, FullType
    <3> HIDE DEF k, j
    <3>6. b * j \in Nat /\ a * k \in Nat /\ b * j <= a * k
      BY <3>4, <3>5, MulGrows
    <3>7. (b * j) \div Full <= (a * k) \div Full
      BY <3>6, FullType, DivGrows
    <3> QED BY <3>3, <3>7
  <2>2. CASE ~SwarmMember(e)
    <3>1. Kept(e, a) = a
      BY <2>2 DEF Kept
    <3> QED BY <3>1, KeptType
  <2> QED BY <2>1, <2>2
<1> DEFINE k == Kept(e, a)
           j == Kept(f, b)
           r == Full - ServingCost(e)
           s == Full - ServingCost(f)
<1>2. k \in Nat /\ j \in Nat /\ r \in Nat /\ s \in Nat
  BY KeptType, ServingCostType, FullType
<1>3. s <= r
  <2> DEFINE x == BrokenSeverity(e)
             y == BrokenSeverity(f)
             p == Cfg.servingPenalty
  <2>1. x \in Nat /\ y \in Nat /\ x <= y /\ p \in Nat
    BY CfgAssumption, BrokenSeverityType, SeverityRises, FullType
  <2> HIDE DEF x, y, p
  <2>2. x * p \in Nat /\ y * p \in Nat /\ x * p <= y * p
    BY <2>1, MulGrows
  <2>3. (x * p) \div 100 <= (y * p) \div 100
    BY <2>2, DivGrows
  <2>4. ServingCost(e) <= ServingCost(f)
    BY <2>3 DEF ServingCost, x, y, p
  <2> QED BY <2>4, ServingCostType, FullType
<1>4. Penalised(f, b) = (j * s) \div Full /\ Penalised(e, a) = (k * r) \div Full
  BY PenalisedParts
<1>5. j <= k
  BY <1>1
<1> HIDE DEF k, j, r, s
<1>6. j * s \in Nat /\ k * r \in Nat /\ j * s <= k * r
  BY <1>2, <1>3, <1>5, MulGrows
<1>7. (j * s) \div Full <= (k * r) \div Full
  BY <1>6, FullType, DivGrows
<1> QED BY <1>4, <1>7

LEMMA CompositeFalls ==
    ASSUME NEW e \in AnyEvidence, NEW f \in AnyEvidence, Worse(e, f)
    PROVE  Composite(f) <= Composite(e) /\ Composite(e) \in Nat /\ Composite(f) \in Nat
<1> DEFINE sub == SubScores(e)
           tub == SubScores(f)
<1>1. sub \in [SubScore -> Scored] /\ tub \in [SubScore -> Scored]
  BY SubScoresType
<1>2. /\ sub["correctness"] = Correctness(e) /\ tub["correctness"] = Correctness(f)
      /\ sub["availability"] = Availability(e) /\ tub["availability"] = Availability(f)
      /\ sub["freshness"] = Freshness(e) /\ tub["freshness"] = Freshness(f)
      /\ sub["coverage"] = Coverage(e) /\ tub["coverage"] = Coverage(f)
  BY DEF SubScores
<1> HIDE DEF sub, tub
<1>3. \A s \in SubScore \ {"correctness"} : NoMore(tub[s], sub[s])
  BY <1>2, SubScoresFall DEF SubScore
<1>4. /\ sub["correctness"] = None => tub["correctness"] = None
      /\ tub["correctness"] # None => tub["correctness"][1] <= sub["correctness"][1]
      /\ sub["correctness"] # None /\ tub["correctness"] = None => sub["correctness"][1] = Full
  BY <1>2, SubScoresFall
<1>5. WeightedMean(tub) <= WeightedMean(sub)
  BY <1>1, <1>3, <1>4, MeanFalls
<1>6. WeightedMean(tub) \in Nat /\ WeightedMean(sub) \in Nat
  BY <1>1, MeanType, FullType
<1> QED BY <1>5, <1>6, PenalisedFalls, PenalisedType DEF Composite, sub, tub

LEMMA RatedStays ==
    ASSUME NEW e \in AnyEvidence, NEW f \in AnyEvidence, Worse(e, f),
           Rated(e), AtLeast(e.allocations, 1)
    PROVE  Rated(f)
<1>1. Active(f)
  BY DEF Active, Worse
<1>2. \A g : Measured(g) <=>
          Correctness(g) # None \/ Availability(g) # None \/ Freshness(g) # None
  BY DEF Measured, Present, SubScores, SubScore
<1>3. CASE Availability(e) # None \/ Freshness(e) # None
  <2>1. Availability(f) # None \/ Freshness(f) # None
    BY <1>3, SubScoresFall DEF NoMore
  <2> QED BY <1>1, <1>2, <2>1 DEF Rated
<1>4. CASE Correctness(e) # None
  <2>1. CASE Correctness(f) # None
    BY <1>1, <1>2, <2>1 DEF Rated
  <2>2. CASE Correctness(f) = None
    <3>1. e.seen.answered \in Nat /\ f.seen.answered \in Nat /\ e.seen.total \in Nat
      BY EvidenceFields
    <3>2. e.seen.answered > 0
      BY <1>4, <3>1 DEF Correctness
    <3>3. f.seen.answered = 0
      BY <2>2, <3>1, SomeValue DEF Correctness
    <3>4. f.seen.total > 0
      BY <3>1, <3>2, <3>3 DEF Worse
    <3>5. AnswerShare(f) # None
      BY <3>4, SomeValue DEF AnswerShare
    <3>6. Availability(f) # None
      BY <3>5, MeanOfType, SubScoresType DEF Availability
    <3> QED BY <1>1, <1>2, <3>6 DEF Rated
  <2> QED BY <2>1, <2>2
<1> QED BY <1>2, <1>3, <1>4 DEF Rated

LEMMA FaultsStay ==
    ASSUME NEW e \in AnyEvidence, NEW f \in AnyEvidence, Worse(e, f),
           NEW times \in {1, 2}, FaultsReach(e, times)
    PROVE  FaultsReach(f, times)
<1> DEFINE a == e.seen.answered
           b == f.seen.answered
           m == e.seen.faults
           n == f.seen.faults
           k == times * Cfg.badDataFaults
           r == times * Cfg.badDataRate
<1>1. a \in Nat /\ b \in Nat /\ m \in Nat /\ n \in Nat
  BY EvidenceFields
<1>2. m <= n /\ b <= a /\ (b = 0 /\ a > 0 => m = 0)
  BY DEF Worse
<1>3. k \in Nat \ {0} /\ r \in Nat
  <2>1. Cfg.badDataFaults \in Nat \ {0}
    BY CfgAssumption
  <2>2. Cfg.badDataRate \in 0..100
    BY CfgAssumption
  <2> QED BY <2>1, <2>2
<1>4. m >= k /\ a > 0 /\ 100 * m >= r * a
  BY DEF FaultsReach
<1>5. FaultsReach(f, times) <=> n >= k /\ b > 0 /\ 100 * n >= r * b
  BY DEF FaultsReach
<1> HIDE DEF a, b, m, n, k, r
<1>6. r * b <= r * a /\ r * b \in Nat /\ r * a \in Nat
  BY <1>1, <1>2, <1>3, MulGrows
<1>7. n >= k /\ b > 0
  BY <1>1, <1>2, <1>3, <1>4
<1>8. 100 * n >= r * b
  BY <1>1, <1>2, <1>4, <1>6
<1> QED BY <1>5, <1>7, <1>8

LEMMA GroundsStay ==
    ASSUME NEW e \in AnyEvidence, NEW f \in AnyEvidence, Worse(e, f),
           NEW a \in Nat, NEW b \in Nat, b <= a,
           NEW kind \in VerdictKind, Grounds(kind, e, a)
    PROVE  Grounds(kind, f, b)
<1>1. ServingBadData(e) => ServingBadData(f)
  BY FaultsStay DEF ServingBadData
<1>2. FaultsReach(e, 2) => FaultsReach(f, 2)
  BY FaultsStay
<1>3. QosFailing(e) => QosFailing(f)
  <2> HAVE QosFailing(e)
  <2>1. NoMore(f.success, e.success) /\ f.queries = e.queries
    BY DEF Worse
  <2>2. f.success # None /\ f.success[1] <= e.success[1] /\ e.success[1] < 100 - Cfg.noDataRate
    BY <2>1 DEF NoMore, QosFailing
  <2>3. e.success[1] \in Nat /\ f.success[1] \in Nat
    BY <2>1, <2>2, EvidenceFields DEF NoMore
  <2>4. Cfg.noDataRate \in 0..100
    BY CfgAssumption
  <2>5. f.success[1] < 100 - Cfg.noDataRate
    BY <2>2, <2>3, <2>4
  <2> QED BY <2>1, <2>2, <2>5 DEF QosFailing
<1>4. ServingNoData(e) => ServingNoData(f)
  <2> SUFFICES ASSUME ServingNoData(e), ~QosFailing(e)
               PROVE  ServingNoData(f)
    BY <1>3 DEF ServingNoData
  <2> DEFINE m == e.recent.errors
             n == f.recent.errors
             bar == Cfg.noDataRate * e.recent.total
  <2>1. e.recent.total >= 3 /\ 100 * m >= bar
    BY DEF ServingNoData
  <2>2. m <= n /\ f.recent.total = e.recent.total
    BY DEF Worse
  <2>3. m \in Nat /\ n \in Nat /\ e.recent.total \in Nat
    BY EvidenceFields
  <2>4. Cfg.noDataRate \in 0..100
    BY CfgAssumption
  <2>5. bar \in Nat
    BY <2>3, <2>4, MulGrows
  <2>6. 100 * n >= bar
    <3> HIDE DEF m, n, bar
    <3> QED BY <2>1, <2>2, <2>3, <2>5
  <2> QED BY <2>1, <2>2, <2>6 DEF ServingNoData
<1>5. Behind(e) => Behind(f)
  <2> HAVE Behind(e)
  <2>1. f.lag # None /\ e.lag[1] <= f.lag[1] /\ e.lag[1] > Cfg.behindLag /\ e.lag # None
    BY DEF Behind, Worse, NoMore
  <2>2. e.lag[1] \in Int /\ f.lag[1] \in Int /\ Cfg.behindLag \in Int
    BY <2>1, CfgAssumption, EvidenceFields
  <2> QED BY <2>1, <2>2 DEF Behind
<1>6. LowCoverage(e) => LowCoverage(f)
  <2> HAVE LowCoverage(e)
  <2>1. /\ f.allocations # None /\ f.allocations[1] <= e.allocations[1]
        /\ e.allocations[1] < Cfg.lowCoverage /\ e.allocations # None
    BY DEF LowCoverage, Worse, NoMore
  <2>2. e.allocations[1] \in Nat /\ f.allocations[1] \in Nat /\ Cfg.lowCoverage \in Int
    BY <2>1, CfgAssumption, EvidenceFields
  <2> QED BY <2>1, <2>2 DEF LowCoverage
<1>7. Leech(e) => Leech(f)
  BY DEF Leech, Worse
<1>8. SwarmMember(e) => SwarmMember(f)
  BY MembershipStays
<1>9. EligibleButFailing(e, a) => EligibleButFailing(f, b)
  <2>1. Cfg.gradeD \in 0..Full
    BY CfgAssumption
  <2>2. a < Cfg.gradeD => b < Cfg.gradeD
    BY <2>1, FullType
  <2>3. e.eligible = f.eligible
    BY DEF Worse
  <2> QED BY <1>1, <1>4, <1>7, <2>2, <2>3 DEF EligibleButFailing
<1> HIDE DEF ServingBadData, FaultsReach, ServingNoData, Behind, LowCoverage, Leech,
             EligibleButFailing, SwarmMember
<1> QED BY <1>1, <1>2, <1>4, <1>5, <1>6, <1>7, <1>8, <1>9
        DEF Grounds, VerdictKind, Structural

LEMMA WorseNeverHelps ==
    ASSUME NEW e \in AnyEvidence, NEW f \in AnyEvidence, Worse(e, f),
           Judge(e).rated, AtLeast(e.allocations, 1)
    PROVE  /\ Judge(f).rated
           /\ Judge(f).composite <= Judge(e).composite
           /\ Judge(e).verdicts \subseteq Judge(f).verdicts
           /\ Judge(e).attention \subseteq Judge(f).attention
<1>1. Rated(e)
  BY DEF Judge
<1>2. Rated(f)
  BY <1>1, RatedStays
<1>3. /\ Judge(e).composite = Composite(e) /\ Judge(f).composite = Composite(f)
      /\ Judge(e).verdicts = Verdicts(e, Composite(e))
      /\ Judge(f).verdicts = Verdicts(f, Composite(f))
      /\ Judge(e).attention = Attention(e) /\ Judge(f).attention = Attention(f)
      /\ Judge(f).rated
  BY <1>1, <1>2 DEF Judge
<1>4. Verdicts(e, Composite(e)) \subseteq Verdicts(f, Composite(f))
  BY CompositeFalls, GroundsStay DEF Verdicts
<1>5. Attention(e) \subseteq Attention(f)
  <2>1. AttentionKind \subseteq VerdictKind
    BY DEF AttentionKind, VerdictKind
  <2> QED BY <2>1, GroundsStay DEF Attention
<1> QED BY <1>3, <1>4, <1>5, CompositeFalls

-----------------------------------------------------------------------------
(* The module's own steps are such harms.                                  *)

\* The tallies of the evidence fit together: no more faults than answers, no more
\* answers or errors than probes.
SoundEvidence ==
    /\ i \in AnyEvidence
    /\ i.seen.faults <= i.seen.answered /\ i.seen.answered <= i.seen.total
    /\ i.recent.errors <= i.recent.total

LEMMA SoundAtFirst == Init => SoundEvidence
<1> SUFFICES ASSUME Init PROVE SoundEvidence
  OBVIOUS
<1>1. PICK n \in {0, 2, MaxProbes}, m \in {0, 3, 40}, l \in {None, Some(0)},
           a \in {None, Some(40)}, d \in Demand, w \in {None, Some(59)} :
             i = Faultless(n, m, l, a, d, w)
  BY DEF Init, Clean
<1>2. n \in Nat /\ m \in Nat /\ Least(n, 3) \in Nat
  BY DEF MaxProbes, Least
<1>3. /\ Tally(n, 0, 0, n) \in Tallies /\ Tally(Least(n, 3), 0, 0, Least(n, 3)) \in Tallies
  BY <1>2 DEF Tally, Tallies
<1>4. /\ l \in Options(Int) /\ a \in Options(Nat) /\ w \in Options(0..100)
  BY OptionValue, SomeValue
<1>5. d.stake \in Options(Nat) /\ d.success \in Options(Nat) /\ d.queries \in Options(Nat)
  <2>1. \A n1 \in Nat : Some(n1) \in Options(Nat)
    BY OptionValue, SomeValue
  <2>2. None \in Options(Nat)
    BY OptionValue
  <2>3. CASE d = [stake |-> None, queries |-> None, success |-> None]
    BY <2>2, <2>3
  <2>4. CASE d = [stake |-> Some(2000000), queries |-> Some(600), success |-> Some(99)]
    <3> DEFINE s1 == Some(2000000)
               s2 == Some(600)
               s3 == Some(99)
    <3>1. s1 \in Options(Nat) /\ s2 \in Options(Nat) /\ s3 \in Options(Nat)
      BY <2>1
    <3> HIDE DEF s1, s2, s3
    <3> QED BY <2>4, <3>1 DEF s1, s2, s3
  <2> QED BY <2>3, <2>4 DEF Demand
<1>6. i \in AnyEvidence
  BY <1>1, <1>2, <1>3, <1>4, <1>5 DEF AnyEvidence, Faultless
<1>7. /\ i.seen.faults = 0 /\ i.seen.answered = n /\ i.seen.total = n
      /\ i.recent.errors = 0 /\ i.recent.total = Least(n, 3)
  BY <1>1 DEF Tally, Faultless
<1> QED BY <1>2, <1>6, <1>7 DEF SoundEvidence

LEMMA NextIsHarm ==
    ASSUME SoundEvidence, [Next]_i
    PROVE  SoundEvidence' /\ Worse(i, i')
<1>1. /\ i \in AnyEvidence /\ i.seen \in Tallies /\ i.recent \in Tallies
      /\ i.seen.faults <= i.seen.answered /\ i.seen.answered <= i.seen.total
      /\ i.recent.errors <= i.recent.total
  BY EvidenceFields DEF SoundEvidence
<1>2. /\ {i.seen.answered, i.seen.faults, i.seen.errors, i.seen.total} \subseteq Nat
      /\ {i.recent.answered, i.recent.faults, i.recent.errors, i.recent.total} \subseteq Nat
      /\ i.measured \in Nat /\ i.erroring \in Nat
      /\ i.lag # None => i.lag[1] \in Int
      /\ i.allocations # None => i.allocations[1] \in Nat
      /\ i.success # None => i.success[1] \in Nat
      /\ i.swarm # None => i.swarm[1] \in 0..100
  BY <1>1, EvidenceFields
<1>3. i = [seen |-> i.seen, recent |-> i.recent, measured |-> i.measured,
           erroring |-> i.erroring, lag |-> i.lag, allocations |-> i.allocations,
           stake |-> i.stake, success |-> i.success, queries |-> i.queries,
           eligible |-> i.eligible, swarm |-> i.swarm]
  BY <1>1 DEF AnyEvidence
<1>4. CASE AnswerTurnsFault
  <2>1. /\ i' = [i EXCEPT !.seen = [i.seen EXCEPT !.faults = i.seen.faults + 1]]
        /\ i.seen.faults < i.seen.answered
    BY <1>4 DEF AnswerTurnsFault
  <2>2. [i.seen EXCEPT !.faults = i.seen.faults + 1] \in Tallies
    BY <1>1, <1>2 DEF Tallies
  <2> DEFINE s == [i.seen EXCEPT !.faults = i.seen.faults + 1]
  <2>3. /\ s.faults = i.seen.faults + 1 /\ s.answered = i.seen.answered
        /\ s.errors = i.seen.errors /\ s.total = i.seen.total
    BY <1>1 DEF Tallies
  <2> HIDE DEF s
  <2>4. i' \in AnyEvidence /\ i' = [i EXCEPT !.seen = s] /\ i'.seen = s
    BY <1>1, <2>1, <2>2 DEF s, AnyEvidence
  <2>5. SoundEvidence'
    BY <1>1, <1>2, <2>1, <2>3, <2>4 DEF SoundEvidence
  <2>6. Worse(i, i')
    BY <1>1, <1>2, <1>3, <2>1, <2>3, <2>4 DEF Worse, NoMore
  <2> QED BY <2>5, <2>6
<1>5. CASE AnswerTurnsError
  <2> DEFINE s == [i.seen EXCEPT !.answered = i.seen.answered - 1,
                                 !.errors = i.seen.errors + 1]
             r == [i.recent EXCEPT !.errors = Least(i.recent.errors + 1, i.recent.total)]
  <2>1. i' = [i EXCEPT !.seen = s, !.recent = r] /\ i.seen.faults < i.seen.answered
    BY <1>5 DEF AnswerTurnsError
  <2>2. /\ s.faults = i.seen.faults /\ s.answered = i.seen.answered - 1
        /\ s.errors = i.seen.errors + 1 /\ s.total = i.seen.total
        /\ r.total = i.recent.total /\ r.errors = Least(i.recent.errors + 1, i.recent.total)
    BY <1>1 DEF Tallies
  <2>3. i.seen.answered - 1 \in Nat /\ i.seen.errors + 1 \in Nat
    BY <1>1, <1>2, <2>1
  <2>4. /\ Least(i.recent.errors + 1, i.recent.total) \in Nat
        /\ i.recent.errors <= Least(i.recent.errors + 1, i.recent.total)
        /\ Least(i.recent.errors + 1, i.recent.total) <= i.recent.total
    BY <1>1, <1>2 DEF Least
  <2>5. s \in Tallies /\ r \in Tallies
    BY <1>1, <2>3, <2>4 DEF Tallies
  <2> HIDE DEF s, r
  <2>6. /\ i' \in AnyEvidence /\ i'.seen = s /\ i'.recent = r
        /\ i' = [i EXCEPT !.seen = s, !.recent = r]
    BY <1>1, <2>1, <2>5 DEF AnyEvidence
  <2>7. SoundEvidence'
    BY <1>1, <1>2, <2>1, <2>2, <2>4, <2>6 DEF SoundEvidence
  <2>8. Worse(i, i')
    BY <1>1, <1>2, <1>3, <2>1, <2>2, <2>4, <2>6 DEF Worse, NoMore
  <2> QED BY <2>7, <2>8
<1>6. CASE DeploymentsBreak
  <2>1. PICK n \in {1, 10} : i' = [i EXCEPT !.erroring = i.erroring + n]
    BY <1>6 DEF DeploymentsBreak
  <2>2. i.erroring + n \in Nat /\ i.erroring <= i.erroring + n
    BY <1>2
  <2>3. i' \in AnyEvidence /\ i'.erroring = i.erroring + n
    BY <1>1, <2>1, <2>2 DEF AnyEvidence
  <2>4. SoundEvidence'
    BY <1>1, <1>3, <2>1, <2>3 DEF SoundEvidence
  <2>5. Worse(i, i')
    BY <1>1, <1>2, <1>3, <2>1, <2>2, <2>3 DEF Worse, NoMore
  <2> QED BY <2>4, <2>5
<1>7. CASE LagGrows
  <2>1. i.lag # None /\ i' = [i EXCEPT !.lag = Some(i.lag[1] + 1200)]
    BY <1>7 DEF LagGrows
  <2>2. i.lag[1] + 1200 \in Int /\ i.lag[1] <= i.lag[1] + 1200
    BY <1>2, <2>1
  <2>3. i' \in AnyEvidence /\ i'.lag = Some(i.lag[1] + 1200)
    <3>1. Some(i.lag[1] + 1200) \in Options(Int)
      BY <2>2, OptionValue, SomeValue
    <3> QED BY <1>1, <2>1, <3>1 DEF AnyEvidence
  <2>4. NoMore(i.lag, i'.lag)
    BY <2>1, <2>2, <2>3, SomeValue DEF NoMore
  <2>5. SoundEvidence'
    BY <1>1, <1>3, <2>1, <2>3 DEF SoundEvidence
  <2>6. Worse(i, i')
    BY <1>1, <1>2, <1>3, <2>1, <2>3, <2>4 DEF Worse, NoMore
  <2> QED BY <2>5, <2>6
<1>8. CASE SuccessDrops
  <2>1. i.success = Some(99) /\ i' = [i EXCEPT !.success = Some(49)]
    BY <1>8 DEF SuccessDrops
  <2>2. i' \in AnyEvidence /\ i'.success = Some(49)
    <3>1. Some(49) \in Options(Nat)
      BY OptionValue, SomeValue
    <3> QED BY <1>1, <2>1, <3>1 DEF AnyEvidence
  <2>3. NoMore(i'.success, i.success)
    BY <2>1, <2>2, SomeValue DEF NoMore
  <2>4. SoundEvidence'
    BY <1>1, <1>3, <2>1, <2>2 DEF SoundEvidence
  <2>5. Worse(i, i')
    BY <1>1, <1>2, <1>3, <2>1, <2>2, <2>3 DEF Worse, NoMore
  <2> QED BY <2>4, <2>5
<1>9. CASE AllocationsClose
  <2>1. i.allocations = Some(40) /\ i' = [i EXCEPT !.allocations = Some(19)]
    BY <1>9 DEF AllocationsClose
  <2>2. i' \in AnyEvidence /\ i'.allocations = Some(19)
    <3>1. Some(19) \in Options(Nat)
      BY OptionValue, SomeValue
    <3> QED BY <1>1, <2>1, <3>1 DEF AnyEvidence
  <2>3. NoMore(i'.allocations, i.allocations) /\ AtLeast(i'.allocations, 1)
    BY <2>1, <2>2, SomeValue DEF NoMore, AtLeast
  <2>4. SoundEvidence'
    BY <1>1, <1>3, <2>1, <2>2 DEF SoundEvidence
  <2>5. Worse(i, i')
    BY <1>1, <1>2, <1>3, <2>1, <2>2, <2>3 DEF Worse, NoMore
  <2> QED BY <2>4, <2>5
<1>10. CASE SwarmFound
  <2>1. i.swarm = Some(59) /\ i' = [i EXCEPT !.swarm = Some(90)]
    BY <1>10 DEF SwarmFound
  <2>2. i' \in AnyEvidence /\ i'.swarm = Some(90)
    <3>1. Some(90) \in Options(0..100)
      BY OptionValue, SomeValue
    <3> QED BY <1>1, <2>1, <3>1 DEF AnyEvidence
  <2>3. i'.swarm # None /\ i.swarm[1] <= i'.swarm[1]
    BY <2>1, <2>2, SomeValue
  <2>4. SoundEvidence'
    BY <1>1, <1>3, <2>1, <2>2 DEF SoundEvidence
  <2>5. Worse(i, i')
    BY <1>1, <1>2, <1>3, <2>1, <2>2, <2>3 DEF Worse, NoMore
  <2> QED BY <2>4, <2>5
<1>11. CASE UNCHANGED i
  BY <1>1, <1>2, <1>11 DEF SoundEvidence, Worse, NoMore
<1> QED BY <1>4, <1>5, <1>6, <1>7, <1>8, <1>9, <1>10, <1>11 DEF Next

\* The tallies that judge is given stay consistent, from faultless evidence on.
THEOREM SoundThroughout == Spec => []SoundEvidence
<1>1. SoundEvidence /\ [Next]_i => SoundEvidence'
  BY NextIsHarm
<1> QED BY SoundAtFirst, <1>1, PTL DEF Spec

\* Before the penalties a rated indexer is worth at least its worst sub-score and at
\* most its best, whatever is missing and whatever the weights: judge renormalises over
\* the sub-scores that exist.
THEOREM AbsenceIsNoVerdict == Spec => []AbsentIsNotZero
<1>1. SoundEvidence => AbsentIsNotZero
  BY AbsentNeverCounts DEF SoundEvidence
<1> QED BY SoundThroughout, <1>1, PTL

\* A harm more never takes the rating away, raises the composite or withdraws a verdict
\* or an item of judge, under any thresholds, weights and penalties.
THEOREM HarmIsNeverRewarded == Spec => HarmNeverHelps
<1> DEFINE Falls ==
             LET before == Judge(i) after == Judge(i')
             IN  before.rated /\ AtLeast(i.allocations, 1) =>
                   /\ after.rated
                   /\ after.composite <= before.composite
                   /\ before.verdicts \subseteq after.verdicts
                   /\ before.attention \subseteq after.attention
<1>1. SoundEvidence /\ [Next]_i => Falls
  <2> SUFFICES ASSUME SoundEvidence, [Next]_i PROVE Falls
    OBVIOUS
  <2>1. i \in AnyEvidence /\ i' \in AnyEvidence /\ Worse(i, i')
    BY NextIsHarm DEF SoundEvidence
  <2> QED BY <2>1, WorseNeverHelps
<1>2. Spec => [][Falls]_i
  <2> HIDE DEF Falls
  <2> QED BY SoundThroughout, <1>1, PTL DEF Spec
<1> QED BY <1>2 DEF HarmNeverHelps

-----------------------------------------------------------------------------
(* Broad failure.                                                          *)

\* What the comments on broad failure need of the configuration.
BroadTuning ==
    /\ Cfg.weight["coverage"] <= Cfg.weight["correctness"]
    /\ Cfg.lowCoverage >= 1 /\ Cfg.brokenRef >= 1
    /\ Full - 50 * Cfg.servingPenalty < Cfg.gradeA
    /\ Full * Cfg.gradeD <= 7500 * (Full - 50 * Cfg.servingPenalty)

LEMMA DefaultIsTuned == Cfg = MCCfg => BroadTuning
BY DEF BroadTuning, MCCfg, Full

LEMMA ShareOfNone ==
    ASSUME NEW b \in Nat \ {0}
    PROVE  Share(0, b) = 0 /\ Without(0, b) = Full
<1>1. 0 * Full = 0 /\ 0 \div b = 0
  BY FullType
<1>2. Share(0, b) = 0
  BY <1>1, FullType DEF Share, Least
<1> QED BY <1>2, FullType DEF Without

\* At least half is worth at least half, at most half no more, and all of it everything.
LEMMA ShareOfHalf ==
    ASSUME NEW a \in Nat, NEW b \in Nat \ {0}
    PROVE  /\ b <= 2 * a => Share(a, b) >= 5000
           /\ 2 * a <= b => Share(a, b) <= 5000
           /\ b <= a => Share(a, b) = Full
<1> DEFINE q == (a * 10000) \div b
<1>1. Full = 10000 /\ a * Full = a * 10000 /\ a * 10000 \in Nat
  BY DEF Full
<1>2. q \in Nat
  BY <1>1, DivType
<1>3. b <= 2 * a => q >= 5000
  <2> HAVE b <= 2 * a
  <2>1. b * 5000 <= a * 10000
    OBVIOUS
  <2> QED BY <1>1, <2>1, DivAtLeast
<1>4. 2 * a <= b => q <= 5000
  <2> HAVE 2 * a <= b
  <2>1. a * 10000 <= b * 5000
    OBVIOUS
  <2> QED BY <1>1, <2>1, DivAtMost
<1>5. b <= a => q >= 10000
  <2> HAVE b <= a
  <2>1. b * 10000 <= a * 10000
    OBVIOUS
  <2> QED BY <1>1, <2>1, DivAtLeast
<1>6. Share(a, b) = Least(10000, q)
  BY <1>1 DEF Share
<1> HIDE DEF q
<1> QED BY <1>1, <1>2, <1>3, <1>4, <1>5, <1>6 DEF Least

\* Half of the deployments, or the reference number of them, is half the severity.
LEMMA SeverityOfHalf ==
    ASSUME NEW e \in AnyEvidence, e.measured >= Cfg.minDeployments, BroadTuning
    PROVE  /\ e.erroring >= Cfg.brokenRef => BrokenSeverity(e) >= 5000
           /\ 2 * e.erroring <= e.measured => BrokenSeverity(e) <= 5000
<1> DEFINE r == Most(Cfg.brokenRef, 1)
           s == Share(e.erroring, e.measured)
           t == Share(e.erroring, r)
<1>1. e.erroring \in Nat /\ e.measured \in Nat /\ Cfg.brokenRef \in Int
  BY CfgAssumption, EvidenceFields
<1>2. r = Cfg.brokenRef /\ r \in Nat \ {0}
  BY <1>1, MostType DEF BroadTuning, Most
<1>3. e.measured \in Nat \ {0} /\ BrokenShare(e) # None /\ BrokenShare(e)[1] = s
  BY BrokenShareType
<1>4. BrokenSeverity(e) = Most(s, t \div 2)
  BY <1>3 DEF BrokenSeverity
<1>5. s \in 0..Full /\ t \in 0..Full
  BY <1>1, <1>2, <1>3, ShareType
<1>6. 2 * e.erroring <= e.measured => s <= 5000
  BY <1>1, <1>3, ShareOfHalf
<1>7. e.erroring >= Cfg.brokenRef => t = Full
  BY <1>1, <1>2, ShareOfHalf
<1> HIDE DEF r, s, t
<1>8. Full = 10000
  BY DEF Full
<1>9. s \in 0..10000 /\ t \in 0..10000
  BY <1>5, <1>8
<1>10. t \in Nat /\ t <= 2 * 5000
  BY <1>9
<1>11. t \div 2 <= 5000 /\ t \div 2 \in Nat
  BY <1>10, DivType, DivAtMost
<1>12. t = 10000 => 5000 <= t \div 2
  <2> HAVE t = 10000
  <2>1. 2 * 5000 <= t
    BY <1>10
  <2> QED BY <1>10, <2>1, DivAtLeast
<1> QED BY <1>4, <1>6, <1>7, <1>8, <1>9, <1>11, <1>12 DEF Most

\* The evidence BroadFailureGraded is about: faultless but for the deployments broken.
FaultlessElse(e) ==
    /\ e.measured >= Cfg.minDeployments
    /\ e.seen.faults = 0 /\ e.seen.errors = 0 /\ e.seen.answered > 0 /\ e.seen.total > 0
    /\ e.lag \in {None, Some(0)}
    /\ ~SwarmMember(e) /\ ~LowCoverage(e)

LEMMA BroadSubScores ==
    ASSUME NEW e \in AnyEvidence, FaultlessElse(e), BroadTuning, 2 * e.erroring <= e.measured
    PROVE  /\ Correctness(e) = Some(Full)
           /\ Availability(e) # None /\ Availability(e)[1] >= 7500
           /\ Freshness(e) # None => Freshness(e)[1] >= 7500
           /\ Coverage(e) # None => Coverage(e)[1] >= 5000
<1>0. Full = 10000
  BY DEF Full
<1>1. Correctness(e) = Some(Full)
  BY EvidenceFields, ShareOfNone DEF FaultlessElse, Correctness
<1>2. Availability(e) # None /\ Availability(e)[1] >= 7500
  <2> DEFINE s == Share(e.erroring, e.measured)
  <2>1. AnswerShare(e) = Some(Full)
    BY EvidenceFields, ShareOfNone DEF FaultlessElse, AnswerShare
  <2>2. BrokenShare(e) # None /\ BrokenShare(e)[1] = s /\ e.measured \in Nat \ {0}
    BY BrokenShareType DEF FaultlessElse
  <2>3. s \in 0..Full /\ s <= 5000
    <3>1. e.erroring \in Nat
      BY EvidenceFields
    <3>2. s \in 0..Full
      BY <2>2, <3>1, ShareType
    <3>3. s <= 5000
      BY <2>2, <3>1, ShareOfHalf
    <3> QED BY <3>2, <3>3
  <2>4. ServedShare(e) = Some(Full - s)
    BY <2>2 DEF ServedShare
  <2> HIDE DEF s
  <2>5. Availability(e) = Some((Full + (Full - s)) \div 2)
    BY <2>1, <2>4, SomeValue DEF Availability, MeanOf
  <2>6. 2 * 7500 <= Full + (Full - s) /\ Full + (Full - s) \in Int
    BY <1>0, <2>3
  <2>7. 7500 <= (Full + (Full - s)) \div 2
    BY <2>6, DivAtLeast
  <2> QED BY <2>5, <2>6, <2>7, SomeValue
<1>3. Freshness(e) # None => Freshness(e)[1] >= 7500
  <2> HAVE Freshness(e) # None
  <2>1. e.lag # None /\ e.lag[1] = 0
    BY SomeValue DEF Freshness, FaultlessElse
  <2>2. Most(e.lag[1], 0) = 0 /\ 4 * Most(Cfg.behindLag, 1) \in Nat \ {0}
    BY <2>1, CfgAssumption, MostType DEF Most
  <2>3. Freshness(e) = Some(Full)
    BY <2>1, <2>2, ShareOfNone DEF Freshness
  <2> QED BY <1>0, <2>3, SomeValue
<1>4. Coverage(e) # None => Coverage(e)[1] >= 5000
  <2> HAVE Coverage(e) # None
  <2> DEFINE a == e.allocations[1]
             b == 2 * Most(Cfg.lowCoverage, 1)
  <2>1. e.allocations # None
    BY DEF Coverage
  <2>2. a \in Nat /\ Cfg.lowCoverage \in Int /\ Cfg.lowCoverage >= 1 /\ ~(a < Cfg.lowCoverage)
    BY <2>1, CfgAssumption, EvidenceFields DEF BroadTuning, FaultlessElse, LowCoverage
  <2>3. b = 2 * Cfg.lowCoverage
    BY <2>2 DEF Most
  <2>4. b \in Nat \ {0} /\ b <= 2 * a
    BY <2>2, <2>3
  <2>5. Coverage(e) = Some(Share(a, b))
    BY <2>1 DEF Coverage
  <2> HIDE DEF a, b
  <2> QED BY <2>2, <2>4, <2>5, ShareOfHalf, SomeValue
<1> QED BY <1>1, <1>2, <1>3, <1>4

LEMMA BroadMean ==
    ASSUME NEW e \in AnyEvidence, FaultlessElse(e), BroadTuning, 2 * e.erroring <= e.measured
    PROVE  WeightedMean(SubScores(e)) >= 7500
<1> DEFINE sub == SubScores(e)
           w(s) == Cfg.weight[s]
           c(s) == Counted(sub)[s]
           v(s) == Worth(sub)[s]
<1>0. Full = 10000
  BY DEF Full
<1>1. sub \in [SubScore -> Scored]
  BY SubScoresType
<1>2. /\ sub["correctness"] = Correctness(e) /\ sub["availability"] = Availability(e)
      /\ sub["freshness"] = Freshness(e) /\ sub["coverage"] = Coverage(e)
  BY DEF SubScores
<1> HIDE DEF sub
<1>3. c("correctness") = w("correctness") /\ v("correctness") = w("correctness") * 10000
  <2>1. sub["correctness"] # None /\ sub["correctness"][1] = Full
    BY <1>2, BroadSubScores, SomeValue
  <2>2. "correctness" \in SubScore
    BY DEF SubScore
  <2>3. c("correctness") = w("correctness") /\ v("correctness") = w("correctness") * Full
    BY <1>1, <2>1, <2>2, WeightsType
  <2> QED BY <1>0, <2>3
<1>4. ASSUME NEW s \in SubScore, NEW lo \in Nat,
             sub[s] # None => sub[s][1] >= lo
      PROVE  lo * c(s) <= v(s) /\ c(s) \in Nat /\ v(s) \in Nat /\ c(s) <= w(s)
  <2>1. CASE sub[s] = None
    <3>1. c(s) = 0 /\ v(s) = 0 /\ w(s) \in 1..100
      BY <1>1, <2>1, WeightsType
    <3> QED BY <3>1
  <2>2. CASE sub[s] # None
    <3> DEFINE x == sub[s][1]
    <3>1. w(s) \in Nat /\ x \in Nat /\ lo <= x /\ c(s) = w(s) /\ v(s) = w(s) * x
      BY <1>1, <1>4, <2>2, WeightsType, FullType
    <3> HIDE DEF x, w, c, v
    <3>2. lo * w(s) <= w(s) * x /\ w(s) * x \in Nat
      BY <3>1
    <3> QED BY <3>1, <3>2
  <2> QED BY <2>1, <2>2
<1>5. /\ 7500 * c("availability") <= v("availability")
      /\ c("availability") \in Nat /\ v("availability") \in Nat
  BY <1>2, <1>4, BroadSubScores DEF SubScore
<1>6. /\ 7500 * c("freshness") <= v("freshness")
      /\ c("freshness") \in Nat /\ v("freshness") \in Nat
  BY <1>2, <1>4, BroadSubScores DEF SubScore
<1>7. /\ 5000 * c("coverage") <= v("coverage") /\ c("coverage") <= w("coverage")
      /\ c("coverage") \in Nat /\ v("coverage") \in Nat
  BY <1>2, <1>4, BroadSubScores DEF SubScore
<1>8. w("correctness") \in 1..100 /\ w("coverage") \in 1..100 /\ w("coverage") <= w("correctness")
  BY CfgAssumption DEF BroadTuning, SubScore
<1>9. /\ OverAll(Counted(sub)) = c("correctness") + c("availability") + c("freshness") + c("coverage")
      /\ OverAll(Worth(sub)) = v("correctness") + v("availability") + v("freshness") + v("coverage")
  BY DEF OverAll
<1> DEFINE d == OverAll(Counted(sub))
           n == OverAll(Worth(sub))
<1>10. d \in Nat \ {0} /\ n \in Nat /\ d * 7500 <= n
  <2> HIDE DEF w, c, v
  <2> QED BY <1>3, <1>5, <1>6, <1>7, <1>8, <1>9
<1>11. WeightedMean(sub) = n \div d
  BY <1>10 DEF WeightedMean
<1> HIDE DEF n, d
<1>12. 7500 <= n \div d /\ n \div d \in Nat
  BY <1>10, DivType, DivAtLeast
<1> QED BY <1>11, <1>12 DEF sub

\* What broken serving takes at half the severity.
LEMMA CostOfHalf ==
    ASSUME NEW m \in Nat, NEW b \in Nat, NEW p \in Nat, NEW x \in Nat, NEW g \in Nat,
           m <= 10000, p <= 100, x <= 10000, x = (b * p) \div 100
    PROVE  /\ b >= 5000 => (m * (10000 - x)) \div 10000 <= 10000 - 50 * p
           /\ b <= 5000 /\ m >= 7500 /\ 10000 * g <= 7500 * (10000 - 50 * p) =>
                 g <= (m * (10000 - x)) \div 10000
<1> DEFINE k == 10000 - x
           r == 10000 - 50 * p
<1>1. k \in Nat /\ r \in Nat
  OBVIOUS
<1>2. b * p \in Nat /\ 50 * p \in Nat
  BY MulGrows
<1>3. b >= 5000 => (m * k) \div 10000 <= r
  <2> HAVE b >= 5000
  <2>1. 5000 * p <= b * p
    BY MulGrows
  <2>2. 100 * (50 * p) <= b * p
    BY <1>2, <2>1
  <2>3. 50 * p <= x
    BY <1>2, <2>2, DivAtLeast
  <2>4. k <= r
    BY <2>3
  <2> HIDE DEF k, r
  <2>5. m * k <= 10000 * r /\ m * k \in Nat
    BY <1>1, <2>4, MulGrows
  <2> QED BY <1>1, <2>5, DivAtMost
<1>4. b <= 5000 /\ m >= 7500 /\ 10000 * g <= 7500 * r => g <= (m * k) \div 10000
  <2> HAVE b <= 5000 /\ m >= 7500 /\ 10000 * g <= 7500 * r
  <2>1. b * p <= 5000 * p
    BY MulGrows
  <2>2. b * p <= 100 * (50 * p)
    BY <1>2, <2>1
  <2>3. x <= 50 * p
    BY <1>2, <2>2, DivAtMost
  <2>4. r <= k
    BY <2>3
  <2> HIDE DEF k, r
  <2>5. 7500 * r <= m * k /\ m * k \in Nat /\ 7500 * r \in Nat
    BY <1>1, <2>4, MulGrows
  <2>6. 10000 * g <= m * k
    BY <2>5
  <2> QED BY <2>5, <2>6, DivAtLeast
<1> QED BY <1>3, <1>4

LEMMA BroadlyGraded ==
    ASSUME NEW e \in AnyEvidence, FaultlessElse(e), BroadTuning, Judge(e).rated
    PROVE  /\ e.erroring >= Cfg.brokenRef => Judge(e).grade # "A"
           /\ 2 * e.erroring <= e.measured => Judge(e).grade # "F"
<1> DEFINE m == WeightedMean(SubScores(e))
           b == BrokenSeverity(e)
           p == Cfg.servingPenalty
           x == ServingCost(e)
           g == Cfg.gradeD
           c == Composite(e)
<1>0. Full = 10000
  BY DEF Full
<1>1. \A n \in 0..Full : n \in Nat /\ n <= 10000
  <2>1. \A n \in 0..Full : n \in Nat /\ n <= Full
    BY FullType
  <2> QED BY <1>0, <2>1
<1>2. p \in 0..100 /\ b \in 0..Full /\ x \in 0..Full /\ m \in 0..Full
  BY CfgAssumption, BrokenSeverityType, ServingCostType, SubScoresType, MeanType
<1>3. /\ g \in 0..Full /\ Cfg.gradeA \in 0..Full /\ Cfg.gradeB \in 0..Full
      /\ Cfg.gradeC \in 0..Full
  BY CfgAssumption
<1>4. c = (m * (10000 - x)) \div 10000 /\ x = (b * p) \div 100
  BY <1>0, PenalisedParts DEF FaultlessElse, Kept, Composite, ServingCost
<1>5. Judge(e).grade = Grade(c)
  BY DEF Judge
<1>6. 10000 - 50 * p < Cfg.gradeA /\ 10000 * g <= 7500 * (10000 - 50 * p)
  BY <1>0 DEF BroadTuning
<1>7. /\ e.erroring >= Cfg.brokenRef => b >= 5000
      /\ 2 * e.erroring <= e.measured => b <= 5000 /\ m >= 7500
  BY SeverityOfHalf, BroadMean DEF FaultlessElse
<1>8. c \in Nat
  <2>1. m \in Nat
    BY <1>1, <1>2
  <2> QED BY <2>1, PenalisedType DEF Composite
<1>9. Grade(c) = "A" => c >= Cfg.gradeA
  BY DEF Grade
<1>10. c >= g => Grade(c) # "F"
  BY DEF Grade
<1> HIDE DEF m, b, p, x, g, c
<1>11. /\ m \in Nat /\ b \in Nat /\ p \in Nat /\ x \in Nat /\ g \in Nat
       /\ m <= 10000 /\ p <= 100 /\ x <= 10000
  BY <1>1, <1>2, <1>3
<1>12. b >= 5000 => c <= 10000 - 50 * p
  BY <1>4, <1>11, CostOfHalf
<1>13. b <= 5000 /\ m >= 7500 => g <= c
  BY <1>4, <1>6, <1>11, CostOfHalf
<1>14. b >= 5000 => ~(c >= Cfg.gradeA)
  <2>1. Cfg.gradeA \in Nat
    BY <1>1, <1>3
  <2> QED BY <1>6, <1>8, <1>11, <1>12, <2>1
<1>15. g <= c => c >= g
  BY <1>8, <1>11
<1> QED BY <1>5, <1>7, <1>9, <1>10, <1>13, <1>14, <1>15

\* Under the default configuration, and under any tuned like it, as many broken
\* deployments as the reference cost an indexer without another fault the A, and at
\* most half of them broken never earn it the F (serving_broken_severity).
THEOREM BroadFailureIsGraded ==
    ASSUME BroadTuning
    PROVE  Spec => []BroadFailureGraded
<1>1. SoundEvidence => BroadFailureGraded
  <2> SUFFICES ASSUME SoundEvidence, Judge(i).rated, i.measured >= Cfg.minDeployments,
                      i.seen.faults = 0, i.seen.errors = 0, i.seen.answered > 0,
                      i.lag \in {None, Some(0)},
                      ~AtLeast(i.swarm, Cfg.sybilConfidence), ~LowCoverage(i)
               PROVE  /\ i.erroring >= Cfg.brokenRef => Judge(i).grade # "A"
                      /\ 2 * i.erroring <= i.measured => Judge(i).grade # "F"
    BY DEF BroadFailureGraded
  <2>1. i \in AnyEvidence /\ i.seen.answered <= i.seen.total
    BY DEF SoundEvidence
  <2>2. i.seen.total > 0
    BY <2>1, EvidenceFields
  <2>3. FaultlessElse(i)
    BY <2>2 DEF FaultlessElse, SwarmMember
  <2> QED BY <2>1, <2>3, BroadlyGraded
<1> QED BY SoundThroughout, <1>1, PTL
=============================================================================
