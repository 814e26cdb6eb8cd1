------------------------- MODULE ScorerCycleProofs -------------------------
(***************************************************************************)
(* What holds of the scoring cycle for every number of indexers,           *)
(* deployments and windows, whatever evidence the tables may hold: after a *)
(* whole cycle beside which nothing changed the board says what the tables *)
(* call for, and nothing still due is withdrawn on the way there.          *)
(*                                                                         *)
(* No property is inductive: each speaks of the end of a cycle or of one   *)
(* delete, and what makes it true was read and written many statements     *)
(* earlier.  ScorerInv says, for every indexer whose tables did not change *)
(* since the cycle began, that what was read is still what the tables      *)
(* hold, that what waits to be written is what is due, that what has been  *)
(* written is due and that what is due has been written, as far as the     *)
(* cycle has come.                                                         *)
(***************************************************************************)
EXTENDS ScorerCycle, FiniteSetTheorems, NaturalsInduction, WellFoundedInduction, TLAPS

Grades == {"A", "B", "C", "D", "F", "NR"}

LagKinds == {"behind-deployments", "behind-deployment"}
WideKinds == {"serving-errors", "behind-deployments"}
NarrowKinds == {"serving-errors-deployment", "behind-deployment"}

Fields == {"swarm", "profile", "health", "lag", "recent", "agg"}

\* The cycle reads in this order, then scores, checks and drops.
Loading == {"swarm", "profiles", "health", "lag", "recent"}
Scoring == {"window", "score"}
Closing == {"errors", "lags", "verdicts", "attention"}

\* The cycle has not ended half done.
Whole == "cycle" \notin unchecked
NoClock == "clock" \notin unchecked
SybilRan == "sybil" \notin unchecked

Undisturbed == Indexer \ disturbed

-----------------------------------------------------------------------------
(* The invariant.                                                          *)

\* An item about the indexer as a whole names no deployment; a rolled-up one
\* names some, and one about a deployment names that one.
ItemTypeOK(k, named) ==
    \/ k \in Indexer \X AttentionKind \X {NoDeployment} /\ named = {}
    \/ k \in Indexer \X WideKinds \X {NoDeployment} /\ named # {} /\ named \subseteq Deployment
    \/ k \in Indexer \X NarrowKinds \X Deployment /\ named = {k[3]}

JudgementOK(j) ==
    j.grade \in Grades /\ j.verdicts \subseteq VerdictKind /\ j.attention \subseteq AttentionKind

RowsTypeOK ==
    /\ verdicts \subseteq Indexer \X VerdictKind
    /\ \A k \in DOMAIN attention : ItemTypeOK(k, attention[k])
    /\ fresh \subseteq verdicts \cup DOMAIN attention

\* Where the cycle is tells which windows are left, and whether any address waits.
StageOK ==
    /\ pc \in {"sleep"} \cup Loading \cup Scoring \cup Closing
    /\ windows \subseteq Windows
    /\ pc \in Loading => windows = Windows
    /\ pc \in Scoring => windows # {}
    /\ pc \in {"sleep"} \cup Closing => windows = {}
    /\ pc # "score" => pending = <<>>
    /\ DOMAIN pending \subseteq Indexer
    /\ \A x \in DOMAIN pending : JudgementOK(pending[x])
    /\ DOMAIN read = Fields
    /\ pc # "sleep" => Whole

CycleTypeOK ==
    /\ tables \in [Indexer -> Evidence]
    /\ scores \in [Indexer -> [Windows -> Options(Grades)]]
    /\ RowsTypeOK /\ StageOK
    /\ changes \in 0..MaxChanges /\ failures \in 0..MaxFailures

\* What has been read of x is what its tables hold.
ReadHolds(x) ==
    /\ pc \in {"profiles", "health", "lag", "recent"} \cup Scoring /\ SybilRan =>
          read.swarm[x] = tables[x].swarm
    /\ pc \in {"health", "lag", "recent"} \cup Scoring => read.profile[x] = tables[x].profile
    /\ pc \in {"lag", "recent"} \cup Scoring => read.health[x] = AllocHealth(tables[x])
    /\ pc \in {"recent"} \cup Scoring => read.lag[x] = tables[x].lag
    /\ pc \in Scoring => read.recent[x] = tables[x].recent

ReadInStep == \A x \in Undisturbed : ReadHolds(x)

\* What waits to be written of x is what is due; without the swarm its items still are.
PendingInStep ==
    \A x \in Undisturbed \cap DOMAIN pending :
        /\ x \in Listed(tables, Min(windows))
        /\ pending[x].attention = Due(tables, Min(windows), x).attention
        /\ SybilRan => pending[x] = Due(tables, Min(windows), x)

\* The cycle is done with x in window w.
Passed(x, w) ==
    \/ w \notin windows
    \/ pc = "score" /\ w = Min(windows) /\ x \notin DOMAIN pending

Published(x, w) ==
    /\ SybilRan => scores[x][w] = Some(Due(tables, w, x).grade)
    /\ w = Primary /\ NoClock =>
          /\ SybilRan => VerdictRows(x, Due(tables, w, x)) \subseteq fresh
          /\ DOMAIN ItemRows(x, Due(tables, w, x)) \subseteq fresh

DueIsWritten ==
    Whole => \A x \in Undisturbed : \A w \in Windows :
        x \in Listed(tables, w) /\ Passed(x, w) => Published(x, w)

\* Nothing is written of x but what is due.
FreshIsDue ==
    Whole => \A x \in Undisturbed :
        /\ SybilRan => \A kind \in VerdictKind : <<x, kind>> \in fresh =>
              x \in Listed(tables, Primary) /\ kind \in Due(tables, Primary, x).verdicts
        /\ \A kind \in AttentionKind : <<x, kind, NoDeployment>> \in fresh =>
              x \in Listed(tables, Primary) /\ kind \in Due(tables, Primary, x).attention

\* Of the items of these kinds about x just these have been written.
OnlyThese(x, kinds, items) ==
    \A k \in fresh \cap DOMAIN attention :
        k[1] = x /\ k[2] \in kinds => k \in DOMAIN items /\ attention[k] = items[k]

\* What errs of x depends on its own tables, what lags on those of its peers.
ErringInStep ==
    Whole => \A x \in Undisturbed :
        /\ OnlyThese(x, ErringKinds, ErringItems(tables, x))
        /\ pc \notin {"errors"} \cup Loading \cup Scoring /\ "errors" \notin unchecked /\ NoClock =>
              DOMAIN ErringItems(tables, x) \subseteq fresh

LaggingInStep ==
    Whole /\ disturbed = {} => \A x \in Indexer :
        /\ OnlyThese(x, LagKinds, LaggingItems(tables, x))
        /\ pc \notin {"errors", "lags"} \cup Loading \cup Scoring
           /\ "lags" \notin unchecked /\ NoClock =>
              DOMAIN LaggingItems(tables, x) \subseteq fresh

\* What the deletes leave was written by this cycle.
OldIsDropped ==
    Whole /\ NoClock =>
        /\ pc \in {"attention", "sleep"} => verdicts \subseteq fresh
        /\ pc = "sleep" => DOMAIN attention \subseteq fresh

ScorerInv ==
    /\ CycleTypeOK /\ ReadInStep /\ PendingInStep /\ DueIsWritten
    /\ FreshIsDue /\ ErringInStep /\ LaggingInStep /\ OldIsDropped
-----------------------------------------------------------------------------
(* The windows.                                                            *)

\* A set of naturals with an element has a least one.
LEMMA HasLeast ==
    ASSUME NEW S \in SUBSET Nat, S # {}
    PROVE  \E a \in S : \A b \in S : a <= b
<1> DEFINE less == {pair \in Nat \X Nat : pair[1] < pair[2]}
<1>1. IsWellFoundedOn(less, Nat)
  BY NatLessThanWellFounded DEF OpToRel
<1>2. PICK a \in S : \A b \in S : ~(<<b, a>> \in less)
  <2> HIDE DEF less
  <2> QED BY <1>1, WFMin
<1>3. ASSUME NEW b \in S PROVE a <= b
  <2>1. a \in Nat /\ b \in Nat
    OBVIOUS
  <2>2. ~(b < a)
    BY <1>2, <2>1
  <2> QED BY <2>1, <2>2
<1> QED BY <1>3

\* And a greatest one when it is finite: of the finite sets without one there would
\* be a smallest, and to take an element from it would leave one with a greatest.
LEMMA FiniteHasGreatest ==
    ASSUME NEW S \in SUBSET Nat, IsFiniteSet(S), S # {}
    PROVE  \E a \in S : \A b \in S : b <= a
<1> DEFINE Bounded(U) == \E a \in U : \A b \in U : b <= a
           sizes == {n \in Nat : \E U \in SUBSET S :
                                     U # {} /\ Cardinality(U) = n /\ ~Bounded(U)}
<1> SUFFICES ASSUME ~Bounded(S) PROVE FALSE
  OBVIOUS
<1>1. Cardinality(S) \in sizes
  BY FS_CardinalityType
<1>2. PICK n \in sizes : \A m \in sizes : n <= m
  <2> HIDE DEF sizes
  <2>1. sizes \subseteq Nat
    BY DEF sizes
  <2> QED BY <1>1, <2>1, HasLeast
<1>3. PICK U \in SUBSET S : U # {} /\ Cardinality(U) = n /\ ~Bounded(U)
  OBVIOUS
<1>4. PICK x \in U : TRUE
  BY <1>3
<1>5. IsFiniteSet(U) /\ n \in Nat
  BY FS_Subset
<1>6. Cardinality(U \ {x}) = n - 1 /\ IsFiniteSet(U \ {x})
  BY <1>3, <1>4, <1>5, FS_RemoveElement
<1>7. Cardinality(U \ {x}) \in Nat
  BY <1>6, FS_CardinalityType
<1>8. n - 1 \notin sizes
  BY <1>2, <1>5
<1>9. CASE U \ {x} = {}
  <2>1. x \in Nat /\ \A b \in U : b = x
    BY <1>4, <1>9
  <2> QED BY <1>3, <1>4, <2>1
<1>10. CASE U \ {x} # {}
  <2>1. Bounded(U \ {x})
    BY <1>6, <1>7, <1>8, <1>10
  <2>2. PICK a \in U \ {x} : \A b \in U \ {x} : b <= a
    BY <2>1
  <2>3. a \in Nat /\ x \in Nat
    BY <1>4
  <2>4. \A b \in U : b <= (IF a <= x THEN x ELSE a)
    BY <1>4, <2>2, <2>3
  <2> QED BY <1>3, <1>4, <2>2, <2>3, <2>4
<1> QED BY <1>9, <1>10

LEMMA Extremes ==
    ASSUME NEW S \in SUBSET Nat, IsFiniteSet(S), S # {}
    PROVE  /\ Max(S) \in S /\ \A x \in S : x <= Max(S)
           /\ Min(S) \in S /\ \A x \in S : Min(S) <= x
<1>1. \E a \in S : \A b \in S : a >= b
  BY FiniteHasGreatest
<1>2. \E a \in S : \A b \in S : a <= b
  BY HasLeast
<1>3. Max(S) \in S /\ \A x \in S : x <= Max(S)
  BY <1>1 DEF Max
<1>4. Min(S) \in S /\ \A x \in S : Min(S) <= x
  BY <1>2 DEF Min
<1> QED BY <1>3, <1>4

\* The longest window is one of them, and the shortest left is one of those left.
LEMMA PrimaryIsScored == Primary \in Windows
BY ScorerAssumption, Extremes DEF Primary

LEMMA NextIsLeft ==
    ASSUME NEW left \in SUBSET Windows, left # {}
    PROVE  Min(left) \in left
<1>1. IsFiniteSet(left) /\ left \subseteq Nat
  BY ScorerAssumption, FS_Subset
<1> QED BY <1>1, Extremes

-----------------------------------------------------------------------------
(* The judgement and what it is made from.                                 *)

LEMMA JudgementType ==
    ASSUME NEW i
    PROVE  JudgementOK(Judge(i))
<1>1. Verdicts(i, Composite(i)) \subseteq VerdictKind /\ Verdicts(i, 0) \subseteq VerdictKind
  BY DEF Verdicts
<1>2. Attention(i) \subseteq AttentionKind
  BY DEF Attention
<1>3. Grade(Composite(i)) \in Grades
  BY DEF Grade, Grades
<1> QED BY <1>1, <1>2, <1>3 DEF Judge, JudgementOK, Grades

\* Whether there is a rating, and what needs attention, does not depend on the swarm.
LEMMA AttentionIgnoresSwarm ==
    ASSUME NEW i, NEW j,
           i.seen = j.seen, i.recent = j.recent, i.lag = j.lag, i.allocations = j.allocations,
           i.success = j.success, i.queries = j.queries,
           i.measured = j.measured, i.erroring = j.erroring
    PROVE  Judge(i).attention = Judge(j).attention
<1>1. SubScores(i) = SubScores(j)
  <2>1. Correctness(i) = Correctness(j) /\ Freshness(i) = Freshness(j)
        /\ Coverage(i) = Coverage(j)
    BY DEF Correctness, Freshness, Coverage
  <2>2. BrokenShare(i) = BrokenShare(j)
    BY DEF BrokenShare
  <2>3. AnswerShare(i) = AnswerShare(j) /\ ServedShare(i) = ServedShare(j)
    BY <2>2 DEF AnswerShare, ServedShare
  <2>4. Availability(i) = Availability(j)
    BY <2>3 DEF Availability
  <2> QED BY <2>1, <2>4 DEF SubScores
<1>2. Rated(i) = Rated(j)
  BY <1>1 DEF Rated, Active, Measured
<1>3. Attention(i) = Attention(j)
  <2>1. ASSUME NEW kind \in AttentionKind PROVE Grounds(kind, i, 0) = Grounds(kind, j, 0)
    BY DEF AttentionKind, Grounds, ServingBadData, FaultsReach, ServingNoData, QosFailing, Behind
  <2> QED BY <2>1 DEF Attention
<1> QED BY <1>2, <1>3 DEF Judge

\* What is known of x is what was read of x.
LEMMA OwnEvidence ==
    ASSUME NEW r, NEW s, NEW x \in Indexer,
           r.profile[x] = s.profile[x], r.health[x] = s.health[x], r.lag[x] = s.lag[x],
           r.recent[x] = s.recent[x], r.agg[x] = s.agg[x]
    PROVE  /\ x \in Addresses(r) <=> x \in Addresses(s)
           /\ Judge(Assemble(r, x)).attention = Judge(Assemble(s, x)).attention
           /\ r.swarm[x] = s.swarm[x] => Judge(Assemble(r, x)) = Judge(Assemble(s, x))
<1>1. x \in Addresses(r) <=> x \in Addresses(s)
  BY DEF Addresses
<1>2. Judge(Assemble(r, x)).attention = Judge(Assemble(s, x)).attention
  <2> DEFINE i == Assemble(r, x)
             j == Assemble(s, x)
  <2>1. /\ i.seen = j.seen /\ i.recent = j.recent /\ i.lag = j.lag
        /\ i.allocations = j.allocations /\ i.success = j.success /\ i.queries = j.queries
        /\ i.measured = j.measured /\ i.erroring = j.erroring
    BY DEF Assemble
  <2> HIDE DEF i, j
  <2>2. Judge(i).attention = Judge(j).attention
    BY <2>1, AttentionIgnoresSwarm
  <2> QED BY <2>2 DEF i, j
<1>3. ASSUME r.swarm[x] = s.swarm[x] PROVE Judge(Assemble(r, x)) = Judge(Assemble(s, x))
  <2>1. Assemble(r, x) = Assemble(s, x)
    BY <1>3 DEF Assemble
  <2> QED BY <2>1
<1> QED BY <1>1, <1>2, <1>3

\* What is due of x depends on its own tables only.
LEMMA DueOfOwn ==
    ASSUME NEW t, NEW u, NEW x \in Indexer, t[x] = u[x], NEW w
    PROVE  /\ x \in Listed(t, w) <=> x \in Listed(u, w)
           /\ Due(t, w, x) = Due(u, w, x)
           /\ ErringItems(t, x) = ErringItems(u, x)
<1> DEFINE r == Snapshot(t, w)
           s == Snapshot(u, w)
<1>1. /\ r.profile[x] = s.profile[x] /\ r.health[x] = s.health[x] /\ r.lag[x] = s.lag[x]
      /\ r.recent[x] = s.recent[x] /\ r.agg[x] = s.agg[x] /\ r.swarm[x] = s.swarm[x]
  BY DEF Snapshot
<1> HIDE DEF r, s
<1>2. (x \in Addresses(r) <=> x \in Addresses(s)) /\ Judge(Assemble(r, x)) = Judge(Assemble(s, x))
  BY <1>1, OwnEvidence
<1>3. ErringItems(t, x) = ErringItems(u, x)
  BY DEF ErringItems
<1> QED BY <1>2, <1>3 DEF Listed, Due, r, s

-----------------------------------------------------------------------------
(* The items.                                                              *)

LEMMA KeysApart ==
    ASSUME NEW v \in Indexer \X VerdictKind, NEW k, NEW named, ItemTypeOK(k, named)
    PROVE  v # k
<1>1. Len(v) = 2
  BY DEF VerdictKind
<1>2. Len(k) = 3
  BY DEF ItemTypeOK
<1> QED BY <1>1, <1>2

\* Whether rolled up or not, the items about x are well formed and name what they
\* are to name, all of it and nothing else.
LEMMA ItemsForType ==
    ASSUME NEW x \in Indexer, NEW wide \in WideKinds, NEW narrow \in NarrowKinds,
           NEW ds \in SUBSET Deployment
    PROVE  /\ \A k \in DOMAIN ItemsFor(x, wide, narrow, ds) :
                 /\ k[1] = x /\ k[2] \in {wide, narrow}
                 /\ ItemTypeOK(k, ItemsFor(x, wide, narrow, ds)[k])
           /\ \A d : (\E k \in DOMAIN ItemsFor(x, wide, narrow, ds) :
                          d \in ItemsFor(x, wide, narrow, ds)[k]) <=> d \in ds
<1> DEFINE items == ItemsFor(x, wide, narrow, ds)
<1>1. CASE Cardinality(ds) >= RollupThreshold
  <2>1. ds # {}
    BY <1>1, ScorerAssumption, FS_EmptySet
  <2>2. DOMAIN items = {<<x, wide, NoDeployment>>} /\ items[<<x, wide, NoDeployment>>] = ds
    BY <1>1 DEF ItemsFor
  <2> QED BY <2>1, <2>2 DEF ItemTypeOK
<1>2. CASE ~(Cardinality(ds) >= RollupThreshold)
  <2>1. items = [k \in {<<x, narrow, d>> : d \in ds} |-> {k[3]}]
    BY <1>2 DEF ItemsFor
  <2> HIDE DEF items
  <2>2. ASSUME NEW k \in DOMAIN items
        PROVE  \E d \in ds : k = <<x, narrow, d>> /\ items[k] = {d}
    BY <2>1
  <2>3. \A d \in ds : <<x, narrow, d>> \in DOMAIN items /\ items[<<x, narrow, d>>] = {d}
    BY <2>1
  <2>4. ASSUME NEW k \in DOMAIN items
        PROVE  k[1] = x /\ k[2] \in {wide, narrow} /\ ItemTypeOK(k, items[k])
    BY <2>2 DEF ItemTypeOK
  <2>5. ASSUME NEW d PROVE (\E k \in DOMAIN items : d \in items[k]) <=> d \in ds
    BY <2>2, <2>3
  <2> QED BY <2>4, <2>5 DEF items
<1> QED BY <1>1, <1>2

LEMMA ErringItemsType ==
    ASSUME NEW t, NEW x \in Indexer
    PROVE  /\ \A k \in DOMAIN ErringItems(t, x) :
                 k[1] = x /\ k[2] \in ErringKinds /\ ItemTypeOK(k, ErringItems(t, x)[k])
           /\ \A d : (\E k \in DOMAIN ErringItems(t, x) : d \in ErringItems(t, x)[k])
                        <=> d \in ErringOn(t[x])
<1>1. ErringOn(t[x]) \in SUBSET Deployment
  BY DEF ErringOn
<1>2. "serving-errors" \in WideKinds /\ "serving-errors-deployment" \in NarrowKinds
  BY DEF WideKinds, NarrowKinds
<1> QED BY <1>1, <1>2, ItemsForType DEF ErringItems, ErringKinds

LEMMA LaggingItemsType ==
    ASSUME NEW t, NEW x \in Indexer
    PROVE  /\ \A k \in DOMAIN LaggingItems(t, x) :
                 k[1] = x /\ k[2] \in LagKinds /\ ItemTypeOK(k, LaggingItems(t, x)[k])
           /\ \A d : (\E k \in DOMAIN LaggingItems(t, x) : d \in LaggingItems(t, x)[k])
                        <=> d \in LaggingOn(t, x)
<1>1. LaggingOn(t, x) \in SUBSET Deployment
  BY DEF LaggingOn
<1>2. "behind-deployments" \in WideKinds /\ "behind-deployment" \in NarrowKinds
  BY DEF WideKinds, NarrowKinds
<1> QED BY <1>1, <1>2, ItemsForType DEF LaggingItems, LagKinds

\* What a check finds of all indexers is what it finds of each.
ErringFound(t) == Merged([x \in Indexer |-> ErringItems(t, x)])
LaggingFound(t) == Merged([x \in Indexer |-> LaggingItems(t, x)])

LEMMA MergedItems ==
    ASSUME NEW items, \A x \in Indexer : \A k \in DOMAIN items[x] : k[1] = x
    PROVE  /\ \A k \in DOMAIN Merged(items) :
                 k[1] \in Indexer /\ k \in DOMAIN items[k[1]] /\ Merged(items)[k] = items[k[1]][k]
           /\ \A x \in Indexer : DOMAIN items[x] \subseteq DOMAIN Merged(items)
<1>1. DOMAIN Merged(items) = UNION {DOMAIN items[x] : x \in Indexer}
  BY DEF Merged
<1>2. \A k \in DOMAIN Merged(items) : Merged(items)[k] = items[k[1]][k]
  BY DEF Merged
<1> QED BY <1>1, <1>2

LEMMA ErringFoundType ==
    ASSUME NEW t
    PROVE  /\ \A k \in DOMAIN ErringFound(t) :
                 /\ k[1] \in Indexer /\ k[2] \in ErringKinds
                 /\ k \in DOMAIN ErringItems(t, k[1])
                 /\ ErringFound(t)[k] = ErringItems(t, k[1])[k]
                 /\ ItemTypeOK(k, ErringFound(t)[k])
           /\ \A x \in Indexer : DOMAIN ErringItems(t, x) \subseteq DOMAIN ErringFound(t)
<1> DEFINE items == [x \in Indexer |-> ErringItems(t, x)]
<1>1. \A x \in Indexer : items[x] = ErringItems(t, x)
  OBVIOUS
<1> HIDE DEF items
<1>2. \A x \in Indexer : \A k \in DOMAIN items[x] : k[1] = x
  BY <1>1, ErringItemsType
<1>3. /\ \A k \in DOMAIN Merged(items) :
            k[1] \in Indexer /\ k \in DOMAIN items[k[1]] /\ Merged(items)[k] = items[k[1]][k]
      /\ \A x \in Indexer : DOMAIN items[x] \subseteq DOMAIN Merged(items)
  BY <1>2, MergedItems
<1>4. ErringFound(t) = Merged(items)
  BY DEF ErringFound, items
<1> QED BY <1>1, <1>3, <1>4, ErringItemsType

LEMMA LaggingFoundType ==
    ASSUME NEW t
    PROVE  /\ \A k \in DOMAIN LaggingFound(t) :
                 /\ k[1] \in Indexer /\ k[2] \in LagKinds
                 /\ k \in DOMAIN LaggingItems(t, k[1])
                 /\ LaggingFound(t)[k] = LaggingItems(t, k[1])[k]
                 /\ ItemTypeOK(k, LaggingFound(t)[k])
           /\ \A x \in Indexer : DOMAIN LaggingItems(t, x) \subseteq DOMAIN LaggingFound(t)
<1> DEFINE items == [x \in Indexer |-> LaggingItems(t, x)]
<1>1. \A x \in Indexer : items[x] = LaggingItems(t, x)
  OBVIOUS
<1> HIDE DEF items
<1>2. \A x \in Indexer : \A k \in DOMAIN items[x] : k[1] = x
  BY <1>1, LaggingItemsType
<1>3. /\ \A k \in DOMAIN Merged(items) :
            k[1] \in Indexer /\ k \in DOMAIN items[k[1]] /\ Merged(items)[k] = items[k[1]][k]
      /\ \A x \in Indexer : DOMAIN items[x] \subseteq DOMAIN Merged(items)
  BY <1>2, MergedItems
<1>4. LaggingFound(t) = Merged(items)
  BY DEF LaggingFound, items
<1> QED BY <1>1, <1>3, <1>4, LaggingItemsType

\* What a batch of upserts leaves.
LEMMA UpsertWrites ==
    ASSUME NEW rows, NEW items, Upsert(rows, items)
    PROVE  /\ verdicts' = verdicts \cup rows
           /\ fresh' = fresh \cup rows \cup DOMAIN items
           /\ DOMAIN attention' = DOMAIN items \cup DOMAIN attention
           /\ \A k \in DOMAIN items : attention'[k] = items[k]
           /\ \A k \in DOMAIN attention \ DOMAIN items : attention'[k] = attention[k]
BY DEF Upsert

\* Some of what was found, or all of it.
PartOf(items, found) ==
    DOMAIN items \subseteq DOMAIN found /\ \A k \in DOMAIN items : items[k] = found[k]

\* Either check writes a part of what it finds, the whole of it unless it fails.
LEMMA ErringWritten ==
    FindErring => \E items : /\ PartOf(items, ErringFound(tables)) /\ Upsert({}, items)
                             /\ DOMAIN items = DOMAIN ErringFound(tables)
BY DEF FindErring, ErringFound, PartOf

LEMMA LaggingWritten ==
    FindLagging => \E items : /\ PartOf(items, LaggingFound(tables)) /\ Upsert({}, items)
                              /\ DOMAIN items = DOMAIN LaggingFound(tables)
BY DEF FindLagging, LaggingFound, PartOf

LEMMA PartWritten ==
    ASSUME pc \in {"errors", "lags"}, CheckedInPart
    PROVE  \/ pc = "errors" /\ \E items : PartOf(items, ErringFound(tables)) /\ Upsert({}, items)
           \/ pc = "lags" /\ \E items : PartOf(items, LaggingFound(tables)) /\ Upsert({}, items)
<1>1. ASSUME NEW found, NEW done \in SUBSET DOMAIN found
      PROVE  PartOf(Restrict(found, done), found)
  BY DEF PartOf, Restrict
<1>2. CASE pc = "errors"
  <2>1. [x \in Indexer |-> IF pc = "errors" THEN ErringItems(tables, x) ELSE LaggingItems(tables, x)]
          = [x \in Indexer |-> ErringItems(tables, x)]
    BY <1>2
  <2> QED BY <1>1, <1>2, <2>1 DEF CheckedInPart, ErringFound
<1>3. CASE pc = "lags"
  <2>1. [x \in Indexer |-> IF pc = "errors" THEN ErringItems(tables, x) ELSE LaggingItems(tables, x)]
          = [x \in Indexer |-> LaggingItems(tables, x)]
    BY <1>3
  <2> QED BY <1>1, <1>3, <2>1 DEF CheckedInPart, LaggingFound
<1> QED BY <1>2, <1>3

-----------------------------------------------------------------------------
(* The types.                                                              *)

LEMMA RowsOfJudgement ==
    ASSUME NEW x \in Indexer, NEW j,
           j.verdicts \subseteq VerdictKind, j.attention \subseteq AttentionKind
    PROVE  /\ VerdictRows(x, j) \subseteq Indexer \X VerdictKind
           /\ DOMAIN ItemRows(x, j) = {<<x, kind, NoDeployment>> : kind \in j.attention}
           /\ \A k \in DOMAIN ItemRows(x, j) : ItemTypeOK(k, ItemRows(x, j)[k])
<1>1. VerdictRows(x, j) \subseteq Indexer \X VerdictKind
  BY DEF VerdictRows
<1>2. DOMAIN ItemRows(x, j) = {<<x, kind, NoDeployment>> : kind \in j.attention}
  BY DEF ItemRows
<1>3. \A k \in DOMAIN ItemRows(x, j) :
          ItemRows(x, j)[k] = {} /\ k \in Indexer \X AttentionKind \X {NoDeployment}
  BY <1>2 DEF ItemRows
<1> QED BY <1>1, <1>2, <1>3 DEF ItemTypeOK

LEMMA WritesKeepRows ==
    ASSUME RowsTypeOK, NEW rows, NEW items, Upsert(rows, items),
           rows \subseteq Indexer \X VerdictKind, \A k \in DOMAIN items : ItemTypeOK(k, items[k])
    PROVE  RowsTypeOK'
<1>1. /\ verdicts' = verdicts \cup rows
      /\ fresh' = fresh \cup rows \cup DOMAIN items
      /\ DOMAIN attention' = DOMAIN items \cup DOMAIN attention
      /\ \A k \in DOMAIN items : attention'[k] = items[k]
      /\ \A k \in DOMAIN attention \ DOMAIN items : attention'[k] = attention[k]
  BY UpsertWrites
<1>2. \A k \in DOMAIN attention : ItemTypeOK(k, attention[k])
  BY DEF RowsTypeOK
<1>3. ASSUME NEW k \in DOMAIN attention' PROVE ItemTypeOK(k, attention'[k])
  <2>1. CASE k \in DOMAIN items
    BY <1>1, <2>1
  <2>2. CASE k \notin DOMAIN items
    <3>1. k \in DOMAIN attention \ DOMAIN items
      BY <1>1, <1>3, <2>2
    <3>2. attention'[k] = attention[k]
      BY <1>1, <3>1
    <3> QED BY <1>2, <3>1, <3>2
  <2> QED BY <2>1, <2>2
<1>4. (\A k \in DOMAIN attention : ItemTypeOK(k, attention[k]))'
  BY <1>3 DEF ItemTypeOK
<1> QED BY <1>1, <1>4 DEF RowsTypeOK

LEMMA ChecksKeepRows ==
    ASSUME RowsTypeOK, NEW items, Upsert({}, items),
           PartOf(items, ErringFound(tables)) \/ PartOf(items, LaggingFound(tables))
    PROVE  RowsTypeOK'
<1>1. \A k \in DOMAIN items : ItemTypeOK(k, items[k])
  BY ErringFoundType, LaggingFoundType DEF PartOf
<1> QED BY <1>1, WritesKeepRows

LEMMA PartCheckKeepsRows ==
    ASSUME RowsTypeOK, pc \in {"errors", "lags"}, CheckedInPart
    PROVE  RowsTypeOK'
BY PartWritten, ChecksKeepRows

LEMMA RowsStep ==
    ASSUME CycleTypeOK, [Next]_vars
    PROVE  RowsTypeOK'
<1> USE DEF CycleTypeOK
<1>1. CASE UNCHANGED <<verdicts, attention, fresh>>
  BY <1>1 DEF RowsTypeOK, ItemTypeOK
<1>2. CASE Start
  BY <1>2 DEF Start, RowsTypeOK, ItemTypeOK
<1>3. ASSUME NEW x \in Indexer, ScoreAddress(x) PROVE RowsTypeOK'
  <2>1. CASE Min(windows) = Primary
    <3>1. JudgementOK(pending[x])
      BY <1>3 DEF StageOK, ScoreAddress
    <3>2. Upsert(VerdictRows(x, pending[x]), ItemRows(x, pending[x]))
      BY <1>3, <2>1 DEF ScoreAddress
    <3> QED BY <3>1, <3>2, RowsOfJudgement, WritesKeepRows DEF JudgementOK
  <2> QED BY <1>1, <1>3, <2>1 DEF ScoreAddress
<1>4. CASE FindErring \/ FindLagging
  BY <1>4, ErringWritten, LaggingWritten, ChecksKeepRows
<1>5. CASE DropVerdicts
  BY <1>5 DEF DropVerdicts, RowsTypeOK, ItemTypeOK
<1>6. ASSUME NEW kept, attention' = Restrict(attention, kept), kept \subseteq DOMAIN attention,
             UNCHANGED verdicts, fresh' \subseteq fresh, fresh' \subseteq verdicts \cup kept
      PROVE  RowsTypeOK'
  <2>1. DOMAIN attention' = kept /\ \A k \in kept : attention'[k] = attention[k]
    BY <1>6 DEF Restrict
  <2> QED BY <1>6, <2>1 DEF RowsTypeOK, ItemTypeOK
<1>7. CASE DropAttention
  <2>1. fresh \subseteq verdicts \cup (DOMAIN attention \cap fresh)
    BY DEF RowsTypeOK
  <2> QED BY <1>6, <1>7, <2>1 DEF DropAttention
<1>8. CASE DropSkewed
  <2>0. ASSUME NEW rows, NEW kept \in KeptBySkew(rows) PROVE kept \subseteq rows
    BY <2>0 DEF KeptBySkew
  <2>1. fresh' = fresh \cap (verdicts' \cup DOMAIN attention')
    BY <1>8 DEF DropSkewed
  <2>2. CASE verdicts' \in KeptBySkew(verdicts) /\ UNCHANGED attention
    <3>1. verdicts' \subseteq verdicts
      BY <2>0, <2>2
    <3> QED BY <2>1, <2>2, <3>1 DEF RowsTypeOK, ItemTypeOK
  <2>3. CASE /\ \E kept \in KeptBySkew(DOMAIN attention) : attention' = Restrict(attention, kept)
             /\ UNCHANGED verdicts
    <3>1. PICK kept \in KeptBySkew(DOMAIN attention) : attention' = Restrict(attention, kept)
      BY <2>3
    <3>2. kept \subseteq DOMAIN attention
      BY <2>0
    <3>3. DOMAIN attention' = kept
      BY <3>1 DEF Restrict
    <3> QED BY <1>6, <2>1, <2>3, <3>1, <3>2, <3>3
  <2> QED BY <1>8, <2>2, <2>3 DEF DropSkewed
<1>9. CASE DeploymentCheckFails
  BY <1>9, PartCheckKeepsRows DEF DeploymentCheckFails
<1>10. CASE CycleFails
  <2>1. ASSUME NEW x \in DOMAIN pending, ScoredInPart(x) PROVE RowsTypeOK'
    <3>1. x \in Indexer /\ JudgementOK(pending[x])
      BY <2>1 DEF StageOK
    <3>2. PICK part : /\ part.verdicts \subseteq pending[x].verdicts
                      /\ part.attention \subseteq pending[x].attention
                      /\ Upsert(VerdictRows(x, part), ItemRows(x, part))
      BY <2>1 DEF ScoredInPart
    <3>3. part.verdicts \subseteq VerdictKind /\ part.attention \subseteq AttentionKind
      BY <3>1, <3>2 DEF JudgementOK
    <3> QED BY <3>1, <3>2, <3>3, RowsOfJudgement, WritesKeepRows
  <2> QED BY <1>1, <1>10, <2>1, PartCheckKeepsRows DEF CycleFails, output
<1> QED BY <1>1, <1>2, <1>3, <1>4, <1>5, <1>7, <1>8, <1>9, <1>10
    DEF Next, Cycle, LoadTables, LoadWindow, WindowScored, SybilDetectionFails, TablesChange,
        vars, output

LEMMA StageStep ==
    ASSUME CycleTypeOK, [Next]_vars
    PROVE  StageOK'
<1> USE DEF CycleTypeOK
<1> DEFINE Stages == {"sleep"} \cup Loading \cup Scoring \cup Closing
<1>1. CASE Start
  BY <1>1 DEF Start, StageOK, Loading, Scoring, Closing, Whole, JudgementOK
<1>2. CASE LoadTables
  <2>1. /\ pc \in Loading /\ pc' \in Loading \cup {"window"}
        /\ UNCHANGED <<windows, pending, unchecked>>
    BY <1>2 DEF LoadTables, DetectSybils, LoadProfiles, LoadAllocHealth, LoadMeasuredLag,
        LoadRecent, Load, history, Loading
  <2>2. \E field, answer : read' = [read EXCEPT ![field] = answer]
    BY <1>2 DEF LoadTables, DetectSybils, LoadProfiles, LoadAllocHealth, LoadMeasuredLag,
        LoadRecent, Load
  <2>3. DOMAIN read' = DOMAIN read
    BY <2>2
  <2>4. Windows # {}
    BY ScorerAssumption
  <2> QED BY <2>1, <2>3, <2>4 DEF StageOK, Loading, Scoring, Closing, Whole, JudgementOK
<1>3. CASE LoadWindow
  <2> DEFINE known == [read EXCEPT !.agg = [x \in Indexer |-> tables[x].agg[Min(windows)]]]
  <2>1. pending' = [x \in Addresses(known) |-> Judge(Assemble(known, x))]
    BY <1>3 DEF LoadWindow
  <2> HIDE DEF known
  <2>2. Addresses(known) \subseteq Indexer
    BY DEF Addresses
  <2>3. \A x \in DOMAIN pending' : JudgementOK(pending'[x])
    BY <2>1, JudgementType
  <2>4. pc' = "score" /\ UNCHANGED <<windows, read, unchecked>> /\ pc = "window"
    BY <1>3 DEF LoadWindow, history
  <2>5. windows # {} /\ Whole'
    BY <2>4 DEF StageOK, Scoring, Whole
  <2>6. (\A x \in DOMAIN pending : JudgementOK(pending[x]))'
    BY <2>3 DEF JudgementOK
  <2> QED BY <2>1, <2>2, <2>4, <2>5, <2>6 DEF StageOK, Loading, Scoring, Closing
<1>4. ASSUME NEW x \in Indexer, ScoreAddress(x) PROVE StageOK'
  <2>1. DOMAIN pending' \subseteq DOMAIN pending /\ \A y \in DOMAIN pending' : pending'[y] = pending[y]
    BY <1>4 DEF ScoreAddress, Restrict
  <2>2. pc = "score" /\ UNCHANGED <<pc, windows, read, unchecked>>
    BY <1>4 DEF ScoreAddress, history
  <2> QED BY <2>1, <2>2 DEF StageOK, Loading, Scoring, Closing, Whole, JudgementOK
<1>5. CASE WindowScored
  <2>1. /\ pc = "score" /\ UNCHANGED <<pending, read, unchecked>> /\ pending = <<>>
        /\ windows' = windows \ {Min(windows)}
        /\ pc' = IF windows' = {} THEN "errors" ELSE "window"
    BY <1>5 DEF WindowScored, history
  <2> QED BY <2>1 DEF StageOK, Loading, Scoring, Closing, Whole, JudgementOK
<1>6. CASE FindErring \/ FindLagging \/ DropVerdicts
  BY <1>6 DEF FindErring, FindLagging, DropVerdicts, history, StageOK, Loading, Scoring,
      Closing, Whole, JudgementOK
<1>7. CASE DropAttention
  BY <1>7 DEF DropAttention, history, StageOK, Loading, Scoring, Closing, Whole, JudgementOK,
      Nothing, Fields
<1>8. CASE SybilDetectionFails
  BY <1>8 DEF SybilDetectionFails, StageOK, Loading, Scoring, Closing, Whole, JudgementOK
<1>9. CASE DeploymentCheckFails
  <2>1. /\ pc \in {"errors", "lags"} /\ pc' = "verdicts"
        /\ UNCHANGED <<windows, pending, read>> /\ unchecked' \subseteq unchecked \cup {"errors", "lags"}
    BY <1>9 DEF DeploymentCheckFails
  <2> QED BY <2>1 DEF StageOK, Loading, Scoring, Closing, Whole, JudgementOK
<1>10. CASE CycleFails
  <2>1. pc' = "sleep" /\ read' = Nothing /\ windows' = {} /\ pending' = <<>>
    BY <1>10 DEF CycleFails
  <2> QED BY <2>1 DEF StageOK, Loading, Scoring, Closing, Nothing, Fields, JudgementOK
<1>11. CASE DropSkewed
  <2>1. /\ UNCHANGED <<windows, pending>> /\ unchecked' = unchecked \cup {"clock"}
        /\ \/ pc = "verdicts" /\ pc' = "attention" /\ UNCHANGED read
           \/ pc = "attention" /\ pc' = "sleep" /\ read' = Nothing
    BY <1>11 DEF DropSkewed
  <2> QED BY <2>1 DEF StageOK, Loading, Scoring, Closing, Whole, Nothing, Fields, JudgementOK
<1>12. CASE TablesChange \/ UNCHANGED vars
  BY <1>12 DEF TablesChange, vars, history, StageOK, Loading, Scoring, Closing, Whole, JudgementOK
<1> QED BY <1>1, <1>2, <1>3, <1>4, <1>5, <1>6, <1>7, <1>8, <1>9, <1>10, <1>11, <1>12
    DEF Next, Cycle

LEMMA ScoresStep ==
    ASSUME CycleTypeOK, [Next]_vars
    PROVE  scores' \in [Indexer -> [Windows -> Options(Grades)]]
<1> USE DEF CycleTypeOK
<1>1. CASE UNCHANGED scores
  BY <1>1
<1>2. ASSUME NEW x \in Indexer, NEW w \in Windows, NEW g \in Grades,
             scores' = [scores EXCEPT ![x][w] = Some(g)]
      PROVE  scores' \in [Indexer -> [Windows -> Options(Grades)]]
  <2>1. Some(g) \in Options(Grades)
    BY DEF Options
  <2> HIDE DEF Options
  <2> QED BY <1>2, <2>1
<1>3. ASSUME NEW x \in Indexer, ScoreAddress(x)
      PROVE  scores' \in [Indexer -> [Windows -> Options(Grades)]]
  <2>1. scores' = [scores EXCEPT ![x][Min(windows)] = Some(pending[x].grade)]
        /\ x \in DOMAIN pending /\ pc = "score"
    BY <1>3 DEF ScoreAddress
  <2>2. pending[x].grade \in Grades
    BY <2>1 DEF StageOK, JudgementOK
  <2>3. Min(windows) \in Windows
    BY <2>1, NextIsLeft DEF StageOK, Scoring
  <2> QED BY <1>2, <2>1, <2>2, <2>3
<1>4. CASE CycleFails
  <2>1. ASSUME NEW x \in DOMAIN pending, ScoredInPart(x)
        PROVE  scores' \in [Indexer -> [Windows -> Options(Grades)]]
    <3>1. scores' = [scores EXCEPT ![x][Primary] = Some(pending[x].grade)]
      BY <2>1 DEF ScoredInPart
    <3>2. x \in Indexer /\ pending[x].grade \in Grades
      BY <2>1 DEF StageOK, JudgementOK
    <3> QED BY <1>2, <3>1, <3>2, PrimaryIsScored
  <2> QED BY <1>1, <1>4, <2>1 DEF CycleFails, output
<1> QED BY <1>1, <1>3, <1>4 DEF Next, Cycle, Start, LoadTables, LoadWindow, WindowScored,
    FindErring, FindLagging, DropVerdicts, DropAttention, SybilDetectionFails,
    DeploymentCheckFails, DropSkewed, TablesChange, vars, output

LEMMA TypeInit == Init => CycleTypeOK
<1> SUFFICES ASSUME Init PROVE CycleTypeOK
  OBVIOUS
<1>1. scores \in [Indexer -> [Windows -> Options(Grades)]]
  BY DEF Init, Options
<1>2. RowsTypeOK
  BY DEF Init, RowsTypeOK
<1>3. StageOK
  BY DEF Init, StageOK, Loading, Scoring, Closing, Whole, Nothing, Fields
<1> QED BY <1>1, <1>2, <1>3, ScorerAssumption DEF Init, CycleTypeOK

LEMMA TypeStep ==
    ASSUME CycleTypeOK, [Next]_vars
    PROVE  CycleTypeOK'
<1>1. tables' \in [Indexer -> Evidence]
  BY DEF CycleTypeOK, Next, Cycle, Start, LoadTables, LoadWindow, ScoreAddress, WindowScored,
      FindErring, FindLagging, DropVerdicts, DropAttention, SybilDetectionFails,
      DeploymentCheckFails, CycleFails, DropSkewed, TablesChange, vars
<1>2. changes' \in 0..MaxChanges /\ failures' \in 0..MaxFailures
  <2>1. changes \in 0..MaxChanges /\ failures \in 0..MaxFailures /\ MaxChanges \in Nat
        /\ MaxFailures \in Nat
    BY ScorerAssumption DEF CycleTypeOK
  <2>2. /\ changes' = changes \/ (changes < MaxChanges /\ changes' = changes + 1)
        /\ failures' = failures \/ (failures < MaxFailures /\ failures' = failures + 1)
    <3>1. CASE Cycle \/ UNCHANGED vars
      BY <3>1 DEF Cycle, Start, LoadTables, LoadWindow, ScoreAddress, WindowScored,
          FindErring, FindLagging, DropVerdicts, DropAttention, vars, budget
    <3>2. CASE SybilDetectionFails \/ DeploymentCheckFails
      BY <3>2 DEF SybilDetectionFails, DeploymentCheckFails
    <3>3. CASE CycleFails
      BY <3>3 DEF CycleFails
    <3>4. CASE DropSkewed
      BY <3>4 DEF DropSkewed
    <3>5. CASE TablesChange
      BY <3>5 DEF TablesChange
    <3> QED BY <3>1, <3>2, <3>3, <3>4, <3>5 DEF Next
  <2> QED BY <2>1, <2>2
<1> QED BY <1>1, <1>2, RowsStep, StageStep, ScoresStep DEF CycleTypeOK

-----------------------------------------------------------------------------
(* What a step of the cycle keeps.                                         *)

\* A new cycle has everything before it.
LEMMA CycleBegins ==
    ASSUME CycleTypeOK, Start
    PROVE  /\ pc' = "swarm" /\ windows' = Windows /\ pending' = <<>>
           /\ fresh' = {} /\ disturbed' = {} /\ unchecked' = {}
           /\ UNCHANGED <<tables, attention>>
BY DEF Start, CycleTypeOK, StageOK

\* Any other step forgets nothing that the cycle lost, and leaves the tables of whoever
\* is still undisturbed alone.
LEMMA CycleContinues ==
    ASSUME CycleTypeOK, [Next]_vars, ~Start, Whole'
    PROVE  /\ Whole /\ ~CycleFails /\ unchecked \subseteq unchecked'
           /\ disturbed \subseteq disturbed'
           /\ \A x \in Undisturbed' : x \in Undisturbed /\ tables'[x] = tables[x]
<1>1. ~CycleFails
  BY DEF CycleFails, Whole
<1>2. CASE TablesChange
  <2>1. PICK y \in Indexer, e \in Evidence :
            tables' = [tables EXCEPT ![y] = e] /\ disturbed' = disturbed \cup {y}
    BY <1>2 DEF TablesChange
  <2>2. \A x \in Indexer \ {y} : tables'[x] = tables[x]
    BY <2>1 DEF CycleTypeOK
  <2> QED BY <1>1, <1>2, <2>1, <2>2 DEF TablesChange, Whole, Undisturbed
<1>3. CASE ~TablesChange
  <2>1. UNCHANGED <<tables, disturbed>> /\ unchecked \subseteq unchecked'
    BY <1>1, <1>3 DEF Next, Cycle, LoadTables, LoadWindow, ScoreAddress, WindowScored, FindErring,
        FindLagging, DropVerdicts, DropAttention, SybilDetectionFails, DeploymentCheckFails,
        DropSkewed, vars, history
  <2> QED BY <1>1, <2>1 DEF Whole, Undisturbed
<1> QED BY <1>2, <1>3

LEMMA RunningIsWhole ==
    ASSUME CycleTypeOK, [Next]_vars, pc' # "sleep"
    PROVE  Whole'
BY TypeStep DEF CycleTypeOK, StageOK

-----------------------------------------------------------------------------
(* What is read.                                                           *)

LEMMA ReadStep ==
    ASSUME CycleTypeOK, ReadInStep, [Next]_vars
    PROVE  ReadInStep'
<1> USE DEF Loading, Scoring
<1>1. CASE pc' \in {"sleep", "swarm"} \cup Closing
  BY <1>1 DEF ReadInStep, ReadHolds, Closing
<1> SUFFICES ASSUME pc' \in {"profiles", "health", "lag", "recent"} \cup Scoring,
                    NEW x \in Undisturbed'
             PROVE  ReadHolds(x)'
  <2>1. StageOK'
    BY StageStep
  <2> QED BY <1>1, <2>1 DEF ReadInStep, StageOK
<1>2. Whole' /\ ~Start
  BY RunningIsWhole DEF Start
<1>3. /\ ReadHolds(x) /\ tables'[x] = tables[x] /\ x \in Indexer
      /\ unchecked \subseteq unchecked' /\ ~CycleFails
  BY <1>2, CycleContinues DEF ReadInStep, Undisturbed
<1>4. DOMAIN read = Fields
  BY DEF CycleTypeOK, StageOK
<1>5. CASE UNCHANGED <<pc, read>>
  BY <1>3, <1>5 DEF ReadHolds, SybilRan
<1>6. CASE LoadTables
  <2>1. UNCHANGED unchecked
    BY <1>6 DEF LoadTables, history
  <2>2. CASE DetectSybils
    <3>1. /\ pc = "swarm" /\ pc' = "profiles"
          /\ read' = [read EXCEPT !["swarm"] = [y \in Indexer |-> tables[y].swarm]]
      BY <2>2 DEF DetectSybils, Load
    <3>2. read'.swarm[x] = tables[x].swarm
      BY <1>3, <1>4, <3>1 DEF Fields
    <3> QED BY <1>3, <3>1, <3>2 DEF ReadHolds
  <2>3. CASE LoadProfiles
    <3>1. /\ pc = "profiles" /\ pc' = "health"
          /\ read' = [read EXCEPT !["profile"] = [y \in Indexer |-> tables[y].profile]]
      BY <2>3 DEF LoadProfiles, Load
    <3>2. read'.profile[x] = tables[x].profile /\ read'.swarm = read.swarm
      BY <1>3, <1>4, <3>1 DEF Fields
    <3> QED BY <1>3, <2>1, <3>1, <3>2 DEF ReadHolds, SybilRan
  <2>4. CASE LoadAllocHealth
    <3>1. /\ pc = "health" /\ pc' = "lag"
          /\ read' = [read EXCEPT !["health"] = [y \in Indexer |-> AllocHealth(tables[y])]]
      BY <2>4 DEF LoadAllocHealth, Load
    <3>2. /\ read'.health[x] = AllocHealth(tables[x])
          /\ read'.swarm = read.swarm /\ read'.profile = read.profile
      BY <1>3, <1>4, <3>1 DEF Fields
    <3> QED BY <1>3, <2>1, <3>1, <3>2 DEF ReadHolds, SybilRan
  <2>5. CASE LoadMeasuredLag
    <3>1. /\ pc = "lag" /\ pc' = "recent"
          /\ read' = [read EXCEPT !["lag"] = [y \in Indexer |-> tables[y].lag]]
      BY <2>5 DEF LoadMeasuredLag, Load
    <3>2. /\ read'.lag[x] = tables[x].lag
          /\ read'.swarm = read.swarm /\ read'.profile = read.profile /\ read'.health = read.health
      BY <1>3, <1>4, <3>1 DEF Fields
    <3> QED BY <1>3, <2>1, <3>1, <3>2 DEF ReadHolds, SybilRan
  <2>6. CASE LoadRecent
    <3>1. /\ pc = "recent" /\ pc' = "window"
          /\ read' = [read EXCEPT !["recent"] = [y \in Indexer |-> tables[y].recent]]
      BY <2>6 DEF LoadRecent, Load
    <3>2. /\ read'.recent[x] = tables[x].recent
          /\ read'.swarm = read.swarm /\ read'.profile = read.profile /\ read'.health = read.health
          /\ read'.lag = read.lag
      BY <1>3, <1>4, <3>1 DEF Fields
    <3> QED BY <1>3, <2>1, <3>1, <3>2 DEF ReadHolds, SybilRan
  <2> QED BY <1>6, <2>2, <2>3, <2>4, <2>5, <2>6 DEF LoadTables
<1>7. CASE LoadWindow \/ WindowScored
  <2>1. pc \in Scoring /\ UNCHANGED <<read, unchecked>>
    BY <1>7 DEF LoadWindow, WindowScored, history
  <2> QED BY <1>3, <2>1 DEF ReadHolds, SybilRan
<1>8. CASE SybilDetectionFails
  <2>1. pc' = "profiles" /\ ~SybilRan'
    BY <1>8 DEF SybilDetectionFails, SybilRan
  <2> QED BY <2>1 DEF ReadHolds
<1>9. CASE FindErring \/ FindLagging \/ DropVerdicts \/ DropAttention \/ DeploymentCheckFails
           \/ DropSkewed
  BY <1>9 DEF FindErring, FindLagging, DropVerdicts, DropAttention, DeploymentCheckFails, DropSkewed
<1> QED BY <1>2, <1>3, <1>5, <1>6, <1>7, <1>8, <1>9
    DEF Next, Cycle, ScoreAddress, TablesChange, vars

-----------------------------------------------------------------------------
(* What waits, and what has been written.                                  *)

LEMMA PendingStep ==
    ASSUME CycleTypeOK, ReadInStep, PendingInStep, [Next]_vars
    PROVE  PendingInStep'
<1> SUFFICES ASSUME NEW x \in Undisturbed', x \in DOMAIN pending'
             PROVE  /\ x \in Listed(tables', Min(windows'))
                    /\ pending'[x].attention = Due(tables', Min(windows'), x).attention
                    /\ SybilRan' => pending'[x] = Due(tables', Min(windows'), x)
  BY DEF PendingInStep
<1>1. pc' = "score"
  BY StageStep DEF StageOK
<1>2. /\ x \in Undisturbed /\ x \in Indexer /\ tables'[x] = tables[x]
      /\ unchecked \subseteq unchecked' /\ ~CycleFails
  <2>1. ~Start
    BY <1>1 DEF Start
  <2> QED BY <1>1, <2>1, RunningIsWhole, CycleContinues DEF Undisturbed
<1>3. \A w : /\ x \in Listed(tables', w) <=> x \in Listed(tables, w)
             /\ Due(tables', w, x) = Due(tables, w, x)
  BY <1>2, DueOfOwn
<1>4. ASSUME x \in DOMAIN pending, pending'[x] = pending[x], UNCHANGED windows
      PROVE  /\ x \in Listed(tables', Min(windows'))
             /\ pending'[x].attention = Due(tables', Min(windows'), x).attention
             /\ SybilRan' => pending'[x] = Due(tables', Min(windows'), x)
  <2>1. SybilRan' => SybilRan
    BY <1>2 DEF SybilRan
  <2> QED BY <1>2, <1>3, <1>4, <2>1 DEF PendingInStep
<1>5. CASE LoadWindow
  <2> DEFINE w == Min(windows)
             known == [read EXCEPT !.agg = [y \in Indexer |-> tables[y].agg[w]]]
             s == Snapshot(tables, w)
  <2>1. /\ pending' = [y \in Addresses(known) |-> Judge(Assemble(known, y))]
        /\ pc = "window" /\ UNCHANGED <<windows, unchecked>>
    BY <1>5 DEF LoadWindow, history
  <2>2. ReadHolds(x)
    BY <1>2 DEF ReadInStep
  <2>3. /\ known.profile[x] = s.profile[x] /\ known.health[x] = s.health[x]
        /\ known.lag[x] = s.lag[x] /\ known.recent[x] = s.recent[x]
        /\ known.agg[x] = s.agg[x]
        /\ SybilRan => known.swarm[x] = s.swarm[x]
    BY <1>2, <2>1, <2>2 DEF ReadHolds, Scoring, Snapshot, CycleTypeOK, StageOK, Fields
  <2> HIDE DEF known, s
  <2>4. x \in Addresses(known)
    BY <2>1
  <2>5. /\ x \in Addresses(s)
        /\ Judge(Assemble(known, x)).attention = Judge(Assemble(s, x)).attention
        /\ SybilRan => Judge(Assemble(known, x)) = Judge(Assemble(s, x))
    <3>1. /\ x \in Addresses(known) <=> x \in Addresses(s)
          /\ Judge(Assemble(known, x)).attention = Judge(Assemble(s, x)).attention
          /\ known.swarm[x] = s.swarm[x] => Judge(Assemble(known, x)) = Judge(Assemble(s, x))
      BY <1>2, <2>3, OwnEvidence
    <3> QED BY <2>3, <2>4, <3>1
  <2>6. pending'[x] = Judge(Assemble(known, x))
    BY <2>1, <2>4
  <2>7. Listed(tables, w) = Addresses(s) /\ Due(tables, w, x) = Judge(Assemble(s, x))
    BY DEF Listed, Due, s
  <2>8. SybilRan' = SybilRan /\ Min(windows') = w
    BY <2>1 DEF SybilRan
  <2> HIDE DEF w
  <2> QED BY <1>3, <2>5, <2>6, <2>7, <2>8
<1>6. ASSUME NEW y \in Indexer, ScoreAddress(y)
      PROVE  x \in DOMAIN pending /\ pending'[x] = pending[x] /\ UNCHANGED windows
  BY <1>6 DEF ScoreAddress, Restrict
<1>7. CASE TablesChange \/ UNCHANGED vars
  <2>1. UNCHANGED <<pending, windows>>
    BY <1>7 DEF TablesChange, vars
  <2> QED BY <1>4, <2>1
<1> QED BY <1>1, <1>2, <1>4, <1>5, <1>6, <1>7
    DEF Next, Cycle, Start, LoadTables, DetectSybils, LoadProfiles, LoadAllocHealth,
        LoadMeasuredLag, LoadRecent, Load, WindowScored, FindErring, FindLagging, DropVerdicts,
        DropAttention, SybilDetectionFails, DeploymentCheckFails, DropSkewed

\* What has been published of x stays so while nothing it rests on is touched.
LEMMA PublishedStays ==
    ASSUME NEW x \in Indexer, NEW w, Published(x, w), tables'[x] = tables[x],
           scores'[x][w] = scores[x][w], unchecked \subseteq unchecked',
           fresh \subseteq fresh' \/ ~NoClock'
    PROVE  Published(x, w)'
<1>1. Due(tables', w, x) = Due(tables, w, x)
  BY DueOfOwn
<1>2. (SybilRan' => SybilRan) /\ (NoClock' => NoClock)
  BY DEF SybilRan, NoClock
<1> HIDE DEF NoClock, SybilRan
<1>3. SybilRan' => scores'[x][w] = Some(Due(tables', w, x).grade)
  BY <1>1, <1>2 DEF Published
<1>4. ASSUME w = Primary, NoClock'
      PROVE  /\ SybilRan' => VerdictRows(x, Due(tables', w, x)) \subseteq fresh'
             /\ DOMAIN ItemRows(x, Due(tables', w, x)) \subseteq fresh'
  BY <1>1, <1>2, <1>4 DEF Published
<1> QED BY <1>3, <1>4 DEF Published, Primary

LEMMA WrittenStep ==
    ASSUME CycleTypeOK, ReadInStep, PendingInStep, DueIsWritten, [Next]_vars
    PROVE  DueIsWritten'
<1> SUFFICES ASSUME Whole', NEW x \in Undisturbed', NEW w \in Windows,
                    x \in Listed(tables', w), Passed(x, w)'
             PROVE  Published(x, w)'
  BY DEF DueIsWritten
<1>1. CASE Start
  BY <1>1, CycleBegins DEF Passed
<1> SUFFICES ASSUME ~Start PROVE Published(x, w)'
  BY <1>1
<1>2. /\ x \in Undisturbed /\ x \in Indexer /\ tables'[x] = tables[x]
      /\ unchecked \subseteq unchecked' /\ ~CycleFails /\ Whole
  BY CycleContinues DEF Undisturbed
<1>3. x \in Listed(tables, w) /\ Due(tables', w, x) = Due(tables, w, x)
  BY <1>2, DueOfOwn
<1>4. ASSUME Passed(x, w), scores'[x][w] = scores[x][w], fresh \subseteq fresh' \/ ~NoClock'
      PROVE  Published(x, w)'
  <2>1. Published(x, w)
    BY <1>2, <1>3, <1>4 DEF DueIsWritten
  <2> QED BY <1>2, <1>4, <2>1, PublishedStays
<1>5. CASE LoadWindow
  <2> DEFINE known == [read EXCEPT !.agg = [y \in Indexer |-> tables[y].agg[Min(windows)]]]
  <2>1. /\ DOMAIN pending' = Addresses(known) /\ pc = "window"
        /\ UNCHANGED <<windows, scores, fresh>>
    BY <1>5 DEF LoadWindow, output
  <2>2. CASE w \notin windows
    BY <1>4, <2>1, <2>2 DEF Passed
  <2>3. CASE w = Min(windows) /\ x \notin DOMAIN pending'
    <3>1. read.profile[x] = tables[x].profile /\ read.agg[x] = read.agg[x]
      BY <1>2, <2>1 DEF ReadInStep, ReadHolds, Scoring
    <3>2. known.profile[x] = tables[x].profile /\ known.agg[x] = tables[x].agg[w]
      BY <1>2, <2>3, <3>1 DEF CycleTypeOK, StageOK, Fields
    <3>3. x \in Addresses(known)
      BY <1>2, <1>3, <3>2 DEF Addresses, Listed, Snapshot
    <3> QED BY <2>1, <2>3, <3>3
  <2> QED BY <2>1, <2>2, <2>3 DEF Passed
<1>6. CASE WindowScored
  <2>1. /\ windows' = windows \ {Min(windows)} /\ pc' # "score" /\ pc = "score" /\ pending = <<>>
        /\ UNCHANGED <<scores, fresh>>
    BY <1>6 DEF WindowScored, output
  <2>2. w \notin windows \/ w = Min(windows)
    BY <2>1 DEF Passed
  <2>3. Passed(x, w)
    BY <2>1, <2>2 DEF Passed
  <2> QED BY <1>4, <2>1, <2>3
<1>7. ASSUME NEW y \in Indexer, ScoreAddress(y) PROVE Published(x, w)'
  <2>1. /\ pc = "score" /\ y \in DOMAIN pending /\ UNCHANGED <<pc, windows, unchecked>>
        /\ scores' = [scores EXCEPT ![y][Min(windows)] = Some(pending[y].grade)]
        /\ DOMAIN pending' = DOMAIN pending \ {y}
    BY <1>7 DEF ScoreAddress, Restrict, history
  <2>2. fresh \subseteq fresh'
    BY <1>7, UpsertWrites DEF ScoreAddress
  <2>3. CASE x = y /\ w = Min(windows)
    <3>1. /\ pending[x].attention = Due(tables, w, x).attention
          /\ SybilRan => pending[x] = Due(tables, w, x)
      BY <1>2, <2>1, <2>3 DEF PendingInStep
    <3>2. scores'[x][w] = Some(pending[x].grade)
      BY <1>2, <2>1, <2>3 DEF CycleTypeOK
    <3>3. ASSUME w = Primary
          PROVE  /\ VerdictRows(x, pending[x]) \subseteq fresh'
                 /\ DOMAIN ItemRows(x, pending[x]) \subseteq fresh'
      <4>1. Upsert(VerdictRows(x, pending[x]), ItemRows(x, pending[x]))
        BY <1>7, <2>3, <3>3 DEF ScoreAddress
      <4>2. fresh' = fresh \cup VerdictRows(x, pending[x]) \cup DOMAIN ItemRows(x, pending[x])
        BY <4>1 DEF Upsert
      <4> QED BY <4>2
    <3>4. DOMAIN ItemRows(x, pending[x]) = DOMAIN ItemRows(x, Due(tables, w, x))
      BY <3>1 DEF ItemRows
    <3>5. SybilRan' = SybilRan
      BY <2>1 DEF SybilRan
    <3>6. SybilRan' => scores'[x][w] = Some(Due(tables', w, x).grade)
      BY <1>3, <3>1, <3>2, <3>5
    <3>7. ASSUME w = Primary
          PROVE  /\ SybilRan' => VerdictRows(x, Due(tables', w, x)) \subseteq fresh'
                 /\ DOMAIN ItemRows(x, Due(tables', w, x)) \subseteq fresh'
      BY <1>3, <3>1, <3>3, <3>4, <3>5, <3>7
    <3> QED BY <3>6, <3>7 DEF Published, Primary
  <2>4. CASE ~(x = y /\ w = Min(windows))
    <3>1. Passed(x, w)
      BY <2>1, <2>4 DEF Passed
    <3>2. scores'[x][w] = scores[x][w]
      <4>1. Min(windows) \in Windows
        BY <2>1, NextIsLeft DEF CycleTypeOK, StageOK, Scoring
      <4> QED BY <1>2, <2>1, <2>4, <4>1 DEF CycleTypeOK
    <3> QED BY <1>4, <2>2, <3>1, <3>2
  <2> QED BY <2>3, <2>4
<1>8. CASE DropSkewed
  <2>1. UNCHANGED <<windows, scores>> /\ ~NoClock' /\ pc' # "score"
    BY <1>8 DEF DropSkewed, NoClock
  <2> QED BY <1>4, <2>1 DEF Passed
<1>9. CASE FindErring \/ FindLagging \/ DeploymentCheckFails
  <2>1. UNCHANGED <<windows, scores>> /\ pc' # "score"
    BY <1>9 DEF FindErring, FindLagging, DeploymentCheckFails
  <2>2. \E items : Upsert({}, items)
    BY <1>9, ErringWritten, LaggingWritten, PartWritten DEF DeploymentCheckFails
  <2>3. fresh \subseteq fresh'
    BY <2>2, UpsertWrites
  <2> QED BY <1>4, <2>1, <2>3 DEF Passed
<1>10. CASE TablesChange \/ UNCHANGED vars
  <2>1. UNCHANGED <<windows, pending, pc, scores, fresh>>
    BY <1>10 DEF TablesChange, vars, output
  <2> QED BY <1>4, <2>1 DEF Passed
<1>11. CASE LoadTables \/ SybilDetectionFails \/ DropVerdicts \/ DropAttention
  <2>1. UNCHANGED <<windows, scores, fresh>> /\ pc' # "score"
    BY <1>11 DEF LoadTables, DetectSybils, LoadProfiles, LoadAllocHealth, LoadMeasuredLag,
        LoadRecent, Load, SybilDetectionFails, DropVerdicts, DropAttention, output
  <2> QED BY <1>4, <2>1 DEF Passed
<1> QED BY <1>2, <1>5, <1>6, <1>7, <1>8, <1>9, <1>10, <1>11 DEF Next, Cycle

\* Rows are written by the scores of the longest window and by either check.
LEMMA WhatIsWritten ==
    ASSUME CycleTypeOK, [Next]_vars, ~Start, Whole'
    PROVE  \/ /\ fresh' \subseteq fresh
              /\ \A k \in DOMAIN attention' : k \in DOMAIN attention /\ attention'[k] = attention[k]
           \/ \E x \in Indexer : ScoreAddress(x) /\ Min(windows) = Primary
           \/ \E items : PartOf(items, ErringFound(tables)) /\ Upsert({}, items)
           \/ \E items : PartOf(items, LaggingFound(tables)) /\ Upsert({}, items)
<1> DEFINE Kept ==
        /\ fresh' \subseteq fresh
        /\ \A k \in DOMAIN attention' : k \in DOMAIN attention /\ attention'[k] = attention[k]
<1>1. CASE UNCHANGED <<attention, fresh>>
  BY <1>1
<1>2. CASE FindErring \/ FindLagging
  BY <1>2, ErringWritten, LaggingWritten
<1>3. CASE DeploymentCheckFails
  BY <1>3, PartWritten DEF DeploymentCheckFails
<1>4. CASE DropAttention
  BY <1>4 DEF DropAttention, Restrict
<1>5. CASE DropSkewed
  <2>1. fresh' \subseteq fresh
    BY <1>5 DEF DropSkewed
  <2>2. CASE UNCHANGED attention
    BY <2>1, <2>2
  <2>3. ASSUME NEW kept \in KeptBySkew(DOMAIN attention), attention' = Restrict(attention, kept)
        PROVE  Kept
    <3>1. kept \subseteq DOMAIN attention
      BY DEF KeptBySkew
    <3> QED BY <2>1, <2>3, <3>1 DEF Restrict
  <2> QED BY <1>5, <2>2, <2>3 DEF DropSkewed
<1>6. ASSUME NEW x \in Indexer, ScoreAddress(x)
      PROVE  UNCHANGED <<attention, fresh>> \/ Min(windows) = Primary
  BY <1>6 DEF ScoreAddress
<1>7. ~CycleFails
  BY CycleContinues
<1> QED BY <1>1, <1>2, <1>3, <1>4, <1>5, <1>6, <1>7
    DEF Next, Cycle, LoadTables, LoadWindow, WindowScored, DropVerdicts, SybilDetectionFails,
        TablesChange, vars, output

\* A check writes no row that the scores write.
LEMMA ChecksWriteTheirOwn ==
    ASSUME NEW items, Upsert({}, items),
           PartOf(items, ErringFound(tables)) \/ PartOf(items, LaggingFound(tables)),
           NEW k, \/ k \in Indexer \X VerdictKind
                  \/ k \in Indexer \X AttentionKind \X {NoDeployment},
           k \in fresh'
    PROVE  k \in fresh
<1>1. fresh' = fresh \cup DOMAIN items
  BY DEF Upsert
<1>2. CASE k \in DOMAIN items
  <2>1. k[2] \in ErringKinds \cup LagKinds /\ ItemTypeOK(k, items[k])
    BY <1>2, ErringFoundType, LaggingFoundType DEF PartOf
  <2>2. k \notin Indexer \X VerdictKind
    BY <2>1, KeysApart
  <2>3. k \in Indexer \X AttentionKind \X {NoDeployment}
    BY <2>2
  <2>4. k[2] \in AttentionKind
    BY <2>3
  <2> QED BY <2>1, <2>4 DEF AttentionKind, ErringKinds, LagKinds
<1> QED BY <1>1, <1>2

LEMMA FreshStep ==
    ASSUME CycleTypeOK, PendingInStep, FreshIsDue, [Next]_vars
    PROVE  FreshIsDue'
<1> DEFINE verdict(x, kind) == <<x, kind>>
           item(x, kind) == <<x, kind, NoDeployment>>
<1>1. CASE Start
  BY <1>1, CycleBegins DEF FreshIsDue
<1> SUFFICES ASSUME ~Start, Whole', NEW x \in Undisturbed'
             PROVE  /\ SybilRan' => \A kind \in VerdictKind : verdict(x, kind) \in fresh' =>
                          /\ x \in Listed(tables', Primary)
                          /\ kind \in Due(tables', Primary, x).verdicts
                    /\ \A kind \in AttentionKind : item(x, kind) \in fresh' =>
                          /\ x \in Listed(tables', Primary)
                          /\ kind \in Due(tables', Primary, x).attention
  BY <1>1 DEF FreshIsDue, Primary
<1>2. x \in Undisturbed /\ x \in Indexer /\ tables'[x] = tables[x] /\ Whole
      /\ unchecked \subseteq unchecked'
  BY CycleContinues DEF Undisturbed
<1>3. /\ x \in Listed(tables', Primary) <=> x \in Listed(tables, Primary)
      /\ Due(tables', Primary, x) = Due(tables, Primary, x)
  BY <1>2, DueOfOwn
<1>4. /\ SybilRan' => SybilRan
      /\ SybilRan => \A kind \in VerdictKind : verdict(x, kind) \in fresh =>
              x \in Listed(tables, Primary) /\ kind \in Due(tables, Primary, x).verdicts
      /\ \A kind \in AttentionKind : item(x, kind) \in fresh =>
              x \in Listed(tables, Primary) /\ kind \in Due(tables, Primary, x).attention
  BY <1>2 DEF FreshIsDue, SybilRan
<1>5. ASSUME /\ \A kind \in VerdictKind : verdict(x, kind) \in fresh' => verdict(x, kind) \in fresh
             /\ \A kind \in AttentionKind : item(x, kind) \in fresh' => item(x, kind) \in fresh
      PROVE  /\ SybilRan' => \A kind \in VerdictKind : verdict(x, kind) \in fresh' =>
                   /\ x \in Listed(tables', Primary)
                   /\ kind \in Due(tables', Primary, x).verdicts
             /\ \A kind \in AttentionKind : item(x, kind) \in fresh' =>
                   /\ x \in Listed(tables', Primary)
                   /\ kind \in Due(tables', Primary, x).attention
  <2> HIDE DEF verdict, item
  <2> QED BY <1>3, <1>4, <1>5
<1>6. CASE fresh' \subseteq fresh
  BY <1>5, <1>6
<1>7. ASSUME NEW items, Upsert({}, items),
             PartOf(items, ErringFound(tables)) \/ PartOf(items, LaggingFound(tables))
      PROVE  /\ \A kind \in VerdictKind : verdict(x, kind) \in fresh' => verdict(x, kind) \in fresh
             /\ \A kind \in AttentionKind : item(x, kind) \in fresh' => item(x, kind) \in fresh
  <2>1. \A kind \in VerdictKind : verdict(x, kind) \in Indexer \X VerdictKind
    BY <1>2
  <2>2. \A kind \in AttentionKind : item(x, kind) \in Indexer \X AttentionKind \X {NoDeployment}
    BY <1>2
  <2> HIDE DEF verdict, item
  <2> QED BY <1>7, <2>1, <2>2, ChecksWriteTheirOwn
<1>8. ASSUME NEW y \in Indexer, ScoreAddress(y), Min(windows) = Primary
      PROVE  /\ SybilRan' => \A kind \in VerdictKind : verdict(x, kind) \in fresh' =>
                   /\ x \in Listed(tables', Primary)
                   /\ kind \in Due(tables', Primary, x).verdicts
             /\ \A kind \in AttentionKind : item(x, kind) \in fresh' =>
                   /\ x \in Listed(tables', Primary)
                   /\ kind \in Due(tables', Primary, x).attention
  <2> DEFINE rows == VerdictRows(y, pending[y])
             items == ItemRows(y, pending[y])
  <2>1. y \in DOMAIN pending /\ Upsert(rows, items)
    BY <1>8 DEF ScoreAddress
  <2>2. fresh' = fresh \cup rows \cup DOMAIN items
    BY <2>1 DEF Upsert
  <2>3. JudgementOK(pending[y])
    BY <2>1 DEF CycleTypeOK, StageOK
  <2>4. /\ rows \subseteq Indexer \X VerdictKind
        /\ DOMAIN items = {item(y, kind) : kind \in pending[y].attention}
        /\ \A k \in DOMAIN items : ItemTypeOK(k, items[k])
    BY <2>3, RowsOfJudgement DEF JudgementOK
  <2>5. ASSUME NEW kind \in VerdictKind, verdict(x, kind) \in fresh', verdict(x, kind) \notin fresh
        PROVE  x = y /\ kind \in pending[x].verdicts
    <3>1. verdict(x, kind) \in Indexer \X VerdictKind
      BY <1>2
    <3>2. verdict(x, kind) \notin DOMAIN items
      BY <2>4, <3>1, KeysApart
    <3>3. verdict(x, kind) \in rows
      BY <2>2, <2>5, <3>2
    <3> QED BY <3>3 DEF VerdictRows
  <2>6. ASSUME NEW kind \in AttentionKind, item(x, kind) \in fresh', item(x, kind) \notin fresh
        PROVE  x = y /\ kind \in pending[x].attention
    <3>1. ItemTypeOK(item(x, kind), {})
      BY <1>2 DEF ItemTypeOK
    <3>2. item(x, kind) \notin rows
      BY <2>4, <3>1, KeysApart
    <3>3. item(x, kind) \in DOMAIN items
      BY <2>2, <2>6, <3>2
    <3> QED BY <2>4, <3>3
  <2>7. x = y => /\ x \in Listed(tables, Primary)
                 /\ pending[x].attention = Due(tables, Primary, x).attention
                 /\ SybilRan => pending[x] = Due(tables, Primary, x)
    BY <1>2, <1>8, <2>1 DEF PendingInStep
  <2> HIDE DEF verdict, item
  <2>8. ASSUME SybilRan', NEW kind \in VerdictKind, verdict(x, kind) \in fresh'
        PROVE  x \in Listed(tables', Primary) /\ kind \in Due(tables', Primary, x).verdicts
    BY <1>3, <1>4, <2>5, <2>7, <2>8
  <2>9. ASSUME NEW kind \in AttentionKind, item(x, kind) \in fresh'
        PROVE  x \in Listed(tables', Primary) /\ kind \in Due(tables', Primary, x).attention
    BY <1>3, <1>4, <2>6, <2>7, <2>9
  <2> QED BY <2>8, <2>9
<1> QED BY <1>5, <1>6, <1>7, <1>8, WhatIsWritten

\* What of these kinds has been written about x stays what it was, or is what a check
\* has found.
LEMMA OnlyTheseStep ==
    ASSUME CycleTypeOK, [Next]_vars, ~Start, Whole', NEW x \in Indexer,
           NEW kinds \in {ErringKinds, LagKinds}, NEW k \in fresh' \cap DOMAIN attention',
           k[1] = x, k[2] \in kinds
    PROVE  \/ k \in fresh \cap DOMAIN attention /\ attention'[k] = attention[k]
           \/ /\ kinds = ErringKinds /\ k \in DOMAIN ErringItems(tables, x)
              /\ attention'[k] = ErringItems(tables, x)[k]
           \/ /\ kinds = LagKinds /\ k \in DOMAIN LaggingItems(tables, x)
              /\ attention'[k] = LaggingItems(tables, x)[k]
<1>0. ErringKinds \cap LagKinds = {} /\ (ErringKinds \cup LagKinds) \cap AttentionKind = {}
  BY DEF ErringKinds, LagKinds, AttentionKind
<1>1. ASSUME NEW rows, NEW items, Upsert(rows, items), k \notin rows, k \notin DOMAIN items
      PROVE  k \in fresh \cap DOMAIN attention /\ attention'[k] = attention[k]
  BY <1>1 DEF Upsert
<1>2. ASSUME NEW y \in Indexer, ScoreAddress(y), Min(windows) = Primary
      PROVE  k \in fresh \cap DOMAIN attention /\ attention'[k] = attention[k]
  <2>1. y \in DOMAIN pending /\ Upsert(VerdictRows(y, pending[y]), ItemRows(y, pending[y]))
    BY <1>2 DEF ScoreAddress
  <2>2. JudgementOK(pending[y])
    BY <2>1 DEF CycleTypeOK, StageOK
  <2>3. /\ VerdictRows(y, pending[y]) \subseteq Indexer \X VerdictKind
        /\ DOMAIN ItemRows(y, pending[y]) = {<<y, kind, NoDeployment>> : kind \in pending[y].attention}
        /\ pending[y].attention \subseteq AttentionKind
    BY <2>2, RowsOfJudgement DEF JudgementOK
  <2>4. ItemTypeOK(k, attention'[k])
    <3>1. RowsTypeOK'
      BY RowsStep
    <3> QED BY <3>1 DEF RowsTypeOK, ItemTypeOK
  <2>5. k \notin VerdictRows(y, pending[y])
    BY <2>3, <2>4, KeysApart
  <2>6. k \notin DOMAIN ItemRows(y, pending[y])
    BY <1>0, <2>3
  <2> QED BY <1>1, <2>1, <2>5, <2>6
<1>3. ASSUME NEW items, PartOf(items, ErringFound(tables)), Upsert({}, items), k \in DOMAIN items
      PROVE  /\ kinds = ErringKinds /\ k \in DOMAIN ErringItems(tables, x)
             /\ attention'[k] = ErringItems(tables, x)[k]
  <2>1. attention'[k] = ErringFound(tables)[k] /\ k \in DOMAIN ErringFound(tables)
    BY <1>3, UpsertWrites DEF PartOf
  <2> QED BY <1>0, <2>1, ErringFoundType
<1>4. ASSUME NEW items, PartOf(items, LaggingFound(tables)), Upsert({}, items), k \in DOMAIN items
      PROVE  /\ kinds = LagKinds /\ k \in DOMAIN LaggingItems(tables, x)
             /\ attention'[k] = LaggingItems(tables, x)[k]
  <2>1. attention'[k] = LaggingFound(tables)[k] /\ k \in DOMAIN LaggingFound(tables)
    BY <1>4, UpsertWrites DEF PartOf
  <2> QED BY <1>0, <2>1, LaggingFoundType
<1>5. CASE fresh' \subseteq fresh /\ \A j \in DOMAIN attention' :
               j \in DOMAIN attention /\ attention'[j] = attention[j]
  BY <1>5
<1> QED BY <1>1, <1>2, <1>3, <1>4, <1>5, WhatIsWritten

-----------------------------------------------------------------------------
(* The two checks and the deletes.                                         *)

\* Once a check is past, its rows stay written: only a skewed clock makes them look old.
LEMMA WrittenStays ==
    ASSUME CycleTypeOK, [Next]_vars, ~Start, Whole'
    PROVE  fresh \subseteq fresh' \/ ~NoClock'
<1>1. CASE DropSkewed
  BY <1>1 DEF DropSkewed, NoClock
<1>2. ~CycleFails
  BY CycleContinues
<1>3. CASE FindErring \/ FindLagging \/ DeploymentCheckFails
  <2>1. \E items : Upsert({}, items)
    BY <1>3, ErringWritten, LaggingWritten, PartWritten DEF DeploymentCheckFails
  <2> QED BY <2>1 DEF Upsert
<1>4. ASSUME NEW x \in Indexer, ScoreAddress(x) PROVE fresh \subseteq fresh'
  BY <1>4 DEF ScoreAddress, Upsert
<1> QED BY <1>1, <1>2, <1>3, <1>4
    DEF Next, Cycle, LoadTables, LoadWindow, WindowScored, DropVerdicts, DropAttention,
        SybilDetectionFails, TablesChange, vars, output

\* Where the cycle can have come from.
LEMMA CycleOrder ==
    ASSUME CycleTypeOK, [Next]_vars, ~Start, Whole'
    PROVE  /\ pc' \notin {"errors"} \cup Loading \cup Scoring =>
                 \/ pc \notin {"errors"} \cup Loading \cup Scoring
                 \/ FindErring
                 \/ {"errors", "lags"} \subseteq unchecked'
           /\ pc' \notin {"errors", "lags"} \cup Loading \cup Scoring =>
                 \/ pc \notin {"errors", "lags"} \cup Loading \cup Scoring
                 \/ FindLagging
                 \/ "lags" \in unchecked'
<1> USE DEF Loading, Scoring
<1>1. CASE LoadTables \/ LoadWindow \/ WindowScored \/ SybilDetectionFails
  BY <1>1 DEF LoadTables, DetectSybils, LoadProfiles, LoadAllocHealth, LoadMeasuredLag,
      LoadRecent, Load, LoadWindow, WindowScored, SybilDetectionFails
<1>2. CASE FindErring \/ FindLagging \/ DropVerdicts \/ DropAttention \/ DropSkewed
  BY <1>2 DEF FindErring, FindLagging, DropVerdicts, DropAttention, DropSkewed
<1>3. CASE DeploymentCheckFails
  BY <1>3 DEF DeploymentCheckFails
<1>4. ASSUME NEW x \in Indexer, ScoreAddress(x) PROVE UNCHANGED pc
  BY <1>4 DEF ScoreAddress
<1>5. CASE TablesChange \/ UNCHANGED vars
  BY <1>5 DEF TablesChange, vars
<1>6. ~CycleFails
  BY CycleContinues
<1> QED BY <1>1, <1>2, <1>3, <1>4, <1>5, <1>6 DEF Next, Cycle

LEMMA ErringStep ==
    ASSUME CycleTypeOK, ErringInStep, [Next]_vars
    PROVE  ErringInStep'
<1>1. CASE Start
  BY <1>1, CycleBegins DEF ErringInStep, OnlyThese, Loading
<1> SUFFICES ASSUME ~Start, Whole', NEW x \in Undisturbed'
             PROVE  /\ OnlyThese(x, ErringKinds, ErringItems(tables, x))'
                    /\ pc' \notin {"errors"} \cup Loading \cup Scoring
                       /\ "errors" \notin unchecked' /\ NoClock' =>
                          DOMAIN ErringItems(tables', x) \subseteq fresh'
  BY <1>1 DEF ErringInStep
<1>2. /\ x \in Undisturbed /\ x \in Indexer /\ tables'[x] = tables[x] /\ Whole
      /\ unchecked \subseteq unchecked'
  BY CycleContinues DEF Undisturbed
<1>3. ErringItems(tables', x) = ErringItems(tables, x)
  BY <1>2, DueOfOwn
<1>4. ASSUME NEW k \in fresh' \cap DOMAIN attention', k[1] = x, k[2] \in ErringKinds
      PROVE  k \in DOMAIN ErringItems(tables, x) /\ attention'[k] = ErringItems(tables, x)[k]
  <2>1. ErringKinds # LagKinds
    BY DEF ErringKinds, LagKinds
  <2>2. OnlyThese(x, ErringKinds, ErringItems(tables, x))
    BY <1>2 DEF ErringInStep
  <2> QED BY <1>2, <1>4, <2>1, <2>2, OnlyTheseStep DEF OnlyThese
<1>5. ASSUME pc' \notin {"errors"} \cup Loading \cup Scoring, "errors" \notin unchecked', NoClock'
      PROVE  DOMAIN ErringItems(tables, x) \subseteq fresh'
  <2>1. CASE FindErring
    <3>1. DOMAIN ErringFound(tables) \subseteq fresh'
      BY <2>1, ErringWritten DEF Upsert
    <3> QED BY <1>2, <3>1, ErringFoundType
  <2>2. CASE pc \notin {"errors"} \cup Loading \cup Scoring
    <3>1. "errors" \notin unchecked /\ NoClock
      BY <1>2, <1>5 DEF NoClock
    <3>2. DOMAIN ErringItems(tables, x) \subseteq fresh
      BY <1>2, <2>2, <3>1 DEF ErringInStep
    <3> QED BY <1>5, <3>2, WrittenStays
  <2> QED BY <1>5, <2>1, <2>2, CycleOrder
<1> QED BY <1>3, <1>4, <1>5 DEF OnlyThese

LEMMA LaggingStep ==
    ASSUME CycleTypeOK, LaggingInStep, [Next]_vars
    PROVE  LaggingInStep'
<1>1. CASE Start
  BY <1>1, CycleBegins DEF LaggingInStep, OnlyThese, Loading
<1> SUFFICES ASSUME ~Start, Whole', disturbed' = {}, NEW x \in Indexer
             PROVE  /\ OnlyThese(x, LagKinds, LaggingItems(tables, x))'
                    /\ pc' \notin {"errors", "lags"} \cup Loading \cup Scoring
                       /\ "lags" \notin unchecked' /\ NoClock' =>
                          DOMAIN LaggingItems(tables', x) \subseteq fresh'
  BY <1>1 DEF LaggingInStep
<1>2. /\ disturbed = {} /\ Whole /\ unchecked \subseteq unchecked'
      /\ \A y \in Indexer : tables'[y] = tables[y]
  BY CycleContinues DEF Undisturbed
<1>3. tables' = tables
  <2>1. tables \in [Indexer -> Evidence] /\ tables' \in [Indexer -> Evidence]
    BY TypeStep DEF CycleTypeOK
  <2> QED BY <1>2, <2>1
<1>4. ASSUME NEW k \in fresh' \cap DOMAIN attention', k[1] = x, k[2] \in LagKinds
      PROVE  k \in DOMAIN LaggingItems(tables, x) /\ attention'[k] = LaggingItems(tables, x)[k]
  <2>1. ErringKinds # LagKinds
    BY DEF ErringKinds, LagKinds
  <2>2. OnlyThese(x, LagKinds, LaggingItems(tables, x))
    BY <1>2 DEF LaggingInStep
  <2> QED BY <1>2, <1>4, <2>1, <2>2, OnlyTheseStep DEF OnlyThese
<1>5. ASSUME pc' \notin {"errors", "lags"} \cup Loading \cup Scoring, "lags" \notin unchecked',
             NoClock'
      PROVE  DOMAIN LaggingItems(tables, x) \subseteq fresh'
  <2>1. CASE FindLagging
    <3>1. DOMAIN LaggingFound(tables) \subseteq fresh'
      BY <2>1, LaggingWritten DEF Upsert
    <3> QED BY <3>1, LaggingFoundType
  <2>2. CASE pc \notin {"errors", "lags"} \cup Loading \cup Scoring
    <3>1. "lags" \notin unchecked /\ NoClock
      BY <1>2, <1>5 DEF NoClock
    <3>2. DOMAIN LaggingItems(tables, x) \subseteq fresh
      BY <1>2, <2>2, <3>1 DEF LaggingInStep
    <3> QED BY <1>5, <3>2, WrittenStays
  <2> QED BY <1>5, <2>1, <2>2, CycleOrder
<1> QED BY <1>3, <1>4, <1>5 DEF OnlyThese

LEMMA DropStep ==
    ASSUME CycleTypeOK, OldIsDropped, [Next]_vars
    PROVE  OldIsDropped'
<1>1. CASE Start
  BY <1>1, CycleBegins DEF OldIsDropped
<1> SUFFICES ASSUME ~Start, Whole', NoClock'
             PROVE  /\ pc' \in {"attention", "sleep"} => verdicts' \subseteq fresh'
                    /\ pc' = "sleep" => DOMAIN attention' \subseteq fresh'
  BY <1>1 DEF OldIsDropped
<1>2. Whole /\ NoClock /\ ~CycleFails
  BY CycleContinues DEF NoClock
<1>3. CASE DropVerdicts
  BY <1>3 DEF DropVerdicts
<1>4. CASE DropAttention
  <2>1. verdicts \subseteq fresh
    BY <1>2, <1>4 DEF DropAttention, OldIsDropped
  <2> QED BY <1>4, <2>1 DEF DropAttention, Restrict
<1>5. CASE DropSkewed
  BY <1>5 DEF DropSkewed, NoClock
<1>6. CASE TablesChange \/ UNCHANGED vars
  <2>1. UNCHANGED <<pc, verdicts, attention, fresh>>
    BY <1>6 DEF TablesChange, vars, output
  <2> QED BY <1>2, <2>1 DEF OldIsDropped
<1>7. ASSUME NEW x \in Indexer, ScoreAddress(x) PROVE pc' = "score"
  BY <1>7 DEF ScoreAddress
<1> QED BY <1>2, <1>3, <1>4, <1>5, <1>6, <1>7
    DEF Next, Cycle, LoadTables, DetectSybils, LoadProfiles, LoadAllocHealth, LoadMeasuredLag,
        LoadRecent, Load, LoadWindow, WindowScored, FindErring, FindLagging, SybilDetectionFails,
        DeploymentCheckFails

-----------------------------------------------------------------------------
(* The theorems.                                                           *)

LEMMA ScorerInit == Init => ScorerInv
<1> SUFFICES ASSUME Init PROVE ScorerInv
  OBVIOUS
<1>1. CycleTypeOK
  BY TypeInit
<1>2. pc = "sleep" /\ pending = <<>> /\ ~Whole
  BY DEF Init, Whole
<1>3. ReadInStep /\ PendingInStep
  BY <1>2 DEF ReadInStep, ReadHolds, PendingInStep, Scoring
<1>4. DueIsWritten /\ FreshIsDue /\ ErringInStep /\ LaggingInStep /\ OldIsDropped
  BY <1>2 DEF DueIsWritten, FreshIsDue, ErringInStep, LaggingInStep, OldIsDropped
<1> QED BY <1>1, <1>3, <1>4 DEF ScorerInv

LEMMA ScorerStep == ScorerInv /\ [Next]_vars => ScorerInv'
BY TypeStep, ReadStep, PendingStep, WrittenStep, FreshStep, ErringStep, LaggingStep, DropStep
   DEF ScorerInv

\* The invariant of the scoring cycle: whatever has been read, judged and written of an
\* indexer whose tables did not change is what its tables call for (scorer.rs,
\* score_once).
THEOREM ScorerInvariant == Spec => []ScorerInv
BY ScorerInit, ScorerStep, PTL DEF Spec

\* Every row that is written is one the schema knows: a grade of the scale, a verdict of
\* the eight, an item of an indexer.
THEOREM ScorerTypeCorrect == Spec => []ScorerTypeOK
<1>1. ScorerInv => ScorerTypeOK
  BY DEF ScorerInv, CycleTypeOK, RowsTypeOK, StageOK, ItemTypeOK, Grades, ScorerTypeOK
<1> QED BY <1>1, ScorerInvariant, PTL

LEMMA FreshItemIsListed ==
    ASSUME CycleTypeOK, NEW k \in fresh, NEW named, ItemTypeOK(k, named)
    PROVE  k \in DOMAIN attention
BY KeysApart DEF CycleTypeOK, RowsTypeOK

\* What is due of x after the scores are all written is among the rows of this cycle.
LEMMA DueIsFresh ==
    ASSUME ScorerInv, Whole, windows = {}, NoClock, NEW x \in Undisturbed,
           x \in Listed(tables, Longest)
    PROVE  /\ SybilRan => VerdictRows(x, Due(tables, Longest, x)) \subseteq fresh
           /\ DOMAIN ItemRows(x, Due(tables, Longest, x)) \subseteq fresh
<1>1. Longest = Primary /\ Primary \in Windows
  BY PrimaryIsScored DEF Longest, Primary
<1>2. Passed(x, Primary)
  BY DEF Passed
<1>3. Published(x, Primary)
  BY <1>1, <1>2 DEF ScorerInv, DueIsWritten
<1> QED BY <1>1, <1>3 DEF Published

\* Past the check each erring deployment is named by a row of this cycle.
LEMMA ErringIsNamed ==
    ASSUME ScorerInv, Whole, NoClock, "errors" \notin unchecked,
           pc \notin {"errors"} \cup Loading \cup Scoring,
           NEW x \in Undisturbed, NEW d \in ErringOn(tables[x])
    PROVE  \E k \in fresh \cap DOMAIN attention :
               k[1] = x /\ k[2] \in ErringKinds /\ d \in attention[k]
<1>1. x \in Indexer
  BY DEF Undisturbed
<1>2. PICK k \in DOMAIN ErringItems(tables, x) : d \in ErringItems(tables, x)[k]
  BY <1>1, ErringItemsType
<1>3. k[1] = x /\ k[2] \in ErringKinds /\ ItemTypeOK(k, ErringItems(tables, x)[k])
  BY <1>1, <1>2, ErringItemsType
<1>4. k \in fresh
  BY <1>2 DEF ScorerInv, ErringInStep
<1>5. k \in DOMAIN attention
  BY <1>3, <1>4, FreshItemIsListed DEF ScorerInv
<1>6. OnlyThese(x, ErringKinds, ErringItems(tables, x))
  BY DEF ScorerInv, ErringInStep
<1>7. attention[k] = ErringItems(tables, x)[k]
  BY <1>3, <1>4, <1>5, <1>6 DEF OnlyThese
<1> QED BY <1>2, <1>3, <1>4, <1>5, <1>7

LEMMA WholeCyclePublishesWhatIsDue == ScorerInv => PublishedIsDue
<1> SUFFICES ASSUME ScorerInv, pc = "sleep", Intact
             PROVE  /\ \A w \in Windows : \A x \in Listed(tables, w) :
                          scores[x][w] = Some(Due(tables, w, x).grade)
                    /\ verdicts = VerdictsDue(tables)
                    /\ {k \in DOMAIN attention : attention[k] = {}} = ItemsDue(tables)
                    /\ \A x \in Indexer :
                          /\ Named(x, ErringKinds) = ErringOn(tables[x])
                          /\ NamedLagging(x) = LaggingOn(tables, x)
  BY DEF PublishedIsDue
<1>1. /\ Whole /\ NoClock /\ SybilRan /\ "errors" \notin unchecked /\ "lags" \notin unchecked
      /\ Undisturbed = Indexer /\ disturbed = {} /\ windows = {} /\ CycleTypeOK
      /\ verdicts \subseteq fresh /\ DOMAIN attention \subseteq fresh
      /\ \A t, w : Listed(t, w) \subseteq Indexer
  BY DEF Intact, Whole, NoClock, SybilRan, Undisturbed, ScorerInv, CycleTypeOK, StageOK,
      OldIsDropped, Listed, Addresses
<1>2. Longest = Primary
  BY DEF Longest, Primary
<1>3. ASSUME NEW w \in Windows, NEW x \in Listed(tables, w)
      PROVE  scores[x][w] = Some(Due(tables, w, x).grade)
  <2>1. x \in Undisturbed /\ Passed(x, w)
    BY <1>1 DEF Passed
  <2>2. Published(x, w)
    BY <1>1, <2>1 DEF ScorerInv, DueIsWritten
  <2> QED BY <1>1, <2>2 DEF Published
<1>4. ASSUME NEW v \in verdicts PROVE v \in VerdictsDue(tables)
  <2>1. PICK x \in Indexer, kind \in VerdictKind : v = <<x, kind>>
    BY <1>1 DEF CycleTypeOK, RowsTypeOK
  <2>2. x \in Listed(tables, Longest) /\ kind \in Due(tables, Longest, x).verdicts
    BY <1>1, <1>2, <2>1 DEF ScorerInv, FreshIsDue
  <2> QED BY <2>1, <2>2 DEF VerdictsDue, VerdictRows
<1>5. ASSUME NEW v \in VerdictsDue(tables) PROVE v \in verdicts
  <2>1. PICK x \in Listed(tables, Longest) : v \in VerdictRows(x, Due(tables, Longest, x))
    BY DEF VerdictsDue
  <2>2. JudgementOK(Due(tables, Longest, x))
    BY JudgementType DEF Due
  <2>3. v \in Indexer \X VerdictKind
    BY <1>1, <2>1, <2>2, RowsOfJudgement DEF JudgementOK
  <2>4. v \in fresh
    BY <1>1, <2>1, DueIsFresh
  <2> QED BY <1>1, <2>3, <2>4, KeysApart DEF CycleTypeOK, RowsTypeOK
<1>6. ASSUME NEW k \in DOMAIN attention, attention[k] = {} PROVE k \in ItemsDue(tables)
  <2>1. k \in Indexer \X AttentionKind \X {NoDeployment}
    BY <1>1, <1>6 DEF CycleTypeOK, RowsTypeOK, ItemTypeOK
  <2>2. PICK x \in Indexer, kind \in AttentionKind : k = <<x, kind, NoDeployment>>
    BY <2>1
  <2>3. x \in Listed(tables, Longest) /\ kind \in Due(tables, Longest, x).attention
    BY <1>1, <1>2, <2>2 DEF ScorerInv, FreshIsDue
  <2> QED BY <2>2, <2>3 DEF ItemsDue, ItemRows
<1>7. ASSUME NEW k \in ItemsDue(tables) PROVE k \in DOMAIN attention /\ attention[k] = {}
  <2>1. PICK x \in Listed(tables, Longest) : k \in DOMAIN ItemRows(x, Due(tables, Longest, x))
    BY DEF ItemsDue
  <2>2. JudgementOK(Due(tables, Longest, x)) /\ x \in Undisturbed /\ x \in Indexer
    BY <1>1, JudgementType DEF Due
  <2>3. /\ ItemTypeOK(k, ItemRows(x, Due(tables, Longest, x))[k])
        /\ k[2] \in AttentionKind
    <3>1. DOMAIN ItemRows(x, Due(tables, Longest, x))
            = {<<x, kind, NoDeployment>> : kind \in Due(tables, Longest, x).attention}
      BY DEF ItemRows
    <3>2. k[2] \in AttentionKind
      BY <2>1, <2>2, <3>1 DEF JudgementOK
    <3> QED BY <2>1, <2>2, <3>2, RowsOfJudgement DEF JudgementOK
  <2>4. k \in fresh
    BY <1>1, <2>1, <2>2, DueIsFresh
  <2>5. k \in DOMAIN attention
    BY <1>1, <2>3, <2>4, FreshItemIsListed
  <2>6. ItemTypeOK(k, attention[k])
    BY <1>1, <2>5 DEF CycleTypeOK, RowsTypeOK
  <2> QED BY <2>3, <2>5, <2>6 DEF ItemTypeOK, AttentionKind, WideKinds, NarrowKinds
<1>8. ASSUME NEW x \in Indexer PROVE Named(x, ErringKinds) = ErringOn(tables[x])
  <2>1. OnlyThese(x, ErringKinds, ErringItems(tables, x))
    BY <1>1 DEF ScorerInv, ErringInStep
  <2>2. ASSUME NEW d \in Named(x, ErringKinds) PROVE d \in ErringOn(tables[x])
    <3>1. PICK k \in DOMAIN attention : k[1] = x /\ k[2] \in ErringKinds /\ d \in attention[k]
      BY DEF Named
    <3> QED BY <1>1, <2>1, <3>1, ErringItemsType DEF OnlyThese
  <2>3. ASSUME NEW d \in ErringOn(tables[x]) PROVE d \in Named(x, ErringKinds)
    <3>1. pc \notin {"errors"} \cup Loading \cup Scoring
      BY DEF Loading, Scoring
    <3> QED BY <1>1, <3>1, ErringIsNamed DEF Named
  <2> QED BY <2>2, <2>3
<1>9. ASSUME NEW x \in Indexer PROVE NamedLagging(x) = LaggingOn(tables, x)
  <2>1. /\ OnlyThese(x, LagKinds, LaggingItems(tables, x))
        /\ DOMAIN LaggingItems(tables, x) \subseteq fresh
    BY <1>1 DEF ScorerInv, LaggingInStep, Loading, Scoring
  <2>2. \A d : d \in NamedLagging(x) <=>
            \E k \in DOMAIN attention : k[1] = x /\ k[2] \in LagKinds /\ d \in attention[k]
    BY DEF NamedLagging, Named, LagKinds
  <2>3. ASSUME NEW d \in NamedLagging(x) PROVE d \in LaggingOn(tables, x)
    <3>1. PICK k \in DOMAIN attention : k[1] = x /\ k[2] \in LagKinds /\ d \in attention[k]
      BY <2>2
    <3> QED BY <1>1, <2>1, <3>1, LaggingItemsType DEF OnlyThese
  <2>4. ASSUME NEW d \in LaggingOn(tables, x) PROVE d \in NamedLagging(x)
    <3>1. PICK k \in DOMAIN LaggingItems(tables, x) : d \in LaggingItems(tables, x)[k]
      BY LaggingItemsType
    <3>2. k[1] = x /\ k[2] \in LagKinds /\ ItemTypeOK(k, LaggingItems(tables, x)[k])
      BY <3>1, LaggingItemsType
    <3>3. k \in fresh \cap DOMAIN attention
      BY <1>1, <2>1, <3>1, <3>2, FreshItemIsListed
    <3>4. attention[k] = LaggingItems(tables, x)[k]
      BY <2>1, <3>2, <3>3 DEF OnlyThese
    <3> QED BY <2>2, <3>1, <3>2, <3>3, <3>4
  <2> QED BY <2>3, <2>4
<1> QED BY <1>3, <1>4, <1>5, <1>6, <1>7, <1>8, <1>9

\* After a whole cycle beside which nothing changed the board is what the tables call
\* for, whatever earlier cycles lost or left behind (scorer.rs, score_once: the upserts
\* and the two deletes at its end).
THEOREM PublishedIsWhatIsDue == Spec => []PublishedIsDue
BY ScorerInvariant, WholeCyclePublishesWhatIsDue, PTL

\* Only the two deletes take a row away.
LEMMA OnlyDropsDelete ==
    ASSUME [Next]_vars, NoClock'
    PROVE  /\ DropVerdicts \/ verdicts \subseteq verdicts'
           /\ DropAttention \/ DOMAIN attention \subseteq DOMAIN attention'
<1>1. CASE UNCHANGED <<verdicts, attention>>
  BY <1>1
<1>2. ASSUME NEW rows, NEW items, Upsert(rows, items)
      PROVE  verdicts \subseteq verdicts' /\ DOMAIN attention \subseteq DOMAIN attention'
  BY <1>2 DEF Upsert
<1>3. CASE FindErring \/ FindLagging
  BY <1>2, <1>3, ErringWritten, LaggingWritten
<1>4. ASSUME pc \in {"errors", "lags"}, CheckedInPart
      PROVE  verdicts \subseteq verdicts' /\ DOMAIN attention \subseteq DOMAIN attention'
  BY <1>2, <1>4, PartWritten
<1>5. ASSUME NEW x \in Indexer, ScoreAddress(x)
      PROVE  verdicts \subseteq verdicts' /\ DOMAIN attention \subseteq DOMAIN attention'
  BY <1>1, <1>2, <1>5 DEF ScoreAddress
<1>6. CASE CycleFails
  <2>1. ASSUME NEW x, ScoredInPart(x) PROVE \E rows, items : Upsert(rows, items)
    BY <2>1 DEF ScoredInPart
  <2> QED BY <1>1, <1>2, <1>4, <1>6, <2>1 DEF CycleFails, output
<1>7. CASE DropVerdicts \/ DropAttention
  BY <1>7 DEF DropVerdicts, DropAttention
<1>8. ~DropSkewed
  BY DEF DropSkewed, NoClock
<1> QED BY <1>1, <1>3, <1>4, <1>5, <1>6, <1>7, <1>8
    DEF Next, Cycle, Start, LoadTables, LoadWindow, WindowScored, SybilDetectionFails,
        DeploymentCheckFails, TablesChange, vars, output

LEMMA WithdrawnStep ==
    ASSUME ScorerInv, [Next]_vars, NoClock'
    PROVE  /\ \A v \in verdicts \ verdicts' :
                 v[1] \in disturbed \/ v \notin VerdictsDue(tables) \/ ~SybilRan
           /\ \A k \in DOMAIN attention \ DOMAIN attention' :
                 attention[k] = {} => k[1] \in disturbed \/ k \notin ItemsDue(tables)
<1>1. CycleTypeOK /\ \A t, w : Listed(t, w) \subseteq Indexer
  BY DEF ScorerInv, Listed, Addresses
<1>2. ASSUME DropVerdicts \/ DropAttention PROVE Whole /\ NoClock /\ windows = {}
  <2>1. pc \in {"verdicts", "attention"} /\ unchecked' = unchecked
    BY <1>2 DEF DropVerdicts, DropAttention, history
  <2> QED BY <1>1, <2>1 DEF CycleTypeOK, StageOK, Closing, NoClock
<1>3. ASSUME NEW v \in verdicts \ verdicts', v \in VerdictsDue(tables), SybilRan,
             v[1] \notin disturbed
      PROVE  FALSE
  <2>1. DropVerdicts
    BY <1>3, OnlyDropsDelete
  <2>2. PICK x \in Listed(tables, Longest) : v \in VerdictRows(x, Due(tables, Longest, x))
    BY <1>3 DEF VerdictsDue
  <2>3. v[1] = x /\ x \in Undisturbed
    BY <1>1, <1>3, <2>2 DEF VerdictRows, Undisturbed
  <2>4. v \in fresh
    BY <1>2, <1>3, <2>1, <2>2, <2>3, DueIsFresh
  <2> QED BY <1>3, <2>1, <2>4 DEF DropVerdicts
<1>4. ASSUME NEW k \in DOMAIN attention \ DOMAIN attention', k \in ItemsDue(tables),
             k[1] \notin disturbed
      PROVE  FALSE
  <2>1. DropAttention
    BY <1>4, OnlyDropsDelete
  <2>2. PICK x \in Listed(tables, Longest) : k \in DOMAIN ItemRows(x, Due(tables, Longest, x))
    BY <1>4 DEF ItemsDue
  <2>3. k[1] = x /\ x \in Undisturbed
    BY <1>1, <1>4, <2>2 DEF ItemRows, Undisturbed
  <2>4. k \in fresh
    BY <1>2, <2>1, <2>2, <2>3, DueIsFresh
  <2> QED BY <1>4, <2>1, <2>4 DEF DropAttention, Restrict
<1> QED BY <1>3, <1>4

\* A verdict or an item of an indexer that is still due, of evidence that did not change
\* since the cycle began, is not withdrawn, whatever fails on the way but the sybil
\* detection and the clocks (scorer.rs, the deletes by last_seen).
THEOREM DueIsNotWithdrawn == Spec => WithdrawnOnlyWhenCleared
<1>1. ScorerInv /\ [Next]_vars =>
        [ "clock" \in unchecked' \/
          /\ \A v \in verdicts \ verdicts' :
                v[1] \in disturbed \/ v \notin VerdictsDue(tables)
                \/ "sybil" \in unchecked
          /\ \A k \in DOMAIN attention \ DOMAIN attention' :
                attention[k] = {} => k[1] \in disturbed \/ k \notin ItemsDue(tables) ]_vars
  BY WithdrawnStep DEF NoClock, SybilRan
<1> QED BY <1>1, ScorerInvariant, PTL DEF Spec, WithdrawnOnlyWhenCleared

\* A rolled-up item names all that errs.
LEMMA WideNamesAll ==
    ASSUME NEW t, NEW x, NEW k \in DOMAIN ErringItems(t, x), k[2] = "serving-errors"
    PROVE  ErringItems(t, x)[k] = ErringOn(t[x])
<1> DEFINE ds == ErringOn(t[x])
<1> HIDE DEF ds
<1>1. ErringItems(t, x) = ItemsFor(x, "serving-errors", "serving-errors-deployment", ds)
  BY DEF ErringItems, ds
<1>2. CASE Cardinality(ds) >= RollupThreshold
  BY <1>1, <1>2 DEF ItemsFor, ds
<1>3. CASE ~(Cardinality(ds) >= RollupThreshold)
  BY <1>1, <1>3 DEF ItemsFor
<1> QED BY <1>2, <1>3

\* An item that names an erring deployment goes on naming it when it is written over.
LEMMA NamedIsKept ==
    ASSUME CycleTypeOK, [Next]_vars, NoClock', ~DropAttention,
           NEW x \in Indexer, NEW d \in ErringOn(tables[x]),
           NEW k \in DOMAIN attention, k[1] = x, k[2] \in ErringKinds, d \in attention[k]
    PROVE  k \in DOMAIN attention' /\ d \in attention'[k]
<1>0. /\ ErringKinds \cap LagKinds = {} /\ (ErringKinds \cup LagKinds) \cap AttentionKind = {}
      /\ ErringKinds \cap AttentionKind = {}
  BY DEF ErringKinds, LagKinds, AttentionKind
<1>1. CASE UNCHANGED attention
  BY <1>1
<1>2. ASSUME NEW rows, NEW items, Upsert(rows, items), k \notin DOMAIN items
      PROVE  k \in DOMAIN attention' /\ d \in attention'[k]
  BY <1>2 DEF Upsert
<1>3. ASSUME NEW items, Upsert({}, items), PartOf(items, ErringFound(tables)), k \in DOMAIN items
      PROVE  k \in DOMAIN attention' /\ d \in attention'[k]
  <2>1. k \in DOMAIN attention' /\ attention'[k] = ErringFound(tables)[k]
        /\ k \in DOMAIN ErringFound(tables)
    BY <1>3, UpsertWrites DEF PartOf
  <2>2. /\ k \in DOMAIN ErringItems(tables, x)
        /\ attention'[k] = ErringItems(tables, x)[k]
        /\ ItemTypeOK(k, attention'[k])
    BY <2>1, ErringFoundType
  <2>3. CASE k[2] = "serving-errors"
    BY <2>1, <2>2, <2>3, WideNamesAll
  <2>4. CASE k[2] = "serving-errors-deployment"
    <3>1. ItemTypeOK(k, attention[k])
      BY DEF CycleTypeOK, RowsTypeOK
    <3>2. attention[k] = {k[3]} /\ attention'[k] = {k[3]}
      BY <2>2, <2>4, <3>1 DEF ItemTypeOK, WideKinds, AttentionKind
    <3> QED BY <2>1, <3>2
  <2> QED BY <2>3, <2>4 DEF ErringKinds
<1>4. ASSUME NEW items, Upsert({}, items), PartOf(items, LaggingFound(tables))
      PROVE  k \notin DOMAIN items
  <2>1. \A j \in DOMAIN items : j[2] \in LagKinds
    BY <1>4, LaggingFoundType DEF PartOf
  <2> QED BY <1>0, <2>1
<1>5. CASE FindErring \/ FindLagging
  BY <1>2, <1>3, <1>4, <1>5, ErringWritten, LaggingWritten
<1>6. ASSUME pc \in {"errors", "lags"}, CheckedInPart
      PROVE  k \in DOMAIN attention' /\ d \in attention'[k]
  BY <1>2, <1>3, <1>4, <1>6, PartWritten
<1>7. ASSUME NEW y \in Indexer, NEW j, j.attention \subseteq AttentionKind
      PROVE  k \notin DOMAIN ItemRows(y, j)
  BY <1>0, <1>7 DEF ItemRows
<1>8. ASSUME NEW y \in Indexer, ScoreAddress(y)
      PROVE  k \in DOMAIN attention' /\ d \in attention'[k]
  <2>1. pending[y].attention \subseteq AttentionKind
    BY <1>8 DEF ScoreAddress, CycleTypeOK, StageOK, JudgementOK
  <2> QED BY <1>1, <1>2, <1>7, <1>8, <2>1 DEF ScoreAddress
<1>9. CASE CycleFails
  <2>1. ASSUME NEW y \in DOMAIN pending, ScoredInPart(y)
        PROVE  k \in DOMAIN attention' /\ d \in attention'[k]
    <3>1. y \in Indexer /\ pending[y].attention \subseteq AttentionKind
      BY DEF CycleTypeOK, StageOK, JudgementOK
    <3>2. PICK part : /\ part.attention \subseteq pending[y].attention
                      /\ Upsert(VerdictRows(y, part), ItemRows(y, part))
      BY <2>1 DEF ScoredInPart
    <3> QED BY <1>2, <1>7, <3>1, <3>2
  <2> QED BY <1>1, <1>6, <1>9, <2>1 DEF CycleFails, output
<1>10. ~DropSkewed
  BY DEF DropSkewed, NoClock
<1> QED BY <1>1, <1>5, <1>6, <1>8, <1>9, <1>10
    DEF Next, Cycle, Start, LoadTables, LoadWindow, WindowScored, DropVerdicts,
        SybilDetectionFails, DeploymentCheckFails, TablesChange, vars, output

LEMMA NamedStep ==
    ASSUME ScorerInv, [Next]_vars, NoClock', "errors" \notin unchecked,
           NEW x \in Undisturbed, NEW d \in ErringOn(tables[x]), d \in Named(x, ErringKinds)
    PROVE  d \in Named(x, ErringKinds)'
<1>1. CycleTypeOK /\ x \in Indexer
  BY DEF ScorerInv, Undisturbed
<1>2. CASE DropAttention
  <2>1. /\ Whole /\ NoClock /\ pc \notin {"errors"} \cup Loading \cup Scoring
    BY <1>1, <1>2 DEF DropAttention, CycleTypeOK, StageOK, Loading, Scoring, NoClock, history
  <2>2. PICK k \in fresh \cap DOMAIN attention :
            k[1] = x /\ k[2] \in ErringKinds /\ d \in attention[k]
    BY <2>1, ErringIsNamed
  <2>3. k \in DOMAIN attention' /\ attention'[k] = attention[k]
    BY <1>2 DEF DropAttention, Restrict
  <2> QED BY <2>2, <2>3 DEF Named
<1>3. CASE ~DropAttention
  <2>1. PICK k \in DOMAIN attention : k[1] = x /\ k[2] \in ErringKinds /\ d \in attention[k]
    BY DEF Named
  <2>2. k \in DOMAIN attention' /\ d \in attention'[k]
    BY <1>1, <1>3, <2>1, NamedIsKept
  <2> QED BY <2>1, <2>2 DEF Named
<1> QED BY <1>2, <1>3

\* A deployment that goes on erring is named without a gap, while the items about it roll
\* up, fall apart again, are written over or are swept (scorer.rs,
\* per_deployment_attention and the delete after it).
THEOREM ErringIsNamedThroughout == Spec => ErringStaysNamed
<1>1. ScorerInv /\ [Next]_vars =>
        [ \A x \in Indexer : \A d \in Named(x, ErringKinds) \ Named(x, ErringKinds)' :
            \/ x \in disturbed \/ d \notin ErringOn(tables[x])
            \/ "errors" \in unchecked \/ "clock" \in unchecked' ]_vars
  BY NamedStep DEF NoClock, Undisturbed
<1> QED BY <1>1, ScorerInvariant, PTL DEF Spec, ErringStaysNamed
=============================================================================
