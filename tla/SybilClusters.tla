---------------------------- MODULE SybilClusters ----------------------------
(***************************************************************************)
(* Detection of one operator behind many anonymous identities.             *)
(*                                                                         *)
(* At the start of a scoring cycle the anonymous profiles are read, their  *)
(* active allocations are asked for, and a union-find over the pairs of    *)
(* candidates groups those that look like the same operator.  The groups   *)
(* of three or more are upserted one by one under an id that is a hash of  *)
(* their members, and then all other rows are deleted.                     *)
(*                                                                         *)
(* Days, stakes (in millions of GRT) and footprints are as in the code,    *)
(* and stakes are compared exactly.  Confidences are percentages, and so   *)
(* are overlaps, of which each is rounded down before they are averaged.   *)
(***************************************************************************)
EXTENDS Integers, FiniteSets, Sequences, SequencesExt

CONSTANTS
    Address,
    Profile,      \* the profiles an indexer may have
    First,        \* the profiles of the roster to begin with
    MaxChanges,   \* bound on changes of the roster
    MaxFailures,  \* bound on failed or short requests, failed statements, restarts
    CreatedWindow, StakeTol, HighStake, MinStake, MinMembers,
    CrowdOverlap, CrowdMinAllocs

\* deps: the deployments the indexer is allocated to.
ProfileAssumption ==
    /\ IsFiniteSet(Address)
    /\ \A p \in Profile : /\ p.named \in BOOLEAN /\ {p.day, p.stake} \subseteq Nat
                          /\ IsFiniteSet(p.deps)
    /\ First \in [Address -> Profile]

SybilBounds ==
    /\ {MaxChanges, MaxFailures, CreatedWindow, StakeTol, HighStake, MinStake,
        CrowdOverlap, CrowdMinAllocs} \subseteq Nat
    /\ MinMembers \in Nat \ {0}

VARIABLES
    profiles,   \* table indexer_profile, and the allocations of each indexer
    clusters,   \* table sybil_cluster: sets of members with their confidence
    detection,  \* the progress of detect_and_store
    latest,     \* history, read by properties only: the clusters found last, and
                \* whether the table mixes them with earlier ones
    spent       \* changes and failures so far

vars == <<profiles, clusters, detection, latest, spent>>

-----------------------------------------------------------------------------
(* The pure part.  c is the sequence of the candidates, whose footprints   *)
(* may be empty, and a, b are candidates.                                  *)

Smaller(m, n) == IF m <= n THEN m ELSE n
Larger(m, n) == IF m <= n THEN n ELSE m

\* overlap_coefficient in percent.
Overlap(a, b) ==
    LET min == Smaller(Cardinality(a.deps), Cardinality(b.deps))
    IN  IF min = 0 THEN 0 ELSE (100 * Cardinality(a.deps \cap b.deps)) \div min

Within(percent, m, n) == 100 * (Larger(m, n) - Smaller(m, n)) <= percent * Larger(m, n)

SameOperator(a, b) ==
    LET closeTime == Larger(a.day, b.day) - Smaller(a.day, b.day) <= CreatedWindow
        similarStake == Within(StakeTol, a.stake, b.stake)
        bothWhales == a.stake >= HighStake /\ b.stake >= HighStake
        crowd == /\ {Cardinality(a.deps), Cardinality(b.deps)} \cap 0..(CrowdMinAllocs - 1) = {}
                 /\ Overlap(a, b) >= CrowdOverlap
    IN  (closeTime /\ (similarStake \/ bothWhales)) \/ crowd

\* Following the parents from x; the shortening of the path changes no root.
Find(parent, x) ==
    LET climb[k \in 0..Len(parent)] == IF k = 0 THEN x ELSE parent[climb[k - 1]]
    IN  climb[Len(parent)]

\* Variation: the parents of the two are joined instead of their roots.
UnionParents(c, parent, p) ==
    IF SameOperator(c[p[1]], c[p[2]]) THEN [parent EXCEPT ![p[1]] = parent[p[2]]] ELSE parent

Union(c, parent, p) ==
    IF SameOperator(c[p[1]], c[p[2]])
    THEN [parent EXCEPT ![Find(parent, p[1])] = Find(parent, p[2])]
    ELSE parent

\* The inner loop: candidate i against every later one.
Row(c, parent, i) ==
    LET joined[j \in i..Len(c)] == IF j = i THEN parent ELSE Union(c, joined[j - 1], <<i, j>>)
    IN  joined[Len(c)]

Forest(c) ==
    LET rows[i \in 0..Len(c)] == IF i = 0 THEN [x \in 1..Len(c) |-> x] ELSE Row(c, rows[i - 1], i)
    IN  rows[Len(c)]

Groups(c) ==
    LET forest == Forest(c)
        root == [i \in 1..Len(c) |-> Find(forest, i)]
    IN  {g \in {{i \in 1..Len(c) : root[i] = r} : r \in 1..Len(c)} :
            Cardinality(g) >= MinMembers}

\* mean_overlap in percent.  The sum of the overlaps is the number of percents the
\* pairs have reached.
MeanOverlap(c, g) ==
    LET pairs == {p \in g \X g : p[1] < p[2]}
        reached == UNION {{p} \X (1..Overlap(c[p[1]], c[p[2]])) : p \in pairs}
    IN  IF pairs = {} THEN 0 ELSE Cardinality(reached) \div Cardinality(pairs)

ByAge(days) ==
    LET spread == Max(days) - Min(days)
    IN  IF spread <= 1 THEN 25 ELSE IF spread <= 3 THEN 10 ELSE 0

ByStake(stakes) ==
    LET similar(percent) == Within(percent, Min(stakes), Max(stakes))
    IN  (IF similar(3) THEN 20 ELSE IF similar(10) THEN 10 ELSE IF similar(25) THEN 5 ELSE 0)
            + (IF Min(stakes) >= HighStake THEN 15 ELSE 0)

ByOverlap(percent) == IF percent >= CrowdOverlap THEN 20 ELSE IF percent >= 50 THEN 10 ELSE 0

\* Variation: a bigger group is a surer one.
ConfidenceBySize(c, g) ==
    Smaller(100, 40 + ByAge({c[i].day : i \in g}) + ByStake({c[i].stake : i \in g})
                    + 5 * Cardinality(g))

\* The confidence of build_cluster.
Confidence(c, g) ==
    Smaller(100, 40 + ByAge({c[i].day : i \in g}) + ByStake({c[i].stake : i \in g})
                    + ByOverlap(MeanOverlap(c, g)))

\* cluster_id is a hash of the sorted members, so that the members stand for it.
Found(c) ==
    {[members |-> {c[i].address : i \in g}, confidence |-> Confidence(c, g)] : g \in Groups(c)}

-----------------------------------------------------------------------------
(* detect_and_store.                                                       *)

Idle == [pc |-> "idle", rows |-> <<>>, found |-> {}, todo |-> {}]

Init ==
    /\ profiles = First
    /\ clusters = {}
    /\ detection = Idle
    /\ latest = [found |-> {}, mixed |-> FALSE]
    /\ spent = [changes |-> 0, failures |-> 0]

ProfileChanges(a) ==
    /\ spent.changes < MaxChanges
    /\ spent' = [spent EXCEPT !.changes = @ + 1]
    /\ \E p \in Profile \ {profiles[a]} : profiles' = [profiles EXCEPT ![a] = p]
    /\ UNCHANGED <<clusters, detection, latest>>

Failure ==
    /\ spent.failures < MaxFailures
    /\ spent' = [spent EXCEPT !.failures = @ + 1]

Suspects == {a \in Address : ~profiles[a].named /\ profiles[a].stake >= MinStake}

\* The rows come in no particular order, and without footprints.
ReadRoster ==
    /\ detection.pc = "idle"
    /\ \E order \in SetToSeqs(Suspects) :
        detection' = [Idle EXCEPT !.pc = "footprints",
                        !.rows = [i \in DOMAIN order |->
                                     [address |-> order[i], day |-> profiles[order[i]].day,
                                      stake |-> profiles[order[i]].stake, deps |-> {}]]]
    /\ UNCHANGED <<profiles, clusters, latest, spent>>

\* unread: the allocations that are missing in the answer.
Clustering(unread) ==
    /\ detection.pc = "footprints"
    /\ LET c == [i \in DOMAIN detection.rows |->
                    LET r == detection.rows[i]
                    IN  [r EXCEPT !.deps = {d \in profiles[r.address].deps :
                                                <<r.address, d>> \notin unread}]]
       IN  /\ detection' = [pc |-> "store", rows |-> c, found |-> Found(c), todo |-> Found(c)]
           /\ latest' = [latest EXCEPT !.found = Found(c)]
    /\ UNCHANGED <<profiles, clusters>>

Cluster == Clustering({}) /\ UNCHANGED spent

\* The allocations asked for.
Allocations ==
    UNION {{r.address} \X profiles[r.address].deps : r \in Range(detection.rows)}

\* No footprint after a failed request; without the later pages any part of them, since
\* the pages go by the ids of the allocations.  Without an API key the request is as
\* good as failed.
ClusterBlind == Failure /\ \E unread \in SUBSET Allocations : Clustering(unread)

StoreCluster(x) ==
    /\ detection.pc = "store" /\ x \in detection.todo
    /\ clusters' = {y \in clusters : y.members # x.members} \cup {x}
    /\ detection' = [detection EXCEPT !.todo = @ \ {x}]
    /\ latest' = [latest EXCEPT !.mixed = TRUE]
    /\ UNCHANGED <<profiles, spent>>

\* Variation: the rows of the members in hand are deleted, the others kept.
DeleteStaleOverlapping ==
    /\ detection.pc = "store" /\ detection.todo = {}
    /\ clusters' = {y \in clusters : \/ y \in detection.found
                                     \/ \A x \in detection.found : x.members \cap y.members = {}}
    /\ detection' = Idle
    /\ latest' = [latest EXCEPT !.mixed = FALSE]
    /\ UNCHANGED <<profiles, spent>>

\* Drop stale clusters from earlier runs.
DeleteStale ==
    /\ detection.pc = "store" /\ detection.todo = {}
    /\ clusters' = {y \in clusters : \E x \in detection.found : y.members = x.members}
    /\ detection' = Idle
    /\ latest' = [latest EXCEPT !.mixed = FALSE]
    /\ UNCHANGED <<profiles, spent>>

\* A statement fails, or the process restarts: what is stored stays.
DetectionFails ==
    /\ detection.pc # "idle"
    /\ Failure
    /\ detection' = Idle
    /\ latest' = [latest EXCEPT !.mixed = @ \/ detection.pc = "store"]
    /\ UNCHANGED <<profiles, clusters>>

Next ==
    \/ \E a \in Address : ProfileChanges(a)
    \/ ReadRoster \/ Cluster \/ ClusterBlind
    \/ \E x \in detection.todo : StoreCluster(x)
    \/ DeleteStale
    \/ DetectionFails

Spec == Init /\ [][Next]_vars

-----------------------------------------------------------------------------

SybilTypeOK ==
    /\ profiles \in [Address -> Profile]
    /\ \A x \in clusters : x.members \subseteq Address /\ x.confidence \in 40..100
    /\ \A x, y \in clusters : x.members = y.members => x = y
    /\ detection.pc \in {"idle", "footprints", "store"}
    /\ detection.todo \subseteq detection.found
    /\ spent \in [changes : 0..MaxChanges, failures : 0..MaxFailures]

\* "Union-find over the same operator adjacency relation": whatever the order of
\* the rows, the groups are the connected components of that relation that are
\* large enough, the sets no link leaves and no cut without a link divides.
GroupsAreComponents ==
    LET c == detection.rows
        Linked(I, J) == \E i \in I, j \in J : SameOperator(c[i], c[j])
        Component(g) == /\ ~Linked(g, (1..Len(c)) \ g)
                        /\ \A part \in (SUBSET g) \ {{}, g} : Linked(part, g \ part)
    IN  Groups(c) = {g \in SUBSET (1..Len(c)) : Cardinality(g) >= MinMembers /\ Component(g)}

\* "A membership change yields a new cluster_id, so the old row would otherwise
\* linger and double-count": between two detections no indexer is in two rows,
\* and the rows are those of one detection, unless the last one was cut off.
StoredIsOneDetection ==
    detection.pc = "idle" /\ ~latest.mixed =>
        /\ \A x, y \in clusters : x = y \/ x.members \cap y.members = {}
        /\ clusters = latest.found

\* "A bigger loosely-linked group is not more certain, it's more diluted": of two
\* groups of the same candidates, the one that contains the other is surer only
\* when its footprints overlap more.
SizeNeverInflates ==
    LET c == detection.rows
    IN  \A g \in Groups(c) : \A part \in SUBSET g :
            Cardinality(part) >= MinMembers /\ MeanOverlap(c, g) <= MeanOverlap(c, part)
            => Confidence(c, g) <= Confidence(c, part)
==============================================================================
