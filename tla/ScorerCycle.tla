---------------------------- MODULE ScorerCycle ----------------------------
(***************************************************************************)
(* The scoring loop: every cycle reads the tables the other loops keep,    *)
(* one query after another, judges each indexer over each window, upserts  *)
(* grades, verdicts and attention items one statement at a time, adds the  *)
(* items of the per-deployment check, and last deletes every verdict and   *)
(* item it has not written since it started.                               *)
(*                                                                         *)
(* The tables of the other loops are one record of evidence per indexer,   *)
(* any of which may change between two statements.  last_seen is compared  *)
(* with the start of the cycle only, so a row is either written since then *)
(* (in fresh) or not; a clock that is off misjudges some rows.  Each row   *)
(* is its key; of an item's detail the deployments it names are kept.      *)
(* first_seen and status are left out.                                     *)
(***************************************************************************)
EXTENDS ScoreJudge, TLC

CONSTANTS
    Indexer,
    Deployment,
    NoDeployment,      \* the empty deployment_id of an indexer-wide item
    Windows,           \* scored windows, in days
    Evidence,          \* what the tables may hold of an indexer
    InitialTables,     \* the contents they may start with
    RollupThreshold,   \* from as many deployments on there is one item
    MinPeers,          \* serving peers before a lag is compared
    LagMargin,         \* blocks behind the freshest of them
    MaxChanges,        \* bound: changes of the tables
    MaxFailures,       \* bound: failed checks, ended cycles and skewed clocks
    MaxSkewed          \* bound: rows of a table that a skewed clock misjudges

ASSUME ScorerAssumption ==
    /\ Windows # {} /\ Windows \subseteq Nat /\ IsFiniteSet(Windows)
    /\ NoDeployment \notin Deployment
    /\ InitialTables \subseteq [Indexer -> Evidence]
    /\ RollupThreshold \in Nat \ {0}
    /\ MaxChanges \in Nat /\ MaxFailures \in Nat

VARIABLES
    tables,      \* the evidence held of each indexer
    scores,      \* indexer_score: per indexer and window, <<>> without a row
    verdicts,    \* verdict: <<indexer, kind>>
    attention,   \* attention_item: <<indexer, kind, deployment>> to what it names
    fresh,       \* the keys of both whose last_seen is not before the cycle
    pc,          \* the statement the cycle is at
    read,        \* what it has read so far
    windows,     \* the windows still to score
    pending,     \* the addresses still to write in the first of them, judged
    disturbed,   \* history: indexers whose tables changed since the cycle began
    unchecked,   \* history: what failed, or was skewed, since the cycle began
    changes, failures

output == <<scores, verdicts, attention, fresh>>
history == <<disturbed, unchecked>>
budget == <<changes, failures>>
vars == <<tables, output, pc, read, windows, pending, history, budget>>

Primary == Max(Windows)

-----------------------------------------------------------------------------
(* What the queries return.                                                *)

ErringOn(e) ==
    {d \in Deployment :
        /\ e.serving[d].probes >= Cfg.minProbes
        /\ 2 * e.serving[d].ok < e.serving[d].probes}

MeasuredOn(e) == {d \in Deployment : e.serving[d].probes >= Cfg.minProbes}

AllocHealth(e) ==
    [measured |-> Cardinality(MeasuredOn(e)), erroring |-> Cardinality(ErringOn(e))]

\* Who was probed on d often enough in the buckets that hold a lag (timed).
Peers(t, d) ==
    {x \in Indexer : LET s == t[x].serving[d] IN s.timed >= Cfg.minProbes /\ s.behind # None}

LaggingOn(t, x) ==
    {d \in Deployment :
        /\ x \in Peers(t, d)
        /\ Cardinality(Peers(t, d)) >= MinPeers
        /\ LET lag(y) == t[y].serving[d].behind[1]
           IN  /\ lag(x) > Min({lag(y) : y \in Peers(t, d)}) + LagMargin
               /\ lag(x) > LagMargin}

NoProfile == [stake |-> None, allocations |-> None, success |-> None,
              queries |-> None, eligible |-> FALSE]

\* Variation: the rolled-up item keeps an example.
ItemsForSample(x, wide, narrow, ds) ==
    IF Cardinality(ds) >= RollupThreshold
    THEN <<x, wide, NoDeployment>> :> {CHOOSE d \in ds : TRUE}
    ELSE [k \in {<<x, narrow, d>> : d \in ds} |-> {k[3]}]

\* The key and the deployments of the items that name ds as a trouble of x.
ItemsFor(x, wide, narrow, ds) ==
    IF Cardinality(ds) >= RollupThreshold
    THEN [k \in {<<x, wide, NoDeployment>>} |-> ds]
    ELSE [k \in {<<x, narrow, d>> : d \in ds} |-> {k[3]}]

ErringItems(t, x) ==
    ItemsFor(x, "serving-errors", "serving-errors-deployment", ErringOn(t[x]))
LaggingItems(t, x) ==
    ItemsFor(x, "behind-deployments", "behind-deployment", LaggingOn(t, x))

Merged(items) ==
    [k \in UNION {DOMAIN items[x] : x \in Indexer} |-> items[k[1]][k]]

\* What is known of x: from the profile, the tallies of the window and of the
\* last hours, the health, the lag and the swarm that were read for it.
Assemble(r, x) ==
    LET p == IF r.profile[x] = None THEN NoProfile ELSE r.profile[x][1]
        tally(o) == IF o = None THEN NoTally ELSE o[1]
    IN  [seen |-> tally(r.agg[x]), recent |-> tally(r.recent[x]),
         stake |-> p.stake, allocations |-> p.allocations, success |-> p.success,
         queries |-> p.queries, eligible |-> p.eligible,
         measured |-> r.health[x].measured, erroring |-> r.health[x].erroring,
         lag |-> r.lag[x], swarm |-> r.swarm[x]]

Addresses(r) == {x \in Indexer : r.profile[x] # None \/ r.agg[x] # None}

-----------------------------------------------------------------------------
(* The cycle.                                                              *)

Nothing == [swarm |-> None, profile |-> None, health |-> None, lag |-> None,
            recent |-> None, agg |-> None]

\* Variation: the board is cleared before it is written anew.
StartCleared ==
    /\ pc = "sleep"
    /\ pc' = "swarm"
    /\ fresh' = {} /\ attention' = <<>>
    /\ windows' = Windows
    /\ disturbed' = {} /\ unchecked' = {}
    /\ UNCHANGED <<tables, scores, verdicts, read, pending, budget>>

\* last_seen of every row now lies before run_start.
Start ==
    /\ pc = "sleep"
    /\ pc' = "swarm"
    /\ fresh' = {}
    /\ windows' = Windows
    /\ disturbed' = {} /\ unchecked' = {}
    /\ UNCHANGED <<tables, scores, verdicts, attention, read, pending, budget>>

\* One query, whose answer is kept.
Load(at, next, field, answer) ==
    /\ pc = at
    /\ read' = [read EXCEPT ![field] = answer]
    /\ pc' = next

DetectSybils == Load("swarm", "profiles", "swarm", [x \in Indexer |-> tables[x].swarm])
LoadProfiles == Load("profiles", "health", "profile", [x \in Indexer |-> tables[x].profile])
LoadAllocHealth == Load("health", "lag", "health", [x \in Indexer |-> AllocHealth(tables[x])])
LoadMeasuredLag == Load("lag", "recent", "lag", [x \in Indexer |-> tables[x].lag])
LoadRecent == Load("recent", "window", "recent", [x \in Indexer |-> tables[x].recent])

LoadTables ==
    /\ DetectSybils \/ LoadProfiles \/ LoadAllocHealth \/ LoadMeasuredLag \/ LoadRecent
    /\ UNCHANGED <<tables, output, windows, pending, history, budget>>

\* A failed detection is logged and counts as no swarm at all.
SybilDetectionFails ==
    /\ pc = "swarm" /\ failures < MaxFailures
    /\ read' = [read EXCEPT !.swarm = [x \in Indexer |-> None]]
    /\ pc' = "profiles"
    /\ unchecked' = unchecked \cup {"sybil"}
    /\ failures' = failures + 1
    /\ UNCHANGED <<tables, output, windows, pending, disturbed, changes>>

\* The tallies of the shortest window left; what they make of each address is
\* fixed with them, since judging reads nothing else.
LoadWindow ==
    LET known == [read EXCEPT !.agg = [x \in Indexer |-> tables[x].agg[Min(windows)]]]
    IN  /\ pc = "window" /\ windows # {}
        /\ pending' = [x \in Addresses(known) |-> Judge(Assemble(known, x))]
        /\ pc' = "score"
        /\ UNCHANGED <<tables, output, read, windows, history, budget>>

\* The rows of an address: its verdicts and items, in the longest window only.
VerdictRows(x, judged) == {<<x, kind>> : kind \in judged.verdicts}
ItemRows(x, judged) == [k \in {<<x, kind, NoDeployment>> : kind \in judged.attention} |-> {}]

Upsert(rows, items) ==
    /\ verdicts' = verdicts \cup rows
    /\ attention' = [k \in DOMAIN items \cup DOMAIN attention |->
                          IF k \in DOMAIN items THEN items[k] ELSE attention[k]]
    /\ fresh' = fresh \cup rows \cup DOMAIN items

ScoreAddress(x) ==
    /\ pc = "score" /\ x \in DOMAIN pending
    /\ scores' = [scores EXCEPT ![x][Min(windows)] = Some(pending[x].grade)]
    /\ IF Min(windows) = Primary
       THEN Upsert(VerdictRows(x, pending[x]), ItemRows(x, pending[x]))
       ELSE UNCHANGED <<verdicts, attention, fresh>>
    /\ pending' = Restrict(pending, DOMAIN pending \ {x})
    /\ UNCHANGED <<tables, pc, read, windows, history, budget>>

WindowScored ==
    /\ pc = "score" /\ pending = <<>>
    /\ windows' = windows \ {Min(windows)}
    /\ pc' = IF windows' = {} THEN "errors" ELSE "window"
    /\ UNCHANGED <<tables, output, read, pending, history, budget>>

\* The two queries of the per-deployment check, each followed by its upserts.
FindErring ==
    /\ pc = "errors" /\ pc' = "lags"
    /\ Upsert({}, Merged([x \in Indexer |-> ErringItems(tables, x)]))
    /\ UNCHANGED <<tables, scores, read, windows, pending, history, budget>>

FindLagging ==
    /\ pc = "lags" /\ pc' = "verdicts"
    /\ Upsert({}, Merged([x \in Indexer |-> LaggingItems(tables, x)]))
    /\ UNCHANGED <<tables, scores, read, windows, pending, history, budget>>

CheckedInPart ==
    LET found == Merged([x \in Indexer |-> IF pc = "errors" THEN ErringItems(tables, x)
                                           ELSE LaggingItems(tables, x)])
    IN  \E done \in SUBSET DOMAIN found : Upsert({}, Restrict(found, done))

\* A failed check is logged; what it has written stays, and the cycle goes on.
DeploymentCheckFails ==
    /\ pc \in {"errors", "lags"} /\ failures < MaxFailures
    /\ CheckedInPart
    /\ pc' = "verdicts"
    /\ unchecked' = unchecked \cup (IF pc = "errors" THEN {"errors", "lags"} ELSE {"lags"})
    /\ failures' = failures + 1
    /\ UNCHANGED <<tables, scores, read, windows, pending, disturbed, changes>>

\* Variation: the comparison the wrong way round.
DropVerdictsNewer ==
    /\ pc = "verdicts" /\ pc' = "attention"
    /\ verdicts' = verdicts \ fresh
    /\ UNCHANGED <<tables, scores, attention, fresh, read, windows, pending, history, budget>>

DropVerdicts ==
    /\ pc = "verdicts" /\ pc' = "attention"
    /\ verdicts' = verdicts \cap fresh
    /\ UNCHANGED <<tables, scores, attention, fresh, read, windows, pending, history, budget>>

DropAttention ==
    /\ pc = "attention" /\ pc' = "sleep"
    /\ attention' = Restrict(attention, DOMAIN attention \cap fresh)
    /\ read' = Nothing
    /\ UNCHANGED <<tables, scores, verdicts, fresh, windows, pending, history, budget>>

\* What a delete may leave when the clocks disagree: with the process ahead of the
\* database some rows just written look older than the cycle, with it behind some
\* of an earlier cycle look as new.
KeptBySkew(rows) ==
    LET new == rows \cap fresh
        upTo(set) == {part \in SUBSET set : Cardinality(part) \in 1..MaxSkewed}
    IN  {new \ part : part \in upTo(new)} \cup {new \cup part : part \in upTo(rows \ fresh)}

\* run_start is the clock of the process, last_seen that of the database.
DropSkewed ==
    /\ "clock" \in unchecked \/ failures < MaxFailures
    /\ \/ /\ pc = "verdicts" /\ pc' = "attention"
          /\ verdicts' \in KeptBySkew(verdicts)
          /\ UNCHANGED <<attention, read>>
       \/ /\ pc = "attention" /\ pc' = "sleep"
          /\ \E kept \in KeptBySkew(DOMAIN attention) : attention' = Restrict(attention, kept)
          /\ read' = Nothing
          /\ UNCHANGED verdicts
    /\ fresh' = fresh \cap (verdicts' \cup DOMAIN attention')
    /\ failures' = IF "clock" \in unchecked THEN failures ELSE failures + 1
    /\ unchecked' = unchecked \cup {"clock"}
    /\ UNCHANGED <<tables, scores, windows, pending, disturbed, changes>>

\* Variation: the deletes run whatever the cycle ended with.
CycleFailsDrops ==
    /\ pc # "sleep" /\ failures < MaxFailures
    /\ pc' = "verdicts"
    /\ read' = Nothing /\ windows' = {} /\ pending' = <<>>
    /\ unchecked' = {"cycle"}
    /\ failures' = failures + 1
    /\ UNCHANGED <<tables, output, disturbed, changes>>

\* The order in which derive_verdicts and derive_attention list them.
VerdictOrder == <<"serving-bad-data", "dispute-candidate", "serving-no-data",
    "behind-chainhead", "low-coverage", "leech", "reo-ineligible-candidate",
    "sybil-swarm-member">>
ItemOrder == <<"serving-no-data", "serving-bad-data", "behind-chainhead">>

First(n, order) == {order[k] : k \in 1..n}

\* The grade, the first verdicts, or all of them and the first items.
ScoredInPart(x) ==
    LET judged == pending[x]
        upTo(n, m) == [verdicts |-> judged.verdicts \cap First(n, VerdictOrder),
                       attention |-> judged.attention \cap First(m, ItemOrder)]
    IN  /\ scores' = [scores EXCEPT ![x][Primary] = Some(judged.grade)]
        /\ \E part \in {upTo(n, 0) : n \in DOMAIN VerdictOrder}
                     \cup {upTo(Len(VerdictOrder), m) : m \in DOMAIN ItemOrder} :
              Upsert(VerdictRows(x, part), ItemRows(x, part))

\* Any other statement fails, the task panics or the process restarts: rows may
\* be written in part, nothing is deleted any more.
CycleFails ==
    /\ pc # "sleep" /\ failures < MaxFailures
    /\ \/ UNCHANGED output
       \/ pc = "score" /\ Min(windows) = Primary /\ \E x \in DOMAIN pending : ScoredInPart(x)
       \/ pc \in {"errors", "lags"} /\ CheckedInPart /\ UNCHANGED scores
    /\ pc' = "sleep"
    /\ read' = Nothing /\ windows' = {} /\ pending' = <<>>
    /\ unchecked' = {"cycle"}
    /\ failures' = failures + 1
    /\ UNCHANGED <<tables, disturbed, changes>>

\* Another loop rewrites what its table holds of an indexer.
TablesChange ==
    /\ changes < MaxChanges
    /\ \E x \in Indexer, e \in Evidence :
          /\ e # tables[x]
          /\ tables' = [tables EXCEPT ![x] = e]
          /\ disturbed' = disturbed \cup {x}
    /\ changes' = changes + 1
    /\ UNCHANGED <<output, pc, read, windows, pending, unchecked, failures>>

Init ==
    /\ tables \in InitialTables
    /\ scores = [x \in Indexer |-> [w \in Windows |-> None]]
    /\ verdicts = {} /\ attention = <<>> /\ fresh = {}
    /\ pc = "sleep" /\ read = Nothing /\ windows = {} /\ pending = <<>>
    /\ disturbed = {} /\ unchecked = {"cycle"}
    /\ changes = 0 /\ failures = 0

Cycle ==
    \/ Start \/ LoadTables \/ LoadWindow
    \/ \E x \in Indexer : ScoreAddress(x)
    \/ WindowScored \/ FindErring \/ FindLagging \/ DropVerdicts \/ DropAttention

Next ==
    \/ Cycle \/ SybilDetectionFails \/ DeploymentCheckFails \/ CycleFails \/ DropSkewed
    \/ TablesChange

Spec == Init /\ [][Next]_vars

-----------------------------------------------------------------------------
(* What is due to be published of the tables.                              *)

Snapshot(t, w) ==
    [swarm |-> [x \in Indexer |-> t[x].swarm], profile |-> [x \in Indexer |-> t[x].profile],
     health |-> [x \in Indexer |-> AllocHealth(t[x])], lag |-> [x \in Indexer |-> t[x].lag],
     recent |-> [x \in Indexer |-> t[x].recent], agg |-> [x \in Indexer |-> t[x].agg[w]]]

Due(t, w, x) == Judge(Assemble(Snapshot(t, w), x))

Listed(t, w) == Addresses(Snapshot(t, w))

Longest == Max(Windows)

VerdictsDue(t) == UNION {VerdictRows(x, Due(t, Longest, x)) : x \in Listed(t, Longest)}

\* The items about x as a whole, and the deployments that are to be named.
ItemsDue(t) == UNION {DOMAIN ItemRows(x, Due(t, Longest, x)) : x \in Listed(t, Longest)}

ErringKinds == {"serving-errors", "serving-errors-deployment"}

Named(x, kinds) == UNION {attention[k] : k \in {j \in DOMAIN attention : j[1] = x /\ j[2] \in kinds}}

NamedLagging(x) == Named(x, {"behind-deployments", "behind-deployment"})

-----------------------------------------------------------------------------
(* Properties.                                                             *)

ScorerTypeOK ==
    /\ tables \in [Indexer -> Evidence]
    /\ scores \in [Indexer -> [Windows -> Options({"A", "B", "C", "D", "F", "NR"})]]
    /\ verdicts \subseteq Indexer \X VerdictKind
    /\ \A k \in DOMAIN attention :
          k[1] \in Indexer /\ k[3] \in Deployment \cup {NoDeployment}
    /\ fresh \subseteq verdicts \cup DOMAIN attention
    /\ windows \subseteq Windows /\ DOMAIN pending \subseteq Indexer
    /\ changes \in 0..MaxChanges /\ failures \in 0..MaxFailures

Intact == unchecked = {} /\ disturbed = {}

\* After a whole cycle beside which nothing changed, what is published is what
\* the tables call for: each grade of each listed indexer, the verdicts and the
\* items of the longest window and no others, and each erring or lagging
\* deployment named, by an item of its own or by a rolled-up one.  Whatever an
\* earlier cycle lost or left behind, half done or by a clock that was off, is
\* made good.
PublishedIsDue ==
    pc = "sleep" /\ Intact =>
        /\ \A w \in Windows : \A x \in Listed(tables, w) :
              scores[x][w] = Some(Due(tables, w, x).grade)
        /\ verdicts = VerdictsDue(tables)
        /\ {k \in DOMAIN attention : attention[k] = {}} = ItemsDue(tables)
        /\ \A x \in Indexer :
              /\ Named(x, ErringKinds) = ErringOn(tables[x])
              /\ NamedLagging(x) = LaggingOn(tables, x)

\* A verdict is withdrawn, and an indexer's own item, only when this cycle found
\* the condition cleared: never while it is still due and nothing about the
\* indexer changed since the cycle began, unless the sybil detection failed or the
\* clocks disagree.
WithdrawnOnlyWhenCleared ==
    [][ "clock" \in unchecked' \/
        /\ \A v \in verdicts \ verdicts' :
              v[1] \in disturbed \/ v \notin VerdictsDue(tables)
              \/ "sybil" \in unchecked
        /\ \A k \in DOMAIN attention \ DOMAIN attention' :
              attention[k] = {} => k[1] \in disturbed \/ k \notin ItemsDue(tables) ]_vars

\* A deployment that errs stays named without a gap while the items about it
\* roll up into one, or one falls apart again, unless the check failed or the
\* clocks disagree.
ErringStaysNamed ==
    [][ \A x \in Indexer : \A d \in Named(x, ErringKinds) \ Named(x, ErringKinds)' :
          \/ x \in disturbed \/ d \notin ErringOn(tables[x])
          \/ "errors" \in unchecked \/ "clock" \in unchecked' ]_vars

\* A row goes only when the condition cleared ("Drop verdicts/attention not
\* re-emitted this run (condition cleared)", scorer.rs).
ItemCleared ==
    [][ \A x \in Indexer : \A d \in Named(x, ErringKinds) \ Named(x, ErringKinds)' :
          x \in disturbed \/ d \notin ErringOn(tables[x]) \/ "clock" \in unchecked' ]_vars
=============================================================================
