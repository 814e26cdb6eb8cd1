# Foghorn in TLA+

A TLA+ development of [Foghorn](../src/README.md), the network-quality judge for The Graph: models of the
parts of it that are concurrent, stateful or easy to get wrong, TLC configurations that check them on small
instances, and proofs checked by TLAPS. Paths below are relative to `src/`; `probe/`, `core/` and `api/` stand
for `crates/foghorn-probe/src/`, `crates/foghorn-core/src/` and `crates/foghorn-api/src/`.

## The system

One `probe` process spawns independent tokio loops (`probe/main.rs:52-221`) that share nothing but a Postgres
database; an axum `api` process reads the same tables and writes the alert subscriptions; `foghorn-probe
reroll-qos` is a third process an operator starts by hand. There are no locks and few transactions: a loop is a
sequence of autocommitted statements, so every prefix of it is a state another loop reads, and a restart cuts
all loops of the process at once. Interactions are through tables, with one request queue (`qos_reroll`).

| component | state it keeps | operations | what makes it correct |
|---|---|---|---|
| probe scheduler, executor, clustering (`probe/scheduler.rs`, `executor.rs`, `cluster.rs`) | tables `probe`, `observation`, `divergence` | dispatch a probe, reduce to one answer per address, cluster, store by separate statements | a stored majority describes the stored answers; nobody is faulted against a tie or a half-stored probe |
| judged-answer rule (`core/judged.rs`) | none: SQL shared by views, scorer and rollup | attribute, exclude, find the clear majority, name the fault | faults are a minority of the answers |
| key resolver (`probe/resolver.rs`) | `allocation_map` | attribute a signing key after a probe round, request a reroll | late attributions reach old buckets |
| QoS rollup, `reroll-qos` (`probe/qos.rs`) | `foghorn_qos`, `qos_reroll` | roll the trailing window, drain requests, roll everything | no bucket contradicts the data for ever |
| non-determinism detector (`probe/scorer.rs:265-362`) | `nondeterministic_deployment` | judge deployments, set and clear flags, request rerolls | flags and buckets agree |
| scorer cycle and judge (`probe/scorer.rs`, `core/score.rs`) | `indexer_score`, `verdict`, `attention_item` | score, upsert, delete what was not seen | an item disappears only when its condition was checked and found cleared |
| alerter (`probe/alerter.rs`) | `alert_member`, `alerter_state`, `alerter_flag` | roster digest with hysteresis, oracle and score stall watches | a change is confirmed exactly when sustained, the channel ends up right |
| alert subscriptions (`probe/subscriptions.rs`, `core/alerts.rs`, `api/alerts.rs`) | `alert_subscription`, `alert_subscription_state` | create, delete; evaluate, deliver, store | the stored state moves only over changes that were delivered |
| chain-tip, allocation and escrow sync, paid rounds (`probe/allocations.rs`, `nest.rs`, `escrow.rs`, `main.rs`) | `active_allocation`, `indexer_endpoint`, `tap_escrow`, the cached tip | replace a table from a nest or a paged read, ask the chain for balances, bill what both make payable | the table only ever holds whole answers; no excluded operator is billed; the targets come to be right |
| query fees (`probe/fees.rs`, `nest.rs`) | `chain_query_fees`, the cursor read from it | page through a source by block | no settlement is skipped |
| DataEdge mirror (`probe/dataedge.rs`) | `oracle_message`, `oracle_payload` | store each post, try its payload once | every post is stored while it is on the page, each payload tried once |
| Lodestar ingest (`probe/ingest.rs`, `lodestar.rs`) | `indexer_profile` (never deleted from), `allocation_qos` | upsert the roster and the quality, delete the rows not seen | a row goes only when its pair has gone |
| sybil detection (`probe/sybil.rs`) | `sybil_cluster` | union-find over the roster, upsert, delete | clusters are the connected components; the rows are of one detection |
| status prober, peer watch, discovery | samples | insert | none across steps |
| read API (`api/routes.rs`, `graphql.rs`, `qos.rs`) | none | queries | none across steps |

The behaviours that are hard here are: writes of one operation interleaved with other loops (no transactions);
a restart or a failed statement between two of them; a statement that reads a snapshot and commits later; a
post whose acknowledgement is lost; data that changes the meaning of rows stored long before (an attribution, a
flag); and an `await` between a check and the write it guards. `PROJECT.json` lists each at its line under
`hazards`, with the properties that would catch it going wrong.

## The modules

| module | models | extends |
|---|---|---|
| `ProbeRules` | the pure rules: deduplication, clusters, attribution, clear majority, fault | |
| `ProbeStore` | the scheduler's write path | `ProbeRules` |
| `QosRollup` | resolver, detector, rollup loop and `reroll-qos` composed with the store | `ProbeStore` |
| `Alerter` | the roster digest | |
| `StallWatch` | the two edge-triggered watches | |
| `ScoreJudge` | the pure `judge`: sub-scores, composite, penalties, verdicts, attention | |
| `ScorerCycle` | the scoring loop | `ScoreJudge` |
| `AlertRules` | the pure `evaluate` of the subscriptions | |
| `Subscriptions` | API, loop and webhook of the subscriptions | `AlertRules` |
| `RegularTable` | what a table replaced from a slow read promises its readers (abstract) | |
| `PaidDispatch` | chain tip, allocation sync, escrow sync and the paid round, composed | |
| `FeeIngest` | the loop that copies query-fee settlements | |
| `OracleMirror` | the poller of the DataEdge | |
| `LodestarIngest` | both parts of the ingest cycle | |
| `SybilClusters` | candidates, union-find, confidence, and the stored clusters | |
| `ProbeReplies` | the executor's three paths from a reply to an observation, and its two readers | |
| `ProbeStoreProofs`, `QosRollupProofs`, `AlerterProofs`, `SubscriptionsProofs`, `ScorerCycleProofs`, `PaidDispatchProofs` | theorems | the module named |
| `ScoreJudgeProofs`, `LoopsProofs` | theorems about all evidence, and about the six loops | `MCScoreJudge`, `MCLoops` |
| `MCProbeStore`, `MCQosRollup`, `MCAlerter`, `MCSubscriptions`, `MCScoreJudge`, `MCScorerCycle`, `MCPaidDispatch` | small instances | the module named |
| `MCLoops` | small instances of the loops that write no table another of them writes; a behaviour runs one of them | `FeeIngest`; instances of `OracleMirror`, `LodestarIngest`, `SybilClusters`, `StallWatch`, `ProbeReplies` |

Some definitions are preceded by a *variation* (`InsertClusterEarly`, `DebouncedLate`, `BaselineLatest`, ...):
the same definition with a plausible mistake in it. No specification uses them. They record what each property
is sensitive to: with the variation in place of the definition, TLC finds that property violated.

### ProbeRules and ProbeStore

An answer is an address, a dispatch mode and an outcome: a hash, or one of three ways of having none
(`payment`, `error`, `malformed`). `job` is the scheduler's position in `store_results`: the probe row
(`InsertProbe`), one row per observation (`InsertObservation`, with its `ON CONFLICT DO NOTHING`), and the
divergence row (`InsertCluster`, only for a cluster of two). `AbandonStore` is a failed statement or a restart.
`ClusterResults` is a set, since `max_by_key` over a `HashMap` may return any of several largest clusters.
Time is counted in QoS buckets of five minutes; a probe is stored or abandoned within `StoreLag` buckets of its
dispatch, because every request carries a timeout.

### QosRollup

Every SQL statement is one step, except the roll: `Snapshot` reads the tables when the statement starts and
`Commit` writes when it ends, so under READ COMMITTED anything may happen in between. `Recompute` is what a
fresh roll would write for a key of indexer, deployment and bucket. The loop is `RollWindow`, `CommitWindow`, `SelectRequests`,
and per request `RollRequest`, `CommitRequest`, `DeleteRequest`; `LoopFail` ends a cycle anywhere. The detector
is `DetectRead`, `DetectUpsert`, `DetectDelete`, `DetectRequest`. `reroll-qos` is `RerollStart`, then
`RerollDay` and `RerollCommit` per day. `Crash` stops the loops of the probe process and leaves the
tables, and the reroll, which is a process of its own. `lost` is a history variable: it marks the keys whose
correction was lost in one of two ways: in a race with `reroll-qos` (run `reroll_race`), or because a detector cycle was
cut between a flag and its reroll request (no run of its own). The passing run states what holds of all others. Latency and chain-lag
columns are left out; NULL rows of `allocation_map`
only postpone the next attempt.

### Alerter and StallWatch

`Alerter` follows `run_cycle`: `Start` reads roster and members, `DebounceMember` upserts or deletes one row of
`alert_member`, `Decide` compares the fingerprint, `Post` sends the chunks, `Save` records. A post may fail with
nothing, half or all of it in the channel. `history` holds the last `Confirm` observations per indexer, for
`DebounceIsExact` only. `StallWatch` models both watches with one check: read the source, read the flag, post,
save; they differ in `Compare`, as `alert_oracle_stall` and `alert_score_stall` do.

### AlertRules and Subscriptions

The state is a string map in the code; here it is a record with a partial function per kind of key. `Events`
and `NextState` are the two results of `evaluate`. The loop selects its rows once per cycle (`Select`), fetches
one snapshot per indexer (`Fetch`, `FetchFails`), takes up a row (`Look`), posts (`Deliver`, `DeliverFails`) and
stores (`Store`, `StoreDeleted` when the subscription has gone meanwhile, `RecordFailure`). The API's `create`
is `CheckLimits`, then `Insert` or `Refuse` after the awaited test post; ids are fresh uuids, so an id is created
once. Cuts and REO status may be unknown; the REO request may fail alone. `told` is a history variable: what the
webhook received since the state was last stored. A post to Discord names `LinesPerKind` changes of a kind and counts the rest
("and N more"), any other names them all (`Payloads`); `ChangesAreTold` asks that each difference between the old and the new
state was named or, being of a kind that was cut, counted.

### ScoreJudge and ScorerCycle

`Judge` is `judge` as a function of one record of evidence. Scores are integers in hundredths of a point, rounded
down, where the code has doubles; optional values are sequences of length zero or one. `WeightedMean` divides what the
sub-scores are worth (`Worth`) by the weights that count (`Counted`), the two sums of the loop in `judge`. `Grounds` gives
the condition of each verdict kind; reasons, severities and urgencies are left out.

`ScorerCycle` follows `run_score_once` statement by statement. `tables` is the evidence the other loops keep of
each indexer; `TablesChange` may rewrite it between any two statements, so `read`, filled by one `Load` per query,
may mix several states. `LoadWindow` reads the tallies of a window and judges its addresses (`pending`), since judging
reads nothing else; `ScoreAddress` upserts the rows of one address, `FindErring` and `FindLagging` are the two
halves of `detect_allocation_issues`, `DropVerdicts` and `DropAttention` the deletes. `SybilDetectionFails` and
`DeploymentCheckFails` are the failures the cycle survives, `CycleFails` all others, a panic and a restart, with any
part of the rows of its step written. `last_seen` is compared with `run_start` only, so it is the set `fresh` of the
keys written since then. `DropSkewed` is a delete while the clocks of process and
database disagree. `disturbed` and `unchecked` are
history: whose tables changed, and what failed or was skewed, since the cycle began.

### PaidDispatch and RegularTable

One deployment stands for all, since the tables are joined per deployment. The world is the chain (`open`, `funded`) and
our nest, which may follow the chain, trail it although the lag it reports is small, or say that it is behind. The
sync is `StartFromNest` or `StartFromGateway`, then `NestReady`, `NestRows`, `NestEndpoints`, each of which falls back to
the gateway as the code does, or one `GatewayPage` per page, and `Replace`, the transaction. `EscrowStart` and
`EscrowRead` ask for one balance at a time; `StartRound` reads the payable targets, `Bill` bills one of them. A page, a
read, a replacement may fail, a page may be short, and `Restart` may bring another configuration: other exclusions,
with or without a nest or a key.

`RegularTable` is what readers of the table may rely on: it changes in one step, to a set that is not empty and, when the
source answered in full and for its present state, lies between what was in the source all the while and what was in it
at some moment of the read. `TableIsRegular` is the refinement: `open` is the source, `active_allocation` the table.

### FeeIngest, OracleMirror, LodestarIngest

`FeeIngest` follows `run_fee_ingest_loop`: `Resume` reads the cursor, `Fetch` a page, `Store` commits it; a full page goes
on at once, a short one sleeps. A page is a number of rows and the cursor is a block; `cut` is the history of the
blocks in which a full page ended. `OracleMirror` walks the newest page of posts from new to old (`Insert`, `Capture`,
`PassOver`); each stored message has one attempt at its payload
if `CapturePayloads` (`capture_payloads`) says that payloads are wanted. `LodestarIngest` has the roster and the quality of each indexer,
upserted one by one, and the allocation quality: pages, upserts, and the deletion of rows not touched by this run,
decided by comparing two clocks. `DeleteAhead` is the deletion with the clock of the process ahead of the database's, which takes
rows just written, `DeleteBehind` the one with it behind, which leaves rows that were not refreshed. An indexer's quality is
fetched and written in one step (`UpdateQuality`), since its row has no other writer.

### SybilClusters

`SameOperator` is the adjacency, `Find` and `Union` are the code's parent array (the shortening of paths changes no
root), `Row` and `Forest` the loop over the pairs, `Groups` the classes of at least `MinMembers`. `Confidence` is an integer
percentage with the steps of `build_cluster`: days and stakes are compared exactly, while each overlap is rounded down to a
percent before `MeanOverlap` averages them, by counting pairs with the percents they reach, which needs no recursion. The stored
part is `ReadRoster`, `Cluster` or `ClusterBlind`, one `StoreCluster` per group, `DeleteStale`. The footprints are read page by
page in the order of the allocations' ids, so that a read cut short may lack any of the allocations (`unread`) and leave an indexer
with a part of its footprint.

### ProbeReplies

A reply is a status, a kind of body and whether its attestation recovers to a key: 70 replies, none at all
(`NoReply`), and no request (`Unsent`: an address that cannot be read, or no HTTP client). `Paid`,
`Gateway` and `Direct` classify it as `execute_paid_probe`, `execute_gateway_probe` and `execute_probe` do. The state adds up what the
two readers count: the rollup (`roll_range`) and the scorer (`load_probe_agg`).

## What is checked

Passing runs:

| run | properties | shows |
|---|---|---|
| `probe_store` | `ClusterDescribesAnswers`, `FaultsAreAMinority`, `JudgedIsFrozen` | any prefix of the writes, over eight shapes of round |
| `qos_rollup` | `FeedAccountedUnlessLost` | every bucket is right or a roll of it is owed, with one restart or detector failure and one reroll |
| `qos_settles` | `FeedSettles` | the feed converges once the tables stop changing |
| `alerter` | `DebounceIsExact`, `ChannelConverges` | hysteresis is "that often in a row", and the channel comes to show the live roster |
| `subscriptions` | `ChangesAreTold`, `SubscribersCatchUp` | nothing is stored that was not told, nobody is forgotten |
| `score_judge` | `HarmNeverHelps`, `AbsentIsNotZero`, `BroadFailureGraded` | one harm more never raises a grade or withdraws an accusation; the mean stays between the scores it is of; the serving penalty costs the A and spares the F as its comments say |
| `scorer_cycle` | `PublishedIsDue`, `WithdrawnOnlyWhenCleared`, `ErringStaysNamed` | a whole cycle publishes exactly what the tables call for, makes good what earlier ones lost, and nothing due is withdrawn, not even for a moment, while checks succeed and clocks agree |
| `paid_dispatch` | `ExcludedNeverBilled`, `TableIsRegular`, `RefreshKeepsTargets`, `TargetsConverge` | syncs and rounds under every change of chain, nest and configuration: the table implements `RegularTable`, and the targets become the indexers that can be paid |
| `loops`: fees | `PassedIsStored`, `FeesArrive` | a settlement is lost only when a full page ended in its block |
| `loops`: mirror | `OneAttempt`, `PostsAreStored` | each payload is tried once, each post is stored unless it left the page first |
| `loops`: ingest | `DroppedOnlyWhenGone`, `IngestConverges` | a row goes only with its traffic, after a cut read or with the clock of the process ahead; the tables come to hold the sources |
| `loops`: swarm | `GroupsAreComponents`, `StoredIsOneDetection`, `SizeNeverInflates` | the groups are the components, the rows are of one detection, a diluted group is not surer |
| `loops`: stall watches | `RepeatsNeedFailures`, `RecoveryFollowsStall`, `FlagFollowsSource` | no repeats without a failure, no recovery first, no stuck flag |
| `loops`: replies | `FundingNeverBlames`, `FeedAndGradeAgree` | a refusal that is about our payment is counted nowhere; the two readers count alike |

Each but `qos_settles` and `score_judge` also checks its type invariant. Three runs show a disagreement between the
code and what the repository says of it (`findings` has the quotations):

| run | property | disagreement |
|---|---|---|
| `fee_gap` | `FeesAllArrive` | a full page that ends between two settlements of one block loses the second: the cursor is the block, and "the next pass" does not pick up the rest |
| `reroll_race` | `FeedAccounted` | `reroll-qos` is not safe beside the loop: a roll that read earlier can commit later than the request that corrected it |
| `item_cleared` | `ItemCleared` | a per-deployment check that failed withdraws its items as if they had cleared |

Other places where the code and its comments part, met while modelling:

- a detector cycle cut between a flag and its reroll request leaves old buckets wrong with nothing owed (`lost` in
  `QosRollup` marks them);
- concurrent creations pass `MAX_PER_WEBHOOK` together, since the count precedes the awaited test post (`api/alerts.rs:89`);
- the lag our nest reports is measured against its own tip (`probe/nest.rs:129-159`), which `probe/allocations.rs:297-302` calls
  circular where it decides about the chain tip; a stalled nest passes for a current one (`nest = "trailing"` in `PaidDispatch`);
- a cluster linked by footprints alone reaches a confidence of 0.6, the threshold of the verdict, although
  `probe/sybil.rs:264-268` has it land "moderate, not high" and the module's head (`probe/sybil.rs:8-11`) says that tight creation
  times and near-identical stakes are required;
- feed and grade read two kinds of reply apart; `FeedAndGradeAgree` counts them in `seen.apart`.

### Bounds

- `probe_store`: two probes, five addresses (three signing keys, a pseudo-address, a directly paid indexer), two
  hashes, three buckets. The rounds contain agreement, dissent, a tie, a repeated address answering
  differently, refusals and malformed bodies. Two probes are enough because rows of different probes never meet.
- `qos_rollup`, `qos_settles`: one probe, one deployment, a window of `Lookback` = 2 buckets rolled at least
  every `MaxGap` = 1, evidence expiring after 2 buckets, a clock of 4 buckets (5 in `reroll_race`), so that a bucket leaves the
  window while a key is attributed, a flag is set and it expires. The detector's thresholds are scaled down
  (one divergent probe, one minority indexer) so that a single probe moves a flag both ways. `StmtLag` = 0: a roll
  commits within the bucket in which it started; other processes still run in between.
- `alerter`: two indexers, so that a cycle can be cut between members; `Confirm` = 2 as in the code, `Day` = 3
  cycles instead of 24, three changes, two failures, one restart. That is enough for
  one indexer to flicker while the other is being confirmed, and for a roster to return to a recorded one.
- `subscriptions`: two subscribers of one indexer, one with all kinds, one on a Discord webhook with POIs only; two
  allocations of one deployment and one line per kind, so that two POIs that age together do not both get a line; levels 4, 5, 6
  and a threshold of 50 percent, so that a move is reached by drift only; two changes, two failures, one deletion,
  `DisableAfter` = 2.
- `score_judge`: the default configuration; up to five probes in the window and three in the recent tail, none, three or
  forty measured deployments, lag on both sides of the scale, each optional signal present or absent, stake and
  demand known or unknown. Thresholds at 3 faults, 10 and 50 percent, 20 broken deployments and 60 percent
  confidence are all crossed. The steps add one harm each and end; the run sets `CHECK_DEADLOCK FALSE`.
- `scorer_cycle`: two windows, two indexers, two deployments, one of six kinds of evidence per indexer (healthy, wrong
  long ago, in a swarm, broken everywhere, failing and late, gone), two changes and one failure (or skewed clock, which misjudges a
  row of each table) at any point. A roll-up
  takes two deployments and a comparison two peers instead of five and three, and a deployment two probes
  (`minProbes`), of which those that measured a lag may be fewer, so that both sides of each threshold occur. Two changes let a deployment break and recover, or an indexer leave and return, within one cycle.
- `paid_dispatch`: two allocations of two indexers, one per page and at most two pages, so that an allocation opens or
  closes between two pages; two changes of chain or nest, one failure, one restart among five configurations (an
  exclusion or none, a nest or none, no key).
- `loops`: fees: six settlements in four blocks, of which two hold two each, pages of two. Mirror: five posts, four with a
  payload, three to a page, so that a post can leave the page. Ingest: two indexers, three pairs, pages of two, at most two pages. Swarm: four
  candidates in two pairs, one linked as whales of an age and one by age and stake, and the pairs by footprints, which count from two
  deployments instead of five, so that groups merge in every order of rows and a footprint read in part breaks the link; one
  change of a profile. Stall watches: four flips. Replies: three of them. Two failures and one restart each, one failure for ingest
  and swarm.

The clock of `probe_store` and of the `QosRollup` runs ends at `MaxTime`, and `ProbeId` is finite, so those runs stop
there and set `CHECK_DEADLOCK FALSE`. `alerter`, `subscriptions`, `scorer_cycle`, `paid_dispatch` and `loops` never stop: their
loops go on when the bounds are used up, and deadlock is checked (the replies of `loops`, which no loop produces, end in a stutter).

### Assumptions

- `QosRollup`: the window is rolled every `MaxGap` buckets and a probe is stored within `StoreLag` buckets, with
  `MaxGap + StoreLag <= Lookback`. In production the interval is 60 s, the window 3600 s. An outage longer than
  the window does leave buckets that no loop rolls; with `MaxGap` = 2 the property fails, as it should.
- Constants: each module names what it assumes of its own (`RollAssumption`, `ScorerAssumption`, `CfgAssumption`, ...), and
  `MCLoops` what its instances assume. Allocations are finitely many (`PaidAssumption`, `DiscordAssumption`). Bounds are naturals; `ROLLUP_THRESHOLD`, `MinMembers`, `minDeployments` and `badDataFaults`
  are not zero (they are 5, 3, 3 and 3 in the code); the windows of the scorer are a finite set; weights, rates, penalties and
  grades are percentages or scores. TLC evaluates them on every run.
- Fairness of `QosRollup` (`FeedSettles`): weak fairness of the start of a window roll and of the detector's
  steps, since both loops always run their next statement; strong fairness of the steps of a cycle, because
  `LoopFail` can send each cycle back to its start, and a statement tried again every minute is assumed not to
  fail every time.
- Fairness elsewhere is weak fairness of the loop's own steps. Failures, restarts and changes are bounded by
  constants, so it says only that a loop goes on running its next statement after the last failure.
- Of the surroundings, `FeeIngest` assumes that the nest goes on sealing blocks up to the bound (`Seal`), and `PaidDispatch` that
  a nest that fell behind catches up (`NestCatchesUp`). Nothing else is assumed of a source: the publisher of the
  DataEdge, for one, may stop posting.
- `TargetsConverge` excepts a process without an API key, which has nothing to sync with, and a chain without an open
  allocation, whose table is never cleared: an empty answer is taken for a failure. `LodestarIngest` assumes an API key.
- `ProbeReplies` counts an answer whose signing key is recovered as attributed at once; `QosRollup` has the attribution.
- The API has no fairness: a request may never finish.

## What is proved

Eight modules prove safety properties of their components for all values of the constants, from the named assumptions on
the constants alone. Every invariant and every action property of the passing runs is a theorem. What a round of a loop
achieves towards its liveness property is proved too, for all of these but `FeedSettles`: the last paragraph of this list.

- **ProbeStore** (`StoreInvariant`; `StoreTypeCorrect`, `ClustersDescribeAnswers`, `FaultsAlwaysAMinority`,
  `JudgedStaysFrozen`). `ClusterDescribesAnswers` is not inductive: that `InsertCluster` finds every counted answer in
  the table needs `JobInHand`, by which the stored and the pending answers of the probe in hand are together
  the set its cluster was computed from, with one answer per address, so that `ON CONFLICT DO NOTHING` never fires. The minority then
  follows by counting: the majority and the wrong answers are disjoint subsets of the answers.
- **QosRollup** (`RollInvariant`; `FeedStaysAccounted`, `FeedAccountedUndisturbed`, `ChangesLeaveWord`, `RollTypeCorrect`).
  `RollupKeepsStore` is the refinement `Spec => StoreSpec`: no other loop disturbs the scheduler's tables, so the theorems of the
  store hold here. `FeedAccountedUnlessLost` is not inductive, since a roll reads long before it writes. `LoopSettled` says of
  the statement in hand that each value it computed, and each row its delete does not see, is current, or owed to other
  work once this roll and the request it serves are gone, or lost. `ClocksAgree` ties the time of the last roll to the
  probe in hand, so that an answer stored late still falls into a window to come; that is where `WindowAssumption`
  (`MaxGap + StoreLag <= Lookback`) is used. `ChangesLeaveWord` is the other half of the argument, for each process but the
  loop: whatever changes what a bucket should show leaves it in the window, asked for, or marked lost.
  `FeedAccountedUndisturbed` draws the line: with no restart, cut detector cycle or reroll, nothing is lost at all.
- **Alerter** (`AlerterInvariant`; `AlerterTypeCorrect`, `DebounceAlwaysExact`, `DigestStaysTrue`). Whether a streak is the length of a run of
  observations depends on all steps before it. The invariant says that the last `streak` entries of a member's history are its
  candidate and the one before them is not; it holds for every `Confirm` of at least two.
- **Subscriptions** (`SubscriptionInvariant`; `SubTypeCorrect`, `ChangesAlwaysTold`,
  `CyclesCatchUp`, `NothingIsSaidTwice`). `ChangesAreTold` speaks of the
  step that stores a state. It holds because a selected row is still the stored one (`RowsAreCurrent`: only the
  loop writes states, a deletion ends an id for good, a disabled subscription is not selected) and because the
  lines of the events of the row in hand are none or have been received (`InHand`); that the lines of a body cut short
  still account for every event is `PayloadsCover`, by counting, for which the allocations are finite
  (`DiscordAssumption`). `DifferencesAreEvents` is the half about `evaluate`: whatever the state to store has that the
  one before had not is an event of the look. `SettledIsSilent` is the
  converse at rest, and `SecondLook` says that a state stored from a snapshot is at rest with it, signal baselines included;
  `NothingIsSaidTwice` follows, under every fault, because a row in the cycle is settled exactly if the stored one is.
- **ScoreJudge** (`HarmIsNeverRewarded`, `AbsenceIsNoVerdict`, `BroadFailureIsGraded`, in `ScoreJudgeProofs`). The judge has no
  state, so these are theorems of arithmetic, over all evidence (`AnyEvidence`) and all configurations that
  `CfgAssumption` admits. `WorseNeverHelps` is about any number of harms at once (`Worse`). Its one delicate case is the answer that turns into
  an error and was the last one: correctness then disappears from the mean, and the mean must not rise for it. It
  does not, because a correctness that can vanish so was full (`DivWithoutFull`). Every division rounds down on its own, and each
  step of the argument is about the rounded values. `BroadFailureIsGraded` is about the configurations that are
  `BroadTuning`; that the default one is, is `DefaultIsTuned`.
- **ScorerCycle** (`ScorerInvariant`; `ScorerTypeCorrect`, `PublishedIsWhatIsDue`, `DueIsNotWithdrawn`, `ErringIsNamedThroughout`). The
  properties speak of the end of a cycle or of one delete; what makes them true was read and written many statements
  before. The invariant says of each indexer whose tables did not change since the cycle began that what was read is what the
  tables hold (`ReadInStep`), that what waits to be written is what is due (`PendingInStep`), that what has been written
  is due (`FreshIsDue`) and that what is due has been written as far as the cycle has come (`DueIsWritten`); `ErringInStep` and
  `LaggingInStep` say it of the per-deployment items, of which the lagging ones depend on the tables of the peers too.
- **PaidDispatch** (`PaidInvariant`; `PaidTypes`, `SyncIsRegular`, `RefreshesKeepTargets`, `RightTargetsStay`,
  `ExclusionHolds`). `SyncIsRegular` is the
  refinement `Spec => Regular!Spec`: every step of the sync is a step of `RegularTable` or a stutter of it. It needs `PagesOK`: the rows
  assembled so far hold everything up to the cursor that was open all the while and nothing that was not open at some
  moment of the read, from the nest and from the gateway. That a full page has a last row is `FiniteHasLargest`. Exclusion holds because
  the targets are read and filtered in one step and a restart empties the round.
- **The loops** (`LoopsInvariant`, in `LoopsProofs`; `LoopsTypeCorrect`). Each step is a step of one loop (`OneLoopMoves`), so the
  invariants of the six are proved one by one.
  Fees (`FeeTypes`, `PassedSettlementsAreStored`): what the cursor has passed stays covered because of what a pass knows: its
  resume point is covered (`SinceIsCovered`), its rows are the first after it (`PageIsPrefix`), and a short page leaves out nothing of
  the blocks it reaches (`ShortPageIsWhole`).
  Mirror (`AttemptsAreSingle`) and replies (`RefusalsNeverBlame`, `ReadersAgree`): the invariants count attempts per stored
  message, and the two readers against each other, for every number of posts and probes.
  Ingest (`RowsGoWithTraffic`): what the pages have shown holds every pair up to the cursor that had traffic all the while, so
  that a pair the deletion takes had none at some moment.
  Swarm (`RowsOfOneDetection`, `DilutionNeverHelps`, `GroupsAreTheComponents`): the rows written so far are among those
  found and no two groups of one detection share a member; the spread of days, stakes and confidence move with the group because least and
  greatest elements do (`FiniteHasGreatest`). `union` is modelled by recursive functions, one along a row of the pair loop and one over
  the rows. That its groups are the connected components follows from their equations, at the least place where something would be wrong:
  a forest is described by the root and the depth of each member, the two ends of every link seen so far have one root, and two members
  with one root are connected by links.
  Stall watches (`NothingIsRepeated`, `RecoveriesFollowStalls`): the number of repetitions is not inductive; with `Owed`, the
  repetition already due because of an earlier failure, it is bounded by the failures and restarts so far.

- **What a round makes good.** Each liveness property says that a loop comes to agree with its source. The prover cannot
  conclude that it does, but it can show what a round is worth. These theorems have the form
  `Spec => [](start /\ [][quiet]_vars => [](at rest => goal))`: from a moment at which a round begins with what it needs, and while no
  step disturbs the thing in question, each time the loop is at rest the goal holds, whatever happens to everything else.
  `PassesCatchUp` (fees), `PollsCatchUp` (mirror), `ChecksSettleTheFlag` (stall watches), `RunsFollowTraffic` and `CyclesFollowRoster` (the
  two parts of the Lodestar ingest), `CyclesCatchUp` (subscriptions), `RightTargetsStay` (paid targets, which stay right through
  failures and restarts, but not through a short or an old answer) and `DigestStaysTrue` (the digest: only of what is on record as posted). The
  hypothesis on the steps is as wide as the code allows: `CyclesCatchUp` admits every step by which the row does not leave the cycle
  unstored, `NothingIsSaidTwice` and `ChecksSettleTheFlag` admit what other subscriptions and watches suffer. Each is an invariant of
  the quiet steps (`InLine`, `Settled`, `ShownSoFar`, ...) on top of the component's own.

Least and greatest elements are obtained from the well-foundedness of the naturals, by looking for a least counterexample, since
the induction theorems of the library cannot be instantiated.

Only model-checked: that the rounds come and the goals are reached under fairness, which is what the liveness properties add
(`FeedSettles`, `ChannelConverges`, `SubscribersCatchUp`, `TargetsConverge`, `FeesArrive`, `PostsAreStored`, `IngestConverges`,
`FlagFollowsSource`). Fairness and `ENABLED` are beyond the prover. The modules that are proved about declare no recursive operator; the
recursion they need is in recursive functions, whose defining equations are all a proof uses.

## What is not modelled

The status prober, peer watch and discovery insert independent samples and delete nothing: no property of theirs spans two
steps. The read API (`routes.rs`, `graphql.rs`, `qos.rs` of `api/`) is queries; its only writes, the subscriptions, are modelled.
Configuration, types, the test database and the command line are data and support. HTTP, hashing, signature recovery, ABI and
base58 decoding and JSON normalisation are pure or external; their results are model values. Message texts and layout are
left out. Rows of the gateway that lack a field are skipped by the sync and are not modelled. Stake weights and the JSON diff of a divergence decide nothing downstream.

That an operator answering under two addresses counts twice, that a
subscriber may have been told of a change that was undone before the retry, and that creations race past the limit are
what the code does; no property that holds of it can exclude them.

## Plan

1. Done: the store and the feed; the alerter and the stall watches; the subscriptions; the judge and the scorer cycle; the paid
   path; fees, mirror, ingest, swarm and replies; proofs of all their safety properties, and of what a round of each loop makes good.
2. What a window of the QoS rollup makes good: `FeedSettles` in the same form.
3. The store as an implementation of an abstract table of probes judged once.
4. The snapshots of the read API, which mixes tables of several loops in one answer.
