------------------------------- MODULE MCLoops -------------------------------
(***************************************************************************)
(* Small instances of loops of the probe process that write no table       *)
(* another of them writes: the fee ingest, the mirror of the DataEdge, the *)
(* ingest from Lodestar, the swarm detection, the stall watches and the    *)
(* counting of replies.  What one reads of another's table is a change of  *)
(* its surroundings in its module, at any moment.  So a behaviour runs one *)
(* of them, and the states add up instead of multiplying.                  *)
(***************************************************************************)
EXTENDS FeeIngest, TLC

CONSTANTS
    Loops,                                        \* the loops of the run
    MaxPost, PayloadPost, PageLen,                \* OracleMirror
    CapturePayloads,
    Indexer, Pair, PageSize, MaxPages,            \* LodestarIngest
    IngestChanges, IngestFailures,
    Address, SwarmProfile, FirstRoster,           \* SybilClusters
    CreatedWindow, StakeTol, HighStake, MinStake,
    MinMembers, CrowdOverlap, CrowdMinAllocs,
    SwarmChanges, SwarmFailures,
    MaxFlips,                                     \* StallWatch
    MaxAsked                                      \* ProbeReplies

VARIABLES
    which,  \* the loop that runs
    posted, messages, payloads, poll, tried, broken, mirrorSpent,
    listed, traffic, profile, quality, cycle, read, ingestSpent,
    profiles, clusters, detection, latest, swarmSpent,
    source, flag, check, said, repeats, bound,
    feed, grade, seen

Mirror == INSTANCE OracleMirror WITH spent <- mirrorSpent

Lodestar ==
    INSTANCE LodestarIngest
        WITH spent <- ingestSpent, MaxChanges <- IngestChanges, MaxFailures <- IngestFailures

Swarm ==
    INSTANCE SybilClusters
        WITH spent <- swarmSpent, Profile <- SwarmProfile, First <- FirstRoster,
             MaxChanges <- SwarmChanges, MaxFailures <- SwarmFailures

Stall == INSTANCE StallWatch WITH MaxRestarts <- MaxCrashes

Replies == INSTANCE ProbeReplies

\* What the modules assume of their constants.
ASSUME MirrorConstants == Mirror!MirrorAssumption
ASSUME LodestarConstants == Lodestar!LodestarAssumption
ASSUME SwarmConstants == Swarm!ProfileAssumption /\ Swarm!SybilBounds
ASSUME StallConstants == Stall!WatchBounds

mirrorVars == <<posted, messages, payloads, poll, tried, broken, mirrorSpent>>
lodestarVars == <<listed, traffic, profile, quality, cycle, read, ingestSpent>>
swarmVars == <<profiles, clusters, detection, latest, swarmSpent>>
stallVars == <<source, flag, check, said, repeats, bound>>
replyVars == <<feed, grade, seen>>

allVars == <<which, vars, mirrorVars, lodestarVars, swarmVars, stallVars, replyVars>>

AnyInit ==
    /\ which \in Loops
    /\ Init /\ Mirror!Init /\ Lodestar!Init /\ Swarm!Init /\ Stall!Init /\ Replies!Init

FeeStep ==
    /\ which = "fees"
    /\ Next
    /\ UNCHANGED <<which, mirrorVars, lodestarVars, swarmVars, stallVars, replyVars>>

MirrorStep ==
    /\ which = "mirror"
    /\ Mirror!Next
    /\ UNCHANGED <<which, vars, lodestarVars, swarmVars, stallVars, replyVars>>

LodestarStep ==
    /\ which = "lodestar"
    /\ Lodestar!Next
    /\ UNCHANGED <<which, vars, mirrorVars, swarmVars, stallVars, replyVars>>

SwarmStep ==
    /\ which = "swarm"
    /\ Swarm!Next
    /\ UNCHANGED <<which, vars, mirrorVars, lodestarVars, stallVars, replyVars>>

StallStep ==
    /\ which = "stall"
    /\ Stall!Next
    /\ UNCHANGED <<which, vars, mirrorVars, lodestarVars, swarmVars, replyVars>>

\* The counting ends when MaxAsked probes are counted.
ReplyStep ==
    /\ which = "replies"
    /\ Replies!Next \/ (seen.asked = MaxAsked /\ UNCHANGED replyVars)
    /\ UNCHANGED <<which, vars, mirrorVars, lodestarVars, swarmVars, stallVars>>

AnyNext == FeeStep \/ MirrorStep \/ LodestarStep \/ SwarmStep \/ StallStep \/ ReplyStep

\* The fairness of the loop that runs, as its module states it.
AnyFairness ==
    /\ WF_vars(which = "fees" /\ Loop) /\ WF_vars(which = "fees" /\ Seal)
    /\ WF_mirrorVars(which = "mirror" /\ Mirror!Loop)
    /\ WF_lodestarVars(which = "lodestar" /\ Lodestar!Loop)
    /\ \A w \in Stall!Watch : WF_stallVars(which = "stall" /\ Stall!CheckStep(w))

AnySpec == AnyInit /\ [][AnyNext]_allVars /\ AnyFairness

-----------------------------------------------------------------------------
(* Values.                                                                 *)

CONSTANTS i1, i2, i3, i4

\* Two settlements in each of blocks 1 and 3, one in each of 2 and 4.
MCEvent == [block : {1, 3}, log : {0, 1}] \cup {[block |-> n, log |-> 0] : n \in {2, 4}}

anonymous(day, stake, deps) == [named |-> FALSE, day |-> day, stake |-> stake, deps |-> deps]

\* i1 and i2 are linked as whales of an age, i3 and i4 by age and size, and i2 and
\* i3 by their footprints only.
MCFirst ==
    i1 :> anonymous(0, 60, {}) @@ i2 :> anonymous(2, 100, {1, 2})
        @@ i3 :> anonymous(20, 30, {1, 2}) @@ i4 :> anonymous(22, 25, {2})

MCProfile ==
    {MCFirst[x] : x \in {i1, i2, i3, i4}}
        \cup {[named |-> TRUE, day |-> 0, stake |-> 60, deps |-> {1, 2}]}

-----------------------------------------------------------------------------
(* Properties.                                                             *)

\* The types of the six loops.
LoopsTypeOK ==
    /\ FeeTypeOK
    /\ Mirror!MirrorTypeOK
    /\ Lodestar!IngestTypeOK
    /\ Swarm!SybilTypeOK
    /\ Stall!WatchTypeOK
    /\ Replies!RepliesTypeOK

\* FeeIngest, of its own behaviours: every settlement arrives unless a full page
\* ended in its block (run_fees_loop).
FeesArrive == which = "fees" => SettlementsArrive

\* FeeIngest: what nest.rs says of a partial answer, "the next pass picks up the
\* rest".
FeesAllArrive == which = "fees" => NextPassPicksUpTheRest

\* OracleMirror: one attempt per message (poll_once).
OneAttempt == Mirror!OneAttempt

\* OracleMirror: every post is stored or has left the page (poll_once).
PostsAreStored == which = "mirror" => Mirror!PostsAreStored

\* LodestarIngest: a row is dropped only when its pair had gone, the pages were cut
\* short or the clock of the process was ahead (ingest_allocation_qos).
DroppedOnlyWhenGone == Lodestar!DroppedOnlyWhenGone

\* LodestarIngest: the tables come to hold the sources (run_ingest_loop).
IngestConverges == which = "lodestar" => Lodestar!IngestConverges

\* SybilClusters: the groups are the connected components (cluster).
GroupsAreComponents == Swarm!GroupsAreComponents

\* SybilClusters: the rows are those of one detection (detect_and_store).
StoredIsOneDetection == Swarm!StoredIsOneDetection

\* SybilClusters: a diluted group is never surer (build_cluster).
SizeNeverInflates == Swarm!SizeNeverInflates

\* StallWatch: nothing is said twice without a failure (alert_score_stall).
RepeatsNeedFailures == Stall!RepeatsNeedFailures

\* StallWatch: a recovery follows a stall (alert_oracle_stall).
RecoveryFollowsStall == Stall!RecoveryFollowsStall

\* StallWatch: the flag settles on the source.
FlagFollowsSource == which = "stall" => Stall!FlagFollowsSource

\* ProbeReplies: no refusal for want of our funds is counted (execute_paid_probe).
FundingNeverBlames == Replies!FundingNeverBlames

\* ProbeReplies: feed and grade count alike (load_probe_agg, roll_range).
FeedAndGradeAgree == Replies!FeedAndGradeAgree
==============================================================================
