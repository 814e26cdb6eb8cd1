------------------------------ MODULE QosRollup ------------------------------
(***************************************************************************)
(* The published QoS feed and everything its buckets are computed from.    *)
(*                                                                         *)
(*   - the store (ProbeStore) adds probes, answers and majorities;         *)
(*   - the resolver attributes signing keys to indexers, possibly long     *)
(*     after the answers were bucketed;                                    *)
(*   - the scorer sets and clears the non-deterministic flag of a          *)
(*     deployment, which excuses its faults;                               *)
(*   - the rollup loop recomputes a trailing window and then the buckets   *)
(*     named by requests in qos_reroll;                                    *)
(*   - the operator's `reroll-qos` recomputes every bucket, a day at a     *)
(*     time, from a process of its own.                                    *)
(*                                                                         *)
(* Every SQL statement is one atomic step except the roll itself, which    *)
(* reads a snapshot when it starts and writes when it commits: under READ  *)
(* COMMITTED other statements may commit in between.                       *)
(***************************************************************************)
EXTENDS ProbeStore

CONSTANTS
    Owner,           \* what the network subgraph answers: signing key -> indexer
    Lookback,        \* lookback_secs, in buckets
    MaxGap,          \* the window is rolled at least every MaxGap buckets
    StmtLag,         \* a roll commits within StmtLag buckets of its snapshot
    DayLen,          \* buckets in one step of reroll_all
    EvidenceWindow,  \* the detector's 7 days, in buckets
    MinDivergent,    \* 3 in the code
    RateNum, RateDen,          \* 0.2: least divergence rate
    MinMinority,     \* 2: least number of indexers ever in the minority
    ConcNum, ConcDen,          \* 0.6: greatest share of one of them
    MaxCrashes,      \* bound on restarts of the process and failed detector cycles
    MaxRerolls       \* bound on operator rerolls

ASSUME OwnerAssumption == Owner \in [DOMAIN Owner -> Indexer] /\ DOMAIN Owner \subseteq Address
ASSUME RollAssumption ==
    {Lookback, MaxGap, StmtLag, EvidenceWindow, MinDivergent, RateNum, RateDen, MinMinority,
     ConcNum, ConcDen, MaxCrashes, MaxRerolls} \subseteq Nat /\ DayLen \in Nat \ {0}

\* The trailing window reaches back over the longest pause between two rolls and
\* the longest time a probe takes to be stored, so a late row is always in it.
ASSUME WindowAssumption == MaxGap + StoreLag <= Lookback

VARIABLES
    allocMap,   \* table allocation_map: the keys attributed so far
    nondet,     \* table nondeterministic_deployment
    requests,   \* table qos_reroll
    feed,       \* table foghorn_qos; a row of zero queries is no row
    detector,   \* the scorer's progress through detect_nondeterministic
    loop,       \* the rollup loop's progress through rollup_once
    reroll,     \* the operator's progress through reroll_all
    rolledAt,   \* when the last completed window roll took its snapshot
    crashes,    \* restarts and failed detector cycles so far
    lost        \* history, read by properties only: keys whose change left no
                \* request (see Abandoned) or that a reroll overwrote (RerollCommit)

rollVars == <<allocMap, nondet, requests, feed, detector, loop, reroll,
              rolledAt, crashes, lost>>
vars == <<now, storeVars, rollVars>>

Bucket == 0..MaxTime
Key == [ix : Indexer, dep : Deployment, at : Bucket]
Row == [queries : Nat, ok : Nat, comparable : Nat, divergent : Nat]
NoRow == [queries |-> 0, ok |-> 0, comparable |-> 0, divergent |-> 0]

-----------------------------------------------------------------------------
(* What a roll computes for one key from the tables as they stand.         *)

\* Answers of the probes of d dispatched in bucket b attributed to i.
Answers(i, d, b) ==
    {a \in UNION {{p} \X observation[p] :
                      p \in {q \in ProbeId : probe[q] = [dep |-> d, at |-> b]}} :
        Attributed(a[2], allocMap) = i /\ Counted(a[2])}

Recompute(k) ==
    LET mine == Answers(k.ix, k.dep, k.at)
        comparable == {a \in mine : /\ a[2].outcome \in Hash
                                    /\ k.dep \notin nondet
                                    /\ ClearMajority(observation[a[1]], divergence[a[1]])}
    IN  [queries    |-> Cardinality(mine),
         \* error_class IS NULL AND http_status = 200: a malformed gateway body is ok.
         ok         |-> Cardinality({a \in mine : a[2].outcome # "error"}),
         comparable |-> Cardinality(comparable),
         divergent  |-> Cardinality({a \in comparable :
                            Fault(a[2], observation[a[1]], divergence[a[1]], FALSE)})]

-----------------------------------------------------------------------------
(* One roll statement: a snapshot, then the writes of its commit.          *)

NoStatement == [keys |-> {}, rows |-> <<>>, seen |-> {}, at |-> 0]

\* The rows to write and the rows visible to its DELETE, for the keys in range.
Snapshot(keys) ==
    [keys |-> keys,
     rows |-> [k \in keys |-> Recompute(k)],
     seen |-> {k \in keys : feed[k] # NoRow},
     at   |-> now]

\* Upsert what was computed, delete what was visible and is not computed.  A row
\* another roll inserted after the snapshot is not visible to the DELETE.
Commit(s) ==
    [k \in Key |->
        IF k \notin s.keys THEN feed[k]
        ELSE IF s.rows[k] # NoRow \/ k \in s.seen THEN s.rows[k]
        ELSE feed[k]]

\* The lost keys (see lost) a commit of the loop does not put right.
StillLost(s) == {k \in lost : Commit(s)[k] # Recompute(k)}

InRange(deps, from, to) == {k \in Key : k.dep \in deps /\ from <= k.at /\ k.at <= to}

WindowKeys(t) == InRange(Deployment, t - Lookback, MaxTime)

RequestKeys(r) == InRange({r.dep}, r.from, r.to)

-----------------------------------------------------------------------------
(* Requests to roll older buckets again.                                   *)

\* qos_reroll.id is a sequence; only its uniqueness among live rows matters.
Request == [id : Nat, dep : Deployment, from : Nat, to : Nat]

FreshId == CHOOSE n \in 0..Cardinality(requests) : \A r \in requests : r.id # n

\* INSERT .. SELECT min(dispatched_at), max(dispatched_at) GROUP BY deployment
\* over a set of probes; nothing when there are none.
Ask(probes) ==
    requests' = requests \cup
        {[id   |-> FreshId, dep |-> d,
          from |-> CHOOSE t \in Bucket :
                      /\ \E p \in probes : probe[p] = [dep |-> d, at |-> t]
                      /\ \A p \in probes : probe[p].dep = d => t <= probe[p].at,
          to   |-> CHOOSE t \in Bucket :
                      /\ \E p \in probes : probe[p] = [dep |-> d, at |-> t]
                      /\ \A p \in probes : probe[p].dep = d => probe[p].at <= t] :
         d \in {probe[p].dep : p \in probes}}

Stored == {p \in ProbeId : probe[p] # NoProbe}

-----------------------------------------------------------------------------
(* The resolver.  It runs in the scheduler's task after a round.  A NULL   *)
(* row, which only postpones the next attempt, is not modelled.            *)

Resolve(k) ==
    LET carrying == {p \in Stored : \E o \in observation[p] : o.addr = k}
    IN  /\ job = Idle
        /\ carrying # {}
        /\ k \notin DOMAIN allocMap
        /\ allocMap' = [a \in DOMAIN allocMap \cup {k} |->
                           IF a = k THEN Owner[k] ELSE allocMap[a]]
        /\ Ask(carrying)
        /\ UNCHANGED <<now, storeVars, nondet, feed, detector, loop, reroll,
                       rolledAt, crashes, lost>>

-----------------------------------------------------------------------------
(* The scorer's detector of deployments on which honest indexers disagree. *)

\* Answers of deployment d the detector judges: attributed, counted and recent.
Judged(d) ==
    {a \in UNION {{p} \X observation[p] :
                      p \in {q \in Stored : probe[q].dep = d /\ probe[q].at + EvidenceWindow > now}} :
        Attributed(a[2], allocMap) # "nobody" /\ Counted(a[2])}

\* Unexcused, or a flagged deployment would lose the evidence that flags it.
MinorityAnswers(d) ==
    {a \in Judged(d) : Fault(a[2], observation[a[1]], divergence[a[1]], FALSE)}

ProbesOf(answers) == {a[1] : a \in answers}

\* The probes on which indexer i was in the minority.
MinorityTimes(d, i) ==
    Cardinality(ProbesOf({a \in MinorityAnswers(d) : Attributed(a[2], allocMap) = i}))

Minority(d) == {Attributed(a[2], allocMap) : a \in MinorityAnswers(d)}

\* SUM(times): minority positions, one per indexer and probe.
MinorityTotal(d) ==
    Cardinality({<<a[1], Attributed(a[2], allocMap)>> : a \in MinorityAnswers(d)})

\* Disagreement that is material and rotates.
NonDeterministic(d) ==
    LET total == Cardinality(ProbesOf({a \in Judged(d) : a[2].outcome \in Hash}))
        divergent == Cardinality(ProbesOf(MinorityAnswers(d)))
    IN  /\ divergent >= MinDivergent
        /\ total > 0
        /\ divergent * RateDen >= total * RateNum
        /\ Cardinality(Minority(d)) >= MinMinority
        /\ \A i \in Minority(d) :
              MinorityTimes(d, i) * ConcDen <= MinorityTotal(d) * ConcNum

DetectorIdle == [pc |-> "idle", ids |-> {}, before |-> {}, todo |-> {}]

Detector == [pc : {"idle", "upsert", "delete", "request"}, ids : SUBSET Deployment,
             before : SUBSET Deployment, todo : SUBSET Deployment]

\* The judged deployments and the flags as they were; only this task writes the
\* flags, so the two reads see one state of them.
DetectRead ==
    LET ids == {d \in Deployment : NonDeterministic(d)}
    IN  /\ detector.pc = "idle"
        /\ detector' = [pc |-> "upsert", ids |-> ids, before |-> nondet, todo |-> ids]
        /\ UNCHANGED <<now, storeVars, allocMap, nondet, requests, feed, loop, reroll,
                       rolledAt, crashes, lost>>

DetectUpsert ==
    /\ detector.pc = "upsert"
    /\ \E d \in detector.todo :
          /\ nondet' = nondet \cup {d}
          /\ detector' = [detector EXCEPT !.todo = @ \ {d}]
    /\ UNCHANGED <<now, storeVars, allocMap, requests, feed, loop, reroll,
                   rolledAt, crashes, lost>>

\* Variation: only a deployment joining the list is re-rolled.
ChangedJoinedOnly == detector.ids \ detector.before

\* symmetric_difference(flagged_before, flagged_now)
Changed == (detector.before \ detector.ids) \cup (detector.ids \ detector.before)

DetectDelete ==
    /\ detector.pc = "upsert"
    /\ detector.todo = {}
    /\ nondet' = nondet \cap detector.ids
    /\ detector' = IF Changed = {} THEN DetectorIdle
                   ELSE [detector EXCEPT !.pc = "request", !.todo = Changed]
    /\ UNCHANGED <<now, storeVars, allocMap, requests, feed, loop, reroll,
                   rolledAt, crashes, lost>>

\* request_deployment_reroll for one deployment whose flag changed.
DetectRequest ==
    /\ detector.pc = "request"
    /\ \E d \in detector.todo :
          /\ Ask({p \in Stored : probe[p].dep = d})
          /\ detector' = IF detector.todo = {d} THEN DetectorIdle
                         ELSE [detector EXCEPT !.todo = @ \ {d}]
          /\ lost' = {k \in lost : k.dep # d}
    /\ UNCHANGED <<now, storeVars, allocMap, nondet, feed, loop, reroll,
                   rolledAt, crashes>>

\* Deployments whose flag this cycle has changed and not yet asked a roll for.
Unasked ==
    CASE detector.pc = "idle" -> {}
      [] detector.pc = "upsert" -> (nondet \ detector.before)
      [] detector.pc = "request" -> detector.todo

-----------------------------------------------------------------------------
(* The rollup loop.                                                        *)

LoopIdle == [pc |-> "idle", todo |-> {}, stmt |-> NoStatement]

RollWindow ==
    /\ loop.pc = "idle"
    /\ loop' = [pc |-> "window", todo |-> {}, stmt |-> Snapshot(WindowKeys(now))]
    /\ UNCHANGED <<now, storeVars, allocMap, nondet, requests, feed, detector, reroll,
                   rolledAt, crashes, lost>>

CommitWindow ==
    /\ loop.pc = "window"
    /\ feed' = Commit(loop.stmt)
    /\ lost' = StillLost(loop.stmt)
    /\ rolledAt' = loop.stmt.at
    /\ loop' = [pc |-> "select", todo |-> {}, stmt |-> NoStatement]
    /\ UNCHANGED <<now, storeVars, allocMap, nondet, requests, detector, reroll,
                   crashes>>

SelectRequests ==
    /\ loop.pc = "select"
    /\ loop' = IF requests = {} THEN LoopIdle
               ELSE [pc |-> "drain", todo |-> requests, stmt |-> NoStatement]
    /\ UNCHANGED <<now, storeVars, allocMap, nondet, requests, feed, detector, reroll,
                   rolledAt, crashes, lost>>

\* The request at the head of the queue; any of todo may be it.
Serving == CHOOSE r \in loop.todo : TRUE

RollRequest ==
    /\ loop.pc = "drain"
    /\ loop' = [loop EXCEPT !.pc = "roll", !.stmt = Snapshot(RequestKeys(Serving))]
    /\ UNCHANGED <<now, storeVars, allocMap, nondet, requests, feed, detector, reroll,
                   rolledAt, crashes, lost>>

CommitRequest ==
    /\ loop.pc = "roll"
    /\ feed' = Commit(loop.stmt)
    /\ lost' = StillLost(loop.stmt)
    /\ loop' = [loop EXCEPT !.pc = "served", !.stmt = NoStatement]
    /\ UNCHANGED <<now, storeVars, allocMap, nondet, requests, detector, reroll,
                   rolledAt, crashes>>

\* Variation: the whole queue is deleted, requests that came since the SELECT too.
DeleteRequestAll ==
    /\ loop.pc = "served"
    /\ requests' = {}
    /\ loop' = LoopIdle
    /\ UNCHANGED <<now, storeVars, allocMap, nondet, feed, detector, reroll,
                   rolledAt, crashes, lost>>

\* Variation: the served request stays on the loop's list.
DeleteRequestKeep ==
    /\ loop.pc = "served"
    /\ requests' = requests \ {Serving}
    /\ loop' = [loop EXCEPT !.pc = "drain"]
    /\ UNCHANGED <<now, storeVars, allocMap, nondet, feed, detector, reroll,
                   rolledAt, crashes, lost>>

\* DELETE FROM qos_reroll WHERE id = the request served.
DeleteRequest ==
    /\ loop.pc = "served"
    /\ requests' = requests \ {Serving}
    /\ loop' = IF loop.todo = {Serving} THEN LoopIdle
               ELSE [loop EXCEPT !.pc = "drain", !.todo = @ \ {Serving}]
    /\ UNCHANGED <<now, storeVars, allocMap, nondet, feed, detector, reroll,
                   rolledAt, crashes, lost>>

\* A statement failed: the cycle ends and the next starts over; a request not
\* deleted is served again.
LoopFail ==
    /\ loop.pc # "idle"
    /\ loop' = LoopIdle
    /\ UNCHANGED <<now, storeVars, allocMap, nondet, requests, feed, detector, reroll,
                   rolledAt, crashes, lost>>

-----------------------------------------------------------------------------
(* The operator's `foghorn-probe reroll-qos`, a process of its own.        *)

RerollOff == [pc |-> "off", from |-> 0, until |-> 0, runs |-> 0, stmt |-> NoStatement]

\* From the day of the first probe; the end is fixed when the run starts.
RerollStart ==
    /\ reroll.pc = "off"
    /\ reroll.runs < MaxRerolls
    /\ Stored # {}
    /\ LET first == CHOOSE t \in Bucket :
                        /\ \E p \in Stored : probe[p].at = t
                        /\ \A p \in Stored : t <= probe[p].at
       IN  reroll' = [pc |-> "day", from |-> (first \div DayLen) * DayLen, until |-> now,
                      runs |-> reroll.runs + 1, stmt |-> NoStatement]
    /\ UNCHANGED <<now, storeVars, allocMap, nondet, requests, feed, detector, loop,
                   rolledAt, crashes, lost>>

RerollDay ==
    /\ reroll.pc = "day"
    /\ reroll' = IF reroll.from <= reroll.until
                 THEN [reroll EXCEPT
                         !.pc = "write",
                         !.stmt = Snapshot(InRange(Deployment, reroll.from,
                                                   reroll.from + DayLen - 1))]
                 ELSE [RerollOff EXCEPT !.runs = reroll.runs]
    /\ UNCHANGED <<now, storeVars, allocMap, nondet, requests, feed, detector, loop,
                   rolledAt, crashes, lost>>

\* The day's rows are written.  Those that no longer match the tables, because
\* something changed after the snapshot, are remembered in lost.
RerollCommit ==
    /\ reroll.pc = "write"
    /\ feed' = Commit(reroll.stmt)
    /\ lost' = lost \cup {k \in reroll.stmt.keys : Commit(reroll.stmt)[k] # Recompute(k)}
    /\ reroll' = [reroll EXCEPT !.pc = "day", !.from = @ + DayLen, !.stmt = NoStatement]
    /\ UNCHANGED <<now, storeVars, allocMap, nondet, requests, detector, loop,
                   rolledAt, crashes>>

RerollFail ==
    /\ reroll.pc # "off"
    /\ reroll' = [RerollOff EXCEPT !.runs = reroll.runs]
    /\ UNCHANGED <<now, storeVars, allocMap, nondet, requests, feed, detector, loop,
                   rolledAt, crashes, lost>>

-----------------------------------------------------------------------------

\* The keys of the flag changes that die unasked with the detector's cycle: the
\* next cycle reads the new flags as flagged_before and sees no difference.
Abandoned == {k \in Key : k.dep \in Unasked}

\* A statement of the detector failed; run_score_once logs it and goes on.
DetectFail ==
    /\ detector.pc # "idle"
    /\ crashes < MaxCrashes
    /\ crashes' = crashes + 1
    /\ detector' = DetectorIdle
    /\ lost' = lost \cup Abandoned
    /\ UNCHANGED <<now, storeVars, allocMap, nondet, requests, feed, loop, reroll,
                   rolledAt>>

\* The probe process restarts: every loop starts over, the tables stay.
Crash ==
    /\ crashes < MaxCrashes
    /\ crashes' = crashes + 1
    /\ job' = Idle
    /\ detector' = DetectorIdle
    /\ loop' = LoopIdle
    /\ lost' = lost \cup Abandoned
    /\ UNCHANGED <<now, probe, observation, divergence, allocMap, nondet, requests, feed,
                   reroll, rolledAt>>

\* Time passes, but the window is rolled often enough (interval_secs is 60 and
\* lookback_secs 3600; an outage is assumed to be shorter than the window) and no
\* statement runs for longer than StmtLag.
Advance ==
    /\ Tick
    /\ now + 1 <= rolledAt + MaxGap
    /\ loop.pc \in {"window", "roll"} => now + 1 <= loop.stmt.at + StmtLag
    /\ reroll.pc = "write" => now + 1 <= reroll.stmt.at + StmtLag
    /\ UNCHANGED rollVars

RollInit ==
    /\ StoreInit
    /\ allocMap = <<>>
    /\ nondet = {}
    /\ requests = {}
    /\ feed = [k \in Key |-> NoRow]
    /\ detector = DetectorIdle
    /\ loop = LoopIdle
    /\ reroll = RerollOff
    /\ rolledAt = 0
    /\ crashes = 0
    /\ lost = {}

Scheduler == StoreStep /\ UNCHANGED rollVars

LoopStep ==
    \/ RollWindow
    \/ CommitWindow
    \/ SelectRequests
    \/ RollRequest
    \/ CommitRequest
    \/ DeleteRequest

DetectorStep ==
    \/ DetectRead
    \/ DetectUpsert
    \/ DetectDelete
    \/ DetectRequest

RerollStep ==
    \/ RerollStart
    \/ RerollDay
    \/ RerollCommit
    \/ RerollFail

Next ==
    \/ Scheduler
    \/ \E k \in DOMAIN Owner : Resolve(k)
    \/ DetectorStep
    \/ DetectFail
    \/ LoopStep
    \/ LoopFail
    \/ RerollStep
    \/ Crash
    \/ Advance

Spec == RollInit /\ [][Next]_vars

\* The loop and the detector keep running, and a statement that is tried again
\* every interval does not fail every time.
Fairness ==
    /\ WF_vars(RollWindow)
    /\ SF_vars(CommitWindow)
    /\ SF_vars(SelectRequests)
    /\ SF_vars(RollRequest)
    /\ SF_vars(CommitRequest)
    /\ SF_vars(DeleteRequest)
    /\ WF_vars(DetectUpsert \/ DetectDelete \/ DetectRequest)

FairSpec == Spec /\ Fairness

-----------------------------------------------------------------------------
(* Properties.                                                             *)

StatementOK(s) ==
    /\ s.keys \subseteq Key
    /\ s.rows \in [s.keys -> Row]
    /\ s.seen \subseteq s.keys
    /\ s.at \in Nat

\* Types of the rollup's tables and of the progress of its processes.
RollTypeOK ==
    /\ StoreTypeOK
    /\ allocMap \in [DOMAIN allocMap -> Indexer] /\ DOMAIN allocMap \subseteq DOMAIN Owner
    /\ nondet \subseteq Deployment
    /\ requests \subseteq Request
    /\ feed \in [Key -> Row]
    /\ detector \in Detector
    /\ loop.pc \in {"idle", "window", "select", "drain", "roll", "served"}
    /\ loop.todo \subseteq requests
    /\ StatementOK(loop.stmt)
    /\ reroll.pc \in {"off", "day", "write"}
    /\ {reroll.from, reroll.until, reroll.runs} \subseteq Nat
    /\ StatementOK(reroll.stmt)
    /\ {rolledAt, crashes} \subseteq Nat
    /\ lost \subseteq Key

\* Work some process is bound to do will recompute k: the next window roll, which
\* comes at the latest at rolledAt + MaxGap; a request; or a request the detector
\* is about to make.
Owed(k) ==
    \/ k.at >= rolledAt + MaxGap - Lookback
    \/ \E r \in requests : k \in RequestKeys(r)
    \/ k.dep \in Unasked

\* No stored bucket contradicts the current data unless a roll of it is owed: every
\* attribution, flag change, late answer and restart leaves either the right row or
\* work that will write it.  This is what migration 024 and the README promise.
FeedAccounted == \A k \in Key : feed[k] = Recompute(k) \/ Owed(k)

\* The same, but for the keys lost in the two ways the code cannot recover from: a
\* cycle of the scorer that ends between a flag and its request, and an operator's
\* reroll that commits a snapshot older than the loop's.
FeedAccountedUnlessLost ==
    \A k \in Key : feed[k] = Recompute(k) \/ Owed(k) \/ k \in lost

\* The published feed converges: once the tables stop changing, every bucket,
\* however old, comes to be what a fresh rollup would write, and stays so.
FeedSettles == <>[](\A k \in Key : feed[k] = Recompute(k) \/ k \in lost)
=============================================================================
