--------------------------- MODULE QosRollupProofs ---------------------------
(***************************************************************************)
(* Proofs about the published QoS feed for every set of indexers,          *)
(* deployments and rounds, every window and every number of restarts and   *)
(* operator rerolls: the tables are well typed, and no bucket contradicts  *)
(* the data it is computed from unless a roll of it is owed or it was lost *)
(* in one of the two ways the code cannot recover from.                    *)
(***************************************************************************)
EXTENDS QosRollup, ProbeStoreProofs, NaturalsInduction, WellFoundedInduction

-----------------------------------------------------------------------------
(* The inductive invariant, part by part.                                  *)

\* Some stored probe falls into the bucket of k.
HasProbes(k) == \E p \in ProbeId : probe[p] = [dep |-> k.dep, at |-> k.at]

\* Only finitely many rows have been written.
FiniteTables ==
    /\ IsFiniteSet(Stored)
    /\ IsFiniteSet(requests)

\* The probe in hand was dispatched a short while ago, no stored probe comes from
\* the future, and the last roll of the window is a recent one.
ClocksAgree ==
    /\ now <= MaxTime
    /\ rolledAt <= now /\ now <= rolledAt + MaxGap
    /\ \A p \in Stored : probe[p].at <= now
    /\ job # Idle => job.row.at <= now /\ now <= job.row.at + StoreLag

\* While its answers are written, the probe in hand is the row of the table.
JobRowStored == job # Idle /\ job.pc = "observe" => probe[job.id] = job.row

\* A published row, or one computed and not yet written, stands on a stored probe.
Backed(s) == \A k \in s.keys : s.rows[k] # NoRow => HasProbes(k)

FeedBacked ==
    /\ \A k \in Key : feed[k] # NoRow => HasProbes(k)
    /\ Backed(loop.stmt)
    /\ Backed(reroll.stmt)

\* What the detector remembers of the flags is true of them.
DetectorInStep ==
    CASE detector.pc = "idle" -> TRUE
      [] detector.pc = "upsert" ->
            /\ detector.before \subseteq nondet
            /\ detector.todo \subseteq detector.ids
            /\ nondet = detector.before \cup (detector.ids \ detector.todo)
      [] OTHER -> nondet = detector.ids

\* The loop serves a request while it has one, and its statement covers the
\* window as of the snapshot or the buckets of that request; it and the operator's
\* reroll are records of these fields and no others.
LoopInStep ==
    /\ loop = [pc |-> loop.pc, todo |-> loop.todo, stmt |-> loop.stmt]
    /\ reroll = [pc |-> reroll.pc, from |-> reroll.from, until |-> reroll.until,
                 runs |-> reroll.runs, stmt |-> reroll.stmt]
    /\ loop.pc \in {"drain", "roll", "served"} => loop.todo # {}
    /\ loop.pc = "window" =>
          /\ rolledAt <= loop.stmt.at /\ loop.stmt.at <= now
          /\ loop.stmt.keys = WindowKeys(loop.stmt.at)
    /\ loop.pc = "roll" => loop.stmt.keys = RequestKeys(Serving)

\* Work that will roll k even when the window of the roll at t and the requests
\* outside reqs are done.
OwedAfter(k, t, reqs) ==
    \/ k.at >= t + MaxGap - Lookback
    \/ \E r \in reqs : k \in RequestKeys(r)
    \/ k.dep \in Unasked

\* The value v of k is current, or other work makes up for it, or k is lost.
Settled(v, k, t, reqs) ==
    \/ v = Recompute(k)
    \/ OwedAfter(k, t, reqs)
    \/ k \in lost

\* The statement s is as good as the tables its commit will meet: what it computed
\* and what its DELETE does not see are right unless something else will come.
StatementSettled(s, t, reqs) ==
    \A k \in s.keys :
        /\ Settled(s.rows[k], k, t, reqs)
        /\ k \notin s.seen => feed[k] = NoRow \/ Settled(feed[k], k, t, reqs)

LoopSettled ==
    /\ loop.pc = "window" => StatementSettled(loop.stmt, loop.stmt.at, requests)
    /\ loop.pc = "roll" => StatementSettled(loop.stmt, rolledAt, requests \ {Serving})
    /\ loop.pc = "served" =>
          \A k \in RequestKeys(Serving) :
              Settled(feed[k], k, rolledAt, requests \ {Serving})

\* The inductive invariant.  FeedAccountedUnlessLost alone is not inductive: that
\* the end of a roll or the deletion of a request leaves nothing owed needs what
\* LoopSettled says of the snapshot while other processes write.
RollInv ==
    /\ StoreInv
    /\ RollTypeOK
    /\ FiniteTables
    /\ ClocksAgree
    /\ JobRowStored
    /\ FeedBacked
    /\ DetectorInStep
    /\ LoopInStep
    /\ LoopSettled
    /\ FeedAccountedUnlessLost

-----------------------------------------------------------------------------
(* Least and greatest elements, and identifiers nobody uses.               *)

\* A set of naturals that is not empty has a least element.
LEMMA HasLeast ==
    ASSUME NEW S \in SUBSET Nat, S # {}
    PROVE  \E a \in S : \A b \in S : a <= b
<1> DEFINE less == {pair \in Nat \X Nat : pair[1] < pair[2]}
<1>1. IsWellFoundedOn(less, Nat)
  BY NatLessThanWellFounded DEF OpToRel
<1>2. PICK a \in S : \A b \in S : ~(<<b, a>> \in less)
  <2> HIDE DEF less
  <2> QED BY <1>1, WFMin
<1>3. ASSUME NEW b \in S PROVE a <= b
  <2>1. a \in Nat /\ b \in Nat
    OBVIOUS
  <2>2. ~(b < a)
    BY <1>2, <2>1
  <2>3. QED
    BY <2>1, <2>2
<1>4. QED
  BY <1>3

\* And a greatest one, when it is bounded.
LEMMA HasGreatest ==
    ASSUME NEW n \in Nat, NEW S \in SUBSET (0..n), S # {}
    PROVE  \E a \in S : \A b \in S : b <= a
<1> DEFINE gaps == {n - x : x \in S}
<1>1. gaps \in SUBSET Nat /\ gaps # {}
  <2>1. \A x \in S : x \in 0..n
    OBVIOUS
  <2>2. \A x \in S : n - x \in Nat
    BY <2>1
  <2>3. QED
    BY <2>2
<1>2. PICK g \in gaps : \A h \in gaps : g <= h
  <2> HIDE DEF gaps
  <2> QED BY <1>1, HasLeast
<1>3. PICK a \in S : g = n - a
  OBVIOUS
<1>4. \A b \in S : n - a <= n - b
  BY <1>2, <1>3
<1>5. QED
  BY <1>4

\* Of one number more than there are requests, one is free.
LEMMA FreshIdIsFree ==
    ASSUME IsFiniteSet(requests)
    PROVE  FreshId \in Nat /\ \A r \in requests : r.id # FreshId
<1> DEFINE n == Cardinality(requests)
           ids == {r.id : r \in requests}
           name == [r \in requests |-> r.id]
<1>1. n \in Nat
  BY FS_CardinalityType
<1>2. name \in Surjection(requests, ids)
  BY DEF Surjection
<1>3. IsFiniteSet(ids) /\ Cardinality(ids) \in Nat /\ Cardinality(ids) <= n
  BY <1>2, FS_Surjection, FS_CardinalityType
<1>4. ~(0..n \subseteq ids)
  <2>1. SUFFICES ASSUME 0..n \subseteq ids PROVE FALSE
    OBVIOUS
  <2>2. Cardinality(0..n) = n + 1
    BY <1>1, FS_Interval
  <2>3. Cardinality(0..n) <= Cardinality(ids)
    <3> HIDE DEF ids, n
    <3> QED BY <1>3, <2>1, FS_Subset
  <2>4. QED
    BY <1>1, <1>3, <2>2, <2>3
<1>5. PICK m \in 0..n : \A r \in requests : r.id # m
  BY <1>4
<1>6. QED
  BY <1>1, <1>5 DEF FreshId

-----------------------------------------------------------------------------
(* What a roll computes.                                                   *)

\* The answers a bucket is computed from are finitely many.
LEMMA AnswersAreFinite ==
    ASSUME StoreInv, FiniteTables, NEW k \in Key
    PROVE  IsFiniteSet(Answers(k.ix, k.dep, k.at))
<1> DEFINE row == [dep |-> k.dep, at |-> k.at]
           ps == {q \in ProbeId : probe[q] = row}
           parts == {{p} \X observation[p] : p \in ps}
           part == [p \in ps |-> {p} \X observation[p]]
<1>1. row \in ProbeRow
  BY DEF Key, ProbeRow, Bucket
<1>2. ps \subseteq Stored
  BY <1>1, NoProbeAssumption DEF Stored
<1>3. IsFiniteSet(ps)
  <2> HIDE DEF ps
  <2> QED BY <1>2, FS_Subset DEF FiniteTables
<1>4. part \in Surjection(ps, parts)
  BY DEF Surjection
<1>5. IsFiniteSet(parts)
  <2> HIDE DEF parts, part, ps
  <2> QED BY <1>3, <1>4, FS_Surjection
<1>6. \A T \in parts : IsFiniteSet(T)
  <2>1. ASSUME NEW p \in ps PROVE IsFiniteSet({p} \X observation[p])
    BY FS_Singleton, FS_Product DEF StoreInv
  <2>2. QED
    BY <2>1
<1>7. IsFiniteSet(UNION parts)
  <2> HIDE DEF parts
  <2> QED BY <1>5, <1>6, FS_UNION
<1>8. Answers(k.ix, k.dep, k.at) \subseteq UNION parts
  BY DEF Answers
<1>9. QED
  <2> HIDE DEF parts
  <2> QED BY <1>7, <1>8, FS_Subset

\* So a roll writes rows of numbers.
LEMMA RecomputeType ==
    ASSUME StoreInv, FiniteTables, NEW k \in Key
    PROVE  Recompute(k) \in Row
<1> DEFINE mine == Answers(k.ix, k.dep, k.at)
<1>1. IsFiniteSet(mine)
  BY AnswersAreFinite
<1>2. \A T \in SUBSET mine : Cardinality(T) \in Nat
  <2> HIDE DEF mine
  <2> QED BY <1>1, FS_Subset, FS_CardinalityType
<1> DEFINE comparable == {a \in mine : /\ a[2].outcome \in Hash
                                       /\ k.dep \notin nondet
                                       /\ ClearMajority(observation[a[1]], divergence[a[1]])}
           good == {a \in mine : a[2].outcome # "error"}
           wrong == {a \in comparable :
                        Fault(a[2], observation[a[1]], divergence[a[1]], FALSE)}
<1>3. comparable \subseteq mine /\ good \subseteq mine /\ wrong \subseteq mine
  OBVIOUS
<1>4. Recompute(k) = [queries |-> Cardinality(mine), ok |-> Cardinality(good),
                      comparable |-> Cardinality(comparable), divergent |-> Cardinality(wrong)]
  BY DEF Recompute
<1>5. QED
  <2> HIDE DEF mine, comparable, good, wrong
  <2> QED BY <1>2, <1>3, <1>4 DEF Row

\* A bucket into which no stored probe falls has no row.
LEMMA NoProbesNoRow ==
    ASSUME NEW k \in Key, ~HasProbes(k)
    PROVE  Recompute(k) = NoRow
<1>1. Answers(k.ix, k.dep, k.at) = {}
  BY DEF Answers, HasProbes
<1>2. QED
  BY <1>1, FS_EmptySet DEF Recompute, NoRow

\* A bucket is recomputed from its own probes, their answers and majorities, the
\* attribution of those answers, and the flag of its deployment; from nothing else.
LEMMA SameInputsSameRow ==
    ASSUME NEW k \in Key,
           \A q \in ProbeId : probe'[q] = [dep |-> k.dep, at |-> k.at]
                                 <=> probe[q] = [dep |-> k.dep, at |-> k.at],
           \A q \in ProbeId :
               probe[q] = [dep |-> k.dep, at |-> k.at] =>
                   /\ observation'[q] = observation[q]
                   /\ divergence'[q] = divergence[q]
                   /\ \A o \in observation[q] :
                         Attributed(o, allocMap') = k.ix <=> Attributed(o, allocMap) = k.ix,
           k.dep \in nondet' <=> k.dep \in nondet
    PROVE  Recompute(k)' = Recompute(k)
<1> DEFINE row == [dep |-> k.dep, at |-> k.at]
           mine == Answers(k.ix, k.dep, k.at)
<1>1. {q \in ProbeId : probe'[q] = row} = {q \in ProbeId : probe[q] = row}
  OBVIOUS
<1>2. \A a : a \in mine' <=> a \in mine
  BY <1>1 DEF Answers
<1>3. mine' = mine
  <2> HIDE DEF mine
  <2> QED BY <1>2
<1>4. \A a \in mine : observation'[a[1]] = observation[a[1]] /\ divergence'[a[1]] = divergence[a[1]]
  BY DEF Answers
<1>5. QED
  <2> HIDE DEF mine
  <2> QED BY <1>3, <1>4 DEF Recompute, mine

-----------------------------------------------------------------------------
(* Requests.                                                               *)

\* The step asked for a roll of k.
NewlyAsked(k) == \E r \in requests' \ requests : k \in RequestKeys(r)

\* INSERT .. SELECT min, max .. GROUP BY deployment: the new requests are new,
\* finitely many and well formed, and they cover the bucket of every probe given.
LEMMA AskCovers ==
    ASSUME RollTypeOK, FiniteTables, ClocksAgree,
           NEW probes \in SUBSET Stored, Ask(probes)
    PROVE  /\ requests \subseteq requests'
           /\ requests' \subseteq Request
           /\ IsFiniteSet(requests')
           /\ \A k \in Key :
                 (\E p \in probes : probe[p] = [dep |-> k.dep, at |-> k.at]) => NewlyAsked(k)
<1> DEFINE times(d) == {t \in Bucket : \E p \in probes : probe[p] = [dep |-> d, at |-> t]}
           Least(d) == CHOOSE t \in Bucket :
                          /\ \E p \in probes : probe[p] = [dep |-> d, at |-> t]
                          /\ \A p \in probes : probe[p].dep = d => t <= probe[p].at
           Greatest(d) == CHOOSE t \in Bucket :
                          /\ \E p \in probes : probe[p] = [dep |-> d, at |-> t]
                          /\ \A p \in probes : probe[p].dep = d => probe[p].at <= t
           deps == {probe[p].dep : p \in probes}
           ask == [d \in deps |-> [id |-> FreshId, dep |-> d, from |-> Least(d), to |-> Greatest(d)]]
           new == {ask[d] : d \in deps}
<1>1. requests' = requests \cup new
  BY DEF Ask
<1>2. \A p \in probes : /\ probe[p].dep \in Deployment /\ probe[p].at \in Bucket
                        /\ probe[p] = [dep |-> probe[p].dep, at |-> probe[p].at]
  <2>1. SUFFICES ASSUME NEW p \in probes
                 PROVE  /\ probe[p].dep \in Deployment /\ probe[p].at \in Bucket
                        /\ probe[p] = [dep |-> probe[p].dep, at |-> probe[p].at]
    OBVIOUS
  <2>2. p \in Stored /\ probe[p] \in ProbeRow
    BY DEF Stored, RollTypeOK, StoreTypeOK
  <2>3. probe[p].at <= now /\ now <= MaxTime /\ now \in Nat /\ MaxTime \in Nat
    BY <2>2, TimeAssumption DEF ClocksAgree, RollTypeOK, StoreTypeOK
  <2>4. QED
    BY <2>2, <2>3 DEF ProbeRow, Bucket
<1>3. ASSUME NEW d \in deps
      PROVE  /\ Least(d) \in Bucket /\ Greatest(d) \in Bucket
             /\ \A p \in probes : probe[p].dep = d => Least(d) <= probe[p].at /\ probe[p].at <= Greatest(d)
  <2>1. times(d) \in SUBSET (0..MaxTime) /\ times(d) \in SUBSET Nat /\ times(d) # {}
    <3>1. times(d) \in SUBSET (0..MaxTime)
      BY DEF Bucket
    <3>2. PICK p \in probes : d = probe[p].dep
      OBVIOUS
    <3>3. probe[p].at \in times(d)
      BY <1>2, <3>2
    <3>4. QED
      <4> HIDE DEF times
      <4> QED BY <3>1, <3>3, TimeAssumption
  <2>2. \E t \in times(d) : \A b \in times(d) : t <= b
    <3> HIDE DEF times
    <3> QED BY <2>1, HasLeast
  <2>3. \E t \in times(d) : \A b \in times(d) : b <= t
    <3> HIDE DEF times
    <3> QED BY <2>1, HasGreatest, TimeAssumption
  <2>4. \A p \in probes : probe[p].dep = d => probe[p].at \in times(d)
    BY <1>2
  <2>5. \E t \in Bucket : /\ \E p \in probes : probe[p] = [dep |-> d, at |-> t]
                          /\ \A p \in probes : probe[p].dep = d => t <= probe[p].at
    BY <2>2, <2>4
  <2>6. \E t \in Bucket : /\ \E p \in probes : probe[p] = [dep |-> d, at |-> t]
                          /\ \A p \in probes : probe[p].dep = d => probe[p].at <= t
    BY <2>3, <2>4
  <2>7. Least(d) \in Bucket /\ \A p \in probes : probe[p].dep = d => Least(d) <= probe[p].at
    BY <2>5
  <2>8. Greatest(d) \in Bucket /\ \A p \in probes : probe[p].dep = d => probe[p].at <= Greatest(d)
    BY <2>6
  <2>9. QED
    BY <2>7, <2>8
<1>4. FreshId \in Nat /\ \A r \in requests : r.id # FreshId
  BY FreshIdIsFree DEF FiniteTables
<1>5. new \subseteq Request /\ new \cap requests = {}
  <2> HIDE DEF Least, Greatest
  <2>1. ASSUME NEW d \in deps
        PROVE  d \in Deployment /\ Least(d) \in Nat /\ Greatest(d) \in Nat
    <3>1. d \in Deployment
      BY <1>2
    <3>2. Least(d) \in Bucket /\ Greatest(d) \in Bucket
      BY <1>3
    <3>3. QED
      BY <3>1, <3>2, TimeAssumption DEF Bucket
  <2>2. \A d \in deps : ask[d] \in Request /\ ask[d] \notin requests
    BY <2>1, <1>4 DEF Request
  <2>3. QED
    BY <2>2
<1>6. IsFiniteSet(new)
  <2>1. IsFiniteSet(probes)
    BY FS_Subset DEF FiniteTables
  <2> DEFINE depOf == [p \in probes |-> probe[p].dep]
  <2>2. depOf \in Surjection(probes, deps)
    BY DEF Surjection
  <2>3. IsFiniteSet(deps)
    <3> HIDE DEF depOf, deps
    <3> QED BY <2>1, <2>2, FS_Surjection
  <2>4. ask \in Surjection(deps, new)
    BY DEF Surjection
  <2>5. QED
    <3> HIDE DEF ask, new, deps
    <3> QED BY <2>3, <2>4, FS_Surjection
<1>7. ASSUME NEW k \in Key, NEW p \in probes, probe[p] = [dep |-> k.dep, at |-> k.at]
      PROVE  NewlyAsked(k)
  <2> HIDE DEF Least, Greatest
  <2>1. k.dep \in deps /\ probe[p].dep = k.dep /\ probe[p].at = k.at
    BY <1>7
  <2>2. Least(k.dep) <= k.at /\ k.at <= Greatest(k.dep)
    BY <1>3, <2>1
  <2>3. ask[k.dep] \in requests' \ requests
    BY <1>1, <1>5, <2>1
  <2>4. k \in RequestKeys(ask[k.dep])
    BY <2>1, <2>2 DEF RequestKeys, InRange
  <2>5. QED
    BY <2>3, <2>4 DEF NewlyAsked
<1>8. IsFiniteSet(requests')
  BY <1>1, <1>6, FS_Union DEF FiniteTables
<1>9. requests' \subseteq Request
  BY <1>1, <1>5 DEF RollTypeOK
<1>10. QED
  BY <1>1, <1>7, <1>8, <1>9

-----------------------------------------------------------------------------
(* The rollup runs on the store: it adds readers, and steps of its own.    *)

\* Every step is a step of the store or leaves the store alone; a restart of the
\* process is, to the store, an abandoned round.
LEMMA NextKeepsStore == Next => [StoreNext]_<<now, storeVars>>
<1> SUFFICES ASSUME Next PROVE [StoreNext]_<<now, storeVars>>
  OBVIOUS
<1>1. CASE Scheduler
  BY <1>1 DEF Scheduler, StoreNext
<1>2. CASE Crash
  <2>1. CASE job = Idle
    BY <1>2, <2>1 DEF Crash, storeVars
  <2>2. CASE job # Idle
    BY <1>2, <2>2 DEF Crash, StoreNext, StoreStep, AbandonStore
  <2>3. QED
    BY <2>1, <2>2
<1>3. CASE Advance
  BY <1>3 DEF Advance, StoreNext
<1>4. CASE \E k \in DOMAIN Owner : Resolve(k)
  BY <1>4 DEF Resolve
<1>5. CASE DetectorStep
  BY <1>5 DEF DetectorStep, DetectRead, DetectUpsert, DetectDelete, DetectRequest
<1>6. CASE DetectFail
  BY <1>6 DEF DetectFail
<1>7. CASE LoopStep \/ LoopFail
  BY <1>7 DEF LoopStep, LoopFail, RollWindow, CommitWindow, SelectRequests, RollRequest,
              CommitRequest, DeleteRequest
<1>8. CASE RerollStep
  BY <1>8 DEF RerollStep, RerollStart, RerollDay, RerollCommit, RerollFail
<1>9. QED
  BY <1>1, <1>2, <1>3, <1>4, <1>5, <1>6, <1>7, <1>8 DEF Next

-----------------------------------------------------------------------------
(* No process changes what a bucket is computed from without leaving word. *)

\* If the step changes what k computes to, the window will roll k, or a request
\* for k comes with it, or the detector is about to make one; and what was to be
\* made up for still is.
ChangeAccounted(k) ==
    /\ \/ Recompute(k)' = Recompute(k)
       \/ k.at >= now - StoreLag
       \/ NewlyAsked(k)
       \/ k.dep \in Unasked'
    /\ k.dep \in Unasked \/ k \in lost =>
          \/ k.dep \in Unasked'
          \/ k \in lost'
          \/ NewlyAsked(k)
          \/ ~HasProbes(k) /\ Recompute(k)' = NoRow

\* A step that leaves the store, the attributions and the flag of the deployment
\* alone leaves the row alone.
LEMMA SameTablesSameRow ==
    ASSUME NEW k \in Key, UNCHANGED <<probe, observation, divergence, allocMap>>,
           k.dep \in nondet' <=> k.dep \in nondet
    PROVE  Recompute(k)' = Recompute(k)
BY SameInputsSameRow

\* A step of the scheduler changes at most the bucket its probe was dispatched in,
\* and that one is recent.
LEMMA SchedulerAccounted ==
    ASSUME RollInv, Scheduler, NEW k \in Key
    PROVE  ChangeAccounted(k)
<1>1. UNCHANGED rollVars /\ Unasked' = Unasked /\ lost' = lost /\ StoreStep
  BY DEF Scheduler, rollVars, Unasked, Changed
<1>2. Recompute(k)' = Recompute(k) \/ k.at >= now - StoreLag
  <2>1. CASE \E p \in ProbeId, d \in Deployment : Dispatch(p, d)
    BY <1>1, <2>1, SameTablesSameRow DEF Dispatch, rollVars
  <2>2. CASE AbandonStore
    BY <1>1, <2>2, SameTablesSameRow DEF AbandonStore, rollVars
  <2>3. CASE InsertProbe \/ InsertObservation \/ InsertCluster
    <3>1. /\ job \in Job /\ job # Idle /\ job.id \in ProbeId /\ job.row \in ProbeRow
          /\ \A q \in ProbeId : q # job.id =>
                /\ probe'[q] = probe[q] /\ observation'[q] = observation[q]
                /\ divergence'[q] = divergence[q]
      BY <2>3 DEF RollInv, StoreInv, StoreTypeOK, InsertProbe, InsertObservation, InsertCluster,
                  Job, Idle
    <3>2. probe[job.id] \in {NoProbe, job.row} /\ probe'[job.id] = job.row
      BY <2>3, <3>1 DEF RollInv, StoreInv, StoreTypeOK, JobInHand, JobRowStored, InsertProbe,
                  InsertObservation, InsertCluster, Job
    <3>3. CASE job.row = [dep |-> k.dep, at |-> k.at]
      <4>1. job.row.at = k.at /\ now <= job.row.at + StoreLag
        BY <3>1, <3>3 DEF RollInv, ClocksAgree
      <4>2. now \in Nat /\ StoreLag \in Nat /\ k.at \in Nat
        BY TimeAssumption DEF RollInv, StoreInv, StoreTypeOK, Key, Bucket
      <4>3. QED
        BY <4>1, <4>2
    <3>4. CASE job.row # [dep |-> k.dep, at |-> k.at]
      <4>1. [dep |-> k.dep, at |-> k.at] \in ProbeRow
        BY TimeAssumption DEF Key, Bucket, ProbeRow
      <4>2. probe[job.id] # [dep |-> k.dep, at |-> k.at]
        BY <3>2, <3>4, <4>1, NoProbeAssumption
      <4>3. allocMap' = allocMap /\ nondet' = nondet
        BY <1>1 DEF rollVars
      <4>4. QED
        BY <3>1, <3>2, <3>4, <4>2, <4>3, SameInputsSameRow
    <3>5. QED
      BY <3>3, <3>4
  <2>4. QED
    BY <1>1, <2>1, <2>2, <2>3 DEF StoreStep
<1>3. QED
  BY <1>1, <1>2 DEF ChangeAccounted

\* A late attribution asks for the buckets of every probe that carries the key.
LEMMA ResolveAccounted ==
    ASSUME RollInv, NEW key \in DOMAIN Owner, Resolve(key), NEW k \in Key
    PROVE  ChangeAccounted(k)
<1> DEFINE row == [dep |-> k.dep, at |-> k.at]
           carrying == {p \in Stored : \E o \in observation[p] : o.addr = key}
<1>1. /\ UNCHANGED <<now, storeVars, nondet, detector, lost>>
      /\ key \notin DOMAIN allocMap
      /\ allocMap' = [a \in DOMAIN allocMap \cup {key} |->
                         IF a = key THEN Owner[key] ELSE allocMap[a]]
      /\ Ask(carrying)
  BY DEF Resolve
<1>2. Unasked' = Unasked /\ lost' = lost
  BY <1>1 DEF Unasked, Changed
<1>3. CASE \E p \in carrying : probe[p] = row
  <2>1. carrying \in SUBSET Stored
    OBVIOUS
  <2>2. NewlyAsked(k)
    <3> HIDE DEF carrying
    <3> QED BY <1>1, <1>3, <2>1, AskCovers DEF RollInv
  <2>3. QED
    BY <1>2, <2>2 DEF ChangeAccounted
<1>4. CASE ~ \E p \in carrying : probe[p] = row
  <2>1. row \in ProbeRow
    BY TimeAssumption DEF Key, Bucket, ProbeRow
  <2>2. ASSUME NEW q \in ProbeId, probe[q] = row, NEW o \in observation[q]
        PROVE  Attributed(o, allocMap') = Attributed(o, allocMap)
    <3>1. q \in Stored
      BY <2>1, <2>2, NoProbeAssumption DEF Stored
    <3>2. o.addr # key
      BY <1>4, <2>2, <3>1
    <3>3. o.addr \in DOMAIN allocMap' <=> o.addr \in DOMAIN allocMap
      BY <1>1, <3>2
    <3>4. o.addr \in DOMAIN allocMap => allocMap'[o.addr] = allocMap[o.addr]
      BY <1>1, <3>2
    <3>5. QED
      BY <3>3, <3>4 DEF Attributed
  <2>3. Recompute(k)' = Recompute(k)
    BY <1>1, <2>2, SameInputsSameRow DEF storeVars
  <2>4. QED
    BY <1>2, <2>3 DEF ChangeAccounted
<1>5. QED
  BY <1>3, <1>4

\* A flag is set or cleared before the roll is asked for, but the detector
\* remembers; a request covers every stored probe of the deployment.
LEMMA DetectorAccounted ==
    ASSUME RollInv, DetectorStep, NEW k \in Key
    PROVE  ChangeAccounted(k)
<1>1. UNCHANGED <<now, storeVars, allocMap>>
  BY DEF DetectorStep, DetectRead, DetectUpsert, DetectDelete, DetectRequest
<1>2. UNCHANGED <<probe, observation, divergence, allocMap>>
  BY <1>1 DEF storeVars
<1>3. detector \in Detector /\ nondet \subseteq Deployment
  BY DEF RollInv, RollTypeOK
<1>4. CASE DetectRead
  <2>1. nondet' = nondet /\ lost' = lost /\ detector.pc = "idle"
    BY <1>4 DEF DetectRead
  <2>2. Unasked = {}
    BY <2>1 DEF Unasked
  <2>3. QED
    BY <1>2, <2>1, <2>2, SameTablesSameRow DEF ChangeAccounted
<1>5. CASE DetectUpsert
  <2>1. PICK d \in detector.todo : /\ nondet' = nondet \cup {d}
                                   /\ detector' = [detector EXCEPT !.todo = @ \ {d}]
    BY <1>5 DEF DetectUpsert
  <2>2. detector.pc = "upsert" /\ lost' = lost
    BY <1>5 DEF DetectUpsert
  <2>3. detector'.pc = "upsert" /\ detector'.before = detector.before
    BY <1>3, <2>1, <2>2 DEF Detector
  <2>4. Unasked = nondet \ detector.before /\ Unasked' = nondet' \ detector.before
    BY <2>2, <2>3 DEF Unasked
  <2>5. detector.before \subseteq nondet
    BY <2>2 DEF RollInv, DetectorInStep
  <2>6. CASE k.dep = d /\ d \notin nondet
    BY <2>1, <2>4, <2>5, <2>6 DEF ChangeAccounted
  <2>7. CASE k.dep # d \/ d \in nondet
    <3>1. Recompute(k)' = Recompute(k)
      BY <1>2, <2>1, <2>7, SameTablesSameRow
    <3>2. QED
      BY <2>1, <2>2, <2>4, <3>1 DEF ChangeAccounted
  <2>8. QED
    BY <2>6, <2>7
<1>6. CASE DetectDelete
  <2>1. /\ detector.pc = "upsert" /\ detector.todo = {} /\ lost' = lost
        /\ nondet' = nondet \cap detector.ids
        /\ detector' = IF Changed = {} THEN DetectorIdle
                       ELSE [detector EXCEPT !.pc = "request", !.todo = Changed]
    BY <1>6 DEF DetectDelete
  <2>2. nondet = detector.before \cup detector.ids
    BY <2>1 DEF RollInv, DetectorInStep
  <2>3. Unasked = nondet \ detector.before
    BY <2>1 DEF Unasked
  <2>4. Unasked' = Changed
    BY <1>3, <2>1 DEF Unasked, DetectorIdle, Detector
  <2>5. Unasked \subseteq Unasked' /\ nondet \ nondet' \subseteq Unasked' /\ nondet' \subseteq nondet
    BY <2>1, <2>2, <2>3, <2>4 DEF Changed
  <2>6. k.dep \in Unasked' \/ Recompute(k)' = Recompute(k)
    BY <1>2, <2>5, SameTablesSameRow
  <2>7. QED
    BY <2>1, <2>5, <2>6 DEF ChangeAccounted
<1>7. CASE DetectRequest
  <2>1. PICK d \in detector.todo :
            /\ Ask({p \in Stored : probe[p].dep = d})
            /\ detector' = IF detector.todo = {d} THEN DetectorIdle
                           ELSE [detector EXCEPT !.todo = @ \ {d}]
            /\ lost' = {x \in lost : x.dep # d}
    BY <1>7 DEF DetectRequest
  <2>2. nondet' = nondet /\ detector.pc = "request"
    BY <1>7 DEF DetectRequest
  <2>3. Recompute(k)' = Recompute(k)
    BY <1>2, <2>2, SameTablesSameRow
  <2>4. Unasked = detector.todo /\ Unasked' = detector.todo \ {d}
    BY <1>3, <2>1, <2>2 DEF Unasked, DetectorIdle, Detector
  <2>5. CASE k.dep # d
    BY <2>1, <2>3, <2>4, <2>5 DEF ChangeAccounted
  <2>6. CASE k.dep = d /\ HasProbes(k)
    <3> DEFINE probes == {p \in Stored : probe[p].dep = d}
    <3>1. PICK p \in ProbeId : probe[p] = [dep |-> k.dep, at |-> k.at]
      BY <2>6 DEF HasProbes
    <3>2. [dep |-> k.dep, at |-> k.at] \in ProbeRow
      BY TimeAssumption DEF Key, Bucket, ProbeRow
    <3>3. p \in probes
      BY <2>6, <3>1, <3>2, NoProbeAssumption DEF Stored
    <3>4. probes \in SUBSET Stored
      OBVIOUS
    <3>5. NewlyAsked(k)
      <4> HIDE DEF probes
      <4> QED BY <2>1, <3>1, <3>3, <3>4, AskCovers DEF RollInv, probes
    <3>6. QED
      BY <2>3, <3>5 DEF ChangeAccounted
  <2>7. CASE k.dep = d /\ ~HasProbes(k)
    BY <2>3, <2>7, NoProbesNoRow DEF ChangeAccounted
  <2>8. QED
    BY <2>5, <2>6, <2>7
<1>8. QED
  BY <1>4, <1>5, <1>6, <1>7 DEF DetectorStep

\* A cycle of the detector that dies leaves its unasked keys among the lost ones.
LEMMA FailureAccounted ==
    ASSUME RollInv, DetectFail \/ Crash, NEW k \in Key
    PROVE  ChangeAccounted(k)
<1>1. UNCHANGED <<probe, observation, divergence, allocMap, nondet>> /\ lost' = lost \cup Abandoned
  BY DEF DetectFail, Crash, storeVars
<1>2. k.dep \in Unasked => k \in Abandoned
  BY DEF Abandoned
<1>3. QED
  BY <1>1, <1>2, SameTablesSameRow DEF ChangeAccounted

\* The operator's reroll changes only published rows, and forgets no lost key.
LEMMA RerollAccounted ==
    ASSUME RollInv, RerollStep, NEW k \in Key
    PROVE  ChangeAccounted(k)
<1>1. /\ UNCHANGED <<probe, observation, divergence, allocMap, nondet, detector>>
      /\ lost \subseteq lost'
  BY DEF RerollStep, RerollStart, RerollDay, RerollCommit, RerollFail, storeVars
<1>2. Unasked' = Unasked
  BY <1>1 DEF Unasked, Changed
<1>3. QED
  BY <1>1, <1>2, SameTablesSameRow DEF ChangeAccounted

-----------------------------------------------------------------------------
(* What is settled stays settled while others write.                       *)

\* After the step, v is the current value of k, or other work makes up for it, or
\* k is lost.
SettledNext(v, k, t, reqs) ==
    \/ v = Recompute(k)'
    \/ k.at >= t + MaxGap - Lookback
    \/ \E r \in reqs : k \in RequestKeys(r)
    \/ k.dep \in Unasked'
    \/ k \in lost'

\* A value that is current or made up for is so after an accounted change, given
\* the requests that came with it.
LEMMA SettledStays ==
    ASSUME RollInv, NEW k \in Key, ChangeAccounted(k),
           NEW v, v # NoRow => HasProbes(k),
           NEW t \in Nat, t <= now,
           NEW reqs, NEW next, reqs \subseteq next, requests' \ requests \subseteq next,
           Settled(v, k, t, reqs)
    PROVE  SettledNext(v, k, t, next)
<1>1. NewlyAsked(k) => \E r \in next : k \in RequestKeys(r)
  BY DEF NewlyAsked
<1>2. CASE v = Recompute(k)
  <2>1. k.at >= now - StoreLag => k.at >= t + MaxGap - Lookback
    BY TimeAssumption, RollAssumption, WindowAssumption
       DEF RollInv, RollTypeOK, StoreTypeOK, Key, Bucket
  <2>2. QED
    BY <1>1, <1>2, <2>1 DEF ChangeAccounted, SettledNext
<1>3. CASE OwedAfter(k, t, reqs) /\ ~(k.dep \in Unasked)
  BY <1>3 DEF SettledNext, OwedAfter
<1>4. CASE k.dep \in Unasked \/ k \in lost
  BY <1>1, <1>4 DEF ChangeAccounted, SettledNext
<1>5. QED
  BY <1>2, <1>3, <1>4 DEF Settled, OwedAfter

\* So while the tables change only in accounted ways, and published rows only to
\* what the tables say or to lost ones, a statement in progress stays as good as
\* the tables, and every bucket stays accounted for.
LEMMA SettledWhileOthersWrite ==
    ASSUME RollInv, \A k \in Key : ChangeAccounted(k),
           requests \subseteq requests', rolledAt' = rolledAt,
           loop' = loop \/ loop' = LoopIdle,
           \A k \in Key : \/ feed'[k] = feed[k]
                          \/ feed'[k] = Recompute(k)'
                          \/ k \in lost'
    PROVE  LoopSettled' /\ FeedAccountedUnlessLost'
<1>1. /\ rolledAt \in Nat /\ rolledAt <= now
      /\ loop.pc = "window" => loop.stmt.at \in Nat /\ loop.stmt.at <= now
      /\ loop.stmt.keys \subseteq Key
      /\ \A r : RequestKeys(r) \subseteq Key
  BY DEF RollInv, RollTypeOK, ClocksAgree, LoopInStep, StatementOK, RequestKeys, InRange
<1>2. ASSUME NEW k \in Key, NEW t \in Nat, t <= now,
             NEW reqs, NEW next, reqs \subseteq next, requests' \ requests \subseteq next,
             Settled(feed[k], k, t, reqs)
      PROVE  SettledNext(feed'[k], k, t, next)
  <2>1. feed[k] # NoRow => HasProbes(k)
    BY DEF RollInv, FeedBacked
  <2>2. SettledNext(feed[k], k, t, next)
    BY <1>2, <2>1, SettledStays
  <2>3. QED
    BY <2>2 DEF SettledNext
<1>3. ASSUME NEW k \in loop.stmt.keys, NEW t \in Nat, t <= now,
             NEW reqs, NEW next, reqs \subseteq next, requests' \ requests \subseteq next,
             Settled(loop.stmt.rows[k], k, t, reqs)
      PROVE  SettledNext(loop.stmt.rows[k], k, t, next)
  <2>1. k \in Key /\ (loop.stmt.rows[k] # NoRow => HasProbes(k))
    BY <1>1 DEF RollInv, FeedBacked, Backed
  <2>2. QED
    BY <1>3, <2>1, SettledStays
<1>4. FeedAccountedUnlessLost'
  <2>1. SUFFICES ASSUME NEW k \in Key
                 PROVE  feed'[k] = Recompute(k)' \/ Owed(k)' \/ k \in lost'
    BY DEF FeedAccountedUnlessLost
  <2>2. Settled(feed[k], k, rolledAt, requests)
    BY DEF RollInv, FeedAccountedUnlessLost, Owed, Settled, OwedAfter
  <2>3. SettledNext(feed'[k], k, rolledAt, requests')
    BY <1>1, <1>2, <2>2
  <2>4. QED
    BY <2>3 DEF SettledNext, Owed
<1>5. ASSUME NEW t \in Nat, t <= now, NEW reqs, NEW next,
             reqs \subseteq next, requests' \ requests \subseteq next,
             loop' = loop, StatementSettled(loop.stmt, t, reqs), NEW k \in loop.stmt.keys
      PROVE  /\ SettledNext(loop.stmt.rows[k], k, t, next)
             /\ k \notin loop.stmt.seen => feed'[k] = NoRow \/ SettledNext(feed'[k], k, t, next)
  <2>1. k \in Key /\ Settled(loop.stmt.rows[k], k, t, reqs)
    BY <1>1, <1>5 DEF StatementSettled
  <2>2. SettledNext(loop.stmt.rows[k], k, t, next)
    BY <1>3, <1>5, <2>1
  <2>3. ASSUME k \notin loop.stmt.seen, feed'[k] # NoRow
        PROVE  SettledNext(feed'[k], k, t, next)
    <3>1. CASE feed[k] = NoRow
      BY <2>1, <2>3, <3>1 DEF SettledNext
    <3>2. CASE Settled(feed[k], k, t, reqs)
      BY <1>2, <1>5, <2>1, <3>2
    <3>3. QED
      BY <1>5, <2>3, <3>1, <3>2 DEF StatementSettled
  <2>4. QED
    BY <2>2, <2>3
<1>6. LoopSettled'
  <2>1. CASE loop' = LoopIdle
    BY <2>1 DEF LoopSettled, LoopIdle
  <2>2. CASE loop' = loop
    <3>1. Serving' = Serving
      BY <2>2 DEF Serving
    <3>2. ASSUME loop.pc = "window"
          PROVE  StatementSettled(loop.stmt, loop.stmt.at, requests)'
      <4>1. StatementSettled(loop.stmt, loop.stmt.at, requests)
        BY <3>2 DEF RollInv, LoopSettled
      <4>2. ASSUME NEW k \in loop.stmt.keys
            PROVE  /\ SettledNext(loop.stmt.rows[k], k, loop.stmt.at, requests')
                   /\ k \notin loop.stmt.seen =>
                         feed'[k] = NoRow \/ SettledNext(feed'[k], k, loop.stmt.at, requests')
        BY <1>1, <1>5, <2>2, <3>2, <4>1
      <4>3. QED
        BY <2>2, <4>2 DEF StatementSettled, Settled, OwedAfter, SettledNext
    <3>3. ASSUME loop.pc = "roll"
          PROVE  StatementSettled(loop.stmt, rolledAt, requests \ {Serving})'
      <4>1. StatementSettled(loop.stmt, rolledAt, requests \ {Serving})
        BY <3>3 DEF RollInv, LoopSettled
      <4>2. Serving \in requests
        BY <3>3 DEF RollInv, RollTypeOK, LoopInStep, Serving
      <4>3. /\ requests \ {Serving} \subseteq requests' \ {Serving}
            /\ requests' \ requests \subseteq requests' \ {Serving}
        BY <4>2
      <4>4. ASSUME NEW k \in loop.stmt.keys
            PROVE  /\ SettledNext(loop.stmt.rows[k], k, rolledAt, requests' \ {Serving})
                   /\ k \notin loop.stmt.seen =>
                         feed'[k] = NoRow \/ SettledNext(feed'[k], k, rolledAt, requests' \ {Serving})
        BY <1>1, <1>5, <2>2, <4>1, <4>3
      <4>5. QED
        BY <2>2, <3>1, <4>4 DEF StatementSettled, Settled, OwedAfter, SettledNext
    <3>4. ASSUME loop.pc = "served", NEW k \in RequestKeys(Serving)
          PROVE  Settled(feed[k], k, rolledAt, requests \ {Serving})'
      <4>1. Settled(feed[k], k, rolledAt, requests \ {Serving})
        BY <3>4 DEF RollInv, LoopSettled
      <4>2. Serving \in requests
        BY <3>4 DEF RollInv, RollTypeOK, LoopInStep, Serving
      <4>3. /\ requests \ {Serving} \subseteq requests' \ {Serving}
            /\ requests' \ requests \subseteq requests' \ {Serving}
        BY <4>2
      <4>4. SettledNext(feed'[k], k, rolledAt, requests' \ {Serving})
        BY <1>1, <1>2, <4>1, <4>3
      <4>5. QED
        BY <3>1, <4>4 DEF Settled, OwedAfter, SettledNext
    <3>5. RequestKeys(Serving)' = RequestKeys(Serving)
      BY <3>1 DEF RequestKeys, InRange
    <3>6. QED
      BY <2>2, <3>2, <3>3, <3>4, <3>5 DEF LoopSettled
  <2>3. QED
    BY <2>1, <2>2
<1>7. QED
  BY <1>4, <1>6

-----------------------------------------------------------------------------
(* Statements: what a snapshot takes and what a commit leaves.             *)

\* A snapshot of any keys is a well-typed statement that stands on stored probes.
LEMMA SnapshotFacts ==
    ASSUME RollInv, NEW keys \in SUBSET Key
    PROVE  StatementOK(Snapshot(keys)) /\ Backed(Snapshot(keys))
<1>1. \A k \in keys : Recompute(k) \in Row
  BY RecomputeType DEF RollInv
<1>2. \A k \in keys : Recompute(k) # NoRow => HasProbes(k)
  BY NoProbesNoRow
<1>3. now \in Nat
  BY DEF RollInv, StoreInv, StoreTypeOK
<1>4. QED
  BY <1>1, <1>2, <1>3 DEF StatementOK, Backed, Snapshot

\* The empty statement is one too.
LEMMA NoStatementFacts == StatementOK(NoStatement) /\ Backed(NoStatement)
<1>1. NoStatement.keys = {} /\ NoStatement.rows = <<>> /\ NoStatement.seen = {} /\ NoStatement.at = 0
  BY DEF NoStatement
<1>2. <<>> \in [{} -> Row]
  OBVIOUS
<1>3. QED
  BY <1>1, <1>2 DEF StatementOK, Backed

\* A commit leaves a well-typed table whose rows stand on stored probes.
LEMMA CommitFacts ==
    ASSUME RollInv, NEW s, StatementOK(s), Backed(s)
    PROVE  /\ Commit(s) \in [Key -> Row]
           /\ \A k \in Key : Commit(s)[k] # NoRow => HasProbes(k)
<1>1. feed \in [Key -> Row] /\ \A k \in Key : feed[k] # NoRow => HasProbes(k)
  BY DEF RollInv, RollTypeOK, FeedBacked
<1>2. \A k \in s.keys : s.rows[k] \in Row
  BY DEF StatementOK
<1>3. QED
  BY <1>1, <1>2 DEF Commit, Backed

-----------------------------------------------------------------------------
(* The rest of the invariant.                                              *)

\* Every part of the invariant that does not speak of what is settled.
RollShape ==
    /\ RollTypeOK
    /\ FiniteTables
    /\ ClocksAgree
    /\ JobRowStored
    /\ FeedBacked
    /\ DetectorInStep
    /\ LoopInStep

\* What the rollup needs of a step of the store: probes are added one at a time
\* and stay, and the clock runs no further than the scheduler's timeouts allow.
LEMMA StoreFacts ==
    ASSUME RollInv, [StoreNext]_<<now, storeVars>>
    PROVE  /\ StoreInv'
           /\ IsFiniteSet(Stored)'
           /\ \A k \in Key : HasProbes(k) => HasProbes(k)'
           /\ now' <= MaxTime
           /\ \A p \in Stored' : probe'[p].at <= now'
           /\ job' # Idle => job'.row.at <= now' /\ now' <= job'.row.at + StoreLag
           /\ JobRowStored'
<1>0. StoreInv' /\ now' \in Nat /\ StoreInv /\ now \in Nat
  BY StoreStepInv DEF RollInv, StoreInv, StoreTypeOK
<1>1. /\ IsFiniteSet(Stored) /\ now <= MaxTime /\ \A p \in Stored : probe[p].at <= now
      /\ job # Idle => job \in Job /\ job.row.at <= now /\ now <= job.row.at + StoreLag
      /\ JobRowStored
      /\ StoreLag \in Nat /\ MaxTime \in Nat
      /\ probe \in [ProbeId -> ProbeRow \cup {NoProbe}]
  BY TimeAssumption DEF RollInv, ClocksAgree, FiniteTables, StoreInv, StoreTypeOK
<1>2. CASE UNCHANGED probe
  <2>1. Stored' = Stored /\ \A k \in Key : HasProbes(k)' = HasProbes(k)
    BY <1>2 DEF Stored, HasProbes
  <2>2. CASE \E p \in ProbeId, d \in Deployment : Dispatch(p, d)
    <3>1. PICK p \in ProbeId, d \in Deployment : Dispatch(p, d)
      BY <2>2
    <3>2. job'.row = [dep |-> d, at |-> now] /\ job'.pc = "insert" /\ now' = now
      BY <3>1 DEF Dispatch
    <3>3. QED
      BY <1>0, <1>1, <1>2, <2>1, <3>2 DEF JobRowStored
  <2>3. CASE InsertProbe \/ InsertObservation
    <3>1. /\ job # Idle /\ now' = now /\ job'.row = job.row /\ job'.id = job.id
          /\ InsertObservation => job.pc = "observe"
          /\ InsertProbe => probe'[job.id] = job.row
      <4>1. CASE InsertProbe
        <5>1. job # Idle /\ job \in Job /\ job.pc = "insert"
          BY <1>1, <4>1 DEF InsertProbe, Idle
        <5>2. QED
          BY <1>1, <4>1, <5>1 DEF InsertProbe, InsertObservation, Job
      <4>2. CASE InsertObservation
        <5>1. job # Idle /\ job \in Job /\ job.pc = "observe"
          BY <1>1, <4>2 DEF InsertObservation, Idle
        <5>2. PICK o \in job.pending : job' = [job EXCEPT !.pending = @ \ {o}]
          BY <4>2 DEF InsertObservation
        <5>3. ~InsertProbe /\ now' = now
          BY <4>2, <5>1 DEF InsertProbe, InsertObservation
        <5>4. QED
          BY <5>1, <5>2, <5>3 DEF Job
      <4>3. QED
        BY <2>3, <4>1, <4>2
    <3>2. JobRowStored'
      BY <1>1, <1>2, <2>3, <3>1 DEF JobRowStored, InsertProbe
    <3>3. QED
      BY <1>0, <1>1, <1>2, <2>1, <3>1, <3>2
  <2>4. CASE InsertCluster \/ AbandonStore
    BY <1>0, <1>1, <1>2, <2>1, <2>4 DEF InsertCluster, AbandonStore, JobRowStored
  <2>5. CASE Tick
    <3>1. now < MaxTime /\ now' = now + 1 /\ UNCHANGED storeVars /\ StoreTimely
      BY <2>5 DEF Tick
    <3>2. \A p \in Stored : probe[p].at \in Nat
      BY <1>1 DEF Stored, ProbeRow
    <3>3. job # Idle => job.row.at \in Nat
      BY <1>1 DEF Job, ProbeRow
    <3>4. \A p \in Stored' : probe'[p].at <= now'
      BY <1>0, <1>1, <1>2, <2>1, <3>1, <3>2
    <3>5. job' # Idle => job'.row.at <= now' /\ now' <= job'.row.at + StoreLag
      BY <1>0, <1>1, <3>1, <3>3 DEF StoreTimely, storeVars
    <3>6. JobRowStored' /\ now' <= MaxTime
      BY <1>0, <1>1, <3>1 DEF JobRowStored, storeVars
    <3>7. QED
      BY <1>0, <1>1, <2>1, <3>4, <3>5, <3>6
  <2>6. CASE UNCHANGED <<now, storeVars>>
    BY <1>0, <1>1, <1>2, <2>1, <2>6 DEF storeVars, JobRowStored
  <2>7. QED
    BY <2>2, <2>3, <2>4, <2>5, <2>6 DEF StoreNext, StoreStep
<1>3. CASE InsertProbe
  <2>1. /\ job # Idle /\ job \in Job /\ job.id \in ProbeId /\ job.row \in ProbeRow
        /\ now' = now /\ probe' = [probe EXCEPT ![job.id] = job.row]
        /\ job'.row = job.row /\ job'.id = job.id
    BY <1>1, <1>3 DEF InsertProbe, Job, Idle
  <2>2. probe[job.id] = NoProbe
    BY <1>0, <1>3, <2>1 DEF StoreInv, JobInHand, InsertProbe
  <2>3. /\ probe'[job.id] = job.row
        /\ \A q \in ProbeId : q # job.id => probe'[q] = probe[q]
    BY <1>1, <2>1
  <2>4. Stored' \subseteq Stored \cup {job.id}
    BY <2>3 DEF Stored
  <2>5. IsFiniteSet(Stored)'
    <3>1. IsFiniteSet(Stored \cup {job.id})
      BY <1>1, FS_AddElement
    <3>2. QED
      BY <2>4, <3>1, FS_Subset
  <2>6. ASSUME NEW k \in Key, HasProbes(k) PROVE HasProbes(k)'
    <3>1. PICK p \in ProbeId : probe[p] = [dep |-> k.dep, at |-> k.at]
      BY <2>6 DEF HasProbes
    <3>2. [dep |-> k.dep, at |-> k.at] \in ProbeRow
      BY TimeAssumption DEF Key, Bucket, ProbeRow
    <3>3. p # job.id
      BY <2>2, <3>1, <3>2, NoProbeAssumption
    <3>4. QED
      BY <2>3, <3>1, <3>3 DEF HasProbes
  <2>7. \A p \in Stored' : probe'[p].at <= now'
    BY <1>1, <2>1, <2>3 DEF Stored
  <2>8. JobRowStored'
    BY <2>1, <2>3 DEF JobRowStored
  <2>9. QED
    BY <1>0, <1>1, <2>1, <2>5, <2>6, <2>7, <2>8
<1>4. UNCHANGED probe \/ InsertProbe
  BY DEF StoreNext, StoreStep, Dispatch, InsertObservation, InsertCluster, AbandonStore, Tick, storeVars
<1>5. QED
  BY <1>2, <1>3, <1>4

\* The store and the clock move, the tables and processes of the rollup do not.
LEMMA SchedulerShape ==
    ASSUME RollInv, Scheduler \/ Advance
    PROVE  RollShape'
<1>1. UNCHANGED rollVars /\ [StoreNext]_<<now, storeVars>>
  BY DEF Scheduler, Advance, StoreNext
<1>2. UNCHANGED <<allocMap, nondet, requests, feed, detector, loop, reroll, rolledAt, crashes, lost>>
  BY <1>1 DEF rollVars
<1>3. /\ StoreInv' /\ IsFiniteSet(Stored)' /\ now' <= MaxTime
      /\ \A k \in Key : HasProbes(k) => HasProbes(k)'
      /\ \A p \in Stored' : probe'[p].at <= now'
      /\ job' # Idle => job'.row.at <= now' /\ now' <= job'.row.at + StoreLag
      /\ JobRowStored'
  BY <1>1, StoreFacts
<1>4. /\ now \in Nat /\ now' \in Nat /\ now <= now' /\ now' <= rolledAt + MaxGap
      /\ MaxGap \in Nat /\ rolledAt \in Nat /\ rolledAt <= now
  <2>1. now \in Nat /\ rolledAt \in Nat /\ rolledAt <= now /\ now <= rolledAt + MaxGap
    BY DEF RollInv, RollTypeOK, StoreTypeOK, ClocksAgree
  <2>2. CASE Scheduler
    BY <2>1, <2>2, RollAssumption DEF Scheduler, StoreStep, Dispatch, InsertProbe, InsertObservation,
                            InsertCluster, AbandonStore
  <2>3. CASE Advance
    BY <2>1, <2>3, RollAssumption DEF Advance, Tick
  <2>4. QED
    BY <2>2, <2>3
<1>5. RollTypeOK'
  BY <1>2, <1>3 DEF RollInv, RollTypeOK, StoreInv, StatementOK
<1>6. FiniteTables' /\ ClocksAgree'
  BY <1>2, <1>3, <1>4 DEF RollInv, FiniteTables, ClocksAgree
<1>7. FeedBacked'
  <2>1. loop.stmt.keys \subseteq Key /\ reroll.stmt.keys \subseteq Key
    BY DEF RollInv, RollTypeOK, StatementOK
  <2>2. QED
    BY <1>2, <1>3, <2>1 DEF RollInv, FeedBacked, Backed
<1>8. DetectorInStep'
  BY <1>2 DEF RollInv, DetectorInStep
<1>9. LoopInStep'
  <2>1. loop.stmt.at \in Nat
    BY DEF RollInv, RollTypeOK, StatementOK
  <2>2. QED
    BY <1>2, <1>4, <2>1 DEF RollInv, LoopInStep, WindowKeys, RequestKeys, InRange, Serving
<1>10. QED
  BY <1>3, <1>5, <1>6, <1>7, <1>8, <1>9 DEF RollShape

\* The parts of the invariant that follow when only the rollup moves: the store
\* and the clock stand still, and so do the roll times.
LEMMA QuietStore ==
    ASSUME RollInv, UNCHANGED <<now, storeVars, rolledAt>>
    PROVE  /\ StoreTypeOK' /\ IsFiniteSet(Stored)' /\ ClocksAgree' /\ JobRowStored'
           /\ \A k : HasProbes(k)' = HasProbes(k)
<1>1. UNCHANGED <<now, probe, observation, divergence, job, rolledAt>>
  BY DEF storeVars
<1>2. Stored' = Stored /\ \A k : HasProbes(k)' = HasProbes(k)
  BY <1>1 DEF Stored, HasProbes
<1>3. ClocksAgree'
  BY <1>1, <1>2 DEF RollInv, ClocksAgree
<1>4. QED
  BY <1>1, <1>2, <1>3 DEF RollInv, RollTypeOK, StoreTypeOK, FiniteTables, JobRowStored

\* Only requests and attributions are new.
LEMMA ResolveShape ==
    ASSUME RollInv, NEW key \in DOMAIN Owner, Resolve(key)
    PROVE  RollShape'
<1> DEFINE carrying == {p \in Stored : \E o \in observation[p] : o.addr = key}
<1>1. /\ UNCHANGED <<now, storeVars, nondet, feed, detector, loop, reroll, rolledAt, crashes, lost>>
      /\ key \notin DOMAIN allocMap
      /\ allocMap' = [a \in DOMAIN allocMap \cup {key} |->
                         IF a = key THEN Owner[key] ELSE allocMap[a]]
      /\ Ask(carrying)
  BY DEF Resolve
<1>2. requests \subseteq requests' /\ requests' \subseteq Request /\ IsFiniteSet(requests')
  <2>1. carrying \in SUBSET Stored
    OBVIOUS
  <2>2. QED
    <3> HIDE DEF carrying
    <3> QED BY <1>1, <2>1, AskCovers DEF RollInv
<1>3. /\ StoreTypeOK' /\ IsFiniteSet(Stored)' /\ ClocksAgree' /\ JobRowStored'
      /\ \A k : HasProbes(k)' = HasProbes(k)
  BY <1>1, QuietStore
<1>4. allocMap' \in [DOMAIN allocMap' -> Indexer] /\ DOMAIN allocMap' \subseteq DOMAIN Owner
  BY <1>1, OwnerAssumption DEF RollInv, RollTypeOK
<1>5. RollTypeOK'
  BY <1>1, <1>2, <1>3, <1>4 DEF RollInv, RollTypeOK, StatementOK
<1>6. FeedBacked' /\ DetectorInStep' /\ LoopInStep'
  BY <1>1, <1>3 DEF RollInv, FeedBacked, Backed, DetectorInStep, LoopInStep, WindowKeys,
                    RequestKeys, InRange, Serving
<1>7. QED
  BY <1>2, <1>3, <1>5, <1>6 DEF RollShape, FiniteTables

\* The detector moves its flags, its progress and the requests.
LEMMA DetectorShape ==
    ASSUME RollInv, DetectorStep
    PROVE  RollShape'
<1>1. UNCHANGED <<now, storeVars, allocMap, feed, loop, reroll, rolledAt, crashes>>
  BY DEF DetectorStep, DetectRead, DetectUpsert, DetectDelete, DetectRequest
<1>2. detector \in Detector /\ nondet \subseteq Deployment
  BY DEF RollInv, RollTypeOK
<1>3. /\ nondet' \subseteq Deployment /\ detector' \in Detector /\ DetectorInStep'
      /\ lost' \subseteq lost
      /\ requests \subseteq requests' /\ requests' \subseteq Request /\ IsFiniteSet(requests')
  <2>0. requests \subseteq Request /\ IsFiniteSet(requests)
    BY DEF RollInv, RollTypeOK, FiniteTables
  <2>1. CASE DetectRead
    <3> DEFINE ids == {d \in Deployment : NonDeterministic(d)}
    <3>1. /\ detector' = [pc |-> "upsert", ids |-> ids, before |-> nondet, todo |-> ids]
          /\ UNCHANGED <<nondet, requests, lost>>
      BY <2>1 DEF DetectRead
    <3>2. ids \subseteq Deployment
      OBVIOUS
    <3>3. QED
      <4> HIDE DEF ids
      <4> QED BY <1>2, <2>0, <3>1, <3>2 DEF Detector, DetectorInStep
  <2>2. CASE DetectUpsert
    <3>1. PICK d \in detector.todo : /\ nondet' = nondet \cup {d}
                                     /\ detector' = [detector EXCEPT !.todo = @ \ {d}]
      BY <2>2 DEF DetectUpsert
    <3>2. detector.pc = "upsert" /\ UNCHANGED <<requests, lost>>
      BY <2>2 DEF DetectUpsert
    <3>3. /\ detector.before \subseteq nondet /\ detector.todo \subseteq detector.ids
          /\ nondet = detector.before \cup (detector.ids \ detector.todo)
      BY <3>2 DEF RollInv, DetectorInStep
    <3>4. /\ detector'.pc = "upsert" /\ detector'.ids = detector.ids
          /\ detector'.before = detector.before /\ detector'.todo = detector.todo \ {d}
          /\ detector' \in Detector
      BY <1>2, <3>1, <3>2 DEF Detector
    <3>5. d \in Deployment /\ d \in detector.ids
      BY <1>2, <3>3 DEF Detector
    <3>6. nondet' = detector.before \cup (detector.ids \ (detector.todo \ {d}))
      BY <3>1, <3>3, <3>5
    <3>7. QED
      BY <1>2, <2>0, <3>1, <3>2, <3>3, <3>4, <3>5, <3>6 DEF DetectorInStep
  <2>3. CASE DetectDelete
    <3>1. /\ detector.pc = "upsert" /\ detector.todo = {} /\ UNCHANGED <<requests, lost>>
          /\ nondet' = nondet \cap detector.ids
          /\ detector' = IF Changed = {} THEN DetectorIdle
                         ELSE [detector EXCEPT !.pc = "request", !.todo = Changed]
      BY <2>3 DEF DetectDelete
    <3>2. nondet' = detector.ids
      BY <3>1 DEF RollInv, DetectorInStep
    <3>3. Changed \subseteq Deployment
      BY <1>2 DEF Changed, Detector
    <3>4. /\ detector' \in Detector
          /\ detector'.pc = "idle" \/ (detector'.pc = "request" /\ detector'.ids = detector.ids)
      <4>1. CASE Changed = {}
        BY <3>1, <4>1 DEF DetectorIdle, Detector
      <4>2. CASE Changed # {}
        BY <1>2, <3>1, <3>3, <4>2 DEF Detector
      <4>3. QED
        BY <4>1, <4>2
    <3>5. QED
      BY <1>2, <2>0, <3>1, <3>2, <3>4 DEF DetectorInStep
  <2>4. CASE DetectRequest
    <3>1. PICK d \in detector.todo :
              /\ Ask({p \in Stored : probe[p].dep = d})
              /\ detector' = IF detector.todo = {d} THEN DetectorIdle
                             ELSE [detector EXCEPT !.todo = @ \ {d}]
              /\ lost' = {x \in lost : x.dep # d}
      BY <2>4 DEF DetectRequest
    <3>2. nondet' = nondet /\ detector.pc = "request" /\ nondet = detector.ids
      BY <2>4 DEF DetectRequest, RollInv, DetectorInStep
    <3>3. {p \in Stored : probe[p].dep = d} \in SUBSET Stored
      OBVIOUS
    <3>4. requests \subseteq requests' /\ requests' \subseteq Request /\ IsFiniteSet(requests')
      BY <3>1, <3>3, AskCovers DEF RollInv
    <3>5. /\ detector' \in Detector
          /\ detector'.pc = "idle" \/ (detector'.pc = "request" /\ detector'.ids = detector.ids)
      <4>1. CASE detector.todo = {d}
        BY <3>1, <4>1 DEF DetectorIdle, Detector
      <4>2. CASE detector.todo # {d}
        BY <1>2, <3>1, <3>2, <4>2 DEF Detector
      <4>3. QED
        BY <4>1, <4>2
    <3>6. QED
      BY <1>2, <3>1, <3>2, <3>4, <3>5 DEF DetectorInStep
  <2>5. QED
    BY <2>1, <2>2, <2>3, <2>4 DEF DetectorStep
<1>4. /\ StoreTypeOK' /\ IsFiniteSet(Stored)' /\ ClocksAgree' /\ JobRowStored'
      /\ \A k : HasProbes(k)' = HasProbes(k)
  BY <1>1, QuietStore
<1>5. RollTypeOK'
  BY <1>1, <1>3, <1>4 DEF RollInv, RollTypeOK, StatementOK
<1>6. FeedBacked' /\ LoopInStep'
  BY <1>1, <1>4 DEF RollInv, FeedBacked, Backed, LoopInStep, WindowKeys, RequestKeys, InRange,
                    Serving
<1>7. QED
  BY <1>3, <1>4, <1>5, <1>6 DEF RollShape, FiniteTables

\* A failed cycle and a restart start over; the tables stay.
LEMMA FailureShape ==
    ASSUME RollInv, DetectFail \/ Crash
    PROVE  RollShape'
<1>1. /\ UNCHANGED <<now, probe, observation, divergence, allocMap, nondet, requests, feed,
                     reroll, rolledAt>>
      /\ job' = job \/ job' = Idle
      /\ loop' = loop \/ loop' = LoopIdle
      /\ detector' = DetectorIdle /\ crashes' = crashes + 1 /\ lost' = lost \cup Abandoned
  BY DEF DetectFail, Crash, storeVars
<1>2. Stored' = Stored /\ \A k : HasProbes(k)' = HasProbes(k)
  BY <1>1 DEF Stored, HasProbes
<1>3. ClocksAgree' /\ JobRowStored' /\ FiniteTables'
  BY <1>1, <1>2 DEF RollInv, ClocksAgree, JobRowStored, FiniteTables
<1>4. loop'.pc \in {"idle", "window", "select", "drain", "roll", "served"}
      /\ loop'.todo \subseteq requests /\ StatementOK(loop'.stmt) /\ Backed(loop'.stmt)
  BY <1>1, NoStatementFacts DEF RollInv, RollTypeOK, FeedBacked, LoopIdle
<1>5. RollTypeOK'
  <2>1. StoreTypeOK'
    BY <1>1 DEF RollInv, RollTypeOK, StoreTypeOK
  <2>2. lost' \subseteq Key /\ crashes' \in Nat /\ detector' \in Detector
    BY <1>1 DEF RollInv, RollTypeOK, Abandoned, Detector, DetectorIdle
  <2>3. StatementOK(loop.stmt)' /\ StatementOK(reroll.stmt)'
    BY <1>1, <1>4 DEF RollInv, RollTypeOK, StatementOK
  <2>4. QED
    BY <1>1, <1>4, <2>1, <2>2, <2>3 DEF RollInv, RollTypeOK
<1>6. FeedBacked'
  BY <1>1, <1>2, <1>4 DEF RollInv, FeedBacked, Backed
<1>7. DetectorInStep'
  BY <1>1 DEF DetectorInStep, DetectorIdle
<1>8. LoopInStep'
  BY <1>1 DEF RollInv, LoopInStep, LoopIdle, Serving, WindowKeys, RequestKeys, InRange
<1>9. QED
  BY <1>3, <1>5, <1>6, <1>7, <1>8 DEF RollShape

\* The operator's reroll moves its own progress, and published rows.
LEMMA RerollShape ==
    ASSUME RollInv, RerollStep
    PROVE  /\ RollShape'
           /\ \A k \in Key : \/ feed'[k] = feed[k]
                             \/ feed'[k] = Recompute(k)'
                             \/ k \in lost'
<1>1. UNCHANGED <<now, storeVars, allocMap, nondet, requests, detector, loop, rolledAt, crashes>>
  BY DEF RerollStep, RerollStart, RerollDay, RerollCommit, RerollFail
<1>2. /\ StoreTypeOK' /\ IsFiniteSet(Stored)' /\ ClocksAgree' /\ JobRowStored'
      /\ \A k : HasProbes(k)' = HasProbes(k)
  BY <1>1, QuietStore
<1>3. /\ reroll.from \in Nat /\ reroll.until \in Nat /\ reroll.runs \in Nat
      /\ StatementOK(reroll.stmt) /\ Backed(reroll.stmt)
      /\ reroll = [pc |-> reroll.pc, from |-> reroll.from, until |-> reroll.until,
                   runs |-> reroll.runs, stmt |-> reroll.stmt]
      /\ feed \in [Key -> Row] /\ lost \subseteq Key
      /\ \A k \in Key : feed[k] # NoRow => HasProbes(k)
  BY DEF RollInv, RollTypeOK, LoopInStep, FeedBacked
<1>4. /\ reroll' = [pc |-> reroll'.pc, from |-> reroll'.from, until |-> reroll'.until,
                    runs |-> reroll'.runs, stmt |-> reroll'.stmt]
      /\ reroll'.pc \in {"off", "day", "write"}
      /\ reroll'.from \in Nat /\ reroll'.until \in Nat /\ reroll'.runs \in Nat
      /\ StatementOK(reroll'.stmt) /\ Backed(reroll'.stmt)
      /\ feed' \in [Key -> Row] /\ lost' \subseteq Key
      /\ \A k \in Key : feed'[k] # NoRow => HasProbes(k)
      /\ \A k \in Key : feed'[k] = feed[k] \/ feed'[k] = Recompute(k) \/ k \in lost'
  <2>1. CASE RerollStart
    <3> DEFINE times == {t \in Bucket : \E p \in Stored : probe[p].at = t}
               first == CHOOSE t \in Bucket :
                            /\ \E p \in Stored : probe[p].at = t
                            /\ \A p \in Stored : t <= probe[p].at
    <3>1. /\ reroll' = [pc |-> "day", from |-> (first \div DayLen) * DayLen, until |-> now,
                        runs |-> reroll.runs + 1, stmt |-> NoStatement]
          /\ Stored # {} /\ UNCHANGED <<feed, lost>>
      BY <2>1 DEF RerollStart
    <3>2. \A p \in Stored : probe[p].at \in Bucket
      <4>1. SUFFICES ASSUME NEW p \in Stored PROVE probe[p].at \in Bucket
        OBVIOUS
      <4>2. probe[p].at \in Nat /\ probe[p].at <= now /\ now <= MaxTime /\ now \in Nat
        BY DEF RollInv, StoreInv, StoreTypeOK, Stored, ProbeRow, ClocksAgree
      <4>3. QED
        BY <4>2, TimeAssumption DEF Bucket
    <3>3. times \in SUBSET Nat /\ times # {}
      BY <3>1, <3>2, TimeAssumption DEF Bucket
    <3>4. PICK t \in times : \A b \in times : t <= b
      <4> HIDE DEF times
      <4> QED BY <3>3, HasLeast
    <3>5. first \in Bucket
      BY <3>2, <3>4
    <3>6. (first \div DayLen) * DayLen \in Nat /\ now \in Nat /\ reroll.runs + 1 \in Nat
      <4> HIDE DEF first
      <4>1. first \in Nat /\ DayLen \in Nat /\ DayLen > 0
        BY <3>5, TimeAssumption, RollAssumption DEF Bucket
      <4>2. first \div DayLen \in Nat
        BY <4>1
      <4>3. \A a, b \in Nat : a * b \in Nat
        OBVIOUS
      <4>4. QED
        BY <1>3, <4>1, <4>2, <4>3 DEF RollInv, StoreInv, StoreTypeOK
    <3>7. QED
      <4> HIDE DEF first
      <4> QED BY <1>3, <3>1, <3>6, NoStatementFacts
  <2>2. CASE RerollDay
    <3> DEFINE keys == InRange(Deployment, reroll.from, reroll.from + DayLen - 1)
    <3>1. /\ reroll' = IF reroll.from <= reroll.until
                       THEN [reroll EXCEPT !.pc = "write", !.stmt = Snapshot(keys)]
                       ELSE [RerollOff EXCEPT !.runs = reroll.runs]
          /\ UNCHANGED <<feed, lost>>
      BY <2>2 DEF RerollDay
    <3>2. StatementOK(Snapshot(keys)) /\ Backed(Snapshot(keys))
      <4>1. keys \in SUBSET Key
        BY DEF InRange
      <4>2. QED
        <5> HIDE DEF keys
        <5> QED BY <4>1, SnapshotFacts
    <3>3. QED
      <4> HIDE DEF keys
      <4> QED BY <1>3, <3>1, <3>2, NoStatementFacts DEF RerollOff
  <2>3. CASE RerollCommit
    <3>1. /\ reroll' = [reroll EXCEPT !.pc = "day", !.from = @ + DayLen, !.stmt = NoStatement]
          /\ feed' = Commit(reroll.stmt)
          /\ lost' = lost \cup {k \in reroll.stmt.keys : Commit(reroll.stmt)[k] # Recompute(k)}
      BY <2>3 DEF RerollCommit
    <3>2. /\ Commit(reroll.stmt) \in [Key -> Row]
          /\ \A k \in Key : Commit(reroll.stmt)[k] # NoRow => HasProbes(k)
      BY <1>3, CommitFacts
    <3>3. \A k \in Key : k \notin reroll.stmt.keys => Commit(reroll.stmt)[k] = feed[k]
      BY DEF Commit
    <3>4. reroll.stmt.keys \subseteq Key
      BY <1>3 DEF StatementOK
    <3>5. reroll.from + DayLen \in Nat
      BY <1>3, RollAssumption
    <3>6. QED
      BY <1>3, <3>1, <3>2, <3>3, <3>4, <3>5, NoStatementFacts
  <2>4. CASE RerollFail
    BY <1>3, <2>4, NoStatementFacts DEF RerollFail, RerollOff
  <2>5. QED
    BY <2>1, <2>2, <2>3, <2>4 DEF RerollStep
<1>5. RollTypeOK'
  <2>1. StatementOK(loop.stmt)' /\ StatementOK(reroll.stmt)'
    BY <1>1, <1>4 DEF RollInv, RollTypeOK, StatementOK
  <2>2. QED
    BY <1>1, <1>2, <1>4, <2>1 DEF RollInv, RollTypeOK
<1>6. FeedBacked'
  BY <1>1, <1>2, <1>4 DEF RollInv, FeedBacked, Backed
<1>7. DetectorInStep' /\ LoopInStep'
  BY <1>1, <1>4 DEF RollInv, DetectorInStep, LoopInStep, WindowKeys, RequestKeys, InRange, Serving
<1>8. \A k \in Key : Recompute(k)' = Recompute(k)
  BY <1>1, SameTablesSameRow DEF storeVars
<1>9. FiniteTables'
  BY <1>1, <1>2 DEF RollInv, FiniteTables
<1>10. QED
  BY <1>2, <1>4, <1>5, <1>6, <1>7, <1>8, <1>9 DEF RollShape

-----------------------------------------------------------------------------
(* The rollup loop.                                                        *)

\* A snapshot is settled at the moment it is taken, whatever is still to come.
LEMMA FreshSnapshotSettled ==
    ASSUME NEW keys, NEW t, NEW reqs
    PROVE  StatementSettled(Snapshot(keys), t, reqs)
BY DEF StatementSettled, Snapshot, Settled

\* What a commit leaves of its own keys is settled when the statement was, and no
\* key that is put right stays lost.
LEMMA CommitSettled ==
    ASSUME RollInv, NEW s, s.keys \subseteq Key, NEW t, NEW reqs,
           StatementSettled(s, t, reqs), NEW k \in s.keys
    PROVE  \/ Commit(s)[k] = Recompute(k)
           \/ OwedAfter(k, t, reqs)
           \/ k \in StillLost(s)
<1>1. Settled(Commit(s)[k], k, t, reqs)
  <2>1. /\ Settled(s.rows[k], k, t, reqs)
        /\ k \notin s.seen => feed[k] = NoRow \/ Settled(feed[k], k, t, reqs)
    BY DEF StatementSettled
  <2>2. Commit(s)[k] = IF s.rows[k] # NoRow \/ k \in s.seen THEN s.rows[k] ELSE feed[k]
    BY DEF Commit
  <2>3. QED
    BY <2>1, <2>2
<1>2. QED
  BY <1>1 DEF Settled, StillLost

\* What a commit does not touch is as it was, lost or not.
LEMMA CommitElsewhere ==
    ASSUME RollInv, NEW s, NEW k \in Key, k \notin s.keys
    PROVE  \/ Commit(s)[k] = Recompute(k)
           \/ Owed(k)
           \/ k \in StillLost(s)
<1>1. Commit(s)[k] = feed[k]
  BY DEF Commit
<1>2. QED
  BY <1>1 DEF RollInv, FeedAccountedUnlessLost, StillLost

\* What a step of the loop leaves alone.
LEMMA LoopLeaves ==
    ASSUME RollInv, UNCHANGED <<now, storeVars, allocMap, nondet, detector, reroll, crashes>>
    PROVE  /\ StoreTypeOK' /\ IsFiniteSet(Stored)' /\ JobRowStored' /\ DetectorInStep'
           /\ \A k \in Key : Recompute(k)' = Recompute(k)
           /\ Unasked' = Unasked
           /\ \A k : HasProbes(k)' = HasProbes(k)
           /\ StatementOK(reroll.stmt)' /\ Backed(reroll.stmt)'
<1>1. UNCHANGED <<now, probe, observation, divergence, job, allocMap, nondet, detector, reroll>>
  BY DEF storeVars
<1>2. Stored' = Stored /\ \A k : HasProbes(k)' = HasProbes(k)
  BY <1>1 DEF Stored, HasProbes
<1>3. \A k \in Key : Recompute(k)' = Recompute(k)
  BY <1>1, SameTablesSameRow
<1>4. Unasked' = Unasked
  BY <1>1 DEF Unasked, Changed
<1>5. QED
  BY <1>1, <1>2, <1>3, <1>4 DEF RollInv, RollTypeOK, StoreTypeOK, FiniteTables, JobRowStored,
     DetectorInStep, FeedBacked, Backed, StatementOK

\* A step of the loop that only moves its own progress keeps the rest, if the new
\* progress is well formed and its statement settled.
LEMMA LoopMoves ==
    ASSUME RollInv,
           UNCHANGED <<now, storeVars, allocMap, nondet, requests, feed, detector, reroll,
                       rolledAt, crashes, lost>>,
           loop' = [pc |-> loop'.pc, todo |-> loop'.todo, stmt |-> loop'.stmt],
           loop'.pc \in {"idle", "window", "select", "drain", "roll", "served"},
           loop'.todo \subseteq requests, StatementOK(loop'.stmt), Backed(loop'.stmt)
    PROVE  /\ RollTypeOK' /\ FiniteTables' /\ ClocksAgree' /\ JobRowStored' /\ FeedBacked'
           /\ DetectorInStep' /\ FeedAccountedUnlessLost'
<1>1. /\ StoreTypeOK' /\ IsFiniteSet(Stored)' /\ JobRowStored' /\ DetectorInStep'
      /\ \A k \in Key : Recompute(k)' = Recompute(k)
      /\ Unasked' = Unasked
      /\ \A k : HasProbes(k)' = HasProbes(k)
      /\ StatementOK(reroll.stmt)' /\ Backed(reroll.stmt)'
  BY LoopLeaves
<1>2. ClocksAgree'
  BY QuietStore
<1>3. FeedAccountedUnlessLost'
  BY <1>1 DEF RollInv, FeedAccountedUnlessLost, Owed, RequestKeys, InRange
<1>4. FeedBacked'
  BY <1>1 DEF RollInv, FeedBacked, Backed
<1>5. StatementOK(loop.stmt)'
  BY DEF StatementOK
<1>6. QED
  BY <1>1, <1>2, <1>3, <1>4, <1>5 DEF RollInv, RollTypeOK, FiniteTables

\* Everything of the invariant but the store's own part.
RollRest == RollShape /\ LoopSettled /\ FeedAccountedUnlessLost

\* The steps that read: nothing but the loop's own progress changes.
LEMMA LoopReads ==
    ASSUME RollInv, RollWindow \/ SelectRequests \/ RollRequest \/ LoopFail
    PROVE  RollRest'
<1>1. UNCHANGED <<now, storeVars, allocMap, nondet, requests, feed, detector, reroll,
                  rolledAt, crashes, lost>>
  BY DEF RollWindow, SelectRequests, RollRequest, LoopFail
<1>2. /\ \A k \in Key : Recompute(k)' = Recompute(k)
      /\ Unasked' = Unasked
  BY <1>1, LoopLeaves
<1>3. /\ loop = [pc |-> loop.pc, todo |-> loop.todo, stmt |-> loop.stmt]
      /\ loop.todo \subseteq requests /\ now \in Nat
      /\ loop.pc \in {"drain", "roll", "served"} => loop.todo # {}
      /\ reroll = [pc |-> reroll.pc, from |-> reroll.from, until |-> reroll.until,
                   runs |-> reroll.runs, stmt |-> reroll.stmt]
  BY DEF RollInv, RollTypeOK, LoopInStep, StoreTypeOK
<1>4. CASE RollWindow
  <2> DEFINE keys == WindowKeys(now)
             snap == Snapshot(keys)
  <2>1. /\ loop' = [pc |-> loop'.pc, todo |-> loop'.todo, stmt |-> loop'.stmt]
        /\ loop'.pc = "window" /\ loop'.todo = {} /\ loop'.stmt = snap
    BY <1>4 DEF RollWindow
  <2>2. keys \in SUBSET Key
    BY DEF WindowKeys, InRange
  <2>3. StatementOK(snap) /\ Backed(snap)
    BY <2>2, SnapshotFacts
  <2>4. snap.at = now /\ snap.keys = keys
    BY DEF Snapshot
  <2>5. StatementSettled(snap, now, requests)
    BY FreshSnapshotSettled
  <2>6. keys = WindowKeys(now) /\ WindowKeys(now)' = WindowKeys(now)
    BY <1>1 DEF WindowKeys, InRange
  <2> HIDE DEF snap, keys
  <2>7. /\ RollTypeOK' /\ FiniteTables' /\ ClocksAgree' /\ JobRowStored' /\ FeedBacked'
        /\ DetectorInStep' /\ FeedAccountedUnlessLost'
    BY <1>1, <2>1, <2>3, LoopMoves
  <2>8. LoopInStep'
    <3>1. WindowKeys(loop.stmt.at)' = WindowKeys(now)
      BY <2>1, <2>4 DEF WindowKeys, InRange
    <3>2. rolledAt <= now
      BY DEF RollInv, ClocksAgree
    <3>3. QED
      BY <1>1, <1>3, <2>1, <2>4, <2>6, <3>1, <3>2 DEF LoopInStep
  <2>9. LoopSettled'
    <3>1. StatementSettled(loop.stmt, loop.stmt.at, requests)'
      BY <1>1, <1>2, <2>1, <2>2, <2>4, <2>5
         DEF StatementSettled, Settled, OwedAfter, RequestKeys, InRange
    <3>2. QED
      BY <2>1, <3>1 DEF LoopSettled
  <2>10. QED
    BY <2>7, <2>8, <2>9 DEF RollRest, RollShape
<1>5. CASE RollRequest
  <2>1. loop.pc = "drain" /\ loop' = [loop EXCEPT !.pc = "roll", !.stmt = Snapshot(RequestKeys(Serving))]
    BY <1>5 DEF RollRequest
  <2>2. RequestKeys(Serving) \in SUBSET Key
    BY DEF RequestKeys, InRange
  <2>3. StatementOK(Snapshot(RequestKeys(Serving))) /\ Backed(Snapshot(RequestKeys(Serving)))
    BY <2>2, SnapshotFacts
  <2>4. StatementSettled(Snapshot(RequestKeys(Serving)), rolledAt, requests \ {Serving})
    BY FreshSnapshotSettled
  <2> DEFINE snap == Snapshot(RequestKeys(Serving))
  <2>5. loop'.pc = "roll" /\ loop'.todo = loop.todo /\ loop'.stmt = snap
        /\ loop' = [pc |-> loop'.pc, todo |-> loop'.todo, stmt |-> loop'.stmt]
    BY <1>3, <2>1
  <2>6. snap.keys = RequestKeys(Serving)
    BY DEF Snapshot
  <2> HIDE DEF snap
  <2>7. /\ RollTypeOK' /\ FiniteTables' /\ ClocksAgree' /\ JobRowStored' /\ FeedBacked'
        /\ DetectorInStep' /\ FeedAccountedUnlessLost'
    BY <1>1, <1>3, <2>3, <2>5, LoopMoves DEF snap
  <2>8. Serving' = Serving
    BY <2>5 DEF Serving
  <2>9. LoopInStep'
    BY <1>1, <1>3, <2>1, <2>5, <2>6, <2>8 DEF LoopInStep, RequestKeys, InRange
  <2>10. LoopSettled'
    <3>1. StatementSettled(snap, rolledAt, requests \ {Serving})
      BY <2>4 DEF snap
    <3>2. StatementSettled(loop.stmt, rolledAt, requests \ {Serving})'
      BY <1>1, <1>2, <2>2, <2>5, <2>6, <2>8, <3>1
         DEF StatementSettled, Settled, OwedAfter, RequestKeys, InRange
    <3>3. QED
      BY <2>5, <3>2 DEF LoopSettled
  <2>11. QED
    BY <2>7, <2>9, <2>10 DEF RollRest, RollShape
<1>6. CASE SelectRequests \/ LoopFail
  <2>1. \/ loop' = LoopIdle
        \/ requests # {} /\ loop' = [pc |-> "drain", todo |-> requests, stmt |-> NoStatement]
    BY <1>6 DEF SelectRequests, LoopFail
  <2>2. /\ loop' = [pc |-> loop'.pc, todo |-> loop'.todo, stmt |-> loop'.stmt]
        /\ loop'.pc \in {"idle", "drain"}
        /\ loop'.todo \subseteq requests /\ (loop'.pc = "drain" => loop'.todo # {})
        /\ loop'.stmt = NoStatement
    BY <2>1 DEF LoopIdle
  <2>3. /\ RollTypeOK' /\ FiniteTables' /\ ClocksAgree' /\ JobRowStored' /\ FeedBacked'
        /\ DetectorInStep' /\ FeedAccountedUnlessLost'
    BY <1>1, <2>2, LoopMoves, NoStatementFacts
  <2>4. LoopInStep' /\ LoopSettled'
    BY <1>1, <1>3, <2>2 DEF LoopInStep, LoopSettled
  <2>5. QED
    BY <2>3, <2>4 DEF RollRest, RollShape
<1>7. QED
  BY <1>4, <1>5, <1>6

\* The end of a window roll.  Its keys were settled given the next window and the
\* requests; a key outside the window cannot have been owed to a window before.
LEMMA CommitWindowKeeps ==
    ASSUME RollInv, CommitWindow
    PROVE  RollRest'
<1> DEFINE s == loop.stmt
<1>1. /\ UNCHANGED <<now, storeVars, allocMap, nondet, requests, detector, reroll, crashes>>
      /\ loop.pc = "window"
      /\ feed' = Commit(s) /\ lost' = StillLost(s) /\ rolledAt' = s.at
      /\ loop' = [pc |-> "select", todo |-> {}, stmt |-> NoStatement]
  BY DEF CommitWindow
<1>2. /\ StoreTypeOK' /\ IsFiniteSet(Stored)' /\ JobRowStored' /\ DetectorInStep'
      /\ \A k \in Key : Recompute(k)' = Recompute(k)
      /\ Unasked' = Unasked
      /\ \A k : HasProbes(k)' = HasProbes(k)
      /\ StatementOK(reroll.stmt)' /\ Backed(reroll.stmt)'
  BY <1>1, LoopLeaves
<1>3. /\ StatementOK(s) /\ Backed(s) /\ s.keys \subseteq Key
      /\ StatementSettled(s, s.at, requests)
      /\ s.keys = WindowKeys(s.at)
      /\ s.at \in Nat /\ rolledAt \in Nat /\ now \in Nat
      /\ rolledAt <= s.at /\ s.at <= now /\ now <= rolledAt + MaxGap
      /\ reroll = [pc |-> reroll.pc, from |-> reroll.from, until |-> reroll.until,
                   runs |-> reroll.runs, stmt |-> reroll.stmt]
  BY <1>1 DEF RollInv, RollTypeOK, StoreTypeOK, StatementOK, FeedBacked, LoopSettled, LoopInStep,
              ClocksAgree
<1> HIDE DEF s
<1>4. Commit(s) \in [Key -> Row] /\ \A k \in Key : Commit(s)[k] # NoRow => HasProbes(k)
  BY <1>3, CommitFacts
<1>5. ClocksAgree'
  <2>1. Stored' = Stored /\ UNCHANGED <<probe, job, now>>
    BY <1>1 DEF Stored, storeVars
  <2>2. s.at <= now /\ now <= s.at + MaxGap
    BY <1>3, RollAssumption
  <2>3. QED
    BY <1>1, <2>1, <2>2 DEF RollInv, ClocksAgree
<1>6. FeedAccountedUnlessLost'
  <2>1. ASSUME NEW k \in Key
        PROVE  \/ Commit(s)[k] = Recompute(k)
               \/ k.at >= s.at + MaxGap - Lookback
               \/ \E r \in requests : k \in RequestKeys(r)
               \/ k.dep \in Unasked
               \/ k \in StillLost(s)
    <3>1. CASE k \in s.keys
      BY <1>3, <3>1, CommitSettled DEF OwedAfter
    <3>2. CASE k \notin s.keys
      <4>1. k.at < s.at - Lookback
        <5>1. k.at \in Nat /\ k.at <= MaxTime /\ k.dep \in Deployment
          BY TimeAssumption DEF Key, Bucket
        <5>2. QED
          BY <1>3, <3>2, <5>1, RollAssumption DEF WindowKeys, InRange
      <4>2. ~(k.at >= rolledAt + MaxGap - Lookback)
        <5>1. k.at \in Nat /\ MaxGap \in Nat /\ Lookback \in Nat
          BY RollAssumption, TimeAssumption DEF Key, Bucket
        <5>2. QED
          BY <1>3, <4>1, <5>1
      <4>3. QED
        BY <3>2, <4>2, CommitElsewhere DEF Owed
    <3>3. QED
      BY <3>1, <3>2
  <2>2. QED
    BY <1>1, <1>2, <2>1 DEF FeedAccountedUnlessLost, Owed, RequestKeys, InRange
<1>7. RollTypeOK'
  <2>1. lost' \subseteq Key
    BY <1>1 DEF StillLost, RollInv, RollTypeOK
  <2>2. StatementOK(loop.stmt)'
    BY <1>1, NoStatementFacts DEF StatementOK
  <2>3. loop'.pc = "select" /\ loop'.todo = {}
    BY <1>1
  <2>4. QED
    BY <1>1, <1>2, <1>3, <1>4, <2>1, <2>2, <2>3 DEF RollInv, RollTypeOK
<1>8. FeedBacked'
  BY <1>1, <1>2, <1>4, NoStatementFacts DEF FeedBacked, Backed
<1>9. LoopInStep' /\ LoopSettled'
  BY <1>1, <1>3 DEF LoopInStep, LoopSettled
<1>10. FiniteTables'
  BY <1>1, <1>2 DEF RollInv, FiniteTables
<1>11. QED
  BY <1>2, <1>5, <1>6, <1>7, <1>8, <1>9, <1>10 DEF RollRest, RollShape

\* The end of a request's roll: its keys are settled even without that request.
LEMMA CommitRequestKeeps ==
    ASSUME RollInv, CommitRequest
    PROVE  RollRest'
<1> DEFINE s == loop.stmt
<1>1. /\ UNCHANGED <<now, storeVars, allocMap, nondet, requests, detector, reroll,
                     rolledAt, crashes>>
      /\ loop.pc = "roll"
      /\ feed' = Commit(s) /\ lost' = StillLost(s)
      /\ loop' = [loop EXCEPT !.pc = "served", !.stmt = NoStatement]
  BY DEF CommitRequest
<1>2. /\ StoreTypeOK' /\ IsFiniteSet(Stored)' /\ JobRowStored' /\ DetectorInStep'
      /\ \A k \in Key : Recompute(k)' = Recompute(k)
      /\ Unasked' = Unasked
      /\ \A k : HasProbes(k)' = HasProbes(k)
      /\ StatementOK(reroll.stmt)' /\ Backed(reroll.stmt)'
  BY <1>1, LoopLeaves
<1>3. /\ StatementOK(s) /\ Backed(s) /\ s.keys \subseteq Key
      /\ StatementSettled(s, rolledAt, requests \ {Serving})
      /\ s.keys = RequestKeys(Serving)
      /\ loop.todo \subseteq requests /\ loop.todo # {}
      /\ loop = [pc |-> loop.pc, todo |-> loop.todo, stmt |-> loop.stmt]
      /\ reroll = [pc |-> reroll.pc, from |-> reroll.from, until |-> reroll.until,
                   runs |-> reroll.runs, stmt |-> reroll.stmt]
  BY <1>1 DEF RollInv, RollTypeOK, StatementOK, FeedBacked, LoopSettled, LoopInStep
<1>4. /\ loop' = [pc |-> loop'.pc, todo |-> loop'.todo, stmt |-> loop'.stmt]
      /\ loop'.pc = "served" /\ loop'.todo = loop.todo /\ loop'.stmt = NoStatement
  BY <1>1, <1>3
<1>5. Serving' = Serving
  BY <1>4 DEF Serving
<1> HIDE DEF s
<1>6. Commit(s) \in [Key -> Row] /\ \A k \in Key : Commit(s)[k] # NoRow => HasProbes(k)
  BY <1>3, CommitFacts
<1>7. \A k \in s.keys : \/ Commit(s)[k] = Recompute(k)
                        \/ OwedAfter(k, rolledAt, requests \ {Serving})
                        \/ k \in StillLost(s)
  BY <1>3, CommitSettled
<1>8. FeedAccountedUnlessLost'
  <2>1. \A k \in Key : Commit(s)[k] = Recompute(k) \/ Owed(k) \/ k \in StillLost(s)
    BY <1>7, CommitElsewhere DEF OwedAfter, Owed
  <2>2. QED
    BY <1>1, <1>2, <2>1 DEF FeedAccountedUnlessLost, Owed, RequestKeys, InRange
<1>9. LoopSettled'
  BY <1>1, <1>2, <1>3, <1>4, <1>5, <1>7 DEF LoopSettled, Settled, OwedAfter, RequestKeys, InRange
<1>10. LoopInStep'
  BY <1>1, <1>3, <1>4 DEF LoopInStep
<1>11. RollTypeOK'
  <2>1. lost' \subseteq Key
    BY <1>1 DEF StillLost, RollInv, RollTypeOK
  <2>2. StatementOK(loop.stmt)'
    BY <1>4, NoStatementFacts DEF StatementOK
  <2>3. QED
    BY <1>1, <1>2, <1>3, <1>4, <1>6, <2>1, <2>2 DEF RollInv, RollTypeOK
<1>12. FeedBacked'
  BY <1>1, <1>2, <1>4, <1>6, NoStatementFacts DEF FeedBacked, Backed
<1>13. FiniteTables' /\ ClocksAgree'
  BY <1>1, <1>2, QuietStore DEF RollInv, FiniteTables
<1>14. QED
  BY <1>2, <1>8, <1>9, <1>10, <1>11, <1>12, <1>13 DEF RollRest, RollShape

\* A served request is deleted: nothing was owed to it alone.
LEMMA DeleteRequestKeeps ==
    ASSUME RollInv, DeleteRequest
    PROVE  RollRest'
<1>1. /\ UNCHANGED <<now, storeVars, allocMap, nondet, feed, detector, reroll,
                     rolledAt, crashes, lost>>
      /\ loop.pc = "served"
      /\ requests' = requests \ {Serving}
      /\ loop' = IF loop.todo = {Serving} THEN LoopIdle
                 ELSE [loop EXCEPT !.pc = "drain", !.todo = @ \ {Serving}]
  BY DEF DeleteRequest
<1>2. /\ StoreTypeOK' /\ IsFiniteSet(Stored)' /\ JobRowStored' /\ DetectorInStep'
      /\ \A k \in Key : Recompute(k)' = Recompute(k)
      /\ Unasked' = Unasked
      /\ \A k : HasProbes(k)' = HasProbes(k)
      /\ StatementOK(reroll.stmt)' /\ Backed(reroll.stmt)'
  BY <1>1, LoopLeaves
<1>3. /\ \A k \in RequestKeys(Serving) : Settled(feed[k], k, rolledAt, requests \ {Serving})
      /\ loop.todo \subseteq requests /\ loop.todo # {}
      /\ StatementOK(loop.stmt) /\ Backed(loop.stmt)
      /\ loop = [pc |-> loop.pc, todo |-> loop.todo, stmt |-> loop.stmt]
      /\ reroll = [pc |-> reroll.pc, from |-> reroll.from, until |-> reroll.until,
                   runs |-> reroll.runs, stmt |-> reroll.stmt]
  BY <1>1 DEF RollInv, RollTypeOK, FeedBacked, LoopSettled, LoopInStep
<1>4. /\ loop' = [pc |-> loop'.pc, todo |-> loop'.todo, stmt |-> loop'.stmt]
      /\ loop'.pc \in {"idle", "drain"}
      /\ loop'.todo \subseteq requests'
      /\ loop'.pc = "drain" => loop'.todo # {}
      /\ StatementOK(loop'.stmt) /\ Backed(loop'.stmt)
  <2>1. CASE loop.todo = {Serving}
    BY <1>1, <2>1, NoStatementFacts DEF LoopIdle
  <2>2. CASE loop.todo # {Serving}
    BY <1>1, <1>3, <2>2
  <2>3. QED
    BY <2>1, <2>2
<1>5. FeedAccountedUnlessLost'
  <2>1. ASSUME NEW k \in Key
        PROVE  \/ feed[k] = Recompute(k)
               \/ k.at >= rolledAt + MaxGap - Lookback
               \/ \E r \in requests \ {Serving} : k \in RequestKeys(r)
               \/ k.dep \in Unasked
               \/ k \in lost
    BY <1>3 DEF RollInv, FeedAccountedUnlessLost, Owed, Settled, OwedAfter
  <2>2. QED
    BY <1>1, <1>2, <2>1 DEF FeedAccountedUnlessLost, Owed, RequestKeys, InRange
<1>6. LoopInStep' /\ LoopSettled'
  BY <1>1, <1>3, <1>4 DEF LoopInStep, LoopSettled
<1>7. FiniteTables' /\ requests' \subseteq Request
  <2>1. IsFiniteSet(requests \ {Serving})
    BY FS_RemoveElement DEF RollInv, FiniteTables
  <2>2. QED
    BY <1>1, <1>2, <2>1 DEF RollInv, RollTypeOK, FiniteTables
<1>8. RollTypeOK'
  <2>1. StatementOK(loop.stmt)'
    BY <1>4 DEF StatementOK
  <2>2. QED
    BY <1>1, <1>2, <1>4, <1>7, <2>1 DEF RollInv, RollTypeOK
<1>9. FeedBacked'
  BY <1>1, <1>2, <1>4 DEF RollInv, FeedBacked, Backed
<1>10. ClocksAgree'
  BY <1>1, QuietStore
<1>11. QED
  BY <1>2, <1>5, <1>6, <1>7, <1>8, <1>9, <1>10 DEF RollRest, RollShape

-----------------------------------------------------------------------------
(* Every step keeps the invariant.                                         *)

\* Empty tables, idle processes: every bucket is as empty as its recomputation.
LEMMA RollInitInv == RollInit => RollInv
<1> SUFFICES ASSUME RollInit PROVE RollInv
  OBVIOUS
<1>1. StoreInv /\ StoreInit
  BY StoreInitInv DEF RollInit
<1>2. Stored = {} /\ \A k \in Key : ~HasProbes(k)
  <2>1. \A p \in ProbeId : probe[p] = NoProbe
    BY <1>1 DEF StoreInit
  <2>2. \A k \in Key : [dep |-> k.dep, at |-> k.at] # NoProbe
    BY TimeAssumption, NoProbeAssumption DEF Key, Bucket, ProbeRow
  <2>3. QED
    BY <2>1, <2>2 DEF Stored, HasProbes
<1>3. FiniteTables
  BY <1>2, FS_EmptySet DEF RollInit, FiniteTables
<1>4. NoRow \in Row
  BY DEF NoRow, Row
<1>5. RollTypeOK
  <2>1. allocMap \in [DOMAIN allocMap -> Indexer] /\ DOMAIN allocMap \subseteq DOMAIN Owner
    <3>1. DOMAIN allocMap = {}
      BY DEF RollInit
    <3>2. QED
      BY <3>1 DEF RollInit
  <2>2. QED
    BY <1>1, <1>4, <2>1, NoStatementFacts
       DEF RollInit, RollTypeOK, StoreInv, DetectorIdle, Detector, LoopIdle, RerollOff
<1>6. ClocksAgree /\ JobRowStored
  BY <1>1, <1>2, TimeAssumption, RollAssumption DEF RollInit, StoreInit, ClocksAgree, JobRowStored
<1>7. FeedBacked /\ DetectorInStep /\ LoopInStep /\ LoopSettled
  BY NoStatementFacts DEF RollInit, FeedBacked, DetectorInStep, DetectorIdle, LoopInStep,
     LoopSettled, LoopIdle, RerollOff
<1>8. FeedAccountedUnlessLost
  BY <1>2, NoProbesNoRow DEF RollInit, FeedAccountedUnlessLost
<1>9. QED
  BY <1>1, <1>3, <1>5, <1>6, <1>7, <1>8 DEF RollInv

\* Every step of every process, every failure and every tick keeps the invariant.
LEMMA RollStepInv == RollInv /\ [Next]_vars => RollInv'
<1> SUFFICES ASSUME RollInv, [Next]_vars PROVE RollInv'
  OBVIOUS
<1>1. StoreInv'
  <2>1. [StoreNext]_<<now, storeVars>>
    BY NextKeepsStore DEF vars
  <2>2. QED
    BY <2>1, StoreStepInv DEF RollInv
<1>2. SUFFICES RollRest'
  BY <1>1 DEF RollInv, RollRest, RollShape
<1>3. CASE Scheduler
  <2>1. /\ \A k \in Key : ChangeAccounted(k)
        /\ requests' = requests /\ rolledAt' = rolledAt /\ loop' = loop /\ feed' = feed
    BY <1>3, SchedulerAccounted DEF Scheduler, rollVars
  <2>2. QED
    BY <1>3, <2>1, SchedulerShape, SettledWhileOthersWrite DEF RollRest
<1>4. CASE Advance
  <2>1. UNCHANGED rollVars /\ UNCHANGED storeVars
    BY <1>4 DEF Advance, Tick
  <2>2. /\ UNCHANGED <<probe, observation, divergence, allocMap, nondet, detector, lost>>
        /\ requests' = requests /\ rolledAt' = rolledAt /\ loop' = loop /\ feed' = feed
    BY <2>1 DEF rollVars, storeVars
  <2>3. Unasked' = Unasked
    BY <2>2 DEF Unasked, Changed
  <2>4. \A k \in Key : ChangeAccounted(k)
    BY <2>2, <2>3, SameTablesSameRow DEF ChangeAccounted
  <2>5. QED
    BY <1>4, <2>2, <2>4, SchedulerShape, SettledWhileOthersWrite DEF RollRest
<1>5. ASSUME NEW key \in DOMAIN Owner, Resolve(key) PROVE RollRest'
  <2>1. /\ \A k \in Key : ChangeAccounted(k)
        /\ requests \subseteq requests' /\ rolledAt' = rolledAt /\ loop' = loop /\ feed' = feed
    BY <1>5, ResolveAccounted DEF Resolve, Ask
  <2>2. QED
    BY <1>5, <2>1, ResolveShape, SettledWhileOthersWrite DEF RollRest
<1>6. CASE DetectorStep
  <2>1. /\ \A k \in Key : ChangeAccounted(k)
        /\ requests \subseteq requests' /\ rolledAt' = rolledAt /\ loop' = loop /\ feed' = feed
    BY <1>6, DetectorAccounted DEF DetectorStep, DetectRead, DetectUpsert, DetectDelete,
                                   DetectRequest, Ask
  <2>2. QED
    BY <1>6, <2>1, DetectorShape, SettledWhileOthersWrite DEF RollRest
<1>7. CASE DetectFail \/ Crash
  <2>1. /\ \A k \in Key : ChangeAccounted(k)
        /\ requests' = requests /\ rolledAt' = rolledAt /\ feed' = feed
        /\ loop' = loop \/ loop' = LoopIdle
    BY <1>7, FailureAccounted DEF DetectFail, Crash
  <2>2. QED
    BY <1>7, <2>1, FailureShape, SettledWhileOthersWrite DEF RollRest
<1>8. CASE RerollStep
  <2>1. /\ \A k \in Key : ChangeAccounted(k)
        /\ requests' = requests /\ rolledAt' = rolledAt /\ loop' = loop
    BY <1>8, RerollAccounted DEF RerollStep, RerollStart, RerollDay, RerollCommit, RerollFail
  <2>2. QED
    BY <1>8, <2>1, RerollShape, SettledWhileOthersWrite DEF RollRest
<1>9. CASE LoopStep \/ LoopFail
  BY <1>9, LoopReads, CommitWindowKeeps, CommitRequestKeeps, DeleteRequestKeeps DEF LoopStep
<1>10. CASE UNCHANGED vars
  <2>1. /\ UNCHANGED <<now, storeVars, allocMap, nondet, requests, feed, detector, reroll,
                       rolledAt, crashes, lost>>
        /\ loop' = loop
    BY <1>10 DEF vars, rollVars
  <2>2. UNCHANGED <<probe, observation, divergence, allocMap, nondet, detector, lost>>
    BY <2>1 DEF storeVars
  <2>3. Unasked' = Unasked
    BY <2>2 DEF Unasked, Changed
  <2>4. \A k \in Key : ChangeAccounted(k)
    BY <2>2, <2>3, SameTablesSameRow DEF ChangeAccounted
  <2>5. LoopSettled' /\ FeedAccountedUnlessLost'
    BY <2>1, <2>4, SettledWhileOthersWrite
  <2>6. /\ loop' = [pc |-> loop'.pc, todo |-> loop'.todo, stmt |-> loop'.stmt]
        /\ loop'.pc \in {"idle", "window", "select", "drain", "roll", "served"}
        /\ loop'.todo \subseteq requests /\ StatementOK(loop'.stmt) /\ Backed(loop'.stmt)
    BY <2>1 DEF RollInv, RollTypeOK, LoopInStep, FeedBacked
  <2>7. /\ RollTypeOK' /\ FiniteTables' /\ ClocksAgree' /\ JobRowStored' /\ FeedBacked'
        /\ DetectorInStep'
    BY <2>1, <2>6, LoopMoves
  <2>8. LoopInStep'
    BY <2>1 DEF RollInv, LoopInStep, WindowKeys, RequestKeys, InRange, Serving
  <2>9. QED
    BY <2>5, <2>7, <2>8 DEF RollRest, RollShape
<1>11. QED
  BY <1>3, <1>4, <1>5, <1>6, <1>7, <1>8, <1>9, <1>10 DEF Next

-----------------------------------------------------------------------------
(* The theorems.                                                           *)

\* The rollup implements the store: the resolver, the detector, the loop and the
\* operator never write its tables, so what is proved of the store holds here.
THEOREM RollupKeepsStore == Spec => StoreSpec
<1>1. RollInit => StoreInit
  BY DEF RollInit
<1>2. [Next]_vars => [StoreNext]_<<now, storeVars>>
  BY NextKeepsStore DEF vars
<1>3. QED
  BY <1>1, <1>2, PTL DEF Spec, StoreSpec

\* The inductive invariant holds of the rollup.
THEOREM RollInvariant == Spec => []RollInv
<1>1. RollInit => RollInv
  BY RollInitInv
<1>2. RollInv /\ [Next]_vars => RollInv'
  BY RollStepInv
<1>3. QED
  BY <1>1, <1>2, PTL DEF Spec

\* The rollup's tables and the progress of its processes are well typed.
THEOREM RollTypeCorrect == Spec => []RollTypeOK
<1>1. RollInv => RollTypeOK
  BY DEF RollInv
<1>2. QED
  BY <1>1, RollInvariant, PTL

\* No published bucket contradicts the data unless a roll of it is owed or it is
\* one of the keys the code cannot recover: what migration 024 promises, for any
\* number of processes' interleavings, restarts and operator rerolls.
THEOREM FeedStaysAccounted == Spec => []FeedAccountedUnlessLost
<1>1. RollInv => FeedAccountedUnlessLost
  BY DEF RollInv
<1>2. QED
  BY <1>1, RollInvariant, PTL

\* No process but the loop itself changes what a bucket is computed from, or drops
\* what makes up for an earlier change, without leaving a request, a flag to be
\* asked for, or a lost key; the one change without a word is that of a probe the
\* next window covers.
THEOREM ChangesLeaveWord ==
    Spec => [][LoopStep \/ LoopFail \/ \A k \in Key : ChangeAccounted(k)]_vars
<1>1. ASSUME RollInv, Next, ~(LoopStep \/ LoopFail), NEW k \in Key
      PROVE  ChangeAccounted(k)
  <2>1. CASE Advance
    <3>1. UNCHANGED <<probe, observation, divergence, allocMap, nondet, detector, lost>>
      BY <2>1 DEF Advance, Tick, rollVars, storeVars
    <3>2. Unasked' = Unasked
      BY <3>1 DEF Unasked, Changed
    <3>3. QED
      BY <3>1, <3>2, SameTablesSameRow DEF ChangeAccounted
  <2>2. QED
    BY <1>1, <2>1, SchedulerAccounted, ResolveAccounted, DetectorAccounted, FailureAccounted,
       RerollAccounted DEF Next
<1>2. RollInv /\ [Next]_vars
         => [LoopStep \/ LoopFail \/ \A k \in Key : ChangeAccounted(k)]_vars
  BY <1>1
<1>3. QED
  BY <1>2, RollInvariant, PTL DEF Spec

\* Without restarts, failed cycles of the scorer and operator rerolls nothing is
\* ever lost, and the promise of migration 024 holds as it stands.
THEOREM FeedAccountedUndisturbed ==
    MaxCrashes = 0 /\ MaxRerolls = 0 => (Spec => []FeedAccounted)
<1> SUFFICES ASSUME MaxCrashes = 0, MaxRerolls = 0 PROVE Spec => []FeedAccounted
  OBVIOUS
<1> DEFINE NothingLost == lost = {} /\ reroll.pc = "off"
<1>1. RollInit => NothingLost
  BY DEF RollInit, RerollOff
<1>2. ASSUME RollInv, NothingLost, [Next]_vars PROVE NothingLost'
  <2>1. ~DetectFail /\ ~Crash /\ ~RerollStep
    BY <1>2 DEF RollInv, RollTypeOK, DetectFail, Crash, RerollStep, RerollStart, RerollDay,
                RerollCommit, RerollFail
  <2>2. CASE DetectorStep
    BY <1>2, <2>2 DEF DetectorStep, DetectRead, DetectUpsert, DetectDelete, DetectRequest
  <2>3. CASE LoopStep \/ LoopFail
    BY <1>2, <2>3 DEF LoopStep, LoopFail, RollWindow, CommitWindow, SelectRequests, RollRequest,
                      CommitRequest, DeleteRequest, StillLost
  <2>4. CASE Scheduler \/ Advance \/ UNCHANGED vars \/ \E k \in DOMAIN Owner : Resolve(k)
    BY <1>2, <2>4 DEF Scheduler, Advance, Resolve, vars, rollVars
  <2>5. QED
    BY <1>2, <2>1, <2>2, <2>3, <2>4 DEF Next
<1>3. RollInv /\ NothingLost => FeedAccounted
  BY DEF RollInv, FeedAccountedUnlessLost, FeedAccounted
<1> HIDE DEF NothingLost
<1>4. RollInv /\ NothingLost /\ [Next]_vars => NothingLost'
  BY <1>2
<1>5. QED
  BY <1>1, <1>3, <1>4, RollInvariant, PTL DEF Spec
=============================================================================
