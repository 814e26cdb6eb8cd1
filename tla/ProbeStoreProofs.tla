-------------------------- MODULE ProbeStoreProofs --------------------------
(***************************************************************************)
(* Proofs about the probe store for every set of addresses, hashes,        *)
(* deployments and rounds: the tables are well typed, a divergence row     *)
(* describes exactly the answers stored with it, the answers judged wrong  *)
(* are always a minority, and a judged probe is never written again.       *)
(***************************************************************************)
EXTENDS ProbeStore, FiniteSetTheorems, TLAPS

\* No two observations of a set come from the same address.
OnePerAddress(obs) == \A x, y \in obs : x.addr = y.addr => x = y

\* A probe nobody has written has no rows in the other tables either.
Unwritten ==
    \A p \in ProbeId :
        probe[p] = NoProbe => observation[p] = {} /\ divergence[p] = NoCluster

\* What is stored and what is still to be stored of the probe in hand is the set
\* of answers its cluster was computed from, and no divergence row is there yet.
JobInHand ==
    job # Idle =>
        LET all == observation[job.id] \cup job.pending
        IN  /\ IsFiniteSet(job.pending)
            /\ OnePerAddress(all)
            /\ job.cluster \in ClusterResults(all)
            /\ divergence[job.id] = NoCluster
            /\ job.pc = "insert" <=> probe[job.id] = NoProbe

\* The inductive invariant.  ClusterDescribesAnswers alone is not inductive: that
\* InsertCluster finds every counted answer in the table needs JobInHand.
StoreInv ==
    /\ StoreTypeOK
    /\ \A p \in ProbeId : IsFiniteSet(observation[p])
    /\ Unwritten
    /\ JobInHand
    /\ ClusterDescribesAnswers

-----------------------------------------------------------------------------
(* Facts about the pure rules.                                             *)

\* dedup_by_address keeps finitely many observations, one per address.
LEMMA DedupFacts ==
    ASSUME NEW raw \in Rounds
    PROVE  /\ Dedup(raw) \subseteq Observation
           /\ IsFiniteSet(Dedup(raw))
           /\ OnePerAddress(Dedup(raw))
<1>1. raw \in Seq(Observation)
  BY RoundsAssumption
<1>2. Len(raw) \in Nat /\ DOMAIN raw = 1..Len(raw)
  BY <1>1
<1>3. Dedup(raw) \subseteq Observation
  BY <1>1, <1>2 DEF Dedup
<1>4. IsFiniteSet(Dedup(raw))
  <2>1. IsFiniteSet(1..Len(raw))
    BY <1>2, FS_Interval
  <2> DEFINE Kept == {j \in DOMAIN raw : Survives(raw, j)}
  <2>2. IsFiniteSet(Kept)
    BY <1>2, <2>1, FS_Subset
  <2> DEFINE f == [i \in Kept |-> raw[i]]
  <2>3. f \in Surjection(Kept, Dedup(raw))
    BY DEF Dedup, Surjection
  <2>4. QED
    BY <2>2, <2>3, FS_Surjection DEF ExistsSurjection
<1>5. OnePerAddress(Dedup(raw))
  <2>1. SUFFICES ASSUME NEW i \in DOMAIN raw, NEW j \in DOMAIN raw,
                        Survives(raw, i), Survives(raw, j), raw[i].addr = raw[j].addr
                 PROVE  raw[i] = raw[j]
    BY DEF OnePerAddress, Dedup
  <2>2. \A n \in DOMAIN raw : Rank(raw[n]) \in Int
    BY DEF Rank
  <2>3. i <= j /\ j <= i
    BY <2>1, <2>2, <1>2 DEF Survives
  <2>4. QED
    BY <2>3, <1>2
<1>6. QED
  BY <1>3, <1>4, <1>5

\* compute_clusters returns a well-typed row for every finite set of answers.
LEMMA ClusterTypes ==
    ASSUME NEW obs, IsFiniteSet(obs)
    PROVE  ClusterResults(obs) \subseteq ClusterRow
<1>1. ASSUME NEW h \in Hash
      PROVE  Cardinality(Support(obs, h)) \in Nat
  BY FS_Subset, FS_CardinalityType DEF Support
<1>2. QED
  BY <1>1 DEF ClusterResults, ClusterRow, NoCluster, LargestHashes

\* An answer that differs from a clear majority is one of a minority.
LEMMA MinorityFact ==
    ASSUME NEW obs, IsFiniteSet(obs), NEW c \in ClusterResults(obs),
           NEW o \in obs, Differs(o, obs, c)
    PROVE  2 * Cardinality({x \in obs : Differs(x, obs, c)})
               < Cardinality(Answered(obs))
<1> DEFINE Wrong == {x \in obs : Differs(x, obs, c)}
           Right == Support(obs, c.hash)
<1>1. IsFiniteSet(Answered(obs)) /\ Cardinality(Answered(obs)) \in Nat
  BY FS_Subset, FS_CardinalityType DEF Answered
<1>2. Answered(obs) # {}
  BY DEF Answered, Differs
<1>3. c.hash \in Hash /\ c.size = Cardinality(Right)
  BY <1>2 DEF ClusterResults, LargestHashes
<1>4. Right \subseteq Answered(obs) /\ Wrong \subseteq Answered(obs) /\ Right \cap Wrong = {}
  BY <1>3 DEF Support, Answered, Differs
<1>5. IsFiniteSet(Right) /\ IsFiniteSet(Wrong) /\ IsFiniteSet(Right \cup Wrong)
  BY <1>1, <1>4, FS_Subset, FS_Union
<1>6. Cardinality(Right \cup Wrong) = Cardinality(Right) + Cardinality(Wrong)
  <2>1. Cardinality(Right \cup Wrong)
           = Cardinality(Right) + Cardinality(Wrong) - Cardinality(Right \cap Wrong)
    BY <1>5, FS_Union
  <2>2. Cardinality(Right \cap Wrong) = 0
    BY <1>4, FS_EmptySet
  <2>3. QED
    BY <2>1, <2>2, <1>5, FS_CardinalityType
<1>7. Cardinality(Right \cup Wrong) <= Cardinality(Answered(obs))
  <2>1. (Right \cup Wrong) \subseteq Answered(obs)
    BY <1>4
  <2>2. QED
    BY <2>1, <1>1, FS_Subset
<1>8. 2 * Cardinality(Right) > Cardinality(Answered(obs))
  BY <1>3 DEF Differs, ClearMajority
<1>9. Cardinality(Right) \in Nat /\ Cardinality(Wrong) \in Nat
  BY <1>5, FS_CardinalityType
<1>10. QED
  BY <1>1, <1>6, <1>7, <1>8, <1>9
-----------------------------------------------------------------------------
(* Every step keeps the invariant.                                         *)

\* The tables are empty and nothing is in hand.
LEMMA StoreInitInv == StoreInit => StoreInv
<1> SUFFICES ASSUME StoreInit PROVE StoreInv
  OBVIOUS
<1>1. StoreTypeOK
  BY DEF StoreInit, StoreTypeOK, ClusterRow, NoCluster
<1>2. \A p \in ProbeId : IsFiniteSet(observation[p])
  BY FS_EmptySet DEF StoreInit
<1>3. QED
  BY <1>1, <1>2 DEF StoreInit, StoreInv, Unwritten, JobInHand, Idle,
                    ClusterDescribesAnswers

\* run_probe_round up to store_results: only the job changes.
LEMMA DispatchInv ==
    ASSUME StoreInv, NEW p \in ProbeId, NEW d \in Deployment, Dispatch(p, d)
    PROVE  StoreInv'
<1>0. PICK raw \in Rounds : \E c \in ClusterResults(Dedup(raw)) :
          job' = [pc |-> "insert", id |-> p, row |-> [dep |-> d, at |-> now],
                  pending |-> Dedup(raw), cluster |-> c]
  BY DEF Dispatch
<1>1. PICK c \in ClusterResults(Dedup(raw)) :
          job' = [pc |-> "insert", id |-> p, row |-> [dep |-> d, at |-> now],
                  pending |-> Dedup(raw), cluster |-> c]
  BY <1>0
<1>2. /\ Dedup(raw) \subseteq Observation
      /\ IsFiniteSet(Dedup(raw))
      /\ OnePerAddress(Dedup(raw))
  BY DedupFacts
<1>3. c \in ClusterRow
  BY <1>2, ClusterTypes
<1>4. UNCHANGED <<now, probe, observation, divergence>> /\ probe[p] = NoProbe
  BY DEF Dispatch
<1>5. StoreTypeOK'
  <2>1. job' \in Job
    BY <1>1, <1>2, <1>3 DEF Job, ProbeRow, StoreInv, StoreTypeOK
  <2>2. QED
    BY <2>1, <1>4 DEF StoreInv, StoreTypeOK
<1>6. JobInHand'
  <2>1. observation[p] = {} /\ divergence[p] = NoCluster
    BY <1>4 DEF StoreInv, Unwritten
  <2>2. observation[p] \cup Dedup(raw) = Dedup(raw)
    BY <2>1
  <2>3. QED
    BY <1>1, <1>2, <1>4, <2>1, <2>2 DEF JobInHand, OnePerAddress
<1>7. (\A q \in ProbeId : IsFiniteSet(observation'[q])) /\ Unwritten' /\ ClusterDescribesAnswers'
  BY <1>4 DEF StoreInv, Unwritten, ClusterDescribesAnswers
<1>8. QED
  BY <1>5, <1>6, <1>7 DEF StoreInv

\* The first INSERT of store_results.
LEMMA InsertProbeInv ==
    ASSUME StoreInv, InsertProbe
    PROVE  StoreInv'
<1>1. job \in Job /\ job # Idle
  BY DEF StoreInv, StoreTypeOK, InsertProbe, Idle
<1>2. /\ UNCHANGED <<now, observation, divergence>>
      /\ probe' = [probe EXCEPT ![job.id] = job.row]
      /\ job' = [job EXCEPT !.pc = "observe"]
  BY DEF InsertProbe
<1>3. StoreTypeOK'
  BY <1>1, <1>2 DEF StoreInv, StoreTypeOK, Job
<1>4. /\ job'.pc = "observe" /\ job'.id = job.id
      /\ job'.pending = job.pending /\ job'.cluster = job.cluster
  BY <1>1, <1>2 DEF Job
<1>5. JobInHand'
  <2>1. probe'[job.id] # NoProbe
    BY <1>1, <1>2, NoProbeAssumption DEF StoreInv, StoreTypeOK, Job
  <2>2. QED
    BY <1>1, <1>2, <1>4, <2>1 DEF StoreInv, JobInHand, OnePerAddress
<1>6. Unwritten'
  BY <1>1, <1>2, NoProbeAssumption DEF StoreInv, StoreTypeOK, Unwritten, Job
<1>7. (\A q \in ProbeId : IsFiniteSet(observation'[q])) /\ ClusterDescribesAnswers'
  BY <1>2 DEF StoreInv, ClusterDescribesAnswers
<1>8. QED
  BY <1>3, <1>5, <1>6, <1>7 DEF StoreInv

\* One INSERT INTO observation: what is stored and pending together is the same
\* set of answers as before, whether or not the row conflicted.
LEMMA InsertObservationInv ==
    ASSUME StoreInv, InsertObservation
    PROVE  StoreInv'
<1>1. job \in Job /\ job # Idle /\ job.pc = "observe" /\ job.id \in ProbeId
  BY DEF StoreInv, StoreTypeOK, InsertObservation, Idle, Job
<1>2. PICK o \in job.pending :
          /\ observation' = IF \E x \in observation[job.id] : x.addr = o.addr
                            THEN observation
                            ELSE [observation EXCEPT ![job.id] = @ \cup {o}]
          /\ job' = [job EXCEPT !.pending = @ \ {o}]
  BY DEF InsertObservation
<1>3. UNCHANGED <<now, probe, divergence>>
  BY DEF InsertObservation
<1>4. /\ job'.pc = "observe" /\ job'.id = job.id
      /\ job'.pending = job.pending \ {o} /\ job'.cluster = job.cluster
  BY <1>1, <1>2 DEF Job
<1>5. observation \in [ProbeId -> SUBSET Observation] /\ o \in Observation
  BY <1>1 DEF StoreInv, StoreTypeOK, Job
<1>6. observation' \in [ProbeId -> SUBSET Observation]
  BY <1>2, <1>5
<1>7. \A q \in ProbeId : q # job.id => observation'[q] = observation[q]
  BY <1>2, <1>5
<1>8. observation'[job.id] \cup job'.pending = observation[job.id] \cup job.pending
  <2>1. CASE \E x \in observation[job.id] : x.addr = o.addr
    <3>1. o \in observation[job.id]
      BY <2>1, <1>1 DEF StoreInv, JobInHand, OnePerAddress
    <3>2. QED
      BY <2>1, <3>1, <1>2, <1>4
  <2>2. CASE ~ \E x \in observation[job.id] : x.addr = o.addr
    BY <2>2, <1>1, <1>2, <1>4, <1>5
  <2>3. QED
    BY <2>1, <2>2
<1>9. StoreTypeOK'
  <2>1. job' \in Job
    BY <1>1, <1>2 DEF Job
  <2>2. QED
    BY <2>1, <1>3, <1>6 DEF StoreInv, StoreTypeOK
<1>10. IsFiniteSet(observation'[job.id]) /\ IsFiniteSet(job'.pending)
  <2>1. IsFiniteSet(observation[job.id] \cup {o})
    BY <1>1, FS_AddElement DEF StoreInv
  <2>2. IsFiniteSet(job.pending \ {o})
    BY <1>1, FS_RemoveElement DEF StoreInv, JobInHand
  <2>3. observation'[job.id] \in {observation[job.id], observation[job.id] \cup {o}}
    BY <1>1, <1>2, <1>5
  <2>4. QED
    BY <1>1, <1>4, <2>1, <2>2, <2>3 DEF StoreInv
<1>11. JobInHand'
  BY <1>1, <1>3, <1>4, <1>8, <1>10 DEF StoreInv, JobInHand, OnePerAddress
<1>12. \A q \in ProbeId : IsFiniteSet(observation'[q])
  BY <1>7, <1>10 DEF StoreInv
<1>13. divergence[job.id] = NoCluster
  BY <1>1 DEF StoreInv, JobInHand
<1>14. ClusterDescribesAnswers'
  BY <1>3, <1>7, <1>13 DEF StoreInv, ClusterDescribesAnswers
<1>15. Unwritten'
  <2>1. probe[job.id] # NoProbe
    BY <1>1 DEF StoreInv, JobInHand
  <2>2. QED
    BY <1>1, <1>3, <1>7, <2>1 DEF StoreInv, Unwritten
<1>16. QED
  BY <1>9, <1>11, <1>12, <1>14, <1>15 DEF StoreInv

\* The last INSERT of store_results: with nothing pending, the cluster was
\* computed from exactly the stored answers.
LEMMA InsertClusterInv ==
    ASSUME StoreInv, InsertCluster
    PROVE  StoreInv'
<1>1. /\ job \in Job /\ job # Idle /\ job.pc = "observe"
      /\ job.id \in ProbeId /\ job.pending = {} /\ job.cluster \in ClusterRow
  BY DEF StoreInv, StoreTypeOK, InsertCluster, Idle, Job
<1>2. /\ UNCHANGED <<now, probe, observation>>
      /\ job' = Idle
      /\ \/ divergence' = [divergence EXCEPT ![job.id] = job.cluster]
         \/ divergence' = divergence
  BY DEF InsertCluster
<1>3. job.cluster \in ClusterResults(observation[job.id])
  <2>1. observation[job.id] \cup job.pending = observation[job.id]
    BY <1>1
  <2>2. QED
    BY <1>1, <2>1 DEF StoreInv, JobInHand
<1>4. StoreTypeOK'
  BY <1>1, <1>2 DEF StoreInv, StoreTypeOK
<1>5. ClusterDescribesAnswers'
  BY <1>1, <1>2, <1>3 DEF StoreInv, StoreTypeOK, ClusterDescribesAnswers
<1>6. Unwritten'
  <2>1. probe[job.id] # NoProbe
    BY <1>1 DEF StoreInv, JobInHand
  <2>2. QED
    BY <1>1, <1>2, <2>1 DEF StoreInv, StoreTypeOK, Unwritten
<1>7. JobInHand' /\ \A q \in ProbeId : IsFiniteSet(observation'[q])
  BY <1>2 DEF StoreInv, JobInHand
<1>8. QED
  BY <1>4, <1>5, <1>6, <1>7 DEF StoreInv

\* An abandoned round leaves its rows and no divergence row.
LEMMA AbandonStoreInv ==
    ASSUME StoreInv, AbandonStore
    PROVE  StoreInv'
<1>1. UNCHANGED <<now, probe, observation, divergence>> /\ job' = Idle
  BY DEF AbandonStore
<1>2. QED
  BY <1>1 DEF StoreInv, StoreTypeOK, Unwritten, JobInHand, ClusterDescribesAnswers

\* The passing of time, and stuttering.
LEMMA StillInv ==
    ASSUME StoreInv, now' \in Nat, UNCHANGED storeVars
    PROVE  StoreInv'
BY DEF storeVars, StoreInv, StoreTypeOK, Unwritten, JobInHand, ClusterDescribesAnswers,
       OnePerAddress

\* Every statement of run_probe_round and store_results, every failure and every
\* tick of the clock keeps the invariant.
LEMMA StoreStepInv == StoreInv /\ [StoreNext]_<<now, storeVars>> => StoreInv'
<1> SUFFICES ASSUME StoreInv, [StoreNext]_<<now, storeVars>> PROVE StoreInv'
  OBVIOUS
<1>1. ASSUME NEW p \in ProbeId, NEW d \in Deployment, Dispatch(p, d) PROVE StoreInv'
  BY <1>1, DispatchInv
<1>2. CASE InsertProbe
  BY <1>2, InsertProbeInv
<1>3. CASE InsertObservation
  BY <1>3, InsertObservationInv
<1>4. CASE InsertCluster
  BY <1>4, InsertClusterInv
<1>5. CASE AbandonStore
  BY <1>5, AbandonStoreInv
<1>6. CASE Tick
  BY <1>6, StillInv DEF Tick, StoreInv, StoreTypeOK
<1>7. CASE UNCHANGED <<now, storeVars>>
  BY <1>7, StillInv DEF StoreInv, StoreTypeOK
<1>8. QED
  BY <1>1, <1>2, <1>3, <1>4, <1>5, <1>6, <1>7 DEF StoreNext, StoreStep

-----------------------------------------------------------------------------
(* The theorems.                                                           *)

\* The inductive invariant holds of the store on its own.
THEOREM StoreInvariant == StoreSpec => []StoreInv
<1>1. StoreInit => StoreInv
  BY StoreInitInv
<1>2. StoreInv /\ [StoreNext]_<<now, storeVars>> => StoreInv'
  BY StoreStepInv
<1>3. QED
  BY <1>1, <1>2, PTL DEF StoreSpec

\* The tables and the scheduler's progress stay well typed.
THEOREM StoreTypeCorrect == StoreSpec => []StoreTypeOK
<1>1. StoreInv => StoreTypeOK
  BY DEF StoreInv
<1>2. QED
  BY <1>1, StoreInvariant, PTL

\* A divergence row describes exactly the answers stored with it.
THEOREM ClustersDescribeAnswers == StoreSpec => []ClusterDescribesAnswers
<1>1. StoreInv => ClusterDescribesAnswers
  BY DEF StoreInv
<1>2. QED
  BY <1>1, StoreInvariant, PTL

\* At every point of every store, crash or failure, the answers judged wrong are
\* fewer than half of the probe's answers.
LEMMA FaultsFollow == StoreInv => FaultsAreAMinority
<1> SUFFICES ASSUME StoreInv, NEW p \in ProbeId,
                    NEW o \in observation[p], Differs(o, observation[p], divergence[p])
             PROVE  2 * Cardinality({x \in observation[p] :
                                       Differs(x, observation[p], divergence[p])})
                        < Cardinality(Answered(observation[p]))
  BY DEF FaultsAreAMinority
<1>1. IsFiniteSet(observation[p])
  BY DEF StoreInv
<1>2. Cardinality(Answered(observation[p])) \in Nat
  BY <1>1, FS_Subset, FS_CardinalityType DEF Answered
<1>3. divergence[p] # NoCluster
  BY <1>2 DEF Differs, ClearMajority, NoCluster
<1>4. divergence[p] \in ClusterResults(observation[p])
  BY <1>3 DEF StoreInv, ClusterDescribesAnswers
<1>5. QED
  BY <1>1, <1>4, MinorityFact

\* FaultsAreAMinority holds of the store: the fault rule of judged_probes never
\* names half of a probe's answers or more.
THEOREM FaultsAlwaysAMinority == StoreSpec => []FaultsAreAMinority
BY FaultsFollow, StoreInvariant, PTL

\* Only InsertProbe, InsertObservation and InsertCluster write a table, and the
\* probe in hand has no divergence row before the last of them.
LEMMA FrozenStep ==
    ASSUME StoreInv, StoreNext, NEW p \in ProbeId, divergence[p] # NoCluster
    PROVE  /\ divergence'[p] = divergence[p]
           /\ observation'[p] = observation[p]
           /\ probe'[p] = probe[p]
<1>1. job # Idle => job.id # p
  BY DEF StoreInv, JobInHand
<1>2. job # Idle => job \in Job
  BY DEF StoreInv, StoreTypeOK
<1>3. /\ probe \in [ProbeId -> ProbeRow \cup {NoProbe}]
      /\ observation \in [ProbeId -> SUBSET Observation]
      /\ divergence \in [ProbeId -> ClusterRow]
  BY DEF StoreInv, StoreTypeOK
<1>4. ASSUME NEW q \in ProbeId, NEW d \in Deployment, Dispatch(q, d)
      PROVE  UNCHANGED <<probe, observation, divergence>>
  BY <1>4 DEF Dispatch
<1>5. CASE InsertProbe
  BY <1>1, <1>2, <1>3, <1>5 DEF InsertProbe, Idle
<1>6. CASE InsertObservation
  BY <1>1, <1>2, <1>3, <1>6 DEF InsertObservation, Idle
<1>7. CASE InsertCluster
  BY <1>1, <1>2, <1>3, <1>7 DEF InsertCluster, Idle
<1>8. CASE AbandonStore \/ Tick
  BY <1>8 DEF AbandonStore, Tick, storeVars
<1>9. QED
  BY <1>4, <1>5, <1>6, <1>7, <1>8 DEF StoreNext, StoreStep

\* JudgedIsFrozen holds of the store: once a probe can be judged, no later write
\* of store_results changes what it is judged by.
THEOREM JudgedStaysFrozen == StoreSpec => JudgedIsFrozen
<1>1. StoreInv /\ [StoreNext]_<<now, storeVars>>
         => [\A p \in ProbeId :
                divergence[p] # NoCluster =>
                    /\ divergence'[p] = divergence[p]
                    /\ observation'[p] = observation[p]
                    /\ probe'[p] = probe[p]]_storeVars
  BY FrozenStep DEF storeVars
<1>2. QED
  BY <1>1, StoreInvariant, PTL DEF StoreSpec, JudgedIsFrozen
=============================================================================
