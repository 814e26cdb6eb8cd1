----------------------------- MODULE ProbeStore -----------------------------
(***************************************************************************)
(* The scheduler's write path: one probe at a time is dispatched, its      *)
(* answers reduced and clustered in memory, and then written to Postgres   *)
(* by separate autocommitted statements: the probe row, one row per        *)
(* observation, and last the divergence row.  A failed statement ends the  *)
(* round and a crash may come between any two of them, so every prefix of  *)
(* those writes is a state other loops read.                               *)
(*                                                                         *)
(* Time is counted in QoS buckets; dispatched_at is taken before dispatch. *)
(* Answers come from Rounds, the sequences a round of paid and gateway     *)
(* requests may return.                                                    *)
(***************************************************************************)
EXTENDS ProbeRules

CONSTANTS
    ProbeId,      \* the uuids of the probes the model may dispatch
    Deployment,
    Rounds,       \* sequences of observations a probe may bring back
    NoProbe,      \* no row in table probe
    StoreLag,     \* a probe is written within this many buckets of dispatch
    MaxTime       \* bound on the clock

ASSUME RoundsAssumption == Rounds \subseteq Seq(Observation)
ASSUME TimeAssumption == StoreLag \in Nat /\ MaxTime \in Nat

VARIABLES
    now,          \* the current bucket
    probe,        \* table probe: deployment and dispatch bucket
    observation,  \* table observation: the rows of each probe
    divergence,   \* table divergence: the largest cluster, or NoCluster
    job           \* the scheduler's progress through store_results

storeVars == <<probe, observation, divergence, job>>

ProbeRow == [dep : Deployment, at : Nat]

ASSUME NoProbeAssumption == NoProbe \notin ProbeRow

Idle == [pc |-> "idle"]

\* A probe whose answers are in but not all stored.
Job == [pc : {"insert", "observe"}, id : ProbeId, row : ProbeRow,
        pending : SUBSET Observation, cluster : ClusterRow]

StoreInit ==
    /\ now = 0
    /\ probe = [p \in ProbeId |-> NoProbe]
    /\ observation = [p \in ProbeId |-> {}]
    /\ divergence = [p \in ProbeId |-> NoCluster]
    /\ job = Idle

-----------------------------------------------------------------------------

\* Dispatch probe p against deployment d, reduce and cluster what came back.
\* Nothing is written until every answer is in.
Dispatch(p, d) ==
    /\ job = Idle
    /\ probe[p] = NoProbe
    /\ \E raw \in Rounds : \E c \in ClusterResults(Dedup(raw)) :
          job' = [pc |-> "insert", id |-> p,
                  row |-> [dep |-> d, at |-> now],
                  pending |-> Dedup(raw), cluster |-> c]
    /\ UNCHANGED <<now, probe, observation, divergence>>

InsertProbe ==
    /\ job.pc = "insert"
    /\ probe' = [probe EXCEPT ![job.id] = job.row]
    /\ job' = [job EXCEPT !.pc = "observe"]
    /\ UNCHANGED <<now, observation, divergence>>

\* ON CONFLICT (probe_id, indexer_address) DO NOTHING.
InsertObservation ==
    /\ job.pc = "observe"
    /\ \E o \in job.pending :
          /\ observation' =
                IF \E x \in observation[job.id] : x.addr = o.addr
                THEN observation
                ELSE [observation EXCEPT ![job.id] = @ \cup {o}]
          /\ job' = [job EXCEPT !.pending = @ \ {o}]
    /\ UNCHANGED <<now, probe, divergence>>

\* Variation: the divergence row does not wait for the last observation.
InsertClusterEarly ==
    /\ job.pc = "observe"
    /\ divergence' = IF job.cluster.size >= 2
                     THEN [divergence EXCEPT ![job.id] = job.cluster]
                     ELSE divergence
    /\ job' = IF job.pending = {} THEN Idle ELSE job
    /\ UNCHANGED <<now, probe, observation>>

\* The divergence row, only when two answers agreed.
InsertCluster ==
    /\ job.pc = "observe"
    /\ job.pending = {}
    /\ divergence' = IF job.cluster.size >= 2
                     THEN [divergence EXCEPT ![job.id] = job.cluster]
                     ELSE divergence
    /\ job' = Idle
    /\ UNCHANGED <<now, probe, observation>>

\* Variation: the round goes on with what it had in hand.
AbandonStoreStale ==
    /\ job # Idle
    /\ job' = [job EXCEPT !.pc = "idle"]
    /\ UNCHANGED <<now, probe, observation, divergence>>

\* A statement failed and `?` ended the round, or the process died: what is
\* already written stays.
AbandonStore ==
    /\ job # Idle
    /\ job' = Idle
    /\ UNCHANGED <<now, probe, observation, divergence>>

\* A round's requests all carry timeouts, so a probe in flight is stored or
\* abandoned within StoreLag buckets of its dispatch.
StoreTimely == job # Idle => now + 1 <= job.row.at + StoreLag

Tick ==
    /\ now < MaxTime
    /\ StoreTimely
    /\ now' = now + 1
    /\ UNCHANGED storeVars

StoreStep ==
    \/ \E p \in ProbeId, d \in Deployment : Dispatch(p, d)
    \/ InsertProbe
    \/ InsertObservation
    \/ InsertCluster
    \/ AbandonStore

StoreNext == StoreStep \/ Tick

StoreSpec == StoreInit /\ [][StoreNext]_<<now, storeVars>>

-----------------------------------------------------------------------------
(* Properties.                                                             *)

\* Types of the three tables and of the scheduler's progress.
StoreTypeOK ==
    /\ now \in Nat
    /\ probe \in [ProbeId -> ProbeRow \cup {NoProbe}]
    /\ observation \in [ProbeId -> SUBSET Observation]
    /\ divergence \in [ProbeId -> ClusterRow]
    /\ job \in Job \cup {Idle}

\* A stored cluster row describes exactly the answers stored for its probe: the
\* size the majority test divides by was counted over the rows the test counts
\* responders from.  It fails if the row can precede an observation, or if an
\* observation the clustering counted is lost to ON CONFLICT DO NOTHING.
ClusterDescribesAnswers ==
    \A p \in ProbeId :
        divergence[p] # NoCluster => divergence[p] \in ClusterResults(observation[p])

\* Whatever has been written when the tables are read, the answers judged wrong
\* are fewer than half of the probe's answers: nobody is faulted against a
\* partially stored probe or by a tie.
FaultsAreAMinority ==
    \A p \in ProbeId :
        LET wrong == {o \in observation[p] :
                         Differs(o, observation[p], divergence[p])}
        IN  wrong # {} =>
                2 * Cardinality(wrong) < Cardinality(Answered(observation[p]))

\* Once a probe can be judged its answers and its majority never change, so a
\* verdict drawn from it is never revised by a later write.
JudgedIsFrozen ==
    [][\A p \in ProbeId :
          divergence[p] # NoCluster =>
              /\ divergence'[p] = divergence[p]
              /\ observation'[p] = observation[p]
              /\ probe'[p] = probe[p]]_storeVars
=============================================================================
