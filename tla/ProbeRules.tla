----------------------------- MODULE ProbeRules -----------------------------
(***************************************************************************)
(* The rules every surface of Foghorn judges probe answers by: how the     *)
(* answers to one probe are reduced to one per address, how they are       *)
(* clustered, whose an answer is, and when an answer is a fault.           *)
(*                                                                         *)
(* An answer is abstracted to where it came from, how it was dispatched    *)
(* and its outcome: the hash of a usable response, or one of three ways of *)
(* not being one.  Latencies, block numbers, stake weights, diffs and      *)
(* attestations ride along in the code and decide nothing below.           *)
(***************************************************************************)
EXTENDS Integers, Sequences, FiniteSets

CONSTANTS
    Address,   \* what observation.indexer_address may hold: allocation signing
               \* keys, indexers, and the pseudo-addresses such as gateway-error
    Indexer,   \* the addresses that are indexers
    Hash       \* hashes of normalised responses

\* The outcomes that carry no hash.  "payment": payment_refused and
\* payment_denylisted.  "error": every other error_class.  "malformed": a
\* gateway body that is not JSON, which gets neither a hash nor an error_class.
NoAnswer == {"payment", "error", "malformed"}

ASSUME IndexerAssumption == Indexer \subseteq Address
ASSUME HashAssumption == Hash \cap (NoAnswer \cup {"none"}) = {}

Mode == {"gateway", "paid"}

Observation == [addr : Address, mode : Mode, outcome : Hash \cup NoAnswer]

-----------------------------------------------------------------------------
(* One observation per address.                                            *)

\* A real response beats any error, an error beats a payment refusal.
Rank(o) ==
    CASE o.outcome \in Hash -> 2
      [] o.outcome = "payment" -> 0
      [] OTHER -> 1

\* The i-th answer survives when nothing from its address outranks it and
\* nothing of its rank came earlier: best[i] is replaced only on a strictly
\* greater rank.
Survives(raw, i) ==
    \A j \in DOMAIN raw :
        raw[j].addr = raw[i].addr =>
            \/ Rank(raw[j]) < Rank(raw[i])
            \/ Rank(raw[j]) = Rank(raw[i]) /\ i <= j

Dedup(raw) == {raw[i] : i \in {j \in DOMAIN raw : Survives(raw, j)}}

-----------------------------------------------------------------------------
(* Clusters of equal hashes.                                               *)

Answered(obs) == {o \in obs : o.outcome \in Hash}

Support(obs, h) == {o \in obs : o.outcome = h}

\* The hashes that max_by_key over a HashMap may return: its iteration order is
\* unspecified, so between equally large clusters either may be named.
LargestHashes(obs) ==
    {h \in Hash :
        /\ Support(obs, h) # {}
        /\ \A g \in Hash :
              Cardinality(Support(obs, g)) <= Cardinality(Support(obs, h))}

ClusterRow == [hash : Hash \cup {"none"}, size : Nat]

\* No cluster: nothing to compare, or no divergence row.  Size 0 is never a
\* majority, as COALESCE(d.largest_by_count_size * 2 > r.n, false) has it.
NoCluster == [hash |-> "none", size |-> 0]

ClusterResults(obs) ==
    IF Answered(obs) = {}
    THEN {NoCluster}
    ELSE {[hash |-> h, size |-> Cardinality(Support(obs, h))] :
             h \in LargestHashes(obs)}

-----------------------------------------------------------------------------
(* Whose an answer is, and whether it was wrong.                           *)

\* A gateway answer carries a signing key and resolves through map (a partial
\* function from addresses to indexers); a paid answer already names the
\* indexer.  "nobody": the row is dropped.
Attributed(o, map) ==
    IF o.addr \in DOMAIN map THEN map[o.addr]
    ELSE IF o.mode = "paid" THEN o.addr
    ELSE "nobody"

\* A refused payment is a fact about the prober's escrow, never the indexer.
Counted(o) == o.outcome # "payment"

\* Variation: any corroborated cluster is taken for a majority.
ClearMajorityPlurality(obs, cluster) == cluster.size >= 2

ClearMajority(obs, cluster) ==
    2 * cluster.size > Cardinality(Answered(obs))

Differs(o, obs, cluster) ==
    /\ o.outcome \in Hash
    /\ ClearMajority(obs, cluster)
    /\ o.outcome # cluster.hash

\* A fault of a stored answer: the judged, scored and rolled-up rule.
Fault(o, obs, cluster, excused) == Differs(o, obs, cluster) /\ ~excused
=============================================================================
