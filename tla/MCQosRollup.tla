----------------------------- MODULE MCQosRollup -----------------------------
(***************************************************************************)
(* Small instances of QosRollup.  One deployment; indexer i1 answers       *)
(* through the gateway under signing key k1, i2 is paid directly, u is the *)
(* pseudo-address of an answer whose attestation does not recover.         *)
(***************************************************************************)
EXTENDS QosRollup, TLC

CONSTANTS k1, u, i1, i2, h1, h2, d1, p1, none

MCAddress == {k1, u, i1, i2}
MCIndexer == {i1, i2}
MCHash == {h1, h2}
MCProbeId == {p1}
MCDeployment == {d1}
MCOwner == k1 :> i1
MCNoProbe == none

gw(a, o) == [addr |-> a, mode |-> "gateway", outcome |-> o]
paid(a, o) == [addr |-> a, mode |-> "paid", outcome |-> o]

\* A dissent of k1 from a majority of two, and a round without a majority.
MCRounds == {
    <<paid(i2, h1), gw(k1, h2), gw(u, h1)>>,
    <<paid(i2, "payment"), gw(k1, h1)>> }
=============================================================================
