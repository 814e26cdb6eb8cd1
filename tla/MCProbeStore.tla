---------------------------- MODULE MCProbeStore ----------------------------
(***************************************************************************)
(* A small instance of ProbeStore: two probes, three signing keys, one     *)
(* pseudo-address and one indexer paid directly, two hashes.               *)
(***************************************************************************)
EXTENDS ProbeStore, TLC

CONSTANTS k1, k2, k3, unresolved, ix1, h1, h2, d1, p1, p2, none

MCAddress == {k1, k2, k3, unresolved, ix1}
MCIndexer == {ix1}
MCHash == {h1, h2}
MCProbeId == {p1, p2}
MCDeployment == {d1}
MCNoProbe == none

gw(a, o) == [addr |-> a, mode |-> "gateway", outcome |-> o]
paid(a, o) == [addr |-> a, mode |-> "paid", outcome |-> o]

\* Agreement, dissent, a tie, a scatter with a pseudo-address, a repeated
\* address that answers late or differently, refusals and failures.
MCRounds == {
    <<gw(k1, h1), gw(k2, h1), gw(k1, h1)>>,
    <<gw(k1, h1), gw(k2, h1), gw(k3, h2)>>,
    <<gw(k1, h1), gw(k2, h2), gw(k1, h2)>>,
    <<gw(k1, h1), gw(k2, h1), gw(k3, h2), gw(unresolved, h2)>>,
    <<gw(k1, "error"), gw(k2, h1), gw(k1, h1), gw(k3, h2)>>,
    <<paid(ix1, "payment"), gw(k1, h2), gw(k2, "malformed")>>,
    <<paid(ix1, h2), gw(k1, h1), gw(k2, h1), gw(unresolved, "error")>>,
    <<paid(ix1, "error")>> }

Symmetry == Permutations(MCProbeId)
=============================================================================
