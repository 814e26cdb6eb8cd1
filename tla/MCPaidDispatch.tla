--------------------------- MODULE MCPaidDispatch ---------------------------
(***************************************************************************)
(* A small instance of PaidDispatch: two allocations of two indexers, one  *)
(* allocation per page, one exclusion that a restart may add or lift.      *)
(***************************************************************************)
EXTENDS PaidDispatch, TLC

CONSTANTS i1, i2

MCIndexer == {i1, i2}
MCAllocation == {1, 2}
MCOperatorOf == 1 :> i1 @@ 2 :> i2
MCFunded0 == {i1}
MCConfig ==
    {[excluded |-> x, nest |-> n, key |-> TRUE] : x \in {{}, {i1}}, n \in BOOLEAN}
        \cup {[excluded |-> {}, nest |-> FALSE, key |-> FALSE]}
==============================================================================
