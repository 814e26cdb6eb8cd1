------------------------------ MODULE MCAlerter ------------------------------
(***************************************************************************)
(* A small instance of Alerter: two indexers, so that a cycle can be cut   *)
(* between them and a flicker of one be listed in a post for the other.    *)
(***************************************************************************)
EXTENDS Alerter, TLC

CONSTANTS i1, i2

MCIndexer == {i1, i2}
=============================================================================
