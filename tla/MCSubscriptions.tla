--------------------------- MODULE MCSubscriptions ---------------------------
(***************************************************************************)
(* A small instance of Subscriptions: two allocations on one deployment,   *)
(* signal levels among which a drift adds up to a move, two subscribers of *)
(* one indexer with different kinds, one of them on a Discord webhook that *)
(* names one event of a kind, so that two urgent POIs are one too many.    *)
(***************************************************************************)
EXTENDS Subscriptions, TLC

CONSTANTS s1, s2, i1, w1, w2, a1, a2, d1

MCSubId == {s1, s2}
MCIndexer == {i1}
MCWebhook == {w1, w2}
MCAllocation == {a1, a2}
MCDeployment == {d1}
MCDeploymentOf == a1 :> d1 @@ a2 :> d1
MCLevel == {4, 5, 6}
MCCuts == {"10/10", "20/10"}
MCDiscord == {w2}
MCReo == {"eligible", "ineligible"}

MCContent ==
    (s1 :> [indexer |-> i1, hook |-> w1, kinds |-> Kind]) @@
    (s2 :> [indexer |-> i1, hook |-> w2, kinds |-> {"poi"}])

MCWorld0 == i1 :>
    [poi |-> a1 :> 0 @@ a2 :> 0, denied |-> {}, signal |-> d1 :> 4, cuts |-> "10/10", reo |-> "eligible"]
==============================================================================
