------------------------------ MODULE AlertRules ------------------------------
(***************************************************************************)
(* What changed for a subscriber since the last look: the pure half of the *)
(* alert subscriptions.                                                    *)
(*                                                                         *)
(* A snapshot says which allocations an indexer has and how urgent their   *)
(* POIs are, which of their deployments are denied rewards, how much       *)
(* signal each deployment has, the indexer's cuts and its REO status; the  *)
(* last two may be unknown ("none").  The stored state is a string map in  *)
(* the code, with one key per fact; here it is a record with one function  *)
(* per kind of key.  Messages are left out: an event is the fact it tells. *)
(***************************************************************************)
EXTENDS Integers

CONSTANTS
    Allocation,
    Deployment,
    DeploymentOf,   \* the deployment an allocation is on
    Level,          \* levels of signal, in GRT
    Cuts,
    Reo,
    MovePct         \* signal_move_pct

ASSUME RulesAssumption ==
    /\ DeploymentOf \in [Allocation -> Deployment]
    /\ Level \subseteq Nat
    /\ MovePct \in 1..1000
    /\ "none" \notin Cuts \cup Reo

Kind == {"poi", "denied", "signal", "cuts", "reo"}

\* tone_rank: fresh, due (seven days left), close (two days left or overdue).
Tone == 0..2

\* Functions on some of X.
Partial(X, Y) == UNION {[A -> Y] : A \in SUBSET X}

Nothing == [x \in {} |-> x]

Snapshot ==
    [poi : Partial(Allocation, Tone), denied : SUBSET Deployment,
     signal : [Deployment -> Level], cuts : Cuts \cup {"none"}, reo : Reo \cup {"none"}]

\* No key for an allocation or deployment that is not in the domain.
State ==
    [seen : BOOLEAN, poi : Partial(Allocation, Tone), denied : Partial(Deployment, {"0", "1"}),
     signal : Partial(Deployment, Level), cuts : Cuts \cup {"none"}, reo : Reo \cup {"none"}]

\* No row, an empty map, or one that does not parse: a first look.
NoState ==
    [seen |-> FALSE, poi |-> Nothing, denied |-> Nothing, signal |-> Nothing,
     cuts |-> "none", reo |-> "none"]

Deployments(snap) == {DeploymentOf[a] : a \in DOMAIN snap.poi}

-----------------------------------------------------------------------------

\* moved.abs() >= signal_move_pct, where a move from nothing is infinite.
Moved(from, to) ==
    IF from = 0 THEN to > 0
    ELSE LET move == IF to > from THEN to - from ELSE from - to
         IN  100 * move >= MovePct * from

Was(prev, a) == IF a \in DOMAIN prev.poi THEN prev.poi[a] ELSE 0

Denied(snap, d) == IF d \in snap.denied THEN "1" ELSE "0"

WasDenied(prev, d) == IF d \in DOMAIN prev.denied THEN prev.denied[d] ELSE "0"

\* Variation: the baseline follows every look.
BaselineLatest(prev, snap, d) == snap.signal[d]

\* Measured against the level at the last alert, so that a slow drift still arrives.
Baseline(prev, snap, d) ==
    IF d \in DOMAIN prev.signal /\ ~Moved(prev.signal[d], snap.signal[d])
    THEN prev.signal[d]
    ELSE snap.signal[d]

\* A first value of the cuts or the status is not a change, nor is an unknown one.
Turned(was, is) == IF "none" \in {was, is} THEN {} ELSE {is} \ {was}

\* The events of one look, before the subscriber's choice of kinds.
AllEvents(prev, snap) ==
    {<<"poi", a, snap.poi[a]>> :
        a \in {b \in DOMAIN snap.poi : snap.poi[b] > Was(prev, b)}}
    \cup {<<"denied", d, Denied(snap, d)>> :
        d \in {e \in Deployments(snap) : Denied(snap, e) # WasDenied(prev, e)}}
    \cup {<<"signal", d, snap.signal[d]>> :
        d \in {e \in Deployments(snap) \cap DOMAIN prev.signal :
                  Moved(prev.signal[e], snap.signal[e])}}
    \cup {<<"cuts", c>> : c \in Turned(prev.cuts, snap.cuts)}
    \cup {<<"reo", r>> : r \in Turned(prev.reo, snap.reo)}

\* A first look reports nothing.
Events(prev, snap, kinds) ==
    IF prev.seen THEN {e \in AllEvents(prev, snap) : e[1] \in kinds} ELSE {}

\* The state to store.  An unknown value keeps the one before.
NextState(prev, snap) ==
    [seen   |-> TRUE,
     poi    |-> snap.poi,
     denied |-> [d \in Deployments(snap) |-> Denied(snap, d)],
     signal |-> [d \in Deployments(snap) |-> Baseline(prev, snap, d)],
     cuts   |-> IF snap.cuts = "none" THEN prev.cuts ELSE snap.cuts,
     reo    |-> IF snap.reo = "none" THEN prev.reo ELSE snap.reo]
===============================================================================
