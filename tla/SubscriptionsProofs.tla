------------------------- MODULE SubscriptionsProofs -------------------------
(***************************************************************************)
(* Proofs about Subscriptions: its types, and that the stored state of a   *)
(* subscription moves only over changes its webhook was told of; that      *)
(* cycles catch up with the network, and are silent once they have.        *)
(***************************************************************************)
EXTENDS Subscriptions, FiniteSetTheorems, TLAPS

\* The inductive invariant.  ChangesAreTold speaks of the step that stores a
\* state; whether the webhook heard what the step moves over depends on the row
\* in hand still being the stored one, which is why no other step may change a
\* selected subscription's state and no id is ever inserted twice.
RowsAreCurrent ==
    \A s \in DOMAIN cycle.rows :
        /\ request[s] = "done"
        /\ sub[s].status # "disabled"
        /\ sub[s].status = "none" \/ cycle.rows[s] = saved[s]

InsertedOnce == \A s \in SubId : sub[s].status # "none" => request[s] = "done"

DeletedForgotten == \A s \in SubId : sub[s].status = "none" => saved[s] = NoState

InHand ==
    /\ cycle.id # "none" => Content[cycle.id].indexer \in DOMAIN cycle.snap
    /\ cycle.pc = "silent" => EventsOf(cycle.id) = {}
    /\ cycle.pc = "accepted" => Covered(EventsOf(cycle.id), told[cycle.id])

SubInv ==
    /\ SubTypeOK
    /\ RowsAreCurrent
    /\ InsertedOnce
    /\ DeletedForgotten
    /\ InHand

-----------------------------------------------------------------------------
(* Partial functions and the rules.                                        *)

\* A partial function is one whose domain is a part of X.
LEMMA PartialIs ==
    ASSUME NEW X, NEW Y, NEW f
    PROVE  f \in Partial(X, Y) <=> DOMAIN f \subseteq X /\ f \in [DOMAIN f -> Y]
<1>1. ASSUME f \in Partial(X, Y)
      PROVE  DOMAIN f \subseteq X /\ f \in [DOMAIN f -> Y]
  <2>1. PICK A \in SUBSET X : f \in [A -> Y]
    BY <1>1 DEF Partial
  <2>2. DOMAIN f = A
    BY <2>1
  <2>3. QED
    BY <2>1, <2>2
<1>2. ASSUME DOMAIN f \subseteq X, f \in [DOMAIN f -> Y]
      PROVE  f \in Partial(X, Y)
  BY <1>2 DEF Partial
<1>3. QED
  BY <1>1, <1>2

\* The empty map of a first look or of a fresh cycle is a partial function.
LEMMA NothingIsPartial ==
    ASSUME NEW X, NEW Y
    PROVE  Nothing \in Partial(X, Y) /\ DOMAIN Nothing = {}
<1>1. DOMAIN Nothing = {} /\ Nothing \in [{} -> Y]
  BY DEF Nothing
<1>2. QED
  BY <1>1, PartialIs

\* One more entry, or one entry replaced.
LEMMA ExtendedIsPartial ==
    ASSUME NEW X, NEW Y, NEW f \in Partial(X, Y), NEW x \in X, NEW v \in Y
    PROVE  Extended(f, x, v) \in Partial(X, Y) /\ DOMAIN Extended(f, x, v) = DOMAIN f \cup {x}
<1>1. DOMAIN f \subseteq X /\ f \in [DOMAIN f -> Y]
  BY PartialIs
<1>2. DOMAIN Extended(f, x, v) = DOMAIN f \cup {x}
  BY DEF Extended
<1>3. Extended(f, x, v) \in [DOMAIN f \cup {x} -> Y]
  BY <1>1 DEF Extended
<1>4. QED
  BY <1>1, <1>2, <1>3, PartialIs

\* A subscription without a state row has a state, that of a first look.
LEMMA NoStateIsState == NoState \in State /\ ~NoState.seen
<1>1. \A X, Y : Nothing \in Partial(X, Y)
  BY NothingIsPartial
<1>2. QED
  BY <1>1 DEF NoState, State

\* The state to store is a state.
LEMMA NextStateIsState ==
    ASSUME NEW prev \in State, NEW snap \in Snapshot
    PROVE  NextState(prev, snap) \in State /\ NextState(prev, snap).seen
<1>1. snap.poi \in Partial(Allocation, Tone) /\ DOMAIN snap.poi \subseteq Allocation
  BY PartialIs DEF Snapshot
<1>2. Deployments(snap) \subseteq Deployment
  BY <1>1, RulesAssumption DEF Deployments
<1>3. [d \in Deployments(snap) |-> Denied(snap, d)] \in Partial(Deployment, {"0", "1"})
  <2>1. [d \in Deployments(snap) |-> Denied(snap, d)] \in [Deployments(snap) -> {"0", "1"}]
    BY DEF Denied
  <2>2. QED
    BY <1>2, <2>1, PartialIs
<1>4. [d \in Deployments(snap) |-> Baseline(prev, snap, d)] \in Partial(Deployment, Level)
  <2>1. ASSUME NEW d \in Deployments(snap)
        PROVE  Baseline(prev, snap, d) \in Level
    <3>1. prev.signal \in [DOMAIN prev.signal -> Level]
      BY PartialIs DEF State
    <3>2. snap.signal[d] \in Level
      BY <1>2 DEF Snapshot
    <3>3. QED
      BY <3>1, <3>2 DEF Baseline
  <2>2. [d \in Deployments(snap) |-> Baseline(prev, snap, d)] \in [Deployments(snap) -> Level]
    BY <2>1
  <2>3. QED
    BY <1>2, <2>2, PartialIs
<1>5. QED
  BY <1>1, <1>3, <1>4 DEF NextState, State, Snapshot

\* Every difference between the state stored before and the one a look stores is
\* an event of that look: this is the slow drift, the unknown value and the
\* allocation or deployment without a key all at once.
LEMMA DifferencesAreEvents ==
    ASSUME NEW prev \in State, NEW snap \in Snapshot, NEW kinds, prev.seen
    PROVE  Differences(prev, NextState(prev, snap), kinds) \subseteq Events(prev, snap, kinds)
<1> DEFINE next == NextState(prev, snap)
<1>1. /\ next.poi = snap.poi
      /\ next.denied = [d \in Deployments(snap) |-> Denied(snap, d)]
      /\ next.signal = [d \in Deployments(snap) |-> Baseline(prev, snap, d)]
      /\ next.cuts = IF snap.cuts = "none" THEN prev.cuts ELSE snap.cuts
      /\ next.reo = IF snap.reo = "none" THEN prev.reo ELSE snap.reo
  BY DEF NextState
<1> HIDE DEF next
<1>2. SUFFICES ASSUME NEW e \in Differences(prev, next, kinds)
               PROVE  e \in AllEvents(prev, snap) /\ e[1] \in kinds
  BY DEF Events, next
<1>3. e[1] \in kinds
  BY DEF Differences
<1>4. CASE \E a \in {b \in DOMAIN next.poi : next.poi[b] > Was(prev, b)} :
              e = <<"poi", a, next.poi[a]>>
  BY <1>1, <1>3, <1>4 DEF AllEvents
<1>5. CASE \E d \in {c \in DOMAIN next.denied : next.denied[c] # WasDenied(prev, c)} :
              e = <<"denied", d, next.denied[d]>>
  <2>1. PICK d \in {c \in DOMAIN next.denied : next.denied[c] # WasDenied(prev, c)} :
                e = <<"denied", d, next.denied[d]>>
    BY <1>5
  <2>2. d \in Deployments(snap) /\ next.denied[d] = Denied(snap, d)
    BY <1>1, <2>1
  <2>3. Denied(snap, d) # WasDenied(prev, d) /\ e = <<"denied", d, Denied(snap, d)>>
    BY <2>1, <2>2
  <2>4. QED
    BY <1>3, <2>2, <2>3 DEF AllEvents
<1>6. CASE \E d \in {c \in DOMAIN prev.signal \cap DOMAIN next.signal :
                       next.signal[c] # prev.signal[c]} :
              e = <<"signal", d, next.signal[d]>>
  <2>1. PICK d \in {c \in DOMAIN prev.signal \cap DOMAIN next.signal :
                       next.signal[c] # prev.signal[c]} :
                e = <<"signal", d, next.signal[d]>>
    BY <1>6
  <2>2. d \in Deployments(snap) /\ next.signal[d] = Baseline(prev, snap, d)
    BY <1>1, <2>1
  <2>3. Moved(prev.signal[d], snap.signal[d]) /\ next.signal[d] = snap.signal[d]
    BY <2>1, <2>2 DEF Baseline
  <2>4. QED
    BY <1>3, <2>1, <2>2, <2>3 DEF AllEvents
<1>7. CASE \E c \in Turned(prev.cuts, next.cuts) : e = <<"cuts", c>>
  <2>1. Turned(prev.cuts, next.cuts) \subseteq Turned(prev.cuts, snap.cuts)
    BY <1>1 DEF Turned
  <2>2. QED
    BY <1>3, <1>7, <2>1 DEF AllEvents
<1>8. CASE \E r \in Turned(prev.reo, next.reo) : e = <<"reo", r>>
  <2>1. Turned(prev.reo, next.reo) \subseteq Turned(prev.reo, snap.reo)
    BY <1>1 DEF Turned
  <2>2. QED
    BY <1>3, <1>8, <2>1 DEF AllEvents
<1>9. QED
  BY <1>4, <1>5, <1>6, <1>7, <1>8 DEF Differences

\* A state does not differ from itself.
LEMMA NoDifference ==
    ASSUME NEW st \in State, NEW kinds
    PROVE  Differences(st, st, kinds) = {}
<1>1. st.poi \in [DOMAIN st.poi -> Tone]
  BY PartialIs DEF State
<1>2. \A a \in DOMAIN st.poi : ~(st.poi[a] > Was(st, a))
  BY <1>1 DEF Was, Tone
<1>3. \A d \in DOMAIN st.denied : st.denied[d] = WasDenied(st, d)
  BY DEF WasDenied
<1>4. Turned(st.cuts, st.cuts) = {} /\ Turned(st.reo, st.reo) = {}
  BY DEF Turned
<1>5. QED
  BY <1>2, <1>3, <1>4 DEF Differences

\* Events are what the types say they are.
LEMMA EventsTyped ==
    ASSUME NEW prev \in State, NEW snap \in Snapshot, NEW kinds
    PROVE  Events(prev, snap, kinds) \subseteq Event
<1>1. /\ snap.poi \in [DOMAIN snap.poi -> Tone]
      /\ DOMAIN snap.poi \subseteq Allocation
      /\ snap.signal \in [Deployment -> Level]
      /\ snap.cuts \in Cuts \cup {"none"}
      /\ snap.reo \in Reo \cup {"none"}
  BY PartialIs DEF Snapshot
<1>2. Deployments(snap) \subseteq Deployment
  BY <1>1, RulesAssumption DEF Deployments
<1>3. SUFFICES ASSUME NEW e \in AllEvents(prev, snap)
               PROVE  e \in Event
  BY DEF Events
<1>4. CASE \E a \in {b \in DOMAIN snap.poi : snap.poi[b] > Was(prev, b)} :
              e = <<"poi", a, snap.poi[a]>>
  <2>1. PICK a \in DOMAIN snap.poi : e = <<"poi", a, snap.poi[a]>>
    BY <1>4
  <2>2. a \in Allocation /\ snap.poi[a] \in Tone
    BY <1>1, <2>1
  <2>3. QED
    BY <2>1, <2>2 DEF Event
<1>5. CASE \E d \in {c \in Deployments(snap) : Denied(snap, c) # WasDenied(prev, c)} :
              e = <<"denied", d, Denied(snap, d)>>
  <2>1. PICK d \in Deployments(snap) : e = <<"denied", d, Denied(snap, d)>>
    BY <1>5
  <2>2. d \in Deployment /\ Denied(snap, d) \in {"0", "1"}
    BY <1>2, <2>1 DEF Denied
  <2>3. QED
    BY <2>1, <2>2 DEF Event
<1>6. CASE \E d \in {c \in Deployments(snap) \cap DOMAIN prev.signal :
                       Moved(prev.signal[c], snap.signal[c])} :
              e = <<"signal", d, snap.signal[d]>>
  <2>1. PICK d \in Deployments(snap) : e = <<"signal", d, snap.signal[d]>>
    BY <1>6
  <2>2. d \in Deployment /\ snap.signal[d] \in Level
    BY <1>1, <1>2, <2>1
  <2>3. QED
    BY <2>1, <2>2 DEF Event
<1>7. CASE \E c \in Turned(prev.cuts, snap.cuts) : e = <<"cuts", c>>
  BY <1>1, <1>7 DEF Turned, Event
<1>8. CASE \E r \in Turned(prev.reo, snap.reo) : e = <<"reo", r>>
  BY <1>1, <1>8 DEF Turned, Event
<1>9. QED
  BY <1>4, <1>5, <1>6, <1>7, <1>8 DEF AllEvents

\* What a function takes on a finite set is finite.
LEMMA FiniteValues ==
    ASSUME NEW S, IsFiniteSet(S), NEW f, DOMAIN f = S, f = [x \in S |-> f[x]]
    PROVE  IsFiniteSet({f[x] : x \in S})
<1>1. f \in Surjection(S, {f[x] : x \in S})
  BY DEF Surjection
<1> QED BY <1>1, FS_Surjection

\* A look has finitely many events: an indexer has finitely many allocations.
LEMMA EventsFinite ==
    ASSUME NEW prev \in State, NEW snap \in Snapshot, NEW kinds
    PROVE  IsFiniteSet(Events(prev, snap, kinds))
<1> DEFINE D == DOMAIN snap.poi
           E == Deployments(snap)
           poi == [a \in D |-> <<"poi", a, snap.poi[a]>>]
           on == [a \in D |-> DeploymentOf[a]]
           denied == [d \in E |-> <<"denied", d, Denied(snap, d)>>]
           signal == [d \in E |-> <<"signal", d, snap.signal[d]>>]
           others == {<<"cuts", snap.cuts>>} \cup {<<"reo", snap.reo>>}
<1>1. D \subseteq Allocation
  BY PartialIs DEF Snapshot
<1>2. IsFiniteSet(D)
  BY <1>1, DiscordAssumption, FS_Subset
<1>3. IsFiniteSet(E)
  <2>1. IsFiniteSet({on[a] : a \in D})
    BY <1>2, FiniteValues
  <2>2. {on[a] : a \in D} = E
    BY DEF Deployments
  <2> QED BY <2>1, <2>2
<1>4. IsFiniteSet({poi[a] : a \in D})
  BY <1>2, FiniteValues
<1>5. IsFiniteSet({denied[d] : d \in E}) /\ IsFiniteSet({signal[d] : d \in E})
  BY <1>3, FiniteValues
<1>6. IsFiniteSet(others)
  BY FS_Singleton, FS_Union
<1> DEFINE all == {poi[a] : a \in D} \cup {denied[d] : d \in E} \cup {signal[d] : d \in E} \cup others
<1>7. IsFiniteSet(all)
  <2> HIDE DEF D, E, poi, denied, signal, others
  <2> QED BY <1>4, <1>5, <1>6, FS_Union
<1>8. AllEvents(prev, snap) \subseteq all
  BY DEF AllEvents, Turned
<1>9. Events(prev, snap, kinds) \subseteq all
  BY <1>8 DEF Events
<1> HIDE DEF all
<1> QED BY <1>7, <1>9, FS_Subset

\* What a message says of finitely many events: some of them, and numbers of others.
LEMMA PayloadsTyped ==
    ASSUME NEW hook, NEW events \in SUBSET Event, IsFiniteSet(events),
           NEW lines \in Payloads(hook, events)
    PROVE  lines \subseteq Event \cup More
<1>1. PICK named \in Named(hook, events) : lines = named \cup Counted(hook, events)
  BY DEF Payloads
<1>2. ASSUME NEW k \in Kind, Overfull(hook, events, k)
      PROVE  <<"more", k, Cardinality(OfKind(events, k)) - LinesPerKind>> \in More
  <2>1. Cardinality(OfKind(events, k)) \in Nat
    BY FS_Subset, FS_CardinalityType DEF OfKind
  <2> QED BY <1>2, <2>1, DiscordAssumption DEF Overfull, More
<1>3. Counted(hook, events) \subseteq More
  BY <1>2 DEF Counted
<1> QED BY <1>1, <1>3 DEF Named

\* A message covers its events: what it does not name it counts.
LEMMA PayloadsCover ==
    ASSUME NEW hook, NEW events, IsFiniteSet(events), NEW lines \in Payloads(hook, events), NEW heard
    PROVE  Covered(events, heard \cup lines)
<1>1. PICK named \in Named(hook, events) : lines = named \cup Counted(hook, events)
  BY DEF Payloads
<1> SUFFICES ASSUME NEW k \in Kind
             PROVE  LET unnamed == OfKind(events, k) \ (heard \cup lines)
                    IN  \/ unnamed = {}
                        \/ \E l \in heard \cup lines :
                              l[1] = "more" /\ l[2] = k /\ Cardinality(unnamed) <= l[3]
  BY DEF Covered
<1> DEFINE unnamed == OfKind(events, k) \ (heard \cup lines)
           of == OfKind(events, k)
           shown == OfKind(named, k)
<1>2. named \subseteq events
  BY DEF Named
<1>3. CASE ~Overfull(hook, events, k)
  <2>1. shown = of
    BY <1>3 DEF Named
  <2> QED BY <1>1, <2>1 DEF OfKind
<1>4. CASE Overfull(hook, events, k)
  <2>1. Cardinality(shown) = LinesPerKind
    BY <1>4 DEF Named
  <2>2. shown \subseteq of /\ IsFiniteSet(of)
    BY <1>2, FS_Subset DEF OfKind
  <2>3. of \cap shown = shown
    BY <2>2
  <2>4. IsFiniteSet(of \ shown) /\ Cardinality(of \ shown) = Cardinality(of) - LinesPerKind
    BY <2>1, <2>2, <2>3, FS_Difference
  <2>5. unnamed \in SUBSET (of \ shown)
    BY <1>1 DEF OfKind
  <2> DEFINE l == <<"more", k, Cardinality(of) - LinesPerKind>>
  <2>6. Cardinality(unnamed) <= l[3]
    BY <2>4, <2>5, FS_Subset
  <2>7. l \in lines
    BY <1>1, <1>4 DEF Counted
  <2> QED BY <2>6, <2>7
<1> QED BY <1>3, <1>4

\* Lines that cover some changes cover fewer.
LEMMA CoversFewer ==
    ASSUME NEW few, NEW many, few \subseteq many, IsFiniteSet(many),
           NEW lines \in SUBSET (Event \cup More), Covered(many, lines)
    PROVE  Covered(few, lines)
<1> SUFFICES ASSUME NEW k \in Kind, OfKind(few, k) \ lines # {}
             PROVE  \E l \in lines : /\ l[1] = "more" /\ l[2] = k
                                     /\ Cardinality(OfKind(few, k) \ lines) <= l[3]
  BY DEF Covered
<1> DEFINE small == OfKind(few, k) \ lines
           large == OfKind(many, k) \ lines
<1>1. small \in SUBSET large /\ large \in SUBSET many
  BY DEF OfKind
<1>2. PICK l \in lines : l[1] = "more" /\ l[2] = k /\ Cardinality(large) <= l[3]
  BY <1>1 DEF Covered
<1>3. l[3] \in Nat
  BY <1>2 DEF Event, More
<1> HIDE DEF small, large
<1>4. IsFiniteSet(large)
  BY <1>1, FS_Subset
<1>5. IsFiniteSet(small) /\ Cardinality(small) <= Cardinality(large)
  BY <1>1, <1>4, FS_Subset
<1>6. Cardinality(small) \in Nat /\ Cardinality(large) \in Nat
  BY <1>4, <1>5, FS_CardinalityType
<1>7. Cardinality(small) <= l[3]
  BY <1>2, <1>3, <1>5, <1>6
<1> QED BY <1>2, <1>7 DEF small

\* Nothing is covered by any lines.
LEMMA NothingToCover == \A lines : Covered({}, lines)
  BY DEF Covered, OfKind

-----------------------------------------------------------------------------
(* The steps.                                                              *)

\* It holds of two empty tables and an idle loop.
LEMMA SubInitInv == Init => SubInv
<1> SUFFICES ASSUME Init PROVE SubInv
  OBVIOUS
<1>1. \A X, Y : Nothing \in Partial(X, Y) /\ DOMAIN Nothing = {}
  BY NothingIsPartial
<1>2. \A Y : Nothing \in [{} -> Y]
  BY DEF Nothing
<1>3. NoState \in State
  BY NoStateIsState
<1>4. NoSub \in Sub /\ NoSub.status = "none" /\ NoSub.failures # DisableAfter
  BY SubscriptionBounds DEF NoSub, Sub
<1>5. SubTypeOK
  BY <1>1, <1>2, <1>3, <1>4, WorldAssumption DEF Init, Idle, SubTypeOK
<1>6. RowsAreCurrent /\ InHand
  BY <1>1 DEF Init, Idle, RowsAreCurrent, InHand
<1>7. InsertedOnce /\ DeletedForgotten
  BY <1>4 DEF Init, InsertedOnce, DeletedForgotten
<1>8. QED
  BY <1>5, <1>6, <1>7 DEF SubInv

\* A change of the network leads from snapshot to snapshot.
LEMMA ChangeIsSnapshot ==
    ASSUME world \in [Indexer -> Snapshot], NEW i \in Indexer, Change(i)
    PROVE  world' \in [Indexer -> Snapshot]
<1> DEFINE w == world[i]
<1>0. w \in Snapshot
  OBVIOUS
<1> HIDE DEF w
<1>1. w.poi \in Partial(Allocation, Tone)
  BY <1>0 DEF Snapshot
<1>2. DOMAIN w.poi \subseteq Allocation /\ w.poi \in [DOMAIN w.poi -> Tone]
  BY <1>1, PartialIs
<1>3. \A p \in Partial(Allocation, Tone) : [w EXCEPT !.poi = p] \in Snapshot
  BY <1>0 DEF Snapshot
<1>4. ASSUME NEW a \in DOMAIN w.poi, w.poi[a] < 2
      PROVE  [w EXCEPT !.poi[a] = @ + 1] \in Snapshot
  <2> DEFINE p == [w.poi EXCEPT ![a] = w.poi[a] + 1]
  <2>1. p \in [DOMAIN w.poi -> Tone] /\ DOMAIN p = DOMAIN w.poi
    BY <1>2, <1>4 DEF Tone
  <2> HIDE DEF p
  <2>2. p \in Partial(Allocation, Tone)
    BY <1>2, <2>1, PartialIs
  <2>3. [w EXCEPT !.poi[a] = @ + 1] = [w EXCEPT !.poi = p]
    BY <1>0 DEF p, Snapshot
  <2>4. QED
    BY <1>3, <2>2, <2>3
<1>5. ASSUME NEW a \in Allocation
      PROVE  [w EXCEPT !.poi = Extended(@, a, 0)] \in Snapshot
  <2>1. 0 \in Tone
    BY DEF Tone
  <2>2. Extended(w.poi, a, 0) \in Partial(Allocation, Tone)
    BY <1>1, <2>1, ExtendedIsPartial
  <2>3. QED
    BY <1>3, <2>2
<1>6. ASSUME NEW a \in DOMAIN w.poi
      PROVE  [w EXCEPT !.poi = [b \in DOMAIN @ \ {a} |-> @[b]]] \in Snapshot
  <2>1. [b \in DOMAIN w.poi \ {a} |-> w.poi[b]] \in Partial(Allocation, Tone)
    BY <1>2, PartialIs
  <2>2. QED
    BY <1>3, <2>1
<1>7. \A d \in Deployment : [w EXCEPT !.denied = (@ \cup {d}) \ (@ \cap {d})] \in Snapshot
  BY <1>0 DEF Snapshot
<1>8. \A d \in Deployment, l \in Level : [w EXCEPT !.signal[d] = l] \in Snapshot
  BY <1>0 DEF Snapshot
<1>9. /\ \A c \in Cuts : [w EXCEPT !.cuts = c] \in Snapshot
      /\ \A r \in Reo : [w EXCEPT !.reo = r] \in Snapshot
  BY <1>0 DEF Snapshot
<1>10. \A v \in Snapshot : Becomes(i, v) => world' \in [Indexer -> Snapshot]
  BY DEF Becomes
<1>11. CASE \E a \in DOMAIN w.poi : w.poi[a] < 2 /\ Becomes(i, [w EXCEPT !.poi[a] = @ + 1])
  BY <1>4, <1>10, <1>11
<1>12. CASE \E a \in Allocation \ DOMAIN w.poi :
               Becomes(i, [w EXCEPT !.poi = Extended(@, a, 0)])
  BY <1>5, <1>10, <1>12
<1>13. CASE \E a \in DOMAIN w.poi :
               Becomes(i, [w EXCEPT !.poi = [b \in DOMAIN @ \ {a} |-> @[b]]])
  BY <1>6, <1>10, <1>13
<1>14. CASE \E d \in Deployment :
               Becomes(i, [w EXCEPT !.denied = (@ \cup {d}) \ (@ \cap {d})])
  BY <1>7, <1>10, <1>14
<1>15. CASE \E d \in Deployment, l \in Level : Becomes(i, [w EXCEPT !.signal[d] = l])
  BY <1>8, <1>10, <1>15
<1>16. CASE \E c \in Cuts : Becomes(i, [w EXCEPT !.cuts = c])
  BY <1>9, <1>10, <1>16
<1>17. CASE \E r \in Reo : Becomes(i, [w EXCEPT !.reo = r])
  BY <1>9, <1>10, <1>17
<1> HIDE DEF w
<1>18. QED
  BY <1>11, <1>12, <1>13, <1>14, <1>15, <1>16, <1>17 DEF Change, w

\* The network and the API.  An id is inserted once, and a deletion forgets the
\* state, so a row in hand is either current or of a subscription that is gone.
LEMMA OutsideInv ==
    ASSUME SubInv,
           \/ \E i \in Indexer : Change(i)
           \/ \E s \in SubId : CheckLimits(s) \/ Insert(s) \/ Refuse(s) \/ Delete(s)
           \/ UNCHANGED vars
    PROVE  SubInv'
<1> USE DEF SubInv
<1>1. ASSUME NEW i \in Indexer, Change(i)
      PROVE  SubInv'
  <2>1. world' \in [Indexer -> Snapshot]
    BY <1>1, ChangeIsSnapshot DEF SubTypeOK
  <2>2. SubTypeOK'
    BY <1>1, <2>1 DEF Change, SubTypeOK
  <2>3. (RowsAreCurrent /\ InsertedOnce /\ DeletedForgotten /\ InHand)'
    BY <1>1 DEF Change, RowsAreCurrent, InsertedOnce, DeletedForgotten, InHand, EventsOf, SnapOf
  <2>4. QED
    BY <2>2, <2>3
<1>2. ASSUME NEW s \in SubId, CheckLimits(s) \/ Refuse(s)
      PROVE  SubInv'
  <2>1. SubTypeOK'
    BY <1>2 DEF CheckLimits, Refuse, SubTypeOK
  <2>2. (RowsAreCurrent /\ InsertedOnce)'
    BY <1>2 DEF CheckLimits, Refuse, SubTypeOK, RowsAreCurrent, InsertedOnce, NoSub
  <2>3. (DeletedForgotten /\ InHand)'
    BY <1>2 DEF CheckLimits, Refuse, DeletedForgotten, InHand, EventsOf, SnapOf
  <2>4. QED
    BY <2>1, <2>2, <2>3
<1>3. ASSUME NEW s \in SubId, Insert(s)
      PROVE  SubInv'
  <2>1. [status |-> "active", failures |-> 0] \in Sub /\ 0 # DisableAfter
    BY SubscriptionBounds DEF Sub
  <2>2. SubTypeOK'
    BY <1>3, <2>1 DEF Insert, SubTypeOK
  <2>3. s \notin DOMAIN cycle.rows
    BY <1>3 DEF Insert, RowsAreCurrent
  <2>4. (RowsAreCurrent /\ InsertedOnce /\ DeletedForgotten)'
    BY <1>3, <2>3 DEF Insert, SubTypeOK, RowsAreCurrent, InsertedOnce, DeletedForgotten
  <2>5. InHand'
    BY <1>3 DEF Insert, InHand, EventsOf, SnapOf
  <2>6. QED
    BY <2>2, <2>4, <2>5
<1>4. ASSUME NEW s \in SubId, Delete(s)
      PROVE  SubInv'
  <2>1. NoSub \in Sub /\ NoSub.status = "none" /\ NoSub.failures # DisableAfter
    BY SubscriptionBounds DEF NoSub, Sub
  <2>2. SubTypeOK'
    BY <1>4, <2>1, NoStateIsState DEF Delete, SubTypeOK
  <2>3. (RowsAreCurrent /\ InsertedOnce /\ DeletedForgotten)'
    BY <1>4, <2>1 DEF Delete, SubTypeOK, RowsAreCurrent, InsertedOnce, DeletedForgotten
  <2>4. InHand'
    BY <1>4 DEF Delete, InHand, EventsOf, SnapOf
  <2>5. QED
    BY <2>2, <2>3, <2>4
<1>5. CASE UNCHANGED vars
  BY <1>5 DEF vars, SubTypeOK, RowsAreCurrent, InsertedOnce, DeletedForgotten, InHand,
              EventsOf, SnapOf
<1>6. QED
  BY <1>1, <1>2, <1>3, <1>4, <1>5

\* The rows left are rows as they were, with nothing in hand.
LEMMA ContinueKeeps ==
    ASSUME SubTypeOK, NEW left \in SUBSET DOMAIN cycle.rows,
           Continue([s \in left |-> cycle.rows[s]])
    PROVE  /\ DOMAIN cycle' = {"pc", "rows", "snap", "id"}
           /\ cycle'.pc \in {"idle", "ready"} /\ cycle'.id = "none"
           /\ DOMAIN cycle'.rows \subseteq DOMAIN cycle.rows
           /\ \A s \in DOMAIN cycle'.rows : cycle'.rows[s] = cycle.rows[s]
           /\ cycle'.rows \in [DOMAIN cycle'.rows -> State]
           /\ DOMAIN cycle'.snap \subseteq Indexer
           /\ cycle'.snap \in [DOMAIN cycle'.snap -> Snapshot]
<1> DEFINE rows == [s \in left |-> cycle.rows[s]]
<1>1. /\ rows \in [left -> State] /\ DOMAIN rows = left
      /\ \A s \in left : rows[s] = cycle.rows[s]
  BY DEF SubTypeOK
<1>2. DOMAIN Nothing = {} /\ \A Y : Nothing \in [{} -> Y]
  BY DEF Nothing
<1>3. cycle' = IF DOMAIN rows = {} THEN Idle
               ELSE [cycle EXCEPT !.pc = "ready", !.rows = rows, !.id = "none"]
  BY DEF Continue
<1> HIDE DEF rows
<1>4. CASE DOMAIN rows = {}
  BY <1>2, <1>3, <1>4 DEF Idle
<1>5. CASE DOMAIN rows # {}
  BY <1>1, <1>3, <1>5 DEF SubTypeOK
<1>6. QED
  BY <1>4, <1>5

\* Nothing but the rows left is done in the rest of the cycle.
LEMMA ContinueDrops ==
    ASSUME SubTypeOK, NEW left \in SUBSET DOMAIN cycle.rows,
           Continue([s \in left |-> cycle.rows[s]])
    PROVE  DOMAIN cycle'.rows \subseteq left
<1> DEFINE rows == [s \in left |-> cycle.rows[s]]
<1>1. DOMAIN rows = left /\ DOMAIN Nothing = {}
  BY DEF Nothing
<1>2. cycle' = IF DOMAIN rows = {} THEN Idle
               ELSE [cycle EXCEPT !.pc = "ready", !.rows = rows, !.id = "none"]
  BY DEF Continue
<1> HIDE DEF rows
<1>3. QED
  BY <1>1, <1>2 DEF Idle, SubTypeOK

\* The cycle starts, fetches, or gives up.
LEMMA CycleInv ==
    ASSUME SubInv, Select \/ Fetch \/ FetchFails \/ StoreDeleted \/ Abort
    PROVE  SubInv' /\ UNCHANGED <<saved, told>>
<1> USE DEF SubInv
<1>1. DOMAIN Nothing = {} /\ \A Y : Nothing \in [{} -> Y]
  BY DEF Nothing
<1>2. ASSUME cycle' = Idle, UNCHANGED <<world, sub, saved, request, told>>
      PROVE  SubInv'
  <2>1. SubTypeOK'
    BY <1>1, <1>2 DEF Idle, SubTypeOK
  <2>2. (RowsAreCurrent /\ InsertedOnce /\ DeletedForgotten /\ InHand)'
    BY <1>1, <1>2 DEF Idle, RowsAreCurrent, InsertedOnce, DeletedForgotten, InHand
  <2>3. QED
    BY <2>1, <2>2
<1>3. CASE Select
  <2>1. CASE Active = {}
    BY <1>2, <1>3, <2>1 DEF Select
  <2>2. CASE Active # {}
    <3> DEFINE rows == [s \in Active |-> saved[s]]
    <3>1. /\ cycle' = [pc |-> "ready", rows |-> rows, snap |-> Nothing, id |-> "none"]
          /\ UNCHANGED <<world, sub, saved, request, told>>
      BY <1>3, <2>2 DEF Select, Idle
    <3>2. rows \in [Active -> State] /\ DOMAIN rows = Active /\ Active \subseteq SubId
      BY DEF Active, SubTypeOK
    <3>3. \A s \in Active :
             rows[s] = saved[s] /\ request[s] = "done" /\ sub[s].status # "disabled"
      BY DEF Active, InsertedOnce
    <3> HIDE DEF rows
    <3>4. SubTypeOK'
      BY <1>1, <3>1, <3>2 DEF SubTypeOK
    <3>5. (RowsAreCurrent /\ InsertedOnce /\ DeletedForgotten /\ InHand)'
      BY <3>1, <3>2, <3>3 DEF RowsAreCurrent, InsertedOnce, DeletedForgotten, InHand
    <3>6. QED
      BY <3>1, <3>4, <3>5
  <2>3. QED
    BY <1>3, <2>1, <2>2 DEF Select
<1>4. CASE Fetch
  <2>1. PICK i \in Unfetched :
           \E v \in {world[i], [world[i] EXCEPT !.reo = "none"]} :
              cycle' = [cycle EXCEPT !.snap = Extended(cycle.snap, i, v)]
    BY <1>4 DEF Fetch
  <2> PICK v \in {world[i], [world[i] EXCEPT !.reo = "none"]} :
         cycle' = [cycle EXCEPT !.snap = Extended(cycle.snap, i, v)]
    BY <2>1
  <2>2. UNCHANGED <<world, sub, saved, request, told>> /\ cycle.pc = "ready"
    BY <1>4 DEF Fetch
  <2>3. i \in Indexer
    BY ContentAssumption DEF Unfetched, SubTypeOK
  <2>4. v \in Snapshot
    <3>1. world[i] \in Snapshot
      BY <2>3 DEF SubTypeOK
    <3>2. [world[i] EXCEPT !.reo = "none"] \in Snapshot
      BY <3>1 DEF Snapshot
    <3>3. QED
      BY <3>1, <3>2
  <2>5. cycle.snap \in Partial(Indexer, Snapshot)
    BY PartialIs DEF SubTypeOK
  <2> DEFINE snap == Extended(cycle.snap, i, v)
  <2>6. snap \in Partial(Indexer, Snapshot)
    BY <2>3, <2>4, <2>5, ExtendedIsPartial
  <2>7. DOMAIN snap \subseteq Indexer /\ snap \in [DOMAIN snap -> Snapshot]
    BY <2>6, PartialIs
  <2> HIDE DEF snap
  <2>8. /\ DOMAIN cycle' = DOMAIN cycle
        /\ cycle'.snap = snap
        /\ cycle'.pc = cycle.pc
        /\ cycle'.rows = cycle.rows
        /\ cycle'.id = cycle.id
    BY DEF snap, SubTypeOK
  <2>9. SubTypeOK'
    BY <2>2, <2>7, <2>8 DEF SubTypeOK
  <2>10. (RowsAreCurrent /\ InsertedOnce /\ DeletedForgotten /\ InHand)'
    BY <2>2, <2>8 DEF RowsAreCurrent, InsertedOnce, DeletedForgotten, InHand, SubTypeOK
  <2>11. QED
    BY <2>2, <2>9, <2>10
<1>5. CASE FetchFails
  <2>1. PICK i \in Unfetched :
           Continue([s \in {r \in DOMAIN cycle.rows : Content[r].indexer # i} |-> cycle.rows[s]])
    BY <1>5 DEF FetchFails
  <2>2. UNCHANGED <<world, sub, saved, request, told>>
    BY <1>5 DEF FetchFails
  <2>3. SubTypeOK'
    BY <2>1, <2>2, ContinueKeeps DEF SubTypeOK
  <2>4. (RowsAreCurrent /\ InsertedOnce /\ DeletedForgotten /\ InHand)'
    BY <2>1, <2>2, ContinueKeeps DEF RowsAreCurrent, InsertedOnce, DeletedForgotten, InHand
  <2>5. QED
    BY <2>2, <2>3, <2>4
<1>6. CASE StoreDeleted \/ Abort
  BY <1>2, <1>6 DEF StoreDeleted, Abort
<1>7. QED
  BY <1>3, <1>4, <1>5, <1>6

\* A row is taken up, posted, and its failure recorded: the stored states stay.
LEMMA PostInv ==
    ASSUME SubInv, Look \/ Deliver \/ DeliverFails \/ RecordFailure
    PROVE  SubInv' /\ UNCHANGED saved
<1> USE DEF SubInv
<1>1. CASE Look
  <2>1. PICK s \in DOMAIN cycle.rows :
           /\ Content[s].indexer \in DOMAIN cycle.snap
           /\ cycle' = [cycle EXCEPT !.id = s,
                                     !.pc = IF EventsOf(s) = {} THEN "silent" ELSE "post"]
    BY <1>1 DEF Look
  <2>2. UNCHANGED <<world, sub, saved, request, told>>
    BY <1>1 DEF Look
  <2>3. s # "none"
    BY NoneAssumption DEF SubTypeOK
  <2>4. /\ DOMAIN cycle' = DOMAIN cycle
        /\ cycle'.id = s
        /\ cycle'.pc = IF EventsOf(s) = {} THEN "silent" ELSE "post"
        /\ cycle'.rows = cycle.rows
        /\ cycle'.snap = cycle.snap
    BY <2>1 DEF SubTypeOK
  <2>5. SubTypeOK'
    BY <2>2, <2>3, <2>4 DEF SubTypeOK
  <2>6. EventsOf(s)' = EventsOf(s)
    BY <2>4 DEF EventsOf, SnapOf
  <2>7. InHand'
    BY <2>1, <2>4, <2>6 DEF InHand
  <2>8. (RowsAreCurrent /\ InsertedOnce /\ DeletedForgotten)'
    BY <2>2, <2>4 DEF RowsAreCurrent, InsertedOnce, DeletedForgotten
  <2>9. QED
    BY <2>2, <2>5, <2>7, <2>8
<1>2. CASE Deliver \/ DeliverFails
  <2>1. PICK lines \in PayloadsOf(cycle.id) : \E arrived \in SUBSET lines :
           Tell(arrived) /\ (Deliver => arrived = lines)
    <3>1. CASE Deliver
      BY <3>1 DEF Deliver
    <3>2. CASE ~Deliver
      <4>1. PICK lines \in PayloadsOf(cycle.id) :
               \E arrived \in IF Content[cycle.id].hook \in Discord THEN SUBSET lines
                              ELSE {{}, lines} :
                  Tell(arrived)
        BY <1>2, <3>2 DEF DeliverFails
      <4> QED BY <3>2, <4>1
    <3> QED BY <3>1, <3>2
  <2>1a. PICK arrived \in SUBSET lines : Tell(arrived) /\ (Deliver => arrived = lines)
    BY <2>1
  <2>2. /\ cycle.pc = "post"
        /\ UNCHANGED <<world, sub, saved, request>>
    BY <1>2 DEF Deliver, DeliverFails
  <2>3. /\ DOMAIN cycle' = DOMAIN cycle
        /\ cycle'.pc \in {"accepted", "rejected"}
        /\ cycle'.id = cycle.id
        /\ cycle'.rows = cycle.rows
        /\ cycle'.snap = cycle.snap
    BY <1>2 DEF Deliver, DeliverFails, SubTypeOK
  <2>4. cycle.id \in DOMAIN cycle.rows /\ cycle.id \in SubId /\ cycle.id # "none"
    BY <2>2 DEF SubTypeOK
  <2>5. EventsOf(cycle.id) \subseteq Event /\ IsFiniteSet(EventsOf(cycle.id))
    <3>1. cycle.rows[cycle.id] \in State /\ SnapOf(cycle.id) \in Snapshot
      BY <2>4 DEF SubTypeOK, InHand, SnapOf
    <3>2. QED
      BY <3>1, EventsTyped, EventsFinite DEF EventsOf
  <2>6. told' \in [SubId -> SUBSET (Event \cup More)]
    <3>1. arrived \subseteq Event \cup More
      BY <2>1, <2>5, PayloadsTyped DEF PayloadsOf
    <3> QED BY <2>1a, <2>4, <3>1 DEF Tell, SubTypeOK
  <2>7. SubTypeOK'
    BY <2>2, <2>3, <2>4, <2>6 DEF SubTypeOK
  <2>8. cycle'.pc = "accepted" => Covered(EventsOf(cycle.id), told'[cycle.id])
    <3>1. CASE Deliver
      <4>1. told'[cycle.id] = told[cycle.id] \cup lines
        BY <2>1a, <2>4, <3>1 DEF Tell, SubTypeOK
      <4> QED BY <2>1, <2>5, <4>1, PayloadsCover DEF PayloadsOf
    <3>2. CASE DeliverFails
      BY <3>2 DEF DeliverFails, SubTypeOK
    <3>3. QED
      BY <1>2, <3>1, <3>2
  <2>9. EventsOf(cycle.id)' = EventsOf(cycle.id)
    BY <2>3 DEF EventsOf, SnapOf
  <2>10. InHand'
    BY <2>3, <2>8, <2>9 DEF InHand
  <2>11. (RowsAreCurrent /\ InsertedOnce /\ DeletedForgotten)'
    BY <2>2, <2>3 DEF RowsAreCurrent, InsertedOnce, DeletedForgotten
  <2>12. QED
    BY <2>2, <2>7, <2>10, <2>11
<1>3. CASE RecordFailure
  <2> DEFINE left == DOMAIN cycle.rows \ {cycle.id}
  <2>1. /\ left \in SUBSET DOMAIN cycle.rows
        /\ Continue([s \in left |-> cycle.rows[s]])
    BY <1>3 DEF RecordFailure, NextRow
  <2> HIDE DEF left
  <2>2. cycle.id \in DOMAIN cycle.rows /\ cycle.id \in SubId
    BY <1>3 DEF RecordFailure, SubTypeOK
  <2>3. UNCHANGED <<world, saved, request, told>>
    BY <1>3 DEF RecordFailure
  <2> DEFINE n == sub[cycle.id].failures + 1
             status == IF n >= DisableAfter THEN "disabled" ELSE "active"
  <2>4. sub' = IF sub[cycle.id].status = "none" THEN sub
               ELSE [sub EXCEPT ![cycle.id] = [status |-> status, failures |-> n]]
    BY <1>3 DEF RecordFailure
  <2>5. CASE sub[cycle.id].status = "none"
    <3>1. SubTypeOK'
      BY <2>1, <2>3, <2>4, <2>5, ContinueKeeps DEF SubTypeOK
    <3>2. QED
      BY <2>1, <2>3, <2>4, <2>5, <3>1, ContinueKeeps
      DEF RowsAreCurrent, InsertedOnce, DeletedForgotten, InHand
  <2>6. CASE sub[cycle.id].status # "none"
    <3>1. n \in 0..DisableAfter
      <4>1. sub[cycle.id].failures # DisableAfter
        BY <2>2 DEF SubTypeOK, RowsAreCurrent
      <4>2. sub[cycle.id].failures \in 0..DisableAfter
        BY <2>2 DEF SubTypeOK, Sub
      <4>3. QED
        BY <4>1, <4>2, SubscriptionBounds
    <3>2. [status |-> status, failures |-> n] \in Sub /\ (status = "disabled" <=> n = DisableAfter)
      BY <3>1, SubscriptionBounds DEF Sub
    <3>3. status # "none"
      OBVIOUS
    <3> HIDE DEF status, n
    <3>4. sub' \in [SubId -> Sub]
      BY <2>2, <2>4, <2>6, <3>2 DEF SubTypeOK
    <3>5. \A s \in SubId : sub'[s].status = "disabled" <=> sub'[s].failures = DisableAfter
      BY <2>2, <2>4, <2>6, <3>2 DEF SubTypeOK
    <3>6. \A s \in SubId : sub'[s].status = "none" <=> sub[s].status = "none"
      BY <2>2, <2>4, <2>6, <3>3 DEF SubTypeOK
    <3>7. SubTypeOK'
      BY <2>1, <2>3, <3>4, <3>5, ContinueKeeps DEF SubTypeOK
    <3>8. RowsAreCurrent'
      <4>1. DOMAIN cycle'.rows \subseteq left
        BY <2>1, ContinueDrops
      <4>2. \A s \in left : s \in SubId /\ sub'[s] = sub[s]
        BY <2>2, <2>4, <2>6 DEF left, SubTypeOK
      <4>3. QED
        BY <2>1, <2>3, <4>1, <4>2, ContinueKeeps DEF RowsAreCurrent
    <3>9. (InsertedOnce /\ DeletedForgotten /\ InHand)'
      BY <2>1, <2>3, <3>6, ContinueKeeps DEF InsertedOnce, DeletedForgotten, InHand
    <3>10. QED
      BY <2>3, <3>7, <3>8, <3>9
  <2>7. QED
    BY <2>5, <2>6
<1>4. QED
  BY <1>1, <1>2, <1>3

\* save_state: the row in hand is either stored with the look's state, over changes
\* the webhook was told of or that concern no kind of the subscriber, or not at all.
LEMMA StoreInv ==
    ASSUME SubInv, Store
    PROVE  /\ SubInv'
           /\ \A s \in SubId :
                 saved[s].seen =>
                    Covered(Differences(saved[s], saved'[s], Content[s].kinds), told[s])
<1> USE DEF SubInv
<1> DEFINE left == DOMAIN cycle.rows \ {cycle.id}
           row == cycle.rows[cycle.id]
           stored == NextState(row, SnapOf(cycle.id))
<1>1. /\ left \in SUBSET DOMAIN cycle.rows
      /\ Continue([s \in left |-> cycle.rows[s]])
  BY DEF Store, NextRow
<1>2. /\ cycle.pc \in {"silent", "accepted"} /\ cycle.id # "none"
      /\ cycle.id \in DOMAIN cycle.rows /\ cycle.id \in SubId
  BY DEF Store, SubTypeOK
<1>3. row \in State /\ SnapOf(cycle.id) \in Snapshot
  BY <1>2 DEF SubTypeOK, InHand, SnapOf
<1>4. stored \in State
  BY <1>3, NextStateIsState
<1>5. row = saved[cycle.id] /\ sub[cycle.id].status = "active"
  <2>1. sub[cycle.id].status # "none"
    BY DEF Store
  <2>2. sub[cycle.id].status # "disabled" /\ row = saved[cycle.id]
    BY <1>2, <2>1 DEF RowsAreCurrent
  <2>3. QED
    BY <1>2, <2>1, <2>2 DEF SubTypeOK, Sub
<1>6. row.seen => Covered(Differences(row, stored, Content[cycle.id].kinds), told[cycle.id])
  <2>1. row.seen => Differences(row, stored, Content[cycle.id].kinds) \subseteq EventsOf(cycle.id)
    BY <1>3, DifferencesAreEvents DEF EventsOf
  <2>2. Covered(EventsOf(cycle.id), told[cycle.id])
    BY <1>2, NothingToCover DEF InHand
  <2>3. IsFiniteSet(EventsOf(cycle.id))
    BY <1>3, EventsFinite DEF EventsOf
  <2>4. told[cycle.id] \in SUBSET (Event \cup More)
    BY <1>2 DEF SubTypeOK
  <2>5. QED
    BY <2>1, <2>2, <2>3, <2>4, CoversFewer
<1> HIDE DEF left, row, stored
<1>7. /\ saved' = [saved EXCEPT ![cycle.id] = stored]
      /\ told' = [told EXCEPT ![cycle.id] = {}]
      /\ UNCHANGED <<world, request>>
  BY DEF Store, stored, row
<1>8. /\ sub' \in [SubId -> Sub]
      /\ \A s \in SubId : sub'[s].status = sub[s].status
      /\ \A s \in SubId : sub'[s].status = "disabled" <=> sub'[s].failures = DisableAfter
  <2>1. CASE sub' = sub
    BY <2>1 DEF SubTypeOK
  <2>2. CASE sub' = [sub EXCEPT ![cycle.id].failures = 0]
    <3>1. 0 \in 0..DisableAfter /\ 0 # DisableAfter
      BY SubscriptionBounds
    <3>2. sub' \in [SubId -> Sub]
      <4> DEFINE cleared == [sub[cycle.id] EXCEPT !.failures = 0]
      <4>1. sub \in [SubId -> Sub] /\ sub[cycle.id] \in Sub
        BY <1>2 DEF SubTypeOK
      <4>2. cleared \in Sub
        BY <3>1, <4>1 DEF Sub
      <4>3. sub' = [sub EXCEPT ![cycle.id] = cleared]
        BY <2>2
      <4> HIDE DEF cleared
      <4>4. QED
        BY <4>1, <4>2, <4>3
    <3>3. \A s \in SubId : s # cycle.id => sub'[s] = sub[s]
      BY <2>2 DEF SubTypeOK
    <3>4. sub'[cycle.id].status = "active" /\ sub'[cycle.id].failures = 0
      BY <1>2, <1>5, <2>2 DEF SubTypeOK, Sub
    <3>5. QED
      BY <1>5, <3>1, <3>2, <3>3, <3>4 DEF SubTypeOK
  <2>3. QED
    BY <2>1, <2>2 DEF Store
<1>9. saved' \in [SubId -> State] /\ told' \in [SubId -> SUBSET (Event \cup More)]
  BY <1>4, <1>7 DEF SubTypeOK
<1>10. SubTypeOK'
  BY <1>1, <1>7, <1>8, <1>9, ContinueKeeps DEF SubTypeOK
<1>11. RowsAreCurrent'
  <2>1. DOMAIN cycle'.rows \subseteq left
    BY <1>1, ContinueDrops
  <2>2. \A s \in left : s \in SubId /\ saved'[s] = saved[s]
    BY <1>7 DEF left, SubTypeOK
  <2>3. QED
    BY <1>1, <1>7, <1>8, <2>1, <2>2, ContinueKeeps DEF RowsAreCurrent
<1>12. InsertedOnce'
  BY <1>7, <1>8 DEF InsertedOnce
<1>13. DeletedForgotten'
  <2>1. \A s \in SubId : s # cycle.id => saved'[s] = saved[s]
    BY <1>7 DEF SubTypeOK
  <2>2. QED
    BY <1>5, <1>8, <2>1 DEF DeletedForgotten
<1>14. InHand'
  BY <1>1, ContinueKeeps DEF InHand
<1>15. ASSUME NEW s \in SubId, saved[s].seen
       PROVE  Covered(Differences(saved[s], saved'[s], Content[s].kinds), told[s])
  <2>1. CASE s = cycle.id
    <3>1. saved'[s] = stored
      BY <1>2, <1>7, <2>1 DEF SubTypeOK
    <3>2. QED
      BY <1>5, <1>6, <1>15, <2>1, <3>1
  <2>2. CASE s # cycle.id
    <3>1. saved'[s] = saved[s] /\ saved[s] \in State
      BY <1>7, <2>2 DEF SubTypeOK
    <3>2. QED
      BY <3>1, NoDifference, NothingToCover
  <2>3. QED
    BY <2>1, <2>2
<1>16. QED
  BY <1>10, <1>11, <1>12, <1>13, <1>14, <1>15

\* Every step keeps the invariant, and moves a stored state, other than by deleting
\* it, only over what the webhook was told of.
LEMMA SubStep ==
    ASSUME SubInv, [Next]_vars
    PROVE  /\ SubInv'
           /\ \A s \in SubId :
                 saved[s].seen /\ saved'[s].seen =>
                    Covered(Differences(saved[s], saved'[s], Content[s].kinds), told[s])
<1>1. ASSUME UNCHANGED saved
      PROVE  \A s \in SubId : Covered(Differences(saved[s], saved'[s], Content[s].kinds), told[s])
  <2>1. saved \in [SubId -> State]
    BY DEF SubInv, SubTypeOK
  <2>2. QED
    BY <1>1, <2>1, NoDifference, NothingToCover
<1>2. CASE \/ \E i \in Indexer : Change(i)
           \/ \E s \in SubId : CheckLimits(s) \/ Insert(s) \/ Refuse(s)
           \/ UNCHANGED vars
  <2>1. UNCHANGED saved
    BY <1>2 DEF Change, CheckLimits, Insert, Refuse, vars
  <2>2. SubInv'
    BY <1>2, OutsideInv
  <2>3. QED
    BY <1>1, <2>1, <2>2
<1>3. CASE \E s \in SubId : Delete(s)
  <2>1. PICK d \in SubId : Delete(d)
    BY <1>3
  <2>2. SubInv'
    BY <1>3, OutsideInv
  <2>3. saved \in [SubId -> State] /\ saved' = [saved EXCEPT ![d] = NoState]
    BY <2>1 DEF Delete, SubInv, SubTypeOK
  <2>4. ASSUME NEW s \in SubId, saved'[s].seen
        PROVE  Covered(Differences(saved[s], saved'[s], Content[s].kinds), told[s])
    <3>1. s # d
      BY <2>3, <2>4, NoStateIsState
    <3>2. saved'[s] = saved[s] /\ saved[s] \in State
      BY <2>3, <3>1
    <3>3. QED
      BY <3>2, NoDifference, NothingToCover
  <2>5. QED
    BY <2>2, <2>4
<1>4. CASE Select \/ Fetch \/ FetchFails \/ StoreDeleted \/ Abort
  BY <1>1, <1>4, CycleInv
<1>5. CASE Look \/ Deliver \/ DeliverFails \/ RecordFailure
  BY <1>1, <1>5, PostInv
<1>6. CASE Store
  BY <1>6, StoreInv
<1>7. QED
  BY <1>2, <1>3, <1>4, <1>5, <1>6 DEF Next, LoopStep

-----------------------------------------------------------------------------
(* The theorems.                                                           *)

\* What is known of the rows in hand between select, post and save_state holds in
\* every reachable state, whatever the API and the network do meanwhile.
THEOREM SubscriptionInvariant == Spec => []SubInv
<1>1. Init => SubInv
  BY SubInitInv
<1>2. SubInv /\ [Next]_vars => SubInv'
  BY SubStep
<1>3. QED
  BY <1>1, <1>2, PTL DEF Spec

\* The two tables, the API's requests and the loop keep their types; in particular
\* a subscription is disabled exactly when its failures reached the limit.
THEOREM SubTypeCorrect == Spec => []SubTypeOK
<1>1. SubInv => SubTypeOK
  BY DEF SubInv
<1>2. QED
  BY <1>1, SubscriptionInvariant, PTL

\* The stored state moves only over changes the webhook was told of, for any number
\* of subscriptions, any webhooks shared between them, and any failures.
THEOREM ChangesAlwaysTold == Spec => ChangesAreTold
<1>1. SubInv /\ [Next]_vars =>
         [\A s \in SubId :
             saved[s].seen /\ saved'[s].seen =>
                Covered(Differences(saved[s], saved'[s], Content[s].kinds), told[s])]_vars
  BY SubStep
<1>2. QED
  BY <1>1, SubscriptionInvariant, PTL DEF Spec, ChangesAreTold

-----------------------------------------------------------------------------
(* Looking twice.  What an indexer's snapshot left to tell is gone once    *)
(* the state to store is the stored one.                                   *)

\* The snapshot of a look whose request for the REO status failed.
Blind(snap) == [snap EXCEPT !.reo = "none"]

\* Stored from a snapshot, a state would be stored from it again.
LEMMA SecondLook ==
    ASSUME NEW prev, NEW snap
    PROVE  LET next == NextState(prev, snap) IN NextState(next, snap) = next
<1> DEFINE next == NextState(prev, snap)
<1>1. /\ next.cuts = IF snap.cuts = "none" THEN prev.cuts ELSE snap.cuts
      /\ next.reo = IF snap.reo = "none" THEN prev.reo ELSE snap.reo
      /\ next.signal = [d \in Deployments(snap) |-> Baseline(prev, snap, d)]
  BY DEF NextState
<1>2. ASSUME NEW d \in Deployments(snap)
      PROVE  Baseline(next, snap, d) = Baseline(prev, snap, d)
  <2>1. d \in DOMAIN next.signal /\ next.signal[d] = Baseline(prev, snap, d)
    BY <1>1
  <2> HIDE DEF next
  <2> QED BY <2>1 DEF Baseline
<1>3. [d \in Deployments(snap) |-> Baseline(next, snap, d)]
         = [d \in Deployments(snap) |-> Baseline(prev, snap, d)]
  BY <1>2
<1>4. /\ NextState(next, snap).cuts = next.cuts
      /\ NextState(next, snap).reo = next.reo
  BY <1>1 DEF NextState
<1> QED BY <1>3, <1>4 DEF NextState

\* A level is no move from itself.
LEMMA NoMove ==
    ASSUME NEW l \in Level
    PROVE  ~Moved(l, l)
<1>1. l \in Nat /\ MovePct \in 1..1000
  BY RulesAssumption
<1>2. l # 0 => MovePct * l > 0
  BY <1>1
<1> QED BY <1>1, <1>2 DEF Moved

\* The facts of a state that its own look would store again.
LEMMA SettledState ==
    ASSUME NEW st, NEW snap, NextState(st, snap) = st
    PROVE  /\ st.poi = snap.poi
           /\ st.denied = [d \in Deployments(snap) |-> Denied(snap, d)]
           /\ st.signal = [d \in Deployments(snap) |-> Baseline(st, snap, d)]
           /\ snap.cuts # "none" => st.cuts = snap.cuts
           /\ snap.reo # "none" => st.reo = snap.reo
<1> DEFINE next == NextState(st, snap)
<1>1. /\ next.poi = snap.poi
      /\ next.denied = [d \in Deployments(snap) |-> Denied(snap, d)]
      /\ next.signal = [d \in Deployments(snap) |-> Baseline(st, snap, d)]
      /\ next.cuts = IF snap.cuts = "none" THEN st.cuts ELSE snap.cuts
      /\ next.reo = IF snap.reo = "none" THEN st.reo ELSE snap.reo
  BY DEF NextState
<1>2. next = st
  OBVIOUS
<1> HIDE DEF next
<1> QED BY <1>1, <1>2

\* Such a look has no event to tell.
LEMMA SettledIsSilent ==
    ASSUME NEW st \in State, NEW snap \in Snapshot, NEW kinds, NextState(st, snap) = st
    PROVE  Events(st, snap, kinds) = {}
<1>1. /\ st.poi = snap.poi
      /\ st.denied = [d \in Deployments(snap) |-> Denied(snap, d)]
      /\ st.signal = [d \in Deployments(snap) |-> Baseline(st, snap, d)]
      /\ snap.cuts # "none" => st.cuts = snap.cuts
      /\ snap.reo # "none" => st.reo = snap.reo
  BY SettledState
<1>2. /\ snap.poi \in [DOMAIN snap.poi -> Tone]
      /\ st.signal \in [DOMAIN st.signal -> Level]
  BY PartialIs DEF Snapshot, State
<1>3. \A a \in DOMAIN snap.poi : ~(snap.poi[a] > Was(st, a))
  BY <1>1, <1>2 DEF Was, Tone
<1>4. \A d \in Deployments(snap) : Denied(snap, d) = WasDenied(st, d)
  BY <1>1 DEF WasDenied
<1>5. ASSUME NEW d \in Deployments(snap) \cap DOMAIN st.signal
      PROVE  ~Moved(st.signal[d], snap.signal[d])
  <2>1. st.signal[d] \in Level /\ st.signal[d] = Baseline(st, snap, d)
    BY <1>1, <1>2
  <2> QED BY <2>1, NoMove DEF Baseline
<1>6. Turned(st.cuts, snap.cuts) = {} /\ Turned(st.reo, snap.reo) = {}
  BY <1>1 DEF Turned
<1>7. AllEvents(st, snap) = {}
  <2>1. {b \in DOMAIN snap.poi : snap.poi[b] > Was(st, b)} = {}
    BY <1>3
  <2>2. {e \in Deployments(snap) : Denied(snap, e) # WasDenied(st, e)} = {}
    BY <1>4
  <2>3. {e \in Deployments(snap) \cap DOMAIN st.signal :
            Moved(st.signal[e], snap.signal[e])} = {}
    BY <1>5
  <2> QED BY <1>6, <2>1, <2>2, <2>3 DEF AllEvents
<1> QED BY <1>7 DEF Events

\* A look without the REO status has nothing to add either.
LEMMA BlindLookSettles ==
    ASSUME NEW st \in State, NEW snap \in Snapshot, NextState(st, snap) = st
    PROVE  /\ Blind(snap) \in Snapshot
           /\ NextState(st, Blind(snap)) = st
<1>1. /\ Blind(snap) \in Snapshot
      /\ Blind(snap).poi = snap.poi /\ Blind(snap).denied = snap.denied
      /\ Blind(snap).signal = snap.signal /\ Blind(snap).cuts = snap.cuts
      /\ Blind(snap).reo = "none"
  BY DEF Blind, Snapshot
<1>2. /\ st.poi = snap.poi
      /\ st.denied = [d \in Deployments(snap) |-> Denied(snap, d)]
      /\ st.signal = [d \in Deployments(snap) |-> Baseline(st, snap, d)]
      /\ snap.cuts # "none" => st.cuts = snap.cuts
  BY SettledState
<1>3. /\ Deployments(Blind(snap)) = Deployments(snap)
      /\ \A d : Denied(Blind(snap), d) = Denied(snap, d)
      /\ \A d : Baseline(st, Blind(snap), d) = Baseline(st, snap, d)
  BY <1>1 DEF Deployments, Denied, Baseline
<1>4. st.seen
  BY DEF NextState
<1>5. st = [seen |-> TRUE, poi |-> st.poi, denied |-> st.denied, signal |-> st.signal,
            cuts |-> st.cuts, reo |-> st.reo]
  BY <1>4 DEF State
<1>6. NextState(st, Blind(snap))
         = [seen |-> TRUE, poi |-> st.poi, denied |-> st.denied, signal |-> st.signal,
            cuts |-> st.cuts, reo |-> st.reo]
  <2>1. [d \in Deployments(Blind(snap)) |-> Denied(Blind(snap), d)] = st.denied
    BY <1>2, <1>3
  <2>2. [d \in Deployments(Blind(snap)) |-> Baseline(st, Blind(snap), d)] = st.signal
    BY <1>2, <1>3
  <2> QED BY <1>1, <1>2, <2>1, <2>2 DEF NextState
<1> QED BY <1>1, <1>5, <1>6

-----------------------------------------------------------------------------
(* What the loop reads and writes, for one subscription and one indexer.   *)

\* A row is selected from the table or was there before; a snapshot is of the network
\* as it is, the REO status perhaps unknown, or was there before.
LEMMA WhatTheLoopReads ==
    ASSUME SubInv, [Next]_vars
    PROVE  /\ \A s \in DOMAIN cycle'.rows :
                 \/ s \in DOMAIN cycle.rows /\ cycle'.rows[s] = cycle.rows[s]
                 \/ s \in Active /\ cycle'.rows[s] = saved[s]
           /\ \A i \in DOMAIN cycle'.snap :
                 \/ i \in DOMAIN cycle.snap /\ cycle'.snap[i] = cycle.snap[i]
                 \/ i \notin DOMAIN cycle.snap /\ cycle'.snap[i] \in {world[i], Blind(world[i])}
<1> USE DEF SubInv
<1>1. DOMAIN Nothing = {}
  BY DEF Nothing
<1>2. CASE cycle' = Idle
  BY <1>1, <1>2 DEF Idle
<1>3. ASSUME NEW left \in SUBSET DOMAIN cycle.rows, Continue([s \in left |-> cycle.rows[s]])
      PROVE  /\ \A s \in DOMAIN cycle'.rows :
                   s \in DOMAIN cycle.rows /\ cycle'.rows[s] = cycle.rows[s]
             /\ \A i \in DOMAIN cycle'.snap :
                   i \in DOMAIN cycle.snap /\ cycle'.snap[i] = cycle.snap[i]
  <2>1. \A s \in DOMAIN cycle'.rows :
           s \in DOMAIN cycle.rows /\ cycle'.rows[s] = cycle.rows[s]
    BY <1>3, ContinueKeeps
  <2>2. cycle' = Idle \/ cycle'.snap = cycle.snap
    BY <1>3 DEF Continue, SubTypeOK
  <2> QED BY <1>1, <2>1, <2>2 DEF Idle
<1>4. CASE Store \/ RecordFailure
  <2>1. Continue([s \in DOMAIN cycle.rows \ {cycle.id} |-> cycle.rows[s]])
    BY <1>4 DEF Store, RecordFailure, NextRow
  <2> QED BY <1>3, <2>1
<1>5. CASE FetchFails
  <2>1. PICK i \in Unfetched :
           Continue([s \in {t \in DOMAIN cycle.rows : Content[t].indexer # i} |-> cycle.rows[s]])
    BY <1>5 DEF FetchFails
  <2> QED BY <1>3, <2>1
<1>6. CASE Select
  <2>1. CASE cycle' = [Idle EXCEPT !.pc = "ready", !.rows = [s \in Active |-> saved[s]]]
    <3>1. cycle'.rows = [s \in Active |-> saved[s]] /\ cycle'.snap = Nothing
      BY <2>1 DEF Idle
    <3> QED BY <1>1, <3>1
  <2> QED BY <1>2, <1>6, <2>1 DEF Select
<1>7. CASE Fetch
  <2>1. PICK i \in Unfetched :
           \/ cycle' = [cycle EXCEPT !.snap = Extended(@, i, world[i])]
           \/ cycle' = [cycle EXCEPT !.snap = Extended(@, i, [world[i] EXCEPT !.reo = "none"])]
    BY <1>7 DEF Fetch
  <2>2. PICK v \in {world[i], Blind(world[i])} : cycle' = [cycle EXCEPT !.snap = Extended(@, i, v)]
    BY <2>1 DEF Blind
  <2>3. cycle'.rows = cycle.rows /\ cycle'.snap = Extended(cycle.snap, i, v)
    BY <2>2 DEF SubTypeOK
  <2>4. i \notin DOMAIN cycle.snap
    BY DEF Unfetched
  <2> QED BY <2>2, <2>3, <2>4 DEF Extended
<1>8. CASE cycle'.rows = cycle.rows /\ cycle'.snap = cycle.snap
  BY <1>8
<1>9. CASE Look \/ Deliver \/ DeliverFails
  BY <1>8, <1>9 DEF Look, Deliver, DeliverFails, SubTypeOK
<1>10. CASE \/ \E i \in Indexer : Change(i)
            \/ \E s \in SubId : CheckLimits(s) \/ Insert(s) \/ Refuse(s) \/ Delete(s)
            \/ UNCHANGED vars
  BY <1>8, <1>10 DEF Change, CheckLimits, Insert, Refuse, Delete, vars
<1>11. CASE StoreDeleted \/ Abort
  BY <1>2, <1>11 DEF StoreDeleted, Abort
<1> QED BY <1>4, <1>5, <1>6, <1>7, <1>9, <1>10, <1>11 DEF Next, LoopStep

\* The state of a subscription that is there after a step is the one before, or the
\* step was save_state for it.
LEMMA WhoWritesStates ==
    ASSUME SubInv, [Next]_vars, NEW s \in SubId, sub'[s].status # "none"
    PROVE  \/ saved'[s] = saved[s]
           \/ /\ Store /\ cycle.id = s /\ s \in DOMAIN cycle.rows
              /\ Content[s].indexer \in DOMAIN cycle.snap
              /\ saved'[s] = NextState(cycle.rows[s], SnapOf(s))
<1> USE DEF SubInv, SubTypeOK
<1>1. CASE Store
  <2>1. cycle.id # "none" /\ cycle.id \in DOMAIN cycle.rows /\ cycle.id \in SubId
    BY <1>1, NoneAssumption DEF Store
  <2>2. saved' = [saved EXCEPT ![cycle.id] = NextState(cycle.rows[cycle.id], SnapOf(cycle.id))]
    BY <1>1 DEF Store
  <2> QED BY <1>1, <2>1, <2>2 DEF InHand
<1>2. CASE \E t \in SubId : Delete(t)
  BY <1>2 DEF Delete, NoSub
<1>3. CASE \/ \E i \in Indexer : Change(i)
           \/ \E t \in SubId : CheckLimits(t) \/ Insert(t) \/ Refuse(t)
           \/ UNCHANGED vars
  BY <1>3 DEF Change, CheckLimits, Insert, Refuse, vars
<1>4. CASE \/ Select \/ Fetch \/ FetchFails \/ StoreDeleted \/ Abort
           \/ Look \/ Deliver \/ DeliverFails \/ RecordFailure
  BY <1>4
     DEF Select, Fetch, FetchFails, StoreDeleted, Abort, Look, Deliver, DeliverFails, RecordFailure
<1> QED BY <1>1, <1>2, <1>3, <1>4 DEF Next, LoopStep

\* An id is inserted once.
LEMMA DoneIsForever ==
    ASSUME SubInv, [Next]_vars, NEW s \in SubId, request[s] = "done"
    PROVE  request'[s] = "done" /\ (sub[s].status = "none" => sub'[s].status = "none")
<1> USE DEF SubInv, SubTypeOK
<1>1. CASE \E t \in SubId : CheckLimits(t) \/ Insert(t) \/ Refuse(t)
  BY <1>1 DEF CheckLimits, Insert, Refuse
<1>2. CASE \E t \in SubId : Delete(t)
  BY <1>2 DEF Delete, NoSub
<1>3. CASE Store \/ RecordFailure
  <2>1. cycle.id \in SubId
    BY <1>3, NoneAssumption DEF Store, RecordFailure
  <2> QED BY <1>3, <2>1 DEF Store, RecordFailure
<1>4. CASE \/ \E i \in Indexer : Change(i)
           \/ Select \/ Fetch \/ FetchFails \/ StoreDeleted \/ Abort
           \/ Look \/ Deliver \/ DeliverFails \/ UNCHANGED vars
  BY <1>4
     DEF Change, Select, Fetch, FetchFails, StoreDeleted, Abort, Look, Deliver, DeliverFails, vars
<1> QED BY <1>1, <1>2, <1>3, <1>4 DEF Next, LoopStep

-----------------------------------------------------------------------------
(* Cycles catch up, and then say nothing: the safety half of               *)
(* SubscribersCatchUp and what follows it.                                 *)

IndexerOf(s) == Content[s].indexer

\* What is stored for s is what a whole look at its indexer would store.
Known(s) == NextState(saved[s], world[IndexerOf(s)]) = saved[s]

\* s has nothing to hear: its row, if it has one, and the row in the cycle are
\* settled, and its indexer's snapshot is as the indexer is.
Settled(s) ==
    /\ request[s] = "done"
    /\ sub[s].status # "none" => Known(s)
    /\ s \in DOMAIN cycle.rows =>
          NextState(cycle.rows[s], world[IndexerOf(s)]) = cycle.rows[s]
    /\ IndexerOf(s) \in DOMAIN cycle.snap =>
          cycle.snap[IndexerOf(s)] \in {world[IndexerOf(s)], Blind(world[IndexerOf(s)])}
    /\ cycle.id = s => cycle.pc = "silent"

\* The state of s is settled with whatever snapshot the cycle holds of its indexer.
LEMMA SettledLook ==
    ASSUME SubInv, NEW s \in DOMAIN cycle.rows, Settled(s), IndexerOf(s) \in DOMAIN cycle.snap
    PROVE  NextState(cycle.rows[s], SnapOf(s)) = cycle.rows[s] /\ EventsOf(s) = {}
<1>1. /\ cycle.rows[s] \in State /\ world[IndexerOf(s)] \in Snapshot
      /\ SnapOf(s) \in Snapshot
      /\ SnapOf(s) \in {world[IndexerOf(s)], Blind(world[IndexerOf(s)])}
  BY ContentAssumption DEF SubInv, SubTypeOK, SnapOf, IndexerOf, Settled
<1>2. NextState(cycle.rows[s], world[IndexerOf(s)]) = cycle.rows[s]
  BY DEF Settled
<1>3. NextState(cycle.rows[s], SnapOf(s)) = cycle.rows[s]
  BY <1>1, <1>2, BlindLookSettles
<1> QED BY <1>1, <1>3, SettledIsSilent DEF EventsOf

\* Taking up a row in hand: nothing but Look puts one there.
LEMMA OnlyLookTakesUp ==
    ASSUME SubInv, [Next]_vars, NEW s \in SubId, cycle'.id = s
    PROVE  \/ Look
           \/ cycle.id = s /\ (cycle.pc = "silent" => cycle'.pc = "silent")
<1> USE DEF SubInv, SubTypeOK
<1>0. s # "none"
  BY NoneAssumption
<1>1. ASSUME NEW left \in SUBSET DOMAIN cycle.rows, Continue([t \in left |-> cycle.rows[t]])
      PROVE  FALSE
  BY <1>0, <1>1, ContinueKeeps
<1>2. ~Store /\ ~RecordFailure
  BY <1>1 DEF Store, RecordFailure, NextRow
<1>3. ~FetchFails
  <2> SUFFICES ASSUME FetchFails PROVE FALSE
    OBVIOUS
  <2>1. PICK i \in Unfetched :
           Continue([t \in {r \in DOMAIN cycle.rows : Content[r].indexer # i} |-> cycle.rows[t]])
    BY DEF FetchFails
  <2> QED BY <1>1, <2>1
<1>4. ~Select /\ ~StoreDeleted /\ ~Abort
  <2>1. cycle' # Idle
    BY <1>0 DEF Idle
  <2>2. cycle' # [Idle EXCEPT !.pc = "ready", !.rows = [t \in Active |-> saved[t]]]
    BY <1>0 DEF Idle
  <2> QED BY <2>1, <2>2 DEF Select, StoreDeleted, Abort
<1>5. CASE Fetch
  BY <1>0, <1>5 DEF Fetch
<1>6. CASE Deliver \/ DeliverFails
  BY <1>6 DEF Deliver, DeliverFails
<1>7. CASE \/ \E i \in Indexer : Change(i)
           \/ \E t \in SubId : CheckLimits(t) \/ Insert(t) \/ Refuse(t) \/ Delete(t)
           \/ UNCHANGED vars
  BY <1>7 DEF Change, CheckLimits, Insert, Refuse, Delete, vars
<1> QED BY <1>2, <1>3, <1>4, <1>5, <1>6, <1>7 DEF Next, LoopStep

\* No step unsettles s while its indexer stays as it is: what is selected is what is
\* stored, and what is stored anew is what was looked at.
LEMMA SettledStep ==
    ASSUME SubInv, [Next]_vars, NEW s \in SubId, Settled(s),
           world'[IndexerOf(s)] = world[IndexerOf(s)]
    PROVE  Settled(s)'
<1> DEFINE H == IndexerOf(s)
<1>1. request'[s] = "done" /\ (sub[s].status = "none" => sub'[s].status = "none")
  BY DoneIsForever DEF Settled
<1>2. ASSUME sub'[s].status # "none"
      PROVE  NextState(saved'[s], world[H]) = saved'[s]
  <2>1. NextState(saved[s], world[H]) = saved[s]
    BY <1>1, <1>2 DEF Settled, Known
  <2>2. ASSUME s \in DOMAIN cycle.rows, H \in DOMAIN cycle.snap,
               saved'[s] = NextState(cycle.rows[s], SnapOf(s))
        PROVE  NextState(saved'[s], world[H]) = saved'[s]
    <3>1. saved'[s] = cycle.rows[s]
      BY <2>2, SettledLook
    <3> QED BY <2>2, <3>1 DEF Settled
  <2> QED BY <1>2, <2>1, <2>2, WhoWritesStates DEF IndexerOf
<1>3. ASSUME s \in DOMAIN cycle'.rows
      PROVE  NextState(cycle'.rows[s], world[H]) = cycle'.rows[s]
  <2>1. CASE s \in DOMAIN cycle.rows /\ cycle'.rows[s] = cycle.rows[s]
    BY <2>1 DEF Settled
  <2>2. CASE s \in Active /\ cycle'.rows[s] = saved[s]
    BY <2>2 DEF Settled, Known, Active
  <2> QED BY <1>3, <2>1, <2>2, WhatTheLoopReads
<1>4. ASSUME H \in DOMAIN cycle'.snap
      PROVE  cycle'.snap[H] \in {world[H], Blind(world[H])}
  BY <1>4, WhatTheLoopReads DEF Settled
<1>5. ASSUME cycle'.id = s
      PROVE  cycle'.pc = "silent"
  <2>1. CASE Look
    <3>1. PICK t \in DOMAIN cycle.rows :
             /\ Content[t].indexer \in DOMAIN cycle.snap
             /\ cycle' = [cycle EXCEPT !.id = t,
                                       !.pc = IF EventsOf(t) = {} THEN "silent" ELSE "post"]
      BY <2>1 DEF Look
    <3>2. t = s /\ cycle'.pc = IF EventsOf(t) = {} THEN "silent" ELSE "post"
      BY <1>5, <3>1 DEF SubInv, SubTypeOK
    <3> QED BY <3>1, <3>2, SettledLook DEF IndexerOf
  <2> QED BY <1>5, <2>1, OnlyLookTakesUp DEF Settled
<1> QED BY <1>1, <1>2, <1>3, <1>4, <1>5 DEF Settled, Known, IndexerOf

\* run_cycle and evaluate: once what is stored is what the network says, nothing is
\* ever posted to that subscription while its indexer stays as it is, whatever fails,
\* is deleted, disabled or restarted, and whatever the others are told.
THEOREM NothingIsSaidTwice ==
    ASSUME NEW s \in SubId
    PROVE  Spec => []( /\ cycle = Idle /\ sub[s].status # "none" /\ Known(s)
                       /\ [][world'[IndexerOf(s)] = world[IndexerOf(s)]]_vars
                       => [](cycle.id = s => cycle.pc = "silent") )
<1>1. SubInv /\ cycle = Idle /\ sub[s].status # "none" /\ Known(s) => Settled(s)
  <2>1. DOMAIN Nothing = {}
    BY DEF Nothing
  <2> QED BY <2>1, NoneAssumption DEF SubInv, InsertedOnce, Idle, Settled
<1>2. /\ SubInv /\ [Next]_vars /\ Settled(s)
      /\ [world'[IndexerOf(s)] = world[IndexerOf(s)]]_vars
      => Settled(s)'
  BY SettledStep DEF vars
<1>3. Settled(s) => (cycle.id = s => cycle.pc = "silent")
  BY DEF Settled
<1> QED BY <1>1, <1>2, <1>3, SubscriptionInvariant, PTL DEF Spec

\* The subscription remains, its indexer stays as it is, the snapshot of it is whole,
\* and its row leaves the cycle only by being stored.
Attended(s) ==
    /\ sub'[s].status # "none"
    /\ world'[IndexerOf(s)] = world[IndexerOf(s)]
    /\ IndexerOf(s) \in DOMAIN cycle'.snap \ DOMAIN cycle.snap =>
          cycle'.snap[IndexerOf(s)] = world[IndexerOf(s)]
    /\ s \in DOMAIN cycle.rows \ DOMAIN cycle'.rows => Store

\* s waits in the cycle or is caught up, and its indexer's snapshot is current.
InLine(s) ==
    /\ sub[s].status # "none"
    /\ s \in DOMAIN cycle.rows \/ Known(s)
    /\ IndexerOf(s) \in DOMAIN cycle.snap => cycle.snap[IndexerOf(s)] = world[IndexerOf(s)]

\* A row that save_state takes out of the cycle is the one it stored.
LEMMA StoresWhatItDrops ==
    ASSUME SubInv, Store, NEW s \in DOMAIN cycle.rows \ DOMAIN cycle'.rows
    PROVE  /\ IndexerOf(s) \in DOMAIN cycle.snap
           /\ saved'[s] = NextState(cycle.rows[s], SnapOf(s))
<1> USE DEF SubInv, SubTypeOK
<1>1. cycle.id # "none" /\ cycle.id \in DOMAIN cycle.rows /\ cycle.id \in SubId
  BY NoneAssumption DEF Store
<1>2. cycle.id = s
  <2> SUFFICES ASSUME cycle.id # s PROVE FALSE
    OBVIOUS
  <2> DEFINE left == DOMAIN cycle.rows \ {cycle.id}
             rows == [t \in left |-> cycle.rows[t]]
  <2>1. s \in DOMAIN rows
    OBVIOUS
  <2>2. Continue(rows)
    BY DEF Store, NextRow
  <2> HIDE DEF rows
  <2>3. cycle' = [cycle EXCEPT !.pc = "ready", !.rows = rows, !.id = "none"]
    BY <2>1, <2>2 DEF Continue
  <2> QED BY <2>1, <2>3
<1>3. saved' = [saved EXCEPT ![cycle.id] = NextState(cycle.rows[cycle.id], SnapOf(cycle.id))]
  BY DEF Store
<1> QED BY <1>1, <1>2, <1>3 DEF InHand, IndexerOf

\* A row attended to stays in line until it is stored from a current snapshot.
LEMMA InLineStep ==
    ASSUME SubInv, [Next]_vars, NEW s \in SubId, InLine(s), Attended(s)
    PROVE  InLine(s)'
<1> DEFINE H == IndexerOf(s)
<1>1. H \in DOMAIN cycle'.snap => cycle'.snap[H] = world[H]
  BY WhatTheLoopReads DEF InLine, Attended
<1>2. ASSUME s \notin DOMAIN cycle'.rows
      PROVE  NextState(saved'[s], world[H]) = saved'[s]
  <2>1. CASE s \in DOMAIN cycle.rows
    <3>1. H \in DOMAIN cycle.snap /\ saved'[s] = NextState(cycle.rows[s], SnapOf(s))
      BY <1>2, <2>1, StoresWhatItDrops DEF Attended
    <3>2. SnapOf(s) = world[H]
      BY <3>1 DEF InLine, SnapOf, IndexerOf
    <3> QED BY <3>1, <3>2, SecondLook
  <2>2. CASE s \notin DOMAIN cycle.rows
    BY <2>2, WhoWritesStates DEF InLine, Attended, Known
  <2> QED BY <2>1, <2>2
<1> QED BY <1>1, <1>2 DEF InLine, Attended, Known, IndexerOf

\* run_cycle: a subscription selected is known once it has left the cycle, however long
\* ago its state was stored, and in every cycle after, if only it is not dropped unstored.
THEOREM CyclesCatchUp ==
    ASSUME NEW s \in SubId
    PROVE  Spec => []( /\ s \in DOMAIN cycle.rows /\ DOMAIN cycle.snap = {}
                       /\ sub[s].status # "none"
                       /\ [][Attended(s)]_vars
                       => [](s \notin DOMAIN cycle.rows => Known(s)) )
<1>1. s \in DOMAIN cycle.rows /\ DOMAIN cycle.snap = {} /\ sub[s].status # "none" => InLine(s)
  BY DEF InLine
<1>2. SubInv /\ [Next]_vars /\ InLine(s) /\ [Attended(s)]_vars => InLine(s)'
  <2>1. SubInv /\ InLine(s) /\ UNCHANGED vars => InLine(s)'
    BY DEF vars, InLine, Known
  <2> QED BY <2>1, InLineStep
<1>3. InLine(s) => (s \notin DOMAIN cycle.rows => Known(s))
  BY DEF InLine
<1> QED BY <1>1, <1>2, <1>3, SubscriptionInvariant, PTL DEF Spec
==============================================================================
