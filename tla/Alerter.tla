------------------------------- MODULE Alerter -------------------------------
(***************************************************************************)
(* The hourly roster digest: a cycle reads who needs attention, debounces  *)
(* each indexer's state through table alert_member, and posts the whole    *)
(* live roster to Discord when the debounced fingerprint differs from the  *)
(* one last recorded, or when nothing was recorded for a day.              *)
(*                                                                         *)
(* The members are written one statement at a time, the message goes out   *)
(* in chunks, and the fingerprint is recorded only after the last chunk    *)
(* was acknowledged.  A statement may fail, a chunk may be rejected, an    *)
(* acknowledgement may be lost, and the process may restart at any point:  *)
(* a restarted loop begins a cycle at once instead of an hour later.       *)
(*                                                                         *)
(* Message texts, counts and deployments are left out: a roster says for   *)
(* each indexer whether it fails critically ("C"), otherwise ("H") or not  *)
(* at all ("absent").  Time is counted in sleeps of one hour.              *)
(***************************************************************************)
EXTENDS Naturals

CONSTANTS
    Indexer,
    Confirm,       \* CONFIRM_CYCLES: 2
    Day,           \* cycles until an unchanged roster is posted again: 24
    MaxChanges,    \* bound on changes of the attention items
    MaxRestarts,   \* bound on restarts
    MaxFailures    \* bound on failed statements and failed posts

ASSUME ConfirmAssumption == Confirm \in Nat \ {0, 1}
ASSUME DayAssumption == Day \in Nat \ {0}
ASSUME AlerterBounds == {MaxChanges, MaxRestarts, MaxFailures} \subseteq Nat

VARIABLES
    attention,   \* the rows of attention_item the alerter selects, by indexer
    member,      \* table alert_member
    state,       \* table alerter_state
    cycle,       \* run_cycle's progress
    channel,     \* what the channel shows: the message posted last
    history,     \* history, read by properties only: the last Confirm states
                 \* debounced for each indexer
    bound        \* changes, restarts and failures so far

vars == <<attention, member, state, cycle, channel, history, bound>>

State == {"absent", "C", "H"}

Roster == [Indexer -> State]

\* A row, or its absence: stable and candidate both "absent".
Member == [stable : State, candidate : State, streak : 0..Confirm]
NoMember == [stable |-> "absent", candidate |-> "absent", streak |-> 0]

\* Fingerprints: the indexers whose settled state is a failure, with that state.
\* NULL in last_fingerprint reads as "", the empty fingerprint.
Fingerprint ==
    {<<i, member[i].stable>> : i \in {j \in Indexer : member[j].stable # "absent"}}

\* age: cycles since last_post, Day when it is due (or NULL).
AlerterState == [fingerprint : SUBSET (Indexer \X State), age : 0..Day]

\* A message: the roster it lists, the fingerprint it was posted for, and
\* whether all its chunks arrived.
Message == [roster : Roster, fingerprint : SUBSET (Indexer \X State), whole : BOOLEAN]

Cycle == [pc : {"sleep", "start", "members", "post", "save"},
          observed : Roster, todo : SUBSET Indexer]

AllAbsent == [i \in Indexer |-> "absent"]

At(pc) == [pc |-> pc, observed |-> AllAbsent, todo |-> {}]

Init ==
    /\ attention = AllAbsent
    /\ member = [i \in Indexer |-> NoMember]
    /\ state = [fingerprint |-> {}, age |-> Day]
    /\ cycle = At("start")
    /\ channel = [roster |-> AllAbsent, fingerprint |-> {}, whole |-> FALSE]
    /\ history = [i \in Indexer |-> [n \in 1..Confirm |-> "absent"]]
    /\ bound = [changes |-> 0, restarts |-> 0, failures |-> 0]

-----------------------------------------------------------------------------

\* The scorer emits or drops attention items of one indexer.
Change(i) ==
    /\ bound.changes < MaxChanges
    /\ bound' = [bound EXCEPT !.changes = @ + 1]
    /\ \E s \in State \ {attention[i]} : attention' = [attention EXCEPT ![i] = s]
    /\ UNCHANGED <<member, state, cycle, channel, history>>

Push(h, s) == [n \in 1..Confirm |-> IF n = Confirm THEN s ELSE h[n + 1]]

\* Read the roster and the members; every indexer in either is debounced.
Start ==
    LET todo == {i \in Indexer : attention[i] # "absent" \/ member[i] # NoMember}
    IN  /\ cycle.pc = "start"
        /\ cycle' = [pc |-> "members", observed |-> attention, todo |-> todo]
        /\ history' = [i \in Indexer |->
                          IF i \in todo THEN history[i] ELSE Push(history[i], "absent")]
        /\ UNCHANGED <<attention, member, state, channel, bound>>

\* Variation: the count goes on when another state interrupts the candidate.
DebouncedNoRestart(m, s) ==
    IF s = m.stable \/ m.streak + 1 >= Confirm
    THEN [stable |-> s, candidate |-> s, streak |-> 0]
    ELSE [stable |-> m.stable, candidate |-> s, streak |-> m.streak + 1]

\* Variation: the streak is compared before it is counted.
DebouncedLate(m, s) ==
    IF s = m.stable \/ (s = m.candidate /\ m.streak > Confirm)
    THEN [stable |-> s, candidate |-> s, streak |-> 0]
    ELSE [stable |-> m.stable, candidate |-> s,
          streak |-> IF s = m.candidate THEN m.streak + 1 ELSE 1]

\* The hysteresis of one member observed in state s: back to the settled state,
\* settled for having been the candidate often enough, or (still) a candidate.
Debounced(m, s) ==
    IF s = m.stable \/ (s = m.candidate /\ m.streak + 1 >= Confirm)
    THEN [stable |-> s, candidate |-> s, streak |-> 0]
    ELSE [stable |-> m.stable, candidate |-> s,
          streak |-> IF s = m.candidate THEN m.streak + 1 ELSE 1]

\* One member is upserted, or deleted once it is absent and settled.
DebounceMember ==
    /\ cycle.pc = "members"
    /\ \E i \in cycle.todo :
          LET m == Debounced(member[i], cycle.observed[i])
          IN  /\ member' = [member EXCEPT
                               ![i] = IF m.stable = "absent" /\ m.candidate = "absent"
                                      THEN NoMember ELSE m]
              /\ history' = [history EXCEPT ![i] = Push(@, cycle.observed[i])]
              /\ cycle' = [cycle EXCEPT !.todo = @ \ {i}]
    /\ UNCHANGED <<attention, state, channel, bound>>

\* Variation: an unchanged roster is never posted again.
DueNever == FALSE

Due == state.age = Day

Changed == Fingerprint # state.fingerprint

\* A failed read of alerter_state passes for (NULL, due): post.
Decide ==
    /\ cycle.pc = "members"
    /\ cycle.todo = {}
    /\ \/ /\ cycle' = IF Changed \/ Due THEN [cycle EXCEPT !.pc = "post"] ELSE At("sleep")
          /\ UNCHANGED bound
       \/ /\ bound.failures < MaxFailures
          /\ bound' = [bound EXCEPT !.failures = @ + 1]
          /\ cycle' = [cycle EXCEPT !.pc = "post"]
    /\ UNCHANGED <<attention, member, state, channel, history>>

Show(whole) ==
    channel' = [roster |-> cycle.observed, fingerprint |-> Fingerprint, whole |-> whole]

\* Every chunk was accepted and acknowledged.
Post ==
    /\ cycle.pc = "post"
    /\ Show(TRUE)
    /\ cycle' = [cycle EXCEPT !.pc = "save"]
    /\ UNCHANGED <<attention, member, state, history, bound>>

\* A chunk was rejected, or its answer did not come in time: nothing, some chunks
\* or all of them may be in the channel.  Nothing is recorded.
PostFails ==
    /\ cycle.pc = "post"
    /\ bound.failures < MaxFailures
    /\ bound' = [bound EXCEPT !.failures = @ + 1]
    /\ UNCHANGED channel \/ Show(FALSE) \/ Show(TRUE)
    /\ cycle' = At("sleep")
    /\ UNCHANGED <<attention, member, state, history>>

Save ==
    /\ cycle.pc = "save"
    /\ state' = [fingerprint |-> Fingerprint, age |-> 0]
    /\ cycle' = At("sleep")
    /\ UNCHANGED <<attention, member, channel, history, bound>>

\* A statement failed: run_cycle returns, what it wrote stays.
Fail ==
    /\ cycle.pc \in {"start", "members", "save"}
    /\ bound.failures < MaxFailures
    /\ bound' = [bound EXCEPT !.failures = @ + 1]
    /\ cycle' = At("sleep")
    /\ UNCHANGED <<attention, member, state, channel, history>>

Wake ==
    /\ cycle.pc = "sleep"
    /\ state' = [state EXCEPT !.age = IF @ = Day THEN Day ELSE @ + 1]
    /\ cycle' = At("start")
    /\ UNCHANGED <<attention, member, channel, history, bound>>

\* The loop starts over; a post it was in may have left some chunks.
Restart ==
    /\ bound.restarts < MaxRestarts
    /\ bound' = [bound EXCEPT !.restarts = @ + 1]
    /\ UNCHANGED channel \/ (cycle.pc = "post" /\ Show(FALSE))
    /\ cycle' = At("start")
    /\ UNCHANGED <<attention, member, state, history>>

CycleStep ==
    \/ Start
    \/ DebounceMember
    \/ Decide
    \/ Post
    \/ Save
    \/ Wake

Next ==
    \/ \E i \in Indexer : Change(i)
    \/ CycleStep
    \/ PostFails
    \/ Fail
    \/ Restart

Spec == Init /\ [][Next]_vars

\* The loop always runs its next statement: failures are bounded, so each is
\* followed by a cycle in which nothing fails.
Fairness == WF_vars(CycleStep)

FairSpec == Spec /\ Fairness

-----------------------------------------------------------------------------
(* Properties.                                                             *)

\* Types of the tables, of the cycle and of what the channel shows.
AlerterTypeOK ==
    /\ attention \in Roster
    /\ member \in [Indexer -> Member]
    /\ state \in AlerterState
    /\ cycle \in Cycle
    /\ channel \in Message
    /\ history \in [Indexer -> [1..Confirm -> State]]

Sustained(h) == \A n \in 1..Confirm : h[n] = h[1]

\* The hysteresis is exactly "Confirm observations in a row": a settled state
\* changes only to a state just observed that often without interruption, and a
\* state observed that often is settled, whatever was abandoned in between.
DebounceIsExact ==
    [][\A i \in Indexer :
          /\ member'[i].stable # member[i].stable =>
                Sustained(history'[i]) /\ history'[i][1] = member'[i].stable
          /\ Sustained(history'[i]) => member'[i].stable = history'[i][1]]_vars

\* The channel comes to show the live roster once it stops changing: a failed or
\* half-delivered post, a restart between the post and its record, and a flicker
\* that was listed but never settled are all made good, the last by the daily post.
ChannelConverges == <>[](channel.whole /\ channel.roster = attention)
==============================================================================
