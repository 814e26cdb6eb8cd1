---------------------------- MODULE AlerterProofs ----------------------------
(***************************************************************************)
(* The hysteresis of the roster digest is exact for every set of indexers  *)
(* and every CONFIRM_CYCLES of at least two, whatever fails or restarts;   *)
(* and undisturbed cycles leave the channel true to alerter_state.         *)
(***************************************************************************)
EXTENDS Alerter, TLAPS

\* What a row of alert_member says of the observations it was built from: the
\* streak counts how often the candidate was seen since something else was.
MemberOK(m, h) ==
    /\ m.streak < Confirm
    /\ m.streak = 0 => m.candidate = m.stable /\ h[Confirm] = m.stable
    /\ m.streak > 0 =>
          /\ m.candidate # m.stable
          /\ h[Confirm - m.streak] # m.candidate
          /\ \A n \in 1..Confirm : n > Confirm - m.streak => h[n] = m.candidate

\* The inductive invariant: DebounceIsExact speaks of one step, and whether a
\* streak is the length of a run of observations depends on all steps before it.
AlerterInv ==
    /\ AlerterTypeOK
    /\ \A i \in Indexer : MemberOK(member[i], history[i])

\* What DebounceIsExact asks of one member observed once.
ExactStep(m, m2, h2) ==
    /\ m2.stable # m.stable => Sustained(h2) /\ h2[1] = m2.stable
    /\ Sustained(h2) => m2.stable = h2[1]

-----------------------------------------------------------------------------
(* One member.                                                             *)

\* The three branches of debounced_fingerprint's loop keep the streak the length
\* of the run it counts, and commit exactly the runs of Confirm observations.
LEMMA DebouncedExact ==
    ASSUME NEW m \in Member, NEW h \in [1..Confirm -> State], NEW s \in State,
           MemberOK(m, h)
    PROVE  LET m2 == Debounced(m, s)
               h2 == Push(h, s)
           IN  /\ m2 \in Member
               /\ h2 \in [1..Confirm -> State]
               /\ MemberOK(m2, h2)
               /\ ExactStep(m, m2, h2)
<1> DEFINE m2 == Debounced(m, s)
           h2 == Push(h, s)
<1>1. Confirm \in Nat /\ Confirm >= 2
  BY ConfirmAssumption
<1>2. m.stable \in State /\ m.candidate \in State /\ m.streak \in 0..Confirm
  BY DEF Member
<1>3. h2 \in [1..Confirm -> State]
  BY <1>1 DEF Push
<1>4. h2[Confirm] = s /\ \A n \in 1..Confirm : n < Confirm => h2[n] = h[n + 1]
  BY <1>1 DEF Push
<1>5. 1 \in 1..Confirm /\ Confirm \in 1..Confirm /\ Confirm - 1 \in 1..Confirm
  BY <1>1
<1>6. h2[Confirm - 1] = h[Confirm]
  BY <1>1, <1>4, <1>5
<1>7. CASE s = m.stable
  <2>1. m2 = [stable |-> s, candidate |-> s, streak |-> 0]
    BY <1>7 DEF Debounced
  <2>2. m2 \in Member /\ m2.stable = s /\ m2.candidate = s /\ m2.streak = 0
    BY <1>1, <1>2, <1>7, <2>1 DEF Member
  <2>3. MemberOK(m2, h2)
    BY <1>1, <1>4, <2>2 DEF MemberOK
  <2>4. ExactStep(m, m2, h2)
    BY <1>4, <1>5, <1>7, <2>2 DEF ExactStep, Sustained
  <2>5. QED
    BY <1>3, <2>2, <2>3, <2>4
<1>8. CASE s # m.stable /\ s = m.candidate /\ m.streak + 1 >= Confirm
  <2>1. m2 = [stable |-> s, candidate |-> s, streak |-> 0]
    BY <1>8 DEF Debounced
  <2>2. m2 \in Member /\ m2.stable = s /\ m2.candidate = s /\ m2.streak = 0
    BY <1>1, <1>2, <1>8, <2>1 DEF Member
  <2>3. m.streak = Confirm - 1 /\ m.streak > 0
    BY <1>1, <1>2, <1>8 DEF MemberOK
  <2>4. \A n \in 1..Confirm : h2[n] = s
    <3>1. \A n \in 1..Confirm : n > 1 => h[n] = s
      BY <1>1, <1>8, <2>3 DEF MemberOK
    <3>2. SUFFICES ASSUME NEW n \in 1..Confirm, n < Confirm
                   PROVE  h2[n] = s
      BY <1>1, <1>4
    <3>3. n + 1 \in 1..Confirm /\ n + 1 > 1
      BY <1>1, <3>2
    <3>4. h2[n] = h[n + 1]
      BY <1>4, <3>2
    <3>5. QED
      BY <3>1, <3>3, <3>4
  <2>5. MemberOK(m2, h2)
    BY <1>1, <1>4, <2>2 DEF MemberOK
  <2>6. ExactStep(m, m2, h2)
    BY <1>5, <2>2, <2>4 DEF ExactStep, Sustained
  <2>7. QED
    BY <1>3, <2>2, <2>5, <2>6
<1>9. CASE s # m.stable /\ s = m.candidate /\ ~(m.streak + 1 >= Confirm)
  <2>1. m2 = [stable |-> m.stable, candidate |-> s, streak |-> m.streak + 1]
    BY <1>9 DEF Debounced
  <2>2. m2 \in Member /\ m2.stable = m.stable /\ m2.candidate = s /\ m2.streak = m.streak + 1
    BY <1>1, <1>2, <1>9, <2>1 DEF Member
  <2>3. m.streak > 0 /\ m.streak < Confirm - 1
    BY <1>1, <1>2, <1>9 DEF MemberOK
  <2>4. h[Confirm - m.streak] # s
    BY <1>9, <2>3 DEF MemberOK
  <2>5. h2[Confirm - m2.streak] # s
    <3>1. Confirm - m2.streak \in 1..Confirm /\ Confirm - m2.streak < Confirm
      BY <1>1, <1>2, <2>2, <2>3
    <3>2. Confirm - m2.streak + 1 = Confirm - m.streak
      BY <1>1, <1>2, <2>2
    <3>3. QED
      BY <1>4, <2>4, <3>1, <3>2
  <2>6. \A n \in 1..Confirm : n > Confirm - m2.streak => h2[n] = s
    <3>1. \A n \in 1..Confirm : n > Confirm - m.streak => h[n] = s
      BY <1>9, <2>3 DEF MemberOK
    <3>2. SUFFICES ASSUME NEW n \in 1..Confirm, n > Confirm - m2.streak, n < Confirm
                   PROVE  h2[n] = s
      BY <1>1, <1>4
    <3>3. n + 1 \in 1..Confirm /\ n + 1 > Confirm - m.streak
      BY <1>1, <1>2, <2>2, <3>2
    <3>4. h2[n] = h[n + 1]
      BY <1>4, <3>2
    <3>5. QED
      BY <3>1, <3>3, <3>4
  <2>7. MemberOK(m2, h2)
    BY <1>1, <1>2, <1>9, <2>2, <2>3, <2>5, <2>6 DEF MemberOK
  <2>8. ~Sustained(h2)
    <3>1. Confirm - m2.streak \in 1..Confirm
      BY <1>1, <1>2, <2>2, <2>3
    <3>2. QED
      BY <1>4, <1>5, <2>5, <3>1 DEF Sustained
  <2>9. ExactStep(m, m2, h2)
    BY <2>2, <2>8 DEF ExactStep
  <2>10. QED
    BY <1>3, <2>2, <2>7, <2>9
<1>10. CASE s # m.stable /\ s # m.candidate
  <2>1. m2 = [stable |-> m.stable, candidate |-> s, streak |-> 1]
    BY <1>10 DEF Debounced
  <2>2. m2 \in Member /\ m2.stable = m.stable /\ m2.candidate = s /\ m2.streak = 1
    BY <1>1, <1>2, <1>10, <2>1 DEF Member
  <2>3. h[Confirm] # s
    BY <1>1, <1>2, <1>5, <1>10 DEF MemberOK
  <2>4. MemberOK(m2, h2)
    BY <1>1, <1>4, <1>6, <1>10, <2>2, <2>3 DEF MemberOK
  <2>5. ~Sustained(h2)
    BY <1>4, <1>5, <1>6, <2>3 DEF Sustained
  <2>6. ExactStep(m, m2, h2)
    BY <2>2, <2>5 DEF ExactStep
  <2>7. QED
    BY <1>3, <2>2, <2>4, <2>6
<1>11. QED
  BY <1>7, <1>8, <1>9, <1>10

\* A member that is not debounced has no row and was observed absent.
LEMMA NotDebounced ==
    ASSUME NEW h \in [1..Confirm -> State], MemberOK(NoMember, h)
    PROVE  /\ Push(h, "absent") \in [1..Confirm -> State]
           /\ MemberOK(NoMember, Push(h, "absent"))
           /\ ExactStep(NoMember, NoMember, Push(h, "absent"))
<1>1. NoMember \in Member /\ "absent" \in State
  BY ConfirmAssumption DEF NoMember, Member, State
<1>2. Debounced(NoMember, "absent") = NoMember
  BY DEF Debounced, NoMember
<1>3. QED
  BY <1>1, <1>2, DebouncedExact

-----------------------------------------------------------------------------
(* The cycle.                                                              *)

\* Empty tables and no observation yet.
LEMMA AlerterInitInv == Init => AlerterInv
<1> SUFFICES ASSUME Init PROVE AlerterInv
  OBVIOUS
<1> USE ConfirmAssumption, DayAssumption
<1>1. AlerterTypeOK
  BY DEF Init, AlerterTypeOK, Roster, AllAbsent, State, Member, NoMember, AlerterState,
         Cycle, At, Message
<1>2. \A i \in Indexer : MemberOK(member[i], history[i])
  <2>1. Confirm \in 1..Confirm /\ 0 < Confirm
    OBVIOUS
  <2>2. \A i \in Indexer : /\ member[i].stable = "absent" /\ member[i].candidate = "absent"
                           /\ member[i].streak = 0
                           /\ history[i][Confirm] = "absent"
    BY <2>1 DEF Init, NoMember
  <2>3. ASSUME NEW i \in Indexer PROVE ~(member[i].streak > 0)
    <3>1. member[i].streak = 0
      BY <2>2
    <3>2. QED
      BY <3>1
  <2>4. QED
    BY <2>1, <2>2, <2>3 DEF MemberOK
<1>3. QED
  BY <1>1, <1>2 DEF AlerterInv

\* The SELECTs of a cycle: those it does not debounce were absent and still are.
LEMMA StartInv ==
    ASSUME AlerterInv, Start
    PROVE  /\ AlerterInv'
           /\ \A i \in Indexer :
                 history'[i] = history[i] \/ ExactStep(member[i], member'[i], history'[i])
<1> DEFINE todo == {i \in Indexer : attention[i] # "absent" \/ member[i] # NoMember}
<1>1. \A i \in Indexer : history[i] \in [1..Confirm -> State] /\ MemberOK(member[i], history[i])
  BY DEF AlerterInv, AlerterTypeOK
<1>2. history' = [i \in Indexer |-> IF i \in todo THEN history[i] ELSE Push(history[i], "absent")]
  BY DEF Start
<1>3. ASSUME NEW i \in Indexer
      PROVE  /\ history'[i] \in [1..Confirm -> State]
             /\ MemberOK(member[i], history'[i])
             /\ history'[i] = history[i] \/ ExactStep(member[i], member[i], history'[i])
  <2>1. CASE i \in todo
    BY <1>1, <1>2, <2>1
  <2>2. CASE i \notin todo
    <3>1. member[i] = NoMember /\ history'[i] = Push(history[i], "absent")
      BY <1>2, <2>2
    <3>2. QED
      BY <1>1, <3>1, NotDebounced
  <2>3. QED
    BY <2>1, <2>2
<1>4. cycle' \in Cycle
  BY DEF Start, AlerterInv, AlerterTypeOK, Cycle
<1>5. member' = member
  BY DEF Start
<1>6. AlerterTypeOK'
  BY <1>3, <1>4 DEF Start, AlerterInv, AlerterTypeOK
<1>7. QED
  BY <1>3, <1>5, <1>6 DEF AlerterInv

\* The statement for one member: that member takes an exact step, the others none.
LEMMA DebounceMemberInv ==
    ASSUME AlerterInv, DebounceMember
    PROVE  /\ AlerterInv'
           /\ \A i \in Indexer :
                 \/ history'[i] = history[i] /\ member'[i] = member[i]
                 \/ ExactStep(member[i], member'[i], history'[i])
<1>1. PICK i \in cycle.todo :
         LET m == Debounced(member[i], cycle.observed[i])
         IN  /\ member' = [member EXCEPT
                              ![i] = IF m.stable = "absent" /\ m.candidate = "absent"
                                     THEN NoMember ELSE m]
             /\ history' = [history EXCEPT ![i] = Push(@, cycle.observed[i])]
             /\ cycle' = [cycle EXCEPT !.todo = @ \ {i}]
  BY DEF DebounceMember
<1> DEFINE s == cycle.observed[i]
           m == Debounced(member[i], s)
           h == Push(history[i], s)
<1>2. i \in Indexer /\ s \in State /\ cycle \in Cycle
  BY DEF AlerterInv, AlerterTypeOK, Cycle, Roster
<1>3. \A j \in Indexer : /\ member[j] \in Member
                         /\ history[j] \in [1..Confirm -> State]
                         /\ MemberOK(member[j], history[j])
  BY DEF AlerterInv, AlerterTypeOK
<1>4. m \in Member /\ h \in [1..Confirm -> State] /\ MemberOK(m, h) /\ ExactStep(member[i], m, h)
  BY <1>2, <1>3, DebouncedExact
<1>5. m.stable = "absent" /\ m.candidate = "absent" => m = NoMember
  <2>1. m.stable = m.candidate => m.streak = 0
    BY <1>4 DEF MemberOK, Member
  <2>2. m = [stable |-> m.stable, candidate |-> m.candidate, streak |-> m.streak]
    BY <1>4 DEF Member
  <2>3. QED
    BY <2>1, <2>2 DEF NoMember
<1>6. member' = [member EXCEPT ![i] = m] /\ history' = [history EXCEPT ![i] = h]
  BY <1>1, <1>5
<1>7. member \in [Indexer -> Member] /\ history \in [Indexer -> [1..Confirm -> State]]
  BY DEF AlerterInv, AlerterTypeOK
<1>8. member' \in [Indexer -> Member]
  BY <1>4, <1>6, <1>7
<1>9. ASSUME NEW j \in Indexer
      PROVE  /\ history'[j] \in [1..Confirm -> State]
             /\ MemberOK(member'[j], history'[j])
             /\ \/ history'[j] = history[j] /\ member'[j] = member[j]
                \/ ExactStep(member[j], member'[j], history'[j])
  <2> HIDE DEF m, h
  <2>1. CASE j = i
    <3>1. member'[i] = m
      BY <1>2, <1>6, <1>7
    <3>2. history'[i] = h
      BY <1>2, <1>6, <1>7
    <3>3. QED
      BY <1>2, <1>4, <2>1, <3>1, <3>2
  <2>2. CASE j # i
    BY <1>3, <1>6, <1>7, <2>2
  <2>3. QED
    BY <2>1, <2>2
<1>10. cycle' \in Cycle
  BY <1>1, <1>2 DEF Cycle
<1>11. AlerterTypeOK'
  BY <1>8, <1>9, <1>10 DEF DebounceMember, AlerterInv, AlerterTypeOK
<1>12. QED
  BY <1>9, <1>11 DEF AlerterInv

\* Decide, Post, Save, Wake, failures, restarts and the scorer leave the members
\* and what was observed of them alone.
LEMMA OtherInv ==
    ASSUME AlerterInv,
           \/ \E i \in Indexer : Change(i)
           \/ Decide \/ Post \/ Save \/ Wake \/ PostFails \/ Fail \/ Restart
           \/ UNCHANGED vars
    PROVE  AlerterInv' /\ UNCHANGED <<member, history>>
<1> USE DayAssumption DEF AlerterInv
<1>1. AllAbsent \in Roster /\ \A pc \in {"sleep", "start"} : At(pc) \in Cycle
  BY DEF AllAbsent, Roster, State, At, Cycle
<1>2. Fingerprint \in SUBSET (Indexer \X State)
  BY DEF Fingerprint, AlerterTypeOK, Member
<1>3. CASE \E i \in Indexer : Change(i)
  BY <1>3 DEF Change, AlerterTypeOK, Roster
<1>4. CASE Decide
  <2>1. cycle' \in Cycle
    BY <1>1, <1>4 DEF Decide, AlerterTypeOK, Cycle
  <2>2. QED
    BY <1>4, <2>1 DEF Decide, AlerterTypeOK
<1>5. \A w \in BOOLEAN : Show(w) => channel' \in Message
  BY <1>2 DEF Show, Message, AlerterTypeOK, Cycle
<1>6. CASE Post
  <2>1. cycle' \in Cycle
    BY <1>6 DEF Post, AlerterTypeOK, Cycle
  <2>2. QED
    BY <1>5, <1>6, <2>1 DEF Post, AlerterTypeOK
<1>7. CASE Save
  BY <1>1, <1>2, <1>7 DEF Save, AlerterTypeOK, AlerterState
<1>8. CASE Wake
  BY <1>1, <1>8 DEF Wake, AlerterTypeOK, AlerterState
<1>9. CASE PostFails
  BY <1>1, <1>5, <1>9 DEF PostFails, AlerterTypeOK
<1>10. CASE Fail
  BY <1>1, <1>10 DEF Fail, AlerterTypeOK
<1>11. CASE Restart
  BY <1>1, <1>5, <1>11 DEF Restart, AlerterTypeOK
<1>12. CASE UNCHANGED vars
  BY <1>12 DEF vars, AlerterTypeOK
<1>13. QED
  BY <1>3, <1>4, <1>6, <1>7, <1>8, <1>9, <1>10, <1>11, <1>12

\* Every step of the digest keeps the invariant, and the members it observes
\* take exact steps.
LEMMA AlerterStep ==
    ASSUME AlerterInv, [Next]_vars
    PROVE  /\ AlerterInv'
           /\ \A i \in Indexer :
                 \/ history'[i] = history[i] /\ member'[i] = member[i]
                 \/ ExactStep(member[i], member'[i], history'[i])
<1>1. CASE Start
  <2>1. member' = member
    BY <1>1 DEF Start
  <2>2. QED
    BY <1>1, <2>1, StartInv
<1>2. CASE DebounceMember
  BY <1>2, DebounceMemberInv
<1>3. CASE \/ \E i \in Indexer : Change(i)
           \/ Decide \/ Post \/ Save \/ Wake \/ PostFails \/ Fail \/ Restart
           \/ UNCHANGED vars
  BY <1>3, OtherInv
<1>4. QED
  BY <1>1, <1>2, <1>3 DEF Next, CycleStep

\* A run of Confirm equal observations always ends in the settled state.
LEMMA SustainedIsSettled ==
    ASSUME NEW m \in Member, NEW h \in [1..Confirm -> State], MemberOK(m, h), Sustained(h)
    PROVE  m.stable = h[1]
<1>1. Confirm \in Nat /\ Confirm >= 2 /\ m.streak \in 0..Confirm
  BY ConfirmAssumption DEF Member
<1>2. 1 \in 1..Confirm /\ Confirm \in 1..Confirm
  BY <1>1
<1>3. CASE m.streak = 0
  BY <1>2, <1>3 DEF MemberOK, Sustained
<1>4. CASE m.streak > 0
  <2>1. Confirm - m.streak \in 1..Confirm /\ Confirm > Confirm - m.streak
    BY <1>1, <1>4 DEF MemberOK
  <2>2. h[Confirm - m.streak] # h[Confirm]
    BY <1>2, <1>4, <2>1 DEF MemberOK
  <2>3. QED
    BY <1>2, <2>1, <2>2 DEF Sustained
<1>5. QED
  BY <1>1, <1>3, <1>4

-----------------------------------------------------------------------------
(* The theorems.                                                           *)

\* The inductive invariant of the digest: streaks count what they say.
THEOREM AlerterInvariant == Spec => []AlerterInv
<1>1. AlerterInv /\ [Next]_vars => AlerterInv'
  BY AlerterStep
<1>2. QED
  BY AlerterInitInv, <1>1, PTL DEF Spec

\* Type correctness of the alerter's tables, cycle and channel (AlerterTypeOK).
THEOREM AlerterTypeCorrect == Spec => []AlerterTypeOK
<1>1. AlerterInv => AlerterTypeOK
  BY DEF AlerterInv
<1>2. QED
  BY <1>1, AlerterInvariant, PTL

\* DebounceIsExact for every roster, every Confirm of at least two and every
\* interleaving of failures and restarts: debounced_fingerprint settles a state
\* when and only when it was observed Confirm times in a row.
THEOREM DebounceAlwaysExact == Spec => DebounceIsExact
<1>1. AlerterInv /\ [Next]_vars =>
         [\A i \in Indexer :
             /\ member'[i].stable # member[i].stable =>
                   Sustained(history'[i]) /\ history'[i][1] = member'[i].stable
             /\ Sustained(history'[i]) => member'[i].stable = history'[i][1]]_vars
  <2> SUFFICES ASSUME AlerterInv, [Next]_vars, NEW i \in Indexer
               PROVE  ExactStep(member[i], member'[i], history'[i])
    BY DEF ExactStep
  <2>1. AlerterInv'
    BY AlerterStep
  <2>2. CASE ExactStep(member[i], member'[i], history'[i])
    BY <2>2
  <2>3. CASE history'[i] = history[i] /\ member'[i] = member[i]
    <3>1. /\ member'[i] \in Member
          /\ history'[i] \in [1..Confirm -> State]
          /\ MemberOK(member'[i], history'[i])
      BY <2>1 DEF AlerterInv, AlerterTypeOK
    <3>2. Sustained(history'[i]) => member'[i].stable = history'[i][1]
      BY <3>1, SustainedIsSettled
    <3>3. QED
      BY <2>3, <3>2 DEF ExactStep
  <2>4. QED
    BY <2>2, <2>3, AlerterStep
<1>2. QED
  BY <1>1, AlerterInvariant, PTL DEF Spec, DebounceIsExact

-----------------------------------------------------------------------------
(* What stays right.  alerter_state speaks for the channel: the digest is  *)
(* left out when the fingerprint it holds is the one to show.  A post that *)
(* failed, or that was not recorded, can make the two differ.              *)

\* What is about to be recorded is what the channel shows.
SaveIsOfPost == cycle.pc = "save" => channel.whole /\ channel.fingerprint = Fingerprint

\* Only a delivered post is followed by save_state, and members do not change between.
LEMMA SavesFollowPosts == Spec => []SaveIsOfPost
<1>1. Init => SaveIsOfPost
  BY DEF Init, At, SaveIsOfPost
<1>2. AlerterTypeOK /\ SaveIsOfPost /\ [Next]_vars => SaveIsOfPost'
  <2> SUFFICES ASSUME AlerterTypeOK, SaveIsOfPost, [Next]_vars
               PROVE  SaveIsOfPost'
    OBVIOUS
  <2>1. CASE Post
    BY <2>1 DEF Post, Show, SaveIsOfPost, Fingerprint
  <2>2. CASE UNCHANGED <<cycle, channel, member>>
    BY <2>2 DEF SaveIsOfPost, Fingerprint
  <2>3. CASE (\E i \in Indexer : Change(i)) \/ UNCHANGED vars
    BY <2>2, <2>3 DEF Change, vars
  <2>4. CASE Start
    BY <2>4 DEF Start, SaveIsOfPost
  <2>5. CASE Save \/ Wake \/ PostFails \/ Fail \/ Restart
    <3>1. cycle' = At("sleep") \/ cycle' = At("start")
      BY <2>5 DEF Save, Wake, PostFails, Fail, Restart
    <3> QED BY <3>1 DEF At, SaveIsOfPost
  <2>6. CASE DebounceMember \/ Decide
    <3>1. cycle'.pc \in {"members", "post", "sleep"}
      BY <2>6 DEF DebounceMember, Decide, At, AlerterTypeOK, Cycle
    <3> QED BY <3>1 DEF SaveIsOfPost
  <2> QED BY <2>1, <2>3, <2>4, <2>5, <2>6 DEF Next, CycleStep
<1> QED BY <1>1, <1>2, AlerterTypeCorrect, PTL DEF Spec

\* The channel shows a whole digest, of the fingerprint on record.
Shown == channel.whole /\ channel.fingerprint = state.fingerprint

\* A change of the roster, or a statement that did what it should; the read of
\* alerter_state may fail.
Undisturbed == (\E i \in Indexer : Change(i)) \/ CycleStep

\* The same within a cycle, with the settled states once the cycle is over.
ShownSoFar ==
    /\ cycle.pc = "save" \/ Shown
    /\ cycle.pc = "sleep" => channel.fingerprint = Fingerprint

\* Every statement of an undisturbed cycle keeps the two in step.
LEMMA ShownStepByStep ==
    ASSUME AlerterTypeOK, SaveIsOfPost, ShownSoFar, [Undisturbed]_vars
    PROVE  ShownSoFar'
<1>1. CASE Post
  BY <1>1 DEF Post, ShownSoFar, AlerterTypeOK, Cycle
<1>2. CASE Save
  BY <1>2 DEF Save, ShownSoFar, SaveIsOfPost, Shown, Fingerprint, At
<1>3. CASE Decide
  <2>1. Shown' /\ UNCHANGED member
    BY <1>3 DEF Decide, ShownSoFar, Shown
  <2>2. CASE cycle' = At("sleep") /\ ~Changed
    <3>1. Fingerprint' = Fingerprint
      BY <2>1 DEF Fingerprint
    <3> QED BY <1>3, <2>1, <2>2, <3>1 DEF Decide, ShownSoFar, Shown, Changed
  <2>3. CASE cycle' = [cycle EXCEPT !.pc = "post"]
    BY <2>1, <2>3 DEF ShownSoFar, AlerterTypeOK, Cycle
  <2> QED BY <1>3, <2>2, <2>3 DEF Decide
<1>4. CASE Start \/ DebounceMember \/ Wake
  BY <1>4 DEF Start, DebounceMember, Wake, At, ShownSoFar, Shown, AlerterTypeOK, Cycle, AlerterState
<1>5. CASE (\E i \in Indexer : Change(i)) \/ UNCHANGED vars
  BY <1>5 DEF Change, vars, ShownSoFar, Shown, Fingerprint
<1> QED BY <1>1, <1>2, <1>3, <1>4, <1>5 DEF Undisturbed, CycleStep

\* run_cycle and save_state: from a recorded post on, or from a cycle that begins with
\* the channel as recorded, every cycle ends with the channel showing the settled
\* states, for as long as no post and no statement fails and nothing restarts, however
\* the roster changes meanwhile.
THEOREM DigestStaysTrue ==
    Spec => []( /\ cycle.pc = "save" \/ (cycle.pc = "start" /\ Shown)
                /\ [][Undisturbed]_vars
                => [](cycle.pc = "sleep" => Shown /\ channel.fingerprint = Fingerprint) )
<1>1. cycle.pc = "save" \/ (cycle.pc = "start" /\ Shown) => ShownSoFar
  BY DEF ShownSoFar
<1>2. AlerterTypeOK /\ SaveIsOfPost /\ [Undisturbed]_vars /\ ShownSoFar => ShownSoFar'
  BY ShownStepByStep
<1>3. ShownSoFar => (cycle.pc = "sleep" => Shown /\ channel.fingerprint = Fingerprint)
  BY DEF ShownSoFar
<1> QED BY <1>1, <1>2, <1>3, AlerterTypeCorrect, SavesFollowPosts, PTL DEF Spec
=============================================================================
