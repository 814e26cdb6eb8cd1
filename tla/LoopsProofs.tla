----------------------------- MODULE LoopsProofs -----------------------------
(***************************************************************************)
(* The loops of MCLoops, for every value of the constants and every choice *)
(* of the loop that runs.  Each has an inductive invariant of its own; a   *)
(* step of a behaviour is a step of one loop and leaves the others as they *)
(* are, so that the invariants hold together (LoopsInvariant), and the     *)
(* properties of the runs follow.                                          *)
(***************************************************************************)
EXTENDS MCLoops, Sequences, FiniteSetTheorems, NaturalsInduction, WellFoundedInduction, TLAPS

-----------------------------------------------------------------------------
(* The fee ingest.  The invariant of the table, PassedIsStored, speaks of  *)
(* the newest block stored.  A pass keeps it because of what the pass      *)
(* knows: its resume point is covered by the table, its rows are the first *)
(* ones after that point, and a short page leaves out nothing of the       *)
(* blocks it reaches.                                                      *)

\* Every settlement up to block s is stored or in a cut block.
Covered(s) == \A e \in Event : e.block <= s => e \in fees \/ e.block \in cut

SinceIsCovered == pass.pc \in {"fetch", "store"} => Covered(pass.since)

\* The page is a beginning of what comes after the resume point.
PageIsPrefix ==
    pass.pc = "store" =>
        \A e \in pass.rows : \A f \in Event :
            f.block > pass.since /\ Before(f, e) => f \in pass.rows

\* A short page ends with the last settlement of its last block.
ShortPageIsWhole ==
    pass.pc = "store" /\ ~Full(pass.rows) =>
        \A e \in pass.rows : \A f \in Event :
            f.block > pass.since /\ f.block <= e.block => f \in pass.rows

IInv ==
    /\ FeeTypeOK
    /\ PassedIsStored
    /\ SinceIsCovered
    /\ PageIsPrefix
    /\ ShortPageIsWhole

\* The cursor of a table with PassedIsStored is covered.
LEMMA CursorIsCovered ==
    ASSUME PassedIsStored, NEW s \in Block, IsCursor(s)
    PROVE  Covered(s)
<1>1. CASE s = 0
  BY <1>1, EventAssumption DEF Covered
<1>2. CASE \E f \in fees : f.block = s
  BY <1>2 DEF Covered, PassedIsStored
<1> QED BY <1>1, <1>2 DEF IsCursor

\* The invariant holds at the start.
LEMMA InitIInv == Init => IInv
<1> SUFFICES ASSUME Init PROVE IInv
  OBVIOUS
<1>1. FeeTypeOK
  BY EventAssumption, FeeBounds DEF Init, FeeTypeOK, Resuming, Block
<1>2. PassedIsStored
  BY DEF Init, PassedIsStored
<1>3. SinceIsCovered /\ PageIsPrefix /\ ShortPageIsWhole
  BY DEF Init, Resuming, SinceIsCovered, PageIsPrefix, ShortPageIsWhole
<1> QED BY <1>1, <1>2, <1>3 DEF IInv

\* Steps that leave the table alone and end at rest or at the resume point.
LEMMA RestKeepsIInv ==
    ASSUME IInv, UNCHANGED <<fees, cut>>,
           pass' = Sleeping \/ pass' = Resuming, FeeTypeOK'
    PROVE  IInv'
<1>1. PassedIsStored'
  BY DEF IInv, PassedIsStored
<1>2. (SinceIsCovered /\ PageIsPrefix /\ ShortPageIsWhole)'
  BY DEF Sleeping, Resuming, SinceIsCovered, PageIsPrefix, ShortPageIsWhole
<1> QED BY <1>1, <1>2 DEF IInv

\* A resume point that is covered starts a pass.
LEMMA StartKeepsIInv ==
    ASSUME IInv, UNCHANGED <<fees, cut>>, FeeTypeOK',
           NEW s \in Block, Covered(s),
           pass' = [pass EXCEPT !.pc = "fetch", !.since = s]
    PROVE  IInv'
<1>1. PassedIsStored'
  BY DEF IInv, PassedIsStored
<1>2. pass'.pc = "fetch" /\ pass'.since = s
  BY DEF IInv, FeeTypeOK
<1>3. SinceIsCovered'
  BY <1>2 DEF SinceIsCovered, Covered
<1>4. (PageIsPrefix /\ ShortPageIsWhole)'
  BY <1>2 DEF PageIsPrefix, ShortPageIsWhole
<1> QED BY <1>1, <1>3, <1>4 DEF IInv

-----------------------------------------------------------------------------
(* Types.                                                                  *)

\* A failure keeps the type of the counters.
LEMMA SpentKeepsType ==
    ASSUME FeeTypeOK, Failure
    PROVE  spent' \in [failures : 0..MaxFailures, crashes : 0..MaxCrashes]
BY FeeBounds DEF FeeTypeOK, Failure

\* Every step keeps the types.
LEMMA TypeStep == FeeTypeOK /\ [Next]_vars => FeeTypeOK'
<1> SUFFICES ASSUME FeeTypeOK, [Next]_vars PROVE FeeTypeOK'
  OBVIOUS
<1> USE DEF FeeTypeOK, Sleeping, Resuming
<1>0. 0 \in Block
  BY EventAssumption DEF Block
<1>1. CASE Seal
  BY <1>1, EventAssumption DEF Seal, Block
<1>2. CASE Resume
  BY <1>2 DEF Resume
<1>3. CASE Fetch
  <2>1. PICK rows \in SUBSET Newer(pass.since) :
            pass' = IF rows = {} THEN Sleeping ELSE [pass EXCEPT !.pc = "store", !.rows = rows]
    BY <1>3 DEF Fetch
  <2>2. rows \subseteq Event
    BY DEF Newer
  <2> QED BY <1>0, <1>3, <2>1, <2>2 DEF Fetch
<1>4. CASE Store
  BY <1>0, <1>4 DEF Store, EndsIn
<1>5. CASE Wake
  BY <1>0, <1>5 DEF Wake
<1>6. CASE ResumeFails
  BY <1>0, <1>6, SpentKeepsType DEF ResumeFails
<1>7. CASE FetchFails
  BY <1>0, <1>7, SpentKeepsType DEF FetchFails
<1>8. CASE StoreFails
  BY <1>0, <1>8, SpentKeepsType DEF StoreFails
<1>9. CASE Crash
  BY <1>0, <1>9, FeeBounds DEF Crash
<1>10. CASE UNCHANGED vars
  BY <1>10 DEF vars
<1> QED BY <1>1, <1>2, <1>3, <1>4, <1>5, <1>6, <1>7, <1>8, <1>9, <1>10 DEF Next, Loop, Faults

-----------------------------------------------------------------------------
(* The steps that matter: reading a page and storing it.                   *)

\* A page that was just read is a prefix, and whole when it is short.
LEMMA FetchStep == ASSUME IInv, Fetch, FeeTypeOK' PROVE IInv'
<1>1. PICK rows \in SUBSET Newer(pass.since) :
          /\ IsPage(rows, Newer(pass.since))
          /\ pass' = IF rows = {} THEN Sleeping ELSE [pass EXCEPT !.pc = "store", !.rows = rows]
  BY DEF Fetch
<1>2. CASE rows = {}
  BY <1>1, <1>2, RestKeepsIInv DEF Fetch
<1>3. CASE rows # {}
  <2>1. pass'.pc = "store" /\ pass'.since = pass.since /\ pass'.rows = rows
    BY <1>1, <1>3 DEF IInv, FeeTypeOK
  <2>2. PassedIsStored' /\ SinceIsCovered'
    BY <2>1 DEF IInv, PassedIsStored, SinceIsCovered, Covered, Fetch
  <2>3. \A e \in rows : e \in Event /\ e.block \in Nat /\ e.log \in Nat /\ e.block <= sealed
    BY EventAssumption DEF Newer
  <2>4. sealed \in Nat /\ pass.since \in Nat
    BY EventAssumption DEF IInv, FeeTypeOK, Block
  <2>5. PageIsPrefix'
    <3> SUFFICES ASSUME NEW e \in rows, NEW f \in Event, f.block > pass.since, Before(f, e)
                 PROVE  f \in rows
      BY <2>1 DEF PageIsPrefix, Before
    <3>1. f.block <= sealed
      BY <2>3, <2>4, EventAssumption DEF Before
    <3>2. f \in Newer(pass.since)
      BY <3>1 DEF Newer
    <3> QED BY <1>1, <3>2 DEF IsPage
  <2>6. ShortPageIsWhole'
    <3> SUFFICES ASSUME ~Full(rows), NEW e \in rows, NEW f \in Event,
                        f.block > pass.since, f.block <= e.block
                 PROVE  f \in rows
      BY <2>1 DEF ShortPageIsWhole, Full
    <3>1. f.block <= sealed
      BY <2>3, <2>4, EventAssumption
    <3>2. f \in Newer(pass.since)
      BY <3>1 DEF Newer
    <3> QED BY <1>1, <3>2 DEF IsPage, Full
  <2> QED BY <2>2, <2>5, <2>6 DEF IInv
<1> QED BY <1>2, <1>3

\* A settlement the new rows have passed was covered before, is among the rows,
\* or shares the block a full page ended in.
LEMMA StoreStep == ASSUME IInv, Store, FeeTypeOK' PROVE IInv'
<1>1. pass.pc = "store" /\ pass.rows \subseteq Event
  BY DEF Store, IInv, FeeTypeOK
<1>2. fees' = fees \cup pass.rows /\ cut \subseteq cut'
  BY DEF Store
<1>3. pass.since \in Nat
  BY EventAssumption DEF IInv, FeeTypeOK, Block
<1>4. ASSUME NEW e \in Event, NEW f \in pass.rows, e.block <= f.block
      PROVE  e \in fees' \/ e.block \in cut'
  <2>0. e.block \in Nat /\ f.block \in Nat /\ e.block \in Block
    BY <1>1, EventAssumption DEF Block
  <2>1. CASE e.block <= pass.since
    BY <1>1, <1>2, <2>1 DEF IInv, SinceIsCovered, Covered
  <2>2. CASE e.block > pass.since /\ ~Full(pass.rows)
    BY <1>1, <1>2, <1>4, <2>2 DEF IInv, ShortPageIsWhole
  <2>3. CASE e.block > pass.since /\ Full(pass.rows) /\ \E g \in pass.rows : e.block < g.block
    BY <1>1, <1>2, <2>3 DEF IInv, PageIsPrefix, Before
  <2>4. CASE Full(pass.rows) /\ \A g \in pass.rows : ~(e.block < g.block)
    <3>1. \A g \in pass.rows : g.block \in Nat
      BY <1>1, EventAssumption
    <3>2. \A g \in pass.rows : g.block <= e.block
      BY <2>0, <2>4, <3>1
    <3>3. f.block = e.block
      BY <1>4, <2>0, <3>2
    <3>4. e.block \in EndsIn(pass.rows)
      BY <2>0, <3>2, <3>3 DEF EndsIn
    <3> QED BY <2>4, <3>4 DEF Store
  <2> QED BY <1>3, <2>0, <2>1, <2>2, <2>3, <2>4
<1>5. PassedIsStored'
  BY <1>2, <1>4 DEF IInv, PassedIsStored
<1>6. pass' = Sleeping \/ pass' = Resuming
  BY DEF Store
<1>7. (SinceIsCovered /\ PageIsPrefix /\ ShortPageIsWhole)'
  BY <1>6 DEF Sleeping, Resuming, SinceIsCovered, PageIsPrefix, ShortPageIsWhole
<1> QED BY <1>5, <1>7 DEF IInv

\* Every step keeps the invariant.
LEMMA NextIInv == IInv /\ [Next]_vars => IInv'
<1> SUFFICES ASSUME IInv, [Next]_vars PROVE IInv'
  OBVIOUS
<1>0. FeeTypeOK'
  BY TypeStep DEF IInv
<1>1. CASE Seal
  BY <1>0, <1>1 DEF Seal, IInv, PassedIsStored, SinceIsCovered, Covered, PageIsPrefix, ShortPageIsWhole
<1>2. CASE Resume
  <2>1. PICK s \in Block : IsCursor(s) /\ pass' = [pass EXCEPT !.pc = "fetch", !.since = s]
    BY <1>2 DEF Resume
  <2>2. Covered(s)
    BY <2>1, CursorIsCovered DEF IInv
  <2> QED BY <1>0, <1>2, <2>1, <2>2, StartKeepsIInv DEF Resume
<1>3. CASE ResumeFails
  <2>1. 0 \in Block /\ Covered(0)
    BY EventAssumption DEF Block, Covered
  <2> QED BY <1>0, <1>3, <2>1, StartKeepsIInv DEF ResumeFails
<1>4. CASE Fetch
  BY <1>0, <1>4, FetchStep
<1>5. CASE Store
  BY <1>0, <1>5, StoreStep
<1>6. CASE FetchFails \/ StoreFails \/ Wake \/ Crash
  BY <1>0, <1>6, RestKeepsIInv DEF FetchFails, StoreFails, Wake, Crash
<1>7. CASE UNCHANGED vars
  BY <1>7 DEF vars, IInv, FeeTypeOK, PassedIsStored, SinceIsCovered, Covered, PageIsPrefix, ShortPageIsWhole
<1> QED BY <1>1, <1>2, <1>3, <1>4, <1>5, <1>6, <1>7 DEF Next, Loop, Faults

-----------------------------------------------------------------------------

\* The invariant holds always.
LEMMA FeeInvariant == Spec => []IInv
<1>1. Init => IInv
  BY InitIInv
<1>2. IInv /\ [Next]_vars => IInv'
  BY NextIInv
<1> QED BY <1>1, <1>2, PTL DEF Spec

\* Types of the fee ingest loop, for every page size and set of settlements.
THEOREM FeeTypes == Spec => []FeeTypeOK
<1>1. IInv => FeeTypeOK
  BY DEF IInv
<1> QED BY <1>1, FeeInvariant, PTL

\* ingest_once never passes a settlement it has not stored, except in the block a
\* full page ended in, whatever fails and whenever the process restarts.
THEOREM PassedSettlementsAreStored == Spec => []PassedIsStored
<1>1. IInv => PassedIsStored
  BY DEF IInv
<1> QED BY <1>1, FeeInvariant, PTL

-----------------------------------------------------------------------------
(* Least and greatest elements of sets of naturals.                        *)

\* A set of naturals that is not empty has a least element.
LEMMA HasLeast ==
    ASSUME NEW S \in SUBSET Nat, S # {}
    PROVE  \E a \in S : \A b \in S : a <= b
<1> DEFINE less == {pair \in Nat \X Nat : pair[1] < pair[2]}
<1>1. IsWellFoundedOn(less, Nat)
  BY NatLessThanWellFounded DEF OpToRel
<1>2. PICK a \in S : \A b \in S : ~(<<b, a>> \in less)
  <2> HIDE DEF less
  <2> QED BY <1>1, WFMin
<1>3. ASSUME NEW b \in S PROVE a <= b
  <2>1. a \in Nat /\ b \in Nat
    OBVIOUS
  <2>2. ~(b < a)
    BY <1>2, <2>1
  <2> QED BY <2>1, <2>2
<1> QED BY <1>3

\* And a greatest one when it is finite: of the finite sets without one there would
\* be a smallest, and to take an element from it would leave one with a greatest.
LEMMA FiniteHasGreatest ==
    ASSUME NEW S \in SUBSET Nat, IsFiniteSet(S), S # {}
    PROVE  \E a \in S : \A b \in S : b <= a
<1> DEFINE Bounded(U) == \E a \in U : \A b \in U : b <= a
           sizes == {n \in Nat : \E U \in SUBSET S :
                                     U # {} /\ Cardinality(U) = n /\ ~Bounded(U)}
<1> SUFFICES ASSUME ~Bounded(S) PROVE FALSE
  OBVIOUS
<1>1. Cardinality(S) \in sizes
  BY FS_CardinalityType
<1>2. PICK n \in sizes : \A m \in sizes : n <= m
  <2> HIDE DEF sizes
  <2>1. sizes \subseteq Nat
    BY DEF sizes
  <2> QED BY <1>1, <2>1, HasLeast
<1>3. PICK U \in SUBSET S : U # {} /\ Cardinality(U) = n /\ ~Bounded(U)
  OBVIOUS
<1>4. PICK x \in U : TRUE
  BY <1>3
<1>5. IsFiniteSet(U) /\ n \in Nat
  BY FS_Subset
<1>6. Cardinality(U \ {x}) = n - 1 /\ IsFiniteSet(U \ {x})
  BY <1>3, <1>4, <1>5, FS_RemoveElement
<1>7. Cardinality(U \ {x}) \in Nat
  BY <1>6, FS_CardinalityType
<1>8. n - 1 \notin sizes
  BY <1>2, <1>5
<1>9. CASE U \ {x} = {}
  <2>1. x \in Nat /\ \A b \in U : b = x
    BY <1>4, <1>9
  <2> QED BY <1>3, <1>4, <2>1
<1>10. CASE U \ {x} # {}
  <2>1. Bounded(U \ {x})
    BY <1>6, <1>7, <1>8, <1>10
  <2>2. PICK a \in U \ {x} : \A b \in U \ {x} : b <= a
    BY <2>1
  <2>3. a \in Nat /\ x \in Nat
    BY <1>4
  <2>4. \A b \in U : b <= (IF a <= x THEN x ELSE a)
    BY <1>4, <2>2, <2>3
  <2> QED BY <1>3, <1>4, <2>2, <2>3, <2>4
<1> QED BY <1>9, <1>10

\* The modules of the loops count as this one does.
LEMMA LodestarCounts ==
    \A S : (Lodestar!IsFiniteSet(S) <=> IsFiniteSet(S)) /\ Lodestar!Cardinality(S) = Cardinality(S)
<1>1. \A S : Lodestar!IsFiniteSet(S) <=> IsFiniteSet(S)
  BY DEF Lodestar!IsFiniteSet, IsFiniteSet
<1>2. \A S : Lodestar!Cardinality(S) = Cardinality(S)
  BY DEF Lodestar!Cardinality, Cardinality
<1> QED BY <1>1, <1>2

LEMMA SwarmCounts ==
    \A S : (Swarm!IsFiniteSet(S) <=> IsFiniteSet(S)) /\ Swarm!Cardinality(S) = Cardinality(S)
<1>1. \A S : Swarm!IsFiniteSet(S) <=> IsFiniteSet(S)
  BY DEF Swarm!IsFiniteSet, IsFiniteSet
<1>2. \A S : Swarm!Cardinality(S) = Cardinality(S)
  BY DEF Swarm!Cardinality, Cardinality
<1> QED BY <1>1, <1>2

-----------------------------------------------------------------------------
(* OracleMirror.  The step that matters is the insert: a post whose row is *)
(* new has never been fetched, so the fetch that follows is its first, and *)
(* its last.                                                               *)

PollType ==
    /\ poll \in [pc : {"idle", "walk", "capture"}, at : Nat, stop : Nat]
    /\ posted \in Nat
    /\ tried \in [Mirror!Post -> Nat]
    /\ broken \subseteq messages

\* A post that is about to be fetched has its row, and its turn.
CaptureOK ==
    poll.pc = "capture" =>
        /\ CapturePayloads
        /\ poll.at \in Mirror!Post \cap (messages \ broken) /\ poll.at > poll.stop

MirrorInv == PollType /\ CaptureOK /\ Mirror!OneAttempt

\* The invariant holds at the start.
LEMMA MirrorInit == Mirror!Init => MirrorInv
BY DEF Mirror!Init, Mirror!Idle, MirrorInv, PollType, CaptureOK, Mirror!OneAttempt,
       Mirror!Post

\* A step that leaves the rows and the fetches alone.
LEMMA WalkKeeps ==
    ASSUME MirrorInv, UNCHANGED <<messages, tried, broken>>, posted' \in Nat,
           \/ poll' = poll
           \/ poll.pc # "capture" /\ poll' \in [pc : {"idle", "walk"}, at : Nat, stop : Nat]
    PROVE  MirrorInv'
<1>1. PollType'
  BY DEF MirrorInv, PollType
<1>2. poll' = poll \/ (poll.pc # "capture" /\ poll'.pc # "capture")
  OBVIOUS
<1>3. CaptureOK' /\ Mirror!OneAttempt'
  BY <1>2 DEF MirrorInv, CaptureOK, Mirror!OneAttempt
<1> QED BY <1>1, <1>3 DEF MirrorInv

\* Every step keeps the invariant.
LEMMA MirrorNext == MirrorInv /\ [Mirror!Next]_(Mirror!vars) => MirrorInv'
<1> SUFFICES ASSUME MirrorInv, [Mirror!Next]_(Mirror!vars) PROVE MirrorInv'
  OBVIOUS
<1>0. PollType /\ CaptureOK /\ Mirror!OneAttempt
  BY DEF MirrorInv
<1>1. CASE Mirror!Publish
  BY <1>0, <1>1, WalkKeeps DEF Mirror!Publish, PollType
<1>2. CASE Mirror!FetchPage
  <2>1. PageLen \in Nat
    BY MirrorConstants DEF Mirror!MirrorAssumption
  <2>2. (IF posted > PageLen THEN posted - PageLen ELSE 0) \in Nat
    BY <1>0, <2>1 DEF PollType
  <2> QED BY <1>0, <1>2, <2>2, WalkKeeps DEF Mirror!FetchPage, PollType
<1>3. CASE Mirror!PassOver
  <2>1. poll.at - 1 \in Nat
    BY <1>0, <1>3 DEF Mirror!PassOver, PollType
  <2> QED BY <1>0, <1>3, <2>1, WalkKeeps DEF Mirror!PassOver, Mirror!Step, PollType
<1>4. CASE Mirror!Insert
  <2>1. poll.at \in Mirror!Post /\ poll.at - 1 \in Nat
    BY <1>0, <1>4, MirrorConstants
       DEF Mirror!Insert, PollType, Mirror!MirrorAssumption, Mirror!Post
  <2>2. CASE poll.at \in messages
    BY <1>0, <1>4, <2>1, <2>2, WalkKeeps DEF Mirror!Insert, Mirror!Step, PollType
  <2>3. CASE poll.at \notin messages /\ ~CapturePayloads
    <3>1. /\ poll' = [poll EXCEPT !.pc = "walk", !.at = @ - 1] /\ posted' = posted
          /\ messages' = messages \cup {poll.at} /\ UNCHANGED <<tried, broken>>
      BY <1>4, <2>3 DEF Mirror!Insert, Mirror!ToCapture, Mirror!Step
    <3>2. PollType' /\ poll'.pc = "walk"
      BY <1>0, <2>1, <3>1 DEF PollType
    <3>3. CaptureOK' /\ Mirror!OneAttempt'
      BY <1>0, <2>3, <3>1, <3>2 DEF CaptureOK, Mirror!OneAttempt
    <3> QED BY <3>2, <3>3 DEF MirrorInv
  <2>4. CASE poll.at \notin messages /\ CapturePayloads
    <3>1. /\ poll'.pc = "capture" /\ poll'.at = poll.at /\ poll'.stop = poll.stop
          /\ messages' = messages \cup {poll.at} /\ UNCHANGED <<tried, broken>>
          /\ poll.pc = "walk" /\ poll.at > poll.stop
      BY <1>0, <1>4, <2>4 DEF Mirror!Insert, Mirror!ToCapture, PollType
    <3>2. PollType'
      BY <1>0, <1>4, <2>4 DEF Mirror!Insert, Mirror!ToCapture, PollType
    <3>3. CaptureOK'
      BY <1>0, <2>1, <2>4, <3>1 DEF CaptureOK, PollType
    <3>4. ASSUME NEW n \in Mirror!Post
          PROVE  (n \in messages' \ broken' /\ ~(poll'.pc = "capture" /\ poll'.at = n))
                    <=> (n \in messages \ broken /\ ~(poll.pc = "capture" /\ poll.at = n))
      BY <2>4, <3>1
    <3>5. Mirror!OneAttempt'
      BY <1>0, <3>1, <3>4 DEF Mirror!OneAttempt
    <3> QED BY <3>2, <3>3, <3>5 DEF MirrorInv
  <2> QED BY <2>2, <2>3, <2>4
<1>5. CASE Mirror!Capture
  <2>1. /\ poll.pc = "capture" /\ poll'.pc = "walk" /\ UNCHANGED <<messages, broken>>
        /\ tried' = [tried EXCEPT ![poll.at] = @ + 1]
        /\ poll.at \in Mirror!Post /\ CapturePayloads /\ poll.at \in messages \ broken
    BY <1>0, <1>5 DEF Mirror!Capture, Mirror!Step, PollType, CaptureOK
  <2>2. PollType'
    <3>1. poll.at - 1 \in Nat
      BY <1>0, <2>1 DEF PollType, CaptureOK
    <3>2. poll' = [poll EXCEPT !.pc = "walk", !.at = @ - 1] /\ posted' = posted
      BY <1>5 DEF Mirror!Capture, Mirror!Step
    <3>3. poll' \in [pc : {"idle", "walk", "capture"}, at : Nat, stop : Nat]
      BY <1>0, <3>1, <3>2 DEF PollType
    <3>4. tried' \in [Mirror!Post -> Nat]
      BY <1>0, <2>1 DEF PollType
    <3> QED BY <1>0, <2>1, <3>2, <3>3, <3>4 DEF PollType
  <2>3. CaptureOK'
    BY <2>1 DEF CaptureOK
  <2>4. ASSUME NEW n \in Mirror!Post, n # poll.at
        PROVE  tried'[n] = tried[n]
    BY <1>0, <2>1, <2>4 DEF PollType
  <2>5. tried[poll.at] = 0 /\ tried'[poll.at] = 1
    BY <1>0, <2>1 DEF Mirror!OneAttempt, PollType
  <2>6. Mirror!OneAttempt'
    BY <1>0, <2>1, <2>4, <2>5 DEF Mirror!OneAttempt
  <2> QED BY <2>2, <2>3, <2>6 DEF MirrorInv
<1>6. CASE Mirror!EndPoll
  BY <1>0, <1>6, WalkKeeps DEF Mirror!EndPoll, Mirror!Idle, PollType
<1>7. CASE Mirror!InsertFails
  BY <1>0, <1>7, WalkKeeps DEF Mirror!InsertFails, Mirror!Idle, PollType
<1>8. CASE Mirror!Crash
  <2>1. /\ poll' = Mirror!Idle /\ UNCHANGED <<posted, messages, tried>>
        /\ broken' = IF poll.pc = "capture" THEN broken \cup {poll.at} ELSE broken
    BY <1>8 DEF Mirror!Crash
  <2>2. PollType' /\ CaptureOK'
    BY <1>0, <2>1 DEF PollType, CaptureOK, Mirror!Idle
  <2>3. Mirror!OneAttempt'
    BY <1>0, <2>1 DEF Mirror!OneAttempt, CaptureOK, Mirror!Idle
  <2> QED BY <2>2, <2>3 DEF MirrorInv
<1>9. CASE UNCHANGED Mirror!vars
  BY <1>0, <1>9, WalkKeeps DEF Mirror!vars, PollType
<1> QED BY <1>1, <1>2, <1>3, <1>4, <1>5, <1>6, <1>7, <1>8, <1>9 DEF Mirror!Next, Mirror!Loop

\* Rows, fetches and walk stay within what has been posted.
LEMMA MirrorTypeStep ==
    MirrorInv /\ Mirror!MirrorTypeOK /\ [Mirror!Next]_(Mirror!vars) => Mirror!MirrorTypeOK'
<1> SUFFICES ASSUME MirrorInv, Mirror!MirrorTypeOK, [Mirror!Next]_(Mirror!vars)
             PROVE  Mirror!MirrorTypeOK'
  OBVIOUS
<1>0. PollType /\ CaptureOK /\ PollType' /\ MaxPost \in Nat /\ PageLen \in Nat \ {0}
  BY MirrorNext, MirrorConstants DEF MirrorInv, Mirror!MirrorAssumption
<1>1. CASE Mirror!Publish
  <2>1. posted' = posted + 1 /\ posted' \in 0..MaxPost /\ 1..posted \subseteq 1..posted'
    BY <1>0, <1>1 DEF Mirror!Publish, Mirror!MirrorTypeOK
  <2>2. messages' \subseteq 1..posted' /\ poll'.at <= posted'
    BY <1>0, <1>1, <2>1 DEF Mirror!Publish, Mirror!MirrorTypeOK, PollType
  <2> QED BY <1>1, <2>1, <2>2 DEF Mirror!Publish, Mirror!MirrorTypeOK
<1>2. CASE Mirror!FetchPage
  <2>1. LET stop == IF posted > PageLen THEN posted - PageLen ELSE 0
        IN  stop \in Nat /\ stop <= posted
    BY <1>0 DEF PollType
  <2> QED BY <1>0, <1>2, <2>1 DEF Mirror!FetchPage, Mirror!MirrorTypeOK
<1>3. CASE Mirror!PassOver
  BY <1>0, <1>3 DEF Mirror!PassOver, Mirror!Step, Mirror!MirrorTypeOK, PollType
<1>4. CASE Mirror!Insert
  <2>1. poll.at \in 1..posted
    BY <1>0, <1>4 DEF Mirror!Insert, Mirror!MirrorTypeOK, PollType
  <2>2. /\ poll'.pc \in {"walk", "capture"} /\ poll'.stop = poll.stop
        /\ poll'.at = poll.at \/ poll'.at = poll.at - 1
    BY <1>0, <1>4 DEF Mirror!Insert, Mirror!ToCapture, Mirror!Step, PollType
  <2>3. /\ poll'.pc \in {"idle", "walk", "capture"}
        /\ 0 <= poll'.stop /\ poll'.stop <= poll'.at /\ poll'.at <= posted
    <3>1. poll.at > poll.stop /\ poll.at \in Nat /\ poll.stop \in Nat /\ posted \in Nat
      BY <1>0, <1>4 DEF Mirror!Insert, PollType
    <3> QED BY <2>1, <2>2, <3>1
  <2> QED BY <1>0, <1>4, <2>1, <2>3 DEF Mirror!Insert, Mirror!MirrorTypeOK
<1>5. CASE Mirror!Capture
  <2>1. poll.at \in messages /\ poll.at > poll.stop
    BY <1>0, <1>5 DEF Mirror!Capture, CaptureOK
  <2>2. poll' = [poll EXCEPT !.pc = "walk", !.at = @ - 1]
    BY <1>5 DEF Mirror!Capture, Mirror!Step
  <2>3. /\ poll'.pc \in {"idle", "walk", "capture"}
        /\ 0 <= poll'.stop /\ poll'.stop <= poll'.at /\ poll'.at <= posted
    BY <1>0, <2>1, <2>2 DEF Mirror!MirrorTypeOK, PollType
  <2> QED BY <1>0, <1>5, <2>1, <2>3 DEF Mirror!Capture, Mirror!MirrorTypeOK, PollType
<1>6. CASE Mirror!EndPoll
  BY <1>0, <1>6 DEF Mirror!EndPoll, Mirror!Idle, Mirror!MirrorTypeOK
<1>7. CASE Mirror!InsertFails
  BY <1>0, <1>7, MirrorConstants
     DEF Mirror!InsertFails, Mirror!Failure, Mirror!Idle, Mirror!MirrorTypeOK, Mirror!MirrorAssumption
<1>8. CASE Mirror!Crash
  <2>1. broken' \subseteq messages'
    BY <1>0, <1>8 DEF Mirror!Crash, Mirror!MirrorTypeOK, CaptureOK
  <2> QED BY <1>0, <1>8, <2>1, MirrorConstants
          DEF Mirror!Crash, Mirror!Idle, Mirror!MirrorTypeOK, Mirror!MirrorAssumption
<1>9. CASE UNCHANGED Mirror!vars
  BY <1>9 DEF Mirror!vars, Mirror!MirrorTypeOK
<1> QED BY <1>1, <1>2, <1>3, <1>4, <1>5, <1>6, <1>7, <1>8, <1>9 DEF Mirror!Next, Mirror!Loop

-----------------------------------------------------------------------------
(* StallWatch.  A repetition needs a flag that is not what was said last,  *)
(* or that could not be read, and each failure or restart makes at most    *)
(* one of these per watch.  So the invariant counts, with the repetitions  *)
(* that happened, the one that may already be owed.                        *)

\* The watch may say again what it said last, without another failure.
Owed(w) ==
    CASE check[w].pc = "post"   -> said[w] = check[w].seen
      [] check[w].pc = "save"   -> FALSE
      [] check[w].pc = "silent" -> said[w] # "none"
      [] OTHER                  -> said[w] # "none" /\ flag[w] # said[w]

StallFaults == bound.failures + bound.restarts

\* What a watch knows of the flag and of what was said, and its count.
WatchOK(w) ==
    /\ repeats[w] <= StallFaults
    /\ Owed(w) => repeats[w] < StallFaults
    /\ flag[w] = "stalled" => said[w] # "none"
    /\ check[w].pc = "post" /\ check[w].seen = "live" => said[w] # "none"
    /\ check[w].pc = "save" => said[w] = check[w].seen
    /\ check[w].pc = "silent" => check[w].seen = "live"

BoundType == bound \in [flips : Nat, failures : Nat, restarts : Nat]

StallInv == Stall!WatchTypeOK /\ BoundType /\ \A w \in Stall!Watch : WatchOK(w)

\* The invariant holds at the start.
LEMMA StallInit == Stall!Init => StallInv
<1> SUFFICES ASSUME Stall!Init PROVE StallInv
  OBVIOUS
<1>1. Stall!WatchTypeOK /\ BoundType
  BY DEF Stall!Init, Stall!WatchTypeOK, BoundType, Stall!Watch, Stall!Known,
         Stall!Condition, Stall!Check, Stall!Idle
<1>2. ASSUME NEW w \in Stall!Watch PROVE WatchOK(w)
  BY DEF Stall!Init, WatchOK, Owed, StallFaults, Stall!Idle
<1> QED BY <1>1, <1>2 DEF StallInv

\* What may follow a comparison.
LEMMA CompareTypes ==
    ASSUME Stall!WatchTypeOK, NEW w \in Stall!Watch, NEW f \in Stall!Known,
           check[w].pc = "flag", Stall!Compare(w, f)
    PROVE  check' \in [Stall!Watch -> Stall!Check]
<1>1. check[w].seen \in Stall!Condition
  BY DEF Stall!WatchTypeOK, Stall!Check, Stall!Idle
<1>2. \/ check' = [check EXCEPT ![w] = Stall!Idle]
      \/ check' = [check EXCEPT ![w].pc = "post"]
      \/ check' = [check EXCEPT ![w].pc = "silent"]
  BY DEF Stall!Compare, Stall!Done, Stall!Goto
<1> QED BY <1>1, <1>2 DEF Stall!WatchTypeOK, Stall!Check, Stall!Idle

\* A failure keeps the type of the bounds and counts.
LEMMA FailureCounts ==
    ASSUME BoundType, Stall!Failure
    PROVE  BoundType' /\ StallFaults' = StallFaults + 1 /\ StallFaults \in Nat
BY DEF BoundType, Stall!Failure, StallFaults

\* Every step keeps the types.
LEMMA StallTypeStep ==
    Stall!WatchTypeOK /\ BoundType /\ [Stall!Next]_(Stall!vars) => Stall!WatchTypeOK' /\ BoundType'
<1> SUFFICES ASSUME Stall!WatchTypeOK, BoundType, [Stall!Next]_(Stall!vars)
             PROVE  Stall!WatchTypeOK' /\ BoundType'
  OBVIOUS
<1>1. ASSUME NEW w \in Stall!Watch, Stall!Flip(w) PROVE Stall!WatchTypeOK' /\ BoundType'
  BY <1>1 DEF Stall!Flip, Stall!WatchTypeOK, BoundType, Stall!Known, Stall!Condition
<1>2. ASSUME NEW w \in Stall!Watch, Stall!ReadSource(w) PROVE Stall!WatchTypeOK' /\ BoundType'
  BY <1>2
     DEF Stall!ReadSource, Stall!WatchTypeOK, BoundType, Stall!Known, Stall!Condition,
         Stall!Check
<1>3. ASSUME NEW w \in Stall!Watch, Stall!ReadFlag(w) PROVE Stall!WatchTypeOK' /\ BoundType'
  <2>1. flag[w] \in Stall!Known
    BY DEF Stall!WatchTypeOK
  <2> QED BY <1>3, <2>1, CompareTypes DEF Stall!ReadFlag, Stall!WatchTypeOK, BoundType
<1>4. ASSUME NEW w \in Stall!Watch, Stall!ReadFlagFails(w) PROVE Stall!WatchTypeOK' /\ BoundType'
  <2>1. "none" \in Stall!Known
    BY DEF Stall!Known
  <2> QED BY <1>4, <2>1, CompareTypes, FailureCounts
     DEF Stall!ReadFlagFails, Stall!WatchTypeOK
<1>5. ASSUME NEW w \in Stall!Watch, Stall!Post(w) \/ Stall!PostFails(w)
      PROVE  Stall!WatchTypeOK' /\ BoundType'
  <2>1. check[w].seen \in Stall!Condition
    BY <1>5 DEF Stall!Post, Stall!PostFails, Stall!WatchTypeOK, Stall!Check, Stall!Idle
  <2>2. check' \in [Stall!Watch -> Stall!Check]
    BY <1>5, <2>1
       DEF Stall!Post, Stall!PostFails, Stall!Goto, Stall!Done, Stall!WatchTypeOK,
           Stall!Check, Stall!Idle
  <2>3. said' \in [Stall!Watch -> Stall!Known] /\ repeats' \in [Stall!Watch -> Nat]
    BY <1>5, <2>1 DEF Stall!Post, Stall!PostFails, Stall!Say, Stall!WatchTypeOK, Stall!Known
  <2>4. BoundType'
    BY <1>5, FailureCounts DEF Stall!Post, Stall!PostFails, BoundType
  <2> QED BY <1>5, <2>2, <2>3, <2>4 DEF Stall!Post, Stall!PostFails, Stall!WatchTypeOK
<1>6. ASSUME NEW w \in Stall!Watch, Stall!Save(w) \/ Stall!SaveFails(w)
      PROVE  Stall!WatchTypeOK' /\ BoundType'
  <2>1. check[w].seen \in Stall!Condition
    BY <1>6 DEF Stall!Save, Stall!SaveFails, Stall!WatchTypeOK, Stall!Check, Stall!Idle
  <2>2. check' \in [Stall!Watch -> Stall!Check] /\ flag' \in [Stall!Watch -> Stall!Known]
    BY <1>6, <2>1
       DEF Stall!Save, Stall!SaveFails, Stall!Done, Stall!WatchTypeOK, Stall!Check,
           Stall!Idle, Stall!Known
  <2>3. BoundType'
    BY <1>6, FailureCounts DEF Stall!Save, Stall!SaveFails, BoundType
  <2> QED BY <1>6, <2>2, <2>3 DEF Stall!Save, Stall!SaveFails, Stall!WatchTypeOK
<1>7. CASE Stall!Restart
  BY <1>7 DEF Stall!Restart, Stall!WatchTypeOK, BoundType, Stall!Check
<1>8. CASE UNCHANGED Stall!vars
  BY <1>8 DEF Stall!vars, Stall!WatchTypeOK, BoundType
<1> QED BY <1>1, <1>2, <1>3, <1>4, <1>5, <1>6, <1>7, <1>8 DEF Stall!Next, Stall!CheckStep

\* A watch that does not move keeps its part, however many faults there are.
LEMMA AtRestKeeps ==
    ASSUME Stall!WatchTypeOK, BoundType, BoundType', NEW w \in Stall!Watch, WatchOK(w),
           StallFaults' = StallFaults \/ StallFaults' = StallFaults + 1,
           check'[w] = check[w], flag'[w] = flag[w], said'[w] = said[w], repeats'[w] = repeats[w]
    PROVE  WatchOK(w)'
<1>1. StallFaults \in Nat /\ repeats[w] \in Nat
  BY DEF Stall!WatchTypeOK, BoundType, StallFaults
<1>2. Owed(w)' = Owed(w)
  BY DEF Owed
<1> QED BY <1>1, <1>2 DEF WatchOK

\* A comparison posts only what differs from the flag it read, and says nothing of
\* a recovery without a stall.
LEMMA CompareLeads ==
    ASSUME Stall!WatchTypeOK, NEW w \in Stall!Watch, NEW f \in Stall!Known,
           check[w].pc = "flag", Stall!Compare(w, f)
    PROVE  /\ check'[w].seen = check[w].seen \/ check'[w] = Stall!Idle
           /\ \/ check'[w] = Stall!Idle
              \/ /\ check'[w].pc = "silent" /\ check[w].seen = "live" /\ f = "none"
              \/ /\ check'[w].pc = "post" /\ f # check[w].seen
                 /\ check[w].seen = "live" => f = "stalled"
<1>1. check[w].seen \in Stall!Condition /\ check[w] \in Stall!Check
  BY DEF Stall!WatchTypeOK, Stall!Check, Stall!Idle
<1>2. CASE Stall!Done(w)
  BY <1>2 DEF Stall!Done, Stall!WatchTypeOK
<1>3. CASE Stall!Goto(w, "post") /\ ~Stall!Done(w)
  <2>1. check'[w].pc = "post" /\ check'[w].seen = check[w].seen
    BY <1>1, <1>3 DEF Stall!Goto, Stall!WatchTypeOK, Stall!Check, Stall!Idle
  <2>2. f # check[w].seen /\ (check[w].seen = "live" => f = "stalled")
    <3>1. Stall!Goto(w, "post") => ~Stall!Goto(w, "silent")
      BY <1>1 DEF Stall!Goto, Stall!WatchTypeOK, Stall!Check, Stall!Idle
    <3> QED BY <1>1, <1>3, <3>1 DEF Stall!Compare, Stall!Known, Stall!Condition
  <2> QED BY <2>1, <2>2
<1>4. CASE Stall!Goto(w, "silent") /\ ~Stall!Goto(w, "post") /\ ~Stall!Done(w)
  <2>1. check'[w].pc = "silent" /\ check'[w].seen = check[w].seen
    BY <1>1, <1>4 DEF Stall!Goto, Stall!WatchTypeOK, Stall!Check, Stall!Idle
  <2>2. check[w].seen = "live" /\ f = "none"
    BY <1>4 DEF Stall!Compare
  <2> QED BY <2>1, <2>2
<1> QED BY <1>2, <1>3, <1>4 DEF Stall!Compare

\* The watch that moves keeps its part.
LEMMA MoverKeeps ==
    ASSUME StallInv, NEW w \in Stall!Watch, Stall!WatchTypeOK', BoundType',
           \/ Stall!ReadSource(w) \/ Stall!ReadFlag(w) \/ Stall!ReadFlagFails(w)
           \/ Stall!Post(w) \/ Stall!PostFails(w) \/ Stall!Save(w) \/ Stall!SaveFails(w)
    PROVE  WatchOK(w)'
<1>0. /\ Stall!WatchTypeOK /\ BoundType /\ WatchOK(w)
      /\ StallFaults \in Nat /\ repeats[w] \in Nat
      /\ check[w] \in Stall!Check /\ flag[w] \in Stall!Known /\ said[w] \in Stall!Known
  BY DEF StallInv, Stall!WatchTypeOK, BoundType, StallFaults
<1>1. CASE Stall!ReadSource(w)
  <2>1. /\ check'[w].pc = "flag" /\ flag' = flag /\ said' = said /\ repeats' = repeats
        /\ StallFaults' = StallFaults /\ check[w].pc = "idle"
    BY <1>0, <1>1 DEF Stall!ReadSource, Stall!WatchTypeOK, StallFaults
  <2> QED BY <1>0, <2>1 DEF WatchOK, Owed
<1>2. CASE Stall!ReadFlag(w)
  <2>1. /\ check[w].pc = "flag" /\ Stall!Compare(w, flag[w]) /\ flag' = flag /\ said' = said
        /\ repeats' = repeats /\ StallFaults' = StallFaults
    BY <1>2 DEF Stall!ReadFlag, StallFaults
  <2>2. Owed(w)' => Owed(w)
    <3>1. Owed(w) <=> said[w] # "none" /\ flag[w] # said[w]
      BY <2>1 DEF Owed
    <3>2. CASE check'[w] = Stall!Idle
      BY <2>1, <3>1, <3>2 DEF Owed, Stall!Idle
    <3>3. CASE check'[w].pc = "silent" /\ flag[w] = "none"
      BY <2>1, <3>1, <3>3 DEF Owed
    <3>4. CASE check'[w].pc = "post" /\ check'[w].seen = check[w].seen /\ flag[w] # check[w].seen
      <4>1. check[w].seen # "none"
        BY <1>0, <2>1 DEF Stall!Check, Stall!Idle, Stall!Condition
      <4> QED BY <2>1, <3>1, <3>4, <4>1 DEF Owed
    <3> QED BY <1>0, <2>1, <3>2, <3>3, <3>4, CompareLeads
  <2>3. /\ check'[w].pc = "post" /\ check'[w].seen = "live" => said'[w] # "none"
        /\ check'[w].pc = "silent" => check'[w].seen = "live"
        /\ check'[w].pc # "save"
    BY <1>0, <2>1, CompareLeads DEF Stall!Idle, WatchOK
  <2> QED BY <1>0, <2>1, <2>2, <2>3 DEF WatchOK
<1>3. CASE Stall!ReadFlagFails(w)
  <2>1. /\ check[w].pc = "flag" /\ Stall!Compare(w, "none") /\ flag' = flag /\ said' = said
        /\ repeats' = repeats /\ StallFaults' = StallFaults + 1
    BY <1>0, <1>3, FailureCounts DEF Stall!ReadFlagFails
  <2>2. "none" \in Stall!Known
    BY DEF Stall!Known
  <2>3. /\ ~(check'[w].pc = "post" /\ check'[w].seen = "live")
        /\ check'[w].pc = "silent" => check'[w].seen = "live"
        /\ check'[w].pc # "save"
    BY <1>0, <2>1, <2>2, CompareLeads DEF Stall!Idle
  <2> QED BY <1>0, <2>1, <2>3 DEF WatchOK
<1>4. CASE Stall!Post(w)
  <2>1. /\ check[w].pc = "post" /\ check'[w].pc = "save" /\ check'[w].seen = check[w].seen
        /\ said'[w] = check[w].seen /\ flag' = flag /\ StallFaults' = StallFaults
        /\ repeats'[w] = IF said[w] = check[w].seen THEN repeats[w] + 1 ELSE repeats[w]
    BY <1>0, <1>4
       DEF Stall!Post, Stall!Say, Stall!Goto, Stall!WatchTypeOK, Stall!Check, Stall!Idle,
           StallFaults
  <2>2. said'[w] # "none"
    BY <1>0, <2>1 DEF Stall!Check, Stall!Idle, Stall!Condition
  <2>3. repeats'[w] <= StallFaults'
    BY <1>0, <2>1 DEF WatchOK, Owed
  <2>4. ~Owed(w)'
    BY <2>1 DEF Owed
  <2> QED BY <2>1, <2>2, <2>3, <2>4 DEF WatchOK
<1>5. CASE Stall!PostFails(w)
  <2>1. /\ check[w].pc = "post" /\ check'[w] = Stall!Idle /\ flag' = flag /\ StallFaults' = StallFaults + 1
    BY <1>0, <1>5, FailureCounts DEF Stall!PostFails, Stall!Done, Stall!WatchTypeOK
  <2>2. /\ (said'[w] = check[w].seen /\ said'[w] # "none") \/ said'[w] = said[w]
        /\ repeats'[w] = repeats[w] \/ (Owed(w) /\ repeats'[w] = repeats[w] + 1)
    BY <1>0, <1>5, <2>1
       DEF Stall!PostFails, Stall!Say, Stall!WatchTypeOK, Stall!Check, Stall!Idle,
           Stall!Condition, Owed
  <2>3. repeats'[w] <= StallFaults
    BY <1>0, <2>2 DEF WatchOK
  <2>4. flag'[w] = "stalled" => said'[w] # "none"
    BY <1>0, <2>1, <2>2 DEF WatchOK
  <2>5. repeats'[w] \in Nat
    BY DEF Stall!WatchTypeOK
  <2> QED BY <1>0, <2>1, <2>3, <2>4, <2>5 DEF WatchOK, Stall!Idle
<1>6. CASE Stall!Save(w)
  <2>1. /\ check[w].pc \in {"save", "silent"} /\ check'[w] = Stall!Idle /\ flag'[w] = check[w].seen
        /\ said' = said /\ repeats' = repeats /\ StallFaults' = StallFaults
    BY <1>0, <1>6 DEF Stall!Save, Stall!Done, Stall!WatchTypeOK, StallFaults
  <2>2. Owed(w)' => Owed(w)
    BY <1>0, <2>1 DEF WatchOK, Owed, Stall!Idle
  <2>3. flag'[w] = "stalled" => said'[w] # "none"
    BY <1>0, <2>1 DEF WatchOK
  <2> QED BY <1>0, <2>1, <2>2, <2>3 DEF WatchOK, Stall!Idle
<1>7. CASE Stall!SaveFails(w)
  <2>1. /\ check'[w] = Stall!Idle /\ flag' = flag /\ said' = said /\ repeats' = repeats
        /\ StallFaults' = StallFaults + 1
    BY <1>0, <1>7, FailureCounts DEF Stall!SaveFails, Stall!Done, Stall!WatchTypeOK
  <2> QED BY <1>0, <2>1 DEF WatchOK, Stall!Idle
<1> QED BY <1>1, <1>2, <1>3, <1>4, <1>5, <1>6, <1>7

\* Every step keeps the invariant.
LEMMA StallNext == StallInv /\ [Stall!Next]_(Stall!vars) => StallInv'
<1> SUFFICES ASSUME StallInv, [Stall!Next]_(Stall!vars), NEW v \in Stall!Watch PROVE WatchOK(v)'
  BY StallTypeStep DEF StallInv
<1>0. Stall!WatchTypeOK /\ BoundType /\ Stall!WatchTypeOK' /\ BoundType' /\ WatchOK(v)
  BY StallTypeStep DEF StallInv
<1>1. ASSUME NEW w \in Stall!Watch, Stall!Flip(w) PROVE WatchOK(v)'
  BY <1>0, <1>1, AtRestKeeps DEF Stall!Flip, StallFaults, BoundType
<1>2. ASSUME NEW w \in Stall!Watch,
             \/ Stall!ReadSource(w) \/ Stall!ReadFlag(w) \/ Stall!ReadFlagFails(w)
             \/ Stall!Post(w) \/ Stall!PostFails(w) \/ Stall!Save(w) \/ Stall!SaveFails(w)
      PROVE  WatchOK(v)'
  <2>1. CASE v = w
    BY <1>0, <1>2, <2>1, MoverKeeps
  <2>2. CASE v # w
    <3>1. StallFaults' = StallFaults \/ StallFaults' = StallFaults + 1
      BY <1>0, <1>2, FailureCounts
         DEF Stall!ReadSource, Stall!ReadFlag, Stall!ReadFlagFails, Stall!Post,
             Stall!PostFails, Stall!Save, Stall!SaveFails, StallFaults
    <3>2. check'[v] = check[v]
      BY <1>0, <1>2, <2>2
         DEF Stall!ReadSource, Stall!ReadFlag, Stall!ReadFlagFails, Stall!Post,
             Stall!PostFails, Stall!Save, Stall!SaveFails,
             Stall!Compare, Stall!Goto, Stall!Done, Stall!WatchTypeOK
    <3>3. flag'[v] = flag[v] /\ said'[v] = said[v] /\ repeats'[v] = repeats[v]
      BY <1>0, <1>2, <2>2
         DEF Stall!ReadSource, Stall!ReadFlag, Stall!ReadFlagFails, Stall!Post,
             Stall!PostFails, Stall!Save, Stall!SaveFails, Stall!Say, Stall!WatchTypeOK
    <3> QED BY <1>0, <3>1, <3>2, <3>3, AtRestKeeps
  <2> QED BY <2>1, <2>2
<1>3. CASE Stall!Restart
  <2>1. /\ check'[v] = Stall!Idle /\ flag' = flag /\ said' = said /\ repeats' = repeats
        /\ StallFaults' = StallFaults + 1 /\ StallFaults \in Nat /\ repeats[v] \in Nat
    BY <1>0, <1>3 DEF Stall!Restart, StallFaults, BoundType, Stall!WatchTypeOK
  <2> QED BY <1>0, <2>1 DEF WatchOK, Stall!Idle
<1>4. CASE UNCHANGED Stall!vars
  BY <1>0, <1>4, AtRestKeeps DEF Stall!vars, StallFaults
<1> QED BY <1>1, <1>2, <1>3, <1>4 DEF Stall!Next, Stall!CheckStep

\* The first word a watch says is that its source has stalled.
LEMMA FirstWord ==
    ASSUME StallInv, [Stall!Next]_(Stall!vars), NEW w \in Stall!Watch, said[w] = "none"
    PROVE  said'[w] \in {"none", "stalled"}
<1>1. CASE said'[w] = said[w]
  BY <1>1
<1>2. ASSUME NEW v \in Stall!Watch, Stall!Post(v) \/ Stall!PostFails(v)
      PROVE  said'[w] \in {"none", "stalled"}
  <2>1. check[v].seen \in Stall!Condition /\ check[v].pc = "post"
    BY <1>2 DEF Stall!Post, Stall!PostFails, StallInv, Stall!WatchTypeOK, Stall!Check, Stall!Idle
  <2>2. CASE v = w
    <3>1. check[w].seen = "stalled"
      BY <2>1, <2>2 DEF StallInv, WatchOK, Stall!Condition
    <3> QED BY <1>2, <2>2, <3>1
            DEF Stall!Post, Stall!PostFails, Stall!Say, StallInv, Stall!WatchTypeOK
  <2>3. CASE v # w
    BY <1>2, <2>3 DEF Stall!Post, Stall!PostFails, Stall!Say, StallInv, Stall!WatchTypeOK
  <2> QED BY <2>2, <2>3
<1> QED BY <1>1, <1>2
        DEF Stall!Next, Stall!CheckStep, Stall!Flip, Stall!ReadSource, Stall!ReadFlag,
            Stall!ReadFlagFails, Stall!Save, Stall!SaveFails, Stall!Restart, Stall!vars

-----------------------------------------------------------------------------
(* ProbeReplies.  Each promise is a sum over the replies, so it is enough  *)
(* to show it of one reply: one that refuses us for want of funds is not   *)
(* counted, and the two readers differ over a counted one only when it is  *)
(* of a kind known to be read apart.                                       *)

\* What one reply may add to the counts.
Fair(o, refused, apart) ==
    /\ refused => ~Replies!Counted(o)
    /\ Replies!Counted(o) /\ ~apart => (Replies!GradeError(o) <=> ~Replies!FeedOk(o))

\* The paid path: a reply is hashed just when it has status 200 and no class, and
\* each refusal of Unfunded gets the class of a payment error.
LEMMA PaidIsFair ==
    ASSUME NEW r \in Replies!Outcome
    PROVE  Fair(Replies!Paid(r), Replies!Unfunded(r), FALSE)
<1> USE
   DEF Replies!Outcome, Replies!Reply, Replies!NoReply, Replies!Unsent, Replies!Status,
       Replies!Body, Replies!Json, Replies!Failed, Replies!Parsed, Replies!Observed
<1>1. Replies!Unfunded(r) => ~Replies!Counted(Replies!Paid(r))
  BY DEF Replies!Unfunded, Replies!Counted, Replies!Paid, Replies!PaymentClass,
         Replies!IsPaymentError
<1>2. Replies!Counted(Replies!Paid(r))
      => (Replies!GradeError(Replies!Paid(r)) <=> ~Replies!FeedOk(Replies!Paid(r)))
  BY DEF Replies!Counted, Replies!Paid, Replies!PaymentClass, Replies!PaidBodyClass,
         Replies!IsPaymentError, Replies!GradeError, Replies!FeedOk
<1> QED BY <1>1, <1>2 DEF Fair

\* The gateway's path: the readers differ over a success that is no 200 and over a
\* 200 that is not JSON.
LEMMA GatewayIsFair ==
    ASSUME NEW r \in Replies!Outcome
    PROVE  Fair(Replies!Gateway(r), FALSE,
                r.status = "other_2xx" \/ (r.status = "200" /\ r.body \notin Replies!Json))
BY DEF Replies!Outcome, Replies!Reply, Replies!NoReply, Replies!Unsent, Replies!Status,
       Replies!Body, Replies!Json, Replies!Success, Replies!Failed, Replies!Parsed,
       Replies!Observed, Fair, Replies!Counted, Replies!Gateway,
       Replies!GatewayBodyClass, Replies!Signer, Replies!IsPaymentError, Replies!GradeError, Replies!FeedOk

\* The direct path: the readers differ over a success that is no 200.
LEMMA DirectIsFair ==
    ASSUME NEW r \in Replies!Outcome
    PROVE  Fair(Replies!Direct(r), FALSE, r.status = "other_2xx")
BY DEF Replies!Outcome, Replies!Reply, Replies!NoReply, Replies!Unsent, Replies!Status,
       Replies!Body, Replies!Json, Replies!Success, Replies!Failed, Replies!Parsed,
       Replies!Observed, Fair, Replies!Counted, Replies!Direct, Replies!DirectBodyClass,
       Replies!GatewayBodyClass, Replies!IsPaymentError, Replies!GradeError, Replies!FeedOk

RepliesInv == Replies!RepliesTypeOK /\ Replies!FundingNeverBlames /\ Replies!FeedAndGradeAgree

\* A fair reply keeps the sums.
LEMMA StoreKeeps ==
    ASSUME RepliesInv, NEW o, NEW refused \in BOOLEAN, NEW apart \in BOOLEAN,
           Fair(o, refused, apart), Replies!Store(o, refused, apart)
    PROVE  RepliesInv'
<1> DEFINE counted == Replies!One(Replies!Counted(o))
           ok == Replies!One(Replies!Counted(o) /\ Replies!FeedOk(o))
           error == Replies!One(Replies!Counted(o) /\ Replies!GradeError(o))
<1>1. /\ feed' = [total |-> feed.total + counted, ok |-> feed.ok + ok]
      /\ grade' = [total |-> grade.total + counted, errors |-> grade.errors + error]
      /\ seen' = [asked |-> seen.asked + 1, refused |-> seen.refused + Replies!One(refused),
                  apart |-> seen.apart + Replies!One(apart)]
  BY DEF Replies!Store
<1>2. /\ counted \in {0, 1} /\ ok \in {0, 1} /\ error \in {0, 1}
      /\ Replies!One(refused) \in {0, 1} /\ Replies!One(apart) \in {0, 1}
  BY DEF Replies!One
<1>3. counted + Replies!One(refused) <= 1
  BY DEF Fair, Replies!One
<1>4. error <= (counted - ok) + Replies!One(apart) /\ counted - ok <= error + Replies!One(apart)
  BY DEF Fair, Replies!One
<1> HIDE DEF counted, ok, error
<1>5. Replies!RepliesTypeOK'
  BY <1>1, <1>2 DEF RepliesInv, Replies!RepliesTypeOK
<1>6. Replies!FundingNeverBlames'
  BY <1>1, <1>2, <1>3 DEF RepliesInv, Replies!RepliesTypeOK, Replies!FundingNeverBlames
<1>7. Replies!FeedAndGradeAgree'
  BY <1>1, <1>2, <1>4 DEF RepliesInv, Replies!RepliesTypeOK, Replies!FeedAndGradeAgree
<1> QED BY <1>5, <1>6, <1>7 DEF RepliesInv

\* A probe keeps it, whatever the reply.
LEMMA RepliesNext == RepliesInv /\ [Replies!Next]_(Replies!vars) => RepliesInv'
<1> SUFFICES ASSUME RepliesInv, [Replies!Next]_(Replies!vars) PROVE RepliesInv'
  OBVIOUS
<1>1. CASE Replies!Next
  <2>1. PICK r \in Replies!Outcome : Replies!AskPaid(r) \/ Replies!AskGateway(r) \/ Replies!AskDirect(r)
    BY <1>1 DEF Replies!Next
  <2>2. CASE Replies!AskPaid(r)
    BY <2>2, PaidIsFair, StoreKeeps DEF Replies!AskPaid, Replies!Unfunded
  <2>3. CASE Replies!AskGateway(r)
    BY <2>3, GatewayIsFair, StoreKeeps DEF Replies!AskGateway
  <2>4. CASE Replies!AskDirect(r)
    BY <2>4, DirectIsFair, StoreKeeps DEF Replies!AskDirect
  <2> QED BY <2>1, <2>2, <2>3, <2>4
<1>2. CASE UNCHANGED Replies!vars
  BY <1>2
     DEF Replies!vars, RepliesInv, Replies!RepliesTypeOK, Replies!FundingNeverBlames,
         Replies!FeedAndGradeAgree
<1> QED BY <1>1, <1>2


-----------------------------------------------------------------------------
(* LodestarIngest.  Every page is the next one after the cursor, so that   *)
(* what has had traffic throughout the run and lies before the cursor has  *)
(* been read; when the paging ends and the run is whole, all of it has.    *)

\* A row of the roster, as the cycle holds it.
RosterRow == Indexer \X (Nat \ {0})

IngestPc == {"idle", "roster", "quality", "page", "upsert"}

\* What the cycle holds at each of its steps.
CycleType ==
    /\ cycle \in [pc : IngestPc, todo : SUBSET (RosterRow \cup Pair), roster : SUBSET RosterRow,
                  rows : SUBSET Pair, last : Nat, pages : Nat, touched : SUBSET Pair]
    /\ cycle.pc \in {"roster", "quality"} => cycle.todo \subseteq cycle.roster
    /\ cycle.pc = "page" => cycle.touched = {}
    /\ cycle.pc = "upsert" => cycle.todo \subseteq cycle.rows

\* While the pages are read, everything up to the cursor is in hand.
PagesCover ==
    cycle.pc = "page" =>
        /\ read.always \subseteq traffic
        /\ \A p \in read.always : p <= cycle.last => p \in cycle.rows

\* Afterwards, everything that has had traffic throughout is written or about to be.
RunCovers ==
    cycle.pc = "upsert" =>
        /\ cycle.rows \ cycle.todo \subseteq cycle.touched
        /\ read.whole => read.always \subseteq cycle.rows

IngestInv == Lodestar!IngestTypeOK /\ CycleType /\ PagesCover /\ RunCovers

\* The invariant holds at the start.
LEMMA IngestInit == Lodestar!Init => IngestInv
<1> SUFFICES ASSUME Lodestar!Init PROVE IngestInv
  OBVIOUS
<1>1. Lodestar!IngestTypeOK
  BY LodestarConstants
     DEF Lodestar!Init, Lodestar!IngestTypeOK, Lodestar!Idle, Lodestar!NoRow,
         Lodestar!LodestarAssumption
<1>2. CycleType /\ PagesCover /\ RunCovers
  BY DEF Lodestar!Init, CycleType, PagesCover, RunCovers, Lodestar!Idle, IngestPc
<1> QED BY <1>1, <1>2 DEF IngestInv

\* A failure keeps the type of the bounds.
LEMMA IngestFailureCounts ==
    ASSUME Lodestar!IngestTypeOK, Lodestar!Failure
    PROVE  ingestSpent' \in [changes : 0..IngestChanges, failures : 0..IngestFailures,
                             crashes : 0..MaxCrashes]
BY LodestarConstants DEF Lodestar!Failure, Lodestar!IngestTypeOK, Lodestar!LodestarAssumption

\* A cycle at rest, or with its pages still to read, keeps the rest of the invariant.
LEMMA IngestStartsOver ==
    ASSUME IngestInv, Lodestar!IngestTypeOK',
           \/ cycle' = Lodestar!Idle
           \/ /\ cycle' = [Lodestar!Idle EXCEPT !.pc = "page"]
              /\ read'.always \subseteq traffic'
    PROVE  IngestInv'
<1>1. Pair \subseteq Nat \ {0}
  BY LodestarConstants DEF Lodestar!LodestarAssumption
<1>2. CASE cycle' = Lodestar!Idle
  BY <1>2 DEF IngestInv, CycleType, PagesCover, RunCovers, Lodestar!Idle, IngestPc
<1>3. CASE cycle' = [Lodestar!Idle EXCEPT !.pc = "page"] /\ read'.always \subseteq traffic'
  <2>1. \A p \in read'.always : ~(p <= 0)
    BY <1>1, <1>3 DEF Lodestar!IngestTypeOK
  <2> QED BY <1>3, <2>1 DEF IngestInv, CycleType, PagesCover, RunCovers, Lodestar!Idle, IngestPc
<1> QED BY <1>2, <1>3

\* The sources change under the cycle.
LEMMA SourcesKeepIngest == ASSUME IngestInv, Lodestar!Sources PROVE IngestInv'
<1>0. Lodestar!IngestTypeOK /\ CycleType /\ PagesCover /\ RunCovers
  BY DEF IngestInv
<1>1. ASSUME Lodestar!Changing
      PROVE  ingestSpent' \in [changes : 0..IngestChanges, failures : 0..IngestFailures,
                               crashes : 0..MaxCrashes]
  BY <1>0, <1>1, LodestarConstants
     DEF Lodestar!Changing, Lodestar!IngestTypeOK, Lodestar!LodestarAssumption
<1>2. ASSUME NEW i \in Indexer, Lodestar!RosterChanges(i) PROVE IngestInv'
  <2>1. listed' \in [Indexer -> Nat]
    BY <1>0, <1>2, LodestarConstants
       DEF Lodestar!RosterChanges, Lodestar!IngestTypeOK, Lodestar!LodestarAssumption
  <2>2. Lodestar!IngestTypeOK'
    BY <1>0, <1>1, <1>2, <2>1 DEF Lodestar!RosterChanges, Lodestar!IngestTypeOK
  <2> QED BY <1>0, <1>2, <2>2
          DEF Lodestar!RosterChanges, IngestInv, CycleType, PagesCover, RunCovers
<1>3. ASSUME NEW p \in Pair, Lodestar!TrafficChanges(p) PROVE IngestInv'
  <2>1. read' = [read EXCEPT !.always = @ \cap traffic'] /\ traffic' \subseteq Pair
    BY <1>0, <1>3 DEF Lodestar!TrafficChanges, Lodestar!IngestTypeOK
  <2>2. /\ read' \in [always : SUBSET Pair, whole : BOOLEAN]
        /\ read'.always = read.always \cap traffic' /\ read'.whole = read.whole
    BY <1>0, <2>1 DEF Lodestar!IngestTypeOK
  <2>3. Lodestar!IngestTypeOK'
    BY <1>0, <1>1, <1>3, <2>1, <2>2 DEF Lodestar!TrafficChanges, Lodestar!IngestTypeOK
  <2> QED BY <1>0, <1>3, <2>2, <2>3
          DEF Lodestar!TrafficChanges, IngestInv, CycleType, PagesCover, RunCovers
<1> QED BY <1>2, <1>3 DEF Lodestar!Sources

\* The roster's part of the cycle.
LEMMA RosterKeepsIngest ==
    ASSUME IngestInv,
           \/ Lodestar!FetchRoster \/ (\E x \in cycle.todo : Lodestar!UpsertRoster(x))
           \/ Lodestar!ToQuality \/ (\E x \in cycle.todo : Lodestar!UpdateQuality(x))
           \/ (\E x \in cycle.todo : Lodestar!QualityFails(x))
    PROVE  IngestInv'
<1>0. Lodestar!IngestTypeOK /\ CycleType /\ PagesCover /\ RunCovers
  BY DEF IngestInv
<1>1. CASE Lodestar!FetchRoster
  <2> DEFINE roster == {<<i, listed[i]>> : i \in {j \in Indexer : listed[j] # 0}}
  <2>1. roster \subseteq RosterRow
    BY <1>0 DEF Lodestar!IngestTypeOK, RosterRow
  <2>2. cycle' = [Lodestar!Idle EXCEPT !.pc = "roster", !.todo = roster, !.roster = roster]
    BY <1>1 DEF Lodestar!FetchRoster
  <2> HIDE DEF roster
  <2>3. CycleType' /\ cycle'.pc = "roster" /\ cycle'.touched = {}
    BY <2>1, <2>2 DEF CycleType, Lodestar!Idle, IngestPc
  <2>4. Lodestar!IngestTypeOK'
    BY <1>0, <1>1, <2>3 DEF Lodestar!FetchRoster, Lodestar!CycleOnly, Lodestar!IngestTypeOK
  <2> QED BY <2>3, <2>4 DEF IngestInv, PagesCover, RunCovers
<1>2. ASSUME NEW x \in cycle.todo, Lodestar!UpsertRoster(x) \/ Lodestar!UpdateQuality(x)
             \/ Lodestar!QualityFails(x)
      PROVE  IngestInv'
  <2>1. cycle' = [cycle EXCEPT !.todo = @ \ {x}] /\ cycle.pc \in {"roster", "quality"}
    BY <1>2 DEF Lodestar!UpsertRoster, Lodestar!UpdateQuality, Lodestar!QualityFails
  <2>2. x[1] \in Indexer /\ x[2] \in Nat \ {0}
    BY <1>0, <2>1 DEF CycleType, RosterRow
  <2>3. CycleType' /\ cycle'.pc = cycle.pc /\ cycle'.touched = cycle.touched
        /\ cycle'.rows = cycle.rows
    BY <1>0, <2>1 DEF CycleType
  <2>4. /\ profile' \in [Indexer -> [roster : Nat, quality : Nat]]
        /\ \A i \in Indexer : profile'[i].quality # 0 => profile'[i].roster # 0
    <3>1. CASE Lodestar!UpsertRoster(x)
      BY <1>0, <2>2, <3>1 DEF Lodestar!UpsertRoster, Lodestar!IngestTypeOK
    <3>2. CASE Lodestar!UpdateQuality(x)
      <4>1. CASE profile' = profile
        BY <1>0, <4>1 DEF Lodestar!IngestTypeOK
      <4>2. CASE /\ profile[x[1]] # Lodestar!NoRow
                 /\ profile' = [profile EXCEPT ![x[1]].quality =
                                    IF listed[x[1]] = 0 THEN @ ELSE listed[x[1]]]
        <5>1. profile[x[1]] \in [roster : Nat, quality : Nat] /\ listed[x[1]] \in Nat
          BY <1>0, <2>2 DEF Lodestar!IngestTypeOK
        <5>2. profile[x[1]].roster # 0
          BY <1>0, <2>2, <4>2, <5>1 DEF Lodestar!IngestTypeOK, Lodestar!NoRow
        <5> QED BY <1>0, <2>2, <4>2, <5>1, <5>2 DEF Lodestar!IngestTypeOK
      <4> QED BY <3>2, <4>1, <4>2 DEF Lodestar!UpdateQuality
    <3>3. CASE Lodestar!QualityFails(x)
      BY <1>0, <3>3 DEF Lodestar!QualityFails, Lodestar!IngestTypeOK
    <3> QED BY <1>2, <3>1, <3>2, <3>3
  <2>5. UNCHANGED <<listed, traffic, quality, read>>
    BY <1>2 DEF Lodestar!UpsertRoster, Lodestar!UpdateQuality, Lodestar!QualityFails,
                Lodestar!CycleOnly
  <2>6. ingestSpent' \in [changes : 0..IngestChanges, failures : 0..IngestFailures,
                          crashes : 0..MaxCrashes]
    BY <1>0, <1>2, IngestFailureCounts
       DEF Lodestar!UpsertRoster, Lodestar!UpdateQuality, Lodestar!QualityFails,
           Lodestar!IngestTypeOK
  <2>7. Lodestar!IngestTypeOK'
    BY <1>0, <2>3, <2>4, <2>5, <2>6 DEF Lodestar!IngestTypeOK
  <2> QED BY <2>1, <2>3, <2>7 DEF IngestInv, PagesCover, RunCovers
<1>3. CASE Lodestar!ToQuality
  <2>1. cycle' = [cycle EXCEPT !.pc = "quality", !.todo = cycle.roster]
    BY <1>3 DEF Lodestar!ToQuality
  <2>2. CycleType' /\ cycle'.pc = "quality" /\ cycle'.touched = cycle.touched
        /\ cycle'.rows = cycle.rows
    BY <1>0, <2>1 DEF CycleType, IngestPc
  <2>3. Lodestar!IngestTypeOK'
    BY <1>0, <1>3, <2>2 DEF Lodestar!ToQuality, Lodestar!CycleOnly, Lodestar!IngestTypeOK
  <2> QED BY <2>2, <2>3 DEF IngestInv, PagesCover, RunCovers
<1> QED BY <1>1, <1>2, <1>3

\* Of the rows of a page and the cursor there is a greatest.
LEMMA CursorMoves ==
    ASSUME traffic \subseteq Pair, NEW last \in Nat, NEW page \in SUBSET traffic
    PROVE  \E n \in page \cup {last} : \A p \in page : p <= n
<1>1. Pair \subseteq Nat \ {0} /\ IsFiniteSet(Pair)
  BY LodestarConstants, LodestarCounts DEF Lodestar!LodestarAssumption
<1>2. IsFiniteSet(page) /\ page \subseteq Nat
  BY <1>1, FS_Subset
<1>3. IsFiniteSet(page \cup {last}) /\ page \cup {last} \subseteq Nat
  BY <1>2, FS_AddElement
<1> QED BY <1>3, FiniteHasGreatest

\* Nothing of a page is skipped: what comes before its last row is read, and all
\* that comes after the cursor when the page is not full.
LEMMA PageIsNext ==
    ASSUME traffic \subseteq Pair, NEW last \in Nat, NEW page \in SUBSET traffic,
           Lodestar!IsPage(page, last),
           NEW top \in page \cup {last}, \A p \in page : p <= top
    PROVE  /\ top \in Nat /\ last <= top
           /\ \A p \in traffic : last < p /\ p <= top => p \in page
           /\ Cardinality(page) < PageSize => \A p \in traffic : last < p => p \in page
           /\ Cardinality(page) < PageSize \/ Cardinality(page) = PageSize
<1>1. Pair \subseteq Nat \ {0} /\ IsFiniteSet(Pair) /\ PageSize \in Nat \ {0}
  BY LodestarConstants, LodestarCounts DEF Lodestar!LodestarAssumption
<1>2. IsFiniteSet(page) /\ page \subseteq Nat /\ Cardinality(page) \in Nat
  BY <1>1, FS_Subset, FS_CardinalityType
<1>6. /\ \A p \in page : p \in traffic /\ p > last
      /\ \A p \in page : \A q \in traffic : last < q /\ q < p => q \in page
      /\ \/ Cardinality(page) = PageSize
         \/ /\ \A p \in traffic : p > last => p \in page
            /\ Cardinality(page) < PageSize
  BY LodestarCounts DEF Lodestar!IsPage
<1>7. top \in Nat /\ last <= top
  BY <1>2, <1>6
<1>8. ASSUME NEW p \in traffic, last < p, p <= top PROVE p \in page
  <2>1. p \in Nat /\ p # last /\ (p = top \/ p < top)
    BY <1>1, <1>7, <1>8
  <2>2. last < top
    BY <1>7, <1>8, <2>1
  <2>3. top # last
    BY <2>2, <1>7
  <2>4. top \in page
    BY <2>3
  <2> QED BY <1>6, <1>8, <2>1, <2>4
<1>9. Cardinality(page) < PageSize => \A p \in traffic : last < p => p \in page
  BY <1>1, <1>2, <1>6
<1> QED BY <1>6, <1>7, <1>8, <1>9

\* A page read: what it shows lies in the traffic, up to its last row nothing is
\* left out, and a run that ends with it and is whole leaves nothing for later.
LEMMA PageRead ==
    ASSUME IngestInv, Lodestar!ReadPage
    PROVE  /\ UNCHANGED <<listed, traffic, profile, quality, ingestSpent>>
           /\ read' \in [always : SUBSET Pair, whole : BOOLEAN] /\ read'.always = read.always
           /\ \E page \in SUBSET traffic, top \in Nat :
                 /\ \A p \in traffic : cycle.last < p /\ p <= top => p \in page
                 /\ \/ /\ cycle' = [cycle EXCEPT !.pc = "upsert", !.rows = @ \cup page,
                                                 !.todo = cycle.rows \cup page]
                       /\ read'.whole => \A p \in traffic : cycle.last < p => p \in page
                    \/ cycle' = [cycle EXCEPT !.rows = @ \cup page, !.last = top, !.pages = @ + 1]
<1>0. Lodestar!IngestTypeOK /\ CycleType
  BY DEF IngestInv
<1>1. Pair \subseteq Nat \ {0} /\ traffic \subseteq Pair /\ cycle.last \in Nat
  BY <1>0, LodestarConstants DEF Lodestar!IngestTypeOK, CycleType, Lodestar!LodestarAssumption
<1>2. PICK page \in SUBSET traffic :
          /\ Lodestar!IsPage(page, cycle.last)
          /\ LET rows == cycle.rows \cup page
                 top == CHOOSE n \in page \cup {cycle.last} : \A p \in page : p <= n
                 ended == Cardinality(page) < PageSize \/ cycle.pages + 1 = MaxPages
             IN  /\ cycle' = IF ended THEN Lodestar!Upserting(rows)
                             ELSE [cycle EXCEPT !.rows = rows, !.last = top, !.pages = @ + 1]
                 /\ read' = IF ended /\ Cardinality(page) = PageSize /\ \E p \in traffic : p > top
                            THEN [read EXCEPT !.whole = FALSE]
                            ELSE read
  BY LodestarCounts DEF Lodestar!ReadPage
<1> DEFINE rows == cycle.rows \cup page
           top == CHOOSE n \in page \cup {cycle.last} : \A p \in page : p <= n
           ended == Cardinality(page) < PageSize \/ cycle.pages + 1 = MaxPages
<1>3. /\ cycle' = IF ended THEN Lodestar!Upserting(rows)
                  ELSE [cycle EXCEPT !.rows = rows, !.last = top, !.pages = @ + 1]
      /\ read' = IF ended /\ Cardinality(page) = PageSize /\ \E p \in traffic : p > top
                 THEN [read EXCEPT !.whole = FALSE]
                 ELSE read
  BY <1>2
<1>4. /\ top \in Nat /\ cycle.last <= top
      /\ \A p \in traffic : cycle.last < p /\ p <= top => p \in page
      /\ Cardinality(page) < PageSize => \A p \in traffic : cycle.last < p => p \in page
      /\ Cardinality(page) < PageSize \/ Cardinality(page) = PageSize
  <2>1. top \in page \cup {cycle.last} /\ \A p \in page : p <= top
    <3>1. \E n \in page \cup {cycle.last} : \A p \in page : p <= n
      BY <1>1, CursorMoves
    <3> QED BY <3>1
  <2> HIDE DEF top
  <2> QED BY <1>1, <1>2, <2>1, PageIsNext
<1>5. UNCHANGED <<listed, traffic, profile, quality, ingestSpent>>
  BY DEF Lodestar!ReadPage, Lodestar!CycleOnly
<1> HIDE DEF rows, top
<1>6. /\ read' \in [always : SUBSET Pair, whole : BOOLEAN] /\ read'.always = read.always
      /\ ended /\ read'.whole /\ Cardinality(page) = PageSize => ~\E p \in traffic : p > top
  BY <1>0, <1>3 DEF Lodestar!IngestTypeOK
<1>7. CASE ended
  <2>1. cycle' = [cycle EXCEPT !.pc = "upsert", !.rows = @ \cup page, !.todo = cycle.rows \cup page]
    BY <1>3, <1>7 DEF Lodestar!Upserting, rows
  <2>2. ASSUME read'.whole, NEW p \in traffic, cycle.last < p PROVE p \in page
    <3>1. CASE Cardinality(page) = PageSize
      <4>1. p \in Nat /\ ~(p > top)
        BY <1>1, <1>6, <1>7, <2>2, <3>1
      <4> QED BY <1>4, <2>2, <4>1
    <3> QED BY <1>4, <2>2, <3>1
  <2> QED BY <1>4, <1>5, <1>6, <2>1, <2>2
<1>8. CASE ~ended
  <2>1. cycle' = [cycle EXCEPT !.rows = @ \cup page, !.last = top, !.pages = @ + 1]
    BY <1>3, <1>8 DEF rows
  <2> QED BY <1>4, <1>5, <1>6, <2>1
<1> QED BY <1>7, <1>8

\* The paging.
LEMMA PagingKeepsIngest ==
    ASSUME IngestInv, Lodestar!ReadPage \/ Lodestar!PageShort
    PROVE  IngestInv'
<1>0. Lodestar!IngestTypeOK /\ CycleType /\ PagesCover /\ RunCovers /\ cycle.pc = "page"
  BY DEF IngestInv, Lodestar!ReadPage, Lodestar!PageShort
<1>1. /\ Pair \subseteq Nat \ {0} /\ traffic \subseteq Pair /\ read.always \subseteq traffic
      /\ cycle.last \in Nat /\ cycle.rows \subseteq Pair /\ cycle.touched = {}
      /\ \A p \in read.always : p <= cycle.last => p \in cycle.rows
  BY <1>0, LodestarConstants
     DEF Lodestar!IngestTypeOK, CycleType, PagesCover, Lodestar!LodestarAssumption
<1>2. CASE Lodestar!ReadPage
  <2>1. /\ UNCHANGED <<listed, traffic, profile, quality, ingestSpent>>
        /\ read' \in [always : SUBSET Pair, whole : BOOLEAN] /\ read'.always = read.always
    BY <1>2, PageRead
  <2>2. PICK page \in SUBSET traffic, top \in Nat :
            /\ \A p \in traffic : cycle.last < p /\ p <= top => p \in page
            /\ \/ /\ cycle' = [cycle EXCEPT !.pc = "upsert", !.rows = @ \cup page,
                                            !.todo = cycle.rows \cup page]
                  /\ read'.whole => \A p \in traffic : cycle.last < p => p \in page
               \/ cycle' = [cycle EXCEPT !.rows = @ \cup page, !.last = top, !.pages = @ + 1]
    BY <1>2, PageRead
  <2>3. cycle.rows \cup page \subseteq Pair /\ \A p \in read.always : p \in traffic /\ p \in Nat
    BY <1>1
  <2>4. CASE /\ cycle' = [cycle EXCEPT !.pc = "upsert", !.rows = @ \cup page,
                                       !.todo = cycle.rows \cup page]
             /\ read'.whole => \A p \in traffic : cycle.last < p => p \in page
    <3>1. CycleType' /\ cycle'.pc = "upsert" /\ cycle'.rows = cycle.rows \cup page
          /\ cycle'.todo = cycle'.rows /\ cycle'.touched = {}
      BY <1>0, <1>1, <2>3, <2>4 DEF CycleType, IngestPc
    <3>2. read'.whole => read.always \subseteq cycle.rows \cup page
      BY <1>1, <2>3, <2>4
    <3>3. Lodestar!IngestTypeOK'
      BY <1>0, <2>1, <3>1 DEF Lodestar!IngestTypeOK
    <3> QED BY <2>1, <3>1, <3>2, <3>3 DEF IngestInv, PagesCover, RunCovers
  <2>5. CASE cycle' = [cycle EXCEPT !.rows = @ \cup page, !.last = top, !.pages = @ + 1]
    <3>1. CycleType' /\ cycle'.pc = "page" /\ cycle'.rows = cycle.rows \cup page
          /\ cycle'.last = top /\ cycle'.touched = {}
      <4>1. cycle.pages + 1 \in Nat
        BY <1>0 DEF CycleType
      <4> QED BY <1>0, <1>1, <2>3, <2>5, <4>1 DEF CycleType, IngestPc
    <3>2. \A p \in read.always : p <= top => p \in cycle.rows \cup page
      BY <1>1, <2>2, <2>3
    <3>3. Lodestar!IngestTypeOK'
      BY <1>0, <2>1, <3>1 DEF Lodestar!IngestTypeOK
    <3> QED BY <1>1, <2>1, <3>1, <3>2, <3>3 DEF IngestInv, PagesCover, RunCovers
  <2> QED BY <2>2, <2>4, <2>5
<1>3. CASE Lodestar!PageShort
  <2>1. /\ cycle' = [cycle EXCEPT !.pc = "upsert", !.rows = cycle.rows, !.todo = cycle.rows]
        /\ read' = [read EXCEPT !.whole = FALSE]
    BY <1>3 DEF Lodestar!PageShort, Lodestar!Upserting
  <2>2. CycleType' /\ cycle'.pc = "upsert" /\ cycle'.rows = cycle.rows
        /\ cycle'.todo = cycle.rows /\ cycle'.touched = {} /\ ~read'.whole
        /\ read' \in [always : SUBSET Pair, whole : BOOLEAN]
    BY <1>0, <1>1, <2>1 DEF CycleType, IngestPc, Lodestar!IngestTypeOK
  <2>3. Lodestar!IngestTypeOK'
    BY <1>0, <1>3, <2>2, IngestFailureCounts
       DEF Lodestar!PageShort, Lodestar!CycleOnly, Lodestar!IngestTypeOK
  <2> QED BY <2>2, <2>3 DEF IngestInv, PagesCover, RunCovers
<1> QED BY <1>2, <1>3

\* The rows written and deleted.
LEMMA WritingKeepsIngest ==
    ASSUME IngestInv,
           \/ \E p \in cycle.todo : Lodestar!Upsert(p)
           \/ Lodestar!Delete \/ Lodestar!DeleteAhead \/ Lodestar!DeleteBehind
    PROVE  IngestInv'
<1>0. Lodestar!IngestTypeOK /\ CycleType /\ PagesCover /\ RunCovers
  BY DEF IngestInv
<1>1. ASSUME NEW p \in cycle.todo, Lodestar!Upsert(p) PROVE IngestInv'
  <2>1. /\ cycle.pc = "upsert" /\ quality' = quality \cup {p}
        /\ cycle' = [cycle EXCEPT !.todo = @ \ {p}, !.touched = @ \cup {p}]
        /\ UNCHANGED <<listed, traffic, profile, read, ingestSpent>>
    BY <1>1 DEF Lodestar!Upsert, Lodestar!CycleOnly
  <2>2. p \in Pair /\ cycle.todo \subseteq Pair
    BY <1>0, <2>1 DEF CycleType
  <2>3. /\ CycleType' /\ cycle'.pc = "upsert" /\ cycle'.rows = cycle.rows
        /\ cycle'.todo = cycle.todo \ {p} /\ cycle'.touched = cycle.touched \cup {p}
    BY <1>0, <2>1, <2>2 DEF CycleType
  <2>4. RunCovers' /\ PagesCover'
    BY <1>0, <2>1, <2>3 DEF RunCovers, PagesCover
  <2>5. cycle.todo \subseteq cycle.rows
    BY <1>0, <2>1 DEF CycleType
  <2>6. Lodestar!IngestTypeOK'
    BY <1>0, <2>1, <2>2, <2>3, <2>5 DEF Lodestar!IngestTypeOK
  <2> QED BY <2>3, <2>4, <2>6 DEF IngestInv
<1>2. CASE Lodestar!Delete
  <2>1. Lodestar!IngestTypeOK'
    BY <1>0, <1>2 DEF Lodestar!Delete, Lodestar!CycleOnly, Lodestar!Idle, Lodestar!IngestTypeOK
  <2> QED BY <1>2, <2>1, IngestStartsOver DEF Lodestar!Delete
<1>3. CASE Lodestar!DeleteAhead
  <2>1. read' \in [always : SUBSET Pair, whole : BOOLEAN]
    BY <1>0, <1>3 DEF Lodestar!DeleteAhead, Lodestar!IngestTypeOK
  <2>2. Lodestar!IngestTypeOK'
    BY <1>0, <1>3, <2>1, IngestFailureCounts
       DEF Lodestar!DeleteAhead, Lodestar!CycleOnly, Lodestar!Idle, Lodestar!IngestTypeOK
  <2> QED BY <1>3, <2>2, IngestStartsOver DEF Lodestar!DeleteAhead
<1>4. CASE Lodestar!DeleteBehind
  <2>1. quality' \subseteq quality
    BY <1>4 DEF Lodestar!DeleteBehind
  <2>2. Lodestar!IngestTypeOK'
    BY <1>0, <1>4, <2>1, IngestFailureCounts
       DEF Lodestar!DeleteBehind, Lodestar!CycleOnly, Lodestar!Idle, Lodestar!IngestTypeOK
  <2> QED BY <1>4, <2>2, IngestStartsOver DEF Lodestar!DeleteBehind
<1> QED BY <1>1, <1>2, <1>3, <1>4

\* A part of the cycle ends: the other one starts, or the cycle is over.
LEMMA EndingKeepsIngest ==
    ASSUME IngestInv,
           \/ Lodestar!EndRoster \/ Lodestar!RosterFails
           \/ Lodestar!RunFails \/ Lodestar!Crash
    PROVE  IngestInv'
<1>0. Lodestar!IngestTypeOK
  BY DEF IngestInv
<1>1. CASE Lodestar!EndRoster \/ Lodestar!RosterFails
  <2>1. /\ cycle' = [Lodestar!Idle EXCEPT !.pc = "page"]
        /\ read' = [always |-> traffic, whole |-> TRUE]
        /\ UNCHANGED <<listed, traffic, profile, quality>>
    BY <1>1 DEF Lodestar!EndRoster, Lodestar!RosterFails, Lodestar!ToAllocations,
                Lodestar!CycleOnly
  <2>2. ingestSpent' \in [changes : 0..IngestChanges, failures : 0..IngestFailures,
                          crashes : 0..MaxCrashes]
    BY <1>0, <1>1, IngestFailureCounts
       DEF Lodestar!EndRoster, Lodestar!RosterFails, Lodestar!IngestTypeOK
  <2>3. Lodestar!IngestTypeOK'
    BY <1>0, <2>1, <2>2 DEF Lodestar!Idle, Lodestar!IngestTypeOK
  <2> QED BY <2>1, <2>3, IngestStartsOver
<1>2. CASE Lodestar!RunFails \/ Lodestar!Crash
  <2>1. /\ cycle' = Lodestar!Idle
        /\ UNCHANGED <<listed, traffic, profile, quality, read>>
    BY <1>2 DEF Lodestar!RunFails, Lodestar!Crash, Lodestar!CycleOnly
  <2>2. ingestSpent' \in [changes : 0..IngestChanges, failures : 0..IngestFailures,
                          crashes : 0..MaxCrashes]
    BY <1>0, <1>2, IngestFailureCounts, LodestarConstants
       DEF Lodestar!RunFails, Lodestar!Crash, Lodestar!IngestTypeOK, Lodestar!LodestarAssumption
  <2>3. Lodestar!IngestTypeOK'
    BY <1>0, <2>1, <2>2 DEF Lodestar!Idle, Lodestar!IngestTypeOK
  <2> QED BY <2>1, <2>3, IngestStartsOver
<1> QED BY <1>1, <1>2

\* Every step keeps the invariant.
LEMMA IngestNext == IngestInv /\ [Lodestar!Next]_(Lodestar!vars) => IngestInv'
<1> SUFFICES ASSUME IngestInv, [Lodestar!Next]_(Lodestar!vars) PROVE IngestInv'
  OBVIOUS
<1>1. CASE Lodestar!Sources
  BY <1>1, SourcesKeepIngest
<1>2. CASE Lodestar!Loop
  BY <1>2, RosterKeepsIngest, PagingKeepsIngest, WritingKeepsIngest, EndingKeepsIngest
     DEF Lodestar!Loop
<1>3. CASE Lodestar!Faults
  BY <1>3, RosterKeepsIngest, PagingKeepsIngest, WritingKeepsIngest, EndingKeepsIngest
     DEF Lodestar!Faults
<1>4. CASE UNCHANGED Lodestar!vars
  BY <1>4 DEF Lodestar!vars, IngestInv, Lodestar!IngestTypeOK, CycleType, PagesCover, RunCovers
<1> QED BY <1>1, <1>2, <1>3, <1>4 DEF Lodestar!Next

\* A row that goes was not touched in a whole run, so its pair was not read in it.
LEMMA GoneWithoutTraffic ==
    ASSUME IngestInv, [Lodestar!Next]_(Lodestar!vars), NEW p \in quality \ quality'
    PROVE  p \in Pair \ read.always \/ ~read'.whole
<1>0. quality \subseteq Pair /\ RunCovers
  BY DEF IngestInv, Lodestar!IngestTypeOK
<1>1. CASE Lodestar!Delete \/ Lodestar!DeleteBehind
  <2>1. /\ cycle.pc = "upsert" /\ cycle.todo = {} /\ p \notin cycle.touched /\ read' = read
    BY <1>1 DEF Lodestar!Delete, Lodestar!DeleteBehind
  <2>2. p \notin cycle.rows
    BY <1>0, <2>1 DEF RunCovers
  <2> QED BY <1>0, <2>1, <2>2 DEF RunCovers
<1>2. CASE Lodestar!DeleteAhead
  BY <1>2 DEF Lodestar!DeleteAhead, IngestInv, Lodestar!IngestTypeOK
<1>3. \/ quality \subseteq quality'
      \/ Lodestar!Delete \/ Lodestar!DeleteAhead \/ Lodestar!DeleteBehind
  BY DEF Lodestar!Next, Lodestar!Sources, Lodestar!Loop, Lodestar!Faults, Lodestar!vars,
         Lodestar!RosterChanges, Lodestar!TrafficChanges, Lodestar!FetchRoster,
         Lodestar!UpsertRoster, Lodestar!ToQuality, Lodestar!UpdateQuality, Lodestar!EndRoster,
         Lodestar!ReadPage, Lodestar!Upsert, Lodestar!RosterFails, Lodestar!QualityFails,
         Lodestar!PageShort, Lodestar!RunFails, Lodestar!Crash
<1> QED BY <1>1, <1>2, <1>3


-----------------------------------------------------------------------------
(* SybilClusters.  The groups are classes of an equivalence, whatever the  *)
(* union-find makes of the links, so no indexer is in two rows of one      *)
(* detection; and a row is found again in the table by its members alone.  *)

\* A row of table sybil_cluster.
ClusterRow == [members : SUBSET Address, confidence : 40..100]

\* A candidate: its footprint may be missing.
Candidate ==
    [address : Address, day : Nat, stake : Nat,
     deps : {{}} \cup UNION {SUBSET p.deps : p \in SwarmProfile}]

\* What is known of a footprint is finite.
LEMMA FiniteFootprint == ASSUME NEW a \in Candidate PROVE IsFiniteSet(a.deps)
<1>1. \A p \in SwarmProfile : IsFiniteSet(p.deps)
  BY SwarmConstants, SwarmCounts DEF Swarm!ProfileAssumption
<1>2. a.deps = {} \/ \E p \in SwarmProfile : a.deps \in SUBSET p.deps
  BY DEF Candidate
<1> QED BY <1>1, <1>2, FS_EmptySet, FS_Subset

\* A sequence of candidates has each indexer once.
EachOnce(c) == \A i, j \in 1..Len(c) : c[i].address = c[j].address => i = j

\* No indexer is in two of the rows, and none of them is empty.
Apart(rows) ==
    /\ \A x \in rows : x.members # {}
    /\ \A x, y \in rows : x.members \cap y.members # {} => x = y

DetectionType ==
    /\ detection \in [pc : {"idle", "footprints", "store"}, rows : Seq(Candidate),
                      found : SUBSET ClusterRow, todo : SUBSET ClusterRow]
    /\ EachOnce(detection.rows)
    /\ clusters \subseteq ClusterRow
    /\ latest \in [found : SUBSET ClusterRow, mixed : BOOLEAN]
    /\ Apart(latest.found)

\* What is found is stored, row by row, while the detection stores; and before that
\* the table is what was found last, unless it is a mixture.
StoredInStep ==
    IF detection.pc = "store"
    THEN /\ latest.found = detection.found
         /\ detection.found \ detection.todo \subseteq clusters
    ELSE ~latest.mixed => clusters = latest.found

SwarmInv == Swarm!SybilTypeOK /\ DetectionType /\ StoredInStep

\* The rows that one clustering finds.
LEMMA FoundIsApart ==
    ASSUME NEW c \in Seq(Candidate), EachOnce(c)
    PROVE  Apart(Swarm!Found(c)) /\ Swarm!Found(c) \subseteq ClusterRow
<1> DEFINE root == [i \in 1..Len(c) |-> Swarm!Find(Swarm!Forest(c), i)]
<1>1. MinMembers \in Nat \ {0}
  BY SwarmConstants DEF Swarm!SybilBounds
<1>2. ASSUME NEW g \in Swarm!Groups(c)
      PROVE  /\ g \subseteq 1..Len(c) /\ g # {}
             /\ \E r : g = {i \in 1..Len(c) : root[i] = r}
  <2>1. PICK r \in 1..Len(c) : g = {i \in 1..Len(c) : root[i] = r}
    BY DEF Swarm!Groups
  <2>2. Cardinality(g) >= MinMembers
    BY SwarmCounts DEF Swarm!Groups
  <2>3. g # {}
    BY <1>1, <2>2, FS_EmptySet
  <2> QED BY <2>1, <2>3
<1> HIDE DEF root
<1>3. ASSUME NEW x \in Swarm!Found(c)
      PROVE  \E g \in Swarm!Groups(c) :
                x = [members |-> {c[i].address : i \in g}, confidence |-> Swarm!Confidence(c, g)]
  BY DEF Swarm!Found
<1>4. ASSUME NEW x \in Swarm!Found(c) PROVE x.members # {} /\ x.members \subseteq Address
  <2>1. PICK g \in Swarm!Groups(c) :
            x = [members |-> {c[i].address : i \in g}, confidence |-> Swarm!Confidence(c, g)]
    BY <1>3
  <2>2. \A i \in g : c[i] \in Candidate
    BY <1>2
  <2> QED BY <1>2, <2>1, <2>2 DEF Candidate
<1>5. ASSUME NEW x \in Swarm!Found(c), NEW y \in Swarm!Found(c), NEW a \in x.members \cap y.members
      PROVE  x = y
  <2>1. PICK g \in Swarm!Groups(c) :
            x = [members |-> {c[i].address : i \in g}, confidence |-> Swarm!Confidence(c, g)]
    BY <1>3
  <2>2. PICK h \in Swarm!Groups(c) :
            y = [members |-> {c[i].address : i \in h}, confidence |-> Swarm!Confidence(c, h)]
    BY <1>3
  <2>3. PICK i \in g : c[i].address = a
    BY <1>5, <2>1
  <2>4. PICK j \in h : c[j].address = a
    BY <1>5, <2>2
  <2>5. i = j
    BY <1>2, <2>3, <2>4 DEF EachOnce
  <2>6. g = h
    <3>1. PICK r : g = {k \in 1..Len(c) : root[k] = r}
      BY <1>2
    <3>2. PICK s : h = {k \in 1..Len(c) : root[k] = s}
      BY <1>2
    <3>3. r = s
      BY <2>5, <3>1, <3>2
    <3> QED BY <3>1, <3>2, <3>3
  <2> QED BY <2>1, <2>2, <2>6
<1>6. ASSUME NEW g PROVE Swarm!Confidence(c, g) \in 40..100
  <2> DEFINE days == {c[i].day : i \in g}
             stakes == {c[i].stake : i \in g}
             age == Swarm!ByAge(days)
             stake == Swarm!ByStake(stakes)
             overlap == Swarm!ByOverlap(Swarm!MeanOverlap(c, g))
  <2>1. age \in Nat /\ stake \in Nat /\ overlap \in Nat
    BY DEF Swarm!ByAge, Swarm!ByStake, Swarm!ByOverlap
  <2>2. Swarm!Confidence(c, g) = Swarm!Smaller(100, 40 + age + stake + overlap)
    BY DEF Swarm!Confidence
  <2> HIDE DEF age, stake, overlap
  <2> QED BY <2>1, <2>2 DEF Swarm!Smaller
<1>7. Swarm!Found(c) \subseteq ClusterRow
  <2> SUFFICES ASSUME NEW x \in Swarm!Found(c) PROVE x \in ClusterRow
    OBVIOUS
  <2>1. PICK g \in Swarm!Groups(c) :
            x = [members |-> {c[i].address : i \in g}, confidence |-> Swarm!Confidence(c, g)]
    BY <1>3
  <2>2. x.members \subseteq Address
    BY <1>4
  <2> QED BY <1>6, <2>1, <2>2 DEF ClusterRow
<1> QED BY <1>4, <1>5, <1>7 DEF Apart

\* The invariant holds at the start.
LEMMA SwarmInit == Swarm!Init => SwarmInv
<1> SUFFICES ASSUME Swarm!Init PROVE SwarmInv
  OBVIOUS
<1>1. Swarm!SybilTypeOK
  BY SwarmConstants
     DEF Swarm!Init, Swarm!SybilTypeOK, Swarm!Idle, Swarm!ProfileAssumption, Swarm!SybilBounds
<1>2. detection = [pc |-> "idle", rows |-> <<>>, found |-> {}, todo |-> {}]
  BY DEF Swarm!Init, Swarm!Idle
<1>3. EachOnce(detection.rows) /\ detection.rows \in Seq(Candidate)
  BY <1>2 DEF EachOnce
<1>4. DetectionType /\ StoredInStep
  BY <1>2, <1>3 DEF Swarm!Init, DetectionType, StoredInStep, Apart
<1> QED BY <1>1, <1>4 DEF SwarmInv

\* A failure keeps the type of the bounds.
LEMMA SwarmFailureCounts ==
    ASSUME Swarm!SybilTypeOK, Swarm!Failure
    PROVE  swarmSpent' \in [changes : 0..SwarmChanges, failures : 0..SwarmFailures]
BY SwarmConstants DEF Swarm!Failure, Swarm!SybilTypeOK, Swarm!SybilBounds

\* The roster is read in some order, each indexer once.
LEMMA ReadRosterKeeps == ASSUME SwarmInv, Swarm!ReadRoster PROVE SwarmInv'
<1>0. Swarm!SybilTypeOK /\ DetectionType /\ StoredInStep /\ detection.pc = "idle"
  BY DEF SwarmInv, Swarm!ReadRoster
<1>1. UNCHANGED <<profiles, clusters, latest, swarmSpent>>
  BY DEF Swarm!ReadRoster
<1>2. PICK order \in Swarm!SetToSeqs(Swarm!Suspects) :
          detection' = [Swarm!Idle EXCEPT !.pc = "footprints",
                          !.rows = [i \in DOMAIN order |->
                                       [address |-> order[i], day |-> profiles[order[i]].day,
                                        stake |-> profiles[order[i]].stake, deps |-> {}]]]
  BY DEF Swarm!ReadRoster
<1> DEFINE n == Cardinality(Swarm!Suspects)
           rows == [i \in 1..n |-> [address |-> order[i], day |-> profiles[order[i]].day,
                                    stake |-> profiles[order[i]].stake, deps |-> {}]]
<1>3. /\ order \in [1..n -> Swarm!Suspects] /\ \A i, j \in 1..n : i # j => order[i] # order[j]
  BY SwarmCounts DEF Swarm!SetToSeqs
<1>4. n \in Nat
  <2>1. Swarm!Suspects \subseteq Address /\ IsFiniteSet(Address)
    BY SwarmConstants, SwarmCounts DEF Swarm!Suspects, Swarm!ProfileAssumption
  <2> QED BY <2>1, FS_Subset, FS_CardinalityType
<1> HIDE DEF n
<1>5. detection' = [pc |-> "footprints", rows |-> rows, found |-> {}, todo |-> {}]
  BY <1>2, <1>3 DEF Swarm!Idle
<1>6. ASSUME NEW i \in 1..n PROVE rows[i] \in Candidate
  <2>1. order[i] \in Address
    BY <1>3 DEF Swarm!Suspects
  <2>2. profiles[order[i]].day \in Nat /\ profiles[order[i]].stake \in Nat
    BY <1>0, <2>1, SwarmConstants DEF Swarm!SybilTypeOK, Swarm!ProfileAssumption
  <2> QED BY <2>1, <2>2 DEF Candidate
<1>7. rows \in Seq(Candidate) /\ Len(rows) = n
  BY <1>4, <1>6
<1>8. \A i, j \in 1..n : rows[i].address = rows[j].address => i = j
  BY <1>3
<1> HIDE DEF rows
<1>9. EachOnce(rows)
  BY <1>7, <1>8 DEF EachOnce
<1>10. DetectionType'
  BY <1>0, <1>1, <1>5, <1>7, <1>9 DEF DetectionType
<1>11. StoredInStep' /\ Swarm!SybilTypeOK'
  BY <1>0, <1>1, <1>5 DEF StoredInStep, Swarm!SybilTypeOK
<1> QED BY <1>10, <1>11 DEF SwarmInv

\* The rows get the footprints that are known, and are clustered.
LEMMA ClusteringKeeps ==
    ASSUME SwarmInv, NEW unread, Swarm!Clustering(unread),
           swarmSpent' \in [changes : 0..SwarmChanges, failures : 0..SwarmFailures]
    PROVE  SwarmInv'
<1>0. Swarm!SybilTypeOK /\ DetectionType /\ StoredInStep /\ detection.pc = "footprints"
  BY DEF SwarmInv, Swarm!Clustering
<1> DEFINE rows == detection.rows
           c == [i \in DOMAIN rows |->
                    [rows[i] EXCEPT !.deps = {d \in profiles[rows[i].address].deps :
                                                  <<rows[i].address, d>> \notin unread}]]
<1>1. /\ detection' = [pc |-> "store", rows |-> c, found |-> Swarm!Found(c),
                       todo |-> Swarm!Found(c)]
      /\ latest' = [latest EXCEPT !.found = Swarm!Found(c)]
      /\ UNCHANGED <<profiles, clusters>>
  BY DEF Swarm!Clustering
<1>2. rows \in Seq(Candidate) /\ EachOnce(rows)
  BY <1>0 DEF DetectionType
<1>3. Len(rows) \in Nat /\ DOMAIN rows = 1..Len(rows)
  BY <1>2
<1>4. ASSUME NEW i \in 1..Len(rows)
      PROVE  c[i] \in Candidate /\ c[i].address = rows[i].address
  <2>1. rows[i] \in Candidate
    BY <1>2
  <2>2. profiles[rows[i].address] \in SwarmProfile
    BY <1>0, <2>1 DEF Swarm!SybilTypeOK, Candidate
  <2> DEFINE deps == {d \in profiles[rows[i].address].deps : <<rows[i].address, d>> \notin unread}
  <2>3. c[i] = [rows[i] EXCEPT !.deps = deps]
    BY <1>3
  <2>4. deps \in UNION {SUBSET p.deps : p \in SwarmProfile}
    BY <2>2
  <2> HIDE DEF rows, deps, c
  <2> QED BY <2>1, <2>3, <2>4 DEF Candidate
<1>5. c \in Seq(Candidate) /\ Len(c) = Len(rows)
  <2>1. DOMAIN c = 1..Len(rows) /\ c \in [1..Len(rows) -> Candidate]
    BY <1>3, <1>4
  <2> QED BY <1>3, <2>1
<1> HIDE DEF rows, c
<1>6. EachOnce(c)
  BY <1>2, <1>4, <1>5 DEF EachOnce
<1>7. Apart(Swarm!Found(c)) /\ Swarm!Found(c) \subseteq ClusterRow
  BY <1>5, <1>6, FoundIsApart
<1>8. latest'.found = Swarm!Found(c) /\ latest' \in [found : SUBSET ClusterRow, mixed : BOOLEAN]
  BY <1>0, <1>1, <1>7 DEF DetectionType
<1>9. DetectionType' /\ StoredInStep'
  BY <1>0, <1>1, <1>5, <1>6, <1>7, <1>8 DEF DetectionType, StoredInStep
<1>10. Swarm!SybilTypeOK'
  BY <1>0, <1>1 DEF Swarm!SybilTypeOK
<1> QED BY <1>9, <1>10 DEF SwarmInv

\* A row replaces the one of the same members and no other.
LEMMA StoreClusterKeeps ==
    ASSUME SwarmInv, NEW x \in detection.todo, Swarm!StoreCluster(x)
    PROVE  SwarmInv'
<1>0. Swarm!SybilTypeOK /\ DetectionType /\ StoredInStep /\ detection.pc = "store"
  BY DEF SwarmInv, Swarm!StoreCluster
<1>1. /\ clusters' = {y \in clusters : y.members # x.members} \cup {x}
      /\ detection' = [detection EXCEPT !.todo = @ \ {x}]
      /\ latest' = [latest EXCEPT !.mixed = TRUE]
      /\ UNCHANGED <<profiles, swarmSpent>>
  BY DEF Swarm!StoreCluster
<1>2. x \in detection.found /\ x \in ClusterRow /\ Apart(detection.found)
  BY <1>0 DEF DetectionType, StoredInStep, Swarm!SybilTypeOK
<1>3. /\ detection'.pc = "store" /\ detection'.rows = detection.rows
      /\ detection'.found = detection.found /\ detection'.todo = detection.todo \ {x}
      /\ latest'.found = latest.found
  BY <1>0, <1>1 DEF DetectionType
<1>4. DetectionType'
  BY <1>0, <1>1, <1>2, <1>3 DEF DetectionType
<1>5. ASSUME NEW y \in detection.found, y \notin detection'.todo PROVE y \in clusters'
  <2>1. CASE y = x
    BY <1>1, <2>1
  <2>2. CASE y # x
    <3>1. y \in clusters
      BY <1>0, <1>3, <1>5, <2>2 DEF StoredInStep
    <3>2. y.members # x.members
      BY <1>2, <2>2 DEF Apart
    <3> QED BY <1>1, <3>1, <3>2
  <2> QED BY <2>1, <2>2
<1>6. StoredInStep'
  BY <1>0, <1>3, <1>5 DEF StoredInStep
<1>7. \A y \in clusters' : y.members \subseteq Address /\ y.confidence \in 40..100
  BY <1>0, <1>1, <1>2 DEF Swarm!SybilTypeOK, ClusterRow
<1>8. \A y, z \in clusters' : y.members = z.members => y = z
  BY <1>0, <1>1 DEF Swarm!SybilTypeOK
<1>9. Swarm!SybilTypeOK'
  BY <1>0, <1>1, <1>3, <1>7, <1>8 DEF Swarm!SybilTypeOK
<1> QED BY <1>4, <1>6, <1>9 DEF SwarmInv

\* What is left in the end are the rows of the detection.
LEMMA DeleteStaleKeeps == ASSUME SwarmInv, Swarm!DeleteStale PROVE SwarmInv'
<1>0. /\ Swarm!SybilTypeOK /\ DetectionType /\ StoredInStep
      /\ detection.pc = "store" /\ detection.todo = {}
  BY DEF SwarmInv, Swarm!DeleteStale
<1>1. /\ clusters' = {y \in clusters : \E x \in detection.found : y.members = x.members}
      /\ detection' = [pc |-> "idle", rows |-> <<>>, found |-> {}, todo |-> {}]
      /\ latest' = [latest EXCEPT !.mixed = FALSE]
      /\ UNCHANGED <<profiles, swarmSpent>>
  BY DEF Swarm!DeleteStale, Swarm!Idle
<1>2. detection.found \subseteq clusters /\ latest.found = detection.found
  BY <1>0 DEF StoredInStep
<1>3. clusters' = detection.found
  <2>1. ASSUME NEW y \in clusters, NEW x \in detection.found, y.members = x.members
        PROVE  y = x
    BY <1>0, <1>2, <2>1 DEF Swarm!SybilTypeOK
  <2> QED BY <1>1, <1>2, <2>1
<1>4. EachOnce(detection'.rows) /\ detection'.rows \in Seq(Candidate)
  BY <1>1 DEF EachOnce
<1>5. latest' \in [found : SUBSET ClusterRow, mixed : BOOLEAN] /\ latest'.found = latest.found
  BY <1>0, <1>1 DEF DetectionType
<1>6. DetectionType' /\ StoredInStep'
  BY <1>0, <1>1, <1>2, <1>3, <1>4, <1>5 DEF DetectionType, StoredInStep
<1>7. Swarm!SybilTypeOK'
  BY <1>0, <1>1 DEF Swarm!SybilTypeOK
<1> QED BY <1>6, <1>7 DEF SwarmInv

\* Every step keeps the invariant.
LEMMA SwarmNext == SwarmInv /\ [Swarm!Next]_(Swarm!vars) => SwarmInv'
<1> SUFFICES ASSUME SwarmInv, [Swarm!Next]_(Swarm!vars) PROVE SwarmInv'
  OBVIOUS
<1>0. Swarm!SybilTypeOK /\ DetectionType /\ StoredInStep
  BY DEF SwarmInv
<1>1. ASSUME NEW a \in Address, Swarm!ProfileChanges(a) PROVE SwarmInv'
  <2>1. profiles' \in [Address -> SwarmProfile]
    BY <1>0, <1>1 DEF Swarm!ProfileChanges, Swarm!SybilTypeOK
  <2>2. swarmSpent' \in [changes : 0..SwarmChanges, failures : 0..SwarmFailures]
    BY <1>0, <1>1, SwarmConstants
       DEF Swarm!ProfileChanges, Swarm!SybilTypeOK, Swarm!SybilBounds
  <2> QED BY <1>0, <1>1, <2>1, <2>2
          DEF Swarm!ProfileChanges, SwarmInv, Swarm!SybilTypeOK, DetectionType, StoredInStep
<1>2. CASE Swarm!ReadRoster
  BY <1>2, ReadRosterKeeps
<1>3. CASE Swarm!Cluster
  BY <1>0, <1>3, ClusteringKeeps DEF Swarm!Cluster, Swarm!SybilTypeOK
<1>4. CASE Swarm!ClusterBlind
  BY <1>0, <1>4, ClusteringKeeps, SwarmFailureCounts DEF Swarm!ClusterBlind
<1>5. ASSUME NEW x \in detection.todo, Swarm!StoreCluster(x) PROVE SwarmInv'
  BY <1>5, StoreClusterKeeps
<1>6. CASE Swarm!DeleteStale
  BY <1>6, DeleteStaleKeeps
<1>7. CASE Swarm!DetectionFails
  <2>1. /\ detection' = [pc |-> "idle", rows |-> <<>>, found |-> {}, todo |-> {}]
        /\ latest' = [latest EXCEPT !.mixed = @ \/ detection.pc = "store"]
        /\ UNCHANGED <<profiles, clusters>>
    BY <1>7 DEF Swarm!DetectionFails, Swarm!Idle
  <2>2. EachOnce(detection'.rows) /\ detection'.rows \in Seq(Candidate)
    BY <2>1 DEF EachOnce
  <2>3. /\ latest' \in [found : SUBSET ClusterRow, mixed : BOOLEAN]
        /\ latest'.found = latest.found
        /\ ~latest'.mixed => ~latest.mixed /\ detection.pc # "store"
    BY <1>0, <2>1 DEF DetectionType
  <2>4. DetectionType' /\ StoredInStep'
    BY <1>0, <2>1, <2>2, <2>3 DEF DetectionType, StoredInStep
  <2>5. Swarm!SybilTypeOK'
    BY <1>0, <1>7, <2>1, SwarmFailureCounts DEF Swarm!DetectionFails, Swarm!SybilTypeOK
  <2> QED BY <2>4, <2>5 DEF SwarmInv
<1>8. CASE UNCHANGED Swarm!vars
  BY <1>0, <1>8 DEF Swarm!vars, SwarmInv, Swarm!SybilTypeOK, DetectionType, StoredInStep
<1> QED BY <1>1, <1>2, <1>3, <1>4, <1>5, <1>6, <1>7, <1>8 DEF Swarm!Next

-----------------------------------------------------------------------------
(* How sure a group of SybilClusters is.                                   *)

\* The stakes of a part are as similar as those of the whole.
LEMMA PartIsSimilar ==
    ASSUME NEW low \in Nat, NEW lowest \in Nat, NEW high \in Nat, NEW highest \in Nat,
           lowest <= low, low <= high, high <= highest,
           NEW percent \in {3, 10, 25}, Swarm!Within(percent, lowest, highest)
    PROVE  Swarm!Within(percent, low, high)
<1>1. 100 * (highest - lowest) <= percent * highest
  BY DEF Swarm!Within, Swarm!Larger, Swarm!Smaller
<1>2. 100 * (high - low) <= percent * high
  <2>1. CASE percent = 3
    BY <1>1, <2>1
  <2>2. CASE percent = 10
    BY <1>1, <2>2
  <2>3. CASE percent = 25
    BY <1>1, <2>3
  <2> QED BY <2>1, <2>2, <2>3
<1> QED BY <1>2 DEF Swarm!Within, Swarm!Larger, Swarm!Smaller

\* The bounds of a finite set of naturals, and of a part of it.
LEMMA Extremes ==
    ASSUME NEW S \in SUBSET Nat, IsFiniteSet(S), S # {}
    PROVE  /\ Swarm!Max(S) \in S /\ \A x \in S : x <= Swarm!Max(S)
           /\ Swarm!Min(S) \in S /\ \A x \in S : Swarm!Min(S) <= x
<1>1. \E a \in S : \A b \in S : a >= b
  BY FiniteHasGreatest
<1>2. \E a \in S : \A b \in S : a <= b
  BY HasLeast
<1>3. Swarm!Max(S) \in S /\ \A x \in S : x <= Swarm!Max(S)
  BY <1>1 DEF Swarm!Max
<1>4. Swarm!Min(S) \in S /\ \A x \in S : Swarm!Min(S) <= x
  BY <1>2 DEF Swarm!Min
<1> QED BY <1>3, <1>4

LEMMA PartIsWithin ==
    ASSUME NEW S \in SUBSET Nat, IsFiniteSet(S), NEW T \in SUBSET S, T # {}
    PROVE  /\ {Swarm!Max(S), Swarm!Min(S), Swarm!Max(T), Swarm!Min(T)} \subseteq Nat
           /\ Swarm!Min(S) <= Swarm!Min(T) /\ Swarm!Min(T) <= Swarm!Max(T)
           /\ Swarm!Max(T) <= Swarm!Max(S)
<1>1. IsFiniteSet(T) /\ S # {} /\ T \subseteq Nat
  BY FS_Subset
<1>2. /\ Swarm!Max(S) \in S /\ \A x \in S : x <= Swarm!Max(S)
      /\ Swarm!Min(S) \in S /\ \A x \in S : Swarm!Min(S) <= x
  BY <1>1, Extremes
<1>3. /\ Swarm!Max(T) \in T /\ \A x \in T : x <= Swarm!Max(T)
      /\ Swarm!Min(T) \in T /\ \A x \in T : Swarm!Min(T) <= x
  BY <1>1, Extremes
<1> QED BY <1>1, <1>2, <1>3

\* The mean overlap is a natural.
LEMMA MeanOverlapType ==
    ASSUME NEW c \in Seq(Candidate), NEW g \in SUBSET (1..Len(c))
    PROVE  Swarm!MeanOverlap(c, g) \in Nat
<1> DEFINE pairs == {p \in g \X g : p[1] < p[2]}
           Reached(p) == {p} \X (1..Swarm!Overlap(c[p[1]], c[p[2]]))
           reached == UNION {Reached(p) : p \in pairs}
<1>1. IsFiniteSet(g \X g)
  <2>1. Len(c) \in Nat
    OBVIOUS
  <2>2. IsFiniteSet(1..Len(c))
    BY <2>1, FS_Interval
  <2> QED BY <2>2, FS_Subset, FS_Product
<1>2. IsFiniteSet(pairs)
  BY <1>1, FS_Subset
<1>3. ASSUME NEW p \in pairs PROVE Swarm!Overlap(c[p[1]], c[p[2]]) \in Int
  <2>1. c[p[1]] \in Candidate /\ c[p[2]] \in Candidate
    <3>1. p[1] \in 1..Len(c) /\ p[2] \in 1..Len(c)
      OBVIOUS
    <3> QED BY <3>1
  <2>2. IsFiniteSet(c[p[1]].deps) /\ IsFiniteSet(c[p[2]].deps)
    BY <2>1, FiniteFootprint
  <2> DEFINE a == c[p[1]].deps
             b == c[p[2]].deps
  <2>3. IsFiniteSet(a \cap b)
    BY <2>2, FS_Subset
  <2>5. Cardinality(a) \in Nat /\ Cardinality(b) \in Nat /\ Cardinality(a \cap b) \in Nat
    BY <2>2, <2>3, FS_CardinalityType
  <2>6. Swarm!Cardinality(a) \in Nat /\ Swarm!Cardinality(b) \in Nat
        /\ Swarm!Cardinality(a \cap b) \in Nat
    BY <2>5, SwarmCounts
  <2> DEFINE m == Swarm!Smaller(Swarm!Cardinality(a), Swarm!Cardinality(b))
  <2>7. m \in Nat
    BY <2>6 DEF Swarm!Smaller
  <2>8. Swarm!Overlap(c[p[1]], c[p[2]])
          = IF m = 0 THEN 0 ELSE (100 * Swarm!Cardinality(a \cap b)) \div m
    BY DEF Swarm!Overlap
  <2> HIDE DEF m, a, b
  <2> QED BY <2>6, <2>7, <2>8
<1>4. ASSUME NEW p \in pairs PROVE IsFiniteSet(Reached(p))
  <2>1. IsFiniteSet(1..Swarm!Overlap(c[p[1]], c[p[2]]))
    <3> DEFINE n == Swarm!Overlap(c[p[1]], c[p[2]])
    <3>1. n \in Int /\ 1 \in Int
      BY <1>3
    <3> HIDE DEF n
    <3>2. IsFiniteSet(1..n)
      BY <3>1, FS_Interval
    <3> QED BY <3>2 DEF n
  <2> QED BY <2>1, FS_Singleton, FS_Product
<1> HIDE DEF Reached
<1>5. IsFiniteSet({Reached(p) : p \in pairs})
  <2> DEFINE f == [p \in pairs |-> Reached(p)]
  <2>1. f \in Surjection(pairs, {Reached(p) : p \in pairs})
    BY DEF Surjection
  <2> QED BY <1>2, <2>1, FS_Surjection
<1>6. IsFiniteSet(reached)
  BY <1>4, <1>5, FS_UNION
<1>7. Swarm!Cardinality(reached) \in Nat
  BY <1>6, FS_CardinalityType, SwarmCounts
<1>8. pairs # {} => Swarm!Cardinality(pairs) \in Nat \ {0}
  BY <1>2, FS_CardinalityType, FS_EmptySet, SwarmCounts
<1>9. Swarm!MeanOverlap(c, g)
        = IF pairs = {} THEN 0 ELSE Swarm!Cardinality(reached) \div Swarm!Cardinality(pairs)
  BY DEF Swarm!MeanOverlap, Reached
<1> HIDE DEF pairs, reached
<1> QED BY <1>7, <1>8, <1>9

\* A part of a group with footprints that overlap no less is no less sure.
LEMMA PartIsSurer ==
    ASSUME NEW c \in Seq(Candidate), NEW g \in SUBSET (1..Len(c)), NEW part \in SUBSET g,
           part # {}, Swarm!MeanOverlap(c, g) <= Swarm!MeanOverlap(c, part)
    PROVE  Swarm!Confidence(c, g) <= Swarm!Confidence(c, part)
<1> DEFINE Days(h) == {c[i].day : i \in h}
           Stakes(h) == {c[i].stake : i \in h}
           Age(h) == Swarm!ByAge(Days(h))
           Stake(h) == Swarm!ByStake(Stakes(h))
           Crowd(h) == Swarm!ByOverlap(Swarm!MeanOverlap(c, h))
<1>1. ASSUME NEW i \in g PROVE c[i].day \in Nat /\ c[i].stake \in Nat
  <2>1. c[i] \in Candidate
    OBVIOUS
  <2> QED BY <2>1 DEF Candidate
<1>2. IsFiniteSet(g)
  <2>1. Len(c) \in Nat
    OBVIOUS
  <2>2. IsFiniteSet(1..Len(c))
    BY <2>1, FS_Interval
  <2> QED BY <2>2, FS_Subset
<1>3. IsFiniteSet(Days(g)) /\ IsFiniteSet(Stakes(g))
  <2>1. [i \in g |-> c[i].day] \in Surjection(g, Days(g))
    BY DEF Surjection
  <2>2. [i \in g |-> c[i].stake] \in Surjection(g, Stakes(g))
    BY DEF Surjection
  <2> QED BY <1>2, <2>1, <2>2, FS_Surjection
<1>4. /\ Days(g) \subseteq Nat /\ Days(part) \subseteq Days(g) /\ Days(part) # {}
      /\ Stakes(g) \subseteq Nat /\ Stakes(part) \subseteq Stakes(g) /\ Stakes(part) # {}
  BY <1>1
<1> HIDE DEF Days, Stakes
<1>5. /\ {Swarm!Max(Days(g)), Swarm!Min(Days(g)),
          Swarm!Max(Days(part)), Swarm!Min(Days(part))} \subseteq Nat
      /\ Swarm!Min(Days(g)) <= Swarm!Min(Days(part))
      /\ Swarm!Min(Days(part)) <= Swarm!Max(Days(part))
      /\ Swarm!Max(Days(part)) <= Swarm!Max(Days(g))
  BY <1>3, <1>4, PartIsWithin
<1>6. /\ {Swarm!Max(Stakes(g)), Swarm!Min(Stakes(g)),
          Swarm!Max(Stakes(part)), Swarm!Min(Stakes(part))} \subseteq Nat
      /\ Swarm!Min(Stakes(g)) <= Swarm!Min(Stakes(part))
      /\ Swarm!Min(Stakes(part)) <= Swarm!Max(Stakes(part))
      /\ Swarm!Max(Stakes(part)) <= Swarm!Max(Stakes(g))
  BY <1>3, <1>4, PartIsWithin
<1>7. Age(g) \in Nat /\ Age(part) \in Nat /\ Age(g) <= Age(part)
  BY <1>5 DEF Swarm!ByAge
<1>8. Stake(g) \in Nat /\ Stake(part) \in Nat /\ Stake(g) <= Stake(part)
  <2> DEFINE low(h) == Swarm!Min(Stakes(h))
             similar(percent, h) == Swarm!Within(percent, low(h), Swarm!Max(Stakes(h)))
             step(h) == IF similar(3, h) THEN 20
                        ELSE IF similar(10, h) THEN 10 ELSE IF similar(25, h) THEN 5 ELSE 0
             whale(h) == IF low(h) >= HighStake THEN 15 ELSE 0
  <2>1. \A percent \in {3, 10, 25} : similar(percent, g) => similar(percent, part)
    BY <1>6, PartIsSimilar
  <2>2. HighStake \in Nat /\ low(g) \in Nat /\ low(part) \in Nat /\ low(g) <= low(part)
    BY <1>6, SwarmConstants DEF Swarm!SybilBounds
  <2>3. \A h : Stake(h) = step(h) + whale(h)
    BY DEF Swarm!ByStake
  <2> HIDE DEF similar, low, Stake
  <2>4. step(g) \in Nat /\ step(part) \in Nat /\ step(g) <= step(part)
    BY <2>1
  <2>5. whale(g) \in Nat /\ whale(part) \in Nat /\ whale(g) <= whale(part)
    BY <2>2
  <2> HIDE DEF step, whale
  <2> QED BY <2>3, <2>4, <2>5
<1>9. Crowd(g) \in Nat /\ Crowd(part) \in Nat /\ Crowd(g) <= Crowd(part)
  <2>1. Swarm!MeanOverlap(c, g) \in Nat /\ Swarm!MeanOverlap(c, part) \in Nat
    BY MeanOverlapType
  <2>2. CrowdOverlap \in Nat
    BY SwarmConstants DEF Swarm!SybilBounds
  <2> QED BY <2>1, <2>2 DEF Swarm!ByOverlap
<1>10. \A h : Swarm!Confidence(c, h) = Swarm!Smaller(100, 40 + Age(h) + Stake(h) + Crowd(h))
  BY DEF Swarm!Confidence, Days, Stakes
<1> HIDE DEF Age, Stake, Crowd
<1> DEFINE total == 40 + Age(g) + Stake(g) + Crowd(g)
           ofPart == 40 + Age(part) + Stake(part) + Crowd(part)
<1>11. total \in Nat /\ ofPart \in Nat /\ total <= ofPart
  BY <1>7, <1>8, <1>9
<1>12. /\ Swarm!Confidence(c, g) = Swarm!Smaller(100, total)
       /\ Swarm!Confidence(c, part) = Swarm!Smaller(100, ofPart)
  BY <1>10
<1> HIDE DEF total, ofPart
<1> QED BY <1>11, <1>12 DEF Swarm!Smaller

\* A group of candidates and a part of it that is large enough.
LEMMA SizeNeverInflatesGroups == SwarmInv => SizeNeverInflates
<1> SUFFICES ASSUME SwarmInv, NEW g \in Swarm!Groups(detection.rows), NEW part \in SUBSET g,
                    Cardinality(part) >= MinMembers,
                    Swarm!MeanOverlap(detection.rows, g) <= Swarm!MeanOverlap(detection.rows, part)
             PROVE  Swarm!Confidence(detection.rows, g) <= Swarm!Confidence(detection.rows, part)
  BY SwarmCounts DEF SizeNeverInflates, Swarm!SizeNeverInflates
<1>1. detection.rows \in Seq(Candidate)
  BY DEF SwarmInv, DetectionType
<1>2. g \subseteq 1..Len(detection.rows)
  BY DEF Swarm!Groups
<1>3. part # {}
  BY SwarmConstants, FS_EmptySet DEF Swarm!SybilBounds
<1> QED BY <1>1, <1>2, <1>3, PartIsSurer

-----------------------------------------------------------------------------
(* The union-find of SybilClusters.  It is two loops and a climb, each a   *)
(* recursive function over the steps taken; what such a function computes  *)
(* is shown from its equation, by the least place where it would be wrong. *)
(* The forest is described by the root and the depth of every place: find  *)
(* reaches the root because depth falls, and a union keeps two facts, that *)
(* the ends of every link seen share a root and that no tree reaches       *)
(* beyond the links.                                                       *)

\* What the recursive functions of the two loops and of the climb compute: a first
\* value, and at each later place a step from the value before it.
Iterates(f, m, n, base, step) ==
    f = [k \in m..n |-> IF k = m THEN base ELSE step[<<k, f[k - 1]>>]]

\* Such a function exists, and its values are values: of the lengths for which there
\* is none there would be a least, and one more step would reach it.
LEMMA IterationExists ==
    ASSUME NEW S, NEW m \in Nat, NEW n \in Nat, m <= n, NEW base \in S,
           NEW step, \A k \in (m + 1)..n : \A v \in S : step[<<k, v>>] \in S
    PROVE  \E f \in [m..n -> S] : Iterates(f, m, n, base, step)
<1> DEFINE none == {k \in m..n : ~\E f \in [m..k -> S] : Iterates(f, m, k, base, step)}
<1> SUFFICES ASSUME n \in none PROVE FALSE
  OBVIOUS
<1>1. PICK k \in none : \A i \in none : k <= i
  <2> none \subseteq Nat
    OBVIOUS
  <2> HIDE DEF none
  <2> QED BY HasLeast
<1>2. CASE k = m
  <2> DEFINE f == [i \in m..m |-> base]
  <2>1. f \in [m..m -> S] /\ Iterates(f, m, m, base, step)
    BY DEF Iterates
  <2> QED BY <1>1, <1>2, <2>1
<1>3. CASE k # m
  <2>1. k \in Nat /\ k - 1 \in m..n /\ k \in (m + 1)..n
    BY <1>3
  <2>2. k - 1 \notin none
    BY <1>1, <2>1
  <2>3. PICK f \in [m..(k - 1) -> S] : Iterates(f, m, k - 1, base, step)
    BY <2>1, <2>2
  <2> DEFINE g == [i \in m..k |-> IF i = k THEN step[<<k, f[k - 1]>>] ELSE f[i]]
  <2>4. g \in [m..k -> S]
    BY <2>1, <2>3
  <2>5. ASSUME NEW i \in m..k
        PROVE  g[i] = IF i = m THEN base ELSE step[<<i, g[i - 1]>>]
    <3>1. CASE i = k
      BY <2>1, <3>1
    <3>2. CASE i # k
      <4>1. i \in m..(k - 1)
        BY <2>1, <3>2
      <4>2. f[i] = IF i = m THEN base ELSE step[<<i, f[i - 1]>>]
        BY <2>3, <4>1 DEF Iterates
      <4>3. i # m => i - 1 \in m..k /\ i - 1 # k
        BY <2>1, <4>1
      <4> QED BY <3>2, <4>2, <4>3
    <3> QED BY <3>1, <3>2
  <2>6. Iterates(g, m, k, base, step)
    <3> HIDE DEF g
    <3>1. g = [i \in m..k |-> g[i]]
      BY <2>4
    <3> QED BY <2>5, <3>1 DEF Iterates
  <2> QED BY <1>1, <2>4, <2>6
<1> QED BY <1>2, <1>3

\* What holds at the first place and is handed on by every step holds at each place.
LEMMA IterationKeeps ==
    ASSUME NEW m \in Nat, NEW n \in Nat, NEW base, NEW step, NEW f, Iterates(f, m, n, base, step),
           NEW Good, base \in Good[m],
           \A k \in (m + 1)..n : \A v \in Good[k - 1] : step[<<k, v>>] \in Good[k]
    PROVE  \A k \in m..n : f[k] \in Good[k]
<1> DEFINE bad == {k \in m..n : f[k] \notin Good[k]}
<1> SUFFICES ASSUME bad # {} PROVE FALSE
  OBVIOUS
<1>1. PICK k \in bad : \A i \in bad : k <= i
  <2> bad \subseteq Nat
    OBVIOUS
  <2> HIDE DEF bad
  <2> QED BY HasLeast
<1>2. f[k] = IF k = m THEN base ELSE step[<<k, f[k - 1]>>]
  BY DEF Iterates
<1>3. k # m
  BY <1>2
<1>4. k \in (m + 1)..n /\ k - 1 \in m..n /\ k - 1 \notin bad
  BY <1>1, <1>3
<1>5. f[k - 1] \in Good[k - 1]
  BY <1>4
<1> QED BY <1>2, <1>3, <1>4, <1>5

\* Going up from what is good after k - 1 steps leads to what is good after k.
GoodAbove(Good, parent, n) == \A k \in 1..n : \A v \in Good[k - 1] : parent[v] \in Good[k]

\* find: it follows the parents n times.
LEMMA FindClimbs ==
    ASSUME NEW n \in Nat, NEW parent \in [1..n -> 1..n], NEW x \in 1..n, NEW Good,
           x \in Good[0], GoodAbove(Good, parent, n)
    PROVE  Swarm!Find(parent, x) \in Good[n]
<1> DEFINE Climbs(f) == f = [k \in 0..n |-> IF k = 0 THEN x ELSE parent[f[k - 1]]]
           g == CHOOSE f : Climbs(f)
<1>1. Len(parent) = n
  OBVIOUS
<1>2. Swarm!Find(parent, x) = g[n]
  BY <1>1 DEF Swarm!Find
<1> HIDE DEF g
<1> DEFINE S == 1..n
           Value == S \cup {g[k] : k \in 0..n} \cup UNION {Good[k] : k \in 0..n}
           step == [p \in S \X Value |-> parent[p[2]]]
<1>3. \A k \in S : \A v \in Value : step[<<k, v>>] = parent[v]
  <2> HIDE DEF Value
  <2> QED OBVIOUS
<1>4. \A k \in 0..n : g[k] \in Value /\ Good[k] \subseteq Value
  OBVIOUS
<1>5. S \subseteq Value
  OBVIOUS
<1> HIDE DEF step, Value
<1>6. \E f : Climbs(f)
  <2>1. \A k \in (0 + 1)..n : \A v \in S : step[<<k, v>>] \in S
    <3>1. \A k \in (0 + 1)..n : k \in S
      OBVIOUS
    <3>2. \A v \in S : parent[v] \in S
      OBVIOUS
    <3> HIDE DEF S
    <3> QED BY <1>3, <1>5, <3>1, <3>2
  <2>2. PICK f \in [0..n -> S] : Iterates(f, 0, n, x, step)
    <3>1. x \in S /\ 0 \in Nat /\ 0 <= n
      OBVIOUS
    <3> HIDE DEF S
    <3> QED BY <2>1, <3>1, IterationExists
  <2>3. ASSUME NEW k \in 0..n, k # 0 PROVE step[<<k, f[k - 1]>>] = parent[f[k - 1]]
    <3>1. k \in S /\ k - 1 \in 0..n
      BY <2>3
    <3>2. f[k - 1] \in S
      BY <2>2, <3>1
    <3> QED BY <1>3, <1>5, <3>1, <3>2
  <2>4. f = [k \in 0..n |-> IF k = 0 THEN x ELSE step[<<k, f[k - 1]>>]]
    BY <2>2 DEF Iterates
  <2>5. Climbs(f)
    BY <2>3, <2>4
  <2> QED BY <2>5
<1>7. Climbs(g)
  <2> HIDE DEF Climbs
  <2> QED BY <1>6 DEF g
<1>8. Iterates(g, 0, n, x, step)
  <2>1. ASSUME NEW k \in 0..n, k # 0 PROVE step[<<k, g[k - 1]>>] = parent[g[k - 1]]
    <3>1. k \in S /\ k - 1 \in 0..n
      BY <2>1
    <3> QED BY <1>3, <1>4, <3>1
  <2>2. g = [k \in 0..n |-> IF k = 0 THEN x ELSE parent[g[k - 1]]]
    BY <1>7
  <2> QED BY <2>1, <2>2 DEF Iterates
<1>9. \A k \in (0 + 1)..n : \A v \in Good[k - 1] : step[<<k, v>>] \in Good[k]
  <2>1. \A k \in (0 + 1)..n : k \in S /\ k \in 1..n /\ k - 1 \in 0..n
    OBVIOUS
  <2> HIDE DEF S
  <2> QED BY <1>3, <1>4, <2>1 DEF GoodAbove
<1>10. \A k \in 0..n : g[k] \in Good[k]
  <2> HIDE DEF Climbs, S
  <2> QED BY <1>8, <1>9, IterationKeeps
<1>11. n \in 0..n
  OBVIOUS
<1> QED BY <1>2, <1>10, <1>11

\* A forest over 1..n: every climb goes down in depth until the root, and no tree is
\* deeper than there are unions made.
Tree(n, parent, root, depth) ==
    /\ parent \in [1..n -> 1..n] /\ root \in [1..n -> 1..n] /\ depth \in [1..n -> Nat]
    /\ \A x \in 1..n : /\ root[parent[x]] = root[x]
                       /\ parent[root[x]] = root[x]
                       /\ depth[root[x]] = 0
                       /\ parent[x] = x => root[x] = x
                       /\ parent[x] # x => depth[parent[x]] < depth[x]
                       /\ depth[x] <= Cardinality({y \in 1..n : parent[y] # y})

\* find: n climbs are enough.
LEMMA FindIsRoot ==
    ASSUME NEW n \in Nat, NEW parent, NEW root, NEW depth, Tree(n, parent, root, depth), NEW x \in 1..n
    PROVE  Swarm!Find(parent, x) = root[x]
<1> DEFINE Good == [k \in 0..n |-> {v \in 1..n : root[v] = root[x]
                                                 /\ (v = root[x] \/ depth[v] + k <= depth[x])}]
           inner == {y \in 1..n : parent[y] # y}
<1>1. parent \in [1..n -> 1..n] /\ root \in [1..n -> 1..n] /\ depth \in [1..n -> Nat]
  BY DEF Tree
<1>2. x \in Good[0]
  BY <1>1
<1>3. GoodAbove(Good, parent, n)
  <2> SUFFICES ASSUME NEW k \in 1..n, NEW v \in Good[k - 1] PROVE parent[v] \in Good[k]
    BY DEF GoodAbove
  <2>1. k - 1 \in 0..n /\ k \in 0..n
    OBVIOUS
  <2>2. /\ v \in 1..n /\ root[v] = root[x]
        /\ v = root[x] \/ depth[v] + (k - 1) <= depth[x]
    BY <2>1
  <2>3. /\ root[parent[v]] = root[x] /\ parent[root[v]] = root[v]
        /\ parent[v] = v => root[v] = v
        /\ parent[v] # v => depth[parent[v]] < depth[v]
    BY <2>2 DEF Tree
  <2>4. parent[v] \in 1..n /\ depth[v] \in Nat /\ depth[parent[v]] \in Nat /\ depth[x] \in Nat
    BY <1>1, <2>2
  <2>5. parent[v] = root[x] \/ depth[parent[v]] + k <= depth[x]
    <3>1. CASE v = root[x]
      BY <2>2, <2>3, <3>1
    <3>2. CASE v # root[x]
      <4>1. parent[v] # v
        BY <2>2, <2>3, <3>2
      <4>2. depth[parent[v]] < depth[v] /\ depth[v] + (k - 1) <= depth[x]
        BY <2>2, <2>3, <3>2, <4>1
      <4> HIDE DEF Good
      <4> QED BY <2>4, <4>2
    <3> QED BY <3>1, <3>2
  <2> QED BY <2>1, <2>3, <2>4, <2>5
<1>4. IsFiniteSet(inner) /\ Cardinality(inner) <= n /\ Cardinality(inner) \in Nat
  <2>1. IsFiniteSet(1..n) /\ Cardinality(1..n) = n
    BY FS_Interval
  <2>2. inner \subseteq 1..n
    OBVIOUS
  <2> HIDE DEF inner
  <2> QED BY <2>1, <2>2, FS_Subset, FS_CardinalityType
<1>5. Swarm!Find(parent, x) \in Good[n]
  <2> HIDE DEF Good
  <2> QED BY <1>1, <1>2, <1>3, FindClimbs
<1> DEFINE v == Swarm!Find(parent, x)
<1> HIDE DEF v
<1>6. /\ v \in 1..n /\ root[v] = root[x]
      /\ v = root[x] \/ depth[v] + n <= depth[x]
  <2>1. n \in 0..n
    OBVIOUS
  <2> QED BY <1>5, <2>1 DEF v
<1>7. v = root[x]
  <2> SUFFICES ASSUME v # root[x] PROVE FALSE
    OBVIOUS
  <2>1. parent[v] # v /\ parent[v] \in 1..n
    BY <1>1, <1>6 DEF Tree
  <2>2. depth[parent[v]] < depth[v] /\ depth[x] <= Cardinality(inner)
    BY <1>6, <2>1 DEF Tree
  <2>3. depth[parent[v]] \in Nat /\ depth[v] \in Nat /\ depth[x] \in Nat
    BY <1>1, <1>6, <2>1
  <2> QED BY <1>4, <1>6, <2>2, <2>3
<1> QED BY <1>7 DEF v

\* Two places of candidates that look like the same operator.
Link(c, i, j) == Swarm!SameOperator(c[i], c[j])

\* No tree is wider than the links: what no link leaves, no tree leaves.
FollowsLinks(c, root) ==
    \A U \in SUBSET (1..Len(c)) :
        (\A a \in U, b \in 1..Len(c) : Link(c, a, b) => b \in U)
        => \A a \in U, b \in 1..Len(c) : root[a] = root[b] => b \in U

\* A forest that has seen the pairs of done.
Forested(c, parent, done) ==
    \E root, depth : /\ Tree(Len(c), parent, root, depth)
                     /\ FollowsLinks(c, root)
                     /\ \A p \in done : Link(c, p[1], p[2]) => root[p[1]] = root[p[2]]

\* One step of the inner loop.
LEMMA UnionJoins ==
    ASSUME NEW c, Len(c) \in Nat, NEW parent, NEW done \in SUBSET ((1..Len(c)) \X (1..Len(c))),
           Forested(c, parent, done),
           \A a, b \in 1..Len(c) : Link(c, a, b) => Link(c, b, a),
           NEW i \in 1..Len(c), NEW j \in 1..Len(c)
    PROVE  Forested(c, Swarm!Union(c, parent, <<i, j>>), done \cup {<<i, j>>})
<1> DEFINE n == Len(c)
<1>1. PICK root, depth : /\ Tree(n, parent, root, depth)
                         /\ FollowsLinks(c, root)
                         /\ \A p \in done : Link(c, p[1], p[2]) => root[p[1]] = root[p[2]]
  BY DEF Forested
<1>2. parent \in [1..n -> 1..n] /\ root \in [1..n -> 1..n] /\ depth \in [1..n -> Nat]
  BY <1>1 DEF Tree
<1>3. Swarm!Find(parent, i) = root[i] /\ Swarm!Find(parent, j) = root[j]
  BY <1>1, FindIsRoot
<1>4. Swarm!Union(c, parent, <<i, j>>) =
          IF Link(c, i, j) THEN [parent EXCEPT ![root[i]] = root[j]] ELSE parent
  BY <1>3 DEF Swarm!Union, Link
<1>5. CASE ~Link(c, i, j)
  BY <1>1, <1>4, <1>5 DEF Forested
<1>6. CASE Link(c, i, j) /\ root[i] = root[j]
  <2>1. [parent EXCEPT ![root[i]] = root[j]] = parent
    BY <1>1, <1>2, <1>6 DEF Tree
  <2> QED BY <1>1, <1>4, <1>6, <2>1 DEF Forested
<1>7. CASE Link(c, i, j) /\ root[i] # root[j]
  <2> DEFINE ri == root[i]
             rj == root[j]
             p2 == [parent EXCEPT ![ri] = rj]
             r2 == [x \in 1..n |-> IF root[x] = ri THEN rj ELSE root[x]]
             d2 == [x \in 1..n |-> IF root[x] = ri THEN depth[x] + 1 ELSE depth[x]]
             inner == {y \in 1..n : parent[y] # y}
  <2>1. /\ ri \in 1..n /\ rj \in 1..n /\ ri # rj
        /\ parent[ri] = ri /\ parent[rj] = rj /\ root[ri] = ri /\ root[rj] = rj
    BY <1>1, <1>2, <1>7 DEF Tree
  <2>2. /\ {y \in 1..n : p2[y] # y} = inner \cup {ri}
        /\ Cardinality(inner \cup {ri}) = Cardinality(inner) + 1
        /\ Cardinality(inner) \in Nat
    <3>1. {y \in 1..n : p2[y] # y} = inner \cup {ri}
      BY <1>2, <2>1
    <3>2. IsFiniteSet(inner) /\ ri \notin inner
      <4>1. inner \subseteq 1..n /\ IsFiniteSet(1..n)
        BY FS_Interval
      <4>2. ri \notin inner
        BY <2>1
      <4> HIDE DEF inner
      <4> QED BY <4>1, <4>2, FS_Subset
    <3> HIDE DEF inner
    <3> QED BY <3>1, <3>2, FS_AddElement, FS_CardinalityType
  <2>3. p2 \in [1..n -> 1..n] /\ r2 \in [1..n -> 1..n] /\ d2 \in [1..n -> Nat]
    BY <1>2, <2>1
  <2>4. Tree(n, p2, r2, d2)
    <3> SUFFICES ASSUME NEW x \in 1..n
                 PROVE  /\ r2[p2[x]] = r2[x]
                        /\ p2[r2[x]] = r2[x]
                        /\ d2[r2[x]] = 0
                        /\ p2[x] = x => r2[x] = x
                        /\ p2[x] # x => d2[p2[x]] < d2[x]
                        /\ d2[x] <= Cardinality({y \in 1..n : p2[y] # y})
      BY <2>3 DEF Tree
    <3>1. /\ root[parent[x]] = root[x]
          /\ parent[root[x]] = root[x]
          /\ depth[root[x]] = 0
          /\ parent[x] = x => root[x] = x
          /\ parent[x] # x => depth[parent[x]] < depth[x]
          /\ depth[x] <= Cardinality(inner)
      BY <1>1 DEF Tree
    <3>2. depth[ri] = 0 /\ depth[rj] = 0
      BY <1>1 DEF Tree
    <3>3. /\ parent[x] \in 1..n /\ root[x] \in 1..n /\ depth[x] \in Nat
          /\ depth[parent[x]] \in Nat
      BY <1>2
    <3>4. d2[x] <= Cardinality(inner) + 1
      BY <2>2, <3>1, <3>3
    <3>5. CASE x = ri
      <4>1. p2[x] = rj /\ r2[x] = rj /\ r2[rj] = rj
        BY <1>2, <2>1, <3>5
      <4>2. p2[rj] = rj /\ d2[rj] = 0
        BY <1>2, <2>1, <3>2
      <4>3. d2[x] = 1
        BY <2>1, <3>2, <3>5
      <4>4. x # rj
        BY <2>1, <3>5
      <4>5. d2[x] <= Cardinality({y \in 1..n : p2[y] # y})
        BY <2>2, <3>4
      <4> HIDE DEF p2, r2, d2, ri, rj
      <4> QED BY <4>1, <4>2, <4>3, <4>4, <4>5
    <3>6. CASE x # ri
      <4>1. p2[x] = parent[x]
        BY <1>2, <3>6
      <4>2. r2[p2[x]] = r2[x]
        BY <3>1, <3>3, <4>1
      <4>3. r2[x] \in 1..n /\ r2[x] # ri
        BY <2>1, <3>3
      <4>4. p2[r2[x]] = r2[x] /\ d2[r2[x]] = 0
        <5>1. CASE root[x] = ri
          <6>1. r2[x] = rj
            BY <5>1
          <6>2. p2[rj] = rj /\ d2[rj] = 0
            BY <1>2, <2>1, <3>2
          <6> QED BY <6>1, <6>2
        <5>2. CASE root[x] # ri
          <6>1. r2[x] = root[x]
            BY <5>2
          <6>2. p2[root[x]] = root[x]
            BY <1>2, <3>1, <3>3, <5>2
          <6>3. root[root[x]] = root[x]
            BY <1>1, <3>1, <3>3 DEF Tree
          <6>4. d2[root[x]] = 0
            BY <3>1, <3>3, <5>2, <6>3
          <6> QED BY <6>1, <6>2, <6>4
        <5> QED BY <5>1, <5>2
      <4>5. p2[x] = x => r2[x] = x
        BY <3>1, <3>3, <3>6, <4>1
      <4>6. p2[x] # x => d2[p2[x]] < d2[x]
        BY <3>1, <3>3, <4>1
      <4> QED BY <2>2, <3>4, <4>2, <4>4, <4>5, <4>6
    <3> QED BY <3>5, <3>6
  <2>5. FollowsLinks(c, r2)
    <3> SUFFICES ASSUME NEW U \in SUBSET (1..n),
                        \A a \in U, b \in 1..n : Link(c, a, b) => b \in U,
                        NEW a \in U, NEW b \in 1..n, r2[a] = r2[b]
                 PROVE  b \in U
      BY DEF FollowsLinks
    <3>1. \A x \in U, y \in 1..n : root[x] = root[y] => y \in U
      BY <1>1 DEF FollowsLinks
    <3>2. i \in U <=> j \in U
      BY <1>7
    <3>3. root[a] = root[b] \/ {root[a], root[b]} = {ri, rj}
      BY <2>1
    <3> HIDE DEF r2
    <3>4. root[a] \in {ri, rj} => i \in U /\ j \in U
      BY <3>1, <3>2
    <3> QED BY <3>1, <3>3, <3>4
  <2>6. ASSUME NEW p \in done \cup {<<i, j>>}, Link(c, p[1], p[2]) PROVE r2[p[1]] = r2[p[2]]
    <3>1. CASE p \in done
      <4>1. p[1] \in 1..n /\ p[2] \in 1..n /\ root[p[1]] = root[p[2]]
        BY <1>1, <2>6, <3>1
      <4> QED BY <4>1
    <3>2. CASE p = <<i, j>>
      BY <2>1, <3>2
    <3> QED BY <3>1, <3>2
  <2>7. Swarm!Union(c, parent, <<i, j>>) = p2
    BY <1>4, <1>7
  <2> HIDE DEF p2, r2, d2
  <2> QED BY <2>4, <2>5, <2>6, <2>7 DEF Forested
<1> QED BY <1>5, <1>6, <1>7

\* Every pair of candidates i < j with i <= k.
PairsUpTo(c, k) == {p \in (1..Len(c)) \X (1..Len(c)) : p[1] <= k /\ p[1] < p[2]}

\* The pairs of candidate i with those up to k.
PairsOf(i, k) == {i} \X ((i + 1)..k)

\* The links are the same both ways.
Mutual(c) == \A i, j \in 1..Len(c) : Link(c, i, j) => Link(c, j, i)

\* A union leaves every parent a place.
LEMMA UnionType ==
    ASSUME NEW c, NEW n \in Nat, NEW parent \in [1..n -> 1..n], NEW i \in 1..n, NEW j \in 1..n
    PROVE  Swarm!Union(c, parent, <<i, j>>) \in [1..n -> 1..n]
<1> DEFINE Good == [k \in 0..n |-> 1..n]
<1>1. \A k \in 0..n : Good[k] = 1..n
  OBVIOUS
<1>2. GoodAbove(Good, parent, n)
  <2>1. \A k \in 1..n : k \in 0..n /\ k - 1 \in 0..n
    OBVIOUS
  <2> HIDE DEF Good
  <2> QED BY <1>1, <2>1 DEF GoodAbove
<1>3. ASSUME NEW x \in 1..n PROVE Swarm!Find(parent, x) \in 1..n
  <2>1. x \in Good[0] /\ Good[n] = 1..n
    BY <1>1
  <2> HIDE DEF Good
  <2> QED BY <1>2, <2>1, FindClimbs
<1>4. Swarm!Find(parent, i) \in 1..n /\ Swarm!Find(parent, j) \in 1..n
  BY <1>3
<1> QED BY <1>4 DEF Swarm!Union

\* The inner loop sees the pairs of its candidate.
LEMMA RowJoins ==
    ASSUME NEW c, Len(c) \in Nat, Mutual(c), NEW i \in 1..Len(c), NEW parent,
           NEW done \in SUBSET ((1..Len(c)) \X (1..Len(c))), Forested(c, parent, done)
    PROVE  Forested(c, Swarm!Row(c, parent, i), done \cup PairsOf(i, Len(c)))
<1> DEFINE n == Len(c)
           Joins(f) == f = [j \in i..n |-> IF j = i THEN parent ELSE Swarm!Union(c, f[j - 1], <<i, j>>)]
           g == CHOOSE f : Joins(f)
<1>1. Swarm!Row(c, parent, i) = g[n]
  BY DEF Swarm!Row
<1> HIDE DEF g
<1> DEFINE S == [1..n -> 1..n]
           Good == [j \in i..n |-> {v \in S : Forested(c, v, done \cup PairsOf(i, j))}]
           Value == S \cup {g[j] : j \in i..n}
           step == [p \in (1..n) \X Value |-> Swarm!Union(c, p[2], <<i, p[1]>>)]
<1>2. \A j \in 1..n : \A v \in Value : step[<<j, v>>] = Swarm!Union(c, v, <<i, j>>)
  <2> HIDE DEF Value
  <2> QED OBVIOUS
<1>3. \A j \in i..n : g[j] \in Value
  OBVIOUS
<1>4. S \subseteq Value
  OBVIOUS
<1>5. parent \in S
  BY DEF Forested, Tree
<1> HIDE DEF step, Value
<1>6. ASSUME NEW j \in i..n, j # i
      PROVE  j \in 1..n /\ j - 1 \in i..n /\ j \in (i + 1)..n
  BY <1>6
<1>7. \E f : Joins(f)
  <2>1. ASSUME NEW j \in (i + 1)..n, NEW v \in S PROVE step[<<j, v>>] \in S
    <3>1. j \in 1..n
      OBVIOUS
    <3>2. Swarm!Union(c, v, <<i, j>>) \in S
      BY <3>1, UnionType
    <3> QED BY <1>2, <1>4, <3>1, <3>2
  <2>2. PICK f \in [i..n -> S] : Iterates(f, i, n, parent, step)
    <3>1. i \in Nat /\ n \in Nat /\ i <= n
      OBVIOUS
    <3> HIDE DEF S, n
    <3> QED BY <1>5, <2>1, <3>1, IterationExists
  <2>3. ASSUME NEW j \in i..n, j # i
        PROVE  step[<<j, f[j - 1]>>] = Swarm!Union(c, f[j - 1], <<i, j>>)
    <3>1. j \in 1..n /\ f[j - 1] \in S
      BY <1>6, <2>2, <2>3
    <3> QED BY <1>2, <1>4, <3>1
  <2>4. f = [j \in i..n |-> IF j = i THEN parent ELSE step[<<j, f[j - 1]>>]]
    BY <2>2 DEF Iterates
  <2>5. Joins(f)
    BY <2>3, <2>4
  <2> QED BY <2>5
<1>8. Joins(g)
  <2> HIDE DEF Joins
  <2> QED BY <1>7 DEF g
<1>9. Iterates(g, i, n, parent, step)
  <2>1. ASSUME NEW j \in i..n, j # i
        PROVE  step[<<j, g[j - 1]>>] = Swarm!Union(c, g[j - 1], <<i, j>>)
    <3>1. j \in 1..n /\ g[j - 1] \in Value
      BY <1>3, <1>6, <2>1
    <3> QED BY <1>2, <3>1
  <2>2. g = [j \in i..n |-> IF j = i THEN parent ELSE Swarm!Union(c, g[j - 1], <<i, j>>)]
    BY <1>8
  <2> QED BY <2>1, <2>2 DEF Iterates
<1>10. parent \in Good[i]
  <2>1. done \cup PairsOf(i, i) = done /\ i \in i..n
    BY DEF PairsOf
  <2> QED BY <1>5, <2>1
<1>11. ASSUME NEW j \in (i + 1)..n, NEW v \in Good[j - 1] PROVE step[<<j, v>>] \in Good[j]
  <2>1. j \in 1..n /\ j \in i..n /\ j - 1 \in i..n
    OBVIOUS
  <2>2. v \in S /\ Forested(c, v, done \cup PairsOf(i, j - 1))
    BY <2>1
  <2> DEFINE w == Swarm!Union(c, v, <<i, j>>)
  <2>3. PairsOf(i, j - 1) \cup {<<i, j>>} = PairsOf(i, j)
    <3>1. ((i + 1)..(j - 1)) \cup {j} = (i + 1)..j
      BY <2>1
    <3> QED BY <3>1 DEF PairsOf
  <2>4. done \cup PairsOf(i, j - 1) \in SUBSET ((1..n) \X (1..n))
    BY <2>1 DEF PairsOf
  <2>5. Forested(c, w, (done \cup PairsOf(i, j - 1)) \cup {<<i, j>>})
    BY <2>1, <2>2, <2>4, UnionJoins DEF Mutual
  <2>6. Forested(c, w, done \cup PairsOf(i, j))
    <3>1. (done \cup PairsOf(i, j - 1)) \cup {<<i, j>>} = done \cup PairsOf(i, j)
      BY <2>3
    <3> QED BY <2>5, <3>1
  <2>7. w \in S
    BY <2>1, <2>2, UnionType
  <2>8. step[<<j, v>>] = w
    BY <1>2, <1>4, <2>1, <2>2
  <2> HIDE DEF w
  <2> QED BY <2>1, <2>6, <2>7, <2>8
<1>12. \A j \in i..n : g[j] \in Good[j]
  <2>1. i \in Nat
    OBVIOUS
  <2> HIDE DEF Joins, Good, n
  <2> QED BY <1>9, <1>10, <1>11, <2>1, IterationKeeps DEF n
<1>13. n \in i..n
  OBVIOUS
<1> QED BY <1>1, <1>12, <1>13

\* The outer loop sees all pairs.
LEMMA ForestJoins ==
    ASSUME NEW c, Len(c) \in Nat, Mutual(c)
    PROVE  Forested(c, Swarm!Forest(c), PairsUpTo(c, Len(c)))
<1> DEFINE n == Len(c)
           own == [x \in 1..n |-> x]
           Joins(f) == f = [i \in 0..n |-> IF i = 0 THEN own ELSE Swarm!Row(c, f[i - 1], i)]
           g == CHOOSE f : Joins(f)
<1>1. Swarm!Forest(c) = g[n]
  BY DEF Swarm!Forest
<1> HIDE DEF g
<1> DEFINE S == {v \in [1..n -> 1..n] : Forested(c, v, {})}
           Good == [i \in 0..n |-> {v \in S : Forested(c, v, PairsUpTo(c, i))}]
           Value == S \cup {g[i] : i \in 0..n}
           step == [p \in (1..n) \X Value |-> Swarm!Row(c, p[2], p[1])]
<1>2. \A i \in 1..n : \A v \in Value : step[<<i, v>>] = Swarm!Row(c, v, i)
  <2> HIDE DEF Value
  <2> QED OBVIOUS
<1>3. \A i \in 0..n : g[i] \in Value
  OBVIOUS
<1>4. S \subseteq Value
  OBVIOUS
<1>5. own \in S /\ Forested(c, own, PairsUpTo(c, 0))
  <2> DEFINE flat == [x \in 1..n |-> 0]
  <2>1. own \in [1..n -> 1..n] /\ flat \in [1..n -> Nat]
    OBVIOUS
  <2>2. {y \in 1..n : own[y] # y} = {} /\ Cardinality({y \in 1..n : own[y] # y}) = 0
    BY FS_EmptySet
  <2>3. Tree(n, own, own, flat)
    <3>1. ASSUME NEW x \in 1..n
          PROVE  /\ own[x] = x /\ flat[x] = 0
                 /\ flat[x] <= Cardinality({y \in 1..n : own[y] # y})
      BY <2>2
    <3> HIDE DEF own, flat
    <3> QED BY <2>1, <3>1 DEF Tree
  <2>4. FollowsLinks(c, own)
    BY DEF FollowsLinks
  <2>5. PairsUpTo(c, 0) = {}
    BY DEF PairsUpTo
  <2> HIDE DEF own, flat
  <2> QED BY <2>1, <2>3, <2>4, <2>5 DEF Forested
<1> HIDE DEF step, Value, own
<1>6. ASSUME NEW i \in 0..n, i # 0
      PROVE  i \in 1..n /\ i - 1 \in 0..n /\ i \in (0 + 1)..n
  BY <1>6
<1>7. ASSUME NEW i \in 1..n, NEW v \in S, NEW done \in SUBSET ((1..n) \X (1..n)), Forested(c, v, done)
      PROVE  /\ Swarm!Row(c, v, i) \in S
             /\ Forested(c, Swarm!Row(c, v, i), done \cup PairsOf(i, n))
  <2>1. Forested(c, Swarm!Row(c, v, i), done \cup PairsOf(i, n))
    BY <1>7, RowJoins
  <2>2. Swarm!Row(c, v, i) \in [1..n -> 1..n] /\ Forested(c, Swarm!Row(c, v, i), {})
    BY <2>1 DEF Forested, Tree
  <2> QED BY <2>1, <2>2
<1>8. \E f : Joins(f)
  <2>1. ASSUME NEW i \in (0 + 1)..n, NEW v \in S PROVE step[<<i, v>>] \in S
    <3>1. i \in 1..n /\ Forested(c, v, {})
      OBVIOUS
    <3>2. Swarm!Row(c, v, i) \in S
      BY <1>7, <3>1
    <3> QED BY <1>2, <1>4, <3>1, <3>2
  <2>2. PICK f \in [0..n -> S] : Iterates(f, 0, n, own, step)
    <3>1. 0 \in Nat /\ n \in Nat /\ 0 <= n
      OBVIOUS
    <3> HIDE DEF S, n
    <3> QED BY <1>5, <2>1, <3>1, IterationExists
  <2>3. ASSUME NEW i \in 0..n, i # 0 PROVE step[<<i, f[i - 1]>>] = Swarm!Row(c, f[i - 1], i)
    <3>1. i \in 1..n /\ f[i - 1] \in S
      BY <1>6, <2>2, <2>3
    <3> QED BY <1>2, <1>4, <3>1
  <2>4. f = [i \in 0..n |-> IF i = 0 THEN own ELSE step[<<i, f[i - 1]>>]]
    BY <2>2 DEF Iterates
  <2>5. Joins(f)
    BY <2>3, <2>4
  <2> QED BY <2>5
<1>9. Joins(g)
  <2> HIDE DEF Joins
  <2> QED BY <1>8 DEF g
<1>10. Iterates(g, 0, n, own, step)
  <2>1. ASSUME NEW i \in 0..n, i # 0 PROVE step[<<i, g[i - 1]>>] = Swarm!Row(c, g[i - 1], i)
    <3>1. i \in 1..n /\ g[i - 1] \in Value
      BY <1>3, <1>6, <2>1
    <3> QED BY <1>2, <3>1
  <2>2. g = [i \in 0..n |-> IF i = 0 THEN own ELSE Swarm!Row(c, g[i - 1], i)]
    BY <1>9
  <2> QED BY <2>1, <2>2 DEF Iterates
<1>11. own \in Good[0]
  BY <1>5
<1>12. ASSUME NEW i \in (0 + 1)..n, NEW v \in Good[i - 1] PROVE step[<<i, v>>] \in Good[i]
  <2>1. i \in 1..n /\ i \in 0..n /\ i - 1 \in 0..n
    OBVIOUS
  <2>2. v \in S /\ Forested(c, v, PairsUpTo(c, i - 1))
    BY <2>1
  <2>3. PairsUpTo(c, i - 1) \in SUBSET ((1..n) \X (1..n))
    BY DEF PairsUpTo
  <2>4. PairsUpTo(c, i - 1) \cup PairsOf(i, n) = PairsUpTo(c, i)
    <3>1. ASSUME NEW p \in (1..n) \X (1..n)
          PROVE  p[1] <= i /\ p[1] < p[2] <=> (p[1] <= i - 1 /\ p[1] < p[2]) \/ p \in PairsOf(i, n)
      <4>1. p = <<p[1], p[2]>> /\ p[1] \in 1..n /\ p[2] \in 1..n
        OBVIOUS
      <4>2. p \in PairsOf(i, n) <=> p[1] = i /\ i + 1 <= p[2]
        BY <2>1, <4>1 DEF PairsOf
      <4> QED BY <2>1, <4>1, <4>2
    <3>2. PairsOf(i, n) \subseteq (1..n) \X (1..n)
      BY <2>1 DEF PairsOf
    <3> QED BY <3>1, <3>2 DEF PairsUpTo
  <2>5. /\ Swarm!Row(c, v, i) \in S
        /\ Forested(c, Swarm!Row(c, v, i), PairsUpTo(c, i - 1) \cup PairsOf(i, n))
    BY <1>7, <2>1, <2>2, <2>3
  <2>6. step[<<i, v>>] = Swarm!Row(c, v, i)
    BY <1>2, <1>4, <2>1, <2>2
  <2>7. Swarm!Row(c, v, i) \in Good[i]
    <3> HIDE DEF S
    <3> QED BY <2>1, <2>4, <2>5
  <2> QED BY <2>6, <2>7
<1>13. \A i \in 0..n : g[i] \in Good[i]
  <2>1. 0 \in Nat
    OBVIOUS
  <2> HIDE DEF Joins, Good, n
  <2> QED BY <1>10, <1>11, <1>12, <2>1, IterationKeeps DEF n
<1>14. n \in 0..n
  OBVIOUS
<1> QED BY <1>1, <1>13, <1>14

\* overlap_coefficient and the tolerances compare both ways alike.
LEMMA LinksAreMutual == ASSUME NEW c \in Seq(Candidate) PROVE Mutual(c)
<1> SUFFICES ASSUME NEW i \in 1..Len(c), NEW j \in 1..Len(c), Swarm!SameOperator(c[i], c[j])
             PROVE  Swarm!SameOperator(c[j], c[i])
  BY DEF Mutual, Link
<1> DEFINE a == c[i]
           b == c[j]
<1>1. a \in Candidate /\ b \in Candidate
  OBVIOUS
<1>2. {a.day, b.day, a.stake, b.stake} \subseteq Nat
  BY <1>1 DEF Candidate
<1>3. IsFiniteSet(a.deps) /\ IsFiniteSet(b.deps)
  BY <1>1, FiniteFootprint
<1>4. Swarm!Cardinality(a.deps) \in Nat /\ Swarm!Cardinality(b.deps) \in Nat
  BY <1>3, SwarmCounts, FS_CardinalityType
<1> HIDE DEF a, b
<1>5. ASSUME NEW m \in Nat, NEW k \in Nat
      PROVE  Swarm!Larger(m, k) = Swarm!Larger(k, m) /\ Swarm!Smaller(m, k) = Swarm!Smaller(k, m)
  BY DEF Swarm!Larger, Swarm!Smaller
<1>6. /\ Swarm!Larger(a.day, b.day) = Swarm!Larger(b.day, a.day)
      /\ Swarm!Smaller(a.day, b.day) = Swarm!Smaller(b.day, a.day)
      /\ Swarm!Larger(a.stake, b.stake) = Swarm!Larger(b.stake, a.stake)
      /\ Swarm!Smaller(a.stake, b.stake) = Swarm!Smaller(b.stake, a.stake)
  BY <1>2, <1>5
<1>7. Swarm!Overlap(a, b) = Swarm!Overlap(b, a)
  <2>1. a.deps \cap b.deps = b.deps \cap a.deps
    OBVIOUS
  <2>2. Swarm!Smaller(Swarm!Cardinality(a.deps), Swarm!Cardinality(b.deps))
            = Swarm!Smaller(Swarm!Cardinality(b.deps), Swarm!Cardinality(a.deps))
    BY <1>4, <1>5
  <2> QED BY <2>1, <2>2 DEF Swarm!Overlap
<1>8. Swarm!Within(StakeTol, a.stake, b.stake) = Swarm!Within(StakeTol, b.stake, a.stake)
  BY <1>6 DEF Swarm!Within
<1>9. {Swarm!Cardinality(a.deps), Swarm!Cardinality(b.deps)}
          = {Swarm!Cardinality(b.deps), Swarm!Cardinality(a.deps)}
  OBVIOUS
<1>10. Swarm!SameOperator(a, b) => Swarm!SameOperator(b, a)
  BY <1>6, <1>7, <1>8, <1>9 DEF Swarm!SameOperator
<1> QED BY <1>10 DEF a, b

\* A link leads from I to J.
Crosses(c, I, J) == \E i \in I, j \in J : Link(c, i, j)

\* A set of places that no link leaves and no cut divides.
IsComponent(c, g) ==
    /\ ~Crosses(c, g, (1..Len(c)) \ g)
    /\ \A part \in (SUBSET g) \ {{}, g} : Crosses(c, part, g \ part)

\* The classes of the union-find are the components of the links.
LEMMA GroupsOfComponents ==
    ASSUME NEW c, Len(c) \in Nat, Mutual(c)
    PROVE  Swarm!Groups(c) = {g \in SUBSET (1..Len(c)) : Cardinality(g) >= MinMembers /\ IsComponent(c, g)}
<1> DEFINE n == Len(c)
           forest == Swarm!Forest(c)
<1>1. PICK root, depth : /\ Tree(n, forest, root, depth)
                         /\ FollowsLinks(c, root)
                         /\ \A p \in PairsUpTo(c, n) : Link(c, p[1], p[2]) => root[p[1]] = root[p[2]]
  BY ForestJoins DEF Forested
<1>2. root \in [1..n -> 1..n] /\ \A x \in 1..n : Swarm!Find(forest, x) = root[x]
  <2>1. root \in [1..n -> 1..n]
    BY <1>1 DEF Tree
  <2> HIDE DEF forest
  <2>2. \A x \in 1..n : Swarm!Find(forest, x) = root[x]
    BY <1>1, FindIsRoot
  <2> QED BY <2>1, <2>2
<1> HIDE DEF forest
<1> DEFINE Class(r) == {i \in 1..n : root[i] = r}
<1>3. Swarm!Groups(c) = {g \in {Class(r) : r \in 1..n} : Cardinality(g) >= MinMembers}
  <2>1. \A r : {i \in 1..n : [x \in 1..n |-> Swarm!Find(forest, x)][i] = r} = Class(r)
    BY <1>2
  <2>2. Swarm!Groups(c) = {g \in {{i \in 1..n : [x \in 1..n |-> Swarm!Find(forest, x)][i] = r} :
                                       r \in 1..n} :
                              Swarm!Cardinality(g) >= MinMembers}
    BY DEF Swarm!Groups, forest
  <2> HIDE DEF Class
  <2> QED BY <2>1, <2>2, SwarmCounts
<1>4. ASSUME NEW a \in 1..n, NEW b \in 1..n, Link(c, a, b) PROVE root[a] = root[b]
  <2>1. Link(c, b, a)
    BY <1>4 DEF Mutual
  <2>2. CASE a < b
    <3>1. <<a, b>> \in PairsUpTo(c, n)
      BY <2>2 DEF PairsUpTo
    <3> QED BY <1>1, <1>4, <3>1
  <2>3. CASE b < a
    <3>1. <<b, a>> \in PairsUpTo(c, n)
      BY <2>3 DEF PairsUpTo
    <3> QED BY <1>1, <2>1, <3>1
  <2> QED BY <2>2, <2>3
<1>5. ASSUME NEW r PROVE ~Crosses(c, Class(r), (1..n) \ Class(r))
  BY <1>4 DEF Crosses
<1>6. ASSUME NEW r \in 1..n PROVE IsComponent(c, Class(r))
  <2> SUFFICES ASSUME NEW part \in (SUBSET Class(r)) \ {{}, Class(r)},
                      ~Crosses(c, part, Class(r) \ part)
               PROVE  FALSE
    BY <1>5 DEF IsComponent
  <2>1. ASSUME NEW a \in part, NEW b \in 1..n, Link(c, a, b) PROVE b \in part
    <3>1. root[b] = r
      BY <1>4, <2>1
    <3> QED BY <2>1, <3>1 DEF Crosses
  <2>2. PICK a \in part : TRUE
    OBVIOUS
  <2>3. PICK b \in Class(r) : b \notin part
    OBVIOUS
  <2>4. root[a] = root[b] /\ a \in 1..n /\ b \in 1..n
    BY <2>2, <2>3
  <2>5. part \in SUBSET (1..n)
    OBVIOUS
  <2> HIDE DEF Class
  <2> QED BY <1>1, <2>1, <2>2, <2>3, <2>4, <2>5 DEF FollowsLinks
<1>7. ASSUME NEW g \in SUBSET (1..n), Cardinality(g) >= MinMembers, IsComponent(c, g)
      PROVE  \E r \in 1..n : g = Class(r)
  <2>1. g # {}
    BY <1>7, SwarmConstants, FS_EmptySet DEF Swarm!SybilBounds
  <2>2. PICK a \in g : TRUE
    BY <2>1
  <2> DEFINE r == root[a]
  <2>3. r \in 1..n /\ a \in Class(r)
    BY <1>2
  <2>4. \A x \in g, y \in 1..n : Link(c, x, y) => y \in g
    BY <1>7 DEF IsComponent, Crosses
  <2>5. Class(r) \subseteq g
    <3> SUFFICES ASSUME NEW b \in 1..n, root[a] = root[b] PROVE b \in g
      OBVIOUS
    <3> HIDE DEF r, Class
    <3> QED BY <1>1, <2>4 DEF FollowsLinks
  <2>6. ~Crosses(c, Class(r), g \ Class(r))
    BY <1>5 DEF Crosses
  <2> HIDE DEF Class, r
  <2>7. Class(r) = g
    BY <1>7, <2>3, <2>5, <2>6 DEF IsComponent
  <2> QED BY <2>3, <2>7
<1>8. \A r \in 1..n : Class(r) \in SUBSET (1..n)
  OBVIOUS
<1> HIDE DEF Class
<1> QED BY <1>3, <1>6, <1>7, <1>8

\* The candidates of a detection.
LEMMA DetectionGroups ==
    ASSUME detection.rows \in Seq(Candidate)
    PROVE  GroupsAreComponents
<1> DEFINE c == detection.rows
           n == Len(c)
<1>1. Len(c) \in Nat /\ Mutual(c)
  BY LinksAreMutual
<1>2. Swarm!Groups(c) = {g \in SUBSET (1..n) : Cardinality(g) >= MinMembers /\ IsComponent(c, g)}
  BY <1>1, GroupsOfComponents
<1> HIDE DEF c
<1>3. GroupsAreComponents <=>
          Swarm!Groups(c) =
              {g \in SUBSET (1..n) :
                  /\ Swarm!Cardinality(g) >= MinMembers
                  /\ ~\E i \in g, j \in (1..n) \ g : Swarm!SameOperator(c[i], c[j])
                  /\ \A part \in (SUBSET g) \ {{}, g} :
                        \E i \in part, j \in g \ part : Swarm!SameOperator(c[i], c[j])}
  BY DEF GroupsAreComponents, Swarm!GroupsAreComponents, c
<1>4. \A g : IsComponent(c, g) <=>
                  /\ ~\E i \in g, j \in (1..n) \ g : Swarm!SameOperator(c[i], c[j])
                  /\ \A part \in (SUBSET g) \ {{}, g} :
                        \E i \in part, j \in g \ part : Swarm!SameOperator(c[i], c[j])
  BY DEF IsComponent, Crosses, Link
<1> QED BY <1>2, <1>3, <1>4, SwarmCounts

-----------------------------------------------------------------------------
(* The loops together.                                                     *)

LoopsInv == IInv /\ MirrorInv /\ Mirror!MirrorTypeOK /\ StallInv /\ RepliesInv /\ IngestInv /\ SwarmInv

\* A step is a step of one loop; the others stay.
LEMMA OneLoopMoves ==
    [AnyNext]_allVars =>
        /\ [Next]_vars
        /\ [Mirror!Next]_(Mirror!vars)
        /\ [Lodestar!Next]_(Lodestar!vars)
        /\ [Swarm!Next]_(Swarm!vars)
        /\ [Stall!Next]_(Stall!vars)
        /\ [Replies!Next]_(Replies!vars)
BY DEF AnyNext, allVars, FeeStep, MirrorStep, LodestarStep, SwarmStep, StallStep, ReplyStep,
       mirrorVars, lodestarVars, swarmVars, stallVars, replyVars,
       Mirror!vars, Lodestar!vars, Swarm!vars, Stall!vars, Replies!vars

\* The invariants hold together, without any fairness.
LEMMA LoopsInvariant == AnySpec => []LoopsInv
<1>1. AnyInit => LoopsInv
  <2>1. Mirror!Init => Mirror!MirrorTypeOK
    BY MirrorConstants
       DEF Mirror!Init, Mirror!Idle, Mirror!MirrorTypeOK, Mirror!MirrorAssumption, Mirror!Post
  <2>2. Replies!Init => RepliesInv
    BY DEF Replies!Init, RepliesInv, Replies!RepliesTypeOK, Replies!FundingNeverBlames,
           Replies!FeedAndGradeAgree
  <2> QED BY <2>1, <2>2, InitIInv, MirrorInit, StallInit, IngestInit, SwarmInit DEF AnyInit, LoopsInv
<1>2. LoopsInv /\ [AnyNext]_allVars => LoopsInv'
  BY OneLoopMoves, NextIInv, MirrorNext, MirrorTypeStep, StallNext, RepliesNext, IngestNext,
     SwarmNext DEF LoopsInv
<1> QED BY <1>1, <1>2, PTL DEF AnySpec

-----------------------------------------------------------------------------
(* The properties of the runs.                                             *)

\* The loops of the process keep their types and what their tables owe to each
\* other: the rows of a run of the ingest are written, every quality stands in a row
\* of the roster, a cluster has one row.
THEOREM LoopsTypeCorrect == AnySpec => []LoopsTypeOK
<1>1. LoopsInv => LoopsTypeOK
  BY DEF LoopsInv, LoopsTypeOK, IInv, StallInv, RepliesInv, IngestInv, SwarmInv
<1> QED BY <1>1, LoopsInvariant, PTL

\* poll_once: every payload stored as a message has been asked for exactly once,
\* whatever failed, unless a restart came between its row and its fetch.
THEOREM AttemptsAreSingle == AnySpec => []OneAttempt
<1>1. LoopsInv => OneAttempt
  BY DEF LoopsInv, MirrorInv, OneAttempt
<1> QED BY <1>1, LoopsInvariant, PTL

\* ingest_allocation_qos: whatever failed and however the sources changed under the
\* paging, a row goes only when its pair had no traffic at some moment of the run,
\* the pages were cut short or the clocks disagreed.
THEOREM RowsGoWithTraffic == AnySpec => DroppedOnlyWhenGone
<1>1. LoopsInv /\ [AnyNext]_allVars
      => [\A p \in quality \ quality' : p \in Pair \ read.always \/ ~read'.whole]_(Lodestar!vars)
  BY OneLoopMoves, GoneWithoutTraffic DEF LoopsInv
<1> QED BY <1>1, LoopsInvariant, PTL DEF AnySpec, DroppedOnlyWhenGone, Lodestar!DroppedOnlyWhenGone

\* detect_and_store: between two detections the table is what the last one found,
\* unless it was cut off, and no indexer is in two of its rows.
THEOREM RowsOfOneDetection == AnySpec => []StoredIsOneDetection
<1>1. LoopsInv => StoredIsOneDetection
  <2> SUFFICES ASSUME SwarmInv, detection.pc = "idle", ~latest.mixed
               PROVE  /\ \A x, y \in clusters : x = y \/ x.members \cap y.members = {}
                      /\ clusters = latest.found
    BY DEF LoopsInv, StoredIsOneDetection, Swarm!StoredIsOneDetection
  <2> QED BY DEF SwarmInv, DetectionType, StoredInStep, Apart
<1> QED BY <1>1, LoopsInvariant, PTL

\* cluster: "union-find over the same operator adjacency relation".  Whatever the
\* number and the order of the candidates, the groups are the connected components
\* of the links that are large enough.
THEOREM GroupsAreTheComponents == AnySpec => []GroupsAreComponents
<1>1. LoopsInv => GroupsAreComponents
  BY DetectionGroups DEF LoopsInv, SwarmInv, DetectionType
<1> QED BY <1>1, LoopsInvariant, PTL

\* build_cluster: of two groups of the same candidates, the one that contains the
\* other is never surer unless its footprints overlap more.
THEOREM DilutionNeverHelps == AnySpec => []SizeNeverInflates
<1>1. LoopsInv => SizeNeverInflates
  BY SizeNeverInflatesGroups DEF LoopsInv
<1> QED BY <1>1, LoopsInvariant, PTL

\* alert_oracle_stall and alert_score_stall: however long an outage lasts, the
\* channel hears of it again only as often as something failed or was restarted.
THEOREM NothingIsRepeated == AnySpec => []RepeatsNeedFailures
<1>1. LoopsInv => RepeatsNeedFailures
  BY DEF LoopsInv, StallInv, WatchOK, RepeatsNeedFailures, Stall!RepeatsNeedFailures, StallFaults
<1> QED BY <1>1, LoopsInvariant, PTL

\* Neither watch ever starts with "running again", whichever read failed.
THEOREM RecoveriesFollowStalls == AnySpec => RecoveryFollowsStall
<1>1. LoopsInv /\ [AnyNext]_allVars
      => [\A w \in Stall!Watch : said[w] = "none" => said'[w] \in {"none", "stalled"}]_(Stall!vars)
  BY OneLoopMoves, FirstWord DEF LoopsInv
<1> QED BY <1>1, LoopsInvariant, PTL DEF AnySpec, RecoveryFollowsStall, Stall!RecoveryFollowsStall

\* execute_paid_probe: however many probes are asked, a refusal that speaks of our
\* own payment enters neither the feed's count of the indexer nor the grade's.
THEOREM RefusalsNeverBlame == AnySpec => []FundingNeverBlames
<1>1. LoopsInv => FundingNeverBlames
  BY DEF LoopsInv, RepliesInv, FundingNeverBlames
<1> QED BY <1>1, LoopsInvariant, PTL

\* roll_range and load_probe_agg: the feed and the grade count the same probes, and
\* their failures differ by no more than the replies of the two kinds read apart.
THEOREM ReadersAgree == AnySpec => []FeedAndGradeAgree
<1>1. LoopsInv => FeedAndGradeAgree
  BY DEF LoopsInv, RepliesInv, FeedAndGradeAgree
<1> QED BY <1>1, LoopsInvariant, PTL

-----------------------------------------------------------------------------
(* What a round makes good.  The liveness properties of the runs say that  *)
(* the loops catch up with their sources; that they do it under fairness   *)
(* is left to TLC.  What is shown here is the part of it that is safety:   *)
(* from the moment a round begins with what it will need, and for as long  *)
(* as no fault touches the thing in question, the end of every round finds *)
(* it done, however the rest of the sources changes meanwhile.             *)

\* A pass that began with the settlements of block s and before served.
PassCovers(s) ==
    /\ s <= sealed
    /\ pass.pc = "store" /\ ~Full(pass.rows) =>
          \A e \in Event : e.block <= s => e \in fees \cup pass.rows \/ e.block \in cut
    /\ pass.pc = "sleep" => Covered(s)

\* Nothing goes wrong; the chain may grow.
LEMMA PassStep ==
    ASSUME IInv, NEW s \in Block, PassCovers(s), [Next]_vars, [Seal \/ Loop]_vars, IInv'
    PROVE  PassCovers(s)'
<1>0. FeeTypeOK /\ s \in Nat /\ sealed \in Nat /\ Page \in Nat \ {0} /\ MaxBlock \in Nat
  BY EventAssumption, FeeBounds DEF IInv, FeeTypeOK, Block
<1>1. CASE UNCHANGED vars
  BY <1>1 DEF PassCovers, vars, Full, Covered
<1>2. CASE Seal
  <2>1. sealed' >= s /\ UNCHANGED <<fees, pass, cut>>
    BY <1>0, <1>2 DEF Seal, PassCovers
  <2> QED BY <1>0, <2>1 DEF PassCovers, Full, Covered
<1>3. CASE Resume
  BY <1>0, <1>3 DEF Resume, PassCovers, FeeTypeOK
<1>4. CASE Fetch
  <2>1. /\ pass.pc = "fetch" /\ UNCHANGED <<sealed, fees, cut>> /\ Covered(pass.since)
    BY <1>4 DEF Fetch, IInv, SinceIsCovered
  <2>2. PICK rows \in SUBSET Newer(pass.since) :
          /\ IsPage(rows, Newer(pass.since))
          /\ pass' = IF rows = {} THEN Sleeping ELSE [pass EXCEPT !.pc = "store", !.rows = rows]
    BY <1>4 DEF Fetch
  <2>3. ~Full(rows) => rows = Newer(pass.since)
    BY <2>2 DEF IsPage, Full
  <2>4. ~Full({})
    BY <1>0, FS_EmptySet DEF Full
  <2>5. \A e \in Event : e.block <= s => e \in Newer(pass.since) \/ e \in fees \/ e.block \in cut
    BY <1>0, <2>1, EventAssumption DEF Newer, PassCovers, Covered, FeeTypeOK, Block
  <2>6. CASE rows = {}
    <3>1. pass' = Sleeping /\ Newer(pass.since) = {}
      BY <2>2, <2>3, <2>4, <2>6
    <3> QED BY <2>1, <2>5, <3>1 DEF PassCovers, Covered, Sleeping
  <2>7. CASE rows # {}
    <3>1. pass'.pc = "store" /\ pass'.rows = rows
      BY <1>0, <2>2, <2>7 DEF FeeTypeOK
    <3> QED BY <2>1, <2>3, <2>5, <3>1 DEF PassCovers
  <2> QED BY <2>6, <2>7
<1>5. CASE Store
  <2>1. /\ pass.pc = "store" /\ fees' = fees \cup pass.rows /\ UNCHANGED sealed
        /\ pass' = IF Full(pass.rows) THEN Resuming ELSE Sleeping
        /\ cut \subseteq cut'
    BY <1>5 DEF Store
  <2>2. pass'.pc \in {"resume", "sleep"}
    BY <2>1 DEF Resuming, Sleeping
  <2>3. pass'.pc = "sleep" => ~Full(pass.rows)
    BY <2>1 DEF Resuming
  <2> QED BY <2>1, <2>2, <2>3 DEF PassCovers, Covered
<1>6. CASE Wake
  BY <1>6 DEF Wake, PassCovers, Resuming
<1> QED BY <1>1, <1>2, <1>3, <1>4, <1>5, <1>6 DEF Loop

\* ingest_once: a pass goes back to sleep of its own accord only when every settlement
\* that was served as it began is stored, but for the blocks a full page ended in.
THEOREM PassesCatchUp ==
    ASSUME NEW s \in Block
    PROVE  AnySpec => [](pass.pc = "resume" /\ sealed = s /\ [][Seal \/ Loop]_vars
                         => [](pass.pc = "sleep" => Covered(s)))
<1>1. pass.pc = "resume" /\ sealed = s => PassCovers(s)
  BY EventAssumption, FeeBounds DEF PassCovers, Block
<1>2. LoopsInv /\ LoopsInv' /\ [AnyNext]_allVars /\ PassCovers(s) /\ [Seal \/ Loop]_vars => PassCovers(s)'
  BY PassStep, OneLoopMoves DEF LoopsInv
<1>3. PassCovers(s) => (pass.pc = "sleep" => Covered(s))
  BY DEF PassCovers
<1> QED BY <1>1, <1>2, <1>3, LoopsInvariant, PTL DEF AnySpec

\* The walk stops where the page it was given began.
StopOnPage == poll.stop = 0 \/ poll.stop + PageLen <= posted

\* Whether a walk that went by post n has left it stored.
WalkCovers(n) ==
    /\ n <= posted
    /\ poll.pc # "idle" /\ n > poll.at => n \in messages
    /\ poll.pc = "idle" => n \in messages \cup Mirror!Gone

LEMMA StopStaysOnPage ==
    ASSUME MirrorInv, MirrorInv', StopOnPage, [Mirror!Next]_(Mirror!vars)
    PROVE  StopOnPage'
<1>0. PollType /\ PollType' /\ PageLen \in Nat \ {0}
  BY MirrorConstants DEF MirrorInv, Mirror!MirrorAssumption
<1>1. posted' >= posted /\ posted \in Nat /\ posted' \in Nat /\ poll.stop \in Nat
  BY <1>0
     DEF PollType, Mirror!Next, Mirror!Loop, Mirror!Publish, Mirror!FetchPage, Mirror!PassOver,
         Mirror!Insert, Mirror!Capture, Mirror!EndPoll, Mirror!InsertFails, Mirror!Crash, Mirror!vars
<1>2. CASE Mirror!FetchPage
  BY <1>0, <1>1, <1>2 DEF Mirror!FetchPage, StopOnPage
<1>3. CASE ~Mirror!FetchPage
  <2>1. poll'.stop \in {0, poll.stop}
    <3>1. CASE UNCHANGED poll \/ poll' = Mirror!Idle
      BY <3>1 DEF Mirror!Idle
    <3>2. CASE Mirror!PassOver \/ Mirror!Insert \/ Mirror!Capture
      BY <1>0, <3>2 DEF PollType, Mirror!PassOver, Mirror!Insert, Mirror!ToCapture, Mirror!Capture,
                         Mirror!Step
    <3> QED BY <1>3, <3>1, <3>2
            DEF Mirror!Next, Mirror!Loop, Mirror!Publish, Mirror!EndPoll, Mirror!InsertFails,
                Mirror!Crash, Mirror!vars
  <2> QED BY <1>0, <1>1, <2>1 DEF StopOnPage
<1> QED BY <1>2, <1>3

\* Inserts do not fail; the publisher may go on.
LEMMA WalkStep ==
    ASSUME MirrorInv, StopOnPage, NEW n \in PayloadPost, WalkCovers(n), MirrorInv',
           [Mirror!Next]_(Mirror!vars), [Mirror!Publish \/ Mirror!Loop]_(Mirror!vars)
    PROVE  WalkCovers(n)'
<1>0. /\ PollType /\ PollType' /\ CaptureOK /\ PageLen \in Nat \ {0}
      /\ n \in Nat \ {0} /\ PayloadPost \subseteq Mirror!Post
  BY MirrorConstants DEF MirrorInv, Mirror!MirrorAssumption, Mirror!Post
<1>1. CASE Mirror!Publish
  <2>1. posted' = posted + 1 /\ UNCHANGED <<messages, poll>> /\ posted \in Nat
    BY <1>0, <1>1 DEF Mirror!Publish, PollType
  <2>2. Mirror!Gone \subseteq Mirror!Gone'
    BY <1>0, <2>1 DEF Mirror!Gone
  <2> QED BY <1>0, <2>1, <2>2 DEF WalkCovers
<1>2. CASE Mirror!FetchPage
  BY <1>0, <1>2 DEF Mirror!FetchPage, WalkCovers, PollType
<1>3. CASE Mirror!PassOver
  <2>1. /\ poll.pc = "walk" /\ poll'.pc = "walk" /\ poll'.at = poll.at - 1
        /\ poll.at \in Nat /\ n # poll.at /\ UNCHANGED <<messages, posted>>
    BY <1>0, <1>3 DEF Mirror!PassOver, Mirror!Step, PollType
  <2> QED BY <1>0, <2>1 DEF WalkCovers
<1>4. CASE Mirror!Insert
  <2>1. /\ poll.pc = "walk" /\ poll'.pc # "idle" /\ poll'.at \in {poll.at, poll.at - 1}
        /\ poll.at \in Nat /\ messages' = messages \cup {poll.at} /\ UNCHANGED posted
    BY <1>0, <1>4 DEF Mirror!Insert, Mirror!ToCapture, Mirror!Step, PollType
  <2> QED BY <1>0, <2>1 DEF WalkCovers
<1>5. CASE Mirror!Capture
  <2>1. /\ poll.pc = "capture" /\ poll'.pc = "walk" /\ poll'.at = poll.at - 1
        /\ poll.at \in Nat /\ poll.at \in messages /\ UNCHANGED <<messages, posted>>
    BY <1>0, <1>5 DEF Mirror!Capture, Mirror!Step, PollType, CaptureOK
  <2> QED BY <1>0, <2>1 DEF WalkCovers
<1>6. CASE Mirror!EndPoll
  <2>1. /\ poll.pc = "walk" /\ poll.at = poll.stop /\ poll'.pc = "idle"
        /\ {poll.stop, posted} \subseteq Nat /\ UNCHANGED <<messages, posted>>
    BY <1>0, <1>6 DEF Mirror!EndPoll, Mirror!Idle, PollType
  <2>2. n <= poll.stop => n \in Mirror!Gone
    BY <1>0, <2>1 DEF StopOnPage, Mirror!Gone
  <2>3. Mirror!Gone' = Mirror!Gone
    BY <2>1 DEF Mirror!Gone
  <2> QED BY <1>0, <2>1, <2>2, <2>3 DEF WalkCovers
<1>7. CASE UNCHANGED Mirror!vars
  BY <1>7 DEF Mirror!vars, WalkCovers, Mirror!Gone
<1> QED BY <1>1, <1>2, <1>3, <1>4, <1>5, <1>6, <1>7 DEF Mirror!Loop

\* poll_once: when a walk has begun at the last post, every post with a payload up to
\* there is stored by the end of this and of every later poll, or has left the page,
\* whatever is posted meanwhile and however few payloads the gateways have.
THEOREM PollsCatchUp ==
    ASSUME NEW n \in PayloadPost
    PROVE  AnySpec => [](poll.pc = "walk" /\ poll.at = posted /\ n <= posted
                         /\ [][Mirror!Publish \/ Mirror!Loop]_(Mirror!vars)
                         => [](poll.pc = "idle" => n \in messages \cup Mirror!Gone))
<1>1. AnyInit => StopOnPage
  BY DEF AnyInit, Mirror!Init, Mirror!Idle, StopOnPage
<1>2. LoopsInv /\ LoopsInv' /\ StopOnPage /\ [AnyNext]_allVars => StopOnPage'
  BY StopStaysOnPage, OneLoopMoves DEF LoopsInv
<1>3. LoopsInv /\ poll.pc = "walk" /\ poll.at = posted /\ n <= posted => WalkCovers(n)
  <2>1. n \in Nat
    BY MirrorConstants DEF Mirror!MirrorAssumption
  <2> QED BY <2>1 DEF WalkCovers, LoopsInv, MirrorInv, PollType
<1>4. LoopsInv /\ StopOnPage /\ LoopsInv' /\ [AnyNext]_allVars /\ WalkCovers(n)
        /\ [Mirror!Publish \/ Mirror!Loop]_(Mirror!vars) => WalkCovers(n)'
  BY WalkStep, OneLoopMoves DEF LoopsInv
<1>5. WalkCovers(n) => (poll.pc = "idle" => n \in messages \cup Mirror!Gone)
  BY DEF WalkCovers
<1> QED BY <1>1, <1>2, <1>3, <1>4, <1>5, LoopsInvariant, PTL DEF AnySpec

FlagRight(w) == flag[w] = "stalled" <=> source[w] = "stalled"

\* What a check of watch w knows of a source that rests.
CheckCovers(w) ==
    /\ check[w].pc # "idle" => check[w].seen = source[w]
    /\ check[w].pc = "idle" => FlagRight(w)

\* Watch w goes on, undisturbed; the other watch may do as it likes.
Undisturbed(w) ==
    \/ Stall!CheckStep(w)
    \/ \E v \in Stall!Watch \ {w} :
          \/ Stall!Flip(v) \/ Stall!CheckStep(v)
          \/ Stall!ReadFlagFails(v) \/ Stall!PostFails(v) \/ Stall!SaveFails(v)

LEMMA CheckCoversStep ==
    ASSUME StallInv, StallInv', NEW w \in Stall!Watch, CheckCovers(w),
           [Undisturbed(w)]_(Stall!vars)
    PROVE  CheckCovers(w)'
<1>0. /\ Stall!WatchTypeOK /\ check[w] \in Stall!Check
      /\ flag[w] \in Stall!Known /\ source[w] \in Stall!Known
  BY DEF StallInv, Stall!WatchTypeOK
<1>1. CASE Stall!ReadSource(w)
  BY <1>0, <1>1 DEF Stall!ReadSource, Stall!WatchTypeOK, CheckCovers
<1>2. CASE Stall!ReadFlag(w)
  <2>1. /\ check[w].pc = "flag" /\ check[w].seen = source[w] /\ UNCHANGED <<flag, source>>
        /\ Stall!Compare(w, flag[w])
    BY <1>2 DEF Stall!ReadFlag, CheckCovers
  <2>2. check'[w].pc = "idle" => FlagRight(w)
    <3>1. CASE Stall!Goto(w, "post") \/ Stall!Goto(w, "silent")
      BY <1>0, <3>1 DEF Stall!Goto, Stall!WatchTypeOK, Stall!Check, Stall!Idle
    <3>2. CASE ~(Stall!Goto(w, "post") \/ Stall!Goto(w, "silent"))
      BY <2>1, <3>2 DEF Stall!Compare, FlagRight
    <3> QED BY <3>1, <3>2
  <2>3. check'[w].pc # "idle" => check'[w].seen = check[w].seen
    BY <1>0, <2>1, CompareLeads DEF Stall!Idle
  <2> QED BY <2>1, <2>2, <2>3 DEF CheckCovers, FlagRight
<1>3. CASE Stall!Post(w)
  BY <1>0, <1>3 DEF Stall!Post, Stall!Goto, Stall!WatchTypeOK, CheckCovers
<1>4. CASE Stall!Save(w)
  BY <1>0, <1>4 DEF Stall!Save, Stall!Done, Stall!Idle, Stall!WatchTypeOK, CheckCovers, FlagRight
<1>5. CASE UNCHANGED Stall!vars
  BY <1>5 DEF Stall!vars, CheckCovers, FlagRight
<1>6. ASSUME NEW v \in Stall!Watch \ {w},
             \/ Stall!Flip(v) \/ Stall!CheckStep(v)
             \/ Stall!ReadFlagFails(v) \/ Stall!PostFails(v) \/ Stall!SaveFails(v)
      PROVE  CheckCovers(w)'
  <2>1. check'[w] = check[w] /\ flag'[w] = flag[w] /\ source'[w] = source[w]
    BY <1>0, <1>6
       DEF Stall!Flip, Stall!CheckStep, Stall!ReadSource, Stall!ReadFlag, Stall!Post, Stall!Save,
           Stall!ReadFlagFails, Stall!PostFails, Stall!SaveFails, Stall!Compare, Stall!Goto,
           Stall!Done, Stall!WatchTypeOK
  <2> QED BY <2>1 DEF CheckCovers, FlagRight
<1> QED BY <1>1, <1>2, <1>3, <1>4, <1>5, <1>6 DEF Undisturbed, Stall!CheckStep

\* alert_oracle_stall and alert_score_stall: once a check has seen the condition its
\* source rests in, it leaves the flag saying so, and so does every later one.
THEOREM ChecksSettleTheFlag ==
    ASSUME NEW w \in Stall!Watch
    PROVE  AnySpec => [](check[w].pc = "flag" /\ check[w].seen = source[w]
                         /\ [][Undisturbed(w)]_(Stall!vars)
                         => [](check[w].pc = "idle" => FlagRight(w)))
<1>1. check[w].pc = "flag" /\ check[w].seen = source[w] => CheckCovers(w)
  BY DEF CheckCovers
<1>2. LoopsInv /\ LoopsInv' /\ CheckCovers(w) /\ [Undisturbed(w)]_(Stall!vars) => CheckCovers(w)'
  BY CheckCoversStep DEF LoopsInv
<1>3. CheckCovers(w) => (check[w].pc = "idle" => FlagRight(w))
  BY DEF CheckCovers
<1> QED BY <1>1, <1>2, <1>3, LoopsInvariant, PTL

\* What the tables and the run in hand show of a pair whose traffic rests.  A run
\* that was not whole promises nothing until the next one begins.
PairInStep(p) ==
    /\ cycle.pc \in {"page", "upsert"} /\ p \in cycle.rows => p \in traffic
    /\ cycle.pc = "page" /\ p \in traffic /\ p <= cycle.last => p \in cycle.rows
    /\ cycle.pc = "upsert" /\ read.whole /\ p \in traffic => p \in cycle.rows
    /\ cycle.pc \notin {"page", "upsert"} /\ read.whole => (p \in quality <=> p \in traffic)

\* No run is broken off or deletes too little, and the traffic of p stays as it is.
PairRests(p) ==
    \/ Lodestar!Loop
    \/ \E i \in Indexer : Lodestar!RosterChanges(i)
    \/ \E q \in Pair \ {p} : Lodestar!TrafficChanges(q)
    \/ Lodestar!RosterFails \/ (\E x \in cycle.todo : Lodestar!QualityFails(x))
    \/ Lodestar!PageShort \/ Lodestar!DeleteAhead

LEMMA PairStep ==
    ASSUME IngestInv, IngestInv', NEW p \in Pair, PairInStep(p), [PairRests(p)]_(Lodestar!vars)
    PROVE  PairInStep(p)'
<1>0. /\ Lodestar!IngestTypeOK /\ CycleType /\ RunCovers
      /\ p \in Nat /\ p # 0 /\ ~(p <= 0) /\ cycle.last \in Nat
  BY LodestarConstants DEF IngestInv, CycleType, Lodestar!LodestarAssumption
<1>1. CASE Lodestar!FetchRoster
  BY <1>1 DEF Lodestar!FetchRoster, Lodestar!CycleOnly, Lodestar!Idle, PairInStep
<1>2. ASSUME NEW x \in cycle.todo,
             Lodestar!UpsertRoster(x) \/ Lodestar!UpdateQuality(x) \/ Lodestar!QualityFails(x)
      PROVE  PairInStep(p)'
  <2>1. /\ cycle.pc \in {"roster", "quality"} /\ cycle'.pc = cycle.pc
        /\ UNCHANGED <<traffic, quality, read>>
    BY <1>0, <1>2
       DEF Lodestar!UpsertRoster, Lodestar!UpdateQuality, Lodestar!QualityFails,
           Lodestar!CycleOnly, CycleType
  <2> QED BY <2>1 DEF PairInStep
<1>3. CASE Lodestar!ToQuality
  BY <1>0, <1>3 DEF Lodestar!ToQuality, Lodestar!CycleOnly, CycleType, PairInStep
<1>4. CASE Lodestar!EndRoster \/ Lodestar!RosterFails
  <2>1. cycle'.pc = "page" /\ cycle'.rows = {} /\ cycle'.last = 0
    BY <1>4 DEF Lodestar!EndRoster, Lodestar!RosterFails, Lodestar!ToAllocations, Lodestar!Idle
  <2> QED BY <1>0, <2>1 DEF PairInStep
<1>5. CASE Lodestar!ReadPage
  <2>1. cycle.pc = "page" /\ UNCHANGED <<traffic, quality>>
    BY <1>5, PageRead DEF Lodestar!ReadPage
  <2>2. PICK page \in SUBSET traffic, top \in Nat :
            /\ \A q \in traffic : cycle.last < q /\ q <= top => q \in page
            /\ \/ /\ cycle' = [cycle EXCEPT !.pc = "upsert", !.rows = @ \cup page,
                                            !.todo = cycle.rows \cup page]
                  /\ read'.whole => \A q \in traffic : cycle.last < q => q \in page
               \/ cycle' = [cycle EXCEPT !.rows = @ \cup page, !.last = top, !.pages = @ + 1]
    BY <1>5, PageRead
  <2>3. cycle'.rows = cycle.rows \cup page
    BY <1>0, <2>2 DEF CycleType
  <2>4. \/ cycle'.pc = "upsert" /\ (read'.whole => \A q \in traffic : cycle.last < q => q \in page)
        \/ cycle'.pc = "page" /\ cycle'.last = top
    BY <1>0, <2>1, <2>2 DEF CycleType
  <2>5. p <= cycle.last \/ cycle.last < p
    BY <1>0
  <2> QED BY <2>1, <2>2, <2>3, <2>4, <2>5 DEF PairInStep
<1>6. CASE Lodestar!PageShort
  <2>1. /\ cycle.pc = "page" /\ cycle'.pc = "upsert" /\ cycle'.rows = cycle.rows /\ ~read'.whole
        /\ UNCHANGED traffic
    BY <1>0, <1>6
       DEF Lodestar!PageShort, Lodestar!Upserting, Lodestar!CycleOnly, Lodestar!IngestTypeOK,
           CycleType
  <2> QED BY <2>1 DEF PairInStep
<1>7. ASSUME NEW q \in cycle.todo, Lodestar!Upsert(q) PROVE PairInStep(p)'
  <2>1. /\ cycle.pc = "upsert" /\ cycle'.pc = "upsert" /\ cycle'.rows = cycle.rows
        /\ UNCHANGED <<traffic, read>>
    BY <1>0, <1>7 DEF Lodestar!Upsert, Lodestar!CycleOnly, CycleType
  <2> QED BY <2>1 DEF PairInStep
<1>8. CASE Lodestar!Delete
  <2>1. /\ cycle.pc = "upsert" /\ cycle.rows \subseteq cycle.touched
        /\ cycle.touched \subseteq quality \cap cycle.rows
    BY <1>0, <1>8 DEF Lodestar!Delete, RunCovers, Lodestar!IngestTypeOK
  <2>2. /\ quality' = cycle.rows /\ cycle'.pc = "idle" /\ UNCHANGED <<traffic, read>>
    BY <1>8, <2>1 DEF Lodestar!Delete, Lodestar!CycleOnly, Lodestar!Idle
  <2> QED BY <2>1, <2>2 DEF PairInStep
<1>9. CASE Lodestar!DeleteAhead
  <2>1. cycle'.pc = "idle" /\ ~read'.whole
    BY <1>0, <1>9 DEF Lodestar!DeleteAhead, Lodestar!Idle, Lodestar!IngestTypeOK
  <2> QED BY <2>1 DEF PairInStep
<1>10. ASSUME NEW i \in Indexer, Lodestar!RosterChanges(i) PROVE PairInStep(p)'
  BY <1>10 DEF Lodestar!RosterChanges, PairInStep
<1>11. ASSUME NEW q \in Pair \ {p}, Lodestar!TrafficChanges(q) PROVE PairInStep(p)'
  <2>1. /\ p \in traffic' <=> p \in traffic
        /\ read'.whole = read.whole /\ UNCHANGED <<cycle, quality>>
    BY <1>0, <1>11 DEF Lodestar!TrafficChanges, Lodestar!IngestTypeOK
  <2> QED BY <2>1 DEF PairInStep
<1>12. CASE UNCHANGED Lodestar!vars
  BY <1>12 DEF Lodestar!vars, PairInStep
<1> QED BY <1>1, <1>2, <1>3, <1>4, <1>5, <1>6, <1>7, <1>8, <1>9, <1>10, <1>11, <1>12
        DEF PairRests, Lodestar!Loop

\* ingest_allocation_qos: after a run from the first page to the
\* deletion, a pair has its row when it has traffic and only then, and so it stays,
\* unless a run was cut short or the clocks disagreed; no closed allocation lingers.
THEOREM RunsFollowTraffic ==
    ASSUME NEW p \in Pair
    PROVE  AnySpec => [](cycle.pc = "page" /\ cycle.rows = {} /\ cycle.last = 0
                         /\ [][PairRests(p)]_(Lodestar!vars)
                         => [](cycle.pc \notin {"page", "upsert"} /\ read.whole
                               => (p \in quality <=> p \in traffic)))
<1>1. cycle.pc = "page" /\ cycle.rows = {} /\ cycle.last = 0 => PairInStep(p)
  BY LodestarConstants DEF PairInStep, Lodestar!LodestarAssumption
<1>2. LoopsInv /\ LoopsInv' /\ PairInStep(p) /\ [PairRests(p)]_(Lodestar!vars) => PairInStep(p)'
  BY PairStep DEF LoopsInv
<1>3. PairInStep(p) => (cycle.pc \notin {"page", "upsert"} /\ read.whole
                        => (p \in quality <=> p \in traffic))
  BY DEF PairInStep
<1> QED BY <1>1, <1>2, <1>3, LoopsInvariant, PTL

\* The rows a cycle sets out to write, as it reads the roster.
Listing == {<<i, listed[i]>> : i \in {j \in Indexer : listed[j] # 0}}

\* What the tables and the cycle in hand show of an indexer whose data rest.
RowInStep(i) ==
    /\ cycle.pc \in {"roster", "quality"} =>
          /\ <<i, listed[i]>> \in cycle.roster
          /\ \A x \in cycle.roster : x[1] = i => x[2] = listed[i]
    /\ cycle.pc = "roster" => <<i, listed[i]>> \in cycle.todo \/ profile[i].roster = listed[i]
    /\ cycle.pc = "quality" =>
          /\ profile[i].roster = listed[i]
          /\ <<i, listed[i]>> \in cycle.todo \/ profile[i].quality = listed[i]
    /\ cycle.pc \in {"page", "upsert", "idle"} =>
          profile[i] = [roster |-> listed[i], quality |-> listed[i]]

\* No request or statement for i fails and its data stay as they are.
RowRests(i) ==
    \/ Lodestar!Loop
    \/ \E j \in Indexer \ {i} : Lodestar!RosterChanges(j)
    \/ \E p \in Pair : Lodestar!TrafficChanges(p)
    \/ \E x \in cycle.todo : x[1] # i /\ Lodestar!QualityFails(x)
    \/ Lodestar!PageShort \/ Lodestar!RunFails \/ Lodestar!DeleteAhead \/ Lodestar!DeleteBehind

LEMMA RowStep ==
    ASSUME IngestInv, IngestInv', NEW i \in Indexer, RowInStep(i), listed[i] # 0,
           [RowRests(i)]_(Lodestar!vars)
    PROVE  RowInStep(i)' /\ listed'[i] # 0
<1>0. /\ Lodestar!IngestTypeOK /\ CycleType
      /\ profile[i] \in [roster : Nat, quality : Nat] /\ listed[i] \in Nat
  BY DEF IngestInv, Lodestar!IngestTypeOK
<1>1. CASE Lodestar!FetchRoster
  <2>1. /\ cycle.pc = "idle" /\ cycle' = [Lodestar!Idle EXCEPT !.pc = "roster", !.todo = Listing,
                                                               !.roster = Listing]
        /\ UNCHANGED <<listed, profile>>
    BY <1>1 DEF Lodestar!FetchRoster, Lodestar!CycleOnly, Listing
  <2>2. cycle'.pc = "roster" /\ cycle'.todo = Listing /\ cycle'.roster = Listing
    BY <2>1 DEF Lodestar!Idle
  <2>3. <<i, listed[i]>> \in Listing /\ \A x \in Listing : x[1] = i => x[2] = listed[i]
    BY DEF Listing
  <2> QED BY <2>1, <2>2, <2>3 DEF RowInStep
<1>2. ASSUME NEW x \in cycle.todo, Lodestar!UpsertRoster(x) PROVE RowInStep(i)' /\ listed'[i] # 0
  <2>1. /\ cycle.pc = "roster" /\ cycle'.pc = "roster" /\ cycle'.roster = cycle.roster
        /\ cycle'.todo = cycle.todo \ {x} /\ UNCHANGED listed
        /\ profile' = [profile EXCEPT ![x[1]].roster = x[2]]
    BY <1>0, <1>2 DEF Lodestar!UpsertRoster, Lodestar!CycleOnly, CycleType
  <2>2. x \in cycle.roster /\ x \in RosterRow
    BY <1>0, <2>1 DEF CycleType
  <2>3. x = <<x[1], x[2]>> /\ x[1] \in Indexer
    BY <2>2 DEF RosterRow
  <2>4. CASE x[1] = i
    BY <1>0, <2>1, <2>2, <2>3, <2>4 DEF RowInStep, Lodestar!IngestTypeOK
  <2>5. CASE x[1] # i
    BY <1>0, <2>1, <2>3, <2>5 DEF RowInStep, Lodestar!IngestTypeOK
  <2> QED BY <2>4, <2>5
<1>3. CASE Lodestar!ToQuality
  <2>1. /\ cycle.pc = "roster" /\ cycle.todo = {} /\ cycle'.pc = "quality"
        /\ cycle'.roster = cycle.roster /\ cycle'.todo = cycle.roster /\ UNCHANGED <<listed, profile>>
    BY <1>0, <1>3 DEF Lodestar!ToQuality, Lodestar!CycleOnly, CycleType
  <2> QED BY <2>1 DEF RowInStep
<1>4. ASSUME NEW x \in cycle.todo, Lodestar!UpdateQuality(x) PROVE RowInStep(i)' /\ listed'[i] # 0
  <2>1. /\ cycle.pc = "quality" /\ cycle'.pc = "quality" /\ cycle'.roster = cycle.roster
        /\ cycle'.todo = cycle.todo \ {x} /\ UNCHANGED listed
        /\ profile' = IF profile[x[1]] = Lodestar!NoRow THEN profile
                      ELSE [profile EXCEPT ![x[1]].quality =
                                IF listed[x[1]] = 0 THEN @ ELSE listed[x[1]]]
    BY <1>0, <1>4 DEF Lodestar!UpdateQuality, Lodestar!CycleOnly, CycleType
  <2>2. x \in cycle.roster /\ x \in RosterRow
    BY <1>0, <2>1 DEF CycleType
  <2>3. x = <<x[1], x[2]>> /\ x[1] \in Indexer
    BY <2>2 DEF RosterRow
  <2>4. CASE x[1] = i
    <3>1. profile[i].roster = listed[i] /\ profile[i] # Lodestar!NoRow
      BY <2>1 DEF RowInStep, Lodestar!NoRow
    <3>2. profile'[i].roster = listed[i] /\ profile'[i].quality = listed[i]
      BY <1>0, <2>1, <2>4, <3>1 DEF Lodestar!IngestTypeOK
    <3> QED BY <2>1, <3>2 DEF RowInStep
  <2>5. CASE x[1] # i
    <3>1. profile'[i] = profile[i]
      BY <1>0, <2>1, <2>3, <2>5 DEF Lodestar!IngestTypeOK
    <3> QED BY <2>1, <2>3, <2>5, <3>1 DEF RowInStep
  <2> QED BY <2>4, <2>5
<1>5. ASSUME NEW x \in cycle.todo, x[1] # i, Lodestar!QualityFails(x)
      PROVE  RowInStep(i)' /\ listed'[i] # 0
  <2>1. /\ cycle.pc = "quality" /\ cycle'.pc = "quality" /\ cycle'.roster = cycle.roster
        /\ cycle'.todo = cycle.todo \ {x} /\ UNCHANGED <<listed, profile>>
    BY <1>0, <1>5 DEF Lodestar!QualityFails, Lodestar!CycleOnly, CycleType
  <2> QED BY <1>5, <2>1 DEF RowInStep
<1>6. CASE Lodestar!EndRoster
  <2>1. /\ cycle.pc = "quality" /\ cycle.todo = {} /\ cycle'.pc = "page"
        /\ UNCHANGED <<listed, profile>>
    BY <1>6 DEF Lodestar!EndRoster, Lodestar!ToAllocations, Lodestar!CycleOnly, Lodestar!Idle
  <2>2. profile[i].roster = listed[i] /\ profile[i].quality = listed[i]
    BY <2>1 DEF RowInStep
  <2> QED BY <1>0, <2>1, <2>2 DEF RowInStep
<1>7. CASE \/ Lodestar!ReadPage \/ (\E p \in cycle.todo : Lodestar!Upsert(p)) \/ Lodestar!Delete
           \/ Lodestar!PageShort \/ Lodestar!RunFails \/ Lodestar!DeleteAhead
           \/ Lodestar!DeleteBehind
  <2>1. cycle.pc \in {"page", "upsert"} /\ UNCHANGED <<listed, profile>>
    BY <1>7, PageRead
       DEF Lodestar!ReadPage, Lodestar!Upsert, Lodestar!Delete, Lodestar!PageShort,
           Lodestar!RunFails, Lodestar!DeleteAhead, Lodestar!DeleteBehind, Lodestar!CycleOnly
  <2>2. cycle'.pc \in {"page", "upsert", "idle"}
    <3>1. CASE Lodestar!ReadPage
      BY <1>0, <2>1, <3>1, PageRead DEF CycleType
    <3>2. CASE cycle' = Lodestar!Idle
      BY <3>2 DEF Lodestar!Idle
    <3>3. CASE \E p \in cycle.todo : Lodestar!Upsert(p)
      BY <1>0, <3>3 DEF Lodestar!Upsert, CycleType
    <3>4. CASE Lodestar!PageShort
      BY <1>0, <3>4 DEF Lodestar!PageShort, Lodestar!Upserting, CycleType
    <3> QED BY <1>7, <3>1, <3>2, <3>3, <3>4
            DEF Lodestar!Delete, Lodestar!RunFails, Lodestar!DeleteAhead, Lodestar!DeleteBehind
  <2> QED BY <2>1, <2>2 DEF RowInStep
<1>8. ASSUME NEW j \in Indexer \ {i}, Lodestar!RosterChanges(j)
      PROVE  RowInStep(i)' /\ listed'[i] # 0
  <2>1. listed'[i] = listed[i] /\ UNCHANGED <<cycle, profile>>
    BY <1>0, <1>8 DEF Lodestar!RosterChanges, Lodestar!IngestTypeOK
  <2> QED BY <2>1 DEF RowInStep
<1>9. ASSUME NEW p \in Pair, Lodestar!TrafficChanges(p) PROVE RowInStep(i)' /\ listed'[i] # 0
  BY <1>9 DEF Lodestar!TrafficChanges, RowInStep
<1>10. CASE UNCHANGED Lodestar!vars
  BY <1>10 DEF Lodestar!vars, RowInStep
<1> QED BY <1>1, <1>2, <1>3, <1>4, <1>5, <1>6, <1>7, <1>8, <1>9, <1>10
        DEF RowRests, Lodestar!Loop

\* run_ingest_once: once a cycle that read an indexer's present data is past
\* both of its parts, both parts of its row are those data, whatever happens to the
\* other indexers and to the allocations, and so they stay.
THEOREM CyclesFollowRoster ==
    ASSUME NEW i \in Indexer
    PROVE  AnySpec => [](cycle.pc = "roster" /\ cycle.roster = Listing /\ cycle.todo = Listing
                         /\ listed[i] # 0 /\ [][RowRests(i)]_(Lodestar!vars)
                         => [](cycle.pc \in {"page", "upsert", "idle"}
                               => profile[i] = [roster |-> listed[i], quality |-> listed[i]]))
<1>1. cycle.pc = "roster" /\ cycle.roster = Listing /\ cycle.todo = Listing /\ listed[i] # 0
      => RowInStep(i)
  BY DEF RowInStep, Listing
<1>2. LoopsInv /\ LoopsInv' /\ RowInStep(i) /\ listed[i] # 0 /\ [RowRests(i)]_(Lodestar!vars)
      => RowInStep(i)' /\ (listed[i] # 0)'
  BY RowStep DEF LoopsInv
<1>3. RowInStep(i) => (cycle.pc \in {"page", "upsert", "idle"}
                       => profile[i] = [roster |-> listed[i], quality |-> listed[i]])
  BY DEF RowInStep
<1> QED BY <1>1, <1>2, <1>3, LoopsInvariant, PTL
==============================================================================
