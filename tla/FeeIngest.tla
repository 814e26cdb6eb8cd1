------------------------------ MODULE FeeIngest ------------------------------
(***************************************************************************)
(* The loop that copies query-fee settlements from our own nest.           *)
(*                                                                         *)
(* A pass resumes from the highest block stored, asks the nest for the     *)
(* first Page settlements of later blocks, in the order of the chain, and  *)
(* stores them in one transaction that skips rows it already has.  A full  *)
(* page is followed by the next pass at once, a short one by a sleep.      *)
(*                                                                         *)
(* The cursor is a block and a page is a number of rows: a page may end    *)
(* between two settlements of one block.                                   *)
(***************************************************************************)
EXTENDS Naturals, FiniteSets

CONSTANTS
    Event,        \* the settlements on the chain, past and to come
    MaxBlock,     \* bound on the height of the chain
    Page,         \* rows asked for in one pass
    MaxFailures,  \* bound on failed reads, requests and commits
    MaxCrashes    \* bound on restarts

\* Blocks count from one, so that cursor 0 stands for an empty table.
ASSUME EventAssumption ==
    /\ MaxBlock \in Nat
    /\ IsFiniteSet(Event)
    /\ \A e \in Event : e.block \in 1..MaxBlock /\ e.log \in Nat
    /\ \A e, f \in Event : e.block = f.block /\ e.log = f.log => e = f

ASSUME FeeBounds == Page \in Nat \ {0} /\ MaxFailures \in Nat /\ MaxCrashes \in Nat

VARIABLES
    sealed,   \* the nest serves the settlements of the blocks up to this one
    fees,     \* table chain_query_fees
    pass,     \* the progress of the loop
    cut,      \* history, read by properties only: the blocks a full page ended in
    spent     \* failures and crashes so far

vars == <<sealed, fees, pass, cut, spent>>

Block == 0..MaxBlock

\* Primary key order, the order of the request.
Before(e, f) == e.block < f.block \/ (e.block = f.block /\ e.log < f.log)

Sleeping == [pc |-> "sleep", since |-> 0, rows |-> {}]

Resuming == [pc |-> "resume", since |-> 0, rows |-> {}]

Init ==
    /\ sealed = 0
    /\ fees = {}
    /\ pass = Resuming
    /\ cut = {}
    /\ spent = [failures |-> 0, crashes |-> 0]

-----------------------------------------------------------------------------

\* The nest follows the chain, by whole blocks.
Seal ==
    /\ sealed < MaxBlock
    /\ sealed' \in (sealed + 1)..MaxBlock
    /\ UNCHANGED <<fees, pass, cut, spent>>

Failure ==
    /\ spent.failures < MaxFailures
    /\ spent' = [spent EXCEPT !.failures = @ + 1]

\* s is COALESCE(MAX(block_number), 0).
IsCursor(s) ==
    /\ s \in Block
    /\ \A e \in fees : e.block <= s
    /\ s = 0 \/ \E e \in fees : e.block = s

\* Variation: the resume point is one block past the newest one stored.
ResumeNext ==
    /\ pass.pc = "resume"
    /\ \E s \in Block : IsCursor(s) /\ pass' = [pass EXCEPT !.pc = "fetch", !.since = s + 1]
    /\ UNCHANGED <<sealed, fees, cut, spent>>

Resume ==
    /\ pass.pc = "resume"
    /\ \E s \in Block : IsCursor(s) /\ pass' = [pass EXCEPT !.pc = "fetch", !.since = s]
    /\ UNCHANGED <<sealed, fees, cut, spent>>

\* unwrap_or(0): a table that cannot be read counts as empty.
ResumeFails ==
    /\ pass.pc = "resume"
    /\ Failure
    /\ pass' = [pass EXCEPT !.pc = "fetch", !.since = 0]
    /\ UNCHANGED <<sealed, fees, cut>>

\* The rows the request asks for, before its LIMIT.
Newer(since) == {e \in Event : e.block <= sealed /\ e.block > since}

\* rows are the first Page of candidates.
IsPage(rows, candidates) ==
    /\ rows \subseteq candidates
    /\ \A e \in rows : \A f \in candidates : Before(f, e) => f \in rows
    /\ \/ Cardinality(rows) = Page
       \/ rows = candidates /\ Cardinality(rows) < Page

Full(rows) == Cardinality(rows) = Page

\* The block of the last row, when there is a row.
EndsIn(rows) ==
    {b \in Block : /\ \E e \in rows : e.block = b
                   /\ \A e \in rows : e.block <= b}

\* Variation: the request has a LIMIT and no ORDER BY.
FetchUnordered ==
    /\ pass.pc = "fetch"
    /\ \E rows \in SUBSET Newer(pass.since) :
        /\ Full(rows) \/ (rows = Newer(pass.since) /\ Cardinality(rows) < Page)
        /\ pass' = IF rows = {} THEN Sleeping ELSE [pass EXCEPT !.pc = "store", !.rows = rows]
    /\ UNCHANGED <<sealed, fees, cut, spent>>

Fetch ==
    /\ pass.pc = "fetch"
    /\ \E rows \in SUBSET Newer(pass.since) :
        /\ IsPage(rows, Newer(pass.since))
        /\ pass' = IF rows = {} THEN Sleeping ELSE [pass EXCEPT !.pc = "store", !.rows = rows]
    /\ UNCHANGED <<sealed, fees, cut, spent>>

FetchFails ==
    /\ pass.pc = "fetch"
    /\ Failure
    /\ pass' = Sleeping
    /\ UNCHANGED <<sealed, fees, cut>>

\* Variation: the rows are inserted one by one, outside a transaction.
StoreRowByRow ==
    /\ pass.pc = "store"
    /\ \E e \in pass.rows \ fees : fees' = fees \cup {e}
    /\ pass' = IF pass.rows \ fees' # {} THEN pass
               ELSE IF Full(pass.rows) THEN Resuming ELSE Sleeping
    /\ cut' = IF Full(pass.rows) /\ pass.rows \subseteq fees' THEN cut \cup EndsIn(pass.rows) ELSE cut
    /\ UNCHANGED <<sealed, spent>>

\* ON CONFLICT DO NOTHING, all rows or none.
Store ==
    /\ pass.pc = "store"
    /\ fees' = fees \cup pass.rows
    /\ pass' = IF Full(pass.rows) THEN Resuming ELSE Sleeping
    /\ cut' = IF Full(pass.rows) THEN cut \cup EndsIn(pass.rows) ELSE cut
    /\ UNCHANGED <<sealed, spent>>

\* The transaction is rolled back.
StoreFails ==
    /\ pass.pc = "store"
    /\ Failure
    /\ pass' = Sleeping
    /\ UNCHANGED <<sealed, fees, cut>>

\* The interval is over.
Wake ==
    /\ pass.pc = "sleep"
    /\ pass' = Resuming
    /\ UNCHANGED <<sealed, fees, cut, spent>>

\* The process is restarted; a transaction that is open is rolled back.
Crash ==
    /\ spent.crashes < MaxCrashes
    /\ spent' = [spent EXCEPT !.crashes = @ + 1]
    /\ pass' = Resuming
    /\ UNCHANGED <<sealed, fees, cut>>

Loop == Resume \/ Fetch \/ Store \/ Wake

Faults == ResumeFails \/ FetchFails \/ StoreFails \/ Crash

Next == Seal \/ Loop \/ Faults

Spec == Init /\ [][Next]_vars

\* The loop is never stopped, and the chain grows.
Fairness == WF_vars(Loop) /\ WF_vars(Seal)

FairSpec == Spec /\ Fairness

-----------------------------------------------------------------------------

\* Types, and what a pass holds at each step.
FeeTypeOK ==
    /\ sealed \in Block
    /\ fees \subseteq Event
    /\ pass \in [pc : {"resume", "fetch", "store", "sleep"}, since : Block, rows : SUBSET Event]
    /\ cut \subseteq Block
    /\ spent \in [failures : 0..MaxFailures, crashes : 0..MaxCrashes]

\* Whatever fails and whenever the process restarts, a settlement the cursor has
\* passed is stored, unless a full page ended in its block.
PassedIsStored ==
    \A e \in Event :
        (\E f \in fees : e.block <= f.block) => e \in fees \/ e.block \in cut

\* A settlement reaches the table unless a full page ended in its block: no
\* failure, restart or short answer loses one for good.
SettlementsArrive == \A e \in Event : <>(e \in fees \/ e.block \in cut)

\* What nest.rs says of a partial answer: "the next pass picks up the rest".
NextPassPicksUpTheRest == \A e \in Event : <>(e \in fees)
==============================================================================
