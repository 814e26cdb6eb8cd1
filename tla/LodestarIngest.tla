--------------------------- MODULE LodestarIngest ---------------------------
(***************************************************************************)
(* The ingest cycle: the enriched roster and the quality of every indexer  *)
(* on it from Lodestar, then the quality per allocation from Edge & Node's *)
(* oracle.                                                                 *)
(*                                                                         *)
(* The roster and each indexer's quality are upserted and never deleted.   *)
(* The allocations of the trailing days are read page by page, upserted    *)
(* row by row, and the rows this run has not touched are deleted in the    *)
(* end: those whose updated_at, on the clock of the database, is before    *)
(* the start of the run, on the clock of the process.                      *)
(*                                                                         *)
(* Values are versions: what counts is whether a row holds the newest.     *)
(***************************************************************************)
EXTENDS Integers, FiniteSets

CONSTANTS
    Indexer,
    Pair,         \* (indexer, deployment) pairs, numbers for the order of their ids
    PageSize,     \* data points per page
    MaxPages,     \* pages read at most
    MaxChanges,   \* bound on changes of the sources
    MaxFailures,  \* bound on failed or short requests, failed statements and
                  \* runs with the clock of the process ahead or behind
    MaxCrashes    \* bound on restarts

LodestarAssumption ==
    /\ Pair \subseteq Nat \ {0} /\ IsFiniteSet(Pair) /\ IsFiniteSet(Indexer)
    /\ {PageSize, MaxPages} \subseteq Nat \ {0}
    /\ {MaxChanges, MaxFailures, MaxCrashes} \subseteq Nat

VARIABLES
    listed,    \* Lodestar: the version of each indexer on the roster, 0 if absent
    traffic,   \* the oracle: the pairs with traffic in its trailing days
    profile,   \* table indexer_profile: versions of the roster columns and of the
               \* quality columns, 0 for no row and for NULL
    quality,   \* table allocation_qos
    cycle,     \* the progress of the ingest cycle
    read,      \* history: the pairs that had traffic at every moment of the run,
               \* whether the run was whole, and whether the last one to delete was
    spent      \* changes, failures and crashes so far

vars == <<listed, traffic, profile, quality, cycle, read, spent>>

\* todo: what the step has still to handle.  rows: the pairs read.  touched: the
\* pairs upserted in this run.
Idle == [pc |-> "idle", todo |-> {}, roster |-> {}, rows |-> {}, last |-> 0, pages |-> 0,
         touched |-> {}]

NoRow == [roster |-> 0, quality |-> 0]

Init ==
    /\ listed = [i \in Indexer |-> 1]
    /\ traffic = Pair
    /\ profile = [i \in Indexer |-> NoRow]
    /\ quality = {}
    /\ cycle = Idle
    /\ read = [always |-> {}, whole |-> TRUE]
    /\ spent = [changes |-> 0, failures |-> 0, crashes |-> 0]

-----------------------------------------------------------------------------
(* The sources.                                                            *)

Changing ==
    /\ spent.changes < MaxChanges
    /\ spent' = [spent EXCEPT !.changes = @ + 1]

\* An indexer's data change, or it leaves the roster.
RosterChanges(i) ==
    /\ Changing
    /\ listed' \in {[listed EXCEPT ![i] = spent.changes + 2], [listed EXCEPT ![i] = 0]}
    /\ UNCHANGED <<traffic, profile, quality, cycle, read>>

\* Traffic begins, or dries up; so does an allocation that is closed.
TrafficChanges(p) ==
    /\ Changing
    /\ traffic' = IF p \in traffic THEN traffic \ {p} ELSE traffic \cup {p}
    /\ read' = [read EXCEPT !.always = @ \cap traffic']
    /\ UNCHANGED <<listed, profile, quality, cycle>>

Failure ==
    /\ spent.failures < MaxFailures
    /\ spent' = [spent EXCEPT !.failures = @ + 1]

-----------------------------------------------------------------------------
(* The roster and the quality of each indexer.                             *)

CycleOnly == UNCHANGED <<listed, traffic>>

\* What follows the roster's part of the cycle, however it ended: the other part,
\* whose run starts here.
ToAllocations ==
    /\ cycle' = [Idle EXCEPT !.pc = "page"]
    /\ read' = [always |-> traffic, whole |-> TRUE]

\* The snapshot of the roster is what the cycle writes and whom it then asks about.
FetchRoster ==
    /\ cycle.pc = "idle"
    /\ LET roster == {<<i, listed[i]>> : i \in {j \in Indexer : listed[j] # 0}}
       IN  cycle' = [Idle EXCEPT !.pc = "roster", !.todo = roster, !.roster = roster]
    /\ CycleOnly
    /\ UNCHANGED <<profile, quality, read, spent>>

\* Variation: a row that exists is left alone.
UpsertRosterOnce(x) ==
    /\ cycle.pc = "roster" /\ x \in cycle.todo
    /\ profile' = IF profile[x[1]] = NoRow
                  THEN [profile EXCEPT ![x[1]].roster = x[2]]
                  ELSE profile
    /\ cycle' = [cycle EXCEPT !.todo = @ \ {x}]
    /\ CycleOnly
    /\ UNCHANGED <<quality, read, spent>>

\* The quality columns are left untouched.
UpsertRoster(x) ==
    /\ cycle.pc = "roster" /\ x \in cycle.todo
    /\ profile' = [profile EXCEPT ![x[1]].roster = x[2]]
    /\ cycle' = [cycle EXCEPT !.todo = @ \ {x}]
    /\ CycleOnly
    /\ UNCHANGED <<quality, read, spent>>

ToQuality ==
    /\ cycle.pc = "roster" /\ cycle.todo = {}
    /\ cycle' = [cycle EXCEPT !.pc = "quality", !.todo = cycle.roster]
    /\ CycleOnly
    /\ UNCHANGED <<profile, quality, read, spent>>

\* The roster cannot be read or a row cannot be written: its part of the cycle is
\* over, and the quality of the indexers is not asked for.
RosterFails ==
    /\ cycle.pc \in {"idle", "roster"}
    /\ Failure
    /\ ToAllocations
    /\ CycleOnly
    /\ UNCHANGED <<profile, quality>>

\* Six requests at a time; each updates its row as it comes back.  An indexer's
\* row has this one writer, so the answer counts as read when it is written.
UpdateQuality(x) ==
    /\ cycle.pc = "quality" /\ x \in cycle.todo
    /\ profile' = IF profile[x[1]] = NoRow THEN profile
                  ELSE [profile EXCEPT ![x[1]].quality = IF listed[x[1]] = 0 THEN @ ELSE listed[x[1]]]
    /\ cycle' = [cycle EXCEPT !.todo = @ \ {x}]
    /\ CycleOnly
    /\ UNCHANGED <<quality, read, spent>>

\* A request or an update that fails is left out; the row keeps what it had.
QualityFails(x) ==
    /\ cycle.pc = "quality" /\ x \in cycle.todo
    /\ Failure
    /\ cycle' = [cycle EXCEPT !.todo = @ \ {x}]
    /\ CycleOnly
    /\ UNCHANGED <<profile, quality, read>>

EndRoster ==
    /\ cycle.pc = "quality" /\ cycle.todo = {}
    /\ ToAllocations
    /\ CycleOnly
    /\ UNCHANGED <<profile, quality, spent>>

-----------------------------------------------------------------------------
(* The quality per allocation.                                             *)

\* The first PageSize data points with an id above the cursor.
IsPage(page, last) ==
    LET after == {p \in traffic : p > last}
    IN  /\ page \subseteq after
        /\ \A p \in page : \A q \in after : q < p => q \in page
        /\ \/ Cardinality(page) = PageSize
           \/ page = after /\ Cardinality(page) < PageSize

Upserting(rows) == [cycle EXCEPT !.pc = "upsert", !.rows = rows, !.todo = rows]

\* A full page is followed by another, up to MaxPages; the run is not whole when
\* there was more to read.
ReadPage ==
    /\ cycle.pc = "page"
    /\ \E page \in SUBSET traffic :
        /\ IsPage(page, cycle.last)
        /\ LET rows == cycle.rows \cup page
               top == CHOOSE n \in page \cup {cycle.last} : \A p \in page : p <= n
               ended == Cardinality(page) < PageSize \/ cycle.pages + 1 = MaxPages
           IN  /\ cycle' = IF ended THEN Upserting(rows)
                           ELSE [cycle EXCEPT !.rows = rows, !.last = top, !.pages = @ + 1]
               /\ read' = IF ended /\ Cardinality(page) = PageSize /\ \E p \in traffic : p > top
                          THEN [read EXCEPT !.whole = FALSE]
                          ELSE read
    /\ CycleOnly
    /\ UNCHANGED <<profile, quality, spent>>

\* An answer without the array ends the paging like a last page.
PageShort ==
    /\ cycle.pc = "page"
    /\ Failure
    /\ cycle' = Upserting(cycle.rows)
    /\ read' = [read EXCEPT !.whole = FALSE]
    /\ CycleOnly
    /\ UNCHANGED <<profile, quality>>

Upsert(p) ==
    /\ cycle.pc = "upsert" /\ p \in cycle.todo
    /\ quality' = quality \cup {p}
    /\ cycle' = [cycle EXCEPT !.todo = @ \ {p}, !.touched = @ \cup {p}]
    /\ CycleOnly
    /\ UNCHANGED <<profile, read, spent>>

\* Variation: a failed request or statement is followed by the deletion all the same.
RunFailsDeleting ==
    /\ cycle.pc \in {"page", "upsert"}
    /\ Failure
    /\ cycle' = [cycle EXCEPT !.pc = "upsert", !.todo = {}]
    /\ CycleOnly
    /\ UNCHANGED <<profile, quality, read>>

\* A request or a statement fails: the run ends without deleting.  A first request
\* that tells of no day ends it in the same way.
RunFails ==
    /\ cycle.pc \in {"page", "upsert"}
    /\ Failure
    /\ cycle' = Idle
    /\ CycleOnly
    /\ UNCHANGED <<profile, quality, read>>

Delete ==
    /\ cycle.pc = "upsert" /\ cycle.todo = {}
    /\ quality' = quality \cap cycle.touched
    /\ cycle' = Idle
    /\ CycleOnly
    /\ UNCHANGED <<profile, read, spent>>

\* The clock of the process is ahead of the clock of the database by more than the
\* run has taken: rows the run has just written look older than its start.
DeleteAhead ==
    /\ cycle.pc = "upsert" /\ cycle.todo = {}
    /\ Failure
    /\ quality' \in SUBSET (quality \cap cycle.touched)
    /\ read' = [read EXCEPT !.whole = FALSE]
    /\ cycle' = Idle
    /\ CycleOnly
    /\ UNCHANGED profile

\* It is behind by more than an interval: rows of earlier runs look newer than the
\* start of this one.
DeleteBehind ==
    /\ cycle.pc = "upsert" /\ cycle.todo = {}
    /\ Failure
    /\ \E kept \in SUBSET quality : quality' = (quality \cap cycle.touched) \cup kept
    /\ cycle' = Idle
    /\ CycleOnly
    /\ UNCHANGED <<profile, read>>

-----------------------------------------------------------------------------

Crash ==
    /\ spent.crashes < MaxCrashes
    /\ spent' = [spent EXCEPT !.crashes = @ + 1]
    /\ cycle' = Idle
    /\ CycleOnly
    /\ UNCHANGED <<profile, quality, read>>

Sources == (\E i \in Indexer : RosterChanges(i)) \/ (\E p \in Pair : TrafficChanges(p))

Loop ==
    \/ FetchRoster
    \/ \E x \in cycle.todo : UpsertRoster(x)
    \/ ToQuality
    \/ \E x \in cycle.todo : UpdateQuality(x)
    \/ EndRoster
    \/ ReadPage
    \/ \E p \in cycle.todo : Upsert(p)
    \/ Delete

Faults ==
    \/ RosterFails
    \/ \E x \in cycle.todo : QualityFails(x)
    \/ PageShort \/ RunFails \/ DeleteAhead \/ DeleteBehind
    \/ Crash

Next == Sources \/ Loop \/ Faults

Spec == Init /\ [][Next]_vars

\* The loop is never stopped.
Fairness == WF_vars(Loop)

-----------------------------------------------------------------------------

IngestTypeOK ==
    /\ listed \in [Indexer -> Nat]
    /\ traffic \subseteq Pair
    /\ profile \in [Indexer -> [roster : Nat, quality : Nat]]
    /\ \A i \in Indexer : profile[i].quality # 0 => profile[i].roster # 0
    /\ quality \subseteq Pair
    /\ cycle.pc \in {"idle", "roster", "quality", "page", "upsert"}
    /\ cycle.touched \subseteq quality \cap cycle.rows
    /\ read \in [always : SUBSET Pair, whole : BOOLEAN]
    /\ spent \in [changes : 0..MaxChanges, failures : 0..MaxFailures, crashes : 0..MaxCrashes]

\* "allocation closed or traffic dried up": a row is dropped only when its pair was
\* without traffic at some moment of the run, the pages were cut short, or the
\* clock of the process was ahead.
DroppedOnlyWhenGone ==
    [][ \A p \in quality \ quality' : p \in Pair \ read.always \/ ~read'.whole ]_vars

\* Once the sources rest, the tables come to hold them: the rows of the roster in
\* both of their parts, and the pairs with traffic and no other.
IngestConverges ==
    <>[](/\ quality = traffic
         /\ \A i \in Indexer : listed[i] # 0 =>
                profile[i] = [roster |-> listed[i], quality |-> listed[i]])
==============================================================================
