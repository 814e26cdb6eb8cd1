---------------------------- MODULE PaidDispatch ----------------------------
(***************************************************************************)
(* Paying indexers for probes: the loops that keep "whom can we pay" fresh *)
(* and the round that reads it.                                            *)
(*                                                                         *)
(*   chain tip   remembers that the chain could be read once.              *)
(*   allocations replaces active_allocation, from our nest when it says it *)
(*               is current, else page by page from the gateway.           *)
(*   escrow      asks the chain for our balance with each indexer of that  *)
(*               table that has a URL, one at a time.                      *)
(*   round       bills the allocations both tables make payable, one after *)
(*               the other.                                                *)
(*                                                                         *)
(* One deployment stands for all: the tables are joined per deployment.    *)
(* The nest, the gateway and the chain are external, and are modelled by   *)
(* what these loops can see of them.                                       *)
(* An allocation has an id, an indexer and a deployment: a row of a page   *)
(* that lacks one of them is skipped by the code, and is none here.        *)
(***************************************************************************)
EXTENDS Integers, FiniteSets

CONSTANTS
    Allocation,   \* allocation ids, numbers for their order
    Indexer,
    OperatorOf,   \* whose an allocation is
    Registered,   \* the indexers with a service URL
    Config,       \* the configurations a start may read: the operators not to be
                  \* paid, whether a nest is configured, whether there is a key
    Open0,        \* the allocations active at first
    Funded0,      \* the indexers funded at first
    PageSize,     \* allocations per page of the gateway
    MaxPages,     \* pages a sync reads at most
    MaxTargets,   \* allocations billed per probe at most
    MaxChanges,   \* bound on changes of the chain and of the nest
    MaxFailures,  \* bound on failed or short reads and writes
    MaxRestarts   \* bound on restarts

ASSUME PaidAssumption ==
    /\ Allocation \subseteq Nat \ {0} /\ IsFiniteSet(Allocation)
    /\ OperatorOf \in [Allocation -> Indexer]
    /\ Registered \subseteq Indexer
    /\ Open0 \subseteq Allocation
    /\ Funded0 \subseteq Indexer
    /\ Config \subseteq [excluded : SUBSET Indexer, nest : BOOLEAN, key : BOOLEAN]
    /\ {PageSize, MaxPages, MaxTargets} \subseteq Nat \ {0}
    /\ {MaxChanges, MaxFailures, MaxRestarts} \subseteq Nat

VARIABLES
    open,      \* chain: the active allocations
    funded,    \* chain: the indexers our escrow can pay
    nest,      \* what our nest answers
    config,    \* what this process was started with
    tip,       \* whether the chain tip is known
    table,     \* active_allocation
    urls,      \* its rows with a URL
    balance,   \* tap_escrow.balance_wei, "none" for no row
    sync,      \* the progress of the allocation sync
    read,      \* history: what the source held while the sync was reading it,
               \* and whether it answered in full and for its present state
    escrow,    \* the indexers the escrow sync has still to ask
    round,     \* the allocations the round has still to bill
    spent      \* changes, failures and restarts so far

worldVars == <<open, funded, nest>>
syncVars == <<table, urls, sync, read>>
vars == <<open, funded, nest, config, tip, table, urls, balance, sync, read, escrow, round, spent>>

\* "following": current.  "trailing": older than it should be, though the lag the
\* nest reports is within MAX_LAG_BLOCKS, because it is small or because the nest
\* has stalled and measures it from its own tip.  "behind": says so.
NestMode == {"following", "trailing", "behind"}

IdleSync == [pc |-> "idle", from |-> "none", rows |-> {}, last |-> 0, pages |-> 0, known |-> FALSE]

NoRead == [on |-> FALSE, ever |-> {}, always |-> {}, honest |-> TRUE]

Init ==
    /\ open = Open0
    /\ funded = Funded0
    /\ nest = [mode |-> "following", view |-> open]
    /\ config \in Config
    /\ tip = FALSE
    /\ table = {}
    /\ urls = {}
    /\ balance = [i \in Indexer |-> "none"]
    /\ sync = IdleSync
    /\ read = NoRead
    /\ escrow = {}
    /\ round = {}
    /\ spent = [changes |-> 0, failures |-> 0, restarts |-> 0]

-----------------------------------------------------------------------------
(* The chain and the nest.                                                 *)

Changing ==
    /\ spent.changes < MaxChanges
    /\ spent' = [spent EXCEPT !.changes = @ + 1]

\* An allocation opens or closes; a nest that follows sees it.
OpenOrClose(a) ==
    /\ Changing
    /\ open' = IF a \in open THEN open \ {a} ELSE open \cup {a}
    /\ nest' = IF nest.mode = "following" THEN [nest EXCEPT !.view = open'] ELSE nest
    /\ read' = IF read.on
               THEN [read EXCEPT !.ever = @ \cup open', !.always = @ \cap open']
               ELSE read
    /\ UNCHANGED <<funded, config, tip, table, urls, balance, sync, escrow, round>>

FundOrDrain(i) ==
    /\ Changing
    /\ funded' = IF i \in funded THEN funded \ {i} ELSE funded \cup {i}
    /\ UNCHANGED <<open, nest, config, tip, syncVars, balance, escrow, round>>

NestDegrades ==
    /\ nest.mode = "following"
    /\ Changing
    /\ \E m \in {"trailing", "behind"} : nest' = [nest EXCEPT !.mode = m]
    /\ UNCHANGED <<open, funded, config, tip, syncVars, balance, escrow, round>>

NestCatchesUp ==
    /\ nest.mode # "following"
    /\ nest' = [mode |-> "following", view |-> open]
    /\ UNCHANGED <<open, funded, config, tip, syncVars, balance, escrow, round, spent>>

Failure ==
    /\ spent.failures < MaxFailures
    /\ spent' = [spent EXCEPT !.failures = @ + 1]

-----------------------------------------------------------------------------
(* The chain tip.                                                          *)

ReadTip ==
    /\ ~tip
    /\ tip' = TRUE
    /\ UNCHANGED <<worldVars, config, syncVars, balance, escrow, round, spent>>

-----------------------------------------------------------------------------
(* The allocation sync.                                                    *)

SyncOnly == UNCHANGED <<worldVars, config, tip, balance, escrow, round>>

Reading == read' = [on |-> TRUE, ever |-> open, always |-> open, honest |-> TRUE]

Paging == [IdleSync EXCEPT !.pc = "page", !.from = "gateway"]

\* Without a key the loop returns before its first pass.
StartFromNest ==
    /\ sync.pc = "idle"
    /\ config.key /\ config.nest /\ tip
    /\ sync' = [IdleSync EXCEPT !.pc = "ready", !.from = "nest"]
    /\ Reading
    /\ SyncOnly
    /\ UNCHANGED <<table, urls, spent>>

\* No nest, or no tip after ten seconds.
StartFromGateway ==
    /\ sync.pc = "idle"
    /\ config.key
    /\ ~config.nest \/ ~tip
    /\ sync' = Paging
    /\ Reading
    /\ SyncOnly
    /\ UNCHANGED <<table, urls, spent>>

\* The gateway is asked after whatever went wrong with the nest.
FallBack ==
    /\ sync' = Paging
    /\ Reading
    /\ UNCHANGED <<table, urls>>

\* lag_blocks is the nest's own word.
NestReady ==
    /\ sync.pc = "ready"
    /\ IF nest.mode = "behind"
       THEN FallBack
       ELSE sync' = [sync EXCEPT !.pc = "rows"] /\ UNCHANGED <<read, table, urls>>
    /\ SyncOnly
    /\ UNCHANGED spent

\* An empty set is refused.
NestRows ==
    /\ sync.pc = "rows"
    /\ IF nest.view = {}
       THEN FallBack
       ELSE /\ sync' = [sync EXCEPT !.pc = "endpoints", !.rows = nest.view]
            /\ read' = [read EXCEPT !.honest = nest.mode = "following"]
            /\ UNCHANGED <<table, urls>>
    /\ SyncOnly
    /\ UNCHANGED spent

\* Unreachable, an HTTP error, truncated, not JSON.
NestFails ==
    /\ sync.pc \in {"ready", "rows"}
    /\ Failure
    /\ FallBack
    /\ SyncOnly

NestEndpoints ==
    /\ sync.pc = "endpoints"
    /\ sync' = [sync EXCEPT !.pc = "replace", !.known = TRUE]
    /\ SyncOnly
    /\ UNCHANGED <<table, urls, read, spent>>

\* unwrap_or_default(): the allocations are stored without a URL.
NestEndpointsFail ==
    /\ sync.pc = "endpoints"
    /\ Failure
    /\ sync' = [sync EXCEPT !.pc = "replace", !.known = FALSE]
    /\ SyncOnly
    /\ UNCHANGED <<table, urls, read>>

IdleAgain == sync' = IdleSync /\ read' = NoRead

\* Variation: an answer without allocations is stored like any other.
EndPagingAnyway(rows, honest) ==
    /\ sync' = [sync EXCEPT !.pc = "replace", !.rows = rows, !.known = TRUE]
    /\ read' = [read EXCEPT !.honest = @ /\ honest]

\* The rows of the loop as it ends: none, and it bails out; else to be stored.
EndPaging(rows, honest) ==
    IF rows = {}
    THEN IdleAgain
    ELSE /\ sync' = [sync EXCEPT !.pc = "replace", !.rows = rows, !.known = TRUE]
         /\ read' = [read EXCEPT !.honest = @ /\ honest]

\* The first PageSize active allocations with an id above the cursor.
IsPage(page, last) ==
    LET after == {a \in open : a > last}
    IN  /\ page \subseteq after
        /\ \A a \in page : \A b \in after : b < a => b \in page
        /\ \/ Cardinality(page) = PageSize
           \/ page = after /\ Cardinality(page) < PageSize

\* The largest id of the page is the next cursor.
TopOf(page) == CHOOSE a \in page : \A b \in page : b <= a

\* Variation: the cursor is one further than the last row.
TakePageSkipping(page) ==
    LET rows == sync.rows \cup page
    IN  IF Cardinality(page) < PageSize
        THEN EndPaging(rows, TRUE)
        ELSE IF sync.pages + 1 = MaxPages
             THEN EndPaging(rows, \A a \in open : a <= TopOf(page))
             ELSE /\ sync' = [sync EXCEPT !.rows = rows, !.last = TopOf(page) + 1, !.pages = @ + 1]
                  /\ UNCHANGED read

\* What a page adds: a full one is followed by another, up to MaxPages, and the
\* allocations after the last page read are left out.
TakePage(page) ==
    LET rows == sync.rows \cup page
    IN  IF Cardinality(page) < PageSize
        THEN EndPaging(rows, TRUE)
        ELSE IF sync.pages + 1 = MaxPages
             THEN EndPaging(rows, \A a \in open : a <= TopOf(page))
             ELSE /\ sync' = [sync EXCEPT !.rows = rows, !.last = TopOf(page), !.pages = @ + 1]
                  /\ UNCHANGED read

GatewayPage ==
    /\ sync.pc = "page"
    /\ \E page \in SUBSET open : IsPage(page, sync.last) /\ TakePage(page)
    /\ SyncOnly
    /\ UNCHANGED <<table, urls, spent>>

\* An answer without /data/allocations ends the paging like a last page.
GatewayShort ==
    /\ sync.pc = "page"
    /\ Failure
    /\ EndPaging(sync.rows, FALSE)
    /\ SyncOnly
    /\ UNCHANGED <<table, urls>>

\* A failed request, a body that is not JSON, an errors key.
GatewayFails ==
    /\ sync.pc = "page"
    /\ Failure
    /\ IdleAgain
    /\ SyncOnly
    /\ UNCHANGED <<table, urls>>

WithUrl(rows) == {a \in rows : OperatorOf[a] \in Registered}

\* Variation: the rows are upserted and no row is deleted.
ReplaceUpserts ==
    /\ sync.pc = "replace"
    /\ table' = table \cup sync.rows
    /\ urls' = IF sync.known THEN (urls \ sync.rows) \cup WithUrl(sync.rows) ELSE urls \ sync.rows
    /\ IdleAgain
    /\ SyncOnly
    /\ UNCHANGED spent

\* DELETE and INSERTs in one transaction.
Replace ==
    /\ sync.pc = "replace"
    /\ table' = sync.rows
    /\ urls' = IF sync.known THEN WithUrl(sync.rows) ELSE {}
    /\ IdleAgain
    /\ SyncOnly
    /\ UNCHANGED spent

\* Rolled back; after the nest, the gateway is tried.
ReplaceFails ==
    /\ sync.pc = "replace"
    /\ Failure
    /\ IF sync.from = "nest" THEN FallBack ELSE IdleAgain /\ UNCHANGED <<table, urls>>
    /\ SyncOnly

-----------------------------------------------------------------------------
(* The escrow sync.                                                        *)

EscrowOnly == UNCHANGED <<worldVars, config, tip, syncVars, round>>

EscrowStart ==
    /\ escrow = {}
    /\ escrow' = {OperatorOf[a] : a \in urls} \ config.excluded
    /\ EscrowOnly
    /\ UNCHANGED <<balance, spent>>

\* Variation: a row that is there is left alone.
EscrowFirstOnly(i) ==
    /\ i \in escrow
    /\ balance' = IF balance[i] = "none"
                  THEN [balance EXCEPT ![i] = IF i \in funded THEN "positive" ELSE "zero"]
                  ELSE balance
    /\ escrow' = escrow \ {i}
    /\ EscrowOnly
    /\ UNCHANGED spent

\* The balance is read and stored.  The loop is the only writer of the row, so a
\* change of the escrow between the two is one that comes after both.
EscrowRead(i) ==
    /\ i \in escrow
    /\ balance' = [balance EXCEPT ![i] = IF i \in funded THEN "positive" ELSE "zero"]
    /\ escrow' = escrow \ {i}
    /\ EscrowOnly
    /\ UNCHANGED spent

\* The next indexer is asked, the row stays what it was.
EscrowReadFails(i) ==
    /\ i \in escrow
    /\ Failure
    /\ escrow' = escrow \ {i}
    /\ EscrowOnly
    /\ UNCHANGED balance

\* The row cannot be written: the pass ends.
EscrowStops ==
    /\ escrow # {}
    /\ Failure
    /\ escrow' = {}
    /\ EscrowOnly
    /\ UNCHANGED balance

-----------------------------------------------------------------------------
(* The round.                                                              *)

\* Variation: only the escrow sync leaves out the excluded operators.
PayableUnfiltered == {a \in urls : balance[OperatorOf[a]] = "positive"}

\* payable_targets_for_deployment.
Payable == {a \in urls : balance[OperatorOf[a]] = "positive" /\ OperatorOf[a] \notin config.excluded}

RoundOnly == UNCHANGED <<worldVars, config, tip, syncVars, balance, escrow, spent>>

\* The largest MaxTargets of them; tokens are left out, any may be the largest.
Targets(payable) ==
    {t \in SUBSET payable :
        \/ t = payable /\ Cardinality(t) <= MaxTargets
        \/ Cardinality(t) = MaxTargets}

\* The targets are read once, before the first is billed; a round without any
\* bills nobody.
StartRound ==
    /\ round = {}
    /\ round' \in Targets(Payable) \ {{}}
    /\ RoundOnly

\* One paid query after the other.
Bill(a) ==
    /\ a \in round
    /\ round' = round \ {a}
    /\ RoundOnly

-----------------------------------------------------------------------------

\* The process is started again, with a configuration that may differ.
Restart ==
    /\ spent.restarts < MaxRestarts
    /\ spent' = [spent EXCEPT !.restarts = @ + 1]
    /\ config' \in Config
    /\ tip' = FALSE
    /\ IdleAgain
    /\ escrow' = {}
    /\ round' = {}
    /\ UNCHANGED <<worldVars, table, urls, balance>>

World ==
    \/ \E a \in Allocation : OpenOrClose(a)
    \/ \E i \in Indexer : FundOrDrain(i)
    \/ NestDegrades
    \/ NestCatchesUp

SyncLoop ==
    \/ StartFromNest \/ StartFromGateway
    \/ NestReady \/ NestRows \/ NestEndpoints
    \/ GatewayPage
    \/ Replace

EscrowLoop == EscrowStart \/ \E i \in Indexer : EscrowRead(i)

RoundLoop == StartRound \/ \E a \in Allocation : Bill(a)

Faults ==
    \/ NestFails \/ NestEndpointsFail
    \/ GatewayShort \/ GatewayFails \/ ReplaceFails
    \/ (\E i \in Indexer : EscrowReadFails(i)) \/ EscrowStops
    \/ Restart

Next == World \/ ReadTip \/ SyncLoop \/ EscrowLoop \/ RoundLoop \/ Faults

Spec == Init /\ [][Next]_vars

\* The loops are never stopped, and a nest that has fallen behind catches up.
Fairness ==
    /\ WF_vars(ReadTip)
    /\ WF_vars(SyncLoop)
    /\ WF_vars(EscrowLoop)
    /\ WF_vars(NestCatchesUp)

FairSpec == Spec /\ Fairness

-----------------------------------------------------------------------------

\* Types, and what each loop holds at each step.
PaidTypeOK ==
    /\ open \subseteq Allocation
    /\ funded \subseteq Indexer
    /\ nest \in [mode : NestMode, view : SUBSET Allocation]
    /\ config \in Config
    /\ tip \in BOOLEAN
    /\ table \subseteq Allocation
    /\ urls \subseteq table
    /\ balance \in [Indexer -> {"none", "zero", "positive"}]
    /\ sync \in [pc : {"idle", "ready", "rows", "endpoints", "page", "replace"},
                 from : {"none", "nest", "gateway"}, rows : SUBSET Allocation,
                 last : Nat, pages : 0..MaxPages, known : BOOLEAN]
    /\ sync.pc = "replace" => sync.rows # {}
    /\ read \in [on : BOOLEAN, ever : SUBSET Allocation, always : SUBSET Allocation,
                 honest : BOOLEAN]
    /\ escrow \subseteq Indexer
    /\ round \subseteq Allocation
    /\ spent \in [changes : 0..MaxChanges, failures : 0..MaxFailures, restarts : 0..MaxRestarts]

\* No operator the configuration excludes is billed, whatever the tables still
\* say of it from the time before the exclusion.
ExcludedNeverBilled == \A a \in round : OperatorOf[a] \notin config.excluded

\* The chain's allocations as the source, the table as what the readers see.
Regular == INSTANCE RegularTable WITH Item <- Allocation, source <- open

\* The allocation table only ever holds whole answers, from the nest as from the
\* gateway, whose pages are read while allocations open and close.
TableIsRegular == Regular!Spec

\* A refresh takes a target away only when the allocation was not open all the
\* while, the source answered short or out of date, or the endpoints were missing.
RefreshKeepsTargets ==
    [][ Replace /\ read.honest /\ sync.known
        => \A a \in Payable \cap read.always : a \in Payable' ]_vars

\* The indexers we should pay: active, registered, funded, not excluded.
Due ==
    {a \in WithUrl(open) : OperatorOf[a] \in funded /\ OperatorOf[a] \notin config.excluded}

\* Once the chain rests, the targets become the ones that can be paid, unless there
\* is no key to sync with or no allocation is left, whose table is never cleared.
TargetsConverge == <>[](~config.key \/ open = {} \/ Payable = Due)
==============================================================================
