------------------------- MODULE PaidDispatchProofs -------------------------
(***************************************************************************)
(* For every set of allocations and indexers, page size and number of      *)
(* faults: types, that no excluded operator is billed, that the            *)
(* allocation sync implements RegularTable, and that targets stay right.   *)
(*                                                                         *)
(* The refinement needs to know what an answer being assembled already is. *)
(* Page by page from the gateway, the rows hold everything up to the       *)
(* cursor that was open all the while; from the nest they are the chain's  *)
(* own set when the nest follows it; and both hold nothing that was not    *)
(* open at some moment of the read.                                        *)
(***************************************************************************)
EXTENDS PaidDispatch, FiniteSetTheorems, WellFoundedInduction, TLAPS

\* A finite set of naturals that is not empty has a largest element: the one above
\* which the fewest others lie.
LEMMA FiniteHasLargest ==
    ASSUME NEW S \in SUBSET Nat, IsFiniteSet(S), S # {}
    PROVE  \E a \in S : \A b \in S : b <= a
<1> DEFINE above(x) == {y \in S : x < y}
           sizes == {Cardinality(above(x)) : x \in S}
           less == {pair \in Nat \X Nat : pair[1] < pair[2]}
<1>1. ASSUME NEW a \in S PROVE IsFiniteSet(above(a)) /\ Cardinality(above(a)) \in Nat
  BY FS_Subset, FS_CardinalityType
<1>2. sizes \subseteq Nat /\ sizes # {}
  BY <1>1
<1>3. IsWellFoundedOn(less, Nat)
  BY NatLessThanWellFounded DEF OpToRel
<1>4. PICK n \in sizes : \A m \in sizes : ~(<<m, n>> \in less)
  <2> HIDE DEF sizes, less
  <2> QED BY <1>2, <1>3, WFMin
<1>5. PICK a \in S : n = Cardinality(above(a))
  OBVIOUS
<1>6. ASSUME NEW b \in S, a < b PROVE FALSE
  <2>1. a \in Nat /\ b \in Nat /\ \A c \in S : c \in Nat
    BY <1>6
  <2>2. b \in above(a) /\ b \notin above(b)
    BY <1>6, <2>1
  <2>3. ASSUME NEW c \in above(b) PROVE c \in above(a)
    BY <1>6, <2>1
  <2>4. above(b) \subseteq above(a)
    BY <2>3
  <2>5. Cardinality(above(b)) < Cardinality(above(a))
    <3> HIDE DEF above
    <3> QED BY <1>1, <2>2, <2>4, FS_Subset
  <2>6. <<Cardinality(above(b)), n>> \in less
    BY <1>1, <1>5, <2>5
  <2> QED BY <1>4, <2>6
<1> QED BY <1>6

\* A full page has a last row, which is the next cursor.
LEMMA FullPageHasTop ==
    ASSUME NEW page \in SUBSET Allocation, Cardinality(page) = PageSize
    PROVE  TopOf(page) \in page /\ \A b \in page : b <= TopOf(page)
<1>1. page \in SUBSET Nat /\ IsFiniteSet(page)
  BY PaidAssumption, FS_Subset
<1>2. page # {}
  BY PaidAssumption, FS_EmptySet
<1> QED BY <1>1, <1>2, FiniteHasLargest DEF TopOf

-----------------------------------------------------------------------------
(* The invariant.                                                          *)

\* The world as the sync relies on it, and the read that goes with a pass.
WindowOK ==
    /\ nest.mode = "following" => nest.view = open
    /\ read.on <=> sync.pc # "idle"
    /\ read.on => read.always \subseteq open /\ open \subseteq read.ever
    /\ sync.pc \in {"ready", "rows"} => read.honest
    /\ sync.pc = "endpoints" => sync.rows # {}
    /\ sync.pages < MaxPages

\* Every page so far is in the rows.
PagesOK ==
    sync.pc = "page" =>
        /\ sync.rows \subseteq read.ever
        /\ \A a \in read.always : a <= sync.last => a \in sync.rows

\* The answer that is about to be stored.
AnswerOK ==
    sync.pc \in {"endpoints", "replace"} /\ read.honest =>
        read.always \subseteq sync.rows /\ sync.rows \subseteq read.ever

AssemblyOK == WindowOK /\ PagesOK /\ AnswerOK

IInv == PaidTypeOK /\ AssemblyOK

-----------------------------------------------------------------------------
(* Types.                                                                  *)

SyncType ==
    [pc : {"idle", "ready", "rows", "endpoints", "page", "replace"},
     from : {"none", "nest", "gateway"}, rows : SUBSET Allocation,
     last : Nat, pages : 0..MaxPages, known : BOOLEAN]

ReadType ==
    [on : BOOLEAN, ever : SUBSET Allocation, always : SUBSET Allocation, honest : BOOLEAN]

SpentType ==
    [changes : 0..MaxChanges, failures : 0..MaxFailures, restarts : 0..MaxRestarts]

\* The counters of the bounds keep theirs.
LEMMA SpentKeepsType ==
    ASSUME PaidTypeOK, Changing \/ Failure \/ spent' = spent
    PROVE  spent' \in SpentType
<1>1. MaxChanges \in Nat /\ MaxFailures \in Nat /\ MaxRestarts \in Nat
  BY PaidAssumption
<1>2. spent \in SpentType
  BY DEF PaidTypeOK, SpentType
<1>3. CASE Changing
  BY <1>1, <1>2, <1>3 DEF SpentType, Changing
<1>4. CASE Failure
  BY <1>1, <1>2, <1>4 DEF SpentType, Failure
<1> QED BY <1>2, <1>3, <1>4

\* What a pass of the sync may be set to: at rest, or asking the gateway.
LEMMA FreshSyncTypes ==
    /\ IdleSync \in SyncType /\ IdleSync.pc = "idle"
    /\ Paging \in SyncType /\ Paging.pc = "page" /\ Paging.rows = {}
    /\ Paging.last = 0 /\ Paging.pages = 0
    /\ NoRead \in ReadType
<1>1. MaxPages \in Nat
  BY PaidAssumption
<1>2. 0 \in 0..MaxPages
  BY <1>1
<1> QED BY <1>2 DEF IdleSync, Paging, NoRead, SyncType, ReadType

\* The steps that end or restart a pass set types right.
LEMMA RestartedPassTypes ==
    ASSUME PaidTypeOK, IdleAgain \/ (sync' = Paging /\ Reading)
    PROVE  sync' \in SyncType /\ read' \in ReadType /\ sync'.pc # "replace"
<1>1. CASE IdleAgain
  BY <1>1, FreshSyncTypes DEF IdleAgain
<1>2. CASE sync' = Paging /\ Reading
  <2>1. open \in SUBSET Allocation
    BY DEF PaidTypeOK
  <2> QED BY <1>2, <2>1, FreshSyncTypes DEF Reading, ReadType
<1> QED BY <1>1, <1>2

\* EndPaging goes to rest or to a replacement by rows.
LEMMA EndPagingTypes ==
    ASSUME PaidTypeOK, NEW rows \in SUBSET Allocation, NEW honest \in BOOLEAN,
           EndPaging(rows, honest)
    PROVE  /\ sync' \in SyncType /\ read' \in ReadType
           /\ sync'.pc = "replace" => sync'.rows # {}
<1>1. CASE rows = {}
  BY <1>1, RestartedPassTypes DEF EndPaging
<1>2. CASE rows # {}
  <2>1. /\ sync' = [sync EXCEPT !.pc = "replace", !.rows = rows, !.known = TRUE]
        /\ read' = [read EXCEPT !.honest = @ /\ honest]
    BY <1>2 DEF EndPaging
  <2>2. sync' \in SyncType /\ sync'.rows = rows
    BY <2>1 DEF PaidTypeOK, SyncType
  <2>3. (read.honest /\ honest) \in BOOLEAN
    OBVIOUS
  <2>4. read' \in ReadType
    BY <2>1, <2>3 DEF PaidTypeOK, ReadType
  <2> QED BY <1>2, <2>2, <2>4
<1> QED BY <1>1, <1>2

\* Types are kept by a step that leaves everything but the sync's own state alone.
LEMMA SyncKeepsTypes ==
    ASSUME PaidTypeOK, SyncOnly, UNCHANGED <<table, urls>>,
           Failure \/ spent' = spent,
           sync' \in SyncType, read' \in ReadType,
           sync'.pc = "replace" => sync'.rows # {}
    PROVE  PaidTypeOK'
BY SpentKeepsType DEF PaidTypeOK, SyncOnly, worldVars, SyncType, ReadType, SpentType

\* A page of the gateway.
LEMMA GatewayPageTypes == ASSUME IInv, GatewayPage PROVE PaidTypeOK'
<1>1. PICK page \in SUBSET open : IsPage(page, sync.last) /\ TakePage(page)
  BY DEF GatewayPage
<1> DEFINE rows == sync.rows \cup page
<1>2. rows \in SUBSET Allocation /\ page \in SUBSET Allocation
  BY DEF IInv, PaidTypeOK
<1>3. CASE Cardinality(page) < PageSize
  BY <1>1, <1>2, <1>3, EndPagingTypes, SyncKeepsTypes DEF TakePage, GatewayPage, IInv
<1>4. CASE ~(Cardinality(page) < PageSize) /\ sync.pages + 1 = MaxPages
  <2>1. EndPaging(rows, \A a \in open : a <= TopOf(page))
    BY <1>1, <1>4 DEF TakePage
  <2> QED BY <1>2, <2>1, EndPagingTypes, SyncKeepsTypes DEF GatewayPage, IInv
<1>5. CASE ~(Cardinality(page) < PageSize) /\ sync.pages + 1 # MaxPages
  <2>1. Cardinality(page) = PageSize
    <3>1. IsFiniteSet(page)
      BY <1>2, PaidAssumption, FS_Subset
    <3>2. Cardinality(page) \in Nat
      BY <3>1, FS_CardinalityType
    <3> QED BY <1>1, <1>5, <3>2, PaidAssumption DEF IsPage
  <2>2. TopOf(page) \in Nat
    BY <1>2, <2>1, FullPageHasTop, PaidAssumption
  <2>3. sync.pages + 1 \in 0..MaxPages
    BY PaidAssumption DEF IInv, AssemblyOK, PaidTypeOK, WindowOK
  <2>4. /\ sync' = [sync EXCEPT !.rows = rows, !.last = TopOf(page), !.pages = @ + 1]
        /\ read' = read
    BY <1>1, <1>5 DEF TakePage
  <2>5. sync' \in SyncType /\ read' \in ReadType /\ sync'.pc # "replace"
    BY <1>2, <2>2, <2>3, <2>4 DEF IInv, PaidTypeOK, SyncType, ReadType, GatewayPage
  <2> QED BY <2>5, SyncKeepsTypes DEF GatewayPage, IInv
<1> QED BY <1>3, <1>4, <1>5

\* Every step of the sync but a page and the replacement.
LEMMA SyncTypes ==
    ASSUME IInv,
           \/ StartFromNest \/ StartFromGateway \/ NestReady \/ NestRows \/ NestEndpoints
           \/ NestFails \/ NestEndpointsFail \/ GatewayShort \/ GatewayFails
    PROVE  PaidTypeOK'
<1> PaidTypeOK /\ (sync.pc = "endpoints" => sync.rows # {})
  BY DEF IInv, AssemblyOK, WindowOK
<1>1. CASE StartFromNest
  <2>1. sync' \in SyncType /\ read' \in ReadType /\ sync'.pc # "replace"
    BY <1>1, FreshSyncTypes DEF StartFromNest, Reading, SyncType, ReadType, PaidTypeOK, IdleSync
  <2> QED BY <1>1, <2>1, SyncKeepsTypes DEF StartFromNest
<1>2. CASE StartFromGateway
  BY <1>2, RestartedPassTypes, SyncKeepsTypes DEF StartFromGateway
<1>3. CASE (NestReady \/ NestRows \/ NestFails) /\ FallBack
  BY <1>3, RestartedPassTypes, SyncKeepsTypes DEF NestReady, NestRows, NestFails, FallBack
<1>4. CASE NestReady /\ ~FallBack
  <2>1. sync' = [sync EXCEPT !.pc = "rows"] /\ UNCHANGED <<read, table, urls>>
    BY <1>4 DEF NestReady
  <2>2. sync' \in SyncType /\ read' \in ReadType /\ sync'.pc # "replace"
    BY <2>1 DEF PaidTypeOK, SyncType, ReadType
  <2> QED BY <1>4, <2>1, <2>2, SyncKeepsTypes DEF NestReady
<1>5. CASE NestRows /\ ~FallBack
  <2>1. /\ sync' = [sync EXCEPT !.pc = "endpoints", !.rows = nest.view]
        /\ read' = [read EXCEPT !.honest = nest.mode = "following"]
        /\ UNCHANGED <<table, urls>>
    BY <1>5 DEF NestRows
  <2>2. sync' \in SyncType /\ read' \in ReadType /\ sync'.pc # "replace"
    BY <2>1 DEF PaidTypeOK, SyncType, ReadType
  <2> QED BY <1>5, <2>1, <2>2, SyncKeepsTypes DEF NestRows
<1>6. CASE NestEndpoints \/ NestEndpointsFail
  <2>1. PICK known \in BOOLEAN : sync' = [sync EXCEPT !.pc = "replace", !.known = known]
    BY <1>6 DEF NestEndpoints, NestEndpointsFail
  <2>2. sync' \in SyncType /\ sync'.rows # {} /\ read' \in ReadType
    BY <1>6, <2>1 DEF PaidTypeOK, SyncType, ReadType, NestEndpoints, NestEndpointsFail
  <2> QED BY <1>6, <2>2, SyncKeepsTypes DEF NestEndpoints, NestEndpointsFail
<1>7. CASE GatewayShort
  BY <1>7, EndPagingTypes, SyncKeepsTypes DEF GatewayShort, PaidTypeOK
<1>8. CASE GatewayFails
  BY <1>8, RestartedPassTypes, SyncKeepsTypes DEF GatewayFails
<1>9. CASE NestFails
  BY <1>3, <1>9 DEF NestFails
<1> QED BY <1>1, <1>2, <1>3, <1>4, <1>5, <1>6, <1>7, <1>8, <1>9

\* Every step keeps the types.
LEMMA TypeStep == IInv /\ [Next]_vars => PaidTypeOK'
<1> SUFFICES ASSUME IInv, [Next]_vars PROVE PaidTypeOK'
  OBVIOUS
<1>0. PaidTypeOK /\ spent \in SpentType
  BY DEF IInv, PaidTypeOK, SpentType
<1>1. CASE World
  <2>1. spent' \in SpentType
    BY <1>0, <1>1, SpentKeepsType DEF World, OpenOrClose, FundOrDrain, NestDegrades, NestCatchesUp
  <2>2. ASSUME NEW a \in Allocation, OpenOrClose(a) PROVE PaidTypeOK'
    <3>1. open' \in SUBSET Allocation
      BY <1>0, <2>2 DEF OpenOrClose, PaidTypeOK
    <3>2. nest' \in [mode : NestMode, view : SUBSET Allocation] /\ read' \in ReadType
      BY <1>0, <2>2, <3>1 DEF OpenOrClose, PaidTypeOK, ReadType
    <3> QED BY <1>0, <2>1, <2>2, <3>1, <3>2 DEF OpenOrClose, PaidTypeOK, ReadType, SpentType
  <2>3. ASSUME NEW i \in Indexer, FundOrDrain(i) PROVE PaidTypeOK'
    BY <1>0, <2>1, <2>3 DEF FundOrDrain, PaidTypeOK, SpentType, syncVars
  <2>4. CASE NestDegrades
    BY <1>0, <2>1, <2>4 DEF NestDegrades, PaidTypeOK, SpentType, syncVars, NestMode
  <2>5. CASE NestCatchesUp
    BY <1>0, <2>1, <2>5 DEF NestCatchesUp, PaidTypeOK, SpentType, syncVars, NestMode
  <2> QED BY <1>1, <2>2, <2>3, <2>4, <2>5 DEF World
<1>2. CASE ReadTip
  BY <1>0, <1>2 DEF ReadTip, PaidTypeOK, worldVars, syncVars
<1>3. CASE \/ StartFromNest \/ StartFromGateway \/ NestReady \/ NestRows \/ NestEndpoints
           \/ NestFails \/ NestEndpointsFail \/ GatewayShort \/ GatewayFails
  BY <1>3, SyncTypes
<1>4. CASE GatewayPage
  BY <1>4, GatewayPageTypes
<1>5. CASE Replace
  <2>1. sync' \in SyncType /\ read' \in ReadType /\ sync'.pc # "replace"
    BY <1>0, <1>5, RestartedPassTypes DEF Replace
  <2>2. table' \subseteq Allocation /\ urls' \subseteq table'
    BY <1>0, <1>5 DEF Replace, PaidTypeOK, WithUrl
  <2> QED BY <1>0, <1>5, <2>1, <2>2 DEF Replace, SyncOnly, worldVars, PaidTypeOK, SyncType, ReadType
<1>6. CASE ReplaceFails
  BY <1>0, <1>6, RestartedPassTypes, SyncKeepsTypes DEF ReplaceFails, FallBack
<1>7. CASE EscrowStart \/ EscrowStops \/ \E i \in Indexer : EscrowRead(i) \/ EscrowReadFails(i)
  <2>1. spent' \in SpentType
    BY <1>0, <1>7, SpentKeepsType DEF EscrowStart, EscrowStops, EscrowRead, EscrowReadFails
  <2>2. balance' \in [Indexer -> {"none", "zero", "positive"}]
    BY <1>0, <1>7 DEF EscrowStart, EscrowStops, EscrowRead, EscrowReadFails, PaidTypeOK
  <2>3. escrow' \subseteq Indexer
    BY <1>0, <1>7, PaidAssumption DEF EscrowStart, EscrowStops, EscrowRead, EscrowReadFails, PaidTypeOK
  <2> QED BY <1>0, <1>7, <2>1, <2>2, <2>3
          DEF EscrowStart, EscrowStops, EscrowRead, EscrowReadFails, EscrowOnly, worldVars,
              syncVars, PaidTypeOK, SpentType
<1>8. CASE RoundLoop
  <2>1. round' \subseteq Allocation
    BY <1>0, <1>8 DEF RoundLoop, StartRound, Bill, Targets, Payable, PaidTypeOK
  <2> QED BY <1>0, <1>8, <2>1
          DEF RoundLoop, StartRound, Bill, RoundOnly, worldVars, syncVars, PaidTypeOK
<1>9. CASE Restart
  <2>1. sync' \in SyncType /\ read' \in ReadType /\ sync'.pc # "replace"
    BY <1>0, <1>9, RestartedPassTypes DEF Restart
  <2>2. spent' \in SpentType
    BY <1>0, <1>9, PaidAssumption DEF Restart, SpentType
  <2> QED BY <1>0, <1>9, <2>1, <2>2 DEF Restart, worldVars, PaidTypeOK, SyncType, ReadType, SpentType
<1>10. CASE UNCHANGED vars
  BY <1>0, <1>10 DEF vars, PaidTypeOK
<1> QED BY <1>1, <1>2, <1>3, <1>4, <1>5, <1>6, <1>7, <1>8, <1>9, <1>10
        DEF Next, SyncLoop, EscrowLoop, Faults

-----------------------------------------------------------------------------
(* The answer being assembled.                                             *)

\* A pass that ends, or starts anew at the gateway, has assembled nothing.
LEMMA RestartedPassAssembly ==
    ASSUME IInv, IdleAgain \/ (sync' = Paging /\ Reading), UNCHANGED <<open, nest>>
    PROVE  AssemblyOK'
<1>0. 0 < MaxPages
  BY PaidAssumption
<1>1. CASE IdleAgain
  BY <1>0, <1>1 DEF IInv, AssemblyOK, WindowOK, PagesOK, AnswerOK, IdleAgain, IdleSync, NoRead
<1>2. CASE sync' = Paging /\ Reading
  <2>1. \A a \in open : ~(a <= 0)
    BY PaidAssumption DEF IInv, PaidTypeOK
  <2>2. /\ sync'.pc = "page" /\ sync'.rows = {} /\ sync'.last = 0 /\ sync'.pages = 0
        /\ read'.on /\ read'.ever = open /\ read'.always = open
    BY <1>2, FreshSyncTypes DEF Reading
  <2>3. WindowOK'
    BY <1>0, <2>2 DEF IInv, AssemblyOK, WindowOK
  <2>4. PagesOK'
    BY <2>1, <2>2 DEF PagesOK
  <2>5. AnswerOK'
    BY <2>2 DEF AnswerOK
  <2> QED BY <2>3, <2>4, <2>5 DEF AssemblyOK
<1> QED BY <1>1, <1>2

\* The paging ends in an answer that is whole if it says so.
LEMMA EndPagingAssembly ==
    ASSUME IInv, sync.pc = "page", UNCHANGED <<open, nest>>,
           NEW rows \in SUBSET Allocation, NEW honest \in BOOLEAN,
           rows \subseteq read.ever, honest => read.always \subseteq rows,
           EndPaging(rows, honest)
    PROVE  AssemblyOK'
<1>1. CASE rows = {}
  BY <1>1, RestartedPassAssembly DEF EndPaging
<1>2. CASE rows # {}
  <2>1. /\ sync'.pc = "replace" /\ sync'.rows = rows /\ sync'.pages = sync.pages
        /\ read'.on = read.on /\ read'.ever = read.ever /\ read'.always = read.always
        /\ read'.honest = (read.honest /\ honest)
    <3>1. /\ sync' = [sync EXCEPT !.pc = "replace", !.rows = rows, !.known = TRUE]
          /\ read' = [read EXCEPT !.honest = @ /\ honest]
      BY <1>2 DEF EndPaging
    <3>2. sync \in SyncType /\ read \in ReadType
      BY DEF IInv, PaidTypeOK, SyncType, ReadType
    <3> QED BY <3>1, <3>2 DEF SyncType, ReadType
  <2>2. WindowOK'
    BY <2>1 DEF IInv, AssemblyOK, WindowOK
  <2>3. PagesOK' /\ AnswerOK'
    BY <2>1 DEF PagesOK, AnswerOK
  <2> QED BY <2>2, <2>3 DEF AssemblyOK
<1> QED BY <1>1, <1>2

\* The rows of a page and of those before it leave nothing out up to its last row
\* and, when the page is short, nothing at all.
LEMMA GatewayPageAssembly == ASSUME IInv, GatewayPage PROVE AssemblyOK'
<1>1. PICK page \in SUBSET open : IsPage(page, sync.last) /\ TakePage(page)
  BY DEF GatewayPage
<1> DEFINE rows == sync.rows \cup page
<1>2. /\ rows \in SUBSET Allocation /\ page \in SUBSET Allocation
      /\ sync.pc = "page" /\ UNCHANGED <<open, nest>>
      /\ sync.last \in Nat /\ read.on
  BY DEF IInv, AssemblyOK, WindowOK, PaidTypeOK, GatewayPage, SyncOnly, worldVars
<1>3. rows \subseteq read.ever /\ read.always \subseteq open
  BY <1>2 DEF IInv, AssemblyOK, WindowOK, PagesOK
<1>4. \A a \in read.always : a \in Nat /\ (a <= sync.last => a \in rows)
  BY <1>2, <1>3, PaidAssumption DEF IInv, AssemblyOK, PagesOK, PaidTypeOK
<1>5. CASE Cardinality(page) < PageSize
  <2>1. Cardinality(page) # PageSize
    BY <1>5, PaidAssumption
  <2>2. page = {a \in open : a > sync.last}
    BY <1>1, <2>1 DEF IsPage
  <2>3. read.always \subseteq rows
    BY <1>2, <1>3, <1>4, <2>2
  <2>4. EndPaging(rows, TRUE)
    BY <1>1, <1>5 DEF TakePage
  <2> QED BY <1>2, <1>3, <2>3, <2>4, EndPagingAssembly
<1>6. CASE ~(Cardinality(page) < PageSize)
  <2>1. Cardinality(page) = PageSize
    <3>1. Cardinality(page) \in Nat
      BY <1>2, PaidAssumption, FS_Subset, FS_CardinalityType
    <3> QED BY <1>1, <1>6, <3>1, PaidAssumption DEF IsPage
  <2> DEFINE top == TopOf(page)
  <2>2. top \in page /\ top \in Nat
    BY <1>2, <2>1, FullPageHasTop, PaidAssumption
  <2> HIDE DEF top
  <2>3. ASSUME NEW a \in read.always, a <= top PROVE a \in rows
    <3>1. CASE a <= sync.last
      BY <1>4, <3>1
    <3>2. CASE a > sync.last
      <4>1. a \in {b \in open : b > sync.last} /\ a \in Nat
        BY <1>3, <1>4, <3>2
      <4>2. a = top \/ a < top
        BY <2>2, <2>3, <4>1
      <4> QED BY <1>1, <2>2, <4>1, <4>2 DEF IsPage
    <3> QED BY <1>2, <1>4, <3>1, <3>2
  <2>4. CASE sync.pages + 1 = MaxPages
    <3>1. EndPaging(rows, \A a \in open : a <= top)
      BY <1>1, <1>6, <2>4 DEF TakePage, top
    <3>2. (\A a \in open : a <= top) => read.always \subseteq rows
      BY <1>3, <2>3
    <3> QED BY <1>2, <1>3, <3>1, <3>2, EndPagingAssembly
  <2>5. CASE sync.pages + 1 # MaxPages
    <3>1. /\ sync' = [sync EXCEPT !.rows = rows, !.last = top, !.pages = @ + 1]
          /\ read' = read
      BY <1>1, <1>6, <2>5 DEF TakePage, top
    <3>2. /\ sync'.pc = "page" /\ sync'.rows = rows /\ sync'.last = top
          /\ sync'.pages = sync.pages + 1
      BY <1>2, <3>1 DEF IInv, PaidTypeOK
    <3>3. WindowOK'
      BY <1>2, <2>5, <3>1, <3>2, PaidAssumption DEF IInv, AssemblyOK, WindowOK, PaidTypeOK
    <3>4. PagesOK'
      BY <1>3, <2>3, <3>1, <3>2 DEF PagesOK
    <3> QED BY <3>2, <3>3, <3>4 DEF AssemblyOK, AnswerOK
  <2> QED BY <2>4, <2>5
<1> QED BY <1>5, <1>6

\* Every step keeps what is assembled true of the read.
LEMMA AssemblyStep == IInv /\ [Next]_vars => AssemblyOK'
<1> SUFFICES ASSUME IInv, [Next]_vars PROVE AssemblyOK'
  OBVIOUS
<1> USE DEF AssemblyOK
<1>1. ASSUME NEW a \in Allocation, OpenOrClose(a) PROVE AssemblyOK'
  <2>1. WindowOK'
    BY <1>1 DEF OpenOrClose, IInv, WindowOK, PaidTypeOK
  <2>2. PagesOK' /\ AnswerOK'
    BY <1>1 DEF OpenOrClose, IInv, PagesOK, AnswerOK, PaidTypeOK
  <2> QED BY <2>1, <2>2
<1>2. CASE NestDegrades \/ NestCatchesUp
  BY <1>2 DEF NestDegrades, NestCatchesUp, syncVars, IInv, WindowOK, PagesOK, AnswerOK, PaidTypeOK
<1>3. CASE UNCHANGED <<open, nest, sync, read>>
  BY <1>3 DEF IInv, WindowOK, PagesOK, AnswerOK
<1>4. CASE StartFromNest
  <2>1. /\ sync'.pc = "ready" /\ sync'.pages = 0 /\ UNCHANGED <<open, nest>>
        /\ read'.on /\ read'.ever = open /\ read'.always = open /\ read'.honest
    BY <1>4 DEF StartFromNest, IdleSync, Reading, SyncOnly, worldVars
  <2> QED BY <2>1, PaidAssumption DEF IInv, WindowOK, PagesOK, AnswerOK
<1>5. CASE /\ StartFromGateway \/ NestReady \/ NestRows \/ NestFails \/ ReplaceFails
           /\ sync' = Paging /\ Reading
  BY <1>5, RestartedPassAssembly
     DEF StartFromGateway, NestReady, NestRows, NestFails, ReplaceFails, SyncOnly, worldVars
<1>6. CASE NestReady /\ ~FallBack
  <2>1. sync' = [sync EXCEPT !.pc = "rows"] /\ read' = read /\ UNCHANGED <<open, nest>>
    BY <1>6 DEF NestReady, SyncOnly, worldVars
  <2>2. sync'.pc = "rows" /\ sync'.pages = sync.pages /\ sync.pc = "ready"
    BY <1>6, <2>1 DEF NestReady, IInv, PaidTypeOK
  <2> QED BY <2>1, <2>2 DEF IInv, WindowOK, PagesOK, AnswerOK
<1>7. CASE NestRows /\ ~FallBack
  <2>1. /\ nest.view # {} /\ sync.pc = "rows"
        /\ sync' = [sync EXCEPT !.pc = "endpoints", !.rows = nest.view]
        /\ read' = [read EXCEPT !.honest = nest.mode = "following"]
        /\ UNCHANGED <<open, nest>>
    BY <1>7 DEF NestRows, SyncOnly, worldVars
  <2>2. /\ sync'.pc = "endpoints" /\ sync'.pages = sync.pages /\ sync'.rows = nest.view
        /\ read'.on = read.on /\ read'.ever = read.ever /\ read'.always = read.always
        /\ read'.honest = (nest.mode = "following")
    BY <2>1 DEF IInv, PaidTypeOK
  <2> QED BY <2>1, <2>2 DEF IInv, WindowOK, PagesOK, AnswerOK
<1>8. CASE NestEndpoints \/ NestEndpointsFail
  <2>1. PICK known \in BOOLEAN : sync' = [sync EXCEPT !.pc = "replace", !.known = known]
    BY <1>8 DEF NestEndpoints, NestEndpointsFail
  <2>2. sync.pc = "endpoints" /\ read' = read /\ UNCHANGED <<open, nest>>
    BY <1>8 DEF NestEndpoints, NestEndpointsFail, SyncOnly, worldVars
  <2>3. sync'.pc = "replace" /\ sync'.rows = sync.rows /\ sync'.pages = sync.pages
    BY <2>1 DEF IInv, PaidTypeOK
  <2> QED BY <2>2, <2>3 DEF IInv, WindowOK, PagesOK, AnswerOK
<1>9. CASE GatewayPage
  BY <1>9, GatewayPageAssembly
<1>10. CASE GatewayShort
  <2>1. /\ sync.pc = "page" /\ UNCHANGED <<open, nest>> /\ EndPaging(sync.rows, FALSE)
        /\ sync.rows \in SUBSET Allocation /\ sync.rows \subseteq read.ever
    BY <1>10 DEF GatewayShort, SyncOnly, worldVars, IInv, PaidTypeOK, PagesOK
  <2> QED BY <2>1, EndPagingAssembly DEF AssemblyOK
<1>11. CASE (GatewayFails \/ Replace \/ ReplaceFails \/ Restart) /\ IdleAgain
  BY <1>11, RestartedPassAssembly
     DEF GatewayFails, Replace, ReplaceFails, Restart, SyncOnly, worldVars
<1>12. CASE \/ \E i \in Indexer : FundOrDrain(i) \/ EscrowRead(i) \/ EscrowReadFails(i)
            \/ ReadTip \/ EscrowStart \/ EscrowStops \/ RoundLoop \/ UNCHANGED vars
  BY <1>3, <1>12
     DEF FundOrDrain, EscrowRead, EscrowReadFails, ReadTip, EscrowStart, EscrowStops, RoundLoop,
         StartRound, Bill, EscrowOnly, RoundOnly, worldVars, syncVars, vars
<1>13. CASE NestFails \/ StartFromGateway
  BY <1>5, <1>13 DEF NestFails, StartFromGateway, FallBack
<1>14. CASE NestReady
  BY <1>5, <1>6, <1>14 DEF FallBack
<1>15. CASE NestRows
  BY <1>5, <1>7, <1>15 DEF FallBack
<1>16. CASE GatewayFails \/ Replace \/ Restart
  BY <1>11, <1>16 DEF GatewayFails, Replace, Restart
<1>17. CASE ReplaceFails
  BY <1>5, <1>11, <1>17 DEF ReplaceFails, FallBack
<1> QED BY <1>1, <1>2, <1>4, <1>8, <1>9, <1>10, <1>12, <1>13, <1>14, <1>15, <1>16, <1>17
        DEF Next, World, SyncLoop, EscrowLoop, Faults

\* The invariant holds at the start.
LEMMA InitIInv == Init => IInv
<1> SUFFICES ASSUME Init PROVE IInv
  OBVIOUS
<1>1. /\ IdleSync \in SyncType /\ IdleSync.pc = "idle" /\ IdleSync.pages < MaxPages
      /\ NoRead \in ReadType /\ ~NoRead.on
  BY FreshSyncTypes, PaidAssumption DEF IdleSync, NoRead
<1>2. spent \in SpentType
  BY PaidAssumption DEF Init, SpentType
<1>3. PaidTypeOK
  BY <1>1, <1>2, PaidAssumption DEF Init, PaidTypeOK, NestMode, SyncType, ReadType, SpentType
<1>4. AssemblyOK
  BY <1>1 DEF Init, AssemblyOK, WindowOK, PagesOK, AnswerOK
<1> QED BY <1>3, <1>4 DEF IInv

\* The invariant holds always.
LEMMA PaidInvariant == Spec => []IInv
<1>1. IInv /\ [Next]_vars => IInv'
  BY TypeStep, AssemblyStep DEF IInv
<1> QED BY <1>1, InitIInv, PTL DEF Spec

-----------------------------------------------------------------------------
(* RegularTable.                                                           *)

\* A pass that ends gives its read up; one that restarts begins another.
LEMMA RestartedPassIsRegular ==
    ASSUME IdleAgain \/ Reading, UNCHANGED <<open, table>>
    PROVE  [Regular!Next]_Regular!vars
BY DEF IdleAgain, Reading, NoRead, Regular!Next, Regular!GiveUp, Regular!Begin,
       Regular!NoRead, Regular!FreshRead

\* What the source leaves out, or answers of an older state, spoils the read.
LEMMA SpoiltReadIsRegular ==
    ASSUME read.on, read \in ReadType, NEW honest \in BOOLEAN,
           read' = [read EXCEPT !.honest = honest],
           honest => read.honest,
           UNCHANGED <<open, table>>
    PROVE  [Regular!Next]_Regular!vars
<1>1. CASE honest
  <2>1. read' = read
    BY <1>1 DEF ReadType
  <2> QED BY <2>1 DEF Regular!vars
<1>2. CASE ~honest
  BY <1>2 DEF Regular!Next, Regular!Spoil
<1> QED BY <1>1, <1>2

\* The end of the paging gives the read up or says whether it was whole.
LEMMA EndPagingIsRegular ==
    ASSUME IInv, sync.pc = "page", NEW rows, NEW honest \in BOOLEAN, EndPaging(rows, honest),
           UNCHANGED <<open, table>>
    PROVE  [Regular!Next]_Regular!vars
<1>1. CASE rows = {}
  BY <1>1, RestartedPassIsRegular DEF EndPaging
<1>2. CASE rows # {}
  <2>1. read.on /\ read \in ReadType /\ read.honest \in BOOLEAN
    BY DEF IInv, AssemblyOK, WindowOK, PaidTypeOK, ReadType
  <2>2. (read.honest /\ honest) \in BOOLEAN
    BY <2>1
  <2>3. read' = [read EXCEPT !.honest = read.honest /\ honest]
    BY <1>2 DEF EndPaging
  <2> QED BY <2>1, <2>2, <2>3, SpoiltReadIsRegular
<1> QED BY <1>1, <1>2

\* Every step of the program is a step of RegularTable, or leaves it alone.
LEMMA StepIsRegular == IInv /\ [Next]_vars => [Regular!Next]_Regular!vars
<1> SUFFICES ASSUME IInv, [Next]_vars PROVE [Regular!Next]_Regular!vars
  OBVIOUS
<1>1. ASSUME NEW a \in Allocation, OpenOrClose(a) PROVE [Regular!Next]_Regular!vars
  <2>1. open' \in SUBSET Allocation
    BY <1>1 DEF OpenOrClose, IInv, PaidTypeOK
  <2> QED BY <1>1, <2>1 DEF OpenOrClose, Regular!Next, Regular!Change
<1>2. CASE UNCHANGED <<open, table, read>>
  BY <1>2 DEF Regular!vars
<1>3. CASE (IdleAgain \/ Reading) /\ UNCHANGED <<open, table>>
  BY <1>3, RestartedPassIsRegular
<1>4. CASE StartFromNest \/ StartFromGateway
  BY <1>3, <1>4 DEF StartFromNest, StartFromGateway, SyncOnly, worldVars
<1>5. CASE NestReady \/ NestFails
  BY <1>2, <1>3, <1>5 DEF NestReady, NestFails, FallBack, SyncOnly, worldVars
<1>6. CASE NestRows
  <2>1. CASE FallBack
    BY <1>3, <1>6, <2>1 DEF NestRows, FallBack, SyncOnly, worldVars
  <2>2. CASE ~FallBack
    <3>1. /\ sync.pc = "rows" /\ read' = [read EXCEPT !.honest = nest.mode = "following"]
          /\ UNCHANGED <<open, table>>
      BY <1>6, <2>2 DEF NestRows, SyncOnly, worldVars
    <3>2. read.on /\ read.honest /\ read \in ReadType
      BY <3>1 DEF IInv, AssemblyOK, WindowOK, PaidTypeOK, ReadType
    <3>3. (nest.mode = "following") \in BOOLEAN
      OBVIOUS
    <3> QED BY <3>1, <3>2, <3>3, SpoiltReadIsRegular
  <2> QED BY <2>1, <2>2
<1>7. CASE NestEndpoints \/ NestEndpointsFail
  BY <1>2, <1>7 DEF NestEndpoints, NestEndpointsFail, SyncOnly, worldVars
<1>8. CASE GatewayPage
  <2>1. PICK page \in SUBSET open : TakePage(page)
    BY <1>8 DEF GatewayPage
  <2>2. sync.pc = "page" /\ UNCHANGED <<open, table>>
    BY <1>8 DEF GatewayPage, SyncOnly, worldVars
  <2>3. CASE UNCHANGED read
    BY <1>2, <2>2, <2>3
  <2>4. CASE EndPaging(sync.rows \cup page, TRUE)
    BY <2>2, <2>4, EndPagingIsRegular
  <2>5. CASE EndPaging(sync.rows \cup page, \A a \in open : a <= TopOf(page))
    BY <2>2, <2>5, EndPagingIsRegular
  <2> QED BY <2>1, <2>3, <2>4, <2>5 DEF TakePage
<1>9. CASE GatewayShort
  BY <1>9, EndPagingIsRegular DEF GatewayShort, SyncOnly, worldVars
<1>10. CASE GatewayFails \/ Restart
  BY <1>3, <1>10 DEF GatewayFails, Restart, SyncOnly, worldVars
<1>11. CASE Replace
  <2>1. /\ sync.pc = "replace" /\ table' = sync.rows /\ read' = NoRead /\ UNCHANGED open
    BY <1>11 DEF Replace, IdleAgain, SyncOnly, worldVars
  <2>2. read.on /\ table' \in (SUBSET Allocation) \ {{}}
    <3>1. read.on
      BY <2>1 DEF IInv, AssemblyOK, WindowOK
    <3>2. sync.rows # {} /\ sync.rows \in SUBSET Allocation
      BY <2>1 DEF IInv, PaidTypeOK
    <3> QED BY <2>1, <3>1, <3>2
  <2>3. read.honest => read.always \subseteq table' /\ table' \subseteq read.ever
    BY <2>1 DEF IInv, AssemblyOK, AnswerOK
  <2> QED BY <2>1, <2>2, <2>3 DEF Regular!Next, Regular!Replace, NoRead, Regular!NoRead
<1>12. CASE ReplaceFails
  BY <1>3, <1>12 DEF ReplaceFails, FallBack, IdleAgain, SyncOnly, worldVars
<1>13. CASE \/ \E i \in Indexer : FundOrDrain(i) \/ EscrowRead(i) \/ EscrowReadFails(i)
            \/ NestDegrades \/ NestCatchesUp \/ ReadTip \/ EscrowStart \/ EscrowStops
            \/ RoundLoop \/ UNCHANGED vars
  BY <1>2, <1>13
     DEF FundOrDrain, EscrowRead, EscrowReadFails, NestDegrades, NestCatchesUp, ReadTip,
         EscrowStart, EscrowStops, RoundLoop, StartRound, Bill, EscrowOnly, RoundOnly,
         worldVars, syncVars, vars
<1> QED BY <1>1, <1>4, <1>5, <1>6, <1>7, <1>8, <1>9, <1>10, <1>11, <1>12, <1>13
        DEF Next, World, SyncLoop, EscrowLoop, Faults

-----------------------------------------------------------------------------

\* Types of the loops that keep the payable targets, for every page size.
THEOREM PaidTypes == Spec => []PaidTypeOK
<1>1. IInv => PaidTypeOK
  BY DEF IInv
<1> QED BY <1>1, PaidInvariant, PTL

\* The allocation sync implements RegularTable: a reader of active_allocation sees
\* a whole answer of the nest or of the gateway, however the pages and the changes
\* of the chain interleave and whatever fails between them.
THEOREM SyncIsRegular == Spec => TableIsRegular
<1>1. Init => Regular!Init
  BY PaidAssumption DEF Init, NoRead, Regular!Init, Regular!NoRead
<1> QED BY <1>1, StepIsRegular, PaidInvariant, PTL DEF Spec, TableIsRegular, Regular!Spec

\* No operator the configuration excludes is billed, though the tables may still
\* hold it from before the exclusion.
THEOREM ExclusionHolds == Spec => []ExcludedNeverBilled
<1>1. Init => ExcludedNeverBilled
  BY DEF Init, ExcludedNeverBilled
<1>2. ExcludedNeverBilled /\ [Next]_vars => ExcludedNeverBilled'
  <2> SUFFICES ASSUME ExcludedNeverBilled, [Next]_vars PROVE ExcludedNeverBilled'
    OBVIOUS
  <2>1. CASE StartRound
    <3>1. round' \subseteq Payable /\ config' = config
      BY <2>1 DEF StartRound, Targets, RoundOnly
    <3> QED BY <3>1 DEF Payable, ExcludedNeverBilled
  <2>2. CASE \E a \in Allocation : Bill(a)
    BY <2>2 DEF Bill, RoundOnly, ExcludedNeverBilled
  <2>3. CASE Restart
    BY <2>3 DEF Restart, ExcludedNeverBilled
  <2>4. CASE UNCHANGED <<config, round>>
    BY <2>4 DEF ExcludedNeverBilled
  <2>5. CASE World \/ ReadTip
    BY <2>4, <2>5
       DEF World, OpenOrClose, FundOrDrain, NestDegrades, NestCatchesUp, ReadTip
  <2>6. CASE \/ SyncLoop \/ NestFails \/ NestEndpointsFail
             \/ GatewayShort \/ GatewayFails \/ ReplaceFails
    BY <2>4, <2>6
       DEF SyncLoop, StartFromNest, StartFromGateway, NestReady, NestRows, NestEndpoints,
           GatewayPage, Replace, NestFails, NestEndpointsFail, GatewayShort, GatewayFails,
           ReplaceFails, SyncOnly
  <2>7. CASE EscrowLoop \/ EscrowStops \/ \E i \in Indexer : EscrowReadFails(i)
    BY <2>4, <2>7
       DEF EscrowLoop, EscrowStart, EscrowRead, EscrowReadFails, EscrowStops, EscrowOnly
  <2>8. CASE UNCHANGED vars
    BY <2>4, <2>8 DEF vars
  <2> QED BY <2>1, <2>2, <2>3, <2>5, <2>6, <2>7, <2>8 DEF Next, RoundLoop, Faults
<1> QED BY <1>1, <1>2, PTL DEF Spec

\* A row has a URL only if its operator is registered.
UrlsOK == urls \subseteq WithUrl(Allocation)

\* Only Replace sets URLs.
LEMMA UrlsInvariant == Spec => []UrlsOK
<1>1. Init => UrlsOK
  BY DEF Init, UrlsOK
<1>2. IInv /\ UrlsOK /\ [Next]_vars => UrlsOK'
  <2> SUFFICES ASSUME IInv, UrlsOK, [Next]_vars PROVE UrlsOK'
    OBVIOUS
  <2>1. CASE Replace
    BY <2>1 DEF Replace, UrlsOK, WithUrl, IInv, PaidTypeOK
  <2>2. CASE UNCHANGED urls
    BY <2>2 DEF UrlsOK, WithUrl
  <2>3. CASE World \/ ReadTip
    BY <2>2, <2>3
       DEF World, OpenOrClose, FundOrDrain, NestDegrades, NestCatchesUp, ReadTip, syncVars
  <2>4. CASE StartFromNest \/ StartFromGateway \/ NestReady \/ NestRows \/ NestEndpoints \/ GatewayPage
    BY <2>2, <2>4
       DEF StartFromNest, StartFromGateway, NestReady, NestRows, NestEndpoints, GatewayPage, FallBack
  <2>5. CASE EscrowLoop \/ RoundLoop
    BY <2>2, <2>5
       DEF EscrowLoop, EscrowStart, EscrowRead, EscrowOnly, RoundLoop, StartRound, Bill, RoundOnly,
           syncVars
  <2>6. CASE Faults
    BY <2>2, <2>6
       DEF Faults, NestFails, NestEndpointsFail, GatewayShort, GatewayFails, ReplaceFails, FallBack,
           EscrowReadFails, EscrowStops, EscrowOnly, Restart, syncVars
  <2>7. CASE UNCHANGED vars
    BY <2>2, <2>7 DEF vars
  <2> QED BY <2>1, <2>3, <2>4, <2>5, <2>6, <2>7 DEF Next, SyncLoop
<1> QED BY <1>1, <1>2, PaidInvariant, PTL DEF Spec

\* sync_from_nest and sync_once: a whole, current answer with its endpoints never
\* takes away a target whose allocation was open all through the read.
THEOREM RefreshesKeepTargets == Spec => RefreshKeepsTargets
<1>1. /\ IInv /\ UrlsOK /\ [Next]_vars
      => [ Replace /\ read.honest /\ sync.known
           => \A a \in Payable \cap read.always : a \in Payable' ]_vars
  <2> SUFFICES ASSUME IInv, UrlsOK, Replace, read.honest, sync.known,
                      NEW a \in Payable \cap read.always
               PROVE  a \in Payable'
    OBVIOUS
  <2>1. a \in sync.rows
    BY DEF IInv, AssemblyOK, AnswerOK, Replace
  <2>2. a \in urls /\ OperatorOf[a] \in Registered
    BY DEF Payable, UrlsOK, WithUrl
  <2>3. a \in urls'
    BY <2>1, <2>2 DEF Replace, WithUrl
  <2> QED BY <2>3 DEF Payable, Replace, SyncOnly
<1> QED BY <1>1, PaidInvariant, UrlsInvariant, PTL DEF Spec, RefreshKeepsTargets

-----------------------------------------------------------------------------
(* What stays right.  Once the tables say of an allocation what the chain  *)
(* says, they go on saying it for as long as the chain does, through       *)
(* failures, restarts and changes of everything else.  Only a refresh from *)
(* a short or old answer, or without the endpoints, can undo it.           *)

\* What the tables should say of allocation a.
TargetRight(a) ==
    /\ a \in urls <=> a \in WithUrl(open)
    /\ balance[OperatorOf[a]] = IF OperatorOf[a] \in funded THEN "positive" ELSE "zero"

\* The read under way saw a open all the while or not at all.
ReadRight(a) ==
    read.on => /\ a \in read.always <=> a \in open
               /\ a \in read.ever <=> a \in open

\* A step that leaves a and the funds of its operator as they are, and stores no
\* answer but a whole and current one with its endpoints.
TargetRests(a) ==
    /\ a \in open' <=> a \in open
    /\ OperatorOf[a] \in funded' <=> OperatorOf[a] \in funded
    /\ Replace => read.honest /\ sync.known

\* URLs are set by refreshes, balances by the escrow sync.
LEMMA WhoWritesTargets ==
    ASSUME [Next]_vars
    PROVE  /\ Replace \/ UNCHANGED urls
           /\ (\E i \in Indexer : EscrowRead(i)) \/ UNCHANGED balance
<1>1. CASE World \/ ReadTip \/ UNCHANGED vars
  BY <1>1
     DEF World, OpenOrClose, FundOrDrain, NestDegrades, NestCatchesUp, ReadTip, syncVars, vars
<1>2. CASE SyncLoop
  BY <1>2
     DEF SyncLoop, StartFromNest, StartFromGateway, NestReady, NestRows, NestEndpoints,
         GatewayPage, Replace, FallBack, SyncOnly
<1>3. CASE EscrowLoop \/ RoundLoop
  BY <1>3
     DEF EscrowLoop, EscrowStart, EscrowRead, EscrowOnly, RoundLoop, StartRound, Bill, RoundOnly,
         syncVars
<1>4. CASE Faults
  BY <1>4
     DEF Faults, NestFails, NestEndpointsFail, GatewayShort, GatewayFails, ReplaceFails, FallBack,
         EscrowReadFails, EscrowStops, EscrowOnly, SyncOnly, Restart, syncVars
<1> QED BY <1>1, <1>2, <1>3, <1>4 DEF Next

\* As the table is regular, a read of a source in which a rests sees it as it is.
LEMMA ReadStaysRight ==
    ASSUME IInv, [Next]_vars, NEW a \in Allocation, ReadRight(a), a \in open' <=> a \in open
    PROVE  ReadRight(a)'
<1>0. read \in ReadType /\ [Regular!Next]_Regular!vars
  BY StepIsRegular DEF IInv, PaidTypeOK, ReadType
<1>1. CASE Regular!Change
  BY <1>0, <1>1 DEF Regular!Change, ReadRight, ReadType
<1>2. CASE Regular!Begin
  BY <1>2 DEF Regular!Begin, Regular!FreshRead, ReadRight
<1>3. CASE Regular!Spoil
  BY <1>0, <1>3 DEF Regular!Spoil, ReadRight, ReadType
<1>4. CASE Regular!GiveUp \/ Regular!Replace
  BY <1>4 DEF Regular!GiveUp, Regular!Replace, Regular!NoRead, ReadRight
<1>5. CASE UNCHANGED Regular!vars
  BY <1>5 DEF Regular!vars, ReadRight
<1> QED BY <1>0, <1>1, <1>2, <1>3, <1>4, <1>5 DEF Regular!Next

\* A table that is right about a stays so through any step that TargetRests admits.
LEMMA TargetStaysRight ==
    ASSUME IInv, [Next]_vars, NEW a \in Allocation, TargetRight(a), ReadRight(a), TargetRests(a)
    PROVE  TargetRight(a)'
<1>0. PaidTypeOK /\ WindowOK /\ AnswerOK
  BY DEF IInv, AssemblyOK
<1>1. a \in urls' <=> a \in WithUrl(open')
  <2>1. a \in WithUrl(open') <=> a \in WithUrl(open)
    BY DEF TargetRests, WithUrl
  <2>2. CASE Replace
    <3>1. /\ sync.pc = "replace" /\ read.on /\ read.honest /\ sync.known
          /\ urls' = WithUrl(sync.rows)
      BY <1>0, <2>2 DEF Replace, TargetRests, WindowOK
    <3>2. a \in sync.rows <=> a \in open
      BY <1>0, <3>1 DEF AnswerOK, ReadRight
    <3> QED BY <2>1, <3>1, <3>2 DEF WithUrl
  <2>3. CASE UNCHANGED urls
    BY <2>1, <2>3 DEF TargetRight
  <2> QED BY <2>2, <2>3, WhoWritesTargets
<1>2. balance'[OperatorOf[a]] = IF OperatorOf[a] \in funded' THEN "positive" ELSE "zero"
  <2>1. CASE \E i \in Indexer : EscrowRead(i)
    <3>1. PICK i \in Indexer : EscrowRead(i)
      BY <2>1
    <3>2. /\ balance' = [balance EXCEPT ![i] = IF i \in funded THEN "positive" ELSE "zero"]
          /\ funded' = funded
      BY <3>1 DEF EscrowRead, EscrowOnly, worldVars
    <3> QED BY <1>0, <3>2 DEF TargetRight, PaidTypeOK
  <2>2. CASE UNCHANGED balance
    BY <2>2 DEF TargetRight, TargetRests
  <2> QED BY <2>1, <2>2, WhoWritesTargets
<1> QED BY <1>1, <1>2 DEF TargetRight, WithUrl

\* sync_once, run_escrow_sync and payable_targets_for_deployment: an allocation whose
\* rows are right is a target exactly when it is due, and stays so through every
\* failure, restart and change of the others, whatever the new configuration excludes.
THEOREM RightTargetsStay ==
    ASSUME NEW a \in Allocation
    PROVE  Spec => [](TargetRight(a) /\ sync.pc = "idle" /\ [][TargetRests(a)]_vars
                      => [](a \in Payable <=> a \in Due))
<1>1. IInv /\ sync.pc = "idle" => ReadRight(a)
  BY DEF IInv, AssemblyOK, WindowOK, ReadRight
<1>2. IInv /\ [Next]_vars /\ [TargetRests(a)]_vars /\ TargetRight(a) /\ ReadRight(a)
      => TargetRight(a)' /\ ReadRight(a)'
  <2> SUFFICES ASSUME IInv, [Next]_vars, [TargetRests(a)]_vars, TargetRight(a), ReadRight(a)
               PROVE  TargetRight(a)' /\ ReadRight(a)'
    OBVIOUS
  <2>1. CASE TargetRests(a)
    BY <2>1, TargetStaysRight, ReadStaysRight DEF TargetRests
  <2>2. CASE UNCHANGED vars
    BY <2>2 DEF vars, TargetRight, ReadRight, WithUrl
  <2> QED BY <2>1, <2>2
<1>3. TargetRight(a) => (a \in Payable <=> a \in Due)
  BY DEF TargetRight, Payable, Due, WithUrl
<1> QED BY <1>1, <1>2, <1>3, PaidInvariant, PTL DEF Spec
==============================================================================
