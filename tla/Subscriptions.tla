---------------------------- MODULE Subscriptions ----------------------------
(***************************************************************************)
(* Alert subscriptions: the API creates and removes them, the loop of the  *)
(* probe process looks at each every fifteen minutes, posts what changed   *)
(* to the subscriber's webhook and stores the new state after the webhook  *)
(* accepted.                                                               *)
(*                                                                         *)
(* The loop selects the subscriptions once per cycle and works through     *)
(* them while the API may delete any of them; the state row of a deleted   *)
(* one violates its foreign key, which ends the cycle for those after it.  *)
(* A snapshot is fetched once per indexer and cycle.  Fetches, posts and   *)
(* statements may fail, a post may arrive though its answer does not, and  *)
(* the process may restart.                                                *)
(***************************************************************************)
EXTENDS AlertRules, FiniteSets

CONSTANTS
    SubId,          \* the uuids the API may hand out
    Indexer,
    Webhook,
    Discord,        \* the webhooks that are Discord's
    LinesPerKind,   \* DISCORD_LINES_PER_KIND: 5
    Content,        \* what each subscription asks for: indexer, webhook, kinds
    DisableAfter,   \* DISABLE_AFTER_FAILURES: 96
    MaxPerWebhook,  \* 10
    MaxPerIndexer,  \* 100
    World0,         \* the network as it is when the model starts
    MaxChanges,     \* bound on changes of the indexers
    MaxFailures,    \* bound on failed fetches, posts and statements, and restarts
    MaxDeletes      \* bound on deletions

ASSUME ContentAssumption ==
    Content \in [SubId -> [indexer : Indexer, hook : Webhook, kinds : (SUBSET Kind) \ {{}}]]
ASSUME DiscordAssumption ==
    /\ Discord \subseteq Webhook
    /\ LinesPerKind \in Nat \ {0}
    /\ IsFiniteSet(Allocation)
ASSUME NoneAssumption == "none" \notin SubId
ASSUME WorldAssumption == World0 \in [Indexer -> Snapshot]
ASSUME SubscriptionBounds ==
    /\ DisableAfter \in Nat \ {0}
    /\ {MaxPerWebhook, MaxPerIndexer, MaxChanges, MaxFailures, MaxDeletes} \subseteq Nat

Event ==
    ({"poi"} \X Allocation \X Tone) \cup ({"denied"} \X Deployment \X {"0", "1"})
    \cup ({"signal"} \X Deployment \X Level) \cup ({"cuts"} \X Cuts) \cup ({"reo"} \X Reo)

\* "and n more alerts of this kind on the page".
More == {"more"} \X Kind \X Nat

VARIABLES
    world,      \* what the network says of each indexer
    sub,        \* table alert_subscription: "none", "active" or "disabled", and failures
    saved,      \* table alert_subscription_state
    request,    \* the API's progress in create, by the id it will insert
    cycle,      \* the loop's progress in run_cycle
    told,       \* history, read by properties only: the lines each webhook
                \* received since its state was last stored
    bound       \* changes, failures and deletions so far

vars == <<world, sub, saved, request, cycle, told, bound>>

NoSub == [status |-> "none", failures |-> 0]

Sub == [status : {"none", "active", "disabled"}, failures : 0..DisableAfter]

Active == {s \in SubId : sub[s].status = "active"}

\* rows: the selected subscriptions still to do, with the state selected.  snap:
\* the snapshots fetched in this cycle.  id: the subscription in hand.
Idle == [pc |-> "idle", rows |-> Nothing, snap |-> Nothing, id |-> "none"]

Init ==
    /\ world = World0
    /\ sub = [s \in SubId |-> NoSub]
    /\ saved = [s \in SubId |-> NoState]
    /\ request = [s \in SubId |-> "none"]
    /\ cycle = Idle
    /\ told = [s \in SubId |-> {}]
    /\ bound = [changes |-> 0, failures |-> 0, deletes |-> 0]

Extended(f, x, v) == [y \in DOMAIN f \cup {x} |-> IF y = x THEN v ELSE f[y]]

Count(field) == bound' = [bound EXCEPT ![field] = @ + 1]

Failure == bound.failures < MaxFailures /\ Count("failures")

-----------------------------------------------------------------------------
(* The network.                                                            *)

Becomes(i, w) == world' = [world EXCEPT ![i] = w]

\* Time makes a POI more urgent, allocations open and close, deployments are
\* denied and allowed, signal moves, cuts and REO status change.
Change(i) ==
    /\ bound.changes < MaxChanges
    /\ Count("changes")
    /\ LET w == world[i]
       IN  \/ \E a \in DOMAIN w.poi : w.poi[a] < 2 /\ Becomes(i, [w EXCEPT !.poi[a] = @ + 1])
           \/ \E a \in Allocation \ DOMAIN w.poi :
                 Becomes(i, [w EXCEPT !.poi = Extended(@, a, 0)])
           \/ \E a \in DOMAIN w.poi :
                 Becomes(i, [w EXCEPT !.poi = [b \in DOMAIN @ \ {a} |-> @[b]]])
           \/ \E d \in Deployment : Becomes(i, [w EXCEPT !.denied = (@ \cup {d}) \ (@ \cap {d})])
           \/ \E d \in Deployment, l \in Level : Becomes(i, [w EXCEPT !.signal[d] = l])
           \/ \E c \in Cuts : Becomes(i, [w EXCEPT !.cuts = c])
           \/ \E r \in Reo : Becomes(i, [w EXCEPT !.reo = r])
    /\ world' # world
    /\ UNCHANGED <<sub, saved, request, cycle, told>>

-----------------------------------------------------------------------------
(* The API.                                                                *)

\* check_limits, which counts what is inserted.
CheckLimits(s) ==
    /\ request[s] = "none"
    /\ sub[s] = NoSub
    /\ Cardinality({r \in Active : Content[r].hook = Content[s].hook}) < MaxPerWebhook
    /\ Cardinality({r \in Active : Content[r].indexer = Content[s].indexer}) < MaxPerIndexer
    /\ request' = [request EXCEPT ![s] = "testing"]
    /\ UNCHANGED <<world, sub, saved, cycle, told, bound>>

\* The test post landed and the row is inserted.
Insert(s) ==
    /\ request[s] = "testing"
    /\ sub' = [sub EXCEPT ![s] = [status |-> "active", failures |-> 0]]
    /\ request' = [request EXCEPT ![s] = "done"]
    /\ UNCHANGED <<world, saved, cycle, told, bound>>

\* It did not, or the INSERT failed: nothing is saved.
Refuse(s) ==
    /\ request[s] = "testing"
    /\ request' = [request EXCEPT ![s] = "done"]
    /\ UNCHANGED <<world, sub, saved, cycle, told, bound>>

\* The state row goes with it (ON DELETE CASCADE).
Delete(s) ==
    /\ bound.deletes < MaxDeletes
    /\ Count("deletes")
    /\ sub[s].status # "none"
    /\ sub' = [sub EXCEPT ![s] = NoSub]
    /\ saved' = [saved EXCEPT ![s] = NoState]
    /\ UNCHANGED <<world, request, cycle, told>>

-----------------------------------------------------------------------------
(* The loop.                                                               *)

\* With nothing selected the cycle is over; otherwise the epoch is fetched.
Select ==
    /\ cycle.pc = "idle"
    /\ cycle' = IF Active = {} THEN Idle
                ELSE [Idle EXCEPT !.pc = "ready", !.rows = [s \in Active |-> saved[s]]]
    /\ UNCHANGED <<world, sub, saved, request, told, bound>>

\* On with the rows left, if any.
Continue(rows) ==
    cycle' = IF DOMAIN rows = {} THEN Idle
             ELSE [cycle EXCEPT !.pc = "ready", !.rows = rows, !.id = "none"]

\* The indexer to fetch next, when no row left has a snapshot: rows come ordered by
\* indexer, and a snapshot serves all rows of its indexer.
Unfetched ==
    LET indexers == {Content[s].indexer : s \in DOMAIN cycle.rows}
    IN  IF indexers \cap DOMAIN cycle.snap = {} THEN indexers ELSE {}

\* The REO status is a request of its own; when it fails the status is unknown.
Fetch ==
    /\ cycle.pc = "ready"
    /\ \E i \in Unfetched :
          \/ /\ cycle' = [cycle EXCEPT !.snap = Extended(@, i, world[i])]
             /\ UNCHANGED bound
          \/ /\ Failure
             /\ cycle' = [cycle EXCEPT
                              !.snap = Extended(@, i, [world[i] EXCEPT !.reo = "none"])]
    /\ UNCHANGED <<world, sub, saved, request, told>>

\* No snapshot: the indexer's subscriptions keep their state this cycle.
FetchFails ==
    /\ cycle.pc = "ready"
    /\ Failure
    /\ \E i \in Unfetched :
          LET left == {s \in DOMAIN cycle.rows : Content[s].indexer # i}
          IN  Continue([s \in left |-> cycle.rows[s]])
    /\ UNCHANGED <<world, sub, saved, request, told>>

SnapOf(s) == cycle.snap[Content[s].indexer]

EventsOf(s) == Events(cycle.rows[s], SnapOf(s), Content[s].kinds)

\* Take up a row and evaluate it.
Look ==
    /\ cycle.pc = "ready"
    /\ \E s \in DOMAIN cycle.rows :
          /\ Content[s].indexer \in DOMAIN cycle.snap
          /\ cycle' = [cycle EXCEPT !.id = s,
                                    !.pc = IF EventsOf(s) = {} THEN "silent" ELSE "post"]
    /\ UNCHANGED <<world, sub, saved, request, told, bound>>

OfKind(events, k) == {e \in events : e[1] = k}

\* A Discord message names so many events of a kind and counts the others; which it
\* names depends on the order in which the allocations came.  Other webhooks get the
\* events as data, all of them.
Overfull(hook, events, k) ==
    hook \in Discord /\ Cardinality(OfKind(events, k)) > LinesPerKind

Counted(hook, events) ==
    {<<"more", k, Cardinality(OfKind(events, k)) - LinesPerKind>> :
        k \in {j \in Kind : Overfull(hook, events, j)}}

Named(hook, events) ==
    {named \in SUBSET events :
        \A k \in Kind :
            IF Overfull(hook, events, k) THEN Cardinality(OfKind(named, k)) = LinesPerKind
            ELSE OfKind(named, k) = OfKind(events, k)}

Payloads(hook, events) == {named \cup Counted(hook, events) : named \in Named(hook, events)}

\* The answer is only whether the whole delivery was accepted.
PayloadsOf(s) == Payloads(Content[s].hook, EventsOf(s))

Tell(lines) == told' = [told EXCEPT ![cycle.id] = @ \cup lines]

Deliver ==
    /\ cycle.pc = "post"
    /\ \E lines \in PayloadsOf(cycle.id) : Tell(lines)
    /\ cycle' = [cycle EXCEPT !.pc = "accepted"]
    /\ UNCHANGED <<world, sub, saved, request, bound>>

\* A body was refused or its answer did not come: some or all may have arrived, of
\* the one body other webhooks get all or nothing.
DeliverFails ==
    /\ cycle.pc = "post"
    /\ Failure
    /\ \E lines \in PayloadsOf(cycle.id) :
          \E arrived \in IF Content[cycle.id].hook \in Discord THEN SUBSET lines
                         ELSE {{}, lines} :
             Tell(arrived)
    /\ cycle' = [cycle EXCEPT !.pc = "rejected"]
    /\ UNCHANGED <<world, sub, saved, request>>

NextRow == Continue([s \in DOMAIN cycle.rows \ {cycle.id} |-> cycle.rows[s]])

\* Variation: only a delivery stores the state.
StoreDelivered ==
    /\ cycle.pc \in {"silent", "accepted"}
    /\ IF cycle.pc = "silent" THEN UNCHANGED <<sub, saved, told>>
       ELSE /\ sub' = [sub EXCEPT ![cycle.id].failures = 0]
            /\ saved' = [saved EXCEPT
                            ![cycle.id] = NextState(cycle.rows[cycle.id], SnapOf(cycle.id))]
            /\ told' = [told EXCEPT ![cycle.id] = {}]
    /\ NextRow
    /\ UNCHANGED <<world, request, bound>>

\* save_state: a delivery clears the failures.
Store ==
    /\ cycle.pc \in {"silent", "accepted"}
    /\ sub[cycle.id].status # "none"
    /\ saved' = [saved EXCEPT
                    ![cycle.id] = NextState(cycle.rows[cycle.id], SnapOf(cycle.id))]
    /\ sub' = IF cycle.pc = "accepted" THEN [sub EXCEPT ![cycle.id].failures = 0] ELSE sub
    /\ told' = [told EXCEPT ![cycle.id] = {}]
    /\ NextRow
    /\ UNCHANGED <<world, request, bound>>

\* The subscription is gone: its state row violates the foreign key, and `?` ends
\* the cycle for those after it.
StoreDeleted ==
    /\ cycle.pc \in {"silent", "accepted"}
    /\ sub[cycle.id].status = "none"
    /\ cycle' = Idle
    /\ UNCHANGED <<world, sub, saved, request, told, bound>>

\* Variation: the count is not compared with the limit.
RecordFailureOn ==
    /\ cycle.pc = "rejected"
    /\ sub' = IF sub[cycle.id].status = "none" THEN sub
              ELSE [sub EXCEPT ![cycle.id].failures = @ + 1]
    /\ NextRow
    /\ UNCHANGED <<world, saved, request, told, bound>>

\* The state stays, so the same changes are offered again; at the limit the
\* subscription is disabled for good.
RecordFailure ==
    /\ cycle.pc = "rejected"
    /\ LET n == sub[cycle.id].failures + 1
           status == IF n >= DisableAfter THEN "disabled" ELSE "active"
       IN  sub' = IF sub[cycle.id].status = "none" THEN sub
                  ELSE [sub EXCEPT ![cycle.id] = [status |-> status, failures |-> n]]
    /\ NextRow
    /\ UNCHANGED <<world, saved, request, told, bound>>

\* A statement or the epoch's fetch failed, or the process restarted.
Abort ==
    /\ cycle.pc # "idle"
    /\ Failure
    /\ cycle' = Idle
    /\ UNCHANGED <<world, sub, saved, request, told>>

LoopStep ==
    \/ Select
    \/ Fetch
    \/ Look
    \/ Deliver
    \/ Store
    \/ StoreDeleted
    \/ RecordFailure

Next ==
    \/ \E i \in Indexer : Change(i)
    \/ \E s \in SubId : CheckLimits(s) \/ Insert(s) \/ Refuse(s) \/ Delete(s)
    \/ LoopStep
    \/ FetchFails
    \/ DeliverFails
    \/ Abort

Spec == Init /\ [][Next]_vars

\* The loop goes on; failures are bounded, so each is followed by a whole cycle.
Fairness == WF_vars(LoopStep)

FairSpec == Spec /\ Fairness

-----------------------------------------------------------------------------
(* Properties.                                                             *)

\* Types of the two tables, of the network and of the loop and the API.
SubTypeOK ==
    /\ world \in [Indexer -> Snapshot]
    /\ sub \in [SubId -> Sub]
    /\ \A s \in SubId : sub[s].status = "disabled" <=> sub[s].failures = DisableAfter
    /\ saved \in [SubId -> State]
    /\ request \in [SubId -> {"none", "testing", "done"}]
    /\ DOMAIN cycle = {"pc", "rows", "snap", "id"}
    /\ cycle.pc \in {"idle", "ready", "post", "rejected", "accepted", "silent"}
    /\ DOMAIN cycle.rows \subseteq SubId
    /\ cycle.rows \in [DOMAIN cycle.rows -> State]
    /\ DOMAIN cycle.snap \subseteq Indexer
    /\ cycle.snap \in [DOMAIN cycle.snap -> Snapshot]
    /\ cycle.id \in DOMAIN cycle.rows \cup {"none"}
    /\ cycle.pc \in {"idle", "ready"} <=> cycle.id = "none"
    /\ told \in [SubId -> SUBSET (Event \cup More)]

\* What a subscriber to kinds who knew prev must hear before it is taken to know next.
Differences(prev, next, kinds) ==
    {e \in {<<"poi", a, next.poi[a]>> :
               a \in {b \in DOMAIN next.poi : next.poi[b] > Was(prev, b)}}
           \cup {<<"denied", d, next.denied[d]>> :
               d \in {c \in DOMAIN next.denied : next.denied[c] # WasDenied(prev, c)}}
           \cup {<<"signal", d, next.signal[d]>> :
               d \in {c \in DOMAIN prev.signal \cap DOMAIN next.signal :
                         next.signal[c] # prev.signal[c]}}
           \cup {<<"cuts", c>> : c \in Turned(prev.cuts, next.cuts)}
           \cup {<<"reo", r>> : r \in Turned(prev.reo, next.reo)} :
        e[1] \in kinds}

\* Every change is named by a line, or a line says that at least as many of its kind
\* as are not named are on the page.
Covered(changes, lines) ==
    \A k \in Kind :
        LET unnamed == OfKind(changes, k) \ lines
        IN  \/ unnamed = {}
            \/ \E l \in lines : l[1] = "more" /\ l[2] = k /\ Cardinality(unnamed) <= l[3]

\* Stored only once delivery succeeded: the stored state moves only over changes
\* the webhook was told of since it was stored before, whatever failed, restarted,
\* was deleted or drifted slowly in between, and however many turned at once.
ChangesAreTold ==
    [][\A s \in SubId :
          saved[s].seen /\ saved'[s].seen =>
              Covered(Differences(saved[s], saved'[s], Content[s].kinds), told[s])]_vars

\* Every subscription that stays active comes to be taken to know its indexer's
\* state: none is forgotten because another was deleted, failed or has no snapshot.
SubscribersCatchUp ==
    <>[](\A s \in Active : NextState(saved[s], world[Content[s].indexer]) = saved[s])
===============================================================================
