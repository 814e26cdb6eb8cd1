---------------------------- MODULE OracleMirror ----------------------------
(***************************************************************************)
(* The poller of the DataEdge: Edge & Node's posts, read from a block      *)
(* explorer, and the payloads they name, fetched while they are fresh.     *)
(*                                                                         *)
(* A poll reads one page, the newest PageLen posts, and walks it from the  *)
(* newest to the oldest.  A post it has not stored is inserted and then,    *)
(* when payloads are wanted, gets its one fetch; a post that is reverted or not a payload is passed  *)
(* over; an insert that fails ends the poll.                               *)
(***************************************************************************)
EXTENDS Integers

CONSTANTS
    MaxPost,      \* bound on the posts; they are numbered in their order
    PayloadPost,  \* the posts that publish a payload: not reverted, decodable
    PageLen,      \* posts per page of the explorer
    CapturePayloads,  \* capture_payloads: whether payloads are wanted
    MaxFailures,  \* bound on failed requests and inserts
    MaxCrashes    \* bound on restarts

MirrorAssumption ==
    /\ MaxPost \in Nat
    /\ PayloadPost \subseteq 1..MaxPost
    /\ PageLen \in Nat \ {0}
    /\ CapturePayloads \in BOOLEAN
    /\ MaxFailures \in Nat /\ MaxCrashes \in Nat

VARIABLES
    posted,    \* the number of posts so far
    messages,  \* table oracle_message
    payloads,  \* table oracle_payload
    poll,      \* the progress of the poll
    tried,     \* history, read by properties only: fetches per post
    broken,    \* history, read by properties only: the posts whose fetch was cut
               \* off by a restart before it began
    spent      \* failures and crashes so far

vars == <<posted, messages, payloads, poll, tried, broken, spent>>

Post == 1..MaxPost

\* at: the post under consideration; stop: the first one before the page.
Idle == [pc |-> "idle", at |-> 0, stop |-> 0]

Init ==
    /\ posted = 0
    /\ messages = {}
    /\ payloads = {}
    /\ poll = Idle
    /\ tried = [n \in Post |-> 0]
    /\ broken = {}
    /\ spent = [failures |-> 0, crashes |-> 0]

-----------------------------------------------------------------------------

Publish ==
    /\ posted < MaxPost
    /\ posted' = posted + 1
    /\ UNCHANGED <<messages, payloads, poll, tried, broken, spent>>

Failure ==
    /\ spent.failures < MaxFailures
    /\ spent' = [spent EXCEPT !.failures = @ + 1]

\* The posts that are no longer on the page.
Gone == IF posted > PageLen THEN 1..(posted - PageLen) ELSE {}

\* A failed request changes nothing: the next poll starts over.
FetchPage ==
    /\ poll.pc = "idle"
    /\ poll' = [pc |-> "walk", at |-> posted, stop |-> IF posted > PageLen THEN posted - PageLen ELSE 0]
    /\ UNCHANGED <<posted, messages, payloads, tried, broken, spent>>

Step == poll' = [poll EXCEPT !.pc = "walk", !.at = @ - 1]

PassOver ==
    /\ poll.pc = "walk"
    /\ poll.at > poll.stop
    /\ poll.at \notin PayloadPost
    /\ Step
    /\ UNCHANGED <<posted, messages, payloads, tried, broken, spent>>

\* What follows a row that was inserted.
ToCapture == IF CapturePayloads THEN poll' = [poll EXCEPT !.pc = "capture"] ELSE Step

\* Variation: the walk ends at the first post that is stored already.
InsertUntilKnown ==
    /\ poll.pc = "walk"
    /\ poll.at > poll.stop
    /\ poll.at \in PayloadPost
    /\ messages' = messages \cup {poll.at}
    /\ IF poll.at \in messages THEN poll' = Idle ELSE ToCapture
    /\ UNCHANGED <<posted, payloads, tried, broken, spent>>

\* Variation: every post of the page is fetched again.
InsertRetrying ==
    /\ poll.pc = "walk"
    /\ poll.at > poll.stop
    /\ poll.at \in PayloadPost
    /\ messages' = messages \cup {poll.at}
    /\ ToCapture
    /\ UNCHANGED <<posted, payloads, tried, broken, spent>>

\* ON CONFLICT DO NOTHING; only a row that was inserted is fetched.
Insert ==
    /\ poll.pc = "walk"
    /\ poll.at > poll.stop
    /\ poll.at \in PayloadPost
    /\ messages' = messages \cup {poll.at}
    /\ IF poll.at \in messages THEN Step ELSE ToCapture
    /\ UNCHANGED <<posted, payloads, tried, broken, spent>>

InsertFails ==
    /\ poll.pc = "walk"
    /\ poll.at > poll.stop
    /\ poll.at \in PayloadPost
    /\ Failure
    /\ poll' = Idle
    /\ UNCHANGED <<posted, messages, payloads, tried, broken>>

\* The gateways are asked in turn; the payload is stored, or it is missed: no
\* gateway had it as JSON, or its row could not be written.
Capture ==
    /\ poll.pc = "capture"
    /\ payloads' \in {payloads, payloads \cup {poll.at}}
    /\ tried' = [tried EXCEPT ![poll.at] = @ + 1]
    /\ Step
    /\ UNCHANGED <<posted, messages, broken, spent>>

EndPoll ==
    /\ poll.pc = "walk"
    /\ poll.at = poll.stop
    /\ poll' = Idle
    /\ UNCHANGED <<posted, messages, payloads, tried, broken, spent>>

Crash ==
    /\ spent.crashes < MaxCrashes
    /\ spent' = [spent EXCEPT !.crashes = @ + 1]
    /\ broken' = IF poll.pc = "capture" THEN broken \cup {poll.at} ELSE broken
    /\ poll' = Idle
    /\ UNCHANGED <<posted, messages, payloads, tried>>

Loop == FetchPage \/ PassOver \/ Insert \/ Capture \/ EndPoll

Next == Publish \/ Loop \/ InsertFails \/ Crash

Spec == Init /\ [][Next]_vars

\* The loop is never stopped; nothing makes the publisher post.
Fairness == WF_vars(Loop)

-----------------------------------------------------------------------------

MirrorTypeOK ==
    /\ posted \in 0..MaxPost
    /\ messages \subseteq 1..posted
    /\ payloads \subseteq messages
    /\ poll.pc \in {"idle", "walk", "capture"}
    /\ 0 <= poll.stop /\ poll.stop <= poll.at /\ poll.at <= posted
    /\ tried \in [Post -> Nat]
    /\ broken \subseteq messages
    /\ spent \in [failures : 0..MaxFailures, crashes : 0..MaxCrashes]

\* "Attempts are made once per message": when payloads are wanted, each message
\* stored has had its one fetch, unless it is the next to be fetched or a restart
\* took that from it; no other fetch is made.
OneAttempt ==
    \A n \in Post :
        tried[n] = IF /\ CapturePayloads
                      /\ n \in messages \ broken /\ ~(poll.pc = "capture" /\ poll.at = n)
                   THEN 1 ELSE 0

\* A failed insert, or a restart, makes no hole: every post is stored, or has left
\* the page before a poll came to it.
PostsAreStored == \A n \in PayloadPost : [](n <= posted => <>(n \in messages \cup Gone))
==============================================================================
