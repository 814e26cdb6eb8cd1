------------------------------ MODULE StallWatch ------------------------------
(***************************************************************************)
(* The two edge-triggered watches of the alerter, each a loop of its own   *)
(* that runs every five minutes:                                           *)
(*                                                                         *)
(*   "oracle": has Edge & Node's publisher stopped posting?                *)
(*   "score":  has our own scoring stopped recomputing grades?             *)
(*                                                                         *)
(* A check reads the source, then a flag that remembers what was announced *)
(* last, posts when they differ, and records the flag after the post was   *)
(* acknowledged.  A read, a post or a write may fail, an acknowledgement   *)
(* may be lost, and the process may restart between any two of them.       *)
(*                                                                         *)
(* Ages and thresholds are left out: a source has no rows yet, is fresh    *)
(* ("live") or is too old ("stalled").                                     *)
(***************************************************************************)
EXTENDS Naturals

CONSTANTS
    MaxFlips,      \* bound on changes of the sources
    MaxFailures,   \* bound on failed reads, posts and writes
    MaxRestarts    \* bound on restarts

WatchBounds == {MaxFlips, MaxFailures, MaxRestarts} \subseteq Nat

Watch == {"oracle", "score"}

VARIABLES
    source,    \* what the age of the newest row says
    flag,      \* table alerter_flag, "none" for no row
    check,     \* the progress of each watch's check
    said,      \* what the channel was told last
    repeats,   \* history, read by properties only: how often each watch told the
               \* channel again what it had told it last
    bound      \* flips, failures and restarts so far

vars == <<source, flag, check, said, repeats, bound>>

Condition == {"live", "stalled"}
Known == Condition \cup {"none"}

\* seen: the condition the check read from the source.
Idle == [pc |-> "idle", seen |-> "none"]

Check == {Idle} \cup [pc : {"flag", "post", "silent", "save"}, seen : Condition]

Init ==
    /\ source = [w \in Watch |-> "none"]
    /\ flag = [w \in Watch |-> "none"]
    /\ check = [w \in Watch |-> Idle]
    /\ said = [w \in Watch |-> "none"]
    /\ repeats = [w \in Watch |-> 0]
    /\ bound = [flips |-> 0, failures |-> 0, restarts |-> 0]

-----------------------------------------------------------------------------

Flip(w) ==
    /\ bound.flips < MaxFlips
    /\ bound' = [bound EXCEPT !.flips = @ + 1]
    /\ \E c \in Condition \ {source[w]} : source' = [source EXCEPT ![w] = c]
    /\ UNCHANGED <<flag, check, said, repeats>>

Failure ==
    /\ bound.failures < MaxFailures
    /\ bound' = [bound EXCEPT !.failures = @ + 1]

Goto(w, pc) == check' = [check EXCEPT ![w].pc = pc]

Done(w) == check' = [check EXCEPT ![w] = Idle]

\* Variation: a source without rows is checked like any other.
ReadSourceAnyway(w) ==
    /\ check[w].pc = "idle"
    /\ check' = [check EXCEPT ![w] = [pc |-> "flag", seen |-> source[w]]]
    /\ UNCHANGED <<source, flag, said, repeats, bound>>

\* A source without rows, or one that cannot be read, ends the check.
ReadSource(w) ==
    /\ check[w].pc = "idle"
    /\ source[w] # "none"
    /\ check' = [check EXCEPT ![w] = [pc |-> "flag", seen |-> source[w]]]
    /\ UNCHANGED <<source, flag, said, repeats, bound>>

\* Variation: a score watch without a flag announces what it sees.
CompareAnnounce(w, f) ==
    LET seen == check[w].seen
    IN  IF w = "oracle"
        THEN IF (seen = "stalled") = (f = "stalled") THEN Done(w) ELSE Goto(w, "post")
        ELSE IF f = seen THEN Done(w) ELSE Goto(w, "post")

\* Variation: nothing is announced before there is a flag.
CompareQuiet(w, f) ==
    LET seen == check[w].seen
    IN  IF f = "none" /\ (w = "oracle" \/ seen = "stalled") THEN Done(w)
        ELSE IF f = "none" THEN Goto(w, "silent")
        ELSE IF f = seen THEN Done(w) ELSE Goto(w, "post")

\* What follows from the flag having been read as f.
Compare(w, f) ==
    LET seen == check[w].seen
    IN  IF w = "oracle"
        THEN IF (seen = "stalled") = (f = "stalled") THEN Done(w) ELSE Goto(w, "post")
        ELSE IF f = seen THEN Done(w)
             ELSE IF seen = "live" /\ f = "none" THEN Goto(w, "silent")
             ELSE Goto(w, "post")

ReadFlag(w) ==
    /\ check[w].pc = "flag"
    /\ Compare(w, flag[w])
    /\ UNCHANGED <<source, flag, said, repeats, bound>>

\* unwrap_or(false) and ok().flatten(): a flag that cannot be read is no flag.
ReadFlagFails(w) ==
    /\ check[w].pc = "flag"
    /\ Failure
    /\ Compare(w, "none")
    /\ UNCHANGED <<source, flag, said, repeats>>

Say(w) ==
    /\ said' = [said EXCEPT ![w] = check[w].seen]
    /\ repeats' = IF said[w] = check[w].seen THEN [repeats EXCEPT ![w] = @ + 1] ELSE repeats

Post(w) ==
    /\ check[w].pc = "post"
    /\ Say(w)
    /\ Goto(w, "save")
    /\ UNCHANGED <<source, flag, bound>>

\* Rejected, not sent, or sent with its acknowledgement lost: nothing is recorded.
PostFails(w) ==
    /\ check[w].pc = "post"
    /\ Failure
    /\ Say(w) \/ UNCHANGED <<said, repeats>>
    /\ Done(w)
    /\ UNCHANGED <<source, flag>>

\* Variation: the recovery is not recorded.
SaveStallOnly(w) ==
    /\ check[w].pc \in {"save", "silent"}
    /\ flag' = IF check[w].seen = "stalled"
               THEN [flag EXCEPT ![w] = check[w].seen]
               ELSE flag
    /\ Done(w)
    /\ UNCHANGED <<source, said, repeats, bound>>

\* The flag is upserted, after a post or silently on the first live check.
Save(w) ==
    /\ check[w].pc \in {"save", "silent"}
    /\ flag' = [flag EXCEPT ![w] = check[w].seen]
    /\ Done(w)
    /\ UNCHANGED <<source, said, repeats, bound>>

SaveFails(w) ==
    /\ check[w].pc \in {"save", "silent"}
    /\ Failure
    /\ Done(w)
    /\ UNCHANGED <<source, flag, said, repeats>>

Restart ==
    /\ bound.restarts < MaxRestarts
    /\ bound' = [bound EXCEPT !.restarts = @ + 1]
    /\ check' = [w \in Watch |-> Idle]
    /\ UNCHANGED <<source, flag, said, repeats>>

CheckStep(w) ==
    \/ ReadSource(w)
    \/ ReadFlag(w)
    \/ Post(w)
    \/ Save(w)

Next ==
    \/ \E w \in Watch :
          \/ Flip(w)
          \/ CheckStep(w)
          \/ ReadFlagFails(w)
          \/ PostFails(w)
          \/ SaveFails(w)
    \/ Restart

Spec == Init /\ [][Next]_vars

\* Each loop keeps checking.
Fairness == \A w \in Watch : WF_vars(CheckStep(w))

FairSpec == Spec /\ Fairness

-----------------------------------------------------------------------------
(* Properties.                                                             *)

\* Types of the flags, the checks and the announcements.
WatchTypeOK ==
    /\ source \in [Watch -> Known]
    /\ flag \in [Watch -> Known]
    /\ check \in [Watch -> Check]
    /\ said \in [Watch -> Known]
    /\ repeats \in [Watch -> Nat]

\* A continuing outage is not announced at every check: the channel is told the
\* same thing twice only for a failure or a restart in between.
RepeatsNeedFailures ==
    \A w \in Watch : repeats[w] <= bound.failures + bound.restarts

\* A recovery is announced only of a stall that was: neither watch's first word is
\* "running again", whichever read failed.
RecoveryFollowsStall ==
    [][\A w \in Watch : said[w] = "none" => said'[w] \in {"none", "stalled"}]_vars

\* The flag settles on the condition of the source, so a watch that failed is
\* never stuck on an old one.
FlagFollowsSource ==
    \A w \in Watch : <>[](source[w] # "none" =>
                             (flag[w] = "stalled" <=> source[w] = "stalled"))
=============================================================================
