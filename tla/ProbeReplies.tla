---------------------------- MODULE ProbeReplies ----------------------------
(***************************************************************************)
(* What the executor makes of the reply to one probe, on each of its three *)
(* paths (a paid query to an indexer, a query through the gateway, a query *)
(* to an opted-in indexer), and how the feed and the grade then read the   *)
(* observation.                                                            *)
(*                                                                         *)
(* A reply is abstracted to what the paths tell apart: its status, the     *)
(* kind of its body and its attestation.  The state is what the replies    *)
(* attributed to one indexer add up to.                                    *)
(***************************************************************************)
EXTENDS Naturals

CONSTANT MaxAsked   \* bound on the probes

VARIABLES
    feed,    \* the rollup's counts: observations, and those that are ok
    grade,   \* the scorer's counts: observations, and those that are errors
    seen     \* history, read by properties only: the probes, those refused for
             \* want of our funds, and those the readers are known to read apart

vars == <<feed, grade, seen>>

\* "empty_errors": JSON with an empty errors array.  "cut": the body could not
\* be read.  "denylist", "receipt": the phrases of a refused payment.
Body == {"data", "errors", "empty_errors", "not_json", "denylist", "receipt", "cut"}

Status == {"200", "other_2xx", "400", "402", "other"}

\* signed: there is an attestation and its signature recovers to a key.
Reply == [status : Status, body : Body, signed : BOOLEAN]

\* The request failed, nothing came back.
NoReply == [status |-> "none", body |-> "cut", signed |-> FALSE]

\* No request was made: there is no HTTP client, or an address that pays or is paid
\* cannot be read.
Unsent == [status |-> "unsent", body |-> "cut", signed |-> FALSE]

Outcome == Reply \cup {NoReply, Unsent}

Success == {"200", "other_2xx"}

Json == {"data", "errors", "empty_errors"}

\* who: whom the observation names: the indexer asked, the allocation key that
\* signed, or one of the gateway's pseudo-addresses.
Observed(who, mode, status, class, hash) ==
    [who |-> who, mode |-> mode, status |-> status, class |-> class, hash |-> hash]

Failed(who, mode, status, class) == Observed(who, mode, status, class, FALSE)

\* A body that was read is hashed when it has no class and is JSON.
Parsed(who, mode, r, class) ==
    Observed(who, mode, r.status, class, class = "none" /\ r.body \in Json)

-----------------------------------------------------------------------------
(* A paid query.                                                           *)

PaymentClass(r) ==
    CASE r.status = "402" -> "payment_refused"
      [] r.status = "400" /\ r.body = "denylist" -> "payment_denylisted"
      [] r.status = "400" /\ r.body = "receipt" -> "payment_refused"
      [] OTHER -> "none"

\* Variation: a body that is not JSON is no error, as on the gateway's path.
PaidBodyClassLenient(r) == IF r.body = "errors" THEN "graphql_error" ELSE "none"

\* Only a non-empty errors array is an error here.
PaidBodyClass(r) ==
    CASE r.body = "errors" -> "graphql_error"
      [] r.body \in Json -> "none"
      [] OTHER -> "invalid_json"

\* Variation: a refused receipt is told from other failures by the denylist only.
PaidBlaming(r) ==
    IF r = Unsent THEN Failed("indexer", "paid", "none", "bad_address")
    ELSE IF r = NoReply \/ r.body = "cut" THEN Failed("indexer", "paid", "none", "network_error")
    ELSE IF r.status = "400" /\ r.body = "denylist"
         THEN Failed("indexer", "paid", "none", "payment_denylisted")
    ELSE IF r.status # "200" THEN Failed("indexer", "paid", r.status, "http_error")
    ELSE Parsed("indexer", "paid", r, PaidBodyClass(r))

\* bad_address: bad_indexer_address or bad_allocation_id.  A body that cannot be read
\* fails inside the client, as a request does.
Paid(r) ==
    IF r = Unsent THEN Failed("indexer", "paid", "none", "bad_address")
    ELSE IF r = NoReply \/ r.body = "cut" THEN Failed("indexer", "paid", "none", "network_error")
    ELSE IF PaymentClass(r) # "none" THEN Failed("indexer", "paid", "none", PaymentClass(r))
    ELSE IF r.status # "200" THEN Failed("indexer", "paid", r.status, "http_error")
    ELSE Parsed("indexer", "paid", r, PaidBodyClass(r))

-----------------------------------------------------------------------------
(* Through the gateway.                                                    *)

\* parse_attestation_address: a key, or the name of what is wrong.
Signer(r) == IF r.signed THEN "key" ELSE "gateway"

\* Any errors key is an error here, and a body that is not JSON is no error.
GatewayBodyClass(r) == IF r.body \in {"errors", "empty_errors"} THEN "graphql_error" ELSE "none"

Gateway(r) ==
    IF r = Unsent THEN Failed("gateway", "gateway", "none", "client_build")
    ELSE IF r = NoReply THEN Failed("gateway", "gateway", "none", "network_error")
    ELSE IF r.status \notin Success THEN Failed("gateway", "gateway", r.status, "http_error")
    ELSE IF r.body = "cut" THEN Failed("gateway", "gateway", "none", "body_error")
    ELSE Parsed(Signer(r), "gateway", r, GatewayBodyClass(r))

-----------------------------------------------------------------------------
(* To an opted-in indexer.  The observations are tagged as paid ones.      *)

DirectBodyClass(r) ==
    IF r.body \notin Json THEN "invalid_json" ELSE GatewayBodyClass(r)

Direct(r) ==
    IF r = Unsent THEN Failed("indexer", "paid", "none", "client_build")
    ELSE IF r = NoReply THEN Failed("indexer", "paid", "none", "network_error")
    ELSE IF r.status \notin Success THEN Failed("indexer", "paid", r.status, "http_error")
    ELSE IF r.body = "cut" THEN Failed("indexer", "paid", r.status, "body_error")
    ELSE Parsed("indexer", "paid", r, DirectBodyClass(r))

-----------------------------------------------------------------------------
(* The readers.                                                            *)

IsPaymentError(o) == o.class \in {"payment_refused", "payment_denylisted"}

\* Counted under an indexer's name by the rollup and by the scorer alike; a
\* signing key is once it is attributed.
Counted(o) == (o.mode = "paid" \/ o.who = "key") /\ ~IsPaymentError(o)

\* ok in the rollup's obs.
FeedOk(o) == o.class = "none" /\ o.status = "200"

\* errors in the scorer's tally.
GradeError(o) == o.class # "none" \/ ~o.hash

-----------------------------------------------------------------------------

Init ==
    /\ feed = [total |-> 0, ok |-> 0]
    /\ grade = [total |-> 0, errors |-> 0]
    /\ seen = [asked |-> 0, refused |-> 0, apart |-> 0]

One(condition) == IF condition THEN 1 ELSE 0

\* The reply says that it is our payment that is wanting.
Unfunded(r) ==
    r.body # "cut" /\ (r.status = "402" \/ (r.status = "400" /\ r.body \in {"denylist", "receipt"}))

\* An observation is stored and, when it counts, enters both counts.
Store(o, refused, apart) ==
    /\ seen.asked < MaxAsked
    /\ feed' = [total |-> feed.total + One(Counted(o)), ok |-> feed.ok + One(Counted(o) /\ FeedOk(o))]
    /\ grade' = [total |-> grade.total + One(Counted(o)),
                 errors |-> grade.errors + One(Counted(o) /\ GradeError(o))]
    /\ seen' = [asked |-> seen.asked + 1, refused |-> seen.refused + One(refused),
                apart |-> seen.apart + One(apart)]

AskPaid(r) == Store(Paid(r), Unfunded(r), FALSE)

\* The rollup wants the status 200, the scorer a hash, and neither has a class.
AskGateway(r) ==
    Store(Gateway(r), FALSE, r.status = "other_2xx" \/ (r.status = "200" /\ r.body \notin Json))

AskDirect(r) == Store(Direct(r), FALSE, r.status = "other_2xx")

Next == \E r \in Outcome : AskPaid(r) \/ AskGateway(r) \/ AskDirect(r)

Spec == Init /\ [][Next]_vars

-----------------------------------------------------------------------------

RepliesTypeOK ==
    /\ feed \in [total : Nat, ok : Nat]
    /\ grade \in [total : Nat, errors : Nat]
    /\ seen \in [asked : Nat, refused : Nat, apart : Nat]

\* "Counting either as a failed query would blame an operator for our own funding":
\* a refusal that speaks of our payment enters neither count of the indexer.
FundingNeverBlames ==
    /\ feed.total + seen.refused <= seen.asked
    /\ grade.total + seen.refused <= seen.asked

\* "The two must agree or the grade and the feed would tell different stories":
\* the two count the same observations, and as many failures but for replies of
\* two kinds: a gateway's 200 that is not JSON, and a success that is no 200.
FeedAndGradeAgree ==
    /\ feed.total = grade.total
    /\ grade.errors <= (feed.total - feed.ok) + seen.apart
    /\ feed.total - feed.ok <= grade.errors + seen.apart
==============================================================================
