------------------------ MODULE SubscriptionDelivery ------------------------
(***************************************************************************)
(* The background delivery of subscriptions: app/services/subscriptions.py *)
(* over the rows of SubscriptionRows, with ProgressiveSearch and the       *)
(* Telegram send as its environment.                                       *)
(*                                                                         *)
(* One worker per due row claims it, selects a post nobody sent to the     *)
(* user before, revalidates the claim, sends, records the delivery and     *)
(* reschedules the row.  Beside it a heartbeat renews the claim and        *)
(* cancels the worker when it cannot; the user's commands, the clock,      *)
(* shutdown and a crash of the process interleave at every await.          *)
(***************************************************************************)
EXTENDS SubscriptionRows

CONSTANTS
    Post, NoPost,
    Matches,        \* [Subs -> SUBSET Post], the posts a query yields
    DigestMode,     \* the subscriptions that may be switched to digest mode
    Configurations, \* the sets of users ALLOWED_USER_IDS may admit
    Concurrency,    \* SUBSCRIPTION_CONCURRENCY
    SendAttempts,   \* bound: requests one send may need
    AmbiguousDelay, \* 1800 s
    FailureDelay,   \* the default delay of a deferral
    OutageDelay,    \* what breaker.subscription_delay() may add
    Commands,       \* bound: the kinds of command the users give
    MaxCrashes      \* bound: crashes of the process

ASSUME DeliveryAssumption ==
    /\ NoPost \notin Post
    /\ Matches \in [Subs -> SUBSET Post]
    /\ DigestMode \subseteq Subs
    /\ Configurations \subseteq SUBSET Users
    /\ Concurrency \in Nat \ {0}
    /\ SendAttempts \in Nat \ {0}
    /\ AmbiguousDelay \in 1..MaxDelay
    /\ FailureDelay \in 1..MaxDelay
    /\ OutageDelay \subseteq 0..MaxDelay
    /\ MaxCrashes \in Nat

VARIABLES
    process,    \* "up", "stopping" (post_shutdown) or "down"
    pass,       \* the loop of process_subscriptions
    todo,       \* due rows of this pass no worker has started on
    own,        \* rows this pass has started a worker on
    jammed,     \* subscriptions whose digest lock nobody gives back
    worker,     \* the worker of each row
    progress,   \* whether query_progress has a row for the subscription
    history,    \* subscription_delivery_history
    userHistory,\* subscription_user_delivery_history
    digest,     \* subscription_digest_queue
    failures,   \* delivery_failures
    allowed,    \* users is_recipient_allowed accepts until the next restart
    crashes

\* What nobody can observe: what Telegram did, and how the worker ended.
VARIABLES
    accepted,   \* how often Telegram accepted a post for a user (up to 2)
    unacked,    \* posts accepted for a user, the answer never recorded
    blind       \* requests issued in a row under a claim no longer active

loopVars == <<process, pass, todo, own, jammed>>
storedVars == <<progress, history, userHistory, digest, failures>>
telegramVars == <<accepted, unacked>>
settings == <<allowed, crashes>>
vars == <<rowVars, loopVars, worker, storedVars, telegramVars, settings, blind>>

Stages == {"idle", "claim", "denied", "select", "save", "enqueue",
           "digestUpdate", "digestRecord", "check", "queue", "send", "wire", "failed",
           "record", "update", "clear", "empty", "backoff", "error", "defer",
           "cancelDefer", "release"}

\* Stages during which _SubscriptionClaimLease renews the claim.
Leased == {"select", "save", "enqueue", "check", "queue", "send", "wire", "failed",
           "record"}

\* Stages after delivery_started = True.
Started == {"queue", "send", "wire", "failed", "record", "update", "clear"}

Worker == [stage : Stages, token : Token \cup {NoToken},
           post : Post \cup {NoPost}, tries : 0..SendAttempts,
           accepted : BOOLEAN, lost : BOOLEAN, cancelled : 0..2,
           delay : 0..MaxDelay, interval : Nat, empties : Nat]

Idle == [stage |-> "idle", token |-> NoToken, post |-> NoPost, tries |-> 0,
         accepted |-> FALSE, lost |-> FALSE, cancelled |-> 0,
         delay |-> 0, interval |-> 0, empties |-> 0]

Busy == {s \in Subs : worker[s].stage # "idle"}
HeldTokens == {worker[s].token : s \in Subs} \ {NoToken}
Fresh(t) == t \in Token \ HeldTokens /\ \A s \in Subs : sub[s].token # t

At(s, stage) == worker[s].stage = stage /\ worker[s].cancelled = 0
Goto(s, stage) == worker' = [worker EXCEPT ![s].stage = stage]
Finish(s) == worker' = [worker EXCEPT ![s] = Idle]

\* A statement filtered by the worker's token, and what it does when the
\* filter finds no row.
Apply(s, Statement, found, missing) ==
    \/ Statement /\ found
    \/ ~Owned(s, worker[s].token) /\ UNCHANGED rowVars /\ missing

\* A request is blind when the claim is not active as it is issued.
Watch ==
    blind' = [s \in Subs |->
                IF worker'[s].stage = "idle" \/ ClaimActive(s, worker[s].token)'
                THEN 0
                ELSE IF worker[s].stage = "send" /\ worker'[s].stage = "wire"
                THEN Sooner(2, blind[s] + 1)
                ELSE blind[s]]

(***************************************************************************)
(* The loop of process_subscriptions.                                      *)
(***************************************************************************)
StartPass ==
    /\ process = "up" /\ pass = "sleep"
    /\ ReleaseStaleSubscriptionClaims
    /\ pass' = "scan"
    /\ UNCHANGED <<process, todo, own, jammed, worker, storedVars, telegramVars,
                   settings>>

GetDueSubscriptions ==
    /\ process = "up" /\ pass = "scan"
    /\ todo' = DueSubscriptions
    /\ pass' = "serve"
    /\ UNCHANGED <<rowVars, process, own, jammed, worker, storedVars,
                   telegramVars, settings>>

\* The rows of one user are served one after the other, under the user's
\* delivery lock.
UserFree(u) == \A s \in Busy : Owner[s] # u

StartWorker(s) ==
    /\ process = "up" /\ pass = "serve"
    /\ s \in todo
    /\ UserFree(Owner[s])
    /\ Cardinality({Owner[r] : r \in Busy}) < Concurrency
    /\ Goto(s, "claim")
    /\ todo' = todo \ {s} /\ own' = own \cup {s}
    /\ UNCHANGED <<rowVars, process, pass, jammed, storedVars, telegramVars,
                   settings>>

\* The gather waits for its own workers, not for those of a broken pass.
StartDigests ==
    /\ process = "up" /\ pass = "serve"
    /\ todo = {} /\ own \cap Busy = {}
    /\ pass' = "digest" /\ own' = {}
    /\ UNCHANGED <<rowVars, process, todo, jammed, worker, storedVars,
                   telegramVars, settings>>

\* The digests that are due are done with, or their delivery raises.
EndPass ==
    /\ process = "up" /\ pass = "digest"
    /\ pass' = "sleep"
    /\ UNCHANGED <<rowVars, process, todo, own, jammed, worker, storedVars,
                   telegramVars, settings>>

(***************************************************************************)
(* The digests of a pass, and of a user who asks for theirs, as far as     *)
(* they hold a pass up: DigestDelivery has the rest.                       *)
(***************************************************************************)
\* A claim may take its items.
Deliverable(s) ==
    /\ digest[s] # {} /\ sub[s].active
    /\ ~Paused(Owner[s]) /\ Owner[s] \in allowed

\* Items that were sent leave the queue.
DeliverDigest(s) ==
    /\ process = "up"
    /\ Deliverable(s) /\ s \notin jammed
    /\ \E items \in SUBSET digest[s] \ {{}} :
          digest' = [digest EXCEPT ![s] = @ \ items]
    /\ UNCHANGED <<rowVars, loopVars, worker, progress, history, userHistory,
                   failures, telegramVars, settings>>

\* The clean-up of a delivery raises before it gives the lock back, or its
\* coroutine waits with the lock for another that is jammed; the user may have
\* switched the subscription off since it was claimed.
LoseLock(s) ==
    /\ process = "up"
    /\ digest[s] # {} /\ s \notin jammed
    /\ jammed' = jammed \cup {s}
    /\ UNCHANGED <<rowVars, process, pass, todo, own, worker, storedVars,
                   telegramVars, settings>>

\* acquire_digest_subscription_locks has no timeout: only the end of the
\* process ends the wait.
WaitForLock ==
    /\ process = "up" /\ pass = "digest"
    /\ \E s \in jammed : Deliverable(s)
    /\ pass' = "stuck"
    /\ UNCHANGED <<rowVars, process, todo, own, jammed, worker, storedVars,
                   telegramVars, settings>>

Claim(s) ==
    /\ At(s, "claim")
    /\ \/ \E t \in Token :
            /\ Fresh(t)
            /\ ClaimDueSubscription(s, t)
            /\ worker' = [worker EXCEPT ![s].token = t, ![s].stage =
                            IF Owner[s] \in allowed THEN "select" ELSE "denied"]
       \/ ~Claimable(s) /\ UNCHANGED rowVars /\ Finish(s)
    /\ UNCHANGED <<loopVars, storedVars, telegramVars, settings>>

DenyRecipient(s) ==
    /\ At(s, "denied")
    /\ Apply(s, ReleaseSubscriptionClaim(s, worker[s].token), TRUE, TRUE)
    /\ Finish(s)
    /\ UNCHANGED <<loopVars, storedVars, telegramVars, settings>>

\* Mutant of Unseen: the history of the query alone.
UnseenByQuery(s) == Matches[s] \ history[s]

\* What _seen leaves of the posts of the query.
Unseen(s) == Matches[s] \ (history[s] \cup userHistory[Owner[s]])

\* What the worker does with what select returned or raised, and with the
\* digest_mode it has read.
Outcomes(w, s) ==
    IF w.post = NoPost THEN {IF w.delay = 0 THEN "empty" ELSE "defer"}
    ELSE {"check"} \cup (IF s \in DigestMode THEN {"enqueue"} ELSE {})

\* ProgressiveSearch.select finds a post, finds that nothing is left, or
\* raises (request budget, deadline, upstream outage).  It saves its progress
\* before it ends, when _save finds the subscription; the cached posts that
\* stand in for a failing upstream, and its errors, are returned without.
Found(s) == {[worker[s] EXCEPT !.post = p] : p \in Unseen(s)}
Nothing(s) == IF Unseen(s) = {} THEN {worker[s]} ELSE {}
Raised(s) == {[worker[s] EXCEPT !.delay = d] :
                d \in (OutageDelay \ {0}) \cup {FailureDelay}}

Select(s) ==
    /\ At(s, "select")
    /\ \E w \in Found(s) \cup Nothing(s) \cup Raised(s) :
         \E stage \in Outcomes(w, s) \cup {"save"} :
            /\ stage = "save" => sub[s].present
            /\ stage = "empty" => ~sub[s].present
            /\ worker' = [worker EXCEPT ![s] = [w EXCEPT !.stage = stage]]
    /\ UNCHANGED <<rowVars, loopVars, storedVars, telegramVars, settings>>

\* The INSERT of _save.  Its SELECT is a statement and a transaction apart.
SaveProgress(s) ==
    /\ At(s, "save")
    /\ progress' = [progress EXCEPT ![s] = TRUE]
    /\ \E stage \in Outcomes(worker[s], s) : Goto(s, stage)
    /\ UNCHANGED <<rowVars, loopVars, history, userHistory, digest, failures,
                   telegramVars, settings>>

(***************************************************************************)
(* Digest mode: the post goes to the queue instead of to Telegram.         *)
(***************************************************************************)
\* Mutant of Enqueued: the INSERT does not ask for the subscription.
EnqueuedAnyway(s) == [digest EXCEPT ![s] = @ \cup {worker[s].post}]

Enqueued(s) ==
    IF sub[s].present /\ sub[s].active
    THEN [digest EXCEPT ![s] = @ \cup {worker[s].post}]
    ELSE digest

EnqueueDigest(s) ==
    /\ At(s, "enqueue")
    /\ digest' = Enqueued(s)
    /\ Goto(s, "digestUpdate")
    /\ UNCHANGED <<rowVars, loopVars, progress, history, userHistory, failures,
                   telegramVars, settings>>

RescheduleDigest(s) ==
    /\ At(s, "digestUpdate")
    /\ \E d \in OutageDelay :
         Apply(s, UpdateSubscriptionTime(s, worker[s].token, d),
               Goto(s, "digestRecord"), Goto(s, "release"))
    /\ UNCHANGED <<loopVars, storedVars, telegramVars, settings>>

\* delivered() adds to the query's history where the query has progress and
\* the subscription is still there; in digest mode to no other.
QueryHistoryWith(s) ==
    IF progress[s] /\ sub[s].present
    THEN [history EXCEPT ![s] = @ \cup {worker[s].post}]
    ELSE history

RecordDigest(s) ==
    /\ At(s, "digestRecord")
    /\ history' = QueryHistoryWith(s)
    /\ Finish(s)
    /\ UNCHANGED <<rowVars, loopVars, progress, userHistory, digest, failures,
                   telegramVars, settings>>

(***************************************************************************)
(* The send.                                                               *)
(***************************************************************************)
CheckClaim(s) ==
    /\ At(s, "check")
    /\ Goto(s, IF ClaimActive(s, worker[s].token) THEN "queue" ELSE "release")
    /\ UNCHANGED <<rowVars, loopVars, storedVars, telegramVars, settings>>

\* before_send, inside the operation: it runs when the limiter has admitted
\* the request, and again for every retry.
RevalidateClaim(s) ==
    /\ At(s, "queue")
    /\ Goto(s, IF ClaimActive(s, worker[s].token) THEN "send" ELSE "failed")
    /\ UNCHANGED <<rowVars, loopVars, storedVars, telegramVars, settings>>

\* Mutant of IssueRequest: the retries of a send are not counted.
IssueUncounted(s) ==
    /\ At(s, "send")
    /\ Goto(s, "wire")
    /\ UNCHANGED <<rowVars, loopVars, storedVars, telegramVars, settings>>

IssueRequest(s) ==
    /\ At(s, "send")
    /\ worker' = [worker EXCEPT ![s].stage = "wire", ![s].tries = @ + 1]
    /\ UNCHANGED <<rowVars, loopVars, storedVars, telegramVars, settings>>

\* Telegram takes the message; the worker does not know yet, nor does it
\* matter whether the worker still wants to.
TelegramAccepts(s) ==
    /\ worker[s].stage = "wire" /\ ~worker[s].accepted
    /\ worker' = [worker EXCEPT ![s].accepted = TRUE]
    /\ accepted' = [accepted EXCEPT ![Owner[s]][worker[s].post] =
                      Sooner(2, @ + 1)]
    /\ UNCHANGED <<rowVars, loopVars, storedVars, unacked, settings>>

ReplyArrives(s) ==
    /\ At(s, "wire") /\ worker[s].accepted
    /\ Goto(s, "record")
    /\ UNCHANGED <<rowVars, loopVars, storedVars, telegramVars, settings>>

\* Mutant of TelegramRejects: the check before the send is not repeated.
RetryUnchecked(s) ==
    /\ At(s, "wire") /\ ~worker[s].accepted
    /\ Goto(s, IF worker[s].tries < SendAttempts THEN "send" ELSE "failed")
    /\ UNCHANGED <<rowVars, loopVars, storedVars, telegramVars, settings>>

\* RetryAfter, a refused URL, another source, the text link: a new request
\* while there is one left to try.
TelegramRejects(s) ==
    /\ At(s, "wire") /\ ~worker[s].accepted
    /\ Goto(s, IF worker[s].tries < SendAttempts THEN "queue" ELSE "failed")
    /\ UNCHANGED <<rowVars, loopVars, storedVars, telegramVars, settings>>

\* The worker stops waiting for the answer to its request.
Abandon(s) ==
    unacked' = IF worker[s].accepted
               THEN [unacked EXCEPT ![Owner[s]] = @ \cup {worker[s].post}]
               ELSE unacked

\* TimedOut or an ambiguous NetworkError.
AnswerLost(s) ==
    /\ At(s, "wire")
    /\ Abandon(s)
    /\ worker' = [worker EXCEPT ![s].stage = "defer",
                                ![s].delay = AmbiguousDelay]
    /\ UNCHANGED <<rowVars, loopVars, storedVars, accepted, settings>>

\* BadRequest and any other definite failure: the handlers save the failure
\* and defer.
RequestFails(s) ==
    /\ At(s, "wire") /\ ~worker[s].accepted
    /\ worker' = [worker EXCEPT ![s].stage = "error", ![s].delay = FailureDelay]
    /\ UNCHANGED <<rowVars, loopVars, storedVars, telegramVars, settings>>

\* save_delivery_failure, in the body or in a handler.
FailureSaved(s) == [failures EXCEPT ![Owner[s]] = @ \cup {worker[s].post}]

SaveFailure(s) ==
    /\ \/ At(s, "failed") /\ Goto(s, "release")
       \/ At(s, "error") /\ Goto(s, "defer")
    /\ failures' = FailureSaved(s)
    /\ UNCHANGED <<rowVars, loopVars, progress, history, userHistory, digest,
                   telegramVars, settings>>

(***************************************************************************)
(* Acknowledgement.                                                        *)
(***************************************************************************)
\* The transaction of ProgressiveSearch.delivered is shielded: a cancelled
\* worker completes it first.  A second cancellation may abort it.
CancelledTo(s) == IF worker[s].lost THEN "release" ELSE "cancelDefer"

\* Mutant of RecordHistory: the transaction is not shielded.
RecordUnshielded(s) ==
    /\ worker[s].stage = "record"
    /\ IF worker[s].cancelled = 0
       THEN /\ userHistory' = [userHistory EXCEPT ![Owner[s]] =
                                 @ \cup {worker[s].post}]
            /\ Goto(s, "update")
       ELSE /\ worker' = [worker EXCEPT ![s].cancelled = 0,
                                        ![s].stage = CancelledTo(s)]
            /\ UNCHANGED userHistory
    /\ UNCHANGED <<rowVars, loopVars, progress, history, digest, failures,
                   telegramVars, settings>>

RecordHistory(s) ==
    /\ worker[s].stage = "record"
    /\ userHistory' = [userHistory EXCEPT ![Owner[s]] = @ \cup {worker[s].post}]
    /\ history' = QueryHistoryWith(s)
    /\ worker' = [worker EXCEPT ![s].cancelled = 0, ![s].stage =
                    IF worker[s].cancelled = 0 THEN "update" ELSE CancelledTo(s)]
    /\ UNCHANGED <<rowVars, loopVars, progress, digest, failures, telegramVars,
                   settings>>

RecordAborted(s) ==
    /\ worker[s].stage = "record" /\ worker[s].cancelled = 2
    /\ unacked' = [unacked EXCEPT ![Owner[s]] = @ \cup {worker[s].post}]
    /\ worker' = [worker EXCEPT ![s].cancelled = 0, ![s].stage = CancelledTo(s)]
    /\ UNCHANGED <<rowVars, loopVars, storedVars, accepted, settings>>

RescheduleDelivered(s) ==
    /\ At(s, "update")
    /\ \E d \in OutageDelay :
         Apply(s, UpdateSubscriptionTime(s, worker[s].token, d),
               Goto(s, "clear"), Goto(s, "release"))
    /\ UNCHANGED <<loopVars, storedVars, telegramVars, settings>>

ClearFailure(s) ==
    /\ At(s, "clear")
    /\ failures' = [failures EXCEPT ![Owner[s]] = @ \ {worker[s].post}]
    /\ Finish(s)
    /\ UNCHANGED <<rowVars, loopVars, progress, history, userHistory, digest,
                   telegramVars, settings>>

(***************************************************************************)
(* The other ends of a worker.                                             *)
(***************************************************************************)
\* mark_subscription_empty reads the row, then updates it.
ReadEmpties(s) ==
    /\ At(s, "empty")
    /\ worker' = [worker EXCEPT
                    ![s].stage = IF sub[s].present THEN "backoff" ELSE "release",
                    ![s].interval = sub[s].interval,
                    ![s].empties = sub[s].empties]
    /\ UNCHANGED <<rowVars, loopVars, storedVars, telegramVars, settings>>

BackOff(s) ==
    /\ At(s, "backoff")
    /\ Apply(s, MarkSubscriptionEmpty(s, worker[s].token, worker[s].interval,
                                      worker[s].empties),
             Finish(s), Goto(s, "release"))
    /\ UNCHANGED <<loopVars, storedVars, telegramVars, settings>>

\* Mutant of Defer: the UPDATE is filtered by the pair alone.
DeferUnfenced(s) ==
    /\ At(s, "defer")
    /\ sub[s].present
    /\ sub' = [sub EXCEPT ![s] = [Freed(@) EXCEPT !.due = worker[s].delay]]
    /\ Finish(s)
    /\ UNCHANGED <<pause, cooldown, loopVars, storedVars, telegramVars, settings>>

Defer(s) ==
    /\ At(s, "defer")
    /\ Apply(s, DeferSubscription(s, worker[s].token, worker[s].delay),
             Finish(s), Goto(s, "release"))
    /\ UNCHANGED <<loopVars, storedVars, telegramVars, settings>>

\* The deferral of the CancelledError handler is shielded.
CancelDefer(s) ==
    /\ worker[s].stage = "cancelDefer"
    /\ Apply(s, DeferSubscription(s, worker[s].token, AmbiguousDelay),
             Finish(s), Goto(s, "release"))
    /\ UNCHANGED <<loopVars, storedVars, telegramVars, settings>>

\* The shielded release of the finally block.
Release(s) ==
    /\ worker[s].stage = "release"
    /\ Apply(s, ReleaseSubscriptionClaim(s, worker[s].token), TRUE, TRUE)
    /\ Finish(s)
    /\ UNCHANGED <<loopVars, storedVars, telegramVars, settings>>

(***************************************************************************)
(* Statements that raise (a locked or failing database).                   *)
(***************************************************************************)
\* The body of the worker: `except Exception`.  A failed acknowledgement
\* leaves a delivered post unrecorded.
StatementFails(s) ==
    /\ worker[s].stage \in {"save", "enqueue", "digestUpdate", "digestRecord",
                            "check", "queue", "failed", "record", "update",
                            "clear", "empty", "backoff"}
    /\ worker[s].cancelled = 0
    /\ worker' = [worker EXCEPT ![s].delay = FailureDelay, ![s].stage =
                    IF worker[s].post = NoPost \/ worker[s].stage = "save"
                    THEN "defer" ELSE "error"]
    /\ unacked' = IF worker[s].stage = "record"
                  THEN [unacked EXCEPT ![Owner[s]] = @ \cup {worker[s].post}]
                  ELSE unacked
    /\ UNCHANGED <<rowVars, loopVars, storedVars, accepted, settings>>

\* An exception that leaves a worker ends the gather of its pass, which does
\* not cancel the other workers: they go on while the next pass starts.  The
\* other rows of the user are dropped, and so are all that are left when no
\* worker task survives.
\* Mutant of BreakPass: the exception ends the background task.
BreakLoop(s) ==
    /\ pass' = "ended" /\ todo' = {} /\ own' = {}
    /\ UNCHANGED <<process, jammed>>

BreakPass(s) ==
    /\ \/ /\ s \in own
          /\ pass' = "sleep" /\ own' = {}
          /\ todo' \in {{}, {r \in todo : Owner[r] # Owner[s]}}
       \/ s \notin own /\ UNCHANGED <<pass, todo, own>>
    /\ UNCHANGED <<process, jammed>>

HandlerFails(s) ==
    /\ At(s, "error") \/ At(s, "defer")
    /\ Goto(s, "release")
    /\ BreakPass(s)
    /\ UNCHANGED <<rowVars, storedVars, telegramVars, settings>>

WorkerRaises(s) ==
    /\ At(s, "claim") \/ At(s, "denied") \/ At(s, "release")
    /\ Finish(s)
    /\ BreakPass(s)
    /\ UNCHANGED <<rowVars, storedVars, telegramVars, settings>>

(***************************************************************************)
(* The heartbeat of the claim.                                             *)
(***************************************************************************)
RenewClaim(s) ==
    /\ worker[s].stage \in Leased /\ ~worker[s].lost
    /\ RenewSubscriptionClaim(s, worker[s].token)
    /\ UNCHANGED <<loopVars, worker, storedVars, telegramVars, settings>>

\* The renewal finds no row, or raises: both end the worker.
LoseClaim(s) ==
    /\ worker[s].stage \in Leased /\ ~worker[s].lost
    /\ worker' = [worker EXCEPT ![s].lost = TRUE,
                                ![s].cancelled = Sooner(2, @ + 1)]
    /\ UNCHANGED <<rowVars, loopVars, storedVars, telegramVars, settings>>

(***************************************************************************)
(* A cancelled worker.  The statement it was waiting for may have been     *)
(* committed or not.                                                       *)
(***************************************************************************)
CancelPending(s) == worker[s].cancelled > 0
Leave(s, stage) ==
    worker' = [worker EXCEPT ![s].stage = stage, ![s].cancelled = 0]

CancelDuringClaim(s) ==
    /\ CancelPending(s) /\ worker[s].stage = "claim"
    /\ \/ \E t \in Token : Fresh(t) /\ ClaimDueSubscription(s, t)
       \/ UNCHANGED rowVars
    /\ Finish(s)
    /\ UNCHANGED <<loopVars, storedVars, telegramVars, settings>>

CancelDuringDenial(s) ==
    /\ CancelPending(s) /\ worker[s].stage = "denied"
    /\ ReleaseSubscriptionClaim(s, worker[s].token) \/ UNCHANGED rowVars
    /\ Finish(s)
    /\ UNCHANGED <<loopVars, storedVars, telegramVars, settings>>

\* The statement was committed, or it was not.
MayCommit(Statement) == Statement \/ UNCHANGED rowVars
MaySaveFailure(s) ==
    /\ failures' \in {failures, FailureSaved(s)}
    /\ UNCHANGED <<progress, history, userHistory, digest>>

\* delivery_started is still false: the finally block releases the claim.
CancelBeforeDelivery(s) ==
    /\ CancelPending(s)
    /\ \/ /\ worker[s].stage \in {"select", "check", "empty"}
          /\ UNCHANGED <<rowVars, storedVars>>
       \/ /\ worker[s].stage = "save"
          /\ progress' \in {progress, [progress EXCEPT ![s] = TRUE]}
          /\ UNCHANGED <<rowVars, history, userHistory, digest, failures>>
       \/ /\ worker[s].stage = "enqueue"
          /\ digest' \in {digest, Enqueued(s)}
          /\ UNCHANGED <<rowVars, progress, history, userHistory, failures>>
       \/ /\ worker[s].stage = "digestUpdate"
          /\ \E d \in OutageDelay :
               MayCommit(UpdateSubscriptionTime(s, worker[s].token, d))
          /\ UNCHANGED storedVars
       \/ /\ worker[s].stage = "digestRecord"
          /\ history' \in {history, QueryHistoryWith(s)}
          /\ UNCHANGED <<rowVars, progress, userHistory, digest, failures>>
       \/ /\ worker[s].stage = "backoff"
          /\ MayCommit(MarkSubscriptionEmpty(s, worker[s].token,
                         worker[s].interval, worker[s].empties))
          /\ UNCHANGED storedVars
    /\ Leave(s, "release")
    /\ UNCHANGED <<loopVars, telegramVars, settings>>

\* A lost claim is only released; a shutdown defers it.
CancelDuringDelivery(s) ==
    /\ CancelPending(s)
    /\ \/ /\ worker[s].stage \in {"queue", "send", "clear"}
          /\ UNCHANGED <<rowVars, storedVars, unacked>>
       \/ /\ worker[s].stage = "wire"
          /\ Abandon(s)
          /\ UNCHANGED <<rowVars, storedVars>>
       \/ /\ worker[s].stage = "failed"
          /\ MaySaveFailure(s)
          /\ UNCHANGED <<rowVars, unacked>>
       \/ /\ worker[s].stage = "update"
          /\ \E d \in OutageDelay :
               MayCommit(UpdateSubscriptionTime(s, worker[s].token, d))
          /\ UNCHANGED <<storedVars, unacked>>
    /\ Leave(s, CancelledTo(s))
    /\ UNCHANGED <<loopVars, accepted, settings>>

\* A cancellation inside an `except` block: nothing defers the row.
CancelDuringHandler(s) ==
    /\ CancelPending(s)
    /\ \/ /\ worker[s].stage = "defer"
          /\ MayCommit(DeferSubscription(s, worker[s].token, worker[s].delay))
          /\ UNCHANGED storedVars
       \/ /\ worker[s].stage = "error"
          /\ MaySaveFailure(s)
          /\ UNCHANGED rowVars
    /\ Leave(s, "release")
    /\ UNCHANGED <<loopVars, telegramVars, settings>>

(***************************************************************************)
(* The process.                                                            *)
(***************************************************************************)
\* post_shutdown cancels the background task, which cancels every worker.
Shutdown ==
    /\ process = "up"
    /\ process' = "stopping" /\ pass' = "sleep" /\ todo' = {}
    /\ own' = {} /\ jammed' = {}
    /\ worker' = [s \in Subs |->
                    IF s \in Busy
                    THEN [worker[s] EXCEPT !.cancelled = Sooner(2, @ + 1)]
                    ELSE worker[s]]
    /\ UNCHANGED <<rowVars, storedVars, telegramVars, settings>>

ShutdownCompletes ==
    /\ process = "stopping" /\ Busy = {}
    /\ process' = "down"
    /\ UNCHANGED <<rowVars, pass, todo, own, jammed, worker, storedVars,
                   telegramVars, settings>>

\* A request on the wire may be accepted later than the crash: that order is
\* observed by nobody and counted as an acceptance before it.
Unrecorded(s) ==
    \/ worker[s].stage = "record"
    \/ worker[s].stage = "wire" /\ worker[s].accepted

Crash ==
    /\ process # "down" /\ crashes < MaxCrashes
    /\ process' = "down" /\ pass' = "sleep" /\ todo' = {}
    /\ own' = {} /\ jammed' = {}
    /\ crashes' = crashes + 1
    /\ UNCHANGED allowed
    /\ worker' = [s \in Subs |-> Idle]
    /\ unacked' = [u \in Users |-> unacked[u] \cup
                     {worker[s].post : s \in {r \in Subs : Owner[r] = u
                                                           /\ Unrecorded(r)}}]
    /\ UNCHANGED <<rowVars, storedVars, accepted>>

Restart ==
    /\ process = "down"
    /\ process' = "up"
    /\ allowed' \in Configurations
    /\ UNCHANGED <<rowVars, pass, todo, own, jammed, worker, storedVars,
                   telegramVars, crashes>>

(***************************************************************************)
(* The user's commands.                                                    *)
(***************************************************************************)
\* The handler takes the digest lock first.
ForgetSubscription(s) ==
    /\ s \notin jammed
    /\ RemoveSubscription(s)
    /\ progress' = [progress EXCEPT ![s] = FALSE]
    /\ history' = [history EXCEPT ![s] = {}]
    /\ digest' = [digest EXCEPT ![s] = {}]
    /\ UNCHANGED <<userHistory, failures>>

Command ==
    /\ process = "up"
    /\ \/ /\ \/ /\ "add" \in Commands
                /\ \E s \in Subs, i \in Interval : AddSubscription(s, i)
             \/ /\ "interval" \in Commands
                /\ \E s \in Subs, i \in Interval :
                     UpdateSubscriptionInterval(s, i)
             \/ /\ "toggle" \in Commands
                /\ \E s \in Subs : Deactivate(s) \/ Reactivate(s)
             \/ /\ "pause" \in Commands
                /\ \E u \in Users :
                     \/ ResumeAllActive(u)
                     \/ \E n \in PauseLength : PauseAllActive(u, n)
          /\ UNCHANGED storedVars
       \/ /\ "remove" \in Commands
          /\ \E s \in Subs : ForgetSubscription(s)
    /\ UNCHANGED <<loopVars, worker, telegramVars, settings>>

(***************************************************************************)
(* The specification.                                                      *)
(***************************************************************************)
Init ==
    /\ NoRows
    /\ process = "up" /\ pass = "sleep" /\ todo = {}
    /\ own = {} /\ jammed = {}
    /\ worker = [s \in Subs |-> Idle]
    /\ progress = [s \in Subs |-> FALSE]
    /\ history = [s \in Subs |-> {}]
    /\ userHistory = [u \in Users |-> {}]
    /\ digest = [s \in Subs |-> {}]
    /\ failures = [u \in Users |-> {}]
    /\ accepted = [u \in Users |-> [p \in Post |-> 0]]
    /\ unacked = [u \in Users |-> {}]
    /\ allowed \in Configurations
    /\ crashes = 0
    /\ blind = [s \in Subs |-> 0]

Loop == StartPass \/ GetDueSubscriptions \/ StartDigests \/ EndPass

\* What a worker does by itself: every disjunct is an await that returns.
WorkerStep(s) ==
    \/ Claim(s) \/ DenyRecipient(s) \/ Select(s) \/ SaveProgress(s)
    \/ EnqueueDigest(s) \/ RescheduleDigest(s) \/ RecordDigest(s)
    \/ CheckClaim(s) \/ RevalidateClaim(s) \/ IssueRequest(s)
    \/ ReplyArrives(s) \/ TelegramRejects(s) \/ AnswerLost(s) \/ RequestFails(s)
    \/ SaveFailure(s) \/ RecordHistory(s) \/ RecordAborted(s)
    \/ RescheduleDelivered(s) \/ ClearFailure(s)
    \/ ReadEmpties(s) \/ BackOff(s)
    \/ Defer(s) \/ CancelDefer(s) \/ Release(s)
    \/ CancelDuringClaim(s) \/ CancelDuringDenial(s) \/ CancelBeforeDelivery(s)
    \/ CancelDuringDelivery(s) \/ CancelDuringHandler(s)

Fault(s) == StatementFails(s) \/ HandlerFails(s) \/ WorkerRaises(s)
Heartbeat(s) == RenewClaim(s) \/ LoseClaim(s)

Step ==
    \/ Loop \/ WaitForLock
    \/ \E s \in Subs : \/ StartWorker(s) \/ WorkerStep(s) \/ Fault(s)
                       \/ Heartbeat(s) \/ TelegramAccepts(s)
                       \/ DeliverDigest(s) \/ LoseLock(s)
    \/ Shutdown \/ ShutdownCompletes \/ Crash \/ Restart
    \/ Command
    \/ Tick /\ UNCHANGED <<loopVars, worker, storedVars, telegramVars, settings>>

Next == Step /\ Watch

Spec == Init /\ [][Next]_vars

(***************************************************************************)
(* Properties.                                                             *)
(***************************************************************************)
\* The variables have their types, and a worker past its claim has a token.
TypeOK ==
    /\ RowsOK
    /\ process \in {"up", "stopping", "down"}
    /\ pass \in {"sleep", "scan", "serve", "digest", "stuck"}
    /\ todo \subseteq Subs
    /\ own \subseteq Subs /\ jammed \subseteq Subs
    /\ worker \in [Subs -> Worker]
    /\ \A s \in Subs :
         worker[s].token = NoToken <=> worker[s].stage \in {"idle", "claim"}
    /\ progress \in [Subs -> BOOLEAN]
    /\ history \in [Subs -> SUBSET Post]
    /\ userHistory \in [Users -> SUBSET Post]
    /\ digest \in [Subs -> SUBSET Post]
    /\ failures \in [Users -> SUBSET Post]
    /\ accepted \in [Users -> [Post -> 0..2]]
    /\ unacked \in [Users -> SUBSET Post]
    /\ allowed \in Configurations
    /\ crashes \in 0..MaxCrashes
    /\ blind \in [Subs -> 0..2]

\* A user gets a post a second time only when an earlier acceptance was never
\* recorded: the answer was lost, the claim or the process was lost before
\* the acknowledgement, or the acknowledgement itself failed.  Overlapping
\* subscriptions, overlapping passes and restarts alone never repeat one.
NoUnexplainedDuplicate ==
    \A u \in Users, p \in Post : accepted[u][p] > 1 => p \in unacked[u]

\* What Telegram accepted is in the user's history, on its way there, or
\* among the deliveries nobody could acknowledge.
AcceptedAccounted ==
    \A u \in Users, p \in Post :
        accepted[u][p] > 0 =>
            \/ p \in userHistory[u] \cup unacked[u]
            \/ \E s \in Busy : /\ Owner[s] = u /\ worker[s].post = p
                               /\ Unrecorded(s)

\* However many retries a send needs, a subscription that was paused,
\* disabled, removed or rescheduled under it lets one more request out at
\* most: the one issued between the check and the send.
OneSendAfterRevocation == \A s \in Subs : blind[s] <= 1

\* A removed subscription leaves nothing its worker brings back: neither a
\* history nor an item in the digest queue.
RemovedLeavesNothing ==
    \A s \in Subs : ~sub[s].present => history[s] = {} /\ digest[s] = {}

\* What _save says of itself: "A deleted subscription must never resurrect
\* progress."
NoResurrectedProgress == \A s \in Subs : progress[s] => sub[s].present

\* The workers are clients of the claim protocol: its fencing holds for them.
Protocol == INSTANCE SubscriptionClaim WITH held <- HeldTokens
ProtocolSpec == Protocol!Spec

(***************************************************************************)
(* Liveness.  The event loop runs every task that can run and Telegram or  *)
(* its client's timeout answers every request, so a pass ends unless it    *)
(* waits for a lock that is lost.  A database statement that is tried for  *)
(* ever succeeds some time.                                                *)
(***************************************************************************)
Fairness ==
    /\ WF_vars(Loop /\ Watch)
    /\ WF_vars(Tick /\ UNCHANGED <<loopVars, worker, storedVars, telegramVars,
                                   settings>> /\ Watch)
    /\ WF_vars(ShutdownCompletes /\ Watch)
    /\ WF_vars(Restart /\ Watch)
    /\ \A s \in Subs :
         /\ SF_vars(StartWorker(s) /\ Watch)
         /\ SF_vars(Claim(s) /\ Watch)
         /\ WF_vars(WorkerStep(s) /\ Watch)

FairSpec == Spec /\ Fairness

\* A row never stays claimed: every worker ends, or its lease runs out.
ClaimEnds == \A s \in Subs : sub[s].lease > 0 ~> sub[s].lease = 0

\* A row that is due is claimed, or its user changes it, as long as the
\* process stays up; broken and overlapping passes do not lose it.  What does
\* is a pass that waits for a digest lock nobody gives back.
DueServed ==
    \A s \in Subs :
        Claimable(s) ~> \/ ~Claimable(s)
                        \/ process # "up" \/ pass = "stuck"

=============================================================================
