--------------------------- MODULE DeliveryFailures ---------------------------
(***************************************************************************)
(* The table of failed deliveries and /retry_failed: each run leases the   *)
(* failures it finds under one token, sends the posts one after the other  *)
(* and deletes what was delivered while its lease was running.  Runs of    *)
(* several administrators overlap with each other, with the subscription   *)
(* worker, which saves and clears failures, with access being revoked and  *)
(* with the end of the process.                                            *)
(***************************************************************************)
EXTENDS MediaDelivery

CONSTANTS
    Failures,           \* a post for a user each
    Urls,               \* how many URLs the saved post has
    RetryToken, NoRetryToken,
    ClaimLimit,         \* failures a run claims
    FailureLease,       \* DELIVERY_FAILURE_CLAIM_MINUTES
    Contested,          \* bound: the failures the subscription worker touches
    MaxRuns             \* bound: runs of /retry_failed

VARIABLES
    saved, permanent,   \* the failures in the table, and those marked
    claim_token, claim_left,        \* columns of each, ticks until claim_until
    allowed,            \* the users' access has not been revoked
    run,                \* per sender: the run it is in
    runs,
    received,           \* history: the failures whose post was ever accepted
    copies,             \* history: how often since the failure was saved
    unacknowledged,     \* history: how often without deleting the failure
    late                \* history: the runs whose lease ran out on their post

ASSUME FailuresAssumption ==
    /\ Urls \in [Failures -> 0..MostUrls]
    /\ NoRetryToken \notin RetryToken
    /\ FailureLease \in Nat \ {0}
    /\ Contested \subseteq Failures
    /\ IsFiniteSet(Senders)

tableVars == <<saved, permanent, claim_token, claim_left>>
pastVars == <<received, copies, unacknowledged, late>>
failureVars == <<chain, tableVars, allowed, run, runs, pastVars>>

NoRun == [at |-> "idle", token |-> NoRetryToken, todo |-> {}, post |-> {}]

FailuresInit ==
    /\ ChainInit
    /\ saved = Failures
    /\ permanent = {}
    /\ claim_token = [f \in Failures |-> NoRetryToken]
    /\ claim_left = [f \in Failures |-> 0]
    /\ allowed = TRUE
    /\ run = [w \in Senders |-> NoRun]
    /\ runs = 0
    /\ received = {}
    /\ copies = [f \in Failures |-> 0]
    /\ unacknowledged = [f \in Failures |-> 0]
    /\ late = {}

(***************************************************************************)
(* The statements.                                                         *)
(***************************************************************************)
OwnedBy(t) == {f \in saved : claim_token[f] = t}

Running(f, t) == f \in OwnedBy(t) /\ claim_left[f] > 0

\* Mutant of Retryable: another run's lease is not looked at.
RetryableAnyhow(f) == f \in saved \ permanent

Retryable(f) ==
    /\ f \in saved \ permanent
    /\ claim_token[f] = NoRetryToken \/ claim_left[f] = 0

SendersOf(f) == {w \in Senders : f \in run[w].post}

\* save_delivery_failure: an old failure keeps its mark and its claim.  Of a
\* new one the runs that still send for a deleted one know nothing.
SaveFailure(f) ==
    /\ saved' = saved \cup {f}
    /\ copies' = [copies EXCEPT ![f] = IF f \in saved THEN @ ELSE 0]
    /\ unacknowledged' = [unacknowledged EXCEPT ![f] =
           IF f \in saved THEN @ ELSE Cardinality(SendersOf(f))]
    /\ UNCHANGED <<permanent, claim_token, claim_left, received, late>>

\* the DELETEs
Erase(f) ==
    /\ saved' = saved \ {f}
    /\ permanent' = permanent \ {f}
    /\ claim_token' = [claim_token EXCEPT ![f] = NoRetryToken]
    /\ claim_left' = [claim_left EXCEPT ![f] = 0]

Unclaim(t) ==
    /\ claim_token' = [f \in Failures |->
           IF claim_token[f] = t THEN NoRetryToken ELSE claim_token[f]]
    /\ claim_left' = [f \in Failures |->
           IF claim_token[f] = t THEN 0 ELSE claim_left[f]]

(***************************************************************************)
(* A run of /retry_failed.                                                 *)
(***************************************************************************)
Unknown(t) ==
    /\ \A w \in Senders : run[w].token # t
    /\ \A f \in Failures : claim_token[f] # t

RunMoves(w, new) == run' = [run EXCEPT ![w] = new]

\* claim_delivery_failures, one transaction.  Which of the claimable failures
\* are the oldest is left open.
ClaimFailures(w, t, F) ==
    /\ run[w].at = "idle"
    /\ runs < MaxRuns
    /\ Unknown(t)
    /\ F # {}
    /\ \A f \in F : Retryable(f)
    /\ Cardinality(F) <= ClaimLimit
    /\ Cardinality(F) = ClaimLimit \/ (\A f \in Failures \ F : ~Retryable(f))
    /\ claim_token' = [f \in Failures |-> IF f \in F THEN t ELSE claim_token[f]]
    /\ claim_left' = [f \in Failures |-> IF f \in F THEN FailureLease ELSE claim_left[f]]
    /\ RunMoves(w, [at |-> "loop", token |-> t, todo |-> F, post |-> {}])
    /\ runs' = runs + 1
    /\ UNCHANGED <<chain, saved, permanent, allowed, pastVars>>

\* The next failure: skipped without access, else its post sets out.
TakeFailure(w, f) ==
    /\ run[w].at = "loop"
    /\ f \in run[w].todo
    /\ \/ /\ ~allowed
          /\ RunMoves(w, [run[w] EXCEPT !.todo = @ \ {f}])
          /\ UNCHANGED chain
       \/ /\ allowed
          /\ RunMoves(w, [run[w] EXCEPT !.todo = @ \ {f}, !.post = {f}, !.at = "delivering"])
          /\ Begin(w, Urls[f])
    /\ UNCHANGED <<tableVars, allowed, runs, pastVars>>

\* Mutant of Renewable: a lapsed lease is renewed, too.
RenewableByToken(w, f) == f \in OwnedBy(run[w].token)

Renewable(w, f) == Running(f, run[w].token)

\* retry_precondition, when the request has its slot: access and a lease that
\* is still running, which starts anew.
SendFailure(w, f) ==
    LET may == allowed /\ Renewable(w, f)
    IN  /\ f \in run[w].post
        /\ Dispatch(w, may)
        /\ claim_left' = IF may THEN [claim_left EXCEPT ![f] = FailureLease] ELSE claim_left
        /\ UNCHANGED <<saved, permanent, claim_token, allowed, run, runs, pastVars>>

\* What happens to the post of a run; the chat may have got it.
PostMoves(w, f) ==
    LET gained == chain'[w].copies - chain[w].copies
        unsure == chain'[w].result = "ambiguous"
    IN  /\ f \in run[w].post
        /\ Outcome(w)
        /\ copies' = [copies EXCEPT ![f] = @ + gained]
        /\ received' = IF gained > 0 THEN received \cup {f} ELSE received
        /\ unacknowledged' = IF unsure THEN [unacknowledged EXCEPT ![f] = @ + gained]
                             ELSE unacknowledged
        /\ UNCHANGED <<tableVars, allowed, run, runs, late>>

BackToLoop(w) ==
    /\ RunMoves(w, [run[w] EXCEPT !.at = "loop", !.post = {}])
    /\ Moves(w, Resting)

\* Mutant of Settles: whatever the request said.
SettlesAnyhow(w) == TRUE

Settles(w) == chain[w].result = "sent"

\* After the chain: delete what was sent if the lease is still running (the
\* statement may fail), mark what was rejected, keep the rest.
SettleFailure(w, f) ==
    /\ f \in run[w].post
    /\ chain[w].at = "done"
    /\ BackToLoop(w)
    /\ \/ /\ Settles(w)
          /\ Running(f, run[w].token)
          /\ Erase(f)
          /\ UNCHANGED unacknowledged
       \/ /\ Settles(w)
          /\ unacknowledged' = [unacknowledged EXCEPT ![f] =
                 IF Running(f, run[w].token) \/ w \in late THEN @ + 1 ELSE @]
          /\ UNCHANGED tableVars
       \/ /\ ~Settles(w)
          /\ permanent' = IF chain[w].result = "rejected" /\ f \in OwnedBy(run[w].token)
                          THEN permanent \cup {f} ELSE permanent
          /\ UNCHANGED <<saved, claim_token, claim_left, unacknowledged>>
    /\ late' = late \ {w}
    /\ UNCHANGED <<allowed, runs, received, copies>>

\* Whose requests Telegram may have accepted, should they be given up.
UnderWay == {w \in Senders : chain[w].at = "sending" /\ chain[w].via # "notice"}

\* The tasks W end, with the requests of `accepted` accepted nevertheless.
GiveUp(W, accepted) ==
    LET arrived(f) == Cardinality({w \in accepted : f \in run[w].post})
        sent(f) == Cardinality({w \in W : f \in run[w].post /\ chain[w].result = "sent"})
    IN  /\ run' = [w \in Senders |-> IF w \in W THEN NoRun ELSE run[w]]
        /\ chain' = [w \in Senders |-> IF w \in W THEN Resting ELSE chain[w]]
        /\ received' = received \cup UNION {run[w].post : w \in accepted}
        /\ copies' = [f \in Failures |-> copies[f] + arrived(f)]
        /\ unacknowledged' = [f \in Failures |-> unacknowledged[f] + arrived(f) + sent(f)]
        /\ late' = late \ W

\* The run is over or cancelled, its last statement frees what it has left.
EndRun(w) ==
    /\ run[w].at # "idle"
    /\ \E accepted \in SUBSET (UnderWay \cap {w}) : GiveUp({w}, accepted)
    /\ Unclaim(run[w].token)
    /\ UNCHANGED <<saved, permanent, allowed, runs>>

(***************************************************************************)
(* Everybody else.                                                         *)
(***************************************************************************)
\* The subscription worker fails to deliver the post.
SavedAgain(f) ==
    /\ SaveFailure(f)
    /\ UNCHANGED <<chain, allowed, run, runs>>

\* It delivers the post, and clears the failure a moment later.
DeliveredElsewhere(f) ==
    /\ f \notin received
    /\ received' = received \cup {f}
    /\ copies' = [copies EXCEPT ![f] = @ + 1]
    /\ unacknowledged' = [unacknowledged EXCEPT ![f] = @ + 1]
    /\ UNCHANGED <<chain, tableVars, allowed, run, runs, late>>

ClearFailure(f) ==
    /\ f \in saved \cap received
    /\ Erase(f)
    /\ UNCHANGED <<chain, allowed, run, runs, pastVars>>

RevokeAccess ==
    /\ allowed
    /\ allowed' = FALSE
    /\ UNCHANGED <<chain, tableVars, run, runs, pastVars>>

LeaseTick ==
    /\ \E f \in Failures : claim_left[f] > 0
    /\ claim_left' = [f \in Failures |->
           IF claim_left[f] > 0 THEN claim_left[f] - 1 ELSE 0]
    /\ late' = late \cup {w \in Senders : \E f \in run[w].post :
                               /\ claim_token[f] = run[w].token /\ claim_left[f] = 1
                               /\ chain[w].at \in {"sending", "done"}}
    /\ UNCHANGED <<chain, saved, permanent, claim_token, allowed, run, runs,
                   received, copies, unacknowledged>>

\* The process dies.
RetryCrash ==
    /\ \E w \in Senders : run[w].at # "idle"
    /\ \E accepted \in SUBSET UnderWay : GiveUp(Senders, accepted)
    /\ UNCHANGED <<tableVars, allowed, runs>>

FailuresNext ==
    \/ \E w \in Senders, t \in RetryToken, F \in SUBSET Failures : ClaimFailures(w, t, F)
    \/ \E w \in Senders, f \in Failures :
          TakeFailure(w, f) \/ SendFailure(w, f) \/ PostMoves(w, f) \/ SettleFailure(w, f)
    \/ \E w \in Senders : EndRun(w)
    \/ \E f \in Contested : SavedAgain(f) \/ DeliveredElsewhere(f) \/ ClearFailure(f)
    \/ RevokeAccess \/ LeaseTick \/ RetryCrash

FailuresSpec == FailuresInit /\ [][FailuresNext]_failureVars

(***************************************************************************)
(* Properties.                                                             *)
(***************************************************************************)
FailuresTypeOK ==
    /\ ChainTypeOK
    /\ permanent \subseteq saved /\ saved \subseteq Failures
    /\ claim_token \in [Failures -> RetryToken \cup {NoRetryToken}]
    /\ claim_left \in [Failures -> 0..FailureLease]
    /\ \A f \in Failures : claim_left[f] > 0 => claim_token[f] # NoRetryToken
    /\ \A w \in Senders : run[w].post # {} <=> chain[w].at # "idle"

\* Runs that have sent the post of f after their lease ran out.
TooLate(f) == {w \in late : f \in run[w].post /\ chain[w].result = "sent"}

\* Each copy of a post beyond the first has its own reason: an answer that
\* never came, a lease that ran out while the post was sent, a DELETE or a
\* process that failed before the failure was gone, a delivery elsewhere, or a
\* failure deleted and saved anew meanwhile.
RetryDuplicatesExcused ==
    \A f \in Failures :
        copies[f] <= 1 + unacknowledged[f] + Cardinality(TooLate(f))

\* A failure leaves the table only when its post has reached the user.
FailureKept ==
    [][\A f \in saved : f \notin saved' => f \in received']_failureVars

RetryLease == INSTANCE FencedLease WITH
    Resource <- Failures, Token <- RetryToken, NoToken <- NoRetryToken,
    holder <- claim_token,
    live <- {f \in Failures : claim_left[f] > 0},
    known <- {run[w].token : w \in {v \in Senders : run[v].at # "idle"}}

\* The claims on the failures are a fenced lease: two runs never hold the same
\* failure, and a run that has lost one never gets it back under its token.
RetryLeases == RetryLease!Spec

=============================================================================
