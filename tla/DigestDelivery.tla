--------------------------- MODULE DigestDelivery ---------------------------
(***************************************************************************)
(* The digest of one user: queued items are claimed in batches, each under *)
(* a lease and the locks of its subscriptions, sent as an album or one by  *)
(* one, and settled.  The loop of process_subscriptions and every press of *)
(* "send now" are deliverers; between awaits a deliverer is one action.    *)
(*                                                                         *)
(* Time is relative, as in SubscriptionRows: a lease or a retry is the     *)
(* number of ticks left until it passes.  An item is enqueued once; what   *)
(* selects it is the worker of SubscriptionDelivery.                       *)
(***************************************************************************)
EXTENDS Integers, FiniteSets

CONSTANTS
    Item,           \* (query, post_id), the keys of the queue
    Subs, SubOf,    \* [Item -> Subs]
    Order,          \* [Subs -> Nat], the order of the queries as strings
    Album,          \* the items prepare_gallery_album_posts accepts
    Deliverers,
    Token, NoToken,
    BatchLimit,     \* 10
    LeaseTicks,     \* DIGEST_CLAIM_MINUTES
    RetryTicks,     \* ambiguous_backoff_seconds
    Disturbances    \* bound: commands of the user, failures and crashes

ASSUME DigestAssumption ==
    /\ IsFiniteSet(Subs)
    /\ SubOf \in [Item -> Subs]
    /\ Order \in [Subs -> Nat]
    /\ \A r, s \in Subs : Order[r] = Order[s] => r = s
    /\ Album \subseteq Item
    /\ NoToken \notin Token
    /\ BatchLimit \in Nat \ {0}
    /\ LeaseTicks \in Nat \ {0}
    /\ RetryTicks \in Nat \ {0}
    /\ Disturbances \in Nat

VARIABLES
    row,            \* subscription_digest_queue
    subs,           \* is_active of each subscription, or "removed"
    paused,         \* subscription_pause_until is to come
    deliverer,
    locked,         \* the subscriptions whose digest lock is taken
    disturbed       \* how many disturbances there were

\* What nobody can observe.
VARIABLES
    sent,           \* how often Telegram accepted an item (up to 2)
    excused         \* items a delivery was interrupted for

userVars == <<subs, paused>>
ghosts == <<sent, excused>>
vars == <<row, userVars, deliverer, locked, disturbed, ghosts>>

Row == [state : {"new", "queued", "gone"}, token : Token \cup {NoToken},
        lease : 0..LeaseTicks, retry : 0..RetryTicks]

NewRow == [state |-> "new", token |-> NoToken, lease |-> 0, retry |-> 0]
Gone == [NewRow EXCEPT !.state = "gone"]

\* The stages in which DigestClaimLease has its heartbeat.
Leased == {"album", "items", "wire", "finish"}

Deliverer ==
    [stage : {"idle", "locks", "keys", "start", "release"} \cup Leased,
     token : Token \cup {NoToken}, batch : SUBSET Item, locks : SUBSET Subs,
     left : SUBSET Item, in_flight : SUBSET Item, taken : BOOLEAN,
     delivered : SUBSET Item, ambiguous : SUBSET Item,
     lost : BOOLEAN]

Idle == [stage |-> "idle", token |-> NoToken, batch |-> {}, locks |-> {},
         left |-> {}, in_flight |-> {}, taken |-> FALSE,
         delivered |-> {}, ambiguous |-> {}, lost |-> FALSE]

Disturb == disturbed < Disturbances /\ disturbed' = disturbed + 1

At(d, stage) == deliverer[d].stage = stage
Become(d, new) == deliverer' = [deliverer EXCEPT ![d] = new]
Goto(d, stage) == Become(d, [deliverer[d] EXCEPT !.stage = stage])

Queued(i) == row[i].state = "queued"
Serving(i) == subs[SubOf[i]] = "active" /\ ~paused

\* The items of a token, whether its lease still runs or not.
HeldBy(t) == {i \in Item : Queued(i) /\ row[i].token = t}

\* The rows the renewal and get_subscription_digest_claim_keys find.
OwnedBy(t) == {i \in HeldBy(t) : row[i].lease > 0 /\ Serving(i)}

Unused(t) ==
    /\ \A i \in Item : row[i].token # t
    /\ \A d \in Deliverers : deliverer[d].token # t

(***************************************************************************)
(* The claim and the locks.                                                *)
(***************************************************************************)
\* Mutant of Eligible: the lease of another batch is not looked at.
EligibleLeased(i) == Queued(i) /\ Serving(i) /\ row[i].retry = 0

Eligible(i) == Queued(i) /\ Serving(i) /\ row[i].retry = 0 /\ row[i].lease = 0

\* The oldest BatchLimit items; how old an item is stays open.  Which new
\* token it is does not matter.
Claim(d) ==
    /\ At(d, "idle")
    /\ \E t \in Token : Unused(t)
    /\ LET t == CHOOSE t \in Token : Unused(t)
           eligible == {i \in Item : Eligible(i)}
       IN  \E batch \in (SUBSET eligible) \ {{}} :
             /\ \/ Cardinality(batch) = BatchLimit
                \/ Cardinality(batch) < BatchLimit /\ batch = eligible
             /\ row' = [i \in Item |->
                          IF i \in batch
                          THEN [row[i] EXCEPT !.token = t,
                                              !.lease = LeaseTicks]
                          ELSE row[i]]
             /\ Become(d, [Idle EXCEPT !.stage = "locks", !.token = t,
                                       !.batch = batch])
    /\ UNCHANGED <<userVars, locked, disturbed, ghosts>>

Missing(d) == {SubOf[i] : i \in deliverer[d].batch} \ deliverer[d].locks

\* Mutant of NextLock: the locks are taken in any order.
AnyLock(d) == Missing(d)

\* sorted({...}): the locks are taken in the order of their queries.
NextLock(d) ==
    {s \in Missing(d) : \A r \in Missing(d) : Order[s] <= Order[r]}

TakeLock(d) ==
    /\ At(d, "locks")
    /\ \E s \in NextLock(d) \ locked :
          /\ locked' = locked \cup {s}
          /\ Become(d, [deliverer[d] EXCEPT !.locks = @ \cup {s},
                !.stage = IF Missing(d) = {s} THEN "keys" ELSE "locks"])
    /\ UNCHANGED <<row, userVars, disturbed, ghosts>>

\* What is still owned once the locks are: the wait may outlast the lease.
\* A lease that is not started is as good as lost.
ReadKeys(d) ==
    /\ At(d, "keys")
    /\ LET active == deliverer[d].batch \cap OwnedBy(deliverer[d].token)
       IN  Become(d, [deliverer[d] EXCEPT !.batch = active,
                        !.lost = (active = {}),
                        !.stage = IF active = {} THEN "finish" ELSE "start"])
    /\ UNCHANGED <<row, userVars, locked, disturbed, ghosts>>

(***************************************************************************)
(* DigestClaimLease.                                                       *)
(***************************************************************************)
\* ensure_owned found a row to renew.  One is enough, and only rows that are
\* owned are renewed.
Renewed(d) ==
    /\ ~deliverer[d].lost
    /\ OwnedBy(deliverer[d].token) # {}
    /\ row' = [i \in Item |-> IF i \in OwnedBy(deliverer[d].token)
                              THEN [row[i] EXCEPT !.lease = LeaseTicks]
                              ELSE row[i]]

\* ensure_owned found none, or raised, or already had.
NotRenewed == UNCHANGED row

\* The heartbeat that raises: the renewals that succeed are part of Tick.
LoseClaim(d) ==
    /\ Disturb
    /\ deliverer[d].stage \in Leased /\ ~deliverer[d].lost
    /\ Become(d, [deliverer[d] EXCEPT !.lost = TRUE])
    /\ UNCHANGED <<row, userVars, locked, ghosts>>

\* partition_digest_posts: an album takes two items at least.
AlbumOf(batch) ==
    IF Cardinality(batch \cap Album) > 1 THEN batch \cap Album ELSE {}

Start(d) ==
    /\ At(d, "start")
    /\ LET album == AlbumOf(deliverer[d].batch)
       IN  \/ /\ Renewed(d)
              /\ Become(d, [deliverer[d] EXCEPT
                    !.stage = IF album = {} THEN "items" ELSE "album",
                    !.left = @ \cup (deliverer[d].batch \ album)])
           \/ /\ NotRenewed
              /\ Become(d, [deliverer[d] EXCEPT !.stage = "finish",
                                                !.lost = TRUE])
    /\ UNCHANGED <<userVars, locked, disturbed, ghosts>>

(***************************************************************************)
(* The send.  The checks before it and inside the operation are one step,  *)
(* with the request that follows them and the retries of an item.          *)
(***************************************************************************)
CheckedSend(d, items) ==
    \/ /\ Renewed(d)
       /\ Become(d, [deliverer[d] EXCEPT !.stage = "wire",
                       !.in_flight = items, !.left = @ \ items,
                       !.taken = FALSE])
    \/ /\ NotRenewed
       /\ Become(d, [deliverer[d] EXCEPT !.stage = "finish", !.lost = TRUE])

SendAlbum(d) ==
    /\ At(d, "album")
    /\ CheckedSend(d, AlbumOf(deliverer[d].batch))
    /\ UNCHANGED <<userVars, locked, disturbed, ghosts>>

SendItem(d) ==
    /\ At(d, "items")
    /\ \E i \in deliverer[d].left : CheckedSend(d, {i})
    /\ UNCHANGED <<userVars, locked, disturbed, ghosts>>

Once(n) == IF n = 2 THEN 2 ELSE n + 1

TelegramAccepts(d) ==
    /\ At(d, "wire") /\ ~deliverer[d].taken
    /\ Become(d, [deliverer[d] EXCEPT !.taken = TRUE])
    /\ sent' = [i \in Item |-> IF i \in deliverer[d].in_flight
                               THEN Once(sent[i]) ELSE sent[i]]
    /\ UNCHANGED <<row, userVars, locked, disturbed, excused>>

\* The request in flight is over; its items go to one of the buckets.
Answered(d, stage, delivered, ambiguous) ==
    Become(d, [deliverer[d] EXCEPT !.stage = stage, !.in_flight = {},
                 !.taken = FALSE, !.delivered = @ \cup delivered,
                 !.ambiguous = @ \cup ambiguous])

Confirmed(d) ==
    /\ At(d, "wire") /\ deliverer[d].taken
    /\ Answered(d, "items", deliverer[d].in_flight, {})
    /\ UNCHANGED <<row, userVars, locked, disturbed, ghosts>>

\* RetryAfter for an album, any definite error for an item: the rest of the
\* batch has failed.
RejectedForAll(d) ==
    /\ At(d, "wire") /\ ~deliverer[d].taken
    /\ Answered(d, "finish", {}, {})
    /\ UNCHANGED <<row, userVars, locked, disturbed, ghosts>>

\* An album Telegram does not take is sent item by item; an item that was
\* not delivered is left for a later batch.
Rejected(d) ==
    /\ Disturb
    /\ At(d, "wire") /\ ~deliverer[d].taken
    /\ Become(d, [deliverer[d] EXCEPT !.stage = "items", !.in_flight = {},
                    !.left = IF Cardinality(deliverer[d].in_flight) > 1
                             THEN @ \cup deliverer[d].in_flight ELSE @])
    /\ UNCHANGED <<row, userVars, locked, ghosts>>

InFlightExcused(d) == IF deliverer[d].taken THEN deliverer[d].in_flight ELSE {}

\* TimedOut or another NetworkError.
AnswerLost(d) ==
    /\ Disturb
    /\ At(d, "wire")
    /\ Answered(d, "items", {}, deliverer[d].in_flight)
    /\ excused' = excused \cup InFlightExcused(d)
    /\ UNCHANGED <<row, userVars, locked, sent>>

(***************************************************************************)
(* The end of a delivery.                                                  *)
(***************************************************************************)
Unclaimed(r) == [r EXCEPT !.token = NoToken, !.lease = 0]

\* Mutant of Settled: an item with an unknown outcome counts as delivered.
SettledAmbiguous(d, i) ==
    IF i \in deliverer[d].delivered \cup deliverer[d].ambiguous
    THEN Gone ELSE Unclaimed(row[i])

\* What finish_subscription_digest_claim makes of an item of the batch:
\* delivered, deferred, or back in the queue.
Settled(d, i) ==
    IF i \in deliverer[d].delivered THEN Gone
    ELSE IF i \in deliverer[d].ambiguous
    THEN [Unclaimed(row[i]) EXCEPT !.retry = RetryTicks]
    ELSE Unclaimed(row[i])

Unlock(d) == locked' = locked \ deliverer[d].locks

Done(d) ==
    \/ At(d, "finish")
    \/ At(d, "items") /\ deliverer[d].left = {}

Finish(d) ==
    /\ Done(d)
    /\ row' = [i \in Item |-> IF i \in HeldBy(deliverer[d].token)
                              THEN Settled(d, i) ELSE row[i]]
    /\ Unlock(d)
    /\ Become(d, Idle)
    /\ UNCHANGED <<userVars, disturbed, ghosts>>

Released(t) == [i \in Item |-> IF i \in HeldBy(t) THEN Unclaimed(row[i])
                               ELSE row[i]]

Release(d) ==
    /\ At(d, "release")
    /\ row' = Released(deliverer[d].token)
    /\ Unlock(d)
    /\ Become(d, Idle)
    /\ UNCHANGED <<userVars, disturbed, ghosts>>

\* A statement of the delivery raises: the `finally` block releases.
StatementFails(d) ==
    /\ Disturb
    /\ At(d, "keys") \/ At(d, "start") \/ Done(d)
    /\ Goto(d, "release")
    /\ excused' = excused \cup deliverer[d].delivered
    /\ UNCHANGED <<row, userVars, locked, sent>>

\* The release itself raises, or ends with a cancellation it was shielded
\* from: either leaves the `finally` block before it unlocks.
ReleaseFails(d) ==
    /\ Disturb
    /\ At(d, "release")
    /\ row' \in {row, Released(deliverer[d].token)}
    /\ Become(d, Idle)
    /\ UNCHANGED <<userVars, locked, ghosts>>

\* The task is cancelled at an await: a send ends with what it has, the
\* acquisition gives its locks back, everything else is released.  Finishing
\* is shielded.
Cancel(d) ==
    /\ Disturb
    /\ \/ /\ deliverer[d].stage \in {"locks", "keys", "start"}
          /\ Become(d, [deliverer[d] EXCEPT !.stage = "release", !.locks =
                          IF At(d, "locks") THEN {} ELSE @])
          /\ locked' = IF At(d, "locks") THEN locked \ deliverer[d].locks
                       ELSE locked
       \/ /\ deliverer[d].stage \in {"album", "items", "wire"}
          /\ Answered(d, "finish", {}, deliverer[d].in_flight)
          /\ UNCHANGED locked
    /\ excused' = excused \cup InFlightExcused(d)
    /\ UNCHANGED <<row, userVars, sent>>

(***************************************************************************)
(* Everybody else.                                                         *)
(***************************************************************************)
Enqueue(i) ==
    /\ row[i].state = "new"
    /\ subs[SubOf[i]] = "active"
    /\ row' = [row EXCEPT ![i].state = "queued"]
    /\ UNCHANGED <<userVars, deliverer, locked, disturbed, ghosts>>

Toggle(s) ==
    /\ Disturb
    /\ subs[s] # "removed"
    /\ subs' = [subs EXCEPT ![s] = IF @ = "active" THEN "inactive" ELSE "active"]
    /\ UNCHANGED <<row, paused, deliverer, locked, ghosts>>

\* sub_remove_do: the rows go under the lock of the subscription.
Remove(s) ==
    /\ Disturb
    /\ subs[s] # "removed"
    /\ s \notin locked
    /\ subs' = [subs EXCEPT ![s] = "removed"]
    /\ row' = [i \in Item |-> IF SubOf[i] = s /\ Queued(i) THEN Gone ELSE row[i]]
    /\ UNCHANGED <<paused, deliverer, locked, ghosts>>

\* The user pauses or resumes; a pause that ends resumes as well.
Pause ==
    /\ Disturb
    /\ paused' = ~paused
    /\ UNCHANGED <<row, subs, deliverer, locked, ghosts>>

Less(n) == IF n = 0 THEN 0 ELSE n - 1

\* What the heartbeats keep alive.
Beating(d) == deliverer[d].stage \in Leased /\ ~deliverer[d].lost
KeptAlive ==
    UNION {OwnedBy(deliverer[d].token) : d \in {e \in Deliverers : Beating(e)}}

\* The items whose lease runs out under a delivery.
Lapsing ==
    {i \in Item \ KeptAlive :
        /\ row[i].lease = 1
        /\ \E d \in Deliverers : /\ deliverer[d].stage \in {"start"} \cup Leased
                                 /\ deliverer[d].token = row[i].token}

\* A tick is no longer than a lease and lasts many heartbeats: what they
\* renew does not age, and one that has nothing to renew has ended by then.
Tick ==
    /\ row' = [i \in Item |->
                 [row[i] EXCEPT !.lease = IF i \in KeptAlive THEN LeaseTicks
                                          ELSE Less(@),
                                !.retry = Less(@)]]
    /\ deliverer' = [d \in Deliverers |->
                       [deliverer[d] EXCEPT !.lost =
                          \/ @
                          \/ Beating(d) /\ OwnedBy(deliverer[d].token) = {}]]
    /\ excused' = excused \cup Lapsing
    /\ UNCHANGED <<userVars, locked, disturbed, sent>>

\* Leases outlive the process, locks do not.
Crash ==
    /\ Disturb
    /\ locked' = {}
    /\ deliverer' = [d \in Deliverers |-> Idle]
    /\ excused' = excused \cup UNION {InFlightExcused(d) \cup
                     deliverer[d].delivered : d \in Deliverers}
    /\ UNCHANGED <<row, userVars, sent>>

(***************************************************************************)
(* The specification.                                                      *)
(***************************************************************************)
Init ==
    /\ row = [i \in Item |-> NewRow]
    /\ subs = [s \in Subs |-> "active"]
    /\ paused = FALSE
    /\ deliverer = [d \in Deliverers |-> Idle]
    /\ locked = {}
    /\ disturbed = 0
    /\ sent = [i \in Item |-> 0]
    /\ excused = {}

Next ==
    \/ \E d \in Deliverers :
          \/ Claim(d) \/ TakeLock(d) \/ ReadKeys(d)
          \/ Start(d) \/ LoseClaim(d) \/ SendAlbum(d) \/ SendItem(d)
          \/ TelegramAccepts(d) \/ Confirmed(d) \/ AnswerLost(d)
          \/ RejectedForAll(d) \/ Rejected(d) \/ Finish(d) \/ Release(d)
          \/ StatementFails(d) \/ ReleaseFails(d) \/ Cancel(d)
    \/ \E i \in Item : Enqueue(i)
    \/ \E s \in Subs : Toggle(s) \/ Remove(s)
    \/ Pause \/ Tick \/ Crash

Spec == Init /\ [][Next]_vars

(***************************************************************************)
(* Properties.                                                             *)
(***************************************************************************)
HeldLocks == UNION {deliverer[d].locks : d \in Deliverers}

\* The variables have their types; a lock has one holder at most, and a
\* delivery holds the locks of all its items.
TypeOK ==
    /\ row \in [Item -> Row]
    /\ \A i \in Item : Queued(i) \/ row[i].token = NoToken
    /\ subs \in [Subs -> {"active", "inactive", "removed"}]
    /\ paused \in BOOLEAN
    /\ deliverer \in [Deliverers -> Deliverer]
    /\ locked \in SUBSET Subs
    /\ HeldLocks \subseteq locked
    /\ \A d, e \in Deliverers :
          d # e => deliverer[d].locks \cap deliverer[e].locks = {}
    /\ \A d \in Deliverers :
          deliverer[d].stage \in {"keys", "start"} \cup Leased => Missing(d) = {}
    /\ disturbed \in 0..Disturbances
    /\ sent \in [Item -> 0..2]
    /\ excused \subseteq Item

\* The user gets an item of the digest a second time only after an answer
\* that was lost, a settlement that failed, a crash, or a lease that ran out
\* under the delivery.  Two deliverers alone never repeat one.
RepeatsExcused == \A i \in Item : sent[i] > 1 => i \in excused

\* "Delete confirmed items, defer ambiguous items, and release the
\* remainder": an item leaves the queue when Telegram has accepted it or its
\* subscription goes, whatever fails on the way.
LeavesOnlyDelivered ==
    [][\A i \in Item : Queued(i) /\ ~Queued(i)' =>
          sent[i] > 0 \/ subs'[SubOf[i]] = "removed"]_vars

\* No item is delivered after it has left the queue: neither one whose
\* subscription is being removed, nor one another batch has settled.
SentFromQueue ==
    [][\A i \in Item : sent'[i] # sent[i] => Queued(i)]_vars

\* Locks that belong to no delivery any more.
Leaked == locked # HeldLocks

\* No deliveries wait for one another: among those that wait there is always
\* one whose next lock no other of them has.  A lease may run out during the
\* wait, so the same items can be in two of the batches.
NoCircularWait ==
    \A ds \in (SUBSET {d \in Deliverers : At(d, "locks")}) \ {{}} :
        \E d \in ds : ~(NextLock(d) \subseteq UNION {deliverer[e].locks : e \in ds})

\* What the tests of the lock ask for, of an exception and of a cancellation:
\* it "releases lock and registry entry".  Who holds a lock still delivers.
LocksReturned == ~Leaked

=============================================================================
