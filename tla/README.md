# Verification of the bot in TLA+

This directory holds TLA+ models of the Telegram bot in `src/`, the TLC
configurations that check them on small instances, and TLAPS proofs of
properties that hold for every instance. It is meant to be read beside the
code: every definition that models code is mapped to its lines in
`PROJECT.json` (`map`), and every property says in a comment which behaviour of
the code it is about.

Contents: [the system](#the-system), [the modules](#the-modules),
[the runs](#the-runs), [bounds](#bounds-and-why-they-are-enough),
[fairness](#fairness), [the proofs](#the-proofs),
[disagreements with the code](#disagreements-met-while-modelling),
[other things worth knowing](#other-things-the-models-show),
[what is only model-checked](#what-is-only-model-checked),
[what is not modelled](#not-modelled), [the plan](#the-plan).

To check a run: `tlc -config MCLeases.cfg MCLeases.tla`. To check the proofs of
a module: `tlapm LeaseProofs.tla`.

## The system

One process, one asyncio event loop, one SQLite database in WAL mode. Handlers
of Telegram updates (`concurrent_updates(8)`) and background tasks are
coroutines of that loop: what lies between two awaits is atomic, everything
else interleaves. A statement on the database is its own transaction unless the
code says `BEGIN IMMEDIATE`. Telegram and the Rule34 API are remote: an answer
may be late or lost, and a request that timed out may have been obeyed.

| Component | State it keeps | Operations | Interacts with | Hard behaviour | Correct when |
|---|---|---|---|---|---|
| Subscription rows and claims (`storage/subscriptions.py`) | `subscriptions`, the pause, the creation cooldown | add, remove, toggle, interval, pause/resume; claim, renew, defer, reschedule, mark empty, release | worker, digest, user commands | a statement of a former holder arrives after the row changed hands | claims are fenced leases; no command is undone by a worker |
| Background delivery (`services/subscriptions.py`) | one worker per due row, per-user locks, a heartbeat per claim, history tables | pass, claim, select, revalidate, send, acknowledge, reschedule, error handlers, clean-up | rows, search, media, delivery failures, digest queue | cancellation and shutdown at each await; lost answers; two subscriptions with one post; overlapping passes | a post repeats only for a reason nobody can remove; every claim ends; every due row is served |
| Progressive search (`services/search.py`) | `query_progress`, admission set and semaphore | select, save progress, record delivery | Rule34 client, rows | check and insert in two transactions | a removed subscription leaves nothing |
| Rule34 limiter (`rate_limiter.py`) | deque of grant times, two FIFO queues, cooldown, streak | acquire, release, cooldown, stop | client | one condition variable, many kinds of wake-up, cancellation | quota in every rolling window; background makes progress; no lost wake-up |
| Rule34 circuit breaker (`outage.py`) | circuit, generation, probe, backoff, alerts | admit, validate, result, release, notify | client | answers from before the circuit opened; a probe that dies | one probe at a time; backoff counts refusals; only a probe closes |
| Rule34 client (`client.py`) | - | `_request` | limiter, breaker | the circuit opens while a request waits for quota | a suppressed request spends no quota |
| Media delivery (`telegram/media.py`) | the chain of attempts of one post | by URL, by upload, by text | Telegram limiter, workers, retry | an answer that never comes in the middle of a chain | one copy per chain, and a truthful result |
| Delivery failures (`delivery_failures.py`, `/retry_failed`) | `delivery_failures` with a claim per row | save, claim, renew, delete, release, mark permanent | worker, media delivery | two runs, the scheduled delivery and a lapse of the lease at once | nothing is lost; a repeat has its own reason |
| Telegram limiter (`telegram/delivery.py`) | global bucket, a bucket and cooldown per chat, waiters | wait for a slot, apply RetryAfter, evict, shut down | every send | a bucket dropped while in cooldown; the waiter the others wait behind is cancelled | rates, cooldowns, no lost wake-up |
| Digests (`services/subscriptions.py`, `application.py`) | `subscription_digest_queue`, locks per subscription | enqueue, claim, lock, renew, filter, send, finish, release, remove | rows, Telegram, the loop and "send now" | a batch whose items lose their subscription one by one; a lease that lapses behind a lock; a clean-up that fails | a repeat has a cause; items leave only delivered; nobody waits in a circle |
| Per-user gate (`user_gate.py`) | entries with reference counts and a condition each | hold, shutdown, start | the sections under `guarded_user_state` | the entry is dropped while somebody arrives; a notification dies with its task | one section per user at a time |
| Flows and one-shot callbacks (`application.py`) | generation and temporary state of a user, issued callbacks | begin, claim and commit input, cancel, expire; issue, reserve, begin, finish | gate, handlers, searches, maintenance | a button pressed twice; a message overtaken by another flow; generations that are forgotten | inputs of one flow; twin buttons exclude each other; stale stays stale |
| Favorites, blacklist, settings (`storage/favorites.py`, `users.py`) | tables of one user | look-then-write commands | handlers that run concurrently | two transactions with another update between them | nothing is left hanging, overwritten or lost |
| ZIP export (`zip_export.py`) | queue, jobs, workers, cooldown | enqueue with handshake, cancel, work, stop | Telegram, favorites | cancellation in each stage; stop in each stage; a worker waiting for the queue's head | cancellation is kept; nothing stays registered; every job ends |
| Callback payloads (`telegram/state.py`) | bounded map, write-behind queue, table | store, look up, clean up, flush | keyboards, handlers | look-up before the write, eviction, end of the process | a live button finds its payload |
| Migrations (`storage/migrations.py`) | schema, `schema_migrations` | `init_db`, versioned migrations | start of the process | killed between two statements; a record without its schema | never served on a partial schema |
| Instance lock, lifecycle, update (`instance_lock.py`, `application.py`, `project_update.py`) | lock file, metadata, tasks; working copy, marker | acquire with deadline, checks, start, close; fetch, pull, check, announce | database, Git, launcher | two launches and a kill at any point; an update that fails half-way | one process serves; it announces its own version |

`PROJECT.json` lists all components with their status, and under `hazards` the
places where this code can go wrong in a way a test would hardly reach, each
with the properties that would catch it.

## The modules

Tokens, posts, jobs, tasks, tags and requests are model values. Time is counted
in ticks; a deadline is stored as what is left of it (rows) or as a clock value
(modules of code that compares `time.monotonic()`). An operator named
`...Anyhow`, `...ToLast`, `...Always` beside the one that is used is a variant
of it with a plausible mistake; `mutants` in `PROJECT.json` says which property
tells the two apart.

**Subscriptions and leases**

- `SubscriptionRows` - the `subscriptions` table with the columns that matter,
  the pause, the creation cooldown, and one operator per SQL statement. A
  statement is an action: its `WHERE` clause is the guard. It has no variable
  beyond the database; the next two modules share it.
- `FencedLease` - the abstract specification: a resource has one holder, a live
  lease is exclusive, a token that lost its resource never gets it again.
- `SubscriptionClaim` - the statements under the most general client: anybody
  who ever learned a token may present it in any statement at any later time.
  It implements `FencedLease` (`LeaseSpec`).
- `SubscriptionDelivery` - the real client: the pass loop, one worker per row
  with a stage for each await of `_process_claimed_subscription`, its
  heartbeat, exception handlers and `finally`, cancellation by the lost lease
  and by shutdown (once, twice), a failing statement at each await, a crash
  with restart, and the user's commands. `accepted`, `unacked` and `blind` are
  history variables: what Telegram did, which acceptances nobody recorded, how
  many requests left under a claim that was gone. The digests that end a pass
  are there as far as they can hold it up (`jammed`, `pass = "stuck"`);
  `DigestDelivery` has the rest. Every step is a step of
  `SubscriptionClaim` (`ProtocolSpec`).
- `MediaDelivery` - the chain of attempts of one post: its URLs in turn, each
  tried `Tries` times, downloaded and uploaded where Telegram cannot fetch it,
  then a text with the link. A chain's state is a record, a step an answer of
  Telegram or a download.
- `DeliveryFailures` - `delivery_failures` and `/retry_failed` over that chain:
  claim of a batch under one token, renewal, precondition, send, settlement,
  with overlapping runs, the subscription worker that saves and clears the same
  failure, revoked access, lapsing leases and the end of the process. Its
  claims implement `FencedLease` too (`RetryLeases`).

**Rule34**

- `EventLoopClock` - the clock of the process, bounded by `Horizon`.
- `Rule34Quota` - the parameters limiter and client share.
- `Rule34Limiter` - `acquire` cut at its only await (`Acquire`, then `Resume`
  per wake-up), the semaphore, `release`, `cooldown`, `stop`, cancellation of a
  waiter and the timeout of its wait. `granted` keeps all grants, of which the
  deque keeps the last ones; `bypassed` counts the interactive grants the first
  background waiter has seen.
- `Rule34Outage` - the breaker and the requests that hold its tickets. `epoch`,
  `era` and `refusals` remember what the code does not: how often the circuit
  changed, in which epoch a request left, how many refusals of this epoch came
  back. `Notify` is `notify` up to its first await: it takes the pending
  recovery and notes the alert before anything is sent.
- `Rule34Alerts` - what becomes of the messages: a send has three seconds, what
  it raises is swallowed, a cancellation drops the rest, and the sends of
  several coroutines arrive in any order. It EXTENDS the breaker and follows
  one admin: what is on its way (`in_flight`) and what was heard last (`heard`).
- `Rule34Client` - `_request`: one step of the limiter with the step of the
  breaker that happens without an await between them. It implements both
  (`ComponentSpecs`), which carries their theorems to the client.

**Digests**

- `DigestDelivery` - the queue of one user with a lease and a retry time per
  item, the locks of the subscriptions, and deliverers: the loop and each press
  of "send now", whose stages are the awaits of `process_subscriptions` and of
  `sub_digest_send`. `sent` and `excused` are history variables. Renewal
  succeeds when one row of the batch is still owned, so what
  `DigestClaimLease` says of itself ("stops delivery if ownership is lost",
  `application.py:2903`) holds of a batch, not of an item; `RepeatsExcused`
  counts such a lapse among the excuses.

**One user's updates**

- `UserGate` - the gate: entry objects, reference and waiter counts,
  `notify(1)`, cancellation at each await, shutdown and start. The condition
  variable is that of Python 3.11: a task cancelled between the notification
  and its next step takes the notification with it.
- `UserSession` - what the bot keeps of a user between updates: the generation
  of the flow, the input it waits for, the values belonging to that input, and
  the registry of one-shot buttons with its states `issued`, `reserved`,
  `processing`, `consumed`, `stale`. A guarded section is one step; between them
  run other handlers, background searches (which issue buttons for the flow
  they began in) and the maintenance, which expires states and trims the
  registry.
- `FavoriteLibrary`, `UserBlacklist`, `UserSettings` - the tables of a user
  with the commands that look in one transaction and write in another.
  `raced`, `manual`/`caught`, `asked`/`paused`/`overtaken` are history
  variables that say what the user was told and which updates met.
- `ZipExport` - queue, handshake, workers, cancellation, the cooldown of
  favorites and the two phases of `stop`. Downloading and packing a job is one
  step with an outcome.

**The process**

- `SchemaMigrations` - `init_db` on whatever database it finds. A schema is a
  set of features (tables, columns, indexes, triggers); statements before the
  first `UPDATE` commit by themselves, the rest together, the versioned part is
  one transaction verified before it is recorded.
- `BotProcess` - launches beside one another: the lock with its deadline and
  metadata, the startup checks, `post_init`, the background tasks,
  `post_shutdown`, every way a process ends, `/update` with its backup, pull,
  check and marker, and the announcement after the restart. It extends
  `SchemaMigrations`: start runs the migrations under the lock.
- `CallbackPayloads` - the dictionary with its limit, the bounded queue of
  write jobs, the thread that works it off, look-ups that wait for the jobs
  ahead of them, expiry, and a process that stops or is lost.
- `TelegramLimiter` - token buckets refilled lazily (tokens in units of
  `1/Unit`), the list of waiters under one condition, the registry of buckets
  with TTL and overflow, RetryAfter and retries, cancellation, shutdown.

`MC*` modules name model values and constants for TLC; `*Proofs` modules hold
the theorems. `MCLeases`, `MCUserSession` and `MCProcess` put several modules
into one run: a variable chosen at the start says which of them moves (`table`,
`scene`). They share no variable there, so their state spaces add up instead of
multiplying and nothing is lost by not interleaving them.

The compositions:

    SubscriptionRows <- SubscriptionClaim    => FencedLease
    SubscriptionRows <- SubscriptionDelivery => SubscriptionClaim
    MediaDelivery    <- DeliveryFailures     => FencedLease
    Rule34Limiter, Rule34Outage <- Rule34Client => both
    SchemaMigrations <- BotProcess

## The runs

| Run | Module, configuration | Shows |
|---|---|---|
| `leases` | `MCLeases`, `MCLeases.cfg` | The two tables whose rows are claimed. Former holders may present their token at any time, yet subscriptions stay fenced leases (`LeaseSpec`). Overlapping `/retry_failed` runs hold fenced leases (`RetryLeases`), lose no failure (`FailureKept`), send one copy per chain (`OneCopyPerChain`), and each further copy has a reason of its own (`RetryDuplicatesExcused`). |
| `delivery_sharing` | `MCSubscriptionDelivery`, `DeliverySharing.cfg` | Two subscriptions of a user that yield the same post, failing statements, overlapping passes, shutdown, a crash: a post repeats only when an earlier acceptance could not be recorded (`NoUnexplainedDuplicate`), and no acceptance disappears (`AcceptedAccounted`). |
| `delivery_revocation` | `MCSubscriptionDelivery`, `DeliveryRevocation.cfg` | Every command of the user against a worker whose send takes up to three requests, in both modes: one request at most leaves after the revocation (`OneSendAfterRevocation`), a removed subscription leaves neither history nor digest items (`RemovedLeavesNothing`), workers never step outside the claim protocol (`ProtocolSpec`); under fairness a claim ends (`ClaimEnds`), and a due row is served unless the process ends or the pass waits for a digest lock that is never returned (`DueServed`). |
| `delivery_resurrection` | `MCSubscriptionDelivery`, `DeliveryResurrection.cfg` | `NoResurrectedProgress`, a violation: [see below](#disagreements-met-while-modelling). |
| `outage` | `MCRule34Outage`, `MCRule34Outage.cfg` | What an open circuit lets through (`OutageTraffic`), what extends it (`BackoffCountsRefusals`), that it is never half-open for ever (`HalfOpenResolves`), and, over messages that get lost or overtake one another, that the breaker leaves no alert without its recovery (`AlertAnswered`). |
| `client` | `MCRule34Client`, `MCRule34Client.cfg` | The quota in every rolling window (`RollingQuota`), the background turn (`BackgroundTurn`), no request asleep while it could go (`NobodySleepsInVain`), and that the client implements limiter and breaker (`ComponentSpecs`). |
| `session` | `MCUserSession`, `MCUserSession.cfg` | Seven scenes of one user's updates: the gate (`Serialized`, `NoUnexplainedStranding`); the inputs of a flow, one button over three flows, three buttons over one flow (`PendingIsOneFlow`, `TwinsExcused`, `StaleForGood`); favorites (`LibraryIntact`); blacklist (`ManualTagStays`); settings (`SettingsKept`). |
| `zip_export` | `MCZipExport`, `MCZipExport.cfg` | An acknowledged cancellation is kept (`CancelKept`), `stop` leaves nothing (`StopLeavesNothing`), every job ends while a worker is left (`JobEnds`). |
| `zip_workers` | `MCZipExport`, `ZipWorkers.cfg` | `WorkersStay`, a violation. |
| `digest` | `MCDigestDelivery`, `MCDigestDelivery.cfg` | Two deliverers of one queue: an item repeats only for a listed cause (`RepeatsExcused`), leaves the queue only delivered or with its subscription (`LeavesOnlyDelivered`), no deliveries wait in a circle (`NoCircularWait`). |
| `digest_locks` | `MCDigestDelivery`, `DigestLocks.cfg` | `LocksReturned`, a violation. |
| `process` | `MCProcess`, `MCProcess.cfg` | Three scenes: processes over a database that is migrated (`ServesAlone`, `AnnouncesOwnVersion`); callback payloads (`LossExplained`); the Telegram limiter (`CooldownCovered`, `RateKept`, `NoWaiterForgotten`). |

### Bounds, and why they are enough

- *Leases, subscriptions*: three subscriptions of one user with a total of two
  and one active, so that each limit is reached and passed; two tokens, a lease
  of two ticks (half spent, and lapsed). Two rows and two tokens are enough for
  a token to be in the wrong row; the proofs remove the bound.
- *Leases, failures*: two overlapping runs (`MaxRuns = 2`), two tokens, a lease
  of one tick, which can lapse in any stage. One failure has a photo's URL that
  is tried once and then downloaded, and is contested by the worker; the other
  has no URL and goes as a text. More URLs repeat the same steps of a chain,
  and `OneCopyPerChain` is proved for any number.
- *Sharing*: two subscriptions, one post both match, two tokens, a lease of one
  tick (renewed or lapsed at the next), one crash. A
  duplicate needs two sends of one post, hence no more posts; a second crash
  only repeats the first.
- *Revocation*: one subscription, because a revocation and the temporal
  properties concern one row; three requests in a send, since the property
  counts the second after it; faults are unlimited.
- *Outage*: two post requests (the probe and one from before) and an
  autocomplete; two backoff steps; clock up to 4: open, extend, probe, close.
  The messages run in a scene of their own (`MCRule34Outage.scene`) with the
  two post requests; none is on its way when the clock moves, as a tick is part
  of a cooldown of minutes and a send has three seconds. The number of messages
  is not bounded, and the theorem needs neither bound.
- *Client*: two interactive requests and a background one against two grants in
  a window of two ticks, a queue of two, a burst of one, clock up to 3: a window
  passes and a second one begins, the circuit opens, probes and closes in it.
  The quota, the turns and the circuit are proved without bounds.
- *Gate*: four tasks (a holder, two waiters, a newcomer) and three entries.
- *Session*: two handlers, at most three buttons and three generations, two
  buttons per user before the registry evicts. A mix-up needs a handler that is
  overtaken by another, and a flow, its successor, and one begun after the
  maintenance has forgotten both.
- *Favorites, blacklist, settings*: two updates each, two posts and
  collections, two tags, two settings, one pause (`MaxPause = 1`): the
  properties relate a look, a write and one update between them. They are
  proved for any number.
- *Digest*: two items of two subscriptions, both fit for an album, two
  deliverers (a duplicate, a wait and a circle need two), four tokens, a lease
  and a retry of one tick. `Disturbances` bounds by three (two in
  `digest_locks`) what comes from outside: commands, failing statements,
  rejected and lost requests, cancellations, crashes. Three are a failure whose
  clean-up fails under a command of the user.
- *ZIP*: three jobs of two users, two workers, a queue of two: a job runs, one
  waits, one is refused or in its handshake.
- *Process*: two launches, three commits (the one loaded, the one pulled, the
  one pushed meanwhile), two versioned migrations that need different parts of
  the base, of which one statement commits by itself; two background tasks. A
  process that serves already is among the initial states of the run
  (`MCServing`); it adds no state, only shorter counterexamples.
- *Payloads*: two buttons and one look-up over a dictionary of one and a queue
  of two, so that one store evicts and three overflow; lifetime one tick, clock
  up to two lifetimes.
- *Telegram limiter*: three requests to two chats over a registry of one
  bucket, so that one chat always loses its bucket; a TTL of one tick where a
  bucket fills in two, so that one is dropped full or half full; pauses of one
  and two ticks, one retry, clock up to 3.

Deadlock is checked wherever the system goes on for ever. The runs `client`,
`session` and `process` stop when a bounded clock, counter or number of
launches does (`CHECK_DEADLOCK FALSE`). Symmetry is used only in runs without
liveness: tokens in `delivery_sharing`, deliverers in the digest runs, and the
senders, updates, handlers and payloads of the three combined runs.

## Fairness

- *Delivery*: weak fairness of the loop, of the clock, of each worker's next
  step, of the end of a shutdown and of a restart: the event loop runs every
  task that can run, and an HTTP request ends with an answer or the timeout of
  the client. Strong fairness of starting a worker and of its claim statement:
  they are enabled again and again by each pass and by each lease that lapses,
  and a statement that fails each time would need a database that never works.
  The digests of a pass are fair to end, since each delivery has finitely many
  requests, but for one thing: `acquire_digest_subscription_locks` has no
  timeout (`application.py:3001`), and a lock may never be returned
  (disagreement 3, `digest_locks`). `LoseLock` and `WaitForLock` bring that into
  the loop; from there only the end of the process leads on (`pass = "stuck"`),
  and `DueServed` names it as its exception.
  Faults are not fair: they may happen or not.
- *Outage*: a request that was dispatched, or waits for it, ends; the limiter's
  waits are bounded and the client has a timeout.
- *ZIP*: the reply of the handshake ends, workers run, `stop` goes on, and a
  job ends (`_run_job` is under `export_timeout`). No fairness of enqueueing or
  cancelling.

## The proofs

The assumptions on the constants are the named `ASSUME`s of the modules; TLC
evaluates them in every run. The clock of the Rule34 modules is bounded by the
constant `Horizon`, an arbitrary natural number in the proofs, and so are the
other bounds on counters (`MaxCrashes`, `MaxDelay`, ...). Three assumptions are
there for a proof. That the keyboards of `UserSession` have a length says only
that they are sequences. `IsFiniteSet(Senders)` of `DeliveryFailures`: the copies of a
post are counted against the runs that cover them, and a process has finitely
many. The last conjunct of `MigrationAssumption`: what a database may lack is
what some statement of the base looks for or some migration needs, which says
only that `Feature` names nothing the code never asks about.

Eight modules hold 49 theorems. Most properties are not inductive as they
stand, and what had to be added says why they hold. Where a module has many
actions, each is first shown to be of one of a few kinds, and the invariant is
proved over the kinds; so a property costs one lemma per kind.

`LeaseProofs`, the claims on rows and the retry of failures. For every set of
users, rows, tokens, intervals and every lease length:

- `TypeCorrect` - `Spec => []TypeOK`.
- `TokensAreUnique`, `LeasesHaveOwners` - from
  `FencingInv == TypeOK /\ TokenUnique /\ LeaseHasOwner`. Uniqueness alone is
  not enough for the refinement: that a live lease has a token is what makes a
  grant on a row without a live lease the abstract `Grant`. `StepKinds` reduces
  the statements to three kinds (a claim; a step that keeps or clears each
  row's token and never revives a lease; a step that forgets tokens).
- `RetiredTokensStayRetired`, `PausesStopRenewal` - action properties over the
  same steps.
- `ClaimsAreFencedLeases` - `Spec => LeaseSpec`: a claim maps to `Grant`, every
  other step to `Settle` or a stutter.

For any URLs, attempts, failures and runs, and any finite set of senders:

- `ChainsDeliverOnce` - from `ChainInv`: every chain is `Honest`, that is, its
  stage, its result and its copies agree. The property alone says nothing of a
  chain in the middle.
- `FailuresAreKept`, `RetriesAreFencedLeases` - from
  `FailuresInv == ChainInv /\ ClaimInv /\ PostInv`. `PostInv` says that a run
  delivers one post at a time and that a post with a copy is among those
  received: without it a settlement could delete what nobody got. Every step but
  a claim keeps the invariant, keeps failures (`Keeps`) and only loosens leases
  (`Loosens`); a claim is a `Grant`.
- `DuplicatesAreExcused` - from `CopiesInv`. Its part `Budget(f)` is an
  inequality: the copies of a post and the requests on their way whose lease is
  gone are at most what is accounted for (the one copy that settles the failure,
  the answers nobody acknowledged, the runs that have sent under a lease or are
  known to be late). A step may move a sender from one side to the other, and
  each such move is paid for where it happens.

`SubscriptionDeliveryProofs`, the workers of the background delivery, for any
users, subscriptions, posts, tokens, requests of one send and crashes, from
`DeliveryInv == BaseInv /\ SafeInv /\ BlindInv`:

- `DeliveryTypes` - with `Fit`, which says of each stage of a worker whether it
  has a token, a post and requests left.
- `NothingAcceptedIsForgotten`, `NoDuplicateUnexplained` - the pair needs
  `Unsent` (a post on its way is not in the history of its user) and
  `OnePerUser` (the workers of a user are served in turn): another subscription
  of the user cannot record the post in between.
- `RemovalIsComplete` - every write to a table of the subscription is fenced by
  the row or follows a look at it in the same transaction. Progress is not
  among these tables (disagreement 1).
- `RevocationStopsSends` - from `BlindInv`: at the stage from which a request
  leaves, none has left since the claim was revoked.
- `WorkersKeepTheProtocol` (`ProtocolSpec`) - a step of a worker, of a crash or
  of a command is a step of `SubscriptionClaim` over the tokens of the workers,
  or a stutter. With it the theorems of `LeaseProofs` on claims hold of the
  workers. The kinds are a worker's own step (`OwnStep`), a grant, an
  acceptance by Telegram, the start of a worker, shutdown, crash, the commands,
  and steps that touch none of these.

`Rule34LimiterProofs`, for every set of requests, limit, window, burst:

- `QuotaKept` - any window of the history holds `QuotaLimit` grants at most.
  The code keeps only the deque, so `QuotaInv` adds that the deque is the tail
  of the history and that what was popped is a window old. Each action is first
  shown to be of one of three kinds (`Rests`, `Forgets`, `Grants`).
- `BackgroundTurnKept`.
- `NobodySleeps` - no lost wake-up, from `WakeInv`: the waiter that would be
  selected next, if nothing but time holds it back, sleeps with a timeout no
  later than the time that holds it back. Who else sleeps, sleeps behind somebody
  awake. That popping timestamps never moves that time forward is a lemma of its
  own (`ForgettingDelaysNothing`).

`Rule34OutageProofs`, for every set of requests and every backoff:

- `OutageTrafficKept`, `BackoffCounts`, `OnlyTheProbeCloses` - from
  `CircuitInv`: types, `TicketsTell` (the generation a ticket carries tells the
  epoch its request left in, which makes comparing generations sound) and
  `ProbeIsAlone` (in an open circuit the probe is the only pending request of
  its generation).
- `AlertIsAnswered` - a theorem of `AlertsSpec`, whose messages may be lost,
  delayed and reordered: from `AlertInv`, an alert on its way or heard last is
  of an outage that lasts, with the flag up that makes a success worth telling,
  or its recovery is pending or on its way. What it does not promise is what the
  code does not: a recovery that is composed once and lost, or overtaken by its
  alert, is not told again (`heard` is "unanswered" or "overtaken").

`Rule34ClientProofs`, over both:

- `ClientImplementsComponents` - a step of the client is a step of the limiter
  or a stutter, and likewise of the breaker. With it the theorems on both hold
  of the client's requests.
- `ClientQuotaKept`, `ClientBackgroundTurnKept`, `NoClientSleepsInVain` - the
  three properties the run `client` checks, carried over from the limiter.

`UserProofs`, what the updates of a user meet on. For every finite set of tasks
and every set of entries:

- `OneInside` (the property `Serialized` of the run `session`),
  `EntryWhileWanted` - from
  `GateInv == TypeOK /\ Counted /\ Queued /\ RegistryExact /\ Serialized`.
  `Counted` ties the reference and waiter counts to the tasks they stand for:
  that an entry is dropped with its last reference, never earlier, is a fact
  about those counts. `Queued` says that who is in the condition's queue sleeps
  on that entry and is there once, so that a notification frees nobody else.
- `NobodyIsStranded` - from `SleepInv`, which adds the converse: who sleeps is in
  the queue of its entry, so a notification is for one of them while there are
  any.

For any number of updates, handlers, posts, collections, tags and pauses:

- `PendingKeepsToOneFlow` - from `FlowInv`: while a value is awaited, and in a
  message that has claimed one, the generation is not 0, which is what the
  maintenance leaves behind. Without it a forgotten user would share the
  generation of a fresh one.
- `OneTwinRuns`, `StaleStaysStale` - from `ButtonInv`: reserved and processed
  buttons have different keys, who is in the body of a handler with a button
  that was not finished under it finds it in processing, and a refused button
  is gone, stale or of a flow that does not come back. The registration of a
  keyboard evicts by a recursive function; that it spares the buttons in
  processing (`RegisteredIsReissued`) is proved from the least counterexample
  to a fact about its first `n` buttons.
- `LibraryStaysIntact` - `LibraryInv` adds that an update about to write a post
  it has seen still finds it among the favorites, or that the post was raced.
- `ManualTagsStay` - `BlacklistInv` adds that a tag whose addition was confirmed
  has source `manual`, no expiry, and no update about to write it.
- `SettingsAreKept` - `SettingsInv` adds that one change is between its look and
  its save at a time (the gate), and that what it has seen is current but for
  fields a saved search or the reset overtook.

`DigestDeliveryProofs`, for every set of items, deliverers and tokens, every
finite set of subscriptions, every batch limit and lease:

- `DigestTypes`, `OnlyQueuedItemsAreSent`, `NothingIsLost` - from `DigestInv`.
  `WasSent` says that what a deliverer takes for delivered was accepted, and
  `InQueue` that the batch of a delivery past its acquisition is in the queue.
  The lease does not give the second (it may lapse, and another batch may claim
  the item); the locks do: who settles or removes an item holds the lock of its
  subscription, and locks are disjoint.
- `NoDeadlockedDeliveries` - `DigestInv` also says that a delivery that waits
  has only locks that come before those it still needs. Of deliveries that
  wait, the one whose next lock comes last waits for none of the others; that
  there is a last one takes the finiteness of `Subs`.
- `NoUnexcusedRepeat` - from `RepeatInv`: an item without an excuse was sent
  once at most, and while it is still queued the deliverer that sent it is at
  work on it (`Accounted`), owns its claim (`Owns`), and shares its token with
  nobody.

`ProcessProofs`, what a process is made of:

- `ServingIsAlone`, for any launches, updates, kills and migrations - from
  `ProcessInv`: who is past the lock holds it, who has background work is in one
  of the phases that serve, and who has migrated left a whole database. The last
  needs `WorkInv` on the connection of `init_db`: each statement before the next
  one has done its part, in what the connection sees, whatever part of it was
  committed by earlier attempts that crashed.
- `MarkerIsOwn` - from `MarkerInv`: a marker that was not overtaken names the
  working copy, and so does what every process imported that was not there when
  it was written.
- `ButtonsFindTheirPayload`, for any capacities, lifetime and presses - from
  `PayloadInv`: what is owed is `Written`, that is, in a row or in a queued job
  with no older write behind it, and a look-up that was owed its payload waits
  for a job that is no older.
- `TheRateIsKept`, `PausesAreCovered`, for any calls, chats, burst, refills and
  registry size, and any TTL - from `LimiterInv`. A window over past requests is
  not inductive; the budget is: for each past request, those sent since and the
  tokens the bucket would hold now are at most the burst and the refill since
  then. A bucket that is dropped full leaves the budget what it was. One that
  is dropped before takes the count of its chat along (`Regained`): for lack of
  room, or because the settings (`config.py:170-177`) bound the TTL without
  regard to rate and burst. `LongTTLForgetsNothing`: with a TTL in which an
  empty bucket fills, as the defaults have it, the second never happens.
- `NobodyWaitsInVain` - from `AlarmInv`: a sleeper's timeout comes no later than
  any time at which it may go. What a bucket will hold at a later time does not
  depend on when it is refilled; a chat's pause never outlasts the process's;
  the clean-up spares the chats of those who wait; and whoever leaves the queue
  wakes everybody, who then set their timeouts again.
- `CancellationsAreKept`, `NothingRunsAfterStop`, for any users, jobs, workers
  and capacity - from `ExportInv`: how far a job has come tells what its user
  was told, at most one worker has it, a queued job is registered and nobody's
  yet, and a manager that closes has an empty queue.

`DeliveryTypes`, `TypeCorrect`, `TokensAreUnique`, `LeasesHaveOwners`,
`RetiredTokensStayRetired`, `PausesStopRenewal`, `QuotaKept`,
`BackgroundTurnKept`, `NobodySleeps`, `OnlyTheProbeCloses`, `DigestTypes`,
`OnlyQueuedItemsAreSent` and `EntryWhileWanted` state things no run checks under
these names; the runs check properties that rest on them.

## Disagreements met while modelling

1. `services/search.py:72` says a deleted subscription must never resurrect
   progress. `_save` reads the subscription and inserts the progress in two
   transactions; a removal between them leaves `query_progress` of a
   subscription that does not exist (`delivery_resurrection`).
2. A ZIP worker that waited for the head of the queue to be ready and finds the
   queue empty afterwards returns `None` from `_next_job` and ends, although
   the manager is up; with fewer workers jobs still end while one is left
   (`zip_workers`).
3. The `finally` block of a digest delivery releases the claim before it gives
   back the locks of the subscriptions (`services/subscriptions.py:497`,
   `callbacks.py:647`). When a statement of the delivery has failed and the
   release fails too, as it does in a database that stays locked, or when the
   release ends with a cancellation, the locks stay taken: the next digest of
   the subscription and its removal wait for ever, and the loop behind that
   digest with them (`digest_locks`). `test_subscription_worker.py:626` asks of
   an exception that it releases the lock.

## Other things the models show

No statement of the repository contradicts these; the properties name them as
exceptions, so that everything else is excluded.

- The gate's `notify(1)` can be given to a task that is cancelled before it
  runs; the remaining waiters sleep before a free gate until another update of
  the same user comes. `NoUnexplainedStranding` shows that this is the only way.
- A second press of a one-shot button, refused as a duplicate, runs the same
  `finally` as the first and marks its entry consumed while the first still
  runs (`application.py:1528`); from then on a twin of the button is not
  refused (`TwinsExcused`, `early`).
- A button issued before the user's first flow carries generation 0. The first
  press of such a button begins a flow, which makes its siblings stale
  (`callbacks.py:49`); when the maintenance has forgotten the user's generation
  they are current again (`StaleForGood`).
- Adding a tag that is already listed as temporary or from a preset answers
  that it is there; it then goes with its expiry or its preset. Only tags whose
  addition was confirmed are `manual` in `ManualTagStays`.
- The end of the pause lives in the JSON of the settings. A search saved during
  a pause stores it with the settings, and running that search is refused by
  `save_user_settings` (`ValueError` for an unsupported key, reached from
  `callbacks.py:310`): nothing is changed then (`SettingsKept`).
- A post removed from the favorites between the look and the write of another
  update leaves an item or a note without a favorite (`LibraryIntact`, `raced`).
- A look-up that finds an expired payload deletes its row in a later
  transaction, and with it a row written anew in between (`LossExplained`).
- A failure is saved, too, for a post that `before_send` refused and that was
  never tried (`services/subscriptions.py:239`); `/retry_failed` then sends it,
  perhaps while the scheduled delivery does. `RetryDuplicatesExcused` counts
  that among the reasons for a second copy.

## What is only model-checked

On the instances above only:

- `ClaimEnds`, `DueServed`, `HalfOpenResolves`, `JobEnds`: liveness under
  fairness and what needs `ENABLED` are beyond TLAPS.

## Not modelled

- Of the delivery: `LIMIT 50` and the cap per user of a pass (the rows of an
  instance are fewer; the hazard is listed without a property), retention of
  the history, `sent_posts` (an index of the interactive search), the text
  notice after an empty search, captions, keyboards, tracing. A failing
  statement does not write; the failure of the scan itself is a broken pass.
- Of the search: cursors over pages, ranking and budgets (data), and
  `SearchAdmission`, which bounds concurrent interactive searches.
- Of the client: building URLs, parsing, the retry loop's counters
  (`logical_failures` feeds only the text of an alert), 403 diagnostics. Of the
  breaker: a process without a notifier, and admins beyond one.
- Of media delivery: sizes, formats and the transport of downloads, which
  succeed or fail. Whether a request waits in the Telegram limiter is any time
  in the chain; `TelegramLimiter` says how long.
- Of the gate: that an operation enters the gate of its own user again (the
  handlers do not), and binding to another event loop.
- Of the session: the values the user types (only the flow that wrote them),
  the refusal of a keyboard when every entry of the registry is being processed
  (`OneShotRegistryFull`; in the code the updates of a user that run at once
  are fewer than its entries, in the model a guard of `Issue` says so),
  navigation and administration pages of the callback handler.
- Of the tables: single statements on tables nothing else refers to
  (read-later, tags, ratings, access lists, search history), limits, listings.
- Of the digest: which batch is due (any nonempty batch may be claimed),
  `is_recipient_allowed` (constant while a process runs), adding a removed
  subscription again, the retries of one item (merged with its request). That a
  delivery ends is not checked as liveness: `NoCircularWait` and `LocksReturned`
  are the ways it could not.
- Of the ZIP export: downloads, parts and byte budgets, disk clean-up. `Stop`
  tells the queued jobs in one step; that a job whose handshake ends between
  two of the edits is told the same thing twice is not represented.
- Of payloads: the recent posts, a second dictionary with the same bound and no
  table behind it.
- Of the database: the facade's helpers for timestamps and JSON; the wording of
  migrations. Of the update: what the subprocesses print.
- Whole components, with the reason in `PROJECT.json`: keyboards and formatting
  (layout), post and subscription cache, tag translation (single statements, a
  fallback), configuration, observability (nobody decides by it).

## The plan

Done, in the order of importance: claims, delivery, the Rule34 quota and
circuit, gate, exports, digests; then flows and buttons, failures and their
retry over the chain of a post, the tables of a user, the Telegram limiter,
payloads, migrations with lock, lifecycle and update; the proofs above, which state every
safety property of the runs that pass. Left, most important first:

1. A module of the pass over more due rows than its limit, for the hazard at
   `storage/subscriptions.py:402`.
2. `SearchAdmission`, and the pages of the progressive search as a pure
   algorithm against a reference.
