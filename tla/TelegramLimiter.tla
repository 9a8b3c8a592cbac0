--------------------------- MODULE TelegramLimiter ---------------------------
(***************************************************************************)
(* The limiter every request to Telegram passes: one token bucket for the  *)
(* process and one per chat, filled lazily, and a cooldown that a          *)
(* RetryAfter sets for everybody.  Waiters queue in one list under a       *)
(* condition variable; the first of them whose chat may go is served.  The *)
(* condition's lock is never held across an await, so what the code does   *)
(* between two awaits is one action.                                       *)
(***************************************************************************)
EXTENDS EventLoopClock, Sequences, FiniteSets

CONSTANTS
    Calls,              \* requests somebody may make
    Chats,
    ChatOf,             \* the chat of each request
    Unit,               \* what a request takes from a bucket
    Burst,              \* requests a full bucket holds
    GlobalFill,         \* what a tick adds to the bucket of the process
    ChatFill,           \* and to that of a chat
    StateTTL,           \* ticks after which an unused bucket is dropped
    RegistrySize,       \* MAX_CHAT_BUCKETS
    Pauses,             \* seconds a RetryAfter may name
    RetryLimit          \* max_retry_after_attempts

VARIABLES
    running, waiters, buckets, global_bucket, global_cooldown_until,
    call,               \* where a request is
    timer,              \* when its wait times out, 0 without a timeout
    retries,            \* RetryAfters it has come back from
    sentTo,             \* history: when each chat was sent something, since
                        \* its bucket was last dropped before it was full
    sentAll             \* history: when anything was sent

buckets_ == <<buckets, global_bucket, global_cooldown_until>>
limiterVars == <<running, waiters, buckets_, call, timer, retries,
                 sentTo, sentAll>>

\* The TTL may be shorter than the time a bucket takes to fill: the settings
\* accept 30 seconds with a burst of 20 and a request every 10 seconds.
ASSUME TelegramLimiterAssumption ==
    /\ IsFiniteSet(Calls)
    /\ ChatOf \in [Calls -> Chats]
    /\ {Unit, Burst, GlobalFill, ChatFill, RegistrySize} \subseteq Nat \ {0}
    /\ StateTTL \in Nat
    /\ Pauses \subseteq Nat
    /\ RetryLimit \in Nat

Full == [tokens |-> Burst * Unit, seen |-> clock, cooldown_until |-> 0]

LimiterInit ==
    /\ clock = 0
    /\ running = TRUE
    /\ waiters = <<>>
    /\ buckets = [c \in {} |-> Full]
    /\ global_bucket = Full
    /\ global_cooldown_until = 0
    /\ call = [r \in Calls |-> "idle"]
    /\ timer = [r \in Calls |-> 0]
    /\ retries = [r \in Calls |-> 0]
    /\ sentTo = [c \in Chats |-> <<>>]
    /\ sentAll = <<>>

(***************************************************************************)
(* Buckets.                                                                *)
(***************************************************************************)
Least(m, n) == IF m < n THEN m ELSE n
Most(m, n) == IF m > n THEN m ELSE n

Refilled(b, fill) ==
    [b EXCEPT !.tokens = Least(Burst * Unit, @ + (clock - b.seen) * fill),
              !.seen = clock]

\* ticks until the bucket holds a request, rounded up
TokenDelay(b, fill) ==
    IF b.tokens >= Unit THEN 0 ELSE (Unit - b.tokens + fill - 1) \div fill

Bucket(bs, c) == IF c \in DOMAIN bs THEN Refilled(bs[c], ChatFill) ELSE Full

ChatDelay(bs, c) ==
    Most(Bucket(bs, c).cooldown_until - clock, TokenDelay(Bucket(bs, c), ChatFill))

ChatsOf(q) == {ChatOf[q[i]] : i \in 1..Len(q)}

\* Mutant of Unused: the age of a bucket is not looked at.
UnusedAtAnyAge(bs, q) == DOMAIN bs \ ChatsOf(q)

Unused(bs, q) == {c \in DOMAIN bs \ ChatsOf(q) : clock - bs[c].seen >= StateTTL}

\* the n longest unused chats of S
Oldest(bs, S, D, n) ==
    /\ Cardinality(D) = Least(n, Cardinality(S))
    /\ \A c \in D, d \in S \ D : bs[c].seen <= bs[d].seen

\* What _cleanup_registry may drop for lack of room after what is unused.
Cleanup(bs, q) ==
    LET kept == DOMAIN bs \ Unused(bs, q)
        idle == kept \ ChatsOf(q)
    IN  IF Cardinality(kept) > RegistrySize
        THEN {D \in SUBSET idle : Oldest(bs, idle, D, Cardinality(kept) - RegistrySize)}
        ELSE {{}}

Kept(bs, q, D) == [c \in (DOMAIN bs \ Unused(bs, q)) \ D |-> bs[c]]

\* The chats that get a full bucket for one that had not filled yet: dropped
\* for lack of room, or so little used as the TTL asks but too slow to fill.
Unfilled(bs, q) ==
    {c \in DOMAIN bs \ ChatsOf(q) :
        clock - bs[c].seen >= StateTTL /\ Bucket(bs, c).tokens < Burst * Unit}

Regained(bs, q, D) == D \cup Unfilled(bs, q)

\* What RateKept cannot count any more.
Forgotten(D, sent) == [c \in Chats |-> IF c \in D THEN <<>> ELSE sent[c]]

(***************************************************************************)
(* wait_for_slot                                                           *)
(***************************************************************************)
\* notify_all
Notified(where) == [r \in Calls |-> IF where[r] = "asleep" THEN "awake" ELSE where[r]]

Timers(where) == [r \in Calls |-> IF where[r] = "asleep" THEN timer[r] ELSE 0]

Without(q, r) == SelectSeq(q, LAMBDA x : x # r)

\* the waiter at i is the first whose chat may be sent something
Ready(bs, q, i) ==
    /\ ChatDelay(bs, ChatOf[q[i]]) <= 0
    /\ \A j \in 1..(i - 1) : ChatDelay(bs, ChatOf[q[j]]) > 0

GlobalDelay(until) ==
    Most(until - clock, TokenDelay(Refilled(global_bucket, GlobalFill), GlobalFill))

\* the waiters looked at, up to the one that may go
Scanned(bs, q) ==
    {i \in 1..Len(q) : \A j \in 1..(i - 1) : ChatDelay(bs, ChatOf[q[j]]) > 0}

\* Their buckets are made and refilled.
Looked(bs, q) ==
    LET chats == {ChatOf[q[i]] : i \in Scanned(bs, q)}
    IN  [c \in DOMAIN bs \cup chats |-> IF c \in chats THEN Bucket(bs, c) ELSE bs[c]]

Spent(b) == [b EXCEPT !.tokens = @ - Unit]

\* The request goes; the chats C were forgotten at the start of the round.
Admit(r, q, bs, where, C) ==
    LET c == ChatOf[r]
        paid == [Looked(bs, q) EXCEPT ![c] = Spent(@)]
        rest == Without(q, r)
        woken == [Notified(where) EXCEPT ![r] = "sending"]
    IN  \E E \in Cleanup(paid, rest) :
            /\ buckets' = Kept(paid, rest, E)
            /\ global_bucket' = Spent(Refilled(global_bucket, GlobalFill))
            /\ waiters' = rest
            /\ call' = woken
            /\ timer' = Timers(woken)
            /\ sentTo' = Forgotten(C \cup Regained(paid, rest, E),
                                 [sentTo EXCEPT ![c] = Append(@, clock)])
            /\ sentAll' = Append(sentAll, clock)

\* The end of the global delay, or of the shortest delay of the chats looked
\* at before the one that may go; none if the first of all may go.
Alarm(r, q, bs, until) ==
    LET delays == {d \in {ChatDelay(bs, ChatOf[q[i]]) : i \in Scanned(bs, q)} : d > 0}
    IN  IF GlobalDelay(until) > 0 THEN clock + GlobalDelay(until)
        ELSE IF delays = {} THEN 0
        ELSE clock + (CHOOSE d \in delays : \A e \in delays : d <= e)

Sleep(r, q, bs, where, until, C) ==
    LET asleep == [where EXCEPT ![r] = "asleep"]
    IN  /\ buckets' = IF GlobalDelay(until) > 0 THEN bs ELSE Looked(bs, q)
        /\ global_bucket' = Refilled(global_bucket, GlobalFill)
        /\ waiters' = q
        /\ call' = asleep
        /\ timer' = [Timers(asleep) EXCEPT ![r] = Alarm(r, q, bs, until)]
        /\ sentTo' = Forgotten(C, sentTo)
        /\ UNCHANGED sentAll

MayGo(r, q, bs, until) ==
    /\ GlobalDelay(until) <= 0
    /\ \E i \in 1..Len(q) : q[i] = r /\ Ready(bs, q, i)

\* One round of the loop, with the queue q, the buckets bs and the cooldown
\* until that the step has made and the chats C it has forgotten: the cleanup,
\* then the request goes or sleeps.
Round(r, q, bs, where, until, C) ==
    \E D \in Cleanup(bs, q) :
        LET kept == Kept(bs, q, D)
            lost == C \cup Regained(bs, q, D)
        IN  IF MayGo(r, q, kept, until)
            THEN Admit(r, q, kept, where, lost)
            ELSE Sleep(r, q, kept, where, until, lost)

\* A request joins the queue and wakes the others, then takes its first round.
Join(r, bs, until, C) ==
    running /\ Round(r, Append(waiters, r), bs, Notified(call), until, C)

(***************************************************************************)
(* Actions.                                                                *)
(***************************************************************************)
Submit(r) ==
    /\ call[r] = "idle"
    /\ Join(r, buckets, global_cooldown_until, {})
    /\ UNCHANGED <<clock, running, global_cooldown_until, retries>>

Resume(r) ==
    /\ call[r] = "awake"
    /\ running
    /\ Round(r, waiters, buckets, call, global_cooldown_until, {})
    /\ UNCHANGED <<clock, running, global_cooldown_until, retries>>

TimerFires(r) ==
    /\ call[r] = "asleep"
    /\ timer[r] # 0 /\ timer[r] <= clock
    /\ call' = [call EXCEPT ![r] = "awake"]
    /\ timer' = [timer EXCEPT ![r] = 0]
    /\ UNCHANGED <<clock, running, waiters, buckets_, retries, sentTo, sentAll>>

\* Mutant of Withdraw: the others are not notified.
WithdrawQuietly(r) ==
    /\ call[r] \in {"asleep", "awake"}
    /\ waiters' = Without(waiters, r)
    /\ call' = [call EXCEPT ![r] = "idle"]
    /\ timer' = [timer EXCEPT ![r] = 0]
    /\ retries' = [retries EXCEPT ![r] = 0]
    /\ UNCHANGED <<clock, running, buckets_, sentTo, sentAll>>

\* A waiter is cancelled, or finds the limiter shut down.
Withdraw(r) ==
    LET woken == [Notified(call) EXCEPT ![r] = "idle"]
    IN  /\ call[r] \in {"asleep", "awake"}
        /\ waiters' = Without(waiters, r)
        /\ call' = woken
        /\ timer' = Timers(woken)
        /\ retries' = [retries EXCEPT ![r] = 0]
        /\ UNCHANGED <<clock, running, buckets_, sentTo, sentAll>>

\* Telegram accepts, refuses or does not answer in time.
Answered(r) ==
    /\ call[r] = "sending"
    /\ call' = [call EXCEPT ![r] = "idle"]
    /\ retries' = [retries EXCEPT ![r] = 0]
    /\ UNCHANGED <<clock, running, waiters, buckets_, timer, sentTo, sentAll>>

\* Mutant of Extended: the last RetryAfter counts.
ExtendedToLast(until) == until

Extended(until) == Most(global_cooldown_until, until)

\* What apply_retry_after makes of the buckets, before its cleanup.
Cooled(c, until) ==
    LET b == Bucket(buckets, c)
    IN  [d \in DOMAIN buckets \cup {c} |->
            IF d = c THEN [b EXCEPT !.cooldown_until = Most(@, until)] ELSE buckets[d]]

\* Telegram asks to wait: everybody does, and the request queues again unless
\* it has done so too often or the limiter is shut down.
RetryAfter(r, seconds) ==
    LET until == Extended(clock + seconds)
        cooled == Cooled(ChatOf[r], clock + seconds)
    IN  /\ call[r] = "sending"
        /\ global_cooldown_until' = until
        /\ \E D \in Cleanup(cooled, waiters) :
                 \/ /\ retries[r] < RetryLimit
                    /\ Join(r, Kept(cooled, waiters, D), until, Regained(cooled, waiters, D))
                    /\ retries' = [retries EXCEPT ![r] = @ + 1]
                 \/ /\ retries[r] >= RetryLimit \/ ~running
                    /\ buckets' = Kept(cooled, waiters, D)
                    /\ call' = [call EXCEPT ![r] = "idle"]
                    /\ retries' = [retries EXCEPT ![r] = 0]
                    /\ sentTo' = Forgotten(Regained(cooled, waiters, D), sentTo)
                    /\ UNCHANGED <<waiters, global_bucket, timer, sentAll>>
        /\ UNCHANGED <<clock, running>>

\* The waiters, the chats and the cooldown are forgotten, the sleepers told.
Shutdown ==
    /\ running
    /\ running' = FALSE
    /\ waiters' = <<>>
    /\ buckets' = [c \in {} |-> Full]
    /\ global_cooldown_until' = 0
    /\ call' = Notified(call)
    /\ timer' = Timers(Notified(call))
    /\ sentTo' = [c \in Chats |-> <<>>]
    /\ UNCHANGED <<clock, global_bucket, retries, sentAll>>

LimiterNext ==
    \/ \E r \in Calls : Submit(r) \/ Resume(r) \/ TimerFires(r) \/ Withdraw(r) \/ Answered(r)
    \/ \E r \in Calls, seconds \in Pauses : RetryAfter(r, seconds)
    \/ Shutdown
    \/ Tick /\ UNCHANGED limiterVars

LimiterSpec == LimiterInit /\ [][LimiterNext]_<<clock, limiterVars>>

(***************************************************************************)
(* Properties.                                                             *)
(***************************************************************************)
LimiterTypeOK ==
    /\ ClockOK
    /\ running \in BOOLEAN
    /\ waiters \in Seq(Calls)
    /\ DOMAIN buckets \subseteq Chats
    /\ \A c \in DOMAIN buckets :
          buckets[c] \in [tokens : Int, seen : 0..Horizon, cooldown_until : Nat]
    /\ global_bucket \in [tokens : Int, seen : 0..Horizon, cooldown_until : Nat]
    /\ global_cooldown_until \in Nat
    /\ call \in [Calls -> {"idle", "asleep", "awake", "sending"}]
    /\ timer \in [Calls -> Nat]
    /\ retries \in [Calls -> 0..RetryLimit]

\* The pause a chat was told never outlasts that of the process: a bucket
\* that is dropped with its cooldown (the TTL and the overflow do not look at
\* it) lets nothing through early.
CooldownCovered ==
    \A c \in DOMAIN buckets : buckets[c].cooldown_until <= global_cooldown_until

Within(sent, fill) ==
    \A i, j \in 1..Len(sent) :
        i <= j => (j - i + 1) * Unit <= Burst * Unit + (sent[j] - sent[i]) * fill

\* The rate of the process holds over every stretch of time, and that of a
\* chat over every stretch in which it was not given a full bucket for one
\* that had not filled (for lack of room, or at a TTL too short for the rate),
\* though buckets are refilled lazily, pauses overlap and the clean-up runs
\* twice in a round.
RateKept ==
    /\ Within(sentAll, GlobalFill)
    /\ \A c \in Chats : Within(sentTo[c], ChatFill)

\* No lost wakeup: a sleeper that may go has a timeout that is due, and once
\* the limiter is shut down nobody sleeps.
NoWaiterForgotten ==
    \A r \in Calls : call[r] = "asleep" =>
        /\ running
        /\ MayGo(r, waiters, buckets, global_cooldown_until) =>
               timer[r] # 0 /\ timer[r] <= clock

=============================================================================
