----------------------------- MODULE Rule34Client -----------------------------
(***************************************************************************)
(* _request of the Rule34 client: admitted by the breaker, queued in the   *)
(* limiter, looked at again by the breaker before quota is charged, sent.  *)
(* An action is what happens between two awaits: one step of the limiter   *)
(* with the step of the breaker that belongs to it.                        *)
(***************************************************************************)
EXTENDS Rule34Quota

CONSTANTS
    RecoveryRequests, NoRequest, Backoff, AlertAfter, AlertEvery

VARIABLES
    timestamps, queues, quota_cooldown_until, interactive_streak, closed,
    task, alarm, granted, bypassed,
    opened, cooldown_until, backoff_index, generation, probe,
    consecutive_failures, health_alerted, last_alert_at, pending_recovery,
    phase, ticket, epoch, era, refusals

Limiter == INSTANCE Rule34Limiter WITH cooldown_until <- quota_cooldown_until
Breaker == INSTANCE Rule34Outage

limiterVars == <<timestamps, queues, quota_cooldown_until,
                 interactive_streak, closed, task, alarm, granted, bypassed>>
breakerVars == <<opened, cooldown_until, backoff_index, generation, probe,
                 consecutive_failures, health_alerted, last_alert_at,
                 pending_recovery, phase, ticket, epoch, era, refusals>>
vars == <<clock, limiterVars, breakerVars>>

Init == Limiter!Init /\ Breaker!Init

\* Suppressed by admit, or turned away by a full or stopped limiter.
Refuse(r) ==
    /\ \/ Breaker!Reject(r)
       \/ (closed \/ ~Limiter!HasRoom) /\ Breaker!Bounce(r)
    /\ UNCHANGED limiterVars

Start(r) ==
    /\ Limiter!Acquire(r, TRUE)
    /\ IF task'[r] = "holding" THEN Breaker!Pass(r) ELSE Breaker!Admit(r)

\* validate runs inside acquire: a request that is not valid any more leaves
\* the queue instead of being granted.
Resume(r) ==
    /\ Limiter!Resume(r, Breaker!Valid(r))
    /\ \/ task'[r] = "holding" /\ Breaker!Dispatch(r)
       \/ task'[r] = "idle" /\ Breaker!End(r)
       \/ task'[r] = "waiting" /\ UNCHANGED breakerVars

\* Mutants of Cancel: the waiter stays in its queue, or the probe reserved.
CancelInQueue(r) ==
    /\ phase[r] = "queued"
    /\ Breaker!End(r)
    /\ task' = [task EXCEPT ![r] = "idle"]
    /\ alarm' = [alarm EXCEPT ![r] = 0]
    /\ UNCHANGED <<timestamps, queues, quota_cooldown_until,
                   interactive_streak, closed, granted, bypassed>>
CancelKeepingProbe(r) ==
    /\ Limiter!Cancel(r)
    /\ Breaker!Ended(r)
    /\ UNCHANGED <<opened, cooldown_until, backoff_index, generation, probe,
                   consecutive_failures, health_alerted, last_alert_at,
                   pending_recovery, epoch, refusals>>

Cancel(r) == Limiter!Cancel(r) /\ Breaker!End(r)

TimerFires(r) == Limiter!TimerFires(r) /\ UNCHANGED breakerVars

TooManyRequests(r, seconds) ==
    Limiter!Cooldown(r, seconds) /\ Breaker!Fail(r)

\* A verdict while the request still holds its slot: a 403 whose diagnostics
\* are to be read, a list that is to be handed out.
Judged(r) ==
    /\ Breaker!Forbid(r) \/ Breaker!Succeed(r)
    /\ UNCHANGED limiterVars

\* The slot is given back, then the ticket.
Finish(r) ==
    /\ Limiter!Release(r)
    /\ Breaker!End(r) \/ Breaker!Fail(r)

Stop == Limiter!Stop /\ UNCHANGED breakerVars

Heartbeat == Breaker!Heartbeat /\ UNCHANGED limiterVars

Next ==
    \/ \E r \in Requests :
          \/ Refuse(r) \/ Start(r) \/ Resume(r) \/ Cancel(r) \/ TimerFires(r)
          \/ Judged(r) \/ Finish(r)
          \/ \E seconds \in RetryAfter : TooManyRequests(r, seconds)
    \/ Stop
    \/ Heartbeat
    \/ Tick /\ UNCHANGED <<limiterVars, breakerVars>>

Spec == Init /\ [][Next]_vars

(***************************************************************************)
(* Properties.                                                             *)
(***************************************************************************)
\* The variables have their types, a full queue refuses, and the two views of
\* a request agree: what waits in the limiter has a ticket and no verdict,
\* what holds a slot has been sent.
TypeOK ==
    /\ Limiter!TypeOK
    /\ \A r \in Requests :
          /\ phase[r] = "idle" <=> task[r] = "idle"
          /\ phase[r] = "queued" <=> task[r] \in {"waiting", "awake"}
          /\ phase[r] \in {"sent", "leaving"} <=> task[r] = "holding"

\* The quota of the account: any QuotaLimit + 1 consecutive requests of the
\* client spread over a whole window.
RollingQuota == Limiter!RollingQuota

\* "A background turn after five contended grants", with the requests that
\* the breaker takes out of the queue.
BackgroundTurn == Limiter!BackgroundTurn

\* No lost wakeup in acquire: whatever ends before it, a request that could
\* leave does not sleep.
NobodySleepsInVain == Limiter!NobodySleepsInVain

LimiterSpec == Limiter!Spec
BreakerSpec == Breaker!Spec

\* The client never leaves the protocol of the limiter nor that of the
\* breaker, so what is proved of each holds of _request.
ComponentSpecs == LimiterSpec /\ BreakerSpec

=============================================================================
