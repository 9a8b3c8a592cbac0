---------------------------- MODULE Rule34Limiter ----------------------------
(***************************************************************************)
(* The rolling quota of the Rule34 account: requests of two classes queue  *)
(* under one condition variable.  Sections between two awaits are one      *)
(* action; the condition's lock is never held across an await.             *)
(***************************************************************************)
EXTENDS Rule34Quota

VARIABLES
    timestamps, queues, cooldown_until, interactive_streak, closed,
    task,               \* where a coroutine is
    alarm,              \* when the timeout of its wait fires, 0 without one
    granted,            \* history: the times of all grants
    bypassed            \* history: interactive grants the first background
                        \* waiter has seen pass

limiterVars == <<timestamps, queues, cooldown_until, interactive_streak,
                 closed, task, alarm, granted, bypassed>>
vars == <<clock, limiterVars>>

Init ==
    /\ clock = 0
    /\ timestamps = <<>>
    /\ queues = [k \in Class |-> <<>>]
    /\ cooldown_until = 0
    /\ interactive_streak = 0
    /\ closed = FALSE
    /\ task = [r \in Requests |-> "idle"]
    /\ alarm = [r \in Requests |-> 0]
    /\ granted = <<>>
    /\ bypassed = 0

(***************************************************************************)
(* What a waiter computes before it goes on or back to sleep.              *)
(***************************************************************************)
\* exactly the first n timestamps have left the window
Expired(n) ==
    /\ \A i \in 1..n : clock - timestamps[i] >= Window
    /\ n < Len(timestamps) => clock - timestamps[n + 1] < Window

Younger(n) == SubSeq(timestamps, n + 1, Len(timestamps))

\* Mutant of Turn: interactive requests always first.
TurnOfInteractive(q) ==
    IF q["interactive"] = <<>> THEN "background" ELSE "interactive"

\* The class whose head is next, some queue not being empty.
Turn(q) ==
    IF /\ q["background"] # <<>>
       /\ q["interactive"] = <<>> \/ interactive_streak >= InteractiveBurst
    THEN "background" ELSE "interactive"

Selected(r, q) == Turn(q) = Kind[r] /\ Head(q[Kind[r]]) = r

\* Mutant of HeldUntil: one request too many in a window.
HeldUntilOver(ts) ==
    LET quota == IF Len(ts) > QuotaLimit THEN ts[1] + Window ELSE 0
    IN  IF cooldown_until > quota THEN cooldown_until ELSE quota

\* The time until which the cooldown and the timestamps ts hold grants back.
HeldUntil(ts) ==
    LET quota == IF Len(ts) >= QuotaLimit THEN ts[1] + Window ELSE 0
    IN  IF cooldown_until > quota THEN cooldown_until ELSE quota

Locked(k) ==
    Cardinality({r \in Requests : task[r] = "holding" /\ Kind[r] = k})
        >= Concurrency[k]

Grantable(r, q, ts) ==
    Selected(r, q) /\ HeldUntil(ts) <= clock /\ ~Locked(Kind[r])

\* notify_all
Notified == [r \in Requests |->
                IF task[r] = "waiting" THEN "awake" ELSE task[r]]

\* A waiter that has been woken has left its timeout.
Alarms(t) == [r \in Requests |-> IF t[r] = "waiting" THEN alarm[r] ELSE 0]

\* What the head of the background queue has seen pass, if it is the same.
Watch(q, n) ==
    IF q["background"] = <<>> \/ queues["background"] = <<>> THEN 0
    ELSE IF Head(q["background"]) = Head(queues["background"]) THEN n ELSE 0

Grant(r, q, ts) ==
    LET contended == Kind[r] = "interactive" /\ q["background"] # <<>>
        popped == [q EXCEPT ![Kind[r]] = Tail(@)]
        woken == [Notified EXCEPT ![r] = "holding"]
    IN  /\ timestamps' = Append(ts, clock)
        /\ granted' = Append(granted, clock)
        /\ queues' = popped
        /\ interactive_streak' = IF contended THEN interactive_streak + 1 ELSE 0
        /\ bypassed' = IF contended THEN bypassed + 1 ELSE 0
        /\ task' = woken
        /\ alarm' = Alarms(woken)

\* The waiter leaves its queue without a grant; the others are notified.
Leave(r, q, ts) ==
    LET woken == [Notified EXCEPT ![r] = "idle"]
    IN  /\ \E i \in 1..Len(q[Kind[r]]) :
              /\ q[Kind[r]][i] = r
              /\ queues' = [q EXCEPT ![Kind[r]] =
                     SubSeq(@, 1, i - 1) \o SubSeq(@, i + 1, Len(@))]
        /\ bypassed' = Watch(queues', bypassed)
        /\ timestamps' = ts
        /\ task' = woken
        /\ alarm' = Alarms(woken)
        /\ UNCHANGED <<interactive_streak, granted>>

\* Back to sleep: until a time when only time is missing, else until notified.
Sleep(r, q, ts, t) ==
    LET asleep == [t EXCEPT ![r] = "waiting"]
    IN  /\ task' = asleep
        /\ alarm' = [Alarms(asleep) EXCEPT ![r] =
                         IF HeldUntil(ts) > clock THEN HeldUntil(ts) ELSE 0]
        /\ queues' = q
        /\ timestamps' = ts
        /\ bypassed' = Watch(q, bypassed)
        /\ UNCHANGED <<interactive_streak, granted>>

\* One round of the loop in acquire; admitted tells whether the admit
\* callback lets a granted request through.
Evaluate(r, q, t, admitted) ==
    \E n \in 0..Len(timestamps) :
        /\ Expired(n)
        /\ \/ Grantable(r, q, Younger(n)) /\ admitted /\ Grant(r, q, Younger(n))
           \/ Grantable(r, q, Younger(n)) /\ ~admitted /\ Leave(r, q, Younger(n))
           \/ ~Grantable(r, q, Younger(n)) /\ Sleep(r, q, Younger(n), t)

(***************************************************************************)
(* Actions.                                                                *)
(***************************************************************************)
HasRoom == Len(queues["interactive"]) + Len(queues["background"]) < QueueLimit

\* A new waiter wakes the others, then evaluates before any of them.
Acquire(r, admitted) ==
    /\ task[r] = "idle"
    /\ ~closed
    /\ HasRoom
    /\ Evaluate(r, [queues EXCEPT ![Kind[r]] = Append(@, r)], Notified, admitted)
    /\ UNCHANGED <<clock, cooldown_until, closed>>

Resume(r, admitted) ==
    /\ task[r] = "awake"
    /\ ~closed
    /\ Evaluate(r, queues, task, admitted)
    /\ UNCHANGED <<clock, cooldown_until, closed>>

\* Mutant of Cancel: the others are not notified.
CancelQuietly(r) ==
    /\ task[r] \in {"waiting", "awake"}
    /\ \E i \in 1..Len(queues[Kind[r]]) :
          /\ queues[Kind[r]][i] = r
          /\ queues' = [queues EXCEPT ![Kind[r]] =
                 SubSeq(@, 1, i - 1) \o SubSeq(@, i + 1, Len(@))]
    /\ bypassed' = Watch(queues', bypassed)
    /\ task' = [task EXCEPT ![r] = "idle"]
    /\ alarm' = [alarm EXCEPT ![r] = 0]
    /\ UNCHANGED <<clock, timestamps, cooldown_until, interactive_streak,
                   closed, granted>>

\* The waiter is cancelled, reaches its deadline, or finds the limiter stopped.
Cancel(r) ==
    /\ task[r] \in {"waiting", "awake"}
    /\ Leave(r, queues, timestamps)
    /\ UNCHANGED <<clock, cooldown_until, closed>>

TimerFires(r) ==
    /\ task[r] = "waiting"
    /\ alarm[r] # 0 /\ alarm[r] <= clock
    /\ task' = [task EXCEPT ![r] = "awake"]
    /\ alarm' = [alarm EXCEPT ![r] = 0]
    /\ UNCHANGED <<clock, timestamps, queues, cooldown_until,
                   interactive_streak, closed, granted, bypassed>>

\* semaphore.release(), then wake()
Released(r) ==
    LET woken == [Notified EXCEPT ![r] = "idle"]
    IN  /\ task[r] = "holding"
        /\ task' = woken
        /\ alarm' = Alarms(woken)

Release(r) ==
    /\ Released(r)
    /\ UNCHANGED <<clock, timestamps, queues, cooldown_until,
                   interactive_streak, closed, granted, bypassed>>

\* HTTP 429: everybody waits, and the request has ended.
Cooldown(r, seconds) ==
    /\ cooldown_until' = IF clock + seconds > cooldown_until
                         THEN clock + seconds ELSE cooldown_until
    /\ Released(r)
    /\ UNCHANGED <<clock, timestamps, queues, interactive_streak, closed,
                   granted, bypassed>>

Stop ==
    /\ ~closed
    /\ closed' = TRUE
    /\ task' = Notified
    /\ alarm' = Alarms(Notified)
    /\ UNCHANGED <<clock, timestamps, queues, cooldown_until,
                   interactive_streak, granted, bypassed>>

Next ==
    \/ \E r \in Requests, admitted \in BOOLEAN :
          Acquire(r, admitted) \/ Resume(r, admitted)
    \/ \E r \in Requests : Cancel(r) \/ TimerFires(r) \/ Release(r)
    \/ \E r \in Requests, seconds \in RetryAfter : Cooldown(r, seconds)
    \/ Stop
    \/ Tick /\ UNCHANGED limiterVars

Spec == Init /\ [][Next]_vars

(***************************************************************************)
(* Properties.                                                             *)
(***************************************************************************)
Waiters(k) == {r \in Requests : Kind[r] = k /\ task[r] \in {"waiting", "awake"}}

\* The variables have their types; each queue holds its waiters, once each,
\* and no more than QueueLimit of them.
TypeOK ==
    /\ ClockOK
    /\ timestamps \in Seq(0..Horizon)
    /\ granted \in Seq(0..Horizon)
    /\ queues \in [Class -> Seq(Requests)]
    /\ \A k \in Class :
          /\ {queues[k][i] : i \in 1..Len(queues[k])} = Waiters(k)
          /\ Len(queues[k]) = Cardinality(Waiters(k))
    /\ Len(queues["interactive"]) + Len(queues["background"]) <= QueueLimit
    /\ cooldown_until \in Nat
    /\ interactive_streak \in Nat
    /\ bypassed \in Nat
    /\ closed \in BOOLEAN
    /\ task \in [Requests -> {"idle", "waiting", "awake", "holding"}]
    /\ alarm \in [Requests -> Nat]

\* The quota: any QuotaLimit + 1 consecutive requests spread over a whole
\* window, though acquire only looks at the deque it prunes itself.
RollingQuota ==
    \A i \in 1..Len(granted) :
        i + QuotaLimit <= Len(granted) =>
            granted[i + QuotaLimit] - granted[i] >= Window

\* "A background turn after five contended grants": whoever arrives or leaves,
\* the first background waiter sees no more interactive grants than that.
BackgroundTurn == bypassed <= InteractiveBurst

\* No lost wakeup: a sleeper that could be granted has a timeout that is due,
\* and once the limiter is stopped nobody sleeps.
NobodySleepsInVain ==
    \A r \in Requests : task[r] = "waiting" =>
        /\ ~closed
        /\ \A n \in 0..Len(timestamps) :
              Expired(n) /\ Grantable(r, queues, Younger(n)) =>
                  alarm[r] # 0 /\ alarm[r] <= clock

=============================================================================
