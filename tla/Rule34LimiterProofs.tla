------------------------- MODULE Rule34LimiterProofs -------------------------
(***************************************************************************)
(* The rolling quota, the background turn and the wakeups of               *)
(* Rule34Limiter, for every set of requests, limit, window and burst.      *)
(***************************************************************************)
EXTENDS Rule34Limiter, SequenceTheorems, TLAPS

(***************************************************************************)
(* A step, as the quota and the turns see it: it only forgets timestamps   *)
(* that have left the window, or it also grants one request.               *)
(***************************************************************************)
Forgets(n) ==
    /\ n \in 0..Len(timestamps)
    /\ Expired(n)
    /\ timestamps' = Younger(n)
    /\ granted' = granted
    /\ interactive_streak' = interactive_streak
    /\ bypassed' \in {0, bypassed}
    /\ clock' = clock
    /\ cooldown_until' = cooldown_until

Grants(n) ==
    /\ n \in 0..Len(timestamps)
    /\ Expired(n)
    /\ HeldUntil(Younger(n)) <= clock
    /\ timestamps' = Append(Younger(n), clock)
    /\ granted' = Append(granted, clock)
    /\ clock' = clock
    /\ cooldown_until' = cooldown_until
    /\ \/ interactive_streak' = 0 /\ bypassed' = 0
       \/ /\ ~(interactive_streak >= InteractiveBurst)
          /\ interactive_streak' = interactive_streak + 1
          /\ bypassed' = bypassed + 1

Rests ==
    /\ timestamps' = timestamps
    /\ granted' = granted
    /\ interactive_streak' = interactive_streak
    /\ bypassed' \in {0, bypassed}
    /\ clock' \in {clock, clock + 1}
    /\ \/ cooldown_until' = cooldown_until
       \/ \E seconds \in RetryAfter : cooldown_until' = clock + seconds

\* One round of acquire forgets, and grants only with a free place.
LEMMA EvaluateKinds ==
    ASSUME NEW r \in Requests, NEW q, NEW t, NEW admitted \in BOOLEAN,
           Evaluate(r, q, t, admitted), UNCHANGED <<clock, cooldown_until>>
    PROVE  \E n \in 0..Len(timestamps) : Forgets(n) \/ Grants(n)
<1>1. PICK n \in 0..Len(timestamps) :
        /\ Expired(n)
        /\ \/ Grantable(r, q, Younger(n)) /\ admitted /\ Grant(r, q, Younger(n))
           \/ Grantable(r, q, Younger(n)) /\ ~admitted /\ Leave(r, q, Younger(n))
           \/ ~Grantable(r, q, Younger(n)) /\ Sleep(r, q, Younger(n), t)
  BY DEF Evaluate
<1>2. ASSUME Grantable(r, q, Younger(n)), Grant(r, q, Younger(n))
      PROVE  Grants(n)
  <2>1. HeldUntil(Younger(n)) <= clock
    BY <1>2 DEF Grantable
  <2>2. CASE Kind[r] = "interactive" /\ q["background"] # <<>>
    <3>1. ~(interactive_streak >= InteractiveBurst)
      BY <1>2, <2>2 DEF Grantable, Selected, Turn
    <3>2. QED
      BY <1>1, <1>2, <2>1, <2>2, <3>1 DEF Grant, Grants
  <2>3. CASE ~(Kind[r] = "interactive" /\ q["background"] # <<>>)
    BY <1>1, <1>2, <2>1, <2>3 DEF Grant, Grants
  <2>4. QED
    BY <2>2, <2>3
<1>3. ASSUME Leave(r, q, Younger(n))
      PROVE  Forgets(n)
  BY <1>1, <1>3 DEF Leave, Forgets, Watch
<1>4. ASSUME Sleep(r, q, Younger(n), t)
      PROVE  Forgets(n)
  BY <1>1, <1>4 DEF Sleep, Forgets, Watch
<1>5. QED
  BY <1>1, <1>2, <1>3, <1>4

LEMMA StepKinds ==
    ASSUME [Next]_vars
    PROVE  Rests \/ \E n \in 0..Len(timestamps) : Forgets(n) \/ Grants(n)
<1>1. ASSUME NEW r \in Requests, NEW admitted \in BOOLEAN,
             Acquire(r, admitted) \/ Resume(r, admitted)
      PROVE  \E n \in 0..Len(timestamps) : Forgets(n) \/ Grants(n)
  BY <1>1, EvaluateKinds DEF Acquire, Resume
<1>2. ASSUME NEW r \in Requests, Cancel(r)
      PROVE  Rests
  BY <1>2 DEF Cancel, Leave, Watch, Rests
<1>3. ASSUME NEW r \in Requests, TimerFires(r) \/ Release(r)
      PROVE  Rests
  BY <1>3 DEF TimerFires, Release, Released, Rests
<1>4. ASSUME NEW r \in Requests, NEW seconds \in RetryAfter,
             Cooldown(r, seconds)
      PROVE  Rests
  BY <1>4 DEF Cooldown, Rests
<1>5. CASE Stop
  BY <1>5 DEF Stop, Rests
<1>6. CASE Tick /\ UNCHANGED limiterVars
  BY <1>6 DEF Tick, limiterVars, Rests
<1>7. CASE UNCHANGED vars
  BY <1>7 DEF vars, limiterVars, Rests
<1>8. QED
  BY <1>1, <1>2, <1>3, <1>4, <1>5, <1>6, <1>7 DEF Next

(***************************************************************************)
(* The rolling quota.  The deque is the tail of the history, and what has  *)
(* been forgotten is at least a window old.                                *)
(***************************************************************************)
QuotaInv ==
    /\ clock \in Nat
    /\ cooldown_until \in Nat
    /\ timestamps \in Seq(Nat)
    /\ granted \in Seq(Nat)
    /\ Len(timestamps) <= Len(granted)
    /\ \A i \in 1..Len(timestamps) :
          timestamps[i] = granted[Len(granted) - Len(timestamps) + i]
    /\ \A i \in 1..(Len(granted) - Len(timestamps)) :
          clock - granted[i] >= Window
    /\ RollingQuota

LEMMA QuotaInductive == QuotaInv /\ [Next]_vars => QuotaInv'
<1> SUFFICES ASSUME QuotaInv, [Next]_vars
             PROVE  QuotaInv'
  OBVIOUS
<1> USE LimiterAssumption
<1>0. /\ Window \in Nat
      /\ QuotaLimit \in Nat \ {0}
  OBVIOUS
<1>1. CASE Rests
  <2>1. clock' \in Nat /\ clock' >= clock /\ cooldown_until' \in Nat
    BY <1>1 DEF Rests, QuotaInv
  <2>2. \A i \in 1..(Len(granted') - Len(timestamps')) :
          clock' - granted'[i] >= Window
    BY <1>0, <1>1, <2>1 DEF Rests, QuotaInv
  <2>3. RollingQuota'
    BY <1>1 DEF Rests, QuotaInv, RollingQuota
  <2>4. QED
    BY <1>1, <2>1, <2>2, <2>3 DEF Rests, QuotaInv
<1>2. ASSUME NEW n \in 0..Len(timestamps), Expired(n)
      PROVE  /\ Younger(n) \in Seq(Nat)
             /\ Len(Younger(n)) = Len(timestamps) - n
             /\ \A i \in 1..(Len(timestamps) - n) :
                   Younger(n)[i] = timestamps[n + i]
             /\ \A i \in 1..(Len(timestamps) - n) :
                   Younger(n)[i] = granted[Len(granted) - (Len(timestamps) - n) + i]
             /\ \A i \in 1..(Len(granted) - (Len(timestamps) - n)) :
                   clock - granted[i] >= Window
  <2>1. Younger(n) \in Seq(Nat) /\ Len(Younger(n)) = Len(timestamps) - n
    BY <1>2 DEF Younger, QuotaInv
  <2>2. \A i \in 1..(Len(timestamps) - n) : Younger(n)[i] = timestamps[n + i]
    BY <1>2 DEF Younger, QuotaInv
  <2>3. \A i \in 1..(Len(timestamps) - n) :
          Younger(n)[i] = granted[Len(granted) - (Len(timestamps) - n) + i]
    <3> SUFFICES ASSUME NEW i \in 1..(Len(timestamps) - n)
                 PROVE  Younger(n)[i] = granted[Len(granted) - (Len(timestamps) - n) + i]
      OBVIOUS
    <3>1. n + i \in 1..Len(timestamps)
      BY <1>2 DEF QuotaInv
    <3>2. timestamps[n + i] = granted[Len(granted) - Len(timestamps) + (n + i)]
      BY <3>1 DEF QuotaInv
    <3>3. Len(granted) - Len(timestamps) + (n + i)
            = Len(granted) - (Len(timestamps) - n) + i
      BY <1>2 DEF QuotaInv
    <3>4. QED
      BY <2>2, <3>2, <3>3
  <2>4. ASSUME NEW i \in 1..(Len(granted) - (Len(timestamps) - n))
        PROVE  clock - granted[i] >= Window
    <3>1. CASE i <= Len(granted) - Len(timestamps)
      BY <1>2, <2>4, <3>1 DEF QuotaInv
    <3>2. CASE ~(i <= Len(granted) - Len(timestamps))
      <4> DEFINE j == i - (Len(granted) - Len(timestamps))
      <4>1. j \in 1..n /\ j \in 1..Len(timestamps)
        BY <1>2, <2>4, <3>2 DEF QuotaInv
      <4>2. timestamps[j] = granted[Len(granted) - Len(timestamps) + j]
        BY <4>1 DEF QuotaInv
      <4>3. Len(granted) - Len(timestamps) + j = i
        BY <2>4 DEF QuotaInv
      <4>4. clock - timestamps[j] >= Window
        BY <1>2, <4>1 DEF Expired
      <4>5. QED
        BY <4>2, <4>3, <4>4
    <3>3. QED
      BY <3>1, <3>2
  <2>5. QED
    BY <2>1, <2>2, <2>3, <2>4
<1>3. ASSUME NEW n \in 0..Len(timestamps), Forgets(n)
      PROVE  QuotaInv'
  <2>1. RollingQuota'
    BY <1>3 DEF Forgets, QuotaInv, RollingQuota
  <2>2. /\ n \in 0..Len(timestamps) /\ Expired(n)
        /\ timestamps' = Younger(n) /\ granted' = granted
        /\ clock' = clock /\ cooldown_until' = cooldown_until
    BY <1>3 DEF Forgets
  <2>3. /\ timestamps' \in Seq(Nat)
        /\ Len(timestamps') = Len(timestamps) - n
        /\ \A i \in 1..Len(timestamps') :
              timestamps'[i] = granted'[Len(granted') - Len(timestamps') + i]
        /\ \A i \in 1..(Len(granted') - Len(timestamps')) :
              clock' - granted'[i] >= Window
    BY <1>2, <2>2
  <2>4. Len(timestamps') <= Len(granted')
    BY <2>2, <2>3 DEF QuotaInv
  <2>5. QED
    BY <2>1, <2>2, <2>3, <2>4 DEF QuotaInv
<1>4. ASSUME NEW n \in 0..Len(timestamps), Grants(n)
      PROVE  QuotaInv'
  <2> DEFINE ts == Younger(n)
             G == Len(granted)
             k == Len(timestamps) - n
  <2>1. /\ ts \in Seq(Nat)
        /\ Len(ts) = k
        /\ \A i \in 1..k : ts[i] = timestamps[n + i]
        /\ \A i \in 1..k : ts[i] = granted[G - k + i]
        /\ \A i \in 1..(G - k) : clock - granted[i] >= Window
    BY <1>2, <1>4 DEF Grants
  <2>2. k \in Nat /\ G \in Nat /\ k <= G
    BY DEF QuotaInv
  <2>3. /\ timestamps' = Append(ts, clock)
        /\ granted' = Append(granted, clock)
        /\ clock' = clock
    BY <1>4 DEF Grants
  <2>4. /\ timestamps' \in Seq(Nat) /\ Len(timestamps') = k + 1
        /\ granted' \in Seq(Nat) /\ Len(granted') = G + 1
        /\ \A i \in 1..G : granted'[i] = granted[i]
        /\ granted'[G + 1] = clock
        /\ \A i \in 1..k : timestamps'[i] = ts[i]
        /\ timestamps'[k + 1] = clock
    BY <2>1, <2>2, <2>3 DEF QuotaInv
  <2>5. \A i \in 1..(k + 1) : timestamps'[i] = granted'[(G + 1) - (k + 1) + i]
    <3> SUFFICES ASSUME NEW i \in 1..(k + 1)
                 PROVE  timestamps'[i] = granted'[(G + 1) - (k + 1) + i]
      OBVIOUS
    <3>1. CASE i = k + 1
      <4>1. (G + 1) - (k + 1) + i = G + 1
        BY <2>2, <3>1
      <4>2. timestamps'[i] = clock /\ granted'[G + 1] = clock
        BY <2>4, <3>1
      <4>3. QED
        BY <4>1, <4>2
    <3>2. CASE i \in 1..k
      <4>1. (G + 1) - (k + 1) + i = G - k + i /\ G - k + i \in 1..G
        BY <2>2, <3>2
      <4>2. QED
        BY <2>1, <2>4, <3>2, <4>1
    <3>3. QED
      BY <2>2, <3>1, <3>2
  <2>6. \A i \in 1..((G + 1) - (k + 1)) : clock - granted'[i] >= Window
    <3>1. (G + 1) - (k + 1) = G - k /\ G - k <= G
      BY <2>2
    <3>2. \A i \in 1..(G - k) : i \in 1..G
      BY <2>2
    <3>3. QED
      BY <2>1, <2>4, <3>1, <3>2
  <2>7. RollingQuota'
    <3> SUFFICES ASSUME NEW i \in 1..(G + 1), i + QuotaLimit <= G + 1
                 PROVE  granted'[i + QuotaLimit] - granted'[i] >= Window
      BY <2>4 DEF RollingQuota
    <3>1. CASE i + QuotaLimit <= G
      <4>1. i \in 1..G /\ i + QuotaLimit \in 1..G
        BY <1>0, <2>2, <3>1
      <4>2. granted[i + QuotaLimit] - granted[i] >= Window
        BY <3>1, <4>1 DEF QuotaInv, RollingQuota
      <4>3. QED
        BY <2>4, <4>1, <4>2
    <3>2. CASE i + QuotaLimit = G + 1
      <4>1. k < QuotaLimit
        <5> SUFFICES ASSUME k >= QuotaLimit
                     PROVE  FALSE
          BY <1>0, <2>2
        <5>1. HeldUntil(ts) <= clock
          BY <1>4 DEF Grants
        <5>2. Len(ts) >= QuotaLimit
          BY <2>1
        <5>3. k >= 1 /\ n + 1 \in 1..Len(timestamps) /\ n < Len(timestamps)
          BY <1>0, <2>2 DEF QuotaInv
        <5>4. ts[1] = timestamps[n + 1] /\ timestamps[n + 1] \in Nat
          <6>1. 1 \in 1..k
            BY <2>2, <5>3
          <6>2. timestamps[n + 1] \in Nat
            <7>1. timestamps \in Seq(Nat)
              BY DEF QuotaInv
            <7>2. QED
              BY <5>3, <7>1, ElementOfSeq
          <6>3. QED
            BY <2>1, <6>1, <6>2
        <5>5. clock - timestamps[n + 1] < Window
          <6>1. Expired(n)
            BY <1>4 DEF Grants
          <6>2. QED
            BY <5>3, <6>1 DEF Expired
        <5>6. HeldUntil(ts) = ts[1] + Window \/ HeldUntil(ts) > ts[1] + Window
          BY <5>2 DEF HeldUntil
        <5>7. clock \in Nat /\ cooldown_until \in Nat
          BY DEF QuotaInv
        <5>8. CASE HeldUntil(ts) = ts[1] + Window
          BY <1>0, <5>1, <5>4, <5>5, <5>7, <5>8
        <5>9. CASE HeldUntil(ts) > ts[1] + Window /\ HeldUntil(ts) # ts[1] + Window
          <6>1. HeldUntil(ts) = cooldown_until
            BY <5>2, <5>9 DEF HeldUntil
          <6>2. QED
            BY <1>0, <5>1, <5>4, <5>5, <5>7, <5>9, <6>1
        <5>10. QED
          BY <5>6, <5>8, <5>9
      <4>2. i \in 1..(G - k) /\ i \in 1..G
        BY <1>0, <2>2, <3>2, <4>1
      <4>3. clock - granted[i] >= Window
        BY <2>1, <4>2
      <4>4. QED
        BY <2>4, <3>2, <4>2, <4>3
    <3>3. QED
      BY <1>0, <2>2, <3>1, <3>2
  <2>8. clock' \in Nat /\ cooldown_until' \in Nat
    BY <1>4 DEF Grants, QuotaInv
  <2>9. Len(timestamps') <= Len(granted')
    BY <2>2, <2>4
  <2>10. QED
    BY <2>3, <2>4, <2>5, <2>6, <2>7, <2>8, <2>9 DEF QuotaInv
<1>5. QED
  BY <1>1, <1>3, <1>4, StepKinds

\* However requests arrive, wait, are cancelled or are held back, no window
\* sees more than QuotaLimit of them.
THEOREM QuotaKept == Spec => []RollingQuota
<1>1. Init => QuotaInv
  BY DEF Init, QuotaInv, RollingQuota
<1>2. QuotaInv => RollingQuota
  BY DEF QuotaInv
<1>3. QED
  BY <1>1, <1>2, QuotaInductive, PTL DEF Spec

(***************************************************************************)
(* The background turn.                                                    *)
(***************************************************************************)
TurnInv ==
    /\ bypassed \in Nat
    /\ interactive_streak \in Nat
    /\ bypassed <= interactive_streak
    /\ interactive_streak <= InteractiveBurst

\* The first background waiter sees at most InteractiveBurst interactive
\* requests go first, whatever the others do.
THEOREM BackgroundTurnKept == Spec => []BackgroundTurn
<1> USE LimiterAssumption
<1>1. Init => TurnInv
  BY DEF Init, TurnInv
<1>2. TurnInv /\ [Next]_vars => TurnInv'
  <2> SUFFICES ASSUME TurnInv, [Next]_vars
               PROVE  TurnInv'
    OBVIOUS
  <2>1. CASE Rests
    BY <2>1 DEF Rests, TurnInv
  <2>2. ASSUME NEW n \in 0..Len(timestamps), Forgets(n)
        PROVE  TurnInv'
    BY <2>2 DEF Forgets, TurnInv
  <2>3. ASSUME NEW n \in 0..Len(timestamps), Grants(n)
        PROVE  TurnInv'
    BY <2>3 DEF Grants, TurnInv
  <2>4. QED
    BY <2>1, <2>2, <2>3, StepKinds
<1>3. TurnInv => BackgroundTurn
  BY DEF TurnInv, BackgroundTurn
<1>4. QED
  BY <1>1, <1>2, <1>3, PTL DEF Spec

(***************************************************************************)
(* No lost wakeup.  Whoever sleeps with nothing but time in its way has a  *)
(* timeout no later than the time that holds it back.                      *)
(***************************************************************************)
Timed(r) ==
    Selected(r, queues) /\ ~Locked(Kind[r]) =>
        /\ alarm[r] # 0
        /\ alarm[r] <= clock \/ alarm[r] <= HeldUntil(timestamps)

WakeInv ==
    /\ task \in [Requests -> {"idle", "waiting", "awake", "holding"}]
    /\ alarm \in [Requests -> Nat]
    /\ \A r \in Requests : task[r] = "waiting" => ~closed /\ Timed(r)

\* Forgetting timestamps never advances the time a grant has to wait for.
LEMMA ForgettingDelaysNothing ==
    ASSUME QuotaInv, NEW n \in 0..Len(timestamps), Expired(n)
    PROVE  /\ HeldUntil(Younger(n)) \in Nat
           /\ HeldUntil(timestamps) \in Nat
           /\ \/ HeldUntil(timestamps) <= clock
              \/ HeldUntil(timestamps) <= HeldUntil(Younger(n))
<1> USE LimiterAssumption DEF QuotaInv
<1> DEFINE Quota(ts) == IF Len(ts) >= QuotaLimit THEN ts[1] + Window ELSE 0
<1>1. Younger(n) \in Seq(Nat)
  BY DEF Younger
<1>2. \A ts \in Seq(Nat) : Quota(ts) \in Nat
  <2>1. \A ts \in Seq(Nat) : Len(ts) >= QuotaLimit => ts[1] \in Nat
    BY ElementOfSeq
  <2>2. QED
    BY <2>1
<1>3. \A ts \in Seq(Nat) : HeldUntil(ts) \in Nat
  BY <1>2 DEF HeldUntil
<1>4. CASE n = 0
  <2>1. Younger(n) = timestamps
    BY <1>4 DEF Younger
  <2>2. QED
    BY <1>3, <2>1
<1>5. CASE n # 0
  <2>1. 1 \in 1..Len(timestamps) /\ 1 \in 1..n
    BY <1>5
  <2>2. clock - timestamps[1] >= Window /\ timestamps[1] \in Nat
    BY <2>1 DEF Expired
  <2>3. Quota(timestamps) <= clock
    BY <2>2
  <2>4. HeldUntil(timestamps) <= clock \/ HeldUntil(timestamps) = cooldown_until
    BY <2>3 DEF HeldUntil
  <2>5. cooldown_until <= HeldUntil(Younger(n))
    BY <1>1, <1>2 DEF HeldUntil
  <2>6. QED
    BY <1>1, <1>3, <2>4, <2>5
<1>6. QED
  BY <1>4, <1>5

\* A round of acquire that grants or gives up wakes everybody.
LEMMA LeavingWakes ==
    ASSUME WakeInv, NEW r \in Requests, NEW q, NEW ts,
           Grant(r, q, ts) \/ Leave(r, q, ts)
    PROVE  /\ task' \in [Requests -> {"idle", "awake", "holding"}]
           /\ alarm' \in [Requests -> Nat]
<1>1. Notified \in [Requests -> {"idle", "awake", "holding"}]
  BY DEF WakeInv, Notified
<1>2. task' \in [Requests -> {"idle", "awake", "holding"}]
  BY <1>1 DEF Grant, Leave
<1>3. alarm' = Alarms(task')
  BY DEF Grant, Leave
<1>4. QED
  BY <1>2, <1>3 DEF Alarms, WakeInv

\* A round that goes back to sleep sets a timeout if only time is missing,
\* and takes nothing from those who sleep already.
LEMMA SleepingIsTimed ==
    ASSUME WakeInv, QuotaInv, NEW r \in Requests, NEW q,
           NEW t \in {task, Notified}, NEW n \in 0..Len(timestamps),
           task[r] \notin {"waiting", "holding"}, ~closed,
           t = Notified \/ q = queues,
           Expired(n), ~Grantable(r, q, Younger(n)), Sleep(r, q, Younger(n), t),
           UNCHANGED <<clock, cooldown_until, closed>>
    PROVE  WakeInv'
<1> USE DEF WakeInv
<1>1. t \in [Requests -> {"idle", "waiting", "awake", "holding"}]
  BY DEF Notified
<1>2. task' = [t EXCEPT ![r] = "waiting"]
  BY DEF Sleep
<1>3. task' \in [Requests -> {"idle", "waiting", "awake", "holding"}]
  BY <1>1, <1>2
<1>4. HeldUntil(Younger(n)) \in Nat /\ clock \in Nat
  BY ForgettingDelaysNothing DEF QuotaInv
<1>5. alarm' = [Alarms(task') EXCEPT ![r] =
                    IF HeldUntil(Younger(n)) > clock
                    THEN HeldUntil(Younger(n)) ELSE 0]
  BY <1>2 DEF Sleep
<1>6. Alarms(task') \in [Requests -> Nat]
  BY DEF Alarms
<1>7. alarm' \in [Requests -> Nat]
  BY <1>4, <1>5, <1>6
<1>8. \A k : Locked(k)' <=> Locked(k)
  <2>1. \A s \in Requests : task'[s] = "holding" <=> task[s] = "holding"
    BY <1>1, <1>2 DEF Notified
  <2>2. QED
    BY <2>1 DEF Locked
<1>9. \A s \in Requests : Selected(s, queues)' <=> Selected(s, q)
  BY DEF Selected, Turn, Sleep
<1>10. HeldUntil(timestamps)' = HeldUntil(Younger(n))
  BY DEF Sleep, HeldUntil
<1>11. Timed(r)'
  <2>1. HeldUntil(Younger(n)) > clock \/ ~Selected(r, q) \/ Locked(Kind[r])
    BY <1>4 DEF Grantable
  <2>2. alarm'[r] = IF HeldUntil(Younger(n)) > clock
                    THEN HeldUntil(Younger(n)) ELSE 0
    BY <1>5, <1>6
  <2>3. QED
    BY <1>4, <1>8, <1>9, <1>10, <2>1, <2>2 DEF Timed
<1>12. ASSUME NEW s \in Requests, s # r, task'[s] = "waiting"
       PROVE  Timed(s)'
  <2>1. t = task /\ q = queues /\ task[s] = "waiting"
    BY <1>1, <1>2, <1>12 DEF Notified
  <2>2. Timed(s) /\ alarm'[s] = alarm[s] /\ q = queues
    BY <1>5, <1>6, <1>12, <2>1 DEF Alarms
  <2>3. \/ HeldUntil(timestamps) <= clock
        \/ HeldUntil(timestamps) <= HeldUntil(Younger(n))
    BY ForgettingDelaysNothing
  <2>4. HeldUntil(timestamps) \in Nat /\ alarm[s] \in Nat
    BY ForgettingDelaysNothing
  <2>5. Selected(s, queues) /\ ~Locked(Kind[s]) =>
           /\ alarm[s] # 0
           /\ alarm[s] <= clock \/ alarm[s] <= HeldUntil(Younger(n))
    BY <1>4, <2>2, <2>3, <2>4 DEF Timed
  <2>6. QED
    BY <1>8, <1>9, <1>10, <2>2, <2>5 DEF Timed
<1>13. QED
  BY <1>3, <1>7, <1>11, <1>12

LEMMA EvaluateWakes ==
    ASSUME WakeInv, QuotaInv, NEW r \in Requests, NEW q,
           NEW t \in {task, Notified}, NEW admitted \in BOOLEAN,
           task[r] \notin {"waiting", "holding"}, ~closed,
           t = Notified \/ q = queues,
           Evaluate(r, q, t, admitted),
           UNCHANGED <<clock, cooldown_until, closed>>
    PROVE  WakeInv'
<1>1. PICK n \in 0..Len(timestamps) :
        /\ Expired(n)
        /\ \/ Grantable(r, q, Younger(n)) /\ admitted /\ Grant(r, q, Younger(n))
           \/ Grantable(r, q, Younger(n)) /\ ~admitted /\ Leave(r, q, Younger(n))
           \/ ~Grantable(r, q, Younger(n)) /\ Sleep(r, q, Younger(n), t)
  BY DEF Evaluate
<1>2. CASE Grant(r, q, Younger(n)) \/ Leave(r, q, Younger(n))
  BY <1>2, LeavingWakes DEF WakeInv
<1>3. CASE ~Grantable(r, q, Younger(n)) /\ Sleep(r, q, Younger(n), t)
  BY <1>1, <1>3, SleepingIsTimed
<1>4. QED
  BY <1>1, <1>2, <1>3

LEMMA WakeInductive == QuotaInv /\ WakeInv /\ [Next]_vars => WakeInv'
<1> SUFFICES ASSUME QuotaInv, WakeInv, [Next]_vars
             PROVE  WakeInv'
  OBVIOUS
<1>1. ASSUME NEW r \in Requests, NEW admitted \in BOOLEAN,
             Acquire(r, admitted)
      PROVE  WakeInv'
  BY <1>1, EvaluateWakes DEF Acquire
<1>2. ASSUME NEW r \in Requests, NEW admitted \in BOOLEAN,
             Resume(r, admitted)
      PROVE  WakeInv'
  BY <1>2, EvaluateWakes DEF Resume
<1>3. ASSUME NEW r \in Requests, Cancel(r)
      PROVE  WakeInv'
  <2>1. Leave(r, queues, timestamps)
    BY <1>3 DEF Cancel
  <2>2. /\ task' \in [Requests -> {"idle", "awake", "holding"}]
        /\ alarm' \in [Requests -> Nat]
    BY <2>1, LeavingWakes
  <2>3. QED
    BY <2>2 DEF WakeInv
<1>4. ASSUME NEW r \in Requests, TimerFires(r)
      PROVE  WakeInv'
  <2>1. task' \in [Requests -> {"idle", "waiting", "awake", "holding"}]
    BY <1>4 DEF TimerFires, WakeInv
  <2>2. alarm' \in [Requests -> Nat]
    BY <1>4 DEF TimerFires, WakeInv
  <2>3. \A k : Locked(k)' <=> Locked(k)
    <3>1. \A s \in Requests : task'[s] = "holding" <=> task[s] = "holding"
      BY <1>4 DEF TimerFires, WakeInv
    <3>2. QED
      BY <3>1 DEF Locked
  <2>4. ASSUME NEW s \in Requests, task'[s] = "waiting"
        PROVE  ~closed' /\ Timed(s)'
    <3>1. task[s] = "waiting" /\ alarm'[s] = alarm[s]
      BY <1>4, <2>4 DEF TimerFires, WakeInv
    <3>2. Timed(s) /\ ~closed
      BY <3>1 DEF WakeInv
    <3>3. QED
      BY <1>4, <2>3, <3>1, <3>2
      DEF TimerFires, Timed, Selected, Turn, HeldUntil
  <2>5. QED
    BY <2>1, <2>2, <2>4 DEF WakeInv
<1>5. ASSUME NEW r \in Requests, Released(r)
      PROVE  WakeInv'
  <2>1. task' \in [Requests -> {"idle", "awake", "holding"}]
    BY <1>5 DEF Released, Notified, WakeInv
  <2>2. alarm' \in [Requests -> Nat]
    BY <1>5 DEF Released, Alarms, WakeInv
  <2>3. QED
    BY <2>1, <2>2 DEF WakeInv
<1>6. CASE Stop
  <2>1. task' \in [Requests -> {"idle", "awake", "holding"}]
    BY <1>6 DEF Stop, Notified, WakeInv
  <2>2. alarm' \in [Requests -> Nat]
    BY <1>6 DEF Stop, Alarms, WakeInv
  <2>3. QED
    BY <2>1, <2>2 DEF WakeInv
<1>7. CASE UNCHANGED limiterVars /\ clock' \in {clock, clock + 1}
  <2>1. clock \in Nat
    BY DEF QuotaInv
  <2>2. ASSUME NEW r \in Requests, task[r] = "waiting"
        PROVE  Timed(r)'
    <3>1. Timed(r) /\ alarm[r] \in Nat
      BY <2>2 DEF WakeInv
    <3>2. QED
      BY <1>7, <2>1, <3>1
      DEF Timed, Selected, Turn, Locked, HeldUntil, limiterVars
  <2>3. QED
    BY <1>7, <2>2 DEF WakeInv, limiterVars
<1>8. QED
  BY <1>1, <1>2, <1>3, <1>4, <1>5, <1>6, <1>7
  DEF Next, Release, Cooldown, Tick, vars

\* A sleeper that could be granted has a timeout that is due, and nobody
\* sleeps in a stopped limiter: no notify_all is missing anywhere.
THEOREM NobodySleeps == Spec => []NobodySleepsInVain
<1>1. Init => QuotaInv /\ WakeInv
  BY DEF Init, QuotaInv, RollingQuota, WakeInv
<1>2. QuotaInv /\ WakeInv => NobodySleepsInVain
  <2> SUFFICES ASSUME QuotaInv, WakeInv, NEW r \in Requests,
                      task[r] = "waiting"
               PROVE  /\ ~closed
                      /\ \A n \in 0..Len(timestamps) :
                            Expired(n) /\ Grantable(r, queues, Younger(n)) =>
                                alarm[r] # 0 /\ alarm[r] <= clock
    BY DEF NobodySleepsInVain
  <2>1. ~closed /\ Timed(r) /\ alarm[r] \in Nat /\ clock \in Nat
    BY DEF WakeInv, QuotaInv
  <2>2. ASSUME NEW n \in 0..Len(timestamps),
               Expired(n), Grantable(r, queues, Younger(n))
        PROVE  alarm[r] # 0 /\ alarm[r] <= clock
    BY <2>1, <2>2, ForgettingDelaysNothing DEF Grantable, Timed
  <2>3. QED
    BY <2>1, <2>2
<1>3. QED
  BY <1>1, <1>2, QuotaInductive, WakeInductive, PTL DEF Spec

=============================================================================
