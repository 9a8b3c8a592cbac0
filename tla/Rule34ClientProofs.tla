-------------------------- MODULE Rule34ClientProofs --------------------------
(***************************************************************************)
(* The client stays within the protocols of its limiter and its breaker,   *)
(* for every instance: what Rule34LimiterProofs and Rule34OutageProofs     *)
(* show of them holds of the requests it sends.                            *)
(***************************************************************************)
EXTENDS Rule34Client, TLAPS

\* The limiter of the client, with what is proved of it.
Proved == INSTANCE Rule34LimiterProofs
            WITH cooldown_until <- quota_cooldown_until

\* A step of the client, as its limiter sees it.
LEMMA LimiterStep == [Next]_vars => [Limiter!Next]_(Limiter!vars)
<1> SUFFICES ASSUME [Next]_vars
             PROVE  Limiter!Next \/ UNCHANGED Limiter!vars
  BY DEF Limiter!vars
<1> USE DEF Limiter!vars, Limiter!limiterVars, limiterVars
<1>1. CASE UNCHANGED vars
  BY <1>1 DEF vars
<1>2. CASE Stop
  BY <1>2 DEF Stop, Limiter!Next
<1>3. CASE Tick /\ UNCHANGED <<limiterVars, breakerVars>>
  BY <1>3 DEF Limiter!Next, Limiter!Tick, Tick
<1>4. ASSUME NEW r \in Requests, Refuse(r)
      PROVE  UNCHANGED Limiter!vars
  BY <1>4 DEF Refuse, Breaker!Reject, Breaker!Bounce
<1>5. ASSUME NEW r \in Requests, Start(r)
      PROVE  Limiter!Next
  BY <1>5 DEF Start, Limiter!Next
<1>6. ASSUME NEW r \in Requests, Resume(r)
      PROVE  Limiter!Next
  <2>1. Breaker!Valid(r) \in BOOLEAN
    BY DEF Breaker!Valid
  <2>2. Limiter!Resume(r, Breaker!Valid(r))
    BY <1>6 DEF Resume
  <2>3. QED
    BY <2>1, <2>2 DEF Limiter!Next
<1>7. ASSUME NEW r \in Requests, Cancel(r) \/ TimerFires(r) \/ Finish(r)
      PROVE  Limiter!Next
  BY <1>7 DEF Cancel, TimerFires, Finish, Limiter!Next
<1>8. ASSUME NEW r \in Requests, Judged(r)
      PROVE  UNCHANGED Limiter!vars
  BY <1>8 DEF Judged, Breaker!Forbid, Breaker!Succeed
<1>9. ASSUME NEW r \in Requests, NEW seconds \in RetryAfter,
             TooManyRequests(r, seconds)
      PROVE  Limiter!Next
  BY <1>9 DEF TooManyRequests, Limiter!Next
<1>10. CASE Heartbeat
  BY <1>10 DEF Heartbeat, Breaker!Heartbeat
<1>11. QED
  BY <1>1, <1>2, <1>3, <1>4, <1>5, <1>6, <1>7, <1>8, <1>9, <1>10 DEF Next

\* The same step, as the breaker sees it.
LEMMA BreakerStep == [Next]_vars => [Breaker!Next]_(Breaker!vars)
<1> SUFFICES ASSUME [Next]_vars
             PROVE  Breaker!Next \/ UNCHANGED Breaker!vars
  BY DEF Breaker!vars
<1> USE DEF Breaker!vars, Breaker!outageVars, Breaker!circuit, Breaker!health,
            breakerVars
<1>1. CASE UNCHANGED vars
  BY <1>1 DEF vars
<1>2. CASE Stop
  BY <1>2 DEF Stop, Limiter!Stop
<1>3. CASE Tick /\ UNCHANGED <<limiterVars, breakerVars>>
  BY <1>3 DEF Breaker!Next, Breaker!Tick, Tick
<1>4. ASSUME NEW r \in Requests, Refuse(r) \/ Start(r)
      PROVE  Breaker!Next
  BY <1>4 DEF Refuse, Start, Breaker!Next
<1>5. ASSUME NEW r \in Requests, Resume(r)
      PROVE  Breaker!Next \/ UNCHANGED Breaker!vars
  BY <1>5 DEF Resume, Limiter!Resume, Breaker!Next, Breaker!Finish
<1>6. ASSUME NEW r \in Requests, Cancel(r) \/ Finish(r) \/ Judged(r)
      PROVE  Breaker!Next
  BY <1>6 DEF Cancel, Finish, Judged, Breaker!Next, Breaker!Finish
<1>7. ASSUME NEW r \in Requests, TimerFires(r)
      PROVE  UNCHANGED Breaker!vars
  BY <1>7 DEF TimerFires, Limiter!TimerFires
<1>8. ASSUME NEW r \in Requests, NEW seconds \in RetryAfter,
             TooManyRequests(r, seconds)
      PROVE  Breaker!Next
  BY <1>8 DEF TooManyRequests, Breaker!Next, Breaker!Finish
<1>9. CASE Heartbeat
  BY <1>9 DEF Heartbeat, Breaker!Next
<1>10. QED
  BY <1>1, <1>2, <1>3, <1>4, <1>5, <1>6, <1>7, <1>8, <1>9 DEF Next

\* The client never leaves the protocol of its limiter or of its breaker:
\* initial states are theirs, and each step is a step of each or a stutter.
THEOREM ClientImplementsComponents == Spec => ComponentSpecs
<1>1. Init => Limiter!Init /\ Breaker!Init
  BY DEF Init
<1>2. QED
  BY <1>1, LimiterStep, BreakerStep, PTL
  DEF Spec, ComponentSpecs, LimiterSpec, BreakerSpec, Limiter!Spec, Breaker!Spec

(***************************************************************************)
(* What holds of the limiter holds of the requests of the client.          *)
(***************************************************************************)
LEMMA OneLimiter ==
    /\ Limiter!Init => Proved!Init
    /\ [Limiter!Next]_(Limiter!vars) => [Proved!Next]_(Proved!vars)
<1>1. Limiter!Init => Proved!Init
  BY DEF Limiter!Init, Proved!Init, Limiter!Class, Proved!Class
<1>2. Limiter!Next => Proved!Next
  BY Zenon DEF
    Limiter!Next, Proved!Next, Limiter!Acquire, Proved!Acquire,
    Limiter!Resume, Proved!Resume, Limiter!Cancel, Proved!Cancel,
    Limiter!TimerFires, Proved!TimerFires, Limiter!Release, Proved!Release,
    Limiter!Cooldown, Proved!Cooldown, Limiter!Stop, Proved!Stop,
    Limiter!Tick, Proved!Tick, Limiter!limiterVars, Proved!limiterVars,
    Limiter!HasRoom, Proved!HasRoom, Limiter!Evaluate, Proved!Evaluate,
    Limiter!Expired, Proved!Expired, Limiter!Younger, Proved!Younger,
    Limiter!Grantable, Proved!Grantable, Limiter!Selected, Proved!Selected,
    Limiter!Turn, Proved!Turn, Limiter!HeldUntil, Proved!HeldUntil,
    Limiter!Locked, Proved!Locked, Limiter!Cardinality, Proved!Cardinality,
    Limiter!Grant, Proved!Grant, Limiter!Leave, Proved!Leave, Limiter!Sleep,
    Proved!Sleep, Limiter!Notified, Proved!Notified, Limiter!Alarms,
    Proved!Alarms, Limiter!Watch, Proved!Watch, Limiter!Released,
    Proved!Released
<1>3. QED
  BY <1>1, <1>2
  DEF Proved!vars, Limiter!vars, Proved!limiterVars, Limiter!limiterVars

LEMMA ClientRunsLimiter == Spec => Proved!Spec
<1>1. Init => Proved!Init
  BY OneLimiter DEF Init
<1>2. [Next]_vars => [Proved!Next]_(Proved!vars)
  BY OneLimiter, LimiterStep
<1>3. QED
  BY <1>1, <1>2, PTL DEF Spec, Proved!Spec

\* No window of the account's quota sees more than QuotaLimit requests,
\* whatever the breaker lets through, takes out of the queue or answers.
THEOREM ClientQuotaKept == Spec => []RollingQuota
<1> USE HorizonAssumption, LimiterAssumption DEF Class, Proved!Class
<1>1. Proved!Spec => []Proved!RollingQuota
  BY Proved!QuotaKept, PTL
<1>2. Proved!RollingQuota => RollingQuota
  BY DEF Proved!RollingQuota, RollingQuota, Limiter!RollingQuota
<1>3. QED
  BY <1>1, <1>2, ClientRunsLimiter, PTL

\* A queued background request sees at most InteractiveBurst interactive ones
\* go first, though the breaker takes requests out of the queue.
THEOREM ClientBackgroundTurnKept == Spec => []BackgroundTurn
<1> USE HorizonAssumption, LimiterAssumption DEF Class, Proved!Class
<1>1. Proved!Spec => []Proved!BackgroundTurn
  BY Proved!BackgroundTurnKept, PTL
<1>2. Proved!BackgroundTurn => BackgroundTurn
  BY DEF Proved!BackgroundTurn, BackgroundTurn, Limiter!BackgroundTurn
<1>3. QED
  BY <1>1, <1>2, ClientRunsLimiter, PTL

\* However a request leaves the queue or ends, nobody who could go sleeps on.
THEOREM NoClientSleepsInVain == Spec => []NobodySleepsInVain
<1> USE HorizonAssumption, LimiterAssumption DEF Class, Proved!Class
<1>1. Proved!Spec => []Proved!NobodySleepsInVain
  BY Proved!NobodySleeps, PTL
<1>2. Proved!NobodySleepsInVain => NobodySleepsInVain
  BY Zenon DEF
    Limiter!NobodySleepsInVain, Proved!NobodySleepsInVain, Limiter!Expired,
    Proved!Expired, Limiter!Younger, Proved!Younger, Limiter!Grantable,
    Proved!Grantable, Limiter!Selected, Proved!Selected, Limiter!Turn,
    Proved!Turn, Limiter!HeldUntil, Proved!HeldUntil, Limiter!Locked,
    Proved!Locked, Limiter!Cardinality, Proved!Cardinality, NobodySleepsInVain
<1>3. QED
  BY <1>1, <1>2, ClientRunsLimiter, PTL

=============================================================================
