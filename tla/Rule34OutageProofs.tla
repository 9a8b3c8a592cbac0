------------------------- MODULE Rule34OutageProofs -------------------------
(***************************************************************************)
(* What an open circuit lets through, what moves it, and what the admins   *)
(* are left with, for every set of requests and every backoff.             *)
(***************************************************************************)
EXTENDS Rule34Alerts, SequenceTheorems, TLAPS

Pending(r) == phase[r] \in {"queued", "sent"}

Types ==
    /\ clock \in Nat
    /\ opened \in BOOLEAN
    /\ cooldown_until \in Nat
    /\ backoff_index \in 0..Len(Backoff)
    /\ generation \in Nat
    /\ probe \in Requests \cup {NoRequest}
    /\ phase \in [Requests -> {"idle", "queued", "sent", "leaving"}]
    /\ ticket \in [Requests -> Nat]
    /\ epoch \in Nat
    /\ era \in [Requests -> Nat]
    /\ refusals \in Nat

\* No ticket is from the future, and the generation the code compares tells
\* what the epoch of the history tells.
TicketsTell ==
    \A r \in Requests :
        /\ Pending(r) => ticket[r] <= generation
        /\ phase[r] = "sent" =>
              /\ era[r] <= epoch
              /\ ticket[r] = generation <=> era[r] = epoch

\* In an open circuit the probe is the one request of its generation.
ProbeIsAlone ==
    /\ ~opened => probe = NoRequest /\ backoff_index = 0 /\ cooldown_until = 0
    /\ opened =>
          /\ backoff_index >= 1
          /\ \A r \in Requests : probe = r =>
                /\ Pending(r) /\ r \in RecoveryRequests
                /\ ticket[r] = generation /\ clock >= cooldown_until
          /\ \A r \in Requests :
                Pending(r) /\ ticket[r] = generation => probe = r

CircuitInv == Types /\ TicketsTell /\ ProbeIsAlone /\ BackoffCountsRefusals

LEMMA BackoffTyped ==
    ASSUME NEW i \in 1..Len(Backoff)
    PROVE  Backoff[i] \in Nat
<1>1. Backoff \in Seq(Nat \ {0})
  BY OutageAssumption
<1>2. Backoff[i] \in Nat \ {0}
  BY <1>1, ElementOfSeq
<1>3. QED
  BY <1>2

LEMMA LenBackoff == Len(Backoff) \in Nat /\ Len(Backoff) >= 1
<1>1. Backoff \in Seq(Nat \ {0})
  BY OutageAssumption
<1>2. QED
  BY <1>1, OutageAssumption, LenProperties

\* The steps that leave the circuit as it is and send nothing.
Quiet(r) ==
    /\ UNCHANGED <<clock, circuit>>
    /\ \E p \in {"idle", "leaving"} : phase' = [phase EXCEPT ![r] = p]
    /\ ticket' = [ticket EXCEPT ![r] = 0]
    /\ era' = [era EXCEPT ![r] = 0]

LEMMA QuietKeeps ==
    ASSUME CircuitInv, NEW r \in Requests, probe # r, Quiet(r)
    PROVE  CircuitInv'
<1>1. Types'
  BY DEF CircuitInv, Types, Quiet, circuit
<1>2. TicketsTell'
  BY DEF CircuitInv, Types, Quiet, circuit, TicketsTell, Pending
<1>3. ProbeIsAlone'
  BY DEF CircuitInv, Types, Quiet, circuit, ProbeIsAlone, Pending
<1>4. BackoffCountsRefusals'
  BY DEF CircuitInv, Quiet, circuit, BackoffCountsRefusals
<1>5. QED
  BY <1>1, <1>2, <1>3, <1>4 DEF CircuitInv

\* A request that ends without a verdict, the probe or another.
LEMMA ReleaseKeeps ==
    ASSUME CircuitInv, NEW r \in Requests, Ended(r), Release(r), clock' = clock
    PROVE  CircuitInv'
<1>1. CASE probe # r
  <2>1. Quiet(r)
    BY <1>1 DEF Ended, Release, Quiet, circuit
  <2>2. QED
    BY <1>1, <2>1, QuietKeeps
<1>2. CASE probe = r
  <2>1. opened /\ backoff_index \in 1..Len(Backoff)
    BY <1>2, OutageAssumption, LenBackoff DEF CircuitInv, ProbeIsAlone, Types
  <2>2. clock + Backoff[backoff_index] \in Nat
    BY <2>1, BackoffTyped DEF CircuitInv, Types
  <2>3. /\ probe' = NoRequest
        /\ cooldown_until' = clock + Backoff[backoff_index]
        /\ generation' = generation + 1
        /\ UNCHANGED <<opened, backoff_index, epoch, refusals>>
    BY <1>2 DEF Release
  <2>4. \A x \in Requests : x # r /\ Pending(x) => ticket[x] < generation
    BY <1>2, <2>1 DEF CircuitInv, ProbeIsAlone, TicketsTell, Types
  <2>5. Types'
    BY <2>2, <2>3 DEF CircuitInv, Types, Ended
  <2>6. TicketsTell'
    BY <2>3, <2>4 DEF CircuitInv, Types, Ended, TicketsTell, Pending
  <2>7. ProbeIsAlone'
    BY <2>1, <2>3, <2>4, OutageAssumption DEF CircuitInv, Types, Ended, ProbeIsAlone, Pending
  <2>8. BackoffCountsRefusals'
    BY <2>3 DEF CircuitInv, BackoffCountsRefusals
  <2>9. QED
    BY <2>5, <2>6, <2>7, <2>8 DEF CircuitInv
<1>3. QED
  BY <1>1, <1>2

\* admit, with or without the limiter letting the request go at once.
LEMMA AdmitKeeps ==
    ASSUME CircuitInv, NEW r \in Requests, Admit(r) \/ Pass(r)
    PROVE  CircuitInv'
<1>1. /\ Admissible(r) /\ phase[r] = "idle"
      /\ ticket' = [ticket EXCEPT ![r] = generation]
      /\ probe' = IF opened THEN r ELSE probe
      /\ UNCHANGED <<clock, opened, cooldown_until, backoff_index, generation,
                     epoch, refusals>>
      /\ \/ phase' = [phase EXCEPT ![r] = "queued"] /\ era' = era
         \/ /\ phase' = [phase EXCEPT ![r] = "sent"]
            /\ era' = [era EXCEPT ![r] = epoch]
  BY DEF Admit, Pass
<1>2. Types'
  BY <1>1 DEF CircuitInv, Types
<1>3. TicketsTell'
  BY <1>1 DEF CircuitInv, Types, TicketsTell, Pending
<1>4. ProbeIsAlone'
  <2>1. CASE opened
    <3>1. clock >= cooldown_until /\ probe = NoRequest
          /\ r \in RecoveryRequests
      BY <1>1, <2>1 DEF Admissible
    <3>2. \A x \in Requests : ~(Pending(x) /\ ticket[x] = generation)
      BY <2>1, <3>1, OutageAssumption DEF CircuitInv, ProbeIsAlone
    <3>3. QED
      BY <1>1, <2>1, <3>1, <3>2 DEF CircuitInv, Types, ProbeIsAlone, Pending
  <2>2. CASE ~opened
    BY <1>1, <2>2 DEF CircuitInv, Types, ProbeIsAlone
  <2>3. QED
    BY <2>1, <2>2 DEF CircuitInv, Types
<1>5. BackoffCountsRefusals'
  BY <1>1 DEF CircuitInv, BackoffCountsRefusals
<1>6. QED
  BY <1>2, <1>3, <1>4, <1>5 DEF CircuitInv

LEMMA BounceKeeps ==
    ASSUME CircuitInv, NEW r \in Requests, Bounce(r)
    PROVE  CircuitInv'
<1>1. /\ Admissible(r)
      /\ UNCHANGED <<clock, opened, backoff_index, probe, epoch, refusals,
                     phase, ticket, era>>
  BY DEF Bounce
<1>2. CASE ~opened
  <2>1. UNCHANGED <<clock, circuit, phase, ticket, era>>
    BY <1>1, <1>2 DEF Bounce, circuit
  <2>2. Types' /\ TicketsTell' /\ ProbeIsAlone' /\ BackoffCountsRefusals'
    BY <2>1 DEF CircuitInv, circuit, Types, TicketsTell, ProbeIsAlone,
                BackoffCountsRefusals, Pending
  <2>3. QED
    BY <2>2 DEF CircuitInv
<1>3. CASE opened
  <2>1. backoff_index \in 1..Len(Backoff) /\ probe = NoRequest
    BY <1>1, <1>3, LenBackoff DEF Admissible, CircuitInv, ProbeIsAlone, Types
  <2>2. /\ cooldown_until' = clock + Backoff[backoff_index]
        /\ generation' = generation + 1
        /\ clock + Backoff[backoff_index] \in Nat
    BY <1>3, <2>1, BackoffTyped DEF Bounce, CircuitInv, Types
  <2>3. \A x \in Requests : Pending(x) => ticket[x] < generation
    BY <1>3, <2>1, OutageAssumption DEF CircuitInv, ProbeIsAlone, TicketsTell, Types
  <2>4. Types'
    BY <1>1, <2>2 DEF CircuitInv, Types
  <2>5. TicketsTell'
    BY <1>1, <2>2, <2>3 DEF CircuitInv, Types, TicketsTell, Pending
  <2>6. ProbeIsAlone'
    BY <1>1, <1>3, <2>1, <2>2, <2>3, OutageAssumption
       DEF CircuitInv, Types, ProbeIsAlone, Pending
  <2>7. BackoffCountsRefusals'
    BY <1>1 DEF CircuitInv, BackoffCountsRefusals
  <2>8. QED
    BY <2>4, <2>5, <2>6, <2>7 DEF CircuitInv
<1>4. QED
  BY <1>2, <1>3

LEMMA DispatchKeeps ==
    ASSUME CircuitInv, NEW r \in Requests, Dispatch(r)
    PROVE  CircuitInv'
<1>1. /\ Valid(r) /\ phase[r] = "queued"
      /\ phase' = [phase EXCEPT ![r] = "sent"]
      /\ era' = [era EXCEPT ![r] = epoch]
      /\ UNCHANGED <<clock, circuit, ticket>>
  BY DEF Dispatch
<1>2. Types'
  BY <1>1 DEF CircuitInv, Types, circuit
<1>3. TicketsTell'
  BY <1>1 DEF CircuitInv, Types, TicketsTell, Pending, circuit, Valid
<1>4. ProbeIsAlone'
  BY <1>1 DEF CircuitInv, Types, ProbeIsAlone, Pending, circuit, Valid
<1>5. BackoffCountsRefusals'
  BY <1>1 DEF CircuitInv, BackoffCountsRefusals, circuit
<1>6. QED
  BY <1>2, <1>3, <1>4, <1>5 DEF CircuitInv

LEMMA ForbidKeeps ==
    ASSUME CircuitInv, NEW r \in Requests, Forbid(r)
    PROVE  CircuitInv'
<1>1. /\ phase[r] = "sent"
      /\ phase' = [phase EXCEPT ![r] = "leaving"]
      /\ ticket' = [ticket EXCEPT ![r] = 0]
      /\ era' = [era EXCEPT ![r] = 0]
      /\ clock' = clock
      /\ refusals' = IF era[r] # epoch THEN refusals
                     ELSE IF opened THEN refusals + 1 ELSE 1
  BY DEF Forbid
<1>2. CASE ticket[r] # generation
  <2>1. UNCHANGED <<opened, epoch, backoff_index, cooldown_until, generation,
                    probe, refusals>>
    BY <1>1, <1>2 DEF Forbid, Escalates, CircuitInv, TicketsTell
  <2>2. probe # r
    BY <1>2, OutageAssumption DEF CircuitInv, ProbeIsAlone, Types
  <2>3. Types'
    BY <1>1, <2>1 DEF CircuitInv, Types
  <2>4. TicketsTell'
    BY <1>1, <2>1 DEF CircuitInv, Types, TicketsTell, Pending
  <2>5. ProbeIsAlone'
    BY <1>1, <2>1, <2>2 DEF CircuitInv, Types, ProbeIsAlone, Pending
  <2>6. BackoffCountsRefusals'
    BY <2>1 DEF CircuitInv, BackoffCountsRefusals
  <2>7. QED
    BY <2>3, <2>4, <2>5, <2>6 DEF CircuitInv
<1>3. CASE ticket[r] = generation
  <2> DEFINE i == IF backoff_index < Len(Backoff) THEN backoff_index + 1
                  ELSE Len(Backoff)
  <2>1. i \in 1..Len(Backoff)
    BY LenBackoff DEF CircuitInv, Types
  <2>2. /\ opened' = TRUE
        /\ epoch' = IF opened THEN epoch ELSE epoch + 1
        /\ backoff_index' = i
        /\ cooldown_until' = clock + Backoff[i]
        /\ generation' = generation + 1
        /\ probe' = NoRequest
    BY <1>1, <1>3 DEF Forbid, Escalates
  <2>3. era[r] = epoch
    BY <1>1, <1>3 DEF CircuitInv, TicketsTell
  <2>4. clock + Backoff[i] \in Nat
    BY <2>1, BackoffTyped DEF CircuitInv, Types
  <2> HIDE DEF i
  <2>5. Types'
    BY <1>1, <2>1, <2>2, <2>4 DEF CircuitInv, Types
  <2>6. TicketsTell'
    <3>1. CASE opened
      <4>1. \A x \in Requests : x # r /\ phase[x] = "sent" => era[x] # epoch
        BY <1>1, <1>3, <3>1 DEF CircuitInv, ProbeIsAlone, TicketsTell, Pending
      <4>2. QED
        BY <1>1, <2>2, <3>1, <4>1 DEF CircuitInv, Types, TicketsTell, Pending
    <3>2. CASE ~opened
      BY <1>1, <2>2, <3>2 DEF CircuitInv, Types, TicketsTell, Pending
    <3>3. QED
      BY <3>1, <3>2
  <2>7. ProbeIsAlone'
    <3>1. \A x \in Requests : x # r /\ Pending(x) => ticket[x] < generation + 1
      BY DEF CircuitInv, TicketsTell, Types
    <3>2. QED
      BY <1>1, <2>1, <2>2, <3>1, OutageAssumption
         DEF CircuitInv, Types, ProbeIsAlone, Pending
  <2>8. BackoffCountsRefusals'
    <3>1. refusals' = IF opened THEN refusals + 1 ELSE 1
      BY <1>1, <2>3
    <3>2. CASE opened
      BY <2>2, <3>1, <3>2, LenBackoff
         DEF CircuitInv, Types, BackoffCountsRefusals, i
    <3>3. CASE ~opened
      BY <2>2, <3>1, <3>3, LenBackoff
         DEF CircuitInv, Types, BackoffCountsRefusals, i
    <3>4. QED
      BY <3>2, <3>3
  <2>9. QED
    BY <2>5, <2>6, <2>7, <2>8 DEF CircuitInv
<1>4. QED
  BY <1>2, <1>3

LEMMA SucceedKeeps ==
    ASSUME CircuitInv, NEW r \in Requests, Succeed(r)
    PROVE  CircuitInv'
<1>1. /\ phase[r] = "sent"
      /\ phase' = [phase EXCEPT ![r] = "leaving"]
      /\ ticket' = [ticket EXCEPT ![r] = 0]
      /\ era' = [era EXCEPT ![r] = 0]
      /\ clock' = clock
  BY DEF Succeed
<1>2. CASE ~Accepted(r)
  <2>1. Quiet(r)
    BY <1>1, <1>2 DEF Succeed, Quiet
  <2>2. probe # r
    BY <1>2, OutageAssumption DEF Accepted, CircuitInv, ProbeIsAlone
  <2>3. QED
    BY <2>1, <2>2, QuietKeeps
<1>3. CASE Accepted(r)
  <2>1. /\ opened' = FALSE
        /\ epoch' = IF opened THEN epoch + 1 ELSE epoch
        /\ generation' = IF opened THEN generation + 1 ELSE generation
        /\ cooldown_until' = 0
        /\ backoff_index' = 0
        /\ probe' = NoRequest
        /\ refusals' = refusals
    BY <1>3 DEF Succeed
  <2>2. Types'
    <3>1. opened' \in BOOLEAN
      BY <2>1, Zenon
    <3>2. QED
      BY <1>1, <2>1, <3>1, LenBackoff DEF CircuitInv, Types
  <2>3. TicketsTell'
    BY <1>1, <2>1 DEF CircuitInv, Types, TicketsTell, Pending
  <2>4. ProbeIsAlone'
    BY <2>1 DEF ProbeIsAlone
  <2>5. BackoffCountsRefusals'
    BY <2>1 DEF BackoffCountsRefusals
  <2>6. QED
    BY <2>2, <2>3, <2>4, <2>5 DEF CircuitInv
<1>4. QED
  BY <1>2, <1>3

LEMMA CircuitInductive == CircuitInv /\ [Next]_vars => CircuitInv'
<1> SUFFICES ASSUME CircuitInv, [Next]_vars
             PROVE  CircuitInv'
  OBVIOUS
<1>1. ASSUME UNCHANGED <<circuit, phase, ticket, era>>,
             clock' \in {clock, clock + 1}
      PROVE  CircuitInv'
  <2>1. Types'
    BY <1>1 DEF CircuitInv, circuit, Types
  <2>2. TicketsTell' /\ BackoffCountsRefusals'
    BY <1>1 DEF CircuitInv, circuit, TicketsTell, BackoffCountsRefusals, Pending
  <2>3. ProbeIsAlone'
    BY <1>1 DEF CircuitInv, Types, circuit, ProbeIsAlone, Pending
  <2>4. QED
    BY <2>1, <2>2, <2>3 DEF CircuitInv
<1>2. ASSUME NEW r \in Requests, Reject(r)
      PROVE  CircuitInv'
  BY <1>1, <1>2 DEF Reject
<1>3. ASSUME NEW r \in Requests, End(r) \/ Fail(r)
      PROVE  CircuitInv'
  BY <1>3, ReleaseKeeps DEF End, Fail
<1>4. CASE Tick /\ UNCHANGED outageVars
  BY <1>1, <1>4 DEF Tick, outageVars
<1>5. CASE Heartbeat \/ UNCHANGED vars
  BY <1>1, <1>5 DEF Heartbeat, vars, outageVars
<1>6. QED
  BY <1>2, <1>3, <1>4, <1>5, AdmitKeeps, BounceKeeps, DispatchKeeps,
     ForbidKeeps, SucceedKeeps DEF Next, Finish

LEMMA CircuitInitially == Init => CircuitInv
<1> SUFFICES ASSUME Init
             PROVE  CircuitInv
  OBVIOUS
<1>1. Types
  <2>1. opened \in BOOLEAN
    BY Zenon DEF Init
  <2>2. QED
    BY <2>1, LenBackoff DEF Init, Types
<1>2. TicketsTell /\ ProbeIsAlone /\ BackoffCountsRefusals
  BY DEF Init, TicketsTell, ProbeIsAlone, BackoffCountsRefusals, Pending
<1>3. QED
  BY <1>1, <1>2 DEF CircuitInv

LEMMA CircuitAlways == Spec => []CircuitInv
  BY CircuitInitially, CircuitInductive, PTL DEF Spec

\* While the circuit is open, the one request in flight that left since then
\* is the probe, and it did not leave during a cooldown.
THEOREM OutageTrafficKept == Spec => []OutageTraffic
<1>1. CircuitInv => OutageTraffic
  BY DEF CircuitInv, TicketsTell, ProbeIsAlone, OutageTraffic, Pending
<1>2. QED
  BY <1>1, CircuitAlways, PTL

\* The backoff counts the requests refused since the circuit opened, and no
\* answer to an older request.
THEOREM BackoffCounts == Spec => []BackoffCountsRefusals
<1>1. CircuitInv => BackoffCountsRefusals
  BY DEF CircuitInv
<1>2. QED
  BY <1>1, CircuitAlways, PTL

\* The circuit closes on the success of a post request that left after it
\* opened and after its cooldown.
THEOREM OnlyTheProbeCloses == Spec => ClosesByProbe
<1> DEFINE Step == opened /\ ~opened' =>
                \E r \in RecoveryRequests :
                    /\ phase[r] = "sent" /\ phase'[r] = "leaving"
                    /\ era[r] = epoch
                    /\ clock >= cooldown_until
<1>1. CircuitInv /\ [Next]_vars => Step
  <2> SUFFICES ASSUME CircuitInv, [Next]_vars, opened, ~opened'
               PROVE  \E r \in RecoveryRequests :
                          /\ phase[r] = "sent" /\ phase'[r] = "leaving"
                          /\ era[r] = epoch
                          /\ clock >= cooldown_until
    OBVIOUS
  <2>1. PICK r \in Requests : Succeed(r) /\ Accepted(r)
    BY DEF Next, Finish, Reject, Admit, Pass, Bounce, Dispatch, End, Fail,
           Forbid, Succeed, Release, Heartbeat, circuit, outageVars, vars
  <2>2. /\ phase[r] = "sent" /\ phase'[r] = "leaving"
        /\ r \in RecoveryRequests /\ probe = r /\ ticket[r] = generation
    BY <2>1 DEF Succeed, Accepted, CircuitInv, Types
  <2>3. era[r] = epoch /\ clock >= cooldown_until
    BY <2>1, <2>2 DEF CircuitInv, TicketsTell, ProbeIsAlone
  <2>4. QED
    BY <2>2, <2>3
<1>2. Spec => [][Step]_vars
  BY <1>1, CircuitAlways, PTL DEF Spec
<1>3. QED
  BY <1>2 DEF ClosesByProbe

(***************************************************************************)
(* The alerts.  An outage that was composed lasts, with the flag up that   *)
(* makes a success worth telling, or its recovery is pending; the admin    *)
(* who has heard of it may have the recovery on its way as well.           *)
(***************************************************************************)
Lasts == health_alerted /\ (opened \/ consecutive_failures > 0)

AlertInv ==
    /\ consecutive_failures \in Nat
    /\ in_flight \in [Message -> Nat]
    /\ in_flight["outage"] > 0 => pending_recovery \/ Lasts
    /\ heard = "outage" =>
          pending_recovery \/ in_flight["recovery"] > 0 \/ Lasts

\* What is composed with the messages that are on their way: a recovery that
\* was pending, then an alert of an outage that lasts.
LEMMA NotifyKeeps ==
    ASSUME AlertInv, NEW failures \in Nat,
           consecutive_failures' = failures, opened' = opened,
           consecutive_failures > 0 => failures > 0,
           Notify(opened, failures), Compose, heard' = heard
    PROVE  AlertInv'
<1> DEFINE f == IF Recovered THEN WithRecovery(in_flight) ELSE in_flight
<1>1. AlertAfter \in Nat \ {0}
  BY OutageAssumption
<1>2. /\ pending_recovery' = FALSE
      /\ \/ Lasts'
         \/ /\ ~Alerted
            /\ Lasts => Lasts'
  BY <1>1 DEF Notify, Alerted, Lasts, AlertInv
<1>3. /\ f \in [Message -> Nat]
      /\ f["outage"] > 0 => Lasts
      /\ heard = "outage" => f["recovery"] > 0 \/ Lasts
  <2>1. CASE pending_recovery
    BY <1>2, <2>1 DEF AlertInv, Recovered, WithRecovery, Message
  <2>2. CASE ~pending_recovery
    BY <2>2 DEF AlertInv, Recovered
  <2>3. QED
    BY <2>1, <2>2
<1>4. in_flight' = IF Alerted THEN WithOutage(f) ELSE f
  BY DEF Compose
<1> HIDE DEF f
<1>5. CASE Alerted
  <2>1. Lasts' /\ in_flight' = WithOutage(f)
    BY <1>2, <1>4, <1>5
  <2>2. WithOutage(f) \in [Message -> Nat]
    BY <1>3 DEF WithOutage, Message
  <2>3. QED
    BY <2>1, <2>2 DEF AlertInv
<1>6. CASE ~Alerted
  BY <1>2, <1>3, <1>4, <1>6 DEF AlertInv
<1>7. QED
  BY <1>5, <1>6

\* A message that arrives or gets lost.
LEMMA DeliveryKeeps ==
    ASSUME AlertInv, NEW m \in Message, Arrive(m) \/ Lose(m), UNCHANGED vars
    PROVE  AlertInv'
<1>1. /\ in_flight \in [Message -> Nat] /\ in_flight[m] > 0
      /\ in_flight' = [in_flight EXCEPT ![m] = @ - 1]
  BY DEF AlertInv, Arrive, Lose
<1>2. /\ in_flight' \in [Message -> Nat]
      /\ in_flight'["outage"] > 0 => in_flight["outage"] > 0
  BY <1>1 DEF Message
<1>3. /\ consecutive_failures' = consecutive_failures
      /\ pending_recovery' = pending_recovery
      /\ Lasts' = Lasts
  BY DEF Lasts, vars, outageVars, health, circuit
<1>4. heard' = "outage" =>
        pending_recovery \/ in_flight'["recovery"] > 0 \/ Lasts
  <2>1. CASE Arrive(m)
    BY <2>1 DEF Arrive, AlertInv, Message
  <2>2. CASE Lose(m)
    BY <1>1, <2>2 DEF Lose, AlertInv, Message
  <2>3. QED
    BY <2>1, <2>2
<1>5. QED
  BY <1>2, <1>3, <1>4 DEF AlertInv

\* A step of the breaker that composes nothing and has no recovery less.
LEMMA SilenceKeeps ==
    ASSUME AlertInv, Compose, heard' = heard,
           consecutive_failures' \in Nat, last_alert_at' = last_alert_at,
           pending_recovery => pending_recovery',
           Lasts => Lasts' \/ pending_recovery'
    PROVE  AlertInv'
<1>1. in_flight' = in_flight
  BY DEF Compose, Recovered, Alerted
<1>2. QED
  BY <1>1 DEF AlertInv

LEMMA AlertInductive ==
    AlertInv /\ [AlertsNext]_<<vars, alertVars>> => AlertInv'
<1> SUFFICES ASSUME AlertInv, [AlertsNext]_<<vars, alertVars>>
             PROVE  AlertInv'
  OBVIOUS
<1>1. consecutive_failures \in Nat /\ AlertAfter \in Nat \ {0}
  BY OutageAssumption DEF AlertInv
<1>2. OneMoreFailure \in Nat /\ OneMoreFailure > 0
  BY <1>1 DEF OneMoreFailure
<1>3. ASSUME NEW r \in Requests, Reject(r) \/ Bounce(r) \/ End(r),
             Compose, heard' = heard
      PROVE  AlertInv'
  <2>1. /\ Notify(opened, consecutive_failures)
        /\ opened' = opened /\ consecutive_failures' = consecutive_failures
    BY <1>3 DEF Reject, Bounce, End, Release, circuit
  <2>2. QED
    BY <1>1, <1>3, <2>1, NotifyKeeps
<1>4. ASSUME NEW r \in Requests, Fail(r), Compose, heard' = heard
      PROVE  AlertInv'
  <2>1. /\ Notify(opened, OneMoreFailure)
        /\ consecutive_failures' = OneMoreFailure
        /\ opened' = opened
    BY <1>4 DEF Fail, Release, circuit
  <2>2. QED
    BY <1>2, <1>4, <2>1, NotifyKeeps
<1>5. ASSUME NEW r \in Requests, Forbid(r), Compose, heard' = heard
      PROVE  AlertInv'
  <2>1. Lasts => Lasts'
    BY <1>2, <1>5 DEF Forbid, Lasts
  <2>2. QED
    BY <1>2, <1>5, <2>1, SilenceKeeps DEF Forbid
<1>6. ASSUME NEW r \in Requests, Succeed(r), Compose, heard' = heard
      PROVE  AlertInv'
  <2>1. CASE Accepted(r) /\ pending_recovery' = (pending_recovery \/ Recovers)
    <3>1. Lasts => pending_recovery'
      BY <2>1 DEF Lasts, Recovers
    <3>2. consecutive_failures' \in Nat /\ last_alert_at' = last_alert_at
      BY <1>6, <2>1, <1>1 DEF Succeed, health
    <3>3. QED
      BY <1>6, <2>1, <3>1, <3>2, SilenceKeeps
  <2>2. CASE UNCHANGED <<circuit, health>>
    <3>1. Lasts' = Lasts
      BY <2>2 DEF Lasts, circuit, health
    <3>2. QED
      BY <1>1, <1>6, <2>2, <3>1, SilenceKeeps DEF health
  <2>3. QED
    BY <1>6, <2>1, <2>2 DEF Succeed
<1>7. ASSUME UNCHANGED <<opened, health>>, Compose \/ UNCHANGED in_flight,
             heard' = heard
      PROVE  AlertInv'
  <2>1. in_flight' = in_flight
    BY <1>7 DEF Compose, Recovered, Alerted, health
  <2>2. Lasts' = Lasts
    BY <1>7 DEF Lasts, health
  <2>3. QED
    BY <1>7, <2>1, <2>2 DEF AlertInv, health
<1>8. CASE Next /\ Compose /\ UNCHANGED heard
  <2>1. CASE Heartbeat
    <3>1. /\ Notify(opened, consecutive_failures)
          /\ opened' = opened /\ consecutive_failures' = consecutive_failures
      BY <2>1 DEF Heartbeat, circuit
    <3>2. QED
      BY <1>1, <1>8, <3>1, NotifyKeeps
  <2>2. CASE Tick /\ UNCHANGED outageVars
    BY <1>7, <1>8, <2>2 DEF outageVars, circuit
  <2>3. ASSUME NEW r \in Requests, Admit(r) \/ Pass(r) \/ Dispatch(r)
        PROVE  AlertInv'
    BY <1>7, <1>8, <2>3 DEF Admit, Pass, Dispatch, circuit
  <2>4. QED
    BY <1>3, <1>4, <1>5, <1>6, <1>8, <2>1, <2>2, <2>3 DEF Next, Finish
<1>9. ASSUME NEW m \in Message, Arrive(m) \/ Lose(m), UNCHANGED vars
      PROVE  AlertInv'
  BY <1>9, DeliveryKeeps
<1>10. CASE UNCHANGED <<vars, alertVars>>
  BY <1>7, <1>10 DEF vars, outageVars, circuit, alertVars
<1>11. QED
  BY <1>8, <1>9, <1>10 DEF AlertsNext

\* Whatever gets lost or comes too late on the way, the breaker leaves no
\* alert without its recovery.
THEOREM AlertIsAnswered == AlertsSpec => []AlertAnswered
<1>1. AlertsInit => AlertInv
  BY DEF AlertsInit, Init, AlertInv, Message
<1>2. AlertInv => AlertAnswered
  BY DEF AlertInv, AlertAnswered, Lasts
<1>3. QED
  BY <1>1, <1>2, AlertInductive, PTL DEF AlertsSpec

=============================================================================
