----------------------------- MODULE Rule34Outage -----------------------------
(***************************************************************************)
(* The circuit breaker of the Rule34 API and the requests that pass it: a  *)
(* ticket when a request is admitted, a second look when the limiter lets  *)
(* it go, the result some time later, then the way out of _request.  A 403 *)
(* opens the circuit; while it is open one probe at a time may leave.  The *)
(* wait in the limiter is unspecified here, Rule34Client puts the limiter  *)
(* in its place; what becomes of the messages notify composes is the       *)
(* business of Rule34Alerts.                                               *)
(***************************************************************************)
EXTENDS EventLoopClock, Sequences

CONSTANTS
    Requests,
    RecoveryRequests,   \* those of a post endpoint, not of autocomplete
    NoRequest,
    Backoff,            \* BACKOFF_SECONDS
    AlertAfter,         \* consecutive failures that alert a closed circuit
    AlertEvery          \* pause between two alerts

VARIABLES
    opened, cooldown_until,
    backoff_index,      \* 0 for the code's -1: indices start at 1 here
    generation, probe, consecutive_failures, health_alerted, last_alert_at,
    pending_recovery,   \* a recovery nobody has composed a message of yet
    phase,              \* where a request is
    ticket,             \* the generation it was admitted in
    epoch,              \* history: how often the circuit has opened or closed
    era,                \* history: the epoch a request was dispatched in
    refusals            \* history: 403s to requests of this epoch

circuit == <<opened, cooldown_until, backoff_index, generation, probe,
             epoch, refusals>>
health == <<consecutive_failures, health_alerted, last_alert_at,
            pending_recovery>>
outageVars == <<circuit, health, phase, ticket, era>>
vars == <<clock, outageVars>>

ASSUME OutageAssumption ==
    /\ NoRequest \notin Requests
    /\ RecoveryRequests \subseteq Requests
    /\ Backoff \in Seq(Nat \ {0}) /\ Len(Backoff) >= 1
    /\ AlertAfter \in Nat \ {0}
    /\ AlertEvery \in Nat \ {0}

Init ==
    /\ clock = 0
    /\ opened = FALSE
    /\ cooldown_until = 0
    /\ backoff_index = 0
    /\ generation = 0
    /\ probe = NoRequest
    /\ consecutive_failures = 0
    /\ health_alerted = FALSE
    /\ last_alert_at = 0 - AlertEvery
    /\ phase = [r \in Requests |-> "idle"]
    /\ ticket = [r \in Requests |-> 0]
    /\ epoch = 0
    /\ era = [r \in Requests |-> 0]
    /\ refusals = 0
    /\ pending_recovery = FALSE

(***************************************************************************)
(* The breaker's methods.                                                  *)
(***************************************************************************)
\* admit does not reject
Admissible(r) ==
    opened => /\ clock >= cooldown_until
              /\ probe = NoRequest
              /\ r \in RecoveryRequests

\* validate does not reject
Valid(r) == ticket[r] = generation /\ (opened => probe = r)

\* Mutant of Release: the ticket's identity is not compared.
ReleaseAnybody(r) ==
    IF probe # NoRequest
    THEN /\ probe' = NoRequest
         /\ cooldown_until' = clock + Backoff[backoff_index]
         /\ generation' = generation + 1
         /\ UNCHANGED <<opened, backoff_index, epoch, refusals>>
    ELSE UNCHANGED circuit

\* A probe that ends without a verdict makes way for the next one, later.
Release(r) ==
    IF probe = r
    THEN /\ probe' = NoRequest
         /\ cooldown_until' = clock + Backoff[backoff_index]
         /\ generation' = generation + 1
         /\ UNCHANGED <<opened, backoff_index, epoch, refusals>>
    ELSE UNCHANGED circuit

\* The failure counter stops where it makes no more difference.
OneMoreFailure ==
    IF consecutive_failures < AlertAfter THEN consecutive_failures + 1
    ELSE consecutive_failures

\* notify up to its first await, when the circuit is open or not and after so
\* many failures.  It composes the recovery that is pending and an alert when
\* one is due, and notes that it has before it sends either.  post_init sets
\* the notifier before anything may send a request.
Notify(open, failures) ==
    /\ pending_recovery' = FALSE
    /\ IF /\ open \/ failures >= AlertAfter
          /\ clock - last_alert_at >= AlertEvery
       THEN last_alert_at' = clock /\ health_alerted' = TRUE
       ELSE UNCHANGED <<last_alert_at, health_alerted>>

\* success counts
Accepted(r) ==
    /\ r \in RecoveryRequests
    /\ ticket[r] = generation
    /\ opened => probe = r

\* Mutant of Escalates: an old 403 counts as well.
EscalatesAlways(r) == TRUE

\* forbidden moves the circuit
Escalates(r) == ticket[r] = generation

(***************************************************************************)
(* Actions.                                                                *)
(***************************************************************************)
\* The request gives its ticket up.
Ended(r) ==
    /\ phase' = [phase EXCEPT ![r] = "idle"]
    /\ ticket' = [ticket EXCEPT ![r] = 0]
    /\ era' = [era EXCEPT ![r] = 0]

\* Suppressed at once; only the admins may hear of it.
Reject(r) ==
    /\ phase[r] = "idle"
    /\ ~Admissible(r)
    /\ Notify(opened, consecutive_failures)
    /\ UNCHANGED <<clock, circuit, consecutive_failures, phase, ticket, era>>

Admit(r) ==
    /\ phase[r] = "idle"
    /\ Admissible(r)
    /\ phase' = [phase EXCEPT ![r] = "queued"]
    /\ ticket' = [ticket EXCEPT ![r] = generation]
    /\ probe' = IF opened THEN r ELSE probe
    /\ UNCHANGED <<clock, opened, cooldown_until, backoff_index, generation,
                   epoch, refusals, health, era>>

\* A limiter that is free lets the request go in the same step.
Pass(r) ==
    /\ phase[r] = "idle"
    /\ Admissible(r)
    /\ phase' = [phase EXCEPT ![r] = "sent"]
    /\ ticket' = [ticket EXCEPT ![r] = generation]
    /\ era' = [era EXCEPT ![r] = epoch]
    /\ probe' = IF opened THEN r ELSE probe
    /\ UNCHANGED <<clock, opened, cooldown_until, backoff_index, generation,
                   epoch, refusals, health>>

\* A limiter that is full or stopped turns the request away in the same step;
\* a probe is released at once.
Bounce(r) ==
    /\ phase[r] = "idle"
    /\ Admissible(r)
    /\ IF opened
       THEN /\ cooldown_until' = clock + Backoff[backoff_index]
            /\ generation' = generation + 1
       ELSE UNCHANGED <<cooldown_until, generation>>
    /\ Notify(opened, consecutive_failures)
    /\ UNCHANGED <<clock, opened, backoff_index, probe, epoch, refusals,
                   consecutive_failures, phase, ticket, era>>

Dispatch(r) ==
    /\ phase[r] = "queued"
    /\ Valid(r)
    /\ phase' = [phase EXCEPT ![r] = "sent"]
    /\ era' = [era EXCEPT ![r] = epoch]
    /\ UNCHANGED <<clock, circuit, health, ticket>>

\* Mutant of End: a cancelled request keeps what it reserved.
EndSilently(r) ==
    /\ phase[r] \in {"queued", "sent", "leaving"}
    /\ Ended(r)
    /\ UNCHANGED <<clock, circuit, health>>

\* The request leaves: not valid any more, cancelled or out of time while
\* queued; cancelled while in flight; done with the diagnostics of its 403 or
\* with its list, or cancelled on the way out.  The clean-up composes its
\* messages before it can be cancelled.
End(r) ==
    /\ phase[r] \in {"queued", "sent", "leaving"}
    /\ Ended(r)
    /\ Release(r)
    /\ Notify(opened, consecutive_failures)
    /\ UNCHANGED <<clock, consecutive_failures>>

\* A status other than 200 and 403, a network error or timeout, a body that
\* is not a list.
Fail(r) ==
    /\ phase[r] = "sent"
    /\ Ended(r)
    /\ consecutive_failures' = OneMoreFailure
    /\ Release(r)
    /\ Notify(opened, OneMoreFailure)
    /\ UNCHANGED clock

\* A 403 opens the circuit or, to the probe, extends it; the diagnostics of
\* the body are still to be read, and the ticket plays no further part.
Forbid(r) ==
    /\ phase[r] = "sent"
    /\ phase' = [phase EXCEPT ![r] = "leaving"]
    /\ ticket' = [ticket EXCEPT ![r] = 0]
    /\ era' = [era EXCEPT ![r] = 0]
    /\ consecutive_failures' = OneMoreFailure
    /\ refusals' = IF era[r] # epoch THEN refusals
                   ELSE IF opened THEN refusals + 1 ELSE 1
    /\ IF Escalates(r)
       THEN LET i == IF backoff_index < Len(Backoff) THEN backoff_index + 1
                     ELSE Len(Backoff)
            IN  /\ opened' = TRUE
                /\ epoch' = IF opened THEN epoch ELSE epoch + 1
                /\ backoff_index' = i
                /\ cooldown_until' = clock + Backoff[i]
                /\ generation' = generation + 1
                /\ probe' = NoRequest
       ELSE UNCHANGED <<opened, epoch, backoff_index, cooldown_until,
                        generation, probe>>
    /\ UNCHANGED <<clock, health_alerted, last_alert_at, pending_recovery>>

\* Mutant of Recovers: only the end of an open circuit is told.
RecoversCircuit == opened

\* success has a recovery to tell
Recovers == opened \/ health_alerted

\* A list has come back.  What it changes is done at once; notify is on the
\* way out, and another coroutine may compose the recovery before.
Succeed(r) ==
    /\ phase[r] = "sent"
    /\ phase' = [phase EXCEPT ![r] = "leaving"]
    /\ ticket' = [ticket EXCEPT ![r] = 0]
    /\ era' = [era EXCEPT ![r] = 0]
    /\ \/ /\ Accepted(r)
          /\ opened' = FALSE
          /\ epoch' = IF opened THEN epoch + 1 ELSE epoch
          /\ generation' = IF opened THEN generation + 1 ELSE generation
          /\ cooldown_until' = 0
          /\ backoff_index' = 0
          /\ probe' = NoRequest
          /\ consecutive_failures' = 0
          /\ health_alerted' = FALSE
          /\ pending_recovery' = (pending_recovery \/ Recovers)
          /\ UNCHANGED <<refusals, last_alert_at>>
       \/ ~Accepted(r) /\ UNCHANGED <<circuit, health>>
    /\ UNCHANGED clock

Finish(r) == End(r) \/ Fail(r) \/ Forbid(r) \/ Succeed(r)

\* notify from outside a request: the heartbeat of the process, a search that
\* has failed.
Heartbeat ==
    /\ Notify(opened, consecutive_failures)
    /\ UNCHANGED <<clock, circuit, consecutive_failures, phase, ticket, era>>

Next ==
    \/ \E r \in Requests :
          \/ Reject(r) \/ Admit(r) \/ Pass(r) \/ Bounce(r)
          \/ Dispatch(r) \/ Finish(r)
    \/ Heartbeat
    \/ Tick /\ UNCHANGED outageVars

Spec == Init /\ [][Next]_vars

\* A request leaves the limiter or reaches its deadline, and the HTTP client
\* has a timeout.
FairSpec == Spec /\ \A r \in Requests : WF_vars(Dispatch(r) \/ Finish(r))

(***************************************************************************)
(* Properties.                                                             *)
(***************************************************************************)
\* The variables have their types; a closed circuit has no probe, no cooldown
\* and no backoff.
TypeOK ==
    /\ ClockOK
    /\ opened \in BOOLEAN
    /\ cooldown_until \in Nat
    /\ backoff_index \in 0..Len(Backoff)
    /\ generation \in Nat
    /\ probe \in Requests \cup {NoRequest}
    /\ consecutive_failures \in 0..AlertAfter
    /\ health_alerted \in BOOLEAN
    /\ last_alert_at \in {0 - AlertEvery} \cup 0..Horizon
    /\ phase \in [Requests -> {"idle", "queued", "sent", "leaving"}]
    /\ ticket \in [Requests -> Nat]
    /\ epoch \in Nat
    /\ era \in [Requests -> Nat]
    /\ refusals \in Nat
    /\ pending_recovery \in BOOLEAN
    /\ ~opened => probe = NoRequest /\ cooldown_until = 0 /\ backoff_index = 0

\* "Queued requests cannot slip through an opened circuit": of the requests
\* that left since it opened only the probe is in flight, and it did not
\* leave during a cooldown.
OutageTraffic ==
    opened => \A r \in Requests :
        phase[r] = "sent" /\ era[r] = epoch =>
            probe = r /\ clock >= cooldown_until

\* "In-flight results from an older generation do not extend a newer
\* circuit": the backoff has one step for the 403 that opened the circuit and
\* one for each refused probe, and starts over after a recovery.
BackoffCountsRefusals ==
    backoff_index = IF ~opened THEN 0
                    ELSE IF refusals < Len(Backoff) THEN refusals
                    ELSE Len(Backoff)

\* Only a post request that left after the circuit opened, and after its
\* cooldown, closes it.
ClosesByProbe ==
    [][opened /\ ~opened' =>
          \E r \in RecoveryRequests :
              /\ phase[r] = "sent" /\ phase'[r] = "leaving"
              /\ era[r] = epoch
              /\ clock >= cooldown_until]_vars

\* "Cancelled/failed probes must not leave half-open stuck."
HalfOpenResolves == \A r \in Requests : probe = r ~> probe # r

=============================================================================
