---------------------------- MODULE Rule34Alerts ----------------------------
(***************************************************************************)
(* What becomes of the messages the circuit breaker composes.  notify      *)
(* sends them after it has noted that it did: a send has three seconds,    *)
(* what it raises is swallowed, a cancellation drops what is left, and the *)
(* sends of two coroutines, or one Telegram takes after its timeout,       *)
(* arrive in any order.  One admin is looked at; each has messages of      *)
(* their own (send_rule34_health_notification).                            *)
(***************************************************************************)
EXTENDS Rule34Outage

VARIABLES
    in_flight,          \* how many messages of each kind are on their way
    heard               \* what the admin was told last

alertVars == <<in_flight, heard>>

\* A message is old once one of the other kind has been composed after it.
Message == {"outage", "recovery", "old_outage", "old_recovery"}

\* A recovery is composed: the alerts on their way are old now.
WithRecovery(f) ==
    [f EXCEPT !["recovery"] = @ + 1,
              !["outage"] = 0, !["old_outage"] = @ + f["outage"]]

\* An alert is composed: the recoveries on their way are old now.
WithOutage(f) ==
    [f EXCEPT !["outage"] = @ + 1,
              !["recovery"] = 0, !["old_recovery"] = @ + f["recovery"]]

\* What notify has composed in this step, the recovery before the alert.
Recovered == pending_recovery /\ ~pending_recovery'
Alerted == last_alert_at' # last_alert_at

Compose ==
    LET f == IF Recovered THEN WithRecovery(in_flight) ELSE in_flight
    IN  in_flight' = IF Alerted THEN WithOutage(f) ELSE f

\* "calm": no alert, or a recovery after it.  "overtaken": an alert a recovery
\* was composed after.  "unanswered": an alert whose recovery got lost.
Heard == {"calm", "outage", "overtaken", "unanswered"}

Arrive(m) ==
    /\ in_flight[m] > 0
    /\ in_flight' = [in_flight EXCEPT ![m] = @ - 1]
    /\ heard' = CASE m = "outage" -> "outage"
                  [] m = "old_outage" -> "overtaken"
                  [] OTHER -> "calm"

\* The notifier raises or runs out of its time, or the coroutine is cancelled
\* before or while it sends.
Lose(m) ==
    /\ in_flight[m] > 0
    /\ in_flight' = [in_flight EXCEPT ![m] = @ - 1]
    /\ heard' = IF heard = "outage" /\ m = "recovery" /\ in_flight[m] = 1
                THEN "unanswered" ELSE heard

AlertsInit ==
    /\ Init
    /\ in_flight = [m \in Message |-> 0]
    /\ heard = "calm"

AlertsNext ==
    \/ Next /\ Compose /\ UNCHANGED heard
    \/ \E m \in Message : (Arrive(m) \/ Lose(m)) /\ UNCHANGED vars

AlertsSpec == AlertsInit /\ [][AlertsNext]_<<vars, alertVars>>

(***************************************************************************)
(* Properties.                                                             *)
(***************************************************************************)
AlertsTypeOK ==
    /\ TypeOK
    /\ in_flight \in [Message -> Nat]
    /\ heard \in Heard

\* What the admins were told last is an outage that lasts, or its recovery is
\* still to come: pending, or on its way.  Nothing else leaves them with an
\* alert but a recovery that was composed and got lost, or an alert that a
\* recovery composed after it has overtaken: the breaker itself never forgets
\* to tell, whoever finds the pending recovery, however alerts are held back,
\* and whether the outage opened the circuit or not.
AlertAnswered ==
    heard = "outage" =>
        \/ opened \/ consecutive_failures > 0
        \/ pending_recovery \/ in_flight["recovery"] > 0

=============================================================================
