---------------------------- MODULE MCRule34Outage ----------------------------
(* An instance of Rule34Outage and Rule34Alerts for TLC. *)
EXTENDS Rule34Alerts

CONSTANTS r1, r2, a1

VARIABLE scene      \* "circuit" or "messages"

MCBackoff == <<1, 2>>

\* The bound of what is on its way: a tick, part of a cooldown of a minute or
\* more, is longer than the three seconds of a send.
MCPunctual == clock' # clock => \A m \in Message : in_flight[m] = 0

\* All requests with the circuit alone, the two post requests with the
\* messages as well.
MCNext ==
    /\ \/ scene = "circuit" /\ Next /\ UNCHANGED alertVars
       \/ scene = "messages" /\ AlertsNext /\ MCPunctual /\ phase'[a1] = "idle"
    /\ UNCHANGED scene

MCInit == AlertsInit /\ scene \in {"circuit", "messages"}

MCSpec ==
    /\ MCInit
    /\ [][MCNext]_<<vars, alertVars, scene>>
    /\ \A r \in Requests : WF_vars(Dispatch(r) \/ Finish(r))

=============================================================================
