------------------------------- MODULE MCProcess -------------------------------
(***************************************************************************)
(* What a process is made of, in one run: the processes beside one another *)
(* with the database they migrate, the payloads of the buttons, and the    *)
(* limiter of the requests to Telegram.  The state of one of the three     *)
(* changes, that of the others stays what it was.                          *)
(***************************************************************************)
EXTENDS BotProcess, CallbackPayloads, TelegramLimiter, TLC

CONSTANTS p1, p2, k1, k2, x1, r1, r2, r3, c1, c2

VARIABLE scene

\* An older database may lack the table of digests, its claim columns or the
\* progress table; the first migration needs the columns, the second the table.
MCBase == << [adds |-> {"digests", "claims"}, unless |-> "digests"],
             [adds |-> {"backoff"}, unless |-> "backoff"] >>
MCVersion == <<1, 6>>
MCNeeds == [v \in {1, 6} |-> IF v = 1 THEN {"claims"} ELSE {"progress"}]
MCTasks == <<"exports", "subscriptions">>
MCChatOf == (r1 :> c1) @@ (r2 :> c1) @@ (r3 :> c2)

\* the bound of the clock for the payloads, twice their lifetime
MCPayloadHorizon == 2

MCSymmetry ==
    Permutations(Payload) \cup Permutations({r1, r2})

\* A process that serves, as one that starts gets there: with it among the
\* initial states what goes wrong later is found in shorter behaviours.
MCServing ==
    /\ holder = p1 /\ metadata = p1
    /\ at = [p \in Process |-> IF p = p1 THEN "running" ELSE "off"]
    /\ tasks = [p \in Process |-> IF p = p1 THEN Range(Tasks) ELSE {}]
    /\ loaded = [p \in Process |-> 1]
    /\ restart = [p \in Process |-> FALSE]
    /\ update = [p \in Process |-> "none"]
    /\ disk = 1 /\ remote = 1 /\ checked = {1}
    /\ marker = NoMarker /\ early = {}
    /\ schema = Feature /\ recorded = DOMAIN Needs
    /\ work = NoWork

MCProcessInit ==
    /\ scene \in {"processes", "payloads", "limiter"}
    /\ ProcessInit \/ (scene = "processes" /\ MCServing)
    /\ scene # "processes" => schema = Feature /\ recorded = DOMAIN Needs
    /\ PayloadsInit
    /\ LimiterInit

MCProcessNext ==
    /\ \/ /\ scene = "processes"
          /\ ProcessNext
          /\ UNCHANGED <<clock, payloadVars, limiterVars>>
       \/ /\ scene = "payloads"
          /\ PayloadsNext
          /\ clock' <= MCPayloadHorizon
          /\ UNCHANGED <<processVars, limiterVars>>
       \/ /\ scene = "limiter"
          /\ LimiterNext
          /\ UNCHANGED <<processVars, payloadVars>>
    /\ UNCHANGED scene

MCProcessSpec ==
    MCProcessInit
    /\ [][MCProcessNext]_<<scene, clock, processVars, payloadVars, limiterVars>>

=============================================================================
