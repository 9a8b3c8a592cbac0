------------------------------- MODULE ZipExport ------------------------------
(***************************************************************************)
(* The ZIP export manager: a bounded queue of jobs, one per user, the      *)
(* handshake that tells the user about a job before a worker may take it,  *)
(* a small pool of workers behind one condition variable, cancellation and *)
(* stop.  What a job downloads and packs is one step here, with its        *)
(* outcome; every await at which another task can come between is a step.  *)
(***************************************************************************)
EXTENDS Naturals, Sequences, FiniteSets

CONSTANTS
    Users,
    Jobs,           \* job identities; one returns when nobody knows it
    Owner,          \* [Jobs -> Users]
    Favorites,      \* the jobs that export favorites, not a collection
    NoJob,
    Workers,
    QueueCapacity

ASSUME ZipAssumption ==
    /\ Owner \in [Jobs -> Users]
    /\ Favorites \subseteq Jobs
    /\ NoJob \notin Jobs
    /\ QueueCapacity \in Nat \ {0}

VARIABLES
    manager,        \* "up", "closing", "cancelling" (in stop), "stopped"
    pending,        \* _pending_job_ids
    registered,     \* _jobs_by_id
    jobOf,          \* _job_id_by_user
    active,         \* _active_job_ids
    cooling         \* users within the cooldown of favorites

VARIABLES           \* of each job
    handshake,      \* the enqueue call still waits for its reply
    ready,          \* ready_event
    cancelled,      \* cancel_event
    message,        \* status_message_id is known
    task            \* the task that runs it: none, running, cancelled, or done

VARIABLES           \* of each worker
    stage, has

VARIABLES           \* history, per job
    acknowledged,   \* a cancellation was acknowledged to the user
    outcome,        \* the status of its terminal message
    notices         \* how many terminal messages it got

queueVars == <<pending, registered, jobOf, active>>
jobVars == <<handshake, ready, cancelled, message, task>>
workerVars == <<stage, has>>
historyVars == <<acknowledged, outcome, notices>>
vars == <<manager, cooling, queueVars, jobVars, workerVars, historyVars>>

Closing == manager # "up"

Init ==
    /\ manager = "up"
    /\ pending = <<>> /\ registered = {} /\ active = {}
    /\ jobOf = [u \in Users |-> NoJob]
    /\ cooling = {}
    /\ handshake = {} /\ ready = {} /\ cancelled = {} /\ message = {}
    /\ task = [j \in Jobs |-> "none"]
    /\ stage = [w \in Workers |-> "loop"]
    /\ has = [w \in Workers |-> NoJob]
    /\ acknowledged = {}
    /\ outcome = [j \in Jobs |-> "none"]
    /\ notices = [j \in Jobs |-> 0]

(***************************************************************************)
(* Pieces of the handlers.                                                 *)
(***************************************************************************)
Pending == {pending[i] : i \in 1..Len(pending)}
Dequeued(queue, j) ==
    LET i == CHOOSE n \in 1..Len(queue) : queue[n] = j
    IN  IF \A n \in 1..Len(queue) : queue[n] # j THEN queue
        ELSE [n \in 1..(Len(queue) - 1) |->
                 IF n < i THEN queue[n] ELSE queue[n + 1]]

\* _cleanup_job_registry of the jobs J
CleanupRegistry(J) ==
    /\ active' = active \ J
    /\ registered' = registered \ J
    /\ jobOf' = [u \in Users |-> IF jobOf[u] \in J THEN NoJob ELSE jobOf[u]]

\* Mutant of Woken: workers that wait for the head are not notified.
WokenFromEmpty(w) == IF stage[w] = "empty" THEN "loop" ELSE stage[w]

\* notify_all, among workers that wait for a job or for the head to be ready
Woken(w) == CASE stage[w] = "empty" -> "loop"
              [] stage[w] = "head" -> "again"
              [] OTHER -> stage[w]
NotifyAll == stage' = [w \in Workers |-> Woken(w)]

\* The terminal status of the jobs J, sent or tried.
Tell(J, status) ==
    /\ notices' = [j \in Jobs |-> IF j \in J THEN notices[j] + 1 ELSE notices[j]]
    /\ outcome' = [j \in Jobs |-> IF j \in J THEN status ELSE outcome[j]]

(***************************************************************************)
(* enqueue_favorites, enqueue_collection                                   *)
(***************************************************************************)
Unknown(j) ==
    /\ j \notin registered \cup handshake
    /\ \A w \in Workers : has[w] # j

Enqueue(j) ==
    /\ ~Closing
    /\ Unknown(j)
    /\ jobOf[Owner[j]] = NoJob
    /\ j \in Favorites => Owner[j] \notin cooling
    /\ Len(pending) < QueueCapacity
    /\ pending' = Append(pending, j)
    /\ registered' = registered \cup {j}
    /\ jobOf' = [jobOf EXCEPT ![Owner[j]] = j]
    /\ handshake' = handshake \cup {j}
    /\ ready' = ready \ {j}
    /\ cancelled' = cancelled \ {j}
    /\ message' = message \ {j}
    /\ task' = [task EXCEPT ![j] = "none"]
    /\ acknowledged' = acknowledged \ {j}
    /\ outcome' = [outcome EXCEPT ![j] = "none"]
    /\ notices' = [notices EXCEPT ![j] = 0]
    /\ UNCHANGED <<manager, cooling, active, workerVars>>

CanQueue(j) == j \in registered /\ j \notin cancelled /\ ~Closing

\* The reply was sent, or failed: the job may run, or was given up meanwhile.
Confirm(j) ==
    /\ j \in handshake
    /\ handshake' = handshake \ {j}
    /\ ready' = ready \cup {j}
    /\ message' \in {message, message \cup {j}}
    /\ IF CanQueue(j)
       THEN UNCHANGED <<queueVars, outcome, notices>>
       ELSE /\ pending' = Dequeued(pending, j)
            /\ CleanupRegistry({j})
            /\ Tell(message' \ message, "cancelled")
    /\ NotifyAll
    /\ UNCHANGED <<manager, cooling, cancelled, task, has, acknowledged>>

\* The update that enqueued is cancelled while it replies.
AbortEnqueue(j) ==
    /\ j \in handshake
    /\ handshake' = handshake \ {j}
    /\ ready' = ready \cup {j}
    /\ cancelled' = cancelled \cup {j}
    /\ pending' = Dequeued(pending, j)
    /\ CleanupRegistry({j})
    /\ NotifyAll
    /\ UNCHANGED <<manager, cooling, message, task, has, historyVars>>

(***************************************************************************)
(* cancel_for_user                                                         *)
(***************************************************************************)
\* Mutant of Cancellable: also a job whose task has ended.
CancellableAlways(j) == j \in registered

Cancellable(j) == j \in registered /\ (j \in Pending \/ task[j] # "done")

\* A job in its handshake is told by its enqueue call.
Told(j) == {j} \cap ready

CancelForUser(u) ==
    LET j == jobOf[u]
    IN  /\ j # NoJob /\ Cancellable(j)
        /\ cancelled' = cancelled \cup {j}
        /\ acknowledged' = acknowledged \cup {j}
        /\ \/ /\ j \in Pending
              /\ pending' = Dequeued(pending, j)
              /\ CleanupRegistry({j})
              /\ NotifyAll
              /\ Tell(Told(j), "cancelled")
              /\ UNCHANGED task
           \/ /\ j \notin Pending
              /\ task' = IF task[j] = "running"
                         THEN [task EXCEPT ![j] = "cancelled"] ELSE task
              /\ UNCHANGED <<queueVars, stage, outcome, notices>>
        /\ UNCHANGED <<manager, cooling, handshake, ready, message, has>>

(***************************************************************************)
(* The workers.                                                            *)
(***************************************************************************)
WaitFor(w, where) ==
    /\ stage' = [stage EXCEPT ![w] = where]
    /\ UNCHANGED <<queueVars, has, task>>

Leave(w) ==
    /\ stage' = [stage EXCEPT ![w] = "ended"]
    /\ UNCHANGED <<queueVars, has, task>>

Take(w, j) ==
    /\ pending' = Tail(pending)
    /\ active' = active \cup {j}
    /\ task' = [task EXCEPT ![j] = "running"]
    /\ stage' = [stage EXCEPT ![w] = "running"]
    /\ has' = [has EXCEPT ![w] = j]
    /\ UNCHANGED <<registered, jobOf>>

\* _next_job, from its start or from a wait.  A worker that waited for the
\* head returns None when it finds the queue empty.
NextJob(w) ==
    /\ stage[w] \in {"loop", "again"}
    /\ \/ Closing /\ Leave(w)
       \/ /\ ~Closing /\ pending = <<>>
          /\ IF stage[w] = "loop" THEN WaitFor(w, "empty") ELSE Leave(w)
       \/ /\ ~Closing /\ pending # <<>>
          /\ IF Head(pending) \in ready THEN Take(w, Head(pending))
                                        ELSE WaitFor(w, "head")
    /\ UNCHANGED <<manager, cooling, handshake, ready, cancelled, message,
                   historyVars>>

\* The job ends: success and partial are "exported", limit, download_error
\* and failed are "failed".  Its terminal status goes out before
\* the registry is cleaned.
EndJob(w) ==
    LET j == has[w]
    IN  /\ stage[w] = "running"
        /\ stage' = [stage EXCEPT ![w] = "finishing"]
        /\ task' = [task EXCEPT ![j] = "done"]
        /\ \E status \in {"exported", "failed"} :
              Tell({j}, IF task[j] = "cancelled" THEN "cancelled" ELSE status)
        /\ UNCHANGED <<manager, cooling, queueVars, handshake, ready, cancelled,
                       message, has, acknowledged>>

FinishJob(w) ==
    LET j == has[w]
        next == IF outcome[j] = "cancelled" /\ Closing THEN "ended" ELSE "loop"
    IN  /\ stage[w] = "finishing"
        /\ CleanupRegistry({j})
        /\ cooling' = IF j \in Favorites /\ outcome[j] = "exported"
                      THEN cooling \cup {Owner[j]} ELSE cooling
        /\ stage' = [v \in Workers |-> IF v = w THEN next ELSE Woken(v)]
        /\ has' = [has EXCEPT ![w] = NoJob]
        /\ UNCHANGED <<manager, pending, jobVars, historyVars>>

CooldownEnds(u) ==
    /\ u \in cooling
    /\ cooling' = cooling \ {u}
    /\ UNCHANGED <<manager, queueVars, jobVars, workerVars, historyVars>>

(***************************************************************************)
(* stop and start                                                          *)
(***************************************************************************)
\* Queued jobs are given up, the workers told.  The code edits their status
\* messages one after another, and a job whose handshake ends meanwhile is told
\* by its enqueue call as well; both write "cancelled" into the same message,
\* so what the users read is the same as after telling all of them here.
Stop ==
    /\ manager = "up"
    /\ manager' = "closing"
    /\ pending' = <<>>
    /\ cancelled' = cancelled \cup Pending
    /\ ready' = ready \cup Pending
    /\ CleanupRegistry(Pending)
    /\ Tell(Pending \cap message, "cancelled")
    /\ NotifyAll
    /\ UNCHANGED <<cooling, handshake, message, task, has, acknowledged>>

\* Mutant of CancelTasks: stop does not wait for the workers.
CancelAndReturn ==
    /\ manager = "closing"
    /\ manager' = "stopped"
    /\ task' = [j \in Jobs |-> IF task[j] = "running" THEN "cancelled"
                                                      ELSE task[j]]
    /\ UNCHANGED <<cooling, queueVars, handshake, ready, cancelled, message,
                   workerVars, historyVars>>

\* The statuses are sent, then every running job is cancelled.
CancelTasks ==
    /\ manager = "closing"
    /\ manager' = "cancelling"
    /\ task' = [j \in Jobs |-> IF task[j] = "running" THEN "cancelled"
                                                      ELSE task[j]]
    /\ UNCHANGED <<cooling, queueVars, handshake, ready, cancelled, message,
                   workerVars, historyVars>>

Stopped ==
    /\ manager = "cancelling"
    /\ \A w \in Workers : stage[w] = "ended"
    /\ manager' = "stopped"
    /\ UNCHANGED <<cooling, queueVars, jobVars, workerVars, historyVars>>

Start ==
    /\ manager = "stopped"
    /\ manager' = "up"
    /\ stage' = [w \in Workers |-> "loop"]
    /\ UNCHANGED <<cooling, queueVars, jobVars, has, historyVars>>

WorkerStep(w) == NextJob(w) \/ EndJob(w) \/ FinishJob(w)

Next ==
    \/ \E j \in Jobs : Enqueue(j) \/ Confirm(j) \/ AbortEnqueue(j)
    \/ \E u \in Users : CancelForUser(u) \/ CooldownEnds(u)
    \/ \E w \in Workers : WorkerStep(w)
    \/ Stop \/ CancelTasks \/ Stopped \/ Start

Spec == Init /\ [][Next]_vars

\* The event loop runs every task that can run; Telegram, or the client's
\* timeout, answers every request, and export_timeout ends every job.
Fairness ==
    /\ \A j \in Jobs : WF_vars(Confirm(j))
    /\ \A w \in Workers : WF_vars(WorkerStep(w))
    /\ WF_vars(CancelTasks) /\ WF_vars(Stopped)

FairSpec == Spec /\ Fairness

(***************************************************************************)
(* Properties.                                                             *)
(***************************************************************************)
\* The variables have their types; a worker has a job while it runs or ends it.
TypeOK ==
    /\ manager \in {"up", "closing", "cancelling", "stopped"}
    /\ Pending \subseteq Jobs /\ Len(pending) <= QueueCapacity
    /\ registered \cup active \cup handshake \cup ready \cup cancelled
         \cup message \cup acknowledged \subseteq Jobs
    /\ jobOf \in [Users -> Jobs \cup {NoJob}]
    /\ cooling \subseteq Users
    /\ task \in [Jobs -> {"none", "running", "cancelled", "done"}]
    /\ stage \in [Workers -> {"loop", "empty", "head", "again", "running",
                           "finishing", "ended"}]
    /\ has \in [Workers -> Jobs \cup {NoJob}]
    /\ \A w \in Workers :
         has[w] = NoJob <=> stage[w] \notin {"running", "finishing"}
    /\ outcome \in [Jobs -> {"none", "exported", "failed", "cancelled"}]
    /\ notices \in [Jobs -> Nat]

\* A cancellation that was confirmed to the user is kept: the job does not
\* begin after it, does not end as anything else, and its user is told of the
\* end once, by whoever took it out: enqueue call, canceller, worker or stop.
CancelKept ==
    \A j \in acknowledged :
        /\ outcome[j] \in {"none", "cancelled"}
        /\ task[j] # "running"
        /\ notices[j] <= 1
        /\ j \in message /\ j \notin handshake \cup registered => notices[j] = 1

\* When stop returns nothing runs and nothing is registered, whatever the
\* enqueue calls that were still replying do afterwards.
StopLeavesNothing ==
    manager = "stopped" =>
        /\ registered = {} /\ active = {} /\ pending = <<>>
        /\ \A j \in Jobs : task[j] \in {"none", "done"}

\* The pool keeps its workers as long as the manager is up: what the tests
\* assert of a worker after every kind of end of a job.
WorkersStay == manager = "up" => \A w \in Workers : stage[w] # "ended"

\* Every accepted job ends, unless the last worker is gone.
JobEnds ==
    \A j \in Jobs :
        j \in registered ~>
            (j \notin registered \/ \A w \in Workers : stage[w] = "ended")

=============================================================================
