-------------------------- MODULE CallbackPayloads --------------------------
(***************************************************************************)
(* The payloads behind the bot's buttons (app/telegram/state.py): a        *)
(* bounded dictionary in memory, a queue of jobs that write to SQLite one  *)
(* after the other in a thread, look-ups that wait for the jobs before     *)
(* them, the clean-up of what has expired, and the process that ends.  A   *)
(* button outlives the process that has made it.                           *)
(***************************************************************************)
EXTENDS EventLoopClock, Sequences, SequencesExt

CONSTANTS
    Payload,        \* an action with its token
    PayloadTTL,     \* CALLBACK_TTL_SECONDS
    RamLimit,       \* CALLBACK_RAM_MAX_ITEMS
    PendingLimit,   \* CALLBACK_PENDING_MAX_ITEMS
    Press           \* callback handlers that look something up

ASSUME PayloadAssumption ==
    /\ PayloadTTL \in Nat
    /\ RamLimit \in Nat \ {0}
    /\ PendingLimit \in Nat \ {0}

Never == -1

VARIABLES
    ram,        \* callback_payloads, in the order of its keys' first insertion
    saved,      \* the rows of callback_payloads: created_at, or Never
    jobs,       \* _pending_payload_tasks, as their lock serves them
    lookup,     \* the look-ups in SQLite
    stored,     \* when a payload was last stored, or Never
    excused,    \* the payloads something may have lost since
    unexplained \* a button failed although nothing had

payloadVars == <<ram, saved, jobs, lookup, stored, excused, unexplained>>

NoLookup == [at |-> "idle"]
Time == 0..Horizon

PayloadsInit ==
    /\ clock = 0
    /\ ram = <<>>
    /\ saved = [k \in Payload |-> Never]
    /\ jobs = <<>>
    /\ lookup = [r \in Press |-> NoLookup]
    /\ stored = [k \in Payload |-> Never]
    /\ excused = {}
    /\ unexplained = FALSE

Old(since) == clock - since > PayloadTTL

LookedUp(k) == \E r \in Press : lookup[r] # NoLookup /\ lookup[r].key = k

(* It has not expired, and nothing has lost it.                            *)
Owed(k) == stored[k] # Never /\ ~Old(stored[k]) /\ k \notin excused

-----------------------------------------------------------------------------
(* The dictionary: an assignment to a key keeps the key's place.           *)

Remembers(d, k) == \E i \in DOMAIN d : d[i].key = k

Put(d, k) ==
    IF Remembers(d, k)
    THEN [i \in DOMAIN d |-> IF d[i].key = k THEN [d[i] EXCEPT !.since = clock]
                             ELSE d[i]]
    ELSE Append(d, [key |-> k, since |-> clock])

Young(entry) == ~Old(entry.since)

Trimmed(d) == IF Len(d) <= RamLimit THEN d
              ELSE SubSeq(d, Len(d) - RamLimit + 1, Len(d))

Cleaned == Trimmed(SelectSeq(ram, Young))

-----------------------------------------------------------------------------
(* The jobs.                                                               *)

CleanJob == [op |-> "clean", key |-> {}, time |-> clock]
StoreJob(k) == [op |-> "store", key |-> {k}, time |-> clock]

Queued(q, job) == IF Len(q) < PendingLimit THEN Append(q, job) ELSE q

(* cleanup_callback_payloads; every ten minutes it also queues a clean-up  *)
(* of the table.                                                           *)
AfterCleanup == {jobs, Queued(jobs, CleanJob)}

StoreCallbackPayload(k) ==
    \E q \in AfterCleanup :
       /\ ram' = Trimmed(Put(Cleaned, k))
       /\ jobs' = Queued(q, StoreJob(k))
       /\ stored' = [stored EXCEPT ![k] = clock]
       /\ excused' = (IF LookedUp(k) THEN excused ELSE excused \ {k})
                     \cup (IF Len(q) < PendingLimit THEN {} ELSE {k})
       /\ UNCHANGED <<clock, saved, lookup, unexplained>>

(* A job writes and commits, or SQLite refuses and nobody is told.          *)
Job ==
    /\ jobs # <<>>
    /\ LET job == Head(jobs)
       IN \/ /\ saved' = [k \in Payload |->
                   IF k \in job.key THEN job.time
                   ELSE IF job.op = "clean" /\ saved[k] # Never
                           /\ job.time - saved[k] > PayloadTTL THEN Never
                   ELSE saved[k]]
             /\ UNCHANGED excused
          \/ /\ excused' = excused \cup job.key
             /\ UNCHANGED saved
    /\ jobs' = Tail(jobs)
    /\ lookup' = [r \in Press |->
         IF lookup[r].at = "flushing" /\ lookup[r].ahead > 0
         THEN [lookup[r] EXCEPT !.ahead = @ - 1] ELSE lookup[r]]
    /\ UNCHANGED <<clock, ram, stored, unexplained>>

-----------------------------------------------------------------------------
(* get_callback_payload_by_token_async.                                    *)

Ends(r) == lookup' = [lookup EXCEPT ![r] = NoLookup]

(* The jobs that are pending now are waited for.                           *)
Ahead == Len(jobs')

Flushing(r, k) ==
    lookup' = [lookup EXCEPT ![r] = [at |-> "flushing", key |-> k,
                                     ahead |-> Ahead, owed |-> Owed(k),
                                     since |-> stored[k]]]

GetCallbackPayload(r, k) ==
    /\ lookup[r] = NoLookup
    /\ stored[k] # Never
    /\ ram' = Cleaned
    /\ jobs' \in AfterCleanup
    /\ IF Remembers(Cleaned, k) THEN Ends(r) ELSE Flushing(r, k)
    /\ UNCHANGED <<clock, saved, stored, excused, unexplained>>

(* The thread of the look-up reads the row.  One that has not expired is    *)
(* back in memory as if it were new; one that has is deleted by a later    *)
(* statement.                                                              *)
Reads(r) == lookup[r].at = "flushing" /\ lookup[r].ahead = 0

Found(r) ==
    /\ Reads(r)
    /\ LET k == lookup[r].key
       IN /\ saved[k] # Never
          /\ ~Old(saved[k])
          /\ ram' = Put(ram, k)
    /\ Ends(r)
    /\ UNCHANGED <<clock, saved, jobs, stored, excused, unexplained>>

Wronged(r) ==
    /\ lookup[r].owed
    /\ ~Old(lookup[r].since)
    /\ lookup[r].key \notin excused

Missing(r) ==
    /\ Reads(r)
    /\ saved[lookup[r].key] = Never
    /\ unexplained' = (unexplained \/ Wronged(r))
    /\ Ends(r)
    /\ UNCHANGED <<clock, ram, saved, jobs, stored, excused>>

Expired(r) ==
    /\ Reads(r)
    /\ saved[lookup[r].key] # Never
    /\ Old(saved[lookup[r].key])
    /\ unexplained' = (unexplained \/ Wronged(r))
    /\ lookup' = [lookup EXCEPT ![r].at = "deleting"]
    /\ UNCHANGED <<clock, ram, saved, jobs, stored, excused>>

(* The row may have been written anew since it was read.                   *)
DeleteExpired(r) ==
    /\ lookup[r].at = "deleting"
    /\ LET k == lookup[r].key
       IN /\ saved' = [saved EXCEPT ![k] = Never]
          /\ excused' = IF Old(saved[k]) THEN excused ELSE excused \cup {k}
    /\ Ends(r)
    /\ UNCHANGED <<clock, ram, jobs, stored, unexplained>>

LookupFails(r) ==
    /\ Reads(r) \/ lookup[r].at = "deleting"
    /\ Ends(r)
    /\ UNCHANGED <<clock, ram, saved, jobs, stored, excused, unexplained>>

-----------------------------------------------------------------------------
(* The end of the process.  post_shutdown waits five seconds for the jobs.  *)

Forget ==
    /\ ram' = <<>>
    /\ jobs' = <<>>
    /\ lookup' = [r \in Press |-> NoLookup]

(* Mutant of Flushed: a shutdown that does not wait. *)
FlushedAnyhow == TRUE

Flushed == jobs = <<>>

StopProcess ==
    /\ Flushed
    /\ Forget
    /\ UNCHANGED <<clock, saved, stored, excused, unexplained>>

(* A crash, or a shutdown that has run out of time.                        *)
LoseProcess ==
    /\ jobs # <<>>
    /\ Forget
    /\ excused' = excused \cup UNION {jobs[i].key : i \in DOMAIN jobs}
    /\ UNCHANGED <<clock, saved, stored, unexplained>>

PayloadsNext ==
    \/ Job \/ StopProcess \/ LoseProcess
    \/ \E k \in Payload : StoreCallbackPayload(k)
    \/ \E r \in Press :
          \/ \E k \in Payload : GetCallbackPayload(r, k)
          \/ Found(r) \/ Missing(r) \/ Expired(r) \/ DeleteExpired(r)
          \/ LookupFails(r)
    \/ Tick /\ UNCHANGED payloadVars

PayloadsSpec == PayloadsInit /\ [][PayloadsNext]_<<clock, payloadVars>>

-----------------------------------------------------------------------------
(* Properties.                                                             *)

PayloadsTypeOK ==
    /\ ram \in BoundedSeq([key : Payload, since : Time], RamLimit + 1)
    /\ saved \in [Payload -> Time \cup {Never}]
    /\ stored \in [Payload -> Time \cup {Never}]
    /\ Len(jobs) <= PendingLimit

(* A button pressed within the lifetime of its payload finds it, in memory  *)
(* or in the table, across evictions, clean-ups and restarts, unless its   *)
(* write met a full queue, was refused by SQLite or was pending when the   *)
(* process was lost, or a look-up of the same, expired payload deleted the *)
(* row that had just been written anew (store_callback_payload,            *)
(* get_callback_payload_by_token_async, flush_callback_payloads).          *)
LossExplained == ~unexplained

=============================================================================
