------------------------------- MODULE UserGate -------------------------------
(***************************************************************************)
(* The operation gate of one user: an entry object, created for the first  *)
(* task that wants it and dropped by the last, with a condition variable   *)
(* that hands the gate on by notify(1).  Gates of other users share        *)
(* nothing with it.  The condition's lock is never held across an await;   *)
(* its wait is that of Python 3.11, where a task that is cancelled between *)
(* the notification and its next step takes the notification with it.      *)
(***************************************************************************)
EXTENDS Naturals, Sequences, FiniteSets

CONSTANTS
    Tasks,
    Entries,            \* identities of entry objects, one per task is enough
    NoEntry

VARIABLES
    running, registry,
    references, waiters, held,      \* fields of each entry
    sleepers,                       \* futures of its condition, oldest first
    task, on,                       \* where a task is, and its entry
    lost                            \* history: a notification was lost since
                                    \* the last one was given

entryVars == <<references, waiters, held, sleepers>>
vars == <<running, registry, entryVars, task, on, lost>>

ASSUME GateAssumption ==
    /\ NoEntry \notin Entries
    /\ IsFiniteSet(Tasks)

Init ==
    /\ running = TRUE
    /\ registry = NoEntry
    /\ references = [e \in Entries |-> 0]
    /\ waiters = [e \in Entries |-> 0]
    /\ held = [e \in Entries |-> FALSE]
    /\ sleepers = [e \in Entries |-> <<>>]
    /\ task = [t \in Tasks |-> "idle"]
    /\ on = [t \in Tasks |-> NoEntry]
    /\ lost = FALSE

Fresh(e) == \A t \in Tasks : on[t] # e

(***************************************************************************)
(* hold                                                                    *)
(***************************************************************************)
\* The registered entry, or a new one.
Entry(e) == IF registry = NoEntry THEN Fresh(e) ELSE e = registry

\* Up to the first wait: the task holds the gate, or sleeps.
Enter(t) ==
    /\ running
    /\ task[t] = "idle"
    /\ \E e \in Entries :
          /\ Entry(e)
          /\ registry' = e
          /\ on' = [on EXCEPT ![t] = e]
          /\ references' = [references EXCEPT ![e] = @ + 1]
          /\ \/ /\ held[e]
                /\ waiters' = [waiters EXCEPT ![e] = @ + 1]
                /\ sleepers' = [sleepers EXCEPT ![e] = Append(@, t)]
                /\ task' = [task EXCEPT ![t] = "asleep"]
                /\ UNCHANGED held
             \/ /\ ~held[e]
                /\ held' = [held EXCEPT ![e] = TRUE]
                /\ task' = [task EXCEPT ![t] = "holding"]
                /\ UNCHANGED <<waiters, sleepers>>
    /\ UNCHANGED <<running, lost>>

\* _release_reference drops the entry
Dropped(e, refs, wait, hold) == refs[e] = 0 /\ ~hold[e] /\ wait[e] = 0

\* The end of hold for a task that has given back the rest.
Leave(t, wait, hold) ==
    LET e == on[t]
        refs == [references EXCEPT ![e] = @ - 1]
    IN  /\ references' = refs
        /\ waiters' = wait
        /\ held' = hold
        /\ registry' = IF Dropped(e, refs, wait, hold) /\ registry = e
                       THEN NoEntry ELSE registry
        /\ on' = [on EXCEPT ![t] = NoEntry]

\* A queue that a task has left.
Without(q, t) ==
    LET i == CHOOSE j \in 1..Len(q) : q[j] = t
    IN  IF \A j \in 1..Len(q) : q[j] # t THEN q
        ELSE [j \in 1..(Len(q) - 1) |-> IF j < i THEN q[j] ELSE q[j + 1]]

OneWaiterLess(e) == [waiters EXCEPT ![e] = @ - 1]

\* Mutant of Wake: if where the code has while.
WakeOnce(t) ==
    LET e == on[t]
    IN  /\ task[t] = "notified"
        /\ \/ /\ ~running
              /\ task' = [task EXCEPT ![t] = "idle"]
              /\ Leave(t, OneWaiterLess(e), held)
           \/ /\ running
              /\ waiters' = OneWaiterLess(e)
              /\ held' = [held EXCEPT ![e] = TRUE]
              /\ task' = [task EXCEPT ![t] = "holding"]
              /\ UNCHANGED <<registry, references, on>>
        /\ UNCHANGED <<running, sleepers, lost>>

\* The notified task runs: the gate is taken again, closed, or its own.
Wake(t) ==
    LET e == on[t]
    IN  /\ task[t] = "notified"
        /\ \/ /\ running /\ held[e]
              /\ sleepers' = [sleepers EXCEPT ![e] = Append(@, t)]
              /\ task' = [task EXCEPT ![t] = "asleep"]
              /\ UNCHANGED <<registry, references, waiters, held, on>>
           \/ /\ ~running
              /\ task' = [task EXCEPT ![t] = "idle"]
              /\ Leave(t, OneWaiterLess(e), held)
              /\ UNCHANGED sleepers
           \/ /\ running /\ ~held[e]
              /\ waiters' = OneWaiterLess(e)
              /\ held' = [held EXCEPT ![e] = TRUE]
              /\ task' = [task EXCEPT ![t] = "holding"]
              /\ UNCHANGED <<registry, references, sleepers, on>>
        /\ UNCHANGED <<running, lost>>

\* A task is cancelled while it waits, or reaches its deadline.
Cancel(t) ==
    LET e == on[t]
    IN  /\ task[t] \in {"asleep", "notified"}
        /\ sleepers' = [sleepers EXCEPT ![e] = Without(@, t)]
        /\ task' = [task EXCEPT ![t] = "idle"]
        /\ Leave(t, OneWaiterLess(e), held)
        /\ lost' = (lost \/ task[t] = "notified")
        /\ UNCHANGED running

\* Mutant of NotifyOne: the gate is given back and nobody told.
NotifyNone(e) == UNCHANGED sleepers /\ task' = [t \in Tasks |->
    IF task[t] = "holding" THEN "idle" ELSE task[t]]

\* The holder leaves and the oldest sleeper is notified.
NotifyOne(e) ==
    LET leaving(t) == task[t] = "holding" /\ on[t] = e
        first(t) == sleepers[e] # <<>> /\ t = Head(sleepers[e])
    IN  /\ sleepers' = [sleepers EXCEPT ![e] =
                            IF @ = <<>> THEN @ ELSE Tail(@)]
        /\ task' = [t \in Tasks |-> IF leaving(t) THEN "idle"
                                    ELSE IF first(t) THEN "notified"
                                    ELSE task[t]]

\* The body is done, has failed or is cancelled.
Release(t) ==
    LET e == on[t]
    IN  /\ task[t] = "holding"
        /\ NotifyOne(e)
        /\ Leave(t, waiters, [held EXCEPT ![e] = FALSE])
        /\ lost' = FALSE
        /\ UNCHANGED running

(***************************************************************************)
(* shutdown and start                                                      *)
(***************************************************************************)
\* notify_all on every registered entry
Shutdown ==
    /\ running
    /\ running' = FALSE
    /\ sleepers' = [e \in Entries |-> IF e = registry THEN <<>> ELSE sleepers[e]]
    /\ task' = [t \in Tasks |->
           IF task[t] = "asleep" /\ on[t] = registry THEN "notified" ELSE task[t]]
    /\ UNCHANGED <<registry, references, waiters, held, on, lost>>

\* Refused while somebody holds or leaves.
Start ==
    /\ ~running
    /\ registry = NoEntry
    /\ running' = TRUE
    /\ UNCHANGED <<registry, entryVars, task, on, lost>>

Next ==
    \/ \E t \in Tasks : Enter(t) \/ Wake(t) \/ Cancel(t) \/ Release(t)
    \/ Shutdown
    \/ Start

Spec == Init /\ [][Next]_vars

(***************************************************************************)
(* Properties.                                                             *)
(***************************************************************************)
On(e) == {t \in Tasks : on[t] = e}

\* "User-scoped serialization": one task at a time is inside, although the
\* entry they meet on comes and goes.
Serialized ==
    \A t, u \in Tasks : task[t] = "holding" /\ task[u] = "holding" => t = u

\* "Ref-counted": all tasks of the user meet on the registered entry, and
\* nobody's entry stays behind.
RegistryExact ==
    /\ \A t \in Tasks : on[t] \in {NoEntry, registry}
    /\ registry # NoEntry => On(registry) # {}

Stranded ==
    /\ \A t \in Tasks : task[t] \in {"idle", "asleep"}
    /\ \E t \in Tasks : task[t] = "asleep"

\* Nobody sleeps before a free gate, unless a notified task was cancelled
\* before it ran and no release has come since (test_cancelled_waiter_is_removed
\* cancels waiters under a held gate only); and nobody before a stopped one.
NoUnexplainedStranding ==
    /\ Stranded => lost
    /\ ~running => \A t \in Tasks : task[t] # "asleep"

=============================================================================
