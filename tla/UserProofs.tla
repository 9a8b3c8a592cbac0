------------------------------ MODULE UserProofs ------------------------------
(***************************************************************************)
(* What one user's updates meet on, for any number of them: serialization  *)
(* by the operation gate, what the two-step commands leave in the user's   *)
(* tables, the input the bot waits for, and its one-shot buttons.          *)
(***************************************************************************)
EXTENDS UserGate, UserSession, FavoriteLibrary, UserBlacklist, UserSettings,
    FiniteSetTheorems, SequenceTheorems, WellFoundedInduction, TLAPS

-----------------------------------------------------------------------------
(* The gate.                                                               *)

TypeOK ==
    /\ running \in BOOLEAN
    /\ registry \in Entries \cup {NoEntry}
    /\ references \in [Entries -> Int]
    /\ waiters \in [Entries -> Int]
    /\ held \in [Entries -> BOOLEAN]
    /\ sleepers \in [Entries -> Seq(Tasks)]
    /\ task \in [Tasks -> {"idle", "asleep", "notified", "holding"}]
    /\ on \in [Tasks -> Entries \cup {NoEntry}]

Waiting(e) == {t \in On(e) : task[t] # "holding"}

\* An entry counts the tasks that are on it; a task is on one while it is not
\* idle.
Counted ==
    /\ \A t \in Tasks : task[t] = "idle" <=> on[t] = NoEntry
    /\ \A e \in Entries :
          /\ references[e] = Cardinality(On(e))
          /\ waiters[e] = Cardinality(Waiting(e))
          /\ held[e] <=> \E t \in On(e) : task[t] = "holding"

\* Who is in the queue of an entry sleeps on it, and is there once.
Queued ==
    \A e \in Entries :
        /\ \A i \in 1..Len(sleepers[e]) :
              task[sleepers[e][i]] = "asleep" /\ on[sleepers[e][i]] = e
        /\ \A i, j \in 1..Len(sleepers[e]) : sleepers[e][i] = sleepers[e][j] => i = j

GateInv == TypeOK /\ Counted /\ Queued /\ RegistryExact /\ Serialized

LEMMA OneMore ==
    ASSUME NEW S, S \subseteq Tasks, NEW t \in Tasks
    PROVE  /\ Cardinality(S) \in Nat
           /\ Cardinality(S) = 0 <=> S = {}
           /\ t \notin S => Cardinality(S \cup {t}) = Cardinality(S) + 1
           /\ t \in S => Cardinality(S \ {t}) = Cardinality(S) - 1
<1>1. IsFiniteSet(S)
  BY GateAssumption, FS_Subset
<1>2. QED
  BY <1>1, FS_EmptySet, FS_CardinalityType, FS_AddElement, FS_RemoveElement

\* What leaves a queue leaves the others in it, in their order.
LEMMA WithoutOne ==
    ASSUME NEW q \in Seq(Tasks), NEW t \in Tasks,
           \A i, j \in 1..Len(q) : q[i] = q[j] => i = j
    PROVE  /\ Without(q, t) \in Seq(Tasks)
           /\ \A k \in 1..Len(Without(q, t)) :
                 /\ Without(q, t)[k] # t
                 /\ \E j \in 1..Len(q) : Without(q, t)[k] = q[j]
           /\ \A k, l \in 1..Len(Without(q, t)) :
                 Without(q, t)[k] = Without(q, t)[l] => k = l
<1>1. CASE \A j \in 1..Len(q) : q[j] # t
  BY <1>1 DEF Without
<1>2. CASE \E j \in 1..Len(q) : q[j] = t
  <2> DEFINE i == CHOOSE j \in 1..Len(q) : q[j] = t
             r == [j \in 1..(Len(q) - 1) |-> IF j < i THEN q[j] ELSE q[j + 1]]
  <2>1. i \in 1..Len(q) /\ q[i] = t
    BY <1>2
  <2>2. Without(q, t) = r
    BY <1>2 DEF Without
  <2> HIDE DEF i
  <2>3. Len(q) - 1 \in Nat /\ \A j \in 1..(Len(q) - 1) : r[j] \in Tasks
    BY <2>1
  <2>4. r \in Seq(Tasks) /\ Len(r) = Len(q) - 1
    BY <2>3
  <2>5. QED
    BY <2>1, <2>2, <2>4
<1>3. QED
  BY <1>1, <1>2

LEMMA GateInit == Init => GateInv
<1> SUFFICES ASSUME Init PROVE GateInv
  OBVIOUS
<1> USE GateAssumption DEF Init
<1>1. TypeOK
  BY DEF TypeOK
<1>2. \A e \in Entries : On(e) = {} /\ Waiting(e) = {}
  BY DEF On, Waiting
<1>3. Counted
  BY <1>2, FS_EmptySet DEF Counted
<1>4. Queued /\ RegistryExact /\ Serialized
  BY DEF Queued, RegistryExact, Serialized
<1>5. QED
  BY <1>1, <1>3, <1>4 DEF GateInv

LEMMA GateEnter ==
    ASSUME GateInv, NEW t \in Tasks, Enter(t)
    PROVE  GateInv'
<1>1. PICK e \in Entries :
          /\ Entry(e)
          /\ registry' = e
          /\ on' = [on EXCEPT ![t] = e]
          /\ references' = [references EXCEPT ![e] = @ + 1]
          /\ \/ /\ held[e]
                /\ waiters' = [waiters EXCEPT ![e] = @ + 1]
                /\ sleepers' = [sleepers EXCEPT ![e] = Append(@, t)]
                /\ task' = [task EXCEPT ![t] = "asleep"]
                /\ UNCHANGED held
             \/ /\ ~held[e]
                /\ held' = [held EXCEPT ![e] = TRUE]
                /\ task' = [task EXCEPT ![t] = "holding"]
                /\ UNCHANGED <<waiters, sleepers>>
  BY DEF Enter
<1> USE GateAssumption
<1>2. task[t] = "idle" /\ on[t] = NoEntry /\ UNCHANGED running
  BY DEF Enter, GateInv, Counted
<1>3. TypeOK'
  <2>1. /\ running' \in BOOLEAN /\ registry' \in Entries \cup {NoEntry}
        /\ references' \in [Entries -> Int]
        /\ on' \in [Tasks -> Entries \cup {NoEntry}]
    BY <1>1, <1>2 DEF GateInv, TypeOK
  <2>2. CASE held[e]
    <3> waiters' = [waiters EXCEPT ![e] = @ + 1] /\ held' = held
        /\ task' = [task EXCEPT ![t] = "asleep"]
      BY <1>1, <2>2
    <3>1. /\ waiters' \in [Entries -> Int] /\ held' \in [Entries -> BOOLEAN]
          /\ task' \in [Tasks -> {"idle", "asleep", "notified", "holding"}]
      BY DEF GateInv, TypeOK
    <3>2. sleepers \in [Entries -> Seq(Tasks)] /\ Append(sleepers[e], t) \in Seq(Tasks)
      BY DEF GateInv, TypeOK
    <3>3. sleepers' \in [Entries -> Seq(Tasks)]
      BY <1>1, <2>2, <3>2
    <3>4. QED
      BY <2>1, <3>1, <3>3 DEF TypeOK
  <2>3. CASE ~held[e]
    BY <1>1, <2>1, <2>3 DEF GateInv, TypeOK
  <2>4. QED
    BY <2>2, <2>3
<1>4. \A u \in Tasks : u # t => on[u] \in {NoEntry, e}
  BY <1>1 DEF GateInv, RegistryExact, Entry, Fresh
<1>5. /\ On(e)' = On(e) \cup {t}
      /\ t \notin On(e)
      /\ \A d \in Entries : d # e => On(d)' = On(d)
  BY <1>1, <1>2 DEF On, GateInv, TypeOK
<1>6. \A d \in Entries : references'[d] = Cardinality(On(d)')
  <2>1. On(e) \subseteq Tasks
    BY DEF On
  <2>2. Cardinality(On(e)') = Cardinality(On(e)) + 1
    BY <2>1, <1>5, OneMore
  <2>3. QED
    <3>1. references[e] = Cardinality(On(e)) /\ references'[e] = references[e] + 1
      BY <1>1 DEF GateInv, Counted, TypeOK
    <3>2. \A d \in Entries : d # e =>
             references'[d] = references[d] /\ references[d] = Cardinality(On(d))
      BY <1>1 DEF GateInv, Counted, TypeOK
    <3>3. QED
      BY <2>2, <1>5, <3>1, <3>2
<1>7. CASE held[e]
  <2>1. /\ waiters' = [waiters EXCEPT ![e] = @ + 1]
        /\ sleepers' = [sleepers EXCEPT ![e] = Append(@, t)]
        /\ task' = [task EXCEPT ![t] = "asleep"]
        /\ held' = held
    BY <1>1, <1>7
  <2>2. /\ Waiting(e)' = Waiting(e) \cup {t}
        /\ t \notin Waiting(e)
        /\ Waiting(e) \subseteq Tasks
        /\ \A d \in Entries : d # e => Waiting(d)' = Waiting(d)
    BY <2>1, <1>5, <1>2 DEF Waiting, On, GateInv, TypeOK
  <2>3. \A d \in Entries : waiters'[d] = Cardinality(Waiting(d)')
    <3>1. Cardinality(Waiting(e)') = Cardinality(Waiting(e)) + 1
      BY <2>2, OneMore
    <3>2. QED
      <4>1. waiters[e] = Cardinality(Waiting(e)) /\ waiters'[e] = waiters[e] + 1
        BY <2>1 DEF GateInv, Counted, TypeOK
      <4>2. \A d \in Entries : d # e =>
               waiters'[d] = waiters[d] /\ waiters[d] = Cardinality(Waiting(d))
        BY <2>1 DEF GateInv, Counted, TypeOK
      <4>3. QED
        BY <3>1, <2>2, <4>1, <4>2
  <2>4. \A d \in Entries : held'[d] <=> \E u \in On(d)' : task'[u] = "holding"
    <3>1. \A u \in Tasks : task'[u] = "holding" <=> task[u] = "holding"
      BY <2>1, <1>2 DEF GateInv, TypeOK
    <3>2. \A d \in Entries : \A u \in On(d) : u \in Tasks
      BY DEF On
    <3>3. task'[t] # "holding"
      BY <3>1, <1>2
    <3>4. \A d \in Entries : held[d] <=> \E u \in On(d) : task[u] = "holding"
      BY DEF GateInv, Counted
    <3>5. QED
      BY <2>1, <1>5, <3>1, <3>2, <3>3, <3>4
  <2>5. \A u \in Tasks : task'[u] = "idle" <=> on'[u] = NoEntry
    BY <2>1, <1>1, <1>2 DEF GateInv, Counted, TypeOK
  <2>6. Queued'
    BY <2>1, <1>1, <1>2 DEF GateInv, Queued, TypeOK
  <2>7. RegistryExact'
    BY <1>1, <1>4, <1>5 DEF RegistryExact, GateInv, TypeOK
  <2>8. Serialized'
    BY <2>1, <1>2 DEF Serialized, GateInv, TypeOK
  <2>9. QED
    BY <1>3, <1>6, <2>3, <2>4, <2>5, <2>6, <2>7, <2>8 DEF GateInv, Counted
<1>8. CASE ~held[e]
  <2>1. /\ held' = [held EXCEPT ![e] = TRUE]
        /\ task' = [task EXCEPT ![t] = "holding"]
        /\ waiters' = waiters /\ sleepers' = sleepers
    BY <1>1, <1>8
  <2>2. \A d \in Entries : Waiting(d)' = Waiting(d)
    BY <2>1, <1>1, <1>2, <1>5 DEF Waiting, On, GateInv, TypeOK
  <2>3. \A d \in Entries : waiters'[d] = Cardinality(Waiting(d)')
    BY <2>1, <2>2 DEF GateInv, Counted
  <2>4. \A d \in Entries : held'[d] <=> \E u \in On(d)' : task'[u] = "holding"
    <3>1. \A u \in Tasks : u # t => task'[u] = task[u]
      BY <2>1 DEF GateInv, TypeOK
    <3>2. task'[t] = "holding" /\ held'[e]
      BY <2>1 DEF GateInv, TypeOK
    <3>3. \A d \in Entries : d # e => t \notin On(d) /\ held'[d] = held[d]
      BY <1>2, <2>1 DEF On, GateInv, TypeOK, GateAssumption
    <3>4. \A d \in Entries : \A u \in On(d) : u \in Tasks
      BY DEF On
    <3>5. \A d \in Entries : held[d] <=> \E u \in On(d) : task[u] = "holding"
      BY DEF GateInv, Counted
    <3>6. QED
      BY <1>5, <3>1, <3>2, <3>3, <3>4, <3>5
  <2>5. \A u \in Tasks : task'[u] = "idle" <=> on'[u] = NoEntry
    BY <2>1, <1>1, <1>2 DEF GateInv, Counted, TypeOK
  <2>6. Queued'
    BY <2>1, <1>1, <1>2 DEF GateInv, Queued, TypeOK
  <2>7. RegistryExact'
    BY <1>1, <1>4, <1>5 DEF RegistryExact, GateInv, TypeOK
  <2>8. \A u \in Tasks : u # t => task[u] # "holding"
    BY <1>4, <1>8 DEF GateInv, Counted, On
  <2>9. Serialized'
    BY <2>1, <2>8 DEF Serialized, GateInv, TypeOK
  <2>10. QED
    BY <1>3, <1>6, <2>3, <2>4, <2>5, <2>6, <2>7, <2>9 DEF GateInv, Counted
<1>9. QED
  BY <1>7, <1>8

\* A task leaves its entry, which goes with the last of them.
LEMMA LeavesEntry ==
    ASSUME GateInv, NEW t \in Tasks, NEW e \in Entries, on[t] = e,
           NEW wait, NEW hold, Leave(t, wait, hold),
           On(e) = {t} => wait[e] = 0 /\ ~hold[e]
    PROVE  /\ waiters' = wait /\ held' = hold
           /\ on' = [on EXCEPT ![t] = NoEntry]
           /\ registry' \in Entries \cup {NoEntry}
           /\ references' \in [Entries -> Int]
           /\ t \in On(e) /\ On(e)' = On(e) \ {t}
           /\ \A d \in Entries : d # e => t \notin On(d) /\ On(d)' = On(d)
           /\ \A d \in Entries : references'[d] = Cardinality(On(d)')
           /\ RegistryExact'
<1> USE GateAssumption
<1>1. /\ references' = [references EXCEPT ![e] = @ - 1]
      /\ waiters' = wait /\ held' = hold
      /\ registry' = IF Dropped(e, references', wait, hold) /\ registry = e
                     THEN NoEntry ELSE registry
      /\ on' = [on EXCEPT ![t] = NoEntry]
  BY DEF Leave
<1>2. e = registry /\ t \in On(e)
  BY DEF GateInv, TypeOK, RegistryExact, On
<1>3. /\ On(e)' = On(e) \ {t}
      /\ \A d \in Entries : d # e => t \notin On(d) /\ On(d)' = On(d)
  BY <1>1, <1>2 DEF On, GateInv, TypeOK
<1>4. /\ references' \in [Entries -> Int]
      /\ registry' \in Entries \cup {NoEntry}
  BY <1>1, <1>2 DEF GateInv, TypeOK
<1>5. On(e) \subseteq Tasks /\ On(e)' \subseteq Tasks
  BY <1>3 DEF On
<1>6. \A d \in Entries : references'[d] = Cardinality(On(d)')
  <2>1. Cardinality(On(e)') = Cardinality(On(e)) - 1
    BY <1>2, <1>3, <1>5, OneMore
  <2>2. QED
    <3>1. references[e] = Cardinality(On(e)) /\ references'[e] = references[e] - 1
      BY <1>1 DEF GateInv, Counted, TypeOK
    <3>2. \A d \in Entries : d # e =>
             references'[d] = references[d] /\ references[d] = Cardinality(On(d))
      BY <1>1 DEF GateInv, Counted, TypeOK
    <3>3. QED
      BY <2>1, <1>3, <3>1, <3>2
<1>7. references'[e] = 0 <=> On(e)' = {}
  BY <1>5, <1>6, OneMore
<1>8. On(e)' = {} => registry' = NoEntry
  BY <1>1, <1>2, <1>3, <1>7 DEF Dropped
<1>9. On(e)' # {} => registry' = e
  BY <1>1, <1>2, <1>7 DEF Dropped
<1>10. \A u \in Tasks : on[u] \in {NoEntry, e}
  BY <1>2 DEF GateInv, RegistryExact
<1>11. \A u \in Tasks : on'[u] = e <=> u \in On(e)'
  BY DEF On
<1>12. \A u \in Tasks : on'[u] \in {NoEntry, e}
  BY <1>1, <1>10 DEF GateInv, TypeOK
<1>13. RegistryExact'
  BY <1>8, <1>9, <1>11, <1>12 DEF RegistryExact
<1>14. QED
  BY <1>1, <1>2, <1>3, <1>4, <1>6, <1>13

\* A task that waits leaves: it was cancelled, or finds the gate closed.
LEMMA GivesUp ==
    ASSUME GateInv, NEW t \in Tasks, NEW e \in Entries, on[t] = e,
           task[t] \in {"asleep", "notified"},
           Leave(t, OneWaiterLess(e), held),
           task' = [task EXCEPT ![t] = "idle"],
           sleepers' = [sleepers EXCEPT ![e] = Without(@, t)],
           UNCHANGED running
    PROVE  GateInv'
<1> USE GateAssumption
<1>1. t \in Waiting(e) /\ Waiting(e) \subseteq On(e) /\ On(e) \subseteq Tasks
  BY DEF Waiting, On
<1>2. \A d \in Entries : waiters[d] = Cardinality(Waiting(d)) /\ waiters[d] \in Int
  BY DEF GateInv, Counted, TypeOK
<1>3. On(e) = {t} => OneWaiterLess(e)[e] = 0 /\ ~held[e]
  <2> SUFFICES ASSUME On(e) = {t} PROVE OneWaiterLess(e)[e] = 0 /\ ~held[e]
    OBVIOUS
  <2>1. Waiting(e) = {t}
    BY <1>1
  <2>2. waiters[e] = 1
    BY <1>2, <2>1, FS_Singleton
  <2>3. ~held[e]
    BY DEF GateInv, Counted
  <2>4. QED
    BY <2>2, <2>3 DEF OneWaiterLess, GateInv, TypeOK
<1>4. /\ waiters' = OneWaiterLess(e) /\ held' = held
      /\ on' = [on EXCEPT ![t] = NoEntry]
      /\ registry' \in Entries \cup {NoEntry}
      /\ references' \in [Entries -> Int]
      /\ t \in On(e) /\ On(e)' = On(e) \ {t}
      /\ \A d \in Entries : d # e => t \notin On(d) /\ On(d)' = On(d)
      /\ \A d \in Entries : references'[d] = Cardinality(On(d)')
      /\ RegistryExact'
  BY <1>3, LeavesEntry
<1>5. \A u \in Tasks : /\ u # t => task'[u] = task[u] /\ on'[u] = on[u]
                       /\ u = t => task'[u] = "idle" /\ on'[u] = NoEntry
  BY <1>4 DEF GateInv, TypeOK
<1>6. /\ Waiting(e)' = Waiting(e) \ {t}
      /\ \A d \in Entries : d # e => Waiting(d)' = Waiting(d)
  <2>1. \A d \in Entries : On(d) \subseteq Tasks
    BY DEF On
  <2>2. QED
    BY <2>1, <1>4, <1>5 DEF Waiting
<1>7. \A d \in Entries : waiters'[d] = Cardinality(Waiting(d)')
  <2>1. Cardinality(Waiting(e)') = Cardinality(Waiting(e)) - 1
    BY <1>1, <1>6, OneMore
  <2>2. waiters'[e] = waiters[e] - 1 /\ \A d \in Entries : d # e => waiters'[d] = waiters[d]
    BY <1>4 DEF OneWaiterLess, GateInv, TypeOK
  <2>3. QED
    BY <1>2, <1>6, <2>1, <2>2
<1>8. \A d \in Entries : held'[d] <=> \E u \in On(d)' : task'[u] = "holding"
  <2>1. \A d \in Entries : held[d] <=> \E u \in On(d) : task[u] = "holding"
    BY DEF GateInv, Counted
  <2>2. \A d \in Entries : \A u \in On(d) : u \in Tasks
    BY DEF On
  <2>3. QED
    BY <1>4, <1>5, <2>1, <2>2
<1>9. Counted'
  <2>1. \A u \in Tasks : task'[u] = "idle" <=> on'[u] = NoEntry
    BY <1>5 DEF GateInv, Counted
  <2>2. QED
    BY <2>1, <1>4, <1>7, <1>8 DEF Counted
<1>10. /\ Without(sleepers[e], t) \in Seq(Tasks)
       /\ \A k \in 1..Len(Without(sleepers[e], t)) :
              /\ Without(sleepers[e], t)[k] # t
              /\ \E j \in 1..Len(sleepers[e]) :
                    Without(sleepers[e], t)[k] = sleepers[e][j]
       /\ \A k, l \in 1..Len(Without(sleepers[e], t)) :
              Without(sleepers[e], t)[k] = Without(sleepers[e], t)[l] => k = l
  <2>1. /\ sleepers[e] \in Seq(Tasks)
        /\ \A i, j \in 1..Len(sleepers[e]) : sleepers[e][i] = sleepers[e][j] => i = j
    BY DEF GateInv, TypeOK, Queued
  <2>2. QED
    BY <2>1, WithoutOne
<1>11. TypeOK'
  BY <1>4, <1>10 DEF GateInv, TypeOK, OneWaiterLess
<1>12. /\ sleepers'[e] = Without(sleepers[e], t)
       /\ \A d \in Entries : d # e => sleepers'[d] = sleepers[d]
  BY DEF GateInv, TypeOK
<1>13. Queued'
  <2> SUFFICES ASSUME NEW d \in Entries
               PROVE  /\ \A i \in 1..Len(sleepers'[d]) :
                           task'[sleepers'[d][i]] = "asleep" /\ on'[sleepers'[d][i]] = d
                      /\ \A i, j \in 1..Len(sleepers'[d]) :
                           sleepers'[d][i] = sleepers'[d][j] => i = j
    BY DEF Queued
  <2>1. /\ sleepers[d] \in Seq(Tasks)
        /\ \A i \in 1..Len(sleepers[d]) :
             task[sleepers[d][i]] = "asleep" /\ on[sleepers[d][i]] = d
        /\ \A i, j \in 1..Len(sleepers[d]) : sleepers[d][i] = sleepers[d][j] => i = j
    BY DEF GateInv, TypeOK, Queued
  <2>2. CASE d = e
    <3> DEFINE q == Without(sleepers[e], t)
    <3>1. sleepers'[d] = q
      BY <2>2, <1>12
    <3>2. /\ q \in Seq(Tasks)
          /\ \A k \in 1..Len(q) :
                q[k] # t /\ \E j \in 1..Len(sleepers[e]) : q[k] = sleepers[e][j]
          /\ \A k, l \in 1..Len(q) : q[k] = q[l] => k = l
      BY <1>10
    <3> HIDE DEF q
    <3>3. \A k \in 1..Len(q) : task'[q[k]] = "asleep" /\ on'[q[k]] = d
      <4> SUFFICES ASSUME NEW k \in 1..Len(q)
                   PROVE  task'[q[k]] = "asleep" /\ on'[q[k]] = d
        OBVIOUS
      <4>1. PICK j \in 1..Len(sleepers[e]) : q[k] = sleepers[e][j]
        BY <3>2
      <4>2. q[k] # t /\ q[k] \in Tasks
        BY <3>2
      <4>3. task[q[k]] = "asleep" /\ on[q[k]] = d
        BY <2>1, <2>2, <4>1
      <4>4. QED
        BY <4>2, <4>3, <1>5
    <3>4. \A i \in 1..Len(sleepers'[d]) :
             task'[sleepers'[d][i]] = "asleep" /\ on'[sleepers'[d][i]] = d
      BY <3>1, <3>3, Zenon
    <3>5. \A i, j \in 1..Len(sleepers'[d]) :
             sleepers'[d][i] = sleepers'[d][j] => i = j
      <4>1. \A k, l \in 1..Len(q) : q[k] = q[l] => k = l
        BY <3>2
      <4>2. QED
        BY <3>1, <4>1
    <3>6. QED
      BY <3>4, <3>5, Zenon
  <2>3. CASE d # e
    <3>1. \A i \in 1..Len(sleepers[d]) : sleepers[d][i] \in Tasks /\ sleepers[d][i] # t
      BY <2>1, <2>3
    <3>2. QED
      BY <2>1, <2>3, <1>5, <1>12, <3>1
  <2>4. QED
    BY <2>2, <2>3
<1>14. Serialized'
  BY <1>5 DEF Serialized, GateInv
<1>15. QED
  BY <1>4, <1>9, <1>11, <1>13, <1>14 DEF GateInv

LEMMA GateCancel ==
    ASSUME GateInv, NEW t \in Tasks, Cancel(t)
    PROVE  GateInv'
<1>1. on[t] \in Entries
  BY GateAssumption DEF Cancel, GateInv, Counted, TypeOK
<1>2. QED
  BY <1>1, GivesUp DEF Cancel

LEMMA GateWake ==
    ASSUME GateInv, NEW t \in Tasks, Wake(t)
    PROVE  GateInv'
<1> USE GateAssumption
<1>0. PICK e \in Entries : e = on[t]
  BY DEF Wake, GateInv, Counted, TypeOK
<1>1. task[t] = "notified" /\ UNCHANGED running /\ e \in Entries /\ on[t] = e
  BY <1>0 DEF Wake, GateInv, Counted, TypeOK
<1>2. /\ sleepers \in [Entries -> Seq(Tasks)]
      /\ \A d \in Entries :
           /\ sleepers[d] \in Seq(Tasks)
           /\ \A i \in 1..Len(sleepers[d]) :
                sleepers[d][i] # t /\ task[sleepers[d][i]] = "asleep" /\ on[sleepers[d][i]] = d
           /\ \A i, j \in 1..Len(sleepers[d]) : sleepers[d][i] = sleepers[d][j] => i = j
  BY <1>1 DEF GateInv, TypeOK, Queued
<1>3. CASE /\ sleepers' = [sleepers EXCEPT ![e] = Append(@, t)]
           /\ task' = [task EXCEPT ![t] = "asleep"]
           /\ UNCHANGED <<registry, references, waiters, held, on>>
  <2>1. Append(sleepers[e], t) \in Seq(Tasks)
    BY <1>1, <1>2
  <2>2. TypeOK'
    BY <1>1, <1>3, <2>1 DEF GateInv, TypeOK
  <2>3. \A u \in Tasks : /\ u # t => task'[u] = task[u]
                         /\ u = t => task'[u] = "asleep"
    BY <1>3 DEF GateInv, TypeOK
  <2>4. \A d \in Entries : On(d)' = On(d) /\ \A u \in On(d) : u \in Tasks
    BY <1>3 DEF On
  <2>5. \A d \in Entries : Waiting(d)' = Waiting(d)
    BY <1>1, <2>3, <2>4 DEF Waiting
  <2>6. Counted'
    BY <1>1, <1>3, <2>3, <2>4, <2>5 DEF Counted, GateInv
  <2>7. Queued'
    <3>1. /\ Len(sleepers'[e]) = Len(sleepers[e]) + 1
          /\ sleepers'[e][Len(sleepers[e]) + 1] = t
          /\ \A i \in 1..Len(sleepers[e]) : sleepers'[e][i] = sleepers[e][i]
          /\ \A d \in Entries : d # e => sleepers'[d] = sleepers[d]
      BY <1>1, <1>2, <1>3
    <3>2. \A d \in Entries : \A i \in 1..Len(sleepers[d]) : sleepers[d][i] \in Tasks
      BY <1>2
    <3>3. Len(sleepers[e]) \in Nat /\ on' = on
      BY <1>1, <1>2, <1>3
    <3>4. \A i \in 1..Len(sleepers'[e]) :
             i = Len(sleepers[e]) + 1 \/ i \in 1..Len(sleepers[e])
      BY <3>1, <3>3
    <3>5. \A i \in 1..Len(sleepers'[e]) :
             task'[sleepers'[e][i]] = "asleep" /\ on'[sleepers'[e][i]] = e
      BY <3>1, <3>2, <3>3, <3>4, <2>3, <1>1, <1>2
    <3>6. \A i, j \in 1..Len(sleepers'[e]) : sleepers'[e][i] = sleepers'[e][j] => i = j
      BY <3>1, <3>3, <3>4, <1>1, <1>2
    <3>7. \A d \in Entries : d # e =>
             /\ \A i \in 1..Len(sleepers'[d]) :
                   task'[sleepers'[d][i]] = "asleep" /\ on'[sleepers'[d][i]] = d
             /\ \A i, j \in 1..Len(sleepers'[d]) : sleepers'[d][i] = sleepers'[d][j] => i = j
      <4> SUFFICES ASSUME NEW d \in Entries, d # e
                   PROVE  /\ \A i \in 1..Len(sleepers[d]) :
                               task'[sleepers[d][i]] = "asleep" /\ on[sleepers[d][i]] = d
                          /\ \A i, j \in 1..Len(sleepers[d]) :
                               sleepers[d][i] = sleepers[d][j] => i = j
        BY <3>1, <3>3
      <4>1. QED
        BY <3>2, <2>3, <1>2
    <3>8. QED
      BY <3>5, <3>6, <3>7 DEF Queued
  <2>8. RegistryExact' /\ Serialized'
    BY <1>3, <2>3, <2>4 DEF RegistryExact, Serialized, GateInv, On
  <2>9. QED
    BY <2>2, <2>6, <2>7, <2>8 DEF GateInv
<1>4. CASE /\ task' = [task EXCEPT ![t] = "idle"]
           /\ Leave(t, OneWaiterLess(e), held)
           /\ UNCHANGED sleepers
  <2>1. Without(sleepers[e], t) = sleepers[e]
    BY <1>1, <1>2 DEF Without
  <2>2. sleepers' = [sleepers EXCEPT ![e] = Without(@, t)]
    BY <1>2, <1>4, <2>1
  <2>3. QED
    BY <1>1, <1>4, <2>2, GivesUp
<1>5. CASE /\ ~held[e]
           /\ waiters' = OneWaiterLess(e)
           /\ held' = [held EXCEPT ![e] = TRUE]
           /\ task' = [task EXCEPT ![t] = "holding"]
           /\ UNCHANGED <<registry, references, sleepers, on>>
  <2>1. TypeOK'
    BY <1>1, <1>5 DEF GateInv, TypeOK, OneWaiterLess
  <2>2. \A u \in Tasks : /\ u # t => task'[u] = task[u]
                         /\ u = t => task'[u] = "holding"
    BY <1>5 DEF GateInv, TypeOK
  <2>3. \A d \in Entries : On(d)' = On(d) /\ On(d) \subseteq Tasks
    BY <1>5 DEF On
  <2>4. /\ t \in On(e) /\ t \in Waiting(e) /\ Waiting(e) \subseteq Tasks
        /\ \A d \in Entries : d # e => t \notin On(d)
    BY <1>1 DEF On, Waiting
  <2>5. /\ Waiting(e)' = Waiting(e) \ {t}
        /\ \A d \in Entries : d # e => Waiting(d)' = Waiting(d)
    BY <2>2, <2>3, <2>4 DEF Waiting
  <2>6. \A d \in Entries : waiters'[d] = Cardinality(Waiting(d)')
    <3>1. Cardinality(Waiting(e)') = Cardinality(Waiting(e)) - 1
      BY <2>4, <2>5, OneMore
    <3>2. /\ waiters'[e] = waiters[e] - 1
          /\ \A d \in Entries : d # e => waiters'[d] = waiters[d]
          /\ \A d \in Entries : waiters[d] = Cardinality(Waiting(d))
      BY <1>1, <1>5 DEF OneWaiterLess, GateInv, TypeOK, Counted
    <3>3. QED
      BY <1>1, <2>5, <3>1, <3>2
  <2>7. \A d \in Entries : held'[d] <=> \E u \in On(d)' : task'[u] = "holding"
    <3>1. \A d \in Entries : held[d] <=> \E u \in On(d) : task[u] = "holding"
      BY DEF GateInv, Counted
    <3>2. held'[e] /\ \A d \in Entries : d # e => held'[d] = held[d]
      BY <1>1, <1>5 DEF GateInv, TypeOK
    <3>3. QED
      BY <1>1, <2>2, <2>3, <2>4, <3>1, <3>2
  <2>8. Counted'
    <3>1. \A u \in Tasks : task'[u] = "idle" <=> on'[u] = NoEntry
      BY <1>1, <1>5, <2>2 DEF Counted, GateInv
    <3>2. \A d \in Entries : references'[d] = Cardinality(On(d)')
      BY <1>5, <2>3 DEF Counted, GateInv
    <3>3. QED
      BY <2>6, <2>7, <3>1, <3>2 DEF Counted
  <2>9. Queued'
    <3>1. \A d \in Entries : \A i \in 1..Len(sleepers[d]) : sleepers[d][i] \in Tasks
      BY <1>2
    <3>2. \A d \in Entries : \A i \in 1..Len(sleepers[d]) :
             task'[sleepers[d][i]] = "asleep" /\ on'[sleepers[d][i]] = d
      BY <1>2, <1>5, <2>2, <3>1
    <3>3. \A d \in Entries : \A i, j \in 1..Len(sleepers[d]) :
             sleepers[d][i] = sleepers[d][j] => i = j
      BY <1>2
    <3>4. sleepers' = sleepers
      BY <1>5
    <3>5. QED
      BY <3>2, <3>3, <3>4 DEF Queued
  <2>10. \A u \in Tasks : task[u] # "holding"
    <3>1. \A u \in Tasks : on[u] \in {NoEntry, e}
      BY <1>1 DEF GateInv, RegistryExact
    <3>2. \A u \in Tasks : task[u] = "holding" => u \in On(e)
      BY <3>1 DEF On, GateInv, Counted
    <3>3. QED
      BY <1>1, <1>5, <3>2 DEF GateInv, Counted
  <2>11. RegistryExact' /\ Serialized'
    BY <1>5, <2>2, <2>3, <2>10 DEF RegistryExact, Serialized, GateInv, On
  <2>12. QED
    BY <2>1, <2>8, <2>9, <2>11 DEF GateInv
<1>6. QED
  BY <1>0, <1>3, <1>4, <1>5 DEF Wake

LEMMA GateRelease ==
    ASSUME GateInv, NEW t \in Tasks, Release(t)
    PROVE  GateInv'
<1> USE GateAssumption
<1>0. PICK e \in Entries : e = on[t]
  BY DEF Release, GateInv, Counted, TypeOK
<1>1. /\ task[t] = "holding" /\ UNCHANGED running
      /\ Leave(t, waiters, [held EXCEPT ![e] = FALSE])
      /\ NotifyOne(e)
  BY <1>0 DEF Release
<1>2. /\ \A d \in Entries : On(d) \subseteq Tasks
      /\ t \in On(e)
      /\ \A u \in Tasks : task[u] = "holding" => u = t
      /\ \A u \in Tasks : task[u] = "idle" <=> on[u] = NoEntry
  BY <1>0, <1>1 DEF On, GateInv, Serialized, Counted
<1>3. /\ sleepers \in [Entries -> Seq(Tasks)]
      /\ \A d \in Entries :
           /\ sleepers[d] \in Seq(Tasks)
           /\ \A i \in 1..Len(sleepers[d]) :
                sleepers[d][i] # t /\ task[sleepers[d][i]] = "asleep" /\ on[sleepers[d][i]] = d
           /\ \A i, j \in 1..Len(sleepers[d]) : sleepers[d][i] = sleepers[d][j] => i = j
  BY <1>1 DEF GateInv, TypeOK, Queued
<1>4. On(e) = {t} => waiters[e] = 0 /\ ~[held EXCEPT ![e] = FALSE][e]
  <2>1. On(e) = {t} => Waiting(e) = {}
    BY <1>1 DEF Waiting
  <2>2. waiters[e] = Cardinality(Waiting(e))
    BY DEF GateInv, Counted
  <2>3. ~[held EXCEPT ![e] = FALSE][e]
    BY DEF GateInv, TypeOK
  <2>4. QED
    BY <2>1, <2>2, <2>3, FS_EmptySet
<1>5. /\ waiters' = waiters /\ held' = [held EXCEPT ![e] = FALSE]
      /\ on' = [on EXCEPT ![t] = NoEntry]
      /\ registry' \in Entries \cup {NoEntry}
      /\ references' \in [Entries -> Int]
      /\ t \in On(e) /\ On(e)' = On(e) \ {t}
      /\ \A d \in Entries : d # e => t \notin On(d) /\ On(d)' = On(d)
      /\ \A d \in Entries : references'[d] = Cardinality(On(d)')
      /\ RegistryExact'
  BY <1>0, <1>1, <1>4, LeavesEntry
<1>6. task' = [u \in Tasks |->
         IF u = t THEN "idle"
         ELSE IF sleepers[e] # <<>> /\ u = Head(sleepers[e]) THEN "notified"
         ELSE task[u]]
  <2>1. \A u \in Tasks : (task[u] = "holding" /\ on[u] = e) <=> u = t
    BY <1>0, <1>1, <1>2
  <2>2. QED
    BY <1>1, <2>1 DEF NotifyOne
<1>7. sleepers[e] # <<>> =>
         /\ Head(sleepers[e]) = sleepers[e][1] /\ 1 \in 1..Len(sleepers[e])
         /\ Head(sleepers[e]) \in Tasks /\ Head(sleepers[e]) # t
         /\ task[Head(sleepers[e])] = "asleep"
  BY <1>3
<1>8. \A u \in Tasks :
        /\ u = t => task'[u] = "idle" /\ on'[u] = NoEntry
        /\ u # t => /\ on'[u] = on[u]
                    /\ task'[u] # "holding"
                    /\ task'[u] = "idle" <=> task[u] = "idle"
  BY <1>2, <1>5, <1>6, <1>7 DEF GateInv, TypeOK
<1>9. TypeOK'
  <2>1. task' \in [Tasks -> {"idle", "asleep", "notified", "holding"}]
    BY <1>6 DEF GateInv, TypeOK
  <2>2. sleepers' = [sleepers EXCEPT ![e] = IF @ = <<>> THEN @ ELSE Tail(@)]
    BY <1>1 DEF NotifyOne
  <2>3. (IF sleepers[e] = <<>> THEN sleepers[e] ELSE Tail(sleepers[e])) \in Seq(Tasks)
    BY <1>3
  <2>4. sleepers' \in [Entries -> Seq(Tasks)]
    BY <1>3, <2>2, <2>3
  <2>5. QED
    BY <1>1, <1>5, <2>1, <2>4 DEF TypeOK, GateInv
<1>10. Counted'
  <2>1. \A d \in Entries : Waiting(d)' = Waiting(d)
    <3>1. Waiting(e) = On(e) \ {t}
      BY <1>1, <1>2 DEF Waiting
    <3>2. Waiting(e)' = On(e) \ {t}
      BY <1>2, <1>5, <1>8 DEF Waiting
    <3>3. \A d \in Entries : d # e => Waiting(d) = On(d) /\ Waiting(d)' = On(d)
      BY <1>2, <1>5, <1>8 DEF Waiting
    <3>4. QED
      BY <3>1, <3>2, <3>3
  <2>2. \A d \in Entries : waiters'[d] = Cardinality(Waiting(d)')
    BY <1>5, <2>1 DEF GateInv, Counted
  <2>3. \A d \in Entries : held'[d] <=> \E u \in On(d)' : task'[u] = "holding"
    <3>1. \A d \in Entries : \A u \in On(d)' : task'[u] # "holding"
      BY <1>2, <1>5, <1>8
    <3>2. \A d \in Entries : d # e => ~held[d]
      BY <1>2, <1>5 DEF GateInv, Counted
    <3>3. \A d \in Entries : ~held'[d]
      BY <1>5, <3>2 DEF GateInv, TypeOK
    <3>4. QED
      BY <3>1, <3>3
  <2>4. \A u \in Tasks : task'[u] = "idle" <=> on'[u] = NoEntry
    BY <1>2, <1>8
  <2>5. QED
    BY <1>5, <2>2, <2>3, <2>4 DEF Counted
<1>11. Queued'
  <2>1. /\ sleepers'[e] = IF sleepers[e] = <<>> THEN sleepers[e] ELSE Tail(sleepers[e])
        /\ \A d \in Entries : d # e => sleepers'[d] = sleepers[d]
    BY <1>1, <1>3 DEF NotifyOne
  <2>2. \A u \in Tasks : u # t /\ ~(sleepers[e] # <<>> /\ u = Head(sleepers[e]))
                          => task'[u] = task[u] /\ on'[u] = on[u]
    BY <1>6, <1>8
  <2>3. \A d \in Entries : d # e =>
           /\ \A i \in 1..Len(sleepers'[d]) :
                 task'[sleepers'[d][i]] = "asleep" /\ on'[sleepers'[d][i]] = d
           /\ \A i, j \in 1..Len(sleepers'[d]) : sleepers'[d][i] = sleepers'[d][j] => i = j
    <3> SUFFICES ASSUME NEW d \in Entries, d # e
                 PROVE  /\ \A i \in 1..Len(sleepers[d]) :
                             task'[sleepers[d][i]] = "asleep" /\ on'[sleepers[d][i]] = d
                        /\ \A i, j \in 1..Len(sleepers[d]) :
                             sleepers[d][i] = sleepers[d][j] => i = j
      BY <2>1
    <3>1. sleepers[e] # <<>> => on[Head(sleepers[e])] = e
      BY <1>3, <1>7
    <3>2. \A i \in 1..Len(sleepers[d]) : sleepers[d][i] \in Tasks
      BY <1>3
    <3>3. QED
      BY <1>3, <2>2, <3>1, <3>2
  <2>4. CASE sleepers[e] = <<>>
    <3>1. sleepers'[e] = <<>>
      BY <2>1, <2>4
    <3>2. QED
      BY <2>3, <3>1 DEF Queued
  <2>5. CASE sleepers[e] # <<>>
    <3> DEFINE q == sleepers[e]
               r == Tail(sleepers[e])
    <3>1. /\ q \in Seq(Tasks) /\ Len(q) \in Nat \ {0}
          /\ r \in Seq(Tasks) /\ Len(r) = Len(q) - 1
          /\ \A i \in 1..Len(r) : r[i] = q[i + 1] /\ i + 1 \in 1..Len(q)
      BY <1>3, <2>5
    <3>2. /\ \A i \in 1..Len(q) : q[i] \in Tasks /\ q[i] # t /\ task[q[i]] = "asleep" /\ on[q[i]] = e
          /\ \A i, j \in 1..Len(q) : q[i] = q[j] => i = j
      BY <1>3
    <3>3. sleepers'[e] = r /\ Head(q) = q[1] /\ 1 \in 1..Len(q)
      BY <1>7, <2>1, <2>5
    <3>4. \A u \in Tasks : u # t /\ u # Head(q) => task'[u] = task[u] /\ on'[u] = on[u]
      BY <2>2
    <3> HIDE DEF q, r
    <3>5. \A i \in 1..Len(r) : task'[r[i]] = "asleep" /\ on'[r[i]] = e
      BY <3>1, <3>2, <3>3, <3>4
    <3>6. \A i, j \in 1..Len(r) : r[i] = r[j] => i = j
      BY <3>1, <3>2
    <3>7. QED
      BY <2>3, <3>3, <3>5, <3>6 DEF Queued
  <2>6. QED
    BY <2>4, <2>5
<1>12. Serialized'
  BY <1>8 DEF Serialized
<1>13. QED
  BY <1>5, <1>9, <1>10, <1>11, <1>12 DEF GateInv

LEMMA GateShutdown ==
    ASSUME GateInv, Shutdown
    PROVE  GateInv'
<1> USE GateAssumption
<1>1. /\ \A d \in Entries : sleepers'[d] = IF d = registry THEN <<>> ELSE sleepers[d]
      /\ \A u \in Tasks : task'[u] = IF task[u] = "asleep" /\ on[u] = registry
                                     THEN "notified" ELSE task[u]
      /\ UNCHANGED <<registry, references, waiters, held, on>>
  BY DEF Shutdown
<1>2. TypeOK'
  <2>1. \A d \in Entries : sleepers'[d] \in Seq(Tasks)
    <3>1. <<>> \in Seq(Tasks) /\ \A d \in Entries : sleepers[d] \in Seq(Tasks)
      BY DEF GateInv, TypeOK
    <3>2. QED
      BY <1>1, <3>1
  <2>2. sleepers' \in [Entries -> Seq(Tasks)]
    BY <2>1 DEF Shutdown
  <2>3. task' \in [Tasks -> {"idle", "asleep", "notified", "holding"}]
        /\ running' \in BOOLEAN
    BY DEF Shutdown, GateInv, TypeOK
  <2>4. QED
    BY <1>1, <2>2, <2>3 DEF GateInv, TypeOK
<1>3. \A d \in Entries : On(d)' = On(d) /\ On(d) \subseteq Tasks
  BY <1>1 DEF On
<1>4. \A u \in Tasks : /\ task'[u] = "holding" <=> task[u] = "holding"
                       /\ task'[u] = "idle" <=> task[u] = "idle"
  BY <1>1
<1>5. \A d \in Entries : Waiting(d)' = Waiting(d)
  BY <1>3, <1>4 DEF Waiting
<1>6. Counted'
  <2>1. \A d \in Entries : held[d] <=> \E u \in On(d) : task[u] = "holding"
    BY DEF GateInv, Counted
  <2>2. \A d \in Entries : held'[d] <=> \E u \in On(d)' : task'[u] = "holding"
    BY <1>1, <1>3, <1>4, <2>1
  <2>3. /\ \A u \in Tasks : task'[u] = "idle" <=> on'[u] = NoEntry
        /\ \A d \in Entries : /\ references'[d] = Cardinality(On(d)')
                              /\ waiters'[d] = Cardinality(Waiting(d)')
    BY <1>1, <1>3, <1>4, <1>5 DEF GateInv, Counted
  <2>4. QED
    BY <2>2, <2>3 DEF Counted
<1>7. Queued'
  <2> SUFFICES ASSUME NEW d \in Entries
               PROVE  /\ \A i \in 1..Len(sleepers'[d]) :
                           task'[sleepers'[d][i]] = "asleep" /\ on'[sleepers'[d][i]] = d
                      /\ \A i, j \in 1..Len(sleepers'[d]) :
                           sleepers'[d][i] = sleepers'[d][j] => i = j
    BY DEF Queued
  <2>1. CASE d = registry
    BY <1>1, <2>1
  <2>2. CASE d # registry
    <3>1. /\ sleepers'[d] = sleepers[d] /\ on' = on
          /\ \A i \in 1..Len(sleepers[d]) : sleepers[d][i] \in Tasks
      BY <1>1, <2>2 DEF GateInv, TypeOK
    <3>2. /\ \A i \in 1..Len(sleepers[d]) :
               task[sleepers[d][i]] = "asleep" /\ on[sleepers[d][i]] = d
          /\ \A i, j \in 1..Len(sleepers[d]) : sleepers[d][i] = sleepers[d][j] => i = j
      BY DEF GateInv, Queued
    <3>3. QED
      BY <1>1, <2>2, <3>1, <3>2
  <2>3. QED
    BY <2>1, <2>2
<1>8. RegistryExact' /\ Serialized'
  <2>1. registry # NoEntry => registry \in Entries
    BY DEF GateInv, TypeOK
  <2>2. RegistryExact'
    BY <1>1, <1>3, <2>1 DEF RegistryExact, GateInv
  <2>3. QED
    BY <1>4, <2>2 DEF Serialized, GateInv
<1>9. QED
  BY <1>2, <1>6, <1>7, <1>8 DEF GateInv

LEMMA GateUnchanged ==
    ASSUME GateInv, running' \in BOOLEAN,
           UNCHANGED <<registry, entryVars, task, on>>
    PROVE  GateInv'
<1>1. /\ registry' = registry /\ references' = references /\ waiters' = waiters
      /\ held' = held /\ sleepers' = sleepers /\ task' = task /\ on' = on
  BY DEF entryVars
<1>2. TypeOK'
  BY <1>1 DEF GateInv, TypeOK
<1>3. \A e : On(e)' = On(e) /\ Waiting(e)' = Waiting(e)
  BY <1>1 DEF On, Waiting
<1>4. Counted'
  BY <1>1, <1>3 DEF GateInv, Counted
<1>5. Queued'
  BY <1>1 DEF GateInv, Queued
<1>6. RegistryExact' /\ Serialized'
  BY <1>1, <1>3 DEF GateInv, RegistryExact, Serialized
<1>7. QED
  BY <1>2, <1>4, <1>5, <1>6 DEF GateInv

THEOREM GateSafe == Spec => []GateInv
<1>1. GateInv /\ [Next]_vars => GateInv'
  <2> SUFFICES ASSUME GateInv, [Next]_vars PROVE GateInv'
    OBVIOUS
  <2>1. ASSUME NEW t \in Tasks, Enter(t) \/ Wake(t) \/ Cancel(t) \/ Release(t)
        PROVE  GateInv'
    BY <2>1, GateEnter, GateWake, GateCancel, GateRelease
  <2>2. CASE Shutdown
    BY <2>2, GateShutdown
  <2>3. CASE Start
    BY <2>3, GateUnchanged DEF Start
  <2>4. CASE UNCHANGED vars
    BY <2>4, GateUnchanged DEF vars, GateInv, TypeOK
  <2>5. QED
    BY <2>1, <2>2, <2>3, <2>4 DEF Next
<1>2. QED
  BY <1>1, GateInit, PTL DEF Spec

\* "User-scoped serialization" (user_gate.py): whatever the number of updates,
\* one at a time is inside, cancelled waiters and restarts of the gate included.
THEOREM OneInside == Spec => []Serialized
<1>1. GateInv => Serialized
  BY DEF GateInv
<1>2. QED
  BY <1>1, GateSafe, PTL

\* The registry forgets an entry with the last task on it and never before: no
\* two entries of one user are in use, and no unused one is kept.
THEOREM EntryWhileWanted == Spec => []RegistryExact
<1>1. GateInv => RegistryExact
  BY DEF GateInv
<1>2. QED
  BY <1>1, GateSafe, PTL

-----------------------------------------------------------------------------
(* Nobody is forgotten: who sleeps is in the queue of its entry, and a gate *)
(* that is free while somebody sleeps has lost a notification.              *)

Enqueued ==
    \A t \in Tasks : task[t] = "asleep" =>
        \E i \in 1..Len(sleepers[on[t]]) : sleepers[on[t]][i] = t

SleepInv == Enqueued /\ NoUnexplainedStranding

\* Who is not asleep is on no entry or on the registered one.
LEMMA AtTheGate ==
    ASSUME GateInv, NEW t \in Tasks, task[t] # "idle"
    PROVE  on[t] = registry /\ registry \in Entries
BY GateAssumption DEF GateInv, Counted, RegistryExact, TypeOK

LEMMA WithoutKeeps ==
    ASSUME NEW q \in Seq(Tasks), NEW t \in Tasks, NEW j \in 1..Len(q), q[j] # t
    PROVE  \E k \in 1..Len(Without(q, t)) : Without(q, t)[k] = q[j]
<1>1. CASE \A i \in 1..Len(q) : q[i] # t
  BY <1>1 DEF Without
<1>2. CASE \E i \in 1..Len(q) : q[i] = t
  <2> DEFINE i == CHOOSE x \in 1..Len(q) : q[x] = t
             r == [x \in 1..(Len(q) - 1) |-> IF x < i THEN q[x] ELSE q[x + 1]]
  <2>1. i \in 1..Len(q) /\ q[i] = t
    BY <1>2
  <2>2. Without(q, t) = r
    BY <1>2 DEF Without
  <2> HIDE DEF i
  <2>3. Len(q) - 1 \in Nat /\ \A x \in 1..(Len(q) - 1) : r[x] \in Tasks
    BY <2>1
  <2>4. r \in Seq(Tasks) /\ Len(r) = Len(q) - 1
    BY <2>3
  <2>5. CASE j < i
    <3>1. j \in 1..Len(r) /\ r[j] = q[j]
      BY <2>1, <2>4, <2>5
    <3>2. QED
      BY <2>2, <3>1
  <2>6. CASE j > i
    <3>1. j - 1 \in 1..Len(r) /\ r[j - 1] = q[j]
      BY <2>1, <2>4, <2>6
    <3>2. QED
      BY <2>2, <3>1
  <2>7. QED
    BY <2>1, <2>5, <2>6
<1>3. QED
  BY <1>1, <1>2

LEMMA SleepEnter ==
    ASSUME GateInv, SleepInv, NEW t \in Tasks, Enter(t)
    PROVE  SleepInv'
<1>1. PICK e \in Entries :
          /\ Entry(e)
          /\ on' = [on EXCEPT ![t] = e]
          /\ \/ /\ held[e]
                /\ sleepers' = [sleepers EXCEPT ![e] = Append(@, t)]
                /\ task' = [task EXCEPT ![t] = "asleep"]
             \/ /\ ~held[e]
                /\ task' = [task EXCEPT ![t] = "holding"]
                /\ sleepers' = sleepers
  BY DEF Enter
<1>2. task[t] = "idle" /\ running /\ running' = running
  BY DEF Enter
<1>3. /\ task'[t] \in {"asleep", "holding"} /\ on'[t] = e
      /\ \A u \in Tasks : u # t => task'[u] = task[u] /\ on'[u] = on[u]
  BY <1>1 DEF GateInv, TypeOK
<1>4. \E u \in Tasks : task'[u] = "holding"
  <2>1. held[e] => \E u \in Tasks : task[u] = "holding"
    BY DEF GateInv, Counted, On
  <2>2. QED
    BY <1>1, <1>2, <1>3, <2>1 DEF GateInv, TypeOK
<1>5. NoUnexplainedStranding'
  BY <1>2, <1>4 DEF NoUnexplainedStranding, Stranded
<1>6. Enqueued'
  <2> SUFFICES ASSUME NEW u \in Tasks, task'[u] = "asleep"
               PROVE  \E i \in 1..Len(sleepers'[on'[u]]) : sleepers'[on'[u]][i] = u
    BY DEF Enqueued
  <2>1. \A d \in Entries : sleepers[d] \in Seq(Tasks)
    BY DEF GateInv, TypeOK
  <2>2. CASE u = t
    <3>1. sleepers'[e] = Append(sleepers[e], t)
      BY <1>1, <1>3, <2>2 DEF GateInv, TypeOK
    <3>2. /\ Len(sleepers[e]) + 1 \in 1..Len(Append(sleepers[e], t))
          /\ Append(sleepers[e], t)[Len(sleepers[e]) + 1] = t
      BY <2>1
    <3>3. QED
      BY <1>3, <2>2, <3>1, <3>2
  <2>3. CASE u # t
    <3>1. task[u] = "asleep" /\ on'[u] = on[u] /\ on[u] \in Entries
      BY <1>3, <2>3, AtTheGate
    <3>2. PICK i \in 1..Len(sleepers[on[u]]) : sleepers[on[u]][i] = u
      BY <3>1 DEF SleepInv, Enqueued
    <3>3. \/ sleepers'[on[u]] = sleepers[on[u]]
          \/ sleepers'[on[u]] = Append(sleepers[on[u]], t)
      BY <1>1, <3>1 DEF GateInv, TypeOK
    <3>4. i \in 1..Len(Append(sleepers[on[u]], t)) /\ Append(sleepers[on[u]], t)[i] = u
      BY <2>1, <3>1, <3>2
    <3>5. QED
      BY <3>1, <3>2, <3>3, <3>4
  <2>4. QED
    BY <2>2, <2>3
<1>7. QED
  BY <1>5, <1>6 DEF SleepInv

LEMMA SleepWake ==
    ASSUME GateInv, SleepInv, NEW t \in Tasks, Wake(t)
    PROVE  SleepInv'
<1>0. PICK e \in Entries : e = on[t]
  BY GateAssumption DEF Wake, GateInv, Counted, TypeOK
<1>1. /\ task[t] = "notified" /\ running' = running /\ lost' = lost
      /\ \/ /\ running /\ held[e]
            /\ sleepers' = [sleepers EXCEPT ![e] = Append(@, t)]
            /\ task' = [task EXCEPT ![t] = "asleep"]
            /\ on' = on
         \/ /\ ~running
            /\ task' = [task EXCEPT ![t] = "idle"]
            /\ on' = [on EXCEPT ![t] = NoEntry] /\ sleepers' = sleepers
         \/ /\ running /\ ~held[e]
            /\ task' = [task EXCEPT ![t] = "holding"]
            /\ on' = on /\ sleepers' = sleepers
  BY <1>0 DEF Wake, Leave
<1>2. /\ task'[t] \in {"asleep", "idle", "holding"}
      /\ task'[t] = "asleep" => on'[t] = e
      /\ \A u \in Tasks : u # t => task'[u] = task[u] /\ on'[u] = on[u]
  BY <1>0, <1>1 DEF GateInv, TypeOK
<1>3. NoUnexplainedStranding'
  <2>1. CASE ~running
    <3>1. \A u \in Tasks : task'[u] # "asleep"
      BY <1>1, <1>2, <2>1 DEF SleepInv, NoUnexplainedStranding, GateInv, TypeOK
    <3>2. QED
      BY <3>1 DEF NoUnexplainedStranding, Stranded
  <2>2. CASE running
    <3>1. \E u \in Tasks : task'[u] = "holding"
      <4>1. held[e] => \E u \in Tasks : task[u] = "holding"
        BY DEF GateInv, Counted, On
      <4>2. QED
        BY <1>1, <1>2, <2>2, <4>1 DEF GateInv, TypeOK
    <3>2. QED
      BY <1>1, <2>2, <3>1 DEF NoUnexplainedStranding, Stranded
  <2>3. QED
    BY <2>1, <2>2
<1>4. Enqueued'
  <2> SUFFICES ASSUME NEW u \in Tasks, task'[u] = "asleep"
               PROVE  \E i \in 1..Len(sleepers'[on'[u]]) : sleepers'[on'[u]][i] = u
    BY DEF Enqueued
  <2>1. \A d \in Entries : sleepers[d] \in Seq(Tasks)
    BY DEF GateInv, TypeOK
  <2>2. CASE u = t
    <3>1. sleepers'[e] = Append(sleepers[e], t)
      BY <1>1, <1>2, <2>2 DEF GateInv, TypeOK
    <3>2. /\ Len(sleepers[e]) + 1 \in 1..Len(Append(sleepers[e], t))
          /\ Append(sleepers[e], t)[Len(sleepers[e]) + 1] = t
      BY <2>1
    <3>3. QED
      BY <1>2, <2>2, <3>1, <3>2
  <2>3. CASE u # t
    <3>1. task[u] = "asleep" /\ on'[u] = on[u] /\ on[u] \in Entries
      BY <1>2, <2>3, AtTheGate
    <3>2. PICK i \in 1..Len(sleepers[on[u]]) : sleepers[on[u]][i] = u
      BY <3>1 DEF SleepInv, Enqueued
    <3>3. \/ sleepers'[on[u]] = sleepers[on[u]]
          \/ sleepers'[on[u]] = Append(sleepers[on[u]], t)
      BY <1>1, <3>1 DEF GateInv, TypeOK
    <3>4. i \in 1..Len(Append(sleepers[on[u]], t)) /\ Append(sleepers[on[u]], t)[i] = u
      BY <2>1, <3>1, <3>2
    <3>5. QED
      BY <3>1, <3>2, <3>3, <3>4
  <2>4. QED
    BY <2>2, <2>3
<1>5. QED
  BY <1>3, <1>4 DEF SleepInv

LEMMA SleepCancel ==
    ASSUME GateInv, SleepInv, NEW t \in Tasks, Cancel(t)
    PROVE  SleepInv'
<1>0. PICK e \in Entries : e = on[t]
  BY GateAssumption DEF Cancel, GateInv, Counted, TypeOK
<1>1. /\ task[t] \in {"asleep", "notified"}
      /\ sleepers' = [sleepers EXCEPT ![e] = Without(@, t)]
      /\ task' = [task EXCEPT ![t] = "idle"]
      /\ on' = [on EXCEPT ![t] = NoEntry]
      /\ lost' = (lost \/ task[t] = "notified")
      /\ running' = running
  BY <1>0 DEF Cancel, Leave
<1>2. /\ task'[t] = "idle"
      /\ \A u \in Tasks : u # t => task'[u] = task[u] /\ on'[u] = on[u]
  BY <1>1 DEF GateInv, TypeOK
<1>3. NoUnexplainedStranding'
  BY <1>1, <1>2 DEF SleepInv, NoUnexplainedStranding, Stranded
<1>4. Enqueued'
  <2> SUFFICES ASSUME NEW u \in Tasks, task'[u] = "asleep"
               PROVE  \E i \in 1..Len(sleepers'[on'[u]]) : sleepers'[on'[u]][i] = u
    BY DEF Enqueued
  <2>1. u # t /\ task[u] = "asleep" /\ on'[u] = on[u] /\ on[u] \in Entries
    BY <1>2, AtTheGate
  <2>2. PICK i \in 1..Len(sleepers[on[u]]) : sleepers[on[u]][i] = u
    BY <2>1 DEF SleepInv, Enqueued
  <2>3. \/ sleepers'[on[u]] = sleepers[on[u]]
        \/ sleepers'[on[u]] = Without(sleepers[on[u]], t)
    BY <1>1, <2>1 DEF GateInv, TypeOK
  <2>4. sleepers[on[u]] \in Seq(Tasks)
    BY <2>1 DEF GateInv, TypeOK
  <2>5. \E k \in 1..Len(Without(sleepers[on[u]], t)) : Without(sleepers[on[u]], t)[k] = u
    <3> DEFINE q == sleepers[on[u]]
    <3>1. q \in Seq(Tasks) /\ i \in 1..Len(q) /\ q[i] = u /\ q[i] # t
      BY <2>1, <2>2, <2>4
    <3> HIDE DEF q
    <3>2. \E k \in 1..Len(Without(q, t)) : Without(q, t)[k] = q[i]
      BY <3>1, WithoutKeeps
    <3>3. QED
      BY <3>1, <3>2 DEF q
  <2>6. QED
    BY <2>1, <2>2, <2>3, <2>5
<1>5. QED
  BY <1>3, <1>4 DEF SleepInv

\* The gate is handed on whenever somebody sleeps.
LEMMA SleepRelease ==
    ASSUME GateInv, SleepInv, NEW t \in Tasks, Release(t)
    PROVE  SleepInv'
<1>0. PICK e \in Entries : e = on[t]
  BY GateAssumption DEF Release, GateInv, Counted, TypeOK
<1> DEFINE q == sleepers[e]
<1>1. /\ task[t] = "holding" /\ running' = running /\ e = registry
      /\ on' = [on EXCEPT ![t] = NoEntry]
      /\ NotifyOne(e)
  BY <1>0, AtTheGate DEF Release, Leave
<1>2. /\ q \in Seq(Tasks) /\ \A i \in 1..Len(q) : task[q[i]] = "asleep" /\ on[q[i]] = e
  BY DEF GateInv, TypeOK, Queued
<1>3. /\ sleepers' = [sleepers EXCEPT ![e] = IF @ = <<>> THEN @ ELSE Tail(@)]
      /\ \A u \in Tasks : task'[u] = IF task[u] = "holding" /\ on[u] = e THEN "idle"
                                     ELSE IF q # <<>> /\ u = Head(q) THEN "notified"
                                     ELSE task[u]
  BY <1>1 DEF NotifyOne
<1>4. ASSUME NEW u \in Tasks, task'[u] = "asleep"
      PROVE  /\ task[u] = "asleep" /\ on[u] = e /\ on'[u] = e /\ u # t
             /\ q # <<>> /\ u # Head(q)
             /\ \E i \in 1..Len(q) : q[i] = u
  <2>1. task[u] = "asleep" /\ (q # <<>> => u # Head(q))
    BY <1>3, <1>4
  <2>2. on[u] = e
    BY <1>1, <2>1, AtTheGate
  <2>3. \E i \in 1..Len(q) : q[i] = u
    BY <2>1, <2>2 DEF SleepInv, Enqueued
  <2>4. q # <<>>
    BY <1>2, <2>3
  <2>5. QED
    BY <1>1, <2>1, <2>2, <2>3, <2>4 DEF GateInv, TypeOK
<1>5. ASSUME NEW u \in Tasks, task'[u] = "asleep"
      PROVE  /\ \E i \in 1..Len(sleepers'[e]) : sleepers'[e][i] = u
             /\ \E v \in Tasks : task'[v] = "notified"
  <2>1. PICK i \in 1..Len(q) : q[i] = u
    BY <1>4, <1>5
  <2>2. q # <<>> /\ u # Head(q)
    BY <1>4, <1>5
  <2>3. /\ Head(q) = q[1] /\ Head(q) \in Tasks /\ Len(Tail(q)) = Len(q) - 1
        /\ 1 \in 1..Len(q)
        /\ \A k \in 1..Len(Tail(q)) : Tail(q)[k] = q[k + 1]
    BY <1>2, <2>2
  <2>4. i - 1 \in 1..Len(Tail(q)) /\ Tail(q)[i - 1] = u
    <3>1. i # 1 /\ Len(q) \in Nat
      BY <1>2, <2>1, <2>2, <2>3
    <3>2. i - 1 \in 1..Len(Tail(q)) /\ (i - 1) + 1 = i
      BY <2>3, <3>1
    <3>3. QED
      BY <2>1, <2>3, <3>2
  <2>5. sleepers'[e] = Tail(q)
    BY <1>3, <2>2 DEF GateInv, TypeOK
  <2>6. task'[Head(q)] = "notified"
    BY <1>2, <1>3, <2>2, <2>3
  <2>7. QED
    BY <2>3, <2>4, <2>5, <2>6
<1>6. Enqueued'
  BY <1>4, <1>5 DEF Enqueued
<1>7. NoUnexplainedStranding'
  BY <1>1, <1>4, <1>5 DEF SleepInv, NoUnexplainedStranding, Stranded
<1>8. QED
  BY <1>6, <1>7 DEF SleepInv

LEMMA SleepShutdown ==
    ASSUME GateInv, SleepInv, Shutdown
    PROVE  SleepInv'
<1>1. ASSUME NEW u \in Tasks
      PROVE  task'[u] # "asleep"
  <2>1. task[u] = "asleep" => on[u] = registry
    BY AtTheGate
  <2>2. QED
    BY <2>1 DEF Shutdown
<1>2. QED
  BY <1>1 DEF SleepInv, Enqueued, NoUnexplainedStranding, Stranded

LEMMA SleepStart ==
    ASSUME GateInv, SleepInv, Start
    PROVE  SleepInv'
<1>1. \A t \in Tasks : task[t] # "asleep"
  BY GateAssumption, AtTheGate DEF Start
<1>2. task' = task
  BY DEF Start
<1>3. QED
  BY <1>1, <1>2 DEF SleepInv, Enqueued, NoUnexplainedStranding, Stranded

\* Whatever the number of updates, cancellations and restarts: only a task that
\* was cancelled between its notification and its next step leaves others asleep
\* before a free gate, and a stopped gate leaves none (user_gate.py).
THEOREM NobodyIsStranded == Spec => []NoUnexplainedStranding
<1>1. Init => SleepInv
  BY DEF Init, SleepInv, Enqueued, NoUnexplainedStranding, Stranded
<1>2. ASSUME GateInv, SleepInv, [Next]_vars
      PROVE  SleepInv'
  <2>1. CASE UNCHANGED vars
    BY <1>2, <2>1 DEF vars, entryVars, SleepInv, Enqueued, NoUnexplainedStranding, Stranded
  <2>2. QED
    BY <1>2, <2>1, SleepEnter, SleepWake, SleepCancel, SleepRelease, SleepShutdown,
       SleepStart DEF Next
<1>3. SleepInv => NoUnexplainedStranding
  BY DEF SleepInv
<1>4. QED
  BY <1>1, <1>2, <1>3, GateSafe, PTL DEF Spec

-----------------------------------------------------------------------------
(***************************************************************************)
(* Favorites and collections.  An update that has seen the post among the  *)
(* favorites, and has not written yet, still finds it there, or the post   *)
(* is one that a removal took from under it.                               *)
(***************************************************************************)
Findable(p) == p \in favorites \cup raced

LibraryInv ==
    /\ LibraryIntact
    /\ filing = [u \in Update |-> filing[u]]
    /\ \A u \in Update : filing[u].step \in {"insert", "note"} => Findable(filing[u].posts[1])

\* A favorite stays known, and a removal that overtakes nobody leaves nobody.
LEMMA LibraryStep == LibraryInv /\ [LibraryNext]_libraryVars => LibraryInv'
<1> SUFFICES ASSUME LibraryInv, [LibraryNext]_libraryVars
             PROVE  LibraryInv'
  OBVIOUS
<1> USE DEF LibraryInv, LibraryIntact, Findable, Files, Rest
<1>1. CASE UNCHANGED libraryVars
  BY <1>1 DEF libraryVars, library
<1>2. ASSUME NEW p \in Post, AddFavorite(p)
      PROVE  LibraryInv'
  BY <1>2 DEF AddFavorite, Insert
<1>3. ASSUME NEW p \in Post, RemoveFavorite(p)
      PROVE  LibraryInv'
  BY <1>3 DEF RemoveFavorite, ClearedItems, ClearedNotes, Overtaken
<1>4. ASSUME NEW c \in Collection,
             CreateCollection(c) \/ DeleteCollection(c)
             \/ \E p \in Post : RemoveItem(c, p)
      PROVE  LibraryInv'
  BY <1>4 DEF CreateCollection, DeleteCollection, Drop, RemoveItem
<1>5. CASE CleanupEmpty
  BY <1>5 DEF CleanupEmpty, Drop
<1>6. ASSUME NEW u \in Update, NEW c \in Collection, NEW s,
             CollectAll(u, s, c) \/ Collect(u, s, c)
      PROVE  LibraryInv'
  BY <1>6 DEF CollectAll, Collect, library
<1>7. ASSUME NEW u \in Update, FavoriteFirst(u)
      PROVE  LibraryInv'
  BY <1>7 DEF FavoriteFirst, Insert, Onward
<1>8. ASSUME NEW u \in Update, LookCollection(u) \/ LookFavorite(u)
      PROVE  LibraryInv'
  BY <1>8 DEF LookCollection, LookFavorite, Onward, library
<1>9. ASSUME NEW u \in Update, InsertItem(u)
      PROVE  LibraryInv'
  BY <1>9 DEF InsertItem, ForeignKey, Onward
<1>10. ASSUME NEW u \in Update, NEW p \in Post, LookNote(u, p)
       PROVE  LibraryInv'
  BY <1>10 DEF LookNote, library
<1>11. ASSUME NEW u \in Update, WriteNote(u)
       PROVE  LibraryInv'
  BY <1>11 DEF WriteNote
<1>12. CASE LibraryCrash
  BY <1>12 DEF LibraryCrash, library
<1>13. QED
  BY <1>1, <1>2, <1>3, <1>4, <1>5, <1>6, <1>7, <1>8, <1>9, <1>10, <1>11, <1>12
  DEF LibraryNext

\* No item or note outlives its favorite, and no item its collection, but for
\* the posts removed between the look and the write of another update.
THEOREM LibraryStaysIntact == LibrarySpec => []LibraryIntact
<1>1. LibraryInit => LibraryInv
  BY DEF LibraryInit, LibraryInv, LibraryIntact, Rest
<1>2. LibraryInv => LibraryIntact
  BY DEF LibraryInv
<1>3. QED
  BY <1>1, <1>2, LibraryStep, PTL DEF LibrarySpec

(***************************************************************************)
(* The blacklist.  A tag an update is to write counts as caught when the   *)
(* user adds it meanwhile; every other confirmed tag keeps its row, and    *)
(* its source never becomes "preset" or "temporary".                       *)
(***************************************************************************)
Steps == [step : {"none", "temporary", "preset"}, tags : SUBSET Tag, added : SUBSET Tag]

Writes(e) == IF edit[e].step = "temporary" THEN edit[e].tags ELSE edit[e].added

OfTheUser(t) ==
    /\ listed[t] = "manual"
    /\ t \notin timed
    /\ \A e \in Editor : t \notin Writes(e)

BlacklistTypes ==
    /\ listed \in [Tag -> Sources \cup {"absent"}]
    /\ edit \in [Editor -> Steps]
    /\ manual \subseteq Tag

BlacklistInv ==
    /\ BlacklistTypes
    /\ overdue \subseteq timed
    /\ \A t \in Tag \cap timed : ~Absent(t)
    /\ \A t \in manual \ caught : OfTheUser(t)

LEMMA BlacklistTypesStep ==
    ASSUME BlacklistTypes, [BlacklistNext]_blacklistVars
    PROVE  BlacklistTypes'
<1> USE PresetAssumption DEF BlacklistTypes, Sources, Steps, Idle, Absent, Forget, listVars
<1>1. CASE UNCHANGED blacklistVars
  BY <1>1 DEF blacklistVars
<1>2. ASSUME NEW t \in Tag, AddTag(t) \/ RemoveTag(t)
      PROVE  BlacklistTypes'
  BY <1>2 DEF AddTag, RemoveTag
<1>3. ASSUME NEW ts \in SUBSET Tag, Import(ts)
      PROVE  BlacklistTypes'
  BY <1>3 DEF Import
<1>4. CASE Expire \/ ReadBlacklist \/ RemovePreset
  BY <1>4 DEF Expire, ReadBlacklist, RemovePreset
<1>5. ASSUME NEW e \in Editor, NEW t \in Tag, LookTemporary(e, t)
      PROVE  BlacklistTypes'
  BY <1>5 DEF LookTemporary
<1>6. ASSUME NEW e \in Editor, NEW t \in Tag, AddPresetTag(e, t)
      PROVE  BlacklistTypes'
  <2>1. edit'[e] = [step |-> edit[e].step, tags |-> edit[e].tags \ {t},
                    added |-> IF Absent(t) THEN edit[e].added \cup {t} ELSE edit[e].added]
    BY <1>6 DEF AddPresetTag
  <2>2. edit'[e] \in Steps
    BY <2>1
  <2>3. QED
    BY <1>6, <2>2 DEF AddPresetTag
<1>7. ASSUME NEW e \in Editor, WriteTemporary(e) \/ MarkPreset(e)
      PROVE  BlacklistTypes'
  BY <1>7 DEF WriteTemporary, MarkPreset
<1>8. ASSUME NEW e \in Editor, ApplyPreset(e) \/ BlacklistCrash(e)
      PROVE  BlacklistTypes'
  <2>1. Idle \in Steps /\ [Idle EXCEPT !.step = "preset", !.tags = PresetTags] \in Steps
    OBVIOUS
  <2>2. CASE ApplyPreset(e)
    BY <2>1, <2>2 DEF ApplyPreset
  <2>3. CASE BlacklistCrash(e)
    BY <2>1, <2>3 DEF BlacklistCrash
  <2>4. QED
    BY <1>8, <2>2, <2>3
<1>9. QED
  BY <1>1, <1>2, <1>3, <1>4, <1>5, <1>6, <1>7, <1>8 DEF BlacklistNext

LEMMA BlacklistStep ==
    ASSUME BlacklistInv, [BlacklistNext]_blacklistVars
    PROVE  BlacklistInv'
<1>0. BlacklistTypes'
  BY BlacklistTypesStep DEF BlacklistInv
<1> USE <1>0 DEF BlacklistInv, BlacklistTypes, OfTheUser, Writes, Idle, Absent, Steps
<1>1. CASE UNCHANGED blacklistVars
  BY <1>1 DEF blacklistVars, listVars
<1>2. ASSUME NEW t \in Tag, AddTag(t)
      PROVE  BlacklistInv'
  BY <1>2 DEF AddTag, Targets
<1>3. ASSUME NEW t \in Tag, RemoveTag(t)
      PROVE  BlacklistInv'
  <2>1. \A s \in Tag \ {t} : listed'[s] = listed[s]
    BY <1>3 DEF RemoveTag, Forget
  <2>2. QED
    BY <1>3, <2>1 DEF RemoveTag, Forget
<1>4. ASSUME NEW ts \in SUBSET Tag, Import(ts)
      PROVE  BlacklistInv'
  BY <1>4 DEF Import
<1>5. CASE Expire \/ ReadBlacklist \/ RemovePreset
  <2>1. \A t \in Tag : listed[t] = "manual" /\ t \notin timed => listed'[t] = "manual"
    BY <1>5 DEF Expire, ReadBlacklist, RemovePreset, Forget
  <2>2. QED
    BY <1>5, <2>1 DEF Expire, ReadBlacklist, RemovePreset, Forget
<1>6. ASSUME NEW e \in Editor, NEW t \in Tag, LookTemporary(e, t)
      PROVE  BlacklistInv'
  <2>1. \A d \in Editor : Writes(d)' \subseteq Writes(d) \cup {t}
    BY <1>6 DEF LookTemporary
  <2>2. listed[t] # "manual"
    BY <1>6 DEF LookTemporary, MayBeTemporary
  <2>3. QED
    BY <1>6, <2>1, <2>2 DEF LookTemporary, listVars
<1>7. ASSUME NEW e \in Editor, NEW t \in Tag, AddPresetTag(e, t)
      PROVE  BlacklistInv'
  <2>1. \A d \in Editor : Writes(d)' \subseteq IF Absent(t) THEN Writes(d) \cup {t}
                                              ELSE Writes(d)
    BY <1>7 DEF AddPresetTag
  <2>2. \A s \in Tag : ~Absent(s) => listed'[s] = listed[s]
    BY <1>7 DEF AddPresetTag
  <2>3. QED
    BY <1>7, <2>1, <2>2 DEF AddPresetTag
<1>8. ASSUME NEW e \in Editor, WriteTemporary(e)
      PROVE  BlacklistInv'
  <2>1. \A d \in Editor : Writes(d)' \subseteq Writes(d)
    BY <1>8 DEF WriteTemporary
  <2>2. \A t \in Tag \ Writes(e) : listed'[t] = listed[t] /\ (t \in timed' <=> t \in timed)
    BY <1>8 DEF WriteTemporary
  <2>3. \A t \in Tag \cap Writes(e) : listed'[t] = "temporary"
    BY <1>8 DEF WriteTemporary
  <2>4. QED
    BY <1>8, <2>1, <2>2, <2>3 DEF WriteTemporary
<1>9. ASSUME NEW e \in Editor, ApplyPreset(e) \/ BlacklistCrash(e)
      PROVE  BlacklistInv'
  <2>1. \A d \in Editor : Writes(d)' \subseteq Writes(d)
    <3>1. CASE ApplyPreset(e)
      BY <3>1 DEF ApplyPreset
    <3>2. CASE BlacklistCrash(e)
      BY <3>2 DEF BlacklistCrash
    <3>3. QED
      BY <1>9, <3>1, <3>2
  <2>2. QED
    BY <1>9, <2>1 DEF ApplyPreset, BlacklistCrash, listVars
<1>10. ASSUME NEW e \in Editor, MarkPreset(e)
       PROVE  BlacklistInv'
  <2>1. \A d \in Editor : Writes(d)' \subseteq Writes(d)
    BY <1>10 DEF MarkPreset
  <2>2. \A t \in Tag \ Writes(e) : listed'[t] = listed[t]
    BY <1>10 DEF MarkPreset, Marked
  <2>3. \A t \in Tag : Absent(t)' => Absent(t)
    BY <1>10 DEF MarkPreset, Marked
  <2>4. QED
    BY <1>10, <2>1, <2>2, <2>3 DEF MarkPreset
<1>11. QED
  BY <1>1, <1>2, <1>3, <1>4, <1>5, <1>6, <1>7, <1>8, <1>9, <1>10
  DEF BlacklistNext

\* A tag whose addition was confirmed stays until the user takes it away.
THEOREM ManualTagsStay == BlacklistSpec => []ManualTagStays
<1>1. BlacklistInit => BlacklistInv
  BY DEF BlacklistInit, BlacklistInv, BlacklistTypes, Steps, Sources, Idle, Absent
<1>2. BlacklistInv => ManualTagStays
  BY DEF BlacklistInv, ManualTagStays, OfTheUser, Absent
<1>3. QED
  BY <1>1, <1>2, BlacklistStep, PTL DEF BlacklistSpec

(***************************************************************************)
(* The settings.  A change reads and saves under the user's gate, so what  *)
(* it has seen of its fields is still there when it saves, unless a save   *)
(* outside the gate counts as one that has overtaken it.                   *)
(***************************************************************************)
Values == {0, 1}

\* A row of the settings, with or without the end of a pause.
RowOK(r) ==
    /\ DOMAIN r \in {Field, Field \cup {PauseKey}}
    /\ \A f \in Field : r[f] \in Values

SettingsTypes ==
    /\ RowOK(row) /\ RowOK(preset)
    /\ asked \in [Field -> Values]
    /\ overtaken \subseteq Field
    /\ pauses \in Nat /\ passed \subseteq 1..pauses
    /\ DOMAIN change = Writer
    /\ \A w \in Writer :
          /\ change[w].step \in {"none", "mutate", "preset"}
          /\ change[w].fields \subseteq Field
          /\ RowOK(change[w].seen)

OneChange ==
    \A v, w \in Writer :
        change[v].step = "mutate" /\ change[w].step = "mutate" => v = w

SeenIsCurrent ==
    \A w \in Writer : change[w].step = "mutate" =>
        \A f \in change[w].fields \ overtaken : change[w].seen[f] = row[f]

SettingsInv == SettingsTypes /\ OneChange /\ SeenIsCurrent /\ SettingsKept

\* What a save of supported keys leaves of the row.
LEMMA SavedRow ==
    ASSUME RowOK(row), NEW patch, DOMAIN patch \subseteq Field,
           \A f \in DOMAIN patch : patch[f] \in Values
    PROVE  /\ RowOK(Merged(patch))
           /\ DOMAIN Merged(patch) = DOMAIN row
           /\ \A f \in DOMAIN patch : Merged(patch)[f] = patch[f]
           /\ \A k \in DOMAIN row \ DOMAIN patch : Merged(patch)[k] = row[k]
<1>1. Field \subseteq DOMAIN row
  BY DEF RowOK
<1>2. DOMAIN patch \cup DOMAIN row = DOMAIN row
  BY <1>1
<1>3. QED
  BY <1>1, <1>2 DEF RowOK, Merged

\* A pause that goes takes its key along, and no other.
LEMMA UnpausedRow ==
    ASSUME RowOK(row)
    PROVE  /\ RowOK(Unpaused)
           /\ PauseKey \notin DOMAIN Unpaused
           /\ \A f \in Field : Unpaused[f] = row[f]
<1>1. PauseKey \notin Field
  BY DEF PauseKey, Field
<1>2. QED
  BY <1>1 DEF RowOK, Unpaused

\* A save outside the gate, of the defaults or of a saved search.
LEMMA SavedAtOnce ==
    ASSUME SettingsInv, NEW patch, RowOK(patch), SaveAtOnce(patch),
           UNCHANGED <<preset, pauses, passed, change, paused>>
    PROVE  SettingsInv'
<1> USE DEF SettingsInv, SettingsTypes
<1>1. PauseKey \notin Field
  BY DEF PauseKey, Field
<1>2. CASE Supported(patch)
  <2> DEFINE pending == UNION {change[w].fields : w \in Writer}
  <2>1. DOMAIN patch = Field
    BY <1>1, <1>2 DEF Supported, RowOK
  <2>2. /\ row' = Merged(patch)
        /\ asked' = [f \in Field |-> patch[f]]
        /\ overtaken' = (overtaken \ Field) \cup (Field \cap pending)
    BY <1>2, <2>1 DEF SaveAtOnce, Save
  <2>3. /\ RowOK(row') /\ DOMAIN row' = DOMAIN row
        /\ \A f \in Field : row'[f] = patch[f]
        /\ PauseKey \in DOMAIN row => row'[PauseKey] = row[PauseKey]
    BY <1>1, <2>1, <2>2, SavedRow DEF RowOK
  <2>4. SettingsTypes'
    BY <2>2, <2>3 DEF RowOK
  <2>5. SettingsKept'
    BY <2>2, <2>3 DEF SettingsKept, PauseAsAsked
  <2>6. OneChange' /\ SeenIsCurrent'
    <3>1. \A w \in Writer : change[w].fields \subseteq overtaken'
      BY <2>2
    <3>2. QED
      BY <3>1 DEF OneChange, SeenIsCurrent
  <2>7. QED
    BY <2>4, <2>5, <2>6
<1>3. CASE ~Supported(patch)
  <2>1. UNCHANGED <<row, asked, overtaken>>
    BY <1>3 DEF SaveAtOnce, Save
  <2>2. QED
    BY <2>1 DEF RowOK, OneChange, SeenIsCurrent, SettingsKept, PauseAsAsked
<1>4. QED
  BY <1>2, <1>3

LEMMA SettingsStep ==
    ASSUME SettingsInv, [SettingsNext]_settingsVars
    PROVE  SettingsInv'
<1> USE DEF SettingsInv, SettingsTypes
<1>0. /\ PauseKey \notin Field
      /\ RowOK(Default)
  BY DEF PauseKey, Field, Default, RowOK, Values
<1>1. CASE UNCHANGED settingsVars
  BY <1>1 DEF settingsVars, settings, RowOK, OneChange, SeenIsCurrent, SettingsKept, PauseAsAsked
<1>2. ASSUME NEW w \in Writer, NEW fields \in SUBSET Field \ {{}}, LookForChange(w, fields)
      PROVE  SettingsInv'
  <2>1. SettingsTypes'
    BY <1>2 DEF LookForChange, Takes, RowOK
  <2>2. OneChange' /\ SeenIsCurrent'
    BY <1>2 DEF LookForChange, Takes, Free, OneChange, SeenIsCurrent
  <2>3. SettingsKept'
    BY <1>2 DEF LookForChange, SettingsKept, PauseAsAsked
  <2>4. QED
    BY <2>1, <2>2, <2>3
<1>3. ASSUME NEW w \in Writer, SaveChange(w)
      PROVE  SettingsInv'
  <2> DEFINE c == change[w]
             patch == [f \in c.fields |-> Toggled(c.seen, f)]
  <2>1. /\ c.step = "mutate"
        /\ row' = Merged(patch)
        /\ asked' = [f \in Field |-> IF f \in c.fields THEN Toggled(asked, f) ELSE asked[f]]
        /\ change' = [change EXCEPT ![w] = Steady]
        /\ UNCHANGED <<preset, pauses, passed, paused, overtaken>>
    BY <1>3 DEF SaveChange, Save, Supported, Settles
  <2>2. \A f \in DOMAIN patch : patch[f] \in Values
    BY DEF RowOK, Values, Toggled
  <2>3. /\ RowOK(row') /\ DOMAIN row' = DOMAIN row
        /\ \A f \in c.fields : row'[f] = Toggled(c.seen, f)
        /\ \A k \in DOMAIN row \ c.fields : row'[k] = row[k]
    BY <2>1, <2>2, SavedRow
  <2>4. SettingsTypes'
    <3>1. RowOK(Steady.seen) /\ Steady.fields = {} /\ Steady.step = "none"
      BY <1>0 DEF Steady
    <3>2. asked' \in [Field -> Values]
      BY <2>1 DEF Toggled, Values
    <3>3. QED
      BY <2>1, <2>3, <3>1, <3>2
  <2>5. OneChange' /\ SeenIsCurrent'
    BY <2>1 DEF OneChange, SeenIsCurrent, Steady
  <2>6. SettingsKept'
    <3>1. PauseAsAsked'
      BY <1>0, <2>1, <2>3 DEF SettingsKept, PauseAsAsked
    <3>2. \A f \in Field \ overtaken : row'[f] = asked'[f]
      BY <2>1, <2>3 DEF SettingsKept, SeenIsCurrent, Toggled, RowOK
    <3>3. QED
      BY <2>1, <3>1, <3>2 DEF SettingsKept
  <2>7. QED
    BY <2>4, <2>5, <2>6
<1>4. ASSUME NEW w \in Writer,
             LookForPreset(w) \/ CreateSearchPreset(w) \/ ChangeLost(w)
      PROVE  SettingsInv'
  <2>1. SettingsTypes'
    <3>1. RowOK(Steady.seen) /\ Steady.fields = {} /\ Steady.step = "none"
      BY <1>0 DEF Steady
    <3>2. CASE LookForPreset(w)
      BY <3>2 DEF LookForPreset, Takes
    <3>3. CASE CreateSearchPreset(w)
      BY <3>1, <3>3 DEF CreateSearchPreset, Settles
    <3>4. CASE ChangeLost(w)
      BY <3>1, <3>4 DEF ChangeLost, Settles
    <3>5. QED
      BY <1>4, <3>2, <3>3, <3>4
  <2>2. OneChange' /\ SeenIsCurrent'
    BY <1>4 DEF LookForPreset, CreateSearchPreset, ChangeLost, Takes, Settles, Steady,
                OneChange, SeenIsCurrent
  <2>3. SettingsKept'
    BY <1>4 DEF LookForPreset, CreateSearchPreset, ChangeLost, SettingsKept, PauseAsAsked
  <2>4. QED
    BY <2>1, <2>2, <2>3
<1>5. CASE RunPreset
  BY <1>5, SavedAtOnce DEF RunPreset
<1>6. CASE Reset
  BY <1>0, <1>6, SavedAtOnce DEF Reset
<1>7. CASE PauseAll
  <2> DEFINE patch == [k \in {PauseKey} |-> pauses']
  <2>1. row' = Merged(patch) /\ pauses' = pauses + 1 /\ paused' = pauses'
    BY <1>7 DEF PauseAll
  <2>2. /\ DOMAIN row' = Field \cup {PauseKey}
        /\ row'[PauseKey] = paused'
        /\ \A f \in Field : row'[f] = row[f]
    BY <1>0, <2>1 DEF Merged, RowOK
  <2>3. SettingsTypes'
    <3>1. RowOK(row')
      BY <2>2 DEF RowOK
    <3>2. pauses' \in Nat /\ passed \subseteq 1..pauses'
      BY <2>1
    <3>3. QED
      BY <1>7, <3>1, <3>2 DEF PauseAll
  <2>4. OneChange' /\ SeenIsCurrent'
    BY <1>7, <2>2 DEF PauseAll, OneChange, SeenIsCurrent
  <2>5. SettingsKept'
    BY <1>7, <2>1, <2>2 DEF PauseAll, SettingsKept, PauseAsAsked
  <2>6. QED
    BY <2>3, <2>4, <2>5
<1>8. CASE ResumeAll \/ GetActivePause
  <2>1. RowOK(row') /\ \A f \in Field : row'[f] = row[f]
    BY <1>8, UnpausedRow DEF ResumeAll, GetActivePause
  <2>2. SettingsTypes'
    BY <1>8, <2>1 DEF ResumeAll, GetActivePause, RowOK
  <2>3. OneChange' /\ SeenIsCurrent'
    BY <1>8, <2>1 DEF ResumeAll, GetActivePause, OneChange, SeenIsCurrent
  <2>4. SettingsKept'
    <3>1. PauseAsAsked'
      BY <1>8, UnpausedRow DEF ResumeAll, GetActivePause, SettingsKept, PauseAsAsked
    <3>2. QED
      BY <1>8, <2>1, <3>1 DEF ResumeAll, GetActivePause, SettingsKept
  <2>5. QED
    BY <2>2, <2>3, <2>4
<1>9. CASE PauseEnds
  <2>1. SettingsTypes'
    BY <1>9 DEF PauseEnds
  <2>2. OneChange' /\ SeenIsCurrent' /\ SettingsKept'
    BY <1>9 DEF PauseEnds, OneChange, SeenIsCurrent, SettingsKept, PauseAsAsked
  <2>3. QED
    BY <2>1, <2>2
<1>10. QED
  BY <1>1, <1>2, <1>3, <1>4, <1>5, <1>6, <1>7, <1>8, <1>9 DEF SettingsNext

\* Every change counts once and the pause is the one asked for, whatever saved
\* searches, resets and other changes are under way.
THEOREM SettingsAreKept == SettingsSpec => []SettingsKept
<1>1. SettingsInit => SettingsInv
  BY DEF SettingsInit, SettingsInv, SettingsTypes, OneChange, SeenIsCurrent, SettingsKept,
         PauseAsAsked, RowOK, Values, Default, Field, Steady, PauseKey
<1>2. SettingsInv => SettingsKept
  BY DEF SettingsInv
<1>3. QED
  BY <1>1, <1>2, SettingsStep, PTL DEF SettingsSpec

-----------------------------------------------------------------------------
(* The session.  A message that was claimed carries a generation that is   *)
(* not 0, the one the maintenance leaves, which spares active users.       *)

FlowInv ==
    /\ counter \in Nat
    /\ at = [h \in Handler |-> at[h]] /\ has = [h \in Handler |-> has[h]]
    /\ PendingIsOneFlow
    /\ awaited # None => generation # 0
    /\ \A h \in Handler : at[h] = "claimed" => has[h].generation # 0

\* Steps that neither claim nor commit.
FlowKept ==
    /\ UNCHANGED flow \/ awaited' = None
    /\ \A h \in Handler : at'[h] = "claimed" => at[h] = "claimed" /\ has'[h] = has[h]

LEMMA Moved ==
    ASSUME FlowInv, NEW h \in Handler, NEW place, NEW what, Goes(h, place, what)
    PROVE  /\ at'[h] = place /\ has'[h] = what
           /\ \A g \in Handler : g # h => at'[g] = at[g] /\ has'[g] = has[g]
           /\ at' = [g \in Handler |-> at'[g]] /\ has' = [g \in Handler |-> has'[g]]
BY DEF FlowInv, Goes

LEMMA SnapshotOpened ==
    \A input : Snapshot(input) \subseteq OpenedWith(input) /\ Snapshot(input) \subseteq Mapping
BY DEF Snapshot, OpenedWith, Mapping

LEMMA OpensOneFlow ==
    ASSUME FlowInv, NEW input, OpenInput(input)
    PROVE  /\ counter' \in Nat /\ PendingIsOneFlow' /\ generation' # 0
<1>1. /\ counter' = counter + 1 /\ generation' = counter + 1 /\ counter + 1 \in Nat \ {0}
      /\ awaited' = [input |-> input, of |-> counter + 1]
      /\ \A m \in Snapshot(input) : related'[m] = counter + 1
  BY SnapshotOpened DEF OpenInput, BeginFlow, NextGeneration, FlowInv
<1>2. awaited'.input = input /\ awaited'.of = counter + 1
  BY <1>1
<1>3. QED
  BY <1>1, <1>2 DEF PendingIsOneFlow

LEMMA Invalidates ==
    ASSUME FlowInv, InvalidateFlow
    PROVE  counter' \in Nat /\ awaited' = None
BY DEF FlowInv, InvalidateFlow, BeginFlow

LEMMA CommitFlow ==
    ASSUME FlowInv, NEW h \in Handler, Commit(h)
    PROVE  FlowInv'
<1> DEFINE input == has[h].input
           next == CASE input = "waiting_builder_include" -> "waiting_builder_exclude"
                     [] input = "waiting_sub_new" -> "waiting_sub_interval"
                     [] OTHER -> "none"
           wrote == CASE input = "waiting_builder_include" -> "search_builders"
                      [] input = "waiting_builder_exclude" -> "pending_preset_queries"
                      [] OTHER -> "none"
<1>1. /\ at[h] = "claimed" /\ Goes(h, "idle", Nothing)
      /\ input \in {"waiting_builder_include", "waiting_builder_exclude", "waiting_sub_new"}
      /\ awaited' = IF Current(h) /\ next # "none"
                    THEN [input |-> next, of |-> has[h].generation] ELSE awaited
      /\ related' = [m \in Mapping |->
             IF Current(h) /\ m = wrote THEN has[h].generation ELSE related[m]]
      /\ UNCHANGED <<generation, counter>>
  BY DEF Commit, Returns
<1>2. has[h].generation # 0
  BY <1>1 DEF FlowInv
<1>3. PendingIsOneFlow' /\ (awaited' # None => generation' # 0)
  <2>1. CASE Current(h) /\ next # "none"
    <3>1. awaited'.input = next /\ awaited'.of = generation' /\ generation' # 0
      BY <1>1, <1>2, <2>1 DEF Current
    <3>2. \A m \in Snapshot(next) : m \in Mapping /\ m = wrote
      BY <1>1, <2>1 DEF Snapshot, Mapping
    <3>3. \A m \in Snapshot(next) : related'[m] = generation'
      BY <1>1, <2>1, <3>2 DEF Current
    <3>4. QED
      BY <3>1, <3>3 DEF PendingIsOneFlow
  <2>2. CASE ~(Current(h) /\ next # "none")
    <3>1. awaited' = awaited
      BY <1>1, <2>2
    <3>2. \A m \in Mapping : related[m] = generation => related'[m] = generation
      BY <1>1 DEF Current
    <3>3. QED
      BY <1>1, <3>1, <3>2, SnapshotOpened DEF FlowInv, PendingIsOneFlow
  <2>3. QED
    BY <2>1, <2>2
<1>4. QED
  BY <1>1, <1>3, Moved DEF FlowInv

LEMMA KeepsFlow ==
    ASSUME FlowInv, FlowKept, counter' \in Nat,
           at' = [h \in Handler |-> at'[h]], has' = [h \in Handler |-> has'[h]]
    PROVE  FlowInv'
BY DEF FlowInv, FlowKept, flow, PendingIsOneFlow

LEMMA FlowInvStep ==
    ASSUME FlowInv, [SessionNext]_session
    PROVE  FlowInv'
<1>1. CASE UNCHANGED session
  BY <1>1 DEF session, flow, FlowInv, PendingIsOneFlow
<1>2. ASSUME NEW h \in Handler, CancelText(h) \/ PersistentKey(h) \/ CancelInput(h)
      PROVE  FlowInv'
  <2>1. counter' \in Nat /\ awaited' = None
    BY <1>2, Invalidates DEF CancelText, PersistentKey, CancelInput
  <2>2. \/ at' = at /\ has' = has
        \/ \E place \in {"idle", "gallery_key", "searching", "leaving"}, what \in {has'[h]} :
              Goes(h, place, what)
    <3>1. \A place, what : Goes(h, place, what) => what = has'[h]
      BY Moved
    <3>2. QED
      BY <1>2, <3>1 DEF CancelText, PersistentKey, CancelInput, Returns, Leaves
  <2>3. FlowKept /\ at' = [g \in Handler |-> at'[g]] /\ has' = [g \in Handler |-> has'[g]]
    BY <2>1, <2>2, Moved DEF FlowKept, FlowInv
  <2>4. QED
    BY <2>1, <2>3, KeepsFlow
<1>3. ASSUME NEW h \in Handler, OpenGallery(h) \/ Act(h)
      PROVE  FlowInv'
  <2>1. PICK place \in {"idle", "leaving"} : \E what : Goes(h, place, what)
    BY <1>3 DEF OpenGallery, Act, Returns, Leaves
  <2>2. CASE UNCHANGED flow
    BY <2>1, <2>2, Moved, KeepsFlow DEF FlowKept, FlowInv, flow
  <2>3. CASE \E input : OpenInput(input)
    BY <2>1, <2>3, Moved, OpensOneFlow DEF FlowInv
  <2>4. QED
    BY <1>3, <2>2, <2>3 DEF OpenGallery, Act
<1>4. ASSUME NEW h \in Handler, Claim(h)
      PROVE  FlowInv'
  <2>1. awaited' = None /\ UNCHANGED <<generation, counter>>
    BY <1>4 DEF Claim
  <2>2. CASE awaited.input \in {"none", "waiting_gallery"}
    BY <1>4, <2>1, <2>2, Moved, KeepsFlow DEF Claim, FlowKept, FlowInv
  <2>3. CASE awaited.input \notin {"none", "waiting_gallery"}
    <3>1. generation # 0
      BY <2>3 DEF FlowInv, None
    <3>2. Goes(h, "claimed", [Nothing EXCEPT !.generation = generation,
                                             !.input = awaited.input])
      BY <1>4, <2>3 DEF Claim
    <3>3. [Nothing EXCEPT !.generation = generation,
                          !.input = awaited.input].generation = generation
      BY DEF Nothing
    <3>4. has'[h].generation # 0
      <4> DEFINE what == [Nothing EXCEPT !.generation = generation, !.input = awaited.input]
      <4>1. Goes(h, "claimed", what) /\ what.generation = generation
        BY <3>2, <3>3
      <4> HIDE DEF what
      <4>2. has'[h] = what
        BY <4>1, Moved
      <4>3. QED
        BY <3>1, <4>1, <4>2
    <3>5. \A g \in Handler : at'[g] = "claimed" => has'[g].generation # 0
      BY <3>2, <3>4, Moved DEF FlowInv
    <3>6. at' = [g \in Handler |-> at'[g]] /\ has' = [g \in Handler |-> has'[g]]
      BY <3>2, Moved
    <3>7. QED
      BY <2>1, <3>5, <3>6 DEF FlowInv, PendingIsOneFlow
  <2>4. QED
    BY <2>2, <2>3
<1>5. ASSUME NEW h \in Handler, Adopt(h)
      PROVE  FlowInv'
  <2>1. /\ Goes(h, "adopted", [has[h] EXCEPT !.generation = generation'])
        /\ awaited' = awaited /\ related' = related
        /\ \/ generation # 0 /\ UNCHANGED <<generation, counter>>
           \/ generation = 0 /\ counter' = counter + 1
    BY <1>5 DEF Adopt, BeginFlow
  <2>2. counter' \in Nat
    BY <2>1 DEF FlowInv
  <2>3. FlowKept
    BY <2>1, Moved DEF FlowKept, FlowInv, flow
  <2>4. QED
    BY <2>1, <2>2, <2>3, Moved, KeepsFlow
<1>6. CASE CleanupExpired
  BY <1>6, KeepsFlow DEF CleanupExpired, FlowKept, FlowInv
<1>7. CASE Notification \/ (\E b \in 1..MaxButton : NotificationUnsent(b)) \/ Age
  BY <1>7, KeepsFlow DEF Notification, NotificationUnsent, Age, FlowKept, FlowInv, flow
<1>8. ASSUME NEW h \in Handler,
             \/ Execute(h) \/ SearchEnds(h) \/ Preview(h) \/ Press(h) \/ Reserve(h)
             \/ Begin(h) \/ Recheck(h) \/ ActSearch(h) \/ Finish(h)
      PROVE  FlowInv'
  <2>1. UNCHANGED flow
    BY <1>8 DEF Execute, SearchEnds, Preview, Press, Reserve, Begin, Recheck, ActSearch, Finish
  <2>2. \E place \in {"idle", "pressed", "processing", "reserved", "leaving", "acting",
                      "searching"} : \E what : Goes(h, place, what)
    BY <1>8, Zenon DEF Execute, SearchEnds, Preview, Press, Reserve, Begin, Recheck, ActSearch,
       Finish, Returns, Leaves
  <2>3. QED
    BY <2>1, <2>2, Moved, KeepsFlow DEF FlowKept, FlowInv, flow
<1>9. QED
  BY <1>1, <1>2, <1>3, <1>4, <1>5, <1>6, <1>7, <1>8, CommitFlow DEF SessionNext

\* The input the bot waits for and the value that its message takes along come
\* from one flow, the current one, however long a message lies between its claim
\* and its commit (claim_user_message_state, commit_flow_if_current).
THEOREM PendingKeepsToOneFlow == SessionSpec => []PendingIsOneFlow
<1>1. SessionInit => FlowInv
  BY DEF SessionInit, FlowInv, PendingIsOneFlow
<1>2. FlowInv /\ [SessionNext]_session => FlowInv'
  BY FlowInvStep
<1>3. FlowInv => PendingIsOneFlow
  BY DEF FlowInv
<1>4. QED
  BY <1>1, <1>2, <1>3, PTL DEF SessionSpec


-----------------------------------------------------------------------------
(* The one-shot buttons of the session.                                    *)

Statuses == {"issued", "reserved", "processing", "consumed", "stale"}

IssuedEntry(e) ==
    /\ e = [status |-> e.status, generation |-> e.generation,
            scoped |-> e.scoped, action |-> e.action]
    /\ e.status \in Statuses
    /\ e.generation \in 0..counter

HasOK(h) ==
    /\ has[h] = [button |-> has[h].button, scoped |-> has[h].scoped,
                 generation |-> has[h].generation, input |-> has[h].input]
    /\ has[h].button \in 0..buttons
    /\ at[h] \in {"pressed", "reserved"} => has[h].button # 0

ButtonTypes ==
    /\ counter \in Nat /\ generation \in 0..counter
    /\ buttons \in 0..MaxButton /\ aged \in Nat
    /\ issued = [b \in 1..MaxButton |-> issued[b]]
    /\ \A b \in 1..MaxButton :
          \/ issued[b] = Unknown
          \/ b <= buttons /\ IssuedEntry(issued[b])
    /\ at = [h \in Handler |-> at[h]] /\ has = [h \in Handler |-> has[h]]
    /\ \A h \in Handler : HasOK(h)
    /\ refused \subseteq 1..buttons

\* A button that was refused stays refused, but for those of no flow.
Dead(b) ==
    \/ issued[b].status \in {"unknown", "stale"}
    \/ /\ issued[b].scoped
       /\ issued[b].generation = 0 \/ issued[b].generation # generation

ButtonInv ==
    /\ ButtonTypes
    /\ \A b, c \in 1..MaxButton :
          /\ b # c
          /\ issued[b].status \in {"reserved", "processing"}
          /\ issued[c].status \in {"reserved", "processing"}
          => Key(issued[b]) # Key(issued[c])
    /\ \A h \in Handler :
          at[h] \in Inside /\ has[h].button \notin early \cup {0}
          => issued[has[h].button].status = "processing"
    /\ \A b \in refused : Dead(b)

LEMMA LeastNatural ==
    ASSUME NEW T \in SUBSET Nat, T # {}
    PROVE  \E n \in T : \A m \in T : n <= m
<1> DEFINE R == {ss \in Nat \X Nat : ss[1] < ss[2]}
<1>1. IsWellFoundedOn(R, Nat)
  BY NatLessThanWellFounded DEF OpToRel
<1>2. PICK n \in T : \A m \in T : <<m, n>> \notin R
  <2> HIDE DEF R
  <2> QED
    BY <1>1, WFMin
<1>3. ASSUME NEW m \in T  PROVE  n <= m
  <2>1. ~(m < n)
    BY <1>2
  <2> QED
    BY <2>1
<1> QED
  BY <1>3

(***************************************************************************)
(* The registration of a keyboard, button by button: put is the function   *)
(* that Registered defines.                                                *)
(***************************************************************************)
NewButton(gen, scoped, action) ==
    [status |-> "issued", generation |-> gen, scoped |-> scoped, action |-> action]

Placed(keys, gen, scoped, f) ==
    [i \in 0..Len(keys) |->
        IF i = 0 THEN Cleaned
        ELSE [Roomy(f[i - 1]) EXCEPT ![buttons + i] = NewButton(gen, scoped, keys[i])]]

LEMMA RegisteredIsPlaced ==
    ASSUME NEW keys, Len(keys) \in Nat, NEW gen, NEW scoped
    PROVE  \E put : /\ put = Placed(keys, gen, scoped, put)
                    /\ Registered(keys, gen, scoped) = put[Len(keys)]
<1> DEFINE L == Len(keys)
           Step(r, i) == [Roomy(r) EXCEPT ![buttons + i] = NewButton(gen, scoped, keys[i])]
           Upto(n, f) == f = [i \in 0..n |-> IF i = 0 THEN Cleaned ELSE Step(f[i - 1], i)]
           T == {n \in 0..L : ~\E f : Upto(n, f)}
<1> HIDE DEF Step
<1>1. T = {}
  <2> SUFFICES ASSUME T # {}  PROVE FALSE
    OBVIOUS
  <2>1. PICK n \in T : \A m \in T : n <= m
    <3>1. T \in SUBSET Nat
      OBVIOUS
    <3> HIDE DEF T
    <3> QED
      BY <3>1, LeastNatural
  <2>2. CASE n = 0
    <3> DEFINE f == [i \in 0..0 |-> Cleaned]
    <3>1. Upto(0, f)
      OBVIOUS
    <3> QED
      BY <2>1, <2>2, <3>1
  <2>3. CASE n # 0
    <3>1. n - 1 \in 0..L /\ n \in 1..L
      BY <2>1, <2>3
    <3>2. PICK f : Upto(n - 1, f)
      <4>1. n - 1 \notin T
        <5> HIDE DEF T
        <5> QED
          BY <2>1, <3>1
      <4> HIDE DEF Upto
      <4> QED
        BY <3>1, <4>1
    <3> DEFINE g == [i \in 0..n |-> IF i = n THEN Step(f[n - 1], n) ELSE f[i]]
    <3>3. \A i \in 0..(n - 1) : g[i] = f[i] /\ i \in 0..n
      BY <3>1
    <3>4. \A i \in 0..n : g[i] = IF i = 0 THEN Cleaned ELSE Step(g[i - 1], i)
      <4> TAKE i \in 0..n
      <4>1. CASE i = n
        BY <3>1, <3>3, <4>1
      <4>2. CASE i # n
        <5>1. i \in 0..(n - 1) /\ g[i] = f[i]
          BY <3>1, <4>2
        <5>2. f[i] = IF i = 0 THEN Cleaned ELSE Step(f[i - 1], i)
          BY <3>2, <5>1
        <5>3. i # 0 => g[i - 1] = f[i - 1]
          BY <3>1, <3>3, <5>1
        <5> QED
          BY <5>1, <5>2, <5>3
      <4> QED
        BY <4>1, <4>2
    <3>5. Upto(n, g)
      BY <3>4
    <3> QED
      BY <2>1, <3>5
  <2> QED
    BY <2>2, <2>3
<1>2. \E f : f = Placed(keys, gen, scoped, f)
  <2>1. \E f : Upto(L, f)
    <3>1. L \in 0..L /\ L \notin T
      BY <1>1
    <3> HIDE DEF Upto
    <3> QED
      BY <3>1
  <2> QED
    BY <2>1 DEF Placed, Step
<1> DEFINE put == CHOOSE f : f = Placed(keys, gen, scoped, f)
<1>3. put = Placed(keys, gen, scoped, put)
  BY <1>2
<1>4. Registered(keys, gen, scoped) = put[Len(keys)]
  BY DEF Registered, Placed, NewButton
<1> QED
  BY <1>3, <1>4

\* The buttons that a press occupies; registration spares them.
Occupied(r) == {b \in Known(r) : r[b].status = "processing"}

\* What the registration of n buttons may have made of the registry.
Reissued(r, n, gen, scoped) ==
    /\ r = [b \in 1..MaxButton |-> r[b]]
    /\ \A b \in 1..MaxButton :
          \/ r[b] = issued[b]
          \/ r[b] = Unknown /\ issued[b].status # "processing"
          \/ /\ b > buttons /\ b <= buttons + n
             /\ r[b] = NewButton(gen, scoped, r[b].action)

LEMMA CleanedIsReissued ==
    ASSUME ButtonTypes, NEW gen, NEW scoped
    PROVE  Reissued(Cleaned, 0, gen, scoped)
BY DEF ButtonTypes, Cleaned, Reissued

LEMMA OccupiedStays ==
    ASSUME ButtonTypes, NEW r, NEW n \in Nat, NEW gen, NEW scoped,
           Reissued(r, n, gen, scoped)
    PROVE  Occupied(r) = Occupied(Cleaned)
<1>1. \A b \in 1..MaxButton : (r[b].status = "processing") = (issued[b].status = "processing")
  BY DEF ButtonTypes, Reissued, Unknown, NewButton
<1>2. \A b \in 1..MaxButton :
         (Cleaned[b].status = "processing") = (issued[b].status = "processing")
  BY DEF ButtonTypes, Cleaned, Unknown
<1>3. DOMAIN r = 1..MaxButton /\ DOMAIN Cleaned = 1..MaxButton
  BY DEF ButtonTypes, Cleaned, Reissued
<1> QED
  BY <1>1, <1>2, <1>3 DEF Occupied, Known

LEMMA RoomIsReissued ==
    ASSUME ButtonTypes, NEW r, NEW n \in Nat, NEW gen, NEW scoped,
           Reissued(r, n, gen, scoped),
           Cardinality(Occupied(Cleaned)) < MaxPerUser
    PROVE  Reissued(Roomy(r), n, gen, scoped)
<1> DEFINE Chosen == IF Terminal(r) # {} THEN Terminal(r) ELSE Evictable(r)
           victim == Min(Chosen)
<1>1. CASE ~(Cardinality(Known(r)) >= MaxPerUser)
  BY <1>1 DEF Roomy
<1>2. CASE Cardinality(Known(r)) >= MaxPerUser
  <2>1. Known(r) # Occupied(r)
    <3>1. /\ IsFiniteSet(Known(r)) /\ Cardinality(Known(r)) \in Nat
          /\ Known(r) \subseteq 1..MaxButton
      <4>1. IsFiniteSet(1..MaxButton)
        BY SessionAssumption, FS_Interval
      <4>2. Known(r) \subseteq 1..MaxButton
        BY DEF Known, Reissued
      <4> QED
        BY <4>1, <4>2, FS_Subset, FS_CardinalityType
    <3>2. Occupied(r) = Occupied(Cleaned)
      BY OccupiedStays
    <3> QED
      BY <1>2, <3>1, <3>2, SessionAssumption
  <2>2. Evictable(r) # {}
    BY <2>1 DEF Evictable, Occupied
  <2>3. Chosen # {} /\ Chosen \subseteq Evictable(r) /\ Chosen \subseteq 1..MaxButton
    BY <2>2 DEF Terminal, Evictable, Known, Reissued
  <2>4. victim \in Chosen
    <3> HIDE DEF Chosen
    <3>1. \E x \in Chosen : \A y \in Chosen : x <= y
      BY <2>3, LeastNatural
    <3> QED
      BY <3>1 DEF Min
  <2>5. Roomy(r) = [r EXCEPT ![victim] = Unknown]
    BY <1>2 DEF Roomy
  <2>6. victim \in 1..MaxButton /\ r[victim].status # "processing"
    BY <2>3, <2>4 DEF Evictable
  <2> HIDE DEF victim
  <2>7. issued[victim].status # "processing"
    BY <2>6 DEF Reissued, Unknown, NewButton, ButtonTypes
  <2> QED
    BY <2>5, <2>6, <2>7 DEF Reissued
<1> QED
  BY <1>1, <1>2

LEMMA RegisteredIsReissued ==
    ASSUME ButtonTypes, NEW keys, Len(keys) \in Nat, NEW gen, NEW scoped,
           buttons + Len(keys) <= MaxButton,
           Len(keys) <= MaxPerUser - Cardinality(Occupied(Cleaned))
    PROVE  Reissued(Registered(keys, gen, scoped), Len(keys), gen, scoped)
<1>1. PICK put : /\ put = Placed(keys, gen, scoped, put)
                 /\ Registered(keys, gen, scoped) = put[Len(keys)]
  BY RegisteredIsPlaced
<1> DEFINE L == Len(keys)
           T == {n \in 0..L : ~Reissued(put[n], n, gen, scoped)}
<1>2. T = {}
  <2> SUFFICES ASSUME T # {}  PROVE FALSE
    OBVIOUS
  <2>1. PICK n \in T : \A m \in T : n <= m
    <3>1. T \in SUBSET Nat
      OBVIOUS
    <3> HIDE DEF T
    <3> QED
      BY <3>1, LeastNatural
  <2>2. n \in 0..L /\ ~Reissued(put[n], n, gen, scoped)
    OBVIOUS
  <2>3. CASE n = 0
    <3>1. put[0] = Cleaned
      BY <1>1 DEF Placed
    <3> QED
      BY <2>2, <2>3, <3>1, CleanedIsReissued
  <2>4. CASE n # 0
    <3>1. n - 1 \in 0..L /\ n - 1 \in Nat /\ n \in 1..L
      BY <2>2, <2>4
    <3>2. Reissued(put[n - 1], n - 1, gen, scoped)
      <4>1. n - 1 \notin T
        <5> HIDE DEF T
        <5> QED
          BY <2>1, <3>1
      <4> QED
        BY <3>1, <4>1
    <3>3. Cardinality(Occupied(Cleaned)) < MaxPerUser
      <4>1. Cardinality(Occupied(Cleaned)) \in Nat
        <5>1. IsFiniteSet(1..MaxButton)
          BY SessionAssumption, FS_Interval
        <5>2. Occupied(Cleaned) \subseteq 1..MaxButton
          BY DEF Occupied, Known, Cleaned, ButtonTypes
        <5> QED
          BY <5>1, <5>2, FS_Subset, FS_CardinalityType
      <4> QED
        BY <3>1, <4>1, SessionAssumption
    <3> DEFINE r == Roomy(put[n - 1])
    <3>4. Reissued(r, n - 1, gen, scoped)
      BY <3>1, <3>2, <3>3, RoomIsReissued
    <3>5. put[n] = [r EXCEPT ![buttons + n] = NewButton(gen, scoped, keys[n])]
      <4> DEFINE Value(i) == IF i = 0 THEN Cleaned
                             ELSE [Roomy(put[i - 1]) EXCEPT
                                      ![buttons + i] = NewButton(gen, scoped, keys[i])]
      <4>1. put = [i \in 0..L |-> Value(i)]
        BY <1>1 DEF Placed
      <4> HIDE DEF Value
      <4>2. put[n] = Value(n)
        BY <3>1, <4>1
      <4> QED
        BY <3>1, <4>2 DEF Value
    <3>6. NewButton(gen, scoped, keys[n]).action = keys[n]
      BY DEF NewButton
    <3> HIDE DEF r
    <3>7. Reissued(put[n], n, gen, scoped)
      <4>1. buttons + n \in 1..MaxButton /\ buttons + n > buttons /\ buttons \in Nat
        BY <3>1, SessionAssumption DEF ButtonTypes
      <4>2. /\ put[n][buttons + n] = NewButton(gen, scoped, keys[n])
            /\ \A b \in 1..MaxButton : b # buttons + n => put[n][b] = r[b]
            /\ put[n] = [b \in 1..MaxButton |-> put[n][b]]
        BY <3>4, <3>5, <4>1 DEF Reissued
      <4> QED
        BY <3>1, <3>4, <3>6, <4>1, <4>2 DEF Reissued
    <3> QED
      BY <2>2, <3>7
  <2> QED
    BY <2>3, <2>4
<1>3. L \in 0..L
  OBVIOUS
<1> QED
  BY <1>1, <1>2, <1>3

(***************************************************************************)
(* Steps in which no button is reserved, begun or finished.                *)
(***************************************************************************)
LaterFlow ==
    \/ UNCHANGED <<generation, counter>>
    \/ generation' = 0 /\ UNCHANGED counter
    \/ counter' = counter + 1 /\ generation' = counter + 1

Fades(b) ==
    \/ issued'[b] = issued[b]
    \/ issued[b].status # "processing" /\ issued'[b] = Unknown
    \/ /\ issued[b].status \in {"issued", "reserved"}
       /\ issued'[b] = [issued[b] EXCEPT !.status = "stale"]
    \/ /\ b > buttons /\ b <= buttons'
       /\ IssuedEntry(issued[b])' /\ issued'[b].status = "issued"

\* What the handlers hold; nobody comes in.
HandlersOK ==
    /\ at' = [h \in Handler |-> at'[h]] /\ has' = [h \in Handler |-> has'[h]]
    /\ \A h \in Handler : HasOK(h)'

NobodyBegins ==
    \A h \in Handler :
        at'[h] \in Inside /\ has'[h].button # 0
        => at[h] \in Inside /\ has'[h].button = has[h].button

LEMMA LaterFlowOn ==
    ASSUME ButtonTypes, LaterFlow
    PROVE  /\ counter' \in Nat /\ counter' >= counter /\ generation' \in 0..counter'
           /\ \A g \in 0..counter : g # generation /\ g # 0 => g # generation'
BY DEF LaterFlow, ButtonTypes

LEMMA StaleEntry ==
    ASSUME ButtonTypes, NEW b \in 1..MaxButton,
           issued[b].status \in {"issued", "reserved"},
           issued'[b] = [issued[b] EXCEPT !.status = "stale"]
    PROVE  /\ b <= buttons /\ issued'[b].status = "stale"
           /\ LaterFlow => IssuedEntry(issued[b])'
<1>1. issued[b] # Unknown
  BY DEF Unknown
<1>2. b <= buttons /\ IssuedEntry(issued[b])
  BY <1>1 DEF ButtonTypes
<1> PICK e : e = issued[b]
  OBVIOUS
<1> PICK f : f = issued'[b]
  OBVIOUS
<1>3. /\ f = [status |-> "stale", generation |-> e.generation,
              scoped |-> e.scoped, action |-> e.action]
      /\ e.generation \in 0..counter
  BY <1>2 DEF IssuedEntry
<1>4. LaterFlow => e.generation \in 0..counter'
  BY <1>3, LaterFlowOn DEF ButtonTypes
<1> QED
  BY <1>2, <1>3, <1>4 DEF IssuedEntry, Statuses

LEMMA FadedEntry ==
    ASSUME ButtonTypes, LaterFlow, buttons' \in buttons..MaxButton,
           NEW b \in 1..MaxButton, Fades(b)
    PROVE  issued'[b] = Unknown \/ (b <= buttons' /\ IssuedEntry(issued[b])')
<1>1. buttons \in Nat /\ buttons' \in Nat /\ buttons <= buttons'
  BY SessionAssumption DEF ButtonTypes
<1>2. CASE issued'[b] = issued[b]
  BY <1>1, <1>2, LaterFlowOn DEF ButtonTypes, IssuedEntry
<1>3. CASE issued[b].status \in {"issued", "reserved"}
           /\ issued'[b] = [issued[b] EXCEPT !.status = "stale"]
  BY <1>1, <1>3, StaleEntry
<1> QED
  BY <1>2, <1>3 DEF Fades

LEMMA BusyStays ==
    ASSUME ButtonTypes, NEW b \in 1..MaxButton, Fades(b),
           issued'[b].status \in {"reserved", "processing"}
    PROVE  issued'[b] = issued[b]
BY StaleEntry DEF Fades, Unknown

LEMMA DeadStays ==
    ASSUME ButtonTypes, LaterFlow, NEW b \in 1..MaxButton, b <= buttons, Fades(b), Dead(b)
    PROVE  Dead(b)'
<1>1. CASE issued'[b] = issued[b]
  <2>1. CASE issued[b].status \in {"unknown", "stale"}
    BY <1>1, <2>1 DEF Dead
  <2>2. CASE issued[b].status \notin {"unknown", "stale"}
    <3>1. issued[b] # Unknown
      BY <2>2 DEF Unknown
    <3>2. issued[b].generation \in 0..counter
      BY <3>1 DEF ButtonTypes, IssuedEntry
    <3> QED
      BY <1>1, <2>2, <3>2, LaterFlowOn DEF Dead
  <2> QED
    BY <2>1, <2>2
<1>2. CASE issued[b].status \in {"issued", "reserved"}
           /\ issued'[b] = [issued[b] EXCEPT !.status = "stale"]
  BY <1>2, StaleEntry DEF Dead
<1>3. CASE issued'[b] = Unknown
  BY <1>3 DEF Dead, Unknown
<1> QED
  BY <1>1, <1>2, <1>3 DEF Fades, ButtonTypes

LEMMA FadingButtons ==
    ASSUME ButtonInv, LaterFlow, HandlersOK, NobodyBegins,
           issued' = [b \in 1..MaxButton |-> issued'[b]],
           \A b \in 1..MaxButton : Fades(b),
           buttons' \in buttons..MaxButton, aged' \in Nat, UNCHANGED early,
           \A b \in refused' : b \in refused \/ (b \in 1..buttons /\ Dead(b)')
    PROVE  ButtonInv'
<1> USE SessionAssumption DEF ButtonInv
<1>1. \A b \in refused' : b \in 1..buttons
  BY DEF ButtonTypes
<1>2. buttons \in Nat /\ buttons' \in Nat /\ buttons <= buttons'
  BY DEF ButtonTypes
<1>3. ButtonTypes'
  <2>1. counter' \in Nat /\ generation' \in 0..counter'
    BY LaterFlowOn
  <2>2. \A b \in 1..MaxButton :
           issued'[b] = Unknown \/ (b <= buttons' /\ IssuedEntry(issued[b])')
    BY FadedEntry
  <2> QED
    BY <1>1, <1>2, <2>1, <2>2 DEF ButtonTypes, HandlersOK
<1>4. \A b, c \in 1..MaxButton :
         /\ b # c
         /\ issued'[b].status \in {"reserved", "processing"}
         /\ issued'[c].status \in {"reserved", "processing"}
         => Key(issued'[b]) # Key(issued'[c])
  BY BusyStays
<1>5. ASSUME NEW h \in Handler, at'[h] \in Inside, has'[h].button \notin early' \cup {0}
      PROVE  issued'[has'[h].button].status = "processing"
  <2>1. /\ at[h] \in Inside /\ has'[h].button = has[h].button
        /\ has[h].button \notin early \cup {0}
    BY <1>5 DEF NobodyBegins
  <2>2. issued[has[h].button].status = "processing" /\ has[h].button \in 1..buttons
    BY <2>1 DEF ButtonTypes, HasOK
  <2> PICK b : b = has[h].button
    OBVIOUS
  <2>3. b \in 1..MaxButton /\ ~(b > buttons) /\ issued[b].status = "processing"
    BY <2>2 DEF ButtonTypes
  <2>4. issued'[b] = issued[b]
    BY <2>3 DEF Fades
  <2> QED
    BY <2>1, <2>3, <2>4
<1>6. ASSUME NEW b \in refused'
      PROVE  Dead(b)'
  <2>1. b \in refused => b \in 1..MaxButton /\ b <= buttons /\ Dead(b)
    BY DEF ButtonTypes
  <2> QED
    BY <2>1, DeadStays
<1>7. (\A b \in refused : Dead(b))'
  BY <1>6
<1> QED
  BY <1>3, <1>4, <1>5, <1>7

\* A handler moves on.
Holdings(what) ==
    what = [button |-> what.button, scoped |-> what.scoped,
            generation |-> what.generation, input |-> what.input]

LEMMA HandlerMoves ==
    ASSUME ButtonTypes, NEW h \in Handler, NEW place, NEW what, Goes(h, place, what),
           Holdings(what), what.button \in 0..buttons,
           place \in {"pressed", "reserved"} => what.button # 0,
           buttons' \in buttons..MaxButton
    PROVE  /\ HandlersOK
           /\ at'[h] = place /\ has'[h] = what
           /\ \A g \in Handler : g # h => at'[g] = at[g] /\ has'[g] = has[g]
<1>1. /\ at' = [g \in Handler |-> IF g = h THEN place ELSE at[g]]
      /\ has' = [g \in Handler |-> IF g = h THEN what ELSE has[g]]
  BY DEF ButtonTypes, Goes
<1>2. buttons \in Nat /\ buttons' \in Nat /\ buttons <= buttons'
  BY SessionAssumption DEF ButtonTypes
<1>3. HasOK(h)'
  BY <1>1, <1>2 DEF HasOK, Holdings
<1>4. ASSUME NEW g \in Handler, g # h
      PROVE  HasOK(g)'
  BY <1>1, <1>2, <1>4 DEF HasOK, ButtonTypes
<1> QED
  BY <1>1, <1>3, <1>4 DEF HandlersOK

LEMMA HandlersStay ==
    ASSUME ButtonTypes, UNCHANGED <<at, has>>, buttons' \in buttons..MaxButton
    PROVE  HandlersOK /\ NobodyBegins
BY SessionAssumption DEF ButtonTypes, HandlersOK, NobodyBegins, HasOK

LEMMA HandlerGoesOn ==
    ASSUME ButtonTypes, NEW h \in Handler, NEW place, NEW what, Goes(h, place, what),
           Holdings(what), what.button \in 0..buttons,
           place \in {"pressed", "reserved"} => what.button # 0,
           place \in Inside /\ what.button # 0
               => at[h] \in Inside /\ what.button = has[h].button,
           buttons' \in buttons..MaxButton
    PROVE  HandlersOK /\ NobodyBegins
BY HandlerMoves DEF NobodyBegins

LEMMA HandlerLeaves ==
    ASSUME ButtonTypes, NEW h \in Handler, Returns(h) \/ Leaves(h),
           buttons' \in buttons..MaxButton
    PROVE  HandlersOK /\ NobodyBegins
<1>1. PICK place \in {"idle", "leaving"},
           what \in {Nothing, [Nothing EXCEPT !.button = has[h].button]} :
              Goes(h, place, what)
  BY DEF Returns, Leaves
<1>2. Holdings(what) /\ what.button \in {0, has[h].button}
  BY DEF Holdings, Nothing
<1>3. has[h].button \in 0..buttons /\ 0 \in 0..buttons
  BY DEF ButtonTypes, HasOK
<1> QED
  BY <1>1, <1>2, <1>3, HandlerGoesOn DEF Inside

\* What a step leaves alone.
LEMMA ButtonsStay ==
    ASSUME ButtonInv, UNCHANGED oneShots
    PROVE  /\ issued' = [b \in 1..MaxButton |-> issued'[b]]
           /\ \A b \in 1..MaxButton : Fades(b)
           /\ buttons' \in buttons..MaxButton /\ aged' \in Nat
BY SessionAssumption DEF ButtonInv, ButtonTypes, oneShots, Fades

LEMMA KeyboardIssued ==
    ASSUME ButtonInv, NEW keys, Len(keys) \in Nat, NEW scoped,
           Issue(keys, generation, scoped), UNCHANGED counter
    PROVE  /\ issued' = [b \in 1..MaxButton |-> issued'[b]]
           /\ \A b \in 1..MaxButton : Fades(b)
           /\ buttons' \in buttons..MaxButton /\ aged' \in Nat
<1>1. {b \in Known(Cleaned) : issued[b].status = "processing"} = Occupied(Cleaned)
  BY DEF ButtonInv, ButtonTypes, Known, Occupied, Cleaned, Unknown
<1>2. /\ buttons + Len(keys) <= MaxButton
      /\ Len(keys) <= MaxPerUser - Cardinality(Occupied(Cleaned))
      /\ issued' = Registered(keys, generation, scoped)
      /\ buttons' = buttons + Len(keys) /\ aged' = aged
  BY <1>1 DEF Issue
<1>3. Reissued(issued', Len(keys), generation, scoped)
  BY <1>2, RegisteredIsReissued DEF ButtonInv
<1>4. ASSUME NEW b \in 1..MaxButton, b > buttons, b <= buttons',
             issued'[b] = NewButton(generation, scoped, issued'[b].action)
      PROVE  IssuedEntry(issued[b])' /\ issued'[b].status = "issued"
  <2> PICK e : e = issued'[b]
    OBVIOUS
  <2>1. e = [status |-> "issued", generation |-> generation, scoped |-> scoped,
             action |-> e.action]
    BY <1>4 DEF NewButton
  <2>2. generation \in 0..counter'
    BY DEF ButtonInv, ButtonTypes
  <2> QED
    BY <2>1, <2>2 DEF IssuedEntry, Statuses
<1>5. \A b \in 1..MaxButton : Fades(b)
  BY <1>2, <1>3, <1>4 DEF Reissued, Fades
<1> QED
  BY <1>2, <1>3, <1>5, SessionAssumption DEF Reissued, ButtonInv, ButtonTypes

LEMMA FlowInvalidated ==
    ASSUME ButtonInv, InvalidateFlow
    PROVE  /\ issued' = [b \in 1..MaxButton |-> issued'[b]]
           /\ \A b \in 1..MaxButton : Fades(b)
           /\ buttons' \in buttons..MaxButton /\ aged' \in Nat
           /\ LaterFlow
BY SessionAssumption DEF ButtonInv, ButtonTypes, InvalidateFlow, BeginFlow,
   NextGeneration, LaterFlow, Fades

LEMMA NewHoldings ==
    ASSUME NEW g, NEW input
    PROVE  /\ Holdings([Nothing EXCEPT !.generation = g])
           /\ [Nothing EXCEPT !.generation = g].button = 0
           /\ Holdings([Nothing EXCEPT !.generation = g, !.input = input])
           /\ [Nothing EXCEPT !.generation = g, !.input = input].button = 0
<1> DEFINE flowOnly == [Nothing EXCEPT !.generation = g]
           flowAndInput == [flowOnly EXCEPT !.input = input]
<1>1. Holdings(Nothing) /\ Nothing.button = 0
  BY DEF Holdings, Nothing
<1>2. Holdings(flowOnly) /\ flowOnly.button = 0
  BY <1>1 DEF Holdings
<1> HIDE DEF flowOnly
<1>3. Holdings(flowAndInput) /\ flowAndInput.button = 0
  BY <1>2 DEF Holdings
<1>4. flowAndInput = [Nothing EXCEPT !.generation = g, !.input = input]
  BY DEF flowOnly
<1> QED
  BY <1>2, <1>3, <1>4 DEF flowOnly

\* Steps that only open, close or read a flow.
LEMMA FlowStepButtons ==
    ASSUME ButtonInv, NEW h \in Handler,
           \/ CancelText(h) \/ PersistentKey(h) \/ OpenGallery(h)
           \/ Claim(h) \/ Commit(h) \/ Execute(h) \/ Adopt(h) \/ Recheck(h)
           \/ CancelInput(h) \/ ActSearch(h)
    PROVE  ButtonInv'
<1> USE DEF ButtonInv
<1>1. /\ issued' = [b \in 1..MaxButton |-> issued'[b]]
      /\ \A b \in 1..MaxButton : Fades(b)
      /\ buttons' \in buttons..MaxButton /\ aged' \in Nat
      /\ LaterFlow /\ UNCHANGED history
  <2>1. CASE CancelText(h) \/ PersistentKey(h) \/ CancelInput(h)
    BY <2>1, FlowInvalidated DEF CancelText, PersistentKey, CancelInput
  <2>2. CASE \/ OpenGallery(h) \/ Claim(h) \/ Commit(h) \/ Execute(h) \/ Adopt(h)
             \/ Recheck(h) \/ ActSearch(h)
    <3>1. UNCHANGED oneShots /\ UNCHANGED history
      BY <2>2 DEF OpenGallery, Claim, Commit, Execute, Adopt, Recheck, ActSearch
    <3>2. LaterFlow
      BY <2>2 DEF OpenGallery, Claim, Commit, Execute, Adopt, Recheck, ActSearch,
         OpenInput, BeginFlow, NextGeneration, LaterFlow, flow
    <3> QED
      BY <3>1, <3>2, ButtonsStay
  <2> QED
    BY <2>1, <2>2
<1>2. HandlersOK /\ NobodyBegins
  <2>1. CASE CancelText(h)
    BY <1>1, <2>1, HandlersStay DEF CancelText
  <2>2. CASE OpenGallery(h) \/ Commit(h) \/ Execute(h) \/ CancelInput(h)
    BY <1>1, <2>2, HandlerLeaves DEF OpenGallery, Commit, Execute, CancelInput
  <2>3. ASSUME NEW place \in {"idle", "gallery_key", "searching", "claimed"}, NEW what,
               Goes(h, place, what), Holdings(what), what.button \in {0, has[h].button}
        PROVE  HandlersOK /\ NobodyBegins
    <3>1. what.button \in 0..buttons
      BY <2>3 DEF ButtonTypes, HasOK
    <3> QED
      BY <1>1, <2>3, <3>1, HandlerGoesOn DEF Inside
  <2>4. /\ Holdings(Nothing) /\ Nothing.button = 0
        /\ Holdings(has[h])
    BY DEF Holdings, Nothing, ButtonTypes, HasOK
  <2>5. ASSUME NEW g, NEW input
        PROVE  /\ Holdings([Nothing EXCEPT !.generation = g])
               /\ [Nothing EXCEPT !.generation = g].button = 0
               /\ Holdings([Nothing EXCEPT !.generation = g, !.input = input])
               /\ [Nothing EXCEPT !.generation = g, !.input = input].button = 0
    BY NewHoldings
  <2>6. CASE PersistentKey(h)
    <3>1. CASE Returns(h)
      BY <1>1, <3>1, HandlerLeaves
    <3>2. CASE Goes(h, "gallery_key", Nothing)
      BY <2>3, <2>4, <3>2
    <3>3. CASE Goes(h, "searching", [Nothing EXCEPT !.generation = NextGeneration])
      BY <2>3, <2>5, <3>3
    <3> QED
      BY <2>6, <3>1, <3>2, <3>3 DEF PersistentKey
  <2>7. CASE Claim(h)
    <3>1. \/ Goes(h, "searching", [Nothing EXCEPT !.generation = generation])
          \/ Goes(h, "claimed", [Nothing EXCEPT !.generation = generation,
                                                !.input = awaited.input])
      BY <2>7 DEF Claim
    <3> QED
      BY <2>3, <2>5, <3>1
  <2>8. CASE ActSearch(h)
    BY <2>3, <2>4, <2>8 DEF ActSearch
  <2>9. CASE Adopt(h)
    <3> DEFINE what == [has[h] EXCEPT !.generation = generation']
    <3>1. Holdings(what) /\ what.button = has[h].button
      BY DEF Holdings, ButtonTypes, HasOK
    <3>2. at[h] \in Inside /\ Goes(h, "adopted", what)
      BY <2>9 DEF Adopt, Inside
    <3>3. what.button \in 0..buttons
      BY <3>1 DEF ButtonTypes, HasOK
    <3> HIDE DEF what
    <3> QED
      BY <1>1, <3>1, <3>2, <3>3, HandlerGoesOn
  <2>10. CASE Recheck(h)
    <3>1. CASE Leaves(h)
      BY <1>1, <3>1, HandlerLeaves
    <3>2. CASE Goes(h, "acting", has[h])
      <4>1. at[h] \in Inside /\ has[h].button \in 0..buttons
        BY <2>10 DEF Recheck, Inside, ButtonTypes, HasOK
      <4> QED
        BY <1>1, <2>4, <3>2, <4>1, HandlerGoesOn
    <3> QED
      BY <2>10, <3>1, <3>2 DEF Recheck
  <2> QED
    BY <2>1, <2>2, <2>6, <2>7, <2>8, <2>9, <2>10
<1> QED
  BY <1>1, <1>2, FadingButtons DEF history

\* Steps that issue buttons, withdraw one, or let them age.
LEMMA IssueStepButtons ==
    ASSUME ButtonInv,
           \/ \E h \in Handler : SearchEnds(h) \/ Preview(h) \/ Act(h)
           \/ Notification \/ (\E b \in 1..MaxButton : NotificationUnsent(b))
           \/ Age \/ CleanupExpired
    PROVE  ButtonInv'
<1> USE DEF ButtonInv
<1>1. ASSUME NEW h \in Handler, SearchEnds(h) \/ Preview(h) \/ Act(h)
      PROVE  ButtonInv'
  <2>1. /\ UNCHANGED history
        /\ Returns(h) \/ Leaves(h)
    BY <1>1, Zenon DEF SearchEnds, Preview, Act
  <2>2. LaterFlow
    BY <1>1 DEF SearchEnds, Preview, Act, LaterFlow, flow, OpenInput, BeginFlow,
       NextGeneration
  <2>3. \/ UNCHANGED oneShots
        \/ /\ UNCHANGED counter
           /\ \E keys \in Keyboard \cup {<<"sub_create">>} : Issue(keys, generation, TRUE)
    BY <1>1 DEF SearchEnds, Preview, Act, flow
  <2>4. \A keys \in Keyboard \cup {<<"sub_create">>} : Len(keys) \in Nat
    BY SessionAssumption
  <2>5. /\ issued' = [b \in 1..MaxButton |-> issued'[b]]
        /\ \A b \in 1..MaxButton : Fades(b)
        /\ buttons' \in buttons..MaxButton /\ aged' \in Nat
    BY <2>3, <2>4, ButtonsStay, KeyboardIssued
  <2> QED
    BY <2>1, <2>2, <2>5, HandlerLeaves, FadingButtons DEF history
<1>2. CASE Notification
  <2>1. /\ UNCHANGED <<flow, at, has, history>>
        /\ \E keys \in Keyboard : Len(keys) \in Nat /\ Issue(keys, generation, FALSE)
    BY <1>2, SessionAssumption DEF Notification
  <2>2. LaterFlow /\ UNCHANGED counter
    BY <2>1 DEF LaterFlow, flow
  <2>3. /\ issued' = [b \in 1..MaxButton |-> issued'[b]]
        /\ \A b \in 1..MaxButton : Fades(b)
        /\ buttons' \in buttons..MaxButton /\ aged' \in Nat
    BY <2>1, <2>2, KeyboardIssued
  <2> QED
    BY <2>1, <2>2, <2>3, HandlersStay, FadingButtons DEF history
<1>3. ASSUME NEW b \in 1..MaxButton, NotificationUnsent(b)
      PROVE  ButtonInv'
  <2>1. /\ UNCHANGED <<flow, buttons, aged, at, has, history>>
        /\ issued[b].status = "issued" /\ issued' = [issued EXCEPT ![b] = Unknown]
    BY <1>3 DEF NotificationUnsent
  <2>2. /\ issued' = [c \in 1..MaxButton |-> issued'[c]]
        /\ issued'[b] = Unknown /\ issued[b].status # "processing"
        /\ \A c \in 1..MaxButton \ {b} : issued'[c] = issued[c]
    BY <2>1 DEF ButtonTypes
  <2>3. \A c \in 1..MaxButton : Fades(c)
    BY <2>2 DEF Fades
  <2>4. buttons' \in buttons..MaxButton /\ aged' \in Nat
    BY <2>1, SessionAssumption DEF ButtonTypes
  <2>5. LaterFlow
    BY <2>1 DEF LaterFlow, flow
  <2> QED
    BY <2>1, <2>2, <2>3, <2>4, <2>5, HandlersStay, FadingButtons DEF history
<1>4. CASE Age
  <2>1. /\ UNCHANGED <<flow, issued, buttons, at, has, history>> /\ aged' = buttons
    BY <1>4 DEF Age, flow
  <2>2. /\ issued' = [c \in 1..MaxButton |-> issued'[c]]
        /\ \A c \in 1..MaxButton : Fades(c)
        /\ buttons' \in buttons..MaxButton /\ aged' \in Nat
    BY <2>1, SessionAssumption DEF ButtonTypes, Fades
  <2>3. LaterFlow
    BY <2>1 DEF LaterFlow, flow
  <2> QED
    BY <2>1, <2>2, <2>3, HandlersStay, FadingButtons DEF history
<1>5. CASE CleanupExpired
  <2>1. LaterFlow /\ UNCHANGED <<oneShots, at, has, history>>
    BY <1>5 DEF CleanupExpired, LaterFlow
  <2> QED
    BY <2>1, ButtonsStay, HandlersStay, FadingButtons DEF history
<1> QED
  BY <1>1, <1>2, <1>3, <1>4, <1>5

(***************************************************************************)
(* A press, from its beginning to its end.                                 *)
(***************************************************************************)
LEMMA PressButtons ==
    ASSUME ButtonInv, NEW h \in Handler, Press(h)
    PROVE  ButtonInv'
<1> USE DEF ButtonInv
<1>1. UNCHANGED <<flow, oneShots, history>>
  BY DEF Press
<1>2. LaterFlow
  BY <1>1 DEF LaterFlow, flow
<1>3. CASE Goes(h, "processing", Nothing)
  <2>1. Holdings(Nothing) /\ Nothing.button = 0 /\ 0 \in 0..buttons
    BY DEF Holdings, Nothing, ButtonTypes
  <2>2. HandlersOK /\ NobodyBegins
    BY <1>1, <1>3, <2>1, ButtonsStay, HandlerGoesOn
  <2> QED
    BY <1>1, <1>2, <2>2, ButtonsStay, FadingButtons DEF history
<1>4. ASSUME NEW b \in 1..buttons, Goes(h, "pressed", [Nothing EXCEPT !.button = b])
      PROVE  ButtonInv'
  <2> DEFINE what == [Nothing EXCEPT !.button = b]
  <2>1. Holdings(Nothing)
    BY DEF Holdings, Nothing
  <2>2. Holdings(what) /\ what.button \in 0..buttons /\ what.button # 0
    <3>1. Holdings(what) /\ what.button = b
      BY <2>1 DEF Holdings
    <3> QED
      BY <3>1 DEF ButtonTypes
  <2>3. Goes(h, "pressed", what) /\ "pressed" \notin Inside
    BY <1>4 DEF Inside
  <2> HIDE DEF what
  <2>4. HandlersOK /\ NobodyBegins
    BY <1>1, <2>2, <2>3, ButtonsStay, HandlerGoesOn
  <2> QED
    BY <1>1, <1>2, <2>4, ButtonsStay, FadingButtons DEF history
<1> QED
  BY <1>3, <1>4 DEF Press

LEMMA BeginButtons ==
    ASSUME ButtonInv, NEW h \in Handler, Begin(h)
    PROVE  ButtonInv'
<1> USE DEF ButtonInv
<1> PICK b : b = has[h].button
  OBVIOUS
<1> DEFINE begins == issued[b].status = "reserved" /\ CurrentButton(issued[b])
<1>1. /\ at[h] = "reserved" /\ UNCHANGED <<flow, buttons, aged, history>>
      /\ b \in 1..MaxButton /\ b \in 1..buttons
  BY SessionAssumption DEF Begin, ButtonTypes, HasOK
<1>2. LaterFlow /\ buttons' \in buttons..MaxButton
  BY <1>1, SessionAssumption DEF LaterFlow, flow, ButtonTypes
<1>3. CASE ~begins
  <2>1. issued' = issued /\ Leaves(h)
    BY <1>3 DEF Begin
  <2> QED
    BY <1>1, <1>2, <2>1, HandlerLeaves, ButtonsStay, FadingButtons DEF oneShots, history
<1>4. CASE begins
  <2> DEFINE what == [has[h] EXCEPT !.scoped = issued[b].scoped]
  <2>1. issued' = [issued EXCEPT ![b].status = "processing"] /\ Goes(h, "processing", what)
    BY <1>4 DEF Begin
  <2>2. Holdings(what) /\ what.button = b
    BY DEF Holdings, ButtonTypes, HasOK
  <2>3. b \in 0..buttons
    BY <1>1
  <2> HIDE DEF what
  <2>4. /\ HandlersOK /\ at'[h] = "processing" /\ has'[h] = what
        /\ \A g \in Handler : g # h => at'[g] = at[g] /\ has'[g] = has[g]
    BY <1>2, <2>1, <2>2, <2>3, HandlerMoves
  <2>5. /\ \A c \in 1..MaxButton : c # b => issued'[c] = issued[c]
        /\ issued'[b] = [issued[b] EXCEPT !.status = "processing"]
        /\ issued' = [c \in 1..MaxButton |-> issued'[c]]
    BY <1>1, <2>1 DEF ButtonTypes
  <2>6. /\ IssuedEntry(issued[b])' /\ issued'[b].status = "processing"
        /\ Key(issued'[b]) = Key(issued[b])
        /\ issued'[b].scoped = issued[b].scoped
        /\ issued'[b].generation = issued[b].generation
    <3>1. issued[b] # Unknown
      BY <1>4 DEF Unknown
    <3>2. IssuedEntry(issued[b])
      BY <1>1, <3>1 DEF ButtonTypes
    <3> PICK e : e = issued[b]
      OBVIOUS
    <3> PICK f : f = issued'[b]
      OBVIOUS
    <3>3. f = [status |-> "processing", generation |-> e.generation,
               scoped |-> e.scoped, action |-> e.action]
      BY <2>5, <3>2 DEF IssuedEntry
    <3>4. counter' = counter
      BY <1>1 DEF flow
    <3> QED
      BY <3>2, <3>3, <3>4 DEF IssuedEntry, Statuses, Key
  <2>7. ButtonTypes'
    <3>1. UNCHANGED <<generation, counter, buttons, aged, refused>>
      BY <1>1 DEF flow, history
    <3>2. \A c \in 1..MaxButton :
             issued'[c] = Unknown \/ (c <= buttons' /\ IssuedEntry(issued[c])')
      BY <1>1, <2>5, <2>6, <3>1 DEF ButtonTypes, IssuedEntry
    <3> QED
      BY <2>4, <2>5, <3>1, <3>2 DEF ButtonTypes, HandlersOK
  <2>8. \A x, y \in 1..MaxButton :
           /\ x # y
           /\ issued'[x].status \in {"reserved", "processing"}
           /\ issued'[y].status \in {"reserved", "processing"}
           => Key(issued'[x]) # Key(issued'[y])
    <3>1. \A x \in 1..MaxButton :
             /\ Key(issued'[x]) = Key(issued[x])
             /\ issued'[x].status \in {"reserved", "processing"}
                  => issued[x].status \in {"reserved", "processing"}
      BY <1>4, <2>5, <2>6
    <3> QED
      BY <3>1
  <2>9. \A g \in Handler :
           at'[g] \in Inside /\ has'[g].button \notin early' \cup {0}
           => issued'[has'[g].button].status = "processing"
    <3> TAKE g \in Handler
    <3>1. early' = early
      BY <1>1 DEF history
    <3>2. CASE g = h
      BY <2>2, <2>4, <2>6, <3>2
    <3>3. CASE g # h
      <4>1. at'[g] = at[g] /\ has'[g] = has[g]
        BY <2>4, <3>3
      <4> PICK c : c = has[g].button
        OBVIOUS
      <4>2. c # 0 => c \in 1..MaxButton
        BY SessionAssumption DEF ButtonTypes, HasOK
      <4>3. c # 0 /\ issued[c].status = "processing" => issued'[c].status = "processing"
        BY <2>5, <2>6, <4>2
      <4> QED
        BY <3>1, <4>1, <4>3
    <3> QED
      BY <3>2, <3>3
  <2>10. (\A c \in refused : Dead(c))'
    <3>1. \A c \in refused : c \in 1..MaxButton
      BY SessionAssumption DEF ButtonTypes
    <3>2. refused' = refused /\ generation' = generation
      BY <1>1 DEF history, flow
    <3>3. ASSUME NEW c \in refused
          PROVE  Dead(c)'
      <4>1. c \in 1..MaxButton /\ Dead(c)
        BY <3>1
      <4>2. CASE c = b
        BY <1>4, <2>6, <3>2, <4>1, <4>2 DEF Dead
      <4>3. CASE c # b
        BY <2>5, <3>2, <4>1, <4>3 DEF Dead
      <4> QED
        BY <4>2, <4>3
    <3> QED
      BY <3>2, <3>3
  <2> QED
    BY <2>7, <2>8, <2>9, <2>10
<1> QED
  BY <1>3, <1>4

\* How a reservation changes the button c when b is pressed.
Answered(r, b, c) ==
    IF c = b /\ Outcome(r, b) = "accepted" THEN [r[c] EXCEPT !.status = "reserved"]
    ELSE IF \/ c = b /\ Outcome(r, b) = "twin"
            \/ /\ Outcome(r, b) = "accepted" /\ c \in Twins(r, b)
               /\ r[c].status = "issued"
    THEN [r[c] EXCEPT !.status = "stale"]
    ELSE r[c]

LEMMA CleanedEntry ==
    ASSUME ButtonTypes, NEW c \in 1..MaxButton
    PROVE  \/ Cleaned[c] = issued[c]
           \/ Cleaned[c] = Unknown /\ issued[c].status # "processing"
BY DEF Cleaned, ButtonTypes

LEMMA AnsweredFades ==
    ASSUME ButtonTypes, NEW b, NEW c \in 1..MaxButton,
           issued'[c] = Answered(Cleaned, b, c),
           c # b \/ Outcome(Cleaned, b) # "accepted"
    PROVE  Fades(c)
<1> PICK r : r = Cleaned
  OBVIOUS
<1>1. CASE issued'[c] = r[c]
  BY <1>1, CleanedEntry DEF Fades
<1>2. CASE issued'[c] # r[c]
  <2>1. /\ r[c].status = "issued"
        /\ issued'[c] = [r[c] EXCEPT !.status = "stale"]
    BY <1>2 DEF Answered, Outcome
  <2>2. r[c] = issued[c]
    BY <2>1, CleanedEntry DEF Unknown
  <2> QED
    BY <2>1, <2>2 DEF Fades
<1> QED
  BY <1>1, <1>2

LEMMA ReserveButtons ==
    ASSUME ButtonInv, NEW h \in Handler, Reserve(h)
    PROVE  ButtonInv'
<1> USE DEF ButtonInv
<1> PICK b : b = has[h].button
  OBVIOUS
<1> PICK r : r = Cleaned
  OBVIOUS
<1> PICK outcome : outcome = Outcome(r, b)
  OBVIOUS
<1>1. /\ at[h] = "pressed" /\ UNCHANGED <<flow, buttons, aged, early>>
      /\ issued' = [c \in DOMAIN r |-> Answered(r, b, c)]
      /\ IF outcome = "accepted" THEN Goes(h, "reserved", has[h]) ELSE Leaves(h)
      /\ refused' = IF outcome = "stale" THEN refused \cup {b} ELSE refused
  BY DEF Reserve, Answered
<1>2. /\ b \in 1..MaxButton /\ b \in 1..buttons /\ DOMAIN r = 1..MaxButton
      /\ \A c \in 1..MaxButton : issued'[c] = Answered(r, b, c)
      /\ issued' = [c \in 1..MaxButton |-> issued'[c]]
  <2>1. b \in 1..buttons
    BY <1>1 DEF ButtonTypes, HasOK
  <2>2. DOMAIN r = 1..MaxButton
    BY DEF Cleaned, ButtonTypes
  <2> QED
    BY <1>1, <2>1, <2>2, SessionAssumption DEF ButtonTypes
<1>3. LaterFlow /\ buttons' \in buttons..MaxButton /\ aged' \in Nat
  BY <1>1, SessionAssumption DEF LaterFlow, flow, ButtonTypes
<1>4. CASE outcome # "accepted"
  <2>1. \A c \in 1..MaxButton : Fades(c)
    BY <1>2, <1>4, AnsweredFades
  <2>2. HandlersOK /\ NobodyBegins
    BY <1>1, <1>3, <1>4, HandlerLeaves
  <2>3. ASSUME outcome = "stale"
        PROVE  Dead(b)'
    <3>1. issued'[b] = r[b]
      BY <1>2, <2>3 DEF Answered
    <3>2. \/ r[b].status \in {"unknown", "stale"}
          \/ r[b].scoped /\ r[b].generation # generation
      BY <2>3 DEF Outcome, CurrentButton
    <3>3. generation' = generation
      BY <1>1 DEF flow
    <3> QED
      BY <3>1, <3>2, <3>3 DEF Dead
  <2>4. \A c \in refused' : c \in refused \/ (c \in 1..buttons /\ Dead(c)')
    <3> TAKE c \in refused'
    <3>1. c \in refused \/ (c = b /\ outcome = "stale")
      BY <1>1
    <3> QED
      BY <1>2, <2>3, <3>1
  <2> QED
    BY <1>1, <1>2, <1>3, <2>1, <2>2, <2>4, FadingButtons
<1>5. CASE outcome = "accepted"
  <2>1. /\ r[b].status = "issued" /\ CurrentButton(r[b]) /\ ~Busy(r, b)
        /\ issued'[b] = [r[b] EXCEPT !.status = "reserved"]
    BY <1>2, <1>5 DEF Outcome, Answered
  <2>2. r[b] = issued[b] /\ issued[b].status = "issued"
    BY <1>2, <2>1, CleanedEntry DEF Unknown
  <2>3. /\ IssuedEntry(issued[b])' /\ issued'[b].status = "reserved"
        /\ Key(issued'[b]) = Key(issued[b])
        /\ issued'[b].scoped = issued[b].scoped
        /\ issued'[b].generation = issued[b].generation
    <3>1. issued[b] # Unknown
      BY <2>2 DEF Unknown
    <3>2. IssuedEntry(issued[b])
      BY <1>2, <3>1 DEF ButtonTypes
    <3> PICK e : e = issued[b]
      OBVIOUS
    <3> PICK f : f = issued'[b]
      OBVIOUS
    <3>3. f = [status |-> "reserved", generation |-> e.generation,
               scoped |-> e.scoped, action |-> e.action]
      BY <2>1, <2>2, <3>2 DEF IssuedEntry
    <3>4. counter' = counter
      BY <1>1 DEF flow
    <3> QED
      BY <3>2, <3>3, <3>4 DEF IssuedEntry, Statuses, Key
  <2>4. \A c \in 1..MaxButton : c # b => Fades(c)
    BY <1>2, AnsweredFades
  <2>5. /\ HandlersOK /\ at'[h] = "reserved" /\ has'[h] = has[h]
        /\ \A g \in Handler : g # h => at'[g] = at[g] /\ has'[g] = has[g]
    <3>1. Holdings(has[h]) /\ has[h].button \in 0..buttons /\ has[h].button # 0
      BY <1>1 DEF Holdings, ButtonTypes, HasOK
    <3> QED
      BY <1>1, <1>3, <1>5, <3>1, HandlerMoves
  <2>6. ButtonTypes'
    <3>1. UNCHANGED <<generation, counter, buttons, aged, refused>>
      BY <1>1, <1>5 DEF flow
    <3>2. \A c \in 1..MaxButton :
             issued'[c] = Unknown \/ (c <= buttons' /\ IssuedEntry(issued[c])')
      <4> TAKE c \in 1..MaxButton
      <4>1. CASE c = b
        BY <1>2, <2>3, <3>1, <4>1
      <4>2. CASE c # b
        BY <1>3, <2>4, <4>2, FadedEntry
      <4> QED
        BY <4>1, <4>2
    <3> QED
      BY <1>2, <2>5, <3>1, <3>2 DEF ButtonTypes, HandlersOK
  <2>7. \A c \in 1..MaxButton :
           c # b /\ issued'[c].status \in {"reserved", "processing"}
           => issued'[c] = issued[c] /\ Key(issued'[c]) # Key(issued'[b])
    <3> TAKE c \in 1..MaxButton
    <3> HAVE c # b /\ issued'[c].status \in {"reserved", "processing"}
    <3>1. issued'[c] = issued[c]
      BY <2>4, BusyStays
    <3>2. issued[c].status # "issued"
      BY <3>1
    <3>3. r[c] = issued[c]
      <4>1. r[c] = Unknown => issued'[c] = Unknown
        BY <1>2 DEF Answered, Unknown
      <4> QED
        BY <4>1, CleanedEntry DEF Unknown
    <3>4. c \in Known(r)
      BY <1>2, <3>1, <3>3 DEF Known
    <3>5. c \notin Twins(r, b)
      BY <2>1, <3>1, <3>3 DEF Busy
    <3> QED
      BY <2>2, <2>3, <3>1, <3>3, <3>4, <3>5 DEF Twins
  <2>8. ASSUME NEW x \in 1..MaxButton, NEW y \in 1..MaxButton, x # y,
               issued'[x].status \in {"reserved", "processing"},
               issued'[y].status \in {"reserved", "processing"}
        PROVE  Key(issued'[x]) # Key(issued'[y])
    <3>1. CASE x = b \/ y = b
      BY <2>7, <2>8, <3>1
    <3>2. CASE x # b /\ y # b
      <4>1. issued'[x] = issued[x] /\ issued'[y] = issued[y]
        BY <2>7, <2>8, <3>2
      <4> QED
        BY <2>8, <4>1
    <3> QED
      BY <3>1, <3>2
  <2>9. ASSUME NEW g \in Handler, at'[g] \in Inside,
               has'[g].button \notin early' \cup {0}
        PROVE  issued'[has'[g].button].status = "processing"
    <3>1. g # h /\ at'[g] = at[g] /\ has'[g] = has[g] /\ early' = early
      BY <1>1, <2>5, <2>9 DEF Inside
    <3> PICK c : c = has[g].button
      OBVIOUS
    <3>2. c # 0 /\ issued[c].status = "processing"
      BY <2>9, <3>1
    <3>3. c \in 1..MaxButton /\ c <= buttons /\ c # b
      BY <2>2, <3>2, SessionAssumption DEF ButtonTypes, HasOK
    <3>4. Fades(c) /\ ~(c > buttons)
      BY <2>4, <3>3 DEF ButtonTypes
    <3>5. issued'[c] = issued[c]
      BY <3>2, <3>4 DEF Fades
    <3> QED
      BY <3>1, <3>2, <3>5
  <2>10. ASSUME NEW c \in refused'
         PROVE  Dead(c)'
    <3>1. c \in refused /\ c \in 1..MaxButton /\ c <= buttons /\ Dead(c)
      BY <1>1, <1>5, SessionAssumption DEF ButtonTypes
    <3>2. CASE c # b
      BY <1>3, <2>4, <3>1, <3>2, DeadStays
    <3>3. CASE c = b
      <4>1. generation' = generation
        BY <1>1 DEF flow
      <4> QED
        BY <2>2, <2>3, <3>1, <3>3, <4>1 DEF Dead
    <3> QED
      BY <3>2, <3>3
  <2>11. (\A c \in refused : Dead(c))'
    BY <2>10
  <2> QED
    BY <2>6, <2>8, <2>9, <2>11
<1> QED
  BY <1>4, <1>5

LEMMA FinishButtons ==
    ASSUME ButtonInv, NEW h \in Handler, Finish(h)
    PROVE  ButtonInv'
<1> USE DEF ButtonInv
<1> PICK b : b = has[h].button
  OBVIOUS
<1> DEFINE consumes == b # 0 /\ issued[b].status = "processing"
<1>1. /\ at[h] = "leaving" /\ UNCHANGED <<flow, buttons, aged, refused>> /\ Returns(h)
      /\ issued' = IF consumes THEN [issued EXCEPT ![b].status = "consumed"] ELSE issued
      /\ early' = IF InBody(b) = {} THEN early \ {b}
                  ELSE IF consumes THEN early \cup {b} ELSE early
      /\ b \in 0..MaxButton /\ b \in 0..buttons
  BY SessionAssumption DEF Finish, ButtonTypes, HasOK
<1>2. /\ UNCHANGED <<generation, counter, buttons, aged, refused>>
      /\ buttons' \in buttons..MaxButton
  BY <1>1, SessionAssumption DEF flow, ButtonTypes
<1>3. HandlersOK /\ NobodyBegins
  BY <1>1, <1>2, HandlerLeaves
<1>4. /\ issued' = [c \in 1..MaxButton |-> issued'[c]]
      /\ \A c \in 1..MaxButton : c # b => issued'[c] = issued[c]
      /\ consumes => issued'[b] = [issued[b] EXCEPT !.status = "consumed"]
      /\ ~consumes => issued' = issued
  <2>1. CASE consumes
    <3>1. issued' = [issued EXCEPT ![b].status = "consumed"] /\ b \in 1..MaxButton
      BY <1>1, <2>1
    <3> QED
      BY <2>1, <3>1 DEF ButtonTypes
  <2>2. CASE ~consumes
    <3>1. issued' = issued
      BY <1>1, <2>2
    <3> QED
      BY <2>2, <3>1 DEF ButtonTypes
  <2> QED
    BY <2>1, <2>2
<1>5. consumes => /\ b \in 1..MaxButton /\ b <= buttons
                  /\ IssuedEntry(issued[b])' /\ issued'[b].status = "consumed"
                  /\ issued'[b].scoped = issued[b].scoped
                  /\ issued'[b].generation = issued[b].generation
  <2> HAVE consumes
  <2>1. b \in 1..MaxButton /\ issued[b] # Unknown
    BY <1>1 DEF Unknown
  <2>2. IssuedEntry(issued[b]) /\ b <= buttons
    BY <2>1 DEF ButtonTypes
  <2> PICK e : e = issued[b]
    OBVIOUS
  <2> PICK f : f = issued'[b]
    OBVIOUS
  <2>3. f = [status |-> "consumed", generation |-> e.generation,
             scoped |-> e.scoped, action |-> e.action]
    BY <1>4, <2>2 DEF IssuedEntry
  <2> QED
    BY <1>2, <2>1, <2>2, <2>3 DEF IssuedEntry, Statuses
<1>6. ButtonTypes'
  <2>1. \A c \in 1..MaxButton :
           issued'[c] = Unknown \/ (c <= buttons' /\ IssuedEntry(issued[c])')
    <3> TAKE c \in 1..MaxButton
    <3>1. CASE c = b /\ consumes
      BY <1>2, <1>5, <3>1
    <3>2. CASE issued'[c] = issued[c]
      BY <1>2, <3>2 DEF ButtonTypes, IssuedEntry
    <3> QED
      BY <1>4, <3>1, <3>2
  <2> QED
    BY <1>2, <1>3, <1>4, <2>1 DEF ButtonTypes, HandlersOK
<1>7. ASSUME NEW c \in 1..MaxButton, issued'[c].status \in {"reserved", "processing"}
      PROVE  issued'[c] = issued[c]
  BY <1>4, <1>5, <1>7
<1>8. \A x, y \in 1..MaxButton :
         /\ x # y
         /\ issued'[x].status \in {"reserved", "processing"}
         /\ issued'[y].status \in {"reserved", "processing"}
         => Key(issued'[x]) # Key(issued'[y])
  BY <1>7
<1>9. ASSUME NEW g \in Handler, at'[g] \in Inside,
             has'[g].button \notin early' \cup {0}
      PROVE  issued'[has'[g].button].status = "processing"
  <2> PICK c : c = has'[g].button
    OBVIOUS
  <2>1. at[g] \in Inside /\ has[g].button = c /\ c # 0 /\ c \notin early'
    BY <1>3, <1>9 DEF NobodyBegins
  <2>2. c \in 1..MaxButton
    BY <2>1, SessionAssumption DEF ButtonTypes, HasOK
  <2>3. CASE c # b
    <3>1. c \notin early
      BY <1>1, <2>1, <2>3
    <3>2. issued[c].status = "processing"
      BY <2>1, <3>1
    <3> QED
      BY <1>4, <2>2, <2>3, <3>2
  <2>4. CASE c = b
    <3>1. InBody(b) # {}
      BY <2>1, <2>4 DEF InBody
    <3>2. ~consumes /\ c \notin early
      BY <1>1, <2>1, <2>4, <3>1
    <3>3. issued[c].status = "processing"
      BY <2>1, <3>2
    <3> QED
      BY <2>1, <2>4, <3>2, <3>3
  <2> QED
    BY <2>3, <2>4
<1>10. ASSUME NEW c \in refused'
       PROVE  Dead(c)'
  <2>1. c \in 1..MaxButton /\ Dead(c)
    BY <1>2, SessionAssumption DEF ButtonTypes
  <2>2. CASE c = b /\ consumes
    BY <1>2, <1>5, <2>1, <2>2 DEF Dead
  <2>3. CASE issued'[c] = issued[c]
    BY <1>2, <2>1, <2>3 DEF Dead
  <2> QED
    BY <1>4, <2>1, <2>2, <2>3
<1>11. (\A c \in refused : Dead(c))'
  BY <1>10
<1> QED
  BY <1>6, <1>8, <1>9, <1>11

LEMMA ButtonStep ==
    ASSUME ButtonInv, [SessionNext]_session
    PROVE  ButtonInv'
<1>1. CASE UNCHANGED session
  <2>1. /\ LaterFlow /\ UNCHANGED <<at, has, early, refused>> /\ UNCHANGED oneShots
    BY <1>1 DEF session, flow, history, LaterFlow
  <2> QED
    BY <2>1, ButtonsStay, HandlersStay, FadingButtons DEF ButtonInv
<1> QED
  BY <1>1, FlowStepButtons, IssueStepButtons, PressButtons, ReserveButtons,
     BeginButtons, FinishButtons DEF SessionNext

\* Of a handler that has reserved its button.
LEMMA OnlyBeginBegins ==
    ASSUME ButtonTypes, [SessionNext]_session, NEW h \in Handler,
           at[h] = "reserved", at'[h] = "processing"
    PROVE  Begin(h)
<1>1. at' # at
  OBVIOUS
<1>2. PICK g \in Handler :
         \/ CancelText(g) \/ PersistentKey(g) \/ OpenGallery(g)
         \/ Claim(g) \/ Commit(g) \/ Execute(g)
         \/ SearchEnds(g) \/ Preview(g)
         \/ Press(g) \/ Reserve(g) \/ Begin(g) \/ Adopt(g) \/ Recheck(g)
         \/ Act(g) \/ CancelInput(g) \/ ActSearch(g) \/ Finish(g)
  BY <1>1 DEF SessionNext, session, Notification, NotificationUnsent, Age, CleanupExpired
<1>3. \E place : at' = [at EXCEPT ![g] = place]
  BY <1>1, <1>2, Zenon DEF CancelText, PersistentKey, OpenGallery, Claim, Commit, Execute,
     SearchEnds, Preview, Press, Reserve, Begin, Adopt, Recheck, Act, CancelInput,
     ActSearch, Finish, Returns, Leaves, Goes
<1>4. g = h
  BY <1>3 DEF ButtonTypes
<1> QED
  BY <1>2, <1>4 DEF CancelText, PersistentKey, OpenGallery, Claim, Commit, Execute,
     SearchEnds, Preview, Press, Reserve, Adopt, Recheck, Act, CancelInput,
     ActSearch, Finish

LEMMA ButtonInitOK == SessionInit => ButtonInv
<1> SUFFICES ASSUME SessionInit  PROVE ButtonInv
  OBVIOUS
<1>1. Nothing.button = 0 /\ Holdings(Nothing)
  BY DEF Nothing, Holdings
<1>2. \A h \in Handler : has[h] = Nothing /\ at[h] = "idle"
  BY DEF SessionInit
<1>3. \A h \in Handler : HasOK(h)
  BY <1>1, <1>2 DEF HasOK, Holdings, SessionInit
<1>4. \A b \in 1..MaxButton : issued[b] = Unknown /\ issued[b].status = "unknown"
  BY DEF SessionInit, Unknown
<1>5. ButtonTypes
  BY <1>3, <1>4, SessionAssumption DEF SessionInit, ButtonTypes
<1> QED
  BY <1>2, <1>4, <1>5 DEF SessionInit, ButtonInv, Inside

\* Of the buttons for one action in one flow a single press runs at a time, for
\* any number of handlers, buttons and flows and whatever the registry evicts
\* (reserve_one_shot_callback_result, begin_one_shot_processing).
THEOREM OneTwinRuns == SessionSpec => []TwinsExcused
<1>1. ButtonInv => TwinsExcused
  <2> SUFFICES ASSUME ButtonInv, NEW g \in Handler, NEW h \in Handler,
                      at[g] \in Inside, has[g].button \notin early \cup {0},
                      at[h] \in Inside, has[h].button \notin early \cup {0},
                      has[g].button # has[h].button
               PROVE  Key(issued[has[g].button]) # Key(issued[has[h].button])
    BY DEF TwinsExcused
  <2>1. /\ has[g].button \in 1..MaxButton /\ has[h].button \in 1..MaxButton
    BY SessionAssumption DEF ButtonInv, ButtonTypes, HasOK
  <2>2. /\ issued[has[g].button].status = "processing"
        /\ issued[has[h].button].status = "processing"
    BY DEF ButtonInv
  <2> QED
    BY <2>1, <2>2 DEF ButtonInv
<1> QED
  BY <1>1, ButtonInitOK, ButtonStep, PTL DEF SessionSpec

\* A button whose press was refused as stale never acts, however the flows go on,
\* but for one issued before the user's first flow (reserve_one_shot_callback_result,
\* begin_one_shot_processing, OperationGenerations.clear).
THEOREM StaleStaysStale == SessionSpec => StaleForGood
<1>1. ASSUME ButtonInv, [SessionNext]_session, NEW h \in Handler,
             at[h] = "reserved", at'[h] = "processing", has[h].button \in refused
      PROVE  issued[has[h].button].generation = 0
  <2> PICK b : b = has[h].button
    OBVIOUS
  <2>1. issued[b].status = "reserved" /\ CurrentButton(issued[b])
    <3>1. Begin(h)
      BY <1>1, OnlyBeginBegins DEF ButtonInv
    <3> QED
      BY <1>1, <3>1 DEF Begin, Leaves, Goes, ButtonInv, ButtonTypes
  <2>2. Dead(b)
    BY <1>1 DEF ButtonInv
  <2> QED
    BY <2>1, <2>2 DEF Dead, CurrentButton
<1>2. ButtonInv /\ [SessionNext]_session
         => [\A h \in Handler :
                at[h] = "reserved" /\ at'[h] = "processing" /\ has[h].button \in refused
                => issued[has[h].button].generation = 0]_session
  BY <1>1
<1> QED
  BY <1>2, ButtonInitOK, ButtonStep, PTL DEF SessionSpec, StaleForGood

=============================================================================
