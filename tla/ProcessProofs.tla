------------------------------- MODULE ProcessProofs -------------------------------
(***************************************************************************)
(* What a process is made of, for every number of processes, migrations,   *)
(* payloads and requests: background work runs in one process and over a   *)
(* whole database, the message after an update names the version that      *)
(* sends it, a button finds its payload unless something has lost it, the  *)
(* limiter keeps its rates and its pauses and forgets nobody, and an       *)
(* export that was cancelled does not go on.                               *)
(***************************************************************************)
EXTENDS BotProcess, CallbackPayloads, TelegramLimiter, ZipExport,
    WellFoundedInduction, TLAPS

-----------------------------------------------------------------------------
(* The lock and the database.                                              *)
-----------------------------------------------------------------------------

Held == Phases \ {"off", "waiting"}

\* The phases in which a process may have background work.
Serving == {"starting", "running", "draining", "stopping"}

\* Those that a process enters over a migrated database.
Migrated == {"announcing", "starting", "running", "draining"}

(***************************************************************************)
(* The connection of init_db: every statement before the next one has done *)
(* its part, in what the connection sees.                                  *)
(***************************************************************************)
BaseDone(n) == \A i \in DOMAIN Base : i < n => Base[i].unless \in work.schema

MigratedTo(n) ==
    \A i \in DOMAIN Version :
        i < n => /\ Version[i] \in work.recorded
                 /\ Needs[Version[i]] \subseteq work.schema

WorkInv ==
    /\ work \in [at : {"closed", "base", "versioned"}, next : Nat,
                 schema : SUBSET Feature, recorded : SUBSET DOMAIN Needs]
    /\ work.at # "closed" => work.next > 0
    /\ work.at = "base" => BaseDone(work.next)
    /\ work.at = "versioned" => BaseDone(Len(Base) + 1) /\ MigratedTo(work.next)

DatabaseInv ==
    /\ schema \in SUBSET Feature
    /\ recorded \in SUBSET DOMAIN Needs
    /\ WorkInv

(***************************************************************************)
(* The inductive invariant.  The lock is held in every phase but the first *)
(* two, and a database is whole once init_db has returned: only the holder *)
(* of the lock touches it, and has no work of its own while it does.       *)
(***************************************************************************)
Whole == Complete(schema, recorded)

LifeOK(p) ==
    /\ at[p] \in Held => holder = p
    /\ at[p] \in Migrated => Whole
    /\ tasks[p] # {} => at[p] \in Serving /\ Whole
    /\ update[p] # "none" => Handling(p)

ProcessInv ==
    /\ at \in [Process -> Phases]
    /\ tasks \in [Process -> SUBSET {Tasks[i] : i \in DOMAIN Tasks}]
    /\ update \in [Process -> Stages]
    /\ \A p \in Process : LifeOK(p)
    /\ DatabaseInv

LEMMA MigrationTypes ==
    /\ DOMAIN Base = 1..Len(Base) /\ Len(Base) \in Nat
    /\ DOMAIN Version = 1..Len(Version) /\ Len(Version) \in Nat
    /\ \A i \in DOMAIN Base :
          /\ Base[i].unless \in Feature /\ Base[i].adds \in SUBSET Feature
          /\ Base[i].unless \in Base[i].adds
    /\ DOMAIN Needs = {Version[i] : i \in DOMAIN Version}
    /\ \A v \in DOMAIN Needs : Needs[v] \in SUBSET Feature
<1> DEFINE V == {Version[i] : i \in DOMAIN Version}
           S == [adds : SUBSET Feature, unless : Feature]
<1>1. /\ DOMAIN Base = 1..Len(Base) /\ Len(Base) \in Nat
      /\ DOMAIN Version = 1..Len(Version) /\ Len(Version) \in Nat
  BY MigrationAssumption
<1>2. \A i \in DOMAIN Base : Base[i] \in S /\ Base[i].unless \in Base[i].adds
  <2>1. Base \in Seq(S) /\ \A i \in DOMAIN Base : Base[i].unless \in Base[i].adds
    BY MigrationAssumption
  <2> HIDE DEF S
  <2> QED
    BY <2>1
<1>3. Needs \in [V -> SUBSET Feature]
  BY MigrationAssumption
<1> HIDE DEF V
<1>4. DOMAIN Needs = V /\ \A v \in DOMAIN Needs : Needs[v] \in SUBSET Feature
  BY <1>3
<1> QED
  BY <1>1, <1>2, <1>4 DEF V

LEMMA NoWorkIsFine ==
    ASSUME work = NoWork  PROVE  WorkInv
BY MigrationTypes DEF WorkInv, NoWork

\* A statement of the base part leaves its feature in the database.
LEMMA StatementDone ==
    ASSUME DatabaseInv, BaseStatement
    PROVE  DatabaseInv'
<1> PICK n, s : n = work.next /\ s = AddedBy(Base[n], work.schema)
  OBVIOUS
<1>1. /\ work \in [at : {"closed", "base", "versioned"}, next : Nat,
                   schema : SUBSET Feature, recorded : SUBSET DOMAIN Needs]
      /\ work.at = "base" /\ n \in 1..Len(Base) /\ BaseDone(n)
      /\ work' = [work EXCEPT !.next = n + 1, !.schema = s]
      /\ schema' \in {s, schema} /\ recorded' = recorded
  BY DEF DatabaseInv, WorkInv, BaseStatement
<1>2. /\ s \in SUBSET Feature /\ work.schema \subseteq s
      /\ Base[n].unless \in s
  BY <1>1, MigrationTypes DEF AddedBy
<1>3. /\ work'.at = "base" /\ work'.next = n + 1 /\ work'.schema = s
      /\ work' \in [at : {"closed", "base", "versioned"}, next : Nat,
                    schema : SUBSET Feature, recorded : SUBSET DOMAIN Needs]
  <2>1. n + 1 \in Nat
    BY <1>1
  <2> QED
    BY <1>1, <1>2, <2>1
<1>4. BaseDone(n + 1)'
  <2> SUFFICES ASSUME NEW i \in DOMAIN Base, i < n + 1
               PROVE  Base[i].unless \in s
    BY <1>3 DEF BaseDone
  <2> QED
    BY <1>1, <1>2, MigrationTypes DEF BaseDone
<1> QED
  BY <1>1, <1>2, <1>3, <1>4 DEF DatabaseInv, WorkInv

LEMMA BaseCommitted ==
    ASSUME DatabaseInv, CommitBase
    PROVE  DatabaseInv'
<1>1. /\ work \in [at : {"closed", "base", "versioned"}, next : Nat,
                   schema : SUBSET Feature, recorded : SUBSET DOMAIN Needs]
      /\ BaseDone(work.next) /\ work.next > Len(Base)
      /\ work' = [work EXCEPT !.at = "versioned", !.next = 1]
      /\ schema' = work.schema /\ recorded' = recorded
  BY DEF DatabaseInv, WorkInv, CommitBase
<1>2. /\ work'.at = "versioned" /\ work'.next = 1
      /\ work'.schema = work.schema /\ work'.recorded = work.recorded
      /\ work' \in [at : {"closed", "base", "versioned"}, next : Nat,
                    schema : SUBSET Feature, recorded : SUBSET DOMAIN Needs]
  BY <1>1
<1>3. BaseDone(Len(Base) + 1)' /\ MigratedTo(1)'
  BY <1>1, <1>2, MigrationTypes DEF BaseDone, MigratedTo
<1> QED
  BY <1>1, <1>2, <1>3 DEF DatabaseInv, WorkInv

\* A migration is recorded, and its features are there: added, or looked for.
LEMMA MigrationDone ==
    ASSUME DatabaseInv, Migrate
    PROVE  DatabaseInv'
<1> PICK n, v, s :
          /\ n = work.next /\ v = Version[n]
          /\ s = IF v \in work.recorded THEN work.schema
                 ELSE work.schema \cup Needs[v]
  OBVIOUS
<1>1. /\ work \in [at : {"closed", "base", "versioned"}, next : Nat,
                   schema : SUBSET Feature, recorded : SUBSET DOMAIN Needs]
      /\ work.at = "versioned" /\ n \in 1..Len(Version)
      /\ BaseDone(Len(Base) + 1) /\ MigratedTo(n)
      /\ work' = [work EXCEPT !.next = n + 1, !.schema = s,
                              !.recorded = work.recorded \cup {v}]
      /\ v \in work.recorded => Needs[v] \subseteq work.schema
      /\ schema' = schema /\ recorded' = recorded
  BY DEF DatabaseInv, WorkInv, Migrate, Verified, database
<1>2. v \in DOMAIN Needs /\ Needs[v] \in SUBSET Feature
  BY <1>1, MigrationTypes
<1>3. /\ s \in SUBSET Feature /\ work.schema \subseteq s /\ Needs[v] \subseteq s
  BY <1>1, <1>2
<1>4. /\ work'.at = "versioned" /\ work'.next = n + 1 /\ work'.schema = s
      /\ work'.recorded = work.recorded \cup {v}
      /\ work' \in [at : {"closed", "base", "versioned"}, next : Nat,
                    schema : SUBSET Feature, recorded : SUBSET DOMAIN Needs]
  <2>1. n + 1 \in Nat /\ work.recorded \cup {v} \in SUBSET DOMAIN Needs
    BY <1>1, <1>2
  <2> QED
    BY <1>1, <1>3, <2>1
<1>5. BaseDone(Len(Base) + 1)'
  BY <1>1, <1>3, <1>4 DEF BaseDone
<1>6. MigratedTo(n + 1)'
  <2> SUFFICES ASSUME NEW i \in DOMAIN Version, i < n + 1
               PROVE  /\ Version[i] \in work.recorded \cup {v}
                      /\ Needs[Version[i]] \subseteq s
    BY <1>4 DEF MigratedTo
  <2> QED
    BY <1>1, <1>3, MigrationTypes DEF MigratedTo
<1> QED
  BY <1>1, <1>4, <1>5, <1>6 DEF DatabaseInv, WorkInv

\* What is committed at the end is a whole database.
LEMMA MigrationsCommitted ==
    ASSUME DatabaseInv, CommitMigrations
    PROVE  DatabaseInv' /\ Whole'
<1>1. /\ work \in [at : {"closed", "base", "versioned"}, next : Nat,
                   schema : SUBSET Feature, recorded : SUBSET DOMAIN Needs]
      /\ work.next > Len(Version)
      /\ BaseDone(Len(Base) + 1) /\ MigratedTo(work.next)
      /\ schema' = work.schema /\ recorded' = work.recorded /\ work' = NoWork
  BY DEF DatabaseInv, WorkInv, CommitMigrations
<1>2. DOMAIN Needs \subseteq work.recorded
  BY <1>1, MigrationTypes DEF MigratedTo
<1>3. Feature \subseteq work.schema
  <2> SUFFICES ASSUME NEW f \in Feature  PROVE  f \in work.schema
    OBVIOUS
  <2>1. CASE \E i \in DOMAIN Base : Base[i].unless = f
    BY <1>1, <2>1, MigrationTypes DEF BaseDone
  <2>2. CASE \E v \in DOMAIN Needs : f \in Needs[v]
    <3> PICK v \in DOMAIN Needs : f \in Needs[v]
      BY <2>2
    <3> PICK i \in DOMAIN Version : v = Version[i]
      BY MigrationTypes
    <3> QED
      BY <1>1, MigrationTypes DEF MigratedTo
  <2> QED
    BY <2>1, <2>2, MigrationAssumption
<1>4. WorkInv'
  BY <1>1, MigrationTypes DEF WorkInv, NoWork
<1> QED
  BY <1>1, <1>2, <1>3, <1>4 DEF DatabaseInv, Whole, Complete

LEMMA DatabaseOpened ==
    ASSUME DatabaseInv, OpenDatabase
    PROVE  DatabaseInv'
BY MigrationTypes
   DEF DatabaseInv, WorkInv, OpenDatabase, database, BaseDone

LEMMA DatabaseAbandoned ==
    ASSUME DatabaseInv, AbandonDatabase
    PROVE  DatabaseInv'
BY MigrationTypes
   DEF DatabaseInv, WorkInv, AbandonDatabase, database, NoWork

LEMMA DatabaseUntouched ==
    ASSUME DatabaseInv, UNCHANGED <<database, work>>
    PROVE  DatabaseInv' /\ Whole' = Whole
BY DEF DatabaseInv, WorkInv, BaseDone, MigratedTo, Whole, Complete, database
-----------------------------------------------------------------------------
(* The life of a process.                                                  *)

LEMMA OnlyHolder ==
    ASSUME ProcessInv, NEW p \in Process, NEW q \in Process,
           holder \in {p, NoProcess}, q # p
    PROVE  at[q] \notin Held
BY ProcessAssumption DEF ProcessInv, LifeOK

\* A process goes on, and the others keep what they have.
LEMMA OneGoesOn ==
    ASSUME ProcessInv, NEW p \in Process, NEW phase \in Phases,
           NEW chores \in SUBSET {Tasks[i] : i \in DOMAIN Tasks},
           NEW step \in Stages,
           at' = [at EXCEPT ![p] = phase], tasks' = [tasks EXCEPT ![p] = chores],
           update' = [update EXCEPT ![p] = step],
           DatabaseInv',
           phase \in Held => holder' = p,
           phase \in Migrated => Whole',
           chores # {} => phase \in Serving /\ Whole',
           step # "none" => phase \in {"running", "draining"},
           \A q \in Process :
              q # p /\ at[q] \in Held => holder' = q /\ (Whole => Whole')
    PROVE  ProcessInv'
<1>1. /\ at' \in [Process -> Phases]
      /\ tasks' \in [Process -> SUBSET {Tasks[i] : i \in DOMAIN Tasks}]
      /\ update' \in [Process -> Stages]
  BY DEF ProcessInv
<1>2. ASSUME NEW q \in Process  PROVE  LifeOK(q)'
  <2>1. CASE q = p
    BY <2>1 DEF ProcessInv, LifeOK, Handling
  <2>2. CASE q # p
    <3>1. at'[q] = at[q] /\ tasks'[q] = tasks[q] /\ update'[q] = update[q]
      BY <2>2 DEF ProcessInv
    <3>2. Serving \subseteq Held /\ Migrated \subseteq Held
      BY DEF Serving, Migrated, Held, Phases
    <3> QED
      BY <2>2, <3>1, <3>2 DEF ProcessInv, LifeOK, Handling
  <2> QED
    BY <2>1, <2>2
<1> QED
  BY <1>1, <1>2 DEF ProcessInv

\* The same without a change of its work and of the update it performs.
LEMMA OneMovesOn ==
    ASSUME ProcessInv, NEW p \in Process, NEW phase \in Phases,
           Goes(p, phase), UNCHANGED <<tasks, update>>,
           DatabaseInv',
           phase \in Held => holder' = p,
           phase \in Migrated => Whole',
           tasks[p] # {} => phase \in Serving /\ Whole',
           Handling(p) => phase \in {"running", "draining"} \/ update[p] = "none",
           \A q \in Process :
              q # p /\ at[q] \in Held => holder' = q /\ (Whole => Whole')
    PROVE  ProcessInv'
<1> PICK chores, step : chores = tasks[p] /\ step = update[p]
  OBVIOUS
<1>1. /\ at' = [at EXCEPT ![p] = phase]
      /\ tasks' = [tasks EXCEPT ![p] = chores]
      /\ update' = [update EXCEPT ![p] = step]
  BY DEF ProcessInv, Goes
<1>2. /\ chores \in SUBSET {Tasks[i] : i \in DOMAIN Tasks}
      /\ chores # {} => phase \in Serving /\ Whole'
      /\ step \in Stages
      /\ step # "none" => phase \in {"running", "draining"}
  BY DEF ProcessInv, LifeOK
<1> QED
  BY <1>1, <1>2, OneGoesOn

LEMMA ProcessInitOK ==
    ASSUME ProcessInit  PROVE  ProcessInv
<1>1. WorkInv /\ schema \in SUBSET Feature
  BY NoWorkIsFine DEF ProcessInit, DatabaseInit
<1>2. recorded \in SUBSET DOMAIN Needs
  <2> PICK n \in 0..Len(Version) : recorded = {Version[i] : i \in 1..n}
    BY DEF ProcessInit, DatabaseInit
  <2> QED
    BY MigrationTypes
<1> QED
  BY <1>1, <1>2
     DEF ProcessInit, ProcessInv, DatabaseInv, LifeOK, Phases, Held, Migrated,
         Stages

LEMMA ProcessStep ==
    ASSUME ProcessInv, [ProcessNext]_processVars
    PROVE  ProcessInv'
<1> USE DEF Phases, Held, Serving, Migrated
<1>1. CASE UNCHANGED <<at, tasks, update, holder, database, work>>
  <2>1. DatabaseInv' /\ Whole' = Whole
    BY <1>1, DatabaseUntouched DEF ProcessInv
  <2> QED
    BY <1>1, <2>1 DEF ProcessInv, LifeOK, Handling
<1>2. ASSUME NEW p \in Process,
             \/ Launch(p) \/ GiveUp(p) \/ WriteMetadata(p) \/ StartupChecks(p)
             \/ Announce(p) \/ RequestRestart(p) \/ Interrupt(p) \/ Drained(p)
      PROVE  ProcessInv'
  \* It moves on, and neither its work nor the database changes.
  <2>1. DatabaseInv' /\ Whole' = Whole /\ holder' = holder
        /\ UNCHANGED <<tasks, update>>
    BY <1>2, DatabaseUntouched
       DEF ProcessInv, Launch, GiveUp, WriteMetadata, StartupChecks, Announce,
           RequestRestart, Interrupt, Drained, lock
  <2>2. PICK phase \in Phases :
           /\ Goes(p, phase)
           /\ phase \in Held => at[p] \in Held
           /\ phase \in Migrated => at[p] \in Migrated
           /\ at[p] \in Serving => phase \in Serving
           /\ Handling(p) => phase \in {"running", "draining"} \/ update[p] = "none"
    BY <1>2
       DEF Launch, GiveUp, WriteMetadata, StartupChecks, Announce,
           RequestRestart, Interrupt, Drained, Handling
  <2> QED
    BY <2>1, <2>2, OneMovesOn DEF ProcessInv, LifeOK, Handling
<1>3. ASSUME NEW p \in Process, TryAcquire(p)  PROVE  ProcessInv'
  <2>1. /\ DatabaseInv' /\ Whole' = Whole /\ holder' = p
        /\ UNCHANGED <<tasks, update>>
        /\ Goes(p, "locked") /\ holder = NoProcess /\ at[p] = "waiting"
    BY <1>3, DatabaseUntouched DEF ProcessInv, TryAcquire
  <2>2. \A q \in Process : q # p => at[q] \notin Held
    BY <2>1, OnlyHolder
  <2> QED
    BY <2>1, <2>2, OneMovesOn DEF ProcessInv, LifeOK, Handling
<1>4. ASSUME NEW p \in Process, StartFails(p)  PROVE  ProcessInv'
  <2>1. /\ DatabaseInv' /\ Whole' = Whole /\ holder = p
        /\ UNCHANGED <<tasks, update>>
        /\ Goes(p, "off") /\ at[p] \in {"locked", "checking"}
    BY <1>4, DatabaseUntouched DEF ProcessInv, StartFails, LifeOK
  <2>2. \A q \in Process : q # p => at[q] \notin Held
    BY <2>1, OnlyHolder
  <2> QED
    BY <2>1, <2>2, OneMovesOn DEF ProcessInv, LifeOK, Handling
<1>5. ASSUME NEW p \in Process, SetCommands(p) \/ DatabaseReady(p)
      PROVE  ProcessInv'
  <2>1. /\ at[p] \in {"commands", "database"} /\ holder = p /\ holder' = p
        /\ UNCHANGED <<tasks, update>> /\ tasks[p] = {}
    BY <1>5 DEF ProcessInv, SetCommands, DatabaseReady, LifeOK, lock
  <2>2. \A q \in Process : q # p => at[q] \notin Held
    BY <2>1, OnlyHolder
  <2>3. CASE SetCommands(p)
    <3>1. Goes(p, "database") /\ DatabaseInv'
      BY <2>3, DatabaseOpened DEF ProcessInv, SetCommands
    <3> QED
      BY <2>1, <2>2, <3>1, OneMovesOn DEF Handling
  <2>4. CASE DatabaseReady(p)
    <3>1. Goes(p, "announcing") /\ DatabaseInv' /\ Whole'
      BY <2>4, MigrationsCommitted DEF ProcessInv, DatabaseReady
    <3> QED
      BY <2>1, <2>2, <3>1, OneMovesOn DEF Handling
  <2> QED
    BY <1>5, <2>3, <2>4
<1>6. ASSUME NEW p \in Process, InitDb(p)  PROVE  ProcessInv'
  <2>1. /\ at[p] = "database" /\ holder = p
        /\ UNCHANGED <<at, tasks, update, holder>>
    BY <1>6 DEF ProcessInv, InitDb, LifeOK, lock
  <2>2. \A q \in Process : q # p => at[q] \notin Held
    BY <2>1, OnlyHolder
  <2>3. DatabaseInv'
    BY <1>6, StatementDone, BaseCommitted, MigrationDone DEF ProcessInv, InitDb
  <2>4. \A q \in Process : at[q] \notin Migrated /\ tasks[q] = {}
    BY <2>1, <2>2 DEF ProcessInv, LifeOK
  <2> QED
    BY <2>1, <2>3, <2>4 DEF ProcessInv, LifeOK, Handling
<1>7. ASSUME NEW p \in Process, StartTask(p)  PROVE  ProcessInv'
  <2>1. /\ DatabaseInv' /\ Whole' = Whole /\ holder' = holder
        /\ at[p] = "starting"
    BY <1>7, DatabaseUntouched DEF ProcessInv, StartTask, lock
  <2>2. PICK i \in DOMAIN Tasks :
           /\ tasks' = [tasks EXCEPT ![p] = tasks[p] \cup {Tasks[i]}]
           /\ Goes(p, IF i = Len(Tasks) THEN "running" ELSE "starting")
    BY <1>7 DEF StartTask
  <2>3. PICK phase \in {"running", "starting"} : at' = [at EXCEPT ![p] = phase]
    BY <2>2 DEF Goes
  <2>4. /\ tasks[p] \cup {Tasks[i]} \in SUBSET {Tasks[j] : j \in DOMAIN Tasks}
        /\ update' = [update EXCEPT ![p] = update[p]] /\ update[p] \in Stages
    BY <1>7 DEF ProcessInv, StartTask
  <2> QED
    BY <2>1, <2>2, <2>3, <2>4, OneGoesOn DEF ProcessInv, LifeOK, Handling
<1>8. ASSUME NEW p \in Process, InitFails(p)  PROVE  ProcessInv'
  <2>1. /\ holder = p /\ holder' = p /\ UNCHANGED <<tasks, update>>
        /\ Goes(p, "stopping")
        /\ at[p] \in {"commands", "database", "announcing", "starting"}
    BY <1>8 DEF ProcessInv, InitFails, LifeOK, lock
  <2>2. DatabaseInv' /\ Whole' = Whole
    BY <1>8, DatabaseAbandoned, DatabaseUntouched
       DEF ProcessInv, InitFails, AbandonDatabase, Whole, Complete, database
  <2> QED
    BY <2>1, <2>2, OneMovesOn DEF ProcessInv, LifeOK, Handling
<1>9. ASSUME NEW p \in Process, StopTask(p) \/ ShutdownFails(p)
      PROVE  ProcessInv'
  <2>1. /\ DatabaseInv' /\ Whole' = Whole /\ holder' = holder
        /\ at[p] = "stopping" /\ at' = at
    BY <1>9, DatabaseUntouched DEF ProcessInv, StopTask, ShutdownFails, lock
  <2>2. at' = [at EXCEPT ![p] = "stopping"]
    BY <2>1 DEF ProcessInv
  <2>3. PICK chores \in SUBSET tasks[p] : tasks' = [tasks EXCEPT ![p] = chores]
    BY <1>9 DEF StopTask, ShutdownFails
  <2>4. /\ chores \in SUBSET {Tasks[j] : j \in DOMAIN Tasks}
        /\ update' = [update EXCEPT ![p] = update[p]] /\ update[p] \in Stages
    BY <1>9 DEF ProcessInv, StopTask, ShutdownFails
  <2> QED
    BY <2>1, <2>2, <2>3, <2>4, OneGoesOn DEF ProcessInv, LifeOK, Handling
<1>10. ASSUME NEW p \in Process, Close(p)  PROVE  ProcessInv'
  <2>1. /\ DatabaseInv' /\ Whole' = Whole /\ holder = p
        /\ UNCHANGED <<tasks, update>>
        /\ Goes(p, "off") /\ at[p] = "stopping" /\ tasks[p] = {}
    BY <1>10, DatabaseUntouched DEF ProcessInv, Close, LifeOK
  <2>2. \A q \in Process : q # p => at[q] \notin Held
    BY <2>1, OnlyHolder
  <2> QED
    BY <2>1, <2>2, OneMovesOn DEF ProcessInv, LifeOK, Handling
<1>11. ASSUME NEW p \in Process, Kill(p)  PROVE  ProcessInv'
  <2>1. /\ holder' = IF holder = p THEN NoProcess ELSE holder
        /\ tasks' = [tasks EXCEPT ![p] = {}] /\ at' = [at EXCEPT ![p] = "off"]
        /\ update' = [update EXCEPT ![p] = "none"]
    BY <1>11 DEF Kill, Goes, EndUpdate
  <2>2. DatabaseInv' /\ Whole' = Whole
    BY <1>11, DatabaseAbandoned, DatabaseUntouched
       DEF ProcessInv, Kill, AbandonDatabase, Whole, Complete, database
  <2>3. \A q \in Process : q # p /\ at[q] \in Held => holder' = q
    BY <2>1 DEF ProcessInv, LifeOK
  <2> QED
    BY <2>1, <2>2, <2>3, OneGoesOn DEF Stages
<1>12. ASSUME NEW p \in Process,
              \/ Fetch(p) \/ BackUp(p) \/ Pull(p) \/ Check(p) \/ UpdateFails(p)
       PROVE  ProcessInv'
  <2>1. /\ DatabaseInv' /\ Whole' = Whole /\ UNCHANGED <<at, tasks, holder>>
    BY <1>12, DatabaseUntouched
       DEF ProcessInv, Fetch, BackUp, Pull, Check, UpdateFails, lock
  <2>2. PICK step \in Stages : update' = [update EXCEPT ![p] = step]
    BY <1>12 DEF Fetch, BackUp, Pull, Check, UpdateFails, EndUpdate, Stages
  <2>3. Handling(p)
    BY <1>12
       DEF ProcessInv, LifeOK, Fetch, BackUp, Pull, Check, UpdateFails
  <2> QED
    BY <2>1, <2>2, <2>3 DEF ProcessInv, LifeOK, Handling
<1>13. ASSUME NEW p \in Process, Installed(p)  PROVE  ProcessInv'
  <2>1. /\ DatabaseInv' /\ Whole' = Whole /\ holder' = holder /\ Handling(p)
        /\ tasks' = [tasks EXCEPT ![p] = tasks[p]]
        /\ tasks[p] \in SUBSET {Tasks[j] : j \in DOMAIN Tasks}
        /\ at' = [at EXCEPT ![p] = "draining"]
        /\ update' = [update EXCEPT ![p] = "none"]
    BY <1>13, DatabaseUntouched
       DEF ProcessInv, LifeOK, Installed, lock, Goes, EndUpdate
  <2> QED
    BY <2>1, OneGoesOn DEF ProcessInv, LifeOK, Handling, Stages
<1> QED
  BY <1>1, <1>2, <1>3, <1>4, <1>5, <1>6, <1>7, <1>8, <1>9, <1>10, <1>11,
     <1>12, <1>13
     DEF ProcessNext, processVars, lock, Push

(***************************************************************************)
(* The instance lock and init_db do what they are for: background work in  *)
(* one process only, and over a database that has every migration, for any *)
(* number of processes and whatever database is found (ServesAlone).       *)
(***************************************************************************)
THEOREM ServingIsAlone == ProcessSpec => []ServesAlone
<1>1. ProcessInv => ServesAlone
  BY DEF ProcessInv, LifeOK, ServesAlone, Serving, Held, Phases, Whole
<1> QED
  BY <1>1, ProcessInitOK, ProcessStep, PTL DEF ProcessSpec
-----------------------------------------------------------------------------
(* The marker of an update.                                                *)

(***************************************************************************)
(* A marker that is not overtaken names the working copy, and so does what *)
(* every process has imported that was not there when it was written.      *)
(***************************************************************************)
MarkerInv ==
    /\ marker \in [commit : Nat, fresh : BOOLEAN]
    /\ disk \in Nat /\ remote \in Nat
    /\ DOMAIN loaded = Process
    /\ marker.fresh =>
          /\ marker.commit = disk
          /\ \A p \in Process : at[p] # "off" => loaded[p] = disk \/ p \in early

LEMMA MarkerStep ==
    ASSUME ProcessInv, MarkerInv, [ProcessNext]_processVars
    PROVE  MarkerInv'
<1> USE DEF MarkerInv, Goes
<1>0. at \in [Process -> Phases]
  BY DEF ProcessInv
<1>1. CASE UNCHANGED <<marker, disk, loaded, early>> /\ remote' \in Nat
           /\ at' \in [Process -> Phases]
           /\ \A p \in Process : at'[p] # "off" => at[p] # "off"
  BY <1>1
<1>2. ASSUME NEW p \in Process, Launch(p)  PROVE  MarkerInv'
  <2>1. /\ marker' = marker /\ disk' = disk /\ remote' = remote
        /\ loaded' = [loaded EXCEPT ![p] = disk] /\ early' = early \ {p}
        /\ at' = [at EXCEPT ![p] = "waiting"]
    BY <1>2 DEF Launch, code
  <2>2. ASSUME NEW q \in Process, marker.fresh, at'[q] # "off"
        PROVE  loaded'[q] = disk \/ q \in early'
    BY <1>0, <2>1, <2>2
  <2> QED
    BY <2>1, <2>2
<1>3. ASSUME NEW p \in Process, Announce(p)  PROVE  MarkerInv'
  <2>1. disk' = disk /\ remote' = remote /\ loaded' = loaded
    BY <1>3 DEF Announce, code
  <2>2. marker' \in [commit : Nat, fresh : BOOLEAN] /\ ~marker'.fresh
    <3>1. CASE marker' = NoMarker
      BY <3>1 DEF NoMarker
    <3>2. CASE marker' = [marker EXCEPT !.fresh = FALSE]
      BY <3>2
    <3> QED
      BY <1>3, <3>1, <3>2 DEF Announce
  <2> QED
    BY <2>1, <2>2
<1>4. ASSUME NEW p \in Process, Pull(p)  PROVE  MarkerInv'
  <2>1. disk' = remote /\ remote' = remote /\ loaded' = loaded
    BY <1>4 DEF Pull
  <2>2. marker' \in [commit : Nat, fresh : BOOLEAN] /\ ~marker'.fresh
    BY <1>4 DEF Pull, Overtaken
  <2> QED
    BY <2>1, <2>2
<1>5. ASSUME NEW p \in Process, Installed(p)  PROVE  MarkerInv'
  <2>1. /\ marker' = [commit |-> disk, fresh |-> TRUE]
        /\ early' = {q \in Process : at[q] # "off"}
        /\ disk' = disk /\ remote' = remote /\ loaded' = loaded
        /\ at' = [at EXCEPT ![p] = "draining"]
        /\ at[p] # "off"
    BY <1>5 DEF ProcessInv, LifeOK, Handling, Installed, code
  <2> QED
    BY <1>0, <2>1
<1>6. ASSUME NEW p \in Process,
             \/ TryAcquire(p) \/ GiveUp(p) \/ WriteMetadata(p) \/ StartFails(p)
             \/ StartupChecks(p) \/ SetCommands(p) \/ DatabaseReady(p)
             \/ InitFails(p) \/ RequestRestart(p) \/ Interrupt(p)
             \/ Drained(p) \/ Close(p) \/ Kill(p)
      PROVE  MarkerInv'
  <2>1. UNCHANGED <<marker, disk, remote, loaded, early>>
    BY <1>6
       DEF TryAcquire, GiveUp, WriteMetadata, StartFails, StartupChecks,
           SetCommands, DatabaseReady, InitFails, RequestRestart, Interrupt,
           Drained, Close, Kill, code, told
  <2>2. PICK phase \in Phases : /\ at' = [at EXCEPT ![p] = phase]
                                /\ phase # "off" => at[p] # "off"
    BY <1>6
       DEF TryAcquire, GiveUp, WriteMetadata, StartFails, StartupChecks,
           SetCommands, DatabaseReady, InitFails, RequestRestart, Interrupt,
           Drained, Close, Kill, Phases
  <2> QED
    BY <1>0, <1>1, <2>1, <2>2
<1>7. ASSUME NEW p \in Process, StartTask(p)  PROVE  MarkerInv'
  <2>1. UNCHANGED <<marker, disk, remote, loaded, early>> /\ at[p] = "starting"
    BY <1>7 DEF StartTask, code, told
  <2>2. PICK phase \in {"running", "starting"} : at' = [at EXCEPT ![p] = phase]
    BY <1>7 DEF StartTask
  <2> QED
    BY <1>0, <1>1, <2>1, <2>2 DEF Phases
<1>8. CASE Push
  BY <1>0, <1>1, <1>8 DEF Push, told
<1>9. ASSUME NEW p \in Process,
             \/ InitDb(p) \/ Fetch(p) \/ BackUp(p) \/ Check(p)
             \/ UpdateFails(p) \/ StopTask(p) \/ ShutdownFails(p)
      PROVE  MarkerInv'
  BY <1>0, <1>1, <1>9
     DEF InitDb, Fetch, BackUp, Check, UpdateFails, StopTask, ShutdownFails,
         code, told
<1>10. CASE UNCHANGED processVars
  BY <1>0, <1>1, <1>10 DEF processVars, code, told
<1> QED
  BY <1>2, <1>3, <1>4, <1>5, <1>6, <1>7, <1>8, <1>9, <1>10 DEF ProcessNext

(***************************************************************************)
(* The message that a process sends for a marker names the version that it *)
(* runs, unless the marker is overtaken or the process had been launched   *)
(* before the marker (AnnouncesOwnVersion).                                *)
(***************************************************************************)
THEOREM MarkerIsOwn == ProcessSpec => AnnouncesOwnVersion
<1>1. ProcessInit => MarkerInv
  BY DEF ProcessInit, MarkerInv, NoMarker
<1>2. MarkerInv =>
        [\A p \in Process :
          at[p] = "announcing" /\ at'[p] = "starting" /\ marker # marker'
             => loaded[p] = marker.commit \/ ~marker.fresh \/ p \in early
        ]_processVars
  BY DEF MarkerInv
<1> QED
  BY <1>1, <1>2, ProcessInitOK, ProcessStep, MarkerStep, PTL
     DEF ProcessSpec, AnnouncesOwnVersion
-----------------------------------------------------------------------------
(* The payloads of the buttons.                                            *)
-----------------------------------------------------------------------------

Moment == Nat \cup {Never}

JobType == [op : {"clean", "store"}, key : SUBSET Payload, time : Nat]

LookupType ==
    {NoLookup} \cup [at : {"flushing", "deleting"}, key : Payload, ahead : Nat,
                     owed : BOOLEAN, since : Moment]

(***************************************************************************)
(* A write of k that is no older than t is among the first n jobs of q, or *)
(* in the rows s, and no later job overwrites it with an older one.        *)
(***************************************************************************)
IsWrite(q, s, k, t, i) ==
    \/ i = 0 /\ s[k] >= t
    \/ i \in DOMAIN q /\ k \in q[i].key /\ q[i].time >= t

Written(q, s, k, t, n) ==
    \E i \in 0..n :
        /\ IsWrite(q, s, k, t, i)
        /\ \A j \in DOMAIN q : j > i /\ k \in q[j].key => q[j].time >= t

(***************************************************************************)
(* The inductive invariant.  What is owed is written, or a job will do so; *)
(* a look-up that was owed its payload waits for a job that is no older.   *)
(***************************************************************************)
PayloadTypes ==
    /\ clock \in Nat
    /\ saved \in [Payload -> Moment]
    /\ stored \in [Payload -> Moment]
    /\ jobs \in Seq(JobType)
    /\ lookup \in [Press -> LookupType]
    /\ \A k \in Payload : stored[k] <= clock
    /\ \A i \in DOMAIN jobs : jobs[i].time <= clock

Promised(k) == Owed(k) => Written(jobs, saved, k, stored[k], Len(jobs))

Waits(r) ==
    lookup[r] # NoLookup =>
        /\ lookup[r].since <= clock
        /\ lookup[r].owed => lookup[r].since # Never
        /\ lookup[r].at = "flushing" =>
              /\ lookup[r].ahead <= Len(jobs)
              /\ Wronged(r) => Written(jobs, saved, lookup[r].key,
                                       lookup[r].since, lookup[r].ahead)

PayloadInv ==
    /\ PayloadTypes
    /\ \A k \in Payload : Promised(k)
    /\ \A r \in Press : Waits(r)
    /\ unexplained = FALSE

LEMMA WrittenByMore ==
    ASSUME NEW q, NEW s, NEW k, NEW t, NEW m \in Nat, NEW n \in Nat, m <= n,
           Written(q, s, k, t, m)
    PROVE  Written(q, s, k, t, n)
BY DEF Written

\* A job that is queued does not undo it.
LEMMA WrittenBefore ==
    ASSUME NEW q \in Seq(JobType), NEW s, NEW job \in JobType,
           NEW k \in Payload, NEW t \in Moment, NEW n \in Nat,
           k \in job.key => job.time >= t,
           Written(q, s, k, t, n)
    PROVE  Written(Append(q, job), s, k, t, n)
<1> DEFINE p == Append(q, job)
<1>1. /\ DOMAIN p = 1..(Len(q) + 1) /\ DOMAIN q = 1..Len(q) /\ Len(q) \in Nat
      /\ \A i \in DOMAIN q : p[i] = q[i]
      /\ p[Len(q) + 1] = job
  OBVIOUS
<1> HIDE DEF p
<1>2. PICK i \in 0..n :
         /\ IsWrite(q, s, k, t, i)
         /\ \A j \in DOMAIN q : j > i /\ k \in q[j].key => q[j].time >= t
  BY DEF Written
<1>3. IsWrite(p, s, k, t, i)
  BY <1>1, <1>2 DEF IsWrite
<1>4. ASSUME NEW j \in DOMAIN p, j > i, k \in p[j].key  PROVE  p[j].time >= t
  BY <1>1, <1>2, <1>4
<1>5. Written(p, s, k, t, n)
  BY <1>3, <1>4 DEF Written
<1> QED
  BY <1>5 DEF p

\* The job that is queued writes it.
LEMMA WrittenLast ==
    ASSUME NEW q \in Seq(JobType), NEW s, NEW job \in JobType,
           NEW k \in Payload, NEW t \in Moment, k \in job.key, job.time >= t
    PROVE  Written(Append(q, job), s, k, t, Len(q) + 1)
<1> DEFINE p == Append(q, job)
           n == Len(q) + 1
<1>1. DOMAIN p = 1..n /\ n \in Nat \ {0} /\ p[n] = job
  OBVIOUS
<1> HIDE DEF p, n
<1>2. Written(p, s, k, t, n)
  BY <1>1 DEF Written, IsWrite
<1> QED
  BY <1>2 DEF p, n

\* The first job is done, and was not in vain.
LEMMA WrittenOn ==
    ASSUME NEW q \in Seq(JobType), q # <<>>, NEW s, NEW s2,
           NEW k \in Payload, NEW t \in Moment, NEW n \in Nat,
           Written(q, s, k, t, n),
           k \in Head(q).key /\ Head(q).time >= t => s2[k] >= t,
           k \notin Head(q).key /\ s[k] >= t => s2[k] >= t
    PROVE  Written(Tail(q), s2, k, t, IF n = 0 THEN 0 ELSE n - 1)
<1> DEFINE p == Tail(q)
           m == IF n = 0 THEN 0 ELSE n - 1
<1>1. /\ DOMAIN p = 1..(Len(q) - 1) /\ DOMAIN q = 1..Len(q) /\ Len(q) \in Nat \ {0}
      /\ \A i \in DOMAIN p : p[i] = q[i + 1]
      /\ Head(q) = q[1]
  OBVIOUS
<1>0. m \in Nat
  OBVIOUS
<1> HIDE DEF p
<1>2. PICK i \in 0..n :
         /\ IsWrite(q, s, k, t, i)
         /\ \A j \in DOMAIN q : j > i /\ k \in q[j].key => q[j].time >= t
  BY DEF Written
<1>3. CASE i \in {0, 1}
  <2>1. s2[k] >= t
    BY <1>1, <1>2, <1>3 DEF IsWrite
  <2>2. ASSUME NEW j \in DOMAIN p, k \in p[j].key  PROVE  p[j].time >= t
    BY <1>1, <1>2, <1>3, <2>2
  <2>3. 0 \in 0..m
    BY <1>0
  <2> QED
    BY <2>1, <2>2, <2>3 DEF Written, IsWrite, p
<1>4. CASE i \notin {0, 1}
  <2>1. /\ i - 1 \in 0..m /\ i - 1 \in DOMAIN p /\ p[i - 1] = q[i]
        /\ k \in q[i].key /\ q[i].time >= t
    BY <1>1, <1>2, <1>4 DEF IsWrite
  <2>2. ASSUME NEW j \in DOMAIN p, j > i - 1, k \in p[j].key
        PROVE  p[j].time >= t
    BY <1>1, <1>2, <2>2
  <2> HIDE DEF m
  <2>3. Written(p, s2, k, t, m)
    BY <2>1, <2>2 DEF Written, IsWrite
  <2> QED
    BY <2>3 DEF p, m
<1> QED
  BY <1>3, <1>4
\* A look-up whose queue and rows are as they were, or that is over.
LEMMA OthersWait ==
    ASSUME PayloadInv, NEW r \in Press, NEW q \in Press, q # r,
           UNCHANGED <<clock, saved, jobs>>, DOMAIN lookup' = Press,
           lookup'[q] = lookup[q],
           lookup[q] # NoLookup /\ lookup[q].key \in excused
               => lookup[q].key \in excused'
    PROVE  Waits(q)'
BY DEF PayloadInv, PayloadTypes, Waits, Wronged, Old

LEMMA QueueAfterCleanup ==
    ASSUME PayloadInv, NEW q \in AfterCleanup
    PROVE  /\ q \in Seq(JobType) /\ Len(q) \in Nat /\ Len(jobs) <= Len(q)
           /\ \A i \in DOMAIN q : q[i].time <= clock
           /\ \A k \in Payload, t \in Moment, n \in Nat :
                 Written(jobs, saved, k, t, n) => Written(q, saved, k, t, n)
<1>1. CleanJob \in JobType /\ CleanJob.key = {} /\ CleanJob.time = clock
  BY DEF PayloadInv, PayloadTypes, CleanJob, JobType
<1>2. q \in {jobs, Append(jobs, CleanJob)}
  BY DEF AfterCleanup, Queued
<1>3. CASE q = jobs
  BY <1>3 DEF PayloadInv, PayloadTypes
<1>4. CASE q = Append(jobs, CleanJob)
  <2>1. jobs \in Seq(JobType) /\ \A i \in DOMAIN jobs : jobs[i].time <= clock
    BY DEF PayloadInv, PayloadTypes
  <2>2. ASSUME NEW k \in Payload, NEW t \in Moment, NEW n \in Nat,
               Written(jobs, saved, k, t, n)
        PROVE  Written(q, saved, k, t, n)
    BY <1>1, <1>4, <2>1, <2>2, WrittenBefore
  <2>3. /\ q \in Seq(JobType) /\ Len(q) \in Nat /\ Len(jobs) <= Len(q)
        /\ \A i \in DOMAIN q : q[i].time <= clock
    BY <1>1, <1>4, <2>1 DEF PayloadInv, PayloadTypes
  <2> QED
    BY <2>2, <2>3
<1> QED
  BY <1>2, <1>3, <1>4

LEMMA StoreStep ==
    ASSUME PayloadInv, NEW k \in Payload, StoreCallbackPayload(k)
    PROVE  PayloadInv'
<1>1. PICK q \in AfterCleanup :
         /\ jobs' = Queued(q, StoreJob(k))
         /\ stored' = [stored EXCEPT ![k] = clock]
         /\ excused' = (IF LookedUp(k) THEN excused ELSE excused \ {k})
                       \cup (IF Len(q) < PendingLimit THEN {} ELSE {k})
         /\ UNCHANGED <<clock, saved, lookup, unexplained>>
  BY DEF StoreCallbackPayload
<1>2. /\ q \in Seq(JobType) /\ Len(q) \in Nat /\ Len(jobs) <= Len(q)
      /\ \A i \in DOMAIN q : q[i].time <= clock
      /\ \A d \in Payload, t \in Moment, n \in Nat :
            Written(jobs, saved, d, t, n) => Written(q, saved, d, t, n)
  BY QueueAfterCleanup
<1>3. /\ StoreJob(k) \in JobType /\ StoreJob(k).key = {k}
      /\ StoreJob(k).time = clock
  BY DEF PayloadInv, PayloadTypes, StoreJob, JobType
<1>4. /\ clock \in Nat /\ jobs \in Seq(JobType) /\ Len(jobs) \in Nat
      /\ stored \in [Payload -> Moment] /\ lookup \in [Press -> LookupType]
      /\ \A d \in Payload : stored[d] <= clock
  BY DEF PayloadInv, PayloadTypes
<1>5. /\ jobs' \in Seq(JobType) /\ Len(jobs') \in Nat /\ Len(q) <= Len(jobs')
      /\ \A i \in DOMAIN jobs' : jobs'[i].time <= clock
  <2>1. CASE jobs' = q
    BY <1>2, <2>1
  <2>2. CASE jobs' = Append(q, StoreJob(k))
    BY <1>2, <1>3, <1>4, <2>2
  <2> QED
    BY <1>1, <2>1, <2>2 DEF Queued
<1>6. ASSUME NEW d \in Payload, NEW t \in Moment, NEW n \in Nat, t <= clock,
             Written(jobs, saved, d, t, n)
      PROVE  Written(jobs', saved, d, t, n)
  <2>1. Written(q, saved, d, t, n)
    BY <1>2, <1>6
  <2>2. CASE jobs' = Append(q, StoreJob(k))
    BY <1>2, <1>3, <1>6, <2>1, <2>2, WrittenBefore
  <2> QED
    BY <1>1, <2>1, <2>2 DEF Queued
<1>7. PayloadTypes'
  BY <1>1, <1>4, <1>5 DEF PayloadInv, PayloadTypes, Moment
<1>8. ASSUME NEW d \in Payload  PROVE  Promised(d)'
  <2>1. SUFFICES ASSUME Owed(d)'
                 PROVE  Written(jobs', saved, d, stored'[d], Len(jobs'))
    BY <1>1 DEF Promised
  <2>2. CASE d = k
    <3>1. stored'[d] = clock /\ clock \in Moment
      BY <1>1, <1>4, <2>2 DEF Moment
    <3>2. Len(q) < PendingLimit
      BY <1>1, <2>1, <2>2 DEF Owed
    <3>3. jobs' = Append(q, StoreJob(k)) /\ Len(jobs') = Len(q) + 1
      BY <1>1, <1>2, <3>2 DEF Queued
    <3> QED
      BY <1>2, <1>3, <1>4, <2>2, <3>1, <3>3, WrittenLast
  <2>3. CASE d # k
    <3>1. stored'[d] = stored[d] /\ stored[d] \in Moment /\ stored[d] <= clock
      BY <1>1, <1>4, <2>3
    <3>2. Owed(d)
      BY <1>1, <2>1, <2>3, <3>1 DEF Owed, Old
    <3>3. Written(jobs, saved, d, stored[d], Len(jobs))
      BY <3>2 DEF PayloadInv, Promised
    <3>4. Written(jobs', saved, d, stored[d], Len(jobs))
      BY <1>4, <1>6, <3>1, <3>3
    <3>5. Len(jobs) <= Len(jobs')
      BY <1>2, <1>4, <1>5
    <3> QED
      BY <1>4, <1>5, <3>1, <3>4, <3>5, WrittenByMore
  <2> QED
    BY <2>2, <2>3
<1>9. ASSUME NEW r \in Press  PROVE  Waits(r)'
  <2>1. CASE lookup[r] = NoLookup
    BY <1>1, <2>1 DEF Waits
  <2>2. CASE lookup[r] # NoLookup
    <3>1. /\ lookup[r].key \in Payload /\ lookup[r].ahead \in Nat
          /\ lookup[r].since \in Moment /\ lookup'[r] = lookup[r]
          /\ Waits(r)
      BY <1>1, <1>4, <2>2 DEF LookupType, PayloadInv
    <3>2. Wronged(r)' => Wronged(r)
      BY <1>1, <2>2, <3>1 DEF Wronged, LookedUp, Old
    <3>3. Len(jobs) <= Len(jobs')
      BY <1>2, <1>4, <1>5
    <3> QED
      BY <1>1, <1>4, <1>5, <1>6, <2>2, <3>1, <3>2, <3>3 DEF Waits
  <2> QED
    BY <2>1, <2>2
<1> QED
  BY <1>1, <1>7, <1>8, <1>9 DEF PayloadInv
\* A look-up that goes on, when the rest of what it reads is as it was.
LEMMA LookupStep ==
    ASSUME PayloadInv, NEW r \in Press, NEW next \in LookupType,
           lookup' = [lookup EXCEPT ![r] = next],
           UNCHANGED <<clock, saved, jobs, stored, excused>>,
           unexplained' = FALSE,
           next.at # "flushing",
           next # NoLookup => /\ next.since = lookup[r].since
                              /\ next.owed = lookup[r].owed
                              /\ lookup[r] # NoLookup
    PROVE  PayloadInv'
<1>1. PayloadTypes' /\ \A k \in Payload : Promised(k)'
  BY DEF PayloadInv, PayloadTypes, Promised, Owed, Old
<1>2. Waits(r)'
  BY DEF PayloadInv, PayloadTypes, Waits
<1>3. ASSUME NEW q \in Press, q # r  PROVE  Waits(q)'
  BY <1>3, OthersWait DEF PayloadInv, PayloadTypes
<1> QED
  BY <1>1, <1>2, <1>3 DEF PayloadInv

\* A row that is not there, or too old, was not owed.
LEMMA NotWronged ==
    ASSUME PayloadInv, NEW r \in Press, Reads(r),
           saved[lookup[r].key] = Never \/ Old(saved[lookup[r].key])
    PROVE  ~Wronged(r)
<1> SUFFICES ASSUME Wronged(r)  PROVE  FALSE
  OBVIOUS
<1>1. /\ lookup[r] # NoLookup /\ lookup[r].at = "flushing" /\ lookup[r].ahead = 0
      /\ lookup[r].key \in Payload /\ lookup[r].since \in Moment
  BY DEF PayloadInv, PayloadTypes, Reads, NoLookup, LookupType
<1>2. /\ Written(jobs, saved, lookup[r].key, lookup[r].since, 0)
      /\ lookup[r].since # Never
  BY <1>1 DEF PayloadInv, Waits, Wronged
<1>3. saved[lookup[r].key] >= lookup[r].since
  BY <1>2 DEF Written, IsWrite, PayloadInv, PayloadTypes
<1>4. /\ clock \in Nat /\ saved[lookup[r].key] \in Moment /\ PayloadTTL \in Nat
      /\ ~(clock - lookup[r].since > PayloadTTL)
  BY <1>1, PayloadAssumption DEF PayloadInv, PayloadTypes, Wronged, Old
<1> QED
  BY <1>1, <1>2, <1>3, <1>4 DEF Moment, Never, Old

LEMMA ReadingStep ==
    ASSUME PayloadInv, NEW r \in Press,
           Found(r) \/ Missing(r) \/ Expired(r) \/ LookupFails(r)
    PROVE  PayloadInv'
<1>1. CASE Found(r) \/ LookupFails(r)
  <2>1. /\ lookup' = [lookup EXCEPT ![r] = NoLookup] /\ NoLookup \in LookupType
        /\ NoLookup.at # "flushing" /\ unexplained' = FALSE
        /\ UNCHANGED <<clock, saved, jobs, stored, excused>>
    BY <1>1 DEF Found, LookupFails, Ends, NoLookup, LookupType, PayloadInv
  <2> QED
    BY <2>1, LookupStep
<1>2. CASE Missing(r)
  <2>1. /\ lookup' = [lookup EXCEPT ![r] = NoLookup] /\ NoLookup \in LookupType
        /\ NoLookup.at # "flushing" /\ unexplained' = FALSE
        /\ UNCHANGED <<clock, saved, jobs, stored, excused>>
    BY <1>2, NotWronged DEF Missing, Ends, NoLookup, LookupType, PayloadInv
  <2> QED
    BY <2>1, LookupStep
<1>3. CASE Expired(r)
  <2>1. /\ lookup[r] \in LookupType /\ lookup[r] # NoLookup
    BY <1>3 DEF Expired, Reads, NoLookup, PayloadInv, PayloadTypes
  <2>2. PICK next \in LookupType :
           /\ lookup' = [lookup EXCEPT ![r] = next]
           /\ next.at = "deleting" /\ next.since = lookup[r].since
           /\ next.owed = lookup[r].owed
    <3> DEFINE next == [lookup[r] EXCEPT !.at = "deleting"]
    <3>1. /\ next \in LookupType /\ next.at = "deleting"
          /\ next.since = lookup[r].since /\ next.owed = lookup[r].owed
      BY <2>1 DEF LookupType
    <3>2. lookup' = [lookup EXCEPT ![r] = next]
      BY <1>3 DEF Expired
    <3> QED
      BY <3>1, <3>2
  <2>3. /\ UNCHANGED <<clock, saved, jobs, stored, excused>>
        /\ unexplained' = FALSE
    BY <1>3, NotWronged DEF Expired, PayloadInv
  <2> QED
    BY <2>1, <2>2, <2>3, LookupStep
<1> QED
  BY <1>1, <1>2, <1>3

LEMMA DeleteStep ==
    ASSUME PayloadInv, NEW r \in Press, DeleteExpired(r)
    PROVE  PayloadInv'
<1> PICK k : k = lookup[r].key
  OBVIOUS
<1>1. /\ lookup[r].at = "deleting" /\ lookup[r] # NoLookup /\ k \in Payload
      /\ saved' = [saved EXCEPT ![k] = Never]
      /\ excused' = IF Old(saved[k]) THEN excused ELSE excused \cup {k}
      /\ lookup' = [lookup EXCEPT ![r] = NoLookup]
      /\ UNCHANGED <<clock, jobs, stored, unexplained>>
  BY DEF DeleteExpired, Ends, PayloadInv, PayloadTypes, LookupType, NoLookup
<1>2. /\ clock \in Nat /\ saved \in [Payload -> Moment]
      /\ stored \in [Payload -> Moment] /\ lookup \in [Press -> LookupType]
      /\ jobs \in Seq(JobType) /\ PayloadTTL \in Nat
  BY PayloadAssumption DEF PayloadInv, PayloadTypes
\* What is not excused, and young enough, was not written in this row.
<1>3. ASSUME NEW d \in Payload, NEW t \in Moment, NEW n \in Nat, ~Old(t),
             d \notin excused', t # Never, Written(jobs, saved, d, t, n)
      PROVE  Written(jobs, saved', d, t, n)
  <2>1. CASE d # k
    BY <1>1, <1>2, <1>3, <2>1 DEF Written, IsWrite
  <2>2. CASE d = k
    <3>1. Old(saved[k]) /\ saved[k] \in Moment
      BY <1>1, <1>2, <1>3, <2>2
    <3>2. ~(saved[k] >= t)
      BY <1>2, <1>3, <3>1 DEF Old, Moment, Never
    <3> QED
      BY <1>3, <2>2, <3>2 DEF Written, IsWrite
  <2> QED
    BY <2>1, <2>2
<1>4. PayloadTypes'
  BY <1>1, <1>2 DEF PayloadInv, PayloadTypes, LookupType, Moment
<1>5. ASSUME NEW d \in Payload, Owed(d)'
      PROVE  Written(jobs, saved', d, stored[d], Len(jobs))
  <2>1. /\ Owed(d) /\ ~Old(stored[d]) /\ d \notin excused' /\ stored[d] # Never
    BY <1>1, <1>5 DEF Owed, Old
  <2> QED
    BY <1>2, <1>3, <2>1 DEF PayloadInv, Promised
<1>6. ASSUME NEW q \in Press  PROVE  Waits(q)'
  <2>1. CASE q = r \/ lookup[q] = NoLookup
    BY <1>1, <1>2, <2>1 DEF Waits
  <2>2. CASE q # r /\ lookup[q] # NoLookup
    <3>1. /\ lookup[q].key \in Payload /\ lookup[q].ahead \in Nat
          /\ lookup[q].since \in Moment /\ lookup'[q] = lookup[q]
          /\ Waits(q)
      BY <1>1, <1>2, <2>2 DEF LookupType, PayloadInv
    <3>2. Wronged(q)' => Wronged(q) /\ lookup[q].key \notin excused'
      BY <1>1, <3>1 DEF Wronged, Old
    <3> QED
      BY <1>1, <1>2, <1>3, <2>2, <3>1, <3>2 DEF Waits, Wronged
  <2> QED
    BY <2>1, <2>2
<1> QED
  BY <1>1, <1>4, <1>5, <1>6 DEF PayloadInv, Promised

LEMMA GetStep ==
    ASSUME PayloadInv, NEW r \in Press, NEW k \in Payload,
           GetCallbackPayload(r, k)
    PROVE  PayloadInv'
<1>1. PICK q \in AfterCleanup : jobs' = q
  BY DEF GetCallbackPayload
<1>2. /\ q \in Seq(JobType) /\ Len(q) \in Nat /\ Len(jobs) <= Len(q)
      /\ \A i \in DOMAIN q : q[i].time <= clock
      /\ \A d \in Payload, t \in Moment, n \in Nat :
            Written(jobs, saved, d, t, n) => Written(q, saved, d, t, n)
  BY QueueAfterCleanup
<1>3. UNCHANGED <<clock, saved, stored, excused, unexplained>>
  BY DEF GetCallbackPayload
<1>4. /\ clock \in Nat /\ jobs \in Seq(JobType) /\ Len(jobs) \in Nat
      /\ stored \in [Payload -> Moment] /\ lookup \in [Press -> LookupType]
      /\ stored[k] <= clock
  BY DEF PayloadInv, PayloadTypes
<1>5. PICK next \in LookupType :
         /\ lookup' = [lookup EXCEPT ![r] = next]
         /\ next # NoLookup =>
               /\ next.key = k /\ next.ahead = Len(q) /\ next.since = stored[k]
               /\ next.owed => Owed(k)
  <2> DEFINE f == [at |-> "flushing", key |-> k, ahead |-> Len(q),
                   owed |-> Owed(k), since |-> stored[k]]
  <2>0. Owed(k) \in BOOLEAN
    BY DEF Owed
  <2>1. f \in LookupType /\ f.key = k /\ f.ahead = Len(q) /\ f.since = stored[k]
        /\ (f.owed => Owed(k))
    BY <1>2, <1>4, <2>0 DEF LookupType
  <2>2. CASE Remembers(Cleaned, k)
    BY <2>2 DEF GetCallbackPayload, Ends, LookupType
  <2>3. CASE ~Remembers(Cleaned, k)
    <3>1. lookup' = [lookup EXCEPT ![r] = f]
      BY <1>1, <2>3 DEF GetCallbackPayload, Flushing, Ahead
    <3> QED
      BY <2>1, <3>1
  <2> QED
    BY <2>2, <2>3
<1>6. PayloadTypes'
  BY <1>1, <1>2, <1>3, <1>4, <1>5 DEF PayloadInv, PayloadTypes
<1>7. ASSUME NEW d \in Payload, Owed(d)
      PROVE  Written(q, saved, d, stored[d], Len(q))
  <2>1. Written(jobs, saved, d, stored[d], Len(jobs)) /\ stored[d] \in Moment
    BY <1>4, <1>7 DEF PayloadInv, Promised
  <2>2. Written(q, saved, d, stored[d], Len(jobs))
    BY <1>2, <1>4, <2>1
  <2> QED
    BY <1>2, <1>4, <2>2, WrittenByMore
<1>8. ASSUME NEW d \in Press  PROVE  Waits(d)'
  <2>1. CASE d = r
    BY <1>1, <1>2, <1>3, <1>4, <1>5, <1>7, <2>1 DEF Waits, Wronged, Owed
  <2>2. CASE d # r /\ lookup[d] # NoLookup
    <3>1. /\ lookup[d].key \in Payload /\ lookup[d].ahead \in Nat
          /\ lookup[d].since \in Moment /\ lookup'[d] = lookup[d]
          /\ Waits(d)
      BY <1>4, <1>5, <2>2 DEF LookupType, PayloadInv
    <3>2. Wronged(d)' <=> Wronged(d)
      BY <1>3, <3>1 DEF Wronged, Old
    <3> QED
      BY <1>1, <1>2, <1>3, <1>4, <2>2, <3>1, <3>2 DEF Waits
  <2>3. CASE d # r /\ lookup[d] = NoLookup
    BY <1>4, <1>5, <2>3 DEF Waits
  <2> QED
    BY <2>1, <2>2, <2>3
<1>9. \A d \in Payload : Promised(d)'
  BY <1>1, <1>3, <1>7 DEF Promised, Owed, Old
<1> QED
  BY <1>3, <1>6, <1>8, <1>9 DEF PayloadInv
\* What a job makes of the rows and of what is excused.
LEMMA JobWrites ==
    ASSUME PayloadInv, Job, NEW k \in Payload, NEW t \in Moment, NEW n \in Nat,
           ~Old(t), t # Never, k \notin excused', Written(jobs, saved, k, t, n)
    PROVE  Written(jobs', saved', k, t, IF n = 0 THEN 0 ELSE n - 1)
<1> DEFINE job == Head(jobs)
<1>1. /\ jobs \in Seq(JobType) /\ jobs # <<>> /\ jobs' = Tail(jobs)
      /\ clock \in Nat /\ saved \in [Payload -> Moment] /\ PayloadTTL \in Nat
      /\ job \in JobType /\ job.time <= clock
  BY PayloadAssumption DEF Job, PayloadInv, PayloadTypes
<1>2. CASE /\ saved' = [d \in Payload |->
                   IF d \in job.key THEN job.time
                   ELSE IF job.op = "clean" /\ saved[d] # Never
                           /\ job.time - saved[d] > PayloadTTL THEN Never
                   ELSE saved[d]]
           /\ UNCHANGED excused
  <2>1. k \in job.key /\ job.time >= t => saved'[k] >= t
    BY <1>2
  <2>2. ASSUME k \notin job.key, saved[k] >= t  PROVE  saved'[k] >= t
    <3>1. saved[k] \in Moment /\ job.time \in Nat
      BY <1>1 DEF JobType
    <3>2. ~(saved[k] # Never /\ job.time - saved[k] > PayloadTTL)
      BY <1>1, <2>2, <3>1 DEF Old, Moment, Never
    <3> QED
      BY <1>2, <2>2, <3>2
  <2> QED
    BY <1>1, <2>1, <2>2, WrittenOn
<1>3. CASE excused' = excused \cup job.key /\ UNCHANGED saved
  <2>1. k \notin job.key
    BY <1>3
  <2> QED
    BY <1>1, <1>3, <2>1, WrittenOn
<1> QED
  BY <1>2, <1>3 DEF Job

LEMMA JobStep ==
    ASSUME PayloadInv, Job
    PROVE  PayloadInv'
<1>1. /\ jobs \in Seq(JobType) /\ jobs # <<>> /\ jobs' = Tail(jobs)
      /\ clock \in Nat /\ saved \in [Payload -> Moment]
      /\ stored \in [Payload -> Moment] /\ lookup \in [Press -> LookupType]
      /\ excused \subseteq excused'
      /\ UNCHANGED <<clock, stored, unexplained>>
      /\ Len(jobs) \in Nat \ {0} /\ Len(jobs') = Len(jobs) - 1
  BY DEF Job, PayloadInv, PayloadTypes
<1>2. /\ jobs' \in Seq(JobType)
      /\ \A i \in DOMAIN jobs' : jobs'[i].time <= clock
  BY <1>1 DEF PayloadInv, PayloadTypes
<1>3. saved' \in [Payload -> Moment]
  <2>1. Head(jobs) \in JobType
    BY <1>1
  <2>2. \A k \in Payload : saved[k] \in Moment /\ Head(jobs).time \in Moment
    BY <1>1, <2>1 DEF JobType, Moment
  <2>3. Never \in Moment
    BY DEF Moment
  <2> QED
    BY <1>1, <2>2, <2>3 DEF Job
<1>4. lookup' = [r \in Press |->
         IF lookup[r].at = "flushing" /\ lookup[r].ahead > 0
         THEN [lookup[r] EXCEPT !.ahead = lookup[r].ahead - 1] ELSE lookup[r]]
  BY DEF Job
<1>5. ASSUME NEW r \in Press, lookup[r] # NoLookup
      PROVE  /\ lookup'[r] \in LookupType /\ lookup'[r] # NoLookup
             /\ lookup'[r].at = lookup[r].at /\ lookup'[r].key = lookup[r].key
             /\ lookup'[r].owed = lookup[r].owed
             /\ lookup'[r].since = lookup[r].since
             /\ lookup[r].at = "flushing" =>
                   lookup'[r].ahead = IF lookup[r].ahead = 0 THEN 0
                                      ELSE lookup[r].ahead - 1
  <2>1. lookup[r] \in [at : {"flushing", "deleting"}, key : Payload, ahead : Nat,
                       owed : BOOLEAN, since : Moment]
    BY <1>1, <1>5 DEF LookupType
  <2>2. CASE lookup[r].at = "flushing" /\ lookup[r].ahead > 0
    <3>1. lookup'[r] = [lookup[r] EXCEPT !.ahead = lookup[r].ahead - 1]
      BY <1>4, <2>2
    <3>2. lookup[r].ahead - 1 \in Nat
      BY <2>1, <2>2
    <3> QED
      BY <2>1, <2>2, <3>1, <3>2 DEF LookupType, NoLookup
  <2>3. CASE ~(lookup[r].at = "flushing" /\ lookup[r].ahead > 0)
    <3>1. lookup'[r] = lookup[r]
      BY <1>4, <2>3
    <3> QED
      BY <1>5, <2>1, <2>3, <3>1 DEF LookupType
  <2> QED
    BY <2>2, <2>3
<1>6. ASSUME NEW r \in Press, lookup[r] = NoLookup
      PROVE  lookup'[r] = NoLookup
  BY <1>4, <1>6 DEF NoLookup
<1>7. PayloadTypes'
  <2>1. DOMAIN lookup' = Press /\ \A r \in Press : lookup'[r] \in LookupType
    BY <1>4, <1>5, <1>6 DEF LookupType
  <2>2. lookup' \in [Press -> LookupType]
    BY <1>4, <2>1
  <2> QED
    BY <1>1, <1>2, <1>3, <2>2 DEF PayloadInv, PayloadTypes
<1>8. ASSUME NEW k \in Payload  PROVE  Promised(k)'
  <2> SUFFICES ASSUME Owed(k)'
               PROVE  Written(jobs', saved', k, stored[k], Len(jobs'))
    BY <1>1 DEF Promised
  <2>1. /\ Owed(k) /\ k \notin excused' /\ ~Old(stored[k]) /\ stored[k] # Never
        /\ stored[k] \in Moment
    BY <1>1 DEF Owed, Old
  <2>2. Written(jobs, saved, k, stored[k], Len(jobs))
    BY <2>1 DEF PayloadInv, Promised
  <2>3. (IF Len(jobs) = 0 THEN 0 ELSE Len(jobs) - 1) = Len(jobs')
    BY <1>1
  <2> QED
    BY <1>1, <2>1, <2>2, <2>3, JobWrites
<1>9. ASSUME NEW r \in Press  PROVE  Waits(r)'
  <2>1. CASE lookup[r] = NoLookup
    BY <1>6, <2>1 DEF Waits
  <2>2. CASE lookup[r] # NoLookup
    <3>1. /\ lookup[r].key \in Payload /\ lookup[r].ahead \in Nat
          /\ lookup[r].since \in Moment /\ Waits(r)
      BY <1>1, <2>2 DEF LookupType, PayloadInv
    <3>2. Wronged(r)' => /\ Wronged(r) /\ lookup[r].key \notin excused'
                         /\ ~Old(lookup[r].since)
      BY <1>1, <1>5, <2>2 DEF Wronged, Old
    <3>3. ASSUME lookup[r].at = "flushing", Wronged(r)'
          PROVE  Written(jobs', saved', lookup'[r].key, lookup'[r].since,
                         lookup'[r].ahead)
      <4>1. /\ Written(jobs, saved, lookup[r].key, lookup[r].since,
                       lookup[r].ahead)
            /\ lookup[r].since # Never
        BY <2>2, <3>1, <3>2, <3>3 DEF Waits, Wronged
      <4> QED
        BY <1>5, <2>2, <3>1, <3>2, <3>3, <4>1, JobWrites
    <3>4. lookup[r].at = "flushing" => lookup'[r].ahead <= Len(jobs')
      BY <1>1, <1>5, <2>2, <3>1 DEF Waits
    <3> QED
      BY <1>1, <1>5, <2>2, <3>1, <3>3, <3>4 DEF Waits
  <2> QED
    BY <2>1, <2>2
<1> QED
  BY <1>1, <1>7, <1>8, <1>9 DEF PayloadInv

\* The process ends: what its jobs have not written is excused.
LEMMA ForgetStep ==
    ASSUME PayloadInv, Forget, UNCHANGED <<clock, saved, stored, unexplained>>,
           excused' = excused \cup UNION {jobs[i].key : i \in DOMAIN jobs}
    PROVE  PayloadInv'
<1>1. /\ jobs' = <<>> /\ \A r \in Press : lookup'[r] = NoLookup
      /\ lookup' \in [Press -> LookupType]
  BY DEF Forget, LookupType
<1>2. PayloadTypes'
  BY <1>1 DEF PayloadInv, PayloadTypes
<1>3. ASSUME NEW k \in Payload, Owed(k)'
      PROVE  Written(jobs', saved, k, stored[k], 0)
  <2>1. Owed(k) /\ \A i \in DOMAIN jobs : k \notin jobs[i].key
    BY <1>3 DEF Owed, Old
  <2>2. PICK i \in 0..Len(jobs) : IsWrite(jobs, saved, k, stored[k], i)
    BY <2>1 DEF PayloadInv, Promised, Written
  <2>3. saved[k] >= stored[k]
    BY <2>1, <2>2 DEF IsWrite
  <2> QED
    BY <1>1, <2>3 DEF Written, IsWrite
<1>4. Len(jobs') = 0
  BY <1>1
<1> QED
  BY <1>1, <1>2, <1>3, <1>4 DEF PayloadInv, Promised, Waits

LEMMA PayloadStep ==
    ASSUME PayloadInv, [PayloadsNext]_<<clock, payloadVars>>
    PROVE  PayloadInv'
<1>1. CASE UNCHANGED <<clock, payloadVars>>
  BY <1>1
     DEF PayloadInv, PayloadTypes, Promised, Waits, Wronged, Owed, Old, payloadVars
<1>2. CASE Tick /\ UNCHANGED payloadVars
  <2>1. /\ clock \in Nat /\ clock' = clock + 1 /\ PayloadTTL \in Nat
        /\ UNCHANGED <<saved, jobs, lookup, stored, excused, unexplained>>
    BY <1>2, PayloadAssumption DEF Tick, payloadVars, PayloadInv, PayloadTypes
  <2>2. \A t \in Moment : Old(t) => Old(t)'
    BY <2>1 DEF Old, Moment, Never
  <2>3. PayloadTypes'
    <3>1. /\ \A k \in Payload : stored[k] \in Int
          /\ \A i \in DOMAIN jobs : jobs[i].time \in Int
      <4>1. stored \in [Payload -> Moment] /\ jobs \in Seq(JobType)
        BY DEF PayloadInv, PayloadTypes
      <4>2. \A i \in DOMAIN jobs : jobs[i] \in JobType
        BY <4>1
      <4> QED
        BY <4>1, <4>2 DEF Moment, Never, JobType
    <3> QED
      BY <2>1, <3>1 DEF PayloadInv, PayloadTypes
  <2>4. \A k \in Payload : Promised(k)'
    <3>1. \A k \in Payload : stored[k] \in Moment /\ (Owed(k)' => Owed(k))
      BY <2>1, <2>2 DEF PayloadInv, PayloadTypes, Owed
    <3> QED
      BY <2>1, <3>1 DEF PayloadInv, Promised
  <2>5. ASSUME NEW r \in Press, lookup[r] # NoLookup
        PROVE  Waits(r)'
    <3>1. lookup[r].since \in Moment /\ lookup[r].since \in Int /\ Waits(r)
      BY <2>5 DEF PayloadInv, PayloadTypes, LookupType, Moment, Never
    <3>2. Wronged(r)' => Wronged(r)
      BY <2>1, <2>2, <3>1 DEF Wronged
    <3> QED
      BY <2>1, <2>5, <3>1, <3>2 DEF Waits
  <2> QED
    BY <2>1, <2>3, <2>4, <2>5 DEF PayloadInv, Waits
<1>3. CASE Job
  BY <1>3, JobStep
<1>4. CASE StopProcess \/ LoseProcess
  <2>1. excused' = excused \cup UNION {jobs[i].key : i \in DOMAIN jobs}
    BY <1>4 DEF StopProcess, LoseProcess, Flushed
  <2> QED
    BY <1>4, <2>1, ForgetStep DEF StopProcess, LoseProcess
<1>5. ASSUME NEW k \in Payload, StoreCallbackPayload(k)  PROVE  PayloadInv'
  BY <1>5, StoreStep
<1>6. ASSUME NEW r \in Press, NEW k \in Payload, GetCallbackPayload(r, k)
      PROVE  PayloadInv'
  BY <1>6, GetStep
<1>7. ASSUME NEW r \in Press,
             Found(r) \/ Missing(r) \/ Expired(r) \/ LookupFails(r)
      PROVE  PayloadInv'
  BY <1>7, ReadingStep
<1>8. ASSUME NEW r \in Press, DeleteExpired(r)  PROVE  PayloadInv'
  BY <1>8, DeleteStep
<1> QED
  BY <1>1, <1>2, <1>3, <1>4, <1>5, <1>6, <1>7, <1>8 DEF PayloadsNext

(***************************************************************************)
(* A button that is pressed in time finds its payload, for any number of   *)
(* payloads and presses, any capacity and any lifetime, unless something   *)
(* that is known to lose payloads has lost it (LossExplained): the queue   *)
(* of jobs, the look-ups that wait for it and the shutdown that empties it *)
(* leave no gap between the dictionary and the table.                      *)
(***************************************************************************)
THEOREM ButtonsFindTheirPayload == PayloadsSpec => []LossExplained
<1>1. PayloadsInit => PayloadInv
  BY DEF PayloadsInit, PayloadInv, PayloadTypes, Promised, Waits, Owed, Moment,
         Never, LookupType
<1>2. PayloadInv => LossExplained
  BY DEF PayloadInv, LossExplained
<1> QED
  BY <1>1, <1>2, PayloadStep, PTL DEF PayloadsSpec
-----------------------------------------------------------------------------
(* The limiter of the requests to Telegram.                                *)
-----------------------------------------------------------------------------

Cap == Burst * Unit

BucketType == [tokens : {n \in Nat : n <= Cap}, seen : Nat, cooldown_until : Nat]

BucketOK(b) == b \in BucketType /\ b.seen <= clock

BucketsOK(bs) == \A c \in DOMAIN bs : BucketOK(bs[c])

CooldownsWithin(bs, until) == \A c \in DOMAIN bs : bs[c].cooldown_until <= until

(***************************************************************************)
(* A bucket that holds so many tokens now has given no more than it got,   *)
(* since any of the requests that were sent.                               *)
(***************************************************************************)
InBudget(tokens, sent, fill) ==
    \A i \in DOMAIN sent :
        (Len(sent) - i + 1) * Unit + tokens <= Cap + (clock - sent[i]) * fill

Times(sent) == sent \in Seq(Nat) /\ \A i \in DOMAIN sent : sent[i] <= clock

Rated(tokens, sent, fill) ==
    Times(sent) /\ Within(sent, fill) /\ InBudget(tokens, sent, fill)

ChatsRated(bs, sent, C) ==
    \A c \in Chats \ C : Rated(Bucket(bs, c).tokens, sent[c], ChatFill)

(***************************************************************************)
(* The inductive invariant.                                                *)
(***************************************************************************)
GlobalRated(b, sent) ==
    BucketOK(b) /\ Rated(Refilled(b, GlobalFill).tokens, sent, GlobalFill)

RatesHold(bs, b, until, sent, all) ==
    /\ until \in Nat
    /\ sent \in [Chats -> Seq(Nat)]
    /\ BucketsOK(bs) /\ CooldownsWithin(bs, until) /\ ChatsRated(bs, sent, {})
    /\ GlobalRated(b, all)

LimiterInv ==
    /\ clock \in Nat
    /\ RatesHold(buckets, global_bucket, global_cooldown_until, sentTo, sentAll)

LEMMA LimiterConstants ==
    /\ Unit \in Nat \ {0} /\ Burst \in Nat \ {0}
    /\ GlobalFill \in Nat \ {0} /\ ChatFill \in Nat \ {0}
    /\ StateTTL \in Nat
    /\ Cap \in Nat
    /\ \A r \in Calls : ChatOf[r] \in Chats
BY TelegramLimiterAssumption DEF Cap

LEMMA OneMoreTick ==
    ASSUME NEW n \in Int, NEW fill \in Nat
    PROVE  (n + 1) * fill = n * fill + fill /\ n * fill \in Int
OBVIOUS

LEMMA NotNegative ==
    ASSUME NEW n \in Nat, NEW fill \in Nat
    PROVE  n * fill \in Nat
OBVIOUS

LEMMA NoLess ==
    ASSUME NEW m \in Nat, NEW n \in Nat, m <= n, NEW fill \in Nat
    PROVE  m * fill <= n * fill
OBVIOUS

LEMMA AtLeastOne ==
    ASSUME NEW n \in Nat, NEW fill \in Nat \ {0}, n >= fill
    PROVE  n \div fill >= 1
OBVIOUS

LEMMA FullIsOK ==
    ASSUME clock \in Nat
    PROVE  BucketOK(Full) /\ Full.tokens = Cap /\ Full.cooldown_until = 0
BY LimiterConstants DEF BucketOK, BucketType, Full, Cap

LEMMA RefilledIsOK ==
    ASSUME clock \in Nat, NEW b, BucketOK(b), NEW fill \in Nat
    PROVE  /\ BucketOK(Refilled(b, fill))
           /\ Refilled(b, fill).seen = clock
           /\ Refilled(b, fill).cooldown_until = b.cooldown_until
           /\ Refilled(b, fill).tokens
                 = Least(Cap, b.tokens + (clock - b.seen) * fill)
<1> DEFINE t == Least(Cap, b.tokens + (clock - b.seen) * fill)
<1>1. b \in BucketType /\ b.seen <= clock
  BY DEF BucketOK
<1>2. (clock - b.seen) * fill \in Nat
  BY <1>1, NotNegative DEF BucketType
<1>3. t \in {n \in Nat : n <= Cap}
  BY <1>1, <1>2, LimiterConstants DEF Least, BucketType
<1>4. Refilled(b, fill) = [b EXCEPT !.tokens = t, !.seen = clock]
  BY DEF Refilled, Cap
<1> HIDE DEF t
<1>5. BucketOK(Refilled(b, fill))
      /\ Refilled(b, fill).seen = clock /\ Refilled(b, fill).tokens = t
      /\ Refilled(b, fill).cooldown_until = b.cooldown_until
  <2> DEFINE T == {n \in Nat : n <= Cap}
             e == [b EXCEPT !.tokens = t, !.seen = clock]
  <2>1. b \in [tokens : T, seen : Nat, cooldown_until : Nat] /\ t \in T
    BY <1>1, <1>3 DEF BucketType
  <2> HIDE DEF T
  <2>2. /\ e \in [tokens : T, seen : Nat, cooldown_until : Nat]
        /\ e.seen = clock /\ e.tokens = t
        /\ e.cooldown_until = b.cooldown_until
    BY <2>1
  <2> HIDE DEF e
  <2>3. BucketOK(e)
    BY <2>2 DEF BucketOK, BucketType, T
  <2> QED
    BY <1>4, <2>2, <2>3 DEF e
<1> QED
  BY <1>5 DEF t

\* At the same time there is nothing to refill.
LEMMA RefilledAlready ==
    ASSUME clock \in Nat, NEW b, BucketOK(b), b.seen = clock, NEW fill \in Nat
    PROVE  Refilled(b, fill).tokens = b.tokens
<1>1. (clock - b.seen) * fill = 0
  OBVIOUS
<1>2. b.tokens \in Nat /\ b.tokens <= Cap /\ Cap \in Nat
  BY LimiterConstants DEF BucketOK, BucketType
<1>3. Refilled(b, fill).tokens = Least(Cap, b.tokens + (clock - b.seen) * fill)
  BY RefilledIsOK
<1>4. Refilled(b, fill).tokens = Least(Cap, b.tokens + 0)
  BY <1>1, <1>3
<1> QED
  BY <1>2, <1>4 DEF Least

LEMMA BucketIsOK ==
    ASSUME clock \in Nat, NEW bs, BucketsOK(bs), NEW c
    PROVE  /\ BucketOK(Bucket(bs, c)) /\ Bucket(bs, c).seen = clock
           /\ \A until \in Nat : CooldownsWithin(bs, until)
                 => Bucket(bs, c).cooldown_until <= until
<1>1. CASE c \in DOMAIN bs
  BY <1>1, RefilledIsOK, LimiterConstants DEF Bucket, BucketsOK, CooldownsWithin
<1>2. CASE c \notin DOMAIN bs
  BY <1>2, FullIsOK DEF Bucket, Full
<1> QED
  BY <1>1, <1>2

\* What the loop looks at it has refilled, and nothing more.
LEMMA LookedIsOK ==
    ASSUME clock \in Nat, NEW bs, BucketsOK(bs), NEW q
    PROVE  /\ BucketsOK(Looked(bs, q))
           /\ \A c : Bucket(Looked(bs, q), c).tokens = Bucket(bs, c).tokens
           /\ \A until \in Nat : CooldownsWithin(bs, until)
                 => CooldownsWithin(Looked(bs, q), until)
<1> DEFINE chats == {ChatOf[q[i]] : i \in Scanned(bs, q)}
           ls == Looked(bs, q)
<1>1. /\ DOMAIN ls = DOMAIN bs \cup chats
      /\ \A c \in DOMAIN ls : ls[c] = IF c \in chats THEN Bucket(bs, c) ELSE bs[c]
  BY DEF Looked
<1> HIDE DEF chats, ls
<1>2. BucketsOK(ls)
  BY <1>1, BucketIsOK DEF BucketsOK
<1>3. ASSUME NEW c  PROVE  Bucket(ls, c).tokens = Bucket(bs, c).tokens
  <2>1. CASE c \in chats
    <3>1. Bucket(ls, c) = Refilled(Bucket(bs, c), ChatFill)
      BY <1>1, <2>1 DEF Bucket
    <3> QED
      BY <3>1, BucketIsOK, RefilledAlready, LimiterConstants
  <2>2. CASE c \notin chats
    BY <1>1, <2>2 DEF Bucket
  <2> QED
    BY <2>1, <2>2
<1>4. ASSUME NEW until \in Nat, CooldownsWithin(bs, until)
      PROVE  CooldownsWithin(ls, until)
  BY <1>1, <1>4, BucketIsOK DEF CooldownsWithin
<1> QED
  BY <1>2, <1>3, <1>4 DEF ls

\* A chat whose bucket is dropped full, or kept, has what it had.
LEMMA KeptIsOK ==
    ASSUME clock \in Nat, NEW bs, BucketsOK(bs), NEW q, NEW D
    PROVE  /\ BucketsOK(Kept(bs, q, D))
           /\ \A c : c \notin Regained(bs, q, D) =>
                 Bucket(Kept(bs, q, D), c).tokens = Bucket(bs, c).tokens
           /\ \A until \in Nat : CooldownsWithin(bs, until)
                 => CooldownsWithin(Kept(bs, q, D), until)
<1> DEFINE ks == Kept(bs, q, D)
<1>1. /\ DOMAIN ks = (DOMAIN bs \ Unused(bs, q)) \ D
      /\ \A c \in DOMAIN ks : ks[c] = bs[c]
  BY DEF Kept
<1> HIDE DEF ks
<1>2. /\ BucketsOK(ks)
      /\ \A until \in Nat : CooldownsWithin(bs, until)
                               => CooldownsWithin(ks, until)
  BY <1>1 DEF BucketsOK, CooldownsWithin
<1>3. ASSUME NEW c, c \notin Regained(bs, q, D)
      PROVE  Bucket(ks, c).tokens = Bucket(bs, c).tokens
  <2>0. c \notin D /\ c \notin Unfilled(bs, q)
    BY <1>3 DEF Regained
  <2>1. CASE c \notin Unused(bs, q)
    BY <1>1, <2>0, <2>1 DEF Bucket
  <2>2. CASE c \in Unused(bs, q)
    <3>1. ~(Bucket(bs, c).tokens < Cap)
      BY <2>0, <2>2 DEF Unused, Unfilled, Cap
    <3>2. Bucket(bs, c).tokens \in Nat /\ Bucket(bs, c).tokens <= Cap
      BY BucketIsOK DEF BucketOK, BucketType
    <3>3. Bucket(bs, c).tokens = Cap
      BY <3>1, <3>2, LimiterConstants
    <3>4. Bucket(ks, c).tokens = Cap
      BY <1>1, <2>2, FullIsOK DEF Bucket, Unused
    <3> QED
      BY <3>3, <3>4
  <2> QED
    BY <2>1, <2>2
<1> QED
  BY <1>2, <1>3 DEF ks

\* With a TTL in which an empty bucket fills only the lack of room takes the
\* count of a chat: burst 3 and 0.75 requests a second take 4 seconds, the
\* default TTL is 900.
LEMMA LongTTLForgetsNothing ==
    ASSUME clock \in Nat, NEW bs, BucketsOK(bs), NEW q,
           StateTTL * ChatFill >= Burst * Unit
    PROVE  Unfilled(bs, q) = {}
<1> SUFFICES ASSUME NEW c \in Unfilled(bs, q)  PROVE  FALSE
  OBVIOUS
<1>1. /\ c \in DOMAIN bs /\ BucketOK(bs[c])
      /\ clock - bs[c].seen >= StateTTL /\ Bucket(bs, c).tokens < Cap
  BY DEF Unfilled, BucketsOK, Cap
<1>2. clock - bs[c].seen \in Nat /\ bs[c].tokens \in Nat
  BY <1>1 DEF BucketOK, BucketType
<1>3. /\ (clock - bs[c].seen) * ChatFill >= StateTTL * ChatFill
      /\ (clock - bs[c].seen) * ChatFill \in Nat /\ StateTTL * ChatFill \in Nat
  BY <1>1, <1>2, NoLess, NotNegative, LimiterConstants
<1>4. (clock - bs[c].seen) * ChatFill >= Cap
  BY <1>3, LimiterConstants DEF Cap
<1>5. Least(Cap, bs[c].tokens + (clock - bs[c].seen) * ChatFill) = Cap
  BY <1>2, <1>3, <1>4, LimiterConstants DEF Least
<1>6. Bucket(bs, c).tokens = Cap
  BY <1>1, <1>5, RefilledIsOK, LimiterConstants DEF Bucket
<1> QED
  BY <1>1, <1>6, LimiterConstants

LEMMA CooledIsOK ==
    ASSUME clock \in Nat, BucketsOK(buckets), NEW c, NEW until \in Nat
    PROVE  /\ BucketsOK(Cooled(c, until))
           /\ \A d : Bucket(Cooled(c, until), d).tokens = Bucket(buckets, d).tokens
           /\ \A last \in Nat : until <= last /\ CooldownsWithin(buckets, last)
                 => CooldownsWithin(Cooled(c, until), last)
<1> DEFINE cs == Cooled(c, until)
           b == Bucket(buckets, c)
           e == [b EXCEPT !.cooldown_until = Most(@, until)]
<1>1. /\ DOMAIN cs = DOMAIN buckets \cup {c}
      /\ \A d \in DOMAIN cs : cs[d] = IF d = c THEN e ELSE buckets[d]
  BY DEF Cooled
<1>2. BucketOK(b) /\ b.seen = clock
  BY BucketIsOK
<1>3. /\ BucketOK(e) /\ e.seen = clock /\ e.tokens = b.tokens
      /\ e.cooldown_until = Most(b.cooldown_until, until)
  <2> DEFINE T == {n \in Nat : n <= Cap}
  <2>1. b \in [tokens : T, seen : Nat, cooldown_until : Nat]
    BY <1>2 DEF BucketOK, BucketType
  <2> HIDE DEF T, b
  <2>2. Most(b.cooldown_until, until) \in Nat
    BY <2>1 DEF Most
  <2>3. /\ e \in [tokens : T, seen : Nat, cooldown_until : Nat]
        /\ e.seen = b.seen /\ e.tokens = b.tokens
        /\ e.cooldown_until = Most(b.cooldown_until, until)
    BY <2>1, <2>2
  <2> HIDE DEF e
  <2> QED
    BY <1>2, <2>3 DEF BucketOK, BucketType, T
<1> HIDE DEF cs, e
<1>4. BucketsOK(cs)
  BY <1>1, <1>3 DEF BucketsOK
<1>5. ASSUME NEW d  PROVE  Bucket(cs, d).tokens = Bucket(buckets, d).tokens
  <2>1. CASE d = c
    <3>1. Bucket(cs, d) = Refilled(e, ChatFill)
      BY <1>1, <2>1 DEF Bucket
    <3> QED
      BY <1>3, <2>1, <3>1, RefilledAlready, LimiterConstants
  <2>2. CASE d # c
    BY <1>1, <2>2 DEF Bucket
  <2> QED
    BY <2>1, <2>2
<1>6. ASSUME NEW last \in Nat, until <= last, CooldownsWithin(buckets, last)
      PROVE  CooldownsWithin(cs, last)
  <2>1. b.cooldown_until <= last
    BY <1>6, BucketIsOK
  <2>2. e.cooldown_until <= last
    BY <1>3, <1>6, <2>1 DEF Most
  <2> QED
    BY <1>1, <1>6, <2>2 DEF CooldownsWithin
<1> QED
  BY <1>4, <1>5, <1>6 DEF cs

LEMMA DelayIsANumber ==
    ASSUME NEW b, BucketOK(b), NEW fill \in Nat \ {0}
    PROVE  TokenDelay(b, fill) \in Int
<1>1. b.tokens \in Nat /\ Unit - b.tokens + fill - 1 \in Int
  BY LimiterConstants DEF BucketOK, BucketType
<1> QED
  BY <1>1 DEF TokenDelay

\* Where no delay is left a request is there to be taken.
LEMMA NoDelayLeft ==
    ASSUME NEW b, BucketOK(b), NEW fill \in Nat \ {0}, TokenDelay(b, fill) <= 0
    PROVE  b.tokens >= Unit
<1> SUFFICES ASSUME ~(b.tokens >= Unit)  PROVE  FALSE
  OBVIOUS
<1> DEFINE lack == Unit - b.tokens + fill - 1
<1>1. lack \in Nat /\ lack >= fill
  BY LimiterConstants DEF BucketOK, BucketType
<1> HIDE DEF lack
<1>2. lack \div fill >= 1
  BY <1>1, AtLeastOne
<1>3. TokenDelay(b, fill) = lack \div fill
  BY DEF TokenDelay, lack
<1>4. lack \div fill \in Int
  BY <1>1
<1> QED
  BY <1>2, <1>3, <1>4

LEMMA NothingSent ==
    ASSUME NEW tokens, NEW fill
    PROVE  Rated(tokens, <<>>, fill)
BY DEF Rated, Times, Within, InBudget

\* A request that is sent for a token keeps the rate.
LEMMA SentForAToken ==
    ASSUME clock \in Nat, NEW sent, NEW tokens \in Nat, tokens >= Unit,
           tokens <= Cap, NEW fill \in Nat, Rated(tokens, sent, fill)
    PROVE  Rated(tokens - Unit, Append(sent, clock), fill)
<1> PICK all, n : all = Append(sent, clock) /\ n = Len(sent)
  OBVIOUS
<1>0. sent \in Seq(Nat) /\ Unit \in Nat \ {0} /\ Cap \in Nat
  BY LimiterConstants DEF Rated, Times
<1>1. /\ all \in Seq(Nat) /\ Len(all) = n + 1 /\ DOMAIN all = 1..(n + 1)
      /\ all[n + 1] = clock /\ n \in Nat /\ DOMAIN sent = 1..n
      /\ \A i \in 1..n : all[i] = sent[i] /\ sent[i] \in Nat /\ sent[i] <= clock
  BY <1>0 DEF Rated, Times
<1>6. \A i \in 1..n :
         (n - i + 1) * Unit + tokens <= Cap + (clock - sent[i]) * fill
  BY <1>1 DEF Rated, InBudget
<1>7. \A i, j \in 1..n :
         i <= j => (j - i + 1) * Unit <= Cap + (sent[j] - sent[i]) * fill
  BY DEF Rated, Within, Cap
\* What the requests from the i-th on have taken, this one with them.
<1>2. ASSUME NEW i \in 1..(n + 1)
      PROVE  (n + 1 - i + 1) * Unit + (tokens - Unit)
                <= Cap + (clock - all[i]) * fill
  <2>1. CASE i = n + 1
    <3>1. (n + 1 - i + 1) * Unit = Unit /\ (clock - all[i]) * fill = 0
      BY <1>0, <1>1, <2>1
    <3> QED
      BY <1>0, <3>1
  <2>2. CASE i \in 1..n
    <3>1. /\ (n - i + 1) * Unit + tokens <= Cap + (clock - sent[i]) * fill
      BY <1>6, <2>2
    <3>5. n - i + 1 \in Nat /\ clock - sent[i] \in Nat /\ all[i] = sent[i]
      BY <1>1, <2>2
    <3>2. /\ (n - i + 1 + 1) * Unit = (n - i + 1) * Unit + Unit
          /\ (n - i + 1) * Unit \in Int
      BY <1>0, <3>5, OneMoreTick
    <3>3. n + 1 - i + 1 = n - i + 1 + 1
      BY <1>1, <2>2
    <3>4. (clock - sent[i]) * fill \in Nat
      BY <3>5, NotNegative
    <3> QED
      BY <1>0, <3>1, <3>2, <3>3, <3>4, <3>5
  <2> QED
    BY <1>1, <2>1, <2>2
<1>3. InBudget(tokens - Unit, all, fill)
  BY <1>1, <1>2 DEF InBudget
<1>4. Within(all, fill)
  <2> SUFFICES ASSUME NEW i \in 1..(n + 1), NEW j \in 1..(n + 1), i <= j
               PROVE  (j - i + 1) * Unit <= Cap + (all[j] - all[i]) * fill
    BY <1>1 DEF Within, Cap
  <2>1. CASE j \in 1..n
    <3>1. all[i] = sent[i] /\ all[j] = sent[j] /\ i \in 1..n
      BY <1>1, <2>1
    <3> QED
      BY <1>7, <2>1, <3>1
  <2>2. CASE j = n + 1
    <3>1. /\ (n + 1 - i + 1) * Unit + (tokens - Unit)
                <= Cap + (clock - all[i]) * fill
      BY <1>2
    <3>2. n + 1 - i + 1 \in Nat /\ clock - all[i] \in Nat
      <4>1. CASE i = n + 1
        BY <1>1, <4>1
      <4>2. CASE i \in 1..n
        BY <1>1, <4>2
      <4> QED
        BY <1>1, <4>1, <4>2
    <3>3. (n + 1 - i + 1) * Unit \in Nat /\ (clock - all[i]) * fill \in Nat
      BY <1>0, <3>2, NotNegative
    <3>4. tokens - Unit \in Nat
      BY <1>0
    <3>5. (n + 1 - i + 1) * Unit <= Cap + (clock - all[i]) * fill
      BY <1>0, <3>1, <3>3, <3>4
    <3> QED
      BY <1>1, <2>2, <3>5
  <2> QED
    BY <1>1, <2>1, <2>2
<1>5. Times(all)
  BY <1>1 DEF Times
<1> QED
  BY <1>3, <1>4, <1>5 DEF Rated
\* What holds of the state that a step makes at its own time.
LEMMA AtTheSameTime ==
    ASSUME clock \in Nat, clock' = clock,
           NEW bs, NEW b, NEW until, NEW sent, NEW all,
           RatesHold(bs, b, until, sent, all),
           buckets' = bs, global_bucket' = b, global_cooldown_until' = until,
           sentTo' = sent, sentAll' = all
    PROVE  LimiterInv'
BY DEF LimiterInv, RatesHold, GlobalRated, ChatsRated, CooldownsWithin,
       BucketsOK, BucketOK, BucketType, Bucket, Refilled, Full, Rated, Times,
       Within, InBudget

\* The buckets and what was sent, while a step is under way: the chats C are
\* to be forgotten.
UnderWay(bs, until, C) ==
    /\ until \in Nat
    /\ BucketsOK(bs) /\ CooldownsWithin(bs, until) /\ ChatsRated(bs, sentTo, C)

LEMMA UnderWayKept ==
    ASSUME clock \in Nat, NEW bs, NEW until, NEW C, UnderWay(bs, until, C),
           NEW q, NEW D
    PROVE  UnderWay(Kept(bs, q, D), until, C \cup Regained(bs, q, D))
<1> PICK ks : ks = Kept(bs, q, D)
  OBVIOUS
<1>1. /\ BucketsOK(ks) /\ CooldownsWithin(ks, until)
      /\ \A c : c \notin Regained(bs, q, D) =>
            Bucket(ks, c).tokens = Bucket(bs, c).tokens
  BY KeptIsOK DEF UnderWay
<1>2. ChatsRated(ks, sentTo, C \cup Regained(bs, q, D))
  BY <1>1 DEF UnderWay, ChatsRated
<1> QED
  BY <1>1, <1>2 DEF UnderWay

LEMMA ForgottenIsRated ==
    ASSUME NEW bs, NEW sent \in [Chats -> Seq(Nat)], NEW C, ChatsRated(bs, sent, C)
    PROVE  /\ Forgotten(C, sent) \in [Chats -> Seq(Nat)]
           /\ ChatsRated(bs, Forgotten(C, sent), {})
<1>1. ASSUME NEW c \in Chats
      PROVE  /\ Forgotten(C, sent)[c] \in Seq(Nat)
             /\ Rated(Bucket(bs, c).tokens, Forgotten(C, sent)[c], ChatFill)
  BY NothingSent DEF Forgotten, ChatsRated
<1>2. Forgotten(C, sent) = [c \in Chats |-> Forgotten(C, sent)[c]]
  BY DEF Forgotten
<1>3. Forgotten(C, sent) \in [Chats -> Seq(Nat)]
  BY <1>1, <1>2
<1> QED
  BY <1>1, <1>3 DEF ChatsRated

LEMMA SpentIsOK ==
    ASSUME NEW b, BucketOK(b), b.tokens >= Unit
    PROVE  /\ BucketOK(Spent(b)) /\ Spent(b).tokens = b.tokens - Unit
           /\ Spent(b).seen = b.seen
           /\ Spent(b).cooldown_until = b.cooldown_until
<1> DEFINE T == {n \in Nat : n <= Cap}
<1>1. b \in [tokens : T, seen : Nat, cooldown_until : Nat]
  BY DEF BucketOK, BucketType
<1>2. b.tokens - Unit \in T
  BY <1>1, LimiterConstants
<1> HIDE DEF T
<1>3. /\ Spent(b) \in [tokens : T, seen : Nat, cooldown_until : Nat]
      /\ Spent(b).tokens = b.tokens - Unit /\ Spent(b).seen = b.seen
      /\ Spent(b).cooldown_until = b.cooldown_until
  BY <1>1, <1>2 DEF Spent
<1> QED
  BY <1>3 DEF BucketOK, BucketType, T

\* The bucket of the process as it is after a look at it.
LEMMA GlobalLooked ==
    ASSUME LimiterInv
    PROVE  LET b == Refilled(global_bucket, GlobalFill)
           IN  /\ BucketOK(b) /\ b.seen = clock
               /\ Rated(b.tokens, sentAll, GlobalFill)
               /\ GlobalRated(b, sentAll)
<1> DEFINE b == Refilled(global_bucket, GlobalFill)
<1>1. /\ BucketOK(b) /\ b.seen = clock /\ clock \in Nat
      /\ Rated(b.tokens, sentAll, GlobalFill)
  BY RefilledIsOK, LimiterConstants DEF LimiterInv, RatesHold, GlobalRated
<1> HIDE DEF b
<1>2. Refilled(b, GlobalFill).tokens = b.tokens
  BY <1>1, RefilledAlready, LimiterConstants
<1> QED
  BY <1>1, <1>2 DEF GlobalRated, b

LEMMA AdmitStep ==
    ASSUME LimiterInv, NEW r \in Calls, NEW q, NEW bs, NEW where, NEW until,
           NEW C, UnderWay(bs, until, C),
           MayGo(r, q, bs, until), Admit(r, q, bs, where, C),
           clock' = clock, global_cooldown_until' = until
    PROVE  LimiterInv'
<1> DEFINE g == Refilled(global_bucket, GlobalFill)
           ls == Looked(bs, q)
           rest == Without(q, r)
<1> PICK c : c = ChatOf[r]
  OBVIOUS
<1>p. PICK paid : paid = [ls EXCEPT ![c] = Spent(@)]
  OBVIOUS
<1>0. clock \in Nat /\ c \in Chats /\ until \in Nat
  BY LimiterConstants DEF LimiterInv, UnderWay
<1>1. PICK E : /\ buckets' = Kept(paid, rest, E)
               /\ global_bucket' = Spent(g)
               /\ sentTo' = Forgotten(C \cup Regained(paid, rest, E),
                                      [sentTo EXCEPT ![c] = Append(@, clock)])
               /\ sentAll' = Append(sentAll, clock)
  BY <1>p DEF Admit
\* The request is the first whose chat may go.
<1>2. PICK i \in 1..Len(q) :
         q[i] = r /\ i \in Scanned(bs, q) /\ ChatDelay(bs, c) <= 0
  BY DEF MayGo, Ready, Scanned
<1>3. /\ BucketsOK(ls) /\ CooldownsWithin(ls, until)
      /\ \A d : Bucket(ls, d).tokens = Bucket(bs, d).tokens
      /\ c \in DOMAIN ls /\ ls[c] = Bucket(bs, c)
      /\ DOMAIN paid = DOMAIN ls
      /\ \A d \in DOMAIN ls : paid[d] = IF d = c THEN Spent(ls[c]) ELSE ls[d]
  <2>1. /\ BucketsOK(ls) /\ CooldownsWithin(ls, until)
        /\ \A d : Bucket(ls, d).tokens = Bucket(bs, d).tokens
    BY <1>0, LookedIsOK DEF UnderWay
  <2>2. c \in DOMAIN ls /\ ls[c] = Bucket(bs, c)
    BY <1>2 DEF Looked
  <2>3. DOMAIN paid = DOMAIN ls
        /\ \A d \in DOMAIN ls : paid[d] = IF d = c THEN Spent(ls[c]) ELSE ls[d]
    BY <1>p DEF Looked
  <2> QED
    BY <2>1, <2>2, <2>3
<1> HIDE DEF ls
<1>4. BucketOK(ls[c]) /\ ls[c].seen = clock /\ ls[c].tokens >= Unit
  <2>1. BucketOK(ls[c]) /\ ls[c].seen = clock
    BY <1>0, <1>3, BucketIsOK DEF UnderWay
  <2>2. TokenDelay(ls[c], ChatFill) <= 0
    <3>1. Most(Bucket(bs, c).cooldown_until - clock,
               TokenDelay(Bucket(bs, c), ChatFill)) <= 0
      BY <1>2 DEF ChatDelay
    <3>2. TokenDelay(ls[c], ChatFill) \in Int /\ ls[c].cooldown_until - clock \in Int
      <4>1. ls[c].cooldown_until \in Nat
        BY <2>1 DEF BucketOK, BucketType
      <4> QED
        BY <1>0, <2>1, <4>1, DelayIsANumber, LimiterConstants
    <3> QED
      BY <1>3, <3>1, <3>2 DEF Most
  <2> QED
    BY <2>1, <2>2, NoDelayLeft, LimiterConstants
<1>5. /\ BucketOK(Spent(ls[c])) /\ Spent(ls[c]).tokens = ls[c].tokens - Unit
      /\ Spent(ls[c]).seen = clock
      /\ Spent(ls[c]).cooldown_until = ls[c].cooldown_until
  BY <1>4, SpentIsOK
\* The chat of the request has paid, the others have what they had.
<1>6. /\ BucketsOK(paid) /\ CooldownsWithin(paid, until)
      /\ \A d : d # c => Bucket(paid, d).tokens = Bucket(bs, d).tokens
      /\ Bucket(paid, c).tokens = Bucket(bs, c).tokens - Unit
      /\ Bucket(bs, c).tokens >= Unit
  <2>1. BucketsOK(paid) /\ CooldownsWithin(paid, until)
    BY <1>3, <1>5 DEF BucketsOK, CooldownsWithin
  <2>2. ASSUME NEW d, d # c
        PROVE  Bucket(paid, d).tokens = Bucket(bs, d).tokens
    <3>1. Bucket(paid, d) = Bucket(ls, d)
      BY <1>3, <2>2 DEF Bucket
    <3> QED
      BY <1>3, <3>1
  <2>3. Bucket(paid, c).tokens = Bucket(bs, c).tokens - Unit
    <3>1. Bucket(paid, c) = Refilled(Spent(ls[c]), ChatFill)
      BY <1>3 DEF Bucket
    <3> QED
      BY <1>0, <1>3, <1>5, <3>1, RefilledAlready, LimiterConstants
  <2> QED
    BY <1>3, <1>4, <2>1, <2>2, <2>3
<1> PICK sent : sent = [sentTo EXCEPT ![c] = Append(@, clock)]
  OBVIOUS
<1>7. /\ sent \in [Chats -> Seq(Nat)] /\ sent[c] = Append(sentTo[c], clock)
      /\ \A d \in Chats : d # c => sent[d] = sentTo[d]
  BY <1>0 DEF LimiterInv, RatesHold
<1>8. ChatsRated(paid, sent, C)
  <2> SUFFICES ASSUME NEW d \in Chats \ C
               PROVE  Rated(Bucket(paid, d).tokens, sent[d], ChatFill)
    BY DEF ChatsRated
  <2>1. Rated(Bucket(bs, d).tokens, sentTo[d], ChatFill)
    BY DEF UnderWay, ChatsRated
  <2>2. CASE d # c
    BY <1>6, <1>7, <2>1, <2>2
  <2>3. CASE d = c
    <3>1. Bucket(bs, c).tokens \in Nat /\ Bucket(bs, c).tokens <= Cap
      BY <1>3, <1>4 DEF BucketOK, BucketType
    <3> QED
      BY <1>0, <1>6, <1>7, <2>1, <2>3, <3>1, SentForAToken, LimiterConstants
  <2> QED
    BY <2>2, <2>3
\* The clean-up, and what is forgotten with it.
<1> HIDE DEF rest
<1>k. PICK ks, gone : ks = Kept(paid, rest, E) /\ gone = Regained(paid, rest, E)
  OBVIOUS
<1>9. /\ BucketsOK(ks) /\ CooldownsWithin(ks, until)
      /\ \A d : d \notin gone => Bucket(ks, d).tokens = Bucket(paid, d).tokens
  <2>1. clock \in Nat /\ until \in Nat
        /\ BucketsOK(paid) /\ CooldownsWithin(paid, until)
    BY <1>0, <1>6
  <2> HIDE DEF g
  <2>2. /\ BucketsOK(ks)
        /\ \A d : d \notin gone => Bucket(ks, d).tokens = Bucket(paid, d).tokens
        /\ \A u \in Nat : CooldownsWithin(paid, u) => CooldownsWithin(ks, u)
    BY <1>k, <2>1, KeptIsOK
  <2> QED
    BY <2>1, <2>2
<1>10. ChatsRated(ks, sent, C \cup gone)
  BY <1>8, <1>9 DEF ChatsRated
<1>11. /\ Forgotten(C \cup gone, sent) \in [Chats -> Seq(Nat)]
       /\ ChatsRated(ks, Forgotten(C \cup gone, sent), {})
  BY <1>7, <1>10, ForgottenIsRated
<1>12. /\ BucketOK(g) /\ g.seen = clock /\ Rated(g.tokens, sentAll, GlobalFill)
  BY GlobalLooked
<1>13. GlobalRated(Spent(g), Append(sentAll, clock))
  <2> HIDE DEF g
  <2>1. TokenDelay(g, GlobalFill) <= 0
    <3>1. Most(until - clock, TokenDelay(g, GlobalFill)) <= 0
      BY DEF MayGo, GlobalDelay, g
    <3>2. TokenDelay(g, GlobalFill) \in Int /\ until - clock \in Int
      BY <1>0, <1>12, DelayIsANumber, LimiterConstants
    <3> QED
      BY <3>1, <3>2 DEF Most
  <2>2. g.tokens >= Unit
    BY <1>12, <2>1, NoDelayLeft, LimiterConstants
  <2>3. g.tokens \in Nat /\ g.tokens <= Cap
    BY <1>12 DEF BucketOK, BucketType
  <2>4. Rated(g.tokens - Unit, Append(sentAll, clock), GlobalFill)
    BY <1>0, <1>12, <2>2, <2>3, SentForAToken, LimiterConstants
  <2>5. /\ BucketOK(Spent(g)) /\ Spent(g).tokens = g.tokens - Unit
        /\ Spent(g).seen = clock
    BY <1>12, <2>2, SpentIsOK
  <2>6. Refilled(Spent(g), GlobalFill).tokens = g.tokens - Unit
    BY <1>0, <2>5, RefilledAlready, LimiterConstants
  <2> QED
    BY <2>4, <2>5, <2>6 DEF GlobalRated
<1>14. RatesHold(ks, Spent(g), until, Forgotten(C \cup gone, sent),
                 Append(sentAll, clock))
  BY <1>0, <1>9, <1>11, <1>13 DEF RatesHold
<1> QED
  BY <1>0, <1>1, <1>14, <1>k, AtTheSameTime
LEMMA SleepStep ==
    ASSUME LimiterInv, NEW r \in Calls, NEW q, NEW bs, NEW where, NEW until,
           NEW C, UnderWay(bs, until, C), Sleep(r, q, bs, where, until, C),
           clock' = clock, global_cooldown_until' = until
    PROVE  LimiterInv'
<1> DEFINE g == Refilled(global_bucket, GlobalFill)
<1>0. clock \in Nat /\ until \in Nat /\ sentTo \in [Chats -> Seq(Nat)]
  BY DEF LimiterInv, RatesHold, UnderWay
<1>1. PICK ls : /\ buckets' = ls
                /\ BucketsOK(ls) /\ CooldownsWithin(ls, until)
                /\ \A d : Bucket(ls, d).tokens = Bucket(bs, d).tokens
  BY <1>0, LookedIsOK DEF Sleep, UnderWay
<1>2. ChatsRated(ls, sentTo, C)
  BY <1>1 DEF UnderWay, ChatsRated
<1>3. /\ Forgotten(C, sentTo) \in [Chats -> Seq(Nat)]
      /\ ChatsRated(ls, Forgotten(C, sentTo), {})
  BY <1>0, <1>2, ForgottenIsRated
<1>4. GlobalRated(g, sentAll)
  BY GlobalLooked
<1>5. RatesHold(ls, g, until, Forgotten(C, sentTo), sentAll)
  BY <1>0, <1>1, <1>3, <1>4 DEF RatesHold
<1>6. /\ global_bucket' = g /\ sentTo' = Forgotten(C, sentTo)
      /\ sentAll' = sentAll
  BY DEF Sleep
<1> HIDE DEF g
<1> QED
  BY <1>0, <1>1, <1>5, <1>6, AtTheSameTime

LEMMA RoundStep ==
    ASSUME LimiterInv, NEW r \in Calls, NEW q, NEW bs, NEW where, NEW until,
           NEW C, UnderWay(bs, until, C), Round(r, q, bs, where, until, C),
           clock' = clock, global_cooldown_until' = until
    PROVE  LimiterInv'
<1>1. PICK D \in Cleanup(bs, q) :
         LET kept == Kept(bs, q, D)
             lost == C \cup Regained(bs, q, D)
         IN  IF MayGo(r, q, kept, until)
             THEN Admit(r, q, kept, where, lost)
             ELSE Sleep(r, q, kept, where, until, lost)
  BY DEF Round
<1> PICK kept, lost :
       kept = Kept(bs, q, D) /\ lost = C \cup Regained(bs, q, D)
  OBVIOUS
<1>2. UnderWay(kept, until, lost)
  BY UnderWayKept DEF LimiterInv
<1>3. CASE MayGo(r, q, kept, until)
  BY <1>1, <1>2, <1>3, AdmitStep
<1>4. CASE ~MayGo(r, q, kept, until)
  BY <1>1, <1>2, <1>4, SleepStep
<1> QED
  BY <1>3, <1>4

LEMMA NowUnderWay ==
    ASSUME LimiterInv
    PROVE  UnderWay(buckets, global_cooldown_until, {})
BY DEF LimiterInv, RatesHold, UnderWay

\* A RetryAfter pauses the chat no longer than everybody.
LEMMA CooledUnderWay ==
    ASSUME LimiterInv, NEW c, NEW until \in Nat, NEW longer \in Nat,
           until <= longer, global_cooldown_until <= longer
    PROVE  UnderWay(Cooled(c, until), longer, {})
<1> PICK cooled : cooled = Cooled(c, until)
  OBVIOUS
<1>1. clock \in Nat /\ global_cooldown_until \in Nat
  BY DEF LimiterInv, RatesHold
<1>2. CooldownsWithin(buckets, longer) /\ BucketsOK(buckets)
  <2>1. /\ CooldownsWithin(buckets, global_cooldown_until)
        /\ BucketsOK(buckets)
    BY DEF LimiterInv, RatesHold
  <2>2. \A d \in DOMAIN buckets : buckets[d].cooldown_until \in Nat
    BY <2>1 DEF BucketsOK, BucketOK, BucketType
  <2> QED
    BY <1>1, <2>1, <2>2 DEF CooldownsWithin
<1>3. /\ BucketsOK(cooled) /\ CooldownsWithin(cooled, longer)
      /\ \A d : Bucket(cooled, d).tokens = Bucket(buckets, d).tokens
  BY <1>1, <1>2, CooledIsOK
<1>4. ChatsRated(cooled, sentTo, {})
  BY <1>3 DEF LimiterInv, RatesHold, ChatsRated
<1> QED
  BY <1>3, <1>4 DEF UnderWay

LEMMA RetryStep ==
    ASSUME LimiterInv, NEW r \in Calls, NEW seconds \in Pauses,
           RetryAfter(r, seconds)
    PROVE  LimiterInv'
<1> PICK until, cooled :
       /\ until = Extended(clock + seconds)
       /\ cooled = Cooled(ChatOf[r], clock + seconds)
  OBVIOUS
<1>1. PICK D \in Cleanup(cooled, waiters) :
         \/ Join(r, Kept(cooled, waiters, D), until, Regained(cooled, waiters, D))
         \/ /\ buckets' = Kept(cooled, waiters, D)
            /\ sentTo' = Forgotten(Regained(cooled, waiters, D), sentTo)
            /\ UNCHANGED <<global_bucket, sentAll>>
  BY DEF RetryAfter
<1>2. clock' = clock /\ global_cooldown_until' = until
  BY DEF RetryAfter
<1>3. clock \in Nat /\ seconds \in Nat /\ global_cooldown_until \in Nat
  BY TelegramLimiterAssumption DEF LimiterInv, RatesHold
<1>4. until \in Nat /\ clock + seconds <= until /\ global_cooldown_until <= until
      /\ clock + seconds \in Nat
  BY <1>3 DEF Extended, Most
<1>5. UnderWay(cooled, until, {})
  BY <1>4, CooledUnderWay
<1> PICK kept, lost :
       kept = Kept(cooled, waiters, D) /\ lost = Regained(cooled, waiters, D)
  OBVIOUS
<1>6. UnderWay(kept, until, {} \cup lost)
  BY <1>3, <1>5, UnderWayKept
<1>7. {} \cup lost = lost
  OBVIOUS
<1>8. UnderWay(kept, until, lost)
  BY <1>6, <1>7
<1>9. CASE Join(r, kept, until, lost)
  BY <1>2, <1>8, <1>9, RoundStep DEF Join
<1>10. CASE /\ buckets' = kept /\ sentTo' = Forgotten(lost, sentTo)
            /\ UNCHANGED <<global_bucket, sentAll>>
  <2>1. /\ Forgotten(lost, sentTo) \in [Chats -> Seq(Nat)]
        /\ ChatsRated(kept, Forgotten(lost, sentTo), {})
    BY <1>8, ForgottenIsRated DEF UnderWay, LimiterInv, RatesHold
  <2>2. RatesHold(kept, global_bucket, until, Forgotten(lost, sentTo), sentAll)
    BY <1>8, <2>1 DEF UnderWay, LimiterInv, RatesHold
  <2> QED
    BY <1>2, <1>3, <1>10, <2>2, AtTheSameTime
<1> QED
  BY <1>1, <1>9, <1>10

LEMMA ShutdownStep ==
    ASSUME LimiterInv, Shutdown
    PROVE  LimiterInv'
<1> DEFINE none == [c \in {} |-> Full]
           nothing == [c \in Chats |-> <<>>]
<1>1. RatesHold(none, global_bucket, 0, nothing, sentAll)
  <2>1. nothing \in [Chats -> Seq(Nat)]
    <3>1. <<>> \in Seq(Nat)
      OBVIOUS
    <3> QED
      BY <3>1
  <2>2. BucketsOK(none) /\ CooldownsWithin(none, 0)
    BY DEF BucketsOK, CooldownsWithin
  <2>3. ChatsRated(none, nothing, {})
    BY NothingSent DEF ChatsRated
  <2> QED
    BY <2>1, <2>2, <2>3 DEF LimiterInv, RatesHold
<1>2. /\ clock \in Nat /\ clock' = clock
      /\ buckets' = none /\ global_bucket' = global_bucket
      /\ global_cooldown_until' = 0 /\ sentTo' = nothing /\ sentAll' = sentAll
  BY DEF Shutdown, LimiterInv
<1> HIDE DEF none, nothing
<1> QED
  BY <1>1, <1>2, AtTheSameTime
\* A bucket gets no more in a tick than what a tick adds.
LEMMA ATickRefills ==
    ASSUME clock \in Nat, clock' = clock + 1, NEW fill \in Nat,
           NEW old \in Nat, NEW new \in Nat, NEW sent, new <= old + fill,
           Rated(old, sent, fill)
    PROVE  Rated(new, sent, fill)'
<1>1. sent \in Seq(Nat) /\ Unit \in Nat \ {0} /\ Cap \in Nat
  BY LimiterConstants DEF Rated, Times
<1>2. /\ Len(sent) \in Nat /\ DOMAIN sent = 1..Len(sent)
      /\ \A i \in DOMAIN sent : sent[i] \in Nat /\ sent[i] <= clock
  BY <1>1 DEF Rated, Times
<1>3. ASSUME NEW i \in DOMAIN sent
      PROVE  (Len(sent) - i + 1) * Unit + new
                <= Cap + (clock' - sent[i]) * fill
  <2>1. (Len(sent) - i + 1) * Unit + old <= Cap + (clock - sent[i]) * fill
    BY DEF Rated, InBudget
  <2>2. /\ clock - sent[i] \in Nat /\ Len(sent) - i + 1 \in Nat
        /\ clock' - sent[i] = (clock - sent[i]) + 1
    BY <1>2
  <2>5. PICK n \in Nat : n = clock - sent[i] /\ n + 1 = clock' - sent[i]
    BY <2>2
  <2>3. (n + 1) * fill = n * fill + fill /\ n * fill \in Int
    BY OneMoreTick
  <2>4. (Len(sent) - i + 1) * Unit \in Nat
    BY <1>1, <2>2, NotNegative
  <2>6. PICK m, x : m = (Len(sent) - i + 1) * Unit /\ x = n * fill
    OBVIOUS
  <2>7. m + old <= Cap + x
    BY <2>1, <2>5, <2>6
  <2>8. m \in Nat /\ x \in Int /\ (clock' - sent[i]) * fill = x + fill
    BY <2>3, <2>4, <2>5, <2>6
  <2>9. m + new <= Cap + (x + fill)
    BY <1>1, <2>7, <2>8
  <2> QED
    BY <2>6, <2>8, <2>9
<1>4. \A i \in DOMAIN sent : sent[i] <= clock + 1
  BY <1>2
<1>5. InBudget(new, sent, fill)'
  BY <1>3 DEF InBudget
<1>6. Within(sent, fill)'
  BY DEF Rated, Within
<1>7. Times(sent)'
  BY <1>1, <1>4 DEF Times
<1> QED
  BY <1>5, <1>6, <1>7 DEF Rated

LEMMA RefilledByATick ==
    ASSUME clock \in Nat, NEW b, BucketOK(b), NEW fill \in Nat
    PROVE  Least(Cap, b.tokens + (clock + 1 - b.seen) * fill)
              <= Refilled(b, fill).tokens + fill
           /\ Least(Cap, b.tokens + (clock + 1 - b.seen) * fill) \in Nat
           /\ Refilled(b, fill).tokens \in Nat
<1>1. b.tokens \in Nat /\ b.seen \in Nat /\ b.seen <= clock /\ Cap \in Nat
  BY LimiterConstants DEF BucketOK, BucketType
<1>2. PICK n \in Nat : n = clock - b.seen /\ clock + 1 - b.seen = n + 1
  BY <1>1
<1>3. (n + 1) * fill = n * fill + fill /\ n * fill \in Nat
  BY OneMoreTick, NotNegative
<1>4. Refilled(b, fill).tokens = Least(Cap, b.tokens + n * fill)
  BY <1>2, RefilledIsOK
<1>5. Least(Cap, b.tokens + (n * fill + fill))
         <= Least(Cap, b.tokens + n * fill) + fill
  BY <1>1, <1>3 DEF Least
<1>6. /\ Least(Cap, b.tokens + (n * fill + fill)) \in Nat
      /\ Least(Cap, b.tokens + n * fill) \in Nat
  BY <1>1, <1>3 DEF Least
<1> QED
  BY <1>2, <1>3, <1>4, <1>5, <1>6

LEMMA TickStep ==
    ASSUME LimiterInv, Tick, UNCHANGED limiterVars
    PROVE  LimiterInv'
<1>1. /\ clock \in Nat /\ clock' = clock + 1 /\ clock' \in Nat
      /\ UNCHANGED <<buckets, global_bucket, global_cooldown_until, sentTo,
                     sentAll>>
  BY DEF Tick, LimiterInv, limiterVars, buckets_
<1>2. ASSUME NEW b, BucketOK(b)  PROVE  BucketOK(b)'
  BY <1>1, <1>2 DEF BucketOK, BucketType
<1>3. BucketsOK(buckets)'
  BY <1>1 DEF LimiterInv, RatesHold, BucketsOK, BucketOK, BucketType
<1>4. Rated(Refilled(global_bucket, GlobalFill).tokens, sentAll, GlobalFill)'
  <2> PICK new : new = Least(Cap, global_bucket.tokens
                                + (clock + 1 - global_bucket.seen) * GlobalFill)
    OBVIOUS
  <2> PICK old : old = Refilled(global_bucket, GlobalFill).tokens
    OBVIOUS
  <2> PICK sent : sent = sentAll
    OBVIOUS
  <2>1. BucketOK(global_bucket) /\ Rated(old, sent, GlobalFill)
    BY DEF LimiterInv, RatesHold, GlobalRated
  <2>2. new \in Nat /\ old \in Nat /\ new <= old + GlobalFill
    BY <1>1, <2>1, RefilledByATick, LimiterConstants
  <2>3. Rated(new, sent, GlobalFill)'
    BY <1>1, <2>1, <2>2, ATickRefills, LimiterConstants
  <2>4. BucketOK(global_bucket)'
    BY <1>1, <2>1 DEF BucketOK, BucketType
  <2>5. (Refilled(global_bucket, GlobalFill).tokens)' = new
    BY <1>1, <2>1 DEF Refilled, BucketOK, BucketType, Cap
  <2> QED
    BY <1>1, <2>3, <2>5 DEF Rated, Times, Within, InBudget
<1>5. ASSUME NEW c \in Chats
      PROVE  Rated(Bucket(buckets, c).tokens, sentTo[c], ChatFill)'
  <2> PICK old : old = Bucket(buckets, c).tokens
    OBVIOUS
  <2> PICK sent : sent = sentTo[c]
    OBVIOUS
  <2>1. BucketsOK(buckets) /\ Rated(old, sent, ChatFill)
    BY DEF LimiterInv, RatesHold, ChatsRated
  <2>2. PICK new \in Nat : /\ old \in Nat /\ new <= old + ChatFill
                           /\ (Bucket(buckets, c).tokens)' = new
    <3>1. CASE c \in DOMAIN buckets
      <4> PICK new : new = Least(Cap, buckets[c].tokens
                                    + (clock + 1 - buckets[c].seen) * ChatFill)
        OBVIOUS
      <4>1. BucketOK(buckets[c]) /\ old = Refilled(buckets[c], ChatFill).tokens
        BY <2>1, <3>1 DEF BucketsOK, Bucket
      <4>2. new \in Nat /\ old \in Nat /\ new <= old + ChatFill
        BY <1>1, <4>1, RefilledByATick, LimiterConstants
      <4>3. (Bucket(buckets, c).tokens)' = new
        BY <1>1, <3>1, <4>1 DEF Bucket, Refilled, BucketOK, BucketType, Cap
      <4> QED
        BY <4>2, <4>3
    <3>2. CASE c \notin DOMAIN buckets
      <4>1. old = Cap /\ (Bucket(buckets, c).tokens)' = Cap
        BY <1>1, <3>2 DEF Bucket, Full, Cap
      <4> QED
        BY <4>1, LimiterConstants
    <3> QED
      BY <3>1, <3>2
  <2>3. Rated(new, sent, ChatFill)'
    BY <1>1, <2>1, <2>2, ATickRefills, LimiterConstants
  <2> QED
    BY <1>1, <2>2, <2>3 DEF Rated, Times, Within, InBudget
<1>6. BucketOK(global_bucket)'
  BY <1>1 DEF LimiterInv, RatesHold, GlobalRated, BucketOK, BucketType
<1> QED
  BY <1>1, <1>3, <1>4, <1>5, <1>6
     DEF LimiterInv, RatesHold, GlobalRated, ChatsRated, CooldownsWithin

LEMMA LimiterInitOK ==
    ASSUME LimiterInit  PROVE  LimiterInv
<1>1. clock \in Nat /\ BucketOK(Full) /\ Full.tokens = Cap /\ Full.seen = clock
  BY FullIsOK DEF LimiterInit, Full
<1>2. GlobalRated(global_bucket, sentAll)
  BY <1>1, NothingSent DEF LimiterInit, GlobalRated
<1>3. ChatsRated(buckets, sentTo, {})
  BY NothingSent DEF LimiterInit, ChatsRated
<1>4. sentTo \in [Chats -> Seq(Nat)]
  <2>1. <<>> \in Seq(Nat)
    OBVIOUS
  <2> QED
    BY <2>1 DEF LimiterInit
<1>5. BucketsOK(buckets) /\ CooldownsWithin(buckets, 0)
  BY DEF LimiterInit, BucketsOK, CooldownsWithin
<1> QED
  BY <1>1, <1>2, <1>3, <1>4, <1>5 DEF LimiterInit, LimiterInv, RatesHold

LEMMA LimiterStep ==
    ASSUME LimiterInv, [LimiterNext]_<<clock, limiterVars>>
    PROVE  LimiterInv'
<1>1. ASSUME UNCHANGED <<clock, buckets, global_bucket, global_cooldown_until,
                         sentTo, sentAll>>
      PROVE  LimiterInv'
  BY <1>1
     DEF LimiterInv, RatesHold, GlobalRated, ChatsRated, CooldownsWithin,
         BucketsOK, BucketOK, BucketType, Bucket, Refilled, Full, Rated, Times,
         Within, InBudget
<1>2. ASSUME NEW r \in Calls, Submit(r)  PROVE  LimiterInv'
  BY <1>2, NowUnderWay, RoundStep DEF Submit, Join
<1>3. ASSUME NEW r \in Calls, Resume(r)  PROVE  LimiterInv'
  BY <1>3, NowUnderWay, RoundStep DEF Resume
<1>4. ASSUME NEW r \in Calls, TimerFires(r) \/ Withdraw(r) \/ Answered(r)
      PROVE  LimiterInv'
  BY <1>1, <1>4 DEF TimerFires, Withdraw, Answered, buckets_
<1>5. ASSUME NEW r \in Calls, NEW seconds \in Pauses, RetryAfter(r, seconds)
      PROVE  LimiterInv'
  BY <1>5, RetryStep
<1>6. CASE Shutdown
  BY <1>6, ShutdownStep
<1>7. CASE Tick /\ UNCHANGED limiterVars
  BY <1>7, TickStep
<1>8. CASE UNCHANGED <<clock, limiterVars>>
  BY <1>1, <1>8 DEF limiterVars, buckets_
<1> QED
  BY <1>2, <1>3, <1>4, <1>5, <1>6, <1>7, <1>8 DEF LimiterNext

(***************************************************************************)
(* The rate of the process holds over every stretch of time, that of a     *)
(* chat over every stretch in which its bucket is not dropped before it is *)
(* full, for any rates, bursts, TTLs and numbers of requests (RateKept):   *)
(* lazy refills, the clean-up, pauses and shutdown let nobody else send    *)
(* what the buckets had not got.                                           *)
(***************************************************************************)
THEOREM TheRateIsKept == LimiterSpec => []RateKept
<1>1. LimiterInv => RateKept
  BY DEF LimiterInv, RatesHold, GlobalRated, ChatsRated, Rated, RateKept
<1> QED
  BY <1>1, LimiterInitOK, LimiterStep, PTL DEF LimiterSpec

(***************************************************************************)
(* The pause of a chat never outlasts that of the process                  *)
(* (CooldownCovered).                                                      *)
(***************************************************************************)
THEOREM PausesAreCovered == LimiterSpec => []CooldownCovered
<1>1. LimiterInv => CooldownCovered
  BY DEF LimiterInv, RatesHold, CooldownsWithin, CooldownCovered
<1> QED
  BY <1>1, LimiterInitOK, LimiterStep, PTL DEF LimiterSpec

-----------------------------------------------------------------------------
(* The waiters of the limiter.  What a bucket will hold at a later time is *)
(* the same whether it is refilled in between or not.                      *)
-----------------------------------------------------------------------------

HasAt(b, fill, t) == b.tokens + (t - b.seen) * fill >= Unit

ChatHasAt(bs, c, t) == c \in DOMAIN bs => HasAt(bs[c], ChatFill, t)

\* MayGo, at a time that is still to come.
MayGoAt(r, q, bs, g, until, t) ==
    /\ until <= t
    /\ HasAt(g, GlobalFill, t)
    /\ \E i \in 1..Len(q) :
          /\ q[i] = r /\ ChatHasAt(bs, ChatOf[r], t)
          /\ \A j \in 1..(i - 1) : ~ChatHasAt(bs, ChatOf[q[j]], t)

(***************************************************************************)
(* The inductive invariant: a sleeper has a timeout that comes no later    *)
(* than the time when it may go, as long as nobody wakes it.               *)
(***************************************************************************)
Timely(r, q, bs, g, until, alarm) ==
    \A t \in Nat :
        t >= clock /\ MayGoAt(r, q, bs, g, until, t) => alarm # 0 /\ alarm <= t

AlarmInv ==
    /\ call = [r \in Calls |-> call[r]]
    /\ timer = [r \in Calls |-> timer[r]]
    /\ \A r \in Calls : call[r] = "asleep" =>
          /\ running
          /\ Timely(r, waiters, buckets, global_bucket, global_cooldown_until,
                    timer[r])

LEMMA SumOfTicks ==
    ASSUME NEW m \in Nat, NEW n \in Nat, NEW fill \in Nat
    PROVE  (m + n) * fill = m * fill + n * fill
OBVIOUS

\* A refill changes nothing of what there will be.
LEMMA RefilledHas ==
    ASSUME clock \in Nat, NEW b, BucketOK(b), NEW fill \in Nat,
           NEW t \in Nat, t >= clock
    PROVE  HasAt(Refilled(b, fill), fill, t) <=> HasAt(b, fill, t)
<1> DEFINE e == Refilled(b, fill)
<1>1. /\ e.seen = clock
      /\ e.tokens = Least(Cap, b.tokens + (clock - b.seen) * fill)
  BY RefilledIsOK
<1>2. b.tokens \in Nat /\ b.seen \in Nat /\ b.seen <= clock
  BY DEF BucketOK, BucketType
<1> HIDE DEF e
<1> PICK m \in Nat, n \in Nat : m = clock - b.seen /\ n = t - clock
  BY <1>2
<1>3. t - b.seen = m + n /\ t - e.seen = n
  BY <1>1, <1>2
<1>4. (m + n) * fill = m * fill + n * fill
  BY SumOfTicks
<1> PICK x \in Nat, y \in Nat : x = m * fill /\ y = n * fill
  BY NotNegative
<1>5. Cap >= Unit /\ Cap \in Nat /\ Unit \in Nat
  BY LimiterConstants, NoLess DEF Cap
<1>6. (t - b.seen) * fill = x + y /\ (t - e.seen) * fill = y
  BY <1>3, <1>4
<1>7. e.tokens = Least(Cap, b.tokens + x)
  BY <1>1
<1>8. e.tokens + y >= Unit <=> b.tokens + (x + y) >= Unit
  BY <1>2, <1>5, <1>7 DEF Least
<1> QED
  BY <1>6, <1>8 DEF HasAt, e

LEMMA HasMore ==
    ASSUME NEW b, BucketOK(b), NEW fill \in Nat,
           NEW s \in Nat, NEW t \in Nat, b.seen <= s, s <= t, HasAt(b, fill, s)
    PROVE  HasAt(b, fill, t)
<1>1. b.tokens \in Nat /\ b.seen \in Nat /\ Unit \in Nat
  BY LimiterConstants DEF BucketOK, BucketType
<1>2. s - b.seen \in Nat /\ t - b.seen \in Nat /\ s - b.seen <= t - b.seen
  BY <1>1
<1> PICK x \in Nat, y \in Nat :
       x = (s - b.seen) * fill /\ y = (t - b.seen) * fill /\ x <= y
  BY <1>2, NotNegative, NoLess
<1> QED
  BY <1>1 DEF HasAt

LEMMA Quotient ==
    ASSUME NEW a \in Nat, NEW fill \in Nat \ {0}
    PROVE  a \div fill \in Nat /\ (a \div fill) * fill <= a
OBVIOUS

\* A delay ends no later than there are tokens.
LEMMA DelayIsLeast ==
    ASSUME clock \in Nat, NEW b, BucketOK(b), b.seen = clock,
           NEW fill \in Nat \ {0}, NEW t \in Nat, t >= clock, HasAt(b, fill, t)
    PROVE  TokenDelay(b, fill) <= t - clock
<1>1. b.tokens \in Nat /\ Unit \in Nat
  BY LimiterConstants DEF BucketOK, BucketType
<1> PICK n \in Nat : n = t - clock
  OBVIOUS
<1>2. CASE b.tokens >= Unit
  BY <1>1, <1>2 DEF TokenDelay
<1>3. CASE ~(b.tokens >= Unit)
  <2> PICK a \in Nat : a = Unit - b.tokens + fill - 1
    BY <1>1, <1>3
  <2> PICK d : d = a \div fill
    OBVIOUS
  <2>1. d \in Nat /\ d * fill <= a
    BY Quotient
  <2> PICK x \in Nat : x = n * fill
    BY NotNegative
  <2>2. b.tokens + x >= Unit
    BY DEF HasAt
  <2>3. SUFFICES ASSUME d >= n + 1  PROVE FALSE
    BY <1>1, <1>3, <2>1 DEF TokenDelay
  <2>4. (n + 1) * fill <= d * fill
    BY <2>1, <2>3, NoLess
  <2>5. (n + 1) * fill = x + fill
    BY OneMoreTick
  <2>6. d * fill \in Nat
    BY <2>1, NotNegative
  <2> QED
    BY <1>1, <1>3, <2>1, <2>2, <2>4, <2>5, <2>6
<1> QED
  BY <1>2, <1>3

\* and where there are tokens there is no delay.
LEMMA DelayMeansNone ==
    ASSUME clock \in Nat, NEW b, BucketOK(b), b.seen = clock,
           NEW fill \in Nat \ {0}
    PROVE  TokenDelay(b, fill) > 0 <=> ~HasAt(b, fill, clock)
<1>1. (clock - b.seen) * fill = 0 /\ b.tokens \in Nat /\ Unit \in Nat
  BY LimiterConstants DEF BucketOK, BucketType
<1>2. HasAt(b, fill, clock) <=> b.tokens >= Unit
  BY <1>1 DEF HasAt
<1>3. CASE b.tokens >= Unit
  BY <1>2, <1>3 DEF TokenDelay
<1>4. CASE ~(b.tokens >= Unit)
  <2>1. ~(TokenDelay(b, fill) <= 0)
    BY <1>4, NoDelayLeft
  <2> QED
    BY <1>2, <1>4, <2>1, DelayIsANumber
<1> QED
  BY <1>3, <1>4

\* To the requests of a queue the buckets are as good as they were.
SameFor(q, old, new) ==
    \A i \in 1..Len(q), t \in Nat :
        t >= clock => (ChatHasAt(new, ChatOf[q[i]], t)
                          <=> ChatHasAt(old, ChatOf[q[i]], t))

LEMMA KeptHas ==
    ASSUME NEW bs, NEW q, NEW D \in Cleanup(bs, q)
    PROVE  SameFor(q, bs, Kept(bs, q, D))
<1>1. D \cap ChatsOf(q) = {}
  BY DEF Cleanup
<1>2. ASSUME NEW i \in 1..Len(q)
      PROVE  /\ ChatOf[q[i]] \in DOMAIN Kept(bs, q, D) <=> ChatOf[q[i]] \in DOMAIN bs
             /\ ChatOf[q[i]] \in DOMAIN bs
                  => Kept(bs, q, D)[ChatOf[q[i]]] = bs[ChatOf[q[i]]]
  BY <1>1 DEF Kept, ChatsOf, Unused
<1> QED
  BY <1>2 DEF SameFor, ChatHasAt

\* A bucket that is made now is full.
LEMMA FullHas ==
    ASSUME clock \in Nat, NEW t \in Nat, t >= clock
    PROVE  HasAt(Full, ChatFill, t)
<1>1. (t - clock) * ChatFill \in Nat /\ Cap >= Unit /\ Cap \in Nat /\ Unit \in Nat
  BY LimiterConstants, NotNegative, NoLess DEF Cap
<1> QED
  BY <1>1, FullIsOK DEF HasAt, Full

LEMMA BucketHas ==
    ASSUME clock \in Nat, NEW bs, BucketsOK(bs), NEW c, NEW t \in Nat, t >= clock
    PROVE  HasAt(Bucket(bs, c), ChatFill, t) <=> ChatHasAt(bs, c, t)
<1>1. CASE c \in DOMAIN bs
  BY <1>1, RefilledHas, LimiterConstants DEF Bucket, BucketsOK, ChatHasAt
<1>2. CASE c \notin DOMAIN bs
  BY <1>2, FullHas DEF Bucket, ChatHasAt
<1> QED
  BY <1>1, <1>2

LEMMA LookedHas ==
    ASSUME clock \in Nat, NEW bs, BucketsOK(bs), NEW q
    PROVE  SameFor(q, bs, Looked(bs, q))
<1> DEFINE chats == {ChatOf[q[i]] : i \in Scanned(bs, q)}
           ls == Looked(bs, q)
<1>1. /\ DOMAIN ls = DOMAIN bs \cup chats
      /\ \A c \in DOMAIN ls : ls[c] = IF c \in chats THEN Bucket(bs, c) ELSE bs[c]
  BY DEF Looked
<1> HIDE DEF chats, ls
<1>2. ASSUME NEW c, NEW t \in Nat, t >= clock
      PROVE  ChatHasAt(ls, c, t) <=> ChatHasAt(bs, c, t)
  <2>1. CASE c \in chats
    BY <1>1, <1>2, <2>1, BucketHas DEF ChatHasAt
  <2>2. CASE c \notin chats
    BY <1>1, <2>2 DEF ChatHasAt
  <2> QED
    BY <2>1, <2>2
<1> QED
  BY <1>2 DEF SameFor, ls

LEMMA CooledHas ==
    ASSUME clock \in Nat, BucketsOK(buckets), NEW c, NEW until, NEW q
    PROVE  SameFor(q, buckets, Cooled(c, until))
<1> DEFINE cs == Cooled(c, until)
<1> PICK b : b = Bucket(buckets, c)
  OBVIOUS
<1> PICK e : e = [b EXCEPT !.cooldown_until = Most(@, until)]
  OBVIOUS
<1>1. /\ DOMAIN cs = DOMAIN buckets \cup {c}
      /\ \A d \in DOMAIN cs : cs[d] = IF d = c THEN e ELSE buckets[d]
  BY DEF Cooled
<1>2. BucketOK(b)
  BY BucketIsOK
<1>3. e.tokens = b.tokens /\ e.seen = b.seen
  BY <1>2 DEF BucketOK, BucketType
<1> HIDE DEF cs
<1>4. ASSUME NEW d, NEW t \in Nat, t >= clock
      PROVE  ChatHasAt(cs, d, t) <=> ChatHasAt(buckets, d, t)
  <2>1. CASE d = c
    <3>1. ChatHasAt(cs, d, t) <=> HasAt(b, ChatFill, t)
      BY <1>1, <1>3, <2>1 DEF ChatHasAt, HasAt
    <3> QED
      BY <1>4, <2>1, <3>1, BucketHas
  <2>2. CASE d # c
    BY <1>1, <2>2 DEF ChatHasAt
  <2> QED
    BY <2>1, <2>2
<1> QED
  BY <1>4 DEF SameFor, cs

\* A timeout that is in time stays so while the requests before it wait and
\* no pause is cut short.
LEMMA StaysTimely ==
    ASSUME clock \in Nat, NEW r, NEW q, NEW bs, NEW new, SameFor(q, bs, new),
           NEW until \in Nat, NEW longer \in Nat, until <= longer,
           BucketOK(global_bucket), NEW g,
           g = global_bucket \/ g = Refilled(global_bucket, GlobalFill),
           NEW alarm, Timely(r, q, bs, global_bucket, until, alarm)
    PROVE  Timely(r, q, new, g, longer, alarm)
<1> SUFFICES ASSUME NEW t \in Nat, t >= clock, MayGoAt(r, q, new, g, longer, t)
             PROVE  alarm # 0 /\ alarm <= t
  BY DEF Timely
<1>1. until <= t
  BY DEF MayGoAt
<1>2. HasAt(global_bucket, GlobalFill, t)
  BY RefilledHas, LimiterConstants DEF MayGoAt
<1>3. PICK i \in 1..Len(q) :
         /\ q[i] = r /\ ChatHasAt(new, ChatOf[r], t)
         /\ \A j \in 1..(i - 1) : ~ChatHasAt(new, ChatOf[q[j]], t)
  BY DEF MayGoAt
<1>4. \A j \in 1..(i - 1) : j \in 1..Len(q)
  OBVIOUS
<1>5. /\ ChatHasAt(bs, ChatOf[r], t)
      /\ \A j \in 1..(i - 1) : ~ChatHasAt(bs, ChatOf[q[j]], t)
  BY <1>3, <1>4 DEF SameFor
<1>6. MayGoAt(r, q, bs, global_bucket, until, t)
  BY <1>1, <1>2, <1>3, <1>5 DEF MayGoAt
<1> QED
  BY <1>6 DEF Timely

\* A waiter that goes before nobody who may go is among those looked at.
LEMMA FirstIsScanned ==
    ASSUME clock \in Nat, NEW bs, BucketsOK(bs), NEW q, NEW i \in 1..Len(q),
           NEW t \in Nat, t >= clock,
           \A j \in 1..(i - 1) : ~ChatHasAt(bs, ChatOf[q[j]], t)
    PROVE  i \in Scanned(bs, q)
<1> SUFFICES ASSUME NEW j \in 1..(i - 1)  PROVE ChatDelay(bs, ChatOf[q[j]]) > 0
  BY DEF Scanned
<1> PICK c : c = ChatOf[q[j]]
  OBVIOUS
<1> PICK b : b = Bucket(bs, c)
  OBVIOUS
<1>1. BucketOK(b) /\ b.seen = clock
  BY BucketIsOK
<1>2. ~HasAt(b, ChatFill, t)
  BY BucketHas
<1>3. ~HasAt(b, ChatFill, clock)
  BY <1>1, <1>2, HasMore, LimiterConstants
<1>4. TokenDelay(b, ChatFill) > 0 /\ TokenDelay(b, ChatFill) \in Int
  BY <1>1, <1>3, DelayMeansNone, DelayIsANumber, LimiterConstants
<1>5. b.cooldown_until - clock \in Int
  BY <1>1 DEF BucketOK, BucketType
<1> QED
  BY <1>4, <1>5 DEF ChatDelay, Most

LEMMA DelayOfChat ==
    ASSUME clock \in Nat, NEW bs, BucketsOK(bs), NEW c
    PROVE  ChatDelay(bs, c) \in Int
<1> PICK b : b = Bucket(bs, c)
  OBVIOUS
<1>1. BucketOK(b) /\ b.seen = clock
  BY BucketIsOK
<1>2. TokenDelay(b, ChatFill) \in Int /\ b.cooldown_until - clock \in Int
  BY <1>1, DelayIsANumber, LimiterConstants DEF BucketOK, BucketType
<1> QED
  BY <1>2 DEF ChatDelay, Most

LEMMA LeastNatural ==
    ASSUME NEW T \in SUBSET Nat, T # {}
    PROVE  \E n \in T : \A m \in T : n <= m
<1> DEFINE R == {ss \in Nat \X Nat : ss[1] < ss[2]}
<1>1. IsWellFoundedOn(R, Nat)
  BY NatLessThanWellFounded DEF OpToRel
<1>2. PICK n \in T : \A m \in T : <<m, n>> \notin R
  <2> HIDE DEF R
  <2> QED
    BY <1>1, WFMin
<1>3. ASSUME NEW m \in T  PROVE  n <= m
  <2>1. ~(m < n)
    BY <1>2
  <2> QED
    BY <2>1
<1> QED
  BY <1>3

(***************************************************************************)
(* The timeout of a request that falls asleep is in time.                  *)
(***************************************************************************)
LEMMA AlarmIsTimely ==
    ASSUME LimiterInv, NEW r, NEW q, NEW bs, NEW until \in Nat,
           BucketsOK(bs), CooldownsWithin(bs, until), ~MayGo(r, q, bs, until)
    PROVE  Timely(r, q, bs, global_bucket, until, Alarm(r, q, bs, until))
<1> SUFFICES ASSUME NEW t \in Nat, t >= clock,
                    MayGoAt(r, q, bs, global_bucket, until, t)
             PROVE  /\ Alarm(r, q, bs, until) # 0
                    /\ Alarm(r, q, bs, until) <= t
  BY DEF Timely
<1>0. clock \in Nat /\ BucketOK(global_bucket)
  BY DEF LimiterInv, RatesHold, GlobalRated
<1> PICK g : g = Refilled(global_bucket, GlobalFill)
  OBVIOUS
<1> PICK global : global = GlobalDelay(until)
  OBVIOUS
<1>1. BucketOK(g) /\ g.seen = clock
  BY <1>0, RefilledIsOK, LimiterConstants
<1>2. HasAt(g, GlobalFill, t) /\ until <= t
  BY <1>0, RefilledHas, LimiterConstants DEF MayGoAt
<1>3. TokenDelay(g, GlobalFill) <= t - clock /\ TokenDelay(g, GlobalFill) \in Int
  BY <1>0, <1>1, <1>2, DelayIsLeast, DelayIsANumber, LimiterConstants
<1>4. /\ global \in Int /\ global <= t - clock
      /\ global <= 0 => until <= clock
  BY <1>0, <1>2, <1>3 DEF GlobalDelay, Most
<1>5. CASE global > 0
  <2>1. Alarm(r, q, bs, until) = clock + global
    BY <1>5 DEF Alarm
  <2> QED
    BY <1>0, <1>4, <1>5, <2>1
<1>6. CASE ~(global > 0)
  <2>1. PICK i \in 1..Len(q) :
           /\ q[i] = r /\ ChatHasAt(bs, ChatOf[r], t)
           /\ \A j \in 1..(i - 1) : ~ChatHasAt(bs, ChatOf[q[j]], t)
    BY DEF MayGoAt
  <2>2. i \in Scanned(bs, q)
    BY <1>0, <2>1, FirstIsScanned
  <2> DEFINE delays == {d \in {ChatDelay(bs, ChatOf[q[k]]) : k \in Scanned(bs, q)} :
                          d > 0}
  <2> PICK mine : mine = ChatDelay(bs, ChatOf[r])
    OBVIOUS
  <2>3. mine \in Int
    BY <1>0, DelayOfChat
  <2>4. mine > 0
    <3>1. ~Ready(bs, q, i)
      BY <1>4, <1>6, <2>1 DEF MayGo
    <3>2. \A j \in 1..(i - 1) : ChatDelay(bs, ChatOf[q[j]]) > 0
      BY <2>2 DEF Scanned
    <3> QED
      BY <2>1, <2>3, <3>1, <3>2 DEF Ready
  <2>5. mine <= t - clock
    <3> PICK b : b = Bucket(bs, ChatOf[r])
      OBVIOUS
    <3>1. BucketOK(b) /\ b.seen = clock /\ b.cooldown_until <= until
      BY <1>0, BucketIsOK
    <3>2. HasAt(b, ChatFill, t)
      BY <1>0, <2>1, BucketHas
    <3>3. TokenDelay(b, ChatFill) <= t - clock /\ TokenDelay(b, ChatFill) \in Int
      BY <1>0, <3>1, <3>2, DelayIsLeast, DelayIsANumber, LimiterConstants
    <3>4. b.cooldown_until \in Nat
      BY <3>1 DEF BucketOK, BucketType
    <3>5. b.cooldown_until - clock <= t - clock
      BY <1>0, <1>2, <3>1, <3>4
    <3> QED
      BY <1>0, <3>3, <3>4, <3>5 DEF ChatDelay, Most
  <2>6. delays \in SUBSET Nat /\ mine \in delays
    <3>1. \A c : ChatDelay(bs, c) \in Int
      BY <1>0, DelayOfChat
    <3> QED
      BY <2>1, <2>2, <2>3, <2>4, <3>1
  <2> DEFINE least == CHOOSE d \in delays : \A e \in delays : d <= e
  <2>7. Alarm(r, q, bs, until) = clock + least
    BY <1>6, <2>6 DEF Alarm
  <2>8. least \in delays /\ least > 0
    <3> SUFFICES least \in delays
      OBVIOUS
    <3> HIDE DEF delays
    <3>1. \E d \in delays : \A e \in delays : d <= e
      BY <2>6, LeastNatural
    <3> QED
      BY <3>1
  <2>9. least <= mine
    <3> HIDE DEF delays
    <3>1. \E d \in delays : \A e \in delays : d <= e
      BY <2>6, LeastNatural
    <3> QED
      BY <2>6, <3>1
  <2>10. least \in Nat
    BY <2>6, <2>8
  <2> HIDE DEF least, delays
  <2> QED
    BY <1>0, <2>3, <2>5, <2>7, <2>8, <2>9, <2>10
<1> QED
  BY <1>5, <1>6

\* What holds at the time of the step holds in the state it makes.
LEMMA TimelyNow ==
    ASSUME clock' = clock, NEW r, NEW q, NEW bs, NEW g, NEW until, NEW alarm,
           Timely(r, q, bs, g, until, alarm),
           waiters' = q, buckets' = bs, global_bucket' = g,
           global_cooldown_until' = until, timer'[r] = alarm
    PROVE  Timely(r, waiters, buckets, global_bucket, global_cooldown_until,
                  timer[r])'
BY DEF Timely, MayGoAt, ChatHasAt, HasAt

\* A round: the requests that sleep already are as good as they were.
Sleepers(q, bs, where, until) ==
    \A x \in Calls : where[x] = "asleep" =>
        Timely(x, q, bs, global_bucket, until, timer[x])

LEMMA SleepAlarm ==
    ASSUME LimiterInv, NEW r \in Calls, NEW q, NEW bs, NEW where, NEW until,
           NEW C, UnderWay(bs, until, C), ~MayGo(r, q, bs, until),
           Sleep(r, q, bs, where, until, C), Sleepers(q, bs, where, until),
           where = [x \in Calls |-> where[x]],
           running, running' = running,
           clock' = clock, global_cooldown_until' = until
    PROVE  AlarmInv'
<1> PICK g : g = Refilled(global_bucket, GlobalFill)
  OBVIOUS
<1> PICK alarm : alarm = Alarm(r, q, bs, until)
  OBVIOUS
<1> PICK new : new = buckets'
  OBVIOUS
<1>0. /\ clock \in Nat /\ until \in Nat /\ BucketsOK(bs)
      /\ CooldownsWithin(bs, until) /\ BucketOK(global_bucket)
  BY DEF LimiterInv, RatesHold, GlobalRated, UnderWay
<1>1. /\ global_bucket' = g /\ waiters' = q
      /\ new = bs \/ new = Looked(bs, q)
      /\ call' = [where EXCEPT ![r] = "asleep"]
      /\ timer' = [Timers([where EXCEPT ![r] = "asleep"]) EXCEPT ![r] = alarm]
  BY DEF Sleep
<1>2. SameFor(q, bs, new)
  BY <1>0, <1>1, LookedHas DEF SameFor
<1>3. Timely(r, q, bs, global_bucket, until, alarm)
  BY <1>0, AlarmIsTimely
<1>4. /\ call' = [x \in Calls |-> call'[x]] /\ timer' = [x \in Calls |-> timer'[x]]
      /\ timer'[r] = alarm
      /\ \A x \in Calls \ {r} : call'[x] = "asleep" =>
            where[x] = "asleep" /\ timer'[x] = timer[x]
  BY <1>1 DEF Timers
<1>5. ASSUME NEW x \in Calls, call'[x] = "asleep"
      PROVE  Timely(x, waiters, buckets, global_bucket, global_cooldown_until,
                    timer[x])'
  <2>1. PICK a : a = timer'[x] /\ Timely(x, q, bs, global_bucket, until, a)
    BY <1>3, <1>4, <1>5 DEF Sleepers
  <2>2. Timely(x, q, new, g, until, a)
    BY <1>0, <1>2, <2>1, StaysTimely
  <2> QED
    BY <1>1, <2>1, <2>2, TimelyNow
<1> QED
  BY <1>4, <1>5 DEF AlarmInv

LEMMA RoundAlarm ==
    ASSUME LimiterInv, NEW r \in Calls, NEW q, NEW bs, NEW where, NEW until,
           NEW C, UnderWay(bs, until, C), Round(r, q, bs, where, until, C),
           Sleepers(q, bs, where, until), where = [x \in Calls |-> where[x]],
           running, running' = running,
           clock' = clock, global_cooldown_until' = until
    PROVE  AlarmInv'
<1>1. PICK D \in Cleanup(bs, q) :
         LET kept == Kept(bs, q, D)
             lost == C \cup Regained(bs, q, D)
         IN  IF MayGo(r, q, kept, until)
             THEN Admit(r, q, kept, where, lost)
             ELSE Sleep(r, q, kept, where, until, lost)
  BY DEF Round
<1> PICK kept, lost :
       kept = Kept(bs, q, D) /\ lost = C \cup Regained(bs, q, D)
  OBVIOUS
<1>2. UnderWay(kept, until, lost)
  BY UnderWayKept DEF LimiterInv
<1>3. CASE MayGo(r, q, kept, until)
  <2>1. /\ call' = [Notified(where) EXCEPT ![r] = "sending"]
        /\ timer' = Timers([Notified(where) EXCEPT ![r] = "sending"])
    BY <1>1, <1>3 DEF Admit
  <2>2. call' = [x \in Calls |-> call'[x]] /\ timer' = [x \in Calls |-> timer'[x]]
        /\ \A x \in Calls : call'[x] # "asleep"
    BY <2>1 DEF Notified, Timers
  <2> QED
    BY <2>2 DEF AlarmInv
<1>4. CASE ~MayGo(r, q, kept, until)
  <2>1. Sleepers(q, kept, where, until)
    <3>1. SameFor(q, bs, kept)
      BY KeptHas
    <3>2. clock \in Nat /\ until \in Nat /\ BucketOK(global_bucket) /\ until <= until
      BY DEF LimiterInv, RatesHold, GlobalRated, UnderWay
    <3> QED
      BY <3>1, <3>2, StaysTimely DEF Sleepers
  <2> QED
    BY <1>1, <1>2, <1>4, <2>1, SleepAlarm
<1> QED
  BY <1>3, <1>4

\* A step that only delays: who sleeps slept before, with the same timeout.
LEMMA DelayingAlarm ==
    ASSUME LimiterInv, AlarmInv, clock' \in Nat, clock <= clock',
           SameFor(waiters, buckets, buckets'),
           global_bucket' = global_bucket, waiters' = waiters,
           global_cooldown_until' \in Nat,
           global_cooldown_until <= global_cooldown_until',
           running' = running,
           call' = [x \in Calls |-> call'[x]],
           timer' = [x \in Calls |-> timer'[x]],
           \A x \in Calls : call'[x] = "asleep" =>
              call[x] = "asleep" /\ timer'[x] = timer[x]
    PROVE  AlarmInv'
<1>0. /\ clock \in Nat /\ global_cooldown_until \in Nat /\ BucketOK(global_bucket)
  BY DEF LimiterInv, RatesHold, GlobalRated
<1>1. ASSUME NEW x \in Calls, call'[x] = "asleep"
      PROVE  /\ running'
             /\ Timely(x, waiters, buckets, global_bucket,
                       global_cooldown_until, timer[x])'
  <2>1. running /\ Timely(x, waiters, buckets, global_bucket,
                          global_cooldown_until, timer[x])
    BY <1>1 DEF AlarmInv
  <2>2. Timely(x, waiters, buckets', global_bucket, global_cooldown_until',
               timer[x])
    BY <1>0, <2>1, StaysTimely
  <2>3. ASSUME NEW t \in Nat, t >= clock',
               MayGoAt(x, waiters, buckets', global_bucket,
                       global_cooldown_until', t)
        PROVE  timer'[x] # 0 /\ timer'[x] <= t
    BY <1>0, <1>1, <2>2, <2>3 DEF Timely
  <2> QED
    BY <2>1, <2>3 DEF Timely, MayGoAt, ChatHasAt, HasAt
<1> QED
  BY <1>1 DEF AlarmInv

LEMMA NobodyAsleep ==
    ASSUME call' = [x \in Calls |-> call'[x]], timer' = [x \in Calls |-> timer'[x]],
           \A x \in Calls : call'[x] # "asleep"
    PROVE  AlarmInv'
BY DEF AlarmInv

\* A request that joins has woken the others.
LEMMA JoinAlarm ==
    ASSUME LimiterInv, NEW r \in Calls, NEW bs, NEW until, NEW C,
           UnderWay(bs, until, C), Join(r, bs, until, C),
           running' = running, clock' = clock, global_cooldown_until' = until
    PROVE  AlarmInv'
<1> PICK where : where = Notified(call)
  OBVIOUS
<1>1. where = [x \in Calls |-> where[x]] /\ \A x \in Calls : where[x] # "asleep"
  BY DEF Notified
<1> PICK q : q = Append(waiters, r)
  OBVIOUS
<1>2. running /\ Round(r, q, bs, where, until, C)
  BY DEF Join
<1>3. Sleepers(q, bs, where, until)
  BY <1>1 DEF Sleepers
<1> QED
  BY <1>1, <1>2, <1>3, RoundAlarm

LEMMA SameIsSame ==
    ASSUME NEW q, NEW bs  PROVE SameFor(q, bs, bs)
BY DEF SameFor

LEMMA ResumeAlarm ==
    ASSUME LimiterInv, AlarmInv, NEW r \in Calls, Resume(r)
    PROVE  AlarmInv'
<1>1. /\ running /\ running' = running /\ clock' = clock
      /\ global_cooldown_until' = global_cooldown_until
      /\ Round(r, waiters, buckets, call, global_cooldown_until, {})
  BY DEF Resume
<1>2. UnderWay(buckets, global_cooldown_until, {})
  BY NowUnderWay
<1>3. /\ Sleepers(waiters, buckets, call, global_cooldown_until)
      /\ call = [x \in Calls |-> call[x]]
  BY DEF AlarmInv, Sleepers
<1> QED
  BY <1>1, <1>2, <1>3, RoundAlarm

LEMMA RetryAlarm ==
    ASSUME LimiterInv, AlarmInv, NEW r \in Calls, NEW seconds \in Pauses,
           RetryAfter(r, seconds)
    PROVE  AlarmInv'
<1> PICK until, cooled :
       /\ until = Extended(clock + seconds)
       /\ cooled = Cooled(ChatOf[r], clock + seconds)
  OBVIOUS
<1>1. PICK D \in Cleanup(cooled, waiters) :
         \/ Join(r, Kept(cooled, waiters, D), until, Regained(cooled, waiters, D))
         \/ /\ buckets' = Kept(cooled, waiters, D)
            /\ call' = [call EXCEPT ![r] = "idle"]
            /\ UNCHANGED <<waiters, global_bucket, timer>>
  BY DEF RetryAfter
<1>2. clock' = clock /\ global_cooldown_until' = until /\ running' = running
  BY DEF RetryAfter
<1>3. clock \in Nat /\ seconds \in Nat /\ global_cooldown_until \in Nat
  BY TelegramLimiterAssumption DEF LimiterInv, RatesHold
<1>4. until \in Nat /\ clock + seconds <= until /\ global_cooldown_until <= until
      /\ clock + seconds \in Nat
  BY <1>3 DEF Extended, Most
<1> PICK kept, lost :
       kept = Kept(cooled, waiters, D) /\ lost = Regained(cooled, waiters, D)
  OBVIOUS
<1>5. UnderWay(kept, until, lost)
  <2>1. UnderWay(kept, until, {} \cup lost)
    BY <1>3, <1>4, CooledUnderWay, UnderWayKept
  <2>2. {} \cup lost = lost
    OBVIOUS
  <2> QED
    BY <2>1, <2>2
<1>6. CASE Join(r, kept, until, lost)
  BY <1>2, <1>5, <1>6, JoinAlarm
<1>7. CASE /\ buckets' = kept /\ call' = [call EXCEPT ![r] = "idle"]
           /\ UNCHANGED <<waiters, global_bucket, timer>>
  <2>1. SameFor(waiters, buckets, cooled) /\ SameFor(waiters, cooled, kept)
    BY <1>3, CooledHas, KeptHas DEF LimiterInv, RatesHold
  <2>2. SameFor(waiters, buckets, buckets')
    BY <1>7, <2>1 DEF SameFor
  <2>3. call = [x \in Calls |-> call[x]] /\ timer = [x \in Calls |-> timer[x]]
    BY DEF AlarmInv
  <2>4. /\ call' = [x \in Calls |-> call'[x]] /\ timer' = [x \in Calls |-> timer'[x]]
        /\ \A x \in Calls : call'[x] = "asleep" =>
              call[x] = "asleep" /\ timer'[x] = timer[x]
    BY <1>7, <2>3
  <2> QED
    BY <1>2, <1>3, <1>4, <1>7, <2>2, <2>4, DelayingAlarm
<1> QED
  BY <1>1, <1>6, <1>7

LEMMA AlarmStep ==
    ASSUME LimiterInv, AlarmInv, [LimiterNext]_<<clock, limiterVars>>
    PROVE  AlarmInv'
<1>0. /\ call = [x \in Calls |-> call[x]] /\ timer = [x \in Calls |-> timer[x]]
      /\ clock \in Nat /\ global_cooldown_until \in Nat
  BY DEF AlarmInv, LimiterInv, RatesHold
<1>1. ASSUME NEW r \in Calls, Submit(r)  PROVE  AlarmInv'
  BY <1>1, NowUnderWay, JoinAlarm DEF Submit
<1>2. ASSUME NEW r \in Calls, Resume(r)  PROVE  AlarmInv'
  BY <1>2, ResumeAlarm
<1>3. ASSUME NEW r \in Calls, TimerFires(r) \/ Answered(r)
      PROVE  AlarmInv'
  <2>1. /\ UNCHANGED <<clock, running, waiters, buckets, global_bucket,
                       global_cooldown_until>>
        /\ \/ call' = [call EXCEPT ![r] = "awake"]
           \/ call' = [call EXCEPT ![r] = "idle"]
        /\ timer' = [timer EXCEPT ![r] = 0] \/ timer' = timer
    BY <1>3 DEF TimerFires, Answered, buckets_
  <2>2. /\ call' = [x \in Calls |-> call'[x]] /\ timer' = [x \in Calls |-> timer'[x]]
        /\ \A x \in Calls : call'[x] = "asleep" =>
              call[x] = "asleep" /\ timer'[x] = timer[x]
    BY <1>0, <2>1
  <2>3. SameFor(waiters, buckets, buckets')
    BY <2>1, SameIsSame
  <2> QED
    BY <1>0, <2>1, <2>2, <2>3, DelayingAlarm
<1>4. ASSUME NEW r \in Calls, Withdraw(r)  PROVE  AlarmInv'
  BY <1>4, NobodyAsleep DEF Withdraw, Notified, Timers
<1>5. ASSUME NEW r \in Calls, NEW seconds \in Pauses, RetryAfter(r, seconds)
      PROVE  AlarmInv'
  BY <1>5, RetryAlarm
<1>6. CASE Shutdown
  BY <1>6, NobodyAsleep DEF Shutdown, Notified, Timers
<1>7. CASE (Tick /\ UNCHANGED limiterVars) \/ UNCHANGED <<clock, limiterVars>>
  <2>1. /\ clock' \in Nat /\ clock <= clock'
        /\ UNCHANGED <<running, waiters, buckets, global_bucket,
                       global_cooldown_until, call, timer>>
    BY <1>0, <1>7 DEF Tick, limiterVars, buckets_
  <2>2. SameFor(waiters, buckets, buckets')
    BY <2>1, SameIsSame
  <2> QED
    BY <1>0, <2>1, <2>2, DelayingAlarm
<1> QED
  BY <1>1, <1>2, <1>3, <1>4, <1>5, <1>6, <1>7 DEF LimiterNext

\* Who may go now may go at the time that is now.
LEMMA MayGoNow ==
    ASSUME LimiterInv, NEW r,
           MayGo(r, waiters, buckets, global_cooldown_until)
    PROVE  MayGoAt(r, waiters, buckets, global_bucket, global_cooldown_until, clock)
<1>0. /\ clock \in Nat /\ BucketOK(global_bucket) /\ BucketsOK(buckets)
      /\ CooldownsWithin(buckets, global_cooldown_until)
      /\ global_cooldown_until \in Nat
  BY DEF LimiterInv, RatesHold, GlobalRated
<1> PICK g : g = Refilled(global_bucket, GlobalFill)
  OBVIOUS
<1>1. BucketOK(g) /\ g.seen = clock
  BY <1>0, RefilledIsOK, LimiterConstants
<1>2. TokenDelay(g, GlobalFill) \in Int
  BY <1>1, DelayIsANumber, LimiterConstants
<1>3. global_cooldown_until <= clock /\ ~(TokenDelay(g, GlobalFill) > 0)
  BY <1>0, <1>2 DEF MayGo, GlobalDelay, Most
<1>4. HasAt(global_bucket, GlobalFill, clock)
  BY <1>0, <1>1, <1>3, DelayMeansNone, RefilledHas, LimiterConstants
<1>5. ASSUME NEW c
      PROVE  ChatDelay(buckets, c) > 0 <=> ~ChatHasAt(buckets, c, clock)
  <2> PICK b : b = Bucket(buckets, c)
    OBVIOUS
  <2>1. BucketOK(b) /\ b.seen = clock /\ b.cooldown_until <= global_cooldown_until
    BY <1>0, BucketIsOK
  <2>2. b.cooldown_until \in Nat /\ TokenDelay(b, ChatFill) \in Int
    BY <2>1, DelayIsANumber, LimiterConstants DEF BucketOK, BucketType
  <2>3. ChatDelay(buckets, c) > 0 <=> TokenDelay(b, ChatFill) > 0
    BY <1>0, <1>3, <2>1, <2>2 DEF ChatDelay, Most
  <2>4. ChatHasAt(buckets, c, clock) <=> HasAt(b, ChatFill, clock)
    BY <1>0, BucketHas
  <2> QED
    BY <1>0, <2>1, <2>3, <2>4, DelayMeansNone, LimiterConstants
<1>6. PICK i \in 1..Len(waiters) : waiters[i] = r /\ Ready(buckets, waiters, i)
  BY DEF MayGo
<1>7. ChatDelay(buckets, ChatOf[r]) \in Int
  BY <1>0, DelayOfChat
<1>8. /\ ChatHasAt(buckets, ChatOf[r], clock)
      /\ \A j \in 1..(i - 1) : ~ChatHasAt(buckets, ChatOf[waiters[j]], clock)
  BY <1>5, <1>6, <1>7 DEF Ready
<1> QED
  BY <1>3, <1>4, <1>6, <1>8 DEF MayGoAt

(***************************************************************************)
(* No wakeup is lost, for any number of requests, chats and rates          *)
(* (NoWaiterForgotten): a request that sleeps and may go has a timeout     *)
(* that is due, whatever joins, is cancelled, is told to wait or loses its *)
(* bucket, and nobody sleeps once the limiter is shut down.                *)
(***************************************************************************)
THEOREM NobodyWaitsInVain == LimiterSpec => []NoWaiterForgotten
<1>1. LimiterInit => AlarmInv
  BY DEF LimiterInit, AlarmInv
<1>2. LimiterInv /\ AlarmInv => NoWaiterForgotten
  <2> SUFFICES ASSUME LimiterInv, AlarmInv, NEW r \in Calls, call[r] = "asleep"
               PROVE  /\ running
                      /\ MayGo(r, waiters, buckets, global_cooldown_until)
                           => timer[r] # 0 /\ timer[r] <= clock
    BY DEF NoWaiterForgotten
  <2>1. clock \in Nat /\ clock >= clock
    BY DEF LimiterInv, RatesHold
  <2> QED
    BY <2>1, MayGoNow DEF AlarmInv, Timely
<1> QED
  BY <1>1, <1>2, LimiterInitOK, LimiterStep, AlarmStep, PTL DEF LimiterSpec


-----------------------------------------------------------------------------
(* The ZIP exports.                                                        *)
-----------------------------------------------------------------------------

\* A job nobody has begun or told about.
Fresh(j) == task[j] = "none" /\ outcome[j] = "none" /\ notices[j] = 0

\* What CancelKept says of a job.
Acknowledged(j) ==
    /\ outcome[j] \in {"none", "cancelled"}
    /\ task[j] # "running"
    /\ notices[j] <= 1
    /\ j \in message /\ j \notin handshake \cup registered => notices[j] = 1

JobOK(j) ==
    /\ j \in Pending => /\ j \in registered /\ j \notin acknowledged /\ Fresh(j)
                        /\ j \in ready <=> j \notin handshake
    /\ j \in handshake => Fresh(j) /\ j \notin message
    /\ j \in acknowledged => j \in cancelled /\ Acknowledged(j)
    /\ j \in registered => j \in Pending \/ \E w \in Workers : has[w] = j
    /\ task[j] \in {"running", "cancelled"} =>
          \E w \in Workers : has[w] = j /\ stage[w] = "running"

WorkerOK(w) ==
    /\ has[w] = NoJob <=> stage[w] \notin {"running", "finishing"}
    /\ has[w] # NoJob => has[w] \in registered \ (Pending \cup handshake)
    /\ stage[w] = "running" => /\ task[has[w]] \in {"running", "cancelled"}
                               /\ outcome[has[w]] = "none"
                               /\ notices[has[w]] = 0
    /\ stage[w] = "finishing" => task[has[w]] = "done" /\ notices[has[w]] = 1

QueueOK ==
    /\ pending \in Seq(Jobs)
    /\ \A m, n \in 1..Len(pending) : pending[m] = pending[n] => m = n

ExportTypes ==
    /\ manager \in {"up", "closing", "cancelling", "stopped"}
    /\ QueueOK
    /\ registered \subseteq Jobs /\ active \subseteq registered
    /\ handshake \subseteq Jobs /\ acknowledged \subseteq Jobs
    /\ jobOf \in [Users -> Jobs \cup {NoJob}]
    /\ task \in [Jobs -> {"none", "running", "cancelled", "done"}]
    /\ stage \in [Workers -> {"loop", "empty", "head", "again", "running",
                              "finishing", "ended"}]
    /\ has \in [Workers -> Jobs \cup {NoJob}]
    /\ outcome \in [Jobs -> {"none", "exported", "failed", "cancelled"}]
    /\ notices \in [Jobs -> Nat]

(***************************************************************************)
(* The inductive invariant: how far a job is tells what its user was told, *)
(* one worker has it, and a manager that closes has no queue.              *)
(***************************************************************************)
ExportInv ==
    /\ ExportTypes
    /\ \A j \in Jobs : JobOK(j)
    /\ \A w \in Workers : WorkerOK(w)
    /\ \A v, w \in Workers : has[v] = has[w] /\ has[v] # NoJob => v = w
    /\ manager # "up" => pending = <<>>
    /\ manager = "stopped" => \A w \in Workers : stage[w] = "ended"

(***************************************************************************)
(* The queue.                                                              *)
(***************************************************************************)
LEMMA DequeuedOne ==
    ASSUME QueueOK, NEW j, pending' = Dequeued(pending, j)
    PROVE  QueueOK' /\ Pending' = Pending \ {j}
<1>1. CASE \A n \in 1..Len(pending) : pending[n] # j
  BY <1>1 DEF Dequeued, QueueOK, Pending
<1>2. CASE \E n \in 1..Len(pending) : pending[n] = j
  <2> DEFINE i == CHOOSE n \in 1..Len(pending) : pending[n] = j
  <2>1. PICK k \in 1..Len(pending) : k = i /\ pending[k] = j
    BY <1>2
  <2> PICK q : q = pending
    OBVIOUS
  <2> PICK r : r = pending'
    OBVIOUS
  <2>2. r = [n \in 1..(Len(q) - 1) |-> IF n < k THEN q[n] ELSE q[n + 1]]
    BY <1>2, <2>1 DEF Dequeued
  <2>3. /\ q \in Seq(Jobs) /\ Len(q) \in Nat /\ k \in 1..Len(q) /\ q[k] = j
        /\ \A m, n \in 1..Len(q) : q[m] = q[n] => m = n
    BY <2>1 DEF QueueOK
  <2>4. Len(q) - 1 \in Nat /\ \A n \in 1..(Len(q) - 1) : r[n] \in Jobs
    BY <2>2, <2>3
  <2>5. r \in Seq(Jobs) /\ Len(r) = Len(q) - 1
    BY <2>2, <2>4
  <2>6. \A m, n \in 1..Len(r) : r[m] = r[n] => m = n
    BY <2>2, <2>3, <2>5
  <2>7. ASSUME NEW n \in 1..Len(r)
        PROVE  r[n] # j /\ \E m \in 1..Len(q) : q[m] = r[n]
    BY <2>2, <2>3, <2>5
  <2>8. ASSUME NEW m \in 1..Len(q), q[m] # j
        PROVE  \E n \in 1..Len(r) : r[n] = q[m]
    <3>1. CASE m < k
      <4>1. m \in 1..Len(r) /\ r[m] = q[m]
        BY <2>2, <2>3, <2>5, <3>1
      <4> QED
        BY <4>1
    <3>2. CASE m > k
      <4>1. m - 1 \in 1..Len(r) /\ r[m - 1] = q[m]
        BY <2>2, <2>3, <2>5, <3>2
      <4> QED
        BY <4>1
    <3> QED
      BY <2>3, <2>8, <3>1, <3>2
  <2>9. Pending = {q[n] : n \in 1..Len(q)} /\ Pending' = {r[n] : n \in 1..Len(r)}
    BY DEF Pending
  <2>10. Pending' = Pending \ {j}
    BY <2>7, <2>8, <2>9
  <2> QED
    BY <2>5, <2>6, <2>10 DEF QueueOK
<1> QED
  BY <1>1, <1>2

LEMMA AppendedOne ==
    ASSUME QueueOK, NEW j \in Jobs, j \notin Pending, pending' = Append(pending, j)
    PROVE  QueueOK' /\ Pending' = Pending \cup {j}
BY DEF QueueOK, Pending

LEMMA TakenOne ==
    ASSUME QueueOK, pending # <<>>, pending' = Tail(pending)
    PROVE  /\ QueueOK' /\ Head(pending) \in Pending
           /\ Pending' = Pending \ {Head(pending)}
<1> PICK q, r : q = pending /\ r = pending'
  OBVIOUS
<1>1. /\ q \in Seq(Jobs) /\ q # <<>> /\ Len(q) \in Nat /\ r = Tail(q)
      /\ \A m, n \in 1..Len(q) : q[m] = q[n] => m = n
  BY DEF QueueOK
<1>2. /\ r \in Seq(Jobs) /\ Len(r) = Len(q) - 1 /\ Len(q) > 0 /\ Head(q) = q[1]
      /\ \A n \in 1..Len(r) : r[n] = q[n + 1]
  BY <1>1
<1>3. Pending = {q[n] : n \in 1..Len(q)} /\ Pending' = {r[n] : n \in 1..Len(r)}
  BY DEF Pending
<1>4. \A m, n \in 1..Len(r) : r[m] = r[n] => m = n
  BY <1>1, <1>2
<1>5. \A n \in 1..Len(r) : r[n] # q[1] /\ \E m \in 1..Len(q) : q[m] = r[n]
  BY <1>1, <1>2
<1>6. ASSUME NEW m \in 1..Len(q), q[m] # q[1]
      PROVE  \E n \in 1..Len(r) : r[n] = q[m]
  <2>1. m - 1 \in 1..Len(r) /\ r[m - 1] = q[m]
    BY <1>1, <1>2, <1>6
  <2> QED
    BY <2>1
<1>7. 1 \in 1..Len(q)
  BY <1>1, <1>2
<1>8. q[1] \in Pending
  BY <1>3, <1>7
<1>9. Pending' = Pending \ {q[1]}
  <2>1. \A x : x \in Pending' => x \in Pending /\ x # q[1]
    BY <1>3, <1>5
  <2>2. \A x : x \in Pending /\ x # q[1] => x \in Pending'
    BY <1>3, <1>6
  <2> QED
    BY <2>1, <2>2
<1> QED
  BY <1>2, <1>4, <1>8, <1>9 DEF QueueOK

LEMMA NoQueue ==
    /\ pending = <<>> => Pending = {}
    /\ pending' = <<>> => QueueOK' /\ Pending' = {}
    /\ pending' = pending => (QueueOK' <=> QueueOK) /\ Pending' = Pending
<1>1. pending = <<>> => Pending = {}
  BY DEF Pending
<1>2. pending' = <<>> => QueueOK' /\ Pending' = {}
  BY DEF Pending, QueueOK
<1>3. pending' = pending => (QueueOK' <=> QueueOK) /\ Pending' = Pending
  BY DEF Pending, QueueOK
<1> QED
  BY <1>1, <1>2, <1>3

WorkerStages == {"loop", "empty", "head", "again", "running", "finishing", "ended"}

\* Nobody begins, ends or leaves a job.
StagesKept ==
    /\ stage' \in [Workers -> WorkerStages]
    /\ \A w \in Workers, s \in {"running", "finishing", "ended"} :
          stage'[w] = s <=> stage[w] = s

LEMMA NotifiedStages ==
    ASSUME ExportTypes, NotifyAll \/ UNCHANGED stage
    PROVE  StagesKept
BY DEF ExportTypes, StagesKept, NotifyAll, Woken, WorkerStages

\* What the registry forgets.
LEMMA CleanedTypes ==
    ASSUME ExportTypes, NEW J, CleanupRegistry(J)
    PROVE  /\ registered' = registered \ J /\ active' = active \ J
           /\ registered' \subseteq Jobs /\ active' \subseteq registered'
           /\ jobOf' \in [Users -> Jobs \cup {NoJob}]
BY DEF ExportTypes, CleanupRegistry

LEMMA EnqueueExports ==
    ASSUME ExportInv, NEW j \in Jobs, Enqueue(j)
    PROVE  ExportInv'
<1> USE ZipAssumption DEF ExportInv
<1>1. j \notin registered \cup handshake /\ \A w \in Workers : has[w] # j
  BY DEF Enqueue, Unknown
<1>2. j \notin Pending
  BY <1>1 DEF JobOK
<1>3. QueueOK' /\ Pending' = Pending \cup {j}
  BY <1>2, AppendedOne DEF Enqueue, ExportTypes
<1>4. /\ manager = "up" /\ manager' = manager /\ UNCHANGED <<stage, has>>
      /\ registered' = registered \cup {j} /\ active' = active
      /\ handshake' = handshake \cup {j} /\ ready' = ready \ {j}
      /\ cancelled' = cancelled \ {j} /\ message' = message \ {j}
      /\ acknowledged' = acknowledged \ {j}
      /\ task' = [task EXCEPT ![j] = "none"]
      /\ outcome' = [outcome EXCEPT ![j] = "none"]
      /\ notices' = [notices EXCEPT ![j] = 0]
      /\ jobOf' = [jobOf EXCEPT ![Owner[j]] = j]
  BY DEF Enqueue, Closing, workerVars
<1>5. ExportTypes'
  BY <1>3, <1>4 DEF ExportTypes
<1>6. ASSUME NEW x \in Jobs  PROVE JobOK(x)'
  <2>1. CASE x = j
    BY <1>1, <1>3, <1>4, <2>1 DEF JobOK, Fresh, ExportTypes
  <2>2. CASE x # j
    BY <1>3, <1>4, <2>2 DEF JobOK, Fresh, Acknowledged, ExportTypes
  <2> QED
    BY <2>1, <2>2
<1>7. ASSUME NEW w \in Workers  PROVE WorkerOK(w)'
  BY <1>1, <1>3, <1>4 DEF WorkerOK, ExportTypes
<1> QED
  BY <1>4, <1>5, <1>6, <1>7

LEMMA ConfirmExports ==
    ASSUME ExportInv, NEW j \in Jobs, Confirm(j)
    PROVE  ExportInv'
<1> USE ZipAssumption DEF ExportInv
<1>1. /\ j \in handshake /\ handshake' = handshake \ {j}
      /\ ready' = ready \cup {j} /\ message' \in {message, message \cup {j}}
      /\ UNCHANGED <<manager, cancelled, task, has, acknowledged>>
      /\ NotifyAll
  BY DEF Confirm
<1>2. StagesKept
  BY <1>1, NotifiedStages
<1>3. Fresh(j) /\ j \notin message /\ \A w \in Workers : has[w] # j
  BY <1>1 DEF JobOK, WorkerOK, ExportTypes
<1>4. ASSUME NEW w \in Workers,
             registered' = registered \/ registered' = registered \ {j},
             Pending' \subseteq Pending,
             \A x \in Jobs \ {j} :
                 outcome'[x] = outcome[x] /\ notices'[x] = notices[x]
      PROVE  WorkerOK(w)'
  BY <1>1, <1>2, <1>3, <1>4 DEF WorkerOK, ExportTypes, StagesKept, WorkerStages
<1>5. CASE CanQueue(j) /\ UNCHANGED <<queueVars, outcome, notices>>
  <2>1. /\ UNCHANGED <<registered, active, jobOf, outcome, notices, pending>>
        /\ QueueOK' /\ Pending' = Pending
        /\ j \in registered /\ j \notin cancelled
    BY <1>5, NoQueue DEF queueVars, CanQueue, ExportTypes
  <2>2. ExportTypes'
    BY <1>1, <1>2, <2>1 DEF ExportTypes, StagesKept, WorkerStages
  <2>3. ASSUME NEW x \in Jobs  PROVE JobOK(x)'
    BY <1>1, <1>2, <1>3, <2>1 DEF JobOK, Fresh, Acknowledged, StagesKept
  <2> QED
    BY <1>1, <1>2, <1>4, <2>1, <2>2, <2>3 DEF StagesKept
<1>6. CASE /\ ~CanQueue(j)
           /\ pending' = Dequeued(pending, j) /\ CleanupRegistry({j})
           /\ Tell(message' \ message, "cancelled")
  <2>1. QueueOK' /\ Pending' = Pending \ {j}
    BY <1>6, DequeuedOne DEF ExportTypes
  <2>2. /\ registered' = registered \ {j} /\ active' = active \ {j}
        /\ registered' \subseteq Jobs /\ active' \subseteq registered'
        /\ jobOf' \in [Users -> Jobs \cup {NoJob}]
    BY <1>6, CleanedTypes
  <2>3. /\ notices' = [x \in Jobs |-> IF x \in message' \ message THEN notices[x] + 1
                                                              ELSE notices[x]]
        /\ outcome' = [x \in Jobs |-> IF x \in message' \ message THEN "cancelled"
                                                              ELSE outcome[x]]
    BY <1>6 DEF Tell
  <2>4. ExportTypes'
    BY <1>1, <1>2, <2>1, <2>2, <2>3 DEF ExportTypes, StagesKept, WorkerStages
  <2>5. ASSUME NEW x \in Jobs  PROVE JobOK(x)'
    <3>1. CASE x = j
      BY <1>1, <1>2, <1>3, <2>1, <2>2, <2>3, <3>1
         DEF JobOK, Fresh, Acknowledged, StagesKept
    <3>2. CASE x # j
      BY <1>1, <1>2, <2>1, <2>2, <2>3, <3>2
         DEF JobOK, Fresh, Acknowledged, StagesKept
    <3> QED
      BY <3>1, <3>2
  <2>6. pending = <<>> => pending' = <<>>
    BY <1>6 DEF Dequeued
  <2> QED
    BY <1>1, <1>2, <1>4, <2>1, <2>2, <2>3, <2>4, <2>5, <2>6 DEF StagesKept
<1> QED
  BY <1>5, <1>6 DEF Confirm

LEMMA AbortExports ==
    ASSUME ExportInv, NEW j \in Jobs, AbortEnqueue(j)
    PROVE  ExportInv'
<1> USE ZipAssumption DEF ExportInv
<1>1. /\ j \in handshake /\ handshake' = handshake \ {j}
      /\ ready' = ready \cup {j} /\ cancelled' = cancelled \cup {j}
      /\ pending' = Dequeued(pending, j) /\ CleanupRegistry({j}) /\ NotifyAll
      /\ UNCHANGED <<manager, message, task, has, acknowledged, outcome, notices>>
  BY DEF AbortEnqueue, historyVars
<1>2. StagesKept
  BY <1>1, NotifiedStages
<1>3. Fresh(j) /\ j \notin message /\ \A w \in Workers : has[w] # j
  BY <1>1 DEF JobOK, WorkerOK, ExportTypes
<1>4. QueueOK' /\ Pending' = Pending \ {j}
  BY <1>1, DequeuedOne DEF ExportTypes
<1>5. /\ registered' = registered \ {j} /\ active' = active \ {j}
      /\ registered' \subseteq Jobs /\ active' \subseteq registered'
      /\ jobOf' \in [Users -> Jobs \cup {NoJob}]
  BY <1>1, CleanedTypes
<1>6. ExportTypes'
  BY <1>1, <1>2, <1>4, <1>5 DEF ExportTypes, StagesKept, WorkerStages
<1>7. ASSUME NEW x \in Jobs  PROVE JobOK(x)'
  BY <1>1, <1>2, <1>3, <1>4, <1>5 DEF JobOK, Fresh, Acknowledged, StagesKept
<1>8. ASSUME NEW w \in Workers  PROVE WorkerOK(w)'
  BY <1>1, <1>2, <1>3, <1>4, <1>5 DEF WorkerOK, ExportTypes, StagesKept, WorkerStages
<1>9. pending = <<>> => pending' = <<>>
  BY <1>1 DEF Dequeued
<1> QED
  BY <1>1, <1>2, <1>6, <1>7, <1>8, <1>9 DEF StagesKept

LEMMA CancelExports ==
    ASSUME ExportInv, NEW u \in Users, CancelForUser(u)
    PROVE  ExportInv'
<1> USE ZipAssumption DEF ExportInv
<1> PICK j : j = jobOf[u]
  OBVIOUS
<1>1. /\ j # NoJob /\ j \in registered
      /\ j \in Pending \/ task[j] # "done"
      /\ cancelled' = cancelled \cup {j} /\ acknowledged' = acknowledged \cup {j}
      /\ UNCHANGED <<manager, handshake, ready, message, has>>
  BY DEF CancelForUser, Cancellable
<1>2. j \in Jobs
  BY <1>1 DEF ExportTypes
<1>3. CASE /\ j \in Pending /\ pending' = Dequeued(pending, j)
           /\ CleanupRegistry({j}) /\ NotifyAll
           /\ Tell(Told(j), "cancelled") /\ UNCHANGED task
  <2>1. QueueOK' /\ Pending' = Pending \ {j}
    BY <1>3, DequeuedOne DEF ExportTypes
  <2>2. StagesKept
    BY <1>3, NotifiedStages
  <2>3. /\ registered' = registered \ {j} /\ active' = active \ {j}
        /\ registered' \subseteq Jobs /\ active' \subseteq registered'
        /\ jobOf' \in [Users -> Jobs \cup {NoJob}]
    BY <1>3, CleanedTypes
  <2>4. /\ notices' = [x \in Jobs |-> IF x = j /\ j \in ready THEN notices[x] + 1
                                                             ELSE notices[x]]
        /\ outcome' = [x \in Jobs |-> IF x = j /\ j \in ready THEN "cancelled"
                                                             ELSE outcome[x]]
    BY <1>3 DEF Tell, Told
  <2>5. ExportTypes'
    BY <1>1, <1>2, <1>3, <2>1, <2>2, <2>3, <2>4 DEF ExportTypes, StagesKept, WorkerStages
  <2>6. Fresh(j) /\ (j \in ready <=> j \notin handshake) /\ \A w \in Workers : has[w] # j
    BY <1>2, <1>3 DEF JobOK, WorkerOK, ExportTypes
  <2>7. ASSUME NEW x \in Jobs  PROVE JobOK(x)'
    <3>1. CASE x = j
      BY <1>1, <1>2, <1>3, <2>1, <2>2, <2>3, <2>4, <2>6, <3>1
         DEF JobOK, Fresh, Acknowledged, StagesKept
    <3>2. CASE x # j
      BY <1>1, <1>3, <2>1, <2>2, <2>3, <2>4, <3>2
         DEF JobOK, Fresh, Acknowledged, StagesKept
    <3> QED
      BY <3>1, <3>2
  <2>8. ASSUME NEW w \in Workers  PROVE WorkerOK(w)'
    BY <1>1, <1>3, <2>1, <2>2, <2>3, <2>4, <2>6
       DEF WorkerOK, ExportTypes, StagesKept, WorkerStages
  <2>9. pending = <<>> => pending' = <<>>
    BY <1>3 DEF Dequeued
  <2> QED
    BY <1>1, <2>2, <2>5, <2>7, <2>8, <2>9 DEF StagesKept
<1>4. CASE /\ j \notin Pending
           /\ task' = IF task[j] = "running"
                      THEN [task EXCEPT ![j] = "cancelled"] ELSE task
           /\ UNCHANGED <<queueVars, stage, outcome, notices>>
  <2>1. /\ UNCHANGED <<registered, active, jobOf, outcome, notices, stage, pending>>
        /\ QueueOK' /\ Pending' = Pending
    BY <1>4, NoQueue DEF queueVars, ExportTypes
  <2>2. ExportTypes'
    BY <1>1, <1>2, <1>4, <2>1 DEF ExportTypes
  <2>3. PICK w \in Workers : has[w] = j
    BY <1>1, <1>2, <1>4 DEF JobOK
  <2>4. /\ stage[w] = "running" /\ task[j] \in {"running", "cancelled"}
        /\ outcome[j] = "none" /\ notices[j] = 0 /\ j \notin handshake
    BY <1>1, <1>4, <2>3 DEF WorkerOK, ExportTypes
  <2>5. ASSUME NEW x \in Jobs  PROVE JobOK(x)'
    <3>1. CASE x = j
      BY <1>1, <1>2, <1>4, <2>1, <2>3, <2>4, <3>1
         DEF JobOK, Fresh, Acknowledged, ExportTypes
    <3>2. CASE x # j
      BY <1>1, <1>2, <1>4, <2>1, <3>2 DEF JobOK, Fresh, Acknowledged, ExportTypes
    <3> QED
      BY <3>1, <3>2
  <2>6. ASSUME NEW v \in Workers  PROVE WorkerOK(v)'
    BY <1>1, <1>2, <1>4, <2>1, <2>3, <2>4 DEF WorkerOK, ExportTypes
  <2> QED
    BY <1>1, <2>1, <2>2, <2>5, <2>6
<1> QED
  BY <1>3, <1>4 DEF CancelForUser

LEMMA NextJobExports ==
    ASSUME ExportInv, NEW w \in Workers, NextJob(w)
    PROVE  ExportInv'
<1> USE ZipAssumption DEF ExportInv
<1>1. /\ stage[w] \in {"loop", "again"}
      /\ UNCHANGED <<manager, handshake, ready, cancelled, message, acknowledged,
                     outcome, notices>>
  BY DEF NextJob, historyVars
<1>2. has[w] = NoJob
  BY <1>1 DEF WorkerOK
\* It waits or leaves.
<1>3. ASSUME NEW where \in {"empty", "head", "ended"},
             stage' = [stage EXCEPT ![w] = where],
             UNCHANGED <<queueVars, has, task>>
      PROVE  ExportInv'
  <2>1. /\ UNCHANGED <<registered, active, jobOf, pending, has, task>>
        /\ QueueOK' /\ Pending' = Pending
    BY <1>3, NoQueue DEF queueVars, ExportTypes
  <2>2. ExportTypes'
    BY <1>1, <1>3, <2>1 DEF ExportTypes
  <2>3. \A v \in Workers : /\ stage'[v] = "running" <=> stage[v] = "running"
                           /\ stage'[v] = "finishing" <=> stage[v] = "finishing"
                           /\ stage[v] = "ended" => stage'[v] = "ended"
    BY <1>1, <1>3 DEF ExportTypes
  <2>4. ASSUME NEW x \in Jobs  PROVE JobOK(x)'
    BY <1>1, <2>1, <2>3 DEF JobOK, Fresh, Acknowledged
  <2>5. ASSUME NEW v \in Workers  PROVE WorkerOK(v)'
    BY <1>1, <2>1, <2>2, <2>3 DEF WorkerOK, ExportTypes
  <2> QED
    BY <1>1, <2>1, <2>2, <2>3, <2>4, <2>5
<1>4. ASSUME pending # <<>>, Head(pending) \in ready, Take(w, Head(pending))
      PROVE  ExportInv'
  <2> PICK j : j = Head(pending)
    OBVIOUS
  <2>1. QueueOK' /\ Pending' = Pending \ {j} /\ j \in Pending
    BY <1>4, TakenOne DEF Take, ExportTypes
  <2>2. j \in Jobs
    BY <2>1 DEF ExportTypes, QueueOK, Pending
  <2>3. /\ j \in registered /\ j \notin acknowledged /\ Fresh(j) /\ j \notin handshake
        /\ \A v \in Workers : has[v] # j
    BY <1>4, <2>1, <2>2 DEF JobOK, WorkerOK, ExportTypes
  <2>4. /\ active' = active \cup {j} /\ task' = [task EXCEPT ![j] = "running"]
        /\ stage' = [stage EXCEPT ![w] = "running"] /\ has' = [has EXCEPT ![w] = j]
        /\ UNCHANGED <<registered, jobOf>>
    BY <1>4 DEF Take
  <2>5. ExportTypes'
    BY <1>1, <2>1, <2>2, <2>3, <2>4 DEF ExportTypes
  <2>6. ASSUME NEW x \in Jobs  PROVE JobOK(x)'
    <3>1. CASE x = j
      <4>1. has'[w] = j /\ stage'[w] = "running"
        BY <2>4 DEF ExportTypes
      <4> QED
        BY <1>1, <2>1, <2>2, <2>3, <2>4, <3>1, <4>1
           DEF JobOK, Fresh, Acknowledged, ExportTypes
    <3>2. CASE x # j
      <4>1. task'[x] = task[x]
        BY <2>4, <3>2 DEF ExportTypes
      <4>2. ASSUME NEW v \in Workers, has[v] = x
            PROVE  has'[v] = x /\ stage'[v] = stage[v]
        BY <1>2, <2>4, <4>2 DEF ExportTypes
      <4> QED
        BY <1>1, <2>1, <2>4, <3>2, <4>1, <4>2 DEF JobOK, Fresh, Acknowledged
    <3> QED
      BY <3>1, <3>2
  <2>7. ASSUME NEW v \in Workers  PROVE WorkerOK(v)'
    <3>1. CASE v = w
      BY <1>1, <2>1, <2>2, <2>3, <2>4, <3>1 DEF WorkerOK, Fresh, ExportTypes
    <3>2. CASE v # w
      BY <1>1, <2>1, <2>3, <2>4, <3>2 DEF WorkerOK, ExportTypes
    <3> QED
      BY <3>1, <3>2
  <2>8. \A u, v \in Workers : has'[u] = has'[v] /\ has'[u] # NoJob => u = v
    BY <2>3, <2>4 DEF ExportTypes
  <2>9. manager = "up"
    BY <1>4
  <2> QED
    BY <1>1, <2>5, <2>6, <2>7, <2>8, <2>9
<1> QED
  BY <1>3, <1>4 DEF NextJob, WaitFor, Leave

LEMMA EndJobExports ==
    ASSUME ExportInv, NEW w \in Workers, EndJob(w)
    PROVE  ExportInv'
<1> USE ZipAssumption DEF ExportInv
<1> PICK j : j = has[w]
  OBVIOUS
<1>1. /\ stage[w] = "running" /\ stage' = [stage EXCEPT ![w] = "finishing"]
      /\ task' = [task EXCEPT ![j] = "done"]
      /\ UNCHANGED <<manager, queueVars, handshake, ready, cancelled, message,
                     has, acknowledged>>
  BY DEF EndJob
<1>2. /\ UNCHANGED <<registered, active, jobOf, pending>>
      /\ QueueOK' /\ Pending' = Pending
  BY <1>1, NoQueue DEF queueVars, ExportTypes
<1>3. /\ j \in Jobs /\ j \in registered /\ j \notin Pending \cup handshake
      /\ task[j] \in {"running", "cancelled"} /\ notices[j] = 0
  BY <1>1 DEF WorkerOK, ExportTypes
<1>4. PICK status \in {"exported", "failed"} :
         Tell({j}, IF task[j] = "cancelled" THEN "cancelled" ELSE status)
  BY DEF EndJob
<1>5. /\ notices' = [x \in Jobs |-> IF x = j THEN notices[x] + 1 ELSE notices[x]]
      /\ outcome' = [x \in Jobs |-> IF x = j THEN IF task[j] = "cancelled"
                                                   THEN "cancelled" ELSE status
                                    ELSE outcome[x]]
  BY <1>4 DEF Tell
<1>6. ExportTypes'
  BY <1>1, <1>2, <1>3, <1>5 DEF ExportTypes
<1>7. ASSUME NEW x \in Jobs  PROVE JobOK(x)'
  <2>1. CASE x = j
    BY <1>1, <1>2, <1>3, <1>5, <2>1 DEF JobOK, Fresh, Acknowledged, ExportTypes
  <2>2. CASE x # j
    <3>1. ASSUME NEW v \in Workers, has[v] = x  PROVE stage'[v] = stage[v]
      BY <1>1, <2>2, <3>1 DEF ExportTypes
    <3> QED
      BY <1>1, <1>2, <1>5, <2>2, <3>1 DEF JobOK, Fresh, Acknowledged, ExportTypes
  <2> QED
    BY <2>1, <2>2
<1>8. ASSUME NEW v \in Workers  PROVE WorkerOK(v)'
  <2>1. CASE v = w
    BY <1>1, <1>2, <1>3, <1>5, <2>1 DEF WorkerOK, ExportTypes
  <2>2. CASE v # w
    <3>1. has[v] # j
      BY <1>3, <2>2
    <3> QED
      BY <1>1, <1>2, <1>5, <2>2, <3>1 DEF WorkerOK, ExportTypes
  <2> QED
    BY <2>1, <2>2
<1>9. manager = "stopped" => \A v \in Workers : stage'[v] = "ended"
  BY <1>1 DEF ExportTypes
<1> QED
  BY <1>1, <1>2, <1>6, <1>7, <1>8, <1>9

LEMMA FinishJobExports ==
    ASSUME ExportInv, NEW w \in Workers, FinishJob(w)
    PROVE  ExportInv'
<1> USE ZipAssumption DEF ExportInv
<1> PICK j : j = has[w]
  OBVIOUS
<1>1. /\ stage[w] = "finishing" /\ CleanupRegistry({j})
      /\ has' = [has EXCEPT ![w] = NoJob]
      /\ UNCHANGED <<manager, pending, handshake, ready, cancelled, message, task,
                     acknowledged, outcome, notices>>
  BY DEF FinishJob, jobVars, historyVars
<1>2. PICK next \in {"ended", "loop"} :
         stage' = [v \in Workers |-> IF v = w THEN next ELSE Woken(v)]
  BY DEF FinishJob
<1>3. QueueOK' /\ Pending' = Pending
  BY <1>1, NoQueue DEF ExportTypes
<1>4. /\ registered' = registered \ {j} /\ active' = active \ {j}
      /\ registered' \subseteq Jobs /\ active' \subseteq registered'
      /\ jobOf' \in [Users -> Jobs \cup {NoJob}]
  BY <1>1, CleanedTypes
<1>5. /\ j \in Jobs /\ j \in registered /\ j \notin Pending \cup handshake
      /\ task[j] = "done" /\ notices[j] = 1
  BY <1>1 DEF WorkerOK, ExportTypes
<1>6. /\ stage' \in [Workers -> WorkerStages] /\ stage'[w] \in {"ended", "loop"}
      /\ \A v \in Workers \ {w}, s \in {"running", "finishing", "ended"} :
            stage'[v] = s <=> stage[v] = s
  BY <1>2 DEF ExportTypes, Woken, WorkerStages
<1>7. ExportTypes'
  BY <1>1, <1>3, <1>4, <1>6 DEF ExportTypes, WorkerStages
<1>8. ASSUME NEW x \in Jobs  PROVE JobOK(x)'
  <2>1. CASE x = j
    BY <1>1, <1>3, <1>4, <1>5, <2>1 DEF JobOK, Acknowledged
  <2>2. CASE x # j
    <3>1. ASSUME NEW v \in Workers, has[v] = x
          PROVE  has'[v] = x /\ (stage[v] = "running" => stage'[v] = "running")
      BY <1>1, <1>6, <2>2, <3>1 DEF ExportTypes
    <3> QED
      BY <1>1, <1>3, <1>4, <2>2, <3>1 DEF JobOK, Fresh, Acknowledged
  <2> QED
    BY <2>1, <2>2
<1>9. ASSUME NEW v \in Workers  PROVE WorkerOK(v)'
  <2>1. CASE v = w
    BY <1>1, <1>6, <2>1 DEF WorkerOK, ExportTypes
  <2>2. CASE v # w
    <3>1. has[v] # j /\ has'[v] = has[v]
      BY <1>1, <1>5, <2>2 DEF ExportTypes
    <3> QED
      BY <1>1, <1>3, <1>4, <1>6, <2>2, <3>1 DEF WorkerOK, ExportTypes
  <2> QED
    BY <2>1, <2>2
<1>10. \A u, v \in Workers : has'[u] = has'[v] /\ has'[u] # NoJob => u = v
  BY <1>1 DEF ExportTypes
<1>11. manager = "stopped" => \A v \in Workers : stage'[v] = "ended"
  BY <1>1
<1> QED
  BY <1>1, <1>7, <1>8, <1>9, <1>10, <1>11

LEMMA StopExports ==
    ASSUME ExportInv, Stop
    PROVE  ExportInv'
<1> USE ZipAssumption DEF ExportInv
<1>1. /\ manager' = "closing" /\ pending' = <<>>
      /\ cancelled' = cancelled \cup Pending /\ ready' = ready \cup Pending
      /\ CleanupRegistry(Pending) /\ NotifyAll
      /\ Tell(Pending \cap message, "cancelled")
      /\ UNCHANGED <<handshake, message, task, has, acknowledged>>
  BY DEF Stop
<1>2. QueueOK' /\ Pending' = {}
  BY <1>1, NoQueue
<1>3. StagesKept
  BY <1>1, NotifiedStages
<1>4. /\ registered' = registered \ Pending /\ active' = active \ Pending
      /\ registered' \subseteq Jobs /\ active' \subseteq registered'
      /\ jobOf' \in [Users -> Jobs \cup {NoJob}]
  BY <1>1, CleanedTypes
<1>5. /\ notices' = [x \in Jobs |-> IF x \in Pending \cap message THEN notices[x] + 1
                                                             ELSE notices[x]]
      /\ outcome' = [x \in Jobs |-> IF x \in Pending \cap message THEN "cancelled"
                                                             ELSE outcome[x]]
  BY <1>1 DEF Tell
<1>6. ExportTypes'
  BY <1>1, <1>2, <1>3, <1>4, <1>5 DEF ExportTypes, StagesKept, WorkerStages
<1>7. ASSUME NEW x \in Jobs  PROVE JobOK(x)'
  BY <1>1, <1>2, <1>3, <1>4, <1>5 DEF JobOK, Fresh, Acknowledged, StagesKept
<1>8. ASSUME NEW v \in Workers  PROVE WorkerOK(v)'
  BY <1>1, <1>2, <1>3, <1>4, <1>5 DEF WorkerOK, ExportTypes, StagesKept, WorkerStages
<1> QED
  BY <1>1, <1>6, <1>7, <1>8

LEMMA CancelTasksExports ==
    ASSUME ExportInv, CancelTasks
    PROVE  ExportInv'
<1> USE ZipAssumption DEF ExportInv
<1>1. /\ manager = "closing" /\ manager' = "cancelling"
      /\ task' = [x \in Jobs |-> IF task[x] = "running" THEN "cancelled" ELSE task[x]]
      /\ UNCHANGED <<registered, active, jobOf, pending, handshake, ready, cancelled,
                     message, stage, has, acknowledged, outcome, notices>>
  BY DEF CancelTasks, queueVars, workerVars, historyVars
<1>2. QueueOK' /\ Pending' = Pending
  BY <1>1, NoQueue DEF ExportTypes
<1>3. ExportTypes'
  BY <1>1, <1>2 DEF ExportTypes
<1>4. ASSUME NEW x \in Jobs  PROVE JobOK(x)'
  BY <1>1, <1>2 DEF JobOK, Fresh, Acknowledged, ExportTypes
<1>5. ASSUME NEW v \in Workers  PROVE WorkerOK(v)'
  BY <1>1, <1>2 DEF WorkerOK, ExportTypes
<1> QED
  BY <1>1, <1>3, <1>4, <1>5

LEMMA RestExports ==
    ASSUME ExportInv,
           (\E u \in Users : CooldownEnds(u)) \/ Stopped \/ Start \/ UNCHANGED vars
    PROVE  ExportInv'
<1> USE ZipAssumption DEF ExportInv
<1>1. /\ UNCHANGED <<registered, active, jobOf, pending, handshake, ready, cancelled,
                     message, task, has, acknowledged, outcome, notices>>
      /\ \/ UNCHANGED <<manager, stage>>
         \/ /\ manager' = "stopped" /\ manager = "cancelling"
            /\ \A w \in Workers : stage[w] = "ended"
            /\ stage' = stage
         \/ /\ manager' = "up" /\ manager = "stopped"
            /\ stage' = [w \in Workers |-> "loop"]
  BY DEF CooldownEnds, Stopped, Start, vars, queueVars, jobVars, workerVars,
         historyVars
<1>2. QueueOK' /\ Pending' = Pending
  BY <1>1, NoQueue DEF ExportTypes
<1>3. ExportTypes'
  BY <1>1, <1>2 DEF ExportTypes
<1>4. \A v \in Workers, s \in {"running", "finishing"} : stage'[v] = s <=> stage[v] = s
  BY <1>1
<1>5. ASSUME NEW x \in Jobs  PROVE JobOK(x)'
  BY <1>1, <1>2, <1>4 DEF JobOK, Fresh, Acknowledged
<1>6. ASSUME NEW v \in Workers  PROVE WorkerOK(v)'
  BY <1>1, <1>2, <1>3, <1>4 DEF WorkerOK, ExportTypes
<1> QED
  BY <1>1, <1>3, <1>5, <1>6

LEMMA ExportInitOK ==
    ASSUME Init  PROVE  ExportInv
<1> USE ZipAssumption DEF Init
<1>1. QueueOK /\ Pending = {}
  BY DEF QueueOK, Pending
<1> QED
  BY <1>1
     DEF ExportInv, ExportTypes, JobOK, Fresh, Acknowledged, WorkerOK

THEOREM ExportsAreTracked == Spec => []ExportInv
<1>1. ExportInv /\ [Next]_vars => ExportInv'
  BY EnqueueExports, ConfirmExports, AbortExports, CancelExports, NextJobExports,
     EndJobExports, FinishJobExports, StopExports, CancelTasksExports, RestExports
     DEF Next, WorkerStep
<1> QED
  BY <1>1, ExportInitOK, PTL DEF Spec

(***************************************************************************)
(* For any users, jobs, workers and capacity, a cancellation that was      *)
(* confirmed is kept and its user told of the end once (CancelKept).       *)
(***************************************************************************)
THEOREM CancellationsAreKept == Spec => []CancelKept
<1>1. ExportInv => CancelKept
  <2> SUFFICES ASSUME ExportInv, NEW j \in acknowledged
               PROVE  Acknowledged(j)
    BY DEF Acknowledged, CancelKept
  <2> j \in Jobs
    BY DEF ExportInv, ExportTypes
  <2> QED
    BY DEF ExportInv, JobOK
<1> QED
  BY <1>1, ExportsAreTracked, PTL

(***************************************************************************)
(* When stop has returned nothing runs and nothing is registered, for any  *)
(* number of exports at any point of their way (StopLeavesNothing).        *)
(***************************************************************************)
THEOREM NothingRunsAfterStop == Spec => []StopLeavesNothing
<1>1. ExportInv => StopLeavesNothing
  <2> SUFFICES ASSUME ExportInv, manager = "stopped"
               PROVE  /\ registered = {} /\ active = {} /\ pending = <<>>
                      /\ \A j \in Jobs : task[j] \in {"none", "done"}
    BY DEF StopLeavesNothing
  <2>1. pending = <<>> /\ \A w \in Workers : stage[w] = "ended"
    BY DEF ExportInv
  <2>2. \A w \in Workers : has[w] = NoJob
    BY <2>1 DEF ExportInv, WorkerOK
  <2>3. \A j \in Jobs : j \notin registered /\ task[j] \notin {"running", "cancelled"}
    BY <2>1, <2>2, NoQueue, ZipAssumption DEF ExportInv, JobOK
  <2> QED
    BY <2>1, <2>3 DEF ExportInv, ExportTypes
<1> QED
  BY <1>1, ExportsAreTracked, PTL

=============================================================================
