----------------------------- MODULE BotProcess -----------------------------
(***************************************************************************)
(* The processes of the bot, one beside the other: the lock of the         *)
(* database (app/infrastructure/instance_lock.py), start and stop of the   *)
(* application (post_init, post_shutdown, main in                          *)
(* app/telegram/application.py), /restart, and /update with its marker     *)
(* (app/infrastructure/project_update.py).  The launcher, the operator and *)
(* Git are the environment: a process may be launched and killed at any    *)
(* time, and commits arrive at the remote.                                 *)
(***************************************************************************)
EXTENDS SchemaMigrations

CONSTANTS
    Process,        \* launches of python -m app.main
    NoProcess,
    Tasks,          \* the background work post_init starts, in its order
    MaxCommit       \* commits that ever reach the remote (bounds TLC)

ASSUME ProcessAssumption ==
    /\ NoProcess \notin Process
    /\ \A i, j \in DOMAIN Tasks : Tasks[i] = Tasks[j] => i = j
    /\ MaxCommit \in Nat

Commit == 1..MaxCommit
NoMarker == [commit |-> 0, fresh |-> FALSE]

VARIABLES
    holder,     \* who has the OS lock of the lock file
    metadata,   \* who is named in it
    at,         \* where a process is in its life
    loaded,     \* the commit it has imported
    tasks,      \* its background tasks
    restart,    \* its restart_requested
    update,     \* the stage of the update it performs
    disk,       \* HEAD of the working copy
    remote,     \* HEAD of the remote branch
    checked,    \* the commits whose compilation and imports succeeded
    marker,     \* logs/update_restart.json; fresh: not yet overtaken
    early       \* processes that run the code of before the marker

lock == <<holder, metadata>>
code == <<disk, remote, checked>>
told == <<marker, early>>
processVars == <<lock, at, loaded, tasks, restart, update, code, told,
                 database, work>>

Stages == {"none", "fetched", "saved", "pulled", "installed"}
Phases == {"off", "waiting", "locked", "checking", "commands", "database",
           "announcing", "starting", "running", "draining", "stopping"}

ProcessInit ==
    /\ holder = NoProcess
    /\ metadata = NoProcess
    /\ at = [p \in Process |-> "off"]
    /\ loaded = [p \in Process |-> 1]
    /\ tasks = [p \in Process |-> {}]
    /\ restart = [p \in Process |-> FALSE]
    /\ update = [p \in Process |-> "none"]
    /\ disk = 1
    /\ remote = 1
    /\ checked = {1}
    /\ marker = NoMarker
    /\ early = {}
    /\ DatabaseInit

Goes(p, phase) == at' = [at EXCEPT ![p] = phase]

-----------------------------------------------------------------------------
(* The lock.                                                               *)

Launch(p) ==
    /\ at[p] = "off"
    /\ Goes(p, "waiting")
    /\ loaded' = [loaded EXCEPT ![p] = disk]
    /\ restart' = [restart EXCEPT ![p] = FALSE]
    /\ early' = early \ {p}
    /\ UNCHANGED <<lock, tasks, update, code, marker, database, work>>

TryAcquire(p) ==
    /\ at[p] = "waiting"
    /\ holder = NoProcess
    /\ holder' = p
    /\ Goes(p, "locked")
    /\ UNCHANGED <<metadata, loaded, tasks, restart, update, code, told,
                   database, work>>

(* The deadline has passed: InstanceLockBusy.                              *)
GiveUp(p) ==
    /\ at[p] = "waiting"
    /\ holder # NoProcess
    /\ Goes(p, "off")
    /\ UNCHANGED <<lock, loaded, tasks, restart, update, code, told,
                   database, work>>

WriteMetadata(p) ==
    /\ at[p] = "locked"
    /\ metadata' = p
    /\ Goes(p, "checking")
    /\ UNCHANGED <<holder, loaded, tasks, restart, update, code, told,
                   database, work>>

(* Metadata that cannot be written and checks that fail give the lock back. *)
StartFails(p) ==
    /\ at[p] \in {"locked", "checking"}
    /\ holder' = NoProcess
    /\ Goes(p, "off")
    /\ UNCHANGED <<metadata, loaded, tasks, restart, update, code, told,
                   database, work>>

StartupChecks(p) ==
    /\ at[p] = "checking"
    /\ Goes(p, "commands")
    /\ UNCHANGED <<lock, loaded, tasks, restart, update, code, told,
                   database, work>>

-----------------------------------------------------------------------------
(* post_init: the gate, the bot's commands, the database, the marker, the   *)
(* background work.                                                        *)

SetCommands(p) ==
    /\ at[p] = "commands"
    /\ OpenDatabase
    /\ Goes(p, "database")
    /\ UNCHANGED <<lock, loaded, tasks, restart, update, code, told>>

InitDb(p) ==
    /\ at[p] = "database"
    /\ BaseStatement \/ CommitBase \/ Migrate
    /\ UNCHANGED <<lock, at, loaded, tasks, restart, update, code, told>>

DatabaseReady(p) ==
    /\ at[p] = "database"
    /\ CommitMigrations
    /\ Goes(p, "announcing")
    /\ UNCHANGED <<lock, loaded, tasks, restart, update, code, told>>

(* The marker goes only after its message.                                 *)
Announce(p) ==
    /\ at[p] = "announcing"
    /\ Goes(p, "starting")
    /\ \/ marker' = NoMarker
       \/ marker' = [marker EXCEPT !.fresh = FALSE]
    /\ UNCHANGED <<lock, loaded, tasks, restart, update, code, early,
                   database, work>>

StartTask(p) ==
    /\ at[p] = "starting"
    /\ \E i \in DOMAIN Tasks :
         /\ \A j \in DOMAIN Tasks : Tasks[j] \in tasks[p] <=> j < i
         /\ tasks' = [tasks EXCEPT ![p] = @ \cup {Tasks[i]}]
         /\ Goes(p, IF i = Len(Tasks) THEN "running" ELSE "starting")
    /\ UNCHANGED <<lock, loaded, restart, update, code, told, database, work>>

(* The network, the database or a verification: post_shutdown runs even so. *)
InitFails(p) ==
    /\ at[p] \in {"commands", "database", "announcing", "starting"}
    /\ Goes(p, "stopping")
    /\ IF at[p] = "database" THEN AbandonDatabase
       ELSE UNCHANGED <<database, work>>
    /\ UNCHANGED <<lock, loaded, tasks, restart, update, code, told>>

-----------------------------------------------------------------------------
(* /update and /restart.                                                   *)

Handling(p) == at[p] \in {"running", "draining"}

EndUpdate(p) == update' = [update EXCEPT ![p] = "none"]

(* A clean working copy that differs from the remote; one update at a time. *)
Fetch(p) ==
    /\ Handling(p)
    /\ update[p] = "none"
    /\ disk # remote
    /\ update' = [update EXCEPT ![p] = "fetched"]
    /\ UNCHANGED <<lock, at, loaded, tasks, restart, code, told, database, work>>

(* Mutant of BackUp: the marker comes first, the pull later.               *)
BackUpAnnounced(p) ==
    /\ update[p] = "fetched"
    /\ update' = [update EXCEPT ![p] = "saved"]
    /\ marker' = [commit |-> remote, fresh |-> TRUE]
    /\ early' = {q \in Process : at[q] # "off"}
    /\ UNCHANGED <<lock, at, loaded, tasks, restart, code, database, work>>

BackUp(p) ==
    /\ update[p] = "fetched"
    /\ update' = [update EXCEPT ![p] = "saved"]
    /\ UNCHANGED <<lock, at, loaded, tasks, restart, code, told, database, work>>

(* What the pull brings is later than a marker that waits to be announced. *)
Overtaken == [marker EXCEPT !.fresh = FALSE]

Pull(p) ==
    /\ update[p] = "saved"
    /\ disk' = remote
    /\ marker' = Overtaken
    /\ \/ update' = [update EXCEPT ![p] = "pulled"]
       \/ EndUpdate(p)      \* it has timed out
    /\ UNCHANGED <<lock, at, loaded, tasks, restart, remote, checked, early,
                   database, work>>

(* new_commit, the requirements, compileall and the imports.                *)
Check(p) ==
    /\ update[p] = "pulled"
    /\ checked' = checked \cup {disk}
    /\ update' = [update EXCEPT ![p] = "installed"]
    /\ UNCHANGED <<lock, at, loaded, tasks, restart, disk, remote, told,
                   database, work>>

(* Any stage may fail, with the working copy as it is then; nothing is     *)
(* rolled back.                                                            *)
UpdateFails(p) ==
    /\ update[p] # "none"
    /\ EndUpdate(p)
    /\ UNCHANGED <<lock, at, loaded, tasks, restart, code, told, database, work>>

(* The marker, the reply and the restart.                                  *)
Installed(p) ==
    /\ update[p] = "installed"
    /\ marker' = [commit |-> disk, fresh |-> TRUE]
    /\ early' = {q \in Process : at[q] # "off"}
    /\ restart' = [restart EXCEPT ![p] = TRUE]
    /\ EndUpdate(p)
    /\ Goes(p, "draining")
    /\ UNCHANGED <<lock, loaded, tasks, code, database, work>>

RequestRestart(p) ==
    /\ at[p] = "running"
    /\ restart' = [restart EXCEPT ![p] = TRUE]
    /\ Goes(p, "draining")
    /\ UNCHANGED <<lock, loaded, tasks, update, code, told, database, work>>

(* A signal of the operator.                                               *)
Interrupt(p) ==
    /\ at[p] = "running"
    /\ Goes(p, "draining")
    /\ UNCHANGED <<lock, loaded, tasks, restart, update, code, told,
                   database, work>>

(* The handlers under way end before post_shutdown.                         *)
Drained(p) ==
    /\ at[p] = "draining"
    /\ update[p] = "none"
    /\ Goes(p, "stopping")
    /\ UNCHANGED <<lock, loaded, tasks, restart, update, code, told,
                   database, work>>

-----------------------------------------------------------------------------
(* post_shutdown and the end of the process.                               *)

StopTask(p) ==
    /\ at[p] = "stopping"
    /\ \E i \in DOMAIN Tasks :
         /\ Tasks[i] \in tasks[p]
         /\ \A j \in 1..(i - 1) : Tasks[j] \notin tasks[p]
         /\ tasks' = [tasks EXCEPT ![p] = @ \ {Tasks[i]}]
    /\ UNCHANGED <<lock, at, loaded, restart, update, code, told,
                   database, work>>

(* When a step of post_shutdown raises, the loop is closed with the rest.   *)
ShutdownFails(p) ==
    /\ at[p] = "stopping"
    /\ tasks[p] # {}
    /\ tasks' = [tasks EXCEPT ![p] = {}]
    /\ UNCHANGED <<lock, at, loaded, restart, update, code, told,
                   database, work>>

Close(p) ==
    /\ at[p] = "stopping"
    /\ tasks[p] = {}
    /\ holder' = NoProcess
    /\ Goes(p, "off")
    /\ UNCHANGED <<metadata, loaded, tasks, restart, update, code, told,
                   database, work>>

(* The operating system takes everything back, the metadata stays.         *)
Kill(p) ==
    /\ at[p] # "off"
    /\ holder' = IF holder = p THEN NoProcess ELSE holder
    /\ tasks' = [tasks EXCEPT ![p] = {}]
    /\ EndUpdate(p)
    /\ Goes(p, "off")
    /\ IF at[p] = "database" THEN AbandonDatabase
       ELSE UNCHANGED <<database, work>>
    /\ UNCHANGED <<metadata, loaded, restart, code, told>>

Push ==
    /\ remote < MaxCommit
    /\ remote' = remote + 1
    /\ UNCHANGED <<lock, at, loaded, tasks, restart, update, disk, checked,
                   told, database, work>>

ProcessNext ==
    \/ Push
    \/ \E p \in Process :
         \/ Launch(p) \/ TryAcquire(p) \/ GiveUp(p) \/ WriteMetadata(p)
         \/ StartFails(p) \/ StartupChecks(p)
         \/ SetCommands(p) \/ InitDb(p) \/ DatabaseReady(p) \/ Announce(p)
         \/ StartTask(p) \/ InitFails(p)
         \/ Fetch(p) \/ BackUp(p) \/ Pull(p) \/ Check(p) \/ UpdateFails(p)
         \/ Installed(p) \/ RequestRestart(p) \/ Interrupt(p) \/ Drained(p)
         \/ StopTask(p) \/ ShutdownFails(p) \/ Close(p) \/ Kill(p)

-----------------------------------------------------------------------------
(* Properties.                                                             *)

ProcessTypeOK ==
    /\ holder \in Process \cup {NoProcess}
    /\ at \in [Process -> Phases]
    /\ loaded \in [Process -> Commit]
    /\ tasks \in [Process -> SUBSET {Tasks[i] : i \in DOMAIN Tasks}]
    /\ update \in [Process -> Stages]
    /\ disk \in Commit /\ remote \in Commit /\ checked \subseteq Commit
    /\ marker.commit \in 0..MaxCommit
    /\ schema \subseteq Feature /\ recorded \subseteq DOMAIN Needs

(* Background work runs only under the lock, so never in two processes, and *)
(* only over a database with every migration: whatever database was found  *)
(* (old, damaged, half migrated by a process that was killed), and however *)
(* start, failing shutdown and kill of several processes interleave         *)
(* (BotInstanceLifecycle.start and close, init_db, post_shutdown).          *)
ServesAlone ==
    \A p \in Process :
        tasks[p] # {} => holder = p /\ Complete(schema, recorded)

(* The message "started after the update" names the version that sends it, *)
(* unless the marker had been overtaken (a message that failed, a later    *)
(* pull) or the process had been launched before the update and waited for *)
(* the lock (write_update_marker, notify_update_marker).                   *)
AnnouncesOwnVersion ==
    [][\A p \in Process :
          at[p] = "announcing" /\ at'[p] = "starting" /\ marker # marker'
             => loaded[p] = marker.commit \/ ~marker.fresh \/ p \in early
      ]_processVars

ProcessSpec == ProcessInit /\ [][ProcessNext]_processVars

=============================================================================
