-------------------------- MODULE SchemaMigrations --------------------------
(***************************************************************************)
(* init_db and apply_versioned_migrations (app/storage/migrations.py) on   *)
(* whatever database a process finds.  A schema is a set of features:      *)
(* tables, columns, indexes and triggers.  The base part is a sequence of  *)
(* statements, each of which adds what is missing; those before the first  *)
(* UPDATE commit by themselves, the others together.  The versioned part   *)
(* is one transaction, which a failing statement or the end of the process *)
(* rolls back.                                                             *)
(***************************************************************************)
EXTENDS Integers, Sequences, FiniteSets

CONSTANTS
    Feature,        \* tables, columns, indexes, triggers
    Base,           \* the base statements: a sequence of [adds, unless]
    Autocommitted,  \* how many of them precede the UPDATE of next_check_at
    Version,        \* the recorded migrations, in the order of their numbers
    Needs           \* the features of each of them

ASSUME MigrationAssumption ==
    /\ Base \in Seq([adds : SUBSET Feature, unless : Feature])
    /\ \A i \in DOMAIN Base : Base[i].unless \in Base[i].adds
    /\ Autocommitted \in 0..Len(Base)
    /\ Version \in Seq(Nat)
    /\ \A i, j \in DOMAIN Version : Version[i] = Version[j] => i = j
    /\ Needs \in [{Version[i] : i \in DOMAIN Version} -> SUBSET Feature]
    \* what a database may lack, a statement or a migration looks for
    /\ \A f \in Feature : \/ \E i \in DOMAIN Base : Base[i].unless = f
                          \/ \E v \in DOMAIN Needs : f \in Needs[v]

VARIABLES
    schema,     \* the features the database has
    recorded,   \* the rows of schema_migrations
    work        \* the connection of init_db: its next statement and the
                \* database as it would be after its commit

database == <<schema, recorded>>

NoWork == [at |-> "closed", next |-> 0, schema |-> {}, recorded |-> {}]

Complete(s, r) == /\ Feature \subseteq s
                  /\ DOMAIN Needs \subseteq r

(* Databases a process may find: none, or one that an earlier version of   *)
(* the program has left: the migrations up to some number are recorded and *)
(* their features are there, of the others any.  And one that somebody has *)
(* damaged: a recorded migration whose feature is missing.                 *)
DatabaseInit ==
    /\ \E n \in 0..Len(Version) : recorded = {Version[i] : i \in 1..n}
    /\ schema \in SUBSET Feature
    /\ work = NoWork

(* CREATE ... IF NOT EXISTS, and ALTER TABLE behind a look at the columns.   *)
AddedBy(statement, s) ==
    IF statement.unless \in s THEN s ELSE s \cup statement.adds

OpenDatabase ==
    /\ work = NoWork
    /\ work' = [at |-> "base", next |-> 1, schema |-> schema,
                recorded |-> recorded]
    /\ UNCHANGED database

(* One statement of the base part.                                         *)
BaseStatement ==
    /\ work.at = "base"
    /\ work.next <= Len(Base)
    /\ LET s == AddedBy(Base[work.next], work.schema)
       IN /\ work' = [work EXCEPT !.next = @ + 1, !.schema = s]
          /\ schema' = IF work.next <= Autocommitted THEN s ELSE schema
    /\ UNCHANGED recorded

(* Its commit, and BEGIN IMMEDIATE of the versioned part.                   *)
CommitBase ==
    /\ work.at = "base"
    /\ work.next > Len(Base)
    /\ schema' = work.schema
    /\ work' = [work EXCEPT !.at = "versioned", !.next = 1]
    /\ UNCHANGED recorded

(* Mutant of Verified: a migration that is recorded is taken as done. *)
VerifiedByRecord(v) == TRUE

Verified(v) == v \in work.recorded => Needs[v] \subseteq work.schema

(* One migration: the features of a recorded one must be there, those of   *)
(* any other are added.                                                    *)
Migrate ==
    /\ work.at = "versioned"
    /\ work.next <= Len(Version)
    /\ LET v == Version[work.next]
       IN /\ Verified(v)
          /\ work' = [work EXCEPT !.next = @ + 1,
                                  !.schema = IF v \in work.recorded THEN @
                                             ELSE @ \cup Needs[v],
                                  !.recorded = @ \cup {v}]
    /\ UNCHANGED database

CommitMigrations ==
    /\ work.at = "versioned"
    /\ work.next > Len(Version)
    /\ schema' = work.schema
    /\ recorded' = work.recorded
    /\ work' = NoWork

(* A statement fails, a verification refuses, or the process ends: what is  *)
(* not committed is gone.                                                  *)
AbandonDatabase ==
    /\ work' = NoWork
    /\ UNCHANGED database

=============================================================================
