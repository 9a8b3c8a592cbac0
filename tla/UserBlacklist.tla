---------------------------- MODULE UserBlacklist ----------------------------
(***************************************************************************)
(* The blacklist of one user: a row for each tag, with where it came from. *)
(* A preset is applied tag by tag and marked afterwards; a temporary tag   *)
(* is looked up before it is written.  Every statement commits by itself.  *)
(***************************************************************************)
EXTENDS Naturals, FiniteSets

CONSTANTS
    Editor,                 \* updates of the user in progress
    Tag, PresetTags         \* BLACKLIST_PRESETS[preset], one preset

VARIABLES
    listed,                 \* the row of each tag, by its source
    timed, overdue,         \* rows with an expires_at, and those past it
    edit,                   \* the steps of each update that takes several
    manual,                 \* history: tags whose manual addition was confirmed
    caught                  \* history: of those, the ones that were added
                            \* while another update was about to write them

listVars == <<listed, timed, overdue>>
blacklistVars == <<listVars, edit, manual, caught>>

Sources == {"manual", "temporary", "preset", "import"}
Idle == [step |-> "none", tags |-> {}, added |-> {}]

ASSUME PresetAssumption == PresetTags \subseteq Tag

BlacklistInit ==
    /\ listed = [t \in Tag |-> "absent"]
    /\ timed = {}
    /\ overdue = {}
    /\ edit = [e \in Editor |-> Idle]
    /\ manual = {}
    /\ caught = {}

Absent(t) == listed[t] = "absent"

\* Updates that will write the row of a tag on the strength of what they saw.
Targets ==
    UNION {IF edit[e].step = "temporary" THEN edit[e].tags
           ELSE edit[e].added : e \in Editor}

\* add_to_blacklist, from a command, an input or a button: TRUE when the row
\* was not there, whatever its source.
AddTag(t) ==
    /\ listed' = IF Absent(t) THEN [listed EXCEPT ![t] = "manual"] ELSE listed
    /\ manual' = IF Absent(t) THEN manual \cup {t} ELSE manual
    /\ caught' = IF Absent(t) /\ t \in Targets THEN caught \cup {t} ELSE caught
    /\ UNCHANGED <<timed, overdue, edit>>

Forget(ts) ==
    /\ listed' = [t \in Tag |-> IF t \in ts THEN "absent" ELSE listed[t]]
    /\ timed' = timed \ ts
    /\ overdue' = overdue \ ts

\* remove_from_blacklist
RemoveTag(t) ==
    /\ Forget({t})
    /\ manual' = manual \ {t}
    /\ caught' = caught \ {t}
    /\ UNCHANGED edit

\* replace_user_blacklist, up to 500 tags in one transaction
Import(ts) ==
    /\ listed' = [t \in Tag |-> IF t \in ts THEN "import" ELSE "absent"]
    /\ timed' = {}
    /\ overdue' = {}
    /\ manual' = {}
    /\ caught' = {}
    /\ UNCHANGED edit

Expire ==
    /\ overdue' = timed
    /\ UNCHANGED <<listed, timed, edit, manual, caught>>

\* get_user_blacklist, for every search and every delivery: it purges first.
ReadBlacklist ==
    /\ Forget(overdue)
    /\ UNCHANGED <<edit, manual, caught>>

(***************************************************************************)
(* add_temporary_blacklist_tag                                             *)
(***************************************************************************)
MayBeTemporary(t) == listed[t] \in {"absent", "temporary"}

LookTemporary(e, t) ==
    /\ edit[e] = Idle
    /\ MayBeTemporary(t)
    /\ edit' = [edit EXCEPT ![e] = [Idle EXCEPT !.step = "temporary", !.tags = {t}]]
    /\ UNCHANGED <<listVars, manual, caught>>

WriteTemporary(e) ==
    /\ edit[e].step = "temporary"
    /\ listed' = [t \in Tag |-> IF t \in edit[e].tags THEN "temporary" ELSE listed[t]]
    /\ timed' = timed \cup edit[e].tags
    /\ overdue' = overdue \ edit[e].tags
    /\ edit' = [edit EXCEPT ![e] = Idle]
    /\ UNCHANGED <<manual, caught>>

(***************************************************************************)
(* apply_blacklist_preset and remove_blacklist_preset                      *)
(***************************************************************************)
ApplyPreset(e) ==
    /\ edit[e] = Idle
    /\ edit' = [edit EXCEPT ![e] = [Idle EXCEPT !.step = "preset",
                                                !.tags = PresetTags]]
    /\ UNCHANGED <<listVars, manual, caught>>

\* The next of its tags, in the order of a set.
AddPresetTag(e, t) ==
    /\ edit[e].step = "preset"
    /\ t \in edit[e].tags
    /\ listed' = IF Absent(t) THEN [listed EXCEPT ![t] = "manual"] ELSE listed
    /\ edit' = [edit EXCEPT ![e].tags = @ \ {t},
                            ![e].added = IF Absent(t) THEN @ \cup {t} ELSE @]
    /\ UNCHANGED <<timed, overdue, manual, caught>>

\* Mutant of Marked: all tags of the preset.
MarkedAll(e) == PresetTags

\* The rows the update turns into rows of the preset.
Marked(e) == edit[e].added

MarkPreset(e) ==
    /\ edit[e].step = "preset"
    /\ edit[e].tags = {}
    /\ listed' = [t \in Tag |-> IF t \in Marked(e) /\ ~Absent(t) THEN "preset"
                                ELSE listed[t]]
    /\ edit' = [edit EXCEPT ![e] = Idle]
    /\ UNCHANGED <<timed, overdue, manual, caught>>

RemovePreset ==
    /\ Forget({t \in Tag : listed[t] = "preset"})
    /\ UNCHANGED <<edit, manual, caught>>

\* The process goes down, or a statement fails: what is committed stays.
BlacklistCrash(e) ==
    /\ edit' = [edit EXCEPT ![e] = Idle]
    /\ UNCHANGED <<listVars, manual, caught>>

BlacklistNext ==
    \/ \E t \in Tag : AddTag(t) \/ RemoveTag(t)
    \/ \E ts \in SUBSET Tag : Import(ts)
    \/ Expire
    \/ ReadBlacklist
    \/ \E e \in Editor :
          \/ \E t \in Tag : LookTemporary(e, t) \/ AddPresetTag(e, t)
          \/ WriteTemporary(e)
          \/ ApplyPreset(e) \/ MarkPreset(e)
          \/ BlacklistCrash(e)
    \/ RemovePreset

BlacklistSpec == BlacklistInit /\ [][BlacklistNext]_blacklistVars

(***************************************************************************)
(* Properties.                                                             *)
(***************************************************************************)
\* A tag whose addition was confirmed to the user stays listed until the user
\* removes it or imports another list, whatever presets and temporary tags
\* come and go; only another update that was about to write the tag when the
\* user added it can take it along.
ManualTagStays == \A t \in manual \ caught : ~Absent(t)

=============================================================================
