----------------------------- MODULE UserSettings -----------------------------
(***************************************************************************)
(* The settings of one user: one row, whose JSON also holds the end of the *)
(* pause of the user's subscriptions.  save_user_settings merges a patch    *)
(* into the row in one transaction; a change that depends on the value     *)
(* reads it in an earlier one, under the user's gate; a preset that is run *)
(* and the reset save without the gate.                                    *)
(***************************************************************************)
EXTENDS Naturals, FiniteSets

CONSTANTS
    Writer,             \* updates of the user in progress
    MaxPause            \* bound of the runs: pauses asked for

VARIABLES
    row,                \* the settings by key; the pause's key may be absent
    preset,             \* the settings a saved search was stored with
    pauses, passed,     \* pauses asked for so far, and those that are over
    change,             \* the steps of each update that takes two
    asked,              \* history: the settings as the user's commands say
    paused,             \* history: the pause the user asked for last, or 0
    overtaken           \* history: settings saved without the gate between
                        \* the look and the save of a change

settings == <<row, preset, pauses, passed, change>>
settingsVars == <<settings, asked, paused, overtaken>>

PauseKey == "subscription_pause_until"

\* Two of the settings; both have two values.
Field == {"show_tags", "interface_mode"}      \* USER_SETTING_FIELDS
Default == [f \in Field |-> 0]              \* DEFAULT_USER_SETTINGS

Steady == [step |-> "none", fields |-> {}, seen |-> Default]

SettingsInit ==
    /\ row = Default
    /\ preset = Default
    /\ pauses = 0
    /\ passed = {}
    /\ change = [w \in Writer |-> Steady]
    /\ asked = Default
    /\ paused = 0
    /\ overtaken = {}

Takes(w, step, fields, seen) ==
    change' = [change EXCEPT ![w] = [step |-> step, fields |-> fields, seen |-> seen]]

Settles(w) == change' = [change EXCEPT ![w] = Steady]

(***************************************************************************)
(* save_user_settings                                                      *)
(***************************************************************************)
\* Mutant of Supported: any key.
SupportedAny(patch) == TRUE

\* The whitelist: another key is a ValueError.
Supported(patch) == DOMAIN patch \subseteq Field

Merged(patch) == [k \in DOMAIN patch \cup DOMAIN row |->
    IF k \in DOMAIN patch THEN patch[k] ELSE row[k]]

Save(patch) == row' = IF Supported(patch) THEN Merged(patch) ELSE row

\* A save outside the gate, and the changes it overtakes.
SaveAtOnce(patch) ==
    LET pending == UNION {change[w].fields : w \in Writer}
        fields == Field \cap DOMAIN patch
    IN  /\ Save(patch)
        /\ IF Supported(patch)
           THEN /\ asked' = [f \in Field |-> IF f \in fields THEN patch[f]
                                             ELSE asked[f]]
                /\ overtaken' = (overtaken \ fields) \cup (fields \cap pending)
           ELSE UNCHANGED <<asked, overtaken>>

(***************************************************************************)
(* mutate_user_settings                                                    *)
(***************************************************************************)
Toggled(values, f) == 1 - values[f]

\* Under guarded_user_state one change of the user runs at a time.
Free == \A w \in Writer : change[w].step # "mutate"

LookForChange(w, fields) ==
    /\ change[w] = Steady
    /\ Free
    /\ Takes(w, "mutate", fields, row)
    /\ UNCHANGED <<row, preset, pauses, passed, asked, paused, overtaken>>

SaveChange(w) ==
    LET c == change[w]
    IN  /\ c.step = "mutate"
        /\ Save([f \in c.fields |-> Toggled(c.seen, f)])
        /\ asked' = [f \in Field |-> IF f \in c.fields THEN Toggled(asked, f)
                                     ELSE asked[f]]
        /\ Settles(w)
        /\ UNCHANGED <<preset, pauses, passed, paused, overtaken>>

(***************************************************************************)
(* Saved searches and the reset                                            *)
(***************************************************************************)
\* The name of a preset arrives: its settings are read, then stored, whole.
LookForPreset(w) ==
    /\ change[w] = Steady
    /\ Takes(w, "preset", {}, row)
    /\ UNCHANGED <<row, preset, pauses, passed, asked, paused, overtaken>>

CreateSearchPreset(w) ==
    /\ change[w].step = "preset"
    /\ preset' = change[w].seen
    /\ Settles(w)
    /\ UNCHANGED <<row, pauses, passed, asked, paused, overtaken>>

\* preset_run_: the settings of the preset, all of them.
RunPreset ==
    /\ SaveAtOnce(preset)
    /\ UNCHANGED <<preset, pauses, passed, change, paused>>

\* settings_reset_do
Reset ==
    /\ SaveAtOnce(Default)
    /\ UNCHANGED <<preset, pauses, passed, change, paused>>

(***************************************************************************)
(* The pause                                                               *)
(***************************************************************************)
PauseAll ==
    /\ pauses < MaxPause
    /\ pauses' = pauses + 1
    /\ row' = Merged([k \in {PauseKey} |-> pauses'])
    /\ paused' = pauses'
    /\ UNCHANGED <<preset, passed, change, asked, overtaken>>

Unpaused == [k \in DOMAIN row \ {PauseKey} |-> row[k]]

ResumeAll ==
    /\ row' = Unpaused
    /\ paused' = 0
    /\ UNCHANGED <<preset, pauses, passed, change, asked, overtaken>>

PauseEnds ==
    /\ \E p \in 1..pauses : passed' = passed \cup {p}
    /\ UNCHANGED <<row, preset, pauses, change, asked, paused, overtaken>>

\* The pause is asked for, before a delivery and for a new subscription.
GetActivePause ==
    /\ row' = IF PauseKey \in DOMAIN row /\ row[PauseKey] \in passed
              THEN Unpaused ELSE row
    /\ UNCHANGED <<preset, pauses, passed, change, asked, paused, overtaken>>

\* The update fails or the process goes down between its two transactions.
ChangeLost(w) ==
    /\ change[w] # Steady
    /\ Settles(w)
    /\ UNCHANGED <<row, preset, pauses, passed, asked, paused, overtaken>>

SettingsNext ==
    \/ \E w \in Writer :
          \/ \E fields \in SUBSET Field \ {{}} : LookForChange(w, fields)
          \/ SaveChange(w)
          \/ LookForPreset(w) \/ CreateSearchPreset(w)
          \/ ChangeLost(w)
    \/ RunPreset \/ Reset
    \/ PauseAll \/ ResumeAll \/ PauseEnds \/ GetActivePause

SettingsSpec == SettingsInit /\ [][SettingsNext]_settingsVars

(***************************************************************************)
(* Properties.                                                             *)
(***************************************************************************)
\* The pause in force is the one the user asked for last: no change, reset or
\* saved search takes it away or brings an earlier one back.
PauseAsAsked ==
    IF paused \notin passed \cup {0}
    THEN PauseKey \in DOMAIN row /\ row[PauseKey] = paused
    ELSE PauseKey \in DOMAIN row => row[PauseKey] \in passed

\* Every change counts, once, whatever other updates save meanwhile; only one
\* that a saved search or the reset overtakes is built on the older value.
SettingsKept ==
    /\ PauseAsAsked
    /\ \A f \in Field \ overtaken : row[f] = asked[f]

=============================================================================
