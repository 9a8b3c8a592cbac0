---------------------------- MODULE MCUserSession ----------------------------
(***************************************************************************)
(* What one user's updates meet on, in one run: the operation gate, the    *)
(* session with its buttons, the favorites, the blacklist, the settings.   *)
(* The state of one of them changes, that of the others stays what it was. *)
(* The session has three scenes: its inputs alone, one button over three   *)
(* flows, three buttons over one.                                          *)
(***************************************************************************)
EXTENDS UserGate, UserSession, FavoriteLibrary, UserBlacklist,
    UserSettings, TLC

CONSTANTS t1, t2, t3, t4, e1, e2, e3, d1, d2, u1, u2, p1, p2, c1, c2

VARIABLE scene

MCOpened == {"waiting_builder_include", "waiting_preset_name"}
MCKeyboard == {<<"fav">>, <<"fav", "later">>}

SessionScenes == {"inputs", "flows", "buttons"}

\* bounds of the scenes of the session
SceneBound ==
    CASE scene = "inputs" -> buttons' = 0
      [] scene = "flows" -> buttons' <= 1
      [] scene = "buttons" -> counter' <= 1

MCSymmetry == Permutations(Handler) \cup Permutations(Update)

UserInit ==
    /\ scene \in SessionScenes \cup {"gate", "library", "blacklist", "settings"}
    /\ Init
    /\ SessionInit
    /\ LibraryInit
    /\ BlacklistInit
    /\ SettingsInit

UserNext ==
    /\ \/ /\ scene = "gate"
          /\ Next
          /\ UNCHANGED <<session, libraryVars, blacklistVars, settingsVars>>
       \/ /\ scene \in SessionScenes
          /\ SessionNext
          /\ SceneBound
          /\ UNCHANGED <<vars, libraryVars, blacklistVars, settingsVars>>
       \/ /\ scene = "library"
          /\ LibraryNext
          /\ UNCHANGED <<vars, session, blacklistVars, settingsVars>>
       \/ /\ scene = "blacklist"
          /\ BlacklistNext
          /\ UNCHANGED <<vars, session, libraryVars, settingsVars>>
       \/ /\ scene = "settings"
          /\ SettingsNext
          /\ UNCHANGED <<vars, session, libraryVars, blacklistVars>>
    /\ UNCHANGED scene

UserSpec ==
    UserInit
    /\ [][UserNext]_<<scene, vars, session, libraryVars, blacklistVars,
                      settingsVars>>

=============================================================================
