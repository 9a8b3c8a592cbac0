----------------------------- MODULE UserSession -----------------------------
(***************************************************************************)
(* What the bot keeps of one user between updates: the input it waits for, *)
(* the values that input belongs to, the generation of the user's flow,    *)
(* and the one-shot buttons it has issued.  Every guarded section is a     *)
(* step (UserGate: it runs alone and awaits nothing); between them other   *)
(* updates of the user, background searches and the maintenance run.       *)
(***************************************************************************)
EXTENDS Integers, Sequences, FiniteSets, FiniteSetsExt

CONSTANTS
    Handler,            \* updates and background searches in progress
    Opened,             \* the inputs buttons open, a subset of Input
    Keyboard,           \* the keyboards messages carry: sequences of actions
    MaxPerUser,         \* ONE_SHOT_CALLBACK_MAX_PER_USER
    MaxGeneration, MaxButton    \* bounds of the runs

VARIABLES
    generation,         \* 0 when the oneShots knows none
    counter,            \* _generation_counter
    awaited,            \* user_states: the input, and the flow that set it
    related,            \* the flow that wrote each related mapping, or 0
    issued,             \* issued_one_shot_callbacks, by the order of issue
    buttons,            \* buttons issued so far: a nonce names each once
    aged,               \* buttons up to this one are past their time to live
    at, has,            \* where each handler is, and what it has read
    early,              \* history: running, but finished by a second press
    refused             \* history: pressed and told that it is stale

flow == <<generation, counter, awaited, related>>
oneShots == <<issued, buttons, aged>>
history == <<early, refused>>
session == <<flow, oneShots, at, has, history>>

ASSUME SessionAssumption ==
    /\ \A keys \in Keyboard : Len(keys) \in Nat
    /\ MaxPerUser \in Nat \ {0}
    /\ MaxGeneration \in Nat
    /\ MaxButton \in Nat

(***************************************************************************)
(* Inputs, the mapping whose value each takes along when it is claimed,    *)
(* and the one that its message sets.                                      *)
(***************************************************************************)
Mapping == {"search_builders", "pending_preset_queries",
            "pending_bulk_posts", "pending_subscription_options"}

Input == {"waiting_builder_include", "waiting_builder_exclude",
          "waiting_preset_name", "waiting_bulk_collection_name",
          "waiting_subscription_blacklist", "waiting_sub_new",
          "waiting_sub_interval", "waiting_gallery"}

Snapshot(input) ==
    CASE input = "waiting_builder_exclude" -> {"search_builders"}
      [] input = "waiting_preset_name" -> {"pending_preset_queries"}
      [] input = "waiting_bulk_collection_name" -> {"pending_bulk_posts"}
      [] input = "waiting_subscription_blacklist" -> {"pending_subscription_options"}
      [] OTHER -> {}

\* What a button that opens the input sets along with it.
OpenedWith(input) ==
    IF input = "waiting_builder_include" THEN {"search_builders"}
    ELSE Snapshot(input)

None == [input |-> "none", of |-> 0]
Unknown == [status |-> "unknown"]
Nothing == [button |-> 0, scoped |-> TRUE, generation |-> 0, input |-> "none"]

Inactive == {"idle", "searching"}       \* outside temporary_user_state.activity

SessionInit ==
    /\ generation = 0
    /\ counter = 0
    /\ awaited = None
    /\ related = [m \in Mapping |-> 0]
    /\ issued = [b \in 1..MaxButton |-> Unknown]
    /\ buttons = 0
    /\ aged = 0
    /\ at = [h \in Handler |-> "idle"]
    /\ has = [h \in Handler |-> Nothing]
    /\ early = {}
    /\ refused = {}

Goes(h, place, what) ==
    /\ at' = [at EXCEPT ![h] = place]
    /\ has' = [has EXCEPT ![h] = what]

Returns(h) == Goes(h, "idle", Nothing)

Leaves(h) == Goes(h, "leaving", [Nothing EXCEPT !.button = has[h].button])

(***************************************************************************)
(* Generations and pending input                                           *)
(***************************************************************************)
\* Mutant of NextGeneration: a counter of the user's own.
NextOfUser == generation + 1

\* begin_flow: the counter is shared by all users and never reset
NextGeneration == counter + 1

BeginFlow ==
    /\ counter < MaxGeneration
    /\ counter' = counter + 1
    /\ generation' = NextGeneration

\* begin_user_flow
OpenInput(input) ==
    /\ BeginFlow
    /\ awaited' = [input |-> input, of |-> NextGeneration]
    /\ related' = [m \in Mapping |->
           IF m \in OpenedWith(input) THEN NextGeneration ELSE related[m]]

\* invalidate_user: the pending input goes, and the buttons of other flows.
InvalidateFlow ==
    /\ BeginFlow
    /\ awaited' = None
    /\ related' = [m \in Mapping |-> 0]
    /\ issued' = [b \in DOMAIN issued |->
           IF issued[b].status \in {"issued", "reserved"} /\ issued[b].scoped
              /\ issued[b].generation # NextGeneration
           THEN [issued[b] EXCEPT !.status = "stale"] ELSE issued[b]]
    /\ UNCHANGED <<buttons, aged>>

\* The user sends a cancel.
CancelText(h) ==
    /\ at[h] = "idle"
    /\ InvalidateFlow
    /\ UNCHANGED <<at, has, history>>

\* A key of the persistent keyboard; one of them opens an input at once.
PersistentKey(h) ==
    /\ at[h] = "idle"
    /\ InvalidateFlow
    /\ \/ Returns(h)
       \/ Goes(h, "gallery_key", Nothing)
       \/ Goes(h, "searching", [Nothing EXCEPT !.generation = NextGeneration])
    /\ UNCHANGED history

\* ... without looking at the generation again.
OpenGallery(h) ==
    /\ at[h] = "gallery_key"
    /\ OpenInput("waiting_gallery")
    /\ Returns(h)
    /\ UNCHANGED <<oneShots, history>>

\* Any other text: claim_user_message_state.
Claim(h) ==
    LET input == awaited.input
    IN  /\ at[h] = "idle"
        /\ awaited' = None
        /\ related' = [m \in Mapping |->
               IF m \in Snapshot(input) THEN 0 ELSE related[m]]
        /\ IF input \in {"none", "waiting_gallery"}
           THEN Goes(h, "searching", [Nothing EXCEPT !.generation = generation])
           ELSE Goes(h, "claimed", [Nothing EXCEPT !.generation = generation,
                                                   !.input = input])
        /\ UNCHANGED <<generation, counter, oneShots, history>>

\* Mutant of Current: no look at the generation.
CurrentAlways(h) == generation >= 0

\* commit_flow_if_current, expected_generation
Current(h) == has[h].generation = generation

\* The claimed message goes on to the next input, or is refused by then.
Commit(h) ==
    LET input == has[h].input
        next == CASE input = "waiting_builder_include" -> "waiting_builder_exclude"
                  [] input = "waiting_sub_new" -> "waiting_sub_interval"
                  [] OTHER -> "none"
        wrote == CASE input = "waiting_builder_include" -> "search_builders"
                   [] input = "waiting_builder_exclude" -> "pending_preset_queries"
                   [] OTHER -> "none"
    IN  /\ at[h] = "claimed"
        /\ input \in {"waiting_builder_include", "waiting_builder_exclude",
                      "waiting_sub_new"}
        /\ awaited' = IF Current(h) /\ next # "none"
                      THEN [input |-> next, of |-> has[h].generation] ELSE awaited
        /\ related' = [m \in Mapping |->
               IF Current(h) /\ m = wrote THEN has[h].generation ELSE related[m]]
        /\ Returns(h)
        /\ UNCHANGED <<generation, counter, oneShots, history>>

\* The other inputs act on the database alone.
Execute(h) ==
    /\ at[h] = "claimed"
    /\ has[h].input \in {"waiting_preset_name", "waiting_bulk_collection_name",
                         "waiting_subscription_blacklist"}
    /\ Returns(h)
    /\ UNCHANGED <<flow, oneShots, history>>

\* The maintenance clears a user who is not active; the generation is 0 again.
CleanupExpired ==
    /\ \A h \in Handler : at[h] \in Inactive
    /\ generation' = 0
    /\ awaited' = None
    /\ related' = [m \in Mapping |-> 0]
    /\ UNCHANGED <<counter, oneShots, at, has, history>>

(***************************************************************************)
(* The registry of one-shot buttons                                        *)
(***************************************************************************)
Known(r) == {b \in DOMAIN r : r[b].status # "unknown"}

\* cleanup_one_shot_callbacks; its batches do not bound what one call finds
Cleaned == [b \in DOMAIN issued |->
    IF b <= aged /\ issued[b].status # "processing" THEN Unknown ELSE issued[b]]

Terminal(r) == {b \in Known(r) : r[b].status \in {"consumed", "stale"}}
Evictable(r) == {b \in Known(r) : r[b].status # "processing"}

\* _make_one_shot_capacity: the oldest terminal button goes, else the oldest.
Roomy(r) ==
    LET victim == Min(IF Terminal(r) # {} THEN Terminal(r) ELSE Evictable(r))
    IN  IF Cardinality(Known(r)) >= MaxPerUser
        THEN [r EXCEPT ![victim] = Unknown] ELSE r

\* register_one_shot_callback for each button of a keyboard, in one go.
Registered(keys, gen, scoped) ==
    LET put[i \in 0..Len(keys)] ==
            IF i = 0 THEN Cleaned
            ELSE [Roomy(put[i - 1]) EXCEPT ![buttons + i] =
                     [status |-> "issued", generation |-> gen,
                      scoped |-> scoped, action |-> keys[i]]]
    IN  put[Len(keys)]

\* The updates of a user that run at once never fill the registry.
Issue(keys, gen, scoped) ==
    /\ buttons + Len(keys) <= MaxButton
    /\ Len(keys) <= MaxPerUser - Cardinality({b \in Known(Cleaned) :
                                   issued[b].status = "processing"})
    /\ issued' = Registered(keys, gen, scoped)
    /\ buttons' = buttons + Len(keys)
    /\ UNCHANGED aged

\* A search delivers a post with its keyboard, or learns that its flow is over
\* (StaleCallbackIssuer), or finds nothing.
SearchEnds(h) ==
    /\ at[h] = "searching"
    /\ \/ Current(h) /\ \E keys \in Keyboard : Issue(keys, generation, TRUE)
       \/ UNCHANGED oneShots
    /\ Returns(h)
    /\ UNCHANGED <<flow, history>>

\* The preview of a new subscription carries the button that creates it.
Preview(h) ==
    /\ at[h] = "claimed"
    /\ has[h].input = "waiting_sub_interval"
    /\ \/ Current(h) /\ Issue(<<"sub_create">>, generation, TRUE)
       \/ UNCHANGED oneShots                        \* stale, or no interval
    /\ Returns(h)
    /\ UNCHANGED <<flow, history>>

\* A notification of a subscription: its buttons outlive the user's flows.
Notification ==
    /\ \E keys \in Keyboard : Issue(keys, generation, FALSE)
    /\ UNCHANGED <<flow, at, has, history>>

\* It was not sent: revoke_unsent_keyboard_callbacks.
NotificationUnsent(b) ==
    /\ issued[b].status = "issued"
    /\ ~issued[b].scoped
    /\ issued' = [issued EXCEPT ![b] = Unknown]
    /\ UNCHANGED <<flow, buttons, aged, at, has, history>>

\* Time passes.
Age ==
    /\ aged < buttons
    /\ aged' = buttons
    /\ UNCHANGED <<flow, issued, buttons, at, has, history>>

(***************************************************************************)
(* button_handler                                                          *)
(***************************************************************************)
\* A button is pressed: a one-shot one, or any other (0).
Press(h) ==
    /\ at[h] = "idle"
    /\ \/ \E b \in 1..buttons : Goes(h, "pressed", [Nothing EXCEPT !.button = b])
       \/ Goes(h, "processing", Nothing)
    /\ UNCHANGED <<flow, oneShots, history>>

CurrentButton(e) == e.scoped => e.generation = generation

Key(e) == <<e.generation, e.scoped, e.action>>

Twins(r, b) == {c \in Known(r) \ {b} : Key(r[c]) = Key(r[b])}

\* Mutant of Busy: a twin that is reserved does not count.
BusyProcessing(r, b) == \E c \in Twins(r, b) : r[c].status = "processing"

Busy(r, b) == \E c \in Twins(r, b) : r[c].status \in {"reserved", "processing"}

\* The outcomes of reserve_one_shot_callback_result for a button.
Outcome(r, b) ==
    IF r[b].status = "unknown" \/ ~CurrentButton(r[b]) THEN "stale"
    ELSE IF r[b].status # "issued"
    THEN IF r[b].status = "stale" THEN "stale" ELSE "duplicate"
    ELSE IF Busy(r, b) THEN "twin" ELSE "accepted"

Reserve(h) ==
    LET b == has[h].button
        r == Cleaned
        outcome == Outcome(r, b)
    IN  /\ at[h] = "pressed"
        /\ issued' = [c \in DOMAIN r |->
               IF c = b /\ outcome = "accepted" THEN [r[c] EXCEPT !.status = "reserved"]
               ELSE IF \/ c = b /\ outcome = "twin"
                       \/ /\ outcome = "accepted" /\ c \in Twins(r, b)
                          /\ r[c].status = "issued"
               THEN [r[c] EXCEPT !.status = "stale"]
               ELSE r[c]]
        /\ IF outcome = "accepted" THEN Goes(h, "reserved", has[h]) ELSE Leaves(h)
        /\ refused' = IF outcome = "stale" THEN refused \cup {b} ELSE refused
        /\ UNCHANGED <<flow, buttons, aged, early>>

\* begin_one_shot_processing
Begin(h) ==
    LET b == has[h].button
        begins == issued[b].status = "reserved" /\ CurrentButton(issued[b])
    IN  /\ at[h] = "reserved"
        /\ issued' = IF begins THEN [issued EXCEPT ![b].status = "processing"]
                     ELSE issued
        /\ IF begins THEN Goes(h, "processing", [has[h] EXCEPT !.scoped = issued[b].scoped])
           ELSE Leaves(h)
        /\ UNCHANGED <<flow, buttons, aged, history>>

\* The handler takes the generation it finds for its own, or begins one.
Adopt(h) ==
    /\ at[h] = "processing"
    /\ \/ generation # 0 /\ UNCHANGED <<generation, counter>>
       \/ generation = 0 /\ BeginFlow
    /\ Goes(h, "adopted", [has[h] EXCEPT !.generation = generation'])
    /\ UNCHANGED <<awaited, related, oneShots, history>>

\* The press has been answered: is the flow still the one?
Recheck(h) ==
    /\ at[h] = "adopted"
    /\ IF has[h].scoped /\ ~Current(h) THEN Leaves(h) ELSE Goes(h, "acting", has[h])
    /\ UNCHANGED <<flow, oneShots, history>>

\* The branches of the handler, by what they do to the session.
Act(h) ==
    /\ at[h] = "acting"
    /\ \/ UNCHANGED <<flow, oneShots>>              \* the database alone
       \/ /\ Current(h)
          /\ \E input \in Opened : OpenInput(input)
          /\ UNCHANGED oneShots
       \/ /\ Current(h)
          /\ \E keys \in Keyboard : Issue(keys, generation, TRUE)
          /\ UNCHANGED flow
    /\ Leaves(h)
    /\ UNCHANGED history

\* cancel_input, from a button that is not a one-shot one.
CancelInput(h) ==
    /\ at[h] = "acting"
    /\ has[h].button = 0
    /\ InvalidateFlow
    /\ Leaves(h)
    /\ UNCHANGED history

\* A search is scheduled; the button was not a one-shot one.
ActSearch(h) ==
    /\ at[h] = "acting"
    /\ has[h].button = 0
    /\ Goes(h, "searching", has[h])
    /\ UNCHANGED <<flow, oneShots, history>>

Inside == {"processing", "adopted", "acting"}
InBody(b) == {h \in Handler : b # 0 /\ has[h].button = b /\ at[h] \in Inside}

\* finalize_one_shot_handler, for every press, refused ones included.
Finish(h) ==
    LET b == has[h].button
        consumes == b # 0 /\ issued[b].status = "processing"
    IN  /\ at[h] = "leaving"
        /\ issued' = IF consumes THEN [issued EXCEPT ![b].status = "consumed"]
                     ELSE issued
        /\ early' = IF InBody(b) = {} THEN early \ {b}
                    ELSE IF consumes THEN early \cup {b} ELSE early
        /\ Returns(h)
        /\ UNCHANGED <<flow, buttons, aged, refused>>

SessionNext ==
    \/ \E h \in Handler :
          \/ CancelText(h) \/ PersistentKey(h) \/ OpenGallery(h)
          \/ Claim(h) \/ Commit(h) \/ Execute(h)
          \/ SearchEnds(h) \/ Preview(h)
          \/ Press(h) \/ Reserve(h) \/ Begin(h) \/ Adopt(h) \/ Recheck(h)
          \/ Act(h) \/ CancelInput(h) \/ ActSearch(h) \/ Finish(h)
    \/ Notification
    \/ \E b \in 1..MaxButton : NotificationUnsent(b)
    \/ Age
    \/ CleanupExpired

SessionSpec == SessionInit /\ [][SessionNext]_session

(***************************************************************************)
(* Properties.                                                             *)
(***************************************************************************)
\* The input the bot waits for, and the value a message will take along with
\* it, were set by the flow that is current: a message delayed between its
\* claim and its commit never mixes two flows.
PendingIsOneFlow ==
    awaited # None =>
        /\ awaited.of = generation
        /\ \A m \in Snapshot(awaited.input) : related[m] = generation

\* Of the buttons for one action in one flow a single press runs at a time,
\* unless a second press of that button, refused, has marked it consumed
\* while the first was still running.
TwinsExcused ==
    \A g, h \in Handler :
        /\ at[g] \in Inside /\ has[g].button \notin early \cup {0}
        /\ at[h] \in Inside /\ has[h].button \notin early \cup {0}
        /\ has[g].button # has[h].button
        => Key(issued[has[g].button]) # Key(issued[has[h].button])

\* Once the user was told that a button is stale it never begins to act,
\* however the generations go on; only a button issued before the user's first
\* flow does, when the maintenance has forgotten the flows in between.
StaleForGood ==
    [][\A h \in Handler :
           at[h] = "reserved" /\ at'[h] = "processing" /\ has[h].button \in refused
           => issued[has[h].button].generation = 0]_session

=============================================================================
