-------------------------- MODULE SubscriptionRows --------------------------
(***************************************************************************)
(* The `subscriptions` table and the statements app/storage/subscriptions  *)
(* runs on it.  Every operator below is one committed transaction; who     *)
(* runs it, and when, is left to the modules that extend this one.         *)
(*                                                                         *)
(* Time is relative.  The code stores absolute timestamps and only ever    *)
(* compares them with now, so a timestamp is kept here as the number of    *)
(* ticks left until it passes: 0 stands for "passed" and, for the claim,   *)
(* for NULL as well.                                                       *)
(***************************************************************************)
EXTENDS Integers, FiniteSets

CONSTANTS
    Users,
    Subs,           \* the (user_id, query) pairs that may have a row
    Owner,          \* [Subs -> Users], the user_id of a pair
    Token,          \* claim tokens, uuid4().hex in the code
    NoToken,        \* NULL
    Interval,       \* the intervals a user may choose, in ticks
    PauseLength,    \* the global pauses a user may choose, in ticks
    LeaseTicks,     \* SUBSCRIPTION_CLAIM_MINUTES
    MaxDelay,       \* the 3600 s clamp on a caller-supplied delay
    EmptyBackoff,   \* SUBSCRIPTION_EMPTY_BACKOFF_MINUTES, in ticks
    BackoffEntries, \* and its length
    TotalLimit,     \* SUBSCRIPTION_MAX_TOTAL
    ActiveLimit,    \* SUBSCRIPTION_MAX_ACTIVE
    Cooldown        \* SUBSCRIPTION_CREATE_COOLDOWN_SECONDS

ASSUME OwnerAssumption == Owner \in [Subs -> Users]
ASSUME TokenAssumption == NoToken \notin Token
ASSUME TimeAssumption ==
    /\ \A i \in Interval : i \in Nat \ {0}
    /\ \A n \in PauseLength : n \in Nat \ {0}
    /\ LeaseTicks \in Nat \ {0}
    /\ MaxDelay \in Nat \ {0}
    /\ Cooldown \in Nat
ASSUME BackoffAssumption ==
    /\ BackoffEntries \in Nat \ {0}
    /\ EmptyBackoff \in [1..BackoffEntries -> Nat \ {0}]
ASSUME LimitAssumption ==
    /\ TotalLimit \in Nat \ {0}
    /\ ActiveLimit \in 1..TotalLimit

VARIABLES
    sub,            \* the row of each pair
    pause,          \* subscription_pause_until of each user
    cooldown        \* subscription_creation_state of each user

rowVars == <<sub, pause, cooldown>>

Later(a, b) == IF a >= b THEN a ELSE b
Sooner(a, b) == IF a <= b THEN a ELSE b
OneTickLess(n) == IF n = 0 THEN 0 ELSE n - 1

Row == [present : BOOLEAN, active : BOOLEAN, due : Nat, lease : Nat,
        token : Token \cup {NoToken}, interval : Nat, empties : Nat,
        notified : BOOLEAN]

Absent == [present |-> FALSE, active |-> FALSE, due |-> 0, lease |-> 0,
           token |-> NoToken, interval |-> 0, empties |-> 0,
           notified |-> FALSE]

Blank(r) == ~r.active /\ r.due = 0 /\ r.lease = 0 /\ r.token = NoToken

RowsOf(u) == {s \in Subs : Owner[s] = u /\ sub[s].present}
ActiveRowsOf(u) == {s \in RowsOf(u) : sub[s].active}
Paused(u) == pause[u] > 0

\* processing_until = NULL, processing_token = NULL
Freed(r) == [r EXCEPT !.lease = 0, !.token = NoToken]

(***************************************************************************)
(* The predicates the WHERE clauses share.                                 *)
(***************************************************************************)
Owned(s, t) == sub[s].present /\ sub[s].token = t

Claimable(s) ==
    /\ sub[s].present /\ sub[s].active
    /\ sub[s].due = 0
    /\ sub[s].lease = 0
    /\ ~Paused(Owner[s])

\* is_subscription_claim_active, and the WHERE clause of the renewal
ClaimActive(s, t) ==
    /\ Owned(s, t)
    /\ sub[s].lease > 0
    /\ sub[s].active
    /\ ~Paused(Owner[s])

DueSubscriptions == {s \in Subs : Claimable(s)}

(***************************************************************************)
(* Statements of the delivery worker.                                      *)
(***************************************************************************)
ClaimDueSubscription(s, t) ==
    /\ Claimable(s)
    /\ sub' = [sub EXCEPT ![s].lease = LeaseTicks, ![s].token = t]
    /\ UNCHANGED <<pause, cooldown>>

\* Mutant of RenewSubscriptionClaim: an expired lease is revived.
RenewLapsed(s, t) ==
    /\ Owned(s, t) /\ sub[s].active /\ ~Paused(Owner[s])
    /\ sub' = [sub EXCEPT ![s].lease = LeaseTicks]
    /\ UNCHANGED <<pause, cooldown>>

RenewSubscriptionClaim(s, t) ==
    /\ ClaimActive(s, t)
    /\ sub' = [sub EXCEPT ![s].lease = LeaseTicks]
    /\ UNCHANGED <<pause, cooldown>>

\* update_subscription_time: the claim may have expired by now, it must not
\* have been replaced.
UpdateSubscriptionTime(s, t, delay) ==
    /\ Owned(s, t)
    /\ sub' = [sub EXCEPT ![s] =
                 [Freed(@) EXCEPT
                    !.due = Later(sub[s].interval, Sooner(delay, MaxDelay)),
                    !.empties = 0, !.notified = FALSE]]
    /\ UNCHANGED <<pause, cooldown>>

\* get_empty_backoff_minutes.  The stored counter only selects an entry of
\* the table, so it is kept no larger than the table.
NextEmpties(n) == Sooner(n + 1, BackoffEntries)
GetEmptyBackoff(empties, interval) == Later(interval, EmptyBackoff[empties])

\* The UPDATE of mark_subscription_empty.  `interval` and `n` are what its
\* SELECT read: the two statements are not in one transaction.
MarkSubscriptionEmpty(s, t, interval, n) ==
    /\ Owned(s, t)
    /\ sub' = [sub EXCEPT ![s] =
                 [Freed(@) EXCEPT
                    !.due = GetEmptyBackoff(NextEmpties(n), interval),
                    !.empties = NextEmpties(n), !.notified = TRUE]]
    /\ UNCHANGED <<pause, cooldown>>

DeferSubscription(s, t, delay) ==
    /\ Owned(s, t)
    /\ sub' = [sub EXCEPT ![s] =
                 [Freed(@) EXCEPT !.due = Later(1, Sooner(delay, MaxDelay))]]
    /\ UNCHANGED <<pause, cooldown>>

ReleaseSubscriptionClaim(s, t) ==
    /\ Owned(s, t)
    /\ sub' = [sub EXCEPT ![s] = Freed(@)]
    /\ UNCHANGED <<pause, cooldown>>

ReleaseStaleSubscriptionClaims ==
    /\ sub' = [s \in Subs |-> IF sub[s].lease = 0 THEN Freed(sub[s])
                                                  ELSE sub[s]]
    /\ UNCHANGED <<pause, cooldown>>

(***************************************************************************)
(* Statements of the user's commands.                                      *)
(***************************************************************************)
\* add_subscription on an active row only stores the interval.
ChangeIntervalByAdd(s, i) ==
    /\ sub[s].present /\ sub[s].active
    /\ sub' = [sub EXCEPT ![s].interval = i]
    /\ UNCHANGED <<pause, cooldown>>

\* add_subscription on an inactive row: the schedule and the claim stay.
ReactivateByAdd(s, i) ==
    /\ sub[s].present /\ ~sub[s].active
    /\ Cardinality(RowsOf(Owner[s])) <= TotalLimit
    /\ Cardinality(ActiveRowsOf(Owner[s])) < ActiveLimit
    /\ sub' = [sub EXCEPT ![s].interval = i, ![s].active = TRUE]
    /\ UNCHANGED <<pause, cooldown>>

\* add_subscription without a row: it is due at once, or when the pause ends.
CreateByAdd(s, i) ==
    /\ ~sub[s].present
    /\ Cardinality(RowsOf(Owner[s])) < TotalLimit
    /\ Cardinality(ActiveRowsOf(Owner[s])) < ActiveLimit
    /\ cooldown[Owner[s]] = 0
    /\ sub' = [sub EXCEPT ![s] = [Absent EXCEPT
                 !.present = TRUE, !.active = TRUE, !.interval = i,
                 !.due = pause[Owner[s]]]]
    /\ cooldown' = [cooldown EXCEPT ![Owner[s]] = Cooldown]
    /\ UNCHANGED pause

AddSubscription(s, i) ==
    ChangeIntervalByAdd(s, i) \/ ReactivateByAdd(s, i) \/ CreateByAdd(s, i)

RemoveSubscription(s) ==
    /\ sub[s].present
    /\ sub' = [sub EXCEPT ![s] = Absent]
    /\ UNCHANGED <<pause, cooldown>>

\* toggle_subscription, off: only the flag changes, a claim survives it.
Deactivate(s) ==
    /\ sub[s].present /\ sub[s].active
    /\ sub' = [sub EXCEPT ![s].active = FALSE]
    /\ UNCHANGED <<pause, cooldown>>

\* toggle_subscription, on: due at once.
Reactivate(s) ==
    /\ sub[s].present /\ ~sub[s].active
    /\ Cardinality(RowsOf(Owner[s])) <= TotalLimit
    /\ Cardinality(ActiveRowsOf(Owner[s])) < ActiveLimit
    /\ sub' = [sub EXCEPT ![s].active = TRUE, ![s].due = 0]
    /\ UNCHANGED <<pause, cooldown>>

UpdateSubscriptionInterval(s, i) ==
    /\ sub[s].present
    /\ sub' = [sub EXCEPT ![s] =
                 [Freed(@) EXCEPT !.interval = i, !.due = i,
                                  !.empties = 0, !.notified = FALSE]]
    /\ UNCHANGED <<pause, cooldown>>

PauseAllActive(u, n) ==
    /\ pause' = [pause EXCEPT ![u] = n]
    /\ sub' = [s \in Subs |->
                 IF s \in ActiveRowsOf(u)
                 THEN [Freed(sub[s]) EXCEPT !.due = Later(@, n)]
                 ELSE sub[s]]
    /\ UNCHANGED cooldown

ResumeAllActive(u) ==
    /\ pause' = [pause EXCEPT ![u] = 0]
    /\ sub' = [s \in Subs |->
                 IF s \in ActiveRowsOf(u)
                 THEN [Freed(sub[s]) EXCEPT !.due = 0]
                 ELSE sub[s]]
    /\ UNCHANGED cooldown

UserCommand ==
    \/ \E s \in Subs, i \in Interval :
         AddSubscription(s, i) \/ UpdateSubscriptionInterval(s, i)
    \/ \E s \in Subs : RemoveSubscription(s) \/ Deactivate(s) \/ Reactivate(s)
    \/ \E u \in Users : ResumeAllActive(u)
    \/ \E u \in Users, n \in PauseLength : PauseAllActive(u, n)

(***************************************************************************)
(* One tick of the clock.                                                  *)
(***************************************************************************)
Tick ==
    /\ sub' = [s \in Subs |-> [sub[s] EXCEPT !.due = OneTickLess(@),
                                             !.lease = OneTickLess(@)]]
    /\ pause' = [u \in Users |-> OneTickLess(pause[u])]
    /\ cooldown' = [u \in Users |-> OneTickLess(cooldown[u])]

(***************************************************************************)
(* Initial tables: nothing is stored.                                      *)
(***************************************************************************)
NoRows ==
    /\ sub = [s \in Subs |-> Absent]
    /\ pause = [u \in Users |-> 0]
    /\ cooldown = [u \in Users |-> 0]

RowsOK ==
    /\ sub \in [Subs -> Row]
    /\ \A s \in Subs : sub[s].present \/ Blank(sub[s])
    /\ pause \in [Users -> Nat]
    /\ cooldown \in [Users -> Nat]

=============================================================================
