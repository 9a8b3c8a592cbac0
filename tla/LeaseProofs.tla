------------------------------ MODULE LeaseProofs ------------------------------
(***************************************************************************)
(* The two tables whose rows are leased, for any number of rows, workers   *)
(* and tokens.  Subscriptions: their claims are fenced leases, and what    *)
(* the limits, the schedule and a deletion promise.  Failed deliveries and *)
(* /retry_failed: a chain of attempts delivers once, the claims are fenced *)
(* leases, a failure goes only after its delivery, and a second copy of a  *)
(* post has its own reason.                                                *)
(***************************************************************************)
EXTENDS SubscriptionClaim, DeliveryFailures, FiniteSetTheorems, TLAPS

-----------------------------------------------------------------------------
(* Subscriptions.                                                          *)

(***************************************************************************)
(* Types.                                                                  *)
(***************************************************************************)
LEMMA OneRowType ==
    ASSUME RowsOK, NEW s \in Subs, NEW r \in Row, r.present,
           sub' = [sub EXCEPT ![s] = r], UNCHANGED <<pause, cooldown>>
    PROVE  RowsOK'
BY DEF RowsOK

LEMMA FreedType ==
    ASSUME NEW r \in Row
    PROVE  /\ Freed(r) \in Row
           /\ Freed(r).present = r.present
           /\ Freed(r).lease = 0 /\ Freed(r).token = NoToken
BY DEF Freed, Row

LEMMA AbsentType == Absent \in Row /\ Blank(Absent)
BY DEF Absent, Row, Blank

LEMMA FreedBlank ==
    ASSUME NEW r \in Row, Blank(r)
    PROVE  Blank(Freed(r))
BY DEF Blank, Freed, Row

LEMMA ClaimType ==
    ASSUME RowsOK, NEW s \in Subs, NEW t \in Token, ClaimDueSubscription(s, t)
    PROVE  RowsOK'
<1> DEFINE r == [sub[s] EXCEPT !.lease = LeaseTicks, !.token = t]
<1>1. r \in Row /\ r.present
  BY TimeAssumption DEF RowsOK, Row, ClaimDueSubscription, Claimable
<1>2. sub' = [sub EXCEPT ![s] = r] /\ UNCHANGED <<pause, cooldown>>
  BY DEF ClaimDueSubscription, RowsOK, Row
<1> HIDE DEF r
<1>3. QED
  BY <1>1, <1>2, OneRowType

LEMMA PresentType ==
    ASSUME RowsOK, NEW s \in Subs, NEW t, Present(s, t)
    PROVE  RowsOK'
<1>0. sub[s] \in Row /\ Freed(sub[s]) \in Row
  BY FreedType DEF RowsOK
<1>1. CASE RenewSubscriptionClaim(s, t)
  <2> DEFINE r == [sub[s] EXCEPT !.lease = LeaseTicks]
  <2>1. r \in Row /\ r.present
    BY <1>0, <1>1, TimeAssumption DEF Row, RenewSubscriptionClaim, ClaimActive, Owned
  <2>2. sub' = [sub EXCEPT ![s] = r] /\ UNCHANGED <<pause, cooldown>>
    BY <1>1 DEF RenewSubscriptionClaim
  <2> HIDE DEF r
  <2>3. QED
    BY <2>1, <2>2, OneRowType
<1>2. ASSUME NEW delay \in 0..MaxDelay, UpdateSubscriptionTime(s, t, delay)
      PROVE  RowsOK'
  <2> DEFINE r == [Freed(sub[s]) EXCEPT
                     !.due = Later(sub[s].interval, Sooner(delay, MaxDelay)),
                     !.empties = 0, !.notified = FALSE]
  <2>1. Later(sub[s].interval, Sooner(delay, MaxDelay)) \in Nat
    BY <1>0, TimeAssumption DEF Later, Sooner, Row
  <2>2. r \in Row /\ r.present
    BY <1>0, <1>2, <2>1, FreedType DEF Row, UpdateSubscriptionTime, Owned
  <2>3. sub' = [sub EXCEPT ![s] = r] /\ UNCHANGED <<pause, cooldown>>
    BY <1>2 DEF UpdateSubscriptionTime
  <2> HIDE DEF r
  <2>4. QED
    BY <2>2, <2>3, OneRowType
<1>3. ASSUME NEW delay \in 0..MaxDelay, DeferSubscription(s, t, delay)
      PROVE  RowsOK'
  <2> DEFINE r == [Freed(sub[s]) EXCEPT !.due = Later(1, Sooner(delay, MaxDelay))]
  <2>1. Later(1, Sooner(delay, MaxDelay)) \in Nat
    BY TimeAssumption DEF Later, Sooner
  <2>2. r \in Row /\ r.present
    BY <1>0, <1>3, <2>1, FreedType DEF Row, DeferSubscription, Owned
  <2>3. sub' = [sub EXCEPT ![s] = r] /\ UNCHANGED <<pause, cooldown>>
    BY <1>3 DEF DeferSubscription
  <2> HIDE DEF r
  <2>4. QED
    BY <2>2, <2>3, OneRowType
<1>4. ASSUME NEW i \in Interval, NEW n \in 0..BackoffEntries,
             MarkSubscriptionEmpty(s, t, i, n)
      PROVE  RowsOK'
  <2> DEFINE r == [Freed(sub[s]) EXCEPT
                     !.due = GetEmptyBackoff(NextEmpties(n), i),
                     !.empties = NextEmpties(n), !.notified = TRUE]
  <2>1. NextEmpties(n) \in 1..BackoffEntries /\ NextEmpties(n) \in Nat
    BY BackoffAssumption DEF NextEmpties, Sooner
  <2>2. GetEmptyBackoff(NextEmpties(n), i) \in Nat
    BY <2>1, BackoffAssumption, TimeAssumption DEF GetEmptyBackoff, Later
  <2>3. r \in Row /\ r.present
    BY <1>0, <1>4, <2>1, <2>2, FreedType DEF Row, MarkSubscriptionEmpty, Owned
  <2>4. sub' = [sub EXCEPT ![s] = r] /\ UNCHANGED <<pause, cooldown>>
    BY <1>4 DEF MarkSubscriptionEmpty
  <2> HIDE DEF r
  <2>5. QED
    BY <2>3, <2>4, OneRowType
<1>5. CASE ReleaseSubscriptionClaim(s, t)
  <2>1. Freed(sub[s]).present
    BY <1>0, <1>5, FreedType DEF ReleaseSubscriptionClaim, Owned
  <2>2. sub' = [sub EXCEPT ![s] = Freed(sub[s])] /\ UNCHANGED <<pause, cooldown>>
    BY <1>5 DEF ReleaseSubscriptionClaim
  <2>3. QED
    BY <1>0, <2>1, <2>2, OneRowType
<1>6. QED
  BY <1>1, <1>2, <1>3, <1>4, <1>5 DEF Present

LEMMA StaleType ==
    ASSUME RowsOK, ReleaseStaleSubscriptionClaims
    PROVE  RowsOK'
<1>1. ASSUME NEW s \in Subs
      PROVE  sub'[s] \in Row /\ (sub'[s].present \/ Blank(sub'[s]))
  <2>1. sub[s] \in Row /\ (sub[s].present \/ Blank(sub[s]))
    BY DEF RowsOK
  <2>2. CASE sub'[s] = sub[s]
    BY <2>1, <2>2
  <2>3. CASE sub'[s] = Freed(sub[s])
    <3>1. CASE sub[s].present
      BY <2>1, <2>3, <3>1, FreedType
    <3>2. CASE Blank(sub[s])
      BY <2>1, <2>3, <3>2, FreedBlank, FreedType
    <3>3. QED
      BY <2>1, <3>1, <3>2, <2>3, FreedType
  <2>4. QED
    BY <2>2, <2>3 DEF ReleaseStaleSubscriptionClaims
<1>2. QED
  BY <1>1 DEF RowsOK, ReleaseStaleSubscriptionClaims

LEMMA AddType ==
    ASSUME RowsOK, NEW s \in Subs, NEW i \in Interval, AddSubscription(s, i)
    PROVE  RowsOK'
<1>0. sub[s] \in Row /\ i \in Nat /\ Owner[s] \in Users
  BY OwnerAssumption, TimeAssumption DEF RowsOK
<1>1. CASE ChangeIntervalByAdd(s, i)
  <2> DEFINE r == [sub[s] EXCEPT !.interval = i]
  <2>1. r \in Row /\ r.present
    BY <1>0, <1>1 DEF Row, ChangeIntervalByAdd
  <2>2. sub' = [sub EXCEPT ![s] = r] /\ UNCHANGED <<pause, cooldown>>
    BY <1>1 DEF ChangeIntervalByAdd
  <2> HIDE DEF r
  <2>3. QED
    BY <2>1, <2>2, OneRowType
<1>2. CASE ReactivateByAdd(s, i)
  <2> DEFINE r == [sub[s] EXCEPT !.interval = i, !.active = TRUE]
  <2>1. r \in Row /\ r.present
    BY <1>0, <1>2 DEF Row, ReactivateByAdd
  <2>2. sub' = [sub EXCEPT ![s] = r] /\ UNCHANGED <<pause, cooldown>>
    BY <1>2 DEF ReactivateByAdd, RowsOK, Row
  <2> HIDE DEF r
  <2>3. QED
    BY <2>1, <2>2, OneRowType
<1>3. CASE CreateByAdd(s, i)
  <2> DEFINE r == [Absent EXCEPT !.present = TRUE, !.active = TRUE,
                                 !.interval = i, !.due = pause[Owner[s]]]
  <2>1. pause[Owner[s]] \in Nat
    BY <1>0 DEF RowsOK
  <2>2. r \in Row /\ r.present
    BY <1>0, <2>1 DEF Row, Absent
  <2>3. sub' = [sub EXCEPT ![s] = r] /\ pause' = pause
    BY <1>3 DEF CreateByAdd
  <2>4. cooldown' \in [Users -> Nat]
    BY <1>0, <1>3, TimeAssumption DEF CreateByAdd, RowsOK
  <2> HIDE DEF r
  <2>5. QED
    BY <2>2, <2>3, <2>4 DEF RowsOK
<1>4. QED
  BY <1>1, <1>2, <1>3 DEF AddSubscription

\* Pausing and resuming write the rows of one user's active subscriptions.
LEMMA ActiveRowsType ==
    ASSUME RowsOK, NEW u \in Users, NEW due \in [Subs -> Nat],
           sub' = [s \in Subs |->
                     IF s \in ActiveRowsOf(u)
                     THEN [Freed(sub[s]) EXCEPT !.due = due[s]]
                     ELSE sub[s]],
           pause' \in [Users -> Nat], cooldown' = cooldown
    PROVE  RowsOK'
<1>1. ASSUME NEW s \in Subs
      PROVE  sub'[s] \in Row /\ (sub'[s].present \/ Blank(sub'[s]))
  <2>1. sub[s] \in Row /\ (sub[s].present \/ Blank(sub[s])) /\ Freed(sub[s]) \in Row
    BY FreedType DEF RowsOK
  <2>2. CASE s \notin ActiveRowsOf(u)
    BY <2>1, <2>2
  <2>3. CASE s \in ActiveRowsOf(u)
    <3>1. sub[s].present /\ Freed(sub[s]).present
      BY <2>1, <2>3, FreedType DEF ActiveRowsOf, RowsOf
    <3>2. sub'[s] = [Freed(sub[s]) EXCEPT !.due = due[s]]
      BY <2>3
    <3>3. QED
      BY <2>1, <3>1, <3>2 DEF Row
  <2>4. QED
    BY <2>2, <2>3
<1>2. QED
  BY <1>1 DEF RowsOK

LEMMA UserCommandType ==
    ASSUME RowsOK, UserCommand
    PROVE  RowsOK'
<1>1. ASSUME NEW s \in Subs, NEW i \in Interval, AddSubscription(s, i)
      PROVE  RowsOK'
  BY <1>1, AddType
<1>2. ASSUME NEW s \in Subs, NEW i \in Interval, UpdateSubscriptionInterval(s, i)
      PROVE  RowsOK'
  <2> DEFINE r == [Freed(sub[s]) EXCEPT !.interval = i, !.due = i,
                                        !.empties = 0, !.notified = FALSE]
  <2>1. sub[s] \in Row /\ Freed(sub[s]) \in Row /\ i \in Nat
    BY FreedType, TimeAssumption DEF RowsOK
  <2>2. r \in Row /\ r.present
    BY <1>2, <2>1, FreedType DEF Row, UpdateSubscriptionInterval
  <2>3. sub' = [sub EXCEPT ![s] = r] /\ UNCHANGED <<pause, cooldown>>
    BY <1>2 DEF UpdateSubscriptionInterval
  <2> HIDE DEF r
  <2>4. QED
    BY <2>2, <2>3, OneRowType
<1>3. ASSUME NEW s \in Subs, RemoveSubscription(s)
      PROVE  RowsOK'
  BY <1>3, AbsentType DEF RemoveSubscription, RowsOK
<1>4. ASSUME NEW s \in Subs, Deactivate(s) \/ Reactivate(s)
      PROVE  RowsOK'
  <2>0. sub[s] \in Row
    BY DEF RowsOK
  <2>1. CASE Deactivate(s)
    <3> DEFINE r == [sub[s] EXCEPT !.active = FALSE]
    <3>1. r \in Row /\ r.present
      BY <2>0, <2>1 DEF Row, Deactivate
    <3>2. sub' = [sub EXCEPT ![s] = r] /\ UNCHANGED <<pause, cooldown>>
      BY <2>1 DEF Deactivate
    <3> HIDE DEF r
    <3>3. QED
      BY <3>1, <3>2, OneRowType
  <2>2. CASE Reactivate(s)
    <3> DEFINE r == [sub[s] EXCEPT !.active = TRUE, !.due = 0]
    <3>1. r \in Row /\ r.present
      BY <2>0, <2>2 DEF Row, Reactivate
    <3>2. sub' = [sub EXCEPT ![s] = r] /\ UNCHANGED <<pause, cooldown>>
      BY <2>2 DEF Reactivate, RowsOK, Row
    <3> HIDE DEF r
    <3>3. QED
      BY <3>1, <3>2, OneRowType
  <2>3. QED
    BY <1>4, <2>1, <2>2
<1>5. ASSUME NEW u \in Users, ResumeAllActive(u)
      PROVE  RowsOK'
  <2>1. pause' \in [Users -> Nat] /\ cooldown' = cooldown
    BY <1>5 DEF ResumeAllActive, RowsOK
  <2> DEFINE due == [s \in Subs |-> 0]
  <2>2. due \in [Subs -> Nat]
    OBVIOUS
  <2>3. sub' = [s \in Subs |-> IF s \in ActiveRowsOf(u)
                               THEN [Freed(sub[s]) EXCEPT !.due = due[s]]
                               ELSE sub[s]]
    BY <1>5 DEF ResumeAllActive
  <2> HIDE DEF due
  <2>4. QED
    BY <2>1, <2>2, <2>3, ActiveRowsType
<1>6. ASSUME NEW u \in Users, NEW n \in PauseLength, PauseAllActive(u, n)
      PROVE  RowsOK'
  <2>1. pause' \in [Users -> Nat] /\ cooldown' = cooldown
    BY <1>6, TimeAssumption DEF PauseAllActive, RowsOK
  <2>2. ASSUME NEW s \in Subs PROVE Later(Freed(sub[s]).due, n) \in Nat
    <3>1. Freed(sub[s]).due \in Nat
      BY FreedType DEF RowsOK, Row
    <3>2. QED
      BY <3>1, TimeAssumption DEF Later
  <2> DEFINE due == [s \in Subs |-> Later(Freed(sub[s]).due, n)]
  <2>3. due \in [Subs -> Nat]
    BY <2>2
  <2>4. sub' = [s \in Subs |-> IF s \in ActiveRowsOf(u)
                               THEN [Freed(sub[s]) EXCEPT !.due = due[s]]
                               ELSE sub[s]]
    BY <1>6 DEF PauseAllActive
  <2> HIDE DEF due
  <2>5. QED
    BY <2>1, <2>3, <2>4, ActiveRowsType
<1>7. QED
  BY <1>1, <1>2, <1>3, <1>4, <1>5, <1>6 DEF UserCommand

LEMMA TickType ==
    ASSUME RowsOK, Tick
    PROVE  RowsOK'
<1>1. ASSUME NEW s \in Subs
      PROVE  sub'[s] \in Row /\ (sub'[s].present \/ Blank(sub'[s]))
  <2>1. sub[s] \in Row /\ (sub[s].present \/ Blank(sub[s]))
    BY DEF RowsOK
  <2>2. sub'[s] = [sub[s] EXCEPT !.due = OneTickLess(@), !.lease = OneTickLess(@)]
    BY DEF Tick
  <2>3. /\ OneTickLess(sub[s].due) \in Nat
        /\ OneTickLess(sub[s].lease) \in Nat
    BY <2>1 DEF OneTickLess, Row
  <2>4. CASE sub[s].present
    BY <2>1, <2>2, <2>3, <2>4 DEF Row
  <2>5. CASE Blank(sub[s])
    BY <2>1, <2>2, <2>3, <2>5 DEF Row, Blank, OneTickLess
  <2>6. QED
    BY <2>1, <2>4, <2>5
<1>2. pause' \in [Users -> Nat] /\ cooldown' \in [Users -> Nat]
  <2>1. \A n \in Nat : OneTickLess(n) \in Nat
    BY DEF OneTickLess
  <2>2. QED
    BY <2>1 DEF Tick, RowsOK
<1>3. QED
  BY <1>1, <1>2 DEF RowsOK, Tick

LEMMA TypeStep ==
    ASSUME TypeOK, [Next]_vars
    PROVE  TypeOK'
<1>1. ASSUME NEW s \in Subs, NEW t \in Token, Claim(s, t)
      PROVE  TypeOK'
  BY <1>1, ClaimType DEF Claim, TypeOK
<1>2. ASSUME NEW s \in Subs, NEW t \in held, Present(s, t)
      PROVE  TypeOK'
  BY <1>2, PresentType DEF Present, TypeOK
<1>3. ASSUME NEW T \in SUBSET held, Forget(T)
      PROVE  TypeOK'
  BY <1>3 DEF Forget, rowVars, TypeOK, RowsOK
<1>4. CASE ReleaseStaleSubscriptionClaims /\ UNCHANGED held
  BY <1>4, StaleType DEF TypeOK
<1>5. CASE UserCommand /\ UNCHANGED held
  BY <1>5, UserCommandType DEF TypeOK
<1>6. CASE Tick /\ UNCHANGED held
  BY <1>6, TickType DEF TypeOK
<1>7. CASE UNCHANGED vars
  BY <1>7 DEF vars, TypeOK, RowsOK
<1>8. QED
  BY <1>1, <1>2, <1>3, <1>4, <1>5, <1>6, <1>7 DEF Next

\* The variables always have their types, and a row that is not there is
\* blank: no statement writes to a removed subscription.
THEOREM TypeCorrect == Spec => []TypeOK
<1>1. Init => TypeOK
  BY AbsentType DEF Init, NoRows, TypeOK, RowsOK
<1>2. TypeOK /\ [Next]_vars => TypeOK'
  BY TypeStep
<1>3. QED
  BY <1>1, <1>2, PTL DEF Spec

(***************************************************************************)
(* What a step does to the claims.  Every statement but the claim leaves   *)
(* each row's token as it is or clears it; with the token the lease goes.  *)
(***************************************************************************)
KeepsOrFrees(s) ==
    \/ sub'[s].token = sub[s].token
    \/ sub'[s].token = NoToken /\ sub'[s].lease = 0

\* The lease of a row is set to its full length, runs down or is cleared.
Extended(s) == sub'[s].lease > sub[s].lease

LEMMA PresentClaims ==
    ASSUME RowsOK, NEW s \in Subs, NEW t \in Token, Present(s, t)
    PROVE  /\ \A r \in Subs : KeepsOrFrees(r)
           /\ \A r \in Subs : Extended(r) => ClaimActive(r, t) /\ r = s
<1>0. /\ sub \in [Subs -> Row]
      /\ \A r \in Subs : sub[r] \in Row /\ Freed(sub[r]) \in Row
      /\ \A r \in Subs : Freed(sub[r]).token = NoToken /\ Freed(sub[r]).lease = 0
  BY FreedType DEF RowsOK
<1>1. CASE RenewSubscriptionClaim(s, t)
  BY <1>0, <1>1 DEF RenewSubscriptionClaim, ClaimActive, KeepsOrFrees, Extended, Row
<1>2. ASSUME NEW r \in Row, r.token = NoToken, r.lease = 0,
             sub' = [sub EXCEPT ![s] = r]
      PROVE  \A q \in Subs : KeepsOrFrees(q) /\ ~Extended(q)
  BY <1>0, <1>2 DEF KeepsOrFrees, Extended, Row
<1>3. ASSUME NEW delay \in 0..MaxDelay, UpdateSubscriptionTime(s, t, delay)
      PROVE  \A r \in Subs : KeepsOrFrees(r) /\ ~Extended(r)
  BY <1>0, <1>3 DEF UpdateSubscriptionTime, KeepsOrFrees, Extended, Row
<1>4. ASSUME NEW delay \in 0..MaxDelay, DeferSubscription(s, t, delay)
      PROVE  \A r \in Subs : KeepsOrFrees(r) /\ ~Extended(r)
  BY <1>0, <1>4 DEF DeferSubscription, KeepsOrFrees, Extended, Row
<1>5. ASSUME NEW i \in Interval, NEW n \in 0..BackoffEntries,
             MarkSubscriptionEmpty(s, t, i, n)
      PROVE  \A r \in Subs : KeepsOrFrees(r) /\ ~Extended(r)
  BY <1>0, <1>5 DEF MarkSubscriptionEmpty, KeepsOrFrees, Extended, Row
<1>6. CASE ReleaseSubscriptionClaim(s, t)
  BY <1>0, <1>2, <1>6 DEF ReleaseSubscriptionClaim
<1>7. QED
  BY <1>1, <1>3, <1>4, <1>5, <1>6 DEF Present

LEMMA CommandClaims ==
    ASSUME RowsOK, UserCommand
    PROVE  \A r \in Subs : KeepsOrFrees(r) /\ ~Extended(r)
<1>0. /\ sub \in [Subs -> Row]
      /\ \A r \in Subs : sub[r] \in Row /\ Freed(sub[r]) \in Row
      /\ \A r \in Subs : Freed(sub[r]).token = NoToken /\ Freed(sub[r]).lease = 0
  BY FreedType DEF RowsOK
<1>1. ASSUME NEW s \in Subs, NEW i \in Interval, AddSubscription(s, i)
      PROVE  \A r \in Subs : KeepsOrFrees(r) /\ ~Extended(r)
  <2>1. CASE ChangeIntervalByAdd(s, i)
    BY <1>0, <2>1 DEF ChangeIntervalByAdd, KeepsOrFrees, Extended, Row
  <2>2. CASE ReactivateByAdd(s, i)
    BY <1>0, <2>2 DEF ReactivateByAdd, KeepsOrFrees, Extended, Row
  <2>3. CASE CreateByAdd(s, i)
    <3>1. sub'[s].token = NoToken /\ sub'[s].lease = 0
      BY <1>0, <2>3 DEF CreateByAdd, Absent
    <3>2. \A r \in Subs : r # s => sub'[r] = sub[r]
      BY <1>0, <2>3 DEF CreateByAdd
    <3>3. QED
      BY <1>0, <3>1, <3>2 DEF KeepsOrFrees, Extended, Row
  <2>4. QED
    BY <1>1, <2>1, <2>2, <2>3 DEF AddSubscription
<1>2. ASSUME NEW s \in Subs, NEW i \in Interval, UpdateSubscriptionInterval(s, i)
      PROVE  \A r \in Subs : KeepsOrFrees(r) /\ ~Extended(r)
  BY <1>0, <1>2 DEF UpdateSubscriptionInterval, KeepsOrFrees, Extended, Row
<1>3. ASSUME NEW s \in Subs, RemoveSubscription(s)
      PROVE  \A r \in Subs : KeepsOrFrees(r) /\ ~Extended(r)
  BY <1>0, <1>3 DEF RemoveSubscription, Absent, KeepsOrFrees, Extended, Row
<1>4. ASSUME NEW s \in Subs, Deactivate(s) \/ Reactivate(s)
      PROVE  \A r \in Subs : KeepsOrFrees(r) /\ ~Extended(r)
  <2>1. CASE Deactivate(s)
    BY <1>0, <2>1 DEF Deactivate, KeepsOrFrees, Extended, Row
  <2>2. CASE Reactivate(s)
    BY <1>0, <2>2 DEF Reactivate, KeepsOrFrees, Extended, Row
  <2>3. QED
    BY <1>4, <2>1, <2>2
<1>5. ASSUME NEW u \in Users, ResumeAllActive(u)
      PROVE  \A r \in Subs : KeepsOrFrees(r) /\ ~Extended(r)
  BY <1>0, <1>5 DEF ResumeAllActive, KeepsOrFrees, Extended, Row
<1>6. ASSUME NEW u \in Users, NEW n \in PauseLength, PauseAllActive(u, n)
      PROVE  \A r \in Subs : KeepsOrFrees(r) /\ ~Extended(r)
  BY <1>0, <1>6 DEF PauseAllActive, KeepsOrFrees, Extended, Row
<1>7. QED
  BY <1>1, <1>2, <1>3, <1>4, <1>5, <1>6 DEF UserCommand

LEMMA StaleClaims ==
    ASSUME RowsOK, ReleaseStaleSubscriptionClaims
    PROVE  \A r \in Subs : KeepsOrFrees(r) /\ ~Extended(r)
<1>1. \A r \in Subs : /\ sub[r] \in Row
                      /\ Freed(sub[r]).token = NoToken
                      /\ Freed(sub[r]).lease = 0
  BY FreedType DEF RowsOK
<1>2. QED
  BY <1>1 DEF ReleaseStaleSubscriptionClaims, KeepsOrFrees, Extended, Row

LEMMA TickClaims ==
    ASSUME RowsOK, Tick
    PROVE  \A r \in Subs : /\ sub'[r].token = sub[r].token
                           /\ ~Extended(r)
                           /\ sub[r].lease = 0 => sub'[r].lease = 0
<1>1. ASSUME NEW r \in Subs
      PROVE  /\ sub'[r].token = sub[r].token
             /\ sub'[r].lease = OneTickLess(sub[r].lease)
             /\ sub[r].lease \in Nat
  <2>1. sub[r] \in Row
    BY DEF RowsOK
  <2>2. sub'[r] = [sub[r] EXCEPT !.due = OneTickLess(@), !.lease = OneTickLess(@)]
    BY DEF Tick
  <2>3. QED
    BY <2>1, <2>2 DEF Row
<1>2. QED
  BY <1>1 DEF Extended, OneTickLess

\* The claim writes one token, which no row has and no worker remembers.
LEMMA ClaimClaims ==
    ASSUME RowsOK, NEW s \in Subs, NEW t \in Token, Claim(s, t)
    PROVE  /\ Claimable(s) /\ Fresh(t)
           /\ sub'[s].token = t /\ sub'[s].lease = LeaseTicks
           /\ \A r \in Subs : r # s => sub'[r] = sub[r]
BY DEF Claim, ClaimDueSubscription, RowsOK, Row

(***************************************************************************)
(* Every step is a claim or a settling step.                               *)
(***************************************************************************)
Settling ==
    /\ held' \subseteq held
    /\ \A r \in Subs : KeepsOrFrees(r)
    /\ \A r \in Subs : Extended(r) =>
         /\ sub[r].lease > 0 /\ sub[r].token \in Token
         /\ ~Paused(Owner[r])

LEMMA StepKinds ==
    ASSUME TypeOK, [Next]_vars
    PROVE  Settling \/ \E s \in Subs, t \in Token : Claim(s, t)
<1>0. RowsOK /\ held \subseteq Token
  BY DEF TypeOK
<1>1. ASSUME NEW s \in Subs, NEW t \in held, Present(s, t)
      PROVE  Settling
  <2>1. \A r \in Subs : KeepsOrFrees(r) /\ (Extended(r) => ClaimActive(r, t))
    BY <1>0, <1>1, PresentClaims
  <2>2. held' \subseteq held
    BY <1>1 DEF Present
  <2>3. QED
    BY <1>0, <2>1, <2>2 DEF Settling, ClaimActive, Owned
<1>2. ASSUME NEW T \in SUBSET held, Forget(T)
      PROVE  Settling
  BY <1>0, <1>2 DEF Forget, rowVars, Settling, KeepsOrFrees, Extended, RowsOK, Row
<1>3. CASE ReleaseStaleSubscriptionClaims /\ UNCHANGED held
  BY <1>0, <1>3, StaleClaims DEF Settling
<1>4. CASE UserCommand /\ UNCHANGED held
  BY <1>0, <1>4, CommandClaims DEF Settling
<1>5. CASE Tick /\ UNCHANGED held
  BY <1>0, <1>5, TickClaims DEF Settling, KeepsOrFrees
<1>6. CASE UNCHANGED vars
  BY <1>0, <1>6 DEF vars, Settling, KeepsOrFrees, Extended, RowsOK, Row
<1>7. QED
  BY <1>1, <1>2, <1>3, <1>4, <1>5, <1>6 DEF Next

(***************************************************************************)
(* The claims are unique and every running lease has an owner.             *)
(***************************************************************************)
FencingInv == TypeOK /\ TokenUnique /\ LeaseHasOwner

LEMMA FencingStep ==
    ASSUME FencingInv, [Next]_vars
    PROVE  FencingInv'
<1>0. TypeOK /\ TypeOK' /\ TokenUnique /\ LeaseHasOwner
  BY TypeStep DEF FencingInv
<1>1. \A r \in Subs : /\ sub[r].lease \in Nat /\ sub'[r].lease \in Nat
                      /\ sub'[r].token \in Token \cup {NoToken}
  BY <1>0 DEF TypeOK, RowsOK, Row
<1>2. ASSUME NEW s \in Subs, NEW t \in Token, Claim(s, t)
      PROVE  TokenUnique' /\ LeaseHasOwner'
  <2>1. /\ Fresh(t)
        /\ sub'[s].token = t
        /\ \A r \in Subs : r # s => sub'[r] = sub[r]
    BY <1>0, <1>2, ClaimClaims DEF TypeOK
  <2>2. TokenUnique'
    BY <1>0, <2>1 DEF TokenUnique, Fresh
  <2>3. LeaseHasOwner'
    BY <1>0, <2>1 DEF LeaseHasOwner
  <2>4. QED
    BY <2>2, <2>3
<1>3. ASSUME Settling
      PROVE  TokenUnique' /\ LeaseHasOwner'
  <2>1. \A r \in Subs : sub'[r].token = sub[r].token \/ sub'[r].token = NoToken
    BY <1>3 DEF Settling, KeepsOrFrees
  <2>2. TokenUnique'
    BY <1>0, <2>1 DEF TokenUnique
  <2>3. ASSUME NEW r \in Subs, sub'[r].lease > 0 PROVE sub'[r].token \in Token
    <3>1. sub'[r].token = sub[r].token
      BY <1>1, <1>3, <2>3 DEF Settling, KeepsOrFrees
    <3>2. CASE Extended(r)
      BY <1>3, <3>1, <3>2 DEF Settling
    <3>3. CASE ~Extended(r)
      BY <1>0, <1>1, <2>3, <3>1, <3>3 DEF Extended, LeaseHasOwner
    <3>4. QED
      BY <3>2, <3>3
  <2>4. QED
    BY <2>2, <2>3 DEF LeaseHasOwner
<1>4. Settling \/ \E s \in Subs, t \in Token : Claim(s, t)
  BY <1>0, StepKinds
<1>5. TokenUnique' /\ LeaseHasOwner'
  BY <1>2, <1>3, <1>4
<1>6. QED
  BY <1>0, <1>5 DEF FencingInv

LEMMA FencingInvariant == Spec => []FencingInv
<1>1. Init => FencingInv
  <2>1. SUFFICES ASSUME Init PROVE FencingInv
    OBVIOUS
  <2>2. \A s \in Subs : sub[s].token = NoToken /\ sub[s].lease = 0
    BY <2>1 DEF Init, NoRows, Absent
  <2>3. TypeOK
    BY <2>1, AbsentType DEF Init, NoRows, TypeOK, RowsOK
  <2>4. QED
    BY <2>2, <2>3 DEF FencingInv, TokenUnique, LeaseHasOwner
<1>2. FencingInv /\ [Next]_vars => FencingInv'
  BY FencingStep
<1>3. QED
  BY <1>1, <1>2, PTL DEF Spec

\* A token is the claim of one row at most, whatever order claims, commands
\* and late statements of former holders come in.
THEOREM TokensAreUnique == Spec => []TokenUnique
<1>1. FencingInv => TokenUnique
  BY DEF FencingInv
<1>2. QED
  BY <1>1, FencingInvariant, PTL

\* No row is closed to the scheduler by a lease that nobody can release.
THEOREM LeasesHaveOwners == Spec => []LeaseHasOwner
<1>1. FencingInv => LeaseHasOwner
  BY DEF FencingInv
<1>2. QED
  BY <1>1, FencingInvariant, PTL

\* A remembered token that is not, or no longer, the claim of a row never
\* becomes its claim again.
THEOREM RetiredTokensStayRetired == Spec => RetiredTokenNeverReturns
<1>1. ASSUME TypeOK, [Next]_vars, NEW s \in Subs, NEW t \in held, sub[s].token # t
      PROVE  sub'[s].token # t
  <2>1. t \in Token /\ t # NoToken
    BY <1>1, TokenAssumption DEF TypeOK
  <2>2. CASE Settling
    BY <1>1, <2>1, <2>2 DEF Settling, KeepsOrFrees
  <2>3. ASSUME NEW q \in Subs, NEW k \in Token, Claim(q, k)
        PROVE  sub'[s].token # t
    <3>1. Fresh(k) /\ sub'[q].token = k /\ (s # q => sub'[s] = sub[s])
      BY <1>1, <2>3, ClaimClaims DEF TypeOK
    <3>2. QED
      BY <1>1, <3>1 DEF Fresh
  <2>4. QED
    BY <1>1, <2>2, <2>3, StepKinds
<1>2. TypeOK /\ [Next]_vars =>
        [\A s \in Subs, t \in held : sub[s].token # t => sub'[s].token # t]_vars
  BY <1>1
<1>3. QED
  BY <1>2, TypeCorrect, PTL DEF Spec, RetiredTokenNeverReturns

\* Nothing extends the lease of a paused user's row.
THEOREM PausesStopRenewal == Spec => PauseStopsRenewal
<1>1. ASSUME TypeOK, [Next]_vars, NEW s \in Subs, Paused(Owner[s])
      PROVE  sub'[s].lease <= sub[s].lease
  <2>1. sub[s].lease \in Nat /\ sub'[s].lease \in Nat
    BY <1>1, TypeStep DEF TypeOK, RowsOK, Row
  <2>2. CASE Settling
    BY <1>1, <2>1, <2>2 DEF Settling, Extended
  <2>3. ASSUME NEW q \in Subs, NEW k \in Token, Claim(q, k)
        PROVE  sub'[s].lease <= sub[s].lease
    <3>1. Claimable(q) /\ (s # q => sub'[s] = sub[s])
      BY <1>1, <2>3, ClaimClaims DEF TypeOK
    <3>2. s # q
      BY <1>1, <3>1 DEF Claimable
    <3>3. QED
      BY <2>1, <3>1, <3>2
  <2>4. QED
    BY <1>1, <2>2, <2>3, StepKinds
<1>2. TypeOK /\ [Next]_vars =>
        [\A s \in Subs : Paused(Owner[s]) => sub'[s].lease <= sub[s].lease]_vars
  BY <1>1
<1>3. QED
  BY <1>2, TypeCorrect, PTL DEF Spec, PauseStopsRenewal

(***************************************************************************)
(* The claims implement FencedLease.                                       *)
(***************************************************************************)
LEMMA LeaseInit == Init => Lease!Init
<1>1. SUFFICES ASSUME Init PROVE Lease!Init
  OBVIOUS
<1>2. \A s \in Subs : sub[s].token = NoToken /\ ~(sub[s].lease > 0)
  BY <1>1 DEF Init, NoRows, Absent
<1>3. [s \in Subs |-> sub[s].token] = [s \in Subs |-> NoToken]
  BY <1>2
<1>4. {s \in Subs : sub[s].lease > 0} = {}
  BY <1>2
<1>5. held = {}
  BY <1>1 DEF Init
<1>6. QED
  BY <1>3, <1>4, <1>5, Zenon DEF Lease!Init

LEMMA LeaseStep ==
    ASSUME FencingInv, [Next]_vars
    PROVE  [Lease!Next]_Lease!leaseVars
<1>0. /\ TypeOK /\ FencingInv' /\ held \subseteq Token
      /\ \A r \in Subs : sub[r].lease \in Nat /\ sub'[r].lease \in Nat
  BY FencingStep DEF FencingInv, TypeOK, RowsOK, Row
<1>1. ASSUME NEW s \in Subs, NEW t \in Token, Claim(s, t)
      PROVE  Lease!Next
  <2>1. /\ Claimable(s) /\ Fresh(t)
        /\ sub'[s].token = t /\ sub'[s].lease = LeaseTicks
        /\ \A r \in Subs : r # s => sub'[r] = sub[r]
        /\ held' \in {held \cup {t}, held}
    BY <1>0, <1>1, ClaimClaims DEF TypeOK, Claim
  <2>2. LeaseTicks > 0
    BY TimeAssumption
  <2>3. /\ ~(sub[s].lease > 0)
        /\ t \in Token \ held
        /\ \A q \in Subs : sub[q].token # t
    BY <2>1 DEF Claimable, Fresh
  <2>4. [r \in Subs |-> sub'[r].token]
          = [q \in Subs |-> IF q \in {s} THEN t ELSE [r \in Subs |-> sub[r].token][q]]
    BY <2>1
  <2>5. {r \in Subs : sub'[r].lease > 0}
          = {r \in Subs : sub[r].lease > 0} \cup {s}
    BY <2>1, <2>2
  <2>5a. {s} \cap {r \in Subs : sub[r].lease > 0} = {}
    BY <2>3
  <2>5b. \A q \in Subs : [r \in Subs |-> sub[r].token][q] # t
    BY <2>3
  <2>6. Lease!Grant({s}, t)
    BY <2>1, <2>3, <2>4, <2>5, <2>5a, <2>5b, Zenon DEF Lease!Grant
  <2>7. QED
    BY <2>6, {s} \in SUBSET Subs DEF Lease!Next
<1>2. CASE Settling
  <2>1. [r \in Subs |-> sub'[r].token] \in [Subs -> Token \cup {NoToken}]
    BY <1>0 DEF FencingInv, TypeOK, RowsOK, Row
  <2>2. ASSUME NEW r \in Subs
        PROVE  /\ sub'[r].token \in {sub[r].token, NoToken}
               /\ sub'[r].token = NoToken => ~(sub'[r].lease > 0)
    <3>1. sub'[r].token \in {sub[r].token, NoToken}
      BY <1>2 DEF Settling, KeepsOrFrees
    <3>2. sub'[r].lease > 0 => sub'[r].token \in Token
      BY <1>0 DEF FencingInv, LeaseHasOwner
    <3>3. QED
      BY <3>1, <3>2, TokenAssumption
  <2>3. ASSUME NEW r \in Subs, sub'[r].lease > 0
        PROVE  sub[r].lease > 0
    BY <1>0, <1>2, <2>3 DEF Settling, Extended
  <2>4. {r \in Subs : sub'[r].lease > 0} \subseteq {r \in Subs : sub[r].lease > 0}
    BY <2>3
  <2>5. held' \subseteq held
    BY <1>2 DEF Settling
  <2>6. \A r \in Subs :
          /\ [q \in Subs |-> sub'[q].token][r] \in {[q \in Subs |-> sub[q].token][r], NoToken}
          /\ [q \in Subs |-> sub'[q].token][r] = NoToken
                => r \notin {q \in Subs : sub'[q].lease > 0}
    BY <2>2
  <2>7. Lease!Settle
    BY <2>1, <2>4, <2>5, <2>6, Zenon DEF Lease!Settle
  <2>8. QED
    BY <2>7 DEF Lease!Next
<1>3. Settling \/ \E s \in Subs, t \in Token : Claim(s, t)
  BY <1>0, StepKinds
<1>4. QED
  BY <1>1, <1>2, <1>3

\* The claims of the subscriptions table are fenced leases.
THEOREM ClaimsAreFencedLeases == Spec => LeaseSpec
<1>1. FencingInv /\ [Next]_vars => [Lease!Next]_Lease!leaseVars
  BY LeaseStep
<1>2. QED
  BY <1>1, LeaseInit, FencingInvariant, PTL DEF Spec, LeaseSpec, Lease!Spec

-----------------------------------------------------------------------------
(* Chains.                                                                 *)

Ats == {"idle", "queued", "sending", "downloading", "rejected", "done"}
Vias == {"url", "upload", "text", "notice"}
Results == {"none", "sent", "undeliverable", "skipped", "refused", "ambiguous", "rejected"}

Link == [at : Ats, via : Vias, urls : Nat, source : Nat, attempt : Nat,
         copies : 0..1, result : Results]

\* A chain has delivered nothing before its end, and its answer tells whether
\* it has.
Honest(c) ==
    /\ c.at # "done" => c.copies = 0 /\ c.result = "none"
    /\ c.result = "sent" => c.copies = 1
    /\ c.result \notin {"sent", "ambiguous"} => c.copies = 0

ChainInv == chain \in [Senders -> {c \in Link : Honest(c)}]

LEMMA SetAt ==
    ASSUME NEW c \in Link, NEW a \in Ats
    PROVE  LET d == [c EXCEPT !.at = a]
           IN  d \in Link /\ d.at = a /\ d.copies = c.copies /\ d.result = c.result
BY DEF Link

LEMMA SetVia ==
    ASSUME NEW c \in Link, NEW v \in Vias
    PROVE  LET d == [c EXCEPT !.via = v]
           IN  d \in Link /\ d.at = c.at /\ d.copies = c.copies /\ d.result = c.result
BY DEF Link

LEMMA SetPlace ==
    ASSUME NEW c \in Link, NEW n \in Nat
    PROVE  \A d \in {[c EXCEPT !.urls = n], [c EXCEPT !.source = n], [c EXCEPT !.attempt = n]} :
               d \in Link /\ d.at = c.at /\ d.copies = c.copies /\ d.result = c.result
               /\ d.source \in Nat /\ d.attempt \in Nat
BY DEF Link

LEMMA SetCopies ==
    ASSUME NEW c \in Link, NEW n \in 0..1
    PROVE  LET d == [c EXCEPT !.copies = n]
           IN  d \in Link /\ d.at = c.at /\ d.copies = n /\ d.result = c.result
BY DEF Link

LEMMA SetResult ==
    ASSUME NEW c \in Link, NEW r \in Results
    PROVE  LET d == [c EXCEPT !.result = r]
           IN  d \in Link /\ d.at = c.at /\ d.copies = c.copies /\ d.result = r
BY DEF Link

\* The branches of TryNext, and the ends that tell of a delivery.
LEMMA Attempts ==
    ASSUME NEW c \in Link, c.at # "done", Honest(c)
    PROVE  /\ [c EXCEPT !.at = "queued", !.via = "url", !.attempt = @ + 1]
                   \in {d \in Link : Honest(d)}
           /\ [c EXCEPT !.at = "queued", !.via = "url", !.attempt = 1, !.source = @ + 1]
                   \in {d \in Link : Honest(d)}
           /\ [c EXCEPT !.at = "queued", !.via = "text"] \in {d \in Link : Honest(d)}
<1> DEFINE d1 == [c EXCEPT !.at = "queued"]
           d2 == [d1 EXCEPT !.via = "url"]
           d3 == [d2 EXCEPT !.attempt = c.attempt + 1]
           e3 == [d2 EXCEPT !.attempt = 1]
           e4 == [e3 EXCEPT !.source = c.source + 1]
           f2 == [d1 EXCEPT !.via = "text"]
           Pending(d) == d \in Link /\ d.copies = 0 /\ d.result = "none" /\ d.at # "done"
<1>0. c.attempt + 1 \in Nat /\ c.source + 1 \in Nat /\ 1 \in Nat
  BY DEF Link
<1>1. Pending(d1)
  BY SetAt DEF Honest, Ats
<1>2. Pending(d2) /\ Pending(f2)
  <2> HIDE DEF d1
  <2>1. QED
    BY <1>1, SetVia DEF Vias
<1>3. Pending(d3) /\ Pending(e3)
  <2> HIDE DEF d2
  <2>1. QED
    BY <1>0, <1>2, SetPlace
<1>4. Pending(e4)
  <2> HIDE DEF e3
  <2>1. QED
    BY <1>0, <1>3, SetPlace
<1>5. /\ d3 \in {d \in Link : Honest(d)} /\ e4 \in {d \in Link : Honest(d)}
      /\ f2 \in {d \in Link : Honest(d)}
  <2> HIDE DEF d3, e4, f2
  <2>1. QED
    BY <1>2, <1>3, <1>4 DEF Honest
<1>6. QED
  BY <1>5

LEMMA Finishes ==
    ASSUME NEW c \in Link, NEW k \in 0..1, NEW r \in {"sent", "ambiguous"},
           r = "sent" => k = 1
    PROVE  [c EXCEPT !.at = "done", !.copies = k, !.result = r] \in {d \in Link : Honest(d)}
<1> DEFINE d1 == [c EXCEPT !.at = "done"]
           d2 == [d1 EXCEPT !.copies = k]
           d3 == [d2 EXCEPT !.result = r]
<1>1. d1 \in Link /\ d1.at = "done"
  BY SetAt DEF Ats
<1>2. d2 \in Link /\ d2.copies = k /\ d2.at = "done"
  <2> HIDE DEF d1
  <2>1. QED
    BY <1>1, SetCopies
<1>3. d3 \in Link /\ d3.copies = k /\ d3.at = "done" /\ d3.result = r
  <2> HIDE DEF d2
  <2>1. r \in Results
    BY DEF Results
  <2>2. QED
    BY <1>2, <2>1, SetResult
<1>4. d3 \in {d \in Link : Honest(d)}
  <2> HIDE DEF d3
  <2>1. QED
    BY <1>3 DEF Honest
<1>5. QED
  BY <1>4

LEMMA Rests == Resting \in {c \in Link : Honest(c)} /\ Resting.copies = 0
BY DEF Resting, Link, Honest, Ats, Vias, Results

LEMMA OneMoves ==
    ASSUME ChainInv, NEW w \in Senders, NEW new, Moves(w, new),
           new \in {c \in Link : Honest(c)}
    PROVE  /\ ChainInv'
           /\ chain'[w] = new
           /\ \A v \in Senders : v # w => chain'[v] = chain[v]
BY DEF ChainInv, Moves

\* What an operation on one chain leaves alone.
OneStep(w) ==
    /\ ChainInv'
    /\ \A v \in Senders : v # w => chain'[v] = chain[v]

LEMMA ChainBegins ==
    ASSUME ChainInv, NEW w \in Senders, NEW urls \in Nat, Begin(w, urls)
    PROVE  OneStep(w) /\ chain'[w].copies = 0 /\ chain'[w].at = "queued"
<1> DEFINE new == [Resting EXCEPT !.at = "queued", !.urls = urls,
                                  !.via = IF urls = 0 THEN "notice" ELSE "url"]
<1>1. Moves(w, new)
  BY DEF Begin
<1> DEFINE d1 == [Resting EXCEPT !.at = "queued"]
           d2 == [d1 EXCEPT !.urls = urls]
           Pending(d) == d \in Link /\ d.copies = 0 /\ d.result = "none" /\ d.at = "queued"
<1>2. new \in {c \in Link : Honest(c)} /\ new.copies = 0 /\ new.at = "queued"
  <2>1. Resting \in Link /\ Resting.copies = 0 /\ Resting.result = "none"
    BY DEF Resting, Link, Ats, Vias, Results
  <2>2. Pending(d1)
    BY <2>1, SetAt DEF Ats
  <2>3. Pending(d2)
    <3> HIDE DEF d1
    <3>1. QED
      BY <2>2, SetPlace
  <2>4. new = [d2 EXCEPT !.via = IF urls = 0 THEN "notice" ELSE "url"]
    OBVIOUS
  <2>5. Pending(new)
    <3> HIDE DEF d2, new
    <3>1. QED
      BY <2>3, <2>4, SetVia DEF Vias
  <2>6. QED
    <3> HIDE DEF new
    <3>1. QED
      BY <2>5 DEF Honest
<1>4. QED
  BY <1>1, <1>2, OneMoves DEF OneStep

LEMMA ChainDispatched ==
    ASSUME ChainInv, NEW w \in Senders, NEW may \in BOOLEAN, Dispatch(w, may)
    PROVE  /\ OneStep(w) /\ chain'[w].copies = 0 /\ chain'[w].result # "sent"
           /\ chain'[w].at = "sending" => may
<1>1. chain[w] \in Link /\ Honest(chain[w]) /\ chain[w].at = "queued"
  BY DEF ChainInv, Dispatch
<1>2. CASE may /\ Moves(w, [chain[w] EXCEPT !.at = "sending"])
  <2>1. /\ [chain[w] EXCEPT !.at = "sending"] \in {c \in Link : Honest(c)}
        /\ [chain[w] EXCEPT !.at = "sending"].copies = 0
        /\ [chain[w] EXCEPT !.at = "sending"].result # "sent"
    BY <1>1 DEF Link, Honest, Ats, Vias, Results
  <2>2. QED
    BY <1>2, <2>1, OneMoves DEF OneStep
<1>3. CASE Ends(w, "skipped")
  <2> DEFINE new == [chain[w] EXCEPT !.at = "done", !.result = "skipped"]
  <2>1. /\ new \in {c \in Link : Honest(c)} /\ new.copies = 0
        /\ new.at = "done" /\ new.result = "skipped"
    BY <1>1 DEF Link, Honest, Ats, Vias, Results
  <2>2. QED
    BY <1>3, <2>1, OneMoves DEF OneStep, Ends
<1>4. QED
  BY <1>2, <1>3 DEF Dispatch

LEMMA ChainOutcome ==
    ASSUME ChainInv, NEW w \in Senders, Outcome(w)
    PROVE  OneStep(w)
<1> USE DEF OneStep
<1>1. chain[w] \in Link /\ Honest(chain[w])
  BY DEF ChainInv
<1>2. ASSUME chain[w].at # "done",
             NEW a \in {"queued", "rejected", "downloading"},
             Moves(w, [chain[w] EXCEPT !.at = a])
      PROVE  OneStep(w)
  <2>1. [chain[w] EXCEPT !.at = a] \in {c \in Link : Honest(c)}
    BY <1>1, <1>2 DEF Link, Honest, Ats, Vias, Results
  <2>2. QED
    BY <1>2, <2>1, OneMoves
<1>3. ASSUME chain[w].at # "done", NEW r \in {"refused", "rejected"}, Ends(w, r)
      PROVE  OneStep(w)
  <2>1. [chain[w] EXCEPT !.at = "done", !.result = r] \in {c \in Link : Honest(c)}
    BY <1>1, <1>3 DEF Link, Honest, Ats, Vias, Results
  <2>2. QED
    BY <1>3, <2>1, OneMoves DEF Ends
<1>3a. CASE Accept(w)
  <2> DEFINE new == [chain[w] EXCEPT
           !.at = "done",
           !.copies = IF chain[w].via = "notice" THEN @ ELSE @ + 1,
           !.result = IF chain[w].via = "notice" THEN "undeliverable" ELSE "sent"]
  <2>1. CASE chain[w].via = "notice"
    <3>1. new = [chain[w] EXCEPT !.at = "done", !.result = "undeliverable"]
      BY <1>1, <2>1 DEF Link
    <3>2. new \in {c \in Link : Honest(c)}
      BY <1>1, <1>3a, <3>1 DEF Link, Honest, Ats, Vias, Results, Accept
    <3>3. QED
      BY <1>3a, <3>2, OneMoves DEF Accept
  <2>2. CASE chain[w].via # "notice"
    <3>0. chain[w].copies + 1 = 1
      BY <1>1, <1>3a DEF Honest, Accept
    <3>1. new = [chain[w] EXCEPT !.at = "done", !.copies = 1, !.result = "sent"]
      BY <2>2, <3>0
    <3>2. new \in {c \in Link : Honest(c)}
      <4>1. [chain[w] EXCEPT !.at = "done", !.copies = 1, !.result = "sent"]
               \in {c \in Link : Honest(c)}
        <5>1. 1 \in 0..1 /\ "sent" \in {"sent", "ambiguous"}
          OBVIOUS
        <5>2. QED
          BY <1>1, <5>1, Finishes
      <4>2. QED
        BY <3>1, <4>1
    <3>3. QED
      BY <1>3a, <3>2, OneMoves DEF Accept
  <2>3. QED
    BY <2>1, <2>2
<1>4. CASE ToldToWait(w)
  BY <1>2, <1>3, <1>4 DEF ToldToWait
<1>5. CASE Interrupted(w)
  <2> DEFINE new(k) == [chain[w] EXCEPT !.at = "done", !.copies = @ + k,
                                        !.result = "ambiguous"]
  <2>1. \E k \in IF chain[w].via = "notice" THEN {0} ELSE 0..1 : Moves(w, new(k))
    BY <1>5 DEF Interrupted
  <2>2. \A k \in 0..1 : new(k) \in {c \in Link : Honest(c)}
    <3> TAKE k \in 0..1
    <3>1. chain[w].copies = 0
      BY <1>1, <1>5 DEF Honest, Interrupted
    <3>2. new(k) = [chain[w] EXCEPT !.at = "done", !.copies = k, !.result = "ambiguous"]
      <4>1. chain[w].copies + k = k
        BY <3>1
      <4>2. QED
        BY <4>1
    <3>3. [chain[w] EXCEPT !.at = "done", !.copies = k, !.result = "ambiguous"]
             \in {c \in Link : Honest(c)}
      BY <1>1, Finishes, "ambiguous" \in {"sent", "ambiguous"}, "ambiguous" # "sent"
    <3>4. QED
      BY <3>2, <3>3
  <2> HIDE DEF new
  <2>3. QED
    BY <2>1, <2>2, OneMoves
<1>6. CASE TryNext(w)
  <2> DEFINE c == chain[w]
             new == IF c.attempt < Tries
                    THEN [c EXCEPT !.at = "queued", !.via = "url", !.attempt = @ + 1]
                    ELSE IF c.source < c.urls
                    THEN [c EXCEPT !.at = "queued", !.via = "url", !.attempt = 1,
                                   !.source = @ + 1]
                    ELSE [c EXCEPT !.at = "queued", !.via = "text"]
  <2>1. new \in {d \in Link : Honest(d)}
    <3>1. c.at # "done"
      BY <1>6 DEF TryNext
    <3>2. QED
      BY <1>1, <3>1, Attempts
  <2>2. QED
    BY <1>6, <2>1, OneMoves DEF TryNext
<1>7. ASSUME NEW b \in BOOLEAN, Rejected(w, b)
      PROVE  OneStep(w)
  BY <1>2, <1>3, <1>7 DEF Rejected
<1>8. ASSUME NEW b \in BOOLEAN, Download(w, b)
      PROVE  OneStep(w)
  <2>1. CASE b
    <3>1. [chain[w] EXCEPT !.at = "queued", !.via = "upload"] \in {c \in Link : Honest(c)}
      BY <1>1, <1>8 DEF Link, Honest, Ats, Vias, Results, Download
    <3>2. QED
      BY <1>8, <2>1, <3>1, OneMoves DEF Download
  <2>2. CASE ~b
    BY <1>2, <1>8, <2>2 DEF Download
  <2>3. QED
    BY <2>1, <2>2
<1>9. QED
  BY <1>3a, <1>4, <1>5, <1>6, <1>7, <1>8 DEF Outcome

\* Only a request that is under way is answered, and its answer ends it.
LEMMA ChainAnswered ==
    ASSUME ChainInv, NEW w \in Senders, Outcome(w)
    PROVE  /\ chain[w].at # "done" /\ chain'[w].at # "sending"
           /\ chain[w].at # "sending" => chain'[w].at # "done"
<1>1. chain[w] \in Link
  BY DEF ChainInv
<1>2. ASSUME NEW new, Moves(w, new)
      PROVE  chain'[w] = new
  BY <1>2 DEF ChainInv, Moves
<1>3. CASE Accept(w) \/ Interrupted(w) \/ ToldToWait(w)
  BY <1>1, <1>2, <1>3 DEF Link, Accept, Interrupted, ToldToWait, Ends
<1>4. CASE TryNext(w)
  BY <1>1, <1>2, <1>4 DEF Link, TryNext
<1>5. CASE \E b \in BOOLEAN : Rejected(w, b) \/ Download(w, b)
  BY <1>1, <1>2, <1>5 DEF Link, Rejected, Download, Ends
<1>6. QED
  BY <1>3, <1>4, <1>5 DEF Outcome

-----------------------------------------------------------------------------
(* Claims and runs.                                                        *)

Run == [at : {"idle", "loop", "delivering"}, token : RetryToken \cup {NoRetryToken},
        todo : SUBSET Failures, post : SUBSET Failures]

\* A lease that runs has an owner.
ClaimInv ==
    /\ saved \subseteq Failures
    /\ claim_token \in [Failures -> RetryToken \cup {NoRetryToken}]
    /\ claim_left \in [Failures -> Nat]
    /\ \A f \in Failures : claim_left[f] > 0 => claim_token[f] # NoRetryToken

\* A run delivers one post at a time, and what it has delivered is known.
PostInv ==
    /\ run \in [Senders -> Run]
    /\ \A w \in Senders :
          /\ run[w].post # {} => run[w].at = "delivering"
          /\ \A f, g \in run[w].post : f = g
          /\ \A f \in run[w].post : chain[w].copies > 0 => f \in received

FailuresInv == ChainInv /\ ClaimInv /\ PostInv

Known == {run[w].token : w \in {v \in Senders : run[v].at # "idle"}}

\* What every step but a claim does to the leases, and every step to what has
\* been received and to the table.
Loosens ==
    /\ \A f \in Failures :
          /\ claim_token'[f] \in {claim_token[f], NoRetryToken}
          /\ claim_left'[f] > 0 => claim_left[f] > 0
    /\ Known' \subseteq Known

Keeps ==
    /\ received \subseteq received'
    /\ \A f \in saved : f \notin saved' => f \in received'

\* What a step promises.
Promised == FailuresInv' /\ Keeps /\ Loosens

LEMMA NoRunIsRun == NoRun \in Run /\ NoRun.post = {} /\ NoRun.at = "idle"
BY DEF NoRun, Run

LEMMA InitFailures == FailuresInit => FailuresInv
<1> SUFFICES ASSUME FailuresInit PROVE FailuresInv
  OBVIOUS
<1>1. ChainInv
  BY Rests DEF FailuresInit, ChainInit, ChainInv
<1>2. ClaimInv
  BY DEF FailuresInit, ClaimInv
<1>3. PostInv
  BY NoRunIsRun DEF FailuresInit, PostInv
<1>4. QED
  BY <1>1, <1>2, <1>3 DEF FailuresInv

\* A step of one run that leaves the table's leases alone.
LEMMA RunGoesOn ==
    ASSUME FailuresInv, NEW w \in Senders, NEW new \in Run,
           run' = [run EXCEPT ![w] = new],
           run[w].at # "idle", new.token = run[w].token,
           ChainInv', \A v \in Senders : v # w => chain'[v] = chain[v],
           new.post # {} => new.at = "delivering",
           \A f, g \in new.post : f = g,
           \A f \in new.post : chain'[w].copies > 0 => f \in received',
           received \subseteq received'
    PROVE  PostInv' /\ Known' \subseteq Known
<1>1. /\ run' \in [Senders -> Run] /\ run'[w] = new
      /\ \A v \in Senders : v # w => run'[v] = run[v]
  BY DEF FailuresInv, PostInv
<1>2. \A v \in Senders : run'[v].token = run[v].token /\ (run'[v].at # "idle" => run[v].at # "idle")
  BY <1>1
<1>3. Known' \subseteq Known
  BY <1>2 DEF Known
<1>4. PostInv'
  <2> SUFFICES ASSUME NEW v \in Senders
               PROVE  /\ run'[v].post # {} => run'[v].at = "delivering"
                      /\ \A f, g \in run'[v].post : f = g
                      /\ \A f \in run'[v].post : chain'[v].copies > 0 => f \in received'
    BY <1>1 DEF PostInv
  <2>1. CASE v = w
    BY <2>1, <1>1
  <2>2. CASE v # w
    BY <2>2, <1>1 DEF FailuresInv, PostInv
  <2>3. QED
    BY <2>1, <2>2
<1>5. QED
  BY <1>3, <1>4

LEMMA TakeStep ==
    ASSUME FailuresInv, NEW w \in Senders, NEW f \in Failures, TakeFailure(w, f)
    PROVE  Promised
<1>1. /\ run[w].at = "loop" /\ run[w] \in Run /\ run[w].post = {}
      /\ UNCHANGED <<tableVars, received>>
  BY DEF TakeFailure, FailuresInv, PostInv, pastVars
<1>2. ClaimInv' /\ Keeps
  BY <1>1 DEF FailuresInv, ClaimInv, Keeps, tableVars
<1>3. ChainInv' /\ PostInv' /\ Known' \subseteq Known
  <2>1. CASE /\ RunMoves(w, [run[w] EXCEPT !.todo = @ \ {f}])
             /\ UNCHANGED chain
    <3> DEFINE new == [run[w] EXCEPT !.todo = @ \ {f}]
    <3>1. new \in Run /\ new.token = run[w].token /\ new.post = {}
      BY <1>1 DEF Run
    <3>2. ChainInv'
      BY <2>1 DEF FailuresInv, ChainInv
    <3>3. run' = [run EXCEPT ![w] = new] /\ chain' = chain
      BY <2>1 DEF RunMoves
    <3> HIDE DEF new
    <3>4. /\ \A v \in Senders : v # w => chain'[v] = chain[v]
          /\ \A g, h \in new.post : g = h
          /\ \A g \in new.post : chain'[w].copies > 0 => g \in received'
      BY <3>1, <3>3
    <3>5. QED
      BY <1>1, <3>1, <3>2, <3>3, <3>4, RunGoesOn
  <2>2. CASE /\ RunMoves(w, [run[w] EXCEPT !.todo = @ \ {f}, !.post = {f}, !.at = "delivering"])
             /\ Begin(w, Urls[f])
    <3> DEFINE new == [run[w] EXCEPT !.todo = @ \ {f}, !.post = {f}, !.at = "delivering"]
    <3>1. new \in Run /\ new.token = run[w].token /\ new.post = {f} /\ new.at = "delivering"
      BY <1>1 DEF Run
    <3>2. Urls[f] \in Nat
      BY FailuresAssumption, MediaAssumption
    <3>3. OneStep(w) /\ chain'[w].copies = 0
      BY <2>2, <3>2, ChainBegins DEF FailuresInv
    <3>4. run' = [run EXCEPT ![w] = new]
      BY <2>2 DEF RunMoves
    <3> HIDE DEF new
    <3>5. /\ \A v \in Senders : v # w => chain'[v] = chain[v]
          /\ \A g, h \in new.post : g = h
          /\ \A g \in new.post : chain'[w].copies > 0 => g \in received'
          /\ received \subseteq received' /\ ChainInv'
      BY <1>1, <3>1, <3>3 DEF OneStep
    <3>6. QED
      BY <1>1, <3>1, <3>4, <3>5, RunGoesOn
  <2>3. QED
    BY <2>1, <2>2 DEF TakeFailure
<1>4. Loosens
  BY <1>1, <1>3 DEF Loosens, tableVars
<1>5. QED
  BY <1>2, <1>3, <1>4 DEF Promised, FailuresInv

LEMMA SendStep ==
    ASSUME FailuresInv, NEW w \in Senders, NEW f \in Failures, SendFailure(w, f)
    PROVE  Promised
<1> DEFINE may == allowed /\ Renewable(w, f)
<1>1. /\ Dispatch(w, may)
      /\ claim_left' = IF may THEN [claim_left EXCEPT ![f] = FailureLease] ELSE claim_left
      /\ saved' = saved /\ claim_token' = claim_token /\ run' = run /\ received' = received
  BY DEF SendFailure, pastVars
<1>2. OneStep(w) /\ chain'[w].copies = 0
  BY <1>1, ChainDispatched, may \in BOOLEAN DEF FailuresInv
<1>3. may => claim_left[f] > 0
  BY DEF Renewable, Running
<1>4. ClaimInv'
  BY <1>1, <1>3, FailuresAssumption DEF FailuresInv, ClaimInv
<1>5. PostInv'
  BY <1>1, <1>2 DEF FailuresInv, PostInv, OneStep
<1>6. \A g \in Failures : claim_left'[g] > 0 => claim_left[g] > 0
  BY <1>1, <1>3, FailuresAssumption DEF FailuresInv, ClaimInv
<1>7. Known' = Known
  BY <1>1 DEF Known
<1>8. QED
  BY <1>1, <1>2, <1>4, <1>5, <1>6, <1>7
  DEF Promised, FailuresInv, OneStep, Loosens, Keeps

LEMMA PostStep ==
    ASSUME FailuresInv, NEW w \in Senders, NEW f \in Failures, PostMoves(w, f)
    PROVE  Promised
<1>1. /\ f \in run[w].post /\ Outcome(w)
      /\ received' = IF chain'[w].copies - chain[w].copies > 0 THEN received \cup {f} ELSE received
      /\ UNCHANGED <<tableVars, run>>
  BY DEF PostMoves
<1>2. OneStep(w)
  BY <1>1, ChainOutcome DEF FailuresInv
<1>3. chain[w].copies \in 0..1 /\ chain'[w].copies \in 0..1
  BY <1>2 DEF OneStep, ChainInv, FailuresInv, Link
<1>4. \A g \in run[w].post : chain'[w].copies > 0 => g \in received'
  BY <1>1, <1>3 DEF FailuresInv, PostInv
<1>5. PostInv'
  <2>1. received \subseteq received' /\ run' = run
    BY <1>1
  <2>2. QED
    BY <1>2, <1>4, <2>1 DEF FailuresInv, PostInv, OneStep
<1>6. ClaimInv' /\ Keeps
  BY <1>1 DEF FailuresInv, ClaimInv, Keeps, tableVars
<1>7. Known' = Known
  BY <1>1 DEF Known
<1>8. QED
  BY <1>1, <1>2, <1>5, <1>6, <1>7
  DEF Promised, FailuresInv, OneStep, Loosens, tableVars

LEMMA ErasedClaim ==
    ASSUME ClaimInv, NEW f \in Failures, Erase(f)
    PROVE  /\ ClaimInv' /\ saved' = saved \ {f}
           /\ \A g \in Failures : /\ claim_token'[g] \in {claim_token[g], NoRetryToken}
                                  /\ claim_left'[g] > 0 => claim_left[g] > 0
BY DEF ClaimInv, Erase

LEMMA SettleStep ==
    ASSUME FailuresInv, NEW w \in Senders, NEW f \in Failures, SettleFailure(w, f)
    PROVE  Promised
<1> DEFINE new == [run[w] EXCEPT !.at = "loop", !.post = {}]
<1>1. /\ f \in run[w].post /\ run[w] \in Run /\ run[w].at = "delivering"
      /\ run' = [run EXCEPT ![w] = new]
      /\ Moves(w, Resting) /\ received' = received
  BY DEF SettleFailure, BackToLoop, RunMoves, FailuresInv, PostInv
<1>2. new \in Run /\ new.token = run[w].token /\ new.post = {}
  BY <1>1 DEF Run
<1>3. OneStep(w) /\ chain'[w].copies = 0
  BY <1>1, Rests, OneMoves DEF FailuresInv, OneStep
<1>4. PostInv' /\ Known' \subseteq Known
  <2> HIDE DEF new
  <2>1. QED
    BY <1>1, <1>2, <1>3, RunGoesOn DEF OneStep
<1>5. CASE Settles(w) /\ Erase(f)
  <2>1. f \in received
    <3>1. chain[w].copies = 1
      BY <1>5 DEF Settles, FailuresInv, ChainInv, Honest
    <3>2. QED
      BY <1>1, <3>1 DEF FailuresInv, PostInv
  <2>2. /\ ClaimInv' /\ saved' = saved \ {f}
        /\ \A g \in Failures : /\ claim_token'[g] \in {claim_token[g], NoRetryToken}
                               /\ claim_left'[g] > 0 => claim_left[g] > 0
    BY <1>5, ErasedClaim DEF FailuresInv
  <2>3. Keeps
    BY <1>1, <2>1, <2>2 DEF Keeps
  <2>4. Loosens
    BY <1>4, <2>2 DEF Loosens
  <2>5. QED
    BY <1>3, <1>4, <2>2, <2>3, <2>4 DEF Promised, FailuresInv, OneStep
<1>6. CASE saved' = saved /\ claim_token' = claim_token /\ claim_left' = claim_left
  <2>1. ClaimInv' /\ Keeps
    BY <1>1, <1>6 DEF FailuresInv, ClaimInv, Keeps
  <2>2. QED
    BY <1>3, <1>4, <1>6, <2>1 DEF Promised, FailuresInv, OneStep, Loosens
<1>7. QED
  BY <1>5, <1>6 DEF SettleFailure, tableVars

LEMMA GivenUp ==
    ASSUME FailuresInv, NEW W \in SUBSET Senders, NEW accepted, GiveUp(W, accepted)
    PROVE  ChainInv' /\ PostInv' /\ received \subseteq received' /\ Known' \subseteq Known
<1>1. /\ run' = [w \in Senders |-> IF w \in W THEN NoRun ELSE run[w]]
      /\ chain' = [w \in Senders |-> IF w \in W THEN Resting ELSE chain[w]]
      /\ received \subseteq received'
  BY DEF GiveUp
<1>2. ChainInv'
  BY <1>1, Rests DEF FailuresInv, ChainInv
<1>3. PostInv'
  BY <1>1, NoRunIsRun DEF FailuresInv, PostInv
<1>4. Known' \subseteq Known
  BY <1>1, NoRunIsRun DEF Known
<1>5. QED
  BY <1>1, <1>2, <1>3, <1>4

LEMMA EndStep ==
    ASSUME FailuresInv, NEW w \in Senders, EndRun(w)
    PROVE  Promised
<1>1. PICK accepted \in SUBSET (UnderWay \cap {w}) : GiveUp({w}, accepted)
  BY DEF EndRun
<1>2. ChainInv' /\ PostInv' /\ received \subseteq received' /\ Known' \subseteq Known
  BY <1>1, GivenUp
<1>3. /\ saved' = saved
      /\ \A f \in Failures :
            \/ claim_token'[f] = NoRetryToken /\ claim_left'[f] = 0
            \/ claim_token'[f] = claim_token[f] /\ claim_left'[f] = claim_left[f]
      /\ claim_token' \in [Failures -> RetryToken \cup {NoRetryToken}]
      /\ claim_left' \in [Failures -> Nat]
  BY DEF EndRun, Unclaim, FailuresInv, ClaimInv
<1>4. QED
  BY <1>2, <1>3 DEF Promised, FailuresInv, ClaimInv, Loosens, Keeps

LEMMA CrashStep ==
    ASSUME FailuresInv, RetryCrash
    PROVE  Promised
<1>1. PICK accepted \in SUBSET UnderWay : GiveUp(Senders, accepted)
  BY DEF RetryCrash
<1>2. ChainInv' /\ PostInv' /\ received \subseteq received' /\ Known' \subseteq Known
  BY <1>1, GivenUp
<1>3. QED
  BY <1>2 DEF RetryCrash, tableVars, Promised, FailuresInv, ClaimInv, Loosens, Keeps

LEMMA OtherStep ==
    ASSUME FailuresInv,
           \/ \E f \in Contested : SavedAgain(f) \/ DeliveredElsewhere(f) \/ ClearFailure(f)
           \/ RevokeAccess \/ LeaseTick
    PROVE  Promised
<1>1. chain' = chain /\ run' = run /\ received \subseteq received'
  BY DEF SavedAgain, DeliveredElsewhere, ClearFailure, RevokeAccess, LeaseTick,
         SaveFailure, pastVars
<1>2. ChainInv' /\ PostInv' /\ Known' = Known
  BY <1>1 DEF FailuresInv, ChainInv, PostInv, Known
<1>3. CASE \E f \in Contested : SavedAgain(f) \/ DeliveredElsewhere(f)
  <2>1. /\ saved \subseteq saved' /\ saved' \subseteq Failures
        /\ claim_token' = claim_token /\ claim_left' = claim_left
    BY <1>3, FailuresAssumption DEF SavedAgain, DeliveredElsewhere, SaveFailure,
       tableVars, FailuresInv, ClaimInv
  <2>2. QED
    BY <1>1, <1>2, <2>1 DEF Promised, FailuresInv, ClaimInv, Loosens, Keeps
<1>4. CASE \E f \in Contested : ClearFailure(f)
  <2>1. PICK f \in Contested : ClearFailure(f)
    BY <1>4
  <2>2. /\ ClaimInv' /\ saved' = saved \ {f}
        /\ \A g \in Failures : /\ claim_token'[g] \in {claim_token[g], NoRetryToken}
                               /\ claim_left'[g] > 0 => claim_left[g] > 0
    BY <2>1, ErasedClaim, FailuresAssumption DEF ClearFailure, FailuresInv
  <2>3. Keeps
    BY <1>1, <2>1, <2>2 DEF ClearFailure, Keeps
  <2>4. Loosens
    BY <1>2, <2>2 DEF Loosens
  <2>5. QED
    BY <1>2, <2>2, <2>3, <2>4 DEF Promised, FailuresInv
<1>5. CASE RevokeAccess
  BY <1>1, <1>2, <1>5 DEF RevokeAccess, tableVars,
     Promised, FailuresInv, ClaimInv, Loosens, Keeps
<1>6. CASE LeaseTick
  <2>1. /\ claim_left' \in [Failures -> Nat]
        /\ \A f \in Failures : claim_left'[f] > 0 => claim_left[f] > 0
    BY <1>6 DEF LeaseTick, FailuresInv, ClaimInv
  <2>2. QED
    BY <1>1, <1>2, <1>6, <2>1 DEF LeaseTick,
       Promised, FailuresInv, ClaimInv, Loosens, Keeps
<1>7. QED
  BY <1>3, <1>4, <1>5, <1>6

\* The claim of a run: a grant.
LEMMA ClaimStep ==
    ASSUME FailuresInv, NEW w \in Senders, NEW t \in RetryToken,
           NEW F \in SUBSET Failures, ClaimFailures(w, t, F)
    PROVE  FailuresInv' /\ Keeps /\ RetryLease!Grant(F, t)
<1> DEFINE new == [at |-> "loop", token |-> t, todo |-> F, post |-> {}]
<1>1. /\ run[w].at = "idle" /\ run' = [run EXCEPT ![w] = new]
      /\ claim_token' = [f \in Failures |-> IF f \in F THEN t ELSE claim_token[f]]
      /\ claim_left' = [f \in Failures |-> IF f \in F THEN FailureLease ELSE claim_left[f]]
      /\ chain' = chain /\ saved' = saved /\ received' = received
  BY DEF ClaimFailures, RunMoves, pastVars
<1>2. new \in Run /\ new.token = t /\ new.post = {} /\ new.at = "loop"
  BY DEF Run
<1>3. /\ run' \in [Senders -> Run] /\ run'[w] = new
      /\ \A v \in Senders : v # w => run'[v] = run[v]
  BY <1>1, <1>2 DEF FailuresInv, PostInv
<1> HIDE DEF new
<1>4. PostInv'
  <2> SUFFICES ASSUME NEW v \in Senders
               PROVE  /\ run'[v].post # {} => run'[v].at = "delivering"
                      /\ \A f, g \in run'[v].post : f = g
                      /\ \A f \in run'[v].post : chain'[v].copies > 0 => f \in received'
    BY <1>3 DEF PostInv
  <2>1. CASE v = w
    BY <2>1, <1>2, <1>3
  <2>2. CASE v # w
    BY <2>2, <1>1, <1>3 DEF FailuresInv, PostInv
  <2>3. QED
    BY <2>1, <2>2
<1>5. ClaimInv'
  BY <1>1, FailuresAssumption DEF FailuresInv, ClaimInv
<1>6. ChainInv' /\ Keeps
  BY <1>1 DEF FailuresInv, ChainInv, Keeps
<1>7. Known' = Known \cup {t}
  BY <1>1, <1>2, <1>3 DEF Known
<1>8. t \notin Known /\ \A f \in Failures : claim_token[f] # t
  BY DEF ClaimFailures, Unknown, Known
<1>9. F \cap {f \in Failures : claim_left[f] > 0} = {}
  BY DEF ClaimFailures, Retryable, FailuresInv, ClaimInv
<1>10. {f \in Failures : claim_left'[f] > 0} = {f \in Failures : claim_left[f] > 0} \cup F
  BY <1>1, FailuresAssumption
<1>11. RetryLease!Grant(F, t)
  BY <1>1, <1>7, <1>8, <1>9, <1>10, Zenon DEF RetryLease!Grant, Known
<1>12. QED
  BY <1>4, <1>5, <1>6, <1>11 DEF FailuresInv

\* Every other step settles.
LEMMA LoosensSettles ==
    ASSUME FailuresInv, FailuresInv', Loosens
    PROVE  RetryLease!Settle
<1>1. claim_token' \in [Failures -> RetryToken \cup {NoRetryToken}]
  BY DEF FailuresInv, ClaimInv
<1>2. \A f \in Failures :
         /\ claim_token'[f] \in {claim_token[f], NoRetryToken}
         /\ claim_token'[f] = NoRetryToken => f \notin {g \in Failures : claim_left'[g] > 0}
  BY DEF FailuresInv, ClaimInv, Loosens
<1>3. {f \in Failures : claim_left'[f] > 0} \subseteq {f \in Failures : claim_left[f] > 0}
  BY DEF Loosens
<1>4. QED
  BY <1>1, <1>2, <1>3, Zenon DEF RetryLease!Settle, Loosens, Known

LEMMA FailuresStep ==
    ASSUME FailuresInv, FailuresNext
    PROVE  FailuresInv' /\ Keeps /\ RetryLease!Next
<1>1. ASSUME NEW w \in Senders, NEW t \in RetryToken, NEW F \in SUBSET Failures,
             ClaimFailures(w, t, F)
      PROVE  FailuresInv' /\ Keeps /\ RetryLease!Next
  BY <1>1, ClaimStep DEF RetryLease!Next
<1>2. CASE Promised
  BY <1>2, LoosensSettles DEF Promised, RetryLease!Next
<1>3. ASSUME NEW w \in Senders, NEW f \in Failures,
             TakeFailure(w, f) \/ SendFailure(w, f) \/ PostMoves(w, f) \/ SettleFailure(w, f)
      PROVE  Promised
  BY <1>3, TakeStep, SendStep, PostStep, SettleStep
<1>4. ASSUME NEW w \in Senders, EndRun(w)
      PROVE  Promised
  BY <1>4, EndStep
<1>5. CASE \/ \E f \in Contested : SavedAgain(f) \/ DeliveredElsewhere(f) \/ ClearFailure(f)
           \/ RevokeAccess \/ LeaseTick
  BY <1>5, <1>2, OtherStep
<1>6. CASE RetryCrash
  BY <1>6, <1>2, CrashStep
<1>7. QED
  BY <1>1, <1>2, <1>3, <1>4, <1>5, <1>6 DEF FailuresNext

LEMMA FailuresStutter ==
    ASSUME FailuresInv, UNCHANGED failureVars
    PROVE  FailuresInv' /\ UNCHANGED RetryLease!leaseVars
<1>1. /\ chain' = chain /\ saved' = saved /\ claim_token' = claim_token
      /\ claim_left' = claim_left /\ run' = run /\ received' = received
  BY DEF failureVars, tableVars, pastVars
<1>2. FailuresInv'
  BY <1>1 DEF FailuresInv, ChainInv, ClaimInv, PostInv
<1>3. UNCHANGED RetryLease!leaseVars
  BY <1>1 DEF RetryLease!leaseVars
<1>4. QED
  BY <1>2, <1>3

LEMMA InitLeases == FailuresInit => RetryLease!Init
<1> SUFFICES ASSUME FailuresInit PROVE RetryLease!Init
  OBVIOUS
<1>1. /\ claim_token = [f \in Failures |-> NoRetryToken]
      /\ {f \in Failures : claim_left[f] > 0} = {}
  BY DEF FailuresInit
<1>2. Known = {}
  BY NoRunIsRun DEF FailuresInit, Known
<1>3. QED
  BY <1>1, <1>2, Zenon DEF RetryLease!Init, Known

THEOREM FailuresSafe == FailuresSpec => []FailuresInv
<1>1. FailuresInv /\ [FailuresNext]_failureVars => FailuresInv'
  BY FailuresStep, FailuresStutter
<1>2. QED
  BY <1>1, InitFailures, PTL DEF FailuresSpec

-----------------------------------------------------------------------------
(* Copies.  A post that was sent while the lease ran, or by a run that is  *)
(* known to have been late, is the one copy or has its reason; a stray is  *)
(* sent for a failure that was deleted under it, and was paid for when the *)
(* failure was saved anew.                                                 *)

Covered(f) ==
    {w \in SendersOf(f) : /\ chain[w].result = "sent"
                          /\ w \in late \/ Running(f, run[w].token)}

Strays(f) ==
    {w \in SendersOf(f) : /\ chain[w].at = "sending"
                          /\ w \notin late /\ ~Running(f, run[w].token)}

Budget(f) ==
    copies[f] + Cardinality(Strays(f))
        <= (IF f \in saved THEN 0 ELSE 1) + unacknowledged[f] + Cardinality(Covered(f))

Tallies ==
    /\ copies \in [Failures -> Nat]
    /\ unacknowledged \in [Failures -> Nat]

\* No two runs share a token.
TokensDiffer ==
    /\ \A w \in Senders : run[w].at # "idle" => run[w].token # NoRetryToken
    /\ \A v, w \in Senders : v # w /\ run[v].at # "idle" /\ run[w].at # "idle"
                                => run[v].token # run[w].token

CopiesInv ==
    /\ Tallies
    /\ TokensDiffer
    /\ \A f \in Failures : Budget(f)

\* What every step but a claim does to the runs.
Loyal ==
    \A w \in Senders : run'[w].at # "idle" =>
                           run[w].at # "idle" /\ run'[w].token = run[w].token

LEMMA LoyalTokens ==
    ASSUME TokensDiffer, Loyal
    PROVE  TokensDiffer'
BY DEF TokensDiffer, Loyal

LEMMA Sizes ==
    ASSUME NEW A \in SUBSET Senders
    PROVE  IsFiniteSet(A) /\ Cardinality(A) \in Nat
BY FailuresAssumption, FS_Subset, FS_CardinalityType

LEMMA Fewer ==
    ASSUME NEW A \in SUBSET Senders, NEW B \in SUBSET A
    PROVE  Cardinality(B) <= Cardinality(A)
BY Sizes, FS_Subset

LEMMA OneFewer ==
    ASSUME NEW A \in SUBSET Senders, NEW B \in SUBSET Senders, NEW w, A \subseteq B \cup {w}
    PROVE  Cardinality(A) <= Cardinality(B) + 1
<1>1. IsFiniteSet(A) /\ IsFiniteSet(B) /\ Cardinality(A) \in Nat /\ Cardinality(B) \in Nat
  BY Sizes
<1>2. /\ IsFiniteSet(B \cup {w})
      /\ Cardinality(B \cup {w}) <= Cardinality(B) + 1
  BY <1>1, FS_AddElement
<1>3. Cardinality(A) <= Cardinality(B \cup {w})
  BY <1>2, FS_Subset
<1>4. Cardinality(B \cup {w}) \in Nat
  BY <1>2, FS_CardinalityType
<1>5. QED
  BY <1>1, <1>2, <1>3, <1>4

LEMMA OneMore ==
    ASSUME NEW A \in SUBSET Senders, NEW B \in SUBSET Senders, NEW w \in A,
           B \subseteq A \ {w}
    PROVE  Cardinality(B) + 1 <= Cardinality(A)
<1>1. IsFiniteSet(A) /\ Cardinality(A) \in Nat /\ Cardinality(B) \in Nat
  BY Sizes
<1>2. IsFiniteSet(A \ {w}) /\ Cardinality(A \ {w}) = Cardinality(A) - 1
  BY <1>1, FS_RemoveElement
<1>3. Cardinality(B) <= Cardinality(A \ {w})
  BY <1>2, FS_Subset
<1>4. QED
  BY <1>1, <1>2, <1>3

LEMMA SetsOfSenders ==
    \A f : Covered(f) \in SUBSET Senders /\ Strays(f) \in SUBSET Senders
           /\ SendersOf(f) \in SUBSET Senders
BY DEF Covered, Strays, SendersOf

\* Steps that neither deliver f nor forgive a copy.
LEMMA BudgetKept ==
    ASSUME Tallies, NEW f \in Failures, Budget(f),
           copies'[f] = copies[f], unacknowledged'[f] = unacknowledged[f],
           f \in saved' <=> f \in saved,
           Strays(f)' \subseteq Strays(f), Covered(f) \subseteq Covered(f)'
    PROVE  Budget(f)'
<1>1. /\ Strays(f) \in SUBSET Senders /\ Covered(f) \in SUBSET Senders
      /\ Strays(f)' \in SUBSET Senders /\ Covered(f)' \in SUBSET Senders
  BY SetsOfSenders DEF Covered, Strays, SendersOf
<1>2. /\ Cardinality(Strays(f)') <= Cardinality(Strays(f))
      /\ Cardinality(Covered(f)) <= Cardinality(Covered(f)')
  BY <1>1, Fewer
<1>3. /\ Cardinality(Strays(f)) \in Nat /\ Cardinality(Covered(f)) \in Nat
      /\ Cardinality(Strays(f)') \in Nat /\ Cardinality(Covered(f)') \in Nat
  BY <1>1, Sizes
<1>4. copies[f] \in Nat /\ unacknowledged[f] \in Nat
  BY DEF Tallies
<1>5. QED
  BY <1>2, <1>3, <1>4 DEF Budget

\* Who sends is in a run, for one post.
LEMMA SendersRun ==
    ASSUME FailuresInv, NEW f \in Failures, NEW w \in SendersOf(f)
    PROVE  /\ w \in Senders /\ run[w] \in Run /\ run[w].at = "delivering"
           /\ \A g \in run[w].post : g = f
BY DEF FailuresInv, PostInv, SendersOf

LEMMA QuietBudget ==
    ASSUME Tallies, \A f \in Failures : Budget(f),
           UNCHANGED <<saved, copies, unacknowledged>>,
           \A f \in Failures : Strays(f)' \subseteq Strays(f) /\ Covered(f) \subseteq Covered(f)'
    PROVE  Tallies' /\ \A f \in Failures : Budget(f)'
<1>1. Tallies'
  BY DEF Tallies
<1>2. ASSUME NEW f \in Failures PROVE Budget(f)'
  BY BudgetKept
<1>3. QED
  BY <1>1, <1>2

LEMMA ClaimCopies ==
    ASSUME FailuresInv, CopiesInv, NEW w \in Senders, NEW t \in RetryToken,
           NEW F \in SUBSET Failures, ClaimFailures(w, t, F)
    PROVE  CopiesInv'
<1> DEFINE new == [at |-> "loop", token |-> t, todo |-> F, post |-> {}]
<1>1. /\ run[w].at = "idle" /\ run' = [run EXCEPT ![w] = new]
      /\ claim_token' = [f \in Failures |-> IF f \in F THEN t ELSE claim_token[f]]
      /\ claim_left' = [f \in Failures |-> IF f \in F THEN FailureLease ELSE claim_left[f]]
      /\ UNCHANGED <<chain, saved, copies, unacknowledged, late>>
      /\ \A v \in Senders : run[v].token # t
      /\ \A f \in F : claim_token[f] = NoRetryToken \/ claim_left[f] = 0
  BY DEF ClaimFailures, RunMoves, pastVars, Unknown, Retryable
<1>2. /\ run'[w] = new /\ run[w].post = {}
      /\ \A v \in Senders : v # w => run'[v] = run[v]
  BY <1>1 DEF FailuresInv, PostInv
<1>3. new.token = t /\ new.post = {} /\ t # NoRetryToken
  BY FailuresAssumption
<1>4. TokensDiffer'
  BY <1>1, <1>2, <1>3 DEF CopiesInv, TokensDiffer
<1>5. ASSUME NEW f \in Failures
      PROVE  Strays(f)' = Strays(f) /\ Covered(f)' = Covered(f)
  <2>1. SendersOf(f)' = SendersOf(f)
    BY <1>2, <1>3 DEF SendersOf
  <2>2. ASSUME NEW v \in SendersOf(f)
        PROVE  /\ run'[v] = run[v]
               /\ Running(f, run[v].token)' <=> Running(f, run[v].token)
    <3>1. v \in Senders /\ run[v].at = "delivering"
      BY SendersRun
    <3>2. run'[v] = run[v] /\ run[v].token # t /\ run[v].token # NoRetryToken
      BY <3>1, <1>1, <1>2 DEF CopiesInv, TokensDiffer
    <3>3. claim_left[f] \in Nat
      BY DEF FailuresInv, ClaimInv
    <3>4. QED
      BY <1>1, <3>2, <3>3 DEF Running, OwnedBy
  <2>3. QED
    BY <1>1, <2>1, <2>2 DEF Strays, Covered
<1>6. QED
  BY <1>1, <1>4, <1>5, QuietBudget DEF CopiesInv

LEMMA TakeCopies ==
    ASSUME FailuresInv, CopiesInv, NEW w \in Senders, NEW f \in Failures, TakeFailure(w, f)
    PROVE  CopiesInv'
<1>1. /\ run[w].at = "loop" /\ run[w] \in Run /\ run[w].post = {}
      /\ UNCHANGED <<saved, claim_token, claim_left, copies, unacknowledged, late>>
  BY DEF TakeFailure, FailuresInv, PostInv, pastVars, tableVars
<1>2. PICK new \in Run :
         /\ run' = [run EXCEPT ![w] = new] /\ new.token = run[w].token
         /\ \/ new.post = {} /\ chain' = chain
            \/ OneStep(w) /\ chain'[w].at = "queued"
  <2>1. CASE /\ RunMoves(w, [run[w] EXCEPT !.todo = @ \ {f}])
             /\ UNCHANGED chain
    <3>1. [run[w] EXCEPT !.todo = @ \ {f}] \in Run
      BY <1>1 DEF Run
    <3>2. QED
      BY <1>1, <2>1, <3>1 DEF RunMoves, Run
  <2>2. CASE /\ RunMoves(w, [run[w] EXCEPT !.todo = @ \ {f}, !.post = {f}, !.at = "delivering"])
             /\ Begin(w, Urls[f])
    <3>1. Urls[f] \in Nat
      BY FailuresAssumption, MediaAssumption
    <3>2. OneStep(w) /\ chain'[w].at = "queued"
      BY <2>2, <3>1, ChainBegins DEF FailuresInv
    <3>3. [run[w] EXCEPT !.todo = @ \ {f}, !.post = {f}, !.at = "delivering"] \in Run
      BY <1>1 DEF Run
    <3>4. QED
      BY <1>1, <2>2, <3>2, <3>3 DEF RunMoves, Run
  <2>3. QED
    BY <2>1, <2>2 DEF TakeFailure
<1>3. /\ run'[w] = new /\ \A v \in Senders : v # w => run'[v] = run[v]
      /\ \A v \in Senders : v # w => chain'[v] = chain[v]
  BY <1>2 DEF FailuresInv, PostInv, OneStep
<1>4. TokensDiffer'
  <2>1. Loyal
    BY <1>1, <1>2, <1>3 DEF Loyal
  <2>2. QED
    BY <2>1, LoyalTokens DEF CopiesInv
<1>5. ASSUME NEW g \in Failures
      PROVE  Strays(g)' \subseteq Strays(g) /\ Covered(g) \subseteq Covered(g)'
  <2>1. \A t : Running(g, t)' <=> Running(g, t)
    BY <1>1 DEF Running, OwnedBy
  <2>2. Strays(g)' \subseteq Strays(g)
    BY <1>1, <1>2, <1>3, <2>1 DEF Strays, SendersOf
  <2>3. Covered(g) \subseteq Covered(g)'
    BY <1>1, <1>3, <2>1 DEF Covered, SendersOf
  <2>4. QED
    BY <2>2, <2>3
<1>6. QED
  BY <1>1, <1>4, <1>5, QuietBudget DEF CopiesInv

LEMMA SendCopies ==
    ASSUME FailuresInv, CopiesInv, NEW w \in Senders, NEW f \in Failures, SendFailure(w, f)
    PROVE  CopiesInv'
<1> DEFINE may == allowed /\ Renewable(w, f)
<1>1. /\ Dispatch(w, may) /\ f \in run[w].post
      /\ claim_left' = IF may THEN [claim_left EXCEPT ![f] = FailureLease] ELSE claim_left
      /\ UNCHANGED <<saved, claim_token, run, copies, unacknowledged, late>>
  BY DEF SendFailure, pastVars
<1>2. /\ OneStep(w) /\ chain'[w].result # "sent"
      /\ chain'[w].at = "sending" => may
  BY <1>1, ChainDispatched, may \in BOOLEAN DEF FailuresInv
<1>3. chain[w].at = "queued" /\ chain[w].result # "sent"
  BY <1>1 DEF Dispatch, FailuresInv, ChainInv, Honest
<1>4. TokensDiffer'
  BY <1>1 DEF CopiesInv, TokensDiffer
<1>5. ASSUME NEW g \in Failures
      PROVE  Strays(g)' \subseteq Strays(g) /\ Covered(g) \subseteq Covered(g)'
  <2>1. \A t : Running(g, t)' <=> Running(g, t)
    <3>1. may => claim_left[f] > 0
      BY DEF Renewable, Running
    <3>2. claim_left'[g] > 0 <=> claim_left[g] > 0
      BY <1>1, <3>1, FailuresAssumption DEF FailuresInv, ClaimInv
    <3>3. QED
      BY <1>1, <3>2 DEF Running, OwnedBy
  <2>2. SendersOf(g)' = SendersOf(g)
    BY <1>1 DEF SendersOf
  <2>3. w \in Strays(g)' => FALSE
    <3> SUFFICES ASSUME w \in Strays(g)' PROVE FALSE
      OBVIOUS
    <3>1. may /\ w \in SendersOf(g) /\ ~Running(g, run[w].token)
      BY <1>1, <1>2, <2>1, <2>2 DEF Strays
    <3>2. g = f
      BY <1>1, <3>1, SendersRun
    <3>3. QED
      BY <3>1, <3>2 DEF Renewable
  <2>4. Strays(g)' \subseteq Strays(g)
    BY <1>1, <1>2, <2>1, <2>2, <2>3, SetsOfSenders DEF Strays, OneStep
  <2>5. Covered(g) \subseteq Covered(g)'
    BY <1>1, <1>2, <1>3, <2>1, <2>2, SetsOfSenders DEF Covered, OneStep
  <2>6. QED
    BY <2>4, <2>5
<1>6. QED
  BY <1>1, <1>4, <1>5, QuietBudget DEF CopiesInv

LEMMA PostCopies ==
    ASSUME FailuresInv, CopiesInv, NEW w \in Senders, NEW f \in Failures, PostMoves(w, f)
    PROVE  CopiesInv'
<1> DEFINE gained == chain'[w].copies - chain[w].copies
           unsure == chain'[w].result = "ambiguous"
<1>1. /\ f \in run[w].post /\ Outcome(w)
      /\ copies' = [copies EXCEPT ![f] = @ + gained]
      /\ unacknowledged' = IF unsure THEN [unacknowledged EXCEPT ![f] = @ + gained]
                           ELSE unacknowledged
      /\ UNCHANGED <<saved, claim_token, claim_left, run, late>>
  BY DEF PostMoves, tableVars
<1>2. /\ OneStep(w) /\ chain[w].at # "done" /\ chain'[w].at # "sending"
      /\ chain[w].at # "sending" => chain'[w].at # "done"
  BY <1>1, ChainOutcome, ChainAnswered DEF FailuresInv
<1>3. /\ chain[w].copies = 0 /\ chain[w].result = "none" /\ chain'[w].copies \in 0..1
      /\ chain'[w].at # "done" => chain'[w].copies = 0
      /\ chain'[w].result = "sent" => chain'[w].copies = 1
      /\ chain'[w].result \notin {"sent", "ambiguous"} => chain'[w].copies = 0
  BY <1>2 DEF FailuresInv, ChainInv, OneStep, Honest, Link
<1>4. gained = chain'[w].copies
  BY <1>3
<1>5. TokensDiffer'
  BY <1>1 DEF CopiesInv, TokensDiffer
<1>6. Tallies'
  BY <1>1, <1>3, <1>4 DEF CopiesInv, Tallies
<1>7. ASSUME NEW g \in Failures
      PROVE  Strays(g)' \subseteq Strays(g) /\ Covered(g) \subseteq Covered(g)'
  <2>1. \A t : Running(g, t)' <=> Running(g, t)
    BY <1>1 DEF Running, OwnedBy
  <2>2. SendersOf(g)' = SendersOf(g)
    BY <1>1 DEF SendersOf
  <2>3. QED
    BY <1>1, <1>2, <1>3, <2>1, <2>2, SetsOfSenders DEF Strays, Covered, OneStep
<1>8. ASSUME NEW g \in Failures
      PROVE  Budget(g)'
  <2>0. Strays(g)' \subseteq Strays(g) /\ Covered(g) \subseteq Covered(g)' /\ Budget(g)
    BY <1>7 DEF CopiesInv
  <2>1. CASE g # f \/ gained = 0
    <3>1. copies'[g] = copies[g] /\ unacknowledged'[g] = unacknowledged[g]
      BY <1>1, <2>1 DEF CopiesInv, Tallies
    <3>2. QED
      BY <1>1, <2>0, <3>1, BudgetKept DEF CopiesInv
  <2>2. CASE g = f /\ gained = 1
    <3>1. /\ chain[w].at = "sending" /\ chain'[w].result \in {"sent", "ambiguous"}
          /\ copies'[f] = copies[f] + 1
      BY <1>1, <1>2, <1>3, <1>4, <2>2 DEF CopiesInv, Tallies
    <3>2. w \in SendersOf(f) /\ w \in SendersOf(f)'
      BY <1>1 DEF SendersOf
    <3>3. /\ copies[f] \in Nat /\ unacknowledged[f] \in Nat
          /\ Strays(f) \in SUBSET Senders /\ Covered(f) \in SUBSET Senders
          /\ Strays(f)' \in SUBSET Senders /\ Covered(f)' \in SUBSET Senders
      BY <1>1, SetsOfSenders DEF CopiesInv, Tallies, Strays, Covered, SendersOf
    <3>4. /\ Cardinality(Strays(f)) \in Nat /\ Cardinality(Covered(f)) \in Nat
          /\ Cardinality(Strays(f)') \in Nat /\ Cardinality(Covered(f)') \in Nat
          /\ Cardinality(Strays(f)') <= Cardinality(Strays(f))
          /\ Cardinality(Covered(f)) <= Cardinality(Covered(f)')
      BY <2>0, <2>2, <3>3, Sizes, Fewer
    <3>5. CASE unsure
      <4>1. unacknowledged'[f] = unacknowledged[f] + 1
        BY <1>1, <2>2, <3>5 DEF CopiesInv, Tallies
      <4>2. QED
        BY <1>1, <2>0, <2>2, <3>1, <3>3, <3>4, <4>1 DEF Budget
    <3>6. CASE ~unsure /\ (w \in late \/ Running(f, run[w].token))
      <4>1. unacknowledged'[f] = unacknowledged[f] /\ chain'[w].result = "sent"
        BY <1>1, <3>1, <3>6
      <4>2. Running(f, run[w].token)' <=> Running(f, run[w].token)
        BY <1>1 DEF Running, OwnedBy
      <4>3. w \in Covered(f)' /\ w \notin Covered(f)
        BY <1>1, <1>3, <3>2, <3>6, <4>1, <4>2 DEF Covered
      <4>4. Cardinality(Covered(f)) + 1 <= Cardinality(Covered(f)')
        BY <2>0, <2>2, <3>3, <4>3, OneMore
      <4>5. QED
        BY <1>1, <2>0, <2>2, <3>1, <3>3, <3>4, <4>1, <4>4 DEF Budget
    <3>7. CASE ~unsure /\ ~(w \in late \/ Running(f, run[w].token))
      <4>1. unacknowledged'[f] = unacknowledged[f]
        BY <1>1, <3>7
      <4>2. w \in Strays(f) /\ w \notin Strays(f)'
        BY <1>2, <3>1, <3>2, <3>7 DEF Strays
      <4>3. Cardinality(Strays(f)') + 1 <= Cardinality(Strays(f))
        BY <2>0, <2>2, <3>3, <4>2, OneMore
      <4>4. QED
        BY <1>1, <2>0, <2>2, <3>1, <3>3, <3>4, <4>1, <4>3 DEF Budget
    <3>8. QED
      BY <3>5, <3>6, <3>7
  <2>3. QED
    BY <1>3, <1>4, <2>1, <2>2
<1>9. QED
  BY <1>5, <1>6, <1>8 DEF CopiesInv

LEMMA SettleCopies ==
    ASSUME FailuresInv, CopiesInv, NEW w \in Senders, NEW f \in Failures, SettleFailure(w, f)
    PROVE  CopiesInv'
<1> DEFINE new == [run[w] EXCEPT !.at = "loop", !.post = {}]
<1>1. /\ f \in run[w].post /\ run[w] \in Run /\ run[w].at = "delivering"
      /\ run' = [run EXCEPT ![w] = new]
      /\ Moves(w, Resting) /\ copies' = copies /\ late' = late \ {w}
  BY DEF SettleFailure, BackToLoop, RunMoves, FailuresInv, PostInv
<1>2. new \in Run /\ new.token = run[w].token /\ new.post = {}
  BY <1>1 DEF Run
<1>3. /\ run'[w] = new /\ \A v \in Senders : v # w => run'[v] = run[v]
      /\ \A v \in Senders : v # w => chain'[v] = chain[v]
  BY <1>1, Rests, OneMoves DEF FailuresInv, PostInv
<1> HIDE DEF new
<1>4. TokensDiffer'
  <2>1. Loyal
    BY <1>1, <1>2, <1>3 DEF Loyal
  <2>2. QED
    BY <2>1, LoyalTokens DEF CopiesInv
<1>5. \/ Running(f, run[w].token) /\ Erase(f)
      \/ UNCHANGED <<saved, claim_token, claim_left>>
  BY DEF SettleFailure, tableVars
<1>6. Tallies'
  BY <1>1, <1>5 DEF SettleFailure, CopiesInv, Tallies
<1>7. ASSUME NEW g \in Failures, NEW v \in SendersOf(g), v # w
      PROVE  Running(g, run[v].token)' <=> Running(g, run[v].token)
  <2>0. v \in Senders /\ run[v].at = "delivering" /\ run'[v] = run[v]
    BY <1>3, <1>7, SendersRun
  <2>1. CASE UNCHANGED <<saved, claim_token, claim_left>>
    BY <2>0, <2>1 DEF Running, OwnedBy
  <2>2. CASE Running(f, run[w].token) /\ Erase(f)
    <3>1. CASE g = f
      <4>1. run[v].token # run[w].token
        BY <1>1, <1>7, <2>0 DEF CopiesInv, TokensDiffer
      <4>2. ~Running(g, run[v].token)
        BY <2>2, <3>1, <4>1 DEF Running, OwnedBy
      <4>3. f \notin saved'
        BY <2>2 DEF Erase
      <4>4. QED
        BY <3>1, <4>2, <4>3 DEF Running, OwnedBy
    <3>2. CASE g # f
      BY <2>0, <2>2, <3>2 DEF Running, OwnedBy, Erase, FailuresInv, ClaimInv
    <3>3. QED
      BY <3>1, <3>2
  <2>3. QED
    BY <1>5, <2>1, <2>2
<1>8. ASSUME NEW g \in Failures
      PROVE  Strays(g)' \subseteq Strays(g) /\ Covered(g) \ {w} \subseteq Covered(g)'
  <2>1. SendersOf(g)' = SendersOf(g) \ {w}
    BY <1>2, <1>3 DEF SendersOf
  <2>2. \A v \in SendersOf(g) \ {w} : chain'[v] = chain[v] /\ run'[v] = run[v]
    BY <1>3, SetsOfSenders
  <2>3. QED
    BY <1>1, <1>7, <2>1, <2>2 DEF Strays, Covered
<1>9. ASSUME NEW g \in Failures
      PROVE  Budget(g)'
  <2>0. Budget(g) /\ copies'[g] = copies[g]
    BY <1>1 DEF CopiesInv
  <2>1. CASE g # f
    <3>1. w \notin SendersOf(g)
      BY <1>1, <2>1, SendersRun
    <3>2. w \notin Covered(g)
      BY <3>1 DEF Covered
    <3>3. unacknowledged'[g] = unacknowledged[g] /\ (g \in saved' <=> g \in saved)
      BY <1>5, <2>1 DEF SettleFailure, Erase, CopiesInv, Tallies
    <3>4. QED
      BY <1>8, <2>0, <3>2, <3>3, BudgetKept DEF CopiesInv
  <2>2. CASE g = f
    <3>1. /\ copies[f] \in Nat /\ unacknowledged[f] \in Nat
          /\ Strays(f) \in SUBSET Senders /\ Covered(f) \in SUBSET Senders
          /\ Strays(f)' \in SUBSET Senders /\ Covered(f)' \in SUBSET Senders
      BY SetsOfSenders DEF CopiesInv, Tallies, Strays, Covered, SendersOf
    <3>2. /\ Cardinality(Strays(f)) \in Nat /\ Cardinality(Covered(f)) \in Nat
          /\ Cardinality(Strays(f)') \in Nat /\ Cardinality(Covered(f)') \in Nat
          /\ Cardinality(Strays(f)') <= Cardinality(Strays(f))
          /\ Cardinality(Covered(f)) <= Cardinality(Covered(f)') + 1
      <4>1. Strays(f)' \subseteq Strays(f) /\ Covered(f) \subseteq Covered(f)' \cup {w}
        BY <1>8
      <4>2. QED
        BY <3>1, <4>1, Sizes, Fewer, OneFewer
    <3>3. CASE Erase(f) /\ unacknowledged' = unacknowledged /\ f \in saved
      <4>1. f \notin saved'
        BY <3>3 DEF Erase
      <4>2. QED
        BY <2>0, <2>2, <3>1, <3>2, <3>3, <4>1 DEF Budget
    <3>4. CASE UNCHANGED saved /\ unacknowledged' = [unacknowledged EXCEPT ![f] = @ + 1]
      <4>1. unacknowledged'[f] = unacknowledged[f] + 1
        BY <3>4 DEF CopiesInv, Tallies
      <4>2. QED
        BY <2>0, <2>2, <3>1, <3>2, <3>4, <4>1 DEF Budget
    <3>5. CASE /\ UNCHANGED saved /\ unacknowledged' = unacknowledged
               /\ ~(Settles(w) /\ (Running(f, run[w].token) \/ w \in late))
      <4>1. w \notin Covered(f)
        BY <3>5 DEF Covered, Settles
      <4>2. Covered(f) \subseteq Covered(f)' /\ Strays(f)' \subseteq Strays(f)
        BY <1>8, <4>1
      <4>3. QED
        BY <2>0, <2>2, <3>5, <4>2, BudgetKept DEF CopiesInv
    <3>6. QED
      <4>1. CASE Settles(w) /\ Running(f, run[w].token) /\ Erase(f) /\ UNCHANGED unacknowledged
        BY <4>1, <3>3 DEF Running, OwnedBy
      <4>2. CASE /\ Settles(w) /\ UNCHANGED tableVars
                 /\ unacknowledged' = [unacknowledged EXCEPT ![f] =
                        IF Running(f, run[w].token) \/ w \in late THEN @ + 1 ELSE @]
        <5>1. CASE Running(f, run[w].token) \/ w \in late
          BY <4>2, <5>1, <3>4 DEF tableVars
        <5>2. CASE ~(Running(f, run[w].token) \/ w \in late)
          <6>1. unacknowledged' = unacknowledged
            BY <4>2, <5>2 DEF CopiesInv, Tallies
          <6>2. QED
            BY <4>2, <5>2, <6>1, <3>5 DEF tableVars
        <5>3. QED
          BY <5>1, <5>2
      <4>3. CASE ~Settles(w) /\ UNCHANGED <<saved, unacknowledged>>
        BY <4>3, <3>5
      <4>4. QED
        BY <4>1, <4>2, <4>3 DEF SettleFailure
  <2>3. QED
    BY <2>1, <2>2
<1>10. QED
  BY <1>4, <1>6, <1>9 DEF CopiesInv

\* The tasks W end, and no lease of another one is touched.
LEMMA GiveUpCopies ==
    ASSUME FailuresInv, CopiesInv, NEW W \in SUBSET Senders,
           NEW accepted \in SUBSET (UnderWay \cap W), GiveUp(W, accepted),
           saved' = saved,
           \A f \in Failures : \A w \in SendersOf(f) \ W :
               Running(f, run[w].token)' <=> Running(f, run[w].token)
    PROVE  CopiesInv'
<1> DEFINE arrived(f) == Cardinality({w \in accepted : f \in run[w].post})
           sent(f) == {w \in W : f \in run[w].post /\ chain[w].result = "sent"}
<1>1. /\ run' = [w \in Senders |-> IF w \in W THEN NoRun ELSE run[w]]
      /\ chain' = [w \in Senders |-> IF w \in W THEN Resting ELSE chain[w]]
      /\ copies' = [f \in Failures |-> copies[f] + arrived(f)]
      /\ unacknowledged' = [f \in Failures |->
             unacknowledged[f] + arrived(f) + Cardinality(sent(f))]
      /\ late' = late \ W
  BY Zenon DEF GiveUp
<1>2. TokensDiffer'
  <2>1. Loyal
    BY <1>1, NoRunIsRun DEF Loyal
  <2>2. QED
    BY <2>1, LoyalTokens DEF CopiesInv
<1>3. \A f \in Failures : /\ arrived(f) \in Nat /\ Cardinality(sent(f)) \in Nat
                          /\ sent(f) \in SUBSET Senders
  BY Sizes DEF UnderWay
<1>4. \A f \in Failures : copies[f] \in Nat /\ unacknowledged[f] \in Nat
  BY DEF CopiesInv, Tallies
<1> HIDE DEF arrived
<1>5. ASSUME NEW f \in Failures
      PROVE  Strays(f)' \subseteq Strays(f) /\ Covered(f) \subseteq Covered(f)' \cup sent(f)
  <2>1. SendersOf(f)' = SendersOf(f) \ W
    BY <1>1, NoRunIsRun DEF SendersOf
  <2>2. \A w \in SendersOf(f) \ W : chain'[w] = chain[w] /\ run'[w] = run[w]
    BY <1>1, SetsOfSenders
  <2>3. \A w \in SendersOf(f) : f \in run[w].post
    BY DEF SendersOf
  <2>4. QED
    BY <1>1, <2>1, <2>2, <2>3 DEF Strays, Covered
<1>6. ASSUME NEW f \in Failures
      PROVE  Budget(f)'
  <2>1. /\ Strays(f) \in SUBSET Senders /\ Covered(f) \in SUBSET Senders
        /\ Strays(f)' \in SUBSET Senders /\ Covered(f)' \in SUBSET Senders
    BY SetsOfSenders DEF Strays, Covered, SendersOf
  <2>2. /\ Cardinality(Strays(f)) \in Nat /\ Cardinality(Covered(f)) \in Nat
        /\ Cardinality(Strays(f)') \in Nat /\ Cardinality(Covered(f)') \in Nat
        /\ Cardinality(Strays(f)') <= Cardinality(Strays(f))
    BY <1>5, <2>1, Sizes, Fewer
  <2>3. Cardinality(Covered(f)) <= Cardinality(Covered(f)') + Cardinality(sent(f))
    <3> DEFINE C == Covered(f)'
               S == sent(f)
    <3>1. C \in SUBSET Senders /\ S \in SUBSET Senders
      BY <1>3, <2>1
    <3>2. C \cup S \in SUBSET Senders /\ C \cap S \in SUBSET Senders
      BY <3>1
    <3>3. Covered(f) \in SUBSET (C \cup S)
      BY <1>5
    <3> HIDE DEF C, S
    <3>4. Cardinality(C \cup S) = Cardinality(C) + Cardinality(S) - Cardinality(C \cap S)
      BY <3>1, Sizes, FS_Union
    <3>5. Cardinality(Covered(f)) <= Cardinality(C \cup S)
      BY <3>2, <3>3, Fewer
    <3>6. /\ Cardinality(C) \in Nat /\ Cardinality(S) \in Nat /\ Cardinality(C \cap S) \in Nat
          /\ Cardinality(Covered(f)) \in Nat
      BY <2>1, <3>1, <3>2, Sizes
    <3>7. Cardinality(Covered(f)) <= Cardinality(C) + Cardinality(S)
      BY <3>4, <3>5, <3>6
    <3>8. QED
      BY <3>7 DEF C, S
  <2>4. /\ copies'[f] = copies[f] + arrived(f)
        /\ unacknowledged'[f] = unacknowledged[f] + arrived(f) + Cardinality(sent(f))
    BY <1>1
  <2>5. Budget(f)
    BY DEF CopiesInv
  <2> HIDE DEF sent
  <2>6. QED
    BY <1>3, <1>4, <2>2, <2>3, <2>4, <2>5 DEF Budget
<1>7. Tallies'
  <2> HIDE DEF sent
  <2>1. QED
    BY <1>1, <1>3, <1>4 DEF Tallies
<1>8. QED
  BY <1>2, <1>6, <1>7 DEF CopiesInv

LEMMA EndCopies ==
    ASSUME FailuresInv, CopiesInv, NEW w \in Senders, EndRun(w)
    PROVE  CopiesInv'
<1>1. PICK accepted \in SUBSET (UnderWay \cap {w}) : GiveUp({w}, accepted)
  BY DEF EndRun
<1>2. run[w].at # "idle" /\ saved' = saved /\ Unclaim(run[w].token)
  BY DEF EndRun
<1>3. ASSUME NEW f \in Failures, NEW v \in SendersOf(f) \ {w}
      PROVE  Running(f, run[v].token)' <=> Running(f, run[v].token)
  <2>1. v \in Senders /\ run[v].at = "delivering"
    BY SendersRun
  <2>2. run'[v] = run[v]
    BY <1>1, <2>1 DEF GiveUp
  <2>3. run[v].token # run[w].token /\ run[v].token # NoRetryToken
    BY <1>2, <1>3, <2>1 DEF CopiesInv, TokensDiffer
  <2>4. QED
    BY <1>2, <2>2, <2>3 DEF Running, OwnedBy, Unclaim
<1>4. QED
  BY <1>1, <1>2, <1>3, GiveUpCopies

LEMMA CrashCopies ==
    ASSUME FailuresInv, CopiesInv, RetryCrash
    PROVE  CopiesInv'
<1>1. PICK accepted \in SUBSET UnderWay : GiveUp(Senders, accepted)
  BY DEF RetryCrash
<1>2. saved' = saved /\ accepted \in SUBSET (UnderWay \cap Senders)
  BY DEF RetryCrash, tableVars, UnderWay
<1>3. \A f \in Failures : SendersOf(f) \ Senders = {}
  BY SetsOfSenders
<1>4. QED
  BY <1>1, <1>2, <1>3, GiveUpCopies

LEMMA SavedCopies ==
    ASSUME FailuresInv, CopiesInv, NEW f \in Failures, SavedAgain(f)
    PROVE  CopiesInv'
<1>1. /\ saved' = saved \cup {f}
      /\ copies' = [copies EXCEPT ![f] = IF f \in saved THEN @ ELSE 0]
      /\ unacknowledged' = [unacknowledged EXCEPT ![f] =
             IF f \in saved THEN @ ELSE Cardinality(SendersOf(f))]
      /\ UNCHANGED <<chain, run, claim_token, claim_left, late>>
  BY DEF SavedAgain, SaveFailure
<1>2. Cardinality(SendersOf(f)) \in Nat
  BY Sizes, SetsOfSenders
<1>3. Tallies' /\ TokensDiffer'
  BY <1>1, <1>2 DEF CopiesInv, Tallies, TokensDiffer
<1>4. ASSUME NEW g \in Failures
      PROVE  Budget(g)'
  <2>1. CASE g # f \/ f \in saved
    <3>1. \A t : Running(g, t)' <=> Running(g, t)
      BY <1>1, <2>1 DEF Running, OwnedBy
    <3>2. Strays(g)' = Strays(g) /\ Covered(g)' = Covered(g)
      BY <1>1, <3>1 DEF Strays, Covered, SendersOf
    <3>3. /\ copies'[g] = copies[g] /\ unacknowledged'[g] = unacknowledged[g]
          /\ (g \in saved' <=> g \in saved)
      BY <1>1, <2>1 DEF CopiesInv, Tallies
    <3>4. QED
      BY <3>2, <3>3, BudgetKept DEF CopiesInv
  <2>2. CASE g = f /\ f \notin saved
    <3>1. copies'[f] = 0 /\ unacknowledged'[f] = Cardinality(SendersOf(f))
      BY <1>1, <2>2 DEF CopiesInv, Tallies
    <3>2. Strays(f)' \subseteq SendersOf(f)
      BY <1>1 DEF Strays, SendersOf
    <3>3. Covered(f)' \in SUBSET Senders
      BY <1>1 DEF Covered, SendersOf
    <3>4. /\ Cardinality(Strays(f)') <= Cardinality(SendersOf(f))
          /\ Cardinality(Strays(f)') \in Nat /\ Cardinality(Covered(f)') \in Nat
      BY <3>2, <3>3, SetsOfSenders, Sizes, Fewer
    <3>5. QED
      BY <1>1, <1>2, <2>2, <3>1, <3>4 DEF Budget
  <2>3. QED
    BY <2>1, <2>2
<1>5. QED
  BY <1>3, <1>4 DEF CopiesInv

LEMMA ElsewhereCopies ==
    ASSUME FailuresInv, CopiesInv, NEW f \in Failures, DeliveredElsewhere(f)
    PROVE  CopiesInv'
<1>1. /\ copies' = [copies EXCEPT ![f] = @ + 1]
      /\ unacknowledged' = [unacknowledged EXCEPT ![f] = @ + 1]
      /\ UNCHANGED <<chain, run, saved, claim_token, claim_left, late>>
  BY DEF DeliveredElsewhere, tableVars
<1>2. Tallies' /\ TokensDiffer'
  BY <1>1 DEF CopiesInv, Tallies, TokensDiffer
<1>3. ASSUME NEW g \in Failures
      PROVE  Budget(g)'
  <2>1. Strays(g)' = Strays(g) /\ Covered(g)' = Covered(g)
    BY <1>1 DEF Strays, Covered, SendersOf, Running, OwnedBy
  <2>2. Cardinality(Strays(g)) \in Nat /\ Cardinality(Covered(g)) \in Nat
    BY SetsOfSenders, Sizes
  <2>3. /\ copies[g] \in Nat /\ unacknowledged[g] \in Nat
        /\ \/ copies'[g] = copies[g] /\ unacknowledged'[g] = unacknowledged[g]
           \/ copies'[g] = copies[g] + 1 /\ unacknowledged'[g] = unacknowledged[g] + 1
    BY <1>1 DEF CopiesInv, Tallies
  <2>4. QED
    BY <1>1, <2>1, <2>2, <2>3 DEF CopiesInv, Budget
<1>4. QED
  BY <1>2, <1>3 DEF CopiesInv

\* The failure is deleted, perhaps under the run that sends it.
LEMMA ClearCopies ==
    ASSUME FailuresInv, CopiesInv, NEW f \in Failures, ClearFailure(f)
    PROVE  CopiesInv'
<1>1. /\ Erase(f) /\ f \in saved
      /\ UNCHANGED <<chain, run, copies, unacknowledged, late>>
  BY DEF ClearFailure, pastVars
<1>2. Tallies' /\ TokensDiffer'
  BY <1>1 DEF CopiesInv, Tallies, TokensDiffer
<1>3. ASSUME NEW g \in Failures, g # f
      PROVE  Budget(g)'
  <2>1. \A t : Running(g, t)' <=> Running(g, t)
    BY <1>1, <1>3 DEF Running, OwnedBy, Erase, FailuresInv, ClaimInv
  <2>2. Strays(g)' = Strays(g) /\ Covered(g)' = Covered(g)
    BY <1>1, <2>1 DEF Strays, Covered, SendersOf
  <2>3. copies'[g] = copies[g] /\ unacknowledged'[g] = unacknowledged[g] /\ (g \in saved' <=> g \in saved)
    BY <1>1, <1>3 DEF Erase
  <2>4. QED
    BY <2>2, <2>3, BudgetKept DEF CopiesInv
<1>4. Budget(f)'
  <2>1. \A t : ~Running(f, t)'
    BY <1>1 DEF Running, OwnedBy, Erase
  <2>2. \A v, w \in SendersOf(f) : Running(f, run[v].token) /\ Running(f, run[w].token) => v = w
    <3>1. ASSUME NEW v \in SendersOf(f), NEW w \in SendersOf(f), v # w,
                 Running(f, run[v].token), Running(f, run[w].token)
          PROVE  FALSE
      <4>1. run[v].token # run[w].token
        BY <3>1, SendersRun DEF CopiesInv, TokensDiffer
      <4>2. QED
        BY <3>1, <4>1 DEF Running, OwnedBy
    <3>2. QED
      BY <3>1
  <2>3. SendersOf(f)' = SendersOf(f)
    BY <1>1 DEF SendersOf
  <2>4. /\ copies[f] \in Nat /\ unacknowledged[f] \in Nat /\ Budget(f)
        /\ copies'[f] = copies[f] /\ unacknowledged'[f] = unacknowledged[f]
        /\ f \notin saved'
        /\ Strays(f) \in SUBSET Senders /\ Covered(f) \in SUBSET Senders
        /\ Strays(f)' \in SUBSET Senders /\ Covered(f)' \in SUBSET Senders
    BY <1>1, SetsOfSenders DEF CopiesInv, Tallies, Strays, Covered, SendersOf, Erase
  <2>5. /\ Cardinality(Strays(f)) \in Nat /\ Cardinality(Covered(f)) \in Nat
        /\ Cardinality(Strays(f)') \in Nat /\ Cardinality(Covered(f)') \in Nat
    BY <2>4, Sizes
  <2>6. CASE \E w \in SendersOf(f) : Running(f, run[w].token) /\ chain[w].result = "sent"
    <3>1. PICK w \in SendersOf(f) : Running(f, run[w].token) /\ chain[w].result = "sent"
      BY <2>6
    <3>2. chain[w].at # "sending"
      BY <3>1, SetsOfSenders DEF FailuresInv, ChainInv, Honest
    <3>3. Strays(f)' \subseteq Strays(f) /\ Covered(f) \subseteq Covered(f)' \cup {w}
      BY <1>1, <2>1, <2>2, <2>3, <3>1, <3>2 DEF Strays, Covered
    <3>4. /\ Cardinality(Strays(f)') <= Cardinality(Strays(f))
          /\ Cardinality(Covered(f)) <= Cardinality(Covered(f)') + 1
      BY <2>4, <3>3, Fewer, OneFewer
    <3>5. QED
      BY <1>1, <2>4, <2>5, <3>4 DEF Budget
  <2>7. CASE ~\E w \in SendersOf(f) : Running(f, run[w].token) /\ chain[w].result = "sent"
    <3>1. Covered(f) \subseteq Covered(f)'
      BY <1>1, <2>3, <2>7 DEF Covered
    <3>2. \E w : Strays(f)' \subseteq Strays(f) \cup {w}
      <4>1. CASE \E w \in SendersOf(f) : Running(f, run[w].token)
        BY <1>1, <2>1, <2>2, <2>3, <4>1 DEF Strays
      <4>2. CASE ~\E w \in SendersOf(f) : Running(f, run[w].token)
        BY <1>1, <2>1, <2>3, <4>2 DEF Strays
      <4>3. QED
        BY <4>1, <4>2
    <3>3. /\ Cardinality(Strays(f)') <= Cardinality(Strays(f)) + 1
          /\ Cardinality(Covered(f)) <= Cardinality(Covered(f)')
      BY <2>4, <3>1, <3>2, Fewer, OneFewer
    <3>4. QED
      BY <1>1, <2>4, <2>5, <3>3 DEF Budget
  <2>8. QED
    BY <2>6, <2>7
<1>5. QED
  BY <1>2, <1>3, <1>4 DEF CopiesInv

\* A lease that runs out on a post that is sent makes its run a late one.
LEMMA TickCopies ==
    ASSUME FailuresInv, CopiesInv, LeaseTick
    PROVE  CopiesInv'
<1>1. /\ claim_left' = [f \in Failures |-> IF claim_left[f] > 0 THEN claim_left[f] - 1 ELSE 0]
      /\ late' = late \cup {w \in Senders : \E f \in run[w].post :
                               /\ claim_token[f] = run[w].token /\ claim_left[f] = 1
                               /\ chain[w].at \in {"sending", "done"}}
      /\ UNCHANGED <<chain, saved, claim_token, run, copies, unacknowledged>>
  BY DEF LeaseTick
<1>2. TokensDiffer'
  BY <1>1 DEF CopiesInv, TokensDiffer
<1>3. ASSUME NEW f \in Failures
      PROVE  Strays(f)' \subseteq Strays(f) /\ Covered(f) \subseteq Covered(f)'
  <2>1. SendersOf(f)' = SendersOf(f)
    BY <1>1 DEF SendersOf
  <2>2. ASSUME NEW w \in SendersOf(f), chain[w].at \in {"sending", "done"}
        PROVE  /\ w \in late => w \in late'
               /\ Running(f, run[w].token) => w \in late' \/ Running(f, run[w].token)'
    <3>1. claim_left[f] \in Nat /\ w \in Senders /\ f \in run[w].post
      BY DEF FailuresInv, ClaimInv, SendersOf
    <3>2. claim_left'[f] > 0 \/ claim_left[f] = 1 \/ claim_left[f] = 0
      BY <1>1, <3>1
    <3>3. QED
      BY <1>1, <2>2, <3>1, <3>2 DEF Running, OwnedBy
  <2>3. \A w \in SendersOf(f) : chain[w].result = "sent" => chain[w].at = "done"
    BY SetsOfSenders DEF FailuresInv, ChainInv, Honest
  <2>4. QED
    BY <1>1, <2>1, <2>2, <2>3 DEF Strays, Covered
<1>4. QED
  BY <1>1, <1>2, <1>3, QuietBudget DEF CopiesInv

LEMMA CopiesStep ==
    ASSUME FailuresInv, CopiesInv, FailuresNext
    PROVE  CopiesInv'
<1>1. CASE RevokeAccess
  <2>1. UNCHANGED <<chain, run, saved, claim_token, claim_left, copies, unacknowledged, late>>
    BY <1>1 DEF RevokeAccess, tableVars, pastVars
  <2>2. QED
    BY <2>1 DEF CopiesInv, Tallies, TokensDiffer, Budget, Strays, Covered, SendersOf,
       Running, OwnedBy
<1>2. CASE \E f \in Contested : SavedAgain(f) \/ DeliveredElsewhere(f) \/ ClearFailure(f)
  BY <1>2, FailuresAssumption, SavedCopies, ElsewhereCopies, ClearCopies
<1>3. CASE \E w \in Senders, f \in Failures :
              TakeFailure(w, f) \/ SendFailure(w, f) \/ PostMoves(w, f) \/ SettleFailure(w, f)
  BY <1>3, TakeCopies, SendCopies, PostCopies, SettleCopies
<1>4. CASE \E w \in Senders, t \in RetryToken, F \in SUBSET Failures : ClaimFailures(w, t, F)
  BY <1>4, ClaimCopies
<1>5. QED
  BY <1>1, <1>2, <1>3, <1>4, EndCopies, CrashCopies, TickCopies DEF FailuresNext

LEMMA CopiesStutter ==
    ASSUME CopiesInv, UNCHANGED failureVars
    PROVE  CopiesInv'
<1>1. UNCHANGED <<chain, run, saved, claim_token, claim_left, copies, unacknowledged, late>>
  BY DEF failureVars, tableVars, pastVars
<1>2. QED
  BY <1>1 DEF CopiesInv, Tallies, TokensDiffer, Budget, Strays, Covered, SendersOf,
     Running, OwnedBy

LEMMA InitCopies == FailuresInit => CopiesInv
<1> SUFFICES ASSUME FailuresInit PROVE CopiesInv
  OBVIOUS
<1>1. Tallies /\ TokensDiffer
  BY NoRunIsRun DEF FailuresInit, Tallies, TokensDiffer
<1>2. ASSUME NEW f \in Failures
      PROVE  Budget(f)
  <2>1. SendersOf(f) = {} /\ copies[f] = 0 /\ unacknowledged[f] = 0
    BY NoRunIsRun DEF FailuresInit, SendersOf
  <2>2. Strays(f) = {} /\ Covered(f) = {}
    BY <2>1 DEF Strays, Covered
  <2>3. QED
    BY <2>1, <2>2, FS_EmptySet DEF Budget
<1>3. QED
  BY <1>1, <1>2 DEF CopiesInv

LEMMA LateAreSenders ==
    /\ FailuresInit => late \subseteq Senders
    /\ late \subseteq Senders /\ [FailuresNext]_failureVars => late' \subseteq Senders
<1>1. FailuresInit => late \subseteq Senders
  BY DEF FailuresInit
<1>2. ASSUME late \subseteq Senders, FailuresNext
      PROVE  late' \subseteq Senders
  <2>1. CASE LeaseTick
    BY <1>2, <2>1 DEF LeaseTick
  <2>2. CASE ~LeaseTick
    <3>1. late' \subseteq late
      BY <1>2, <2>2 DEF FailuresNext, ClaimFailures, TakeFailure, SendFailure, PostMoves,
         SettleFailure, EndRun, RetryCrash, GiveUp, SavedAgain, SaveFailure,
         DeliveredElsewhere, ClearFailure, RevokeAccess, pastVars
    <3>2. QED
      BY <1>2, <3>1
  <2>3. QED
    BY <2>1, <2>2
<1>3. QED
  BY <1>1, <1>2 DEF failureVars, pastVars

\* One run at most holds the lease of a failure: its copy is the first one.
LEMMA BudgetExcuses ==
    ASSUME FailuresInv, CopiesInv, late \subseteq Senders
    PROVE  RetryDuplicatesExcused
<1> SUFFICES ASSUME NEW f \in Failures
             PROVE  copies[f] <= 1 + unacknowledged[f] + Cardinality(TooLate(f))
  BY DEF RetryDuplicatesExcused
<1>1. /\ TooLate(f) \in SUBSET Senders
      /\ Strays(f) \in SUBSET Senders /\ Covered(f) \in SUBSET Senders
  BY SetsOfSenders DEF TooLate
<1>2. /\ Cardinality(TooLate(f)) \in Nat
      /\ Cardinality(Strays(f)) \in Nat /\ Cardinality(Covered(f)) \in Nat
  BY <1>1, Sizes
<1>3. copies[f] \in Nat /\ unacknowledged[f] \in Nat /\ Budget(f)
  BY DEF CopiesInv, Tallies
<1>4. CASE f \in saved
  <2>1. \A v, w \in Covered(f) \ TooLate(f) : v = w
    <3>1. ASSUME NEW v \in Covered(f) \ TooLate(f), NEW w \in Covered(f) \ TooLate(f), v # w
          PROVE  FALSE
      <4>1. /\ v \in SendersOf(f) /\ Running(f, run[v].token)
            /\ w \in SendersOf(f) /\ Running(f, run[w].token)
        BY DEF Covered, TooLate, SendersOf
      <4>2. run[v].token # run[w].token
        BY <3>1, <4>1, SendersRun DEF CopiesInv, TokensDiffer
      <4>3. QED
        BY <4>1, <4>2 DEF Running, OwnedBy
    <3>2. QED
      BY <3>1
  <2>2. \E w : Covered(f) \subseteq TooLate(f) \cup {w}
    BY <2>1
  <2>3. Cardinality(Covered(f)) <= Cardinality(TooLate(f)) + 1
    BY <1>1, <2>2, OneFewer
  <2>4. QED
    BY <1>2, <1>3, <1>4, <2>3 DEF Budget
<1>5. CASE f \notin saved
  <2>1. Covered(f) \subseteq TooLate(f)
    BY <1>5 DEF Covered, TooLate, SendersOf, Running, OwnedBy
  <2>2. Cardinality(Covered(f)) <= Cardinality(TooLate(f))
    BY <1>1, <2>1, Fewer
  <2>3. QED
    BY <1>2, <1>3, <1>5, <2>2 DEF Budget
<1>6. QED
  BY <1>4, <1>5

\* Whatever number of runs overlap, and whatever is lost, late, revoked or
\* delivered elsewhere meanwhile: a second copy of a post has its own reason
\* (claim_delivery_failures, renew_delivery_failure_claim, delete_delivery_failure).
THEOREM DuplicatesAreExcused == FailuresSpec => []RetryDuplicatesExcused
<1>1. FailuresInv /\ CopiesInv /\ [FailuresNext]_failureVars => CopiesInv'
  BY CopiesStep, CopiesStutter
<1>2. FailuresInv /\ CopiesInv /\ late \subseteq Senders => RetryDuplicatesExcused
  BY BudgetExcuses
<1>3. FailuresInit => late \subseteq Senders
  BY LateAreSenders
<1>4. late \subseteq Senders /\ [FailuresNext]_failureVars => (late \subseteq Senders)'
  BY LateAreSenders
<1>5. QED
  BY <1>1, <1>2, <1>3, <1>4, InitCopies, FailuresSafe, PTL DEF FailuresSpec

\* However many URLs, attempts and runs there are, one chain gives a chat its
\* post once at most, and "sent" is said of none that did not
\* (send_post_media_to_chat).
THEOREM ChainsDeliverOnce == FailuresSpec => []OneCopyPerChain
<1>1. FailuresInv => OneCopyPerChain
  BY DEF FailuresInv, ChainInv, Honest, Link, OneCopyPerChain
<1>2. QED
  BY <1>1, FailuresSafe, PTL

\* No run, crash or delivery elsewhere takes a failure out of the table whose
\* post has not reached the user (delete_delivery_failure, clear_delivery_failure).
THEOREM FailuresAreKept == FailuresSpec => FailureKept
<1> DEFINE Kept == \A f \in saved : f \notin saved' => f \in received'
<1>1. FailuresInv /\ [FailuresNext]_failureVars => [Kept]_failureVars
  BY FailuresStep DEF Keeps
<1>2. QED
  BY <1>1, FailuresSafe, PTL DEF FailuresSpec, FailureKept

\* The claims of /retry_failed implement FencedLease for any number of
\* administrators, failures and tokens (claim_delivery_failures,
\* renew_delivery_failure_claim, release_delivery_failure_claims).
THEOREM RetriesAreFencedLeases == FailuresSpec => RetryLeases
<1>1. FailuresInv /\ [FailuresNext]_failureVars => [RetryLease!Next]_RetryLease!leaseVars
  BY FailuresStep, FailuresStutter
<1>2. QED
  BY <1>1, InitLeases, FailuresSafe, PTL DEF FailuresSpec, RetryLeases, RetryLease!Spec

================================================================================
