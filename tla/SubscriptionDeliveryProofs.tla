--------------------- MODULE SubscriptionDeliveryProofs ---------------------
(***************************************************************************)
(* The background delivery, for any number of users, subscriptions, posts, *)
(* tokens, requests of a send and crashes: nothing Telegram accepted is    *)
(* forgotten, no post is repeated without a reason, a revoked claim lets   *)
(* one request out, a removed subscription comes back with nothing, and    *)
(* the workers are clients of the claim protocol.                          *)
(***************************************************************************)
EXTENDS SubscriptionDelivery, TLAPS

(***************************************************************************)
(* The inductive invariant.                                                *)
(***************************************************************************)
\* What mark_subscription_empty reads of a row and writes back later.
Readable(interval, empties) ==
    interval \in Interval /\ empties \in 0..BackoffEntries

StoredRow == {r \in Row : IF r.present THEN Readable(r.interval, r.empties)
                                       ELSE Blank(r)}

RowsInv ==
    /\ sub \in [Subs -> StoredRow]
    /\ pause \in [Users -> Nat]
    /\ cooldown \in [Users -> Nat]

LoopInv ==
    /\ process \in {"up", "stopping", "down"}
    /\ pass \in {"sleep", "scan", "serve", "digest", "stuck"}
    /\ todo \subseteq Subs /\ own \subseteq Subs /\ jammed \subseteq Subs
    /\ allowed \in Configurations
    /\ crashes \in 0..MaxCrashes

\* The stages of a worker that has a post.
WithPost == {"enqueue", "digestUpdate", "digestRecord", "check", "queue",
             "send", "wire", "failed", "record", "update", "clear", "error"}

Fit(w) ==
    /\ w \in Worker
    /\ w.token = NoToken <=> w.stage \in {"idle", "claim"}
    /\ w.stage \in WithPost => w.post \in Post
    /\ w.stage \in {"idle", "claim", "select"} => w.post = NoPost
    /\ w.stage \in {"idle", "claim", "select", "save", "check"} => w.tries = 0
    /\ w.stage \in {"queue", "send"} => w.tries < SendAttempts
    /\ w.stage = "backoff" => Readable(w.interval, w.empties)

WorkersInv ==
    /\ worker = [s \in Subs |-> worker[s]]
    /\ \A s \in Subs : Fit(worker[s])

\* A token is one worker's, and the workers of a user are served in turn.
TokensApart ==
    \A r, s \in Subs :
        worker[r].token = worker[s].token /\ worker[r].token # NoToken => r = s
OnePerUser == \A r, s \in Busy : Owner[r] = Owner[s] => r = s

StoredInv ==
    /\ progress \in [Subs -> BOOLEAN]
    /\ history \in [Subs -> SUBSET Post]
    /\ digest \in [Subs -> SUBSET Post]
    /\ failures \in [Users -> SUBSET Post]

HistoryInv ==
    /\ userHistory \in [Users -> SUBSET Post]
    /\ unacked \in [Users -> SUBSET Post]
    /\ accepted \in [Users -> [Post -> 0..2]]

\* A post on its way to Telegram is not in the user's history.
Sending == {"save", "check", "queue", "send", "wire"}
Unsent(s) ==
    worker[s].stage \in Sending => worker[s].post \notin userHistory[Owner[s]]

BlindInv ==
    /\ blind \in [Subs -> 0..1]
    /\ \A s \in Subs : worker[s].stage = "send" => blind[s] = 0

BaseInv ==
    /\ RowsInv /\ LoopInv /\ WorkersInv /\ StoredInv /\ HistoryInv
    /\ \A s \in Subs : Unsent(s)

SafeInv ==
    /\ TokensApart /\ OnePerUser
    /\ AcceptedAccounted /\ NoUnexplainedDuplicate /\ RemovedLeavesNothing

DeliveryInv == BaseInv /\ SafeInv /\ BlindInv

(***************************************************************************)
(* What a worker's own step does.                                          *)
(***************************************************************************)
\* A statement of the claim protocol under the token t.
Statement(s, t) ==
    \/ RenewSubscriptionClaim(s, t)
    \/ \E delay \in 0..MaxDelay :
         UpdateSubscriptionTime(s, t, delay) \/ DeferSubscription(s, t, delay)
    \/ \E i \in Interval, n \in 0..BackoffEntries :
         MarkSubscriptionEmpty(s, t, i, n)
    \/ ReleaseSubscriptionClaim(s, t)

RowsStep(s) ==
    \/ UNCHANGED rowVars
    \/ worker[s].token \in Token /\ Statement(s, worker[s].token)

\* The worker goes on under its token, or ends.
Moves(s) ==
    /\ worker[s].stage # "idle"
    /\ worker' = [worker EXCEPT ![s] = worker'[s]]
    /\ Fit(worker'[s])
    /\ worker'[s].token \in {worker[s].token, NoToken}
    /\ worker[s].token = NoToken => worker'[s].token = NoToken
    /\ worker'[s].stage = "send" => \/ worker[s].stage = "send"
                                    \/ ClaimActive(s, worker[s].token)'

\* What it adds to the tables of a subscription it adds to one that exists.
Fills ==
    /\ StoredInv'
    /\ \A r \in Subs :
         sub[r].present \/ (history'[r] = history[r] /\ digest'[r] = digest[r])

\* Accepted posts stay accounted for.
Accounts(s) ==
    LET u == Owner[s]
        p == worker[s].post
    IN  /\ HistoryInv'
        /\ accepted' = accepted
        /\ \A v \in Users : /\ userHistory[v] \subseteq userHistory'[v]
                            /\ unacked[v] \subseteq unacked'[v]
                            /\ userHistory'[v] # userHistory[v] => v = u
        /\ Unrecorded(s) => \/ worker'[s].post = p /\ Unrecorded(s)'
                            \/ p \in userHistory'[u] \cup unacked'[u]
        /\ Unsent(s)'

OwnStep(s) ==
    Moves(s) /\ RowsStep(s) /\ Fills /\ Accounts(s) /\ LoopInv'


\* The rows stay in order and none goes.
RowsKept ==
    /\ RowsInv'
    /\ \A r \in Subs : sub[r].present => sub'[r].present

(***************************************************************************)
(* Rows.                                                                   *)
(***************************************************************************)
LEMMA RowTypes ==
    ASSUME NEW r \in StoredRow
    PROVE  /\ r \in Row
           /\ r.present \in BOOLEAN /\ r.active \in BOOLEAN
           /\ r.notified \in BOOLEAN
           /\ r.due \in Nat /\ r.lease \in Nat /\ r.interval \in Nat
           /\ r.empties \in Nat /\ r.token \in Token \cup {NoToken}
           /\ r.present => Readable(r.interval, r.empties)
           /\ ~r.present => Blank(r)
BY DEF StoredRow, Row

LEMMA RowsAreTyped == RowsInv => RowsOK
BY RowTypes DEF RowsInv, RowsOK

LEMMA OneRowKept ==
    ASSUME RowsInv, NEW s \in Subs, NEW r \in StoredRow, r.present,
           sub' = [sub EXCEPT ![s] = r], UNCHANGED <<pause, cooldown>>
    PROVE  RowsKept
BY DEF RowsInv, RowsKept

LEMMA UnchangedRowsKept ==
    ASSUME RowsInv, UNCHANGED rowVars
    PROVE  RowsKept
BY DEF RowsInv, RowsKept, rowVars

\* Rows that keep what a worker reads of them.
LEMMA RowsKeptTogether ==
    ASSUME RowsInv, pause' \in [Users -> Nat], cooldown' \in [Users -> Nat],
           NEW f, sub' = [s \in Subs |-> f[s]],
           \A s \in Subs : f[s] \in StoredRow /\ f[s].present = sub[s].present
    PROVE  RowsKept
BY DEF RowsInv, RowsKept

LEMMA FreedRow ==
    ASSUME NEW r \in StoredRow
    PROVE  /\ Freed(r) \in StoredRow
           /\ Freed(r).present = r.present
           /\ Freed(r).interval = r.interval /\ Freed(r).empties = r.empties
           /\ Freed(r).active = r.active /\ Freed(r).due = r.due
           /\ Freed(r).lease = 0 /\ Freed(r).token = NoToken
<1>1. /\ Freed(r) \in Row
      /\ Freed(r).present = r.present
      /\ Freed(r).interval = r.interval /\ Freed(r).empties = r.empties
      /\ Freed(r).active = r.active /\ Freed(r).due = r.due
      /\ Freed(r).lease = 0 /\ Freed(r).token = NoToken
  BY DEF StoredRow, Row, Freed
<1>2. QED
  BY <1>1 DEF StoredRow, Blank

\* A row that is there and keeps its interval and its counter.
LEMMA StillStored ==
    ASSUME NEW r \in StoredRow, r.present, NEW q \in Row, q.present,
           Readable(q.interval, q.empties)
    PROVE  q \in StoredRow
BY DEF StoredRow

LEMMA ClaimKeepsRows ==
    ASSUME RowsInv, NEW s \in Subs, NEW t \in Token, ClaimDueSubscription(s, t)
    PROVE  RowsKept
<1> DEFINE q == [sub[s] EXCEPT !.lease = LeaseTicks, !.token = t]
<1>0. sub[s] \in StoredRow /\ sub[s].present
  BY DEF ClaimDueSubscription, Claimable, RowsInv
<1>1. /\ q \in Row /\ q.present
      /\ q.interval = sub[s].interval /\ q.empties = sub[s].empties
  BY <1>0, TimeAssumption DEF StoredRow, Row
<1>2. sub' = [sub EXCEPT ![s] = q] /\ UNCHANGED <<pause, cooldown>>
  BY DEF ClaimDueSubscription, RowsInv
<1> HIDE DEF q
<1>3. q \in StoredRow
  BY <1>0, <1>1, RowTypes, StillStored
<1>4. QED
  BY <1>1, <1>2, <1>3, OneRowKept

LEMMA StatementKeepsRows ==
    ASSUME RowsInv, NEW s \in Subs, NEW t, Statement(s, t)
    PROVE  RowsKept
<1>0. sub[s] \in StoredRow /\ sub[s].present
  BY DEF Statement, RenewSubscriptionClaim, ClaimActive, Owned, RowsInv,
    UpdateSubscriptionTime, DeferSubscription, MarkSubscriptionEmpty,
    ReleaseSubscriptionClaim
<1>1. /\ Freed(sub[s]) \in StoredRow /\ Freed(sub[s]).present
      /\ Freed(sub[s]) \in Row
      /\ Readable(Freed(sub[s]).interval, Freed(sub[s]).empties)
  BY <1>0, FreedRow, RowTypes
<1>2. CASE RenewSubscriptionClaim(s, t)
  <2> DEFINE q == [sub[s] EXCEPT !.lease = LeaseTicks]
  <2>1. /\ q \in Row /\ q.present
        /\ q.interval = sub[s].interval /\ q.empties = sub[s].empties
    BY <1>0, TimeAssumption DEF StoredRow, Row
  <2>2. sub' = [sub EXCEPT ![s] = q] /\ UNCHANGED <<pause, cooldown>>
    BY <1>2 DEF RenewSubscriptionClaim
  <2> HIDE DEF q
  <2>3. q \in StoredRow
    BY <1>0, <2>1, RowTypes, StillStored
  <2>4. QED
    BY <2>1, <2>2, <2>3, OneRowKept
<1>3. ASSUME NEW delay \in 0..MaxDelay, UpdateSubscriptionTime(s, t, delay)
      PROVE  RowsKept
  <2> DEFINE due == Later(sub[s].interval, Sooner(delay, MaxDelay))
             q == [Freed(sub[s]) EXCEPT !.due = due, !.empties = 0,
                                        !.notified = FALSE]
  <2>1. due \in Nat
    BY <1>0, RowTypes, TimeAssumption DEF Later, Sooner
  <2>2. sub' = [sub EXCEPT ![s] = q] /\ UNCHANGED <<pause, cooldown>>
    BY <1>3 DEF UpdateSubscriptionTime
  <2> HIDE DEF due
  <2>3. /\ q \in Row /\ q.present
        /\ q.interval = Freed(sub[s]).interval /\ q.empties = 0
    BY <1>1, <2>1 DEF Row
  <2> HIDE DEF q
  <2>4. q \in StoredRow
    BY <1>0, <1>1, <2>3, StillStored, BackoffAssumption DEF Readable
  <2>5. QED
    BY <2>2, <2>3, <2>4, OneRowKept
<1>4. ASSUME NEW delay \in 0..MaxDelay, DeferSubscription(s, t, delay)
      PROVE  RowsKept
  <2> DEFINE due == Later(1, Sooner(delay, MaxDelay))
             q == [Freed(sub[s]) EXCEPT !.due = due]
  <2>1. due \in Nat
    BY TimeAssumption DEF Later, Sooner
  <2>2. sub' = [sub EXCEPT ![s] = q] /\ UNCHANGED <<pause, cooldown>>
    BY <1>4 DEF DeferSubscription
  <2> HIDE DEF due
  <2>3. /\ q \in Row /\ q.present
        /\ q.interval = Freed(sub[s]).interval
        /\ q.empties = Freed(sub[s]).empties
    BY <1>1, <2>1 DEF Row
  <2> HIDE DEF q
  <2>4. q \in StoredRow
    BY <1>0, <1>1, <2>3, StillStored
  <2>5. QED
    BY <2>2, <2>3, <2>4, OneRowKept
<1>5. ASSUME NEW i \in Interval, NEW n \in 0..BackoffEntries,
             MarkSubscriptionEmpty(s, t, i, n)
      PROVE  RowsKept
  <2> DEFINE due == GetEmptyBackoff(NextEmpties(n), i)
             m == NextEmpties(n)
             q == [Freed(sub[s]) EXCEPT !.due = due, !.empties = m,
                                        !.notified = TRUE]
  <2>1. m \in 1..BackoffEntries /\ m \in Nat
    BY BackoffAssumption DEF NextEmpties, Sooner
  <2>2. due \in Nat
    BY <2>1, BackoffAssumption, TimeAssumption DEF GetEmptyBackoff, Later
  <2>3. sub' = [sub EXCEPT ![s] = q] /\ UNCHANGED <<pause, cooldown>>
    BY <1>5 DEF MarkSubscriptionEmpty
  <2> HIDE DEF due, m
  <2>4. /\ q \in Row /\ q.present
        /\ q.interval = Freed(sub[s]).interval /\ q.empties = m
    BY <1>1, <2>1, <2>2 DEF Row
  <2> HIDE DEF q
  <2>5. q \in StoredRow
    BY <1>0, <1>1, <2>1, <2>4, StillStored, BackoffAssumption DEF Readable
  <2>6. QED
    BY <2>3, <2>4, <2>5, OneRowKept
<1>6. CASE ReleaseSubscriptionClaim(s, t)
  <2>1. sub' = [sub EXCEPT ![s] = Freed(sub[s])] /\ UNCHANGED <<pause, cooldown>>
    BY <1>6 DEF ReleaseSubscriptionClaim
  <2>2. QED
    BY <1>1, <2>1, OneRowKept
<1>7. QED
  BY <1>2, <1>3, <1>4, <1>5, <1>6 DEF Statement

LEMMA StaleKeepsRows ==
    ASSUME RowsInv, ReleaseStaleSubscriptionClaims
    PROVE  RowsKept
<1> DEFINE f == [s \in Subs |-> IF sub[s].lease = 0 THEN Freed(sub[s])
                                                    ELSE sub[s]]
<1>1. ASSUME NEW s \in Subs
      PROVE  f[s] \in StoredRow /\ f[s].present = sub[s].present
  BY FreedRow DEF RowsInv
<1>2. sub' = [s \in Subs |-> f[s]]
  BY DEF ReleaseStaleSubscriptionClaims
<1>3. pause' \in [Users -> Nat] /\ cooldown' \in [Users -> Nat]
  BY DEF ReleaseStaleSubscriptionClaims, RowsInv
<1> HIDE DEF f
<1>4. QED
  BY <1>1, <1>2, <1>3, RowsKeptTogether

LEMMA TickKeepsRows ==
    ASSUME RowsInv, Tick
    PROVE  RowsKept
<1> DEFINE f == [s \in Subs |-> [sub[s] EXCEPT !.due = OneTickLess(@),
                                               !.lease = OneTickLess(@)]]
<1>0. ASSUME NEW n \in Nat
      PROVE  OneTickLess(n) \in Nat /\ (n = 0 => OneTickLess(n) = 0)
  BY DEF OneTickLess
<1>1. ASSUME NEW s \in Subs
      PROVE  f[s] \in StoredRow /\ f[s].present = sub[s].present
  <2>1. sub[s] \in StoredRow
    BY DEF RowsInv
  <2>2. PICK d, l : d = OneTickLess(sub[s].due) /\ l = OneTickLess(sub[s].lease)
    OBVIOUS
  <2>3. /\ d \in Nat /\ l \in Nat
        /\ sub[s].due = 0 => d = 0
        /\ sub[s].lease = 0 => l = 0
    BY <1>0, <2>1, <2>2, RowTypes
  <2>4. f[s] = [sub[s] EXCEPT !.due = d, !.lease = l]
    BY <2>2
  <2> HIDE DEF f
  <2>5. /\ f[s] \in Row /\ f[s].present = sub[s].present
        /\ f[s].interval = sub[s].interval /\ f[s].empties = sub[s].empties
        /\ f[s].active = sub[s].active /\ f[s].token = sub[s].token
        /\ f[s].due = d /\ f[s].lease = l
    BY <2>1, <2>3, <2>4 DEF StoredRow, Row
  <2>6. QED
    BY <2>1, <2>3, <2>5 DEF StoredRow, Blank
<1>2. sub' = [s \in Subs |-> f[s]]
  BY DEF Tick
<1>3. pause' \in [Users -> Nat] /\ cooldown' \in [Users -> Nat]
  BY <1>0 DEF Tick, RowsInv
<1> HIDE DEF f
<1>4. QED
  BY <1>1, <1>2, <1>3, RowsKeptTogether
(***************************************************************************)
(* The user's commands.                                                    *)
(***************************************************************************)
LEMMA AddKeepsRows ==
    ASSUME RowsInv, NEW s \in Subs, NEW i \in Interval, AddSubscription(s, i)
    PROVE  RowsKept
<1>0. /\ sub[s] \in StoredRow /\ i \in Nat /\ Owner[s] \in Users
      /\ pause[Owner[s]] \in Nat
  BY OwnerAssumption, TimeAssumption DEF RowsInv
<1>1. CASE ChangeIntervalByAdd(s, i)
  <2> DEFINE q == [sub[s] EXCEPT !.interval = i]
  <2>1. sub' = [sub EXCEPT ![s] = q] /\ UNCHANGED <<pause, cooldown>>
    BY <1>1 DEF ChangeIntervalByAdd
  <2>2. /\ q \in Row /\ q.present /\ q.interval = i
        /\ q.empties = sub[s].empties /\ sub[s].present
    BY <1>0, <1>1 DEF StoredRow, Row, ChangeIntervalByAdd
  <2> HIDE DEF q
  <2>3. q \in StoredRow
    BY <1>0, <2>2, RowTypes, StillStored DEF Readable
  <2>4. QED
    BY <2>1, <2>2, <2>3, OneRowKept
<1>2. CASE ReactivateByAdd(s, i)
  <2> DEFINE q == [sub[s] EXCEPT !.interval = i, !.active = TRUE]
  <2>1. sub' = [sub EXCEPT ![s] = q] /\ UNCHANGED <<pause, cooldown>>
    BY <1>2 DEF ReactivateByAdd, RowsInv
  <2>2. /\ q \in Row /\ q.present /\ q.interval = i
        /\ q.empties = sub[s].empties /\ sub[s].present
    BY <1>0, <1>2 DEF StoredRow, Row, ReactivateByAdd
  <2> HIDE DEF q
  <2>3. q \in StoredRow
    BY <1>0, <2>2, RowTypes, StillStored DEF Readable
  <2>4. QED
    BY <2>1, <2>2, <2>3, OneRowKept
<1>3. CASE CreateByAdd(s, i)
  <2> DEFINE q == [Absent EXCEPT !.present = TRUE, !.active = TRUE,
                                 !.interval = i, !.due = pause[Owner[s]]]
  <2>1. sub' = [sub EXCEPT ![s] = q] /\ pause' = pause
    BY <1>3 DEF CreateByAdd
  <2>2. q \in Row /\ q.present /\ q.interval = i /\ q.empties = 0
    BY <1>0 DEF Row, Absent
  <2>3. cooldown' \in [Users -> Nat]
    BY <1>0, <1>3, TimeAssumption DEF CreateByAdd, RowsInv
  <2> HIDE DEF q
  <2>4. q \in StoredRow
    BY <2>2, BackoffAssumption DEF StoredRow, Readable
  <2>5. QED
    BY <2>1, <2>2, <2>3, <2>4 DEF RowsInv, RowsKept
<1>4. QED
  BY <1>1, <1>2, <1>3 DEF AddSubscription

LEMMA IntervalKeepsRows ==
    ASSUME RowsInv, NEW s \in Subs, NEW i \in Interval,
           UpdateSubscriptionInterval(s, i)
    PROVE  RowsKept
<1> DEFINE q == [Freed(sub[s]) EXCEPT !.interval = i, !.due = i, !.empties = 0,
                                      !.notified = FALSE]
<1>0. /\ sub[s] \in StoredRow /\ sub[s].present /\ i \in Nat
      /\ Freed(sub[s]) \in StoredRow /\ Freed(sub[s]).present
  BY TimeAssumption, FreedRow DEF RowsInv, UpdateSubscriptionInterval
<1>1. sub' = [sub EXCEPT ![s] = q] /\ UNCHANGED <<pause, cooldown>>
  BY DEF UpdateSubscriptionInterval
<1>2. q \in Row /\ q.present /\ q.interval = i /\ q.empties = 0
  BY <1>0 DEF StoredRow, Row
<1> HIDE DEF q
<1>3. q \in StoredRow
  BY <1>2, BackoffAssumption DEF StoredRow, Readable
<1>4. QED
  BY <1>1, <1>2, <1>3, OneRowKept

LEMMA ToggleKeepsRows ==
    ASSUME RowsInv, NEW s \in Subs, Deactivate(s) \/ Reactivate(s)
    PROVE  RowsKept
<1>0. sub[s] \in StoredRow /\ sub[s].present
  BY DEF RowsInv, Deactivate, Reactivate
<1>1. PICK d, a : /\ d \in Nat /\ a \in BOOLEAN
                  /\ sub' = [sub EXCEPT ![s] = [sub[s] EXCEPT !.active = a, !.due = d]]
                  /\ UNCHANGED <<pause, cooldown>>
  <2>1. CASE Deactivate(s)
    <3>1. sub[s].due \in Nat
      BY <1>0, RowTypes
    <3>2. [sub[s] EXCEPT !.active = FALSE]
            = [sub[s] EXCEPT !.active = FALSE, !.due = sub[s].due]
      BY <1>0 DEF StoredRow, Row
    <3>3. QED
      BY <2>1, <3>1, <3>2 DEF Deactivate
  <2>2. CASE Reactivate(s)
    BY <2>2 DEF Reactivate, RowsInv
  <2>3. QED
    BY <2>1, <2>2
<1> DEFINE q == [sub[s] EXCEPT !.active = a, !.due = d]
<1>2. /\ q \in Row /\ q.present
      /\ q.interval = sub[s].interval /\ q.empties = sub[s].empties
  BY <1>0, <1>1 DEF StoredRow, Row
<1>3. sub' = [sub EXCEPT ![s] = q] /\ UNCHANGED <<pause, cooldown>>
  BY <1>1
<1> HIDE DEF q
<1>4. q \in StoredRow
  BY <1>0, <1>2, RowTypes, StillStored
<1>5. QED
  BY <1>2, <1>3, <1>4, OneRowKept

LEMMA PauseKeepsRows ==
    ASSUME RowsInv, NEW u \in Users, NEW due \in [Subs -> Nat],
           sub' = [s \in Subs |->
                     IF s \in ActiveRowsOf(u)
                     THEN [Freed(sub[s]) EXCEPT !.due = due[s]]
                     ELSE sub[s]],
           pause' \in [Users -> Nat], cooldown' = cooldown
    PROVE  RowsKept
<1> DEFINE f == [s \in Subs |-> IF s \in ActiveRowsOf(u)
                                THEN [Freed(sub[s]) EXCEPT !.due = due[s]]
                                ELSE sub[s]]
<1>1. ASSUME NEW s \in Subs
      PROVE  f[s] \in StoredRow /\ f[s].present = sub[s].present
  <2>0. sub[s] \in StoredRow
    BY DEF RowsInv
  <2>1. CASE s \notin ActiveRowsOf(u)
    BY <2>0, <2>1
  <2>2. CASE s \in ActiveRowsOf(u)
    <3>1. /\ sub[s].present
          /\ Freed(sub[s]) \in StoredRow /\ Freed(sub[s]).present
          /\ Freed(sub[s]) \in Row
          /\ Readable(Freed(sub[s]).interval, Freed(sub[s]).empties)
      BY <2>0, <2>2, FreedRow, RowTypes DEF ActiveRowsOf, RowsOf
    <3>2. f[s] = [Freed(sub[s]) EXCEPT !.due = due[s]]
      BY <2>2
    <3> HIDE DEF f
    <3>3. /\ f[s] \in Row /\ f[s].present
          /\ f[s].interval = Freed(sub[s]).interval
          /\ f[s].empties = Freed(sub[s]).empties
      BY <3>1, <3>2 DEF Row
    <3>4. QED
      BY <2>0, <3>1, <3>3, StillStored
  <2>3. QED
    BY <2>1, <2>2
<1>2. sub' = [s \in Subs |-> f[s]] /\ cooldown' \in [Users -> Nat]
  BY DEF RowsInv
<1> HIDE DEF f
<1>3. QED
  BY <1>1, <1>2, RowsKeptTogether

LEMMA PausesKeepRows ==
    ASSUME RowsInv, NEW u \in Users,
           \/ ResumeAllActive(u)
           \/ \E n \in PauseLength : PauseAllActive(u, n)
    PROVE  RowsKept
<1>1. CASE ResumeAllActive(u)
  <2> DEFINE due == [s \in Subs |-> 0]
  <2>1. due \in [Subs -> Nat]
    OBVIOUS
  <2>2. sub' = [s \in Subs |->
                  IF s \in ActiveRowsOf(u)
                  THEN [Freed(sub[s]) EXCEPT !.due = due[s]]
                  ELSE sub[s]]
    BY <1>1 DEF ResumeAllActive
  <2>3. pause' \in [Users -> Nat] /\ cooldown' = cooldown
    BY <1>1 DEF ResumeAllActive, RowsInv
  <2> HIDE DEF due
  <2>4. QED
    BY <2>1, <2>2, <2>3, PauseKeepsRows
<1>2. ASSUME NEW n \in PauseLength, PauseAllActive(u, n)
      PROVE  RowsKept
  <2> DEFINE due == [s \in Subs |-> Later(Freed(sub[s]).due, n)]
  <2>1. due \in [Subs -> Nat]
    BY FreedRow, RowTypes, TimeAssumption DEF Later, RowsInv
  <2>2. sub' = [s \in Subs |->
                  IF s \in ActiveRowsOf(u)
                  THEN [Freed(sub[s]) EXCEPT !.due = due[s]]
                  ELSE sub[s]]
    BY <1>2 DEF PauseAllActive
  <2>3. pause' \in [Users -> Nat] /\ cooldown' = cooldown
    BY <1>2, TimeAssumption DEF PauseAllActive, RowsInv
  <2> HIDE DEF due
  <2>4. QED
    BY <2>1, <2>2, <2>3, PauseKeepsRows
<1>3. QED
  BY <1>1, <1>2

LEMMA RemovalKeepsOthers ==
    ASSUME RowsInv, NEW s \in Subs, RemoveSubscription(s)
    PROVE  /\ RowsInv'
           /\ \A r \in Subs \ {s} : sub'[r] = sub[r]
<1>1. Absent \in StoredRow
  BY DEF StoredRow, Row, Absent, Blank
<1>2. QED
  BY <1>1 DEF RemoveSubscription, RowsInv
(***************************************************************************)
(* Workers.  The lemmas that follow say what a step does to one worker, so *)
(* that a step of a worker needs only its stages.                          *)
(***************************************************************************)
LEMMA Goes ==
    ASSUME WorkersInv, NEW s \in Subs, NEW stage \in Stages, Goto(s, stage)
    PROVE  /\ worker' = [worker EXCEPT ![s] = worker'[s]]
           /\ worker'[s] \in Worker
           /\ worker'[s].stage = stage
           /\ worker'[s].token = worker[s].token
           /\ worker'[s].post = worker[s].post
           /\ worker'[s].tries = worker[s].tries
           /\ worker'[s].accepted = worker[s].accepted
           /\ worker'[s].interval = worker[s].interval
           /\ worker'[s].empties = worker[s].empties
BY DEF WorkersInv, Fit, Goto, Worker

LEMMA Leaves ==
    ASSUME WorkersInv, NEW s \in Subs, NEW stage \in Stages,
           \/ Leave(s, stage)
           \/ worker' = [worker EXCEPT ![s].cancelled = 0, ![s].stage = stage]
    PROVE  /\ worker' = [worker EXCEPT ![s] = worker'[s]]
           /\ worker'[s] \in Worker
           /\ worker'[s].stage = stage
           /\ worker'[s].token = worker[s].token
           /\ worker'[s].post = worker[s].post
           /\ worker'[s].tries = worker[s].tries
<1> DEFINE v == [worker[s] EXCEPT !.stage = stage, !.cancelled = 0]
<1>1. worker' = [worker EXCEPT ![s] = v]
  BY DEF Leave, WorkersInv
<1>2. /\ v \in Worker /\ v.stage = stage /\ v.token = worker[s].token
      /\ v.post = worker[s].post /\ v.tries = worker[s].tries
  <2>1. PICK w : w = worker[s] /\ w \in Worker
    BY DEF WorkersInv, Fit
  <2>2. v = [w EXCEPT !.stage = stage, !.cancelled = 0]
    BY <2>1
  <2> HIDE DEF v
  <2>3. 0 \in 0..2
    OBVIOUS
  <2>4. /\ v \in Worker /\ v.stage = stage /\ v.token = w.token
        /\ v.post = w.post /\ v.tries = w.tries
    BY <2>1, <2>2, <2>3 DEF Worker
  <2>5. QED
    BY <2>1, <2>4
<1> HIDE DEF v
<1>3. QED
  BY <1>1, <1>2 DEF WorkersInv

LEMMA IdleFits == Fit(Idle) /\ Idle.token = NoToken /\ Idle.stage = "idle"
<1>1. /\ Idle.token = NoToken /\ Idle.stage = "idle" /\ Idle.tries = 0
      /\ Idle.post = NoPost
  BY DEF Idle
<1>2. "idle" \in Stages /\ SendAttempts \in Nat /\ 0 \in 0..MaxDelay
  BY DeliveryAssumption, TimeAssumption DEF Stages
<1>3. Idle \in Worker
  BY <1>2 DEF Idle, Worker
<1>4. QED
  BY <1>1, <1>3 DEF Fit, WithPost

\* The stages that ask nothing of a worker but its token.
Ends == {"release", "cancelDefer", "defer", "empty"}

\* A worker goes on with what it has.
LEMMA FitOn ==
    ASSUME NEW w, Fit(w), w.stage \notin {"idle", "claim"},
           NEW v \in Worker,
           v.token = w.token,
           \/ v.stage \in Ends
           \/ /\ v.stage \in {"enqueue", "digestUpdate", "digestRecord", "wire",
                              "failed", "record", "update", "clear", "error"}
              /\ v.post \in Post
           \/ v.stage = "save" /\ v.tries = 0
           \/ v.stage = "check" /\ v.post \in Post /\ v.tries = 0
           \/ v.stage \in {"queue", "send"} /\ v.post \in Post
                                            /\ v.tries < SendAttempts
           \/ v.stage = "backoff" /\ Readable(v.interval, v.empties)
    PROVE  Fit(v)
<1>1. v.token # NoToken /\ v.stage \notin {"idle", "claim", "select"}
  BY DEF Fit, Ends
<1>2. v.stage \in WithPost => v.post \in Post
  BY DEF WithPost, Ends
<1>3. v.stage \in {"save", "check"} => v.tries = 0
  BY DEF Ends
<1>4. v.stage \in {"queue", "send"} => v.tries < SendAttempts
  BY DEF Ends
<1>5. v.stage = "backoff" => Readable(v.interval, v.empties)
  BY DEF Ends
<1>6. QED
  BY <1>1, <1>2, <1>3, <1>4, <1>5 DEF Fit

LEMMA MovesOn ==
    ASSUME WorkersInv, NEW s \in Subs,
           worker[s].stage \notin {"idle", "claim"},
           worker' = [worker EXCEPT ![s] = worker'[s]],
           worker'[s].token = worker[s].token,
           worker'[s].stage = "send" => ClaimActive(s, worker[s].token)',
           Fit(worker'[s])
    PROVE  Moves(s)
BY DEF Moves, WorkersInv, Fit

LEMMA MovesOut ==
    ASSUME WorkersInv, NEW s \in Subs, worker[s].stage # "idle", Finish(s)
    PROVE  /\ Moves(s)
           /\ worker'[s].stage = "idle"
<1>1. worker'[s] = Idle /\ worker' = [worker EXCEPT ![s] = worker'[s]]
  BY DEF Finish, WorkersInv
<1>2. QED
  BY <1>1, IdleFits DEF Moves

LEMMA MovesToEnd ==
    ASSUME WorkersInv, NEW s \in Subs,
           worker[s].stage \notin {"idle", "claim"},
           NEW stage \in Ends, Goto(s, stage) \/ Leave(s, stage)
    PROVE  /\ Moves(s)
           /\ worker'[s].stage = stage
<1>0. stage \in Stages /\ stage # "send"
  BY DEF Ends, Stages
<1>1. /\ worker' = [worker EXCEPT ![s] = worker'[s]]
      /\ worker'[s] \in Worker
      /\ worker'[s].stage = stage
      /\ worker'[s].token = worker[s].token
  BY <1>0, Goes, Leaves
<1>2. Fit(worker[s])
  BY DEF WorkersInv
<1>3. Fit(worker'[s])
  BY <1>1, <1>2, FitOn
<1>4. QED
  BY <1>0, <1>1, <1>3, MovesOn

LEMMA MovesWithPost ==
    ASSUME WorkersInv, NEW s \in Subs, worker[s].stage \in WithPost,
           NEW stage \in {"digestUpdate", "digestRecord", "wire", "failed",
                          "record", "update", "clear", "error"},
           Goto(s, stage)
    PROVE  /\ Moves(s)
           /\ worker'[s].stage = stage /\ worker'[s].post = worker[s].post
           /\ worker'[s].accepted = worker[s].accepted
<1>0. stage \in Stages /\ stage # "send"
  BY DEF Stages
<1>1. /\ worker' = [worker EXCEPT ![s] = worker'[s]]
      /\ worker'[s] \in Worker
      /\ worker'[s].stage = stage
      /\ worker'[s].token = worker[s].token
      /\ worker'[s].post = worker[s].post
      /\ worker'[s].accepted = worker[s].accepted
  BY <1>0, Goes
<1>2. Fit(worker[s]) /\ worker[s].post \in Post
  BY DEF WorkersInv, Fit
<1>3. worker[s].stage \notin {"idle", "claim"}
  BY DEF WithPost
<1>4. Fit(worker'[s])
  BY <1>1, <1>2, <1>3, FitOn
<1>5. QED
  BY <1>0, <1>1, <1>3, <1>4, MovesOn

(***************************************************************************)
(* What is left alone.                                                     *)
(***************************************************************************)
LEMMA LoopStays ==
    ASSUME LoopInv, UNCHANGED <<loopVars, settings>>
    PROVE  LoopInv'
BY DEF LoopInv, loopVars, settings

LEMMA TablesStay ==
    ASSUME StoredInv, UNCHANGED storedVars
    PROVE  Fills
BY DEF StoredInv, Fills, storedVars

\* A worker that has no accepted post to lose.
LEMMA AccountsStay ==
    ASSUME BaseInv, NEW s \in Subs, worker' = [worker EXCEPT ![s] = worker'[s]],
           UNCHANGED <<userHistory, accepted, unacked>>,
           ~Unrecorded(s) \/ (worker'[s].post = worker[s].post /\ Unrecorded(s)'),
           \/ worker'[s].stage \notin Sending
           \/ worker'[s].post \in Post => worker'[s].post \notin userHistory[Owner[s]]
    PROVE  Accounts(s)
<1>1. HistoryInv'
  BY DEF BaseInv, HistoryInv
<1>2. Unsent(s)'
  <2>1. userHistory'[Owner[s]] \in SUBSET Post
    BY OwnerAssumption DEF BaseInv, HistoryInv
  <2>2. QED
    BY <2>1 DEF Unsent
<1>3. QED
  BY <1>1, <1>2 DEF Accounts
(***************************************************************************)
(* The steps of a worker.                                                  *)
(***************************************************************************)
LEMMA StageFacts ==
    ASSUME BaseInv, NEW s \in Subs
    PROVE  /\ Fit(worker[s]) /\ worker[s] \in Worker
           /\ worker[s].stage \notin {"idle", "claim"} => worker[s].token \in Token
           /\ worker[s].stage \notin {"record", "wire"} => ~Unrecorded(s)
           /\ worker[s].stage \in WithPost => worker[s].post \in Post
           /\ worker[s].stage \in Sending =>
                worker[s].post \notin userHistory[Owner[s]]
BY DEF BaseInv, WorkersInv, Fit, Worker, Unrecorded, Unsent

\* A step of a worker that has no accepted post to lose.
LEMMA Writes ==
    ASSUME BaseInv, NEW s \in Subs, Moves(s), RowsStep(s), Fills, LoopInv',
           UNCHANGED <<userHistory, accepted, unacked>>,
           ~Unrecorded(s) \/ (worker'[s].post = worker[s].post /\ Unrecorded(s)'),
           \/ worker'[s].stage \notin Sending
           \/ worker'[s].post \in Post => worker'[s].post \notin userHistory[Owner[s]]
    PROVE  OwnStep(s)
<1>1. worker' = [worker EXCEPT ![s] = worker'[s]]
  BY DEF Moves
<1>2. Accounts(s)
  BY <1>1, AccountsStay
<1>3. QED
  BY <1>2 DEF OwnStep

\* One that writes no table but the rows.
LEMMA Quiet ==
    ASSUME BaseInv, NEW s \in Subs, Moves(s), RowsStep(s),
           UNCHANGED <<loopVars, storedVars, telegramVars, settings>>,
           ~Unrecorded(s) \/ (worker'[s].post = worker[s].post /\ Unrecorded(s)'),
           \/ worker'[s].stage \notin Sending
           \/ worker'[s].post \in Post => worker'[s].post \notin userHistory[Owner[s]]
    PROVE  OwnStep(s)
<1>1. Fills
  BY TablesStay DEF BaseInv
<1>2. LoopInv'
  BY LoopStays DEF BaseInv
<1>3. UNCHANGED <<userHistory, accepted, unacked>>
  BY DEF storedVars, telegramVars
<1>4. QED
  BY <1>1, <1>2, <1>3, Writes

LEMMA Denying ==
    ASSUME BaseInv, NEW s \in Subs, DenyRecipient(s)
    PROVE  OwnStep(s)
<1>1. worker[s].stage = "denied"
  BY DEF DenyRecipient, At
<1>2. RowsStep(s)
  BY <1>1, StageFacts DEF DenyRecipient, Apply, RowsStep, Statement
<1>3. Moves(s) /\ worker'[s].stage = "idle"
  BY <1>1, MovesOut DEF DenyRecipient, BaseInv
<1>4. UNCHANGED <<loopVars, storedVars, telegramVars, settings>>
  BY DEF DenyRecipient
<1>5. QED
  BY <1>1, <1>2, <1>3, <1>4, Quiet, StageFacts DEF Sending

LEMMA Selecting ==
    ASSUME BaseInv, NEW s \in Subs, Select(s)
    PROVE  OwnStep(s)
<1>1. worker[s].stage = "select" /\ Owner[s] \in Users
  BY OwnerAssumption DEF Select, At
<1>2. PICK w, stage :
        /\ w \in Found(s) \cup Nothing(s) \cup Raised(s)
        /\ stage \in Outcomes(w, s) \cup {"save"}
        /\ worker' = [worker EXCEPT ![s] = [w EXCEPT !.stage = stage]]
  BY DEF Select
<1>3. PICK o : o = worker[s] /\ o \in Worker /\ o.stage = "select" /\ Fit(o)
  BY <1>1, StageFacts
<1>4. /\ w \in Worker /\ w.token = o.token /\ w.tries = 0
      /\ w.post = NoPost \/ w.post \in Unseen(s)
  <2>0. o.tries = 0 /\ o.post = NoPost
    BY <1>3 DEF Fit
  <2>1. CASE w \in Found(s)
    <3>1. PICK p \in Unseen(s) : w = [o EXCEPT !.post = p]
      BY <1>3, <2>1 DEF Found
    <3>2. p \in Post
      BY DeliveryAssumption DEF Unseen
    <3>3. QED
      BY <1>3, <2>0, <3>1, <3>2 DEF Worker
  <2>2. CASE w \in Nothing(s)
    BY <1>3, <2>0, <2>2 DEF Nothing
  <2>3. CASE w \in Raised(s)
    <3>1. PICK d \in (OutageDelay \ {0}) \cup {FailureDelay} :
            w = [o EXCEPT !.delay = d]
      BY <1>3, <2>3 DEF Raised
    <3>2. d \in 0..MaxDelay
      BY DeliveryAssumption, TimeAssumption
    <3>3. QED
      BY <1>3, <2>0, <3>1, <3>2 DEF Worker
  <2>4. QED
    BY <1>2, <2>1, <2>2, <2>3
<1>5. Unseen(s) \subseteq Post /\ Unseen(s) \cap userHistory[Owner[s]] = {}
  BY DeliveryAssumption DEF Unseen
<1>6. /\ stage \in {"empty", "defer", "save", "check", "enqueue"}
      /\ stage \in {"check", "enqueue"} => w.post \in Post
  BY <1>2, <1>4, <1>5 DEF Outcomes
<1>7. PICK v : v = [w EXCEPT !.stage = stage]
  OBVIOUS
<1>8. /\ v \in Worker /\ v.stage = stage /\ v.token = o.token /\ v.tries = 0
      /\ v.post = w.post
  BY <1>4, <1>6, <1>7 DEF Worker, Stages
<1>9. worker'[s] = v /\ worker' = [worker EXCEPT ![s] = worker'[s]]
  BY <1>2, <1>7 DEF BaseInv, WorkersInv
<1>10. Fit(v)
  BY <1>3, <1>6, <1>8, FitOn DEF Ends
<1>11. Moves(s)
  BY <1>1, <1>3, <1>6, <1>8, <1>9, <1>10, MovesOn DEF BaseInv
<1>12. RowsStep(s) /\ UNCHANGED <<loopVars, storedVars, telegramVars, settings>>
  BY DEF Select, RowsStep
<1>13. worker'[s].post \in Post => worker'[s].post \notin userHistory[Owner[s]]
  BY <1>4, <1>5, <1>8, <1>9, DeliveryAssumption
<1>14. QED
  BY <1>1, <1>11, <1>12, <1>13, Quiet, StageFacts
LEMMA SavingProgress ==
    ASSUME BaseInv, NEW s \in Subs, SaveProgress(s)
    PROVE  OwnStep(s)
<1>1. worker[s].stage = "save"
  BY DEF SaveProgress, At
<1>2. PICK stage \in Outcomes(worker[s], s) : Goto(s, stage)
  BY DEF SaveProgress
<1>3. PICK w : w = worker[s] /\ w \in Worker /\ w.stage = "save" /\ Fit(w)
  BY <1>1, StageFacts
<1>4. /\ stage \in {"empty", "defer", "check", "enqueue"}
      /\ stage \in {"check", "enqueue"} => w.post \in Post
  BY <1>2, <1>3 DEF Outcomes, Worker
<1>5. /\ worker' = [worker EXCEPT ![s] = worker'[s]]
      /\ worker'[s] \in Worker /\ worker'[s].stage = stage
      /\ worker'[s].token = w.token /\ worker'[s].post = w.post
      /\ worker'[s].tries = 0
  <2>1. stage \in Stages /\ w.tries = 0
    BY <1>3, <1>4 DEF Stages, Fit
  <2>2. QED
    BY <1>2, <1>3, <2>1, Goes DEF BaseInv
<1>6. Fit(worker'[s])
  BY <1>3, <1>4, <1>5, FitOn DEF Ends
<1>7. Moves(s)
  BY <1>1, <1>3, <1>4, <1>5, <1>6, MovesOn DEF BaseInv
<1>8. Fills /\ RowsStep(s)
  BY DEF SaveProgress, BaseInv, StoredInv, Fills, RowsStep
<1>9. UNCHANGED <<userHistory, accepted, unacked>> /\ LoopInv'
  BY LoopStays DEF SaveProgress, telegramVars, BaseInv
<1>10. worker'[s].post \notin userHistory[Owner[s]]
  BY <1>1, <1>3, <1>5, StageFacts DEF Sending
<1>11. QED
  BY <1>1, <1>7, <1>8, <1>9, <1>10, Writes, StageFacts

LEMMA Enqueuing ==
    ASSUME BaseInv, NEW s \in Subs, EnqueueDigest(s)
    PROVE  OwnStep(s)
<1>1. worker[s].stage = "enqueue" /\ worker[s].post \in Post
  BY StageFacts DEF EnqueueDigest, At, WithPost
<1>2. Moves(s) /\ worker'[s].stage = "digestUpdate"
  BY <1>1, MovesWithPost DEF EnqueueDigest, BaseInv, WithPost
<1>3. Fills
  BY <1>1 DEF EnqueueDigest, Enqueued, BaseInv, StoredInv, Fills
<1>4. RowsStep(s) /\ UNCHANGED <<userHistory, accepted, unacked>> /\ LoopInv'
  BY LoopStays DEF EnqueueDigest, telegramVars, BaseInv, RowsStep
<1>5. QED
  BY <1>1, <1>2, <1>3, <1>4, Writes, StageFacts DEF Sending

\* update_subscription_time with what the breaker adds.
LEMMA Updating ==
    ASSUME BaseInv, NEW s \in Subs, NEW d \in OutageDelay,
           worker[s].stage \notin {"idle", "claim"},
           \/ UpdateSubscriptionTime(s, worker[s].token, d)
           \/ UNCHANGED rowVars
    PROVE  RowsStep(s)
<1>1. d \in 0..MaxDelay
  BY DeliveryAssumption
<1>2. QED
  BY <1>1, StageFacts DEF RowsStep, Statement

LEMMA ReschedulingDigest ==
    ASSUME BaseInv, NEW s \in Subs, RescheduleDigest(s)
    PROVE  OwnStep(s)
<1>1. worker[s].stage = "digestUpdate"
  BY DEF RescheduleDigest, At
<1>2. RowsStep(s)
  BY <1>1, Updating DEF RescheduleDigest, Apply
<1>3. Moves(s) /\ worker'[s].stage \in {"digestRecord", "release"}
  <2>1. Goto(s, "digestRecord") \/ Goto(s, "release")
    BY DEF RescheduleDigest, Apply
  <2>2. CASE Goto(s, "digestRecord")
    BY <1>1, <2>2, MovesWithPost DEF BaseInv, WithPost
  <2>3. CASE Goto(s, "release")
    BY <1>1, <2>3, MovesToEnd DEF BaseInv, Ends
  <2>4. QED
    BY <2>1, <2>2, <2>3
<1>4. UNCHANGED <<loopVars, storedVars, telegramVars, settings>>
  BY DEF RescheduleDigest
<1>5. QED
  BY <1>1, <1>2, <1>3, <1>4, Quiet, StageFacts DEF Sending

LEMMA QueryHistoryFills ==
    ASSUME BaseInv, NEW s \in Subs, worker[s].post \in Post,
           history' = QueryHistoryWith(s) \/ history' = history,
           UNCHANGED <<progress, digest, failures>>
    PROVE  Fills
BY DEF QueryHistoryWith, BaseInv, StoredInv, Fills

LEMMA RecordingDigest ==
    ASSUME BaseInv, NEW s \in Subs, RecordDigest(s)
    PROVE  OwnStep(s)
<1>1. worker[s].stage = "digestRecord" /\ worker[s].post \in Post
  BY StageFacts DEF RecordDigest, At, WithPost
<1>2. Moves(s) /\ worker'[s].stage = "idle"
  BY <1>1, MovesOut DEF RecordDigest, BaseInv
<1>3. Fills
  BY <1>1, QueryHistoryFills DEF RecordDigest
<1>4. RowsStep(s) /\ UNCHANGED <<userHistory, accepted, unacked>> /\ LoopInv'
  BY LoopStays DEF RecordDigest, telegramVars, BaseInv, RowsStep
<1>5. QED
  BY <1>1, <1>2, <1>3, <1>4, Writes, StageFacts DEF Sending

LEMMA Checking ==
    ASSUME BaseInv, NEW s \in Subs, CheckClaim(s)
    PROVE  OwnStep(s)
<1>1. worker[s].stage = "check" /\ worker[s].post \in Post
  BY StageFacts DEF CheckClaim, At, WithPost
<1>2. CASE Goto(s, "queue")
  <2>1. /\ worker' = [worker EXCEPT ![s] = worker'[s]]
        /\ worker'[s] \in Worker /\ worker'[s].stage = "queue"
        /\ worker'[s].token = worker[s].token
        /\ worker'[s].post = worker[s].post
        /\ worker'[s].tries = worker[s].tries
    BY <1>2, Goes DEF BaseInv, Stages
  <2>2. worker[s].tries < SendAttempts
    BY <1>1, StageFacts, DeliveryAssumption DEF Fit
  <2>3. Fit(worker'[s])
    BY <1>1, <2>1, <2>2, StageFacts, FitOn
  <2>4. Moves(s)
    BY <1>1, <2>1, <2>3, MovesOn DEF BaseInv
  <2>5. worker'[s].post \notin userHistory[Owner[s]]
    BY <1>1, <2>1, StageFacts DEF Sending
  <2>6. RowsStep(s) /\ UNCHANGED <<loopVars, storedVars, telegramVars, settings>>
    BY DEF CheckClaim, RowsStep
  <2>7. QED
    BY <1>1, <2>4, <2>5, <2>6, Quiet, StageFacts
<1>3. CASE Goto(s, "release")
  <2>1. Moves(s) /\ worker'[s].stage = "release"
    BY <1>1, <1>3, MovesToEnd DEF BaseInv, Ends
  <2>2. RowsStep(s) /\ UNCHANGED <<loopVars, storedVars, telegramVars, settings>>
    BY DEF CheckClaim, RowsStep
  <2>3. QED
    BY <1>1, <2>1, <2>2, Quiet, StageFacts DEF Sending
<1>4. QED
  BY <1>2, <1>3 DEF CheckClaim
LEMMA Revalidating ==
    ASSUME BaseInv, NEW s \in Subs, RevalidateClaim(s)
    PROVE  OwnStep(s)
<1>1. worker[s].stage = "queue" /\ worker[s].post \in Post
  BY StageFacts DEF RevalidateClaim, At, WithPost
<1>2. RowsStep(s) /\ UNCHANGED <<loopVars, storedVars, telegramVars, settings>>
  BY DEF RevalidateClaim, RowsStep
<1>3. CASE ClaimActive(s, worker[s].token)
  <2>0. Goto(s, "send")
    BY <1>3 DEF RevalidateClaim
  <2>1. /\ worker' = [worker EXCEPT ![s] = worker'[s]]
        /\ worker'[s] \in Worker /\ worker'[s].stage = "send"
        /\ worker'[s].token = worker[s].token
        /\ worker'[s].post = worker[s].post
        /\ worker'[s].tries = worker[s].tries
    BY <2>0, Goes DEF BaseInv, Stages
  <2>2. worker[s].tries < SendAttempts
    BY <1>1, StageFacts DEF Fit
  <2>3. Fit(worker'[s])
    BY <1>1, <2>1, <2>2, StageFacts, FitOn
  <2>4. ClaimActive(s, worker[s].token)'
    BY <1>3, <2>1 DEF ClaimActive, Owned, Paused, RevalidateClaim, rowVars
  <2>5. Moves(s)
    BY <1>1, <2>1, <2>3, <2>4, MovesOn DEF BaseInv
  <2>6. worker'[s].post \notin userHistory[Owner[s]]
    BY <1>1, <2>1, StageFacts DEF Sending
  <2>7. QED
    BY <1>1, <1>2, <2>5, <2>6, Quiet, StageFacts
<1>4. CASE ~ClaimActive(s, worker[s].token)
  <2>1. Moves(s) /\ worker'[s].stage = "failed"
    BY <1>1, <1>4, MovesWithPost DEF BaseInv, WithPost, RevalidateClaim
  <2>2. QED
    BY <1>1, <1>2, <2>1, Quiet, StageFacts DEF Sending
<1>5. QED
  BY <1>3, <1>4

LEMMA Issuing ==
    ASSUME BaseInv, NEW s \in Subs, IssueRequest(s)
    PROVE  OwnStep(s)
<1>1. worker[s].stage = "send" /\ worker[s].post \in Post
  BY StageFacts DEF IssueRequest, At, WithPost
<1>2. PICK w : w = worker[s] /\ w \in Worker /\ Fit(w) /\ w.stage = "send"
  BY <1>1, StageFacts
<1>3. PICK n : n = w.tries + 1
  OBVIOUS
<1>4. n \in 0..SendAttempts
  BY <1>2, <1>3, DeliveryAssumption DEF Fit, Worker
<1>5. PICK v : v = [w EXCEPT !.stage = "wire", !.tries = n]
  OBVIOUS
<1>6. /\ v \in Worker /\ v.stage = "wire" /\ v.token = w.token /\ v.post = w.post
  BY <1>2, <1>4, <1>5 DEF Worker, Stages
<1>7. worker'[s] = v /\ worker' = [worker EXCEPT ![s] = worker'[s]]
  BY <1>2, <1>3, <1>5 DEF IssueRequest, BaseInv, WorkersInv
<1>8. Fit(v)
  BY <1>1, <1>2, <1>6, FitOn
<1>9. Moves(s)
  BY <1>1, <1>2, <1>6, <1>7, <1>8, MovesOn DEF BaseInv
<1>10. worker'[s].post \notin userHistory[Owner[s]]
  BY <1>1, <1>2, <1>6, <1>7, StageFacts DEF Sending
<1>11. RowsStep(s) /\ UNCHANGED <<loopVars, storedVars, telegramVars, settings>>
  BY DEF IssueRequest, RowsStep
<1>12. QED
  BY <1>1, <1>9, <1>10, <1>11, Quiet, StageFacts

LEMMA Answering ==
    ASSUME BaseInv, NEW s \in Subs, ReplyArrives(s)
    PROVE  OwnStep(s)
<1>1. worker[s].stage = "wire" /\ worker[s].post \in Post
  BY StageFacts DEF ReplyArrives, At, WithPost
<1>2. /\ Moves(s)
      /\ worker'[s].stage = "record" /\ worker'[s].post = worker[s].post
  BY <1>1, MovesWithPost DEF BaseInv, WithPost, ReplyArrives
<1>3. Unrecorded(s)'
  BY <1>2 DEF Unrecorded
<1>4. RowsStep(s) /\ UNCHANGED <<loopVars, storedVars, telegramVars, settings>>
  BY DEF ReplyArrives, RowsStep
<1>5. QED
  BY <1>2, <1>3, <1>4, Quiet DEF Sending

LEMMA Rejecting ==
    ASSUME BaseInv, NEW s \in Subs, TelegramRejects(s)
    PROVE  OwnStep(s)
<1>1. worker[s].stage = "wire" /\ worker[s].post \in Post /\ ~Unrecorded(s)
  BY StageFacts DEF TelegramRejects, At, WithPost, Unrecorded
<1>2. RowsStep(s) /\ UNCHANGED <<loopVars, storedVars, telegramVars, settings>>
  BY DEF TelegramRejects, RowsStep
<1>3. CASE worker[s].tries < SendAttempts
  <2>0. Goto(s, "queue")
    BY <1>3 DEF TelegramRejects
  <2>1. /\ worker' = [worker EXCEPT ![s] = worker'[s]]
        /\ worker'[s] \in Worker /\ worker'[s].stage = "queue"
        /\ worker'[s].token = worker[s].token
        /\ worker'[s].post = worker[s].post
        /\ worker'[s].tries = worker[s].tries
    BY <2>0, Goes DEF BaseInv, Stages
  <2>2. Fit(worker'[s])
    BY <1>1, <1>3, <2>1, StageFacts, FitOn
  <2>3. Moves(s)
    BY <1>1, <2>1, <2>2, MovesOn DEF BaseInv
  <2>4. worker'[s].post \notin userHistory[Owner[s]]
    BY <1>1, <2>1, StageFacts DEF Sending
  <2>5. QED
    BY <1>1, <1>2, <2>3, <2>4, Quiet
<1>4. CASE ~(worker[s].tries < SendAttempts)
  <2>1. Moves(s) /\ worker'[s].stage = "failed"
    BY <1>1, <1>4, MovesWithPost DEF BaseInv, WithPost, TelegramRejects
  <2>2. QED
    BY <1>1, <1>2, <2>1, Quiet DEF Sending
<1>5. QED
  BY <1>3, <1>4

\* A worker that is to defer its row.
LEMMA MovesToDefer ==
    ASSUME WorkersInv, NEW s \in Subs,
           worker[s].stage \notin {"idle", "claim"},
           NEW stage \in {"defer", "error"}, NEW d \in 0..MaxDelay,
           stage = "error" => worker[s].post \in Post,
           \/ worker' = [worker EXCEPT ![s].stage = stage, ![s].delay = d]
           \/ worker' = [worker EXCEPT ![s].delay = d, ![s].stage = stage]
    PROVE  /\ Moves(s)
           /\ worker'[s].stage = stage
<1>1. PICK w : w = worker[s] /\ w \in Worker /\ Fit(w)
  BY DEF WorkersInv, Fit
<1>2. PICK v : v = [w EXCEPT !.stage = stage, !.delay = d]
  OBVIOUS
<1>3. /\ v \in Worker /\ v.stage = stage /\ v.token = w.token /\ v.post = w.post
  BY <1>1, <1>2 DEF Worker, Stages
<1>4. worker'[s] = v /\ worker' = [worker EXCEPT ![s] = worker'[s]]
  <2>1. CASE worker' = [worker EXCEPT ![s].stage = stage, ![s].delay = d]
    BY <1>1, <1>2, <2>1 DEF WorkersInv
  <2>2. CASE worker' = [worker EXCEPT ![s].delay = d, ![s].stage = stage]
    <3>1. v = [w EXCEPT !.delay = d, !.stage = stage]
      BY <1>1, <1>2 DEF Worker
    <3>2. QED
      BY <1>1, <2>2, <3>1 DEF WorkersInv
  <2>3. QED
    BY <2>1, <2>2
<1>5. stage = "error" => v.post \in Post
  BY <1>1, <1>3
<1>6. Fit(v)
  BY <1>1, <1>3, <1>5, FitOn DEF Ends
<1>7. QED
  BY <1>1, <1>3, <1>4, <1>6, MovesOn

LEMMA Failing ==
    ASSUME BaseInv, NEW s \in Subs, RequestFails(s)
    PROVE  OwnStep(s)
<1>1. worker[s].stage = "wire" /\ ~Unrecorded(s) /\ worker[s].post \in Post
  BY StageFacts DEF RequestFails, At, Unrecorded, WithPost
<1>2. Moves(s) /\ worker'[s].stage = "error"
  <2>1. FailureDelay \in 0..MaxDelay
    BY DeliveryAssumption, TimeAssumption
  <2>2. QED
    BY <1>1, <2>1, MovesToDefer DEF RequestFails, BaseInv
<1>3. RowsStep(s) /\ UNCHANGED <<loopVars, storedVars, telegramVars, settings>>
  BY DEF RequestFails, RowsStep
<1>4. QED
  BY <1>1, <1>2, <1>3, Quiet DEF Sending

LEMMA SavingFailure ==
    ASSUME BaseInv, NEW s \in Subs, SaveFailure(s)
    PROVE  OwnStep(s)
<1>1. /\ worker[s].stage \in {"failed", "error"} /\ worker[s].post \in Post
      /\ Owner[s] \in Users
  BY StageFacts, OwnerAssumption DEF SaveFailure, At, WithPost
<1>2. Moves(s) /\ worker'[s].stage \in {"release", "defer"}
  <2>1. Goto(s, "release") \/ Goto(s, "defer")
    BY DEF SaveFailure
  <2>2. QED
    BY <1>1, <2>1, MovesToEnd DEF BaseInv, Ends
<1>3. Fills
  BY <1>1 DEF SaveFailure, FailureSaved, BaseInv, StoredInv, Fills
<1>4. RowsStep(s) /\ UNCHANGED <<userHistory, accepted, unacked>> /\ LoopInv'
  BY LoopStays DEF SaveFailure, telegramVars, BaseInv, RowsStep
<1>5. QED
  BY <1>1, <1>2, <1>3, <1>4, Writes, StageFacts DEF Sending

LEMMA ReschedulingDelivered ==
    ASSUME BaseInv, NEW s \in Subs, RescheduleDelivered(s)
    PROVE  OwnStep(s)
<1>1. worker[s].stage = "update"
  BY DEF RescheduleDelivered, At
<1>2. RowsStep(s)
  BY <1>1, Updating DEF RescheduleDelivered, Apply
<1>3. Moves(s) /\ worker'[s].stage \in {"clear", "release"}
  <2>1. Goto(s, "clear") \/ Goto(s, "release")
    BY DEF RescheduleDelivered, Apply
  <2>2. CASE Goto(s, "clear")
    BY <1>1, <2>2, MovesWithPost DEF BaseInv, WithPost
  <2>3. CASE Goto(s, "release")
    BY <1>1, <2>3, MovesToEnd DEF BaseInv, Ends
  <2>4. QED
    BY <2>1, <2>2, <2>3
<1>4. UNCHANGED <<loopVars, storedVars, telegramVars, settings>>
  BY DEF RescheduleDelivered
<1>5. QED
  BY <1>1, <1>2, <1>3, <1>4, Quiet, StageFacts DEF Sending

LEMMA Clearing ==
    ASSUME BaseInv, NEW s \in Subs, ClearFailure(s)
    PROVE  OwnStep(s)
<1>1. worker[s].stage = "clear"
  BY DEF ClearFailure, At
<1>2. Moves(s) /\ worker'[s].stage = "idle"
  BY <1>1, MovesOut DEF ClearFailure, BaseInv
<1>3. Fills
  BY OwnerAssumption DEF ClearFailure, BaseInv, StoredInv, Fills
<1>4. RowsStep(s) /\ UNCHANGED <<userHistory, accepted, unacked>> /\ LoopInv'
  BY LoopStays DEF ClearFailure, telegramVars, BaseInv, RowsStep
<1>5. QED
  BY <1>1, <1>2, <1>3, <1>4, Writes, StageFacts DEF Sending
(***************************************************************************)
(* Acknowledgement: the post goes to the history or among those nobody     *)
(* could acknowledge.                                                      *)
(***************************************************************************)
LEMMA Settles ==
    ASSUME BaseInv, NEW s \in Subs, Moves(s), RowsStep(s), Fills, LoopInv',
           worker[s].post \in Post, worker'[s].stage \notin Sending,
           accepted' = accepted,
           \/ /\ userHistory' = [userHistory EXCEPT ![Owner[s]] =
                                   @ \cup {worker[s].post}]
              /\ unacked' = unacked
           \/ /\ unacked' = [unacked EXCEPT ![Owner[s]] =
                               @ \cup {worker[s].post}]
              /\ userHistory' = userHistory
    PROVE  OwnStep(s)
<1>0. Owner[s] \in Users
  BY OwnerAssumption
<1>1. HistoryInv'
  BY <1>0 DEF BaseInv, HistoryInv
<1>2. /\ \A v \in Users : /\ userHistory[v] \subseteq userHistory'[v]
                          /\ unacked[v] \subseteq unacked'[v]
                          /\ userHistory'[v] # userHistory[v] => v = Owner[s]
      /\ worker[s].post \in userHistory'[Owner[s]] \cup unacked'[Owner[s]]
  BY <1>0 DEF BaseInv, HistoryInv
<1>3. Unsent(s)'
  BY DEF Unsent
<1>4. Accounts(s)
  BY <1>1, <1>2, <1>3 DEF Accounts
<1>5. QED
  BY <1>4 DEF OwnStep

LEMMA Recording ==
    ASSUME BaseInv, NEW s \in Subs, RecordHistory(s)
    PROVE  OwnStep(s)
<1>1. worker[s].stage = "record" /\ worker[s].post \in Post
  BY StageFacts DEF RecordHistory, WithPost
<1>2. PICK stage \in {"update", "release", "cancelDefer"} :
        worker' = [worker EXCEPT ![s].cancelled = 0, ![s].stage = stage]
  BY DEF RecordHistory, CancelledTo
<1>3. /\ worker' = [worker EXCEPT ![s] = worker'[s]]
      /\ worker'[s] \in Worker /\ worker'[s].stage = stage
      /\ worker'[s].token = worker[s].token
      /\ worker'[s].post = worker[s].post
  BY <1>2, Leaves DEF BaseInv, Stages
<1>4. Fit(worker'[s])
  BY <1>1, <1>3, StageFacts, FitOn DEF Ends
<1>5. Moves(s)
  BY <1>1, <1>3, <1>4, MovesOn DEF BaseInv
<1>6. Fills
  BY <1>1, QueryHistoryFills DEF RecordHistory
<1>7. /\ RowsStep(s) /\ LoopInv' /\ UNCHANGED <<accepted, unacked>>
      /\ userHistory' = [userHistory EXCEPT ![Owner[s]] = @ \cup {worker[s].post}]
  BY LoopStays DEF RecordHistory, telegramVars, RowsStep, BaseInv
<1>8. QED
  BY <1>1, <1>3, <1>5, <1>6, <1>7, Settles DEF Sending

\* The ends of a cancelled worker.
LEMMA MovesToCancelled ==
    ASSUME WorkersInv, NEW s \in Subs,
           worker[s].stage \notin {"idle", "claim"},
           NEW stage \in Ends,
           \/ Leave(s, stage)
           \/ worker' = [worker EXCEPT ![s].cancelled = 0, ![s].stage = stage]
    PROVE  Moves(s) /\ worker'[s].stage = stage
<1>1. stage \in Stages /\ stage # "send"
  BY DEF Ends, Stages
<1>2. /\ worker' = [worker EXCEPT ![s] = worker'[s]]
      /\ worker'[s] \in Worker /\ worker'[s].stage = stage
      /\ worker'[s].token = worker[s].token
  BY <1>1, Leaves
<1>3. Fit(worker'[s])
  BY <1>2, FitOn DEF WorkersInv
<1>4. QED
  BY <1>1, <1>2, <1>3, MovesOn

LEMMA CancelledEnds ==
    ASSUME NEW s \in Subs
    PROVE  CancelledTo(s) \in Ends /\ CancelledTo(s) \notin Sending
BY DEF CancelledTo, Ends, Sending

LEMMA Aborting ==
    ASSUME BaseInv, NEW s \in Subs, RecordAborted(s)
    PROVE  OwnStep(s)
<1>1. worker[s].stage = "record" /\ worker[s].post \in Post
  BY StageFacts DEF RecordAborted, WithPost
<1>2. Moves(s) /\ worker'[s].stage \notin Sending
  BY <1>1, MovesToCancelled, CancelledEnds DEF RecordAborted, BaseInv
<1>3. Fills /\ RowsStep(s) /\ LoopInv' /\ UNCHANGED <<userHistory, accepted>>
  BY TablesStay, LoopStays DEF RecordAborted, storedVars, RowsStep, BaseInv
<1>4. unacked' = [unacked EXCEPT ![Owner[s]] = @ \cup {worker[s].post}]
  BY DEF RecordAborted
<1>5. QED
  BY <1>1, <1>2, <1>3, <1>4, Settles

\* A worker that stops waiting for its answer.
LEMMA Abandoning ==
    ASSUME BaseInv, NEW s \in Subs, Moves(s), worker[s].stage = "wire", Abandon(s),
           worker'[s].stage \notin Sending,
           UNCHANGED <<rowVars, loopVars, storedVars, accepted, settings>>
    PROVE  OwnStep(s)
<1>1. worker[s].post \in Post
  BY StageFacts DEF WithPost
<1>2. Fills /\ RowsStep(s) /\ LoopInv' /\ UNCHANGED <<userHistory, accepted>>
  BY TablesStay, LoopStays DEF storedVars, RowsStep, BaseInv
<1>3. CASE worker[s].accepted
  BY <1>1, <1>2, <1>3, Settles DEF Abandon
<1>4. CASE ~worker[s].accepted
  BY <1>2, <1>4, Writes DEF Abandon, Unrecorded
<1>5. QED
  BY <1>3, <1>4

LEMMA LosingAnswer ==
    ASSUME BaseInv, NEW s \in Subs, AnswerLost(s)
    PROVE  OwnStep(s)
<1>1. worker[s].stage = "wire"
  BY DEF AnswerLost, At
<1>2. Moves(s) /\ worker'[s].stage = "defer"
  <2>1. AmbiguousDelay \in 0..MaxDelay
    BY DeliveryAssumption, TimeAssumption
  <2>2. QED
    BY <1>1, <2>1, MovesToDefer DEF AnswerLost, BaseInv
<1>3. QED
  BY <1>1, <1>2, Abandoning DEF AnswerLost, Sending

(***************************************************************************)
(* The other ends, failing statements and the heartbeat.                   *)
(***************************************************************************)
LEMMA ReadingEmpties ==
    ASSUME BaseInv, NEW s \in Subs, ReadEmpties(s)
    PROVE  OwnStep(s)
<1>1. worker[s].stage = "empty"
  BY DEF ReadEmpties, At
<1>2. PICK w : w = worker[s] /\ w \in Worker /\ Fit(w)
  BY StageFacts
<1>3. PICK stage, i, n :
        /\ stage = IF sub[s].present THEN "backoff" ELSE "release"
        /\ i = sub[s].interval /\ n = sub[s].empties
  OBVIOUS
<1>4. i \in Nat /\ n \in Nat /\ (stage = "backoff" => Readable(i, n))
  BY <1>3, RowTypes DEF BaseInv, RowsInv
<1>5. PICK v : v = [w EXCEPT !.stage = stage, !.interval = i, !.empties = n]
  OBVIOUS
<1>6. stage \in {"backoff", "release"}
  BY <1>3
<1>7. /\ v \in Worker /\ v.stage = stage /\ v.token = w.token
      /\ v.interval = i /\ v.empties = n
  BY <1>2, <1>4, <1>5, <1>6 DEF Worker, Stages
<1>8. worker'[s] = v /\ worker' = [worker EXCEPT ![s] = worker'[s]]
  BY <1>2, <1>3, <1>5 DEF ReadEmpties, BaseInv, WorkersInv
<1>9. Fit(v)
  BY <1>1, <1>2, <1>4, <1>6, <1>7, FitOn DEF Ends
<1>10. Moves(s)
  BY <1>1, <1>2, <1>6, <1>7, <1>8, <1>9, MovesOn DEF BaseInv
<1>11. RowsStep(s) /\ UNCHANGED <<loopVars, storedVars, telegramVars, settings>>
  BY DEF ReadEmpties, RowsStep
<1>12. QED
  BY <1>1, <1>6, <1>7, <1>8, <1>10, <1>11, Quiet, StageFacts DEF Sending

LEMMA Marking ==
    ASSUME BaseInv, NEW s \in Subs, worker[s].stage = "backoff",
           \/ MarkSubscriptionEmpty(s, worker[s].token, worker[s].interval,
                                    worker[s].empties)
           \/ UNCHANGED rowVars
    PROVE  RowsStep(s)
<1>1. Readable(worker[s].interval, worker[s].empties)
  BY StageFacts DEF Fit
<1>2. QED
  BY <1>1, StageFacts DEF RowsStep, Statement, Readable

LEMMA Deferring ==
    ASSUME BaseInv, NEW s \in Subs, worker[s].stage \notin {"idle", "claim"},
           NEW d \in 0..MaxDelay,
           DeferSubscription(s, worker[s].token, d) \/ UNCHANGED rowVars
    PROVE  RowsStep(s)
BY StageFacts DEF RowsStep, Statement

LEMMA Ending ==
    ASSUME BaseInv, NEW s \in Subs,
           BackOff(s) \/ Defer(s) \/ CancelDefer(s) \/ Release(s)
    PROVE  OwnStep(s)
<1>1. worker[s].stage \in {"backoff", "defer", "cancelDefer", "release"}
  BY DEF BackOff, Defer, CancelDefer, Release, At
<1>2. RowsStep(s)
  <2>1. CASE BackOff(s)
    BY <2>1, Marking DEF BackOff, Apply, At
  <2>2. CASE Defer(s)
    <3>1. worker[s].delay \in 0..MaxDelay
      BY StageFacts DEF Worker
    <3>2. QED
      BY <1>1, <2>2, <3>1, Deferring DEF Defer, Apply
  <2>3. CASE CancelDefer(s)
    <3>1. AmbiguousDelay \in 0..MaxDelay
      BY DeliveryAssumption, TimeAssumption
    <3>2. QED
      BY <1>1, <2>3, <3>1, Deferring DEF CancelDefer, Apply
  <2>4. CASE Release(s)
    BY <1>1, <2>4, StageFacts DEF Release, Apply, RowsStep, Statement
  <2>5. QED
    BY <2>1, <2>2, <2>3, <2>4
<1>3. Moves(s) /\ worker'[s].stage \in {"idle", "release"}
  <2>1. Finish(s) \/ Goto(s, "release")
    BY DEF BackOff, Defer, CancelDefer, Release, Apply
  <2>2. CASE Finish(s)
    BY <1>1, <2>2, MovesOut DEF BaseInv
  <2>3. CASE Goto(s, "release")
    BY <1>1, <2>3, MovesToEnd DEF BaseInv, Ends
  <2>4. QED
    BY <2>1, <2>2, <2>3
<1>4. UNCHANGED <<loopVars, storedVars, telegramVars, settings>>
  BY DEF BackOff, Defer, CancelDefer, Release
<1>5. QED
  BY <1>1, <1>2, <1>3, <1>4, Quiet, StageFacts DEF Sending
LEMMA FailingStatement ==
    ASSUME BaseInv, NEW s \in Subs, StatementFails(s)
    PROVE  OwnStep(s)
<1>1. worker[s].stage \notin {"idle", "claim", "wire"} /\ worker[s] \in Worker
  BY StageFacts DEF StatementFails
<1>2. PICK stage \in {"defer", "error"} :
        /\ stage = "error" => worker[s].post # NoPost
        /\ worker' = [worker EXCEPT ![s].delay = FailureDelay, ![s].stage = stage]
  BY DEF StatementFails
<1>3. Moves(s) /\ worker'[s].stage = stage
  <2>1. FailureDelay \in 0..MaxDelay
    BY DeliveryAssumption, TimeAssumption
  <2>2. stage = "error" => worker[s].post \in Post
    BY <1>1, <1>2 DEF Worker
  <2>3. QED
    BY <1>1, <1>2, <2>1, <2>2, MovesToDefer DEF BaseInv
<1>4. Fills /\ RowsStep(s) /\ LoopInv' /\ UNCHANGED <<userHistory, accepted>>
  BY TablesStay, LoopStays DEF StatementFails, storedVars, RowsStep, BaseInv
<1>5. CASE worker[s].stage = "record"
  <2>1. worker[s].post \in Post
    BY <1>5, StageFacts DEF WithPost
  <2>2. unacked' = [unacked EXCEPT ![Owner[s]] = @ \cup {worker[s].post}]
    BY <1>5 DEF StatementFails
  <2>3. QED
    BY <1>3, <1>4, <2>1, <2>2, Settles DEF Sending
<1>6. CASE worker[s].stage # "record"
  <2>1. unacked' = unacked /\ ~Unrecorded(s)
    BY <1>1, <1>6 DEF StatementFails, Unrecorded
  <2>2. QED
    BY <1>3, <1>4, <2>1, Writes DEF Sending
<1>7. QED
  BY <1>5, <1>6

LEMMA BreakingPass ==
    ASSUME LoopInv, NEW s \in Subs, BreakPass(s), UNCHANGED settings
    PROVE  LoopInv'
BY DEF LoopInv, BreakPass, settings

LEMMA Raising ==
    ASSUME BaseInv, NEW s \in Subs, HandlerFails(s) \/ WorkerRaises(s)
    PROVE  OwnStep(s)
<1>1. worker[s].stage \in {"error", "defer", "claim", "denied", "release"}
  BY DEF HandlerFails, WorkerRaises, At
<1>2. Moves(s) /\ worker'[s].stage \in {"release", "idle"}
  <2>1. CASE HandlerFails(s)
    <3>1. worker[s].stage \notin {"idle", "claim"}
      BY <2>1 DEF HandlerFails, At
    <3>2. QED
      BY <2>1, <3>1, MovesToEnd DEF HandlerFails, BaseInv, Ends
  <2>2. CASE WorkerRaises(s)
    BY <1>1, <2>2, MovesOut DEF WorkerRaises, BaseInv
  <2>3. QED
    BY <2>1, <2>2
<1>3. LoopInv'
  BY BreakingPass DEF HandlerFails, WorkerRaises, BaseInv
<1>4. /\ Fills /\ RowsStep(s)
      /\ UNCHANGED <<userHistory, accepted, unacked>>
  BY TablesStay DEF HandlerFails, WorkerRaises, storedVars, telegramVars,
    RowsStep, BaseInv
<1>5. QED
  BY <1>1, <1>2, <1>3, <1>4, Writes, StageFacts DEF Sending

LEMMA Renewing ==
    ASSUME BaseInv, NEW s \in Subs, RenewClaim(s)
    PROVE  OwnStep(s)
<1>1. worker[s].stage \notin {"idle", "claim"} /\ worker' = worker
  BY DEF RenewClaim, Leased
<1>2. Moves(s)
  BY <1>1, StageFacts DEF Moves, BaseInv, WorkersInv
<1>3. RowsStep(s)
  BY <1>1, StageFacts DEF RenewClaim, RowsStep, Statement
<1>4. UNCHANGED <<loopVars, storedVars, telegramVars, settings>>
  BY DEF RenewClaim
<1>5. Unrecorded(s)' = Unrecorded(s)
  BY <1>1 DEF Unrecorded
<1>6. QED
  BY <1>1, <1>2, <1>3, <1>4, <1>5, Quiet, StageFacts

LEMMA LosingClaim ==
    ASSUME BaseInv, NEW s \in Subs, LoseClaim(s)
    PROVE  OwnStep(s)
<1>1. worker[s].stage \notin {"idle", "claim"}
  BY DEF LoseClaim, Leased
<1>2. PICK w : w = worker[s] /\ w \in Worker /\ Fit(w)
  BY StageFacts
<1>3. PICK n : n = Sooner(2, w.cancelled + 1)
  OBVIOUS
<1>4. n \in 0..2
  BY <1>2, <1>3 DEF Sooner, Worker
<1>5. PICK v : v = [w EXCEPT !.lost = TRUE, !.cancelled = n]
  OBVIOUS
<1>6. /\ v \in Worker /\ v.stage = w.stage /\ v.token = w.token
      /\ v.post = w.post /\ v.tries = w.tries /\ v.accepted = w.accepted
      /\ v.interval = w.interval /\ v.empties = w.empties
  BY <1>2, <1>4, <1>5 DEF Worker
<1>7. worker'[s] = v /\ worker' = [worker EXCEPT ![s] = worker'[s]]
  <2>1. [worker EXCEPT ![s].lost = TRUE, ![s].cancelled = Sooner(2, @ + 1)]
          = [worker EXCEPT ![s] = v]
    BY <1>2, <1>3, <1>5 DEF Worker, BaseInv, WorkersInv
  <2>2. QED
    BY <2>1 DEF LoseClaim, BaseInv, WorkersInv
<1>8. Fit(v)
  BY <1>2, <1>6 DEF Fit
<1>9. Moves(s)
  BY <1>1, <1>2, <1>6, <1>7, <1>8 DEF Moves, Fit
<1>10. Unrecorded(s)' = Unrecorded(s) /\ worker'[s].post = worker[s].post
  BY <1>2, <1>6, <1>7 DEF Unrecorded
<1>11. RowsStep(s) /\ UNCHANGED <<loopVars, storedVars, telegramVars, settings>>
  BY DEF LoseClaim, RowsStep
<1>12. QED
  BY <1>2, <1>6, <1>7, <1>9, <1>10, <1>11, Quiet, StageFacts

(***************************************************************************)
(* Cancelled workers.                                                      *)
(***************************************************************************)
LEMMA CancelledDenial ==
    ASSUME BaseInv, NEW s \in Subs, CancelDuringDenial(s)
    PROVE  OwnStep(s)
<1>1. worker[s].stage = "denied"
  BY DEF CancelDuringDenial
<1>2. RowsStep(s)
  BY <1>1, StageFacts DEF CancelDuringDenial, RowsStep, Statement
<1>3. Moves(s) /\ worker'[s].stage = "idle"
  BY <1>1, MovesOut DEF CancelDuringDenial, BaseInv
<1>4. UNCHANGED <<loopVars, storedVars, telegramVars, settings>>
  BY DEF CancelDuringDenial
<1>5. QED
  BY <1>1, <1>2, <1>3, <1>4, Quiet, StageFacts DEF Sending

LEMMA CancelledBefore ==
    ASSUME BaseInv, NEW s \in Subs, CancelBeforeDelivery(s)
    PROVE  OwnStep(s)
<1>1. worker[s].stage \in {"select", "check", "empty", "save", "enqueue",
                           "digestUpdate", "digestRecord", "backoff"}
  BY DEF CancelBeforeDelivery
<1>2. Moves(s) /\ worker'[s].stage = "release"
  BY <1>1, MovesToCancelled DEF CancelBeforeDelivery, BaseInv, Ends
<1>3. LoopInv' /\ UNCHANGED <<accepted, unacked>>
  BY LoopStays DEF CancelBeforeDelivery, telegramVars, BaseInv
<1>4. RowsStep(s) /\ Fills /\ userHistory' = userHistory
  <2>1. CASE /\ worker[s].stage \in {"select", "check", "empty"}
             /\ UNCHANGED <<rowVars, storedVars>>
    BY <2>1, TablesStay DEF RowsStep, BaseInv, storedVars
  <2>2. CASE /\ worker[s].stage = "save"
             /\ progress' \in {progress, [progress EXCEPT ![s] = TRUE]}
             /\ UNCHANGED <<rowVars, history, userHistory, digest, failures>>
    BY <2>2 DEF RowsStep, BaseInv, StoredInv, Fills
  <2>3. CASE /\ worker[s].stage = "enqueue"
             /\ digest' \in {digest, Enqueued(s)}
             /\ UNCHANGED <<rowVars, progress, history, userHistory, failures>>
    <3>1. worker[s].post \in Post
      BY <2>3, StageFacts DEF WithPost
    <3>2. QED
      BY <2>3, <3>1 DEF Enqueued, RowsStep, BaseInv, StoredInv, Fills
  <2>4. CASE /\ worker[s].stage = "digestUpdate"
             /\ \E d \in OutageDelay :
                  MayCommit(UpdateSubscriptionTime(s, worker[s].token, d))
             /\ UNCHANGED storedVars
    BY <2>4, TablesStay, Updating DEF MayCommit, BaseInv, storedVars
  <2>5. CASE /\ worker[s].stage = "digestRecord"
             /\ history' \in {history, QueryHistoryWith(s)}
             /\ UNCHANGED <<rowVars, progress, userHistory, digest, failures>>
    <3>1. worker[s].post \in Post
      BY <2>5, StageFacts DEF WithPost
    <3>2. QED
      BY <2>5, <3>1, QueryHistoryFills DEF RowsStep
  <2>6. CASE /\ worker[s].stage = "backoff"
             /\ MayCommit(MarkSubscriptionEmpty(s, worker[s].token,
                            worker[s].interval, worker[s].empties))
             /\ UNCHANGED storedVars
    BY <2>6, TablesStay, Marking DEF MayCommit, BaseInv, storedVars
  <2>7. QED
    BY <2>1, <2>2, <2>3, <2>4, <2>5, <2>6 DEF CancelBeforeDelivery
<1>5. QED
  BY <1>1, <1>2, <1>3, <1>4, Writes, StageFacts DEF Sending

LEMMA CancelledFailure ==
    ASSUME BaseInv, NEW s \in Subs, worker[s].post \in Post, MaySaveFailure(s)
    PROVE  Fills /\ userHistory' = userHistory
BY OwnerAssumption DEF MaySaveFailure, FailureSaved, BaseInv, StoredInv, Fills

LEMMA CancelledDelivery ==
    ASSUME BaseInv, NEW s \in Subs, CancelDuringDelivery(s)
    PROVE  OwnStep(s)
<1>1. worker[s].stage \in {"queue", "send", "clear", "wire", "failed", "update"}
  BY DEF CancelDuringDelivery
<1>2. Moves(s) /\ worker'[s].stage \notin Sending
  BY <1>1, MovesToCancelled, CancelledEnds DEF CancelDuringDelivery, BaseInv
<1>3. LoopInv' /\ accepted' = accepted
  BY LoopStays DEF CancelDuringDelivery, BaseInv
<1>4. CASE worker[s].stage = "wire"
  <2>1. Abandon(s) /\ UNCHANGED <<rowVars, storedVars>>
    BY <1>4 DEF CancelDuringDelivery
  <2>2. UNCHANGED <<loopVars, accepted, settings>>
    BY DEF CancelDuringDelivery
  <2>3. QED
    BY <1>2, <1>4, <2>1, <2>2, Abandoning
<1>5. CASE worker[s].stage # "wire"
  <2>1. RowsStep(s) /\ Fills /\ UNCHANGED <<userHistory, unacked>>
    <3>1. CASE UNCHANGED <<rowVars, storedVars, unacked>>
      BY <3>1, TablesStay DEF RowsStep, BaseInv, storedVars
    <3>2. CASE /\ worker[s].stage = "failed"
               /\ MaySaveFailure(s)
               /\ UNCHANGED <<rowVars, unacked>>
      BY <3>2, CancelledFailure, StageFacts DEF RowsStep, WithPost
    <3>3. CASE /\ worker[s].stage = "update"
               /\ \E d \in OutageDelay :
                    MayCommit(UpdateSubscriptionTime(s, worker[s].token, d))
               /\ UNCHANGED <<storedVars, unacked>>
      BY <3>3, TablesStay, Updating DEF MayCommit, BaseInv, storedVars
    <3>4. QED
      BY <1>5, <3>1, <3>2, <3>3 DEF CancelDuringDelivery
  <2>2. QED
    BY <1>1, <1>2, <1>3, <1>5, <2>1, Writes, StageFacts
<1>6. QED
  BY <1>4, <1>5

LEMMA CancelledHandler ==
    ASSUME BaseInv, NEW s \in Subs, CancelDuringHandler(s)
    PROVE  OwnStep(s)
<1>1. worker[s].stage \in {"defer", "error"}
  BY DEF CancelDuringHandler
<1>2. Moves(s) /\ worker'[s].stage = "release"
  BY <1>1, MovesToCancelled DEF CancelDuringHandler, BaseInv, Ends
<1>3. LoopInv' /\ UNCHANGED <<accepted, unacked>>
  BY LoopStays DEF CancelDuringHandler, telegramVars, BaseInv
<1>4. RowsStep(s) /\ Fills /\ userHistory' = userHistory
  <2>1. CASE worker[s].stage = "defer"
    <3>1. worker[s].delay \in 0..MaxDelay
      BY StageFacts DEF Worker
    <3>2. QED
      BY <1>1, <2>1, <3>1, TablesStay, Deferring
      DEF CancelDuringHandler, MayCommit, BaseInv, storedVars
  <2>2. CASE worker[s].stage = "error"
    <3>1. MaySaveFailure(s) /\ UNCHANGED rowVars
      BY <2>2 DEF CancelDuringHandler
    <3>2. QED
      BY <2>2, <3>1, CancelledFailure, StageFacts DEF RowsStep, WithPost
  <2>3. QED
    BY <1>1, <2>1, <2>2
<1>5. QED
  BY <1>1, <1>2, <1>3, <1>4, Writes, StageFacts DEF Sending
(***************************************************************************)
(* A worker claims its row; cancelled meanwhile, it never learns its token.*)
(***************************************************************************)
Grants(s, t) ==
    /\ worker[s].stage = "claim"
    /\ Fresh(t) /\ ClaimDueSubscription(s, t)
    /\ \/ worker' = [worker EXCEPT ![s].token = t, ![s].stage =
                       IF Owner[s] \in allowed THEN "select" ELSE "denied"]
       \/ Finish(s)
    /\ UNCHANGED <<loopVars, storedVars, telegramVars, settings>>

LEMMA Claiming ==
    ASSUME BaseInv, NEW s \in Subs, Claim(s) \/ CancelDuringClaim(s)
    PROVE  OwnStep(s) \/ \E t \in Token : Grants(s, t)
<1>1. /\ worker[s].stage = "claim"
      /\ UNCHANGED <<loopVars, storedVars, telegramVars, settings>>
  BY DEF Claim, CancelDuringClaim, At
<1>2. CASE UNCHANGED rowVars /\ Finish(s)
  <2>1. Moves(s) /\ worker'[s].stage = "idle"
    BY <1>1, <1>2, MovesOut DEF BaseInv
  <2>2. QED
    BY <1>1, <1>2, <2>1, Quiet, StageFacts DEF Sending, RowsStep
<1>3. QED
  BY <1>1, <1>2 DEF Claim, CancelDuringClaim, Grants

LEMMA StepsOfWorkers ==
    ASSUME BaseInv, NEW s \in Subs,
           WorkerStep(s) \/ Fault(s) \/ Heartbeat(s)
    PROVE  OwnStep(s) \/ \E t \in Token : Grants(s, t)
<1>1. CASE WorkerStep(s)
  BY <1>1, Claiming, Denying, Selecting, SavingProgress, Enqueuing,
    ReschedulingDigest, RecordingDigest, Checking, Revalidating, Issuing,
    Answering, Rejecting, LosingAnswer, Failing, SavingFailure, Recording,
    Aborting, ReschedulingDelivered, Clearing, ReadingEmpties, Ending,
    CancelledDenial, CancelledBefore, CancelledDelivery, CancelledHandler
  DEF WorkerStep
<1>2. CASE Fault(s)
  BY <1>2, FailingStatement, Raising DEF Fault
<1>3. CASE Heartbeat(s)
  BY <1>3, Renewing, LosingClaim DEF Heartbeat
<1>4. QED
  BY <1>1, <1>2, <1>3

(***************************************************************************)
(* Every step keeps the invariant.                                         *)
(***************************************************************************)
\* Who is about to send has been found active.
Arrives ==
    \A s \in Subs : worker'[s].stage = "send" =>
        worker[s].stage = "send" \/ ClaimActive(s, worker[s].token)'

\* What keeps who is busy, under which token, keeps both apart.
LEMMA StaysApart ==
    ASSUME TokensApart, OnePerUser,
           \A s \in Subs : /\ worker'[s].token \in {worker[s].token, NoToken}
                           /\ worker'[s].stage # "idle" => worker[s].stage # "idle"
    PROVE  TokensApart' /\ OnePerUser'
BY DEF TokensApart, OnePerUser, Busy

\* A table without an entry for a removed subscription stays so.
LEMMA NothingReturns ==
    ASSUME RemovedLeavesNothing, RowsKept, Fills
    PROVE  RemovedLeavesNothing'
BY DEF RemovedLeavesNothing, RowsKept, Fills

LEMMA OwnStepSafe ==
    ASSUME BaseInv, SafeInv, NEW s \in Subs, OwnStep(s)
    PROVE  BaseInv' /\ SafeInv' /\ Arrives
<1>0. /\ Owner \in [Subs -> Users]
      /\ Moves(s) /\ RowsStep(s) /\ Fills /\ Accounts(s) /\ LoopInv'
  BY OwnerAssumption DEF OwnStep
<1>1. \A r \in Subs \ {s} : worker'[r] = worker[r]
  BY <1>0 DEF Moves, BaseInv, WorkersInv
<1>2. RowsKept
  BY <1>0, StatementKeepsRows, UnchangedRowsKept DEF RowsStep, BaseInv
<1>3. WorkersInv'
  <2>1. \A r \in Subs : Fit(worker'[r])
    BY <1>0, <1>1 DEF Moves, BaseInv, WorkersInv
  <2>2. worker' = [r \in Subs |-> worker'[r]]
    BY <1>0 DEF Moves, BaseInv, WorkersInv
  <2>3. QED
    BY <2>1, <2>2 DEF WorkersInv
<1>4. \A r \in Subs : Unsent(r)'
  <2>1. SUFFICES ASSUME NEW r \in Subs \ {s}, worker[r].stage \in Sending
                 PROVE  worker[r].post \notin userHistory'[Owner[r]]
    BY <1>0, <1>1 DEF Unsent, Accounts
  <2>2. Owner[r] # Owner[s]
    BY <1>0, <2>1 DEF Moves, SafeInv, OnePerUser, Busy, Sending
  <2>3. userHistory'[Owner[r]] = userHistory[Owner[r]]
    BY <1>0, <2>2 DEF Accounts
  <2>4. QED
    BY <2>1, <2>3 DEF BaseInv, Unsent
<1>5. TokensApart' /\ OnePerUser'
  <2>1. \A r \in Subs : /\ worker'[r].token \in {worker[r].token, NoToken}
                        /\ worker'[r].stage # "idle" => worker[r].stage # "idle"
    BY <1>0, <1>1 DEF Moves
  <2>2. QED
    BY <2>1, StaysApart DEF SafeInv
<1>6. AcceptedAccounted'
  <2>1. SUFFICES ASSUME NEW u \in Users, NEW p \in Post, accepted[u][p] > 0
                 PROVE  \/ p \in userHistory'[u] \cup unacked'[u]
                        \/ \E r \in Busy' : /\ Owner[r] = u /\ worker'[r].post = p
                                            /\ Unrecorded(r)'
    BY <1>0 DEF AcceptedAccounted, Accounts
  <2>2. CASE p \in userHistory[u] \cup unacked[u]
    BY <1>0, <2>2 DEF Accounts
  <2>3. CASE \E r \in Busy : /\ Owner[r] = u /\ worker[r].post = p
                             /\ Unrecorded(r)
    <3>1. PICK r \in Busy : Owner[r] = u /\ worker[r].post = p /\ Unrecorded(r)
      BY <2>3
    <3>2. CASE r = s
      <4>1. \/ worker'[s].post = p /\ Unrecorded(s)'
            \/ p \in userHistory'[u] \cup unacked'[u]
        BY <1>0, <3>1, <3>2 DEF Accounts
      <4>2. Unrecorded(s)' => s \in Busy'
        BY DEF Unrecorded, Busy
      <4>3. QED
        BY <3>1, <3>2, <4>1, <4>2
    <3>3. CASE r # s
      <4>1. r \in Subs /\ worker'[r] = worker[r]
        BY <1>1, <3>1, <3>3 DEF Busy
      <4>2. Unrecorded(r)' /\ r \in Busy'
        BY <3>1, <4>1 DEF Unrecorded, Busy
      <4>3. QED
        BY <3>1, <4>1, <4>2
    <3>4. QED
      BY <3>2, <3>3
  <2>4. QED
    BY <2>1, <2>2, <2>3 DEF SafeInv, AcceptedAccounted
<1>7. NoUnexplainedDuplicate'
  BY <1>0 DEF SafeInv, NoUnexplainedDuplicate, Accounts
<1>8. RemovedLeavesNothing'
  BY <1>0, <1>2, NothingReturns DEF SafeInv
<1>9. Arrives
  BY <1>0, <1>1 DEF Arrives, Moves
<1>10. BaseInv'
  BY <1>0, <1>2, <1>3, <1>4 DEF BaseInv, RowsKept, Fills, Accounts
<1>11. QED
  BY <1>5, <1>6, <1>7, <1>8, <1>9, <1>10 DEF SafeInv
\* Steps of one worker that change no history and nothing that was accepted,
\* and of a worker that has nothing to lose.
LEMMA BesidesHistories ==
    ASSUME BaseInv, SafeInv, NEW s \in Subs, NEW v, Fit(v),
           worker' = [worker EXCEPT ![s] = v],
           ~Unrecorded(s), v.stage \notin Sending,
           RowsKept, LoopInv', UNCHANGED <<storedVars, telegramVars>>
    PROVE  /\ BaseInv'
           /\ AcceptedAccounted' /\ NoUnexplainedDuplicate'
           /\ RemovedLeavesNothing' /\ Arrives
<1>1. worker'[s] = v /\ \A r \in Subs \ {s} : worker'[r] = worker[r]
  BY DEF BaseInv, WorkersInv
<1>2. WorkersInv'
  BY <1>1 DEF BaseInv, WorkersInv
<1>3. StoredInv' /\ HistoryInv'
  BY DEF BaseInv, StoredInv, HistoryInv, storedVars, telegramVars
<1>4. \A r \in Subs : Unsent(r)'
  BY <1>1 DEF BaseInv, Unsent, storedVars
<1>5. \A r \in Busy : Unrecorded(r) => r \in Busy' /\ Unrecorded(r)'
                                       /\ worker'[r].post = worker[r].post
  BY <1>1 DEF Busy, Unrecorded
<1>6. AcceptedAccounted'
  BY <1>5 DEF SafeInv, AcceptedAccounted, storedVars, telegramVars
<1>7. NoUnexplainedDuplicate'
  BY DEF SafeInv, NoUnexplainedDuplicate, telegramVars
<1>8. RemovedLeavesNothing'
  BY DEF SafeInv, RemovedLeavesNothing, RowsKept, storedVars
<1>9. Arrives
  BY <1>1 DEF Arrives, Sending
<1>10. QED
  BY <1>2, <1>3, <1>4, <1>6, <1>7, <1>8, <1>9 DEF BaseInv, RowsKept

LEMMA GrantSafe ==
    ASSUME BaseInv, SafeInv, NEW s \in Subs, NEW t \in Token, Grants(s, t)
    PROVE  BaseInv' /\ SafeInv' /\ Arrives
<1>1. PICK w : w = worker[s] /\ w \in Worker /\ Fit(w) /\ w.stage = "claim"
  BY StageFacts DEF Grants
<1>2. RowsKept /\ LoopInv' /\ ~Unrecorded(s)
  BY <1>1, ClaimKeepsRows, LoopStays, StageFacts DEF Grants, BaseInv
<1>3. UNCHANGED <<storedVars, telegramVars>>
  BY DEF Grants
<1>4. CASE Finish(s)
  <2>1. worker' = [worker EXCEPT ![s] = Idle]
    BY <1>4 DEF Finish
  <2>2. /\ BaseInv' /\ AcceptedAccounted' /\ NoUnexplainedDuplicate'
        /\ RemovedLeavesNothing' /\ Arrives
    BY <1>2, <1>3, <2>1, IdleFits, BesidesHistories DEF Sending
  <2>3. \A r \in Subs : /\ worker'[r].token \in {worker[r].token, NoToken}
                        /\ worker'[r].stage # "idle" => worker[r].stage # "idle"
    BY <2>1, IdleFits DEF BaseInv, WorkersInv
  <2>4. QED
    BY <2>2, <2>3, StaysApart DEF SafeInv
<1>5. CASE ~Finish(s)
  <2>1. PICK stage \in {"select", "denied"} :
          worker' = [worker EXCEPT ![s].token = t, ![s].stage = stage]
    BY <1>5 DEF Grants
  <2>2. PICK v : v = [w EXCEPT !.token = t, !.stage = stage]
    OBVIOUS
  <2>3. /\ v \in Worker /\ v.token = t /\ v.stage = stage
        /\ v.post = w.post /\ v.tries = w.tries
    BY <1>1, <2>2 DEF Worker, Stages
  <2>4. worker' = [worker EXCEPT ![s] = v]
    BY <1>1, <2>1, <2>2 DEF BaseInv, WorkersInv
  <2>5. Fit(v)
    <3>1. w.post = NoPost /\ w.tries = 0 /\ t # NoToken
      BY <1>1, TokenAssumption DEF Fit
    <3>2. stage \notin {"idle", "claim", "queue", "send", "backoff"}
          /\ stage \notin WithPost
      BY DEF WithPost
    <3>3. QED
      BY <2>3, <3>1, <3>2 DEF Fit
  <2>6. /\ BaseInv' /\ AcceptedAccounted' /\ NoUnexplainedDuplicate'
        /\ RemovedLeavesNothing' /\ Arrives
    BY <1>2, <1>3, <2>3, <2>4, <2>5, BesidesHistories DEF Sending
  <2>7. worker'[s] = v /\ \A r \in Subs \ {s} : worker'[r] = worker[r]
    BY <2>4 DEF BaseInv, WorkersInv
  <2>8. \A r \in Subs : worker[r].token # t
    BY TokenAssumption DEF Grants, Fresh, HeldTokens
  <2>9. TokensApart'
    BY <2>3, <2>7, <2>8 DEF SafeInv, TokensApart
  <2>10. OnePerUser'
    <3>1. Busy' \subseteq Busy
      BY <1>1, <2>7 DEF Busy
    <3>2. QED
      BY <3>1 DEF SafeInv, OnePerUser
  <2>11. QED
    BY <2>6, <2>9, <2>10 DEF SafeInv
<1>6. QED
  BY <1>4, <1>5

LEMMA StartSafe ==
    ASSUME BaseInv, SafeInv, NEW s \in Subs, StartWorker(s)
    PROVE  BaseInv' /\ SafeInv' /\ Arrives
<1>1. s \notin Busy /\ worker[s].stage = "idle"
  <2>1. s \notin Busy
    BY DEF StartWorker, UserFree
  <2>2. QED
    BY <2>1 DEF Busy
<1>2. PICK v : v = [worker[s] EXCEPT !.stage = "claim"]
  OBVIOUS
<1>3. worker' = [worker EXCEPT ![s] = v] /\ worker'[s] = v
  BY <1>2 DEF StartWorker, Goto, BaseInv, WorkersInv
<1>4. /\ v \in Worker /\ v.stage = "claim" /\ v.token = worker[s].token
      /\ v.post = worker[s].post /\ v.tries = worker[s].tries
  <2>1. "claim" \in Stages
    BY DEF Stages
  <2>2. Goto(s, "claim")
    BY DEF StartWorker
  <2>3. QED
    BY <1>3, <2>1, <2>2, Goes DEF BaseInv
<1>5. Fit(v)
  BY <1>1, <1>4, StageFacts DEF Fit, WithPost
<1>6. RowsKept /\ LoopInv' /\ UNCHANGED <<storedVars, telegramVars>>
  <2>1. /\ todo' \subseteq todo /\ own' = own \cup {s}
        /\ UNCHANGED <<process, pass, jammed, settings>>
    BY DEF StartWorker
  <2>2. LoopInv'
    BY <2>1 DEF LoopInv, BaseInv, settings
  <2>3. QED
    BY <2>2, UnchangedRowsKept DEF StartWorker, BaseInv
<1>7. /\ BaseInv' /\ AcceptedAccounted' /\ NoUnexplainedDuplicate'
      /\ RemovedLeavesNothing' /\ Arrives
  BY <1>1, <1>3, <1>4, <1>5, <1>6, StageFacts, BesidesHistories DEF Sending
<1>8. \A r \in Subs \ {s} : worker'[r] = worker[r]
  BY <1>3 DEF BaseInv, WorkersInv
<1>9. TokensApart'
  <2>1. \A r \in Subs : worker'[r].token = worker[r].token
    BY <1>3, <1>4, <1>8
  <2>2. QED
    BY <2>1 DEF SafeInv, TokensApart
<1>10. OnePerUser'
  <2>1. Busy' \subseteq Busy \cup {s} /\ \A r \in Busy : Owner[r] # Owner[s]
    BY <1>8 DEF Busy, StartWorker, UserFree
  <2>2. QED
    BY <1>1, <2>1 DEF SafeInv, OnePerUser
<1>11. QED
  BY <1>7, <1>9, <1>10 DEF SafeInv

\* The one step that accepts a post.
LEMMA AcceptSafe ==
    ASSUME BaseInv, SafeInv, NEW s \in Subs, TelegramAccepts(s)
    PROVE  BaseInv' /\ SafeInv' /\ Arrives
<1>1. /\ worker[s].stage = "wire" /\ ~worker[s].accepted
      /\ s \in Busy /\ Owner[s] \in Users
      /\ worker[s].post \notin userHistory[Owner[s]]
  BY StageFacts, OwnerAssumption DEF TelegramAccepts, Busy, Sending
<1>2. PICK w : w = worker[s] /\ w \in Worker /\ Fit(w)
  BY StageFacts
<1>3. PICK v : v = [w EXCEPT !.accepted = TRUE]
  OBVIOUS
<1>4. /\ v \in Worker /\ v.stage = w.stage /\ v.token = w.token
      /\ v.post = w.post /\ v.tries = w.tries /\ v.accepted = TRUE
      /\ v.interval = w.interval /\ v.empties = w.empties
  BY <1>2, <1>3 DEF Worker
<1>5. worker' = [worker EXCEPT ![s] = v] /\ worker'[s] = v
  BY <1>2, <1>3 DEF TelegramAccepts, BaseInv, WorkersInv
<1>6. \A r \in Subs \ {s} : worker'[r] = worker[r]
  BY <1>5 DEF BaseInv, WorkersInv
<1>7. Fit(v)
  BY <1>2, <1>4 DEF Fit
<1>8. PICK u, p : u = Owner[s] /\ p = worker[s].post /\ u \in Users /\ p \in Post
  BY <1>1, StageFacts DEF WithPost
<1>9. /\ accepted' = [accepted EXCEPT ![u][p] = Sooner(2, @ + 1)]
      /\ UNCHANGED <<rowVars, loopVars, storedVars, unacked, settings>>
  BY <1>8 DEF TelegramAccepts
<1>10. HistoryInv'
  <2>1. accepted[u][p] \in 0..2
    BY <1>8 DEF BaseInv, HistoryInv
  <2>2. Sooner(2, accepted[u][p] + 1) \in 0..2
    BY <2>1 DEF Sooner
  <2>3. accepted' \in [Users -> [Post -> 0..2]]
    BY <1>8, <1>9, <2>2 DEF BaseInv, HistoryInv
  <2>4. QED
    BY <1>9, <2>3 DEF BaseInv, HistoryInv, storedVars
<1>11. /\ \A x \in Users, q \in Post :
             x # u \/ q # p => accepted'[x][q] = accepted[x][q]
       /\ accepted'[u][p] > 1 => accepted[u][p] > 0
  <2>1. accepted[u][p] \in 0..2
    BY <1>8 DEF BaseInv, HistoryInv
  <2>2. accepted'[u][p] = Sooner(2, accepted[u][p] + 1)
    BY <1>8, <1>9 DEF BaseInv, HistoryInv
  <2>3. accepted'[u][p] > 1 => accepted[u][p] > 0
    BY <2>1, <2>2 DEF Sooner
  <2>4. QED
    BY <1>8, <1>9, <2>3 DEF BaseInv, HistoryInv
\* Nobody else serves the user, so an earlier acceptance was not recorded.
<1>12. NoUnexplainedDuplicate'
  <2>1. accepted[u][p] > 0 => p \in unacked[u]
    <3>1. SUFFICES ASSUME accepted[u][p] > 0, p \notin unacked[u]
                   PROVE  FALSE
      OBVIOUS
    <3>2. PICK r \in Busy : Owner[r] = u /\ Unrecorded(r)
      BY <1>1, <1>8, <3>1 DEF SafeInv, AcceptedAccounted
    <3>3. r = s
      BY <1>1, <1>8, <3>2 DEF SafeInv, OnePerUser
    <3>4. QED
      BY <1>1, <3>2, <3>3 DEF Unrecorded
  <2>2. QED
    BY <1>9, <1>11, <2>1 DEF SafeInv, NoUnexplainedDuplicate
<1>13. AcceptedAccounted'
  <2>1. s \in Busy' /\ Unrecorded(s)' /\ worker'[s].post = p
    BY <1>1, <1>2, <1>4, <1>5, <1>8 DEF Busy, Unrecorded
  <2>2. \A r \in Busy : Unrecorded(r) => r \in Busy' /\ Unrecorded(r)'
                                         /\ worker'[r].post = worker[r].post
    BY <1>1, <1>6 DEF Busy, Unrecorded
  <2>3. SUFFICES ASSUME NEW x \in Users, NEW q \in Post, accepted'[x][q] > 0
                 PROVE  \/ q \in userHistory'[x] \cup unacked'[x]
                        \/ \E r \in Busy' : /\ Owner[r] = x /\ worker'[r].post = q
                                            /\ Unrecorded(r)'
    BY DEF AcceptedAccounted
  <2>4. CASE x = u /\ q = p
    BY <1>8, <2>1, <2>4
  <2>5. CASE x # u \/ q # p
    <3>1. accepted[x][q] > 0
      BY <1>11, <2>3, <2>5
    <3>2. \/ q \in userHistory[x] \cup unacked[x]
          \/ \E r \in Busy : /\ Owner[r] = x /\ worker[r].post = q
                             /\ Unrecorded(r)
      BY <3>1 DEF SafeInv, AcceptedAccounted
    <3>3. userHistory' = userHistory /\ unacked' = unacked
      BY <1>9 DEF storedVars
    <3>4. QED
      BY <2>2, <3>2, <3>3
  <2>6. QED
    BY <2>4, <2>5
<1>14. TokensApart' /\ OnePerUser'
  <2>1. \A r \in Subs : /\ worker'[r].token \in {worker[r].token, NoToken}
                        /\ worker'[r].stage # "idle" => worker[r].stage # "idle"
    BY <1>2, <1>4, <1>5, <1>6
  <2>2. QED
    BY <2>1, StaysApart DEF SafeInv
<1>15. RowsInv' /\ LoopInv' /\ StoredInv' /\ RemovedLeavesNothing'
  BY <1>9, UnchangedRowsKept, LoopStays DEF BaseInv, RowsKept, StoredInv,
    SafeInv, RemovedLeavesNothing, storedVars, rowVars
<1>16. WorkersInv'
  BY <1>5, <1>6, <1>7 DEF BaseInv, WorkersInv
<1>17. \A r \in Subs : Unsent(r)'
  BY <1>2, <1>4, <1>5, <1>6, <1>9 DEF BaseInv, Unsent, storedVars
<1>18. Arrives
  BY <1>2, <1>4, <1>5, <1>6 DEF Arrives
<1>19. QED
  BY <1>10, <1>12, <1>13, <1>14, <1>15, <1>16, <1>17, <1>18 DEF BaseInv, SafeInv
LEMMA ShutdownSafe ==
    ASSUME BaseInv, SafeInv, Shutdown
    PROVE  BaseInv' /\ SafeInv' /\ Arrives
<1>1. ASSUME NEW s \in Subs
      PROVE  /\ Fit(worker'[s])
             /\ worker'[s].stage = worker[s].stage
             /\ worker'[s].token = worker[s].token
             /\ worker'[s].post = worker[s].post
             /\ worker'[s].accepted = worker[s].accepted
  <2>1. PICK w : w = worker[s] /\ w \in Worker /\ Fit(w)
    BY StageFacts
  <2>2. CASE s \in Busy
    <3>1. PICK n : n = Sooner(2, w.cancelled + 1)
      OBVIOUS
    <3>2. n \in 0..2
      BY <2>1, <3>1 DEF Sooner, Worker
    <3>3. PICK v : v = [w EXCEPT !.cancelled = n]
      OBVIOUS
    <3>4. /\ v \in Worker /\ v.stage = w.stage /\ v.token = w.token
          /\ v.post = w.post /\ v.tries = w.tries /\ v.accepted = w.accepted
          /\ v.interval = w.interval /\ v.empties = w.empties
      BY <2>1, <3>2, <3>3 DEF Worker
    <3>5. worker'[s] = v
      BY <2>1, <2>2, <3>1, <3>3 DEF Shutdown
    <3>6. Fit(v)
      BY <2>1, <3>4 DEF Fit
    <3>7. QED
      BY <2>1, <3>4, <3>5, <3>6
  <2>3. CASE s \notin Busy
    BY <2>1, <2>3 DEF Shutdown
  <2>4. QED
    BY <2>2, <2>3
<1>2. WorkersInv'
  BY <1>1 DEF WorkersInv, Shutdown
<1>3. Busy' = Busy /\ \A s \in Subs : Unrecorded(s)' = Unrecorded(s)
  BY <1>1 DEF Busy, Unrecorded
<1>4. RowsInv' /\ LoopInv'
  BY UnchangedRowsKept DEF Shutdown, BaseInv, RowsKept, LoopInv, settings
<1>5. StoredInv' /\ HistoryInv' /\ RemovedLeavesNothing'
  BY DEF Shutdown, BaseInv, StoredInv, HistoryInv, storedVars, telegramVars,
    rowVars, SafeInv, RemovedLeavesNothing
<1>6. \A s \in Subs : Unsent(s)'
  BY <1>1 DEF BaseInv, Unsent, Shutdown, storedVars
<1>7. TokensApart' /\ OnePerUser'
  BY <1>1, <1>3 DEF SafeInv, TokensApart, OnePerUser
<1>8. AcceptedAccounted' /\ NoUnexplainedDuplicate'
  <2>1. \A s \in Busy : s \in Subs
    BY DEF Busy
  <2>2. QED
    BY <1>1, <1>3, <2>1 DEF SafeInv, AcceptedAccounted, NoUnexplainedDuplicate,
      Shutdown, storedVars, telegramVars
<1>9. Arrives
  BY <1>1 DEF Arrives
<1>10. QED
  BY <1>2, <1>4, <1>5, <1>6, <1>7, <1>8, <1>9 DEF BaseInv, SafeInv

\* A crash loses the workers; what they could not record is unacknowledged.
LEMMA CrashSafe ==
    ASSUME BaseInv, SafeInv, Crash
    PROVE  BaseInv' /\ SafeInv' /\ Arrives
<1>1. \A s \in Subs : worker'[s] = Idle
  BY DEF Crash
<1>2. WorkersInv'
  BY <1>1, IdleFits DEF WorkersInv, Crash
<1>3. RowsInv' /\ LoopInv'
  BY UnchangedRowsKept, DeliveryAssumption
  DEF Crash, BaseInv, RowsKept, LoopInv
<1>4. \A u \in Users :
        unacked'[u] = unacked[u] \cup
          {worker[s].post : s \in {r \in Subs : Owner[r] = u /\ Unrecorded(r)}}
  BY DEF Crash
<1>5. \A s \in Subs : Unrecorded(s) => worker[s].post \in Post
  BY StageFacts DEF Unrecorded, WithPost
<1>6. unacked' \in [Users -> SUBSET Post]
  <2>1. \A u \in Users : unacked'[u] \in SUBSET Post
    BY <1>4, <1>5 DEF BaseInv, HistoryInv
  <2>2. unacked' = [u \in Users |-> unacked'[u]]
    BY DEF Crash
  <2>3. QED
    BY <2>1, <2>2
<1>7. StoredInv' /\ HistoryInv' /\ RemovedLeavesNothing'
  BY <1>6 DEF Crash, BaseInv, StoredInv, HistoryInv, storedVars,
    rowVars, SafeInv, RemovedLeavesNothing
<1>8. (\A s \in Subs : Unsent(s)') /\ Arrives
  BY <1>1, IdleFits DEF Unsent, Sending, Arrives
<1>9. TokensApart' /\ OnePerUser'
  BY <1>1, IdleFits DEF TokensApart, OnePerUser, Busy
<1>10. AcceptedAccounted'
  <2>1. SUFFICES ASSUME NEW u \in Users, NEW p \in Post, accepted[u][p] > 0
                 PROVE  p \in userHistory[u] \cup unacked'[u]
    BY DEF AcceptedAccounted, Crash, storedVars
  <2>2. CASE p \in userHistory[u] \cup unacked[u]
    BY <1>4, <2>2
  <2>3. CASE \E s \in Busy : /\ Owner[s] = u /\ worker[s].post = p
                             /\ Unrecorded(s)
    BY <1>4, <2>3 DEF Busy
  <2>4. QED
    BY <2>1, <2>2, <2>3 DEF SafeInv, AcceptedAccounted
<1>11. NoUnexplainedDuplicate'
  BY <1>4 DEF SafeInv, NoUnexplainedDuplicate, Crash
<1>12. QED
  BY <1>2, <1>3, <1>7, <1>8, <1>9, <1>10, <1>11 DEF BaseInv, SafeInv

\* Steps that no worker takes and that lose nothing.
LEMMA RestSafe ==
    ASSUME BaseInv, SafeInv, worker' = worker, RowsInv', LoopInv',
           UNCHANGED telegramVars, userHistory' = userHistory,
           StoredInv', RemovedLeavesNothing'
    PROVE  BaseInv' /\ SafeInv' /\ Arrives
<1>1. Busy' = Busy /\ \A s \in Subs : Unrecorded(s)' = Unrecorded(s)
  BY DEF Busy, Unrecorded
<1>2. WorkersInv' /\ HistoryInv' /\ (\A s \in Subs : Unsent(s)') /\ Arrives
  BY DEF BaseInv, WorkersInv, HistoryInv, Unsent, Arrives, telegramVars
<1>3. TokensApart' /\ OnePerUser'
  BY <1>1 DEF SafeInv, TokensApart, OnePerUser
<1>4. AcceptedAccounted' /\ NoUnexplainedDuplicate'
  <2>1. \A s \in Busy : s \in Subs
    BY DEF Busy
  <2>2. QED
    BY <1>1, <2>1 DEF SafeInv, AcceptedAccounted, NoUnexplainedDuplicate,
      telegramVars
<1>5. QED
  BY <1>2, <1>3, <1>4 DEF BaseInv, SafeInv

LEMMA TablesRest ==
    ASSUME BaseInv, SafeInv, RowsKept, UNCHANGED storedVars
    PROVE  StoredInv' /\ RemovedLeavesNothing' /\ userHistory' = userHistory
BY TablesStay, NothingReturns DEF BaseInv, SafeInv, Fills, storedVars

LEMMA LoopSafe ==
    ASSUME BaseInv, SafeInv,
           \/ Loop \/ WaitForLock \/ (\E s \in Subs : LoseLock(s))
           \/ ShutdownCompletes \/ Restart
           \/ Tick /\ UNCHANGED <<loopVars, worker, storedVars, telegramVars,
                                  settings>>
    PROVE  BaseInv' /\ SafeInv' /\ Arrives
<1>1. worker' = worker /\ UNCHANGED <<storedVars, telegramVars>>
  BY DEF Loop, StartPass, GetDueSubscriptions, StartDigests, EndPass,
    WaitForLock, LoseLock, ShutdownCompletes, Restart
<1>2. RowsKept
  <2>1. CASE UNCHANGED rowVars
    BY <2>1, UnchangedRowsKept DEF BaseInv
  <2>2. CASE ReleaseStaleSubscriptionClaims
    BY <2>2, StaleKeepsRows DEF BaseInv
  <2>3. CASE Tick
    BY <2>3, TickKeepsRows DEF BaseInv
  <2>4. QED
    BY <2>1, <2>2, <2>3 DEF Loop, StartPass, GetDueSubscriptions,
      StartDigests, EndPass, WaitForLock, LoseLock, ShutdownCompletes, Restart
<1>3. LoopInv'
  <2>1. CASE Loop \/ ShutdownCompletes
    BY <2>1 DEF Loop, StartPass, GetDueSubscriptions, StartDigests, EndPass,
      DueSubscriptions, ShutdownCompletes, BaseInv, LoopInv, settings
  <2>5. CASE WaitForLock \/ \E s \in Subs : LoseLock(s)
    BY <2>5 DEF WaitForLock, LoseLock, BaseInv, LoopInv, settings
  <2>2. CASE Restart
    BY <2>2 DEF Restart, BaseInv, LoopInv
  <2>3. CASE UNCHANGED <<loopVars, settings>>
    BY <2>3, LoopStays DEF BaseInv
  <2>4. QED
    BY <2>1, <2>2, <2>3, <2>5
<1>4. StoredInv' /\ RemovedLeavesNothing' /\ userHistory' = userHistory
  BY <1>1, <1>2, TablesRest
<1>5. QED
  BY <1>1, <1>2, <1>3, <1>4, RestSafe DEF RowsKept

\* Items only leave the queue for a digest.
LEMMA DigestSafe ==
    ASSUME BaseInv, SafeInv, NEW s \in Subs, DeliverDigest(s)
    PROVE  BaseInv' /\ SafeInv' /\ Arrives
<1>1. /\ worker' = worker /\ UNCHANGED <<rowVars, telegramVars>>
      /\ UNCHANGED <<progress, history, userHistory, failures>>
      /\ digest' \in [Subs -> SUBSET Post]
      /\ \A r \in Subs : digest'[r] \subseteq digest[r]
  BY DEF DeliverDigest, BaseInv, StoredInv
<1>2. RowsInv' /\ LoopInv'
  BY LoopStays DEF DeliverDigest, BaseInv, RowsInv, rowVars
<1>3. StoredInv' /\ RemovedLeavesNothing'
  BY <1>1 DEF BaseInv, StoredInv, SafeInv, RemovedLeavesNothing, rowVars
<1>4. QED
  BY <1>1, <1>2, <1>3, RestSafe

LEMMA CommandSafe ==
    ASSUME BaseInv, SafeInv, Command
    PROVE  BaseInv' /\ SafeInv' /\ Arrives
<1>1. worker' = worker /\ UNCHANGED telegramVars /\ LoopInv'
  BY LoopStays DEF Command, BaseInv
<1>2. ASSUME NEW s \in Subs, ForgetSubscription(s)
      PROVE  /\ RowsInv' /\ StoredInv' /\ RemovedLeavesNothing'
             /\ userHistory' = userHistory
  <2>1. RowsInv' /\ \A r \in Subs \ {s} : sub'[r] = sub[r]
    BY <1>2, RemovalKeepsOthers DEF ForgetSubscription, BaseInv
  <2>2. StoredInv' /\ userHistory' = userHistory
    BY <1>2 DEF ForgetSubscription, BaseInv, StoredInv
  <2>3. /\ history'[s] = {} /\ digest'[s] = {}
        /\ \A r \in Subs \ {s} : history'[r] = history[r] /\ digest'[r] = digest[r]
    BY <1>2 DEF ForgetSubscription, BaseInv, StoredInv
  <2>4. RemovedLeavesNothing'
    BY <2>1, <2>3 DEF SafeInv, RemovedLeavesNothing
  <2>5. QED
    BY <2>1, <2>2, <2>4
<1>3. ASSUME RowsKept, UNCHANGED storedVars
      PROVE  /\ RowsInv' /\ StoredInv' /\ RemovedLeavesNothing'
             /\ userHistory' = userHistory
  BY <1>3, TablesRest DEF RowsKept
<1>4. \/ \E s \in Subs : ForgetSubscription(s)
      \/ RowsKept /\ UNCHANGED storedVars
  BY AddKeepsRows, IntervalKeepsRows, ToggleKeepsRows, PausesKeepRows
  DEF Command, BaseInv
<1>5. QED
  BY <1>1, <1>2, <1>3, <1>4, RestSafe

LEMMA StepSafe ==
    ASSUME BaseInv, SafeInv, Step
    PROVE  BaseInv' /\ SafeInv' /\ Arrives
<1>1. ASSUME NEW s \in Subs, StartWorker(s)
      PROVE  BaseInv' /\ SafeInv' /\ Arrives
  BY <1>1, StartSafe
<1>2. ASSUME NEW s \in Subs, WorkerStep(s) \/ Fault(s) \/ Heartbeat(s)
      PROVE  BaseInv' /\ SafeInv' /\ Arrives
  BY <1>2, StepsOfWorkers, OwnStepSafe, GrantSafe
<1>3. ASSUME NEW s \in Subs, TelegramAccepts(s)
      PROVE  BaseInv' /\ SafeInv' /\ Arrives
  BY <1>3, AcceptSafe
<1>4. QED
  BY <1>1, <1>2, <1>3, LoopSafe, DigestSafe, ShutdownSafe, CrashSafe,
     CommandSafe DEF Step

\* The first request after a revocation is the only one.
LEMMA WatchKeepsBlind ==
    ASSUME BlindInv, Arrives, Watch
    PROVE  BlindInv'
<1>1. ASSUME NEW s \in Subs
      PROVE  /\ blind'[s] \in 0..1
             /\ worker'[s].stage = "send" => blind'[s] = 0
  <2>0. blind[s] \in 0..1 /\ (worker[s].stage = "send" => blind[s] = 0)
    BY DEF BlindInv
  <2>1. CASE worker'[s].stage = "idle" \/ ClaimActive(s, worker[s].token)'
    <3>1. blind'[s] = 0
      BY <2>1 DEF Watch
    <3>2. QED
      BY <3>1
  <2>2. CASE /\ ~(worker'[s].stage = "idle" \/ ClaimActive(s, worker[s].token)')
             /\ worker[s].stage = "send" /\ worker'[s].stage = "wire"
    <3>1. blind'[s] = Sooner(2, blind[s] + 1)
      BY <2>2 DEF Watch
    <3>2. QED
      BY <2>0, <2>2, <3>1 DEF Sooner
  <2>3. CASE /\ ~(worker'[s].stage = "idle" \/ ClaimActive(s, worker[s].token)')
             /\ ~(worker[s].stage = "send" /\ worker'[s].stage = "wire")
    <3>1. blind'[s] = blind[s]
      BY <2>3 DEF Watch
    <3>2. worker'[s].stage = "send" => worker[s].stage = "send"
      BY <2>3 DEF Arrives
    <3>3. QED
      BY <2>0, <3>1, <3>2
  <2>4. QED
    BY <2>1, <2>2, <2>3
<1>2. blind' = [s \in Subs |-> blind'[s]]
  BY DEF Watch
<1>3. QED
  BY <1>1, <1>2 DEF BlindInv

LEMMA InitSafe == Init => DeliveryInv
<1> SUFFICES ASSUME Init
             PROVE  DeliveryInv
  OBVIOUS
<1>1. RowsInv
  <2>1. Absent \in StoredRow
    BY DEF StoredRow, Row, Absent, Blank
  <2>2. QED
    BY <2>1 DEF Init, NoRows, RowsInv
<1>2. LoopInv /\ StoredInv /\ HistoryInv
  BY DeliveryAssumption DEF Init, LoopInv, StoredInv, HistoryInv
<1>3. WorkersInv /\ (\A s \in Subs : Unsent(s)) /\ BlindInv
  BY IdleFits DEF Init, WorkersInv, Unsent, Sending, BlindInv
<1>4. TokensApart /\ OnePerUser
  BY IdleFits DEF Init, TokensApart, OnePerUser, Busy
<1>5. AcceptedAccounted /\ NoUnexplainedDuplicate /\ RemovedLeavesNothing
  BY DEF Init, AcceptedAccounted, NoUnexplainedDuplicate, RemovedLeavesNothing
<1>6. QED
  BY <1>1, <1>2, <1>3, <1>4, <1>5 DEF DeliveryInv, BaseInv, SafeInv

LEMMA NextSafe == DeliveryInv /\ [Next]_vars => DeliveryInv'
<1> SUFFICES ASSUME DeliveryInv, [Next]_vars
             PROVE  DeliveryInv'
  OBVIOUS
<1>1. CASE Next
  BY <1>1, StepSafe, WatchKeepsBlind DEF DeliveryInv, Next
<1>2. CASE UNCHANGED vars
  <2>1. BaseInv' /\ SafeInv' /\ Arrives
    BY <1>2, RestSafe, LoopStays, UnchangedRowsKept, TablesRest
    DEF vars, DeliveryInv, BaseInv, RowsKept, telegramVars
  <2>2. BlindInv'
    BY <1>2 DEF vars, DeliveryInv, BlindInv
  <2>3. QED
    BY <2>1, <2>2 DEF DeliveryInv
<1>3. QED
  BY <1>1, <1>2

LEMMA DeliveryIsSafe == Spec => []DeliveryInv
BY InitSafe, NextSafe, PTL DEF Spec

(***************************************************************************)
(* The theorems.                                                           *)
(***************************************************************************)
\* The variables have their types, and a worker has a token from its claim to
\* its end.
THEOREM DeliveryTypes == Spec => []TypeOK
<1>1. DeliveryInv => TypeOK
  <2>1. ASSUME DeliveryInv
        PROVE  worker \in [Subs -> Worker]
                 /\ \A s \in Subs : worker[s].token = NoToken
                                      <=> worker[s].stage \in {"idle", "claim"}
    BY <2>1 DEF DeliveryInv, BaseInv, WorkersInv, Fit
  <2>2. QED
    BY <2>1, RowsAreTyped
    DEF DeliveryInv, BaseInv, LoopInv, StoredInv, HistoryInv, BlindInv, TypeOK
<1>2. QED
  BY <1>1, DeliveryIsSafe, PTL

\* What Telegram accepted for a user is in the user's history, with a worker
\* about to record it, or among the deliveries nobody could acknowledge:
\* process_subscriptions forgets no delivery silently.
THEOREM NothingAcceptedIsForgotten == Spec => []AcceptedAccounted
BY DeliveryIsSafe, PTL DEF DeliveryInv, SafeInv

\* A post reaches a user a second time only when an earlier acceptance could
\* not be recorded, whatever the subscriptions and their passes overlap.
THEOREM NoDuplicateUnexplained == Spec => []NoUnexplainedDuplicate
BY DeliveryIsSafe, PTL DEF DeliveryInv, SafeInv

\* A removed subscription has neither a history nor queued digest items,
\* whatever its worker was doing when it was removed.
THEOREM RemovalIsComplete == Spec => []RemovedLeavesNothing
BY DeliveryIsSafe, PTL DEF DeliveryInv, SafeInv

\* However many requests a send may need, one at most is issued after the
\* claim was revoked: before_send runs before every one.
THEOREM RevocationStopsSends == Spec => []OneSendAfterRevocation
<1>1. DeliveryInv => OneSendAfterRevocation
  BY DEF DeliveryInv, BlindInv, OneSendAfterRevocation
<1>2. QED
  BY <1>1, DeliveryIsSafe, PTL
(***************************************************************************)
(* The workers as clients of the claim protocol.                           *)
(***************************************************************************)
LEMMA PresentsStatement ==
    ASSUME NEW s \in Subs, NEW t, Statement(s, t),
           HeldTokens' \in {HeldTokens, HeldTokens \ {t}}
    PROVE  Protocol!Present(s, t)
<1>1. CASE RenewSubscriptionClaim(s, t)
  <2>1. Protocol!RenewSubscriptionClaim(s, t)
    BY <1>1 DEF RenewSubscriptionClaim, ClaimActive, Owned, Paused,
      Protocol!RenewSubscriptionClaim, Protocol!ClaimActive, Protocol!Owned,
      Protocol!Paused
  <2>2. QED
    BY <2>1 DEF Protocol!Present
<1>2. ASSUME NEW delay \in 0..MaxDelay, UpdateSubscriptionTime(s, t, delay)
      PROVE  Protocol!Present(s, t)
  <2>1. Protocol!UpdateSubscriptionTime(s, t, delay)
    BY <1>2 DEF UpdateSubscriptionTime, Owned, Freed, Later, Sooner,
      Protocol!UpdateSubscriptionTime, Protocol!Owned, Protocol!Freed,
      Protocol!Later, Protocol!Sooner
  <2>2. QED
    BY <2>1 DEF Protocol!Present
<1>3. ASSUME NEW delay \in 0..MaxDelay, DeferSubscription(s, t, delay)
      PROVE  Protocol!Present(s, t)
  <2>1. Protocol!DeferSubscription(s, t, delay)
    BY <1>3 DEF DeferSubscription, Owned, Freed, Later, Sooner,
      Protocol!DeferSubscription, Protocol!Owned, Protocol!Freed,
      Protocol!Later, Protocol!Sooner
  <2>2. QED
    BY <2>1 DEF Protocol!Present
<1>4. ASSUME NEW i \in Interval, NEW n \in 0..BackoffEntries,
             MarkSubscriptionEmpty(s, t, i, n)
      PROVE  Protocol!Present(s, t)
  <2>1. Protocol!MarkSubscriptionEmpty(s, t, i, n)
    BY <1>4 DEF MarkSubscriptionEmpty, Owned, Freed, Later, Sooner,
      GetEmptyBackoff, NextEmpties, Protocol!MarkSubscriptionEmpty,
      Protocol!Owned, Protocol!Freed, Protocol!Later, Protocol!Sooner,
      Protocol!GetEmptyBackoff, Protocol!NextEmpties
  <2>2. QED
    BY <2>1 DEF Protocol!Present
<1>5. CASE ReleaseSubscriptionClaim(s, t)
  <2>1. Protocol!ReleaseSubscriptionClaim(s, t)
    BY <1>5 DEF ReleaseSubscriptionClaim, Owned, Freed,
      Protocol!ReleaseSubscriptionClaim, Protocol!Owned, Protocol!Freed
  <2>2. QED
    BY <2>1 DEF Protocol!Present
<1>6. QED
  BY <1>1, <1>2, <1>3, <1>4, <1>5 DEF Statement

LEMMA ForgetsTokens ==
    ASSUME UNCHANGED rowVars, HeldTokens' \subseteq HeldTokens
    PROVE  Protocol!Next
<1>1. PICK T : T = HeldTokens \ HeldTokens' /\ T \in SUBSET HeldTokens
  OBVIOUS
<1>2. HeldTokens' = HeldTokens \ T
  BY <1>1
<1>3. UNCHANGED Protocol!rowVars
  BY DEF rowVars, Protocol!rowVars
<1>4. Protocol!Forget(T)
  BY <1>2, <1>3 DEF Protocol!Forget
<1>5. QED
  BY <1>1, <1>4 DEF Protocol!Next

LEMMA OwnStepIsProtocol ==
    ASSUME BaseInv, SafeInv, NEW s \in Subs, OwnStep(s)
    PROVE  Protocol!Next
<1>0. Moves(s) /\ RowsStep(s)
  BY DEF OwnStep
<1>1. \A r \in Subs \ {s} : worker'[r] = worker[r]
  BY <1>0 DEF Moves, BaseInv, WorkersInv
<1>2. HeldTokens' \in {HeldTokens, HeldTokens \ {worker[s].token}}
  <2>1. CASE worker'[s].token = worker[s].token
    BY <1>1, <2>1 DEF HeldTokens
  <2>2. CASE worker'[s].token = NoToken /\ worker[s].token # NoToken
    BY <1>1, <2>2 DEF HeldTokens, SafeInv, TokensApart
  <2>3. QED
    BY <1>0, <2>1, <2>2 DEF Moves
<1>3. CASE UNCHANGED rowVars
  BY <1>2, <1>3, ForgetsTokens
<1>4. CASE worker[s].token \in Token /\ Statement(s, worker[s].token)
  <2>1. Protocol!Present(s, worker[s].token)
    BY <1>2, <1>4, PresentsStatement
  <2>2. worker[s].token \in HeldTokens
    BY <1>4, TokenAssumption DEF HeldTokens
  <2>3. QED
    BY <2>1, <2>2 DEF Protocol!Next
<1>5. QED
  BY <1>0, <1>3, <1>4 DEF RowsStep

LEMMA GrantIsProtocol ==
    ASSUME BaseInv, SafeInv, NEW s \in Subs, NEW t \in Token, Grants(s, t)
    PROVE  Protocol!Next
<1>0. worker[s].stage = "claim" /\ worker[s].token = NoToken /\ t # NoToken
  BY StageFacts, TokenAssumption DEF Grants, Fit
<1>1. HeldTokens' \in {HeldTokens \cup {t}, HeldTokens}
  <2>1. CASE Finish(s)
    <3>1. \A r \in Subs : worker'[r].token = worker[r].token
      BY <1>0, <2>1, IdleFits DEF Finish, BaseInv, WorkersInv
    <3>2. QED
      BY <3>1 DEF HeldTokens
  <2>2. CASE ~Finish(s)
    <3>1. /\ worker'[s].token = t
          /\ \A r \in Subs \ {s} : worker'[r] = worker[r]
      BY <2>2 DEF Grants, BaseInv, WorkersInv, Fit, Worker
    <3>2. QED
      BY <1>0, <3>1 DEF HeldTokens
  <2>3. QED
    BY <2>1, <2>2
<1>2. Protocol!Fresh(t)
  BY DEF Grants, Fresh, Protocol!Fresh
<1>3. Protocol!ClaimDueSubscription(s, t)
  BY DEF Grants, ClaimDueSubscription, Claimable, Paused,
    Protocol!ClaimDueSubscription, Protocol!Claimable, Protocol!Paused
<1>4. Protocol!Claim(s, t)
  BY <1>1, <1>2, <1>3 DEF Protocol!Claim
<1>5. QED
  BY <1>4 DEF Protocol!Next

\* The instance counts as this module does.
LEMMA SameCardinality ==
    ASSUME NEW S
    PROVE  Protocol!Cardinality(S) = Cardinality(S)
BY DEF Protocol!Cardinality, Cardinality, Protocol!IsFiniteSet, IsFiniteSet

LEMMA CommandIsProtocol ==
    ASSUME Command
    PROVE  Protocol!Next
<1>1. HeldTokens' = HeldTokens
  BY DEF Command, HeldTokens
<1>0. ASSUME NEW u
      PROVE  /\ Protocol!RowsOf(u) = RowsOf(u)
             /\ Protocol!ActiveRowsOf(u) = ActiveRowsOf(u)
  BY DEF RowsOf, ActiveRowsOf, Protocol!RowsOf, Protocol!ActiveRowsOf
<1>2. ASSUME NEW s \in Subs, NEW i \in Interval, AddSubscription(s, i)
      PROVE  Protocol!UserCommand
  <2>1. Protocol!AddSubscription(s, i)
    BY <1>0, <1>2, SameCardinality DEF AddSubscription, ChangeIntervalByAdd, ReactivateByAdd,
      CreateByAdd, Absent, Protocol!AddSubscription,
      Protocol!ChangeIntervalByAdd, Protocol!ReactivateByAdd,
      Protocol!CreateByAdd, Protocol!Absent
  <2>2. QED
    BY <2>1 DEF Protocol!UserCommand
<1>3. ASSUME NEW s \in Subs, NEW i \in Interval,
             UpdateSubscriptionInterval(s, i)
      PROVE  Protocol!UserCommand
  <2>1. Protocol!UpdateSubscriptionInterval(s, i)
    BY <1>3 DEF UpdateSubscriptionInterval, Freed,
      Protocol!UpdateSubscriptionInterval, Protocol!Freed
  <2>2. QED
    BY <2>1 DEF Protocol!UserCommand
<1>4. ASSUME NEW s \in Subs,
             Deactivate(s) \/ Reactivate(s) \/ RemoveSubscription(s)
      PROVE  Protocol!UserCommand
  <2>1. Protocol!Deactivate(s) \/ Protocol!Reactivate(s)
          \/ Protocol!RemoveSubscription(s)
    BY <1>0, <1>4, SameCardinality
    DEF Deactivate, Reactivate, RemoveSubscription, Absent,
      Protocol!Deactivate, Protocol!Reactivate, Protocol!RemoveSubscription,
      Protocol!Absent
  <2>2. QED
    BY <2>1 DEF Protocol!UserCommand
<1>5. ASSUME NEW u \in Users, ResumeAllActive(u)
      PROVE  Protocol!UserCommand
  <2>1. Protocol!ResumeAllActive(u)
    BY <1>5 DEF ResumeAllActive, RowsOf, ActiveRowsOf, Freed,
      Protocol!ResumeAllActive, Protocol!RowsOf, Protocol!ActiveRowsOf,
      Protocol!Freed
  <2>2. QED
    BY <2>1 DEF Protocol!UserCommand
<1>6. ASSUME NEW u \in Users, NEW n \in PauseLength, PauseAllActive(u, n)
      PROVE  Protocol!UserCommand
  <2>1. Protocol!PauseAllActive(u, n)
    BY <1>6 DEF PauseAllActive, RowsOf, ActiveRowsOf, Freed, Later,
      Protocol!PauseAllActive, Protocol!RowsOf, Protocol!ActiveRowsOf,
      Protocol!Freed, Protocol!Later
  <2>2. QED
    BY <2>1 DEF Protocol!UserCommand
<1>7. Protocol!UserCommand
  BY <1>2, <1>3, <1>4, <1>5, <1>6 DEF Command, ForgetSubscription
<1>8. QED
  BY <1>1, <1>7 DEF Protocol!Next

LEMMA StepIsProtocol ==
    ASSUME BaseInv, SafeInv, Step
    PROVE  Protocol!Next
<1>1. ASSUME NEW s \in Subs, WorkerStep(s) \/ Fault(s) \/ Heartbeat(s)
      PROVE  Protocol!Next
  BY <1>1, StepsOfWorkers, OwnStepIsProtocol, GrantIsProtocol
<1>2. ASSUME UNCHANGED rowVars,
             \A s \in Subs : worker'[s].token \in {worker[s].token, NoToken}
      PROVE  Protocol!Next
  <2>1. HeldTokens' \subseteq HeldTokens
    BY <1>2 DEF HeldTokens
  <2>2. QED
    BY <1>2, <2>1, ForgetsTokens
<1>3. ASSUME NEW s \in Subs, StartWorker(s) \/ TelegramAccepts(s)
      PROVE  Protocol!Next
  <2>1. UNCHANGED rowVars
    BY <1>3 DEF StartWorker, TelegramAccepts
  <2>2. \A r \in Subs : worker'[r].token = worker[r].token
    BY <1>3 DEF StartWorker, Goto, TelegramAccepts, BaseInv, WorkersInv, Fit,
      Worker
  <2>3. QED
    BY <1>2, <2>1, <2>2
<1>4. CASE Shutdown
  <2>1. \A r \in Subs : worker'[r].token = worker[r].token
    BY <1>4 DEF Shutdown, BaseInv, WorkersInv, Fit, Worker
  <2>2. QED
    BY <1>2, <1>4, <2>1 DEF Shutdown
<1>5. CASE Crash
  BY <1>2, <1>5, IdleFits DEF Crash
<1>6. CASE StartPass
  <2>1. HeldTokens' = HeldTokens
    BY <1>6 DEF StartPass, HeldTokens
  <2>2. Protocol!ReleaseStaleSubscriptionClaims
    BY <1>6 DEF StartPass, ReleaseStaleSubscriptionClaims, Freed,
      Protocol!ReleaseStaleSubscriptionClaims, Protocol!Freed
  <2>3. QED
    BY <2>1, <2>2 DEF Protocol!Next
<1>7. CASE \/ GetDueSubscriptions \/ StartDigests \/ EndPass \/ WaitForLock
           \/ ShutdownCompletes \/ Restart
           \/ \E s \in Subs : DeliverDigest(s) \/ LoseLock(s)
  BY <1>2, <1>7 DEF GetDueSubscriptions, StartDigests, EndPass, WaitForLock,
    ShutdownCompletes, Restart, DeliverDigest, LoseLock
<1>8. CASE Tick /\ UNCHANGED <<loopVars, worker, storedVars, telegramVars,
                               settings>>
  <2>1. HeldTokens' = HeldTokens
    BY <1>8 DEF HeldTokens
  <2>2. Protocol!Tick
    BY <1>8 DEF Tick, OneTickLess, Protocol!Tick, Protocol!OneTickLess
  <2>3. QED
    BY <2>1, <2>2 DEF Protocol!Next
<1>9. QED
  BY <1>1, <1>3, <1>4, <1>5, <1>6, <1>7, <1>8, CommandIsProtocol
  DEF Step, Loop

\* Every step of the delivery is a step of the claim protocol with the tokens
\* of its workers, so what SubscriptionClaim promises of claims whoever
\* presents them holds for the background delivery.
THEOREM WorkersKeepTheProtocol == Spec => ProtocolSpec
<1>1. Init => Protocol!Init
  <2>1. ASSUME Init
        PROVE  Protocol!NoRows /\ HeldTokens = {}
    BY <2>1, IdleFits DEF Init, NoRows, Absent, HeldTokens, Protocol!NoRows,
      Protocol!Absent
  <2>2. QED
    BY <2>1 DEF Protocol!Init
<1>2. DeliveryInv /\ [Next]_vars => [Protocol!Next]_(Protocol!vars)
  <2>1. ASSUME DeliveryInv, Next
        PROVE  Protocol!Next
    BY <2>1, StepIsProtocol DEF DeliveryInv, Next
  <2>2. ASSUME UNCHANGED vars
        PROVE  UNCHANGED Protocol!vars
    BY <2>2 DEF vars, rowVars, HeldTokens, Protocol!vars
  <2>3. QED
    BY <2>1, <2>2
<1>3. QED
  BY <1>1, <1>2, DeliveryIsSafe, PTL DEF Spec, ProtocolSpec, Protocol!Spec

=============================================================================
