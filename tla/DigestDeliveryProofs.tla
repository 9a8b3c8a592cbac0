------------------------- MODULE DigestDeliveryProofs -------------------------
(***************************************************************************)
(* What a digest delivery sends is in the queue, what leaves the queue was *)
(* sent, no item is sent twice without a reason, and no deliveries wait    *)
(* for one another: for every set of items, subscriptions and deliverers.  *)
(***************************************************************************)
EXTENDS DigestDelivery, FiniteSetTheorems, TLAPS

(***************************************************************************)
(* The inductive invariant.  A delivery that has its locks has only items  *)
(* of the queue in its batch: nobody else settles or removes them while it *)
(* holds the locks of their subscriptions, although their lease may lapse. *)
(***************************************************************************)
Working == {"start"} \cup Leased

GlobalOK ==
    /\ row \in [Item -> Row]
    /\ \A i \in Item : Queued(i) \/ row[i].token = NoToken
    /\ subs \in [Subs -> {"active", "inactive", "removed"}]
    /\ paused \in BOOLEAN
    /\ locked \in SUBSET Subs
    /\ disturbed \in 0..Disturbances
    /\ sent \in [Item -> 0..2]
    /\ excused \subseteq Item

\* What a deliverer knows does not contradict itself.
Sound(r) ==
    /\ r \in Deliverer
    /\ r.left \subseteq r.batch /\ r.in_flight \subseteq r.batch
    /\ r.delivered \subseteq r.batch /\ r.ambiguous \subseteq r.batch
    /\ r.stage \in {"idle", "locks", "keys"} =>
          r.left = {} /\ r.in_flight = {} /\ r.delivered = {} /\ r.ambiguous = {}
    /\ r.stage \in {"keys"} \cup Working => \A i \in r.batch : SubOf[i] \in r.locks
    /\ r.stage = "locks" =>
          /\ \E i \in r.batch : SubOf[i] \notin r.locks
          /\ \A s \in r.locks, i \in r.batch :
                SubOf[i] \notin r.locks => Order[s] < Order[SubOf[i]]

\* Its batch is in the queue.
InQueue(r) == r.stage \in Working => \A i \in r.batch : row[i].state = "queued"

\* What it takes for delivered was sent.
WasSent(r) ==
    /\ r.taken => \A i \in r.in_flight : sent[i] > 0
    /\ \A i \in r.delivered : sent[i] > 0

DigestInv ==
    /\ GlobalOK
    /\ deliverer \in [Deliverers -> Deliverer]
    /\ \A d \in Deliverers :
          /\ Sound(deliverer[d]) /\ InQueue(deliverer[d]) /\ WasSent(deliverer[d])
          /\ deliverer[d].locks \subseteq locked
    /\ \A d, e \in Deliverers :
          d # e => deliverer[d].locks \cap deliverer[e].locks = {}

\* The step of one deliverer, that leaves the locks and the items of the
\* others alone.
LEMMA OneMoves ==
    ASSUME DigestInv, NEW d \in Deliverers, NEW new, Become(d, new), GlobalOK',
           Sound(new), InQueue(new)', WasSent(new)', new.locks \subseteq locked',
           \A i \in Item : sent[i] <= sent'[i],
           \A e \in Deliverers \ {d} :
               /\ deliverer[e].locks \subseteq locked'
               /\ deliverer[e].locks \cap new.locks = {}
               /\ deliverer[e].stage \in Working =>
                     \A i \in deliverer[e].batch : row'[i].state = "queued"
    PROVE  DigestInv'
<1>1. new \in Deliverer
  BY DEF Sound
<1>2. /\ deliverer' \in [Deliverers -> Deliverer]
      /\ deliverer'[d] = new
      /\ \A e \in Deliverers \ {d} : deliverer'[e] = deliverer[e]
  BY <1>1 DEF DigestInv, Become
<1>3. ASSUME NEW e \in Deliverers
      PROVE  /\ Sound(deliverer'[e]) /\ InQueue(deliverer[e])'
             /\ WasSent(deliverer[e])' /\ deliverer'[e].locks \subseteq locked'
  <2>1. CASE e = d
    BY <1>2, <2>1 DEF InQueue, WasSent
  <2>2. CASE e # d
    <3>1. deliverer'[e] = deliverer[e] /\ deliverer[e] \in Deliverer
      BY <1>2, <2>2 DEF DigestInv
    <3>2. Sound(deliverer[e]) /\ WasSent(deliverer[e])
      BY DEF DigestInv
    <3>3. InQueue(deliverer[e])' /\ deliverer'[e].locks \subseteq locked'
      BY <2>2, <3>1 DEF InQueue
    <3>4. \A i \in Item : sent[i] > 0 => sent'[i] > 0
      BY DEF GlobalOK, DigestInv
    <3>5. /\ deliverer[e].in_flight \subseteq Item
          /\ deliverer[e].delivered \subseteq Item
      BY <3>1 DEF Deliverer
    <3>6. WasSent(deliverer[e])'
      BY <3>1, <3>2, <3>4, <3>5 DEF WasSent
    <3>7. QED
      BY <3>1, <3>2, <3>3, <3>6
  <2>3. QED
    BY <2>1, <2>2
<1>4. ASSUME NEW e \in Deliverers, NEW f \in Deliverers, e # f
      PROVE  deliverer'[e].locks \cap deliverer'[f].locks = {}
  BY <1>2, <1>4 DEF DigestInv
<1>5. QED
  BY <1>2, <1>3, <1>4 DEF DigestInv, Sound

\* The same, when the items stay where they are and no lock changes hands.
LEMMA OneMovesQuietly ==
    ASSUME DigestInv, NEW d \in Deliverers, NEW new, Become(d, new), GlobalOK',
           \A i \in Item : row'[i].state = row[i].state,
           sent' = sent, locked' = locked,
           new.locks \subseteq deliverer[d].locks,
           Sound(new), InQueue(new), WasSent(new)
    PROVE  DigestInv'
<1>1. InQueue(new)' /\ WasSent(new)'
  <2>1. new.batch \subseteq Item
    BY DEF Sound, Deliverer
  <2>2. QED
    BY <2>1 DEF InQueue, WasSent
<1>2. \A i \in Item : sent[i] <= sent'[i]
  BY DEF DigestInv, GlobalOK
<1>3. ASSUME NEW e \in Deliverers \ {d}
      PROVE  /\ deliverer[e].locks \subseteq locked'
             /\ deliverer[e].locks \cap new.locks = {}
             /\ deliverer[e].stage \in Working =>
                    \A i \in deliverer[e].batch : row'[i].state = "queued"
  <2>1. deliverer[e].batch \subseteq Item
    BY DEF DigestInv, Deliverer
  <2>2. QED
    BY <2>1 DEF DigestInv, InQueue
<1>4. new.locks \subseteq locked'
  BY DEF DigestInv
<1>5. QED
  BY <1>1, <1>2, <1>3, <1>4, OneMoves

\* A renewal changes leases only.
LEMMA RenewalKeeps ==
    ASSUME DigestInv, NEW d \in Deliverers, Renewed(d) \/ NotRenewed,
           UNCHANGED <<userVars, locked, disturbed, ghosts>>
    PROVE  /\ GlobalOK'
           /\ \A i \in Item : row'[i].state = row[i].state
<1> USE DEF userVars, ghosts
<1>1. \A i \in Item : row[i] \in Row
  BY DEF DigestInv, GlobalOK
<1>2. /\ row' \in [Item -> Row]
      /\ \A i \in Item : /\ row'[i].state = row[i].state
                         /\ row'[i].token = row[i].token
  <2>1. CASE NotRenewed
    BY <2>1 DEF NotRenewed, DigestInv, GlobalOK
  <2>2. CASE Renewed(d)
    BY <2>2, <1>1, DigestAssumption DEF Renewed, Row
  <2>3. QED
    BY <2>1, <2>2
<1>3. QED
  BY <1>2 DEF DigestInv, GlobalOK, Queued

(***************************************************************************)
(* The steps of a deliverer.                                               *)
(***************************************************************************)
LEMMA ClaimShape ==
    ASSUME NEW d \in Deliverers, Claim(d)
    PROVE  \E t \in Token, batch \in SUBSET Item :
        /\ batch # {} /\ \A i \in batch : Queued(i)
        /\ row' = [i \in Item |-> IF i \in batch
                                  THEN [row[i] EXCEPT !.token = t,
                                                      !.lease = LeaseTicks]
                                  ELSE row[i]]
        /\ Become(d, [Idle EXCEPT !.stage = "locks", !.token = t,
                                  !.batch = batch])
        /\ UNCHANGED <<userVars, locked, disturbed, ghosts>>
<1>1. (CHOOSE t \in Token : Unused(t)) \in Token
  BY DEF Claim
<1>2. QED
  BY <1>1 DEF Claim, Eligible

LEMMA ClaimKeeps ==
    ASSUME DigestInv, NEW d \in Deliverers, Claim(d) PROVE DigestInv'
<1> USE DEF userVars, ghosts
<1>1. PICK t \in Token, batch \in SUBSET Item :
        /\ batch # {} /\ \A i \in batch : Queued(i)
        /\ row' = [i \in Item |-> IF i \in batch
                                  THEN [row[i] EXCEPT !.token = t,
                                                      !.lease = LeaseTicks]
                                  ELSE row[i]]
        /\ Become(d, [Idle EXCEPT !.stage = "locks", !.token = t,
                                  !.batch = batch])
        /\ UNCHANGED <<userVars, locked, disturbed, ghosts>>
  BY ClaimShape
<1>2. PICK new : new = [Idle EXCEPT !.stage = "locks", !.token = t,
                                    !.batch = batch]
  OBVIOUS
<1>3. \A i \in Item : row[i] \in Row
  BY DEF DigestInv, GlobalOK
<1>4. /\ row' \in [Item -> Row]
      /\ \A i \in Item : row'[i].state = row[i].state
      /\ \A i \in Item : i \in batch \/ row'[i].token = row[i].token
  <2>1. LeaseTicks \in 0..LeaseTicks
    BY DigestAssumption
  <2>2. ASSUME NEW i \in Item
        PROVE  /\ row'[i] \in Row /\ row'[i].state = row[i].state
               /\ i \in batch \/ row'[i].token = row[i].token
    <3>1. CASE i \in batch
      <4>1. row'[i] = [row[i] EXCEPT !.token = t, !.lease = LeaseTicks]
        BY <1>1, <3>1
      <4>2. QED
        BY <1>3, <2>1, <3>1, <4>1 DEF Row
    <3>2. CASE i \notin batch
      BY <1>1, <1>3, <3>2
    <3>3. QED
      BY <3>1, <3>2
  <2>3. QED
    BY <1>1, <2>2
<1>5. GlobalOK'
  BY <1>1, <1>4 DEF DigestInv, GlobalOK, Queued
<1>6. new \in Deliverer
  BY <1>2 DEF Idle, Deliverer
<1>7. /\ Sound(new) /\ InQueue(new) /\ WasSent(new)
      /\ new.locks \subseteq deliverer[d].locks
  <2>1. /\ new.stage = "locks" /\ new.batch = batch /\ new.locks = {}
        /\ new.left = {} /\ new.in_flight = {} /\ new.taken = FALSE
        /\ new.delivered = {} /\ new.ambiguous = {}
    BY <1>2 DEF Idle
  <2>2. \E i \in new.batch : SubOf[i] \notin new.locks
    BY <1>1, <2>1
  <2>3. QED
    BY <1>6, <2>1, <2>2 DEF Sound, InQueue, WasSent, Working, Leased
<1>8. sent' = sent /\ locked' = locked /\ Become(d, new)
  BY <1>1, <1>2
<1>9. QED
  BY <1>4, <1>5, <1>7, <1>8, OneMovesQuietly

LEMMA TakeLockKeeps ==
    ASSUME DigestInv, NEW d \in Deliverers, TakeLock(d) PROVE DigestInv'
<1> USE DEF userVars, ghosts
<1>1. PICK s \in NextLock(d) \ locked :
        /\ locked' = locked \cup {s}
        /\ Become(d, [deliverer[d] EXCEPT !.locks = @ \cup {s},
              !.stage = IF Missing(d) = {s} THEN "keys" ELSE "locks"])
  BY DEF TakeLock
<1>2. At(d, "locks") /\ UNCHANGED <<row, userVars, disturbed, ghosts>>
  BY DEF TakeLock
<1>3. PICK new : new = [deliverer[d] EXCEPT !.locks = @ \cup {s},
              !.stage = IF Missing(d) = {s} THEN "keys" ELSE "locks"]
  OBVIOUS
<1>4. deliverer[d] \in Deliverer /\ Sound(deliverer[d]) /\ WasSent(deliverer[d])
  BY DEF DigestInv
<1>5. s \in Subs /\ s \in Missing(d)
      /\ \A r \in Missing(d) : Order[s] <= Order[r]
  BY <1>1, <1>4, DigestAssumption DEF NextLock, Missing, Deliverer
<1>6. GlobalOK'
  BY <1>1, <1>2, <1>5 DEF DigestInv, GlobalOK, Queued
<1>7. /\ new \in Deliverer
      /\ new.batch = deliverer[d].batch /\ new.locks = deliverer[d].locks \cup {s}
      /\ new.left = deliverer[d].left /\ new.in_flight = deliverer[d].in_flight
      /\ new.delivered = deliverer[d].delivered
      /\ new.ambiguous = deliverer[d].ambiguous
      /\ new.taken = deliverer[d].taken
      /\ new.stage = IF Missing(d) = {s} THEN "keys" ELSE "locks"
  BY <1>3, <1>4, <1>5 DEF Deliverer
<1>8. Sound(new)
  <2>1. new.stage = "keys" => \A i \in new.batch : SubOf[i] \in new.locks
    BY <1>7 DEF Missing
  <2>2. ASSUME new.stage = "locks", NEW r \in new.locks, NEW i \in new.batch,
               SubOf[i] \notin new.locks
        PROVE  Order[r] < Order[SubOf[i]]
    <3>1. i \in deliverer[d].batch /\ SubOf[i] \in Missing(d) /\ SubOf[i] # s
      BY <1>7, <2>2 DEF Missing
    <3>2. Order[s] <= Order[SubOf[i]]
      BY <1>5, <3>1
    <3>3. SubOf[i] \in Subs /\ r \in Subs
      BY <1>4, <1>5, <1>7, <3>1, DigestAssumption DEF Deliverer
    <3>4. Order[s] # Order[SubOf[i]] /\ Order[s] \in Nat
          /\ Order[SubOf[i]] \in Nat
      BY <1>5, <3>1, <3>3, DigestAssumption
    <3>5. CASE r = s
      BY <3>2, <3>4, <3>5
    <3>6. CASE r # s
      BY <1>2, <1>4, <1>7, <2>2, <3>1, <3>6 DEF Sound, At
    <3>7. QED
      BY <3>5, <3>6
  <2>3. new.stage \in {"keys", "locks"} /\ new.stage \notin Working
    BY <1>7 DEF Working, Leased
  <2>4. ASSUME new.stage = "locks"
        PROVE  \E i \in new.batch : SubOf[i] \notin new.locks
    <3>1. PICK r \in Missing(d) : r # s
      BY <1>5, <1>7, <2>4
    <3>2. QED
      BY <1>7, <3>1 DEF Missing
  <2>5. QED
    BY <1>2, <1>4, <1>7, <2>1, <2>2, <2>3, <2>4 DEF Sound, At
<1>9. InQueue(new)' /\ WasSent(new)'
  BY <1>2, <1>4, <1>7 DEF InQueue, WasSent, Working, Leased
<1>10. /\ new.locks \subseteq locked' /\ Become(d, new)
       /\ \A i \in Item : sent[i] <= sent'[i]
  BY <1>1, <1>2, <1>3, <1>7 DEF DigestInv, GlobalOK
<1>11. \A e \in Deliverers \ {d} :
          /\ deliverer[e].locks \subseteq locked'
          /\ deliverer[e].locks \cap new.locks = {}
          /\ deliverer[e].stage \in Working =>
                \A i \in deliverer[e].batch : row'[i].state = "queued"
  BY <1>1, <1>2, <1>7 DEF DigestInv, InQueue
<1>12. QED
  BY <1>6, <1>8, <1>9, <1>10, <1>11, OneMoves

\* The database stands still: what the deliverer, its failures and its
\* excuses do to the rest.
LEMMA GlobalStable ==
    ASSUME DigestInv, UNCHANGED <<row, userVars, locked, sent>>,
           UNCHANGED disturbed \/ Disturb,
           excused' \subseteq Item
    PROVE  /\ GlobalOK'
           /\ \A i \in Item : row'[i].state = row[i].state
<1>1. disturbed' \in 0..Disturbances
  BY DigestAssumption DEF DigestInv, GlobalOK, Disturb
<1>2. QED
  BY <1>1 DEF DigestInv, GlobalOK, userVars, Queued

LEMMA ReadKeysKeeps ==
    ASSUME DigestInv, NEW d \in Deliverers, ReadKeys(d) PROVE DigestInv'
<1> USE DEF userVars, ghosts
<1>1. PICK active : active = deliverer[d].batch \cap OwnedBy(deliverer[d].token)
  OBVIOUS
<1>2. /\ At(d, "keys")
      /\ UNCHANGED <<row, userVars, locked, disturbed, ghosts>>
      /\ Become(d, [deliverer[d] EXCEPT !.batch = active,
                        !.lost = (active = {}),
                        !.stage = IF active = {} THEN "finish" ELSE "start"])
  BY <1>1 DEF ReadKeys
<1>3. PICK new : new = [deliverer[d] EXCEPT !.batch = active,
                        !.lost = (active = {}),
                        !.stage = IF active = {} THEN "finish" ELSE "start"]
  OBVIOUS
<1>4. deliverer[d] \in Deliverer /\ Sound(deliverer[d]) /\ WasSent(deliverer[d])
  BY DEF DigestInv
<1>5. /\ new \in Deliverer
      /\ new.batch = active /\ new.locks = deliverer[d].locks
      /\ new.left = deliverer[d].left /\ new.in_flight = deliverer[d].in_flight
      /\ new.delivered = deliverer[d].delivered
      /\ new.ambiguous = deliverer[d].ambiguous
      /\ new.taken = deliverer[d].taken
      /\ new.stage \in {"finish", "start"}
  BY <1>1, <1>3, <1>4 DEF Deliverer, Leased
<1>6. active \subseteq deliverer[d].batch /\ \A i \in active : Queued(i)
  BY <1>1 DEF OwnedBy, HeldBy
<1>7. Sound(new) /\ InQueue(new) /\ WasSent(new)
  BY <1>2, <1>4, <1>5, <1>6 DEF Sound, InQueue, WasSent, At, Queued
<1>8. GlobalOK' /\ \A i \in Item : row'[i].state = row[i].state
  BY <1>2, GlobalStable DEF DigestInv, GlobalOK
<1>9. QED
  BY <1>2, <1>3, <1>5, <1>7, <1>8, OneMovesQuietly

\* A step after the locks, by what it makes of the items: the batch and the
\* locks stay as they are.
LEMMA WorkKeeps ==
    ASSUME DigestInv, NEW d \in Deliverers, NEW new, Become(d, new), GlobalOK',
           \A i \in Item : row'[i].state = row[i].state,
           sent' = sent, locked' = locked,
           deliverer[d].stage \in Working, new.stage \in Leased,
           new \in Deliverer,
           new.batch = deliverer[d].batch, new.locks = deliverer[d].locks,
           new.left \subseteq new.batch, new.in_flight \subseteq new.batch,
           new.delivered \subseteq new.batch, new.ambiguous \subseteq new.batch,
           WasSent(new)
    PROVE  DigestInv'
<1>1. Sound(deliverer[d]) /\ InQueue(deliverer[d])
  BY DEF DigestInv
<1>2. Sound(new) /\ InQueue(new)
  BY <1>1 DEF Sound, InQueue, Working, Leased
<1>3. QED
  BY <1>2, OneMovesQuietly

LEMMA StartKeeps ==
    ASSUME DigestInv, NEW d \in Deliverers, Start(d) PROVE DigestInv'
<1> USE DEF userVars, ghosts
<1>1. PICK album : album = AlbumOf(deliverer[d].batch)
  OBVIOUS
<1>2. /\ At(d, "start") /\ UNCHANGED <<userVars, locked, disturbed, ghosts>>
      /\ Renewed(d) \/ NotRenewed
  BY DEF Start
<1>3. GlobalOK' /\ \A i \in Item : row'[i].state = row[i].state
  BY <1>2, RenewalKeeps
<1>4. deliverer[d] \in Deliverer /\ Sound(deliverer[d]) /\ WasSent(deliverer[d])
  BY DEF DigestInv
<1>5. PICK new : /\ Become(d, new)
                 /\ \/ new = [deliverer[d] EXCEPT
                           !.stage = IF album = {} THEN "items" ELSE "album",
                           !.left = @ \cup (deliverer[d].batch \ album)]
                    \/ new = [deliverer[d] EXCEPT !.stage = "finish",
                                                  !.lost = TRUE]
  BY <1>1 DEF Start
<1>6. /\ new \in Deliverer
      /\ new.batch = deliverer[d].batch /\ new.locks = deliverer[d].locks
      /\ new.left \subseteq deliverer[d].left \cup deliverer[d].batch
      /\ new.in_flight = deliverer[d].in_flight
      /\ new.delivered = deliverer[d].delivered
      /\ new.ambiguous = deliverer[d].ambiguous
      /\ new.taken = deliverer[d].taken
      /\ new.stage \in Leased
  <2>1. CASE new = [deliverer[d] EXCEPT
                       !.stage = IF album = {} THEN "items" ELSE "album",
                       !.left = @ \cup (deliverer[d].batch \ album)]
    <3>1. deliverer[d].left \cup (deliverer[d].batch \ album) \subseteq Item
      BY <1>4 DEF Deliverer
    <3>2. QED
      BY <1>4, <2>1, <3>1 DEF Deliverer, Leased
  <2>2. CASE new = [deliverer[d] EXCEPT !.stage = "finish", !.lost = TRUE]
    BY <1>4, <2>2 DEF Deliverer, Leased
  <2>3. QED
    BY <1>5, <2>1, <2>2
<1>7. WasSent(new) /\ deliverer[d].stage \in Working
  BY <1>2, <1>4, <1>6 DEF WasSent, At, Working
<1>8. QED
  BY <1>2, <1>3, <1>4, <1>5, <1>6, <1>7, WorkKeeps DEF Sound

LEMMA LoseClaimKeeps ==
    ASSUME DigestInv, NEW d \in Deliverers, LoseClaim(d) PROVE DigestInv'
<1> USE DEF userVars, ghosts
<1>1. PICK new : new = [deliverer[d] EXCEPT !.lost = TRUE]
  OBVIOUS
<1>2. /\ Become(d, new) /\ Disturb /\ deliverer[d].stage \in Leased
      /\ UNCHANGED <<row, userVars, locked, ghosts>>
  BY <1>1 DEF LoseClaim
<1>3. deliverer[d] \in Deliverer /\ Sound(deliverer[d]) /\ WasSent(deliverer[d])
  BY DEF DigestInv
<1>4. /\ new \in Deliverer
      /\ new.batch = deliverer[d].batch /\ new.locks = deliverer[d].locks
      /\ new.left = deliverer[d].left /\ new.in_flight = deliverer[d].in_flight
      /\ new.delivered = deliverer[d].delivered
      /\ new.ambiguous = deliverer[d].ambiguous
      /\ new.taken = deliverer[d].taken /\ new.stage = deliverer[d].stage
  BY <1>1, <1>3 DEF Deliverer
<1>5. WasSent(new) /\ deliverer[d].stage \in Working
  BY <1>2, <1>3, <1>4 DEF WasSent, Working
<1>6. GlobalOK' /\ \A i \in Item : row'[i].state = row[i].state
  BY <1>2, GlobalStable DEF DigestInv, GlobalOK
<1>7. QED
  BY <1>2, <1>3, <1>4, <1>5, <1>6, WorkKeeps DEF Sound

LEMMA CheckedSendKeeps ==
    ASSUME DigestInv, NEW d \in Deliverers, NEW items \in SUBSET Item,
           items \subseteq deliverer[d].batch,
           CheckedSend(d, items), deliverer[d].stage \in {"album", "items"},
           UNCHANGED <<userVars, locked, disturbed, ghosts>>
    PROVE  DigestInv'
<1> USE DEF userVars, ghosts
<1>1. Renewed(d) \/ NotRenewed
  BY DEF CheckedSend
<1>2. GlobalOK' /\ \A i \in Item : row'[i].state = row[i].state
  BY <1>1, RenewalKeeps
<1>3. PICK new : /\ Become(d, new)
                 /\ \/ new = [deliverer[d] EXCEPT !.stage = "wire",
                                 !.in_flight = items, !.left = @ \ items,
                                 !.taken = FALSE]
                    \/ new = [deliverer[d] EXCEPT !.stage = "finish",
                                                  !.lost = TRUE]
  BY DEF CheckedSend
<1>4. deliverer[d] \in Deliverer /\ Sound(deliverer[d]) /\ WasSent(deliverer[d])
  BY DEF DigestInv
<1>5. /\ new \in Deliverer
      /\ new.batch = deliverer[d].batch /\ new.locks = deliverer[d].locks
      /\ new.left \subseteq deliverer[d].left
      /\ new.delivered = deliverer[d].delivered
      /\ new.ambiguous = deliverer[d].ambiguous
      /\ new.stage \in Leased
      /\ \/ new.in_flight = items /\ ~new.taken
         \/ /\ new.in_flight = deliverer[d].in_flight
            /\ new.taken = deliverer[d].taken
  <2>1. CASE new = [deliverer[d] EXCEPT !.stage = "wire", !.in_flight = items,
                                       !.left = @ \ items, !.taken = FALSE]
    <3>1. deliverer[d].left \ items \subseteq Item
      BY <1>4 DEF Deliverer
    <3>2. QED
      BY <1>4, <2>1, <3>1 DEF Deliverer, Leased
  <2>2. CASE new = [deliverer[d] EXCEPT !.stage = "finish", !.lost = TRUE]
    BY <1>4, <2>2 DEF Deliverer, Leased
  <2>3. QED
    BY <1>3, <2>1, <2>2
<1>6. WasSent(new) /\ deliverer[d].stage \in Working
  BY <1>4, <1>5 DEF WasSent, Working, Leased
<1>7. QED
  BY <1>2, <1>3, <1>4, <1>5, <1>6, WorkKeeps DEF Sound

LEMMA SendsKeep ==
    ASSUME DigestInv, NEW d \in Deliverers, SendAlbum(d) \/ SendItem(d)
    PROVE  DigestInv'
<1>1. deliverer[d] \in Deliverer /\ Sound(deliverer[d])
  BY DEF DigestInv
<1>2. CASE SendAlbum(d)
  <2>1. AlbumOf(deliverer[d].batch) \subseteq deliverer[d].batch
    BY DEF AlbumOf
  <2>2. QED
    BY <1>1, <1>2, <2>1, CheckedSendKeeps DEF SendAlbum, At, Deliverer
<1>3. CASE SendItem(d)
  <2>1. PICK i \in deliverer[d].left : CheckedSend(d, {i})
    BY <1>3 DEF SendItem
  <2>2. {i} \subseteq deliverer[d].batch /\ {i} \in SUBSET Item
    BY <1>1 DEF Sound, Deliverer
  <2>3. QED
    BY <1>3, <2>1, <2>2, CheckedSendKeeps DEF SendItem, At
<1>4. QED
  BY <1>2, <1>3

LEMMA TelegramAcceptsKeeps ==
    ASSUME DigestInv, NEW d \in Deliverers, TelegramAccepts(d) PROVE DigestInv'
<1> USE DEF userVars, ghosts
<1>1. PICK new : new = [deliverer[d] EXCEPT !.taken = TRUE]
  OBVIOUS
<1>2. /\ At(d, "wire") /\ Become(d, new)
      /\ sent' = [i \in Item |-> IF i \in deliverer[d].in_flight
                                 THEN Once(sent[i]) ELSE sent[i]]
      /\ UNCHANGED <<row, userVars, locked, disturbed, excused>>
  BY <1>1 DEF TelegramAccepts
<1>3. deliverer[d] \in Deliverer /\ Sound(deliverer[d]) /\ WasSent(deliverer[d])
      /\ InQueue(deliverer[d])
  BY DEF DigestInv
<1>4. /\ new \in Deliverer
      /\ new.batch = deliverer[d].batch /\ new.locks = deliverer[d].locks
      /\ new.left = deliverer[d].left /\ new.in_flight = deliverer[d].in_flight
      /\ new.delivered = deliverer[d].delivered
      /\ new.ambiguous = deliverer[d].ambiguous
      /\ new.taken = TRUE /\ new.stage = deliverer[d].stage
  BY <1>1, <1>3 DEF Deliverer
<1>5. \A i \in Item : /\ sent'[i] \in 0..2 /\ sent[i] <= sent'[i]
                      /\ i \in new.in_flight => sent'[i] > 0
  BY <1>2, <1>4 DEF Once, DigestInv, GlobalOK
<1>6. GlobalOK'
  BY <1>2, <1>5 DEF DigestInv, GlobalOK, Queued
<1>7. Sound(new) /\ InQueue(new)'
  BY <1>2, <1>3, <1>4 DEF Sound, InQueue
<1>8. WasSent(new)'
  <2>1. new.in_flight \subseteq Item /\ new.delivered \subseteq Item
    BY <1>4 DEF Deliverer
  <2>2. \A i \in new.delivered : sent[i] > 0 /\ sent[i] \in 0..2
    BY <1>3, <1>4, <2>1 DEF WasSent, DigestInv, GlobalOK
  <2>3. \A i \in new.delivered : sent'[i] > 0
    BY <1>5, <2>1, <2>2
  <2>4. QED
    BY <1>5, <2>1, <2>3 DEF WasSent
<1>9. \A e \in Deliverers \ {d} :
         /\ deliverer[e].locks \subseteq locked'
         /\ deliverer[e].locks \cap new.locks = {}
         /\ deliverer[e].stage \in Working =>
               \A i \in deliverer[e].batch : row'[i].state = "queued"
  BY <1>2, <1>4 DEF DigestInv, InQueue
<1>10. new.locks \subseteq locked'
  BY <1>2, <1>4 DEF DigestInv
<1>11. QED
  BY <1>2, <1>5, <1>6, <1>7, <1>8, <1>9, <1>10, OneMoves

\* A request is over: its items are kept apart, or given up.
LEMMA AnsweredKeeps ==
    ASSUME DigestInv, NEW d \in Deliverers,
           NEW stage \in {"items", "finish"},
           NEW delivered \in SUBSET deliverer[d].in_flight,
           NEW ambiguous \in SUBSET deliverer[d].in_flight,
           delivered # {} => deliverer[d].taken,
           Answered(d, stage, delivered, ambiguous),
           deliverer[d].stage \in {"album", "items", "wire"},
           UNCHANGED <<row, userVars, locked, sent>>,
           UNCHANGED disturbed \/ Disturb,
           excused' \subseteq Item
    PROVE  DigestInv'
<1>1. PICK new : new = [deliverer[d] EXCEPT !.stage = stage, !.in_flight = {},
                           !.taken = FALSE, !.delivered = @ \cup delivered,
                           !.ambiguous = @ \cup ambiguous]
  OBVIOUS
<1>2. Become(d, new)
  BY <1>1 DEF Answered
<1>3. deliverer[d] \in Deliverer /\ Sound(deliverer[d]) /\ WasSent(deliverer[d])
  BY DEF DigestInv
<1>4. /\ deliverer[d].delivered \cup delivered \subseteq Item
      /\ deliverer[d].ambiguous \cup ambiguous \subseteq Item
  BY <1>3 DEF Deliverer
<1>5. /\ new \in Deliverer
      /\ new.batch = deliverer[d].batch /\ new.locks = deliverer[d].locks
      /\ new.left = deliverer[d].left /\ new.in_flight = {}
      /\ new.delivered = deliverer[d].delivered \cup delivered
      /\ new.ambiguous = deliverer[d].ambiguous \cup ambiguous
      /\ new.taken = FALSE /\ new.stage = stage
  BY <1>1, <1>3, <1>4 DEF Deliverer, Leased
<1>6. /\ WasSent(new) /\ deliverer[d].stage \in Working
      /\ new.stage \in Leased
  BY <1>3, <1>5 DEF WasSent, Working, Leased
<1>7. GlobalOK' /\ \A i \in Item : row'[i].state = row[i].state
  BY GlobalStable
<1>8. /\ new.delivered \subseteq new.batch /\ new.ambiguous \subseteq new.batch
      /\ new.left \subseteq new.batch /\ new.in_flight \subseteq new.batch
  BY <1>3, <1>5 DEF Sound
<1>9. QED
  BY <1>2, <1>5, <1>6, <1>7, <1>8, WorkKeeps

LEMMA AnswersKeep ==
    ASSUME DigestInv, NEW d \in Deliverers,
           Confirmed(d) \/ RejectedForAll(d) \/ AnswerLost(d)
    PROVE  DigestInv'
<1> USE DEF userVars, ghosts, At
<1>1. deliverer[d] \in Deliverer /\ excused \subseteq Item
  BY DEF DigestInv, GlobalOK
<1>2. deliverer[d].in_flight \subseteq Item
  BY <1>1 DEF Deliverer
<1>3. CASE Confirmed(d)
  BY <1>1, <1>3, AnsweredKeeps DEF Confirmed
<1>4. CASE RejectedForAll(d)
  BY <1>1, <1>4, AnsweredKeeps DEF RejectedForAll
<1>5. CASE AnswerLost(d)
  <2>1. excused' \subseteq Item
    BY <1>1, <1>2, <1>5 DEF AnswerLost, InFlightExcused
  <2>2. QED
    BY <1>5, <2>1, AnsweredKeeps DEF AnswerLost
<1>6. QED
  BY <1>3, <1>4, <1>5

LEMMA RejectedKeeps ==
    ASSUME DigestInv, NEW d \in Deliverers, Rejected(d) PROVE DigestInv'
<1> USE DEF userVars, ghosts
<1>1. PICK left : left = IF Cardinality(deliverer[d].in_flight) > 1
                         THEN deliverer[d].left \cup deliverer[d].in_flight
                         ELSE deliverer[d].left
  OBVIOUS
<1>2. PICK new : new = [deliverer[d] EXCEPT !.stage = "items",
                           !.in_flight = {}, !.left = left]
  OBVIOUS
<1>3. /\ Become(d, new) /\ Disturb /\ At(d, "wire") /\ ~deliverer[d].taken
      /\ UNCHANGED <<row, userVars, locked, ghosts>>
  BY <1>1, <1>2 DEF Rejected
<1>4. deliverer[d] \in Deliverer /\ Sound(deliverer[d]) /\ WasSent(deliverer[d])
  BY DEF DigestInv
<1>5. left \subseteq deliverer[d].batch /\ left \subseteq Item
  BY <1>1, <1>4 DEF Sound, Deliverer
<1>6. /\ new \in Deliverer
      /\ new.batch = deliverer[d].batch /\ new.locks = deliverer[d].locks
      /\ new.left = left /\ new.in_flight = {}
      /\ new.delivered = deliverer[d].delivered
      /\ new.ambiguous = deliverer[d].ambiguous
      /\ new.taken = deliverer[d].taken /\ new.stage = "items"
  BY <1>2, <1>4, <1>5 DEF Deliverer, Leased
<1>7. /\ WasSent(new) /\ deliverer[d].stage \in Working /\ new.stage \in Leased
  BY <1>3, <1>4, <1>6 DEF WasSent, Working, Leased, At
<1>8. GlobalOK' /\ \A i \in Item : row'[i].state = row[i].state
  BY <1>3, GlobalStable DEF DigestInv, GlobalOK
<1>9. QED
  BY <1>3, <1>4, <1>5, <1>6, <1>7, <1>8, WorkKeeps DEF Sound

(***************************************************************************)
(* The end of a delivery.                                                  *)
(***************************************************************************)
\* A deliverer without a batch contradicts nothing.
LEMMA IdleSound == /\ Idle \in Deliverer /\ Idle.locks = {}
                   /\ Sound(Idle) /\ InQueue(Idle) /\ WasSent(Idle)
<1>1. Idle \in Deliverer
  BY DEF Idle, Deliverer
<1>2. QED
  BY <1>1 DEF Idle, Sound, InQueue, WasSent, Working, Leased

\* An item given back stays where it is.
LEMMA UnclaimedRow ==
    ASSUME NEW r \in Row
    PROVE  /\ Unclaimed(r) \in Row
           /\ Unclaimed(r).state = r.state /\ Unclaimed(r).token = NoToken
           /\ [Unclaimed(r) EXCEPT !.retry = RetryTicks] \in Row
           /\ [Unclaimed(r) EXCEPT !.retry = RetryTicks].state = r.state
           /\ [Unclaimed(r) EXCEPT !.retry = RetryTicks].token = NoToken
<1>1. 0 \in 0..LeaseTicks /\ RetryTicks \in 0..RetryTicks
  BY DigestAssumption
<1>2. QED
  BY <1>1 DEF Unclaimed, Row

LEMMA GoneRow == Gone \in Row /\ Gone.token = NoToken /\ Gone.state = "gone"
<1>1. 0 \in 0..LeaseTicks /\ 0 \in 0..RetryTicks
  BY DigestAssumption
<1>2. QED
  BY <1>1 DEF Gone, NewRow, Row

\* A deliverer ends: what it settles is its own.
LEMMA EndKeeps ==
    ASSUME DigestInv, NEW d \in Deliverers, Become(d, Idle), GlobalOK',
           UNCHANGED sent, locked \ deliverer[d].locks \subseteq locked',
           \A i \in Item :
               \/ row'[i].state = row[i].state
               \/ i \in deliverer[d].batch /\ SubOf[i] \in deliverer[d].locks
    PROVE  DigestInv'
<1>1. PICK new : new = Idle
  OBVIOUS
<1>2. /\ Sound(new) /\ InQueue(new)' /\ WasSent(new)'
      /\ new.locks = {} /\ new.locks \subseteq locked' /\ Become(d, new)
  BY <1>1, IdleSound DEF Idle, InQueue, WasSent, Working, Leased
<1>3. \A i \in Item : sent[i] <= sent'[i]
  BY DEF DigestInv, GlobalOK
<1>4. ASSUME NEW e \in Deliverers \ {d}
      PROVE  /\ deliverer[e].locks \subseteq locked'
             /\ deliverer[e].locks \cap new.locks = {}
             /\ deliverer[e].stage \in Working =>
                   \A i \in deliverer[e].batch : row'[i].state = "queued"
  <2>1. /\ deliverer[e].locks \subseteq locked
        /\ deliverer[e].locks \cap deliverer[d].locks = {}
    BY DEF DigestInv
  <2>2. ASSUME deliverer[e].stage \in Working, NEW i \in deliverer[e].batch
        PROVE  row'[i].state = "queued"
    <3>1. i \in Item /\ row[i].state = "queued" /\ SubOf[i] \in deliverer[e].locks
      BY <2>2 DEF DigestInv, Sound, InQueue, Deliverer
    <3>2. QED
      BY <2>1, <3>1
  <2>3. QED
    BY <1>2, <2>1, <2>2
<1>5. QED
  BY <1>2, <1>3, <1>4, OneMoves

LEMMA FinishKeeps ==
    ASSUME DigestInv, NEW d \in Deliverers, Finish(d) PROVE DigestInv'
<1> USE DEF userVars, ghosts
<1>1. /\ Done(d) /\ Unlock(d) /\ Become(d, Idle)
      /\ UNCHANGED <<userVars, disturbed, ghosts>>
      /\ row' = [i \in Item |-> IF i \in HeldBy(deliverer[d].token)
                                THEN Settled(d, i) ELSE row[i]]
  BY DEF Finish
<1>2. deliverer[d] \in Deliverer /\ Sound(deliverer[d])
      /\ deliverer[d].stage \in Working
  BY <1>1 DEF DigestInv, Done, At, Working, Leased
<1>3. ASSUME NEW i \in Item
      PROVE  /\ row'[i] \in Row
             /\ row'[i] = row[i] \/ row'[i].token = NoToken
             /\ \/ row'[i].state = row[i].state
                \/ i \in deliverer[d].batch /\ SubOf[i] \in deliverer[d].locks
  <2>1. row[i] \in Row
    BY DEF DigestInv, GlobalOK
  <2>2. CASE i \notin HeldBy(deliverer[d].token)
    BY <1>1, <2>1, <2>2
  <2>3. CASE i \in HeldBy(deliverer[d].token)
    <3>1. row'[i] = Settled(d, i)
      BY <1>1, <2>3
    <3>2. CASE i \in deliverer[d].delivered
      BY <1>2, <3>1, <3>2, GoneRow DEF Settled, Sound
    <3>3. CASE i \notin deliverer[d].delivered
      BY <2>1, <3>1, <3>3, UnclaimedRow DEF Settled
    <3>4. QED
      BY <3>2, <3>3
  <2>4. QED
    BY <2>2, <2>3
<1>4. row' \in [Item -> Row]
  BY <1>1, <1>3
<1>5. locked' = locked \ deliverer[d].locks
  BY <1>1 DEF Unlock
<1>6. GlobalOK'
  BY <1>1, <1>3, <1>4, <1>5 DEF DigestInv, GlobalOK, Queued
<1>7. QED
  BY <1>1, <1>3, <1>5, <1>6, EndKeeps

\* A release changes no more than tokens, leases and retries.
LEMMA ReleasedRows ==
    ASSUME DigestInv, NEW t
    PROVE  /\ Released(t) \in [Item -> Row]
           /\ \A i \in Item : /\ Released(t)[i].state = row[i].state
                              /\ \/ Released(t)[i].token = row[i].token
                                 \/ Released(t)[i].token = NoToken
<1>1. \A i \in Item : row[i] \in Row
  BY DEF DigestInv, GlobalOK
<1>2. QED
  BY <1>1, UnclaimedRow DEF Released

LEMMA ReleasesKeep ==
    ASSUME DigestInv, NEW d \in Deliverers, Release(d) \/ ReleaseFails(d)
    PROVE  DigestInv'
<1> USE DEF userVars, ghosts
<1>1. /\ row' \in {row, Released(deliverer[d].token)}
      /\ locked' \in {locked, locked \ deliverer[d].locks}
      /\ Become(d, Idle) /\ UNCHANGED <<userVars, ghosts>>
      /\ UNCHANGED disturbed \/ Disturb
  BY DEF Release, ReleaseFails, Unlock
<1>2. /\ row' \in [Item -> Row]
      /\ \A i \in Item : /\ row'[i].state = row[i].state
                         /\ row'[i].token \in {row[i].token, NoToken}
  BY <1>1, ReleasedRows DEF DigestInv, GlobalOK
<1>3. disturbed' \in 0..Disturbances
  BY <1>1, DigestAssumption DEF DigestInv, GlobalOK, Disturb
<1>4. GlobalOK'
  BY <1>1, <1>2, <1>3 DEF DigestInv, GlobalOK, Queued
<1>5. QED
  BY <1>1, <1>2, <1>4, EndKeeps

\* A delivery goes to its `finally` block, with all its locks or none.
LEMMA GivesUp ==
    ASSUME DigestInv, NEW d \in Deliverers, NEW locks \in {{}, deliverer[d].locks},
           Become(d, [deliverer[d] EXCEPT !.stage = "release", !.locks = locks]),
           locked' = locked \ (deliverer[d].locks \ locks),
           UNCHANGED <<row, userVars, sent>>, Disturb, excused' \subseteq Item
    PROVE  DigestInv'
<1>1. PICK new : new = [deliverer[d] EXCEPT !.stage = "release", !.locks = locks]
  OBVIOUS
<1>2. deliverer[d] \in Deliverer /\ Sound(deliverer[d]) /\ WasSent(deliverer[d])
  BY DEF DigestInv
<1>3. /\ new \in Deliverer
      /\ new.batch = deliverer[d].batch /\ new.locks = locks
      /\ new.left = deliverer[d].left /\ new.in_flight = deliverer[d].in_flight
      /\ new.delivered = deliverer[d].delivered
      /\ new.ambiguous = deliverer[d].ambiguous
      /\ new.taken = deliverer[d].taken /\ new.stage = "release"
  BY <1>1, <1>2 DEF Deliverer
<1>4. Sound(new) /\ InQueue(new)' /\ WasSent(new)'
  BY <1>2, <1>3 DEF Sound, InQueue, WasSent, Working, Leased
<1>5. disturbed' \in 0..Disturbances
  BY DigestAssumption DEF DigestInv, GlobalOK, Disturb
<1>6. GlobalOK'
  BY <1>5 DEF DigestInv, GlobalOK, Queued, userVars
<1>7. /\ new.locks \subseteq locked' /\ Become(d, new)
      /\ \A i \in Item : sent[i] <= sent'[i]
  BY <1>1, <1>3 DEF DigestInv, GlobalOK
<1>8. ASSUME NEW e \in Deliverers \ {d}
      PROVE  /\ deliverer[e].locks \subseteq locked'
             /\ deliverer[e].locks \cap new.locks = {}
             /\ deliverer[e].stage \in Working =>
                   \A i \in deliverer[e].batch : row'[i].state = "queued"
  BY <1>3 DEF DigestInv, InQueue
<1>9. QED
  BY <1>4, <1>6, <1>7, <1>8, OneMoves

LEMMA FailuresKeep ==
    ASSUME DigestInv, NEW d \in Deliverers, StatementFails(d) \/ Cancel(d)
    PROVE  DigestInv'
<1> USE DEF userVars
<1>1. deliverer[d] \in Deliverer /\ excused \subseteq Item
  BY DEF DigestInv, GlobalOK
<1>2. deliverer[d].delivered \subseteq Item /\ deliverer[d].in_flight \subseteq Item
  BY <1>1 DEF Deliverer
<1>3. CASE StatementFails(d)
  <2>1. [deliverer[d] EXCEPT !.stage = "release", !.locks = deliverer[d].locks]
           = [deliverer[d] EXCEPT !.stage = "release"]
    BY <1>1 DEF Deliverer
  <2>2. Become(d, [deliverer[d] EXCEPT !.stage = "release",
                                       !.locks = deliverer[d].locks])
    BY <1>3, <2>1 DEF StatementFails, Goto
  <2>3. locked' = locked \ (deliverer[d].locks \ deliverer[d].locks)
    BY <1>3 DEF StatementFails
  <2>4. excused' \subseteq Item
    BY <1>1, <1>2, <1>3 DEF StatementFails
  <2>5. QED
    BY <1>3, <2>2, <2>3, <2>4, GivesUp DEF StatementFails
<1>4. CASE Cancel(d)
  <2>1. excused' \subseteq Item
    BY <1>1, <1>2, <1>4 DEF Cancel, InFlightExcused
  <2>2. CASE deliverer[d].stage \in {"album", "items", "wire"}
    <3>1. Answered(d, "finish", {}, deliverer[d].in_flight)
          /\ UNCHANGED locked
      BY <1>4, <2>2 DEF Cancel
    <3>2. QED
      BY <1>4, <2>1, <2>2, <3>1, AnsweredKeeps DEF Cancel
  <2>3. CASE At(d, "locks")
    <3>1. Become(d, [deliverer[d] EXCEPT !.stage = "release", !.locks = {}])
      BY <1>4, <2>3 DEF Cancel, At
    <3>2. locked' = locked \ (deliverer[d].locks \ {})
      BY <1>4, <2>3 DEF Cancel, At
    <3>3. QED
      BY <1>4, <2>1, <3>1, <3>2, GivesUp DEF Cancel
  <2>4. CASE deliverer[d].stage \in {"keys", "start"}
    <3>1. Become(d, [deliverer[d] EXCEPT !.stage = "release",
                                         !.locks = deliverer[d].locks])
      BY <1>4, <2>4 DEF Cancel, At
    <3>2. locked' = locked \ (deliverer[d].locks \ deliverer[d].locks)
      BY <1>4, <2>4 DEF Cancel, At
    <3>3. QED
      BY <1>4, <2>1, <3>1, <3>2, GivesUp DEF Cancel
  <2>5. QED
    BY <1>4, <2>2, <2>3, <2>4 DEF Cancel, At
<1>5. QED
  BY <1>3, <1>4

(***************************************************************************)
(* The steps of everybody else.                                            *)
(***************************************************************************)
\* What happens around the deliverers takes no item from one that has its
\* locks.
LEMMA SurroundingsKeep ==
    ASSUME DigestInv, GlobalOK', UNCHANGED <<deliverer, sent>>,
           UNCHANGED locked,
           \A i \in Item : Queued(i) /\ ~Queued(i)' => SubOf[i] \notin locked
    PROVE  DigestInv'
<1>1. ASSUME NEW d \in Deliverers
      PROVE  InQueue(deliverer[d])'
  <2>1. /\ deliverer[d] \in Deliverer /\ Sound(deliverer[d])
        /\ InQueue(deliverer[d]) /\ deliverer[d].locks \subseteq locked
    BY DEF DigestInv
  <2>2. ASSUME deliverer[d].stage \in Working, NEW i \in deliverer[d].batch
        PROVE  row'[i].state = "queued"
    <3>1. i \in Item /\ Queued(i) /\ SubOf[i] \in locked
      BY <2>1, <2>2 DEF Sound, InQueue, Deliverer, Queued
    <3>2. QED
      BY <3>1 DEF Queued
  <2>3. QED
    BY <2>2 DEF InQueue
<1>2. ASSUME NEW d \in Deliverers
      PROVE  Sound(deliverer[d])' /\ WasSent(deliverer[d])'
  BY DEF DigestInv, Sound, WasSent
<1>3. QED
  BY <1>1, <1>2 DEF DigestInv

LEMMA CommandsKeep ==
    ASSUME DigestInv,
           \/ \E i \in Item : Enqueue(i)
           \/ \E s \in Subs : Toggle(s) \/ Remove(s)
           \/ Pause
    PROVE  DigestInv'
<1> USE DEF userVars, ghosts
<1>1. \A i \in Item : row[i] \in Row
  BY DEF DigestInv, GlobalOK
<1>2. Disturb => disturbed' \in 0..Disturbances
  BY DigestAssumption DEF DigestInv, GlobalOK, Disturb
<1>3. ASSUME NEW i \in Item, Enqueue(i)
      PROVE  DigestInv'
  <2>1. row' = [row EXCEPT ![i].state = "queued"]
        /\ UNCHANGED <<userVars, deliverer, locked, disturbed, ghosts>>
    BY <1>3 DEF Enqueue
  <2>2. /\ row' \in [Item -> Row]
        /\ \A j \in Item : /\ row'[j].token = row[j].token
                           /\ row[j].state = "queued" => row'[j].state = "queued"
                           /\ row'[j].state = "queued" \/ row'[j] = row[j]
    BY <1>1, <2>1 DEF Row, DigestInv, GlobalOK
  <2>3. GlobalOK'
    BY <2>1, <2>2 DEF DigestInv, GlobalOK, Queued
  <2>4. QED
    BY <2>1, <2>2, <2>3, SurroundingsKeep DEF Queued
<1>4. ASSUME NEW s \in Subs, Toggle(s)
      PROVE  DigestInv'
  <2>1. /\ subs' = [subs EXCEPT ![s] = IF @ = "active" THEN "inactive"
                                       ELSE "active"]
        /\ Disturb /\ UNCHANGED <<row, paused, deliverer, locked, ghosts>>
    BY <1>4 DEF Toggle
  <2>2. GlobalOK'
    BY <1>2, <2>1 DEF DigestInv, GlobalOK, Queued
  <2>3. QED
    BY <2>1, <2>2, SurroundingsKeep DEF Queued
<1>5. ASSUME NEW s \in Subs, Remove(s)
      PROVE  DigestInv'
  <2>1. /\ subs' = [subs EXCEPT ![s] = "removed"] /\ s \notin locked
        /\ row' = [i \in Item |-> IF SubOf[i] = s /\ Queued(i) THEN Gone
                                  ELSE row[i]]
        /\ Disturb /\ UNCHANGED <<paused, deliverer, locked, ghosts>>
    BY <1>5 DEF Remove
  <2>2. /\ row' \in [Item -> Row]
        /\ \A i \in Item : row'[i] = row[i] \/ row'[i].token = NoToken
    BY <1>1, <2>1, GoneRow
  <2>3. GlobalOK'
    BY <1>2, <2>1, <2>2 DEF DigestInv, GlobalOK, Queued
  <2>4. \A i \in Item : Queued(i) /\ ~Queued(i)' => SubOf[i] \notin locked
    BY <2>1 DEF Queued
  <2>5. QED
    BY <2>1, <2>3, <2>4, SurroundingsKeep
<1>6. CASE Pause
  <2>1. GlobalOK'
    BY <1>2, <1>6 DEF Pause, DigestInv, GlobalOK, Queued
  <2>2. QED
    BY <1>6, <2>1, SurroundingsKeep DEF Pause, Queued
<1>7. QED
  BY <1>3, <1>4, <1>5, <1>6

LEMMA TickKeeps == ASSUME DigestInv, Tick PROVE DigestInv'
<1> USE DEF userVars, ghosts
<1>1. /\ UNCHANGED <<userVars, locked, disturbed, sent>>
      /\ excused' = excused \cup Lapsing
      /\ row' = [i \in Item |->
                   [row[i] EXCEPT !.lease = IF i \in KeptAlive THEN LeaseTicks
                                            ELSE Less(@),
                                  !.retry = Less(@)]]
  BY DEF Tick
<1>2. ASSUME NEW i \in Item
      PROVE  /\ row'[i] \in Row
             /\ row'[i].state = row[i].state /\ row'[i].token = row[i].token
  <2>1. row[i] \in Row
    BY DEF DigestInv, GlobalOK
  <2>2. /\ LeaseTicks \in 0..LeaseTicks
        /\ Less(row[i].lease) \in 0..LeaseTicks
        /\ Less(row[i].retry) \in 0..RetryTicks
    BY <2>1, DigestAssumption DEF Less, Row
  <2>3. QED
    BY <1>1, <2>1, <2>2 DEF Row
<1>3. row' \in [Item -> Row]
  BY <1>1, <1>2
<1>4. GlobalOK'
  BY <1>1, <1>2, <1>3 DEF DigestInv, GlobalOK, Queued, Lapsing
<1>5. ASSUME NEW d \in Deliverers
      PROVE  \E lost \in BOOLEAN :
                 deliverer'[d] = [deliverer[d] EXCEPT !.lost = lost]
  <2>1. (deliverer[d].lost \/ (Beating(d) /\ OwnedBy(deliverer[d].token) = {}))
            \in BOOLEAN
    BY DEF DigestInv, Deliverer
  <2>2. deliverer'[d] = [deliverer[d] EXCEPT !.lost =
            (deliverer[d].lost
                \/ (Beating(d) /\ OwnedBy(deliverer[d].token) = {}))]
    BY DEF Tick
  <2>3. QED
    BY <2>1, <2>2
<1>6. ASSUME NEW d \in Deliverers
      PROVE  /\ deliverer'[d] \in Deliverer
             /\ Sound(deliverer'[d]) /\ InQueue(deliverer[d])'
             /\ WasSent(deliverer[d])'
             /\ deliverer'[d].locks = deliverer[d].locks
  <2>1. deliverer[d] \in Deliverer /\ Sound(deliverer[d])
        /\ InQueue(deliverer[d]) /\ WasSent(deliverer[d])
    BY DEF DigestInv
  <2>2. /\ deliverer'[d] \in Deliverer
        /\ deliverer'[d].batch = deliverer[d].batch
        /\ deliverer'[d].locks = deliverer[d].locks
        /\ deliverer'[d].left = deliverer[d].left
        /\ deliverer'[d].in_flight = deliverer[d].in_flight
        /\ deliverer'[d].delivered = deliverer[d].delivered
        /\ deliverer'[d].ambiguous = deliverer[d].ambiguous
        /\ deliverer'[d].taken = deliverer[d].taken
        /\ deliverer'[d].stage = deliverer[d].stage
    BY <1>5, <2>1 DEF Deliverer
  <2>3. deliverer[d].batch \subseteq Item
    BY <2>1 DEF Deliverer
  <2>4. Sound(deliverer'[d])
    BY <2>1, <2>2 DEF Sound
  <2>5. InQueue(deliverer[d])' /\ WasSent(deliverer[d])'
    BY <1>1, <1>2, <2>1, <2>2, <2>3 DEF InQueue, WasSent
  <2>6. QED
    BY <2>2, <2>4, <2>5
<1>7. deliverer' \in [Deliverers -> Deliverer]
  BY <1>6 DEF Tick
<1>8. QED
  BY <1>1, <1>4, <1>6, <1>7 DEF DigestInv, Sound

LEMMA CrashKeeps == ASSUME DigestInv, Crash PROVE DigestInv'
<1> USE DEF userVars, ghosts
<1>1. /\ deliverer' = [d \in Deliverers |-> Idle] /\ locked' = {} /\ Disturb
      /\ UNCHANGED <<row, userVars, sent>>
  BY DEF Crash
<1>2. \A d \in Deliverers : InFlightExcused(d) \cup deliverer[d].delivered
                                \subseteq Item
  BY DEF DigestInv, Deliverer, InFlightExcused
<1>3. excused' \subseteq Item
  BY <1>2 DEF Crash, DigestInv, GlobalOK
<1>4. disturbed' \in 0..Disturbances
  BY <1>1, DigestAssumption DEF DigestInv, GlobalOK, Disturb
<1>5. GlobalOK'
  BY <1>1, <1>3, <1>4 DEF DigestInv, GlobalOK, Queued
<1>6. \A d \in Deliverers : deliverer'[d] = Idle
  BY <1>1
<1>7. ASSUME NEW d \in Deliverers
      PROVE  Sound(deliverer'[d]) /\ InQueue(deliverer[d])'
             /\ WasSent(deliverer[d])' /\ deliverer'[d].locks = {}
  BY <1>6, IdleSound DEF Idle, InQueue, WasSent, Working, Leased
<1>8. deliverer' \in [Deliverers -> Deliverer]
  BY <1>1, IdleSound
<1>9. QED
  BY <1>5, <1>7, <1>8 DEF DigestInv, Sound

(***************************************************************************)
(* The theorems.                                                           *)
(***************************************************************************)
LEMMA DigestInductive == DigestInv /\ [Next]_vars => DigestInv'
<1> SUFFICES ASSUME DigestInv, [Next]_vars
             PROVE  DigestInv'
  OBVIOUS
<1>1. CASE UNCHANGED vars
  BY <1>1 DEF vars, userVars, ghosts, DigestInv, GlobalOK, Sound, InQueue,
              WasSent, Queued
<1>2. ASSUME NEW d \in Deliverers,
             \/ Claim(d) \/ TakeLock(d) \/ ReadKeys(d)
             \/ Start(d) \/ LoseClaim(d) \/ SendAlbum(d) \/ SendItem(d)
             \/ TelegramAccepts(d) \/ Confirmed(d) \/ AnswerLost(d)
             \/ RejectedForAll(d) \/ Rejected(d) \/ Finish(d) \/ Release(d)
             \/ StatementFails(d) \/ ReleaseFails(d) \/ Cancel(d)
      PROVE  DigestInv'
  BY <1>2, ClaimKeeps, TakeLockKeeps, ReadKeysKeeps, StartKeeps,
     LoseClaimKeeps, SendsKeep, TelegramAcceptsKeeps, AnswersKeep,
     RejectedKeeps, FinishKeeps, ReleasesKeep, FailuresKeep
<1>3. QED
  BY <1>1, <1>2, CommandsKeep, TickKeeps, CrashKeeps DEF Next

LEMMA DigestAlways == Spec => []DigestInv
<1>1. Init => DigestInv
  <2> SUFFICES ASSUME Init PROVE DigestInv
    OBVIOUS
  <2>1. NewRow \in Row
    BY DigestAssumption DEF NewRow, Row
  <2>2. GlobalOK
    <3>1. /\ row = [i \in Item |-> NewRow] /\ NewRow.token = NoToken
          /\ row \in [Item -> Row]
      BY <2>1 DEF Init, NewRow
    <3>2. 0 \in 0..Disturbances /\ 0 \in 0..2
      BY DigestAssumption
    <3>3. /\ subs \in [Subs -> {"active", "inactive", "removed"}]
          /\ sent \in [Item -> 0..2] /\ disturbed \in 0..Disturbances
      BY <3>2 DEF Init
    <3>4. QED
      BY <3>1, <3>3 DEF Init, GlobalOK
  <2>3. \A d \in Deliverers : deliverer[d] = Idle
    BY DEF Init
  <2>4. deliverer \in [Deliverers -> Deliverer]
    BY IdleSound DEF Init
  <2>5. QED
    BY <2>2, <2>3, <2>4, IdleSound DEF DigestInv
<1>2. QED
  BY <1>1, DigestInductive, PTL DEF Spec

\* The variables have their types, a lock has one holder, and a delivery
\* holds the locks of all its items.
THEOREM DigestTypes == Spec => []TypeOK
<1>1. DigestInv => TypeOK
  <2> SUFFICES ASSUME DigestInv PROVE TypeOK
    OBVIOUS
  <2>1. HeldLocks \subseteq locked
    BY DEF DigestInv, HeldLocks
  <2>2. ASSUME NEW d \in Deliverers,
               deliverer[d].stage \in {"keys", "start"} \cup Leased
        PROVE  Missing(d) = {}
    BY <2>2 DEF DigestInv, Sound, Working, Missing
  <2>3. QED
    BY <2>1, <2>2 DEF DigestInv, GlobalOK, TypeOK
<1>2. QED
  BY <1>1, DigestAlways, PTL

\* Telegram is given only what is in the queue at that moment: neither an
\* item of a subscription that is gone nor one that was settled before.
THEOREM OnlyQueuedItemsAreSent == Spec => SentFromQueue
<1>1. DigestInv /\ [Next]_vars
          => [\A i \in Item : sent'[i] # sent[i] => Queued(i)]_vars
  <2> SUFFICES ASSUME DigestInv, [Next]_vars, NEW i \in Item, sent'[i] # sent[i]
               PROVE  Queued(i)
    OBVIOUS
  <2>1. PICK d \in Deliverers : TelegramAccepts(d)
    <3> USE DEF userVars, ghosts, vars
    <3>1. CASE UNCHANGED vars
      BY <3>1
    <3>2. ASSUME NEW d \in Deliverers,
                 \/ Claim(d) \/ TakeLock(d) \/ ReadKeys(d)
                 \/ Start(d) \/ LoseClaim(d) \/ SendAlbum(d) \/ SendItem(d)
                 \/ Confirmed(d) \/ AnswerLost(d)
                 \/ RejectedForAll(d) \/ Rejected(d) \/ Finish(d) \/ Release(d)
                 \/ StatementFails(d) \/ ReleaseFails(d) \/ Cancel(d)
          PROVE  UNCHANGED sent
      BY <3>2 DEF Claim, TakeLock, ReadKeys, Start, LoseClaim, SendAlbum,
         SendItem, Confirmed, AnswerLost, RejectedForAll, Rejected, Finish,
         Release, StatementFails, ReleaseFails, Cancel
    <3>3. CASE \/ \E j \in Item : Enqueue(j)
               \/ \E s \in Subs : Toggle(s) \/ Remove(s)
               \/ Pause \/ Tick \/ Crash
      BY <3>3 DEF Enqueue, Toggle, Remove, Pause, Tick, Crash
    <3>4. QED
      BY <3>1, <3>2, <3>3 DEF Next
  <2>2. deliverer[d].stage \in Working /\ i \in deliverer[d].in_flight
    BY <2>1 DEF TelegramAccepts, At, Working, Leased, DigestInv, GlobalOK
  <2>3. QED
    BY <2>2 DEF DigestInv, Sound, InQueue, Queued
<1>2. QED
  BY <1>1, DigestAlways, PTL DEF Spec, SentFromQueue

\* An item leaves the queue after Telegram has accepted it, or with its
\* subscription; no failure, cancellation or crash loses one.
THEOREM NothingIsLost == Spec => LeavesOnlyDelivered
<1> DEFINE Kept == \A i \in Item : Queued(i) /\ ~Queued(i)' =>
                       sent[i] > 0 \/ subs'[SubOf[i]] = "removed"
<1>1. DigestInv /\ [Next]_vars => Kept
  <2> SUFFICES ASSUME DigestInv, [Next]_vars
               PROVE  Kept
    OBVIOUS
  <2>1. CASE UNCHANGED row
    BY <2>1 DEF Queued
  <2>2. ASSUME NEW d \in Deliverers, Renewed(d) \/ NotRenewed
        PROVE  Kept
    BY <2>2 DEF Renewed, NotRenewed, Queued, DigestInv, GlobalOK, Row
  <2>3. ASSUME NEW d \in Deliverers, Start(d) \/ SendAlbum(d) \/ SendItem(d)
        PROVE  Kept
    BY <2>2, <2>3 DEF Start, SendAlbum, SendItem, CheckedSend
  <2>4. ASSUME NEW d \in Deliverers, Claim(d)
        PROVE  Kept
    <3>1. PICK t \in Token, batch \in SUBSET Item :
            row' = [i \in Item |-> IF i \in batch
                                  THEN [row[i] EXCEPT !.token = t,
                                                      !.lease = LeaseTicks]
                                  ELSE row[i]]
      BY <2>4, ClaimShape
    <3>2. ASSUME NEW i \in Item
          PROVE  row'[i].state = row[i].state
      <4>1. row[i] \in Row
        BY DEF DigestInv, GlobalOK
      <4>2. CASE i \in batch
        <5>1. row'[i] = [row[i] EXCEPT !.token = t, !.lease = LeaseTicks]
          BY <3>1, <4>2
        <5>2. QED
          BY <4>1, <5>1 DEF Row
      <4>3. CASE i \notin batch
        BY <3>1, <4>3
      <4>4. QED
        BY <4>2, <4>3
    <3>3. QED
      BY <3>2 DEF Queued
  <2>5. ASSUME NEW d \in Deliverers, Finish(d)
        PROVE  Kept
    <3> SUFFICES ASSUME NEW i \in Item, Queued(i), ~Queued(i)'
                 PROVE  sent[i] > 0
      OBVIOUS
    <3>1. row[i] \in Row
      BY DEF DigestInv, GlobalOK
    <3>2. i \in deliverer[d].delivered
      BY <2>5, <3>1, UnclaimedRow DEF Finish, Settled, Queued
    <3>3. QED
      BY <3>2 DEF DigestInv, WasSent
  <2>6. ASSUME NEW d \in Deliverers, Release(d) \/ ReleaseFails(d)
        PROVE  Kept
    BY <2>1, <2>6, ReleasedRows DEF Release, ReleaseFails, Queued
  <2>7. ASSUME NEW d \in Deliverers,
               \/ TakeLock(d) \/ ReadKeys(d) \/ LoseClaim(d)
               \/ TelegramAccepts(d) \/ Confirmed(d) \/ AnswerLost(d)
               \/ RejectedForAll(d) \/ Rejected(d)
               \/ StatementFails(d) \/ Cancel(d)
        PROVE  UNCHANGED row
    BY <2>7 DEF TakeLock, ReadKeys, LoseClaim, TelegramAccepts, Confirmed,
       AnswerLost, RejectedForAll, Rejected, StatementFails, Cancel
  <2>8. ASSUME NEW j \in Item, Enqueue(j)
        PROVE  Kept
    BY <2>8 DEF Enqueue, Queued, DigestInv, GlobalOK, Row
  <2>9. ASSUME NEW s \in Subs, Remove(s)
        PROVE  Kept
    <3>1. subs'[s] = "removed"
      BY <2>9 DEF Remove, DigestInv, GlobalOK
    <3>2. QED
      BY <2>9, <3>1 DEF Remove, Queued
  <2>10. CASE Tick
    BY <2>10 DEF Tick, Queued, DigestInv, GlobalOK, Row
  <2>11. CASE (\E s \in Subs : Toggle(s)) \/ Pause \/ Crash \/ UNCHANGED vars
    BY <2>1, <2>11 DEF Toggle, Pause, Crash, vars
  <2>12. QED
    BY <2>1, <2>3, <2>4, <2>5, <2>6, <2>7, <2>8, <2>9, <2>10, <2>11 DEF Next
<1>2. QED
  BY <1>1, DigestAlways, PTL DEF Spec, LeavesOnlyDelivered

(***************************************************************************)
(* The locks: who has the greatest next lock waits for nobody who waits.   *)
(***************************************************************************)
LEMMA LeastNatural ==
    ASSUME NEW T \in SUBSET Nat, T # {}
    PROVE  \E n \in T : \A m \in T : n <= m
<1> DEFINE R == {ss \in Nat \X Nat : ss[1] < ss[2]}
<1>1. IsWellFoundedOn(R, Nat)
  BY NatLessThanWellFounded DEF OpToRel
<1>2. PICK n \in T : \A m \in T : <<m, n>> \notin R
  <2> HIDE DEF R
  <2>1. QED
    BY <1>1, WFMin
<1>3. ASSUME NEW m \in T PROVE n <= m
  <2>1. ~(m < n)
    BY <1>2
  <2>2. QED
    BY <2>1
<1>4. QED
  BY <1>3

\* Finitely many subscriptions have a last one.
LEMMA LastSub ==
    ASSUME NEW T \in SUBSET Subs, T # {}
    PROVE  \E s \in T : \A r \in T : Order[r] <= Order[s]
<1> DEFINE Later(s) == {r \in T : Order[s] < Order[r]}
           Sizes == {Cardinality(Later(s)) : s \in T}
<1>1. \A s \in T : IsFiniteSet(Later(s)) /\ Cardinality(Later(s)) \in Nat
  BY DigestAssumption, FS_Subset, FS_CardinalityType
<1>2. PICK s \in T :
         \A r \in T : Cardinality(Later(s)) <= Cardinality(Later(r))
  <2>1. Sizes \in SUBSET Nat /\ Sizes # {}
    BY <1>1
  <2>2. PICK n \in Sizes : \A m \in Sizes : n <= m
    <3> HIDE DEF Sizes
    <3>1. QED
      BY <2>1, LeastNatural
  <2>3. QED
    BY <2>2
<1>3. ASSUME NEW r \in T, Order[s] < Order[r] PROVE FALSE
  <2>1. Later(r) \in SUBSET Later(s) /\ r \in Later(s) /\ r \notin Later(r)
    BY <1>3, DigestAssumption
  <2> HIDE DEF Later
  <2>2. /\ Cardinality(Later(r)) <= Cardinality(Later(s))
        /\ Cardinality(Later(r)) # Cardinality(Later(s))
    BY <1>1, <2>1, FS_Subset
  <2>3. QED
    BY <1>1, <1>2, <2>2
<1>4. QED
  BY <1>3, DigestAssumption

LEMMA NextLockExists ==
    ASSUME DigestInv, NEW d \in Deliverers, At(d, "locks")
    PROVE  NextLock(d) # {} /\ Missing(d) \in SUBSET Subs
<1>1. deliverer[d] \in Deliverer /\ Sound(deliverer[d])
  BY DEF DigestInv
<1>2. Missing(d) # {} /\ Missing(d) \in SUBSET Subs
  BY <1>1, DigestAssumption DEF Missing, Sound, At, Deliverer
<1> DEFINE Orders == {Order[s] : s \in Missing(d)}
<1>3. Orders \in SUBSET Nat /\ Orders # {}
  BY <1>2, DigestAssumption
<1>4. PICK n \in Orders : \A m \in Orders : n <= m
  <2> HIDE DEF Orders
  <2>1. QED
    BY <1>3, LeastNatural
<1>5. PICK s \in Missing(d) : n = Order[s]
  OBVIOUS
<1>6. s \in NextLock(d)
  BY <1>4, <1>5 DEF NextLock
<1>7. QED
  BY <1>2, <1>6

\* Deliveries never wait for one another: two deliveries that need the locks
\* of the same subscriptions both get them, in the order of the queries.
THEOREM NoDeadlockedDeliveries == Spec => []NoCircularWait
<1>1. DigestInv => NoCircularWait
  <2> SUFFICES ASSUME DigestInv,
                      NEW ds \in SUBSET {d \in Deliverers : At(d, "locks")},
                      ds # {}
               PROVE  \E d \in ds :
                         ~(NextLock(d) \subseteq
                              UNION {deliverer[e].locks : e \in ds})
    BY DEF NoCircularWait
  <2> DEFINE Waited == UNION {NextLock(d) : d \in ds}
  <2>1. Waited \in SUBSET Subs /\ Waited # {}
    BY NextLockExists DEF NextLock
  <2>2. PICK s \in Waited : \A r \in Waited : Order[r] <= Order[s]
    <3> HIDE DEF Waited
    <3>1. QED
      BY <2>1, LastSub
  <2>3. PICK d \in ds : s \in NextLock(d)
    OBVIOUS
  <2>4. ASSUME NEW e \in ds, s \in deliverer[e].locks
        PROVE  FALSE
    <3>1. PICK r \in NextLock(e) : TRUE
      BY NextLockExists
    <3>2. r \in Missing(e) /\ r \in Waited
      BY <3>1 DEF NextLock
    <3>3. Sound(deliverer[e]) /\ At(e, "locks")
      BY DEF DigestInv
    <3>4. Order[s] < Order[r]
      BY <2>4, <3>2, <3>3 DEF Missing, Sound, At
    <3>5. Order[r] <= Order[s]
      BY <2>2, <3>2
    <3>6. Order[r] \in Nat /\ Order[s] \in Nat
      BY <2>1, <3>2, DigestAssumption
    <3>7. QED
      BY <3>4, <3>5, <3>6
  <2>5. QED
    BY <2>3, <2>4
<1>2. QED
  BY <1>1, DigestAlways, PTL

(***************************************************************************)
(* No repeats.  An item that was sent and has no excuse is in the hands of *)
(* the one delivery that sent it, under a lease that has not run out, or   *)
(* has left the queue.                                                     *)
(***************************************************************************)
\* The items of a delivery, and what it has of them.
Tidy(r) ==
    /\ r.stage # "wire" => r.in_flight = {}
    /\ r.stage \in {"start", "album"} => r.delivered = {}
    /\ r.delivered \cap r.left = {}
    /\ r.delivered \cap r.in_flight = {}
    /\ r.left \cap r.in_flight = {}
    /\ r.stage # "idle" => r.token # NoToken

Owns(r) ==
    r.stage \in Working => \A i \in r.batch \ excused :
        row[i].token = r.token /\ row[i].lease > 0

HasSent(r, i) ==
    /\ r.stage \in Working
    /\ i \in r.delivered \/ (r.taken /\ i \in r.in_flight)

Accounted(i) ==
    sent[i] > 0 =>
        /\ sent[i] = 1
        /\ row[i].state # "new"
        /\ Queued(i) => \E d \in Deliverers : HasSent(deliverer[d], i)

RepeatInv ==
    /\ \A d \in Deliverers : Tidy(deliverer[d]) /\ Owns(deliverer[d])
    /\ \A d, e \in Deliverers : d # e /\ deliverer[d].token # NoToken =>
          deliverer[d].token # deliverer[e].token
    /\ \A i \in Item \ excused : Accounted(i)

\* The step of one deliverer, seen from the items.
LEMMA OneSends ==
    ASSUME DigestInv, RepeatInv, NEW d \in Deliverers, NEW new, Become(d, new),
           Tidy(new), Owns(new)', new.stage \in Working => new.batch \subseteq Item,
           \/ new.token = deliverer[d].token \/ new.token = NoToken
           \/ Unused(new.token),
           excused \subseteq excused',
           \A e \in Deliverers \ {d}, i \in Item \ excused' :
               row[i].token = deliverer[e].token /\ row[i].lease > 0 =>
                   row'[i].token = row[i].token /\ row'[i].lease > 0,
           \A i \in Item \ excused' :
               \/ Accounted(i)'
               \/ /\ sent'[i] = sent[i]
                  /\ row'[i].state \in {row[i].state, "gone"}
                  /\ HasSent(deliverer[d], i) =>
                        HasSent(new, i) \/ row'[i].state = "gone"
    PROVE  RepeatInv'
<1>1. /\ deliverer'[d] = new
      /\ \A e \in Deliverers \ {d} : deliverer'[e] = deliverer[e]
  BY DEF DigestInv, Become
<1>2. ASSUME NEW e \in Deliverers
      PROVE  Tidy(deliverer'[e]) /\ Owns(deliverer[e])'
  <2>1. CASE e = d
    BY <1>1, <2>1 DEF Owns
  <2>2. CASE e # d
    <3>1. deliverer'[e] = deliverer[e] /\ deliverer[e] \in Deliverer
      BY <1>1, <2>2 DEF DigestInv
    <3>2. deliverer[e].batch \subseteq Item
      BY <3>1 DEF Deliverer
    <3>3. Tidy(deliverer[e]) /\ Owns(deliverer[e])
      BY DEF RepeatInv
    <3>4. QED
      BY <2>2, <3>1, <3>2, <3>3 DEF Owns
  <2>3. QED
    BY <2>1, <2>2
<1>3. ASSUME NEW e \in Deliverers, NEW f \in Deliverers, e # f,
             deliverer'[e].token # NoToken
      PROVE  deliverer'[e].token # deliverer'[f].token
  BY <1>1, <1>3 DEF RepeatInv, Unused
<1>4. ASSUME NEW i \in Item \ excused'
      PROVE  Accounted(i)'
  <2>1. CASE /\ sent'[i] = sent[i]
             /\ row'[i].state \in {row[i].state, "gone"}
             /\ HasSent(deliverer[d], i) =>
                   HasSent(new, i) \/ row'[i].state = "gone"
    <3>1. Accounted(i)
      BY DEF RepeatInv
    <3>2. ASSUME sent'[i] > 0, Queued(i)'
          PROVE  \E e \in Deliverers : HasSent(deliverer'[e], i)
      <4>1. sent[i] > 0 /\ Queued(i) /\ row'[i].state # "gone"
        BY <2>1, <3>2 DEF Queued
      <4>2. PICK e \in Deliverers : HasSent(deliverer[e], i)
        BY <3>1, <4>1 DEF Accounted
      <4>3. CASE e = d
        BY <1>1, <2>1, <4>1, <4>2, <4>3
      <4>4. CASE e # d
        BY <1>1, <4>2, <4>4
      <4>5. QED
        BY <4>3, <4>4
    <3>3. QED
      BY <2>1, <3>1, <3>2 DEF Accounted, HasSent
  <2>2. QED
    BY <2>1
<1>5. QED
  BY <1>2, <1>3, <1>4 DEF RepeatInv

\* The same, of a deliverer that at most renews, and forgets nothing it sent.
LEMMA OneSendsQuietly ==
    ASSUME DigestInv, RepeatInv, NEW d \in Deliverers, NEW new, Become(d, new),
           new \in Deliverer, Tidy(new),
           Renewed(d) \/ NotRenewed, sent' = sent, excused \subseteq excused',
           new.token = deliverer[d].token,
           new.stage \in Working =>
               /\ new.batch \subseteq deliverer[d].batch
               /\ \/ deliverer[d].stage \in Working
                  \/ \A i \in new.batch :
                        row[i].token = new.token /\ row[i].lease > 0,
           \A i \in Item \ excused' : HasSent(deliverer[d], i) => HasSent(new, i)
    PROVE  RepeatInv'
<1>1. /\ deliverer[d] \in Deliverer /\ new.batch \subseteq Item
      /\ \A i \in Item : row[i] \in Row
  BY DEF DigestInv, GlobalOK, Deliverer
<1>2. ASSUME NEW i \in Item
      PROVE  /\ row'[i].token = row[i].token /\ row'[i].state = row[i].state
             /\ row[i].lease > 0 => row'[i].lease > 0
  <2>1. CASE row' = row
    BY <2>1
  <2>2. CASE row' = [j \in Item |-> IF j \in OwnedBy(deliverer[d].token)
                                    THEN [row[j] EXCEPT !.lease = LeaseTicks]
                                    ELSE row[j]]
    <3>1. CASE i \in OwnedBy(deliverer[d].token)
      <4>1. row'[i] = [row[i] EXCEPT !.lease = LeaseTicks]
        BY <2>2, <3>1
      <4>2. LeaseTicks > 0
        BY DigestAssumption
      <4>3. QED
        BY <1>1, <4>1, <4>2 DEF Row
    <3>2. CASE i \notin OwnedBy(deliverer[d].token)
      BY <2>2, <3>2
    <3>3. QED
      BY <3>1, <3>2
  <2>3. QED
    BY <2>1, <2>2 DEF Renewed, NotRenewed
<1>3. Owns(new)'
  <2>1. Owns(deliverer[d])
    BY DEF RepeatInv
  <2>2. QED
    BY <1>1, <1>2, <2>1 DEF Owns
<1>4. QED
  BY <1>1, <1>2, <1>3, OneSends

LEMMA ClaimRepeatsNot ==
    ASSUME DigestInv, RepeatInv, NEW d \in Deliverers, Claim(d)
    PROVE  RepeatInv'
<1> USE DEF userVars, ghosts
<1>1. PICK t \in Token : Unused(t) /\ t = CHOOSE u \in Token : Unused(u)
  BY DEF Claim
<1>2. PICK batch \in SUBSET {i \in Item : Eligible(i)} :
        /\ row' = [i \in Item |-> IF i \in batch
                                  THEN [row[i] EXCEPT !.token = t,
                                                      !.lease = LeaseTicks]
                                  ELSE row[i]]
        /\ Become(d, [Idle EXCEPT !.stage = "locks", !.token = t,
                                  !.batch = batch])
  BY <1>1 DEF Claim
<1>3. /\ UNCHANGED <<sent, excused>> /\ deliverer[d].stage = "idle"
      /\ \A i \in Item : row[i] \in Row
  BY DEF Claim, At, DigestInv, GlobalOK
<1>4. PICK new : new = [Idle EXCEPT !.stage = "locks", !.token = t,
                                    !.batch = batch]
  OBVIOUS
<1>5. /\ new.stage = "locks" /\ new.token = t /\ new.in_flight = {}
      /\ new.delivered = {} /\ new.left = {}
  BY <1>4 DEF Idle
<1>6. Tidy(new) /\ Owns(new)' /\ new.stage \notin Working
  BY <1>5, DigestAssumption DEF Tidy, Owns, Working, Leased
<1>7. ASSUME NEW i \in Item
      PROVE  /\ row'[i].state = row[i].state
             /\ row[i].lease > 0 => row'[i] = row[i]
  <2>1. CASE i \in batch
    <3>1. row'[i] = [row[i] EXCEPT !.token = t, !.lease = LeaseTicks]
      BY <1>2, <2>1
    <3>2. row[i].lease = 0
      BY <2>1 DEF Eligible
    <3>3. QED
      BY <1>3, <3>1, <3>2 DEF Row
  <2>2. CASE i \notin batch
    BY <1>2, <2>2
  <2>3. QED
    BY <2>1, <2>2
<1>8. \A i \in Item : ~HasSent(deliverer[d], i)
  BY <1>3 DEF HasSent, Working, Leased
<1>9. Become(d, new) /\ excused \subseteq excused' /\ sent' = sent
  BY <1>2, <1>3, <1>4
<1>10. QED
  BY <1>1, <1>5, <1>6, <1>7, <1>8, <1>9, OneSends

LEMMA PreparingRepeatsNot ==
    ASSUME DigestInv, RepeatInv, NEW d \in Deliverers,
           TakeLock(d) \/ ReadKeys(d) \/ Start(d) \/ LoseClaim(d)
    PROVE  RepeatInv'
<1> USE DEF userVars, ghosts
<1>1. /\ deliverer[d] \in Deliverer /\ Sound(deliverer[d])
      /\ Tidy(deliverer[d])
  BY DEF DigestInv, RepeatInv
<1>2. CASE TakeLock(d)
  <2>1. PICK s \in NextLock(d) :
          Become(d, [deliverer[d] EXCEPT !.locks = @ \cup {s},
              !.stage = IF Missing(d) = {s} THEN "keys" ELSE "locks"])
    BY <1>2 DEF TakeLock
  <2>2. PICK new : new = [deliverer[d] EXCEPT !.locks = @ \cup {s},
              !.stage = IF Missing(d) = {s} THEN "keys" ELSE "locks"]
    OBVIOUS
  <2>3. deliverer[d].stage = "locks" /\ UNCHANGED <<row, sent, excused>>
    BY <1>2 DEF TakeLock, At
  <2>4. s \in Subs
    BY <1>1, DigestAssumption DEF NextLock, Missing, Deliverer
  <2>5. /\ new \in Deliverer /\ new.stage \in {"locks", "keys"}
        /\ new.token = deliverer[d].token
        /\ new.left = deliverer[d].left /\ new.in_flight = deliverer[d].in_flight
        /\ new.delivered = deliverer[d].delivered
    BY <1>1, <2>2, <2>4 DEF Deliverer
  <2>6. Tidy(new) /\ new.stage \notin Working /\ deliverer[d].stage \notin Working
    BY <1>1, <2>3, <2>5 DEF Tidy, Working, Leased
  <2>7. QED
    BY <2>1, <2>2, <2>3, <2>5, <2>6, OneSendsQuietly DEF NotRenewed, HasSent
<1>3. CASE ReadKeys(d)
  <2>1. PICK active : active = deliverer[d].batch \cap OwnedBy(deliverer[d].token)
    OBVIOUS
  <2>2. PICK new : new = [deliverer[d] EXCEPT !.batch = active,
                      !.lost = (active = {}),
                      !.stage = IF active = {} THEN "finish" ELSE "start"]
    OBVIOUS
  <2>3. /\ deliverer[d].stage = "keys" /\ UNCHANGED <<row, sent, excused>>
        /\ Become(d, new)
    BY <1>3, <2>1, <2>2 DEF ReadKeys, At
  <2>4. (active = {}) \in BOOLEAN /\ active \subseteq Item
    BY <1>1, <2>1 DEF Deliverer
  <2>5. /\ new \in Deliverer /\ new.stage \in {"start", "finish"}
        /\ new.token = deliverer[d].token /\ new.batch = active
        /\ new.left = deliverer[d].left /\ new.in_flight = deliverer[d].in_flight
        /\ new.delivered = deliverer[d].delivered
    BY <1>1, <2>2, <2>4 DEF Deliverer, Leased
  <2>6. Tidy(new) /\ deliverer[d].stage \notin Working
    BY <1>1, <2>3, <2>5 DEF Tidy, Working, Leased, Sound
  <2>7. /\ \A i \in new.batch : row[i].token = new.token /\ row[i].lease > 0
        /\ new.batch \subseteq deliverer[d].batch
    BY <2>1, <2>5 DEF OwnedBy, HeldBy
  <2>8. QED
    BY <2>3, <2>5, <2>6, <2>7, OneSendsQuietly DEF NotRenewed, HasSent
<1>4. CASE Start(d)
  <2>1. PICK album : album = AlbumOf(deliverer[d].batch)
    OBVIOUS
  <2>2. PICK new :
          /\ Become(d, new)
          /\ \/ /\ Renewed(d)
                /\ new = [deliverer[d] EXCEPT
                      !.stage = IF album = {} THEN "items" ELSE "album",
                      !.left = @ \cup (deliverer[d].batch \ album)]
             \/ /\ NotRenewed
                /\ new = [deliverer[d] EXCEPT !.stage = "finish", !.lost = TRUE]
    BY <1>4, <2>1 DEF Start
  <2>3. deliverer[d].stage = "start" /\ UNCHANGED <<sent, excused>>
        /\ (Renewed(d) \/ NotRenewed)
    BY <1>4 DEF Start, At
  <2>4. /\ new \in Deliverer /\ new.stage \in {"items", "album", "finish"}
        /\ new.token = deliverer[d].token /\ new.batch = deliverer[d].batch
        /\ new.in_flight = deliverer[d].in_flight
        /\ new.delivered = deliverer[d].delivered
    <3>1. CASE new = [deliverer[d] EXCEPT
                         !.stage = IF album = {} THEN "items" ELSE "album",
                         !.left = @ \cup (deliverer[d].batch \ album)]
      BY <1>1, <3>1 DEF Deliverer, Leased
    <3>2. CASE new = [deliverer[d] EXCEPT !.stage = "finish", !.lost = TRUE]
      BY <1>1, <3>2 DEF Deliverer, Leased
    <3>3. QED
      BY <2>2, <3>1, <3>2
  <2>5. deliverer[d].delivered = {} /\ deliverer[d].in_flight = {}
    BY <1>1, <2>3 DEF Tidy
  <2>6. Tidy(new)
    BY <1>1, <2>3, <2>4, <2>5 DEF Tidy
  <2>7. deliverer[d].stage \in Working
    BY <2>3 DEF Working
  <2>8. QED
    BY <2>2, <2>3, <2>4, <2>5, <2>6, <2>7, OneSendsQuietly DEF HasSent
<1>5. CASE LoseClaim(d)
  <2>1. PICK new : new = [deliverer[d] EXCEPT !.lost = TRUE]
    OBVIOUS
  <2>2. /\ deliverer[d].stage \in Leased /\ UNCHANGED <<row, sent, excused>>
        /\ Become(d, new)
    BY <1>5, <2>1 DEF LoseClaim
  <2>3. /\ new \in Deliverer /\ new.stage = deliverer[d].stage
        /\ new.token = deliverer[d].token /\ new.batch = deliverer[d].batch
        /\ new.left = deliverer[d].left /\ new.in_flight = deliverer[d].in_flight
        /\ new.delivered = deliverer[d].delivered /\ new.taken = deliverer[d].taken
    BY <1>1, <2>1 DEF Deliverer
  <2>4. Tidy(new) /\ deliverer[d].stage \in Working
    BY <1>1, <2>2, <2>3 DEF Tidy, Working
  <2>5. QED
    BY <2>2, <2>3, <2>4, OneSendsQuietly DEF NotRenewed, HasSent
<1>6. QED
  BY <1>2, <1>3, <1>4, <1>5

\* What is sent has not been sent by this delivery.
LEMMA CheckedSendRepeatsNot ==
    ASSUME DigestInv, RepeatInv, NEW d \in Deliverers, NEW items \in SUBSET Item,
           items \cap deliverer[d].delivered = {},
           CheckedSend(d, items), deliverer[d].stage \in {"album", "items"},
           UNCHANGED <<sent, excused>>
    PROVE  RepeatInv'
<1>1. deliverer[d] \in Deliverer /\ Tidy(deliverer[d])
  BY DEF DigestInv, RepeatInv
<1>2. PICK new :
        /\ Become(d, new)
        /\ \/ /\ Renewed(d)
              /\ new = [deliverer[d] EXCEPT !.stage = "wire",
                         !.in_flight = items, !.left = @ \ items,
                         !.taken = FALSE]
           \/ /\ NotRenewed
              /\ new = [deliverer[d] EXCEPT !.stage = "finish", !.lost = TRUE]
  BY DEF CheckedSend
<1>3. /\ new \in Deliverer /\ new.token = deliverer[d].token
      /\ new.batch = deliverer[d].batch
      /\ new.delivered = deliverer[d].delivered
      /\ \/ /\ new.stage = "wire" /\ new.in_flight = items
            /\ new.left = deliverer[d].left \ items
         \/ /\ new.stage = "finish" /\ new.in_flight = deliverer[d].in_flight
            /\ new.left = deliverer[d].left
  <2>1. CASE new = [deliverer[d] EXCEPT !.stage = "wire",
                     !.in_flight = items, !.left = @ \ items, !.taken = FALSE]
    BY <1>1, <2>1 DEF Deliverer, Leased
  <2>2. CASE new = [deliverer[d] EXCEPT !.stage = "finish", !.lost = TRUE]
    BY <1>1, <2>2 DEF Deliverer, Leased
  <2>3. QED
    BY <1>2, <2>1, <2>2
<1>4. deliverer[d].in_flight = {}
  BY <1>1 DEF Tidy
<1>5. Tidy(new) /\ deliverer[d].stage \in Working /\ new.stage \in Working
  BY <1>1, <1>3, <1>4 DEF Tidy, Working, Leased
<1>6. QED
  BY <1>2, <1>3, <1>4, <1>5, OneSendsQuietly DEF HasSent

LEMMA SendsRepeatNot ==
    ASSUME DigestInv, RepeatInv, NEW d \in Deliverers,
           SendAlbum(d) \/ SendItem(d)
    PROVE  RepeatInv'
<1> USE DEF ghosts
<1>1. deliverer[d] \in Deliverer /\ Tidy(deliverer[d])
  BY DEF DigestInv, RepeatInv
<1>2. CASE SendAlbum(d)
  <2>1. AlbumOf(deliverer[d].batch) \in SUBSET Item
    BY <1>1 DEF AlbumOf, Deliverer
  <2>2. deliverer[d].delivered = {}
    BY <1>1, <1>2 DEF SendAlbum, At, Tidy
  <2>3. QED
    BY <1>2, <2>1, <2>2, CheckedSendRepeatsNot DEF SendAlbum, At
<1>3. CASE SendItem(d)
  <2>1. PICK i \in deliverer[d].left : CheckedSend(d, {i})
    BY <1>3 DEF SendItem
  <2>2. {i} \in SUBSET Item /\ {i} \cap deliverer[d].delivered = {}
    BY <1>1 DEF Tidy, Deliverer
  <2>3. QED
    BY <1>3, <2>1, <2>2, CheckedSendRepeatsNot DEF SendItem, At
<1>4. QED
  BY <1>2, <1>3

\* An item in flight without an excuse goes out for the first time: whoever
\* sent it before would hold the lock of its subscription.
LEMMA AcceptsRepeatNot ==
    ASSUME DigestInv, RepeatInv, NEW d \in Deliverers, TelegramAccepts(d)
    PROVE  RepeatInv'
<1> USE DEF userVars, ghosts
<1>1. PICK new : new = [deliverer[d] EXCEPT !.taken = TRUE]
  OBVIOUS
<1>2. /\ deliverer[d].stage = "wire" /\ ~deliverer[d].taken /\ Become(d, new)
      /\ sent' = [i \in Item |-> IF i \in deliverer[d].in_flight
                                 THEN Once(sent[i]) ELSE sent[i]]
      /\ UNCHANGED <<row, excused>>
  BY <1>1 DEF TelegramAccepts, At
<1>3. deliverer[d] \in Deliverer /\ Tidy(deliverer[d]) /\ Owns(deliverer[d])
      /\ Sound(deliverer[d]) /\ InQueue(deliverer[d])
  BY DEF DigestInv, RepeatInv
<1>4. /\ new.stage = "wire" /\ new.token = deliverer[d].token
      /\ new.batch = deliverer[d].batch /\ new.left = deliverer[d].left
      /\ new.in_flight = deliverer[d].in_flight
      /\ new.delivered = deliverer[d].delivered /\ new.taken
  BY <1>1, <1>2, <1>3 DEF Deliverer
<1>5. deliverer[d].stage \in Working /\ new.stage \in Working
  BY <1>2, <1>4 DEF Working, Leased
<1>6. Tidy(new) /\ Owns(new)' /\ new.batch \subseteq Item
  BY <1>2, <1>3, <1>4, <1>5 DEF Tidy, Owns, Deliverer
<1>7. ASSUME NEW i \in Item \ excused, i \in deliverer[d].in_flight
      PROVE  Accounted(i)'
  <2>1. i \in deliverer[d].batch /\ Queued(i)
    BY <1>3, <1>5, <1>7 DEF Sound, InQueue, Queued
  <2>2. ASSUME sent[i] > 0
        PROVE  FALSE
    <3>1. Accounted(i)
      BY DEF RepeatInv
    <3>2. PICK e \in Deliverers : HasSent(deliverer[e], i)
      BY <2>1, <2>2, <3>1 DEF Accounted
    <3>3. e # d
      BY <1>2, <1>3, <1>7, <3>2 DEF HasSent, Tidy
    <3>4. Sound(deliverer[e]) /\ i \in deliverer[e].batch
      BY <3>2 DEF DigestInv, Sound, HasSent
    <3>5. SubOf[i] \in deliverer[e].locks /\ SubOf[i] \in deliverer[d].locks
      BY <1>3, <1>5, <2>1, <3>2, <3>4 DEF Sound, HasSent
    <3>6. QED
      BY <3>3, <3>5 DEF DigestInv
  <2>3. sent'[i] = 1 /\ Queued(i)'
    BY <1>2, <1>7, <2>1, <2>2 DEF Once, Queued, DigestInv, GlobalOK
  <2>4. HasSent(new, i) /\ deliverer'[d] = new
    BY <1>2, <1>4, <1>5, <1>7 DEF HasSent, Become, DigestInv
  <2>5. QED
    BY <2>3, <2>4 DEF Accounted, Queued
<1>8. ASSUME NEW i \in Item \ excused'
      PROVE  \/ Accounted(i)'
             \/ /\ sent'[i] = sent[i]
                /\ row'[i].state \in {row[i].state, "gone"}
                /\ HasSent(deliverer[d], i) =>
                      HasSent(new, i) \/ row'[i].state = "gone"
  <2>1. CASE i \in deliverer[d].in_flight
    BY <1>2, <1>7, <2>1
  <2>2. CASE i \notin deliverer[d].in_flight
    BY <1>2, <1>4, <2>2 DEF HasSent
  <2>3. QED
    BY <2>1, <2>2
<1>9. QED
  BY <1>2, <1>4, <1>6, <1>8, OneSends

\* A request is over: what was taken is confirmed or excused.
LEMMA AnsweredRepeatsNot ==
    ASSUME DigestInv, RepeatInv, NEW d \in Deliverers,
           NEW stage \in {"items", "finish"},
           NEW delivered \in SUBSET deliverer[d].in_flight,
           NEW ambiguous \in SUBSET deliverer[d].in_flight,
           deliverer[d].stage \in {"album", "items", "wire"},
           Answered(d, stage, delivered, ambiguous),
           UNCHANGED <<row, sent>>, excused \subseteq excused',
           deliverer[d].taken =>
               deliverer[d].in_flight \subseteq delivered \cup excused'
    PROVE  RepeatInv'
<1>1. deliverer[d] \in Deliverer /\ Tidy(deliverer[d])
  BY DEF DigestInv, RepeatInv
<1>2. PICK new : new = [deliverer[d] EXCEPT !.stage = stage, !.in_flight = {},
                   !.taken = FALSE, !.delivered = @ \cup delivered,
                   !.ambiguous = @ \cup ambiguous]
  OBVIOUS
<1>3. Become(d, new)
  BY <1>2 DEF Answered
<1>4. /\ new \in Deliverer /\ new.stage = stage
      /\ new.token = deliverer[d].token /\ new.batch = deliverer[d].batch
      /\ new.in_flight = {} /\ new.left = deliverer[d].left
      /\ new.delivered = deliverer[d].delivered \cup delivered
  BY <1>1, <1>2 DEF Deliverer, Leased
<1>5. Tidy(new)
  BY <1>1, <1>4 DEF Tidy
<1>6. deliverer[d].stage \in Working /\ new.stage \in Working
  BY <1>4 DEF Working, Leased
<1>7. \A i \in Item \ excused' : HasSent(deliverer[d], i) => HasSent(new, i)
  BY <1>4, <1>6 DEF HasSent
<1>8. QED
  BY <1>3, <1>4, <1>5, <1>6, <1>7, OneSendsQuietly DEF NotRenewed

LEMMA AnswersRepeatNot ==
    ASSUME DigestInv, RepeatInv, NEW d \in Deliverers,
           Confirmed(d) \/ RejectedForAll(d) \/ AnswerLost(d)
    PROVE  RepeatInv'
<1> USE DEF userVars, ghosts, At
<1>1. CASE Confirmed(d)
  BY <1>1, AnsweredRepeatsNot DEF Confirmed
<1>2. CASE RejectedForAll(d)
  BY <1>2, AnsweredRepeatsNot DEF RejectedForAll
<1>3. CASE AnswerLost(d)
  BY <1>3, AnsweredRepeatsNot DEF AnswerLost, InFlightExcused
<1>4. QED
  BY <1>1, <1>2, <1>3

LEMMA RejectedRepeatsNot ==
    ASSUME DigestInv, RepeatInv, NEW d \in Deliverers, Rejected(d)
    PROVE  RepeatInv'
<1> USE DEF userVars, ghosts
<1>1. deliverer[d] \in Deliverer /\ Tidy(deliverer[d])
  BY DEF DigestInv, RepeatInv
<1>2. PICK left : left = IF Cardinality(deliverer[d].in_flight) > 1
                         THEN deliverer[d].left \cup deliverer[d].in_flight
                         ELSE deliverer[d].left
  OBVIOUS
<1>3. PICK new : new = [deliverer[d] EXCEPT !.stage = "items", !.in_flight = {},
                                            !.left = left]
  OBVIOUS
<1>4. /\ deliverer[d].stage = "wire" /\ ~deliverer[d].taken
      /\ UNCHANGED <<row, sent, excused>>
  BY DEF Rejected, At
<1>5. Become(d, new)
  BY <1>1, <1>2, <1>3 DEF Rejected, Deliverer
<1>6. left \in SUBSET Item
      /\ left \subseteq deliverer[d].left \cup deliverer[d].in_flight
  BY <1>1, <1>2 DEF Deliverer
<1>7. /\ new \in Deliverer /\ new.stage = "items"
      /\ new.token = deliverer[d].token /\ new.batch = deliverer[d].batch
      /\ new.in_flight = {} /\ new.left = left
      /\ new.delivered = deliverer[d].delivered
  BY <1>1, <1>3, <1>6 DEF Deliverer, Leased
<1>8. Tidy(new)
  BY <1>1, <1>6, <1>7, <1>4 DEF Tidy
<1>9. deliverer[d].stage \in Working /\ new.stage \in Working
  BY <1>4, <1>7 DEF Working, Leased
<1>10. \A i \in Item \ excused' : HasSent(deliverer[d], i) => HasSent(new, i)
  BY <1>4, <1>7, <1>9 DEF HasSent
<1>11. QED
  BY <1>4, <1>5, <1>7, <1>8, <1>9, <1>10, OneSendsQuietly DEF NotRenewed

LEMMA IdleTidy == Tidy(Idle) /\ Owns(Idle)' /\ Idle.token = NoToken
                  /\ Idle.stage \notin Working
  BY DEF Idle, Tidy, Owns, Working, Leased

\* What a deliverer settles or releases it holds, and what it was given the
\* others keep.
LEMMA OthersKeepRows ==
    ASSUME DigestInv, RepeatInv, NEW d \in Deliverers,
           deliverer[d].token # NoToken,
           \A i \in Item : row'[i] # row[i] => row[i].token = deliverer[d].token,
           NEW e \in Deliverers \ {d}, NEW i \in Item,
           row[i].token = deliverer[e].token
    PROVE  row'[i] = row[i]
  BY DEF RepeatInv

LEMMA FinishRepeatsNot ==
    ASSUME DigestInv, RepeatInv, NEW d \in Deliverers, Finish(d)
    PROVE  RepeatInv'
<1> USE DEF userVars, ghosts
<1>1. /\ deliverer[d] \in Deliverer /\ Tidy(deliverer[d])
      /\ Owns(deliverer[d]) /\ Sound(deliverer[d]) /\ InQueue(deliverer[d])
  BY DEF DigestInv, RepeatInv
<1>2. /\ Done(d) /\ Become(d, Idle) /\ UNCHANGED <<sent, excused>>
      /\ row' = [i \in Item |-> IF i \in HeldBy(deliverer[d].token)
                                THEN Settled(d, i) ELSE row[i]]
  BY DEF Finish
<1>3. deliverer[d].stage \in {"items", "finish"}
  BY <1>2 DEF Done, At
<1>4. deliverer[d].token # NoToken /\ deliverer[d].in_flight = {}
      /\ deliverer[d].stage \in Working
  BY <1>1, <1>3 DEF Tidy, Working, Leased
<1>5. \A i \in Item : row'[i] # row[i] => row[i].token = deliverer[d].token
  BY <1>2 DEF HeldBy
<1>6. ASSUME NEW i \in Item \ excused'
      PROVE  /\ sent'[i] = sent[i]
             /\ row'[i].state \in {row[i].state, "gone"}
             /\ HasSent(deliverer[d], i) => row'[i].state = "gone"
  <2>1. row[i] \in Row
    BY DEF DigestInv, GlobalOK
  <2>2. row'[i].state \in {row[i].state, "gone"}
    BY <1>2, <2>1, UnclaimedRow, GoneRow DEF Settled
  <2>3. ASSUME HasSent(deliverer[d], i)
        PROVE  row'[i].state = "gone"
    <3>1. i \in deliverer[d].delivered /\ i \in deliverer[d].batch
      BY <1>1, <1>4, <2>3 DEF HasSent, Sound
    <3>2. i \in HeldBy(deliverer[d].token)
      BY <1>1, <1>2, <1>4, <3>1 DEF Owns, InQueue, HeldBy, Queued
    <3>3. row'[i] = Gone
      BY <1>2, <3>1, <3>2 DEF Settled
    <3>4. QED
      BY <3>3, GoneRow
  <2>4. QED
    BY <1>2, <2>2, <2>3
<1>7. \A e \in Deliverers \ {d}, i \in Item \ excused' :
         row[i].token = deliverer[e].token /\ row[i].lease > 0 =>
             row'[i].token = row[i].token /\ row'[i].lease > 0
  BY <1>4, <1>5, OthersKeepRows
<1>8. QED
  BY <1>2, <1>6, <1>7, IdleTidy, OneSends

LEMMA ReleasesRepeatNot ==
    ASSUME DigestInv, RepeatInv, NEW d \in Deliverers,
           Release(d) \/ ReleaseFails(d)
    PROVE  RepeatInv'
<1> USE DEF userVars, ghosts
<1>1. deliverer[d].stage = "release" /\ Tidy(deliverer[d])
  BY DEF RepeatInv, Release, ReleaseFails, At
<1>2. /\ row' \in {row, Released(deliverer[d].token)} /\ Become(d, Idle)
      /\ UNCHANGED <<sent, excused>>
  BY DEF Release, ReleaseFails
<1>3. deliverer[d].token # NoToken /\ deliverer[d].stage \notin Working
  BY <1>1 DEF Tidy, Working, Leased
<1>4. \A i \in Item : row'[i] # row[i] => row[i].token = deliverer[d].token
  BY <1>2 DEF Released, HeldBy
<1>5. \A i \in Item : row'[i].state = row[i].state
  BY <1>2, ReleasedRows
<1>6. \A e \in Deliverers \ {d}, i \in Item \ excused' :
         row[i].token = deliverer[e].token /\ row[i].lease > 0 =>
             row'[i].token = row[i].token /\ row'[i].lease > 0
  BY <1>3, <1>4, OthersKeepRows
<1>7. \A i \in Item : ~HasSent(deliverer[d], i)
  BY <1>3 DEF HasSent
<1>8. QED
  BY <1>2, <1>5, <1>6, <1>7, IdleTidy, OneSends

\* A delivery that gives up is excused for what it has confirmed or in flight.
LEMMA FailuresRepeatNot ==
    ASSUME DigestInv, RepeatInv, NEW d \in Deliverers,
           StatementFails(d) \/ Cancel(d)
    PROVE  RepeatInv'
<1> USE DEF userVars
<1>1. deliverer[d] \in Deliverer /\ Tidy(deliverer[d]) /\ Sound(deliverer[d])
      /\ UNCHANGED <<row, sent>> /\ excused \subseteq excused'
  BY DEF DigestInv, RepeatInv, StatementFails, Cancel
<1>2. ASSUME NEW locks \in SUBSET Subs,
             Become(d, [deliverer[d] EXCEPT !.stage = "release", !.locks = locks]),
             deliverer[d].stage \in {"locks", "keys", "start", "items", "finish"},
             deliverer[d].delivered \subseteq excused'
      PROVE  RepeatInv'
  <2>1. PICK new : new = [deliverer[d] EXCEPT !.stage = "release",
                                              !.locks = locks]
    OBVIOUS
  <2>2. /\ new \in Deliverer /\ new.stage = "release"
        /\ new.token = deliverer[d].token
        /\ new.left = deliverer[d].left /\ new.in_flight = deliverer[d].in_flight
        /\ new.delivered = deliverer[d].delivered
    BY <1>1, <2>1 DEF Deliverer
  <2>3. deliverer[d].in_flight = {} /\ Tidy(new) /\ new.stage \notin Working
    BY <1>1, <1>2, <2>2 DEF Tidy, Working, Leased
  <2>4. \A i \in Item \ excused' : ~HasSent(deliverer[d], i)
    BY <1>2, <2>3 DEF HasSent
  <2>5. QED
    BY <1>1, <1>2, <2>1, <2>2, <2>3, <2>4, OneSendsQuietly DEF NotRenewed
<1>3. CASE StatementFails(d)
  <2>1. deliverer[d].stage \in {"keys", "start", "items", "finish"}
    BY <1>3 DEF StatementFails, Done, At
  <2>2. deliverer[d].locks \in SUBSET Subs
        /\ [deliverer[d] EXCEPT !.stage = "release"]
           = [deliverer[d] EXCEPT !.stage = "release",
                                  !.locks = deliverer[d].locks]
    BY <1>1 DEF Deliverer
  <2>3. deliverer[d].delivered \subseteq excused'
        /\ Become(d, [deliverer[d] EXCEPT !.stage = "release"])
    BY <1>3 DEF StatementFails, Goto
  <2>4. QED
    BY <1>2, <2>1, <2>2, <2>3
<1>4. CASE Cancel(d) /\ deliverer[d].stage \in {"locks", "keys", "start"}
  <2>1. PICK locks : locks = IF At(d, "locks") THEN {} ELSE deliverer[d].locks
    OBVIOUS
  <2>2. locks \in SUBSET Subs
    BY <1>1, <2>1 DEF Deliverer
  <2>3. Become(d, [deliverer[d] EXCEPT !.stage = "release", !.locks = locks])
    BY <1>4, <2>1 DEF Cancel
  <2>4. deliverer[d].delivered = {}
    BY <1>1, <1>4 DEF Tidy, Sound
  <2>5. QED
    BY <1>2, <1>4, <2>2, <2>3, <2>4
<1>5. CASE Cancel(d) /\ deliverer[d].stage \in {"album", "items", "wire"}
  <2>1. /\ Answered(d, "finish", {}, deliverer[d].in_flight)
        /\ excused' = excused \cup InFlightExcused(d)
    BY <1>5 DEF Cancel
  <2>2. deliverer[d].taken => deliverer[d].in_flight \subseteq excused'
    BY <2>1 DEF InFlightExcused
  <2>3. QED
    BY <1>1, <1>5, <2>1, <2>2, AnsweredRepeatsNot
<1>6. QED
  BY <1>3, <1>4, <1>5 DEF Cancel

\* The rest of the program moves no deliverer.
LEMMA SurroundingsRepeatNot ==
    ASSUME RepeatInv, UNCHANGED <<deliverer, sent>>, excused \subseteq excused',
           \A d \in Deliverers : Owns(deliverer[d])',
           \A i \in Item \ excused' :
               \/ row'[i].state \in {row[i].state, "gone"}
               \/ sent[i] = 0 /\ sent[i] \in Nat
    PROVE  RepeatInv'
<1>1. ASSUME NEW i \in Item \ excused'
      PROVE  Accounted(i)'
  <2>1. Accounted(i)
    BY DEF RepeatInv
  <2>2. QED
    BY <2>1 DEF Accounted, Queued
<1>2. QED
  BY <1>1 DEF RepeatInv

LEMMA CommandsRepeatNot ==
    ASSUME DigestInv, RepeatInv,
           \/ \E i \in Item : Enqueue(i)
           \/ \E s \in Subs : Toggle(s) \/ Remove(s)
           \/ Pause
    PROVE  RepeatInv'
<1> USE DEF userVars, ghosts
<1>1. /\ \A i \in Item : row[i] \in Row /\ sent[i] \in Nat
      /\ \A d \in Deliverers :
            /\ Owns(deliverer[d]) /\ Sound(deliverer[d])
            /\ deliverer[d].locks \subseteq locked
            /\ deliverer[d].batch \subseteq Item
  BY DEF DigestInv, GlobalOK, RepeatInv, Deliverer
<1>2. ASSUME NEW j \in Item, Enqueue(j)
      PROVE  RepeatInv'
  <2>1. \A i \in Item : i # j => row'[i] = row[i]
    BY <1>2 DEF Enqueue, DigestInv, GlobalOK
  <2>2. row'[j].token = row[j].token /\ row'[j].lease = row[j].lease
    BY <1>1, <1>2 DEF Enqueue, DigestInv, GlobalOK, Row
  <2>3. \A d \in Deliverers : Owns(deliverer[d])'
    BY <1>1, <1>2, <2>1, <2>2 DEF Enqueue, Owns
  <2>4. j \in excused \/ sent[j] = 0
    BY <1>1, <1>2 DEF Enqueue, RepeatInv, Accounted
  <2>5. QED
    BY <1>1, <1>2, <2>1, <2>3, <2>4, SurroundingsRepeatNot DEF Enqueue
<1>3. ASSUME NEW s \in Subs, Remove(s)
      PROVE  RepeatInv'
  <2>1. \A i \in Item : SubOf[i] # s => row'[i] = row[i]
    BY <1>3 DEF Remove
  <2>2. \A i \in Item : row'[i].state \in {row[i].state, "gone"}
    BY <1>3, GoneRow DEF Remove
  <2>3. \A d \in Deliverers : Owns(deliverer[d])'
    <3>1. ASSUME NEW d \in Deliverers, deliverer[d].stage \in Working,
                 NEW i \in deliverer[d].batch
          PROVE  SubOf[i] # s
      BY <1>1, <1>3, <3>1 DEF Sound, Remove
    <3>2. QED
      BY <1>1, <1>3, <2>1, <3>1 DEF Remove, Owns
  <2>4. QED
    BY <1>3, <2>2, <2>3, SurroundingsRepeatNot DEF Remove
<1>4. ASSUME (\E s \in Subs : Toggle(s)) \/ Pause
      PROVE  RepeatInv'
  <2>1. UNCHANGED <<row, deliverer, sent, excused>>
    BY <1>4 DEF Toggle, Pause
  <2>2. \A d \in Deliverers : Owns(deliverer[d])'
    BY <1>1, <2>1 DEF Owns
  <2>3. QED
    BY <2>1, <2>2, SurroundingsRepeatNot
<1>5. QED
  BY <1>2, <1>3, <1>4

\* A lease that runs out under a delivery is an excuse.
LEMMA TickRepeatsNot == ASSUME DigestInv, RepeatInv, Tick PROVE RepeatInv'
<1> USE DEF userVars, ghosts
<1>1. /\ sent' = sent /\ excused' = excused \cup Lapsing
      /\ row' = [i \in Item |->
                   [row[i] EXCEPT !.lease = IF i \in KeptAlive THEN LeaseTicks
                                            ELSE Less(@),
                                  !.retry = Less(@)]]
      /\ deliverer' = [d \in Deliverers |->
                         [deliverer[d] EXCEPT !.lost =
                            \/ @
                            \/ Beating(d) /\ OwnedBy(deliverer[d].token) = {}]]
  BY DEF Tick
<1>2. ASSUME NEW i \in Item
      PROVE  /\ row'[i].state = row[i].state /\ row'[i].token = row[i].token
             /\ row[i].lease > 0 /\ (i \in KeptAlive \/ row[i].lease # 1) =>
                   row'[i].lease > 0
  <2>1. row[i] \in Row /\ LeaseTicks \in Nat \ {0}
    BY DigestAssumption DEF DigestInv, GlobalOK
  <2>2. /\ row'[i].state = row[i].state /\ row'[i].token = row[i].token
        /\ row'[i].lease = IF i \in KeptAlive THEN LeaseTicks
                           ELSE Less(row[i].lease)
    BY <1>1, <2>1 DEF Row
  <2>3. row[i].lease \in Nat
    BY <2>1 DEF Row
  <2>4. CASE i \in KeptAlive
    BY <2>1, <2>2, <2>4
  <2>5. CASE i \notin KeptAlive
    BY <2>2, <2>3, <2>5 DEF Less
  <2>6. QED
    BY <2>4, <2>5
<1>3. ASSUME NEW d \in Deliverers
      PROVE  /\ deliverer'[d].stage = deliverer[d].stage
             /\ deliverer'[d].token = deliverer[d].token
             /\ deliverer'[d].batch = deliverer[d].batch
             /\ deliverer'[d].left = deliverer[d].left
             /\ deliverer'[d].in_flight = deliverer[d].in_flight
             /\ deliverer'[d].taken = deliverer[d].taken
             /\ deliverer'[d].delivered = deliverer[d].delivered
  <2>1. deliverer[d] \in Deliverer
    BY DEF DigestInv
  <2>2. QED
    BY <1>1, <2>1 DEF Deliverer
<1>4. ASSUME NEW d \in Deliverers
      PROVE  Tidy(deliverer'[d]) /\ Owns(deliverer[d])'
  <2>1. Tidy(deliverer[d]) /\ Owns(deliverer[d])
        /\ deliverer[d].batch \subseteq Item
    BY DEF RepeatInv, DigestInv, Deliverer
  <2>2. Tidy(deliverer'[d])
    BY <1>3, <2>1 DEF Tidy
  <2>3. ASSUME deliverer[d].stage \in Working,
               NEW i \in deliverer[d].batch \ excused'
        PROVE  row'[i].token = deliverer[d].token /\ row'[i].lease > 0
    <3>1. row[i].token = deliverer[d].token /\ row[i].lease > 0 /\ i \in Item
      BY <1>1, <2>1, <2>3 DEF Owns
    <3>2. i \in KeptAlive \/ row[i].lease # 1
      BY <1>1, <2>3, <3>1 DEF Lapsing, Working
    <3>3. QED
      BY <1>2, <3>1, <3>2
  <2>4. Owns(deliverer[d])'
    BY <1>3, <2>3 DEF Owns
  <2>5. QED
    BY <2>2, <2>4
<1>5. ASSUME NEW i \in Item \ excused'
      PROVE  Accounted(i)'
  <2>1. Accounted(i) /\ row'[i].state = row[i].state
    BY <1>1, <1>2 DEF RepeatInv
  <2>2. \A d \in Deliverers : HasSent(deliverer[d], i) => HasSent(deliverer'[d], i)
    BY <1>3 DEF HasSent
  <2>3. QED
    BY <1>1, <2>1, <2>2 DEF Accounted, Queued
<1>6. \A d, e \in Deliverers : d # e /\ deliverer'[d].token # NoToken =>
         deliverer'[d].token # deliverer'[e].token
  BY <1>3 DEF RepeatInv
<1>7. QED
  BY <1>4, <1>5, <1>6 DEF RepeatInv

\* A crash excuses what was in flight or not settled.
LEMMA CrashRepeatsNot == ASSUME DigestInv, RepeatInv, Crash PROVE RepeatInv'
<1> USE DEF userVars
<1>1. /\ deliverer' = [d \in Deliverers |-> Idle] /\ UNCHANGED <<row, sent>>
      /\ excused' = excused \cup UNION {InFlightExcused(d) \cup
                     deliverer[d].delivered : d \in Deliverers}
  BY DEF Crash
<1>2. ASSUME NEW i \in Item \ excused'
      PROVE  Accounted(i)'
  <2>1. Accounted(i)
    BY <1>1 DEF RepeatInv
  <2>2. \A d \in Deliverers : ~HasSent(deliverer[d], i)
    BY <1>1 DEF HasSent, InFlightExcused
  <2>3. QED
    BY <1>1, <2>1, <2>2 DEF Accounted, Queued
<1>3. \A d \in Deliverers : deliverer'[d] = Idle
  BY <1>1
<1>4. \A d \in Deliverers : Owns(deliverer[d])'
  BY <1>3, IdleTidy DEF Owns
<1>5. QED
  BY <1>2, <1>3, <1>4, IdleTidy DEF RepeatInv

LEMMA RepeatInductive == DigestInv /\ RepeatInv /\ [Next]_vars => RepeatInv'
<1> SUFFICES ASSUME DigestInv, RepeatInv, [Next]_vars
             PROVE  RepeatInv'
  OBVIOUS
<1>1. CASE UNCHANGED vars
  BY <1>1 DEF vars, userVars, ghosts, RepeatInv, Tidy, Owns, Accounted, HasSent,
              Queued
<1>2. ASSUME NEW d \in Deliverers,
             \/ Claim(d) \/ TakeLock(d) \/ ReadKeys(d)
             \/ Start(d) \/ LoseClaim(d) \/ SendAlbum(d) \/ SendItem(d)
             \/ TelegramAccepts(d) \/ Confirmed(d) \/ AnswerLost(d)
             \/ RejectedForAll(d) \/ Rejected(d) \/ Finish(d) \/ Release(d)
             \/ StatementFails(d) \/ ReleaseFails(d) \/ Cancel(d)
      PROVE  RepeatInv'
  BY <1>2, ClaimRepeatsNot, PreparingRepeatsNot, SendsRepeatNot,
     AcceptsRepeatNot, AnswersRepeatNot, RejectedRepeatsNot, FinishRepeatsNot,
     ReleasesRepeatNot, FailuresRepeatNot
<1>3. QED
  BY <1>1, <1>2, CommandsRepeatNot, TickRepeatsNot, CrashRepeatsNot DEF Next

\* Deliveries that work at the same time never send an item twice: a repeat
\* has an answer that was lost, a settlement that failed, a crash, or a lease
\* that ran out under its delivery to explain it.
THEOREM NoUnexcusedRepeat == Spec => []RepeatsExcused
<1>1. Init => RepeatInv
  <2> SUFFICES ASSUME Init PROVE RepeatInv
    OBVIOUS
  <2>1. \A d \in Deliverers : deliverer[d] = Idle
    BY DEF Init
  <2>2. Tidy(Idle) /\ Owns(Idle) /\ Idle.token = NoToken
    BY DEF Idle, Tidy, Owns, Working, Leased
  <2>3. \A i \in Item : sent[i] = 0
    BY DEF Init
  <2>4. QED
    BY <2>1, <2>2, <2>3 DEF RepeatInv, Accounted
<1>2. DigestInv /\ RepeatInv => RepeatsExcused
  BY DEF DigestInv, GlobalOK, RepeatInv, Accounted, RepeatsExcused
<1>3. QED
  BY <1>1, <1>2, RepeatInductive, DigestAlways, DigestInductive, PTL DEF Spec

=============================================================================
