-------------------------- MODULE SubscriptionClaim -------------------------
(***************************************************************************)
(* The claim protocol of the subscriptions table.  Its clients are         *)
(* anybody: a worker may present a token it was given at any time,         *)
(* however long ago its claim expired, was cleared or was replaced, and    *)
(* user commands and the clock interleave with all of them.                *)
(***************************************************************************)
EXTENDS SubscriptionRows

VARIABLE held       \* tokens some worker still remembers

vars == <<sub, pause, cooldown, held>>

\* uuid4: neither remembered by a worker nor stored in a row
Fresh(t) == t \in Token \ held /\ \A s \in Subs : sub[s].token # t

Init == NoRows /\ held = {}

\* A worker cancelled while it claims never learns its token.
Claim(s, t) ==
    /\ Fresh(t)
    /\ ClaimDueSubscription(s, t)
    /\ held' \in {held \cup {t}, held}

\* Any statement of a worker that presents the token t for the pair s; it
\* may be the worker's last.
Present(s, t) ==
    /\ \/ RenewSubscriptionClaim(s, t)
       \/ \E delay \in 0..MaxDelay :
            UpdateSubscriptionTime(s, t, delay) \/ DeferSubscription(s, t, delay)
       \/ \E i \in Interval, n \in 0..BackoffEntries :
            MarkSubscriptionEmpty(s, t, i, n)
       \/ ReleaseSubscriptionClaim(s, t)
    /\ held' \in {held, held \ {t}}

\* Workers end, all of them when their process does.
Forget(T) ==
    /\ held' = held \ T
    /\ UNCHANGED rowVars

Next ==
    \/ \E s \in Subs, t \in Token : Claim(s, t)
    \/ \E s \in Subs, t \in held : Present(s, t)
    \/ \E T \in SUBSET held : Forget(T)
    \/ ReleaseStaleSubscriptionClaims /\ UNCHANGED held
    \/ UserCommand /\ UNCHANGED held
    \/ Tick /\ UNCHANGED held

Spec == Init /\ [][Next]_vars

(***************************************************************************)
(* Properties.                                                             *)
(***************************************************************************)
\* The variables have their types; a row that is not there is blank.
TypeOK ==
    /\ RowsOK
    /\ held \subseteq Token

\* A token is the claim of one row at most, so a statement filtered by
\* processing_token can touch one row at most.
TokenUnique ==
    \A r, s \in Subs :
        sub[r].token = sub[s].token /\ sub[r].token # NoToken => r = s

\* A running lease has an owner: no row is closed to get_due_subscriptions
\* by a lease that nobody could release.
LeaseHasOwner ==
    \A s \in Subs : sub[s].lease > 0 => sub[s].token \in Token

\* A token a worker remembers and that is not the claim of a row does not
\* become its claim again: not by deactivating and reactivating the
\* subscription, not by removing and adding it, not by an expired claim.
RetiredTokenNeverReturns ==
    [][\A s \in Subs, t \in held :
         sub[s].token # t => sub'[s].token # t]_vars

\* A claim of a paused user is never extended: the lease of a row whose
\* owner is paused can only run down or be cleared.
PauseStopsRenewal ==
    [][\A s \in Subs :
         Paused(Owner[s]) => sub'[s].lease <= sub[s].lease]_vars

\* The claims are fenced leases.
Lease == INSTANCE FencedLease WITH
           Resource <- Subs,
           holder <- [s \in Subs |-> sub[s].token],
           live <- {s \in Subs : sub[s].lease > 0},
           known <- held

LeaseSpec == Lease!Spec

=============================================================================
