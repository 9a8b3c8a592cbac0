---------------------------- MODULE FencedLease ----------------------------
(***************************************************************************)
(* What a claim on a row promises, whatever it protects.                   *)
(*                                                                         *)
(* A resource has at most one holder, named by a token nobody knew before. *)
(* While the lease of a holder is live nobody else can be granted the      *)
(* resource; a lapsed lease never becomes live again; and a token that has *)
(* lost its resource never gets one back, so that whatever a former holder *)
(* still does can be told from what the present holder does.               *)
(***************************************************************************)
CONSTANTS Resource, Token, NoToken

VARIABLES
    holder,     \* the token each resource is held under, or NoToken
    live,       \* the resources whose lease has not lapsed
    known       \* the tokens somebody may still present

leaseVars == <<holder, live, known>>

Init ==
    /\ holder = [r \in Resource |-> NoToken]
    /\ live = {}
    /\ known = {}

\* One token may be granted several resources at once.
Grant(R, t) ==
    /\ R \cap live = {}
    /\ t \in Token \ known
    /\ \A q \in Resource : holder[q] # t
    /\ holder' = [q \in Resource |-> IF q \in R THEN t ELSE holder[q]]
    /\ live' = live \cup R
    /\ known' \in {known \cup {t}, known}

\* Any number of holders lose their resource, any number of leases lapse and
\* any number of tokens are forgotten.
Settle ==
    /\ holder' \in [Resource -> Token \cup {NoToken}]
    /\ \A r \in Resource :
          /\ holder'[r] \in {holder[r], NoToken}
          /\ holder'[r] = NoToken => r \notin live'
    /\ live' \subseteq live
    /\ known' \subseteq known

Next == Settle \/ \E R \in SUBSET Resource, t \in Token : Grant(R, t)

Spec == Init /\ [][Next]_leaseVars

=============================================================================
