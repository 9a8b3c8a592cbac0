------------------------------- MODULE MCLeases -------------------------------
(***************************************************************************)
(* The two tables whose rows are leased, in one run: the state of one of   *)
(* them changes, that of the other stays what it was.                      *)
(***************************************************************************)
EXTENDS SubscriptionClaim, DeliveryFailures, TLC

CONSTANTS u1, s1, s2, s3, t1, t2, f1, f2, w1, w2, k1, k2

VARIABLE table

MCOwner == [s \in Subs |-> u1]
MCUrls == [f \in Failures |-> IF f = f1 THEN 1 ELSE 0]
MCEmptyBackoff == [n \in 1..2 |-> n]

MCSymmetry == Permutations(Senders) \cup Permutations(RetryToken)

LeasesInit ==
    /\ table \in {"subscriptions", "delivery_failures"}
    /\ Init
    /\ FailuresInit

LeasesNext ==
    /\ \/ table = "subscriptions" /\ Next /\ UNCHANGED failureVars
       \/ table = "delivery_failures" /\ FailuresNext /\ UNCHANGED vars
    /\ UNCHANGED table

LeasesSpec == LeasesInit /\ [][LeasesNext]_<<table, vars, failureVars>>

=============================================================================
