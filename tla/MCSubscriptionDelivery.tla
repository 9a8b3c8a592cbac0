----------------------- MODULE MCSubscriptionDelivery -----------------------
(* Instances of SubscriptionDelivery for TLC. *)
EXTENDS SubscriptionDelivery, TLC

CONSTANTS u1, s1, s2, t1, t2, t3, p1

OneUser == [s \in Subs |-> u1]
SamePost == [s \in Subs |-> {p1}]
TwoBackoffs == [n \in 1..2 |-> n]

\* Only the identity of a token matters.
Tokens == Permutations(Token)

=============================================================================
