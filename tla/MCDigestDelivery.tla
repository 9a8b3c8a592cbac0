-------------------------- MODULE MCDigestDelivery --------------------------
(* Instances of DigestDelivery for TLC. *)
EXTENDS DigestDelivery, TLC

CONSTANTS i1, i2, s1, s2, d1, d2, t1, t2, t3, t4

MCSubOf == (i1 :> s1) @@ (i2 :> s2)
MCOrder == (s1 :> 1) @@ (s2 :> 2)

\* Every deliverer is as good as another.
MCDeliverers == Permutations(Deliverers)

=============================================================================
