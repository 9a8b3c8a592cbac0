---------------------------- MODULE MCRule34Client ----------------------------
(* An instance of Rule34Client for TLC. *)
EXTENDS Rule34Client, TLC

CONSTANTS i1, i2, b1

MCKind == (i1 :> "interactive") @@ (i2 :> "interactive") @@ (b1 :> "background")
MCConcurrency == ("interactive" :> 2) @@ ("background" :> 1)
MCBackoff == <<1>>

=============================================================================
