-------------------------------- MODULE MCBounce --------------------------------
(* BounceController: two loads and a store competing for two bounce slots. *)
EXTENDS BounceController, TLC

CONSTANTS l1, l2, w1, b1, b2

MCNumItems == (l1 :> 2) @@ (l2 :> 1) @@ (w1 :> 2)
=============================================================================
