------------------------------- MODULE MCRollout -------------------------------
(* Rollout over three hosts. *)
EXTENDS Rollout

MCHOSTS == <<"h0", "h1", "h2">>
=============================================================================
