---------------------------- MODULE MCWeightStream ----------------------------
(* WeightStream: three batches of two files, the middle one two tiles long. *)
EXTENDS WeightStream

MCTiles == <<1, 2, 1>>
MCFileOf == <<"a", "a", "b">>
=============================================================================
