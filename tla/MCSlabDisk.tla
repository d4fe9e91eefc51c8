------------------------------ MODULE MCSlabDisk ------------------------------
(* SlabDisk on small instances. *)
EXTENDS SlabDisk, TLC

Symmetry == Permutations(Key) \cup Permutations(Slot) \cup Permutations(Config)
=============================================================================
