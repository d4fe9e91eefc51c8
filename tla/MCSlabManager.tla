---------------------------- MODULE MCSlabManager ----------------------------
(* SlabManager on a small instance: two target keys and one drafter key. *)
EXTENDS SlabManager, TLC

CONSTANTS t1, t2, d1, s1, s2, u1

MCKey == {t1, t2, d1}
MCGroupOf == (t1 :> 0) @@ (t2 :> 0) @@ (d1 :> 1)
MCSlot == {s1, s2, u1}
MCSlotGroup == (s1 :> 0) @@ (s2 :> 0) @@ (u1 :> 1)
MCRequest == {<<t1, t2, d1>>}
=============================================================================
