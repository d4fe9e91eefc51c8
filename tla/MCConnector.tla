---------------------------- MODULE MCConnector ----------------------------
(* Small instances of OffloadingConnector: two requests that share their     *)
(* first block.                                                              *)
EXTENDS OffloadingConnector

CONSTANTS r1, r2, a, b, c, d

MCKeyOfTwo == (r1 :> <<a, b>>) @@ (r2 :> <<a, c>>)
MCKeyOfThree == (r1 :> <<a, b, d>>) @@ (r2 :> <<a, c>>)
MCAll == [r \in Request |-> N(r)]
MCFirst == [r \in Request |-> 1]
MCNoReset == {}
MCResetConnector == {[running |-> FALSE, connector |-> TRUE]}
MCSymmetry == Permutations(Block)

\* With MCKeyOfTwo the requests can also be exchanged, together with b and c.
MCSwap == (r1 :> r2) @@ (r2 :> r1) @@ (b :> c) @@ (c :> b)
MCSymmetryOfTwo == MCSymmetry \cup {MCSwap}
=============================================================================
