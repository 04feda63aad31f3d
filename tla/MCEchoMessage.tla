---------------------------- MODULE MCEchoMessage ----------------------------
(* EchoMessage for TLC: the members of each set are interchangeable.           *)
EXTENDS EchoMessage, TLC

Symmetry == Permutations(Addr) \cup Permutations(Text \ {Empty})
              \cup Permutations(Foreign) \cup Permutations(Msg)
=============================================================================
