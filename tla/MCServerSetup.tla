--------------------------- MODULE MCServerSetup ---------------------------
(* ServerSetup for model checking: usernames are interchangeable. *)
EXTENDS ServerSetup, TLC

ThreeOneNone == <<3, 1, 0>>

Symmetry == Permutations(Usernames)
=============================================================================
