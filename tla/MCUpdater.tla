------------------------------ MODULE MCUpdater ------------------------------
(* The unit and the command line, two packages of two later versions. *)
EXTENDS Updater, TLC

CONSTANTS unit, shell

HelperSymmetry == Permutations({unit, shell})

Both == {unit, shell}
=============================================================================
