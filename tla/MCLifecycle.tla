----------------------------- MODULE MCLifecycle -----------------------------
(* Small instances of Lifecycle for TLC: the timer and the command line may *)
(* run at once, next to the web application.                               *)
EXTENDS Lifecycle, TLC

CONSTANTS timer, cli, f1

RunnerSymmetry == Permutations(Runners)
=============================================================================
