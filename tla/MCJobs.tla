------------------------------- MODULE MCJobs -------------------------------
(* Small instances of Jobs for TLC.                                        *)
EXTENDS Jobs, TLC

CONSTANTS w1, w2, jA, jB, e1

\* An SSH job and an OLT job of one equipment.
OneEquipment == (jA :> e1) @@ (jB :> e1)
SshAndFtp == (jA :> "ssh") @@ (jB :> "ftp")

\* One job.
OneJob == (jA :> e1)
Ssh == (jA :> "ssh")
Ftp == (jA :> "ftp")

WorkerSymmetry == Permutations(Workers)
=============================================================================
