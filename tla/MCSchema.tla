------------------------------- MODULE MCSchema -------------------------------
(* A deployment and an installation, two migrations, the last a rebuild. *)
EXTENDS Schema

CONSTANTS deploy, install

Both == {deploy, install}
OnlyDeploy == {deploy}
=============================================================================
