----------------------------- MODULE MCAccounts -----------------------------
(* A small instance of Accounts for TLC.                                   *)
EXTENDS Accounts

CONSTANTS admin, maria

\* Administered says nothing of what follows.
NotOvertaken == ~overtaken

\* No step reads "first", and neither do the properties of the passing run.
Followed ==
    <<[data EXCEPT !.first = TRUE], req, tool, [copy EXCEPT !.first = TRUE], since, overtaken>>
=============================================================================
