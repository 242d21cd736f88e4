---------------------------- MODULE MCFtpImporter ----------------------------
(* Instances of FtpImporter for TLC. *)
EXTENDS FtpImporter, TLC

CONSTANTS timer, cli, backup, rsc, plain, loose, good, other, bad

OnlyTimer == {timer}
TimerAndCli == {timer, cli}
OnlyExport == {rsc}
Pair == {backup, rsc}
OnePlain == {plain}
OneLoose == {loose}
AllContents == {good, other, bad}
OneBad == {bad}
OneGood == {good}
None == {}
=============================================================================
