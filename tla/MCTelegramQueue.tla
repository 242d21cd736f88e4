--------------------------- MODULE MCTelegramQueue ---------------------------
(* Instances of TelegramQueue for TLC. *)
EXTENDS TelegramQueue, TLC

CONSTANTS timer, cli, web, console, first, second

TimerAndCli == {timer, cli}
OnlyTimer == {timer}
WebAndConsole == {web, console}
OnlyWeb == {web}

TwoBackups == {first, second}
OneTopic == <<first, second>>

\* One backup that may go to two topics.
OnlyFirst == {first}
TwoTopics == <<first, first>>

\* Safety only: the clients are alike.
Alike == Permutations(WebAndConsole)
=============================================================================
