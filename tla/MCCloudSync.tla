----------------------------- MODULE MCCloudSync -----------------------------
(* A small instance of CloudSync for TLC: the timer's worker runs the queue, *)
(* the web application and a command line ask.                               *)
EXTENDS CloudSync

CONSTANTS timer, web, cli, b1, b2
=============================================================================
