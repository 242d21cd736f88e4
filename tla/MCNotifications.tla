---------------------------- MODULE MCNotifications ----------------------------
(* Two events about one backup and one about another, two places, one condition. *)
EXTENDS Notifications

CONSTANTS b1, b2, c1

AtAPlace == {b1, b2} \X (1..2)
Repeated == [e \in 1..3, n \in 1..2 |-> <<(<<b1, b1, b2>>)[e], n>>]
OneCondition == <<c1>>
EachAlone == {{"event"}, {"condition"}, {"test"}, {"summary"}}
=============================================================================
