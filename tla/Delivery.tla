------------------------------- MODULE Delivery -------------------------------
(***************************************************************************)
(* What a queue of secondary copies promises, whatever its workers, its    *)
(* retries and its requests do (docs/TELEGRAM_BACKUP.md, docs/CLOUD_SYNC.md): *)
(* nothing travels that no item asked for; what is called sent has arrived; *)
(* only the holder of an item calls it sent, and nothing is lost: what was *)
(* accepted stays known, about the same thing.                             *)
(* TelegramQueue and CloudSync implement it.                               *)
(***************************************************************************)
CONSTANTS Items, Things, Nothing

VARIABLES
  state,      \* what each item stands at
  thing,      \* what it is to deliver
  held,       \* items some worker has in its hands
  arrived     \* things the destination has

States == {"none", "open", "sent", "refused", "withdrawn"}

Init ==
  /\ state = [i \in Items |-> "none"]
  /\ thing = [i \in Items |-> Nothing]
  /\ held = {}
  /\ arrived = {}

\* A transaction may move many items, each in one of these ways.
Accepted(i) == state[i] = "none" /\ state'[i] \in {"open", "refused"} /\ thing'[i] \in Things
Refused(i) == state[i] = "open" /\ state'[i] = "refused"
Withdrawn(i) == state[i] # "none" /\ state'[i] = "withdrawn"
Reopened(i) == state[i] \in {"refused", "sent", "withdrawn"} /\ state'[i] = "open"
Decided(i) ==
  /\ i \in held
  /\ state[i] # "none"
  /\ \/ state'[i] \in {"open", "refused"}
     \/ state'[i] = "sent" /\ thing[i] \in arrived

Move(i) ==
  /\ \/ state'[i] = state[i]
     \/ Accepted(i) \/ Refused(i) \/ Withdrawn(i) \/ Reopened(i) \/ Decided(i)
  /\ state[i] # "none" \/ state'[i] = "none" => thing'[i] = thing[i]

\* Only an open item is taken up.
Taken == \A i \in held' \ held : state[i] = "open"

\* Only what a held item is about arrives, and it stays.
Arrival == arrived \subseteq arrived' /\ \A b \in arrived' \ arrived : \E i \in held : thing[i] = b

Next == (\A i \in Items : Move(i)) /\ Taken /\ Arrival

Spec == Init /\ [][Next]_<<state, thing, held, arrived>>
=============================================================================
