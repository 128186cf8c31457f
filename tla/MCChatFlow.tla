----------------------------- MODULE MCChatFlow -----------------------------
(* Instances of ChatFlow small enough for TLC. *)
EXTENDS ChatFlow, TLC

CONSTANTS u1, u2, low, high

\* Only for runs of safety properties.
AmountSymmetry == Permutations({low, high})

Everything == {"command", "text", "back", "next", "review", "confirm"}

\* A wizard is opened, reviewed, used in any way and confirmed, maybe for the second time.
OpenedReviewedConfirmed ==
  <<{"command"}, Everything, {"command", "confirm"}, {"confirm"}>>

OnlyCommands == [n \in 1..MaxUpdates |-> {"command"}]

Reviews == [n \in 1..MaxUpdates |-> {"command", "review", "confirm"}]
=============================================================================
