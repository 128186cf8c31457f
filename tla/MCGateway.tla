---------------------------- MODULE MCGateway ----------------------------
EXTENDS Gateway, TLC

MCMaximum ==
  [k \in Kinds |-> IF k \in {"command", "import_ingress", "command_ingress"} THEN 2 ELSE 1]
MCWindow == [k \in Kinds |-> 3]
GatewaySymmetry == Permutations(Users \ Movers) \cup Permutations(Ids)
==========================================================================
