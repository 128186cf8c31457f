--------------------------- MODULE MCLedgerClient ---------------------------
(* Model values for LedgerClient. *)
EXTENDS LedgerClient, TLC

TabSymmetry == Permutations(Tabs)
=============================================================================
