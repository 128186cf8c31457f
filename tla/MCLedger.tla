------------------------------- MODULE MCLedger -------------------------------
(* Instances of Ledger small enough for TLC. *)
EXTENDS Ledger

\* Two custom accounts share a currency, so that a restored account may find its
\* currency taken.
CONSTANTS main, savings, dollars, extra, card, r1, r2, x1, x2

\* Only for runs of safety properties.
CustomSymmetry == Permutations({dollars, extra})
=============================================================================
