--------------------------- MODULE MCBankAuthority ---------------------------
(* Instances of BankAuthority small enough for TLC. *)
EXTENDS BankAuthority, TLC

\* A retried or conflicting request needs one key and two commands, an eviction
\* more keys than window slots, isolation two users.  resume can do all that pay
\* can, and warn besides.
CONSTANTS u1, u2, m1, m2, t1, t2, pay, resume, reset, snapA, snapB

\* Users and the keys their devices draw are told apart by nothing but identity.
BankSymmetry == Permutations(Users) \cup Permutations(Mutations)
=============================================================================
