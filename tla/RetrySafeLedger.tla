--------------------------- MODULE RetrySafeLedger ---------------------------
(***************************************************************************)
(* What the bank authority promises to the people who use it, with no      *)
(* tables, revisions, notices or calendar: each user has at most one       *)
(* ledger, a command changes it in the same instant as it is remembered,   *)
(* a remembered command is never performed again, and every answer comes   *)
(* from that memory.  Memory may fade: old commands can be forgotten.      *)
(***************************************************************************)
EXTENDS Sequences

CONSTANTS Users, Commands, Resets, Snapshots, NoLedger

VARIABLES
  ledger,  \* per user: what was brought in, and the commands performed since
  memory,  \* per user: the commands remembered, with their outcomes
  told     \* the answers given so far

lvars == <<ledger, memory, told>>

Memory(user, key, command, verdict) ==
  [user |-> user, key |-> key, command |-> command, verdict |-> verdict]

LInit ==
  /\ ledger = [u \in Users |-> NoLedger]
  /\ memory = [u \in Users |-> {}]
  /\ told = {}

\* The first snapshot becomes canonical; there is no second one.
Open(user) ==
  /\ ledger[user] = NoLedger
  /\ \E s \in Snapshots :
       ledger' = [ledger EXCEPT ![user] = [origin |-> s, book |-> <<>>]]
  /\ UNCHANGED <<memory, told>>

Performed(l, command) ==
  IF command \in Resets THEN [origin |-> "demo", book |-> <<command>>]
  ELSE [l EXCEPT !.book = Append(@, command)]

\* The effect, the memory of it and the answer, at once.
Perform(user, key, command, verdict) ==
  LET m == Memory(user, key, command, verdict)
  IN  /\ ledger[user] # NoLedger
      /\ \A n \in memory[user] : n.key # key
      /\ ledger' = IF verdict = "applied"
                   THEN [ledger EXCEPT ![user] = Performed(@, command)]
                   ELSE ledger
      /\ \E kept \in SUBSET memory[user] :
           memory' = [memory EXCEPT ![user] = kept \cup {m}]
      /\ told' = told \cup {m}

\* A retry is answered from memory and changes nothing.
Recall(user) ==
  /\ \E m \in memory[user] : told' = told \cup {m}
  /\ UNCHANGED <<ledger, memory>>

LNext ==
  \E user \in Users :
    \/ Open(user)
    \/ Recall(user)
    \/ \E m \in memory'[user] : Perform(user, m.key, m.command, m.verdict)

LSpec == LInit /\ [][LNext]_lvars
=============================================================================
