------------------------ MODULE BankAuthority_proofs ------------------------
(***************************************************************************)
(* Proofs that BankAuthority keeps its promises for any users, keys,       *)
(* commands, window size and attempt ceiling, and for any number of rows,  *)
(* calendar events, rate publications and crashes; and that it implements  *)
(* RetrySafeLedger.                                                        *)
(***************************************************************************)
EXTENDS BankAuthority, FiniteSetTheorems, TLAPS

-----------------------------------------------------------------------------
(* What the transition functions return.                                   *)

\* Materialising keeps a state a state, its book and its revision.
LEMMA MaterializedFacts ==
  ASSUME NEW b \in BankStates, calendar \in Nat
  PROVE  /\ Materialized(b) \in BankStates
         /\ Materialized(b).revision = b.revision
         /\ Materialized(b).book = b.book
         /\ Materialized(b).origin = b.origin
         /\ Materialized(b).rates = b.rates
         /\ Materialized(b).accrued = calendar
BY DEF Materialized, BankStates

\* What a recorded verdict says about the book: an applied command is entered into
\* it, or starts a new one; another leaves it alone.
Books(row, command, verdict, old, b) ==
  command \in Commands /\
  IF verdict # "applied" THEN b.origin = old.origin /\ b.book = old.book
  ELSE IF command \in Resets THEN b.origin = "demo" /\ b.book = <<Entry(row, command)>>
  ELSE b.origin = old.origin /\ b.book = Append(old.book, Entry(row, command))

\* Applying a command keeps a state a state, its revision and its rates.
LEMMA PerformedFacts ==
  ASSUME NEW b \in BankStates, NEW row \in Nat \ {0}, NEW command \in Commands,
         NEW verdict \in Verdicts, calendar \in Nat
  PROVE  /\ Performed(b, row, command, verdict) \in BankStates
         /\ Performed(b, row, command, verdict).revision = b.revision
         /\ Performed(b, row, command, verdict).rates = b.rates
         /\ Performed(b, row, command, verdict).accrued \in {b.accrued, calendar}
         /\ Books(row, command, verdict, b, Performed(b, row, command, verdict))
<1> DEFINE e == Entry(row, command)
<1> USE DEF Books
<1>1. e \in Entries
  BY DEF Entry, Entries
<1>2. CASE verdict = "rejected"
  BY <1>2 DEF Performed
<1>3. CASE verdict = "unchanged"
  <2>1. CASE command \in Resets
    BY <1>3, <2>1 DEF Performed
  <2>2. CASE command \notin Resets
    BY <1>3, <2>2, MaterializedFacts DEF Performed
  <2> QED BY <2>1, <2>2
<1>4. CASE verdict = "applied" /\ command \in Resets
  <2>1. <<e>> \in Seq(Entries)
    BY <1>1
  <2> QED BY <1>4, <2>1 DEF Performed, BankStates
<1>5. CASE verdict = "applied" /\ command \notin Resets
  <2>1. Append(b.book, e) \in Seq(Entries)
    BY <1>1 DEF BankStates
  <2> DEFINE due == Materialized(b)
  <2>2. /\ due \in BankStates /\ due.book = b.book /\ due.origin = b.origin
        /\ due.revision = b.revision /\ due.rates = b.rates /\ due.accrued = calendar
    BY MaterializedFacts
  <2>3. Performed(b, row, command, verdict) = [due EXCEPT !.book = Append(due.book, e)]
    BY <1>5 DEF Performed
  <2> HIDE DEF due, e
  <2> QED BY <1>5, <2>1, <2>2, <2>3 DEF BankStates, e
<1> QED BY <1>2, <1>3, <1>4, <1>5 DEF Verdicts

\* A write that keeps the state or numbers a different one.
RevisionMoves(old, b) ==
  \/ b = old
  \/ /\ b.revision = old.revision + 1
     /\ [b EXCEPT !.revision = 0] # [old EXCEPT !.revision = 0]

\* Writing a state moves its revision by one, or changes nothing.
LEMMA CommittedFacts ==
  ASSUME NEW old \in BankStates, NEW new \in BankStates
  PROVE  /\ Committed(old, new) \in BankStates
         /\ new = old => Committed(old, new) = old
         /\ new # old => Committed(old, new).revision = old.revision + 1
         /\ Committed(old, new).revision \in Nat \ {0}
         /\ Committed(old, new).revision >= old.revision
         /\ Committed(old, new).origin = new.origin
         /\ Committed(old, new).book = new.book
         /\ Committed(old, new).rates = new.rates
         /\ Committed(old, new).accrued = new.accrued
         /\ new.revision = old.revision => RevisionMoves(old, Committed(old, new))
<1> DEFINE n == old.revision + 1
           next == [new EXCEPT !.revision = n]
<1>1. old.revision \in Nat \ {0} /\ n \in Nat \ {0}
  BY DEF BankStates
<1>2. /\ next \in BankStates /\ next.revision = n
      /\ next.origin = new.origin /\ next.book = new.book
      /\ next.rates = new.rates /\ next.accrued = new.accrued
  <2> HIDE DEF n
  <2> QED BY <1>1 DEF BankStates
<1>3. Committed(old, new) = IF new = old THEN old ELSE next
  BY DEF Committed
<1>4. ASSUME new.revision = old.revision, new # old
      PROVE  [next EXCEPT !.revision = 0] # [old EXCEPT !.revision = 0]
  <2>1. \/ new.origin # old.origin \/ new.book # old.book
        \/ new.rates # old.rates \/ new.accrued # old.accrued
    BY <1>4 DEF BankStates
  <2> HIDE DEF next
  <2> QED BY <1>2, <2>1 DEF BankStates
<1> HIDE DEF next
<1> QED BY <1>1, <1>2, <1>3, <1>4 DEF RevisionMoves

\* What is evicted belongs to the user's window and has no pending notice.
LEMMA EvictionsAreCompleted ==
  ASSUME NEW user, NEW evicted \in Evictions(user)
  PROVE  /\ evicted \subseteq Window(user)
         /\ \A o \in evicted : ~HasNotice(o)
BY DEF Evictions

\* So the cascade of an eviction deletes no notice.
LEMMA NothingCascades ==
  ASSUME NEW user, NEW evicted \in Evictions(user)
  PROVE  Cascade(outbox, evicted) = outbox
BY EvictionsAreCompleted DEF Cascade, HasNotice

-----------------------------------------------------------------------------
(* The kinds of steps, as the tables see them.                             *)

\* b is the first state of a user, or is written over the one there.
Opens(user, b) ==
  /\ bank[user] = NoBank
  /\ b.origin \in Snapshots /\ b.book = <<>> /\ b.accrued <= calendar

Follows(user, b) ==
  /\ bank[user] # NoBank
  /\ RevisionMoves(bank[user], b)
  /\ b.revision >= bank[user].revision
  /\ b.rates >= bank[user].rates
  /\ b.accrued \in {bank[user].accrued, calendar}

\* A row enters bank_operations: an import, a command or a materialisation that
\* had to pause a rule.
Inserts(op, evicted, noticed) ==
  /\ op \in Rows
  /\ op.row = lastRow + 1
  /\ lastRow' = lastRow + 1
  /\ evicted \subseteq Window(op.user)
  /\ \A o \in evicted : ~HasNotice(o)
  /\ IF op.source \in {"telegram", "tma"} THEN evicted \in Evictions(op.user)
     ELSE evicted = {}
  /\ ops' = (ops \ evicted) \cup {op}
  /\ outbox' = IF noticed THEN outbox \cup {Notice(op.row, op.user)} ELSE outbox
  /\ owed' = IF noticed THEN owed \cup {op.row} ELSE owed
  /\ \E b \in BankStates :
       /\ bank' = [bank EXCEPT ![op.user] = b]
       /\ op.revision = b.revision
       /\ IF op.source = "import" THEN Opens(op.user, b) ELSE Follows(op.user, b)
       /\ CASE op.source = "system" ->
                 /\ op.key = b.revision /\ b.revision > bank[op.user].revision
                 /\ b.origin = bank[op.user].origin /\ b.book = bank[op.user].book
            [] op.source = "import" -> RowOf(op.user, op.source, op.key) = {}
            [] OTHER ->
                 /\ RowOf(op.user, op.source, op.key) = {}
                 /\ Books(op.row, op.command, op.verdict, bank[op.user], b)
  /\ answers' = IF op.source \in {"telegram", "tma"} THEN answers \cup {op} ELSE answers
  /\ UNCHANGED <<ledgerMode, refreshing, sender, world, sent, refused>>

\* Only the stored state of a user who has one is written.
Rewrites(user) ==
  /\ \E b \in BankStates :
       /\ bank' = [bank EXCEPT ![user] = b]
       /\ Follows(user, b)
       /\ b.origin = bank[user].origin /\ b.book = bank[user].book
  /\ refreshing' \subseteq refreshing
  /\ UNCHANGED <<ledgerMode, ops, outbox, lastRow, sender, world, history>>

\* An answer is given again.
Recalls ==
  /\ \E o \in ops : /\ o.source \in {"telegram", "tma"}
                    /\ answers' = answers \cup {o}
  /\ UNCHANGED <<ledgerMode, database, refreshing, sender, world, owed, sent, refused>>

\* Nothing is written to the tables of states and operations.
Keeps ==
  \/ ActivateServer
  \/ \E u \in Users : BeginRefresh(u) \/ FailRefresh(u)
  \/ SenderStep
  \/ TelegramStep
  \/ \E n \in outbox : RetryFallsDue(n)
  \/ Crash
  \/ CalendarAdvances
  \/ MarketMoves
  \/ UNCHANGED vars

\* A request names a source and a key of that source.
LEMMA RequestFacts ==
  ASSUME NEW r \in Requests
  PROVE  /\ r[1] \in {"telegram", "tma"}
         /\ r[1] \in Sources
         /\ r[2] \in Keys
BY DEF Requests, Sources, Keys

\* A row with fields of the right types is a row.
LEMMA RowFacts ==
  ASSUME NEW row \in Nat \ {0}, NEW user \in Users, NEW source \in Sources,
         NEW key \in Keys, NEW command \in Commands \cup Snapshots \cup {"materialize"},
         NEW verdict \in Verdicts, NEW revision \in Nat \ {0}
  PROVE  /\ Row(row, user, source, key, command, verdict, revision) \in Rows
         /\ Row(row, user, source, key, command, verdict, revision).row = row
         /\ Row(row, user, source, key, command, verdict, revision).user = user
         /\ Row(row, user, source, key, command, verdict, revision).source = source
         /\ Row(row, user, source, key, command, verdict, revision).key = key
         /\ Row(row, user, source, key, command, verdict, revision).command = command
         /\ Row(row, user, source, key, command, verdict, revision).verdict = verdict
         /\ Row(row, user, source, key, command, verdict, revision).revision = revision
BY DEF Row, Rows

\* The rate refreshes that wait belong to users who have a bank.
RefreshBanked == \A u \in refreshing : bank[u] # NoBank

\* The first execution of a command inserts its row.
LEMMA ExecuteInserts ==
  ASSUME TypeOK, NEW user \in Users, NEW r \in Requests, NEW command \in Commands,
         NEW verdict \in Verdicts, NEW warned \in BOOLEAN,
         ExecuteCommand(user, r[1], r[2], command, verdict, warned)
  PROVE  \E op \in Rows, evicted \in SUBSET ops, noticed \in BOOLEAN :
           Inserts(op, evicted, noticed)
<1> DEFINE old == bank[user]
           row == lastRow + 1
           done == Performed(old, row, command, verdict)
           new == Committed(old, done)
           op  == Row(row, user, r[1], r[2], command, verdict, new.revision)
           noticed == r[1] = "telegram" \/ warned
<1>1. old \in BankStates /\ old # NoBank
  BY DEF ExecuteCommand, TypeOK
<1>2. row \in Nat \ {0}
  BY DEF TypeOK
<1>3. /\ done \in BankStates /\ done.revision = old.revision /\ done.rates = old.rates
      /\ done.accrued \in {old.accrued, calendar}
      /\ Books(row, command, verdict, old, done)
  BY <1>1, <1>2, PerformedFacts DEF TypeOK
<1>4. /\ new \in BankStates
      /\ new.revision \in Nat \ {0}
      /\ Follows(user, new)
      /\ Books(row, command, verdict, old, new)
  <2>1. /\ new \in BankStates /\ new.revision \in Nat \ {0}
        /\ new.revision >= old.revision
        /\ new.origin = done.origin /\ new.book = done.book
        /\ new.rates = done.rates /\ new.accrued = done.accrued
        /\ RevisionMoves(old, new)
    BY <1>1, <1>3, CommittedFacts
  <2>2. old.rates \in Nat
    BY <1>1 DEF BankStates
  <2> HIDE DEF new, done, row
  <2> QED BY <1>1, <1>3, <2>1, <2>2 DEF Follows, Books
<1>5. r[1] \in {"telegram", "tma"} /\ r[1] \in Sources /\ r[2] \in Keys
  BY RequestFacts
<1>6. /\ op \in Rows /\ op.row = row /\ op.user = user /\ op.source = r[1]
      /\ op.key = r[2] /\ op.revision = new.revision
      /\ op.command = command /\ op.verdict = verdict
  BY <1>2, <1>4, <1>5, RowFacts
<1>7. PICK evicted \in Evictions(user) :
        /\ ops' = (ops \ evicted) \cup {op}
        /\ outbox' = Cascade(outbox, evicted) \cup
                       (IF noticed THEN {Notice(row, user)} ELSE {})
  BY DEF ExecuteCommand
<1>8. /\ evicted \subseteq Window(user)
      /\ \A o \in evicted : ~HasNotice(o)
      /\ Cascade(outbox, evicted) = outbox
  BY EvictionsAreCompleted, NothingCascades
<1>9. /\ RowOf(user, r[1], r[2]) = {}
      /\ bank' = [bank EXCEPT ![user] = new]
      /\ lastRow' = row
      /\ owed' = IF noticed THEN owed \cup {row} ELSE owed
      /\ answers' = answers \cup {op}
      /\ UNCHANGED <<ledgerMode, refreshing, sender, world, sent, refused>>
  BY DEF ExecuteCommand
<1>10. evicted \in SUBSET ops
  BY <1>8 DEF Window
<1>11. outbox' = IF noticed THEN outbox \cup {Notice(op.row, op.user)} ELSE outbox
  BY <1>6, <1>7, <1>8
<1> HIDE DEF op, new, row, noticed, done
<1>12. Inserts(op, evicted, noticed)
  <2>1. op.row = lastRow + 1 /\ lastRow' = lastRow + 1
    BY <1>6, <1>9 DEF row
  <2>2. op.source \in {"telegram", "tma"} /\ op.source \notin {"system", "import"}
    BY <1>5, <1>6
  <2> QED BY <1>1, <1>4, <1>6, <1>7, <1>8, <1>9, <1>11, <2>1, <2>2 DEF Inserts
<1>13. noticed \in BOOLEAN
  BY DEF noticed
<1> QED BY <1>6, <1>10, <1>12, <1>13

\* An import inserts its row.
LEMMA ImportInserts ==
  ASSUME TypeOK, NEW user \in Users, NEW key \in Mutations, NEW snapshot \in Snapshots,
         NEW accrued \in 0..calendar, NEW rates \in 0..market,
         ImportState(user, key, snapshot, accrued, rates)
  PROVE  \E op \in Rows : Inserts(op, {}, FALSE)
<1> DEFINE b == [origin |-> snapshot, book |-> <<>>, accrued |-> accrued,
                 rates |-> rates, revision |-> 1]
           row == lastRow + 1
           op == Row(row, user, "import", key, snapshot, "applied", 1)
<1>1. /\ b \in BankStates /\ b.revision = 1
      /\ b.origin \in Snapshots /\ b.book = <<>> /\ b.accrued <= calendar
  <2>1. <<>> \in Seq(Entries)
    OBVIOUS
  <2> QED BY <2>1 DEF BankStates, TypeOK
<1>2. row \in Nat \ {0}
  BY DEF TypeOK
<1>3. /\ op \in Rows /\ op.row = row /\ op.user = user /\ op.source = "import"
      /\ op.key = key /\ op.revision = 1
  <2>1. /\ "import" \in Sources /\ key \in Keys /\ "applied" \in Verdicts
        /\ 1 \in Nat \ {0}
        /\ snapshot \in Commands \cup Snapshots \cup {"materialize"}
    BY DEF Sources, Keys, Verdicts
  <2> QED BY <1>2, <2>1, RowFacts
<1>4. /\ bank[user] = NoBank
      /\ RowOf(user, "import", key) = {}
      /\ bank' = [bank EXCEPT ![user] = b]
      /\ lastRow' = row
      /\ ops' = ops \cup {op}
      /\ UNCHANGED <<ledgerMode, outbox, refreshing, sender, world, history>>
  BY DEF ImportState
<1> HIDE DEF b, op, row
<1>5. lastRow' = lastRow + 1 /\ op.row = lastRow + 1
  BY <1>3, <1>4 DEF row
<1> QED BY <1>1, <1>3, <1>4, <1>5 DEF Inserts, Opens, history

\* A bootstrap inserts a row when a rule was paused and rewrites the state otherwise.
LEMMA BootstrapInsertsOrRewrites ==
  ASSUME TypeOK, NEW user \in Users, NEW warned \in BOOLEAN, Bootstrap(user, warned)
  PROVE  (\E op \in Rows : Inserts(op, {}, TRUE)) \/ Rewrites(user)
<1> DEFINE old == bank[user]
           due == Materialized(old)
           new == Committed(old, due)
           row == lastRow + 1
           op == Row(row, user, "system", new.revision, "materialize", "applied",
                     new.revision)
<1>1. old \in BankStates /\ old # NoBank
  BY DEF Bootstrap, TypeOK
<1>2. /\ due \in BankStates /\ due.accrued = calendar /\ due.revision = old.revision
      /\ due.rates = old.rates /\ due.origin = old.origin /\ due.book = old.book
  BY <1>1, MaterializedFacts DEF TypeOK
<1>3. /\ new \in BankStates /\ new.revision \in Nat \ {0}
      /\ due # old => new.revision = old.revision + 1
      /\ Follows(user, new)
      /\ new.origin = old.origin /\ new.book = old.book
  <2>1. /\ new \in BankStates /\ new.revision \in Nat \ {0}
        /\ new.revision >= old.revision
        /\ due # old => new.revision = old.revision + 1
        /\ new.origin = due.origin /\ new.book = due.book
        /\ new.rates = due.rates /\ new.accrued = due.accrued
        /\ RevisionMoves(old, new)
    BY <1>1, <1>2, CommittedFacts
  <2>2. old.rates \in Nat
    BY <1>1 DEF BankStates
  <2> HIDE DEF new, due
  <2> QED BY <1>1, <1>2, <2>1, <2>2 DEF Follows
<1>4. bank' = [bank EXCEPT ![user] = new]
  BY DEF Bootstrap, MutateBankState
<1>5. CASE ~warned
  <2>1. UNCHANGED <<lastRow, ops, outbox, owed, ledgerMode, refreshing, sender,
                    world, answers, sent, refused>>
    BY <1>5 DEF Bootstrap, MutateBankState
  <2> HIDE DEF new
  <2> QED BY <1>1, <1>3, <1>4, <2>1 DEF Rewrites, history
<1>6. CASE warned
  <2>1. /\ lastRow' = row
        /\ ops' = ops \cup {op}
        /\ outbox' = outbox \cup {Notice(row, user)}
        /\ owed' = owed \cup {row}
        /\ old.accrued < calendar
        /\ UNCHANGED <<ledgerMode, refreshing, sender, world, answers, sent, refused>>
    BY <1>6 DEF Bootstrap, MutateBankState
  <2>2. new.revision > old.revision
    <3>1. due # old
      BY <1>1, <1>2, <2>1 DEF BankStates, TypeOK
    <3>2. old.revision \in Nat
      BY <1>1 DEF BankStates
    <3> HIDE DEF new
    <3> QED BY <1>3, <3>1, <3>2
  <2>3. row \in Nat \ {0}
    BY DEF TypeOK
  <2>4. /\ op \in Rows /\ op.row = row /\ op.user = user /\ op.source = "system"
        /\ op.key = new.revision /\ op.revision = new.revision
    <3>1. /\ "system" \in Sources /\ new.revision \in Keys /\ "applied" \in Verdicts
          /\ "materialize" \in Commands \cup Snapshots \cup {"materialize"}
      BY <1>3 DEF Sources, Keys, Verdicts
    <3>2. new.revision \in Nat \ {0}
      BY <1>3
    <3> HIDE DEF new, row
    <3> QED BY <2>3, <3>1, <3>2, RowFacts
  <2> HIDE DEF op, new, row
  <2>5. lastRow' = lastRow + 1 /\ op.row = lastRow + 1
    BY <2>1, <2>4 DEF row
  <2> QED BY <1>1, <1>3, <1>4, <2>1, <2>2, <2>4, <2>5 DEF Inserts
<1> QED BY <1>5, <1>6

\* The end of a rate refresh rewrites the state.
LEMMA FinishRefreshRewrites ==
  ASSUME TypeOK, RefreshBanked, NEW user \in Users, NEW version \in 0..market,
         FinishRefresh(user, version)
  PROVE  Rewrites(user)
<1> DEFINE old == bank[user]
           rates == IF version > old.rates THEN version ELSE old.rates
           fresh == [old EXCEPT !.rates = rates]
           new == Committed(old, fresh)
<1>1. old \in BankStates /\ old # NoBank
  BY DEF FinishRefresh, TypeOK, RefreshBanked
<1>2. rates \in Nat
  BY <1>1 DEF TypeOK, BankStates
<1>3. /\ fresh \in BankStates /\ fresh.revision = old.revision /\ fresh.rates = rates
      /\ fresh.accrued = old.accrued /\ fresh.origin = old.origin /\ fresh.book = old.book
  <2> HIDE DEF rates
  <2> QED BY <1>1, <1>2 DEF BankStates
<1>4. /\ new \in BankStates /\ Follows(user, new)
      /\ new.origin = old.origin /\ new.book = old.book
  <2>1. /\ new \in BankStates /\ new.revision >= old.revision
        /\ new.origin = fresh.origin /\ new.book = fresh.book
        /\ new.rates = fresh.rates /\ new.accrued = fresh.accrued
        /\ RevisionMoves(old, new)
    BY <1>1, <1>3, CommittedFacts
  <2>2. old.rates \in Nat /\ rates >= old.rates
    BY <1>1 DEF BankStates, TypeOK
  <2> HIDE DEF new, fresh, rates
  <2> QED BY <1>1, <1>3, <2>1, <2>2 DEF Follows
<1>5. /\ bank' = [bank EXCEPT ![user] = new]
      /\ refreshing' \subseteq refreshing
      /\ UNCHANGED <<ledgerMode, ops, outbox, lastRow, sender, world, history>>
  BY DEF FinishRefresh, MutateBankState, history
<1> HIDE DEF new
<1> QED BY <1>1, <1>4, <1>5 DEF Rewrites

\* Every step is of one of the four kinds.
LEMMA StepKinds ==
  ASSUME TypeOK, RefreshBanked, [Next]_vars
  PROVE  \/ \E op \in Rows, evicted \in SUBSET ops, noticed \in BOOLEAN :
              Inserts(op, evicted, noticed)
         \/ \E u \in Users : Rewrites(u)
         \/ Recalls
         \/ Keeps
<1>1. CASE \E u \in Users : ImportStep(u)
  <2>1. PICK u \in Users, key \in Mutations :
          \/ ReplayOrRefuseImport(u, key)
          \/ \E s \in Snapshots, a \in 0..calendar, r \in 0..market :
               ImportState(u, key, s, a, r)
    BY <1>1 DEF ImportStep
  <2>2. CASE ReplayOrRefuseImport(u, key)
    BY <2>2 DEF ReplayOrRefuseImport, Keeps
  <2>3. CASE \E s \in Snapshots, a \in 0..calendar, r \in 0..market :
               ImportState(u, key, s, a, r)
    BY <2>3, ImportInserts
  <2> QED BY <2>1, <2>2, <2>3
<1>2. CASE \E u \in Users : CommandStep(u)
  <2>1. PICK u \in Users, r \in Requests, c \in Commands :
          \/ ReplayCommand(u, r[1], r[2], c)
          \/ RefuseCommand(u, r[1], r[2], c)
          \/ \E v \in Verdicts, w \in BOOLEAN :
               ExecuteCommand(u, r[1], r[2], c, v, w)
    BY <1>2 DEF CommandStep
  <2>2. CASE ReplayCommand(u, r[1], r[2], c)
    <3>1. PICK o \in ops : o \in Rows /\ o.command = c /\ o.source = r[1]
                           /\ answers' = answers \cup {[o EXCEPT !.command = c]}
      BY <2>2 DEF ReplayCommand, RowOf, TypeOK
    <3>2. [o EXCEPT !.command = c] = o
      BY <3>1 DEF Rows
    <3> QED BY <2>2, <3>1, <3>2, RequestFacts DEF ReplayCommand, Recalls
  <2>3. CASE RefuseCommand(u, r[1], r[2], c)
    BY <2>3 DEF RefuseCommand, Keeps
  <2>4. CASE \E v \in Verdicts, w \in BOOLEAN : ExecuteCommand(u, r[1], r[2], c, v, w)
    BY <2>4, ExecuteInserts
  <2> QED BY <2>1, <2>2, <2>3, <2>4
<1>3. CASE \E u \in Users, w \in BOOLEAN : Bootstrap(u, w)
  BY <1>3, BootstrapInsertsOrRewrites
<1>4. CASE \E u \in Users : BeginRefresh(u) \/ FailRefresh(u)
  BY <1>4 DEF Keeps
<1>5. CASE \E u \in Users, version \in 0..market : FinishRefresh(u, version)
  BY <1>5, FinishRefreshRewrites
<1> QED BY <1>1, <1>2, <1>3, <1>4, <1>5 DEF Next, ServiceStep, Keeps

-----------------------------------------------------------------------------
(* Type correctness.                                                       *)

\* A message is on the wire exactly while a row is being sent.
WireBusy == wire = "idle" <=> sending = 0

TypeInv == TypeOK /\ WireBusy /\ RefreshBanked

LEMMA InitTypeInv == Init => TypeInv
BY ConstantsAssumption DEF Init, TypeInv, TypeOK, WireBusy, RefreshBanked, Wires

\* Inserting a row keeps the types.
LEMMA InsertsTypes ==
  ASSUME TypeInv, NEW op \in Rows, NEW evicted \in SUBSET ops, NEW noticed \in BOOLEAN,
         Inserts(op, evicted, noticed)
  PROVE  TypeInv'
<1>1. op.row \in Nat \ {0} /\ op.user \in Users
  BY DEF Rows
<1>2. Notice(op.row, op.user) \in Notices
  BY <1>1, ConstantsAssumption DEF Notice, Notices
<1>3. bank' \in [Users -> BankStates \cup {NoBank}] /\ RefreshBanked'
  BY <1>1, ConstantsAssumption DEF Inserts, TypeInv, TypeOK, RefreshBanked
<1>4. /\ ops' \subseteq Rows /\ outbox' \subseteq Notices /\ lastRow' \in Nat
      /\ answers' \subseteq Rows /\ owed' \subseteq Nat \ {0}
  BY <1>1, <1>2 DEF Inserts, TypeInv, TypeOK
<1>5. UNCHANGED <<ledgerMode, refreshing, sender, world, sent, refused>>
  BY DEF Inserts
<1> QED BY <1>3, <1>4, <1>5 DEF TypeInv, TypeOK, WireBusy, sender, world

\* Steps that write no state and no operation keep the types.
LEMMA KeepsTypes == TypeInv /\ Keeps => TypeInv'
<1> SUFFICES ASSUME TypeInv, Keeps PROVE TypeInv'
  OBVIOUS
<1> USE DEF TypeInv, TypeOK, WireBusy, RefreshBanked, database, sender, world, history
<1>1. CASE ActivateServer
  BY <1>1 DEF ActivateServer
<1>2. CASE \E u \in Users : BeginRefresh(u) \/ FailRefresh(u)
  BY <1>2 DEF BeginRefresh, FailRefresh
<1>3. CASE StartFlush
  BY <1>3 DEF StartFlush, Notices
<1>4. CASE \E row \in batch : BeginSend(row)
  BY <1>4 DEF BeginSend, Wires
<1>5. CASE CompleteSend
  BY <1>5 DEF CompleteSend, Wires
<1>6. CASE DeferSend
  <2>1. \A n \in Notices : Deferred(n) \in Notices
    <3> SUFFICES ASSUME NEW n \in Notices PROVE Deferred(n) \in Notices
      OBVIOUS
    <3> DEFINE tries == IF n.attempts < MaxAttempts THEN n.attempts + 1 ELSE n.attempts
    <3>1. tries \in 0..MaxAttempts
      BY ConstantsAssumption DEF Notices
    <3>2. Deferred(n) = [n EXCEPT !.attempts = tries, !.due = FALSE]
      BY DEF Deferred
    <3> HIDE DEF tries
    <3> QED BY <3>1, <3>2 DEF Notices
  <2> QED BY <1>6, <2>1 DEF DeferSend, Wires
<1>7. CASE TelegramStep
  BY <1>7 DEF TelegramStep, TelegramAccepts, TelegramRejects, TelegramFails, Wires
<1>8. CASE \E n \in outbox : RetryFallsDue(n)
  <2>1. PICK n \in outbox : RetryFallsDue(n)
    BY <1>8
  <2>2. [n EXCEPT !.due = TRUE] \in Notices
    BY <2>1 DEF Notices
  <2> QED BY <2>1, <2>2 DEF RetryFallsDue
<1>9. CASE Crash
  BY <1>9 DEF Crash, Wires
<1>10. CASE CalendarAdvances
  BY <1>10 DEF CalendarAdvances
<1>11. CASE MarketMoves
  BY <1>11 DEF MarketMoves
<1>12. CASE UNCHANGED vars
  BY <1>12 DEF vars
<1> QED BY <1>1, <1>2, <1>3, <1>4, <1>5, <1>6, <1>7, <1>8, <1>9, <1>10, <1>11, <1>12
        DEF Keeps, SenderStep

\* Every step keeps the types.
LEMMA TypeStep == ASSUME TypeInv, [Next]_vars PROVE TypeInv'
<1>1. CASE \E op \in Rows, evicted \in SUBSET ops, noticed \in BOOLEAN :
             Inserts(op, evicted, noticed)
  BY <1>1, InsertsTypes
<1>2. CASE \E u \in Users : Rewrites(u)
  BY <1>2, ConstantsAssumption
     DEF Rewrites, TypeInv, TypeOK, WireBusy, RefreshBanked, sender, world, history
<1>3. CASE Recalls
  BY <1>3 DEF Recalls, TypeInv, TypeOK, WireBusy, RefreshBanked, database, sender, world
<1>4. CASE Keeps
  BY <1>4, KeepsTypes
<1> QED BY <1>1, <1>2, <1>3, <1>4, StepKinds DEF TypeInv

\* Every variable keeps its type in every behaviour.
THEOREM TypeCorrect == Spec => []TypeInv
<1>1. TypeInv /\ [Next]_vars => TypeInv'
  BY TypeStep
<1> QED BY <1>1, InitTypeInv, PTL DEF Spec

\* So do the types the runs check.
THEOREM TypesHold == Spec => []TypeOK
<1>1. TypeInv => TypeOK
  BY DEF TypeInv
<1> QED BY <1>1, TypeCorrect, PTL

-----------------------------------------------------------------------------
(* The stored states: what a step does to the bank of a user.              *)

\* What Keeps leaves alone.
LEMMA KeepsTables ==
  ASSUME Keeps
  PROVE  /\ UNCHANGED <<bank, ops, lastRow, answers, owed>>
         /\ refreshing' \subseteq refreshing \cup Users
<1> USE DEF database, sender, world, history
<1>1. CASE ActivateServer \/ Crash \/ CalendarAdvances \/ MarketMoves
  BY <1>1 DEF ActivateServer, Crash, CalendarAdvances, MarketMoves
<1>2. CASE \E u \in Users : BeginRefresh(u) \/ FailRefresh(u)
  BY <1>2 DEF BeginRefresh, FailRefresh
<1>3. CASE SenderStep
  BY <1>3 DEF SenderStep, StartFlush, BeginSend, CompleteSend, DeferSend
<1>4. CASE TelegramStep
  BY <1>4 DEF TelegramStep, TelegramAccepts, TelegramRejects, TelegramFails
<1>5. CASE \E n \in outbox : RetryFallsDue(n)
  BY <1>5 DEF RetryFallsDue
<1>6. CASE UNCHANGED vars
  BY <1>6 DEF vars
<1> QED BY <1>1, <1>2, <1>3, <1>4, <1>5, <1>6 DEF Keeps

\* A step leaves a bank alone, opens it, or writes the state that follows.
LEMMA BankMoves ==
  ASSUME TypeInv, [Next]_vars, NEW u \in Users
  PROVE  \/ bank'[u] = bank[u] /\ calendar' >= calendar
         \/ /\ bank'[u] \in BankStates /\ calendar' = calendar
            /\ Opens(u, bank'[u]) \/ Follows(u, bank'[u])
<1>1. ASSUME NEW user \in Users, NEW b \in BankStates,
             bank' = [bank EXCEPT ![user] = b], UNCHANGED calendar,
             Opens(user, b) \/ Follows(user, b)
      PROVE  \/ bank'[u] = bank[u] /\ calendar' >= calendar
             \/ /\ bank'[u] \in BankStates /\ calendar' = calendar
                /\ Opens(u, bank'[u]) \/ Follows(u, bank'[u])
  <2>1. CASE user = u
    <3>1. bank'[u] = b
      BY <1>1, <2>1 DEF TypeInv, TypeOK
    <3> QED BY <1>1, <2>1, <3>1
  <2>2. CASE user # u
    BY <1>1, <2>2 DEF TypeInv, TypeOK
  <2> QED BY <2>1, <2>2
<1>2. CASE \E op \in Rows, evicted \in SUBSET ops, noticed \in BOOLEAN :
             Inserts(op, evicted, noticed)
  <2>1. PICK op \in Rows, b \in BankStates :
          /\ bank' = [bank EXCEPT ![op.user] = b]
          /\ Opens(op.user, b) \/ Follows(op.user, b)
          /\ UNCHANGED calendar
    BY <1>2 DEF Inserts, world
  <2>2. op.user \in Users
    BY DEF Rows
  <2> QED BY <1>1, <2>1, <2>2
<1>3. CASE \E user \in Users : Rewrites(user)
  BY <1>1, <1>3 DEF Rewrites, world
<1>4. CASE Recalls
  BY <1>4 DEF Recalls, database, world, TypeInv, TypeOK
<1>5. CASE Keeps
  <2>1. calendar' >= calendar
    <3> USE DEF world, TypeInv, TypeOK
    <3>1. CASE ActivateServer \/ Crash \/ CalendarAdvances \/ MarketMoves
      BY <3>1 DEF ActivateServer, Crash, CalendarAdvances, MarketMoves
    <3>2. CASE \E user \in Users : BeginRefresh(user) \/ FailRefresh(user)
      BY <3>2 DEF BeginRefresh, FailRefresh
    <3>3. CASE SenderStep
      BY <3>3 DEF SenderStep, StartFlush, BeginSend, CompleteSend, DeferSend
    <3>4. CASE TelegramStep
      BY <3>4 DEF TelegramStep, TelegramAccepts, TelegramRejects, TelegramFails
    <3>5. CASE \E n \in outbox : RetryFallsDue(n)
      BY <3>5 DEF RetryFallsDue
    <3>6. CASE UNCHANGED vars
      BY <3>6 DEF vars
    <3> QED BY <1>5, <3>1, <3>2, <3>3, <3>4, <3>5, <3>6 DEF Keeps
  <2> QED BY <1>5, <2>1, KeepsTables
<1> QED BY <1>2, <1>3, <1>4, <1>5, StepKinds DEF TypeInv

\* Nothing is materialised before it falls due.
NotAhead == \A u \in Users : bank[u] # NoBank => bank[u].accrued <= calendar

LEMMA NotAheadHolds == Spec => []NotAhead
<1>1. Init => NotAhead
  BY DEF Init, NotAhead
<1>2. TypeInv /\ NotAhead /\ [Next]_vars => NotAhead'
  <2> SUFFICES ASSUME TypeInv, NotAhead, [Next]_vars, NEW u \in Users, bank'[u] # NoBank
               PROVE  bank'[u].accrued <= calendar'
    BY DEF NotAhead
  <2>1. calendar \in Nat /\ (bank[u] # NoBank => bank[u].accrued \in Nat)
    BY DEF TypeInv, TypeOK, BankStates
  <2>2. CASE bank'[u] = bank[u] /\ calendar' >= calendar
    <3>1. calendar' \in Nat
      BY <2>1, TypeStep DEF TypeInv, TypeOK
    <3> QED BY <2>1, <2>2, <3>1 DEF NotAhead
  <2>3. CASE calendar' = calendar /\ (Opens(u, bank'[u]) \/ Follows(u, bank'[u]))
    BY <2>1, <2>3 DEF NotAhead, Opens, Follows
  <2> QED BY <2>2, <2>3, BankMoves
<1> QED BY <1>1, <1>2, TypeCorrect, PTL DEF Spec

\* A revision names one state: every write moves it on by one.
THEOREM RevisionsNameStates == Spec => RevisionNamesState
<1>1. ASSUME TypeInv, [Next]_vars, NEW u \in Users, bank[u] # NoBank
      PROVE  RevisionMoves(bank[u], bank'[u])
  BY <1>1, BankMoves DEF Opens, Follows, RevisionMoves
<1>2. TypeInv /\ [Next]_vars =>
        [\A u \in Users : bank[u] # NoBank =>
           \/ bank'[u] = bank[u]
           \/ /\ bank'[u].revision = bank[u].revision + 1
              /\ [bank'[u] EXCEPT !.revision = 0] # [bank[u] EXCEPT !.revision = 0]]_vars
  BY <1>1 DEF RevisionMoves
<1> QED BY <1>2, TypeCorrect, PTL DEF Spec, RevisionNamesState

\* No write takes rates or materialisation back, however old the snapshot a rate
\* refresh finished with.
THEOREM NothingGetsOlder == Spec => NeverOlder
<1>1. ASSUME TypeInv, NotAhead, [Next]_vars, NEW u \in Users, bank[u] # NoBank
      PROVE  bank'[u].rates >= bank[u].rates /\ bank'[u].accrued >= bank[u].accrued
  <2>1. bank[u].rates \in Nat /\ bank[u].accrued \in Nat /\ calendar \in Nat
    BY <1>1 DEF TypeInv, TypeOK, BankStates
  <2>2. bank[u].accrued <= calendar
    BY <1>1 DEF NotAhead
  <2> QED BY <1>1, <2>1, <2>2, BankMoves DEF Opens, Follows
<1>2. TypeInv /\ NotAhead /\ [Next]_vars =>
        [\A u \in Users : bank[u] # NoBank =>
           /\ bank'[u].rates >= bank[u].rates
           /\ bank'[u].accrued >= bank[u].accrued]_vars
  BY <1>1
<1> QED BY <1>2, TypeCorrect, NotAheadHolds, PTL DEF Spec, NeverOlder

-----------------------------------------------------------------------------
(* The recorded operations: keys, revisions and answers.                   *)

\* Serials are drawn once, and a system row's key is the revision it made.
RowSerials ==
  /\ \A o \in ops \cup answers : o.row <= lastRow
  /\ \A o, p \in ops : o.row = p.row => o = p
SystemKeys == \A o \in ops : o.source = "system" => o.key = o.revision

RowInv == RowSerials /\ SystemKeys /\ UniqueKeys /\ RowsFollowRevisions /\ AnswersStand

LEMMA InsertsRows ==
  ASSUME TypeInv, RowInv, NEW op \in Rows, NEW evicted \in SUBSET ops,
         NEW noticed \in BOOLEAN, Inserts(op, evicted, noticed)
  PROVE  RowInv'
<1>1. /\ ops' = (ops \ evicted) \cup {op}
      /\ answers' \subseteq answers \cup {op}
      /\ op.row = lastRow + 1 /\ lastRow' = lastRow + 1
  BY DEF Inserts
<1>2. PICK b \in BankStates :
        /\ bank' = [bank EXCEPT ![op.user] = b]
        /\ op.revision = b.revision
        /\ bank[op.user] # NoBank => b.revision >= bank[op.user].revision
        /\ IF op.source = "system"
           THEN /\ bank[op.user] # NoBank
                /\ op.key = b.revision /\ b.revision > bank[op.user].revision
           ELSE RowOf(op.user, op.source, op.key) = {}
  <2>1. PICK b \in BankStates :
          /\ bank' = [bank EXCEPT ![op.user] = b]
          /\ op.revision = b.revision
          /\ IF op.source = "import" THEN Opens(op.user, b) ELSE Follows(op.user, b)
          /\ IF op.source = "system"
             THEN op.key = b.revision /\ b.revision > bank[op.user].revision
             ELSE RowOf(op.user, op.source, op.key) = {}
    BY DEF Inserts
  <2> QED BY <2>1 DEF Opens, Follows
<1>3. /\ lastRow \in Nat /\ op.user \in Users /\ op.row \in Nat /\ op.revision \in Nat
      /\ \A o \in ops : o \in Rows /\ o.row \in Nat /\ o.revision \in Nat /\ o.user \in Users
      /\ \A o \in answers : o \in Rows /\ o.row \in Nat
      /\ b.revision \in Nat
  BY DEF TypeInv, TypeOK, Rows, BankStates
<1>4. bank'[op.user] = b /\ \A u \in Users \ {op.user} : bank'[u] = bank[u]
  BY <1>2, <1>3 DEF TypeInv, TypeOK
<1>5. \A o \in ops \cup answers : o.row < op.row
  BY <1>1, <1>3 DEF RowInv, RowSerials
<1>6. \A o \in ops : o.user = op.user =>
         bank[op.user] # NoBank /\ o.revision <= bank[op.user].revision
                                /\ bank[op.user].revision \in Nat
  BY <1>3 DEF RowInv, RowsFollowRevisions, TypeInv, TypeOK, BankStates
<1>7. \A o \in ops : o.user = op.user => o.revision <= op.revision
  BY <1>2, <1>3, <1>6
<1>8. RowSerials'
  <2>1. \A o \in ops \cup answers : o.row <= lastRow + 1
    BY <1>3 DEF RowInv, RowSerials
  <2>2. \A o \in ops' \cup answers' : o.row <= lastRow'
    BY <1>1, <1>3, <2>1
  <2>3. \A o, p \in ops' : o.row = p.row => o = p
    BY <1>1, <1>3, <1>5 DEF RowInv, RowSerials
  <2> QED BY <2>2, <2>3 DEF RowSerials
<1>9. SystemKeys'
  BY <1>1, <1>2 DEF RowInv, SystemKeys
<1>10. UniqueKeys'
  <2>1. \A o \in ops : ~(o.user = op.user /\ o.source = op.source /\ o.key = op.key)
    <3> SUFFICES ASSUME NEW o \in ops, o.user = op.user, o.source = op.source,
                        o.key = op.key
                 PROVE FALSE
      OBVIOUS
    <3>1. CASE op.source = "system"
      <4>1. o.revision = b.revision
        BY <1>2, <3>1 DEF RowInv, SystemKeys
      <4> QED BY <1>2, <1>3, <1>6, <3>1, <4>1
    <3>2. CASE op.source # "system"
      BY <1>2, <3>2 DEF RowOf
    <3> QED BY <3>1, <3>2
  <2> QED BY <1>1, <2>1 DEF RowInv, UniqueKeys
<1>11. RowsFollowRevisions'
  <2>1. ASSUME NEW o \in ops', NEW p \in ops', o.user = p.user, o.row < p.row
        PROVE  o.revision <= p.revision
    <3>1. CASE o = op
      BY <1>1, <1>3, <1>5, <2>1, <3>1
    <3>2. CASE o \in ops /\ p = op
      BY <1>7, <2>1, <3>2
    <3>3. CASE o \in ops /\ p \in ops
      BY <2>1, <3>3 DEF RowInv, RowsFollowRevisions
    <3> QED BY <1>1, <2>1, <3>1, <3>2, <3>3
  <2>2. ASSUME NEW o \in ops'
        PROVE  bank'[o.user] # NoBank /\ o.revision <= bank'[o.user].revision
    <3>1. b # NoBank
      BY ConstantsAssumption
    <3>2. CASE o = op
      BY <1>2, <1>3, <1>4, <3>1, <3>2
    <3>3. CASE o \in ops /\ o.user = op.user
      BY <1>2, <1>4, <1>7, <3>1, <3>3
    <3>4. CASE o \in ops /\ o.user # op.user
      BY <1>3, <1>4, <3>4 DEF RowInv, RowsFollowRevisions
    <3> QED BY <1>1, <2>2, <3>2, <3>3, <3>4
  <2> QED BY <2>1, <2>2 DEF RowsFollowRevisions
<1>12. AnswersStand'
  BY <1>1, <1>3, <1>5 DEF RowInv, AnswersStand
<1> QED BY <1>8, <1>9, <1>10, <1>11, <1>12 DEF RowInv

LEMMA RewritesRows ==
  ASSUME TypeInv, RowInv, NEW user \in Users, Rewrites(user)
  PROVE  RowInv'
<1>1. UNCHANGED <<ops, lastRow, answers>>
  BY DEF Rewrites, history
<1>2. RowsFollowRevisions'
  <2>1. PICK b \in BankStates : /\ bank' = [bank EXCEPT ![user] = b]
                                /\ b.revision >= bank[user].revision
    BY DEF Rewrites, Follows
  <2>2. b # NoBank /\ bank[user] # NoBank
    BY ConstantsAssumption DEF Rewrites, Follows
  <2>3. bank'[user] = b /\ \A u \in Users \ {user} : bank'[u] = bank[u]
    BY <2>1 DEF TypeInv, TypeOK
  <2>4. \A o \in ops : o.user \in Users /\ o.revision \in Nat
    BY DEF TypeInv, TypeOK, Rows
  <2>5. b.revision \in Nat /\ bank[user].revision \in Nat
    BY <2>2 DEF TypeInv, TypeOK, BankStates
  <2> QED BY <1>1, <2>1, <2>2, <2>3, <2>4, <2>5 DEF RowInv, RowsFollowRevisions
<1> QED BY <1>1, <1>2 DEF RowInv, RowSerials, SystemKeys, UniqueKeys, AnswersStand

LEMMA RecallsRows == RowInv /\ Recalls => RowInv'
BY DEF RowInv, Recalls, database, RowSerials, SystemKeys, UniqueKeys,
       RowsFollowRevisions, AnswersStand

\* In every behaviour the recorded operations are consistent: keys are unique,
\* revisions follow the rows, and retained operations agree with every answer.
THEOREM RowsConsistent == Spec => []RowInv
<1>1. Init => RowInv
  BY DEF Init, RowInv, RowSerials, SystemKeys, UniqueKeys, RowsFollowRevisions,
         AnswersStand
<1>2. TypeInv /\ RowInv /\ [Next]_vars => RowInv'
  <2> SUFFICES ASSUME TypeInv, RowInv, [Next]_vars PROVE RowInv'
    OBVIOUS
  <2>1. CASE \E op \in Rows, evicted \in SUBSET ops, noticed \in BOOLEAN :
               Inserts(op, evicted, noticed)
    BY <2>1, InsertsRows
  <2>2. CASE \E u \in Users : Rewrites(u)
    BY <2>2, RewritesRows
  <2>3. CASE Recalls
    BY <2>3, RecallsRows
  <2>4. CASE Keeps
    BY <2>4, KeepsTables DEF RowInv, RowSerials, SystemKeys, UniqueKeys,
                             RowsFollowRevisions, AnswersStand
  <2> QED BY <2>1, <2>2, <2>3, <2>4, StepKinds DEF TypeInv
<1> QED BY <1>1, <1>2, TypeCorrect, PTL DEF Spec

\* A key is recorded once.
THEOREM KeysAreUnique == Spec => []UniqueKeys
<1>1. RowInv => UniqueKeys
  BY DEF RowInv
<1> QED BY <1>1, RowsConsistent, PTL

\* Operation rows record non-decreasing revisions, none beyond the stored one.
THEOREM RevisionsFollow == Spec => []RowsFollowRevisions
<1>1. RowInv => RowsFollowRevisions
  BY DEF RowInv
<1> QED BY <1>1, RowsConsistent, PTL

\* Every answer given for a retained operation was its recorded outcome.
THEOREM AnswersKeepStanding == Spec => []AnswersStand
<1>1. RowInv => AnswersStand
  BY DEF RowInv
<1> QED BY <1>1, RowsConsistent, PTL

-----------------------------------------------------------------------------
(* Notices: each delivery is backed by its rows, and none is lost.         *)

\* What the wire reports is what Telegram did, and a row on the wire has left
\* the batch.
WireTruthful ==
  /\ wire = "accepted" => sending \in sent
  /\ wire = "rejected" => sending \in refused
  /\ sending \notin batch

NoticeInv == DeliveriesBacked /\ NoNoticeLost /\ WireTruthful

LEMMA InsertsNotices ==
  ASSUME TypeInv, NoticeInv, NEW op \in Rows, NEW evicted \in SUBSET ops,
         NEW noticed \in BOOLEAN, Inserts(op, evicted, noticed)
  PROVE  NoticeInv'
<1> DEFINE n == Notice(op.row, op.user)
<1>1. n.row = op.row /\ n.user = op.user
  BY DEF Notice
<1>2. /\ outbox' = IF noticed THEN outbox \cup {n} ELSE outbox
      /\ owed' = IF noticed THEN owed \cup {op.row} ELSE owed
      /\ ops' = (ops \ evicted) \cup {op}
      /\ \A o \in evicted : \A m \in outbox : m.row # o.row
      /\ UNCHANGED <<batch, sending, wire, sent, refused>>
  BY DEF Inserts, HasNotice, sender
<1> HIDE DEF n
<1>3. NoticeRows \subseteq NoticeRows' /\ (noticed => op.row \in NoticeRows')
  BY <1>1, <1>2 DEF NoticeRows
<1>4. \A m \in outbox' : \E o \in ops' : o.row = m.row /\ o.user = m.user
  BY <1>1, <1>2 DEF NoticeInv, DeliveriesBacked
<1>5. DeliveriesBacked'
  BY <1>2, <1>3, <1>4 DEF NoticeInv, DeliveriesBacked
<1>6. NoNoticeLost'
  BY <1>2, <1>3 DEF NoticeInv, NoNoticeLost
<1>7. WireTruthful'
  BY <1>2 DEF NoticeInv, WireTruthful
<1> QED BY <1>5, <1>6, <1>7 DEF NoticeInv

\* Deferring or renewing notices keeps the rows they belong to.
LEMMA SameRowsSameNotices ==
  ASSUME NoticeInv, UNCHANGED <<ops, owed, sent, refused>>,
         \A n \in outbox' : \E m \in outbox : m.row = n.row /\ m.user = n.user,
         \A m \in outbox : \E n \in outbox' : m.row = n.row
  PROVE  /\ NoticeRows' = NoticeRows
         /\ NoNoticeLost'
         /\ \A n \in outbox' : \E o \in ops' : o.row = n.row /\ o.user = n.user
<1>1. NoticeRows' = NoticeRows
  BY DEF NoticeRows
<1>2. NoNoticeLost'
  BY <1>1 DEF NoticeInv, NoNoticeLost
<1>3. \A n \in outbox' : \E o \in ops' : o.row = n.row /\ o.user = n.user
  <2> SUFFICES ASSUME NEW n \in outbox'
               PROVE  \E o \in ops' : o.row = n.row /\ o.user = n.user
    OBVIOUS
  <2>1. PICK m \in outbox : m.row = n.row /\ m.user = n.user
    OBVIOUS
  <2>2. PICK o \in ops : o.row = m.row /\ o.user = m.user
    BY DEF NoticeInv, DeliveriesBacked
  <2> QED BY <2>1, <2>2
<1> QED BY <1>1, <1>2, <1>3

LEMMA KeepsNotices ==
  ASSUME TypeInv, NoticeInv, Keeps
  PROVE  NoticeInv'
<1> USE DEF database, sender, world, history
<1>1. CASE ActivateServer \/ CalendarAdvances \/ MarketMoves \/ UNCHANGED vars
           \/ \E u \in Users : BeginRefresh(u) \/ FailRefresh(u)
  <2>1. UNCHANGED <<ops, outbox, batch, sending, wire, owed, sent, refused>>
    BY <1>1 DEF ActivateServer, CalendarAdvances, MarketMoves, vars, BeginRefresh,
                FailRefresh
  <2> QED BY <2>1 DEF NoticeInv, DeliveriesBacked, NoNoticeLost, WireTruthful, NoticeRows
<1>2. CASE StartFlush
  <2>1. /\ batch' = {n.row : n \in {m \in outbox : m.due}}
        /\ sending = 0
        /\ UNCHANGED <<ops, outbox, sending, wire, owed, sent, refused>>
    BY <1>2 DEF StartFlush, PollerIdle
  <2>2. batch' \subseteq NoticeRows /\ 0 \notin batch'
    BY <2>1 DEF NoticeRows, TypeInv, TypeOK, Notices
  <2> QED BY <2>1, <2>2 DEF NoticeInv, DeliveriesBacked, NoNoticeLost, WireTruthful,
                            NoticeRows
<1>3. CASE \E row \in batch : BeginSend(row)
  BY <1>3 DEF BeginSend, NoticeInv, DeliveriesBacked, NoNoticeLost, WireTruthful,
              NoticeRows
<1>4. CASE CompleteSend
  <2>1. /\ outbox' = {n \in outbox : n.row # sending}
        /\ wire \in {"accepted", "rejected"} /\ wire' = "idle" /\ sending' = 0
        /\ UNCHANGED <<ops, batch, owed, sent, refused>>
    BY <1>4 DEF CompleteSend
  <2>2. NoticeRows' = NoticeRows \ {sending}
    BY <2>1 DEF NoticeRows
  <2>3. 0 \notin batch
    BY DEF TypeInv, TypeOK
  <2>4. DeliveriesBacked'
    BY <2>1, <2>2 DEF NoticeInv, DeliveriesBacked, WireTruthful
  <2>5. NoNoticeLost'
    BY <2>1, <2>2 DEF NoticeInv, NoNoticeLost, WireTruthful
  <2>6. WireTruthful'
    BY <2>1, <2>3 DEF WireTruthful
  <2> QED BY <2>4, <2>5, <2>6 DEF NoticeInv
<1>5. CASE DeferSend
  <2>1. /\ outbox' = {n \in outbox : n.row # sending} \cup
                     {Deferred(n) : n \in {m \in outbox : m.row = sending}}
        /\ wire' = "idle" /\ sending' = 0
        /\ UNCHANGED <<ops, batch, owed, sent, refused>>
    BY <1>5 DEF DeferSend
  <2>2. \A n \in outbox : Deferred(n).row = n.row /\ Deferred(n).user = n.user
    BY DEF Deferred, TypeInv, TypeOK, Notices
  <2>3. /\ \A n \in outbox' : \E m \in outbox : m.row = n.row /\ m.user = n.user
        /\ \A m \in outbox : \E n \in outbox' : m.row = n.row
    BY <2>1, <2>2
  <2>4. /\ NoticeRows' = NoticeRows /\ NoNoticeLost'
        /\ \A n \in outbox' : \E o \in ops' : o.row = n.row /\ o.user = n.user
    BY <2>1, <2>3, SameRowsSameNotices
  <2>5. 0 \notin batch
    BY DEF TypeInv, TypeOK
  <2> QED BY <2>1, <2>4, <2>5 DEF NoticeInv, DeliveriesBacked, WireTruthful
<1>6. CASE TelegramStep
  BY <1>6 DEF TelegramStep, TelegramAccepts, TelegramRejects, TelegramFails, NoticeInv,
              DeliveriesBacked, NoNoticeLost, WireTruthful, NoticeRows
<1>7. CASE \E n \in outbox : RetryFallsDue(n)
  <2>1. PICK n \in outbox : RetryFallsDue(n)
    BY <1>7
  <2>2. /\ outbox' = (outbox \ {n}) \cup {[n EXCEPT !.due = TRUE]}
        /\ UNCHANGED <<ops, batch, sending, wire, owed, sent, refused>>
    BY <2>1 DEF RetryFallsDue
  <2>3. [n EXCEPT !.due = TRUE].row = n.row /\ [n EXCEPT !.due = TRUE].user = n.user
    BY DEF TypeInv, TypeOK, Notices
  <2>4. /\ \A k \in outbox' : \E m \in outbox : m.row = k.row /\ m.user = k.user
        /\ \A m \in outbox : \E k \in outbox' : m.row = k.row
    BY <2>2, <2>3
  <2>5. /\ NoticeRows' = NoticeRows /\ NoNoticeLost'
        /\ \A k \in outbox' : \E o \in ops' : o.row = k.row /\ o.user = k.user
    BY <2>2, <2>4, SameRowsSameNotices
  <2> QED BY <2>2, <2>5 DEF NoticeInv, DeliveriesBacked, WireTruthful
<1>8. CASE Crash
  BY <1>8 DEF Crash, NoticeInv, DeliveriesBacked, NoNoticeLost, WireTruthful, NoticeRows
<1> QED BY <1>1, <1>2, <1>3, <1>4, <1>5, <1>6, <1>7, <1>8 DEF Keeps, SenderStep

\* In every behaviour a delivery in progress finds its rows, and every notice
\* that was queued is waiting or reached Telegram.
THEOREM NoticesConsistent == Spec => []NoticeInv
<1>1. Init => NoticeInv
  BY DEF Init, NoticeInv, DeliveriesBacked, NoNoticeLost, WireTruthful
<1>2. TypeInv /\ NoticeInv /\ [Next]_vars => NoticeInv'
  <2> SUFFICES ASSUME TypeInv, NoticeInv, [Next]_vars PROVE NoticeInv'
    OBVIOUS
  <2>1. CASE \E op \in Rows, evicted \in SUBSET ops, noticed \in BOOLEAN :
               Inserts(op, evicted, noticed)
    BY <2>1, InsertsNotices
  <2>2. CASE (\E u \in Users : Rewrites(u)) \/ Recalls
    <3>1. UNCHANGED <<ops, outbox, batch, sending, wire, owed, sent, refused>>
      BY <2>2 DEF Rewrites, Recalls, database, sender, history
    <3> QED BY <3>1 DEF NoticeInv, DeliveriesBacked, NoNoticeLost, WireTruthful,
                        NoticeRows
  <2>3. CASE Keeps
    BY <2>3, KeepsNotices
  <2> QED BY <2>1, <2>2, <2>3, StepKinds DEF TypeInv
<1> QED BY <1>1, <1>2, TypeCorrect, PTL DEF Spec

\* Making room never deletes an operation whose notice is being delivered.
THEOREM DeliveriesStayBacked == Spec => []DeliveriesBacked
<1>1. NoticeInv => DeliveriesBacked
  BY DEF NoticeInv
<1> QED BY <1>1, NoticesConsistent, PTL

\* No crash, lost answer or eviction drops a queued notice.
THEOREM NoticesAreNotLost == Spec => []NoNoticeLost
<1>1. NoticeInv => NoNoticeLost
  BY DEF NoticeInv
<1> QED BY <1>1, NoticesConsistent, PTL

-----------------------------------------------------------------------------
(* The replay window.                                                      *)

\* One more element adds at most one to the size.
LEMMA AddOne ==
  ASSUME NEW S, NEW x, IsFiniteSet(S)
  PROVE  /\ IsFiniteSet(S \cup {x})
         /\ Cardinality(S \cup {x}) \in Nat
         /\ Cardinality(S \cup {x}) <= Cardinality(S) + 1
<1> DEFINE c == Cardinality(S)
           d == Cardinality(S \cup {x})
<1>1. c \in Nat
  BY FS_CardinalityType
<1>2. IsFiniteSet(S \cup {x}) /\ d = IF x \in S THEN c ELSE c + 1
  BY FS_AddElement
<1> HIDE DEF c, d
<1>3. d \in Nat /\ d <= c + 1
  BY <1>1, <1>2
<1> QED BY <1>2, <1>3 DEF c, d

\* The table is finite, each user's window within its size.
WindowInv == IsFiniteSet(ops) /\ WindowBounded

LEMMA InsertsWindow ==
  ASSUME TypeInv, WindowInv, NEW op \in Rows, NEW evicted \in SUBSET ops,
         NEW noticed \in BOOLEAN, Inserts(op, evicted, noticed)
  PROVE  WindowInv'
<1>1. /\ ops' = (ops \ evicted) \cup {op}
      /\ evicted \subseteq Window(op.user)
      /\ IF op.source \in {"telegram", "tma"} THEN evicted \in Evictions(op.user)
         ELSE evicted = {}
  BY DEF Inserts
<1>2. IsFiniteSet(ops \ evicted)
  BY FS_Subset, ops \ evicted \subseteq ops DEF WindowInv
<1>3. IsFiniteSet(ops')
  BY <1>1, <1>2, FS_AddElement
<1>4. ASSUME NEW u \in Users PROVE Cardinality(Window(u)') <= MaxOperations
  <2> DEFINE W == Window(u)
  <2>1. IsFiniteSet(W) /\ Cardinality(W) \in Nat /\ Cardinality(W) <= MaxOperations
    <3>1. W \subseteq ops
      BY DEF Window
    <3> QED BY <3>1, FS_Subset, FS_CardinalityType DEF WindowInv, WindowBounded
  <2>2. CASE u # op.user \/ op.source \notin {"telegram", "tma"}
    <3>1. Window(u)' = W
      BY <1>1, <2>2 DEF Window
    <3> QED BY <2>1, <3>1
  <2>3. CASE u = op.user /\ op.source \in {"telegram", "tma"}
    <3> DEFINE kept == W \ evicted
               slots == Cardinality(W) - MaxOperations + 1
    <3>1. Window(u)' = kept \cup {op}
      BY <1>1, <2>3 DEF Window
    <3>2. IsFiniteSet(kept) /\ Cardinality(kept) \in Nat
      BY <2>1, FS_Subset, FS_CardinalityType, kept \subseteq W
    <3>3. /\ Cardinality(kept \cup {op}) \in Nat
          /\ Cardinality(kept \cup {op}) <= Cardinality(kept) + 1
      BY <3>2, AddOne
    <3>4. IsFiniteSet(evicted) /\ Cardinality(evicted) \in Nat /\ evicted \subseteq W
      BY <1>1, <2>1, <2>3, FS_Subset, FS_CardinalityType
    <3>5. Cardinality(kept) = Cardinality(W) - Cardinality(evicted)
      <4>1. W \cap evicted = evicted
        BY <3>4
      <4> QED BY <2>1, <4>1, FS_Difference
    <3>6. evicted \in Evictions(u)
      BY <1>1, <2>3
    <3>7. CASE slots <= 0
      <4>1. Cardinality(kept) + 1 <= MaxOperations
        BY <2>1, <3>4, <3>5, <3>7, ConstantsAssumption
      <4> HIDE DEF kept
      <4> QED BY <3>1, <3>2, <3>3, <4>1, ConstantsAssumption
    <3>8. CASE ~(slots <= 0)
      <4>1. Cardinality(evicted) = slots
        BY <3>6, <3>8 DEF Evictions
      <4>2. Cardinality(kept) + 1 = MaxOperations
        BY <2>1, <3>4, <3>5, <4>1, ConstantsAssumption
      <4> HIDE DEF kept
      <4> QED BY <3>1, <3>2, <3>3, <4>2, ConstantsAssumption
    <3> QED BY <3>7, <3>8
  <2> QED BY <2>2, <2>3
<1> QED BY <1>3, <1>4 DEF WindowInv, WindowBounded

\* The replay window of every user stays within its size in every behaviour.
THEOREM WindowStaysBounded == Spec => []WindowBounded
<1>1. Init => WindowInv
  <2>1. Init => \A u \in Users : Window(u) = {}
    BY DEF Init, Window
  <2>2. MaxOperations \in Nat
    BY ConstantsAssumption
  <2>3. Init => IsFiniteSet(ops)
    BY FS_EmptySet DEF Init
  <2>4. Init => WindowBounded
    BY <2>1, <2>2, FS_EmptySet DEF WindowBounded
  <2> QED BY <2>3, <2>4 DEF WindowInv
<1>2. TypeInv /\ WindowInv /\ [Next]_vars => WindowInv'
  <2> SUFFICES ASSUME TypeInv, WindowInv, [Next]_vars PROVE WindowInv'
    OBVIOUS
  <2>1. CASE \E op \in Rows, evicted \in SUBSET ops, noticed \in BOOLEAN :
               Inserts(op, evicted, noticed)
    BY <2>1, InsertsWindow
  <2>2. CASE (\E u \in Users : Rewrites(u)) \/ Recalls \/ Keeps
    <3>1. ops' = ops
      BY <2>2, KeepsTables DEF Rewrites, Recalls, database
    <3> QED BY <3>1 DEF WindowInv, WindowBounded, Window
  <2> QED BY <2>1, <2>2, StepKinds DEF TypeInv
<1>3. WindowInv => WindowBounded
  BY DEF WindowInv
<1> QED BY <1>1, <1>2, <1>3, TypeCorrect, PTL DEF Spec

\* Both sides of retention: the window is bounded, and every delivery has its row.
THEOREM MakingRoomIsSafe == Spec => []RoomIsMade
<1>1. WindowBounded /\ DeliveriesBacked => RoomIsMade
  BY DEF RoomIsMade
<1> QED BY <1>1, WindowStaysBounded, DeliveriesStayBacked, PTL

-----------------------------------------------------------------------------
(* The books: what is recorded is what took effect.                        *)

\* The places of a row's command in a book, and the row that started the book.
PlacesOf(book, row) == {i \in DOMAIN book : book[i].row = row}
StartOf(book) == IF book # <<>> /\ book[1].command \in Resets THEN book[1].row ELSE 0

\* The recorded outcome of o is true of the book.
TrueOf(o, book) ==
  o.source \in {"telegram", "tma"} /\ o.row >= StartOf(book)
    => Cardinality(PlacesOf(book, o.row)) = (IF o.verdict = "applied" THEN 1 ELSE 0)

\* Books only name rows that were inserted, so the next row is in none of them.
BookInv ==
  /\ \A u \in Users : bank[u] # NoBank =>
       \A i \in DOMAIN bank[u].book : bank[u].book[i].row <= lastRow
  /\ \A o \in ops : TrueOf(o, bank[o.user].book)

LEMMA BookRows ==
  ASSUME NEW b \in BankStates, NEW i \in DOMAIN b.book
  PROVE  b.book \in Seq(Entries) /\ b.book[i].row \in Nat
<1>1. b.book \in Seq(Entries)
  BY DEF BankStates
<1>2. b.book[i] \in Entries
  <2> DEFINE book == b.book
  <2>1. book \in Seq(Entries) /\ i \in DOMAIN book
    BY <1>1
  <2> HIDE DEF book
  <2>2. book[i] \in Entries
    BY <2>1
  <2> QED BY <2>2 DEF book
<1> QED BY <1>1, <1>2 DEF Entries

\* Entering a new row for an outcome makes that outcome true of the book, and leaves
\* the outcomes of the rows since the start of the book as true as they were.
LEMMA BookWrites ==
  ASSUME NEW old \in BankStates, NEW b \in BankStates, NEW row \in Nat \ {0},
         NEW command \in Commands, NEW verdict \in Verdicts,
         \A i \in DOMAIN old.book : old.book[i].row < row,
         Books(row, command, verdict, old, b)
  PROVE  /\ \A i \in DOMAIN b.book : b.book[i].row <= row
         /\ Cardinality(PlacesOf(b.book, row)) = (IF verdict = "applied" THEN 1 ELSE 0)
         /\ \A r \in Nat : r < row /\ r >= StartOf(b.book) =>
              r >= StartOf(old.book) /\ PlacesOf(b.book, r) = PlacesOf(old.book, r)
<1> DEFINE e == Entry(row, command)
           book == old.book
<1>1. /\ book \in Seq(Entries)
      /\ \A i \in DOMAIN book : book[i].row \in Nat /\ book[i].row < row
  <2>1. book \in Seq(Entries)
    BY DEF BankStates
  <2> QED BY <2>1, BookRows
<1>2. e.row = row /\ e.command = command
  BY DEF Entry
<1>3. CASE verdict # "applied"
  <2>1. b.book = book
    BY <1>3 DEF Books
  <2>2. PlacesOf(book, row) = {}
    BY <1>1 DEF PlacesOf
  <2> QED BY <1>1, <1>3, <2>1, <2>2, FS_EmptySet
<1>4. CASE verdict = "applied" /\ command \in Resets
  <2>1. b.book = <<e>>
    BY <1>4 DEF Books
  <2> HIDE DEF e
  <2>2. PlacesOf(b.book, row) = {1}
    BY <1>2, <2>1 DEF PlacesOf
  <2>3. StartOf(b.book) = row
    BY <1>2, <1>4, <2>1 DEF StartOf
  <2>4. \A i \in DOMAIN b.book : b.book[i].row <= row
    BY <1>2, <2>1
  <2> QED BY <1>4, <2>2, <2>3, <2>4, FS_Singleton
<1>5. CASE verdict = "applied" /\ command \notin Resets
  <2>1. b.book = Append(book, e)
    BY <1>5 DEF Books
  <2> HIDE DEF e, book
  <2>2. /\ DOMAIN b.book = 1..Len(book) + 1 /\ DOMAIN book = 1..Len(book)
        /\ Len(book) \in Nat
        /\ b.book[Len(book) + 1] = e
        /\ \A i \in DOMAIN book : b.book[i] = book[i]
    BY <1>1, <2>1
  <2>3. PlacesOf(b.book, row) = {Len(book) + 1}
    BY <1>1, <1>2, <2>2 DEF PlacesOf
  <2>4. \A r \in Nat : r < row => PlacesOf(b.book, r) = PlacesOf(book, r)
    BY <1>1, <1>2, <2>2 DEF PlacesOf
  <2>5. StartOf(b.book) = StartOf(book)
    <3>1. CASE book = <<>>
      BY <1>2, <1>5, <2>1, <3>1 DEF StartOf
    <3>2. CASE book # <<>>
      <4>1. b.book # <<>> /\ b.book[1] = book[1]
        BY <1>1, <2>1, <3>2
      <4> QED BY <3>2, <4>1 DEF StartOf
    <3> QED BY <3>1, <3>2
  <2>6. \A i \in DOMAIN b.book : b.book[i].row <= row
    BY <1>1, <1>2, <2>2
  <2> QED BY <1>5, <2>3, <2>4, <2>5, <2>6, FS_Singleton DEF book
<1> QED BY <1>3, <1>4, <1>5

LEMMA InsertsBooks ==
  ASSUME TypeInv, RowInv, BookInv, NEW op \in Rows, NEW evicted \in SUBSET ops,
         NEW noticed \in BOOLEAN, Inserts(op, evicted, noticed)
  PROVE  BookInv'
<1>1. /\ ops' = (ops \ evicted) \cup {op}
      /\ op.row = lastRow + 1 /\ lastRow' = lastRow + 1
  BY DEF Inserts
<1>2. PICK b \in BankStates :
        /\ bank' = [bank EXCEPT ![op.user] = b]
        /\ IF op.source = "import" THEN Opens(op.user, b) ELSE Follows(op.user, b)
        /\ op.source = "system" => b.book = bank[op.user].book
        /\ op.source \in {"telegram", "tma"} =>
             Books(op.row, op.command, op.verdict, bank[op.user], b)
  BY DEF Inserts
<1>3. /\ op.user \in Users /\ op.source \in Sources /\ op.verdict \in Verdicts
      /\ op.row \in Nat \ {0} /\ lastRow \in Nat
      /\ \A o \in ops : o.user \in Users /\ o.row \in Nat /\ o.row <= lastRow
      /\ \A u \in Users : bank[u] # NoBank => bank[u] \in BankStates
  BY DEF TypeInv, TypeOK, Rows, RowInv, RowSerials
<1>4. bank'[op.user] = b /\ \A u \in Users \ {op.user} : bank'[u] = bank[u]
  BY <1>2, <1>3 DEF TypeInv, TypeOK
<1>5. /\ \A i \in DOMAIN b.book : b.book[i].row <= lastRow'
      /\ TrueOf(op, b.book)
      /\ \A o \in ops : o.user = op.user => TrueOf(o, b.book)
  <2>1. CASE op.source = "import"
    <3>1. b.book = <<>> /\ \A o \in ops : o.user # op.user
      BY <1>2, <2>1 DEF Opens, RowInv, RowsFollowRevisions
    <3> QED BY <2>1, <3>1 DEF TrueOf
  <2>2. CASE op.source # "import"
    <3> DEFINE old == bank[op.user]
    <3>1. old \in BankStates /\ \A i \in DOMAIN old.book : old.book[i].row <= lastRow
      BY <1>2, <1>3, <2>2 DEF Follows, BookInv
    <3>2. \A i \in DOMAIN old.book : old.book[i].row \in Nat
      BY <3>1, BookRows
    <3>3. \A o \in ops : o.user = op.user => TrueOf(o, old.book)
      BY DEF BookInv
    <3>4. CASE op.source = "system"
      <4>1. b.book = old.book
        BY <1>2, <3>4
      <4> QED BY <1>1, <1>3, <3>1, <3>2, <3>3, <3>4, <4>1 DEF TrueOf
    <3>5. CASE op.source \in {"telegram", "tma"}
      <4>1. op.command \in Commands
        BY <1>2, <3>5 DEF Books
      <4> HIDE DEF old
      <4>2. \A i \in DOMAIN old.book : old.book[i].row < op.row
        BY <1>1, <1>3, <3>1, <3>2
      <4>3. /\ \A i \in DOMAIN b.book : b.book[i].row <= op.row
            /\ Cardinality(PlacesOf(b.book, op.row))
                 = (IF op.verdict = "applied" THEN 1 ELSE 0)
            /\ \A r \in Nat : r < op.row /\ r >= StartOf(b.book) =>
                 r >= StartOf(old.book) /\ PlacesOf(b.book, r) = PlacesOf(old.book, r)
        BY <1>2, <1>3, <3>1, <3>5, <4>1, <4>2, BookWrites DEF old
      <4>4. \A o \in ops : o.user = op.user => TrueOf(o, b.book)
        BY <1>1, <1>3, <3>3, <4>3 DEF TrueOf
      <4> QED BY <1>1, <4>3, <4>4 DEF TrueOf
    <3> QED BY <1>3, <2>2, <3>4, <3>5 DEF Sources
  <2> QED BY <2>1, <2>2
<1>6. ASSUME NEW u \in Users, bank'[u] # NoBank
      PROVE  \A i \in DOMAIN bank'[u].book : bank'[u].book[i].row <= lastRow'
  <2>1. CASE u = op.user
    BY <1>4, <1>5, <2>1
  <2>2. CASE u # op.user
    <3>1. bank'[u] = bank[u] /\ bank[u] \in BankStates
      BY <1>3, <1>4, <1>6, <2>2
    <3>2. \A i \in DOMAIN bank[u].book : bank[u].book[i].row \in Nat
      BY <3>1, BookRows
    <3>3. \A i \in DOMAIN bank[u].book : bank[u].book[i].row <= lastRow
      BY <1>6, <3>1 DEF BookInv
    <3> QED BY <1>1, <1>3, <3>1, <3>2, <3>3
  <2> QED BY <2>1, <2>2
<1>7. ASSUME NEW o \in ops' PROVE TrueOf(o, bank'[o.user].book)
  <2>1. CASE o = op
    BY <1>4, <1>5, <2>1
  <2>2. CASE o \in ops /\ o.user = op.user
    BY <1>4, <1>5, <2>2
  <2>3. CASE o \in ops /\ o.user # op.user
    <3>1. bank'[o.user] = bank[o.user]
      BY <1>3, <1>4, <2>3
    <3> QED BY <2>3, <3>1 DEF BookInv
  <2> QED BY <1>1, <1>7, <2>1, <2>2, <2>3
<1> QED BY <1>6, <1>7 DEF BookInv

LEMMA RewritesBooks ==
  ASSUME TypeInv, RowInv, BookInv, NEW user \in Users, Rewrites(user)
  PROVE  BookInv'
<1>1. PICK b \in BankStates : /\ bank' = [bank EXCEPT ![user] = b]
                              /\ b.book = bank[user].book
                              /\ bank[user] # NoBank
  BY DEF Rewrites, Follows
<1>2. ops' = ops /\ lastRow' = lastRow
  BY DEF Rewrites
<1>3. bank'[user] = b /\ \A u \in Users \ {user} : bank'[u] = bank[u]
  BY <1>1 DEF TypeInv, TypeOK
<1>4. \A o \in ops : o.user \in Users
  BY DEF TypeInv, TypeOK, Rows
<1>5. /\ \A u \in Users : bank'[u] # NoBank => bank[u] # NoBank
      /\ \A u \in Users : bank'[u].book = bank[u].book
  BY <1>1, <1>3
<1> QED BY <1>2, <1>4, <1>5 DEF BookInv, TrueOf

\* In every behaviour the books name only inserted rows, and the recorded outcomes
\* are true of them.
THEOREM BooksConsistent == Spec => []BookInv
<1>1. Init => BookInv
  BY DEF Init, BookInv
<1>2. TypeInv /\ RowInv /\ BookInv /\ [Next]_vars => BookInv'
  <2> SUFFICES ASSUME TypeInv, RowInv, BookInv, [Next]_vars PROVE BookInv'
    OBVIOUS
  <2>1. CASE \E op \in Rows, evicted \in SUBSET ops, noticed \in BOOLEAN :
               Inserts(op, evicted, noticed)
    BY <2>1, InsertsBooks
  <2>2. CASE \E u \in Users : Rewrites(u)
    BY <2>2, RewritesBooks
  <2>3. CASE Recalls \/ Keeps
    <3>1. UNCHANGED <<bank, ops, lastRow>>
      BY <2>3, KeepsTables DEF Recalls, database
    <3> QED BY <3>1 DEF BookInv, TrueOf
  <2> QED BY <2>1, <2>2, <2>3, StepKinds DEF TypeInv
<1> QED BY <1>1, <1>2, TypeCorrect, RowsConsistent, PTL DEF Spec

\* Since the last reset of the demo, an operation recorded as applied took effect
\* exactly once and one recorded as unchanged or rejected never did.
THEOREM OutcomesAreTrue == Spec => []OutcomesMatchLedger
<1>1. BookInv => OutcomesMatchLedger
  BY DEF BookInv, OutcomesMatchLedger, TrueOf, StartOf, PlacesOf
<1> QED BY <1>1, BooksConsistent, PTL

-----------------------------------------------------------------------------
(* What the refinement mapping shows of a state, a row and a window.       *)

SeenBook(book) == [i \in DOMAIN book |-> book[i].command]

SeenBank(b) ==
  IF b = NoBank THEN NoBank ELSE [origin |-> b.origin, book |-> SeenBook(b.book)]

SeenRow(o) ==
  [user |-> o.user, key |-> <<o.source, o.key>>, command |-> o.command,
   verdict |-> o.verdict]

SeenRows(S) == {SeenRow(o) : o \in S}

SeenLedger == [u \in Users |-> SeenBank(bank[u])]
SeenMemory == [u \in Users |-> SeenRows(Window(u))]
SeenTold == SeenRows(answers)

\* The commands of a book, one entry longer.
LEMMA SeenAppend ==
  ASSUME NEW book \in Seq(Entries), NEW row \in Nat \ {0}, NEW command \in Commands
  PROVE  SeenBook(Append(book, Entry(row, command))) = Append(SeenBook(book), command)
<1> DEFINE e == Entry(row, command)
           longer == Append(book, e)
           seen == [i \in DOMAIN book |-> book[i].command]
           n == Len(book) + 1
<1>1. e \in Entries /\ e.command = command
  BY DEF Entry, Entries
<1> HIDE DEF e, longer
<1>2. /\ Len(book) \in Nat /\ DOMAIN book = 1..Len(book)
      /\ DOMAIN longer = 1..n
      /\ longer[n] = e /\ \A i \in DOMAIN book : longer[i] = book[i]
  BY <1>1 DEF longer
<1>3. \A i \in DOMAIN book : book[i].command \in Commands
  <2>1. \A i \in DOMAIN book : book[i] \in Entries
    OBVIOUS
  <2> QED BY <2>1 DEF Entries
<1>4. /\ seen \in Seq(Commands) /\ Len(seen) = Len(book)
      /\ DOMAIN seen = DOMAIN book
      /\ \A i \in DOMAIN book : seen[i] = book[i].command
  BY <1>2, <1>3
<1> DEFINE more == Append(seen, command)
           all == [i \in DOMAIN longer |-> longer[i].command]
<1> HIDE DEF seen
<1>5. /\ DOMAIN more = 1..n /\ more[n] = command
      /\ \A i \in DOMAIN seen : more[i] = seen[i]
      /\ more \in Seq(Commands)
  BY <1>2, <1>4
<1>6. \A i \in 1..n : longer[i].command = more[i]
  BY <1>1, <1>2, <1>4, <1>5
<1>7. all = [i \in 1..n |-> more[i]]
  BY <1>2, <1>6
<1>8. more = [i \in 1..n |-> more[i]]
  <2> HIDE DEF more
  <2>1. more \in [1..n -> Commands]
    BY <1>5
  <2> QED BY <2>1
<1> QED BY <1>7, <1>8 DEF seen, longer, e, SeenBook

\* A state with no entries and a state with one, as they are seen.
LEMMA SeenShort ==
  ASSUME NEW b \in BankStates
  PROVE  /\ SeenBank(b) # NoBank
         /\ b.book = <<>> => SeenBank(b) = [origin |-> b.origin, book |-> <<>>]
         /\ \A row, command : b.book = <<Entry(row, command)>> =>
              SeenBank(b) = [origin |-> b.origin, book |-> <<command>>]
<1>1. SeenBank(b) = [origin |-> b.origin, book |-> SeenBook(b.book)]
  BY ConstantsAssumption DEF SeenBank
<1>2. SeenBank(b) # NoBank
  <2>1. b.origin \in Snapshots \cup {"demo"} /\ b.book \in Seq(Entries)
    BY DEF BankStates
  <2> DEFINE seen == SeenBook(b.book)
  <2>2. seen \in Seq(Commands)
    <3> DEFINE book == b.book
    <3> HIDE DEF book
    <3>1. book \in Seq(Entries)
      BY <2>1 DEF book
    <3>2. \A i \in DOMAIN book : book[i] \in Entries
      BY <3>1
    <3>3. \A i \in DOMAIN book : book[i].command \in Commands
      BY <3>2 DEF Entries
    <3>4. DOMAIN book = 1..Len(book) /\ Len(book) \in Nat
      BY <3>1
    <3>5. [i \in DOMAIN book |-> book[i].command] \in Seq(Commands)
      BY <3>3, <3>4
    <3> QED BY <3>5 DEF book, SeenBook
  <2> HIDE DEF seen
  <2>3. [origin |-> b.origin, book |-> seen] \in
          [origin : Snapshots \cup {"demo"}, book : Seq(Commands)]
    BY <2>1, <2>2
  <2>4. NoBank \notin [origin : Snapshots \cup {"demo"}, book : Seq(Commands)]
    BY ConstantsAssumption
  <2> QED BY <1>1, <2>3, <2>4 DEF seen
<1>3. b.book = <<>> => SeenBook(b.book) = <<>>
  BY DEF SeenBook
<1>4. ASSUME NEW row, NEW command, b.book = <<Entry(row, command)>>
      PROVE  SeenBook(b.book) = <<command>>
  BY <1>4 DEF Entry, SeenBook
<1> QED BY <1>1, <1>2, <1>3, <1>4

-----------------------------------------------------------------------------
(* The steps of RetrySafeLedger, in terms of what is seen.                 *)

LEMMA InitIs == SeenLedger = [u \in Users |-> NoBank] /\ SeenTold = {}
                /\ SeenMemory = [u \in Users |-> {}] => Promise!LInit
BY DEF Promise!LInit, SeenLedger, SeenMemory, SeenTold, SeenBank,
         SeenBook, SeenRows, SeenRow

LEMMA OpenIs ==
  ASSUME NEW user \in Users, SeenLedger[user] = NoBank, NEW s \in Snapshots,
         SeenLedger' = [SeenLedger EXCEPT ![user] = [origin |-> s, book |-> <<>>]],
         UNCHANGED <<SeenMemory, SeenTold>>
  PROVE  Promise!LNext
<1>1. Promise!Open(user)
  BY DEF Promise!Open, SeenLedger, SeenMemory, SeenTold, SeenBank,
         SeenBook, SeenRows, SeenRow
<1> QED BY <1>1 DEF Promise!LNext

LEMMA RecallIs ==
  ASSUME NEW user \in Users, NEW m \in SeenMemory[user],
         SeenTold' = SeenTold \cup {m}, UNCHANGED <<SeenLedger, SeenMemory>>
  PROVE  Promise!LNext
<1>1. Promise!Recall(user)
  BY DEF Promise!Recall, SeenLedger, SeenMemory, SeenTold, SeenBank,
         SeenBook, SeenRows, SeenRow
<1> QED BY <1>1 DEF Promise!LNext

\* What a command does to a ledger.
SeenPerformed(l, command) ==
  IF command \in Resets THEN [origin |-> "demo", book |-> <<command>>]
  ELSE [l EXCEPT !.book = Append(@, command)]

LEMMA PerformIs ==
  ASSUME NEW user \in Users, NEW key, NEW command, NEW verdict,
         SeenLedger[user] # NoBank,
         \A n \in SeenMemory[user] : n.key # key,
         SeenLedger' = IF verdict = "applied"
                       THEN [SeenLedger EXCEPT ![user] = SeenPerformed(@, command)]
                       ELSE SeenLedger,
         NEW kept \in SUBSET SeenMemory[user],
         NEW m,
         m = [user |-> user, key |-> key, command |-> command, verdict |-> verdict],
         SeenMemory' = [SeenMemory EXCEPT ![user] = kept \cup {m}],
         SeenTold' = SeenTold \cup {m}
  PROVE  Promise!LNext
<1>1. Promise!Perform(user, key, command, verdict)
  BY DEF Promise!Perform, Promise!Performed, Promise!Memory, SeenPerformed, SeenLedger,
         SeenMemory, SeenTold, SeenBank,
         SeenBook, SeenRows, SeenRow
<1>2. SeenMemory'[user] = kept \cup {m}
  BY DEF SeenMemory
<1>3. m \in SeenMemory'[user] /\ m.key = key /\ m.command = command
      /\ m.verdict = verdict
  BY <1>2
<1>4. \E n \in SeenMemory'[user] : Promise!Perform(user, n.key, n.command, n.verdict)
  BY <1>1, <1>3
<1> QED BY <1>4 DEF Promise!LNext, SeenMemory, SeenRows, SeenRow

LEMMA StutterIs ==
  ASSUME UNCHANGED <<SeenLedger, SeenMemory, SeenTold>>
  PROVE  UNCHANGED Promise!lvars
BY DEF Promise!lvars, SeenLedger, SeenMemory, SeenTold, SeenBank,
         SeenBook, SeenRows, SeenRow

-----------------------------------------------------------------------------
(* Every step of the authority is one of them or is not seen.              *)

\* A written state is seen under its user only.
LEMMA WriteSeen ==
  ASSUME TypeInv, NEW user \in Users, NEW b, bank' = [bank EXCEPT ![user] = b]
  PROVE  SeenLedger' = [SeenLedger EXCEPT ![user] = SeenBank(b)]
<1>1. bank'[user] = b /\ \A u \in Users \ {user} : bank'[u] = bank[u]
  BY DEF TypeInv, TypeOK
<1>2. \A u \in Users : SeenBank(bank'[u]) = IF u = user THEN SeenBank(b)
                                           ELSE SeenBank(bank[u])
  BY <1>1
<1>3. SeenLedger' = [u \in Users |-> SeenBank(bank'[u])]
  BY DEF SeenLedger, SeenBank
<1>4. [SeenLedger EXCEPT ![user] = SeenBank(b)] =
        [u \in Users |-> IF u = user THEN SeenBank(b) ELSE SeenBank(bank[u])]
  BY DEF SeenLedger
<1> QED BY <1>2, <1>3, <1>4

\* States with the same origin and book are seen as the same.
LEMMA SameSeen ==
  ASSUME NEW b \in BankStates, NEW c \in BankStates, b.origin = c.origin, b.book = c.book
  PROVE  SeenBank(b) = SeenBank(c)
BY ConstantsAssumption DEF SeenBank

\* Only the window of the row's user changes, and only by a command.
LEMMA WindowsSeen ==
  ASSUME TypeInv, NEW op \in Rows, NEW evicted \in SUBSET ops, NEW noticed \in BOOLEAN,
         Inserts(op, evicted, noticed)
  PROVE  IF op.source \in {"telegram", "tma"}
         THEN SeenMemory' = [SeenMemory EXCEPT ![op.user] =
                SeenRows(Window(op.user) \ evicted) \cup {SeenRow(op)}]
         ELSE SeenMemory' = SeenMemory
<1>1. /\ ops' = (ops \ evicted) \cup {op}
      /\ evicted \subseteq Window(op.user)
      /\ op.source \notin {"telegram", "tma"} => evicted = {}
  BY DEF Inserts
<1>2. \A u \in Users : u # op.user => Window(u)' = Window(u)
  BY <1>1 DEF Window
<1>3. Window(op.user)' = IF op.source \in {"telegram", "tma"}
                         THEN (Window(op.user) \ evicted) \cup {op}
                         ELSE Window(op.user)
  BY <1>1 DEF Window
<1>4. SeenMemory' = [u \in Users |-> SeenRows(Window(u)')]
  BY DEF SeenMemory, SeenRows, SeenRow
<1>5. SeenRows((Window(op.user) \ evicted) \cup {op}) =
        SeenRows(Window(op.user) \ evicted) \cup {SeenRow(op)}
  BY DEF SeenRows
<1>6. op.user \in Users
  BY DEF Rows
<1> QED BY <1>2, <1>3, <1>4, <1>5, <1>6 DEF SeenMemory

\* The effect of a command on the ledger that is seen.
LEMMA BooksSeen ==
  ASSUME NEW old \in BankStates, NEW b \in BankStates, NEW row \in Nat \ {0},
         NEW command, NEW verdict, Books(row, command, verdict, old, b)
  PROVE  SeenBank(b) = IF verdict = "applied"
                       THEN SeenPerformed(SeenBank(old), command)
                       ELSE SeenBank(old)
<1>1. CASE verdict # "applied"
  BY <1>1, SameSeen DEF Books
<1>2. CASE verdict = "applied" /\ command \in Resets
  BY <1>2, SeenShort DEF Books, SeenPerformed
<1>3. CASE verdict = "applied" /\ command \notin Resets
  <2>1. /\ b.origin = old.origin
        /\ b.book = Append(old.book, Entry(row, command)) /\ command \in Commands
    BY <1>3 DEF Books
  <2>2. old.book \in Seq(Entries)
    BY DEF BankStates
  <2>3. SeenBook(b.book) = Append(SeenBook(old.book), command)
    <3>1. SeenBook(Append(old.book, Entry(row, command)))
            = Append(SeenBook(old.book), command)
      BY <2>1, <2>2, SeenAppend
    <3> QED BY <2>1, <3>1
  <2>4. b # NoBank /\ old # NoBank
    BY ConstantsAssumption
  <2> QED BY <1>3, <2>1, <2>3, <2>4 DEF SeenBank, SeenPerformed
<1> QED BY <1>1, <1>2, <1>3

LEMMA InsertsImplements ==
  ASSUME TypeInv, NEW op \in Rows, NEW evicted \in SUBSET ops, NEW noticed \in BOOLEAN,
         Inserts(op, evicted, noticed)
  PROVE  [Promise!LNext]_(Promise!lvars)
<1>1. PICK b \in BankStates :
        /\ bank' = [bank EXCEPT ![op.user] = b]
        /\ IF op.source = "import" THEN Opens(op.user, b) ELSE Follows(op.user, b)
        /\ op.source = "system" => /\ b.origin = bank[op.user].origin
                                   /\ b.book = bank[op.user].book
        /\ op.source \in {"telegram", "tma"} =>
             /\ RowOf(op.user, op.source, op.key) = {}
             /\ Books(op.row, op.command, op.verdict, bank[op.user], b)
  BY DEF Inserts
<1>2. op.user \in Users /\ op.row \in Nat \ {0} /\ op.source \in Sources
  BY DEF Rows
<1>3. SeenLedger' = [SeenLedger EXCEPT ![op.user] = SeenBank(b)]
  BY <1>1, <1>2, WriteSeen
<1>4. SeenLedger[op.user] = SeenBank(bank[op.user])
  BY <1>2 DEF SeenLedger
<1>5. CASE op.source = "import"
  <2>1. /\ SeenLedger[op.user] = NoBank
        /\ b.origin \in Snapshots /\ SeenBank(b) = [origin |-> b.origin, book |-> <<>>]
    BY <1>1, <1>4, <1>5, SeenShort DEF Opens, SeenBank
  <2>2. SeenMemory' = SeenMemory
    BY <1>5, WindowsSeen
  <2>3. SeenTold' = SeenTold
    BY <1>5 DEF Inserts, SeenTold, SeenRows, SeenRow
  <2> QED BY <1>2, <1>3, <2>1, <2>2, <2>3, OpenIs
<1>6. CASE op.source = "system"
  <2>1. bank[op.user] \in BankStates
    BY <1>1, <1>2, <1>6 DEF Follows, TypeInv, TypeOK
  <2>2. SeenBank(b) = SeenBank(bank[op.user])
    BY <1>1, <1>6, <2>1, SameSeen
  <2>3. SeenLedger' = SeenLedger
    BY <1>3, <1>4, <2>2 DEF SeenLedger
  <2>4. SeenMemory' = SeenMemory
    BY <1>6, WindowsSeen
  <2>5. SeenTold' = SeenTold
    BY <1>6 DEF Inserts, SeenTold, SeenRows, SeenRow
  <2> QED BY <2>3, <2>4, <2>5, StutterIs
<1>7. CASE op.source \in {"telegram", "tma"}
  <2> DEFINE key == <<op.source, op.key>>
             kept == SeenRows(Window(op.user) \ evicted)
             m == [user |-> op.user, key |-> key, command |-> op.command,
                   verdict |-> op.verdict]
  <2>1. bank[op.user] \in BankStates /\ bank[op.user] # NoBank
    BY <1>1, <1>2, <1>7 DEF Follows, TypeInv, TypeOK
  <2>2. SeenLedger[op.user] # NoBank
    BY <1>4, <2>1, SeenShort
  <2>3. SeenBank(b) = IF op.verdict = "applied"
                      THEN SeenPerformed(SeenBank(bank[op.user]), op.command)
                      ELSE SeenBank(bank[op.user])
    BY <1>1, <1>2, <1>7, <2>1, BooksSeen
  <2>4. SeenLedger' = IF op.verdict = "applied"
                      THEN [SeenLedger EXCEPT ![op.user] = SeenPerformed(@, op.command)]
                      ELSE SeenLedger
    BY <1>2, <1>3, <1>4, <2>3 DEF SeenLedger
  <2>5. \A n \in SeenMemory[op.user] : n.key # key
    BY <1>1, <1>2, <1>7 DEF SeenMemory, SeenRows, SeenRow, Window, RowOf
  <2>6. kept \in SUBSET SeenMemory[op.user]
    BY <1>2 DEF SeenMemory, SeenRows
  <2>7. m = SeenRow(op)
    BY DEF SeenRow
  <2>8. SeenMemory' = [SeenMemory EXCEPT ![op.user] = kept \cup {m}]
    BY <1>7, <2>7, WindowsSeen
  <2>9. SeenTold' = SeenTold \cup {m}
    <3>1. answers' = answers \cup {op}
      BY <1>7 DEF Inserts
    <3>2. SeenTold' = SeenRows(answers \cup {op})
      BY <3>1 DEF SeenTold, SeenRows, SeenRow
    <3> QED BY <2>7, <3>2 DEF SeenTold, SeenRows
  <2> HIDE DEF key, kept, m
  <2>10. m = [user |-> op.user, key |-> key, command |-> op.command,
              verdict |-> op.verdict]
    BY DEF m
  <2> QED BY <1>2, <2>2, <2>4, <2>5, <2>6, <2>8, <2>9, <2>10, PerformIs
<1> QED BY <1>2, <1>5, <1>6, <1>7 DEF Sources

LEMMA RewritesImplements ==
  ASSUME TypeInv, NEW user \in Users, Rewrites(user)
  PROVE  [Promise!LNext]_(Promise!lvars)
<1>1. PICK b \in BankStates :
        /\ bank' = [bank EXCEPT ![user] = b] /\ bank[user] # NoBank
        /\ b.origin = bank[user].origin /\ b.book = bank[user].book
  BY DEF Rewrites, Follows
<1>2. bank[user] \in BankStates
  BY <1>1 DEF TypeInv, TypeOK
<1>3. SeenBank(b) = SeenBank(bank[user])
  BY <1>1, <1>2, SameSeen
<1>4. SeenLedger' = [SeenLedger EXCEPT ![user] = SeenBank(b)]
  BY <1>1, WriteSeen
<1>5. SeenLedger' = SeenLedger
  BY <1>3, <1>4 DEF SeenLedger
<1>6. UNCHANGED <<SeenMemory, SeenTold>>
  BY DEF Rewrites, history, SeenMemory, SeenTold, SeenRows, SeenRow, Window
<1> QED BY <1>5, <1>6, StutterIs

LEMMA RecallsImplements ==
  ASSUME TypeInv, Recalls
  PROVE  [Promise!LNext]_(Promise!lvars)
<1>1. PICK o \in ops : o.source \in {"telegram", "tma"} /\ answers' = answers \cup {o}
  BY DEF Recalls
<1>2. o.user \in Users
  BY DEF TypeInv, TypeOK, Rows
<1>3. SeenRow(o) \in SeenMemory[o.user]
  BY <1>1, <1>2 DEF SeenMemory, SeenRows, Window
<1>4. SeenTold' = SeenTold \cup {SeenRow(o)}
  <2>1. SeenTold' = SeenRows(answers \cup {o})
    BY <1>1 DEF SeenTold, SeenRows, SeenRow
  <2> QED BY <2>1 DEF SeenTold, SeenRows
<1>5. UNCHANGED <<SeenLedger, SeenMemory>>
  BY DEF Recalls, database, SeenLedger, SeenMemory, SeenBank, SeenBook, SeenRows,
         SeenRow, Window
<1> QED BY <1>2, <1>3, <1>4, <1>5, RecallIs

\* The authority implements RetrySafeLedger: a command takes effect, is remembered
\* and is answered at once, a remembered command is never performed again, and every
\* answer comes from memory, whatever the tables, notices, refreshes and crashes do.
THEOREM AuthorityIsRetrySafe == Spec => RetrySafe
<1>1. Init => Promise!LInit
  <2> SUFFICES ASSUME Init PROVE Promise!LInit
    OBVIOUS
  <2>1. SeenLedger = [u \in Users |-> NoBank]
    BY DEF Init, SeenLedger, SeenBank
  <2>2. SeenTold = {} /\ SeenMemory = [u \in Users |-> {}]
    BY DEF Init, SeenTold, SeenMemory, SeenRows, Window
  <2> QED BY <2>1, <2>2, InitIs
<1>2. TypeInv /\ [Next]_vars => [Promise!LNext]_(Promise!lvars)
  <2> SUFFICES ASSUME TypeInv, [Next]_vars PROVE [Promise!LNext]_(Promise!lvars)
    OBVIOUS
  <2>1. CASE \E op \in Rows, evicted \in SUBSET ops, noticed \in BOOLEAN :
               Inserts(op, evicted, noticed)
    BY <2>1, InsertsImplements
  <2>2. CASE \E u \in Users : Rewrites(u)
    BY <2>2, RewritesImplements
  <2>3. CASE Recalls
    BY <2>3, RecallsImplements
  <2>4. CASE Keeps
    <3>1. UNCHANGED <<bank, ops, answers>>
      BY <2>4, KeepsTables
    <3>2. UNCHANGED <<SeenLedger, SeenMemory, SeenTold>>
      BY <3>1 DEF SeenLedger, SeenMemory, SeenTold, SeenBank, SeenBook, SeenRows,
         SeenRow, Window
    <3> QED BY <3>2, StutterIs
  <2> QED BY <2>1, <2>2, <2>3, <2>4, StepKinds DEF TypeInv
<1> QED BY <1>1, <1>2, TypeCorrect, PTL DEF Spec, RetrySafe, Promise!LSpec
=============================================================================
