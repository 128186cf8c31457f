---------------------------- MODULE BankAuthority ----------------------------
(***************************************************************************)
(* The authoritative bank of the Telegram service: the SQLite tables       *)
(* bank_states, bank_operations and bank_outbox of bot/repository.ts, the  *)
(* service that drives them (bot/bank-service.ts) and the notice sender    *)
(* (flushBankOutbox of bot/bank-flow.ts).                                  *)
(*                                                                         *)
(* Every repository method is one synchronous BEGIN IMMEDIATE transaction  *)
(* of one process, so it is one step here; a failed transaction rolls back *)
(* and is a step that changes nothing.  What takes several steps is what   *)
(* awaits: the exchange-rate provider and the Telegram API.                *)
(*                                                                         *)
(* What a command does to the money is left to the Ledger module.  Here a  *)
(* bank state is the sequence of the commands that took effect (its book), *)
(* the number of calendar events materialised into it and the version of   *)
(* its exchange rates; which verdict the domain returns is free.           *)
(***************************************************************************)
EXTENDS Integers, Sequences, FiniteSets

CONSTANTS
  Users,          \* canonical Telegram IDs
  Mutations,      \* IDs a Mini App draws: import IDs and clientMutationIds
  Updates,        \* Telegram update IDs
  Commands,       \* typed commands; equal commands have equal canonical hashes
  Resets,         \* the commands that are reset_demo
  Resumes,        \* the commands that are resume_recurring
  Snapshots,      \* device snapshots offered for import
  MaxOperations,  \* maxBankOperationsPerUser, 8192 in production
  MaxAttempts,    \* the ceiling of bank_outbox.attempts, 31 in production
  NoBank,         \* the user has no row in bank_states
  MaxRows,        \* bound: rows ever inserted into bank_operations
  MaxCalendar,    \* bound: calendar events (interest days, occurrences)
  MaxMarket,      \* bound: exchange-rate publications
  MaxCrashes      \* bound: crashes of the service process

\* Rows are named by the serial of their insertion.  Their SQLite ids are
\* max(id) + 1, so they order the stored rows the same way; an id may return only
\* after its row is gone, and what holds an id across an await holds a protected
\* row (DeliveriesBacked).

\* A canonical state and its revision.  origin stands for what an import or a
\* rebuilt demo brought, book for the commands that took effect since.
Entry(row, command) == [row |-> row, command |-> command]
Entries == [row : Nat \ {0}, command : Commands]
BankStates ==
  [origin : Snapshots \cup {"demo"}, book : Seq(Entries), accrued : Nat,
   rates : Nat, revision : Nat \ {0}]

ASSUME ConstantsAssumption ==
  /\ Resets \subseteq Commands /\ Resumes \subseteq Commands \ Resets
  /\ MaxOperations \in Nat \ {0}
  /\ MaxAttempts \in Nat \ {0}
  /\ MaxRows \in Nat /\ MaxCalendar \in Nat /\ MaxMarket \in Nat
  /\ MaxCrashes \in Nat
  /\ NoBank \notin BankStates
  /\ NoBank \notin [origin : Snapshots \cup {"demo"}, book : Seq(Commands)]

VARIABLES
  ledgerMode,  \* service_state.ledger_mode
  bank,        \* bank_states: the state and revision of each user
  ops,         \* bank_operations: the set of its rows
  outbox,      \* bank_outbox: the set of its rows
  lastRow,     \* rows ever inserted into bank_operations: the serial of the newest
  refreshing,  \* users with a /bank-rates request awaiting the provider
  batch,       \* rows listed by the running flushBankOutbox, not yet tried
  sending,     \* row whose sendMessage is awaited, or 0
  wire,        \* what Telegram did with it
  calendar,    \* calendar events that fell due so far
  market,      \* newest published exchange-rate version
  crashes,     \* crashes so far
  answers,     \* history: the answers given to command requests
  owed,        \* history: operations whose notice was queued
  sent,        \* Telegram side: operations whose notice it accepted
  refused      \* Telegram side: operations whose notice it refused for good

database == <<bank, ops, outbox, lastRow>>
sender   == <<batch, sending, wire>>
world    == <<calendar, market, crashes>>
history  == <<answers, owed, sent, refused>>
vars == <<ledgerMode, database, refreshing, sender, world, history>>

Sources == {"import", "telegram", "tma", "system"}
Verdicts == {"applied", "unchanged", "rejected"}
Wires == {"idle", "awaiting", "accepted", "rejected", "failed"}

-----------------------------------------------------------------------------
(* Helpers.                                                                *)

RowOf(user, source, key) ==
  {o \in ops : o.user = user /\ o.source = source /\ o.key = key}

HasNotice(o) == \E n \in outbox : n.row = o.row

\* Rows of the user's sliding replay window: imports and system rows are outside.
Window(user) == {o \in ops : o.user = user /\ o.source \in {"telegram", "tma"}}

\* Mutant: pending notices protect nothing.
EvictionsUnprotected(user) ==
  LET slots == Cardinality(Window(user)) - MaxOperations + 1
  IN  IF slots <= 0 THEN {{}}
      ELSE {D \in SUBSET Window(user) :
              /\ Cardinality(D) = slots
              /\ \A d \in D, o \in Window(user) \ D : d.row < o.row}

\* #makeRoomForFreshUserOperation: the sets of rows it may delete.  None when
\* pending notices protect too many of them (BankOperationCapacityError).
Evictions(user) ==
  LET slots == Cardinality(Window(user)) - MaxOperations + 1
      completed == {o \in Window(user) : ~HasNotice(o)}
  IN  IF slots <= 0 THEN {{}}
      ELSE {D \in SUBSET completed :
              /\ Cardinality(D) = slots
              /\ \A d \in D, o \in completed \ D : d.row < o.row}

\* domain.materialize: settle savings, then recurring rules, up to now.
Materialized(b) == [b EXCEPT !.accrued = calendar]

\* Mutant: the state of a rejected command is written back.
PerformedAlways(b, row, command, verdict) ==
  IF verdict = "unchanged" THEN Materialized(b)
  ELSE [Materialized(b) EXCEPT !.book = Append(@, Entry(row, command))]

\* domain.applyCommand after materialisation; reset_demo skips it and rebuilds.
\* A verdict says what became of the state: a command is unchanged too when it is
\* answered as applied and leaves the state as it was, a rule that is resumed
\* and paused again, or a demo that is rebuilt as it is.
Performed(b, row, command, verdict) ==
  CASE verdict = "rejected"  -> b
    [] verdict = "unchanged" -> IF command \in Resets THEN b ELSE Materialized(b)
    [] verdict = "applied"   ->
         IF command \in Resets
         THEN [b EXCEPT !.origin = "demo", !.book = <<Entry(row, command)>>,
                        !.accrued = calendar]
         ELSE [Materialized(b) EXCEPT !.book = Append(@, Entry(row, command))]

\* Mutant: the revision moves with commands only.
CommittedQuietly(old, new) ==
  IF new.book = old.book THEN new ELSE [new EXCEPT !.revision = old.revision + 1]

\* A write bumps the revision exactly when the canonical JSON differs.
Committed(old, new) ==
  IF new = old THEN old ELSE [new EXCEPT !.revision = old.revision + 1]

\* Mutant: a row takes the revision its command would commit, whether or not it does.
RowAhead(row, user, source, key, command, verdict, revision) ==
  [row |-> row, user |-> user, source |-> source, key |-> key,
   command |-> command, verdict |-> verdict, revision |-> revision + 1]

Row(row, user, source, key, command, verdict, revision) ==
  [row |-> row, user |-> user, source |-> source, key |-> key,
   command |-> command, verdict |-> verdict, revision |-> revision]

Notice(row, user) == [row |-> row, user |-> user, attempts |-> 0, due |-> TRUE]

\* bank_outbox.bank_operation_id REFERENCES bank_operations ON DELETE CASCADE.
Cascade(notices, evicted) ==
  {n \in notices : \A o \in evicted : o.row # n.row}

PollerIdle == batch = {} /\ sending = 0

-----------------------------------------------------------------------------
(* The service's operations.                                               *)

\* The release tool's one-way switch of service_state.ledger_mode.
ActivateServer ==
  /\ ledgerMode = "local"
  /\ ledgerMode' = "server"
  /\ UNCHANGED <<database, refreshing, sender, world, history>>

\* importState, create if absent: the first device snapshot becomes canonical.
\* A snapshot is stored as it is, without materialising what is due.
ImportState(user, key, snapshot, accrued, rates) ==
  /\ ledgerMode = "server"
  /\ RowOf(user, "import", key) = {}
  /\ bank[user] = NoBank
  /\ lastRow < MaxRows
  /\ bank' = [bank EXCEPT ![user] =
               [origin |-> snapshot, book |-> <<>>, accrued |-> accrued,
                rates |-> rates, revision |-> 1]]
  /\ lastRow' = lastRow + 1
  /\ ops' = ops \cup {Row(lastRow', user, "import", key, snapshot, "applied", 1)}
  /\ UNCHANGED <<ledgerMode, outbox, refreshing, sender, world, history>>

\* A retried import replays, a different one is refused: 409 idempotency_conflict
\* for a used importId, 409 bank_already_exists otherwise.  Nothing is written.
ReplayOrRefuseImport(user, key) ==
  /\ ledgerMode = "server"
  /\ RowOf(user, "import", key) # {} \/ bank[user] # NoBank
  /\ UNCHANGED vars

\* Mutant: the command hash of a recorded key is not compared.
ReplayAnyCommand(user, source, key, command) ==
  /\ ledgerMode = "server"
  /\ source = "telegram" => PollerIdle
  /\ \E o \in RowOf(user, source, key) :
       answers' = answers \cup {[o EXCEPT !.command = command]}
  /\ UNCHANGED <<ledgerMode, database, refreshing, sender, world, owed, sent, refused>>

\* executeCommand finds the operation recorded under the same command hash: it
\* answers with the stored outcome and revision.
ReplayCommand(user, source, key, command) ==
  /\ ledgerMode = "server"
  /\ source = "telegram" => PollerIdle
  /\ \E o \in RowOf(user, source, key) :
       /\ o.command = command
       /\ answers' = answers \cup {[o EXCEPT !.command = command]}
  /\ UNCHANGED <<ledgerMode, database, refreshing, sender, world, owed, sent, refused>>

\* 409 idempotency_conflict: the key is recorded for another command.
\* 409 bank_import_required: there is no bank yet.
\* 409 operation_capacity: pending notices protect every row of the window.
\* 413 bank_state_too_large and 422 invalid_command roll back the same way.
RefuseCommand(user, source, key, command) ==
  /\ ledgerMode = "server"
  /\ source = "telegram" => PollerIdle
  /\ \/ \E o \in RowOf(user, source, key) : o.command # command
     \/ /\ RowOf(user, source, key) = {}
        /\ bank[user] = NoBank \/ Evictions(user) = {}
  /\ UNCHANGED vars

\* A demo that has just been rebuilt is all that rebuilding it can leave alone.
JustReset(b) == Len(b.book) = 1 /\ b.book[1].command \in Resets /\ b.accrued = calendar

\* reset_demo never fails.  Any other command may succeed, have nothing to do or fail.
Possible(b, command, verdict) ==
  command \in Resets => verdict = "applied" \/ (verdict = "unchanged" /\ JustReset(b))

\* Rules are paused by what has fallen due, and by resuming one that still finds
\* no money.
MayWarn(b, command, verdict) ==
  /\ verdict # "rejected" /\ command \notin Resets
  /\ b.accrued < calendar \/ command \in Resumes

\* Mutant: a recorded key is executed again and recorded again.
ExecuteCommandAgain(user, source, key, command, verdict, warned) ==
  LET row == lastRow + 1
      new == Committed(bank[user], Performed(bank[user], row, command, verdict))
      op  == Row(row, user, source, key, command, verdict, new.revision)
  IN  /\ ledgerMode = "server"
      /\ bank[user] # NoBank
      /\ lastRow < MaxRows
      /\ ops' = ops \cup {op}
      /\ bank' = [bank EXCEPT ![user] = new]
      /\ lastRow' = row
      /\ answers' = answers \cup {op}
      /\ UNCHANGED <<ledgerMode, outbox, refreshing, sender, world, owed, sent, refused>>

\* executeCommand, first time: make room in the window, materialise what is due,
\* apply, write the state if it changed, insert the operation and its notice.
\* A rejected command is recorded, and leaves even what is due unmaterialised.
ExecuteCommand(user, source, key, command, verdict, warned) ==
  LET old     == bank[user]
      row     == lastRow + 1
      new     == Committed(old, Performed(old, row, command, verdict))
      op      == Row(row, user, source, key, command, verdict, new.revision)
      noticed == source = "telegram" \/ warned
  IN  /\ ledgerMode = "server"
      /\ source = "telegram" => PollerIdle
      /\ RowOf(user, source, key) = {}
      /\ bank[user] # NoBank
      /\ lastRow < MaxRows
      /\ Possible(old, command, verdict)
      /\ warned => MayWarn(old, command, verdict)
      /\ \E evicted \in Evictions(user) :
           /\ ops' = (ops \ evicted) \cup {op}
           /\ outbox' = Cascade(outbox, evicted) \cup
                          (IF noticed THEN {Notice(row, user)} ELSE {})
      /\ bank' = [bank EXCEPT ![user] = new]
      /\ lastRow' = row
      /\ owed' = IF noticed THEN owed \cup {row} ELSE owed
      /\ answers' = answers \cup {op}
      /\ UNCHANGED <<ledgerMode, refreshing, sender, world, sent, refused>>

\* mutateBankState: a new state of the bank outside an operation.  What a
\* materialisation pauses is recorded under a key the service draws, the new
\* revision, together with its notice; no room is made for that row.
MutateBankState(user, state, warned) ==
  LET new == Committed(bank[user], state)
      row == lastRow + 1
  IN  /\ bank' = [bank EXCEPT ![user] = new]
      /\ IF warned
         THEN /\ lastRow < MaxRows
              /\ lastRow' = row
              /\ ops' = ops \cup {Row(row, user, "system", new.revision,
                                      "materialize", "applied", new.revision)}
              /\ outbox' = outbox \cup {Notice(row, user)}
              /\ owed' = owed \cup {row}
         ELSE UNCHANGED <<lastRow, ops, outbox, owed>>

\* bootstrap of an existing bank: materialise, write if changed, and record a
\* system operation with a notice when a recurring rule had to be paused.
Bootstrap(user, warned) ==
  /\ ledgerMode = "server"
  /\ bank[user] # NoBank
  /\ warned => bank[user].accrued < calendar
  /\ MutateBankState(user, Materialized(bank[user]), warned)
  /\ UNCHANGED <<ledgerMode, refreshing, sender, world, answers, sent, refused>>

\* refreshRates up to its await: the mode and the existence of the bank are
\* checked here, the state is read again after the await.
BeginRefresh(user) ==
  /\ ledgerMode = "server"
  /\ bank[user] # NoBank
  /\ user \notin refreshing
  /\ refreshing' = refreshing \cup {user}
  /\ UNCHANGED <<ledgerMode, database, sender, world, history>>

\* Mutant: the provider's snapshot is always adopted.
FinishRefreshAlways(user, version) ==
  /\ user \in refreshing
  /\ refreshing' = refreshing \ {user}
  /\ bank' = [bank EXCEPT ![user] =
       Committed(bank[user], [bank[user] EXCEPT !.rates = version])]
  /\ UNCHANGED <<ledgerMode, ops, outbox, lastRow, sender, world, history>>

\* refreshRates after its await: adopt the provider's snapshot, which its cache
\* may have kept for hours, only if it is newer than the stored one.
FinishRefresh(user, version) ==
  LET old    == bank[user]
      newest == IF version > old.rates THEN version ELSE old.rates
  IN  /\ user \in refreshing
      /\ refreshing' = refreshing \ {user}
      /\ MutateBankState(user, [old EXCEPT !.rates = newest], FALSE)
      /\ UNCHANGED <<ledgerMode, sender, world, answers, sent, refused>>

\* 503 bank_rates_unavailable.
FailRefresh(user) ==
  /\ user \in refreshing
  /\ refreshing' = refreshing \ {user}
  /\ UNCHANGED <<ledgerMode, database, sender, world, history>>

-----------------------------------------------------------------------------
(* The sender: flushBankOutbox and #deliverBankOutbox.  The poller runs it,  *)
(* so it never overlaps a command that came from Telegram; Mini App requests *)
(* interleave with each of its awaits.                                       *)

\* listDueBankOutbox.
StartFlush ==
  /\ PollerIdle
  /\ batch' = {n.row : n \in {m \in outbox : m.due}}
  /\ batch' # {}
  /\ UNCHANGED <<ledgerMode, database, refreshing, sending, wire, world, history>>

BeginSend(row) ==
  /\ sending = 0
  /\ row \in batch
  /\ batch' = batch \ {row}
  /\ sending' = row
  /\ wire' = "awaiting"
  /\ UNCHANGED <<ledgerMode, database, refreshing, world, history>>

\* Telegram posts the message; its answer arrives or is lost on the way.
TelegramAccepts(answer) ==
  /\ wire = "awaiting"
  /\ wire' = answer
  /\ sent' = sent \cup {sending}
  /\ UNCHANGED <<ledgerMode, database, refreshing, batch, sending, world,
                 answers, owed, refused>>

\* A 4xx other than 401, 404 and 429.
TelegramRejects ==
  /\ wire = "awaiting"
  /\ wire' = "rejected"
  /\ refused' = refused \cup {sending}
  /\ UNCHANGED <<ledgerMode, database, refreshing, batch, sending, world,
                 answers, owed, sent>>

\* A timeout, a 5xx, 429, 401 or 404.
TelegramFails ==
  /\ wire = "awaiting"
  /\ wire' = "failed"
  /\ UNCHANGED <<ledgerMode, database, refreshing, batch, sending, world, history>>

\* Mutant: a transient failure completes the notice as well.
CompleteAnySend ==
  /\ wire \in {"accepted", "rejected", "failed"}
  /\ outbox' = {n \in outbox : n.row # sending}
  /\ sending' = 0
  /\ wire' = "idle"
  /\ UNCHANGED <<ledgerMode, bank, ops, lastRow, refreshing, batch, world, history>>

\* completeBankOutbox, after acceptance and after a permanent rejection.
CompleteSend ==
  /\ wire \in {"accepted", "rejected"}
  /\ outbox' = {n \in outbox : n.row # sending}
  /\ sending' = 0
  /\ wire' = "idle"
  /\ UNCHANGED <<ledgerMode, bank, ops, lastRow, refreshing, batch, world, history>>

\* Mutant: the attempt counter has no ceiling.
DeferredUncapped(n) == [n EXCEPT !.attempts = @ + 1, !.due = FALSE]

\* deferBankOutbox: one attempt more, up to the ceiling, and a later retry.
Deferred(n) == [n EXCEPT !.attempts = IF @ < MaxAttempts THEN @ + 1 ELSE @,
                         !.due = FALSE]

DeferSend ==
  /\ wire = "failed"
  /\ outbox' = {n \in outbox : n.row # sending} \cup
               {Deferred(n) : n \in {m \in outbox : m.row = sending}}
  /\ sending' = 0
  /\ wire' = "idle"
  /\ UNCHANGED <<ledgerMode, bank, ops, lastRow, refreshing, batch, world, history>>

\* Mutant: a notice at the ceiling is not retried any more.
RetryFallsDueBelowCeiling(n) ==
  /\ n \in outbox /\ ~n.due /\ n.attempts < MaxAttempts
  /\ outbox' = (outbox \ {n}) \cup {[n EXCEPT !.due = TRUE]}
  /\ UNCHANGED <<ledgerMode, bank, ops, lastRow, refreshing, sender, world, history>>

\* The retry time of a deferred notice passes.
RetryFallsDue(n) ==
  /\ n \in outbox /\ ~n.due
  /\ outbox' = (outbox \ {n}) \cup {[n EXCEPT !.due = TRUE]}
  /\ UNCHANGED <<ledgerMode, bank, ops, lastRow, refreshing, sender, world, history>>

\* The process dies between any two steps and is restarted: what it was
\* awaiting is forgotten, what it committed stays.
Crash ==
  /\ crashes < MaxCrashes
  /\ crashes' = crashes + 1
  /\ refreshing' = {}
  /\ batch' = {}
  /\ sending' = 0
  /\ wire' = "idle"
  /\ UNCHANGED <<ledgerMode, database, calendar, market, history>>

\* The world outside: a calendar event falls due, new rates are published.
CalendarAdvances ==
  /\ calendar < MaxCalendar
  /\ calendar' = calendar + 1
  /\ UNCHANGED <<ledgerMode, database, refreshing, sender, market, crashes, history>>

MarketMoves ==
  /\ market < MaxMarket
  /\ market' = market + 1
  /\ UNCHANGED <<ledgerMode, database, refreshing, sender, calendar, crashes, history>>

-----------------------------------------------------------------------------
Init ==
  /\ ledgerMode = "local"
  /\ bank = [u \in Users |-> NoBank]
  /\ ops = {} /\ outbox = {} /\ lastRow = 0
  /\ refreshing = {}
  /\ batch = {} /\ sending = 0 /\ wire = "idle"
  /\ calendar = 0 /\ market = 0 /\ crashes = 0
  /\ answers = {} /\ owed = {} /\ sent = {} /\ refused = {}

Requests == ({"tma"} \X Mutations) \cup ({"telegram"} \X Updates)

CommandStep(user) ==
  \E r \in Requests, c \in Commands :
    \/ ReplayCommand(user, r[1], r[2], c)
    \/ RefuseCommand(user, r[1], r[2], c)
    \/ \E v \in Verdicts, w \in BOOLEAN : ExecuteCommand(user, r[1], r[2], c, v, w)

ImportStep(user) ==
  \E key \in Mutations :
    \/ ReplayOrRefuseImport(user, key)
    \/ \E s \in Snapshots, a \in 0..calendar, r \in 0..market :
         ImportState(user, key, s, a, r)

ServiceStep(user) ==
  \/ ImportStep(user)
  \/ CommandStep(user)
  \/ \E w \in BOOLEAN : Bootstrap(user, w)
  \/ BeginRefresh(user)
  \/ \E version \in 0..market : FinishRefresh(user, version)
  \/ FailRefresh(user)

SenderStep ==
  \/ StartFlush
  \/ \E row \in batch : BeginSend(row)
  \/ CompleteSend
  \/ DeferSend

TelegramStep ==
  \/ TelegramAccepts("accepted")
  \/ TelegramAccepts("failed")
  \/ TelegramRejects
  \/ TelegramFails

Next ==
  \/ ActivateServer
  \/ \E u \in Users : ServiceStep(u)
  \/ SenderStep
  \/ TelegramStep
  \/ \E n \in outbox : RetryFallsDue(n)
  \/ Crash
  \/ CalendarAdvances
  \/ MarketMoves

Spec == Init /\ [][Next]_vars

-----------------------------------------------------------------------------
(* What the authority promises.                                            *)

Keys == Mutations \cup Updates \cup Nat
Rows ==
  [row : Nat \ {0}, user : Users, source : Sources, key : Keys,
   command : Commands \cup Snapshots \cup {"materialize"},
   verdict : Verdicts, revision : Nat \ {0}]
Notices == [row : Nat \ {0}, user : Users, attempts : 0..MaxAttempts, due : BOOLEAN]

\* The type of every variable.
TypeOK ==
  /\ ledgerMode \in {"local", "server"}
  /\ bank \in [Users -> BankStates \cup {NoBank}]
  /\ ops \subseteq Rows
  /\ outbox \subseteq Notices
  /\ lastRow \in Nat
  /\ refreshing \subseteq Users
  /\ batch \subseteq Nat \ {0} /\ sending \in Nat /\ wire \in Wires
  /\ calendar \in Nat /\ market \in Nat /\ crashes \in Nat
  /\ answers \subseteq Rows
  /\ owed \subseteq Nat \ {0} /\ sent \subseteq Nat \ {0} /\ refused \subseteq Nat \ {0}

\* The UNIQUE(telegram_user_id, source_kind, operation_id) constraint never
\* fires: a key is recorded once, and the keys materialize:<revision> that the
\* service draws itself never repeat.
UniqueKeys ==
  \A o, p \in ops :
    (o.user = p.user /\ o.source = p.source /\ o.key = p.key) => o = p

\* Operation rows record non-decreasing revisions, none beyond the stored one:
\* the operationRevision of an answer never exceeds the revision of the state
\* sent with it, which the Mini App rejects as invalid.
RowsFollowRevisions ==
  /\ \A o, p \in ops :
       o.user = p.user /\ o.row < p.row => o.revision <= p.revision
  /\ \A o \in ops : bank[o.user] # NoBank /\ o.revision <= bank[o.user].revision

\* A recorded outcome is the truth about the ledger: since the last reset of the
\* demo, a command recorded as applied took effect exactly once, and one
\* recorded as unchanged or rejected never did.
OutcomesMatchLedger ==
  \A o \in ops :
    LET book  == bank[o.user].book
        start == IF book # <<>> /\ book[1].command \in Resets THEN book[1].row ELSE 0
        times == Cardinality({i \in DOMAIN book : book[i].row = o.row})
    IN  o.source \in {"telegram", "tma"} /\ o.row >= start
          => times = (IF o.verdict = "applied" THEN 1 ELSE 0)

\* While an operation is retained, every answer given for its key, first or
\* replayed, carried its command, its outcome and its revision.
AnswersStand == \A a \in answers, o \in ops : a.row = o.row => a = o

\* Making room never deletes an operation whose notice is being delivered, so
\* completeBankOutbox and deferBankOutbox always find the row they were called
\* for ("Bank outbox disappeared before completion" is never thrown).
NoticeRows == {n.row : n \in outbox}
DeliveriesBacked ==
  /\ batch \subseteq NoticeRows
  /\ sending # 0 => sending \in NoticeRows
  /\ \A n \in outbox : \E o \in ops : o.row = n.row /\ o.user = n.user

\* A queued notice is waiting, or was accepted or refused by Telegram: no crash,
\* lost answer or eviction drops one.
NoNoticeLost == owed \subseteq NoticeRows \cup sent \cup refused

\* The replay window stays bounded for each user.
WindowBounded == \A u \in Users : Cardinality(Window(u)) <= MaxOperations

\* Room is made for every new operation, and never at the expense of a delivery:
\* makeRoom of repository.ts keeps the window bounded and notices backed.
RoomIsMade == WindowBounded /\ DeliveriesBacked

\* A revision names one state: the state changes if and only if the revision
\* moves on by one.  The Mini App treats two digests at one revision as a conflict.
RevisionNamesState ==
  [][\A u \in Users : bank[u] # NoBank =>
       \/ bank'[u] = bank[u]
       \/ /\ bank'[u].revision = bank[u].revision + 1
          /\ [bank'[u] EXCEPT !.revision = 0] # [bank[u] EXCEPT !.revision = 0]]_vars

\* A rate refresh that finishes with a snapshot its cache kept for hours never
\* replaces newer rates, and nothing that was materialised is taken back.
NeverOlder ==
  [][\A u \in Users : bank[u] # NoBank =>
       /\ bank'[u].rates >= bank[u].rates
       /\ bank'[u].accrued >= bank[u].accrued]_vars

\* The service implements RetrySafeLedger: the tables hide behind the ledger
\* they keep, the rows of the replay window are its memory.
Promise ==
  INSTANCE RetrySafeLedger WITH
    NoLedger <- NoBank,
    ledger <- [u \in Users |->
                IF bank[u] = NoBank THEN NoBank
                ELSE [origin |-> bank[u].origin,
                      book |-> [i \in DOMAIN bank[u].book |-> bank[u].book[i].command]]],
    memory <- [u \in Users |->
                {[user |-> o.user, key |-> <<o.source, o.key>>, command |-> o.command,
                  verdict |-> o.verdict] : o \in Window(u)}],
    told <- {[user |-> o.user, key |-> <<o.source, o.key>>, command |-> o.command,
              verdict |-> o.verdict] : o \in answers}

RetrySafe == Promise!LSpec

\* Every notice leaves the outbox: it is delivered or refused for good.
EveryNoticeSettles ==
  \A r \in 1..MaxRows : (r \in NoticeRows) ~> (r \notin NoticeRows)

\* The poll loop keeps flushing, the process runs on after its last crash, and
\* Telegram does not fail to answer for one message for ever.
Fairness ==
  /\ WF_vars(StartFlush)
  /\ WF_vars(\E row \in batch : BeginSend(row))
  /\ WF_vars(CompleteSend) /\ WF_vars(DeferSend)
  /\ WF_vars(TelegramStep)
  /\ \A r \in 1..MaxRows :
       /\ WF_vars(\E n \in outbox : n.row = r /\ RetryFallsDue(n))
       /\ SF_vars(sending = r /\ (TelegramAccepts("accepted") \/ TelegramRejects))

FairSpec == Spec /\ Fairness

=============================================================================
