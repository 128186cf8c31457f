-------------------------------- MODULE Ledger --------------------------------
(***************************************************************************)
(* The money of one user: the pure domain of src/domain (ledger.ts,        *)
(* interest.ts, recurring.ts, accountLifecycle.ts, transfer.ts,            *)
(* manualTransactions.ts, bankCommands.ts) as one state record, with the   *)
(* materialisation of bot/bank-domain.ts before every command of the       *)
(* service.                                                                *)
(*                                                                         *)
(* Amounts are minor units; the days are counted from 1 and the clock      *)
(* never goes back.  A month is long or short in turn, so that billing     *)
(* days clamp.  There are two currencies at one fixed cross-rate.  Names,  *)
(* notes, categories and the command limit in USD are left out.            *)
(***************************************************************************)
EXTENDS Integers, Sequences, FiniteSets, SequencesExt

CONSTANTS
  Checking,         \* checking accounts: those of the seed and custom ones
  Main,             \* the primary checking account
  Savings,          \* the savings account; there is one
  Custom,           \* checking accounts that do not exist before add_account
  Foreign,          \* checking accounts in the second currency
  Cards,            \* cards, all of the primary checking account
  RuleIds,          \* IDs of recurring rules
  TransferIds,      \* client transfer IDs
  Amounts,          \* amounts that commands name
  AnchorDays,       \* billing days that rules name
  Rate,             \* minor units of the first currency for one of the second
  Opening,          \* what the seed books on each of its accounts
  Growth,           \* what one minor unit of savings is worth after a day
  RecentCap,        \* RECENT_IDS_CAP, 50 in production
  MaxOccurrences,   \* occurrences posted at once, 120 in production
  MaxTransactions,  \* rows of a ledger, 5000 in production
  LongMonth,        \* days of the odd months
  ShortMonth,       \* days of the even months
  MaxDays,          \* bound: days that pass
  NoRule,           \* a row that no rule posted
  NoAccount         \* a contact is paid

Accounts == Checking \cup {Savings}

ASSUME LedgerAssumption ==
  /\ Main \in Checking \ (Custom \cup Foreign)
  /\ Savings \notin Checking
  /\ IsFiniteSet(Checking) /\ Custom \subseteq Checking /\ Foreign \subseteq Checking
  \* The checking accounts of the seed are in different currencies.
  /\ \A a, other \in Checking \ Custom : (a \in Foreign) = (other \in Foreign) => a = other
  /\ NoRule \notin RuleIds /\ NoAccount \notin Accounts
  /\ Amounts \subseteq Nat \ {0} /\ AnchorDays \subseteq Nat \ {0}
  /\ Rate \in Nat \ {0} /\ Opening \in Nat
  /\ Growth \in Nat \ {0}
  /\ RecentCap \in Nat \ {0} /\ MaxOccurrences \in Nat \ {0}
  /\ MaxTransactions \in Nat /\ MaxTransactions > Cardinality(Accounts \ Custom)
  /\ LongMonth \in Nat \ {0} /\ ShortMonth \in Nat \ {0}
  /\ MaxDays \in Nat \ {0}

VARIABLES
  today,  \* the UTC day
  bank    \* the BankState of the user

vars == <<today, bank>>

-----------------------------------------------------------------------------
(* Rows and balances.                                                      *)

Kinds == {"seed", "interest", "manual", "adjustment", "out", "in", "contact"}

\* What the last of some rows says.
LastBalance(b, own) ==
  IF own = {} THEN 0 ELSE b.rows[CHOOSE i \in own : \A j \in own : j <= i].balance

\* balanceOf: what the account's last row says.
BalanceOf(b, account) == LastBalance(b, {i \in DOMAIN b.rows : b.rows[i].account = account})

\* appendRow; a row's place in the sequence is its seq.
AppendRow(b, account, amount, kind, rule, date) ==
  [b EXCEPT !.rows = Append(@,
     [account |-> account, amount |-> amount, balance |-> BalanceOf(b, account) + amount,
      kind |-> kind, rule |-> rule, date |-> date, day |-> today])]

Post(b, account, amount, kind) == AppendRow(b, account, amount, kind, NoRule, today)

IsActive(b, account) == b.accounts[account].status = "active"
Exists(b, account) == b.accounts[account].status # "absent"
Currency(account) == IF account \in Foreign THEN "second" ELSE "first"

\* Another active checking account already holds the currency of this one.
CurrencyTaken(b, account) ==
  \E a \in Checking \ {account} : IsActive(b, a) /\ Currency(a) = Currency(account)

-----------------------------------------------------------------------------
(* Interest.                                                               *)

Power(base, days) ==
  LET power[n \in 0..days] == IF n = 0 THEN 1 ELSE base * power[n - 1]
  IN  power[days]

\* accruedInterest: compound growth over the missed days, rounded to a minor unit;
\* a day grows the principal by one part in Growth.
AccruedInterest(principal, days) ==
  LET whole == Power(Growth, days)
      grown == principal * (Power(Growth + 1, days) - whole)
  IN  (2 * grown + whole) \div (2 * whole)

\* applySettleAccount: one row for the whole missed period, none for nothing; the
\* anchor advances either way.
SettleAccount(b, account) ==
  LET a == b.accounts[account]
      amount == AccruedInterest(BalanceOf(b, account), today - a.anchor)
      settled == IF amount > 0 THEN Post(b, account, amount, "interest") ELSE b
  IN  IF account # Savings \/ a.status # "active" \/ a.anchor >= today THEN b
      ELSE [settled EXCEPT !.accounts[account].anchor = today]

Fits(b) == Len(b.rows) <= MaxTransactions

\* applySettleAllWithinTransactionLimit: all of it or nothing.
SettleAllWithinLimit(b) ==
  LET settled == SettleAccount(b, Savings)
  IN  [state |-> IF Fits(settled) THEN settled ELSE b, capacityReached |-> ~Fits(settled)]

-----------------------------------------------------------------------------
(* The calendar of recurring rules.                                        *)

MonthDays(month) == IF month % 2 = 1 THEN LongMonth ELSE ShortMonth

FirstDay(month) ==
  ((month - 1) \div 2) * (LongMonth + ShortMonth)
    + (IF month % 2 = 0 THEN LongMonth ELSE 0) + 1

MonthOf(date) ==
  CHOOSE m \in 1..date : FirstDay(m) <= date /\ date < FirstDay(m + 1)

\* monthOccurrence: a billing day past the end of a month is its last day.
MonthOccurrence(month, anchorDay) ==
  FirstDay(month) + Min({anchorDay, MonthDays(month)}) - 1

\* Mutant: a clamped date becomes the billing day.
NextMonthOccurrenceClamped(date, anchorDay) ==
  MonthOccurrence(MonthOf(date) + 1, date - FirstDay(MonthOf(date)) + 1)

NextMonthOccurrence(date, anchorDay) == MonthOccurrence(MonthOf(date) + 1, anchorDay)

\* occurrenceDates: the dates from first to today, and the one after them.
OccurrenceDates(first, anchorDay) ==
  LET date[n \in 0..today + 1] ==
        IF n = 0 THEN first ELSE NextMonthOccurrence(date[n - 1], anchorDay)
      count == Cardinality({n \in 0..today : date[n] <= today})
  IN  [due |-> [i \in 1..count |-> date[i - 1]], next |-> date[count]]

\* The dates whose month has no row of the rule yet.
Missing(b, rule, dates) ==
  {date \in ToSet(dates) :
    \A i \in DOMAIN b.rows : b.rows[i].rule = rule.id => MonthOf(b.rows[i].date) # MonthOf(date)}

Signed(c) == IF c.direction = "expense" THEN -c.amount ELSE c.amount

\* appendOccurrence, date after date.
PostOccurrences(b, rule, dates) ==
  LET posted[n \in 0..Len(dates)] ==
        IF n = 0 THEN b
        ELSE IF dates[n] \notin Missing(b, rule, dates) THEN posted[n - 1]
        ELSE AppendRow(posted[n - 1], rule.account, Signed(rule), "manual", rule.id, dates[n])
  IN  posted[Len(dates)]

-----------------------------------------------------------------------------
(* Materialisation.                                                        *)

PauseRule(b, i, reason) == [b EXCEPT !.rules[i].status = reason]

\* Mutant: a pass posts one occurrence of what a rule missed.
MaterializeRuleOnce(b, i, limit) ==
  LET rule == b.rules[i]
  IN  IF rule.status # "active" \/ rule.next > today \/ ~IsActive(b, rule.account) THEN b
      ELSE IF Len(b.rows) >= limit THEN PauseRule(b, i, "capacity")
      ELSE IF rule.direction = "expense" /\ rule.amount > BalanceOf(b, rule.account) THEN
             PauseRule(b, i, "insufficient_funds")
      ELSE [PostOccurrences(b, rule, <<rule.next>>) EXCEPT
                       !.rules[i].next = NextMonthOccurrence(rule.next, rule.anchorDay)]

\* One rule of materializeRecurringRules: all its missed occurrences are posted, or
\* none and the rule is paused.
MaterializeRule(b, i, limit) ==
  LET rule == b.rules[i]
      dates == OccurrenceDates(rule.next, rule.anchorDay)
      missing == Missing(b, rule, dates.due)
  IN  IF rule.status # "active" \/ rule.next > today \/ ~IsActive(b, rule.account) THEN b
      ELSE IF Len(dates.due) > MaxOccurrences \/ Len(b.rows) + Cardinality(missing) > limit THEN
             PauseRule(b, i, "capacity")
      ELSE IF rule.direction = "expense" /\ rule.amount * Cardinality(missing) > BalanceOf(b, rule.account) THEN
             PauseRule(b, i, "insufficient_funds")
      ELSE [PostOccurrences(b, rule, dates.due) EXCEPT !.rules[i].next = dates.next]

MaterializeRules(b, limit) ==
  LET state[i \in 0..Len(b.rules)] ==
        IF i = 0 THEN b ELSE MaterializeRule(state[i - 1], i, limit)
  IN  state[Len(b.rules)]

\* materializeBankState: interest first.  When the interest does not fit, no recurring
\* row may take the slots it waits for.
Materialized(b) ==
  LET settlement == SettleAllWithinLimit(b)
  IN  MaterializeRules(settlement.state,
        IF settlement.capacityReached THEN Len(b.rows) ELSE MaxTransactions)

-----------------------------------------------------------------------------
(* The commands, on the state b they are applied to.  The service          *)
(* materialises before it applies one, a device in local mode does not; a  *)
(* command that is refused changes nothing.                                *)

Commit(b) == bank' = b /\ UNCHANGED today

RecordTransaction(b, account, amount) ==
  /\ IsActive(b, account)
  /\ Len(b.rows) < MaxTransactions
  /\ BalanceOf(b, account) + amount >= 0
  /\ Commit(Post(b, account, amount, "manual"))

\* createRecurringRule: a rule may start in the past or later in this month; what it
\* missed is posted at once and has to be covered as a whole.
CreateRecurring(b, c) ==
  LET first == MonthOccurrence(c.month, c.anchorDay)
      dates == OccurrenceDates(first, c.anchorDay)
      rule == [id |-> c.rule, account |-> c.account, direction |-> c.direction,
               amount |-> c.amount, anchorDay |-> c.anchorDay, startsOn |-> first,
               next |-> dates.next, status |-> "active"]
  IN  /\ \A i \in DOMAIN b.rules : b.rules[i].id # c.rule
      /\ IsActive(b, c.account)
      /\ first <= today \/ c.month = MonthOf(today)
      /\ Len(dates.due) <= MaxOccurrences
      /\ Len(b.rows) + Len(dates.due) <= MaxTransactions
      /\ c.direction = "expense" => c.amount * Len(dates.due) <= BalanceOf(b, c.account)
      /\ Commit(PostOccurrences([b EXCEPT !.rules = Append(@, rule)], rule, dates.due))

PauseRecurring(b, id) ==
  \E i \in DOMAIN b.rules :
    /\ b.rules[i].id = id
    /\ Commit(PauseRule(b, i, "manual"))

\* What fell due while the rule was paused is posted now, or pauses it again.
ResumeRecurring(b, id) ==
  \E i \in DOMAIN b.rules :
    /\ b.rules[i].id = id
    /\ IsActive(b, b.rules[i].account)
    /\ b.rules[i].status # "active"
    /\ Commit(MaterializeRules([b EXCEPT !.rules[i].status = "active"], MaxTransactions))

AddAccount(b, account) ==
  /\ ~Exists(b, account)
  /\ ~CurrencyTaken(b, account)
  /\ Len(b.rows) < MaxTransactions
  /\ Commit(Post([b EXCEPT !.accounts[account].status = "active"], account, 0, "seed"))

AdjustBalance(b, account, target) ==
  LET settled == SettleAccount(b, account)
      current == BalanceOf(settled, account)
  IN  /\ IsActive(b, account)
      /\ \/ target = current /\ Fits(settled) /\ Commit(settled)
         \/ /\ target # current
            /\ Len(settled.rows) < MaxTransactions
            /\ Commit(Post(settled, account, target - current, "adjustment"))

\* A savings account that is closed or restored accrues from that day on.
AnchorToday(account) == IF account = Savings THEN today ELSE 0

\* Closing freezes the cards and pauses the rules of an account.
Closed(b, account) ==
  [b EXCEPT !.accounts[account] =
              [status |-> "closed", anchor |-> AnchorToday(account), closedAt |-> today],
            !.cards = [c \in Cards |->
              IF account = Main /\ @[c] = "active" THEN "account_closed" ELSE @[c]],
            !.rules = [i \in DOMAIN @ |->
              IF @[i].account = account /\ @[i].status = "active"
              THEN [@[i] EXCEPT !.status = "account_closed"] ELSE @[i]]]

CloseAccount(b, account) ==
  LET settled == SettleAccount(b, account)
  IN  /\ IsActive(b, account)
      /\ BalanceOf(settled, account) = 0
      /\ \E other \in Accounts \ {account} : IsActive(b, other)
      /\ Commit(Closed(settled, account))

\* Restoring undoes what closing did to them, and nothing a user did before.
Restored(b, account) ==
  LET back(status) == IF status = "account_closed" THEN "active" ELSE status
  IN  [b EXCEPT !.accounts[account] =
                  [status |-> "active", anchor |-> AnchorToday(account), closedAt |-> 0],
                !.cards = [c \in Cards |-> IF account = Main THEN back(@[c]) ELSE @[c]],
                !.rules = [i \in DOMAIN b.rules |->
                  LET rule == b.rules[i]
                  IN  IF rule.account = account
                      THEN [rule EXCEPT !.status = back(rule.status)] ELSE rule]]

RestoreAccount(b, account) ==
  /\ b.accounts[account].status = "closed"
  /\ account \in Checking => ~CurrencyTaken(b, account)
  /\ Commit(Restored(b, account))

\* convertMoney: half a minor unit rounds up.
Convert(amount, from, to) ==
  IF Currency(from) = Currency(to) THEN amount
  ELSE IF Currency(from) = "first" THEN (2 * amount + Rate) \div (2 * Rate)
  ELSE amount * Rate

\* Mutant: the account that is paid keeps its unsettled days.
LegsSettledLate(b, from, to, amount) ==
  LET settled == SettleAccount(b, from)
  IN  Post(Post(settled, from, -amount, "out"), to, Convert(amount, from, to), "in")

\* Interest of both accounts first, then the two legs of a transfer.
Legs(b, from, to, amount) ==
  LET settled == SettleAccount(SettleAccount(b, from), to)
  IN  Post(Post(settled, from, -amount, "out"), to, Convert(amount, from, to), "in")

Remember(b, id) ==
  LET ids == Append(b.recent, id)
  IN  [b EXCEPT !.recent = IF Len(ids) > RecentCap THEN Tail(ids) ELSE ids]

\* Both kinds of transfer: the account pays what its settled balance covers.
Pays(b, c, paid) ==
  /\ IsActive(b, c.from)
  /\ c.amount <= BalanceOf(SettleAccount(b, c.from), c.from)
  /\ Fits(paid)
  /\ Commit(Remember(paid, c.id))

TransferOwn(b, c) ==
  /\ c.from # c.to
  /\ IsActive(b, c.to)
  /\ Convert(c.amount, c.from, c.to) > 0
  /\ Pays(b, c, Legs(b, c.from, c.to, c.amount))

TransferContact(b, c) ==
  Pays(b, c, Post(SettleAccount(b, c.from), c.from, -c.amount, "contact"))

\* A transfer whose ID is remembered is a successful no-op; one to no account of the
\* user goes to a contact.
Transfer(b, c) ==
  IF c.id \in Range(b.recent) THEN Commit(b)
  ELSE IF c.to \in Accounts THEN TransferOwn(b, c) ELSE TransferContact(b, c)

SetCardFrozen(b, card, frozen) ==
  /\ frozen \/ IsActive(b, Main)
  /\ (b.cards[card] = "active") = frozen
  /\ Commit([b EXCEPT !.cards[card] = IF frozen THEN "manual" ELSE "active"])

Settle(b) ==
  /\ ~SettleAllWithinLimit(b).capacityReached
  /\ Commit(SettleAllWithinLimit(b).state)

\* What the service does with a settle command.
Settled(b) ==
  LET settlement == SettleAllWithinLimit(Materialized(b))
  IN  IF settlement.capacityReached THEN b ELSE settlement.state

\* Mutant: a full ledger is not told apart.
NeedsMaterializationWhenFull(b) ==
  \/ SettleAccount(b, Savings) # b
  \/ \E i \in DOMAIN b.rules :
       b.rules[i].status = "active" /\ IsActive(b, b.rules[i].account) /\ b.rules[i].next <= today

\* needsServerMaterialization: whether the Mini App sends a settle command at all.
NeedsServerMaterialization(b) ==
  LET settlement == SettleAllWithinLimit(b)
  IN  /\ ~settlement.capacityReached
      /\ \/ settlement.state # b
         \/ \E i \in DOMAIN b.rules :
              /\ b.rules[i].status = "active"
              /\ IsActive(b, b.rules[i].account)
              /\ b.rules[i].next <= today

\* buildSeed: the fixture of the demo, one row on each account it opens, dated before its
\* first day.
SeedRow(account) ==
  [account |-> account, amount |-> Opening, balance |-> Opening, kind |-> "seed",
   rule |-> NoRule, date |-> 1, day |-> 1]

Opened == SetToSeq(Accounts \ Custom)

Seed ==
  [accounts |-> [a \in Accounts |->
     [status |-> IF a \in Custom THEN "absent" ELSE "active",
      anchor |-> IF a = Savings THEN 1 ELSE 0, closedAt |-> 0]],
   rows |-> [i \in DOMAIN Opened |-> SeedRow(Opened[i])],
   rules |-> <<>>,
   cards |-> [c \in Cards |-> "active"],
   recent |-> <<>>]

\* rebuildDemoBase: the fixture again, settled up to today.
Rebuilt == SettleAccount(Seed, Savings)

ResetDemo == Commit(Rebuilt)

\* A bootstrap of the Mini App stores what was due.
Bootstrap == Commit(Materialized(bank))

NextDay ==
  /\ today < MaxDays
  /\ today' = today + 1
  /\ UNCHANGED bank

-----------------------------------------------------------------------------
(* parseBankState: what a state has to satisfy to be stored, restored or   *)
(* read again.  The service runs it on every state it reads, so a state it *)
(* refuses fails every later request of its user.  The day an account was  *)
(* created is that of its first row.                                       *)

CreatedOn(b, account) ==
  b.rows[CHOOSE i \in DOMAIN b.rows :
           /\ b.rows[i].account = account
           /\ \A j \in 1..i - 1 : b.rows[j].account # account].day

\* Only a closed account has a closing date, only savings accrue, and no date is ahead
\* of the clock or in the wrong order.
IsAccount(b, account) ==
  LET a == b.accounts[account]
  IN  /\ (a.status = "closed") = (a.closedAt # 0)
      /\ (account = Savings) = (a.anchor # 0)
      /\ a.anchor <= today /\ a.closedAt <= today
      /\ a.closedAt # 0 => CreatedOn(b, account) <= a.closedAt /\ a.anchor <= a.closedAt
      /\ a.anchor # 0 => CreatedOn(b, account) <= a.anchor

\* isTransaction: a row is of one of the kinds and moves money where its kind says so.
IsTransaction(row) ==
  /\ row.kind \in Kinds
  /\ row.kind \in {"manual", "adjustment"} => row.amount # 0
  /\ row.rule # NoRule => row.kind = "manual"
  /\ row.balance >= 0

HasUniqueActiveCheckingCurrencies(b) ==
  \A a, other \in Checking :
    IsActive(b, a) /\ IsActive(b, other) /\ Currency(a) = Currency(other) => a = other

\* ledgerErrors: each balance is that of the account's row before it plus the amount.
LedgerRuns(b) ==
  \A i \in DOMAIN b.rows :
    LET row == b.rows[i]
        before == {j \in 1..i - 1 : b.rows[j].account = row.account}
    IN  row.balance = LastBalance(b, before) + row.amount

\* The legs of a transfer are neighbours on different accounts, booked at one time, and
\* the same money in the currency of each.
HasValidTransferGroups(b) ==
  \A i \in DOMAIN b.rows :
    LET out == b.rows[i]
    IN  /\ out.kind = "in" => i > 1 /\ b.rows[i - 1].kind = "out"
        /\ out.kind = "out" =>
             /\ i < Len(b.rows)
             /\ LET in == b.rows[i + 1]
                IN  /\ in.kind = "in" /\ in.account # out.account /\ in.day = out.day
                    /\ out.amount < 0 /\ in.amount > 0
                    /\ in.amount = Convert(-out.amount, out.account, in.account)

\* A row lies within the life of its account; a manual one is on a checking account and
\* its date is not ahead of the day it was booked.
HasValidTransactionAccountBoundaries(b) ==
  \A i \in DOMAIN b.rows :
    LET row == b.rows[i]
        account == b.accounts[row.account]
    IN  /\ Exists(b, row.account)
        /\ CreatedOn(b, row.account) <= row.day /\ row.day <= today
        /\ row.kind = "manual" => row.account \in Checking /\ row.date <= row.day
        /\ row.kind = "adjustment" /\ row.account = Savings => row.date = row.day
        /\ account.status = "closed" => row.day <= account.closedAt

\* A row that a rule posted is the rule's: its account, its amount, its direction.
BelongsToItsRule(b, row) ==
  row.rule # NoRule =>
    \E i \in DOMAIN b.rules :
      /\ b.rules[i].id = row.rule /\ b.rules[i].account = row.account
      /\ row.amount = Signed(b.rules[i])

\* A rule has exactly one row for each month from its start until another.
OccursUntil(b, rule, month) ==
  LET own == {j \in DOMAIN b.rows : b.rows[j].rule = rule.id}
      months == MonthOf(rule.startsOn)..month - 1
  IN  /\ {b.rows[j].date : j \in own} = {MonthOccurrence(m, rule.anchorDay) : m \in months}
      /\ Cardinality(own) = Cardinality(months)

\* The month of its next occurrence is the first that it has no row for.
HasContinuousRecurringOccurrences(b) ==
  \A i \in DOMAIN b.rules : OccursUntil(b, b.rules[i], MonthOf(b.rules[i].next))

\* Both dates of a rule are billing days, it did not start after this month, and it runs
\* only while its account is active.
IsRuleOfItsAccount(b, rule) ==
  /\ \A date \in {rule.startsOn, rule.next} : date = MonthOccurrence(MonthOf(date), rule.anchorDay)
  /\ rule.startsOn <= rule.next /\ MonthOf(rule.startsOn) <= MonthOf(today)
  /\ rule.account \in Checking /\ Exists(b, rule.account)
  /\ rule.status = "active" => IsActive(b, rule.account)
  /\ rule.status = "account_closed" => ~IsActive(b, rule.account)

\* The same for a card; all are of the primary account.
IsCardOfItsAccount(b, status) ==
  IF IsActive(b, Main) THEN status # "account_closed" ELSE status # "active"

ParseBankState(b) ==
  /\ Len(b.rows) <= MaxTransactions
  /\ IsInjective(b.recent) /\ Len(b.recent) <= RecentCap
  /\ IsInjective([i \in DOMAIN b.rules |-> b.rules[i].id])
  /\ \A a \in Accounts : Exists(b, a) => IsAccount(b, a)
  /\ \E a \in Accounts : IsActive(b, a)
  /\ HasUniqueActiveCheckingCurrencies(b)
  /\ \A i \in DOMAIN b.rows : IsTransaction(b.rows[i]) /\ BelongsToItsRule(b, b.rows[i])
  /\ HasValidTransactionAccountBoundaries(b)
  /\ HasContinuousRecurringOccurrences(b)
  /\ \A c \in Cards : IsCardOfItsAccount(b, b.cards[c])
  /\ \A i \in DOMAIN b.rules : IsRuleOfItsAccount(b, b.rules[i])
  /\ HasValidTransferGroups(b)
  /\ LedgerRuns(b)
  /\ \A a \in Accounts : b.accounts[a].status = "closed" => BalanceOf(b, a) = 0

-----------------------------------------------------------------------------
(* What a command says, and who applies it to what.                        *)

Directions == {"income", "expense"}

\* parseBankCommand: the commands that reach the domain.
TransferCommands ==
  [kind : {"transfer"}, from : Accounts, to : Accounts \cup {NoAccount}, amount : Amounts,
   id : TransferIds]

BankCommands ==
  UNION {
    [kind : {"record_transaction"}, account : Checking, direction : Directions, amount : Amounts],
    [kind : {"create_recurring"}, rule : RuleIds, account : Checking, direction : Directions,
     amount : Amounts, month : 1..MonthOf(MaxDays), anchorDay : AnchorDays],
    [kind : {"pause_recurring", "resume_recurring"}, rule : RuleIds],
    [kind : {"add_account"}, account : Custom],
    [kind : {"adjust_balance"}, account : Accounts, target : Amounts \cup {0}],
    [kind : {"close_account", "restore_account"}, account : Accounts],
    TransferCommands,
    [kind : {"set_card_frozen"}, card : Cards, frozen : BOOLEAN],
    [kind : {"settle", "reset_demo"}]}

\* One disjunct per kind.  The display name and the primary currency are no part of
\* the ledger.
ApplyBankCommand(b, c) ==
  \/ c.kind = "record_transaction" /\ RecordTransaction(b, c.account, Signed(c))
  \/ c.kind = "create_recurring" /\ CreateRecurring(b, c)
  \/ c.kind = "pause_recurring" /\ PauseRecurring(b, c.rule)
  \/ c.kind = "resume_recurring" /\ ResumeRecurring(b, c.rule)
  \/ c.kind = "add_account" /\ AddAccount(b, c.account)
  \/ c.kind = "adjust_balance" /\ AdjustBalance(b, c.account, c.target)
  \/ c.kind = "close_account" /\ CloseAccount(b, c.account)
  \/ c.kind = "restore_account" /\ RestoreAccount(b, c.account)
  \/ c.kind = "transfer" /\ Transfer(b, c)
  \/ c.kind = "set_card_frozen" /\ SetCardFrozen(b, c.card, c.frozen)
  \/ c.kind = "settle" /\ Settle(b)
  \/ c.kind = "reset_demo" /\ ResetDemo

\* The service brings the ledger up to date before it applies a command.
ExecuteCommand ==
  \E b \in {Materialized(bank)} : \E c \in BankCommands : ApplyBankCommand(b, c)

\* A device that keeps its own ledger offers four commands, on what it stored: these
\* three, and a reset, which leaves what the service's leaves.
TransferLocally == \E c \in TransferCommands : ApplyBankCommand(bank, c)

\* settleNow: a batch of interest that does not fit waits.
SettleNow ==
  LET settlement == SettleAllWithinLimit(bank)
  IN  ~settlement.capacityReached /\ Commit(settlement.state)

ToggleCardFreeze ==
  \E card \in Cards : SetCardFrozen(bank, card, bank.cards[card] = "active")

-----------------------------------------------------------------------------
Init ==
  /\ today = 1
  /\ bank = Seed

Next ==
  \/ ExecuteCommand
  \/ Bootstrap
  \/ TransferLocally
  \/ SettleNow
  \/ ToggleCardFreeze
  \/ NextDay

Spec == Init /\ [][Next]_vars

-----------------------------------------------------------------------------
(* What the ledger promises.                                               *)

AccountTypes == [status : {"absent", "active", "closed"}, anchor : Nat, closedAt : Nat]
RowTypes ==
  [account : Accounts, amount : Int, balance : Int, kind : Kinds,
   rule : RuleIds \cup {NoRule}, date : Nat \ {0}, day : Nat \ {0}]
RuleTypes ==
  [id : RuleIds, account : Checking, direction : {"income", "expense"}, amount : Amounts,
   anchorDay : AnchorDays, startsOn : Nat \ {0}, next : Nat \ {0},
   status : {"active", "manual", "account_closed", "capacity", "insufficient_funds"}]

BankStates ==
  [accounts : [Accounts -> AccountTypes], rows : Seq(RowTypes), rules : Seq(RuleTypes),
   cards : [Cards -> {"active", "manual", "account_closed"}], recent : Seq(TransferIds)]

\* The type of the two variables.
LedgerTypeOK == today \in 1..MaxDays /\ bank \in BankStates

\* What is stored can be read again: no sequence of commands, catch-ups, closings and full
\* ledgers makes a state that parseBankState refuses.
StateParses == LedgerTypeOK /\ ParseBankState(bank)

\* Interest is settled before money moves: no row on the savings account is later than
\* the day up to which it accrued, so no deposit earns for the days before it
\* (domain/transfer.ts:156).
InterestSettledFirst ==
  \A i \in DOMAIN bank.rows :
    bank.rows[i].account = Savings => bank.rows[i].day <= bank.accounts[Savings].anchor

\* Materialising brings a ledger up to date in one pass: nothing active is left due, and
\* a second pass on the same day is a no-op (bot/bank-domain.ts:102-106).
MaterializationSettles ==
  LET once == Materialized(bank)
  IN  /\ Materialized(once) = once
      /\ \A i \in DOMAIN once.rules : once.rules[i].status = "active" => once.rules[i].next > today

\* The Mini App asks for a settlement exactly when the service would change something:
\* never in vain, never too late (store/bankStore.ts:90-93).
MirrorAgrees == NeedsServerMaterialization(bank) <=> Settled(bank) # bank
=============================================================================
