# Cometa: a TLA+ verification project

Cometa (`nikitacometa/mock-bank-app`) is a demo bank. A Telegram Mini App (React, `src/src`) shows accounts, cards
and transfers of imaginary money; a bot service (`src/bot`, one Node process, one SQLite file) chats with the users
over long polling, serves the Mini App over HTTP and, once it is switched on, keeps the authoritative ledger of each
user. The pure ledger domain (`src/src/domain`) is shared by both. This directory holds TLA+ models of the parts of
that system that are hard to test, the TLC runs that check them and the TLAPS proofs about them.

## 1. The system

| component | state | operations | talks to |
|---|---|---|---|
| bank authority (`bot/repository.ts`, `bank-service.ts`, `bank-domain.ts`, the sender in `bank-flow.ts`) | `bank_states`, `bank_operations`, `bank_outbox`, `service_state.ledger_mode` | import, bootstrap, execute or replay a command, refresh rates, flush notices, sweep old operations | ledger domain (calls), HTTP API and chat wizard (called by), rate provider and Telegram (awaits) |
| update poller (`bot/poller.ts`) | `processed_updates`, `next_update_offset`, `last_update_at_ms`; the batch and the attempts in memory | prepare, `getUpdates`, handle one update, retry, drop, flush after a batch | Telegram; its handler is the onboarding engine |
| chat wizard (`bot/bank-flow.ts`) | `conversation_sessions`, `conversation_replies` | commands, texts, button presses, reviews, confirmations, resuming and flushing replies | poller (handler), bank authority, Telegram |
| ledger domain (`src/domain/*.ts`) | `BankState`: accounts, rows, recurring rules, cards, remembered transfers | the bank commands, interest, recurring occurrences, demo reset, strict parsing | pure; bank service and Mini App store call it |
| onboarding and preferences (`bot/onboarding.ts`, `model.ts`) | users, pending replies, preference revisions and epoch | `/start`, language, name, menu button | poller, HTTP API |
| HTTP API (`bot/http-server.ts`, `init-data.ts`) | none of its own | authenticate, route to service and preferences | Mini App, bank service |
| rate limiter (`bot/rate-limit.ts`) | windows and recent results per user, in memory | admit, replay, evict | HTTP API, chat wizard |
| client store (`src/store`, `platform/ledgerAuthorityReceipt.ts`, `bankApi.ts`) | memory of each tab; device storage shared by the tabs: bank, sticky authority marker, receipt | adopt a server state, import, commands to the server, local commands, settle, rates | HTTP API, domain, other tabs |
| platform adapters (`platform/adapter.*.ts`) | the verified session of a tab | launch, requests bound to a session | Telegram's web view, client store |
| app bootstrap (`src/app`) | launch state, launch receipt ("cookie") | launch, foreground synchronisation, quarantine of a changed session | client store, adapters |
| exchange rates (`services/exchangeRates.ts`) | a cached snapshot, a request in flight | fetch, fall back | client store, bank service |
| bot setup and process (`bot/main.ts`, `setup.ts`) | none durable | start, profile setup with retries, fatal stop | everything above |
| deployment (`deploy/`) | releases, certificates, the ledger mode | release, roll back, activate | host |
| UI, localisation, statements | view state | rendering | client store |

How they meet: the poller awaits its handler for one update at a time, so chat commands are serial; HTTP requests
interleave with it at every `await`; every repository method is one synchronous `BEGIN IMMEDIATE` transaction. The
domain is called inside such a transaction. Notices leave through an outbox that the poller's flush drains.

What is hard here:
* two sources of commands on one ledger, retried by two different clients, with a bounded memory of what was done;
* a message is sent by one `await` between two transactions: a crash, a loss or a refusal may fall on either side;
* Telegram forgets updates after a day and may renumber them after a quiet week;
* a wizard's review is confirmed late, twice, from an old message or across midnight, while the Mini App changes the
  bank;
* two tabs share a device's storage while the server takes its ledger over, answers arrive late and out of order, a
  tab dies between two of three writes, Telegram changes the account underneath, an operator restores a database;
* name, language and currency are changed in the chat and in the Mini App and change their owner with the server ledger;
* budgets of a user are charged around the await of a body, by several clients;
* the calendar acts on the ledger before every command, in a ledger that may be full, and the strict parser makes
  any state it would not accept fatal for its user.

What makes each part correct: *bank authority*: a command takes effect at most once and is answered from what was
recorded; a revision names one state; nothing that owes a notice is forgotten before the notice is settled; users do
not touch each other. *Poller*: no update is confirmed before it is settled, none is handled twice after it was
settled, a poisonous one does not block. *Wizard*: one pending reply per user, of the session it belongs to; a
review executes at most once, and on what it showed. *Ledger*: what the parser demands of a stored state holds
after every sequence of commands and days; materialising once is enough; no deposit earns for days it was not there.
*Client store*: a device never goes back to an older revision or to local mode, never loses unsent history unasked, and
never mixes users. *Rate limiter*: budgets bound every span of time, and a retry of a stored mutation is always
answered. *Onboarding*: a text becomes a name only when asked for, once, and is answered; a revision of the preferences
means one choice.

## 2. The modules

| module | models |
|---|---|
| `BankAuthority` | the bank tables, the service and the notice sender |
| `RetrySafeLedger` | what the authority promises: effect, memory and answer are one step |
| `UpdatePoller` | the polling loop, its two tables, and Telegram's queue |
| `ChatFlow` | the wizard as the handler of `UpdatePoller` (it extends that module) |
| `Ledger` | the money of one user, its calendar, its commands and the parser of a stored state |
| `LedgerClient` | the tabs of a device, its storage, and the server, the operator and other devices around them |
| `Gateway` | the rate limiter and the HTTP and chat handlers that charge it |
| `Onboarding` | the onboarding engine, the preferences and the launches that read them |
| `MC...` | the model values of each |

| proofs | about | rest on |
|---|---|---|
| `BankAuthority_proofs` | types, rows, notices, retention, revisions, outcomes; the authority implements `RetrySafeLedger` | |
| `Ledger_proofs` | types, interest, materialisation, the Mini App's mirror of it, and that every state can be read again | |
| `UpdatePoller_proofs` | confirmed only when settled, in order, handled once | |
| `ChatFlow_proofs` | replies, sessions, reviews and confirmations | `UpdatePoller_proofs` |
| `LedgerClient_proofs` | authority, namespaces, receipts | |
| `LedgerClientHistory_proofs` | what a device has saved, what its receipt vouches for, and what the only tab shows | `LedgerClient_proofs` |
| `Gateway_proofs` | budgets, eviction, waiting, retries | |
| `Onboarding_proofs` | names, cards, preferences and the device | |

Every definition is tied to its source lines by `map` in `PROJECT.json`. Definitions commented as *mutant* are
deliberately wrong variants of the one that follows; each property has one that breaks it.

### BankAuthority

A bank state is `[origin, book, accrued, rates, revision]`: what an import or a demo reset brought, the commands that
took effect since, the calendar events materialised, the version of the rate snapshot. The verdict of the domain is
free (`Ledger` says what it does); equal canonical hashes are equal commands. Correspondence:

* `ImportState`, `ReplayOrRefuseImport`: `importBankState`; one origin per user, replay by import ID.
* `ReplayCommand`, `RefuseCommand`, `ExecuteCommand`: `executeCommand` / `executeBankOperation`. Calendar
  materialisation, the command, the revision step, the operation row, the notice and the retention of the replay
  window are one transaction. A rejected command stores its verdict and leaves the state alone. "unchanged" is any
  command that leaves the state as materialised, the ones the domain answers as applied included (a rule that is resumed and
  paused again, a demo rebuilt as it is: `JustReset`); `MayWarn` says which commands may leave a warning.
* `MutateBankState`: `mutateBankState`, a new state outside an operation, with its `materialize:<revision>` key;
  `Bootstrap` and the end of a rate refresh are its two callers.
* `BeginRefresh`, `FinishRefresh`, `FailRefresh`: `refreshRates` around its await of the provider.
* `StartFlush`, `BeginSend`, `CompleteSend`, `DeferSend`, `RetryFallsDue`: `flushBankOutbox`. `TelegramAccepts`,
  `TelegramRejects` and `TelegramFails` are Telegram's.
* `Crash` loses the memory of the process (batch, send, awaited refreshes) and keeps the tables.

Retry times are a flag `due`; the order in a batch is free; requests that are malformed or too large change nothing
and are left out; chat commands come only while the sender is idle, because both run in the one poll loop. SQLite
reuses the greatest row id after a deletion, the model numbers rows by a serial: what holds an id across an await
holds a row that is protected (`DeliveriesBacked`). A fatal Telegram answer (401, 404) is a `TelegramFails`, then
perhaps a `Crash`.

### UpdatePoller

Time is in days. `PollerAssumption` states what the code relies on: the six days after which the loop forgets its
offset plus Telegram's 24 hours of retention are no more than the seven quiet days after which Telegram renumbers. Ids
do not return. `PreparePolling` is `preparePolling`, `ReceiveUpdates`/`PollFails` the call, `TakeUpdate`,
`HandlerReturns` and `HandlerFails` the batch loop with retries and drops, `BeginFlush`/`EndFlush` what follows it,
`Restart` the end of the process. The ids' overflow check and the pruning of processed ids to 4096 are left out.

### ChatFlow

The handler is split where the code awaits or where it commits a second transaction: `Enter`, `HandleCommand`,
`HandleText`, `HandlePress` (up to `answerCallbackQuery`), the answers to a press (`PressBack`, `PressNext`,
`PressReview`, `ConfirmExecutes`, `ConfirmAgain`, `ConfirmRefused`), `DeleteSession`, and the sends (`SendAccepted`,
`SendRefused`, `DeleteRefused`, `SendLost`). The flush of pending replies after a batch is `FlushBegins`,
`FlushNext`, `FlushEnds`. What a wizard does with an update is an operator of its own, in the code's names: the
dashboard, the transaction, account and recurring wizards with their texts, presses, reviews, and what each does when
the bank changed under its review (`TransactionChanged`, `AccountChanged`, `RecurringChanged`). Which of the wizards a
session belongs to, and the contents of a draft, are left out: each step offers what any of them may do. A
review shows one value of the bank and, for transactions and recurring rules, the UTC day; account reviews bind no
day. The command reads its own clock after the check: when the day has turned between the two it materialises what the new
day makes due, and is executed on a bank that may be any (`ExecutedOn`). `held` is the session read before an await. `MiniAppActs` changes the bank between any two steps of the
handler except inside a transaction. Users are past the onboarding and the server ledger is active.

### Ledger

State is the day and the `BankState`. A row is `[account, amount, balance, kind, rule, date, day]`; its place in the
sequence is its `seq`; `date` is the effective date and `day` the day of `createdAt`. Each command is an action on a
state `b`; `ApplyBankCommand` dispatches a member of `BankCommands` to it, `ExecuteCommand` on the materialised state as
the service does. `TransferLocally`, `SettleNow` and `ToggleCardFreeze` are a device in local mode. `Materialized` is
`materializeBankState`: interest as one batch or not at all, then every rule. `MaterializeRule` keeps the order of the
code: skip, capacity, funds, post and advance. Months are long and short in turn, so that billing days clamp;
there are two currencies at one fixed rate and interest is a fraction of the principal rounded half up.
`ParseBankState` and the operators above it are `parseBankState` with its checks between fields; the service runs it
on every state it reads, so that a stored state it refuses is fatal for its user.

Left out: names, notes, categories and user-chosen effective dates of manual rows; the primary currency and the
display name, which have no effect on the ledger; the USD limit of a command and safe-integer overflow; the
fixture's history (the seed is one row on each account it opens); of the parser, the formats of fields, contacts, profile
and rates, the ten-year window of dates and the start of a rule relative to its creation. An account was created on the day of its
first row. The limits on accounts and rules are the sizes
of their sets, and the clock does not go back.

### LedgerClient

A bank state is the set of operations it contains, a revision `[epoch, revision, ops]`. The code's lock bodies
(Web Locks, taken as present) are synchronous and are one step each, with every outcome of their writes: `Commit` and
`Adopt` have a disjunct for a write that the device refuses, and `Reload` kills a tab after any of the writes.

* `LocalCommand`, `LocalCommandRefused`, `SeesSavedBank`: the local write path of `bankStore.ts` and the storage event.
* `SendCommand`, `SendFindsOtherSession`, `CommandAnswered`, `CommandFails`: `executeServerCommand`, with the session
  check of the adapter before the request and after the answer. The adoption waits for its queue and its lock after the
  second check; a switch of the session in that wait, which the tab has not noticed, still adopts into the old namespace.
  It commutes with everything else up to the adoption, so the model lets the check pass at that moment (`CommandAnswered`,
  `ImportAnswered`) and needs no state for the wait.
* `Decision`, `Advanced`: `classifyLedgerAuthorityRevision`, `advanceLedgerAuthorityReceipt`; `Adopt`:
  `adoptServerRevision`; `Writes`: its marker, bank and receipt in their order.
* `SyncStart` to `SyncFails`: `synchronizeLaunchPreferences` under the launch lock, `activateVerifiedTelegramSession`,
  `applyLaunchPreferences`, `synchronizeTelegramBank` with its three offers (no bank, import, server).
* `Approve`, `SwitchSession`, `NoticeSession`, `Reload`: the user, Telegram, the foreground signal, the end of a tab.
* `Server...`, `Others...`, `Operator...`: the other side. `ServerExecutes` and `ServerImports` abstract what
  `BankAuthority` models; requests may be executed although their answer is lost.

A tab runs one synchronization at a time. Preferences have one revision per generation (`cookie`); a refusal of the
locale is a retry. The client-contract marker, the local refresh of rates and the choice of the currency are left out.

### Gateway

`Consume` is `consume` of the limiter as one synchronous call; `Arrive`, `ReadImport`, `ReadCommand` and `BodyFails`
are the import and command handlers around the await of the body; `Bootstrap` and `Rates` are charged after it;
`ChatCommand` is the wizard's charge of the same budget. `Tick`, `ClockSetBack` and `Restart` are the environment. The bank is the
rows of each user's operations in the order they were stored, and which of them have a notice in the outbox: `MakeRoom` is the
retention, which deletes the oldest command without a notice and refuses the new one when there is none, `SettleNotice` the
end of a notice (how it ends is `BankAuthority`'s). `Answer` is what a request would be told if it were decided now. Rows of the
system are neither counted nor deleted by the retention and are left out. `charged`, `promised`, `others`, `book` and
`peak` are history: what was charged and told, who called, every row there was, and the most notices the retention met.

### Onboarding

One user. The handler is split at its awaits; `at` says where it is and `after` where a send returns to. `HandleStart`
to `TakeName` are messages; `ExecuteCanonical`, `CanonicalRefused`, `CanonicalApplied` are preferences as commands
to the bank once the server owns them; `ChooseLanguage`, `ChooseCurrency`, `AskForName`, `ChooseTelegramName` the
buttons before that. `ReplyAccepted`, `ReplyRefused`, `ReplyDeferred` and the flush are `#attemptPendingReply` and
`flushPendingReplies`. `Bootstrap` and `Adopt` are the launch of the Mini App, `Edit...` its settings, `Import` its
import. `answerCallbackQuery` changes nothing and is left out; what the wizard does with a command or a text is
`ChatFlow`'s, the bank's own commands are `BankAuthority`'s.

## 3. The runs

| run | question | bounds |
|---|---|---|
| `bank_core` | are tables, answers and notices consistent, is room made safely, does every notice settle | fair, 1 user, both sources, a resumed rule and a reset, a window of one row, 3 rows, 1 calendar event, 1 crash, an attempts ceiling of 1 |
| `bank_rates` | the await of a rate refresh against commands; the refinement of `RetrySafeLedger` | 2 users, 2 keys, 4 rows, 2 rate versions |
| `poller` | confirmed only when settled, in order, once; progress | fair, 3 updates, 5 days (one quiet week and retention), 1 restart, 2 attempts |
| `chat_replies` | replies, sessions, reviews and confirmations across a crash and a midnight | 4 updates (any second, a confirmation or a new wizard third, a confirmation fourth), 2 amounts, 1 restart |
| `chat_settles` | does every reply settle | fair, 2 updates, 1 restart, 2 attempts |
| `chat_midnight` | a disagreement with the docs, below | 3 updates, 1 midnight |
| `ledger` | does what is stored parse, is one materialisation enough, does interest come first | 4 accounts in 2 currencies, 5 rows, 3 days in 2 months, a clamped billing day |
| `client` | marker, bank and receipt across two tabs, faults and refusals | 2 tabs, 1 user, 2 operations, 2 revisions, 1 refused write, 1 fault |
| `client_session` | isolation of users, answers on the screen, convergence | fair, 1 tab, 2 users, 2 sessions, 2 operations, 3 revisions, a restored database, the old shared namespace |
| `client_restore` | a disagreement with the docs, below | 2 tabs, 2 generations |
| `gateway` | budgets, eviction, delays, what a retry learns | 3 users on 2 places, 4 events, windows of 3 ticks, 2 ids, 2 retained commands |
| `onboarding` | names, cards, preferences and the device | fair, 3 updates of any kind (`/start` stands for `/cancel`), 1 crash, 1 fault, 1 launch, the activation |

Several properties are conjunctions of named parts, so that one run of TLC shows them together: `RoomIsMade` is
`WindowBounded` and `DeliveriesBacked`; `RepliesHavePurpose` is `PendingReplyOwnsSession` (with at
most one pending reply of a user) and `ReceiptsDisappear`; `ChatTypeOK` contains `PollerTypeOK`; `StateParses` is `LedgerTypeOK` and all of `ParseBankState`;
`NamespacesIsolated` contains `ClientTypeOK`, `RecentRemembered` contains `GatewayTypeOK`, `NameIntentSettled`
contains `OnboardingTypeOK`, `NameTakenOnce` and `NameShownOrOwed`.

Why these bounds are enough to be interesting: a replay window of one row makes every second command evict; three
rows are an import or a materialisation and two commands, so that a key can be forgotten and come back; three updates are
one being settled, one failing and one behind it; five days hold the loss of an update, the quiet period and the reset
of the offset; four chat updates are a command, a review, its confirmation and one more confirmation or a
second review. Five ledger rows are the seed, a transfer and the interest that could fall between its legs,
and the same five fill the ledger up. `chat_replies` gives an update two lives by the restart: redelivery takes the
place of a retry, which `chat_settles` has. In `client` two revisions are an import and one command after it, and two
tabs are enough for one to overtake the other; `client_session` restores a database once, so that each generation
retires the one before. In `gateway` two places for three users make every third user push one out; four events are an
import and three commands, the third of which evicts, steps over a pending notice or is refused for want of room, or they are
fewer and a refusal at the ingress, a restart or a retry. A fifth would be needed to execute an evicted operation again:
`bank_core` reaches that, and `RetriesAreAnswered` covers it. One payload per id is enough there, because `bank_core` has the conflicts of
one id with two. Three onboarding
updates are the question, the name and one that comes between or after.

Deadlock is checked in every run. Two properties are refinements or compare with another
definition of the code: `RetrySafe` shows that `BankAuthority` implements `RetrySafeLedger` under the mapping in `BankAuthority`, and
`MirrorAgrees` that the Mini App's copy of the materialisation test (`needsServerMaterialization`) says yes exactly when
the service would change the state. `RetrySafe` quantifies over two users and covers their isolation.

Preconditions that some properties carry: `BankCoversReceipt` and `LocalHistoryKept` say nothing once the device has refused
a write (memory then counts as the bank, and may be written over what another tab saved), and `BankCoversReceipt` is about a
database that was not restored: afterwards a device whose first receipt is of the new generation may save a late answer of
the old one over its bank, which is the behaviour of `client_restore`; `ConfirmedAsShown` binds the bank of an
execution only if midnight UTC did not pass between the check and the command: it may otherwise be one that no message showed, also for
account reviews, which bind no day (`chat_midnight`); `RetriesLearn` ends with the retention (`Remembered`): once as many newer commands as
are kept have come, less the notices it had to step over, the row may be gone, and a retry is then executed again; `AnswersStayShown` is
stated for one tab and for storage that refuses nothing (when the answer of a command cannot be saved, a launch that was
answered before it may adopt the older ledger); `OncePerReview` exempts a review whose confirmation was given up after its command was
committed: when the process dies before the session is deleted and every redelivery fails, the review is left behind
and can be confirmed again; `OnlyAskedFor` and `NameShownOrOwed` exempt users who had a message refused or an update given up.

### Fairness

* `bank_core`: the loop flushes again and completes or defers a send (weak fairness of each step); a row's retry
  time comes; Telegram answers a request, and does not fail the same row for ever (strong fairness by row).
  Crashes are bounded. The code's back-off is unbounded in number but bounded in delay, so retries go on.
* `poller`: each step of the loop is weakly fair, because it runs until the process ends and the container restarts
  it (`deploy`); a poll is answered if polls go on (strong fairness).
* `chat_settles`: the same loop, and each message is accepted or refused if it is tried again and again.
* `client_session`: a tab asks again now and then (the foreground signals, the retry button and the retries of
  `BootstrapGate.tsx`), the server answers a launch, a step that a tab can take is taken (weak fairness), and the launch
  lock is handed out in the order of the requests, as Web Locks are (strong fairness of `Activate`). Nothing is assumed
  of commands, sessions or the operator; convergence is claimed once the server is active for good.
* `onboarding`: the loop goes on and a retry falls due (weak fairness). Faults are bounded, so that no strong fairness of
  Telegram is needed.

### Disagreements with the documentation

`chat_midnight`: `docs/spec.md:56-58` says that a recurrence review binds the UTC day and that a changed snapshot
requires a new review. The confirmation compares the day of one clock reading (`bank-flow.ts:1832`) and
`executeCommand` takes another (`bank-service.ts:513`). When midnight falls between them the command runs on a day the
review did not bind, and on a bank with what that day made due. The run finds the behaviour.

`client_restore`: `docs/internal/TELEGRAM_LEDGER_DESIGN_2026_09_05.md:534-536` says that a delayed response of the old
database generation cannot come back. `classifyLedgerAuthorityRevision` takes every generation that is not in the ring
of retired ones for newer, and the ring holds those this device's receipt has left. A device whose first receipt
is of the restored generation, while another tab still awaits an answer of the one before, goes back.

## 4. The proofs

TLAPS checks every theorem for every value of the constants that satisfies the assumption of its module, the bounds
included: a bound is any natural number. TLC checked the inductive invariants on the runs' instances before they were proved.

| theorem | module | establishes |
|---|---|---|
| `TypesHold` | `BankAuthority_proofs` | `TypeOK` |
| `KeysAreUnique` | | `UniqueKeys`: the UNIQUE constraint never fires |
| `RevisionsFollow` | | `RowsFollowRevisions`: no row names a revision its user's state has not reached |
| `AnswersKeepStanding` | | `AnswersStand`: an answer given once stays what the stored row says |
| `DeliveriesStayBacked`, `WindowStaysBounded`, `MakingRoomIsSafe` | | `RoomIsMade` and its two halves |
| `NoticesAreNotLost` | | `NoNoticeLost`: a queued notice is in the outbox, accepted or refused |
| `RevisionsNameStates`, `NothingGetsOlder` | | the action properties `RevisionNamesState` and `NeverOlder` |
| `OutcomesAreTrue` | | `OutcomesMatchLedger`: an applied command took effect once, every other one never |
| `AuthorityIsRetrySafe` | | `RetrySafe`: the refinement |
| `LedgerTypes` | `Ledger_proofs` | `LedgerTypeOK` |
| `InterestIsSettledFirst` | | `InterestSettledFirst` |
| `MaterializingSettles`, `MirrorAgreesWithService` | | `MaterializationSettles`, `MirrorAgrees` |
| `StatesParse` | | `StateParses`: no command leaves a state that the parser refuses to read again |
| `ConfirmedWereSettled`, `UpdatesAreHandledOnce`, `UpdatesSettleInOrder` | `UpdatePoller_proofs` | `OnlySettledAreConfirmed`, `HandledOnce`, `SettledInOrder` |
| `RepliesServe`, `SessionsArePrompted` | `ChatFlow_proofs` | `RepliesHavePurpose`, `SessionIsPrompted` |
| `ExecutedAsShown`, `ReviewsTakeEffectOnce` | | `ConfirmedAsShown`, `OncePerReview` |
| `FlowsAreBounded`, `ChatTypesHold` | | one flow id for an update and one more for a restart, hence `ChatTypeOK` |
| `AuthorityHolds`, `NamespacesStayIsolated`, `ReceiptsAdvance` | `LedgerClient_proofs` | `AuthorityIsSticky`, `NamespacesIsolated`, `ReceiptAdvances` |
| `BankCovers`, `HistoryKept` | `LedgerClientHistory_proofs` | `BankCoversReceipt`, `LocalHistoryKept` |
| `AnswersStay` | | `AnswersStayShown`, for a device with one tab |
| `KnownRevisionsAgree` | | `RevisionsAgree`: no answer in hand conflicts with the receipt of its revision |
| `SpansAreBounded`, `TheRecentAreRemembered` | `Gateway_proofs` | `SpanBounded`, `RecentRemembered` |
| `WaitingIsEnough`, `RetriesAreAnswered` | | `WaitIsEnough`, `RetriesLearn` |
| `NamesAreSettled`, `DevicesAgree`, `NamesAreAskedFor` | `Onboarding_proofs` | `NameIntentSettled`, `DeviceAgrees`, `OnlyAskedFor` |

### The assumptions on constants

The limits are natural numbers, positive where the code's are. Sentinels (`NoBank`, `NoSession`, `NoUser`, `NoRequest`,
`none`) are outside the data they stand beside, as `null` is. Four assumptions say something of the code:
`PollerAssumption` (see `UpdatePoller`), `LedgerAssumption` (the fixture opens checking accounts in different currencies, as `buildSyntheticSeed`
does, and the limit of rows is above the rows it opens with), `FlowTTLDays <= RetentionDays` of `ChatFlow` (a session lives 24 hours, Telegram keeps
an update as long), and `Window[k] >= Second` of `Gateway` (the delays a client is told are whole seconds).

### The bank authority

The lemma `StepKinds` shows that each of the service's many actions is one of four kinds of change to
the tables: it inserts a row (and evicts some, and may queue a notice), rewrites one user's state, recalls an answer, or
keeps the tables. Each inductive invariant is shown to survive the four kinds and the sender's steps.

* `TypeInv` adds to the types that a message is on the wire exactly while a row is being sent, and that only users
  with a bank await a refresh: without the second, finishing a refresh would not type.
* `RowInv` adds that serials are drawn once (`RowSerials`) and that the key of a system row is the revision it made
  (`SystemKeys`): with `RowsFollowRevisions` this keeps the self-drawn key `materialize:<revision>` unique.
* `NoticeInv` adds that what the wire says happened is what Telegram did, and that a row on the wire has left the
  batch (`WireTruthful`): without it completing a send could delete a notice that was never accepted.
* `WindowInv` adds that the table is finite: cardinalities mean nothing otherwise. The runs use a window of one row; the
  theorem covers every size.
* `BookInv` says that a book names only rows that were inserted, so that the next row is in none; the outcome of a
  row can then not become false when its serial is drawn. It counts from the last demo reset, which forgets the book.

`KeysAreUnique` covers the self-drawn keys because a materialisation with a notice always changes the state, hence the
revision: the guard `accrued < calendar` of `Bootstrap`, where the code throws otherwise.

The refinement maps a state to the commands in its book and a user's memory to the rows in the replay window. Of the four
kinds only an insertion changes what the mapping shows (one performed command, or one refused), and a recall
is the answer from memory; everything else stutters. It needs `RowInv` for the row that a key names to be the one recalled.

### The poller and the wizard

`PollerInv` says that Telegram's ids grow with its serials within one sequence and that a second sequence starts only when
the first is out of retention (`Numbered`, `OneSequence`), that the stored offset is behind nothing unsettled
(`OffsetKnown`), and that a batch holds what is due, in order, without a gap (`Batched`, `InOrder`). `LeastElement`, that a set of
naturals has a least element, gives the batch its head; it is proved with finite cardinalities, because the library's
induction cannot be instantiated.

`WizardInv` extends `PollerInv` to the handler: where it is (`PlacesInv`), what it read before its awaits is still the stored
session (`HeldInv`), a flow id belongs to one user and has one review (`FlowsInv`), a confirmation is a button its user was
shown (`BodiesInv`), nothing is owed to a user whose update is looked at (`TurnInv`), an operation belongs to one press
(`RecordsInv`). `OncePerReview` is inductive only with `Guarded`: after an operation is committed its session is gone or dead, or the
update that committed it is handled again before anybody else can use the review and will delete it, or it was given up.
That is where the retention of updates must cover the life of a session.

`ChatInv` adds `DrawsInv` for the types: the flow ids drawn are no more than the updates that can draw no more, plus the
restarts. A redelivered update that left a reply draws none; one that the process died under may draw again.

### The ledger

`LedgerInv` has the types (`BankStates`), that no row is ahead of the clock, that no row on the savings account is later than its
anchor, and that rules run only on active accounts (`RulesFollow`): without the last, a rule of a closed account
could stay active and due, because materialising skips it. It is shown for a state `b` and one command, `Good(b)`, so
that the same lemma serves the service, which applies a command to the materialised state, and a device, which applies it to what it
stored.

The model folds over the rules of a state, the dates of a rule and the days of a principal with functions that are defined
by recursion in a `LET`. `Recursion` and `OneSolution` show, from a least counterexample, that such a function exists,
is unique and stays in its set; the step is a function, not an operator, so that the provers can instantiate it.
`DatesFacts` says of the calendar that the due dates lie in consecutive months and the next one is
ahead of the clock, `PostedFacts` that each missing date becomes one row and no other does. `Onward` collects what
materialising may do to a state; it is reflexive and transitive, and when nothing is due it is the identity. `OnePass` then
says what one materialisation leaves: nothing due, and interest that is settled or still does not fit. The second pass, and both
sides of `MirrorAgrees`, follow from it.

`StateParses` needs more, because the parser relates parts of a state that no single command writes together. `ParsedInv` says
of the stored state:

* `Regular`: `Good`, and what the parser asks of accounts, rows, rules, cards and recent ids one by one, with the balance of each
  row the one before it on the account plus its amount. This holds even between the two legs of a transfer, and between two
  dates that a rule posts.
* `AllHave`: every account there is has a row. The model takes the day of the first as the day of its creation, so that day is
  defined and no later row moves it; an account that was never added has no row, no rule and no card that names it.
* `HasValidTransferGroups` and `HasContinuousRecurringOccurrences`, which hold between commands only. For the second a rule's rows are
  counted until any given month (`OccursUntil`): posting the missed dates is then an induction date by date from the month of
  the next occurrence to the month it is advanced to, and `Recursion` gives the same for the fold over the rules.
* `Fits`, that the rows are within the limit, is apart (`Sound` is the rest): a command may settle interest before it finds that
  its own rows do not fit, and is then refused as a whole.

Each operation has a lemma that takes one such state to another (`CommandParsed` for the commands, `MaterializedParsed` for what
is due, `ParsedInvStep` for the steps); `LaterParsed` is the clock, which the parser's checks against today allow to go on.

### The client

`ClientInv` ties each tab to the session it proved (`TabInv`), each receipt to the marker and to revisions that a server gave
(`Vouched`), an import on its way to the marker that was written before it (`ImportsMarked`), and each operation to the user
on whose screen it was made (`Isolated`). It does not mention what storage holds relative to memory, so it survives
refused writes.

`HistoryInv` adds that the revisions of a user's ledger form one line wherever they are held (the server, a request, a
launch, the receipt): nobody has a later one than the server, and of two of one generation the later contains the earlier (`InLine`).
While no write was refused (`Unrefused`) it relates memory and storage: what a tab shows is saved (`OwnerSaved`, `ReadyFor`); a
server's ledger that a launch may adopt without a receipt meets a device without a bank, or a tab that must ask its user
(`Adoptable`); without a marker on the device the server's ledger has an operation from elsewhere, so that it cannot pass for what the
device has saved (`Elsewhere`); and what is saved is in the import a tab waits for (`ImportsKept`). `LockHeldOnce` is needed
because a launch acts on what it read while it held the lock. `RevisionsAgree` needs no precondition: a `digest_conflict`
can only mean that the server broke its word.

`ShownInv` is about a device with one tab whose storage refused nothing. A tab that may send commands, or shows the server's
ledger, is on a device whose saved bank is exactly what the receipt vouches for (`Settled`), so the screen is the receipt.
The hard case is a launch whose ledger a command overtakes while it is in hand: the tab is then trusted again without
adopting anything. It needs the last part of `ScreenInv`, that such a launch meets a settled device, and that holds
because a ledger is the server's last revision when a launch receives it (`PendingBefore`, `ServerAhead`). What was answered stays
because all revisions are in line (`InLine`). With two tabs the other one may hold a later answer.

### The gateway and the onboarding

`GatewayInv` states of every user and kind what a window accounts for (`Cell`: the charges that no call had to forget, the current
window's at the end, the previous window's before them) and of the map that it is in the order of use, with everybody pushed
out behind `MaxTracked` others. `Span` follows by comparing positions in the list of charges, without induction. Its last part, `Tables`, is
for retries: only commands are deleted, none of the newest `Retained - peak` rows is, and of the rows of one key only the newest
can be stored (`Kept`). The first holds because what is older than the deleted row and still stored is stepped over for its notice
(`RoomIsOld`), the second because a key is free only when its row is gone.

`OnboardingInv` has a part for the rows and what the Mini App applied (`RowsInv`), the handler (`ControlInv`), the names taken
(`NamesInv`: a text once taken cannot be taken again, because nobody is asked any more or the bank knows its operation), the
cards shown or owed (`CardsInv`) and the question (`QuestionInv`).

### Model-checked only

* Liveness under fairness and ENABLED are out of the prover's reach: `EveryNoticeSettles`, `EveryUpdateSettles`,
  `RepliesSettle`, `EveryNameAnswered`, `Converges`.
* What the two runs refute, `ConfirmedOnShownDay` and `GenerationsAdvance`.

## 5. Not modelled

* Signature checks, body limits, routing and error texts of the HTTP API; the Telegram transport's envelope: pure
  functions of one request, whose outcomes are actions above.
* The UI, localisation, statements: rendering and pure projections.
* The exchange-rate cache (`services/exchangeRates.ts`) and the local refresh of rates: one shared request and a comparison;
  the race that matters, a refresh against commands on one ledger, is in `BankAuthority`.
* The bot's setup repeats idempotent calls. The release and certificate scripts run one at a time under `flock`, by an
  operator; their effect on the ledger mode is an action of `BankAuthority` and `LedgerClient`.
* Telegram's reuse of update ids after a quiet week: ids do not return in `UpdatePoller`. A pending reply that outlives
  them could meet a new update of the same number.

## 6. Plan

Done, in the order of how much money or trust a mistake costs: `BankAuthority` with `RetrySafeLedger` and the proofs;
`UpdatePoller`; `ChatFlow`, which extends it; `Ledger`; `LedgerClient`; `Gateway`; `Onboarding`.

What is left to model: an id space in which update ids return; the exchange-rate cache; which wizard a session
belongs to.

Every invariant and action property of the passing runs is stated by a theorem.
