----------------------------- MODULE UpdatePoller -----------------------------
(***************************************************************************)
(* The long-polling loop of the bot (LongPoller.run of bot/poller.ts) with *)
(* the rows of processed_updates and service_state it keeps, and the queue *)
(* of updates that Telegram holds for it.                                  *)
(*                                                                         *)
(* Telegram keeps an update until a getUpdates call names a higher offset, *)
(* or for RetentionDays.  After QuietDays without an update it numbers the *)
(* next one at random; ids that it used before are taken not to return.    *)
(* Time is counted in days: a poll and the handling of a batch fall within *)
(* one day.  What the handler does with an update is left free here.       *)
(***************************************************************************)
EXTENDS Integers, FiniteSets

CONSTANTS
  Bodies,             \* what an update may carry
  MaxUpdateAttempts,  \* MAX_UPDATE_ATTEMPTS, 5 in production
  ResetAfterDays,     \* UPDATE_SEQUENCE_RESET_AFTER_MS, 6 days
  RetentionDays,      \* Telegram keeps an undelivered update 24 hours
  QuietDays,          \* Telegram renumbers after a week without updates
  MaxId,              \* bound: update ids
  MaxUpdates,         \* bound: updates that ever arrive
  MaxDays,            \* bound: days that pass
  MaxRestarts         \* bound: ends of the process, by a crash or a fatal error

ASSUME PollerAssumption ==
  /\ MaxUpdateAttempts \in Nat \ {0}
  /\ RetentionDays \in Nat \ {0}
  /\ ResetAfterDays \in Nat /\ ResetAfterDays > RetentionDays
  /\ QuietDays \in Nat /\ QuietDays >= ResetAfterDays + RetentionDays
  /\ MaxDays \in Nat \ {0}
  /\ MaxId \in Nat /\ MaxUpdates \in Nat /\ MaxRestarts \in Nat

VARIABLES
  today,         \* the day
  inbox,         \* Telegram: the updates it holds
  issued,        \* Telegram: the ids it has used
  newest,        \* Telegram: id and day of its last update, 0 before the first
  nextOffset,    \* service_state.next_update_offset, 0 for NULL
  lastUpdateDay, \* service_state.last_update_at_ms, 0 for NULL
  processed,     \* processed_updates
  phase,         \* where the loop is
  offset,        \* the offset of the running getUpdates, 0 for none
  batch,         \* updates received and not yet done with
  attempts,      \* #updateAttempts, in memory
  restarts,      \* ends of the process so far
  settled,       \* history: updates handled or dropped
  dropped        \* history: updates given up

telegram == <<inbox, issued, newest>>
service  == <<nextOffset, lastUpdateDay, processed>>
loop     == <<phase, offset, batch, attempts>>
past     == <<settled, dropped>>
pollerVars == <<today, telegram, service, loop, restarts, past>>

Phases == {"idle", "polling", "ready", "handling", "flushing"}

\* An update: its place in the order of arrival names it in the histories.
Update(serial, id, body) == [serial |-> serial, id |-> id, day |-> today, body |-> body]

\* Updates are taken from a batch in the order of their ids.
Head(updates) == CHOOSE u \in updates : \A v \in updates : u.id <= v.id

-----------------------------------------------------------------------------
(* Telegram and time.                                                      *)

Arrive(id, body) ==
  /\ Cardinality(issued) < MaxUpdates
  /\ id \in (1..MaxId) \ issued
  /\ \/ issued = {}
     \/ today - newest.day >= QuietDays
     \/ id = newest.id + 1
  /\ inbox' = inbox \cup {Update(Cardinality(issued) + 1, id, body)}
  /\ issued' = issued \cup {id}
  /\ newest' = [id |-> id, day |-> today]
  /\ UNCHANGED <<today, service, loop, restarts, past>>

\* An update nobody fetched in time is gone.
Forget(u) ==
  /\ phase = "idle"
  /\ u \in inbox
  /\ today - u.day >= RetentionDays
  /\ inbox' = inbox \ {u}
  /\ UNCHANGED <<today, issued, newest, service, loop, restarts, past>>

NextDay ==
  /\ today < MaxDays
  /\ phase = "idle"
  /\ \A u \in inbox : today - u.day < RetentionDays
  /\ today' = today + 1
  /\ UNCHANGED <<telegram, service, loop, restarts, past>>

-----------------------------------------------------------------------------
(* The loop.                                                               *)

\* Mutants: the silence must outlast Telegram's week; any stored offset counts as old.
SequenceIsOlder == lastUpdateDay # 0 /\ today - lastUpdateDay > ResetAfterDays
SequenceIsAlwaysOld == lastUpdateDay # 0

\* No update was processed for six days.
SequenceIsOld == lastUpdateDay # 0 /\ today - lastUpdateDay >= ResetAfterDays

\* preparePolling: the stored offset, or none after six days without an update.
PreparePolling ==
  /\ phase = "idle"
  /\ phase' = "polling"
  /\ IF SequenceIsOld
     THEN /\ nextOffset' = 0 /\ lastUpdateDay' = 0 /\ processed' = {}
          /\ offset' = 0
     ELSE /\ offset' = nextOffset
          /\ UNCHANGED service
  /\ UNCHANGED <<today, telegram, batch, attempts, restarts, past>>

\* What Telegram keeps once a getUpdates call named the offset.
Unconfirmed == {u \in inbox : u.id >= offset}

\* Telegram confirms the updates below the offset and returns the first of the
\* others, all of them or up to the limit of a call.
ReceiveUpdates(updates) ==
  /\ phase = "polling"
  /\ updates \subseteq Unconfirmed
  /\ \A u \in updates, v \in Unconfirmed \ updates : u.serial < v.serial
  /\ updates = {} => Unconfirmed = {}
  /\ inbox' = Unconfirmed
  /\ batch' = updates
  /\ phase' = "ready"
  /\ UNCHANGED <<today, issued, newest, service, offset, attempts, restarts, past>>

\* The call fails, before or after Telegram took it: the loop backs off.
PollFails ==
  /\ phase = "polling"
  /\ inbox' \in {inbox, Unconfirmed}
  /\ phase' = "idle"
  /\ UNCHANGED <<today, issued, newest, service, offset, batch, attempts, restarts, past>>

\* The next update of the batch: hasProcessedUpdate passes over one that was
\* processed, another is handed to the handler.
TakeUpdate ==
  /\ phase = "ready" /\ batch # {}
  /\ IF Head(batch).id \in processed
     THEN /\ batch' = batch \ {Head(batch)}
          /\ UNCHANGED phase
     ELSE /\ phase' = "handling"
          /\ UNCHANGED batch
  /\ UNCHANGED <<today, telegram, service, offset, attempts, restarts, past>>

\* markProcessed: the id, the offset past it and the time, in one transaction.
MarkProcessed(u) ==
  /\ processed' = processed \cup {u.id}
  /\ nextOffset' = IF nextOffset <= u.id THEN u.id + 1 ELSE nextOffset
  /\ lastUpdateDay' = today
  /\ settled' = settled \cup {u.serial}

\* The handler returned: the update is marked and its failures are forgotten.
HandlerReturns ==
  LET u == Head(batch)
  IN  /\ phase = "handling"
      /\ MarkProcessed(u)
      /\ attempts' = [attempts EXCEPT ![u.id] = 0]
      /\ batch' = batch \ {u}
      /\ phase' = "ready"
      /\ UNCHANGED <<today, telegram, offset, restarts, dropped>>

\* Mutants: the loop goes on to the next update after a failure; failures are not
\* counted.
TriesAgainUncounted(u) ==
  /\ batch' = {}
  /\ phase' = "idle"
  /\ UNCHANGED <<service, attempts, settled, dropped>>

KeepsTryingNext(u) ==
  /\ attempts' = [attempts EXCEPT ![u.id] = @ + 1]
  /\ batch' = batch \ {u}
  /\ phase' = "ready"
  /\ UNCHANGED <<service, settled, dropped>>

\* A failure that another attempt may cure abandons the batch: the updates after
\* it are not handled before it.
TriesAgain(u) ==
  /\ attempts' = [attempts EXCEPT ![u.id] = @ + 1]
  /\ batch' = {}
  /\ phase' = "idle"
  /\ UNCHANGED <<service, settled, dropped>>

\* The update is given up: the loop goes on as if it had been handled.
Drops(u) ==
  /\ MarkProcessed(u)
  /\ attempts' = [attempts EXCEPT ![u.id] = 0]
  /\ batch' = batch \ {u}
  /\ phase' = "ready"
  /\ dropped' = dropped \cup {u.serial}

\* Poisonous, or out of attempts.
GivesUp(u, kind) == kind = "terminal" \/ attempts[u.id] + 1 >= MaxUpdateAttempts

\* The handler threw: a 400 or 403 of Telegram is terminal, others are transient.
HandlerFails(kind) ==
  LET u == Head(batch)
  IN  /\ phase = "handling"
      /\ kind \in {"transient", "terminal"}
      /\ IF GivesUp(u, kind) THEN Drops(u) ELSE TriesAgain(u)
      /\ UNCHANGED <<today, telegram, offset, restarts>>

\* The batch is done: what is due to be sent is sent, then the loop polls again.
BeginFlush ==
  /\ phase = "ready" /\ batch = {}
  /\ phase' = "flushing"
  /\ UNCHANGED <<today, telegram, service, offset, batch, attempts, restarts, past>>

EndFlush ==
  /\ phase = "flushing"
  /\ phase' = "idle"
  /\ UNCHANGED <<today, telegram, service, offset, batch, attempts, restarts, past>>

\* A crash, a shutdown or a fatal answer (401, 404) ends the process at any
\* point; its container starts it again.
Restart ==
  /\ restarts < MaxRestarts
  /\ restarts' = restarts + 1
  /\ phase' = "idle"
  /\ batch' = {}
  /\ attempts' = [id \in 1..MaxId |-> 0]
  /\ UNCHANGED <<today, telegram, service, offset, past>>

-----------------------------------------------------------------------------
PollerInit ==
  /\ today = 1
  /\ inbox = {} /\ issued = {} /\ newest = [id |-> 0, day |-> 0]
  /\ nextOffset = 0 /\ lastUpdateDay = 0 /\ processed = {}
  /\ phase = "idle" /\ offset = 0 /\ batch = {}
  /\ attempts = [id \in 1..MaxId |-> 0]
  /\ restarts = 0
  /\ settled = {} /\ dropped = {}

TelegramMoves ==
  \/ \E id \in 1..MaxId, body \in Bodies : Arrive(id, body)
  \/ \E u \in inbox : Forget(u)
  \/ NextDay

LoopStep ==
  \/ PreparePolling
  \/ \E updates \in SUBSET inbox : ReceiveUpdates(updates)
  \/ PollFails
  \/ TakeUpdate
  \/ HandlerReturns
  \/ \E kind \in {"transient", "terminal"} : HandlerFails(kind)
  \/ BeginFlush
  \/ EndFlush

PollerNext == TelegramMoves \/ LoopStep \/ Restart

PollerSpec == PollerInit /\ [][PollerNext]_pollerVars

-----------------------------------------------------------------------------
(* What the loop promises.                                                 *)

\* The type of every variable.
PollerTypeOK ==
  /\ today \in 1..MaxDays
  /\ \A u \in inbox \cup batch :
       u.serial \in 1..MaxUpdates /\ u.id \in 1..MaxId /\ u.day \in 1..MaxDays
  /\ issued \subseteq 1..MaxId
  /\ newest \in [id : 0..MaxId, day : 0..MaxDays]
  /\ nextOffset \in 0..MaxId + 1 /\ offset \in 0..MaxId + 1
  /\ lastUpdateDay \in 0..MaxDays
  /\ processed \subseteq 1..MaxId
  /\ phase \in Phases
  /\ attempts \in [1..MaxId -> 0..MaxUpdateAttempts - 1]
  /\ restarts \in 0..MaxRestarts
  /\ settled \subseteq 1..MaxUpdates /\ dropped \subseteq settled

\* Telegram is never told to discard an update that was not handled: every update
\* it still holds below the offset of a call was settled, also when Telegram
\* starts a new, lower sequence of ids after a week without updates.
OnlySettledAreConfirmed ==
  phase = "polling" => \A u \in inbox : u.id < offset => u.serial \in settled

\* Updates settle in the order of their arrival: none overtakes an earlier one
\* that Telegram still holds, whatever fails in between.
SettledInOrder ==
  [][\A u \in inbox : u.serial \in settled' \ settled =>
       \A v \in inbox : v.serial < u.serial => v.serial \in settled]_pollerVars

\* An update that was settled is never handled again, also not after the processed
\* ids were cleared for a new sequence.
HandledOnce ==
  phase = "handling" => Head(batch).serial \notin settled

\* Every update is settled in the end, or Telegram discards it: a poisonous one
\* does not block those behind it.
EveryUpdateSettles ==
  \A s \in 1..MaxUpdates :
    (\E u \in inbox : u.serial = s) ~>
      (s \in settled \/ \A u \in inbox : u.serial # s)

\* The loop runs on, the handler ends and Telegram answers some polls in the end.
PollerFairness ==
  /\ WF_pollerVars(PreparePolling)
  /\ SF_pollerVars(\E updates \in SUBSET inbox : ReceiveUpdates(updates))
  /\ WF_pollerVars(TakeUpdate)
  /\ WF_pollerVars(HandlerReturns \/ \E k \in {"transient", "terminal"} : HandlerFails(k))
  /\ WF_pollerVars(BeginFlush)
  /\ WF_pollerVars(EndFlush)

FairPollerSpec == PollerSpec /\ PollerFairness
=============================================================================
