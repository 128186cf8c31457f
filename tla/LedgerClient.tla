----------------------------- MODULE LedgerClient -----------------------------
(***************************************************************************)
(* The Mini App's bank on a device: the store of each tab (bankStore.ts),  *)
(* the localStorage that the tabs share (persistence.ts,                   *)
(* ledgerAuthorityReceipt.ts), the launch synchronization                  *)
(* (launchPreferences.ts) and the verified session of the Telegram         *)
(* adapter, against a server that answers late, twice or never.            *)
(*                                                                         *)
(* A bank state is the set of operations it contains.  Every body that     *)
(* runs under a Web Lock is synchronous and is one step here, with every   *)
(* outcome of its writes.  A tab runs one synchronization at a time.       *)
(***************************************************************************)
EXTENDS Integers, Sequences, FiniteSets, SequencesExt

CONSTANTS
  Tabs, Users,
  none,          \* no user, no saved bank, no receipt
  LegacyUser,    \* whose bank the old shared namespace holds, or none
  RetiredCap,    \* RETIRED_EPOCH_CAP, 8 in production
  MaxOps,        \* bound: operations made anywhere
  MaxRevision,   \* bound: revisions of a ledger
  MaxEpoch,      \* bound: generations of the server's database
  MaxSessions,   \* bound: Telegram sessions of a tab
  MaxCalls,      \* bound: commands of a tab under way
  MaxRefusals,   \* bound: writes that the device's storage refuses
  MaxFaults      \* bound: dead tabs, failed requests, rollbacks

ASSUME ClientAssumption ==
  /\ none \notin Users
  /\ LegacyUser \in Users \cup {none}
  /\ RetiredCap \in Nat \ {0}
  /\ \A n \in {MaxOps, MaxCalls, MaxRefusals, MaxFaults} : n \in Nat
  /\ \A n \in {MaxRevision, MaxEpoch, MaxSessions} : n \in Nat \ {0}
  \* none is neither a bank, nor a revision, nor a receipt
  /\ \A ops \in SUBSET (0..MaxOps) : none # ops
  /\ none \notin [epoch : Nat, revision : Nat, ops : SUBSET Nat]
  /\ none \notin [epoch : Nat, revision : Nat, ops : SUBSET Nat, retired : Seq(Nat)]

VARIABLES
  session,  \* the raw init data Telegram gives a tab: a user and a serial
  tab,      \* the memory of each tab
  sync,     \* the launch synchronization of each tab
  calls,    \* imports and commands sent, with the server's answer once given
  bank,     \* device: the saved bank of each user
  marker,   \* device: the sticky server-mode marker
  receipt,  \* device: the ledger authority receipt
  cookie,   \* device: the generation whose launch preferences were applied
  server,   \* the server's ledger of each user
  active,   \* whether the server runs in server mode
  epoch,    \* the generation of the server's database
  backup,   \* the snapshot an operator may restore
  made,     \* for whom each operation so far was made, in their order
  refusals, \* refused writes so far
  faults    \* other faults so far

device == <<bank, marker, receipt, cookie>>
remote == <<server, active, epoch, backup>>
failed == <<refusals, faults>>
clientVars == <<session, tab, sync, calls, device, remote, made, failed>>

Ops == 0..MaxOps     \* 0 stands for what the old shared namespace holds

Revisions == [epoch : 1..MaxEpoch, revision : 1..MaxRevision, ops : SUBSET Ops]

\* A tab in quarantine: a seed that no user owns.
Quarantined(T) ==
  [T EXCEPT !.scope = none, !.owner = none, !.ops = {}, !.mode = "read_only",
            !.dirty = FALSE, !.fresh = FALSE, !.unconfirmed = FALSE,
            !.approved = FALSE, !.asks = FALSE, !.gateway = FALSE]

\* The memory of a tab that has just been loaded.
LaunchTab == [scope |-> none, owner |-> none, ops |-> {}, mode |-> "read_only",
              dirty |-> FALSE, fresh |-> FALSE, unconfirmed |-> FALSE,
              approved |-> FALSE, asks |-> FALSE, gateway |-> FALSE,
              proved |-> 0, bound |-> 0]

\* No synchronization; it is due unless the last one came to an end.
Resting(due) == [phase |-> "idle", due |-> due, serial |-> 0, user |-> none,
                 epoch |-> 0, offer |-> "absent", bank |-> none]

Init ==
  /\ session \in [Tabs -> {[user |-> u, serial |-> 1] : u \in Users}]
  /\ tab = [t \in Tabs |-> LaunchTab]
  /\ sync = [t \in Tabs |-> Resting(TRUE)]
  /\ calls = {}
  /\ bank = [u \in Users |-> none]
  /\ marker = [u \in Users |-> FALSE]
  /\ receipt = [u \in Users |-> none]
  /\ cookie = [u \in Users |-> 0]
  /\ server = [u \in Users |-> none]
  /\ active = FALSE /\ epoch = 1
  /\ backup = server
  /\ made = <<>> /\ refusals = 0 /\ faults = 0

Fault == faults < MaxFaults /\ faults' = faults + 1 /\ UNCHANGED refusals
Refusal == refusals < MaxRefusals /\ refusals' = refusals + 1 /\ UNCHANGED faults

-----------------------------------------------------------------------------
(* The server, the bot and the operator.                                   *)

\* A command of a user, from anywhere, and the revision it makes.
Commanded(ledger, ops) ==
  [ledger EXCEPT !.revision = @ + 1, !.ops = @ \cup ops]

HasRoom(u) == server[u] # none /\ server[u].revision < MaxRevision

\* What a request finds: the whole canonical state with its revision.
ServerExecutes(c) ==
  /\ c \in calls /\ c.kind = "command" /\ c.answer = none
  /\ active /\ HasRoom(c.user)
  /\ server' = [server EXCEPT ![c.user] = Commanded(@, c.ops)]
  /\ calls' = (calls \ {c}) \cup
       IF c.live THEN {[c EXCEPT !.answer = server'[c.user]]} ELSE {}
  /\ UNCHANGED <<session, tab, sync, device, active, epoch, backup, made, failed>>

\* The first import of a user makes the ledger; another is refused.
ServerImports(c) ==
  /\ c \in calls /\ c.kind = "import" /\ c.answer = none
  /\ active /\ server[c.user] = none
  /\ server' = [server EXCEPT ![c.user] =
                  [epoch |-> epoch, revision |-> 1, ops |-> c.ops]]
  /\ calls' = (calls \ {c}) \cup
       IF c.live THEN {[c EXCEPT !.answer = server'[c.user]]} ELSE {}
  /\ UNCHANGED <<session, tab, sync, device, active, epoch, backup, made, failed>>

\* Bootstrap: the ledger of the session's user, a demand for an import, or nothing.
ServerAnswersLaunch(t) ==
  /\ sync[t].phase = "asked"
  /\ sync' = [sync EXCEPT ![t] = [@ EXCEPT
       !.phase = "answered", !.epoch = epoch,
       !.offer = IF ~active THEN "absent"
                 ELSE IF server[sync[t].user] = none THEN "import" ELSE "server",
       !.bank = IF active THEN server[sync[t].user] ELSE none]]
  /\ UNCHANGED <<session, tab, calls, device, remote, made, failed>>

\* The chat, or the Mini App on another device.
OthersCommand(u) ==
  /\ active /\ HasRoom(u) /\ Len(made) < MaxOps
  /\ made' = Append(made, u)
  /\ server' = [server EXCEPT ![u] = Commanded(@, {Len(made')})]
  /\ UNCHANGED <<session, tab, sync, calls, device, active, epoch, backup, failed>>

\* Another device of the user imports first.
OthersImport(u) ==
  /\ active /\ server[u] = none /\ Len(made) < MaxOps
  /\ made' = Append(made, u)
  /\ server' = [server EXCEPT ![u] = [epoch |-> epoch, revision |-> 1, ops |-> {Len(made')}]]
  /\ UNCHANGED <<session, tab, sync, calls, device, active, epoch, backup, failed>>

OperatorActivates ==
  /\ ~active
  /\ active' = TRUE
  /\ UNCHANGED <<session, tab, sync, calls, device, server, epoch, backup, made, failed>>

\* An older release answers again: its bootstrap carries no bank.
OperatorRollsBack ==
  /\ active /\ Fault
  /\ active' = FALSE
  /\ UNCHANGED <<session, tab, sync, calls, device, server, epoch, backup, made>>

OperatorBacksUp ==
  /\ epoch < MaxEpoch /\ backup # server
  /\ backup' = server
  /\ UNCHANGED <<session, tab, sync, calls, device, server, active, epoch, made, failed>>

\* A manual restore rotates the generation.
OperatorRestores ==
  /\ epoch < MaxEpoch
  /\ epoch' = epoch + 1
  /\ server' = [u \in Users |-> IF backup[u] = none THEN none
                                ELSE [backup[u] EXCEPT !.epoch = epoch']]
  /\ backup' = server'
  /\ UNCHANGED <<session, tab, sync, calls, device, active, made, failed>>

-----------------------------------------------------------------------------
(* The receipt.                                                            *)

\* Mutant: revisions are taken in the order they arrive.
DecisionByArrival(last, next) ==
  IF last = none THEN "newer"
  ELSE IF next.epoch \in ToSet(last.retired) THEN "retired_epoch"
  ELSE IF next.epoch = last.epoch /\ next.ops = last.ops THEN "current"
  ELSE "newer"

\* classifyLedgerAuthorityRevision: what a device makes of a revision.
Decision(last, next) ==
  IF last = none THEN "newer"
  ELSE IF next.epoch \in ToSet(last.retired) THEN "retired_epoch"
  ELSE IF last.epoch # next.epoch THEN "newer"
  ELSE IF next.revision < last.revision THEN "stale"
  ELSE IF next.revision > last.revision THEN "newer"
  ELSE IF next.ops = last.ops THEN "current" ELSE "digest_conflict"

\* The last RetiredCap elements.
Recent(s) == SubSeq(s, Len(s) - RetiredCap + 1, Len(s))

\* Mutant: the ring takes the generation that comes instead of the one that goes.
AdvancedRetiresNew(last, next) ==
  [epoch |-> next.epoch, revision |-> next.revision, ops |-> next.ops,
   retired |-> IF last = none THEN <<>>
               ELSE IF last.epoch = next.epoch THEN last.retired
               ELSE Append(last.retired, next.epoch)]

\* advanceLedgerAuthorityReceipt: a new generation retires the one before.
Advanced(last, next) ==
  [epoch |-> next.epoch, revision |-> next.revision, ops |-> next.ops,
   retired |-> IF last = none THEN <<>>
               ELSE IF last.epoch = next.epoch THEN last.retired
               ELSE LET ring == Append(last.retired, last.epoch)
                    IN IF Len(ring) > RetiredCap THEN Recent(ring) ELSE ring]

-----------------------------------------------------------------------------
(* The store.                                                              *)

Scope(t) == tab[t].scope

\* readMutationBase: memory when its last write failed, else the saved bank.
MutationBase(t) ==
  IF ~tab[t].dirty /\ Scope(t) # none /\ bank[Scope(t)] # none
  THEN [owner |-> Scope(t), ops |-> bank[Scope(t)]]
  ELSE [owner |-> tab[t].owner, ops |-> tab[t].ops]

\* savePersisted: only into the namespace of the owner, and only if storage takes it.
Commit(t, T, base, saved) ==
  /\ saved => base.owner = T.scope
  /\ tab' = [tab EXCEPT ![t] = [T EXCEPT !.owner = base.owner, !.ops = base.ops, !.dirty = ~saved]]
  /\ bank' = IF saved THEN [bank EXCEPT ![T.scope] = base.ops] ELSE bank

\* quarantineChangedTelegramSession, after the adapter invalidated the session.
SessionLost(t) ==
  tab' = [tab EXCEPT ![t] = [Quarantined(@) EXCEPT !.proved = 0]]

\* Mutant: only a bank that was just found on the device needs the user's word.
NeedsNoApproval(t, c) == tab[t].fresh /\ ~tab[t].approved

\* A revision the receipt does not rule out, and that needs no word of the user.
NeedsApproval(t, c) ==
  /\ receipt[c.user] = none
  /\ tab[t].unconfirmed /\ ~tab[t].approved
  /\ tab[t].ops # c.answer.ops

Acceptable(t, c) ==
  /\ Scope(t) = c.user
  /\ Decision(receipt[c.user], c.answer) \in {"newer", "current"}
  /\ ~NeedsApproval(t, c)

\* Mutants: the marker is forgotten; the receipt is written before the bank.
WritesUnmarked(c, n) ==
  LET u == c.user IN
  /\ marker' = marker
  /\ bank' = IF n >= 2 THEN [bank EXCEPT ![u] = c.answer.ops] ELSE bank
  /\ receipt' = IF n = 3 THEN [receipt EXCEPT ![u] = Advanced(@, c.answer)] ELSE receipt
WritesReceiptFirst(c, n) ==
  LET u == c.user IN
  /\ marker' = IF n >= 1 THEN [marker EXCEPT ![u] = TRUE] ELSE marker
  /\ receipt' = IF n >= 2 THEN [receipt EXCEPT ![u] = Advanced(@, c.answer)] ELSE receipt
  /\ bank' = IF n = 3 THEN [bank EXCEPT ![u] = c.answer.ops] ELSE bank

\* The first n of the three writes of an adoption: marker, bank, receipt.
Writes(c, n) ==
  LET u == c.user IN
  /\ marker' = IF n >= 1 THEN [marker EXCEPT ![u] = TRUE] ELSE marker
  /\ bank' = IF n >= 2 THEN [bank EXCEPT ![u] = c.answer.ops] ELSE bank
  /\ receipt' = IF n = 3 THEN [receipt EXCEPT ![u] = Advanced(@, c.answer)] ELSE receipt

\* adoptServerRevision.  c names a user and an answer, gateway is whether the
\* caller may send commands from then on, result is what it is told.
Adopt(t, c, gateway, result) ==
  LET decision == Decision(receipt[c.user], c.answer)
      Stop(asks) == tab' = [tab EXCEPT ![t] = [@ EXCEPT
                      !.gateway = FALSE, !.mode = "read_only", !.asks = asks]]
  IN
  \/ /\ Scope(t) # c.user
     /\ result = "retry" /\ Stop(FALSE)
     /\ UNCHANGED <<bank, marker, receipt>>
  \/ /\ Scope(t) = c.user
     /\ decision = "stale" /\ result = "stale"
     /\ tab' = [tab EXCEPT ![t].gateway = gateway]
     /\ UNCHANGED <<bank, marker, receipt>>
  \/ /\ Scope(t) = c.user
     /\ decision \in {"retired_epoch", "digest_conflict"} /\ result = "retry"
     /\ IF decision = "retired_epoch" THEN UNCHANGED tab ELSE Stop(FALSE)
     /\ UNCHANGED <<bank, marker, receipt>>
  \/ /\ Scope(t) = c.user
     /\ decision = "newer" /\ NeedsApproval(t, c)
     /\ result = "retry" /\ Stop(TRUE)
     /\ UNCHANGED <<bank, marker, receipt>>
  \/ /\ Acceptable(t, c)
     /\ result = "applied" /\ Writes(c, 3)
     /\ tab' = [tab EXCEPT ![t] = [@ EXCEPT
          !.owner = c.user, !.ops = c.answer.ops, !.mode = "server",
          !.gateway = gateway, !.dirty = FALSE, !.fresh = FALSE,
          !.unconfirmed = FALSE, !.approved = FALSE, !.asks = FALSE]]
  \/ /\ Acceptable(t, c)
     /\ result = "refused"
     /\ \E n \in 0..2 :
          /\ Writes(c, n)
          /\ tab' = [tab EXCEPT ![t] = [@ EXCEPT
               !.mode = "read_only", !.asks = FALSE,
               !.owner = IF n > 0 THEN c.user ELSE tab[t].owner,
               !.ops = IF n > 0 THEN c.answer.ops ELSE tab[t].ops,
               !.dirty = IF n > 0 THEN n = 1 ELSE tab[t].dirty]]

\* What a caller may be told; a refused write of the device is a fault.
Results == {"applied", "stale", "retry", "refused"}
Counted(result) == IF result = "refused" THEN Refusal ELSE UNCHANGED failed

Same(t, serial) == session[t].serial = serial

-----------------------------------------------------------------------------
(* Commands of the user.                                                   *)

\* A local command: memory and the saved bank, unless another tab has set the
\* marker meanwhile.
LocalCommand(t) ==
  /\ tab[t].mode = "local" /\ ~marker[Scope(t)]
  /\ Len(made) < MaxOps
  /\ made' = Append(made, Scope(t))
  /\ LET base == [MutationBase(t) EXCEPT !.ops = @ \cup {Len(made')}] IN
     \/ Commit(t, tab[t], base, base.owner = Scope(t)) /\ UNCHANGED failed
     \/ base.owner = Scope(t) /\ Commit(t, tab[t], base, FALSE) /\ Refusal
  /\ UNCHANGED <<session, sync, calls, marker, receipt, cookie, remote>>

LocalCommandRefused(t) ==
  /\ tab[t].mode = "local" /\ marker[Scope(t)]
  /\ tab' = [tab EXCEPT ![t] = [@ EXCEPT !.mode = "read_only", !.asks = FALSE]]
  /\ UNCHANGED <<session, sync, calls, device, remote, made, failed>>

\* The storage event of another tab's write, or a local command without effect.
SeesSavedBank(t) ==
  /\ tab[t].mode = "local" /\ ~tab[t].dirty
  /\ bank[Scope(t)] # none /\ tab[t].ops # bank[Scope(t)]
  /\ tab' = [tab EXCEPT ![t] = [@ EXCEPT !.owner = Scope(t), !.ops = bank[Scope(t)]]]
  /\ UNCHANGED <<session, sync, calls, device, remote, made, failed>>

MaySend(t) == tab[t].mode = "server" /\ tab[t].gateway

Call(t, kind, ops) ==
  [tab |-> t, kind |-> kind, user |-> session[t].user, serial |-> session[t].serial,
   ops |-> ops, live |-> TRUE, answer |-> none]

Awaited(t) == {c \in calls : c.tab = t /\ c.live}

\* Mutant: the request is signed with whatever session the tab has now.
SendCommandUnchecked(t) ==
  /\ MaySend(t)
  /\ Cardinality(Awaited(t)) < MaxCalls /\ Len(made) < MaxOps
  /\ made' = Append(made, Scope(t))
  /\ calls' = calls \cup {Call(t, "command", {Len(made')})}
  /\ UNCHANGED <<session, tab, sync, device, remote, failed>>

\* executeServerCommand up to its request.
SendCommand(t) ==
  /\ MaySend(t) /\ Same(t, tab[t].proved)
  /\ Cardinality(Awaited(t)) < MaxCalls /\ Len(made) < MaxOps
  /\ made' = Append(made, Scope(t))
  /\ calls' = calls \cup {Call(t, "command", {Len(made')})}
  /\ UNCHANGED <<session, tab, sync, device, remote, failed>>

\* The adapter refuses to send what another session would sign.
SendFindsOtherSession(t) ==
  /\ MaySend(t) /\ ~Same(t, tab[t].proved)
  /\ SessionLost(t)
  /\ UNCHANGED <<session, sync, calls, device, remote, made, failed>>

\* The session that signed the call is the one the tab has and has verified.
Current(c) == Same(c.tab, c.serial) /\ tab[c.tab].proved = c.serial

\* The answer comes, in any order, and is adopted; or the session has changed.  The
\* adapter looks at the session when the answer is there, and the adoption then waits
\* for its queue and its lock: a switch the tab has not noticed may fall between them.
CommandAnswered(c) ==
  LET t == c.tab IN
  /\ c \in calls /\ c.kind = "command" /\ c.live /\ c.answer # none
  /\ calls' = calls \ {c}
  /\ \/ /\ tab[t].proved = c.serial
        /\ \E result \in Results : Adopt(t, c, tab[t].gateway, result) /\ Counted(result)
     \/ /\ ~Current(c)
        /\ SessionLost(t) /\ UNCHANGED <<bank, marker, receipt, failed>>
  /\ UNCHANGED <<session, sync, cookie, remote, made>>

\* The domain refused it, there is no ledger to act on, or the answer is lost.
CommandFails(c) ==
  LET t == c.tab IN
  /\ c \in calls /\ c.kind = "command" /\ c.live
  /\ \/ c.answer = none /\ calls' = calls \ {c} /\ UNCHANGED failed
     \/ calls' = (calls \ {c}) \cup (IF c.answer = none THEN {[c EXCEPT !.live = FALSE]} ELSE {})
        /\ Fault
  /\ IF Current(c)
     THEN tab' = [tab EXCEPT ![t].asks = FALSE]
     ELSE SessionLost(t)
  /\ UNCHANGED <<session, sync, device, remote, made>>

-----------------------------------------------------------------------------
(* The launch synchronization.                                             *)

Holding == {"activated", "applied", "importing"}
LaunchLockFree(t) == \A o \in Tabs \ {t} : sync[o].phase \notin Holding

\* What a tab that stopped waiting leaves on its way to the server.
Orphaned(t, kinds) ==
  LET left == {c \in Awaited(t) : c.kind \in kinds} IN
  (calls \ left) \cup {[c EXCEPT !.live = FALSE] : c \in {d \in left : d.answer = none}}

Goto(t, phase) == sync' = [sync EXCEPT ![t].phase = phase]
Rest(t, due) == sync' = [sync EXCEPT ![t] = Resting(due)]

\* isolateTelegramSession, and the bootstrap request.
SyncStart(t) ==
  LET host == IF Same(t, tab[t].bound) THEN session[t].user ELSE none
      T == tab[t]
  IN
  /\ sync[t].phase = "idle"
  /\ tab' = [tab EXCEPT ![t] =
       IF host = none \/ T.scope # host \/ T.owner # host THEN Quarantined(T)
       ELSE IF T.gateway \/ (T.mode = "local" /\ ~marker[host]) THEN T
       ELSE [T EXCEPT !.mode = "read_only"]]
  /\ sync' = [sync EXCEPT ![t] = [Resting(TRUE) EXCEPT
       !.phase = "asked", !.serial = session[t].serial, !.user = session[t].user]]
  /\ UNCHANGED <<session, calls, device, remote, made, failed>>

\* The raw session changed before the launch lock was held.
SyncFindsOtherSession(t) ==
  /\ sync[t].phase = "answered" /\ ~Same(t, sync[t].serial)
  /\ SessionLost(t)
  /\ Rest(t, TRUE)
  /\ UNCHANGED <<session, calls, device, remote, made, failed>>

\* migrateLegacyTelegramNamespace, for the one user it names.
Migrated(u) == IF bank[u] = none /\ u = LegacyUser THEN {0} ELSE bank[u]

\* activateVerifiedTelegramSession under the launch lock.
Activate(t) ==
  LET u == sync[t].user
      T == [tab[t] EXCEPT !.scope = u, !.proved = sync[t].serial, !.bound = sync[t].serial,
              !.mode = IF tab[t].gateway THEN "server"
                       ELSE IF marker[u] THEN "read_only" ELSE "local"]
      unsaved == tab[t].scope = u /\ tab[t].owner = u /\ tab[t].dirty
      aligned == ~unsaved /\ Migrated(u) # none
  IN
  /\ sync[t].phase = "answered" /\ Same(t, sync[t].serial) /\ LaunchLockFree(t)
  /\ bank' = [bank EXCEPT ![u] = Migrated(u)]
  /\ tab' = [tab EXCEPT ![t] =
       IF unsaved THEN T
       ELSE IF aligned
       THEN [T EXCEPT !.owner = u, !.ops = bank'[u], !.dirty = FALSE, !.fresh = FALSE,
                      !.unconfirmed = (receipt[u] = none), !.asks = FALSE]
       ELSE [T EXCEPT !.owner = none, !.ops = {}, !.dirty = FALSE, !.fresh = TRUE,
                      !.unconfirmed = FALSE, !.asks = FALSE]]
  /\ Goto(t, IF sync[t].offer = "server" \/ (aligned /\ cookie[u] = sync[t].epoch)
             THEN "applied" ELSE "activated")
  /\ UNCHANGED <<session, calls, marker, receipt, cookie, remote, made, failed>>

\* applyLaunchPreferences: the projection onto the bank that no server owns yet.
\* The last disjunct is a refused locale.
ApplyPreferences(t) ==
  LET u == sync[t].user
      old == MutationBase(t)
      base == [owner |-> u,
               ops |-> IF tab[t].fresh \/ old.owner \notin {none, u} THEN {} ELSE old.ops]
      T == tab[t]
  IN
  /\ sync[t].phase = "activated" /\ T.scope = u
  /\ \/ Commit(t, [T EXCEPT !.fresh = FALSE], base, TRUE) /\ Goto(t, "applied") /\ UNCHANGED failed
     \/ Commit(t, T, base, FALSE) /\ Rest(t, TRUE) /\ Refusal
     \/ Commit(t, [T EXCEPT !.fresh = FALSE], base, TRUE) /\ Rest(t, TRUE) /\ Refusal
  /\ UNCHANGED <<session, calls, marker, receipt, cookie, remote, made>>

\* A command that found another session has left the namespace meanwhile.
SyncFindsOtherScope(t) ==
  /\ sync[t].phase \in {"activated", "applied"} /\ Scope(t) # sync[t].user
  /\ Rest(t, TRUE)
  /\ UNCHANGED <<session, tab, calls, device, remote, made, failed>>

\* The receipt of the preferences is saved, or refused.
Finish(t) ==
  \/ /\ cookie' = [cookie EXCEPT ![sync[t].user] = sync[t].epoch]
     /\ Rest(t, FALSE) /\ UNCHANGED failed
  \/ UNCHANGED cookie /\ Rest(t, TRUE) /\ Refusal

\* synchronizeTelegramBank without a bank in the launch state.
SyncLocally(t) ==
  LET sticky == marker[Scope(t)] IN
  /\ sync[t].phase = "applied" /\ Scope(t) = sync[t].user
  /\ sync[t].offer = "absent"
  /\ tab' = [tab EXCEPT ![t] = [@ EXCEPT !.gateway = FALSE, !.asks = FALSE,
                                 !.mode = IF sticky THEN "read_only" ELSE "local"]]
  /\ IF sticky THEN Rest(t, TRUE) /\ UNCHANGED <<cookie, failed>> ELSE Finish(t)
  /\ UNCHANGED <<session, calls, bank, marker, receipt, remote, made>>

\* ... with a demand for an import: the local write path is closed for good, then
\* the latest bank is read and sent, unless another session would sign it.
SyncImports(t) ==
  LET u == sync[t].user
      base == MutationBase(t)
      T == [tab[t] EXCEPT !.gateway = FALSE, !.mode = "read_only", !.asks = FALSE]
  IN
  /\ sync[t].phase = "applied" /\ Scope(t) = u
  /\ sync[t].offer = "import"
  /\ \/ /\ marker' = [marker EXCEPT ![u] = TRUE]
        /\ IF base.owner = u /\ ~Same(t, T.proved) THEN SessionLost(t)
           ELSE tab' = [tab EXCEPT ![t] = [T EXCEPT !.owner = base.owner, !.ops = base.ops]]
        /\ IF base.owner = u /\ Same(t, T.proved)
           THEN calls' = calls \cup {Call(t, "import", base.ops)} /\ Goto(t, "importing")
           ELSE UNCHANGED calls /\ Rest(t, TRUE)
        /\ UNCHANGED failed
     \/ /\ UNCHANGED <<marker, calls>>
        /\ tab' = [tab EXCEPT ![t] = T]
        /\ Rest(t, TRUE) /\ Refusal
  /\ UNCHANGED <<session, bank, receipt, cookie, remote, made>>

\* The end of a synchronization that has a revision in hand.
Conclude(t, result) ==
  IF result \in {"applied", "stale"} THEN Finish(t)
  ELSE Rest(t, TRUE) /\ UNCHANGED cookie /\ Counted(result)

Offered(t) == [user |-> sync[t].user, answer |-> sync[t].bank]

\* ... with the server's ledger.
SyncAdopts(t) ==
  /\ sync[t].phase = "applied" /\ Scope(t) = sync[t].user
  /\ sync[t].offer = "server"
  /\ \E result \in Results : Adopt(t, Offered(t), TRUE, result) /\ Conclude(t, result)
  /\ UNCHANGED <<session, calls, remote, made>>

ImportAnswered(c) ==
  LET t == c.tab IN
  /\ c \in calls /\ c.kind = "import" /\ c.live /\ c.answer # none
  /\ calls' = calls \ {c}
  /\ \/ /\ tab[t].proved = c.serial
        /\ \E result \in Results : Adopt(t, c, TRUE, result) /\ Conclude(t, result)
     \/ /\ ~Current(c)
        /\ SessionLost(t) /\ Rest(t, TRUE) /\ UNCHANGED <<device, failed>>
  /\ UNCHANGED <<session, remote, made>>

\* Another device was first, or an older release knows no import.
ImportRefused(c) ==
  LET t == c.tab IN
  /\ c \in calls /\ c.kind = "import" /\ c.live /\ c.answer = none
  /\ ~active \/ server[c.user] # none
  /\ calls' = calls \ {c}
  /\ IF Current(c)
     THEN tab' = [tab EXCEPT ![t].asks = FALSE] ELSE SessionLost(t)
  /\ Rest(t, TRUE)
  /\ UNCHANGED <<session, device, remote, made, failed>>

\* An attempt times out or its request fails.
SyncFails(t) ==
  /\ sync[t].phase # "idle" /\ Fault
  /\ calls' = Orphaned(t, {"import"})
  /\ Rest(t, TRUE)
  /\ IF Same(t, sync[t].serial) THEN UNCHANGED tab ELSE SessionLost(t)
  /\ UNCHANGED <<session, device, remote, made>>

-----------------------------------------------------------------------------
(* The user, Telegram and the end of a tab.                                *)

\* approveServerCopy, and the retry its button starts.
Approve(t) ==
  /\ tab[t].unconfirmed /\ tab[t].asks /\ ~tab[t].approved
  /\ tab' = [tab EXCEPT ![t].approved = TRUE]
  /\ sync' = [sync EXCEPT ![t].due = TRUE]
  /\ UNCHANGED <<session, calls, device, remote, made, failed>>

\* Telegram hands the web view another launch session.
SwitchSession(t) ==
  /\ session[t].serial < MaxSessions
  /\ \E u \in Users : session' = [session EXCEPT ![t] = [user |-> u, serial |-> @.serial + 1]]
  /\ UNCHANGED <<tab, sync, calls, device, remote, made, failed>>

\* quarantineTelegramLaunchSession on a foreground signal; it cancels the attempt.
NoticeSession(t) ==
  /\ Scope(t) # none /\ ~Same(t, tab[t].bound)
  /\ tab' = [tab EXCEPT ![t] = Quarantined(@)]
  /\ Rest(t, TRUE)
  /\ calls' = Orphaned(t, {"import"})
  /\ UNCHANGED <<session, device, remote, made, failed>>

\* The tab dies, perhaps between two writes of an adoption, and is loaded again.
Reload(t) ==
  /\ Fault
  /\ tab' = [tab EXCEPT ![t] = LaunchTab]
  /\ Rest(t, TRUE)
  /\ calls' = Orphaned(t, {"command", "import"})
  /\ \/ UNCHANGED <<bank, marker, receipt>>
     \/ \E c \in {d \in Awaited(t) : d.answer # none /\ Same(t, d.serial)} \cup
                 (IF sync[t].phase = "applied" /\ sync[t].offer = "server" THEN {Offered(t)} ELSE {}) :
          Acceptable(t, c) /\ \E n \in 1..2 : Writes(c, n)
  /\ UNCHANGED <<session, cookie, remote, made>>

-----------------------------------------------------------------------------
Server ==
  \/ \E c \in calls : ServerExecutes(c) \/ ServerImports(c)
  \/ \E t \in Tabs : ServerAnswersLaunch(t)

Others ==
  \/ \E u \in Users : OthersCommand(u) \/ OthersImport(u)
  \/ OperatorActivates \/ OperatorRollsBack \/ OperatorBacksUp \/ OperatorRestores

Store ==
  \/ \E t \in Tabs : LocalCommand(t) \/ LocalCommandRefused(t) \/ SeesSavedBank(t)
                     \/ SendCommand(t) \/ SendFindsOtherSession(t)
  \/ \E c \in calls : CommandAnswered(c) \/ CommandFails(c)

SyncSteps(t) ==
  \/ SyncFindsOtherSession(t) \/ Activate(t) \/ ApplyPreferences(t) \/ SyncFindsOtherScope(t)
  \/ SyncLocally(t) \/ SyncImports(t) \/ SyncAdopts(t)

Launch ==
  \/ \E t \in Tabs : SyncStart(t) \/ SyncSteps(t) \/ SyncFails(t)
  \/ \E c \in calls : ImportAnswered(c) \/ ImportRefused(c)

Host == \E t \in Tabs : Approve(t) \/ SwitchSession(t) \/ NoticeSession(t) \/ Reload(t)

Next == Server \/ Others \/ Store \/ Launch \/ Host

Spec == Init /\ [][Next]_clientVars
\* The tab asks again now and then; the server answers; a step of a tab is taken;
\* the launch lock is handed out in the order of the requests.
FairSpec ==
  /\ Spec
  /\ \A t \in Tabs : /\ WF_clientVars(SyncStart(t))
                     /\ WF_clientVars(ServerAnswersLaunch(t))
                     /\ SF_clientVars(Activate(t))
                     /\ WF_clientVars(SyncSteps(t))
                     /\ WF_clientVars(\E c \in Awaited(t) :
                          ServerImports(c) \/ ImportAnswered(c) \/ ImportRefused(c))

-----------------------------------------------------------------------------
(* Properties.                                                             *)

\* The types of the variables; a tab in quarantine has no way to any bank.
ClientTypeOK ==
  /\ \A t \in Tabs :
       /\ session[t].user \in Users /\ session[t].serial \in 1..MaxSessions
       /\ tab[t].scope \in Users \cup {none} /\ tab[t].owner \in Users \cup {none}
       /\ tab[t].ops \subseteq Ops /\ tab[t].mode \in {"local", "server", "read_only"}
       /\ tab[t].proved \in 0..MaxSessions /\ tab[t].bound \in 0..MaxSessions
       /\ \A f \in {"dirty", "fresh", "unconfirmed", "approved", "asks", "gateway"} :
            tab[t][f] \in BOOLEAN /\ (Scope(t) = none => ~tab[t][f])
       /\ sync[t].phase \in {"idle", "asked", "answered"} \cup Holding
       /\ sync[t].bank \in Revisions \cup {none}
  /\ \A c \in calls : c.ops \subseteq Ops /\ c.answer \in Revisions \cup {none}
  /\ \A u \in Users : /\ bank[u] \in (SUBSET Ops) \cup {none}
                      /\ marker[u] \in BOOLEAN /\ cookie[u] \in 0..MaxEpoch
                      /\ server[u] \in Revisions \cup {none}

\* Who has imported, or acts on the server's ledger, can never reopen the local
\* one: the marker is on the device before an import leaves it and before a tab
\* is in server mode, whatever died or was refused in between.
AuthorityIsSticky ==
  /\ \A c \in calls : c.kind = "import" => marker[c.user]
  /\ \A t \in Tabs : tab[t].mode = "server" =>
       /\ Scope(t) # none /\ tab[t].owner = Scope(t)
       /\ marker[Scope(t)] /\ receipt[Scope(t)] # none

\* The receipt is written last: what it vouches for is in the saved bank, wherever a
\* tab died; storage that refuses writes and restored databases aside: after a restore a
\* late answer of the generation before may be saved over the bank.
BankCoversReceipt ==
  \A u \in Users :
    refusals = 0 /\ epoch = 1 /\ receipt[u] # none =>
      bank[u] # none /\ receipt[u].ops \subseteq bank[u]

\* What was done on a screen of one user is in no bank of another: not on the
\* device, not in a tab's memory, not on the server.  A tab without a user has no way
\* to any bank.
NamespacesIsolated ==
  LET Of(ops, u) == \A n \in ops \ {0} : made[n] = u
  IN  /\ ClientTypeOK
      /\ \A u \in Users : /\ bank[u] # none => Of(bank[u], u)
                          /\ server[u] # none => Of(server[u].ops, u)
      /\ \A t \in Tabs :
           IF Scope(t) = none THEN tab[t].ops = {} ELSE Of(tab[t].ops, Scope(t))

\* Answers out of order: the device's receipt does not go back to an earlier
\* revision of a generation, nor to a generation it has left.
ReceiptAdvances ==
  [][\A u \in Users : receipt[u] # none =>
       /\ receipt'[u] # none
       /\ receipt'[u].epoch = receipt[u].epoch => receipt'[u].revision >= receipt[u].revision
       /\ receipt'[u].epoch \notin ToSet(receipt[u].retired)]_clientVars

\* The design document: a delayed response from the old database generation
\* cannot come back.
GenerationsAdvance ==
  [][\A u \in Users : receipt[u] # none => receipt'[u].epoch >= receipt[u].epoch]_clientVars

\* Local history ends when the server takes over, and is not lost before: once the
\* marker is set no tab adds to a bank by itself, whatever mode it believes in; and what
\* a device has saved stays until a server's ledger replaces one that the server
\* already owned, or the user approved it; storage that refuses writes aside.
LocalHistoryKept ==
  [][/\ \A t \in Tabs :
          tab'[t].ops # tab[t].ops /\ Len(made') > Len(made) => ~marker[Scope(t)]
     /\ \A u \in Users : refusals' = 0 /\ bank[u] # none /\ ~ bank[u] \subseteq bank'[u] =>
          receipt[u] # none \/ \E t \in Tabs : Scope(t) = u /\ tab[t].approved]_clientVars

\* A command whose answer its user was told of is on the screen, and what the
\* screen shows in server mode stays there while the generation lasts; storage that
\* refuses writes aside.  With one tab: another tab may know a later revision.
AnswersStayShown ==
  [][refusals' = 0 =>
     /\ \A c \in calls \ calls' : LET T == tab'[c.tab] IN
          /\ c.kind = "command" /\ c.answer # none /\ faults' = faults
          /\ T.scope = c.user /\ T.mode = "server" /\ receipt'[c.user].epoch = c.answer.epoch
          => c.ops \subseteq T.ops
     /\ \A t \in Tabs : LET u == Scope(t) IN
          /\ tab[t].mode = "server" /\ tab'[t].mode = "server" /\ tab'[t].scope = u
          /\ receipt'[u].epoch = receipt[u].epoch
          => tab[t].ops \subseteq tab'[t].ops]_clientVars

\* With the server in charge for good, a tab keeps coming back to server mode, or
\* asks its user whether the server's copy may replace the local one.
Converges ==
  <>[]active => \A t \in Tabs : []<>(tab[t].mode = "server" \/ tab[t].asks)
=============================================================================
