------------------------- MODULE LedgerClient_proofs -------------------------
(***************************************************************************)
(* Proofs that a device keeps the authority over its ledger where          *)
(* LedgerClient says it is, for any number of tabs and users and any       *)
(* limits of revisions, generations, sessions and faults.                  *)
(***************************************************************************)
EXTENDS LedgerClient, TLAPS

-----------------------------------------------------------------------------
(* Types.                                                                  *)

Memory ==
  [scope : Users \cup {none}, owner : Users \cup {none}, ops : SUBSET Ops,
   mode : {"local", "server", "read_only"}, dirty : BOOLEAN, fresh : BOOLEAN,
   unconfirmed : BOOLEAN, approved : BOOLEAN, asks : BOOLEAN, gateway : BOOLEAN,
   proved : 0..MaxSessions, bound : 0..MaxSessions]

Attempt ==
  [phase : {"idle", "asked", "answered"} \cup Holding, due : BOOLEAN,
   serial : 0..MaxSessions, user : Users \cup {none}, epoch : 0..MaxEpoch,
   offer : {"absent", "import", "server"}, bank : Revisions \cup {none}]

Sent ==
  [tab : Tabs, kind : {"command", "import"}, user : Users, serial : 1..MaxSessions,
   ops : SUBSET Ops, live : BOOLEAN, answer : Revisions \cup {none}]

Receipts ==
  [epoch : 1..MaxEpoch, revision : 1..MaxRevision, ops : SUBSET Ops,
   retired : Seq(1..MaxEpoch)]

Banks == (SUBSET Ops) \cup {none}
Ledgers == Revisions \cup {none}

Typed ==
  /\ session \in [Tabs -> [user : Users, serial : 1..MaxSessions]]
  /\ tab \in [Tabs -> Memory]
  /\ sync \in [Tabs -> Attempt]
  /\ calls \subseteq Sent
  /\ bank \in [Users -> Banks]
  /\ marker \in [Users -> BOOLEAN]
  /\ receipt \in [Users -> Receipts \cup {none}]
  /\ cookie \in [Users -> 0..MaxEpoch]
  /\ server \in [Users -> Ledgers]
  /\ active \in BOOLEAN /\ epoch \in 1..MaxEpoch
  /\ backup \in [Users -> Ledgers]
  /\ made \in Seq(Users) /\ Len(made) <= MaxOps
  /\ refusals \in Nat /\ faults \in Nat

-----------------------------------------------------------------------------
(* The inductive invariant.                                                *)

\* A tab in quarantine remembers nothing of any user and may do nothing.
Quiet(T) ==
  T.scope = none =>
    /\ T.owner = none /\ T.ops = {} /\ T.mode = "read_only"
    /\ ~T.dirty /\ ~T.fresh /\ ~T.unconfirmed /\ ~T.approved /\ ~T.asks /\ ~T.gateway

\* The memory T fits the session h of its tab and the receipts r of the device: the
\* serials it remembers are of sessions the tab had, the user it shows is the user of the
\* last one unless the tab has switched since; it may go back to server mode at its next
\* launch, or is in server mode, only for a user with a receipt.
Fits(T, h, r) ==
  /\ Quiet(T)
  /\ T.proved <= h.serial /\ T.bound <= h.serial
  /\ T.scope # none /\ h.serial = T.proved => h.user = T.scope
  /\ T.gateway => T.scope # none /\ r[T.scope] # none
  /\ T.mode = "server" => T.scope # none /\ T.owner = T.scope /\ r[T.scope] # none

\* The synchronization s of a tab with session h is one of a user of the tab, and has a
\* ledger if it was offered one.
Runs(s, h) ==
  /\ s.phase # "idle" => s.user \in Users
  /\ s.serial <= h.serial
  /\ s.phase # "idle" /\ h.serial = s.serial => h.user = s.user
  /\ s.offer = "server" => s.bank # none

\* A tab that will go back to server mode is not between two users.
Agree(T, s) ==
  T.gateway /\ s.phase \in {"asked", "answered"} => T.scope = s.user

TabInv(t) ==
  /\ Fits(tab[t], session[t], receipt)
  /\ Runs(sync[t], session[t])
  /\ Agree(tab[t], sync[t])

\* A receipt stands on the two writes before it, and its generation is not one that
\* the device has left.
Vouched(u) ==
  receipt[u] # none =>
    /\ marker[u] /\ bank[u] # none
    /\ receipt[u].epoch \notin ToSet(receipt[u].retired)

ImportsMarked == \A c \in calls : c.kind = "import" => marker[c.user]

\* Operations were made for a user.
Belong(ops, u, m) == \A n \in ops \ {0} : n \in DOMAIN m /\ m[n] = u

Isolated ==
  /\ \A u \in Users :
       /\ bank[u] # none => Belong(bank[u], u, made)
       /\ server[u] # none => Belong(server[u].ops, u, made)
       /\ backup[u] # none => Belong(backup[u].ops, u, made)
  /\ \A t \in Tabs :
       /\ Belong(tab[t].ops, Scope(t), made)
       /\ sync[t].bank # none => Belong(sync[t].bank.ops, sync[t].user, made)
  /\ \A c \in calls :
       /\ Belong(c.ops, c.user, made)
       /\ c.answer # none => Belong(c.answer.ops, c.user, made)

ClientInv ==
  /\ Typed /\ (\A t \in Tabs : TabInv(t)) /\ (\A u \in Users : Vouched(u))
  /\ ImportsMarked /\ Isolated

-----------------------------------------------------------------------------
(* The receipt.                                                            *)

\* What the limits are.
LEMMA Limits ==
  /\ none \notin Users
  /\ RetiredCap \in Nat \ {0}
  /\ MaxOps \in Nat /\ MaxCalls \in Nat /\ MaxRefusals \in Nat /\ MaxFaults \in Nat
  /\ MaxRevision \in Nat \ {0} /\ MaxEpoch \in Nat \ {0} /\ MaxSessions \in Nat \ {0}
  /\ none \notin SUBSET Ops
  /\ none \notin Revisions
  /\ none \notin Receipts
<1>1. none \notin Receipts
  <2>1. Receipts \subseteq [epoch : Nat, revision : Nat, ops : SUBSET Nat, retired : Seq(Nat)]
    BY ClientAssumption DEF Receipts, Ops
  <2> QED BY <2>1, ClientAssumption
<1>2. none \notin SUBSET Ops
  BY ClientAssumption DEF Ops
<1>3. none \notin Revisions
  <2>1. Revisions \subseteq [epoch : Nat, revision : Nat, ops : SUBSET Nat]
    BY ClientAssumption DEF Revisions, Ops
  <2> QED BY <2>1, ClientAssumption
<1> QED BY <1>1, <1>2, <1>3, ClientAssumption

\* The ring keeps the last elements of what it held.
LEMMA RecentOf ==
  ASSUME NEW S, NEW s \in Seq(S), Len(s) > RetiredCap
  PROVE  Recent(s) \in Seq(S) /\ ToSet(Recent(s)) \subseteq ToSet(s)
<1> DEFINE lo == Len(s) - RetiredCap + 1
<1>1. RetiredCap \in Nat \ {0} /\ Len(s) \in Nat
  BY Limits
<1>2. lo \in 1..Len(s)
  BY <1>1
<1>3. Recent(s) = SubSeq(s, lo, Len(s))
  BY DEF Recent
<1> HIDE DEF lo
<1> QED BY <1>1, <1>2, <1>3 DEF ToSet

\* A revision that the receipt does not rule out advances it: within a generation
\* it is not an earlier one, and its generation is not one that the device has left.
LEMMA AdvancedFacts ==
  ASSUME NEW last \in Receipts \cup {none}, NEW next \in Revisions,
         Decision(last, next) \in {"newer", "current"},
         last # none => last.epoch \notin ToSet(last.retired)
  PROVE  /\ Advanced(last, next) \in Receipts
         /\ Advanced(last, next) # none
         /\ Advanced(last, next).epoch = next.epoch
         /\ Advanced(last, next).revision = next.revision
         /\ Advanced(last, next).ops = next.ops
         /\ next.epoch \notin ToSet(Advanced(last, next).retired)
         /\ last # none => /\ next.epoch \notin ToSet(last.retired)
                           /\ next.epoch = last.epoch => next.revision >= last.revision
<1> DEFINE kept == Advanced(last, next).retired
<1>1. last # none => last \in Receipts /\ last.retired \in Seq(1..MaxEpoch)
                     /\ last.epoch \in 1..MaxEpoch /\ last.revision \in Nat
  BY Limits DEF Receipts
<1>2. next.epoch \in 1..MaxEpoch /\ next.revision \in 1..MaxRevision /\ next.ops \in SUBSET Ops
  BY DEF Revisions
<1>3. last # none => /\ next.epoch \notin ToSet(last.retired)
                     /\ next.epoch = last.epoch => next.revision >= last.revision
  <2> SUFFICES ASSUME last # none
               PROVE  /\ next.epoch \notin ToSet(last.retired)
                      /\ next.epoch = last.epoch => next.revision >= last.revision
    OBVIOUS
  <2>1. ASSUME next.epoch \in ToSet(last.retired) PROVE FALSE
    <3>1. Decision(last, next) = "retired_epoch"
      BY <2>1 DEF Decision
    <3> QED BY <3>1
  <2>2. ASSUME next.epoch = last.epoch, next.revision < last.revision PROVE FALSE
    <3>1. Decision(last, next) = "stale"
      BY <2>1, <2>2 DEF Decision
    <3> QED BY <3>1
  <2> QED BY <2>1, <2>2, <1>1, <1>2
<1>4. kept \in Seq(1..MaxEpoch) /\ next.epoch \notin ToSet(kept)
  <2>1. CASE last = none
    BY <2>1 DEF Advanced, ToSet
  <2>2. CASE last # none /\ last.epoch = next.epoch
    BY <2>2, <1>1, <1>3 DEF Advanced
  <2>3. CASE last # none /\ last.epoch # next.epoch
    <3> DEFINE ring == Append(last.retired, last.epoch)
    <3>1. ring \in Seq(1..MaxEpoch) /\ next.epoch \notin ToSet(ring)
      BY <2>3, <1>1, <1>3 DEF ToSet
    <3>2. kept = IF Len(ring) > RetiredCap THEN Recent(ring) ELSE ring
      BY <2>3 DEF Advanced
    <3> HIDE DEF ring, kept
    <3> QED BY <3>1, <3>2, RecentOf
  <2> QED BY <2>1, <2>2, <2>3
<1>5. Advanced(last, next) = [epoch |-> next.epoch, revision |-> next.revision,
                              ops |-> next.ops, retired |-> kept]
  BY DEF Advanced
<1> HIDE DEF kept
<1>6. Advanced(last, next) \in Receipts /\ Advanced(last, next).retired = kept
  BY <1>2, <1>4, <1>5 DEF Receipts
<1> QED BY <1>3, <1>4, <1>5, <1>6, Limits

-----------------------------------------------------------------------------
(* Records and the operations in them.                                     *)

\* A record of the right shape stays one when a field is replaced.
LEMMA MemoryWith ==
  /\ \A T \in Memory, x \in Users \cup {none} :
       [T EXCEPT !.scope = x] \in Memory /\ [T EXCEPT !.owner = x] \in Memory
  /\ \A T \in Memory, x \in SUBSET Ops : [T EXCEPT !.ops = x] \in Memory
  /\ \A T \in Memory, x \in {"local", "server", "read_only"} : [T EXCEPT !.mode = x] \in Memory
  /\ \A T \in Memory, x \in BOOLEAN :
       /\ [T EXCEPT !.dirty = x] \in Memory /\ [T EXCEPT !.fresh = x] \in Memory
       /\ [T EXCEPT !.unconfirmed = x] \in Memory /\ [T EXCEPT !.approved = x] \in Memory
       /\ [T EXCEPT !.asks = x] \in Memory /\ [T EXCEPT !.gateway = x] \in Memory
  /\ \A T \in Memory, x \in 0..MaxSessions :
       [T EXCEPT !.proved = x] \in Memory /\ [T EXCEPT !.bound = x] \in Memory
<1>1. ASSUME NEW T \in Memory, NEW x \in Users \cup {none}
      PROVE  [T EXCEPT !.scope = x] \in Memory /\ [T EXCEPT !.owner = x] \in Memory
  BY DEF Memory
<1>2. ASSUME NEW T \in Memory, NEW x \in SUBSET Ops
      PROVE  [T EXCEPT !.ops = x] \in Memory
  BY DEF Memory
<1>3. ASSUME NEW T \in Memory, NEW x \in {"local", "server", "read_only"}
      PROVE  [T EXCEPT !.mode = x] \in Memory
  BY DEF Memory
<1>4. ASSUME NEW T \in Memory, NEW x \in BOOLEAN
      PROVE  /\ [T EXCEPT !.dirty = x] \in Memory /\ [T EXCEPT !.fresh = x] \in Memory
             /\ [T EXCEPT !.unconfirmed = x] \in Memory /\ [T EXCEPT !.approved = x] \in Memory
             /\ [T EXCEPT !.asks = x] \in Memory /\ [T EXCEPT !.gateway = x] \in Memory
  BY DEF Memory
<1>5. ASSUME NEW T \in Memory, NEW x \in 0..MaxSessions
      PROVE  [T EXCEPT !.proved = x] \in Memory /\ [T EXCEPT !.bound = x] \in Memory
  BY DEF Memory
<1> QED BY <1>1, <1>2, <1>3, <1>4, <1>5

\* The revision that a command makes.
LEMMA CommandedType ==
  ASSUME NEW r \in Revisions, NEW ops \in SUBSET Ops, r.revision < MaxRevision
  PROVE  Commanded(r, ops) \in Revisions /\ Commanded(r, ops).ops = r.ops \cup ops
<1>1. r.revision + 1 \in 1..MaxRevision /\ r.ops \cup ops \in SUBSET Ops
  BY Limits DEF Revisions
<1> QED BY <1>1 DEF Commanded, Revisions

\* Whose operations they are does not change when there are more, and the next
\* operation is of who made it.
LEMMA BelongGrows ==
  ASSUME NEW m \in Seq(Users), NEW x \in Users
  PROVE  /\ \A ops, u : Belong(ops, u, m) => Belong(ops, u, Append(m, x))
         /\ Belong({Len(m) + 1}, x, Append(m, x))
         /\ \A ops : Belong(ops, x, m) => Belong(ops \cup {Len(m) + 1}, x, Append(m, x))
BY DEF Belong

LEMMA BelongSets ==
  /\ \A ops, more, u, m : Belong(ops, u, m) /\ Belong(more, u, m) => Belong(ops \cup more, u, m)
  /\ \A u, m : Belong({}, u, m) /\ Belong({0}, u, m)
BY DEF Belong

\* Memory fits a device that loses no receipt.
LEMMA FitsMore ==
  ASSUME NEW T \in Memory, NEW h, NEW r, NEW more, Fits(T, h, r),
         \A u \in Users : r[u] # none => more[u] # none
  PROVE  Fits(T, h, more)
BY DEF Fits, Memory

\* A tab that a step leaves alone keeps its part of the invariant while the device
\* loses neither a marker nor a receipt.
DeviceGrows ==
  \A u \in Users : /\ marker[u] => marker'[u]
                   /\ receipt[u] # none => receipt'[u] # none

LEMMA TabStands ==
  ASSUME Typed, DeviceGrows, NEW t \in Tabs, TabInv(t),
         tab'[t] = tab[t], sync'[t] = sync[t], session'[t] = session[t]
  PROVE  TabInv(t)'
<1>1. tab[t] \in Memory
  BY DEF Typed
<1>2. Fits(tab[t], session[t], receipt')
  BY <1>1, FitsMore DEF TabInv, DeviceGrows
<1> QED BY <1>2 DEF TabInv

-----------------------------------------------------------------------------
(* The server and the operator.                                            *)

\* An operation of the server on the ledger of a user.
LEMMA LedgerTypes ==
  ASSUME Typed, NEW u \in Users, HasRoom(u), NEW ops \in SUBSET Ops
  PROVE  /\ server[u] \in Revisions
         /\ Commanded(server[u], ops) \in Revisions
         /\ Commanded(server[u], ops).ops = server[u].ops \cup ops
<1>1. server[u] \in Revisions /\ server[u].revision < MaxRevision
  BY DEF Typed, HasRoom, Ledgers
<1> QED BY <1>1, CommandedType

LEMMA ExecutesInv ==
  ASSUME ClientInv, NEW c \in calls, ServerExecutes(c) \/ ServerImports(c)
  PROVE  ClientInv'
<1> DEFINE r == server'[c.user]
<1>0. UNCHANGED <<session, tab, sync, device, active, epoch, backup, made, failed>>
  BY DEF ServerExecutes, ServerImports
<1>1. c \in Sent /\ c.user \in Users /\ c.ops \in SUBSET Ops /\ Belong(c.ops, c.user, made)
  BY DEF ClientInv, Typed, Sent, Isolated
<1>2. r \in Revisions /\ Belong(r.ops, c.user, made)
      /\ server' = [server EXCEPT ![c.user] = r]
  <2>1. CASE ServerExecutes(c)
    <3>1. HasRoom(c.user) /\ server' = [server EXCEPT ![c.user] = Commanded(server[c.user], c.ops)]
      BY <2>1 DEF ServerExecutes
    <3>2. r = Commanded(server[c.user], c.ops) /\ server' = [server EXCEPT ![c.user] = r]
      BY <1>1, <3>1 DEF ClientInv, Typed
    <3>3. Belong(server[c.user].ops, c.user, made)
      BY <1>1, <3>1 DEF ClientInv, Isolated, HasRoom
    <3> QED BY <1>1, <3>1, <3>2, <3>3, LedgerTypes, BelongSets DEF ClientInv
  <2>2. CASE ServerImports(c)
    <3>1. server' = [server EXCEPT ![c.user] = [epoch |-> epoch, revision |-> 1, ops |-> c.ops]]
      BY <2>2 DEF ServerImports
    <3>2. r = [epoch |-> epoch, revision |-> 1, ops |-> c.ops]
      BY <1>1, <3>1 DEF ClientInv, Typed
    <3>3. r \in Revisions
      BY <1>1, <3>2, Limits DEF ClientInv, Typed, Revisions
    <3>4. r.ops = c.ops
      BY <3>2
    <3>5. server' = [server EXCEPT ![c.user] = r]
      BY <3>1, <3>2
    <3> QED BY <1>1, <3>3, <3>4, <3>5
  <2> QED BY <2>1, <2>2
<1>3. calls' \subseteq (calls \ {c}) \cup {[c EXCEPT !.answer = r]}
  BY DEF ServerExecutes, ServerImports
<1> HIDE DEF r
<1> DEFINE d == [c EXCEPT !.answer = r]
<1>4. d \in Sent /\ d.kind = c.kind /\ d.user = c.user /\ d.ops = c.ops /\ d.answer = r
  BY <1>1, <1>2 DEF Sent
<1> HIDE DEF d
<1>5. Typed'
  BY <1>0, <1>1, <1>2, <1>3, <1>4 DEF ClientInv, Typed, device, failed, Ledgers, d
<1>6. (\A t \in Tabs : TabInv(t)') /\ \A u \in Users : Vouched(u)'
  <2>1. DeviceGrows
    BY <1>0 DEF DeviceGrows, device
  <2> QED BY <1>0, <2>1, TabStands DEF ClientInv, Vouched, device
<1>7. ImportsMarked'
  BY <1>0, <1>3, <1>4 DEF ClientInv, ImportsMarked, device, d
<1>8. Isolated'
  BY <1>0, <1>1, <1>2, <1>3, <1>4 DEF ClientInv, Isolated, Typed, device, Scope, d
<1> QED BY <1>5, <1>6, <1>7, <1>8 DEF ClientInv

LEMMA AnswersInv ==
  ASSUME ClientInv, NEW t \in Tabs, ServerAnswersLaunch(t)
  PROVE  ClientInv'
<1> DEFINE s == sync'[t]
<1>0. UNCHANGED <<session, tab, calls, device, remote, made, failed>>
  BY DEF ServerAnswersLaunch
<1>1. sync[t].phase = "asked" /\ sync[t].user \in Users /\ sync[t] \in Attempt
  BY DEF ServerAnswersLaunch, ClientInv, TabInv, Runs, Typed
<1>2. /\ s.phase = "answered" /\ s.user = sync[t].user /\ s.serial = sync[t].serial
      /\ s.offer = "server" => s.bank # none
      /\ s.bank # none => s.bank = server[s.user]
      /\ s \in Attempt
  <2> DEFINE offer == IF ~active THEN "absent"
                      ELSE IF server[sync[t].user] = none THEN "import" ELSE "server"
             found == IF active THEN server[sync[t].user] ELSE none
  <2>1. sync' = [sync EXCEPT ![t] = [sync[t] EXCEPT !.phase = "answered", !.epoch = epoch,
                                        !.offer = offer, !.bank = found]]
    BY DEF ServerAnswersLaunch
  <2>2. offer \in {"absent", "import", "server"} /\ found \in Revisions \cup {none}
        /\ (offer = "server" => found # none) /\ (found # none => found = server[sync[t].user])
    BY <1>1 DEF ClientInv, Typed, Ledgers
  <2>3. epoch \in 0..MaxEpoch
    BY Limits DEF ClientInv, Typed
  <2> HIDE DEF offer, found
  <2>4. s = [sync[t] EXCEPT !.phase = "answered", !.epoch = epoch, !.offer = offer, !.bank = found]
    BY <2>1 DEF ClientInv, Typed
  <2> HIDE DEF s
  <2>5. s \in Attempt /\ s.phase = "answered" /\ s.user = sync[t].user /\ s.serial = sync[t].serial
        /\ s.offer = offer /\ s.bank = found
    BY <1>1, <2>2, <2>3, <2>4 DEF Attempt
  <2> QED BY <2>2, <2>5
<1>3. sync' = [sync EXCEPT ![t] = s]
  BY DEF ServerAnswersLaunch, ClientInv, Typed
<1> HIDE DEF s
<1>4. Typed'
  BY <1>0, <1>2, <1>3 DEF ClientInv, Typed, device, remote, failed
<1>5. DeviceGrows /\ \A u \in Users : Vouched(u)'
  BY <1>0 DEF DeviceGrows, device, ClientInv, Vouched
<1>6. \A o \in Tabs : TabInv(o)'
  <2>1. sync'[t] = s
    BY <1>3 DEF ClientInv, Typed
  <2>2. TabInv(t)'
    BY <1>0, <1>1, <1>2, <2>1
       DEF ClientInv, TabInv, Runs, Agree, device
  <2>3. ASSUME NEW o \in Tabs, o # t PROVE TabInv(o)'
    BY <1>0, <1>3, <1>5, <2>3, TabStands DEF ClientInv, Typed
  <2> QED BY <2>2, <2>3
<1>7. ImportsMarked'
  BY <1>0 DEF ClientInv, ImportsMarked, device
<1>8. Isolated'
  <2>1. Belong(server[s.user].ops, s.user, made) \/ s.bank = none
    BY <1>1, <1>2 DEF ClientInv, Isolated
  <2> QED BY <1>0, <1>2, <1>3, <2>1 DEF ClientInv, Isolated, Typed, device, remote, Scope
<1> QED BY <1>4, <1>5, <1>6, <1>7, <1>8 DEF ClientInv

\* What others and the operator do leaves the device and its tabs alone.
LEMMA ElsewhereInv ==
  ASSUME ClientInv, UNCHANGED <<session, tab, device, sync, calls>>,
         refusals' \in Nat, faults' \in Nat,
         server' \in [Users -> Ledgers], backup' \in [Users -> Ledgers],
         active' \in BOOLEAN, epoch' \in 1..MaxEpoch,
         made' \in Seq(Users), Len(made') <= MaxOps,
         \A ops, u : Belong(ops, u, made) => Belong(ops, u, made'),
         \A u \in Users : /\ server'[u] # none => Belong(server'[u].ops, u, made')
                          /\ backup'[u] # none => Belong(backup'[u].ops, u, made')
  PROVE  ClientInv'
<1>1. Typed'
  BY DEF ClientInv, Typed, device
<1>2. DeviceGrows /\ \A u \in Users : Vouched(u)'
  BY DEF DeviceGrows, device, ClientInv, Vouched
<1>3. \A t \in Tabs : TabInv(t)'
  BY <1>2, TabStands DEF ClientInv
<1>4. ImportsMarked'
  BY DEF ClientInv, ImportsMarked, device
<1>5. Isolated'
  BY DEF ClientInv, Isolated, device, Scope
<1> QED BY <1>1, <1>2, <1>3, <1>4, <1>5 DEF ClientInv

\* The next operation.
LEMMA NextOperation ==
  ASSUME Typed, NEW u \in Users, Len(made) < MaxOps, made' = Append(made, u)
  PROVE  /\ made' \in Seq(Users) /\ Len(made') = Len(made) + 1 /\ Len(made') <= MaxOps
         /\ {Len(made')} \in SUBSET Ops
         /\ \A ops, v : Belong(ops, v, made) => Belong(ops, v, made')
         /\ Belong({Len(made')}, u, made')
<1>1. /\ made \in Seq(Users) /\ Len(made) \in Nat /\ MaxOps \in Nat
  BY Limits DEF Typed
<1>2. made' \in Seq(Users) /\ Len(made') = Len(made) + 1
  BY <1>1
<1>3. {Len(made')} \in SUBSET Ops
  BY <1>1, <1>2 DEF Ops
<1>4. (\A ops, v : Belong(ops, v, made) => Belong(ops, v, Append(made, u)))
      /\ Belong({Len(made) + 1}, u, Append(made, u))
  BY <1>1, BelongGrows
<1> QED BY <1>1, <1>2, <1>3, <1>4

LEMMA OthersInv ==
  ASSUME ClientInv, Others
  PROVE  ClientInv'
<1>0. Typed /\ Isolated
  BY DEF ClientInv
<1>1. ASSUME NEW u \in Users, OthersCommand(u) \/ OthersImport(u) PROVE ClientInv'
  <2> DEFINE r == server'[u]
  <2>1. Len(made) < MaxOps /\ made' = Append(made, u)
        /\ UNCHANGED <<session, tab, sync, calls, device, active, epoch, backup, failed>>
    BY <1>1 DEF OthersCommand, OthersImport
  <2>2. /\ made' \in Seq(Users) /\ Len(made') <= MaxOps /\ {Len(made')} \in SUBSET Ops
        /\ \A ops, v : Belong(ops, v, made) => Belong(ops, v, made')
        /\ Belong({Len(made')}, u, made')
    BY <1>0, <2>1, NextOperation
  <2>3. r \in Revisions /\ Belong(r.ops, u, made') /\ server' = [server EXCEPT ![u] = r]
    <3>1. CASE OthersCommand(u)
      <4>1. HasRoom(u) /\ server' = [server EXCEPT ![u] = Commanded(server[u], {Len(made')})]
        BY <3>1 DEF OthersCommand
      <4>2. r = Commanded(server[u], {Len(made')}) /\ server' = [server EXCEPT ![u] = r]
        BY <1>0, <4>1 DEF Typed
      <4>3. Belong(server[u].ops, u, made')
        BY <1>0, <2>2, <4>1 DEF Isolated, HasRoom
      <4>4. r \in Revisions /\ r.ops = server[u].ops \cup {Len(made')}
        BY <1>0, <2>2, <4>1, <4>2, LedgerTypes
      <4> QED BY <2>2, <4>2, <4>3, <4>4, BelongSets
    <3>2. CASE OthersImport(u)
      <4>1. server' = [server EXCEPT ![u] = [epoch |-> epoch, revision |-> 1, ops |-> {Len(made')}]]
        BY <3>2 DEF OthersImport
      <4>2. r = [epoch |-> epoch, revision |-> 1, ops |-> {Len(made')}]
        BY <1>0, <4>1 DEF Typed
      <4>3. r \in Revisions /\ r.ops = {Len(made')}
        BY <1>0, <2>2, <4>2, Limits DEF Typed, Revisions
      <4>4. server' = [server EXCEPT ![u] = r]
        BY <4>1, <4>2
      <4> QED BY <2>2, <4>3, <4>4
    <3> QED BY <1>1, <3>1, <3>2
  <2> HIDE DEF r
  <2>4. server' \in [Users -> Ledgers] /\ backup' \in [Users -> Ledgers]
        /\ active' \in BOOLEAN /\ epoch' \in 1..MaxEpoch
    BY <1>0, <2>1, <2>3 DEF Typed, Ledgers
  <2>5. \A v \in Users : /\ server'[v] # none => Belong(server'[v].ops, v, made')
                         /\ backup'[v] # none => Belong(backup'[v].ops, v, made')
    BY <1>0, <2>1, <2>2, <2>3 DEF Typed, Isolated
  <2>6. UNCHANGED <<session, tab, device, sync, calls>> /\ refusals' \in Nat /\ faults' \in Nat
    BY <1>0, <2>1 DEF failed, Typed
  <2> QED BY <2>2, <2>4, <2>5, <2>6, ElsewhereInv
<1>2. CASE OperatorActivates \/ OperatorRollsBack \/ OperatorBacksUp \/ OperatorRestores
  <2>1. UNCHANGED <<session, tab, device, sync, calls, made>>
    BY <1>2 DEF OperatorActivates, OperatorRollsBack, OperatorBacksUp, OperatorRestores
  <2>2. refusals' \in Nat /\ faults' \in Nat
    BY <1>0, <1>2 DEF OperatorActivates, OperatorRollsBack, OperatorBacksUp, OperatorRestores, Fault,
       Typed, failed
  <2>3. \A u \in Users : /\ server'[u] \in Ledgers /\ backup'[u] \in Ledgers
                         /\ server'[u] # none => Belong(server'[u].ops, u, made)
                         /\ backup'[u] # none => Belong(backup'[u].ops, u, made)
    <3>1. CASE OperatorRestores
      <4> SUFFICES ASSUME NEW u \in Users
                   PROVE  /\ server'[u] \in Ledgers
                          /\ server'[u] # none => Belong(server'[u].ops, u, made)
        BY <3>1 DEF OperatorRestores
      <4>1. CASE backup[u] = none
        BY <3>1, <4>1 DEF OperatorRestores, Ledgers
      <4>2. CASE backup[u] # none
        <5>1. server'[u] = [backup[u] EXCEPT !.epoch = epoch'] /\ backup[u] \in Revisions
          BY <1>0, <3>1, <4>2 DEF OperatorRestores, Typed, Ledgers
        <5>2. epoch' \in 1..MaxEpoch
          BY <1>0, <3>1, Limits DEF OperatorRestores, Typed
        <5>3. server'[u] \in Revisions /\ server'[u].ops = backup[u].ops
          BY <5>1, <5>2 DEF Revisions
        <5> QED BY <1>0, <4>2, <5>3 DEF Isolated, Ledgers
      <4> QED BY <4>1, <4>2
    <3>2. CASE ~OperatorRestores
      BY <1>0, <1>2, <3>2 DEF OperatorActivates, OperatorRollsBack, OperatorBacksUp, Typed, Isolated,
         remote
    <3> QED BY <3>1, <3>2
  <2>4. server' \in [Users -> Ledgers] /\ backup' \in [Users -> Ledgers]
        /\ active' \in BOOLEAN /\ epoch' \in 1..MaxEpoch
    <3>1. server' \in [Users -> Ledgers] /\ backup' \in [Users -> Ledgers]
      BY <1>0, <1>2, <2>3 DEF OperatorActivates, OperatorRollsBack, OperatorBacksUp,
         OperatorRestores, Typed, remote
    <3>2. active' \in BOOLEAN
      BY <1>0, <1>2 DEF OperatorActivates, OperatorRollsBack, OperatorBacksUp, OperatorRestores, Typed
    <3>3. epoch' \in 1..MaxEpoch
      BY <1>0, <1>2, Limits DEF OperatorActivates, OperatorRollsBack, OperatorBacksUp,
         OperatorRestores, Typed
    <3> QED BY <3>1, <3>2, <3>3
  <2>5. made' \in Seq(Users) /\ Len(made') <= MaxOps
    BY <1>0, <2>1 DEF Typed
  <2> QED BY <2>1, <2>2, <2>3, <2>4, <2>5, ElsewhereInv
<1> QED BY <1>1, <1>2 DEF Others
-----------------------------------------------------------------------------
(* A step of one tab.                                                      *)

\* Memory T and synchronization s of a tab with session h are as the invariant wants
\* them, on a device with receipts r, when the operations so far are m.
Sound(T, s, h, r, m) ==
  /\ T \in Memory /\ s \in Attempt /\ h \in [user : Users, serial : 1..MaxSessions]
  /\ Fits(T, h, r) /\ Runs(s, h) /\ Agree(T, s)
  /\ Belong(T.ops, T.scope, m)
  /\ s.bank # none => Belong(s.bank.ops, s.user, m)

LEMMA SoundTab ==
  ASSUME ClientInv, NEW t \in Tabs
  PROVE  Sound(tab[t], sync[t], session[t], receipt, made)
BY DEF ClientInv, TabInv, Typed, Isolated, Scope, Sound

\* What a step of tab t with memory T and synchronization s has to show.
LEMMA TabStepInv ==
  ASSUME ClientInv, NEW t \in Tabs, NEW T, NEW s,
         UNCHANGED <<session, remote>>,
         tab' = [tab EXCEPT ![t] = T], sync' = [sync EXCEPT ![t] = s],
         Sound(T, s, session[t], receipt', made'),
         bank' \in [Users -> Banks], marker' \in [Users -> BOOLEAN],
         receipt' \in [Users -> Receipts \cup {none}], cookie' \in [Users -> 0..MaxEpoch],
         DeviceGrows, \A u \in Users : Vouched(u)',
         made' \in Seq(Users), Len(made') <= MaxOps,
         \A ops, u : Belong(ops, u, made) => Belong(ops, u, made'),
         \A u \in Users : bank'[u] # none => Belong(bank'[u], u, made'),
         \A c \in calls' : /\ c \in Sent /\ (c.kind = "import" => marker'[c.user])
                           /\ Belong(c.ops, c.user, made')
                           /\ c.answer # none => Belong(c.answer.ops, c.user, made'),
         refusals' \in Nat, faults' \in Nat
  PROVE  ClientInv'
<1>1. Typed'
  BY DEF ClientInv, Typed, remote, Sound
<1>2. tab'[t] = T /\ sync'[t] = s
  BY DEF ClientInv, Typed
<1>3. ASSUME NEW o \in Tabs PROVE TabInv(o)'
  <2>1. CASE o = t
    BY <1>2, <2>1 DEF TabInv, Sound
  <2>2. CASE o # t
    BY <2>2, TabStands DEF ClientInv, Typed
  <2> QED BY <2>1, <2>2
<1>4. ImportsMarked'
  BY DEF ImportsMarked
<1>5. Isolated'
  <2>1. \A u \in Users : /\ server'[u] # none => Belong(server'[u].ops, u, made')
                         /\ backup'[u] # none => Belong(backup'[u].ops, u, made')
    BY DEF ClientInv, Isolated, remote
  <2>2. ASSUME NEW o \in Tabs
        PROVE  /\ Belong(tab'[o].ops, tab'[o].scope, made')
               /\ sync'[o].bank # none => Belong(sync'[o].bank.ops, sync'[o].user, made')
    BY <1>2 DEF ClientInv, Isolated, Scope, Typed, Sound
  <2> QED BY <2>1, <2>2 DEF Isolated, Scope
<1> QED BY <1>1, <1>3, <1>4, <1>5 DEF ClientInv

\* No call is new.
CallsThin ==
  \A c \in calls' : c \in Sent /\ \E d \in calls :
    c.kind = d.kind /\ c.user = d.user /\ c.ops = d.ops /\ c.answer = d.answer

\* ... if it writes nothing on the device and sends nothing.
LEMMA TabOnlyInv ==
  ASSUME ClientInv, NEW t \in Tabs, NEW T, NEW s,
         UNCHANGED <<session, bank, marker, receipt, remote, made>>,
         tab' = [tab EXCEPT ![t] = T], sync' = [sync EXCEPT ![t] = s],
         Sound(T, s, session[t], receipt, made),
         cookie' \in [Users -> 0..MaxEpoch],
         CallsThin, refusals' \in Nat, faults' \in Nat
  PROVE  ClientInv'
<1>1. /\ bank' \in [Users -> Banks] /\ marker' \in [Users -> BOOLEAN]
      /\ receipt' \in [Users -> Receipts \cup {none}]
      /\ made' \in Seq(Users) /\ Len(made') <= MaxOps
  BY DEF ClientInv, Typed
<1>2. DeviceGrows /\ \A u \in Users : Vouched(u)'
  BY DEF DeviceGrows, ClientInv, Vouched
<1>3. \A c \in calls' : /\ c \in Sent /\ (c.kind = "import" => marker'[c.user])
                        /\ Belong(c.ops, c.user, made')
                        /\ c.answer # none => Belong(c.answer.ops, c.user, made')
  BY DEF CallsThin, ClientInv, ImportsMarked, Isolated
<1>4. \A u \in Users : bank'[u] # none => Belong(bank'[u], u, made')
  BY DEF ClientInv, Isolated
<1>5. Sound(T, s, session[t], receipt', made')
  OBVIOUS
<1> QED BY <1>1, <1>2, <1>3, <1>4, <1>5, TabStepInv

LEMMA AllThin ==
  ASSUME Typed, calls' \subseteq calls
  PROVE  CallsThin
BY DEF Typed, CallsThin

LEMMA OrphanedThin ==
  ASSUME Typed, NEW t \in Tabs, NEW kinds, calls' = Orphaned(t, kinds)
  PROVE  CallsThin
<1> SUFFICES ASSUME NEW c \in calls'
             PROVE  c \in Sent /\ \E d \in calls :
                      c.kind = d.kind /\ c.user = d.user /\ c.ops = d.ops /\ c.answer = d.answer
  BY DEF CallsThin
<1>1. CASE c \in calls
  BY <1>1 DEF Typed
<1>2. CASE c \notin calls
  <2>1. PICK d \in calls : c = [d EXCEPT !.live = FALSE]
    BY <1>2 DEF Orphaned, Awaited
  <2>2. d \in Sent
    BY DEF Typed
  <2> QED BY <2>1, <2>2 DEF Sent
<1> QED BY <1>1, <1>2

-----------------------------------------------------------------------------
(* New memory, new synchronizations.                                       *)

\* The memory R in the place of T, for the same user and the same sessions.
LEMMA SameUserSound ==
  ASSUME NEW T, NEW s, NEW h, NEW r, NEW m, Sound(T, s, h, r, m), NEW R \in Memory,
         R.scope = T.scope, R.proved = T.proved, R.bound = T.bound,
         T.scope = none => Quiet(R),
         R.gateway => \/ T.gateway
                      \/ T.scope # none /\ r[T.scope] # none
                         /\ s.phase \notin {"asked", "answered"},
         R.mode = "server" => T.scope # none /\ R.owner = T.scope /\ r[T.scope] # none,
         Belong(R.ops, T.scope, m)
  PROVE  Sound(R, s, h, r, m)
<1>1. Fits(R, h, r)
  BY DEF Sound, Fits, Quiet
<1> QED BY <1>1 DEF Sound, Agree, Fits

\* Only the mode and the question change.
LEMMA CalmSound ==
  ASSUME NEW T, NEW s, NEW h, NEW r, NEW m, Sound(T, s, h, r, m), NEW R,
         \/ R = [T EXCEPT !.asks = FALSE]
         \/ R = [T EXCEPT !.mode = "read_only"]
         \/ R = [T EXCEPT !.mode = "read_only", !.asks = FALSE]
  PROVE  Sound(R, s, h, r, m)
<1>1. FALSE \in BOOLEAN /\ "read_only" \in {"local", "server", "read_only"} /\ T \in Memory
  BY DEF Sound
<1>2. R \in Memory
  BY <1>1, MemoryWith
<1>3. /\ R.scope = T.scope /\ R.owner = T.owner /\ R.ops = T.ops
      /\ R.mode \in {T.mode, "read_only"} /\ (R.asks => T.asks)
      /\ R.dirty = T.dirty /\ R.fresh = T.fresh /\ R.unconfirmed = T.unconfirmed
      /\ R.approved = T.approved /\ R.gateway = T.gateway
      /\ R.proved = T.proved /\ R.bound = T.bound
  BY <1>1 DEF Memory
<1>4. T.scope = none => Quiet(R)
  BY <1>3 DEF Sound, Fits, Quiet
<1>5. /\ R.gateway => T.gateway
      /\ R.mode = "server" => T.scope # none /\ R.owner = T.scope /\ r[T.scope] # none
      /\ Belong(R.ops, T.scope, m)
  BY <1>3 DEF Sound, Fits
<1> QED BY <1>2, <1>3, <1>4, <1>5, SameUserSound

\* The tab is in quarantine.
LEMMA LostSound ==
  ASSUME NEW T, NEW s, NEW h, NEW r, NEW m, Sound(T, s, h, r, m), NEW R,
         R = Quarantined(T) \/ R = [Quarantined(T) EXCEPT !.proved = 0]
  PROVE  Sound(R, s, h, r, m) /\ ~R.gateway
<1>0. T \in Memory
  BY DEF Sound
<1>1. Quarantined(T) \in Memory /\ [Quarantined(T) EXCEPT !.proved = 0] \in Memory
  <2>1. /\ none \in Users \cup {none} /\ {} \in SUBSET Ops
        /\ "read_only" \in {"local", "server", "read_only"} /\ 0 \in 0..MaxSessions
    BY Limits
  <2> QED BY <1>0, <2>1, MemoryWith DEF Quarantined
<1>2. DOMAIN T = {"scope", "owner", "ops", "mode", "dirty", "fresh", "unconfirmed", "approved",
                  "asks", "gateway", "proved", "bound"}
  BY <1>0 DEF Memory
<1>3. LET Q == Quarantined(T) IN
      /\ Q.scope = none /\ Q.owner = none /\ Q.ops = {} /\ Q.mode = "read_only"
      /\ ~Q.dirty /\ ~Q.fresh /\ ~Q.unconfirmed /\ ~Q.approved /\ ~Q.asks /\ ~Q.gateway
      /\ Q.proved = T.proved /\ Q.bound = T.bound
  BY <1>2 DEF Quarantined
<1> HIDE DEF Quarantined
<1>4. /\ R.scope = none /\ R.owner = none /\ R.ops = {} /\ R.mode = "read_only"
      /\ ~R.dirty /\ ~R.fresh /\ ~R.unconfirmed /\ ~R.approved /\ ~R.asks /\ ~R.gateway
      /\ R.proved \in {0, T.proved} /\ R.bound = T.bound
  <2>1. DOMAIN Quarantined(T) = DOMAIN T
    BY <1>1, <1>2 DEF Memory
  <2> QED BY <1>2, <1>3, <2>1
<1>5. R.proved <= h.serial /\ R.bound <= h.serial
  BY <1>4 DEF Sound, Fits
<1>6. Fits(R, h, r)
  BY <1>4, <1>5 DEF Fits, Quiet
<1>7. Belong(R.ops, R.scope, m)
  BY <1>4, BelongSets
<1> QED BY <1>1, <1>4, <1>6, <1>7 DEF Sound, Agree

\* A synchronization is at rest.
LEMMA RestSound ==
  ASSUME NEW T, NEW s, NEW h, NEW r, NEW m, Sound(T, s, h, r, m), NEW due \in BOOLEAN
  PROVE  Sound(T, Resting(due), h, r, m)
<1>1. Resting(due) \in Attempt
  BY Limits DEF Resting, Attempt
<1>2. /\ Resting(due).phase = "idle" /\ Resting(due).serial = 0
      /\ Resting(due).bank = none /\ Resting(due).offer = "absent"
  BY DEF Resting
<1>3. Runs(Resting(due), h)
  BY <1>2 DEF Runs, Sound
<1> QED BY <1>1, <1>2, <1>3 DEF Sound, Agree

\* A synchronization goes on, after it was answered.
LEMMA PhaseSound ==
  ASSUME NEW T, NEW s, NEW h, NEW r, NEW m, Sound(T, s, h, r, m),
         NEW p \in Holding, s.phase # "idle"
  PROVE  Sound(T, [s EXCEPT !.phase = p], h, r, m)
<1> DEFINE R == [s EXCEPT !.phase = p]
<1>1. R \in Attempt
  BY DEF Attempt, Sound
<1>2. /\ R.phase = p /\ R.user = s.user /\ R.bank = s.bank /\ R.offer = s.offer
      /\ R.serial = s.serial
  BY DEF Attempt, Sound
<1>3. p \notin {"idle", "asked", "answered"}
  BY DEF Holding
<1> HIDE DEF R
<1>4. Runs(R, h)
  BY <1>2 DEF Runs, Sound
<1>5. Sound(T, R, h, r, m)
  BY <1>1, <1>2, <1>3, <1>4 DEF Sound, Agree
<1> QED BY <1>5 DEF R

\* A new value of one tab.
LEMMA NewTab ==
  ASSUME Typed, NEW t \in Tabs
  PROVE  /\ \A X : tab' = [tab EXCEPT ![t] = X] => tab'[t] = X
         /\ \A X : sync' = [sync EXCEPT ![t] = X] => sync'[t] = X
         /\ tab = [tab EXCEPT ![t] = tab[t]] /\ sync = [sync EXCEPT ![t] = sync[t]]
BY DEF Typed

\* Steps of a tab that leave its synchronization alone and write nothing.
LEMMA QuietStepsInv ==
  ASSUME ClientInv, NEW t \in Tabs,
         LocalCommandRefused(t) \/ SendFindsOtherSession(t) \/ SeesSavedBank(t)
  PROVE  ClientInv'
<1> DEFINE T == tab[t]
           R == tab'[t]
           s == sync[t]
           h == session[t]
<1>0. UNCHANGED <<session, sync, calls, device, remote, made, failed>>
  BY DEF LocalCommandRefused, SendFindsOtherSession, SeesSavedBank
<1>1. Typed /\ Isolated /\ Sound(T, s, h, receipt, made) /\ CallsThin
  BY <1>0, SoundTab, AllThin DEF ClientInv
<1>2. sync' = [sync EXCEPT ![t] = s]
  BY <1>0, <1>1, NewTab
<1>3. CASE LocalCommandRefused(t)
  <2>1. tab' = [tab EXCEPT ![t] = [T EXCEPT !.mode = "read_only", !.asks = FALSE]]
    BY <1>3 DEF LocalCommandRefused
  <2>2. R = [T EXCEPT !.mode = "read_only", !.asks = FALSE] /\ tab' = [tab EXCEPT ![t] = R]
    BY <1>1, <2>1, NewTab
  <2> HIDE DEF R, T, s, h
  <2>3. Sound(R, s, h, receipt, made)
    BY <1>1, <2>2, CalmSound
  <2> QED BY <1>0, <1>1, <1>2, <2>2, <2>3, TabOnlyInv DEF device, failed, Typed, h
<1>4. CASE SendFindsOtherSession(t)
  <2>1. tab' = [tab EXCEPT ![t] = [Quarantined(T) EXCEPT !.proved = 0]]
    BY <1>4 DEF SendFindsOtherSession, SessionLost
  <2>2. R = [Quarantined(T) EXCEPT !.proved = 0] /\ tab' = [tab EXCEPT ![t] = R]
    BY <1>1, <2>1, NewTab
  <2> HIDE DEF R, T, s, h
  <2>3. Sound(R, s, h, receipt, made)
    BY <1>1, <2>2, LostSound
  <2> QED BY <1>0, <1>1, <1>2, <2>2, <2>3, TabOnlyInv DEF device, failed, Typed, h
<1>5. CASE SeesSavedBank(t)
  <2>1. T.mode = "local" /\ bank[T.scope] # none
        /\ tab' = [tab EXCEPT ![t] = [T EXCEPT !.owner = T.scope, !.ops = bank[T.scope]]]
    BY <1>5 DEF SeesSavedBank, Scope
  <2>2. R = [T EXCEPT !.owner = T.scope, !.ops = bank[T.scope]] /\ tab' = [tab EXCEPT ![t] = R]
    BY <1>1, <2>1, NewTab
  <2> HIDE DEF R, T, s, h
  <2>3. T.scope \in Users /\ T.scope # none
    BY <1>1, <2>1 DEF Sound, Fits, Quiet, Memory
  <2>4. bank[T.scope] \in SUBSET Ops /\ Belong(bank[T.scope], T.scope, made)
    BY <1>1, <2>1, <2>3 DEF Typed, Banks, Isolated
  <2>5. R \in Memory
    BY <1>1, <2>2, <2>3, <2>4, MemoryWith DEF Sound
  <2>6. /\ R.scope = T.scope /\ R.ops = bank[T.scope] /\ R.mode = "local"
        /\ R.gateway = T.gateway /\ R.proved = T.proved /\ R.bound = T.bound
    BY <1>1, <2>1, <2>2 DEF Sound, Memory
  <2>7. Sound(R, s, h, receipt, made)
    BY <1>1, <2>3, <2>4, <2>5, <2>6, SameUserSound
  <2> QED BY <1>0, <1>1, <1>2, <2>2, <2>7, TabOnlyInv DEF device, failed, Typed, h
<1> QED BY <1>3, <1>4, <1>5

\* A tab that is told of no revision: it is in quarantine, its question is taken back, or
\* nothing happens to it.
LEMMA Untold ==
  ASSUME ClientInv, NEW t \in Tabs,
         \/ SessionLost(t)
         \/ tab' = [tab EXCEPT ![t] = Quarantined(@)]
         \/ tab' = [tab EXCEPT ![t].asks = FALSE]
         \/ UNCHANGED tab
  PROVE  /\ tab' = [tab EXCEPT ![t] = tab'[t]]
         /\ Sound(tab'[t], sync[t], session[t], receipt, made)
<1> DEFINE T == tab[t]
           R == tab'[t]
<1>1. Typed /\ Sound(T, sync[t], session[t], receipt, made)
  BY SoundTab DEF ClientInv
<1>2. CASE SessionLost(t) \/ tab' = [tab EXCEPT ![t] = Quarantined(@)]
  <2>1. /\ tab' = [tab EXCEPT ![t] = R]
        /\ R = Quarantined(T) \/ R = [Quarantined(T) EXCEPT !.proved = 0]
    BY <1>1, <1>2, NewTab DEF SessionLost
  <2> HIDE DEF R, T
  <2>2. Sound(R, sync[t], session[t], receipt, made)
    BY <1>1, <2>1, LostSound
  <2> QED BY <2>1, <2>2 DEF R
<1>3. CASE tab' = [tab EXCEPT ![t].asks = FALSE]
  <2>1. tab' = [tab EXCEPT ![t] = R] /\ R = [T EXCEPT !.asks = FALSE]
    BY <1>1, <1>3, NewTab
  <2> HIDE DEF R, T
  <2>2. Sound(R, sync[t], session[t], receipt, made)
    BY <1>1, <2>1, CalmSound
  <2> QED BY <2>1, <2>2 DEF R
<1>4. CASE UNCHANGED tab
  BY <1>1, <1>4, NewTab
<1> QED BY <1>2, <1>3, <1>4

LEMMA Counts ==
  ASSUME ClientInv, Fault \/ Refusal \/ UNCHANGED failed
  PROVE  refusals' \in Nat /\ faults' \in Nat
BY DEF ClientInv, Typed, Fault, Refusal, failed

LEMMA FailuresInv ==
  ASSUME ClientInv,
         \/ \E c \in calls : CommandFails(c) \/ ImportRefused(c)
         \/ \E t \in Tabs : SyncFails(t) \/ NoticeSession(t) \/ SyncFindsOtherSession(t)
                            \/ SyncFindsOtherScope(t)
  PROVE  ClientInv'
<1>0. Typed
  BY DEF ClientInv
<1>1. ASSUME NEW c \in calls, CommandFails(c) PROVE ClientInv'
  <2> DEFINE t == c.tab
  <2>1. t \in Tabs /\ c \in Sent
    BY <1>0 DEF Typed, Sent
  <2>2. /\ UNCHANGED <<session, sync, bank, marker, receipt, cookie, remote, made>>
        /\ refusals' \in Nat /\ faults' \in Nat
    BY <1>1, Counts DEF CommandFails, device
  <2>3. CallsThin
    <3>1. calls' \subseteq calls \cup {[c EXCEPT !.live = FALSE]}
      BY <1>1 DEF CommandFails
    <3> DEFINE d == [c EXCEPT !.live = FALSE]
    <3>2. d \in Sent /\ d.kind = c.kind /\ d.user = c.user /\ d.ops = c.ops /\ d.answer = c.answer
      BY <2>1 DEF Sent
    <3> QED BY <1>0, <3>1, <3>2 DEF CallsThin, Typed
  <2>4. SessionLost(t) \/ tab' = [tab EXCEPT ![t].asks = FALSE]
    BY <1>1 DEF CommandFails
  <2>5. sync' = [sync EXCEPT ![t] = sync[t]] /\ cookie' \in [Users -> 0..MaxEpoch]
    BY <1>0, <2>1, <2>2, NewTab DEF Typed
  <2> HIDE DEF t
  <2>6. tab' = [tab EXCEPT ![t] = tab'[t]] /\ Sound(tab'[t], sync[t], session[t], receipt, made)
    BY <2>1, <2>4, Untold
  <2> QED BY <2>1, <2>2, <2>3, <2>5, <2>6, TabOnlyInv
<1>2. ASSUME NEW t \in Tabs, NEW due \in BOOLEAN, Rest(t, due), CallsThin,
             UNCHANGED <<session, bank, marker, receipt, cookie, remote, made>>,
             refusals' \in Nat /\ faults' \in Nat,
             \/ SessionLost(t)
             \/ tab' = [tab EXCEPT ![t] = Quarantined(@)]
             \/ tab' = [tab EXCEPT ![t].asks = FALSE]
             \/ UNCHANGED tab
      PROVE  ClientInv'
  <2>1. tab' = [tab EXCEPT ![t] = tab'[t]] /\ Sound(tab'[t], sync[t], session[t], receipt, made)
    BY <1>2, Untold
  <2>2. Sound(tab'[t], Resting(due), session[t], receipt, made)
    BY <2>1, RestSound
  <2>3. sync' = [sync EXCEPT ![t] = Resting(due)] /\ cookie' \in [Users -> 0..MaxEpoch]
    BY <1>0, <1>2 DEF Rest, Typed
  <2> QED BY <1>2, <2>1, <2>2, <2>3, TabOnlyInv
<1>3. ASSUME NEW c \in calls, ImportRefused(c) PROVE ClientInv'
  <2> DEFINE t == c.tab
  <2>1. t \in Tabs
    BY <1>0 DEF Typed, Sent
  <2>2. /\ UNCHANGED <<session, bank, marker, receipt, cookie, remote, made>> /\ Rest(t, TRUE)
        /\ refusals' \in Nat /\ faults' \in Nat
        /\ SessionLost(t) \/ tab' = [tab EXCEPT ![t].asks = FALSE]
    BY <1>3, Counts DEF ImportRefused, device
  <2>3. CallsThin
    BY <1>0, <1>3, AllThin DEF ImportRefused
  <2> HIDE DEF t
  <2> QED BY <1>2, <2>1, <2>2, <2>3
<1>4. ASSUME NEW t \in Tabs, SyncFails(t) PROVE ClientInv'
  <2>1. /\ UNCHANGED <<session, bank, marker, receipt, cookie, remote, made>> /\ Rest(t, TRUE)
        /\ refusals' \in Nat /\ faults' \in Nat
        /\ SessionLost(t) \/ UNCHANGED tab
    BY <1>4, Counts DEF SyncFails, device
  <2>2. CallsThin
    BY <1>0, <1>4, OrphanedThin DEF SyncFails
  <2> QED BY <1>2, <2>1, <2>2
<1>5. ASSUME NEW t \in Tabs, NoticeSession(t) PROVE ClientInv'
  <2>1. /\ UNCHANGED <<session, bank, marker, receipt, cookie, remote, made>> /\ Rest(t, TRUE)
        /\ refusals' \in Nat /\ faults' \in Nat
        /\ tab' = [tab EXCEPT ![t] = Quarantined(@)]
    BY <1>5, Counts DEF NoticeSession, device
  <2>2. CallsThin
    BY <1>0, <1>5, OrphanedThin DEF NoticeSession
  <2> QED BY <1>2, <2>1, <2>2
<1>6. ASSUME NEW t \in Tabs, SyncFindsOtherSession(t) \/ SyncFindsOtherScope(t) PROVE ClientInv'
  <2>1. /\ UNCHANGED <<session, calls, bank, marker, receipt, cookie, remote, made>> /\ Rest(t, TRUE)
        /\ refusals' \in Nat /\ faults' \in Nat
        /\ SessionLost(t) \/ UNCHANGED tab
    BY <1>6, Counts DEF SyncFindsOtherSession, SyncFindsOtherScope, device
  <2>2. CallsThin
    BY <1>0, <2>1, AllThin
  <2> QED BY <1>2, <2>1, <2>2
<1> QED BY <1>1, <1>3, <1>4, <1>5, <1>6
LEMMA StartInv ==
  ASSUME ClientInv, NEW t \in Tabs, SyncStart(t)
  PROVE  ClientInv'
<1> DEFINE T == tab[t]
           R == tab'[t]
           h == session[t]
           s == [Resting(TRUE) EXCEPT !.phase = "asked", !.serial = h.serial, !.user = h.user]
           host == IF Same(t, T.bound) THEN h.user ELSE none
<1>0. Typed /\ Sound(T, sync[t], h, receipt, made)
  BY SoundTab DEF ClientInv
<1>1. /\ UNCHANGED <<session, calls, bank, marker, receipt, cookie, remote, made>>
      /\ refusals' \in Nat /\ faults' \in Nat
  BY Counts DEF SyncStart, device
<1>2. CallsThin
  BY <1>0, <1>1, AllThin
<1>3. h.user \in Users /\ h.serial \in 1..MaxSessions
  BY <1>0 DEF Sound
<1>5. sync' = [sync EXCEPT ![t] = s]
  BY DEF SyncStart
<1>6. s \in Attempt /\ Runs(s, h) /\ s.bank = none /\ s.user = h.user
  <2> DEFINE e == Resting(TRUE)
             e1 == [e EXCEPT !.phase = "asked"]
             e2 == [e1 EXCEPT !.serial = h.serial]
  <2>1. e \in Attempt /\ e.bank = none /\ e.offer = "absent"
    <3>1. e \in Attempt
      BY <1>0, RestSound DEF Sound
    <3> QED BY <3>1 DEF Resting
  <2> HIDE DEF e
  <2>2. e1 \in Attempt /\ e1.bank = none /\ e1.offer = "absent" /\ e1.phase = "asked"
    BY <2>1 DEF Attempt
  <2> HIDE DEF e1
  <2>3. e2 \in Attempt /\ e2.bank = none /\ e2.offer = "absent" /\ e2.phase = "asked"
        /\ e2.serial = h.serial
    BY <1>3, <2>2, Limits DEF Attempt
  <2> HIDE DEF e2
  <2>4. s = [e2 EXCEPT !.user = h.user]
    BY DEF e, e1, e2
  <2> HIDE DEF s
  <2>5. s \in Attempt /\ s.bank = none /\ s.offer = "absent" /\ s.phase = "asked"
        /\ s.serial = h.serial /\ s.user = h.user
    BY <1>3, <2>3, <2>4 DEF Attempt
  <2> QED BY <1>3, <2>5 DEF Runs
<1> HIDE DEF s
<1>7. /\ tab' = [tab EXCEPT ![t] = R]
      /\ \/ R = Quarantined(T)
         \/ R \in {T, [T EXCEPT !.mode = "read_only"]} /\ T.scope = h.user
  <2>1. tab' = [tab EXCEPT ![t] =
          IF host = none \/ T.scope # host \/ T.owner # host THEN Quarantined(T)
          ELSE IF T.gateway \/ (T.mode = "local" /\ ~marker[host]) THEN T
          ELSE [T EXCEPT !.mode = "read_only"]]
    BY DEF SyncStart
  <2> DEFINE X == IF host = none \/ T.scope # host \/ T.owner # host THEN Quarantined(T)
                  ELSE IF T.gateway \/ (T.mode = "local" /\ ~marker[host]) THEN T
                  ELSE [T EXCEPT !.mode = "read_only"]
  <2>2. X = Quarantined(T) \/ (X \in {T, [T EXCEPT !.mode = "read_only"]} /\ T.scope = h.user)
    BY <1>3, Limits
  <2>3. tab' = [tab EXCEPT ![t] = X]
    BY <2>1
  <2> HIDE DEF X
  <2>4. R = X
    BY <1>0, <2>3, NewTab
  <2> QED BY <2>2, <2>3, <2>4
<1> HIDE DEF T, R, h
<1>8. Sound(R, sync[t], h, receipt, made) /\ (R.gateway => R.scope = h.user)
  <2>1. CASE R = Quarantined(T)
    BY <1>0, <2>1, LostSound
  <2>2. CASE R = T /\ T.scope = h.user
    BY <1>0, <2>2
  <2>3. CASE R = [T EXCEPT !.mode = "read_only"] /\ T.scope = h.user
    <3>1. Sound(R, sync[t], h, receipt, made)
      BY <1>0, <2>3, CalmSound
    <3>2. R.scope = T.scope
      BY <1>0, <2>3 DEF Sound, Memory
    <3> QED BY <2>3, <3>1, <3>2
  <2> QED BY <1>0, <1>7, <2>1, <2>2, <2>3
<1>9. Sound(R, s, h, receipt, made)
  BY <1>6, <1>8 DEF Sound, Agree
<1>10. cookie' \in [Users -> 0..MaxEpoch]
  BY <1>0, <1>1 DEF Typed
<1> QED BY <1>1, <1>2, <1>5, <1>7, <1>9, <1>10, TabOnlyInv DEF h

\* The end of a synchronization that went well, or whose preferences were not saved.
LEMMA FinishTypes ==
  ASSUME ClientInv, NEW t \in Tabs, Finish(t) \/ (Rest(t, TRUE) /\ UNCHANGED <<cookie, failed>>)
  PROVE  /\ cookie' \in [Users -> 0..MaxEpoch] /\ refusals' \in Nat /\ faults' \in Nat
         /\ \E due \in BOOLEAN : sync' = [sync EXCEPT ![t] = Resting(due)]
<1>1. sync[t].epoch \in 0..MaxEpoch /\ cookie \in [Users -> 0..MaxEpoch]
  BY DEF ClientInv, Typed, Attempt
<1>2. refusals' \in Nat /\ faults' \in Nat
  BY Counts DEF Finish
<1>3. cookie' \in [Users -> 0..MaxEpoch]
  BY <1>1 DEF Finish
<1> QED BY <1>2, <1>3 DEF Finish, Rest

LEMMA LocallyInv ==
  ASSUME ClientInv, NEW t \in Tabs, SyncLocally(t)
  PROVE  ClientInv'
<1> DEFINE T == tab[t]
           R == tab'[t]
           h == session[t]
           mode == IF marker[Scope(t)] THEN "read_only" ELSE "local"
<1>0. Typed /\ Sound(T, sync[t], h, receipt, made)
  BY SoundTab DEF ClientInv
<1>1. UNCHANGED <<session, calls, bank, marker, receipt, remote, made>>
  BY DEF SyncLocally
<1>2. CallsThin
  BY <1>0, <1>1, AllThin
<1>3. /\ cookie' \in [Users -> 0..MaxEpoch] /\ refusals' \in Nat /\ faults' \in Nat
      /\ \E due \in BOOLEAN : sync' = [sync EXCEPT ![t] = Resting(due)]
  BY FinishTypes DEF SyncLocally
<1>4. tab' = [tab EXCEPT ![t] = [T EXCEPT !.gateway = FALSE, !.asks = FALSE, !.mode = mode]]
  BY DEF SyncLocally
<1>5. mode \in {"local", "read_only"}
  OBVIOUS
<1> HIDE DEF mode
<1>6. R = [T EXCEPT !.gateway = FALSE, !.asks = FALSE, !.mode = mode] /\ tab' = [tab EXCEPT ![t] = R]
  BY <1>0, <1>4, NewTab
<1>7. T.scope # none
  BY <1>0, Limits DEF SyncLocally, Scope, Sound, Runs
<1> HIDE DEF R, T, h
<1>8. R \in Memory
  <2>1. FALSE \in BOOLEAN /\ mode \in {"local", "server", "read_only"} /\ T \in Memory
    BY <1>0, <1>5 DEF Sound
  <2> QED BY <1>6, <2>1, MemoryWith
<1>9. /\ R.scope = T.scope /\ R.ops = T.ops /\ R.mode # "server" /\ ~R.gateway
      /\ R.proved = T.proved /\ R.bound = T.bound
  BY <1>0, <1>5, <1>6 DEF Sound, Memory
<1>10. Belong(R.ops, T.scope, made)
  BY <1>0, <1>9 DEF Sound
<1>11. Sound(R, sync[t], h, receipt, made)
  BY <1>0, <1>7, <1>8, <1>9, <1>10, SameUserSound
<1>12. PICK due \in BOOLEAN : sync' = [sync EXCEPT ![t] = Resting(due)]
  BY <1>3
<1>13. Sound(R, Resting(due), h, receipt, made)
  BY <1>11, RestSound
<1> QED BY <1>1, <1>2, <1>3, <1>6, <1>12, <1>13, TabOnlyInv DEF h

LEMMA ApproveInv ==
  ASSUME ClientInv, NEW t \in Tabs, Approve(t)
  PROVE  ClientInv'
<1> DEFINE T == tab[t]
           R == tab'[t]
           h == session[t]
           s == [sync[t] EXCEPT !.due = TRUE]
<1>0. Typed /\ Sound(T, sync[t], h, receipt, made)
  BY SoundTab DEF ClientInv
<1>1. /\ UNCHANGED <<session, calls, bank, marker, receipt, cookie, remote, made>>
      /\ refusals' \in Nat /\ faults' \in Nat
  BY Counts DEF Approve, device
<1>2. CallsThin /\ cookie' \in [Users -> 0..MaxEpoch]
  BY <1>0, <1>1, AllThin DEF Typed
<1>3. tab' = [tab EXCEPT ![t] = [T EXCEPT !.approved = TRUE]] /\ sync' = [sync EXCEPT ![t] = s]
      /\ T.unconfirmed
  BY DEF Approve
<1>4. R = [T EXCEPT !.approved = TRUE] /\ tab' = [tab EXCEPT ![t] = R]
  BY <1>0, <1>3, NewTab
<1>5. s \in Attempt /\ s.phase = sync[t].phase /\ s.serial = sync[t].serial /\ s.user = sync[t].user
      /\ s.offer = sync[t].offer /\ s.bank = sync[t].bank
  BY <1>0 DEF Sound, Attempt
<1> HIDE DEF R, T, h, s
<1>6. T.scope # none
  BY <1>0, <1>3 DEF Sound, Fits, Quiet
<1>7. R \in Memory
  BY <1>0, <1>4, MemoryWith DEF Sound
<1>8. /\ R.scope = T.scope /\ R.ops = T.ops /\ R.mode = T.mode /\ R.owner = T.owner
      /\ R.gateway = T.gateway /\ R.proved = T.proved /\ R.bound = T.bound
  BY <1>0, <1>4 DEF Sound, Memory
<1>9. /\ R.mode = "server" => T.scope # none /\ R.owner = T.scope /\ receipt[T.scope] # none
      /\ Belong(R.ops, T.scope, made)
  BY <1>0, <1>8 DEF Sound, Fits
<1>10. Sound(R, sync[t], h, receipt, made)
  BY <1>0, <1>6, <1>7, <1>8, <1>9, SameUserSound
<1>11. Sound(R, s, h, receipt, made)
  BY <1>5, <1>10 DEF Sound, Runs, Agree
<1> QED BY <1>1, <1>2, <1>3, <1>4, <1>11, TabOnlyInv DEF h

\* The serial of the new session is one that nothing remembers.
LEMMA SwitchInv ==
  ASSUME ClientInv, NEW t \in Tabs, SwitchSession(t)
  PROVE  ClientInv'
<1>0. Typed
  BY DEF ClientInv
<1>1. UNCHANGED <<tab, sync, calls, device, remote, made, failed>>
  BY DEF SwitchSession
<1>2. PICK u \in Users : session' = [session EXCEPT ![t] = [user |-> u, serial |-> session[t].serial + 1]]
  BY DEF SwitchSession
<1>3. session[t].serial \in 1..MaxSessions /\ session[t].serial < MaxSessions
  BY <1>0 DEF Typed, SwitchSession
<1>4. /\ session'[t].serial = session[t].serial + 1
      /\ session' \in [Tabs -> [user : Users, serial : 1..MaxSessions]]
  BY <1>0, <1>2, <1>3, Limits DEF Typed
<1>5. Typed'
  BY <1>1, <1>4, <1>0 DEF Typed, device, remote, failed
<1>6. DeviceGrows /\ \A v \in Users : Vouched(v)'
  BY <1>1 DEF DeviceGrows, ClientInv, Vouched, device
<1>7. ASSUME NEW o \in Tabs PROVE TabInv(o)'
  <2>1. CASE o = t
    <3>1. /\ tab[t].proved \in Nat /\ tab[t].bound \in Nat /\ sync[t].serial \in Nat
          /\ TabInv(t)
      BY <1>0 DEF ClientInv, Typed, Memory, Attempt
    <3>2. Fits(tab[t], session'[t], receipt)
      BY <1>3, <1>4, <3>1 DEF TabInv, Fits
    <3>3. Runs(sync[t], session'[t])
      BY <1>3, <1>4, <3>1 DEF TabInv, Runs
    <3> QED BY <1>1, <2>1, <3>1, <3>2, <3>3 DEF TabInv, device
  <2>2. CASE o # t
    BY <1>0, <1>1, <1>2, <1>6, <2>2, TabStands DEF ClientInv, Typed
  <2> QED BY <2>1, <2>2
<1>8. ImportsMarked' /\ Isolated'
  BY <1>1 DEF ClientInv, ImportsMarked, Isolated, Scope, device, remote
<1> QED BY <1>5, <1>6, <1>7, <1>8 DEF ClientInv
-----------------------------------------------------------------------------
(* Commands.                                                               *)

\* Operations are added and no receipt is lost.
LEMMA SoundGrows ==
  ASSUME NEW T, NEW s, NEW h, NEW r, NEW m, Sound(T, s, h, r, m), NEW more, NEW longer,
         \A u \in Users : r[u] # none => more[u] # none,
         \A ops, u : Belong(ops, u, m) => Belong(ops, u, longer)
  PROVE  Sound(T, s, h, more, longer)
<1>1. Fits(T, h, more)
  BY FitsMore DEF Sound
<1> QED BY <1>1 DEF Sound

LEMMA OldCalls ==
  ASSUME ClientInv, \A u \in Users : marker[u] => marker'[u],
         \A ops, u : Belong(ops, u, made) => Belong(ops, u, made')
  PROVE  \A c \in calls : /\ c \in Sent /\ (c.kind = "import" => marker'[c.user])
                          /\ Belong(c.ops, c.user, made')
                          /\ c.answer # none => Belong(c.answer.ops, c.user, made')
<1>1. \A c \in calls : c \in Sent /\ c.user \in Users
  BY DEF ClientInv, Typed, Sent
<1> QED BY <1>1 DEF ClientInv, ImportsMarked, Isolated

\* A call of a tab for the user it shows.
LEMMA CallType ==
  ASSUME NEW t \in Tabs, NEW kind \in {"command", "import"}, NEW ops \in SUBSET Ops,
         session[t] \in [user : Users, serial : 1..MaxSessions]
  PROVE  /\ Call(t, kind, ops) \in Sent /\ Call(t, kind, ops).kind = kind
         /\ Call(t, kind, ops).user = session[t].user
         /\ Call(t, kind, ops).ops = ops /\ Call(t, kind, ops).answer = none
BY DEF Call, Sent

LEMMA SendInv ==
  ASSUME ClientInv, NEW t \in Tabs, SendCommand(t)
  PROVE  ClientInv'
<1> DEFINE T == tab[t]
           h == session[t]
           ops == {Len(made')}
           c == Call(t, "command", ops)
<1>0. Typed /\ Sound(T, sync[t], h, receipt, made)
  BY SoundTab DEF ClientInv
<1>1. UNCHANGED <<session, tab, sync, bank, marker, receipt, cookie, remote, refusals, faults>>
  BY DEF SendCommand, device, failed
<1>2. T.scope \in Users /\ h.user = T.scope /\ h \in [user : Users, serial : 1..MaxSessions]
  BY <1>0 DEF SendCommand, MaySend, Same, Sound, Fits, Memory
<1>3. Len(made) < MaxOps /\ made' = Append(made, T.scope) /\ calls' = calls \cup {c}
  BY DEF SendCommand, Scope
<1>4. /\ made' \in Seq(Users) /\ Len(made') <= MaxOps /\ ops \in SUBSET Ops
      /\ \A x, v : Belong(x, v, made) => Belong(x, v, made')
      /\ Belong(ops, T.scope, made')
  BY <1>0, <1>2, <1>3, NextOperation
<1> HIDE DEF ops
<1>5. /\ c \in Sent /\ c.kind = "command" /\ c.user = h.user /\ c.ops = ops /\ c.answer = none
  BY <1>2, <1>4, CallType
<1> HIDE DEF c
<1>6. \A d \in calls' : /\ d \in Sent /\ (d.kind = "import" => marker'[d.user])
                        /\ Belong(d.ops, d.user, made')
                        /\ d.answer # none => Belong(d.answer.ops, d.user, made')
  BY <1>1, <1>2, <1>3, <1>4, <1>5, OldCalls
<1>7. Sound(T, sync[t], h, receipt', made')
  BY <1>0, <1>1, <1>4, SoundGrows
<1>8. DeviceGrows /\ \A u \in Users : Vouched(u)'
  BY <1>1 DEF DeviceGrows, ClientInv, Vouched
<1>9. \A u \in Users : bank'[u] # none => Belong(bank'[u], u, made')
  BY <1>1, <1>4 DEF ClientInv, Isolated
<1>10. tab' = [tab EXCEPT ![t] = T] /\ sync' = [sync EXCEPT ![t] = sync[t]]
  BY <1>0, <1>1, NewTab
<1>11. /\ bank' \in [Users -> Banks] /\ marker' \in [Users -> BOOLEAN]
       /\ receipt' \in [Users -> Receipts \cup {none}] /\ cookie' \in [Users -> 0..MaxEpoch]
       /\ refusals' \in Nat /\ faults' \in Nat
  BY <1>0, <1>1 DEF Typed
<1>12. UNCHANGED <<session, remote>>
  BY <1>1
<1> HIDE DEF T, h
<1> QED BY <1>4, <1>6, <1>7, <1>8, <1>9, <1>10, <1>11, <1>12, TabStepInv DEF h

\* What a local command starts from is of the user of the tab.
LEMMA BaseFacts ==
  ASSUME ClientInv, NEW t \in Tabs
  PROVE  /\ MutationBase(t) = [owner |-> MutationBase(t).owner, ops |-> MutationBase(t).ops]
         /\ MutationBase(t).owner \in Users \cup {none}
         /\ MutationBase(t).ops \in SUBSET Ops
         /\ Belong(MutationBase(t).ops, tab[t].scope, made)
<1>1. Sound(tab[t], sync[t], session[t], receipt, made)
  BY SoundTab
<1>2. CASE ~tab[t].dirty /\ Scope(t) # none /\ bank[Scope(t)] # none
  <2>1. MutationBase(t) = [owner |-> tab[t].scope, ops |-> bank[tab[t].scope]]
    BY <1>2 DEF MutationBase, Scope
  <2>2. tab[t].scope \in Users
    BY <1>1, <1>2 DEF Sound, Memory, Scope
  <2> QED BY <1>2, <2>1, <2>2 DEF ClientInv, Typed, Banks, Isolated, Scope
<1>3. CASE ~(~tab[t].dirty /\ Scope(t) # none /\ bank[Scope(t)] # none)
  <2>1. MutationBase(t) = [owner |-> tab[t].owner, ops |-> tab[t].ops]
    BY <1>3 DEF MutationBase
  <2> QED BY <1>1, <2>1 DEF Sound, Memory
<1> QED BY <1>2, <1>3

\* What a commit leaves in memory and on the device.
LEMMA CommitFacts ==
  ASSUME Typed, NEW t \in Tabs, NEW T \in Memory, T.scope \in Users,
         NEW base, base.owner \in Users \cup {none}, base.ops \in SUBSET Ops,
         NEW saved \in BOOLEAN, Commit(t, T, base, saved)
  PROVE  LET R == tab'[t] IN
         /\ tab' = [tab EXCEPT ![t] = R] /\ R \in Memory
         /\ R.owner = base.owner /\ R.ops = base.ops /\ R.dirty = ~saved
         /\ R.scope = T.scope /\ R.mode = T.mode /\ R.gateway = T.gateway /\ R.fresh = T.fresh
         /\ R.proved = T.proved /\ R.bound = T.bound
         /\ bank' \in [Users -> Banks]
         /\ \A u \in Users : bank'[u] = bank[u] \/ (u = T.scope /\ bank'[u] = base.ops)
         /\ saved => base.owner = T.scope
<1> DEFINE X == [T EXCEPT !.owner = base.owner, !.ops = base.ops, !.dirty = ~saved]
           R == tab'[t]
<1>1. tab' = [tab EXCEPT ![t] = X] /\ R = X
  BY NewTab DEF Commit
<1>2. X \in Memory
  <2>1. (~saved) \in BOOLEAN
    OBVIOUS
  <2> QED BY <2>1, MemoryWith
<1>3. /\ X.owner = base.owner /\ X.ops = base.ops /\ X.dirty = ~saved
      /\ X.scope = T.scope /\ X.mode = T.mode /\ X.gateway = T.gateway /\ X.fresh = T.fresh
      /\ X.proved = T.proved /\ X.bound = T.bound
  BY DEF Memory
<1>4. bank' = IF saved THEN [bank EXCEPT ![T.scope] = base.ops] ELSE bank
  BY DEF Commit
<1>5. /\ bank' \in [Users -> Banks]
      /\ \A u \in Users : bank'[u] = bank[u] \/ (u = T.scope /\ bank'[u] = base.ops)
  BY <1>4 DEF Typed, Banks
<1>6. saved => base.owner = T.scope
  BY DEF Commit
<1> HIDE DEF X
<1> QED BY <1>1, <1>2, <1>3, <1>5, <1>6

\* The device after a write of the saved bank of a user.
LEMMA BankWritten ==
  ASSUME ClientInv, UNCHANGED <<marker, receipt>>, NEW v \in Users, NEW ops \in SUBSET Ops,
         \A u \in Users : bank'[u] = bank[u] \/ (u = v /\ bank'[u] = ops),
         \A x, u : Belong(x, u, made) => Belong(x, u, made'),
         Belong(ops, v, made')
  PROVE  /\ DeviceGrows /\ \A u \in Users : Vouched(u)'
         /\ \A u \in Users : bank'[u] # none => Belong(bank'[u], u, made')
         /\ marker' \in [Users -> BOOLEAN] /\ receipt' \in [Users -> Receipts \cup {none}]
<1>1. ops # none
  BY Limits
<1> QED BY <1>1 DEF ClientInv, Typed, Isolated, DeviceGrows, Vouched

LEMMA LocalCommandInv ==
  ASSUME ClientInv, NEW t \in Tabs, LocalCommand(t)
  PROVE  ClientInv'
<1> DEFINE T == tab[t]
           R == tab'[t]
           h == session[t]
           old == MutationBase(t)
           base == [old EXCEPT !.ops = @ \cup {Len(made')}]
<1>0. Typed /\ Sound(T, sync[t], h, receipt, made)
  BY SoundTab DEF ClientInv
<1>1. /\ UNCHANGED <<session, sync, calls, marker, receipt, cookie, remote>>
      /\ refusals' \in Nat /\ faults' \in Nat
      /\ T.mode = "local" /\ Len(made) < MaxOps /\ made' = Append(made, T.scope)
      /\ \E saved \in BOOLEAN : Commit(t, T, base, saved)
  <2>1. \E saved \in BOOLEAN : Commit(t, T, base, saved)
    <3>1. (base.owner = Scope(t)) \in BOOLEAN
      OBVIOUS
    <3> QED BY <3>1 DEF LocalCommand
  <2> QED BY <2>1, Counts DEF LocalCommand, Scope
<1>2. T.scope \in Users /\ T \in Memory
  BY <1>0, <1>1 DEF Sound, Fits, Quiet, Memory
<1>3. /\ made' \in Seq(Users) /\ Len(made') <= MaxOps /\ {Len(made')} \in SUBSET Ops
      /\ \A x, v : Belong(x, v, made) => Belong(x, v, made')
      /\ Belong({Len(made')}, T.scope, made')
  BY <1>0, <1>1, <1>2, NextOperation
<1>4. /\ base.owner \in Users \cup {none} /\ base.ops \in SUBSET Ops
      /\ Belong(base.ops, T.scope, made')
  <2>1. /\ old = [owner |-> old.owner, ops |-> old.ops] /\ old.owner \in Users \cup {none}
        /\ old.ops \in SUBSET Ops /\ Belong(old.ops, T.scope, made)
    BY BaseFacts
  <2> HIDE DEF old
  <2>2. base.owner = old.owner /\ base.ops = old.ops \cup {Len(made')}
    BY <2>1
  <2> HIDE DEF base
  <2> QED BY <1>3, <2>1, <2>2, BelongSets
<1> HIDE DEF base
<1>5. PICK saved \in BOOLEAN : Commit(t, T, base, saved)
  BY <1>1
<1>6. /\ tab' = [tab EXCEPT ![t] = R] /\ R \in Memory /\ R.ops = base.ops
      /\ R.scope = T.scope /\ R.mode = T.mode /\ R.gateway = T.gateway
      /\ R.proved = T.proved /\ R.bound = T.bound
      /\ bank' \in [Users -> Banks]
      /\ \A u \in Users : bank'[u] = bank[u] \/ (u = T.scope /\ bank'[u] = base.ops)
  BY <1>0, <1>2, <1>4, <1>5, CommitFacts
<1>7. /\ DeviceGrows /\ \A u \in Users : Vouched(u)'
      /\ \A u \in Users : bank'[u] # none => Belong(bank'[u], u, made')
      /\ marker' \in [Users -> BOOLEAN] /\ receipt' \in [Users -> Receipts \cup {none}]
  BY <1>1, <1>2, <1>3, <1>4, <1>6, BankWritten
<1> HIDE DEF T, R, h
<1>8. Sound(T, sync[t], h, receipt', made')
  BY <1>0, <1>1, <1>3, SoundGrows
<1>9. T.scope # none
  BY <1>2, Limits
<1>10. Belong(R.ops, T.scope, made') /\ R.mode # "server"
  BY <1>1, <1>4, <1>6
<1>11. Sound(R, sync[t], h, receipt', made')
  BY <1>6, <1>8, <1>9, <1>10, SameUserSound
<1>12. sync' = [sync EXCEPT ![t] = sync[t]] /\ cookie' \in [Users -> 0..MaxEpoch]
  BY <1>0, <1>1, NewTab DEF Typed
<1>13. \A d \in calls' : /\ d \in Sent /\ (d.kind = "import" => marker'[d.user])
                         /\ Belong(d.ops, d.user, made')
                         /\ d.answer # none => Belong(d.answer.ops, d.user, made')
  BY <1>1, <1>3, OldCalls
<1> QED BY <1>1, <1>3, <1>6, <1>7, <1>11, <1>12, <1>13, TabStepInv DEF h
-----------------------------------------------------------------------------
(* The launch.                                                             *)

\* A step of a launch that writes the saved bank of its user at most.
LEMMA LaunchStepInv ==
  ASSUME ClientInv, NEW t \in Tabs, NEW v \in Users, NEW ops \in SUBSET Ops, NEW R, NEW s,
         UNCHANGED <<session, calls, marker, receipt, cookie, remote, made>>,
         tab' = [tab EXCEPT ![t] = R], sync' = [sync EXCEPT ![t] = s],
         Sound(R, s, session[t], receipt, made),
         bank' \in [Users -> Banks],
         \A u \in Users : bank'[u] = bank[u] \/ (u = v /\ bank'[u] = ops),
         Belong(ops, v, made), refusals' \in Nat, faults' \in Nat
  PROVE  ClientInv'
<1>1. /\ DeviceGrows /\ \A u \in Users : Vouched(u)'
      /\ \A u \in Users : bank'[u] # none => Belong(bank'[u], u, made')
      /\ marker' \in [Users -> BOOLEAN] /\ receipt' \in [Users -> Receipts \cup {none}]
  BY BankWritten
<1>2. \A d \in calls' : /\ d \in Sent /\ (d.kind = "import" => marker'[d.user])
                        /\ Belong(d.ops, d.user, made')
                        /\ d.answer # none => Belong(d.answer.ops, d.user, made')
  BY OldCalls
<1>3. Sound(R, s, session[t], receipt', made')
  OBVIOUS
<1>4. /\ cookie' \in [Users -> 0..MaxEpoch] /\ made' \in Seq(Users) /\ Len(made') <= MaxOps
  BY DEF ClientInv, Typed
<1> QED BY <1>1, <1>2, <1>3, <1>4, TabStepInv

LEMMA ActivateInv ==
  ASSUME ClientInv, NEW t \in Tabs, Activate(t)
  PROVE  ClientInv'
<1> DEFINE old == tab[t]
           R == tab'[t]
           h == session[t]
           s == sync[t]
           u == s.user
           mode == IF old.gateway THEN "server" ELSE IF marker[u] THEN "read_only" ELSE "local"
           T == [old EXCEPT !.scope = u, !.proved = s.serial, !.bound = s.serial, !.mode = mode]
           unsaved == old.scope = u /\ old.owner = u /\ old.dirty
           aligned == ~unsaved /\ Migrated(u) # none
           Found == [T EXCEPT !.owner = u, !.ops = bank'[u], !.dirty = FALSE, !.fresh = FALSE,
                              !.unconfirmed = (receipt[u] = none), !.asks = FALSE]
           Empty == [T EXCEPT !.owner = none, !.ops = {}, !.dirty = FALSE, !.fresh = TRUE,
                              !.unconfirmed = FALSE, !.asks = FALSE]
           X == IF unsaved THEN T ELSE IF aligned THEN Found ELSE Empty
<1>0. Typed /\ Sound(old, s, h, receipt, made)
  BY SoundTab DEF ClientInv
<1>1. /\ UNCHANGED <<session, calls, marker, receipt, cookie, remote, made>>
      /\ refusals' \in Nat /\ faults' \in Nat
      /\ s.phase = "answered" /\ h.serial = s.serial
  BY Counts DEF Activate, Same
<1>2. /\ u \in Users /\ h.user = u /\ s.serial \in 0..MaxSessions /\ u # none
      /\ old \in Memory /\ s.serial <= h.serial
  BY <1>0, <1>1, Limits DEF Sound, Runs, Attempt
<1>3. bank' = [bank EXCEPT ![u] = Migrated(u)] /\ bank' \in [Users -> Banks] /\ bank'[u] = Migrated(u)
  <2>1. bank' = [bank EXCEPT ![u] = Migrated(u)]
    BY DEF Activate
  <2>2. {0} \in SUBSET Ops
    BY Limits DEF Ops
  <2> QED BY <1>0, <1>2, <2>1, <2>2 DEF Typed, Migrated, Banks
<1>4. \A v \in Users : bank'[v] = bank[v] \/ (v = u /\ bank'[v] = {0})
  BY <1>0, <1>2, <1>3 DEF Migrated, Typed
<1>5. bank'[u] # none => bank'[u] \in SUBSET Ops /\ Belong(bank'[u], u, made)
  <2>1. bank[u] # none => Belong(bank[u], u, made)
    BY <1>2 DEF ClientInv, Isolated
  <2> QED BY <1>2, <1>3, <2>1, BelongSets DEF Banks, Migrated
<1>6. tab' = [tab EXCEPT ![t] = X] /\ R = X
  <2>1. tab' = [tab EXCEPT ![t] = X]
    BY DEF Activate
  <2> HIDE DEF X
  <2> QED BY <1>0, <2>1, NewTab
<1>7. T \in Memory
  <2>1. mode \in {"local", "server", "read_only"} /\ u \in Users \cup {none}
    BY <1>2
  <2> HIDE DEF mode, u
  <2> QED BY <1>2, <2>1, MemoryWith
<1>8. /\ T.scope = u /\ T.proved = s.serial /\ T.bound = s.serial /\ T.mode = mode
      /\ T.owner = old.owner /\ T.ops = old.ops /\ T.gateway = old.gateway
  BY <1>2 DEF Memory
<1>9. mode = "server" <=> old.gateway
  OBVIOUS
<1>10. old.gateway => receipt[u] # none /\ bank[u] # none
  BY <1>0, <1>1, <1>2 DEF Sound, Agree, Fits, ClientInv, Vouched
<1> HIDE DEF mode
<1>11. /\ R \in Memory /\ R.scope = u /\ R.proved = s.serial /\ R.bound = s.serial
       /\ R.mode = mode /\ R.gateway = old.gateway
       /\ R.gateway => R.owner = u
       /\ Belong(R.ops, u, made)
  <2>1. CASE unsaved
    <3>1. R = T
      BY <1>6, <2>1
    <3> HIDE DEF T
    <3> QED BY <1>0, <1>7, <1>8, <2>1, <3>1 DEF Sound
  <2>2. CASE aligned
    <3>1. R = Found
      BY <1>6, <2>2
    <3> DEFINE found == bank'[u]
               flag == (receipt[u] = none)
    <3>2. found \in SUBSET Ops /\ Belong(found, u, made) /\ u \in Users \cup {none}
          /\ FALSE \in BOOLEAN
      BY <1>2, <1>3, <1>5, <2>2
    <3>3. flag \in BOOLEAN
      OBVIOUS
    <3>4. R = [T EXCEPT !.owner = u, !.ops = found, !.dirty = FALSE, !.fresh = FALSE,
                        !.unconfirmed = flag, !.asks = FALSE]
      BY <3>1
    <3> HIDE DEF T, u, found, flag, R
    <3>5. R \in Memory
      BY <1>7, <3>2, <3>3, <3>4, MemoryWith
    <3>6. /\ R.scope = T.scope /\ R.proved = T.proved /\ R.bound = T.bound /\ R.mode = T.mode
          /\ R.gateway = T.gateway /\ R.owner = u /\ R.ops = found
      BY <1>7, <3>4 DEF Memory
    <3> QED BY <1>8, <3>2, <3>5, <3>6
  <2>3. CASE ~unsaved /\ ~aligned
    <3>1. R = Empty /\ ~old.gateway
      <4>1. bank[u] = none
        BY <2>3 DEF Migrated
      <4> QED BY <1>6, <1>10, <2>3, <4>1
    <3>2. /\ none \in Users \cup {none} /\ {} \in SUBSET Ops
          /\ FALSE \in BOOLEAN /\ TRUE \in BOOLEAN
      OBVIOUS
    <3> HIDE DEF T, u
    <3>3. R \in Memory
      BY <1>7, <3>1, <3>2, MemoryWith
    <3>4. /\ R.scope = T.scope /\ R.proved = T.proved /\ R.bound = T.bound /\ R.mode = T.mode
          /\ R.gateway = T.gateway /\ R.ops = {}
      BY <1>7, <3>1 DEF Memory
    <3> QED BY <1>8, <3>1, <3>3, <3>4, BelongSets
  <2> QED BY <2>1, <2>2, <2>3
<1>12. tab' = [tab EXCEPT ![t] = R]
  BY <1>6
<1>13. \E phase \in Holding : sync' = [sync EXCEPT ![t] = [s EXCEPT !.phase = phase]]
  BY DEF Activate, Goto, Holding
<1> HIDE DEF R, X, T, unsaved, aligned
<1>14. Fits(R, h, receipt)
  BY <1>1, <1>2, <1>9, <1>10, <1>11 DEF Fits, Quiet
<1>15. PICK phase \in Holding : sync' = [sync EXCEPT ![t] = [s EXCEPT !.phase = phase]]
  BY <1>13
<1>16. Sound(R, s, h, receipt, made)
  BY <1>0, <1>11, <1>14 DEF Sound, Agree
<1>17. Sound(R, [s EXCEPT !.phase = phase], h, receipt, made)
  BY <1>1, <1>16, PhaseSound
<1>18. {0} \in SUBSET Ops /\ Belong({0}, u, made)
  BY Limits, BelongSets DEF Ops
<1> HIDE DEF old, h, s, u
<1> QED BY <1>1, <1>2, <1>3, <1>4, <1>12, <1>15, <1>17, <1>18, LaunchStepInv DEF h

LEMMA PreferencesInv ==
  ASSUME ClientInv, NEW t \in Tabs, ApplyPreferences(t)
  PROVE  ClientInv'
<1> DEFINE T == tab[t]
           F == [T EXCEPT !.fresh = FALSE]
           R == tab'[t]
           h == session[t]
           s == sync[t]
           u == s.user
           old == MutationBase(t)
           ops == IF tab[t].fresh \/ old.owner \notin {none, u} THEN {} ELSE old.ops
           base == [owner |-> u, ops |-> ops]
<1>0. Typed /\ Sound(T, s, h, receipt, made)
  BY SoundTab DEF ClientInv
<1>1. /\ UNCHANGED <<session, calls, marker, receipt, cookie, remote, made>>
      /\ refusals' \in Nat /\ faults' \in Nat
      /\ s.phase = "activated" /\ T.scope = u
  BY Counts DEF ApplyPreferences
<1>2. u \in Users /\ u # none /\ T \in Memory
  BY <1>0, <1>1, Limits DEF Sound, Runs
<1>3. ops \in SUBSET Ops /\ Belong(ops, u, made)
  <2>1. old.ops \in SUBSET Ops /\ Belong(old.ops, T.scope, made)
    BY BaseFacts
  <2> QED BY <1>1, <2>1, BelongSets
<1>4. /\ F \in Memory /\ F.scope = T.scope /\ F.mode = T.mode /\ F.gateway = T.gateway
      /\ F.proved = T.proved /\ F.bound = T.bound
  BY <1>2 DEF Memory
<1>5. \E X \in {T, F}, saved \in BOOLEAN : Commit(t, X, base, saved)
  BY DEF ApplyPreferences
<1>6. \/ sync' = [sync EXCEPT ![t] = [s EXCEPT !.phase = "applied"]]
      \/ sync' = [sync EXCEPT ![t] = Resting(TRUE)]
  BY DEF ApplyPreferences, Goto, Rest
<1> HIDE DEF ops, F
<1>7. base.owner = u /\ base.ops = ops
  OBVIOUS
<1> HIDE DEF base, T, s, u
<1>8. PICK X \in {T, F}, saved \in BOOLEAN : Commit(t, X, base, saved)
  BY <1>5
<1>9. /\ X \in Memory /\ X.scope = u /\ X.mode = T.mode /\ X.gateway = T.gateway
      /\ X.proved = T.proved /\ X.bound = T.bound
      /\ base.owner \in Users \cup {none} /\ base.ops \in SUBSET Ops
  BY <1>1, <1>2, <1>3, <1>4, <1>7
<1>10. /\ tab' = [tab EXCEPT ![t] = R] /\ R \in Memory /\ R.owner = base.owner /\ R.ops = base.ops
       /\ R.scope = X.scope /\ R.mode = X.mode /\ R.gateway = X.gateway
       /\ R.proved = X.proved /\ R.bound = X.bound
       /\ bank' \in [Users -> Banks]
       /\ \A v \in Users : bank'[v] = bank[v] \/ (v = X.scope /\ bank'[v] = base.ops)
  BY <1>0, <1>2, <1>8, <1>9, CommitFacts
<1> HIDE DEF R
<1>11. Sound(R, s, h, receipt, made)
  <2>1. /\ R.scope = T.scope /\ R.proved = T.proved /\ R.bound = T.bound
        /\ T.scope # none /\ R.gateway = T.gateway /\ Belong(R.ops, T.scope, made)
    BY <1>1, <1>2, <1>3, <1>7, <1>9, <1>10
  <2>2. R.mode = "server" => T.scope # none /\ R.owner = T.scope /\ receipt[T.scope] # none
    BY <1>0, <1>1, <1>7, <1>9, <1>10 DEF Sound, Fits
  <2> QED BY <1>0, <1>10, <2>1, <2>2, SameUserSound
<1>12. PICK n : sync' = [sync EXCEPT ![t] = n] /\ Sound(R, n, h, receipt, made)
  <2>1. "applied" \in Holding /\ s.phase # "idle"
    BY <1>1 DEF Holding
  <2>2. Sound(R, [s EXCEPT !.phase = "applied"], h, receipt, made)
    BY <1>11, <2>1, PhaseSound
  <2>3. Sound(R, Resting(TRUE), h, receipt, made)
    BY <1>11, RestSound
  <2> QED BY <1>6, <2>2, <2>3
<1>13. \A v \in Users : bank'[v] = bank[v] \/ (v = u /\ bank'[v] = ops)
  BY <1>7, <1>9, <1>10
<1> QED BY <1>1, <1>2, <1>3, <1>10, <1>12, <1>13, LaunchStepInv

LEMMA ImportsInv ==
  ASSUME ClientInv, NEW t \in Tabs, SyncImports(t)
  PROVE  ClientInv'
<1> DEFINE old == tab[t]
           h == session[t]
           s == sync[t]
           u == s.user
           base == MutationBase(t)
           T == [old EXCEPT !.gateway = FALSE, !.mode = "read_only", !.asks = FALSE]
           X == [T EXCEPT !.owner = base.owner, !.ops = base.ops]
           R == tab'[t]
           c == Call(t, "import", base.ops)
<1>0. Typed /\ Sound(old, s, h, receipt, made)
  BY SoundTab DEF ClientInv
<1>1. /\ UNCHANGED <<session, bank, receipt, cookie, remote, made>>
      /\ refusals' \in Nat /\ faults' \in Nat
      /\ s.phase = "applied" /\ old.scope = u
  BY Counts DEF SyncImports, Scope
<1>2. u \in Users /\ u # none /\ old \in Memory
  BY <1>0, <1>1, Limits DEF Sound, Runs
<1>3. base.owner \in Users \cup {none} /\ base.ops \in SUBSET Ops /\ Belong(base.ops, u, made)
  BY <1>1, BaseFacts
<1>4. T \in Memory
  <2>1. FALSE \in BOOLEAN /\ "read_only" \in {"local", "server", "read_only"}
    OBVIOUS
  <2> HIDE DEF old
  <2> QED BY <1>2, <2>1, MemoryWith
<1>5. /\ T.scope = u /\ T.ops = old.ops /\ T.proved = old.proved /\ T.bound = old.bound
      /\ T.gateway = FALSE /\ T.mode = "read_only"
  BY <1>1, <1>2 DEF Memory
<1>6. SessionLost(t) \/ tab' = [tab EXCEPT ![t] = T] \/ tab' = [tab EXCEPT ![t] = X]
  BY DEF SyncImports
<1>7. /\ tab' = [tab EXCEPT ![t] = R]
      /\ R \in {T, X} \/ (SessionLost(t) /\ Sound(R, s, h, receipt, made))
  <2>1. CASE SessionLost(t)
    BY <2>1, Untold
  <2>2. CASE tab' = [tab EXCEPT ![t] = T] \/ tab' = [tab EXCEPT ![t] = X]
    <3> HIDE DEF T, X
    <3> QED BY <1>0, <2>2, NewTab
  <2> QED BY <1>6, <2>1, <2>2
<1>8. marker' = marker \/ marker' = [marker EXCEPT ![u] = TRUE]
  BY DEF SyncImports
<1>9. calls' = calls \/ /\ calls' = calls \cup {c} /\ Same(t, old.proved)
                        /\ marker' = [marker EXCEPT ![u] = TRUE]
  <2>1. T.proved = old.proved
    BY <1>5
  <2> QED BY <2>1 DEF SyncImports
<1>10. \/ sync' = [sync EXCEPT ![t] = [s EXCEPT !.phase = "importing"]]
       \/ sync' = [sync EXCEPT ![t] = Resting(TRUE)]
  BY DEF SyncImports, Goto, Rest
<1> HIDE DEF base
<1>11. ASSUME R \in {T, X}
       PROVE  /\ R \in Memory /\ R.scope = u /\ R.proved = old.proved /\ R.bound = old.bound
              /\ ~R.gateway /\ R.mode = "read_only" /\ Belong(R.ops, u, made)
  <2>1. CASE R = T
    BY <1>0, <1>1, <1>4, <1>5, <2>1 DEF Sound
  <2>2. CASE R = X
    <3> HIDE DEF T
    <3>1. X \in Memory
      BY <1>3, <1>4, MemoryWith
    <3>2. /\ X.scope = T.scope /\ X.ops = base.ops /\ X.proved = T.proved /\ X.bound = T.bound
          /\ X.gateway = T.gateway /\ X.mode = T.mode
      BY <1>4 DEF Memory
    <3> QED BY <1>3, <1>5, <2>2, <3>1, <3>2
  <2> QED BY <1>11, <2>1, <2>2
<1>12. h \in [user : Users, serial : 1..MaxSessions]
  BY <1>0 DEF Sound
<1>13. Same(t, old.proved) => h.user = u
  BY <1>0, <1>1, <1>2 DEF Sound, Fits, Same
<1> HIDE DEF R, T, X
<1>14. Sound(R, s, h, receipt, made)
  <2>1. CASE R \in {T, X}
    <3>1. /\ R.scope = old.scope /\ R.proved = old.proved /\ R.bound = old.bound
          /\ old.scope # none /\ ~R.gateway /\ R.mode # "server"
          /\ Belong(R.ops, old.scope, made)
      BY <1>1, <1>2, <1>11, <2>1
    <3> QED BY <1>0, <1>11, <2>1, <3>1, SameUserSound
  <2> QED BY <1>7, <2>1
<1>15. PICK n : sync' = [sync EXCEPT ![t] = n] /\ Sound(R, n, h, receipt, made)
  <2>1. "importing" \in Holding /\ s.phase # "idle"
    BY <1>1 DEF Holding
  <2>2. Sound(R, [s EXCEPT !.phase = "importing"], h, receipt, made)
    BY <1>14, <2>1, PhaseSound
  <2>3. Sound(R, Resting(TRUE), h, receipt, made)
    BY <1>14, RestSound
  <2> QED BY <1>10, <2>2, <2>3
<1>16. /\ c \in Sent /\ c.kind = "import" /\ c.user = h.user /\ c.ops = base.ops /\ c.answer = none
  BY <1>3, <1>12, CallType
<1> HIDE DEF c
<1>17. \A v \in Users : marker[v] => marker'[v]
  BY <1>0, <1>8 DEF Typed
<1>18. \A d \in calls' : /\ d \in Sent /\ (d.kind = "import" => marker'[d.user])
                         /\ Belong(d.ops, d.user, made')
                         /\ d.answer # none => Belong(d.answer.ops, d.user, made')
  <2>1. \A d \in calls : /\ d \in Sent /\ (d.kind = "import" => marker'[d.user])
                         /\ Belong(d.ops, d.user, made')
                         /\ d.answer # none => Belong(d.answer.ops, d.user, made')
    BY <1>1, <1>17, OldCalls
  <2>2. c \in calls' => \/ c \in calls
                        \/ c.user = u /\ marker'[c.user] /\ Belong(c.ops, c.user, made')
    BY <1>0, <1>1, <1>2, <1>3, <1>9, <1>13, <1>16 DEF Typed
  <2> QED BY <1>9, <1>16, <2>1, <2>2
<1>19. DeviceGrows /\ \A v \in Users : Vouched(v)'
  BY <1>1, <1>17 DEF DeviceGrows, ClientInv, Vouched
<1>20. /\ bank' \in [Users -> Banks] /\ marker' \in [Users -> BOOLEAN]
       /\ receipt' \in [Users -> Receipts \cup {none}] /\ cookie' \in [Users -> 0..MaxEpoch]
       /\ made' \in Seq(Users) /\ Len(made') <= MaxOps
       /\ \A ops, v : Belong(ops, v, made) => Belong(ops, v, made')
       /\ \A v \in Users : bank'[v] # none => Belong(bank'[v], v, made')
  BY <1>0, <1>1, <1>8 DEF Typed, ClientInv, Isolated
<1>21. Sound(R, n, session[t], receipt', made') /\ UNCHANGED <<session, remote>>
  BY <1>1, <1>15
<1> HIDE DEF h, s, u, old
<1> QED BY <1>1, <1>7, <1>15, <1>18, <1>19, <1>20, <1>21, TabStepInv
-----------------------------------------------------------------------------
(* Adoptions.                                                              *)

\* A receipt changes only to one that a revision advances, which it did not rule out.
ReceiptStep ==
  \A u \in Users :
    \/ receipt'[u] = receipt[u]
    \/ \E next \in Revisions : /\ Decision(receipt[u], next) \in {"newer", "current"}
                               /\ receipt'[u] = Advanced(receipt[u], next)

\* The device after some of the writes of an adoption.
DeviceSound ==
  /\ bank' \in [Users -> Banks] /\ marker' \in [Users -> BOOLEAN]
  /\ receipt' \in [Users -> Receipts \cup {none}]
  /\ DeviceGrows /\ \A u \in Users : Vouched(u)'
  /\ \A u \in Users : bank'[u] # none => Belong(bank'[u], u, made)
  /\ ReceiptStep

LEMMA DeviceKept ==
  ASSUME ClientInv, UNCHANGED <<bank, marker, receipt>>
  PROVE  DeviceSound
<1>1. DeviceGrows /\ \A u \in Users : Vouched(u)'
  BY DEF DeviceGrows, ClientInv, Vouched
<1> QED BY <1>1 DEF ClientInv, Typed, Isolated, DeviceSound, ReceiptStep

\* What an answer has to be for a user.
Answer(c) ==
  c.user \in Users /\ c.answer \in Revisions /\ Belong(c.answer.ops, c.user, made)

LEMMA WritesFacts ==
  ASSUME ClientInv, NEW c, Answer(c), NEW n \in 0..3, Writes(c, n),
         Decision(receipt[c.user], c.answer) \in {"newer", "current"}
  PROVE  DeviceSound /\ (n = 3 => receipt'[c.user] # none)
<1> DEFINE u == c.user
           next == c.answer
           ops == next.ops
           adv == Advanced(receipt[u], next)
<1>0. /\ bank \in [Users -> Banks] /\ marker \in [Users -> BOOLEAN]
      /\ receipt \in [Users -> Receipts \cup {none}] /\ u \in Users /\ next \in Revisions
      /\ ops \in SUBSET Ops /\ ops # none
      /\ Belong(ops, u, made)
  BY Limits DEF ClientInv, Typed, Answer, Revisions
<1>1. /\ adv \in Receipts /\ adv # none /\ adv.epoch = next.epoch
      /\ adv.epoch \notin ToSet(adv.retired)
  <2>1. receipt[u] \in Receipts \cup {none}
    BY <1>0
  <2>2. receipt[u] # none => receipt[u].epoch \notin ToSet(receipt[u].retired)
    BY <1>0 DEF ClientInv, Vouched
  <2> QED BY <1>0, <2>1, <2>2, AdvancedFacts
<1>2. /\ marker' = IF n >= 1 THEN [marker EXCEPT ![u] = TRUE] ELSE marker
      /\ bank' = IF n >= 2 THEN [bank EXCEPT ![u] = ops] ELSE bank
      /\ receipt' = IF n = 3 THEN [receipt EXCEPT ![u] = adv] ELSE receipt
  BY DEF Writes
<1>3. Decision(receipt[u], next) \in {"newer", "current"}
  OBVIOUS
<1>4. ReceiptStep
  <2> SUFFICES ASSUME NEW v \in Users, receipt'[v] # receipt[v]
               PROVE  /\ Decision(receipt[v], next) \in {"newer", "current"}
                      /\ receipt'[v] = Advanced(receipt[v], next)
    BY <1>0 DEF ReceiptStep
  <2>1. v = u /\ receipt'[v] = adv
    <3> HIDE DEF adv
    <3> QED BY <1>0, <1>2
  <2> QED BY <1>3, <2>1
<1> HIDE DEF adv, ops, u, next
<1>5. /\ bank' \in [Users -> Banks] /\ marker' \in [Users -> BOOLEAN]
      /\ receipt' \in [Users -> Receipts \cup {none}]
  BY <1>0, <1>1, <1>2 DEF Banks
<1>6. \A v \in Users : /\ marker'[v] = (marker[v] \/ (v = u /\ n >= 1))
                       /\ bank'[v] = (IF v = u /\ n >= 2 THEN ops ELSE bank[v])
                       /\ receipt'[v] = (IF v = u /\ n = 3 THEN adv ELSE receipt[v])
  BY <1>0, <1>2
<1>7. DeviceGrows
  BY <1>1, <1>6 DEF DeviceGrows
<1>8. ASSUME NEW v \in Users PROVE Vouched(v)'
  <2>1. CASE v = u /\ n = 3
    <3>1. receipt'[v] = adv
      BY <1>6, <2>1
    <3>2. marker'[v]
      BY <1>0, <1>2, <2>1
    <3>3. bank'[v] = ops
      BY <1>6, <2>1
    <3> QED BY <1>0, <1>1, <3>1, <3>2, <3>3 DEF Vouched
  <2>2. CASE ~(v = u /\ n = 3)
    <3>1. receipt'[v] = receipt[v] /\ (marker[v] => marker'[v])
          /\ (bank[v] # none => bank'[v] # none)
      BY <1>0, <1>6, <2>2
    <3> QED BY <3>1 DEF ClientInv, Vouched
  <2> QED BY <2>1, <2>2
<1>9. \A v \in Users : bank'[v] # none => Belong(bank'[v], v, made)
  BY <1>0, <1>6 DEF ClientInv, Isolated
<1>10. n = 3 => receipt'[u] # none
  BY <1>0, <1>1, <1>6
<1> QED BY <1>4, <1>5, <1>7, <1>8, <1>9, <1>10 DEF DeviceSound, u

\* An adoption: the memory of the tab fits the device it leaves.
LEMMA AdoptFacts ==
  ASSUME ClientInv, NEW t \in Tabs, NEW c, Answer(c), NEW gateway \in BOOLEAN, NEW result,
         NEW s, Sound(tab[t], s, session[t], receipt, made),
         gateway => tab[t].gateway \/ s.phase \notin {"asked", "answered"},
         Adopt(t, c, gateway, result)
  PROVE  /\ DeviceSound
         /\ tab' = [tab EXCEPT ![t] = tab'[t]]
         /\ Sound(tab'[t], s, session[t], receipt', made)
<1> DEFINE T == tab[t]
           R == tab'[t]
           h == session[t]
           u == c.user
           next == c.answer
<1>0. Typed /\ Sound(T, s, h, receipt, made) /\ T \in Memory
  BY DEF ClientInv, Sound
<1>1. u \in Users /\ u # none /\ next.ops \in SUBSET Ops /\ Belong(next.ops, u, made)
  BY Limits DEF Answer, Revisions
<1>2. /\ FALSE \in BOOLEAN /\ TRUE \in BOOLEAN
      /\ "read_only" \in {"local", "server", "read_only"}
      /\ "server" \in {"local", "server", "read_only"}
  OBVIOUS
<1>3. ASSUME DeviceSound PROVE Sound(T, s, h, receipt', made)
  <2>1. /\ \A v \in Users : receipt[v] # none => receipt'[v] # none
        /\ \A ops, v : Belong(ops, v, made) => Belong(ops, v, made)
    BY <1>3 DEF DeviceSound, DeviceGrows
  <2> HIDE DEF T, h
  <2> QED BY <1>0, <2>1, SoundGrows
\* The tab stops, and may ask.
<1>4. ASSUME NEW asks \in BOOLEAN, asks => T.scope # none, UNCHANGED <<bank, marker, receipt>>,
             tab' = [tab EXCEPT ![t] = [@ EXCEPT !.gateway = FALSE, !.mode = "read_only",
                                                 !.asks = asks]]
      PROVE  DeviceSound /\ tab' = [tab EXCEPT ![t] = R] /\ Sound(R, s, h, receipt', made)
  <2>1. R = [T EXCEPT !.gateway = FALSE, !.mode = "read_only", !.asks = asks]
        /\ tab' = [tab EXCEPT ![t] = R]
    BY <1>0, <1>4, NewTab
  <2>2. DeviceSound
    BY <1>4, DeviceKept
  <2>3. Sound(T, s, h, receipt', made)
    BY <1>3, <2>2
  <2> HIDE DEF T, R, h
  <2>4. R \in Memory
    BY <1>0, <1>2, <2>1, MemoryWith
  <2>5. /\ R.scope = T.scope /\ R.owner = T.owner /\ R.ops = T.ops /\ R.dirty = T.dirty
        /\ R.fresh = T.fresh /\ R.unconfirmed = T.unconfirmed /\ R.approved = T.approved
        /\ R.proved = T.proved /\ R.bound = T.bound
        /\ R.gateway = FALSE /\ R.mode = "read_only" /\ R.asks = asks
    BY <1>0, <2>1 DEF Memory
  <2>6. Belong(R.ops, T.scope, made) /\ (T.scope = none => Quiet(R))
    BY <1>0, <1>4, <2>5 DEF Sound, Fits, Quiet
  <2>7. Sound(R, s, h, receipt', made)
    BY <2>3, <2>4, <2>5, <2>6, SameUserSound
  <2> QED BY <2>1, <2>2, <2>7
\* The caller may send commands, or may not.
<1>5. ASSUME T.scope = u, Decision(receipt[u], next) = "stale", UNCHANGED <<bank, marker, receipt>>,
             tab' = [tab EXCEPT ![t].gateway = gateway]
      PROVE  DeviceSound /\ tab' = [tab EXCEPT ![t] = R] /\ Sound(R, s, h, receipt', made)
  <2>1. R = [T EXCEPT !.gateway = gateway] /\ tab' = [tab EXCEPT ![t] = R]
    BY <1>0, <1>5, NewTab
  <2>2. DeviceSound
    BY <1>5, DeviceKept
  <2>3. Sound(T, s, h, receipt', made)
    BY <1>3, <2>2
  <2>4. receipt'[T.scope] # none
    BY <1>5 DEF Decision
  <2> HIDE DEF T, R, h
  <2>5. R \in Memory
    BY <1>0, <2>1, MemoryWith
  <2>6. /\ R.scope = T.scope /\ R.owner = T.owner /\ R.ops = T.ops /\ R.mode = T.mode
        /\ R.proved = T.proved /\ R.bound = T.bound /\ R.gateway = gateway
    BY <1>0, <2>1 DEF Memory
  <2>7. /\ Belong(R.ops, T.scope, made)
        /\ R.mode = "server" => T.scope # none /\ R.owner = T.scope /\ receipt'[T.scope] # none
    BY <2>3, <2>6 DEF Sound, Fits
  <2>8. R.gateway => \/ T.gateway
                     \/ T.scope # none /\ receipt'[T.scope] # none
                        /\ s.phase \notin {"asked", "answered"}
    BY <1>1, <1>5, <2>4, <2>6 DEF T
  <2>9. T.scope # none
    BY <1>1, <1>5
  <2>10. Sound(R, s, h, receipt', made)
    BY <2>3, <2>5, <2>6, <2>7, <2>8, <2>9, SameUserSound
  <2> QED BY <2>1, <2>2, <2>10
\* The revision is taken, and all of it is saved.
<1>6. ASSUME Acceptable(t, c), Writes(c, 3),
             tab' = [tab EXCEPT ![t] = [@ EXCEPT
                       !.owner = c.user, !.ops = c.answer.ops, !.mode = "server",
                       !.gateway = gateway, !.dirty = FALSE, !.fresh = FALSE,
                       !.unconfirmed = FALSE, !.approved = FALSE, !.asks = FALSE]]
      PROVE  DeviceSound /\ tab' = [tab EXCEPT ![t] = R] /\ Sound(R, s, h, receipt', made)
  <2> DEFINE ops == next.ops
             X == [T EXCEPT !.owner = u, !.ops = ops, !.mode = "server",
                            !.gateway = gateway, !.dirty = FALSE, !.fresh = FALSE,
                            !.unconfirmed = FALSE, !.approved = FALSE, !.asks = FALSE]
  <2>1. tab' = [tab EXCEPT ![t] = X]
    BY <1>6
  <2>2. R = X /\ tab' = [tab EXCEPT ![t] = R]
    <3> HIDE DEF X
    <3> QED BY <1>0, <2>1, NewTab
  <2>3. T.scope = u /\ Decision(receipt[u], next) \in {"newer", "current"}
    BY <1>6 DEF Acceptable, Scope
  <2>4. DeviceSound /\ receipt'[u] # none
    BY <1>6, <2>3, WritesFacts
  <2>5. Sound(T, s, h, receipt', made)
    BY <1>3, <2>4
  <2>6. ops \in SUBSET Ops /\ u \in Users \cup {none} /\ Belong(ops, u, made)
    BY <1>1
  <2>7. u # none /\ (gateway => T.gateway \/ s.phase \notin {"asked", "answered"})
    BY <1>1
  <2> HIDE DEF T, R, h, u, next, ops
  <2>8. R \in Memory
    BY <1>0, <1>2, <2>2, <2>6, MemoryWith
  <2>9. /\ R.scope = T.scope /\ R.owner = u /\ R.ops = ops /\ R.mode = "server"
        /\ R.proved = T.proved /\ R.bound = T.bound /\ R.gateway = gateway
    BY <1>0, <2>2 DEF Memory
  <2>10. /\ T.scope # none /\ Belong(R.ops, T.scope, made)
         /\ R.owner = T.scope /\ receipt'[T.scope] # none
    BY <2>3, <2>4, <2>6, <2>7, <2>9
  <2>11. R.gateway => T.gateway \/ s.phase \notin {"asked", "answered"}
    BY <2>7, <2>9
  <2>12. Sound(R, s, h, receipt', made)
    BY <2>5, <2>8, <2>9, <2>10, <2>11, SameUserSound
  <2> QED BY <2>2, <2>4, <2>12
\* The revision is taken, and a write is refused.
<1>7. ASSUME Acceptable(t, c), NEW n \in 0..2, Writes(c, n),
             tab' = [tab EXCEPT ![t] = [@ EXCEPT
                       !.mode = "read_only", !.asks = FALSE,
                       !.owner = IF n > 0 THEN c.user ELSE tab[t].owner,
                       !.ops = IF n > 0 THEN c.answer.ops ELSE tab[t].ops,
                       !.dirty = IF n > 0 THEN n = 1 ELSE tab[t].dirty]]
      PROVE  DeviceSound /\ tab' = [tab EXCEPT ![t] = R] /\ Sound(R, s, h, receipt', made)
  <2> DEFINE owner == IF n > 0 THEN u ELSE T.owner
             ops == IF n > 0 THEN next.ops ELSE T.ops
             dirty == IF n > 0 THEN n = 1 ELSE T.dirty
             X == [T EXCEPT !.mode = "read_only", !.asks = FALSE, !.owner = owner, !.ops = ops,
                            !.dirty = dirty]
  <2>1. tab' = [tab EXCEPT ![t] = X]
    BY <1>7
  <2>2. R = X /\ tab' = [tab EXCEPT ![t] = R]
    <3> HIDE DEF X
    <3> QED BY <1>0, <2>1, NewTab
  <2>3. T.scope = u /\ Decision(receipt[u], next) \in {"newer", "current"}
    BY <1>7 DEF Acceptable, Scope
  <2>4. DeviceSound
    <3>1. n \in 0..3
      OBVIOUS
    <3> QED BY <1>7, <2>3, <3>1, WritesFacts
  <2>5. Sound(T, s, h, receipt', made)
    BY <1>3, <2>4
  <2>6. ops \in SUBSET Ops /\ owner \in Users \cup {none} /\ Belong(ops, u, made)
    BY <1>0, <1>1, <2>3 DEF Sound, Memory
  <2>7. dirty \in BOOLEAN
    BY <1>0 DEF Memory
  <2>8. u # none
    BY <1>1
  <2> HIDE DEF T, R, h, u, next, ops, owner, dirty
  <2>9. R \in Memory
    BY <1>0, <1>2, <2>2, <2>6, <2>7, MemoryWith
  <2>10. /\ R.scope = T.scope /\ R.ops = ops /\ R.mode = "read_only"
         /\ R.proved = T.proved /\ R.bound = T.bound /\ R.gateway = T.gateway
    BY <1>0, <2>2 DEF Memory
  <2>11. T.scope # none /\ Belong(R.ops, T.scope, made)
    BY <2>3, <2>6, <2>8, <2>10
  <2>12. Sound(R, s, h, receipt', made)
    BY <2>5, <2>9, <2>10, <2>11, SameUserSound
  <2> QED BY <2>2, <2>4, <2>12
<1>8. CASE UNCHANGED tab /\ UNCHANGED <<bank, marker, receipt>>
  <2>1. DeviceSound
    BY <1>8, DeviceKept
  <2> QED BY <1>0, <1>3, <1>8, <2>1, NewTab
<1>9. T.scope = u => T.scope # none
  BY <1>1
<1> HIDE DEF R
<1>10. \/ UNCHANGED tab /\ UNCHANGED <<bank, marker, receipt>>
       \/ \E asks \in BOOLEAN :
            /\ asks => T.scope # none
            /\ UNCHANGED <<bank, marker, receipt>>
            /\ tab' = [tab EXCEPT ![t] = [@ EXCEPT !.gateway = FALSE, !.mode = "read_only",
                                                   !.asks = asks]]
       \/ /\ T.scope = u /\ Decision(receipt[u], next) = "stale"
          /\ UNCHANGED <<bank, marker, receipt>> /\ tab' = [tab EXCEPT ![t].gateway = gateway]
       \/ Acceptable(t, c) /\ Adopt(t, c, gateway, result) /\ result \in {"applied", "refused"}
  BY <1>9 DEF Adopt, Scope, Acceptable
<1>11. CASE Acceptable(t, c) /\ result \in {"applied", "refused"}
  <2>1. CASE result = "applied"
    BY <1>6, <1>11, <2>1 DEF Adopt, R
  <2>2. CASE result = "refused"
    BY <1>7, <1>11, <2>2 DEF Adopt, R
  <2> QED BY <1>11, <2>1, <2>2
<1> QED BY <1>4, <1>5, <1>8, <1>10, <1>11 DEF R
\* A step of a tab that adopts, or dies while it does.
LEMMA AdoptStepInv ==
  ASSUME ClientInv, NEW t \in Tabs, NEW R, NEW n, DeviceSound, CallsThin,
         UNCHANGED <<session, remote, made>>,
         tab' = [tab EXCEPT ![t] = R], sync' = [sync EXCEPT ![t] = n],
         Sound(R, n, session[t], receipt', made),
         cookie' \in [Users -> 0..MaxEpoch], refusals' \in Nat, faults' \in Nat
  PROVE  ClientInv'
<1>1. \A u \in Users : marker[u] => marker'[u]
  BY DEF DeviceSound, DeviceGrows
<1>2. \A d \in calls' : /\ d \in Sent /\ (d.kind = "import" => marker'[d.user])
                        /\ Belong(d.ops, d.user, made')
                        /\ d.answer # none => Belong(d.answer.ops, d.user, made')
  <2>1. \A d \in calls : /\ d \in Sent /\ (d.kind = "import" => marker'[d.user])
                         /\ Belong(d.ops, d.user, made')
                         /\ d.answer # none => Belong(d.answer.ops, d.user, made')
    BY <1>1, OldCalls
  <2> QED BY <2>1 DEF CallsThin
<1>3. made' \in Seq(Users) /\ Len(made') <= MaxOps /\ Sound(R, n, session[t], receipt', made')
      /\ UNCHANGED <<session, remote>> /\ \A ops, v : Belong(ops, v, made) => Belong(ops, v, made')
  BY DEF ClientInv, Typed
<1>4. /\ bank' \in [Users -> Banks] /\ marker' \in [Users -> BOOLEAN]
      /\ receipt' \in [Users -> Receipts \cup {none}] /\ DeviceGrows /\ \A u \in Users : Vouched(u)'
      /\ \A v \in Users : bank'[v] # none => Belong(bank'[v], v, made')
  BY DEF DeviceSound
<1> QED BY <1>2, <1>3, <1>4, TabStepInv

\* How a synchronization that was told of a revision ends.
LEMMA ConcludeFacts ==
  ASSUME ClientInv, NEW t \in Tabs, NEW result, Conclude(t, result)
  PROVE  /\ cookie' \in [Users -> 0..MaxEpoch] /\ refusals' \in Nat /\ faults' \in Nat
         /\ \E due \in BOOLEAN : sync' = [sync EXCEPT ![t] = Resting(due)]
<1>1. CASE Finish(t)
  BY <1>1, FinishTypes
<1>2. CASE Rest(t, TRUE) /\ UNCHANGED cookie /\ Counted(result)
  <2>1. refusals' \in Nat /\ faults' \in Nat
    BY <1>2, Counts DEF Counted
  <2>2. cookie' \in [Users -> 0..MaxEpoch]
    BY <1>2 DEF ClientInv, Typed
  <2> QED BY <1>2, <2>1, <2>2 DEF Rest
<1> QED BY <1>1, <1>2 DEF Conclude

\* What a synchronization may adopt is a ledger of its user.
LEMMA OfferedFacts ==
  ASSUME ClientInv, NEW t \in Tabs, sync[t].phase = "applied", sync[t].offer = "server"
  PROVE  Answer(Offered(t))
<1>1. Sound(tab[t], sync[t], session[t], receipt, made)
  BY SoundTab
<1>2. Offered(t).user = sync[t].user /\ Offered(t).answer = sync[t].bank
  BY DEF Offered
<1>3. sync[t].user \in Users /\ sync[t].bank # none
  BY <1>1 DEF Sound, Runs
<1>4. sync[t].bank \in Revisions /\ Belong(sync[t].bank.ops, sync[t].user, made)
  BY <1>1, <1>3 DEF Sound, Attempt
<1> QED BY <1>2, <1>3, <1>4 DEF Answer

LEMMA AnsweredFacts ==
  ASSUME ClientInv, NEW c \in calls, c.answer # none
  PROVE  Answer(c) /\ c.tab \in Tabs
<1>1. c \in Sent
  BY DEF ClientInv, Typed
<1> QED BY <1>1 DEF Sent, Answer, ClientInv, Isolated

\* A synchronization that adopts comes to an end.
LEMMA AdoptConcludesInv ==
  ASSUME ClientInv, NEW t \in Tabs, NEW c, Answer(c), NEW result,
         Adopt(t, c, TRUE, result), Conclude(t, result),
         CallsThin, UNCHANGED <<session, remote, made>>
  PROVE  ClientInv' /\ ReceiptStep
<1>1. /\ cookie' \in [Users -> 0..MaxEpoch] /\ refusals' \in Nat /\ faults' \in Nat
      /\ \E due \in BOOLEAN : sync' = [sync EXCEPT ![t] = Resting(due)]
  BY ConcludeFacts
<1>2. PICK due \in BOOLEAN : sync' = [sync EXCEPT ![t] = Resting(due)]
  BY <1>1
<1>3. Sound(tab[t], Resting(due), session[t], receipt, made)
  BY SoundTab, RestSound
<1>4. /\ TRUE \in BOOLEAN
      /\ TRUE => tab[t].gateway \/ Resting(due).phase \notin {"asked", "answered"}
  BY DEF Resting
<1>5. /\ DeviceSound /\ tab' = [tab EXCEPT ![t] = tab'[t]]
      /\ Sound(tab'[t], Resting(due), session[t], receipt', made)
  BY <1>3, <1>4, AdoptFacts
<1>6. ClientInv'
  BY <1>1, <1>2, <1>5, AdoptStepInv
<1> QED BY <1>5, <1>6 DEF DeviceSound

\* A tab is told of nothing that it adopts.
LEMMA NothingAdoptedInv ==
  ASSUME ClientInv, NEW t \in Tabs, SessionLost(t), CallsThin, NEW n,
         sync' = [sync EXCEPT ![t] = n], n = sync[t] \/ n = Resting(TRUE),
         UNCHANGED <<bank, marker, receipt, cookie, session, remote, made, failed>>
  PROVE  ClientInv' /\ ReceiptStep
<1>1. tab' = [tab EXCEPT ![t] = tab'[t]] /\ Sound(tab'[t], sync[t], session[t], receipt, made)
  BY Untold
<1>2. Sound(tab'[t], n, session[t], receipt', made)
  BY <1>1, RestSound
<1>3. DeviceSound
  BY DeviceKept
<1>4. cookie' \in [Users -> 0..MaxEpoch] /\ refusals' \in Nat /\ faults' \in Nat
  BY DEF ClientInv, Typed, failed
<1>5. ClientInv'
  BY <1>1, <1>2, <1>3, <1>4, AdoptStepInv
<1> QED BY <1>3, <1>5 DEF DeviceSound

LEMMA AdoptionsInv ==
  ASSUME ClientInv,
         \/ \E t \in Tabs : SyncAdopts(t)
         \/ \E c \in calls : ImportAnswered(c) \/ CommandAnswered(c)
  PROVE  ClientInv' /\ ReceiptStep
<1>1. ASSUME NEW t \in Tabs, SyncAdopts(t) PROVE ClientInv' /\ ReceiptStep
  <2>1. /\ sync[t].phase = "applied" /\ sync[t].offer = "server"
        /\ UNCHANGED <<session, calls, remote, made>>
    BY <1>1 DEF SyncAdopts
  <2>2. PICK result \in Results : Adopt(t, Offered(t), TRUE, result) /\ Conclude(t, result)
    BY <1>1 DEF SyncAdopts
  <2>3. Answer(Offered(t)) /\ CallsThin
    BY <2>1, OfferedFacts, AllThin DEF ClientInv
  <2> QED BY <2>1, <2>2, <2>3, AdoptConcludesInv
<1>2. ASSUME NEW c \in calls, ImportAnswered(c) PROVE ClientInv' /\ ReceiptStep
  <2> DEFINE t == c.tab
  <2>1. c.answer # none /\ calls' = calls \ {c} /\ UNCHANGED <<session, remote, made>>
    BY <1>2 DEF ImportAnswered
  <2>2. Answer(c) /\ t \in Tabs /\ CallsThin
    BY <2>1, AnsweredFacts, AllThin DEF ClientInv
  <2>3. CASE \E result \in Results : Adopt(t, c, TRUE, result) /\ Conclude(t, result)
    <3>1. PICK result \in Results : Adopt(t, c, TRUE, result) /\ Conclude(t, result)
      BY <2>3
    <3> QED BY <2>1, <2>2, <3>1, AdoptConcludesInv
  <2>4. CASE SessionLost(t) /\ Rest(t, TRUE) /\ UNCHANGED <<device, failed>>
    <3>1. sync' = [sync EXCEPT ![t] = Resting(TRUE)] /\ Resting(TRUE) = Resting(TRUE)
      BY <2>4 DEF Rest
    <3>2. UNCHANGED <<bank, marker, receipt, cookie, session, remote, made, failed>>
      BY <2>1, <2>4 DEF device
    <3> QED BY <2>2, <2>4, <3>1, <3>2, NothingAdoptedInv
  <2> QED BY <1>2, <2>3, <2>4 DEF ImportAnswered
<1>3. ASSUME NEW c \in calls, CommandAnswered(c) PROVE ClientInv' /\ ReceiptStep
  <2> DEFINE t == c.tab
  <2>1. /\ c.answer # none /\ calls' = calls \ {c}
        /\ UNCHANGED <<session, sync, cookie, remote, made>>
    BY <1>3 DEF CommandAnswered
  <2>2. Answer(c) /\ t \in Tabs /\ CallsThin /\ sync' = [sync EXCEPT ![t] = sync[t]]
    BY <2>1, AnsweredFacts, AllThin, NewTab DEF ClientInv
  <2>3. CASE \E result \in Results : Adopt(t, c, tab[t].gateway, result) /\ Counted(result)
    <3>1. PICK result \in Results : Adopt(t, c, tab[t].gateway, result) /\ Counted(result)
      BY <2>3
    <3>2. Sound(tab[t], sync[t], session[t], receipt, made) /\ tab[t].gateway \in BOOLEAN
          /\ (tab[t].gateway => tab[t].gateway \/ sync[t].phase \notin {"asked", "answered"})
      BY <2>2, SoundTab DEF Sound, Memory
    <3>3. /\ DeviceSound /\ tab' = [tab EXCEPT ![t] = tab'[t]]
          /\ Sound(tab'[t], sync[t], session[t], receipt', made)
      BY <2>2, <3>1, <3>2, AdoptFacts
    <3>4. cookie' \in [Users -> 0..MaxEpoch] /\ refusals' \in Nat /\ faults' \in Nat
      <4>1. refusals' \in Nat /\ faults' \in Nat
        BY <3>1, Counts DEF Counted
      <4> QED BY <2>1, <4>1 DEF ClientInv, Typed
    <3>5. UNCHANGED <<session, remote, made>>
      BY <2>1
    <3>6. ClientInv'
      BY <2>2, <3>3, <3>4, <3>5, AdoptStepInv
    <3> QED BY <3>3, <3>6 DEF DeviceSound
  <2>4. CASE SessionLost(t) /\ UNCHANGED <<bank, marker, receipt, failed>>
    <3>1. UNCHANGED <<bank, marker, receipt, cookie, session, remote, made, failed>>
          /\ sync[t] = sync[t]
      BY <2>1, <2>4
    <3> QED BY <2>2, <2>4, <3>1, NothingAdoptedInv
  <2> QED BY <1>3, <2>3, <2>4 DEF CommandAnswered
<1> QED BY <1>1, <1>2, <1>3

\* A tab dies.
LEMMA ReloadInv ==
  ASSUME ClientInv, NEW t \in Tabs, Reload(t)
  PROVE  ClientInv' /\ ReceiptStep
<1>1. /\ tab' = [tab EXCEPT ![t] = LaunchTab] /\ sync' = [sync EXCEPT ![t] = Resting(TRUE)]
      /\ UNCHANGED <<session, cookie, remote, made>> /\ refusals' \in Nat /\ faults' \in Nat
      /\ calls' = Orphaned(t, {"command", "import"})
  BY Counts DEF Reload, Rest
<1>2. CallsThin
  BY <1>1, OrphanedThin DEF ClientInv
<1>3. DeviceSound
  <2>1. CASE UNCHANGED <<bank, marker, receipt>>
    BY <2>1, DeviceKept
  <2>2. ASSUME NEW c, Answer(c), Acceptable(t, c), NEW n \in 1..2, Writes(c, n)
        PROVE  DeviceSound
    <3>1. n \in 0..3 /\ Decision(receipt[c.user], c.answer) \in {"newer", "current"}
      BY <2>2 DEF Acceptable
    <3> QED BY <2>2, <3>1, WritesFacts
  <2>3. \A c \in Awaited(t) : c.answer # none => Answer(c)
    BY AnsweredFacts DEF Awaited
  <2>4. sync[t].phase = "applied" /\ sync[t].offer = "server" => Answer(Offered(t))
    BY OfferedFacts
  <2> QED BY <2>1, <2>2, <2>3, <2>4 DEF Reload
<1>4. Sound(LaunchTab, Resting(TRUE), session[t], receipt', made)
  <2>1. Sound(tab[t], Resting(TRUE), session[t], receipt, made)
    BY SoundTab, RestSound
  <2>2. LaunchTab \in Memory /\ Fits(LaunchTab, session[t], receipt')
    BY <2>1, Limits DEF LaunchTab, Memory, Fits, Quiet, Sound
  <2>3. Belong(LaunchTab.ops, LaunchTab.scope, made) /\ ~LaunchTab.gateway
    BY BelongSets DEF LaunchTab
  <2> HIDE DEF LaunchTab
  <2> QED BY <2>1, <2>2, <2>3 DEF Sound, Agree
<1>5. cookie' \in [Users -> 0..MaxEpoch] /\ UNCHANGED <<session, remote, made>>
  BY <1>1 DEF ClientInv, Typed
<1>6. ClientInv'
  BY <1>1, <1>2, <1>3, <1>4, <1>5, AdoptStepInv
<1> QED BY <1>3, <1>6 DEF DeviceSound
-----------------------------------------------------------------------------
(* The invariant.                                                          *)

\* Before anything happened there is no receipt, no operation and no tab with a user.
LEMMA InitClient == Init => ClientInv
<1> SUFFICES ASSUME Init PROVE ClientInv
  OBVIOUS
<1>1. LaunchTab \in Memory /\ Resting(TRUE) \in Attempt
  BY Limits DEF LaunchTab, Memory, Resting, Attempt
<1>2. Typed
  <2>1. session \in [Tabs -> [user : Users, serial : 1..MaxSessions]]
    <3>1. \A u \in Users : [user |-> u, serial |-> 1] \in [user : Users, serial : 1..MaxSessions]
      BY Limits
    <3> QED BY <3>1 DEF Init
  <2>2. tab \in [Tabs -> Memory] /\ sync \in [Tabs -> Attempt]
    <3> HIDE DEF LaunchTab, Resting
    <3> QED BY <1>1 DEF Init
  <2>3. /\ bank \in [Users -> Banks] /\ marker \in [Users -> BOOLEAN]
        /\ receipt \in [Users -> Receipts \cup {none}] /\ cookie \in [Users -> 0..MaxEpoch]
        /\ server \in [Users -> Ledgers] /\ backup \in [Users -> Ledgers]
    BY Limits DEF Init, Banks, Ledgers
  <2>4. /\ active \in BOOLEAN /\ epoch \in 1..MaxEpoch /\ calls \subseteq Sent
        /\ refusals \in Nat /\ faults \in Nat
    <3>1. active = FALSE /\ epoch = 1 /\ calls = {} /\ refusals = 0 /\ faults = 0
      BY DEF Init
    <3>2. 1 \in 1..MaxEpoch
      BY Limits
    <3> QED BY <3>1, <3>2
  <2>5. made \in Seq(Users) /\ Len(made) <= MaxOps
    <3>1. made = <<>>
      BY DEF Init
    <3> QED BY <3>1, Limits
  <2> QED BY <2>1, <2>2, <2>3, <2>4, <2>5 DEF Typed
<1>3. ASSUME NEW t \in Tabs
      PROVE  TabInv(t) /\ Belong(tab[t].ops, Scope(t), made) /\ sync[t].bank = none
  <2>1. tab[t] = LaunchTab /\ sync[t] = Resting(TRUE)
    BY DEF Init
  <2>2. session[t].serial = 1 /\ session[t].user \in Users
    BY DEF Init
  <2>3. Fits(LaunchTab, session[t], receipt) /\ Runs(Resting(TRUE), session[t])
        /\ Agree(LaunchTab, Resting(TRUE))
    BY <2>2 DEF Fits, Quiet, Runs, Agree, LaunchTab, Resting
  <2>4. LaunchTab.ops = {} /\ Resting(TRUE).bank = none
    BY DEF LaunchTab, Resting
  <2> QED BY <2>1, <2>3, <2>4 DEF TabInv, Belong
<1>4. (\A u \in Users : Vouched(u)) /\ ImportsMarked
  BY DEF Init, Vouched, ImportsMarked
<1>5. Isolated
  BY <1>3 DEF Init, Isolated
<1> QED BY <1>2, <1>3, <1>4, <1>5 DEF ClientInv

\* Receipts change in adoptions only.
LEMMA NextClient ==
  ASSUME ClientInv, [Next]_clientVars
  PROVE  ClientInv' /\ ReceiptStep
<1>0. ASSUME UNCHANGED receipt PROVE ReceiptStep
  BY <1>0 DEF ReceiptStep
<1>1. CASE Server
  <2>1. ClientInv'
    BY <1>1, ExecutesInv, AnswersInv DEF Server
  <2>2. UNCHANGED receipt
    BY <1>1 DEF Server, ServerExecutes, ServerImports, ServerAnswersLaunch, device
  <2> QED BY <1>0, <2>1, <2>2
<1>2. CASE Others
  <2>1. UNCHANGED receipt
    BY <1>2 DEF Others, OthersCommand, OthersImport, OperatorActivates, OperatorRollsBack,
       OperatorBacksUp, OperatorRestores, device
  <2> QED BY <1>0, <1>2, <2>1, OthersInv
<1>3. CASE Store
  <2>1. ASSUME NEW t \in Tabs,
               \/ LocalCommand(t) \/ LocalCommandRefused(t) \/ SeesSavedBank(t)
               \/ SendCommand(t) \/ SendFindsOtherSession(t)
        PROVE  ClientInv' /\ ReceiptStep
    <3>1. UNCHANGED receipt
      BY <2>1 DEF LocalCommand, LocalCommandRefused, SeesSavedBank, SendCommand,
         SendFindsOtherSession, device
    <3> QED BY <1>0, <2>1, <3>1, LocalCommandInv, QuietStepsInv, SendInv
  <2>2. ASSUME NEW c \in calls, CommandAnswered(c) \/ CommandFails(c)
        PROVE  ClientInv' /\ ReceiptStep
    <3>1. CASE CommandAnswered(c)
      BY <3>1, AdoptionsInv
    <3>2. CASE CommandFails(c)
      <4>1. UNCHANGED receipt
        BY <3>2 DEF CommandFails, device
      <4> QED BY <1>0, <3>2, <4>1, FailuresInv
    <3> QED BY <2>2, <3>1, <3>2
  <2> QED BY <1>3, <2>1, <2>2 DEF Store
<1>4. CASE Launch
  <2>1. ASSUME NEW t \in Tabs, SyncStart(t) \/ SyncSteps(t) \/ SyncFails(t)
        PROVE  ClientInv' /\ ReceiptStep
    <3>1. CASE SyncAdopts(t)
      BY <3>1, AdoptionsInv
    <3>2. CASE SyncStart(t) \/ SyncFindsOtherSession(t) \/ Activate(t) \/ ApplyPreferences(t)
               \/ SyncFindsOtherScope(t) \/ SyncLocally(t) \/ SyncImports(t) \/ SyncFails(t)
      <4>1. UNCHANGED receipt
        BY <3>2 DEF SyncStart, SyncFindsOtherSession, Activate, ApplyPreferences,
           SyncFindsOtherScope, SyncLocally, SyncImports, SyncFails, device
      <4>2. ClientInv'
        BY <3>2, StartInv, FailuresInv, ActivateInv, PreferencesInv, LocallyInv, ImportsInv
      <4> QED BY <1>0, <4>1, <4>2
    <3> QED BY <2>1, <3>1, <3>2 DEF SyncSteps
  <2>2. ASSUME NEW c \in calls, ImportAnswered(c) \/ ImportRefused(c)
        PROVE  ClientInv' /\ ReceiptStep
    <3>1. CASE ImportAnswered(c)
      BY <3>1, AdoptionsInv
    <3>2. CASE ImportRefused(c)
      <4>1. UNCHANGED receipt
        BY <3>2 DEF ImportRefused, device
      <4> QED BY <1>0, <3>2, <4>1, FailuresInv
    <3> QED BY <2>2, <3>1, <3>2
  <2> QED BY <1>4, <2>1, <2>2 DEF Launch
<1>5. CASE Host
  <2> SUFFICES ASSUME NEW t \in Tabs,
                      Approve(t) \/ SwitchSession(t) \/ NoticeSession(t) \/ Reload(t)
               PROVE  ClientInv' /\ ReceiptStep
    BY <1>5 DEF Host
  <2>1. CASE Reload(t)
    BY <2>1, ReloadInv
  <2>2. CASE Approve(t) \/ SwitchSession(t) \/ NoticeSession(t)
    <3>1. UNCHANGED receipt
      BY <2>2 DEF Approve, SwitchSession, NoticeSession, device
    <3> QED BY <1>0, <2>2, <3>1, ApproveInv, SwitchInv, FailuresInv
  <2> QED BY <2>1, <2>2
<1>6. CASE UNCHANGED clientVars
  <2>1. UNCHANGED <<session, tab, sync, calls, bank, marker, receipt, cookie, server, active, epoch,
                    backup, made, refusals, faults>>
    BY <1>6 DEF clientVars, device, remote, failed
  <2>2. Typed'
    BY <2>1 DEF ClientInv, Typed
  <2>3. (\A t \in Tabs : TabInv(t)') /\ (\A u \in Users : Vouched(u)')
    BY <2>1 DEF ClientInv, TabInv, Vouched
  <2>4. ImportsMarked' /\ Isolated'
    BY <2>1 DEF ClientInv, ImportsMarked, Isolated, Scope
  <2> QED BY <1>0, <2>1, <2>2, <2>3, <2>4 DEF ClientInv
<1> QED BY <1>1, <1>2, <1>3, <1>4, <1>5, <1>6 DEF Next

\* The inductive invariant holds: whatever storage refuses, answers come late, operators
\* do and tabs die of.
THEOREM ClientConsistent == Spec => []ClientInv
<1>1. ClientInv /\ [Next]_clientVars => ClientInv'
  BY NextClient
<1> QED BY InitClient, <1>1, PTL DEF Spec

\* Every variable keeps its type, and a tab without a user may do nothing.
LEMMA ClientTyped == ClientInv => ClientTypeOK
<1> SUFFICES ASSUME ClientInv PROVE ClientTypeOK
  OBVIOUS
<1>1. ASSUME NEW t \in Tabs
      PROVE  /\ session[t].user \in Users /\ session[t].serial \in 1..MaxSessions
             /\ tab[t].scope \in Users \cup {none} /\ tab[t].owner \in Users \cup {none}
             /\ tab[t].ops \subseteq Ops /\ tab[t].mode \in {"local", "server", "read_only"}
             /\ tab[t].proved \in 0..MaxSessions /\ tab[t].bound \in 0..MaxSessions
             /\ \A f \in {"dirty", "fresh", "unconfirmed", "approved", "asks", "gateway"} :
                  tab[t][f] \in BOOLEAN /\ (Scope(t) = none => ~tab[t][f])
             /\ sync[t].phase \in {"idle", "asked", "answered"} \cup Holding
             /\ sync[t].bank \in Revisions \cup {none}
  <2>1. Sound(tab[t], sync[t], session[t], receipt, made)
    BY SoundTab
  <2>2. session[t].user \in Users /\ session[t].serial \in 1..MaxSessions
    BY <2>1 DEF Sound
  <2>3. sync[t].phase \in {"idle", "asked", "answered"} \cup Holding
        /\ sync[t].bank \in Revisions \cup {none}
    BY <2>1 DEF Sound, Attempt
  <2>4. /\ tab[t].scope \in Users \cup {none} /\ tab[t].owner \in Users \cup {none}
        /\ tab[t].ops \subseteq Ops /\ tab[t].mode \in {"local", "server", "read_only"}
        /\ tab[t].proved \in 0..MaxSessions /\ tab[t].bound \in 0..MaxSessions
    BY <2>1 DEF Sound, Memory
  <2>5. ASSUME NEW f \in {"dirty", "fresh", "unconfirmed", "approved", "asks", "gateway"}
        PROVE  tab[t][f] \in BOOLEAN /\ (Scope(t) = none => ~tab[t][f])
    BY <2>1 DEF Sound, Memory, Fits, Quiet, Scope
  <2> QED BY <2>2, <2>3, <2>4, <2>5
<1>2. \A c \in calls : c.ops \subseteq Ops /\ c.answer \in Revisions \cup {none}
  BY DEF ClientInv, Typed, Sent
<1>3. \A u \in Users : /\ bank[u] \in (SUBSET Ops) \cup {none}
                       /\ marker[u] \in BOOLEAN /\ cookie[u] \in 0..MaxEpoch
                       /\ server[u] \in Revisions \cup {none}
  BY DEF ClientInv, Typed, Banks, Ledgers
<1> QED BY <1>1, <1>2, <1>3 DEF ClientTypeOK

\* Once a device has sent its bank to the server, or shows the server's, its local
\* write path is closed for good: the marker that closes it is on the device before an
\* import leaves it, and a tab in server mode stands on a receipt of its own user
\* (bankStore.ts, markLedgerServerAuthority before importLedger).
THEOREM AuthorityHolds == Spec => []AuthorityIsSticky
<1>1. ClientInv => AuthorityIsSticky
  <2> SUFFICES ASSUME ClientInv PROVE AuthorityIsSticky
    OBVIOUS
  <2>1. \A c \in calls : c.kind = "import" => marker[c.user]
    BY DEF ClientInv, ImportsMarked
  <2>2. ASSUME NEW t \in Tabs, tab[t].mode = "server"
        PROVE  /\ Scope(t) # none /\ tab[t].owner = Scope(t)
               /\ marker[Scope(t)] /\ receipt[Scope(t)] # none
    <3>1. Sound(tab[t], sync[t], session[t], receipt, made)
      BY SoundTab
    <3>2. /\ tab[t].scope # none /\ tab[t].owner = tab[t].scope
          /\ receipt[tab[t].scope] # none /\ tab[t].scope \in Users
      BY <2>2, <3>1 DEF Sound, Fits, Memory
    <3>3. marker[tab[t].scope]
      BY <3>2 DEF ClientInv, Vouched
    <3> QED BY <3>2, <3>3 DEF Scope
  <2> QED BY <2>1, <2>2 DEF AuthorityIsSticky
<1> QED BY <1>1, ClientConsistent, PTL

\* What was done on a screen of one user is in no bank of another, through switches of
\* the Telegram session, late answers and quarantines (bankStore.ts, the namespaces of
\* persistence.ts and the session guards of adapter.telegram.ts).
THEOREM NamespacesStayIsolated == Spec => []NamespacesIsolated
<1>1. ClientInv => NamespacesIsolated
  <2> SUFFICES ASSUME ClientInv PROVE NamespacesIsolated
    OBVIOUS
  <2>1. ClientTypeOK
    BY ClientTyped
  <2>2. \A u \in Users : /\ bank[u] # none => \A n \in bank[u] \ {0} : made[n] = u
                         /\ server[u] # none => \A n \in server[u].ops \ {0} : made[n] = u
    BY DEF ClientInv, Isolated, Belong
  <2>3. ASSUME NEW t \in Tabs
        PROVE  IF Scope(t) = none THEN tab[t].ops = {}
               ELSE \A n \in tab[t].ops \ {0} : made[n] = Scope(t)
    <3>1. Sound(tab[t], sync[t], session[t], receipt, made)
      BY SoundTab
    <3> QED BY <3>1 DEF Sound, Fits, Quiet, Belong, Scope
  <2> QED BY <2>1, <2>2, <2>3 DEF NamespacesIsolated
<1> QED BY <1>1, ClientConsistent, PTL

\* A receipt does not go back: not to an earlier revision of its generation, nor to a
\* generation that the device has left (ledgerAuthorityReceipt.ts).
THEOREM ReceiptsAdvance == Spec => ReceiptAdvances
<1> DEFINE Forth == \A u \in Users : receipt[u] # none =>
                      /\ receipt'[u] # none
                      /\ receipt'[u].epoch = receipt[u].epoch
                           => receipt'[u].revision >= receipt[u].revision
                      /\ receipt'[u].epoch \notin ToSet(receipt[u].retired)
<1>1. ASSUME ClientInv, [Next]_clientVars PROVE Forth
  <2> SUFFICES ASSUME NEW u \in Users, receipt[u] # none
               PROVE  /\ receipt'[u] # none
                      /\ receipt'[u].epoch = receipt[u].epoch
                           => receipt'[u].revision >= receipt[u].revision
                      /\ receipt'[u].epoch \notin ToSet(receipt[u].retired)
    OBVIOUS
  <2>1. receipt[u] \in Receipts /\ receipt[u].epoch \notin ToSet(receipt[u].retired)
    BY <1>1 DEF ClientInv, Typed, Vouched
  <2>2. CASE receipt'[u] = receipt[u]
    <3>1. receipt[u].revision \in Nat
      BY <2>1, Limits DEF Receipts
    <3> QED BY <2>1, <2>2, <3>1
  <2>3. CASE receipt'[u] # receipt[u]
    <3>1. PICK next \in Revisions :
            /\ Decision(receipt[u], next) \in {"newer", "current"}
            /\ receipt'[u] = Advanced(receipt[u], next)
      BY <1>1, <2>3, NextClient DEF ReceiptStep
    <3> QED BY <2>1, <3>1, AdvancedFacts
  <2> QED BY <2>2, <2>3
<1>2. ClientInv /\ [Next]_clientVars => [Forth]_clientVars
  BY <1>1
<1> QED BY <1>2, ClientConsistent, PTL DEF Spec, ReceiptAdvances
=============================================================================
