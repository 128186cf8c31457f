---------------------- MODULE LedgerClientHistory_proofs ----------------------
(***************************************************************************)
(* Proofs that a device loses nothing it should keep: the revisions of a   *)
(* ledger form one line, the saved bank covers the receipt, and what was   *)
(* made before the server took over goes only with the user's word.  They  *)
(* rest on the invariant of LedgerClient_proofs and hold for any number of *)
(* tabs and users and any limits.  The last part is about a device with    *)
(* one tab: what its screen was told, it keeps showing.                    *)
(***************************************************************************)
EXTENDS LedgerClient_proofs

-----------------------------------------------------------------------------
(* What a step may do.                                                     *)

\* A ledger that tab t has in hand: an answer it waits for, or the launch's offer.
Taken(t, c) ==
  \/ c \in Awaited(t) /\ c.answer # none
  \/ sync[t].phase = "applied" /\ sync[t].offer = "server" /\ c = Offered(t)

\* What it is in hand for is over: a command, or the launch.
Ends(t, c) == sync'[t].phase = "idle" \/ (c \in Awaited(t) /\ c.kind = "command")

\* The tab adopts it, as far as the first n writes.
Saves(t, c, n) == Taken(t, c) /\ Acceptable(t, c) /\ Writes(c, n) /\ Ends(t, c)

\* What the device keeps is changed by the local path, by a launch, or by an adoption.
DeviceStep ==
  \/ UNCHANGED <<bank, marker, receipt>>
  \/ \E t \in Tabs : LocalCommand(t) \/ Activate(t) \/ ApplyPreferences(t) \/ SyncImports(t)
  \/ \E t \in Tabs, n \in 0..3 : \E c : Saves(t, c, n)

\* Memory R is as T was, belongs to no user, or shows the ledger in hand.
Kept(T, R) ==
  /\ R.scope = T.scope /\ R.owner = T.owner /\ R.ops = T.ops
  /\ R.dirty = T.dirty /\ R.fresh = T.fresh /\ R.unconfirmed = T.unconfirmed

Blank(R) ==
  /\ R.scope = none /\ R.owner = none /\ R.ops = {}
  /\ ~R.dirty /\ ~R.fresh /\ ~R.unconfirmed

Shows(R, c) ==
  /\ R.scope = c.user /\ R.owner = c.user /\ R.ops = c.answer.ops
  /\ ~R.dirty /\ ~R.fresh

\* What a tab remembers, as long as storage refused no write.
MemoryStep(t) ==
  \/ Kept(tab[t], tab'[t])
  \/ Blank(tab'[t])
  \/ LocalCommand(t) \/ SeesSavedBank(t) \/ Activate(t) \/ ApplyPreferences(t) \/ SyncImports(t)
  \/ \E c : Saves(t, c, 3) /\ Shows(tab'[t], c)

\* What its synchronization does.
LaunchStep(t) ==
  LET s == sync[t] n == sync'[t] IN
  \/ n.phase = s.phase /\ n.user = s.user /\ n.offer = s.offer /\ n.bank = s.bank
  \/ n.phase \in {"idle", "asked"} /\ n.bank = none
  \/ ServerAnswersLaunch(t) \/ Activate(t) \/ ApplyPreferences(t) \/ SyncImports(t)

\* A ledger in hand is there, and of a user.
LEMMA TakenAnswer ==
  ASSUME ClientInv, NEW t \in Tabs, NEW c, Taken(t, c)
  PROVE  Answer(c)
<1>1. CASE c \in Awaited(t) /\ c.answer # none
  BY <1>1, AnsweredFacts DEF Awaited
<1>2. CASE sync[t].phase = "applied" /\ sync[t].offer = "server" /\ c = Offered(t)
  BY <1>2, OfferedFacts
<1> QED BY <1>1, <1>2 DEF Taken

\* An adoption that no storage refuses: all three writes, or none.
LEMMA AdoptStep ==
  ASSUME ClientInv, NEW t \in Tabs, NEW c, Taken(t, c), Ends(t, c),
         NEW gateway \in BOOLEAN, NEW result, Adopt(t, c, gateway, result)
  PROVE  /\ UNCHANGED <<bank, marker, receipt>> \/ \E n \in 0..3 : Saves(t, c, n)
         /\ result # "refused" =>
              \/ Kept(tab[t], tab'[t])
              \/ Saves(t, c, 3) /\ Shows(tab'[t], c)
         /\ \A o \in Tabs \ {t} : tab'[o] = tab[o]
<1>0. tab[t] \in Memory /\ Typed
  BY DEF ClientInv, Typed
<1>1. UNCHANGED <<bank, marker, receipt>> \/ \E n \in 0..3 : Saves(t, c, n)
  <2>1. 3 \in 0..3 /\ 0..2 \subseteq 0..3
    OBVIOUS
  <2> QED BY <2>1 DEF Adopt, Saves
<1>2. \A X : tab' = [tab EXCEPT ![t] = X] => tab'[t] = X /\ \A o \in Tabs \ {t} : tab'[o] = tab[o]
  BY <1>0 DEF Typed
<1>3. ASSUME NEW asks, tab' = [tab EXCEPT ![t] = [@ EXCEPT !.gateway = FALSE,
                                                  !.mode = "read_only", !.asks = asks]]
      PROVE  Kept(tab[t], tab'[t]) /\ \A o \in Tabs \ {t} : tab'[o] = tab[o]
  BY <1>0, <1>2, <1>3 DEF Kept, Memory
<1>4. ASSUME tab' = [tab EXCEPT ![t].gateway = gateway]
      PROVE  Kept(tab[t], tab'[t]) /\ \A o \in Tabs \ {t} : tab'[o] = tab[o]
  BY <1>0, <1>2, <1>4 DEF Kept, Memory
<1>5. ASSUME UNCHANGED tab
      PROVE  Kept(tab[t], tab'[t]) /\ \A o \in Tabs \ {t} : tab'[o] = tab[o]
  BY <1>5 DEF Kept
<1>6. ASSUME Acceptable(t, c), Writes(c, 3),
             tab' = [tab EXCEPT ![t] = [@ EXCEPT
                       !.owner = c.user, !.ops = c.answer.ops, !.mode = "server",
                       !.gateway = gateway, !.dirty = FALSE, !.fresh = FALSE,
                       !.unconfirmed = FALSE, !.approved = FALSE, !.asks = FALSE]]
      PROVE  Saves(t, c, 3) /\ Shows(tab'[t], c) /\ \A o \in Tabs \ {t} : tab'[o] = tab[o]
  <2>1. tab'[t] = [tab[t] EXCEPT
                       !.owner = c.user, !.ops = c.answer.ops, !.mode = "server",
                       !.gateway = gateway, !.dirty = FALSE, !.fresh = FALSE,
                       !.unconfirmed = FALSE, !.approved = FALSE, !.asks = FALSE]
        /\ \A o \in Tabs \ {t} : tab'[o] = tab[o]
    BY <1>2, <1>6
  <2>2. tab[t].scope = c.user
    BY <1>6 DEF Acceptable, Scope
  <2>3. Shows(tab'[t], c)
    BY <1>0, <2>1, <2>2 DEF Shows, Memory
  <2> QED BY <1>6, <2>1, <2>3 DEF Saves
<1>7. ASSUME result = "refused", Acceptable(t, c), \E n \in 0..2 :
               /\ Writes(c, n)
               /\ tab' = [tab EXCEPT ![t] = [@ EXCEPT
                    !.mode = "read_only", !.asks = FALSE,
                    !.owner = IF n > 0 THEN c.user ELSE tab[t].owner,
                    !.ops = IF n > 0 THEN c.answer.ops ELSE tab[t].ops,
                    !.dirty = IF n > 0 THEN n = 1 ELSE tab[t].dirty]]
      PROVE  \A o \in Tabs \ {t} : tab'[o] = tab[o]
  BY <1>2, <1>7
<1>8. \/ \E asks : tab' = [tab EXCEPT ![t] = [@ EXCEPT !.gateway = FALSE,
                                              !.mode = "read_only", !.asks = asks]]
      \/ tab' = [tab EXCEPT ![t].gateway = gateway]
      \/ UNCHANGED tab
      \/ /\ Acceptable(t, c) /\ Writes(c, 3)
         /\ tab' = [tab EXCEPT ![t] = [@ EXCEPT
                       !.owner = c.user, !.ops = c.answer.ops, !.mode = "server",
                       !.gateway = gateway, !.dirty = FALSE, !.fresh = FALSE,
                       !.unconfirmed = FALSE, !.approved = FALSE, !.asks = FALSE]]
      \/ /\ result = "refused" /\ Acceptable(t, c)
         /\ \E n \in 0..2 :
              /\ Writes(c, n)
              /\ tab' = [tab EXCEPT ![t] = [@ EXCEPT
                    !.mode = "read_only", !.asks = FALSE,
                    !.owner = IF n > 0 THEN c.user ELSE tab[t].owner,
                    !.ops = IF n > 0 THEN c.answer.ops ELSE tab[t].ops,
                    !.dirty = IF n > 0 THEN n = 1 ELSE tab[t].dirty]]
  BY DEF Adopt
<1> QED BY <1>1, <1>3, <1>4, <1>5, <1>6, <1>7, <1>8

\* A tab in quarantine, or loaded again.
LEMMA BlankMemory ==
  ASSUME Typed, NEW t \in Tabs,
         \/ SessionLost(t)
         \/ tab' = [tab EXCEPT ![t] = Quarantined(@)]
         \/ tab' = [tab EXCEPT ![t] = LaunchTab]
  PROVE  Blank(tab'[t]) /\ \A o \in Tabs \ {t} : tab'[o] = tab[o]
<1> DEFINE Q == Quarantined(tab[t])
<1>1. DOMAIN tab[t] = {"scope", "owner", "ops", "mode", "dirty", "fresh", "unconfirmed",
                       "approved", "asks", "gateway", "proved", "bound"}
  BY DEF Typed, Memory
<1>2. Blank(Q) /\ DOMAIN Q = DOMAIN tab[t]
  BY <1>1 DEF Blank, Quarantined
<1> HIDE DEF Q
<1>3. Blank([Q EXCEPT !.proved = 0])
  BY <1>1, <1>2 DEF Blank
<1>4. Blank(LaunchTab)
  BY DEF Blank, LaunchTab
<1>5. tab' = [tab EXCEPT ![t] = Q] \/ tab' = [tab EXCEPT ![t] = [Q EXCEPT !.proved = 0]]
      \/ tab' = [tab EXCEPT ![t] = LaunchTab]
  BY DEF SessionLost, Q
<1> QED BY <1>2, <1>3, <1>4, <1>5 DEF Typed

\* A tab that changes its mode, its question, or what it was told.
LEMMA KeptMemory ==
  ASSUME Typed, NEW t \in Tabs, NEW R, tab' = [tab EXCEPT ![t] = R],
         \/ \E m, a : R = [tab[t] EXCEPT !.mode = m, !.asks = a]
         \/ \E m : R = [tab[t] EXCEPT !.mode = m]
         \/ \E a : R = [tab[t] EXCEPT !.asks = a]
         \/ \E a : R = [tab[t] EXCEPT !.approved = a]
         \/ \E g, a, m : R = [tab[t] EXCEPT !.gateway = g, !.asks = a, !.mode = m]
         \/ R = tab[t]
  PROVE  Kept(tab[t], tab'[t]) /\ \A o \in Tabs \ {t} : tab'[o] = tab[o]
<1>1. tab[t] \in Memory /\ tab'[t] = R /\ \A o \in Tabs \ {t} : tab'[o] = tab[o]
  BY DEF Typed
<1>2. Kept(tab[t], R)
  BY <1>1 DEF Kept, Memory
<1> QED BY <1>1, <1>2

\* Steps of a command that fails, of a refused import, of a failed attempt.
LEMMA FailureMemory ==
  ASSUME Typed, NEW t \in Tabs,
         \/ SessionLost(t)
         \/ tab' = [tab EXCEPT ![t] = Quarantined(@)]
         \/ tab' = [tab EXCEPT ![t] = LaunchTab]
         \/ tab' = [tab EXCEPT ![t].asks = FALSE]
         \/ UNCHANGED tab
  PROVE  \A o \in Tabs : MemoryStep(o)
<1>1. CASE tab' = [tab EXCEPT ![t].asks = FALSE]
  <2>1. Kept(tab[t], tab'[t]) /\ \A o \in Tabs \ {t} : tab'[o] = tab[o]
    BY <1>1, KeptMemory
  <2> QED BY <2>1 DEF MemoryStep, Kept
<1>2. CASE UNCHANGED tab
  BY <1>2 DEF MemoryStep, Kept
<1>3. CASE SessionLost(t) \/ tab' = [tab EXCEPT ![t] = Quarantined(@)]
           \/ tab' = [tab EXCEPT ![t] = LaunchTab]
  <2>1. Blank(tab'[t]) /\ \A o \in Tabs \ {t} : tab'[o] = tab[o]
    BY <1>3, BlankMemory
  <2> QED BY <2>1 DEF MemoryStep, Kept
<1> QED BY <1>1, <1>2, <1>3

\* Every step is of one of these kinds.
LEMMA Kinds ==
  ASSUME ClientInv, [Next]_clientVars
  PROVE  DeviceStep /\ (refusals' = 0 => \A t \in Tabs : MemoryStep(t))
<1> DEFINE Goal == DeviceStep /\ (refusals' = 0 => \A t \in Tabs : MemoryStep(t))
<1>0. Typed /\ \A c \in calls : c.tab \in Tabs
  BY DEF ClientInv, Typed, Sent
<1>1. ASSUME UNCHANGED tab, UNCHANGED <<bank, marker, receipt>> PROVE Goal
  BY <1>1 DEF DeviceStep, MemoryStep, Kept
<1>2. ASSUME NEW t \in Tabs, UNCHANGED <<bank, marker, receipt>>,
             \/ SessionLost(t)
             \/ tab' = [tab EXCEPT ![t] = Quarantined(@)]
             \/ tab' = [tab EXCEPT ![t] = LaunchTab]
             \/ tab' = [tab EXCEPT ![t].asks = FALSE]
             \/ UNCHANGED tab
      PROVE  Goal
  BY <1>0, <1>2, FailureMemory DEF DeviceStep
<1>3. ASSUME NEW t \in Tabs, UNCHANGED <<bank, marker, receipt>>, NEW R,
             tab' = [tab EXCEPT ![t] = R],
             \/ \E m, a : R = [tab[t] EXCEPT !.mode = m, !.asks = a]
             \/ \E m : R = [tab[t] EXCEPT !.mode = m]
             \/ \E a : R = [tab[t] EXCEPT !.approved = a]
             \/ \E g, a, m : R = [tab[t] EXCEPT !.gateway = g, !.asks = a, !.mode = m]
             \/ R = tab[t]
      PROVE  Goal
  <2>1. Kept(tab[t], tab'[t]) /\ \A o \in Tabs \ {t} : tab'[o] = tab[o]
    BY <1>0, <1>3, KeptMemory
  <2> QED BY <1>3, <2>1 DEF DeviceStep, MemoryStep, Kept
<1>4. ASSUME NEW t \in Tabs, NEW due, Rest(t, due) PROVE sync'[t].phase = "idle"
  <2>1. sync'[t] = Resting(due)
    BY <1>0, <1>4 DEF Rest, Typed
  <2> QED BY <2>1 DEF Resting
<1>5. ASSUME NEW t \in Tabs, NEW c, Taken(t, c), Ends(t, c),
             NEW gateway \in BOOLEAN, NEW result \in Results,
             Adopt(t, c, gateway, result), Conclude(t, result) \/ Counted(result)
      PROVE  Goal
  <2>1. /\ UNCHANGED <<bank, marker, receipt>> \/ \E n \in 0..3 : Saves(t, c, n)
        /\ result # "refused" => \/ Kept(tab[t], tab'[t])
                                 \/ Saves(t, c, 3) /\ Shows(tab'[t], c)
        /\ \A o \in Tabs \ {t} : tab'[o] = tab[o]
    BY <1>5, AdoptStep
  <2>2. result = "refused" => refusals' # 0
    <3>1. result = "refused" => Refusal
      BY <1>5 DEF Conclude, Counted
    <3> QED BY <1>0, <3>1 DEF Refusal, Typed
  <2>3. DeviceStep
    BY <2>1 DEF DeviceStep
  <2>4. refusals' = 0 => \A o \in Tabs : MemoryStep(o)
    BY <2>1, <2>2 DEF MemoryStep, Kept
  <2> QED BY <2>3, <2>4
<1>6. ASSUME NEW t \in Tabs,
             \/ LocalCommand(t) \/ SeesSavedBank(t) \/ Activate(t) \/ ApplyPreferences(t)
             \/ SyncImports(t)
      PROVE  Goal
  <2>1. \A o \in Tabs \ {t} : tab'[o] = tab[o]
    BY <1>0, <1>6 DEF LocalCommand, SeesSavedBank, Activate, ApplyPreferences, SyncImports,
       Commit, SessionLost, Typed
  <2>2. DeviceStep
    BY <1>6 DEF DeviceStep, SeesSavedBank, device
  <2> QED BY <1>6, <2>1, <2>2 DEF MemoryStep, Kept
<1> SUFFICES Goal
  OBVIOUS
<1> HIDE DEF Goal
<1>7. CASE Server \/ Others
  BY <1>1, <1>7 DEF Server, ServerExecutes, ServerImports, ServerAnswersLaunch, Others,
     OthersCommand, OthersImport, OperatorActivates, OperatorRollsBack, OperatorBacksUp,
     OperatorRestores, device
<1>8. CASE Store
  <2>1. ASSUME NEW t \in Tabs, LocalCommandRefused(t) PROVE Goal
    BY <1>3, <2>1 DEF LocalCommandRefused, device
  <2>2. ASSUME NEW t \in Tabs, SendCommand(t) PROVE Goal
    BY <1>1, <2>2 DEF SendCommand, device
  <2>3. ASSUME NEW t \in Tabs, SendFindsOtherSession(t) PROVE Goal
    BY <1>2, <2>3 DEF SendFindsOtherSession, device
  <2>4. ASSUME NEW c \in calls, CommandFails(c) PROVE Goal
    <3>1. UNCHANGED <<bank, marker, receipt>>
          /\ (SessionLost(c.tab) \/ tab' = [tab EXCEPT ![c.tab].asks = FALSE])
      BY <2>4 DEF CommandFails, device
    <3> QED BY <1>0, <1>2, <3>1
  <2>5. ASSUME NEW c \in calls, CommandAnswered(c) PROVE Goal
    <3>1. CASE \E result \in Results :
                 Adopt(c.tab, c, tab[c.tab].gateway, result) /\ Counted(result)
      <4>1. tab[c.tab].gateway \in BOOLEAN
        BY <1>0 DEF Typed, Memory
      <4>2. Taken(c.tab, c) /\ Ends(c.tab, c)
        BY <2>5 DEF CommandAnswered, Taken, Awaited, Ends
      <4> QED BY <1>0, <1>5, <3>1, <4>1, <4>2
    <3>2. CASE SessionLost(c.tab) /\ UNCHANGED <<bank, marker, receipt, failed>>
      BY <1>0, <1>2, <3>2
    <3> QED BY <2>5, <3>1, <3>2 DEF CommandAnswered
  <2> QED BY <1>6, <1>8, <2>1, <2>2, <2>3, <2>4, <2>5 DEF Store
<1>9. CASE Launch
  <2>1. ASSUME NEW t \in Tabs, SyncStart(t) PROVE Goal
    <3>1. /\ UNCHANGED <<bank, marker, receipt>>
          /\ \/ tab' = [tab EXCEPT ![t] = Quarantined(tab[t])]
             \/ tab' = [tab EXCEPT ![t] = tab[t]]
             \/ tab' = [tab EXCEPT ![t] = [tab[t] EXCEPT !.mode = "read_only"]]
      BY <2>1 DEF SyncStart, device
    <3> QED BY <1>2, <1>3, <3>1
  <2>2. ASSUME NEW t \in Tabs, SyncFindsOtherSession(t) \/ SyncFindsOtherScope(t) \/ SyncFails(t)
        PROVE  Goal
    <3>1. UNCHANGED <<bank, marker, receipt>> /\ (SessionLost(t) \/ UNCHANGED tab)
      BY <2>2 DEF SyncFindsOtherSession, SyncFindsOtherScope, SyncFails, device
    <3> QED BY <1>2, <3>1
  <2>3. ASSUME NEW t \in Tabs, SyncLocally(t) PROVE Goal
    <3>1. /\ UNCHANGED <<bank, marker, receipt>>
          /\ \E m : tab' = [tab EXCEPT ![t] = [tab[t] EXCEPT !.gateway = FALSE, !.asks = FALSE,
                                                          !.mode = m]]
      BY <2>3 DEF SyncLocally, device
    <3> QED BY <1>3, <3>1
  <2>4. ASSUME NEW t \in Tabs, SyncAdopts(t) PROVE Goal
    <3>1. PICK result \in Results : Adopt(t, Offered(t), TRUE, result) /\ Conclude(t, result)
      BY <2>4 DEF SyncAdopts
    <3>2. Taken(t, Offered(t)) /\ Ends(t, Offered(t)) /\ TRUE \in BOOLEAN
      BY <1>4, <2>4, <3>1 DEF SyncAdopts, Taken, Ends, Conclude, Finish
    <3> QED BY <1>5, <3>1, <3>2
  <2>5. ASSUME NEW c \in calls, ImportAnswered(c) PROVE Goal
    <3>1. CASE \E result \in Results : Adopt(c.tab, c, TRUE, result) /\ Conclude(c.tab, result)
      <4>1. Taken(c.tab, c) /\ Ends(c.tab, c) /\ TRUE \in BOOLEAN
        BY <1>0, <1>4, <2>5, <3>1 DEF ImportAnswered, Taken, Awaited, Ends, Conclude, Finish
      <4> QED BY <1>0, <1>5, <3>1, <4>1
    <3>2. CASE SessionLost(c.tab) /\ UNCHANGED <<device, failed>>
      BY <1>0, <1>2, <3>2 DEF device
    <3> QED BY <2>5, <3>1, <3>2 DEF ImportAnswered
  <2>6. ASSUME NEW c \in calls, ImportRefused(c) PROVE Goal
    <3>1. UNCHANGED <<bank, marker, receipt>>
          /\ (SessionLost(c.tab) \/ tab' = [tab EXCEPT ![c.tab].asks = FALSE])
      BY <2>6 DEF ImportRefused, device
    <3> QED BY <1>0, <1>2, <3>1
  <2> QED BY <1>6, <1>9, <2>1, <2>2, <2>3, <2>4, <2>5, <2>6 DEF Launch, SyncSteps
<1>10. CASE Host
  <2>1. ASSUME NEW t \in Tabs, Approve(t) PROVE Goal
    BY <1>3, <2>1 DEF Approve, device
  <2>2. ASSUME NEW t \in Tabs, SwitchSession(t) PROVE Goal
    BY <1>1, <2>2 DEF SwitchSession, device
  <2>3. ASSUME NEW t \in Tabs, NoticeSession(t) PROVE Goal
    BY <1>2, <2>3 DEF NoticeSession, device
  <2>4. ASSUME NEW t \in Tabs, Reload(t) PROVE Goal
    <3>1. DeviceStep
      <4>1. CASE UNCHANGED <<bank, marker, receipt>>
        BY <4>1 DEF DeviceStep
      <4>2. CASE \E c \in {d \in Awaited(t) : d.answer # none /\ Same(t, d.serial)} \cup
                 (IF sync[t].phase = "applied" /\ sync[t].offer = "server" THEN {Offered(t)} ELSE {}) :
                   Acceptable(t, c) /\ \E n \in 1..2 : Writes(c, n)
        <5>1. PICK c : \E n \in 1..2 : Taken(t, c) /\ Acceptable(t, c) /\ Writes(c, n)
          <6>1. PICK c \in {d \in Awaited(t) : d.answer # none /\ Same(t, d.serial)} \cup
                 (IF sync[t].phase = "applied" /\ sync[t].offer = "server" THEN {Offered(t)} ELSE {}) :
                   Acceptable(t, c) /\ \E n \in 1..2 : Writes(c, n)
            BY <4>2
          <6>2. Taken(t, c)
            BY <6>1 DEF Taken
          <6> QED BY <6>1, <6>2
        <5>2. \E n \in 0..3 : Saves(t, c, n)
          <6>1. 1..2 \subseteq 0..3
            OBVIOUS
          <6>2. Ends(t, c)
            BY <1>4, <2>4 DEF Reload, Ends
          <6> QED BY <5>1, <6>1, <6>2 DEF Saves
        <5> QED BY <5>2 DEF DeviceStep
      <4> QED BY <2>4, <4>1, <4>2 DEF Reload
    <3>2. tab' = [tab EXCEPT ![t] = LaunchTab]
      BY <2>4 DEF Reload
    <3> QED BY <1>0, <3>1, <3>2, FailureMemory DEF Goal
  <2> QED BY <1>10, <2>1, <2>2, <2>3, <2>4 DEF Host
<1>11. CASE UNCHANGED clientVars
  BY <1>1, <1>11 DEF clientVars, device
<1> QED BY <1>7, <1>8, <1>9, <1>10, <1>11 DEF Next

\* How the steps of a launch that has the lock go on.
LEMMA LaunchFacts ==
  ASSUME Typed, NEW t \in Tabs, Activate(t) \/ ApplyPreferences(t) \/ SyncImports(t)
  PROVE  LET s == sync[t] n == sync'[t] IN
         /\ \A o \in Tabs \ {t} : sync'[o] = sync[o]
         /\ \/ n = Resting(TRUE) /\ ~Activate(t)
            \/ n.user = s.user /\ n.offer = s.offer /\ n.bank = s.bank /\ n.phase \in Holding
         /\ Activate(t) => /\ s.phase = "answered" /\ n.phase \in {"activated", "applied"}
                           /\ n.phase = "activated" => s.offer # "server"
         /\ ApplyPreferences(t) => s.phase = "activated" /\ n.phase \in {"applied", "idle"}
         /\ SyncImports(t) => s.phase = "applied" /\ n.phase \in {"importing", "idle"}
<1> DEFINE s == sync[t]
           n == sync'[t]
<1>0. s \in Attempt /\ sync \in [Tabs -> Attempt]
  BY DEF Typed
<1>1. ASSUME NEW p \in Holding, Goto(t, p)
      PROVE  /\ \A o \in Tabs \ {t} : sync'[o] = sync[o]
             /\ n.user = s.user /\ n.offer = s.offer /\ n.bank = s.bank /\ n.phase = p
  BY <1>0, <1>1 DEF Goto, Attempt
<1>2. ASSUME Rest(t, TRUE)
      PROVE  (\A o \in Tabs \ {t} : sync'[o] = sync[o]) /\ n = Resting(TRUE)
  BY <1>0, <1>2 DEF Rest
<1>3. Resting(TRUE).phase = "idle"
  BY DEF Resting
<1>4. {"activated", "applied", "importing"} = Holding
  BY DEF Holding
<1>5. CASE Activate(t)
  <2>1. s.phase = "answered"
    BY <1>5 DEF Activate
  <2>2. (Goto(t, "activated") /\ s.offer # "server") \/ Goto(t, "applied")
    BY <1>5 DEF Activate
  <2>3. ~ApplyPreferences(t) /\ ~SyncImports(t)
    BY <2>1 DEF ApplyPreferences, SyncImports
  <2> HIDE DEF s, n
  <2> QED BY <1>1, <1>4, <2>1, <2>2, <2>3 DEF s, n
<1>6. CASE ApplyPreferences(t)
  <2>1. s.phase = "activated" /\ (Goto(t, "applied") \/ Rest(t, TRUE))
    BY <1>6 DEF ApplyPreferences
  <2>2. ~Activate(t) /\ ~SyncImports(t)
    BY <2>1 DEF Activate, SyncImports
  <2> HIDE DEF s, n
  <2> QED BY <1>1, <1>2, <1>3, <1>4, <2>1, <2>2 DEF s, n
<1>7. CASE SyncImports(t)
  <2>1. s.phase = "applied" /\ (Goto(t, "importing") \/ Rest(t, TRUE))
    BY <1>7 DEF SyncImports
  <2>2. ~Activate(t) /\ ~ApplyPreferences(t)
    BY <2>1 DEF Activate, ApplyPreferences
  <2> HIDE DEF s, n
  <2> QED BY <1>1, <1>2, <1>3, <1>4, <2>1, <2>2 DEF s, n
<1> QED BY <1>5, <1>6, <1>7

\* Every step leaves a synchronization as it is, ends it, starts it, or takes it on.
LEMMA LaunchKinds ==
  ASSUME ClientInv, [Next]_clientVars
  PROVE  \A t \in Tabs : LaunchStep(t)
<1> DEFINE Goal == \A t \in Tabs : LaunchStep(t)
<1> SUFFICES Goal
  OBVIOUS
<1>0. Typed /\ \A c \in calls : c.tab \in Tabs
  BY DEF ClientInv, Typed, Sent
<1>1. ASSUME UNCHANGED sync PROVE Goal
  BY <1>1 DEF LaunchStep
<1>2. ASSUME NEW t \in Tabs, NEW s, sync' = [sync EXCEPT ![t] = s],
             s.phase \in {"idle", "asked"}, s.bank = none
      PROVE  Goal
  <2>1. sync'[t] = s /\ \A o \in Tabs \ {t} : sync'[o] = sync[o]
    BY <1>0, <1>2 DEF Typed
  <2> QED BY <1>2, <2>1 DEF LaunchStep
<1>3. ASSUME NEW t \in Tabs, NEW due, Rest(t, due) PROVE Goal
  <2>1. Resting(due).phase = "idle" /\ Resting(due).bank = none
    BY DEF Resting
  <2> HIDE DEF Goal
  <2> QED BY <1>2, <1>3, <2>1 DEF Rest
<1>4. ASSUME NEW t \in Tabs, Activate(t) \/ ApplyPreferences(t) \/ SyncImports(t) PROVE Goal
  BY <1>0, <1>4, LaunchFacts DEF LaunchStep
<1>5. ASSUME NEW t \in Tabs, ServerAnswersLaunch(t) PROVE Goal
  <2>1. \A o \in Tabs \ {t} : sync'[o] = sync[o]
    BY <1>0, <1>5 DEF ServerAnswersLaunch, Typed
  <2> QED BY <1>5, <2>1 DEF LaunchStep
<1>6. ASSUME NEW t \in Tabs, NEW due, sync' = [sync EXCEPT ![t].due = due] PROVE Goal
  <2>1. /\ sync'[t] = [sync[t] EXCEPT !.due = due] /\ sync[t] \in Attempt
        /\ \A o \in Tabs \ {t} : sync'[o] = sync[o]
    BY <1>0, <1>6 DEF Typed
  <2>2. /\ sync'[t].phase = sync[t].phase /\ sync'[t].user = sync[t].user
        /\ sync'[t].offer = sync[t].offer /\ sync'[t].bank = sync[t].bank
    BY <2>1 DEF Attempt
  <2> QED BY <2>1, <2>2 DEF LaunchStep
<1>7. ASSUME NEW t \in Tabs, NEW result, Conclude(t, result) PROVE Goal
  BY <1>3, <1>7 DEF Conclude, Finish
<1> HIDE DEF Goal
<1>8. CASE Server \/ Others \/ Store
  BY <1>1, <1>5, <1>8 DEF Server, ServerExecutes, ServerImports, Others,
     OthersCommand, OthersImport, OperatorActivates, OperatorRollsBack, OperatorBacksUp,
     OperatorRestores, Store, LocalCommand, LocalCommandRefused, SeesSavedBank, SendCommand,
     SendFindsOtherSession, CommandAnswered, CommandFails
<1>9. CASE Launch
  <2>1. ASSUME NEW t \in Tabs, SyncStart(t) PROVE Goal
    <3> DEFINE s == [Resting(TRUE) EXCEPT !.phase = "asked", !.serial = session[t].serial,
                                          !.user = session[t].user]
    <3>1. s.phase = "asked" /\ s.bank = none
      BY DEF Resting
    <3>2. sync' = [sync EXCEPT ![t] = s]
      BY <2>1 DEF SyncStart
    <3> HIDE DEF s
    <3> QED BY <1>2, <3>1, <3>2
  <2>2. ASSUME NEW t \in Tabs,
               SyncFindsOtherSession(t) \/ SyncFindsOtherScope(t) \/ SyncFails(t)
        PROVE  Goal
    BY <1>3, <2>2 DEF SyncFindsOtherSession, SyncFindsOtherScope, SyncFails
  <2>3. ASSUME NEW t \in Tabs, SyncLocally(t) PROVE Goal
    BY <1>3, <2>3 DEF SyncLocally, Finish
  <2>4. ASSUME NEW t \in Tabs, SyncAdopts(t) PROVE Goal
    BY <1>7, <2>4 DEF SyncAdopts
  <2>5. ASSUME NEW c \in calls, ImportAnswered(c) \/ ImportRefused(c) PROVE Goal
    BY <1>0, <1>3, <1>7, <2>5 DEF ImportAnswered, ImportRefused
  <2> QED BY <1>4, <1>9, <2>1, <2>2, <2>3, <2>4, <2>5 DEF Launch, SyncSteps
<1>10. CASE Host
  <2>1. ASSUME NEW t \in Tabs, Approve(t) PROVE Goal
    BY <1>6, <2>1 DEF Approve
  <2>2. ASSUME NEW t \in Tabs, SwitchSession(t) \/ NoticeSession(t) \/ Reload(t) PROVE Goal
    BY <1>1, <1>3, <2>2 DEF SwitchSession, NoticeSession, Reload
  <2> QED BY <1>10, <2>1, <2>2 DEF Host
<1>11. CASE UNCHANGED clientVars
  BY <1>1, <1>11 DEF clientVars
<1> QED BY <1>8, <1>9, <1>10, <1>11 DEF Next

\* What becomes of a call, and where it comes from.
Alike(d, c) == d.tab = c.tab /\ d.kind = c.kind /\ d.user = c.user /\ d.ops = c.ops

CallStep(d) ==
  \/ d \in calls
  \/ ~d.live /\ \E c \in calls : Alike(d, c) /\ d.answer = c.answer
  \/ \E c \in calls : /\ Alike(d, c) /\ d.live = c.live /\ d.answer = server'[c.user]
                      /\ ServerExecutes(c) \/ ServerImports(c)
  \/ d.answer = none /\ \E t \in Tabs :
       /\ Alike(d, Call(t, "command", {Len(made')}))
       /\ SendCommand(t)
  \/ d.answer = none /\ \E t \in Tabs :
       /\ Alike(d, Call(t, "import", MutationBase(t).ops))
       /\ SyncImports(t) /\ MutationBase(t).owner = sync[t].user /\ Same(t, tab[t].proved)
       /\ calls' = calls \cup {d} /\ sync'[t].phase = "importing"

LEMMA CallKinds ==
  ASSUME ClientInv, [Next]_clientVars
  PROVE  \A d \in calls' : CallStep(d)
<1> DEFINE Goal == \A d \in calls' : CallStep(d)
<1> SUFFICES Goal
  OBVIOUS
<1>0. Typed /\ \A c \in calls : c \in Sent
  BY DEF ClientInv, Typed
<1>1. ASSUME calls' \subseteq calls PROVE Goal
  BY <1>1 DEF CallStep
<1>2. ASSUME NEW c \in calls, calls' \subseteq calls \cup {[c EXCEPT !.live = FALSE]} PROVE Goal
  <2> DEFINE d == [c EXCEPT !.live = FALSE]
  <2>1. Alike(d, c) /\ d.answer = c.answer /\ ~d.live
    BY <1>0 DEF Alike, Sent
  <2> HIDE DEF d
  <2> QED BY <1>2, <2>1 DEF CallStep, d
<1>3. ASSUME NEW t \in Tabs, NEW kinds, calls' = Orphaned(t, kinds) PROVE Goal
  <2> SUFFICES ASSUME NEW d \in calls', d \notin calls PROVE CallStep(d)
    BY DEF CallStep
  <2>1. PICK c \in calls : d = [c EXCEPT !.live = FALSE]
    BY <1>3 DEF Orphaned, Awaited
  <2>2. Alike(d, c) /\ d.answer = c.answer /\ ~d.live
    BY <1>0, <2>1 DEF Alike, Sent
  <2> QED BY <2>2 DEF CallStep
<1>4. ASSUME NEW c \in calls, ServerExecutes(c) \/ ServerImports(c) PROVE Goal
  <2> DEFINE r == server'[c.user]
             d == [c EXCEPT !.answer = r]
  <2>1. calls' \subseteq calls \cup {d}
    BY <1>4 DEF ServerExecutes, ServerImports
  <2>2. Alike(d, c) /\ d.live = c.live /\ d.answer = r
    <3> HIDE DEF r
    <3> QED BY <1>0 DEF Alike, Sent
  <2> HIDE DEF d
  <2> QED BY <1>4, <2>1, <2>2 DEF CallStep
<1>5. ASSUME NEW t \in Tabs, SendCommand(t) PROVE Goal
  <2> DEFINE d == Call(t, "command", {Len(made')})
  <2>1. calls' = calls \cup {d}
    BY <1>5 DEF SendCommand
  <2>2. d.answer = none /\ Alike(d, d)
    BY DEF Call, Alike
  <2> QED BY <1>5, <2>1, <2>2 DEF CallStep
<1>6. ASSUME NEW t \in Tabs, SyncImports(t) PROVE Goal
  <2>1. CASE UNCHANGED calls
    BY <1>1, <2>1
  <2>2. CASE ~UNCHANGED calls
    <3> DEFINE d == Call(t, "import", MutationBase(t).ops)
    <3>1. /\ calls' = calls \cup {d} /\ Goto(t, "importing")
          /\ MutationBase(t).owner = sync[t].user /\ Same(t, tab[t].proved)
      <4>1. [tab[t] EXCEPT !.gateway = FALSE, !.mode = "read_only", !.asks = FALSE].proved
            = tab[t].proved
        BY <1>0 DEF Typed, Memory
      <4> QED BY <1>6, <2>2, <4>1 DEF SyncImports
    <3>2. d.answer = none /\ Alike(d, d)
      BY DEF Call, Alike
    <3>3. sync'[t].phase = "importing"
      BY <1>0, <3>1 DEF Goto, Typed, Attempt
    <3> HIDE DEF d
    <3> QED BY <1>6, <3>1, <3>2, <3>3 DEF CallStep, d
  <2> QED BY <2>1, <2>2
<1> HIDE DEF Goal
<1>7. CASE Server
  <2>1. ASSUME NEW t \in Tabs, ServerAnswersLaunch(t) PROVE Goal
    BY <1>1, <2>1 DEF ServerAnswersLaunch
  <2> QED BY <1>4, <1>7, <2>1 DEF Server
<1>8. CASE Others
  BY <1>1, <1>8 DEF Others, OthersCommand, OthersImport, OperatorActivates, OperatorRollsBack,
     OperatorBacksUp, OperatorRestores
<1>9. CASE Store
  <2>1. ASSUME NEW t \in Tabs,
               \/ LocalCommand(t) \/ LocalCommandRefused(t) \/ SeesSavedBank(t)
               \/ SendFindsOtherSession(t)
        PROVE  Goal
    BY <1>1, <2>1 DEF LocalCommand, LocalCommandRefused, SeesSavedBank, SendFindsOtherSession
  <2>2. ASSUME NEW c \in calls, CommandAnswered(c) \/ CommandFails(c) PROVE Goal
    <3>1. calls' \subseteq calls \cup {[c EXCEPT !.live = FALSE]}
      BY <2>2 DEF CommandAnswered, CommandFails
    <3> QED BY <1>2, <3>1
  <2> QED BY <1>5, <1>9, <2>1, <2>2 DEF Store
<1>10. CASE Launch
  <2>1. ASSUME NEW t \in Tabs,
               \/ SyncStart(t) \/ SyncFindsOtherSession(t) \/ Activate(t) \/ ApplyPreferences(t)
               \/ SyncFindsOtherScope(t) \/ SyncLocally(t) \/ SyncAdopts(t)
        PROVE  Goal
    BY <1>1, <2>1 DEF SyncStart, SyncFindsOtherSession, Activate, ApplyPreferences,
       SyncFindsOtherScope, SyncLocally, SyncAdopts
  <2>2. ASSUME NEW t \in Tabs, SyncFails(t) PROVE Goal
    BY <1>3, <2>2 DEF SyncFails
  <2>3. ASSUME NEW c \in calls, ImportAnswered(c) \/ ImportRefused(c) PROVE Goal
    BY <1>1, <2>3 DEF ImportAnswered, ImportRefused
  <2> QED BY <1>6, <1>10, <2>1, <2>2, <2>3 DEF Launch, SyncSteps
<1>11. CASE Host
  <2>1. ASSUME NEW t \in Tabs, Approve(t) \/ SwitchSession(t) PROVE Goal
    BY <1>1, <2>1 DEF Approve, SwitchSession
  <2>2. ASSUME NEW t \in Tabs, NoticeSession(t) \/ Reload(t) PROVE Goal
    BY <1>3, <2>2 DEF NoticeSession, Reload
  <2> QED BY <1>11, <2>1, <2>2 DEF Host
<1>12. CASE UNCHANGED clientVars
  BY <1>1, <1>12 DEF clientVars
<1> QED BY <1>7, <1>8, <1>9, <1>10, <1>11, <1>12 DEF Next

\* What the server's ledgers become: one of them gets its next revision, or its first, or
\* an operator restores the backup in a new generation.
NextRevision(u) ==
  /\ epoch' = epoch /\ backup' = backup /\ server'[u] # none
  /\ \A v \in Users \ {u} : server'[v] = server[v]
  /\ server[u] # none => /\ server'[u].epoch = server[u].epoch
                         /\ server'[u].revision = server[u].revision + 1
                         /\ server[u].ops \subseteq server'[u].ops
  /\ server[u] = none => /\ server'[u].epoch = epoch
                         /\ \/ \E c \in calls : c.kind = "import" /\ c.user = u
                            \/ server'[u].ops = {Len(made) + 1}

Restored ==
  /\ epoch' = epoch + 1 /\ backup' = server'
  /\ \A u \in Users : server'[u] # none =>
       /\ server'[u].epoch = epoch'
       /\ backup[u] # none /\ server'[u].ops = backup[u].ops

ServerStep ==
  \/ epoch' = epoch /\ server' = server /\ backup' \in {backup, server}
  \/ UNCHANGED <<tab, bank, marker, receipt>> /\ ((\E u \in Users : NextRevision(u)) \/ Restored)

LEMMA ServerKinds ==
  ASSUME ClientInv, [Next]_clientVars
  PROVE  ServerStep
<1>0. /\ Typed /\ (\A c \in calls : c \in Sent) /\ epoch \in Nat
      /\ server \in [Users -> Ledgers] /\ backup \in [Users -> Ledgers]
  BY Limits DEF ClientInv, Typed
<1>1. ASSUME UNCHANGED remote PROVE ServerStep
  BY <1>1 DEF ServerStep, remote
<1>2. ASSUME NEW u \in Users, NEW ops \in SUBSET Ops, HasRoom(u), epoch' = epoch, backup' = backup,
             server' = [server EXCEPT ![u] = Commanded(@, ops)],
             UNCHANGED <<tab, bank, marker, receipt>>
      PROVE  ServerStep
  <2>1. /\ server[u] \in Revisions /\ Commanded(server[u], ops) \in Revisions
        /\ server[u] # none /\ Commanded(server[u], ops) # none
    BY <1>0, <1>2, LedgerTypes, Limits DEF HasRoom
  <2>2. server'[u] = Commanded(server[u], ops) /\ \A v \in Users \ {u} : server'[v] = server[v]
    BY <1>0, <1>2
  <2>3. /\ Commanded(server[u], ops).epoch = server[u].epoch
        /\ Commanded(server[u], ops).revision = server[u].revision + 1
        /\ Commanded(server[u], ops).ops = server[u].ops \cup ops
    BY <2>1 DEF Commanded, Revisions
  <2>4. NextRevision(u)
    BY <1>2, <2>1, <2>2, <2>3 DEF NextRevision
  <2> QED BY <1>2, <2>4 DEF ServerStep
<1>3. ASSUME NEW u \in Users, NEW ops \in SUBSET Ops, server[u] = none, epoch' = epoch,
             backup' = backup, UNCHANGED <<tab, bank, marker, receipt>>,
             server' = [server EXCEPT ![u] = [epoch |-> epoch, revision |-> 1, ops |-> ops]],
             (\E c \in calls : c.kind = "import" /\ c.user = u) \/ ops = {Len(made) + 1}
      PROVE  ServerStep
  <2> DEFINE r == [epoch |-> epoch, revision |-> 1, ops |-> ops]
  <2>1. r \in Revisions /\ r.epoch = epoch /\ r.ops = ops
    BY <1>0, Limits DEF Typed, Revisions
  <2>2. server'[u] = r /\ (\A v \in Users \ {u} : server'[v] = server[v])
    BY <1>0, <1>3
  <2> HIDE DEF r
  <2>3. NextRevision(u)
    BY <1>3, <2>1, <2>2, Limits DEF NextRevision
  <2> QED BY <1>3, <2>3 DEF ServerStep
<1>4. ASSUME NEW c \in calls, ServerExecutes(c) \/ ServerImports(c) PROVE ServerStep
  <2>1. c \in Sent /\ c.user \in Users /\ c.ops \in SUBSET Ops
    BY <1>0 DEF Sent
  <2>2. UNCHANGED <<tab, bank, marker, receipt>> /\ epoch' = epoch /\ backup' = backup
    BY <1>4 DEF ServerExecutes, ServerImports, device
  <2>3. CASE ServerExecutes(c)
    BY <1>2, <2>1, <2>2, <2>3 DEF ServerExecutes
  <2>4. CASE ServerImports(c)
    <3>1. \E d \in calls : d.kind = "import" /\ d.user = c.user
      BY <2>4 DEF ServerImports
    <3> QED BY <1>3, <2>1, <2>2, <2>4, <3>1 DEF ServerImports
  <2> QED BY <1>4, <2>3, <2>4
<1>5. ASSUME NEW u \in Users, OthersCommand(u) \/ OthersImport(u) PROVE ServerStep
  <2>1. UNCHANGED <<tab, bank, marker, receipt>> /\ epoch' = epoch /\ backup' = backup
    BY <1>5 DEF OthersCommand, OthersImport, device
  <2>2. Len(made') = Len(made) + 1 /\ {Len(made')} \in SUBSET Ops
    <3>1. made \in Seq(Users) /\ Len(made) < MaxOps /\ made' = Append(made, u)
      BY <1>0, <1>5 DEF OthersCommand, OthersImport, Typed
    <3> QED BY <3>1, Limits DEF Ops
  <2>3. CASE OthersCommand(u)
    BY <1>2, <2>1, <2>2, <2>3 DEF OthersCommand
  <2>4. CASE OthersImport(u)
    BY <1>3, <2>1, <2>2, <2>4 DEF OthersImport
  <2> QED BY <1>5, <2>3, <2>4
<1>6. ASSUME OperatorRestores PROVE ServerStep
  <2>1. /\ UNCHANGED <<tab, bank, marker, receipt>> /\ epoch' = epoch + 1 /\ backup' = server'
        /\ server' = [u \in Users |-> IF backup[u] = none THEN none
                                      ELSE [backup[u] EXCEPT !.epoch = epoch']]
    BY <1>6 DEF OperatorRestores, device
  <2>2. ASSUME NEW u \in Users, server'[u] # none
        PROVE  server'[u].epoch = epoch' /\ backup[u] # none /\ server'[u].ops = backup[u].ops
    <3>1. backup[u] # none /\ server'[u] = [backup[u] EXCEPT !.epoch = epoch']
      BY <2>1, <2>2
    <3>2. backup[u] \in Revisions
      BY <1>0, <3>1 DEF Ledgers
    <3> QED BY <3>1, <3>2 DEF Revisions
  <2>3. Restored
    BY <2>1, <2>2 DEF Restored
  <2> QED BY <2>1, <2>3 DEF ServerStep
<1>7. CASE Server \/ Others
  <2>1. ASSUME NEW t \in Tabs, ServerAnswersLaunch(t) PROVE ServerStep
    BY <1>1, <2>1 DEF ServerAnswersLaunch
  <2>2. ASSUME OperatorActivates \/ OperatorRollsBack \/ OperatorBacksUp PROVE ServerStep
    BY <2>2 DEF OperatorActivates, OperatorRollsBack, OperatorBacksUp, ServerStep
  <2> QED BY <1>4, <1>5, <1>6, <1>7, <2>1, <2>2 DEF Server, Others
<1>8. CASE Store
  BY <1>1, <1>8 DEF Store, LocalCommand, LocalCommandRefused, SeesSavedBank, SendCommand,
     SendFindsOtherSession, CommandAnswered, CommandFails
<1>9. CASE Launch
  BY <1>1, <1>9 DEF Launch, SyncSteps, SyncStart, SyncFails, SyncFindsOtherSession, Activate,
     ApplyPreferences, SyncFindsOtherScope, SyncLocally, SyncImports, SyncAdopts,
     ImportAnswered, ImportRefused
<1>10. CASE Host
  BY <1>1, <1>10 DEF Host, Approve, SwitchSession, NoticeSession, Reload
<1>11. CASE UNCHANGED clientVars
  BY <1>1, <1>11 DEF clientVars
<1> QED BY <1>7, <1>8, <1>9, <1>10, <1>11 DEF Next

-----------------------------------------------------------------------------
(* The revisions of a ledger form one line.                                *)

\* What a receipt vouches for.
Vouches(r) == [epoch |-> r.epoch, revision |-> r.revision, ops |-> r.ops]

\* The revisions of the ledger of a user that anyone has in hand.
Heard(u, r) ==
  /\ r # none
  /\ \/ r = server[u]
     \/ \E c \in calls : c.user = u /\ c.answer = r
     \/ \E t \in Tabs : sync[t].user = u /\ sync[t].bank = r
     \/ receipt[u] # none /\ r = Vouches(receipt[u])

\* Nothing is heard that was not heard before or is the server's now.
LEMMA HeardBefore ==
  ASSUME ClientInv, [Next]_clientVars, NEW u \in Users, NEW r, Heard(u, r)'
  PROVE  Heard(u, r) \/ r = server'[u]
<1>0. r # none /\ Typed
  BY DEF Heard, ClientInv
<1>1. ASSUME NEW d \in calls', d.user = u, d.answer = r PROVE Heard(u, r) \/ r = server'[u]
  <2>1. CallStep(d)
    BY CallKinds
  <2> QED BY <1>0, <1>1, <2>1 DEF CallStep, Alike, Heard
<1>2. ASSUME NEW t \in Tabs, sync'[t].user = u, sync'[t].bank = r PROVE Heard(u, r)
  <2>1. LaunchStep(t)
    BY LaunchKinds
  <2>2. CASE ServerAnswersLaunch(t)
    <3>1. sync[t] \in Attempt
      BY <1>0 DEF Typed
    <3>2. /\ sync'[t].user = sync[t].user
          /\ sync'[t].bank = IF active THEN server[sync[t].user] ELSE none
      BY <1>0, <2>2, <3>1 DEF ServerAnswersLaunch, Typed, Attempt
    <3> QED BY <1>0, <1>2, <3>2 DEF Heard
  <2>3. CASE Activate(t) \/ ApplyPreferences(t) \/ SyncImports(t)
    <3>1. Resting(TRUE).bank = none
      BY DEF Resting
    <3>2. \/ sync'[t] = Resting(TRUE)
          \/ sync'[t].user = sync[t].user /\ sync'[t].bank = sync[t].bank
      BY <1>0, <2>3, LaunchFacts
    <3> QED BY <1>0, <1>2, <3>1, <3>2 DEF Heard
  <2> QED BY <1>0, <1>2, <2>1, <2>2, <2>3 DEF LaunchStep, Heard
<1>3. ASSUME receipt'[u] # none, r = Vouches(receipt'[u]) PROVE Heard(u, r)
  <2>1. CASE receipt'[u] = receipt[u]
    BY <1>0, <1>3, <2>1 DEF Heard
  <2>2. CASE receipt'[u] # receipt[u]
    <3>1. DeviceStep
      BY Kinds
    <3>2. PICK t \in Tabs, n \in 0..3 : \E d : Saves(t, d, n)
      BY <2>2, <3>1 DEF DeviceStep, LocalCommand, Activate, ApplyPreferences, SyncImports
    <3>3. PICK c : Saves(t, c, n)
      BY <3>2
    <3>4. Answer(c) /\ c.user = u /\ receipt'[u] = Advanced(receipt[u], c.answer)
      BY <1>0, <2>2, <3>3, TakenAnswer DEF Saves, Writes, Typed, Answer
    <3>5. c.answer \in Revisions /\ Vouches(receipt'[u]) = c.answer
      <4>1. c.answer \in Revisions
        BY <3>4 DEF Answer
      <4>2. c.answer = Vouches(c.answer)
        BY <4>1 DEF Revisions, Vouches
      <4>3. Vouches(Advanced(receipt[u], c.answer)) = Vouches(c.answer)
        BY DEF Advanced, Vouches
      <4> QED BY <3>4, <4>1, <4>2, <4>3
    <3>6. Heard(u, c.answer)
      BY <1>0, <1>3, <3>3, <3>4, <3>5 DEF Saves, Taken, Awaited, Offered, Heard
    <3> QED BY <1>3, <3>5, <3>6
  <2> QED BY <2>1, <2>2
<1> QED BY <1>1, <1>2, <1>3 DEF Heard

\* The server's ledger is of its generation; nobody has a later revision of it, nor one of
\* a later generation; and of two revisions of a generation the later one contains the other.
InLine(u) ==
  /\ server[u] # none => server[u].epoch = epoch
  /\ \A r : Heard(u, r) =>
       /\ r.epoch <= epoch
       /\ r.epoch = epoch => server[u] # none /\ r.revision <= server[u].revision
  /\ \A r, s : /\ Heard(u, r) /\ Heard(u, s)
               /\ r.epoch = s.epoch /\ r.revision <= s.revision
               => r.ops \subseteq s.ops

LEMMA HeardTyped ==
  ASSUME ClientInv, NEW u \in Users
  PROVE  /\ \A r : Heard(u, r) => r \in Revisions /\ r.epoch \in Nat /\ r.revision \in Nat
         /\ epoch \in Nat /\ server[u] \in Ledgers
<1>0. Typed
  BY DEF ClientInv
<1>1. ASSUME NEW r, Heard(u, r) PROVE r \in Revisions
  <2>1. CASE r = server[u]
    BY <1>0, <1>1, <2>1 DEF Heard, Typed, Ledgers
  <2>2. CASE \E c \in calls : c.user = u /\ c.answer = r
    BY <1>0, <1>1, <2>2 DEF Heard, Typed, Sent
  <2>3. CASE \E t \in Tabs : sync[t].user = u /\ sync[t].bank = r
    <3>1. \A t \in Tabs : sync[t] \in Attempt
      BY <1>0 DEF Typed
    <3> QED BY <1>1, <2>3, <3>1 DEF Heard, Attempt
  <2>4. CASE receipt[u] # none /\ r = Vouches(receipt[u])
    <3>1. receipt[u] \in Receipts
      BY <1>0, <2>4 DEF Typed
    <3> QED BY <2>4, <3>1 DEF Receipts, Revisions, Vouches
  <2> QED BY <1>1, <2>1, <2>2, <2>3, <2>4 DEF Heard
<1>2. ASSUME NEW r \in Revisions PROVE r.epoch \in Nat /\ r.revision \in Nat
  BY <1>2, Limits DEF Revisions
<1>3. epoch \in Nat /\ server[u] \in Ledgers
  BY <1>0, Limits DEF Typed
<1> QED BY <1>1, <1>2, <1>3

LEMMA LineGrows ==
  ASSUME ClientInv, [Next]_clientVars, NEW u \in Users, InLine(u)
  PROVE  InLine(u)'
<1>1. PICK now : now = server'[u]
  OBVIOUS
<1>0. ClientInv'
  BY NextClient
<1>2. \A r : Heard(u, r)' => Heard(u, r) \/ r = now
  BY <1>1, HeardBefore
<1>3. /\ \A r : Heard(u, r) => r.epoch \in Nat /\ r.revision \in Nat
      /\ epoch \in Nat
  BY HeardTyped
<1>4. server[u] # none => Heard(u, server[u])
  BY DEF Heard
<1>5. \A r : Heard(u, r)' => r # none
  BY DEF Heard
<1>6. ServerStep
  BY ServerKinds
<1>7. CASE epoch' = epoch /\ now = server[u]
  <2>1. \A r : Heard(u, r)' => Heard(u, r)
    BY <1>2, <1>4, <1>5, <1>7
  <2>2. server'[u] = server[u]
    BY <1>7, <1>1
  <2> QED BY <1>7, <2>1, <2>2 DEF InLine
<1>8. CASE NextRevision(u)
  <2>1. epoch' = epoch /\ now # none /\ now.epoch = epoch
    BY <1>8, <1>1 DEF NextRevision, InLine
  <2>2. ASSUME NEW r, Heard(u, r), r.epoch = epoch
        PROVE  /\ server[u] # none /\ r.revision < now.revision
               /\ r.ops \subseteq now.ops
    <3>1. server[u] # none /\ r.revision <= server[u].revision
      BY <2>2 DEF InLine
    <3>2. server[u].epoch = epoch /\ now.revision = server[u].revision + 1
          /\ server[u].ops \subseteq now.ops
      BY <1>8, <1>1, <3>1 DEF NextRevision, InLine
    <3>3. r.ops \subseteq server[u].ops
      BY <1>4, <2>2, <3>1, <3>2 DEF InLine
    <3>4. server[u].revision \in Nat /\ r.revision \in Nat
      BY <1>3, <1>4, <2>2, <3>1
    <3> QED BY <3>1, <3>2, <3>3, <3>4
  <2>4. now.revision \in Nat
    BY <1>0, <1>1, <2>1, Limits DEF ClientInv, Typed, Ledgers, Revisions
  <2>5. ASSUME NEW r, Heard(u, r)'
        PROVE  r.epoch <= epoch /\ (r.epoch = epoch => r.revision <= now.revision)
    BY <1>2, <1>3, <2>1, <2>2, <2>4, <2>5 DEF InLine
  <2>6. ASSUME NEW r, NEW s, Heard(u, r)', Heard(u, s)', r.epoch = s.epoch, r.revision <= s.revision
        PROVE  r.ops \subseteq s.ops
    <3>1. CASE Heard(u, r) /\ Heard(u, s)
      BY <2>6, <3>1 DEF InLine
    <3>2. CASE s = now /\ Heard(u, r)
      BY <2>1, <2>2, <2>6, <3>2
    <3>3. CASE r = now /\ Heard(u, s)
      BY <1>3, <2>1, <2>2, <2>4, <2>6, <3>3
    <3>4. CASE r = now /\ s = now
      BY <3>4
    <3> QED BY <1>2, <2>6, <3>1, <3>2, <3>3, <3>4
  <2> QED BY <1>1, <2>1, <2>5, <2>6 DEF InLine
<1>9. CASE Restored
  <2>1. epoch' = epoch + 1 /\ (now # none => now.epoch = epoch')
    BY <1>9, <1>1 DEF Restored
  <2>2. ASSUME NEW r, Heard(u, r)' PROVE (Heard(u, r) /\ r.epoch < epoch') \/ (r = now /\ now # none)
    BY <1>2, <1>3, <1>5, <2>1, <2>2 DEF InLine
  <2>3. \A r : Heard(u, r)' => r.epoch <= epoch' /\ (r.epoch = epoch' => r = now /\ now # none)
    BY <1>3, <2>1, <2>2
  <2>4. now # none => now.revision \in Nat
    BY <1>0, <1>1, Limits DEF ClientInv, Typed, Ledgers, Revisions
  <2>5. ASSUME NEW r, NEW s, Heard(u, r)', Heard(u, s)', r.epoch = s.epoch, r.revision <= s.revision
        PROVE  r.ops \subseteq s.ops
    <3>1. (r = now /\ s = now) \/ (Heard(u, r) /\ Heard(u, s))
      BY <1>3, <2>1, <2>2, <2>5
    <3> QED BY <2>5, <3>1 DEF InLine
  <2>7. \A r : Heard(u, r)' /\ r.epoch = epoch' => now # none /\ r.revision <= now.revision
    BY <2>3, <2>4
  <2> QED BY <1>1, <2>1, <2>3, <2>5, <2>7 DEF InLine
<1> QED BY <1>6, <1>7, <1>8, <1>9, <1>1 DEF ServerStep, NextRevision

-----------------------------------------------------------------------------
(* The steps that write what a device keeps.                               *)

\* What the first n writes of an adoption leave.
LEMMA SavesFacts ==
  ASSUME ClientInv, NEW t \in Tabs, NEW c, NEW n \in 0..3, Saves(t, c, n)
  PROVE  LET u == c.user IN
         /\ u \in Users /\ tab[t].scope = u /\ c.answer \in Revisions /\ Heard(u, c.answer)
         /\ Decision(receipt[u], c.answer) \in {"newer", "current"} /\ ~NeedsApproval(t, c)
         /\ n >= 1 => marker'[u]
         /\ \A v \in Users : /\ marker'[v] = (marker[v] \/ (v = u /\ n >= 1))
                             /\ bank'[v] = (IF v = u /\ n >= 2 THEN c.answer.ops ELSE bank[v])
                             /\ receipt'[v] = (IF v = u /\ n = 3 THEN Advanced(receipt[u], c.answer)
                                               ELSE receipt[v])
         /\ Advanced(receipt[u], c.answer) # none
         /\ Vouches(Advanced(receipt[u], c.answer)) = c.answer
         /\ DeviceGrows
<1> DEFINE u == c.user
           adv == Advanced(receipt[u], c.answer)
<1>0. /\ bank \in [Users -> Banks] /\ marker \in [Users -> BOOLEAN]
      /\ receipt \in [Users -> Receipts \cup {none}]
  BY DEF ClientInv, Typed
<1>1. Answer(c) /\ u \in Users /\ c.answer \in Revisions
  BY TakenAnswer DEF Saves, Answer
<1>2. /\ tab[t].scope = u /\ Decision(receipt[u], c.answer) \in {"newer", "current"}
      /\ ~NeedsApproval(t, c)
  BY DEF Saves, Acceptable, Scope
<1>3. c.answer # none
  BY <1>1, Limits
<1>4. Heard(u, c.answer)
  <2>1. CASE c \in Awaited(t)
    BY <1>3, <2>1 DEF Awaited, Heard
  <2>2. CASE c = Offered(t)
    BY <1>3, <2>2 DEF Offered, Heard
  <2> QED BY <2>1, <2>2 DEF Saves, Taken
<1>5. adv \in Receipts /\ adv # none
  <2>1. receipt[u] \in Receipts \cup {none}
    BY <1>0, <1>1
  <2>2. receipt[u] # none => receipt[u].epoch \notin ToSet(receipt[u].retired)
    BY <1>1 DEF ClientInv, Vouched
  <2> QED BY <1>1, <1>2, <2>1, <2>2, AdvancedFacts
<1>6. Vouches(adv) = c.answer
  <2>1. c.answer = Vouches(c.answer)
    BY <1>1 DEF Revisions, Vouches
  <2>2. Vouches(adv) = Vouches(c.answer)
    BY DEF Advanced, Vouches
  <2> QED BY <2>1, <2>2
<1>7. /\ marker' = IF n >= 1 THEN [marker EXCEPT ![u] = TRUE] ELSE marker
      /\ bank' = IF n >= 2 THEN [bank EXCEPT ![u] = c.answer.ops] ELSE bank
      /\ receipt' = IF n = 3 THEN [receipt EXCEPT ![u] = adv] ELSE receipt
  BY DEF Saves, Writes
<1>8. DeviceGrows
  BY <1>1, <1>2, WritesFacts DEF Saves, DeviceSound
<1> HIDE DEF adv, u
<1>9. \A v \in Users : /\ marker'[v] = (marker[v] \/ (v = u /\ n >= 1))
                       /\ bank'[v] = (IF v = u /\ n >= 2 THEN c.answer.ops ELSE bank[v])
                       /\ receipt'[v] = (IF v = u /\ n = 3 THEN adv ELSE receipt[v])
  BY <1>0, <1>1, <1>7
<1>10. n >= 1 => marker'[u]
  BY <1>0, <1>1, <1>7
<1> QED BY <1>1, <1>2, <1>4, <1>5, <1>6, <1>8, <1>9, <1>10 DEF u, adv

\* A launch that has the lock runs for a user.
LEMMA RunningUser ==
  ASSUME ClientInv, NEW t \in Tabs, sync[t].phase # "idle"
  PROVE  sync[t].user \in Users /\ sync[t].user # none
BY Limits DEF ClientInv, TabInv, Runs

\* What is on the device stays there, in some version.
LEMMA DeviceStays ==
  ASSUME ClientInv, [Next]_clientVars, NEW u \in Users
  PROVE  /\ marker[u] => marker'[u]
         /\ receipt[u] # none => receipt'[u] # none
         /\ bank[u] # none => bank'[u] # none
<1>0. Typed /\ ClientInv'
  BY NextClient DEF ClientInv
<1>1. DeviceStep
  BY Kinds
<1>2. CASE UNCHANGED <<bank, marker, receipt>>
  BY <1>2
<1>3. ASSUME NEW t \in Tabs, LocalCommand(t) \/ ApplyPreferences(t)
      PROVE  UNCHANGED <<marker, receipt>> /\ (bank[u] # none => bank'[u] # none)
  <2>1. UNCHANGED <<marker, receipt>>
    BY <1>3 DEF LocalCommand, ApplyPreferences
  <2>2. ASSUME NEW T, NEW base, NEW saved, Commit(t, T, base, saved), base.ops \in SUBSET Ops
        PROVE  bank[u] # none => bank'[u] # none
    BY <1>0, <2>2, Limits DEF Commit, Typed
  <2>3. MutationBase(t).ops \in SUBSET Ops
    BY BaseFacts
  <2>4. CASE LocalCommand(t)
    <3> DEFINE base == [MutationBase(t) EXCEPT !.ops = @ \cup {Len(made')}]
    <3>1. base.ops \in SUBSET Ops
      <4>1. base.ops = MutationBase(t).ops \cup {Len(made')}
        BY BaseFacts
      <4>2. Len(made') \in Ops
        <5>1. made \in Seq(Users) /\ Len(made) < MaxOps /\ made' = Append(made, Scope(t))
          BY <1>0, <2>4 DEF LocalCommand, Typed
        <5> QED BY <5>1, Limits DEF Ops
      <4> HIDE DEF base
      <4> QED BY <2>3, <4>1, <4>2
    <3>2. \E saved : Commit(t, tab[t], base, saved)
      BY <2>4 DEF LocalCommand
    <3> HIDE DEF base
    <3> QED BY <2>1, <2>2, <3>1, <3>2
  <2>5. CASE ApplyPreferences(t)
    <3> DEFINE old == MutationBase(t)
               base == [owner |-> sync[t].user,
                        ops |-> IF tab[t].fresh \/ old.owner \notin {none, sync[t].user} THEN {}
                                ELSE old.ops]
    <3>1. base.ops \in SUBSET Ops
      BY <2>3
    <3>2. \E T, saved : Commit(t, T, base, saved)
      BY <2>5 DEF ApplyPreferences
    <3> HIDE DEF base
    <3> QED BY <2>1, <2>2, <3>1, <3>2
  <2> QED BY <1>3, <2>1, <2>4, <2>5
<1>4. ASSUME NEW t \in Tabs, Activate(t)
      PROVE  UNCHANGED <<marker, receipt>> /\ (bank[u] # none => bank'[u] # none)
  <2>1. UNCHANGED <<marker, receipt>> /\ bank' = [bank EXCEPT ![sync[t].user] = Migrated(sync[t].user)]
    BY <1>4 DEF Activate
  <2> QED BY <1>0, <2>1 DEF Typed, Migrated
<1>5. ASSUME NEW t \in Tabs, SyncImports(t)
      PROVE  UNCHANGED <<bank, receipt>> /\ (marker[u] => marker'[u])
  BY <1>0, <1>5 DEF SyncImports, Typed
<1>6. ASSUME NEW t \in Tabs, NEW n \in 0..3, NEW c, Saves(t, c, n)
      PROVE  /\ marker[u] => marker'[u]
             /\ receipt[u] # none => receipt'[u] # none
             /\ bank[u] # none => bank'[u] # none
  <2>1. DeviceGrows
    BY <1>6, SavesFacts
  <2>2. bank[u] # none => bank'[u] # none
    <3>1. c.answer.ops \in SUBSET Ops
      BY <1>6, SavesFacts DEF Revisions
    <3> QED BY <1>6, <3>1, SavesFacts, Limits
  <2> QED BY <2>1, <2>2 DEF DeviceGrows
<1> QED BY <1>1, <1>2, <1>3, <1>4, <1>5, <1>6 DEF DeviceStep

\* What a tab shows is of the user it is for, and is saved and not waiting to be written.
OwnerSaved(t) ==
  tab[t].owner # none => /\ tab[t].owner = tab[t].scope
                         /\ bank[tab[t].scope] # none /\ ~tab[t].dirty

\* While a launch projects the preferences, memory differs from the saved bank only if
\* there is none; and no server has offered its ledger.
ReadyFor(t) ==
  sync[t].phase = "activated" =>
    /\ sync[t].offer # "server"
    /\ tab[t].scope = sync[t].user /\ (tab[t].dirty \/ tab[t].fresh) => bank[sync[t].user] = none

\* The base of a mutation: the saved bank, or what a tab without an owner shows.
LEMMA BaseCases ==
  ASSUME ClientInv, NEW t \in Tabs, OwnerSaved(t), tab[t].scope # none
  PROVE  LET u == tab[t].scope base == MutationBase(t) IN
         \/ ~tab[t].dirty /\ bank[u] # none /\ base.owner = u /\ base.ops = bank[u]
         \/ (tab[t].dirty \/ bank[u] = none) /\ base.owner = none /\ base.ops = tab[t].ops
BY DEF OwnerSaved, MutationBase, Scope

\* A local command: into the saved bank, or only into the memory of a tab without one.
LEMMA CommandFacts ==
  ASSUME ClientInv, NEW t \in Tabs, OwnerSaved(t), LocalCommand(t), refusals' = 0
  PROVE  LET u == tab[t].scope T == tab[t] R == tab'[t] n == Len(made) + 1 IN
         /\ u \in Users /\ u # none /\ ~marker[u] /\ receipt[u] = none
         /\ UNCHANGED <<marker, receipt>>
         /\ R.scope = u /\ R.fresh = T.fresh /\ R.unconfirmed = T.unconfirmed
         /\ \A v \in Users \ {u} : bank'[v] = bank[v]
         /\ \/ /\ T.dirty \/ bank[u] = none
               /\ bank' = bank /\ R.owner = none /\ R.dirty /\ R.ops = T.ops \cup {n}
            \/ /\ ~T.dirty /\ bank[u] # none
               /\ bank'[u] = bank[u] \cup {n} /\ R.ops = bank'[u]
               /\ R.owner = u /\ ~R.dirty
<1> DEFINE u == tab[t].scope
           T == tab[t]
           R == tab'[t]
           n == Len(made) + 1
           old == MutationBase(t)
           base == [old EXCEPT !.ops = @ \cup {Len(made')}]
<1>1. /\ Typed /\ T \in Memory /\ u \in Users /\ u # none /\ ~marker[u]
      /\ UNCHANGED <<marker, receipt>>
  BY Limits DEF LocalCommand, ClientInv, Typed, TabInv, Fits, Quiet, Memory, Scope
<1>2. receipt[u] = none
  BY <1>1 DEF ClientInv, Vouched
<1>3. Len(made') = n /\ n \in Ops
  <2>1. made \in Seq(Users) /\ Len(made) < MaxOps /\ made' = Append(made, u)
    BY <1>1 DEF LocalCommand, Typed, Scope
  <2> QED BY <2>1, Limits DEF Ops
<1>4. base.owner = old.owner /\ base.ops = old.ops \cup {n}
      /\ base.owner \in Users \cup {none} /\ base.ops \in SUBSET Ops
  <2>1. old = [owner |-> old.owner, ops |-> old.ops] /\ old.owner \in Users \cup {none}
        /\ old.ops \in SUBSET Ops
    BY BaseFacts
  <2> HIDE DEF old, n
  <2> QED BY <1>3, <2>1
<1>5. Commit(t, T, base, old.owner = u)
  <2>1. ~Refusal
    BY <1>1 DEF Refusal, Typed
  <2> QED BY <1>4, <2>1 DEF LocalCommand, Scope
<1>6. \/ ~T.dirty /\ bank[u] # none /\ old.owner = u /\ old.ops = bank[u]
      \/ (T.dirty \/ bank[u] = none) /\ old.owner = none /\ old.ops = T.ops
  BY <1>1, BaseCases
<1> HIDE DEF old, base, n
<1>7. /\ R.owner = base.owner /\ R.ops = base.ops /\ R.dirty = ~(old.owner = u)
      /\ R.scope = u /\ R.fresh = T.fresh /\ R.unconfirmed = T.unconfirmed
      /\ bank' = IF old.owner = u THEN [bank EXCEPT ![u] = base.ops] ELSE bank
  <2>1. R = [T EXCEPT !.owner = base.owner, !.ops = base.ops, !.dirty = ~(old.owner = u)]
        /\ bank' = IF old.owner = u THEN [bank EXCEPT ![u] = base.ops] ELSE bank
    BY <1>1, <1>5 DEF Commit, Typed
  <2>2. DOMAIN T = {"scope", "owner", "ops", "mode", "dirty", "fresh", "unconfirmed",
                    "approved", "asks", "gateway", "proved", "bound"}
    BY <1>1 DEF Memory
  <2> HIDE DEF R, T
  <2> QED BY <2>1, <2>2 DEF T
<1>8. \A v \in Users \ {u} : bank'[v] = bank[v]
  BY <1>1, <1>7 DEF Typed
<1>9. CASE ~T.dirty /\ bank[u] # none /\ old.owner = u /\ old.ops = bank[u]
  <2>1. bank'[u] = bank[u] \cup {n}
    BY <1>1, <1>4, <1>7, <1>9 DEF Typed
  <2> QED BY <1>1, <1>2, <1>4, <1>7, <1>8, <1>9, <2>1 DEF n
<1>10. CASE (T.dirty \/ bank[u] = none) /\ old.owner = none /\ old.ops = T.ops
  BY <1>1, <1>2, <1>4, <1>7, <1>8, <1>10 DEF n
<1> QED BY <1>6, <1>9, <1>10

\* Another tab's write comes in.
LEMMA SeesFacts ==
  ASSUME ClientInv, NEW t \in Tabs, SeesSavedBank(t)
  PROVE  LET u == tab[t].scope T == tab[t] R == tab'[t] IN
         /\ u \in Users /\ bank[u] # none
         /\ UNCHANGED <<bank, marker, receipt>>
         /\ R.scope = u /\ R.owner = u /\ R.ops = bank[u]
         /\ ~T.dirty /\ ~R.dirty /\ R.fresh = T.fresh /\ R.unconfirmed = T.unconfirmed
<1> DEFINE T == tab[t]
<1>1. /\ Typed /\ T \in Memory /\ T.scope \in Users
      /\ tab'[t] = [T EXCEPT !.owner = T.scope, !.ops = bank[T.scope]]
  BY Limits DEF SeesSavedBank, ClientInv, Typed, TabInv, Fits, Quiet, Memory, Scope
<1>2. ~T.dirty /\ bank[T.scope] # none /\ UNCHANGED <<bank, marker, receipt>>
  BY DEF SeesSavedBank, Scope, device
<1>3. DOMAIN T = {"scope", "owner", "ops", "mode", "dirty", "fresh", "unconfirmed",
                  "approved", "asks", "gateway", "proved", "bound"}
  BY <1>1 DEF Memory
<1> HIDE DEF T
<1> QED BY <1>1, <1>2, <1>3 DEF T

\* The launch lock is taken for the verified user.
LEMMA ActivateFacts ==
  ASSUME ClientInv, NEW t \in Tabs, OwnerSaved(t), Activate(t)
  PROVE  LET u == sync[t].user R == tab'[t] IN
         /\ u \in Users /\ sync[t].phase = "answered" /\ LaunchLockFree(t)
         /\ UNCHANGED <<marker, receipt>>
         /\ \A v \in Users \ {u} : bank'[v] = bank[v]
         /\ bank'[u] = bank[u] \/ (bank[u] = none /\ bank'[u] = {0})
         /\ R.scope = u /\ ~R.dirty
         /\ bank'[u] # none => /\ R.owner = u /\ R.ops = bank'[u] /\ ~R.fresh
                               /\ R.unconfirmed = (receipt[u] = none)
         /\ bank'[u] = none => R.owner = none /\ R.ops = {}
<1> DEFINE u == sync[t].user
           T == [tab[t] EXCEPT !.scope = u, !.proved = sync[t].serial, !.bound = sync[t].serial,
                   !.mode = IF tab[t].gateway THEN "server"
                            ELSE IF marker[u] THEN "read_only" ELSE "local"]
           R == tab'[t]
           was == receipt[u] = none
<1>1. /\ Typed /\ u \in Users /\ u # none /\ sync[t].phase = "answered" /\ LaunchLockFree(t)
      /\ UNCHANGED <<marker, receipt>>
  <2>1. sync[t].phase = "answered" /\ LaunchLockFree(t) /\ UNCHANGED <<marker, receipt>>
    BY DEF Activate
  <2> QED BY <2>1, RunningUser DEF ClientInv
<1>2. bank' = [bank EXCEPT ![u] = Migrated(u)] /\ bank'[u] = Migrated(u)
      /\ \A v \in Users \ {u} : bank'[v] = bank[v]
  BY <1>1 DEF Activate, Typed
<1>3. bank'[u] = bank[u] \/ (bank[u] = none /\ bank'[u] = {0})
  BY <1>2 DEF Migrated
<1>4. ~(tab[t].scope = u /\ tab[t].owner = u /\ tab[t].dirty)
  BY <1>1 DEF OwnerSaved
<1>5. R = IF bank'[u] # none
          THEN [T EXCEPT !.owner = u, !.ops = bank'[u], !.dirty = FALSE, !.fresh = FALSE,
                         !.unconfirmed = was, !.asks = FALSE]
          ELSE [T EXCEPT !.owner = none, !.ops = {}, !.dirty = FALSE, !.fresh = TRUE,
                         !.unconfirmed = FALSE, !.asks = FALSE]
  <2> DEFINE X == [T EXCEPT !.owner = u, !.ops = bank'[u], !.dirty = FALSE, !.fresh = FALSE,
                            !.unconfirmed = was, !.asks = FALSE]
             Y == [T EXCEPT !.owner = none, !.ops = {}, !.dirty = FALSE, !.fresh = TRUE,
                            !.unconfirmed = FALSE, !.asks = FALSE]
             unsaved == tab[t].scope = u /\ tab[t].owner = u /\ tab[t].dirty
  <2>1. tab' = [tab EXCEPT ![t] = IF unsaved THEN T
                                  ELSE IF ~unsaved /\ Migrated(u) # none THEN X ELSE Y]
    BY ZenonT(60) DEF Activate
  <2> HIDE DEF X, Y, T
  <2>2. tab' = [tab EXCEPT ![t] = IF Migrated(u) # none THEN X ELSE Y]
    BY <1>4, <2>1
  <2>3. R = IF Migrated(u) # none THEN X ELSE Y
    BY <1>1, <2>2 DEF Typed
  <2> QED BY <1>2, <2>3 DEF X, Y
<1>6. T.scope = u /\ DOMAIN T = {"scope", "owner", "ops", "mode", "dirty", "fresh",
                  "unconfirmed", "approved", "asks", "gateway", "proved", "bound"}
  BY <1>1 DEF Typed, Memory
<1> HIDE DEF T, R, was
<1>7. /\ R.scope = u /\ ~R.dirty
      /\ bank'[u] # none => R.owner = u /\ R.ops = bank'[u] /\ ~R.fresh /\ R.unconfirmed = was
      /\ bank'[u] = none => R.owner = none /\ R.ops = {}
  BY <1>5, <1>6
<1> QED BY <1>1, <1>2, <1>3, <1>7 DEF R, was

\* The preferences are projected onto the saved bank, or onto none.
LEMMA PreferencesFacts ==
  ASSUME ClientInv, NEW t \in Tabs, OwnerSaved(t), ReadyFor(t), ApplyPreferences(t), refusals' = 0
  PROVE  LET u == sync[t].user R == tab'[t] IN
         /\ u \in Users /\ sync[t].phase = "activated" /\ tab[t].scope = u
         /\ UNCHANGED <<marker, receipt>>
         /\ \A v \in Users \ {u} : bank'[v] = bank[v]
         /\ R.scope = u /\ R.owner = u /\ ~R.dirty /\ ~R.fresh /\ R.ops = bank'[u]
         /\ bank'[u] # none
         /\ bank[u] # none => bank'[u] = bank[u]
         /\ bank[u] = none => bank'[u] \subseteq tab[t].ops
<1> DEFINE u == sync[t].user
           old == MutationBase(t)
           base == [owner |-> u,
                    ops |-> IF tab[t].fresh \/ old.owner \notin {none, u} THEN {} ELSE old.ops]
           T == [tab[t] EXCEPT !.fresh = FALSE]
           R == tab'[t]
<1>1. /\ Typed /\ u \in Users /\ u # none /\ sync[t].phase = "activated" /\ tab[t].scope = u
      /\ UNCHANGED <<marker, receipt>>
  <2>1. sync[t].phase = "activated" /\ tab[t].scope = u /\ UNCHANGED <<marker, receipt>>
    BY DEF ApplyPreferences
  <2> QED BY <2>1, RunningUser DEF ClientInv
<1>2. Commit(t, T, base, TRUE)
  <2>1. ~Refusal
    BY <1>1 DEF Refusal, Typed
  <2> QED BY <2>1 DEF ApplyPreferences
<1>3. \/ ~tab[t].dirty /\ bank[u] # none /\ old.owner = u /\ old.ops = bank[u]
      \/ (tab[t].dirty \/ bank[u] = none) /\ old.owner = none /\ old.ops = tab[t].ops
  BY <1>1, BaseCases
<1>4. bank[u] # none => ~tab[t].dirty /\ ~tab[t].fresh
  BY <1>1 DEF ReadyFor
<1>5. /\ base.owner = u /\ base.ops \in SUBSET Ops
      /\ bank[u] # none => base.ops = bank[u]
      /\ bank[u] = none => base.ops \subseteq tab[t].ops
  <2>1. old.ops \in SUBSET Ops
    BY BaseFacts
  <2> HIDE DEF old
  <2> QED BY <1>3, <1>4, <2>1
<1>6. T.scope = u /\ ~T.fresh
      /\ DOMAIN T = {"scope", "owner", "ops", "mode", "dirty", "fresh",
                  "unconfirmed", "approved", "asks", "gateway", "proved", "bound"}
  BY <1>1 DEF Typed, Memory
<1> HIDE DEF base, T
<1>7. R = [T EXCEPT !.owner = base.owner, !.ops = base.ops, !.dirty = FALSE]
      /\ bank' = [bank EXCEPT ![u] = base.ops]
  BY <1>1, <1>2, <1>6 DEF Commit, Typed
<1>8. bank'[u] = base.ops /\ (\A v \in Users \ {u} : bank'[v] = bank[v]) /\ base.ops # none
  BY <1>1, <1>5, <1>7, Limits DEF Typed
<1> HIDE DEF R
<1>9. R.scope = u /\ R.owner = u /\ ~R.dirty /\ ~R.fresh /\ R.ops = base.ops
  BY <1>5, <1>6, <1>7
<1> QED BY <1>1, <1>5, <1>8, <1>9 DEF R

\* The local write path is closed, and the import goes out; or the session changed, and the
\* tab is in quarantine.
LEMMA ImportsFacts ==
  ASSUME ClientInv, NEW t \in Tabs, OwnerSaved(t), SyncImports(t), refusals' = 0
  PROVE  LET u == sync[t].user T == tab[t] R == tab'[t] IN
         /\ u \in Users /\ sync[t].phase = "applied" /\ T.scope = u
         /\ UNCHANGED <<bank, receipt>>
         /\ marker'[u] /\ \A v \in Users \ {u} : marker'[v] = marker[v]
         /\ \/ Blank(R)
            \/ /\ R.scope = u /\ R.dirty = T.dirty /\ R.fresh = T.fresh
               /\ R.unconfirmed = T.unconfirmed
               /\ \/ ~T.dirty /\ bank[u] # none /\ R.owner = u /\ R.ops = bank[u]
                  \/ R.owner = none /\ R.ops = T.ops
<1> DEFINE u == sync[t].user
           T == tab[t]
           base == MutationBase(t)
           X == [T EXCEPT !.gateway = FALSE, !.mode = "read_only", !.asks = FALSE]
           R == tab'[t]
<1>1. /\ Typed /\ u \in Users /\ u # none /\ sync[t].phase = "applied" /\ T.scope = u
      /\ UNCHANGED <<bank, receipt>>
  <2>1. sync[t].phase = "applied" /\ T.scope = u /\ UNCHANGED <<bank, receipt>>
    BY DEF SyncImports, Scope
  <2> QED BY <2>1, RunningUser DEF ClientInv
<1>2. /\ marker' = [marker EXCEPT ![u] = TRUE]
      /\ \/ SessionLost(t)
         \/ tab' = [tab EXCEPT ![t] = [X EXCEPT !.owner = base.owner, !.ops = base.ops]]
  <2>1. ~Refusal
    BY <1>1 DEF Refusal, Typed
  <2> QED BY <2>1 DEF SyncImports
<1>3. \/ ~T.dirty /\ bank[u] # none /\ base.owner = u /\ base.ops = bank[u]
      \/ base.owner = none /\ base.ops = T.ops
  BY <1>1, BaseCases
<1>4. /\ X.scope = u /\ X.dirty = T.dirty /\ X.fresh = T.fresh /\ X.unconfirmed = T.unconfirmed
      /\ DOMAIN X = {"scope", "owner", "ops", "mode", "dirty", "fresh",
                  "unconfirmed", "approved", "asks", "gateway", "proved", "bound"}
  BY <1>1 DEF Typed, Memory
<1> HIDE DEF base, X
<1>5. Blank(R) \/ R = [X EXCEPT !.owner = base.owner, !.ops = base.ops]
  <2>1. CASE SessionLost(t)
    BY <1>1, <2>1, BlankMemory
  <2>2. CASE tab' = [tab EXCEPT ![t] = [X EXCEPT !.owner = base.owner, !.ops = base.ops]]
    BY <1>1, <2>2 DEF Typed
  <2> QED BY <1>2, <2>1, <2>2
<1>6. marker'[u] /\ \A v \in Users \ {u} : marker'[v] = marker[v]
  BY <1>1, <1>2 DEF Typed
<1> HIDE DEF R
<1>7. ~Blank(R) =>
        /\ R.scope = u /\ R.dirty = T.dirty /\ R.fresh = T.fresh
        /\ R.unconfirmed = T.unconfirmed /\ R.owner = base.owner /\ R.ops = base.ops
  BY <1>4, <1>5
<1> QED BY <1>1, <1>3, <1>6, <1>7 DEF R

-----------------------------------------------------------------------------
(* Who may be on the way to a ledger.                                      *)

\* A command is only sent by a tab whose device has a receipt.
CommandsVouched == \A c \in calls : c.kind = "command" => receipt[c.user] # none

\* The launch lock is held by one tab.
LockHeldOnce ==
  \A t, o \in Tabs : sync[t].phase \in Holding /\ sync[o].phase \in Holding => t = o

\* A tab waits for at most one import, and while it does it holds the lock.
LiveImports == {c \in calls : c.kind = "import" /\ c.live}

ImportsAwaited ==
  /\ \A c \in LiveImports : sync[c.tab].phase = "importing"
  /\ \A c, d \in LiveImports : c.tab = d.tab => c = d

LEMMA CommandsVouchedStep ==
  ASSUME ClientInv, CommandsVouched, [Next]_clientVars
  PROVE  CommandsVouched'
<1> SUFFICES ASSUME NEW d \in calls', d.kind = "command" PROVE receipt'[d.user] # none
  BY DEF CommandsVouched
<1>0. Typed /\ \A c \in calls : c \in Sent /\ c.user \in Users
  BY DEF ClientInv, Typed, Sent
<1>1. CallStep(d)
  BY CallKinds
<1>2. ASSUME NEW c \in calls, d.kind = c.kind, d.user = c.user PROVE receipt'[d.user] # none
  BY <1>0, <1>2, DeviceStays DEF CommandsVouched
<1>3. ASSUME NEW t \in Tabs, SendCommand(t), d.user = session[t].user PROVE receipt'[d.user] # none
  <2>1. tab[t].mode = "server" /\ session[t].serial = tab[t].proved
    BY <1>3 DEF SendCommand, MaySend, Same
  <2>2. tab[t].scope # none /\ receipt[tab[t].scope] # none /\ session[t].user = tab[t].scope
    BY <2>1 DEF ClientInv, TabInv, Fits
  <2>3. session[t].user \in Users
    BY <1>0 DEF Typed
  <2> QED BY <1>3, <2>2, <2>3, DeviceStays
<1>4. ASSUME NEW t \in Tabs, NEW kind, NEW ops
      PROVE  Call(t, kind, ops).user = session[t].user /\ Call(t, kind, ops).kind = kind
  BY DEF Call
<1> QED BY <1>1, <1>2, <1>3, <1>4 DEF CallStep, Alike

LEMMA LockStep ==
  ASSUME ClientInv, LockHeldOnce, [Next]_clientVars
  PROVE  LockHeldOnce'
<1>0. Typed /\ \A t \in Tabs : LaunchStep(t)
  BY LaunchKinds DEF ClientInv
<1>1. ASSUME NEW t \in Tabs, sync'[t].phase \in Holding
      PROVE  sync[t].phase \in Holding \/ (Activate(t) /\ \A o \in Tabs \ {t} : sync'[o] = sync[o])
  <2>1. "idle" \notin Holding /\ "asked" \notin Holding /\ "answered" \notin Holding
        /\ "activated" \in Holding /\ "applied" \in Holding
    BY DEF Holding
  <2>2. CASE ServerAnswersLaunch(t)
    <3>1. sync[t] \in Attempt
      BY <1>0 DEF Typed
    <3>2. sync'[t].phase = "answered"
      BY <1>0, <2>2, <3>1 DEF ServerAnswersLaunch, Typed, Attempt
    <3> QED BY <1>1, <2>1, <3>2
  <2>3. CASE Activate(t)
    BY <1>0, <2>3, LaunchFacts
  <2>4. CASE ApplyPreferences(t) \/ SyncImports(t)
    BY <1>0, <2>1, <2>4, LaunchFacts
  <2> QED BY <1>0, <1>1, <2>1, <2>2, <2>3, <2>4 DEF LaunchStep
<1>2. ASSUME NEW t \in Tabs, NEW o \in Tabs, t # o,
             sync'[t].phase \in Holding, sync'[o].phase \in Holding
      PROVE  FALSE
  BY <1>1, <1>2 DEF LockHeldOnce, Activate, LaunchLockFree
<1> QED BY <1>2 DEF LockHeldOnce

\* What becomes of the imports that tabs wait for.
ImportStep ==
  \/ LiveImports' \subseteq LiveImports
  \/ /\ UNCHANGED sync
     /\ \E c \in LiveImports, d \in calls' :
          Alike(d, c) /\ LiveImports' \subseteq (LiveImports \ {c}) \cup {d}
  \/ \E t \in Tabs : /\ SyncImports(t) /\ sync'[t].phase = "importing"
                     /\ \E d \in calls' : d.tab = t /\ LiveImports' \subseteq LiveImports \cup {d}

\* A launch that stops waiting leaves none that it waits for.
ImportsEnd ==
  \A t \in Tabs : sync[t].phase = "importing" /\ sync'[t].phase # "importing" =>
    \A c \in LiveImports' : c.tab # t

LEMMA ImportKinds ==
  ASSUME ClientInv, ImportsAwaited, [Next]_clientVars
  PROVE  ImportStep /\ ImportsEnd
<1> DEFINE Goal == ImportStep /\ ImportsEnd
<1> SUFFICES Goal
  OBVIOUS
<1>0. Typed /\ (\A c \in calls : c \in Sent /\ c.tab \in Tabs) /\ \A t \in Tabs : sync[t] \in Attempt
  BY DEF ClientInv, Typed, Sent

\* Steps of one launch that is not waiting for an import.
<1>1. ASSUME NEW t \in Tabs, NEW s, sync' = [sync EXCEPT ![t] = s], sync[t].phase # "importing",
             calls' \subseteq calls
      PROVE  Goal
  BY <1>0, <1>1 DEF ImportStep, ImportsEnd, LiveImports, Typed

\* Steps of no launch, and of commands.
<1>2. ASSUME UNCHANGED sync, NEW d, calls' \subseteq calls \cup {d}, d.kind = "command" \/ ~d.live
      PROVE  Goal
  BY <1>2 DEF ImportStep, ImportsEnd, LiveImports
<1>3. ASSUME UNCHANGED sync, calls' \subseteq calls PROVE Goal
  BY <1>3 DEF ImportStep, ImportsEnd, LiveImports

\* The end of an attempt that takes its import along.
<1>4. ASSUME NEW t \in Tabs, NEW s, sync' = [sync EXCEPT ![t] = s], NEW kinds, "import" \in kinds,
             calls' = Orphaned(t, kinds)
      PROVE  Goal
  <2>1. ASSUME NEW e \in LiveImports' PROVE e \in LiveImports /\ e.tab # t
    <3>1. ASSUME NEW c \in calls, e = [c EXCEPT !.live = FALSE] PROVE FALSE
      <4>1. ~[c EXCEPT !.live = FALSE].live
        BY <1>0 DEF Sent
      <4> QED BY <2>1, <3>1, <4>1 DEF LiveImports
    <3>2. e \in calls \ {c \in Awaited(t) : c.kind \in kinds}
      BY <1>4, <2>1, <3>1 DEF LiveImports, Orphaned, Awaited
    <3> QED BY <1>4, <2>1, <3>2 DEF LiveImports, Awaited
  <2>2. \A o \in Tabs \ {t} : sync'[o] = sync[o]
    BY <1>0, <1>4 DEF Typed
  <2> QED BY <2>1, <2>2 DEF ImportStep, ImportsEnd

\* The answer of the import.
<1>5. ASSUME NEW c \in LiveImports, NEW s, sync' = [sync EXCEPT ![c.tab] = s], calls' = calls \ {c}
      PROVE  Goal
  <2>1. \A o \in Tabs \ {c.tab} : sync'[o] = sync[o]
    BY <1>0, <1>5 DEF Typed
  <2>2. LiveImports' = LiveImports \ {c}
    BY <1>5 DEF LiveImports
  <2>3. \A d \in LiveImports' : d.tab # c.tab
    BY <2>2 DEF ImportsAwaited
  <2> QED BY <2>1, <2>2, <2>3 DEF ImportStep, ImportsEnd
<1>6. ASSUME NEW c \in calls, ServerExecutes(c) \/ ServerImports(c) PROVE Goal
  <2> DEFINE r == server'[c.user]
             d == [c EXCEPT !.answer = r]
  <2>1. UNCHANGED sync /\ calls' = (calls \ {c}) \cup IF c.live THEN {d} ELSE {}
    BY <1>6 DEF ServerExecutes, ServerImports
  <2>2. Alike(d, c) /\ d.live = c.live
    <3> HIDE DEF r
    <3> QED BY <1>0 DEF Alike, Sent
  <2> HIDE DEF d
  <2>3. CASE c.kind = "command" \/ ~c.live
    BY <1>2, <2>1, <2>2, <2>3 DEF Alike
  <2>4. CASE c.kind # "command" /\ c.live
    <3>1. c \in LiveImports
      BY <1>0, <2>4 DEF Sent, LiveImports
    <3>2. d \in calls' /\ LiveImports' \subseteq (LiveImports \ {c}) \cup {d}
      BY <2>1, <2>4 DEF LiveImports
    <3>3. ImportStep
      BY <2>1, <2>2, <3>1, <3>2 DEF ImportStep
    <3>4. ImportsEnd
      BY <2>1 DEF ImportsEnd
    <3> QED BY <3>3, <3>4
  <2> QED BY <2>3, <2>4
<1>7. ASSUME NEW t \in Tabs, SyncImports(t) PROVE Goal
  <2>0. sync[t].phase = "applied"
    BY <1>7 DEF SyncImports
  <2>1. CASE UNCHANGED calls
    <3>1. \E s : sync' = [sync EXCEPT ![t] = s]
      BY <1>7 DEF SyncImports, Goto, Rest
    <3> QED BY <1>1, <2>0, <2>1, <3>1
  <2>2. CASE ~UNCHANGED calls
    <3> DEFINE d == Call(t, "import", MutationBase(t).ops)
    <3>1. calls' = calls \cup {d} /\ Goto(t, "importing")
      BY <1>7, <2>2 DEF SyncImports
    <3>2. d.tab = t
      BY DEF Call
    <3>3. sync'[t].phase = "importing" /\ \A o \in Tabs \ {t} : sync'[o] = sync[o]
      BY <1>0, <3>1 DEF Goto, Typed, Attempt
    <3> HIDE DEF d
    <3>4. ImportStep
      BY <1>7, <3>1, <3>2, <3>3 DEF ImportStep, LiveImports
    <3>5. ImportsEnd
      BY <3>3 DEF ImportsEnd
    <3> QED BY <3>4, <3>5
  <2> QED BY <2>1, <2>2
<1> HIDE DEF Goal
<1>8. CASE Server \/ Others
  <2>1. ASSUME NEW t \in Tabs, ServerAnswersLaunch(t) PROVE Goal
    BY <1>1, <2>1 DEF ServerAnswersLaunch
  <2> QED BY <1>3, <1>6, <1>8, <2>1 DEF Server, Others, OthersCommand, OthersImport,
     OperatorActivates, OperatorRollsBack, OperatorBacksUp, OperatorRestores
<1>9. CASE Store
  <2>1. ASSUME NEW t \in Tabs,
               \/ LocalCommand(t) \/ LocalCommandRefused(t) \/ SeesSavedBank(t)
               \/ SendFindsOtherSession(t)
        PROVE  Goal
    BY <1>3, <2>1 DEF LocalCommand, LocalCommandRefused, SeesSavedBank, SendFindsOtherSession
  <2>2. ASSUME NEW t \in Tabs, SendCommand(t) PROVE Goal
    <3>1. Call(t, "command", {Len(made')}).kind = "command"
      BY DEF Call
    <3> QED BY <1>2, <2>2, <3>1 DEF SendCommand
  <2>3. ASSUME NEW c \in calls, CommandAnswered(c) PROVE Goal
    BY <1>3, <2>3 DEF CommandAnswered
  <2>4. ASSUME NEW c \in calls, CommandFails(c) PROVE Goal
    <3>1. calls' \subseteq calls \cup {[c EXCEPT !.live = FALSE]} /\ UNCHANGED sync
      BY <2>4 DEF CommandFails
    <3>2. ~[c EXCEPT !.live = FALSE].live
      BY <1>0 DEF Sent
    <3> QED BY <1>2, <3>1, <3>2
  <2> QED BY <1>9, <2>1, <2>2, <2>3, <2>4 DEF Store
<1>10. CASE Launch
  <2>1. ASSUME NEW t \in Tabs,
               \/ SyncStart(t) \/ SyncFindsOtherSession(t) \/ Activate(t) \/ ApplyPreferences(t)
               \/ SyncFindsOtherScope(t) \/ SyncLocally(t) \/ SyncAdopts(t)
        PROVE  Goal
    <3>1. sync[t].phase # "importing" /\ calls' = calls
      BY <2>1 DEF SyncStart, SyncFindsOtherSession, Activate, ApplyPreferences,
         SyncFindsOtherScope, SyncLocally, SyncAdopts
    <3>2. \E s : sync' = [sync EXCEPT ![t] = s]
      BY <2>1 DEF SyncStart, SyncFindsOtherSession, Activate, ApplyPreferences,
         SyncFindsOtherScope, SyncLocally, SyncAdopts, Goto, Rest, Conclude, Finish
    <3> QED BY <1>1, <3>1, <3>2
  <2>2. ASSUME NEW t \in Tabs, SyncFails(t) PROVE Goal
    BY <1>4, <2>2 DEF SyncFails, Rest
  <2>3. ASSUME NEW c \in calls, ImportAnswered(c) \/ ImportRefused(c) PROVE Goal
    <3>1. c \in LiveImports /\ calls' = calls \ {c} /\ \E due : Rest(c.tab, due)
      BY <2>3 DEF ImportAnswered, ImportRefused, LiveImports, Conclude, Finish
    <3> QED BY <1>5, <3>1 DEF Rest
  <2> QED BY <1>7, <1>10, <2>1, <2>2, <2>3 DEF Launch, SyncSteps
<1>11. CASE Host
  <2>1. ASSUME NEW t \in Tabs, Approve(t) PROVE Goal
    <3>1. sync' = [sync EXCEPT ![t].due = TRUE] /\ calls' = calls
      BY <2>1 DEF Approve
    <3>2. \A o \in Tabs : sync'[o].phase = sync[o].phase
      BY <1>0, <3>1 DEF Typed, Attempt
    <3> QED BY <3>1, <3>2 DEF Goal, ImportStep, ImportsEnd, LiveImports
  <2>2. ASSUME NEW t \in Tabs, NoticeSession(t) \/ Reload(t) PROVE Goal
    <3>1. (\E kinds : "import" \in kinds /\ calls' = Orphaned(t, kinds)) /\ Rest(t, TRUE)
      BY <2>2 DEF NoticeSession, Reload
    <3> QED BY <1>4, <3>1 DEF Rest
  <2>3. ASSUME NEW t \in Tabs, SwitchSession(t) PROVE Goal
    BY <1>3, <2>3 DEF SwitchSession
  <2> QED BY <1>11, <2>1, <2>2, <2>3 DEF Host
<1>12. CASE UNCHANGED clientVars
  BY <1>3, <1>12 DEF clientVars
<1> QED BY <1>8, <1>9, <1>10, <1>11, <1>12 DEF Next

LEMMA ImportsAwaitedStep ==
  ASSUME ClientInv, ImportsAwaited, [Next]_clientVars
  PROVE  ImportsAwaited'
<1>0. Typed /\ (\A c \in calls : c.tab \in Tabs) /\ ImportStep /\ ImportsEnd
  BY ImportKinds DEF ClientInv, Typed, Sent
<1>1. CASE LiveImports' \subseteq LiveImports
  <2>1. ASSUME NEW c \in LiveImports' PROVE sync'[c.tab].phase = "importing"
    BY <1>0, <1>1, <2>1 DEF ImportsEnd, ImportsAwaited, LiveImports
  <2> QED BY <1>1, <2>1 DEF ImportsAwaited
<1>2. ASSUME UNCHANGED sync, NEW c \in LiveImports, NEW d, Alike(d, c),
             LiveImports' \subseteq (LiveImports \ {c}) \cup {d}
      PROVE  ImportsAwaited'
  <2>1. ASSUME NEW e \in LiveImports' PROVE sync'[e.tab].phase = "importing"
    BY <1>2 DEF Alike, ImportsAwaited
  <2>2. ASSUME NEW e \in LiveImports', NEW f \in LiveImports', e.tab = f.tab PROVE e = f
    BY <1>2, <2>2 DEF Alike, ImportsAwaited
  <2> QED BY <2>1, <2>2 DEF ImportsAwaited
<1>3. ASSUME NEW t \in Tabs, SyncImports(t), sync'[t].phase = "importing", NEW d, d.tab = t,
             LiveImports' \subseteq LiveImports \cup {d}
      PROVE  ImportsAwaited'
  <2>1. sync[t].phase = "applied" /\ \A o \in Tabs \ {t} : sync'[o] = sync[o]
    BY <1>0, <1>3, LaunchFacts
  <2>2. \A c \in LiveImports : c.tab # t
    BY <2>1 DEF ImportsAwaited
  <2>3. ASSUME NEW e \in LiveImports' PROVE sync'[e.tab].phase = "importing"
    BY <1>0, <1>3, <2>1, <2>2 DEF ImportsAwaited, LiveImports
  <2>4. ASSUME NEW e \in LiveImports', NEW f \in LiveImports', e.tab = f.tab PROVE e = f
    BY <1>3, <2>2, <2>4 DEF ImportsAwaited
  <2> QED BY <2>3, <2>4 DEF ImportsAwaited
<1> QED BY <1>0, <1>1, <1>2, <1>3 DEF ImportStep

-----------------------------------------------------------------------------
(* What holds while storage takes every write.                             *)

\* A server's ledger that a launch may adopt without a receipt meets a device without a
\* bank, or a tab whose user must be asked: it shows what is saved, or the server took
\* over on another device.
Adoptable(t) ==
  LET u == sync[t].user IN
  /\ sync[t].phase = "applied" /\ sync[t].offer = "server"
  /\ tab[t].scope = u /\ receipt[u] = none
  => \/ bank[u] = none
     \/ tab[t].unconfirmed /\ (tab[t].ops = bank[u] \/ ~marker[u])

\* The answer of an import is what was sent; and until a receipt is there what is saved
\* is in the import that a tab waits for.
ImportsKept ==
  \A c \in calls : c.kind = "import" =>
    /\ c.answer # none => c.answer.ops = c.ops
    /\ c.live /\ receipt[c.user] = none => bank[c.user] # none /\ bank[c.user] \subseteq c.ops

\* Without a marker on the device the ledger of the user came from another device: it has
\* an operation that no tab of the user and no saved bank has.
Unknown(u, n) ==
  /\ bank[u] # none => n \notin bank[u]
  /\ \A t \in Tabs : tab[t].scope = u => n \notin tab[t].ops

Elsewhere(u) ==
  ~marker[u] => \A r : Heard(u, r) \/ (r # none /\ r = backup[u]) =>
                         \E n \in r.ops \ {0} : Unknown(u, n)

\* What a receipt vouches for is saved, in the first generation of the database.
Covered(u) == epoch = 1 /\ receipt[u] # none => receipt[u].ops \subseteq bank[u]

Unrefused ==
  /\ \A t \in Tabs : OwnerSaved(t) /\ ReadyFor(t) /\ Adoptable(t)
  /\ \A u \in Users : Elsewhere(u) /\ Covered(u)
  /\ ImportsKept

HistoryInv ==
  /\ ClientInv /\ (\A u \in Users : InLine(u))
  /\ CommandsVouched /\ LockHeldOnce /\ ImportsAwaited
  /\ refusals = 0 => Unrefused

\* A refusal is not undone.
LEMMA RefusalsStay ==
  ASSUME ClientInv, [Next]_clientVars
  PROVE  refusals' = 0 => refusals = 0
<1>0. refusals \in Nat
  BY DEF ClientInv, Typed
<1>1. ASSUME UNCHANGED refusals \/ Refusal PROVE refusals' = 0 => refusals = 0
  BY <1>0, <1>1 DEF Refusal
<1>2. ASSUME NEW result, Counted(result) PROVE UNCHANGED refusals \/ Refusal
  BY <1>2 DEF Counted, failed
<1>3. ASSUME NEW t, NEW result, Conclude(t, result) PROVE UNCHANGED refusals \/ Refusal
  BY <1>2, <1>3 DEF Conclude, Finish, failed
<1>4. CASE Server \/ Others
  BY <1>1, <1>4 DEF Server, ServerExecutes, ServerImports, ServerAnswersLaunch, Others,
     OthersCommand, OthersImport, OperatorActivates, OperatorRollsBack, OperatorBacksUp,
     OperatorRestores, Fault, failed
<1>5. CASE Store
  BY <1>1, <1>2, <1>5 DEF Store, LocalCommand, LocalCommandRefused, SeesSavedBank, SendCommand,
     SendFindsOtherSession, CommandAnswered, CommandFails, Fault, failed
<1>6. CASE Launch
  <2>1. ASSUME NEW t \in Tabs, SyncStart(t) \/ SyncFails(t) PROVE UNCHANGED refusals \/ Refusal
    BY <2>1 DEF SyncStart, SyncFails, Fault, failed
  <2>2. ASSUME NEW t \in Tabs, SyncSteps(t) PROVE UNCHANGED refusals \/ Refusal
    BY <1>3, <2>2 DEF SyncSteps, SyncFindsOtherSession, Activate, ApplyPreferences,
       SyncFindsOtherScope, SyncLocally, SyncImports, SyncAdopts, Finish, failed
  <2>3. ASSUME NEW c \in calls, ImportAnswered(c) \/ ImportRefused(c)
        PROVE  UNCHANGED refusals \/ Refusal
    BY <1>3, <2>3 DEF ImportAnswered, ImportRefused, failed
  <2> QED BY <1>1, <1>6, <2>1, <2>2, <2>3 DEF Launch
<1>7. CASE Host
  BY <1>1, <1>7 DEF Host, Approve, SwitchSession, NoticeSession, Reload, Fault, failed
<1>8. CASE UNCHANGED clientVars
  BY <1>1, <1>8 DEF clientVars, failed
<1> QED BY <1>4, <1>5, <1>6, <1>7, <1>8 DEF Next

\* While a tab holds the lock for its preferences or its ledger, only a local command of
\* the user changes what is on the device, unless a receipt is there.
LEMMA LaunchAlone ==
  ASSUME HistoryInv, [Next]_clientVars, NEW t \in Tabs, NEW u \in Users,
         sync[t].phase \in {"activated", "applied"}, sync'[t].phase = sync[t].phase,
         receipt[u] = none
  PROVE  \/ bank'[u] = bank[u] /\ marker'[u] = marker[u] /\ receipt'[u] = none
         \/ \E o \in Tabs : LocalCommand(o) /\ tab[o].scope = u
<1> DEFINE Goal == \/ bank'[u] = bank[u] /\ marker'[u] = marker[u] /\ receipt'[u] = none
                   \/ \E o \in Tabs : LocalCommand(o) /\ tab[o].scope = u
<1> SUFFICES Goal
  OBVIOUS
<1>0. ClientInv /\ Typed /\ DeviceStep
  BY Kinds DEF HistoryInv, ClientInv
<1>1. \A o \in Tabs : sync[o].phase \in Holding => o = t
  BY DEF HistoryInv, LockHeldOnce, Holding
<1>2. CASE UNCHANGED <<bank, marker, receipt>>
  BY <1>2
<1>3. ASSUME NEW o \in Tabs, LocalCommand(o), tab[o].scope # u PROVE Goal
  BY <1>0, <1>3 DEF LocalCommand, Commit, Typed
<1>4. ASSUME NEW o \in Tabs, Activate(o) PROVE FALSE
  <2>1. o = t
    BY <1>4 DEF Activate, LaunchLockFree, Holding
  <2> QED BY <1>4, <2>1 DEF Activate
<1>5. ASSUME NEW o \in Tabs, ApplyPreferences(o) \/ SyncImports(o) PROVE FALSE
  <2>1. sync[o].phase \in Holding
    BY <1>5 DEF ApplyPreferences, SyncImports, Holding
  <2>2. o = t
    BY <1>1, <2>1
  <2> QED BY <1>0, <1>5, <2>2, LaunchFacts
<1>6. ASSUME NEW o \in Tabs, NEW n \in 0..3, NEW c, Saves(o, c, n) PROVE Goal
  <2>1. CASE c.user # u
    <3>1. bank'[u] = bank[u] /\ receipt'[u] = receipt[u]
      BY <1>0, <1>6, <2>1, SavesFacts
    <3>2. marker'[u] = (marker[u] \/ (u = c.user /\ n >= 1)) /\ marker[u] \in BOOLEAN
      BY <1>0, <1>6, SavesFacts DEF Typed
    <3> QED BY <2>1, <3>1, <3>2
  <2>2. CASE c.user = u
    <3>1. CASE c \in Awaited(o) /\ c.kind = "command"
      BY <2>2, <3>1 DEF HistoryInv, CommandsVouched, Awaited
    <3>2. CASE c \in Awaited(o) /\ c.kind # "command"
      <4>1. c \in LiveImports /\ c.tab = o
        BY <1>0, <3>2 DEF Awaited, LiveImports, Typed, Sent
      <4>2. sync[o].phase = "importing"
        BY <4>1 DEF HistoryInv, ImportsAwaited
      <4> QED BY <1>1, <4>2 DEF Holding
    <3>3. CASE c \notin Awaited(o)
      <4>1. sync[o].phase = "applied" /\ sync'[o].phase = "idle"
        BY <1>6, <3>3 DEF Saves, Taken, Ends
      <4> QED BY <1>1, <4>1 DEF Holding
    <3> QED BY <3>1, <3>2, <3>3
  <2> QED BY <2>1, <2>2
<1> HIDE DEF Goal
<1>7. CASE \E o \in Tabs : LocalCommand(o) /\ tab[o].scope = u
  BY <1>7 DEF Goal
<1> QED BY <1>0, <1>2, <1>3, <1>4, <1>5, <1>6, <1>7 DEF DeviceStep

\* Where a launch is after a step.
LEMMA LaunchAfter ==
  ASSUME ClientInv, [Next]_clientVars, NEW t \in Tabs
  PROVE  /\ sync'[t].phase = "activated" =>
              \/ Activate(t) /\ sync[t].offer # "server"
              \/ sync[t].phase = "activated"
         /\ sync'[t].phase = "applied" =>
              Activate(t) \/ ApplyPreferences(t) \/ sync[t].phase = "applied"
         /\ sync'[t].phase \in {"activated", "applied"} =>
              /\ sync'[t].user = sync[t].user /\ sync'[t].offer = sync[t].offer
              /\ sync'[t].bank = sync[t].bank
<1>0. Typed /\ LaunchStep(t)
  BY LaunchKinds DEF ClientInv
<1>1. CASE ServerAnswersLaunch(t)
  <2>1. sync[t] \in Attempt
    BY <1>0 DEF Typed
  <2>2. sync'[t].phase = "answered"
    BY <1>0, <1>1, <2>1 DEF ServerAnswersLaunch, Typed, Attempt
  <2> QED BY <2>2
<1>2. CASE Activate(t) \/ ApplyPreferences(t) \/ SyncImports(t)
  <2>1. Resting(TRUE).phase = "idle"
    BY DEF Resting
  <2> QED BY <1>0, <1>2, <2>1, LaunchFacts
<1> QED BY <1>0, <1>1, <1>2 DEF LaunchStep

LEMMA OwnerSavedStep ==
  ASSUME HistoryInv, Unrefused, [Next]_clientVars, refusals' = 0, NEW t \in Tabs
  PROVE  OwnerSaved(t)'
<1>0. /\ ClientInv /\ Typed /\ MemoryStep(t)
      /\ OwnerSaved(t) /\ ReadyFor(t) /\ tab[t].scope \in Users \cup {none}
  BY Kinds DEF HistoryInv, Unrefused, ClientInv, Typed, Memory
<1>1. CASE Kept(tab[t], tab'[t])
  <2>1. tab[t].owner # none => tab[t].scope \in Users
    BY <1>0 DEF ClientInv, TabInv, Fits, Quiet
  <2> QED BY <1>0, <1>1, <2>1, DeviceStays DEF Kept, OwnerSaved
<1>2. CASE Blank(tab'[t])
  BY <1>2 DEF Blank, OwnerSaved
<1>3. CASE LocalCommand(t)
  <2>1. bank[tab[t].scope] # none => bank'[tab[t].scope] # none
    BY <1>0, <1>3, CommandFacts, DeviceStays
  <2> QED BY <1>0, <1>3, <2>1, CommandFacts DEF OwnerSaved
<1>4. CASE SeesSavedBank(t)
  BY <1>0, <1>4, SeesFacts DEF OwnerSaved
<1>5. CASE Activate(t)
  BY <1>0, <1>5, ActivateFacts DEF OwnerSaved
<1>6. CASE ApplyPreferences(t)
  BY <1>0, <1>6, PreferencesFacts DEF OwnerSaved
<1>7. CASE SyncImports(t)
  BY <1>0, <1>7, ImportsFacts DEF Blank, OwnerSaved
<1>8. ASSUME NEW c, Saves(t, c, 3), Shows(tab'[t], c) PROVE OwnerSaved(t)'
  <2>1. 3 \in 0..3
    OBVIOUS
  <2>2. c.answer.ops # none /\ bank'[c.user] = c.answer.ops
    BY <1>0, <1>8, <2>1, SavesFacts, Limits DEF Revisions
  <2> QED BY <1>8, <2>2 DEF Shows, OwnerSaved
<1> QED BY <1>0, <1>1, <1>2, <1>3, <1>4, <1>5, <1>6, <1>7, <1>8 DEF MemoryStep

LEMMA ReadyStep ==
  ASSUME HistoryInv, Unrefused, [Next]_clientVars, refusals' = 0, NEW t \in Tabs
  PROVE  ReadyFor(t)'
<1>0. /\ ClientInv /\ Typed /\ MemoryStep(t)
      /\ OwnerSaved(t) /\ ReadyFor(t)
  BY Kinds DEF HistoryInv, Unrefused, ClientInv
<1> SUFFICES ASSUME sync'[t].phase = "activated"
             PROVE  /\ sync'[t].offer # "server"
                    /\ tab'[t].scope = sync'[t].user /\ (tab'[t].dirty \/ tab'[t].fresh)
                       => bank'[sync'[t].user] = none
  BY DEF ReadyFor
<1>1. /\ sync'[t].user = sync[t].user /\ sync'[t].offer = sync[t].offer
      /\ (Activate(t) /\ sync[t].offer # "server") \/ sync[t].phase = "activated"
  BY <1>0, LaunchAfter
<1>2. CASE Activate(t)
  BY <1>0, <1>1, <1>2, ActivateFacts DEF ReadyFor
<1>3. CASE ~Activate(t)
  <2> DEFINE u == sync[t].user
  <2>1. sync[t].phase = "activated" /\ sync[t].offer # "server" /\ u \in Users /\ u # none
    BY <1>0, <1>1, <1>3, RunningUser DEF ReadyFor
  <2> SUFFICES ASSUME tab'[t].scope = u, tab'[t].dirty \/ tab'[t].fresh PROVE bank'[u] = none
    BY <1>1, <2>1
  <2>2. bank[u] = none => bank'[u] = none
    <3> SUFFICES ASSUME bank[u] = none PROVE bank'[u] = none
      OBVIOUS
    <3>1. receipt[u] = none
      BY <1>0, <2>1 DEF ClientInv, Vouched
    <3>2. bank'[u] = bank[u] \/ \E o \in Tabs : LocalCommand(o) /\ tab[o].scope = u
      BY <2>1, <3>1, LaunchAlone
    <3>3. ASSUME NEW o \in Tabs, LocalCommand(o), tab[o].scope = u PROVE bank'[u] = none
      <4>1. OwnerSaved(o)
        BY DEF Unrefused
      <4> QED BY <1>0, <3>3, <4>1, CommandFacts
    <3> QED BY <3>2, <3>3
  <2>3. CASE Kept(tab[t], tab'[t])
    BY <1>0, <2>1, <2>2, <2>3 DEF Kept, ReadyFor
  <2>4. CASE Blank(tab'[t])
    BY <2>1, <2>4 DEF Blank
  <2>5. CASE LocalCommand(t)
    BY <1>0, <2>1, <2>2, <2>5, CommandFacts DEF ReadyFor
  <2>6. CASE SeesSavedBank(t)
    BY <1>0, <2>1, <2>2, <2>6, SeesFacts DEF ReadyFor
  <2>7. CASE ApplyPreferences(t) \/ SyncImports(t)
    BY <1>0, <2>1, <2>7, LaunchFacts
  <2>8. ASSUME NEW c, Shows(tab'[t], c) PROVE FALSE
    BY <2>8 DEF Shows
  <2> QED BY <1>0, <1>3, <2>3, <2>4, <2>5, <2>6, <2>7, <2>8 DEF MemoryStep
<1> QED BY <1>2, <1>3

LEMMA AdoptableStep ==
  ASSUME HistoryInv, Unrefused, [Next]_clientVars, refusals' = 0, NEW t \in Tabs
  PROVE  Adoptable(t)'
<1>0. /\ ClientInv /\ Typed /\ MemoryStep(t)
      /\ OwnerSaved(t) /\ ReadyFor(t) /\ Adoptable(t)
  BY Kinds DEF HistoryInv, Unrefused, ClientInv
<1> DEFINE u == sync[t].user
<1> SUFFICES ASSUME sync'[t].phase = "applied", sync'[t].offer = "server",
                    tab'[t].scope = sync'[t].user, receipt'[sync'[t].user] = none,
                    bank'[sync'[t].user] # none
             PROVE  /\ tab'[t].unconfirmed
                    /\ tab'[t].ops = bank'[sync'[t].user] \/ ~marker'[sync'[t].user]
  BY DEF Adoptable
<1>1. /\ sync'[t].user = u /\ sync'[t].offer = sync[t].offer
      /\ Activate(t) \/ ApplyPreferences(t) \/ sync[t].phase = "applied"
  BY <1>0, LaunchAfter
<1>2. CASE Activate(t)
  BY <1>0, <1>1, <1>2, ActivateFacts
<1>3. CASE ApplyPreferences(t)
  BY <1>0, <1>1, <1>3, PreferencesFacts DEF ReadyFor
<1>4. CASE ~Activate(t) /\ ~ApplyPreferences(t)
  <2>1. sync[t].phase = "applied" /\ sync[t].offer = "server" /\ u \in Users /\ u # none
    BY <1>0, <1>1, <1>4, RunningUser
  <2>2. receipt[u] = none
    BY <1>0, <1>1, <2>1, DeviceStays
  <2>3. (bank'[u] = bank[u] /\ marker'[u] = marker[u])
        \/ \E o \in Tabs : LocalCommand(o) /\ tab[o].scope = u
    BY <2>1, <2>2, LaunchAlone
  <2>4. ASSUME NEW o \in Tabs, LocalCommand(o), tab[o].scope = u
        PROVE  bank[u] # none /\ ~marker[u] /\ ~marker'[u]
    <3>1. OwnerSaved(o)
      BY DEF Unrefused
    <3> QED BY <1>0, <1>1, <2>4, <3>1, CommandFacts
  <2>5. bank[u] # none
    BY <1>1, <2>3, <2>4
  <2>6. ASSUME tab[t].scope = u PROVE tab[t].unconfirmed /\ (tab[t].ops = bank[u] \/ ~marker[u])
    BY <1>0, <2>1, <2>2, <2>5, <2>6 DEF Adoptable
  <2>7. CASE Kept(tab[t], tab'[t])
    BY <1>1, <2>3, <2>4, <2>6, <2>7 DEF Kept
  <2>8. CASE Blank(tab'[t])
    BY <1>1, <2>1, <2>8 DEF Blank
  <2>9. CASE LocalCommand(t)
    <3>1. tab[t].scope = u
      BY <1>0, <1>1, <2>9, CommandFacts
    <3>2. tab'[t].unconfirmed = tab[t].unconfirmed
      BY <1>0, <2>9, CommandFacts
    <3> QED BY <1>1, <2>4, <2>6, <2>9, <3>1, <3>2
  <2>10. CASE SeesSavedBank(t)
    BY <1>0, <1>1, <2>6, <2>10, SeesFacts
  <2>11. CASE SyncImports(t)
    BY <1>0, <2>1, <2>11, LaunchFacts
  <2>12. ASSUME NEW c, Saves(t, c, 3), Shows(tab'[t], c) PROVE FALSE
    <3>1. 3 \in 0..3
      OBVIOUS
    <3>2. c.user = u
      BY <1>1, <2>12 DEF Shows
    <3> QED BY <1>0, <1>1, <2>1, <2>12, <3>1, <3>2, SavesFacts
  <2> QED BY <1>0, <1>4, <2>7, <2>8, <2>9, <2>10, <2>11, <2>12 DEF MemoryStep
<1> QED BY <1>1, <1>2, <1>3, <1>4

\* The operations of a revision are ones that were made.
LEMMA HeardMade ==
  ASSUME ClientInv, NEW u \in Users, ~marker[u],
         NEW r, Heard(u, r) \/ (r # none /\ r = backup[u])
  PROVE  r.ops \ {0} \subseteq DOMAIN made
<1>1. Belong(r.ops, u, made)
  <2>1. CASE r # none /\ (r = server[u] \/ r = backup[u])
    BY <2>1 DEF ClientInv, Isolated
  <2>2. CASE r # none /\ \E c \in calls : c.user = u /\ c.answer = r
    BY <2>2 DEF ClientInv, Isolated
  <2>3. CASE r # none /\ \E t \in Tabs : sync[t].user = u /\ sync[t].bank = r
    BY <2>3 DEF ClientInv, Isolated
  <2>4. CASE receipt[u] # none /\ r = Vouches(receipt[u])
    BY <2>4 DEF ClientInv, Vouched
  <2> QED BY <2>1, <2>2, <2>3, <2>4 DEF Heard
<1> QED BY <1>1 DEF Belong

\* An operation that a device without a marker does not know stays unknown to it.
LEMMA UnknownStays ==
  ASSUME HistoryInv, Unrefused, [Next]_clientVars, refusals' = 0,
         NEW u \in Users, ~marker'[u], NEW n \in DOMAIN made, n # 0, Unknown(u, n)
  PROVE  Unknown(u, n)'
<1>0. /\ ClientInv /\ Typed /\ DeviceStep /\ (\A t \in Tabs : MemoryStep(t))
      /\ \A t \in Tabs : OwnerSaved(t) /\ ReadyFor(t)
  BY Kinds DEF HistoryInv, Unrefused, ClientInv
<1>1. u # none /\ n # Len(made) + 1
  BY <1>0, Limits DEF Typed
<1>2. bank'[u] # none => n \notin bank'[u]
  <2>1. CASE UNCHANGED <<bank, marker, receipt>>
    BY <2>1 DEF Unknown
  <2>2. ASSUME NEW o \in Tabs, LocalCommand(o) PROVE bank'[u] # none => n \notin bank'[u]
    BY <1>0, <1>1, <2>2, CommandFacts DEF Unknown
  <2>3. ASSUME NEW o \in Tabs, Activate(o) PROVE bank'[u] # none => n \notin bank'[u]
    BY <1>0, <2>3, ActivateFacts DEF Unknown
  <2>4. ASSUME NEW o \in Tabs, ApplyPreferences(o) PROVE bank'[u] # none => n \notin bank'[u]
    BY <1>0, <2>4, PreferencesFacts DEF Unknown
  <2>5. ASSUME NEW o \in Tabs, SyncImports(o) PROVE bank'[u] # none => n \notin bank'[u]
    BY <1>0, <2>5, ImportsFacts DEF Unknown
  <2>6. ASSUME NEW o \in Tabs, NEW i \in 0..3, NEW c, Saves(o, c, i)
        PROVE  bank'[u] # none => n \notin bank'[u]
    <3>1. i >= 1 => marker'[c.user]
      BY <1>0, <2>6, SavesFacts
    <3>2. ~(u = c.user /\ i >= 2)
      BY <3>1
    <3>3. bank'[u] = bank[u]
      BY <1>0, <2>6, <3>2, SavesFacts
    <3> QED BY <3>3 DEF Unknown
  <2> QED BY <1>0, <2>1, <2>2, <2>3, <2>4, <2>5, <2>6 DEF DeviceStep
<1>3. ASSUME NEW t \in Tabs, tab'[t].scope = u PROVE n \notin tab'[t].ops
  <2>1. CASE Kept(tab[t], tab'[t])
    BY <1>3, <2>1 DEF Kept, Unknown
  <2>2. CASE Blank(tab'[t])
    BY <1>1, <1>3, <2>2 DEF Blank
  <2>3. CASE LocalCommand(t)
    <3>1. tab[t].scope = u
      BY <1>0, <1>3, <2>3, CommandFacts
    <3>2. n \notin tab[t].ops /\ (bank[u] # none => bank'[u] # none)
      BY <1>0, <3>1, DeviceStays DEF Unknown
    <3> QED BY <1>0, <1>1, <1>2, <2>3, <3>1, <3>2, CommandFacts
  <2>4. CASE SeesSavedBank(t)
    BY <1>0, <1>3, <2>4, SeesFacts DEF Unknown
  <2>5. CASE Activate(t)
    BY <1>0, <1>2, <1>3, <2>5, ActivateFacts
  <2>6. CASE ApplyPreferences(t)
    BY <1>0, <1>2, <1>3, <2>6, PreferencesFacts
  <2>7. CASE SyncImports(t)
    BY <1>0, <1>1, <1>3, <2>7, ImportsFacts DEF Blank
  <2>8. ASSUME NEW c, Saves(t, c, 3), Shows(tab'[t], c) PROVE FALSE
    <3>1. 3 \in 0..3 /\ 3 >= 1 /\ c.user = u
      BY <1>3, <2>8 DEF Shows
    <3>2. marker'[u] = (marker[u] \/ (u = c.user /\ 3 >= 1))
      BY <1>0, <2>8, <3>1, SavesFacts
    <3> QED BY <3>1, <3>2
  <2> QED BY <1>0, <2>1, <2>2, <2>3, <2>4, <2>5, <2>6, <2>7, <2>8 DEF MemoryStep
<1> QED BY <1>2, <1>3 DEF Unknown

LEMMA ElsewhereStep ==
  ASSUME HistoryInv, Unrefused, [Next]_clientVars, refusals' = 0, NEW u \in Users
  PROVE  Elsewhere(u)'
<1>0. ClientInv /\ Typed /\ ServerStep /\ Elsewhere(u)
  BY ServerKinds DEF HistoryInv, Unrefused, ClientInv
<1> SUFFICES ASSUME ~marker'[u], NEW r, Heard(u, r)' \/ (r # none /\ r = backup'[u])
             PROVE  \E n \in r.ops \ {0} : Unknown(u, n)'
  BY DEF Elsewhere
<1>1. ~marker[u]
  BY <1>0, DeviceStays
<1>2. ASSUME NEW s, Heard(u, s) \/ (s # none /\ s = backup[u]), s.ops \subseteq r.ops
      PROVE  \E n \in r.ops \ {0} : Unknown(u, n)'
  <2>1. PICK n \in s.ops \ {0} : Unknown(u, n)
    BY <1>0, <1>1, <1>2 DEF Elsewhere
  <2>2. n \in DOMAIN made /\ n # 0
    BY <1>0, <1>1, <1>2, <2>1, HeardMade
  <2>3. Unknown(u, n)'
    BY <2>1, <2>2, UnknownStays
  <2> QED BY <1>2, <2>1, <2>3
<1>3. CASE Heard(u, r) \/ (r # none /\ r = backup[u])
  BY <1>2, <1>3
<1>4. CASE r # none /\ r = server[u]
  BY <1>3, <1>4 DEF Heard
<1>5. CASE r # none /\ r = server'[u] /\ server'[u] # server[u]
  <2>1. CASE NextRevision(u) /\ server[u] # none
    <3>1. Heard(u, server[u]) /\ server[u].ops \subseteq r.ops
      BY <1>5, <2>1 DEF NextRevision, Heard
    <3> QED BY <1>2, <3>1
  <2>2. CASE NextRevision(u) /\ server[u] = none
    <3>1. ~ \E c \in calls : c.kind = "import" /\ c.user = u
      BY <1>0, <1>1 DEF ClientInv, ImportsMarked
    <3>2. r.ops = {Len(made) + 1} /\ UNCHANGED <<tab, bank>>
      <4>1. UNCHANGED <<tab, bank>>
        BY <1>0, <1>5 DEF ServerStep
      <4> QED BY <1>5, <2>2, <3>1, <4>1 DEF NextRevision
    <3>3. Len(made) + 1 \notin DOMAIN made /\ Len(made) + 1 # 0
      BY <1>0 DEF Typed
    <3>4. bank[u] # none => Len(made) + 1 \notin bank[u]
      BY <1>0, <3>3 DEF ClientInv, Isolated, Belong
    <3>5. ASSUME NEW t \in Tabs, tab[t].scope = u PROVE Len(made) + 1 \notin tab[t].ops
      BY <1>0, <3>3, <3>5 DEF ClientInv, Isolated, Belong
    <3>6. Unknown(u, Len(made) + 1)
      BY <3>4, <3>5 DEF Unknown
    <3>7. \A n : Unknown(u, n) => Unknown(u, n)'
      BY <3>2 DEF Unknown
    <3> QED BY <3>2, <3>3, <3>6, <3>7
  <2>3. CASE Restored
    <3>1. backup[u] # none /\ r.ops = backup[u].ops
      BY <1>5, <2>3 DEF Restored
    <3> QED BY <1>2, <3>1
  <2> QED BY <1>0, <1>5, <2>1, <2>2, <2>3 DEF ServerStep, NextRevision
<1>6. Heard(u, r)' => Heard(u, r) \/ (r # none /\ r = server'[u])
  BY <1>0, HeardBefore DEF Heard
<1>7. backup'[u] \in {backup[u], server[u], server'[u]}
  BY <1>0 DEF ServerStep, NextRevision, Restored
<1> QED BY <1>3, <1>4, <1>5, <1>6, <1>7

LEMMA CoveredStep ==
  ASSUME HistoryInv, Unrefused, [Next]_clientVars, refusals' = 0, NEW u \in Users
  PROVE  Covered(u)'
<1>0. /\ ClientInv /\ Typed /\ DeviceStep /\ Covered(u) /\ InLine(u)
      /\ \A t \in Tabs : OwnerSaved(t) /\ ReadyFor(t)
  BY Kinds DEF HistoryInv, Unrefused, ClientInv
<1> SUFFICES ASSUME epoch' = 1, receipt'[u] # none PROVE receipt'[u].ops \subseteq bank'[u]
  BY DEF Covered
<1>1. epoch = 1
  <2>1. epoch' = epoch \/ epoch' = epoch + 1
    BY <1>0, ServerKinds DEF ServerStep, NextRevision, Restored
  <2>2. epoch \in 1..MaxEpoch /\ MaxEpoch \in Nat
    BY <1>0, Limits DEF Typed
  <2> QED BY <2>1, <2>2
<1>2. ASSUME receipt[u] # none
      PROVE  bank[u] # none /\ marker[u] /\ receipt[u].ops \subseteq bank[u]
  BY <1>0, <1>1, <1>2 DEF ClientInv, Vouched, Covered
<1>3. CASE UNCHANGED <<bank, marker, receipt>>
  BY <1>2, <1>3
<1>4. ASSUME NEW t \in Tabs, LocalCommand(t) PROVE receipt'[u].ops \subseteq bank'[u]
  BY <1>0, <1>2, <1>4, CommandFacts
<1>5. ASSUME NEW t \in Tabs, Activate(t) PROVE receipt'[u].ops \subseteq bank'[u]
  BY <1>0, <1>2, <1>5, ActivateFacts
<1>6. ASSUME NEW t \in Tabs, ApplyPreferences(t) PROVE receipt'[u].ops \subseteq bank'[u]
  BY <1>0, <1>2, <1>6, PreferencesFacts
<1>7. ASSUME NEW t \in Tabs, SyncImports(t) PROVE receipt'[u].ops \subseteq bank'[u]
  BY <1>0, <1>2, <1>7, ImportsFacts
<1>8. ASSUME NEW t \in Tabs, NEW n \in 0..3, NEW c, Saves(t, c, n)
      PROVE  receipt'[u].ops \subseteq bank'[u]
  <2>1. CASE u # c.user \/ n <= 1
    <3>1. bank'[u] = bank[u] /\ receipt'[u] = receipt[u]
      BY <1>0, <1>8, <2>1, SavesFacts
    <3> QED BY <1>2, <3>1
  <2>2. CASE u = c.user /\ n = 2
    <3>1. bank'[u] = c.answer.ops /\ receipt'[u] = receipt[u] /\ Heard(u, c.answer)
          /\ c.answer \in Revisions /\ Decision(receipt[u], c.answer) \in {"newer", "current"}
      BY <1>0, <1>8, <2>2, SavesFacts
    <3> DEFINE s == Vouches(receipt[u])
    <3>2. Heard(u, s) /\ s.ops = receipt[u].ops /\ s.epoch = receipt[u].epoch
          /\ s.revision = receipt[u].revision
      <4>1. s # none
        <5>1. receipt[u] \in Receipts
          BY <1>0, <3>1 DEF Typed
        <5>2. s \in Revisions
          BY <5>1 DEF Receipts, Revisions, Vouches
        <5> QED BY <5>2, Limits
      <4> QED BY <3>1, <4>1 DEF Heard, Vouches
    <3>3. s.epoch = c.answer.epoch
      <4>1. s.epoch \in 1..MaxEpoch /\ c.answer.epoch \in 1..MaxEpoch /\ MaxEpoch \in Nat
        BY <1>0, <3>1, <3>2, HeardTyped, Limits DEF Revisions
      <4>2. s.epoch <= 1 /\ c.answer.epoch <= 1
        BY <1>0, <1>1, <3>1, <3>2 DEF InLine
      <4> HIDE DEF s
      <4> QED BY <4>1, <4>2
    <3>4. s.revision <= c.answer.revision
      <4>1. receipt[u] \in Receipts \cup {none}
            /\ (receipt[u] # none => receipt[u].epoch \notin ToSet(receipt[u].retired))
        BY <1>0 DEF ClientInv, Typed, Vouched
      <4>2. c.answer.revision >= receipt[u].revision
        BY <3>1, <3>2, <3>3, <4>1, AdvancedFacts
      <4>3. receipt[u].revision \in Nat /\ c.answer.revision \in Nat
        BY <1>0, <3>1, <3>2, HeardTyped
      <4> QED BY <3>2, <4>2, <4>3
    <3>5. s.ops \subseteq c.answer.ops
      BY <1>0, <3>1, <3>2, <3>3, <3>4 DEF InLine
    <3> QED BY <3>1, <3>2, <3>5
  <2>3. CASE u = c.user /\ n = 3
    <3>1. /\ bank'[u] = c.answer.ops /\ receipt'[u] = Advanced(receipt[u], c.answer)
          /\ Vouches(Advanced(receipt[u], c.answer)) = c.answer
      BY <1>0, <1>8, <2>3, SavesFacts
    <3>2. Vouches(receipt'[u]).ops = receipt'[u].ops
      BY DEF Vouches
    <3> QED BY <3>1, <3>2
  <2> QED BY <2>1, <2>2, <2>3
<1> QED BY <1>0, <1>3, <1>4, <1>5, <1>6, <1>7, <1>8 DEF DeviceStep

LEMMA ImportsKeptStep ==
  ASSUME HistoryInv, Unrefused, [Next]_clientVars, refusals' = 0
  PROVE  ImportsKept'
<1>0. /\ ClientInv /\ Typed /\ DeviceStep /\ ImportsKept
      /\ \A c \in calls : c \in Sent /\ c.user \in Users /\ c.tab \in Tabs
      /\ \A t \in Tabs : OwnerSaved(t) /\ ReadyFor(t)
  BY Kinds DEF HistoryInv, Unrefused, ClientInv, Typed, Sent
<1>1. ASSUME NEW d \in calls', d.kind = "import", d.answer # none PROVE d.answer.ops = d.ops
  <2>1. ASSUME NEW c \in calls, Alike(d, c), ServerImports(c), d.answer = server'[c.user]
        PROVE  d.answer.ops = d.ops
    <3>1. server'[c.user] = [epoch |-> epoch, revision |-> 1, ops |-> c.ops]
      BY <1>0, <2>1 DEF ServerImports, Typed
    <3> QED BY <2>1, <3>1 DEF Alike
  <2>2. ASSUME NEW c \in calls, Alike(d, c) PROVE ~ServerExecutes(c)
    BY <1>1, <2>2 DEF ServerExecutes, Alike
  <2>3. CallStep(d)
    BY <1>0, CallKinds
  <2> QED BY <1>0, <1>1, <2>1, <2>2, <2>3 DEF CallStep, ImportsKept, Alike
<1>2. ASSUME NEW c \in LiveImports, receipt[c.user] = none
      PROVE  bank'[c.user] # none /\ bank'[c.user] \subseteq c.ops
  <2> DEFINE u == c.user
  <2>1. /\ c \in calls /\ c.kind = "import" /\ c.live /\ u \in Users /\ c.tab \in Tabs
        /\ marker[u] /\ bank[u] # none /\ bank[u] \subseteq c.ops
        /\ sync[c.tab].phase = "importing"
    BY <1>0, <1>2 DEF LiveImports, ImportsKept, HistoryInv, ImportsAwaited, ClientInv, ImportsMarked
  <2>2. bank'[u] # none
    BY <1>0, <2>1, DeviceStays
  <2>3. CASE bank'[u] = bank[u]
    BY <2>1, <2>3
  <2>4. ASSUME NEW o \in Tabs, LocalCommand(o) PROVE bank'[u] = bank[u]
    BY <1>0, <2>1, <2>4, CommandFacts
  <2>5. ASSUME NEW o \in Tabs, Activate(o) PROVE bank'[u] = bank[u]
    BY <1>0, <2>1, <2>5, ActivateFacts
  <2>6. ASSUME NEW o \in Tabs, ApplyPreferences(o) PROVE bank'[u] = bank[u]
    BY <1>0, <2>1, <2>6, PreferencesFacts
  <2>7. ASSUME NEW o \in Tabs, SyncImports(o) PROVE bank'[u] = bank[u]
    BY <1>0, <2>1, <2>7, ImportsFacts
  <2>8. ASSUME NEW o \in Tabs, NEW n \in 0..3, NEW e, Saves(o, e, n)
        PROVE  bank'[u] = bank[u] \/ bank'[u] = c.ops
    <3>1. CASE e.user # u \/ n <= 1
      BY <1>0, <2>1, <2>8, <3>1, SavesFacts
    <3>2. CASE e.user = u /\ n >= 2
      <4>1. bank'[u] = e.answer.ops
        BY <1>0, <2>1, <2>8, <3>2, SavesFacts
      <4>2. \A p \in Tabs : sync[p].phase \in Holding => p = c.tab
        BY <2>1 DEF HistoryInv, LockHeldOnce, Holding
      <4>3. CASE e \in Awaited(o) /\ e.kind = "command"
        BY <1>2, <3>2, <4>3 DEF HistoryInv, CommandsVouched, Awaited
      <4>4. CASE e \in Awaited(o) /\ e.kind # "command"
        <5>1. e \in LiveImports /\ e.tab = o
          BY <1>0, <4>4 DEF Awaited, LiveImports, Sent
        <5>2. sync[o].phase = "importing"
          BY <5>1 DEF HistoryInv, ImportsAwaited
        <5>3. e = c
          BY <1>2, <4>2, <5>1, <5>2 DEF HistoryInv, ImportsAwaited, Holding
        <5>4. e.answer # none
          BY <2>8, Limits, <1>0, SavesFacts
        <5> QED BY <1>0, <2>1, <4>1, <5>3, <5>4 DEF ImportsKept
      <4>5. CASE e \notin Awaited(o)
        <5>1. sync[o].phase = "applied"
          BY <2>8, <4>5 DEF Saves, Taken
        <5> QED BY <2>1, <4>2, <5>1 DEF Holding
      <4> QED BY <4>3, <4>4, <4>5
    <3> QED BY <3>1, <3>2, <1>0, <2>8, SavesFacts
  <2>9. CASE bank'[u] = c.ops
    BY <2>2, <2>9
  <2> QED BY <1>0, <2>2, <2>3, <2>4, <2>5, <2>6, <2>7, <2>8, <2>9 DEF DeviceStep
<1>3. ASSUME NEW t \in Tabs, SyncImports(t), MutationBase(t).owner = sync[t].user,
             Same(t, tab[t].proved)
      PROVE  /\ bank'[session[t].user] # none
             /\ bank'[session[t].user] \subseteq MutationBase(t).ops
  <2> DEFINE u == sync[t].user
  <2>1. u \in Users /\ tab[t].scope = u /\ UNCHANGED bank /\ u # none
    BY <1>0, <1>3, ImportsFacts, Limits
  <2>2. session[t].user = u
    BY <1>0, <1>3, <2>1 DEF ClientInv, TabInv, Fits, Same
  <2>3. bank[u] # none /\ MutationBase(t).ops = bank[u]
    BY <1>0, <1>3, <2>1, BaseCases
  <2> QED BY <2>1, <2>2, <2>3
<1>4. ASSUME NEW d \in calls', d.kind = "import", d.live, receipt'[d.user] = none
      PROVE  bank'[d.user] # none /\ bank'[d.user] \subseteq d.ops
  <2>1. CallStep(d)
    BY <1>0, CallKinds
  <2>2. ASSUME NEW c \in calls, Alike(d, c), c.live
        PROVE  bank'[d.user] # none /\ bank'[d.user] \subseteq d.ops
    <3>1. c \in LiveImports /\ c.user = d.user /\ c.ops = d.ops
      BY <1>4, <2>2 DEF Alike, LiveImports
    <3>2. receipt[c.user] = none
      BY <1>0, <1>4, <3>1, DeviceStays
    <3> QED BY <1>2, <3>1, <3>2
  <2>3. ASSUME NEW t \in Tabs, NEW kind, NEW ops, Alike(d, Call(t, kind, ops))
        PROVE  d.kind = kind /\ d.user = session[t].user /\ d.ops = ops
    BY <2>3 DEF Call, Alike
  <2>4. CASE d \in calls
    BY <1>4, <2>2, <2>4 DEF Alike
  <2>5. ASSUME NEW t \in Tabs, Alike(d, Call(t, "command", {Len(made')})) PROVE FALSE
    BY <1>4, <2>3, <2>5
  <2>6. ASSUME NEW t \in Tabs, Alike(d, Call(t, "import", MutationBase(t).ops)), SyncImports(t),
               MutationBase(t).owner = sync[t].user, Same(t, tab[t].proved)
        PROVE  bank'[d.user] # none /\ bank'[d.user] \subseteq d.ops
    <3>1. d.user = session[t].user /\ d.ops = MutationBase(t).ops
      BY <2>3, <2>6
    <3> QED BY <1>3, <2>6, <3>1
  <2> QED BY <1>4, <2>1, <2>2, <2>4, <2>5, <2>6 DEF CallStep
<1> QED BY <1>1, <1>4 DEF ImportsKept

-----------------------------------------------------------------------------
(* The invariant.                                                          *)

LEMMA InitHistory == Init => HistoryInv
<1> SUFFICES ASSUME Init PROVE HistoryInv
  OBVIOUS
<1>1. ClientInv
  BY InitClient
<1>2. /\ \A t \in Tabs : /\ sync[t].phase = "idle" /\ sync[t].bank = none
                         /\ tab[t].owner = none /\ tab[t].scope = none
      /\ \A u \in Users : /\ server[u] = none /\ receipt[u] = none /\ backup[u] = none
      /\ calls = {}
  BY DEF Init, Resting, LaunchTab
<1>3. \A u \in Users : \A r : ~Heard(u, r)
  BY <1>2 DEF Heard
<1>4. \A u \in Users : InLine(u)
  BY <1>2, <1>3 DEF InLine
<1>5. CommandsVouched /\ LockHeldOnce /\ ImportsAwaited /\ ImportsKept
  BY <1>2 DEF CommandsVouched, LockHeldOnce, ImportsAwaited, LiveImports, ImportsKept, Holding
<1>6. \A t \in Tabs : OwnerSaved(t) /\ ReadyFor(t) /\ Adoptable(t)
  BY <1>2 DEF OwnerSaved, ReadyFor, Adoptable
<1>7. \A u \in Users : Elsewhere(u) /\ Covered(u)
  BY <1>2, <1>3 DEF Elsewhere, Covered
<1> QED BY <1>1, <1>4, <1>5, <1>6, <1>7 DEF HistoryInv, Unrefused

LEMMA NextHistory ==
  ASSUME HistoryInv, [Next]_clientVars
  PROVE  HistoryInv'
<1>1. ClientInv /\ ClientInv'
  BY NextClient DEF HistoryInv
<1>2. \A u \in Users : InLine(u)'
  BY <1>1, LineGrows DEF HistoryInv
<1>3. CommandsVouched' /\ LockHeldOnce' /\ ImportsAwaited'
  BY <1>1, CommandsVouchedStep, LockStep, ImportsAwaitedStep DEF HistoryInv
<1>4. ASSUME refusals' = 0 PROVE Unrefused'
  <2>1. Unrefused
    BY <1>1, <1>4, RefusalsStay DEF HistoryInv
  <2>2. \A t \in Tabs : OwnerSaved(t)' /\ ReadyFor(t)' /\ Adoptable(t)'
    BY <1>4, <2>1, OwnerSavedStep, ReadyStep, AdoptableStep
  <2>3. \A u \in Users : Elsewhere(u)' /\ Covered(u)'
    BY <1>4, <2>1, ElsewhereStep, CoveredStep
  <2>4. ImportsKept'
    BY <1>4, <2>1, ImportsKeptStep
  <2> QED BY <2>2, <2>3, <2>4 DEF Unrefused
<1> QED BY <1>1, <1>2, <1>3, <1>4 DEF HistoryInv

\* The inductive invariant of the histories: the revisions of a ledger that server,
\* requests, launches and receipts hold form one line; who may hold the launch lock and
\* wait for an import; and, while storage takes every write, what memory, the saved bank,
\* the marker and the receipt say of each other.
THEOREM HistoryConsistent == Spec => []HistoryInv
<1>1. Init => HistoryInv
  BY InitHistory
<1>2. HistoryInv /\ [Next]_clientVars => HistoryInv'
  BY NextHistory
<1> QED BY <1>1, <1>2, PTL DEF Spec

-----------------------------------------------------------------------------
(* What follows.                                                           *)

\* No answer and no offer in hand contradicts the receipt of its revision: what the
\* classification calls a conflict of digests cannot come from late, repeated or reordered
\* answers, nor from restored databases.
RevisionsAgree ==
  \A t \in Tabs : \A c : Taken(t, c) => Decision(receipt[c.user], c.answer) # "digest_conflict"

\* The classification of ledgerAuthorityReceipt.ts never finds such a conflict.
THEOREM KnownRevisionsAgree == Spec => []RevisionsAgree
<1>1. HistoryInv => RevisionsAgree
  <2> SUFFICES ASSUME HistoryInv, NEW t \in Tabs, NEW c, Taken(t, c),
                      Decision(receipt[c.user], c.answer) = "digest_conflict"
               PROVE  FALSE
    BY DEF RevisionsAgree
  <2> DEFINE u == c.user
             r == c.answer
             s == Vouches(receipt[u])
  <2>1. ClientInv /\ u \in Users /\ r \in Revisions /\ r # none
    BY TakenAnswer, Limits DEF HistoryInv, Answer
  <2>2. receipt[u] # none /\ receipt[u].epoch = r.epoch /\ r.ops # receipt[u].ops
        /\ ~(r.revision < receipt[u].revision) /\ ~(r.revision > receipt[u].revision)
    BY DEF Decision
  <2>3. s.ops = receipt[u].ops /\ s.epoch = receipt[u].epoch /\ s.revision = receipt[u].revision
    BY DEF Vouches
  <2>4. Heard(u, s)
    <3>1. receipt[u] \in Receipts
      BY <2>1, <2>2 DEF ClientInv, Typed
    <3>2. s \in Revisions
      BY <3>1 DEF Receipts, Revisions, Vouches
    <3> QED BY <2>2, <3>2, Limits DEF Heard
  <2>5. Heard(u, r)
    <3>1. CASE c \in Awaited(t)
      BY <2>1, <3>1 DEF Awaited, Heard
    <3>2. CASE c = Offered(t)
      BY <2>1, <3>2 DEF Offered, Heard
    <3> QED BY <3>1, <3>2 DEF Taken
  <2>6. s.revision \in Nat /\ r.revision \in Nat
    BY <2>1, <2>4, <2>5, HeardTyped
  <2>7. r.ops \subseteq s.ops /\ s.ops \subseteq r.ops
    <3>1. r.revision <= s.revision /\ s.revision <= r.revision
      BY <2>2, <2>3, <2>6
    <3> HIDE DEF s
    <3> QED BY <2>1, <2>2, <2>3, <2>4, <2>5, <3>1 DEF HistoryInv, InLine
  <2> QED BY <2>2, <2>3, <2>7
<1> QED BY <1>1, HistoryConsistent, PTL

\* The receipt is written last, and what is saved under it never gets less: what it
\* vouches for is in the saved bank, for any number of tabs that die between the writes,
\* before a database was restored and while storage takes every write.
THEOREM BankCovers == Spec => []BankCoversReceipt
<1>1. HistoryInv => BankCoversReceipt
  BY DEF HistoryInv, Unrefused, Covered, ClientInv, Vouched, BankCoversReceipt
<1> QED BY <1>1, HistoryConsistent, PTL

\* Only a local command adds to a bank by itself, and not under a marker.
LEMMA LocalPathOpen ==
  ASSUME ClientInv, [Next]_clientVars, NEW t \in Tabs,
         tab'[t].ops # tab[t].ops, Len(made') > Len(made)
  PROVE  ~marker[Scope(t)]
<1>0. Typed /\ made # made'
  BY DEF ClientInv, Typed
<1>1. ASSUME NEW o \in Tabs, LocalCommand(o) PROVE ~marker[Scope(t)]
  <2>1. o = t
    BY <1>0, <1>1 DEF LocalCommand, Commit, Typed
  <2> QED BY <1>1, <2>1 DEF LocalCommand
<1>2. UNCHANGED made \/ UNCHANGED tab => FALSE
  BY <1>0
<1>3. CASE Server \/ Others
  BY <1>2, <1>3 DEF Server, ServerExecutes, ServerImports, ServerAnswersLaunch, Others,
     OthersCommand, OthersImport, OperatorActivates, OperatorRollsBack, OperatorBacksUp,
     OperatorRestores
<1>4. CASE Store
  BY <1>1, <1>2, <1>4 DEF Store, LocalCommandRefused, SeesSavedBank, SendCommand,
     SendFindsOtherSession, CommandAnswered, CommandFails
<1>5. CASE Launch
  BY <1>2, <1>5 DEF Launch, SyncSteps, SyncStart, SyncFails, SyncFindsOtherSession, Activate,
     ApplyPreferences, SyncFindsOtherScope, SyncLocally, SyncImports, SyncAdopts,
     ImportAnswered, ImportRefused
<1>6. CASE Host
  BY <1>2, <1>6 DEF Host, Approve, SwitchSession, NoticeSession, Reload
<1>7. CASE UNCHANGED clientVars
  BY <1>2, <1>7 DEF clientVars
<1> QED BY <1>3, <1>4, <1>5, <1>6, <1>7 DEF Next

\* What is saved goes only for a ledger that the server owned already, or with the word
\* of the user.
LEMMA SavedStays ==
  ASSUME HistoryInv, [Next]_clientVars, refusals' = 0, NEW u \in Users,
         bank[u] # none, ~ bank[u] \subseteq bank'[u], receipt[u] = none
  PROVE  \E t \in Tabs : Scope(t) = u /\ tab[t].approved
<1>0. ClientInv /\ Unrefused /\ DeviceStep /\ \A t \in Tabs : OwnerSaved(t) /\ ReadyFor(t)
  BY Kinds, RefusalsStay DEF HistoryInv, Unrefused
<1>1. CASE UNCHANGED <<bank, marker, receipt>>
  BY <1>1
<1>2. ASSUME NEW o \in Tabs, LocalCommand(o) PROVE FALSE
  BY <1>0, <1>2, CommandFacts
<1>3. ASSUME NEW o \in Tabs, Activate(o) PROVE FALSE
  BY <1>0, <1>3, ActivateFacts
<1>4. ASSUME NEW o \in Tabs, ApplyPreferences(o) PROVE FALSE
  BY <1>0, <1>4, PreferencesFacts
<1>5. ASSUME NEW o \in Tabs, SyncImports(o) PROVE FALSE
  BY <1>0, <1>5, ImportsFacts
<1>6. ASSUME NEW o \in Tabs, NEW n \in 0..3, NEW c, Saves(o, c, n)
      PROVE  Scope(o) = u /\ tab[o].approved
  <2>1. c.user = u /\ bank'[u] = c.answer.ops /\ Scope(o) = u /\ Heard(u, c.answer)
        /\ c.answer # none /\ ~NeedsApproval(o, c)
    BY <1>0, <1>6, SavesFacts, Limits DEF Scope
  <2>2. CASE c \in Awaited(o) /\ c.kind = "command"
    BY <2>1, <2>2 DEF HistoryInv, CommandsVouched, Awaited
  <2>3. CASE c \in Awaited(o) /\ c.kind # "command"
    <3>1. c \in calls /\ c.kind = "import" /\ c.live
      BY <1>0, <2>3 DEF Awaited, ClientInv, Typed, Sent
    <3> QED BY <1>0, <2>1, <3>1 DEF Unrefused, ImportsKept
  <2>4. CASE c \notin Awaited(o)
    <3>1. sync[o].phase = "applied" /\ sync[o].offer = "server" /\ c = Offered(o)
      BY <1>6, <2>4 DEF Saves, Taken
    <3>2. sync[o].user = u /\ tab[o].scope = u
      BY <2>1, <3>1 DEF Offered, Scope
    <3>3. tab[o].unconfirmed /\ (tab[o].ops = bank[u] \/ ~marker[u])
      BY <1>0, <3>1, <3>2 DEF Unrefused, Adoptable
    <3>4. ~marker[u] => tab[o].ops # c.answer.ops
      BY <1>0, <2>1, <3>2 DEF Unrefused, Elsewhere, Unknown
    <3>5. tab[o].ops = bank[u] => tab[o].ops # c.answer.ops
      BY <2>1
    <3> QED BY <2>1, <3>3, <3>4, <3>5 DEF NeedsApproval
  <2> QED BY <2>2, <2>3, <2>4
<1> QED BY <1>0, <1>1, <1>2, <1>3, <1>4, <1>5, <1>6 DEF DeviceStep

\* Local history ends when the server takes over, and is not lost before.
THEOREM HistoryKept == Spec => LocalHistoryKept
<1>1. HistoryInv /\ [Next]_clientVars =>
        [/\ \A t \in Tabs :
              tab'[t].ops # tab[t].ops /\ Len(made') > Len(made) => ~marker[Scope(t)]
         /\ \A u \in Users : refusals' = 0 /\ bank[u] # none /\ ~ bank[u] \subseteq bank'[u] =>
              receipt[u] # none \/ \E t \in Tabs : Scope(t) = u /\ tab[t].approved]_clientVars
  <2> SUFFICES ASSUME HistoryInv, [Next]_clientVars
               PROVE  /\ \A t \in Tabs :
                           tab'[t].ops # tab[t].ops /\ Len(made') > Len(made) => ~marker[Scope(t)]
                      /\ \A u \in Users :
                           refusals' = 0 /\ bank[u] # none /\ ~ bank[u] \subseteq bank'[u] =>
                           receipt[u] # none \/ \E t \in Tabs : Scope(t) = u /\ tab[t].approved
    OBVIOUS
  <2>1. ClientInv
    BY DEF HistoryInv
  <2> QED BY <2>1, LocalPathOpen, SavedStays
<1> QED BY <1>1, HistoryConsistent, PTL DEF Spec, LocalHistoryKept

-----------------------------------------------------------------------------
(* What the screen of the only tab shows.                                  *)

\* Nothing is saved that the receipt does not vouch for.
Settled(u) == receipt[u] # none /\ bank[u] = receipt[u].ops

\* A revision that the device has left behind.
Overtaken(u, r) ==
  /\ receipt[u] # none
  /\ r.epoch = receipt[u].epoch /\ r.revision < receipt[u].revision

\* A ledger that the launch of a tab has in hand.
Pending(t, u, r) ==
  /\ r # none
  /\ \/ sync[t].user = u /\ sync[t].bank = r
     \/ \E c \in Awaited(t) : c.kind = "import" /\ c.user = u /\ c.answer = r

\* A tab that may send commands, or shows the server's ledger, is one of a device that
\* saved nothing but that ledger; and so is one whose launch was overtaken by a command.
ScreenInv(t) ==
  /\ tab[t].gateway => Settled(tab[t].scope)
  /\ tab[t].mode = "server" => Settled(tab[t].scope) /\ tab[t].ops = bank[tab[t].scope]
  /\ \A u \in Users : \A r : Pending(t, u, r) /\ Overtaken(u, r) => Settled(u)

\* The answer of a command contains it.
AnswersContain ==
  \A c \in calls : c.kind = "command" /\ c.answer # none => c.ops \subseteq c.answer.ops

ShownInv ==
  /\ HistoryInv /\ AnswersContain
  /\ refusals = 0 => \A t \in Tabs : ScreenInv(t)

\* A command is executed into the revision that answers it, and its answer stays.
LEMMA AnswersContainStep ==
  ASSUME ClientInv, AnswersContain, [Next]_clientVars
  PROVE  AnswersContain'
<1> SUFFICES ASSUME NEW d \in calls', d.kind = "command", d.answer # none
             PROVE  d.ops \subseteq d.answer.ops
  BY DEF AnswersContain
<1>0. Typed /\ \A c \in calls : c \in Sent
  BY DEF ClientInv, Typed
<1>1. CallStep(d)
  BY CallKinds
<1>2. ASSUME NEW c \in calls, Alike(d, c), d.answer = server'[c.user],
             ServerExecutes(c) \/ ServerImports(c)
      PROVE  d.ops \subseteq d.answer.ops
  <2>1. ServerExecutes(c)
    BY <1>2 DEF Alike, ServerImports
  <2>2. c.user \in Users /\ c.ops \in SUBSET Ops /\ d.ops = c.ops
    BY <1>0, <1>2 DEF Sent, Alike
  <2>3. server'[c.user] = Commanded(server[c.user], c.ops) /\ HasRoom(c.user)
    BY <1>0, <2>1, <2>2 DEF ServerExecutes, Typed
  <2>4. Commanded(server[c.user], c.ops).ops = server[c.user].ops \cup c.ops
    BY <1>0, <2>2, <2>3, LedgerTypes
  <2> QED BY <1>2, <2>2, <2>3, <2>4
<1> QED BY <1>1, <1>2 DEF CallStep, Alike, AnswersContain

-----------------------------------------------------------------------------
(* What the only tab may do.                                               *)

\* A tab that shows no server's ledger and sends no command.
Powerless(R) == ~R.gateway /\ R.mode # "server"

\* The modes without a server.
Idle == {"local", "read_only"}

\* It gains nothing.
Calm(T, R) ==
  /\ R.scope = T.scope /\ (R.gateway => T.gateway)
  /\ R.mode = "server" => T.mode = "server" /\ R.ops = T.ops

\* It may send commands again, because the device knows a later ledger.
Trusts(t, c) ==
  /\ c.user \in Users
  /\ Pending(t, c.user, c.answer) /\ Overtaken(c.user, c.answer) /\ tab[t].scope = c.user
  /\ tab'[t].scope = tab[t].scope /\ tab'[t].mode = tab[t].mode /\ tab'[t].ops = tab[t].ops

ScreenStep(t) ==
  \/ Powerless(tab'[t]) /\ (UNCHANGED <<bank, receipt>> \/ LocalCommand(t) \/ Reload(t))
  \/ UNCHANGED <<bank, receipt>> /\ (Calm(tab[t], tab'[t]) \/ \E c : Trusts(t, c))
  \/ /\ Activate(t) /\ tab'[t].gateway = tab[t].gateway
     /\ tab'[t].mode = "server" => tab[t].gateway
  \/ /\ ApplyPreferences(t) /\ tab'[t].gateway = tab[t].gateway
     /\ tab'[t].mode = tab[t].mode
  \/ \E c : Saves(t, c, 3) /\ Shows(tab'[t], c)

\* An adoption that no storage refuses.
LEMMA AdoptScreen ==
  ASSUME ClientInv, NEW t \in Tabs, NEW c, Taken(t, c), Ends(t, c),
         NEW gateway \in BOOLEAN, NEW result, Adopt(t, c, gateway, result), result # "refused"
  PROVE  \/ Saves(t, c, 3) /\ Shows(tab'[t], c)
         \/ UNCHANGED <<bank, receipt>> /\ (Powerless(tab'[t]) \/ Calm(tab[t], tab'[t]))
         \/ /\ UNCHANGED <<bank, receipt>>
            /\ gateway # tab[t].gateway
            /\ Overtaken(c.user, c.answer) /\ tab[t].scope = c.user
            /\ tab'[t].scope = tab[t].scope /\ tab'[t].mode = tab[t].mode
            /\ tab'[t].ops = tab[t].ops
<1>0. tab[t] \in Memory /\ Typed
  BY DEF ClientInv, Typed
<1>1. ASSUME NEW asks, tab' = [tab EXCEPT ![t] = [@ EXCEPT !.gateway = FALSE,
                                                  !.mode = "read_only", !.asks = asks]]
      PROVE  Powerless(tab'[t])
  BY <1>0, <1>1 DEF Powerless, Typed, Memory
<1>2. ASSUME UNCHANGED tab PROVE Calm(tab[t], tab'[t])
  BY <1>2 DEF Calm
<1>3. ASSUME Acceptable(t, c), Writes(c, 3),
             tab' = [tab EXCEPT ![t] = [@ EXCEPT
                       !.owner = c.user, !.ops = c.answer.ops, !.mode = "server",
                       !.gateway = gateway, !.dirty = FALSE, !.fresh = FALSE,
                       !.unconfirmed = FALSE, !.approved = FALSE, !.asks = FALSE]]
      PROVE  Saves(t, c, 3) /\ Shows(tab'[t], c)
  <2>1. tab'[t] = [tab[t] EXCEPT
                       !.owner = c.user, !.ops = c.answer.ops, !.mode = "server",
                       !.gateway = gateway, !.dirty = FALSE, !.fresh = FALSE,
                       !.unconfirmed = FALSE, !.approved = FALSE, !.asks = FALSE]
    BY <1>0, <1>3 DEF Typed
  <2>2. tab[t].scope = c.user
    BY <1>3 DEF Acceptable, Scope
  <2>3. Shows(tab'[t], c)
    BY <1>0, <2>1, <2>2 DEF Shows, Memory
  <2> QED BY <1>3, <2>3 DEF Saves
<1>4. ASSUME tab' = [tab EXCEPT ![t].gateway = gateway]
      PROVE  /\ gateway = tab[t].gateway => Calm(tab[t], tab'[t])
             /\ tab'[t].scope = tab[t].scope /\ tab'[t].mode = tab[t].mode
             /\ tab'[t].ops = tab[t].ops
  BY <1>0, <1>4 DEF Calm, Typed, Memory
<1>5. ASSUME Decision(receipt[c.user], c.answer) = "stale" PROVE Overtaken(c.user, c.answer)
  BY <1>5 DEF Decision, Overtaken
<1>6. \/ UNCHANGED <<bank, marker, receipt>> /\ \E asks :
           tab' = [tab EXCEPT ![t] = [@ EXCEPT !.gateway = FALSE, !.mode = "read_only",
                                               !.asks = asks]]
      \/ /\ UNCHANGED <<bank, marker, receipt>> /\ Scope(t) = c.user
         /\ Decision(receipt[c.user], c.answer) = "stale"
         /\ tab' = [tab EXCEPT ![t].gateway = gateway]
      \/ UNCHANGED <<bank, marker, receipt>> /\ UNCHANGED tab
      \/ /\ Acceptable(t, c) /\ Writes(c, 3)
         /\ tab' = [tab EXCEPT ![t] = [@ EXCEPT
                       !.owner = c.user, !.ops = c.answer.ops, !.mode = "server",
                       !.gateway = gateway, !.dirty = FALSE, !.fresh = FALSE,
                       !.unconfirmed = FALSE, !.approved = FALSE, !.asks = FALSE]]
  BY DEF Adopt
<1>7. CASE /\ UNCHANGED <<bank, marker, receipt>> /\ Scope(t) = c.user
           /\ Decision(receipt[c.user], c.answer) = "stale"
           /\ tab' = [tab EXCEPT ![t].gateway = gateway]
  BY <1>4, <1>5, <1>7 DEF Scope
<1> QED BY <1>1, <1>2, <1>3, <1>6, <1>7

\* Memory without power.
LEMMA PowerlessMemory ==
  ASSUME Typed, NEW t \in Tabs,
         \/ SessionLost(t)
         \/ tab' = [tab EXCEPT ![t] = Quarantined(@)]
         \/ tab' = [tab EXCEPT ![t] = LaunchTab]
  PROVE  Powerless(tab'[t])
<1> DEFINE Q == Quarantined(tab[t])
<1>1. DOMAIN tab[t] = {"scope", "owner", "ops", "mode", "dirty", "fresh", "unconfirmed",
                       "approved", "asks", "gateway", "proved", "bound"}
  BY DEF Typed, Memory
<1>2. Powerless(Q) /\ DOMAIN Q = DOMAIN tab[t]
  BY <1>1 DEF Powerless, Quarantined
<1> HIDE DEF Q
<1>3. Powerless([Q EXCEPT !.proved = 0])
  BY <1>1, <1>2 DEF Powerless
<1>4. Powerless(LaunchTab)
  BY DEF Powerless, LaunchTab
<1>5. tab' = [tab EXCEPT ![t] = Q] \/ tab' = [tab EXCEPT ![t] = [Q EXCEPT !.proved = 0]]
      \/ tab' = [tab EXCEPT ![t] = LaunchTab]
  BY DEF SessionLost, Q
<1> QED BY <1>2, <1>3, <1>4, <1>5 DEF Typed

\* Memory that gains no power.
LEMMA CalmMemory ==
  ASSUME Typed, NEW t \in Tabs, NEW R, tab' = [tab EXCEPT ![t] = R],
         \/ \E a : \E m \in Idle : R = [tab[t] EXCEPT !.mode = m, !.asks = a]
         \/ \E m \in Idle : R = [tab[t] EXCEPT !.mode = m]
         \/ \E a : R = [tab[t] EXCEPT !.asks = a]
         \/ \E a : R = [tab[t] EXCEPT !.approved = a]
         \/ \E a : \E m \in Idle : R = [tab[t] EXCEPT !.gateway = FALSE, !.asks = a, !.mode = m]
         \/ /\ tab[t].mode # "server"
            /\ \E o, ops : R = [tab[t] EXCEPT !.owner = o, !.ops = ops]
         \/ R = tab[t]
  PROVE  Calm(tab[t], tab'[t])
<1>1. tab[t] \in Memory /\ tab'[t] = R
  BY DEF Typed
<1>2. Calm(tab[t], R)
  BY <1>1 DEF Calm, Memory, Idle
<1> QED BY <1>1, <1>2

\* A mutation of the bank changes neither.
LEMMA CommitKeeps ==
  ASSUME Typed, NEW t \in Tabs, NEW T \in Memory, NEW base, NEW saved,
         Commit(t, T, base, saved)
  PROVE  tab'[t].gateway = T.gateway /\ tab'[t].mode = T.mode
<1>1. tab'[t] = [T EXCEPT !.owner = base.owner, !.ops = base.ops, !.dirty = ~saved]
  BY DEF Commit, Typed
<1> QED BY <1>1 DEF Memory

\* Nor does the start of a launch make a tab trust a server.
LEMMA ActivateKeeps ==
  ASSUME Typed, NEW t \in Tabs, Activate(t)
  PROVE  tab'[t].gateway = tab[t].gateway /\ (tab'[t].mode = "server" => tab[t].gateway)
<1> DEFINE u == sync[t].user
           g == tab[t].gateway
           m == IF g THEN "server" ELSE IF marker[u] THEN "read_only" ELSE "local"
           was == receipt[u] = none
           T == [tab[t] EXCEPT !.scope = u, !.proved = sync[t].serial, !.bound = sync[t].serial,
                   !.mode = m]
           X == [T EXCEPT !.owner = u, !.ops = bank'[u], !.dirty = FALSE, !.fresh = FALSE,
                          !.unconfirmed = was, !.asks = FALSE]
           Y == [T EXCEPT !.owner = none, !.ops = {}, !.dirty = FALSE, !.fresh = TRUE,
                          !.unconfirmed = FALSE, !.asks = FALSE]
           unsaved == tab[t].scope = u /\ tab[t].owner = u /\ tab[t].dirty
           aligned == ~unsaved /\ Migrated(u) # none
           R == IF unsaved THEN T ELSE IF aligned THEN X ELSE Y
<1>1. tab' = [tab EXCEPT ![t] = R]
  BY ZenonT(60) DEF Activate
<1>2. DOMAIN tab[t] = {"scope", "owner", "ops", "mode", "dirty", "fresh", "unconfirmed",
                       "approved", "asks", "gateway", "proved", "bound"}
  BY DEF Typed, Memory
<1>3. T.gateway = g /\ T.mode = m /\ DOMAIN T = DOMAIN tab[t]
  BY <1>2
<1>4. m = "server" => g
  OBVIOUS
<1> HIDE DEF T, g, m, was
<1>5. X.gateway = g /\ X.mode = m /\ Y.gateway = g /\ Y.mode = m
  BY <1>2, <1>3
<1> HIDE DEF X, Y, unsaved, aligned
<1>6. R.gateway = g /\ R.mode = m
  BY <1>3, <1>5
<1> HIDE DEF R
<1>7. tab'[t] = R
  BY <1>1 DEF Typed
<1> QED BY <1>4, <1>6, <1>7 DEF g

\* A step of the only tab, while storage refuses nothing.
LEMMA AloneSteps ==
  ASSUME ClientInv, [Next]_clientVars, refusals' = 0, NEW t, Tabs = {t}
  PROVE  ScreenStep(t)
<1>0. Typed /\ (\A c \in calls : c.tab = t /\ c \in Sent) /\ tab[t] \in Memory /\ refusals \in Nat
      /\ t \in Tabs
  BY DEF ClientInv, Typed, Sent
<1>1. ASSUME UNCHANGED <<bank, receipt>>,
             \/ SessionLost(t)
             \/ tab' = [tab EXCEPT ![t] = Quarantined(@)]
             \/ tab' = [tab EXCEPT ![t] = LaunchTab]
      PROVE  ScreenStep(t)
  BY <1>0, <1>1, PowerlessMemory DEF ScreenStep
<1>2. ASSUME UNCHANGED <<bank, receipt>>, NEW R, tab' = [tab EXCEPT ![t] = R],
             \/ \E a : \E m \in Idle : R = [tab[t] EXCEPT !.mode = m, !.asks = a]
             \/ \E m \in Idle : R = [tab[t] EXCEPT !.mode = m]
             \/ \E a : R = [tab[t] EXCEPT !.asks = a]
             \/ \E a : R = [tab[t] EXCEPT !.approved = a]
             \/ \E a : \E m \in Idle : R = [tab[t] EXCEPT !.gateway = FALSE, !.asks = a, !.mode = m]
             \/ /\ tab[t].mode # "server"
                /\ \E o, ops : R = [tab[t] EXCEPT !.owner = o, !.ops = ops]
             \/ R = tab[t]
      PROVE  ScreenStep(t)
  <2>1. Calm(tab[t], tab'[t])
    BY <1>0, <1>2, CalmMemory
  <2> QED BY <1>2, <2>1 DEF ScreenStep
<1>3. ASSUME UNCHANGED tab, UNCHANGED <<bank, receipt>> PROVE ScreenStep(t)
  BY <1>3 DEF ScreenStep, Calm
<1>4. ASSUME NEW c, Taken(t, c), Ends(t, c), NEW gateway \in BOOLEAN, NEW result,
             Adopt(t, c, gateway, result), Conclude(t, result) \/ Counted(result),
             gateway # tab[t].gateway => Pending(t, c.user, c.answer)
      PROVE  ScreenStep(t)
  <2>1. result # "refused"
    <3>1. result = "refused" => Refusal
      BY <1>4 DEF Conclude, Counted
    <3> QED BY <1>0, <3>1 DEF Refusal
  <2>2. c.user \in Users
    BY <1>0, <1>4, TakenAnswer DEF Answer
  <2> QED BY <1>0, <1>4, <2>1, <2>2, AdoptScreen DEF ScreenStep, Trusts
<1>5. ASSUME NEW d, NEW due, Rest(d, due), d = t PROVE sync'[t].phase = "idle"
  BY <1>0, <1>5 DEF Rest, Resting, Typed
<1>6. CASE Server \/ Others
  BY <1>3, <1>6 DEF Server, ServerExecutes, ServerImports, ServerAnswersLaunch, Others,
     OthersCommand, OthersImport, OperatorActivates, OperatorRollsBack, OperatorBacksUp,
     OperatorRestores, device
<1>7. CASE Store
  <2>1. ASSUME LocalCommand(t) PROVE ScreenStep(t)
    <3>1. ~tab[t].gateway /\ tab[t].mode = "local"
      BY <1>0, <2>1 DEF LocalCommand, ClientInv, TabInv, Fits, Vouched, Scope, Memory
    <3>2. \E base, saved : Commit(t, tab[t], base, saved)
      BY <2>1 DEF LocalCommand
    <3>3. Powerless(tab'[t])
      BY <1>0, <3>1, <3>2, CommitKeeps DEF Powerless
    <3> QED BY <2>1, <3>3 DEF ScreenStep
  <2>2. ASSUME LocalCommandRefused(t) PROVE ScreenStep(t)
    <3> DEFINE R == [tab[t] EXCEPT !.mode = "read_only", !.asks = FALSE]
    <3>1. \E a : \E m \in Idle : R = [tab[t] EXCEPT !.mode = m, !.asks = a]
      <4>1. "read_only" \in Idle
        BY DEF Idle
      <4> QED BY <4>1
    <3>2. tab' = [tab EXCEPT ![t] = R] /\ UNCHANGED <<bank, receipt>>
      BY <2>2 DEF LocalCommandRefused, device
    <3> HIDE DEF R
    <3> QED BY <1>2, <3>1, <3>2
  <2>3. ASSUME SeesSavedBank(t) PROVE ScreenStep(t)
    <3> DEFINE R == [tab[t] EXCEPT !.owner = Scope(t), !.ops = bank[Scope(t)]]
    <3>1. \E o, ops : R = [tab[t] EXCEPT !.owner = o, !.ops = ops]
      OBVIOUS
    <3>2. tab' = [tab EXCEPT ![t] = R] /\ UNCHANGED <<bank, receipt>> /\ tab[t].mode # "server"
      BY <2>3 DEF SeesSavedBank, device
    <3> HIDE DEF R
    <3> QED BY <1>2, <3>1, <3>2
  <2>4. ASSUME SendCommand(t) PROVE ScreenStep(t)
    BY <1>3, <2>4 DEF SendCommand, device
  <2>5. ASSUME SendFindsOtherSession(t) PROVE ScreenStep(t)
    BY <1>1, <2>5 DEF SendFindsOtherSession, device
  <2>6. ASSUME NEW c \in calls, CommandAnswered(c) PROVE ScreenStep(t)
    <3>1. CASE \E result \in Results : Adopt(t, c, tab[t].gateway, result) /\ Counted(result)
      <4>1. tab[t].gateway \in BOOLEAN
        BY <1>0 DEF Memory
      <4>2. Taken(t, c) /\ Ends(t, c)
        BY <1>0, <2>6 DEF CommandAnswered, Taken, Awaited, Ends
      <4> QED BY <1>4, <3>1, <4>1, <4>2
    <3>2. CASE SessionLost(t) /\ UNCHANGED <<bank, marker, receipt, failed>>
      BY <1>1, <3>2
    <3> QED BY <1>0, <2>6, <3>1, <3>2 DEF CommandAnswered
  <2>7. ASSUME NEW c \in calls, CommandFails(c) PROVE ScreenStep(t)
    <3>1. UNCHANGED <<bank, receipt>> /\ (SessionLost(t) \/ tab' = [tab EXCEPT ![t].asks = FALSE])
      BY <1>0, <2>7 DEF CommandFails, device
    <3> QED BY <1>1, <1>2, <3>1
  <2> QED BY <1>0, <1>7, <2>1, <2>2, <2>3, <2>4, <2>5, <2>6, <2>7 DEF Store
<1>8. CASE Launch
  <2>1. ASSUME SyncStart(t) PROVE ScreenStep(t)
    <3>1. /\ UNCHANGED <<bank, receipt>>
          /\ \/ tab' = [tab EXCEPT ![t] = Quarantined(tab[t])]
             \/ tab' = [tab EXCEPT ![t] = tab[t]]
             \/ tab' = [tab EXCEPT ![t] = [tab[t] EXCEPT !.mode = "read_only"]]
      BY <2>1 DEF SyncStart, device
    <3>2. "read_only" \in Idle
      BY DEF Idle
    <3> QED BY <1>1, <1>2, <3>1, <3>2
  <2>2. ASSUME SyncFindsOtherSession(t) \/ SyncFindsOtherScope(t) \/ SyncFails(t)
        PROVE  ScreenStep(t)
    <3>1. UNCHANGED <<bank, receipt>> /\ (SessionLost(t) \/ UNCHANGED tab)
      BY <2>2 DEF SyncFindsOtherSession, SyncFindsOtherScope, SyncFails, device
    <3> QED BY <1>1, <1>3, <3>1
  <2>3. ASSUME Activate(t) PROVE ScreenStep(t)
    BY <1>0, <2>3, ActivateKeeps DEF ScreenStep
  <2>4. ASSUME ApplyPreferences(t) PROVE ScreenStep(t)
    <3> DEFINE T == [tab[t] EXCEPT !.fresh = FALSE]
    <3>1. T \in Memory /\ T.gateway = tab[t].gateway /\ T.mode = tab[t].mode
      BY <1>0 DEF Memory
    <3>2. \E base, saved : Commit(t, T, base, saved) \/ Commit(t, tab[t], base, saved)
      BY <2>4 DEF ApplyPreferences
    <3> HIDE DEF T
    <3>3. tab'[t].gateway = tab[t].gateway /\ tab'[t].mode = tab[t].mode
      BY <1>0, <3>1, <3>2, CommitKeeps
    <3> QED BY <2>4, <3>3 DEF ScreenStep
  <2>5. ASSUME SyncLocally(t) PROVE ScreenStep(t)
    <3>1. /\ UNCHANGED <<bank, receipt>>
          /\ tab' = [tab EXCEPT ![t] = [tab[t] EXCEPT !.gateway = FALSE, !.asks = FALSE,
                       !.mode = IF marker[Scope(t)] THEN "read_only" ELSE "local"]]
          /\ (IF marker[Scope(t)] THEN "read_only" ELSE "local") \in Idle
      BY <2>5 DEF SyncLocally, device, Idle
    <3> QED BY <1>2, <3>1
  <2>6. ASSUME SyncImports(t) PROVE ScreenStep(t)
    <3>1. UNCHANGED <<bank, receipt>>
      BY <2>6 DEF SyncImports
    <3> DEFINE X == [tab[t] EXCEPT !.gateway = FALSE, !.mode = "read_only", !.asks = FALSE]
    <3>2. X \in Memory /\ ~X.gateway /\ X.mode # "server"
      BY <1>0 DEF Memory
    <3>3. \/ SessionLost(t)
          \/ tab' = [tab EXCEPT ![t] = X]
          \/ \E o, ops : tab' = [tab EXCEPT ![t] = [X EXCEPT !.owner = o, !.ops = ops]]
      BY <2>6 DEF SyncImports
    <3> HIDE DEF X
    <3>4. Powerless(X) /\ \A o, ops : Powerless([X EXCEPT !.owner = o, !.ops = ops])
      BY <3>2 DEF Powerless, Memory
    <3>5. Powerless(tab'[t])
      <4>1. \A R : tab' = [tab EXCEPT ![t] = R] => tab'[t] = R
        BY <1>0 DEF Typed
      <4>2. CASE tab' = [tab EXCEPT ![t] = X]
        BY <3>4, <4>1, <4>2
      <4>3. CASE \E o, ops : tab' = [tab EXCEPT ![t] = [X EXCEPT !.owner = o, !.ops = ops]]
        <5>0. PICK o, ops : tab' = [tab EXCEPT ![t] = [X EXCEPT !.owner = o, !.ops = ops]]
          BY <4>3
        <5> DEFINE R == [X EXCEPT !.owner = o, !.ops = ops]
        <5>1. Powerless(R) /\ tab' = [tab EXCEPT ![t] = R]
          BY <3>4, <5>0
        <5> HIDE DEF R
        <5> QED BY <4>1, <5>1
      <4>4. CASE SessionLost(t)
        BY <1>0, <4>4, PowerlessMemory
      <4> QED BY <3>3, <4>2, <4>3, <4>4
    <3> QED BY <3>1, <3>5 DEF ScreenStep
  <2>7. ASSUME SyncAdopts(t) PROVE ScreenStep(t)
    <3>1. PICK result \in Results : Adopt(t, Offered(t), TRUE, result) /\ Conclude(t, result)
      BY <2>7 DEF SyncAdopts
    <3>2. Taken(t, Offered(t)) /\ Ends(t, Offered(t)) /\ TRUE \in BOOLEAN
      BY <1>0, <1>5, <2>7, <3>1 DEF SyncAdopts, Taken, Ends, Conclude, Finish
    <3>3. Pending(t, Offered(t).user, Offered(t).answer)
      <4>1. Answer(Offered(t)) /\ Offered(t).answer # none
        BY <1>0, <3>2, TakenAnswer, Limits DEF Answer
      <4> QED BY <4>1 DEF Pending, Offered
    <3> QED BY <1>4, <3>1, <3>2, <3>3
  <2>8. ASSUME NEW c \in calls, ImportAnswered(c) PROVE ScreenStep(t)
    <3>1. CASE \E result \in Results : Adopt(t, c, TRUE, result) /\ Conclude(t, result)
      <4>1. Taken(t, c) /\ Ends(t, c) /\ TRUE \in BOOLEAN
        BY <1>0, <1>5, <2>8, <3>1 DEF ImportAnswered, Taken, Awaited, Ends, Conclude, Finish
      <4>2. Pending(t, c.user, c.answer)
        BY <1>0, <2>8 DEF ImportAnswered, Pending, Awaited
      <4> QED BY <1>4, <3>1, <4>1, <4>2
    <3>2. CASE SessionLost(t) /\ UNCHANGED <<device, failed>>
      BY <1>1, <3>2 DEF device
    <3> QED BY <1>0, <2>8, <3>1, <3>2 DEF ImportAnswered
  <2>9. ASSUME NEW c \in calls, ImportRefused(c) PROVE ScreenStep(t)
    <3>1. UNCHANGED <<bank, receipt>> /\ (SessionLost(t) \/ tab' = [tab EXCEPT ![t].asks = FALSE])
      BY <1>0, <2>9 DEF ImportRefused, device
    <3> QED BY <1>1, <1>2, <3>1
  <2> QED BY <1>0, <1>8, <2>1, <2>2, <2>3, <2>4, <2>5, <2>6, <2>7, <2>8, <2>9
          DEF Launch, SyncSteps
<1>9. CASE Host
  <2>1. ASSUME Approve(t) PROVE ScreenStep(t)
    BY <1>2, <2>1 DEF Approve, device
  <2>2. ASSUME SwitchSession(t) PROVE ScreenStep(t)
    BY <1>3, <2>2 DEF SwitchSession, device
  <2>3. ASSUME NoticeSession(t) PROVE ScreenStep(t)
    BY <1>1, <2>3 DEF NoticeSession, device
  <2>4. ASSUME Reload(t) PROVE ScreenStep(t)
    <3>1. Powerless(tab'[t])
      BY <1>0, <2>4, PowerlessMemory DEF Reload
    <3> QED BY <2>4, <3>1 DEF ScreenStep
  <2> QED BY <1>0, <1>9, <2>1, <2>2, <2>3, <2>4 DEF Host
<1>10. CASE UNCHANGED clientVars
  BY <1>3, <1>10 DEF clientVars, device
<1> QED BY <1>6, <1>7, <1>8, <1>9, <1>10 DEF Next

-----------------------------------------------------------------------------
(* The screen and the receipt.                                             *)

\* The last revision of the server is not overtaken.
LEMMA ServerAhead ==
  ASSUME HistoryInv', NEW u \in Users, server'[u] # none
  PROVE  ~Overtaken(u, server[u])'
<1> SUFFICES ASSUME Overtaken(u, server[u])' PROVE FALSE
  OBVIOUS
<1>0. PICK s : s = Vouches(receipt'[u])
  OBVIOUS
<1>1. Typed' /\ InLine(u)'
  BY DEF HistoryInv, ClientInv
<1>2. receipt'[u] \in Receipts /\ server'[u] \in Revisions
  BY <1>1 DEF Overtaken, Typed, Ledgers
<1>3. s \in Revisions /\ s.epoch = receipt'[u].epoch /\ s.revision = receipt'[u].revision
  BY <1>2, <1>0 DEF Receipts, Revisions, Vouches
<1>4. Heard(u, s)'
  <2>1. s # none /\ receipt'[u] # none
    BY <1>3, Limits DEF Overtaken
  <2> QED BY <1>0, <2>1 DEF Heard
<1>5. s.epoch = epoch' /\ s.revision <= server'[u].revision
  BY <1>1, <1>3, <1>4 DEF Overtaken, InLine
<1>6. s.revision \in Nat /\ server'[u].revision \in Nat
  BY <1>2, <1>3, Limits DEF Revisions
<1> QED BY <1>3, <1>5, <1>6 DEF Overtaken

\* What a launch has in hand it had before, or it is the server's now.
LEMMA PendingBefore ==
  ASSUME ClientInv, [Next]_clientVars, NEW t \in Tabs, NEW u, NEW r, Pending(t, u, r)'
  PROVE  Pending(t, u, r) \/ r = server'[u]
<1>0. r # none /\ Typed
  BY DEF Pending, ClientInv
<1>1. ASSUME NEW d \in calls', d.live, d.tab = t, d.kind = "import", d.user = u, d.answer = r
      PROVE  Pending(t, u, r) \/ r = server'[u]
  <2>1. CallStep(d)
    BY CallKinds
  <2> QED BY <1>0, <1>1, <2>1 DEF CallStep, Alike, Pending, Awaited
<1>2. ASSUME sync'[t].user = u, sync'[t].bank = r PROVE Pending(t, u, r) \/ r = server'[u]
  <2>1. LaunchStep(t)
    BY LaunchKinds
  <2>2. CASE ServerAnswersLaunch(t)
    <3>1. sync[t] \in Attempt
      BY <1>0 DEF Typed
    <3>2. /\ sync'[t].user = sync[t].user /\ server' = server
          /\ sync'[t].bank = IF active THEN server[sync[t].user] ELSE none
      BY <1>0, <2>2, <3>1 DEF ServerAnswersLaunch, Typed, Attempt, remote
    <3> QED BY <1>0, <1>2, <3>2
  <2>3. CASE Activate(t) \/ ApplyPreferences(t) \/ SyncImports(t)
    <3>1. Resting(TRUE).bank = none
      BY DEF Resting
    <3>2. \/ sync'[t] = Resting(TRUE)
          \/ sync'[t].user = sync[t].user /\ sync'[t].bank = sync[t].bank
      BY <1>0, <2>3, LaunchFacts
    <3> QED BY <1>0, <1>2, <3>1, <3>2 DEF Pending
  <2> QED BY <1>0, <1>2, <2>1, <2>2, <2>3 DEF LaunchStep, Pending
<1> QED BY <1>1, <1>2 DEF Pending, Awaited

\* A tab that is loaded again has nothing in hand.
LEMMA ReloadDrops ==
  ASSUME ClientInv, NEW t \in Tabs, Reload(t), NEW u, NEW r
  PROVE  ~Pending(t, u, r)'
<1>0. Typed /\ \A c \in calls : c \in Sent
  BY DEF ClientInv, Typed
<1>1. sync'[t].bank = none
  BY <1>0 DEF Reload, Rest, Resting, Typed
<1>2. ASSUME NEW d \in calls', d.tab = t, d.live PROVE FALSE
  <2>1. calls' = Orphaned(t, {"command", "import"})
    BY DEF Reload
  <2>2. ASSUME NEW c \in calls, d = [c EXCEPT !.live = FALSE] PROVE FALSE
    <3>1. ~[c EXCEPT !.live = FALSE].live
      BY <1>0 DEF Sent
    <3> QED BY <1>2, <2>2, <3>1
  <2>3. d \in calls /\ d \notin Awaited(t)
    BY <1>0, <1>2, <2>1, <2>2 DEF Orphaned, Awaited, Sent
  <2> QED BY <1>2, <2>3 DEF Awaited
<1> QED BY <1>1, <1>2 DEF Pending, Awaited

\* What the only tab shows stays what the receipt vouches for.
LEMMA ScreenKept ==
  ASSUME HistoryInv, [Next]_clientVars, refusals' = 0, NEW t, Tabs = {t}, ScreenInv(t)
  PROVE  ScreenInv(t)'
<1>0. /\ ClientInv /\ Typed /\ t \in Tabs /\ tab[t] \in Memory /\ ScreenStep(t) /\ TabInv(t)
      /\ OwnerSaved(t) /\ ReadyFor(t) /\ none \notin Users
  BY AloneSteps, RefusalsStay, Limits DEF HistoryInv, ClientInv, Typed, Unrefused
<1>1. \A u \in Users : Settled(u) => bank[u] # none
  BY <1>0, Limits DEF Settled, Typed, Receipts
<1>2. tab[t].gateway \/ tab[t].mode = "server" => tab[t].scope \in Users /\ Settled(tab[t].scope)
  BY <1>0 DEF TabInv, Fits, ScreenInv, Memory
<1>3. ASSUME NEW u \in Users, Settled(u), bank'[u] = bank[u], receipt' = receipt
      PROVE  Settled(u)'
  BY <1>3 DEF Settled
<1>4. ASSUME NEW c, Saves(t, c, 3)
      PROVE  /\ c.user \in Users /\ Settled(c.user)' /\ bank'[c.user] = c.answer.ops
             /\ \A u \in Users \ {c.user} : bank'[u] = bank[u] /\ receipt'[u] = receipt[u]
  <2> DEFINE u == c.user
  <2>1. 3 \in 0..3
    OBVIOUS
  <2>2. /\ u \in Users /\ bank'[u] = c.answer.ops /\ receipt'[u] = Advanced(receipt[u], c.answer)
        /\ receipt'[u] # none
        /\ \A v \in Users \ {u} : bank'[v] = bank[v] /\ receipt'[v] = receipt[v]
    BY <1>0, <1>4, <2>1, SavesFacts
  <2>3. receipt'[u].ops = c.answer.ops
    BY <2>2 DEF Advanced
  <2> QED BY <2>2, <2>3 DEF Settled

\* The ledgers in hand.
<1>5. ASSUME NEW u \in Users, NEW r, Pending(t, u, r)', Overtaken(u, r)'
      PROVE  Settled(u)'
  <2>1. Pending(t, u, r)
    <3>1. r # none /\ HistoryInv'
      BY <1>5, NextHistory DEF Pending
    <3>2. r # server'[u]
      BY <1>5, <3>1, ServerAhead
    <3> QED BY <1>0, <1>5, <3>2, PendingBefore
  <2>2. ASSUME receipt'[u] = receipt[u] PROVE Settled(u) /\ bank[u] # none
    BY <1>0, <1>1, <1>5, <2>1, <2>2 DEF ScreenInv, Overtaken
  <2>3. CASE UNCHANGED <<bank, receipt>>
    BY <2>2, <2>3 DEF Settled
  <2>4. CASE LocalCommand(t)
    BY <1>0, <1>5, <2>2, <2>4, CommandFacts DEF Settled, Overtaken
  <2>5. CASE Reload(t)
    BY <1>0, <1>5, <2>5, ReloadDrops
  <2>6. CASE Activate(t)
    BY <1>0, <2>2, <2>6, ActivateFacts DEF Settled
  <2>7. CASE ApplyPreferences(t)
    BY <1>0, <2>2, <2>7, PreferencesFacts DEF Settled
  <2>8. ASSUME NEW c, Saves(t, c, 3) PROVE Settled(u)'
    BY <1>4, <2>2, <2>8 DEF Settled
  <2> QED BY <1>0, <2>3, <2>4, <2>5, <2>6, <2>7, <2>8 DEF ScreenStep

\* The screen.
<1>6. PICK R : R = tab'[t]
  OBVIOUS
<1> DEFINE Good == /\ R.gateway => Settled(R.scope)'
                   /\ R.mode = "server" => Settled(R.scope)' /\ R.ops = bank'[R.scope]
<1>7. Good
  <2>1. CASE Powerless(R)
    BY <2>1 DEF Powerless
  <2>2. CASE UNCHANGED <<bank, receipt>> /\ Calm(tab[t], R)
    BY <1>0, <2>2 DEF Calm, ScreenInv, Settled
  <2>3. ASSUME UNCHANGED <<bank, receipt>>, NEW c, Trusts(t, c) PROVE Good
    <3>1. c.user = tab[t].scope /\ R.scope = tab[t].scope /\ R.mode = tab[t].mode
          /\ R.ops = tab[t].ops
      BY <1>6, <2>3 DEF Trusts
    <3>2. Settled(c.user)
      BY <1>0, <2>3 DEF Trusts, ScreenInv
    <3>3. Settled(c.user)'
      BY <2>3, <3>2 DEF Settled
    <3> QED BY <1>0, <2>3, <3>1, <3>3 DEF ScreenInv
  <2>4. CASE Activate(t) /\ R.gateway = tab[t].gateway /\ (R.mode = "server" => tab[t].gateway)
    <3>1. CASE ~tab[t].gateway
      BY <2>4, <3>1
    <3>2. CASE tab[t].gateway
      <4> DEFINE u == sync[t].user
      <4>1. sync[t].phase = "answered" /\ u \in Users /\ R.scope = u
        BY <1>0, <1>6, <2>4, ActivateFacts
      <4>2. Settled(u) /\ bank[u] # none
        <5>1. tab[t].scope = u
          BY <1>0, <3>2, <4>1 DEF TabInv, Agree
        <5> QED BY <1>1, <1>2, <3>2, <5>1
      <4>3. bank'[u] = bank[u] /\ R.ops = bank'[u] /\ receipt' = receipt
        BY <1>0, <1>6, <2>4, <4>2, ActivateFacts
      <4> QED BY <1>3, <4>1, <4>2, <4>3
    <3> QED BY <3>1, <3>2
  <2>5. CASE ApplyPreferences(t) /\ R.gateway = tab[t].gateway /\ R.mode = tab[t].mode
    <3>1. CASE ~tab[t].gateway /\ tab[t].mode # "server"
      BY <2>5, <3>1
    <3>2. CASE tab[t].gateway \/ tab[t].mode = "server"
      <4> DEFINE u == sync[t].user
      <4>1. u \in Users /\ tab[t].scope = u /\ R.scope = u /\ R.ops = bank'[u] /\ receipt' = receipt
            /\ (bank[u] # none => bank'[u] = bank[u])
        BY <1>0, <1>6, <2>5, PreferencesFacts
      <4>2. Settled(u) /\ bank[u] # none
        BY <1>1, <1>2, <3>2, <4>1
      <4> QED BY <1>3, <4>1, <4>2
    <3> QED BY <3>1, <3>2
  <2>6. ASSUME NEW c, Saves(t, c, 3), Shows(R, c) PROVE Good
    BY <1>4, <2>6 DEF Shows
  <2> HIDE DEF Good
  <2> QED BY <1>0, <1>6, <2>1, <2>2, <2>3, <2>4, <2>5, <2>6 DEF ScreenStep
<1> QED BY <1>5, <1>7, <1>6 DEF ScreenInv

\* The inductive invariant of what the only tab shows.
LEMMA ShownAlways ==
  ASSUME NEW t, Tabs = {t}
  PROVE  Spec => []ShownInv
<1>1. Init => ShownInv
  <2> SUFFICES ASSUME Init PROVE ShownInv
    OBVIOUS
  <2>1. HistoryInv
    BY InitHistory
  <2>2. calls = {} /\ t \in Tabs
    BY DEF Init
  <2>3. tab[t] = LaunchTab /\ sync[t] = Resting(TRUE)
    BY <2>2 DEF Init
  <2>4. ~tab[t].gateway /\ tab[t].mode # "server" /\ sync[t].bank = none
    BY <2>3 DEF LaunchTab, Resting
  <2>5. ScreenInv(t)
    BY <2>2, <2>4 DEF ScreenInv, Pending, Awaited
  <2> QED BY <2>1, <2>2, <2>5 DEF ShownInv, AnswersContain
<1>2. ShownInv /\ [Next]_clientVars => ShownInv'
  <2> SUFFICES ASSUME ShownInv, [Next]_clientVars PROVE ShownInv'
    OBVIOUS
  <2>1. ClientInv /\ HistoryInv' /\ AnswersContain'
    BY NextHistory, AnswersContainStep DEF ShownInv, HistoryInv
  <2>2. ASSUME refusals' = 0 PROVE ScreenInv(t)'
    BY <2>1, <2>2, RefusalsStay, ScreenKept DEF ShownInv
  <2> QED BY <2>1, <2>2 DEF ShownInv
<1> QED BY <1>1, <1>2, PTL DEF Spec

\* Without a fault the request of a command ends with its answer.
LEMMA AnsweredOnly ==
  ASSUME ClientInv, [Next]_clientVars, faults' = faults,
         NEW c \in calls \ calls', c.kind = "command", c.answer # none
  PROVE  CommandAnswered(c)
<1> DEFINE Goal == CommandAnswered(c)
<1> SUFFICES ASSUME ~Goal PROVE FALSE
  OBVIOUS
<1>0. Typed /\ faults \in Nat
  BY DEF ClientInv, Typed
<1>1. calls' # calls
  OBVIOUS
<1>2. ~Fault
  BY <1>0 DEF Fault
<1>3. ASSUME NEW d \in calls, calls' = calls \ {d} \/ (\E e : calls' = (calls \ {d}) \cup e)
      PROVE  d = c
  BY <1>3
<1>4. CASE Server \/ Others
  BY <1>1, <1>3, <1>4 DEF Server, ServerExecutes, ServerImports, ServerAnswersLaunch, Others,
     OthersCommand, OthersImport, OperatorActivates, OperatorRollsBack, OperatorBacksUp,
     OperatorRestores
<1>5. CASE Store
  <2>1. ASSUME NEW t \in Tabs, LocalCommand(t) \/ LocalCommandRefused(t) \/ SeesSavedBank(t)
                     \/ SendCommand(t) \/ SendFindsOtherSession(t)
        PROVE  FALSE
    BY <2>1 DEF LocalCommand, LocalCommandRefused, SeesSavedBank, SendCommand,
       SendFindsOtherSession
  <2>2. ASSUME NEW d \in calls, CommandAnswered(d) PROVE FALSE
    <3>1. calls' = calls \ {d}
      BY <2>2 DEF CommandAnswered
    <3> QED BY <1>3, <2>2, <3>1
  <2>3. ASSUME NEW d \in calls, CommandFails(d) PROVE FALSE
    BY <1>2, <1>3, <2>3 DEF CommandFails
  <2> QED BY <1>5, <2>1, <2>2, <2>3 DEF Store
<1>6. CASE Launch
  <2>1. ASSUME NEW t \in Tabs, SyncStart(t) \/ SyncFails(t) PROVE FALSE
    BY <1>1, <1>2, <2>1 DEF SyncStart, SyncFails
  <2>2. ASSUME NEW t \in Tabs, SyncSteps(t) PROVE FALSE
    BY <2>2 DEF SyncSteps, SyncFindsOtherSession, Activate, ApplyPreferences,
       SyncFindsOtherScope, SyncLocally, SyncImports, SyncAdopts
  <2>3. ASSUME NEW d \in calls, ImportAnswered(d) \/ ImportRefused(d) PROVE FALSE
    BY <1>3, <2>3 DEF ImportAnswered, ImportRefused
  <2> QED BY <1>6, <2>1, <2>2, <2>3 DEF Launch
<1>7. CASE Host
  <2>1. ASSUME NEW t \in Tabs, Approve(t) \/ SwitchSession(t) \/ Reload(t) PROVE FALSE
    BY <1>1, <1>2, <2>1 DEF Approve, SwitchSession, Reload
  <2>2. ASSUME NEW t \in Tabs, NoticeSession(t) PROVE FALSE
    <3>1. calls' = Orphaned(t, {"import"})
      BY <2>2 DEF NoticeSession
    <3>2. c.kind \notin {"import"}
      OBVIOUS
    <3> QED BY <3>1, <3>2 DEF Orphaned
  <2> QED BY <1>7, <2>1, <2>2 DEF Host
<1>8. CASE UNCHANGED clientVars
  BY <1>1, <1>8 DEF clientVars
<1> QED BY <1>4, <1>5, <1>6, <1>7, <1>8 DEF Next

\* An answer that is overtaken is in the receipt.
LEMMA OvertakenOps ==
  ASSUME HistoryInv, NEW u \in Users, NEW r, Heard(u, r), receipt[u] # none,
         r.epoch = receipt[u].epoch, r.revision <= receipt[u].revision
  PROVE  r.ops \subseteq receipt[u].ops
<1> DEFINE s == Vouches(receipt[u])
<1>1. s # none /\ s.epoch = receipt[u].epoch /\ s.revision = receipt[u].revision
      /\ s.ops = receipt[u].ops
  <2>1. receipt[u] \in Receipts
    BY DEF HistoryInv, ClientInv, Typed
  <2>2. s \in Revisions
    BY <2>1 DEF Receipts, Revisions, Vouches
  <2> QED BY <2>2, Limits DEF Vouches
<1>2. Heard(u, s)
  BY <1>1 DEF Heard
<1> HIDE DEF s
<1> QED BY <1>1, <1>2 DEF HistoryInv, InLine

\* The answer of a command is on the screen.
LEMMA AnswerShown ==
  ASSUME ShownInv, ShownInv', [Next]_clientVars, refusals' = 0, NEW t, Tabs = {t},
         NEW c \in calls, CommandAnswered(c), tab'[t].scope = c.user, tab'[t].mode = "server",
         receipt'[c.user].epoch = c.answer.epoch
  PROVE  c.ops \subseteq tab'[t].ops
<1> DEFINE u == c.user
<1>0. /\ HistoryInv /\ ClientInv /\ Typed /\ t \in Tabs /\ c.tab = t /\ c \in Sent /\ u \in Users
      /\ tab[t] \in Memory /\ refusals \in Nat /\ c.kind = "command" /\ c.answer # none
  BY DEF ShownInv, HistoryInv, ClientInv, Typed, Sent, CommandAnswered
<1>1. c.answer \in Revisions /\ c.answer.revision \in Nat /\ Heard(u, c.answer)
  BY <1>0, Limits DEF Sent, Revisions, Heard
<1>2. tab'[t].ops = receipt'[u].ops
  BY <1>0 DEF ShownInv, ScreenInv, Settled
<1>3. c.ops \subseteq c.answer.ops
  BY <1>0 DEF ShownInv, AnswersContain
<1>4. PICK result \in Results :
        Adopt(t, c, tab[t].gateway, result) /\ Counted(result)
  <2>1. ~SessionLost(t)
    <3>1. SessionLost(t) => tab'[t].scope = none
      BY <1>0, BlankMemory DEF Blank
    <3> QED BY <1>0, <3>1, Limits
  <2> QED BY <1>0, <2>1 DEF CommandAnswered
<1>5. result # "refused"
  BY <1>0, <1>4 DEF Counted, Refusal
<1>6. ~ \E asks : tab' = [tab EXCEPT ![t] = [@ EXCEPT !.gateway = FALSE, !.mode = "read_only",
                                                     !.asks = asks]]
  <2>1. ASSUME NEW asks, tab' = [tab EXCEPT ![t] = [@ EXCEPT !.gateway = FALSE,
                                                          !.mode = "read_only", !.asks = asks]]
        PROVE  FALSE
    <3>1. tab'[t] = [tab[t] EXCEPT !.gateway = FALSE, !.mode = "read_only", !.asks = asks]
      BY <1>0, <2>1 DEF Typed
    <3>2. tab'[t].mode = "read_only"
      BY <1>0, <3>1 DEF Memory
    <3> QED BY <3>2
  <2> QED BY <2>1
<1>7. \/ Acceptable(t, c) /\ Writes(c, 3)
      \/ receipt' = receipt /\ Decision(receipt[u], c.answer) \in {"stale", "retired_epoch"}
  BY <1>4, <1>5, <1>6 DEF Adopt
<1>8. CASE Acceptable(t, c) /\ Writes(c, 3)
  <2>1. Saves(t, c, 3)
    BY <1>0, <1>8 DEF Saves, Taken, Ends, Awaited, CommandAnswered
  <2>2. 3 \in 0..3
    OBVIOUS
  <2>3. receipt'[u] = Advanced(receipt[u], c.answer)
    BY <1>0, <2>1, <2>2, SavesFacts
  <2>4. receipt'[u].ops = c.answer.ops
    BY <2>3 DEF Advanced
  <2> QED BY <1>2, <1>3, <2>4
<1>9. CASE receipt' = receipt /\ Decision(receipt[u], c.answer) = "stale"
  <2>1. receipt[u] # none /\ receipt[u].epoch = c.answer.epoch
        /\ c.answer.revision < receipt[u].revision
    BY <1>9 DEF Decision
  <2>2. receipt[u].revision \in Nat
    BY <1>0, <2>1, Limits DEF Typed, Receipts
  <2>3. c.answer.ops \subseteq receipt[u].ops
    BY <1>0, <1>1, <2>1, <2>2, OvertakenOps
  <2> QED BY <1>2, <1>3, <1>9, <2>3
<1>10. CASE receipt' = receipt /\ Decision(receipt[u], c.answer) = "retired_epoch"
  <2>1. receipt[u] # none /\ c.answer.epoch \in ToSet(receipt[u].retired)
    BY <1>10 DEF Decision
  <2> QED BY <1>0, <1>10, <2>1 DEF ClientInv, Vouched
<1> QED BY <1>7, <1>8, <1>9, <1>10

\* What a screen of the server shows stays while the generation lasts.
LEMMA ScreenStays ==
  ASSUME ShownInv, ShownInv', [Next]_clientVars, refusals' = 0, NEW t, Tabs = {t},
         tab[t].mode = "server", tab'[t].mode = "server", tab'[t].scope = tab[t].scope,
         receipt'[tab[t].scope].epoch = receipt[tab[t].scope].epoch
  PROVE  tab[t].ops \subseteq tab'[t].ops
<1> DEFINE u == tab[t].scope
<1>0. HistoryInv /\ ClientInv /\ Typed /\ t \in Tabs /\ refusals = 0 /\ DeviceStep
  BY RefusalsStay, Kinds DEF ShownInv, HistoryInv, ClientInv
<1>1. tab[t] \in Memory /\ u \in Users
  BY <1>0 DEF ClientInv, Typed, TabInv, Fits, Memory
<1>2. receipt[u] # none /\ tab[t].ops = receipt[u].ops /\ tab'[t].ops = receipt'[u].ops
  BY <1>0 DEF ShownInv, ScreenInv, Settled
<1>3. CASE receipt'[u] = receipt[u]
  BY <1>2, <1>3
<1>4. CASE receipt'[u] # receipt[u]
  <2>1. PICK n \in 0..3 : \E d : Saves(t, d, n)
    BY <1>0, <1>4 DEF DeviceStep, LocalCommand, Activate, ApplyPreferences, SyncImports
  <2>2. PICK c : Saves(t, c, n)
    BY <2>1
  <2>3. /\ c.user = u /\ receipt'[u] = Advanced(receipt[u], c.answer) /\ Heard(u, c.answer)
        /\ c.answer \in Revisions /\ Decision(receipt[u], c.answer) \in {"newer", "current"}
    BY <1>0, <1>1, <1>4, <2>2, SavesFacts
  <2>4. receipt'[u].epoch = c.answer.epoch /\ receipt'[u].ops = c.answer.ops
    BY <2>3 DEF Advanced
  <2> DEFINE s == Vouches(receipt[u])
  <2>5. s \in Revisions /\ s.epoch = receipt[u].epoch /\ s.revision = receipt[u].revision
        /\ s.ops = receipt[u].ops
    <3>1. receipt[u] \in Receipts
      BY <1>0, <1>1, <1>2 DEF Typed
    <3> QED BY <3>1 DEF Receipts, Revisions, Vouches
  <2>6. Heard(u, s)
    BY <1>2, <2>5, Limits DEF Heard
  <2> HIDE DEF s
  <2>7. s.revision <= c.answer.revision
    <3>1. s.revision \in Nat /\ c.answer.revision \in Nat
      BY <2>3, <2>5, Limits DEF Revisions
    <3> QED BY <1>2, <2>3, <2>4, <2>5, <3>1 DEF Decision
  <2>8. s.ops \subseteq c.answer.ops
    BY <1>0, <1>1, <2>3, <2>4, <2>5, <2>6, <2>7 DEF HistoryInv, InLine
  <2> QED BY <1>2, <2>4, <2>5, <2>8
<1> QED BY <1>3, <1>4

\* With one tab: a command whose answer its user was told of is on the screen, and
\* what a screen of the server shows stays while the generation lasts.
THEOREM AnswersStay ==
  ASSUME NEW only, Tabs = {only}
  PROVE  Spec => AnswersStayShown
<1>1. ASSUME ShownInv, ShownInv', [Next]_clientVars, refusals' = 0,
             NEW c \in calls \ calls', c.kind = "command", c.answer # none, faults' = faults,
             tab'[c.tab].scope = c.user, tab'[c.tab].mode = "server",
             receipt'[c.user].epoch = c.answer.epoch
      PROVE  c.ops \subseteq tab'[c.tab].ops
  <2>1. ClientInv /\ c \in Sent
    BY <1>1 DEF ShownInv, HistoryInv, ClientInv, Typed
  <2>2. CommandAnswered(c) /\ c.tab = only
    BY <1>1, <2>1, AnsweredOnly DEF Sent
  <2> QED BY <1>1, <2>2, AnswerShown
<1>2. ASSUME ShownInv, ShownInv', [Next]_clientVars, refusals' = 0, NEW t \in Tabs,
             tab[t].mode = "server", tab'[t].mode = "server", tab'[t].scope = tab[t].scope,
             receipt'[tab[t].scope].epoch = receipt[tab[t].scope].epoch
      PROVE  tab[t].ops \subseteq tab'[t].ops
  BY <1>2, ScreenStays
<1>3. ShownInv /\ ShownInv' /\ [Next]_clientVars =>
        [refusals' = 0 =>
           /\ \A c \in calls \ calls' : LET T == tab'[c.tab] IN
                /\ c.kind = "command" /\ c.answer # none /\ faults' = faults
                /\ T.scope = c.user /\ T.mode = "server" /\ receipt'[c.user].epoch = c.answer.epoch
                => c.ops \subseteq T.ops
           /\ \A t \in Tabs : LET u == Scope(t) IN
                /\ tab[t].mode = "server" /\ tab'[t].mode = "server" /\ tab'[t].scope = u
                /\ receipt'[u].epoch = receipt[u].epoch
                => tab[t].ops \subseteq tab'[t].ops]_clientVars
  BY <1>1, <1>2 DEF Scope
<1>4. Spec => []ShownInv
  BY ShownAlways
<1> QED BY <1>3, <1>4, PTL DEF Spec, AnswersStayShown
=============================================================================
