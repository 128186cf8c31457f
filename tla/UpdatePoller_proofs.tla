------------------------- MODULE UpdatePoller_proofs -------------------------
(***************************************************************************)
(* Proofs that the polling loop confirms, handles and settles updates as   *)
(* UpdatePoller promises, for any limits of days, ids, attempts and        *)
(* restarts that its assumption allows.                                    *)
(***************************************************************************)
EXTENDS UpdatePoller, FiniteSetTheorems, TLAPS

-----------------------------------------------------------------------------
(* The first update of a batch.                                            *)

\* A set of naturals that is not empty has a least element: among the intervals up
\* to its elements there is one that properly contains no other.
LEMMA LeastElement ==
  ASSUME NEW S \in SUBSET Nat, S # {}
  PROVE  \E m \in S : \A k \in S : m <= k
<1> DEFINE Up(k) == 0..k
           T == {Up(k) : k \in S}
<1>1. T \subseteq FiniteSubsetsOf(Nat)
  <2>1. \A k \in Nat : IsFiniteSet(0..k)
    BY FS_Interval
  <2> QED BY <2>1 DEF FiniteSubsetsOf
<1>2. T # {}
  OBVIOUS
<1>3. IsWellFoundedOn(StrictSubsetOrdering(Nat), FiniteSubsetsOf(Nat))
  BY FS_StrictSubsetOrderingWellFounded
<1> HIDE DEF T
<1>4. PICK X \in T : \A Y \in T : <<Y, X>> \notin StrictSubsetOrdering(Nat)
  BY <1>1, <1>2, <1>3, WFMin
<1>5. PICK m \in S : X = 0..m
  BY <1>4 DEF T
<1>6. ASSUME NEW k \in S PROVE m <= k
  <2>1. 0..k \in T
    BY DEF T
  <2>2. <<0..k, 0..m>> \notin StrictSubsetOrdering(Nat)
    BY <1>4, <1>5, <2>1
  <2>3. ~(0..k \subseteq 0..m /\ 0..k # 0..m)
    BY <2>2 DEF StrictSubsetOrdering
  <2>4. SUFFICES ASSUME k < m PROVE FALSE
    BY <1>5, <1>6
  <2>5. k \in Nat /\ m \in Nat
    OBVIOUS
  <2>6. m \in 0..m /\ m \notin 0..k
    BY <2>4, <2>5
  <2>7. 0..k \subseteq 0..m
    BY <2>4, <2>5
  <2> QED BY <2>3, <2>6, <2>7
<1> QED BY <1>6

\* The head of a batch is in it, and its id is the least.
LEMMA HeadFacts ==
  ASSUME NEW B, B # {}, \A u \in B : u.id \in Nat
  PROVE  Head(B) \in B /\ \A v \in B : Head(B).id <= v.id
<1>1. PICK m \in {u.id : u \in B} : \A k \in {u.id : u \in B} : m <= k
  <2>1. {u.id : u \in B} \in SUBSET Nat /\ {u.id : u \in B} # {}
    OBVIOUS
  <2> QED BY <2>1, LeastElement
<1>2. \E u \in B : \A v \in B : u.id <= v.id
  BY <1>1
<1> QED BY <1>2 DEF Head

-----------------------------------------------------------------------------
(* The inductive invariant.                                                *)

\* The types, with the limits of the instance.
Typed == PollerTypeOK /\ batch \subseteq inbox

\* There is a batch only while the loop works on it, and what it hands to the handler
\* was not processed.
Batched ==
  /\ batch # {} => phase \in {"ready", "handling"}
  /\ phase = "handling" => batch # {} /\ Head(batch).id \notin processed

\* What Telegram holds is not older than its retention.
Recent ==
  /\ newest.day <= today
  /\ \A u \in inbox : u.day <= newest.day /\ today - u.day <= RetentionDays

\* Serials count arrivals, and what is remembered of ids and serials has arrived.
Numbered ==
  /\ processed \subseteq issued
  /\ settled \subseteq 1..Cardinality(issued)
  /\ Cardinality(issued) <= MaxUpdates
  /\ \A u \in inbox : /\ u.serial \in 1..Cardinality(issued)
                      /\ u.id \in issued /\ u.id <= newest.id

\* Telegram holds updates of one sequence of ids only: it renumbers after a silence
\* that none of them outlives.
OneSequence ==
  \A u, v \in inbox : /\ u.serial < v.serial <=> u.id < v.id
                      /\ u.serial = v.serial => u = v

\* The stored offset belongs to that sequence and skips settled updates only, or it is
\* so old that the next poll forgets it.
OffsetKnown ==
  /\ phase # "idle" => ~SequenceIsOld
  /\ phase = "polling" => offset = nextOffset
  /\ lastUpdateDay = 0 => nextOffset = 0
  /\ issued = {} => lastUpdateDay = 0
  /\ lastUpdateDay # 0 => lastUpdateDay <= newest.day + RetentionDays
  /\ \/ SequenceIsOld
     \/ /\ nextOffset <= newest.id + 1
        /\ \A u \in inbox : u.id < nextOffset => u.serial \in settled

\* An update that Telegram still holds is settled exactly if its id is remembered.
SettledKnown ==
  \A u \in inbox : /\ u.serial \in settled <=> u.id \in processed
                   /\ u.serial \in settled => u.day <= lastUpdateDay

\* What arrived before an update of the batch is settled or in the batch.
InOrder ==
  \A v \in batch, u \in inbox :
    u.serial < v.serial => u.serial \in settled \/ u \in batch

PollerInv ==
  /\ Typed /\ Batched /\ Recent /\ Numbered /\ OneSequence
  /\ OffsetKnown /\ SettledKnown /\ InOrder

LEMMA PollerInitInv == PollerInit => PollerInv
<1> SUFFICES ASSUME PollerInit PROVE PollerInv
  OBVIOUS
<1>1. Cardinality(issued) = 0
  BY FS_EmptySet DEF PollerInit
<1>2. Typed
  BY PollerAssumption DEF PollerInit, Typed, PollerTypeOK, Phases
<1> QED BY <1>1, <1>2, PollerAssumption
        DEF PollerInit, PollerInv, Batched, Recent, Numbered, OneSequence, OffsetKnown,
            SettledKnown, InOrder, SequenceIsOld

\* The numbers that the steps compare are numbers.
LEMMA Numbers ==
  ASSUME PollerInv
  PROVE  /\ today \in Nat \ {0} /\ newest.day \in Nat /\ newest.id \in Nat
         /\ nextOffset \in Nat /\ lastUpdateDay \in Nat /\ offset \in Nat
         /\ IsFiniteSet(issued) /\ Cardinality(issued) \in Nat
         /\ \A u \in inbox : u.serial \in Nat /\ u.id \in Nat /\ u.day \in Nat
         /\ \A u \in batch : u.id \in Nat /\ u \in inbox
<1>1. IsFiniteSet(issued) /\ Cardinality(issued) \in Nat
  <2>1. issued \in SUBSET (1..MaxId) /\ IsFiniteSet(1..MaxId)
    BY FS_Interval, PollerAssumption DEF PollerInv, Typed, PollerTypeOK
  <2> QED BY <2>1, FS_Subset, FS_CardinalityType
<1> QED BY <1>1, PollerAssumption DEF PollerInv, Typed, PollerTypeOK

-----------------------------------------------------------------------------
(* Steps that settle nothing.                                              *)

LEMMA ArriveInv ==
  ASSUME PollerInv, NEW id \in 1..MaxId, NEW body, Arrive(id, body)
  PROVE  PollerInv'
<1> DEFINE serial == Cardinality(issued) + 1
           u == [serial |-> serial, id |-> id, day |-> today, body |-> body]
<1>1. /\ inbox' = inbox \cup {u} /\ issued' = issued \cup {id}
      /\ newest' = [id |-> id, day |-> today]
      /\ id \notin issued /\ Cardinality(issued) < MaxUpdates
      /\ issued = {} \/ today - newest.day >= QuietDays \/ id = newest.id + 1
      /\ UNCHANGED <<today, service, loop, restarts, past>>
  BY DEF Arrive, Update
<1>2. u.serial = serial /\ u.id = id /\ u.day = today
  OBVIOUS
<1>3. Cardinality(issued)' = serial /\ serial \in Nat \ {0} /\ serial <= MaxUpdates
  <2>1. Cardinality(issued \cup {id}) = Cardinality(issued) + 1
    BY <1>1, Numbers, FS_AddElement
  <2> QED BY <1>1, <2>1, Numbers, PollerAssumption
<1> HIDE DEF u, serial
<1>4. \A v \in inbox : v.serial < serial
  BY <1>3, Numbers DEF PollerInv, Numbered, serial
<1>5. inbox = {} \/ id = newest.id + 1
  BY <1>1, Numbers, PollerAssumption DEF PollerInv, Numbered, Recent
<1>6. \A v \in inbox : v.id < id
  BY <1>5, Numbers DEF PollerInv, Numbered
<1>7. serial \notin settled /\ \A v \in inbox : v.serial # serial
  <2>1. settled \subseteq 1..Cardinality(issued)
    BY DEF PollerInv, Numbered
  <2> QED BY <1>4, <2>1, Numbers DEF serial
<1>8. Typed'
  <2>1. PollerTypeOK
    BY DEF PollerInv, Typed
  <2>2. /\ \A v \in inbox' \cup batch' :
             v.serial \in 1..MaxUpdates /\ v.id \in 1..MaxId /\ v.day \in 1..MaxDays
        /\ issued' \subseteq 1..MaxId
        /\ newest' \in [id : 0..MaxId, day : 0..MaxDays]
    BY <1>1, <1>2, <1>3, <2>1, PollerAssumption DEF PollerTypeOK, loop
  <2>3. batch' \subseteq inbox'
    BY <1>1 DEF PollerInv, Typed, loop
  <2> QED BY <1>1, <2>1, <2>2, <2>3 DEF Typed, PollerTypeOK, service, loop, past
<1>9. Batched'
  BY <1>1 DEF PollerInv, Batched, loop, service
<1>10. Recent'
  BY <1>1, <1>2, Numbers, PollerAssumption DEF PollerInv, Recent
<1>11. Numbered'
  <2>1. processed' = processed /\ settled' = settled
    BY <1>1 DEF service, past
  <2>2. newest'.id = id
    BY <1>1
  <2>3. \A v \in inbox' : v.serial \in 1..serial /\ v.id \in issued' /\ v.id <= id
    BY <1>1, <1>2, <1>3, <1>4, <1>6, Numbers DEF PollerInv, Numbered
  <2>4. settled \subseteq 1..serial
    <3>1. settled \subseteq 1..Cardinality(issued)
      BY DEF PollerInv, Numbered
    <3> QED BY <3>1, Numbers DEF serial
  <2>5. processed \subseteq issued
    BY DEF PollerInv, Numbered
  <2> QED BY <1>1, <1>3, <2>1, <2>2, <2>3, <2>4, <2>5 DEF Numbered
<1>12. OneSequence'
  <2>1. ASSUME NEW v \in inbox', NEW w \in inbox'
        PROVE  /\ v.serial < w.serial <=> v.id < w.id
               /\ v.serial = w.serial => v = w
    BY <1>1, <1>2, <1>3, <1>4, <1>6, Numbers DEF PollerInv, OneSequence
  <2> QED BY <2>1 DEF OneSequence
<1>13. OffsetKnown'
  <2>1. /\ today' = today /\ lastUpdateDay' = lastUpdateDay /\ nextOffset' = nextOffset
        /\ phase' = phase /\ offset' = offset /\ settled' = settled
        /\ newest'.id = id /\ newest'.day = today /\ issued' # {}
        /\ SequenceIsOld' = SequenceIsOld
    BY <1>1 DEF service, loop, past, SequenceIsOld
  <2>2. lastUpdateDay # 0 => lastUpdateDay <= today + RetentionDays
    BY Numbers, PollerAssumption DEF PollerInv, OffsetKnown, Recent
  <2>3. SequenceIsOld \/ nextOffset <= id
    <3>1. CASE id = newest.id + 1
      BY <3>1, Numbers DEF PollerInv, OffsetKnown
    <3>2. CASE id # newest.id + 1 /\ lastUpdateDay # 0
      <4>1. today - newest.day >= QuietDays /\ lastUpdateDay <= newest.day + RetentionDays
        BY <1>1, <3>2 DEF PollerInv, OffsetKnown
      <4> QED BY <3>2, <4>1, Numbers, PollerAssumption DEF SequenceIsOld
    <3>3. CASE lastUpdateDay = 0
      BY <3>3, Numbers DEF PollerInv, OffsetKnown
    <3> QED BY <3>1, <3>2, <3>3
  <2>4. \A v \in inbox' : SequenceIsOld \/ (v.id < nextOffset => v.serial \in settled)
    BY <1>1, <1>2, <2>3, Numbers DEF PollerInv, OffsetKnown
  <2>5. SequenceIsOld \/ nextOffset <= id + 1
    BY <2>3, Numbers
  <2> QED BY <2>1, <2>2, <2>4, <2>5 DEF PollerInv, OffsetKnown
<1>14. SettledKnown'
  <2>1. id \notin processed
    BY <1>1 DEF PollerInv, Numbered
  <2> QED BY <1>1, <1>2, <1>7, <2>1 DEF PollerInv, SettledKnown, service, past
<1>15. InOrder'
  <2>1. batch' = batch /\ settled' = settled /\ batch \subseteq inbox
    BY <1>1 DEF loop, past, PollerInv, Typed
  <2>2. \A v \in batch : ~(serial < v.serial)
    BY <1>3, <1>4, <2>1, Numbers
  <2> QED BY <1>1, <1>2, <2>1, <2>2 DEF PollerInv, InOrder
<1> QED BY <1>8, <1>9, <1>10, <1>11, <1>12, <1>13, <1>14, <1>15 DEF PollerInv

\* What is true of every update Telegram holds stays true when it holds fewer and the
\* service stores what it stored.
LEMMA FewerHeld ==
  ASSUME PollerInv, inbox' \subseteq inbox, batch' \subseteq inbox',
         UNCHANGED <<today, issued, newest, service, past>>
  PROVE  /\ Recent' /\ Numbered' /\ OneSequence' /\ SettledKnown'
         /\ SequenceIsOld' = SequenceIsOld
         /\ lastUpdateDay' = 0 => nextOffset' = 0
         /\ issued' = {} => lastUpdateDay' = 0
         /\ lastUpdateDay' # 0 => lastUpdateDay' <= newest'.day + RetentionDays
         /\ \/ SequenceIsOld'
            \/ /\ nextOffset' <= newest'.id + 1
               /\ \A u \in inbox' : u.id < nextOffset' => u.serial \in settled'
<1> USE DEF service, past
<1>1. Recent' /\ Numbered'
  BY DEF PollerInv, Recent, Numbered
<1>2. OneSequence' /\ SettledKnown'
  BY DEF PollerInv, OneSequence, SettledKnown
<1> QED BY <1>1, <1>2 DEF PollerInv, OffsetKnown, SequenceIsOld

LEMMA ForgetInv ==
  ASSUME PollerInv, NEW u \in inbox, Forget(u)
  PROVE  PollerInv'
<1>1. /\ phase = "idle" /\ inbox' = inbox \ {u} /\ batch = {}
      /\ UNCHANGED <<today, issued, newest, service, loop, restarts, past>>
  BY DEF Forget, PollerInv, Batched
<1>2. Typed' /\ Batched' /\ InOrder'
  BY <1>1 DEF PollerInv, Typed, PollerTypeOK, Batched, InOrder, service, loop, past
<1> QED BY <1>1, <1>2, FewerHeld DEF PollerInv, OffsetKnown, loop

LEMMA NextDayInv ==
  ASSUME PollerInv, NextDay
  PROVE  PollerInv'
<1>1. /\ phase = "idle" /\ today' = today + 1 /\ today < MaxDays
      /\ \A u \in inbox : today - u.day < RetentionDays
      /\ UNCHANGED <<telegram, service, loop, restarts, past>>
  BY DEF NextDay
<1> USE DEF telegram, service, loop, past
<1>2. Typed'
  BY <1>1, Numbers, PollerAssumption DEF PollerInv, Typed, PollerTypeOK
<1>3. Recent'
  BY <1>1, Numbers, PollerAssumption DEF PollerInv, Recent
<1>4. OffsetKnown'
  <2>1. SequenceIsOld => SequenceIsOld'
    BY <1>1, Numbers, PollerAssumption DEF SequenceIsOld
  <2> QED BY <1>1, <2>1 DEF PollerInv, OffsetKnown
<1> QED BY <1>1, <1>2, <1>3, <1>4
        DEF PollerInv, Batched, Numbered, OneSequence, SettledKnown, InOrder

LEMMA PreparePollingInv ==
  ASSUME PollerInv, PreparePolling
  PROVE  PollerInv'
<1>1. /\ phase = "idle" /\ phase' = "polling"
      /\ batch = {} /\ batch' = {}
      /\ UNCHANGED <<today, telegram, attempts, restarts, past>>
  BY DEF PreparePolling, PollerInv, Batched
<1> USE DEF telegram, past
<1>2. CASE SequenceIsOld
  <2>1. nextOffset' = 0 /\ lastUpdateDay' = 0 /\ processed' = {} /\ offset' = 0
    BY <1>2 DEF PreparePolling
  <2>2. \A u \in inbox : u.serial \notin settled
    <3> SUFFICES ASSUME NEW u \in inbox, u.serial \in settled PROVE FALSE
      OBVIOUS
    <3>1. u.day <= lastUpdateDay /\ today - u.day <= RetentionDays
      BY DEF PollerInv, SettledKnown, Recent
    <3>2. today - lastUpdateDay >= ResetAfterDays
      BY <1>2 DEF SequenceIsOld
    <3> QED BY <3>1, <3>2, Numbers, PollerAssumption
  <2>3. Typed'
    BY <1>1, <2>1, PollerAssumption DEF PollerInv, Typed, PollerTypeOK, Phases
  <2>4. OffsetKnown'
    BY <1>1, <2>1, Numbers DEF PollerInv, OffsetKnown, SequenceIsOld
  <2>5. SettledKnown'
    BY <1>1, <2>1, <2>2 DEF SettledKnown
  <2>6. Batched' /\ Recent' /\ Numbered' /\ OneSequence' /\ InOrder'
    BY <1>1, <2>1 DEF PollerInv, Batched, Recent, Numbered, OneSequence, InOrder
  <2> QED BY <2>3, <2>4, <2>5, <2>6 DEF PollerInv
<1>3. CASE ~SequenceIsOld
  <2>1. offset' = nextOffset /\ UNCHANGED service
    BY <1>3 DEF PreparePolling
  <2>2. Typed'
    BY <1>1, <2>1 DEF PollerInv, Typed, PollerTypeOK, Phases, service
  <2>3. OffsetKnown'
    BY <1>1, <1>3, <2>1 DEF PollerInv, OffsetKnown, SequenceIsOld, service
  <2>4. Batched' /\ Recent' /\ Numbered' /\ OneSequence' /\ InOrder' /\ SettledKnown'
    BY <1>1, <2>1 DEF PollerInv, Batched, Recent, Numbered, OneSequence, InOrder,
                      SettledKnown, service
  <2> QED BY <2>2, <2>3, <2>4 DEF PollerInv
<1> QED BY <1>2, <1>3

LEMMA ReceiveUpdatesInv ==
  ASSUME PollerInv, NEW updates \in SUBSET inbox, ReceiveUpdates(updates)
  PROVE  PollerInv'
<1>1. /\ phase = "polling" /\ phase' = "ready"
      /\ updates \subseteq Unconfirmed
      /\ \A u \in updates, v \in Unconfirmed \ updates : u.serial < v.serial
      /\ inbox' = Unconfirmed /\ batch' = updates
      /\ UNCHANGED <<today, issued, newest, service, offset, attempts, restarts, past>>
  BY DEF ReceiveUpdates
<1>2. inbox' \subseteq inbox /\ batch' \subseteq inbox'
  BY <1>1 DEF Unconfirmed
<1>3. Typed'
  BY <1>1, <1>2 DEF PollerInv, Typed, PollerTypeOK, Phases, service, past
<1>4. Batched'
  BY <1>1 DEF Batched
<1>5. OffsetKnown'
  <2>1. ~SequenceIsOld
    BY <1>1 DEF PollerInv, OffsetKnown
  <2> QED BY <1>1, <1>2, <2>1, FewerHeld DEF OffsetKnown
<1>6. InOrder'
  <2>1. ASSUME NEW v \in batch', NEW u \in inbox', u.serial < v.serial PROVE u \in batch'
    <3>1. u \notin batch' => v.serial < u.serial
      BY <1>1
    <3> QED BY <1>2, <2>1, <3>1, Numbers
  <2> QED BY <2>1 DEF InOrder
<1> QED BY <1>1, <1>2, <1>3, <1>4, <1>5, <1>6, FewerHeld DEF PollerInv

LEMMA PollFailsInv ==
  ASSUME PollerInv, PollFails
  PROVE  PollerInv'
<1>1. /\ phase = "polling" /\ phase' = "idle" /\ batch = {} /\ batch' = {}
      /\ inbox' \in {inbox, Unconfirmed}
      /\ UNCHANGED <<today, issued, newest, service, offset, attempts, restarts, past>>
  BY DEF PollFails, PollerInv, Batched
<1>2. inbox' \subseteq inbox
  BY <1>1 DEF Unconfirmed
<1>3. Typed' /\ Batched' /\ InOrder'
  BY <1>1, <1>2 DEF PollerInv, Typed, PollerTypeOK, Phases, Batched, InOrder, service, past
<1> QED BY <1>1, <1>2, <1>3, FewerHeld DEF PollerInv, OffsetKnown

LEMMA TakeUpdateInv ==
  ASSUME PollerInv, TakeUpdate
  PROVE  PollerInv'
<1> DEFINE u == Head(batch)
<1>1. /\ phase = "ready" /\ batch # {}
      /\ IF u.id \in processed
         THEN batch' = batch \ {u} /\ UNCHANGED phase
         ELSE phase' = "handling" /\ UNCHANGED batch
      /\ UNCHANGED <<today, telegram, service, offset, attempts, restarts, past>>
  BY DEF TakeUpdate
<1>2. u \in inbox
  BY <1>1, Numbers, HeadFacts
<1>3. u.id \in processed => u.serial \in settled
  BY <1>2 DEF PollerInv, SettledKnown
<1> HIDE DEF u
<1> USE DEF telegram, service, past
<1>4. batch' \subseteq batch
  BY <1>1
<1>5. Typed'
  BY <1>1, <1>4 DEF PollerInv, Typed, PollerTypeOK, Phases
<1>6. Batched'
  BY <1>1 DEF PollerInv, Batched, u
<1>7. InOrder'
  <2>1. ASSUME NEW v \in batch', NEW w \in inbox', w.serial < v.serial
        PROVE  w.serial \in settled' \/ w \in batch'
    BY <1>1, <1>3, <1>4, <2>1 DEF PollerInv, InOrder
  <2> QED BY <2>1 DEF InOrder
<1>8. OffsetKnown'
  BY <1>1 DEF PollerInv, OffsetKnown, SequenceIsOld
<1> QED BY <1>1, <1>5, <1>6, <1>7, <1>8
        DEF PollerInv, Recent, Numbered, OneSequence, SettledKnown

-----------------------------------------------------------------------------
(* Steps that settle the head of the batch, and steps that leave it.       *)

\* The update that is handled is marked: it was returned from or given up.
Settles ==
  LET u == Head(batch)
  IN  /\ phase = "handling"
      /\ MarkProcessed(u)
      /\ attempts' = [attempts EXCEPT ![u.id] = 0]
      /\ batch' = batch \ {u}
      /\ phase' = "ready"
      /\ dropped' \subseteq dropped \cup {u.serial}
      /\ UNCHANGED <<today, telegram, offset, restarts>>

\* Every update that arrived before the one that is handled, and that Telegram still
\* holds, is settled.
LEMMA EarlierSettled ==
  ASSUME PollerInv, phase = "handling"
  PROVE  /\ Head(batch) \in batch /\ Head(batch) \in inbox
         /\ \A v \in inbox : v.serial < Head(batch).serial => v.serial \in settled
<1>1. batch # {}
  BY DEF PollerInv, Batched
<1>2. Head(batch) \in batch /\ \A v \in batch : Head(batch).id <= v.id
  BY <1>1, Numbers, HeadFacts
<1>3. Head(batch) \in inbox
  BY <1>2, Numbers
<1>4. ASSUME NEW v \in inbox, v.serial < Head(batch).serial PROVE v.serial \in settled
  <2>1. v.id < Head(batch).id
    BY <1>3, <1>4 DEF PollerInv, OneSequence
  <2>2. v \notin batch
    BY <1>2, <1>3, <2>1, Numbers
  <2> QED BY <1>2, <1>4, <2>2 DEF PollerInv, InOrder
<1> QED BY <1>2, <1>3, <1>4

LEMMA SettlesInv ==
  ASSUME PollerInv, Settles
  PROVE  PollerInv'
<1> DEFINE u == Head(batch)
<1>1. /\ phase = "handling" /\ phase' = "ready" /\ batch' = batch \ {u}
      /\ processed' = processed \cup {u.id}
      /\ nextOffset' = IF nextOffset <= u.id THEN u.id + 1 ELSE nextOffset
      /\ lastUpdateDay' = today
      /\ settled' = settled \cup {u.serial}
      /\ attempts' = [attempts EXCEPT ![u.id] = 0]
      /\ dropped' \subseteq dropped \cup {u.serial}
      /\ UNCHANGED <<today, inbox, issued, newest, offset, restarts>>
  BY DEF Settles, MarkProcessed, telegram
<1>2. /\ u \in batch /\ u \in inbox
      /\ \A v \in inbox : v.serial < u.serial => v.serial \in settled
  BY <1>1, EarlierSettled
<1> HIDE DEF u
<1>3. /\ u.serial \in 1..MaxUpdates /\ u.id \in 1..MaxId /\ u.id \in issued
      /\ u.serial \in 1..Cardinality(issued) /\ u.id <= newest.id
      /\ today <= u.day + RetentionDays /\ u.day <= newest.day /\ u.day \in Nat
  <2>1. /\ u.serial \in 1..MaxUpdates /\ u.id \in 1..MaxId
        /\ u.id \in issued /\ u.serial \in 1..Cardinality(issued) /\ u.id <= newest.id
    BY <1>2 DEF PollerInv, Typed, PollerTypeOK, Numbered
  <2>2. today \in Nat /\ u.day \in Nat /\ RetentionDays \in Nat
    BY <1>2, Numbers, PollerAssumption
  <2>3. today - u.day <= RetentionDays /\ u.day <= newest.day
    BY <1>2 DEF PollerInv, Recent
  <2> QED BY <2>1, <2>2, <2>3
<1>4. ~SequenceIsOld
  BY <1>1 DEF PollerInv, OffsetKnown
<1>5. Typed'
  <2>1. PollerTypeOK /\ batch \subseteq inbox
    BY DEF PollerInv, Typed
  <2>2. nextOffset' \in 0..MaxId + 1 /\ lastUpdateDay' \in 0..MaxDays
    <3>1. /\ nextOffset \in 0..MaxId + 1 /\ today \in 1..MaxDays
          /\ MaxId \in Nat /\ MaxDays \in Nat /\ u.id \in 1..MaxId
      BY <1>3, <2>1, PollerAssumption DEF PollerTypeOK
    <3>2. nextOffset' \in 0..MaxId + 1
      <4>1. CASE nextOffset <= u.id
        BY <1>1, <3>1, <4>1
      <4>2. CASE ~(nextOffset <= u.id)
        BY <1>1, <3>1, <4>2
      <4> QED BY <4>1, <4>2
    <3>3. lastUpdateDay' \in 0..MaxDays
      BY <1>1, <3>1
    <3> QED BY <3>2, <3>3
  <2>3. attempts' \in [1..MaxId -> 0..MaxUpdateAttempts - 1]
    <3>1. /\ attempts \in [1..MaxId -> 0..MaxUpdateAttempts - 1]
          /\ MaxUpdateAttempts \in Nat \ {0}
      BY <2>1, PollerAssumption DEF PollerTypeOK
    <3>2. 0 \in 0..MaxUpdateAttempts - 1
      BY <3>1
    <3> QED BY <1>1, <3>1, <3>2
  <2>4. /\ processed' \subseteq 1..MaxId /\ settled' \subseteq 1..MaxUpdates
        /\ dropped' \subseteq settled'
    BY <1>1, <1>3, <2>1 DEF PollerTypeOK
  <2> QED BY <1>1, <2>1, <2>2, <2>3, <2>4 DEF Typed, PollerTypeOK, Phases
<1>6. Batched' /\ Recent' /\ OneSequence'
  BY <1>1 DEF PollerInv, Batched, Recent, OneSequence
<1>7. Numbered'
  BY <1>1, <1>3 DEF PollerInv, Numbered
<1>8. SettledKnown'
  <2>1. ASSUME NEW v \in inbox
        PROVE  /\ v.serial = u.serial <=> v.id = u.id
               /\ v.day <= today /\ (v.serial = u.serial => v = u)
    <3>1. /\ v.serial < u.serial <=> v.id < u.id
          /\ u.serial < v.serial <=> u.id < v.id
          /\ v.serial = u.serial => v = u
      BY <1>2 DEF PollerInv, OneSequence
    <3> QED BY <1>2, <3>1, Numbers DEF PollerInv, Recent
  <2> QED BY <1>1, <2>1 DEF PollerInv, SettledKnown
<1>9. OffsetKnown'
  <2>1. ~SequenceIsOld'
    BY <1>1, Numbers, PollerAssumption DEF SequenceIsOld
  <2>2. nextOffset' <= newest'.id + 1
    BY <1>1, <1>3, <1>4, Numbers DEF PollerInv, OffsetKnown
  <2>3. ASSUME NEW v \in inbox, v.id < nextOffset' PROVE v.serial \in settled'
    <3>1. CASE v.id < nextOffset
      BY <1>1, <1>4, <3>1 DEF PollerInv, OffsetKnown
    <3>2. CASE ~(v.id < nextOffset)
      <4>1. v.id <= u.id
        BY <1>1, <1>2, <2>3, <3>2, Numbers
      <4>2. /\ u.serial < v.serial <=> u.id < v.id
            /\ v.serial = u.serial => v = u
        BY <1>2 DEF PollerInv, OneSequence
      <4>3. v.serial <= u.serial
        BY <1>2, <4>1, <4>2, Numbers
      <4> QED BY <1>1, <1>2, <4>3, Numbers
    <3> QED BY <3>1, <3>2
  <2>4. /\ lastUpdateDay' # 0 /\ issued' # {}
        /\ lastUpdateDay' <= newest'.day + RetentionDays
    BY <1>1, <1>3, Numbers, PollerAssumption
  <2> QED BY <1>1, <2>1, <2>2, <2>3, <2>4 DEF OffsetKnown
<1>10. InOrder'
  <2>1. ASSUME NEW v \in batch', NEW w \in inbox', w.serial < v.serial
        PROVE  w.serial \in settled' \/ w \in batch'
    BY <1>1, <2>1 DEF PollerInv, InOrder
  <2> QED BY <2>1 DEF InOrder
<1> QED BY <1>5, <1>6, <1>7, <1>8, <1>9, <1>10 DEF PollerInv

\* The loop stops working on a batch: it is done, abandoned, or the process ends.
Leaves ==
  /\ phase' \in {"idle", "flushing"}
  /\ phase = "idle" => phase' = "idle"
  /\ batch' = {}
  /\ attempts' \in [1..MaxId -> 0..MaxUpdateAttempts - 1]
  /\ restarts' \in 0..MaxRestarts
  /\ UNCHANGED <<today, telegram, service, offset, past>>

LEMMA LeavesInv ==
  ASSUME PollerInv, Leaves
  PROVE  PollerInv'
<1> USE DEF telegram, service, past
<1>1. Typed'
  BY DEF Leaves, PollerInv, Typed, PollerTypeOK, Phases
<1>2. OffsetKnown'
  BY DEF Leaves, PollerInv, OffsetKnown, SequenceIsOld
<1> QED BY <1>1, <1>2
        DEF Leaves, PollerInv, Batched, Recent, Numbered, OneSequence, SettledKnown, InOrder

\* An end of the handler settles its update or leaves the batch.
LEMMA HandlerEndsKinds ==
  ASSUME PollerInv,
         HandlerReturns \/ \E kind \in {"transient", "terminal"} : HandlerFails(kind)
  PROVE  Settles \/ Leaves
<1>1. CASE HandlerReturns
  BY <1>1 DEF HandlerReturns, Settles
<1>2. ASSUME NEW kind \in {"transient", "terminal"}, HandlerFails(kind)
      PROVE  Settles \/ Leaves
  <2> DEFINE u == Head(batch)
  <2>1. /\ phase = "handling"
        /\ IF GivesUp(u, kind) THEN Drops(u) ELSE TriesAgain(u)
        /\ UNCHANGED <<today, telegram, offset, restarts>>
    BY <1>2 DEF HandlerFails
  <2>2. CASE GivesUp(u, kind)
    BY <2>1, <2>2 DEF Drops, Settles
  <2>3. CASE ~GivesUp(u, kind)
    <3>1. /\ attempts' = [attempts EXCEPT ![u.id] = @ + 1]
          /\ batch' = {} /\ phase' = "idle"
          /\ UNCHANGED <<service, settled, dropped>>
      BY <2>1, <2>3 DEF TriesAgain
    <3>2. ~(attempts[u.id] + 1 >= MaxUpdateAttempts)
      BY <2>3 DEF GivesUp
    <3>3. u \in inbox
      BY <2>1, EarlierSettled
    <3> HIDE DEF u
    <3>4. attempts \in [1..MaxId -> 0..MaxUpdateAttempts - 1] /\ u.id \in 1..MaxId
          /\ restarts \in 0..MaxRestarts
      BY <3>3 DEF PollerInv, Typed, PollerTypeOK
    <3>5. attempts' \in [1..MaxId -> 0..MaxUpdateAttempts - 1]
      BY <3>1, <3>2, <3>4, PollerAssumption
    <3> QED BY <2>1, <3>1, <3>4, <3>5 DEF Leaves, past
  <2> QED BY <2>2, <2>3
<1> QED BY <1>1, <1>2

LEMMA LeavesKinds ==
  ASSUME PollerInv, BeginFlush \/ EndFlush \/ Restart
  PROVE  Leaves
<1>1. /\ attempts \in [1..MaxId -> 0..MaxUpdateAttempts - 1]
      /\ restarts \in 0..MaxRestarts
      /\ phase \in {"flushing", "idle"} => batch = {}
  BY DEF PollerInv, Typed, PollerTypeOK, Batched
<1>2. CASE BeginFlush
  BY <1>1, <1>2 DEF BeginFlush, Leaves
<1>3. CASE EndFlush
  BY <1>1, <1>3 DEF EndFlush, Leaves
<1>4. CASE Restart
  BY <1>1, <1>4, PollerAssumption DEF Restart, Leaves
<1> QED BY <1>2, <1>3, <1>4

-----------------------------------------------------------------------------
(* The theorems.                                                           *)

\* The steps of the loop and of Telegram, whatever an update carries.
PollerStep == PollerNext \/ \E id \in 1..MaxId : \E body : Arrive(id, body)

\* Every step keeps the invariant.
LEMMA PollerStepInv ==
  ASSUME PollerInv, [PollerStep]_pollerVars
  PROVE  PollerInv'
<1>1. CASE \E id \in 1..MaxId : \E body : Arrive(id, body)
  BY <1>1, ArriveInv
<1>2. CASE TelegramMoves
  BY <1>2, ArriveInv, ForgetInv, NextDayInv DEF TelegramMoves
<1>3. CASE HandlerReturns \/ \E kind \in {"transient", "terminal"} : HandlerFails(kind)
  BY <1>3, HandlerEndsKinds, SettlesInv, LeavesInv
<1>4. CASE BeginFlush \/ EndFlush \/ Restart
  BY <1>4, LeavesKinds, LeavesInv
<1>5. CASE PreparePolling \/ PollFails \/ TakeUpdate
           \/ \E updates \in SUBSET inbox : ReceiveUpdates(updates)
  BY <1>5, PreparePollingInv, PollFailsInv, TakeUpdateInv, ReceiveUpdatesInv
<1>6. CASE UNCHANGED pollerVars
  BY <1>6 DEF pollerVars, telegram, service, loop, past, PollerInv, Typed, PollerTypeOK,
              Batched, Recent, Numbered, OneSequence, OffsetKnown, SettledKnown, InOrder,
              SequenceIsOld
<1> QED BY <1>1, <1>2, <1>3, <1>4, <1>5, <1>6 DEF PollerStep, PollerNext, LoopStep

THEOREM PollerConsistent == PollerSpec => []PollerInv
<1>1. PollerInv /\ [PollerNext]_pollerVars => PollerInv'
  BY PollerStepInv DEF PollerStep
<1> QED BY <1>1, PollerInitInv, PTL DEF PollerSpec

\* Every variable keeps its type.
THEOREM PollerTypesHold == PollerSpec => []PollerTypeOK
<1>1. PollerInv => PollerTypeOK
  BY DEF PollerInv, Typed
<1> QED BY <1>1, PollerConsistent, PTL

\* Telegram is never told to discard an update that was not settled, also when it
\* starts a new sequence of ids.
THEOREM ConfirmedWereSettled == PollerSpec => []OnlySettledAreConfirmed
<1>1. PollerInv => OnlySettledAreConfirmed
  BY DEF PollerInv, OffsetKnown, OnlySettledAreConfirmed
<1> QED BY <1>1, PollerConsistent, PTL

\* An update that is settled is not handled again.
LEMMA InvHandledOnce == ASSUME PollerInv PROVE HandledOnce
<1> SUFFICES ASSUME phase = "handling" PROVE Head(batch).serial \notin settled
  BY DEF HandledOnce
<1>1. Head(batch) \in inbox /\ Head(batch).id \notin processed
  BY EarlierSettled DEF PollerInv, Batched
<1> QED BY <1>1 DEF PollerInv, SettledKnown

THEOREM UpdatesAreHandledOnce == PollerSpec => []HandledOnce
<1>1. PollerInv => HandledOnce
  BY InvHandledOnce
<1> QED BY <1>1, PollerConsistent, PTL

\* No update overtakes an earlier one that Telegram still holds.
THEOREM UpdatesSettleInOrder == PollerSpec => SettledInOrder
<1>1. ASSUME PollerInv, [PollerNext]_pollerVars, NEW u \in inbox,
             u.serial \in settled' \ settled, NEW v \in inbox, v.serial < u.serial
      PROVE  v.serial \in settled
  <2>1. Settles
    <3>1. CASE HandlerReturns \/ \E kind \in {"transient", "terminal"} : HandlerFails(kind)
      BY <1>1, <3>1, HandlerEndsKinds DEF Leaves, past
    <3>2. CASE BeginFlush \/ EndFlush \/ Restart
      BY <1>1, <3>2 DEF BeginFlush, EndFlush, Restart, past
    <3>3. CASE PreparePolling \/ PollFails \/ TakeUpdate
               \/ \E updates \in SUBSET inbox : ReceiveUpdates(updates)
      BY <1>1, <3>3 DEF PreparePolling, PollFails, TakeUpdate, ReceiveUpdates, past
    <3>4. CASE TelegramMoves
      BY <1>1, <3>4 DEF TelegramMoves, Arrive, Forget, NextDay, past
    <3>5. CASE UNCHANGED pollerVars
      BY <1>1, <3>5 DEF pollerVars, past
    <3> QED BY <1>1, <3>1, <3>2, <3>3, <3>4, <3>5 DEF PollerNext, LoopStep
  <2>2. u.serial = Head(batch).serial
    BY <1>1, <2>1 DEF Settles, MarkProcessed
  <2> QED BY <1>1, <2>1, <2>2, EarlierSettled DEF Settles
<1>2. PollerInv /\ [PollerNext]_pollerVars =>
        [\A u \in inbox : u.serial \in settled' \ settled =>
           \A v \in inbox : v.serial < u.serial => v.serial \in settled]_pollerVars
  BY <1>1
<1> QED BY <1>2, PollerConsistent, PTL DEF PollerSpec, SettledInOrder

=============================================================================
