-------------------------- MODULE ChatFlow_proofs --------------------------
(***************************************************************************)
(* Proofs that the chat wizard keeps its sessions, its replies and the     *)
(* commands it gives to the bank together, as ChatFlow promises: for any   *)
(* users, requests, updates, days, crashes and lost messages.  The loop    *)
(* around the handler is proved about in UpdatePoller_proofs.              *)
(***************************************************************************)
EXTENDS ChatFlow, UpdatePoller_proofs

-----------------------------------------------------------------------------
(* The inductive invariant, part by part.                                  *)

ReplyRow ==
  [update : 1..MaxId, user : Users, status : {"pending", "delivered"}, processed : BOOLEAN,
   offers : SessionRow]

RequestKinds == {"command", "text", "back", "next", "review", "confirm"}

\* The sessions that the user has, was shown or is owed.
Known(user) ==
  ({session[user]} \ {NoSession}) \cup seen[user]
    \cup {r.offers : r \in {q \in replies : q.user = user}}

\* Where the handler is says what the loop does.
PlacesInv ==
  /\ at \in Places
  /\ at = "out" <=> phase \notin {"handling", "flushing"}
  /\ at \in {"start", "enter", "answered", "plain", "committed", "done"} => Handling
  /\ at = "flush" => phase = "flushing"
  /\ at \in {"send", "refused"} => \/ Handling /\ after \in {"enter", "done"}
                                   \/ phase = "flushing" /\ after = "flush"
  /\ after \in Places
  /\ target \in 0..MaxId /\ queue \subseteq 1..MaxId

\* A flow belongs to one user and has one review.
FlowsInv ==
  /\ session \in [Users -> SessionRow \cup {NoSession}]
  /\ seen \in [Users -> SUBSET SessionRow]
  /\ bank \in [Users -> Amounts \cup {NoBank}] /\ utcDay \in 0..MaxMidnights
  /\ flows \in Nat
  /\ \A u \in Users : \A s \in Known(u) :
       s.flow <= flows /\ s.saved <= today /\ bank[u] # NoBank
  /\ \A u, v \in Users : \A s \in Known(u), t \in Known(v) :
       s.flow = t.flow => u = v /\ (s.step = "review" /\ t.step = "review" => s = t)

\* What the handler holds across its await is what is stored.
HeldInv ==
  /\ held \in SessionRow \cup {NoSession}
  /\ held # NoSession => held.flow <= flows /\ held.saved <= today
  /\ at \in {"answered", "committed"} =>
       held = session[CurrentUser] /\ Live(held) /\ held.flow = Current.body.flow

\* A confirmation is a press of a button that its user was shown.
BodiesInv ==
  \A u \in inbox :
    /\ u.body.user \in Users /\ u.body.kind \in RequestKinds
    /\ u.body.kind = "confirm" =>
         \E s \in seen[u.body.user] : /\ s.step = "review" /\ s.flow = u.body.flow
                                      /\ s.preview = u.body.shown /\ s.saved <= u.day

\* One reply for an update, one pending for a user.
RepliesInv ==
  /\ replies \subseteq ReplyRow
  /\ \A r, q \in replies : r.update = q.update => r = q
  /\ \A r, q \in replies :
       (r.status = "pending" /\ q.status = "pending" /\ r.user = q.user) => r = q
  /\ \A r \in replies : r.status = "pending" => session[r.user] \in {r.offers, NoSession}
  /\ ReceiptsDisappear

\* Before the handler looks at an update nothing is owed to its user.
TurnInv ==
  /\ at \in {"enter", "answered"} => ReplyTo(Current.id) = {} /\ PendingOf(CurrentUser) = {}
  /\ at \in {"send", "refused"} =>
       /\ after = "enter" => /\ ReplyTo(Current.id) = {}
                             /\ PendingOf(CurrentUser) \subseteq ReplyTo(target)
       /\ after = "done" => target = Current.id /\ ReplyTo(target) # {}
  /\ at = "refused" => \A r \in ReplyTo(target) : session[r.user] = NoSession

\* An operation belongs to one update, a press of its confirmation, handled in turn.
RecordsInv ==
  \A o \in executed :
    /\ o.user \in Users /\ o.flow \in Nat /\ o.flow <= flows
    /\ \E s \in seen[o.user] : s.flow = o.flow
    /\ o.update \in issued /\ o.serial \in 1..Cardinality(issued)
    /\ ReplyTo(o.update) = {}
    /\ \A p \in executed : p.update = o.update => p = o
    /\ \A u \in inbox : /\ u.id = o.update <=> u.serial = o.serial
                        /\ u.serial = o.serial =>
                             /\ u.body.user = o.user /\ u.body.flow = o.flow
                             /\ u.body.kind = "confirm"
                             /\ \A v \in inbox : v.serial < u.serial => v.serial \in settled

\* The update that executed a review is handled again before anybody else can use the review, and
\* will delete it.
Guarded(o) ==
  (/\ o.verdict # "rejected" /\ o.serial \notin dropped
   /\ session[o.user] # NoSession /\ session[o.user].flow = o.flow)
  => \/ ~Live(session[o.user])
     \/ \E u \in inbox : /\ u.serial = o.serial /\ u.serial \notin settled
                         /\ session[o.user].saved <= u.day
                         /\ ~(at \in {"plain", "done"} /\ u = Current)

ExecutedInv == ConfirmedAsShown /\ OncePerReview /\ \A o \in executed : Guarded(o)

WizardInv ==
  /\ PollerInv /\ PlacesInv /\ FlowsInv /\ HeldInv /\ BodiesInv /\ RepliesInv /\ TurnInv
  /\ SessionIsPrompted /\ RecordsInv /\ ExecutedInv

-----------------------------------------------------------------------------
(* A flow ID is drawn once for an update.                                  *)

Replied(id) == \E r \in replies : r.update = id

\* A reply belongs to an update that arrived and was handled in turn.
OriginsInv ==
  /\ \A r \in replies : r.update \in issued
  /\ \A r \in replies, u \in inbox : r.update = u.id =>
       /\ u.day <= r.offers.saved
       /\ r.processed => u.serial \in settled
       /\ \A v \in inbox : v.serial < u.serial => v.serial \in settled

\* What was settled is not asked for again.
OffsetPasses == \A u \in inbox : u.serial \in settled => u.id < nextOffset

\* An update with a reply that is not settled is the first to be taken.
RepliedInBatch ==
  \A u \in inbox : Replied(u.id) /\ u.serial \notin settled =>
    /\ phase # "flushing"
    /\ phase \in {"ready", "handling"} => u \in batch

\* The update will draw no flow ID any more, unless the process ends.
Drawn(u) == u.serial \in settled \/ Replied(u.id) \/ (at = "done" /\ u = Current)

Spent == {id \in issued : \A u \in inbox : u.id = id => Drawn(u)}

DrawsInv ==
  /\ OriginsInv /\ OffsetPasses /\ RepliedInBatch
  /\ flows <= Cardinality(Spent) + restarts

ChatInv == WizardInv /\ DrawsInv

-----------------------------------------------------------------------------
(* Lemmas about the update that is handled.                                *)

LEMMA CurrentFacts ==
  ASSUME PollerInv, Handling
  PROVE  /\ Current \in batch /\ Current \in inbox /\ Current.serial \notin settled
         /\ \A v \in inbox : v.serial < Current.serial => v.serial \in settled
         /\ Current.id \in issued /\ Current.id \in 1..MaxId /\ Current.serial \in Nat
         /\ today \in Nat
<1>1. phase = "handling"
  BY DEF Handling
<1>2. /\ Head(batch) \in batch /\ Head(batch) \in inbox
      /\ \A v \in inbox : v.serial < Head(batch).serial => v.serial \in settled
  BY <1>1, EarlierSettled
<1>3. Head(batch).serial \notin settled
  BY <1>1, InvHandledOnce DEF HandledOnce
<1>4. Head(batch).id \in issued /\ Head(batch).id \in 1..MaxId
  BY <1>2 DEF PollerInv, Numbered, Typed, PollerTypeOK
<1> QED BY <1>2, <1>3, <1>4, Numbers DEF Current

\* An operation of an update that is not settled: that update is handled now, or none is.
LEMMA RecordedNow ==
  ASSUME PollerInv, RecordsInv, Handling,
         NEW o \in executed, NEW u \in inbox, u.serial = o.serial, u.serial \notin settled
  PROVE  u = Current
<1> DEFINE c == Current
<1>1. /\ c \in inbox /\ c.serial \notin settled
      /\ \A v \in inbox : v.serial < c.serial => v.serial \in settled
  BY CurrentFacts
<1>2. \A v \in inbox : v.serial < u.serial => v.serial \in settled
  BY DEF RecordsInv
<1>3. u.serial \in Nat /\ c.serial \in Nat
  BY <1>1, Numbers
<1> HIDE DEF c
<1>4. u.serial = c.serial
  BY <1>1, <1>2, <1>3
<1>5. u = c
  BY <1>1, <1>4 DEF PollerInv, OneSequence
<1> QED BY <1>5 DEF c

\* What is known of sessions is typed.
LEMMA KnownTyped ==
  ASSUME FlowsInv, RepliesInv, NEW u \in Users, NEW s \in Known(u)
  PROVE  s \in SessionRow /\ s # NoSession /\ s.flow \in Nat \ {0} /\ s.saved \in Nat \ {0}
<1>1. s \in SessionRow
  <2>1. CASE s \in {session[u]} \ {NoSession}
    BY <2>1 DEF FlowsInv
  <2>2. CASE s \in seen[u]
    BY <2>2 DEF FlowsInv
  <2>3. CASE s \in {r.offers : r \in {q \in replies : q.user = u}}
    BY <2>3 DEF RepliesInv, ReplyRow
  <2> QED BY <2>1, <2>2, <2>3 DEF Known
<1> QED BY <1>1, ChatFlowAssumption DEF SessionRow

\* Steps after which no more is known.
LEMMA FlowsKept ==
  ASSUME FlowsInv, RepliesInv, today \in Nat, today' \in Nat, today <= today', flows' = flows,
         session' \in [Users -> SessionRow \cup {NoSession}], seen' \in [Users -> SUBSET SessionRow],
         bank' \in [Users -> Amounts \cup {NoBank}], utcDay' \in 0..MaxMidnights,
         \A u \in Users : Known(u)' \subseteq Known(u),
         \A u \in Users : bank[u] # NoBank => bank'[u] # NoBank
  PROVE  FlowsInv'
<1>1. ASSUME NEW u \in Users, NEW s \in Known(u)'
      PROVE  s.flow <= flows' /\ s.saved <= today' /\ bank'[u] # NoBank
  <2>1. s \in Known(u)
    BY <1>1
  <2>2. s.saved \in Nat /\ s.flow <= flows /\ s.saved <= today /\ bank[u] # NoBank
    BY <2>1, KnownTyped DEF FlowsInv
  <2> QED BY <2>2
<1>2. ASSUME NEW u \in Users, NEW v \in Users, NEW s \in Known(u)', NEW t \in Known(v)', s.flow = t.flow
      PROVE  u = v /\ (s.step = "review" /\ t.step = "review" => s = t)
  BY <1>2 DEF FlowsInv
<1> QED BY <1>1, <1>2 DEF FlowsInv

LEMMA PollerSame ==
  ASSUME PollerInv, UNCHANGED pollerVars
  PROVE  /\ PollerInv' /\ Current' = Current /\ CurrentUser' = CurrentUser /\ (Handling' <=> Handling)
         /\ UNCHANGED <<today, inbox, issued, phase, batch, settled, dropped, restarts, nextOffset>>
<1>1. UNCHANGED <<today, inbox, issued, phase, batch, settled, dropped, restarts, nextOffset>>
  BY DEF pollerVars, telegram, service, loop, past
<1>2. PollerInv'
  BY PollerStepInv
<1> QED BY <1>1, <1>2 DEF Current, CurrentUser, Handling, Head

\* An update that is no confirmation, or one that the bank does not know, executed nothing.
LEMMA NotRecorded ==
  ASSUME WizardInv, Handling, Current.body.kind = "confirm" => Recorded = {}
  PROVE  \A o \in executed : o.update # Current.id
<1> SUFFICES ASSUME NEW o \in executed, o.update = Current.id PROVE FALSE
  OBVIOUS
<1>1. PollerInv /\ RecordsInv
  BY DEF WizardInv
<1>2. Current \in inbox
  BY <1>1, CurrentFacts
<1>3. Current.body.user = o.user /\ Current.body.kind = "confirm"
  BY <1>1, <1>2 DEF RecordsInv
<1>4. o \in Recorded
  BY <1>3 DEF Recorded, CurrentUser
<1> QED BY <1>3, <1>4

-----------------------------------------------------------------------------
(* What a handler offers.                                                  *)

\* A session and its reply are committed together: of a new flow, or the flow goes on.
Offering(s) ==
  /\ Handling /\ at \in {"enter", "answered"}
  /\ s \in SessionRow /\ s.saved = today
  /\ bank[CurrentUser] # NoBank
  /\ \/ flows' = flows + 1 /\ s.flow = flows'
     \/ /\ flows' = flows /\ s.step # "review"
        /\ Live(session[CurrentUser]) /\ s.flow = session[CurrentUser].flow
        /\ Current.body.kind # "confirm"
  /\ Current.body.kind = "confirm" => Recorded = {}
  /\ session' = [session EXCEPT ![CurrentUser] = s]
  /\ replies' = replies \cup {Reply(Current, s)}
  /\ at' = "send" /\ target' = Current.id /\ after' = "done"
  /\ held' \in {held, NoSession}
  /\ UNCHANGED <<pollerVars, bank, utcDay, queue, seen, executed>>

LEMMA OfferingKeeps ==
  ASSUME WizardInv, NEW s, Offering(s)
  PROVE  WizardInv'
<1> DEFINE c == Current
           cu == CurrentUser
           new == Reply(c, s)
<1>1. /\ PollerInv /\ PlacesInv /\ FlowsInv /\ HeldInv /\ BodiesInv /\ RepliesInv /\ TurnInv
      /\ SessionIsPrompted /\ RecordsInv /\ ExecutedInv
  BY DEF WizardInv
<1>2. /\ Handling /\ at \in {"enter", "answered"}
      /\ s \in SessionRow /\ s.saved = today /\ bank[cu] # NoBank
      /\ \/ flows' = flows + 1 /\ s.flow = flows'
         \/ /\ flows' = flows /\ s.step # "review"
            /\ Live(session[cu]) /\ s.flow = session[cu].flow
            /\ c.body.kind # "confirm"
      /\ session' = [session EXCEPT ![cu] = s]
      /\ replies' = replies \cup {new}
      /\ at' = "send" /\ target' = c.id /\ after' = "done"
      /\ held' \in {held, NoSession}
      /\ UNCHANGED <<bank, utcDay, queue, seen, executed>>
  BY DEF Offering
<1>3. /\ PollerInv' /\ Current' = c /\ CurrentUser' = cu /\ Handling'
      /\ UNCHANGED <<today, inbox, issued, phase, batch, settled, dropped>>
  BY <1>1, <1>2, PollerSame DEF Offering
<1>4. /\ c \in inbox /\ c.id \in 1..MaxId /\ c.id \in Nat /\ today \in Nat /\ cu \in Users /\ cu = c.body.user
      /\ c.serial \notin settled
  BY <1>1, <1>2, CurrentFacts DEF BodiesInv, CurrentUser
<1>5. /\ new.update = c.id /\ new.user = cu /\ new.status = "pending" /\ new.processed = FALSE
      /\ new.offers = s /\ new \in ReplyRow
  BY <1>2, <1>4 DEF Reply, ReplyRow
<1>6. s # NoSession /\ s.flow \in Nat /\ flows \in Nat
  BY <1>1, <1>2, ChatFlowAssumption DEF FlowsInv, SessionRow
<1>7. ReplyTo(c.id) = {} /\ PendingOf(cu) = {}
  BY <1>1, <1>2 DEF TurnInv
<1>8. session'[cu] = s /\ \A u \in Users \ {cu} : session'[u] = session[u]
  BY <1>1, <1>2, <1>4 DEF FlowsInv
<1> HIDE DEF c, cu, new
<1>9. PlacesInv'
  BY <1>1, <1>2, <1>3, <1>4 DEF PlacesInv, Places, Handling
<1>10. FlowsInv'
  <2>1. \A u \in Users : Known(u)' \subseteq Known(u) \cup (IF u = cu THEN {s} ELSE {})
    BY <1>2, <1>5, <1>8 DEF Known
  <2>2. /\ session' \in [Users -> SessionRow \cup {NoSession}] /\ seen' \in [Users -> SUBSET SessionRow]
        /\ bank' \in [Users -> Amounts \cup {NoBank}] /\ utcDay' \in 0..MaxMidnights /\ flows' \in Nat
        /\ flows <= flows' /\ s.flow <= flows'
    <3>1. session' \in [Users -> SessionRow \cup {NoSession}]
      BY <1>1, <1>2 DEF FlowsInv
    <3>2. s.flow <= flows' /\ flows' \in Nat /\ flows <= flows'
      <4>1. CASE flows' = flows + 1 /\ s.flow = flows'
        BY <1>6, <4>1
      <4>2. CASE flows' = flows /\ Live(session[cu]) /\ s.flow = session[cu].flow
        <5>1. session[cu] \in Known(cu)
          BY <4>2 DEF Known, Live
        <5> QED BY <1>1, <1>4, <1>6, <4>2, <5>1 DEF FlowsInv
      <4> QED BY <1>2, <4>1, <4>2
    <3> QED BY <1>1, <1>2, <3>1, <3>2 DEF FlowsInv
  <2>3. ASSUME NEW u \in Users, NEW t \in Known(u)'
        PROVE  t.flow <= flows' /\ t.saved <= today' /\ bank'[u] # NoBank
    <3>1. CASE t \in Known(u)
      <4>1. t.flow <= flows /\ t.saved <= today /\ bank[u] # NoBank /\ t.flow \in Nat
        BY <1>1, <3>1, KnownTyped DEF FlowsInv
      <4> QED BY <1>2, <1>3, <1>6, <2>2, <4>1
    <3>2. CASE u = cu /\ t = s
      BY <1>2, <1>3, <1>4, <2>2, <3>2
    <3> QED BY <2>1, <3>1, <3>2
  <2>4. ASSUME NEW u \in Users, NEW t \in Known(u), t.flow = s.flow
        PROVE  u = cu /\ s.step # "review"
    <3>1. CASE flows' = flows + 1 /\ s.flow = flows'
      <4>1. t.flow <= flows
        BY <1>1 DEF FlowsInv
      <4> QED BY <1>6, <2>4, <3>1, <4>1
    <3>2. CASE s.step # "review" /\ Live(session[cu]) /\ s.flow = session[cu].flow
      <4>1. session[cu] \in Known(cu)
        BY <3>2 DEF Known, Live
      <4> QED BY <1>1, <1>4, <2>4, <3>2, <4>1 DEF FlowsInv
    <3> QED BY <1>2, <3>1, <3>2
  <2>5. ASSUME NEW u \in Users, NEW v \in Users, NEW a \in Known(u)', NEW b \in Known(v)', a.flow = b.flow
        PROVE  u = v /\ (a.step = "review" /\ b.step = "review" => a = b)
    <3>1. CASE a \in Known(u) /\ b \in Known(v)
      BY <1>1, <2>5, <3>1 DEF FlowsInv
    <3>2. CASE a \in Known(u) /\ v = cu /\ b = s
      BY <2>4, <2>5, <3>2
    <3>3. CASE u = cu /\ a = s /\ b \in Known(v)
      BY <2>4, <2>5, <3>3
    <3>4. CASE u = cu /\ a = s /\ v = cu /\ b = s
      BY <3>4
    <3> QED BY <2>1, <3>1, <3>2, <3>3, <3>4
  <2> QED BY <2>2, <2>3, <2>5 DEF FlowsInv
<1>11. HeldInv'
  <2>1. flows <= flows'
    BY <1>2, <1>6
  <2>2. held # NoSession => held.flow \in Nat
    BY <1>1 DEF HeldInv, SessionRow
  <2> QED BY <1>1, <1>2, <1>3, <1>6, <2>1, <2>2 DEF HeldInv
<1>12. BodiesInv'
  BY <1>1, <1>2, <1>3 DEF BodiesInv
<1>13. RepliesInv' /\ TurnInv'
  <2>1. \A r \in replies : r.update # c.id /\ (r.status = "pending" => r.user # cu) /\ r.user \in Users
    BY <1>1, <1>7 DEF ReplyTo, PendingOf, RepliesInv, ReplyRow
  <2>2. \A r, q \in replies' : r.update = q.update => r = q
    BY <1>1, <1>2, <1>5, <2>1 DEF RepliesInv
  <2>3. \A r, q \in replies' :
          (r.status = "pending" /\ q.status = "pending" /\ r.user = q.user) => r = q
    BY <1>1, <1>2, <1>5, <2>1 DEF RepliesInv
  <2>4. \A r \in replies' : r.status = "pending" => session'[r.user] \in {r.offers, NoSession}
    BY <1>1, <1>2, <1>5, <1>8, <2>1 DEF RepliesInv
  <2>5. ReceiptsDisappear' /\ replies' \subseteq ReplyRow
    BY <1>1, <1>2, <1>5 DEF RepliesInv, ReceiptsDisappear
  <2>6. TurnInv'
    BY <1>2, <1>3, <1>5 DEF TurnInv, ReplyTo
  <2> QED BY <2>2, <2>3, <2>4, <2>5, <2>6 DEF RepliesInv
<1>14. SessionIsPrompted'
  <2> SUFFICES ASSUME NEW u \in Users
               PROVE  \/ session'[u] = NoSession \/ session'[u] \in seen'[u]
                      \/ \E r \in PendingOf(u)' : r.offers = session'[u]
    BY DEF SessionIsPrompted
  <2>1. CASE u = cu
    BY <1>2, <1>5, <1>8, <2>1 DEF PendingOf
  <2>2. CASE u # cu
    BY <1>1, <1>2, <1>8, <2>2 DEF SessionIsPrompted, PendingOf
  <2> QED BY <2>1, <2>2
<1>15. RecordsInv'
  <2>1. \A o \in executed : o.update # c.id
    BY NotRecorded DEF Offering, c
  <2>2. \A o \in executed : ReplyTo(o.update)' = {}
    BY <1>1, <1>2, <1>5, <2>1 DEF RecordsInv, ReplyTo
  <2>3. \A o \in executed : o.flow <= flows'
    <3>1. \A o \in executed : o.flow \in Nat /\ o.flow <= flows
      BY <1>1 DEF RecordsInv
    <3> QED BY <1>2, <1>6, <3>1
  <2> QED BY <1>1, <1>2, <1>3, <2>2, <2>3 DEF RecordsInv
<1>16. ExecutedInv'
  <2>1. ASSUME NEW o \in executed PROVE Guarded(o)'
    <3>1. o.user \in Users /\ o.flow <= flows /\ Guarded(o)
      BY <1>1 DEF RecordsInv, ExecutedInv
    <3>2. CASE o.user # cu
      BY <1>2, <1>3, <1>8, <3>1, <3>2 DEF Guarded, Live
    <3>3. CASE o.user = cu /\ flows' = flows + 1 /\ s.flow = flows'
      <4>1. o.flow # s.flow
        BY <1>6, <3>1, <3>3
      <4> QED BY <1>8, <3>3, <4>1 DEF Guarded
    <3>4. CASE o.user = cu /\ Live(session[cu]) /\ s.flow = session[cu].flow /\ c.body.kind # "confirm"
      <4>1. SUFFICES ASSUME o.verdict # "rejected", o.serial \notin dropped, s.flow = o.flow
                     PROVE  FALSE
        BY <1>3, <1>8, <3>4 DEF Guarded
      <4>2. session[cu] # NoSession /\ session[cu].flow = o.flow
        BY <3>4, <4>1 DEF Live
      <4>3. PICK u \in inbox : u.serial = o.serial /\ u.serial \notin settled
        BY <3>1, <3>4, <4>1, <4>2 DEF Guarded
      <4>4. u = c
        BY <1>1, <1>2, <4>3, RecordedNow DEF c
      <4>5. c.body.kind = "confirm"
        BY <1>1, <1>4, <4>3, <4>4 DEF RecordsInv
      <4> QED BY <3>4, <4>5
    <3> QED BY <1>2, <3>2, <3>3, <3>4
  <2> QED BY <1>1, <1>2, <1>3, <2>1 DEF ExecutedInv, ConfirmedAsShown, OncePerReview
<1> QED BY <1>3, <1>9, <1>10, <1>11, <1>12, <1>13, <1>14, <1>15, <1>16 DEF WizardInv

-----------------------------------------------------------------------------
(* Steps that offer nothing and execute nothing.                           *)

\* Sessions end, messages reach their chats: nothing that was not known before is known after.
LEMMA StepKeeps ==
  ASSUME WizardInv, UNCHANGED <<pollerVars, flows, executed>>,
         session' \in [Users -> SessionRow \cup {NoSession}],
         \A u \in Users : session'[u] \in {session[u], NoSession},
         seen' \in [Users -> SUBSET SessionRow],
         \A u \in Users : seen[u] \subseteq seen'[u] /\ seen'[u] \subseteq Known(u),
         \A q \in replies' : \E r \in replies :
           q.update = r.update /\ q.user = r.user /\ q.offers = r.offers,
         bank' \in [Users -> Amounts \cup {NoBank}], utcDay' \in 0..MaxMidnights,
         \A u \in Users : bank[u] # NoBank => bank'[u] # NoBank,
         PlacesInv', HeldInv', RepliesInv', TurnInv', SessionIsPrompted',
         at' \in {"plain", "done"} =>
           \/ at \in {at', "plain"}
           \/ \A o \in executed :
                (/\ o.update = Current.id /\ o.verdict # "rejected"
                 /\ session'[CurrentUser] # NoSession) => session'[CurrentUser].flow # o.flow
  PROVE  WizardInv'
<1>1. /\ PollerInv /\ PlacesInv /\ FlowsInv /\ HeldInv /\ BodiesInv /\ RepliesInv /\ TurnInv
      /\ SessionIsPrompted /\ RecordsInv /\ ExecutedInv
  BY DEF WizardInv
<1>2. /\ PollerInv' /\ Current' = Current /\ CurrentUser' = CurrentUser
      /\ UNCHANGED <<today, inbox, issued, phase, batch, settled, dropped>>
  BY <1>1, PollerSame
<1>3. FlowsInv'
  <2>1. today \in Nat /\ today' = today /\ today <= today'
    BY <1>1, <1>2, Numbers
  <2>2. ASSUME NEW u \in Users PROVE Known(u)' \subseteq Known(u)
    BY DEF Known
  <2> QED BY <1>1, <2>1, <2>2, FlowsKept
<1>4. BodiesInv'
  BY <1>1, <1>2 DEF BodiesInv
<1>5. RecordsInv'
  <2>1. \A o \in executed : ReplyTo(o.update)' = {}
    BY <1>1 DEF RecordsInv, ReplyTo
  <2> QED BY <1>1, <1>2, <2>1 DEF RecordsInv
<1>6. ExecutedInv'
  <2>1. ASSUME NEW o \in executed PROVE Guarded(o)'
    <3>1. o.user \in Users /\ Guarded(o)
      BY <1>1 DEF RecordsInv, ExecutedInv
    <3>2. SUFFICES ASSUME o.verdict # "rejected", o.serial \notin dropped,
                          session'[o.user] # NoSession, session'[o.user].flow = o.flow,
                          Live(session[o.user])
                   PROVE  \E u \in inbox : /\ u.serial = o.serial /\ u.serial \notin settled
                                           /\ session'[o.user].saved <= u.day
                                           /\ ~(at' \in {"plain", "done"} /\ u = Current)
      <4>1. session'[o.user] = NoSession \/ session'[o.user] = session[o.user]
        BY <3>1
      <4> QED BY <1>2, <4>1 DEF Guarded, Live
    <3>3. session'[o.user] = session[o.user]
      BY <3>1, <3>2
    <3>4. PICK u \in inbox : /\ u.serial = o.serial /\ u.serial \notin settled
                             /\ session'[o.user].saved <= u.day
                             /\ ~(at \in {"plain", "done"} /\ u = Current)
      BY <3>1, <3>2, <3>3 DEF Guarded
    <3>5. u.id = o.update /\ u.body.user = o.user
      BY <1>1, <3>4 DEF RecordsInv
    <3>6. ~(at' \in {"plain", "done"} /\ u = Current)
      BY <3>2, <3>4, <3>5 DEF CurrentUser
    <3> QED BY <3>4, <3>6
  <2> QED BY <1>1, <1>2, <2>1 DEF ExecutedInv, ConfirmedAsShown, OncePerReview
<1> QED BY <1>2, <1>3, <1>4, <1>5, <1>6 DEF WizardInv

\* The same when only sessions, the bank and the handler's place may change.
LEMMA MoveKeeps ==
  ASSUME WizardInv, UNCHANGED <<pollerVars, replies, flows, seen, executed>>,
         \/ session' = session
         \/ \E u \in Users : session' = [session EXCEPT ![u] = NoSession],
         bank' \in [Users -> Amounts \cup {NoBank}], utcDay' \in 0..MaxMidnights,
         \A u \in Users : bank[u] # NoBank => bank'[u] # NoBank,
         PlacesInv', HeldInv', TurnInv',
         at' \in {"plain", "done"} =>
           \/ at \in {at', "plain"}
           \/ \A o \in executed :
                (/\ o.update = Current.id /\ o.verdict # "rejected"
                 /\ session'[CurrentUser] # NoSession) => session'[CurrentUser].flow # o.flow
  PROVE  WizardInv'
<1>1. FlowsInv /\ RepliesInv /\ SessionIsPrompted
  BY DEF WizardInv
<1>2. /\ session' \in [Users -> SessionRow \cup {NoSession}]
      /\ \A u \in Users : session'[u] \in {session[u], NoSession}
  BY <1>1 DEF FlowsInv
<1>3. /\ seen' \in [Users -> SUBSET SessionRow]
      /\ \A u \in Users : seen[u] \subseteq seen'[u] /\ seen'[u] \subseteq Known(u)
  BY <1>1 DEF FlowsInv, Known
<1>4. RepliesInv'
  <2>1. \A r \in replies : r.user \in Users
    BY <1>1 DEF RepliesInv, ReplyRow
  <2>2. \A r \in replies : r.status = "pending" => session'[r.user] \in {r.offers, NoSession}
    BY <1>1, <1>2, <2>1 DEF RepliesInv
  <2> QED BY <1>1, <2>2 DEF RepliesInv, ReceiptsDisappear
<1>5. SessionIsPrompted'
  BY <1>1, <1>2 DEF SessionIsPrompted, PendingOf
<1> QED BY <1>2, <1>3, <1>4, <1>5, StepKeeps

\* The handler only moves, and another user's review or none is what it leaves.
LEMMA PlaceKeeps ==
  ASSUME WizardInv, UNCHANGED <<pollerVars, bank, utcDay, replies, flows, seen, executed>>,
         \/ session' = session
         \/ \E u \in Users : session' = [session EXCEPT ![u] = NoSession],
         PlacesInv', HeldInv', TurnInv',
         at' \in {"plain", "done"} =>
           \/ at \in {at', "plain"}
           \/ \A o \in executed :
                (/\ o.update = Current.id /\ o.verdict # "rejected"
                 /\ session'[CurrentUser] # NoSession) => session'[CurrentUser].flow # o.flow
  PROVE  WizardInv'
<1>1. bank' \in [Users -> Amounts \cup {NoBank}] /\ utcDay' \in 0..MaxMidnights
  BY DEF WizardInv, FlowsInv
<1> QED BY <1>1, MoveKeeps

-----------------------------------------------------------------------------
(* The handler: commands, texts and presses.                               *)

\* Somebody with a bank is answered.
Ready ==
  /\ Handling /\ at \in {"enter", "answered"}
  /\ bank[CurrentUser] # NoBank
  /\ Current.body.kind = "confirm" => Recorded = {}
  /\ held' \in {held, NoSession}
  /\ UNCHANGED <<pollerVars, bank, utcDay, executed>>

LEMMA SessionFacts ==
  ASSUME WizardInv, NEW flow \in Nat \ {0}, NEW step \in {"menu", "draft", "review"},
         NEW preview \in PreviewTypes
  PROVE  /\ Session(flow, step, preview) \in SessionRow
         /\ Session(flow, step, preview).flow = flow /\ Session(flow, step, preview).step = step
         /\ Session(flow, step, preview).saved = today
<1>1. today \in Nat \ {0}
  BY Numbers DEF WizardInv
<1> QED BY <1>1 DEF Session, SessionRow

LEMMA StartKeeps ==
  ASSUME WizardInv, Ready, NEW step \in {"menu", "draft"}, StartFlow(step)
  PROVE  WizardInv'
<1> DEFINE s == Session(flows', step, NoPreview)
<1>1. flows' \in Nat \ {0}
  BY DEF WizardInv, FlowsInv, StartFlow
<1>2. s \in SessionRow /\ s.flow = flows' /\ s.saved = today
  BY <1>1, SessionFacts DEF PreviewTypes
<1>3. /\ flows' = flows + 1 /\ session' = [session EXCEPT ![CurrentUser] = s]
      /\ replies' = replies \cup {Reply(Current, s)}
      /\ at' = "send" /\ target' = Current.id /\ after' = "done" /\ UNCHANGED <<queue, seen>>
  BY DEF StartFlow, Offer, StartSending
<1> HIDE DEF s
<1>4. Offering(s)
  BY <1>2, <1>3 DEF Ready, Offering
<1> QED BY <1>4, OfferingKeeps

LEMMA ReviewKeeps ==
  ASSUME WizardInv, Ready, NEW old, NEW previews \in SUBSET PreviewTypes, OfferReview(old, previews)
  PROVE  WizardInv'
<1>1. PICK preview \in previews : /\ flows' = flows + 1
                                  /\ Offer(Session(flows', "review", preview))
  BY DEF OfferReview
<1> DEFINE s == Session(flows', "review", preview)
<1>2. flows' \in Nat \ {0}
  BY <1>1 DEF WizardInv, FlowsInv
<1>3. s \in SessionRow /\ s.flow = flows' /\ s.saved = today
  BY <1>2, SessionFacts
<1>4. /\ session' = [session EXCEPT ![CurrentUser] = s]
      /\ replies' = replies \cup {Reply(Current, s)}
      /\ at' = "send" /\ target' = Current.id /\ after' = "done" /\ UNCHANGED <<queue, seen>>
  BY <1>1 DEF Offer, StartSending
<1> HIDE DEF s
<1>5. Offering(s)
  BY <1>1, <1>3, <1>4 DEF Ready, Offering
<1> QED BY <1>5, OfferingKeeps

LEMMA ContinueKeeps ==
  ASSUME WizardInv, Ready, NEW step \in {"menu", "draft"}, Current.body.kind # "confirm",
         Live(session[CurrentUser]), Continue(session[CurrentUser].flow, step)
  PROVE  WizardInv'
<1> DEFINE old == session[CurrentUser]
           s == Session(old.flow, step, NoPreview)
<1>1. CurrentUser \in Users
  BY CurrentFacts DEF WizardInv, BodiesInv, CurrentUser, Ready
<1>2. old.flow \in Nat \ {0}
  <2>1. old \in SessionRow
    BY <1>1 DEF Live, WizardInv, FlowsInv
  <2> QED BY <2>1 DEF SessionRow
<1>3. s \in SessionRow /\ s.flow = old.flow /\ s.saved = today /\ s.step = step
  BY <1>2, SessionFacts DEF PreviewTypes
<1>4. /\ flows' = flows /\ session' = [session EXCEPT ![CurrentUser] = s]
      /\ replies' = replies \cup {Reply(Current, s)}
      /\ at' = "send" /\ target' = Current.id /\ after' = "done" /\ UNCHANGED <<queue, seen>>
  BY DEF Continue, Offer, StartSending
<1> HIDE DEF s
<1>5. Offering(s)
  BY <1>3, <1>4 DEF Ready, Offering
<1> QED BY <1>5, OfferingKeeps

\* A flow is opened anew or goes on.
LEMMA OpenKeeps ==
  ASSUME WizardInv, Ready, NEW step \in {"menu", "draft"}, NEW flow, Open(flow, step),
         \/ flow = 0
         \/ /\ flow = session[CurrentUser].flow /\ Live(session[CurrentUser])
            /\ Current.body.kind # "confirm"
  PROVE  WizardInv'
<1>1. CASE flow = 0
  BY <1>1, StartKeeps DEF Open
<1>2. CASE flow # 0
  BY <1>2, ContinueKeeps DEF Open
<1> QED BY <1>1, <1>2

LEMMA PreviewFacts ==
  ASSUME WizardInv, Handling, bank[CurrentUser] # NoBank
  PROVE  {AccountPreview(CurrentUser), DatedPreview(CurrentUser), NoPreview} \subseteq PreviewTypes
<1>1. CurrentUser \in Users
  BY CurrentFacts DEF WizardInv, BodiesInv, CurrentUser
<1>2. bank[CurrentUser] \in Amounts /\ utcDay \in 0..MaxMidnights
  BY <1>1 DEF WizardInv, FlowsInv
<1> QED BY <1>2 DEF PreviewTypes, AccountPreview, DatedPreview

LEMMA ReviewsKeep ==
  ASSUME WizardInv, Ready, NEW s,
         TransactionReview(s) \/ AccountReview(s) \/ RecurringReview(s) \/ OfferReview(s, {NoPreview})
  PROVE  WizardInv'
BY PreviewFacts, ReviewKeeps DEF Ready, TransactionReview, AccountReview, RecurringReview

\* Only a message is sent, or nothing.
LEMMA SayKeeps ==
  ASSUME WizardInv, Handling, at \in {"enter", "answered"}, at' \in {"plain", "done"},
         Current.body.kind = "confirm" => Recorded = {},
         \/ session' = session
         \/ \E u \in Users : session' = [session EXCEPT ![u] = NoSession],
         held' \in {held, NoSession},
         UNCHANGED <<pollerVars, bank, utcDay, replies, flows, seen, executed, target, after, queue>>
  PROVE  WizardInv'
<1>1. PollerInv /\ PlacesInv /\ HeldInv
  BY DEF WizardInv
<1>2. Current' = Current /\ CurrentUser' = CurrentUser /\ Handling' /\ UNCHANGED <<today, phase>>
  BY <1>1, PollerSame
<1>3. PlacesInv'
  BY <1>1, <1>2 DEF PlacesInv, Places, Handling
<1>4. HeldInv' /\ TurnInv'
  BY <1>1, <1>2 DEF HeldInv, TurnInv
<1>5. \A o \in executed : o.update # Current.id
  BY NotRecorded
<1> QED BY <1>3, <1>4, <1>5, PlaceKeeps

LEMMA UserFacts ==
  ASSUME WizardInv, Handling
  PROVE  /\ Current \in inbox /\ CurrentUser \in Users /\ Current.body.kind \in RequestKinds
         /\ Live(session[CurrentUser]) => bank[CurrentUser] # NoBank
<1>1. Current \in inbox /\ CurrentUser \in Users /\ Current.body.kind \in RequestKinds
  BY CurrentFacts DEF WizardInv, BodiesInv, CurrentUser
<1>2. ASSUME Live(session[CurrentUser]) PROVE bank[CurrentUser] # NoBank
  <2>1. session[CurrentUser] \in Known(CurrentUser)
    BY <1>2 DEF Known, Live
  <2> QED BY <1>1, <2>1 DEF WizardInv, FlowsInv
<1> QED BY <1>1, <1>2

LEMMA CommandKeeps ==
  ASSUME WizardInv, HandleCommand
  PROVE  WizardInv'
<1>1. /\ Handling /\ at = "enter" /\ Current.body.kind = "command" /\ held' = held
      /\ UNCHANGED <<pollerVars, bank, utcDay, executed>>
  BY DEF HandleCommand, Enter
<1>2. CurrentUser \in Users
  BY <1>1, UserFacts
<1>3. CASE /\ session' = [session EXCEPT ![CurrentUser] = NoSession]
           /\ GoOn("plain") /\ UNCHANGED <<replies, flows, seen>>
  BY <1>1, <1>2, <1>3, SayKeeps DEF GoOn
<1>4. CASE /\ bank[CurrentUser] # NoBank
           /\ StartTransaction(0) \/ ShowAccounts(0) \/ ShowRecurring(0) \/ SendDashboard
  <2>1. Ready
    BY <1>1, <1>4 DEF Ready
  <2>2. CASE SendDashboard
    BY <2>1, <2>2, StartKeeps DEF SendDashboard
  <2>3. CASE StartTransaction(0) \/ ShowAccounts(0) \/ ShowRecurring(0)
    <3>1. Open(0, "draft") \/ Open(0, "menu")
      BY <2>3 DEF StartTransaction, ShowAccounts, ShowRecurring
    <3> QED BY <2>1, <3>1, OpenKeeps
  <2> QED BY <1>4, <2>2, <2>3
<1> QED BY <1>3, <1>4 DEF HandleCommand

LEMMA TextKeeps ==
  ASSUME WizardInv, HandleText
  PROVE  WizardInv'
<1> DEFINE s == session[CurrentUser]
<1>1. /\ Handling /\ at = "enter" /\ Current.body.kind = "text" /\ held' = held
      /\ UNCHANGED <<pollerVars, bank, utcDay, executed>>
  BY DEF HandleText, Enter
<1>2. CurrentUser \in Users /\ (Live(s) => bank[CurrentUser] # NoBank)
  BY <1>1, UserFacts
<1>3. CASE \E place \in {"plain", "done"} :
             /\ session' \in {session, [session EXCEPT ![CurrentUser] = NoSession]}
             /\ GoOn(place) /\ UNCHANGED <<replies, flows, seen>>
  BY <1>1, <1>2, <1>3, SayKeeps DEF GoOn
<1>4. CASE Live(s) /\ (TransactionReview(s) \/ AccountReview(s) \/ Continue(s.flow, "draft"))
  <2>1. Ready
    BY <1>1, <1>2, <1>4 DEF Ready
  <2>2. CASE TransactionReview(s) \/ AccountReview(s)
    BY <2>1, <2>2, ReviewsKeep
  <2>3. CASE Continue(s.flow, "draft")
    BY <1>1, <1>4, <2>1, <2>3, ContinueKeeps
  <2> QED BY <1>4, <2>2, <2>3
<1>5. \/ \E place \in {"plain", "done"} :
           /\ session' \in {session, [session EXCEPT ![CurrentUser] = NoSession]}
           /\ GoOn(place) /\ UNCHANGED <<replies, flows, seen>>
      \/ Live(s) /\ (TransactionReview(s) \/ AccountReview(s) \/ Continue(s.flow, "draft"))
  BY DEF HandleText, TransactionText, AccountText, Say
<1> QED BY <1>3, <1>4, <1>5

LEMMA PressKeeps ==
  ASSUME WizardInv, HandlePress
  PROVE  WizardInv'
<1> DEFINE s == session[CurrentUser]
<1>1. /\ Handling /\ at = "enter"
      /\ session' = [session EXCEPT ![CurrentUser] = IF Live(s) THEN s ELSE NoSession]
      /\ \/ PressMatches(s) /\ held' = s /\ GoOn("answered")
         \/ ~PressMatches(s) /\ held' = held /\ GoOn("plain")
      /\ UNCHANGED <<pollerVars, bank, utcDay, replies, flows, seen, executed>>
  BY DEF HandlePress, Enter
<1>2. /\ PollerInv /\ PlacesInv /\ FlowsInv /\ HeldInv /\ RepliesInv /\ TurnInv /\ RecordsInv
  BY DEF WizardInv
<1>3. Current \in inbox /\ CurrentUser \in Users
  BY <1>1, UserFacts
<1>4. Current' = Current /\ CurrentUser' = CurrentUser /\ Handling' /\ UNCHANGED <<today, phase>>
  BY <1>1, <1>2, PollerSame
<1>5. PlacesInv'
  BY <1>1, <1>2, <1>4 DEF PlacesInv, Places, Handling, GoOn
<1>6. /\ session' = session \/ session' = [session EXCEPT ![CurrentUser] = NoSession]
      /\ session'[CurrentUser] = IF Live(s) THEN s ELSE NoSession
  BY <1>1, <1>2, <1>3 DEF FlowsInv
<1>7. HeldInv'
  <2>1. CASE PressMatches(s) /\ held' = s /\ GoOn("answered")
    <3>1. Live(s) /\ s # NoSession /\ s.flow = Current.body.flow
      BY <2>1 DEF PressMatches, Live
    <3>2. s \in Known(CurrentUser) /\ s \in SessionRow
      BY <1>2, <1>3, <3>1 DEF Known, FlowsInv
    <3>3. s.flow <= flows /\ s.saved <= today
      BY <1>2, <1>3, <3>2 DEF FlowsInv
    <3> QED BY <1>1, <1>4, <1>6, <2>1, <3>1, <3>2, <3>3 DEF HeldInv, Live
  <2>2. CASE ~PressMatches(s) /\ held' = held /\ GoOn("plain")
    BY <1>1, <1>2, <1>4, <2>2 DEF HeldInv, GoOn
  <2> QED BY <1>1, <2>1, <2>2
<1>8. TurnInv'
  BY <1>1, <1>2, <1>4 DEF TurnInv, GoOn, ReplyTo, PendingOf
<1>9. ASSUME at' \in {"plain", "done"}, NEW o \in executed, o.update = Current.id,
             session'[CurrentUser] # NoSession
      PROVE  session'[CurrentUser].flow # o.flow
  <2>1. Live(s) /\ session'[CurrentUser] = s
    BY <1>6, <1>9
  <2>2. s.flow # Current.body.flow
    BY <1>1, <1>9, <2>1 DEF GoOn, PressMatches
  <2>3. o.flow = Current.body.flow
    BY <1>2, <1>3, <1>9 DEF RecordsInv
  <2> QED BY <2>1, <2>2, <2>3
<1>10. \/ session' = session
       \/ \E u \in Users : session' = [session EXCEPT ![u] = NoSession]
  BY <1>3, <1>6
<1> QED BY <1>1, <1>5, <1>7, <1>8, <1>9, <1>10, PlaceKeeps

\* The wizards' answers to a press that was answered.
LEMMA AnsweredFacts ==
  ASSUME WizardInv, NEW kind, Answered(kind)
  PROVE  /\ Handling /\ at = "answered" /\ Current.body.kind = kind
         /\ held = session[CurrentUser] /\ Live(held) /\ held.flow = Current.body.flow
         /\ CurrentUser \in Users /\ bank[CurrentUser] # NoBank
<1>1. Handling /\ at = "answered" /\ Current.body.kind = kind
  BY DEF Answered
<1>2. held = session[CurrentUser] /\ Live(held) /\ held.flow = Current.body.flow
  BY <1>1 DEF WizardInv, HeldInv
<1> QED BY <1>1, <1>2, UserFacts

LEMMA BackKeeps ==
  ASSUME WizardInv, PressBack
  PROVE  WizardInv'
<1>1. Ready
  BY AnsweredFacts DEF PressBack, Ready
<1> QED BY <1>1, StartKeeps DEF PressBack, SendDashboard

LEMMA NextKeeps ==
  ASSUME WizardInv, PressNext
  PROVE  WizardInv'
<1>1. /\ Answered("next") /\ held' = NoSession /\ UNCHANGED <<pollerVars, bank, utcDay, executed>>
  BY DEF PressNext
<1>2. /\ Ready /\ Current.body.kind = "next" /\ held = session[CurrentUser] /\ Live(session[CurrentUser])
  BY <1>1, AnsweredFacts DEF Ready
<1>3. CASE Say
  BY <1>1, <1>2, <1>3, SayKeeps DEF Say, GoOn, Ready
<1>4. CASE DashboardPress(held) \/ TransactionStep(held) \/ AccountsStep(held) \/ RecurringStep(held)
  <2>1. \/ \E step \in {"menu", "draft"} : Continue(session[CurrentUser].flow, step)
        \/ \E step \in {"menu", "draft"}, flow \in {0, session[CurrentUser].flow} : Open(flow, step)
    BY <1>2, <1>4 DEF DashboardPress, TransactionStep, AccountsStep, RecurringStep,
                      StartTransaction, ShowAccounts, ShowRecurring
  <2>2. CASE \E step \in {"menu", "draft"} : Continue(session[CurrentUser].flow, step)
    BY <1>2, <2>2, ContinueKeeps
  <2>3. CASE \E step \in {"menu", "draft"}, flow \in {0, session[CurrentUser].flow} : Open(flow, step)
    BY <1>2, <2>3, OpenKeeps
  <2> QED BY <2>1, <2>2, <2>3
<1> QED BY <1>3, <1>4 DEF PressNext

LEMMA ReviewPressKeeps ==
  ASSUME WizardInv, PressReview
  PROVE  WizardInv'
<1>1. /\ Answered("review") /\ held' = NoSession /\ UNCHANGED <<pollerVars, bank, utcDay, executed>>
  BY DEF PressReview
<1>2. Ready /\ Current.body.kind = "review"
  BY <1>1, AnsweredFacts DEF Ready
<1>3. CASE Say
  BY <1>1, <1>2, <1>3, SayKeeps DEF Say, GoOn, Ready
<1>4. CASE TransactionReview(held) \/ AccountReview(held) \/ RecurringReview(held)
  BY <1>2, <1>4, ReviewsKeep
<1> QED BY <1>3, <1>4 DEF PressReview

LEMMA RefusedConfirmKeeps ==
  ASSUME WizardInv, ConfirmRefused
  PROVE  WizardInv'
<1>1. /\ Answered("confirm") /\ Recorded = {} /\ held' = NoSession
      /\ UNCHANGED <<pollerVars, bank, utcDay, executed>>
  BY DEF ConfirmRefused
<1>2. Ready
  BY <1>1, AnsweredFacts DEF Ready
<1>3. CASE Say
  BY <1>1, <1>2, <1>3, SayKeeps DEF Say, GoOn, Ready
<1>4. CASE TransactionChanged \/ RecurringChanged \/ AccountChanged
  <2>1. \/ TransactionReview(held) \/ AccountReview(held) \/ OfferReview(held, {NoPreview})
        \/ Open(0, "menu")
    BY <1>4 DEF TransactionChanged, RecurringChanged, AccountChanged, ShowRecurring
  <2>2. CASE Open(0, "menu")
    BY <1>2, <2>2, OpenKeeps
  <2> QED BY <1>2, <2>1, <2>2, ReviewsKeep
<1> QED BY <1>3, <1>4 DEF ConfirmRefused

-----------------------------------------------------------------------------
(* The handler: what it has done before, and what it does to the bank.     *)

LEMMA ResumeKeeps ==
  ASSUME WizardInv, Resume
  PROVE  WizardInv'
<1>1. /\ Handling /\ at = "start" /\ UNCHANGED <<pollerVars, bank, utcDay, session, replies, flows, held, seen, executed>>
      /\ \/ /\ Replied(Current.id)
            /\ \/ at' = "done" /\ UNCHANGED <<target, after, queue>>
               \/ at' = "send" /\ target' = Current.id /\ after' = "done" /\ UNCHANGED queue
         \/ /\ ReplyTo(Current.id) = {} /\ \E r \in PendingOf(CurrentUser) :
                at' = "send" /\ target' = r.update /\ after' = "enter" /\ UNCHANGED queue
         \/ /\ ReplyTo(Current.id) = {} /\ PendingOf(CurrentUser) = {}
            /\ at' = "enter" /\ UNCHANGED <<target, after, queue>>
  BY DEF Resume, tables, ReplyTo, Replied, StartSending, GoOn
<1>2. PollerInv /\ PlacesInv /\ HeldInv /\ RepliesInv /\ TurnInv /\ RecordsInv
  BY DEF WizardInv
<1>3. /\ Current' = Current /\ CurrentUser' = CurrentUser /\ Handling' /\ UNCHANGED <<today, phase>>
      /\ Current.id \in 0..MaxId
  BY <1>1, <1>2, PollerSame, CurrentFacts
<1>4. \A r \in PendingOf(CurrentUser) : r.update \in 0..MaxId
  <2>1. \A r \in replies : r.update \in 0..MaxId
    BY <1>2, PollerAssumption DEF RepliesInv, ReplyRow
  <2> QED BY <2>1 DEF PendingOf
<1>5. PlacesInv'
  BY <1>1, <1>2, <1>3, <1>4 DEF PlacesInv, Places, Handling
<1>6. HeldInv'
  BY <1>1, <1>2, <1>3 DEF HeldInv
<1>7. TurnInv'
  <2>1. CASE at' = "enter" /\ ReplyTo(Current.id) = {} /\ PendingOf(CurrentUser) = {}
    BY <1>1, <1>3, <2>1 DEF TurnInv, ReplyTo, PendingOf
  <2>2. CASE at' = "send" /\ after' = "done" /\ target' = Current.id /\ Replied(Current.id)
    BY <1>1, <1>3, <2>2 DEF TurnInv, ReplyTo, Replied
  <2>3. ASSUME NEW r \in PendingOf(CurrentUser), ReplyTo(Current.id) = {},
               at' = "send", target' = r.update, after' = "enter"
        PROVE  TurnInv'
    <3>1. \A q \in PendingOf(CurrentUser) : q = r
      BY <1>2, <2>3 DEF PendingOf, RepliesInv
    <3>2. PendingOf(CurrentUser) \subseteq ReplyTo(r.update)
      BY <3>1 DEF PendingOf, ReplyTo
    <3> QED BY <1>1, <1>3, <2>3, <3>2 DEF TurnInv, ReplyTo, PendingOf
  <2>4. CASE at' = "done"
    BY <2>4 DEF TurnInv
  <2> QED BY <1>1, <2>1, <2>2, <2>3, <2>4
<1>8. at' \in {"plain", "done"} => \A o \in executed : o.update # Current.id
  BY <1>1, <1>2 DEF RecordsInv, ReplyTo, Replied
<1> QED BY <1>1, <1>5, <1>6, <1>7, <1>8, PlaceKeeps

LEMMA AgainKeeps ==
  ASSUME WizardInv, ConfirmAgain
  PROVE  WizardInv'
<1>1. PICK o \in Recorded :
        IF o.verdict = "rejected" THEN GoOn("done") \/ GoOn("plain") ELSE GoOn("committed")
  BY DEF ConfirmAgain
<1>2. /\ Answered("confirm")
      /\ UNCHANGED <<pollerVars, bank, utcDay, session, replies, flows, held, seen, executed, target, after, queue>>
  BY <1>1 DEF ConfirmAgain, tables, GoOn
<1>3. PollerInv /\ PlacesInv /\ HeldInv /\ TurnInv /\ RecordsInv
  BY DEF WizardInv
<1>4. /\ Handling /\ at = "answered" /\ held = session[CurrentUser] /\ Live(held)
      /\ held.flow = Current.body.flow
  BY <1>2, AnsweredFacts
<1>5. Current' = Current /\ CurrentUser' = CurrentUser /\ Handling' /\ UNCHANGED <<today, phase>>
  BY <1>2, <1>3, <1>4, PollerSame
<1>6. at' \in {"plain", "done", "committed"} /\ (at' # "committed" => o.verdict = "rejected")
  BY <1>1 DEF GoOn
<1>7. PlacesInv' /\ HeldInv' /\ TurnInv'
  BY <1>2, <1>3, <1>4, <1>5, <1>6 DEF PlacesInv, HeldInv, TurnInv, Places, Handling, Live
<1>8. ASSUME NEW p \in executed, p.update = Current.id
      PROVE  p = o
  BY <1>3, <1>8 DEF RecordsInv, Recorded
<1>9. at' \in {"plain", "done"} => \A p \in executed : p.update = Current.id => p.verdict = "rejected"
  BY <1>6, <1>8
<1> QED BY <1>2, <1>7, <1>9, PlaceKeeps

LEMMA ExecutesKeeps ==
  ASSUME WizardInv, ConfirmExecutes
  PROVE  WizardInv'
<1> DEFINE c == Current
           cu == CurrentUser
<1>1. PICK verdict \in {"applied", "unchanged", "rejected"},
             due \in ExecutedOn(cu, utcDay, utcDay'), amount \in Amounts :
        /\ bank' = [bank EXCEPT ![cu] = amount]
        /\ executed' = executed \cup {Operation(due, utcDay, utcDay', verdict)}
        /\ GoOn(IF verdict = "rejected" THEN "done" ELSE "committed")
  BY DEF ConfirmExecutes
<1>0. PICK op : op = Operation(due, utcDay, utcDay', verdict)
  OBVIOUS
<1>2. /\ Answered("confirm") /\ held.step = "review" /\ Recorded = {}
      /\ held.preview # NoPreview /\ ~Drifted
      /\ utcDay' \in {utcDay} \cup IF utcDay < MaxMidnights THEN {utcDay + 1} ELSE {}
      /\ executed' = executed \cup {op}
      /\ at' = (IF verdict = "rejected" THEN "done" ELSE "committed")
      /\ UNCHANGED <<pollerVars, session, replies, flows, held, seen, target, after, queue>>
  BY <1>0, <1>1 DEF ConfirmExecutes, tables, GoOn
<1>3. /\ PollerInv /\ PlacesInv /\ FlowsInv /\ HeldInv /\ BodiesInv /\ RepliesInv /\ TurnInv
      /\ SessionIsPrompted /\ RecordsInv /\ ExecutedInv
  BY DEF WizardInv
<1>4. /\ Handling /\ at = "answered" /\ c.body.kind = "confirm"
      /\ held = session[cu] /\ Live(held) /\ held.flow = c.body.flow /\ cu \in Users
  BY <1>2, AnsweredFacts
<1>5. /\ PollerInv' /\ Current' = c /\ CurrentUser' = cu /\ Handling'
      /\ UNCHANGED <<today, inbox, issued, phase, batch, settled, dropped>>
  BY <1>2, <1>3, <1>4, PollerSame
<1>6. /\ c \in inbox /\ c.serial \notin settled /\ c.id \in issued /\ cu = c.body.user /\ today \in Nat
      /\ \A v \in inbox : v.serial < c.serial => v.serial \in settled
  BY <1>3, <1>4, CurrentFacts DEF CurrentUser
<1>7. \A o \in executed : o.update # c.id
  BY <1>2, <1>4, NotRecorded
<1>8. /\ op.update = c.id /\ op.serial = c.serial /\ op.user = cu /\ op.flow = held.flow
      /\ op.verdict = verdict /\ op.shown = c.body.shown /\ op.amount = due
      /\ op.read = utcDay /\ op.day = utcDay'
  BY <1>0 DEF Operation
<1>9. ReplyTo(c.id) = {}
  BY <1>3, <1>4 DEF TurnInv
<1>10. PICK s \in seen[cu] : /\ s.step = "review" /\ s.flow = c.body.flow
                             /\ s.preview = c.body.shown /\ s.saved <= c.day
  BY <1>3, <1>4, <1>6 DEF BodiesInv
<1>11. held \in Known(cu) /\ s \in Known(cu) /\ held # NoSession
  BY <1>4 DEF Known, Live
<1>12. s = held
  BY <1>2, <1>3, <1>4, <1>10, <1>11 DEF FlowsInv
<1>13. held.flow \in Nat /\ held.flow <= flows
  BY <1>3, <1>4, <1>11, KnownTyped DEF FlowsInv
<1> HIDE DEF c, cu
<1>14. PlacesInv' /\ HeldInv' /\ TurnInv'
  BY <1>2, <1>3, <1>4, <1>5 DEF PlacesInv, HeldInv, TurnInv, Places, Handling, Live
<1>15. FlowsInv'
  <2>1. today' = today /\ today <= today'
    BY <1>5, <1>6
  <2>2. bank' \in [Users -> Amounts \cup {NoBank}]
    BY <1>1, <1>3 DEF FlowsInv
  <2>3. \A u \in Users : bank[u] # NoBank => bank'[u] # NoBank
    <3>1. bank[cu] = amount \/ amount \in Amounts
      OBVIOUS
    <3>2. amount # NoBank
      BY ChatFlowAssumption
    <3> QED BY <1>1, <1>3, <1>4, <3>2 DEF FlowsInv
  <2>4. utcDay' \in 0..MaxMidnights
    <3>1. utcDay \in 0..MaxMidnights
      BY <1>3 DEF FlowsInv
    <3> QED BY <1>2, <3>1, ChatFlowAssumption
  <2>5. session' \in [Users -> SessionRow \cup {NoSession}] /\ seen' \in [Users -> SUBSET SessionRow]
    BY <1>2, <1>3 DEF FlowsInv
  <2>6. \A u \in Users : Known(u)' \subseteq Known(u)
    BY <1>2 DEF Known
  <2> QED BY <1>2, <1>3, <1>6, <2>1, <2>2, <2>3, <2>4, <2>5, <2>6, FlowsKept
<1>16. BodiesInv' /\ SessionIsPrompted' /\ RepliesInv'
  BY <1>2, <1>3, <1>5 DEF BodiesInv, SessionIsPrompted, PendingOf, RepliesInv, ReceiptsDisappear
<1>17. \A u \in inbox : (u.id = c.id <=> u.serial = c.serial) /\ (u.serial = c.serial => u = c)
  BY <1>3, <1>6, Numbers DEF PollerInv, OneSequence
<1>18. RecordsInv'
  <2>1. c.serial \in 1..Cardinality(issued)
    BY <1>3, <1>6 DEF PollerInv, Numbered
  <2>2. \A o \in executed : ReplyTo(o.update)' = {}
    BY <1>2, <1>3 DEF RecordsInv, ReplyTo
  <2>3. ReplyTo(op.update)' = {} /\ op.flow \in Nat /\ op.flow <= flows'
    BY <1>2, <1>8, <1>9, <1>13 DEF ReplyTo
  <2>4. \A o, p \in executed' : p.update = o.update => p = o
    BY <1>2, <1>3, <1>7, <1>8 DEF RecordsInv
  <2>5. \E t \in seen'[op.user] : t.flow = op.flow
    BY <1>2, <1>4, <1>8, <1>10
  <2>6. \A u \in inbox' :
          /\ u.id = op.update <=> u.serial = op.serial
          /\ u.serial = op.serial =>
               /\ u.body.user = op.user /\ u.body.flow = op.flow
               /\ u.body.kind = "confirm"
               /\ \A v \in inbox' : v.serial < u.serial => v.serial \in settled'
    BY <1>4, <1>5, <1>6, <1>8, <1>17
  <2>7. op.user \in Users /\ op.update \in issued' /\ op.serial \in 1..Cardinality(issued)'
    BY <1>4, <1>5, <1>6, <1>8, <2>1
  <2> QED BY <1>2, <1>3, <1>5, <2>2, <2>3, <2>4, <2>5, <2>6, <2>7 DEF RecordsInv
<1>19. ExecutedInv'
  <2>1. ASSUME NEW o \in executed, o.flow = op.flow, o.verdict # "rejected", o.serial \notin dropped
        PROVE  FALSE
    <3>1. o.user \in Users /\ Guarded(o) /\ \E t \in seen[o.user] : t.flow = o.flow
      BY <1>3 DEF RecordsInv, ExecutedInv
    <3>2. \E t \in Known(o.user) : t.flow = held.flow
      BY <1>8, <2>1, <3>1 DEF Known
    <3>3. o.user = cu
      BY <1>3, <1>4, <1>11, <3>1, <3>2 DEF FlowsInv
    <3>4. PICK u \in inbox : u.serial = o.serial /\ u.serial \notin settled
      BY <1>4, <1>8, <1>11, <2>1, <3>1, <3>3 DEF Guarded
    <3>5. u = c
      BY <1>3, <1>4, <3>4, RecordedNow DEF c
    <3>6. u.id = o.update
      BY <1>3, <3>4 DEF RecordsInv
    <3> QED BY <1>7, <3>5, <3>6
  <2>2. OncePerReview'
    BY <1>2, <1>3, <1>5, <2>1 DEF ExecutedInv, OncePerReview
  <2>3. ConfirmedAsShown'
    <3>1. op.shown = held.preview
      BY <1>8, <1>10, <1>12
    <3>2. held.preview \in {AccountPreview(cu), DatedPreview(cu)}
      BY <1>2 DEF Drifted, cu
    <3>3. op.day = op.read => op.amount = bank[cu]
      BY <1>1, <1>8 DEF ExecutedOn
    <3>4. /\ op.shown # NoPreview /\ op.shown.day \in {op.read, NoDay}
          /\ op.shown.amount = bank[cu]
      BY <1>2, <1>8, <3>1, <3>2 DEF AccountPreview, DatedPreview
    <3> QED BY <1>2, <1>3, <3>3, <3>4 DEF ExecutedInv, ConfirmedAsShown
  <2>4. ASSUME NEW o \in executed PROVE Guarded(o)'
    <3>1. Guarded(o)
      BY <1>3 DEF ExecutedInv
    <3>2. \A u \in inbox : u.serial = o.serial => u # c
      BY <1>3, <1>7 DEF RecordsInv
    <3> QED BY <1>2, <1>5, <3>1, <3>2 DEF Guarded, Live
  <2>5. Guarded(op)'
    <3>1. session'[op.user] = held /\ held.saved <= c.day
      BY <1>2, <1>4, <1>8, <1>10, <1>12
    <3>2. op.verdict # "rejected" => at' = "committed"
      BY <1>2, <1>8
    <3> QED BY <1>5, <1>6, <1>8, <3>1, <3>2 DEF Guarded
  <2> QED BY <1>2, <2>2, <2>3, <2>4, <2>5 DEF ExecutedInv
<1> QED BY <1>5, <1>14, <1>15, <1>16, <1>18, <1>19 DEF WizardInv

\* The session of the review that was executed goes.
LEMMA DeleteKeeps ==
  ASSUME WizardInv, DeleteSession
  PROVE  WizardInv'
<1>1. /\ PollerInv /\ PlacesInv /\ FlowsInv /\ HeldInv /\ BodiesInv /\ TurnInv
  BY DEF WizardInv
<1>2. /\ Handling /\ at = "committed" /\ at' = "done" /\ held' = NoSession
      /\ UNCHANGED <<pollerVars, bank, utcDay, replies, flows, seen, executed, target, after, queue>>
      /\ session' = [session EXCEPT ![CurrentUser] =
                       IF @ # NoSession /\ @.flow = held.flow THEN NoSession ELSE @]
  BY DEF DeleteSession, GoOn
<1>3. Current' = Current /\ CurrentUser' = CurrentUser /\ Handling' /\ UNCHANGED <<today, phase>>
  BY <1>1, <1>2, PollerSame
<1>4. CurrentUser \in Users
  BY <1>1, <1>2, CurrentFacts DEF BodiesInv, CurrentUser
<1>5. session[CurrentUser] # NoSession /\ session[CurrentUser].flow = held.flow
  BY <1>1, <1>2 DEF HeldInv, Live
<1>6. session' = [session EXCEPT ![CurrentUser] = NoSession] /\ session'[CurrentUser] = NoSession
  BY <1>1, <1>2, <1>4, <1>5 DEF FlowsInv
<1>7. PlacesInv' /\ HeldInv' /\ TurnInv'
  BY <1>1, <1>2, <1>3 DEF PlacesInv, HeldInv, TurnInv, Places, Handling
<1> QED BY <1>2, <1>4, <1>6, <1>7, PlaceKeeps

LEMMA PlainKeeps ==
  ASSUME WizardInv, PlainSent
  PROVE  WizardInv'
<1>1. /\ PollerInv /\ PlacesInv /\ HeldInv /\ TurnInv
  BY DEF WizardInv
<1>2. /\ Handling /\ at = "plain" /\ at' = "done"
      /\ UNCHANGED <<pollerVars, bank, utcDay, session, replies, flows, seen, executed, held, target, after, queue>>
  BY DEF PlainSent, GoOn, tables
<1>3. Current' = Current /\ CurrentUser' = CurrentUser /\ Handling' /\ UNCHANGED <<today, phase>>
  BY <1>1, <1>2, PollerSame
<1>4. PlacesInv' /\ HeldInv' /\ TurnInv'
  BY <1>1, <1>2, <1>3 DEF PlacesInv, HeldInv, TurnInv, Places, Handling
<1> QED BY <1>2, <1>4, PlaceKeeps

-----------------------------------------------------------------------------
(* Replies are sent.                                                       *)

LEMMA RefusedKeeps ==
  ASSUME WizardInv, SendRefused
  PROVE  WizardInv'
<1>1. /\ PollerInv /\ PlacesInv /\ FlowsInv /\ HeldInv /\ RepliesInv /\ TurnInv
  BY DEF WizardInv
<1>2. PICK r \in ReplyTo(target) :
        /\ at = "send" /\ at' = "refused" /\ session' = [session EXCEPT ![r.user] = NoSession]
        /\ UNCHANGED <<pollerVars, bank, utcDay, replies, flows, seen, executed, held, target, after, queue>>
  BY DEF SendRefused, GoOn
<1>3. /\ Current' = Current /\ CurrentUser' = CurrentUser /\ (Handling' <=> Handling)
      /\ UNCHANGED <<today, phase>>
  BY <1>1, <1>2, PollerSame
<1>4. r.user \in Users /\ \A q \in ReplyTo(target) : q = r
  BY <1>1 DEF RepliesInv, ReplyRow, ReplyTo
<1>5. PlacesInv' /\ HeldInv'
  BY <1>1, <1>2, <1>3 DEF PlacesInv, HeldInv, Places
<1>6. TurnInv'
  <2>1. session'[r.user] = NoSession
    BY <1>1, <1>2, <1>4 DEF FlowsInv
  <2>2. ReplyTo(target)' = ReplyTo(target) /\ ReplyTo(Current.id)' = ReplyTo(Current.id)
        /\ PendingOf(CurrentUser)' = PendingOf(CurrentUser)
    BY <1>2, <1>3 DEF ReplyTo, PendingOf
  <2>3. \A q \in ReplyTo(target)' : session'[q.user] = NoSession
    BY <1>4, <2>1, <2>2
  <2> QED BY <1>1, <1>2, <1>3, <2>2, <2>3 DEF TurnInv
<1> QED BY <1>2, <1>4, <1>5, <1>6, PlaceKeeps

LEMMA FlushNextKeeps ==
  ASSUME WizardInv, FlushNext
  PROVE  WizardInv'
<1>1. /\ PollerInv /\ PlacesInv /\ HeldInv /\ TurnInv
  BY DEF WizardInv
<1>2. PICK id \in queue :
        /\ at = "flush" /\ at' = "send" /\ target' = id /\ after' = "flush" /\ queue' = queue \ {id}
        /\ UNCHANGED <<pollerVars, bank, utcDay, session, replies, flows, seen, executed, held>>
  BY DEF FlushNext, Rest
<1>3. /\ Current' = Current /\ CurrentUser' = CurrentUser /\ (Handling' <=> Handling)
      /\ UNCHANGED <<today, phase>>
  BY <1>1, <1>2, PollerSame
<1>4. id \in 0..MaxId /\ phase = "flushing"
  BY <1>1, <1>2, PollerAssumption DEF PlacesInv
<1>5. PlacesInv' /\ HeldInv' /\ TurnInv'
  BY <1>1, <1>2, <1>3, <1>4 DEF PlacesInv, HeldInv, TurnInv, Places
<1> QED BY <1>2, <1>5, PlaceKeeps

\* Another copy of a message changes nothing, its delivery is noted with it.
LEMMA ShownKeeps ==
  ASSUME WizardInv, NEW r \in replies, session' = session,
         \/ seen' = seen /\ replies' = replies
         \/ Shown(r) /\ replies' \in {replies, Delivered(r)}
  PROVE  /\ seen' \in [Users -> SUBSET SessionRow]
         /\ \A u \in Users : seen[u] \subseteq seen'[u] /\ seen'[u] \subseteq Known(u)
         /\ \A q \in replies' : \E p \in replies :
              /\ q.update = p.update /\ q.user = p.user /\ q.offers = p.offers
              /\ q.status = "pending" => q = p
         /\ (replies' = Delivered(r) => \A q \in replies' : q.update = r.update => q.status = "delivered")
         /\ RepliesInv' /\ SessionIsPrompted'
<1>1. FlowsInv /\ RepliesInv /\ SessionIsPrompted
  BY DEF WizardInv
<1>2. r \in ReplyRow /\ r.user \in Users /\ r.offers \in SessionRow
  BY <1>1 DEF RepliesInv, ReplyRow
<1>3. \/ seen' = seen /\ replies' = replies
      \/ seen' = [seen EXCEPT ![r.user] = @ \cup {r.offers}] /\ replies' \in {replies, Delivered(r)}
  BY DEF Shown
<1>4. seen' \in [Users -> SUBSET SessionRow]
  BY <1>1, <1>2, <1>3 DEF FlowsInv
<1>5. \A u \in Users : seen[u] \subseteq seen'[u]
                       /\ seen'[u] \subseteq seen[u] \cup (IF u = r.user THEN {r.offers} ELSE {})
  BY <1>1, <1>2, <1>3 DEF FlowsInv
<1>6. \A u \in Users : seen[u] \subseteq seen'[u] /\ seen'[u] \subseteq Known(u)
  BY <1>2, <1>5 DEF Known
<1> DEFINE d == [r EXCEPT !.status = "delivered"]
<1>7. /\ d.update = r.update /\ d.user = r.user /\ d.offers = r.offers /\ d.status = "delivered"
      /\ d.processed = r.processed /\ d \in ReplyRow
  BY <1>2 DEF ReplyRow
<1>8. Delivered(r) = IF r.processed THEN replies \ {r} ELSE (replies \ {r}) \cup {d}
  BY DEF Delivered
<1> HIDE DEF d
<1>9. \A q \in replies' : q \in replies \/ (q = d /\ ~r.processed)
  BY <1>3, <1>8
<1>10. \A q \in replies' : \E p \in replies :
         /\ q.update = p.update /\ q.user = p.user /\ q.offers = p.offers
         /\ q.status = "pending" => q = p
  BY <1>7, <1>9
<1>11. replies' = Delivered(r) => \A q \in replies' : q.update = r.update => q.status = "delivered"
  BY <1>1, <1>7, <1>8 DEF RepliesInv
<1>12. RepliesInv'
  <2>1. replies' \subseteq ReplyRow
    BY <1>1, <1>7, <1>9 DEF RepliesInv
  <2>2. \A p, q \in replies' : p.update = q.update => p = q
    <3>1. CASE replies' = replies
      BY <1>1, <3>1 DEF RepliesInv
    <3>2. CASE replies' = Delivered(r)
      <4>1. \A q \in replies' : (q \in replies /\ q # r) \/ q = d
        BY <1>8, <3>2
      <4>2. \A q \in replies : q # r => q.update # r.update
        BY <1>1 DEF RepliesInv
      <4> QED BY <1>1, <1>7, <4>1, <4>2 DEF RepliesInv
    <3> QED BY <1>3, <3>1, <3>2
  <2>3. \A q \in replies' : q.status = "pending" => q \in replies
    BY <1>7, <1>9
  <2>4. ReceiptsDisappear'
    BY <1>1, <1>7, <1>9 DEF RepliesInv, ReceiptsDisappear
  <2> QED BY <1>1, <2>1, <2>2, <2>3, <2>4 DEF RepliesInv
<1>13. SessionIsPrompted'
  <2> SUFFICES ASSUME NEW u \in Users
               PROVE  \/ session'[u] = NoSession \/ session'[u] \in seen'[u]
                      \/ \E q \in PendingOf(u)' : q.offers = session'[u]
    BY DEF SessionIsPrompted
  <2>1. CASE session[u] = NoSession \/ session[u] \in seen[u]
    BY <1>6, <2>1
  <2>2. ASSUME NEW q \in PendingOf(u), q.offers = session[u]
        PROVE  session'[u] \in seen'[u] \/ \E p \in PendingOf(u)' : p.offers = session'[u]
    <3>1. CASE q \in replies'
      BY <2>2, <3>1 DEF PendingOf
    <3>2. CASE q \notin replies'
      <4>1. q = r /\ r.user = u /\ seen' = [seen EXCEPT ![r.user] = @ \cup {r.offers}]
        BY <1>3, <1>8, <2>2, <3>2 DEF PendingOf
      <4> QED BY <1>1, <2>2, <4>1 DEF FlowsInv
    <3> QED BY <3>1, <3>2
  <2> QED BY <1>1, <2>1, <2>2 DEF SessionIsPrompted
<1> QED BY <1>4, <1>6, <1>10, <1>11, <1>12, <1>13

LEMMA AcceptedKeeps ==
  ASSUME WizardInv, SendAccepted
  PROVE  WizardInv'
<1>1. /\ PollerInv /\ PlacesInv /\ FlowsInv /\ HeldInv /\ RepliesInv /\ TurnInv /\ RecordsInv
  BY DEF WizardInv
<1>2. PICK r \in ReplyTo(target) :
        /\ at = "send" /\ Shown(r) /\ replies' = Delivered(r) /\ at' = after /\ target' = 0
        /\ UNCHANGED <<pollerVars, bank, utcDay, session, flows, after, queue, held, executed>>
  BY DEF SendAccepted
<1>3. /\ Current' = Current /\ CurrentUser' = CurrentUser /\ (Handling' <=> Handling)
      /\ UNCHANGED <<today, phase>>
  BY <1>1, <1>2, PollerSame
<1>4. r \in replies /\ r.update = target
  BY DEF ReplyTo
<1>5. /\ seen' \in [Users -> SUBSET SessionRow]
      /\ \A u \in Users : seen[u] \subseteq seen'[u] /\ seen'[u] \subseteq Known(u)
      /\ \A q \in replies' : \E p \in replies :
           /\ q.update = p.update /\ q.user = p.user /\ q.offers = p.offers
           /\ q.status = "pending" => q = p
      /\ \A q \in replies' : q.update = r.update => q.status = "delivered"
      /\ RepliesInv' /\ SessionIsPrompted'
  BY <1>2, <1>4, ShownKeeps
<1>6. /\ after \in {"enter", "done", "flush"} /\ (after = "flush" => phase = "flushing")
      /\ (after # "flush" => Handling)
  BY <1>1, <1>2 DEF PlacesInv
<1>7. PlacesInv'
  BY <1>1, <1>2, <1>3, <1>6, PollerAssumption DEF PlacesInv, Places, Handling
<1>8. HeldInv'
  BY <1>1, <1>2, <1>3, <1>6 DEF HeldInv
<1>9. TurnInv'
  <2> SUFFICES ASSUME after = "enter" PROVE ReplyTo(Current.id)' = {} /\ PendingOf(CurrentUser)' = {}
    BY <1>2, <1>6 DEF TurnInv
  <2>1. ReplyTo(Current.id) = {} /\ PendingOf(CurrentUser) \subseteq ReplyTo(target)
    BY <1>1, <1>2 DEF TurnInv
  <2>2. ReplyTo(Current.id)' = {}
    BY <1>3, <1>5, <2>1 DEF ReplyTo
  <2>3. ASSUME NEW q \in PendingOf(CurrentUser)' PROVE FALSE
    <3>1. q \in replies' /\ q.status = "pending" /\ q.user = CurrentUser
      BY <1>3, <2>3 DEF PendingOf
    <3>2. q \in PendingOf(CurrentUser)
      BY <1>5, <3>1 DEF PendingOf
    <3> QED BY <1>4, <1>5, <2>1, <3>1, <3>2 DEF ReplyTo
  <2> QED BY <2>2, <2>3
<1>10. at' = "done" => \A o \in executed : o.update # Current.id
  <2>1. after = "done" => target = Current.id
    BY <1>1, <1>2 DEF TurnInv
  <2> QED BY <1>1, <1>2, <2>1 DEF RecordsInv
<1>11. /\ session' \in [Users -> SessionRow \cup {NoSession}]
       /\ \A u \in Users : session'[u] \in {session[u], NoSession}
       /\ bank' \in [Users -> Amounts \cup {NoBank}] /\ utcDay' \in 0..MaxMidnights
       /\ \A u \in Users : bank[u] # NoBank => bank'[u] # NoBank
  BY <1>1, <1>2 DEF FlowsInv
<1>12. at' # "plain"
  BY <1>2, <1>6
<1>13. \A q \in replies' : \E p \in replies :
         q.update = p.update /\ q.user = p.user /\ q.offers = p.offers
  BY <1>5
<1> QED BY <1>2, <1>5, <1>7, <1>8, <1>9, <1>10, <1>11, <1>12, <1>13, StepKeeps

LEMMA FlushFailsKeeps ==
  ASSUME WizardInv, FlushSendFails
  PROVE  WizardInv'
<1>1. /\ PollerInv /\ PlacesInv /\ FlowsInv /\ HeldInv /\ RepliesInv /\ TurnInv
  BY DEF WizardInv
<1>2. PICK r \in ReplyTo(target) :
        /\ Shown(r) \/ seen' = seen
        /\ at = "send" /\ at' = "flush" /\ phase = "flushing"
        /\ UNCHANGED <<pollerVars, bank, utcDay, session, replies, flows, target, after, queue, held, executed>>
  BY DEF FlushSendFails, SendLost, GoOn, tables
<1>3. /\ Current' = Current /\ CurrentUser' = CurrentUser /\ (Handling' <=> Handling)
      /\ UNCHANGED <<today, phase>>
  BY <1>1, <1>2, PollerSame
<1>4. r \in replies
  BY DEF ReplyTo
<1>5. /\ seen' \in [Users -> SUBSET SessionRow]
      /\ \A u \in Users : seen[u] \subseteq seen'[u] /\ seen'[u] \subseteq Known(u)
      /\ RepliesInv' /\ SessionIsPrompted'
  BY <1>2, <1>4, ShownKeeps
<1>6. PlacesInv' /\ HeldInv' /\ TurnInv'
  BY <1>1, <1>2, <1>3 DEF PlacesInv, HeldInv, TurnInv, Places
<1>7. /\ session' \in [Users -> SessionRow \cup {NoSession}]
      /\ \A u \in Users : session'[u] \in {session[u], NoSession}
      /\ bank' \in [Users -> Amounts \cup {NoBank}] /\ utcDay' \in 0..MaxMidnights
      /\ \A u \in Users : bank[u] # NoBank => bank'[u] # NoBank
  BY <1>1, <1>2 DEF FlowsInv
<1>8. \A q \in replies' : \E p \in replies :
        q.update = p.update /\ q.user = p.user /\ q.offers = p.offers
  BY <1>2
<1> QED BY <1>2, <1>5, <1>6, <1>7, <1>8, StepKeeps

\* The reply that Telegram refused goes after the session it was for.
LEMMA RefusedGoesKeeps ==
  ASSUME WizardInv, DeleteRefused
  PROVE  WizardInv'
<1>1. /\ PollerInv /\ PlacesInv /\ FlowsInv /\ HeldInv /\ RepliesInv /\ TurnInv /\ RecordsInv
      /\ SessionIsPrompted
  BY DEF WizardInv
<1>2. /\ at = "refused" /\ replies' = replies \ ReplyTo(target) /\ at' = after /\ target' = 0
      /\ UNCHANGED <<pollerVars, bank, utcDay, session, flows, after, queue, held, seen, executed>>
  BY DEF DeleteRefused
<1>3. /\ Current' = Current /\ CurrentUser' = CurrentUser /\ (Handling' <=> Handling)
      /\ UNCHANGED <<today, phase>>
  BY <1>1, <1>2, PollerSame
<1>4. /\ after \in {"enter", "done", "flush"} /\ (after = "flush" => phase = "flushing")
      /\ (after # "flush" => Handling)
  BY <1>1, <1>2 DEF PlacesInv
<1>5. PlacesInv'
  BY <1>1, <1>2, <1>3, <1>4, PollerAssumption DEF PlacesInv, Places, Handling
<1>6. HeldInv'
  BY <1>1, <1>2, <1>3, <1>4 DEF HeldInv
<1>7. TurnInv'
  <2> SUFFICES ASSUME after = "enter" PROVE ReplyTo(Current.id)' = {} /\ PendingOf(CurrentUser)' = {}
    BY <1>2, <1>4 DEF TurnInv
  <2>1. ReplyTo(Current.id) = {} /\ PendingOf(CurrentUser) \subseteq ReplyTo(target)
    BY <1>1, <1>2 DEF TurnInv
  <2> QED BY <1>2, <1>3, <2>1 DEF ReplyTo, PendingOf
<1>8. RepliesInv'
  BY <1>1, <1>2 DEF RepliesInv, ReceiptsDisappear
<1>9. SessionIsPrompted'
  <2> SUFFICES ASSUME NEW u \in Users
               PROVE  \/ session'[u] = NoSession \/ session'[u] \in seen'[u]
                      \/ \E q \in PendingOf(u)' : q.offers = session'[u]
    BY DEF SessionIsPrompted
  <2>1. ASSUME NEW q \in PendingOf(u), q.offers = session[u]
        PROVE  session[u] = NoSession \/ q \in PendingOf(u)'
    BY <1>1, <1>2, <2>1 DEF TurnInv, PendingOf
  <2> QED BY <1>1, <1>2, <2>1 DEF SessionIsPrompted
<1>10. at' = "done" => \A o \in executed : o.update # Current.id
  <2>1. after = "done" => target = Current.id /\ ReplyTo(target) # {}
    BY <1>1, <1>2 DEF TurnInv
  <2> QED BY <1>1, <1>2, <2>1 DEF RecordsInv
<1>11. /\ session' \in [Users -> SessionRow \cup {NoSession}]
       /\ \A u \in Users : session'[u] \in {session[u], NoSession}
       /\ seen' \in [Users -> SUBSET SessionRow]
       /\ \A u \in Users : seen[u] \subseteq seen'[u] /\ seen'[u] \subseteq Known(u)
       /\ bank' \in [Users -> Amounts \cup {NoBank}] /\ utcDay' \in 0..MaxMidnights
       /\ \A u \in Users : bank[u] # NoBank => bank'[u] # NoBank
  BY <1>1, <1>2 DEF FlowsInv, Known
<1>12. at' # "plain"
  BY <1>2, <1>4
<1>13. \A q \in replies' : \E p \in replies :
         q.update = p.update /\ q.user = p.user /\ q.offers = p.offers
  BY <1>2
<1> QED BY <1>2, <1>5, <1>6, <1>7, <1>8, <1>9, <1>10, <1>11, <1>12, <1>13, StepKeeps

-----------------------------------------------------------------------------
(* The world outside.                                                      *)

LEMMA OutsideKeeps ==
  ASSUME WizardInv, Midnight \/ MiniAppActs
  PROVE  WizardInv'
<1>1. /\ PollerInv /\ PlacesInv /\ FlowsInv /\ HeldInv /\ TurnInv
  BY DEF WizardInv
<1>2. UNCHANGED <<pollerVars, session, replies, flows, at, target, after, queue, held, seen, executed>>
  BY DEF Midnight, MiniAppActs, tables, handler
<1>3. /\ Current' = Current /\ CurrentUser' = CurrentUser /\ (Handling' <=> Handling)
      /\ UNCHANGED <<today, phase>>
  BY <1>1, <1>2, PollerSame
<1>4. PlacesInv' /\ HeldInv' /\ TurnInv'
  BY <1>1, <1>2, <1>3 DEF PlacesInv, HeldInv, TurnInv, Live, ReplyTo, PendingOf
<1>5. CASE Midnight
  <2>1. utcDay \in 0..MaxMidnights /\ utcDay' = utcDay + 1 /\ utcDay < MaxMidnights /\ bank' = bank
    BY <1>1, <1>5 DEF Midnight, FlowsInv
  <2>2. bank' \in [Users -> Amounts \cup {NoBank}] /\ utcDay' \in 0..MaxMidnights
    BY <1>1, <2>1, ChatFlowAssumption DEF FlowsInv
  <2> QED BY <1>2, <1>4, <2>1, <2>2, MoveKeeps
<1>6. CASE MiniAppActs
  <2>1. PICK user \in Users, amount \in Amounts : bank' = [bank EXCEPT ![user] = amount]
    BY <1>6 DEF MiniAppActs
  <2>2. amount # NoBank
    BY ChatFlowAssumption
  <2>3. /\ bank' \in [Users -> Amounts \cup {NoBank}]
        /\ \A u \in Users : bank[u] # NoBank => bank'[u] # NoBank
    BY <1>1, <2>1, <2>2 DEF FlowsInv
  <2>4. utcDay' \in 0..MaxMidnights
    BY <1>1, <1>6 DEF MiniAppActs, FlowsInv
  <2> QED BY <1>2, <1>4, <2>3, <2>4, MoveKeeps
<1> QED BY <1>5, <1>6

-----------------------------------------------------------------------------
(* The loop around the handler.                                            *)

\* What the rows of replies owe stays owed.
LEMMA RowsKeep ==
  ASSUME WizardInv, session' = session, \A u \in Users : seen[u] \subseteq seen'[u],
         replies' \subseteq ReplyRow,
         \A q \in replies' : \E p \in replies :
           q.update = p.update /\ q.user = p.user /\ q.offers = p.offers /\ q.status = p.status,
         \A p \in replies : p.status = "pending" => \E q \in replies' :
           q.user = p.user /\ q.offers = p.offers /\ q.status = "pending",
         \A p, q \in replies' : p.update = q.update => p = q,
         ReceiptsDisappear'
  PROVE  RepliesInv' /\ SessionIsPrompted'
<1>1. RepliesInv /\ SessionIsPrompted
  BY DEF WizardInv
<1>2. ASSUME NEW p \in replies', NEW q \in replies',
             p.status = "pending", q.status = "pending", p.user = q.user
      PROVE  p = q
  BY <1>1, <1>2 DEF RepliesInv
<1>3. \A q \in replies' : q.status = "pending" => session'[q.user] \in {q.offers, NoSession}
  BY <1>1 DEF RepliesInv
<1>4. SessionIsPrompted'
  <2> SUFFICES ASSUME NEW u \in Users
               PROVE  \/ session'[u] = NoSession \/ session'[u] \in seen'[u]
                      \/ \E q \in PendingOf(u)' : q.offers = session'[u]
    BY DEF SessionIsPrompted
  <2>1. ASSUME NEW p \in PendingOf(u), p.offers = session[u]
        PROVE  \E q \in PendingOf(u)' : q.offers = session'[u]
    BY <2>1 DEF PendingOf
  <2> QED BY <1>1, <2>1 DEF SessionIsPrompted
<1> QED BY <1>2, <1>3, <1>4 DEF RepliesInv

\* The rows of an update that was processed are marked, or go.
LEMMA ReceiptsKeep ==
  ASSUME WizardInv, NEW u, session' = session, \A v \in Users : seen[v] \subseteq seen'[v],
         replies' \in {replies, ReceiptsProcessed(u)}
  PROVE  /\ RepliesInv' /\ SessionIsPrompted'
         /\ \A q \in replies' : \E p \in replies :
              q.update = p.update /\ q.user = p.user /\ q.offers = p.offers
<1>1. RepliesInv
  BY DEF WizardInv
<1> DEFINE f(r) == IF r.update = u.id THEN [r EXCEPT !.processed = TRUE] ELSE r
<1>2. \A r \in replies :
        /\ f(r) \in ReplyRow /\ f(r).update = r.update /\ f(r).user = r.user
        /\ f(r).offers = r.offers /\ f(r).status = r.status
        /\ f(r).processed => r.processed \/ r.update = u.id
  BY <1>1 DEF RepliesInv, ReplyRow
<1>3. ReceiptsProcessed(u) = {f(r) : r \in {q \in replies : ~(q.update = u.id /\ q.status = "delivered")}}
  BY DEF ReceiptsProcessed
<1> HIDE DEF f
<1>4. CASE replies' = replies
  <2>1. ReceiptsDisappear'
    BY <1>1, <1>4 DEF RepliesInv, ReceiptsDisappear
  <2>2. /\ replies' \subseteq ReplyRow
        /\ \A p, q \in replies' : p.update = q.update => p = q
    BY <1>1, <1>4 DEF RepliesInv
  <2> QED BY <1>4, <2>1, <2>2, RowsKeep
<1>5. CASE replies' = ReceiptsProcessed(u)
  <2>1. \A q \in replies' : \E p \in replies : q = f(p) /\ ~(p.update = u.id /\ p.status = "delivered")
    BY <1>3, <1>5
  <2>2. \A p \in replies : p.status = "pending" => f(p) \in replies'
    BY <1>3, <1>5
  <2>3. replies' \subseteq ReplyRow
    BY <1>2, <2>1
  <2>4. \A p, q \in replies' : p.update = q.update => p = q
    BY <1>1, <1>2, <2>1 DEF RepliesInv
  <2>5. ReceiptsDisappear'
    BY <1>1, <1>2, <2>1 DEF RepliesInv, ReceiptsDisappear
  <2>6. \A q \in replies' : \E p \in replies :
          q.update = p.update /\ q.user = p.user /\ q.offers = p.offers /\ q.status = p.status
    BY <1>2, <2>1
  <2>7. \A p \in replies : p.status = "pending" => \E q \in replies' :
          q.user = p.user /\ q.offers = p.offers /\ q.status = "pending"
    BY <1>2, <2>2
  <2>8. RepliesInv' /\ SessionIsPrompted'
    BY <2>3, <2>4, <2>5, <2>6, <2>7, RowsKeep
  <2> QED BY <2>6, <2>8
<1> QED BY <1>4, <1>5

\* Telegram holds no more than it did, and what was settled stays settled.
LEMMA FewerBodies ==
  ASSUME WizardInv, inbox' \subseteq inbox, issued' = issued, settled \subseteq settled',
         UNCHANGED <<flows, executed>>, \A u \in Users : seen[u] \subseteq seen'[u],
         \A q \in replies' : \E p \in replies :
           q.update = p.update /\ q.user = p.user /\ q.offers = p.offers
  PROVE  BodiesInv' /\ RecordsInv'
<1>1. BodiesInv /\ RecordsInv
  BY DEF WizardInv
<1>2. BodiesInv'
  BY <1>1 DEF BodiesInv
<1>3. RecordsInv'
  <2>1. \A o \in executed : ReplyTo(o.update)' = {}
    BY <1>1 DEF RecordsInv, ReplyTo
  <2>2. \A o \in executed : \E s \in seen'[o.user] : s.flow = o.flow
    BY <1>1 DEF RecordsInv
  <2> QED BY <1>1, <2>1, <2>2 DEF RecordsInv
<1> QED BY <1>2, <1>3

\* The loop moves between two updates, or leaves one: a review that was executed stays guarded
\* if its update stays or is given up, or the session ends with it.
LEMMA LoopKeeps ==
  ASSUME WizardInv, PollerInv', today \in Nat, today' \in Nat, today <= today',
         UNCHANGED <<session, bank, utcDay, flows, executed>>,
         seen' \in [Users -> SUBSET SessionRow],
         \A u \in Users : seen[u] \subseteq seen'[u] /\ seen'[u] \subseteq Known(u),
         \A q \in replies' : \E p \in replies :
           q.update = p.update /\ q.user = p.user /\ q.offers = p.offers,
         PlacesInv', at' \in {"out", "start", "flush"}, held' \in {held, NoSession},
         RepliesInv', SessionIsPrompted', BodiesInv', RecordsInv', dropped \subseteq dropped',
         \A o \in executed, u \in inbox :
           (/\ u.serial = o.serial /\ u.serial \notin settled
            /\ ~(at \in {"plain", "done"} /\ u = Current))
           => \/ u \in inbox' /\ u.serial \notin settled'
              \/ o.serial \in dropped'
              \/ session[o.user] # NoSession /\ session[o.user].saved <= u.day =>
                   ~Live(session[o.user])
  PROVE  WizardInv'
<1>1. FlowsInv /\ HeldInv /\ RecordsInv /\ ExecutedInv
  BY DEF WizardInv
<1>2. FlowsInv'
  <2>1. \A u \in Users : Known(u)' \subseteq Known(u)
    BY DEF Known
  <2>2. /\ session' \in [Users -> SessionRow \cup {NoSession}]
        /\ bank' \in [Users -> Amounts \cup {NoBank}] /\ utcDay' \in 0..MaxMidnights
        /\ \A u \in Users : bank[u] # NoBank => bank'[u] # NoBank
    BY <1>1 DEF FlowsInv
  <2>3. RepliesInv /\ flows' = flows
    BY DEF WizardInv
  <2> QED BY <1>1, <2>1, <2>2, <2>3, FlowsKept
<1>3. HeldInv'
  <2>1. held # NoSession => held.saved \in Nat /\ held.saved <= today
    BY <1>1 DEF HeldInv, SessionRow
  <2>2. held # NoSession => held.saved <= today'
    BY <2>1
  <2> QED BY <1>1, <2>2 DEF HeldInv
<1>4. TurnInv'
  BY DEF TurnInv
<1>5. \A o \in executed : Live(session[o.user])' => Live(session[o.user])
  <2> SUFFICES ASSUME NEW o \in executed, Live(session[o.user])' PROVE Live(session[o.user])
    OBVIOUS
  <2>1. session[o.user] # NoSession /\ today' - session[o.user].saved < FlowTTLDays
    BY DEF Live
  <2>2. session[o.user] \in SessionRow
    BY <1>1, <2>1 DEF RecordsInv, FlowsInv
  <2>3. session[o.user].saved \in Nat
    BY <2>2 DEF SessionRow
  <2>4. today - session[o.user].saved < FlowTTLDays
    BY <2>1, <2>3, ChatFlowAssumption
  <2> QED BY <2>1, <2>4 DEF Live
<1>6. ASSUME NEW o \in executed PROVE Guarded(o)'
  <2>1. SUFFICES ASSUME o.verdict # "rejected", o.serial \notin dropped',
                        session[o.user] # NoSession, session[o.user].flow = o.flow,
                        Live(session[o.user])'
                 PROVE  \E u \in inbox' : /\ u.serial = o.serial /\ u.serial \notin settled'
                                          /\ session[o.user].saved <= u.day
    BY DEF Guarded
  <2>2. Live(session[o.user])
    BY <1>5, <2>1
  <2>3. PICK u \in inbox : /\ u.serial = o.serial /\ u.serial \notin settled
                           /\ session[o.user].saved <= u.day
                           /\ ~(at \in {"plain", "done"} /\ u = Current)
    BY <1>1, <2>1, <2>2 DEF ExecutedInv, Guarded
  <2>4. u \in inbox' /\ u.serial \notin settled'
    BY <2>1, <2>2, <2>3
  <2> QED BY <2>3, <2>4
<1>7. ConfirmedAsShown' /\ OncePerReview'
  BY <1>1 DEF ExecutedInv, ConfirmedAsShown, OncePerReview
<1> QED BY <1>2, <1>3, <1>4, <1>6, <1>7 DEF WizardInv, ExecutedInv

\* An end of the handler: its update is settled, or the batch is left.
LEMMA FailsKinds ==
  ASSUME NEW kind, HandlerFails(kind)
  PROVE  /\ Handling /\ UNCHANGED <<today, inbox, issued>>
         /\ \/ /\ settled' = settled \cup {Current.serial} /\ dropped' = dropped \cup {Current.serial}
               /\ phase' = "ready"
            \/ settled' = settled /\ dropped' = dropped /\ phase' = "idle"
<1>1. /\ phase = "handling" /\ UNCHANGED <<today, inbox, issued>>
      /\ IF GivesUp(Head(batch), kind) THEN Drops(Head(batch)) ELSE TriesAgain(Head(batch))
  BY DEF HandlerFails, telegram
<1>2. CASE GivesUp(Head(batch), kind)
  BY <1>1, <1>2 DEF Drops, MarkProcessed, Current, Handling
<1>3. CASE ~GivesUp(Head(batch), kind)
  BY <1>1, <1>3 DEF TriesAgain, Handling
<1> QED BY <1>2, <1>3

\* The handler or the flush is left, with its memory.
LEMMA LeaveKeeps ==
  ASSUME WizardInv, PollerInv', LeaveHandler, phase' \notin {"handling", "flushing"},
         UNCHANGED <<today, inbox, issued, session, bank, utcDay, flows, executed>>,
         \/ seen' = seen
         \/ \E r \in replies : Shown(r),
         \E u : replies' \in {replies, ReceiptsProcessed(u)},
         \/ UNCHANGED <<settled, dropped>>
         \/ /\ Handling /\ at \in {"plain", "done"} /\ settled' = settled \cup {Current.serial}
            /\ dropped \subseteq dropped'
         \/ /\ settled' = settled \cup {Current.serial}
            /\ dropped' = dropped \cup {Current.serial}
  PROVE  WizardInv'
<1>1. PollerInv /\ FlowsInv /\ RepliesInv
  BY DEF WizardInv
<1>2. today \in Nat /\ today' = today
  BY <1>1, Numbers
<1>3. /\ seen' \in [Users -> SUBSET SessionRow]
      /\ \A u \in Users : seen[u] \subseteq seen'[u] /\ seen'[u] \subseteq Known(u)
  <2>1. CASE seen' = seen
    BY <1>1, <2>1 DEF FlowsInv, Known
  <2>2. ASSUME NEW r \in replies, Shown(r)
        PROVE  /\ seen' \in [Users -> SUBSET SessionRow]
               /\ \A u \in Users : seen[u] \subseteq seen'[u] /\ seen'[u] \subseteq Known(u)
    <3>1. r.user \in Users /\ r.offers \in SessionRow
      BY <1>1 DEF RepliesInv, ReplyRow
    <3>2. seen' = [seen EXCEPT ![r.user] = @ \cup {r.offers}]
      BY <2>2 DEF Shown
    <3>3. seen' \in [Users -> SUBSET SessionRow]
      BY <1>1, <3>1, <3>2 DEF FlowsInv
    <3>4. \A u \in Users : seen[u] \subseteq seen'[u]
                           /\ seen'[u] \subseteq seen[u] \cup (IF u = r.user THEN {r.offers} ELSE {})
      BY <1>1, <3>1, <3>2 DEF FlowsInv
    <3> QED BY <3>1, <3>3, <3>4 DEF Known
  <2> QED BY <2>1, <2>2
<1>4. /\ RepliesInv' /\ SessionIsPrompted'
      /\ \A q \in replies' : \E p \in replies :
           q.update = p.update /\ q.user = p.user /\ q.offers = p.offers
  BY <1>3, ReceiptsKeep
<1>5. settled \subseteq settled' /\ dropped \subseteq dropped'
  OBVIOUS
<1>6. BodiesInv' /\ RecordsInv'
  BY <1>3, <1>4, <1>5, FewerBodies
<1>7. PlacesInv' /\ at' = "out" /\ held' = NoSession
  BY PollerAssumption DEF LeaveHandler, PlacesInv, Places
<1>8. ASSUME NEW o \in executed, NEW u \in inbox,
             u.serial = o.serial, u.serial \notin settled, ~(at \in {"plain", "done"} /\ u = Current)
      PROVE  \/ u \in inbox' /\ u.serial \notin settled'
             \/ o.serial \in dropped'
  <2>1. CASE UNCHANGED <<settled, dropped>>
    BY <1>8, <2>1
  <2>2. CASE settled' = settled \cup {Current.serial} /\ dropped' = dropped \cup {Current.serial}
    BY <1>8, <2>2
  <2>3. CASE Handling /\ at \in {"plain", "done"} /\ settled' = settled \cup {Current.serial}
    <3>1. Current \in inbox
      BY <1>1, <2>3, CurrentFacts
    <3>2. u.serial # Current.serial
      BY <1>1, <1>8, <2>3, <3>1 DEF PollerInv, OneSequence
    <3> QED BY <1>8, <2>3, <3>2
  <2> QED BY <2>1, <2>2, <2>3
<1> QED BY <1>2, <1>3, <1>4, <1>5, <1>6, <1>7, <1>8, LoopKeeps

LEMMA EndsKeeps ==
  ASSUME WizardInv, HandlerEnds \/ HandlerThrows \/ FlushEnds \/ ProcessEnds
  PROVE  WizardInv'
<1>1. PollerInv /\ PlacesInv
  BY DEF WizardInv
<1>2. LeaveHandler /\ UNCHANGED <<session, bank, utcDay, flows, executed>>
  BY DEF HandlerEnds, HandlerThrows, FlushEnds, ProcessEnds, Rest
<1>3. CASE HandlerEnds
  <2>1. HandlerReturns /\ at = "done" /\ seen' = seen /\ replies' = ReceiptsProcessed(Current)
    BY <1>3 DEF HandlerEnds
  <2>2. PollerInv'
    BY <1>1, <2>1, PollerStepInv DEF PollerStep, PollerNext, LoopStep
  <2>3. /\ Handling /\ settled' = settled \cup {Current.serial} /\ dropped' = dropped
        /\ phase' = "ready" /\ UNCHANGED <<today, inbox, issued>>
    BY <2>1 DEF HandlerReturns, MarkProcessed, Current, Handling, telegram
  <2>4. \E u : replies' \in {replies, ReceiptsProcessed(u)}
    BY <2>1
  <2> QED BY <1>2, <2>1, <2>2, <2>3, <2>4, LeaveKeeps
<1>4. CASE HandlerThrows
  <2>1. /\ \E kind \in {"transient", "terminal"} : HandlerFails(kind)
        /\ seen' = seen \/ \E r \in replies : Shown(r)
        /\ \E u : replies' \in {replies, ReceiptsProcessed(u)}
    BY <1>4 DEF HandlerThrows, SendLost, ReplyTo
  <2>2. PollerInv'
    BY <1>1, <2>1, PollerStepInv DEF PollerStep, PollerNext, LoopStep
  <2>3. /\ UNCHANGED <<today, inbox, issued>> /\ phase' \in {"ready", "idle"}
        /\ \/ settled' = settled \cup {Current.serial} /\ dropped' = dropped \cup {Current.serial}
           \/ settled' = settled /\ dropped' = dropped
    BY <2>1, FailsKinds
  <2> QED BY <1>2, <2>1, <2>2, <2>3, LeaveKeeps
<1>5. CASE FlushEnds \/ ProcessEnds
  <2>1. (EndFlush \/ Restart) /\ seen' = seen /\ replies' = replies
    BY <1>5 DEF FlushEnds, ProcessEnds
  <2>2. PollerInv'
    BY <1>1, <2>1, PollerStepInv DEF PollerStep, PollerNext, LoopStep
  <2>3. UNCHANGED <<today, inbox, issued, settled, dropped>> /\ phase' = "idle"
    BY <2>1 DEF EndFlush, Restart, telegram, past
  <2>4. \E u : replies' \in {replies, ReceiptsProcessed(u)}
    BY <2>1
  <2> QED BY <1>2, <2>1, <2>2, <2>3, <2>4, LeaveKeeps
<1> QED BY <1>3, <1>4, <1>5 DEF HandlerEnds, HandlerThrows, FlushEnds, ProcessEnds

\* The loop moves on to an update, to a poll or to the flush: no reply is lost that is owed.
LEMMA PollKeeps ==
  ASSUME WizardInv, PollerInv', today \in Nat, today' \in Nat, today <= today',
         UNCHANGED <<issued, session, bank, utcDay, flows, executed, seen, held, settled, dropped>>,
         inbox' \subseteq inbox,
         replies' \subseteq replies,
         \A r \in replies \ replies' : r.status = "delivered",
         PlacesInv', at' \in {"out", "start", "flush"},
         \A u \in inbox \ inbox' : u.serial \notin settled => today - u.day >= RetentionDays
  PROVE  WizardInv'
<1>1. PollerInv /\ FlowsInv /\ RepliesInv /\ RecordsInv
  BY DEF WizardInv
<1>2. /\ seen' \in [Users -> SUBSET SessionRow]
      /\ \A u \in Users : seen[u] \subseteq seen'[u] /\ seen'[u] \subseteq Known(u)
  BY <1>1 DEF FlowsInv, Known
<1>3. \A q \in replies' : \E p \in replies :
        q.update = p.update /\ q.user = p.user /\ q.offers = p.offers /\ q.status = p.status
  OBVIOUS
<1>4. \A p \in replies : p.status = "pending" => p \in replies'
  OBVIOUS
<1>5. RepliesInv' /\ SessionIsPrompted'
  <2>1. /\ replies' \subseteq ReplyRow
        /\ \A p, q \in replies' : p.update = q.update => p = q
        /\ ReceiptsDisappear'
    BY <1>1 DEF RepliesInv, ReceiptsDisappear
  <2>2. \A p \in replies : p.status = "pending" => \E q \in replies' :
          q.user = p.user /\ q.offers = p.offers /\ q.status = "pending"
    BY <1>4
  <2> QED BY <1>2, <1>3, <2>1, <2>2, RowsKeep
<1>6. BodiesInv' /\ RecordsInv'
  <2>1. \A q \in replies' : \E p \in replies :
          q.update = p.update /\ q.user = p.user /\ q.offers = p.offers
    OBVIOUS
  <2> QED BY <1>2, <2>1, FewerBodies
<1>7. ASSUME NEW o \in executed, NEW u \in inbox, u.serial \notin settled,
             session[o.user] # NoSession, session[o.user].saved <= u.day, u \notin inbox'
      PROVE  ~Live(session[o.user])
  <2>1. today - u.day >= RetentionDays /\ u.day \in Nat
    BY <1>1, <1>7, Numbers
  <2>2. session[o.user].saved \in Nat
    <3>1. session[o.user] \in SessionRow
      BY <1>1, <1>7 DEF RecordsInv, FlowsInv
    <3> QED BY <3>1 DEF SessionRow
  <2>3. ~(today - session[o.user].saved < FlowTTLDays)
    BY <1>7, <2>1, <2>2, ChatFlowAssumption, PollerAssumption
  <2> QED BY <2>3 DEF Live
<1>8. \A q \in replies' : \E p \in replies :
        q.update = p.update /\ q.user = p.user /\ q.offers = p.offers
  OBVIOUS
<1> QED BY <1>2, <1>5, <1>6, <1>7, <1>8, LoopKeeps

LEMMA TakesKeeps ==
  ASSUME WizardInv, TakeNext \/ FlushBegins \/ Prepare \/ Receive
  PROVE  WizardInv'
<1>1. PollerInv /\ PlacesInv /\ RepliesInv
  BY DEF WizardInv
<1>2. today \in Nat
  BY <1>1, Numbers
<1>3. CASE TakeNext
  <2>1. /\ TakeUpdate /\ at' = (IF phase' = "handling" THEN "start" ELSE at)
        /\ UNCHANGED <<bank, flows, utcDay, executed, target, after, queue, held, session, replies, seen>>
    BY <1>3 DEF TakeNext, Rest
  <2>2. PollerInv'
    BY <1>1, <2>1, PollerStepInv DEF PollerStep, PollerNext, LoopStep
  <2>3. /\ phase = "ready" /\ phase' \in {"ready", "handling"}
        /\ UNCHANGED <<today, inbox, issued, settled, dropped>>
    BY <2>1 DEF TakeUpdate, telegram, past
  <2>4. PlacesInv' /\ at' \in {"out", "start"}
    BY <1>1, <2>1, <2>3 DEF PlacesInv, Places, Handling
  <2> QED BY <1>2, <2>1, <2>2, <2>3, <2>4, PollKeeps
<1>4. CASE FlushBegins
  <2>1. /\ BeginFlush /\ at' = "flush" /\ queue' = DueReplies
        /\ UNCHANGED <<bank, flows, utcDay, executed, target, after, held, session, replies, seen>>
    BY <1>4 DEF FlushBegins, Rest
  <2>2. PollerInv'
    BY <1>1, <2>1, PollerStepInv DEF PollerStep, PollerNext, LoopStep
  <2>3. /\ phase = "ready" /\ phase' = "flushing"
        /\ UNCHANGED <<today, inbox, issued, settled, dropped>>
    BY <2>1 DEF BeginFlush, telegram, past
  <2>4. DueReplies \subseteq 1..MaxId
    BY <1>1 DEF DueReplies, RepliesInv, ReplyRow
  <2>5. PlacesInv'
    BY <1>1, <2>1, <2>3, <2>4 DEF PlacesInv, Places, Handling
  <2> QED BY <1>2, <2>1, <2>2, <2>3, <2>5, PollKeeps
<1>5. CASE Prepare
  <2>1. /\ PreparePolling
        /\ replies' = {r \in replies : ~(/\ r.status = "delivered"
                                         /\ today - r.offers.saved >= ResetAfterDays)}
        /\ UNCHANGED <<bank, flows, utcDay, executed, at, target, after, queue, held, session, seen>>
    BY <1>5 DEF Prepare, Rest, handler
  <2>2. PollerInv'
    BY <1>1, <2>1, PollerStepInv DEF PollerStep, PollerNext, LoopStep
  <2>3. /\ phase = "idle" /\ phase' = "polling"
        /\ UNCHANGED <<today, inbox, issued, settled, dropped>>
    BY <2>1 DEF PreparePolling, telegram, past
  <2>4. PlacesInv' /\ at' = "out"
    BY <1>1, <2>1, <2>3 DEF PlacesInv, Places, Handling
  <2>5. \A r \in replies \ replies' : r.status = "delivered"
    BY <2>1
  <2> QED BY <1>2, <2>1, <2>2, <2>3, <2>4, <2>5, PollKeeps
<1>6. CASE Receive
  <2>1. PollFails \/ \E updates \in SUBSET inbox : ReceiveUpdates(updates)
    BY <1>6 DEF Receive
  <2>2. UNCHANGED <<bank, flows, utcDay, executed, at, target, after, queue, held, session, replies, seen>>
    BY <1>6 DEF Receive, chatVars, tables, handler
  <2>3. PollerInv'
    BY <1>1, <2>1, PollerStepInv DEF PollerStep, PollerNext, LoopStep
  <2>4. /\ phase = "polling" /\ phase' \in {"ready", "idle"} /\ inbox' \in {inbox, Unconfirmed}
        /\ UNCHANGED <<today, issued, settled, dropped>>
    BY <2>1 DEF PollFails, ReceiveUpdates, past
  <2>5. PlacesInv' /\ at' = "out"
    BY <1>1, <2>2, <2>4 DEF PlacesInv, Places, Handling
  <2>6. inbox' \subseteq inbox /\ \A u \in inbox \ inbox' : u.serial \in settled
    <3>1. \A u \in inbox \ Unconfirmed : u.id < offset
      BY <1>1, Numbers DEF Unconfirmed
    <3>2. \A u \in inbox : u.id < offset => u.serial \in settled
      BY <1>1, <2>4 DEF PollerInv, OffsetKnown
    <3>3. inbox' \in {inbox, Unconfirmed} /\ Unconfirmed \subseteq inbox
      BY <2>4 DEF Unconfirmed
    <3> QED BY <3>1, <3>2, <3>3
  <2> QED BY <1>2, <2>2, <2>3, <2>4, <2>5, <2>6, PollKeeps
<1> QED BY <1>3, <1>4, <1>5, <1>6

LEMMA TimeKeeps ==
  ASSUME WizardInv, TimePasses
  PROVE  WizardInv'
<1>1. PollerInv /\ PlacesInv
  BY DEF WizardInv
<1>2. today \in Nat
  BY <1>1, Numbers
<1>3. UNCHANGED <<bank, flows, utcDay, executed, at, target, after, queue, held, session, replies, seen>>
  BY DEF TimePasses, chatVars, tables, handler
<1>4. PollerInv'
  BY <1>1, PollerStepInv DEF TimePasses, PollerStep, PollerNext, TelegramMoves
<1>5. /\ phase = "idle" /\ phase' = phase /\ UNCHANGED <<issued, settled, dropped>>
      /\ today' \in {today, today + 1} /\ inbox' \subseteq inbox
      /\ \A u \in inbox \ inbox' : today - u.day >= RetentionDays
  <2>1. CASE NextDay
    BY <2>1 DEF NextDay, telegram, loop, past
  <2>2. ASSUME NEW u \in inbox, Forget(u)
        PROVE  /\ phase = "idle" /\ phase' = phase /\ UNCHANGED <<issued, settled, dropped>>
               /\ today' \in {today, today + 1} /\ inbox' \subseteq inbox
               /\ \A v \in inbox \ inbox' : today - v.day >= RetentionDays
    BY <2>2 DEF Forget, loop, past
  <2> QED BY <2>1, <2>2 DEF TimePasses
<1>6. today' \in Nat /\ today <= today'
  BY <1>2, <1>5
<1>7. PlacesInv' /\ at' = "out"
  BY <1>1, <1>3, <1>5 DEF PlacesInv, Handling
<1> QED BY <1>2, <1>3, <1>4, <1>5, <1>6, <1>7, PollKeeps

LEMMA UsersKeep ==
  ASSUME WizardInv, UserActs
  PROVE  WizardInv'
<1>1. PollerInv /\ PlacesInv /\ FlowsInv /\ HeldInv /\ BodiesInv /\ RepliesInv /\ TurnInv
      /\ RecordsInv /\ SessionIsPrompted /\ ExecutedInv
  BY DEF WizardInv
<1>2. PICK user \in Users, id \in 1..MaxId : \E body \in Requests(user) : Arrive(id, body)
  BY DEF UserActs
<1>3. PICK body \in Requests(user) : Arrive(id, body)
  BY <1>2
<1>4. UNCHANGED <<bank, flows, utcDay, executed, at, target, after, queue, held, session, replies, seen>>
  BY DEF UserActs, chatVars, tables, handler
<1>5. PollerInv'
  <2>1. \E i \in 1..MaxId : \E b : Arrive(i, b)
    BY <1>3
  <2> QED BY <1>1, <2>1, PollerStepInv DEF PollerStep
<1>6. PICK new : /\ new = Update(Cardinality(issued) + 1, id, body)
                 /\ inbox' = inbox \cup {new}
  BY <1>3 DEF Arrive
<1>7. /\ new.serial = Cardinality(issued) + 1 /\ new.id = id /\ new.day = today /\ new.body = body
      /\ id \notin issued /\ issued' = issued \cup {id}
      /\ UNCHANGED <<today, phase, batch, settled, dropped>>
  BY <1>3, <1>6 DEF Arrive, Update, loop, past
<1>8. today \in Nat /\ Cardinality(issued) \in Nat /\ IsFiniteSet(issued)
  BY <1>1, Numbers
<1>9. Cardinality(issued)' = Cardinality(issued) + 1
  <2>1. Cardinality(issued \cup {id}) = Cardinality(issued) + 1
    BY <1>7, <1>8, FS_AddElement
  <2> QED BY <1>7, <2>1
<1>10. /\ body.user = user /\ body.kind \in RequestKinds
       /\ body.kind = "confirm" =>
            \E s \in seen[user] : s.step = "review" /\ s.flow = body.flow /\ s.preview = body.shown
  <2>1. CASE body \in [user : {user}, kind : {"command", "text"}, flow : {0}, shown : {NoPreview}]
    BY <2>1 DEF RequestKinds
  <2>2. ASSUME NEW s \in seen[user],
               body \in [user : {user}, kind : Buttons(s), flow : {s.flow}, shown : {s.preview}]
        PROVE  /\ body.user = user /\ body.kind \in RequestKinds
               /\ body.kind = "confirm" =>
                    s.step = "review" /\ s.flow = body.flow /\ s.preview = body.shown
    BY <2>2 DEF RequestKinds, Buttons
  <2> QED BY <2>1, <2>2 DEF Requests
<1>11. BodiesInv'
  <2>1. \A s \in seen[user] : s.saved <= today
    BY <1>1 DEF FlowsInv, Known
  <2>2. \A u \in inbox' : u \in inbox \/ u = new
    BY <1>6
  <2>3. /\ new.body.user \in Users /\ new.body.kind \in RequestKinds
        /\ new.body.kind = "confirm" =>
             \E s \in seen[new.body.user] : /\ s.step = "review" /\ s.flow = new.body.flow
                                            /\ s.preview = new.body.shown /\ s.saved <= new.day
    BY <1>7, <1>10, <2>1
  <2> QED BY <1>1, <1>4, <2>2, <2>3 DEF BodiesInv
<1>12. RecordsInv'
  <2>1. \A u \in inbox : u.serial <= Cardinality(issued) /\ u.serial \in Nat
    BY <1>1, <1>8 DEF PollerInv, Numbered
  <2>2. ASSUME NEW o \in executed
        PROVE  /\ o.update \in issued' /\ o.serial \in 1..Cardinality(issued)'
               /\ o.update # new.id /\ o.serial < new.serial
    <3>1. o.update \in issued /\ o.serial \in 1..Cardinality(issued)
      BY <1>1 DEF RecordsInv
    <3>2. o.serial \in Nat /\ o.serial <= Cardinality(issued)
      BY <1>8, <3>1
    <3> QED BY <1>7, <1>8, <1>9, <3>1, <3>2
  <2>3. ASSUME NEW o \in executed, NEW u \in inbox'
        PROVE  /\ u.id = o.update <=> u.serial = o.serial
               /\ u.serial = o.serial =>
                    /\ u.body.user = o.user /\ u.body.flow = o.flow
                    /\ u.body.kind = "confirm"
                    /\ \A v \in inbox' : v.serial < u.serial => v.serial \in settled
    <3>1. CASE u = new
      <4>1. o.update # u.id /\ o.serial # u.serial
        <5>1. o.serial \in Nat /\ new.serial \in Nat
          BY <1>1, <1>7, <1>8 DEF RecordsInv
        <5> QED BY <2>2, <3>1, <5>1
      <4> QED BY <4>1
    <3>2. CASE u \in inbox
      <4>1. ~(new.serial < u.serial)
        BY <1>7, <1>8, <2>1, <3>2
      <4> QED BY <1>1, <1>6, <3>2, <4>1 DEF RecordsInv
    <3> QED BY <1>6, <3>1, <3>2
  <2>4. \A o \in executed : ReplyTo(o.update)' = {}
    BY <1>1, <1>4 DEF RecordsInv, ReplyTo
  <2>5. \A o \in executed : /\ o.user \in Users /\ o.flow \in Nat /\ o.flow <= flows'
                            /\ \E s \in seen'[o.user] : s.flow = o.flow
                            /\ \A p \in executed : p.update = o.update => p = o
    BY <1>1, <1>4 DEF RecordsInv
  <2>6. ASSUME NEW o \in executed
        PROVE  \A u \in inbox' :
                 /\ u.id = o.update <=> u.serial = o.serial
                 /\ u.serial = o.serial =>
                      /\ u.body.user = o.user /\ u.body.flow = o.flow
                      /\ u.body.kind = "confirm"
                      /\ \A v \in inbox' : v.serial < u.serial => v.serial \in settled'
    BY <1>7, <2>3
  <2>7. \A o \in executed : o.update \in issued' /\ o.serial \in 1..Cardinality(issued)'
    BY <2>2
  <2>8. executed' = executed
    BY <1>4
  <2> QED BY <2>4, <2>5, <2>6, <2>7, <2>8 DEF RecordsInv
<1>13. FlowsInv'
  <2>1. today <= today' /\ today' \in Nat
    BY <1>7, <1>8
  <2>2. \A u \in Users : Known(u)' \subseteq Known(u)
    BY <1>4 DEF Known
  <2> QED BY <1>1, <1>4, <1>8, <2>1, <2>2, FlowsKept DEF FlowsInv
<1>14. Current' = Current /\ CurrentUser' = CurrentUser /\ (Handling' <=> Handling)
  BY <1>7 DEF Current, CurrentUser, Handling, Head
<1>15. PlacesInv' /\ HeldInv' /\ RepliesInv' /\ TurnInv' /\ SessionIsPrompted'
  BY <1>1, <1>4, <1>7, <1>14
     DEF PlacesInv, HeldInv, RepliesInv, TurnInv, SessionIsPrompted, Live, ReplyTo, PendingOf,
         ReceiptsDisappear
<1>16. ExecutedInv'
  <2>1. \A o \in executed : Guarded(o)'
    BY <1>1, <1>4, <1>6, <1>7, <1>14 DEF ExecutedInv, Guarded, Live
  <2> QED BY <1>1, <1>4, <1>7, <2>1 DEF ExecutedInv, ConfirmedAsShown, OncePerReview
<1> QED BY <1>5, <1>11, <1>12, <1>13, <1>15, <1>16 DEF WizardInv

-----------------------------------------------------------------------------
(* The theorems.                                                           *)

LEMMA WizardInitInv == Init => WizardInv
<1> SUFFICES ASSUME Init PROVE WizardInv
  OBVIOUS
<1>1. PollerInv /\ phase = "idle" /\ inbox = {}
  BY PollerInitInv DEF Init, PollerInit
<1>2. /\ bank = [u \in Users |-> NoBank] /\ utcDay = 0 /\ session = [u \in Users |-> NoSession]
      /\ replies = {} /\ flows = 0 /\ at = "out" /\ target = 0 /\ after = "out" /\ queue = {}
      /\ held = NoSession /\ seen = [u \in Users |-> {}] /\ executed = {}
  BY DEF Init
<1>3. \A u \in Users : Known(u) = {}
  BY <1>2 DEF Known
<1>4. FlowsInv
  BY <1>2, <1>3, ChatFlowAssumption DEF FlowsInv
<1>5. PlacesInv
  BY <1>1, <1>2, PollerAssumption DEF PlacesInv, Places
<1> QED BY <1>1, <1>2, <1>4, <1>5
        DEF WizardInv, HeldInv, BodiesInv, RepliesInv, ReceiptsDisappear, TurnInv, SessionIsPrompted,
            RecordsInv, ExecutedInv, ConfirmedAsShown, OncePerReview

LEMMA WizardStepInv ==
  ASSUME WizardInv, [Next]_vars
  PROVE  WizardInv'
<1>1. CASE HandlerStep
  BY <1>1, ResumeKeeps, CommandKeeps, TextKeeps, PressKeeps, BackKeeps, NextKeeps, ReviewPressKeeps,
     AgainKeeps, RefusedConfirmKeeps, ExecutesKeeps, DeleteKeeps, AcceptedKeeps, RefusedKeeps,
     RefusedGoesKeeps, PlainKeeps, EndsKeeps DEF HandlerStep
<1>2. CASE FlushStep
  BY <1>2, TakesKeeps, FlushNextKeeps, FlushFailsKeeps, EndsKeeps DEF FlushStep
<1>3. CASE TakeNext \/ Prepare \/ Receive \/ ProcessEnds
  BY <1>3, TakesKeeps, EndsKeeps
<1>4. CASE UserActs \/ TimePasses \/ Midnight \/ MiniAppActs
  BY <1>4, UsersKeep, TimeKeeps, OutsideKeeps
<1>5. CASE UNCHANGED vars
  <2>1. UNCHANGED <<pollerVars, bank, utcDay, session, replies, flows, at, target, after, queue, held,
                    seen, executed>>
    BY <1>5 DEF vars, chatVars, tables, handler
  <2>2. PollerInv /\ PlacesInv /\ HeldInv /\ TurnInv
    BY DEF WizardInv
  <2>3. /\ Current' = Current /\ CurrentUser' = CurrentUser /\ (Handling' <=> Handling)
        /\ UNCHANGED <<today, phase>>
    BY <2>1, <2>2, PollerSame
  <2>4. PlacesInv' /\ HeldInv' /\ TurnInv'
    BY <2>1, <2>2, <2>3 DEF PlacesInv, HeldInv, TurnInv, Live, ReplyTo, PendingOf
  <2> QED BY <2>1, <2>4, PlaceKeeps
<1> QED BY <1>1, <1>2, <1>3, <1>4, <1>5 DEF Next

\* The wizard stays consistent: the sessions, the replies, what the handler remembers across its
\* awaits and what the bank was told, however users, days, crashes and lost messages meet.
THEOREM WizardConsistent == Spec => []WizardInv
BY WizardInitInv, WizardStepInv, PTL DEF Spec

\* A row of conversation_replies is there for a reason: a pending one for the session of its user,
\* one for a user, a delivered one for an update that may be delivered again.
THEOREM RepliesServe == Spec => []RepliesHavePurpose
<1>1. WizardInv => RepliesHavePurpose
  <2> SUFFICES ASSUME WizardInv, NEW r \in replies, r.status = "pending"
               PROVE  session[r.user] \in {r.offers, NoSession} /\ PendingOf(r.user) = {r}
    BY DEF WizardInv, RepliesInv, RepliesHavePurpose, PendingReplyOwnsSession
  <2> QED BY DEF WizardInv, RepliesInv, PendingOf
<1> QED BY <1>1, WizardConsistent, PTL

\* No session waits for an answer to a question its user was neither sent nor is owed.
THEOREM SessionsArePrompted == Spec => []SessionIsPrompted
<1>1. WizardInv => SessionIsPrompted
  BY DEF WizardInv
<1> QED BY <1>1, WizardConsistent, PTL

\* A confirmation passes its check on nothing but what its own message showed, and
\* executes that unless midnight passes between the check and the command.
THEOREM ExecutedAsShown == Spec => []ConfirmedAsShown
<1>1. WizardInv => ConfirmedAsShown
  BY DEF WizardInv, ExecutedInv
<1> QED BY <1>1, WizardConsistent, PTL

\* A review takes effect at most once, unless the confirmation that was committed was given up.
THEOREM ReviewsTakeEffectOnce == Spec => []OncePerReview
<1>1. WizardInv => OncePerReview
  BY DEF WizardInv, ExecutedInv
<1> QED BY <1>1, WizardConsistent, PTL

-----------------------------------------------------------------------------
(* How many flows are drawn.                                               *)

\* An update of the inbox is known by its id and by its serial.
LEMMA SameUpdate ==
  ASSUME PollerInv, NEW u \in inbox, NEW v \in inbox, u.id = v.id \/ u.serial = v.serial
  PROVE  u = v
<1>1. /\ u.serial \in Nat /\ v.serial \in Nat /\ u.id \in Nat /\ v.id \in Nat
      /\ u.serial < v.serial <=> u.id < v.id
      /\ v.serial < u.serial <=> v.id < u.id
      /\ u.serial = v.serial => u = v
  BY Numbers DEF PollerInv, OneSequence
<1> QED BY <1>1

LEMMA FewIds ==
  ASSUME NEW S \in SUBSET (1..MaxId)
  PROVE  IsFiniteSet(S) /\ Cardinality(S) \in Nat
<1>1. IsFiniteSet(1..MaxId)
  BY FS_Interval, PollerAssumption
<1> QED BY <1>1, FS_Subset, FS_CardinalityType

LEMMA SpentIsFinite ==
  ASSUME PollerInv
  PROVE  /\ IsFiniteSet(Spent) /\ Cardinality(Spent) \in Nat
         /\ Cardinality(Spent) <= Cardinality(issued) /\ Cardinality(issued) <= MaxUpdates
<1>1. IsFiniteSet(issued) /\ Spent \subseteq issued
  BY Numbers DEF Spent
<1> QED BY <1>1, FS_Subset, FS_CardinalityType DEF PollerInv, Numbered

\* An update that draws no flow ID any more stays so.
LEMMA SpentGrows ==
  ASSUME PollerInv, PollerInv', issued \subseteq issued',
         \A u \in inbox' : u \notin inbox => u.id \notin issued,
         \A u \in inbox : Drawn(u) => Drawn(u)'
  PROVE  Spent \subseteq Spent' /\ Cardinality(Spent) <= Cardinality(Spent')
<1>1. Spent \subseteq Spent'
  BY DEF Spent
<1>2. IsFiniteSet(Spent')
  <2>1. Spent' \subseteq 1..MaxId
    BY DEF Spent, PollerInv, Typed, PollerTypeOK
  <2> HIDE DEF Spent
  <2> QED BY <2>1, FewIds
<1> QED BY <1>1, <1>2, FS_Subset

\* No flow is drawn, and rows are kept, marked or go as the updates of Telegram do.
LEMMA DrawsKept ==
  ASSUME ChatInv, WizardInv', flows' = flows, restarts' = restarts, issued' = issued,
         inbox' \subseteq inbox, settled \subseteq settled',
         \A q \in replies' : \E p \in replies :
           /\ q.update = p.update /\ q.offers = p.offers
           /\ q.processed => p.processed \/ \A u \in inbox : u.id = p.update => u.serial \in settled',
         OffsetPasses', RepliedInBatch',
         \A u \in inbox : Drawn(u) => Drawn(u)'
  PROVE  DrawsInv'
<1>1. PollerInv /\ PollerInv' /\ OriginsInv /\ flows <= Cardinality(Spent) + restarts
  BY DEF ChatInv, WizardInv, DrawsInv
<1>2. OriginsInv'
  <2>1. \A r \in replies' : r.update \in issued'
    BY <1>1 DEF OriginsInv
  <2>2. ASSUME NEW q \in replies', NEW u \in inbox', q.update = u.id
        PROVE  /\ u.day <= q.offers.saved
               /\ q.processed => u.serial \in settled'
               /\ \A v \in inbox' : v.serial < u.serial => v.serial \in settled'
    <3>1. PICK p \in replies :
            /\ q.update = p.update /\ q.offers = p.offers
            /\ q.processed => p.processed \/ \A v \in inbox : v.id = p.update => v.serial \in settled'
      OBVIOUS
    <3>2. u \in inbox /\ p.update = u.id
      BY <2>2, <3>1
    <3>3. /\ u.day <= p.offers.saved /\ (p.processed => u.serial \in settled)
          /\ \A v \in inbox : v.serial < u.serial => v.serial \in settled
      BY <1>1, <3>2 DEF OriginsInv
    <3> QED BY <3>1, <3>2, <3>3
  <2> QED BY <2>1, <2>2 DEF OriginsInv
<1>3. Cardinality(Spent) <= Cardinality(Spent')
  BY <1>1, SpentGrows
<1>4. Cardinality(Spent) \in Nat /\ Cardinality(Spent') \in Nat /\ restarts \in Nat /\ flows \in Nat
  <2>1. Spent' \subseteq 1..MaxId
    BY <1>1 DEF Spent, PollerInv, Typed, PollerTypeOK
  <2>2. Cardinality(Spent') \in Nat
    BY <2>1, FewIds
  <2>3. restarts \in Nat /\ flows \in Nat
    BY <1>1, PollerAssumption DEF PollerInv, Typed, PollerTypeOK, ChatInv, WizardInv, FlowsInv
  <2> QED BY <1>1, <2>2, <2>3, SpentIsFinite
<1>5. flows' <= Cardinality(Spent') + restarts'
  <2> DEFINE a == Cardinality(Spent)
             b == Cardinality(Spent')
  <2>1. a <= b /\ a \in Nat /\ b \in Nat /\ restarts \in Nat /\ flows \in Nat /\ flows <= a + restarts
    BY <1>1, <1>3, <1>4
  <2> HIDE DEF a, b
  <2>2. flows <= b + restarts
    BY <2>1
  <2> QED BY <2>2 DEF b
<1>6. OffsetPasses' /\ RepliedInBatch'
  OBVIOUS
<1> QED BY <1>2, <1>5, <1>6 DEF DrawsInv

\* The loop does not move and no row comes or goes before its time.
LEMMA QuietDraws ==
  ASSUME ChatInv, WizardInv', UNCHANGED <<pollerVars, flows>>,
         \A q \in replies' : \E p \in replies :
           q.update = p.update /\ q.offers = p.offers /\ q.processed = p.processed,
         at = "done" => at' = "done",
         \A u \in inbox : Replied(u.id) =>
           Replied(u.id)' \/ u.serial \in settled \/ (at' = "done" /\ u = Current)
  PROVE  DrawsInv'
<1>1. PollerInv /\ OffsetPasses /\ RepliedInBatch
  BY DEF ChatInv, WizardInv, DrawsInv
<1>2. /\ Current' = Current
      /\ UNCHANGED <<inbox, issued, phase, batch, settled, restarts, nextOffset>>
  BY <1>1, PollerSame
<1>3. OffsetPasses'
  BY <1>1, <1>2 DEF OffsetPasses
<1>4. RepliedInBatch'
  <2>1. \A id : Replied(id)' => Replied(id)
    BY DEF Replied
  <2> QED BY <1>1, <1>2, <2>1 DEF RepliedInBatch
<1>5. \A u \in inbox : Drawn(u) => Drawn(u)'
  BY <1>2 DEF Drawn
<1>6. inbox' \subseteq inbox /\ settled \subseteq settled' /\ flows' = flows
  BY <1>2
<1> QED BY <1>2, <1>3, <1>4, <1>5, <1>6, DrawsKept

\* Steps that leave the rows alone and are none of a handler that is done.
LEMMA StillDraws ==
  ASSUME ChatInv, WizardInv', UNCHANGED <<pollerVars, flows, replies>>, at = "done" => at' = "done"
  PROVE  DrawsInv'
<1>1. \A q \in replies' : \E p \in replies :
        q.update = p.update /\ q.offers = p.offers /\ q.processed = p.processed
  OBVIOUS
<1>2. \A u \in inbox : Replied(u.id) => Replied(u.id)'
  BY DEF Replied
<1> QED BY <1>1, <1>2, QuietDraws

\* A handler that offers a session with its reply draws at most one flow ID.
Offers ==
  /\ Handling /\ at \in {"enter", "answered"}
  /\ flows' \in {flows, flows + 1}
  /\ \E s : s.saved = today /\ replies' = replies \cup {Reply(Current, s)}
  /\ UNCHANGED pollerVars

LEMMA OffersDraw ==
  ASSUME ChatInv, WizardInv', Offers
  PROVE  DrawsInv'
<1> DEFINE c == Current
<1>1. /\ PollerInv /\ PollerInv' /\ TurnInv /\ OriginsInv /\ OffsetPasses /\ RepliedInBatch
      /\ flows <= Cardinality(Spent) + restarts
  BY DEF ChatInv, WizardInv, DrawsInv
<1>2. PICK s : s.saved = today /\ replies' = replies \cup {Reply(c, s)}
  BY DEF Offers
<1>3. /\ Handling /\ at \in {"enter", "answered"} /\ flows' \in {flows, flows + 1}
      /\ Current' = c
      /\ UNCHANGED <<today, inbox, issued, phase, batch, settled, restarts, nextOffset>>
  BY <1>1, PollerSame DEF Offers
<1>4. /\ c \in batch /\ c \in inbox /\ c.serial \notin settled /\ c.id \in issued
      /\ \A v \in inbox : v.serial < c.serial => v.serial \in settled
  BY <1>1, <1>3, CurrentFacts
<1>0. PICK new : new = Reply(c, s)
  OBVIOUS
<1>5. /\ new = Reply(c, s) /\ new.update = c.id /\ new.processed = FALSE
      /\ new.offers = s
  BY <1>0 DEF Reply
<1>6. ReplyTo(c.id) = {}
  BY <1>1, <1>3 DEF TurnInv
<1> HIDE DEF c
<1>7. OriginsInv'
  <2>1. \A r \in replies' : r \in replies \/ r = new
    BY <1>2, <1>5
  <2>2. \A r \in replies' : r.update \in issued'
    BY <1>1, <1>3, <1>4, <1>5, <2>1 DEF OriginsInv
  <2>3. ASSUME NEW u \in inbox, new.update = u.id
        PROVE  u.day <= s.saved /\ \A v \in inbox : v.serial < u.serial => v.serial \in settled
    <3>1. u = c
      BY <1>1, <1>4, <1>5, <2>3, SameUpdate
    <3>2. u.day <= newest.day /\ newest.day <= today /\ u.day \in Nat /\ newest.day \in Nat /\ today \in Nat
      BY <1>1, Numbers DEF PollerInv, Recent
    <3> QED BY <1>2, <1>4, <3>1, <3>2
  <2>4. ASSUME NEW r \in replies', NEW u \in inbox', r.update = u.id
        PROVE  /\ u.day <= r.offers.saved
               /\ r.processed => u.serial \in settled'
               /\ \A v \in inbox' : v.serial < u.serial => v.serial \in settled'
    <3>1. CASE r \in replies
      BY <1>1, <1>3, <2>4, <3>1 DEF OriginsInv
    <3>2. CASE r = new
      BY <1>3, <1>5, <2>3, <2>4, <3>2
    <3> QED BY <2>1, <3>1, <3>2
  <2> QED BY <2>2, <2>4 DEF OriginsInv
<1>8. OffsetPasses'
  BY <1>1, <1>3 DEF OffsetPasses
<1>9. \A id : Replied(id)' <=> (Replied(id) \/ id = c.id)
  BY <1>2, <1>5 DEF Replied
<1>10. RepliedInBatch'
  <2>1. \A u \in inbox : u.id = c.id => u = c
    BY <1>1, <1>4, SameUpdate
  <2>2. phase = "handling"
    BY <1>3 DEF Handling
  <2> QED BY <1>1, <1>3, <1>4, <1>9, <2>1, <2>2 DEF RepliedInBatch
<1>11. c.id \notin Spent
  <2>1. ~Drawn(c)
    BY <1>3, <1>4, <1>6 DEF Drawn, Replied, ReplyTo
  <2> QED BY <1>4, <2>1 DEF Spent
<1>12. Spent \cup {c.id} \subseteq Spent'
  <2>1. \A u \in inbox : Drawn(u) => Drawn(u)'
    BY <1>3, <1>9 DEF Drawn
  <2>2. \A u \in inbox : u.id = c.id => Drawn(u)'
    BY <1>9 DEF Drawn
  <2> QED BY <1>3, <1>4, <2>1, <2>2 DEF Spent
<1>13. Cardinality(Spent) + 1 <= Cardinality(Spent') /\ Cardinality(Spent) \in Nat /\ Cardinality(Spent') \in Nat
  <2>1. IsFiniteSet(Spent) /\ Cardinality(Spent) \in Nat
    BY <1>1, SpentIsFinite
  <2>2. Cardinality(Spent \cup {c.id}) = Cardinality(Spent) + 1
    BY <1>11, <2>1, FS_AddElement
  <2>3. Spent' \subseteq 1..MaxId
    BY <1>1 DEF Spent, PollerInv, Typed, PollerTypeOK
  <2>4. IsFiniteSet(Spent')
    BY <2>3, FewIds
  <2>5. Cardinality(Spent \cup {c.id}) <= Cardinality(Spent') /\ Cardinality(Spent') \in Nat
    BY <1>12, <2>4, FS_Subset, FS_CardinalityType
  <2> QED BY <2>1, <2>2, <2>5
<1>14. flows' <= Cardinality(Spent') + restarts'
  <2> DEFINE a == Cardinality(Spent)
             b == Cardinality(Spent')
  <2>1. restarts \in Nat /\ flows \in Nat
    BY <1>1, PollerAssumption DEF PollerInv, Typed, PollerTypeOK, ChatInv, WizardInv, FlowsInv
  <2>2. a + 1 <= b /\ a \in Nat /\ b \in Nat /\ flows <= a + restarts
    BY <1>1, <1>13
  <2> HIDE DEF a, b
  <2>3. flows' <= b + restarts
    BY <1>3, <2>1, <2>2
  <2> QED BY <1>3, <2>3 DEF b
<1> QED BY <1>7, <1>8, <1>10, <1>14 DEF DrawsInv

-----------------------------------------------------------------------------
(* Each step draws at most one flow.                                       *)

\* What the wizards show is a message, or a session with its reply.
LEMMA ShowsOffer ==
  ASSUME WizardInv, Handling, at \in {"enter", "answered"}, UNCHANGED pollerVars,
         \/ \E step : StartFlow(step)
         \/ \E flow, step : Continue(flow, step)
         \/ \E flow, step : Open(flow, step)
         \/ \E s, previews : OfferReview(s, previews)
  PROVE  Offers
<1>1. ASSUME NEW s, s.saved = today, Offer(s), flows' \in {flows, flows + 1}
      PROVE  Offers
  BY <1>1 DEF Offer, Offers
<1>2. \A flow, step, preview : Session(flow, step, preview).saved = today
  BY DEF Session
<1>3. ASSUME NEW step, StartFlow(step) PROVE Offers
  BY <1>1, <1>2, <1>3 DEF StartFlow
<1>4. ASSUME NEW flow, NEW step, Continue(flow, step) PROVE Offers
  BY <1>1, <1>2, <1>4 DEF Continue
<1>5. ASSUME NEW s, NEW previews, OfferReview(s, previews) PROVE Offers
  BY <1>1, <1>2, <1>5 DEF OfferReview
<1> QED BY <1>3, <1>4, <1>5 DEF Open

LEMMA WizardDraws ==
  ASSUME ChatInv, WizardInv',
         HandleCommand \/ HandleText \/ PressBack \/ PressNext \/ PressReview \/ ConfirmRefused
  PROVE  DrawsInv'
<1>1. WizardInv
  BY DEF ChatInv
<1>2. /\ Handling /\ at \in {"enter", "answered"} /\ UNCHANGED pollerVars
  BY DEF HandleCommand, HandleText, PressBack, PressNext, PressReview, ConfirmRefused, Enter, Answered
<1>3. CASE UNCHANGED <<replies, flows>>
  BY <1>2, <1>3, StillDraws
<1>4. CASE \/ \E step : StartFlow(step)
           \/ \E flow, step : Continue(flow, step)
           \/ \E flow, step : Open(flow, step)
           \/ \E s, previews : OfferReview(s, previews)
  BY <1>1, <1>2, <1>4, ShowsOffer, OffersDraw
<1>5. \/ UNCHANGED <<replies, flows>>
      \/ \E step : StartFlow(step)
      \/ \E flow, step : Continue(flow, step)
      \/ \E flow, step : Open(flow, step)
      \/ \E s, previews : OfferReview(s, previews)
  <2>1. CASE HandleCommand
    BY <2>1 DEF HandleCommand, StartTransaction, ShowAccounts, ShowRecurring, SendDashboard
  <2>2. CASE HandleText
    BY <2>2 DEF HandleText, TransactionText, AccountText, Say, TransactionReview, AccountReview
  <2>3. CASE PressBack
    BY <2>3 DEF PressBack, SendDashboard
  <2>4. CASE PressNext
    BY <2>4 DEF PressNext, Say, DashboardPress, TransactionStep, AccountsStep, RecurringStep,
                StartTransaction, ShowAccounts, ShowRecurring
  <2>5. CASE PressReview
    BY <2>5 DEF PressReview, Say, TransactionReview, AccountReview, RecurringReview
  <2>6. CASE ConfirmRefused
    BY <2>6 DEF ConfirmRefused, Say, TransactionChanged, RecurringChanged, AccountChanged,
                TransactionReview, AccountReview, ShowRecurring
  <2> QED BY <2>1, <2>2, <2>3, <2>4, <2>5, <2>6
<1> QED BY <1>3, <1>4, <1>5

LEMMA HandlerDraws ==
  ASSUME ChatInv, WizardInv',
         \/ Resume \/ HandlePress \/ ConfirmAgain \/ ConfirmExecutes \/ DeleteSession
         \/ SendRefused \/ PlainSent \/ FlushNext \/ FlushSendFails \/ Midnight \/ MiniAppActs
  PROVE  DrawsInv'
<1>1. UNCHANGED <<pollerVars, flows, replies>>
  BY DEF Resume, HandlePress, ConfirmAgain, ConfirmExecutes, DeleteSession, SendRefused, PlainSent,
         FlushNext, FlushSendFails, Midnight, MiniAppActs, Rest, tables
<1>2. at = "done" => at' = "done"
  BY DEF Resume, HandlePress, ConfirmAgain, ConfirmExecutes, DeleteSession, SendRefused, PlainSent,
         FlushNext, FlushSendFails, SendLost, Midnight, MiniAppActs, Enter, Answered, handler
<1> QED BY <1>1, <1>2, StillDraws

LEMMA AcceptedDraws ==
  ASSUME ChatInv, WizardInv', SendAccepted
  PROVE  DrawsInv'
<1>1. PollerInv /\ OriginsInv /\ RepliesInv
  BY DEF ChatInv, WizardInv, DrawsInv
<1>2. PICK r \in ReplyTo(target) : at = "send" /\ replies' = Delivered(r) /\ UNCHANGED <<pollerVars, flows>>
  BY DEF SendAccepted
<1> DEFINE d == [r EXCEPT !.status = "delivered"]
<1>3. r \in replies /\ d.update = r.update /\ d.offers = r.offers /\ d.processed = r.processed
  BY <1>1 DEF ReplyTo, RepliesInv, ReplyRow
<1>4. replies' = IF r.processed THEN replies \ {r} ELSE (replies \ {r}) \cup {d}
  BY <1>2 DEF Delivered
<1> HIDE DEF d
<1>5. \A q \in replies' : \E p \in replies :
        q.update = p.update /\ q.offers = p.offers /\ q.processed = p.processed
  BY <1>3, <1>4
<1>6. \A u \in inbox : Replied(u.id) => Replied(u.id)' \/ u.serial \in settled
  <2> SUFFICES ASSUME NEW u \in inbox, NEW q \in replies, q.update = u.id
               PROVE  Replied(u.id)' \/ u.serial \in settled
    BY DEF Replied
  <2>1. CASE q = r /\ r.processed
    BY <1>1, <2>1 DEF OriginsInv
  <2>2. CASE ~(q = r /\ r.processed)
    BY <1>3, <1>4, <2>2 DEF Replied
  <2> QED BY <2>1, <2>2
<1> QED BY <1>2, <1>5, <1>6, QuietDraws

\* The reply that goes is the one of the update that is handled, or of one that was settled.
LEMMA RefusedGoesDraws ==
  ASSUME ChatInv, WizardInv', DeleteRefused
  PROVE  DrawsInv'
<1>1. PollerInv /\ PlacesInv /\ TurnInv /\ RepliesInv /\ OriginsInv /\ RepliedInBatch
  BY DEF ChatInv, WizardInv, DrawsInv
<1>2. /\ at = "refused" /\ replies' = replies \ ReplyTo(target) /\ at' = after
      /\ UNCHANGED <<pollerVars, flows>>
  BY DEF DeleteRefused
<1>3. \A q \in replies' : \E p \in replies :
        q.update = p.update /\ q.offers = p.offers /\ q.processed = p.processed
  BY <1>2
<1>4. ASSUME NEW u \in inbox, Replied(u.id), ~Replied(u.id)', u.serial \notin settled
      PROVE  at' = "done" /\ u = Current
  <2>1. u.id = target /\ ReplyTo(target) # {}
    BY <1>2, <1>4 DEF Replied, ReplyTo
  <2>2. phase # "flushing" /\ (phase \in {"ready", "handling"} => u \in batch)
    BY <1>1, <1>4 DEF RepliedInBatch
  <2>3. Handling /\ after \in {"enter", "done"}
    BY <1>1, <1>2, <2>2 DEF PlacesInv
  <2>4. Current \in inbox /\ Current.serial \notin settled
    BY <1>1, <2>3, CurrentFacts
  <2>5. u.serial = Current.serial
    <3>1. \A v \in inbox : v.serial < Current.serial => v.serial \in settled
      BY <1>1, <2>3, CurrentFacts
    <3>2. \A v \in inbox : v.serial < u.serial => v.serial \in settled
      BY <1>1, <1>4 DEF OriginsInv, Replied
    <3>3. u.serial \in Nat /\ Current.serial \in Nat
      BY <1>1, <2>4, Numbers
    <3>4. ~(u.serial < Current.serial) /\ ~(Current.serial < u.serial)
      BY <1>4, <2>4, <3>1, <3>2
    <3> DEFINE a == u.serial
               b == Current.serial
    <3>5. a \in Nat /\ b \in Nat /\ ~(a < b) /\ ~(b < a)
      BY <3>3, <3>4
    <3> HIDE DEF a, b
    <3>6. a = b
      BY <3>5
    <3> QED BY <3>6 DEF a, b
  <2>6. u = Current
    BY <1>1, <2>4, <2>5, SameUpdate
  <2>7. after # "enter"
    BY <1>1, <1>2, <2>1, <2>6 DEF TurnInv
  <2> QED BY <1>2, <2>3, <2>6, <2>7
<1>5. \A u \in inbox : Replied(u.id) =>
        Replied(u.id)' \/ u.serial \in settled \/ (at' = "done" /\ u = Current)
  BY <1>4
<1> QED BY <1>2, <1>3, <1>5, QuietDraws

-----------------------------------------------------------------------------
(* The loop draws none.                                                    *)

\* The update that is handled is settled, its rows are marked.
LEMMA SettlesDraws ==
  ASSUME ChatInv, WizardInv', Settles, flows' = flows, replies' = ReceiptsProcessed(Current)
  PROVE  DrawsInv'
<1> DEFINE c == Current
<1>1. PollerInv /\ RepliesInv /\ OriginsInv /\ OffsetPasses /\ RepliedInBatch
  BY DEF ChatInv, WizardInv, DrawsInv
<1>2. /\ phase = "handling" /\ phase' = "ready" /\ batch' = batch \ {c}
      /\ settled' = settled \cup {c.serial}
      /\ nextOffset' = IF nextOffset <= c.id THEN c.id + 1 ELSE nextOffset
      /\ UNCHANGED <<inbox, issued, restarts>>
  BY DEF Settles, MarkProcessed, telegram, Current
<1>3. c \in inbox /\ c.id \in Nat /\ nextOffset \in Nat /\ \A u \in inbox : u.id \in Nat
  BY <1>1, <1>2, CurrentFacts, Numbers DEF Handling
<1>4. \A u \in inbox : u.id = c.id \/ u.serial = c.serial => u = c
  BY <1>1, <1>3, SameUpdate
<1> DEFINE f(r) == IF r.update = c.id THEN [r EXCEPT !.processed = TRUE] ELSE r
<1>5. \A r \in replies :
        /\ f(r).update = r.update /\ f(r).offers = r.offers
        /\ f(r).processed => r.processed \/ r.update = c.id
  BY <1>1 DEF RepliesInv, ReplyRow
<1>6. replies' = {f(r) : r \in {q \in replies : ~(q.update = c.id /\ q.status = "delivered")}}
  BY DEF ReceiptsProcessed
<1> HIDE DEF f, c
<1>7. \A q \in replies' : \E p \in replies : q = f(p)
  BY <1>6
<1>8. \A q \in replies' : \E p \in replies :
        /\ q.update = p.update /\ q.offers = p.offers
        /\ q.processed => p.processed \/ \A u \in inbox : u.id = p.update => u.serial \in settled'
  BY <1>2, <1>4, <1>5, <1>7
<1>9. \A id : Replied(id)' => Replied(id)
  BY <1>5, <1>7 DEF Replied
<1>10. \A id : Replied(id) => Replied(id)' \/ id = c.id
  <2> SUFFICES ASSUME NEW r \in replies, r.update # c.id PROVE Replied(r.update)'
    BY DEF Replied
  <2>1. f(r) \in replies'
    BY <1>6
  <2> QED BY <1>5, <2>1 DEF Replied
<1>11. OffsetPasses'
  <2>1. ASSUME NEW u \in inbox, u.serial \in settled \/ u = c PROVE u.id < nextOffset'
    <3>1. CASE u = c
      BY <1>2, <1>3, <3>1
    <3>2. CASE u.serial \in settled
      <4>1. u.id < nextOffset
        BY <1>1, <3>2 DEF OffsetPasses
      <4> QED BY <1>2, <1>3, <4>1
    <3> QED BY <2>1, <3>1, <3>2
  <2> QED BY <1>2, <1>4, <2>1 DEF OffsetPasses
<1>12. RepliedInBatch'
  BY <1>1, <1>2, <1>9 DEF RepliedInBatch
<1>13. \A u \in inbox : Drawn(u) => Drawn(u)'
  <2> SUFFICES ASSUME NEW u \in inbox, Drawn(u), u.serial \notin settled' PROVE Replied(u.id)'
    BY DEF Drawn
  <2>1. u # c /\ u.serial \notin settled
    BY <1>2
  <2>2. Replied(u.id) /\ u.id # c.id
    BY <1>4, <2>1 DEF Drawn, c
  <2> QED BY <1>10, <2>2
<1>14. inbox' \subseteq inbox /\ settled \subseteq settled'
  BY <1>2
<1> QED BY <1>2, <1>8, <1>11, <1>12, <1>13, <1>14, DrawsKept

\* The loop moves on and settles nothing.
LEMMA LoopDraws ==
  ASSUME ChatInv, WizardInv', at # "done", flows' = flows, UNCHANGED <<issued, restarts, settled>>,
         inbox' \subseteq inbox, replies' \subseteq replies,
         \A u \in inbox : Replied(u.id) => Replied(u.id)',
         OffsetPasses', RepliedInBatch'
  PROVE  DrawsInv'
<1>1. \A u \in inbox : Drawn(u) => Drawn(u)'
  BY DEF Drawn
<1>2. \A q \in replies' : \E p \in replies :
        /\ q.update = p.update /\ q.offers = p.offers
        /\ q.processed => p.processed \/ \A u \in inbox : u.id = p.update => u.serial \in settled'
  OBVIOUS
<1>3. settled \subseteq settled'
  OBVIOUS
<1> QED BY <1>1, <1>2, <1>3, DrawsKept

LEMMA EndsDraw ==
  ASSUME ChatInv, WizardInv', HandlerEnds \/ HandlerThrows
  PROVE  DrawsInv'
<1>1. PollerInv /\ OffsetPasses /\ flows' = flows
  BY DEF ChatInv, WizardInv, DrawsInv, HandlerEnds, HandlerThrows, Rest
<1>2. CASE HandlerEnds
  <2>1. Settles /\ replies' = ReceiptsProcessed(Current)
    BY <1>2 DEF HandlerEnds, HandlerReturns, Settles
  <2> QED BY <1>1, <2>1, SettlesDraws
<1>3. CASE HandlerThrows
  <2>1. PICK kind \in {"transient", "terminal"} : HandlerFails(kind) /\ (at = "done" => kind = "terminal")
    BY <1>3 DEF HandlerThrows
  <2>2. /\ phase = "handling" /\ UNCHANGED <<today, telegram, offset, restarts>>
        /\ IF GivesUp(Head(batch), kind) THEN Drops(Head(batch)) ELSE TriesAgain(Head(batch))
    BY <2>1 DEF HandlerFails
  <2>3. replies' = IF settled' = settled THEN replies ELSE ReceiptsProcessed(Current)
    BY <1>3 DEF HandlerThrows
  <2>4. CASE GivesUp(Head(batch), kind)
    <3>1. Settles
      BY <2>2, <2>4 DEF Drops, Settles
    <3>2. settled' # settled
      BY <1>1, <3>1, CurrentFacts DEF Settles, MarkProcessed, Handling, Current
    <3> QED BY <1>1, <2>3, <3>1, <3>2, SettlesDraws
  <2>5. CASE ~GivesUp(Head(batch), kind)
    <3>1. /\ phase' = "idle" /\ UNCHANGED <<inbox, issued, restarts, settled, nextOffset, replies>>
      BY <2>2, <2>3, <2>5 DEF TriesAgain, telegram, service
    <3>2. at # "done"
      BY <2>1, <2>5 DEF GivesUp
    <3>3. OffsetPasses' /\ RepliedInBatch' /\ \A u \in inbox : Replied(u.id) => Replied(u.id)'
      BY <1>1, <3>1 DEF OffsetPasses, RepliedInBatch, Replied
    <3> QED BY <1>1, <3>1, <3>2, <3>3, LoopDraws
  <2> QED BY <2>4, <2>5
<1> QED BY <1>2, <1>3

LEMMA TakesDraw ==
  ASSUME ChatInv, WizardInv', TakeNext \/ FlushBegins \/ FlushEnds \/ TimePasses
  PROVE  DrawsInv'
<1>1. PollerInv /\ PlacesInv /\ OffsetPasses /\ RepliedInBatch
  BY DEF ChatInv, WizardInv, DrawsInv
<1>2. UNCHANGED <<replies, flows>>
  BY DEF TakeNext, FlushBegins, FlushEnds, TimePasses, Rest, chatVars, tables
<1>3. \A id : Replied(id)' <=> Replied(id)
  BY <1>2 DEF Replied
<1>4. CASE TakeNext
  <2>1. TakeUpdate
    BY <1>4 DEF TakeNext
  <2>2. /\ phase = "ready" /\ phase' \in {"ready", "handling"} /\ batch # {}
        /\ batch' = batch \/ (batch' = batch \ {Head(batch)} /\ Head(batch).id \in processed)
        /\ UNCHANGED <<inbox, issued, restarts, settled, nextOffset>>
    BY <2>1 DEF TakeUpdate, telegram, service, past
  <2>3. Head(batch) \in inbox
    BY <1>1, <2>2, HeadFacts, Numbers
  <2>4. Head(batch).id \in processed => Head(batch).serial \in settled
    BY <1>1, <2>3 DEF PollerInv, SettledKnown
  <2>5. OffsetPasses' /\ RepliedInBatch' /\ at # "done"
    BY <1>1, <1>3, <2>2, <2>4 DEF OffsetPasses, RepliedInBatch, PlacesInv, Handling
  <2> QED BY <1>2, <1>3, <2>2, <2>5, LoopDraws
<1>5. CASE FlushBegins \/ FlushEnds
  <2>1. BeginFlush \/ EndFlush
    BY <1>5 DEF FlushBegins, FlushEnds
  <2>2. /\ phase' \in {"flushing", "idle"} /\ phase \in {"ready", "flushing"}
        /\ phase' = "flushing" => phase = "ready" /\ batch = {}
        /\ UNCHANGED <<inbox, issued, restarts, settled, nextOffset>>
    BY <2>1 DEF BeginFlush, EndFlush, telegram, service, past
  <2>3. OffsetPasses' /\ RepliedInBatch' /\ at # "done"
    BY <1>1, <1>3, <2>2 DEF OffsetPasses, RepliedInBatch, PlacesInv, Handling
  <2> QED BY <1>2, <1>3, <2>2, <2>3, LoopDraws
<1>6. CASE TimePasses
  <2>1. /\ phase = "idle" /\ phase' = "idle" /\ inbox' \subseteq inbox
        /\ UNCHANGED <<issued, restarts, settled, nextOffset>>
    BY <1>6 DEF TimePasses, NextDay, Forget, telegram, service, loop, past
  <2>2. OffsetPasses' /\ RepliedInBatch' /\ at # "done"
    BY <1>1, <2>1 DEF OffsetPasses, RepliedInBatch, PlacesInv, Handling
  <2> QED BY <1>2, <1>3, <2>1, <2>2, LoopDraws
<1> QED BY <1>4, <1>5, <1>6

\* A reply that is pruned is older than any update that Telegram holds.
LEMMA PrepareDraws ==
  ASSUME ChatInv, WizardInv', Prepare
  PROVE  DrawsInv'
<1>1. PollerInv /\ PlacesInv /\ RepliesInv /\ OriginsInv /\ OffsetPasses
  BY DEF ChatInv, WizardInv, DrawsInv
<1>2. /\ PreparePolling /\ flows' = flows
      /\ replies' = {r \in replies : ~(/\ r.status = "delivered"
                                       /\ today - r.offers.saved >= ResetAfterDays)}
  BY DEF Prepare, Rest
<1>3. /\ phase = "idle" /\ phase' = "polling" /\ UNCHANGED <<inbox, issued, restarts, settled>>
      /\ IF SequenceIsOld THEN nextOffset' = 0 ELSE nextOffset' = nextOffset
  BY <1>2 DEF PreparePolling, telegram, service, past
<1>4. OffsetPasses'
  <2>1. CASE SequenceIsOld
    <3>1. ASSUME NEW u \in inbox, u.serial \in settled PROVE FALSE
      <4>1. u.day <= lastUpdateDay /\ today - u.day <= RetentionDays
        BY <1>1, <3>1 DEF PollerInv, SettledKnown, Recent
      <4>2. today - lastUpdateDay >= ResetAfterDays
        BY <2>1 DEF SequenceIsOld
      <4>3. u.day \in Nat /\ today \in Nat /\ lastUpdateDay \in Nat
        BY <1>1, Numbers
      <4> QED BY <4>1, <4>2, <4>3, PollerAssumption
    <3> QED BY <1>3, <3>1 DEF OffsetPasses
  <2>2. CASE ~SequenceIsOld
    BY <1>1, <1>3, <2>2 DEF OffsetPasses
  <2> QED BY <2>1, <2>2
<1>5. \A u \in inbox : Replied(u.id) => Replied(u.id)'
  <2> SUFFICES ASSUME NEW u \in inbox, NEW r \in replies, r.update = u.id PROVE r \in replies'
    BY DEF Replied
  <2>1. u.day <= r.offers.saved /\ today - u.day <= RetentionDays
    BY <1>1 DEF OriginsInv, PollerInv, Recent
  <2>2. r.offers.saved \in Nat
    BY <1>1 DEF RepliesInv, ReplyRow, SessionRow
  <2>3. u.day \in Nat /\ today \in Nat
    BY <1>1, Numbers
  <2>4. ~(today - r.offers.saved >= ResetAfterDays)
    BY <2>1, <2>2, <2>3, PollerAssumption
  <2> QED BY <1>2, <2>4
<1>6. RepliedInBatch' /\ at # "done"
  BY <1>1, <1>3 DEF RepliedInBatch, PlacesInv, Handling
<1>7. replies' \subseteq replies
  BY <1>2
<1> QED BY <1>2, <1>3, <1>4, <1>5, <1>6, <1>7, LoopDraws

\* An update with a reply is below all that Telegram holds and that were not settled: it is received.
LEMMA ReceiveDraws ==
  ASSUME ChatInv, WizardInv', Receive
  PROVE  DrawsInv'
<1>1. PollerInv /\ PlacesInv /\ OriginsInv /\ OffsetPasses
  BY DEF ChatInv, WizardInv, DrawsInv
<1>2. UNCHANGED <<replies, flows>>
  BY DEF Receive, chatVars, tables
<1>3. \A id : Replied(id)' <=> Replied(id)
  BY <1>2 DEF Replied
<1>4. CASE PollFails
  <2>1. /\ phase = "polling" /\ phase' = "idle" /\ inbox' \subseteq inbox
        /\ UNCHANGED <<issued, restarts, settled, nextOffset>>
    BY <1>4 DEF PollFails, Unconfirmed, service, past
  <2>2. OffsetPasses' /\ RepliedInBatch' /\ at # "done"
    BY <1>1, <2>1 DEF OffsetPasses, RepliedInBatch, PlacesInv, Handling
  <2> QED BY <1>2, <1>3, <2>1, <2>2, LoopDraws
<1>5. ASSUME NEW updates \in SUBSET inbox, ReceiveUpdates(updates)
      PROVE  DrawsInv'
  <2>1. /\ phase = "polling" /\ phase' = "ready" /\ inbox' = Unconfirmed /\ batch' = updates
        /\ updates \subseteq Unconfirmed
        /\ \A u \in updates, v \in Unconfirmed \ updates : u.serial < v.serial
        /\ updates = {} => Unconfirmed = {}
        /\ UNCHANGED <<issued, restarts, settled, nextOffset>>
    BY <1>5 DEF ReceiveUpdates, service, past
  <2>2. Unconfirmed \subseteq inbox /\ \A u \in Unconfirmed : u.id >= offset
    BY DEF Unconfirmed
  <2>3. offset = nextOffset
    BY <1>1, <2>1 DEF PollerInv, OffsetKnown
  <2>4. ASSUME NEW u \in Unconfirmed, Replied(u.id), u.serial \notin settled
        PROVE  u \in updates
    <3> SUFFICES ASSUME u \notin updates PROVE FALSE
      OBVIOUS
    <3>1. PICK v \in updates : v.serial < u.serial
      BY <2>1
    <3>2. v.serial \in settled
      BY <1>1, <2>1, <2>2, <2>4, <3>1 DEF OriginsInv, Replied
    <3>3. v \in inbox /\ v.id >= offset
      BY <2>1, <2>2
    <3>4. v.id < nextOffset
      BY <1>1, <3>2, <3>3 DEF OffsetPasses
    <3>5. v.id \in Nat /\ nextOffset \in Nat
      BY <1>1, <3>3, Numbers
    <3> QED BY <2>3, <3>3, <3>4, <3>5
  <2>5. RepliedInBatch'
    BY <1>3, <2>1, <2>4 DEF RepliedInBatch
  <2>6. OffsetPasses' /\ at # "done"
    BY <1>1, <2>1, <2>2 DEF OffsetPasses, PlacesInv, Handling
  <2> QED BY <1>2, <1>3, <2>1, <2>2, <2>5, <2>6, LoopDraws
<1> QED BY <1>4, <1>5 DEF Receive

\* An end of the process takes what the handler knew of one update.
LEMMA ProcessEndsDraws ==
  ASSUME ChatInv, WizardInv', ProcessEnds
  PROVE  DrawsInv'
<1>1. /\ PollerInv /\ PollerInv' /\ OriginsInv /\ OffsetPasses
      /\ flows <= Cardinality(Spent) + restarts
  BY DEF ChatInv, WizardInv, DrawsInv
<1>2. /\ restarts' = restarts + 1 /\ phase' = "idle" /\ at' = "out"
      /\ UNCHANGED <<inbox, issued, settled, nextOffset, replies, flows>>
  BY DEF ProcessEnds, Restart, LeaveHandler, Rest, telegram, service, past
<1>3. OriginsInv' /\ OffsetPasses' /\ RepliedInBatch'
  BY <1>1, <1>2 DEF OriginsInv, OffsetPasses, RepliedInBatch
<1>4. Spent \subseteq Spent' \cup {Current.id}
  <2>1. \A id : Replied(id)' <=> Replied(id)
    BY <1>2 DEF Replied
  <2>2. ASSUME NEW u \in inbox, Drawn(u), u.id # Current.id PROVE Drawn(u)'
    BY <1>2, <2>1, <2>2 DEF Drawn
  <2> QED BY <1>2, <2>2 DEF Spent
<1>5. Cardinality(Spent) <= Cardinality(Spent') + 1 /\ Cardinality(Spent) \in Nat /\ Cardinality(Spent') \in Nat
  <2>1. Spent' \subseteq 1..MaxId
    BY <1>1 DEF Spent, PollerInv, Typed, PollerTypeOK
  <2>2. IsFiniteSet(Spent') /\ Cardinality(Spent') \in Nat
    BY <2>1, FewIds
  <2>3. /\ IsFiniteSet(Spent' \cup {Current.id})
        /\ Cardinality(Spent' \cup {Current.id}) \in {Cardinality(Spent'), Cardinality(Spent') + 1}
    BY <2>2, FS_AddElement
  <2>4. Cardinality(Spent) <= Cardinality(Spent' \cup {Current.id})
    BY <1>4, <2>3, FS_Subset
  <2>5. Cardinality(Spent) \in Nat
    BY <1>1, SpentIsFinite
  <2> QED BY <2>2, <2>3, <2>4, <2>5
<1>6. flows' <= Cardinality(Spent') + restarts'
  <2> DEFINE a == Cardinality(Spent)
             b == Cardinality(Spent')
  <2>1. restarts \in Nat /\ flows \in Nat
    BY <1>1, PollerAssumption DEF PollerInv, Typed, PollerTypeOK, ChatInv, WizardInv, FlowsInv
  <2>2. a <= b + 1 /\ a \in Nat /\ b \in Nat /\ flows <= a + restarts
    BY <1>1, <1>5
  <2> HIDE DEF a, b
  <2>3. flows <= b + (restarts + 1)
    BY <2>1, <2>2
  <2> QED BY <1>2, <2>3 DEF b
<1> QED BY <1>3, <1>6 DEF DrawsInv

LEMMA UsersDraw ==
  ASSUME ChatInv, WizardInv', UserActs
  PROVE  DrawsInv'
<1>1. /\ PollerInv /\ PollerInv' /\ OriginsInv /\ OffsetPasses /\ RepliedInBatch
      /\ PlacesInv /\ flows <= Cardinality(Spent) + restarts
  BY DEF ChatInv, WizardInv, DrawsInv
<1>2. PICK id \in 1..MaxId : \E body : Arrive(id, body)
  BY DEF UserActs
<1>3. PICK body : Arrive(id, body)
  BY <1>2
<1>4. PICK new : /\ new = Update(Cardinality(issued) + 1, id, body)
                 /\ inbox' = inbox \cup {new}
  BY <1>3 DEF Arrive
<1>5. /\ new.serial = Cardinality(issued) + 1 /\ new.id = id
      /\ id \notin issued /\ issued' = issued \cup {id}
      /\ UNCHANGED <<today, phase, batch, settled, restarts, nextOffset>>
  BY <1>3, <1>4 DEF Arrive, Update, loop, past, service
<1>6. UNCHANGED <<replies, flows, at>>
  BY DEF UserActs, chatVars, tables, handler
<1>7. \A i : Replied(i)' <=> Replied(i)
  BY <1>6 DEF Replied
<1>8. /\ Cardinality(issued) \in Nat
      /\ \A u \in inbox : u.serial \in Nat /\ u.serial <= Cardinality(issued) /\ u.id \in issued
      /\ settled \subseteq 1..Cardinality(issued)
  BY <1>1, Numbers DEF PollerInv, Numbered
<1>9. ~Replied(id)
  BY <1>1, <1>5 DEF OriginsInv, Replied
<1>10. OriginsInv'
  <2>1. \A r \in replies : r.update \in issued' /\ r.update # id
    BY <1>1, <1>5 DEF OriginsInv
  <2>2. ASSUME NEW u \in inbox PROVE ~(new.serial < u.serial)
    BY <1>5, <1>8
  <2>3. ASSUME NEW r \in replies, NEW u \in inbox', r.update = u.id
        PROVE  /\ u.day <= r.offers.saved
               /\ r.processed => u.serial \in settled
               /\ \A v \in inbox' : v.serial < u.serial => v.serial \in settled
    <3>1. u \in inbox
      BY <1>4, <1>5, <2>1, <2>3
    <3> QED BY <1>1, <1>4, <2>2, <2>3, <3>1 DEF OriginsInv
  <2>4. settled' = settled /\ replies' = replies
    BY <1>5, <1>6
  <2> QED BY <2>1, <2>3, <2>4 DEF OriginsInv
<1>11. new.serial \notin settled
  BY <1>5, <1>8
<1>12. OffsetPasses'
  BY <1>1, <1>4, <1>5, <1>11 DEF OffsetPasses
<1>13. RepliedInBatch'
  BY <1>1, <1>4, <1>5, <1>7, <1>9 DEF RepliedInBatch
<1>14. Current' = Current
  BY <1>5 DEF Current, Head
<1>15. \A u \in inbox : Drawn(u) => Drawn(u)'
  BY <1>5, <1>6, <1>7, <1>14 DEF Drawn
<1>16. \A u \in inbox' : u \notin inbox => u.id \notin issued
  BY <1>4, <1>5
<1>17. Cardinality(Spent) <= Cardinality(Spent') /\ Cardinality(Spent) \in Nat /\ Cardinality(Spent') \in Nat
  <2>1. issued \subseteq issued'
    BY <1>5
  <2>2. Cardinality(Spent) <= Cardinality(Spent')
    BY <1>1, <1>15, <1>16, <2>1, SpentGrows
  <2>3. Spent' \subseteq 1..MaxId
    BY <1>1 DEF Spent, PollerInv, Typed, PollerTypeOK
  <2> QED BY <1>1, <2>2, <2>3, FewIds, SpentIsFinite
<1>18. flows' <= Cardinality(Spent') + restarts'
  <2> DEFINE a == Cardinality(Spent)
             b == Cardinality(Spent')
  <2>1. restarts \in Nat /\ flows \in Nat
    BY <1>1, PollerAssumption DEF PollerInv, Typed, PollerTypeOK, ChatInv, WizardInv, FlowsInv
  <2>2. a <= b /\ a \in Nat /\ b \in Nat /\ flows <= a + restarts
    BY <1>1, <1>17
  <2> HIDE DEF a, b
  <2>3. flows <= b + restarts
    BY <2>1, <2>2
  <2> QED BY <1>5, <1>6, <2>3 DEF b
<1> QED BY <1>10, <1>12, <1>13, <1>18 DEF DrawsInv

LEMMA DrawsStep ==
  ASSUME ChatInv, WizardInv', [Next]_vars
  PROVE  DrawsInv'
<1>1. CASE HandlerStep
  BY <1>1, HandlerDraws, WizardDraws, AcceptedDraws, RefusedGoesDraws, EndsDraw DEF HandlerStep
<1>2. CASE FlushStep
  BY <1>2, HandlerDraws, TakesDraw DEF FlushStep
<1>3. CASE TakeNext \/ Prepare \/ Receive \/ ProcessEnds
  BY <1>3, TakesDraw, PrepareDraws, ReceiveDraws, ProcessEndsDraws
<1>4. CASE UserActs \/ TimePasses \/ Midnight \/ MiniAppActs
  BY <1>4, UsersDraw, TakesDraw, HandlerDraws
<1>5. CASE UNCHANGED vars
  BY <1>5, StillDraws DEF vars, chatVars, tables, handler
<1> QED BY <1>1, <1>2, <1>3, <1>4, <1>5 DEF Next

LEMMA DrawsInit == Init => DrawsInv
<1> SUFFICES ASSUME Init PROVE DrawsInv
  OBVIOUS
<1>1. /\ replies = {} /\ inbox = {} /\ issued = {} /\ flows = 0 /\ restarts = 0
  BY DEF Init, PollerInit
<1>2. Cardinality(Spent) = 0
  <2>1. Spent = {}
    BY <1>1 DEF Spent
  <2> QED BY <2>1, FS_EmptySet
<1> QED BY <1>1, <1>2 DEF DrawsInv, OriginsInv, OffsetPasses, RepliedInBatch

\* The wizard draws at most one flow for an update, and one more for an end of the process.
THEOREM FlowsAreBounded == Spec => []ChatInv
<1>1. ChatInv /\ [Next]_vars => ChatInv'
  BY WizardStepInv, DrawsStep DEF ChatInv
<1>2. Init => ChatInv
  BY WizardInitInv, DrawsInit DEF ChatInv
<1> QED BY <1>1, <1>2, PTL DEF Spec

\* The types of the wizard's rows and memory, with that bound on the flow IDs.
THEOREM ChatTypesHold == Spec => []ChatTypeOK
<1>1. ASSUME ChatInv PROVE ChatTypeOK
  <2>1. /\ PollerInv /\ PlacesInv /\ FlowsInv /\ HeldInv /\ RepliesInv
        /\ flows <= Cardinality(Spent) + restarts
    BY <1>1 DEF ChatInv, WizardInv, DrawsInv
  <2>2. /\ PollerTypeOK /\ today \in 1..MaxDays /\ restarts \in 0..MaxRestarts
    BY <2>1 DEF PollerInv, Typed, PollerTypeOK
  <2>3. flows \in 0..MaxUpdates + MaxRestarts
    <3> DEFINE a == Cardinality(Spent)
               b == Cardinality(issued)
    <3>1. a \in Nat /\ b \in Nat /\ a <= b /\ b <= MaxUpdates /\ flows \in Nat /\ flows <= a + restarts
      BY <2>1, SpentIsFinite, Numbers DEF FlowsInv
    <3> HIDE DEF a, b
    <3> QED BY <2>2, <3>1, PollerAssumption
  <2>4. ASSUME NEW s \in SessionRow, s.flow <= flows, s.saved <= today
        PROVE  s \in Sessions
    <3>1. s.flow \in 1..MaxUpdates + MaxRestarts
      <4>1. s.flow \in Nat \ {0}
        BY DEF SessionRow
      <4> QED BY <2>3, <2>4, <4>1, PollerAssumption
    <3>2. s.saved \in 1..MaxDays
      <4>1. s.saved \in Nat \ {0}
        BY DEF SessionRow
      <4> QED BY <2>2, <2>4, <4>1, PollerAssumption
    <3> QED BY <3>1, <3>2 DEF Sessions, SessionRow
  <2>5. ASSUME NEW u \in Users, NEW s \in Known(u) PROVE s \in Sessions
    <3>1. s \in SessionRow
      BY <2>1, KnownTyped
    <3> QED BY <2>1, <2>4, <3>1 DEF FlowsInv
  <2>6. session \in [Users -> Sessions \cup {NoSession}]
    BY <2>1, <2>5 DEF FlowsInv, Known
  <2>7. seen \in [Users -> SUBSET Sessions]
    BY <2>1, <2>5 DEF FlowsInv, Known
  <2>8. replies \subseteq Replies
    <3> SUFFICES ASSUME NEW r \in replies PROVE r \in Replies
      OBVIOUS
    <3>1. r \in ReplyRow
      BY <2>1 DEF RepliesInv
    <3>2. r.offers \in Sessions
      BY <2>5, <3>1 DEF ReplyRow, Known
    <3> QED BY <3>1, <3>2 DEF ReplyRow, Replies
  <2>9. held \in Sessions \cup {NoSession}
    BY <2>1, <2>4 DEF HeldInv
  <2>10. /\ bank \in [Users -> Amounts \cup {NoBank}] /\ utcDay \in 0..MaxMidnights
         /\ at \in Places /\ after \in Places /\ target \in 0..MaxId /\ queue \subseteq 1..MaxId
    BY <2>1 DEF FlowsInv, PlacesInv
  <2> QED BY <2>2, <2>3, <2>6, <2>7, <2>8, <2>9, <2>10 DEF ChatTypeOK
<1> QED BY <1>1, FlowsAreBounded, PTL
=============================================================================
