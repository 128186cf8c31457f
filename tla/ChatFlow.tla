------------------------------- MODULE ChatFlow -------------------------------
(***************************************************************************)
(* The chat wizard of the bot (BankChatFlow of bot/bank-flow.ts, entered   *)
(* from OnboardingEngine.handleUpdate) as the handler of UpdatePoller: the *)
(* rows of conversation_sessions and conversation_replies it keeps, the    *)
(* messages it sends and the commands it gives to the bank.                *)
(*                                                                         *)
(* The server ledger is active and users are past the onboarding.  The     *)
(* steps of a wizard that ask for input are one kind, "draft"; its lists   *)
(* and dashboards are "menu".  Which wizard a session belongs to is left   *)
(* out: a step may be that of any wizard with such a step.  What a review  *)
(* shows of the bank is one value, and what a command does to it is free   *)
(* (see BankAuthority).                                                    *)
(* Between two awaits the handler is one step: the process has one thread. *)
(* It is several steps where it writes in several transactions.            *)
(***************************************************************************)
EXTENDS UpdatePoller

CONSTANTS
  Users,        \* canonical Telegram IDs
  Amounts,      \* what a review can show of the bank: balance, status, backfill
  FlowTTLDays,  \* FLOW_TTL_MS, 24 hours
  NoBank,       \* nothing was imported yet
  NoSession,    \* the user has no row in conversation_sessions
  NoPreview,    \* a session without previewed values
  NoDay,        \* the day of a preview that does not bind it
  Kinds,        \* bound: the kinds of requests users make, by their order
  MaxMidnights  \* bound: midnights (UTC) that pass

\* What a review binds, and a row of conversation_sessions.
PreviewTypes == [amount : Amounts, day : (0..MaxMidnights) \cup {NoDay}] \cup {NoPreview}
SessionRow ==
  [flow : Nat \ {0}, step : {"menu", "draft", "review"}, preview : PreviewTypes, saved : Nat \ {0}]

\* A session lives no longer than Telegram keeps an update: both for 24 hours.
ASSUME ChatFlowAssumption ==
  /\ NoSession \notin SessionRow /\ NoBank \notin Amounts
  /\ FlowTTLDays \in Nat \ {0} /\ FlowTTLDays <= RetentionDays
  /\ MaxMidnights \in Nat

VARIABLES
  bank,      \* what a review would show now, by user
  utcDay,    \* the UTC day
  session,   \* conversation_sessions
  replies,   \* conversation_replies
  flows,     \* flow IDs drawn so far
  at,        \* where the handler is
  target,    \* update whose reply is being sent, 0 for none
  after,     \* where the handler goes on after that
  queue,     \* replies listed by the running flush, not yet tried
  held,      \* session read before answerCallbackQuery was awaited
  seen,      \* Telegram side: the wizard messages in each chat
  executed   \* bank_operations that came from the chat, with what was shown

tables  == <<session, replies>>
handler == <<at, target, after, queue, held>>
chatVars == <<bank, utcDay, tables, flows, handler, seen, executed>>
vars == <<pollerVars, chatVars>>

Places ==
  {"out", "start", "enter", "answered", "plain", "send", "refused", "committed",
   "done", "flush"}

Session(flow, step, preview) ==
  [flow |-> flow, step |-> step, preview |-> preview, saved |-> today]

\* A reply row carries the message of the session it was committed with.
Reply(u, s) ==
  [update |-> u.id, user |-> u.body.user, status |-> "pending",
   processed |-> FALSE, offers |-> s]

Live(s) == s # NoSession /\ today - s.saved < FlowTTLDays

\* What a review binds: those of accounts do not bind the UTC day.
AccountPreview(user) == [amount |-> bank[user], day |-> NoDay]
DatedPreview(user) == [amount |-> bank[user], day |-> utcDay]

Handling == phase = "handling"
Current == Head(batch)
CurrentUser == Current.body.user

ReplyTo(id) == {r \in replies : r.update = id}
PendingOf(user) == {r \in replies : r.user = user /\ r.status = "pending"}

-----------------------------------------------------------------------------
(* Pieces of the handler.                                                  *)

GoOn(place) ==
  /\ at' = place
  /\ UNCHANGED <<target, after, queue>>

StartSending(id, place) ==
  /\ at' = "send"
  /\ target' = id
  /\ after' = place
  /\ UNCHANGED queue

\* #send with a pending session: the session and its reply are committed together
\* (upsertConversationSessionWithReply), then the reply is sent.
Offer(s) ==
  /\ session' = [session EXCEPT ![CurrentUser] = s]
  /\ replies' = replies \cup {Reply(Current, s)}
  /\ StartSending(Current.id, "done")
  /\ UNCHANGED seen

\* A step that keeps the flow ID, and one that draws a new one.
Continue(flow, step) ==
  /\ Offer(Session(flow, step, NoPreview))
  /\ UNCHANGED flows

\* Mutant: the session and its reply each draw a flow ID.
StartFlowTwice(step) ==
  /\ flows' = flows + 2
  /\ Offer(Session(flows', step, NoPreview))

StartFlow(step) ==
  /\ flows' = flows + 1
  /\ Offer(Session(flows', step, NoPreview))

\* Mutant: a review keeps the flow ID of its draft.
OfferReviewSameFlow(s, previews) ==
  \E preview \in previews :
    /\ Offer(Session(s.flow, "review", preview))
    /\ UNCHANGED flows

\* #replaceFlowSession: a review gets a flow ID of its own whatever the preview says.
OfferReview(s, previews) ==
  \E preview \in previews :
    /\ flows' = flows + 1
    /\ Offer(Session(flows', "review", preview))

\* A message without a session change: an explanation, an error, "expired".
Say ==
  /\ GoOn("plain")
  /\ UNCHANGED <<session, replies, flows, seen>>

-----------------------------------------------------------------------------
(* The wizards.  What a flow shows first keeps the flow ID of the wizard   *)
(* it is opened from (0 for none).                                         *)

Open(flow, step) == IF flow = 0 THEN StartFlow(step) ELSE Continue(flow, step)

SendDashboard == StartFlow("menu")
StartTransaction(flow) == Open(flow, "draft")
ShowAccounts(flow) == Open(flow, "menu")
ShowRecurring(flow) == Open(flow, "menu")

\* The command is previewed on the bank as it is now: an error has no confirmation.
TransactionReview(s) == OfferReview(s, {DatedPreview(CurrentUser), NoPreview})
AccountReview(s) == OfferReview(s, {AccountPreview(CurrentUser), NoPreview})
RecurringReview(s) == OfferReview(s, {DatedPreview(CurrentUser)})

\* An answer is wrong, leads to the next question or, with the date or the changed
\* amount, to the review; a step that asks for a press leaves a text alone.
TransactionText(s) ==
  \/ Say
  \/ GoOn("done") /\ UNCHANGED <<session, replies, flows, seen>>
  \/ Continue(s.flow, "draft")
  \/ TransactionReview(s)

\* The only question of an account is its new balance.
AccountText(s) == Say \/ AccountReview(s)

\* The presses that move on; those that end in a review are PressReview.
DashboardPress(s) ==
  /\ s.step = "menu"
  /\ StartTransaction(s.flow) \/ ShowAccounts(s.flow) \/ ShowRecurring(s.flow)

\* Direction, account, cadence, date; or, from its review, the amount again.
TransactionStep(s) ==
  /\ s.step \in {"draft", "review"}
  /\ Continue(s.flow, "draft")

\* An account is chosen, its new balance or the currency of a new one is asked for.
AccountsStep(s) ==
  /\ s.step = "menu"
  /\ \E step \in {"menu", "draft"} : Continue(s.flow, step)

\* A rule is chosen; "ma" starts the account list as a new flow.
RecurringStep(s) ==
  /\ s.step = "menu"
  /\ StartTransaction(s.flow) \/ Continue(s.flow, "menu") \/ ShowAccounts(0)

-----------------------------------------------------------------------------
(* The handler: resumeConversationReply.                                   *)

\* Mutant: only a reply to the very same update is resumed.
ResumeExactOnly ==
  LET exact == ReplyTo(Current.id)
  IN  /\ Handling /\ at = "start"
      /\ \/ \E r \in exact :
              \/ r.status = "delivered" /\ GoOn("done")
              \/ r.status = "pending" /\ StartSending(r.update, "done")
         \/ exact = {} /\ GoOn("enter")
      /\ UNCHANGED <<pollerVars, bank, utcDay, tables, flows, held, seen, executed>>

\* A reply to this update was committed by an earlier attempt: it is sent, unless
\* it was delivered, and the update is done.  Otherwise a reply that is pending for
\* the user is sent before the update is looked at.
Resume ==
  LET exact   == ReplyTo(Current.id)
      pending == PendingOf(CurrentUser)
  IN  /\ Handling /\ at = "start"
      /\ \/ \E r \in exact :
              \/ r.status = "delivered" /\ GoOn("done")
              \/ r.status = "pending" /\ StartSending(r.update, "done")
         \/ exact = {} /\ \E r \in pending : StartSending(r.update, "enter")
         \/ exact = {} /\ pending = {} /\ GoOn("enter")
      /\ UNCHANGED <<pollerVars, bank, utcDay, tables, flows, held, seen, executed>>

-----------------------------------------------------------------------------
(* The handler: commands, texts and presses.                               *)

Enter(kind) == Handling /\ at = "enter" /\ Current.body.kind = kind

\* /start, /add, /accounts, /recurring, /cancel: the wizard is reset, then a new one
\* is offered; only a message is sent if there is no bank, or no account to use.
HandleCommand ==
  /\ Enter("command")
  /\ \/ /\ session' = [session EXCEPT ![CurrentUser] = NoSession]
        /\ GoOn("plain")
        /\ UNCHANGED <<replies, flows, seen>>
     \/ /\ bank[CurrentUser] # NoBank
        /\ StartTransaction(0) \/ ShowAccounts(0) \/ ShowRecurring(0) \/ SendDashboard
  /\ UNCHANGED <<pollerVars, bank, utcDay, held, executed>>

\* handleMessage: an expired session is deleted and said to be; a text answers the
\* question of the current draft, whatever message the user had in mind.
HandleText ==
  LET s == session[CurrentUser]
  IN  /\ Enter("text")
      /\ \/ /\ ~Live(s)
            /\ session' = [session EXCEPT ![CurrentUser] = NoSession]
            /\ GoOn(IF s = NoSession THEN "done" ELSE "plain")
            /\ UNCHANGED <<replies, flows, seen>>
         \/ /\ Live(s) /\ s.step # "draft"
            /\ GoOn("done")
            /\ UNCHANGED <<session, replies, flows, seen>>
         \/ /\ Live(s) /\ s.step = "draft"
            /\ TransactionText(s) \/ AccountText(s)
      /\ UNCHANGED <<pollerVars, bank, utcDay, held, executed>>

Presses == {"back", "next", "review", "confirm"}

PressMatches(s) == Live(s) /\ s.flow = Current.body.flow

\* handleCallback up to its await: the session is read, an expired one deleted, and
\* the press is answered; one of another flow is told that it is stale.
HandlePress ==
  LET s == session[CurrentUser]
  IN  /\ \E kind \in Presses : Enter(kind)
      /\ session' = [session EXCEPT ![CurrentUser] = IF Live(s) THEN s ELSE NoSession]
      /\ IF PressMatches(s)
         THEN /\ held' = s
              /\ GoOn("answered")
         ELSE /\ GoOn("plain")
              /\ UNCHANGED held
      /\ UNCHANGED <<pollerVars, bank, utcDay, replies, flows, seen, executed>>

Answered(kind) == Handling /\ at = "answered" /\ Current.body.kind = kind

\* "bk": the session is deleted and the dashboard is a new flow.
PressBack ==
  /\ Answered("back")
  /\ SendDashboard
  /\ held' = NoSession
  /\ UNCHANGED <<pollerVars, bank, utcDay, executed>>

\* A step of one of the four wizards; a button of another step is stale.
PressNext ==
  /\ Answered("next")
  /\ \/ Say
     \/ DashboardPress(held) \/ TransactionStep(held)
     \/ AccountsStep(held) \/ RecurringStep(held)
  /\ held' = NoSession
  /\ UNCHANGED <<pollerVars, bank, utcDay, executed>>

\* The last step before a review: of a transaction, an account or a rule.
PressReview ==
  /\ Answered("review")
  /\ \/ Say
     \/ held.step = "draft" /\ TransactionReview(held)
     \/ held.step # "review" /\ AccountReview(held)
     \/ held.step = "menu" /\ RecurringReview(held)
  /\ held' = NoSession
  /\ UNCHANGED <<pollerVars, bank, utcDay, executed>>

\* A command is executed on the bank as it was just read, unless the UTC day has turned
\* since: it reads the clock itself and materializes what the new day makes due.
ExecutedOn(user, read, day) == IF day = read THEN {bank[user]} ELSE Amounts

\* An operation on a bank of this amount, on this day, checked on the day that was read.
Operation(amount, read, day, verdict) ==
  [update |-> Current.id, serial |-> Current.serial, user |-> CurrentUser,
   flow |-> held.flow, verdict |-> verdict, shown |-> Current.body.shown,
   amount |-> amount, read |-> read, day |-> day]

\* #isExactTelegramCommand: the bank has an operation of this update.
Recorded == {o \in executed : o.update = Current.id /\ o.user = CurrentUser}

\* The bank or the day is not what the review showed.
Drifted == held.preview \notin {AccountPreview(CurrentUser), DatedPreview(CurrentUser)}

BindsDay(s) == s.preview # NoPreview /\ s.preview.day # NoDay

\* A new review of what is there now.
TransactionChanged == Drifted /\ TransactionReview(held)

\* The same, and after a preview that fails.
AccountChanged == AccountReview(held)

\* The list again; or, after a preview that fails, its error: a review with a new flow
\* ID and nothing to confirm.
RecurringChanged ==
  \/ Drifted /\ ShowRecurring(0)
  \/ ~Drifted /\ OfferReview(held, {NoPreview})

\* "cf" of an update that the bank has recorded: an earlier attempt committed it.
\* The bank answers from its memory; a refusal it recorded is told by its notice,
\* or again when that was delivered.
ConfirmAgain ==
  /\ Answered("confirm") /\ held.step = "review"
  /\ \E o \in Recorded :
       IF o.verdict = "rejected"
       THEN GoOn("done") \/ GoOn("plain")
       ELSE GoOn("committed")
  /\ UNCHANGED <<pollerVars, bank, utcDay, tables, flows, held, seen, executed>>

\* "cf" that is not executed: the wizard is at another step, the preview fails or
\* differs from what was shown, the rate limiter or the bank refuses.
ConfirmRefused ==
  /\ Answered("confirm")
  /\ Recorded = {}
  /\ \/ Say
     \/ /\ held.step = "review"
        /\ IF BindsDay(held) THEN TransactionChanged \/ RecurringChanged ELSE AccountChanged
  /\ held' = NoSession
  /\ UNCHANGED <<pollerVars, bank, utcDay, executed>>

\* "cf" that is executed: the bank commits the operation with its notice.  The
\* check and the command read the clock one after the other.  A command that is
\* rejected leaves the bank as it was, what the new day made due included.
ConfirmExecutes ==
  LET user == CurrentUser
  IN  /\ Answered("confirm") /\ held.step = "review"
      /\ Recorded = {}
      /\ held.preview # NoPreview
      /\ ~Drifted
      /\ utcDay' \in {utcDay} \cup IF utcDay < MaxMidnights THEN {utcDay + 1} ELSE {}
      /\ \E verdict \in {"applied", "unchanged", "rejected"},
            due \in ExecutedOn(user, utcDay, utcDay'), amount \in Amounts :
           /\ verdict = "rejected" => amount = bank[user]
           /\ verdict = "unchanged" => amount = due
           /\ bank' = [bank EXCEPT ![user] = amount]
           /\ executed' = executed \cup {Operation(due, utcDay, utcDay', verdict)}
           /\ GoOn(IF verdict = "rejected" THEN "done" ELSE "committed")
      /\ UNCHANGED <<pollerVars, tables, flows, held, seen>>

\* Mutant: the session survives its execution.
DeleteSessionNot ==
  /\ Handling /\ at = "committed"
  /\ GoOn("done")
  /\ held' = NoSession
  /\ UNCHANGED <<pollerVars, bank, utcDay, tables, flows, seen, executed>>

\* A transaction of its own deletes the session of the flow, then the notices are
\* flushed.
DeleteSession ==
  /\ Handling /\ at = "committed"
  /\ session' = [session EXCEPT ![CurrentUser] =
                  IF @ # NoSession /\ @.flow = held.flow THEN NoSession ELSE @]
  /\ GoOn("done")
  /\ held' = NoSession
  /\ UNCHANGED <<pollerVars, bank, utcDay, replies, flows, seen, executed>>

-----------------------------------------------------------------------------
(* Sending replies: #attemptConversationReply, from the handler and from the *)
(* flush after a batch.                                                      *)

Shown(r) == seen' = [seen EXCEPT ![r.user] = @ \cup {r.offers}]

\* markConversationReplyDelivered: the row goes when its update was processed.
Delivered(r) ==
  IF r.processed THEN replies \ {r}
  ELSE (replies \ {r}) \cup {[r EXCEPT !.status = "delivered"]}

SendAccepted ==
  /\ at = "send"
  /\ \E r \in ReplyTo(target) :
       /\ Shown(r)
       /\ replies' = Delivered(r)
  /\ at' = after
  /\ target' = 0
  /\ UNCHANGED <<pollerVars, bank, utcDay, session, flows, after, queue, held, executed>>

\* Telegram refuses the message for good: the session is reset, then the reply is
\* deleted.
SendRefused ==
  /\ at = "send"
  /\ \E r \in ReplyTo(target) : session' = [session EXCEPT ![r.user] = NoSession]
  /\ GoOn("refused")
  /\ UNCHANGED <<pollerVars, bank, utcDay, replies, flows, held, seen, executed>>

DeleteRefused ==
  /\ at = "refused"
  /\ replies' = replies \ ReplyTo(target)
  /\ at' = after
  /\ target' = 0
  /\ UNCHANGED <<pollerVars, bank, utcDay, session, flows, after, queue, held, seen, executed>>

\* The message or Telegram's answer is lost.
SendLost ==
  /\ at = "send"
  /\ \E r \in ReplyTo(target) : Shown(r) \/ UNCHANGED seen

\* In the flush a failure is logged, the reply stays pending.
FlushSendFails ==
  /\ SendLost
  /\ phase = "flushing"
  /\ GoOn("flush")
  /\ UNCHANGED <<pollerVars, bank, utcDay, tables, flows, held, executed>>

\* A message without a reply row was sent.
PlainSent ==
  /\ Handling /\ at = "plain"
  /\ GoOn("done")
  /\ UNCHANGED <<pollerVars, bank, utcDay, tables, flows, held, seen, executed>>

-----------------------------------------------------------------------------
(* The loop around the handler.                                            *)

\* Mutant: every reply to a processed update is deleted.
ReceiptsDropped(u) == {r \in replies : r.update # u.id}

\* markProcessed: replies to the update are marked, delivered ones deleted.
ReceiptsProcessed(u) ==
  {IF r.update = u.id THEN [r EXCEPT !.processed = TRUE] ELSE r :
     r \in {q \in replies : ~(q.update = u.id /\ q.status = "delivered")}}

Rest == UNCHANGED <<bank, flows, utcDay, executed>>

LeaveHandler ==
  /\ at' = "out" /\ target' = 0 /\ after' = "out" /\ queue' = {}
  /\ held' = NoSession

HandlerEnds ==
  /\ at = "done"
  /\ HandlerReturns
  /\ replies' = ReceiptsProcessed(Current)
  /\ LeaveHandler
  /\ Rest /\ UNCHANGED <<session, seen>>

\* The handler throws what its send threw, what the bank threw, or Telegram's refusal
\* to set the menu button after a command.
HandlerThrows ==
  /\ \/ at = "send" /\ SendLost /\ HandlerFails("transient")
     \/ /\ at = "plain"
        /\ \E kind \in {"transient", "terminal"} : HandlerFails(kind)
        /\ UNCHANGED seen
     \/ /\ at \in {"enter", "answered"}
        /\ HandlerFails("transient")
        /\ UNCHANGED seen
     \/ /\ at = "done" /\ Current.body.kind = "command"
        /\ HandlerFails("terminal")
        /\ UNCHANGED seen
  /\ replies' = IF settled' = settled THEN replies ELSE ReceiptsProcessed(Current)
  /\ LeaveHandler
  /\ Rest /\ UNCHANGED session

\* An update is taken from the batch, a batch is done.
TakeNext ==
  /\ TakeUpdate
  /\ at' = IF phase' = "handling" THEN "start" ELSE at
  /\ Rest /\ UNCHANGED <<target, after, queue, held, session, replies, seen>>

\* preparePolling also prunes delivered replies that are six days old.
Prepare ==
  /\ PreparePolling
  /\ replies' = {r \in replies : ~(/\ r.status = "delivered"
                                   /\ today - r.offers.saved >= ResetAfterDays)}
  /\ Rest /\ UNCHANGED <<session, handler, seen>>

Receive ==
  /\ PollFails \/ \E updates \in SUBSET inbox : ReceiveUpdates(updates)
  /\ UNCHANGED chatVars

\* Mutant: the flush leaves out the replies to updates that were processed.
DueRepliesUnprocessed ==
  {r.update : r \in {q \in replies : q.status = "pending" /\ ~q.processed}}

\* listPendingConversationReplies
DueReplies == {r.update : r \in {q \in replies : q.status = "pending"}}

\* flushConversationReplies: every reply that is pending is tried once.
FlushBegins ==
  /\ BeginFlush
  /\ at' = "flush"
  /\ queue' = DueReplies
  /\ Rest /\ UNCHANGED <<target, after, held, session, replies, seen>>

FlushNext ==
  /\ at = "flush"
  /\ \E id \in queue :
       /\ at' = "send" /\ target' = id /\ after' = "flush"
       /\ queue' = queue \ {id}
  /\ Rest /\ UNCHANGED <<pollerVars, held, session, replies, seen>>

FlushEnds ==
  /\ at = "flush" /\ queue = {}
  /\ EndFlush
  /\ LeaveHandler
  /\ Rest /\ UNCHANGED <<session, replies, seen>>

ProcessEnds ==
  /\ Restart
  /\ LeaveHandler
  /\ Rest /\ UNCHANGED <<session, replies, seen>>

-----------------------------------------------------------------------------
(* The world outside.                                                      *)

\* The buttons under a wizard message.
Buttons(s) ==
  {"back", "next"} \cup
  (IF s.step # "review" THEN {"review"}
   ELSE IF s.preview # NoPreview THEN {"confirm"} ELSE {})

Requests(user) ==
  [user : {user}, kind : {"command", "text"}, flow : {0}, shown : {NoPreview}] \cup
  UNION {[user : {user}, kind : Buttons(s), flow : {s.flow}, shown : {s.preview}] :
           s \in seen[user]}

\* A user writes, or presses a button of any message of the chat, old ones included.
UserActs ==
  /\ Cardinality(issued) < MaxUpdates
  /\ \E user \in Users : \E body \in Requests(user), id \in 1..MaxId :
       body.kind \in Kinds[Cardinality(issued) + 1] /\ Arrive(id, body)
  /\ UNCHANGED chatVars

TimePasses ==
  /\ NextDay \/ \E u \in inbox : Forget(u)
  /\ UNCHANGED chatVars

Midnight ==
  /\ utcDay < MaxMidnights
  /\ utcDay' = utcDay + 1
  /\ UNCHANGED <<pollerVars, bank, tables, flows, handler, seen, executed>>

\* The Mini App imports a bank or changes it, while the handler awaits or is out.
MiniAppActs ==
  /\ at \notin {"committed", "refused"}
  /\ \E user \in Users, amount \in Amounts :
       /\ amount # bank[user]
       /\ bank' = [bank EXCEPT ![user] = amount]
  /\ UNCHANGED <<pollerVars, utcDay, tables, flows, handler, seen, executed>>

-----------------------------------------------------------------------------
Init ==
  /\ PollerInit
  /\ bank = [u \in Users |-> NoBank]
  /\ utcDay = 0
  /\ session = [u \in Users |-> NoSession]
  /\ replies = {}
  /\ flows = 0
  /\ at = "out" /\ target = 0 /\ after = "out" /\ queue = {}
  /\ held = NoSession
  /\ seen = [u \in Users |-> {}]
  /\ executed = {}

HandlerStep ==
  \/ Resume
  \/ HandleCommand \/ HandleText \/ HandlePress
  \/ PressBack \/ PressNext \/ PressReview
  \/ ConfirmAgain \/ ConfirmRefused \/ ConfirmExecutes
  \/ DeleteSession
  \/ SendAccepted \/ SendRefused \/ DeleteRefused
  \/ PlainSent
  \/ HandlerEnds \/ HandlerThrows

FlushStep == FlushBegins \/ FlushNext \/ FlushSendFails \/ FlushEnds

Next ==
  \/ HandlerStep
  \/ FlushStep
  \/ TakeNext \/ Prepare \/ Receive
  \/ ProcessEnds
  \/ UserActs \/ TimePasses \/ Midnight \/ MiniAppActs

Spec == Init /\ [][Next]_vars

-----------------------------------------------------------------------------
(* What the wizard promises.                                               *)

Sessions ==
  [flow : 1..MaxUpdates + MaxRestarts, step : {"menu", "draft", "review"}, preview : PreviewTypes,
   saved : 1..MaxDays]
Replies ==
  [update : 1..MaxId, user : Users, status : {"pending", "delivered"},
   processed : BOOLEAN, offers : Sessions]

\* The type of the variables of the poller and the chat.  A flow ID is drawn once for
\* an update, and again only after a crash.
ChatTypeOK ==
  /\ PollerTypeOK
  /\ bank \in [Users -> Amounts \cup {NoBank}]
  /\ utcDay \in 0..MaxMidnights
  /\ session \in [Users -> Sessions \cup {NoSession}]
  /\ replies \subseteq Replies
  /\ flows \in 0..MaxUpdates + MaxRestarts
  /\ at \in Places /\ after \in Places
  /\ target \in 0..MaxId /\ queue \subseteq 1..MaxId
  /\ held \in Sessions \cup {NoSession}
  /\ seen \in [Users -> SUBSET Sessions]

\* A pending reply belongs to the session it was committed with, also across crashes,
\* drops and updates Telegram forgot: the cleanup after a refused message, which
\* resets whatever session the user has, resets that one.  Nor does the unique index
\* conversation_replies_one_pending_user_idx ever fire.
PendingReplyOwnsSession ==
  \A r \in replies :
    r.status = "pending" =>
      /\ session[r.user] \in {r.offers, NoSession}
      /\ PendingOf(r.user) = {r}

\* No session without its message: what a wizard asked was delivered, or its reply
\* is still there to be sent.
SessionIsPrompted ==
  \A user \in Users :
    \/ session[user] = NoSession
    \/ session[user] \in seen[user]
    \/ \E r \in PendingOf(user) : r.offers = session[user]

\* The two bits of a receipt meet: once the message is delivered and the update
\* processed, in either order, the row is gone.
ReceiptsDisappear == \A r \in replies : ~(r.status = "delivered" /\ r.processed)

\* A row of conversation_replies is there for a reason: a pending one for the session
\* of its user, a delivered one for an update that may be delivered again.
RepliesHavePurpose == PendingReplyOwnsSession /\ ReceiptsDisappear

\* A confirmation passes its check on nothing but what its own message showed, and
\* executes that: unless midnight passes between the check and the command, the bank
\* it is executed on is the one under the button that was pressed.
ConfirmedAsShown ==
  \A o \in executed :
    /\ o.shown # NoPreview /\ o.shown.day \in {o.read, NoDay}
    /\ o.day = o.read => o.shown.amount = o.amount

\* A review takes effect at most once, however often it is confirmed and wherever the
\* process dies.  A confirmation that was given up after it was committed may leave
\* its review behind.
OncePerReview ==
  \A o, p \in executed :
    /\ o.flow = p.flow /\ o # p
    /\ o.verdict # "rejected" /\ p.verdict # "rejected"
    => o.serial \in dropped \/ p.serial \in dropped

\* A review that binds the UTC day is executed on that day: another one would
\* materialize occurrences the review did not show (docs/spec.md:56-58).
ConfirmedOnShownDay == \A o \in executed : o.shown.day \in {o.day, NoDay}

\* Every reply is delivered or refused in the end: also one whose update was given
\* up or forgotten.
RepliesSettle ==
  \A id \in 1..MaxId :
    (\E r \in ReplyTo(id) : r.status = "pending") ~>
      (\A r \in ReplyTo(id) : r.status # "pending")

\* The loop runs on, and Telegram does not lose the same message for ever.
Fairness ==
  /\ WF_vars(Prepare) /\ SF_vars(Receive /\ phase' = "ready")
  /\ WF_vars(TakeNext)
  /\ WF_vars(HandlerStep)
  /\ WF_vars(FlushStep)
  /\ \A id \in 1..MaxId : SF_vars(target = id /\ (SendAccepted \/ SendRefused))

FairSpec == Spec /\ Fairness
=============================================================================
