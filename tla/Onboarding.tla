----------------------------- MODULE Onboarding -----------------------------
(***************************************************************************)
(* The onboarding and the preferences of one user: OnboardingEngine of     *)
(* bot/onboarding.ts, the tables users and pending_replies of              *)
(* bot/repository.ts, the preference commands it gives to the bank once    *)
(* the server ledger is active, and the launches of the Mini App that read *)
(* what it wrote (bot/http-server.ts, src/app/launchPreferences.ts).       *)
(*                                                                         *)
(* The poller hands over one update at a time, again after a failure or a  *)
(* restart, until it is settled (UpdatePoller).  Between two awaits the    *)
(* handler is one step; a step of the handler is named for what it writes. *)
(* A notice of the bank is one step of the bank's outbox (BankAuthority);  *)
(* what the wizard does with commands and texts is ChatFlow's.             *)
(***************************************************************************)
EXTENDS Integers, FiniteSets, FiniteSetsExt

CONSTANTS
  Names,         \* names users write, among them the one of their Telegram profile
  TelegramName,  \* telegramDisplayName
  Currencies, Locales, DefaultCurrency, DefaultLocale,
  Requests,      \* bound: what users send, [kind, value]
  MaxAttempts,   \* MAX_UPDATE_ATTEMPTS
  NoUser, NoCard, NoBank, NoRequest,
  MaxUpdates,    \* bound: updates
  MaxCrashes,    \* bound: restarts of the process
  MaxLaunches,   \* bound: bootstrap requests of the Mini App
  MaxFaults      \* bound: messages that fail, or whose answer is lost

RequestKinds == {"start", "cancel", "wizard", "static", "text", "invalid", "language",
                 "setlanguage", "currency", "custom", "telegram", "expired"}
Request ==
  [kind : {"text"}, value : Names] \cup [kind : {"language", "setlanguage"}, value : Locales]
  \cup [kind : {"currency"}, value : Currencies]
  \cup [kind : RequestKinds \ {"text", "language", "setlanguage", "currency"}, value : {"none"}]

Stages == {"language", "currency", "custom_name", "complete"}
UserRow == [locale : Locales, currency : Currencies, name : Names, stage : Stages,
            revision : Nat \ {0}]
Owned == [name : Names, currency : Currencies]

ASSUME OnboardingAssumption ==
  /\ TelegramName \in Names
  /\ DefaultCurrency \in Currencies /\ DefaultLocale \in Locales
  /\ Requests \subseteq Request
  /\ NoUser \notin UserRow /\ NoBank \notin Owned /\ NoRequest \notin Requests
  /\ MaxAttempts \in Nat \ {0}
  /\ MaxUpdates \in Nat /\ MaxCrashes \in Nat /\ MaxLaunches \in Nat /\ MaxFaults \in Nat

VARIABLES
  mode,      \* service_state.ledger_mode
  user,      \* the row of users
  pending,   \* pending_replies, by the update they answer
  bank,      \* name and currency of the user's bank on the server
  executed,  \* bank_operations that came from the chat, by update
  device,    \* the Mini App: what it shows, and the revision it applied
  answers,   \* bootstrap answers on their way to it
  request,   \* what the update being handled asks, until it is settled
  update,    \* its update_id: how many were handed over
  attempts,  \* #updateAttempts of the poller
  at,        \* where the handler is
  card,      \* message being sent
  after,     \* where the handler goes on after that
  target,    \* pending reply being sent, 0 for none
  queue,     \* replies listed by the running flush, not yet tried; the oldest is next
  backing,   \* replies whose retry is not due (#pendingReplyRetries)
  crashes, launches, faults,   \* the bounded choices made so far
  (* History, which no step of the code reads. *)
  shown,     \* the last card with the user's profile that reached the chat
  prompted,  \* the question for a name reached the chat, and is open
  taken,     \* how often each update's text was taken as a name
  dropped    \* Telegram refused a message, or an update was given up

rows == <<mode, user, pending, bank, executed>>
app == <<device, answers, launches>>
handler == <<request, update, attempts, at, card, after, target, queue, backing>>
history == <<shown, prompted, taken, dropped>>
vars == <<rows, app, handler, crashes, faults, history>>

Places == {"idle", "enter", "send", "menu", "canonical", "returned", "reply", "flush"}
Updates == 1..MaxUpdates

Profile(p) == [kind |-> "profile", name |-> p.name, currency |-> p.currency]
Prompt == [kind |-> "prompt"]
Plain == [kind |-> "plain"]

Init ==
  /\ mode = "local" /\ user = NoUser /\ pending = {} /\ bank = NoBank /\ executed = {}
  /\ device = [revision |-> 0, locale |-> DefaultLocale, name |-> TelegramName,
               currency |-> DefaultCurrency, edited |-> {}, asked |-> FALSE]
  /\ answers = {} /\ launches = 0
  /\ request = NoRequest /\ update = 0 /\ attempts = 0 /\ at = "idle"
  /\ card = NoCard /\ after = "idle" /\ target = 0 /\ queue = {} /\ backing = {}
  /\ crashes = 0 /\ faults = 0
  /\ shown = NoCard /\ prompted = FALSE /\ taken = [k \in Updates |-> 0] /\ dropped = FALSE

-----------------------------------------------------------------------------
(* The tables. *)

Created == user = NoUser
Ensured ==
  IF Created
  THEN [locale |-> DefaultLocale, currency |-> DefaultCurrency, name |-> TelegramName,
        stage |-> "language", revision |-> 1]
  ELSE user

(* updateUser with a stage only: no preference changes, no revision is used up. *)
WithStage(u, stage) == [u EXCEPT !.stage = stage]

(* Mutant: a choice takes no revision. *)
MIntent(u) == u

(* An explicit choice takes a revision even if it repeats the current value. *)
Intent(u) == [u EXCEPT !.revision = @ + 1]

Changing(u) == u.stage = "custom_name"
Canonical == mode = "server" /\ bank # NoBank

-----------------------------------------------------------------------------
(* What the handler sends. *)

Dashboard == IF bank = NoBank THEN Plain ELSE Profile(bank)

(* #sendStart *)
StartCard(u) ==
  CASE u.stage \in {"language", "currency"} -> Plain
    [] u.stage = "custom_name" -> Prompt
    [] u.stage = "complete" /\ mode = "server" -> Dashboard
    [] OTHER -> Profile(u)

(* #sendReady *)
ReadyCard(u) == IF mode = "server" THEN Dashboard ELSE Profile(u)

Send(c, next) == at' = "send" /\ card' = c /\ after' = next

MenuOr(synced) == IF synced THEN "menu" ELSE "returned"

-----------------------------------------------------------------------------
(* The poller. *)

TakeUpdate ==
  /\ at = "idle" /\ request = NoRequest /\ update < MaxUpdates
  /\ request' \in Requests
  /\ update' = update + 1
  /\ at' = "enter"
  /\ UNCHANGED <<rows, app, attempts, card, after, target, queue, backing, crashes, faults, history>>

Settle ==
  /\ request' = NoRequest
  /\ at' = "idle"
  /\ attempts' = 0

HandlerReturns ==
  /\ at = "returned"
  /\ Settle
  /\ UNCHANGED <<rows, app, update, card, after, target, queue, backing, crashes, faults, history>>

(* The handler threw: the update comes again, or is given up. *)
Fails(terminal) ==
  /\ faults < MaxFaults
  /\ faults' = faults + 1
  /\ IF terminal \/ attempts + 1 >= MaxAttempts
     THEN Settle /\ dropped' = TRUE
     ELSE at' = "enter" /\ attempts' = attempts + 1 /\ UNCHANGED <<request, dropped>>

-----------------------------------------------------------------------------
(* handleUpdate: a pending reply of this update is all that is left to do for it. *)

Resumes == update \in pending
Handles(kinds) == at = "enter" /\ ~Resumes /\ request.kind \in kinds

(* #attemptPendingReply, for a reply whose retry is due *)
Attempt(k, next) ==
  IF k \in backing
  THEN at' = next /\ UNCHANGED <<after, target>>
  ELSE at' = "reply" /\ target' = k /\ after' = next

ResumeReply ==
  /\ at = "enter" /\ Resumes
  /\ Attempt(update, "returned")
  /\ UNCHANGED <<rows, app, request, update, attempts, card, queue, backing, crashes, faults, history>>

Rest == <<mode, app, request, update, attempts, target, queue, backing, crashes, faults>>

(* /start and /cancel leave the question for a name. *)
HandleStart ==
  /\ Handles({"start", "cancel"})
  /\ LET u == IF Changing(Ensured) THEN WithStage(Ensured, "complete") ELSE Ensured
     IN  /\ user' = u
         /\ Send(StartCard(u), MenuOr(request.kind = "start"))
  /\ prompted' = FALSE
  /\ UNCHANGED <<Rest, pending, bank, executed, shown, taken, dropped>>

(* /add, /accounts, /recurring *)
HandleWizard ==
  /\ Handles({"wizard"})
  /\ user' = Ensured
  /\ Send(IF Ensured.stage = "complete" /\ mode = "server" THEN Plain ELSE StartCard(Ensured),
          "returned")
  /\ UNCHANGED <<Rest, pending, bank, executed, history>>

(* /settings, /help, /privacy, the menus of the settings, an expired button *)
HandleStatic ==
  /\ Handles({"static", "expired"})
  /\ user' = Ensured
  /\ IF request.kind = "expired"
     THEN at' = MenuOr(Created) /\ UNCHANGED <<card, after>>
     ELSE Send(Plain, MenuOr(Created))
  /\ UNCHANGED <<Rest, pending, bank, executed, history>>

IgnoreText ==
  /\ Handles({"text", "invalid"}) /\ ~Changing(Ensured)
  /\ user' = Ensured
  /\ at' = MenuOr(Created)
  /\ UNCHANGED <<Rest, pending, bank, executed, card, after, history>>

RefuseName ==
  /\ Handles({"invalid"}) /\ Changing(Ensured)
  /\ Send(Plain, "returned")
  /\ UNCHANGED <<Rest, user, pending, bank, executed, history>>

(* applyCustomNameIntent: the name, the stage and the reply in one transaction. *)
TakeName ==
  /\ Handles({"text"}) /\ Changing(Ensured) /\ ~Canonical
  /\ user' = Intent([user EXCEPT !.name = request.value, !.stage = "complete"])
  /\ pending' = pending \cup {update}
  /\ at' = "reply" /\ target' = update /\ after' = "returned"
  /\ taken' = [taken EXCEPT ![update] = @ + 1]
  /\ prompted' = FALSE
  /\ UNCHANGED <<mode, bank, executed, app, request, update, attempts, card, queue, backing,
                 crashes, faults, shown, dropped>>

-----------------------------------------------------------------------------
(* Preferences of a user with a bank on the server are commands to it. *)

Preferring ==
  \/ request.kind = "text" /\ Changing(Ensured)
  \/ request.kind \in {"telegram", "currency"}

Preferred(b) ==
  IF request.kind = "currency" THEN [b EXCEPT !.currency = request.value]
  ELSE [b EXCEPT !.name = IF request.kind = "text" THEN request.value ELSE TelegramName]

(* Mutant: the bank forgets what the update did. *)
MReplayed == FALSE

Replayed == update \in executed

(* applyCanonicalPreference: the update's number is the operation's; it is executed once. *)
ExecuteCanonical ==
  /\ Handles({"text", "telegram", "currency"}) /\ Preferring /\ Canonical
  /\ user' = Ensured
  /\ bank' = IF Replayed THEN bank ELSE Preferred(bank)
  /\ executed' = executed \cup {update}
  /\ taken' = IF Replayed \/ request.kind # "text" THEN taken ELSE [taken EXCEPT ![update] = @ + 1]
  /\ at' = "canonical"
  /\ UNCHANGED <<Rest, pending, card, after, shown, prompted, dropped>>

(* The mutation budget is spent (Gateway): the user is told to confirm again. *)
CanonicalRefused ==
  /\ Handles({"text", "telegram", "currency"}) /\ Preferring /\ Canonical /\ ~Replayed
  /\ user' = Ensured
  /\ Send(Plain, "returned")
  /\ UNCHANGED <<Rest, pending, bank, executed, history>>

(* Mutant: the stage is left as it was. *)
MCanonicalApplied ==
  /\ at = "canonical"
  /\ at' = "returned"
  /\ prompted' = (prompted /\ request.kind = "currency")
  /\ UNCHANGED <<Rest, user, pending, bank, executed, card, after, shown, taken, dropped>>

(* After flushBankOutbox, in a transaction of its own. *)
CanonicalApplied ==
  /\ at = "canonical"
  /\ IF request.kind = "currency"
     THEN /\ user' = IF Changing(user) THEN user ELSE WithStage(user, "complete")
          /\ Send(IF Changing(user) THEN Prompt ELSE ReadyCard(user), "returned")
          /\ UNCHANGED prompted
     ELSE /\ user' = WithStage(user, "complete")
          /\ at' = "returned"
          /\ prompted' = FALSE
          /\ UNCHANGED <<card, after>>
  /\ UNCHANGED <<Rest, pending, bank, executed, shown, taken, dropped>>

-----------------------------------------------------------------------------
(* The buttons, without a bank on the server.  Each choice is applied again when its update is. *)

ChooseLanguage ==
  /\ Handles({"language", "setlanguage"})
  /\ LET u == Ensured
         kept == u.stage \in {"complete", "custom_name"}
         stage == IF kept THEN u.stage
                  ELSE IF request.kind = "language" THEN "currency" ELSE "complete"
         next == Intent([u EXCEPT !.locale = request.value, !.stage = stage])
     IN  /\ user' = next
         /\ Send(CASE Changing(next) -> Prompt
                   [] next.stage = "complete" -> ReadyCard(next)
                   [] OTHER -> Plain, "menu")
  /\ UNCHANGED <<Rest, pending, bank, executed, history>>

ChooseCurrency ==
  /\ Handles({"currency"}) /\ ~Canonical
  /\ LET u == Ensured
         next == Intent([u EXCEPT !.currency = request.value,
                                  !.stage = IF Changing(u) THEN @ ELSE "complete"])
     IN  /\ user' = next
         /\ Send(IF Changing(u) THEN Prompt ELSE Profile(next), MenuOr(Created))
  /\ UNCHANGED <<Rest, pending, bank, executed, history>>

AskForName ==
  /\ Handles({"custom"})
  /\ user' = WithStage(Ensured, "custom_name")
  /\ Send(Prompt, MenuOr(Created))
  /\ UNCHANGED <<Rest, pending, bank, executed, history>>

ChooseTelegramName ==
  /\ Handles({"telegram"}) /\ ~Canonical
  /\ LET next == Intent([Ensured EXCEPT !.name = TelegramName, !.stage = "complete"])
     IN  user' = next /\ Send(Profile(next), MenuOr(Created))
  /\ prompted' = FALSE
  /\ UNCHANGED <<Rest, pending, bank, executed, shown, taken, dropped>>

-----------------------------------------------------------------------------
(* Telegram takes a message, refuses it, fails, or takes it and its answer is lost. *)

Reaches(c) ==
  /\ shown' = IF c.kind = "profile" THEN c ELSE shown
  /\ prompted' = (c.kind = "prompt" \/ prompted)

Calling == <<rows, app, update, card, after, target, queue, backing, crashes>>

SendAccepted ==
  /\ at = "send"
  /\ Reaches(card)
  /\ at' = after
  /\ UNCHANGED <<Calling, request, attempts, faults, taken, dropped>>

SendFails(terminal) ==
  /\ at = "send"
  /\ Fails(terminal)
  /\ UNCHANGED <<Calling, shown, prompted, taken>>

SendLost ==
  /\ at = "send"
  /\ Reaches(card)
  /\ Fails(FALSE)
  /\ UNCHANGED <<Calling, taken>>

(* #syncMenuButton: done, or given up after its attempts; a refusal is thrown. *)
MenuSynced ==
  /\ at = "menu"
  /\ at' = "returned"
  /\ UNCHANGED <<Calling, request, attempts, faults, history>>

MenuRefused ==
  /\ at = "menu"
  /\ Fails(TRUE)
  /\ UNCHANGED <<Calling, shown, prompted, taken>>

-----------------------------------------------------------------------------
(* #deliverPendingReply: the summary of what the row says now. *)

Replying == <<mode, user, bank, executed, app, request, update, attempts, card, after, queue, crashes>>

Delivered ==
  /\ at' = after
  /\ pending' = pending \ {target}
  /\ backing' = backing \ {target}
  /\ target' = 0

ReplyAccepted ==
  /\ at = "reply"
  /\ Reaches(Profile(user))
  /\ Delivered
  /\ UNCHANGED <<Replying, faults, taken, dropped>>

ReplyRefused ==
  /\ at = "reply" /\ faults < MaxFaults
  /\ Delivered
  /\ faults' = faults + 1
  /\ dropped' = TRUE
  /\ UNCHANGED <<Replying, shown, prompted, taken>>

ReplyDeferred(reached) ==
  /\ at = "reply" /\ faults < MaxFaults
  /\ IF reached THEN Reaches(Profile(user)) ELSE UNCHANGED <<shown, prompted>>
  /\ at' = after
  /\ backing' = backing \cup {target}
  /\ target' = 0
  /\ faults' = faults + 1
  /\ UNCHANGED <<Replying, pending, taken, dropped>>

BackoffElapses ==
  /\ backing # {}
  /\ backing' = {}
  /\ UNCHANGED <<rows, app, request, update, attempts, at, card, after, target, queue,
                 crashes, faults, history>>

(* Mutant: the reply of the last update is not listed. *)
MFlushBegins ==
  /\ at = "idle" /\ request = NoRequest /\ pending # {}
  /\ at' = "flush"
  /\ queue' = pending \ {update}
  /\ UNCHANGED <<rows, app, request, update, attempts, card, after, target, backing,
                 crashes, faults, history>>

(* flushPendingReplies, after a batch in which no update is left over *)
FlushBegins ==
  /\ at = "idle" /\ request = NoRequest /\ pending # {}
  /\ at' = "flush"
  /\ queue' = pending
  /\ UNCHANGED <<rows, app, request, update, attempts, card, after, target, backing,
                 crashes, faults, history>>

FlushNext ==
  /\ at = "flush" /\ queue # {}
  /\ Attempt(Min(queue), "flush")
  /\ queue' = queue \ {Min(queue)}
  /\ UNCHANGED <<rows, app, request, update, attempts, card, backing, crashes, faults, history>>

FlushEnds ==
  /\ at = "flush" /\ queue = {}
  /\ at' = "idle"
  /\ UNCHANGED <<rows, app, request, update, attempts, card, after, target, queue, backing,
                 crashes, faults, history>>

(* The process ends anywhere, also on a fatal answer of Telegram; the tables stay. *)
Crash ==
  /\ crashes < MaxCrashes
  /\ crashes' = crashes + 1
  /\ at' = IF request = NoRequest THEN "idle" ELSE "enter"
  /\ attempts' = 0 /\ target' = 0 /\ queue' = {} /\ backing' = {}
  /\ card' = NoCard /\ after' = "idle"
  /\ UNCHANGED <<rows, app, request, update, faults, history>>

-----------------------------------------------------------------------------
(* The HTTP side and the Mini App, between any two steps of the handler. *)

Bot == <<handler, crashes, faults, history>>

Activate ==
  /\ mode = "local"
  /\ mode' = "server"
  /\ UNCHANGED <<user, pending, bank, executed, app, Bot>>

(* handleBootstrap *)
Bootstrap ==
  /\ launches < MaxLaunches
  /\ launches' = launches + 1
  /\ user' = Ensured
  /\ LET owner == IF Canonical THEN bank ELSE Ensured
     IN  answers' = answers \cup
           {[revision |-> Ensured.revision, locale |-> Ensured.locale,
             name |-> owner.name, currency |-> owner.currency,
             ledger |-> IF mode = "local" THEN "local" ELSE IF Canonical THEN "server" ELSE "import"]}
  /\ UNCHANGED <<mode, pending, bank, executed, device, Bot>>

(* synchronizeLaunchPreferences: a revision is applied once; a server ledger brings its own name
   and currency. *)
Adopt(a) ==
  /\ a \in answers
  /\ answers' = answers \ {a}
  /\ LET newer == a.revision > device.revision
         own == newer \/ a.ledger = "server"
     IN  device' =
           [revision |-> IF newer THEN a.revision ELSE device.revision,
            locale |-> IF newer THEN a.locale ELSE device.locale,
            name |-> IF own THEN a.name ELSE device.name,
            currency |-> IF own THEN a.currency ELSE device.currency,
            edited |-> device.edited \ IF newer THEN {"locale", "currency"}
                                       ELSE IF own THEN {"currency"} ELSE {},
            asked |-> device.asked \/ a.ledger = "import"]
  /\ UNCHANGED <<rows, launches, Bot>>

(* The settings of the Mini App; bound: one change before a newer revision.  With the server's ledger
   the currency is a command to the bank. *)
EditCurrency(currency) ==
  /\ bank = NoBank /\ ~device.asked /\ device.revision > 0
  /\ device.edited = {} /\ currency # device.currency
  /\ device' = [device EXCEPT !.currency = currency, !.edited = @ \cup {"currency"}]
  /\ UNCHANGED <<rows, answers, launches, Bot>>

EditLocale(locale) ==
  /\ device.revision > 0
  /\ device.edited = {} /\ locale # device.locale
  /\ device' = [device EXCEPT !.locale = locale, !.edited = @ \cup {"locale"}]
  /\ UNCHANGED <<rows, answers, launches, Bot>>

Import ==
  /\ device.asked /\ bank = NoBank
  /\ bank' = [name |-> device.name, currency |-> device.currency]
  /\ UNCHANGED <<mode, user, pending, executed, app, Bot>>

Quiet ==
  /\ update = MaxUpdates /\ at = "idle" /\ request = NoRequest /\ pending = {}
  /\ UNCHANGED vars

Send_ == SendAccepted \/ SendLost \/ \E t \in BOOLEAN : SendFails(t)
Reply_ == ReplyAccepted \/ ReplyRefused \/ \E r \in BOOLEAN : ReplyDeferred(r)
Enter ==
  \/ ResumeReply \/ HandleStart \/ HandleWizard \/ HandleStatic \/ IgnoreText \/ RefuseName
  \/ TakeName \/ ExecuteCanonical \/ CanonicalRefused
  \/ ChooseLanguage \/ ChooseCurrency \/ AskForName \/ ChooseTelegramName
Flush == FlushBegins \/ FlushNext \/ FlushEnds
Loop ==
  HandlerReturns \/ Enter \/ CanonicalApplied \/ Send_ \/ MenuSynced \/ MenuRefused \/ Reply_ \/ Flush
MiniApp ==
  Bootstrap \/ Import \/ (\E a \in answers : Adopt(a)) \/ (\E c \in Currencies : EditCurrency(c))
  \/ (\E l \in Locales : EditLocale(l))

Next == TakeUpdate \/ Loop \/ BackoffElapses \/ Crash \/ Activate \/ MiniApp \/ Quiet

Spec == Init /\ [][Next]_vars

(* The loop runs on, a call of Telegram ends one way or another, and a retry falls due. *)
Fairness == WF_vars(Loop) /\ WF_vars(BackoffElapses)
FairSpec == Spec /\ Fairness

-----------------------------------------------------------------------------

OnboardingTypeOK ==
  /\ mode \in {"local", "server"}
  /\ user = NoUser \/ user \in UserRow
  /\ pending \subseteq Updates /\ executed \subseteq Updates
  /\ bank = NoBank \/ (mode = "server" /\ bank \in Owned)
  /\ at \in Places /\ update \in 0..MaxUpdates /\ attempts \in 0..(MaxAttempts - 1)
  /\ (at = "reply") => target \in pending \ backing

(* However often an update is delivered, its text is taken as a name once: over both owners of the
   name, over the activation of the server ledger, a crash on either side of a message, and the
   retries of the poller (applyCustomNameIntent; applyCanonicalPreference by its operation key). *)
NameTakenOnce == \A k \in Updates : taken[k] <= 1

(* A text becomes the user's name only if the question for one reached the chat before, unless Telegram
   refused it: /start, /cancel and every way to set a name withdraw the question (#handleMessage). *)
OnlyAskedFor == [][taken' # taken => prompted \/ dropped]_vars

(* While the bot owns the name, the last card in the chat shows it, or a reply or an unsettled
   update still owes one: neither a crash nor a failed message leaves a change unanswered. *)
NameShownOrOwed ==
  (bank = NoBank /\ user # NoUser /\ shown # NoCard /\ shown.name # user.name)
    => pending # {} \/ request # NoRequest \/ dropped

(* A name the user typed is settled: taken once, then shown or still owed (#handleMessage,
   #attemptPendingReply). *)
NameIntentSettled == OnboardingTypeOK /\ NameTakenOnce /\ NameShownOrOwed

(* A revision stands for one choice: a Mini App that applied the revision of the row shows its
   language and currency unless they were changed there, and its name; the last two unless they are
   the bank's (applyPreferenceIntent; preferencesCurrent of app/launchPreferences.ts). *)
DeviceAgrees ==
  (user # NoUser /\ device.revision = user.revision) =>
    /\ "locale" \notin device.edited => device.locale = user.locale
    /\ bank = NoBank =>
         /\ device.name = user.name
         /\ "currency" \notin device.edited => device.currency = user.currency

(* Every queued summary is delivered or refused in the end (#attemptPendingReply, flushPendingReplies). *)
EveryNameAnswered == \A k \in Updates : k \in pending ~> k \notin pending
=============================================================================
