-------------------------- MODULE Onboarding_proofs --------------------------
(***************************************************************************)
(* Proofs that a name is taken once, only when it was asked for, and then  *)
(* shown or still owed, and that the Mini App agrees with the row it       *)
(* applied: for any requests, names, currencies and locales and any number *)
(* of updates, launches, crashes and failed messages.                      *)
(***************************************************************************)
EXTENDS Onboarding, FiniteSetTheorems, TLAPS

-----------------------------------------------------------------------------
(* The inductive invariant, part by part.                                  *)

Device == [revision : Nat, locale : Locales, name : Names, currency : Currencies,
           edited : SUBSET {"locale", "currency"}, asked : BOOLEAN]
Answer == [revision : Nat, locale : Locales, name : Names, currency : Currencies,
           ledger : {"local", "server", "import"}]
Cards == [kind : {"profile"}, name : Names, currency : Currencies] \cup {Prompt, Plain}

\* An answer of revision r shows the row u, except what a bank on the server owns.
Shows(a, u, owned) ==
  a.locale = u.locale /\ (owned \/ (a.name = u.name /\ a.currency = u.currency))

\* Who owns what, and what the Mini App knows of it.
RowsInv ==
  /\ mode \in {"local", "server"}
  /\ user = NoUser \/ user \in UserRow
  /\ bank = NoBank \/ (mode = "server" /\ bank \in Owned /\ user # NoUser)
  /\ device \in Device /\ answers \subseteq Answer
  /\ device.asked => mode = "server" /\ user # NoUser
  /\ \A a \in answers : /\ a.ledger = "server" => bank # NoBank
                        /\ a.ledger = "import" => mode = "server"
  /\ user = NoUser => device.revision = 0 /\ answers = {}
  /\ user # NoUser => /\ device.revision <= user.revision
                      /\ \A a \in answers : /\ a.revision <= user.revision
                                            /\ a.revision = user.revision => Shows(a, user, bank # NoBank)
  /\ DeviceAgrees

\* Where the handler is says what it works on.
ControlInv ==
  /\ at \in Places /\ update \in 0..MaxUpdates /\ attempts \in 0..(MaxAttempts - 1)
  /\ request \in Requests \cup {NoRequest}
  /\ pending \subseteq 1..update /\ executed \subseteq 1..update
  /\ queue \subseteq pending /\ backing \subseteq pending
  /\ queue # {} => at = "flush" \/ (at = "reply" /\ after = "flush")
  /\ pending # {} => user # NoUser
  /\ executed # {} => Canonical
  /\ at \in {"idle", "flush"} => request = NoRequest
  /\ at \in {"enter", "send", "menu", "canonical", "returned"} => request # NoRequest
  /\ request # NoRequest => update # 0
  /\ at = "reply" => /\ target \in pending \ backing /\ target \notin queue
                     /\ after \in {"flush", "returned"}
                     /\ after = "flush" <=> request = NoRequest
  /\ at = "send" => after \in {"menu", "returned"} /\ card \in Cards /\ user # NoUser
  /\ at = "canonical" => /\ update \in executed
                         /\ request.kind \in {"text", "telegram", "currency"}
  /\ (update \in pending /\ request # NoRequest) => request.kind = "text"

\* A text taken as a name cannot be taken again: nobody is asked any more, or the bank knows
\* the operation.
NamesInv ==
  /\ taken \in [Updates -> Nat]
  /\ \A k \in Updates : taken[k] <= 1 /\ (k > update => taken[k] = 0)
  /\ (request # NoRequest /\ taken[update] # 0) =>
       /\ request.kind = "text" /\ user # NoUser
       /\ ~Changing(user) \/ update \in executed

\* The chat shows the bot's name for the user, or a message on its way will.
CardsInv ==
  /\ shown # NoCard => user # NoUser
  /\ (at = "send" /\ card.kind = "profile" /\ bank = NoBank) => card.name = user.name
  /\ (bank = NoBank /\ shown # NoCard /\ shown.name # user.name) =>
       \/ pending # {} \/ dropped
       \/ at = "enter" /\ request.kind = "telegram"
       \/ at = "send" /\ request.kind = "telegram" /\ card.kind = "profile"

\* A user is asked for a name, or will be.
QuestionInv ==
  /\ prompted \in BOOLEAN /\ dropped \in BOOLEAN
  /\ (user # NoUser /\ Changing(user) /\ ~prompted /\ ~dropped) =>
       \/ at = "enter" /\ request.kind = "custom"
       \/ at = "send" /\ request.kind = "custom" /\ card = Prompt

OnboardingInv == RowsInv /\ ControlInv /\ NamesInv /\ CardsInv /\ QuestionInv

-----------------------------------------------------------------------------
(* The row of the user.                                                    *)

\* What a handler may do to it: create it, move the stage, or take a revision.
Onward(u, v) ==
  /\ v \in UserRow /\ v # NoUser
  /\ \/ u = NoUser
     \/ v.revision > u.revision
     \/ /\ v.revision = u.revision /\ v.locale = u.locale
        /\ v.name = u.name /\ v.currency = u.currency

LEMMA EnsuredFacts ==
  ASSUME user = NoUser \/ user \in UserRow
  PROVE  /\ Ensured \in UserRow /\ Ensured # NoUser /\ Onward(user, Ensured)
         /\ user # NoUser => Ensured = user
         /\ user = NoUser => ~Changing(Ensured)
<1>1. Ensured \in UserRow
  BY OnboardingAssumption DEF Ensured, Created, UserRow, Stages
<1>2. Ensured # NoUser /\ (user # NoUser => Ensured = user)
  BY <1>1, OnboardingAssumption DEF Ensured, Created
<1>3. user = NoUser => ~Changing(Ensured)
  BY DEF Ensured, Created, Changing
<1>4. user # NoUser => user.revision = Ensured.revision
  BY <1>2
<1> QED BY <1>1, <1>2, <1>3 DEF Onward

LEMMA StageFacts ==
  ASSUME NEW u \in UserRow, NEW stage \in Stages
  PROVE  /\ WithStage(u, stage) \in UserRow /\ WithStage(u, stage) # NoUser
         /\ WithStage(u, stage).stage = stage
         /\ WithStage(u, stage).revision = u.revision /\ WithStage(u, stage).locale = u.locale
         /\ WithStage(u, stage).name = u.name /\ WithStage(u, stage).currency = u.currency
<1>1. WithStage(u, stage) \in UserRow
  BY DEF WithStage, UserRow
<1> QED BY <1>1, OnboardingAssumption DEF WithStage, UserRow

LEMMA IntentFacts ==
  ASSUME NEW u \in UserRow
  PROVE  /\ Intent(u) \in UserRow /\ Intent(u) # NoUser
         /\ Intent(u).revision = u.revision + 1 /\ Intent(u).revision > u.revision
         /\ Intent(u).stage = u.stage
         /\ Intent(u).name = u.name /\ Intent(u).currency = u.currency
<1>1. u.revision \in Nat \ {0}
  BY DEF UserRow
<1>2. u.revision + 1 \in Nat \ {0} /\ u.revision + 1 > u.revision
  BY <1>1
<1>3. Intent(u) \in UserRow
  BY <1>2 DEF Intent, UserRow
<1>4. /\ Intent(u).revision = u.revision + 1 /\ Intent(u).stage = u.stage
      /\ Intent(u).name = u.name /\ Intent(u).currency = u.currency
  BY DEF Intent, UserRow
<1> QED BY <1>2, <1>3, <1>4, OnboardingAssumption

\* Steps that move the row on, and leave or change a bank that is there, keep what the Mini App
\* knows of it.
LEMMA RowsKept ==
  ASSUME RowsInv, UNCHANGED <<mode, device, answers>>,
         user' = user \/ Onward(user, user'),
         bank' = bank \/ (bank # NoBank /\ bank' \in Owned)
  PROVE  RowsInv'
<1>1. /\ bank' = NoBank \/ (mode = "server" /\ bank' \in Owned /\ user' # NoUser)
      /\ bank' = NoBank <=> bank = NoBank
  BY OnboardingAssumption DEF RowsInv, Onward
<1>2. user = NoUser => device.revision = 0 /\ answers = {}
  BY DEF RowsInv
<1>3. CASE user' = user
  BY <1>1, <1>3 DEF RowsInv, DeviceAgrees
<1>4. CASE user' # user
  <2>1. /\ user' \in UserRow /\ user' # NoUser /\ user'.revision \in Nat \ {0}
        /\ device.revision \in Nat
    BY <1>4 DEF RowsInv, Onward, UserRow, Device
  <2>2. CASE user = NoUser
    <3>1. device.revision # user'.revision /\ device.revision <= user'.revision
      BY <1>2, <2>1, <2>2
    <3> QED BY <1>1, <1>2, <2>1, <2>2, <3>1 DEF RowsInv, DeviceAgrees
  <2>3. CASE user # NoUser /\ user'.revision > user.revision
    <3>1. user.revision \in Nat /\ \A a \in answers : a.revision \in Nat
      BY <2>3 DEF RowsInv, UserRow, Answer
    <3>2. /\ device.revision <= user.revision
          /\ \A a \in answers : a.revision <= user.revision
      BY <2>3 DEF RowsInv
    <3>3. /\ device.revision <= user'.revision /\ device.revision # user'.revision
          /\ \A a \in answers : a.revision <= user'.revision /\ a.revision # user'.revision
      BY <2>1, <2>3, <3>1, <3>2
    <3> QED BY <1>1, <2>1, <2>3, <3>3 DEF RowsInv, DeviceAgrees
  <2>4. CASE /\ user # NoUser
             /\ user'.revision = user.revision /\ user'.locale = user.locale
             /\ user'.name = user.name /\ user'.currency = user.currency
    BY <1>1, <2>1, <2>4 DEF RowsInv, DeviceAgrees, Shows
  <2> QED BY <1>4, <2>2, <2>3, <2>4 DEF Onward
<1> QED BY <1>3, <1>4

-----------------------------------------------------------------------------
(* The handlers.                                                           *)

LEMMA RequestFacts ==
  ASSUME NEW r \in Requests
  PROVE  /\ r # NoRequest
         /\ r.kind = "text" => r.value \in Names
         /\ r.kind = "currency" => r.value \in Currencies
         /\ r.kind \in {"language", "setlanguage"} => r.value \in Locales
<1>1. r \in Request
  BY OnboardingAssumption
<1> QED BY <1>1, OnboardingAssumption DEF Request

LEMMA CardFacts ==
  /\ Prompt \in Cards /\ Plain \in Cards /\ Prompt.kind = "prompt" /\ Plain.kind = "plain"
  /\ \A p \in UserRow \cup Owned : /\ Profile(p) \in Cards /\ Profile(p).kind = "profile"
                                   /\ Profile(p).name = p.name
BY DEF Cards, Prompt, Plain, Profile, UserRow, Owned

\* A handler that sends a card, or none, and takes no name from a text.  It answers a change of
\* the name by a card that shows it, and leaves no question unasked.
Answering ==
  /\ at = "enter" /\ ~Resumes
  /\ UNCHANGED <<Rest, pending, bank, executed, shown, taken, dropped>>
  /\ user' = user \/ Onward(user, user')
  /\ user' # NoUser
  /\ at' \in {"send", "menu", "returned"}
  /\ at' = "send" => /\ after' \in {"menu", "returned"} /\ card' \in Cards
                     /\ (bank = NoBank /\ card'.kind = "profile") => card'.name = user'.name
  /\ (request.kind = "telegram" /\ bank = NoBank) => at' = "send" /\ card'.kind = "profile"
  /\ (user # NoUser /\ user'.name # user.name) => request.kind = "telegram"
  /\ prompted' \in BOOLEAN
  /\ user'.stage = "custom_name" =>
       \/ request.kind = "custom" /\ at' = "send" /\ card' = Prompt
       \/ /\ user # NoUser /\ user.stage = "custom_name" /\ request.kind # "custom"
          /\ prompted' = prompted

LEMMA AnsweringKeeps ==
  ASSUME OnboardingInv, Answering
  PROVE  OnboardingInv'
<1>1. /\ UNCHANGED <<mode, device, answers, launches, request, update, attempts, target, queue,
                     backing, crashes, faults, pending, bank, executed, shown, taken, dropped>>
      /\ at = "enter" /\ user' # NoUser /\ at' \in {"send", "menu", "returned"}
  BY DEF Answering, Rest, app
<1>2. RowsInv /\ ControlInv /\ NamesInv /\ CardsInv /\ QuestionInv
  BY DEF OnboardingInv
<1>3. request # NoRequest
  BY <1>1, <1>2 DEF ControlInv
<1>4. RowsInv'
  BY <1>1, <1>2, RowsKept DEF Answering
<1>5. ControlInv'
  <2>1. at' = "send" => after' \in {"menu", "returned"} /\ card' \in Cards
    BY DEF Answering
  <2>2. at' \in Places /\ (Canonical <=> Canonical') /\ queue = {}
    BY <1>1, <1>2 DEF Places, Canonical, ControlInv
  <2> QED BY <1>1, <1>2, <1>3, <2>1, <2>2 DEF ControlInv
<1>6. NamesInv'
  <2>1. (request.kind = "text" /\ user # NoUser /\ ~Changing(user)) => ~Changing(user)'
    BY DEF Answering, Changing
  <2> QED BY <1>1, <1>2, <2>1 DEF NamesInv
<1>7. CardsInv'
  <2>1. (at' = "send" /\ card'.kind = "profile" /\ bank = NoBank) => card'.name = user'.name
    BY DEF Answering
  <2>2. ASSUME bank = NoBank, shown # NoCard, shown.name # user'.name
        PROVE  pending # {} \/ dropped \/ (at' = "send" /\ request.kind = "telegram" /\ card'.kind = "profile")
    <3>1. user # NoUser
      BY <1>2, <2>2 DEF CardsInv
    <3>2. CASE request.kind = "telegram"
      BY <2>2, <3>2 DEF Answering
    <3>3. CASE request.kind # "telegram"
      <4>1. user'.name = user.name
        BY <3>1, <3>3 DEF Answering
      <4> QED BY <1>1, <1>2, <2>2, <3>3, <4>1 DEF CardsInv
    <3> QED BY <3>2, <3>3
  <2> QED BY <1>1, <2>1, <2>2 DEF CardsInv
<1>8. QuestionInv'
  <2> SUFFICES ASSUME Changing(user)', ~prompted', ~dropped
               PROVE  at' = "send" /\ request.kind = "custom" /\ card' = Prompt
    BY <1>1, <1>2 DEF QuestionInv, Answering
  <2>1. user'.stage = "custom_name"
    BY DEF Changing
  <2>2. ~(user # NoUser /\ user.stage = "custom_name" /\ request.kind # "custom" /\ prompted' = prompted)
    BY <1>1, <1>2 DEF QuestionInv, Changing
  <2> QED BY <2>1, <2>2 DEF Answering
<1> QED BY <1>4, <1>5, <1>6, <1>7, <1>8 DEF OnboardingInv

\* What a handler finds.
LEMMA EnterFacts ==
  ASSUME OnboardingInv, NEW kinds, Handles(kinds)
  PROVE  /\ at = "enter" /\ ~Resumes /\ request.kind \in kinds /\ request \in Requests
         /\ update \in Updates /\ update \in 1..update /\ update \notin pending
         /\ queue = {} /\ prompted \in BOOLEAN
         /\ Ensured \in UserRow /\ Ensured # NoUser /\ Onward(user, Ensured)
         /\ user = NoUser \/ user \in UserRow
         /\ user # NoUser => Ensured = user
         /\ user = NoUser => ~Changing(Ensured)
         /\ bank # NoBank => mode = "server" /\ bank \in Owned
<1>1. at = "enter" /\ ~Resumes /\ request.kind \in kinds /\ update \notin pending
  BY DEF Handles, Resumes
<1>2. request \in Requests /\ queue = {} /\ update # 0 /\ update \in 0..MaxUpdates
  BY <1>1 DEF OnboardingInv, ControlInv
<1>3. update \in Updates /\ update \in 1..update
  BY <1>2, OnboardingAssumption DEF Updates
<1>4. (user = NoUser \/ user \in UserRow) /\ prompted \in BOOLEAN
      /\ (bank # NoBank => mode = "server" /\ bank \in Owned)
  BY DEF OnboardingInv, RowsInv, QuestionInv
<1> QED BY <1>1, <1>2, <1>3, <1>4, EnsuredFacts

LEMMA MenuOrFacts ==
  ASSUME NEW s
  PROVE  MenuOr(s) \in {"menu", "returned"}
BY DEF MenuOr

\* The cards of /start and of a finished choice, for the row they are sent about.
LEMMA StartCardFacts ==
  ASSUME NEW u \in UserRow, bank # NoBank => bank \in Owned
  PROVE  /\ StartCard(u) \in Cards /\ ReadyCard(u) \in Cards
         /\ bank = NoBank => /\ StartCard(u).kind = "profile" => StartCard(u).name = u.name
                             /\ ReadyCard(u).kind = "profile" => ReadyCard(u).name = u.name
<1>1. u.stage \in Stages
  BY DEF UserRow
<1>2. Dashboard \in Cards /\ (bank = NoBank => Dashboard.kind = "plain")
  BY CardFacts DEF Dashboard
<1>3. StartCard(u) \in {Plain, Prompt, Dashboard, Profile(u)}
  BY <1>1 DEF StartCard, Stages
<1>4. ReadyCard(u) \in {Dashboard, Profile(u)}
  BY DEF ReadyCard
<1>5. Profile(u) \in Cards /\ Profile(u).name = u.name
  BY CardFacts
<1> QED BY <1>2, <1>3, <1>4, <1>5, CardFacts

LEMMA StartAnswers ==
  ASSUME OnboardingInv, HandleStart
  PROVE  Answering
<1> DEFINE K == {"start", "cancel"}
           u == IF Changing(Ensured) THEN WithStage(Ensured, "complete") ELSE Ensured
           c == StartCard(u)
<1>1. /\ Handles(K) /\ user' = u /\ Send(c, MenuOr(request.kind = "start")) /\ prompted' = FALSE
      /\ UNCHANGED <<Rest, pending, bank, executed, shown, taken, dropped>>
  BY DEF HandleStart
<1>2. /\ at = "enter" /\ ~Resumes /\ request.kind \in K
      /\ Ensured \in UserRow /\ Ensured # NoUser /\ Onward(user, Ensured)
      /\ user # NoUser => Ensured = user
      /\ bank # NoBank => mode = "server" /\ bank \in Owned
  BY <1>1, EnterFacts
<1>3. /\ u \in UserRow /\ u # NoUser /\ u.stage # "custom_name" /\ u.name = Ensured.name
      /\ Onward(user, u)
  BY <1>2, StageFacts DEF Changing, Stages, Onward
<1>4. at' = "send" /\ card' = c /\ after' \in {"menu", "returned"}
  BY <1>1, MenuOrFacts DEF Send
<1> HIDE DEF u
<1>5. c \in Cards /\ (bank = NoBank /\ c.kind = "profile" => c.name = u.name)
  BY <1>2, <1>3, StartCardFacts
<1> QED BY <1>1, <1>2, <1>3, <1>4, <1>5 DEF Answering

LEMMA WizardAnswers ==
  ASSUME OnboardingInv, HandleWizard
  PROVE  Answering
<1> DEFINE K == {"wizard"}
           c == IF Ensured.stage = "complete" /\ mode = "server" THEN Plain ELSE StartCard(Ensured)
<1>1. /\ Handles(K) /\ user' = Ensured /\ Send(c, "returned") /\ prompted' = prompted
      /\ UNCHANGED <<Rest, pending, bank, executed, shown, taken, dropped>>
  BY DEF HandleWizard, history
<1>2. /\ at = "enter" /\ ~Resumes /\ request.kind \in K /\ prompted \in BOOLEAN
      /\ Ensured \in UserRow /\ Ensured # NoUser /\ Onward(user, Ensured)
      /\ user # NoUser => Ensured = user
      /\ user = NoUser => ~Changing(Ensured)
      /\ bank # NoBank => mode = "server" /\ bank \in Owned
  BY <1>1, EnterFacts
<1>3. at' = "send" /\ card' = c /\ after' = "returned"
  BY <1>1 DEF Send
<1>4. c \in Cards /\ (bank = NoBank /\ c.kind = "profile" => c.name = Ensured.name)
  BY <1>2, StartCardFacts, CardFacts
<1> HIDE DEF c
<1> QED BY <1>1, <1>2, <1>3, <1>4 DEF Answering, Changing

LEMMA StaticAnswers ==
  ASSUME OnboardingInv, HandleStatic
  PROVE  Answering
<1> DEFINE K == {"static", "expired"}
<1>1. /\ Handles(K) /\ user' = Ensured /\ prompted' = prompted
      /\ \/ at' = MenuOr(Created)
         \/ Send(Plain, MenuOr(Created))
      /\ UNCHANGED <<Rest, pending, bank, executed, shown, taken, dropped>>
  BY DEF HandleStatic, history
<1>2. /\ at = "enter" /\ ~Resumes /\ request.kind \in K /\ prompted \in BOOLEAN
      /\ Ensured \in UserRow /\ Ensured # NoUser /\ Onward(user, Ensured)
      /\ user # NoUser => Ensured = user
      /\ user = NoUser => ~Changing(Ensured)
  BY <1>1, EnterFacts
<1>3. \/ at' \in {"menu", "returned"}
      \/ at' = "send" /\ card' = Plain /\ after' \in {"menu", "returned"}
  BY <1>1, MenuOrFacts DEF Send
<1> QED BY <1>1, <1>2, <1>3, CardFacts DEF Answering, Changing

LEMMA IgnoredAnswers ==
  ASSUME OnboardingInv, IgnoreText
  PROVE  Answering
<1> DEFINE K == {"text", "invalid"}
<1>1. /\ Handles(K) /\ ~Changing(Ensured) /\ user' = Ensured /\ prompted' = prompted
      /\ at' = MenuOr(Created)
      /\ UNCHANGED <<Rest, pending, bank, executed, shown, taken, dropped>>
  BY DEF IgnoreText, history
<1>2. /\ at = "enter" /\ ~Resumes /\ request.kind \in K /\ prompted \in BOOLEAN
      /\ Ensured \in UserRow /\ Ensured # NoUser /\ Onward(user, Ensured)
      /\ user # NoUser => Ensured = user
  BY <1>1, EnterFacts
<1>3. at' \in {"menu", "returned"}
  BY <1>1, MenuOrFacts
<1> QED BY <1>1, <1>2, <1>3 DEF Answering, Changing

LEMMA RefusedNameAnswers ==
  ASSUME OnboardingInv, RefuseName
  PROVE  Answering
<1> DEFINE K == {"invalid"}
<1>1. /\ Handles(K) /\ Changing(Ensured) /\ user' = user /\ prompted' = prompted
      /\ Send(Plain, "returned")
      /\ UNCHANGED <<Rest, pending, bank, executed, shown, taken, dropped>>
  BY DEF RefuseName, history
<1>2. /\ at = "enter" /\ ~Resumes /\ request.kind \in K /\ prompted \in BOOLEAN
      /\ user # NoUser
  BY <1>1, EnterFacts
<1>3. at' = "send" /\ card' = Plain /\ after' = "returned"
  BY <1>1 DEF Send
<1> QED BY <1>1, <1>2, <1>3, CardFacts DEF Answering

LEMMA RefusedPreferenceAnswers ==
  ASSUME OnboardingInv, CanonicalRefused
  PROVE  Answering
<1> DEFINE K == {"text", "telegram", "currency"}
<1>1. /\ Handles(K) /\ Canonical /\ user' = Ensured /\ prompted' = prompted
      /\ Send(Plain, "returned")
      /\ UNCHANGED <<Rest, pending, bank, executed, shown, taken, dropped>>
  BY DEF CanonicalRefused, history
<1>2. /\ at = "enter" /\ ~Resumes /\ request.kind \in K /\ prompted \in BOOLEAN
      /\ Ensured \in UserRow /\ Ensured # NoUser /\ Onward(user, Ensured)
      /\ user # NoUser => Ensured = user
      /\ user = NoUser => ~Changing(Ensured)
  BY <1>1, EnterFacts
<1>3. at' = "send" /\ card' = Plain /\ after' = "returned"
  BY <1>1 DEF Send
<1> QED BY <1>1, <1>2, <1>3, CardFacts DEF Answering, Canonical, Changing

\* A row with another language, currency or name and a revision of its own.
LEMMA ChosenFacts ==
  ASSUME NEW u, u = NoUser \/ u \in UserRow, NEW e \in UserRow, Onward(u, e), NEW v \in UserRow, v.revision = e.revision
  PROVE  /\ Intent(v) \in UserRow /\ Intent(v) # NoUser /\ Onward(u, Intent(v))
         /\ Intent(v).stage = v.stage /\ Intent(v).name = v.name
<1>1. e.revision \in Nat /\ (u # NoUser => u.revision \in Nat)
  BY DEF UserRow
<1>2. /\ Intent(v) \in UserRow /\ Intent(v) # NoUser /\ Intent(v).revision = e.revision + 1
      /\ Intent(v).stage = v.stage /\ Intent(v).name = v.name
  BY IntentFacts
<1>3. u = NoUser \/ Intent(v).revision > u.revision
  <2>1. CASE u # NoUser /\ e.revision > u.revision
    BY <1>1, <1>2, <2>1
  <2>2. CASE u # NoUser /\ e.revision = u.revision
    BY <1>1, <1>2, <2>2
  <2> QED BY <2>1, <2>2 DEF Onward
<1> QED BY <1>2, <1>3 DEF Onward

LEMMA LanguageAnswers ==
  ASSUME OnboardingInv, ChooseLanguage
  PROVE  Answering
<1> DEFINE K == {"language", "setlanguage"}
           e == Ensured
           stage == IF e.stage \in {"complete", "custom_name"} THEN e.stage
                    ELSE IF request.kind = "language" THEN "currency" ELSE "complete"
           v == [e EXCEPT !.locale = request.value, !.stage = stage]
           next == Intent(v)
           c == CASE Changing(next) -> Prompt
                  [] next.stage = "complete" -> ReadyCard(next)
                  [] OTHER -> Plain
<1>1. /\ Handles(K) /\ user' = next /\ prompted' = prompted /\ Send(c, "menu")
      /\ UNCHANGED <<Rest, pending, bank, executed, shown, taken, dropped>>
  BY DEF ChooseLanguage, history
<1>2. /\ at = "enter" /\ ~Resumes /\ request.kind \in K /\ request \in Requests
      /\ prompted \in BOOLEAN
      /\ e \in UserRow /\ Onward(user, e) /\ (user = NoUser \/ user \in UserRow)
      /\ user # NoUser => e = user
      /\ user = NoUser => ~Changing(e)
      /\ bank # NoBank => bank \in Owned
  BY <1>1, EnterFacts
<1>3. stage \in Stages /\ (stage = "custom_name" => e.stage = "custom_name")
  BY <1>2 DEF Stages, UserRow
<1>4. request.value \in Locales
  BY <1>2, RequestFacts
<1> HIDE DEF stage
<1>5. /\ v \in UserRow /\ v.revision = e.revision /\ v.stage = stage /\ v.name = e.name
  BY <1>2, <1>3, <1>4 DEF UserRow
<1> HIDE DEF e, v
<1>6. /\ next \in UserRow /\ next # NoUser /\ Onward(user, next)
      /\ next.stage = stage /\ next.name = e.name
  BY <1>2, <1>5, ChosenFacts
<1> HIDE DEF next
<1>7. c \in Cards /\ (bank = NoBank /\ c.kind = "profile" => c.name = next.name)
  <2>1. c = Prompt \/ c = Plain \/ c = ReadyCard(next)
    BY <1>6 DEF Changing
  <2> QED BY <1>2, <1>6, <2>1, StartCardFacts, CardFacts
<1>8. at' = "send" /\ card' = c /\ after' = "menu"
  BY <1>1 DEF Send
<1> HIDE DEF c
<1> QED BY <1>1, <1>2, <1>3, <1>6, <1>7, <1>8 DEF Answering, Changing

LEMMA CurrencyAnswers ==
  ASSUME OnboardingInv, ChooseCurrency
  PROVE  Answering
<1> DEFINE K == {"currency"}
           e == Ensured
           stage == IF Changing(e) THEN e.stage ELSE "complete"
           v == [e EXCEPT !.currency = request.value, !.stage = stage]
           next == Intent(v)
           c == IF Changing(e) THEN Prompt ELSE Profile(next)
<1>1. /\ Handles(K) /\ user' = next /\ prompted' = prompted /\ Send(c, MenuOr(Created))
      /\ UNCHANGED <<Rest, pending, bank, executed, shown, taken, dropped>>
  BY DEF ChooseCurrency, history
<1>2. /\ at = "enter" /\ ~Resumes /\ request.kind \in K /\ request \in Requests
      /\ prompted \in BOOLEAN
      /\ e \in UserRow /\ Onward(user, e) /\ (user = NoUser \/ user \in UserRow)
      /\ user # NoUser => e = user
      /\ user = NoUser => ~Changing(e)
  BY <1>1, EnterFacts
<1>3. stage \in Stages /\ (stage = "custom_name" => e.stage = "custom_name")
  BY <1>2 DEF Stages, UserRow
<1>4. request.value \in Currencies
  BY <1>2, RequestFacts
<1> HIDE DEF stage
<1>5. /\ v \in UserRow /\ v.revision = e.revision /\ v.stage = stage /\ v.name = e.name
  BY <1>2, <1>3, <1>4 DEF UserRow
<1> HIDE DEF e, v
<1>6. /\ next \in UserRow /\ next # NoUser /\ Onward(user, next)
      /\ next.stage = stage /\ next.name = e.name
  BY <1>2, <1>5, ChosenFacts
<1> HIDE DEF next
<1>7. c \in Cards /\ (c.kind = "profile" => c.name = next.name)
  BY <1>6, CardFacts
<1>8. at' = "send" /\ card' = c /\ after' \in {"menu", "returned"}
  BY <1>1, MenuOrFacts DEF Send
<1> HIDE DEF c
<1> QED BY <1>1, <1>2, <1>3, <1>6, <1>7, <1>8 DEF Answering, Changing

LEMMA AskAnswers ==
  ASSUME OnboardingInv, AskForName
  PROVE  Answering
<1> DEFINE K == {"custom"}
           u == WithStage(Ensured, "custom_name")
<1>1. /\ Handles(K) /\ user' = u /\ prompted' = prompted /\ Send(Prompt, MenuOr(Created))
      /\ UNCHANGED <<Rest, pending, bank, executed, shown, taken, dropped>>
  BY DEF AskForName, history
<1>2. /\ at = "enter" /\ ~Resumes /\ request.kind \in K /\ prompted \in BOOLEAN
      /\ Ensured \in UserRow /\ Onward(user, Ensured)
      /\ user # NoUser => Ensured = user
  BY <1>1, EnterFacts
<1>3. u \in UserRow /\ u # NoUser /\ u.name = Ensured.name /\ Onward(user, u)
  BY <1>2, StageFacts DEF Stages, Onward
<1> HIDE DEF u
<1>4. at' = "send" /\ card' = Prompt /\ after' \in {"menu", "returned"}
  BY <1>1, MenuOrFacts DEF Send
<1> QED BY <1>1, <1>2, <1>3, <1>4, CardFacts DEF Answering

LEMMA TelegramNameAnswers ==
  ASSUME OnboardingInv, ChooseTelegramName
  PROVE  Answering
<1> DEFINE K == {"telegram"}
           e == Ensured
           v == [e EXCEPT !.name = TelegramName, !.stage = "complete"]
           next == Intent(v)
<1>1. /\ Handles(K) /\ user' = next /\ prompted' = FALSE /\ Send(Profile(next), MenuOr(Created))
      /\ UNCHANGED <<Rest, pending, bank, executed, shown, taken, dropped>>
  BY DEF ChooseTelegramName
<1>2. /\ at = "enter" /\ ~Resumes /\ request.kind \in K
      /\ e \in UserRow /\ Onward(user, e) /\ (user = NoUser \/ user \in UserRow)
  BY <1>1, EnterFacts
<1>3. v \in UserRow /\ v.revision = e.revision /\ v.stage = "complete"
  BY <1>2, OnboardingAssumption DEF UserRow, Stages
<1> HIDE DEF e, v
<1>4. next \in UserRow /\ next # NoUser /\ Onward(user, next) /\ next.stage = "complete"
  BY <1>2, <1>3, ChosenFacts
<1> HIDE DEF next
<1>5. at' = "send" /\ card' = Profile(next) /\ after' \in {"menu", "returned"}
  BY <1>1, MenuOrFacts DEF Send
<1> QED BY <1>1, <1>2, <1>4, <1>5, CardFacts DEF Answering

\* The text becomes the name, and its reply is queued in the same transaction.
LEMMA TakeNameKeeps ==
  ASSUME OnboardingInv, TakeName
  PROVE  OnboardingInv'
<1> DEFINE K == {"text"}
           v == [user EXCEPT !.name = request.value, !.stage = "complete"]
           next == Intent(v)
<1>1. /\ Handles(K) /\ Changing(Ensured) /\ ~Canonical
      /\ user' = next /\ pending' = pending \cup {update}
      /\ at' = "reply" /\ target' = update /\ after' = "returned"
      /\ taken' = [taken EXCEPT ![update] = @ + 1] /\ prompted' = FALSE
      /\ UNCHANGED <<mode, bank, executed, device, answers, launches, request, update, attempts, card,
                     queue, backing, crashes, faults, shown, dropped>>
  BY DEF TakeName, app
<1>2. /\ at = "enter" /\ request.kind \in K /\ request \in Requests
      /\ update \in Updates /\ update \in 1..update /\ update \notin pending /\ queue = {}
      /\ Ensured \in UserRow /\ Ensured = user /\ user # NoUser /\ Onward(user, user)
  BY <1>1, EnterFacts
<1>3. request.value \in Names /\ request # NoRequest
  BY <1>2, RequestFacts
<1>4. v \in UserRow /\ v.revision = user.revision /\ v.stage = "complete"
  BY <1>2, <1>3 DEF UserRow, Stages
<1>5. next \in UserRow /\ next # NoUser /\ Onward(user, next) /\ next.stage = "complete"
  <2> HIDE DEF v
  <2> QED BY <1>2, <1>4, ChosenFacts
<1> HIDE DEF v, next
<1>6. RowsInv /\ ControlInv /\ NamesInv /\ CardsInv /\ QuestionInv
  BY DEF OnboardingInv
<1>7. RowsInv'
  BY <1>1, <1>5, <1>6, RowsKept
<1>8. ControlInv'
  <2>1. Canonical' <=> Canonical
    BY <1>1 DEF Canonical
  <2>2. at' \in Places /\ update \notin backing
    BY <1>1, <1>2, <1>6 DEF Places, ControlInv
  <2> QED BY <1>1, <1>2, <1>3, <1>5, <1>6, <2>1, <2>2 DEF ControlInv
<1>9. NamesInv'
  <2>1. executed = {} /\ Changing(user)
    BY <1>1, <1>2, <1>6 DEF ControlInv
  <2>2. taken[update] = 0
    BY <1>2, <1>3, <1>6, <2>1 DEF NamesInv
  <2>3. taken' = [taken EXCEPT ![update] = 1] /\ taken \in [Updates -> Nat]
    BY <1>1, <2>2, <1>6 DEF NamesInv
  <2>4. taken' \in [Updates -> Nat] /\ \A k \in Updates : taken'[k] = IF k = update THEN 1 ELSE taken[k]
    BY <1>2, <2>3
  <2>5. \A k \in Updates : k > update => k # update
    BY <1>2 DEF Updates
  <2>6. ~Changing(user)'
    BY <1>1, <1>5 DEF Changing
  <2> QED BY <1>1, <1>2, <1>5, <1>6, <2>4, <2>5, <2>6 DEF NamesInv
<1>10. CardsInv'
  BY <1>1, <1>5, <1>6 DEF CardsInv
<1>11. QuestionInv'
  BY <1>1, <1>5, <1>6 DEF QuestionInv, Changing
<1> QED BY <1>7, <1>8, <1>9, <1>10, <1>11 DEF OnboardingInv

\* A preference becomes a command of the bank, under the number of the update.
LEMMA ExecuteKeeps ==
  ASSUME OnboardingInv, ExecuteCanonical
  PROVE  OnboardingInv'
<1> DEFINE K == {"text", "telegram", "currency"}
           counts == ~(update \in executed) /\ request.kind = "text"
<1>1. /\ Handles(K) /\ Preferring /\ Canonical
      /\ user' = Ensured /\ bank' = (IF Replayed THEN bank ELSE Preferred(bank))
      /\ executed' = executed \cup {update} /\ at' = "canonical"
      /\ taken' = (IF counts THEN [taken EXCEPT ![update] = @ + 1] ELSE taken)
      /\ UNCHANGED <<mode, device, answers, launches, request, update, attempts, target, queue,
                     backing, crashes, faults, pending, card, after, shown, prompted, dropped>>
  BY DEF ExecuteCanonical, Rest, app, Replayed
<1>2. /\ at = "enter" /\ request.kind \in K /\ request \in Requests
      /\ update \in Updates /\ update \in 1..update /\ update \notin pending /\ queue = {}
      /\ Ensured \in UserRow /\ Ensured # NoUser /\ Onward(user, Ensured)
      /\ user # NoUser => Ensured = user
      /\ user = NoUser => ~Changing(Ensured)
      /\ bank # NoBank /\ mode = "server" /\ bank \in Owned
  BY <1>1, EnterFacts DEF Canonical
<1>3. RowsInv /\ ControlInv /\ NamesInv /\ CardsInv /\ QuestionInv
  BY DEF OnboardingInv
<1>4. bank' \in Owned /\ bank' # NoBank /\ request # NoRequest
  <2>1. /\ request.kind = "text" => request.value \in Names
        /\ request.kind = "currency" => request.value \in Currencies
        /\ request # NoRequest
    BY <1>2, RequestFacts
  <2>2. Preferred(bank) \in Owned
    BY <1>2, <2>1, OnboardingAssumption DEF Preferred, Owned
  <2> QED BY <1>1, <1>2, <2>1, <2>2, OnboardingAssumption
<1>5. RowsInv'
  BY <1>1, <1>2, <1>3, <1>4, RowsKept
<1>6. ControlInv'
  <2>1. Canonical' /\ at' \in Places
    BY <1>1, <1>2, <1>4 DEF Canonical, Places
  <2> QED BY <1>1, <1>2, <1>3, <1>4, <2>1 DEF ControlInv
<1>7. NamesInv'
  <2>1. CASE counts
    <3>1. Changing(Ensured) /\ user # NoUser /\ Changing(user)
      BY <1>1, <1>2, <2>1 DEF Preferring
    <3>2. taken[update] = 0
      BY <1>2, <1>3, <1>4, <2>1, <3>1 DEF NamesInv
    <3>3. taken' = [taken EXCEPT ![update] = 1] /\ taken \in [Updates -> Nat]
      BY <1>1, <1>3, <2>1, <3>2 DEF NamesInv
    <3>4. taken' \in [Updates -> Nat] /\ \A k \in Updates : taken'[k] = IF k = update THEN 1 ELSE taken[k]
      BY <1>2, <3>3
    <3>5. \A k \in Updates : k > update => k # update
      BY <1>2 DEF Updates
    <3> QED BY <1>1, <1>2, <1>3, <2>1, <3>4, <3>5 DEF NamesInv
  <2>2. CASE ~counts
    <3>1. taken' = taken /\ (user # NoUser => (Changing(user)' <=> Changing(user)))
      BY <1>1, <1>2, <2>2 DEF Changing
    <3> QED BY <1>1, <1>2, <1>3, <3>1 DEF NamesInv
  <2> QED BY <2>1, <2>2
<1>8. CardsInv'
  BY <1>1, <1>2, <1>3, <1>4 DEF CardsInv
<1>9. QuestionInv'
  <2>1. Changing(user)' => user # NoUser /\ Changing(user)
    BY <1>1, <1>2 DEF Changing
  <2> QED BY <1>1, <1>2, <1>3, <2>1 DEF QuestionInv
<1> QED BY <1>5, <1>6, <1>7, <1>8, <1>9 DEF OnboardingInv

LEMMA AppliedKeeps ==
  ASSUME OnboardingInv, CanonicalApplied
  PROVE  OnboardingInv'
<1> DEFINE done == WithStage(user, "complete")
<1>1. RowsInv /\ ControlInv /\ NamesInv /\ CardsInv /\ QuestionInv
  BY DEF OnboardingInv
<1>2. /\ at = "canonical"
      /\ \/ /\ request.kind = "currency" /\ prompted' = prompted
            /\ user' = (IF Changing(user) THEN user ELSE done)
            /\ at' = "send" /\ after' = "returned"
            /\ card' = (IF Changing(user) THEN Prompt ELSE ReadyCard(user))
         \/ /\ request.kind # "currency" /\ user' = done /\ at' = "returned" /\ prompted' = FALSE
            /\ UNCHANGED <<card, after>>
      /\ UNCHANGED <<mode, device, answers, launches, request, update, attempts, target, queue,
                     backing, crashes, faults, pending, bank, executed, shown, taken, dropped>>
  BY DEF CanonicalApplied, Rest, app, Send
<1>3. /\ update \in executed /\ request # NoRequest /\ queue = {} /\ Canonical
      /\ request.kind \in {"text", "telegram", "currency"}
  BY <1>1, <1>2 DEF ControlInv
<1>4. bank # NoBank /\ bank \in Owned /\ user \in UserRow /\ user # NoUser
  BY <1>1, <1>3 DEF RowsInv, Canonical
<1>5. /\ done \in UserRow /\ done # NoUser /\ Onward(user, done) /\ done.stage = "complete"
  BY <1>4, StageFacts DEF Stages, Onward
<1>6. ReadyCard(user) \in Cards /\ Prompt \in Cards
  BY <1>4, StartCardFacts, CardFacts
<1> HIDE DEF done
<1>7. user' # NoUser /\ (user' = user \/ user' = done)
  BY <1>2, <1>4, <1>5
<1>8. RowsInv'
  BY <1>1, <1>2, <1>5, <1>7, RowsKept
<1>9. ControlInv'
  <2>1. Canonical' /\ at' \in Places
    BY <1>2, <1>3 DEF Canonical, Places
  <2>2. at' = "send" => after' \in {"menu", "returned"} /\ card' \in Cards
    BY <1>2, <1>6
  <2>3. at' \in {"send", "returned"}
    BY <1>2
  <2> QED BY <1>1, <1>2, <1>3, <1>7, <2>1, <2>2, <2>3 DEF ControlInv
<1>10. NamesInv'
  BY <1>1, <1>2, <1>3, <1>7 DEF NamesInv
<1>11. CardsInv'
  BY <1>1, <1>2, <1>4, <1>7 DEF CardsInv
<1>12. QuestionInv'
  <2>1. Changing(user)' => Changing(user) /\ request.kind = "currency" /\ prompted' = prompted
    BY <1>2, <1>5 DEF Changing
  <2>2. prompted' \in BOOLEAN
    BY <1>1, <1>2 DEF QuestionInv
  <2> QED BY <1>1, <1>2, <1>4, <2>1, <2>2 DEF QuestionInv
<1> QED BY <1>8, <1>9, <1>10, <1>11, <1>12 DEF OnboardingInv

LEMMA ResumeKeeps ==
  ASSUME OnboardingInv, ResumeReply
  PROVE  OnboardingInv'
<1>1. RowsInv /\ ControlInv /\ NamesInv /\ CardsInv /\ QuestionInv
  BY DEF OnboardingInv
<1>2. /\ at = "enter" /\ update \in pending
      /\ \/ at' = "returned" /\ UNCHANGED <<after, target>>
         \/ at' = "reply" /\ target' = update /\ after' = "returned" /\ update \notin backing
      /\ UNCHANGED <<mode, user, pending, bank, executed, device, answers, launches, request, update,
                     attempts, card, queue, backing, crashes, faults, shown, prompted, taken, dropped>>
  BY DEF ResumeReply, Resumes, Attempt, rows, app, history
<1>3. RowsInv'
  BY <1>1, <1>2, RowsKept
<1>4. request # NoRequest /\ queue = {} /\ request.kind = "text"
  BY <1>1, <1>2 DEF ControlInv
<1>5. ControlInv'
  <2>1. (Canonical <=> Canonical') /\ at' \in Places
    BY <1>2 DEF Canonical, Places
  <2> QED BY <1>1, <1>2, <1>4, <2>1 DEF ControlInv
<1>6. NamesInv' /\ CardsInv'
  BY <1>1, <1>2 DEF NamesInv, CardsInv, Changing
<1>7. QuestionInv'
  BY <1>1, <1>2, <1>4 DEF QuestionInv, Changing
<1> QED BY <1>3, <1>5, <1>6, <1>7 DEF OnboardingInv

-----------------------------------------------------------------------------
(* The poller and its calls of Telegram.                                   *)

LEMMA TakeUpdateKeeps ==
  ASSUME OnboardingInv, TakeUpdate
  PROVE  OnboardingInv'
<1>1. RowsInv /\ ControlInv /\ NamesInv /\ CardsInv /\ QuestionInv
  BY DEF OnboardingInv
<1>2. /\ at = "idle" /\ request = NoRequest /\ update < MaxUpdates /\ request' \in Requests
      /\ update' = update + 1 /\ at' = "enter"
      /\ UNCHANGED <<mode, user, pending, bank, executed, device, answers, launches, attempts, card,
                     after, target, queue, backing, crashes, faults, shown, prompted, taken, dropped>>
  BY DEF TakeUpdate, rows, app, history
<1>3. RowsInv'
  BY <1>1, <1>2, RowsKept
<1>4. /\ update \in Nat /\ update' \in 0..MaxUpdates /\ update' # 0 /\ update' \in Updates
      /\ 1..update \subseteq 1..update' /\ update' \notin 1..update /\ update' > update
  BY <1>1, <1>2, OnboardingAssumption DEF ControlInv, Updates
<1>5. request' # NoRequest
  BY <1>2, OnboardingAssumption
<1>6. ControlInv'
  <2>1. (Canonical <=> Canonical') /\ at' \in Places
    BY <1>2 DEF Canonical, Places
  <2> QED BY <1>1, <1>2, <1>4, <1>5, <2>1 DEF ControlInv
<1>7. NamesInv'
  <2>1. taken'[update'] = 0
    BY <1>1, <1>2, <1>4 DEF NamesInv
  <2>2. \A k \in Updates : k > update' => k > update
    BY <1>4 DEF Updates
  <2> QED BY <1>1, <1>2, <2>1, <2>2 DEF NamesInv
<1>8. CardsInv' /\ QuestionInv'
  BY <1>1, <1>2 DEF CardsInv, QuestionInv, Changing
<1> QED BY <1>3, <1>6, <1>7, <1>8 DEF OnboardingInv

LEMMA ReturnKeeps ==
  ASSUME OnboardingInv, HandlerReturns
  PROVE  OnboardingInv'
<1>1. RowsInv /\ ControlInv /\ NamesInv /\ CardsInv /\ QuestionInv
  BY DEF OnboardingInv
<1>2. /\ at = "returned" /\ request' = NoRequest /\ at' = "idle" /\ attempts' = 0
      /\ UNCHANGED <<mode, user, pending, bank, executed, device, answers, launches, update, card,
                     after, target, queue, backing, crashes, faults, shown, prompted, taken, dropped>>
  BY DEF HandlerReturns, Settle, rows, app, history
<1>3. RowsInv'
  BY <1>1, <1>2, RowsKept
<1>4. ControlInv'
  <2>1. (Canonical <=> Canonical') /\ at' \in Places /\ 0 \in 0..(MaxAttempts - 1) /\ queue = {}
    BY <1>1, <1>2, OnboardingAssumption DEF Canonical, Places, ControlInv
  <2> QED BY <1>1, <1>2, <2>1 DEF ControlInv
<1>5. NamesInv' /\ CardsInv' /\ QuestionInv'
  BY <1>1, <1>2 DEF NamesInv, CardsInv, QuestionInv, Changing
<1> QED BY <1>3, <1>4, <1>5 DEF OnboardingInv

\* What a call of Telegram may do to the handler and the chat: go on, settle having given up, or
\* start over.
LEMMA CallKeeps ==
  ASSUME OnboardingInv, at \in {"send", "menu"},
         UNCHANGED <<mode, user, pending, bank, executed, device, answers, launches, update, card,
                     after, target, queue, backing, crashes, taken>>,
         \/ at' \in {"menu", "returned"} /\ UNCHANGED <<request, attempts, dropped>>
              /\ (at = "send" => Reaches(card))
         \/ at' = "idle" /\ request' = NoRequest /\ attempts' = 0 /\ dropped' = TRUE
         \/ at' = "enter" /\ attempts' \in 0..(MaxAttempts - 1) /\ UNCHANGED <<request, dropped>>,
         at = "send" => (Reaches(card) \/ UNCHANGED <<shown, prompted>>),
         at = "menu" => UNCHANGED <<shown, prompted>>
  PROVE  OnboardingInv'
<1>1. RowsInv /\ ControlInv /\ NamesInv /\ CardsInv /\ QuestionInv
  BY DEF OnboardingInv
<1>2. RowsInv'
  BY <1>1, RowsKept
<1>3. queue = {} /\ request # NoRequest /\ (at = "send" => card \in Cards /\ user # NoUser)
  BY <1>1 DEF ControlInv
<1>4. ControlInv'
  <2>1. (Canonical <=> Canonical') /\ at' \in Places /\ 0 \in 0..(MaxAttempts - 1)
    BY OnboardingAssumption DEF Canonical, Places
  <2>2. at' \in {"idle", "menu", "returned", "enter"}
    OBVIOUS
  <2>3. attempts' \in 0..(MaxAttempts - 1)
    BY <1>1, <2>1 DEF ControlInv
  <2> QED BY <1>1, <1>3, <2>1, <2>2, <2>3 DEF ControlInv
<1>5. NamesInv'
  BY <1>1 DEF NamesInv, Changing
<1>6. /\ (at = "send" /\ card.kind = "profile" /\ Reaches(card)) => shown' = card
      /\ (at = "send" /\ card.kind # "profile") => shown' = shown
      /\ at = "menu" => shown' = shown
      /\ shown' = shown \/ (at = "send" /\ card.kind = "profile" /\ shown' = card)
  BY DEF Reaches
<1>7. CardsInv'
  <2>1. shown' # NoCard => user # NoUser
    BY <1>1, <1>3, <1>6 DEF CardsInv
  <2>2. at' # "send"
    OBVIOUS
  <2>3. ASSUME bank = NoBank, shown' # NoCard, shown'.name # user.name
        PROVE  pending # {} \/ dropped' \/ (at' = "enter" /\ request'.kind = "telegram")
    <3>1. shown' = shown
      BY <1>1, <1>6, <2>3 DEF CardsInv
    <3>2. \/ pending # {} \/ dropped
          \/ at = "send" /\ request.kind = "telegram" /\ card.kind = "profile"
      BY <1>1, <2>3, <3>1 DEF CardsInv
    <3>3. CASE at = "send" /\ request.kind = "telegram" /\ card.kind = "profile"
      <4>1. ~Reaches(card)
        BY <1>1, <1>6, <2>3, <3>3 DEF CardsInv
      <4> QED BY <3>3, <4>1
    <3>4. dropped => dropped'
      BY <1>1 DEF QuestionInv
    <3> QED BY <3>2, <3>3, <3>4
  <2> QED BY <2>1, <2>2, <2>3 DEF CardsInv
<1>8. QuestionInv'
  <2>1. prompted' \in BOOLEAN /\ dropped' \in BOOLEAN /\ (prompted => prompted')
        /\ (dropped => dropped')
    BY <1>1 DEF QuestionInv, Reaches
  <2>2. (at = "send" /\ card = Prompt /\ Reaches(card)) => prompted'
    <3> SUFFICES ASSUME card = Prompt, Reaches(card) PROVE prompted'
      OBVIOUS
    <3>1. card.kind = "prompt" /\ prompted' = (card.kind = "prompt" \/ prompted)
      BY CardFacts DEF Reaches
    <3> QED BY <3>1, Zenon
  <2> QED BY <1>1, <1>6, <2>1, <2>2 DEF QuestionInv, Changing
<1> QED BY <1>2, <1>4, <1>5, <1>7, <1>8 DEF OnboardingInv

\* A handler that throws settles its update having given up, or starts over.
LEMMA FailureFacts ==
  ASSUME ControlInv, NEW terminal \in BOOLEAN, Fails(terminal)
  PROVE  \/ at' = "idle" /\ request' = NoRequest /\ attempts' = 0 /\ dropped' = TRUE
         \/ at' = "enter" /\ attempts' \in 0..(MaxAttempts - 1) /\ UNCHANGED <<request, dropped>>
<1>1. CASE terminal \/ attempts + 1 >= MaxAttempts
  BY <1>1 DEF Fails, Settle
<1>2. CASE ~(terminal \/ attempts + 1 >= MaxAttempts)
  <2>1. at' = "enter" /\ attempts' = attempts + 1 /\ UNCHANGED <<request, dropped>>
    BY <1>2 DEF Fails
  <2>2. attempts + 1 \in 0..(MaxAttempts - 1)
    BY <1>2, OnboardingAssumption DEF ControlInv
  <2> QED BY <2>1, <2>2
<1> QED BY <1>1, <1>2

LEMMA SendKeeps ==
  ASSUME OnboardingInv, Send_ \/ MenuSynced \/ MenuRefused
  PROVE  OnboardingInv'
<1> USE DEF Calling, rows, app, history
<1>1. ControlInv
  BY DEF OnboardingInv
<1>2. CASE SendAccepted
  <2>1. after \in {"menu", "returned"}
    BY <1>1, <1>2 DEF SendAccepted, ControlInv
  <2> QED BY <1>2, <2>1, CallKeeps DEF SendAccepted
<1>3. ASSUME NEW t \in BOOLEAN, SendFails(t) PROVE OnboardingInv'
  <2>1. Fails(t)
    BY <1>3 DEF SendFails
  <2> QED BY <1>1, <1>3, <2>1, FailureFacts, CallKeeps DEF SendFails
<1>4. CASE SendLost
  <2>1. Fails(FALSE)
    BY <1>4 DEF SendLost
  <2> QED BY <1>1, <1>4, <2>1, FailureFacts, CallKeeps DEF SendLost
<1>5. CASE MenuSynced
  BY <1>5, CallKeeps DEF MenuSynced
<1>6. CASE MenuRefused
  <2>1. Fails(TRUE)
    BY <1>6 DEF MenuRefused
  <2> QED BY <1>1, <1>6, <2>1, FailureFacts, CallKeeps DEF MenuRefused
<1> QED BY <1>2, <1>3, <1>4, <1>5, <1>6 DEF Send_

-----------------------------------------------------------------------------
(* The summaries that are owed.                                            *)

\* A summary is done with: it reached the chat, or Telegram refused it.
LEMMA DeliveredKeeps ==
  ASSUME OnboardingInv, at = "reply", Delivered,
         UNCHANGED <<mode, user, bank, executed, device, answers, launches, request, update, attempts,
                     card, after, queue, crashes, taken>>,
         \/ Reaches(Profile(user)) /\ dropped' = dropped
         \/ UNCHANGED <<shown, prompted>> /\ dropped' = TRUE
  PROVE  OnboardingInv'
<1>1. RowsInv /\ ControlInv /\ NamesInv /\ CardsInv /\ QuestionInv
  BY DEF OnboardingInv
<1>2. /\ at' = after /\ pending' = pending \ {target} /\ backing' = backing \ {target} /\ target' = 0
  BY DEF Delivered
<1>3. RowsInv'
  BY <1>1, RowsKept
<1>4. /\ target \notin queue /\ after \in {"flush", "returned"}
      /\ after = "flush" <=> request = NoRequest
      /\ user # NoUser /\ user \in UserRow
  BY <1>1 DEF ControlInv, RowsInv
<1>5. ControlInv'
  <2>1. (Canonical <=> Canonical') /\ at' \in Places
    BY <1>2, <1>4 DEF Canonical, Places
  <2> QED BY <1>1, <1>2, <1>4, <2>1 DEF ControlInv
<1>6. NamesInv'
  BY <1>1 DEF NamesInv, Changing
<1>7. Profile(user).kind = "profile" /\ Profile(user).name = user.name
  BY <1>4, CardFacts
<1>8. CardsInv'
  <2>1. (Reaches(Profile(user)) /\ shown' = Profile(user)) \/ dropped'
    BY <1>7 DEF Reaches
  <2> QED BY <1>1, <1>2, <1>4, <1>7, <2>1 DEF CardsInv
<1>9. QuestionInv'
  <2>1. prompted' \in BOOLEAN /\ dropped' \in BOOLEAN /\ (prompted => prompted')
        /\ (dropped => dropped')
    BY <1>1 DEF QuestionInv, Reaches
  <2> QED BY <1>1, <1>2, <2>1 DEF QuestionInv, Changing
<1> QED BY <1>3, <1>5, <1>6, <1>8, <1>9 DEF OnboardingInv

LEMMA DeferredKeeps ==
  ASSUME OnboardingInv, NEW reached \in BOOLEAN, ReplyDeferred(reached)
  PROVE  OnboardingInv'
<1>1. RowsInv /\ ControlInv /\ NamesInv /\ CardsInv /\ QuestionInv
  BY DEF OnboardingInv
<1>2. /\ at = "reply" /\ at' = after /\ backing' = backing \cup {target} /\ target' = 0
      /\ Reaches(Profile(user)) \/ UNCHANGED <<shown, prompted>>
      /\ UNCHANGED <<mode, user, bank, executed, device, answers, launches, request, update, attempts,
                     card, after, queue, crashes, pending, taken, dropped>>
  BY DEF ReplyDeferred, Replying, app
<1>3. RowsInv'
  BY <1>1, <1>2, RowsKept
<1>4. /\ target \in pending /\ after \in {"flush", "returned"}
      /\ after = "flush" <=> request = NoRequest
      /\ user # NoUser /\ user \in UserRow
  BY <1>1, <1>2 DEF ControlInv, RowsInv
<1>5. ControlInv'
  <2>1. (Canonical <=> Canonical') /\ at' \in Places
    BY <1>2, <1>4 DEF Canonical, Places
  <2> QED BY <1>1, <1>2, <1>4, <2>1 DEF ControlInv
<1>6. NamesInv'
  BY <1>1, <1>2 DEF NamesInv, Changing
<1>7. CardsInv'
  BY <1>1, <1>2, <1>4 DEF CardsInv
<1>8. QuestionInv'
  <2>1. prompted' \in BOOLEAN /\ dropped' \in BOOLEAN /\ (prompted => prompted')
    BY <1>1, <1>2 DEF QuestionInv, Reaches
  <2> QED BY <1>1, <1>2, <2>1 DEF QuestionInv, Changing
<1> QED BY <1>3, <1>5, <1>6, <1>7, <1>8 DEF OnboardingInv

LEMMA ReplyKeeps ==
  ASSUME OnboardingInv, Reply_
  PROVE  OnboardingInv'
<1>1. CASE ReplyAccepted
  BY <1>1, DeliveredKeeps DEF ReplyAccepted, Replying, app
<1>2. CASE ReplyRefused
  BY <1>2, DeliveredKeeps DEF ReplyRefused, Replying, app
<1> QED BY <1>1, <1>2, DeferredKeeps DEF Reply_

\* The flush tries the replies it listed, the oldest first.
LEMMA LeastElement ==
  ASSUME NEW S \in SUBSET Nat, S # {}
  PROVE  Min(S) \in S
<1> DEFINE Up(k) == 0..k
           T == {Up(k) : k \in S}
<1>1. T \subseteq FiniteSubsetsOf(Nat)
  <2>1. \A k \in Nat : IsFiniteSet(0..k)
    BY FS_Interval
  <2> QED BY <2>1 DEF FiniteSubsetsOf
<1>2. T # {}
  OBVIOUS
<1>3. IsWellFoundedOn(StrictSubsetOrdering(Nat), FiniteSubsetsOf(Nat))
  BY FS_StrictSubsetOrderingWellFounded
<1> HIDE DEF T
<1>4. PICK X \in T : \A Y \in T : <<Y, X>> \notin StrictSubsetOrdering(Nat)
  BY <1>1, <1>2, <1>3, WFMin
<1>5. PICK m \in S : X = 0..m
  BY <1>4 DEF T
<1>6. ASSUME NEW k \in S PROVE m <= k
  <2>1. 0..k \in T
    BY DEF T
  <2>2. <<0..k, 0..m>> \notin StrictSubsetOrdering(Nat)
    BY <1>4, <1>5, <2>1
  <2>3. ~(0..k \subseteq 0..m /\ 0..k # 0..m)
    BY <2>2 DEF StrictSubsetOrdering
  <2>4. SUFFICES ASSUME k < m PROVE FALSE
    BY <1>5, <1>6
  <2>5. k \in Nat /\ m \in Nat
    OBVIOUS
  <2>6. m \in 0..m /\ m \notin 0..k
    BY <2>4, <2>5
  <2>7. 0..k \subseteq 0..m
    BY <2>4, <2>5
  <2> QED BY <2>3, <2>6, <2>7
<1>7. \E x \in S : \A y \in S : x <= y
  BY <1>6
<1> QED BY <1>7 DEF Min

LEMMA FlushKeeps ==
  ASSUME OnboardingInv, Flush \/ BackoffElapses
  PROVE  OnboardingInv'
<1>1. RowsInv /\ ControlInv /\ NamesInv /\ CardsInv /\ QuestionInv
  BY DEF OnboardingInv
<1>2. UNCHANGED <<mode, user, bank, executed, device, answers, launches, request, update, attempts,
                  card, crashes, pending, shown, prompted, taken, dropped>>
  BY DEF Flush, FlushBegins, FlushNext, FlushEnds, BackoffElapses, rows, app, history
<1>3. RowsInv'
  BY <1>1, <1>2, RowsKept
<1>4. NamesInv'
  BY <1>1, <1>2 DEF NamesInv, Changing
<1>5. Canonical <=> Canonical'
  BY <1>2 DEF Canonical
<1>6. CASE Flush
  <2>1. /\ at \in {"idle", "flush"} /\ at' \in {"idle", "flush", "reply"} /\ request = NoRequest
    BY <1>1, <1>6 DEF Flush, FlushBegins, FlushNext, FlushEnds, Attempt, ControlInv
  <2>2. ASSUME FlushBegins PROVE ControlInv'
    <3>1. at' = "flush" /\ queue' = pending /\ UNCHANGED <<after, target, backing>>
      BY <2>2 DEF FlushBegins
    <3> QED BY <1>1, <1>2, <1>5, <2>1, <3>1 DEF ControlInv, Places
  <2>3. ASSUME FlushNext PROVE ControlInv'
    <3> DEFINE k == Min(queue)
    <3>1. k \in queue
      <4>1. queue \in SUBSET Nat /\ queue # {}
        BY <1>1, <2>3 DEF ControlInv, FlushNext
      <4> QED BY <4>1, LeastElement
    <3>2. /\ \/ k \in backing /\ at' = "flush" /\ UNCHANGED <<after, target>>
             \/ k \notin backing /\ at' = "reply" /\ target' = k /\ after' = "flush"
          /\ queue' = queue \ {k} /\ backing' = backing
      BY <2>3 DEF FlushNext, Attempt
    <3> HIDE DEF k
    <3> QED BY <1>1, <1>2, <1>5, <2>1, <3>1, <3>2 DEF ControlInv, Places
  <2>4. ASSUME FlushEnds PROVE ControlInv'
    <3>1. at' = "idle" /\ queue = {} /\ UNCHANGED <<queue, after, target, backing>>
      BY <2>4 DEF FlushEnds
    <3> QED BY <1>1, <1>2, <1>5, <2>1, <3>1 DEF ControlInv, Places
  <2>5. ControlInv'
    BY <1>6, <2>2, <2>3, <2>4 DEF Flush
  <2>6. CardsInv' /\ QuestionInv'
    BY <1>1, <1>2, <2>1 DEF CardsInv, QuestionInv, Changing
  <2> QED BY <1>3, <1>4, <2>5, <2>6 DEF OnboardingInv
<1>7. CASE BackoffElapses
  <2>1. backing' = {} /\ UNCHANGED <<at, after, target, queue>>
    BY <1>7 DEF BackoffElapses
  <2>2. ControlInv'
    BY <1>1, <1>2, <1>5, <2>1 DEF ControlInv
  <2>3. CardsInv' /\ QuestionInv'
    BY <1>1, <1>2, <2>1 DEF CardsInv, QuestionInv, Changing
  <2> QED BY <1>3, <1>4, <2>2, <2>3 DEF OnboardingInv
<1> QED BY <1>6, <1>7

LEMMA CrashKeeps ==
  ASSUME OnboardingInv, Crash
  PROVE  OnboardingInv'
<1>1. RowsInv /\ ControlInv /\ NamesInv /\ CardsInv /\ QuestionInv
  BY DEF OnboardingInv
<1>2. /\ at' = (IF request = NoRequest THEN "idle" ELSE "enter")
      /\ attempts' = 0 /\ queue' = {} /\ backing' = {}
      /\ UNCHANGED <<mode, user, bank, executed, device, answers, launches, request, update,
                     pending, shown, prompted, taken, dropped>>
  BY DEF Crash, rows, app, history
<1>3. RowsInv'
  BY <1>1, <1>2, RowsKept
<1>4. ControlInv'
  <2>1. (Canonical <=> Canonical') /\ at' \in Places /\ 0 \in 0..(MaxAttempts - 1)
    BY <1>2, OnboardingAssumption DEF Canonical, Places
  <2>2. at' \in {"idle", "enter"} /\ (at' = "idle" <=> request = NoRequest)
    BY <1>2
  <2> QED BY <1>1, <1>2, <2>1, <2>2 DEF ControlInv
<1>5. NamesInv'
  BY <1>1, <1>2 DEF NamesInv, Changing
<1>6. at \in {"enter", "send"} => request # NoRequest
  BY <1>1 DEF ControlInv
<1>7. CardsInv' /\ QuestionInv'
  BY <1>1, <1>2, <1>6 DEF CardsInv, QuestionInv, Changing
<1> QED BY <1>3, <1>4, <1>5, <1>7 DEF OnboardingInv

-----------------------------------------------------------------------------
(* The server and the Mini App.                                            *)

\* Whatever happens beside the handler, to the bank or the Mini App, leaves what it relies on.
LEMMA BesideKeeps ==
  ASSUME OnboardingInv, RowsInv', UNCHANGED <<handler, pending, executed, history>>,
         user' = user \/ (user = NoUser /\ user' = Ensured),
         Canonical => Canonical', bank # NoBank => bank' # NoBank
  PROVE  OnboardingInv'
<1>1. RowsInv /\ ControlInv /\ NamesInv /\ CardsInv /\ QuestionInv
  BY DEF OnboardingInv
<1>2. UNCHANGED <<request, update, attempts, at, card, after, target, queue, backing, pending, executed,
                  shown, prompted, taken, dropped>>
  BY DEF handler, history
<1>3. /\ Ensured # NoUser /\ (user # NoUser => user' = user)
      /\ user = NoUser => user' = user \/ ~Changing(user)'
  <2>1. user = NoUser \/ user \in UserRow
    BY <1>1 DEF RowsInv
  <2>2. Ensured # NoUser /\ (user = NoUser => Ensured.stage # "custom_name")
    BY <2>1, EnsuredFacts DEF Changing
  <2> QED BY <2>2 DEF Changing
<1>4. user # NoUser => user' # NoUser
  BY <1>3
<1>5. ControlInv'
  <2>1. executed # {} => Canonical'
    BY <1>1 DEF ControlInv
  <2> QED BY <1>1, <1>2, <1>4, <2>1 DEF ControlInv
<1>6. NamesInv'
  BY <1>1, <1>2, <1>3 DEF NamesInv, Changing
<1>7. CardsInv'
  <2>1. (shown # NoCard => user # NoUser) /\ (at = "send" => user # NoUser)
    BY <1>1 DEF CardsInv, ControlInv
  <2> QED BY <1>1, <1>2, <1>3, <2>1 DEF CardsInv
<1>8. QuestionInv'
  <2>1. (user' # NoUser /\ Changing(user)') => user # NoUser /\ user' = user
    BY <1>3
  <2> QED BY <1>1, <1>2, <2>1 DEF QuestionInv, Changing
<1> QED BY <1>5, <1>6, <1>7, <1>8 DEF OnboardingInv

LEMMA ActivateKeeps ==
  ASSUME OnboardingInv, Activate
  PROVE  OnboardingInv'
<1>1. /\ mode = "local" /\ mode' = "server"
      /\ UNCHANGED <<user, pending, bank, executed, device, answers, handler, history>>
  BY DEF Activate, app, Bot
<1>2. RowsInv
  BY DEF OnboardingInv
<1>3. RowsInv'
  BY <1>1, <1>2 DEF RowsInv, DeviceAgrees
<1>4. Canonical => Canonical'
  BY <1>1 DEF Canonical
<1> QED BY <1>1, <1>3, <1>4, BesideKeeps

LEMMA BootstrapKeeps ==
  ASSUME OnboardingInv, Bootstrap
  PROVE  OnboardingInv'
<1> DEFINE owner == IF Canonical THEN bank ELSE Ensured
           owns == IF mode = "local" THEN "local" ELSE IF Canonical THEN "server" ELSE "import"
           new == [revision |-> Ensured.revision, locale |-> Ensured.locale,
                   name |-> owner.name, currency |-> owner.currency, ledger |-> owns]
<1>1. /\ user' = Ensured /\ answers' = answers \cup {new}
      /\ UNCHANGED <<mode, pending, bank, executed, device, handler, history>>
  BY DEF Bootstrap, Bot
<1>2. RowsInv
  BY DEF OnboardingInv
<1>3. user = NoUser \/ user \in UserRow
  BY <1>2 DEF RowsInv
<1>4. Ensured \in UserRow /\ Ensured # NoUser /\ (user # NoUser => Ensured = user)
  BY <1>3, EnsuredFacts
<1>5. /\ Ensured.revision \in Nat \ {0} /\ Ensured.locale \in Locales
      /\ Ensured.name \in Names /\ Ensured.currency \in Currencies
  BY <1>4 DEF UserRow
<1>6. owner.name \in Names /\ owner.currency \in Currencies /\ (bank = NoBank => owner = Ensured)
  BY <1>2, <1>5 DEF Canonical, RowsInv, Owned
<1>7. /\ owns \in {"local", "server", "import"} /\ (owns = "server" => bank # NoBank)
      /\ owns = "import" => mode = "server"
  BY <1>2 DEF Canonical, RowsInv
<1>8. /\ new \in Answer /\ new.revision = Ensured.revision /\ new.ledger = owns
      /\ Shows(new, Ensured, bank # NoBank)
  <2> HIDE DEF owner, owns
  <2> QED BY <1>5, <1>6, <1>7 DEF Answer, Shows
<1> HIDE DEF new
<1>9. RowsInv'
  <2>1. /\ mode' \in {"local", "server"} /\ user' \in UserRow /\ user' # NoUser
        /\ bank' = NoBank \/ (mode' = "server" /\ bank' \in Owned)
        /\ device' \in Device /\ answers' \subseteq Answer
        /\ device'.asked => mode' = "server"
    BY <1>1, <1>2, <1>4, <1>8 DEF RowsInv
  <2>2. \A a \in answers' : /\ a.ledger = "server" => bank' # NoBank
                            /\ a.ledger = "import" => mode' = "server"
    BY <1>1, <1>2, <1>7, <1>8 DEF RowsInv
  <2>3. /\ device'.revision <= user'.revision
        /\ \A a \in answers' : /\ a.revision <= user'.revision
                               /\ a.revision = user'.revision => Shows(a, user', bank' # NoBank)
    <3>1. CASE user # NoUser
      BY <1>1, <1>2, <1>4, <1>5, <1>8, <3>1 DEF RowsInv
    <3>2. CASE user = NoUser
      <4>1. device.revision = 0 /\ answers = {}
        BY <1>2, <3>2 DEF RowsInv
      <4> QED BY <1>1, <1>5, <1>8, <4>1
    <3> QED BY <3>1, <3>2
  <2>4. DeviceAgrees'
    <3>1. CASE user # NoUser
      BY <1>1, <1>2, <1>4, <3>1 DEF RowsInv, DeviceAgrees
    <3>2. CASE user = NoUser
      <4>1. device'.revision # user'.revision
        BY <1>1, <1>2, <1>5, <3>2 DEF RowsInv
      <4> QED BY <4>1 DEF DeviceAgrees
    <3> QED BY <3>1, <3>2
  <2> QED BY <2>1, <2>2, <2>3, <2>4 DEF RowsInv
<1>10. /\ Canonical => Canonical'
       /\ bank # NoBank => bank' # NoBank
       /\ user' = user \/ (user = NoUser /\ user' = Ensured)
  BY <1>1, <1>4 DEF Canonical
<1> QED BY <1>1, <1>9, <1>10, BesideKeeps

LEMMA AdoptKeeps ==
  ASSUME OnboardingInv, NEW a \in answers, Adopt(a)
  PROVE  OnboardingInv'
<1> DEFINE newer == a.revision > device.revision
           own == newer \/ a.ledger = "server"
<1>1. /\ answers' = answers \ {a} /\ UNCHANGED <<mode, user, pending, bank, executed, handler, history>>
      /\ device' = [revision |-> IF newer THEN a.revision ELSE device.revision,
                    locale |-> IF newer THEN a.locale ELSE device.locale,
                    name |-> IF own THEN a.name ELSE device.name,
                    currency |-> IF own THEN a.currency ELSE device.currency,
                    edited |-> device.edited \ IF newer THEN {"locale", "currency"}
                                               ELSE IF own THEN {"currency"} ELSE {},
                    asked |-> device.asked \/ a.ledger = "import"]
  BY DEF Adopt, rows, Bot
<1>2. RowsInv
  BY DEF OnboardingInv
<1>3. device \in Device /\ a \in Answer
  BY <1>2 DEF RowsInv
<1>4. /\ user # NoUser /\ a.revision <= user.revision /\ device.revision <= user.revision
      /\ a.revision = user.revision => Shows(a, user, bank # NoBank)
      /\ a.ledger = "server" => bank # NoBank
      /\ a.ledger = "import" => mode = "server"
  BY <1>2 DEF RowsInv
<1>5. /\ device'.revision = (IF newer THEN a.revision ELSE device.revision)
      /\ device'.locale = (IF newer THEN a.locale ELSE device.locale)
      /\ device'.name = (IF own THEN a.name ELSE device.name)
      /\ device'.currency = (IF own THEN a.currency ELSE device.currency)
      /\ ~newer => ("locale" \in device'.edited <=> "locale" \in device.edited)
      /\ ~own => device'.edited = device.edited
      /\ device'.asked = (device.asked \/ a.ledger = "import")
      /\ newer => own
  <2> HIDE DEF newer
  <2> QED BY <1>1
<1>6. device' \in Device
  <2>1. device.edited \ (IF newer THEN {"locale", "currency"} ELSE IF own THEN {"currency"} ELSE {})
          \in SUBSET {"locale", "currency"}
    BY <1>3 DEF Device
  <2>2. device.asked \in BOOLEAN
    BY <1>3 DEF Device
  <2> HIDE DEF newer, own
  <2> QED BY <1>1, <1>3, <2>1, <2>2 DEF Device, Answer
<1>7. device'.asked => mode' = "server" /\ user' # NoUser
  BY <1>1, <1>2, <1>4, <1>5 DEF RowsInv
<1>8. DeviceAgrees'
  <2>1. CASE newer
    BY <1>1, <1>4, <1>5, <2>1 DEF DeviceAgrees, Shows
  <2>2. CASE ~newer
    <3>1. DeviceAgrees
      BY <1>2 DEF RowsInv
    <3>2. own => bank # NoBank
      BY <1>4, <2>2
    <3> HIDE DEF newer, own
    <3> QED BY <1>1, <1>5, <2>2, <3>1, <3>2 DEF DeviceAgrees
  <2> QED BY <2>1, <2>2
<1>9. device'.revision <= user.revision
  BY <1>4, <1>5
<1>10. RowsInv'
  <2> HIDE DEF newer, own
  <2> QED BY <1>1, <1>2, <1>4, <1>6, <1>7, <1>8, <1>9 DEF RowsInv
<1>11. Canonical => Canonical'
  BY <1>1 DEF Canonical
<1> QED BY <1>1, <1>10, <1>11, BesideKeeps

LEMMA EditKeeps ==
  ASSUME OnboardingInv, (\E c \in Currencies : EditCurrency(c)) \/ (\E l \in Locales : EditLocale(l))
  PROVE  OnboardingInv'
<1>1. UNCHANGED <<mode, user, pending, bank, executed, answers, handler, history>>
  BY DEF EditCurrency, EditLocale, rows, Bot
<1>2. RowsInv /\ device \in Device
  BY DEF OnboardingInv, RowsInv
<1>3. device' \in Device /\ device'.revision = device.revision /\ device'.asked = device.asked
  BY <1>2 DEF EditCurrency, EditLocale, Device
<1>4. DeviceAgrees'
  <2>1. DeviceAgrees /\ device'.name = device.name
    BY <1>2 DEF RowsInv, EditCurrency, EditLocale, Device
  <2>2. CASE \E c \in Currencies : EditCurrency(c)
    <3>1. /\ "currency" \in device'.edited /\ device'.locale = device.locale
          /\ device'.edited = device.edited \cup {"currency"}
      BY <1>2, <2>2 DEF EditCurrency, Device
    <3> QED BY <1>1, <1>3, <2>1, <3>1 DEF DeviceAgrees
  <2>3. CASE \E l \in Locales : EditLocale(l)
    <3>1. /\ "locale" \in device'.edited /\ device'.currency = device.currency
          /\ device'.edited = device.edited \cup {"locale"}
      BY <1>2, <2>3 DEF EditLocale, Device
    <3> QED BY <1>1, <1>3, <2>1, <3>1 DEF DeviceAgrees
  <2> QED BY <2>2, <2>3
<1>5. RowsInv'
  BY <1>1, <1>2, <1>3, <1>4 DEF RowsInv
<1>6. Canonical => Canonical'
  BY <1>1 DEF Canonical
<1> QED BY <1>1, <1>5, <1>6, BesideKeeps

LEMMA ImportKeeps ==
  ASSUME OnboardingInv, Import
  PROVE  OnboardingInv'
<1>1. /\ device.asked /\ bank = NoBank /\ bank' = [name |-> device.name, currency |-> device.currency]
      /\ UNCHANGED <<mode, user, pending, executed, device, answers, handler, history>>
  BY DEF Import, app, Bot
<1>2. RowsInv
  BY DEF OnboardingInv
<1>3. bank' \in Owned /\ bank' # NoBank
  BY <1>1, <1>2, OnboardingAssumption DEF RowsInv, Device, Owned
<1>4. RowsInv'
  BY <1>1, <1>2, <1>3 DEF RowsInv, DeviceAgrees, Shows
<1>5. Canonical => Canonical'
  BY <1>1 DEF Canonical
<1> QED BY <1>1, <1>3, <1>4, <1>5, BesideKeeps

-----------------------------------------------------------------------------
(* The theorems.                                                           *)

LEMMA InitConsistent == Init => OnboardingInv
<1> SUFFICES ASSUME Init PROVE OnboardingInv
  OBVIOUS
<1> USE DEF Init
<1>1. RowsInv
  <2>1. device \in Device
    BY OnboardingAssumption DEF Device
  <2> QED BY <2>1 DEF RowsInv, DeviceAgrees
<1>2. ControlInv
  <2>1. 0 \in 0..MaxUpdates /\ 0 \in 0..(MaxAttempts - 1)
    BY OnboardingAssumption
  <2> QED BY <2>1 DEF ControlInv, Places
<1>3. NamesInv
  <2>1. taken \in [Updates -> Nat] /\ \A k \in Updates : taken[k] = 0
    OBVIOUS
  <2>2. \A k \in Updates : taken[k] <= 1
    BY <2>1
  <2> QED BY <2>1, <2>2 DEF NamesInv
<1>4. CardsInv /\ QuestionInv
  BY DEF CardsInv, QuestionInv
<1> QED BY <1>1, <1>2, <1>3, <1>4 DEF OnboardingInv

LEMMA EnterKeeps ==
  ASSUME OnboardingInv, Enter
  PROVE  OnboardingInv'
<1>1. CASE ResumeReply
  BY <1>1, ResumeKeeps
<1>2. CASE TakeName
  BY <1>2, TakeNameKeeps
<1>3. CASE ExecuteCanonical
  BY <1>3, ExecuteKeeps
<1>4. CASE HandleStart \/ HandleWizard \/ HandleStatic \/ IgnoreText \/ RefuseName
  <2>1. Answering
    BY <1>4, StartAnswers, WizardAnswers, StaticAnswers, IgnoredAnswers, RefusedNameAnswers
  <2> QED BY <2>1, AnsweringKeeps
<1>5. CASE CanonicalRefused \/ ChooseLanguage \/ ChooseCurrency \/ AskForName \/ ChooseTelegramName
  <2>1. Answering
    BY <1>5, RefusedPreferenceAnswers, LanguageAnswers, CurrencyAnswers, AskAnswers, TelegramNameAnswers
  <2> QED BY <2>1, AnsweringKeeps
<1> QED BY <1>1, <1>2, <1>3, <1>4, <1>5 DEF Enter

\* What the rows, the handler, the chat and the Mini App say of each other is kept by every step.
THEOREM OnboardingConsistent == Spec => []OnboardingInv
<1>1. ASSUME OnboardingInv, [Next]_vars PROVE OnboardingInv'
  <2>1. CASE TakeUpdate
    BY <1>1, <2>1, TakeUpdateKeeps
  <2>2. CASE Loop
    <3>1. CASE HandlerReturns
      BY <1>1, <3>1, ReturnKeeps
    <3>2. CASE Enter
      BY <1>1, <3>2, EnterKeeps
    <3>3. CASE CanonicalApplied
      BY <1>1, <3>3, AppliedKeeps
    <3>4. CASE Send_ \/ MenuSynced \/ MenuRefused
      BY <1>1, <3>4, SendKeeps
    <3>5. CASE Reply_
      BY <1>1, <3>5, ReplyKeeps
    <3>6. CASE Flush
      BY <1>1, <3>6, FlushKeeps
    <3> QED BY <2>2, <3>1, <3>2, <3>3, <3>4, <3>5, <3>6 DEF Loop
  <2>3. CASE BackoffElapses
    BY <1>1, <2>3, FlushKeeps
  <2>4. CASE Crash
    BY <1>1, <2>4, CrashKeeps
  <2>5. CASE Activate
    BY <1>1, <2>5, ActivateKeeps
  <2>6. CASE MiniApp
    <3>1. CASE Bootstrap
      BY <1>1, <3>1, BootstrapKeeps
    <3>2. CASE Import
      BY <1>1, <3>2, ImportKeeps
    <3>3. CASE \E a \in answers : Adopt(a)
      BY <1>1, <3>3, AdoptKeeps
    <3>4. CASE (\E c \in Currencies : EditCurrency(c)) \/ (\E l \in Locales : EditLocale(l))
      BY <1>1, <3>4, EditKeeps
    <3> QED BY <2>6, <3>1, <3>2, <3>3, <3>4 DEF MiniApp
  <2>7. CASE Quiet \/ UNCHANGED vars
    <3>1. UNCHANGED <<mode, user, pending, bank, executed, device, answers, handler, history>>
      BY <2>7 DEF Quiet, vars, rows, app
    <3>2. RowsInv' /\ (Canonical => Canonical')
      BY <1>1, <3>1, RowsKept DEF OnboardingInv, Canonical
    <3> QED BY <1>1, <3>1, <3>2, BesideKeeps
  <2> QED BY <1>1, <2>1, <2>2, <2>3, <2>4, <2>5, <2>6, <2>7 DEF Next
<1> QED BY <1>1, InitConsistent, PTL DEF Spec

\* A name the user typed is taken once, however often its update is delivered, and the chat shows
\* the name the bot has or is owed a message that will (#handleMessage, applyCustomNameIntent,
\* applyCanonicalPreference, #attemptPendingReply of bot/onboarding.ts).
THEOREM NamesAreSettled == Spec => []NameIntentSettled
<1>1. OnboardingInv => NameIntentSettled
  <2> SUFFICES ASSUME OnboardingInv PROVE NameIntentSettled
    OBVIOUS
  <2>1. RowsInv /\ ControlInv /\ NamesInv /\ CardsInv
    BY DEF OnboardingInv
  <2>2. OnboardingTypeOK
    <3>1. 1..update \subseteq Updates
      BY <2>1, OnboardingAssumption DEF ControlInv, Updates
    <3> QED BY <2>1, <3>1 DEF OnboardingTypeOK, RowsInv, ControlInv
  <2>3. NameTakenOnce
    BY <2>1 DEF NamesInv, NameTakenOnce
  <2>4. NameShownOrOwed
    BY <2>1 DEF CardsInv, ControlInv, NameShownOrOwed
  <2> QED BY <2>2, <2>3, <2>4 DEF NameIntentSettled
<1> QED BY <1>1, OnboardingConsistent, PTL

\* A Mini App that applied the revision of the row agrees with the row, whatever answers arrive late,
\* twice or out of order (applyPreferenceIntent of bot/repository.ts, synchronizeLaunchPreferences of
\* app/launchPreferences.ts).
THEOREM DevicesAgree == Spec => []DeviceAgrees
BY OnboardingConsistent, PTL DEF OnboardingInv, RowsInv

\* No step takes a text as a name unless the user was asked for one (#handleMessage of
\* bot/onboarding.ts).
THEOREM NamesAreAskedFor == Spec => OnlyAskedFor
<1>1. ASSUME OnboardingInv, [Next]_vars, taken' # taken PROVE prompted \/ dropped
  <2>1. TakeName \/ (ExecuteCanonical /\ request.kind = "text")
    <3>1. CASE TakeUpdate \/ BackoffElapses \/ Crash \/ Quiet \/ UNCHANGED vars
      BY <1>1, <3>1 DEF TakeUpdate, BackoffElapses, Crash, Quiet, vars, history
    <3>2. CASE Activate \/ MiniApp
      BY <1>1, <3>2 DEF Activate, MiniApp, Bootstrap, Import, Adopt, EditCurrency, EditLocale, Bot, history
    <3>3. CASE Loop
      <4>1. CASE HandlerReturns \/ MenuSynced \/ MenuRefused \/ CanonicalApplied \/ Flush
        BY <1>1, <4>1 DEF HandlerReturns, MenuSynced, MenuRefused, CanonicalApplied,
                          Flush, FlushBegins, FlushNext, FlushEnds, history
      <4>2. CASE Send_ \/ Reply_
        BY <1>1, <4>2 DEF Send_, SendAccepted, SendFails, SendLost,
                          Reply_, ReplyAccepted, ReplyRefused, ReplyDeferred
      <4>3. CASE Enter
        <5>1. CASE ResumeReply
          BY <1>1, <5>1 DEF ResumeReply, history
        <5>2. CASE HandleStart \/ HandleWizard \/ HandleStatic \/ IgnoreText \/ RefuseName
          BY <1>1, <5>2 DEF HandleStart, HandleWizard, HandleStatic, IgnoreText, RefuseName, history
        <5>3. CASE CanonicalRefused \/ ChooseLanguage \/ ChooseCurrency \/ AskForName \/ ChooseTelegramName
          BY <1>1, <5>3 DEF CanonicalRefused, ChooseLanguage, ChooseCurrency, AskForName,
                            ChooseTelegramName, history
        <5>4. CASE ExecuteCanonical
          BY <1>1, <5>4 DEF ExecuteCanonical
        <5> QED BY <4>3, <5>1, <5>2, <5>3, <5>4 DEF Enter
      <4> QED BY <3>3, <4>1, <4>2, <4>3 DEF Loop
    <3> QED BY <1>1, <3>1, <3>2, <3>3 DEF Next
  <2>2. at = "enter" /\ request.kind = "text" /\ Changing(Ensured)
    BY <2>1 DEF TakeName, ExecuteCanonical, Handles, Preferring
  <2>3. RowsInv /\ QuestionInv
    BY <1>1 DEF OnboardingInv
  <2>4. user # NoUser /\ Changing(user)
    BY <2>2, <2>3, EnsuredFacts DEF RowsInv
  <2> QED BY <2>2, <2>3, <2>4 DEF QuestionInv
<1> QED BY <1>1, OnboardingConsistent, PTL DEF Spec, OnlyAskedFor
=============================================================================
