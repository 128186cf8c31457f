------------------------------ MODULE Gateway ------------------------------
(***************************************************************************)
(* The request budgets of the bot service: InMemoryBankRequestLimiter      *)
(* (bot/rate-limit.ts), the HTTP handlers that charge it around the await  *)
(* of a request's body (bot/http-server.ts), and the chat wizard, whose    *)
(* commands are charged to the same budget as the Mini App's               *)
(* (bot/bank-flow.ts).  The bank is reduced to what the handlers ask of it *)
(* before they decide, who has a bank and which operations are stored, and *)
(* to what decides which of those are kept (bot/repository.ts).            *)
(*                                                                         *)
(* A request is authenticated, its fields are well formed and the server   *)
(* ledger is active: the other answers come before any charge or change    *)
(* nothing.  Time is in ticks; Second of them are what a client is told    *)
(* to wait at least.                                                       *)
(***************************************************************************)
EXTENDS Integers, Sequences, FiniteSets, FiniteSetsExt, SequencesExt

CONSTANTS
  Users,        \* Telegram users
  Movers,       \* bound: the users who send more than launches
  Ids,          \* importId / clientMutationId / update id
  Prints,       \* canonical digests of a payload
  Maximum,      \* policy.maximum of each kind
  Window,       \* policy.windowMs of each kind, in ticks
  Second,       \* ticks in a second
  MaxTracked,   \* MAX_TRACKED_USERS
  Retained,     \* commands kept by the retention of bank_operations (maxBankOperationsPerUser)
  MaxEvents,    \* bound on requests, restarts of the process and corrections of its clock
  MaxTime       \* bound on the clock

Mutations == {"import", "command"}
Ingress == [import |-> "import_ingress", command |-> "command_ingress"]
Kinds == {"bootstrap", "rates", "import", "command", "import_ingress", "command_ingress"}
Sources == {"import", "tma", "telegram"}
Requests == [source : Sources, id : Ids, print : Prints]

ASSUME GatewayAssumption ==
  /\ Movers \subseteq Users
  /\ Maximum \in [Kinds -> Nat \ {0}]
  /\ Window \in [Kinds -> Nat \ {0}] /\ Second \in Nat \ {0}
  /\ \A k \in Kinds : Window[k] >= Second
  /\ MaxTracked \in Nat \ {0} /\ Retained \in Nat \ {0}
  /\ MaxEvents \in Nat /\ MaxTime \in Nat

VARIABLES
  now,         \* the clock the limiter is given
  tracked,     \* the users of the limiter's map, the least recent first
  entries,     \* window of each tracked user and kind: [start, count], or None
  awaiting,    \* requests past their ingress charge whose body is not read yet
  operations,  \* bank_operations of each user: the rows its requests are stored in
  rows,        \* serial of a user's newest row
  pending,     \* serials of the rows whose notice is still in bank_outbox
  events,      \* of the MaxEvents so far
  (* History, which no step of the code reads. *)
  charged,     \* charges since the limiter last had to forget: times, for each user and kind
  promised,    \* the time at which a refused user was told to come back, or None
  others,      \* users who called since a user's last call
  book,        \* every row a user ever had
  peak         \* the most notices pending when the retention made room

limiter == <<tracked, entries>>
bank == <<operations, rows, pending>>
history == <<charged, promised, others>>
memory == <<book, peak>>
vars == <<now, limiter, awaiting, bank, events, history, memory>>

None == -1
NoEntry == [start |-> None, count |-> 0]
Fresh == [k \in Kinds |-> NoEntry]
Uncharged == [k \in Kinds |-> <<>>]
Unpromised == [k \in Kinds |-> None]

Init ==
  /\ now = 0 /\ tracked = <<>>
  /\ entries = [u \in Users |-> Fresh]
  /\ awaiting = [u \in Users |-> [r \in Mutations |-> 0]]
  /\ operations = [u \in Users |-> {}] /\ rows = [u \in Users |-> 0]
  /\ pending = [u \in Users |-> {}]
  /\ events = 0
  /\ charged = [u \in Users |-> Uncharged]
  /\ promised = [u \in Users |-> Unpromised]
  /\ others = [u \in Users |-> {}]
  /\ book = [u \in Users |-> {}] /\ peak = [u \in Users |-> 0]

-----------------------------------------------------------------------------
(* The limiter.  All of consume() is one synchronous call; Called is what it does to the map, apart
   from the count, and the two ways it ends are told apart by Admits. *)

Evicted ==
  IF Len(tracked) < MaxTracked THEN {} ELSE {Head(tracked)}

Room(u) == IF u \in ToSet(tracked) THEN {} ELSE Evicted

Over(entry, k) ==
  \/ entry.start = None
  \/ now < entry.start
  \/ now - entry.start >= Window[k]

(* The window a call of u falls in. *)
Current(u, k) ==
  IF u \notin ToSet(tracked) \/ Over(entries[u][k], k)
  THEN [start |-> now, count |-> 0]
  ELSE entries[u][k]

Spared == IF Evicted = {} THEN tracked ELSE Tail(tracked)
Without(u) == RemoveAt(tracked, CHOOSE i \in DOMAIN tracked : tracked[i] = u)

(* Mutant: the order of arrival, not of use. *)
MRefreshed(u) == IF u \in ToSet(tracked) THEN tracked ELSE Append(Spared, u)

Refreshed(u) == Append(IF u \in ToSet(tracked) THEN Without(u) ELSE Spared, u)

(* Mutant: off by one. *)
MHasBudget(entry, k) == entry.count <= Maximum[k]

HasBudget(entry, k) == entry.count < Maximum[k]

Admits(u, k, replay) == replay \/ HasBudget(Current(u, k), k)

Charge(entry, replay, admitted) ==
  IF admitted /\ ~replay THEN [entry EXCEPT !.count = @ + 1] ELSE entry

(* Mutant: rounded down. *)
MCeilSeconds(t) == t \div Second

(* The delay a refusal carries, in seconds. *)
CeilSeconds(t) == (t + Second - 1) \div Second

RetryAfter(u, k) == Max({1, CeilSeconds(Current(u, k).start + Window[k] - now)})

(* The entries after the calls of u for one kind. *)
Entered(u, k, replay, admitted) ==
  LET mine == IF u \in ToSet(tracked) THEN entries[u] ELSE Fresh
  IN  [v \in Users |->
         IF v = u THEN [mine EXCEPT ![k] = Charge(Current(u, k), replay, admitted)]
         ELSE IF v \in Room(u) THEN Fresh ELSE entries[v]]

(* A user others pushed out, since its last call, may be forgotten: its history starts anew. *)
Recall(u) == Cardinality(others[u]) < MaxTracked

Consume(u, k, replay) ==
  LET admitted == Admits(u, k, replay)
      known == IF Recall(u) THEN charged[u] ELSE Uncharged
      counts == admitted /\ ~replay
  IN  /\ tracked' = Refreshed(u)
      /\ entries' = Entered(u, k, replay, admitted)
      /\ charged' = [charged EXCEPT ![u] =
                       IF counts THEN [known EXCEPT ![k] = Append(@, now)] ELSE known]
      /\ promised' = [promised EXCEPT ![u][k] =
                        CASE ~admitted -> now + Second * RetryAfter(u, k)
                          [] counts -> None
                          [] OTHER -> @]
      /\ others' = [v \in Users |-> IF v = u THEN {} ELSE others[v] \cup {u}]

-----------------------------------------------------------------------------
(* The bank, as the handlers see it. *)

Stored(u, request) == \E r \in operations[u] : r.request = request
SameKey(a, b) == a.source = b.source /\ a.id = b.id
Exists(u, request) == \E r \in operations[u] : SameKey(r.request, request)
HasBank(u) == \E r \in operations[u] : r.request.source = "import"

(* A new command makes room for itself if as many as the retention keeps are stored: the oldest whose
   notice has been settled goes.  The import stays. *)
Commands(u) == {r \in operations[u] : r.request.source # "import"}
Deletable(u) == {r \in Commands(u) : r.row \notin pending[u]}

(* Mutant: ORDER BY id DESC. *)
MOldest(S) == {r \in S : \A s \in S : s.row <= r.row}

Oldest(S) == {r \in S : \A s \in S : r.row <= s.row}

MustMakeRoom(u, request) == request.source # "import" /\ Cardinality(Commands(u)) >= Retained
MakeRoom(u, request) == IF MustMakeRoom(u, request) THEN Oldest(Deletable(u)) ELSE {}

(* importState: one bank per user.  executeCommand: an operation id is used once, and the command is
   refused (bank_operation_capacity) if every stored one still has a notice to be sent. *)
Takes(u, request) ==
  /\ ~Exists(u, request)
  /\ (request.source = "import") # HasBank(u)
  /\ MustMakeRoom(u, request) => Deletable(u) # {}

(* Every command of the chat leaves a notice, one of the Mini App only if it warns. *)
Notices(source) ==
  CASE source = "telegram" -> {TRUE}
    [] source = "tma" -> BOOLEAN
    [] source = "import" -> {FALSE}

Execute(u, request) ==
  LET row == [request |-> request, row |-> rows[u] + 1]
  IN  /\ operations' = [operations EXCEPT ![u] = (@ \ MakeRoom(u, request)) \cup {row}]
      /\ rows' = [rows EXCEPT ![u] = @ + 1]
      /\ \E noticed \in Notices(request.source) :
           pending' = [pending EXCEPT ![u] = IF noticed THEN @ \cup {row.row} ELSE @]
      /\ book' = [book EXCEPT ![u] = @ \cup {row}]
      /\ peak' = IF MustMakeRoom(u, request) THEN [peak EXCEPT ![u] = Max({@, Cardinality(pending[u])})]
                                             ELSE peak

Budget(request) == IF request.source = "import" THEN "import" ELSE "command"

(* How a request is answered that is decided now. *)
Answer(u, k, request) ==
  IF ~Admits(u, k, Stored(u, request)) THEN "limited"
  ELSE IF Stored(u, request) THEN "replayed"
  ELSE IF Takes(u, request) THEN "executed" ELSE "refused"

Decide(u, k, request) ==
  /\ Consume(u, k, Stored(u, request))
  /\ IF Answer(u, k, request) = "executed" THEN Execute(u, request) ELSE UNCHANGED <<bank, memory>>

-----------------------------------------------------------------------------
(* The handlers. *)

Happens == events < MaxEvents /\ events' = events + 1

(* handleBootstrap, handleBankRates: no replay exempts them, and they are charged when their body
   has been read. *)
Read(u, k) ==
  /\ Happens
  /\ Consume(u, k, FALSE)
  /\ UNCHANGED <<now, awaiting, bank, memory>>

Bootstrap(u) == Read(u, "bootstrap")
Rates(u) == Read(u, "rates")

(* handleBankImport, handleBankCommand: the ingress is charged before the body is awaited ... *)
Arrive(u, route) ==
  /\ Happens
  /\ Consume(u, Ingress[route], FALSE)
  /\ awaiting' = [awaiting EXCEPT ![u][route] =
                    IF Admits(u, Ingress[route], FALSE) THEN @ + 1 ELSE @]
  /\ UNCHANGED <<now, bank, memory>>

(* ... and with the body read the rest is one step: look the operation up, charge the mutation unless
   exactly this operation is stored, execute or replay.  An import that is not stored is charged before
   its digest is computed, one that is stored after: only the work spent on it differs. *)
ReadImport(u, id, print) ==
  /\ awaiting[u]["import"] > 0
  /\ awaiting' = [awaiting EXCEPT ![u]["import"] = @ - 1]
  /\ Decide(u, "import", [source |-> "import", id |-> id, print |-> print])
  /\ UNCHANGED <<now, events>>

ReadCommand(u, id, print) ==
  /\ awaiting[u]["command"] > 0
  /\ awaiting' = [awaiting EXCEPT ![u]["command"] = @ - 1]
  /\ Decide(u, "command", [source |-> "tma", id |-> id, print |-> print])
  /\ UNCHANGED <<now, events>>

(* The client goes away, or its body is malformed or too large. *)
BodyFails(u, route) ==
  /\ awaiting[u][route] > 0
  /\ awaiting' = [awaiting EXCEPT ![u][route] = @ - 1]
  /\ UNCHANGED <<now, limiter, bank, events, history, memory>>

(* BankChatFlow.#execute: the update of a message that asks for the command; a dropped connection
   makes Telegram repeat it. *)
ChatCommand(u, id, print) ==
  /\ HasBank(u) /\ Happens
  /\ Decide(u, "command", [source |-> "telegram", id |-> id, print |-> print])
  /\ UNCHANGED <<now, awaiting>>

(* completeBankOutbox: the notice of a row has been sent, or Telegram refused it for good. *)
SettleNotice(u) ==
  /\ \E n \in pending[u] : pending' = [pending EXCEPT ![u] = @ \ {n}]
  /\ UNCHANGED <<now, limiter, awaiting, operations, rows, events, history, memory>>

Tick ==
  /\ now < MaxTime
  /\ now' = now + 1
  /\ UNCHANGED <<limiter, awaiting, bank, events, history, memory>>

(* Date.now() is the wall clock: it may be set back.  What was charged is then not comparable. *)
ClockSetBack ==
  /\ now > 0 /\ Happens
  /\ now' = now - 1
  /\ charged' = [u \in Users |-> Uncharged]
  /\ promised' = [u \in Users |-> Unpromised]
  /\ UNCHANGED <<limiter, awaiting, bank, others, memory>>

(* The limiter lives in memory, the operations do not. *)
Restart ==
  /\ Happens
  /\ tracked' = <<>>
  /\ entries' = [u \in Users |-> Fresh]
  /\ awaiting' = [u \in Users |-> [r \in Mutations |-> 0]]
  /\ charged' = [u \in Users |-> Uncharged]
  /\ promised' = [u \in Users |-> Unpromised]
  /\ others' = [u \in Users |-> {}]
  /\ UNCHANGED <<now, bank, memory>>

Done ==
  /\ events = MaxEvents /\ now = MaxTime
  /\ \A u \in Users, r \in Mutations : awaiting[u][r] = 0
  /\ UNCHANGED vars

Next ==
  \/ \E u \in Users : Bootstrap(u)
  \/ \E u \in Movers :
       \/ Rates(u) \/ SettleNotice(u)
       \/ \E r \in Mutations : Arrive(u, r) \/ BodyFails(u, r)
       \/ \E id \in Ids, print \in Prints :
            ReadImport(u, id, print) \/ ReadCommand(u, id, print) \/ ChatCommand(u, id, print)
  \/ Tick \/ ClockSetBack \/ Restart \/ Done

Spec == Init /\ [][Next]_vars

-----------------------------------------------------------------------------

(* The limiter tracks at most MaxTracked users, each once, and keeps no window of any other; no
   window counts more than its policy admits. *)
GatewayTypeOK ==
  /\ now \in 0..MaxTime
  /\ tracked \in Seq(Users) /\ IsInjective(tracked) /\ Len(tracked) <= MaxTracked
  /\ entries \in [Users -> [Kinds -> [start : {None} \cup 0..MaxTime, count : Nat]]]
  /\ \A u \in Users : u \notin ToSet(tracked) => entries[u] = Fresh
  /\ \A u \in Users, k \in Kinds : entries[u][k].count <= Maximum[k]
  /\ awaiting \in [Users -> [Mutations -> 0..MaxEvents]]
  /\ rows \in [Users -> Nat]
  /\ \A u \in Users : /\ operations[u] \subseteq [request : Requests, row : 1..rows[u]]
                      /\ pending[u] \subseteq 1..rows[u]

(* Two neighbouring windows are all a user can spend in any span of one window's length, over all its
   clients together, as long as the process runs, the clock is not set back, and fewer than
   MAX_TRACKED_USERS others called between two calls of it (consume of bot/rate-limit.ts). *)
SpanBounded ==
  \A u \in Users, k \in Kinds :
    LET times == charged[u][k]
    IN  \A i \in 1..(Len(times) - 2 * Maximum[k]) : times[i + 2 * Maximum[k]] - times[i] >= Window[k]

(* Making room for a user forgets none who is among the MAX_TRACKED_USERS most recent: a budget once
   spent is not fresh again because others arrived (#makeRoom and the refreshed order of consume).
   Nor does the limiter outgrow its memory. *)
RecentRemembered ==
  /\ GatewayTypeOK
  /\ \A u \in Users : (charged[u] # Uncharged /\ Recall(u)) => u \in ToSet(tracked)

(* A client that waits as long as a refusal told it to is admitted, unless its user spent the budget
   anew in between (the retry delay computed at the end of consume). *)
WaitIsEnough ==
  \A u \in Users, k \in Kinds :
    (promised[u][k] # None /\ promised[u][k] <= now) => Admits(u, k, FALSE)

(* Commands the retention cannot have deleted yet.  The notices that were pending when it made room
   count as if they had taken the place of newer commands. *)
Remembered(u, r) == r.request.source = "import" \/ rows[u] - r.row < Retained - peak[u]

Waited(u, k) == promised[u][k] # None /\ promised[u][k] <= now

(* A client whose operation was committed and whose answer was lost can still learn it: until as many
   newer commands as the retention keeps, less the notices it had to step over, its row is there and
   the first one with its key; a retry that is decided is answered from it, whatever other clients
   spent of the budget and whether the process restarted; and at the ingress, which charges
   every retry, waiting as long as the refusal said is enough.  Nothing is executed a second time for
   the key as long (handleBankImport, handleBankCommand, #execute of bot/bank-flow.ts, with
   #makeRoomForFreshUserOperation of bot/repository.ts). *)
RetriesLearn ==
  \A u \in Users : \A r \in book[u] : Remembered(u, r) =>
    /\ Answer(u, Budget(r.request), r.request) = "replayed"
    /\ \A q \in book[u] : SameKey(q.request, r.request) => q.row <= r.row
    /\ \A route \in Mutations : Waited(u, Ingress[route]) => Admits(u, Ingress[route], FALSE)
=============================================================================
