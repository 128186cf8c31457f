--------------------------- MODULE Gateway_proofs ---------------------------
(***************************************************************************)
(* Proofs that the request limiter of the bot service remembers and bounds *)
(* what Gateway says it does, for any number of users, any budgets and any *)
(* capacity of its map.                                                    *)
(***************************************************************************)
EXTENDS Gateway, FiniteSetTheorems, TLAPS

-----------------------------------------------------------------------------
(* One budget: the window of a user and a kind.                            *)

Entry == [start : {None} \cup 0..MaxTime, count : Nat]

\* No span of W holds more than 2 * M charges.
Span(times, M, W) ==
  \A i \in 1..(Len(times) - 2 * M) : times[i + 2 * M] - times[i] >= W

\* The window e, of M charges and length W, stands for the charges at times: all but its
\* own were made before it began, and all but its own and those of one window before, a
\* whole window earlier.  Whoever was told to come back at promise finds it over, unless it
\* has room.
Book(e, times, promise, M, W) ==
  /\ times # <<>> => e.start # None
  /\ \A j \in 1..(Len(times) - e.count) : times[j] <= e.start
  /\ \A j \in 1..(Len(times) - e.count - M) : times[j] + W <= e.start
  /\ promise # None => e.start = None \/ e.count < M \/ promise >= e.start + W

\* The window that a call at n falls in.
Renewed(e, n, W) ==
  IF e.start = None \/ n < e.start \/ n - e.start >= W THEN [start |-> n, count |-> 0] ELSE e

\* A window that is over gives way to an empty one.
LEMMA BookRenewed ==
  ASSUME NEW M \in Nat \ {0}, NEW W \in Nat \ {0}, NEW n \in 0..MaxTime, NEW e \in Entry,
         e.count <= M, NEW times \in Seq(0..n), NEW promise \in Int,
         Book(e, times, promise, M, W), times # <<>> => e.start <= n
  PROVE  LET c == Renewed(e, n, W) IN
         /\ c \in Entry /\ c.start \in 0..n /\ c.count <= M
         /\ Book(c, times, promise, M, W)
<1> DEFINE c == Renewed(e, n, W)
           L == Len(times)
<1>1. /\ MaxTime \in Nat /\ n \in Nat /\ L \in Nat
      /\ \A j \in 1..L : times[j] \in Nat /\ times[j] <= n
      /\ times = <<>> => L = 0
  BY GatewayAssumption
<1>2. e.start \in Int /\ e.count \in Nat /\ (e.start # None => e.start \in Nat)
  BY <1>1 DEF Entry, None
<1>3. CASE e.start = None \/ n < e.start \/ n - e.start >= W
  <2>1. c.start = n /\ c.count = 0 /\ c \in Entry /\ n # None
    BY <1>1, <1>3 DEF Entry, Renewed, None
  <2>2. ASSUME NEW j \in 1..(L - M) PROVE times[j] + W <= n
    <3>1. j \in 1..(L - e.count) /\ L # 0 /\ j \in 1..L
      BY <1>1, <1>2, <2>2
    <3>2. times[j] <= e.start /\ e.start # None /\ e.start <= n
      BY <1>1, <3>1 DEF Book
    <3>3. times[j] \in Nat
      BY <1>1, <3>1
    <3> HIDE DEF L
    <3>4. n - e.start >= W
      BY <1>1, <1>2, <1>3, <3>2
    <3>5. e.start + W <= n
      BY <1>1, <1>2, <3>4
    <3> QED BY <1>1, <1>2, <3>2, <3>3, <3>5
  <2>3. \A j \in 1..(L - c.count) : times[j] <= c.start
    BY <1>1, <2>1
  <2>4. \A j \in 1..(L - c.count - M) : times[j] + W <= c.start
    BY <1>1, <2>1, <2>2
  <2> HIDE DEF c
  <2>5. Book(c, times, promise, M, W)
    BY <2>1, <2>3, <2>4 DEF Book
  <2> QED BY <1>1, <2>1, <2>5 DEF c
<1>4. CASE ~(e.start = None \/ n < e.start \/ n - e.start >= W)
  <2>1. c = e
    BY <1>4 DEF Renewed
  <2>2. e.start \in 0..n
    BY <1>1, <1>2, <1>4
  <2> QED BY <2>1, <2>2
<1> QED BY <1>3, <1>4

\* A charge: the window before the previous one had ended a window's length ago.
LEMMA BookCharged ==
  ASSUME NEW M \in Nat \ {0}, NEW W \in Nat \ {0}, NEW n \in 0..MaxTime, NEW c \in Entry,
         c.start \in 0..n, c.count < M, NEW times \in Seq(0..n), NEW promise,
         Book(c, times, promise, M, W), Span(times, M, W)
  PROVE  LET d == [c EXCEPT !.count = @ + 1]
             longer == Append(times, n)
         IN  /\ Book(d, longer, None, M, W) /\ d \in Entry /\ d.start = c.start /\ d.count <= M
             /\ Span(longer, M, W) /\ longer \in Seq(0..n)
<1> DEFINE d == [c EXCEPT !.count = @ + 1]
           longer == Append(times, n)
           L == Len(times)
           s == c.start
           q == c.count
<1>1. /\ n \in Nat /\ L \in Nat /\ \A j \in 1..L : times[j] \in Nat
      /\ s \in Nat /\ s <= n /\ q \in Nat /\ q < M
  BY GatewayAssumption DEF Entry
<1>2. d \in Entry /\ d.start = s /\ d.count = q + 1
  BY <1>1 DEF Entry
<1>3. /\ longer \in Seq(0..n) /\ Len(longer) = L + 1 /\ longer[L + 1] = n
      /\ \A j \in 1..L : longer[j] = times[j]
  BY <1>1
<1>4. /\ \A j \in 1..(L - q) : times[j] <= s
      /\ \A j \in 1..(L - q - M) : times[j] + W <= s
  BY DEF Book
<1>5. \A i \in 1..(L - 2 * M) : times[i + 2 * M] - times[i] >= W
  BY DEF Span
<1> HIDE DEF d, longer, L, s, q
<1>6. Book(d, longer, None, M, W)
  <2>1. Len(longer) - d.count = L - q
    BY <1>1, <1>2, <1>3
  <2>2. ASSUME NEW j \in 1..(L - q) PROVE longer[j] <= d.start
    <3>1. j \in 1..L
      BY <1>1
    <3> QED BY <1>2, <1>3, <1>4, <3>1
  <2>3. ASSUME NEW j \in 1..(L - q - M) PROVE longer[j] + W <= d.start
    <3>1. j \in 1..L
      BY <1>1
    <3> QED BY <1>2, <1>3, <1>4, <3>1
  <2>4. d.start # None
    BY <1>1, <1>2 DEF None
  <2> QED BY <2>1, <2>2, <2>3, <2>4 DEF Book
<1>7. Span(longer, M, W)
  <2> SUFFICES ASSUME NEW i \in 1..(Len(longer) - 2 * M)
               PROVE  longer[i + 2 * M] - longer[i] >= W
    BY DEF Span
  <2>0. i \in 1..(L + 1 - 2 * M)
    <3>1. Len(longer) - 2 * M = L + 1 - 2 * M
      BY <1>1, <1>3
    <3> QED BY <3>1, Zenon
  <2>1. CASE i = L + 1 - 2 * M
    <3>1. i \in 1..(L - q - M) /\ i \in 1..L /\ i + 2 * M = L + 1
      BY <1>1, <2>0, <2>1
    <3>2. times[i] + W <= s /\ times[i] \in Nat
      BY <1>1, <1>4, <3>1
    <3>3. longer[i + 2 * M] = n /\ longer[i] = times[i]
      BY <1>3, <3>1
    <3>4. n - times[i] >= W
      BY <1>1, <3>2
    <3> QED BY <3>3, <3>4
  <2>2. CASE i # L + 1 - 2 * M
    <3>1. i \in 1..(L - 2 * M) /\ i \in 1..L /\ i + 2 * M \in 1..L
      BY <1>1, <2>0, <2>2
    <3> QED BY <1>3, <1>5, <3>1
  <2> QED BY <2>1, <2>2
<1>8. d.count <= M
  BY <1>1, <1>2
<1> QED BY <1>2, <1>3, <1>6, <1>7, <1>8 DEF d, longer, s

\* The delay of a refusal, rounded up to seconds, reaches the end of the window.
LEMMA CeilIsEnough ==
  ASSUME NEW t \in Int
  PROVE  CeilSeconds(t) \in Int /\ Second * CeilSeconds(t) >= t
<1>1. Second \in Nat \ {0}
  BY GatewayAssumption
<1> DEFINE x == t + Second - 1
<1>2. x \in Int
  BY <1>1
<1>3. /\ x \div Second \in Int /\ x % Second \in 0..(Second - 1)
      /\ x = Second * (x \div Second) + (x % Second)
  BY <1>1, <1>2
<1> DEFINE q == x \div Second
           m == Second * q
           r == x % Second
<1>4. q \in Int /\ m \in Int
  BY <1>1, <1>3
<1>5. x = m + r /\ r <= Second - 1 /\ r \in Int
  BY <1>1, <1>3
<1>6. x = t + Second - 1
  OBVIOUS
<1> HIDE DEF m, r, x
<1>7. m >= t
  BY <1>1, <1>2, <1>4, <1>5, <1>6
<1> QED BY <1>4, <1>7 DEF CeilSeconds, m, x

LEMMA MaxOfTwo ==
  ASSUME NEW a \in Int, NEW b \in Int
  PROVE  Max({a, b}) \in {a, b} /\ Max({a, b}) >= a /\ Max({a, b}) >= b
<1>1. \E m \in {a, b} : \A y \in {a, b} : m >= y
  <2>1. CASE a >= b
    BY <2>1
  <2>2. CASE b >= a
    BY <2>2
  <2> QED BY <2>1, <2>2
<1> QED BY <1>1 DEF Max

-----------------------------------------------------------------------------
(* The order of use.                                                       *)

\* The map lists every user once, before those who called since; nobody else did.
Recency(order, since) ==
  /\ order \in Seq(Users) /\ IsInjective(order) /\ Len(order) <= MaxTracked
  /\ since \in [Users -> SUBSET Users]
  /\ \A u \in Users : IsFiniteSet(since[u])
  /\ \A i \in 1..Len(order) : since[order[i]] \subseteq ToSet(order)
  /\ \A i, j \in 1..Len(order) : order[j] \in since[order[i]] <=> i < j

\* The sets of those who called since, after a call of u.
Since(since, u) == [v \in Users |-> IF v = u THEN {} ELSE since[v] \cup {u}]

LEMMA OrderSize ==
  ASSUME NEW order \in Seq(Users), IsInjective(order)
  PROVE  IsFiniteSet(ToSet(order)) /\ Cardinality(ToSet(order)) = Len(order)
<1>1. order \in Bijection(1..Len(order), ToSet(order))
  BY DEF Bijection, Injection, Surjection, ToSet
<1>2. ExistsBijection(1..Len(order), ToSet(order))
  BY <1>1 DEF ExistsBijection
<1>3. /\ Len(order) \in Nat /\ IsFiniteSet(1..Len(order))
      /\ Cardinality(1..Len(order)) = IF 1 > Len(order) THEN 0 ELSE Len(order) - 1 + 1
  BY FS_Interval
<1>4. Cardinality(1..Len(order)) = Len(order)
  BY <1>3
<1> HIDE DEF Cardinality
<1> QED BY <1>2, <1>3, <1>4, FS_Bijection

\* Fewer than MAX_TRACKED_USERS called since a tracked user did, and all that remain tracked
\* called since the least recent one.
LEMMA RecencyCounts ==
  ASSUME NEW order, NEW since, Recency(order, since)
  PROVE  /\ \A i \in 1..Len(order) : Cardinality(since[order[i]]) < MaxTracked
         /\ \A u \in Users : (Len(order) = MaxTracked /\ u \notin ToSet(order)) =>
              Cardinality(since[order[1]] \cup {u}) >= MaxTracked
<1> DEFINE all == ToSet(order)
<1>1. order \in Seq(Users) /\ Len(order) \in Nat /\ MaxTracked \in Nat \ {0}
  BY GatewayAssumption DEF Recency
<1>2. IsFiniteSet(all) /\ Cardinality(all) = Len(order)
  BY <1>1, OrderSize DEF Recency
<1>3. ASSUME NEW i \in 1..Len(order) PROVE Cardinality(since[order[i]]) < MaxTracked
  <2> DEFINE x == order[i]
  <2>1. x \in all /\ since[x] \subseteq all \ {x}
    BY <1>1, <1>3 DEF Recency, ToSet
  <2>2. IsFiniteSet(all \ {x}) /\ Cardinality(all \ {x}) = Len(order) - 1
    BY <1>2, <2>1, FS_RemoveElement
  <2>3. IsFiniteSet(since[x]) /\ Cardinality(since[x]) <= Len(order) - 1
    BY <2>1, <2>2, FS_Subset
  <2>4. Cardinality(since[x]) \in Nat
    BY <2>3, FS_CardinalityType
  <2>5. Len(order) <= MaxTracked
    BY DEF Recency
  <2> QED BY <1>1, <2>3, <2>4, <2>5
<1>4. ASSUME NEW u \in Users, Len(order) = MaxTracked, u \notin all
      PROVE  Cardinality(since[order[1]] \cup {u}) >= MaxTracked
  <2> DEFINE x == order[1]
             rest == (all \ {x}) \cup {u}
  <2>1. 1 \in 1..Len(order) /\ x \in all /\ x \in Users
    BY <1>1, <1>4 DEF ToSet
  <2>2. IsFiniteSet(all \ {x}) /\ Cardinality(all \ {x}) = Len(order) - 1
    BY <1>2, <2>1, FS_RemoveElement
  <2>3. Cardinality(rest) = Cardinality(all \ {x}) + 1
    BY <1>4, <2>2, FS_AddElement
  <2>4. all \ {x} \subseteq since[x]
    <3> SUFFICES ASSUME NEW y \in all, y # x PROVE y \in since[x]
      OBVIOUS
    <3>1. PICK j \in 1..Len(order) : y = order[j]
      BY <1>1 DEF ToSet
    <3>2. 1 < j
      BY <3>1
    <3> QED BY <2>1, <3>1, <3>2 DEF Recency
  <2>5. IsFiniteSet(since[x] \cup {u})
    BY <2>1, FS_AddElement DEF Recency
  <2>6. Cardinality(rest) <= Cardinality(since[x] \cup {u})
    BY <2>4, <2>5, FS_Subset
  <2>7. Cardinality(since[x] \cup {u}) \in Nat
    BY <2>5, FS_CardinalityType
  <2> QED BY <1>1, <1>4, <2>2, <2>3, <2>6, <2>7
<1> QED BY <1>3, <1>4

\* A call puts its user last, where the user stood (at p) or, for the least recent one (p = 1),
\* somebody else made room; past the end of the map, nobody did.
LEMMA RecencyKept ==
  ASSUME NEW order, NEW since, Recency(order, since), NEW u \in Users,
         NEW p \in 1..(Len(order) + 1),
         NEW rest \in Seq(Users),
         Len(rest) = (IF p = Len(order) + 1 THEN Len(order) ELSE Len(order) - 1),
         Len(rest) < MaxTracked,
         \A i \in 1..Len(rest) : rest[i] = order[IF i < p THEN i ELSE i + 1],
         \A i \in 1..Len(order) : i # p => order[i] # u,
         p = Len(order) + 1 \/ p = 1 \/ order[p] = u
  PROVE  /\ Recency(Append(rest, u), Since(since, u))
         /\ ToSet(Append(rest, u)) = {order[i] : i \in (1..Len(order)) \ {p}} \cup {u}
<1> DEFINE L == Len(order)
           N == Len(rest)
           longer == Append(rest, u)
           later == Since(since, u)
           g(i) == IF i < p THEN i ELSE i + 1
<1>1. /\ order \in Seq(Users) /\ L \in Nat /\ MaxTracked \in Nat \ {0} /\ N \in Nat
      /\ \A i \in 1..L : order[i] \in Users
  BY GatewayAssumption DEF Recency
<1>2. /\ longer \in Seq(Users) /\ Len(longer) = N + 1 /\ longer[N + 1] = u
      /\ \A i \in 1..N : longer[i] = order[g(i)]
  BY <1>1
<1>3. p \in Nat /\ (p = L + 1 => N = L) /\ (p # L + 1 => N = L - 1 /\ p <= L)
  BY <1>1
<1>4. ASSUME NEW i \in 1..N PROVE g(i) \in 1..L /\ g(i) # p
  BY <1>1, <1>3
<1>5. ASSUME NEW i \in 1..N, NEW j \in 1..N PROVE (g(i) = g(j) <=> i = j) /\ (g(i) < g(j) <=> i < j)
  BY <1>1, <1>3
<1>6. ASSUME NEW m \in 1..L, m # p PROVE \E i \in 1..N : g(i) = m
  <2>1. CASE m < p
    <3>1. m \in 1..N /\ g(m) = m
      BY <1>1, <1>3, <2>1
    <3> QED BY <3>1
  <2>2. CASE m > p
    <3>1. m - 1 \in 1..N /\ g(m - 1) = m
      BY <1>1, <1>3, <2>2
    <3> QED BY <3>1
  <2> QED BY <1>1, <1>3, <1>6, <2>1, <2>2
<1>7. \A i \in 1..L : i # p => order[i] # u
  OBVIOUS
<1>8. p = L + 1 \/ p = 1 \/ order[p] = u
  OBVIOUS
<1>9. \A i, j \in 1..L : order[i] = order[j] => i = j
  BY <1>1 DEF Recency, IsInjective
<1>10. /\ \A i \in 1..L : since[order[i]] \subseteq ToSet(order)
       /\ \A i, j \in 1..L : order[j] \in since[order[i]] <=> i < j
       /\ \A v \in Users : since[v] \subseteq Users /\ IsFiniteSet(since[v])
  BY DEF Recency
<1>11. /\ \A v \in Users : later[v] = IF v = u THEN {} ELSE since[v] \cup {u}
       /\ later \in [Users -> SUBSET Users]
  BY <1>10 DEF Since
<1>12. N + 1 <= MaxTracked
  BY <1>1
<1>13. ToSet(order) = {order[i] : i \in 1..L} /\ ToSet(longer) = {longer[i] : i \in 1..(N + 1)}
  BY <1>1, <1>2 DEF ToSet
<1> HIDE DEF L, N, longer, later, g
<1>14. ASSUME NEW i \in 1..N
       PROVE  i \in 1..(N + 1) /\ longer[i] \in Users /\ longer[i] # u /\ longer[i] = order[g(i)]
              /\ later[longer[i]] = since[order[g(i)]] \cup {u}
  <2>1. g(i) \in 1..L /\ g(i) # p /\ i \in 1..(N + 1)
    BY <1>1, <1>4
  <2>2. longer[i] = order[g(i)]
    BY <1>2
  <2> QED BY <1>1, <1>7, <1>11, <2>1, <2>2
<1>15. N + 1 \in 1..(N + 1) /\ longer[N + 1] = u /\ later[u] = {}
  BY <1>1, <1>2, <1>11
<1>16. \A i \in 1..(N + 1) : i \in 1..N \/ i = N + 1
  BY <1>1
<1>17. IsInjective(longer)
  <2> SUFFICES ASSUME NEW i \in 1..(N + 1), NEW j \in 1..(N + 1), longer[i] = longer[j] PROVE i = j
    BY <1>2 DEF IsInjective
  <2>1. CASE i \in 1..N /\ j \in 1..N
    BY <1>4, <1>5, <1>9, <1>14, <2>1
  <2> QED BY <1>14, <1>15, <1>16, <2>1
<1>18. \A v \in Users : IsFiniteSet(later[v])
  <2> SUFFICES ASSUME NEW v \in Users PROVE IsFiniteSet(later[v])
    OBVIOUS
  <2>1. IsFiniteSet(since[v] \cup {u}) /\ IsFiniteSet({})
    BY <1>10, FS_AddElement, FS_EmptySet
  <2> QED BY <1>11, <2>1
<1>19. ASSUME NEW i \in 1..(N + 1), NEW x \in later[longer[i]] PROVE x \in ToSet(longer)
  <2>1. CASE i = N + 1
    BY <1>15, <1>19, <2>1
  <2>2. CASE i \in 1..N
    <3>1. CASE x = u
      BY <1>13, <1>15, <3>1
    <3>2. CASE x # u
      <4>1. g(i) \in 1..L /\ x \in since[order[g(i)]]
        BY <1>4, <1>14, <1>19, <2>2, <3>2
      <4>2. PICK m \in 1..L : x = order[m]
        BY <1>10, <1>13, <4>1
      <4>3. g(i) < m
        BY <1>10, <4>1, <4>2
      <4>4. m # p
        <5> SUFFICES ASSUME m = p PROVE FALSE
          OBVIOUS
        <5>1. p # L + 1 /\ order[p] # u
          BY <1>1, <3>2, <4>2
        <5>2. p = 1
          BY <1>8, <5>1
        <5> QED BY <1>1, <4>1, <4>3, <5>2
      <4>5. PICK j \in 1..N : g(j) = m
        BY <1>6, <4>4
      <4> QED BY <1>13, <1>14, <4>2, <4>5
    <3> QED BY <3>1, <3>2
  <2> QED BY <1>16, <2>1, <2>2
<1>20. ASSUME NEW i \in 1..(N + 1), NEW j \in 1..(N + 1)
       PROVE  longer[j] \in later[longer[i]] <=> i < j
  <2>1. CASE i = N + 1
    <3>1. ~(i < j)
      BY <1>1, <2>1
    <3> QED BY <1>15, <2>1, <3>1
  <2>2. CASE i \in 1..N /\ j = N + 1
    <3>1. i < j
      BY <1>1, <2>2
    <3>2. u \in later[longer[i]]
      BY <1>14, <2>2
    <3> QED BY <1>15, <2>2, <3>1, <3>2
  <2>3. CASE i \in 1..N /\ j \in 1..N
    <3>1. longer[j] # u /\ longer[j] = order[g(j)] /\ later[longer[i]] = since[order[g(i)]] \cup {u}
      BY <1>14, <2>3
    <3>2. order[g(j)] \in since[order[g(i)]] <=> g(i) < g(j)
      BY <1>4, <1>10, <2>3
    <3>3. g(i) < g(j) <=> i < j
      BY <1>5, <2>3
    <3> QED BY <3>1, <3>2, <3>3
  <2> QED BY <1>16, <2>1, <2>2, <2>3
<1>21. Recency(longer, later)
  BY <1>2, <1>11, <1>12, <1>17, <1>18, <1>19, <1>20 DEF Recency
<1>22. ToSet(longer) = {order[i] : i \in (1..L) \ {p}} \cup {u}
  <2>1. ASSUME NEW x \in ToSet(longer) PROVE x \in {order[i] : i \in (1..L) \ {p}} \cup {u}
    <3>1. PICK i \in 1..(N + 1) : x = longer[i]
      BY <1>13
    <3>2. CASE i \in 1..N
      BY <1>4, <1>14, <3>1, <3>2
    <3> QED BY <1>15, <1>16, <3>1, <3>2
  <2>2. ASSUME NEW m \in (1..L) \ {p} PROVE order[m] \in ToSet(longer)
    BY <1>6, <1>13, <1>14
  <2>3. u \in ToSet(longer)
    BY <1>13, <1>15
  <2> QED BY <2>1, <2>2, <2>3
<1> QED BY <1>21, <1>22 DEF longer, later, L

\* A sequence without its element at i.
LEMMA WithoutOne ==
  ASSUME NEW S, NEW s \in Seq(S), NEW i \in 1..Len(s)
  PROVE  /\ RemoveAt(s, i) \in Seq(S) /\ Len(RemoveAt(s, i)) = Len(s) - 1
         /\ \A j \in 1..(Len(s) - 1) : RemoveAt(s, i)[j] = s[IF j < i THEN j ELSE j + 1]
<1> DEFINE L == Len(s)
           a == SubSeq(s, 1, i - 1)
           b == SubSeq(s, i + 1, L)
<1>1. L \in Nat /\ i \in Nat /\ 1 <= i /\ i <= L
  OBVIOUS
<1>2. Len(a) = i - 1 /\ \A j \in 1..(i - 1) : a[j] = s[j]
  BY <1>1
<1>3. Len(b) = L - i /\ \A j \in 1..(L - i) : b[j] = s[i + j]
  BY <1>1
<1>4. a \in Seq(S) /\ b \in Seq(S)
  BY <1>1
<1> HIDE DEF a, b, L
<1>5. a \o b \in Seq(S) /\ Len(a \o b) = L - 1
  <2>1. a \o b \in Seq(S) /\ Len(a \o b) = Len(a) + Len(b)
    BY <1>4
  <2>2. (i - 1) + (L - i) = L - 1
    BY <1>1
  <2>3. Len(a) = i - 1 /\ Len(b) = L - i
    BY <1>2, <1>3
  <2> QED BY <2>1, <2>2, <2>3
<1>6. ASSUME NEW j \in 1..(L - 1) PROVE (a \o b)[j] = s[IF j < i THEN j ELSE j + 1]
  <2>1. CASE j < i
    BY <1>1, <1>2, <1>3, <1>4, <2>1
  <2>2. CASE ~(j < i)
    <3>1. j - (i - 1) \in 1..(L - i) /\ i + (j - (i - 1)) = j + 1
      BY <1>1, <2>2
    <3>2. (a \o b)[j] = b[j - (i - 1)]
      BY <1>1, <1>2, <1>3, <1>4, <2>2
    <3> QED BY <1>3, <2>2, <3>1, <3>2
  <2> QED BY <2>1, <2>2
<1> QED BY <1>5, <1>6 DEF RemoveAt, a, b, L

LEMMA RefreshedKeeps ==
  ASSUME Recency(tracked, others), NEW u \in Users
  PROVE  /\ Recency(Refreshed(u), Since(others, u))
         /\ ToSet(Refreshed(u)) = (ToSet(tracked) \ Room(u)) \cup {u}
<1> DEFINE L == Len(tracked)
<1>0. /\ tracked \in Seq(Users) /\ L \in Nat /\ MaxTracked \in Nat \ {0} /\ L <= MaxTracked
  BY GatewayAssumption DEF Recency
<1>1. /\ tracked \in Seq(Users) /\ L \in Nat /\ MaxTracked \in Nat \ {0} /\ L <= MaxTracked
      /\ DOMAIN tracked = 1..L /\ ToSet(tracked) = {tracked[i] : i \in 1..L}
      /\ \A i, j \in 1..L : tracked[i] = tracked[j] => i = j
  BY GatewayAssumption DEF Recency, IsInjective, ToSet
<1>2. CASE u \in ToSet(tracked)
  <2> DEFINE p == CHOOSE i \in DOMAIN tracked : tracked[i] = u
             rest == RemoveAt(tracked, p)
  <2>1. p \in 1..L /\ tracked[p] = u
    BY <1>1, <1>2
  <2>2. Refreshed(u) = Append(rest, u) /\ Room(u) = {}
    BY <1>2 DEF Refreshed, Without, Room
  <2> HIDE DEF p
  <2>3. /\ rest \in Seq(Users) /\ Len(rest) = L - 1
        /\ \A i \in 1..(L - 1) : rest[i] = tracked[IF i < p THEN i ELSE i + 1]
    BY <1>0, <2>1, WithoutOne, Zenon
  <2> HIDE DEF rest
  <2>4. Len(rest) = (IF p = L + 1 THEN L ELSE L - 1) /\ Len(rest) < MaxTracked
    <3>1. p # L + 1 /\ L - 1 < MaxTracked /\ Len(rest) = L - 1
      BY <1>0, <2>1, <2>3
    <3> QED BY <3>1
  <2>5. \A i \in 1..Len(rest) : rest[i] = tracked[IF i < p THEN i ELSE i + 1]
    BY <2>3
  <2>6. \A i \in 1..L : i # p => tracked[i] # u
    BY <1>1, <2>1
  <2>7. p \in 1..(L + 1) /\ rest \in Seq(Users)
    BY <1>0, <2>1, <2>3
  <2>8. /\ Recency(Append(rest, u), Since(others, u))
        /\ ToSet(Append(rest, u)) = {tracked[i] : i \in (1..L) \ {p}} \cup {u}
    <3>1. p = L + 1 \/ p = 1 \/ tracked[p] = u
      BY <2>1
    <3> QED BY <2>4, <2>5, <2>6, <2>7, <3>1, RecencyKept, SMTT(60)
  <2>9. {tracked[i] : i \in (1..L) \ {p}} \cup {u} = ToSet(tracked) \cup {u}
    BY <1>1, <2>1
  <2> QED BY <2>2, <2>8, <2>9
<1>3. CASE u \notin ToSet(tracked)
  <2>1. Refreshed(u) = Append(Spared, u) /\ Room(u) = Evicted
    BY <1>3 DEF Refreshed, Room
  <2>2. \A i \in 1..L : tracked[i] # u
    BY <1>1, <1>3
  <2>3. CASE L < MaxTracked
    <3>1. Spared = tracked /\ Evicted = {}
      BY <2>3 DEF Spared, Evicted
    <3>2. /\ L + 1 \in 1..(L + 1) /\ \A i \in 1..L : i < L + 1 /\ i # L + 1
      BY <1>1
    <3>3. /\ Recency(Append(tracked, u), Since(others, u))
          /\ ToSet(Append(tracked, u)) = {tracked[i] : i \in (1..L) \ {L + 1}} \cup {u}
      BY <1>1, <2>2, <2>3, <3>2, RecencyKept
    <3> QED BY <1>1, <2>1, <3>1, <3>2, <3>3
  <2>4. CASE L = MaxTracked
    <3> DEFINE rest == Tail(tracked)
    <3>1. Spared = rest /\ Evicted = {Head(tracked)} /\ Head(tracked) = tracked[1] /\ L # 0
      BY <1>1, <2>4 DEF Spared, Evicted
    <3>2. /\ rest \in Seq(Users) /\ Len(rest) = L - 1
          /\ \A i \in 1..(L - 1) : rest[i] = tracked[i + 1]
      BY <1>1, <3>1
    <3>3. /\ 1 \in 1..(L + 1) /\ 1 # L + 1 /\ Len(rest) < MaxTracked
          /\ \A i \in 1..(L - 1) : ~(i < 1)
      BY <1>1, <3>1, <3>2
    <3> HIDE DEF rest
    <3>4. /\ Recency(Append(rest, u), Since(others, u))
          /\ ToSet(Append(rest, u)) = {tracked[i] : i \in (1..L) \ {1}} \cup {u}
      BY <2>2, <3>2, <3>3, RecencyKept
    <3>5. {tracked[i] : i \in (1..L) \ {1}} = ToSet(tracked) \ {tracked[1]}
      BY <1>1, <3>1
    <3> QED BY <2>1, <3>1, <3>4, <3>5
  <2>5. L < MaxTracked \/ L = MaxTracked
    BY <1>0
  <2> QED BY <2>3, <2>4, <2>5
<1> QED BY <1>2, <1>3

-----------------------------------------------------------------------------
(* The limiter: every budget with its window, its history and the order of *)
(* use.                                                                    *)

\* What the charges and the promise of a kind say of its window, if the user is tracked.
Cell(e, times, promise, mine, n, k) ==
  /\ e.count <= Maximum[k]
  /\ Span(times, Maximum[k], Window[k])
  /\ mine => /\ Book(e, times, promise, Maximum[k], Window[k])
             /\ times # <<>> => e.start <= n

Limits ==
  /\ now \in 0..MaxTime
  /\ Recency(tracked, others)
  /\ entries \in [Users -> [Kinds -> Entry]]
  /\ charged \in [Users -> [Kinds -> Seq(0..now)]]
  /\ promised \in [Users -> [Kinds -> Int]]
  /\ \A u \in Users : u \notin ToSet(tracked) =>
       entries[u] = Fresh /\ (charged[u] = Uncharged \/ ~Recall(u))
  /\ \A u \in Users, k \in Kinds :
       Cell(entries[u][k], charged[u][k], promised[u][k], u \in ToSet(tracked), now, k)

\* The charges that a call of u remembers.
Known(u) == IF Recall(u) THEN charged[u] ELSE Uncharged

LEMMA Budgets ==
  ASSUME NEW k \in Kinds
  PROVE  Maximum[k] \in Nat \ {0} /\ Window[k] \in Nat \ {0} /\ MaxTime \in Nat /\ Second \in Nat \ {0}
BY GatewayAssumption

\* What is remembered of a caller fits the windows it finds: all of it if it is tracked, else nothing.
LEMMA KnownFits ==
  ASSUME Limits, NEW u \in Users
  PROVE  /\ (IF u \in ToSet(tracked) THEN entries[u] ELSE Fresh) = entries[u]
         /\ u \notin ToSet(tracked) => Known(u) = Uncharged /\ entries[u] = Fresh
         /\ Known(u) \in [Kinds -> Seq(0..now)]
         /\ \A k \in Kinds : Cell(entries[u][k], Known(u)[k], promised[u][k], TRUE, now, k)
<1>1. ASSUME u \in ToSet(tracked) PROVE Known(u) = charged[u]
  <2>1. PICK i \in 1..Len(tracked) : u = tracked[i]
    BY <1>1 DEF Limits, Recency, ToSet
  <2>2. Recency(tracked, others)
    BY DEF Limits
  <2>3. Cardinality(others[u]) < MaxTracked
    BY <2>1, <2>2, RecencyCounts
  <2> QED BY <2>3 DEF Known, Recall
<1>2. ASSUME u \notin ToSet(tracked) PROVE Known(u) = Uncharged /\ entries[u] = Fresh
  BY <1>2 DEF Known, Limits
<1>3. Uncharged \in [Kinds -> Seq(0..now)] /\ charged[u] \in [Kinds -> Seq(0..now)]
  BY DEF Limits, Uncharged
<1>4. ASSUME NEW k \in Kinds PROVE Cell(entries[u][k], Known(u)[k], promised[u][k], TRUE, now, k)
  <2>1. Cell(entries[u][k], charged[u][k], promised[u][k], u \in ToSet(tracked), now, k)
    BY DEF Limits
  <2>2. CASE u \in ToSet(tracked)
    BY <1>1, <2>1, <2>2 DEF Cell
  <2>3. CASE u \notin ToSet(tracked)
    <3>1. Known(u)[k] = <<>> /\ entries[u][k] = NoEntry
      BY <1>2, <2>3 DEF Uncharged, Fresh
    <3> DEFINE M == Maximum[k]
               W == Window[k]
    <3>2. M \in Nat \ {0} /\ W \in Nat \ {0}
      BY Budgets
    <3> HIDE DEF M, W
    <3>3. Len(<<>>) = 0 /\ NoEntry.start = None /\ NoEntry.count = 0
      BY DEF NoEntry
    <3>4. Span(<<>>, M, W) /\ Book(NoEntry, <<>>, promised[u][k], M, W) /\ NoEntry.count <= M
      BY <3>2, <3>3 DEF Span, Book
    <3> QED BY <3>1, <3>4 DEF Cell, M, W
  <2> QED BY <2>2, <2>3
<1>5. Known(u) \in [Kinds -> Seq(0..now)]
  BY <1>3 DEF Known
<1> QED BY <1>1, <1>2, <1>4, <1>5

\* The window a call falls in fits what is remembered.
LEMMA CurrentFits ==
  ASSUME Limits, NEW u \in Users, NEW k \in Kinds
  PROVE  /\ Current(u, k) \in Entry /\ Current(u, k).start \in 0..now
         /\ Cell(Current(u, k), Known(u)[k], promised[u][k], TRUE, now, k)
<1> DEFINE M == Maximum[k]
           W == Window[k]
           e == entries[u][k]
           times == Known(u)[k]
           promise == promised[u][k]
<1>1. M \in Nat \ {0} /\ W \in Nat \ {0} /\ MaxTime \in Nat
  BY Budgets
<1>2. Current(u, k) = Renewed(e, now, W)
  <2>1. CASE u \in ToSet(tracked)
    BY <2>1 DEF Current, Renewed, Over
  <2>2. CASE u \notin ToSet(tracked)
    <3>1. e = NoEntry
      BY <2>2, KnownFits DEF Fresh
    <3>2. e.start = None
      BY <3>1 DEF NoEntry
    <3> QED BY <2>2, <3>2 DEF Current, Renewed
  <2> QED BY <2>1, <2>2
<1>3. e \in Entry /\ times \in Seq(0..now) /\ promise \in Int /\ now \in 0..MaxTime
  BY KnownFits DEF Limits
<1>4. Cell(e, times, promise, TRUE, now, k)
  BY KnownFits
<1>5. /\ e.count <= M /\ Span(times, M, W) /\ Book(e, times, promise, M, W)
      /\ times # <<>> => e.start <= now
  BY <1>4 DEF Cell
<1> DEFINE c == Renewed(e, now, W)
<1> HIDE DEF M, W, e, times, promise
<1>6. /\ c \in Entry /\ c.start \in 0..now /\ c.count <= M
      /\ Book(c, times, promise, M, W)
  BY <1>1, <1>3, <1>5, BookRenewed
<1>7. c.start <= now
  BY <1>1, <1>3, <1>6
<1>8. Cell(c, times, promise, TRUE, now, k)
  BY <1>5, <1>6, <1>7 DEF Cell, M, W
<1> HIDE DEF c
<1> QED BY <1>2, <1>6, <1>8 DEF c, times, promise

\* A refused caller is told to come back when the window it fell in is over.
LEMMA RefusalReaches ==
  ASSUME Limits, NEW u \in Users, NEW k \in Kinds
  PROVE  /\ now + Second * RetryAfter(u, k) \in Int
         /\ now + Second * RetryAfter(u, k) >= Current(u, k).start + Window[k]
<1> DEFINE s == Current(u, k).start
           W == Window[k]
           t == s + W - now
           c == CeilSeconds(t)
           r == RetryAfter(u, k)
<1>1. s \in Int /\ W \in Int /\ now \in Int /\ Second \in Nat \ {0}
  <2>1. s \in 0..now /\ now \in 0..MaxTime
    BY CurrentFits DEF Limits
  <2>2. W \in Int /\ Second \in Nat \ {0} /\ MaxTime \in Nat
    BY Budgets
  <2> QED BY <2>1, <2>2
<1>2. t \in Int
  BY <1>1
<1>3. r = Max({1, c})
  BY DEF RetryAfter
<1>4. t = s + W - now
  OBVIOUS
<1> HIDE DEF s, W, t, r
<1>5. c \in Int /\ Second * c >= t
  BY <1>2, CeilIsEnough
<1> HIDE DEF c
<1>6. r \in Int /\ r >= c
  BY <1>3, <1>5, MaxOfTwo
<1>7. Second * r \in Int /\ Second * r >= Second * c /\ Second * c \in Int
  BY <1>1, <1>5, <1>6
<1> DEFINE x == Second * r
           y == Second * c
<1>8. x \in Int /\ y \in Int /\ x >= y /\ y >= t
  BY <1>5, <1>7
<1> HIDE DEF x, y
<1>9. now + x \in Int /\ now + x >= s + W
  BY <1>1, <1>2, <1>4, <1>8
<1> QED BY <1>9 DEF x, s, W, r

\* The window called and its history.
LEMMA CalledCellKept ==
  ASSUME Limits, NEW u \in Users, NEW k \in Kinds, NEW replay \in BOOLEAN,
         NEW admitted \in BOOLEAN, admitted = Admits(u, k, replay),
         NEW e, e = Charge(Current(u, k), replay, admitted),
         NEW times, times = IF admitted /\ ~replay THEN Append(Known(u)[k], now) ELSE Known(u)[k],
         NEW promise, promise = IF ~admitted THEN now + Second * RetryAfter(u, k)
                                ELSE IF ~replay THEN None ELSE promised[u][k]
  PROVE  /\ e \in Entry /\ times \in Seq(0..now) /\ promise \in Int
         /\ Cell(e, times, promise, TRUE, now, k)
<1> DEFINE M == Maximum[k]
           W == Window[k]
           c == Current(u, k)
           old == Known(u)[k]
           was == promised[u][k]
           back == now + Second * RetryAfter(u, k)
<1>1. M \in Nat \ {0} /\ W \in Nat \ {0} /\ MaxTime \in Nat
  BY Budgets
<1>2. now \in 0..MaxTime /\ old \in Seq(0..now) /\ was \in Int
  BY KnownFits DEF Limits
<1>3. c \in Entry /\ c.start \in 0..now /\ Cell(c, old, was, TRUE, now, k)
  BY CurrentFits
<1>4. /\ c.count <= M /\ Span(old, M, W) /\ Book(c, old, was, M, W)
      /\ old # <<>> => c.start <= now
  BY <1>3 DEF Cell
<1>5. c.count \in Nat /\ c.start \in Nat
  BY <1>1, <1>2, <1>3 DEF Entry
<1>6. admitted = (replay \/ c.count < M)
  BY DEF Admits, HasBudget
<1>7. back \in Int /\ back >= c.start + W
  BY RefusalReaches
<1>8. e = IF admitted /\ ~replay THEN [c EXCEPT !.count = @ + 1] ELSE c
  BY DEF Charge
<1>9. /\ times = IF admitted /\ ~replay THEN Append(old, now) ELSE old
      /\ promise = IF ~admitted THEN back ELSE IF ~replay THEN None ELSE was
  OBVIOUS
<1> HIDE DEF M, W, c, old, was, back
<1>10. CASE admitted /\ ~replay
  <2> DEFINE d == [c EXCEPT !.count = @ + 1]
             longer == Append(old, now)
  <2>1. c.count < M
    BY <1>6, <1>10
  <2>2. /\ Book(d, longer, None, M, W) /\ d \in Entry /\ d.start = c.start /\ d.count <= M
        /\ Span(longer, M, W) /\ longer \in Seq(0..now)
    BY <1>1, <1>2, <1>3, <1>4, <2>1, BookCharged
  <2>3. e = d /\ times = longer /\ promise = None
    BY <1>8, <1>9, <1>10
  <2> HIDE DEF d, longer
  <2>4. e.start <= now
    BY <1>1, <1>2, <1>3, <2>2, <2>3
  <2>5. Cell(e, times, promise, TRUE, now, k)
    BY <2>2, <2>3, <2>4 DEF Cell, M, W
  <2>6. None \in Int
    BY DEF None
  <2> QED BY <2>2, <2>3, <2>5, <2>6
<1>11. CASE ~admitted
  <2>1. e = c /\ times = old /\ promise = back
    BY <1>8, <1>9, <1>11
  <2>2. Book(c, old, back, M, W)
    BY <1>4, <1>7 DEF Book
  <2>3. Cell(e, times, promise, TRUE, now, k)
    BY <1>4, <2>1, <2>2 DEF Cell, M, W
  <2> QED BY <1>2, <1>3, <1>7, <2>1, <2>3
<1>12. CASE admitted /\ replay
  <2>1. e = c /\ times = old /\ promise = was
    BY <1>8, <1>9, <1>12
  <2> QED BY <1>2, <1>3, <2>1
<1> QED BY <1>10, <1>11, <1>12

LEMMA ConsumeKeeps ==
  ASSUME Limits, NEW u \in Users, NEW k \in Kinds, NEW replay \in BOOLEAN,
         Consume(u, k, replay), now' = now
  PROVE  Limits'
<1> DEFINE admitted == Admits(u, k, replay)
           c == Current(u, k)
           known == Known(u)
           e == Charge(c, replay, admitted)
           times == IF admitted /\ ~replay THEN Append(known[k], now) ELSE known[k]
           promise == IF ~admitted THEN now + Second * RetryAfter(u, k)
                      ELSE IF ~replay THEN None ELSE promised[u][k]
<1>1. tracked' = Refreshed(u) /\ others' = Since(others, u)
  BY DEF Consume, Since
<1>2. admitted \in BOOLEAN
  BY DEF Admits, HasBudget
<1>3. /\ e \in Entry /\ times \in Seq(0..now) /\ promise \in Int
      /\ Cell(e, times, promise, TRUE, now, k)
  BY <1>2, CalledCellKept
<1>4. /\ now \in 0..MaxTime /\ Recency(tracked, others)
      /\ entries \in [Users -> [Kinds -> Entry]]
      /\ charged \in [Users -> [Kinds -> Seq(0..now)]]
      /\ promised \in [Users -> [Kinds -> Int]]
  BY DEF Limits
<1>5. /\ (IF u \in ToSet(tracked) THEN entries[u] ELSE Fresh) = entries[u]
      /\ known \in [Kinds -> Seq(0..now)]
      /\ \A q \in Kinds : Cell(entries[u][q], known[q], promised[u][q], TRUE, now, q)
  BY KnownFits
<1>6. entries' = [v \in Users |->
                    IF v = u THEN [entries[u] EXCEPT ![k] = e]
                    ELSE IF v \in Room(u) THEN Fresh ELSE entries[v]]
  BY <1>5 DEF Consume, Entered
<1>7. charged' = [charged EXCEPT ![u] = [known EXCEPT ![k] = times]]
  <2>1. CASE admitted /\ ~replay
    BY <2>1 DEF Consume, Known
  <2>2. CASE ~(admitted /\ ~replay)
    <3>1. charged' = [charged EXCEPT ![u] = known] /\ times = known[k]
      BY <2>2 DEF Consume, Known
    <3>2. known = [known EXCEPT ![k] = known[k]]
      BY <1>5
    <3> HIDE DEF known, times
    <3> QED BY <3>1, <3>2
  <2> QED BY <2>1, <2>2
<1>8. promised' = [promised EXCEPT ![u][k] = promise]
  BY <1>2 DEF Consume
<1> HIDE DEF admitted, c, known, e, times, promise
<1>9. Recency(tracked', others') /\ ToSet(tracked') = (ToSet(tracked) \ Room(u)) \cup {u}
  BY <1>1, <1>4, RefreshedKeeps
<1>10. /\ entries'[u] = [entries[u] EXCEPT ![k] = e]
       /\ \A v \in Users \ {u} : entries'[v] = IF v \in Room(u) THEN Fresh ELSE entries[v]
       /\ charged'[u] = [known EXCEPT ![k] = times]
       /\ \A v \in Users \ {u} : charged'[v] = charged[v]
       /\ promised'[u] = [promised[u] EXCEPT ![k] = promise]
       /\ \A v \in Users \ {u} : promised'[v] = promised[v]
  BY <1>4, <1>6, <1>7, <1>8
<1>11. Fresh \in [Kinds -> Entry] /\ \A q \in Kinds : Fresh[q].count = 0
  BY DEF Fresh, NoEntry, Entry
<1>12. entries' \in [Users -> [Kinds -> Entry]]
  <2>1. [entries[u] EXCEPT ![k] = e] \in [Kinds -> Entry]
    BY <1>3, <1>4
  <2> QED BY <1>4, <1>6, <1>11, <2>1
<1>13. charged' \in [Users -> [Kinds -> Seq(0..now)]]
  <2>1. [known EXCEPT ![k] = times] \in [Kinds -> Seq(0..now)]
    BY <1>3, <1>5
  <2> QED BY <1>4, <1>7, <2>1
<1>14. promised' \in [Users -> [Kinds -> Int]]
  BY <1>3, <1>4, <1>8
<1>15. ASSUME NEW v \in Users, v \notin ToSet(tracked')
       PROVE  entries'[v] = Fresh /\ (charged'[v] = Uncharged \/ ~Recall(v)')
  <2>1. v # u /\ (v \in Room(u) \/ v \notin ToSet(tracked))
    BY <1>9, <1>15
  <2>2. others'[v] = others[v] \cup {u} /\ charged'[v] = charged[v]
    BY <1>1, <1>10, <2>1 DEF Since
  <2>3. MaxTracked \in Nat
    BY GatewayAssumption
  <2>4. IsFiniteSet(others[v]) /\ IsFiniteSet(others'[v]) /\ others[v] \subseteq others'[v]
    <3>1. IsFiniteSet(others[v])
      BY <1>4 DEF Recency
    <3>2. IsFiniteSet(others[v] \cup {u})
      BY <3>1, FS_AddElement
    <3> QED BY <2>2, <3>1, <3>2
  <2>5. CASE v \in Room(u)
    <3>1. /\ u \notin ToSet(tracked) /\ ~(Len(tracked) < MaxTracked) /\ v = Head(tracked)
      BY <2>5 DEF Room, Evicted
    <3>2. Len(tracked) = MaxTracked /\ tracked \in Seq(Users) /\ MaxTracked # 0
      BY <1>4, <2>3, <3>1, GatewayAssumption DEF Recency
    <3>3. v = tracked[1]
      BY <3>1, <3>2
    <3>4. Cardinality(others[v] \cup {u}) >= MaxTracked
      BY <1>4, <3>1, <3>2, <3>3, RecencyCounts
    <3>5. Cardinality(others[v] \cup {u}) \in Nat
      BY <2>2, <2>4, FS_CardinalityType
    <3>6. ~Recall(v)'
      BY <2>2, <2>3, <3>4, <3>5 DEF Recall
    <3> QED BY <1>10, <2>1, <2>5, <3>6
  <2>6. CASE v \notin Room(u) /\ v \notin ToSet(tracked)
    <3>1. entries'[v] = Fresh /\ (charged[v] = Uncharged \/ ~Recall(v))
      BY <1>10, <2>1, <2>6 DEF Limits
    <3>2. /\ Cardinality(others[v]) \in Nat /\ Cardinality(others'[v]) \in Nat
          /\ Cardinality(others[v]) <= Cardinality(others'[v])
      BY <2>4, FS_Subset, FS_CardinalityType
    <3>3. ~Recall(v) => ~Recall(v)'
      BY <2>3, <3>2 DEF Recall
    <3> QED BY <2>2, <3>1, <3>3
  <2> QED BY <2>1, <2>5, <2>6
<1>16. ASSUME NEW v \in Users, NEW q \in Kinds
       PROVE  Cell(entries'[v][q], charged'[v][q], promised'[v][q], v \in ToSet(tracked'), now, q)
  <2>1. CASE v = u /\ q = k
    <3>1. entries'[v][q] = e /\ charged'[v][q] = times /\ promised'[v][q] = promise
      BY <1>4, <1>5, <1>10, <2>1
    <3> QED BY <1>3, <2>1, <3>1 DEF Cell
  <2>2. CASE v = u /\ q # k
    <3>1. entries'[v][q] = entries[u][q] /\ charged'[v][q] = known[q] /\ promised'[v][q] = promised[u][q]
      <4>1. entries[u] \in [Kinds -> Entry] /\ promised[u] \in [Kinds -> Int] /\ known \in [Kinds -> Seq(0..now)]
        BY <1>4, <1>5
      <4>2. [entries[u] EXCEPT ![k] = e][q] = entries[u][q]
        BY <2>2, <4>1
      <4>3. [known EXCEPT ![k] = times][q] = known[q]
        BY <2>2, <4>1
      <4>4. [promised[u] EXCEPT ![k] = promise][q] = promised[u][q]
        BY <2>2, <4>1
      <4> QED BY <1>10, <2>2, <4>2, <4>3, <4>4
    <3> QED BY <1>5, <3>1 DEF Cell
  <2>3. CASE v # u
    <3>1. charged'[v] = charged[v] /\ promised'[v] = promised[v]
      BY <1>10, <2>3
    <3>2. Cell(entries[v][q], charged[v][q], promised[v][q], v \in ToSet(tracked), now, q)
      BY DEF Limits
    <3>3. CASE v \in Room(u)
      <4>1. entries'[v][q].count = 0 /\ v \notin ToSet(tracked') /\ Maximum[q] \in Nat
        BY <1>9, <1>10, <1>11, <2>3, <3>3, Budgets
      <4>2. entries'[v][q].count <= Maximum[q]
        BY <4>1
      <4> QED BY <3>1, <3>2, <4>1, <4>2 DEF Cell
    <3>4. CASE v \notin Room(u)
      <4>1. entries'[v] = entries[v] /\ (v \in ToSet(tracked') <=> v \in ToSet(tracked))
        BY <1>9, <1>10, <2>3, <3>4
      <4> QED BY <3>1, <3>2, <4>1 DEF Cell
    <3> QED BY <3>3, <3>4
  <2> QED BY <2>1, <2>2, <2>3
<1> QED BY <1>4, <1>9, <1>12, <1>13, <1>14, <1>15, <1>16 DEF Limits

-----------------------------------------------------------------------------
(* The stored operations.                                                  *)

\* A set of naturals that is not empty has a least element: among the intervals up
\* to its elements there is one that properly contains no other.
LEMMA LeastElement ==
  ASSUME NEW S \in SUBSET Nat, S # {}
  PROVE  \E m \in S : \A k \in S : m <= k
<1> DEFINE Up(k) == 0..k
           T == {Up(k) : k \in S}
<1>1. T \subseteq FiniteSubsetsOf(Nat)
  <2>1. \A k \in Nat : IsFiniteSet(0..k)
    BY FS_Interval
  <2> QED BY <2>1 DEF FiniteSubsetsOf
<1>2. T # {}
  OBVIOUS
<1>3. IsWellFoundedOn(StrictSubsetOrdering(Nat), FiniteSubsetsOf(Nat))
  BY FS_StrictSubsetOrderingWellFounded
<1> HIDE DEF T
<1>4. PICK X \in T : \A Y \in T : <<Y, X>> \notin StrictSubsetOrdering(Nat)
  BY <1>1, <1>2, <1>3, WFMin
<1>5. PICK m \in S : X = 0..m
  BY <1>4 DEF T
<1>6. ASSUME NEW k \in S PROVE m <= k
  <2>1. 0..k \in T
    BY DEF T
  <2>2. <<0..k, 0..m>> \notin StrictSubsetOrdering(Nat)
    BY <1>4, <1>5, <2>1
  <2>3. ~(0..k \subseteq 0..m /\ 0..k # 0..m)
    BY <2>2 DEF StrictSubsetOrdering
  <2>4. SUFFICES ASSUME k < m PROVE FALSE
    BY <1>5, <1>6
  <2>5. k \in Nat /\ m \in Nat
    OBVIOUS
  <2>6. m \in 0..m /\ m \notin 0..k
    BY <2>4, <2>5
  <2>7. 0..k \subseteq 0..m
    BY <2>4, <2>5
  <2> QED BY <2>3, <2>6, <2>7
<1> QED BY <1>6

Rows == [request : Requests, row : Nat]

\* The rows of a user: what is no longer stored was deleted by the retention, and not before
\* as many newer ones were stored as it keeps, less the notices it stepped over; of the rows with one
\* key only the newest is stored.
Kept(u) ==
  /\ operations[u] \subseteq book[u] /\ IsFiniteSet(operations[u])
  /\ \A q, r \in book[u] : q.row = r.row => q = r
  /\ \A r \in book[u] \ operations[u] :
       r.request.source # "import" /\ rows[u] - r.row >= Retained - peak[u]
  /\ \A q, r \in book[u] :
       (SameKey(q.request, r.request) /\ r.row < q.row) => r \notin operations[u]

Tables ==
  /\ rows \in [Users -> Nat] /\ peak \in [Users -> Nat]
  /\ operations \in [Users -> SUBSET Rows] /\ book \in [Users -> SUBSET Rows]
  /\ pending \in [Users -> SUBSET Nat]
  /\ \A u \in Users : \A r \in book[u] : r.row \in 1..rows[u]
  /\ \A u \in Users : \A n \in pending[u] : n \in 1..rows[u]
  /\ \A u \in Users : Kept(u)

\* Every stored command that is older than the one to be deleted has a pending notice, and newer ones
\* there are no more than rows were added since.
LEMMA RoomIsOld ==
  ASSUME Tables, NEW u \in Users, NEW request \in Requests, MustMakeRoom(u, request),
         NEW m \in Oldest(Deletable(u))
  PROVE  /\ rows[u] + 1 - m.row >= Retained - Cardinality(pending[u])
         /\ Cardinality(pending[u]) \in Nat
         /\ m \in operations[u] /\ m.request.source # "import"
<1> DEFINE C == Commands(u)
           P == pending[u]
           I == m.row..rows[u]
           f == [r \in C |-> r.row]
<1>1. /\ C \subseteq operations[u] /\ operations[u] \subseteq book[u] /\ book[u] \subseteq Rows
      /\ IsFiniteSet(operations[u]) /\ rows[u] \in Nat /\ P \subseteq 1..rows[u]
  BY DEF Tables, Kept, Commands
<1>2. /\ m \in C /\ m \notin {r \in C : r.row \in P} /\ m.row \in 1..rows[u]
      /\ \A r \in C : r.row \notin P => m.row <= r.row
  BY <1>1 DEF Oldest, Deletable, Tables
<1>3. IsFiniteSet(P) /\ IsFiniteSet(I) /\ Cardinality(I) = rows[u] - m.row + 1
  <2>1. IsFiniteSet(1..rows[u]) /\ rows[u] \in Int /\ m.row \in Int /\ m.row <= rows[u]
    BY <1>1, <1>2, FS_Interval
  <2>2. IsFiniteSet(I) /\ Cardinality(I) = IF m.row > rows[u] THEN 0 ELSE rows[u] - m.row + 1
    BY <2>1, FS_Interval
  <2> QED BY <1>1, <2>1, <2>2, FS_Subset
<1>4. IsFiniteSet(C) /\ Cardinality(C) \in Nat /\ Cardinality(C) >= Retained
  <2>1. IsFiniteSet(C)
    BY <1>1, FS_Subset
  <2> QED BY <2>1, FS_CardinalityType DEF MustMakeRoom
<1>5. f \in Injection(C, P \cup I)
  <2>1. ASSUME NEW r \in C PROVE r.row \in P \cup I
    <3>1. r.row \in 1..rows[u]
      BY <1>1 DEF Tables
    <3> QED BY <1>1, <1>2, <3>1
  <2>2. \A q, r \in C : f[q] = f[r] => q = r
    BY <1>1 DEF Tables, Kept
  <2>3. f \in [C -> P \cup I]
    BY <2>1
  <2> HIDE DEF f
  <2> QED BY <2>2, <2>3 DEF Injection, IsInjective
<1>6. /\ IsFiniteSet(P \cup I) /\ Cardinality(P \cup I) <= Cardinality(P) + Cardinality(I)
      /\ Cardinality(P) \in Nat
  <2>1. /\ IsFiniteSet(P \cup I)
        /\ Cardinality(P \cup I) = Cardinality(P) + Cardinality(I) - Cardinality(P \cap I)
    BY <1>3, FS_Union
  <2>2. IsFiniteSet(P \cap I)
    BY <1>3, FS_Intersection
  <2>3. Cardinality(P \cap I) \in Nat /\ Cardinality(P) \in Nat /\ Cardinality(I) \in Nat
    BY <1>3, <2>2, FS_CardinalityType
  <2> QED BY <2>1, <2>3
<1>7. Cardinality(C) <= Cardinality(P \cup I) /\ Cardinality(P \cup I) \in Nat
  BY <1>5, <1>6, FS_Injection, FS_CardinalityType
<1>8. m \in operations[u] /\ m.request.source # "import"
  BY <1>1, <1>2 DEF Commands
<1> HIDE DEF C, P, I
<1>9. rows[u] + 1 - m.row >= Retained - Cardinality(P)
  <2>1. Retained \in Nat /\ rows[u] \in Nat /\ m.row \in Nat
    BY <1>1, <1>2, GatewayAssumption
  <2> QED BY <1>3, <1>4, <1>6, <1>7, <2>1
<1> QED BY <1>6, <1>8, <1>9 DEF P

\* A new row: what it pushes out is old, and what had its key is gone already.
LEMMA RowAdded ==
  ASSUME Tables, NEW u \in Users, NEW request \in Requests, Takes(u, request), Execute(u, request)
  PROVE  Tables'
<1> DEFINE row == [request |-> request, row |-> rows[u] + 1]
           gone == MakeRoom(u, request)
<1>1. /\ rows \in [Users -> Nat] /\ peak \in [Users -> Nat]
      /\ operations \in [Users -> SUBSET Rows] /\ book \in [Users -> SUBSET Rows]
      /\ pending \in [Users -> SUBSET Nat]
  BY DEF Tables
<1>2. /\ rows' = [rows EXCEPT ![u] = @ + 1]
      /\ operations' = [operations EXCEPT ![u] = (@ \ gone) \cup {row}]
      /\ book' = [book EXCEPT ![u] = @ \cup {row}]
  BY DEF Execute
<1>3. row \in Rows /\ row.request = request /\ row.row = rows[u] + 1
  BY <1>1 DEF Rows
<1>4. /\ peak' \in [Users -> Nat] /\ peak'[u] >= peak[u]
      /\ \A v \in Users : v # u => peak'[v] = peak[v]
      /\ \A m \in gone : /\ m \in operations[u] /\ m.request.source # "import"
                         /\ rows[u] + 1 - m.row >= Retained - peak'[u]
  <2>1. CASE MustMakeRoom(u, request)
    <3>1. /\ peak' = [peak EXCEPT ![u] = Max({peak[u], Cardinality(pending[u])})]
          /\ gone = Oldest(Deletable(u))
      BY <2>1 DEF Execute, MakeRoom
    <3>2. PICK m \in gone : TRUE
      <4>1. Deletable(u) # {}
        BY <2>1 DEF Takes
      <4>2. Deletable(u) \subseteq Rows
        BY <1>1 DEF Deletable, Commands
      <4>3. {r.row : r \in Deletable(u)} # {} /\ {r.row : r \in Deletable(u)} \in SUBSET Nat
        BY <4>1, <4>2 DEF Rows
      <4>4. PICK n \in {r.row : r \in Deletable(u)} : \A k \in {r.row : r \in Deletable(u)} : n <= k
        BY <4>3, LeastElement
      <4> QED BY <3>1, <4>4 DEF Oldest
    <3>3. /\ Cardinality(pending[u]) \in Nat
          /\ \A x \in gone : /\ rows[u] + 1 - x.row >= Retained - Cardinality(pending[u])
                             /\ x \in operations[u] /\ x.request.source # "import"
      BY <2>1, <3>1, <3>2, RoomIsOld
    <3>4. /\ Max({peak[u], Cardinality(pending[u])}) \in {peak[u], Cardinality(pending[u])}
          /\ Max({peak[u], Cardinality(pending[u])}) >= peak[u]
          /\ Max({peak[u], Cardinality(pending[u])}) >= Cardinality(pending[u])
      BY <1>1, <3>3, MaxOfTwo
    <3>5. /\ peak'[u] \in Nat /\ peak'[u] >= peak[u] /\ peak'[u] >= Cardinality(pending[u])
          /\ peak' \in [Users -> Nat] /\ \A v \in Users : v # u => peak'[v] = peak[v]
      BY <1>1, <3>1, <3>3, <3>4
    <3>6. ASSUME NEW x \in gone PROVE rows[u] + 1 - x.row >= Retained - peak'[u]
      <4>1. x.row \in Nat /\ rows[u] \in Nat /\ Retained \in Nat
        BY <1>1, <3>3, GatewayAssumption DEF Rows
      <4> QED BY <3>3, <3>5, <4>1
    <3> QED BY <3>3, <3>5, <3>6
  <2>2. CASE ~MustMakeRoom(u, request)
    BY <1>1, <2>2 DEF Execute, MakeRoom
  <2> QED BY <2>1, <2>2
<1>5. /\ pending' \in [Users -> SUBSET Nat]
      /\ \A v \in Users : \A n \in pending'[v] : n \in 1..rows'[v]
  <2>1. PICK noticed \in Notices(request.source) :
          pending' = [pending EXCEPT ![u] = IF noticed THEN @ \cup {row.row} ELSE @]
    BY DEF Execute
  <2>2. \A n \in pending'[u] : n \in pending[u] \/ n = rows[u] + 1
    BY <1>1, <1>3, <2>1
  <2>3. \A v \in Users : v # u => pending'[v] = pending[v] /\ rows'[v] = rows[v]
    BY <1>1, <1>2, <2>1
  <2>4. rows'[u] = rows[u] + 1 /\ rows[u] \in Nat
    BY <1>1, <1>2
  <2>5. \A v \in Users : \A n \in pending[v] : n \in 1..rows[v]
    BY DEF Tables
  <2>6. ASSUME NEW v \in Users, NEW n \in pending'[v] PROVE n \in 1..rows'[v]
    <3>1. CASE v # u
      BY <2>3, <2>5, <3>1
    <3>2. CASE v = u
      BY <2>2, <2>4, <2>5, <3>2
    <3> QED BY <3>1, <3>2
  <2> QED BY <1>1, <1>3, <2>1, <2>6
<1> HIDE DEF gone, row
<1>6. /\ rows' \in [Users -> Nat]
      /\ operations' \in [Users -> SUBSET Rows] /\ book' \in [Users -> SUBSET Rows]
  BY <1>1, <1>2, <1>3
<1>7. /\ rows'[u] = rows[u] + 1 /\ rows[u] \in Nat
      /\ operations'[u] = (operations[u] \ gone) \cup {row} /\ book'[u] = book[u] \cup {row}
  BY <1>1, <1>2
<1>8. ASSUME NEW v \in Users, v # u PROVE Kept(v)' /\ \A r \in book'[v] : r.row \in 1..rows'[v]
  <2>1. /\ operations'[v] = operations[v] /\ book'[v] = book[v] /\ rows'[v] = rows[v]
        /\ peak'[v] = peak[v]
    BY <1>1, <1>2, <1>4, <1>8
  <2> QED BY <2>1 DEF Tables, Kept
<1>9. \A r \in book[u] : r \in Rows /\ r.row \in 1..rows[u]
  BY <1>1 DEF Tables
<1>10. \A r \in book'[u] : r.row \in 1..rows'[u]
  BY <1>3, <1>7, <1>9
<1>11. Kept(u)'
  <2> DEFINE S == operations[u]
             B == book[u]
  <2>1. /\ S \subseteq B /\ IsFiniteSet(S) /\ \A q, r \in B : q.row = r.row => q = r
        /\ \A r \in B \ S : r.request.source # "import" /\ rows[u] - r.row >= Retained - peak[u]
        /\ \A q, r \in B : (SameKey(q.request, r.request) /\ r.row < q.row) => r \notin S
    BY DEF Tables, Kept
  <2>2. \A r \in B : r.row < row.row
    BY <1>3, <1>7, <1>9
  <2>3. operations'[u] \subseteq book'[u] /\ IsFiniteSet(operations'[u])
    <3>1. IsFiniteSet(S \ gone)
      BY <2>1, FS_Subset
    <3>2. IsFiniteSet((S \ gone) \cup {row})
      BY <3>1, FS_AddElement
    <3> QED BY <1>7, <2>1, <3>2
  <2>4. \A q, r \in book'[u] : q.row = r.row => q = r
    <3>1. \A r \in B : r.row # row.row
      BY <1>3, <1>9, <2>2
    <3> QED BY <1>7, <2>1, <3>1
  <2>5. ASSUME NEW r \in book'[u] \ operations'[u]
        PROVE  r.request.source # "import" /\ rows'[u] - r.row >= Retained - peak'[u]
    <3>1. r \in B /\ (r \notin S \/ r \in gone)
      BY <1>7, <2>5
    <3>2. CASE r \in gone
      <4>1. r.request.source # "import" /\ rows[u] + 1 - r.row >= Retained - peak'[u]
        BY <1>4, <3>2
      <4>2. /\ rows'[u] = rows[u] + 1 /\ rows[u] \in Nat
            /\ r.row \in Nat /\ Retained \in Nat /\ peak'[u] \in Nat
        BY <1>4, <1>7, <1>9, <3>1, GatewayAssumption
      <4> QED BY <4>1, <4>2
    <3>3. CASE r \notin S
      <4>1. r.request.source # "import" /\ rows[u] - r.row >= Retained - peak[u]
        BY <2>1, <3>1, <3>3
      <4>2. r.row \in Nat /\ Retained \in Nat /\ peak[u] \in Nat /\ peak'[u] \in Nat
        BY <1>1, <1>4, <1>9, <3>1, GatewayAssumption
      <4> QED BY <1>4, <1>7, <4>1, <4>2
    <3> QED BY <3>1, <3>2, <3>3
  <2>6. ASSUME NEW q \in book'[u], NEW r \in book'[u],
               SameKey(q.request, r.request), r.row < q.row
        PROVE  r \notin operations'[u]
    <3>1. r \in B
      <4>1. r # row
        BY <1>3, <1>7, <1>9, <2>2, <2>6
      <4> QED BY <1>7, <4>1
    <3>2. r # row
      BY <1>3, <1>9, <2>2, <3>1
    <3>3. r \notin S
      <4>1. CASE q \in B
        BY <2>1, <2>6, <3>1, <4>1
      <4>2. CASE q = row
        BY <1>3, <2>6, <4>2 DEF Takes, Exists, SameKey
      <4> QED BY <1>7, <4>1, <4>2
    <3> QED BY <1>7, <3>2, <3>3
  <2> QED BY <2>3, <2>4, <2>5, <2>6 DEF Kept
<1>12. \A v \in Users : Kept(v)' /\ \A r \in book'[v] : r.row \in 1..rows'[v]
  BY <1>8, <1>10, <1>11
<1> QED BY <1>4, <1>5, <1>6, <1>12 DEF Tables

LEMMA TablesStay ==
  ASSUME Tables, UNCHANGED <<bank, memory>>
  PROVE  Tables'
BY DEF Tables, Kept, bank, memory

\* The notice of a row is settled.
LEMMA TablesSettled ==
  ASSUME Tables, NEW u \in Users, SettleNotice(u)
  PROVE  Tables'
<1>1. PICK n \in pending[u] : pending' = [pending EXCEPT ![u] = @ \ {n}]
  BY DEF SettleNotice
<1>2. /\ pending' \in [Users -> SUBSET Nat]
      /\ \A v \in Users : pending'[v] \subseteq pending[v]
  BY <1>1 DEF Tables
<1>3. UNCHANGED <<operations, rows, book, peak>>
  BY DEF SettleNotice, memory
<1> QED BY <1>2, <1>3 DEF Tables, Kept

-----------------------------------------------------------------------------
(* The inductive invariant.                                                *)

Shapes ==
  /\ events \in 0..MaxEvents
  /\ awaiting \in [Users -> [Mutations -> 0..events]]

GatewayInv == Limits /\ Shapes /\ Tables

\* A window whose history starts anew.
LEMMA EmptyFits ==
  ASSUME NEW k \in Kinds, NEW e \in Entry, e.count <= Maximum[k], NEW mine, NEW n
  PROVE  Cell(e, <<>>, None, mine, n, k)
<1> DEFINE M == Maximum[k]
           W == Window[k]
<1>1. M \in Nat \ {0} /\ W \in Nat \ {0} /\ e.count \in Nat
  BY Budgets DEF Entry
<1> HIDE DEF M, W
<1>2. Len(<<>>) = 0 /\ 1..(0 - 2 * M) = {} /\ 1..(0 - e.count) = {} /\ 1..(0 - e.count - M) = {}
  BY <1>1
<1>3. Span(<<>>, M, W) /\ Book(e, <<>>, None, M, W)
  BY <1>2 DEF Span, Book
<1> QED BY <1>3 DEF Cell, M, W

LEMMA FreshFits ==
  /\ [u \in Users |-> Fresh] \in [Users -> [Kinds -> Entry]]
  /\ \A k \in Kinds : NoEntry \in Entry /\ NoEntry.count <= Maximum[k]
<1>1. NoEntry \in Entry /\ NoEntry.count = 0
  BY DEF NoEntry, Entry
<1> QED BY <1>1, Budgets DEF Fresh

\* A limiter that knows nobody.
Blank ==
  /\ now \in 0..MaxTime /\ tracked = <<>> /\ entries = [u \in Users |-> Fresh]
  /\ charged = [u \in Users |-> Uncharged] /\ promised = [u \in Users |-> Unpromised]
  /\ others = [u \in Users |-> {}]

LEMMA LimitsStart == Blank => Limits
<1> SUFFICES ASSUME Blank PROVE Limits
  OBVIOUS
<1> USE DEF Blank
<1>1. Recency(tracked, others)
  <2>1. /\ tracked \in Seq(Users) /\ Len(tracked) = 0 /\ DOMAIN tracked = 1..0
        /\ 1..0 = {} /\ 0 <= MaxTracked
    BY GatewayAssumption
  <2> QED BY <2>1, FS_EmptySet DEF Recency, IsInjective
<1>2. /\ charged \in [Users -> [Kinds -> Seq(0..now)]]
      /\ promised \in [Users -> [Kinds -> Int]]
  BY DEF Uncharged, Unpromised, None
<1>3. ASSUME NEW u \in Users, NEW k \in Kinds
      PROVE  Cell(entries[u][k], charged[u][k], promised[u][k], u \in ToSet(tracked), now, k)
  <2>1. entries[u][k] = NoEntry /\ charged[u][k] = <<>> /\ promised[u][k] = None
    BY DEF Fresh, Uncharged, Unpromised
  <2> QED BY <2>1, EmptyFits, FreshFits
<1> QED BY <1>1, <1>2, <1>3, FreshFits DEF Limits

LEMMA GatewayInvInit == Init => GatewayInv
<1> SUFFICES ASSUME Init PROVE GatewayInv
  OBVIOUS
<1>1. Limits
  <2>1. now \in 0..MaxTime
    BY GatewayAssumption DEF Init
  <2> QED BY <2>1, LimitsStart DEF Init, Blank
<1>2. Shapes
  BY GatewayAssumption DEF Init, Shapes
<1>3. Tables
  <2>1. ASSUME NEW u \in Users PROVE Kept(u)
    BY FS_EmptySet DEF Init, Kept
  <2> QED BY <2>1 DEF Init, Tables
<1> QED BY <1>1, <1>2, <1>3 DEF GatewayInv

-----------------------------------------------------------------------------
(* The steps.                                                              *)

LEMMA ShapesWiden ==
  ASSUME Shapes, Happens
  PROVE  events' \in 0..MaxEvents /\ awaiting \in [Users -> [Mutations -> 0..events']]
<1>1. events \in 0..MaxEvents /\ MaxEvents \in Nat /\ events' = events + 1 /\ events < MaxEvents
  BY GatewayAssumption DEF Shapes, Happens
<1>2. events' \in 0..MaxEvents /\ 0..events \subseteq 0..events'
  BY <1>1
<1> QED BY <1>2 DEF Shapes

LEMMA DecideKeeps ==
  ASSUME GatewayInv, NEW u \in Users, NEW k \in Kinds, NEW request \in Requests,
         Decide(u, k, request), now' = now
  PROVE  Limits' /\ Tables'
<1>1. Stored(u, request) \in BOOLEAN /\ Consume(u, k, Stored(u, request))
  BY DEF Decide, Stored
<1>2. Limits'
  BY <1>1, ConsumeKeeps DEF GatewayInv
<1>3. CASE Answer(u, k, request) = "executed"
  <2>1. Takes(u, request)
    BY <1>3 DEF Answer
  <2>2. Execute(u, request)
    BY <1>3 DEF Decide
  <2> QED BY <1>2, <2>1, <2>2, RowAdded DEF GatewayInv
<1>4. CASE Answer(u, k, request) # "executed"
  BY <1>2, <1>4, TablesStay DEF Decide, GatewayInv
<1> QED BY <1>3, <1>4

LEMMA ReadKeeps ==
  ASSUME GatewayInv, NEW u \in Users, NEW k \in Kinds, Read(u, k)
  PROVE  GatewayInv'
<1>1. Limits'
  BY ConsumeKeeps DEF Read, GatewayInv
<1>2. Shapes'
  BY ShapesWiden DEF Read, GatewayInv, Shapes
<1> QED BY <1>1, <1>2, TablesStay DEF Read, GatewayInv

LEMMA ArriveKeeps ==
  ASSUME GatewayInv, NEW u \in Users, NEW route \in Mutations, Arrive(u, route)
  PROVE  GatewayInv'
<1>1. Ingress[route] \in Kinds
  BY DEF Mutations, Ingress, Kinds
<1>2. Limits'
  BY <1>1, ConsumeKeeps DEF Arrive, GatewayInv
<1>3. Shapes'
  <2>1. events' \in 0..MaxEvents /\ awaiting \in [Users -> [Mutations -> 0..events']]
    BY ShapesWiden DEF Arrive, GatewayInv
  <2>2. awaiting[u][route] \in 0..events /\ events' = events + 1 /\ events \in Nat
    BY GatewayAssumption DEF Arrive, Happens, GatewayInv, Shapes
  <2>3. awaiting[u][route] \in 0..events' /\ awaiting[u][route] + 1 \in 0..events'
    BY <2>2
  <2>4. \E n \in 0..events' : awaiting' = [awaiting EXCEPT ![u][route] = n]
    BY <2>3 DEF Arrive
  <2>5. awaiting' \in [Users -> [Mutations -> 0..events']]
    BY <2>1, <2>4
  <2> QED BY <2>1, <2>5 DEF Arrive, GatewayInv, Shapes
<1> QED BY <1>2, <1>3, TablesStay DEF Arrive, GatewayInv

\* A body has been read, or has failed.
LEMMA OneLessAwaited ==
  ASSUME Shapes, NEW u \in Users, NEW route \in Mutations, awaiting[u][route] > 0,
         awaiting' = [awaiting EXCEPT ![u][route] = @ - 1], events' = events
  PROVE  awaiting' \in [Users -> [Mutations -> 0..events']]
<1>1. awaiting[u][route] \in 0..events /\ events \in Nat
  BY GatewayAssumption DEF Shapes
<1>2. awaiting[u][route] - 1 \in 0..events
  BY <1>1
<1> QED BY <1>2 DEF Shapes

LEMMA MutationKeeps ==
  ASSUME GatewayInv, NEW u \in Users, NEW id \in Ids, NEW print \in Prints,
         ReadImport(u, id, print) \/ ReadCommand(u, id, print) \/ ChatCommand(u, id, print)
  PROVE  GatewayInv'
<1>1. PICK k \in Kinds, request \in Requests : Decide(u, k, request) /\ now' = now
  <2>1. CASE ReadImport(u, id, print)
    <3>1. [source |-> "import", id |-> id, print |-> print] \in Requests /\ "import" \in Kinds
      BY DEF Requests, Sources, Kinds
    <3> QED BY <2>1, <3>1 DEF ReadImport
  <2>2. CASE ReadCommand(u, id, print)
    <3>1. [source |-> "tma", id |-> id, print |-> print] \in Requests /\ "command" \in Kinds
      BY DEF Requests, Sources, Kinds
    <3> QED BY <2>2, <3>1 DEF ReadCommand
  <2>3. CASE ChatCommand(u, id, print)
    <3>1. [source |-> "telegram", id |-> id, print |-> print] \in Requests /\ "command" \in Kinds
      BY DEF Requests, Sources, Kinds
    <3> QED BY <2>3, <3>1 DEF ChatCommand
  <2> QED BY <2>1, <2>2, <2>3
<1>2. Limits' /\ Tables'
  BY <1>1, DecideKeeps
<1>3. events' \in 0..MaxEvents /\ awaiting' \in [Users -> [Mutations -> 0..events']]
  <2> USE DEF GatewayInv
  <2>1. CASE ReadImport(u, id, print)
    <3>1. awaiting' \in [Users -> [Mutations -> 0..events']]
      BY <2>1, OneLessAwaited DEF ReadImport, Mutations
    <3> QED BY <2>1, <3>1 DEF ReadImport, Shapes
  <2>2. CASE ReadCommand(u, id, print)
    <3>1. awaiting' \in [Users -> [Mutations -> 0..events']]
      BY <2>2, OneLessAwaited DEF ReadCommand, Mutations
    <3> QED BY <2>2, <3>1 DEF ReadCommand, Shapes
  <2>3. CASE ChatCommand(u, id, print)
    BY <2>3, ShapesWiden DEF ChatCommand
  <2> QED BY <2>1, <2>2, <2>3
<1> QED BY <1>2, <1>3 DEF GatewayInv, Shapes

LEMMA LimitsStay ==
  ASSUME Limits, UNCHANGED <<now, limiter, history>>
  PROVE  Limits'
BY DEF Limits, limiter, history, Recall

LEMMA BodyFailsKeeps ==
  ASSUME GatewayInv, NEW u \in Users, NEW route \in Mutations, BodyFails(u, route)
  PROVE  GatewayInv'
<1>1. Limits'
  BY LimitsStay DEF BodyFails, GatewayInv
<1>2. awaiting' \in [Users -> [Mutations -> 0..events']]
  BY OneLessAwaited DEF BodyFails, GatewayInv
<1> QED BY <1>1, <1>2, TablesStay DEF BodyFails, GatewayInv, Shapes

LEMMA SettleNoticeKeeps ==
  ASSUME GatewayInv, NEW u \in Users, SettleNotice(u)
  PROVE  GatewayInv'
<1>1. Limits'
  BY LimitsStay DEF SettleNotice, GatewayInv
<1>2. Tables'
  BY TablesSettled DEF GatewayInv
<1> QED BY <1>1, <1>2 DEF SettleNotice, GatewayInv, Shapes

LEMMA WiderSequences ==
  ASSUME NEW S, NEW T, S \subseteq T
  PROVE  Seq(S) \subseteq Seq(T)
OBVIOUS

LEMMA TickKeeps == GatewayInv /\ Tick => GatewayInv'
<1> SUFFICES ASSUME GatewayInv, Tick PROVE GatewayInv'
  OBVIOUS
<1>1. /\ now' \in 0..MaxTime /\ 0..now \subseteq 0..now'
      /\ \A s : s \in {None} \cup 0..MaxTime => (s <= now => s <= now')
  BY GatewayAssumption DEF Tick, GatewayInv, Limits, None
<1>2. UNCHANGED <<tracked, entries, charged, promised, others>>
  BY DEF Tick, limiter, history
<1>3. charged' \in [Users -> [Kinds -> Seq(0..now')]]
  <2>1. Seq(0..now) \subseteq Seq(0..now')
    BY <1>1, WiderSequences
  <2> QED BY <1>2, <2>1 DEF GatewayInv, Limits
<1>4. ASSUME NEW u \in Users, NEW k \in Kinds
      PROVE  Cell(entries'[u][k], charged'[u][k], promised'[u][k], u \in ToSet(tracked'), now', k)
  <2>1. /\ Cell(entries[u][k], charged[u][k], promised[u][k], u \in ToSet(tracked), now, k)
        /\ entries[u][k] \in Entry
    BY DEF GatewayInv, Limits
  <2>2. entries[u][k].start <= now => entries[u][k].start <= now'
    BY <1>1, <2>1 DEF Entry
  <2> QED BY <1>2, <2>1, <2>2 DEF Cell
<1>5. Limits'
  BY <1>1, <1>2, <1>3, <1>4 DEF GatewayInv, Limits, Recall
<1> QED BY <1>5, TablesStay DEF Tick, GatewayInv, Shapes

LEMMA ClockSetBackKeeps == GatewayInv /\ ClockSetBack => GatewayInv'
<1> SUFFICES ASSUME GatewayInv, ClockSetBack PROVE GatewayInv'
  OBVIOUS
<1>1. now' \in 0..MaxTime
  BY GatewayAssumption DEF ClockSetBack, GatewayInv, Limits
<1>2. /\ UNCHANGED <<tracked, entries, others>>
      /\ charged' = [u \in Users |-> Uncharged] /\ promised' = [u \in Users |-> Unpromised]
  BY DEF ClockSetBack, limiter
<1>3. /\ charged' \in [Users -> [Kinds -> Seq(0..now')]]
      /\ promised' \in [Users -> [Kinds -> Int]]
  BY <1>2 DEF Uncharged, Unpromised, None
<1>4. ASSUME NEW u \in Users, NEW k \in Kinds
      PROVE  Cell(entries'[u][k], charged'[u][k], promised'[u][k], u \in ToSet(tracked'), now', k)
  <2>1. entries'[u][k] \in Entry /\ entries'[u][k].count <= Maximum[k]
    BY <1>2 DEF GatewayInv, Limits, Cell
  <2>2. charged'[u][k] = <<>> /\ promised'[u][k] = None
    BY <1>2 DEF Uncharged, Unpromised
  <2> QED BY <2>1, <2>2, EmptyFits
<1>5. Limits'
  BY <1>1, <1>2, <1>3, <1>4 DEF GatewayInv, Limits, Recall
<1>6. Shapes'
  BY ShapesWiden DEF ClockSetBack, GatewayInv, Shapes
<1> QED BY <1>5, <1>6, TablesStay DEF ClockSetBack, GatewayInv

LEMMA RestartKeeps == GatewayInv /\ Restart => GatewayInv'
<1> SUFFICES ASSUME GatewayInv, Restart PROVE GatewayInv'
  OBVIOUS
<1>1. Blank'
  BY DEF Restart, Blank, GatewayInv, Limits
<1>2. Limits'
  BY <1>1, LimitsStart, PTL
<1>3. events' \in 0..MaxEvents /\ events' \in Nat
  BY ShapesWiden, GatewayAssumption DEF Restart, GatewayInv
<1>4. awaiting' \in [Users -> [Mutations -> 0..events']]
  BY <1>3 DEF Restart
<1> QED BY <1>2, <1>3, <1>4, TablesStay DEF Restart, GatewayInv, Shapes

\* What every reachable state of the gateway satisfies, for any number of users, any policies and any
\* capacity of the limiter's map: the map lists its users in the order of use and everybody pushed
\* out of it was pushed out by MAX_TRACKED_USERS others; each window accounts for the charges since
\* the limiter last had to forget (consume, #makeRoom of bot/rate-limit.ts and the handlers around
\* it); and what the retention deleted of bank_operations was old enough to go.
THEOREM GatewayConsistent == Spec => []GatewayInv
<1>1. ASSUME GatewayInv, [Next]_vars PROVE GatewayInv'
  <2>1. ASSUME NEW u \in Users, Bootstrap(u) PROVE GatewayInv'
    BY <1>1, <2>1, ReadKeeps DEF Bootstrap, Kinds
  <2>2. ASSUME NEW u \in Users, Rates(u) PROVE GatewayInv'
    BY <1>1, <2>2, ReadKeeps DEF Rates, Kinds
  <2>3. ASSUME NEW u \in Users, NEW r \in Mutations, Arrive(u, r) PROVE GatewayInv'
    BY <1>1, <2>3, ArriveKeeps
  <2>4. ASSUME NEW u \in Users, NEW r \in Mutations, BodyFails(u, r) PROVE GatewayInv'
    BY <1>1, <2>4, BodyFailsKeeps
  <2>5. ASSUME NEW u \in Users, NEW id \in Ids, NEW print \in Prints,
               ReadImport(u, id, print) \/ ReadCommand(u, id, print) \/ ChatCommand(u, id, print)
        PROVE  GatewayInv'
    BY <1>1, <2>5, MutationKeeps
  <2>6. CASE Tick
    BY <1>1, <2>6, TickKeeps
  <2>7. CASE ClockSetBack
    BY <1>1, <2>7, ClockSetBackKeeps
  <2>8. CASE Restart
    BY <1>1, <2>8, RestartKeeps
  <2>9. CASE UNCHANGED vars
    <3>1. Limits'
      BY <1>1, <2>9, LimitsStay DEF vars, GatewayInv
    <3> QED BY <1>1, <2>9, <3>1, TablesStay DEF vars, GatewayInv, Shapes
  <2>10. CASE Done
    BY <2>9, <2>10 DEF Done
  <2>11. Movers \subseteq Users
    BY GatewayAssumption
  <2>12. ASSUME NEW u \in Users, SettleNotice(u) PROVE GatewayInv'
    BY <1>1, <2>12, SettleNoticeKeeps
  <2> QED BY <1>1, <2>1, <2>2, <2>3, <2>4, <2>5, <2>6, <2>7, <2>8, <2>9, <2>10, <2>11, <2>12 DEF Next
<1> QED BY <1>1, GatewayInvInit, PTL DEF Spec

-----------------------------------------------------------------------------
(* What it shows.                                                          *)

\* Whatever the clients do, two neighbouring windows are all a user can spend of a kind in any span
\* of one window's length, unless the limiter had to forget in between (consume).
THEOREM SpansAreBounded == Spec => []SpanBounded
<1>1. GatewayInv => SpanBounded
  BY DEF GatewayInv, Limits, Cell, Span, SpanBounded
<1> QED BY <1>1, GatewayConsistent, PTL

\* The limiter never tracks more than MAX_TRACKED_USERS, and forgets none who is among the
\* MAX_TRACKED_USERS most recent ones (#makeRoom).
THEOREM TheRecentAreRemembered == Spec => []RecentRemembered
<1>1. GatewayInv => GatewayTypeOK
  <2> SUFFICES ASSUME GatewayInv PROVE GatewayTypeOK
    OBVIOUS
  <2>1. awaiting \in [Users -> [Mutations -> 0..MaxEvents]]
    <3>1. 0..events \subseteq 0..MaxEvents
      BY GatewayAssumption DEF GatewayInv, Shapes
    <3> QED BY <3>1 DEF GatewayInv, Shapes
  <2>2. \A u \in Users, k \in Kinds : entries[u][k].count <= Maximum[k]
    BY DEF GatewayInv, Limits, Cell
  <2>3. ASSUME NEW u \in Users
        PROVE  /\ operations[u] \subseteq [request : Requests, row : 1..rows[u]]
               /\ pending[u] \subseteq 1..rows[u]
    <3>1. operations[u] \subseteq book[u] /\ book[u] \subseteq Rows
      BY DEF GatewayInv, Tables, Kept
    <3>2. \A r \in book[u] : r.row \in 1..rows[u]
      BY DEF GatewayInv, Tables
    <3>3. pending[u] \subseteq 1..rows[u]
      BY DEF GatewayInv, Tables
    <3> QED BY <3>1, <3>2, <3>3 DEF Rows
  <2>4. rows \in [Users -> Nat]
    BY DEF GatewayInv, Tables
  <2> QED BY <2>1, <2>2, <2>3, <2>4 DEF GatewayInv, Shapes, Limits, Recency, Entry, GatewayTypeOK
<1>2. GatewayInv => RecentRemembered
  BY <1>1 DEF GatewayInv, Limits, RecentRemembered
<1> QED BY <1>2, GatewayConsistent, PTL

\* The window a refusal came from is over by the time it told.
LEMMA Waiting == GatewayInv => WaitIsEnough
<1> SUFFICES ASSUME GatewayInv, NEW u \in Users, NEW k \in Kinds,
                    promised[u][k] # None, promised[u][k] <= now
             PROVE  Admits(u, k, FALSE)
  BY DEF WaitIsEnough
<1> DEFINE M == Maximum[k]
           W == Window[k]
           e == entries[u][k]
           p == promised[u][k]
           s == e.start
<1>1. M \in Nat \ {0} /\ W \in Nat \ {0} /\ MaxTime \in Nat
  BY Budgets
<1>2. now \in Nat /\ p \in Int /\ e \in Entry
  BY <1>1 DEF GatewayInv, Limits
<1>3. s \in Int
  BY <1>1, <1>2 DEF Entry, None
<1>4. Current(u, k).count < M => Admits(u, k, FALSE)
  BY DEF Admits, HasBudget
<1>5. 0 < M
  BY <1>1
<1>6. CASE u \notin ToSet(tracked)
  <2>1. Current(u, k).count = 0
    BY <1>6 DEF Current
  <2> QED BY <1>4, <1>5, <2>1
<1>7. CASE u \in ToSet(tracked)
  <2>1. s = None \/ e.count < M \/ p >= s + W
    BY <1>7 DEF GatewayInv, Limits, Cell, Book
  <2>2. CASE Over(e, k)
    <3>1. Current(u, k).count = 0
      BY <2>2 DEF Current
    <3> QED BY <1>4, <1>5, <3>1
  <2>3. CASE ~Over(e, k)
    <3>1. Current(u, k) = e /\ s # None /\ ~(now - s >= W)
      BY <1>7, <2>3 DEF Current, Over
    <3> HIDE DEF M, W, s, p
    <3>2. ~(p >= s + W)
      BY <1>1, <1>2, <1>3, <3>1 DEF p
    <3> QED BY <1>4, <2>1, <3>1, <3>2
  <2> QED BY <2>2, <2>3
<1> QED BY <1>6, <1>7

\* A client that waits as long as a refusal told it to is admitted, unless its user spent the budget
\* anew in between (retryAfterSeconds of consume).
THEOREM WaitingIsEnough == Spec => []WaitIsEnough
BY Waiting, GatewayConsistent, PTL

\* Whoever committed an operation and lost the answer learns it by asking again, however often the
\* process restarts and whatever else the user's clients spend: the row is stored, once, until as many
\* newer commands as the retention keeps, less the notices it stepped over; the mutation budget lets a
\* retry of it pass, and the ingress one does after the wait it told (handleBankImport,
\* handleBankCommand, #execute, #makeRoomForFreshUserOperation).
THEOREM RetriesAreAnswered == Spec => []RetriesLearn
<1>1. GatewayInv => RetriesLearn
  <2> SUFFICES ASSUME GatewayInv, NEW u \in Users, NEW r \in book[u], Remembered(u, r)
               PROVE  /\ Answer(u, Budget(r.request), r.request) = "replayed"
                      /\ \A q \in book[u] : SameKey(q.request, r.request) => q.row <= r.row
                      /\ \A route \in Mutations :
                           Waited(u, Ingress[route]) => Admits(u, Ingress[route], FALSE)
    BY DEF RetriesLearn
  <2>1. Kept(u) /\ \A q \in book[u] : q.row \in Nat
    BY DEF GatewayInv, Tables, Rows
  <2>2. r \in operations[u]
    <3>1. SUFFICES ASSUME r \notin operations[u] PROVE FALSE
      OBVIOUS
    <3>2. r.request.source # "import" /\ rows[u] - r.row >= Retained - peak[u]
      BY <2>1, <3>1 DEF Kept
    <3>3. rows[u] \in Nat /\ r.row \in Nat /\ Retained \in Nat /\ peak[u] \in Nat
      BY <2>1, GatewayAssumption DEF GatewayInv, Tables
    <3> QED BY <3>2, <3>3 DEF Remembered
  <2>3. Answer(u, Budget(r.request), r.request) = "replayed"
    <3>1. Stored(u, r.request) = TRUE
      BY <2>2 DEF Stored
    <3>2. Admits(u, Budget(r.request), TRUE) = TRUE
      BY DEF Admits
    <3> QED BY <3>1, <3>2 DEF Answer
  <2>4. \A q \in book[u] : SameKey(q.request, r.request) => q.row <= r.row
    BY <2>1, <2>2 DEF Kept
  <2>5. ASSUME NEW route \in Mutations, Waited(u, Ingress[route])
        PROVE  Admits(u, Ingress[route], FALSE)
    <3>1. Ingress[route] \in Kinds
      BY DEF Mutations, Ingress, Kinds
    <3> QED BY <2>5, <3>1, Waiting DEF Waited, WaitIsEnough
  <2> QED BY <2>3, <2>4, <2>5
<1> QED BY <1>1, GatewayConsistent, PTL
=============================================================================
