---------------------------- MODULE Ledger_proofs ----------------------------
(***************************************************************************)
(* Proofs about the money of one user: that every state of Ledger is a     *)
(* BankState, that interest is settled before money moves, that one        *)
(* materialisation is enough, that the Mini App asks for one exactly when  *)
(* it changes something, and that every state can be read again by         *)
(* parseBankState, for any accounts, rules, amounts, rates, calendars and  *)
(* limits.                                                                 *)
(***************************************************************************)
EXTENDS Ledger, FiniteSetTheorems, TLAPS

-----------------------------------------------------------------------------
(* Induction over the naturals, as a fact about sets of them.              *)

\* A set of naturals that is not empty has a least element: of the intervals from 0 to
\* its elements, one properly contains no other.
LEMMA LeastElement ==
  ASSUME NEW S \in SUBSET Nat, S # {}
  PROVE  \E m \in S : \A k \in S : m <= k
<1> DEFINE T == {0..k : k \in S}
<1>1. T \subseteq FiniteSubsetsOf(Nat)
  <2>1. \A k \in Nat : IsFiniteSet(0..k)
    BY FS_Interval
  <2> QED BY <2>1 DEF FiniteSubsetsOf
<1>2. T # {}
  OBVIOUS
<1>3. IsWellFoundedOn(StrictSubsetOrdering(Nat), FiniteSubsetsOf(Nat))
  BY FS_StrictSubsetOrderingWellFounded
<1> HIDE DEF T
<1>4. PICK X \in T : \A Y \in T : <<Y, X>> \notin StrictSubsetOrdering(Nat)
  BY <1>1, <1>2, <1>3, WFMin
<1>5. PICK m \in S : X = 0..m
  BY <1>4 DEF T
<1>6. ASSUME NEW k \in S PROVE m <= k
  <2>1. 0..k \in T
    BY <1>6 DEF T
  <2>2. ~(0..k \subseteq 0..m /\ 0..k # 0..m)
    <3>1. <<0..k, 0..m>> \notin StrictSubsetOrdering(Nat)
      BY <1>4, <1>5, <2>1
    <3> QED BY <3>1 DEF StrictSubsetOrdering
  <2>3. k < m => m \in 0..m /\ m \notin 0..k /\ 0..k \subseteq 0..m
    OBVIOUS
  <2> QED BY <2>2, <2>3
<1> QED BY <1>6

\* A set of naturals with 0 and the successor of each of its members is all of them.
LEMMA Induction ==
  ASSUME NEW S \in SUBSET Nat, 0 \in S, \A k \in S : k + 1 \in S
  PROVE  S = Nat
<1> SUFFICES ASSUME Nat \ S # {} PROVE FALSE
  OBVIOUS
<1>1. PICK m \in Nat \ S : \A k \in Nat \ S : m <= k
  BY LeastElement
<1>2. m - 1 \in S
  BY <1>1
<1> QED BY <1>1, <1>2

\* A set of naturals below a limit has a greatest element.
LEMMA GreatestElement ==
  ASSUME NEW n \in Nat, NEW S \in SUBSET (0..n), S # {}
  PROVE  \E m \in S : \A k \in S : k <= m
<1> DEFINE T == {k \in Nat : \A i \in S : i <= k}
<1>1. n \in T
  OBVIOUS
<1>2. PICK m \in T : \A k \in T : m <= k
  BY <1>1, LeastElement
<1>3. CASE m \in S
  BY <1>2, <1>3
<1>4. CASE m \notin S
  <2>1. \A i \in S : i <= m - 1
    BY <1>2, <1>4
  <2>2. PICK i \in S : TRUE
    OBVIOUS
  <2>3. m - 1 \in T
    BY <1>2, <2>1, <2>2
  <2> QED BY <1>2, <2>3
<1> QED BY <1>3, <1>4

\* What a recursive function over an interval has to satisfy.
Solves(g, k, X, x, F) ==
  /\ g \in [0..k -> X] /\ g[0] = x
  /\ \A n \in 1..k : g[n] = F[n, g[n - 1]]

\* There is one.
LEMMA Recursion ==
  ASSUME NEW k \in Nat, NEW X, NEW x \in X, NEW F \in [(1..k) \X X -> X]
  PROVE  \E g : Solves(g, k, X, x, F)
<1> DEFINE S == {j \in Nat : j <= k => \E g : Solves(g, j, X, x, F)}
<1>1. 0 \in S
  <2> DEFINE g == [n \in 0..0 |-> x]
  <2>1. Solves(g, 0, X, x, F)
    BY DEF Solves
  <2> HIDE DEF g
  <2> QED BY <2>1
<1>2. ASSUME NEW j \in Nat, NEW g, Solves(g, j, X, x, F), j + 1 <= k
      PROVE  \E h : Solves(h, j + 1, X, x, F)
  <2> DEFINE y == F[j + 1, g[j]]
             h == [n \in 0..(j + 1) |-> IF n = j + 1 THEN y ELSE g[n]]
  <2>1. j \in 0..j /\ j + 1 \in 1..k
    BY <1>2
  <2>2. y \in X
    <3>1. g[j] \in X
      BY <1>2, <2>1 DEF Solves
    <3> QED BY <2>1, <3>1
  <2> HIDE DEF y
  <2>3. \A n \in 0..(j + 1) : n # j + 1 => n \in 0..j
    OBVIOUS
  <2>4. h \in [0..(j + 1) -> X]
    BY <1>2, <2>2, <2>3 DEF Solves
  <2>5. h[0] = x /\ h[j + 1] = y /\ \A n \in 0..j : h[n] = g[n]
    <3>1. \A n \in 0..j : n \in 0..(j + 1) /\ n # j + 1
      OBVIOUS
    <3>2. j + 1 \in 0..(j + 1) /\ 0 \in 0..j
      OBVIOUS
    <3>3. h[j + 1] = y
      BY <3>2
    <3>4. \A n \in 0..j : h[n] = g[n]
      BY <3>1
    <3> QED BY <1>2, <3>2, <3>3, <3>4 DEF Solves
  <2> HIDE DEF h
  <2>6. ASSUME NEW n \in 1..(j + 1) PROVE h[n] = F[n, h[n - 1]]
    <3>1. CASE n = j + 1
      <4>1. n - 1 = j /\ j \in 0..j
        BY <3>1
      <4> QED BY <2>5, <3>1, <4>1 DEF y
    <3>2. CASE n # j + 1
      <4>1. n \in 1..j /\ n \in 0..j /\ n - 1 \in 0..j
        BY <3>2
      <4> QED BY <1>2, <2>5, <4>1 DEF Solves
    <3> QED BY <3>1, <3>2
  <2>7. Solves(h, j + 1, X, x, F)
    BY <2>4, <2>5, <2>6 DEF Solves
  <2> QED BY <2>7
<1>3. k \in S
  <2>1. S \subseteq Nat
    OBVIOUS
  <2>2. \A j \in S : j + 1 \in S
    BY <1>2
  <2> HIDE DEF S
  <2> QED BY <1>1, <2>1, <2>2, Induction
<1> QED BY <1>3

\* And no other, of any range.
Follows(h, k, X, x, F) ==
  /\ h = [n \in 0..k |-> h[n]] /\ h[0] = x
  /\ \A n \in 1..k : h[n - 1] \in X => h[n] = F[n, h[n - 1]]

\* A recursive function is the solution that Recursion finds.
LEMMA OneSolution ==
  ASSUME NEW k \in Nat, NEW X, NEW x, NEW F, NEW g, Solves(g, k, X, x, F),
         NEW h, Follows(h, k, X, x, F)
  PROVE  h = g
<1> DEFINE T == {n \in Nat : n <= k => h[n] = g[n]}
<1>1. 0 \in T
  BY DEF Solves, Follows
<1>2. ASSUME NEW n \in T PROVE n + 1 \in T
  <2> SUFFICES ASSUME n + 1 <= k PROVE h[n + 1] = g[n + 1]
    OBVIOUS
  <2>1. n \in 0..k /\ n + 1 \in 1..k /\ (n + 1) - 1 = n /\ h[n] = g[n]
    OBVIOUS
  <2>2. g[n] \in X /\ g[n + 1] = F[n + 1, g[n]]
    BY <2>1 DEF Solves
  <2>3. h[n + 1] = F[n + 1, h[n]]
    BY <2>1, <2>2 DEF Follows
  <2> QED BY <2>1, <2>2, <2>3
<1>3. \A n \in 0..k : h[n] = g[n]
  <2>1. T \subseteq Nat
    OBVIOUS
  <2>2. \A n \in T : n <= k => h[n] = g[n]
    OBVIOUS
  <2> HIDE DEF T
  <2>3. T = Nat
    BY <1>1, <1>2, <2>1, Induction
  <2> QED BY <2>2, <2>3
<1>4. g = [n \in 0..k |-> g[n]] /\ h = [n \in 0..k |-> h[n]]
  BY DEF Solves, Follows
<1> QED BY <1>3, <1>4

-----------------------------------------------------------------------------
(* Powers and interest.                                                    *)

\* The recursion of Power has a solution.
Powers(power, base, days) ==
  /\ power = [n \in 0..days |-> IF n = 0 THEN 1 ELSE base * power[n - 1]]
  /\ Power(base, days) = power[days]

\* The recursion of Power has a solution in the naturals.
LEMMA PowerRuns ==
  ASSUME NEW base \in Nat, NEW days \in Nat
  PROVE  \E power : Powers(power, base, days)
<1> DEFINE Body(g) == [n \in 0..days |-> IF n = 0 THEN 1 ELSE base * g[n - 1]]
           F == [p \in (1..days) \X Nat |-> base * p[2]]
<1>1. \E g : g = Body(g)
  <2>1. F \in [(1..days) \X Nat -> Nat]
    OBVIOUS
  <2>2. PICK g : Solves(g, days, Nat, 1, F)
    <3> HIDE DEF F
    <3> QED BY <2>1, Recursion
  <2>3. \A n \in 1..days : g[n] = base * g[n - 1]
    <3> SUFFICES ASSUME NEW n \in 1..days PROVE g[n] = base * g[n - 1]
      OBVIOUS
    <3>1. n - 1 \in 0..days
      OBVIOUS
    <3>2. <<n, g[n - 1]>> \in (1..days) \X Nat
      BY <2>2, <3>1 DEF Solves
    <3> QED BY <2>2, <3>2 DEF Solves
  <2>4. g = Body(g)
    <3>1. g = [n \in DOMAIN g |-> g[n]] /\ DOMAIN g = 0..days /\ DOMAIN Body(g) = 0..days
      BY <2>2 DEF Solves
    <3>2. 0 \in 0..days /\ \A n \in 0..days : n = 0 \/ n \in 1..days
      BY <2>1
    <3>3. \A n \in DOMAIN g : g[n] = Body(g)[n]
      <4>1. g[0] = Body(g)[0]
        BY <2>2, <3>2 DEF Solves
      <4>2. \A n \in 1..days : g[n] = Body(g)[n]
        <5>1. \A n \in 1..days : n \in 0..days /\ n # 0
          OBVIOUS
        <5> QED BY <2>3, <5>1
      <4> QED BY <3>1, <3>2, <4>1, <4>2
    <3>4. Body(g) = [n \in DOMAIN Body(g) |-> Body(g)[n]]
      OBVIOUS
    <3> HIDE DEF Body
    <3> QED BY <3>1, <3>3, <3>4
  <2> QED BY <2>4
<1> DEFINE power == CHOOSE g : g = Body(g)
<1>2. Power(base, days) = power[days]
  BY DEF Power
<1> HIDE DEF Body
<1>3. power = Body(power)
  BY <1>1
<1> HIDE DEF power
<1> QED BY <1>2, <1>3 DEF Body, Powers

\* Powers are positive, and a larger base has the larger power.
LEMMA PowerFacts ==
  ASSUME NEW base \in Nat \ {0}, NEW days \in Nat
  PROVE  /\ Power(base, days) \in Nat \ {0}
         /\ Power(base + 1, days) \in Nat \ {0}
         /\ Power(base + 1, days) >= Power(base, days)
<1>1. PICK f : Powers(f, base, days)
  BY PowerRuns
<1>2. PICK g : Powers(g, base + 1, days)
  <2>1. base + 1 \in Nat
    OBVIOUS
  <2> QED BY <2>1, PowerRuns
<1> DEFINE S == {n \in Nat : n <= days => /\ f[n] \in Nat \ {0} /\ g[n] \in Nat \ {0}
                                          /\ g[n] >= f[n]}
<1>3. 0 \in S
  <2>1. f[0] = 1 /\ g[0] = 1
    BY <1>1, <1>2 DEF Powers
  <2> QED BY <2>1
<1>4. ASSUME NEW n \in S PROVE n + 1 \in S
  <2> SUFFICES ASSUME n + 1 <= days
               PROVE  f[n + 1] \in Nat \ {0} /\ g[n + 1] \in Nat \ {0} /\ g[n + 1] >= f[n + 1]
    OBVIOUS
  <2> DEFINE x == f[n] y == g[n]
  <2>1. x \in Nat \ {0} /\ y \in Nat \ {0} /\ y >= x /\ n + 1 \in 0..days /\ n + 1 # 0
        /\ (n + 1) - 1 = n
    OBVIOUS
  <2>2. f[n + 1] = base * x /\ g[n + 1] = (base + 1) * y
    BY <1>1, <1>2, <2>1 DEF Powers
  <2> HIDE DEF x, y
  <2>3. base * x \in Nat \ {0} /\ base * y \in Nat \ {0} /\ base * y >= base * x
        /\ (base + 1) * y = base * y + y
    BY <2>1
  <2> QED BY <2>1, <2>2, <2>3
<1>5. days \in S
  <2> HIDE DEF S
  <2>1. S \subseteq Nat
    BY DEF S
  <2> QED BY <1>3, <1>4, <2>1, Induction
<1> QED BY <1>1, <1>2, <1>5 DEF Powers

\* Interest is an amount, and never negative for what is not.
LEMMA InterestFacts ==
  ASSUME NEW principal \in Int, NEW days \in Nat
  PROVE  /\ AccruedInterest(principal, days) \in Int
         /\ principal >= 0 => AccruedInterest(principal, days) >= 0
<1> DEFINE whole == Power(Growth, days)
           more == Power(Growth + 1, days)
           up == more - whole
           grown == principal * up
<1>1. whole \in Nat \ {0} /\ more \in Nat \ {0} /\ up \in Nat
  BY PowerFacts, LedgerAssumption
<1>2. AccruedInterest(principal, days) = (2 * grown + whole) \div (2 * whole)
  BY DEF AccruedInterest
<1> HIDE DEF whole, up
<1>3. grown \in Int /\ (principal >= 0 => grown >= 0)
  BY <1>1
<1> HIDE DEF grown
<1> QED BY <1>1, <1>2, <1>3

-----------------------------------------------------------------------------
(* The calendar.                                                           *)

\* Months are not empty and follow each other.
LEMMA MonthLengths ==
  ASSUME NEW m \in Nat \ {0}
  PROVE  /\ FirstDay(m) \in Nat /\ FirstDay(m) >= m
         /\ MonthDays(m) \in Nat \ {0}
         /\ FirstDay(m + 1) = FirstDay(m) + MonthDays(m)
<1> DEFINE q == (m - 1) \div 2
           K == LongMonth + ShortMonth
<1>1. LongMonth \in Nat \ {0} /\ ShortMonth \in Nat \ {0} /\ K \in Nat /\ K >= 2
  BY LedgerAssumption
<1>2. /\ q \in Nat
      /\ m % 2 = 1 => m = 2 * q + 1 /\ m \div 2 = q /\ (m + 1) % 2 = 0
      /\ m % 2 # 1 => m % 2 = 0 /\ m = 2 * q + 2 /\ m \div 2 = q + 1 /\ (m + 1) % 2 = 1
  OBVIOUS
<1>3. q * K \in Nat /\ q * K >= 2 * q /\ (q + 1) * K = q * K + K
  BY <1>1, <1>2
<1>4. FirstDay(m) = q * K + (IF m % 2 = 0 THEN LongMonth ELSE 0) + 1
  BY DEF FirstDay
<1>5. FirstDay(m + 1) = (m \div 2) * K + (IF (m + 1) % 2 = 0 THEN LongMonth ELSE 0) + 1
  <2>1. (m + 1) - 1 = m
    OBVIOUS
  <2> QED BY <2>1 DEF FirstDay
<1>6. MonthDays(m) = IF m % 2 = 1 THEN LongMonth ELSE ShortMonth
  BY DEF MonthDays
<1> HIDE DEF q
<1>7. CASE m % 2 = 1
  BY <1>1, <1>2, <1>3, <1>4, <1>5, <1>6, <1>7
<1>8. CASE m % 2 # 1
  BY <1>1, <1>2, <1>3, <1>4, <1>5, <1>6, <1>8
<1> QED BY <1>7, <1>8

\* Months follow each other.
LEMMA MonthsFollow ==
  ASSUME NEW m \in Nat \ {0}, NEW n \in Nat, m < n
  PROVE  FirstDay(m + 1) <= FirstDay(n)
<1> DEFINE S == {k \in Nat : FirstDay(m + 1) <= FirstDay(m + 1 + k)}
<1>1. m + 1 \in Nat \ {0}
  OBVIOUS
<1>2. 0 \in S
  BY <1>1, MonthLengths
<1>3. ASSUME NEW k \in S PROVE k + 1 \in S
  <2> DEFINE l == m + 1 + k
  <2>1. l \in Nat \ {0} /\ m + 1 + (k + 1) = l + 1
    OBVIOUS
  <2>2. FirstDay(l) \in Nat /\ MonthDays(l) \in Nat /\ FirstDay(l + 1) = FirstDay(l) + MonthDays(l)
    BY <2>1, MonthLengths
  <2>3. FirstDay(m + 1) \in Nat /\ FirstDay(m + 1) <= FirstDay(l)
    BY <1>1, MonthLengths
  <2> HIDE DEF l
  <2>4. FirstDay(m + 1) <= FirstDay(l + 1)
    BY <2>2, <2>3
  <2> QED BY <2>1, <2>4
<1>4. n - (m + 1) \in S
  <2>1. n - (m + 1) \in Nat
    OBVIOUS
  <2> HIDE DEF S
  <2>2. S \subseteq Nat
    BY DEF S
  <2> QED BY <1>2, <1>3, <2>1, <2>2, Induction
<1>5. m + 1 + (n - (m + 1)) = n
  OBVIOUS
<1> QED BY <1>4, <1>5

\* Every day is in one month.
LEMMA MonthOfFacts ==
  ASSUME NEW date \in Nat \ {0}
  PROVE  /\ MonthOf(date) \in 1..date
         /\ FirstDay(MonthOf(date)) <= date /\ date < FirstDay(MonthOf(date) + 1)
<1> DEFINE S == {m \in Nat : m # 0 /\ date < FirstDay(m + 1)}
<1>1. date \in S
  <2>1. FirstDay(date + 1) >= date + 1 /\ FirstDay(date + 1) \in Nat
    BY MonthLengths
  <2> QED BY <2>1
<1>2. PICK m \in S : \A k \in S : m <= k
  BY <1>1, LeastElement
<1>3. m \in 1..date
  BY <1>1, <1>2
<1>4. FirstDay(m) <= date
  <2>1. CASE m = 1
    <3>1. FirstDay(1) = ((1 - 1) \div 2) * (LongMonth + ShortMonth)
                          + (IF 1 % 2 = 0 THEN LongMonth ELSE 0) + 1
      BY DEF FirstDay
    <3>2. LongMonth + ShortMonth \in Nat /\ (1 - 1) \div 2 = 0 /\ 1 % 2 # 0
      BY LedgerAssumption
    <3> DEFINE K == LongMonth + ShortMonth
    <3>3. FirstDay(1) = 0 * K + 0 + 1
      BY <3>1, <3>2
    <3> HIDE DEF K
    <3>4. 0 * K = 0
      BY <3>2 DEF K
    <3> QED BY <2>1, <3>3, <3>4
  <2>2. CASE m # 1
    <3>1. m - 1 \in Nat \ {0} /\ (m - 1) + 1 = m
      BY <1>3, <2>2
    <3>2. m - 1 \notin S
      BY <1>2, <3>1
    <3>3. FirstDay(m) \in Nat
      BY <1>3, MonthLengths
    <3>4. ~(date < FirstDay((m - 1) + 1))
      BY <3>1, <3>2
    <3> QED BY <3>1, <3>3, <3>4
  <2> QED BY <2>1, <2>2
<1> QED BY <1>2, <1>3, <1>4 DEF MonthOf

\* A date between the first days of a month and of the next is in that month.
LEMMA MonthOfIs ==
  ASSUME NEW m \in Nat \ {0}, NEW date \in Nat, FirstDay(m) <= date, date < FirstDay(m + 1)
  PROVE  MonthOf(date) = m
<1>1. FirstDay(m) \in Nat /\ FirstDay(m) >= m /\ date \in Nat \ {0}
  BY MonthLengths
<1> DEFINE k == MonthOf(date)
<1>2. k \in Nat \ {0} /\ FirstDay(k) <= date /\ date < FirstDay(k + 1)
  BY <1>1, MonthOfFacts
<1> HIDE DEF k
<1>3. FirstDay(k) \in Nat /\ FirstDay(k + 1) \in Nat /\ FirstDay(m + 1) \in Nat
  BY <1>2, MonthLengths
<1>4. ~(m < k)
  <2> SUFFICES ASSUME m < k PROVE FALSE
    OBVIOUS
  <2>1. FirstDay(m + 1) <= FirstDay(k)
    BY <1>2, MonthsFollow
  <2> QED BY <1>1, <1>2, <1>3, <2>1
<1>5. ~(k < m)
  <2> SUFFICES ASSUME k < m PROVE FALSE
    OBVIOUS
  <2>1. FirstDay(k + 1) <= FirstDay(m)
    BY <1>2, MonthsFollow
  <2> QED BY <1>1, <1>2, <1>3, <2>1
<1> QED BY <1>2, <1>4, <1>5 DEF k

\* A billing day is in its month.
LEMMA OccurrenceInMonth ==
  ASSUME NEW m \in Nat \ {0}, NEW anchorDay \in Nat \ {0}
  PROVE  /\ MonthOccurrence(m, anchorDay) \in Nat \ {0}
         /\ MonthOf(MonthOccurrence(m, anchorDay)) = m
         /\ FirstDay(m) <= MonthOccurrence(m, anchorDay)
<1> DEFINE D == MonthDays(m)
           d == Min({anchorDay, D})
<1>1. /\ FirstDay(m) \in Nat /\ FirstDay(m) >= m /\ D \in Nat \ {0}
      /\ FirstDay(m + 1) = FirstDay(m) + D
  BY MonthLengths
<1> HIDE DEF D
<1>2. d \in Nat \ {0} /\ d <= D
  <2>1. \E x \in {anchorDay, D} : \A y \in {anchorDay, D} : x <= y
    BY <1>1
  <2>2. d \in {anchorDay, D} /\ \A y \in {anchorDay, D} : d <= y
    BY <2>1 DEF Min
  <2> QED BY <1>1, <2>2
<1>3. MonthOccurrence(m, anchorDay) = FirstDay(m) + d - 1
  BY DEF MonthOccurrence, D
<1> HIDE DEF d
<1> QED BY <1>1, <1>2, <1>3, MonthOfIs

\* The next billing day is in the next month.
LEMMA NextOccurrence ==
  ASSUME NEW date \in Nat \ {0}, NEW anchorDay \in Nat \ {0}
  PROVE  LET next == NextMonthOccurrence(date, anchorDay) IN
         /\ next \in Nat \ {0} /\ next > date
         /\ MonthOf(next) = MonthOf(date) + 1
         /\ next = MonthOccurrence(MonthOf(next), anchorDay)
<1> DEFINE m == MonthOf(date)
<1>1. m \in Nat \ {0} /\ date < FirstDay(m + 1) /\ m + 1 \in Nat \ {0}
  BY MonthOfFacts
<1>2. FirstDay(m + 1) \in Nat
  BY <1>1, MonthLengths
<1>3. NextMonthOccurrence(date, anchorDay) = MonthOccurrence(m + 1, anchorDay)
  BY DEF NextMonthOccurrence
<1> HIDE DEF m
<1>4. /\ MonthOccurrence(m + 1, anchorDay) \in Nat \ {0}
      /\ MonthOf(MonthOccurrence(m + 1, anchorDay)) = m + 1
      /\ FirstDay(m + 1) <= MonthOccurrence(m + 1, anchorDay)
  BY <1>1, OccurrenceInMonth
<1> QED BY <1>1, <1>2, <1>3, <1>4 DEF m

\* The recursion of OccurrenceDates has a solution: a date in each month from the first.
LEMMA DatesRun ==
  ASSUME NEW first \in Nat \ {0}, NEW anchorDay \in Nat \ {0}, today \in Nat \ {0}
  PROVE  \E date :
           LET count == Cardinality({n \in 0..today : date[n] <= today}) IN
           /\ OccurrenceDates(first, anchorDay) =
                [due |-> [i \in 1..count |-> date[i - 1]], next |-> date[count]]
           /\ date = [n \in 0..(today + 1) |->
                IF n = 0 THEN first ELSE NextMonthOccurrence(date[n - 1], anchorDay)]
<1> DEFINE Body(g) == [n \in 0..(today + 1) |->
                        IF n = 0 THEN first ELSE NextMonthOccurrence(g[n - 1], anchorDay)]
           Days == Nat \ {0}
           k == today + 1
           F == [p \in (1..k) \X Days |-> NextMonthOccurrence(p[2], anchorDay)]
<1>1. \E g : g = Body(g)
  <2>1. F \in [(1..k) \X Days -> Days] /\ k \in Nat /\ first \in Days
    BY NextOccurrence
  <2>2. PICK g : Solves(g, k, Days, first, F)
    <3> HIDE DEF F, Days, k
    <3> QED BY <2>1, Recursion
  <2>3. \A n \in 1..k : g[n] = NextMonthOccurrence(g[n - 1], anchorDay)
    <3> SUFFICES ASSUME NEW n \in 1..k PROVE g[n] = NextMonthOccurrence(g[n - 1], anchorDay)
      OBVIOUS
    <3>1. n - 1 \in 0..k
      OBVIOUS
    <3>2. <<n, g[n - 1]>> \in (1..k) \X Days
      BY <2>2, <3>1 DEF Solves
    <3> QED BY <2>2, <3>2 DEF Solves
  <2>4. g = Body(g)
    <3>1. g = [n \in DOMAIN g |-> g[n]] /\ DOMAIN g = 0..k /\ DOMAIN Body(g) = 0..k
      BY <2>2 DEF Solves
    <3>2. 0 \in 0..k /\ \A n \in 0..k : n = 0 \/ n \in 1..k
      BY <2>1
    <3>3. \A n \in DOMAIN g : g[n] = Body(g)[n]
      <4>1. g[0] = Body(g)[0]
        BY <2>2, <3>2 DEF Solves
      <4>2. \A n \in 1..k : g[n] = Body(g)[n]
        <5>1. \A n \in 1..k : n \in 0..k /\ n # 0
          OBVIOUS
        <5> QED BY <2>3, <5>1
      <4> QED BY <3>1, <3>2, <4>1, <4>2
    <3>4. Body(g) = [n \in DOMAIN Body(g) |-> Body(g)[n]]
      OBVIOUS
    <3> HIDE DEF Body
    <3> QED BY <3>1, <3>3, <3>4
  <2> QED BY <2>4
<1> DEFINE date == CHOOSE g : g = Body(g)
           count == Cardinality({n \in 0..today : date[n] <= today})
<1>2. OccurrenceDates(first, anchorDay) =
        [due |-> [i \in 1..count |-> date[i - 1]], next |-> date[count]]
  BY DEF OccurrenceDates
<1> HIDE DEF Body
<1>3. date = Body(date)
  BY <1>1
<1> HIDE DEF date
<1> QED BY <1>2, <1>3 DEF Body

\* A date is the billing day of its month.
OnBillingDay(date, anchorDay) == date = MonthOccurrence(MonthOf(date), anchorDay)

\* The dates up to today are one in each month from the first, the next one is the one
\* after them and not due; all are billing days if the first is.
LEMMA DatesFacts ==
  ASSUME NEW first \in Nat \ {0}, NEW anchorDay \in Nat \ {0}, today \in Nat \ {0}
  PROVE  LET dates == OccurrenceDates(first, anchorDay) IN
         /\ dates.due \in Seq(Nat \ {0}) /\ dates.next \in Nat \ {0}
         /\ \A i \in DOMAIN dates.due : /\ dates.due[i] <= today
                                        /\ MonthOf(dates.due[i]) = MonthOf(first) + i - 1
         /\ dates.next > today
         /\ MonthOf(dates.next) = MonthOf(first) + Len(dates.due)
         /\ OnBillingDay(first, anchorDay) =>
              /\ OnBillingDay(dates.next, anchorDay)
              /\ \A i \in DOMAIN dates.due : OnBillingDay(dates.due[i], anchorDay)
<1>1. PICK date :
        LET count == Cardinality({n \in 0..today : date[n] <= today}) IN
        /\ OccurrenceDates(first, anchorDay) =
             [due |-> [i \in 1..count |-> date[i - 1]], next |-> date[count]]
        /\ date = [n \in 0..(today + 1) |->
             IF n = 0 THEN first ELSE NextMonthOccurrence(date[n - 1], anchorDay)]
  BY DatesRun
<1> DEFINE early == {n \in 0..today : date[n] <= today}
           count == Cardinality(early)
<1>2. /\ OccurrenceDates(first, anchorDay) =
           [due |-> [i \in 1..count |-> date[i - 1]], next |-> date[count]]
      /\ date = [n \in 0..(today + 1) |->
           IF n = 0 THEN first ELSE NextMonthOccurrence(date[n - 1], anchorDay)]
  BY <1>1
<1>3. date[0] = first
  BY <1>2
<1>4. \A n \in 0..today : date[n + 1] = NextMonthOccurrence(date[n], anchorDay)
  <2> SUFFICES ASSUME NEW n \in 0..today
               PROVE  date[n + 1] = NextMonthOccurrence(date[n], anchorDay)
    OBVIOUS
  <2>1. n + 1 \in 0..(today + 1) /\ n + 1 # 0 /\ (n + 1) - 1 = n
    OBVIOUS
  <2> QED BY <1>2, <2>1
<1>5. MonthOf(first) \in Nat \ {0}
  BY MonthOfFacts
<1> DEFINE Run == {n \in Nat : n <= today + 1 =>
                     /\ date[n] \in Nat \ {0} /\ date[n] >= n + 1
                     /\ MonthOf(date[n]) = MonthOf(first) + n
                     /\ OnBillingDay(first, anchorDay) => OnBillingDay(date[n], anchorDay)}
<1>6. 0 \in Run
  BY <1>3, <1>5
<1>7. ASSUME NEW n \in Run PROVE n + 1 \in Run
  <2> SUFFICES ASSUME n + 1 <= today + 1
               PROVE  /\ date[n + 1] \in Nat \ {0} /\ date[n + 1] >= (n + 1) + 1
                      /\ MonthOf(date[n + 1]) = MonthOf(first) + (n + 1)
                      /\ OnBillingDay(first, anchorDay) => OnBillingDay(date[n + 1], anchorDay)
    OBVIOUS
  <2>1. /\ n \in 0..today /\ date[n] \in Nat \ {0} /\ date[n] >= n + 1
        /\ MonthOf(date[n]) = MonthOf(first) + n
    OBVIOUS
  <2> DEFINE next == NextMonthOccurrence(date[n], anchorDay)
  <2>2. /\ next \in Nat \ {0} /\ next > date[n] /\ MonthOf(next) = MonthOf(date[n]) + 1
        /\ OnBillingDay(next, anchorDay)
    BY <2>1, NextOccurrence DEF OnBillingDay
  <2>3. date[n + 1] = next
    BY <1>4, <2>1
  <2> HIDE DEF next
  <2> QED BY <1>5, <2>1, <2>2, <2>3
<1>8. \A n \in 0..(today + 1) : /\ date[n] \in Nat \ {0} /\ date[n] >= n + 1
                                /\ MonthOf(date[n]) = MonthOf(first) + n
                                /\ OnBillingDay(first, anchorDay) => OnBillingDay(date[n], anchorDay)
  <2>1. Run \subseteq Nat
    OBVIOUS
  <2> HIDE DEF Run
  <2>2. Run = Nat
    BY <1>6, <1>7, <2>1, Induction
  <2> USE DEF Run
  <2> QED BY <2>2
<1> DEFINE late == {n \in Nat : n \in 0..today /\ date[n] > today}
<1>9. today \in late
  BY <1>8
<1>10. PICK k \in late : \A n \in late : k <= n
  BY <1>9, LeastElement
<1> DEFINE After == {n \in Nat : k + n <= today => date[k + n] > today}
<1>11. 0 \in After
  BY <1>10
<1>12. ASSUME NEW n \in After PROVE n + 1 \in After
  <2> SUFFICES ASSUME k + (n + 1) <= today PROVE date[k + (n + 1)] > today
    OBVIOUS
  <2> DEFINE m == k + n
  <2>1. m \in 0..today /\ m + 1 \in 0..today /\ date[m] > today /\ k + (n + 1) = m + 1
    BY <1>10
  <2>2. date[m] \in Nat \ {0} /\ date[m + 1] = NextMonthOccurrence(date[m], anchorDay)
    BY <1>4, <1>8, <2>1
  <2> HIDE DEF m
  <2>3. date[m + 1] \in Nat /\ date[m + 1] > date[m]
    BY <2>2, NextOccurrence
  <2> QED BY <2>1, <2>2, <2>3
<1>13. \A l \in Nat : k + l <= today => date[k + l] > today
  <2>1. After \subseteq Nat
    OBVIOUS
  <2> HIDE DEF After
  <2>2. After = Nat
    BY <1>11, <1>12, <2>1, Induction
  <2>3. \A l \in After : k + l <= today => date[k + l] > today
    BY DEF After
  <2> QED BY <2>2, <2>3
<1>14. early = 0..(k - 1)
  <2>1. ASSUME NEW n \in early PROVE n \in 0..(k - 1)
    <3>1. n \in 0..today /\ date[n] <= today /\ date[n] \in Nat
      BY <1>8
    <3>2. ~(n >= k)
      <4> SUFFICES ASSUME n >= k PROVE FALSE
        OBVIOUS
      <4> DEFINE l == n - k
      <4>1. l \in Nat /\ k + l = n
        BY <1>10, <3>1
      <4> HIDE DEF l
      <4>2. date[k + l] > today
        BY <1>13, <3>1, <4>1
      <4> QED BY <3>1, <4>1, <4>2
    <3> QED BY <3>1, <3>2
  <2>2. ASSUME NEW n \in 0..(k - 1) PROVE n \in early
    <3>1. n \in 0..today /\ n \notin late
      BY <1>10
    <3>2. date[n] \in Nat
      BY <1>8, <3>1
    <3> QED BY <3>1, <3>2
  <2> QED BY <2>1, <2>2
<1>15. count = k /\ k \in 0..today /\ date[k] > today
  <2>1. k \in 0..today /\ date[k] > today /\ 0 \in Int /\ k - 1 \in Int
    BY <1>10
  <2>2. Cardinality(0..(k - 1)) = IF 0 > k - 1 THEN 0 ELSE (k - 1) - 0 + 1
    BY <2>1, FS_Interval
  <2> HIDE DEF early
  <2> QED BY <1>14, <2>1, <2>2
<1> DEFINE due == [i \in 1..k |-> date[i - 1]]
<1> HIDE DEF count, early, late, After, Run
<1>16. \A i \in 1..k : i - 1 \in 0..today /\ i - 1 \in 0..(k - 1)
  BY <1>15
<1>17. \A i \in 1..k : /\ date[i - 1] \in Nat \ {0}
                       /\ MonthOf(date[i - 1]) = MonthOf(first) + i - 1
                       /\ OnBillingDay(first, anchorDay) => OnBillingDay(date[i - 1], anchorDay)
  <2> SUFFICES ASSUME NEW i \in 1..k
               PROVE  /\ date[i - 1] \in Nat \ {0} /\ MonthOf(date[i - 1]) = MonthOf(first) + i - 1
                      /\ OnBillingDay(first, anchorDay) => OnBillingDay(date[i - 1], anchorDay)
    OBVIOUS
  <2> DEFINE n == i - 1
  <2>1. n \in 0..(today + 1) /\ n \in Int
    BY <1>15
  <2> HIDE DEF n
  <2>2. /\ date[n] \in Nat \ {0} /\ MonthOf(date[n]) = MonthOf(first) + n
        /\ OnBillingDay(first, anchorDay) => OnBillingDay(date[n], anchorDay)
    BY <1>8, <2>1
  <2> USE DEF n
  <2> QED BY <1>5, <2>2
<1>18. \A i \in 1..k : date[i - 1] <= today
  BY <1>14, <1>16 DEF early
<1>19. due \in Seq(Nat \ {0}) /\ DOMAIN due = 1..k /\ Len(due) = k
  <2>1. k \in Nat
    BY <1>15
  <2> QED BY <1>17, <2>1
<1>20. /\ date[k] \in Nat \ {0} /\ MonthOf(date[k]) = MonthOf(first) + k
       /\ OnBillingDay(first, anchorDay) => OnBillingDay(date[k], anchorDay)
  BY <1>8, <1>15
<1>21. OccurrenceDates(first, anchorDay).due = due /\ OccurrenceDates(first, anchorDay).next = date[k]
  BY <1>2, <1>15
<1> QED BY <1>15, <1>17, <1>18, <1>19, <1>20, <1>21

-----------------------------------------------------------------------------
(* Rows.                                                                   *)

\* A state is well kept: it has its type, no row is ahead of the clock, and interest
\* was settled on the savings account before each of its rows.
Kept(b) ==
  /\ b \in BankStates
  /\ \A i \in DOMAIN b.rows :
       /\ b.rows[i].day <= today
       /\ b.rows[i].account = Savings => b.rows[i].day <= b.accounts[Savings].anchor

\* What lets a row be booked on an account today.
SettledUpTo(b, account) == account = Savings => today <= b.accounts[Savings].anchor

\* What is left of a state when one part of it is replaced.
LEMMA RowsReplaced ==
  ASSUME NEW b \in BankStates, NEW rows \in Seq(RowTypes)
  PROVE  LET c == [b EXCEPT !.rows = rows] IN
         /\ c \in BankStates /\ c.rows = rows
         /\ c.accounts = b.accounts /\ c.rules = b.rules
         /\ c.cards = b.cards /\ c.recent = b.recent
BY DEF BankStates

\* The same for the accounts.
LEMMA AccountsReplaced ==
  ASSUME NEW b \in BankStates, NEW accounts \in [Accounts -> AccountTypes]
  PROVE  LET c == [b EXCEPT !.accounts = accounts] IN
         /\ c \in BankStates /\ c.accounts = accounts
         /\ c.rows = b.rows /\ c.rules = b.rules
         /\ c.cards = b.cards /\ c.recent = b.recent
BY DEF BankStates

\* The same for the rules.
LEMMA RulesReplaced ==
  ASSUME NEW b \in BankStates, NEW rules \in Seq(RuleTypes)
  PROVE  LET c == [b EXCEPT !.rules = rules] IN
         /\ c \in BankStates /\ c.rules = rules
         /\ c.accounts = b.accounts /\ c.rows = b.rows
         /\ c.cards = b.cards /\ c.recent = b.recent
BY DEF BankStates

\* A balance is a number.
LEMMA BalanceType ==
  ASSUME NEW b \in BankStates, NEW account
  PROVE  BalanceOf(b, account) \in Int
<1> DEFINE own == {i \in DOMAIN b.rows : b.rows[i].account = account}
           last == CHOOSE i \in own : \A j \in own : j <= i
<1>1. b.rows \in Seq(RowTypes)
  BY DEF BankStates
<1>2. BalanceOf(b, account) = IF own = {} THEN 0 ELSE b.rows[last].balance
  BY DEF BalanceOf, LastBalance
<1>3. own \subseteq 0..Len(b.rows) /\ own \subseteq DOMAIN b.rows /\ Len(b.rows) \in Nat
  BY <1>1
<1> HIDE DEF own
<1>4. CASE own # {}
  <2>1. \E i \in own : \A j \in own : j <= i
    BY <1>3, <1>4, GreatestElement
  <2>2. last \in own
    BY <2>1
  <2> HIDE DEF last
  <2>3. b.rows[last] \in RowTypes
    BY <1>1, <1>3, <2>2
  <2> QED BY <1>2, <1>4, <2>3 DEF RowTypes
<1> QED BY <1>2, <1>4

\* A row more is booked in one state than in another, and nothing else differs.
Booked(posted, b) ==
  /\ Kept(posted) /\ posted = [b EXCEPT !.rows = posted.rows]
  /\ Len(posted.rows) = Len(b.rows) + 1

\* Booking a row keeps a state well kept and changes nothing but the rows.
LEMMA AppendKept ==
  ASSUME NEW b, Kept(b), today \in Nat \ {0},
         NEW account \in Accounts, NEW amount \in Int, NEW kind \in Kinds,
         NEW rule \in RuleIds \cup {NoRule}, NEW date \in Nat \ {0},
         SettledUpTo(b, account)
  PROVE  Booked(AppendRow(b, account, amount, kind, rule, date), b)
<1> DEFINE row == [account |-> account, amount |-> amount,
                   balance |-> BalanceOf(b, account) + amount,
                   kind |-> kind, rule |-> rule, date |-> date, day |-> today]
           posted == [b EXCEPT !.rows = Append(@, row)]
<1>1. b \in BankStates /\ b.rows \in Seq(RowTypes)
  BY DEF Kept, BankStates
<1>2. row \in RowTypes
  BY <1>1, BalanceType DEF RowTypes
<1>3. row.day = today /\ row.account = account
  OBVIOUS
<1>4. AppendRow(b, account, amount, kind, rule, date) = posted
  BY DEF AppendRow
<1> HIDE DEF row
<1> DEFINE rows == Append(b.rows, row)
<1>5. rows \in Seq(RowTypes)
  BY <1>1, <1>2
<1>6. posted = [b EXCEPT !.rows = rows]
  OBVIOUS
<1>7. posted \in BankStates /\ posted.rows = rows /\ posted.accounts = b.accounts
  <2> HIDE DEF rows, posted
  <2> QED BY <1>1, <1>5, <1>6, RowsReplaced
<1> HIDE DEF posted
<1>8. \A i \in DOMAIN posted.rows :
        (i \in DOMAIN b.rows /\ posted.rows[i] = b.rows[i]) \/ posted.rows[i] = row
  BY <1>1, <1>2, <1>7
<1>9. Kept(posted)
  BY <1>3, <1>7, <1>8 DEF Kept, SettledUpTo
<1>10. Len(posted.rows) = Len(b.rows) + 1
  BY <1>1, <1>2, <1>7
<1> HIDE DEF rows
<1> QED BY <1>4, <1>6, <1>7, <1>9, <1>10 DEF Booked

\* The same for a row of no rule.
LEMMA PostKept ==
  ASSUME NEW b, Kept(b), today \in Nat \ {0},
         NEW account \in Accounts, NEW amount \in Int, NEW kind \in Kinds,
         SettledUpTo(b, account)
  PROVE  Booked(Post(b, account, amount, kind), b)
<1>1. NoRule \in RuleIds \cup {NoRule}
  OBVIOUS
<1> QED BY <1>1, AppendKept DEF Post

\* What settling an account changes and leaves alone.
AfterSettling(settled, b, account) ==
  /\ Kept(settled)
  /\ \A a \in Accounts : settled.accounts[a].status = b.accounts[a].status
  /\ settled.rules = b.rules /\ settled.cards = b.cards /\ settled.recent = b.recent
  /\ IsActive(b, account) => SettledUpTo(settled, account)
  /\ \A a : SettledUpTo(b, a) => SettledUpTo(settled, a)

\* Settling keeps a state well kept, and nothing is left to settle on an active account.
LEMMA SettleKept ==
  ASSUME NEW b, Kept(b), today \in Nat \ {0}, NEW account \in Accounts
  PROVE  AfterSettling(SettleAccount(b, account), b, account)
<1> DEFINE acc == b.accounts[account]
           amount == AccruedInterest(BalanceOf(b, account), today - acc.anchor)
           posted == Post(b, account, amount, "interest")
           settled == IF amount > 0 THEN posted ELSE b
<1>1. b \in BankStates /\ b.accounts \in [Accounts -> AccountTypes] /\ b.rows \in Seq(RowTypes)
  BY DEF Kept, BankStates
<1>2. acc.anchor \in Nat /\ acc.status \in {"absent", "active", "closed"}
  BY <1>1 DEF AccountTypes
<1>3. SettleAccount(b, account) =
        IF account # Savings \/ acc.status # "active" \/ acc.anchor >= today THEN b
        ELSE [settled EXCEPT !.accounts[account].anchor = today]
  BY DEF SettleAccount
<1>4. CASE account # Savings \/ acc.status # "active" \/ acc.anchor >= today
  BY <1>1, <1>2, <1>3, <1>4 DEF SettledUpTo, IsActive, AfterSettling
<1>5. CASE ~(account # Savings \/ acc.status # "active" \/ acc.anchor >= today)
  <2> DEFINE result == [settled EXCEPT !.accounts[account].anchor = today]
  <2>1. amount \in Int
    <3>1. BalanceOf(b, account) \in Int /\ today - acc.anchor \in Nat
      BY <1>1, <1>2, <1>5, BalanceType
    <3> QED BY <3>1, InterestFacts
  <2> DEFINE row == [account |-> account, amount |-> amount,
                     balance |-> BalanceOf(b, account) + amount,
                     kind |-> "interest", rule |-> NoRule, date |-> today, day |-> today]
  <2>2. row \in RowTypes /\ row.day = today
    BY <1>1, <2>1, BalanceType DEF RowTypes, Kinds
  <2>3. posted = [b EXCEPT !.rows = Append(@, row)]
    BY DEF Post, AppendRow
  <2> HIDE DEF amount, row, acc
  <2> DEFINE rows == Append(b.rows, row)
  <2>4. /\ settled \in BankStates /\ settled.accounts = b.accounts
        /\ settled.rules = b.rules /\ settled.cards = b.cards /\ settled.recent = b.recent
        /\ settled.rows \in {b.rows, Append(b.rows, row)}
    <3>1. rows \in Seq(RowTypes)
      BY <1>1, <2>2
    <3>2. posted = [b EXCEPT !.rows = rows]
      BY <2>3
    <3> HIDE DEF posted, rows
    <3>3. /\ posted \in BankStates /\ posted.accounts = b.accounts
          /\ posted.rules = b.rules /\ posted.cards = b.cards /\ posted.recent = b.recent
          /\ posted.rows = rows
      BY <1>1, <3>1, <3>2, RowsReplaced
    <3> QED BY <1>1, <3>3 DEF rows
  <2>5. \A i \in DOMAIN settled.rows : settled.rows[i].day <= today
    <3>1. \A i \in DOMAIN settled.rows :
            (i \in DOMAIN b.rows /\ settled.rows[i] = b.rows[i]) \/ settled.rows[i] = row
      BY <1>1, <2>2, <2>4
    <3> QED BY <2>2, <3>1 DEF Kept
  <2> HIDE DEF settled
  <2>6. settled.accounts \in [Accounts -> AccountTypes] /\ account = Savings
    BY <1>1, <1>5, <2>4
  <2> DEFINE accounts == [settled.accounts EXCEPT ![account].anchor = today]
  <2>7. /\ result \in BankStates /\ result.rows = settled.rows
        /\ result.rules = b.rules /\ result.cards = b.cards /\ result.recent = b.recent
        /\ result.accounts = [b.accounts EXCEPT ![account].anchor = today]
    <3>1. accounts \in [Accounts -> AccountTypes]
      BY <2>6 DEF AccountTypes
    <3>2. result = [settled EXCEPT !.accounts = accounts]
      OBVIOUS
    <3> HIDE DEF result, accounts
    <3>3. result \in BankStates /\ result.rows = settled.rows /\ result.accounts = accounts
          /\ result.rules = settled.rules /\ result.cards = settled.cards
          /\ result.recent = settled.recent
      BY <2>4, <3>1, <3>2, AccountsReplaced
    <3> QED BY <2>4, <3>3 DEF accounts
  <2> HIDE DEF result
  <2>8. result.accounts[Savings].anchor = today
    BY <1>1, <2>6, <2>7 DEF AccountTypes
  <2>9. \A x \in Accounts : result.accounts[x].status = b.accounts[x].status
    BY <1>1, <2>6, <2>7 DEF AccountTypes
  <2>10. Kept(result)
    BY <2>5, <2>7, <2>8 DEF Kept
  <2> QED BY <1>3, <1>5, <2>7, <2>8, <2>9, <2>10 DEF SettledUpTo, AfterSettling, result, acc
<1> QED BY <1>4, <1>5

-----------------------------------------------------------------------------
(* Occurrences of rules.                                                   *)

\* The well kept states that differ from b in their rows only.
WithRows(b) == {c \in BankStates : Kept(c) /\ c = [b EXCEPT !.rows = c.rows]}

\* One step of PostOccurrences.
PostStep(b, rule, dates, n, c) ==
  IF dates[n] \notin Missing(b, rule, dates) THEN c
  ELSE AppendRow(c, rule.account, Signed(rule), "manual", rule.id, dates[n])

\* The recursion of PostOccurrences, solved.
Posts(posted, b, rule, dates) ==
  /\ posted \in [0..Len(dates) -> WithRows(b)] /\ posted[0] = b
  /\ \A n \in 1..Len(dates) : posted[n] = PostStep(b, rule, dates, n, posted[n - 1])
  /\ PostOccurrences(b, rule, dates) = posted[Len(dates)]

\* What a rule books is an integer.
LEMMA SignedType ==
  ASSUME NEW rule \in RuleTypes
  PROVE  Signed(rule) \in Int
<1>1. rule.amount \in Nat
  <2>1. rule.amount \in Amounts /\ Amounts \subseteq Nat
    BY LedgerAssumption DEF RuleTypes
  <2> QED BY <2>1
<1>2. rule.amount \in Int /\ -rule.amount \in Int
  BY <1>1
<1> QED BY <1>2 DEF Signed

\* What one date does to a state: at most one more row, which is the rule's.
StepKept(b, rule, dates, n, c) ==
  /\ PostStep(b, rule, dates, n, c) \in WithRows(b)
  /\ Len(PostStep(b, rule, dates, n, c).rows) =
       Len(c.rows) + (IF dates[n] \in Missing(b, rule, dates) THEN 1 ELSE 0)

\* Posting one date keeps a state well kept.
LEMMA PostStepKept ==
  ASSUME NEW b, Kept(b), today \in Nat \ {0}, NEW rule \in RuleTypes,
         NEW dates \in Seq(Nat \ {0}), NEW n \in 1..Len(dates), NEW c \in WithRows(b)
  PROVE  StepKept(b, rule, dates, n, c)
<1> DEFINE account == rule.account
           amount == Signed(rule)
           id == rule.id
           date == dates[n]
           next == AppendRow(c, account, amount, "manual", id, date)
<1>1. Kept(c) /\ c \in BankStates /\ c = [b EXCEPT !.rows = c.rows] /\ c.rows \in Seq(RowTypes)
  BY DEF WithRows, BankStates
<1>2. /\ account \in Accounts /\ account # Savings /\ id \in RuleIds \cup {NoRule}
      /\ date \in Nat \ {0} /\ "manual" \in Kinds /\ amount \in Int
  BY SignedType, LedgerAssumption DEF RuleTypes, Accounts, Kinds
<1>3. SettledUpTo(c, account)
  BY <1>2 DEF SettledUpTo
<1>4. PostStep(b, rule, dates, n, c) = IF date \in Missing(b, rule, dates) THEN next ELSE c
  BY DEF PostStep
<1> HIDE DEF account, amount, id, date
<1>5. Booked(next, c)
  BY <1>1, <1>2, <1>3, AppendKept
<1> HIDE DEF next
<1>6. b \in BankStates
  BY DEF Kept
<1>7. next = [b EXCEPT !.rows = next.rows]
  BY <1>1, <1>5, <1>6 DEF Booked, BankStates
<1>8. next \in WithRows(b)
  BY <1>5, <1>7 DEF Booked, WithRows, Kept
<1>9. Len(c.rows) \in Nat
  BY <1>1
<1>10. CASE date \in Missing(b, rule, dates)
  BY <1>4, <1>5, <1>8, <1>10 DEF Booked, date, StepKept
<1>11. CASE date \notin Missing(b, rule, dates)
  BY <1>4, <1>9, <1>11 DEF date, StepKept
<1> QED BY <1>10, <1>11

\* The recursion of PostOccurrences has a solution among the well-kept states.
LEMMA PostsRun ==
  ASSUME NEW b, Kept(b), today \in Nat \ {0}, NEW rule \in RuleTypes,
         NEW dates \in Seq(Nat \ {0})
  PROVE  \E posted : Posts(posted, b, rule, dates)
<1> DEFINE Body(g) ==
             [n \in 0..Len(dates) |->
                IF n = 0 THEN b
                ELSE IF dates[n] \notin Missing(b, rule, dates) THEN g[n - 1]
                ELSE AppendRow(g[n - 1], rule.account, Signed(rule), "manual", rule.id, dates[n])]
           k == Len(dates)
           X == WithRows(b)
           F == [p \in (1..k) \X X |-> PostStep(b, rule, dates, p[1], p[2])]
<1>1. F \in [(1..k) \X X -> X] /\ k \in Nat /\ b \in X
  <2>1. F \in [(1..k) \X X -> X]
    BY PostStepKept DEF StepKept
  <2>2. b \in X
    BY DEF WithRows, Kept, BankStates
  <2> QED BY <2>1, <2>2
<1>2. PICK g : Solves(g, k, X, b, F)
  <2> HIDE DEF F, X, k
  <2> QED BY <1>1, Recursion
<1>3. \A h, n : n \in 1..k /\ h[n - 1] \in X => F[n, h[n - 1]] = PostStep(b, rule, dates, n, h[n - 1])
  <2> SUFFICES ASSUME NEW h, NEW n \in 1..k, h[n - 1] \in X
               PROVE  F[n, h[n - 1]] = PostStep(b, rule, dates, n, h[n - 1])
    OBVIOUS
  <2>1. <<n, h[n - 1]>> \in (1..k) \X X
    OBVIOUS
  <2> QED BY <2>1
<1>4. \A n \in 1..k : n - 1 \in 0..k /\ n \in 0..k /\ n # 0
  BY <1>1
<1>5. ASSUME NEW h, h = Body(h) PROVE Follows(h, k, X, b, F)
  <2>1. h = [n \in 0..k |-> h[n]]
    BY <1>5
  <2>2. h[0] = b
    BY <1>1, <1>5
  <2>3. ASSUME NEW n \in 1..k PROVE h[n] = PostStep(b, rule, dates, n, h[n - 1])
    BY <1>4, <1>5 DEF PostStep
  <2> HIDE DEF F, X, k
  <2> QED BY <1>3, <2>1, <2>2, <2>3 DEF Follows
<1>6. g = Body(g)
  <2>1. g = [n \in DOMAIN g |-> g[n]] /\ DOMAIN g = 0..k /\ DOMAIN Body(g) = 0..k
    BY <1>2 DEF Solves
  <2>2. 0 \in 0..k /\ \A n \in 0..k : n = 0 \/ n \in 1..k
    BY <1>1
  <2>3. ASSUME NEW n \in 1..k PROVE g[n] = Body(g)[n]
    <3>1. g[n] = PostStep(b, rule, dates, n, g[n - 1])
      <4> HIDE DEF F, X, k
      <4> QED BY <1>2, <1>3, <1>4 DEF Solves
    <3> QED BY <1>4, <3>1 DEF PostStep
  <2>4. g[0] = Body(g)[0]
    BY <1>2, <2>2 DEF Solves
  <2>5. Body(g) = [n \in DOMAIN Body(g) |-> Body(g)[n]]
    OBVIOUS
  <2> HIDE DEF Body, k
  <2>6. \A n \in 0..k : g[n] = Body(g)[n]
    BY <2>2, <2>3, <2>4
  <2> QED BY <2>1, <2>5, <2>6
<1> DEFINE posted == CHOOSE h : h = Body(h)
<1>7. PostOccurrences(b, rule, dates) = posted[k]
  BY DEF PostOccurrences
<1> HIDE DEF Body
<1>8. posted = Body(posted)
  BY <1>6
<1> HIDE DEF posted, F, X
<1>9. posted = g
  <2> HIDE DEF k
  <2> QED BY <1>1, <1>2, <1>5, <1>8, OneSolution
<1>10. \A n \in 1..k : g[n] = PostStep(b, rule, dates, n, g[n - 1])
  <2> HIDE DEF k
  <2> QED BY <1>2, <1>3, <1>4 DEF Solves
<1> QED BY <1>2, <1>7, <1>9, <1>10 DEF Posts, Solves, X

\* Dates in different months are different, so that each missing one is booked once: as
\* many rows are posted as dates are missing.
OneMonthEach(dates) ==
  \A i, j \in DOMAIN dates : MonthOf(dates[i]) = MonthOf(dates[j]) => i = j

\* The due dates of a rule are in different months.
LEMMA DueDates ==
  ASSUME NEW first \in Nat \ {0}, NEW anchorDay \in Nat \ {0}, today \in Nat \ {0}
  PROVE  OneMonthEach(OccurrenceDates(first, anchorDay).due)
<1> DEFINE due == OccurrenceDates(first, anchorDay).due
<1>1. /\ due \in Seq(Nat \ {0})
      /\ \A j \in DOMAIN due : MonthOf(due[j]) = MonthOf(first) + j - 1
  BY DatesFacts
<1>2. MonthOf(first) \in Nat
  BY MonthOfFacts
<1>3. \A j \in DOMAIN due : j \in Nat
  BY <1>1
<1> HIDE DEF due
<1>4. OneMonthEach(due)
  BY <1>1, <1>2, <1>3 DEF OneMonthEach
<1> QED BY <1>4 DEF due

\* All missing dates are posted and no other, one row each.
LEMMA PostedFacts ==
  ASSUME NEW b, Kept(b), today \in Nat \ {0}, NEW rule \in RuleTypes,
         NEW dates \in Seq(Nat \ {0}), OneMonthEach(dates)
  PROVE  LET posted == PostOccurrences(b, rule, dates)
             missing == Missing(b, rule, dates)
         IN  /\ posted \in WithRows(b)
             /\ Cardinality(missing) \in Nat
             /\ Cardinality(missing) = 0 => posted = b
             /\ Len(posted.rows) = Len(b.rows) + Cardinality(missing)
<1> DEFINE missing == Missing(b, rule, dates)
           k == Len(dates)
           At(n) == {m \in 1..n : dates[m] \in missing}
<1>1. PICK posted : Posts(posted, b, rule, dates)
  BY PostsRun
<1>2. /\ k \in Nat /\ DOMAIN dates = 1..k /\ \A n \in 1..k : dates[n] \in Nat \ {0}
      /\ missing \subseteq {dates[n] : n \in 1..k}
  BY DEF Missing, ToSet
<1>3. b.rows \in Seq(RowTypes)
  BY DEF Kept, BankStates
<1> HIDE DEF missing
<1>4. \A n \in Nat : IsFiniteSet(At(n)) /\ Cardinality(At(n)) \in Nat
  <2> SUFFICES ASSUME NEW n \in Nat PROVE IsFiniteSet(At(n)) /\ Cardinality(At(n)) \in Nat
    OBVIOUS
  <2>1. IsFiniteSet(1..n) /\ At(n) \subseteq 1..n
    BY FS_Interval
  <2> HIDE DEF At
  <2> QED BY <2>1, FS_Subset, FS_CardinalityType
<1> DEFINE S == {n \in Nat : n <= k => Len(posted[n].rows) = Len(b.rows) + Cardinality(At(n))}
<1>5. 0 \in S
  <2>1. At(0) = {}
    OBVIOUS
  <2>2. Cardinality(At(0)) = 0
    BY <2>1, FS_EmptySet
  <2> HIDE DEF At
  <2> QED BY <1>1, <1>3, <2>2 DEF Posts
<1>6. ASSUME NEW n \in Nat, n \in S PROVE n + 1 \in S
  <2> SUFFICES ASSUME n + 1 <= k
               PROVE  Len(posted[n + 1].rows) = Len(b.rows) + Cardinality(At(n + 1))
    OBVIOUS
  <2> DEFINE c == posted[n]
             one == IF dates[n + 1] \in missing THEN 1 ELSE 0
  <2>1. n \in 0..k /\ n + 1 \in 1..k /\ (n + 1) - 1 = n
    BY <1>2
  <2>2. c \in WithRows(b) /\ Len(c.rows) = Len(b.rows) + Cardinality(At(n))
    <3> HIDE DEF At, k
    <3>1. n <= k
      BY <2>1 DEF k
    <3> QED BY <1>1, <1>6, <2>1, <3>1 DEF Posts, k
  <2>3. posted[n + 1] = PostStep(b, rule, dates, n + 1, c)
    BY <1>1, <2>1 DEF Posts
  <2>4. Len(PostStep(b, rule, dates, n + 1, c).rows) = Len(c.rows) + one
    <3> DEFINE m == n + 1
    <3>1. m \in 1..Len(dates) /\ c \in WithRows(b)
      BY <2>1, <2>2
    <3> HIDE DEF c, m
    <3>2. StepKept(b, rule, dates, m, c)
      BY <3>1, PostStepKept
    <3> QED BY <3>2 DEF StepKept, missing, m
  <2>5. Cardinality(At(n + 1)) = Cardinality(At(n)) + one
    <3>1. CASE dates[n + 1] \in missing
      <4>1. At(n + 1) = At(n) \cup {n + 1} /\ n + 1 \notin At(n)
        BY <3>1
      <4> HIDE DEF At
      <4> QED BY <1>4, <3>1, <4>1, FS_AddElement
    <3>2. CASE dates[n + 1] \notin missing
      <4>1. At(n + 1) = At(n)
        BY <3>2
      <4> HIDE DEF At
      <4> QED BY <1>4, <3>2, <4>1
    <3> QED BY <3>1, <3>2
  <2> HIDE DEF c, At
  <2>6. Len(b.rows) \in Nat /\ Cardinality(At(n)) \in Nat
    <3>1. Len(b.rows) \in Nat
      BY <1>3
    <3>2. Cardinality(At(n)) \in Nat
      BY <1>4
    <3> QED BY <3>1, <3>2
  <2> QED BY <2>2, <2>3, <2>4, <2>5, <2>6
<1>7. Len(posted[k].rows) = Len(b.rows) + Cardinality(At(k))
  <2>1. S \subseteq Nat
    OBVIOUS
  <2>2. k \in S
    <3> HIDE DEF S
    <3> QED BY <1>2, <1>5, <1>6, <2>1, Induction
  <2> HIDE DEF At
  <2> QED BY <1>2, <2>2
<1>8. IsFiniteSet(missing) /\ Cardinality(missing) = Cardinality(At(k))
  <2> DEFINE f == [n \in At(k) |-> dates[n]]
  <2>1. f \in [At(k) -> missing]
    OBVIOUS
  <2>2. \A m, n \in At(k) : f[m] = f[n] => m = n
    BY <1>2 DEF OneMonthEach
  <2>3. \A date \in missing : \E n \in At(k) : f[n] = date
    BY <1>2
  <2> HIDE DEF f, At, k
  <2>4. f \in Bijection(At(k), missing)
    BY <2>1, <2>2, <2>3 DEF Bijection, Injection, Surjection, IsInjective
  <2>5. ExistsBijection(At(k), missing)
    BY <2>4 DEF ExistsBijection
  <2> QED BY <1>2, <1>4, <2>5, FS_Bijection DEF k
<1>9. posted[k] \in WithRows(b) /\ PostOccurrences(b, rule, dates) = posted[k]
  BY <1>1, <1>2 DEF Posts
<1>10. Cardinality(missing) = 0 => posted[k] = b
  <2> SUFFICES ASSUME Cardinality(missing) = 0 PROVE posted[k] = b
    OBVIOUS
  <2>1. missing = {}
    BY <1>8, FS_EmptySet
  <2> DEFINE Same == {n \in Nat : n <= k => posted[n] = b}
  <2>2. 0 \in Same
    BY <1>1 DEF Posts
  <2>3. ASSUME NEW n \in Nat, n \in Same PROVE n + 1 \in Same
    <3> SUFFICES ASSUME n + 1 <= k PROVE posted[n + 1] = b
      OBVIOUS
    <3>1. n + 1 \in 1..k /\ (n + 1) - 1 = n /\ n <= k
      BY <1>2
    <3>2. posted[n] = b
      BY <2>3, <3>1
    <3> QED BY <1>1, <2>1, <3>1, <3>2 DEF Posts, PostStep, missing
  <2>4. Same \subseteq Nat
    OBVIOUS
  <2>5. k \in Same
    <3> HIDE DEF Same
    <3> QED BY <1>2, <2>2, <2>3, <2>4, Induction
  <2> QED BY <1>2, <2>5
<1> HIDE DEF k, At
<1> QED BY <1>2, <1>4, <1>7, <1>8, <1>9, <1>10 DEF missing, k

-----------------------------------------------------------------------------
(* Materialisation.                                                        *)

\* An occurrence of the rule is due.
Due(b, i) == b.rules[i].status = "active" /\ b.rules[i].next <= today

\* What materialising up to a limit of rows may make of a state: it posts rows, moves the
\* next dates of rules and pauses them.  Nothing is due, nothing is done; and no row is
\* posted past the limit.
Onward(b, limit) ==
  {c \in BankStates :
     /\ Kept(c)
     /\ c.accounts = b.accounts /\ c.cards = b.cards /\ c.recent = b.recent
     /\ Len(c.rules) = Len(b.rules)
     /\ \A i \in DOMAIN b.rules :
          /\ c.rules[i].account = b.rules[i].account
          /\ c.rules[i].status = "active" => b.rules[i].status = "active"
     /\ (\A i \in DOMAIN b.rules : ~Due(b, i)) => c = b
     /\ limit = Len(b.rows) => c.rows = b.rows
     /\ Len(b.rows) <= limit => Len(c.rows) <= limit}

\* Doing nothing is a way of materialising.
LEMMA OnwardReflexive ==
  ASSUME NEW b, Kept(b), NEW limit
  PROVE  b \in Onward(b, limit)
BY DEF Onward, Kept

\* Materialising on is materialising.
LEMMA OnwardTransitive ==
  ASSUME NEW b \in BankStates, NEW limit, NEW c \in Onward(b, limit), NEW d \in Onward(c, limit)
  PROVE  d \in Onward(b, limit)
<1>1. b.rules \in Seq(RuleTypes) /\ c.rules \in Seq(RuleTypes) /\ d \in BankStates /\ Kept(d)
  BY DEF Onward, BankStates
<1>2. DOMAIN c.rules = DOMAIN b.rules /\ Len(c.rules) = Len(b.rules) /\ Len(d.rules) = Len(c.rules)
  BY <1>1 DEF Onward
<1>3. /\ d.accounts = b.accounts /\ d.cards = b.cards /\ d.recent = b.recent
      /\ \A i \in DOMAIN b.rules :
           /\ d.rules[i].account = b.rules[i].account
           /\ d.rules[i].status = "active" => b.rules[i].status = "active"
  BY <1>2 DEF Onward
<1>4. (\A i \in DOMAIN b.rules : ~Due(b, i)) => d = b
  BY DEF Onward
<1>5. /\ limit = Len(b.rows) => d.rows = b.rows
      /\ Len(b.rows) <= limit => Len(d.rows) <= limit
  BY DEF Onward
<1> QED BY <1>1, <1>2, <1>3, <1>4, <1>5 DEF Onward

\* A rule replaced by one on the same account, that runs only if it did.
LEMMA RuleChanged ==
  ASSUME NEW b, Kept(b), NEW i \in DOMAIN b.rules, NEW r \in RuleTypes,
         r.account = b.rules[i].account,
         r.status = "active" => b.rules[i].status = "active",
         NEW limit
  PROVE  LET c == [b EXCEPT !.rules = [@ EXCEPT ![i] = r]] IN
         /\ Kept(c) /\ Due(b, i) => c \in Onward(b, limit)
         /\ Kept(c) /\ c.rules = [b.rules EXCEPT ![i] = r] /\ c.rows = b.rows
<1> DEFINE rules == [b.rules EXCEPT ![i] = r]
           c == [b EXCEPT !.rules = [@ EXCEPT ![i] = r]]
<1>1. b \in BankStates /\ b.rules \in Seq(RuleTypes)
  BY DEF Kept, BankStates
<1>2. rules \in Seq(RuleTypes) /\ Len(rules) = Len(b.rules) /\ DOMAIN rules = DOMAIN b.rules
  BY <1>1
<1>3. \A j \in DOMAIN b.rules : /\ rules[j].account = b.rules[j].account
                                /\ rules[j].status = "active" => b.rules[j].status = "active"
  BY <1>1
<1>4. c = [b EXCEPT !.rules = rules]
  OBVIOUS
<1> HIDE DEF rules, c
<1>5. /\ c \in BankStates /\ c.rules = rules
      /\ c.accounts = b.accounts /\ c.rows = b.rows /\ c.cards = b.cards /\ c.recent = b.recent
  BY <1>1, <1>2, <1>4, RulesReplaced
<1>6. Kept(c)
  BY <1>5 DEF Kept
<1>7. Due(b, i) => c \in Onward(b, limit)
  BY <1>2, <1>3, <1>5, <1>6 DEF Onward
<1> QED BY <1>5, <1>6, <1>7 DEF c, rules

\* What one rule's turn does.
RuleTurn(b, i, limit, c) ==
  /\ c \in Onward(b, limit)
  /\ \A j \in DOMAIN b.rules : j # i => c.rules[j] = b.rules[j]
  /\ ~Due(b, i) => c = b
  /\ IsActive(b, b.rules[i].account) => ~Due(c, i)

\* One rule's turn: it is no longer due, and the others are untouched.
LEMMA MaterializeRuleFacts ==
  ASSUME NEW b, Kept(b), today \in Nat \ {0}, NEW i \in DOMAIN b.rules, NEW limit \in Nat
  PROVE  RuleTurn(b, i, limit, MaterializeRule(b, i, limit))
<1> DEFINE rule == b.rules[i]
           dates == OccurrenceDates(rule.next, rule.anchorDay)
           missing == Missing(b, rule, dates.due)
           posted == PostOccurrences(b, rule, dates.due)
           m == MaterializeRule(b, i, limit)
           idle == rule.status # "active" \/ rule.next > today \/ ~IsActive(b, rule.account)
<1>1. b \in BankStates /\ b.rules \in Seq(RuleTypes) /\ b.rows \in Seq(RowTypes)
  BY DEF Kept, BankStates
<1>2. rule \in RuleTypes
  BY <1>1
<1>3. /\ rule.next \in Nat \ {0} /\ rule.anchorDay \in Nat \ {0}
      /\ rule.account \in Checking /\ rule.amount \in Nat
  <2>1. Amounts \subseteq Nat /\ AnchorDays \subseteq Nat \ {0}
    BY LedgerAssumption
  <2>2. /\ rule.next \in Nat \ {0} /\ rule.anchorDay \in AnchorDays
        /\ rule.account \in Checking /\ rule.amount \in Amounts
    BY <1>2 DEF RuleTypes
  <2> QED BY <2>1, <2>2
<1>4. dates.due \in Seq(Nat \ {0}) /\ dates.next \in Nat \ {0} /\ dates.next > today
  BY <1>3, DatesFacts
<1>5. OneMonthEach(dates.due)
  BY <1>3, DueDates
<1>6. /\ posted \in WithRows(b) /\ Cardinality(missing) \in Nat
      /\ Cardinality(missing) = 0 => posted = b
      /\ Len(posted.rows) = Len(b.rows) + Cardinality(missing)
  <2> HIDE DEF dates
  <2> QED BY <1>2, <1>4, <1>5, PostedFacts
<1>7. CASE idle
  <2>1. m = b
    BY <1>7 DEF MaterializeRule
  <2>2. m \in Onward(b, limit)
    BY <2>1, OnwardReflexive
  <2>3. IsActive(b, rule.account) => ~Due(b, i)
    BY <1>3, <1>7 DEF Due
  <2> HIDE DEF m
  <2> QED BY <2>1, <2>2, <2>3 DEF RuleTurn, m
<1>8. ASSUME NEW reason \in {"capacity", "insufficient_funds"}, ~idle, m = PauseRule(b, i, reason)
      PROVE  RuleTurn(b, i, limit, m)
  <2> DEFINE r == [rule EXCEPT !.status = reason]
  <2>1. r \in RuleTypes /\ r.account = rule.account /\ r.status = reason
    BY <1>2 DEF RuleTypes
  <2>2. m = [b EXCEPT !.rules = [@ EXCEPT ![i] = r]]
    BY <1>8 DEF PauseRule
  <2>3. Due(b, i)
    BY <1>3, <1>8 DEF Due
  <2> HIDE DEF r, m
  <2>4. m \in Onward(b, limit) /\ m.rules = [b.rules EXCEPT ![i] = r]
    BY <2>1, <2>2, <2>3, RuleChanged
  <2>5. m.rules[i] = r /\ \A j \in DOMAIN b.rules : j # i => m.rules[j] = b.rules[j]
    BY <1>1, <2>4
  <2>6. ~Due(m, i)
    BY <2>1, <2>5 DEF Due
  <2> QED BY <2>3, <2>4, <2>5, <2>6 DEF RuleTurn, m
<1>9. ASSUME ~idle, Len(b.rows) + Cardinality(missing) <= limit,
             m = [posted EXCEPT !.rules[i].next = dates.next]
      PROVE  RuleTurn(b, i, limit, m)
  <2> DEFINE r == [rule EXCEPT !.next = dates.next]
  <2>1. /\ r \in RuleTypes /\ r.account = rule.account /\ r.status = rule.status
        /\ r.next = dates.next
    <3> HIDE DEF dates
    <3> QED BY <1>2, <1>4 DEF RuleTypes
  <2>2. /\ Kept(posted) /\ posted \in BankStates /\ posted = [b EXCEPT !.rows = posted.rows]
        /\ posted.rules = b.rules /\ posted.accounts = b.accounts
        /\ posted.cards = b.cards /\ posted.recent = b.recent
    <3> HIDE DEF posted
    <3> QED BY <1>1, <1>6 DEF WithRows, BankStates
  <2>3. m = [posted EXCEPT !.rules = [@ EXCEPT ![i] = r]]
    BY <1>9, <2>2
  <2>4. Due(b, i) /\ Due(posted, i)
    <3>1. Due(b, i)
      <4>1. rule.status = "active" /\ ~(rule.next > today)
        BY <1>9
      <4> QED BY <1>3, <4>1 DEF Due
    <3> HIDE DEF posted
    <3> QED BY <2>2, <3>1 DEF Due
  <2> HIDE DEF r, m, posted, dates
  <2>5. m \in Onward(posted, limit) /\ m.rules = [b.rules EXCEPT ![i] = r]
    BY <2>1, <2>2, <2>3, <2>4, RuleChanged
  <2>6. posted \in Onward(b, limit)
    <3>1. limit = Len(b.rows) => posted = b
      <4>1. Len(b.rows) \in Nat
        BY <1>1
      <4> HIDE DEF missing
      <4> QED BY <1>6, <1>9, <4>1
    <3>2. Len(posted.rows) <= limit
      BY <1>6, <1>9
    <3> QED BY <2>2, <2>4, <3>1, <3>2 DEF Onward
  <2>7. m \in Onward(b, limit)
    BY <1>1, <2>5, <2>6, OnwardTransitive
  <2>8. m.rules[i] = r /\ \A j \in DOMAIN b.rules : j # i => m.rules[j] = b.rules[j]
    BY <1>1, <2>5
  <2>9. ~Due(m, i)
    BY <1>4, <2>1, <2>8 DEF Due
  <2> QED BY <2>4, <2>7, <2>8, <2>9 DEF RuleTurn, m
<1>10. CASE ~idle
  <2>1. CASE Len(dates.due) > MaxOccurrences \/ Len(b.rows) + Cardinality(missing) > limit
    <3>1. m = PauseRule(b, i, "capacity")
      BY <1>10, <2>1 DEF MaterializeRule
    <3> HIDE DEF m, idle
    <3> QED BY <1>8, <1>10, <3>1 DEF m
  <2>2. CASE ~(Len(dates.due) > MaxOccurrences \/ Len(b.rows) + Cardinality(missing) > limit)
    <3>1. Len(b.rows) + Cardinality(missing) <= limit
      <4>1. Len(b.rows) \in Nat
        BY <1>1
      <4> HIDE DEF missing
      <4> QED BY <1>6, <2>2, <4>1
    <3>2. m = PauseRule(b, i, "insufficient_funds")
            \/ m = [posted EXCEPT !.rules[i].next = dates.next]
      BY <1>10, <2>2 DEF MaterializeRule
    <3> HIDE DEF m, idle, posted, missing
    <3> QED BY <1>8, <1>9, <1>10, <3>1, <3>2 DEF m
  <2> QED BY <2>1, <2>2
<1> QED BY <1>7, <1>10

\* What the turn of the n-th rule makes of a state that materialising has reached.
TurnOf(b, limit, n, c, d) ==
  /\ d \in Onward(b, limit) /\ RuleTurn(c, n, limit, d)
  /\ Kept(c) /\ c.accounts = b.accounts /\ DOMAIN c.rules = DOMAIN b.rules
  /\ \A i \in DOMAIN b.rules : c.rules[i].account = b.rules[i].account

\* Each turn leads on.
LEMMA OnwardTurn ==
  ASSUME NEW b, Kept(b), today \in Nat \ {0}, NEW limit \in Nat, NEW n \in DOMAIN b.rules,
         NEW c \in Onward(b, limit)
  PROVE  TurnOf(b, limit, n, c, MaterializeRule(c, n, limit))
<1>1. /\ Kept(c) /\ c.accounts = b.accounts /\ c.rules \in Seq(RuleTypes)
      /\ Len(c.rules) = Len(b.rules)
      /\ \A i \in DOMAIN b.rules : c.rules[i].account = b.rules[i].account
  BY DEF Onward, BankStates
<1>2. b \in BankStates /\ b.rules \in Seq(RuleTypes)
  BY DEF Kept, BankStates
<1>3. DOMAIN c.rules = DOMAIN b.rules
  BY <1>1, <1>2
<1>4. RuleTurn(c, n, limit, MaterializeRule(c, n, limit))
  BY <1>1, <1>3, MaterializeRuleFacts
<1>5. MaterializeRule(c, n, limit) \in Onward(b, limit)
  BY <1>2, <1>4, OnwardTransitive DEF RuleTurn
<1> QED BY <1>1, <1>3, <1>4, <1>5 DEF TurnOf

\* The recursion of MaterializeRules, solved.
Turns(g, b, limit) ==
  /\ g \in [0..Len(b.rules) -> Onward(b, limit)] /\ g[0] = b
  /\ \A n \in 1..Len(b.rules) : g[n] = MaterializeRule(g[n - 1], n, limit)
  /\ MaterializeRules(b, limit) = g[Len(b.rules)]

\* It has a solution: one turn after the other.
LEMMA TurnsRun ==
  ASSUME NEW b, Kept(b), today \in Nat \ {0}, NEW limit \in Nat
  PROVE  \E g : Turns(g, b, limit)
<1> DEFINE Body(g) == [i \in 0..Len(b.rules) |->
                         IF i = 0 THEN b ELSE MaterializeRule(g[i - 1], i, limit)]
           k == Len(b.rules)
           X == Onward(b, limit)
           F == [p \in (1..k) \X X |-> MaterializeRule(p[2], p[1], limit)]
<1>1. b \in BankStates /\ b.rules \in Seq(RuleTypes) /\ k \in Nat /\ DOMAIN b.rules = 1..k
  BY DEF Kept, BankStates
<1>2. ASSUME NEW n \in 1..k, NEW c \in X PROVE MaterializeRule(c, n, limit) \in X
  <2>1. TurnOf(b, limit, n, c, MaterializeRule(c, n, limit))
    BY <1>1, OnwardTurn
  <2> QED BY <2>1 DEF TurnOf
<1>3. F \in [(1..k) \X X -> X] /\ b \in X
  BY <1>1, <1>2, OnwardReflexive
<1>4. PICK g : Solves(g, k, X, b, F)
  <2> HIDE DEF F, X, k
  <2> QED BY <1>1, <1>3, Recursion
<1>5. \A h, n : n \in 1..k /\ h[n - 1] \in X => F[n, h[n - 1]] = MaterializeRule(h[n - 1], n, limit)
  <2> SUFFICES ASSUME NEW h, NEW n \in 1..k, h[n - 1] \in X
               PROVE  F[n, h[n - 1]] = MaterializeRule(h[n - 1], n, limit)
    OBVIOUS
  <2>1. <<n, h[n - 1]>> \in (1..k) \X X
    OBVIOUS
  <2> QED BY <2>1
<1>6. \A n \in 1..k : n - 1 \in 0..k /\ n \in 0..k /\ n # 0
  BY <1>1
<1>7. ASSUME NEW h, h = Body(h) PROVE Follows(h, k, X, b, F)
  <2>1. h = [n \in 0..k |-> h[n]]
    BY <1>7
  <2>2. h[0] = b
    BY <1>1, <1>7
  <2>3. ASSUME NEW n \in 1..k PROVE h[n] = MaterializeRule(h[n - 1], n, limit)
    BY <1>6, <1>7
  <2> HIDE DEF F, X, k
  <2> QED BY <1>5, <2>1, <2>2, <2>3 DEF Follows
<1>8. ASSUME NEW n \in 1..k
      PROVE  g[n] = MaterializeRule(g[n - 1], n, limit) /\ g[n - 1] \in X
  <2> HIDE DEF F, X, k
  <2> QED BY <1>4, <1>5, <1>6 DEF Solves
<1>9. g = Body(g)
  <2>1. g = [n \in DOMAIN g |-> g[n]] /\ DOMAIN g = 0..k /\ DOMAIN Body(g) = 0..k
    BY <1>4 DEF Solves
  <2>2. 0 \in 0..k /\ \A n \in 0..k : n = 0 \/ n \in 1..k
    BY <1>1
  <2>3. ASSUME NEW n \in 1..k PROVE g[n] = Body(g)[n]
    BY <1>6, <1>8
  <2>4. g[0] = Body(g)[0]
    BY <1>4, <2>2 DEF Solves
  <2>5. Body(g) = [n \in DOMAIN Body(g) |-> Body(g)[n]]
    OBVIOUS
  <2> HIDE DEF Body, k
  <2>6. \A n \in 0..k : g[n] = Body(g)[n]
    BY <2>2, <2>3, <2>4
  <2> QED BY <2>1, <2>5, <2>6
<1> DEFINE state == CHOOSE h : h = Body(h)
<1>10. MaterializeRules(b, limit) = state[k]
  BY DEF MaterializeRules
<1> HIDE DEF Body
<1>11. state = Body(state)
  BY <1>9
<1> HIDE DEF state, F, X
<1>12. state = g
  <2> HIDE DEF k
  <2> QED BY <1>1, <1>4, <1>7, <1>11, OneSolution
<1>13. g \in [0..k -> X] /\ g[0] = b
  BY <1>4 DEF Solves
<1> QED BY <1>8, <1>10, <1>12, <1>13 DEF Turns, X, k

\* Materialising the rules moves a state on, and leaves no rule of an active account due.
LEMMA MaterializeRulesFacts ==
  ASSUME NEW b, Kept(b), today \in Nat \ {0}, NEW limit \in Nat
  PROVE  LET m == MaterializeRules(b, limit) IN
         /\ m \in Onward(b, limit)
         /\ \A i \in DOMAIN b.rules : IsActive(b, b.rules[i].account) => ~Due(m, i)
<1> DEFINE k == Len(b.rules)
           X == Onward(b, limit)
<1>1. b \in BankStates /\ b.rules \in Seq(RuleTypes) /\ k \in Nat /\ DOMAIN b.rules = 1..k
  BY DEF Kept, BankStates
<1>2. PICK g : Turns(g, b, limit)
  BY TurnsRun
<1> HIDE DEF k, X
<1>3. /\ g \in [0..k -> X] /\ MaterializeRules(b, limit) = g[k]
      /\ \A n \in 1..k : g[n] = MaterializeRule(g[n - 1], n, limit)
  BY <1>2 DEF Turns, k, X
<1>4. ASSUME NEW n \in 1..k
      PROVE  g[n - 1] \in X /\ TurnOf(b, limit, n, g[n - 1], g[n])
  <2> DEFINE c == g[n - 1]
  <2>1. n - 1 \in 0..k /\ n \in DOMAIN b.rules
    BY <1>1
  <2>2. c \in X /\ g[n] = MaterializeRule(c, n, limit)
    BY <1>3, <2>1
  <2> HIDE DEF c
  <2>3. TurnOf(b, limit, n, c, MaterializeRule(c, n, limit))
    BY <2>1, <2>2, OnwardTurn DEF X
  <2> QED BY <2>2, <2>3 DEF c
<1> DEFINE Idle(n) == \A i \in 1..n : IsActive(b, b.rules[i].account) => ~Due(g[n], i)
           S == {n \in Nat : n <= k => Idle(n)}
<1>5. 0 \in S
  OBVIOUS
<1>6. ASSUME NEW n \in Nat, n \in S PROVE n + 1 \in S
  <2> SUFFICES ASSUME n + 1 <= k PROVE Idle(n + 1)
    OBVIOUS
  <2> DEFINE c == g[n]
             m == n + 1
  <2>1. m \in 1..k /\ m - 1 = n /\ n <= k
    BY <1>1
  <2>2. Idle(n)
    BY <1>6, <2>1
  <2>3. TurnOf(b, limit, m, c, g[m])
    BY <1>4, <2>1
  <2>4. /\ RuleTurn(c, m, limit, g[m]) /\ c.accounts = b.accounts /\ DOMAIN c.rules = 1..k
        /\ \A i \in 1..k : c.rules[i].account = b.rules[i].account
    BY <1>1, <2>3 DEF TurnOf
  <2>5. IsActive(b, b.rules[m].account) => ~Due(g[m], m)
    BY <2>1, <2>4 DEF RuleTurn, IsActive
  <2>6. ASSUME NEW i \in 1..n, IsActive(b, b.rules[i].account) PROVE ~Due(g[m], i)
    <3>1. ~Due(c, i)
      BY <2>2, <2>6
    <3>2. i \in 1..k /\ i # m
      BY <1>1, <2>1
    <3>3. g[m].rules[i] = c.rules[i]
      BY <2>4, <3>2 DEF RuleTurn
    <3> QED BY <3>1, <3>3 DEF Due
  <2>7. \A i \in 1..m : i = m \/ i \in 1..n
    OBVIOUS
  <2> HIDE DEF c
  <2> QED BY <2>5, <2>6, <2>7
<1>7. Idle(k)
  <2>1. S \subseteq Nat
    OBVIOUS
  <2>2. k \in S
    <3> HIDE DEF S
    <3> QED BY <1>1, <1>5, <1>6, <2>1, Induction
  <2> QED BY <1>1, <2>2
<1>8. g[k] \in X
  <2>1. k \in 0..k
    BY <1>1
  <2> QED BY <1>3, <2>1
<1> QED BY <1>1, <1>3, <1>7, <1>8 DEF X

-----------------------------------------------------------------------------
(* The commands.                                                           *)

\* A rule runs only while its account is active.
RulesFollow(b) ==
  \A i \in DOMAIN b.rules : b.rules[i].status = "active" => IsActive(b, b.rules[i].account)

\* The part of the invariant that is about the bank.
Good(b) == Kept(b) /\ RulesFollow(b)

\* The rules of a state are rules.
LEMMA RulesAre ==
  ASSUME NEW b \in BankStates, NEW i \in DOMAIN b.rules
  PROVE  b.rules[i] \in RuleTypes /\ b.rules[i].account \in Accounts
<1>1. b.rules \in Seq(RuleTypes)
  BY DEF BankStates
<1>2. b.rules[i] \in RuleTypes
  BY <1>1
<1> QED BY <1>2 DEF RuleTypes, Accounts

\* A rule with another status is a rule.
LEMMA StatusReplaced ==
  ASSUME NEW rule \in RuleTypes,
         NEW status \in {"active", "manual", "account_closed", "capacity", "insufficient_funds"}
  PROVE  LET r == [rule EXCEPT !.status = status] IN
         r \in RuleTypes /\ r.account = rule.account /\ r.status = status
BY DEF RuleTypes

\* No rule starts to run and no account stops being active: rules go on following.
LEMMA FollowsOn ==
  ASSUME NEW b, Good(b), NEW c, Kept(c),
         \A a \in Accounts : IsActive(b, a) => IsActive(c, a),
         Len(c.rules) = Len(b.rules),
         \A i \in DOMAIN b.rules : /\ c.rules[i].account = b.rules[i].account
                                   /\ c.rules[i].status = "active" => b.rules[i].status = "active"
  PROVE  Good(c)
<1>1. b.rules \in Seq(RuleTypes) /\ c.rules \in Seq(RuleTypes)
  BY DEF Good, Kept, BankStates
<1>2. DOMAIN c.rules = DOMAIN b.rules
  BY <1>1
<1>3. \A i \in DOMAIN b.rules : b.rules[i].account \in Accounts
  BY RulesAre DEF Good, Kept
<1> QED BY <1>2, <1>3 DEF Good, RulesFollow

\* A booked row leaves a good state good.
LEMMA BookedGood ==
  ASSUME NEW b, Good(b), NEW c, Booked(c, b)
  PROVE  Good(c) /\ c.accounts = b.accounts /\ c.rules = b.rules /\ c.recent = b.recent
<1>1. b \in BankStates /\ c \in BankStates /\ c = [b EXCEPT !.rows = c.rows] /\ Kept(c)
  BY DEF Good, Kept, Booked
<1>2. c.accounts = b.accounts /\ c.rules = b.rules /\ c.recent = b.recent
  BY <1>1 DEF BankStates
<1>3. Good(c)
  BY <1>1, <1>2, FollowsOn DEF IsActive
<1> QED BY <1>2, <1>3

\* So does settling an account,
LEMMA SettledGood ==
  ASSUME NEW b, Good(b), today \in Nat \ {0}, NEW account \in Accounts
  PROVE  LET settled == SettleAccount(b, account) IN
         /\ Good(settled) /\ settled.rules = b.rules
         /\ \A a \in Accounts : IsActive(settled, a) <=> IsActive(b, a)
         /\ IsActive(b, account) => SettledUpTo(settled, account)
         /\ \A a : SettledUpTo(b, a) => SettledUpTo(settled, a)
<1> DEFINE s == SettleAccount(b, account)
<1>1. AfterSettling(s, b, account)
  BY SettleKept DEF Good
<1> HIDE DEF s
<1>2. \A a \in Accounts : IsActive(s, a) <=> IsActive(b, a)
  BY <1>1 DEF AfterSettling, IsActive
<1>3. Good(s)
  BY <1>1, <1>2, FollowsOn DEF AfterSettling
<1> QED BY <1>1, <1>2, <1>3 DEF AfterSettling, s

\* settling all that fits,
LEMMA SettledAllGood ==
  ASSUME NEW b, Good(b), today \in Nat \ {0}
  PROVE  Good(SettleAllWithinLimit(b).state)
<1>1. Good(SettleAccount(b, Savings))
  BY SettledGood DEF Accounts
<1> QED BY <1>1 DEF SettleAllWithinLimit

\* posting what rules missed,
LEMMA OnwardGood ==
  ASSUME NEW b, Good(b), NEW limit, NEW c \in Onward(b, limit)
  PROVE  Good(c)
<1>1. Kept(c) /\ c.accounts = b.accounts /\ Len(c.rules) = Len(b.rules)
  BY DEF Onward
<1>2. \A i \in DOMAIN b.rules : /\ c.rules[i].account = b.rules[i].account
                                /\ c.rules[i].status = "active" => b.rules[i].status = "active"
  BY DEF Onward
<1> QED BY <1>1, <1>2, FollowsOn DEF IsActive

\* and a whole materialisation.
LEMMA MaterializedGood ==
  ASSUME NEW b, Good(b), today \in Nat \ {0}
  PROVE  Good(Materialized(b))
<1> DEFINE s == SettleAllWithinLimit(b).state
           limit == IF SettleAllWithinLimit(b).capacityReached THEN Len(b.rows) ELSE MaxTransactions
<1>1. Good(s)
  BY SettledAllGood
<1>2. limit \in Nat
  <2>1. b.rows \in Seq(RowTypes)
    BY DEF Good, Kept, BankStates
  <2>2. Len(b.rows) \in Nat /\ MaxTransactions \in Nat
    BY <2>1, LedgerAssumption
  <2> QED BY <2>2
<1>3. Materialized(b) = MaterializeRules(s, limit)
  BY DEF Materialized
<1> HIDE DEF s, limit
<1>4. MaterializeRules(s, limit) \in Onward(s, limit)
  BY <1>1, <1>2, MaterializeRulesFacts DEF Good
<1> QED BY <1>1, <1>3, <1>4, OnwardGood

\* One lemma for each command: applied to a good state it leaves a good state.
LEMMA RecordGood ==
  ASSUME NEW b, Good(b), today \in Nat \ {0}, NEW account \in Checking, NEW amount \in Int,
         RecordTransaction(b, account, amount)
  PROVE  Good(bank') /\ today' = today
<1>1. account \in Accounts /\ SettledUpTo(b, account) /\ "manual" \in Kinds
  BY LedgerAssumption DEF Accounts, SettledUpTo, Kinds
<1>2. Booked(Post(b, account, amount, "manual"), b)
  BY <1>1, PostKept DEF Good
<1>3. bank' = Post(b, account, amount, "manual") /\ today' = today
  BY DEF RecordTransaction, Commit
<1> QED BY <1>2, <1>3, BookedGood

\* PauseRecurring.
LEMMA PauseGood ==
  ASSUME NEW b, Good(b), NEW id, PauseRecurring(b, id)
  PROVE  Good(bank') /\ today' = today
<1>1. PICK i \in DOMAIN b.rules : bank' = PauseRule(b, i, "manual") /\ today' = today
  BY DEF PauseRecurring, Commit
<1> DEFINE r == [b.rules[i] EXCEPT !.status = "manual"]
           c == [b EXCEPT !.rules = [@ EXCEPT ![i] = r]]
<1>2. b.rules \in Seq(RuleTypes)
  BY DEF Good, Kept, BankStates
<1>3. r \in RuleTypes /\ r.account = b.rules[i].account /\ r.status = "manual"
  BY RulesAre, StatusReplaced DEF Good, Kept
<1>4. bank' = c
  BY <1>1 DEF PauseRule
<1> HIDE DEF r
<1>5. Kept(c) /\ c.rules = [b.rules EXCEPT ![i] = r]
  BY <1>3, RuleChanged DEF Good
<1>6. c.accounts = b.accounts
  BY DEF Good, Kept, BankStates
<1> HIDE DEF c
<1>7. Len(c.rules) = Len(b.rules)
      /\ \A j \in DOMAIN b.rules : /\ c.rules[j].account = b.rules[j].account
                                   /\ c.rules[j].status = "active" => b.rules[j].status = "active"
  BY <1>2, <1>3, <1>5
<1>8. Good(c)
  BY <1>5, <1>6, <1>7, FollowsOn DEF IsActive
<1> QED BY <1>1, <1>4, <1>8

\* ResumeRecurring.
LEMMA ResumeGood ==
  ASSUME NEW b, Good(b), today \in Nat \ {0}, NEW id, ResumeRecurring(b, id)
  PROVE  Good(bank') /\ today' = today
<1>1. PICK i \in DOMAIN b.rules :
        /\ IsActive(b, b.rules[i].account)
        /\ bank' = MaterializeRules([b EXCEPT !.rules[i].status = "active"], MaxTransactions)
        /\ today' = today
  BY DEF ResumeRecurring, Commit
<1> DEFINE r == [b.rules[i] EXCEPT !.status = "active"]
           rules == [b.rules EXCEPT ![i] = r]
           c == [b EXCEPT !.rules[i].status = "active"]
<1>2. b \in BankStates /\ b.rules \in Seq(RuleTypes)
  BY DEF Good, Kept, BankStates
<1>3. r \in RuleTypes /\ r.account = b.rules[i].account
  BY <1>2, RulesAre, StatusReplaced
<1>4. /\ rules \in Seq(RuleTypes) /\ DOMAIN rules = DOMAIN b.rules
      /\ \A j \in DOMAIN b.rules : /\ rules[j].account = b.rules[j].account
                                   /\ j # i => rules[j] = b.rules[j]
  <2> HIDE DEF r
  <2> QED BY <1>2, <1>3
<1>5. c = [b EXCEPT !.rules = rules]
  OBVIOUS
<1> HIDE DEF c, rules
<1>6. c \in BankStates /\ c.rules = rules /\ c.accounts = b.accounts /\ c.rows = b.rows
  BY <1>2, <1>4, <1>5, RulesReplaced
<1>7. Good(c)
  BY <1>1, <1>4, <1>6 DEF Good, Kept, RulesFollow, IsActive
<1>8. MaterializeRules(c, MaxTransactions) \in Onward(c, MaxTransactions)
  <2>1. MaxTransactions \in Nat
    BY LedgerAssumption
  <2> QED BY <1>7, <2>1, MaterializeRulesFacts DEF Good
<1> QED BY <1>1, <1>7, <1>8, OnwardGood DEF c

\* CreateRecurring.
LEMMA CreateGood ==
  ASSUME NEW b, Good(b), today \in Nat \ {0}, NEW c,
         c.rule \in RuleIds, c.account \in Checking, c.direction \in Directions,
         c.amount \in Amounts, c.month \in Nat \ {0}, c.anchorDay \in AnchorDays,
         CreateRecurring(b, c)
  PROVE  Good(bank') /\ today' = today
<1> DEFINE first == MonthOccurrence(c.month, c.anchorDay)
           dates == OccurrenceDates(first, c.anchorDay)
           rule == [id |-> c.rule, account |-> c.account, direction |-> c.direction,
                    amount |-> c.amount, anchorDay |-> c.anchorDay, startsOn |-> first,
                    next |-> dates.next, status |-> "active"]
           rules == Append(b.rules, rule)
           d == [b EXCEPT !.rules = Append(@, rule)]
           posted == PostOccurrences(d, rule, dates.due)
<1>1. bank' = posted /\ today' = today /\ IsActive(b, c.account)
  BY DEF CreateRecurring, Commit
<1>2. c.anchorDay \in Nat \ {0}
  <2>1. AnchorDays \subseteq Nat \ {0}
    BY LedgerAssumption
  <2> QED BY <2>1
<1>3. first \in Nat \ {0}
  BY <1>2, OccurrenceInMonth
<1> HIDE DEF first
<1>4. dates.due \in Seq(Nat \ {0}) /\ dates.next \in Nat \ {0} /\ OneMonthEach(dates.due)
  BY <1>2, <1>3, DatesFacts, DueDates
<1> HIDE DEF dates
<1>5. rule \in RuleTypes
  BY <1>3, <1>4 DEF RuleTypes, Directions
<1>6. rule.account = c.account
  OBVIOUS
<1> HIDE DEF rule
<1>7. b \in BankStates /\ b.rules \in Seq(RuleTypes)
  BY DEF Good, Kept, BankStates
<1>8. /\ rules \in Seq(RuleTypes)
      /\ \A i \in DOMAIN rules : (i \in DOMAIN b.rules /\ rules[i] = b.rules[i]) \/ rules[i] = rule
  BY <1>5, <1>7
<1>9. d = [b EXCEPT !.rules = rules]
  OBVIOUS
<1> HIDE DEF d, rules
<1>10. d \in BankStates /\ d.rules = rules /\ d.accounts = b.accounts /\ d.rows = b.rows
  BY <1>7, <1>8, <1>9, RulesReplaced
<1>11. Good(d)
  BY <1>1, <1>6, <1>8, <1>10 DEF Good, Kept, RulesFollow, IsActive
<1>12. posted \in WithRows(d)
  BY <1>4, <1>5, <1>11, PostedFacts DEF Good
<1> HIDE DEF posted
<1>13. Kept(posted) /\ posted.rules = d.rules /\ posted.accounts = d.accounts
  BY <1>10, <1>12 DEF WithRows, BankStates
<1>14. Good(posted)
  BY <1>11, <1>13 DEF Good, RulesFollow, IsActive
<1> QED BY <1>1, <1>14

\* An account replaced by one that accrues from the same day or from today.
LEMMA AccountChanged ==
  ASSUME NEW b, Kept(b), today \in Nat \ {0}, NEW account \in Accounts, NEW acc \in AccountTypes,
         account = Savings => acc.anchor \in {today, b.accounts[account].anchor}
  PROVE  LET c == [b EXCEPT !.accounts = [@ EXCEPT ![account] = acc]] IN
         /\ Kept(c) /\ c.rules = b.rules /\ c.rows = b.rows
         /\ c.accounts = [b.accounts EXCEPT ![account] = acc]
         /\ c.cards = b.cards /\ c.recent = b.recent
<1> DEFINE accounts == [b.accounts EXCEPT ![account] = acc]
           c == [b EXCEPT !.accounts = [@ EXCEPT ![account] = acc]]
<1>1. b \in BankStates /\ b.accounts \in [Accounts -> AccountTypes] /\ b.rows \in Seq(RowTypes)
  BY DEF Kept, BankStates
<1>2. accounts \in [Accounts -> AccountTypes]
  BY <1>1
<1>3. accounts[Savings] = IF account = Savings THEN acc ELSE b.accounts[Savings]
  BY <1>1 DEF Accounts
<1>4. c = [b EXCEPT !.accounts = accounts]
  OBVIOUS
<1> HIDE DEF c, accounts
<1>5. /\ c \in BankStates /\ c.accounts = accounts
      /\ c.rows = b.rows /\ c.rules = b.rules /\ c.cards = b.cards /\ c.recent = b.recent
  BY <1>1, <1>2, <1>4, AccountsReplaced
<1>6. Kept(c)
  BY <1>3, <1>5 DEF Kept
<1> QED BY <1>5, <1>6 DEF c, accounts

\* AddAccount.
LEMMA AddGood ==
  ASSUME NEW b, Good(b), today \in Nat \ {0}, NEW account \in Custom, AddAccount(b, account)
  PROVE  Good(bank') /\ today' = today
<1> DEFINE acc == [b.accounts[account] EXCEPT !.status = "active"]
           c == [b EXCEPT !.accounts[account].status = "active"]
<1>1. bank' = Post(c, account, 0, "seed") /\ today' = today
  BY DEF AddAccount, Commit
<1>2. account \in Accounts /\ account # Savings
  BY LedgerAssumption DEF Accounts
<1>3. b.accounts \in [Accounts -> AccountTypes]
  BY DEF Good, Kept, BankStates
<1>4. acc \in AccountTypes /\ acc.status = "active"
  BY <1>2, <1>3 DEF AccountTypes
<1>5. c = [b EXCEPT !.accounts = [@ EXCEPT ![account] = acc]]
  OBVIOUS
<1> HIDE DEF acc, c
<1>6. Kept(c) /\ c.rules = b.rules /\ c.accounts = [b.accounts EXCEPT ![account] = acc]
  BY <1>2, <1>4, <1>5, AccountChanged DEF Good
<1>7. \A a \in Accounts : IsActive(b, a) => IsActive(c, a)
  BY <1>3, <1>4, <1>6 DEF IsActive
<1>8. Good(c)
  BY <1>6, <1>7, FollowsOn
<1>9. SettledUpTo(c, account) /\ "seed" \in Kinds
  BY <1>2 DEF SettledUpTo, Kinds
<1>10. Booked(Post(c, account, 0, "seed"), c)
  BY <1>2, <1>8, <1>9, PostKept DEF Good
<1> QED BY <1>1, <1>8, <1>10, BookedGood

\* AdjustBalance.
LEMMA AdjustGood ==
  ASSUME NEW b, Good(b), today \in Nat \ {0}, NEW account \in Accounts, NEW target \in Int,
         AdjustBalance(b, account, target)
  PROVE  Good(bank') /\ today' = today
<1> DEFINE s == SettleAccount(b, account)
           current == BalanceOf(s, account)
<1>1. /\ today' = today /\ IsActive(b, account)
      /\ bank' = s \/ bank' = Post(s, account, target - current, "adjustment")
  BY DEF AdjustBalance, Commit
<1>2. Good(s) /\ SettledUpTo(s, account)
  BY <1>1, SettledGood
<1> HIDE DEF s
<1>3. current \in Int
  BY <1>2, BalanceType DEF Good, Kept
<1>4. target - current \in Int /\ "adjustment" \in Kinds
  BY <1>3 DEF Kinds
<1> HIDE DEF current
<1>5. Booked(Post(s, account, target - current, "adjustment"), s)
  <2> DEFINE amount == target - current
  <2>1. amount \in Int
    BY <1>4
  <2> HIDE DEF amount
  <2>2. Booked(Post(s, account, amount, "adjustment"), s)
    BY <1>2, <1>4, <2>1, PostKept DEF Good
  <2> QED BY <2>2 DEF amount
<1> QED BY <1>1, <1>2, <1>5, BookedGood

\* What a card can be.
CardStatuses == {"active", "manual", "account_closed"}

\* An account, the cards and the status of its rules replaced.
LEMMA LifecycleChanged ==
  ASSUME NEW b, Good(b), today \in Nat \ {0}, NEW account \in Accounts, NEW acc \in AccountTypes,
         account = Savings => acc.anchor = today,
         NEW cards \in [Cards -> CardStatuses],
         NEW rules, rules \in [DOMAIN b.rules -> RuleTypes],
         \A i \in DOMAIN b.rules :
           /\ rules[i].account = b.rules[i].account
           /\ rules[i].status = "active" => IF b.rules[i].account = account THEN acc.status = "active"
                                            ELSE b.rules[i].status = "active"
  PROVE  Good([b EXCEPT !.accounts = [@ EXCEPT ![account] = acc], !.cards = cards,
                        !.rules = rules])
<1> DEFINE accounts == [b.accounts EXCEPT ![account] = acc]
           c == [b EXCEPT !.accounts = [@ EXCEPT ![account] = acc], !.cards = cards, !.rules = rules]
<1>1. /\ b \in BankStates /\ b.accounts \in [Accounts -> AccountTypes]
      /\ b.rows \in Seq(RowTypes) /\ b.rules \in Seq(RuleTypes)
  BY DEF Good, Kept, BankStates
<1>2. accounts \in [Accounts -> AccountTypes]
  BY <1>1
<1>3. \A a \in Accounts : accounts[a] = IF a = account THEN acc ELSE b.accounts[a]
  BY <1>1
<1>4. rules \in Seq(RuleTypes) /\ DOMAIN rules = DOMAIN b.rules
  <2>1. DOMAIN b.rules = 1..Len(b.rules) /\ Len(b.rules) \in Nat
    BY <1>1
  <2> QED BY <2>1
<1>5. c = [b EXCEPT !.accounts = accounts, !.cards = cards, !.rules = rules]
  OBVIOUS
<1> HIDE DEF c, accounts
<1>6. /\ c \in BankStates /\ c.accounts = accounts
      /\ c.rows = b.rows /\ c.rules = rules
  BY <1>1, <1>2, <1>4, <1>5 DEF BankStates, CardStatuses
<1>7. Savings \in Accounts
  BY DEF Accounts
<1>8. Kept(c)
  BY <1>3, <1>6, <1>7 DEF Good, Kept
<1>9. RulesFollow(c)
  <2> SUFFICES ASSUME NEW i \in DOMAIN b.rules, rules[i].status = "active"
               PROVE  accounts[rules[i].account].status = "active"
    BY <1>4, <1>6 DEF RulesFollow, IsActive
  <2>1. b.rules[i].account \in Accounts
    BY <1>1, RulesAre
  <2>2. b.rules[i].account # account => b.accounts[b.rules[i].account].status = "active"
    BY DEF Good, RulesFollow, IsActive
  <2> QED BY <1>3, <2>1, <2>2
<1> QED BY <1>8, <1>9 DEF Good, c

\* A lifecycle step sets the anchor of the savings account to today.
LEMMA AnchorTodayIs ==
  ASSUME NEW account, today \in Nat \ {0}
  PROVE  AnchorToday(account) \in Nat /\ (account = Savings => AnchorToday(account) = today)
BY DEF AnchorToday

\* CloseAccount.
LEMMA CloseGood ==
  ASSUME NEW b, Good(b), today \in Nat \ {0}, NEW account \in Accounts, CloseAccount(b, account)
  PROVE  Good(bank') /\ today' = today
<1> DEFINE s == SettleAccount(b, account)
           acc == [status |-> "closed", anchor |-> AnchorToday(account), closedAt |-> today]
           cards == [c \in Cards |-> IF account = Main /\ s.cards[c] = "active"
                                     THEN "account_closed" ELSE s.cards[c]]
           rules == [i \in DOMAIN s.rules |->
                       IF s.rules[i].account = account /\ s.rules[i].status = "active"
                       THEN [s.rules[i] EXCEPT !.status = "account_closed"] ELSE s.rules[i]]
<1>1. bank' = Closed(s, account) /\ today' = today
  BY DEF CloseAccount, Commit
<1>2. Good(s)
  BY SettledGood
<1> HIDE DEF s
<1>3. acc \in AccountTypes /\ (account = Savings => acc.anchor = today) /\ acc.status = "closed"
  BY AnchorTodayIs DEF AccountTypes
<1>4. s \in BankStates /\ s.cards \in [Cards -> CardStatuses]
  BY <1>2 DEF Good, Kept, BankStates, CardStatuses
<1>5. cards \in [Cards -> CardStatuses]
  BY <1>4 DEF CardStatuses
<1>6. ASSUME NEW i \in DOMAIN s.rules
      PROVE  /\ rules[i] \in RuleTypes /\ rules[i].account = s.rules[i].account
             /\ rules[i].status = "active" =>
                  s.rules[i].account # account /\ s.rules[i].status = "active"
  <2> DEFINE rule == s.rules[i]
             r == [rule EXCEPT !.status = "account_closed"]
  <2>1. rule \in RuleTypes
    BY <1>4, RulesAre
  <2>2. rules[i] = IF rule.account = account /\ rule.status = "active" THEN r ELSE rule
    OBVIOUS
  <2> HIDE DEF rule, rules
  <2>3. r \in RuleTypes /\ r.account = rule.account /\ r.status = "account_closed"
    BY <2>1, StatusReplaced
  <2> HIDE DEF r
  <2> QED BY <2>1, <2>2, <2>3 DEF rule
<1>7. rules \in [DOMAIN s.rules -> RuleTypes]
  BY <1>6
<1>8. Closed(s, account) =
        [s EXCEPT !.accounts = [@ EXCEPT ![account] = acc], !.cards = cards, !.rules = rules]
  BY <1>4 DEF Closed, BankStates
<1> HIDE DEF acc, cards, rules
<1>9. Good([s EXCEPT !.accounts = [@ EXCEPT ![account] = acc], !.cards = cards, !.rules = rules])
  BY <1>2, <1>3, <1>5, <1>6, <1>7, LifecycleChanged
<1> QED BY <1>1, <1>8, <1>9

\* RestoreAccount.
LEMMA RestoreGood ==
  ASSUME NEW b, Good(b), today \in Nat \ {0}, NEW account \in Accounts, RestoreAccount(b, account)
  PROVE  Good(bank') /\ today' = today
<1> DEFINE back(status) == IF status = "account_closed" THEN "active" ELSE status
           acc == [status |-> "active", anchor |-> AnchorToday(account), closedAt |-> 0]
           cards == [c \in Cards |-> IF account = Main THEN back(b.cards[c]) ELSE b.cards[c]]
           rules == [i \in DOMAIN b.rules |->
                       IF b.rules[i].account = account
                       THEN [b.rules[i] EXCEPT !.status = back(@)] ELSE b.rules[i]]
           c == [b EXCEPT !.accounts = [@ EXCEPT ![account] = acc], !.cards = cards, !.rules = rules]
<1>1. b \in BankStates /\ b.cards \in [Cards -> CardStatuses]
  BY DEF Good, Kept, BankStates, CardStatuses
<1>2. bank' = c /\ today' = today
  <2>1. bank' = Restored(b, account) /\ today' = today
    BY DEF RestoreAccount, Commit
  <2>2. Restored(b, account) = c
    BY <1>1 DEF Restored, BankStates
  <2> QED BY <2>1, <2>2
<1>3. acc \in AccountTypes /\ (account = Savings => acc.anchor = today) /\ acc.status = "active"
  BY AnchorTodayIs DEF AccountTypes
<1>4. cards \in [Cards -> CardStatuses]
  BY <1>1 DEF CardStatuses
<1>5. ASSUME NEW i \in DOMAIN b.rules
      PROVE  /\ rules[i] \in RuleTypes /\ rules[i].account = b.rules[i].account
             /\ b.rules[i].account # account => rules[i].status = b.rules[i].status
  <2> DEFINE rule == b.rules[i]
             status == back(rule.status)
             r == [rule EXCEPT !.status = status]
  <2>1. rule \in RuleTypes
    BY <1>1, RulesAre
  <2>2. rules[i] = IF rule.account = account THEN r ELSE rule
    OBVIOUS
  <2>3. status \in {"active", "manual", "account_closed", "capacity", "insufficient_funds"}
    <3> HIDE DEF rule
    <3> QED BY <2>1 DEF RuleTypes
  <2> HIDE DEF rule, rules, status
  <2>4. r \in RuleTypes /\ r.account = rule.account
    BY <2>1, <2>3, StatusReplaced
  <2> HIDE DEF r
  <2> QED BY <2>1, <2>2, <2>4 DEF rule
<1>6. rules \in [DOMAIN b.rules -> RuleTypes]
  BY <1>5
<1> HIDE DEF acc, cards, rules
<1>7. Good(c)
  BY <1>3, <1>4, <1>5, <1>6, LifecycleChanged
<1> QED BY <1>2, <1>7

\* SetCardFrozen.
LEMMA CardGood ==
  ASSUME NEW b, Good(b), NEW card \in Cards, NEW frozen, SetCardFrozen(b, card, frozen)
  PROVE  Good(bank') /\ today' = today
<1> DEFINE c == [b EXCEPT !.cards[card] = IF frozen THEN "manual" ELSE "active"]
<1>1. bank' = c /\ today' = today
  BY DEF SetCardFrozen, Commit
<1>2. b \in BankStates
  BY DEF Good, Kept
<1>3. /\ c \in BankStates /\ c.accounts = b.accounts /\ c.rows = b.rows /\ c.rules = b.rules
  BY <1>2 DEF BankStates
<1> HIDE DEF c
<1>4. Good(c)
  BY <1>3 DEF Good, Kept, RulesFollow, IsActive
<1> QED BY <1>1, <1>4

\* Remembering a transfer touches no money.
LEMMA RememberGood ==
  ASSUME NEW b, Good(b), NEW id \in TransferIds
  PROVE  Good(Remember(b, id))
<1> DEFINE ids == Append(b.recent, id)
           recent == IF Len(ids) > RecentCap THEN Tail(ids) ELSE ids
<1>1. b \in BankStates /\ b.recent \in Seq(TransferIds)
  BY DEF Good, Kept, BankStates
<1>2. ids \in Seq(TransferIds) /\ ids # <<>>
  BY <1>1
<1> HIDE DEF ids
<1>3. recent \in Seq(TransferIds)
  BY <1>2
<1>4. Remember(b, id) = [b EXCEPT !.recent = recent]
  BY DEF Remember, ids
<1> HIDE DEF recent
<1> DEFINE c == [b EXCEPT !.recent = recent]
<1>5. c \in BankStates /\ c.accounts = b.accounts /\ c.rows = b.rows /\ c.rules = b.rules
  BY <1>1, <1>3 DEF BankStates
<1> HIDE DEF c
<1>6. Good(c)
  BY <1>5 DEF Good, Kept, RulesFollow, IsActive
<1> QED BY <1>4, <1>6 DEF c

\* Conversion yields minor units.
LEMMA ConvertType ==
  ASSUME NEW amount \in Int, NEW from, NEW to
  PROVE  Convert(amount, from, to) \in Int
<1>1. Rate \in Nat \ {0}
  BY LedgerAssumption
<1>2. 2 * amount + Rate \in Int /\ 2 * Rate \in Nat \ {0} /\ amount * Rate \in Int
  BY <1>1
<1>3. (2 * amount + Rate) \div (2 * Rate) \in Int
  BY <1>2
<1> QED BY <1>2, <1>3 DEF Convert

\* The two legs of a transfer, after the interest of both accounts.
LEMMA LegsGood ==
  ASSUME NEW b, Good(b), today \in Nat \ {0}, NEW from \in Accounts, NEW to \in Accounts,
         IsActive(b, from), IsActive(b, to), NEW amount \in Int
  PROVE  Good(Legs(b, from, to, amount))
<1> DEFINE first == SettleAccount(b, from)
           settled == SettleAccount(first, to)
           paid == Post(settled, from, -amount, "out")
           income == Convert(amount, from, to)
<1>1. Good(first) /\ SettledUpTo(first, from) /\ IsActive(first, to)
  BY SettledGood
<1>2. Legs(b, from, to, amount) = Post(paid, to, income, "in")
  BY DEF Legs
<1> HIDE DEF first
<1>3. Good(settled) /\ SettledUpTo(settled, from) /\ SettledUpTo(settled, to)
  BY <1>1, SettledGood
<1> HIDE DEF settled
<1>4. -amount \in Int /\ income \in Int /\ {"out", "in"} \subseteq Kinds
  BY ConvertType DEF Kinds
<1>5. Booked(paid, settled)
  <2> DEFINE out == -amount
  <2>1. out \in Int /\ "out" \in Kinds
    BY <1>4
  <2> HIDE DEF out
  <2>2. Booked(Post(settled, from, out, "out"), settled)
    BY <1>3, <2>1, PostKept DEF Good
  <2> QED BY <2>2 DEF out
<1> HIDE DEF paid, income
<1>6. Good(paid) /\ SettledUpTo(paid, to)
  BY <1>3, <1>5, BookedGood DEF SettledUpTo
<1>7. Booked(Post(paid, to, income, "in"), paid)
  BY <1>4, <1>6, PostKept DEF Good
<1> QED BY <1>2, <1>6, <1>7, BookedGood

\* Transfer, of either kind or a repeated one.
LEMMA TransferGood ==
  ASSUME NEW b, Good(b), today \in Nat \ {0}, NEW c, c.from \in Accounts, c.amount \in Amounts,
         c.id \in TransferIds, Transfer(b, c)
  PROVE  Good(bank') /\ today' = today
<1>1. c.amount \in Int
  <2>1. Amounts \subseteq Nat
    BY LedgerAssumption
  <2>2. c.amount \in Nat
    BY <2>1
  <2> QED BY <2>2
<1>2. CASE c.id \in Range(b.recent)
  BY <1>2 DEF Transfer, Commit
<1>3. CASE c.id \notin Range(b.recent) /\ c.to \in Accounts
  <2> DEFINE paid == Legs(b, c.from, c.to, c.amount)
  <2>1. /\ IsActive(b, c.from) /\ IsActive(b, c.to)
        /\ bank' = Remember(paid, c.id) /\ today' = today
    BY <1>3 DEF Transfer, TransferOwn, Pays, Commit
  <2>2. Good(paid)
    BY <1>1, <1>3, <2>1, LegsGood
  <2> HIDE DEF paid
  <2> QED BY <2>1, <2>2, RememberGood
<1>4. CASE c.id \notin Range(b.recent) /\ c.to \notin Accounts
  <2> DEFINE settled == SettleAccount(b, c.from)
             amount == -c.amount
             paid == Post(settled, c.from, amount, "contact")
  <2>1. /\ IsActive(b, c.from)
        /\ bank' = Remember(paid, c.id) /\ today' = today
    BY <1>4 DEF Transfer, TransferContact, Pays, Commit
  <2>2. Good(settled) /\ SettledUpTo(settled, c.from)
    BY <2>1, SettledGood
  <2>3. amount \in Int /\ "contact" \in Kinds
    BY <1>1 DEF Kinds
  <2> HIDE DEF settled, amount
  <2>4. Booked(paid, settled)
    BY <2>2, <2>3, PostKept DEF Good
  <2> HIDE DEF paid
  <2>5. Good(paid)
    BY <2>2, <2>4, BookedGood
  <2> QED BY <2>1, <2>5, RememberGood
<1> QED BY <1>2, <1>3, <1>4

\* The accounts that the fixture opens, each once.
LEMMA OpenedFacts ==
  LET n == Cardinality(Accounts \ Custom) IN
  /\ n \in Nat /\ Opened \in [1..n -> Accounts \ Custom]
  /\ \A i, j \in 1..n : Opened[i] = Opened[j] => i = j
  /\ \A a \in Accounts \ Custom : \E i \in 1..n : Opened[i] = a
<1> DEFINE S == Accounts \ Custom
           n == Cardinality(S)
<1>1. IsFiniteSet(S)
  <2>1. IsFiniteSet(Checking)
    BY LedgerAssumption
  <2>2. IsFiniteSet(Accounts)
    BY <2>1, FS_AddElement DEF Accounts
  <2>3. S \subseteq Accounts
    OBVIOUS
  <2> HIDE DEF S
  <2> QED BY <2>2, <2>3, FS_Subset
<1> HIDE DEF S
<1>2. n \in Nat /\ ExistsBijection(1..n, S)
  BY <1>1, FS_CardinalityType
<1>3. PICK f : f \in Bijection(1..n, S)
  BY <1>2 DEF ExistsBijection
<1>4. f \in [1..n -> S] /\ IsInjective(f)
  <2>1. f \in Injection(1..n, S)
    BY <1>3 DEF Bijection
  <2> QED BY <2>1 DEF Injection
<1>5. Opened = CHOOSE g \in [1..n -> S] : IsInjective(g)
  BY DEF Opened, SetToSeq, S
<1> HIDE DEF n
<1>6. Opened \in [1..n -> S] /\ IsInjective(Opened)
  BY <1>4, <1>5
<1>7. Opened \in Injection(1..n, S)
  BY <1>6 DEF Injection
<1>8. Opened \in Surjection(1..n, S)
  <2>1. Cardinality(1..n) = n
    <3>1. Cardinality(1..n) = IF 1 > n THEN 0 ELSE n - 1 + 1
      BY <1>2, FS_Interval
    <3> QED BY <1>2, <3>1
  <2> QED BY <1>1, <1>7, <2>1, FS_Injection DEF n
<1>9. \A a \in S : \E i \in 1..n : Opened[i] = a
  BY <1>8 DEF Surjection
<1> QED BY <1>2, <1>6, <1>9 DEF IsInjective, S, n

\* The fixture of the demo is a good state on any day.
LEMMA SeedGood ==
  ASSUME today \in Nat \ {0}
  PROVE  Good(Seed)
<1> DEFINE n == Cardinality(Accounts \ Custom)
<1>1. Savings \in Accounts /\ Opening \in Int /\ Savings \notin Custom
  BY LedgerAssumption DEF Accounts
<1>2. \A a \in Accounts : SeedRow(a) \in RowTypes /\ SeedRow(a).day = 1
  BY <1>1 DEF SeedRow, RowTypes, Kinds
<1>3. /\ Seed.rows = [i \in DOMAIN Opened |-> SeedRow(Opened[i])] /\ Seed.rules = <<>>
      /\ Seed.accounts[Savings].anchor = 1
  BY <1>1 DEF Seed
<1>4. Seed.rows \in Seq(RowTypes) /\ \A i \in DOMAIN Seed.rows : Seed.rows[i].day = 1
  <2>1. n \in Nat /\ DOMAIN Opened = 1..n /\ \A i \in 1..n : Opened[i] \in Accounts
    BY OpenedFacts
  <2> HIDE DEF n
  <2>2. Seed.rows \in [1..n -> RowTypes]
    BY <1>2, <1>3, <2>1
  <2>3. Seed.rows \in Seq(RowTypes)
    BY <2>1, <2>2
  <2> QED BY <1>2, <1>3, <2>1, <2>3
<1>5. Seed.accounts \in [Accounts -> AccountTypes]
  BY DEF Seed, AccountTypes
<1>6. Seed.cards \in [Cards -> {"active", "manual", "account_closed"}] /\ Seed.recent = <<>>
  BY DEF Seed
<1>7. Seed = [accounts |-> Seed.accounts, rows |-> Seed.rows, rules |-> Seed.rules,
              cards |-> Seed.cards, recent |-> Seed.recent]
  BY DEF Seed
<1>8. Seed \in BankStates
  <2>1. Seed.rules \in Seq(RuleTypes) /\ Seed.recent \in Seq(TransferIds)
    BY <1>3, <1>6
  <2> QED BY <1>4, <1>5, <1>6, <1>7, <2>1 DEF BankStates
<1>9. Kept(Seed)
  BY <1>3, <1>4, <1>8 DEF Kept
<1>10. RulesFollow(Seed)
  BY <1>3 DEF RulesFollow
<1> QED BY <1>9, <1>10 DEF Good

-----------------------------------------------------------------------------
(* Every step.                                                             *)

\* What commands name.
LEMMA CommandTypes ==
  ASSUME NEW c \in BankCommands
  PROVE  /\ c.kind \in {"record_transaction", "create_recurring"} =>
              c.account \in Checking /\ c.direction \in Directions /\ c.amount \in Amounts
         /\ c.kind = "create_recurring" =>
              c.rule \in RuleIds /\ c.month \in 1..MonthOf(MaxDays) /\ c.anchorDay \in AnchorDays
         /\ c.kind = "add_account" => c.account \in Custom
         /\ c.kind = "adjust_balance" => c.account \in Accounts /\ c.target \in Amounts \cup {0}
         /\ c.kind \in {"close_account", "restore_account"} => c.account \in Accounts
         /\ c.kind = "transfer" =>
              c.from \in Accounts /\ c.amount \in Amounts /\ c.id \in TransferIds
         /\ c.kind = "set_card_frozen" => c.card \in Cards
BY DEF BankCommands, TransferCommands

\* Whatever command is applied to a good state leaves a good state.
LEMMA CommandGood ==
  ASSUME NEW b, Good(b), today \in Nat \ {0}, NEW c \in BankCommands, ApplyBankCommand(b, c)
  PROVE  Good(bank') /\ today' = today
<1>1. Amounts \subseteq Nat
  BY LedgerAssumption
<1>2. CASE c.kind = "record_transaction" /\ RecordTransaction(b, c.account, Signed(c))
  <2>1. c.account \in Checking /\ c.amount \in Nat
    BY <1>1, <1>2, CommandTypes
  <2>2. c.amount \in Int /\ -c.amount \in Int
    BY <2>1
  <2>3. Signed(c) \in Int
    BY <2>2 DEF Signed
  <2> QED BY <1>2, <2>1, <2>3, RecordGood
<1>3. CASE c.kind = "create_recurring" /\ CreateRecurring(b, c)
  <2>1. /\ c.rule \in RuleIds /\ c.account \in Checking /\ c.direction \in Directions
        /\ c.amount \in Amounts /\ c.month \in 1..MonthOf(MaxDays) /\ c.anchorDay \in AnchorDays
    BY <1>3, CommandTypes
  <2>2. c.month \in Nat \ {0}
    <3>1. MonthOf(MaxDays) \in Nat
      BY MonthOfFacts, LedgerAssumption
    <3> QED BY <2>1, <3>1
  <2> QED BY <1>3, <2>1, <2>2, CreateGood
<1>4. CASE c.kind = "pause_recurring" /\ PauseRecurring(b, c.rule)
  BY <1>4, PauseGood
<1>5. CASE c.kind = "resume_recurring" /\ ResumeRecurring(b, c.rule)
  BY <1>5, ResumeGood
<1>6. CASE c.kind = "add_account" /\ AddAccount(b, c.account)
  BY <1>6, CommandTypes, AddGood
<1>7. CASE c.kind = "adjust_balance" /\ AdjustBalance(b, c.account, c.target)
  <2>1. c.account \in Accounts /\ c.target \in Amounts \cup {0}
    BY <1>7, CommandTypes
  <2>2. Amounts \cup {0} \subseteq Int
    BY <1>1
  <2>3. c.target \in Int
    BY <2>1, <2>2
  <2> QED BY <1>7, <2>1, <2>3, AdjustGood
<1>8. CASE c.kind = "close_account" /\ CloseAccount(b, c.account)
  <2>1. c.account \in Accounts
    BY <1>8, CommandTypes
  <2> QED BY <1>8, <2>1, CloseGood
<1>9. CASE c.kind = "restore_account" /\ RestoreAccount(b, c.account)
  <2>1. c.account \in Accounts
    BY <1>9, CommandTypes
  <2> QED BY <1>9, <2>1, RestoreGood
<1>10. CASE c.kind = "transfer" /\ Transfer(b, c)
  <2>1. c.from \in Accounts /\ c.amount \in Amounts /\ c.id \in TransferIds
    BY <1>10, CommandTypes
  <2> QED BY <1>10, <2>1, TransferGood
<1>11. CASE c.kind = "set_card_frozen" /\ SetCardFrozen(b, c.card, c.frozen)
  <2>1. c.card \in Cards
    BY <1>11, CommandTypes
  <2> QED BY <1>11, <2>1, CardGood
<1>12. CASE c.kind = "settle" /\ Settle(b)
  <2>1. bank' = SettleAllWithinLimit(b).state /\ today' = today
    BY <1>12 DEF Settle, Commit
  <2> QED BY <2>1, SettledAllGood
<1>13. CASE c.kind = "reset_demo" /\ ResetDemo
  <2>1. bank' = SettleAccount(Seed, Savings) /\ today' = today
    BY <1>13 DEF ResetDemo, Rebuilt, Commit
  <2>2. Savings \in Accounts
    BY DEF Accounts
  <2> QED BY <2>1, <2>2, SeedGood, SettledGood
<1> QED BY <1>2, <1>3, <1>4, <1>5, <1>6, <1>7, <1>8, <1>9, <1>10, <1>11, <1>12, <1>13
        DEF ApplyBankCommand

\* The inductive invariant.
LedgerInv == today \in 1..MaxDays /\ Good(bank)

\* Every step keeps the invariant.
LEMMA LedgerInvStep ==
  ASSUME LedgerInv, [Next]_vars
  PROVE  LedgerInv'
<1>1. today \in Nat \ {0} /\ MaxDays \in Nat /\ Good(bank)
  BY LedgerAssumption DEF LedgerInv
<1>2. ASSUME Good(bank'), today' = today PROVE LedgerInv'
  BY <1>2 DEF LedgerInv, Good, Kept, RulesFollow, IsActive
<1>3. CASE ExecuteCommand
  <2>1. PICK c \in BankCommands : ApplyBankCommand(Materialized(bank), c)
    BY <1>3 DEF ExecuteCommand
  <2> QED BY <1>1, <1>2, <2>1, MaterializedGood, CommandGood
<1>4. CASE Bootstrap
  BY <1>1, <1>2, <1>4, MaterializedGood DEF Bootstrap, Commit
<1>5. CASE TransferLocally
  <2>1. TransferCommands \subseteq BankCommands
    BY DEF BankCommands
  <2>2. PICK c \in BankCommands : ApplyBankCommand(bank, c)
    BY <1>5, <2>1 DEF TransferLocally
  <2> QED BY <1>1, <1>2, <2>2, CommandGood
<1>6. CASE SettleNow
  BY <1>1, <1>2, <1>6, SettledAllGood DEF SettleNow, Commit
<1>7. CASE ToggleCardFreeze
  BY <1>1, <1>2, <1>7, CardGood DEF ToggleCardFreeze
<1>8. CASE NextDay
  <2>1. bank' = bank /\ today' = today + 1 /\ today' \in 1..MaxDays
    BY <1>1, <1>8 DEF NextDay
  <2>2. bank \in BankStates
    BY <1>1 DEF Good, Kept
  <2>3. \A i \in DOMAIN bank.rows : bank.rows[i].day <= today + 1
    <3> SUFFICES ASSUME NEW i \in DOMAIN bank.rows PROVE bank.rows[i].day <= today + 1
      OBVIOUS
    <3>1. bank.rows \in Seq(RowTypes)
      BY <2>2 DEF BankStates
    <3>2. bank.rows[i].day \in Nat
      <4>1. bank.rows[i] \in RowTypes
        BY <3>1
      <4> QED BY <4>1 DEF RowTypes
    <3>3. bank.rows[i].day <= today
      BY <1>1 DEF Good, Kept
    <3> QED BY <1>1, <3>2, <3>3
  <2> QED BY <1>1, <2>1, <2>3 DEF LedgerInv, Good, Kept, RulesFollow, IsActive
<1>9. CASE UNCHANGED vars
  BY <1>1, <1>2, <1>9 DEF vars
<1> QED BY <1>3, <1>4, <1>5, <1>6, <1>7, <1>8, <1>9 DEF Next

\* The invariant of the proofs: the state has its type, no row is ahead of the clock, the
\* rows of the savings account are settled, and rules run only on active accounts.
THEOREM LedgerInvariant == Spec => []LedgerInv
<1>1. Init => LedgerInv
  <2> SUFFICES ASSUME Init PROVE LedgerInv
    OBVIOUS
  <2>1. today = 1 /\ bank = Seed /\ MaxDays \in Nat \ {0}
    BY LedgerAssumption DEF Init
  <2> QED BY <2>1, SeedGood DEF LedgerInv
<1>2. LedgerInv /\ [Next]_vars => LedgerInv'
  BY LedgerInvStep
<1> QED BY <1>1, <1>2, PTL DEF Spec

\* LedgerTypeOK: every state any sequence of commands and catch-ups makes has its type,
\* balances included.
THEOREM LedgerTypes == Spec => []LedgerTypeOK
<1>1. LedgerInv => LedgerTypeOK
  BY DEF LedgerInv, Good, Kept, LedgerTypeOK
<1> QED BY <1>1, LedgerInvariant, PTL

\* InterestSettledFirst: whatever moves money on the savings account settles its interest
\* before (domain/transfer.ts:156).
THEOREM InterestIsSettledFirst == Spec => []InterestSettledFirst
<1>1. LedgerInv => InterestSettledFirst
  BY DEF LedgerInv, Good, Kept, InterestSettledFirst
<1> QED BY <1>1, LedgerInvariant, PTL

-----------------------------------------------------------------------------
(* Materialising once is enough.                                           *)

\* What is settled needs no settling, and settling that changes anything moves the anchor.
LEMMA SettledIsSettled ==
  ASSUME NEW b, Kept(b), today \in Nat \ {0},
         NEW c, c.accounts = SettleAccount(b, Savings).accounts
  PROVE  /\ SettleAccount(c, Savings) = c
         /\ SettleAccount(b, Savings).accounts = b.accounts => SettleAccount(b, Savings) = b
<1> DEFINE acc == b.accounts[Savings]
           s == SettleAccount(b, Savings)
           amount == AccruedInterest(BalanceOf(b, Savings), today - acc.anchor)
           settled == IF amount > 0 THEN Post(b, Savings, amount, "interest") ELSE b
           result == [settled EXCEPT !.accounts[Savings].anchor = today]
<1>1. b \in BankStates /\ b.accounts \in [Accounts -> AccountTypes] /\ Savings \in Accounts
  BY DEF Kept, BankStates, Accounts
<1>2. acc.anchor \in Nat /\ acc \in AccountTypes
  BY <1>1 DEF AccountTypes
<1>3. s = IF acc.status # "active" \/ acc.anchor >= today THEN b ELSE result
  BY DEF SettleAccount
<1>4. SettleAccount(c, Savings) = c
        \/ (c.accounts[Savings].status = "active" /\ ~(c.accounts[Savings].anchor >= today))
  BY DEF SettleAccount
<1>5. CASE acc.status # "active" \/ acc.anchor >= today
  BY <1>3, <1>4, <1>5
<1>6. CASE ~(acc.status # "active" \/ acc.anchor >= today)
  <2>1. settled.accounts = b.accounts /\ DOMAIN settled = DOMAIN b
    BY <1>1 DEF Post, AppendRow, BankStates
  <2>2. s = result
    BY <1>3, <1>6
  <2> HIDE DEF settled
  <2>3. result.accounts = [b.accounts EXCEPT ![Savings].anchor = today]
    BY <1>1, <2>1 DEF BankStates
  <2> HIDE DEF result
  <2>4. s.accounts[Savings].anchor = today
    BY <1>1, <1>2, <2>2, <2>3 DEF AccountTypes
  <2> HIDE DEF s
  <2>5. s.accounts # b.accounts
    BY <1>2, <1>6, <2>4
  <2>6. c.accounts[Savings].anchor >= today
    BY <2>4 DEF s
  <2> QED BY <1>4, <2>5, <2>6 DEF s
<1> QED BY <1>5, <1>6

\* The rows that settling leaves depend on the rows and the accounts alone.
LEMMA SettledRows ==
  ASSUME NEW b \in BankStates, NEW c \in BankStates, c.rows = b.rows, c.accounts = b.accounts
  PROVE  Fits(SettleAccount(c, Savings)) <=> Fits(SettleAccount(b, Savings))
<1> DEFINE rows(d) == SettleAccount(d, Savings).rows
           acc(d) == d.accounts[Savings]
           amount(d) == AccruedInterest(BalanceOf(d, Savings), today - acc(d).anchor)
           row(d) == [account |-> Savings, amount |-> amount(d),
                      balance |-> BalanceOf(d, Savings) + amount(d),
                      kind |-> "interest", rule |-> NoRule, date |-> today, day |-> today]
           idle(d) == acc(d).status # "active" \/ acc(d).anchor >= today
<1>1. ASSUME NEW d \in BankStates
      PROVE  rows(d) = IF idle(d) \/ ~(amount(d) > 0) THEN d.rows ELSE Append(d.rows, row(d))
  <2> DEFINE posted == Post(d, Savings, amount(d), "interest")
             settled == IF amount(d) > 0 THEN posted ELSE d
             result == [settled EXCEPT !.accounts[Savings].anchor = today]
  <2>1. SettleAccount(d, Savings) = IF idle(d) THEN d ELSE result
    BY DEF SettleAccount
  <2>2. posted = [d EXCEPT !.rows = Append(@, row(d))]
    BY DEF Post, AppendRow
  <2> HIDE DEF row, idle, amount
  <2>3. posted.rows = Append(d.rows, row(d)) /\ DOMAIN posted = DOMAIN d
    BY <2>2 DEF BankStates
  <2>4. settled.rows = IF amount(d) > 0 THEN Append(d.rows, row(d)) ELSE d.rows
    BY <2>3
  <2>5. "rows" \in DOMAIN d /\ "accounts" \in DOMAIN d
    BY DEF BankStates
  <2>6. result.rows = settled.rows
    <3>1. "rows" \in DOMAIN settled
      BY <2>3, <2>5
    <3> HIDE DEF settled
    <3> QED BY <3>1
  <2> HIDE DEF result, settled
  <2> QED BY <2>1, <2>4, <2>6
<1>2. BalanceOf(c, Savings) = BalanceOf(b, Savings)
  BY DEF BalanceOf, LastBalance
<1>3. acc(c) = acc(b)
  OBVIOUS
<1>4. amount(c) = amount(b) /\ idle(c) = idle(b)
  BY <1>2, <1>3
<1>5. row(c) = row(b)
  BY <1>2, <1>4
<1> HIDE DEF row, amount, idle
<1>6. rows(c) = rows(b)
  BY <1>1, <1>4, <1>5
<1> QED BY <1>6 DEF Fits

\* What one pass leaves: nothing due, and interest that is either settled or still does
\* not fit.
OnePass(b, once) ==
  /\ Good(once)
  /\ \A i \in DOMAIN once.rules : ~Due(once, i)
  /\ Fits(SettleAccount(b, Savings)) =>
       /\ Fits(once) /\ SettleAccount(once, Savings) = once
       /\ once \in Onward(SettleAccount(b, Savings), MaxTransactions)
  /\ ~Fits(SettleAccount(b, Savings)) => ~Fits(SettleAccount(once, Savings))

\* A materialisation leaves what OnePass says.
LEMMA MaterializedOnce ==
  ASSUME NEW b, Good(b), today \in Nat \ {0}
  PROVE  OnePass(b, Materialized(b))
<1> DEFINE once == Materialized(b)
           s == SettleAccount(b, Savings)
           start == SettleAllWithinLimit(b).state
           limit == IF SettleAllWithinLimit(b).capacityReached THEN Len(b.rows) ELSE MaxTransactions
<1>1. Savings \in Accounts /\ MaxTransactions \in Nat
  BY LedgerAssumption DEF Accounts
<1>2. b.rows \in Seq(RowTypes) /\ b \in BankStates /\ Len(b.rows) \in Nat
  BY DEF Good, Kept, BankStates
<1>3. Good(start) /\ Good(once) /\ Good(s)
  BY <1>1, SettledAllGood, MaterializedGood, SettledGood
<1>4. /\ start = IF Fits(s) THEN s ELSE b
      /\ limit = IF Fits(s) THEN MaxTransactions ELSE Len(b.rows)
  BY DEF SettleAllWithinLimit
<1>5. once = MaterializeRules(start, limit)
  BY DEF Materialized
<1>6. limit \in Nat
  BY <1>1, <1>2, <1>4
<1> HIDE DEF once, start, limit, s
<1>7. /\ once \in Onward(start, limit)
      /\ \A i \in DOMAIN start.rules : IsActive(start, start.rules[i].account) => ~Due(once, i)
  BY <1>3, <1>5, <1>6, MaterializeRulesFacts DEF Good
<1>8. \A i \in DOMAIN once.rules : ~Due(once, i)
  <2>1. start.rules \in Seq(RuleTypes) /\ once.rules \in Seq(RuleTypes)
    BY <1>3 DEF Good, Kept, BankStates
  <2>2. Len(once.rules) = Len(start.rules)
    BY <1>7 DEF Onward
  <2>3. DOMAIN once.rules = DOMAIN start.rules
    BY <2>1, <2>2
  <2> SUFFICES ASSUME NEW i \in DOMAIN start.rules, Due(once, i) PROVE FALSE
    BY <2>3
  <2>4. start.rules[i].status = "active"
    BY <1>7 DEF Onward, Due
  <2>5. IsActive(start, start.rules[i].account)
    BY <1>3, <2>4 DEF Good, RulesFollow
  <2> QED BY <1>7, <2>5
<1>9. Fits(s) => /\ Fits(once) /\ SettleAccount(once, Savings) = once
                 /\ once \in Onward(s, MaxTransactions)
  <2> SUFFICES ASSUME Fits(s)
               PROVE  /\ Fits(once) /\ SettleAccount(once, Savings) = once
                      /\ once \in Onward(s, MaxTransactions)
    OBVIOUS
  <2>1. once \in Onward(s, MaxTransactions)
    BY <1>4, <1>7
  <2>2. Fits(once) /\ once.accounts = s.accounts
    BY <2>1 DEF Onward, Fits
  <2>3. SettleAccount(once, Savings) = once
    BY <2>2, SettledIsSettled DEF Good, s
  <2> QED BY <2>1, <2>2, <2>3
<1>10. ~Fits(s) => ~Fits(SettleAccount(once, Savings))
  <2> SUFFICES ASSUME ~Fits(s) PROVE ~Fits(SettleAccount(once, Savings))
    OBVIOUS
  <2>1. once \in Onward(b, Len(b.rows))
    BY <1>4, <1>7
  <2>2. once.rows = b.rows /\ once.accounts = b.accounts /\ once \in BankStates
    BY <2>1 DEF Onward
  <2> QED BY <1>2, <2>2, SettledRows DEF s
<1> QED BY <1>3, <1>8, <1>9, <1>10 DEF OnePass, once, s

\* A second pass on the same day finds nothing to do.
LEMMA MaterializedAgain ==
  ASSUME NEW b, Good(b), today \in Nat \ {0}
  PROVE  Materialized(Materialized(b)) = Materialized(b)
<1> DEFINE once == Materialized(b)
           start == SettleAllWithinLimit(once).state
           limit == IF SettleAllWithinLimit(once).capacityReached THEN Len(once.rows)
                    ELSE MaxTransactions
<1>1. OnePass(b, once)
  BY MaterializedOnce
<1>2. Materialized(once) = MaterializeRules(start, limit)
  BY DEF Materialized
<1>3. start = IF Fits(SettleAccount(once, Savings)) THEN SettleAccount(once, Savings) ELSE once
  BY DEF SettleAllWithinLimit
<1> HIDE DEF once
<1>4. start = once
  BY <1>1, <1>3 DEF OnePass
<1>5. limit \in Nat
  <2>1. once.rows \in Seq(RowTypes)
    BY <1>1 DEF OnePass, Good, Kept, BankStates
  <2>2. Len(once.rows) \in Nat /\ MaxTransactions \in Nat
    BY <2>1, LedgerAssumption
  <2> QED BY <2>2
<1> HIDE DEF start, limit
<1>6. Materialized(once) \in Onward(once, limit)
  BY <1>1, <1>2, <1>4, <1>5, MaterializeRulesFacts DEF OnePass, Good
<1>7. Materialized(once) = once
  BY <1>1, <1>6 DEF OnePass, Onward
<1> QED BY <1>7 DEF once

\* MaterializationSettles: one pass leaves no active rule due and no interest that still
\* fits, and a second pass is a no-op (bot/bank-domain.ts:102-106).
THEOREM MaterializingSettles == Spec => []MaterializationSettles
<1>1. LedgerInv => MaterializationSettles
  <2> SUFFICES ASSUME LedgerInv PROVE MaterializationSettles
    OBVIOUS
  <2> DEFINE once == Materialized(bank)
  <2>1. Good(bank) /\ today \in Nat \ {0}
    BY LedgerAssumption DEF LedgerInv
  <2>2. Materialized(once) = once /\ OnePass(bank, once)
    BY <2>1, MaterializedAgain, MaterializedOnce
  <2> HIDE DEF once
  <2>3. ASSUME NEW i \in DOMAIN once.rules, once.rules[i].status = "active"
        PROVE  once.rules[i].next > today
    <3>1. once \in BankStates /\ ~Due(once, i)
      BY <2>2 DEF OnePass, Good, Kept
    <3>2. once.rules[i] \in RuleTypes
      BY <3>1, RulesAre
    <3>3. once.rules[i].next \in Nat
      BY <3>2 DEF RuleTypes
    <3> QED BY <2>1, <2>3, <3>1, <3>3 DEF Due
  <2>4. /\ Materialized(once) = once
        /\ \A i \in DOMAIN once.rules : once.rules[i].status = "active" => once.rules[i].next > today
    BY <2>2, <2>3
  <2> QED BY <2>4 DEF MaterializationSettles, once
<1> QED BY <1>1, LedgerInvariant, PTL

\* What the Mini App reads off a state, said with the words of the proofs.
LEMMA MirrorIs ==
  ASSUME NEW b, Good(b)
  PROVE  NeedsServerMaterialization(b) <=>
           /\ Fits(SettleAccount(b, Savings))
           /\ SettleAccount(b, Savings) # b \/ \E i \in DOMAIN b.rules : Due(b, i)
<1> DEFINE s == SettleAccount(b, Savings)
<1>1. /\ SettleAllWithinLimit(b).capacityReached = ~Fits(s)
      /\ SettleAllWithinLimit(b).state = IF Fits(s) THEN s ELSE b
  BY DEF SettleAllWithinLimit
<1>2. (\E i \in DOMAIN b.rules : Due(b, i)) <=>
        \E i \in DOMAIN b.rules :
          b.rules[i].status = "active" /\ IsActive(b, b.rules[i].account) /\ b.rules[i].next <= today
  BY DEF Good, RulesFollow, Due
<1> HIDE DEF s
<1>3. CASE Fits(s)
  BY <1>1, <1>2, <1>3 DEF NeedsServerMaterialization, s
<1>4. CASE ~Fits(s)
  BY <1>1, <1>4 DEF NeedsServerMaterialization, s
<1> QED BY <1>3, <1>4

\* A settle command leaves what one pass makes, unless interest does not fit.
LEMMA SettledIs ==
  ASSUME NEW b, Good(b), today \in Nat \ {0}
  PROVE  Settled(b) = IF Fits(SettleAccount(b, Savings)) THEN Materialized(b) ELSE b
<1> DEFINE once == Materialized(b)
           again == SettleAccount(once, Savings)
<1>1. OnePass(b, once)
  BY MaterializedOnce
<1>2. Settled(b) = IF ~Fits(again) THEN b ELSE IF Fits(again) THEN again ELSE once
  BY DEF Settled, SettleAllWithinLimit
<1> HIDE DEF once, again
<1>3. Fits(SettleAccount(b, Savings)) => Fits(again) /\ again = once
  BY <1>1 DEF OnePass, again
<1>4. ~Fits(SettleAccount(b, Savings)) => ~Fits(again)
  BY <1>1 DEF OnePass, again
<1> QED BY <1>2, <1>3, <1>4 DEF once

\* MirrorAgrees: the Mini App asks for a settlement exactly when the service would change
\* something (store/bankStore.ts:90-93).
THEOREM MirrorAgreesWithService == Spec => []MirrorAgrees
<1>1. LedgerInv => MirrorAgrees
  <2> SUFFICES ASSUME LedgerInv PROVE MirrorAgrees
    OBVIOUS
  <2> DEFINE once == Materialized(bank)
             s == SettleAccount(bank, Savings)
  <2>1. Good(bank) /\ today \in Nat \ {0}
    BY LedgerAssumption DEF LedgerInv
  <2>2. OnePass(bank, once) /\ (Settled(bank) = IF Fits(s) THEN once ELSE bank)
    BY <2>1, MaterializedOnce, SettledIs
  <2>3. NeedsServerMaterialization(bank) <=>
          Fits(s) /\ (s # bank \/ \E i \in DOMAIN bank.rules : Due(bank, i))
    BY <2>1, MirrorIs
  <2>4. s.accounts = bank.accounts => s = bank
    <3>1. SettleAccount(bank, Savings).accounts = SettleAccount(bank, Savings).accounts
      OBVIOUS
    <3> QED BY <2>1, <3>1, SettledIsSettled DEF Good
  <2> HIDE DEF once, s
  <2>5. CASE ~Fits(s)
    BY <2>2, <2>3, <2>5 DEF MirrorAgrees
  <2>6. CASE Fits(s)
    <3>1. once \in Onward(s, MaxTransactions)
      BY <2>2, <2>6 DEF OnePass, s
    <3>2. ASSUME s # bank PROVE once # bank
      BY <2>4, <3>1, <3>2 DEF Onward
    <3>3. ASSUME NEW i \in DOMAIN bank.rules, Due(bank, i) PROVE once # bank
      BY <2>2, <3>3 DEF OnePass
    <3>4. ASSUME s = bank, \A i \in DOMAIN bank.rules : ~Due(bank, i) PROVE once = bank
      BY <3>1, <3>4 DEF Onward
    <3> QED BY <2>2, <2>3, <2>6, <3>2, <3>3, <3>4 DEF MirrorAgrees
  <2> QED BY <2>5, <2>6
<1> QED BY <1>1, LedgerInvariant, PTL

-----------------------------------------------------------------------------
(* A row more.                                                             *)

\* A state with one more row than another, booked today.
Appended(c, b, row) ==
  /\ b \in BankStates /\ c \in BankStates /\ row \in RowTypes
  /\ c.rows = Append(b.rows, row)
  /\ c.accounts = b.accounts /\ c.rules = b.rules /\ c.cards = b.cards /\ c.recent = b.recent
  /\ row.balance = BalanceOf(b, row.account) + row.amount /\ row.day = today

\* Two sequences of rows agree up to the n-th.
Agree(c, b, n) == \A i \in 1..n : c.rows[i] = b.rows[i]

\* The row that AppendRow makes of its arguments.
NewRow(b, row, account, amount, kind, rule, date) ==
  /\ Appended(AppendRow(b, account, amount, kind, rule, date), b, row)
  /\ row.account = account /\ row.amount = amount /\ row.kind = kind
  /\ row.rule = rule /\ row.date = date

\* What AppendRow appends.
LEMMA AppendRowIs ==
  ASSUME NEW b \in BankStates, today \in Nat \ {0},
         NEW account \in Accounts, NEW amount \in Int, NEW kind \in Kinds,
         NEW rule \in RuleIds \cup {NoRule}, NEW date \in Nat \ {0}
  PROVE  \E row : NewRow(b, row, account, amount, kind, rule, date)
<1> DEFINE row == [account |-> account, amount |-> amount,
                   balance |-> BalanceOf(b, account) + amount,
                   kind |-> kind, rule |-> rule, date |-> date, day |-> today]
           c == AppendRow(b, account, amount, kind, rule, date)
<1>1. b.rows \in Seq(RowTypes) /\ row \in RowTypes
  <2>1. b.rows \in Seq(RowTypes)
    BY DEF BankStates
  <2>2. BalanceOf(b, account) + amount \in Int
    BY BalanceType
  <2>3. row \in RowTypes
    BY <2>2 DEF RowTypes
  <2> QED BY <2>1, <2>3
<1>2. /\ row.account = account /\ row.amount = amount /\ row.kind = kind
      /\ row.rule = rule /\ row.date = date /\ row.day = today
      /\ row.balance = BalanceOf(b, row.account) + row.amount
  OBVIOUS
<1>3. c = [b EXCEPT !.rows = Append(@, row)]
  BY DEF AppendRow
<1> HIDE DEF row, c
<1> DEFINE rows == Append(b.rows, row)
<1>4. rows \in Seq(RowTypes) /\ c = [b EXCEPT !.rows = rows]
  BY <1>1, <1>3
<1> HIDE DEF rows
<1>5. /\ c \in BankStates /\ c.rows = rows
      /\ c.accounts = b.accounts /\ c.rules = b.rules /\ c.cards = b.cards /\ c.recent = b.recent
  BY <1>4, RowsReplaced
<1>6. Appended(c, b, row)
  BY <1>1, <1>2, <1>5 DEF Appended, rows
<1>7. NewRow(b, row, account, amount, kind, rule, date)
  BY <1>2, <1>6 DEF NewRow, c
<1> QED BY <1>7

\* The rows before the new one are the old ones.
LEMMA AppendedRows ==
  ASSUME NEW b, NEW c, NEW row, Appended(c, b, row)
  PROVE  LET n == Len(b.rows) IN
         /\ n \in Nat /\ DOMAIN b.rows = 1..n /\ DOMAIN c.rows = 1..(n + 1) /\ Len(c.rows) = n + 1
         /\ c.rows[n + 1] = row /\ Agree(c, b, n)
<1>1. b.rows \in Seq(RowTypes) /\ row \in RowTypes /\ c.rows = Append(b.rows, row)
  BY DEF Appended, BankStates
<1> QED BY <1>1 DEF Agree

\* The balance after some of the rows on which two sequences agree is the same.
LEMMA LastSame ==
  ASSUME NEW b, NEW c, NEW n \in Nat, Agree(c, b, n), NEW own \in SUBSET (1..n)
  PROVE  LastBalance(c, own) = LastBalance(b, own)
<1> DEFINE last == CHOOSE i \in own : \A j \in own : j <= i
<1>1. CASE own = {}
  BY <1>1 DEF LastBalance
<1>2. CASE own # {}
  <2>1. own \subseteq 0..n
    OBVIOUS
  <2>2. \E i \in own : \A j \in own : j <= i
    BY <1>2, <2>1, GreatestElement
  <2>3. last \in own
    BY <2>2
  <2> HIDE DEF last
  <2>4. c.rows[last] = b.rows[last]
    BY <2>3 DEF Agree
  <2> QED BY <1>2, <2>4 DEF LastBalance, last
<1> QED BY <1>1, <1>2

\* The balance of its account is the one of the new row; the others are unchanged.
LEMMA AppendedBalance ==
  ASSUME NEW b, NEW c, NEW row, Appended(c, b, row)
  PROVE  /\ BalanceOf(c, row.account) = row.balance
         /\ \A a : a # row.account => BalanceOf(c, a) = BalanceOf(b, a)
<1> DEFINE n == Len(b.rows)
           Own(s, a) == {i \in DOMAIN s.rows : s.rows[i].account = a}
<1>1. /\ n \in Nat /\ DOMAIN b.rows = 1..n /\ DOMAIN c.rows = 1..(n + 1)
      /\ c.rows[n + 1] = row /\ Agree(c, b, n)
  BY AppendedRows
<1>2. BalanceOf(c, row.account) = row.balance
  <2> DEFINE own == Own(c, row.account)
             last == CHOOSE i \in own : \A j \in own : j <= i
  <2>1. n + 1 \in own /\ own \subseteq 1..(n + 1)
    BY <1>1
  <2>2. BalanceOf(c, row.account) = IF own = {} THEN 0 ELSE c.rows[last].balance
    BY DEF BalanceOf, LastBalance
  <2> HIDE DEF own, n
  <2>3. n + 1 \in own /\ \A j \in own : j <= n + 1
    BY <1>1, <2>1
  <2>4. last \in own /\ \A j \in own : j <= last
    BY <2>3
  <2> HIDE DEF last
  <2>5. last = n + 1
    BY <1>1, <2>1, <2>3, <2>4
  <2> QED BY <1>1, <2>1, <2>2, <2>5
<1>3. ASSUME NEW a, a # row.account PROVE BalanceOf(c, a) = BalanceOf(b, a)
  <2>1. Own(c, a) = Own(b, a) /\ Own(b, a) \subseteq 1..n
    BY <1>1, <1>3 DEF Agree
  <2>2. BalanceOf(c, a) = LastBalance(c, Own(c, a)) /\ BalanceOf(b, a) = LastBalance(b, Own(b, a))
    BY DEF BalanceOf
  <2> HIDE DEF Own, n
  <2> QED BY <1>1, <2>1, <2>2, LastSame
<1> QED BY <1>2, <1>3

\* The ledger still runs.
LEMMA AppendedRuns ==
  ASSUME NEW b, NEW c, NEW row, Appended(c, b, row), LedgerRuns(b)
  PROVE  LedgerRuns(c)
<1> DEFINE n == Len(b.rows)
           Before(s, i) == {j \in 1..i - 1 : s.rows[j].account = s.rows[i].account}
<1>1. /\ n \in Nat /\ DOMAIN b.rows = 1..n /\ DOMAIN c.rows = 1..(n + 1)
      /\ c.rows[n + 1] = row /\ Agree(c, b, n)
  BY AppendedRows
<1> HIDE DEF n
<1>2. ASSUME NEW i \in 1..n
      PROVE  c.rows[i].balance = LastBalance(c, Before(c, i)) + c.rows[i].amount
  <2>1. b.rows[i].balance = LastBalance(b, Before(b, i)) + b.rows[i].amount
    BY <1>1 DEF LedgerRuns
  <2>2. Before(c, i) = Before(b, i) /\ Before(b, i) \subseteq 1..n /\ c.rows[i] = b.rows[i]
    BY <1>1 DEF Agree
  <2> HIDE DEF Before
  <2>3. LastBalance(c, Before(b, i)) = LastBalance(b, Before(b, i))
    BY <1>1, <2>2, LastSame
  <2> QED BY <2>1, <2>2, <2>3
<1>3. row.balance = LastBalance(c, Before(c, n + 1)) + row.amount
  <2> DEFINE own == {i \in DOMAIN b.rows : b.rows[i].account = row.account}
  <2>1. Before(c, n + 1) = own /\ own \subseteq 1..n
    BY <1>1 DEF Agree
  <2>2. LastBalance(b, own) = BalanceOf(b, row.account)
    BY DEF BalanceOf
  <2> HIDE DEF Before, own
  <2>3. LastBalance(c, own) = LastBalance(b, own)
    BY <1>1, <2>1, LastSame
  <2> QED BY <2>1, <2>2, <2>3 DEF Appended
<1>4. \A i \in 1..(n + 1) : i \in 1..n \/ i = n + 1
  BY <1>1
<1>5. \A i \in DOMAIN c.rows : c.rows[i].balance = LastBalance(c, Before(c, i)) + c.rows[i].amount
  BY <1>1, <1>2, <1>3, <1>4
<1> QED BY <1>5 DEF LedgerRuns

\* The account has a row.
Has(b, account) == \E i \in DOMAIN b.rows : b.rows[i].account = account

\* The first row of an account.
IsFirst(b, account, i) ==
  i \in DOMAIN b.rows /\ b.rows[i].account = account
    /\ \A j \in 1..i - 1 : b.rows[j].account # account

\* It gives the day the account was created.
LEMMA CreatedIs ==
  ASSUME NEW b \in BankStates, NEW account
  PROVE  /\ \A i : IsFirst(b, account, i) => CreatedOn(b, account) = b.rows[i].day
         /\ Has(b, account) => \E i : IsFirst(b, account, i)
<1>1. b.rows \in Seq(RowTypes)
  BY DEF BankStates
<1>2. DOMAIN b.rows = 1..Len(b.rows) /\ Len(b.rows) \in Nat
  BY <1>1
<1>3. ASSUME NEW i, IsFirst(b, account, i) PROVE CreatedOn(b, account) = b.rows[i].day
  <2> DEFINE chosen == CHOOSE k \in DOMAIN b.rows : /\ b.rows[k].account = account
                                                    /\ \A j \in 1..k - 1 : b.rows[j].account # account
  <2>1. CreatedOn(b, account) = b.rows[chosen].day
    BY DEF CreatedOn
  <2>2. IsFirst(b, account, chosen)
    BY <1>3 DEF IsFirst
  <2> HIDE DEF chosen
  <2>3. chosen = i
    <3>1. i \in 1..Len(b.rows) /\ chosen \in 1..Len(b.rows)
      BY <1>2, <1>3, <2>2 DEF IsFirst
    <3>2. ~(i < chosen)
      BY <1>3, <2>2, <3>1 DEF IsFirst
    <3>3. ~(chosen < i)
      BY <1>3, <2>2, <3>1 DEF IsFirst
    <3> QED BY <3>1, <3>2, <3>3
  <2> QED BY <2>1, <2>3
<1>4. ASSUME Has(b, account) PROVE \E i : IsFirst(b, account, i)
  <2> DEFINE own == {i \in DOMAIN b.rows : b.rows[i].account = account}
  <2>1. own \subseteq Nat /\ own # {}
    BY <1>2, <1>4 DEF Has
  <2> HIDE DEF own
  <2>2. PICK m \in own : \A k \in own : m <= k
    BY <2>1, LeastElement
  <2>3. m \in 1..Len(b.rows) /\ b.rows[m].account = account
    BY <1>2 DEF own
  <2>4. \A j \in 1..m - 1 : j \in DOMAIN b.rows /\ ~(m <= j)
    BY <1>2, <2>3
  <2>5. \A j \in 1..m - 1 : b.rows[j].account # account
    BY <2>2, <2>4 DEF own
  <2> QED BY <1>2, <2>3, <2>5 DEF IsFirst
<1> QED BY <1>3, <1>4

\* No account was created after today.
LEMMA CreatedBefore ==
  ASSUME NEW b, Kept(b), NEW account, Has(b, account), today \in Nat
  PROVE  CreatedOn(b, account) \in Nat /\ CreatedOn(b, account) <= today
<1>1. b \in BankStates /\ b.rows \in Seq(RowTypes)
  BY DEF Kept, BankStates
<1>2. PICK i : IsFirst(b, account, i)
  BY <1>1, CreatedIs
<1>3. b.rows[i] \in RowTypes
  BY <1>1, <1>2 DEF IsFirst
<1>4. b.rows[i].day \in Nat /\ b.rows[i].day <= today
  BY <1>2, <1>3 DEF RowTypes, Kept, IsFirst
<1> QED BY <1>1, <1>2, <1>4, CreatedIs

\* A new row is the first of an account that had none, and no other's.
LEMMA AppendedCreated ==
  ASSUME NEW b, NEW c, NEW row, Appended(c, b, row)
  PROVE  /\ \A a : Has(b, a) => Has(c, a) /\ CreatedOn(c, a) = CreatedOn(b, a)
         /\ Has(c, row.account)
         /\ ~Has(b, row.account) => CreatedOn(c, row.account) = today
<1> DEFINE n == Len(b.rows)
<1>1. /\ n \in Nat /\ DOMAIN b.rows = 1..n /\ DOMAIN c.rows = 1..(n + 1)
      /\ c.rows[n + 1] = row /\ Agree(c, b, n)
  BY AppendedRows
<1>2. b \in BankStates /\ c \in BankStates /\ row.day = today
  BY DEF Appended
<1> HIDE DEF n
<1>3. ASSUME NEW a, Has(b, a) PROVE Has(c, a) /\ CreatedOn(c, a) = CreatedOn(b, a)
  <2>1. PICK i : IsFirst(b, a, i)
    BY <1>2, <1>3, CreatedIs
  <2>2. i \in 1..n /\ i \in 1..(n + 1) /\ \A j \in 1..i - 1 : j \in 1..n
    BY <1>1, <2>1 DEF IsFirst
  <2>3. c.rows[i] = b.rows[i] /\ \A j \in 1..i - 1 : c.rows[j] = b.rows[j]
    BY <1>1, <2>2 DEF Agree
  <2>4. IsFirst(c, a, i)
    BY <1>1, <2>1, <2>2, <2>3 DEF IsFirst
  <2>5. Has(c, a)
    BY <2>4 DEF Has, IsFirst
  <2> QED BY <1>2, <2>1, <2>3, <2>4, <2>5, CreatedIs
<1>4. Has(c, row.account)
  BY <1>1 DEF Has
<1>5. ASSUME ~Has(b, row.account) PROVE CreatedOn(c, row.account) = today
  <2>1. \A j \in 1..n : c.rows[j].account # row.account
    BY <1>1, <1>5 DEF Has, Agree
  <2>2. IsFirst(c, row.account, n + 1)
    BY <1>1, <2>1 DEF IsFirst
  <2> QED BY <1>1, <1>2, <2>2, CreatedIs
<1> QED BY <1>3, <1>4, <1>5

-----------------------------------------------------------------------------
(* Occurrences and transfers after a row more.                             *)

\* A row of another rule or of none does not count.
LEMMA AppendedOther ==
  ASSUME NEW b, NEW c, NEW row, Appended(c, b, row), NEW rule, rule.id # row.rule, NEW month
  PROVE  OccursUntil(c, rule, month) <=> OccursUntil(b, rule, month)
<1> DEFINE n == Len(b.rows)
           Own(s) == {j \in DOMAIN s.rows : s.rows[j].rule = rule.id}
<1>1. /\ n \in Nat /\ DOMAIN b.rows = 1..n /\ DOMAIN c.rows = 1..(n + 1)
      /\ c.rows[n + 1] = row /\ Agree(c, b, n)
  BY AppendedRows
<1>2. Own(c) = Own(b) /\ Own(b) \subseteq 1..n
  BY <1>1 DEF Agree
<1>3. {c.rows[j].date : j \in Own(c)} = {b.rows[j].date : j \in Own(b)}
  BY <1>1, <1>2 DEF Agree
<1> QED BY <1>2, <1>3 DEF OccursUntil

\* The rule's row for the first month without one.
LEMMA AppendedOwn ==
  ASSUME NEW b, NEW c, NEW row, Appended(c, b, row), NEW rule \in RuleTypes, row.rule = rule.id,
         NEW month \in Nat \ {0}, row.date = MonthOccurrence(month, rule.anchorDay),
         MonthOf(rule.startsOn) <= month, OccursUntil(b, rule, month)
  PROVE  OccursUntil(c, rule, month + 1)
<1> DEFINE n == Len(b.rows)
           Own(s) == {j \in DOMAIN s.rows : s.rows[j].rule = rule.id}
           Date(m) == MonthOccurrence(m, rule.anchorDay)
           start == MonthOf(rule.startsOn)
           months == start..month - 1
           more == start..(month + 1) - 1
<1>1. /\ n \in Nat /\ DOMAIN b.rows = 1..n /\ DOMAIN c.rows = 1..(n + 1)
      /\ c.rows[n + 1] = row /\ Agree(c, b, n)
  BY AppendedRows
<1>2. start \in Nat
  <2>1. rule.startsOn \in Nat \ {0}
    BY DEF RuleTypes
  <2> QED BY <2>1, MonthOfFacts
<1>3. start <= month
  OBVIOUS
<1> HIDE DEF start, n
<1>4. Own(c) = Own(b) \cup {n + 1} /\ n + 1 \notin Own(b) /\ Own(b) \subseteq 1..n
  <2>1. \A j \in 1..(n + 1) : j \in 1..n \/ j = n + 1
    BY <1>1
  <2>2. \A j \in 1..n : j \in 1..(n + 1) /\ j # n + 1
    BY <1>1
  <2>3. n + 1 \in 1..(n + 1)
    BY <1>1
  <2> QED BY <1>1, <2>1, <2>2, <2>3 DEF Agree
<1>5. more = months \cup {month} /\ month \notin months
  BY <1>2, <1>3
<1>6. /\ {b.rows[j].date : j \in Own(b)} = {Date(m) : m \in months}
      /\ Cardinality(Own(b)) = Cardinality(months)
  BY DEF OccursUntil, start
<1>7. {c.rows[j].date : j \in Own(c)} = {Date(m) : m \in more}
  <2>1. \A j \in Own(b) : c.rows[j].date = b.rows[j].date
    BY <1>1, <1>4 DEF Agree
  <2>2. c.rows[n + 1].date = Date(month)
    BY <1>1
  <2> HIDE DEF Own, Date, months, more
  <2>3. {c.rows[j].date : j \in Own(c)} = {b.rows[j].date : j \in Own(b)} \cup {Date(month)}
    BY <1>4, <2>1, <2>2
  <2>4. {Date(m) : m \in more} = {Date(m) : m \in months} \cup {Date(month)}
    BY <1>5
  <2> QED BY <1>6, <2>3, <2>4
<1>8. Cardinality(Own(c)) = Cardinality(more)
  <2>1. IsFiniteSet(1..n) /\ IsFiniteSet(months)
    BY <1>1, <1>2, FS_Interval
  <2> HIDE DEF Own, months, more
  <2>2. IsFiniteSet(Own(b))
    BY <1>4, <2>1, FS_Subset
  <2>3. Cardinality(Own(c)) = Cardinality(Own(b)) + 1 /\ Cardinality(more) = Cardinality(months) + 1
    BY <1>4, <1>5, <2>1, <2>2, FS_AddElement
  <2> QED BY <1>6, <2>3
<1> QED BY <1>7, <1>8 DEF OccursUntil, start

\* A row that is no leg of a transfer splits none.
LEMMA AppendedNoLeg ==
  ASSUME NEW b, NEW c, NEW row, Appended(c, b, row), row.kind \notin {"out", "in"},
         HasValidTransferGroups(b)
  PROVE  HasValidTransferGroups(c)
<1> DEFINE n == Len(b.rows)
<1>1. /\ n \in Nat /\ DOMAIN b.rows = 1..n /\ DOMAIN c.rows = 1..(n + 1) /\ Len(c.rows) = n + 1
      /\ c.rows[n + 1] = row /\ Agree(c, b, n)
  BY AppendedRows
<1> HIDE DEF n
<1> SUFFICES ASSUME NEW i \in DOMAIN c.rows
             PROVE  LET out == c.rows[i] IN
                    /\ out.kind = "in" => i > 1 /\ c.rows[i - 1].kind = "out"
                    /\ out.kind = "out" =>
                         /\ i < Len(c.rows)
                         /\ LET in == c.rows[i + 1]
                            IN  /\ in.kind = "in" /\ in.account # out.account /\ in.day = out.day
                                /\ out.amount < 0 /\ in.amount > 0
                                /\ in.amount = Convert(-out.amount, out.account, in.account)
  BY DEF HasValidTransferGroups
<1>2. CASE i = n + 1
  BY <1>1, <1>2
<1>3. CASE i # n + 1
  <2>1. i \in 1..n /\ c.rows[i] = b.rows[i]
    BY <1>1, <1>3 DEF Agree
  <2>2. c.rows[i].kind = "in" => i > 1 /\ c.rows[i - 1].kind = "out"
    <3>1. c.rows[i].kind = "in" => i > 1 /\ b.rows[i - 1].kind = "out"
      BY <1>1, <2>1 DEF HasValidTransferGroups
    <3>2. i > 1 => i - 1 \in 1..n
      BY <1>1, <2>1
    <3> QED BY <1>1, <3>1, <3>2 DEF Agree
  <2>3. c.rows[i].kind = "out" => i + 1 \in 1..n /\ c.rows[i + 1] = b.rows[i + 1]
    <3>1. c.rows[i].kind = "out" => i < n
      BY <1>1, <2>1 DEF HasValidTransferGroups, n
    <3>2. i < n => i + 1 \in 1..n
      BY <1>1, <2>1
    <3> QED BY <1>1, <3>1, <3>2 DEF Agree
  <2>4. c.rows[i].kind = "out" => i < Len(c.rows)
    BY <1>1, <2>1
  <2> QED BY <1>1, <2>1, <2>2, <2>3, <2>4 DEF HasValidTransferGroups
<1> QED BY <1>2, <1>3

\* Two rows that are the legs of one.
AreLegs(out, in) ==
  /\ out.kind = "out" /\ in.kind = "in" /\ in.account # out.account /\ in.day = out.day
  /\ out.amount < 0 /\ in.amount > 0
  /\ in.amount = Convert(-out.amount, out.account, in.account)

\* Both legs of a transfer, one after the other.
LEMMA AppendedLegs ==
  ASSUME NEW b, NEW c, NEW d, NEW out, NEW in, Appended(c, b, out), Appended(d, c, in),
         AreLegs(out, in), HasValidTransferGroups(b)
  PROVE  HasValidTransferGroups(d)
<1> DEFINE n == Len(b.rows)
           m == n + 1
<1>1. /\ n \in Nat /\ DOMAIN b.rows = 1..n /\ DOMAIN c.rows = 1..m /\ Len(c.rows) = m
      /\ c.rows[m] = out /\ Agree(c, b, n)
  BY AppendedRows
<1>2. /\ DOMAIN d.rows = 1..(m + 1) /\ Len(d.rows) = m + 1 /\ d.rows[m + 1] = in /\ Agree(d, c, m)
  BY <1>1, AppendedRows
<1>3. m \in 1..m /\ d.rows[m] = out /\ \A i \in 1..n : d.rows[i] = b.rows[i]
  <2>1. m \in 1..m /\ \A i \in 1..n : i \in 1..m
    BY <1>1
  <2> QED BY <1>1, <1>2, <2>1 DEF Agree
<1> HIDE DEF n
<1> SUFFICES ASSUME NEW i \in DOMAIN d.rows
             PROVE  LET leg == d.rows[i] IN
                    /\ leg.kind = "in" => i > 1 /\ d.rows[i - 1].kind = "out"
                    /\ leg.kind = "out" => i < Len(d.rows) /\ AreLegs(leg, d.rows[i + 1])
  BY DEF HasValidTransferGroups, AreLegs
<1>4. CASE i = m + 1
  <2>1. d.rows[i] = in /\ i > 1 /\ i - 1 = m
    BY <1>1, <1>2, <1>4
  <2> QED BY <1>3, <2>1 DEF AreLegs
<1>5. CASE i = m
  <2>1. d.rows[i] = out /\ i < Len(d.rows) /\ d.rows[i + 1] = in
    BY <1>1, <1>2, <1>3, <1>5
  <2> QED BY <2>1 DEF AreLegs
<1>6. CASE i # m /\ i # m + 1
  <2>1. i \in 1..n /\ d.rows[i] = b.rows[i]
    BY <1>1, <1>2, <1>3, <1>6
  <2>2. d.rows[i].kind = "in" => i > 1 /\ d.rows[i - 1].kind = "out"
    <3>1. d.rows[i].kind = "in" => i > 1 /\ b.rows[i - 1].kind = "out"
      BY <1>1, <2>1 DEF HasValidTransferGroups
    <3>2. i > 1 => i - 1 \in 1..n
      BY <1>1, <2>1
    <3> QED BY <1>3, <3>1, <3>2
  <2>3. d.rows[i].kind = "out" => AreLegs(b.rows[i], b.rows[i + 1]) /\ i < n
    BY <1>1, <2>1 DEF HasValidTransferGroups, AreLegs, n
  <2>4. i < n => i + 1 \in 1..n /\ i < Len(d.rows)
    BY <1>1, <1>2, <2>1
  <2> QED BY <1>3, <2>1, <2>2, <2>3, <2>4
<1> QED BY <1>4, <1>5, <1>6

-----------------------------------------------------------------------------
(* States that can be read again, in parts.                                *)

\* Accounts are what they should be; one that was never added is untouched.
AccountsSound(b) ==
  \A a \in Accounts :
    IF Exists(b, a) THEN IsAccount(b, a)
    ELSE a \in Custom /\ b.accounts[a].anchor = 0 /\ b.accounts[a].closedAt = 0

\* One of them is active, and no two checking accounts are in the same currency.
ActiveSound(b) ==
  (\E a \in Accounts : IsActive(b, a)) /\ HasUniqueActiveCheckingCurrencies(b)

\* The rows.
RowsSound(b) ==
  /\ \A i \in DOMAIN b.rows : IsTransaction(b.rows[i]) /\ BelongsToItsRule(b, b.rows[i])
  /\ HasValidTransactionAccountBoundaries(b)
  /\ LedgerRuns(b)
  /\ \A a \in Accounts : b.accounts[a].status = "closed" => BalanceOf(b, a) = 0

\* The rules.
RulesSound(b) ==
  /\ IsInjective([i \in DOMAIN b.rules |-> b.rules[i].id])
  /\ \A i \in DOMAIN b.rules : IsRuleOfItsAccount(b, b.rules[i])

\* The cards.
CardsSound(b) == \A c \in Cards : IsCardOfItsAccount(b, b.cards[c])

\* The transfers that are remembered.
RecentSound(b) == IsInjective(b.recent) /\ Len(b.recent) <= RecentCap

\* What holds of a state even while a command is at work on it.
Regular(b) ==
  /\ Good(b) /\ AccountsSound(b) /\ ActiveSound(b) /\ RowsSound(b) /\ RulesSound(b)
  /\ CardsSound(b) /\ RecentSound(b)

\* Every account has a row, which tells the day it was created.
AllHave(b) == \A a \in Accounts : Exists(b, a) => Has(b, a)

\* What holds of a state that is not too long, or would be.
Sound(b) ==
  /\ Regular(b) /\ AllHave(b) /\ HasValidTransferGroups(b)
  /\ HasContinuousRecurringOccurrences(b)

\* What holds of every stored state.
Parsed(b) == Sound(b) /\ Fits(b)

\* A row that may be booked.
Bookable(b, row) ==
  /\ IsActive(b, row.account) /\ IsTransaction(row) /\ BelongsToItsRule(b, row)
  /\ row.kind = "manual" => row.account \in Checking /\ row.date <= today
  /\ row.kind = "adjustment" /\ row.account = Savings => row.date = today

\* What a row within the life of its account is.
WithinLife(b, row) ==
  /\ Exists(b, row.account)
  /\ CreatedOn(b, row.account) <= row.day /\ row.day <= today
  /\ row.kind = "manual" => row.account \in Checking /\ row.date <= row.day
  /\ row.kind = "adjustment" /\ row.account = Savings => row.date = row.day
  /\ b.accounts[row.account].status = "closed" => row.day <= b.accounts[row.account].closedAt

\* A row is booked: nothing that was in order is disturbed.  An account may have no row
\* before only if it is new.
LEMMA AppendedRegular ==
  ASSUME NEW b, NEW c, NEW row, Appended(c, b, row), Regular(b), Good(c), Bookable(b, row),
         today \in Nat \ {0},
         \A a \in Accounts :
           Exists(b, a) => Has(b, a) \/ (/\ a = row.account
                                         /\ b.accounts[a].anchor = 0 /\ b.accounts[a].closedAt = 0)
  PROVE  Regular(c) /\ AllHave(c)
<1> DEFINE n == Len(b.rows)
<1>1. /\ n \in Nat /\ DOMAIN b.rows = 1..n /\ DOMAIN c.rows = 1..(n + 1)
      /\ c.rows[n + 1] = row /\ Agree(c, b, n)
  BY AppendedRows
<1>2. /\ c.accounts = b.accounts /\ c.rules = b.rules /\ c.cards = b.cards /\ c.recent = b.recent
      /\ row.day = today /\ row \in RowTypes /\ b \in BankStates
  BY DEF Appended
<1>3. /\ \A a : Has(b, a) => Has(c, a) /\ CreatedOn(c, a) = CreatedOn(b, a)
      /\ Has(c, row.account)
      /\ ~Has(b, row.account) => CreatedOn(c, row.account) = today
  BY AppendedCreated
<1> HIDE DEF n
<1>4. \A a : /\ IsActive(c, a) <=> IsActive(b, a)
             /\ Exists(c, a) <=> Exists(b, a)
  BY <1>2 DEF IsActive, Exists
<1>5. AccountsSound(c)
  <2> SUFFICES ASSUME NEW a \in Accounts, Exists(b, a) PROVE IsAccount(c, a)
    BY <1>2, <1>4 DEF AccountsSound, Regular
  <2>1. IsAccount(b, a)
    BY DEF AccountsSound, Regular
  <2>2. CASE Has(b, a)
    BY <1>2, <1>3, <2>1, <2>2 DEF IsAccount
  <2>3. CASE ~Has(b, a)
    <3>1. b.accounts[a].anchor = 0 /\ b.accounts[a].closedAt = 0
      BY <2>3
    <3> QED BY <1>2, <2>1, <3>1 DEF IsAccount
  <2> QED BY <2>2, <2>3
<1>6. ActiveSound(c)
  BY <1>4 DEF ActiveSound, HasUniqueActiveCheckingCurrencies, Regular
<1>7. \A i \in 1..(n + 1) : i = n + 1 \/ (i \in 1..n /\ c.rows[i] = b.rows[i])
  BY <1>1 DEF Agree
<1>8. \A i \in DOMAIN c.rows : IsTransaction(c.rows[i]) /\ BelongsToItsRule(c, c.rows[i])
  <2>1. \A r : BelongsToItsRule(c, r) <=> BelongsToItsRule(b, r)
    BY <1>2 DEF BelongsToItsRule
  <2> QED BY <1>1, <1>7, <2>1 DEF RowsSound, Regular, Bookable
<1>9. HasValidTransactionAccountBoundaries(c)
  <2>1. ASSUME NEW i \in 1..n PROVE WithinLife(c, b.rows[i])
    <3>1. WithinLife(b, b.rows[i])
      BY <1>1 DEF Regular, RowsSound, HasValidTransactionAccountBoundaries, WithinLife
    <3>2. Has(b, b.rows[i].account)
      BY <1>1 DEF Has
    <3>3. CreatedOn(c, b.rows[i].account) = CreatedOn(b, b.rows[i].account)
      BY <1>3, <3>2
    <3> QED BY <1>2, <1>4, <3>1, <3>3 DEF WithinLife
  <2>2. WithinLife(c, row)
    <3>1. Exists(c, row.account) /\ b.accounts[row.account].status = "active"
      BY <1>4 DEF Bookable, IsActive, Exists
    <3>2. CreatedOn(c, row.account) <= today
      <4>1. Kept(c) /\ today \in Nat
        BY DEF Good
      <4> QED BY <1>3, <4>1, CreatedBefore
    <3> QED BY <1>2, <3>1, <3>2 DEF WithinLife, Bookable
  <2>3. \A i \in DOMAIN c.rows : WithinLife(c, c.rows[i])
    BY <1>1, <1>7, <2>1, <2>2
  <2> QED BY <2>3 DEF HasValidTransactionAccountBoundaries, WithinLife
<1>10. LedgerRuns(c)
  BY AppendedRuns DEF Regular, RowsSound
<1>11. ASSUME NEW a \in Accounts, c.accounts[a].status = "closed" PROVE BalanceOf(c, a) = 0
  <2>1. a # row.account /\ BalanceOf(b, a) = 0
    BY <1>2, <1>11 DEF Bookable, IsActive, Regular, RowsSound
  <2> QED BY <2>1, AppendedBalance
<1>12. RulesSound(c)
  <2>1. \A r : IsRuleOfItsAccount(c, r) <=> IsRuleOfItsAccount(b, r)
    BY <1>4 DEF IsRuleOfItsAccount
  <2> QED BY <1>2, <2>1 DEF RulesSound, Regular
<1>13. CardsSound(c) /\ RecentSound(c)
  BY <1>2, <1>4 DEF CardsSound, IsCardOfItsAccount, RecentSound, Regular
<1>14. AllHave(c)
  BY <1>3, <1>4 DEF AllHave
<1> QED BY <1>5, <1>6, <1>8, <1>9, <1>10, <1>11, <1>12, <1>13, <1>14 DEF Regular, RowsSound

\* The same where each account has a row.
LEMMA AppendedOn ==
  ASSUME NEW b, NEW c, NEW row, Appended(c, b, row), Regular(b), AllHave(b), Good(c),
         Bookable(b, row), today \in Nat \ {0}
  PROVE  Regular(c) /\ AllHave(c)
BY AppendedRegular DEF AllHave

\* A row of no rule and no transfer leaves a sound state sound.
LEMMA AppendedSound ==
  ASSUME NEW b, NEW c, NEW row, Appended(c, b, row), Sound(b), Good(c), Bookable(b, row),
         today \in Nat \ {0}, row.rule = NoRule, row.kind \notin {"out", "in"}
  PROVE  Sound(c)
<1>1. Regular(c) /\ AllHave(c) /\ HasValidTransferGroups(c)
  BY AppendedOn, AppendedNoLeg DEF Sound
<1>2. ASSUME NEW i \in DOMAIN c.rules PROVE OccursUntil(c, c.rules[i], MonthOf(c.rules[i].next))
  <2>1. i \in DOMAIN b.rules /\ c.rules[i] = b.rules[i] /\ b \in BankStates
    BY <1>2 DEF Appended
  <2>2. b.rules[i].id # row.rule
    <3>1. b.rules[i] \in RuleTypes
      BY <2>1, RulesAre
    <3> QED BY <3>1, LedgerAssumption DEF RuleTypes
  <2> QED BY <2>1, <2>2, AppendedOther DEF Sound, HasContinuousRecurringOccurrences
<1> QED BY <1>1, <1>2 DEF Sound, HasContinuousRecurringOccurrences

\* No balance is negative.
LEMMA BalanceNatural ==
  ASSUME NEW b, Regular(b), NEW account
  PROVE  BalanceOf(b, account) \in Nat
<1> DEFINE own == {i \in DOMAIN b.rows : b.rows[i].account = account}
           last == CHOOSE i \in own : \A j \in own : j <= i
<1>1. b \in BankStates /\ b.rows \in Seq(RowTypes)
  BY DEF Regular, Good, Kept, BankStates
<1>2. BalanceOf(b, account) = IF own = {} THEN 0 ELSE b.rows[last].balance
  BY DEF BalanceOf, LastBalance
<1>3. own \subseteq 0..Len(b.rows) /\ own \subseteq DOMAIN b.rows /\ Len(b.rows) \in Nat
  BY <1>1
<1> HIDE DEF own
<1>4. CASE own # {}
  <2>1. \E i \in own : \A j \in own : j <= i
    BY <1>3, <1>4, GreatestElement
  <2>2. last \in own
    BY <2>1
  <2> HIDE DEF last
  <2>3. b.rows[last] \in RowTypes /\ IsTransaction(b.rows[last])
    BY <1>1, <1>3, <2>2 DEF Regular, RowsSound
  <2>4. b.rows[last].balance \in Nat
    BY <2>3 DEF RowTypes, IsTransaction
  <2> QED BY <1>2, <1>4, <2>4
<1> QED BY <1>2, <1>4

-----------------------------------------------------------------------------
(* Accounts, rules and cards restated, no row booked.                      *)

\* A rule that differs in its next date and its status only.
SameRule(r, s) ==
  /\ r.id = s.id /\ r.account = s.account /\ r.direction = s.direction
  /\ r.amount = s.amount /\ r.anchorDay = s.anchorDay /\ r.startsOn = s.startsOn

\* Rules change no more than that, and none is lost.
RulesKept(c, b) == \A i \in DOMAIN b.rules : i \in DOMAIN c.rules /\ SameRule(c.rules[i], b.rules[i])

\* The rows of such a rule are those it had.
LEMMA OccursSame ==
  ASSUME NEW b, NEW c, c.rows = b.rows, NEW r, NEW s, SameRule(r, s), NEW month
  PROVE  OccursUntil(c, r, month) <=> OccursUntil(b, s, month)
BY DEF OccursUntil, SameRule

\* The rows stay in order when accounts go on existing and a closed one has no money.
LEMMA RestatedRegular ==
  ASSUME NEW b, Regular(b), NEW c, Good(c), c.rows = b.rows, RulesKept(c, b),
         \A a \in Accounts : Exists(b, a) => Exists(c, a),
         \A a \in Accounts : c.accounts[a].status = "closed" =>
           \/ c.accounts[a] = b.accounts[a]
           \/ c.accounts[a].closedAt = today /\ BalanceOf(b, a) = 0,
         AccountsSound(c), ActiveSound(c), RulesSound(c), CardsSound(c), RecentSound(c)
  PROVE  Regular(c) /\ (HasValidTransferGroups(b) => HasValidTransferGroups(c))
<1>1. \A a : CreatedOn(c, a) = CreatedOn(b, a) /\ BalanceOf(c, a) = BalanceOf(b, a)
  BY DEF CreatedOn, BalanceOf, LastBalance
<1>2. LedgerRuns(c) /\ (HasValidTransferGroups(b) => HasValidTransferGroups(c))
  <2>1. \A own : LastBalance(c, own) = LastBalance(b, own)
    BY DEF LastBalance
  <2>2. LedgerRuns(b)
    BY DEF Regular, RowsSound
  <2>3. LedgerRuns(c)
    BY <2>1, <2>2 DEF LedgerRuns
  <2>4. HasValidTransferGroups(c) = HasValidTransferGroups(b)
    BY Zenon DEF HasValidTransferGroups
  <2> QED BY <2>3, <2>4
<1>3. ASSUME NEW i \in DOMAIN c.rows PROVE IsTransaction(c.rows[i]) /\ BelongsToItsRule(c, c.rows[i])
  <2> DEFINE row == c.rows[i]
  <2>1. row = b.rows[i] /\ i \in DOMAIN b.rows
    OBVIOUS
  <2>2. IsTransaction(row) /\ BelongsToItsRule(b, row)
    BY <2>1 DEF Regular, RowsSound
  <2> HIDE DEF row
  <2>3. \A r, s : SameRule(r, s) => Signed(r) = Signed(s)
    BY DEF SameRule, Signed
  <2>4. BelongsToItsRule(c, row)
    BY <2>2, <2>3 DEF BelongsToItsRule, RulesKept, SameRule
  <2> QED BY <2>2, <2>4 DEF row
<1>4. HasValidTransactionAccountBoundaries(c)
  <2>1. ASSUME NEW i \in DOMAIN c.rows PROVE WithinLife(c, c.rows[i])
    <3> DEFINE row == c.rows[i]
    <3>1. row = b.rows[i] /\ i \in DOMAIN b.rows /\ c.rows \in Seq(RowTypes)
      BY DEF Good, Kept, BankStates
    <3>2. WithinLife(b, row) /\ row \in RowTypes
      BY <3>1 DEF Regular, RowsSound, HasValidTransactionAccountBoundaries, WithinLife
    <3> HIDE DEF row
    <3>3. row.account \in Accounts
      BY <3>2 DEF RowTypes
    <3>4. Exists(c, row.account)
      BY <3>2, <3>3 DEF WithinLife
    <3>5. c.accounts[row.account].status = "closed" => row.day <= c.accounts[row.account].closedAt
      BY <3>2, <3>3 DEF WithinLife
    <3> QED BY <1>1, <3>2, <3>4, <3>5 DEF WithinLife, row
  <2> QED BY <2>1 DEF HasValidTransactionAccountBoundaries, WithinLife
<1>5. \A a \in Accounts : c.accounts[a].status = "closed" => BalanceOf(c, a) = 0
  BY <1>1 DEF Regular, RowsSound
<1> QED BY <1>2, <1>3, <1>4, <1>5 DEF Regular, RowsSound

\* Rules change in their status only, and in the one of a closed account only if theirs is.
RulesPaused(c, b) ==
  /\ DOMAIN c.rules = DOMAIN b.rules
  /\ \A i \in DOMAIN b.rules :
       /\ SameRule(c.rules[i], b.rules[i]) /\ c.rules[i].next = b.rules[i].next
       /\ c.rules[i].status = "account_closed" => ~IsActive(c, c.rules[i].account)

\* That leaves the rules in order.
LEMMA RulesStay ==
  ASSUME NEW b, b \in BankStates, RulesSound(b), NEW c, RulesFollow(c), c.rows = b.rows,
         RulesPaused(c, b), \A a \in Accounts : Exists(b, a) => Exists(c, a)
  PROVE  /\ RulesKept(c, b) /\ RulesSound(c)
         /\ HasContinuousRecurringOccurrences(b) => HasContinuousRecurringOccurrences(c)
<1>1. RulesKept(c, b)
  BY DEF RulesKept, RulesPaused
<1>2. [i \in DOMAIN c.rules |-> c.rules[i].id] = [i \in DOMAIN b.rules |-> b.rules[i].id]
  BY DEF RulesPaused, SameRule
<1>3. ASSUME NEW i \in DOMAIN c.rules PROVE IsRuleOfItsAccount(c, c.rules[i])
  <2> DEFINE r == c.rules[i]
             s == b.rules[i]
  <2>1. i \in DOMAIN b.rules
    BY DEF RulesPaused
  <2>2. SameRule(r, s) /\ r.next = s.next /\ (r.status = "account_closed" => ~IsActive(c, r.account))
    BY <2>1 DEF RulesPaused
  <2>3. IsRuleOfItsAccount(b, s) /\ s.account \in Accounts
    BY <2>1, RulesAre DEF RulesSound
  <2>4. r.status = "active" => IsActive(c, r.account)
    BY DEF RulesFollow
  <2> HIDE DEF r, s
  <2> QED BY <2>2, <2>3, <2>4 DEF IsRuleOfItsAccount, SameRule, r
<1>4. ASSUME HasContinuousRecurringOccurrences(b) PROVE HasContinuousRecurringOccurrences(c)
  <2> SUFFICES ASSUME NEW i \in DOMAIN c.rules
               PROVE  OccursUntil(c, c.rules[i], MonthOf(c.rules[i].next))
    BY DEF HasContinuousRecurringOccurrences
  <2>1. i \in DOMAIN b.rules /\ SameRule(c.rules[i], b.rules[i]) /\ c.rules[i].next = b.rules[i].next
    BY DEF RulesPaused
  <2>2. OccursUntil(b, b.rules[i], MonthOf(c.rules[i].next))
    BY <1>4, <2>1 DEF HasContinuousRecurringOccurrences
  <2> QED BY <2>1, <2>2, OccursSame
<1> QED BY <1>1, <1>2, <1>3, <1>4 DEF RulesSound

\* What an account that is opened or closed today is, and what lets it be.
MayBecome(b, account, acc) ==
  /\ acc \in AccountTypes /\ Exists(b, account) /\ acc.anchor = AnchorToday(account)
  /\ \/ /\ acc.status = "active" /\ acc.closedAt = 0
        /\ account \in Checking => ~CurrencyTaken(b, account)
     \/ /\ acc.status = "closed" /\ acc.closedAt = today
        /\ BalanceOf(b, account) = 0
        /\ \E other \in Accounts \ {account} : IsActive(b, other)

\* An account is closed, restored or settled: its rules and the cards follow.
LEMMA LifecycleSound ==
  ASSUME NEW b, Sound(b), NEW c, Good(c), c.rows = b.rows, c.recent = b.recent,
         today \in Nat \ {0}, NEW account \in Accounts, NEW acc, MayBecome(b, account, acc),
         c.accounts = [b.accounts EXCEPT ![account] = acc],
         RulesPaused(c, b), CardsSound(c)
  PROVE  Sound(c)
<1>1. /\ b.accounts \in [Accounts -> AccountTypes] /\ b \in BankStates /\ Regular(b)
      /\ AllHave(b) /\ Kept(b)
  BY DEF Sound, Regular, Good, Kept, BankStates
<1>2. c.accounts[account] = acc /\ \A a \in Accounts \ {account} : c.accounts[a] = b.accounts[a]
  BY <1>1
<1>3. \A a \in Accounts : Exists(b, a) <=> Exists(c, a)
  BY <1>2 DEF Exists, MayBecome
<1>4. \A a : CreatedOn(c, a) = CreatedOn(b, a) /\ (Has(c, a) <=> Has(b, a))
  BY DEF CreatedOn, Has
<1>5. AccountsSound(c)
  <2> SUFFICES ASSUME NEW a \in Accounts
               PROVE  IF Exists(c, a) THEN IsAccount(c, a)
                      ELSE a \in Custom /\ c.accounts[a].anchor = 0 /\ c.accounts[a].closedAt = 0
    BY DEF AccountsSound
  <2>1. CASE a = account
    <3>1. CreatedOn(c, a) \in Nat /\ CreatedOn(c, a) <= today
      <4>1. Has(b, a) /\ today \in Nat
        BY <1>1, <2>1 DEF AllHave, MayBecome
      <4> QED BY <1>1, <1>4, <4>1, CreatedBefore
    <3>2. Exists(c, a)
      BY <1>3, <2>1 DEF MayBecome
    <3>3. acc.anchor = (IF account = Savings THEN today ELSE 0)
      BY DEF MayBecome, AnchorToday
    <3>4. \/ acc.status = "active" /\ acc.closedAt = 0
          \/ acc.status = "closed" /\ acc.closedAt = today
      BY DEF MayBecome
    <3>5. IsAccount(c, a)
      BY <1>2, <2>1, <3>1, <3>3, <3>4 DEF IsAccount
    <3> QED BY <3>2, <3>5
  <2>2. CASE a # account
    BY <1>1, <1>2, <1>3, <1>4, <2>2 DEF Regular, AccountsSound, IsAccount
  <2> QED BY <2>1, <2>2
<1>6. ActiveSound(c)
  <2>1. \A a \in Accounts \ {account} : IsActive(c, a) <=> IsActive(b, a)
    BY <1>2 DEF IsActive
  <2>2. IsActive(c, account) <=> acc.status = "active"
    BY <1>2 DEF IsActive
  <2>3. \E a \in Accounts : IsActive(c, a)
    BY <2>1, <2>2 DEF MayBecome
  <2>4. HasUniqueActiveCheckingCurrencies(c)
    <3> SUFFICES ASSUME NEW x \in Checking, NEW y \in Checking, IsActive(c, x), IsActive(c, y),
                        Currency(x) = Currency(y), x # y
                 PROVE  FALSE
      BY DEF HasUniqueActiveCheckingCurrencies
    <3>1. Checking \subseteq Accounts /\ HasUniqueActiveCheckingCurrencies(b)
      BY <1>1 DEF Accounts, Regular, ActiveSound
    <3>2. CASE x # account /\ y # account
      BY <2>1, <3>1, <3>2 DEF HasUniqueActiveCheckingCurrencies
    <3>3. ASSUME NEW z \in Checking, IsActive(c, account), account \in Checking,
                 z # account, IsActive(c, z), Currency(z) = Currency(account)
          PROVE  FALSE
      <4>1. IsActive(b, z)
        BY <2>1, <3>1, <3>3
      <4>2. ~CurrencyTaken(b, account)
        BY <2>2, <3>3 DEF MayBecome
      <4> QED BY <3>3, <4>1, <4>2 DEF CurrencyTaken
    <3> QED BY <3>2, <3>3
  <2> QED BY <2>3, <2>4 DEF ActiveSound
<1>7. RulesKept(c, b) /\ RulesSound(c) /\ HasContinuousRecurringOccurrences(c)
  <2>1. RulesSound(b) /\ RulesFollow(c) /\ HasContinuousRecurringOccurrences(b)
    BY DEF Sound, Regular, Good
  <2> QED BY <1>1, <1>3, <2>1, RulesStay
<1>8. RecentSound(c)
  BY <1>1 DEF Regular, RecentSound
<1>9. \A a \in Accounts : c.accounts[a].status = "closed" =>
        \/ c.accounts[a] = b.accounts[a]
        \/ c.accounts[a].closedAt = today /\ BalanceOf(b, a) = 0
  BY <1>2 DEF MayBecome
<1>10. Regular(c) /\ HasValidTransferGroups(c)
  BY <1>1, <1>3, <1>5, <1>6, <1>7, <1>8, <1>9, RestatedRegular DEF Sound
<1>11. AllHave(c)
  BY <1>1, <1>3, <1>4 DEF AllHave
<1> QED BY <1>7, <1>10, <1>11 DEF Sound

\* Where no account starts or stops being active, rules and cards stay as they are.
LEMMA NothingFollows ==
  ASSUME NEW b, Regular(b), NEW c, c.rules = b.rules, c.cards = b.cards,
         \A a \in Accounts : IsActive(c, a) <=> IsActive(b, a)
  PROVE  RulesPaused(c, b) /\ CardsSound(c)
<1>1. b \in BankStates /\ RulesSound(b) /\ CardsSound(b) /\ Main \in Accounts
  BY LedgerAssumption DEF Regular, Good, Kept, Accounts
<1>2. \A i \in DOMAIN b.rules : b.rules[i].account \in Accounts
  BY <1>1, RulesAre
<1>3. RulesPaused(c, b)
  BY <1>1, <1>2 DEF RulesPaused, SameRule, RulesSound, IsRuleOfItsAccount
<1>4. CardsSound(c)
  BY <1>1 DEF CardsSound, IsCardOfItsAccount
<1> QED BY <1>3, <1>4

\* What settling does to the rows: at most one more, which adds money.
SettledRowsOf(s, b, account) ==
  /\ \/ s.rows = b.rows
     \/ Len(s.rows) = Len(b.rows) + 1 /\ BalanceOf(s, account) > 0
  /\ \A a : a # account => BalanceOf(s, a) = BalanceOf(b, a)
  /\ s.rules = b.rules /\ s.cards = b.cards /\ s.recent = b.recent
  /\ \A a \in Accounts : s.accounts[a].status = b.accounts[a].status

\* Settling leaves a sound state sound: the anchor first, the row then, for the same end.
LEMMA SettleSound ==
  ASSUME NEW b, Sound(b), today \in Nat \ {0}, NEW account \in Accounts
  PROVE  LET s == SettleAccount(b, account) IN Sound(s) /\ SettledRowsOf(s, b, account)
<1> DEFINE old == b.accounts[account]
           amount == AccruedInterest(BalanceOf(b, account), today - old.anchor)
           posted == Post(b, account, amount, "interest")
           settled == IF amount > 0 THEN posted ELSE b
           acc == [old EXCEPT !.anchor = today]
           c == [b EXCEPT !.accounts = [@ EXCEPT ![account] = acc]]
           s == SettleAccount(b, account)
<1>1. /\ Regular(b) /\ Good(b) /\ Kept(b) /\ b \in BankStates
      /\ b.accounts \in [Accounts -> AccountTypes] /\ b.rows \in Seq(RowTypes)
  BY DEF Sound, Regular, Good, Kept, BankStates
<1>2. old \in AccountTypes /\ old.anchor \in Nat /\ old.status \in {"absent", "active", "closed"}
  BY <1>1 DEF AccountTypes
<1>3. s = IF account # Savings \/ old.status # "active" \/ old.anchor >= today THEN b
          ELSE [settled EXCEPT !.accounts[account].anchor = today]
  BY DEF SettleAccount
<1>4. CASE account # Savings \/ old.status # "active" \/ old.anchor >= today
  BY <1>3, <1>4 DEF SettledRowsOf
<1>5. CASE ~(account # Savings \/ old.status # "active" \/ old.anchor >= today)
  <2>1. s = [settled EXCEPT !.accounts[account].anchor = today]
    BY <1>3, <1>5
  <2>2. account = Savings /\ old.status = "active" /\ account \notin Checking
    BY <1>5, LedgerAssumption
  <2>3. /\ acc \in AccountTypes /\ acc.status = "active" /\ acc.anchor = today
        /\ acc.closedAt = old.closedAt
    BY <1>2, <2>2 DEF AccountTypes
  <2>4. Exists(b, account) /\ IsActive(b, account)
    BY <2>2 DEF Exists, IsActive
  <2>5. old.closedAt = 0
    <3>1. IsAccount(b, account)
      BY <1>1, <2>4 DEF Regular, AccountsSound
    <3> QED BY <2>2, <3>1 DEF IsAccount
  <2>6. amount \in Int
    <3>1. BalanceOf(b, account) \in Int /\ today - old.anchor \in Nat
      BY <1>1, <1>2, <1>5, BalanceType
    <3> QED BY <3>1, InterestFacts
  <2>7. Good(s) /\ (\A a \in Accounts : s.accounts[a].status = b.accounts[a].status)
        /\ s.rules = b.rules /\ s.cards = b.cards /\ s.recent = b.recent
    <3>1. AfterSettling(s, b, account)
      BY <1>1, SettleKept
    <3>2. Good(s)
      BY <1>1, SettledGood
    <3> QED BY <3>1, <3>2 DEF AfterSettling
  <2> HIDE DEF s, acc
  <2> DEFINE row == [account |-> account, amount |-> amount,
                     balance |-> BalanceOf(b, account) + amount,
                     kind |-> "interest", rule |-> NoRule, date |-> today, day |-> today]
  <2>8. posted = [b EXCEPT !.rows = Append(@, row)]
    BY DEF Post, AppendRow
  <2> HIDE DEF amount, posted, old
  <2>9. Kept(c) /\ c.rules = b.rules /\ c.rows = b.rows /\ c.cards = b.cards /\ c.recent = b.recent
        /\ c.accounts = [b.accounts EXCEPT ![account] = acc]
    BY <1>1, <2>3, AccountChanged
  <2> HIDE DEF c
  <2>10. c \in BankStates /\ \A a \in Accounts : IsActive(c, a) <=> IsActive(b, a)
    <3>1. c.accounts[account] = acc /\ \A a \in Accounts \ {account} : c.accounts[a] = b.accounts[a]
      BY <1>1, <2>9
    <3>2. \A a \in Accounts : IsActive(c, a) <=> IsActive(b, a)
      BY <2>3, <2>4, <3>1 DEF IsActive
    <3> QED BY <2>9, <3>2 DEF Kept
  <2>11. Sound(c)
    <3>1. Good(c)
      BY <1>1, <2>9, <2>10, FollowsOn
    <3>2. MayBecome(b, account, acc)
      BY <2>2, <2>3, <2>4, <2>5 DEF MayBecome, AnchorToday
    <3>3. RulesPaused(c, b) /\ CardsSound(c)
      BY <1>1, <2>9, <2>10, NothingFollows
    <3> QED BY <2>9, <3>1, <3>2, <3>3, LifecycleSound
  <2>12. BalanceOf(c, account) = BalanceOf(b, account) /\ \A a : BalanceOf(c, a) = BalanceOf(b, a)
    BY <2>9 DEF BalanceOf, LastBalance
  <2>13. CASE ~(amount > 0)
    <3>1. s = [b EXCEPT !.accounts[account].anchor = today]
      BY <2>1, <2>13
    <3>2. s = c
      BY <3>1 DEF c, acc, old
    <3> QED BY <2>7, <2>9, <2>11, <2>12, <3>2 DEF SettledRowsOf, s
  <2>14. CASE amount > 0
    <3>1. s = [c EXCEPT !.rows = Append(@, row)]
      <4>1. s = [posted EXCEPT !.accounts[account].anchor = today]
        BY <2>1, <2>14
      <4> QED BY <1>1, <2>8, <4>1 DEF c, acc, old, BankStates
    <3>2. BalanceOf(b, account) \in Nat
      BY <1>1, BalanceNatural
    <3>3. /\ row \in RowTypes /\ row.balance = BalanceOf(c, row.account) + row.amount
          /\ row.balance \in Nat /\ row.balance > 0 /\ row.day = today /\ row.account = account
          /\ row.kind = "interest" /\ row.rule = NoRule
      BY <2>6, <2>12, <2>14, <3>2 DEF RowTypes, Kinds
    <3> HIDE DEF row
    <3> DEFINE rows == Append(c.rows, row)
    <3>4. rows \in Seq(RowTypes) /\ s = [c EXCEPT !.rows = rows]
      BY <1>1, <2>9, <3>1, <3>3
    <3> HIDE DEF rows
    <3>5. /\ s \in BankStates /\ s.rows = rows /\ s.accounts = c.accounts /\ s.rules = c.rules
          /\ s.cards = c.cards /\ s.recent = c.recent
      BY <2>10, <3>4, RowsReplaced
    <3>6. Appended(s, c, row)
      BY <2>10, <3>3, <3>5 DEF Appended, rows
    <3>7. Bookable(c, row)
      BY <2>4, <2>10, <3>3 DEF Bookable, IsTransaction, BelongsToItsRule, Kinds
    <3>8. Sound(s)
      BY <2>7, <2>11, <3>3, <3>6, <3>7, AppendedSound
    <3>9. BalanceOf(s, account) > 0 /\ \A a : a # account => BalanceOf(s, a) = BalanceOf(b, a)
      BY <2>12, <3>3, <3>6, AppendedBalance
    <3>10. Len(s.rows) = Len(b.rows) + 1
      BY <2>9, <3>6, AppendedRows
    <3> QED BY <2>7, <3>8, <3>9, <3>10 DEF SettledRowsOf, s
  <2> QED BY <2>13, <2>14
<1> QED BY <1>4, <1>5

-----------------------------------------------------------------------------
(* The occurrences that fell due.                                          *)

\* As many dates as months.
LEMMA DatesCounted ==
  ASSUME NEW dates \in Seq(Nat \ {0}), OneMonthEach(dates)
  PROVE  Cardinality(ToSet(dates)) = Len(dates)
<1> DEFINE k == Len(dates)
           S == ToSet(dates)
<1>1. k \in Nat /\ DOMAIN dates = 1..k /\ S = {dates[i] : i \in 1..k}
  BY DEF ToSet
<1>2. dates \in [1..k -> S] /\ \A i, j \in 1..k : dates[i] = dates[j] => i = j
  BY <1>1 DEF OneMonthEach
<1>3. \A date \in S : \E i \in 1..k : dates[i] = date
  BY <1>1
<1> HIDE DEF S, k
<1>4. dates \in Bijection(1..k, S)
  BY <1>2, <1>3 DEF Bijection, Injection, Surjection, IsInjective
<1>5. IsFiniteSet(1..k) /\ Cardinality(1..k) = k
  <2>1. IsFiniteSet(1..k)
    BY <1>1, FS_Interval
  <2>2. Cardinality(1..k) = IF 1 > k THEN 0 ELSE k - 1 + 1
    BY <1>1, FS_Interval
  <2> QED BY <1>1, <2>1, <2>2
<1>6. ExistsBijection(1..k, S)
  BY <1>4 DEF ExistsBijection
<1> QED BY <1>5, <1>6, FS_Bijection DEF S, k

\* Dates for which a rule has no row yet, one for each month from some month on.
Pending(b, rule, start, dates) ==
  /\ start \in Nat \ {0} /\ MonthOf(rule.startsOn) <= start /\ OccursUntil(b, rule, start)
  /\ dates \in Seq(Nat \ {0})
  /\ \A i \in DOMAIN dates :
       /\ dates[i] <= today /\ MonthOf(dates[i]) = start + i - 1
       /\ dates[i] = MonthOccurrence(start + i - 1, rule.anchorDay)

\* Those that are due are.
LEMMA DuePending ==
  ASSUME NEW b, NEW rule \in RuleTypes, NEW first \in Nat \ {0}, today \in Nat \ {0},
         OnBillingDay(first, rule.anchorDay), MonthOf(rule.startsOn) <= MonthOf(first),
         OccursUntil(b, rule, MonthOf(first))
  PROVE  LET dates == OccurrenceDates(first, rule.anchorDay) IN
         /\ Pending(b, rule, MonthOf(first), dates.due)
         /\ dates.next \in Nat \ {0} /\ dates.next > today /\ OnBillingDay(dates.next, rule.anchorDay)
         /\ MonthOf(dates.next) = MonthOf(first) + Len(dates.due)
<1> DEFINE dates == OccurrenceDates(first, rule.anchorDay)
           due == dates.due
           start == MonthOf(first)
<1>1. rule.anchorDay \in Nat \ {0}
  BY LedgerAssumption DEF RuleTypes
<1>2. /\ due \in Seq(Nat \ {0}) /\ dates.next \in Nat \ {0}
      /\ \A i \in DOMAIN due : due[i] <= today /\ MonthOf(due[i]) = start + i - 1
      /\ dates.next > today /\ MonthOf(dates.next) = start + Len(due)
      /\ OnBillingDay(dates.next, rule.anchorDay)
      /\ \A i \in DOMAIN due : OnBillingDay(due[i], rule.anchorDay)
  BY <1>1, DatesFacts
<1>3. start \in Nat \ {0}
  BY MonthOfFacts
<1> HIDE DEF dates, start
<1>4. \A i \in DOMAIN due : due[i] = MonthOccurrence(start + i - 1, rule.anchorDay)
  BY <1>2 DEF OnBillingDay
<1> QED BY <1>2, <1>3, <1>4 DEF Pending, dates, start

\* All of them are missing.
LEMMA AllMissing ==
  ASSUME NEW b, NEW rule \in RuleTypes, NEW start, NEW dates, Pending(b, rule, start, dates)
  PROVE  /\ Missing(b, rule, dates) = ToSet(dates) /\ OneMonthEach(dates)
         /\ Cardinality(Missing(b, rule, dates)) = Len(dates)
<1>1. /\ start \in Nat \ {0} /\ dates \in Seq(Nat \ {0}) /\ DOMAIN dates \subseteq Nat \ {0}
      /\ \A i \in DOMAIN dates : MonthOf(dates[i]) = start + i - 1
  BY DEF Pending
<1>2. rule.anchorDay \in Nat \ {0} /\ rule.startsOn \in Nat \ {0}
  BY LedgerAssumption DEF RuleTypes
<1>3. MonthOf(rule.startsOn) \in Nat \ {0}
  BY <1>2, MonthOfFacts
<1>4. OneMonthEach(dates)
  BY <1>1 DEF OneMonthEach
<1>5. ASSUME NEW j \in DOMAIN b.rows, b.rows[j].rule = rule.id, NEW i \in DOMAIN dates
      PROVE  MonthOf(b.rows[j].date) # MonthOf(dates[i])
  <2>1. b.rows[j].date \in {MonthOccurrence(m, rule.anchorDay) : m \in MonthOf(rule.startsOn)..start - 1}
    BY <1>5 DEF Pending, OccursUntil
  <2>2. PICK m \in MonthOf(rule.startsOn)..start - 1 : b.rows[j].date = MonthOccurrence(m, rule.anchorDay)
    BY <2>1
  <2>3. m \in Nat \ {0} /\ m < start
    BY <1>1, <1>3
  <2>4. MonthOf(b.rows[j].date) = m
    BY <1>2, <2>2, <2>3, OccurrenceInMonth
  <2>5. MonthOf(dates[i]) = start + i - 1 /\ i \in Nat \ {0}
    BY <1>1
  <2> QED BY <1>1, <2>3, <2>4, <2>5
<1>6. Missing(b, rule, dates) = ToSet(dates)
  BY <1>5 DEF Missing, ToSet
<1> QED BY <1>1, <1>4, <1>6, DatesCounted

\* Where posting the dates of the k-th rule has got to.
PostedUpTo(c, b, k, start, n) ==
  LET rule == b.rules[k] IN
  /\ c.accounts = b.accounts /\ c.rules = b.rules
  /\ Regular(c) /\ AllHave(c) /\ HasValidTransferGroups(c)
  /\ BalanceOf(c, rule.account) = BalanceOf(b, rule.account) + n * Signed(rule)
  /\ Len(c.rows) = Len(b.rows) + n
  /\ OccursUntil(c, rule, start + n)
  /\ \A i \in DOMAIN b.rules \ {k} :
       \A m : OccursUntil(c, b.rules[i], m) <=> OccursUntil(b, b.rules[i], m)

\* What lets a rule post its dates: its account is active and pays for all of them.
MayPost(b, k, start, dates) ==
  LET rule == b.rules[k] IN
  /\ Regular(b) /\ AllHave(b) /\ HasValidTransferGroups(b)
  /\ k \in DOMAIN b.rules /\ IsActive(b, rule.account)
  /\ Pending(b, rule, start, dates)
  /\ rule.direction = "expense" => rule.amount * Len(dates) <= BalanceOf(b, rule.account)

\* One date more.
LEMMA PostOne ==
  ASSUME NEW b, NEW k, NEW start, NEW dates, MayPost(b, k, start, dates), today \in Nat \ {0},
         NEW n \in Nat, n + 1 \in 1..Len(dates), NEW c, PostedUpTo(c, b, k, start, n)
  PROVE  LET rule == b.rules[k] IN
         PostedUpTo(AppendRow(c, rule.account, Signed(rule), "manual", rule.id, dates[n + 1]),
                    b, k, start, n + 1)
<1> DEFINE rule == b.rules[k]
           date == dates[n + 1]
           amount == Signed(rule)
           account == rule.account
           id == rule.id
           d == AppendRow(c, account, amount, "manual", id, date)
<1>1. /\ Regular(b) /\ b \in BankStates /\ k \in DOMAIN b.rules
      /\ Regular(c) /\ AllHave(c) /\ HasValidTransferGroups(c) /\ Good(c) /\ Kept(c) /\ c \in BankStates
      /\ c.accounts = b.accounts /\ c.rules = b.rules
  BY DEF MayPost, PostedUpTo, Regular, Good, Kept
<1>2. rule \in RuleTypes
  BY <1>1, RulesAre
<1>3. /\ start \in Nat \ {0} /\ date \in Nat \ {0} /\ date <= today
      /\ date = MonthOccurrence(start + n, rule.anchorDay)
      /\ MonthOf(rule.startsOn) <= start
  <2>1. /\ start \in Nat \ {0} /\ dates \in Seq(Nat \ {0}) /\ n + 1 \in DOMAIN dates
        /\ MonthOf(rule.startsOn) <= start
    BY DEF MayPost, Pending
  <2>2. date <= today /\ date = MonthOccurrence(start + (n + 1) - 1, rule.anchorDay)
    BY <2>1 DEF MayPost, Pending
  <2>3. start + (n + 1) - 1 = start + n
    BY <2>1
  <2> QED BY <2>1, <2>2, <2>3
<1>4. MonthOf(rule.startsOn) \in Nat /\ rule.amount \in Nat \ {0} /\ Len(dates) \in Nat
  <2>1. rule.startsOn \in Nat \ {0} /\ rule.amount \in Nat \ {0}
    BY <1>2, LedgerAssumption DEF RuleTypes
  <2>2. dates \in Seq(Nat \ {0})
    BY DEF MayPost, Pending
  <2> QED BY <2>1, <2>2, MonthOfFacts
<1>5. /\ rule.account \in Accounts /\ rule.account \in Checking /\ rule.id \in RuleIds \cup {NoRule}
      /\ rule.id # NoRule /\ "manual" \in Kinds
      /\ amount \in Int /\ amount # 0
      /\ amount = IF rule.direction = "expense" THEN -rule.amount ELSE rule.amount
  <2>1. /\ rule.account \in Checking /\ rule.id \in RuleIds /\ rule.id # NoRule
    BY <1>2, LedgerAssumption DEF RuleTypes
  <2>2. amount = IF rule.direction = "expense" THEN -rule.amount ELSE rule.amount
    BY DEF Signed
  <2>3. amount \in Int /\ amount # 0
    BY <1>4, <2>2
  <2> QED BY <2>1, <2>2, <2>3 DEF Accounts, Kinds
<1>6. IsActive(c, rule.account)
  BY <1>1 DEF MayPost, IsActive
<1> DEFINE before == BalanceOf(b, rule.account)
<1>7. before \in Nat /\ BalanceOf(c, account) \in Nat
      /\ BalanceOf(c, account) = before + n * amount
  BY <1>1, BalanceNatural DEF PostedUpTo
<1>8. rule.direction = "expense" => rule.amount * Len(dates) <= before
  BY DEF MayPost
<1>9. OccursUntil(c, rule, start + n) /\ Len(c.rows) = Len(b.rows) + n
  BY DEF PostedUpTo
<1> HIDE DEF rule, date, amount, before
<1>10. before + n * amount + amount = before + (n + 1) * amount
  <2>1. amount \in Int /\ before \in Int
    BY <1>5, <1>7
  <2>2. (n + 1) * amount = n * amount + amount /\ n * amount \in Int
    BY <2>1
  <2> QED BY <2>1, <2>2
<1>11. BalanceOf(c, account) + amount >= 0
  <2>1. CASE rule.direction = "expense"
    <3> DEFINE rest == Len(dates) - (n + 1)
               price == rule.amount
    <3>1. rest \in Nat /\ Len(dates) = (n + 1) + rest /\ price \in Nat /\ amount = -price
      BY <1>4, <1>5, <2>1
    <3>2. price * Len(dates) <= before
      BY <1>8, <2>1
    <3> HIDE DEF rest, price
    <3>3. price * Len(dates) = price * (n + 1) + price * rest /\ price * rest >= 0
      BY <3>1
    <3>4. (n + 1) * amount = -(price * (n + 1)) /\ price * (n + 1) \in Nat
      BY <3>1
    <3>5. before + (n + 1) * amount >= 0
      BY <1>7, <3>1, <3>2, <3>3, <3>4
    <3> QED BY <1>7, <1>10, <3>5
  <2>2. CASE rule.direction # "expense"
    BY <1>4, <1>5, <1>7, <2>2
  <2> QED BY <2>1, <2>2
<1>12. PICK row : /\ Appended(d, c, row) /\ row.account = account /\ row.amount = amount
                  /\ row.kind = "manual" /\ row.rule = rule.id /\ row.date = date
  <2>1. account \in Accounts /\ id \in RuleIds \cup {NoRule}
    BY <1>5
  <2> HIDE DEF account, id
  <2>2. c \in BankStates /\ amount \in Int /\ "manual" \in Kinds /\ date \in Nat \ {0}
    BY <1>1, <1>3, <1>5
  <2>3. PICK row : NewRow(c, row, account, amount, "manual", id, date)
    BY <2>1, <2>2, AppendRowIs
  <2> QED BY <2>3 DEF id, NewRow
<1>13. Good(d)
  <2>1. SettledUpTo(c, account)
    BY <1>5, LedgerAssumption DEF SettledUpTo
  <2>2. Booked(d, c)
    BY <1>1, <1>3, <1>5, <2>1, AppendKept
  <2> QED BY <1>1, <2>2, BookedGood
<1> HIDE DEF d
<1>14. Bookable(c, row)
  <2>1. IsTransaction(row)
    BY <1>5, <1>11, <1>12 DEF IsTransaction, Appended
  <2>2. BelongsToItsRule(c, row)
    BY <1>1, <1>12 DEF BelongsToItsRule, rule, amount
  <2> QED BY <1>3, <1>5, <1>6, <1>12, <2>1, <2>2 DEF Bookable
<1>15. Regular(d) /\ AllHave(d) /\ HasValidTransferGroups(d)
  BY <1>1, <1>12, <1>13, <1>14, AppendedOn, AppendedNoLeg
<1>16. BalanceOf(d, account) = before + (n + 1) * amount
  BY <1>7, <1>10, <1>12, AppendedBalance DEF Appended
<1>17. Len(d.rows) = Len(b.rows) + (n + 1)
  <2>1. Len(d.rows) = Len(c.rows) + 1
    BY <1>12, AppendedRows
  <2>2. Len(b.rows) \in Nat
    <3>1. b.rows \in Seq(RowTypes)
      BY <1>1 DEF BankStates
    <3> QED BY <3>1
  <2>3. Len(c.rows) = Len(b.rows) + n
    BY <1>9
  <2> DEFINE x == Len(b.rows) y == Len(c.rows)
  <2>4. x \in Nat /\ y = x + n
    BY <2>2, <2>3
  <2> HIDE DEF x, y
  <2>5. y + 1 = x + (n + 1)
    BY <2>4
  <2> QED BY <2>1, <2>5 DEF x, y
<1>18. OccursUntil(d, rule, start + (n + 1))
  <2>1. start + n \in Nat \ {0} /\ MonthOf(rule.startsOn) <= start + n /\ start + (n + 1) = start + n + 1
    BY <1>3, <1>4
  <2> DEFINE month == start + n
  <2>2. month \in Nat \ {0} /\ MonthOf(rule.startsOn) <= month /\ OccursUntil(c, rule, month)
        /\ row.date = MonthOccurrence(month, rule.anchorDay)
    BY <1>3, <1>9, <1>12, <2>1
  <2> HIDE DEF month
  <2>3. OccursUntil(d, rule, month + 1)
    BY <1>2, <1>12, <2>2, AppendedOwn
  <2> QED BY <2>1, <2>3 DEF month
<1>19. ASSUME NEW i \in DOMAIN b.rules \ {k}, NEW m
       PROVE  OccursUntil(d, b.rules[i], m) <=> OccursUntil(b, b.rules[i], m)
  <2>1. b.rules[i].id # rule.id
    BY <1>1 DEF Regular, RulesSound, IsInjective, rule
  <2>2. OccursUntil(d, b.rules[i], m) <=> OccursUntil(c, b.rules[i], m)
    BY <1>12, <2>1, AppendedOther
  <2> QED BY <2>2 DEF PostedUpTo
<1>20. d.accounts = b.accounts /\ d.rules = b.rules
  BY <1>1, <1>12 DEF Appended
<1> QED BY <1>15, <1>16, <1>17, <1>18, <1>19, <1>20 DEF PostedUpTo, d, rule, amount, date, before

\* All of them.
LEMMA PostsSound ==
  ASSUME NEW b, NEW k, NEW start, NEW dates, MayPost(b, k, start, dates), today \in Nat \ {0}
  PROVE  LET posted == PostOccurrences(b, b.rules[k], dates) IN
         posted \in WithRows(b) /\ PostedUpTo(posted, b, k, start, Len(dates))
<1> DEFINE rule == b.rules[k]
           total == Len(dates)
<1>1. /\ Regular(b) /\ AllHave(b) /\ HasValidTransferGroups(b) /\ Kept(b)
      /\ b \in BankStates /\ b.rows \in Seq(RowTypes) /\ k \in DOMAIN b.rules
      /\ Pending(b, rule, start, dates)
  BY DEF MayPost, Regular, Good, Kept, BankStates
<1>2. rule \in RuleTypes /\ dates \in Seq(Nat \ {0}) /\ start \in Nat /\ total \in Nat
  BY <1>1, RulesAre DEF Pending
<1>3. PICK posted : Posts(posted, b, rule, dates)
  BY <1>1, <1>2, PostsRun
<1>4. Missing(b, rule, dates) = ToSet(dates)
  BY <1>1, <1>2, AllMissing
<1> DEFINE S == {n \in Nat : n <= total => PostedUpTo(posted[n], b, k, start, n)}
<1>5. 0 \in S
  <2>1. /\ posted[0] = b /\ BalanceOf(b, rule.account) \in Int /\ Signed(rule) \in Int
        /\ OccursUntil(b, rule, start)
    BY <1>1, <1>2, <1>3, BalanceType, SignedType DEF Posts, Pending
  <2>2. 0 * Signed(rule) = 0 /\ start + 0 = start /\ Len(b.rows) + 0 = Len(b.rows)
    BY <1>1, <1>2, <2>1
  <2>3. BalanceOf(b, rule.account) + 0 * Signed(rule) = BalanceOf(b, rule.account)
    BY <2>1, <2>2
  <2>4. PostedUpTo(b, b, k, start, 0)
    BY <1>1, <2>1, <2>2, <2>3 DEF PostedUpTo
  <2> QED BY <2>1, <2>4
<1>6. ASSUME NEW n \in Nat, n \in S PROVE n + 1 \in S
  <2> SUFFICES ASSUME n + 1 <= total PROVE PostedUpTo(posted[n + 1], b, k, start, n + 1)
    OBVIOUS
  <2> DEFINE c == posted[n]
  <2>1. n + 1 \in 1..total /\ (n + 1) - 1 = n /\ n <= total
    BY <1>2
  <2>2. PostedUpTo(c, b, k, start, n)
    BY <1>6, <2>1
  <2>3. dates[n + 1] \in Missing(b, rule, dates)
    BY <1>2, <1>4, <2>1 DEF ToSet
  <2>4. posted[n + 1] = PostStep(b, rule, dates, n + 1, posted[(n + 1) - 1])
    BY <1>3, <2>1 DEF Posts
  <2>5. posted[n + 1] = AppendRow(c, rule.account, Signed(rule), "manual", rule.id, dates[n + 1])
    BY <2>1, <2>3, <2>4 DEF PostStep
  <2> HIDE DEF c
  <2> QED BY <2>1, <2>2, <2>5, PostOne
<1>7. PostedUpTo(posted[total], b, k, start, total)
  <2>1. S \subseteq Nat
    OBVIOUS
  <2>2. total \in S
    <3> HIDE DEF S
    <3> QED BY <1>2, <1>5, <1>6, <2>1, Induction
  <2> QED BY <1>2, <2>2
<1>8. posted[total] \in WithRows(b) /\ PostOccurrences(b, rule, dates) = posted[total]
  BY <1>2, <1>3 DEF Posts
<1> QED BY <1>7, <1>8

-----------------------------------------------------------------------------
(* Rules restated and materialised.                                        *)

\* Only the rules differ.
RulesOnly(c, b) ==
  /\ c.accounts = b.accounts /\ c.rows = b.rows /\ c.cards = b.cards /\ c.recent = b.recent

\* Rules that are in order may replace others as long as none is lost.
LEMMA RulesRestated ==
  ASSUME NEW b, Regular(b), AllHave(b), HasValidTransferGroups(b), NEW c, Good(c),
         RulesOnly(c, b), RulesKept(c, b), RulesSound(c)
  PROVE  Regular(c) /\ AllHave(c) /\ HasValidTransferGroups(c)
<1>1. \A a : /\ Exists(c, a) <=> Exists(b, a)
             /\ IsActive(c, a) <=> IsActive(b, a)
             /\ Has(c, a) <=> Has(b, a)
             /\ CreatedOn(c, a) = CreatedOn(b, a)
  BY DEF RulesOnly, Exists, IsActive, Has, CreatedOn
<1>2. AccountsSound(c)
  BY <1>1 DEF Regular, AccountsSound, IsAccount, RulesOnly
<1>3. ActiveSound(c) /\ CardsSound(c) /\ RecentSound(c)
  BY <1>1 DEF Regular, ActiveSound, HasUniqueActiveCheckingCurrencies, CardsSound,
              IsCardOfItsAccount, RecentSound, RulesOnly
<1>4. AllHave(c)
  BY <1>1 DEF AllHave
<1>5. c.accounts = b.accounts /\ c.rows = b.rows
  BY DEF RulesOnly
<1> QED BY <1>1, <1>2, <1>3, <1>4, <1>5, RestatedRegular

\* One rule gets another status, which suits its account.
LEMMA StatusSound ==
  ASSUME NEW b, Sound(b), NEW i \in DOMAIN b.rules,
         NEW status \in {"active", "manual", "capacity", "insufficient_funds"},
         status = "active" => IsActive(b, b.rules[i].account)
  PROVE  Sound([b EXCEPT !.rules[i].status = status])
<1> DEFINE r == [b.rules[i] EXCEPT !.status = status]
           rules == [b.rules EXCEPT ![i] = r]
           c == [b EXCEPT !.rules[i].status = status]
<1>1. /\ Regular(b) /\ Good(b) /\ Kept(b) /\ b \in BankStates /\ b.rules \in Seq(RuleTypes)
  BY DEF Sound, Regular, Good, Kept, BankStates
<1>2. r \in RuleTypes /\ r.account = b.rules[i].account /\ r.status = status
  <2> DEFINE rule == b.rules[i]
  <2>1. rule \in RuleTypes
    BY <1>1, RulesAre
  <2>2. status \in {"active", "manual", "account_closed", "capacity", "insufficient_funds"}
    OBVIOUS
  <2> HIDE DEF rule
  <2>3. LET s == [rule EXCEPT !.status = status] IN
        s \in RuleTypes /\ s.account = rule.account /\ s.status = status
    BY <2>1, <2>2, StatusReplaced
  <2> QED BY <2>3 DEF rule
<1>3. SameRule(r, b.rules[i]) /\ r.next = b.rules[i].next
  <2>1. b.rules[i] \in RuleTypes
    BY <1>1, RulesAre
  <2> QED BY <2>1 DEF SameRule, RuleTypes
<1> HIDE DEF r
<1>4. /\ rules \in Seq(RuleTypes) /\ DOMAIN rules = DOMAIN b.rules /\ rules[i] = r
      /\ \A j \in DOMAIN b.rules : j # i => rules[j] = b.rules[j]
  BY <1>1, <1>2
<1>5. c = [b EXCEPT !.rules = rules]
  BY DEF r
<1> HIDE DEF c, rules
<1>6. c \in BankStates /\ c.rules = rules /\ RulesOnly(c, b)
  BY <1>1, <1>4, <1>5, RulesReplaced DEF RulesOnly
<1>7. \A a : IsActive(c, a) <=> IsActive(b, a)
  BY <1>6 DEF IsActive, RulesOnly
<1>8. Good(c)
  <2>1. Kept(c)
    BY <1>1, <1>6 DEF Kept, RulesOnly
  <2>2. RulesFollow(c)
    BY <1>1, <1>2, <1>4, <1>6, <1>7 DEF RulesFollow, Good
  <2> QED BY <2>1, <2>2 DEF Good
<1>9. RulesPaused(c, b)
  <2>1. ASSUME NEW j \in DOMAIN b.rules
        PROVE  /\ SameRule(c.rules[j], b.rules[j]) /\ c.rules[j].next = b.rules[j].next
               /\ c.rules[j].status = "account_closed" => ~IsActive(c, c.rules[j].account)
    <3>1. CASE j = i
      BY <1>2, <1>3, <1>4, <1>6, <3>1
    <3>2. CASE j # i
      <4>1. c.rules[j] = b.rules[j] /\ IsRuleOfItsAccount(b, b.rules[j])
        BY <1>1, <1>4, <1>6, <3>2 DEF Regular, RulesSound
      <4> QED BY <1>7, <4>1 DEF IsRuleOfItsAccount, SameRule
    <3> QED BY <3>1, <3>2
  <2> QED BY <1>4, <1>6, <2>1 DEF RulesPaused
<1>10. RulesKept(c, b) /\ RulesSound(c) /\ HasContinuousRecurringOccurrences(c)
  <2>1. \A a \in Accounts : Exists(b, a) => Exists(c, a)
    BY <1>6 DEF RulesOnly, Exists
  <2>2. RulesSound(b) /\ RulesFollow(c) /\ c.rows = b.rows /\ HasContinuousRecurringOccurrences(b)
    BY <1>6, <1>8 DEF Sound, Regular, Good, RulesOnly
  <2> QED BY <1>1, <1>9, <2>1, <2>2, RulesStay
<1> QED BY <1>6, <1>8, <1>10, RulesRestated DEF Sound, c

\* A later day is in no earlier month.
LEMMA MonthsInOrder ==
  ASSUME NEW date \in Nat \ {0}, NEW other \in Nat \ {0}, date <= other
  PROVE  MonthOf(date) <= MonthOf(other)
<1> DEFINE m == MonthOf(date)
           k == MonthOf(other)
<1>1. m \in Nat \ {0} /\ FirstDay(m) <= date /\ k \in Nat \ {0} /\ other < FirstDay(k + 1)
  BY MonthOfFacts
<1> HIDE DEF m, k
<1>2. ~(k < m)
  <2> SUFFICES ASSUME k < m PROVE FALSE
    OBVIOUS
  <2>1. FirstDay(k + 1) <= FirstDay(m)
    BY <1>1, MonthsFollow
  <2>2. FirstDay(k + 1) \in Nat /\ FirstDay(m) \in Nat
    BY <1>1, MonthLengths
  <2> QED BY <1>1, <2>1, <2>2
<1> QED BY <1>1, <1>2 DEF m, k

\* What a rule's next occurrence is.
LEMMA NextIs ==
  ASSUME NEW b, Sound(b), NEW i \in DOMAIN b.rules
  PROVE  LET rule == b.rules[i] IN
         /\ rule \in RuleTypes /\ rule.next \in Nat \ {0} /\ rule.startsOn \in Nat \ {0}
         /\ rule.startsOn <= rule.next /\ MonthOf(rule.startsOn) <= MonthOf(rule.next)
         /\ OnBillingDay(rule.next, rule.anchorDay)
         /\ OccursUntil(b, rule, MonthOf(rule.next))
<1> DEFINE rule == b.rules[i]
<1>1. rule \in RuleTypes /\ IsRuleOfItsAccount(b, rule) /\ OccursUntil(b, rule, MonthOf(rule.next))
  <2>1. b \in BankStates
    BY DEF Sound, Regular, Good, Kept
  <2> QED BY <2>1, RulesAre DEF Sound, Regular, RulesSound, HasContinuousRecurringOccurrences
<1> HIDE DEF rule
<1>2. rule.next \in Nat \ {0} /\ rule.startsOn \in Nat \ {0}
  BY <1>1 DEF RuleTypes
<1>3. rule.startsOn <= rule.next /\ OnBillingDay(rule.next, rule.anchorDay)
  BY <1>1 DEF IsRuleOfItsAccount, OnBillingDay
<1> QED BY <1>1, <1>2, <1>3, MonthsInOrder DEF rule

\* One rule's turn leaves a sound state sound.
LEMMA MaterializeRuleSound ==
  ASSUME NEW b, Sound(b), today \in Nat \ {0}, NEW i \in DOMAIN b.rules, NEW limit \in Nat
  PROVE  Sound(MaterializeRule(b, i, limit))
<1> DEFINE rule == b.rules[i]
           start == MonthOf(rule.next)
           dates == OccurrenceDates(rule.next, rule.anchorDay)
           missing == Missing(b, rule, dates.due)
           posted == PostOccurrences(b, rule, dates.due)
           m == MaterializeRule(b, i, limit)
           idle == rule.status # "active" \/ rule.next > today \/ ~IsActive(b, rule.account)
<1>1. /\ Regular(b) /\ AllHave(b) /\ HasValidTransferGroups(b) /\ Good(b) /\ Kept(b)
      /\ b \in BankStates /\ b.rules \in Seq(RuleTypes)
  BY DEF Sound, Regular, Good, Kept, BankStates
<1>2. /\ rule \in RuleTypes /\ rule.next \in Nat \ {0} /\ rule.startsOn \in Nat \ {0}
      /\ rule.startsOn <= rule.next /\ MonthOf(rule.startsOn) <= start
      /\ OnBillingDay(rule.next, rule.anchorDay) /\ OccursUntil(b, rule, start)
  BY NextIs
<1>3. /\ Pending(b, rule, start, dates.due)
      /\ dates.next \in Nat \ {0} /\ dates.next > today /\ OnBillingDay(dates.next, rule.anchorDay)
      /\ MonthOf(dates.next) = start + Len(dates.due)
  BY <1>2, DuePending
<1>4. Cardinality(missing) = Len(dates.due)
  BY <1>2, <1>3, AllMissing
<1>5. Good(m)
  <2>1. RuleTurn(b, i, limit, m)
    BY <1>1, MaterializeRuleFacts
  <2> QED BY <1>1, <2>1, OnwardGood DEF RuleTurn
<1>6. CASE idle
  BY <1>6 DEF MaterializeRule
<1>7. ASSUME NEW reason \in {"capacity", "insufficient_funds"}, m = PauseRule(b, i, reason)
      PROVE  Sound(m)
  <2>1. reason \in {"active", "manual", "capacity", "insufficient_funds"} /\ reason # "active"
    OBVIOUS
  <2>2. Sound([b EXCEPT !.rules[i].status = reason])
    BY <2>1, StatusSound
  <2>3. m = [b EXCEPT !.rules[i].status = reason]
    BY <1>7 DEF PauseRule
  <2> HIDE DEF m
  <2> QED BY <2>2, <2>3
<1>8. ASSUME ~idle, rule.direction = "expense" => ~(rule.amount * Cardinality(missing) > BalanceOf(b, rule.account)),
             m = [posted EXCEPT !.rules[i].next = dates.next]
      PROVE  Sound(m)
  <2> DEFINE r == [rule EXCEPT !.next = dates.next]
  <2>1. rule.status = "active" /\ rule.next <= today /\ IsActive(b, rule.account)
    <3>1. rule.status = "active" /\ ~(rule.next > today) /\ IsActive(b, rule.account)
      BY <1>8
    <3>2. rule.next \in Nat /\ today \in Nat
      BY <1>2
    <3> HIDE DEF rule
    <3> QED BY <3>1, <3>2
  <2>2. rule.direction = "expense" => rule.amount * Len(dates.due) <= BalanceOf(b, rule.account)
    <3>1. BalanceOf(b, rule.account) \in Int /\ rule.amount \in Nat /\ Len(dates.due) \in Nat
      <4>1. dates.due \in Seq(Nat \ {0})
        BY <1>3 DEF Pending
      <4>2. rule.amount \in Amounts /\ Amounts \subseteq Nat
        BY <1>2, LedgerAssumption DEF RuleTypes
      <4>3. rule.amount \in Nat
        BY <4>2
      <4>4. Len(dates.due) \in Nat
        BY <4>1
      <4> HIDE DEF rule
      <4>5. BalanceOf(b, rule.account) \in Int
        BY <1>1, BalanceType
      <4> QED BY <4>3, <4>4, <4>5
    <3> DEFINE price == rule.amount * Len(dates.due)
    <3>2. price \in Int
      BY <3>1
    <3>3. rule.direction = "expense" => ~(price > BalanceOf(b, rule.account))
      BY <1>4, <1>8
    <3> HIDE DEF price
    <3>4. rule.direction = "expense" => price <= BalanceOf(b, rule.account)
      BY <3>1, <3>2, <3>3
    <3> QED BY <3>4 DEF price
  <2> DEFINE due == dates.due
             total == Len(due)
  <2>3. MayPost(b, i, start, due)
    BY <1>1, <1>3, <2>1, <2>2 DEF MayPost
  <2>4. /\ SameRule(r, rule) /\ r.next = dates.next /\ r.status = rule.status
        /\ r.account = rule.account /\ r \in RuleTypes
    <3> DEFINE next == dates.next
    <3>1. next \in Nat \ {0}
      BY <1>3
    <3> HIDE DEF next
    <3>2. LET s == [rule EXCEPT !.next = next] IN
          SameRule(s, rule) /\ s.next = next /\ s.status = rule.status
            /\ s.account = rule.account /\ s \in RuleTypes
      BY <1>2, <3>1 DEF RuleTypes, SameRule
    <3> QED BY <3>2 DEF next
  <2> HIDE DEF dates, start, m
  <2>5. posted \in WithRows(b) /\ PostedUpTo(posted, b, i, start, total)
    <3> HIDE DEF due
    <3>1. posted = PostOccurrences(b, b.rules[i], due)
      BY DEF due
    <3> QED BY <2>3, <3>1, PostsSound
  <2> HIDE DEF posted, r, due
  <2>6. /\ posted \in BankStates /\ posted.accounts = b.accounts /\ posted.rules = b.rules
        /\ Regular(posted) /\ AllHave(posted) /\ HasValidTransferGroups(posted)
        /\ OccursUntil(posted, rule, start + total)
        /\ \A j \in DOMAIN b.rules \ {i} :
             \A month : OccursUntil(posted, b.rules[j], month) <=> OccursUntil(b, b.rules[j], month)
    BY <2>5 DEF WithRows, PostedUpTo
  <2> DEFINE rules == [b.rules EXCEPT ![i] = r]
  <2>7. m = [posted EXCEPT !.rules = rules]
    BY <1>8, <2>6 DEF r
  <2>8. /\ rules \in Seq(RuleTypes) /\ DOMAIN rules = DOMAIN b.rules /\ rules[i] = r
        /\ \A j \in DOMAIN b.rules : j # i => rules[j] = b.rules[j]
    BY <1>1, <2>4
  <2> HIDE DEF rules
  <2>9. m.rules = rules /\ RulesOnly(m, posted)
    BY <2>6, <2>7, <2>8, RulesReplaced DEF RulesOnly
  <2> HIDE DEF rule
  <2>10. RulesKept(m, posted)
    BY <2>4, <2>6, <2>8, <2>9 DEF RulesKept, SameRule, rule
  <2>11. RulesSound(m)
    <3>1. RulesSound(b)
      BY <1>1 DEF Regular
    <3>2. [j \in DOMAIN m.rules |-> m.rules[j].id] = [j \in DOMAIN b.rules |-> b.rules[j].id]
      BY <2>4, <2>8, <2>9 DEF SameRule, rule
    <3>3. \A s : IsRuleOfItsAccount(m, s) <=> IsRuleOfItsAccount(b, s)
      BY <2>6, <2>9 DEF IsRuleOfItsAccount, IsActive, Exists, RulesOnly
    <3>4. IsRuleOfItsAccount(m, r)
      <4>1. IsRuleOfItsAccount(m, rule)
        BY <3>1, <3>3 DEF RulesSound, rule
      <4>2. r.startsOn <= r.next
        <5>1. rule.startsOn \in Nat /\ rule.next \in Nat /\ dates.next \in Nat /\ today \in Nat
          BY <1>2, <1>3
        <5> QED BY <1>2, <1>3, <2>1, <2>4, <5>1 DEF SameRule
      <4> QED BY <1>3, <2>4, <4>1, <4>2 DEF IsRuleOfItsAccount, SameRule, OnBillingDay
    <3> QED BY <2>8, <2>9, <3>1, <3>2, <3>3, <3>4 DEF RulesSound
  <2>12. Regular(m) /\ AllHave(m) /\ HasValidTransferGroups(m)
    BY <1>5, <2>6, <2>9, <2>10, <2>11, RulesRestated
  <2>13. ASSUME NEW j \in DOMAIN b.rules PROVE OccursUntil(m, rules[j], MonthOf(rules[j].next))
    <3>1. m.rows = posted.rows
      BY <2>9 DEF RulesOnly
    <3>2. CASE j = i
      <4>1. MonthOf(r.next) = start + total
        BY <1>3, <2>4 DEF due
      <4> QED BY <2>4, <2>6, <2>8, <3>1, <3>2, <4>1, OccursSame
    <3>3. CASE j # i
      <4>1. rules[j] = b.rules[j] /\ SameRule(rules[j], b.rules[j])
        BY <2>8, <3>3 DEF SameRule
      <4>2. OccursUntil(posted, b.rules[j], MonthOf(b.rules[j].next))
        BY <2>6, <3>3 DEF Sound, HasContinuousRecurringOccurrences
      <4> QED BY <3>1, <4>1, <4>2, OccursSame
    <3> QED BY <3>2, <3>3
  <2> QED BY <2>8, <2>9, <2>12, <2>13 DEF Sound, HasContinuousRecurringOccurrences
<1>9. CASE ~idle
  <2>1. CASE Len(dates.due) > MaxOccurrences \/ Len(b.rows) + Cardinality(missing) > limit
    <3>1. m = PauseRule(b, i, "capacity")
      BY <1>9, <2>1 DEF MaterializeRule
    <3> HIDE DEF m, idle
    <3> QED BY <1>7, <3>1 DEF m
  <2>2. CASE ~(Len(dates.due) > MaxOccurrences \/ Len(b.rows) + Cardinality(missing) > limit)
    <3> DEFINE short == rule.direction = "expense" /\ rule.amount * Cardinality(missing) > BalanceOf(b, rule.account)
    <3>1. m = IF short THEN PauseRule(b, i, "insufficient_funds")
              ELSE [posted EXCEPT !.rules[i].next = dates.next]
      BY <1>9, <2>2 DEF MaterializeRule
    <3>2. ~short => (rule.direction = "expense" =>
                       ~(rule.amount * Cardinality(missing) > BalanceOf(b, rule.account)))
      OBVIOUS
    <3> HIDE DEF m, idle, posted, missing, short
    <3> QED BY <1>7, <1>8, <1>9, <3>1, <3>2 DEF m
  <2> QED BY <2>1, <2>2
<1> QED BY <1>6, <1>9

\* So do those of all of them.
LEMMA MaterializeRulesSound ==
  ASSUME NEW b, Sound(b), today \in Nat \ {0}, NEW limit \in Nat
  PROVE  /\ Sound(MaterializeRules(b, limit))
         /\ Len(b.rows) <= limit => Len(MaterializeRules(b, limit).rows) <= limit
<1> DEFINE k == Len(b.rules)
<1>1. Kept(b) /\ b \in BankStates /\ b.rules \in Seq(RuleTypes) /\ k \in Nat /\ DOMAIN b.rules = 1..k
  BY DEF Sound, Regular, Good, Kept, BankStates
<1>2. PICK g : Turns(g, b, limit)
  BY <1>1, TurnsRun
<1> HIDE DEF k
<1>3. /\ g \in [0..k -> Onward(b, limit)] /\ g[0] = b /\ MaterializeRules(b, limit) = g[k]
      /\ \A n \in 1..k : g[n] = MaterializeRule(g[n - 1], n, limit)
  BY <1>2 DEF Turns, k
<1> DEFINE S == {n \in Nat : n <= k => Sound(g[n])}
<1>4. 0 \in S
  BY <1>3
<1>5. ASSUME NEW n \in Nat, n \in S PROVE n + 1 \in S
  <2> SUFFICES ASSUME n + 1 <= k PROVE Sound(g[n + 1])
    OBVIOUS
  <2> DEFINE c == g[n]
             i == n + 1
  <2>1. n \in 0..k /\ i \in 1..k /\ i - 1 = n /\ n <= k
    BY <1>1
  <2>2. Sound(c)
    BY <1>5, <2>1
  <2>3. i \in DOMAIN c.rules
    <3>1. c \in Onward(b, limit)
      BY <1>3, <2>1
    <3> HIDE DEF c
    <3>2. c.rules \in Seq(RuleTypes) /\ Len(c.rules) = k
      BY <3>1 DEF Onward, BankStates, k
    <3> QED BY <2>1, <3>2
  <2>4. g[i] = MaterializeRule(c, i, limit)
    BY <1>3, <2>1
  <2> HIDE DEF c, i
  <2>5. Sound(g[i])
    BY <2>2, <2>3, <2>4, MaterializeRuleSound
  <2> QED BY <2>5 DEF i
<1>6. Sound(g[k])
  <2>1. S \subseteq Nat
    OBVIOUS
  <2>2. k \in S
    <3> HIDE DEF S
    <3> QED BY <1>1, <1>4, <1>5, <2>1, Induction
  <2> QED BY <1>1, <2>2
<1>7. g[k] \in Onward(b, limit)
  <2>1. k \in 0..k
    BY <1>1
  <2> QED BY <1>3, <2>1
<1> QED BY <1>3, <1>6, <1>7 DEF Onward

\* Rows are counted.
LEMMA RowsCounted ==
  ASSUME NEW b, Sound(b)
  PROVE  Len(b.rows) \in Nat /\ MaxTransactions \in Nat
<1>1. b.rows \in Seq(RowTypes)
  BY DEF Sound, Regular, Good, Kept, BankStates
<1> QED BY <1>1, LedgerAssumption

\* Settling all that fits leaves a state that can be read again, and one at the limit as
\* it is.
LEMMA SettledAllParsed ==
  ASSUME NEW b, Parsed(b), today \in Nat \ {0}
  PROVE  LET settlement == SettleAllWithinLimit(b) IN
         /\ Parsed(settlement.state)
         /\ settlement.capacityReached => settlement.state = b
<1> DEFINE settled == SettleAccount(b, Savings)
<1>1. Sound(settled)
  <2>1. Savings \in Accounts
    BY DEF Accounts
  <2> QED BY <2>1, SettleSound DEF Parsed
<1>2. SettleAllWithinLimit(b).state = (IF Fits(settled) THEN settled ELSE b)
      /\ SettleAllWithinLimit(b).capacityReached = ~Fits(settled)
  BY DEF SettleAllWithinLimit
<1> HIDE DEF settled
<1> QED BY <1>1, <1>2 DEF Parsed

\* So does a whole materialisation.
LEMMA MaterializedParsed ==
  ASSUME NEW b, Parsed(b), today \in Nat \ {0}
  PROVE  Parsed(Materialized(b))
<1> DEFINE s == SettleAllWithinLimit(b).state
           reached == SettleAllWithinLimit(b).capacityReached
           limit == IF reached THEN Len(b.rows) ELSE MaxTransactions
<1>1. Parsed(s) /\ (reached => s = b)
  BY SettledAllParsed
<1>2. Len(b.rows) \in Nat /\ MaxTransactions \in Nat /\ Len(s.rows) \in Nat
  BY <1>1, RowsCounted DEF Parsed
<1>3. Materialized(b) = MaterializeRules(s, limit)
  BY DEF Materialized
<1> HIDE DEF s, reached
<1>4. limit \in Nat /\ limit <= MaxTransactions /\ Len(s.rows) <= limit
  BY <1>1, <1>2 DEF Parsed, Fits
<1> HIDE DEF limit
<1> DEFINE m == MaterializeRules(s, limit)
<1>5. Sound(m) /\ Len(m.rows) <= limit
  BY <1>1, <1>4, MaterializeRulesSound DEF Parsed
<1> HIDE DEF m
<1>6. Len(m.rows) \in Nat
  BY <1>5, RowsCounted
<1>7. Fits(m)
  BY <1>2, <1>4, <1>5, <1>6 DEF Fits
<1> QED BY <1>3, <1>5, <1>7 DEF Parsed, m

-----------------------------------------------------------------------------
(* What each command leaves can be read again.                             *)

\* A row of no rule is booked on an active account.
LEMMA PostSound ==
  ASSUME NEW b, Sound(b), today \in Nat \ {0}, NEW account \in Accounts, NEW amount \in Int,
         NEW kind \in {"manual", "adjustment", "contact"},
         IsActive(b, account), SettledUpTo(b, account), amount # 0,
         kind = "manual" => account \in Checking, BalanceOf(b, account) + amount >= 0
  PROVE  LET c == Post(b, account, amount, kind) IN
         Sound(c) /\ Len(c.rows) = Len(b.rows) + 1 /\ c.recent = b.recent
<1> DEFINE c == Post(b, account, amount, kind)
<1>1. Good(b) /\ Kept(b) /\ b \in BankStates
  BY DEF Sound, Regular, Good, Kept
<1>2. kind \in Kinds /\ NoRule \in RuleIds \cup {NoRule}
  BY DEF Kinds
<1>3. c = AppendRow(b, account, amount, kind, NoRule, today)
  BY DEF Post
<1>4. Good(c)
  <2>1. Booked(c, b)
    BY <1>1, <1>2, PostKept
  <2> HIDE DEF c
  <2> QED BY <1>1, <2>1, BookedGood
<1>5. PICK row : NewRow(b, row, account, amount, kind, NoRule, today)
  BY <1>1, <1>2, AppendRowIs
<1> HIDE DEF c
<1>6. /\ Appended(c, b, row) /\ row.account = account /\ row.amount = amount /\ row.kind = kind
      /\ row.rule = NoRule /\ row.date = today
  BY <1>3, <1>5 DEF NewRow
<1>7. Bookable(b, row)
  BY <1>2, <1>6 DEF Bookable, IsTransaction, BelongsToItsRule, Appended
<1>8. Sound(c)
  <2>1. row.kind \notin {"out", "in"}
    BY <1>6
  <2> QED BY <1>4, <1>6, <1>7, <2>1, AppendedSound
<1>9. Len(c.rows) = Len(b.rows) + 1 /\ c.recent = b.recent
  BY <1>6, AppendedRows DEF Appended
<1> QED BY <1>8, <1>9 DEF c

\* A state with a row more than one that is not at the limit fits.
LEMMA OneMoreFits ==
  ASSUME NEW b, Sound(b), NEW c, Len(c.rows) = Len(b.rows) + 1, Len(b.rows) < MaxTransactions
  PROVE  Fits(c)
BY RowsCounted DEF Fits

\* RecordTransaction.
LEMMA RecordParsed ==
  ASSUME NEW b, Parsed(b), today \in Nat \ {0}, NEW account \in Checking,
         NEW amount \in Int, amount # 0, RecordTransaction(b, account, amount)
  PROVE  Parsed(bank')
<1>1. account \in Accounts /\ SettledUpTo(b, account)
  BY LedgerAssumption DEF Accounts, SettledUpTo
<1>2. /\ IsActive(b, account) /\ Len(b.rows) < MaxTransactions
      /\ BalanceOf(b, account) + amount >= 0 /\ bank' = Post(b, account, amount, "manual")
  BY DEF RecordTransaction, Commit
<1>3. Sound(b)
  BY DEF Parsed
<1> DEFINE c == Post(b, account, amount, "manual")
<1>4. Sound(c) /\ Len(c.rows) = Len(b.rows) + 1
  BY <1>1, <1>2, <1>3, PostSound
<1> HIDE DEF c
<1>5. Fits(c)
  BY <1>2, <1>3, <1>4, OneMoreFits
<1> QED BY <1>2, <1>4, <1>5 DEF Parsed, c

\* PauseRecurring.
LEMMA PauseParsed ==
  ASSUME NEW b, Parsed(b), NEW id, PauseRecurring(b, id)
  PROVE  Parsed(bank')
<1>1. PICK i \in DOMAIN b.rules : bank' = [b EXCEPT !.rules[i].status = "manual"]
  BY DEF PauseRecurring, Commit, PauseRule
<1> DEFINE c == [b EXCEPT !.rules[i].status = "manual"]
<1>2. Sound(c)
  BY StatusSound DEF Parsed
<1>3. c.rows = b.rows
  BY DEF Parsed, Sound, Regular, Good, Kept, BankStates
<1> HIDE DEF c
<1>4. Parsed(c)
  BY <1>2, <1>3 DEF Parsed, Fits
<1> QED BY <1>1, <1>4 DEF c

\* ResumeRecurring.
LEMMA ResumeParsed ==
  ASSUME NEW b, Parsed(b), today \in Nat \ {0}, NEW id, ResumeRecurring(b, id)
  PROVE  Parsed(bank')
<1>1. PICK i \in DOMAIN b.rules :
        /\ IsActive(b, b.rules[i].account)
        /\ bank' = MaterializeRules([b EXCEPT !.rules[i].status = "active"], MaxTransactions)
  BY DEF ResumeRecurring, Commit
<1> DEFINE c == [b EXCEPT !.rules[i].status = "active"]
           m == MaterializeRules(c, MaxTransactions)
<1>2. Sound(c)
  BY <1>1, StatusSound DEF Parsed
<1>3. c.rows = b.rows
  BY DEF Parsed, Sound, Regular, Good, Kept, BankStates
<1> HIDE DEF c
<1>4. MaxTransactions \in Nat /\ Len(c.rows) <= MaxTransactions
  BY <1>3, LedgerAssumption DEF Parsed, Fits
<1>5. Sound(m) /\ Len(m.rows) <= MaxTransactions
  BY <1>2, <1>4, MaterializeRulesSound
<1> HIDE DEF m
<1> QED BY <1>1, <1>5 DEF Parsed, Fits, m, c

\* A state with one more rule than another, the k-th.
WithRule(d, b, rule, k) ==
  d = [b EXCEPT !.rules = Append(@, rule)] /\ k = Len(b.rules) + 1

\* What a rule that is created adds to the rules: it is in order with them.
LEMMA RuleAdded ==
  ASSUME NEW b, Sound(b), today \in Nat \ {0}, NEW rule \in RuleTypes,
         \A i \in DOMAIN b.rules : b.rules[i].id # rule.id,
         IsRuleOfItsAccount(b, rule), rule.status = "active",
         NEW d, NEW k, WithRule(d, b, rule, k)
  PROVE  /\ Regular(d) /\ AllHave(d) /\ HasValidTransferGroups(d) /\ RulesOnly(d, b)
         /\ k \in DOMAIN d.rules /\ d.rules[k] = rule
         /\ \A i \in DOMAIN d.rules : i = k \/ (i \in DOMAIN b.rules /\ d.rules[i] = b.rules[i])
<1> DEFINE rules == Append(b.rules, rule)
<1>1. b \in BankStates /\ b.rules \in Seq(RuleTypes) /\ Good(b) /\ Regular(b) /\ RulesSound(b)
  BY DEF Sound, Regular, Good, Kept, BankStates
<1>2. /\ rules \in Seq(RuleTypes) /\ Len(b.rules) \in Nat /\ k = Len(b.rules) + 1
      /\ DOMAIN b.rules = 1..Len(b.rules) /\ DOMAIN rules = 1..k /\ k \in 1..k
      /\ rules[k] = rule /\ \A i \in DOMAIN b.rules : rules[i] = b.rules[i] /\ i # k
      /\ \A i \in DOMAIN rules : i = k \/ i \in DOMAIN b.rules
  BY <1>1 DEF WithRule
<1>3. d = [b EXCEPT !.rules = rules]
  BY DEF WithRule
<1> HIDE DEF rules
<1>4. d \in BankStates /\ d.rules = rules /\ RulesOnly(d, b)
  <2>1. d \in BankStates /\ d.rules = rules /\ d.accounts = b.accounts /\ d.rows = b.rows
        /\ d.cards = b.cards /\ d.recent = b.recent
    BY <1>1, <1>2, <1>3, RulesReplaced
  <2> QED BY <2>1 DEF RulesOnly
<1>5. Good(d)
  <2>1. IsActive(b, rule.account)
    BY DEF IsRuleOfItsAccount
  <2> QED BY <1>1, <1>2, <1>4, <2>1 DEF Good, Kept, RulesFollow, IsActive, RulesOnly
<1>6. RulesKept(d, b)
  BY <1>2, <1>4 DEF RulesKept, SameRule
<1>7. RulesSound(d)
  <2>1. \A i \in DOMAIN d.rules : IsRuleOfItsAccount(d, d.rules[i])
    <3>1. \A r : IsRuleOfItsAccount(b, r) => IsRuleOfItsAccount(d, r)
      BY <1>4 DEF IsRuleOfItsAccount, IsActive, Exists, RulesOnly
    <3> QED BY <1>1, <1>2, <1>4, <3>1 DEF RulesSound
  <2>2. \A i, j \in DOMAIN d.rules : d.rules[i].id = d.rules[j].id => i = j
    <3>1. \A i, j \in DOMAIN b.rules : b.rules[i].id = b.rules[j].id => i = j
      BY <1>1 DEF RulesSound, IsInjective
    <3> QED BY <1>2, <1>4, <3>1
  <2> QED BY <2>1, <2>2 DEF RulesSound, IsInjective
<1>8. Regular(d) /\ AllHave(d) /\ HasValidTransferGroups(d)
  BY <1>1, <1>4, <1>5, <1>6, <1>7, RulesRestated DEF Sound
<1> QED BY <1>2, <1>4, <1>8

\* A rule that starts in this month or before, and its next occurrence.
LEMMA RuleCreated ==
  ASSUME NEW b, Sound(b), today \in Nat \ {0}, NEW rule \in RuleTypes,
         NEW month \in Nat \ {0}, NEW n \in Nat,
         rule.startsOn = MonthOccurrence(month, rule.anchorDay),
         rule.startsOn <= today \/ month = MonthOf(today),
         OnBillingDay(rule.next, rule.anchorDay), MonthOf(rule.next) = month + n,
         IsActive(b, rule.account), rule.status = "active"
  PROVE  IsRuleOfItsAccount(b, rule)
<1> DEFINE first == rule.startsOn
           next == rule.next
<1>1. /\ first \in Nat \ {0} /\ next \in Nat \ {0} /\ rule.anchorDay \in Nat \ {0}
      /\ rule.account \in Checking
  BY LedgerAssumption DEF RuleTypes
<1>2. MonthOf(first) = month
  BY <1>1, OccurrenceInMonth
<1> HIDE DEF first, next
<1>3. first <= next
  <2>1. CASE n = 0
    <3>1. next = MonthOccurrence(month, rule.anchorDay)
      BY <2>1 DEF OnBillingDay, next
    <3> QED BY <1>1, <3>1 DEF first
  <2>2. CASE n # 0
    <3>1. ~(MonthOf(next) <= MonthOf(first))
      BY <1>2, <2>2 DEF next
    <3>2. ~(next <= first)
      BY <1>1, <3>1, MonthsInOrder
    <3> QED BY <1>1, <3>2
  <2> QED BY <2>1, <2>2
<1>4. MonthOf(first) <= MonthOf(today)
  <2>1. CASE first <= today
    BY <1>1, <2>1, MonthsInOrder
  <2>2. CASE month = MonthOf(today)
    BY <1>2, <2>2
  <2> QED BY <2>1, <2>2 DEF first
<1>5. OnBillingDay(first, rule.anchorDay)
  BY <1>2 DEF OnBillingDay, first
<1> QED BY <1>1, <1>3, <1>4, <1>5 DEF IsRuleOfItsAccount, OnBillingDay, first, next, IsActive, Exists

\* A rule of a new ID has no row yet.
LEMMA NoneYet ==
  ASSUME NEW b, Sound(b), NEW d, d.rows = b.rows, NEW rule \in RuleTypes,
         \A i \in DOMAIN b.rules : b.rules[i].id # rule.id, NEW month,
         month = MonthOf(rule.startsOn), month \in Nat
  PROVE  OccursUntil(d, rule, month)
<1> DEFINE own == {j \in DOMAIN d.rows : d.rows[j].rule = rule.id}
           months == MonthOf(rule.startsOn)..month - 1
<1>1. own = {}
  <2> SUFFICES ASSUME NEW j \in DOMAIN b.rows, b.rows[j].rule = rule.id PROVE FALSE
    OBVIOUS
  <2>1. rule.id # NoRule
    BY LedgerAssumption DEF RuleTypes
  <2>2. BelongsToItsRule(b, b.rows[j])
    BY DEF Sound, Regular, RowsSound
  <2> QED BY <2>1, <2>2 DEF BelongsToItsRule
<1>2. months = {}
  BY SMT
<1> HIDE DEF own, months
<1>3. OccursUntil(d, rule, month) <=>
        /\ {d.rows[j].date : j \in own} = {MonthOccurrence(m, rule.anchorDay) : m \in months}
        /\ Cardinality(own) = Cardinality(months)
  BY DEF OccursUntil, own, months
<1> QED BY <1>1, <1>2, <1>3

\* CreateRecurring.
LEMMA CreateParsed ==
  ASSUME NEW b, Parsed(b), today \in Nat \ {0}, NEW c,
         c.rule \in RuleIds, c.account \in Checking, c.direction \in Directions,
         c.amount \in Amounts, c.month \in Nat \ {0}, c.anchorDay \in AnchorDays,
         CreateRecurring(b, c)
  PROVE  Parsed(bank')
<1> DEFINE first == MonthOccurrence(c.month, c.anchorDay)
           dates == OccurrenceDates(first, c.anchorDay)
           n == Len(dates.due)
           rule == [id |-> c.rule, account |-> c.account, direction |-> c.direction,
                    amount |-> c.amount, anchorDay |-> c.anchorDay, startsOn |-> first,
                    next |-> dates.next, status |-> "active"]
           d == [b EXCEPT !.rules = Append(@, rule)]
           k == Len(b.rules) + 1
           posted == PostOccurrences(d, rule, dates.due)
<1>1. /\ bank' = posted /\ IsActive(b, c.account) /\ \A i \in DOMAIN b.rules : b.rules[i].id # c.rule
      /\ first <= today \/ c.month = MonthOf(today)
      /\ Len(b.rows) + n <= MaxTransactions
      /\ c.direction = "expense" => c.amount * n <= BalanceOf(b, c.account)
  BY DEF CreateRecurring, Commit
<1>2. Sound(b) /\ c.anchorDay \in Nat \ {0}
  <2>1. AnchorDays \subseteq Nat \ {0}
    BY LedgerAssumption
  <2> QED BY <2>1 DEF Parsed
<1>3. first \in Nat \ {0} /\ MonthOf(first) = c.month /\ OnBillingDay(first, c.anchorDay)
  <2>1. first \in Nat \ {0} /\ MonthOf(first) = c.month
    BY <1>2, OccurrenceInMonth
  <2> QED BY <2>1 DEF OnBillingDay
<1>4. dates.next \in Nat \ {0}
  BY <1>2, <1>3, DatesFacts
<1>5. /\ rule \in RuleTypes /\ rule.id = c.rule /\ rule.account = c.account
      /\ rule.direction = c.direction /\ rule.amount = c.amount /\ rule.anchorDay = c.anchorDay
      /\ rule.startsOn = first /\ rule.next = dates.next /\ rule.status = "active"
  <2> HIDE DEF dates, first
  <2> QED BY <1>3, <1>4 DEF RuleTypes, Directions
<1> HIDE DEF rule
<1>6. d.rows = b.rows
  BY DEF Parsed, Sound, Regular, Good, Kept, BankStates
<1> HIDE DEF d
<1>7. OccursUntil(d, rule, c.month)
  BY <1>1, <1>2, <1>3, <1>5, <1>6, NoneYet
<1>8. /\ Pending(d, rule, c.month, dates.due) /\ OnBillingDay(dates.next, c.anchorDay)
      /\ MonthOf(dates.next) = c.month + n
  <2>1. OnBillingDay(first, rule.anchorDay) /\ MonthOf(rule.startsOn) <= MonthOf(first)
        /\ OccursUntil(d, rule, MonthOf(first))
    BY <1>3, <1>5, <1>7
  <2> HIDE DEF first
  <2> QED BY <1>3, <1>5, <2>1, DuePending
<1>9. n \in Nat
  BY <1>8 DEF Pending
<1> HIDE DEF dates, n, first
<1>10. IsRuleOfItsAccount(b, rule)
  BY <1>1, <1>2, <1>3, <1>5, <1>8, <1>9, RuleCreated DEF first
<1>11. /\ Regular(d) /\ AllHave(d) /\ HasValidTransferGroups(d) /\ RulesOnly(d, b)
       /\ k \in DOMAIN d.rules /\ d.rules[k] = rule
       /\ \A i \in DOMAIN d.rules : i = k \/ (i \in DOMAIN b.rules /\ d.rules[i] = b.rules[i])
  <2>1. WithRule(d, b, rule, k)
    BY DEF WithRule, d
  <2> HIDE DEF k
  <2> QED BY <1>1, <1>2, <1>5, <1>10, <2>1, RuleAdded
<1> HIDE DEF k
<1>12. MayPost(d, k, c.month, dates.due)
  <2>1. BalanceOf(d, c.account) = BalanceOf(b, c.account)
    BY <1>6 DEF BalanceOf, LastBalance
  <2>2. IsActive(d, c.account)
    BY <1>1, <1>11 DEF RulesOnly, IsActive
  <2> QED BY <1>1, <1>5, <1>8, <1>11, <2>1, <2>2 DEF MayPost, n
<1>13. posted \in WithRows(d) /\ PostedUpTo(posted, d, k, c.month, n)
  BY <1>11, <1>12, PostsSound DEF n
<1> HIDE DEF posted
<1>14. /\ posted.rules = d.rules /\ Regular(posted) /\ AllHave(posted)
       /\ HasValidTransferGroups(posted) /\ Len(posted.rows) = Len(b.rows) + n
       /\ OccursUntil(posted, rule, c.month + n)
       /\ \A i \in DOMAIN d.rules \ {k} :
            \A m : OccursUntil(posted, d.rules[i], m) <=> OccursUntil(d, d.rules[i], m)
  BY <1>6, <1>11, <1>13 DEF PostedUpTo
<1>15. HasContinuousRecurringOccurrences(posted)
  <2> SUFFICES ASSUME NEW i \in DOMAIN d.rules
               PROVE  OccursUntil(posted, d.rules[i], MonthOf(d.rules[i].next))
    BY <1>14 DEF HasContinuousRecurringOccurrences
  <2>1. CASE i = k
    BY <1>5, <1>8, <1>11, <1>14, <2>1
  <2>2. CASE i # k
    <3>1. i \in DOMAIN b.rules /\ d.rules[i] = b.rules[i]
      BY <1>11, <2>2
    <3>2. OccursUntil(b, b.rules[i], MonthOf(b.rules[i].next))
      BY <1>2, <3>1 DEF Sound, HasContinuousRecurringOccurrences
    <3>3. OccursUntil(d, d.rules[i], MonthOf(d.rules[i].next))
      BY <1>6, <3>1, <3>2 DEF OccursUntil
    <3> QED BY <1>14, <2>2, <3>3
  <2> QED BY <2>1, <2>2
<1> QED BY <1>1, <1>14, <1>15 DEF Parsed, Sound, Fits

\* AddAccount.
LEMMA AddParsed ==
  ASSUME NEW b, Parsed(b), today \in Nat \ {0}, NEW account \in Custom, AddAccount(b, account)
  PROVE  Parsed(bank')
<1> DEFINE acc == [b.accounts[account] EXCEPT !.status = "active"]
           c == [b EXCEPT !.accounts[account].status = "active"]
           d == Post(c, account, 0, "seed")
<1>1. bank' = d /\ ~Exists(b, account) /\ ~CurrencyTaken(b, account) /\ Len(b.rows) < MaxTransactions
  BY DEF AddAccount, Commit
<1>2. account \in Accounts /\ account # Savings /\ account \in Checking
  BY LedgerAssumption DEF Accounts
<1>3. /\ Sound(b) /\ Regular(b) /\ Good(b) /\ Kept(b) /\ b \in BankStates
      /\ b.accounts \in [Accounts -> AccountTypes]
  BY DEF Parsed, Sound, Regular, Good, Kept, BankStates
<1>4. b.accounts[account].anchor = 0 /\ b.accounts[account].closedAt = 0
  BY <1>1, <1>2, <1>3 DEF Regular, AccountsSound
<1>5. acc \in AccountTypes /\ acc.status = "active" /\ acc.anchor = 0 /\ acc.closedAt = 0
  BY <1>2, <1>3, <1>4 DEF AccountTypes
<1>6. c = [b EXCEPT !.accounts = [@ EXCEPT ![account] = acc]]
  OBVIOUS
<1> HIDE DEF acc, c
<1>7. /\ Kept(c) /\ c.rules = b.rules /\ c.rows = b.rows
      /\ c.accounts = [b.accounts EXCEPT ![account] = acc]
      /\ c.cards = b.cards /\ c.recent = b.recent
  BY <1>2, <1>3, <1>5, <1>6, AccountChanged
<1>8. \A a \in Accounts : c.accounts[a] = IF a = account THEN acc ELSE b.accounts[a]
  BY <1>3, <1>7
<1>9. \A a \in Accounts : /\ IsActive(c, a) <=> a = account \/ IsActive(b, a)
                          /\ Exists(c, a) <=> a = account \/ Exists(b, a)
  BY <1>5, <1>8 DEF IsActive, Exists
<1>10. Good(c)
  BY <1>3, <1>7, <1>9, FollowsOn
<1>11. AccountsSound(c)
  <2>1. \A a \in Accounts : CreatedOn(c, a) = CreatedOn(b, a)
    BY <1>7 DEF CreatedOn
  <2>2. IsAccount(c, account)
    BY <1>2, <1>5, <1>8 DEF IsAccount
  <2>3. \A a \in Accounts : a # account =>
          IF Exists(c, a) THEN IsAccount(c, a)
          ELSE a \in Custom /\ c.accounts[a].anchor = 0 /\ c.accounts[a].closedAt = 0
    BY <1>3, <1>8, <1>9, <2>1 DEF Regular, AccountsSound, IsAccount
  <2> QED BY <1>9, <2>2, <2>3 DEF AccountsSound
<1>12. ActiveSound(c)
  <2>1. \E a \in Accounts : IsActive(c, a)
    BY <1>2, <1>9
  <2>2. \A a \in Checking \ {account} : IsActive(b, a) => Currency(a) # Currency(account)
    BY <1>1 DEF CurrencyTaken
  <2>3. HasUniqueActiveCheckingCurrencies(b) /\ Checking \subseteq Accounts
    BY <1>3 DEF Regular, ActiveSound, Accounts
  <2> QED BY <1>9, <2>1, <2>2, <2>3 DEF ActiveSound, HasUniqueActiveCheckingCurrencies
<1>13. RulesSound(c) /\ RulesKept(c, b)
  <2>1. ASSUME NEW i \in DOMAIN b.rules PROVE IsRuleOfItsAccount(c, b.rules[i])
    <3> DEFINE rule == b.rules[i]
    <3>1. rule.account \in Accounts /\ IsRuleOfItsAccount(b, rule)
      BY <1>3, RulesAre DEF Regular, RulesSound
    <3> HIDE DEF rule
    <3>2. Exists(b, rule.account) /\ rule.account # account
      BY <1>1, <3>1 DEF IsRuleOfItsAccount
    <3>3. IsRuleOfItsAccount(c, rule)
      BY <1>9, <3>1, <3>2 DEF IsRuleOfItsAccount
    <3> QED BY <3>3 DEF rule
  <2> QED BY <1>3, <1>7, <2>1 DEF Regular, RulesSound, RulesKept, SameRule
<1>14. CardsSound(c) /\ RecentSound(c)
  <2>1. Main # account /\ Main \in Accounts
    BY LedgerAssumption DEF Accounts
  <2> QED BY <1>3, <1>7, <1>9, <2>1 DEF Regular, CardsSound, RecentSound, IsCardOfItsAccount
<1>15. Regular(c) /\ HasValidTransferGroups(c)
  <2>1. \A a \in Accounts : c.accounts[a].status = "closed" => c.accounts[a] = b.accounts[a]
    BY <1>5, <1>8
  <2>2. \A a \in Accounts : Exists(b, a) => Exists(c, a)
    BY <1>9
  <2> QED BY <1>3, <1>7, <1>10, <1>11, <1>12, <1>13, <1>14, <2>1, <2>2, RestatedRegular DEF Sound
<1>16. SettledUpTo(c, account) /\ "seed" \in Kinds /\ c \in BankStates /\ NoRule \in RuleIds \cup {NoRule}
  BY <1>2, <1>7 DEF SettledUpTo, Kinds, Kept
<1>17. Good(d)
  <2>1. Booked(d, c)
    BY <1>2, <1>7, <1>16, PostKept
  <2> HIDE DEF d
  <2> QED BY <1>10, <2>1, BookedGood
<1>18. PICK row : NewRow(c, row, account, 0, "seed", NoRule, today)
  BY <1>2, <1>16, AppendRowIs
<1>19. /\ Appended(d, c, row) /\ row.account = account /\ row.amount = 0 /\ row.kind = "seed"
       /\ row.rule = NoRule
  BY <1>18 DEF NewRow, Post
<1> HIDE DEF d
<1>20. Bookable(c, row)
  <2>1. row.balance >= 0
    <3>1. BalanceOf(c, account) \in Nat
      BY <1>15, BalanceNatural
    <3> QED BY <1>19, <3>1 DEF Appended
  <2> QED BY <1>2, <1>9, <1>19, <2>1, <1>16 DEF Bookable, IsTransaction, BelongsToItsRule
<1>21. Regular(d) /\ AllHave(d)
  <2>1. \A a \in Accounts : Exists(c, a) =>
          Has(c, a) \/ (a = row.account /\ c.accounts[a].anchor = 0 /\ c.accounts[a].closedAt = 0)
    <3>1. \A a \in Accounts : Exists(b, a) => Has(c, a)
      BY <1>3, <1>7 DEF Sound, AllHave, Has
    <3> QED BY <1>5, <1>8, <1>9, <1>19, <3>1
  <2> QED BY <1>15, <1>17, <1>19, <1>20, <2>1, AppendedRegular
<1>22. HasValidTransferGroups(d)
  BY <1>15, <1>19, AppendedNoLeg
<1>23. HasContinuousRecurringOccurrences(d)
  <2> SUFFICES ASSUME NEW i \in DOMAIN b.rules
               PROVE  OccursUntil(d, b.rules[i], MonthOf(b.rules[i].next))
    BY <1>7, <1>19 DEF HasContinuousRecurringOccurrences, Appended
  <2> DEFINE rule == b.rules[i]
             month == MonthOf(rule.next)
  <2>1. rule \in RuleTypes /\ OccursUntil(b, rule, month)
    BY <1>3, RulesAre DEF Sound, HasContinuousRecurringOccurrences
  <2> HIDE DEF rule, month
  <2>2. OccursUntil(c, rule, month)
    <3>1. SameRule(rule, rule) /\ c.rows = b.rows
      BY <1>7 DEF SameRule
    <3> QED BY <2>1, <3>1, OccursSame
  <2>3. rule.id # row.rule
    BY <1>19, <2>1, LedgerAssumption DEF RuleTypes
  <2>4. OccursUntil(d, rule, month)
    BY <1>19, <2>2, <2>3, AppendedOther
  <2> QED BY <2>4 DEF rule, month
<1>24. Fits(d)
  <2>1. Len(d.rows) = Len(b.rows) + 1
    BY <1>7, <1>19, AppendedRows
  <2> QED BY <1>1, <1>3, <2>1, OneMoreFits
<1> QED BY <1>1, <1>21, <1>22, <1>23, <1>24 DEF Parsed, Sound

\* AdjustBalance.
LEMMA AdjustParsed ==
  ASSUME NEW b, Parsed(b), today \in Nat \ {0}, NEW account \in Accounts, NEW target \in Nat,
         AdjustBalance(b, account, target)
  PROVE  Parsed(bank')
<1> DEFINE s == SettleAccount(b, account)
           current == BalanceOf(s, account)
           amount == target - current
           c == Post(s, account, amount, "adjustment")
<1>1. /\ IsActive(b, account)
      /\ \/ target = current /\ Fits(s) /\ bank' = s
         \/ target # current /\ Len(s.rows) < MaxTransactions /\ bank' = c
  BY DEF AdjustBalance, Commit
<1>2. Sound(s)
  BY SettleSound DEF Parsed
<1>3. SettledUpTo(s, account) /\ IsActive(s, account)
  BY <1>1, SettledGood DEF Parsed, Sound, Regular
<1> HIDE DEF s
<1>4. current \in Nat
  BY <1>2, BalanceNatural DEF Sound
<1>5. CASE target = current
  BY <1>1, <1>2, <1>5 DEF Parsed
<1>6. CASE target # current
  <2>1. /\ amount \in Int /\ amount # 0 /\ current + amount >= 0
        /\ "adjustment" \in {"manual", "adjustment", "contact"}
    BY <1>4, <1>6
  <2> HIDE DEF amount
  <2>2. Sound(c) /\ Len(c.rows) = Len(s.rows) + 1
    BY <1>2, <1>3, <2>1, PostSound
  <2> HIDE DEF c
  <2> QED BY <1>1, <1>2, <1>6, <2>2, OneMoreFits DEF Parsed
<1> QED BY <1>5, <1>6

\* CloseAccount.
LEMMA CloseParsed ==
  ASSUME NEW b, Parsed(b), today \in Nat \ {0}, NEW account \in Accounts,
         CloseAccount(b, account)
  PROVE  Parsed(bank')
<1> DEFINE s == SettleAccount(b, account)
           acc == [status |-> "closed", anchor |-> AnchorToday(account), closedAt |-> today]
           c == Closed(s, account)
<1>1. /\ bank' = c /\ IsActive(b, account) /\ BalanceOf(s, account) = 0
      /\ \E other \in Accounts \ {account} : IsActive(b, other)
  BY DEF CloseAccount, Commit
<1>2. Sound(b) /\ Sound(s) /\ SettledRowsOf(s, b, account)
  BY SettleSound DEF Parsed
<1>3. Good(c)
  BY <1>1, CloseGood DEF Parsed, Sound, Regular
<1> HIDE DEF s
<1>4. s \in BankStates /\ s.rules \in Seq(RuleTypes) /\ Regular(s)
      /\ s.accounts \in [Accounts -> AccountTypes]
  BY <1>2 DEF Sound, Regular, Good, Kept, BankStates
<1>5. /\ c.accounts = [s.accounts EXCEPT ![account] = acc]
      /\ c.rows = s.rows /\ c.recent = s.recent
      /\ c.cards = [x \in Cards |-> IF account = Main /\ s.cards[x] = "active"
                                    THEN "account_closed" ELSE s.cards[x]]
      /\ c.rules = [i \in DOMAIN s.rules |->
                      IF s.rules[i].account = account /\ s.rules[i].status = "active"
                      THEN [s.rules[i] EXCEPT !.status = "account_closed"] ELSE s.rules[i]]
  BY <1>4 DEF Closed, BankStates
<1> HIDE DEF c
<1>6. acc.status = "closed" /\ acc.closedAt = today /\ acc.anchor = AnchorToday(account)
      /\ acc \in AccountTypes
  BY AnchorTodayIs DEF AccountTypes
<1> HIDE DEF acc
<1>7. MayBecome(s, account, acc)
  BY <1>1, <1>2, <1>6 DEF MayBecome, SettledRowsOf, IsActive, Exists
<1>8. \A a \in Accounts : IsActive(c, a) <=> a # account /\ IsActive(s, a)
  BY <1>4, <1>5, <1>6 DEF IsActive
<1>9. RulesPaused(c, s)
  <2>1. DOMAIN c.rules = DOMAIN s.rules
    BY <1>5
  <2>2. ASSUME NEW i \in DOMAIN s.rules
        PROVE  /\ SameRule(c.rules[i], s.rules[i]) /\ c.rules[i].next = s.rules[i].next
               /\ c.rules[i].status = "account_closed" => ~IsActive(c, c.rules[i].account)
    <3> DEFINE rule == s.rules[i]
               r == c.rules[i]
    <3>1. rule \in RuleTypes /\ rule.account \in Accounts /\ IsRuleOfItsAccount(s, rule)
      BY <1>4, RulesAre DEF Regular, RulesSound
    <3>2. r = IF rule.account = account /\ rule.status = "active"
              THEN [rule EXCEPT !.status = "account_closed"] ELSE rule
      BY <1>5
    <3> HIDE DEF rule, r
    <3>3. SameRule(r, rule) /\ r.next = rule.next
      BY <3>1, <3>2 DEF SameRule, RuleTypes
    <3>4. r.status = "account_closed" => ~IsActive(c, rule.account)
      <4>1. rule.status = "account_closed" => ~IsActive(s, rule.account)
        BY <3>1 DEF IsRuleOfItsAccount
      <4> QED BY <1>8, <3>1, <3>2, <4>1
    <3>5. r.account = rule.account
      BY <3>3 DEF SameRule
    <3> QED BY <3>3, <3>4, <3>5 DEF rule, r
  <2> QED BY <2>1, <2>2 DEF RulesPaused
<1>10. CardsSound(c)
  <2>1. Main \in Accounts
    BY LedgerAssumption DEF Accounts
  <2> QED BY <1>4, <1>5, <1>8, <2>1 DEF Regular, CardsSound, IsCardOfItsAccount
<1>11. Sound(c)
  BY <1>2, <1>3, <1>5, <1>7, <1>9, <1>10, LifecycleSound
<1>12. Fits(c)
  <2>1. s.rows = b.rows
    BY <1>1, <1>2 DEF SettledRowsOf
  <2> QED BY <1>5, <2>1 DEF Parsed, Fits
<1> QED BY <1>1, <1>11, <1>12 DEF Parsed

\* RestoreAccount.
LEMMA RestoreParsed ==
  ASSUME NEW b, Parsed(b), today \in Nat \ {0}, NEW account \in Accounts,
         RestoreAccount(b, account)
  PROVE  Parsed(bank')
<1> DEFINE back(status) == IF status = "account_closed" THEN "active" ELSE status
           acc == [status |-> "active", anchor |-> AnchorToday(account), closedAt |-> 0]
           c == Restored(b, account)
<1>1. /\ bank' = c /\ b.accounts[account].status = "closed"
      /\ account \in Checking => ~CurrencyTaken(b, account)
  BY DEF RestoreAccount, Commit
<1>2. /\ Sound(b) /\ b \in BankStates /\ b.rules \in Seq(RuleTypes) /\ Regular(b)
      /\ b.accounts \in [Accounts -> AccountTypes]
  BY DEF Parsed, Sound, Regular, Good, Kept, BankStates
<1>3. Good(c)
  BY <1>1, <1>2, RestoreGood DEF Regular
<1>4. /\ c.accounts = [b.accounts EXCEPT ![account] = acc]
      /\ c.rows = b.rows /\ c.recent = b.recent
      /\ c.cards = [x \in Cards |-> IF account = Main THEN back(b.cards[x]) ELSE b.cards[x]]
      /\ c.rules = [i \in DOMAIN b.rules |->
                      IF b.rules[i].account = account
                      THEN [b.rules[i] EXCEPT !.status = back(b.rules[i].status)] ELSE b.rules[i]]
  BY <1>2 DEF Restored, BankStates
<1> HIDE DEF c
<1>5. acc.status = "active" /\ acc.closedAt = 0 /\ acc.anchor = AnchorToday(account)
      /\ acc \in AccountTypes
  BY AnchorTodayIs DEF AccountTypes
<1> HIDE DEF acc
<1>6. MayBecome(b, account, acc)
  BY <1>1, <1>5 DEF MayBecome, Exists
<1>7. \A a \in Accounts : IsActive(c, a) <=> a = account \/ IsActive(b, a)
  BY <1>2, <1>4, <1>5 DEF IsActive
<1>8. RulesPaused(c, b)
  <2>1. DOMAIN c.rules = DOMAIN b.rules
    BY <1>4
  <2>2. ASSUME NEW i \in DOMAIN b.rules
        PROVE  /\ SameRule(c.rules[i], b.rules[i]) /\ c.rules[i].next = b.rules[i].next
               /\ c.rules[i].status = "account_closed" => ~IsActive(c, c.rules[i].account)
    <3> DEFINE rule == b.rules[i]
               r == c.rules[i]
    <3>1. rule \in RuleTypes /\ rule.account \in Accounts /\ IsRuleOfItsAccount(b, rule)
      BY <1>2, RulesAre DEF Regular, RulesSound
    <3>2. r = IF rule.account = account
              THEN [rule EXCEPT !.status = back(rule.status)] ELSE rule
      BY <1>4
    <3> HIDE DEF rule, r
    <3>3. SameRule(r, rule) /\ r.next = rule.next
      BY <3>1, <3>2 DEF SameRule, RuleTypes
    <3>4. r.status = "account_closed" => ~IsActive(c, rule.account)
      <4>1. rule.status = "account_closed" => ~IsActive(b, rule.account)
        BY <3>1 DEF IsRuleOfItsAccount
      <4>2. rule.account = account => r.status # "account_closed"
        BY <3>1, <3>2 DEF RuleTypes
      <4> QED BY <1>7, <3>1, <3>2, <4>1, <4>2
    <3>5. r.account = rule.account
      BY <3>3 DEF SameRule
    <3> QED BY <3>3, <3>4, <3>5 DEF rule, r
  <2> QED BY <2>1, <2>2 DEF RulesPaused
<1>9. CardsSound(c)
  <2>1. Main \in Accounts
    BY LedgerAssumption DEF Accounts
  <2> QED BY <1>2, <1>4, <1>7, <2>1 DEF Regular, CardsSound, IsCardOfItsAccount
<1>10. Sound(c)
  BY <1>2, <1>3, <1>4, <1>6, <1>8, <1>9, LifecycleSound
<1> QED BY <1>1, <1>4, <1>10 DEF Parsed, Fits

\* Cards and remembered transfers that are in order may replace others.
LEMMA RestRestated ==
  ASSUME NEW b, Sound(b), NEW c, Good(c), c.accounts = b.accounts, c.rows = b.rows,
         c.rules = b.rules, CardsSound(c), RecentSound(c)
  PROVE  Sound(c)
<1>1. Regular(b)
  BY DEF Sound
<1>2. RulesKept(c, b) /\ RulesSound(c)
  <2>1. \A r : IsRuleOfItsAccount(b, r) => IsRuleOfItsAccount(c, r)
    BY DEF IsRuleOfItsAccount, IsActive, Exists
  <2> QED BY <1>1, <2>1 DEF Regular, RulesSound, RulesKept, SameRule
<1>3. AccountsSound(c) /\ ActiveSound(c)
  <2>1. \A a : CreatedOn(c, a) = CreatedOn(b, a)
    BY DEF CreatedOn
  <2>2. AccountsSound(c)
    BY <1>1, <2>1 DEF Regular, AccountsSound, IsAccount, Exists
  <2>3. ActiveSound(c)
    BY <1>1 DEF Regular, ActiveSound, IsActive, HasUniqueActiveCheckingCurrencies
  <2> QED BY <2>2, <2>3
<1>4. Regular(c) /\ HasValidTransferGroups(c)
  <2>1. \A a \in Accounts : Exists(b, a) => Exists(c, a)
    BY DEF Exists
  <2>2. \A a \in Accounts : c.accounts[a].status = "closed" => c.accounts[a] = b.accounts[a]
    OBVIOUS
  <2> QED BY <1>1, <1>2, <1>3, <2>1, <2>2, RestatedRegular DEF Sound
<1>5. AllHave(c)
  BY DEF Sound, AllHave, Has, Exists
<1>6. HasContinuousRecurringOccurrences(c)
  <2>1. \A r, m : OccursUntil(b, r, m) => OccursUntil(c, r, m)
    <3>1. \A r : SameRule(r, r)
      BY DEF SameRule
    <3> QED BY <3>1, OccursSame
  <2> QED BY <2>1 DEF Sound, HasContinuousRecurringOccurrences
<1> QED BY <1>4, <1>5, <1>6 DEF Sound

\* SetCardFrozen.
LEMMA CardParsed ==
  ASSUME NEW b, Parsed(b), today \in Nat \ {0}, NEW card \in Cards, NEW frozen,
         SetCardFrozen(b, card, frozen)
  PROVE  Parsed(bank')
<1> DEFINE status == IF frozen THEN "manual" ELSE "active"
           c == [b EXCEPT !.cards[card] = IF frozen THEN "manual" ELSE "active"]
<1>1. bank' = c /\ (frozen \/ IsActive(b, Main)) /\ (b.cards[card] = "active") = frozen
  BY DEF SetCardFrozen, Commit
<1>2. Sound(b) /\ Regular(b) /\ b \in BankStates
  BY DEF Parsed, Sound, Regular, Good, Kept
<1>3. Good(c)
  BY <1>1, <1>2, CardGood DEF Regular
<1>4. /\ c.accounts = b.accounts /\ c.rows = b.rows /\ c.rules = b.rules /\ c.recent = b.recent
      /\ c.cards = [b.cards EXCEPT ![card] = status]
  BY <1>2 DEF BankStates
<1> HIDE DEF c
<1>5. CardsSound(c)
  <2>1. b.cards \in [Cards -> {"active", "manual", "account_closed"}]
    BY <1>2 DEF BankStates
  <2>2. IsActive(c, Main) <=> IsActive(b, Main)
    BY <1>4 DEF IsActive
  <2>3. IsActive(b, Main) \/ status # "active"
    BY <1>1
  <2>4. status # "account_closed"
    OBVIOUS
  <2> HIDE DEF status
  <2> QED BY <1>2, <1>4, <2>1, <2>2, <2>3, <2>4 DEF Regular, CardsSound, IsCardOfItsAccount
<1>6. Sound(c)
  BY <1>2, <1>3, <1>4, <1>5, RestRestated DEF Regular, RecentSound
<1> QED BY <1>1, <1>4, <1>6 DEF Parsed, Fits

\* The new transfer is remembered once, and no more of them than are kept.
LEMMA RememberParsed ==
  ASSUME NEW b, Parsed(b), NEW id \in TransferIds, id \notin Range(b.recent)
  PROVE  Parsed(Remember(b, id))
<1> DEFINE recent == b.recent
           n == Len(recent)
           ids == Append(recent, id)
           kept == IF Len(ids) > RecentCap THEN Tail(ids) ELSE ids
           c == Remember(b, id)
<1>1. Sound(b) /\ Regular(b) /\ b \in BankStates /\ recent \in Seq(TransferIds)
  BY DEF Parsed, Sound, Regular, Good, Kept, BankStates
<1>2. Good(c)
  BY <1>1, RememberGood DEF Regular
<1>3. /\ c.accounts = b.accounts /\ c.rows = b.rows /\ c.rules = b.rules /\ c.cards = b.cards
      /\ c.recent = kept
  BY <1>1 DEF Remember, BankStates
<1> HIDE DEF c
<1>4. /\ \A i, j \in DOMAIN recent : recent[i] = recent[j] => i = j
      /\ n <= RecentCap /\ RecentCap \in Nat \ {0} /\ \A i \in DOMAIN recent : recent[i] # id
  BY <1>1, LedgerAssumption DEF Regular, RecentSound, IsInjective, Range
<1> HIDE DEF recent
<1>5. /\ n \in Nat /\ DOMAIN recent = 1..n /\ ids \in Seq(TransferIds) /\ Len(ids) = n + 1
      /\ DOMAIN ids = 1..(n + 1) /\ ids[n + 1] = id /\ \A i \in 1..n : ids[i] = recent[i]
  BY <1>1
<1> HIDE DEF n, ids
<1>6. \A i, j \in 1..(n + 1) : ids[i] = ids[j] => i = j
  <2>1. \A i \in 1..(n + 1) : i = n + 1 \/ i \in 1..n
    BY <1>5
  <2> QED BY <1>4, <1>5, <2>1
<1>7. RecentSound(c)
  <2>1. CASE Len(ids) > RecentCap
    <3> DEFINE tail == Tail(ids)
    <3>1. kept = tail /\ Len(tail) = n /\ DOMAIN tail = 1..n /\ \A i \in 1..n : tail[i] = ids[i + 1]
      BY <1>5, <2>1
    <3> HIDE DEF tail, kept
    <3>2. \A i, j \in 1..n : tail[i] = tail[j] => i = j
      <4> SUFFICES ASSUME NEW i \in 1..n, NEW j \in 1..n, tail[i] = tail[j] PROVE i = j
        OBVIOUS
      <4>1. i + 1 \in 1..(n + 1) /\ j + 1 \in 1..(n + 1) /\ ids[i + 1] = ids[j + 1]
        BY <1>5, <3>1
      <4>2. i + 1 = j + 1
        BY <1>6, <4>1
      <4> QED BY <1>5, <4>2
    <3> QED BY <1>3, <1>4, <3>1, <3>2 DEF RecentSound, IsInjective, n
  <2>2. CASE ~(Len(ids) > RecentCap)
    <3>1. kept = ids /\ Len(ids) <= RecentCap
      BY <1>4, <1>5, <2>2
    <3> HIDE DEF kept
    <3> QED BY <1>3, <1>5, <1>6, <3>1 DEF RecentSound, IsInjective
  <2> QED BY <2>1, <2>2
<1>8. CardsSound(c)
  BY <1>1, <1>3 DEF Regular, CardsSound, IsCardOfItsAccount, IsActive
<1>9. Sound(c)
  BY <1>1, <1>2, <1>3, <1>7, <1>8, RestRestated
<1> QED BY <1>3, <1>9 DEF Parsed, Fits, c

-----------------------------------------------------------------------------
(* Transfers.                                                              *)

\* A leg of a transfer is booked.
LegBooked(c, b, leg, account, amount, kind) ==
  /\ Appended(c, b, leg) /\ Regular(c) /\ AllHave(c)
  /\ HasContinuousRecurringOccurrences(c)
  /\ leg.account = account /\ leg.amount = amount /\ leg.kind = kind

\* On an active account that can pay it.
LEMMA LegSound ==
  ASSUME NEW b, Regular(b), AllHave(b), HasContinuousRecurringOccurrences(b), today \in Nat \ {0},
         NEW account \in Accounts, NEW amount \in Int, NEW kind \in {"out", "in"},
         IsActive(b, account), SettledUpTo(b, account), BalanceOf(b, account) + amount >= 0
  PROVE  \E leg : LegBooked(Post(b, account, amount, kind), b, leg, account, amount, kind)
<1> DEFINE c == Post(b, account, amount, kind)
<1>1. Good(b) /\ Kept(b) /\ b \in BankStates
  BY DEF Regular, Good, Kept
<1>2. kind \in Kinds /\ NoRule \in RuleIds \cup {NoRule}
  BY DEF Kinds
<1>3. Good(c)
  <2>1. Booked(c, b)
    BY <1>1, <1>2, PostKept
  <2> HIDE DEF c
  <2> QED BY <1>1, <2>1, BookedGood
<1>4. PICK leg : NewRow(b, leg, account, amount, kind, NoRule, today)
  BY <1>1, <1>2, AppendRowIs
<1>5. /\ Appended(c, b, leg) /\ leg.account = account /\ leg.amount = amount /\ leg.kind = kind
      /\ leg.rule = NoRule /\ leg.date = today
  BY <1>4 DEF NewRow, Post
<1> HIDE DEF c
<1>6. Bookable(b, leg)
  BY <1>2, <1>5 DEF Bookable, IsTransaction, BelongsToItsRule, Appended
<1>7. Regular(c) /\ AllHave(c)
  BY <1>3, <1>5, <1>6, AppendedOn
<1>8. HasContinuousRecurringOccurrences(c)
  <2> SUFFICES ASSUME NEW i \in DOMAIN b.rules
               PROVE  OccursUntil(c, b.rules[i], MonthOf(b.rules[i].next))
    BY <1>5 DEF HasContinuousRecurringOccurrences, Appended
  <2>1. b.rules[i] \in RuleTypes /\ OccursUntil(b, b.rules[i], MonthOf(b.rules[i].next))
    BY <1>1, RulesAre DEF HasContinuousRecurringOccurrences
  <2>2. b.rules[i].id # leg.rule
    BY <1>5, <2>1, LedgerAssumption DEF RuleTypes
  <2> QED BY <1>5, <2>1, <2>2, AppendedOther
<1>9. LegBooked(c, b, leg, account, amount, kind)
  BY <1>5, <1>7, <1>8 DEF LegBooked
<1> QED BY <1>9 DEF c

\* A transfer between two accounts of the user leaves a sound state sound.
LEMMA LegsSound ==
  ASSUME NEW b, Sound(b), today \in Nat \ {0}, NEW from \in Accounts, NEW to \in Accounts,
         from # to, IsActive(b, from), IsActive(b, to), NEW amount \in Nat \ {0},
         Convert(amount, from, to) > 0,
         amount <= BalanceOf(SettleAccount(b, from), from)
  PROVE  LET c == Legs(b, from, to, amount) IN Sound(c) /\ c.recent = b.recent
<1> DEFINE first == SettleAccount(b, from)
           settled == SettleAccount(first, to)
           paid == Post(settled, from, -amount, "out")
           income == Convert(amount, from, to)
           done == Post(paid, to, income, "in")
<1>1. Sound(first) /\ SettledRowsOf(first, b, from)
  BY SettleSound
<1>2. SettledUpTo(first, from) /\ IsActive(first, from) /\ IsActive(first, to)
  BY SettledGood DEF Sound, Regular
<1>3. Legs(b, from, to, amount) = done
  BY DEF Legs
<1>4. amount <= BalanceOf(first, from)
  OBVIOUS
<1> HIDE DEF first
<1>5. Sound(settled) /\ SettledRowsOf(settled, first, to)
  BY <1>1, SettleSound
<1>6. /\ SettledUpTo(settled, from) /\ SettledUpTo(settled, to)
      /\ IsActive(settled, from) /\ IsActive(settled, to)
  BY <1>1, <1>2, SettledGood DEF Sound, Regular
<1> HIDE DEF settled
<1>7. amount <= BalanceOf(settled, from) /\ BalanceOf(settled, from) \in Nat
  BY <1>4, <1>5, BalanceNatural DEF SettledRowsOf, Sound
<1>8. income \in Int /\ income > 0
  BY ConvertType
<1> DEFINE out == -amount
<1>9. out \in Int /\ out < 0 /\ -out = amount /\ BalanceOf(settled, from) + out >= 0
  BY <1>7
<1>10. paid = Post(settled, from, out, "out")
  OBVIOUS
<1> HIDE DEF paid, out
<1>11. PICK leg : LegBooked(paid, settled, leg, from, out, "out")
  BY <1>5, <1>6, <1>9, <1>10, LegSound DEF Sound
<1>12. /\ Appended(paid, settled, leg) /\ Regular(paid) /\ AllHave(paid)
       /\ HasContinuousRecurringOccurrences(paid) /\ paid.accounts = settled.accounts
       /\ leg.account = from /\ leg.amount = out /\ leg.kind = "out" /\ leg.day = today
  BY <1>11 DEF LegBooked, Appended
<1>13. IsActive(paid, to) /\ SettledUpTo(paid, to)
  BY <1>6, <1>12 DEF IsActive, SettledUpTo
<1>14. BalanceOf(paid, to) + income >= 0
  <2>1. BalanceOf(paid, to) \in Nat
    BY <1>12, BalanceNatural
  <2> HIDE DEF income
  <2> QED BY <1>8, <2>1
<1>15. PICK other : LegBooked(done, paid, other, to, income, "in")
  <2> HIDE DEF income
  <2> QED BY <1>8, <1>12, <1>13, <1>14, LegSound
<1> HIDE DEF done, income
<1>16. /\ Appended(done, paid, other) /\ Regular(done) /\ AllHave(done)
       /\ HasContinuousRecurringOccurrences(done)
       /\ other.account = to /\ other.amount = income /\ other.kind = "in" /\ other.day = today
  BY <1>15 DEF LegBooked, Appended
<1>17. AreLegs(leg, other)
  BY <1>8, <1>9, <1>12, <1>16 DEF AreLegs, income
<1>18. HasValidTransferGroups(done)
  BY <1>5, <1>12, <1>16, <1>17, AppendedLegs DEF Sound
<1>19. done.recent = b.recent
  BY <1>1, <1>5, <1>12, <1>16 DEF Appended, SettledRowsOf
<1> QED BY <1>3, <1>16, <1>18, <1>19 DEF Sound

\* Transfer, of either kind or a repeated one.
LEMMA TransferParsed ==
  ASSUME NEW b, Parsed(b), today \in Nat \ {0}, NEW c, c.from \in Accounts,
         c.amount \in Nat \ {0}, c.id \in TransferIds, Transfer(b, c)
  PROVE  Parsed(bank')
<1>1. Sound(b)
  BY DEF Parsed
<1>2. CASE c.id \in Range(b.recent)
  BY <1>2 DEF Transfer, Commit
<1>3. CASE c.id \notin Range(b.recent) /\ c.to \in Accounts
  <2> DEFINE paid == Legs(b, c.from, c.to, c.amount)
  <2>1. /\ c.from # c.to /\ IsActive(b, c.from) /\ IsActive(b, c.to)
        /\ Convert(c.amount, c.from, c.to) > 0
        /\ c.amount <= BalanceOf(SettleAccount(b, c.from), c.from)
        /\ Fits(paid) /\ bank' = Remember(paid, c.id)
    BY <1>3 DEF Transfer, TransferOwn, Pays, Commit
  <2>2. Sound(paid) /\ paid.recent = b.recent
    BY <1>1, <1>3, <2>1, LegsSound
  <2> HIDE DEF paid
  <2> QED BY <1>3, <2>1, <2>2, RememberParsed DEF Parsed
<1>4. CASE c.id \notin Range(b.recent) /\ c.to \notin Accounts
  <2> DEFINE settled == SettleAccount(b, c.from)
             amount == -c.amount
             paid == Post(settled, c.from, amount, "contact")
  <2>1. /\ IsActive(b, c.from) /\ c.amount <= BalanceOf(settled, c.from)
        /\ Fits(paid) /\ bank' = Remember(paid, c.id)
    BY <1>4 DEF Transfer, TransferContact, Pays, Commit
  <2>2. Sound(settled) /\ settled.recent = b.recent
    BY <1>1, SettleSound DEF SettledRowsOf
  <2>3. SettledUpTo(settled, c.from) /\ IsActive(settled, c.from)
    BY <1>1, <2>1, SettledGood DEF Sound, Regular
  <2> HIDE DEF settled
  <2>4. BalanceOf(settled, c.from) \in Nat
    BY <2>2, BalanceNatural DEF Sound
  <2>5. /\ amount \in Int /\ amount # 0 /\ BalanceOf(settled, c.from) + amount >= 0
        /\ "contact" \in {"manual", "adjustment", "contact"}
    BY <2>1, <2>4
  <2> HIDE DEF amount
  <2>6. Sound(paid) /\ paid.recent = settled.recent
    BY <2>2, <2>3, <2>5, PostSound
  <2> HIDE DEF paid
  <2> QED BY <1>4, <2>1, <2>2, <2>6, RememberParsed DEF Parsed
<1> QED BY <1>2, <1>3, <1>4

\* The fixture of the demo can be read again on any day, and leaves room for a row.
LEMMA SeedSound ==
  ASSUME today \in Nat \ {0}
  PROVE  Sound(Seed) /\ Len(Seed.rows) = Cardinality(Accounts \ Custom)
<1> DEFINE n == Cardinality(Accounts \ Custom)
<1>1. /\ Savings \in Accounts /\ Opening \in Nat /\ Savings \notin Custom /\ Savings \notin Checking
      /\ Main \in Checking \ Custom /\ RecentCap \in Nat
      /\ Checking \subseteq Accounts /\ Checking \ Custom \subseteq Accounts \ Custom
  BY LedgerAssumption DEF Accounts
<1>2. /\ n \in Nat /\ DOMAIN Opened = 1..n /\ \A i \in 1..n : Opened[i] \in Accounts \ Custom
      /\ \A i, j \in 1..n : Opened[i] = Opened[j] => i = j
      /\ \A a \in Accounts \ Custom : \E i \in 1..n : Opened[i] = a
  BY OpenedFacts
<1>3. Good(Seed) /\ Seed \in BankStates
  BY SeedGood DEF Good, Kept
<1> HIDE DEF n
<1>4. /\ Seed.rows = [i \in DOMAIN Opened |-> SeedRow(Opened[i])] /\ Seed.rules = <<>>
      /\ Seed.recent = <<>> /\ Seed.cards = [c \in Cards |-> "active"]
      /\ \A a \in Accounts :
           /\ Seed.accounts[a].status = (IF a \in Custom THEN "absent" ELSE "active")
           /\ Seed.accounts[a].anchor = (IF a = Savings THEN 1 ELSE 0)
           /\ Seed.accounts[a].closedAt = 0
  BY DEF Seed
<1>5. \A a \in Accounts : /\ IsActive(Seed, a) <=> a \notin Custom
                          /\ Exists(Seed, a) <=> a \notin Custom
                          /\ Seed.accounts[a].status # "closed"
  BY <1>4 DEF IsActive, Exists
<1>6. DOMAIN Seed.rows = 1..n /\ Len(Seed.rows) = n
  <2>1. DOMAIN Seed.rows = 1..n
    BY <1>2, <1>4
  <2> QED BY <1>2, <2>1
<1>7. ASSUME NEW i \in 1..n
      PROVE  LET row == Seed.rows[i] IN
             /\ row.account = Opened[i] /\ row.amount = Opening /\ row.balance = Opening
             /\ row.kind = "seed" /\ row.rule = NoRule /\ row.date = 1 /\ row.day = 1
  BY <1>2, <1>4 DEF SeedRow
<1>8. AllHave(Seed)
  BY <1>2, <1>5, <1>6, <1>7 DEF AllHave, Has
<1>9. \A a \in Accounts \ Custom : CreatedOn(Seed, a) = 1
  <2> SUFFICES ASSUME NEW a \in Accounts \ Custom PROVE CreatedOn(Seed, a) = 1
    OBVIOUS
  <2>1. PICK i : IsFirst(Seed, a, i)
    <3>1. Has(Seed, a)
      BY <1>5, <1>8 DEF AllHave
    <3> QED BY <1>3, <3>1, CreatedIs
  <2>2. CreatedOn(Seed, a) = Seed.rows[i].day
    BY <1>3, <2>1, CreatedIs
  <2> QED BY <1>6, <1>7, <2>1, <2>2 DEF IsFirst
<1>10. AccountsSound(Seed)
  <2> SUFFICES ASSUME NEW a \in Accounts
               PROVE  IF Exists(Seed, a) THEN IsAccount(Seed, a)
                      ELSE a \in Custom /\ Seed.accounts[a].anchor = 0 /\ Seed.accounts[a].closedAt = 0
    BY DEF AccountsSound
  <2>1. CASE a \in Custom
    BY <1>1, <1>4, <1>5, <2>1
  <2>2. CASE a \notin Custom
    <3>1. CreatedOn(Seed, a) = 1
      BY <1>9, <2>2
    <3>2. IsAccount(Seed, a)
      BY <1>4, <1>5, <3>1 DEF IsAccount
    <3> QED BY <1>5, <2>2, <3>2
  <2> QED BY <2>1, <2>2
<1>11. ActiveSound(Seed)
  <2>1. \E a \in Accounts : IsActive(Seed, a)
    BY <1>1, <1>5
  <2>2. ASSUME NEW a \in Checking, NEW other \in Checking, IsActive(Seed, a), IsActive(Seed, other),
               Currency(a) = Currency(other)
        PROVE  a = other
    <3>1. a \in Checking \ Custom /\ other \in Checking \ Custom
      BY <1>1, <1>5, <2>2
    <3>2. (a \in Foreign) <=> (other \in Foreign)
      BY <2>2 DEF Currency
    <3> QED BY <3>1, <3>2, LedgerAssumption
  <2> QED BY <2>1, <2>2 DEF ActiveSound, HasUniqueActiveCheckingCurrencies
<1>12. RowsSound(Seed)
  <2>1. \A i \in 1..n : IsTransaction(Seed.rows[i]) /\ BelongsToItsRule(Seed, Seed.rows[i])
    BY <1>1, <1>7 DEF IsTransaction, BelongsToItsRule, Kinds
  <2>2. \A i \in 1..n : WithinLife(Seed, Seed.rows[i])
    <3> SUFFICES ASSUME NEW i \in 1..n PROVE WithinLife(Seed, Seed.rows[i])
      OBVIOUS
    <3>1. Seed.rows[i].account \in Accounts \ Custom
      BY <1>2, <1>7
    <3>2. CreatedOn(Seed, Seed.rows[i].account) = 1
      BY <1>9, <3>1
    <3> QED BY <1>5, <1>7, <3>1, <3>2 DEF WithinLife
  <2>3. HasValidTransactionAccountBoundaries(Seed)
    BY <1>6, <2>2 DEF HasValidTransactionAccountBoundaries, WithinLife
  <2>4. LedgerRuns(Seed)
    <3>1. ASSUME NEW i \in 1..n
          PROVE  LET before == {j \in 1..i - 1 : Seed.rows[j].account = Seed.rows[i].account}
                 IN  Seed.rows[i].balance = LastBalance(Seed, before) + Seed.rows[i].amount
      <4> DEFINE before == {j \in 1..i - 1 : Seed.rows[j].account = Seed.rows[i].account}
      <4>1. before = {}
        <5> SUFFICES ASSUME NEW j \in 1..i - 1, Seed.rows[j].account = Seed.rows[i].account
                     PROVE  FALSE
          OBVIOUS
        <5>1. j \in 1..n /\ j # i
          BY <1>2
        <5> QED BY <1>2, <1>7, <5>1
      <4> HIDE DEF before
      <4>2. LastBalance(Seed, before) = 0
        BY <4>1 DEF LastBalance
      <4>3. Seed.rows[i].balance = Opening /\ Seed.rows[i].amount = Opening
        BY <1>7
      <4>4. Seed.rows[i].balance = LastBalance(Seed, before) + Seed.rows[i].amount
        BY <1>1, <4>2, <4>3
      <4> QED BY <4>4 DEF before
    <3> QED BY <1>6, <3>1 DEF LedgerRuns
  <2> QED BY <1>5, <1>6, <2>1, <2>3, <2>4 DEF RowsSound
<1>13. RulesSound(Seed) /\ HasContinuousRecurringOccurrences(Seed)
  <2>1. DOMAIN Seed.rules = {}
    BY <1>4
  <2> QED BY <2>1 DEF RulesSound, IsInjective, HasContinuousRecurringOccurrences
<1>14. CardsSound(Seed)
  BY <1>1, <1>4, <1>5 DEF CardsSound, IsCardOfItsAccount
<1>15. RecentSound(Seed)
  <2>1. DOMAIN Seed.recent = {} /\ Len(Seed.recent) = 0
    BY <1>4
  <2> QED BY <1>1, <2>1 DEF RecentSound, IsInjective
<1>16. HasValidTransferGroups(Seed)
  BY <1>6, <1>7 DEF HasValidTransferGroups
<1> QED BY <1>3, <1>6, <1>8, <1>10, <1>11, <1>12, <1>13, <1>14, <1>15, <1>16
        DEF Sound, Regular, n

\* A demo that starts again can be read again.
LEMMA RebuiltParsed ==
  ASSUME today \in Nat \ {0}
  PROVE  Parsed(Seed) /\ Parsed(Rebuilt)
<1> DEFINE n == Cardinality(Accounts \ Custom)
           s == SettleAccount(Seed, Savings)
<1>1. n \in Nat /\ MaxTransactions \in Nat /\ n < MaxTransactions
  BY OpenedFacts, LedgerAssumption
<1>2. Sound(Seed) /\ Len(Seed.rows) = n
  BY SeedSound
<1>3. Sound(s) /\ SettledRowsOf(s, Seed, Savings)
  <2>1. Savings \in Accounts
    BY DEF Accounts
  <2> QED BY <1>2, <2>1, SettleSound
<1> HIDE DEF n, s
<1>4. Len(s.rows) = n \/ Len(s.rows) = n + 1
  BY <1>2, <1>3 DEF SettledRowsOf
<1>5. Fits(Seed) /\ Fits(s)
  BY <1>1, <1>2, <1>4 DEF Fits
<1> QED BY <1>2, <1>3, <1>5 DEF Parsed, Rebuilt, s

\* Whatever command is applied to a state that can be read again leaves one that can.
LEMMA CommandParsed ==
  ASSUME NEW b, Parsed(b), today \in Nat \ {0}, NEW c \in BankCommands, ApplyBankCommand(b, c)
  PROVE  Parsed(bank')
<1>1. Amounts \subseteq Nat \ {0}
  BY LedgerAssumption
<1>2. CASE c.kind = "record_transaction" /\ RecordTransaction(b, c.account, Signed(c))
  <2>1. c.account \in Checking /\ c.amount \in Nat \ {0}
    BY <1>1, <1>2, CommandTypes
  <2>2. c.amount \in Int /\ -c.amount \in Int /\ c.amount # 0 /\ -c.amount # 0
    BY <2>1
  <2>3. Signed(c) \in Int /\ Signed(c) # 0
    BY <2>2 DEF Signed
  <2> QED BY <1>2, <2>1, <2>3, RecordParsed
<1>3. CASE c.kind = "create_recurring" /\ CreateRecurring(b, c)
  <2>1. /\ c.rule \in RuleIds /\ c.account \in Checking /\ c.direction \in Directions
        /\ c.amount \in Amounts /\ c.month \in 1..MonthOf(MaxDays) /\ c.anchorDay \in AnchorDays
    BY <1>3, CommandTypes
  <2>2. c.month \in Nat \ {0}
    <3>1. MonthOf(MaxDays) \in Nat
      BY MonthOfFacts, LedgerAssumption
    <3> QED BY <2>1, <3>1
  <2> QED BY <1>3, <2>1, <2>2, CreateParsed
<1>4. CASE c.kind = "pause_recurring" /\ PauseRecurring(b, c.rule)
  BY <1>4, PauseParsed
<1>5. CASE c.kind = "resume_recurring" /\ ResumeRecurring(b, c.rule)
  BY <1>5, ResumeParsed
<1>6. CASE c.kind = "add_account" /\ AddAccount(b, c.account)
  BY <1>6, CommandTypes, AddParsed
<1>7. CASE c.kind = "adjust_balance" /\ AdjustBalance(b, c.account, c.target)
  <2>1. c.account \in Accounts /\ c.target \in Amounts \cup {0}
    BY <1>7, CommandTypes
  <2>2. Amounts \cup {0} \subseteq Nat
    BY <1>1
  <2>3. c.target \in Nat
    BY <2>1, <2>2
  <2> QED BY <1>7, <2>1, <2>3, AdjustParsed
<1>8. CASE c.kind = "close_account" /\ CloseAccount(b, c.account)
  <2>1. c.account \in Accounts
    BY <1>8, CommandTypes
  <2> QED BY <1>8, <2>1, CloseParsed
<1>9. CASE c.kind = "restore_account" /\ RestoreAccount(b, c.account)
  <2>1. c.account \in Accounts
    BY <1>9, CommandTypes
  <2> QED BY <1>9, <2>1, RestoreParsed
<1>10. CASE c.kind = "transfer" /\ Transfer(b, c)
  <2>1. c.from \in Accounts /\ c.amount \in Nat \ {0} /\ c.id \in TransferIds
    BY <1>1, <1>10, CommandTypes
  <2> QED BY <1>10, <2>1, TransferParsed
<1>11. CASE c.kind = "set_card_frozen" /\ SetCardFrozen(b, c.card, c.frozen)
  <2>1. c.card \in Cards
    BY <1>11, CommandTypes
  <2> QED BY <1>11, <2>1, CardParsed
<1>12. CASE c.kind = "settle" /\ Settle(b)
  <2>1. bank' = SettleAllWithinLimit(b).state
    BY <1>12 DEF Settle, Commit
  <2> QED BY <2>1, SettledAllParsed
<1>13. CASE c.kind = "reset_demo" /\ ResetDemo
  BY <1>13, RebuiltParsed DEF ResetDemo, Commit
<1> QED BY <1>2, <1>3, <1>4, <1>5, <1>6, <1>7, <1>8, <1>9, <1>10, <1>11, <1>12, <1>13
        DEF ApplyBankCommand

\* Time does no harm: no bound that a stored state keeps to comes nearer with the days.
LEMMA LaterParsed ==
  ASSUME Parsed(bank'), today \in Nat \ {0}, today' = today \/ today' = today + 1
  PROVE  Parsed(bank)'
<1>1. today' \in Nat \ {0} /\ today <= today'
  OBVIOUS
<1>2. /\ Regular(bank') /\ bank' \in BankStates /\ bank'.rows \in Seq(RowTypes)
      /\ bank'.accounts \in [Accounts -> AccountTypes]
  BY DEF Parsed, Sound, Regular, Good, Kept, BankStates
<1>3. /\ ActiveSound(bank)' /\ CardsSound(bank)' /\ RecentSound(bank)' /\ AllHave(bank)'
      /\ Fits(bank)' /\ HasValidTransferGroups(bank)' /\ HasContinuousRecurringOccurrences(bank)'
      /\ LedgerRuns(bank)' /\ RulesFollow(bank)'
  BY DEF Parsed, Sound, Regular, RowsSound, Good
<1>4. ASSUME NEW i \in DOMAIN bank'.rows
      PROVE  bank'.rows[i].day \in Nat /\ bank'.rows[i].day <= today /\ bank'.rows[i].day <= today'
  <2>1. bank'.rows[i] \in RowTypes
    BY <1>2
  <2>2. bank'.rows[i].day \in Nat
    BY <2>1 DEF RowTypes
  <2>3. bank'.rows[i].day <= today
    BY DEF Parsed, Sound, Regular, Good, Kept
  <2> QED BY <1>1, <2>2, <2>3
<1>5. Good(bank)'
  <2>1. Kept(bank)'
    BY <1>2, <1>4 DEF Parsed, Sound, Regular, Good, Kept
  <2> QED BY <1>3, <2>1 DEF Good
<1>6. AccountsSound(bank)'
  <2>1. ASSUME NEW a \in Accounts, IsAccount(bank', a) PROVE IsAccount(bank, a)'
    <3> DEFINE acc == bank'.accounts[a]
    <3>1. acc.anchor \in Nat /\ acc.closedAt \in Nat
      BY <1>2 DEF AccountTypes
    <3>2. acc.anchor <= today' /\ acc.closedAt <= today'
      <4>1. acc.anchor <= today /\ acc.closedAt <= today
        BY <2>1 DEF IsAccount
      <4> HIDE DEF acc
      <4> QED BY <1>1, <3>1, <4>1
    <3> QED BY <2>1, <3>2 DEF IsAccount
  <2> QED BY <1>2, <2>1 DEF Regular, AccountsSound
<1>7. RowsSound(bank)'
  <2>1. \A i \in DOMAIN bank'.rows : WithinLife(bank, bank.rows[i])'
    <3> SUFFICES ASSUME NEW i \in DOMAIN bank'.rows PROVE WithinLife(bank, bank.rows[i])'
      OBVIOUS
    <3>1. WithinLife(bank', bank'.rows[i])
      BY <1>2 DEF Regular, RowsSound, HasValidTransactionAccountBoundaries, WithinLife
    <3> QED BY <1>4, <3>1 DEF WithinLife
  <2>2. HasValidTransactionAccountBoundaries(bank)'
    BY <2>1 DEF HasValidTransactionAccountBoundaries, WithinLife
  <2>3. \A i \in DOMAIN bank'.rows : (IsTransaction(bank.rows[i]) /\ BelongsToItsRule(bank, bank.rows[i]))'
    BY <1>2 DEF Regular, RowsSound
  <2>4. \A a \in Accounts : (bank.accounts[a].status = "closed" => BalanceOf(bank, a) = 0)'
    BY <1>2 DEF Regular, RowsSound
  <2> QED BY <1>3, <2>2, <2>3, <2>4 DEF RowsSound
<1>8. RulesSound(bank)'
  <2>1. ASSUME NEW r \in RuleTypes, IsRuleOfItsAccount(bank', r) PROVE IsRuleOfItsAccount(bank, r)'
    <3>1. MonthOf(r.startsOn) <= MonthOf(today')
      <4>1. MonthOf(today) <= MonthOf(today')
        BY <1>1, MonthsInOrder
      <4>2. MonthOf(r.startsOn) \in Nat /\ MonthOf(today) \in Nat /\ MonthOf(today') \in Nat
        <5>1. r.startsOn \in Nat \ {0}
          BY DEF RuleTypes
        <5> QED BY <1>1, <5>1, MonthOfFacts
      <4>3. MonthOf(r.startsOn) <= MonthOf(today)
        BY <2>1 DEF IsRuleOfItsAccount
      <4> QED BY <4>1, <4>2, <4>3
    <3> QED BY <2>1, <3>1 DEF IsRuleOfItsAccount
  <2>2. \A i \in DOMAIN bank'.rules : bank'.rules[i] \in RuleTypes
    BY <1>2, RulesAre
  <2> QED BY <1>2, <2>1, <2>2 DEF Regular, RulesSound
<1> QED BY <1>3, <1>5, <1>6, <1>7, <1>8 DEF Parsed, Sound, Regular

\* The invariant that StateParses follows from: besides what parseBankState asks, every account
\* has the row it was created with and an account that was never added is untouched.
ParsedInv == today \in 1..MaxDays /\ Parsed(bank)

\* Every step keeps it.
LEMMA ParsedInvStep ==
  ASSUME ParsedInv, [Next]_vars
  PROVE  ParsedInv'
<1>1. today \in Nat \ {0} /\ MaxDays \in Nat /\ Parsed(bank)
  BY LedgerAssumption DEF ParsedInv
<1>2. ASSUME Parsed(bank'), today' = today PROVE ParsedInv'
  <2>1. Parsed(bank)'
    BY <1>1, <1>2, LaterParsed
  <2> QED BY <1>2, <2>1 DEF ParsedInv
<1>3. CASE ExecuteCommand
  <2>1. PICK c \in BankCommands : ApplyBankCommand(Materialized(bank), c)
    BY <1>3 DEF ExecuteCommand
  <2>2. Parsed(Materialized(bank)) /\ Good(Materialized(bank))
    BY <1>1, MaterializedParsed DEF Parsed, Sound, Regular
  <2> QED BY <1>1, <1>2, <2>1, <2>2, CommandParsed, CommandGood
<1>4. CASE Bootstrap
  BY <1>1, <1>2, <1>4, MaterializedParsed DEF Bootstrap, Commit
<1>5. CASE TransferLocally
  <2>1. TransferCommands \subseteq BankCommands
    BY DEF BankCommands
  <2>2. PICK c \in BankCommands : ApplyBankCommand(bank, c)
    BY <1>5, <2>1 DEF TransferLocally
  <2>3. Good(bank)
    BY <1>1 DEF Parsed, Sound, Regular
  <2> QED BY <1>1, <1>2, <2>2, <2>3, CommandParsed, CommandGood
<1>6. CASE SettleNow
  BY <1>1, <1>2, <1>6, SettledAllParsed DEF SettleNow, Commit
<1>7. CASE ToggleCardFreeze
  <2>1. PICK card \in Cards : SetCardFrozen(bank, card, bank.cards[card] = "active")
    BY <1>7 DEF ToggleCardFreeze
  <2>2. today' = today
    BY <2>1 DEF SetCardFrozen, Commit
  <2> QED BY <1>1, <1>2, <2>1, <2>2, CardParsed
<1>8. CASE NextDay
  <2>1. bank' = bank /\ today' = today + 1 /\ today' \in 1..MaxDays
    BY <1>1, <1>8 DEF NextDay
  <2>2. Parsed(bank)'
    BY <1>1, <2>1, LaterParsed
  <2> QED BY <2>1, <2>2 DEF ParsedInv
<1>9. CASE UNCHANGED vars
  BY <1>1, <1>2, <1>9 DEF vars
<1> QED BY <1>3, <1>4, <1>5, <1>6, <1>7, <1>8, <1>9 DEF Next

\* What the invariant says of a state is all that parseBankState asks of it.
LEMMA ParsedParses ==
  ASSUME ParsedInv
  PROVE  StateParses
<1>1. today \in 1..MaxDays /\ bank \in BankStates
  BY DEF ParsedInv, Parsed, Sound, Regular, Good, Kept
<1>2. ParseBankState(bank)
  BY DEF ParsedInv, Parsed, Sound, Regular, Fits, AccountsSound, ActiveSound, RowsSound, RulesSound,
     CardsSound, RecentSound, ParseBankState
<1> QED BY <1>1, <1>2 DEF StateParses, LedgerTypeOK

\* StateParses: whatever the constants, no sequence of commands, catch-ups, closings and full
\* ledgers makes a state that parseBankState refuses (src/domain/bankState.ts), so that no
\* user is locked out by a state that was stored.
THEOREM StatesParse == Spec => []StateParses
<1>1. Init => ParsedInv
  <2> SUFFICES ASSUME Init PROVE ParsedInv
    OBVIOUS
  <2>1. today = 1 /\ bank = Seed /\ MaxDays \in Nat \ {0}
    BY LedgerAssumption DEF Init
  <2> QED BY <2>1, RebuiltParsed DEF ParsedInv
<1>2. ParsedInv /\ [Next]_vars => ParsedInv'
  BY ParsedInvStep
<1>3. ParsedInv => StateParses
  BY ParsedParses
<1> QED BY <1>1, <1>2, <1>3, PTL DEF Spec
=============================================================================
