------------------------ MODULE GridBookkeeping_proofs ------------------------
(***************************************************************************)
(* Proofs about the grid engine's bookkeeping, for any options, dates and  *)
(* numbers of rows: at every exercise the column of a date holds what      *)
(* bermudan_eqs holds there.                                               *)
(*                                                                         *)
(* GridInv is the inductive invariant: every date has as many rows and has *)
(* come to the same one, its columns hold what its own rows leave of each  *)
(* coupon, and the last of them gave an exercise what it enters.  What a   *)
(* coupon leaves depends on three facts about the tables: its status       *)
(* before a row follows from that row's time and the one before it         *)
(* (cashflow rows); two coupons in one cache column never meet (cache      *)
(* columns); and the rows a date is padded with come before all of its own *)
(* and do nothing (shapes).                                                *)
(***************************************************************************)
EXTENDS GridBookkeeping, Pipelines_proofs


\* The least and the greatest of two numbers.
LEMMA LesserOfTwo ==
  ASSUME NEW a \in Int, NEW b \in Int
  PROVE  Min({a, b}) = IF b <= a THEN b ELSE a
<1> DEFINE S == {a, b}
           least == IF b <= a THEN b ELSE a
<1>1. least \in S /\ \A y \in S : least <= y
  OBVIOUS
<1>2. \A x \in S : (\A y \in S : x <= y) => x = least
  OBVIOUS
<1> HIDE DEF least
<1>3. (CHOOSE x \in S : \A y \in S : x <= y) = least
  <2> HIDE DEF S
  <2>. QED
    BY <1>1, <1>2
<1>. QED
  BY <1>3, Zenon DEF Min, least

LEMMA GreaterIsOfTwo ==
  ASSUME NEW a \in Int, NEW b \in Int
  PROVE  Max({a, b}) = IF b <= a THEN a ELSE b
<1> DEFINE S == {a, b}
           most == IF b <= a THEN a ELSE b
<1>1. most \in S /\ \A y \in S : most >= y
  OBVIOUS
<1>2. \A x \in S : (\A y \in S : x >= y) => x = most
  OBVIOUS
<1> HIDE DEF most
<1>3. (CHOOSE x \in S : \A y \in S : x >= y) = most
  <2> HIDE DEF S
  <2>. QED
    BY <1>1, <1>2
<1>. QED
  BY <1>3, Zenon DEF Max, most

---------------------------------------------------------------------------
(* A set in an order.                                                     *)

\* How many of S are before x.
Rank(S, before, x) == Cardinality({y \in S : <<y, x>> \in before})

\* before is a strict order of S.
Orders(before, S) ==
  /\ \A x \in S : <<x, x>> \notin before
  /\ \A x, y \in S : x # y => <<x, y>> \in before \/ <<y, x>> \in before
  /\ \A x, y, z \in S : <<x, y>> \in before /\ <<y, z>> \in before => <<x, z>> \in before

\* An element has fewer before it than what it is before.
LEMMA RankGrows ==
  ASSUME NEW S, IsFiniteSet(S), NEW before, Orders(before, S), NEW x \in S, NEW y \in S, <<x, y>> \in before
  PROVE  Rank(S, before, x) \in Nat /\ Rank(S, before, y) \in Nat /\ Rank(S, before, x) < Rank(S, before, y)
<1> DEFINE low == {z \in S : <<z, x>> \in before}
           high == {z \in S : <<z, y>> \in before}
<1>1. IsFiniteSet(low) /\ IsFiniteSet(high)
  BY FS_Subset
<1>2. low \subseteq high /\ x \in high /\ x \notin low
  BY DEF Orders
<1>3. Cardinality(low) \in Nat /\ Cardinality(high) \in Nat
  BY <1>1, FS_CardinalityType
<1>4. Cardinality(low) <= Cardinality(high) /\ Cardinality(low) # Cardinality(high)
  <2> HIDE DEF low, high
  <2>. QED
    BY <1>1, <1>2, FS_Subset
<1>. QED
  BY <1>3, <1>4 DEF Rank

\* An element has fewer before it than there are.
LEMMA RankBound ==
  ASSUME NEW S, IsFiniteSet(S), NEW before, Orders(before, S), NEW x \in S
  PROVE  Rank(S, before, x) \in 0 .. Cardinality(S) - 1
<1> DEFINE low == {z \in S : <<z, x>> \in before}
<1>1. IsFiniteSet(low) /\ low \subseteq S /\ x \notin low
  BY FS_Subset DEF Orders
<1>2. Cardinality(low) \in Nat /\ Cardinality(S) \in Nat
  BY <1>1, FS_CardinalityType
<1>3. Cardinality(low) <= Cardinality(S) /\ Cardinality(low) # Cardinality(S)
  <2> HIDE DEF low
  <2>. QED
    BY <1>1, FS_Subset
<1>. QED
  BY <1>2, <1>3 DEF Rank

\* A rank belongs to one element,
LEMMA RankIsOnes ==
  ASSUME NEW S, IsFiniteSet(S), NEW before, Orders(before, S), NEW x \in S, NEW y \in S,
         Rank(S, before, x) = Rank(S, before, y)
  PROVE  x = y
<1>1. ASSUME NEW a \in S, NEW b \in S, <<a, b>> \in before PROVE Rank(S, before, a) # Rank(S, before, b)
  BY <1>1, RankGrows
<1>. QED
  BY <1>1 DEF Orders

\* and every rank to some.
LEMMA RankIsSomes ==
  ASSUME NEW S, IsFiniteSet(S), NEW before, Orders(before, S), NEW k \in 0 .. Cardinality(S) - 1
  PROVE  \E x \in S : Rank(S, before, x) = k
<1> DEFINE n == Cardinality(S)
           T == (0 .. n - 1) \ {k}
           rank == [x \in S |-> Rank(S, before, x)]
<1>1. n \in Nat
  BY FS_CardinalityType
<1>2. IsFiniteSet(T) /\ Cardinality(T) = n - 1
  <2>1. IsFiniteSet(0 .. n - 1) /\ Cardinality(0 .. n - 1) = n
    <3>1. 0 \in Int /\ n - 1 \in Int /\ ~ (0 > n - 1) /\ (n - 1) - 0 + 1 = n
      BY <1>1
    <3> HIDE DEF n
    <3>. QED
      BY <3>1, FS_Interval
  <2>2. k \in 0 .. n - 1
    OBVIOUS
  <2> HIDE DEF n
  <2>3. PICK U : U = 0 .. n - 1
    OBVIOUS
  <2>. QED
    BY <2>1, <2>2, <2>3, FS_RemoveElement
<1>3. SUFFICES ASSUME \A x \in S : Rank(S, before, x) # k PROVE FALSE
  OBVIOUS
<1>4. rank \in [S -> T]
  BY <1>3, RankBound
<1>5. Cardinality(T) < n
  BY <1>1, <1>2
<1>6. PICK x, y \in S : x # y /\ rank[x] = rank[y]
  <2> HIDE DEF T, rank
  <2>. QED
    BY <1>2, <1>4, <1>5, FS_PigeonHole
<1>. QED
  BY <1>6, RankIsOnes

\* A sequence that has at each place the element of that rank.
InRanks(seq, S, before) ==
  seq = [k \in 1 .. Cardinality(S) |-> CHOOSE x \in S : Rank(S, before, x) = k - 1]

LEMMA InRanksIs ==
  ASSUME NEW S, IsFiniteSet(S), NEW before, Orders(before, S), NEW seq, InRanks(seq, S, before)
  PROVE  /\ DOMAIN seq = 1 .. Cardinality(S) /\ Cardinality(S) \in Nat
         /\ \A k \in DOMAIN seq : seq[k] \in S
         /\ \A x \in S : \E k \in DOMAIN seq : seq[k] = x
         /\ \A j, k \in DOMAIN seq : j < k => <<seq[j], seq[k]>> \in before
         /\ \A j, k \in DOMAIN seq : seq[j] = seq[k] => j = k
<1>1. DOMAIN seq = 1 .. Cardinality(S) /\ Cardinality(S) \in Nat
  BY FS_CardinalityType DEF InRanks
<1>2. ASSUME NEW k \in DOMAIN seq PROVE seq[k] \in S /\ Rank(S, before, seq[k]) = k - 1
  <2>1. k - 1 \in 0 .. Cardinality(S) - 1
    BY <1>1
  <2>2. \E x \in S : Rank(S, before, x) = k - 1
    BY <2>1, RankIsSomes
  <2>3. seq[k] = CHOOSE x \in S : Rank(S, before, x) = k - 1
    BY <1>1 DEF InRanks
  <2>. QED
    BY <2>2, <2>3, Zenon
<1>3. ASSUME NEW x \in S PROVE \E k \in DOMAIN seq : seq[k] = x
  <2>1. PICK r : r = Rank(S, before, x)
    OBVIOUS
  <2>2. r \in 0 .. Cardinality(S) - 1
    BY <2>1, RankBound
  <2>3. r + 1 \in DOMAIN seq /\ (r + 1) - 1 = r
    BY <1>1, <2>2
  <2>4. seq[r + 1] \in S /\ Rank(S, before, seq[r + 1]) = r
    BY <1>2, <2>3
  <2>. QED
    BY <2>1, <2>3, <2>4, RankIsOnes
<1>4. ASSUME NEW j \in DOMAIN seq, NEW k \in DOMAIN seq, j < k PROVE <<seq[j], seq[k]>> \in before
  <2>1. j \in Nat /\ k \in Nat
    BY <1>1
  <2>2. ASSUME <<seq[k], seq[j]>> \in before PROVE FALSE
    <3>1. Rank(S, before, seq[k]) < Rank(S, before, seq[j])
      BY <1>2, <2>2, RankGrows
    <3>. QED
      BY <1>2, <1>4, <2>1, <3>1
  <2>3. seq[j] # seq[k]
    BY <1>2, <1>4, <2>1
  <2>. QED
    BY <1>2, <2>2, <2>3 DEF Orders
<1>5. ASSUME NEW j \in DOMAIN seq, NEW k \in DOMAIN seq, seq[j] = seq[k] PROVE j = k
  <2>1. j - 1 = k - 1
    BY <1>2, <1>5
  <2>2. j \in Nat /\ k \in Nat
    BY <1>1
  <2>. QED
    BY <2>1, <2>2
<1>. QED
  BY <1>1, <1>2, <1>3, <1>4, <1>5

\* Numbers in ascending and in descending order, and coupons by their first row.
LEMMA Ascending ==
  ASSUME NEW S, S \subseteq Int, IsFiniteSet(S)
  PROVE  /\ DOMAIN InOrder(S, <) = 1 .. Cardinality(S) /\ Cardinality(S) \in Nat
         /\ \A k \in DOMAIN InOrder(S, <) : InOrder(S, <)[k] \in S
<1> DEFINE before == {q \in S \X S : q[1] < q[2]}
           seq == InOrder(S, <)
           chosen(k) == CHOOSE x \in S : Cardinality({y \in S : y < x}) = k - 1
           ranked(k) == CHOOSE x \in S : Rank(S, before, x) = k - 1
<1>1. Orders(before, S)
  BY DEF Orders
<1>2. \A x \in S : {y \in S : y < x} = {y \in S : <<y, x>> \in before}
  OBVIOUS
<1>3. seq = [k \in 1 .. Cardinality(S) |-> chosen(k)]
  BY DEF InOrder
<1>4. \A k : chosen(k) = ranked(k)
  <2> HIDE DEF before
  <2>. QED
    BY <1>2, Zenon DEF Rank
<1>5. seq = [k \in 1 .. Cardinality(S) |-> ranked(k)]
  <2> HIDE DEF seq, before, chosen, ranked
  <2>. QED
    BY <1>3, <1>4
<1>6. InRanks(seq, S, before)
  <2> HIDE DEF seq, before
  <2>. QED
    BY <1>5, Zenon DEF InRanks
<1> HIDE DEF before, seq
<1>7. /\ DOMAIN seq = 1 .. Cardinality(S) /\ Cardinality(S) \in Nat
      /\ \A k \in DOMAIN seq : seq[k] \in S
  BY <1>1, <1>6, InRanksIs
<1>. QED
  BY <1>7 DEF seq

\* The rows' times: each of S once, the latest first.
TimesOf(times, S) ==
  /\ \E n \in Nat : DOMAIN times = 1 .. n
  /\ \A g \in DOMAIN times : times[g] \in S
  /\ \A t \in S : \E g \in DOMAIN times : times[g] = t
  /\ \A g, h \in DOMAIN times : g < h => times[g] > times[h]

LEMMA Descending ==
  ASSUME NEW S, S \subseteq Int, IsFiniteSet(S)
  PROVE  TimesOf(InOrder(S, >), S) /\ DOMAIN InOrder(S, >) = 1 .. Cardinality(S)
<1> DEFINE before == {q \in S \X S : q[1] > q[2]}
           seq == InOrder(S, >)
           chosen(k) == CHOOSE x \in S : Cardinality({y \in S : y > x}) = k - 1
           ranked(k) == CHOOSE x \in S : Rank(S, before, x) = k - 1
<1>1. Orders(before, S)
  BY DEF Orders
<1>2. \A x \in S : {y \in S : y > x} = {y \in S : <<y, x>> \in before}
  OBVIOUS
<1>3. seq = [k \in 1 .. Cardinality(S) |-> chosen(k)]
  BY DEF InOrder
<1>4. \A k : chosen(k) = ranked(k)
  <2> HIDE DEF before
  <2>. QED
    BY <1>2, Zenon DEF Rank
<1>5. seq = [k \in 1 .. Cardinality(S) |-> ranked(k)]
  <2> HIDE DEF seq, before, chosen, ranked
  <2>. QED
    BY <1>3, <1>4
<1>6. InRanks(seq, S, before)
  <2> HIDE DEF seq, before
  <2>. QED
    BY <1>5, Zenon DEF InRanks
<1>7. \A x, y : <<x, y>> \in before => x > y
  OBVIOUS
<1> HIDE DEF before, seq
<1>8. /\ DOMAIN seq = 1 .. Cardinality(S) /\ Cardinality(S) \in Nat
      /\ \A k \in DOMAIN seq : seq[k] \in S
      /\ \A x \in S : \E k \in DOMAIN seq : seq[k] = x
      /\ \A j, k \in DOMAIN seq : j < k => <<seq[j], seq[k]>> \in before
  BY <1>1, <1>6, InRanksIs
<1>9. TimesOf(seq, S)
  BY <1>7, <1>8, Zenon DEF TimesOf
<1>. QED
  BY <1>8, <1>9 DEF seq

\* The coupons in order of their first row.
LEMMA CachedInOrder ==
  ASSUME NEW schedule, NEW n \in Nat, Started(schedule) \subseteq 1 .. n,
         \A i \in Started(schedule) : StartRow(schedule, i) \in Int
  PROVE  LET order == CachedFrom(schedule)
         IN  /\ \E m \in Nat : Len(order) = m /\ DOMAIN order = 1 .. m
             /\ \A k \in DOMAIN order : order[k] \in Started(schedule)
             /\ \A i \in Started(schedule) : \E k \in DOMAIN order : order[k] = i
             /\ \A j, k \in DOMAIN order : order[j] = order[k] => j = k
<1> DEFINE S == Started(schedule)
           from(i) == StartRow(schedule, i)
           sooner(i, j) == from(i) < from(j) \/ (from(i) = from(j) /\ i < j)
           before == {q \in S \X S : sooner(q[1], q[2])}
           seq == CachedFrom(schedule)
           chosen(k) == CHOOSE x \in S : Cardinality({y \in S : sooner(y, x)}) = k - 1
           ranked(k) == CHOOSE x \in S : Rank(S, before, x) = k - 1
<1>1. Orders(before, S)
  <2>1. \A i \in S : from(i) \in Int /\ i \in Int
    OBVIOUS
  <2> HIDE DEF from, S
  <2>2. \A i, j, k \in S : /\ ~ sooner(i, i) /\ (i # j => sooner(i, j) \/ sooner(j, i))
                           /\ sooner(i, j) /\ sooner(j, k) => sooner(i, k)
    BY <2>1
  <2>3. \A i, j \in S : <<i, j>> \in before <=> sooner(i, j)
    OBVIOUS
  <2> HIDE DEF before, sooner
  <2>. QED
    BY <2>2, <2>3, Zenon DEF Orders
<1>2. \A x \in S : {y \in S : sooner(y, x)} = {y \in S : <<y, x>> \in before}
  <2> HIDE DEF sooner, S
  <2>. QED
    OBVIOUS
<1>3. seq = [k \in 1 .. Cardinality(S) |-> chosen(k)]
  BY DEF CachedFrom, InOrder
<1>4. \A k : chosen(k) = ranked(k)
  <2> HIDE DEF before, sooner, S
  <2>. QED
    BY <1>2, Zenon DEF Rank
<1>5. seq = [k \in 1 .. Cardinality(S) |-> ranked(k)]
  <2> HIDE DEF seq, before, chosen, ranked
  <2>. QED
    BY <1>3, <1>4
<1>6. InRanks(seq, S, before)
  <2> HIDE DEF seq, before
  <2>. QED
    BY <1>5, Zenon DEF InRanks
<1>7. IsFiniteSet(S)
  <2>1. IsFiniteSet(1 .. n)
    BY FS_Interval
  <2> HIDE DEF S
  <2>2. S \subseteq 1 .. n
    BY DEF S
  <2>. QED
    BY <2>1, <2>2, FS_Subset
<1> HIDE DEF before, S, seq, ranked
<1>8. /\ DOMAIN seq = 1 .. Cardinality(S) /\ Cardinality(S) \in Nat
      /\ \A k \in DOMAIN seq : seq[k] \in S
      /\ \A x \in S : \E k \in DOMAIN seq : seq[k] = x
      /\ \A j, k \in DOMAIN seq : seq[j] = seq[k] => j = k
  BY <1>1, <1>6, <1>7, InRanksIs
<1>9. Len(seq) = Cardinality(S)
  BY <1>5, <1>8
<1>. QED
  BY <1>8, <1>9, Zenon DEF seq, S

---------------------------------------------------------------------------
(* A cashflow's rows.                                                     *)

\* A coupon ends after it starts.
FlowFits(c) == c.belongs \in Int /\ c.start \in Int /\ c.end \in Int /\ c.estimate \in Int /\ c.start <= c.end

\* A coupon that is whole at a time is whole at any earlier one.
LEMMA CreditIs ==
  ASSUME NEW c, FlowFits(c), NEW t \in Int
  PROVE  /\ Credit(c, t) \in Nat
         /\ ~ Broken(c, t) => Credit(c, t) = c.end - c.start
         /\ \A s \in Int : s <= t /\ ~ Broken(c, t) => ~ Broken(c, s)
<1> DEFINE credit(s) == IF c.end - s <= 0 THEN 0 ELSE IF c.end - s <= c.end - c.start THEN c.end - s ELSE c.end - c.start
<1>1. ASSUME NEW s \in Int PROVE Credit(c, s) = credit(s)
  <2>1. PICK a, b : a = c.end - c.start /\ b = c.end - s
    OBVIOUS
  <2>2. a \in Int /\ b \in Int /\ a >= 0
    BY <2>1 DEF FlowFits
  <2>3. PICK m : m = Min({a, b})
    OBVIOUS
  <2>4. m = IF b <= a THEN b ELSE a
    BY <2>2, <2>3, LesserOfTwo
  <2>5. m \in Int
    BY <2>2, <2>4
  <2>6. Max({0, m}) = IF m <= 0 THEN 0 ELSE m
    BY <2>5, GreaterIsOfTwo
  <2>7. Credit(c, s) = Max({0, m})
    BY <2>1, <2>3 DEF Credit
  <2>. QED
    BY <2>1, <2>2, <2>4, <2>6, <2>7
<1>2. \A s \in Int : Broken(c, s) <=> credit(s) # c.end - c.start
  BY <1>1 DEF Broken
<1>. QED
  BY <1>1, <1>2 DEF FlowFits, Broken

\* A row's flow is estimated where it belongs and is not too late, and it is whole or broken.
Estimated(c, t) == t <= c.belongs /\ t <= c.estimate

\* After the row at t it is in the underlying, in a cache column, or in neither.
InUnder(c, t) == Estimated(c, t) /\ ~ Broken(c, t)
InCache(c, t) == Estimated(c, t) /\ Broken(c, t)
StatusAt(c, t) == IF InUnder(c, t) THEN "done" ELSE IF InCache(c, t) THEN "cached" ELSE "open"

\* The row before row g, if any, and what it left.
LeftBy(times, c, g) == IF g = 1 THEN "open" ELSE StatusAt(c, times[g - 1])

\* A later row is earlier in time, so whatever a row did can be done there.
LEMMA StaysEstimated ==
  ASSUME NEW c, FlowFits(c), NEW t \in Int, NEW s \in Int, s <= t
  PROVE  /\ Estimated(c, t) => Estimated(c, s)
         /\ InUnder(c, t) => InUnder(c, s)
<1>1. Estimated(c, t) => Estimated(c, s)
  BY DEF Estimated, FlowFits
<1>2. ~ Broken(c, t) => ~ Broken(c, s)
  BY CreditIs
<1>. QED
  BY <1>1, <1>2 DEF InUnder

\* What a row does of a status, and the status it leaves.
LEMMA ActsOf ==
  ASSUME NEW c, FlowFits(c), NEW t \in Int, NEW s \in Int, s < t
  PROVE  StatusAfter(StatusAt(c, t), Act(c, StatusAt(c, t), s)) = StatusAt(c, s)
<1>1. /\ Estimated(c, t) => Estimated(c, s)
      /\ InUnder(c, t) => InUnder(c, s)
  BY StaysEstimated
<1>2. CASE InUnder(c, t)
  BY <1>1, <1>2 DEF StatusAt, Act, StatusAfter
<1>3. CASE ~ InUnder(c, t) /\ InCache(c, t)
  <2>1. Estimated(c, s) /\ IsPart(c, s)
    BY <1>1, <1>3 DEF InCache, Estimated, IsPart
  <2>2. StatusAt(c, t) = "cached"
    BY <1>3 DEF StatusAt
  <2>3. CASE Broken(c, s)
    <3>1. StatusAt(c, s) = "cached" /\ Act(c, "cached", s) = "from_cache"
      BY <2>1, <2>3 DEF StatusAt, InUnder, InCache, Act
    <3>. QED
      BY <2>2, <3>1 DEF StatusAfter
  <2>4. CASE ~ Broken(c, s)
    <3>1. StatusAt(c, s) = "done" /\ Act(c, "cached", s) = "cache_to_under"
      BY <2>1, <2>4 DEF StatusAt, InUnder, Act
    <3>. QED
      BY <2>2, <3>1 DEF StatusAfter
  <2>. QED
    BY <2>3, <2>4
<1>4. CASE ~ InUnder(c, t) /\ ~ InCache(c, t)
  <2>1. StatusAt(c, t) = "open"
    BY <1>4 DEF StatusAt
  <2>. QED
    BY <2>1 DEF StatusAfter, Act, StatusAt, InUnder, InCache, Estimated, IsPart
<1>. QED
  BY <1>2, <1>3, <1>4

LEMMA ActsFirst ==
  ASSUME NEW c, NEW s
  PROVE  StatusAfter("open", Act(c, "open", s)) = StatusAt(c, s)
BY DEF StatusAfter, Act, StatusAt, InUnder, InCache, Estimated, IsPart

\* One row of the recursion.
Status(times, c, status, g) ==
  IF g = 1 THEN "open" ELSE StatusAfter(status[g - 1], Act(c, status[g - 1], times[g - 1]))

LEMMA StatusSolves ==
  ASSUME NEW times, NEW c, NEW status, status = [g \in DOMAIN times |-> Status(times, c, status, g)]
  PROVE  StatusBefore(times, c) = [g \in DOMAIN times |-> Status(times, c, StatusBefore(times, c), g)]
BY Zenon DEF StatusBefore, Status

\* What it comes to: what the row before left.
LEMMA StatusStep ==
  ASSUME NEW times, NEW n \in Nat, DOMAIN times = 1 .. n, \A g \in 1 .. n : times[g] \in Int,
         \A g, h \in 1 .. n : g < h => times[g] > times[h],
         NEW c, FlowFits(c), NEW status, NEW g \in 1 .. n, g # 1 => status[g - 1] = LeftBy(times, c, g - 1)
  PROVE  Status(times, c, status, g) = LeftBy(times, c, g)
<1>1. CASE g = 1
  BY <1>1 DEF Status, LeftBy
<1>2. CASE g # 1 /\ g - 1 = 1
  <2>1. status[g - 1] = "open"
    BY <1>2 DEF LeftBy
  <2>2. g # 1
    BY <1>2
  <2>. QED
    BY <2>1, <2>2, ActsFirst DEF Status, LeftBy
<1>3. CASE g # 1 /\ g - 1 # 1
  <2>1. g - 1 \in 1 .. n /\ (g - 1) - 1 \in 1 .. n /\ (g - 1) - 1 < g - 1
    BY <1>3
  <2>2. times[(g - 1) - 1] \in Int /\ times[g - 1] \in Int /\ times[g - 1] < times[(g - 1) - 1]
    BY <2>1
  <2>3. status[g - 1] = StatusAt(c, times[(g - 1) - 1])
    BY <1>3 DEF LeftBy
  <2>4. Status(times, c, status, g) = StatusAfter(status[g - 1], Act(c, status[g - 1], times[g - 1]))
    BY <1>3 DEF Status
  <2>5. LeftBy(times, c, g) = StatusAt(c, times[g - 1])
    BY <1>3 DEF LeftBy
  <2>. QED
    BY <2>2, <2>3, <2>4, <2>5, ActsOf
<1>. QED
  BY <1>1, <1>2, <1>3

\* A flow's status before a row is what the row before left.
LEMMA StatusIs ==
  ASSUME NEW times, NEW n \in Nat, DOMAIN times = 1 .. n, \A g \in 1 .. n : times[g] \in Int,
         \A g, h \in 1 .. n : g < h => times[g] > times[h],
         NEW c, FlowFits(c)
  PROVE  \A g \in 1 .. n : StatusBefore(times, c)[g] = LeftBy(times, c, g)
<1> DEFINE solved == [g \in DOMAIN times |-> LeftBy(times, c, g)]
           wrong == {g \in 1 .. n : StatusBefore(times, c)[g] # LeftBy(times, c, g)}
<1>1. \A g \in DOMAIN times : Status(times, c, solved, g) = solved[g]
  <2>. TAKE g \in DOMAIN times
  <2>1. g \in 1 .. n /\ (g # 1 => g - 1 \in 1 .. n)
    OBVIOUS
  <2>2. g # 1 => solved[g - 1] = LeftBy(times, c, g - 1)
    BY <2>1
  <2>3. solved[g] = LeftBy(times, c, g)
    OBVIOUS
  <2> HIDE DEF solved
  <2>. QED
    BY <2>1, <2>2, <2>3, StatusStep
<1>2. solved = [g \in DOMAIN times |-> Status(times, c, solved, g)]
  <2>1. solved = [g \in DOMAIN times |-> solved[g]]
    OBVIOUS
  <2> HIDE DEF solved
  <2>. QED
    BY <1>1, <2>1
<1>3. PICK status : status = StatusBefore(times, c)
  OBVIOUS
<1>4. status = [g \in DOMAIN times |-> Status(times, c, status, g)]
  <2> HIDE DEF solved
  <2>. QED
    BY <1>2, <1>3, StatusSolves
<1>5. \A g \in 1 .. n : status[g] = Status(times, c, status, g)
  <2>1. PICK rows : rows = [g \in DOMAIN times |-> Status(times, c, status, g)]
    OBVIOUS
  <2>2. \A g \in 1 .. n : rows[g] = Status(times, c, status, g)
    BY <2>1
  <2>. QED
    BY <1>4, <2>1, <2>2
<1>6. SUFFICES ASSUME wrong # {} PROVE FALSE
  BY <1>3
<1>7. PICK g \in wrong : \A h \in wrong : g <= h
  <2>1. wrong \subseteq Nat
    OBVIOUS
  <2> HIDE DEF wrong
  <2>. QED
    BY <1>6, <2>1, SmallestIn
<1>8. g \in 1 .. n /\ status[g] # LeftBy(times, c, g)
  BY <1>3, <1>7
<1>9. g # 1 => status[g - 1] = LeftBy(times, c, g - 1)
  <2>1. SUFFICES ASSUME g # 1 PROVE status[g - 1] = LeftBy(times, c, g - 1)
    OBVIOUS
  <2>2. g - 1 \in 1 .. n /\ ~ (g <= g - 1)
    BY <1>8, <2>1
  <2>3. g - 1 \notin wrong
    BY <1>7, <2>2
  <2>. QED
    BY <1>3, <2>2, <2>3
<1> HIDE DEF wrong, solved
<1>10. Status(times, c, status, g) = LeftBy(times, c, g)
  BY <1>8, <1>9, StatusStep
<1>. QED
  BY <1>5, <1>8, <1>10

\* The times of rows: they fall.
Falling(times, n) == /\ DOMAIN times = 1 .. n
                     /\ \A g \in 1 .. n : times[g] \in Int
                     /\ \A g, h \in 1 .. n : g < h => times[g] > times[h]

\* What is done with a flow on a row, from what that row and the one before hold of it.
DoneWith(act, c, times, g) ==
  LET cached == g # 1 /\ InCache(c, times[g - 1])
      under  == g # 1 /\ InUnder(c, times[g - 1])
  IN  /\ act = "start_cache" <=> InCache(c, times[g]) /\ ~ cached
      /\ act = "from_cache" <=> InCache(c, times[g]) /\ cached
      /\ act = "cache_to_under" <=> InUnder(c, times[g]) /\ cached
      /\ act = "add_pv" <=> InUnder(c, times[g]) /\ ~ cached /\ ~ under
      /\ act = "non_cached" <=> times[g] <= c.belongs /\ ~ InCache(c, times[g]) /\ ~ InUnder(c, times[g])

\* So what is done with a flow on a row follows from that row and the one before.
LEMMA ActIs ==
  ASSUME NEW times, NEW n \in Nat, Falling(times, n), NEW c, FlowFits(c), NEW g \in 1 .. n
  PROVE  DoneWith(Act(c, StatusBefore(times, c)[g], times[g]), c, times, g)
<1>0. /\ DOMAIN times = 1 .. n /\ \A k \in 1 .. n : times[k] \in Int
      /\ \A k, l \in 1 .. n : k < l => times[k] > times[l]
  BY DEF Falling
<1>1. StatusBefore(times, c)[g] = LeftBy(times, c, g)
  BY <1>0, StatusIs
<1>2. CASE g = 1
  <2>1. LeftBy(times, c, g) = "open"
    BY <1>2 DEF LeftBy
  <2>. QED
    BY <1>1, <1>2, <2>1 DEF DoneWith, Act, InCache, InUnder, Estimated, IsPart
<1>3. CASE g # 1
  <2>1. g - 1 \in 1 .. n /\ g - 1 < g
    BY <1>3
  <2>2. PICK s, t : s = times[g] /\ t = times[g - 1]
    OBVIOUS
  <2>3. s \in Int /\ t \in Int /\ s < t
    BY <1>0, <2>1, <2>2
  <2>4. /\ Estimated(c, t) => Estimated(c, s)
        /\ InUnder(c, t) => InUnder(c, s)
    BY <2>3, StaysEstimated
  <2>5. LeftBy(times, c, g) = StatusAt(c, t)
    BY <1>3, <2>2 DEF LeftBy
  <2>6. LET act == Act(c, StatusAt(c, t), s)
        IN  /\ act = "start_cache" <=> InCache(c, s) /\ ~ InCache(c, t)
            /\ act = "from_cache" <=> InCache(c, s) /\ InCache(c, t)
            /\ act = "cache_to_under" <=> InUnder(c, s) /\ InCache(c, t)
            /\ act = "add_pv" <=> InUnder(c, s) /\ ~ InCache(c, t) /\ ~ InUnder(c, t)
            /\ act = "non_cached" <=> s <= c.belongs /\ ~ InCache(c, s) /\ ~ InUnder(c, s)
    <3>1. CASE InUnder(c, t)
      BY <2>4, <3>1 DEF StatusAt, Act, InCache, InUnder, Estimated, IsPart
    <3>2. CASE InCache(c, t)
      BY <2>4, <3>2 DEF StatusAt, Act, InCache, InUnder, Estimated, IsPart
    <3>3. CASE ~ InUnder(c, t) /\ ~ InCache(c, t)
      BY <2>4, <3>3 DEF StatusAt, Act, InCache, InUnder, Estimated, IsPart
    <3>. QED
      BY <3>1, <3>2, <3>3
  <2>. QED
    BY <1>1, <1>3, <2>2, <2>5, <2>6 DEF DoneWith
<1>. QED
  BY <1>2, <1>3

---------------------------------------------------------------------------
(* A date's schedule.                                                     *)

\* What a schedule is made from: some flows, and times from the date on.
PlanFits(p) ==
  /\ \E m \in Nat : DOMAIN Cashflows(p) = 1 .. m
  /\ \A i \in DOMAIN Cashflows(p) : FlowFits(Cashflows(p)[i])
  /\ p.times \subseteq Nat /\ IsFiniteSet(p.times)

\* What the rows up to g leave of a flow: there are none up to 0.
Cached(p, i, g) == g \in DOMAIN RowTimes(p) /\ InCache(Cashflows(p)[i], RowTimes(p)[g])
Under(p, i, g)  == g \in DOMAIN RowTimes(p) /\ InUnder(Cashflows(p)[i], RowTimes(p)[g])

\* The rows are at the times and at 0, the latest first.
LEMMA RowTimesAre ==
  ASSUME NEW p, PlanFits(p)
  PROVE  \E n \in Nat \ {0} :
           /\ DOMAIN RowTimes(p) = 1 .. n
           /\ \A g \in 1 .. n : RowTimes(p)[g] \in Nat
           /\ \A g, h \in 1 .. n : g < h => RowTimes(p)[g] > RowTimes(p)[h]
           /\ \A g \in 1 .. n : RowTimes(p)[g] \in {0} \cup p.times
           /\ \A t \in {0} \cup p.times : \E g \in 1 .. n : RowTimes(p)[g] = t
<1>1. PICK S : S = {0} \cup p.times
  OBVIOUS
<1>2. IsFiniteSet(S)
  <2>1. IsFiniteSet({0}) /\ IsFiniteSet(p.times)
    BY FS_Singleton DEF PlanFits
  <2>. QED
    BY <1>1, <2>1, FS_Union
<1>3. S \subseteq Nat /\ S \subseteq Int /\ 0 \in S
  BY <1>1 DEF PlanFits
<1>4. TimesOf(InOrder(S, >), S)
  BY <1>2, <1>3, Descending
<1>5. RowTimes(p) = InOrder(S, >)
  BY <1>1 DEF RowTimes
<1>6. TimesOf(RowTimes(p), S)
  BY <1>4, <1>5
<1>7. PICK n \in Nat : DOMAIN RowTimes(p) = 1 .. n
  BY <1>6 DEF TimesOf
<1>8. n # 0
  BY <1>3, <1>6, <1>7 DEF TimesOf
<1>. QED
  BY <1>1, <1>3, <1>6, <1>7, <1>8 DEF TimesOf

\* Once in the underlying, a flow stays; it leaves its cache column for the underlying only.
LEMMA StaysUnder ==
  ASSUME NEW p, PlanFits(p), NEW i \in DOMAIN Cashflows(p), NEW g \in DOMAIN RowTimes(p), NEW h \in DOMAIN RowTimes(p),
         g <= h
  PROVE  /\ Under(p, i, g) => Under(p, i, h)
         /\ Cached(p, i, g) => Cached(p, i, h) \/ Under(p, i, h)
         /\ ~ (Cached(p, i, h) /\ Under(p, i, h))
<1>1. PICK n \in Nat \ {0} : /\ DOMAIN RowTimes(p) = 1 .. n
                             /\ \A k \in 1 .. n : RowTimes(p)[k] \in Nat
                             /\ \A k, l \in 1 .. n : k < l => RowTimes(p)[k] > RowTimes(p)[l]
  BY RowTimesAre
<1>2. PICK c, s, t : c = Cashflows(p)[i] /\ t = RowTimes(p)[g] /\ s = RowTimes(p)[h]
  OBVIOUS
<1>3. FlowFits(c) /\ s \in Int /\ t \in Int /\ s <= t
  BY <1>1, <1>2 DEF PlanFits
<1>4. /\ Estimated(c, t) => Estimated(c, s)
      /\ InUnder(c, t) => InUnder(c, s)
  BY <1>3, StaysEstimated
<1>. QED
  BY <1>2, <1>4 DEF Under, Cached, InUnder, InCache

\* The acts of a row in these terms.
LEMMA ScheduleIs ==
  ASSUME NEW p, PlanFits(p)
  PROVE  /\ DOMAIN GridSchedule(p) = DOMAIN RowTimes(p) /\ Len(GridSchedule(p)) \in Nat \ {0}
         /\ DOMAIN GridSchedule(p) = 1 .. Len(GridSchedule(p))
         /\ \A g \in DOMAIN RowTimes(p) :
              LET r == GridSchedule(p)[g]
              IN  /\ r.t = RowTimes(p)[g] /\ (r.is_exercise <=> RowTimes(p)[g] \in p.times)
                  /\ DOMAIN r.acts = DOMAIN Cashflows(p)
                  /\ \A i \in DOMAIN Cashflows(p) :
                       /\ r.acts[i] = "start_cache" <=> Cached(p, i, g) /\ ~ Cached(p, i, g - 1)
                       /\ r.acts[i] = "from_cache" <=> Cached(p, i, g) /\ Cached(p, i, g - 1)
                       /\ r.acts[i] = "cache_to_under" <=> Under(p, i, g) /\ Cached(p, i, g - 1)
                       /\ r.acts[i] = "add_pv" <=> Under(p, i, g) /\ ~ Cached(p, i, g - 1) /\ ~ Under(p, i, g - 1)
                       /\ r.acts[i] = "non_cached" <=>
                            RowTimes(p)[g] <= Cashflows(p)[i].belongs /\ ~ Cached(p, i, g) /\ ~ Under(p, i, g)
<1>1. PICK n \in Nat \ {0} : /\ DOMAIN RowTimes(p) = 1 .. n
                             /\ \A k \in 1 .. n : RowTimes(p)[k] \in Nat
                             /\ \A k, l \in 1 .. n : k < l => RowTimes(p)[k] > RowTimes(p)[l]
  BY RowTimesAre
<1>2. PICK times, flows : times = RowTimes(p) /\ flows = Cashflows(p)
  OBVIOUS
<1> DEFINE acts(g) == [i \in DOMAIN flows |-> Act(flows[i], StatusBefore(times, flows[i])[g], times[g])]
           rows == [g \in DOMAIN times |-> [t |-> times[g], is_exercise |-> times[g] \in p.times,
                                            rollback |-> g > 1, acts |-> acts(g)]]
<1>3. GridSchedule(p) = rows
  BY <1>2 DEF GridSchedule
<1>4. DOMAIN rows = 1 .. n /\ Len(rows) = n
  BY <1>1, <1>2
<1>5. ASSUME NEW g \in 1 .. n, NEW i \in DOMAIN flows
      PROVE  /\ acts(g)[i] = "start_cache" <=> Cached(p, i, g) /\ ~ Cached(p, i, g - 1)
             /\ acts(g)[i] = "from_cache" <=> Cached(p, i, g) /\ Cached(p, i, g - 1)
             /\ acts(g)[i] = "cache_to_under" <=> Under(p, i, g) /\ Cached(p, i, g - 1)
             /\ acts(g)[i] = "add_pv" <=> Under(p, i, g) /\ ~ Cached(p, i, g - 1) /\ ~ Under(p, i, g - 1)
             /\ acts(g)[i] = "non_cached" <=> times[g] <= flows[i].belongs /\ ~ Cached(p, i, g) /\ ~ Under(p, i, g)
  <2>1. PICK c : c = flows[i]
    OBVIOUS
  <2>2. FlowFits(c)
    BY <1>2, <2>1 DEF PlanFits
  <2>3. PICK act : act = Act(c, StatusBefore(times, c)[g], times[g])
    OBVIOUS
  <2>4. acts(g)[i] = act
    BY <2>1, <2>3
  <2>5. /\ act = "start_cache" <=> InCache(c, times[g]) /\ ~ (g # 1 /\ InCache(c, times[g - 1]))
        /\ act = "from_cache" <=> InCache(c, times[g]) /\ g # 1 /\ InCache(c, times[g - 1])
        /\ act = "cache_to_under" <=> InUnder(c, times[g]) /\ g # 1 /\ InCache(c, times[g - 1])
        /\ act = "add_pv" <=> InUnder(c, times[g]) /\ ~ (g # 1 /\ InCache(c, times[g - 1]))
                                /\ ~ (g # 1 /\ InUnder(c, times[g - 1]))
        /\ act = "non_cached" <=> times[g] <= c.belongs /\ ~ InCache(c, times[g]) /\ ~ InUnder(c, times[g])
    <3>1. Falling(times, n)
      BY <1>1, <1>2 DEF Falling
    <3>2. DoneWith(act, c, times, g)
      BY <2>2, <2>3, <3>1, ActIs
    <3>. QED
      BY <3>2 DEF DoneWith
  <2>6. g \in DOMAIN times /\ (g # 1 <=> g - 1 \in DOMAIN times)
    BY <1>1, <1>2
  <2> HIDE DEF acts
  <2>. QED
    BY <1>2, <2>1, <2>4, <2>5, <2>6 DEF Cached, Under
<1>6. \A g \in 1 .. n : /\ rows[g].t = times[g] /\ (rows[g].is_exercise <=> times[g] \in p.times)
                        /\ DOMAIN rows[g].acts = DOMAIN flows /\ rows[g].acts = acts(g)
  BY <1>1, <1>2
<1> HIDE DEF rows, acts
<1>. QED
  BY <1>1, <1>2, <1>3, <1>4, <1>5, <1>6

\* The least of some numbers.
LEMMA LeastIs ==
  ASSUME NEW S, S \subseteq Nat, S # {}
  PROVE  Min(S) \in S /\ \A y \in S : Min(S) <= y
BY SmallestIn DEF Min

\* The rows that start a flow's cache column, and those that move it.
LEMMA RowsOfAct ==
  ASSUME NEW p, PlanFits(p), NEW i \in DOMAIN Cashflows(p)
  PROVE  /\ RowsOf(GridSchedule(p), i, "start_cache") = {g \in DOMAIN RowTimes(p) : Cached(p, i, g) /\ ~ Cached(p, i, g - 1)}
         /\ RowsOf(GridSchedule(p), i, "cache_to_under") = {g \in DOMAIN RowTimes(p) : Under(p, i, g) /\ Cached(p, i, g - 1)}
         /\ RowsOf(GridSchedule(p), i, "start_cache") \subseteq Nat
         /\ RowsOf(GridSchedule(p), i, "cache_to_under") \subseteq Nat
<1>1. PICK schedule : schedule = GridSchedule(p)
  OBVIOUS
<1>2. /\ DOMAIN schedule = DOMAIN RowTimes(p) /\ \E n \in Nat : DOMAIN schedule = 1 .. n
      /\ \A g \in DOMAIN RowTimes(p) :
           /\ schedule[g].acts[i] = "start_cache" <=> Cached(p, i, g) /\ ~ Cached(p, i, g - 1)
           /\ schedule[g].acts[i] = "cache_to_under" <=> Under(p, i, g) /\ Cached(p, i, g - 1)
  BY <1>1, ScheduleIs
<1>. QED
  BY <1>1, <1>2 DEF RowsOf

\* A coupon in a cache column has its row of start behind it and its row of end not.
LEMMA CachedBetween ==
  ASSUME NEW p, PlanFits(p), NEW i \in DOMAIN Cashflows(p), NEW g \in DOMAIN RowTimes(p), Cached(p, i, g)
  PROVE  /\ i \in Started(GridSchedule(p))
         /\ StartRow(GridSchedule(p), i) <= g /\ g <= EndRow(GridSchedule(p), i)
         /\ g + 1 \in DOMAIN RowTimes(p) => g + 1 <= EndRow(GridSchedule(p), i)
<1>1. PICK n \in Nat \ {0} : /\ DOMAIN RowTimes(p) = 1 .. n /\ Len(GridSchedule(p)) = n
                             /\ DOMAIN GridSchedule(p)[1].acts = DOMAIN Cashflows(p)
  <2>1. 1 \in 1 .. Len(GridSchedule(p))
    BY ScheduleIs
  <2>. QED
    BY <2>1, ScheduleIs
<1>2. PICK starts, moved : /\ starts = RowsOf(GridSchedule(p), i, "start_cache")
                           /\ moved = RowsOf(GridSchedule(p), i, "cache_to_under")
  OBVIOUS
<1>3. /\ starts = {h \in 1 .. n : Cached(p, i, h) /\ ~ Cached(p, i, h - 1)}
      /\ moved = {h \in 1 .. n : Under(p, i, h) /\ Cached(p, i, h - 1)}
  BY <1>1, <1>2, RowsOfAct
<1>4. \E h \in starts : h <= g
  <2>1. PICK cached : cached = {h \in 1 .. n : Cached(p, i, h)}
    OBVIOUS
  <2>2. g \in cached /\ cached \subseteq Nat
    BY <1>1, <2>1
  <2>3. PICK h \in cached : \A k \in cached : h <= k
    BY <2>2, SmallestIn
  <2>4. ~ Cached(p, i, h - 1)
    <3>1. SUFFICES ASSUME Cached(p, i, h - 1) PROVE FALSE
      OBVIOUS
    <3>2. h - 1 \in 1 .. n
      BY <1>1, <3>1 DEF Cached
    <3>3. h - 1 \in cached
      BY <2>1, <3>1, <3>2
    <3>4. h <= h - 1
      BY <2>3, <3>3
    <3>. QED
      BY <2>2, <2>3, <3>4
  <2>. QED
    BY <1>3, <2>1, <2>2, <2>3, <2>4
<1>5. StartRow(GridSchedule(p), i) <= g
  <2>1. PICK h \in starts : h <= g
    BY <1>4
  <2>2. starts \subseteq Nat /\ starts # {}
    BY <1>3, <2>1
  <2>3. Min(starts) \in starts /\ Min(starts) <= h
    BY <2>1, <2>2, LeastIs
  <2>4. StartRow(GridSchedule(p), i) = Min(starts)
    BY <1>2 DEF StartRow
  <2>. QED
    BY <1>1, <2>1, <2>2, <2>3, <2>4
<1>6. i \in Started(GridSchedule(p))
  BY <1>1, <1>2, <1>4 DEF Started
<1>7. ASSUME NEW e \in moved PROVE g < e
  <2>1. e \in 1 .. n /\ Under(p, i, e)
    BY <1>3, <1>7
  <2>2. ASSUME e <= g PROVE FALSE
    BY <1>1, <2>1, <2>2, StaysUnder
  <2>. QED
    BY <1>1, <2>1, <2>2
<1>8. g <= EndRow(GridSchedule(p), i) /\ (g + 1 \in 1 .. n => g + 1 <= EndRow(GridSchedule(p), i))
  <2>1. CASE moved = {}
    <3>1. EndRow(GridSchedule(p), i) = n
      BY <1>1, <1>2, <2>1 DEF EndRow
    <3>. QED
      BY <1>1, <3>1
  <2>2. CASE moved # {}
    <3>1. EndRow(GridSchedule(p), i) = Min(moved)
      BY <1>2, <2>2 DEF EndRow
    <3>2. moved \subseteq Nat
      BY <1>3
    <3>3. Min(moved) \in moved
      BY <2>2, <3>2, LeastIs
    <3>. QED
      BY <1>1, <1>7, <3>1, <3>2, <3>3
  <2>. QED
    BY <2>1, <2>2
<1>. QED
  BY <1>1, <1>5, <1>6, <1>8

\* A coupon that has a column starts there before it ends.
LEMMA StartsAndEnds ==
  ASSUME NEW p, PlanFits(p), NEW i \in Started(GridSchedule(p))
  PROVE  /\ i \in DOMAIN Cashflows(p)
         /\ StartRow(GridSchedule(p), i) \in Nat /\ EndRow(GridSchedule(p), i) \in Nat
         /\ StartRow(GridSchedule(p), i) <= EndRow(GridSchedule(p), i)
         /\ StartRow(GridSchedule(p), i) \in DOMAIN RowTimes(p)
         /\ Cached(p, i, StartRow(GridSchedule(p), i))
<1>1. /\ Len(GridSchedule(p)) \in Nat
      /\ \E n \in Nat : DOMAIN RowTimes(p) = 1 .. n
      /\ DOMAIN GridSchedule(p)[1].acts = DOMAIN Cashflows(p)
  <2>1. 1 \in 1 .. Len(GridSchedule(p))
    BY ScheduleIs
  <2>. QED
    BY <2>1, ScheduleIs
<1>2. i \in DOMAIN Cashflows(p) /\ RowsOf(GridSchedule(p), i, "start_cache") # {}
  BY <1>1 DEF Started
<1>3. PICK starts, moved : /\ starts = RowsOf(GridSchedule(p), i, "start_cache")
                           /\ moved = RowsOf(GridSchedule(p), i, "cache_to_under")
  OBVIOUS
<1>4. /\ starts = {h \in DOMAIN RowTimes(p) : Cached(p, i, h) /\ ~ Cached(p, i, h - 1)}
      /\ starts \subseteq Nat /\ moved \subseteq Nat
  BY <1>2, <1>3, RowsOfAct
<1>5. StartRow(GridSchedule(p), i) \in starts
  <2>1. Min(starts) \in starts
    BY <1>2, <1>3, <1>4, LeastIs
  <2>. QED
    BY <1>3, <2>1 DEF StartRow
<1>6. EndRow(GridSchedule(p), i) \in Nat
  <2>1. moved # {} => Min(moved) \in moved
    BY <1>4, LeastIs
  <2>. QED
    BY <1>1, <1>3, <1>4, <2>1 DEF EndRow
<1>7. StartRow(GridSchedule(p), i) \in DOMAIN RowTimes(p) /\ Cached(p, i, StartRow(GridSchedule(p), i))
  BY <1>4, <1>5
<1>8. StartRow(GridSchedule(p), i) <= EndRow(GridSchedule(p), i)
  BY <1>2, <1>7, CachedBetween
<1>. QED
  BY <1>2, <1>4, <1>5, <1>6, <1>7, <1>8

\* The row that moves a coupon to the underlying is its end, and it started before.
LEMMA MovesAtEnd ==
  ASSUME NEW p, PlanFits(p), NEW i \in DOMAIN Cashflows(p), NEW g \in DOMAIN RowTimes(p), Under(p, i, g), Cached(p, i, g - 1)
  PROVE  /\ i \in Started(GridSchedule(p))
         /\ StartRow(GridSchedule(p), i) <= g - 1 /\ EndRow(GridSchedule(p), i) = g
<1>1. PICK n \in Nat : DOMAIN RowTimes(p) = 1 .. n
  BY RowTimesAre
<1>2. g - 1 \in DOMAIN RowTimes(p)
  BY DEF Cached
<1>3. PICK moved : moved = RowsOf(GridSchedule(p), i, "cache_to_under")
  OBVIOUS
<1>4. moved = {h \in 1 .. n : Under(p, i, h) /\ Cached(p, i, h - 1)} /\ moved \subseteq Nat
  BY <1>1, <1>3, RowsOfAct
<1>5. g \in moved
  BY <1>1, <1>4
<1>6. Min(moved) \in moved /\ Min(moved) <= g
  BY <1>4, <1>5, LeastIs
<1>7. Min(moved) = g
  <2>1. PICK e : e = Min(moved)
    OBVIOUS
  <2>2. e \in 1 .. n /\ Under(p, i, e) /\ e <= g
    BY <1>4, <1>6, <2>1
  <2>3. ASSUME e <= g - 1 PROVE FALSE
    BY <1>1, <1>2, <2>2, <2>3, StaysUnder
  <2>. QED
    BY <1>1, <2>1, <2>2, <2>3
<1>8. EndRow(GridSchedule(p), i) = g
  BY <1>3, <1>5, <1>7 DEF EndRow
<1>. QED
  BY <1>2, <1>8, CachedBetween

---------------------------------------------------------------------------
(* The cache columns.                                                     *)

RowsFit(schedule) ==
  \A i \in Started(schedule) :
    /\ StartRow(schedule, i) \in Nat /\ EndRow(schedule, i) \in Nat
    /\ StartRow(schedule, i) <= EndRow(schedule, i)

\* One is over before the other starts.
Apart(schedule, i, j) ==
  EndRow(schedule, i) < StartRow(schedule, j) \/ EndRow(schedule, j) < StartRow(schedule, i)

\* The coupons given a column so far have one each, are over by its last row, and never meet in it.
SlotsFit(schedule, slots, given) ==
  /\ slots.busy \in Seq(Nat)
  /\ DOMAIN slots.slot = Started(schedule)
  /\ \A i \in given : slots.slot[i] \in 1 .. Len(slots.busy) /\ EndRow(schedule, i) <= slots.busy[slots.slot[i]]
  /\ \A i, j \in given : i # j /\ slots.slot[i] = slots.slot[j] => Apart(schedule, i, j)

\* Giving another coupon a column that is free keeps it so.
LEMMA TakeSlotKeeps ==
  ASSUME NEW schedule, RowsFit(schedule), NEW slots, NEW given, given \subseteq Started(schedule),
         SlotsFit(schedule, slots, given), NEW i \in Started(schedule)
  PROVE  SlotsFit(schedule, TakeSlot(schedule, slots, i), given \cup {i})
<1>1. PICK busy, slot, start, end, free :
        /\ busy = slots.busy /\ slot = slots.slot /\ start = StartRow(schedule, i) /\ end = EndRow(schedule, i)
        /\ free = {k \in DOMAIN busy : busy[k] < start}
  OBVIOUS
<1>2. /\ busy \in Seq(Nat) /\ DOMAIN slot = Started(schedule) /\ start \in Nat /\ end \in Nat /\ start <= end
      /\ \A j \in given : slot[j] \in 1 .. Len(busy) /\ EndRow(schedule, j) <= busy[slot[j]] /\ EndRow(schedule, j) \in Nat
      /\ \A j, k \in given : j # k /\ slot[j] = slot[k] => Apart(schedule, j, k)
  BY <1>1 DEF SlotsFit, RowsFit
<1>3. PICK filled : filled = TakeSlot(schedule, slots, i)
  OBVIOUS
<1>4. CASE free = {}
  <2>1. filled = [busy |-> Append(busy, end), slot |-> [slot EXCEPT ![i] = Len(busy) + 1]]
    BY <1>1, <1>3, <1>4 DEF TakeSlot, InSlot
  <2>2. /\ filled.busy \in Seq(Nat) /\ Len(filled.busy) = Len(busy) + 1 /\ Len(busy) \in Nat
        /\ \A k \in 1 .. Len(busy) : filled.busy[k] = busy[k]
        /\ filled.busy[Len(busy) + 1] = end
    BY <1>2, <2>1
  <2>3. /\ DOMAIN filled.slot = DOMAIN slot /\ filled.slot[i] = Len(busy) + 1
        /\ \A j \in given \ {i} : filled.slot[j] = slot[j]
    BY <1>2, <2>1
  <2>4. ASSUME NEW j \in given \cup {i}
        PROVE  filled.slot[j] \in 1 .. Len(filled.busy) /\ EndRow(schedule, j) <= filled.busy[filled.slot[j]]
    <3>1. CASE j = i
      BY <1>1, <1>2, <2>2, <2>3, <3>1
    <3>2. CASE j \in given \ {i}
      <4>1. filled.slot[j] = slot[j] /\ slot[j] \in 1 .. Len(busy)
        BY <1>2, <2>3, <3>2
      <4>2. filled.busy[filled.slot[j]] = busy[slot[j]]
        BY <2>2, <4>1
      <4>. QED
        BY <1>2, <2>2, <3>2, <4>1, <4>2
    <3>. QED
      BY <3>1, <3>2
  <2>5. ASSUME NEW j \in given \cup {i}, NEW k \in given \cup {i}, j # k, filled.slot[j] = filled.slot[k]
        PROVE  Apart(schedule, j, k)
    <3>1. \A l \in given \ {i} : filled.slot[l] # filled.slot[i]
      BY <1>2, <2>2, <2>3
    <3>2. j \in given \ {i} /\ k \in given \ {i}
      BY <2>5, <3>1
    <3>. QED
      BY <1>2, <2>3, <2>5, <3>2
  <2>. QED
    BY <1>2, <1>3, <2>2, <2>3, <2>4, <2>5 DEF SlotsFit
<1>5. CASE free # {}
  <2>1. free \subseteq Nat
    BY <1>1, <1>2
  <2>2. PICK f : f = Min(free)
    OBVIOUS
  <2>3. f \in 1 .. Len(busy) /\ busy[f] < start
    <3>1. f \in free
      BY <1>5, <2>1, <2>2, LeastIs
    <3>. QED
      BY <1>1, <1>2, <3>1
  <2>4. filled = [busy |-> [busy EXCEPT ![f] = end], slot |-> [slot EXCEPT ![i] = f]]
    BY <1>1, <1>3, <1>5, <2>2 DEF TakeSlot, InSlot
  <2>5. /\ filled.busy \in Seq(Nat) /\ Len(filled.busy) = Len(busy) /\ Len(busy) \in Nat
        /\ \A k \in 1 .. Len(busy) : filled.busy[k] = IF k = f THEN end ELSE busy[k]
    BY <1>2, <2>3, <2>4
  <2>6. /\ DOMAIN filled.slot = DOMAIN slot /\ filled.slot[i] = f
        /\ \A j \in given \ {i} : filled.slot[j] = slot[j]
    BY <1>2, <2>4
  <2>7. ASSUME NEW j \in given \ {i}, slot[j] = f PROVE EndRow(schedule, j) < start
    BY <1>2, <2>3, <2>7
  <2>8. ASSUME NEW j \in given \cup {i}
        PROVE  filled.slot[j] \in 1 .. Len(filled.busy) /\ EndRow(schedule, j) <= filled.busy[filled.slot[j]]
    <3>1. CASE j = i
      <4>1. EndRow(schedule, j) = end /\ filled.slot[j] = f
        BY <1>1, <2>6, <3>1
      <4>2. filled.busy[f] = end /\ f \in 1 .. Len(filled.busy) /\ end <= end
        BY <1>2, <2>3, <2>5
      <4>. QED
        BY <4>1, <4>2
    <3>2. CASE j \in given \ {i} /\ slot[j] = f
      BY <1>2, <2>3, <2>5, <2>6, <2>7, <3>2
    <3>3. CASE j \in given \ {i} /\ slot[j] # f
      BY <1>2, <2>3, <2>5, <2>6, <3>3
    <3>. QED
      BY <3>1, <3>2, <3>3
  <2>9. ASSUME NEW j \in given \cup {i}, NEW k \in given \cup {i}, j # k, filled.slot[j] = filled.slot[k]
        PROVE  Apart(schedule, j, k)
    <3>1. CASE j \in given \ {i} /\ k \in given \ {i}
      BY <1>2, <2>6, <2>9, <3>1
    <3>2. CASE j = i /\ k \in given \ {i}
      BY <1>1, <2>6, <2>7, <2>9, <3>2 DEF Apart
    <3>3. CASE k = i /\ j \in given \ {i}
      BY <1>1, <2>6, <2>7, <2>9, <3>3 DEF Apart
    <3>. QED
      BY <2>9, <3>1, <3>2, <3>3
  <2>. QED
    BY <1>2, <1>3, <2>5, <2>6, <2>8, <2>9 DEF SlotsFit
<1>. QED
  BY <1>4, <1>5

\* One step of the recursion.
Filled(schedule, order, filled, n) ==
  IF n = 0 THEN [busy |-> <<>>, slot |-> [i \in Started(schedule) |-> 0]]
  ELSE TakeSlot(schedule, filled[n - 1], order[n])

AllFilled(schedule, order, filled, m) == filled = [n \in 0 .. m |-> Filled(schedule, order, filled, n)]

\* There is a function that solves it.
LEMMA TakenExists ==
  ASSUME NEW schedule, NEW order, NEW size \in Nat
  PROVE  \E filled : AllFilled(schedule, order, filled, size)
<1> DEFINE bad == {m \in 0 .. size : ~ \E filled : AllFilled(schedule, order, filled, m)}
<1>1. SUFFICES ASSUME bad # {} PROVE FALSE
  OBVIOUS
<1>2. PICK m \in bad : \A k \in bad : m <= k
  <2>1. bad \subseteq Nat
    OBVIOUS
  <2> HIDE DEF bad
  <2>. QED
    BY <1>1, <2>1, SmallestIn
<1>3. CASE m = 0
  <2> DEFINE first == [n \in 0 .. 0 |-> [busy |-> <<>>, slot |-> [i \in Started(schedule) |-> 0]]]
  <2>1. \A n \in 0 .. 0 : Filled(schedule, order, first, n) = first[n]
    BY DEF Filled
  <2>2. first = [n \in 0 .. 0 |-> first[n]]
    OBVIOUS
  <2> HIDE DEF first
  <2>3. first = [n \in 0 .. 0 |-> Filled(schedule, order, first, n)]
    BY <2>1, <2>2
  <2>4. AllFilled(schedule, order, first, m)
    BY <1>3, <2>3 DEF AllFilled
  <2>. QED
    BY <1>2, <2>4
<1>4. CASE m # 0
  <2>1. m \in 0 .. size /\ m - 1 \in 0 .. size /\ ~ (m <= m - 1)
    BY <1>2, <1>4
  <2>2. PICK filled : AllFilled(schedule, order, filled, m - 1)
    BY <1>2, <2>1
  <2> DEFINE more == [n \in 0 .. m |-> IF n = m THEN Filled(schedule, order, filled, m) ELSE filled[n]]
  <2>3. \A n \in 0 .. m - 1 : filled[n] = Filled(schedule, order, filled, n)
    <3>1. PICK rows : rows = [n \in 0 .. m - 1 |-> Filled(schedule, order, filled, n)]
      OBVIOUS
    <3>2. \A n \in 0 .. m - 1 : rows[n] = Filled(schedule, order, filled, n)
      BY <3>1
    <3>. QED
      BY <2>2, <3>1, <3>2 DEF AllFilled
  <2>4. /\ \A n \in 0 .. m : more[n] = IF n = m THEN Filled(schedule, order, filled, m) ELSE filled[n]
        /\ more = [n \in 0 .. m |-> more[n]]
    OBVIOUS
  <2> HIDE DEF more
  <2>5. ASSUME NEW n \in 0 .. m PROVE Filled(schedule, order, more, n) = Filled(schedule, order, filled, n)
    <3>1. n # 0 => n - 1 \in 0 .. m /\ n - 1 # m
      BY <2>1
    <3>2. n # 0 => more[n - 1] = filled[n - 1]
      BY <2>4, <3>1
    <3>. QED
      BY <3>2 DEF Filled
  <2>6. ASSUME NEW n \in 0 .. m PROVE more[n] = Filled(schedule, order, more, n)
    <3>1. CASE n = m
      BY <2>4, <2>5, <3>1
    <3>2. CASE n # m
      <4>1. n \in 0 .. m - 1
        BY <2>1, <3>2
      <4>. QED
        BY <2>3, <2>4, <2>5, <3>2, <4>1
    <3>. QED
      BY <3>1, <3>2
  <2>7. AllFilled(schedule, order, more, m)
    BY <2>4, <2>6 DEF AllFilled
  <2>. QED
    BY <1>2, <2>7
<1>. QED
  BY <1>3, <1>4

LEMMA SlotsAreTaken ==
  ASSUME NEW schedule, Len(CachedFrom(schedule)) \in Nat
  PROVE  \E filled : /\ AllFilled(schedule, CachedFrom(schedule), filled, Len(CachedFrom(schedule)))
                    /\ cache_slots(schedule) = filled[Len(CachedFrom(schedule))]
<1> DEFINE chosen == CHOOSE filled : AllFilled(schedule, CachedFrom(schedule), filled, Len(CachedFrom(schedule)))
<1>1. AllFilled(schedule, CachedFrom(schedule), chosen, Len(CachedFrom(schedule)))
  BY TakenExists, Zenon
<1>2. cache_slots(schedule) = chosen[Len(CachedFrom(schedule))]
  BY Zenon DEF cache_slots, AllFilled, Filled
<1>. QED
  BY <1>1, <1>2, Zenon

\* So every coupon that needs a column has one, to itself while it needs it.
LEMMA SlotsAre ==
  ASSUME NEW p, PlanFits(p)
  PROVE  SlotsFit(GridSchedule(p), cache_slots(GridSchedule(p)), Started(GridSchedule(p)))
<1>1. PICK schedule : schedule = GridSchedule(p)
  OBVIOUS
<1>2. RowsFit(schedule) /\ \A i \in Started(schedule) : StartRow(schedule, i) \in Int
  BY <1>1, StartsAndEnds DEF RowsFit
<1>3. PICK m \in Nat : Started(schedule) \subseteq 1 .. m
  <2>1. PICK m \in Nat : DOMAIN Cashflows(p) = 1 .. m
    BY DEF PlanFits
  <2>. QED
    BY <1>1, <2>1, StartsAndEnds
<1>4. PICK order : order = CachedFrom(schedule)
  OBVIOUS
<1>5. PICK size \in Nat : /\ Len(order) = size /\ DOMAIN order = 1 .. size
                          /\ \A k \in DOMAIN order : order[k] \in Started(schedule)
                          /\ \A i \in Started(schedule) : \E k \in DOMAIN order : order[k] = i
  BY <1>2, <1>3, <1>4, CachedInOrder
<1>6. PICK filled : AllFilled(schedule, order, filled, size) /\ cache_slots(schedule) = filled[size]
  BY <1>4, <1>5, SlotsAreTaken
<1>7. \A n \in 0 .. size : filled[n] = Filled(schedule, order, filled, n)
  <2>1. PICK rows : rows = [n \in 0 .. size |-> Filled(schedule, order, filled, n)]
    OBVIOUS
  <2>2. \A n \in 0 .. size : rows[n] = Filled(schedule, order, filled, n)
    BY <2>1
  <2>. QED
    BY <1>6, <2>1, <2>2 DEF AllFilled
<1> DEFINE given(n) == {order[k] : k \in 1 .. n}
           bad == {n \in 0 .. size : ~ SlotsFit(schedule, filled[n], given(n))}
<1>8. SlotsFit(schedule, filled[size], given(size))
  <2>0. size \in 0 .. size
    OBVIOUS
  <2>1. SUFFICES ASSUME bad # {} PROVE FALSE
    <3>1. bad = {} => size \notin {n \in 0 .. size : ~ SlotsFit(schedule, filled[n], given(n))}
      OBVIOUS
    <3> HIDE DEF bad, given
    <3>. QED
      BY <2>0, <3>1
  <2>2. PICK n \in bad : \A k \in bad : n <= k
    <3>1. bad \subseteq Nat
      OBVIOUS
    <3> HIDE DEF bad
    <3>. QED
      BY <2>1, <3>1, SmallestIn
  <2>3. CASE n = 0
    <3>1. filled[n] = [busy |-> <<>>, slot |-> [i \in Started(schedule) |-> 0]]
      BY <1>7, <2>3 DEF Filled
    <3>2. given(n) = {}
      BY <2>3
    <3> HIDE DEF given
    <3>3. /\ filled[n].busy = <<>> /\ <<>> \in Seq(Nat)
          /\ DOMAIN filled[n].slot = Started(schedule)
      BY <3>1
    <3>4. SlotsFit(schedule, filled[n], given(n))
      BY <3>2, <3>3 DEF SlotsFit
    <3>. QED
      BY <2>2, <3>4
  <2>4. CASE n # 0
    <3>1. n \in 1 .. size /\ n - 1 \in 0 .. size /\ ~ (n <= n - 1)
      BY <2>2, <2>4
    <3>2. SlotsFit(schedule, filled[n - 1], given(n - 1))
      <4>1. n - 1 \notin bad
        BY <2>2, <3>1
      <4>. QED
        BY <3>1, <4>1
    <3>3. filled[n] = TakeSlot(schedule, filled[n - 1], order[n])
      BY <1>7, <2>4, <3>1 DEF Filled
    <3>4. order[n] \in Started(schedule) /\ given(n - 1) \subseteq Started(schedule)
      BY <1>5, <3>1
    <3>5. given(n) = given(n - 1) \cup {order[n]}
      <4>1. 1 .. n = (1 .. n - 1) \cup {n}
        BY <3>1
      <4>. QED
        BY <4>1
    <3>6. SlotsFit(schedule, filled[n], given(n - 1) \cup {order[n]})
      <4> HIDE DEF given
      <4>. QED
        BY <1>2, <3>2, <3>3, <3>4, TakeSlotKeeps
    <3>. QED
      BY <2>2, <3>5, <3>6
  <2>. QED
    BY <2>3, <2>4
<1>9. given(size) = Started(schedule)
  BY <1>5
<1>. QED
  BY <1>1, <1>6, <1>8, <1>9

---------------------------------------------------------------------------
(* The induction's rows.                                                  *)

\* The coupon has the k-th cache column.
Holds(p, k, i) == i \in Started(GridSchedule(p)) /\ cache_slots(GridSchedule(p)).slot[i] = k

\* What a row of the induction is, over so many cache columns.
RowIs(p, g, r, width) ==
  /\ r.t = RowTimes(p)[g] /\ (r.is_exercise <=> r.t \in p.times)
  /\ \A i \in DOMAIN Cashflows(p) :
       LET c == Cashflows(p)[i]
       IN  /\ r.provisional[i] = IF r.t <= c.belongs /\ ~ Cached(p, i, g) /\ ~ Under(p, i, g) THEN Credit(c, r.t) ELSE 0
           /\ r.add[i] = IF Under(p, i, g) /\ ~ Cached(p, i, g - 1) /\ ~ Under(p, i, g - 1) THEN c.end - c.start ELSE 0
  /\ DOMAIN r.starts = 1 .. width /\ DOMAIN r.moves = 1 .. width /\ DOMAIN r.shares = 1 .. width
  /\ \A k \in 1 .. width :
       /\ r.starts[k] = {i \in DOMAIN Cashflows(p) : Holds(p, k, i) /\ Cached(p, i, g) /\ ~ Cached(p, i, g - 1)}
       /\ r.moves[k] <=> \E i \in DOMAIN Cashflows(p) : Holds(p, k, i) /\ Under(p, i, g) /\ Cached(p, i, g - 1)
       /\ r.shares[k] \in Int
       /\ \A i \in DOMAIN Cashflows(p) : Holds(p, k, i) /\ Cached(p, i, g) => r.shares[k] = Credit(Cashflows(p)[i], r.t)

\* Of the coupons with one column, one at most needs it on a row.
LEMMA AloneInSlot ==
  ASSUME NEW p, PlanFits(p), NEW g \in DOMAIN RowTimes(p), NEW k, NEW i \in DOMAIN Cashflows(p), NEW j \in DOMAIN Cashflows(p),
         Holds(p, k, i), Holds(p, k, j),
         Cached(p, i, g) \/ Cached(p, i, g - 1), Cached(p, j, g) \/ Cached(p, j, g - 1)
  PROVE  i = j
<1>1. PICK schedule : schedule = GridSchedule(p)
  OBVIOUS
<1>2. \E n \in Nat : DOMAIN RowTimes(p) = 1 .. n
  BY RowTimesAre
<1>3. ASSUME NEW c \in DOMAIN Cashflows(p), Cached(p, c, g) \/ Cached(p, c, g - 1)
      PROVE  /\ c \in Started(schedule) /\ StartRow(schedule, c) <= g /\ g <= EndRow(schedule, c)
             /\ StartRow(schedule, c) \in Nat /\ EndRow(schedule, c) \in Nat
  <2>1. CASE Cached(p, c, g)
    BY <1>1, <2>1, CachedBetween, StartsAndEnds
  <2>2. CASE Cached(p, c, g - 1)
    <3>1. g - 1 \in DOMAIN RowTimes(p) /\ (g - 1) + 1 = g
      BY <1>2, <2>2 DEF Cached
    <3>2. c \in Started(schedule) /\ StartRow(schedule, c) <= g - 1 /\ (g - 1) + 1 <= EndRow(schedule, c)
      BY <1>1, <2>2, <3>1, CachedBetween
    <3>3. StartRow(schedule, c) \in Nat /\ EndRow(schedule, c) \in Nat
      BY <1>1, <3>2, StartsAndEnds
    <3>. QED
      BY <1>2, <3>1, <3>2, <3>3
  <2>. QED
    BY <1>3, <2>1, <2>2
<1>4. ~ Apart(schedule, i, j)
  BY <1>2, <1>3 DEF Apart
<1>5. i # j => Apart(schedule, i, j)
  BY <1>1, <1>3, SlotsAre DEF SlotsFit, Holds
<1>. QED
  BY <1>4, <1>5

\* The amounts of several places together are a total.
LEMMA TogetherIs == \A amounts, places : Together(amounts, places) = Total(amounts, places)
BY Zenon DEF Together, Total

\* A total with one amount is that amount.
LEMMA TogetherOfOne ==
  ASSUME NEW places, IsFiniteSet(places), NEW amounts, NEW a \in places, amounts[a] \in Int,
         \A x \in places \ {a} : amounts[x] = 0
  PROVE  Together(amounts, places) = amounts[a]
<1>1. \A x \in places : amounts[x] \in Int
  OBVIOUS
<1>2. Total(amounts, places) = amounts[a] + Total(amounts, places \ {a})
  BY <1>1, TotalSteps
<1>3. Total(amounts, places \ {a}) = 0
  <2>1. IsFiniteSet(places \ {a})
    BY FS_Subset
  <2>. QED
    BY <2>1, TotalOfNothing
<1>. QED
  BY <1>2, <1>3, TogetherIs

\* Each row of a date's induction is what its schedule says.
LEMMA InductionRowIs ==
  ASSUME NEW p, PlanFits(p), NEW g \in DOMAIN RowTimes(p)
  PROVE  RowIs(p, g, InductionRow(p, GridSchedule(p)[g], cache_slots(GridSchedule(p))),
               Len(cache_slots(GridSchedule(p)).busy))
<1>1. PICK schedule, slots, flows, r, t :
        /\ schedule = GridSchedule(p) /\ slots = cache_slots(schedule) /\ flows = Cashflows(p)
        /\ r = schedule[g] /\ t = RowTimes(p)[g]
  OBVIOUS
<1>2. PICK width \in Nat : width = Len(slots.busy) /\ DOMAIN slots.busy = 1 .. width /\ DOMAIN slots.slot = Started(schedule)
  BY <1>1, SlotsAre DEF SlotsFit
<1>3. /\ r.t = t /\ (r.is_exercise <=> t \in p.times)
      /\ \A i \in DOMAIN flows :
           /\ r.acts[i] = "start_cache" <=> Cached(p, i, g) /\ ~ Cached(p, i, g - 1)
           /\ r.acts[i] = "from_cache" <=> Cached(p, i, g) /\ Cached(p, i, g - 1)
           /\ r.acts[i] = "cache_to_under" <=> Under(p, i, g) /\ Cached(p, i, g - 1)
           /\ r.acts[i] = "add_pv" <=> Under(p, i, g) /\ ~ Cached(p, i, g - 1) /\ ~ Under(p, i, g - 1)
           /\ r.acts[i] = "non_cached" <=> t <= flows[i].belongs /\ ~ Cached(p, i, g) /\ ~ Under(p, i, g)
  BY <1>1, ScheduleIs
<1>4. t \in Nat /\ \A i \in DOMAIN flows : FlowFits(flows[i])
  BY <1>1, RowTimesAre DEF PlanFits
<1>5. Started(schedule) \subseteq DOMAIN flows /\ \A i, k : Holds(p, k, i) <=> i \in Started(schedule) /\ slots.slot[i] = k
  BY <1>1, StartsAndEnds DEF Holds
<1> DEFINE credits == [i \in DOMAIN flows |-> Credit(flows[i], r.t)]
           held(k, acts) == {i \in DOMAIN slots.slot : slots.slot[i] = k /\ r.acts[i] \in acts}
           sharing(k) == held(k, {"from_cache", "start_cache"})
<1>6. IsFiniteSet(DOMAIN flows)
  <2>1. PICK m \in Nat : DOMAIN flows = 1 .. m
    BY <1>1 DEF PlanFits
  <2>2. IsFiniteSet(1 .. m)
    BY FS_Interval
  <2>. QED
    BY <2>1, <2>2
<1>7. ASSUME NEW k \in 1 .. width
      PROVE  /\ Together(credits, sharing(k)) \in Int
             /\ \A i \in DOMAIN flows : Holds(p, k, i) /\ Cached(p, i, g) => Together(credits, sharing(k)) = Credit(flows[i], t)
  <2>1. sharing(k) = {i \in DOMAIN flows : Holds(p, k, i) /\ Cached(p, i, g)}
    BY <1>2, <1>3, <1>5
  <2>2. \A i \in DOMAIN flows : credits[i] = Credit(flows[i], t) /\ credits[i] \in Int
    BY <1>3, <1>4, CreditIs
  <2> HIDE DEF sharing, credits
  <2>3. IsFiniteSet(sharing(k)) /\ sharing(k) \subseteq DOMAIN flows
    BY <1>6, <2>1, FS_Subset
  <2>4. Together(credits, sharing(k)) \in Int
    BY <2>2, <2>3, TogetherIs, TotalSteps
  <2>5. ASSUME NEW i \in DOMAIN flows, Holds(p, k, i), Cached(p, i, g)
        PROVE  Together(credits, sharing(k)) = Credit(flows[i], t)
    <3>1. \A x \in sharing(k) : x = i
      BY <1>1, <2>1, <2>5, AloneInSlot
    <3>2. i \in sharing(k)
      BY <2>1, <2>5
    <3>3. Together(credits, sharing(k)) = credits[i]
      BY <2>2, <2>3, <3>1, <3>2, TogetherOfOne
    <3>. QED
      BY <2>2, <3>3
  <2>. QED
    BY <2>4, <2>5
<1> DEFINE made == [t |-> r.t, is_exercise |-> r.is_exercise, rollback |-> r.rollback,
                    provisional |-> [i \in DOMAIN flows |-> IF r.acts[i] = "non_cached" THEN Credit(flows[i], r.t) ELSE 0],
                    add |-> [i \in DOMAIN flows |-> IF r.acts[i] = "add_pv" THEN flows[i].end - flows[i].start ELSE 0],
                    starts |-> [k \in DOMAIN slots.busy |-> held(k, {"start_cache"})],
                    moves |-> [k \in DOMAIN slots.busy |-> held(k, {"cache_to_under"}) # {}],
                    shares |-> [k \in DOMAIN slots.busy |-> Together(credits, sharing(k))]]
<1>8. InductionRow(p, r, slots) = made
  BY <1>1 DEF InductionRow
<1>9. \A k \in 1 .. width :
        /\ held(k, {"start_cache"}) = {i \in DOMAIN flows : Holds(p, k, i) /\ Cached(p, i, g) /\ ~ Cached(p, i, g - 1)}
        /\ held(k, {"cache_to_under"}) # {} <=> \E i \in DOMAIN flows : Holds(p, k, i) /\ Under(p, i, g) /\ Cached(p, i, g - 1)
  BY <1>2, <1>3, <1>5
<1>10. RowIs(p, g, made, width)
  <2> HIDE DEF held, sharing, credits
  <2>1. /\ made.t = t /\ (made.is_exercise <=> t \in p.times)
        /\ \A i \in DOMAIN flows :
             /\ made.provisional[i] = IF t <= flows[i].belongs /\ ~ Cached(p, i, g) /\ ~ Under(p, i, g) THEN Credit(flows[i], t) ELSE 0
             /\ made.add[i] = IF Under(p, i, g) /\ ~ Cached(p, i, g - 1) /\ ~ Under(p, i, g - 1)
                              THEN flows[i].end - flows[i].start ELSE 0
    BY <1>3
  <2>2. /\ DOMAIN made.starts = 1 .. width /\ DOMAIN made.moves = 1 .. width /\ DOMAIN made.shares = 1 .. width
        /\ \A k \in 1 .. width : /\ made.starts[k] = held(k, {"start_cache"})
                                 /\ made.moves[k] <=> held(k, {"cache_to_under"}) # {}
                                 /\ made.shares[k] = Together(credits, sharing(k))
    BY <1>2
  <2> HIDE DEF made
  <2>. QED
    BY <1>1, <1>7, <1>9, <2>1, <2>2 DEF RowIs
<1> HIDE DEF made
<1>. QED
  BY <1>1, <1>2, <1>8, <1>10

---------------------------------------------------------------------------
(* The induction's columns.                                               *)

\* A row that pads.
Idle(p, r, width) ==
  /\ r.is_exercise = FALSE
  /\ \A i \in DOMAIN Cashflows(p) : r.provisional[i] = 0 /\ r.add[i] = 0
  /\ DOMAIN r.starts = 1 .. width /\ DOMAIN r.moves = 1 .. width /\ DOMAIN r.shares = 1 .. width
  /\ \A k \in 1 .. width : r.starts[k] = {} /\ r.moves[k] = FALSE

\* What a date's columns hold after so many of its rows.
ColumnIs(p, g, col, width) ==
  /\ DOMAIN col.underlying = DOMAIN Cashflows(p) /\ DOMAIN col.cache = 1 .. width
  /\ \A i \in DOMAIN Cashflows(p) :
       /\ col.underlying[i] = IF Under(p, i, g) THEN Cashflows(p)[i].end - Cashflows(p)[i].start ELSE 0
       /\ \A k \in 1 .. width : col.cache[k][i] = IF Holds(p, k, i) /\ Cached(p, i, g) THEN 1 ELSE 0

\* There is nothing in them before the first row,
LEMMA NoughtIs ==
  ASSUME NEW p, PlanFits(p), NEW col, NEW width \in Nat,
         DOMAIN col.underlying = DOMAIN Cashflows(p), DOMAIN col.cache = 1 .. width,
         \A i \in DOMAIN Cashflows(p) : col.underlying[i] = 0 /\ \A k \in 1 .. width : col.cache[k][i] = 0
  PROVE  ColumnIs(p, 0, col, width)
<1>1. 0 \notin DOMAIN RowTimes(p)
  <2>1. PICK n \in Nat : DOMAIN RowTimes(p) = 1 .. n
    BY RowTimesAre
  <2>. QED
    BY <2>1
<1>. QED
  BY <1>1 DEF ColumnIs, Under, Cached

\* What moves into a flow's underlying column.
Moved(flows, col, r, i) ==
  (flows[i].end - flows[i].start) * Cardinality({k \in DOMAIN r.moves : r.moves[k] /\ col.cache[k][i] = 1})

CacheAfter(col, r, k, i) ==
  IF r.moves[k] THEN 0 ELSE IF r.starts[k] # {} THEN (IF i \in r.starts[k] THEN 1 ELSE 0) ELSE col.cache[k][i]

LEMMA AfterRowIs ==
  ASSUME NEW p, NEW col, NEW r, NEW width, DOMAIN col.cache = 1 .. width
  PROVE  LET after == AfterRow(col, r, p)
         IN  /\ DOMAIN after.underlying = DOMAIN Cashflows(p) /\ DOMAIN after.cache = 1 .. width
             /\ \A i \in DOMAIN Cashflows(p) :
                  /\ after.underlying[i] = col.underlying[i] + r.add[i] + Moved(Cashflows(p), col, r, i)
                  /\ \A k \in 1 .. width : after.cache[k][i] = CacheAfter(col, r, k, i)
<1> DEFINE flows == Cashflows(p)
           moved(i) == (flows[i].end - flows[i].start) * Cardinality({k \in DOMAIN r.moves : r.moves[k] /\ col.cache[k][i] = 1})
           cached(k, i) == IF r.moves[k] THEN 0
                           ELSE IF r.starts[k] # {} THEN (IF i \in r.starts[k] THEN 1 ELSE 0) ELSE col.cache[k][i]
           made == [underlying |-> [i \in DOMAIN flows |-> col.underlying[i] + r.add[i] + moved(i)],
                    cache |-> [k \in DOMAIN col.cache |-> [i \in DOMAIN flows |-> cached(k, i)]]]
<1>1. AfterRow(col, r, p) = made
  BY DEF AfterRow
<1>2. \A i : moved(i) = Moved(flows, col, r, i)
  BY Zenon DEF Moved
<1>3. \A k, i : cached(k, i) = CacheAfter(col, r, k, i)
  BY Zenon DEF CacheAfter
<1> HIDE DEF moved, cached, flows
<1>4. /\ DOMAIN made.underlying = DOMAIN flows /\ DOMAIN made.cache = 1 .. width
      /\ \A i \in DOMAIN flows : /\ made.underlying[i] = col.underlying[i] + r.add[i] + moved(i)
                                 /\ \A k \in 1 .. width : made.cache[k][i] = cached(k, i)
  OBVIOUS
<1> HIDE DEF made
<1>. QED
  BY <1>1, <1>2, <1>3, <1>4 DEF flows

\* nothing after a row that pads,
LEMMA IdleKeeps ==
  ASSUME NEW p, PlanFits(p), NEW col, NEW width \in Nat, NEW g, ColumnIs(p, g, col, width), NEW r, Idle(p, r, width)
  PROVE  ColumnIs(p, g, AfterRow(col, r, p), width)
<1>1. PICK after : after = AfterRow(col, r, p)
  OBVIOUS
<1>2. /\ DOMAIN after.underlying = DOMAIN Cashflows(p) /\ DOMAIN after.cache = 1 .. width
      /\ \A i \in DOMAIN Cashflows(p) :
           /\ after.underlying[i] = col.underlying[i] + r.add[i] + Moved(Cashflows(p), col, r, i)
           /\ \A k \in 1 .. width : after.cache[k][i] = CacheAfter(col, r, k, i)
  BY <1>1, AfterRowIs DEF ColumnIs
<1>3. ASSUME NEW i \in DOMAIN Cashflows(p) PROVE Moved(Cashflows(p), col, r, i) = 0
  <2>1. {k \in DOMAIN r.moves : r.moves[k] /\ col.cache[k][i] = 1} = {}
    BY DEF Idle
  <2>2. Cardinality({}) = 0
    BY FS_EmptySet
  <2>3. PICK length : length = Cashflows(p)[i].end - Cashflows(p)[i].start
    OBVIOUS
  <2>4. length \in Int
    BY <2>3 DEF PlanFits, FlowFits
  <2>5. Moved(Cashflows(p), col, r, i) = length * Cardinality({})
    BY <2>1, <2>3, Zenon DEF Moved
  <2>. QED
    BY <2>2, <2>4, <2>5
<1>4. ASSUME NEW i \in DOMAIN Cashflows(p) PROVE after.underlying[i] = col.underlying[i]
  <2>1. col.underlying[i] \in Int
    BY DEF ColumnIs, PlanFits, FlowFits
  <2>. QED
    BY <1>2, <1>3, <2>1 DEF Idle
<1>5. \A i \in DOMAIN Cashflows(p), k \in 1 .. width : after.cache[k][i] = col.cache[k][i]
  BY <1>2 DEF Idle, CacheAfter
<1>6. ColumnIs(p, g, after, width)
  BY <1>2, <1>4, <1>5 DEF ColumnIs
<1>. QED
  BY <1>1, <1>6

\* and after each row what that row leaves.
LEMMA RowKeeps ==
  ASSUME NEW p, PlanFits(p), NEW g \in DOMAIN RowTimes(p), NEW width \in Nat, NEW col, ColumnIs(p, g - 1, col, width),
         NEW r, RowIs(p, g, r, width), Len(cache_slots(GridSchedule(p)).busy) <= width
  PROVE  ColumnIs(p, g, AfterRow(col, r, p), width)
<1>1. PICK after, flows : after = AfterRow(col, r, p) /\ flows = Cashflows(p)
  OBVIOUS
<1>2. /\ DOMAIN after.underlying = DOMAIN flows /\ DOMAIN after.cache = 1 .. width
      /\ \A i \in DOMAIN flows :
           /\ after.underlying[i] = col.underlying[i] + r.add[i] + Moved(flows, col, r, i)
           /\ \A k \in 1 .. width : after.cache[k][i] = CacheAfter(col, r, k, i)
  BY <1>1, AfterRowIs DEF ColumnIs
<1>3. PICK n \in Nat : DOMAIN RowTimes(p) = 1 .. n
  BY RowTimesAre
<1>4. ASSUME NEW i \in DOMAIN flows
      PROVE  /\ Under(p, i, g - 1) => Under(p, i, g)
             /\ Cached(p, i, g - 1) => Cached(p, i, g) \/ Under(p, i, g)
             /\ ~ (Cached(p, i, g) /\ Under(p, i, g)) /\ ~ (Cached(p, i, g - 1) /\ Under(p, i, g - 1))
  <2>1. CASE g - 1 \in DOMAIN RowTimes(p)
    <3>1. g - 1 <= g /\ g - 1 <= g - 1
      BY <1>3
    <3>. QED
      BY <1>1, <2>1, <3>1, StaysUnder
  <2>2. CASE g - 1 \notin DOMAIN RowTimes(p)
    <3>1. g <= g
      BY <1>3
    <3>2. ~ (Cached(p, i, g) /\ Under(p, i, g))
      BY <1>1, <3>1, StaysUnder
    <3>. QED
      BY <2>2, <3>2 DEF Cached, Under
  <2>. QED
    BY <2>1, <2>2
<1>5. ASSUME NEW k, NEW i \in DOMAIN flows, NEW j \in DOMAIN flows, Holds(p, k, i), Holds(p, k, j),
             Cached(p, i, g) \/ Cached(p, i, g - 1), Cached(p, j, g) \/ Cached(p, j, g - 1)
      PROVE  i = j
  BY <1>1, <1>5, AloneInSlot
<1>6. \A k \in 1 .. width :
        /\ r.starts[k] = {i \in DOMAIN flows : Holds(p, k, i) /\ Cached(p, i, g) /\ ~ Cached(p, i, g - 1)}
        /\ r.moves[k] <=> \E i \in DOMAIN flows : Holds(p, k, i) /\ Under(p, i, g) /\ Cached(p, i, g - 1)
  BY <1>1 DEF RowIs
<1>7. ASSUME NEW i \in DOMAIN flows, NEW k \in 1 .. width
      PROVE  after.cache[k][i] = IF Holds(p, k, i) /\ Cached(p, i, g) THEN 1 ELSE 0
  <2>1. after.cache[k][i] = CacheAfter(col, r, k, i)
    BY <1>2
  <2>2. col.cache[k][i] = IF Holds(p, k, i) /\ Cached(p, i, g - 1) THEN 1 ELSE 0
    BY <1>1 DEF ColumnIs
  <2>3. CASE r.moves[k]
    <3>1. PICK j \in DOMAIN flows : Holds(p, k, j) /\ Under(p, j, g) /\ Cached(p, j, g - 1)
      BY <1>6, <2>3
    <3>2. ~ (Holds(p, k, i) /\ Cached(p, i, g))
      BY <1>4, <1>5, <3>1
    <3>. QED
      BY <2>1, <2>3, <3>2 DEF CacheAfter
  <2>4. CASE ~ r.moves[k] /\ r.starts[k] # {}
    <3>1. PICK j \in DOMAIN flows : Holds(p, k, j) /\ Cached(p, j, g) /\ ~ Cached(p, j, g - 1)
      BY <1>6, <2>4
    <3>2. Holds(p, k, i) /\ Cached(p, i, g) => i = j
      BY <1>5, <3>1
    <3>3. i \in r.starts[k] <=> Holds(p, k, i) /\ Cached(p, i, g)
      BY <1>6, <3>1, <3>2
    <3>. QED
      BY <2>1, <2>4, <3>3 DEF CacheAfter
  <2>5. CASE ~ r.moves[k] /\ r.starts[k] = {}
    <3>1. Holds(p, k, i) /\ Cached(p, i, g) <=> Holds(p, k, i) /\ Cached(p, i, g - 1)
      BY <1>4, <1>6, <2>5
    <3>. QED
      BY <2>1, <2>2, <2>5, <3>1 DEF CacheAfter
  <2>. QED
    BY <2>3, <2>4, <2>5
<1>8. ASSUME NEW i \in DOMAIN flows
      PROVE  after.underlying[i] = IF Under(p, i, g) THEN flows[i].end - flows[i].start ELSE 0
  <2> DEFINE moving == {k \in DOMAIN r.moves : r.moves[k] /\ col.cache[k][i] = 1}
  <2>1. PICK length : length = flows[i].end - flows[i].start
    OBVIOUS
  <2>2. length \in Int
    BY <1>1, <2>1 DEF PlanFits, FlowFits
  <2>3. DOMAIN r.moves = 1 .. width
    BY DEF RowIs
  <2>4. \A k \in 1 .. width : col.cache[k][i] = IF Holds(p, k, i) /\ Cached(p, i, g - 1) THEN 1 ELSE 0
    BY <1>1 DEF ColumnIs
  <2>5. ASSUME NEW k \in moving PROVE Holds(p, k, i) /\ Cached(p, i, g - 1) /\ Under(p, i, g)
    <3>1. k \in 1 .. width /\ r.moves[k] /\ Holds(p, k, i) /\ Cached(p, i, g - 1)
      BY <2>3, <2>4
    <3>2. PICK j \in DOMAIN flows : Holds(p, k, j) /\ Under(p, j, g) /\ Cached(p, j, g - 1)
      BY <1>6, <3>1
    <3>3. i = j
      BY <1>5, <3>1, <3>2
    <3>. QED
      BY <3>1, <3>2, <3>3
  <2>6. Cardinality(moving) = IF Under(p, i, g) /\ Cached(p, i, g - 1) THEN 1 ELSE 0
    <3>1. CASE Under(p, i, g) /\ Cached(p, i, g - 1)
      <4>1. i \in Started(GridSchedule(p))
        BY <1>1, <3>1, MovesAtEnd
      <4>2. PICK k : k = cache_slots(GridSchedule(p)).slot[i]
        OBVIOUS
      <4>3. k \in 1 .. Len(cache_slots(GridSchedule(p)).busy) /\ Len(cache_slots(GridSchedule(p)).busy) \in Nat
        BY <4>1, <4>2, SlotsAre DEF SlotsFit
      <4>4. k \in 1 .. width /\ Holds(p, k, i)
        BY <4>1, <4>2, <4>3 DEF Holds
      <4>5. k \in moving
        BY <1>6, <2>3, <2>4, <3>1, <4>4
      <4>6. \A l \in moving : l = k
        BY <2>5, <4>2 DEF Holds
      <4> HIDE DEF moving
      <4>7. moving = {k}
        BY <4>5, <4>6
      <4>8. Cardinality({k}) = 1
        BY FS_Singleton
      <4>. QED
        BY <3>1, <4>7, <4>8
    <3>2. CASE ~ (Under(p, i, g) /\ Cached(p, i, g - 1))
      <4>1. moving = {}
        BY <2>5, <3>2
      <4> HIDE DEF moving
      <4>2. Cardinality({}) = 0
        BY FS_EmptySet
      <4>. QED
        BY <3>2, <4>1, <4>2
    <3>. QED
      BY <3>1, <3>2
  <2>7. Moved(flows, col, r, i) = length * Cardinality(moving)
    BY <2>1, Zenon DEF Moved
  <2>8. /\ col.underlying[i] = IF Under(p, i, g - 1) THEN length ELSE 0
        /\ r.add[i] = IF Under(p, i, g) /\ ~ Cached(p, i, g - 1) /\ ~ Under(p, i, g - 1) THEN length ELSE 0
    BY <1>1, <2>1 DEF ColumnIs, RowIs
  <2>9. after.underlying[i] = col.underlying[i] + r.add[i] + Moved(flows, col, r, i)
    BY <1>2
  <2>10. Moved(flows, col, r, i) = IF Under(p, i, g) /\ Cached(p, i, g - 1) THEN length ELSE 0
    <3> HIDE DEF moving
    <3>. QED
      BY <2>2, <2>6, <2>7
  <2>. QED
    BY <1>4, <2>1, <2>2, <2>8, <2>9, <2>10
<1>9. ColumnIs(p, g, after, width)
  BY <1>1, <1>2, <1>7, <1>8 DEF ColumnIs
<1>. QED
  BY <1>1, <1>9

\* The exercise value credits every coupon that belongs to the exercise its share.
LEMMA ExerciseIs ==
  ASSUME NEW p, PlanFits(p), NEW g \in DOMAIN RowTimes(p), NEW width \in Nat, NEW col, ColumnIs(p, g, col, width),
         NEW r, RowIs(p, g, r, width), Len(cache_slots(GridSchedule(p)).busy) <= width,
         NEW i \in DOMAIN Cashflows(p)
  PROVE  ExerciseValue(col, r)[i] = IF r.t <= Cashflows(p)[i].belongs THEN Credit(Cashflows(p)[i], r.t) ELSE 0
<1> DEFINE amounts == [k \in DOMAIN r.shares |-> r.shares[k] * col.cache[k][i]]
           shared == Together(amounts, DOMAIN r.shares)
<1>1. PICK c, t, credit : c = Cashflows(p)[i] /\ t = RowTimes(p)[g] /\ credit = Credit(c, t)
  OBVIOUS
<1>2. r.t = t /\ t \in Nat /\ FlowFits(c)
  BY <1>1, RowTimesAre DEF RowIs, PlanFits
<1>3. credit \in Nat /\ (~ Broken(c, t) => credit = c.end - c.start) /\ c.end - c.start \in Int
  <2>1. t \in Int
    BY <1>2
  <2>2. Credit(c, t) \in Nat /\ (~ Broken(c, t) => Credit(c, t) = c.end - c.start)
    BY <1>2, <2>1, CreditIs
  <2>. QED
    BY <1>1, <1>2, <2>2 DEF FlowFits
<1>4. ExerciseValue(col, r)[i] = col.underlying[i] + r.provisional[i] + shared
  <2>1. i \in DOMAIN col.underlying
    BY DEF ColumnIs
  <2> DEFINE sum(j) == Together([k \in DOMAIN r.shares |-> r.shares[k] * col.cache[k][j]], DOMAIN r.shares)
  <2>2. ExerciseValue(col, r) = [j \in DOMAIN col.underlying |-> col.underlying[j] + r.provisional[j] + sum(j)]
    BY DEF ExerciseValue
  <2>3. sum(i) = shared
    OBVIOUS
  <2> HIDE DEF sum, shared
  <2>. QED
    BY <2>1, <2>2, <2>3
<1>5. /\ DOMAIN r.shares = 1 .. width
      /\ \A k \in 1 .. width : /\ r.shares[k] \in Int
                               /\ Holds(p, k, i) /\ Cached(p, i, g) => r.shares[k] = credit
                               /\ col.cache[k][i] = IF Holds(p, k, i) /\ Cached(p, i, g) THEN 1 ELSE 0
  BY <1>1, <1>2 DEF RowIs, ColumnIs
<1>6. \A k \in 1 .. width : amounts[k] = IF Holds(p, k, i) /\ Cached(p, i, g) THEN credit ELSE 0
  BY <1>3, <1>5
<1>7. IsFiniteSet(1 .. width)
  BY FS_Interval
<1>8. shared = IF Cached(p, i, g) THEN credit ELSE 0
  <2>1. CASE Cached(p, i, g)
    <3>1. i \in Started(GridSchedule(p))
      BY <2>1, CachedBetween
    <3>2. PICK k : k = cache_slots(GridSchedule(p)).slot[i]
      OBVIOUS
    <3>3. k \in 1 .. Len(cache_slots(GridSchedule(p)).busy) /\ Len(cache_slots(GridSchedule(p)).busy) \in Nat
      BY <3>1, <3>2, SlotsAre DEF SlotsFit
    <3>4. k \in 1 .. width /\ Holds(p, k, i) /\ \A l \in (1 .. width) \ {k} : ~ Holds(p, l, i)
      BY <3>1, <3>2, <3>3 DEF Holds
    <3>5. amounts[k] = credit /\ \A l \in (1 .. width) \ {k} : amounts[l] = 0
      BY <1>6, <2>1, <3>4
    <3>6. Together(amounts, 1 .. width) = credit
      <4> HIDE DEF amounts
      <4>. QED
        BY <1>3, <1>7, <3>4, <3>5, TogetherOfOne
    <3>. QED
      BY <1>5, <2>1, <3>6
  <2>2. CASE ~ Cached(p, i, g)
    <3>1. \A k \in 1 .. width : amounts[k] = 0
      BY <1>6, <2>2
    <3>2. Together(amounts, 1 .. width) = 0
      <4> HIDE DEF amounts
      <4>. QED
        BY <1>7, <3>1, TogetherIs, TotalOfNothing
    <3>. QED
      BY <1>5, <2>2, <3>2
  <2>. QED
    BY <2>1, <2>2
<1>9. /\ col.underlying[i] = IF Under(p, i, g) THEN c.end - c.start ELSE 0
      /\ r.provisional[i] = IF t <= c.belongs /\ ~ Cached(p, i, g) /\ ~ Under(p, i, g) THEN credit ELSE 0
  BY <1>1, <1>2 DEF ColumnIs, RowIs
<1>10. /\ Under(p, i, g) => t <= c.belongs /\ ~ Broken(c, t) /\ ~ Cached(p, i, g)
       /\ Cached(p, i, g) => t <= c.belongs
  BY <1>1 DEF Under, Cached, InUnder, InCache, Estimated
<1> HIDE DEF shared
<1>. QED
  BY <1>1, <1>2, <1>3, <1>4, <1>8, <1>9, <1>10

---------------------------------------------------------------------------
(* The coupons under an exercise.                                         *)

\* A sequence so long.
Listed(seq, n) == seq = [k \in 1 .. n |-> seq[k]]

\* One sequence after another.
JoinOf(c, a, b) == c = a \o b

LEMMA JoinIs ==
  ASSUME NEW m \in Nat, NEW n \in Nat, NEW a, NEW b, Listed(a, m), Listed(b, n), NEW c, JoinOf(c, a, b)
  PROVE  /\ Len(a) = m /\ Len(b) = n /\ Len(c) = m + n /\ DOMAIN c = 1 .. m + n /\ Listed(c, m + n)
         /\ \A k \in 1 .. m : c[k] = a[k]
         /\ \A k \in 1 .. n : c[m + k] = b[k]
<1> DEFINE S == {a[k] : k \in 1 .. m} \cup {b[k] : k \in 1 .. n}
<1>1. a \in [1 .. m -> S] /\ b \in [1 .. n -> S]
  <2>1. [k \in 1 .. m |-> a[k]] \in [1 .. m -> S] /\ [k \in 1 .. n |-> b[k]] \in [1 .. n -> S]
    OBVIOUS
  <2> HIDE DEF S
  <2>. QED
    BY <2>1 DEF Listed
<1> HIDE DEF S
<1>2. a \in Seq(S) /\ b \in Seq(S) /\ Len(a) = m /\ Len(b) = n
  BY <1>1
<1>3. /\ a \o b \in Seq(S) /\ Len(a \o b) = m + n
      /\ \A k \in 1 .. m + n : (a \o b)[k] = IF k <= m THEN a[k] ELSE b[k - m]
  BY <1>2, ConcatProperties
<1>5. c \in Seq(S) /\ Len(c) = m + n /\ \A k \in 1 .. m + n : c[k] = IF k <= m THEN a[k] ELSE b[k - m]
  BY <1>3 DEF JoinOf
<1>6. DOMAIN c = 1 .. m + n /\ Listed(c, m + n)
  BY <1>5 DEF Listed
<1>7. ASSUME NEW k \in 1 .. n PROVE c[m + k] = b[k]
  <2>1. m + k \in 1 .. m + n /\ ~ (m + k <= m) /\ (m + k) - m = k
    OBVIOUS
  <2>. QED
    BY <1>5, <2>1
<1>8. ASSUME NEW k \in 1 .. m PROVE c[k] = a[k]
  <2>1. k \in 1 .. m + n /\ k <= m
    OBVIOUS
  <2>. QED
    BY <1>5, <2>1
<1>. QED
  BY <1>2, <1>5, <1>6, <1>7, <1>8

\* A row's parts.
RowMade(p, r, width) ==
  /\ DOMAIN r = {"t", "is_exercise", "rollback", "provisional", "add", "starts", "moves", "shares"}
  /\ DOMAIN r.provisional = DOMAIN Cashflows(p) /\ DOMAIN r.add = DOMAIN Cashflows(p)
  /\ Listed(r.starts, width) /\ Listed(r.moves, width) /\ Listed(r.shares, width)

LEMMA InductionRowMade ==
  ASSUME NEW p, PlanFits(p), NEW g
  PROVE  RowMade(p, InductionRow(p, GridSchedule(p)[g], cache_slots(GridSchedule(p))),
                 Len(cache_slots(GridSchedule(p)).busy))
<1>1. PICK slots, r : slots = cache_slots(GridSchedule(p)) /\ r = GridSchedule(p)[g]
  OBVIOUS
<1>2. DOMAIN slots.busy = 1 .. Len(slots.busy)
  BY <1>1, SlotsAre DEF SlotsFit
<1> DEFINE flows == Cashflows(p)
           credit(i) == IF r.acts[i] = "non_cached" THEN Credit(flows[i], r.t) ELSE 0
           added(i) == IF r.acts[i] = "add_pv" THEN flows[i].end - flows[i].start ELSE 0
           held(k, acts) == {i \in DOMAIN slots.slot : slots.slot[i] = k /\ r.acts[i] \in acts}
           starting(k) == held(k, {"start_cache"})
           moving(k) == held(k, {"cache_to_under"}) # {}
           shared(k) == Together([i \in DOMAIN flows |-> Credit(flows[i], r.t)], held(k, {"from_cache", "start_cache"}))
           made == [t |-> r.t, is_exercise |-> r.is_exercise, rollback |-> r.rollback,
                    provisional |-> [i \in DOMAIN flows |-> credit(i)],
                    add |-> [i \in DOMAIN flows |-> added(i)],
                    starts |-> [k \in DOMAIN slots.busy |-> starting(k)],
                    moves |-> [k \in DOMAIN slots.busy |-> moving(k)],
                    shares |-> [k \in DOMAIN slots.busy |-> shared(k)]]
<1>3. InductionRow(p, r, slots) = made
  BY DEF InductionRow
<1>4. RowMade(p, made, Len(slots.busy))
  <2> HIDE DEF credit, added, starting, moving, shared, flows
  <2>1. /\ DOMAIN made = {"t", "is_exercise", "rollback", "provisional", "add", "starts", "moves", "shares"}
        /\ DOMAIN made.provisional = DOMAIN flows /\ DOMAIN made.add = DOMAIN flows
    OBVIOUS
  <2>2. /\ made.starts = [k \in 1 .. Len(slots.busy) |-> starting(k)]
        /\ made.moves = [k \in 1 .. Len(slots.busy) |-> moving(k)]
        /\ made.shares = [k \in 1 .. Len(slots.busy) |-> shared(k)]
    BY <1>2
  <2> HIDE DEF made
  <2>. QED
    BY <2>1, <2>2 DEF RowMade, Listed, flows
<1> HIDE DEF made
<1>. QED
  BY <1>1, <1>3, <1>4

\* The greater of a width and the width asked for.
Wide(width, slots) == IF width <= slots THEN slots ELSE width

\* A sequence filled up.
MadeUp(more, seq, width, what, w) == \A k \in 1 .. w : more[k] = IF k <= width THEN seq[k] ELSE what

FilledUp(more, seq, slots, what) == more = seq \o [k \in 1 .. slots - Len(seq) |-> what]

LEMMA MoreIs ==
  ASSUME NEW width \in Nat, NEW slots \in Nat, NEW what, NEW seq, Listed(seq, width),
         NEW more, FilledUp(more, seq, slots, what), NEW w, w = Wide(width, slots)
  PROVE  Listed(more, w) /\ MadeUp(more, seq, width, what, w)
<1>1. Len(seq) = width
  <2>1. PICK none : none = [k \in 1 .. 0 |-> what]
    OBVIOUS
  <2>2. Listed(none, 0)
    BY <2>1 DEF Listed
  <2>3. PICK both : JoinOf(both, seq, none)
    BY DEF JoinOf
  <2>. QED
    BY <2>2, <2>3, JoinIs
<1>2. PICK rest : rest = [k \in 1 .. slots - Len(seq) |-> what]
  OBVIOUS
<1>3. PICK n \in Nat : n = IF width <= slots THEN slots - width ELSE 0
  <2>1. PICK n : n = IF width <= slots THEN slots - width ELSE 0
    OBVIOUS
  <2>. QED
    BY <2>1
<1>4. 1 .. slots - Len(seq) = 1 .. n
  BY <1>1, <1>3
<1>5. Listed(rest, n) /\ \A k \in 1 .. n : rest[k] = what
  BY <1>2, <1>4 DEF Listed
<1>6. JoinOf(more, seq, rest)
  BY <1>2 DEF FilledUp, JoinOf
<1>7. /\ Listed(more, width + n)
      /\ \A k \in 1 .. width : more[k] = seq[k]
      /\ \A k \in 1 .. n : more[width + k] = rest[k]
  BY <1>5, <1>6, JoinIs
<1>8. width + n = w
  BY <1>3 DEF Wide
<1>9. ASSUME NEW k \in 1 .. w PROVE more[k] = IF k <= width THEN seq[k] ELSE what
  <2>1. CASE k <= width
    <3>1. k \in 1 .. width
      BY <2>1 DEF Wide
    <3>. QED
      BY <1>7, <2>1, <3>1
  <2>2. CASE ~ (k <= width)
    <3>1. k - width \in 1 .. n /\ width + (k - width) = k
      BY <1>3, <1>8, <2>2
    <3>. QED
      BY <1>5, <1>7, <2>2, <3>1
  <2>. QED
    BY <2>1, <2>2
<1>. QED
  BY <1>7, <1>8, <1>9 DEF MadeUp

\* A row widened is the same row over more cache columns.
LEMMA PadRowIs ==
  ASSUME NEW p, PlanFits(p), NEW g \in DOMAIN RowTimes(p), NEW slots \in Nat, NEW r, NEW width \in Nat,
         width = Len(cache_slots(GridSchedule(p)).busy), RowIs(p, g, r, width), RowMade(p, r, width)
  PROVE  RowIs(p, g, PadRow(r, slots), Wide(width, slots)) /\ RowMade(p, PadRow(r, slots), Wide(width, slots))
<1> DEFINE more(seq, what) == seq \o [k \in 1 .. slots - Len(seq) |-> what]
<1>1. PICK starts, moves, shares : /\ starts = more(r.starts, {})
                                   /\ moves = more(r.moves, FALSE)
                                   /\ shares = more(r.shares, 0)
  OBVIOUS
<1>2. PICK w \in Nat : w = Wide(width, slots) /\ width <= w
  BY DEF Wide
<1>3. /\ Listed(starts, w) /\ Listed(moves, w) /\ Listed(shares, w)
      /\ \A k \in 1 .. w : /\ starts[k] = IF k <= width THEN r.starts[k] ELSE {}
                           /\ moves[k] = IF k <= width THEN r.moves[k] ELSE FALSE
                           /\ shares[k] = IF k <= width THEN r.shares[k] ELSE 0
  <2>1. PICK a, b, c : a = r.starts /\ b = r.moves /\ c = r.shares
    OBVIOUS
  <2>2. Listed(a, width) /\ Listed(b, width) /\ Listed(c, width)
    BY <2>1 DEF RowMade
  <2>3. FilledUp(starts, a, slots, {}) /\ FilledUp(moves, b, slots, FALSE) /\ FilledUp(shares, c, slots, 0)
    BY <1>1, <2>1 DEF FilledUp
  <2> HIDE DEF more
  <2>4. Listed(starts, w) /\ MadeUp(starts, a, width, {}, w)
    BY <1>2, <2>2, <2>3, MoreIs
  <2>5. Listed(moves, w) /\ MadeUp(moves, b, width, FALSE, w)
    BY <1>2, <2>2, <2>3, MoreIs
  <2>6. Listed(shares, w) /\ MadeUp(shares, c, width, 0, w)
    BY <1>2, <2>2, <2>3, MoreIs
  <2>. QED
    BY <2>1, <2>4, <2>5, <2>6 DEF MadeUp
<1>4. PICK wide : wide = PadRow(r, slots)
  OBVIOUS
<1>5. wide = [r EXCEPT !.starts = starts, !.moves = moves, !.shares = shares]
  <2>1. wide = [r EXCEPT !.starts = more(@, {}), !.moves = more(@, FALSE), !.shares = more(@, 0)]
    BY <1>4 DEF PadRow
  <2>. QED
    BY <1>1, <2>1 DEF RowMade
<1> HIDE DEF more
<1>6. /\ DOMAIN wide = DOMAIN r /\ wide.t = r.t /\ wide.is_exercise = r.is_exercise
      /\ wide.provisional = r.provisional /\ wide.add = r.add
      /\ wide.starts = starts /\ wide.moves = moves /\ wide.shares = shares
  BY <1>5 DEF RowMade
<1>7. RowMade(p, wide, w)
  BY <1>3, <1>6 DEF RowMade
<1>8. ASSUME NEW k \in 1 .. w, ~ (k <= width), NEW i PROVE ~ Holds(p, k, i)
  BY <1>8, SlotsAre DEF SlotsFit, Holds
<1>9. ASSUME NEW k \in 1 .. w
      PROVE  /\ starts[k] = {i \in DOMAIN Cashflows(p) : Holds(p, k, i) /\ Cached(p, i, g) /\ ~ Cached(p, i, g - 1)}
             /\ moves[k] <=> \E i \in DOMAIN Cashflows(p) : Holds(p, k, i) /\ Under(p, i, g) /\ Cached(p, i, g - 1)
             /\ shares[k] \in Int
             /\ \A i \in DOMAIN Cashflows(p) : Holds(p, k, i) /\ Cached(p, i, g) => shares[k] = Credit(Cashflows(p)[i], wide.t)
  <2>1. CASE k <= width
    <3>1. k \in 1 .. width
      <4>1. k \in Int /\ 1 <= k
        BY <1>9
      <4>. QED
        BY <2>1, <4>1
    <3>2. /\ r.starts[k] = {i \in DOMAIN Cashflows(p) : Holds(p, k, i) /\ Cached(p, i, g) /\ ~ Cached(p, i, g - 1)}
          /\ r.moves[k] <=> \E i \in DOMAIN Cashflows(p) : Holds(p, k, i) /\ Under(p, i, g) /\ Cached(p, i, g - 1)
          /\ r.shares[k] \in Int
          /\ \A i \in DOMAIN Cashflows(p) : Holds(p, k, i) /\ Cached(p, i, g) => r.shares[k] = Credit(Cashflows(p)[i], r.t)
      BY <3>1, Zenon DEF RowIs
    <3>3. starts[k] = r.starts[k] /\ moves[k] = r.moves[k] /\ shares[k] = r.shares[k] /\ wide.t = r.t
      BY <1>3, <1>6, <1>9, <2>1
    <3>. QED
      BY <3>2, <3>3, Zenon
  <2>2. CASE ~ (k <= width)
    <3>1. \A i \in DOMAIN Cashflows(p) : ~ Holds(p, k, i)
      BY <1>8, <1>9, <2>2
    <3>2. starts[k] = {} /\ ~ moves[k] /\ shares[k] = 0
      BY <1>3, <1>9, <2>2
    <3>. QED
      BY <3>1, <3>2
  <2>. QED
    BY <2>1, <2>2
<1>10. DOMAIN wide.starts = 1 .. w /\ DOMAIN wide.moves = 1 .. w /\ DOMAIN wide.shares = 1 .. w
  BY <1>3, <1>6 DEF Listed
<1>11. RowIs(p, g, wide, w)
  BY <1>6, <1>9, <1>10 DEF RowIs
<1>. QED
  BY <1>2, <1>4, <1>7, <1>11

\* The row that pads is idle.
LEMMA IdleRowIs ==
  ASSUME NEW p, NEW r, NEW width \in Nat, RowMade(p, r, width)
  PROVE  Idle(p, IdleRow(r), width)
<1>1. PICK idle : idle = IdleRow(r)
  OBVIOUS
<1>2. idle = [r EXCEPT !.rollback = FALSE, !.is_exercise = FALSE, !.provisional = [i \in DOMAIN @ |-> 0],
                       !.add = [i \in DOMAIN @ |-> 0], !.starts = [k \in DOMAIN @ |-> {}],
                       !.moves = [k \in DOMAIN @ |-> FALSE], !.shares = [k \in DOMAIN @ |-> 0]]
  BY <1>1 DEF IdleRow
<1>3. /\ idle.is_exercise = FALSE
      /\ idle.provisional = [i \in DOMAIN r.provisional |-> 0] /\ idle.add = [i \in DOMAIN r.add |-> 0]
      /\ idle.starts = [k \in DOMAIN r.starts |-> {}] /\ idle.moves = [k \in DOMAIN r.moves |-> FALSE]
      /\ idle.shares = [k \in DOMAIN r.shares |-> 0]
  BY <1>2 DEF RowMade
<1>4. DOMAIN r.starts = 1 .. width /\ DOMAIN r.moves = 1 .. width /\ DOMAIN r.shares = 1 .. width
  BY DEF RowMade, Listed
<1>5. Idle(p, idle, width)
  BY <1>3, <1>4 DEF Idle, RowMade
<1>. QED
  BY <1>1, <1>5

LEMMA IdleStarts ==
  ASSUME NEW p, NEW r, NEW width \in Nat, RowMade(p, r, width)
  PROVE  Listed(IdleRow(r).starts, width)
<1>1. PICK idle : idle = IdleRow(r)
  OBVIOUS
<1>2. idle = [r EXCEPT !.rollback = FALSE, !.is_exercise = FALSE, !.provisional = [i \in DOMAIN @ |-> 0],
                       !.add = [i \in DOMAIN @ |-> 0], !.starts = [k \in DOMAIN @ |-> {}],
                       !.moves = [k \in DOMAIN @ |-> FALSE], !.shares = [k \in DOMAIN @ |-> 0]]
  BY <1>1 DEF IdleRow
<1>3. idle.starts = [k \in DOMAIN r.starts |-> {}] /\ DOMAIN r.starts = 1 .. width
  BY <1>2 DEF RowMade, Listed
<1>. QED
  BY <1>1, <1>3 DEF Listed

\* A trade's rows, padded: those that do nothing, then its own.
ShapeIs(p, rows, width) ==
  LET own == Len(GridSchedule(p)) IN
  /\ Len(rows) \in Nat /\ DOMAIN rows = 1 .. Len(rows) /\ own <= Len(rows)
  /\ width \in Nat /\ SlotsOf(rows) = width /\ Len(cache_slots(GridSchedule(p)).busy) <= width
  /\ \A g \in 1 .. Len(rows) - own : Idle(p, rows[g], width)
  /\ \A g \in 1 .. own : RowIs(p, g, rows[Len(rows) - own + g], width)

\* A trade's own rows.
LEMMA OwnRowsAre ==
  ASSUME NEW p, PlanFits(p), NEW rows, rows = induction_rows(p)
  PROVE  /\ Len(rows) = Len(GridSchedule(p)) /\ DOMAIN rows = 1 .. Len(rows) /\ Len(rows) \in Nat \ {0}
         /\ Len(cache_slots(GridSchedule(p)).busy) \in Nat
         /\ SlotsOf(rows) = Len(cache_slots(GridSchedule(p)).busy)
         /\ \A g \in DOMAIN rows : /\ RowIs(p, g, rows[g], Len(cache_slots(GridSchedule(p)).busy))
                                   /\ RowMade(p, rows[g], Len(cache_slots(GridSchedule(p)).busy))
                                   /\ g \in DOMAIN RowTimes(p)
<1>1. PICK schedule, slots : schedule = GridSchedule(p) /\ slots = cache_slots(schedule)
  OBVIOUS
<1> DEFINE own(g) == InductionRow(p, schedule[g], slots)
<1>2. PICK n \in Nat \ {0} : n = Len(schedule) /\ DOMAIN schedule = 1 .. n /\ DOMAIN schedule = DOMAIN RowTimes(p)
  BY <1>1, ScheduleIs
<1>3. rows = [g \in 1 .. n |-> own(g)]
  BY <1>1, <1>2 DEF induction_rows
<1>4. ASSUME NEW g \in 1 .. n PROVE RowIs(p, g, own(g), Len(slots.busy)) /\ RowMade(p, own(g), Len(slots.busy))
  BY <1>1, <1>2, InductionRowIs, InductionRowMade
<1>5. Len(slots.busy) \in Nat
  BY <1>1, SlotsAre DEF SlotsFit
<1> HIDE DEF own
<1>6. Len(rows) = n /\ DOMAIN rows = 1 .. n /\ \A g \in 1 .. n : rows[g] = own(g)
  BY <1>3
<1>7. 1 \in 1 .. n
  OBVIOUS
<1>8. SlotsOf(rows) = Len(slots.busy)
  <2>1. PICK starts : starts = rows[1].starts
    OBVIOUS
  <2>2. Listed(starts, Len(slots.busy))
    BY <1>4, <1>6, <1>7, <2>1 DEF RowMade
  <2>3. Len(starts) = Len(slots.busy)
    BY <1>5, <2>2 DEF Listed
  <2>. QED
    BY <2>1, <2>3 DEF SlotsOf
<1>. QED
  BY <1>1, <1>2, <1>4, <1>5, <1>6, <1>8

LEMMA PaddedRowsAre ==
  ASSUME NEW p, PlanFits(p), NEW rows, rows = induction_rows(p), NEW count \in Nat, Len(rows) <= count, NEW slots \in Nat,
         Len(cache_slots(GridSchedule(p)).busy) <= slots
  PROVE  ShapeIs(p, padded_rows(rows, count, slots), slots) /\ Len(padded_rows(rows, count, slots)) = count
<1> DEFINE made(g) == PadRow(rows[g], slots)
<1>1. PICK busy \in Nat : busy = Len(cache_slots(GridSchedule(p)).busy) /\ busy <= slots
  BY OwnRowsAre
<1>2. PICK own \in Nat \ {0} : own = Len(GridSchedule(p)) /\ own = Len(rows) /\ DOMAIN rows = 1 .. own
  BY OwnRowsAre
<1>3. PICK wide : wide = [g \in DOMAIN rows |-> made(g)]
  OBVIOUS
<1>4. PICK idle : idle = [g \in 1 .. count - Len(rows) |-> IdleRow(wide[1])]
  OBVIOUS
<1>5. PICK padded : padded = padded_rows(rows, count, slots) /\ padded = idle \o wide
  <2> DEFINE all == [g \in DOMAIN rows |-> made(g)]
             none == [g \in 1 .. count - Len(rows) |-> IdleRow(all[1])]
  <2>1. padded_rows(rows, count, slots) = none \o all
    BY Zenon DEF padded_rows
  <2>2. all = wide
    BY <1>3
  <2> HIDE DEF all
  <2>3. none = idle
    BY <1>4, <2>2
  <2> HIDE DEF none
  <2>. QED
    BY <2>1, <2>2, <2>3
<1>6. Wide(busy, slots) = slots
  BY <1>1 DEF Wide
<1>7. ASSUME NEW g \in 1 .. own PROVE RowIs(p, g, made(g), slots) /\ RowMade(p, made(g), slots)
  <2>1. RowIs(p, g, rows[g], busy) /\ RowMade(p, rows[g], busy) /\ g \in DOMAIN RowTimes(p)
    BY <1>1, <1>2, OwnRowsAre
  <2>. QED
    BY <1>1, <1>6, <2>1, PadRowIs
<1> HIDE DEF made
<1>8. PICK more \in Nat : more = count - own
  <2>1. PICK more : more = count - own
    OBVIOUS
  <2>. QED
    BY <1>2, <2>1
<1>9. /\ Listed(wide, own) /\ \A g \in 1 .. own : wide[g] = made(g)
      /\ Listed(idle, more) /\ \A g \in 1 .. more : idle[g] = IdleRow(wide[1])
  BY <1>2, <1>3, <1>4, <1>8 DEF Listed
<1>10. /\ Len(padded) = more + own /\ DOMAIN padded = 1 .. more + own
       /\ \A g \in 1 .. more : padded[g] = idle[g]
       /\ \A g \in 1 .. own : padded[more + g] = wide[g]
  <2>1. JoinOf(padded, idle, wide)
    BY <1>5 DEF JoinOf
  <2>. QED
    BY <1>9, <2>1, JoinIs
<1>11. more + own = count
  BY <1>8
<1>12. Idle(p, IdleRow(wide[1]), slots)
  <2>1. 1 \in 1 .. own
    OBVIOUS
  <2>2. RowMade(p, wide[1], slots)
    BY <1>7, <1>9, <2>1
  <2>. QED
    BY <2>2, IdleRowIs
<1>13. ASSUME NEW g \in 1 .. more PROVE Idle(p, padded[g], slots)
  BY <1>9, <1>10, <1>12
<1>14. ASSUME NEW g \in 1 .. own PROVE RowIs(p, g, padded[more + g], slots) /\ RowMade(p, padded[more + g], slots)
  BY <1>7, <1>9, <1>10
<1>15. SlotsOf(padded) = slots
  <2>1. PICK starts : starts = padded[1].starts
    OBVIOUS
  <2>2. Listed(starts, slots)
    <3>1. CASE more = 0
      <4>1. 1 \in 1 .. own /\ more + 1 = 1
        BY <3>1
      <4>. QED
        BY <1>14, <2>1, <4>1 DEF RowMade
    <3>2. CASE more # 0
      <4>1. 1 \in 1 .. more
        BY <3>2
      <4>2. starts = IdleRow(wide[1]).starts
        BY <1>9, <1>10, <2>1, <4>1
      <4>3. 1 \in 1 .. own
        OBVIOUS
      <4>4. RowMade(p, wide[1], slots)
        BY <1>7, <1>9, <4>3
      <4>. QED
        BY <4>2, <4>4, IdleStarts
    <3>. QED
      BY <3>1, <3>2
  <2>3. Len(starts) = slots
    BY <2>2 DEF Listed
  <2>. QED
    BY <2>1, <2>3 DEF SlotsOf
<1>16. count - own = more /\ own <= count
  BY <1>8, <1>11
<1>17. ShapeIs(p, padded, slots)
  BY <1>1, <1>2, <1>10, <1>11, <1>13, <1>14, <1>15, <1>16 DEF ShapeIs
<1>. QED
  BY <1>5, <1>10, <1>11, <1>17

---------------------------------------------------------------------------
(* The shapes of a batch.                                                 *)

\* Some flows.
FlowsFit(flows) == \E n \in Nat : Listed(flows, n) /\ \A i \in 1 .. n : FlowFits(flows[i])

\* An option prepared on a date.
PreparedFits(p) ==
  /\ DOMAIN p = {"fixed", "floating", "times"}
  /\ FlowsFit(p.fixed) /\ FlowsFit(p.floating)
  /\ p.times \subseteq Nat /\ IsFiniteSet(p.times)

LEMMA PaddedIs ==
  ASSUME NEW flows, FlowsFit(flows), NEW width \in Nat
  PROVE  FlowsFit(Padded(flows, width))
<1>1. PICK n \in Nat : Listed(flows, n) /\ \A i \in 1 .. n : FlowFits(flows[i])
  BY DEF FlowsFit
<1>2. PICK what : what = Padding
  OBVIOUS
<1>3. FlowFits(what)
  BY <1>2 DEF FlowFits, Padding
<1>4. PICK more : more = Padded(flows, width)
  OBVIOUS
<1>5. FilledUp(more, flows, width, what)
  BY <1>2, <1>4 DEF FilledUp, Padded
<1>6. PICK w : w = Wide(n, width)
  OBVIOUS
<1>7. w \in Nat
  BY <1>6 DEF Wide
<1>8. Listed(more, w) /\ MadeUp(more, flows, n, what, w)
  BY <1>1, <1>5, <1>6, MoreIs
<1>9. ASSUME NEW i \in 1 .. w PROVE FlowFits(more[i])
  <2>1. CASE i <= n
    <3>1. i \in 1 .. n
      BY <1>7, <2>1
    <3>2. more[i] = flows[i]
      BY <1>8, <2>1 DEF MadeUp
    <3>. QED
      BY <1>1, <3>1, <3>2
  <2>2. CASE ~ (i <= n)
    BY <1>3, <1>8, <2>2 DEF MadeUp
  <2>. QED
    BY <2>1, <2>2
<1>. QED
  BY <1>4, <1>7, <1>8, <1>9 DEF FlowsFit

\* What is prepared makes a schedule.
LEMMA PreparedPlans ==
  ASSUME NEW p, PreparedFits(p)
  PROVE  PlanFits(p)
<1>1. PICK a, b : a = p.fixed /\ b = p.floating
  OBVIOUS
<1>2. PICK m \in Nat : Listed(a, m) /\ \A i \in 1 .. m : FlowFits(a[i])
  BY <1>1 DEF PreparedFits, FlowsFit
<1>3. PICK n \in Nat : Listed(b, n) /\ \A i \in 1 .. n : FlowFits(b[i])
  BY <1>1 DEF PreparedFits, FlowsFit
<1>4. PICK c : c = Cashflows(p)
  OBVIOUS
<1>5. JoinOf(c, a, b)
  BY <1>1, <1>4 DEF JoinOf, Cashflows
<1>6. /\ DOMAIN c = 1 .. m + n
      /\ \A k \in 1 .. m : c[k] = a[k]
      /\ \A k \in 1 .. n : c[m + k] = b[k]
  BY <1>2, <1>3, <1>5, JoinIs
<1>7. ASSUME NEW i \in 1 .. m + n PROVE FlowFits(c[i])
  <2>1. CASE i <= m
    <3>1. i \in 1 .. m
      BY <2>1
    <3>. QED
      BY <1>2, <1>6, <3>1
  <2>2. CASE ~ (i <= m)
    <3>1. i - m \in 1 .. n /\ m + (i - m) = i
      BY <2>2
    <3>2. c[i] = b[i - m]
      BY <1>6, <3>1
    <3>. QED
      BY <1>3, <3>1, <3>2
  <2>. QED
    BY <2>1, <2>2
<1>8. m + n \in Nat
  OBVIOUS
<1>. QED
  BY <1>4, <1>6, <1>7, <1>8 DEF PlanFits, PreparedFits

\* A finite set's image.
ImageOf(f, S) == {f[k] : k \in S}

LEMMA ImageIsFinite ==
  ASSUME NEW S, IsFiniteSet(S), NEW f, DOMAIN f = S
  PROVE  IsFiniteSet(ImageOf(f, S))
<1> DEFINE T == {f[k] : k \in S}
           g == [k \in S |-> f[k]]
<1>1. g \in Surjection(S, T)
  BY DEF Surjection
<1> HIDE DEF g, T
<1>2. IsFiniteSet(T)
  BY <1>1, FS_Surjection
<1>. QED
  BY <1>2 DEF T, ImageOf

\* The most of some counts.
LEMMA MostIs ==
  ASSUME NEW n \in Nat, NEW f, DOMAIN f = 1 .. n, \A k \in 1 .. n : f[k] \in Nat,
         NEW S, S = ImageOf(f, 1 .. n)
  PROVE  Max({0} \cup S) \in Nat /\ \A k \in 1 .. n : f[k] <= Max({0} \cup S)
<1>1. IsFiniteSet(1 .. n)
  BY FS_Interval
<1>2. IsFiniteSet(ImageOf(f, 1 .. n))
  BY <1>1, ImageIsFinite
<1>3. IsFiniteSet({0}) /\ IsFiniteSet(S)
  BY <1>2, FS_Singleton
<1>4. PICK T : T = {0} \cup S
  OBVIOUS
<1>5. IsFiniteSet(T)
  BY <1>3, <1>4, FS_Union
<1>6. T \subseteq Nat /\ T # {} /\ \A k \in 1 .. n : f[k] \in T
  BY <1>4 DEF ImageOf
<1>7. Max(T) \in T /\ \A x \in T : Max(T) >= x
  <2>1. T \subseteq Int
    BY <1>6
  <2>. QED
    BY <1>5, <1>6, <2>1, GreatestOf
<1>. QED
  BY <1>4, <1>6, <1>7

\* What one_shape makes of several.
ShapesAre(prepared, shapes, count) ==
  /\ DOMAIN shapes = DOMAIN prepared
  /\ \A n \in DOMAIN prepared :
       /\ PreparedFits(shapes[n].option) /\ shapes[n].option.times = prepared[n].times
       /\ \E width \in Nat : ShapeIs(shapes[n].option, shapes[n].rows, width)
       /\ Len(shapes[n].rows) = count

LEMMA OneShapeIs ==
  ASSUME NEW prepared, NEW m \in Nat, DOMAIN prepared = 1 .. m, \A n \in 1 .. m : PreparedFits(prepared[n])
  PROVE  \E count \in Nat : ShapesAre(prepared, one_shape(prepared), count)
<1> DEFINE fixedOf   == [n \in 1 .. m |-> Len(prepared[n].fixed)]
           floatOf   == [n \in 1 .. m |-> Len(prepared[n].floating)]
           nf        == Max({0} \cup {Len(p.fixed) : p \in Range(prepared)})
           nc        == Max({0} \cup {Len(p.floating) : p \in Range(prepared)})
           swap(n)  == [prepared[n] EXCEPT !.fixed = Padded(@, nf), !.floating = Padded(@, nc)]
           trades    == [n \in DOMAIN prepared |-> swap(n)]
           rows      == [n \in DOMAIN trades |-> induction_rows(trades[n])]
           count     == Max({0} \cup {Len(r) : r \in Range(rows)})
           slots     == Max({0} \cup {SlotsOf(r) : r \in Range(rows)})
           shape(n)  == [option |-> trades[n], rows |-> padded_rows(rows[n], count, slots)]
           shapes    == [n \in DOMAIN trades |-> shape(n)]
<1>1. one_shape(prepared) = shapes
  BY Zenon DEF one_shape
<1>2. nf \in Nat /\ nc \in Nat
  <2>1. \A n \in 1 .. m : fixedOf[n] \in Nat /\ floatOf[n] \in Nat
    <3>. TAKE n \in 1 .. m
    <3>1. PICK a, b : a = prepared[n].fixed /\ b = prepared[n].floating
      OBVIOUS
    <3>2. PICK i \in Nat : Listed(a, i)
      BY <3>1 DEF PreparedFits, FlowsFit
    <3>3. PICK j \in Nat : Listed(b, j)
      BY <3>1 DEF PreparedFits, FlowsFit
    <3>4. Len(a) = i /\ Len(b) = j
      BY <3>2, <3>3 DEF Listed
    <3>. QED
      BY <3>1, <3>2, <3>3, <3>4
  <2>2. /\ {Len(p.fixed) : p \in Range(prepared)} = ImageOf(fixedOf, 1 .. m)
        /\ {Len(p.floating) : p \in Range(prepared)} = ImageOf(floatOf, 1 .. m)
        /\ DOMAIN fixedOf = 1 .. m /\ DOMAIN floatOf = 1 .. m
    BY DEF Range, ImageOf
  <2> HIDE DEF fixedOf, floatOf
  <2>. QED
    BY <2>1, <2>2, MostIs
<1> HIDE DEF nf, nc, fixedOf, floatOf
<1>3. ASSUME NEW n \in 1 .. m PROVE PreparedFits(swap(n)) /\ swap(n).times = prepared[n].times
  <2>1. PICK p : p = prepared[n]
    OBVIOUS
  <2>2. PreparedFits(p)
    BY <2>1
  <2>3. PICK a, b : a = Padded(p.fixed, nf) /\ b = Padded(p.floating, nc)
    OBVIOUS
  <2>4. FlowsFit(a) /\ FlowsFit(b)
    <3>1. FlowsFit(p.fixed) /\ FlowsFit(p.floating)
      BY <2>2 DEF PreparedFits
    <3>. QED
      BY <1>2, <2>3, <3>1, PaddedIs
  <2>5. swap(n) = [p EXCEPT !.fixed = a, !.floating = b]
    BY <2>1, <2>2, <2>3 DEF PreparedFits
  <2>6. PICK q : q = swap(n)
    OBVIOUS
  <2>7. DOMAIN q = {"fixed", "floating", "times"} /\ q.fixed = a /\ q.floating = b /\ q.times = p.times
    BY <2>2, <2>5, <2>6 DEF PreparedFits
  <2> HIDE DEF swap
  <2>8. PreparedFits(q)
    BY <2>2, <2>4, <2>7 DEF PreparedFits
  <2>. QED
    BY <2>1, <2>6, <2>7, <2>8
<1> HIDE DEF swap
<1>4. DOMAIN trades = 1 .. m /\ \A n \in 1 .. m : trades[n] = swap(n)
  OBVIOUS
<1> HIDE DEF trades
<1>5. DOMAIN rows = 1 .. m /\ \A n \in 1 .. m : rows[n] = induction_rows(trades[n])
  BY <1>4
<1> HIDE DEF rows
<1>6. ASSUME NEW n \in 1 .. m
      PROVE  /\ PlanFits(trades[n]) /\ Len(rows[n]) \in Nat /\ SlotsOf(rows[n]) \in Nat
             /\ SlotsOf(rows[n]) = Len(cache_slots(GridSchedule(trades[n])).busy)
  <2>1. PlanFits(trades[n])
    BY <1>3, <1>4, PreparedPlans
  <2>. QED
    BY <1>5, <2>1, OwnRowsAre
<1>7. /\ count \in Nat /\ \A n \in 1 .. m : Len(rows[n]) <= count
      /\ slots \in Nat /\ \A n \in 1 .. m : SlotsOf(rows[n]) <= slots
  <2> DEFINE lengths == [n \in 1 .. m |-> Len(rows[n])]
             widths  == [n \in 1 .. m |-> SlotsOf(rows[n])]
  <2>1. \A n \in 1 .. m : lengths[n] \in Nat /\ widths[n] \in Nat /\ lengths[n] = Len(rows[n]) /\ widths[n] = SlotsOf(rows[n])
    BY <1>6
  <2>2. /\ {Len(r) : r \in Range(rows)} = ImageOf(lengths, 1 .. m)
        /\ {SlotsOf(r) : r \in Range(rows)} = ImageOf(widths, 1 .. m)
        /\ DOMAIN lengths = 1 .. m /\ DOMAIN widths = 1 .. m
    BY <1>5 DEF Range, ImageOf
  <2> HIDE DEF lengths, widths
  <2>3. count \in Nat /\ \A n \in 1 .. m : lengths[n] <= count
    BY <2>1, <2>2, MostIs
  <2>4. slots \in Nat /\ \A n \in 1 .. m : widths[n] <= slots
    BY <2>1, <2>2, MostIs
  <2>. QED
    BY <2>1, <2>3, <2>4
<1> HIDE DEF count, slots
<1>8. DOMAIN shapes = 1 .. m /\ \A n \in 1 .. m : shapes[n] = shape(n)
  BY <1>4
<1> HIDE DEF shapes
<1>9. ASSUME NEW n \in 1 .. m
      PROVE  /\ PreparedFits(shapes[n].option) /\ shapes[n].option.times = prepared[n].times
             /\ ShapeIs(shapes[n].option, shapes[n].rows, slots)
             /\ Len(shapes[n].rows) = count
  <2>1. shapes[n].option = trades[n] /\ shapes[n].rows = padded_rows(rows[n], count, slots)
    BY <1>8
  <2>2. ShapeIs(trades[n], padded_rows(rows[n], count, slots), slots) /\ Len(padded_rows(rows[n], count, slots)) = count
    BY <1>5, <1>6, <1>7, PaddedRowsAre
  <2>. QED
    BY <1>3, <1>4, <2>1, <2>2
<1>10. ShapesAre(prepared, shapes, count)
  BY <1>7, <1>8, <1>9 DEF ShapesAre
<1>. QED
  BY <1>1, <1>7, <1>10

---------------------------------------------------------------------------
(* What is prepared.                                                      *)

\* An option is a trade as booked.
LEMMA GridOptionFits ==
  ASSUME NEW t \in GridOptions
  PROVE  TradeFits(t) /\ t.kind \in ExerciseKinds
<1>1. t \in SwapBookings /\ t.kind \in ExerciseKinds /\ ExerciseAccepted(t)
  BY OptionsAssumption
<1>2. t.kind # "european"
  BY <1>1 DEF ExerciseKinds
<1>3. /\ t.kind \in {"swap", "european", "bermudan", "american"}
      /\ t.effective \in Int /\ t.maturity \in Int /\ t.every \in Nat \ {0} /\ t.exercise \in Seq(Int)
      /\ t.history \subseteq Int
  BY <1>1 DEF SwapBookings
<1>4. t.exercise # <<>> /\ Sorted(t.exercise) /\ (t.kind = "american" => Len(t.exercise) = 2)
  BY <1>1 DEF ExerciseAccepted
<1>. QED
  BY <1>1, <1>2, <1>3, <1>4 DEF TradeFits

\* The elements of a sequence are finitely many.
LEMMA RangeFinite ==
  ASSUME NEW f, NEW n \in Nat, DOMAIN f = 1 .. n
  PROVE  IsFiniteSet(Range(f))
<1>1. IsFiniteSet(1 .. n)
  BY FS_Interval
<1>2. IsFiniteSet(ImageOf(f, 1 .. n))
  BY <1>1, ImageIsFinite
<1>3. Range(f) = ImageOf(f, 1 .. n)
  BY DEF Range, ImageOf
<1>. QED
  BY <1>2, <1>3

\* An option's times are some, none before the date.
LEMMA TimesAre ==
  ASSUME NEW t \in GridOptions, NEW day \in Nat
  PROVE  option_times(t, day) \subseteq Nat /\ IsFiniteSet(option_times(t, day))
<1>1. t.exercise \in Seq(Int) /\ (t.kind = "american" => Len(t.exercise) = 2)
  BY GridOptionFits DEF TradeFits
<1>2. CASE t.kind = "american"
  <2>1. PICK a, b : a = t.exercise[1] /\ b = t.exercise[2]
    OBVIOUS
  <2>2. a \in Int /\ b \in Int
    BY <1>1, <1>2, <2>1
  <2>3. PICK x : x = Max({1, a})
    OBVIOUS
  <2>4. x \in Int
    BY <2>2, <2>3, GreaterOfTwo
  <2>5. PICK t1 : t1 = Max({0, TICKS * (x - day)})
    OBVIOUS
  <2>6. t1 \in Nat
    <3>1. PICK y : y = TICKS * (x - day)
      OBVIOUS
    <3>2. y \in Int
      BY <2>4, <3>1 DEF TICKS
    <3>. QED
      BY <2>5, <3>1, <3>2, GreaterIsOfTwo
  <2>7. PICK t2 : t2 = Max({t1, TICKS * (b - day)})
    OBVIOUS
  <2>8. t2 \in Nat /\ t1 <= t2
    <3>1. PICK y : y = TICKS * (b - day)
      OBVIOUS
    <3>2. y \in Int
      BY <2>2, <3>1 DEF TICKS
    <3>. QED
      BY <2>6, <2>7, <3>1, <3>2, GreaterIsOfTwo
  <2>9. PICK q : q = ((t2 - t1) * EXERCISE_STEPS) \div (2 * TICKS)
    OBVIOUS
  <2>10. q \in Nat
    <3>1. (t2 - t1) * EXERCISE_STEPS \in Nat
      BY <2>6, <2>8, OptionsAssumption
    <3>2. 2 * TICKS \in Nat \ {0}
      BY DEF TICKS
    <3>. QED
      BY <2>9, <3>1, <3>2, Divided
  <2>11. PICK pieces : pieces = Max({1, q})
    OBVIOUS
  <2>12. pieces \in Nat \ {0}
    BY <2>10, <2>11, GreaterIsOfTwo
  <2> DEFINE at == [i \in 0 .. pieces |-> t1 + (i * (t2 - t1)) \div pieces]
  <2>13. ASSUME NEW i \in 0 .. pieces PROVE at[i] \in Nat
    <3>1. i * (t2 - t1) \in Nat
      BY <2>6, <2>8, <2>12
    <3>2. (i * (t2 - t1)) \div pieces \in Nat
      BY <2>12, <3>1, Divided
    <3>. QED
      BY <2>6, <3>2
  <2>14. american_times(t, day) = {t1} \cup {t1 + (i * (t2 - t1)) \div pieces : i \in 0 .. pieces}
    BY <2>1, <2>3, <2>5, <2>7, <2>9, <2>11, Zenon DEF american_times
  <2>15. american_times(t, day) = {t1} \cup ImageOf(at, 0 .. pieces) /\ DOMAIN at = 0 .. pieces
    BY <2>14 DEF ImageOf
  <2> HIDE DEF at
  <2>16. IsFiniteSet(0 .. pieces)
    BY <2>12, FS_Interval
  <2>17. IsFiniteSet(ImageOf(at, 0 .. pieces)) /\ IsFiniteSet({t1})
    BY <2>15, <2>16, ImageIsFinite, FS_Singleton
  <2>18. IsFiniteSet(american_times(t, day))
    BY <2>15, <2>17, FS_Union
  <2>19. american_times(t, day) \subseteq Nat
    BY <2>6, <2>13, <2>15 DEF ImageOf
  <2>. QED
    BY <1>2, <2>18, <2>19 DEF option_times
<1>3. CASE t.kind # "american"
  <2> DEFINE due == {d \in Range(t.exercise) : d > day}
             at == [e \in due |-> TICKS * (e - day)]
  <2>1. PICK n \in Nat : DOMAIN t.exercise = 1 .. n
    BY <1>1
  <2>2. IsFiniteSet(Range(t.exercise)) /\ Range(t.exercise) \subseteq Int
    <3>1. Range(t.exercise) \subseteq Int
      BY <1>1 DEF Range
    <3>. QED
      BY <2>1, <3>1, RangeFinite
  <2>3. IsFiniteSet(due)
    BY <2>2, FS_Subset
  <2>4. \A e \in due : at[e] \in Nat
    BY <2>2 DEF TICKS
  <2>5. option_times(t, day) = ImageOf(at, due) /\ DOMAIN at = due
    BY <1>3 DEF option_times, ImageOf
  <2> HIDE DEF at, due
  <2>6. IsFiniteSet(ImageOf(at, due))
    BY <2>3, <2>5, ImageIsFinite
  <2>. QED
    BY <2>4, <2>5, <2>6 DEF ImageOf
<1>. QED
  BY <1>2, <1>3

\* The coupons kept on a date.
LEMMA KeptIs ==
  ASSUME NEW t, NEW leg, LegFits(leg), NEW day
  PROVE  /\ \E n \in Nat : DOMAIN KeptSeq(t, leg, day) = 1 .. n
         /\ \A k \in DOMAIN KeptSeq(t, leg, day) : KeptSeq(t, leg, day)[k] \in DOMAIN leg
<1>1. PICK n \in Int : DOMAIN leg = 1 .. n
  BY DEF LegFits
<1>2. PICK kept : kept = Kept(t, leg, day)
  OBVIOUS
<1>3. kept \subseteq 1 .. n
  BY <1>1, <1>2 DEF Kept
<1>4. IsFiniteSet(1 .. n)
  BY FS_Interval
<1>5. IsFiniteSet(kept) /\ kept \subseteq Int
  <2>1. kept \subseteq Int
    BY <1>3
  <2>. QED
    BY <1>3, <1>4, <2>1, FS_Subset
<1>6. /\ DOMAIN InOrder(kept, <) = 1 .. Cardinality(kept) /\ Cardinality(kept) \in Nat
      /\ \A k \in DOMAIN InOrder(kept, <) : InOrder(kept, <)[k] \in kept
  BY <1>5, Ascending
<1>7. KeptSeq(t, leg, day) = InOrder(kept, <)
  BY <1>2, Zenon DEF KeptSeq
<1>8. PICK seq : seq = KeptSeq(t, leg, day)
  OBVIOUS
<1>9. DOMAIN seq = 1 .. Cardinality(kept) /\ Cardinality(kept) \in Nat /\ \A k \in DOMAIN seq : seq[k] \in kept
  BY <1>6, <1>7, <1>8, Zenon
<1>. QED
  BY <1>1, <1>3, <1>8, <1>9

LEMMA CashflowFits ==
  ASSUME NEW t, NEW c, c.start \in Int, c.end \in Int, c.end > c.start, NEW day \in Int, NEW estimate \in Int
  PROVE  FlowFits(Cashflow(t, c, day, estimate))
<1>1. PICK belongs : belongs = BelongsUntil(t, c)
  OBVIOUS
<1>2. belongs \in Int
  BY <1>1 DEF BelongsUntil
<1>3. PICK a : a = TICKS * (estimate - day)
  OBVIOUS
<1>4. a \in Int
  BY <1>3 DEF TICKS
<1>5. PICK until : until = Max({0, a})
  OBVIOUS
<1>6. until \in Int
  BY <1>4, <1>5, GreaterIsOfTwo
<1>7. Cashflow(t, c, day, estimate) =
        [belongs |-> TICKS * (belongs - day), start |-> TICKS * (c.start - day), end |-> TICKS * (c.end - day), estimate |-> until]
  BY <1>1, <1>3, <1>5 DEF Cashflow
<1>. QED
  BY <1>2, <1>6, <1>7 DEF FlowFits, TICKS

\* What is prepared on a date.
LEMMA PreparedIs ==
  ASSUME NEW t \in GridOptions, NEW day \in Nat
  PROVE  PreparedFits(Prepared(t, day)) /\ Prepared(t, day).times = option_times(t, day)
<1>1. PICK fixed, floating : fixed = fixedLeg(t) /\ floating = floatingLeg(t)
  OBVIOUS
<1>2. LegFits(fixed) /\ LegFits(floating)
  BY <1>1, GridOptionFits, LegsFit
<1>3. PICK ks, ls : ks = KeptSeq(t, fixed, day) /\ ls = KeptSeq(t, floating, day)
  OBVIOUS
<1>4. PICK m \in Nat : DOMAIN ks = 1 .. m /\ \A k \in DOMAIN ks : ks[k] \in DOMAIN fixed
  BY <1>2, <1>3, KeptIs
<1>5. PICK n \in Nat : DOMAIN ls = 1 .. n /\ \A k \in DOMAIN ls : ls[k] \in DOMAIN floating
  BY <1>2, <1>3, KeptIs
<1> DEFINE a(k) == Cashflow(t, fixed[ks[k]], day, fixed[ks[k]].pay)
           b(k) == Cashflow(t, floating[ls[k]], day, floating[ls[k]].fix)
           p == [fixed |-> [k \in DOMAIN ks |-> a(k)], floating |-> [k \in DOMAIN ls |-> b(k)], times |-> option_times(t, day)]
<1>6. Prepared(t, day) = p
  BY <1>1, <1>3, Zenon DEF Prepared
<1>7. ASSUME NEW k \in 1 .. m PROVE FlowFits(a(k))
  <2>1. PICK c : c = fixed[ks[k]]
    OBVIOUS
  <2>2. c.start \in Int /\ c.end \in Int /\ c.pay \in Int /\ c.end > c.start
    BY <1>2, <1>4, <2>1 DEF LegFits
  <2>. QED
    BY <2>1, <2>2, CashflowFits
<1>8. ASSUME NEW k \in 1 .. n PROVE FlowFits(b(k))
  <2>1. PICK c : c = floating[ls[k]]
    OBVIOUS
  <2>2. c.start \in Int /\ c.end \in Int /\ c.fix \in Int /\ c.end > c.start
    BY <1>2, <1>5, <2>1 DEF LegFits
  <2>. QED
    BY <2>1, <2>2, CashflowFits
<1> HIDE DEF a, b
<1>9. FlowsFit(p.fixed)
  <2>1. p.fixed = [k \in 1 .. m |-> a(k)]
    BY <1>4
  <2>. QED
    BY <1>7, <2>1 DEF FlowsFit, Listed
<1>10. FlowsFit(p.floating)
  <2>1. p.floating = [k \in 1 .. n |-> b(k)]
    BY <1>5
  <2>. QED
    BY <1>8, <2>1 DEF FlowsFit, Listed
<1>11. DOMAIN p = {"fixed", "floating", "times"} /\ p.times = option_times(t, day)
  OBVIOUS
<1> HIDE DEF p
<1>12. PreparedFits(p)
  BY <1>9, <1>10, <1>11, TimesAre DEF PreparedFits
<1>. QED
  BY <1>6, <1>11, <1>12

---------------------------------------------------------------------------
(* The induction.                                                         *)

\* How many of a date's own rows there are among so many.
OwnRow(p, rows, g) ==
  IF g <= Len(rows) - Len(GridSchedule(p)) THEN 0 ELSE g - (Len(rows) - Len(GridSchedule(p)))

\* A date after so many rows: its columns hold what its own rows leave, and the last of those gave
\* the exercise what it enters.
DateInv(p, rows, col, value, g) ==
  /\ \E width \in Nat : ShapeIs(p, rows, width) /\ ColumnIs(p, OwnRow(p, rows, g), col, width)
  /\ OwnRow(p, rows, g) # 0 =>
       \A i \in DOMAIN Cashflows(p) :
         value[i] = IF rows[g].t <= Cashflows(p)[i].belongs THEN Credit(Cashflows(p)[i], rows[g].t) ELSE 0

LEMMA DateStep ==
  ASSUME NEW p, PlanFits(p), NEW rows, NEW col, NEW value, NEW g \in Nat, DateInv(p, rows, col, value, g), g < Len(rows),
         NEW after, after = AfterRow(col, rows[g + 1], p)
  PROVE  DateInv(p, rows, after, ExerciseValue(after, rows[g + 1]), g + 1)
<1>1. PICK width \in Nat : ShapeIs(p, rows, width) /\ ColumnIs(p, OwnRow(p, rows, g), col, width)
  BY DEF DateInv
<1>2. PICK own, length : own = Len(GridSchedule(p)) /\ length = Len(rows)
  OBVIOUS
<1>3. own \in Nat \ {0} /\ DOMAIN RowTimes(p) = 1 .. own
  BY <1>2, ScheduleIs
<1>4. length \in Nat /\ own <= length /\ Len(cache_slots(GridSchedule(p)).busy) <= width
  BY <1>1, <1>2 DEF ShapeIs
<1>5. PICK r : r = rows[g + 1]
  OBVIOUS
<1>6. PICK before, now : before = OwnRow(p, rows, g) /\ now = OwnRow(p, rows, g + 1)
  OBVIOUS
<1>7. /\ before = IF g <= length - own THEN 0 ELSE g - (length - own)
      /\ now = IF g + 1 <= length - own THEN 0 ELSE (g + 1) - (length - own)
  BY <1>2, <1>6 DEF OwnRow
<1>8. ColumnIs(p, before, col, width)
  BY <1>1, <1>6
<1>9. CASE g + 1 <= length - own
  <2>1. before = 0 /\ now = 0 /\ g + 1 \in 1 .. length - own
    BY <1>3, <1>4, <1>7, <1>9
  <2>2. Idle(p, r, width)
    BY <1>1, <1>2, <1>5, <2>1 DEF ShapeIs
  <2>3. ColumnIs(p, now, after, width)
    BY <1>5, <1>8, <2>1, <2>2, IdleKeeps
  <2>. QED
    BY <1>1, <1>6, <2>1, <2>3 DEF DateInv
<1>10. CASE ~ (g + 1 <= length - own)
  <2>1. now \in 1 .. own /\ before = now - 1 /\ length - own + now = g + 1 /\ now # 0
    BY <1>2, <1>3, <1>4, <1>7, <1>10
  <2>2. RowIs(p, now, rows[length - own + now], width)
    BY <1>1, <1>2, <2>1 DEF ShapeIs
  <2>3. RowIs(p, now, r, width)
    BY <1>5, <2>1, <2>2
  <2>4. now \in DOMAIN RowTimes(p)
    BY <1>3, <2>1
  <2>5. ColumnIs(p, now - 1, col, width)
    BY <1>8, <2>1
  <2>6. ColumnIs(p, now, after, width)
    BY <1>4, <1>5, <2>3, <2>4, <2>5, RowKeeps
  <2>7. \A i \in DOMAIN Cashflows(p) :
          ExerciseValue(after, r)[i] = IF r.t <= Cashflows(p)[i].belongs THEN Credit(Cashflows(p)[i], r.t) ELSE 0
    BY <1>4, <2>3, <2>4, <2>6, ExerciseIs
  <2>. QED
    BY <1>1, <1>5, <1>6, <2>6, <2>7 DEF DateInv
<1>. QED
  BY <1>9, <1>10

\* What the properties say of a date.
LEMMA DateHolds ==
  ASSUME NEW p, PlanFits(p), NEW rows, NEW col, NEW value, NEW g \in Nat \ {0}, DateInv(p, rows, col, value, g),
         g <= Len(rows), rows[g].is_exercise, NEW i \in DOMAIN Cashflows(p)
  PROVE  value[i] = IF Cashflows(p)[i] # Padding /\ rows[g].t <= Cashflows(p)[i].belongs
                    THEN Credit(Cashflows(p)[i], rows[g].t) ELSE 0
<1>1. PICK width \in Nat : ShapeIs(p, rows, width)
  BY DEF DateInv
<1>2. PICK own, length : own = Len(GridSchedule(p)) /\ length = Len(rows)
  OBVIOUS
<1>3. own \in Nat \ {0} /\ DOMAIN RowTimes(p) = 1 .. own
  BY <1>2, ScheduleIs
<1>4. length \in Nat /\ own <= length
  BY <1>1, <1>2 DEF ShapeIs
<1>5. PICK now : now = OwnRow(p, rows, g)
  OBVIOUS
<1>6. now = IF g <= length - own THEN 0 ELSE g - (length - own)
  BY <1>2, <1>5 DEF OwnRow
<1>7. ~ (g <= length - own)
  <2>1. SUFFICES ASSUME g <= length - own PROVE FALSE
    OBVIOUS
  <2>2. g \in 1 .. length - own
    BY <1>3, <1>4, <2>1
  <2>3. Idle(p, rows[g], width)
    BY <1>1, <1>2, <2>2 DEF ShapeIs
  <2>. QED
    BY <2>3 DEF Idle
<1>8. now \in 1 .. own /\ length - own + now = g /\ now # 0
  BY <1>2, <1>3, <1>4, <1>6, <1>7
<1>9. RowIs(p, now, rows[length - own + now], width)
  BY <1>1, <1>2, <1>8 DEF ShapeIs
<1>10. rows[g].t \in Nat
  <2>1. rows[g].t \in p.times
    BY <1>8, <1>9 DEF RowIs
  <2>. QED
    BY <2>1 DEF PlanFits
<1>11. value[i] = IF rows[g].t <= Cashflows(p)[i].belongs THEN Credit(Cashflows(p)[i], rows[g].t) ELSE 0
  BY <1>5, <1>8 DEF DateInv
<1>12. Cashflows(p)[i] = Padding => ~ (rows[g].t <= Cashflows(p)[i].belongs)
  <2>1. Padding.belongs = -1
    BY DEF Padding
  <2>. QED
    BY <1>10, <2>1
<1>. QED
  BY <1>11, <1>12

LEMMA DateTimes ==
  ASSUME NEW p, PlanFits(p), NEW rows, NEW col, NEW value, NEW g, DateInv(p, rows, col, value, g)
  PROVE  {r.t : r \in {x \in Range(rows) : x.is_exercise}} = p.times
<1>1. PICK width \in Nat : ShapeIs(p, rows, width)
  BY DEF DateInv
<1>2. PICK own, length : own = Len(GridSchedule(p)) /\ length = Len(rows)
  OBVIOUS
<1>3. own \in Nat \ {0} /\ DOMAIN RowTimes(p) = 1 .. own
  BY <1>2, ScheduleIs
<1>4. length \in Nat /\ own <= length /\ DOMAIN rows = 1 .. length
  BY <1>1, <1>2 DEF ShapeIs
<1>5. ASSUME NEW h \in 1 .. length, rows[h].is_exercise PROVE rows[h].t \in p.times
  <2>1. CASE h <= length - own
    <3>1. h \in 1 .. length - own
      BY <2>1
    <3>2. Idle(p, rows[h], width)
      BY <1>1, <1>2, <3>1 DEF ShapeIs
    <3>. QED
      BY <1>5, <3>2 DEF Idle
  <2>2. CASE ~ (h <= length - own)
    <3>1. h - (length - own) \in 1 .. own /\ length - own + (h - (length - own)) = h
      BY <1>3, <1>4, <2>2
    <3>2. RowIs(p, h - (length - own), rows[length - own + (h - (length - own))], width)
      BY <1>1, <1>2, <3>1 DEF ShapeIs
    <3>3. RowIs(p, h - (length - own), rows[h], width)
      BY <3>1, <3>2
    <3>. QED
      BY <1>5, <3>3 DEF RowIs
  <2>. QED
    BY <2>1, <2>2
<1>6. ASSUME NEW t \in p.times PROVE \E h \in 1 .. length : rows[h].is_exercise /\ rows[h].t = t
  <2>1. PICK k \in 1 .. own : RowTimes(p)[k] = t
    <3>1. t \in {0} \cup p.times
      OBVIOUS
    <3>2. \E k \in DOMAIN RowTimes(p) : RowTimes(p)[k] = t
      BY <3>1, RowTimesAre
    <3>. QED
      BY <1>3, <3>2
  <2>2. RowIs(p, k, rows[length - own + k], width)
    BY <1>1, <1>2 DEF ShapeIs
  <2>3. length - own + k \in 1 .. length
    BY <1>3, <1>4
  <2>. QED
    BY <2>1, <2>2, <2>3 DEF RowIs
<1>7. Range(rows) = {rows[h] : h \in 1 .. length}
  BY <1>4 DEF Range
<1>. QED
  BY <1>5, <1>6, <1>7

---------------------------------------------------------------------------
(* Blocks of paths.                                                       *)

LEMMA FactorsPositive ==
  ASSUME NEW a \in Nat \ {0}, NEW b \in Nat \ {0}
  PROVE  a * b \in Nat \ {0}
OBVIOUS

\* A number of blocks, the paths by block and together again, and those a device owns of a block.
BlockCount(blocks, devices, share, bytes, budget) == blocks = path_blocks(devices * share, bytes, devices, budget)

Blocked(by, values, blocks, c) ==
  by = ByBlock([p \in 0 .. blocks * c - 1 |-> p], blocks) /\ values = Joined(by, blocks)

OfBlock(values, b, blocks, c) == values = [n \in 0 .. c - 1 |-> n * blocks + b]

Owned(values, share, d) == Cardinality({p \in Range(values) : p \div share = d})

Divides(blocks, share) == blocks \in Nat \ {0} /\ \E q \in Nat \ {0} : share = blocks * q

\* The number of blocks divides every device's share.
LEMMA BlocksDivide ==
  ASSUME NEW devices \in Nat \ {0}, NEW share \in Nat \ {0}, NEW bytes, NEW budget,
         NEW blocks, BlockCount(blocks, devices, share, bytes, budget)
  PROVE  Divides(blocks, share)
<1> DEFINE fits == {b \in 1 .. share : share % b = 0 /\ (share \div b) * bytes <= budget}
<1>0. PICK paths : paths = devices * share
  OBVIOUS
<1>1. paths \div devices = share
  <2>1. (devices * share + 0) \div devices = share
    <3>1. 0 \in 0 .. devices - 1
      OBVIOUS
    <3>. QED
      BY <3>1, DivisionIs
  <2>2. devices * share + 0 = paths
    BY <1>0
  <2>. QED
    BY <2>1, <2>2
<1>2. blocks = IF fits = {} THEN Max({share, 1}) ELSE Min(fits)
  BY <1>0, <1>1 DEF path_blocks, BlockCount
<1>3. fits \subseteq 1 .. share /\ \A b \in fits : share % b = 0
  OBVIOUS
<1> HIDE DEF fits
<1>4. blocks \in 1 .. share /\ (blocks = share \/ share % blocks = 0)
  <2>1. CASE fits = {}
    <3>1. Max({share, 1}) = IF 1 <= share THEN share ELSE 1
      BY GreaterIsOfTwo
    <3>. QED
      BY <1>2, <2>1, <3>1
  <2>2. CASE fits # {}
    <3>1. fits \subseteq Nat
      BY <1>3
    <3>2. Min(fits) \in fits
      BY <2>2, <3>1, LeastIs
    <3>. QED
      BY <1>2, <1>3, <2>2, <3>2
  <2>. QED
    BY <2>1, <2>2
<1>5. blocks \in Nat \ {0}
  BY <1>4
<1>6. \E q \in Nat \ {0} : share = blocks * q
  <2>1. CASE blocks = share
    <3>1. share = blocks * 1
      BY <2>1
    <3>. QED
      BY <3>1
  <2>2. CASE share % blocks = 0
    <3>1. PICK q : q = share \div blocks
      OBVIOUS
    <3>2. q \in Nat /\ share = blocks * q + 0
      <4>1. share \in Nat /\ share = blocks * (share \div blocks) + (share % blocks) /\ share \div blocks \in Nat
        BY <1>5, Divided
      <4>. QED
        BY <2>2, <3>1, <4>1
    <3>3. share = blocks * q
      BY <1>5, <3>2
    <3>4. q # 0
      BY <1>5, <3>3
    <3>. QED
      BY <3>2, <3>3, <3>4
  <2>. QED
    BY <1>4, <2>1, <2>2
<1>. QED
  BY <1>5, <1>6 DEF Divides

\* Each block's paths, and the paths put together again.
LEMMA BlocksAre ==
  ASSUME NEW blocks \in Nat \ {0}, NEW c \in Nat \ {0}, NEW by, NEW values, Blocked(by, values, blocks, c)
  PROVE  /\ DOMAIN by = 0 .. blocks - 1
         /\ \A b \in DOMAIN by : OfBlock(by[b], b, blocks, c)
         /\ \A p \in DOMAIN values : values[p] = p
<1>0. PICK paths : paths = blocks * c
  OBVIOUS
<1> DEFINE all == [p \in 0 .. paths - 1 |-> p]
<1>1. paths \in Nat \ {0}
  BY <1>0, FactorsPositive
<1>2. Cardinality(DOMAIN all) = paths
  <2>1. DOMAIN all = 0 .. paths - 1
    OBVIOUS
  <2>2. 0 \in Int /\ paths - 1 \in Int /\ ~ (0 > paths - 1) /\ (paths - 1) - 0 + 1 = paths
    BY <1>1
  <2> HIDE DEF all
  <2>. QED
    BY <2>1, <2>2, FS_Interval
<1>3. paths \div blocks = c
  <2>1. (blocks * c + 0) \div blocks = c
    <3>1. 0 \in 0 .. blocks - 1
      OBVIOUS
    <3>. QED
      BY <3>1, DivisionIs
  <2>2. blocks * c + 0 = paths
    BY <1>0
  <2>. QED
    BY <2>1, <2>2
<1>4. ASSUME NEW n \in 0 .. c - 1, NEW b \in 0 .. blocks - 1 PROVE all[n * blocks + b] = n * blocks + b
  <2>1. n * blocks <= (c - 1) * blocks
    BY TimesGrows
  <2>2. (c - 1) * blocks = paths - blocks
    BY <1>0
  <2>3. n * blocks \in Nat
    OBVIOUS
  <2>4. n * blocks + b \in 0 .. paths - 1
    BY <1>1, <2>1, <2>2, <2>3
  <2>. QED
    BY <2>4
<1> DEFINE block(b) == [n \in 0 .. Cardinality(DOMAIN all) \div blocks - 1 |-> all[n * blocks + b]]
<1>5. by = [b \in 0 .. blocks - 1 |-> block(b)]
  BY <1>0 DEF ByBlock, Blocked
<1>6. ASSUME NEW b \in 0 .. blocks - 1 PROVE block(b) = [n \in 0 .. c - 1 |-> n * blocks + b]
  <2> HIDE DEF all
  <2>. QED
    BY <1>2, <1>3, <1>4
<1> HIDE DEF block, all
<1>7. DOMAIN by = 0 .. blocks - 1 /\ \A b \in 0 .. blocks - 1 : by[b] = [n \in 0 .. c - 1 |-> n * blocks + b]
  BY <1>5, <1>6
<1>8. Cardinality(DOMAIN by[0]) = c
  <2>1. DOMAIN by[0] = 0 .. c - 1
    <3>1. 0 \in 0 .. blocks - 1
      OBVIOUS
    <3>2. by[0] = [n \in 0 .. c - 1 |-> n * blocks + 0]
      BY <1>7, <3>1
    <3>. QED
      BY <3>2
  <2>2. 0 \in Int /\ c - 1 \in Int /\ ~ (0 > c - 1) /\ (c - 1) - 0 + 1 = c
    OBVIOUS
  <2>. QED
    BY <2>1, <2>2, FS_Interval
<1>9. values = [p \in 0 .. blocks * c - 1 |-> by[p % blocks][p \div blocks]]
  BY <1>8 DEF Joined, Blocked
<1>10. ASSUME NEW p \in 0 .. blocks * c - 1 PROVE by[p % blocks][p \div blocks] = p
  <2>1. p \in Nat /\ p < blocks * c
    BY <1>0, <1>1
  <2>2. PICK d, m : d = p \div blocks /\ m = p % blocks
    OBVIOUS
  <2>3. d \in Nat /\ m \in 0 .. blocks - 1 /\ p = blocks * d + m
    BY <2>1, <2>2, Divided
  <2>4. d < c
    BY <2>1, <2>2, QuotientBelow
  <2>5. by[m][d] = d * blocks + m
    <3>1. d \in 0 .. c - 1
      BY <2>3, <2>4
    <3>2. by[m] = [n \in 0 .. c - 1 |-> n * blocks + m]
      BY <1>7, <2>3
    <3>. QED
      BY <3>1, <3>2
  <2>6. d * blocks + m = p
    BY <2>3
  <2>. QED
    BY <2>2, <2>5, <2>6
<1>. QED
  BY <1>7, <1>9, <1>10 DEF OfBlock

\* Of a block's paths each device owns as many.
LEMMA DeviceOwns ==
  ASSUME NEW devices \in Nat \ {0}, NEW blocks \in Nat \ {0}, NEW q \in Nat \ {0}, NEW b \in 0 .. blocks - 1,
         NEW d \in 0 .. devices - 1, NEW values, OfBlock(values, b, blocks, devices * q)
  PROVE  Owned(values, blocks * q, d) = q
<1>0. PICK share, c : share = blocks * q /\ c = devices * q
  OBVIOUS
<1> DEFINE own == {p \in Range(values) : p \div share = d}
           at == [m \in 0 .. q - 1 |-> (q * d + m) * blocks + b]
<1>1. share \in Nat \ {0} /\ c \in Nat \ {0}
  BY <1>0, FactorsPositive
<1>2. ASSUME NEW e \in Nat, NEW m \in 0 .. q - 1 PROVE ((q * e + m) * blocks + b) \div share = e
  <2>1. (q * e + m) * blocks + b = share * e + (m * blocks + b)
    <3>1. (q * e + m) * blocks = (q * e) * blocks + m * blocks
      OBVIOUS
    <3>2. (q * e) * blocks = (blocks * q) * e
      OBVIOUS
    <3>. QED
      BY <1>0, <3>1, <3>2
  <2>2. m * blocks <= (q - 1) * blocks
    BY TimesGrows
  <2>3. (q - 1) * blocks = share - blocks
    BY <1>0
  <2>4. m * blocks \in Nat
    OBVIOUS
  <2>5. m * blocks + b \in 0 .. share - 1
    BY <1>1, <2>2, <2>3, <2>4
  <2>6. PICK low : low = m * blocks + b
    OBVIOUS
  <2>7. (share * e + low) \div share = e
    BY <1>1, <2>5, <2>6, DivisionIs
  <2>. QED
    BY <2>1, <2>6, <2>7
<1>3. ASSUME NEW n \in 0 .. c - 1
      PROVE  \E e \in Nat, m \in 0 .. q - 1 : n = q * e + m
  <2>1. n \div q \in Nat /\ n % q \in 0 .. q - 1 /\ n = q * (n \div q) + (n % q)
    <3>1. n \in Nat
      BY <1>1
    <3>. QED
      BY <3>1, Divided
  <2>. QED
    BY <2>1
<1>4. ASSUME NEW m \in 0 .. q - 1 PROVE q * d + m \in 0 .. c - 1
  <2>1. d * q <= (devices - 1) * q
    BY TimesGrows
  <2>2. (devices - 1) * q = c - q
    BY <1>0
  <2>3. q * d = d * q /\ q * d \in Nat
    OBVIOUS
  <2>. QED
    BY <1>1, <2>1, <2>2, <2>3
<1>5. ASSUME NEW m \in 0 .. q - 1 PROVE at[m] \in own
  <2>1. PICK n : n = q * d + m
    OBVIOUS
  <2>2. n \in 0 .. c - 1
    BY <1>4, <2>1
  <2>3. values[n] = n * blocks + b /\ n \in DOMAIN values
    BY <1>0, <2>2 DEF OfBlock
  <2>4. values[n] \in Range(values)
    BY <2>3 DEF Range
  <2>5. at[m] = values[n]
    BY <2>1, <2>3
  <2>6. at[m] \div share = d
    <3>1. d \in Nat
      OBVIOUS
    <3>2. ((q * d + m) * blocks + b) \div share = d
      BY <1>2, <3>1
    <3>3. at[m] = (q * d + m) * blocks + b
      OBVIOUS
    <3> HIDE DEF at
    <3>. QED
      BY <3>2, <3>3
  <2>. QED
    BY <2>4, <2>5, <2>6
<1>6. ASSUME NEW p \in own PROVE \E m \in 0 .. q - 1 : at[m] = p
  <2>1. PICK n \in 0 .. c - 1 : p = n * blocks + b
    BY <1>0 DEF Range, OfBlock
  <2>2. PICK e \in Nat, m \in 0 .. q - 1 : n = q * e + m
    BY <1>3
  <2>3. p \div share = e
    BY <1>2, <2>1, <2>2
  <2>4. e = d
    BY <2>3
  <2>. QED
    BY <2>1, <2>2, <2>4
<1>7. ASSUME NEW j \in 0 .. q - 1, NEW k \in 0 .. q - 1, at[j] = at[k] PROVE j = k
  <2>1. (q * d + j) * blocks = (q * d + k) * blocks
    <3>1. (q * d + j) * blocks + b = (q * d + k) * blocks + b
      BY <1>7
    <3>2. (q * d + j) * blocks \in Int /\ (q * d + k) * blocks \in Int
      OBVIOUS
    <3>. QED
      BY <3>1, <3>2
  <2>2. q * d + j = q * d + k
    <3>1. PICK x \in Int, y \in Int : x = q * d + j /\ y = q * d + k
      <4>1. q * d + j \in Int /\ q * d + k \in Int
        OBVIOUS
      <4>. QED
        BY <4>1
    <3>2. (blocks * x + 0) \div blocks = x /\ (blocks * y + 0) \div blocks = y
      <4>1. 0 \in 0 .. blocks - 1
        OBVIOUS
      <4>. QED
        BY <4>1, DivisionIs
    <3>3. blocks * x + 0 = blocks * y + 0
      BY <2>1, <3>1
    <3>. QED
      BY <3>1, <3>2, <3>3
  <2>3. q * d \in Int
    OBVIOUS
  <2>. QED
    BY <2>2, <2>3
<1> HIDE DEF own, at
<1>8. DOMAIN at = 0 .. q - 1
  BY DEF at
<1>9. at \in Bijection(0 .. q - 1, own)
  <2>1. at \in [0 .. q - 1 -> own]
    <3>1. at = [m \in 0 .. q - 1 |-> at[m]]
      BY DEF at
    <3>. QED
      BY <1>5, <3>1
  <2>. QED
    <3>1. at \in Injection(0 .. q - 1, own)
      BY <1>7, <2>1, Zenon DEF Injection, IsInjective
    <3>2. at \in Surjection(0 .. q - 1, own)
      BY <1>6, <2>1, Zenon DEF Surjection
    <3>. QED
      BY <3>1, <3>2 DEF Bijection
<1>10. IsFiniteSet(0 .. q - 1) /\ Cardinality(0 .. q - 1) = q
  <2>1. 0 \in Int /\ q - 1 \in Int /\ ~ (0 > q - 1) /\ (q - 1) - 0 + 1 = q
    OBVIOUS
  <2>. QED
    BY <2>1, FS_Interval
<1>11. Cardinality(own) = q
  <2>1. ExistsBijection(0 .. q - 1, own)
    BY <1>9 DEF ExistsBijection
  <2>. QED
    BY <1>10, <2>1, FS_Bijection
<1>. QED
  BY <1>0, <1>11 DEF own, Owned

---------------------------------------------------------------------------
(* The grid engine's invariant.                                           *)

\* Every date has as many rows, and each has come to the same one; a block gives every path its own.
GridInv ==
  /\ valued = Nothing => row = 0
  /\ valued # Nothing =>
       /\ row \in Nat
       /\ \E m \in Nat : DOMAIN shaped = 1 .. m
       /\ \E count \in Nat : \A n \in DOMAIN shaped : Len(shaped[n].rows) = count /\ row <= count
       /\ \A n \in DOMAIN shaped :
            /\ PreparedFits(shaped[n].option)
            /\ shaped[n].option.times = option_times(valued.trade, valued.days[n])
            /\ DateInv(shaped[n].option, shaped[n].rows, columns[n], exerciseValue[n], row)
  /\ PathsKeepTheirPlace

\* Nothing is in a date's columns at first.
LEMMA DateBegins ==
  ASSUME NEW p, PreparedFits(p), NEW rows, NEW width \in Nat, ShapeIs(p, rows, width), NEW col, NEW value,
         col = [underlying |-> Nought(Cashflows(p)), cache |-> [k \in 1 .. SlotsOf(rows) |-> Nought(Cashflows(p))]]
  PROVE  DateInv(p, rows, col, value, 0)
<1>1. PlanFits(p) /\ SlotsOf(rows) = width
  BY PreparedPlans DEF ShapeIs
<1>2. PICK nought : nought = Nought(Cashflows(p))
  OBVIOUS
<1>3. DOMAIN nought = DOMAIN Cashflows(p) /\ \A i \in DOMAIN Cashflows(p) : nought[i] = 0
  BY <1>2 DEF Nought
<1>4. /\ DOMAIN col.underlying = DOMAIN Cashflows(p) /\ DOMAIN col.cache = 1 .. width
      /\ \A i \in DOMAIN Cashflows(p) : col.underlying[i] = 0 /\ \A k \in 1 .. width : col.cache[k][i] = 0
  BY <1>1, <1>2, <1>3
<1>5. ColumnIs(p, 0, col, width)
  BY <1>1, <1>4, NoughtIs
<1>6. OwnRow(p, rows, 0) = 0
  <2>1. PICK own : own = Len(GridSchedule(p))
    OBVIOUS
  <2>2. own \in Nat /\ Len(rows) \in Nat /\ own <= Len(rows)
    BY <1>1, <2>1, ScheduleIs DEF ShapeIs
  <2>. QED
    BY <2>1, <2>2 DEF OwnRow
<1>. QED
  BY <1>5, <1>6 DEF DateInv

\* The dates an option is alive on.
LEMMA LiveDaysAre ==
  ASSUME NEW t, NEW days, days \in Seq(Nat)
  PROVE  /\ \E m \in Nat : DOMAIN LiveDays(t, days) = 1 .. m
         /\ \A n \in DOMAIN LiveDays(t, days) : LiveDays(t, days)[n] \in Nat
<1> DEFINE S == {k \in DOMAIN days : ~ is_expired(t, days[k])}
           alive == InOrder(S, <)
<1>1. S \subseteq 1 .. Len(days) /\ Len(days) \in Nat /\ \A k \in 1 .. Len(days) : days[k] \in Nat
  OBVIOUS
<1>2. LiveDays(t, days) = [n \in DOMAIN alive |-> days[alive[n]]]
  BY Zenon DEF LiveDays
<1> HIDE DEF S
<1>3. IsFiniteSet(1 .. Len(days))
  BY <1>1, FS_Interval
<1>4. S \subseteq Int /\ IsFiniteSet(S)
  <2>1. S \subseteq Int
    BY <1>1
  <2>. QED
    BY <1>1, <1>3, <2>1, FS_Subset
<1>5. DOMAIN alive = 1 .. Cardinality(S) /\ Cardinality(S) \in Nat /\ \A k \in DOMAIN alive : alive[k] \in S
  BY <1>4, Ascending
<1> HIDE DEF alive
<1>. QED
  BY <1>1, <1>2, <1>5

LEMMA GridInitial == GridInit => GridInv
BY DEF GridInit, GridInv, PathsKeepTheirPlace

LEMMA ShapeDatesKeeps == GridInv /\ ShapeDates => GridInv'
<1> SUFFICES ASSUME GridInv, ShapeDates PROVE GridInv'
  OBVIOUS
<1> DEFINE preparedOn(live, t) == [n \in DOMAIN live |-> Prepared(t, live[n])]
           none(p) == Nought(Cashflows(p))
           begun(shapes, n) == [underlying |-> none(shapes[n].option),
                                cache |-> [k \in 1 .. SlotsOf(shapes[n].rows) |-> none(shapes[n].option)]]
<1>1. PICK t \in GridOptions, days \in GridDays :
        /\ valued' = [trade |-> t, days |-> LiveDays(t, days)]
        /\ shaped' = one_shape(preparedOn(LiveDays(t, days), t))
        /\ columns' = [n \in DOMAIN LiveDays(t, days) |-> begun(one_shape(preparedOn(LiveDays(t, days), t)), n)]
  BY Zenon DEF ShapeDates
<1>2. valued = Nothing /\ batch = Nothing /\ row' = row /\ batch' = batch
  BY DEF ShapeDates
<1>3. row' = 0
  BY <1>2 DEF GridInv
<1>4. PICK live, prepared : live = LiveDays(t, days) /\ prepared = preparedOn(live, t)
  OBVIOUS
<1>5. PICK m \in Nat : DOMAIN live = 1 .. m /\ \A n \in 1 .. m : live[n] \in Nat
  BY <1>4, LiveDaysAre, OptionsAssumption
<1>6. DOMAIN prepared = 1 .. m /\ \A n \in 1 .. m : prepared[n] = Prepared(t, live[n])
  BY <1>4, <1>5
<1>7. ASSUME NEW n \in 1 .. m PROVE PreparedFits(prepared[n]) /\ prepared[n].times = option_times(t, live[n])
  BY <1>5, <1>6, PreparedIs
<1>8. PICK shapes : shapes = one_shape(prepared)
  OBVIOUS
<1>9. PICK count \in Nat : ShapesAre(prepared, shapes, count)
  BY <1>6, <1>7, <1>8, OneShapeIs
<1>10. valued' = [trade |-> t, days |-> live] /\ shaped' = shapes /\ columns' = [n \in 1 .. m |-> begun(shapes, n)]
  BY <1>1, <1>4, <1>5, <1>8
<1>11. DOMAIN shaped' = 1 .. m
  BY <1>6, <1>9, <1>10 DEF ShapesAre
<1>12. ASSUME NEW n \in 1 .. m
       PROVE  /\ PreparedFits(shaped'[n].option)
              /\ shaped'[n].option.times = option_times(t, live[n])
              /\ Len(shaped'[n].rows) = count
              /\ DateInv(shaped'[n].option, shaped'[n].rows, columns'[n], exerciseValue'[n], 0)
  <2>1. PICK p, rows : p = shapes[n].option /\ rows = shapes[n].rows
    OBVIOUS
  <2>2. PreparedFits(p) /\ p.times = prepared[n].times /\ Len(rows) = count
    BY <1>6, <1>9, <2>1 DEF ShapesAre
  <2>3. PICK width \in Nat : ShapeIs(p, rows, width)
    BY <1>6, <1>9, <2>1 DEF ShapesAre
  <2>4. PICK col, value : col = columns'[n] /\ value = exerciseValue'[n]
    OBVIOUS
  <2>5. col = [underlying |-> Nought(Cashflows(p)), cache |-> [k \in 1 .. SlotsOf(rows) |-> Nought(Cashflows(p))]]
    BY <1>10, <2>1, <2>4
  <2>6. DateInv(p, rows, col, value, 0)
    BY <2>2, <2>3, <2>5, DateBegins
  <2>. QED
    BY <1>7, <1>10, <2>1, <2>2, <2>4, <2>6
<1>13. valued' # Nothing => /\ row' \in Nat
                            /\ \E k \in Nat : DOMAIN shaped' = 1 .. k
                            /\ \E k \in Nat : \A n \in DOMAIN shaped' : Len(shaped'[n].rows) = k /\ row' <= k
                            /\ \A n \in DOMAIN shaped' :
                                 /\ PreparedFits(shaped'[n].option)
                                 /\ shaped'[n].option.times = option_times(valued'.trade, valued'.days[n])
                                 /\ DateInv(shaped'[n].option, shaped'[n].rows, columns'[n], exerciseValue'[n], row')
  <2>1. valued'.trade = t /\ valued'.days = live
    BY <1>10
  <2>2. \A n \in DOMAIN shaped' : Len(shaped'[n].rows) = count /\ row' <= count
    BY <1>3, <1>11, <1>12
  <2>. QED
    BY <1>3, <1>11, <1>12, <2>1, <2>2
<1>14. PathsKeepTheirPlace'
  BY <1>2 DEF GridInv, PathsKeepTheirPlace
<1>. QED
  BY <1>3, <1>13, <1>14 DEF GridInv

LEMMA InductRowKeeps == GridInv /\ InductRow => GridInv'
<1> SUFFICES ASSUME GridInv, InductRow PROVE GridInv'
  OBVIOUS
<1> DEFINE after(n) == AfterRow(columns[n], shaped[n].rows[row + 1], shaped[n].option)
<1>1. /\ valued # Nothing /\ row < Len(shaped[1].rows)
      /\ columns' = [n \in DOMAIN shaped |-> after(n)]
      /\ exerciseValue' = [n \in DOMAIN shaped |-> ExerciseValue(columns'[n], shaped[n].rows[row + 1])]
      /\ row' = row + 1 /\ valued' = valued /\ shaped' = shaped /\ batch' = batch
  BY DEF InductRow
<1> HIDE DEF after
<1>2. PICK m \in Nat : DOMAIN shaped = 1 .. m
  BY <1>1 DEF GridInv
<1>3. PICK count \in Nat : \A n \in DOMAIN shaped : Len(shaped[n].rows) = count /\ row <= count
  BY <1>1 DEF GridInv
<1>4. row \in Nat
  BY <1>1 DEF GridInv
<1>5. ASSUME NEW n \in DOMAIN shaped PROVE row < count
  <2>1. 1 \in DOMAIN shaped
    BY <1>2
  <2>. QED
    BY <1>1, <1>3, <2>1
<1>6. ASSUME NEW n \in DOMAIN shaped
      PROVE  DateInv(shaped'[n].option, shaped'[n].rows, columns'[n], exerciseValue'[n], row')
  <2>1. PICK p, rows, col, value, next, entered :
          /\ p = shaped[n].option /\ rows = shaped[n].rows /\ col = columns[n] /\ value = exerciseValue[n]
          /\ next = columns'[n] /\ entered = exerciseValue'[n]
    OBVIOUS
  <2>2. PreparedFits(p) /\ DateInv(p, rows, col, value, row)
    BY <1>1, <2>1 DEF GridInv
  <2>3. PlanFits(p)
    BY <2>2, PreparedPlans
  <2>4. next = AfterRow(col, rows[row + 1], p) /\ entered = ExerciseValue(next, rows[row + 1])
    BY <1>1, <2>1 DEF after
  <2>5. row < Len(rows)
    BY <1>3, <1>5, <2>1
  <2>6. DateInv(p, rows, next, ExerciseValue(next, rows[row + 1]), row + 1)
    BY <1>4, <2>2, <2>3, <2>4, <2>5, DateStep
  <2>. QED
    BY <1>1, <2>1, <2>4, <2>6
<1>7. \A n \in DOMAIN shaped' : Len(shaped'[n].rows) = count /\ row' <= count
  BY <1>1, <1>3, <1>4, <1>5
<1>8. \A n \in DOMAIN shaped' :
        /\ PreparedFits(shaped'[n].option)
        /\ shaped'[n].option.times = option_times(valued'.trade, valued'.days[n])
  BY <1>1 DEF GridInv
<1>9. PathsKeepTheirPlace'
  BY <1>1 DEF GridInv, PathsKeepTheirPlace
<1>10. row' \in Nat /\ DOMAIN shaped' = 1 .. m
  BY <1>1, <1>2, <1>4
<1>. QED
  BY <1>1, <1>6, <1>7, <1>8, <1>9, <1>10 DEF GridInv

LEMMA PriceBlocksKeeps == GridInv /\ PriceBlocks => GridInv'
<1> SUFFICES ASSUME GridInv, PriceBlocks PROVE GridInv'
  OBVIOUS
<1>1. valued = Nothing /\ valued' = valued /\ row' = row
  BY DEF PriceBlocks
<1> DEFINE blocksOf(devices, share, budget) == path_blocks(devices * share, 2, devices, budget)
           byOf(devices, share, budget) ==
             ByBlock([p \in 0 .. devices * share - 1 |-> p], blocksOf(devices, share, budget))
<1>2. PICK devices \in 1 .. 2, share \in 1 .. 6, budget \in 1 .. 6 :
        batch' = [paths |-> devices * share, devices |-> devices, budget |-> budget, by |-> byOf(devices, share, budget),
                  values |-> Joined(byOf(devices, share, budget), blocksOf(devices, share, budget))]
  BY Zenon DEF PriceBlocks
<1>3. PICK blocks, by, values : /\ BlockCount(blocks, devices, share, 2, budget)
                                /\ by = byOf(devices, share, budget) /\ values = Joined(by, blocks)
                                /\ blocks = blocksOf(devices, share, budget)
  BY DEF BlockCount
<1>4. batch'.paths = devices * share /\ batch'.devices = devices /\ batch'.by = by /\ batch'.values = values
  BY <1>2, <1>3
<1>5. devices \in Nat \ {0} /\ share \in Nat \ {0}
  OBVIOUS
<1>6. PICK q \in Nat \ {0} : share = blocks * q /\ blocks \in Nat \ {0}
  <2>1. Divides(blocks, share)
    BY <1>3, <1>5, BlocksDivide
  <2>. QED
    BY <2>1 DEF Divides
<1>7. devices * q \in Nat \ {0}
  BY <1>5, <1>6, FactorsPositive
<1>8. Blocked(by, values, blocks, devices * q)
  <2>1. devices * share = blocks * (devices * q)
    BY <1>5, <1>6
  <2>. QED
    BY <1>3, <2>1 DEF Blocked
<1>9. /\ DOMAIN by = 0 .. blocks - 1
      /\ \A b \in DOMAIN by : OfBlock(by[b], b, blocks, devices * q)
      /\ \A p \in DOMAIN values : values[p] = p
  BY <1>6, <1>7, <1>8, BlocksAre
<1>10. (devices * share) \div devices = share
  <2>1. (devices * share + 0) \div devices = share
    <3>1. 0 \in 0 .. devices - 1
      BY <1>5
    <3>. QED
      BY <1>5, <3>1, DivisionIs
  <2>2. devices * share + 0 = devices * share
    BY <1>5
  <2>. QED
    BY <2>1, <2>2
<1>11. ASSUME NEW b \in DOMAIN by, NEW d \in 0 .. devices - 1
       PROVE  Cardinality({p \in Range(by[b]) : p \div share = d}) = q
  <2>1. Owned(by[b], blocks * q, d) = q
    BY <1>5, <1>6, <1>9, DeviceOwns
  <2>. QED
    BY <1>6, <2>1 DEF Owned
<1>12. PathsKeepTheirPlace'
  BY <1>4, <1>9, <1>10, <1>11 DEF PathsKeepTheirPlace
<1>. QED
  BY <1>1, <1>12 DEF GridInv

LEMMA GridInvInvariant == GridSpec => []GridInv
<1>1. GridInv /\ UNCHANGED gridVars => GridInv'
  BY DEF GridInv, gridVars, PathsKeepTheirPlace
<1>2. GridInv /\ [GridNext]_gridVars => GridInv'
  BY <1>1, ShapeDatesKeeps, InductRowKeeps, PriceBlocksKeeps DEF GridNext
<1>. QED
  BY <1>2, GridInitial, PTL DEF GridSpec

LEMMA GridInvHolds == GridInv => InductionIsOrdered
<1> SUFFICES ASSUME GridInv PROVE InductionIsOrdered
  OBVIOUS
<1>1. ASSUME valued # Nothing, NEW n \in DOMAIN shaped
      PROVE  /\ PlanFits(shaped[n].option)
             /\ shaped[n].option.times = option_times(valued.trade, valued.days[n])
             /\ DateInv(shaped[n].option, shaped[n].rows, columns[n], exerciseValue[n], row)
             /\ row \in Nat /\ row <= Len(shaped[n].rows)
  BY <1>1, PreparedPlans DEF GridInv
<1>2. ExerciseHoldsItsCoupons
  <2> SUFFICES ASSUME valued # Nothing, row > 0, NEW n \in DOMAIN shaped, shaped[n].rows[row].is_exercise,
                      NEW i \in DOMAIN Cashflows(shaped[n].option)
               PROVE  LET r == shaped[n].rows[row]
                          flows == Cashflows(shaped[n].option)
                      IN  exerciseValue[n][i] =
                            IF flows[i] # Padding /\ r.t <= flows[i].belongs
                            THEN Max({0, Min({flows[i].end - flows[i].start, flows[i].end - r.t})}) ELSE 0
    BY Zenon DEF ExerciseHoldsItsCoupons
  <2>1. PICK p, rows, col, value : p = shaped[n].option /\ rows = shaped[n].rows /\ col = columns[n] /\ value = exerciseValue[n]
    OBVIOUS
  <2>2. PlanFits(p) /\ DateInv(p, rows, col, value, row) /\ row \in Nat \ {0} /\ row <= Len(rows)
    BY <1>1, <2>1
  <2>3. value[i] = IF Cashflows(p)[i] # Padding /\ rows[row].t <= Cashflows(p)[i].belongs
                   THEN Credit(Cashflows(p)[i], rows[row].t) ELSE 0
    BY <2>1, <2>2, DateHolds
  <2>. QED
    BY <2>1, <2>3 DEF Credit
<1>3. EveryTimeIsARow
  BY <1>1, DateTimes DEF EveryTimeIsARow
<1>4. PathsKeepTheirPlace
  BY DEF GridInv
<1>. QED
  BY <1>2, <1>3, <1>4 DEF InductionIsOrdered

\* What the induction hands an exercise (lgm_grid.py, _build_grid_schedule, _cache_slots, one_shape,
\* _bookkeeping, path_blocks and blocked): at every exercise time of every date it is the coupons an
\* exercise then enters, each in the share of its period left, however many coupons, dates and times
\* there are; every time has its row; and a block of paths takes as many from every device and gives
\* each path its own value back.
THEOREM InductionKept == GridSpec => []InductionIsOrdered
BY GridInvInvariant, GridInvHolds, PTL

=============================================================================
