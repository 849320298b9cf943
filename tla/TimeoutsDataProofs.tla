------------------------ MODULE TimeoutsDataProofs ------------------------
(***************************************************************************)
(* What the clock of core/timers.c tells, and what sys_timeout,            *)
(* sys_untimeout, sys_check_timeouts and sys_timeouts_init make of the     *)
(* list, for any handlers and times and a clock of any width: the lemmas   *)
(* TimeoutsProofs rests on.                                                *)
(***************************************************************************)
EXTENDS Timeouts, TimeoutListProofs

-----------------------------------------------------------------------------
(* The clock *)

\* How far the clock has come from a to b.
Ahead(a, b) == (b - a) % Modulus

\* Modulo the width of the clock.
LEMMA ModuloIs ==
  ASSUME NEW M \in Nat, M > 0, NEW x \in Int
  PROVE  /\ 0 <= x /\ x < M => x % M = x
         /\ -M <= x /\ x < 0 => x % M = x + M
         /\ M <= x /\ x < 2 * M => x % M = x - M
OBVIOUS

\* The clock has several values, and sys_check_timeouts lags by less than all of them.
LEMMA ClockWidth == Modulus \in Nat /\ Modulus > 1 /\ MaxLag \in Nat /\ MaxLag < Modulus
BY TimeoutsAssumption

\* How far one time of the clock is ahead of another, without the remainder.
LEMMA AheadIs ==
  ASSUME NEW a \in 0..Modulus - 1, NEW b \in 0..Modulus - 1
  PROVE  /\ Ahead(a, b) = IF b >= a THEN b - a ELSE b - a + Modulus
         /\ Ahead(a, b) \in 0..Modulus - 1
BY ClockWidth, ModuloIs DEF Ahead

\* A time is not ahead of itself.
LEMMA AheadSelf ==
  ASSUME NEW a \in 0..Modulus - 1
  PROVE  Ahead(a, a) = 0
BY AheadIs, ClockWidth

\* Two distances on the clock add up as long as the sum does not wrap around.
LEMMA AheadAdds ==
  ASSUME NEW a \in 0..Modulus - 1, NEW b \in 0..Modulus - 1, NEW c \in 0..Modulus - 1,
         Ahead(a, b) + Ahead(b, c) <= Modulus - 1
  PROVE  Ahead(a, c) = Ahead(a, b) + Ahead(b, c)
<1>1. PICK x \in 0..Modulus - 1 : x = Ahead(a, b) /\ x = IF b >= a THEN b - a ELSE b - a + Modulus
  BY AheadIs
<1>2. PICK y \in 0..Modulus - 1 : y = Ahead(b, c) /\ y = IF c >= b THEN c - b ELSE c - b + Modulus
  BY AheadIs
<1>3. PICK z \in 0..Modulus - 1 : z = Ahead(a, c) /\ z = IF c >= a THEN c - a ELSE c - a + Modulus
  BY AheadIs
<1>4. x + y <= Modulus - 1
  BY <1>1, <1>2
<1>5. z = x + y
  BY <1>1, <1>2, <1>3, <1>4, ClockWidth
<1> QED
  BY <1>1, <1>2, <1>3, <1>5

\* A tick of the clock moves it one ahead, unless that wraps around.
LEMMA NextTick ==
  ASSUME NEW a \in 0..Modulus - 1, NEW b \in 0..Modulus - 1
  PROVE  /\ (b + 1) % Modulus \in 0..Modulus - 1
         /\ Ahead(a, b) + 1 < Modulus => Ahead(a, (b + 1) % Modulus) = Ahead(a, b) + 1
<1>1. (b + 1) % Modulus = IF b + 1 = Modulus THEN 0 ELSE b + 1
  BY ClockWidth, ModuloIs
<1>2. PICK n \in 0..Modulus - 1 : n = (b + 1) % Modulus /\ n = IF b + 1 = Modulus THEN 0 ELSE b + 1
  BY ClockWidth, <1>1
<1>3. Ahead(a, b) = IF b >= a THEN b - a ELSE b - a + Modulus
  BY AheadIs
<1>4. Ahead(a, n) = IF n >= a THEN n - a ELSE n - a + Modulus
  BY AheadIs
<1>5. Ahead(a, b) + 1 < Modulus => Ahead(a, n) = Ahead(a, b) + 1
  BY ClockWidth, <1>2, <1>3, <1>4
<1> QED
  BY <1>2, <1>5
-----------------------------------------------------------------------------
(* The list *)

\* What is left before entry i expires, by the times of the handlers called.
Left(list, i) == IF i = 0 THEN 0 ELSE list[i].left

\* The times of the list are the differences of what is left.
AddsUp(list) ==
  \A i \in 1..Len(list) : /\ list[i].time = Left(list, i) - Left(list, i - 1)
                          /\ list[i].left <= Modulus - 1

Has(list, h) == \E i \in 1..Len(list) : list[i].h = h
Once(list, h) == \A i, j \in 1..Len(list) : list[i].h = h /\ list[j].h = h => i = j

\* The sums of the differences are what is left.
LEMMA LeftIsSum ==
  ASSUME NEW list \in Seq(Entries(Handlers)), AddsUp(list)
  PROVE  /\ \A i \in 0..Len(list) : Cumulative(list, i) = Left(list, i) /\ Left(list, i) \in Nat
         /\ \A i, j \in 0..Len(list) : i <= j => Left(list, i) <= Left(list, j)
<1> DEFINE n == Len(list)
<1>1. n \in Nat /\ \A i \in 1..n : list[i] \in Entries(Handlers)
  OBVIOUS
<1>2. \A i \in 1..n : list[i].time \in Nat /\ list[i].left \in Int
  BY <1>1 DEF Entries
<1>3. \A i \in 1..n : list[i].time = Left(list, i) - Left(list, i - 1)
  BY DEF AddsUp
<1>4. Left(list, 0) = 0 /\ \A i \in 1..n : Left(list, i) = list[i].left
  BY DEF Left
<1> HIDE DEF n
<1>5. /\ Cumulative(list, 0) = 0
      /\ \A i \in 0..n : Cumulative(list, i) \in Nat
      /\ \A i \in 1..n : Cumulative(list, i) = Cumulative(list, i - 1) + list[i].time
  BY <1>1, <1>2, CumulativeStep
<1> DEFINE S == {i \in 0..n : Cumulative(list, i) # Left(list, i)}
<1>6. S = {}
  <2> SUFFICES ASSUME S # {} PROVE FALSE
    OBVIOUS
  <2>1. S \subseteq Nat
    BY <1>1
  <2>2. PICK i \in S : \A j \in S : i <= j
    <3> HIDE DEF S
    <3> QED  BY <2>1, LeastNumber
  <2>3. i \in 1..n /\ i - 1 \in 0..n /\ i - 1 \notin S
    BY <1>1, <1>4, <1>5, <2>2
  <2>4. Cumulative(list, i - 1) = Left(list, i - 1)
    BY <2>3
  <2>5. Left(list, i) \in Int /\ Left(list, i - 1) \in Int
    BY <1>2, <1>4, <1>5, <2>3, <2>4
  <2>6. Cumulative(list, i) = Left(list, i)
    BY <1>2, <1>3, <1>5, <2>3, <2>4, <2>5
  <2> QED
    BY <2>6
<1>7. \A i \in 0..n : Cumulative(list, i) = Left(list, i)
  BY <1>6
<1>8. ASSUME NEW i \in 0..n, NEW j \in 0..n, i <= j
      PROVE  Left(list, i) <= Left(list, j)
  <2>1. j \in i..n
    BY <1>1, <1>8
  <2>2. Cumulative(list, i) <= Cumulative(list, j)
    BY <1>1, <1>2, <2>1, CumulativeMonotone
  <2> QED
    BY <1>7, <2>2
<1> QED
  BY <1>5, <1>7, <1>8 DEF n

\* Two entries that differ at most in their time.
Like(x, y) == x.h = y.h /\ x.left = y.left /\ x.wait = y.wait

PutIn(list, e, k, r) ==
  /\ k \in 0..Len(list) /\ Len(r) = Len(list) + 1
  /\ Like(r[k + 1], e)
  /\ \A j \in 1..k : Like(r[j], list[j])
  /\ \A j \in k + 1..Len(list) : Like(r[j + 1], list[j])

\* sys_timeout puts an entry into the list, and the differences add up again.
LEMMA InsertedAddsUp ==
  ASSUME NEW list \in Seq(Entries(Handlers)), AddsUp(list),
         NEW h \in Handlers, NEW msecs \in 0..Modulus - 1
  PROVE  /\ Inserted(list, Entry(msecs, h)) \in Seq(Entries(Handlers))
         /\ AddsUp(Inserted(list, Entry(msecs, h)))
         /\ \E k \in 0..Len(list) : PutIn(list, Entry(msecs, h), k, Inserted(list, Entry(msecs, h)))
<1> DEFINE n == Len(list)
           e == Entry(msecs, h)
           r == Inserted(list, e)
<1>1. n \in Nat /\ \A i \in 1..n : list[i] \in Entries(Handlers)
  OBVIOUS
<1>2. \A i \in 1..n : list[i].time \in Nat /\ list[i].left \in Int /\ DOMAIN list[i] = {"h", "time", "left", "wait"}
  BY <1>1 DEF Entries
<1>3. e \in Entries(Handlers) /\ e.time = msecs /\ e.left = msecs /\ e.wait = msecs /\ e.h = h
      /\ DOMAIN e = {"h", "time", "left", "wait"}
  BY ClockWidth DEF Entry, Entries
<1> HIDE DEF n, e, r
<1>4. r \in Seq(Entries(Handlers)) /\ \E k \in 0..n : InsertedBehind(list, e, k, r)
  BY <1>3, InsertedIs DEF n, r
<1>5. PICK k \in 0..n : InsertedBehind(list, e, k, r)
  BY <1>4
<1>6. \A i \in 0..n : Cumulative(list, i) = Left(list, i) /\ Left(list, i) \in Nat
  BY LeftIsSum DEF n
<1>7. /\ Len(r) = n + 1
      /\ \A j \in 1..k : r[j] = list[j]
      /\ r[k + 1] = [e EXCEPT !.time = e.time - Left(list, k)]
      /\ k < n => r[k + 2] = [list[k + 1] EXCEPT !.time = Left(list, k + 1) - e.time]
      /\ \A j \in k + 2..n : r[j + 1] = list[j]
  BY <1>1, <1>5, <1>6 DEF InsertedBehind, n
<1>8. Like(r[k + 1], e) /\ r[k + 1].time = msecs - Left(list, k) /\ r[k + 1].left = msecs
  BY <1>3, <1>7 DEF Like
<1>9. ASSUME k < n
      PROVE  Like(r[k + 2], list[k + 1]) /\ r[k + 2].time = Left(list, k + 1) - msecs
             /\ r[k + 2].left = Left(list, k + 1)
  <2>1. k + 1 \in 1..n
    BY <1>1, <1>9
  <2> QED
    BY <1>2, <1>3, <1>7, <1>9, <2>1 DEF Like, Left
<1>10. PutIn(list, e, k, r)
  <2>1. \A j \in 1..k : Like(r[j], list[j])
    BY <1>7 DEF Like
  <2>2. \A j \in k + 1..n : Like(r[j + 1], list[j])
    <3> SUFFICES ASSUME NEW j \in k + 1..n
                 PROVE  Like(r[j + 1], list[j])
      OBVIOUS
    <3>1. CASE j = k + 1
      <4>1. k < n /\ j + 1 = k + 2
        BY <1>1, <3>1
      <4>2. Like(r[k + 2], list[k + 1])
        BY <1>9, <4>1
      <4> QED
        BY <3>1, <4>1, <4>2, Zenon
    <3>2. CASE j # k + 1
      <4>1. j \in k + 2..n
        BY <1>1, <3>2
      <4>2. r[j + 1] = list[j]
        BY <1>7, <4>1
      <4> QED
        BY <4>2 DEF Like
    <3> QED
      BY <3>1, <3>2
  <2> QED
    BY <1>7, <1>8, <2>1, <2>2 DEF PutIn, n
<1>11. AddsUp(r)
  <2>0. \A i \in 1..n : list[i].time = Left(list, i) - Left(list, i - 1) /\ list[i].left <= Modulus - 1
    BY DEF AddsUp, n
  <2> SUFFICES ASSUME NEW i \in 1..n + 1
               PROVE  r[i].time = Left(r, i) - Left(r, i - 1) /\ r[i].left <= Modulus - 1
    BY <1>7 DEF AddsUp
  <2>1. \A j \in 0..k : Left(r, j) = Left(list, j)
    BY <1>7 DEF Left
  <2>2. ASSUME NEW j \in k + 2..n + 1
        PROVE  Left(r, j) = Left(list, j - 1)
    <3>1. CASE j = k + 2
      <4>1. k < n /\ j - 1 = k + 1
        BY <1>1, <3>1
      <4>2. Left(r, j) = r[k + 2].left
        BY <3>1 DEF Left
      <4> QED
        BY <1>9, <4>1, <4>2
    <3>2. CASE j # k + 2
      <4>1. j - 1 \in k + 2..n /\ (j - 1) + 1 = j /\ j # 0 /\ j - 1 # 0
        BY <1>1, <3>2
      <4>2. r[j] = list[j - 1]
        BY <1>7, <4>1
      <4> QED
        BY <4>1, <4>2 DEF Left
    <3> QED
      BY <3>1, <3>2
  <2>3. Left(r, k + 1) = msecs
    BY <1>1, <1>8 DEF Left
  <2>4. CASE i \in 1..k
    <3>1. i \in 1..n /\ i \in 0..k /\ i - 1 \in 0..k
      BY <1>1, <2>4
    <3>2. Left(r, i) = Left(list, i) /\ Left(r, i - 1) = Left(list, i - 1) /\ r[i] = list[i]
      BY <1>7, <2>1, <2>4, <3>1
    <3> QED
      BY <2>0, <3>1, <3>2
  <2>5. CASE i = k + 1
    BY <1>1, <1>8, <2>1, <2>3, <2>5
  <2>6. CASE i = k + 2
    BY <1>1, <1>9, <2>0, <2>2, <2>3, <2>6 DEF Left
  <2>7. CASE i > k + 2
    <3>1. i - 1 \in 1..n /\ i - 1 \in k + 2..n /\ i \in k + 2..n + 1 /\ i - 1 \in k + 2..n + 1
      BY <1>1, <2>7
    <3>2. r[i - 1 + 1] = list[i - 1] /\ i - 1 + 1 = i
      BY <1>1, <1>7, <3>1
    <3>3. Left(r, i) = Left(list, i - 1) /\ Left(r, i - 1) = Left(list, i - 1 - 1)
      BY <2>2, <3>1
    <3>4. list[i - 1].time = Left(list, i - 1) - Left(list, i - 1 - 1) /\ list[i - 1].left <= Modulus - 1
      BY <2>0, <3>1
    <3> QED
      BY <3>2, <3>3, <3>4
  <2> QED
    BY <1>1, <2>4, <2>5, <2>6, <2>7
<1> QED
  BY <1>4, <1>10, <1>11 DEF n, e, r

TakenOut(list, i, r) ==
  /\ i \in 1..Len(list) /\ Len(r) = Len(list) - 1
  /\ \A j \in 1..i - 1 : Like(r[j], list[j])
  /\ \A j \in i..Len(list) - 1 : Like(r[j], list[j + 1])

\* sys_untimeout takes an entry of h out of the list, if there is one, and the
\* differences add up again.
LEMMA RemovedAddsUp ==
  ASSUME NEW list \in Seq(Entries(Handlers)), AddsUp(list), NEW h
  PROVE  /\ Removed(list, h) \in Seq(Entries(Handlers))
         /\ AddsUp(Removed(list, h))
         /\ \/ Removed(list, h) = list
            \/ \E i \in 1..Len(list) : list[i].h = h /\ TakenOut(list, i, Removed(list, h))
<1> DEFINE n == Len(list)
           r == Removed(list, h)
<1>1. n \in Nat /\ \A i \in 1..n : list[i] \in Entries(Handlers)
  OBVIOUS
<1>2. \A i \in 1..n : list[i].time \in Nat /\ list[i].left \in Int /\ DOMAIN list[i] = {"h", "time", "left", "wait"}
  BY <1>1 DEF Entries
<1>3. r \in Seq(Entries(Handlers)) /\ (r = list \/ \E i \in 1..n : list[i].h = h /\ RemovedAt(list, i, r))
  BY RemovedIs
<1>4. \A i \in 0..n : Left(list, i) \in Nat
  BY LeftIsSum
<1>5. \A i \in 1..n : list[i].time = Left(list, i) - Left(list, i - 1) /\ list[i].left <= Modulus - 1
  BY DEF AddsUp
<1> HIDE DEF n, r
<1>6. CASE r = list
  BY <1>3, <1>6 DEF r
<1>7. CASE \E i \in 1..n : list[i].h = h /\ RemovedAt(list, i, r)
  <2>1. PICK i \in 1..n : list[i].h = h /\ RemovedAt(list, i, r)
    BY <1>7
  <2>2. /\ Len(r) = n - 1
        /\ \A j \in 1..i - 1 : r[j] = list[j]
        /\ i < n => r[i] = [list[i + 1] EXCEPT !.time = list[i + 1].time + list[i].time]
        /\ \A j \in i + 1..n - 1 : r[j] = list[j + 1]
    BY <2>1 DEF RemovedAt, n
  <2>3. ASSUME i < n
        PROVE  Like(r[i], list[i + 1]) /\ r[i].time = list[i + 1].time + list[i].time
    <3>1. i + 1 \in 1..n
      BY <1>1, <2>3
    <3> QED
      BY <1>2, <2>2, <2>3, <3>1 DEF Like
  <2>4. ASSUME NEW j \in i..n - 1
        PROVE  Like(r[j], list[j + 1])
    <3>1. CASE j = i
      <4>1. i < n
        BY <1>1, <3>1
      <4> QED
        BY <2>3, <3>1, <4>1, Zenon
    <3>2. CASE j # i
      <4>1. j \in i + 1..n - 1
        BY <1>1, <3>2
      <4>2. r[j] = list[j + 1]
        BY <2>2, <4>1
      <4> QED
        BY <4>2 DEF Like
    <3> QED
      BY <3>1, <3>2
  <2>5. TakenOut(list, i, r)
    <3>1. \A j \in 1..i - 1 : Like(r[j], list[j])
      BY <2>2 DEF Like
    <3> QED
      BY <2>2, <2>4, <3>1 DEF TakenOut, n
  <2>6. AddsUp(r)
    <3> SUFFICES ASSUME NEW j \in 1..n - 1
                 PROVE  r[j].time = Left(r, j) - Left(r, j - 1) /\ r[j].left <= Modulus - 1
      BY <2>2 DEF AddsUp
    <3>1. \A k \in 0..i - 1 : Left(r, k) = Left(list, k)
      BY <2>2 DEF Left
    <3>2. ASSUME NEW k \in i..n - 1
          PROVE  Left(r, k) = Left(list, k + 1)
      <4>1. k # 0 /\ k + 1 # 0
        BY <1>1
      <4> QED
        BY <2>4, <4>1 DEF Left, Like
    <3>3. CASE j < i
      <4>1. j \in 1..n /\ j \in 0..i - 1 /\ j - 1 \in 0..i - 1 /\ j \in 1..i - 1
        BY <1>1, <3>3
      <4>2. r[j] = list[j] /\ Left(r, j) = Left(list, j) /\ Left(r, j - 1) = Left(list, j - 1)
        BY <2>2, <3>1, <4>1
      <4> QED
        BY <1>5, <4>1, <4>2
    <3>4. CASE j = i
      <4>1. i < n /\ i + 1 \in 1..n /\ i \in i..n - 1 /\ i - 1 \in 0..i - 1 /\ i + 1 - 1 = i
            /\ i \in 0..n /\ i + 1 \in 0..n /\ i - 1 \in 0..n
        BY <1>1, <3>4
      <4>2. r[i].time = list[i + 1].time + list[i].time /\ r[i].left = list[i + 1].left
        BY <2>3, <4>1 DEF Like
      <4>3. Left(r, i) = Left(list, i + 1) /\ Left(r, i - 1) = Left(list, i - 1)
        BY <3>1, <3>2, <4>1
      <4>4. /\ list[i + 1].time = Left(list, i + 1) - Left(list, i)
            /\ list[i].time = Left(list, i) - Left(list, i - 1)
            /\ list[i + 1].left <= Modulus - 1
        BY <1>5, <4>1
      <4>5. Left(list, i + 1) \in Nat /\ Left(list, i) \in Nat /\ Left(list, i - 1) \in Nat
        BY <1>4, <4>1
      <4> QED
        BY <3>4, <4>2, <4>3, <4>4, <4>5
    <3>5. CASE j > i
      <4>1. j + 1 \in 1..n /\ j \in i + 1..n - 1 /\ j \in i..n - 1 /\ j - 1 \in i..n - 1
            /\ j - 1 + 1 = j /\ j + 1 - 1 = j
        BY <1>1, <3>5
      <4>2. r[j] = list[j + 1] /\ Left(r, j) = Left(list, j + 1) /\ Left(r, j - 1) = Left(list, j)
        BY <2>2, <3>2, <4>1
      <4> QED
        BY <1>5, <4>1, <4>2
    <3> QED
      BY <1>1, <3>3, <3>4, <3>5
  <2> QED
    BY <1>3, <2>1, <2>5, <2>6 DEF n, r
<1> QED
  BY <1>3, <1>6, <1>7

\* What sys_timeout makes of the list.
Made(list, msecs, h, r) ==
  /\ r \in Seq(Entries(Handlers)) /\ Len(r) = Len(list) + 1 /\ AddsUp(r)
  /\ \A j \in 1..Len(r) : \/ r[j].left = msecs /\ r[j].wait = msecs /\ r[j].h = h
                          \/ \E i \in 1..Len(list) : Like(r[j], list[i])
  /\ Has(r, h) /\ (~Has(list, h) => Once(r, h))
  /\ \A g : g # h => (Has(r, g) <=> Has(list, g)) /\ (Once(list, g) => Once(r, g))

\* sys_timeout does to the list what Made says.
LEMMA TimeoutMade ==
  ASSUME NEW list \in Seq(Entries(Handlers)), AddsUp(list),
         NEW h \in Handlers, NEW msecs \in 1..Modulus - 1
  PROVE  Made(list, msecs, h, Inserted(list, Entry(msecs, h)))
<1> DEFINE n == Len(list)
           e == Entry(msecs, h)
           r == Inserted(list, e)
<1>1. n \in Nat
  OBVIOUS
<1>2. e.h = h /\ e.left = msecs /\ e.wait = msecs
  BY DEF Entry
<1>3. msecs \in 0..Modulus - 1
  BY ClockWidth
<1>4. r \in Seq(Entries(Handlers)) /\ AddsUp(r) /\ \E k \in 0..n : PutIn(list, e, k, r)
  BY <1>3, InsertedAddsUp
<1> HIDE DEF e, r
<1>5. PICK k \in 0..n : PutIn(list, e, k, r)
  BY <1>4
<1>6. /\ Len(r) = n + 1
      /\ r[k + 1].h = h /\ r[k + 1].left = msecs /\ r[k + 1].wait = msecs
      /\ \A j \in 1..k : Like(r[j], list[j])
      /\ \A j \in k + 1..n : Like(r[j + 1], list[j])
  BY <1>2, <1>5 DEF PutIn, Like
<1> HIDE DEF n
<1> DEFINE From(j) == IF j <= k THEN j ELSE j - 1
           To(i) == IF i <= k THEN i ELSE i + 1
<1>7. ASSUME NEW j \in 1..n + 1, j # k + 1
      PROVE  From(j) \in 1..n /\ Like(r[j], list[From(j)])
  <2>1. CASE j <= k
    <3>1. j \in 1..k /\ j \in 1..n
      BY <1>1, <2>1
    <3> QED
      BY <1>6, <2>1, <3>1
  <2>2. CASE ~(j <= k)
    <3>1. j - 1 \in k + 1..n /\ j - 1 \in 1..n /\ (j - 1) + 1 = j
      BY <1>1, <1>7, <2>2
    <3>2. Like(r[(j - 1) + 1], list[j - 1])
      BY <1>6, <3>1
    <3> QED
      BY <2>2, <3>1, <3>2
  <2> QED
    BY <2>1, <2>2
<1>8. ASSUME NEW i \in 1..n
      PROVE  To(i) \in 1..n + 1 /\ Like(r[To(i)], list[i])
  <2>1. CASE i <= k
    <3>1. i \in 1..k /\ i \in 1..n + 1
      BY <1>1, <2>1
    <3> QED
      BY <1>6, <2>1, <3>1
  <2>2. CASE ~(i <= k)
    <3>1. i \in k + 1..n /\ i + 1 \in 1..n + 1
      BY <1>1, <2>2
    <3> QED
      BY <1>6, <2>2, <3>1
  <2> QED
    BY <2>1, <2>2
<1>9. \A a, b \in 1..n + 1 : a # k + 1 /\ b # k + 1 /\ From(a) = From(b) => a = b
  BY <1>1
<1> HIDE DEF From, To
<1>10. k + 1 \in 1..n + 1
  BY <1>1
<1>11. Has(r, h)
  BY <1>6, <1>10 DEF Has
<1>12. \A j \in 1..Len(r) : \/ r[j].left = msecs /\ r[j].wait = msecs /\ r[j].h = h
                            \/ \E i \in 1..Len(list) : Like(r[j], list[i])
  BY <1>6, <1>7 DEF n
<1>13. ASSUME ~Has(list, h)
       PROVE  Once(r, h)
  <2>1. \A j \in 1..n + 1 : r[j].h = h => j = k + 1
    BY <1>7, <1>13 DEF Has, Like, n
  <2> QED
    BY <1>6, <2>1 DEF Once
<1>14. ASSUME NEW g, g # h
       PROVE  (Has(r, g) <=> Has(list, g)) /\ (Once(list, g) => Once(r, g))
  <2>1. \A j \in 1..n + 1 : r[j].h = g => j # k + 1 /\ From(j) \in 1..n /\ list[From(j)].h = g
    BY <1>6, <1>7, <1>14 DEF Like
  <2>2. Has(r, g) => Has(list, g)
    BY <1>6, <2>1 DEF Has, n
  <2>3. Has(list, g) => Has(r, g)
    BY <1>6, <1>8 DEF Has, Like, n
  <2>4. ASSUME Once(list, g), NEW a \in 1..n + 1, NEW b \in 1..n + 1, r[a].h = g, r[b].h = g
        PROVE  a = b
    <3>1. From(a) = From(b)
      BY <2>1, <2>4 DEF Once, n
    <3> QED
      BY <1>9, <2>1, <2>4, <3>1
  <2>5. Once(list, g) => Once(r, g)
    BY <1>6, <2>4 DEF Once
  <2> QED
    BY <2>2, <2>3, <2>5
<1> QED
  BY <1>4, <1>6, <1>11, <1>12, <1>13, <1>14 DEF Made, n, r, e

\* What sys_untimeout makes of it.
Unmade(list, h, r) ==
  /\ r \in Seq(Entries(Handlers)) /\ Len(r) <= Len(list) /\ AddsUp(r)
  /\ \A j \in 1..Len(r) : \E i \in 1..Len(list) : Like(r[j], list[i])
  /\ \A g : g # h => (Has(r, g) <=> Has(list, g)) /\ (Once(list, g) => Once(r, g))

\* sys_untimeout does to the list what Unmade says.
LEMMA TimeoutUnmade ==
  ASSUME NEW list \in Seq(Entries(Handlers)), AddsUp(list), NEW h
  PROVE  Unmade(list, h, Removed(list, h))
<1> DEFINE n == Len(list)
           r == Removed(list, h)
<1>1. n \in Nat
  OBVIOUS
<1>2. /\ r \in Seq(Entries(Handlers)) /\ AddsUp(r)
      /\ r = list \/ \E i \in 1..n : list[i].h = h /\ TakenOut(list, i, r)
  BY RemovedAddsUp
<1> HIDE DEF r
<1>3. CASE r = list
  <2>1. \A j \in 1..Len(r) : \E i \in 1..Len(list) : Like(r[j], list[i])
    BY <1>3 DEF Like
  <2>2. Len(r) <= Len(list)
    BY <1>1, <1>3
  <2> QED
    BY <1>2, <1>3, <2>1, <2>2 DEF Unmade, r
<1>4. CASE \E i \in 1..n : list[i].h = h /\ TakenOut(list, i, r)
  <2>1. PICK k \in 1..n : list[k].h = h /\ TakenOut(list, k, r)
    BY <1>4
  <2>2. /\ Len(r) = n - 1
        /\ \A j \in 1..k - 1 : Like(r[j], list[j])
        /\ \A j \in k..n - 1 : Like(r[j], list[j + 1])
    BY <2>1 DEF TakenOut
  <2> HIDE DEF n
  <2> DEFINE From(j) == IF j < k THEN j ELSE j + 1
             To(i) == IF i < k THEN i ELSE i - 1
  <2>3. ASSUME NEW j \in 1..n - 1
        PROVE  From(j) \in 1..n /\ Like(r[j], list[From(j)])
    <3>1. CASE j < k
      <4>1. j \in 1..k - 1 /\ j \in 1..n
        BY <1>1, <3>1
      <4> QED
        BY <2>2, <3>1, <4>1
    <3>2. CASE ~(j < k)
      <4>1. j \in k..n - 1 /\ j + 1 \in 1..n
        BY <1>1, <3>2
      <4> QED
        BY <2>2, <3>2, <4>1
    <3> QED
      BY <3>1, <3>2
  <2>4. ASSUME NEW i \in 1..n, i # k
        PROVE  To(i) \in 1..n - 1 /\ Like(r[To(i)], list[i])
    <3>1. CASE i < k
      <4>1. i \in 1..k - 1 /\ i \in 1..n - 1
        BY <1>1, <3>1
      <4> QED
        BY <2>2, <3>1, <4>1
    <3>2. CASE ~(i < k)
      <4>1. i - 1 \in k..n - 1 /\ i - 1 \in 1..n - 1 /\ (i - 1) + 1 = i
        BY <1>1, <2>4, <3>2
      <4>2. Like(r[i - 1], list[(i - 1) + 1])
        BY <2>2, <4>1
      <4> QED
        BY <3>2, <4>1, <4>2
    <3> QED
      BY <3>1, <3>2
  <2>5. \A a, b \in 1..n - 1 : From(a) = From(b) => a = b
    BY <1>1
  <2> HIDE DEF From, To
  <2>6. \A j \in 1..Len(r) : \E i \in 1..Len(list) : Like(r[j], list[i])
    BY <2>2, <2>3 DEF n
  <2>7. ASSUME NEW g, g # h
        PROVE  (Has(r, g) <=> Has(list, g)) /\ (Once(list, g) => Once(r, g))
    <3>1. \A j \in 1..n - 1 : r[j].h = g => From(j) \in 1..n /\ list[From(j)].h = g
      BY <2>3 DEF Like
    <3>2. Has(r, g) => Has(list, g)
      BY <2>2, <3>1 DEF Has, n
    <3>3. ASSUME Has(list, g) PROVE Has(r, g)
      <4>1. PICK i \in 1..n : list[i].h = g
        BY <3>3 DEF Has, n
      <4>2. To(i) \in 1..n - 1 /\ r[To(i)].h = g
        BY <2>1, <2>4, <2>7, <4>1 DEF Like
      <4> QED
        BY <2>2, <4>2 DEF Has
    <3>4. ASSUME Once(list, g), NEW a \in 1..n - 1, NEW b \in 1..n - 1, r[a].h = g, r[b].h = g
          PROVE  a = b
      <4>1. From(a) = From(b)
        BY <3>1, <3>4 DEF Once, n
      <4> QED
        BY <2>5, <4>1
    <3>5. Once(list, g) => Once(r, g)
      BY <2>2, <3>4 DEF Once
    <3> QED
      BY <3>2, <3>3, <3>5
  <2>8. Len(r) <= Len(list)
    BY <1>1, <2>2 DEF n
  <2> QED
    BY <1>2, <2>6, <2>7, <2>8 DEF Unmade, r
<1> QED
  BY <1>2, <1>3, <1>4

\* An entry with another history is an entry.
LEMMA LeftChanged ==
  ASSUME NEW e \in Entries(Handlers), NEW x \in Int, NEW y, y = [e EXCEPT !.left = x]
  PROVE  y \in Entries(Handlers) /\ y.h = e.h /\ y.time = e.time /\ y.left = x /\ y.wait = e.wait
BY DEF Entries

\* The same for the time that really remains.
LEMMA WaitChanged ==
  ASSUME NEW e \in Entries(Handlers), NEW x \in Int, NEW y, y = [e EXCEPT !.wait = x]
  PROVE  y \in Entries(Handlers) /\ y.h = e.h /\ y.time = e.time /\ y.left = e.left /\ y.wait = x
BY DEF Entries

\* The list when its head has been called.
Rest(list) == [i \in 1..Len(list) - 1 |-> [list[i + 1] EXCEPT !.left = @ - list[1].time]]

\* The head of the list goes, and the time of it with it.
Called(list, r) ==
  /\ r \in Seq(Entries(Handlers)) /\ Len(r) = Len(list) - 1 /\ AddsUp(r)
  /\ \A j \in 1..Len(r) : r[j].left = list[j + 1].left - list[1].time /\ r[j].wait = list[j + 1].wait
  /\ Once(list, list[1].h) => ~Has(r, list[1].h)
  /\ \A g : g # list[1].h => (Has(r, g) <=> Has(list, g)) /\ (Once(list, g) => Once(r, g))

\* When sys_check_timeouts takes the first entry off the list, the others have
\* the time of that entry less to go.
LEMMA HeadCalled ==
  ASSUME NEW list \in Seq(Entries(Handlers)), AddsUp(list), list # <<>>
  PROVE  Called(list, Rest(list))
<1> DEFINE n == Len(list)
           r == Rest(list)
<1>1. n \in Nat /\ n >= 1 /\ \A i \in 1..n : list[i] \in Entries(Handlers)
  OBVIOUS
<1>2. \A i \in 1..n - 1 : r[i] = [list[i + 1] EXCEPT !.left = @ - list[1].time]
  BY DEF Rest
<1>r. r = [i \in 1..n - 1 |-> r[i]]
  BY DEF Rest
<1> HIDE DEF r
<1>3. \A i \in 1..n : list[i].time = Left(list, i) - Left(list, i - 1) /\ list[i].left <= Modulus - 1
  BY DEF AddsUp
<1> HIDE DEF n
<1>4. \A i \in 1..n : list[i].time \in Nat /\ list[i].left \in Int
  BY <1>1 DEF Entries
<1>5. ASSUME NEW j \in 1..n - 1
      PROVE  /\ r[j] \in Entries(Handlers) /\ j + 1 \in 1..n
             /\ r[j].h = list[j + 1].h /\ r[j].time = list[j + 1].time
             /\ r[j].left = list[j + 1].left - list[1].time /\ r[j].wait = list[j + 1].wait
  <2>1. j + 1 \in 1..n /\ 1 \in 1..n
    BY <1>1
  <2>2. r[j] = [list[j + 1] EXCEPT !.left = @ - list[1].time]
    BY <1>2
  <2>3. list[j + 1] \in Entries(Handlers)
    BY <1>1, <2>1
  <2>4. PICK d \in Int : d = list[1].time
    BY <1>4, <2>1
  <2>5. PICK e \in Entries(Handlers) : e = list[j + 1]
    BY <2>3
  <2>6. PICK x \in Int : x = e.left - d
    BY <1>4, <2>1, <2>5
  <2>7. r[j] = [e EXCEPT !.left = x]
    BY <2>2, <2>4, <2>5, <2>6
  <2>8. /\ r[j] \in Entries(Handlers) /\ r[j].h = e.h /\ r[j].time = e.time
        /\ r[j].left = x /\ r[j].wait = e.wait
    BY <2>7, LeftChanged
  <2> QED
    BY <2>1, <2>4, <2>5, <2>6, <2>8
<1>6. r \in Seq(Entries(Handlers)) /\ Len(r) = n - 1
  <2>1. \A i \in 1..n - 1 : r[i] \in Entries(Handlers)
    BY <1>5
  <2>2. r \in [1..n - 1 -> Entries(Handlers)]
    BY <1>r, <2>1
  <2>3. n - 1 \in Nat
    BY <1>1
  <2> QED
    BY <2>2, <2>3
<1>7. list[1].time = list[1].left
  <2>1. 1 \in 1..n /\ Left(list, 1) = list[1].left /\ Left(list, 1 - 1) = 0
    BY <1>1 DEF Left
  <2> QED
    BY <1>3, <1>4, <2>1
<1>8. AddsUp(r)
  <2> SUFFICES ASSUME NEW i \in 1..n - 1
               PROVE  r[i].time = Left(r, i) - Left(r, i - 1) /\ r[i].left <= Modulus - 1
    BY <1>6 DEF AddsUp
  <2>1. i + 1 \in 1..n /\ 1 \in 1..n /\ i \in 1..n /\ i + 1 - 1 = i
    BY <1>1
  <2>2. Left(list, i + 1) = list[i + 1].left /\ Left(list, i) = list[i].left /\ Left(r, i) = r[i].left
    BY <1>1 DEF Left
  <2>3. Left(r, i - 1) = list[i].left - list[1].time
    <3>1. CASE i = 1
      <4>1. Left(r, i - 1) = 0
        BY <3>1 DEF Left
      <4> QED
        BY <1>4, <1>7, <2>1, <3>1, <4>1
    <3>2. CASE i # 1
      <4>1. i - 1 \in 1..n - 1 /\ i - 1 # 0 /\ i - 1 + 1 = i
        BY <1>1, <3>2
      <4>2. r[i - 1].left = list[i].left - list[1].time
        BY <1>5, <4>1
      <4> QED
        BY <4>1, <4>2 DEF Left
    <3> QED
      BY <3>1, <3>2
  <2>4. list[i + 1].time = list[i + 1].left - list[i].left /\ list[i + 1].left <= Modulus - 1
    BY <1>3, <2>1, <2>2
  <2>5. /\ list[i + 1].left \in Int /\ list[i].left \in Int /\ list[1].time \in Nat
    BY <1>4, <2>1
  <2>6. r[i].time = list[i + 1].time /\ r[i].left = list[i + 1].left - list[1].time
    BY <1>5
  <2>7. PICK u \in Int, v \in Int, w \in Nat :
          u = list[i + 1].left /\ v = list[i].left /\ w = list[1].time
    BY <2>5
  <2>8. r[i].time = u - v /\ r[i].left = u - w /\ u <= Modulus - 1
    BY <2>4, <2>6, <2>7
  <2>9. Left(r, i) = u - w /\ Left(r, i - 1) = v - w
    BY <2>2, <2>3, <2>7, <2>8
  <2>10. u - v = (u - w) - (v - w) /\ (u <= Modulus - 1 => u - w <= Modulus - 1)
    BY ClockWidth
  <2> QED
    BY <2>8, <2>9, <2>10
<1>9. ASSUME Once(list, list[1].h)
      PROVE  ~Has(r, list[1].h)
  <2> SUFFICES ASSUME NEW j \in 1..n - 1, r[j].h = list[1].h
               PROVE  FALSE
    BY <1>6 DEF Has
  <2>1. list[j + 1].h = list[1].h /\ j + 1 \in 1..n /\ 1 \in 1..n
    BY <1>1, <1>5
  <2>2. j + 1 = 1
    BY <1>9, <2>1 DEF Once, n
  <2> QED
    BY <2>2
<1>10. ASSUME NEW g, g # list[1].h
       PROVE  (Has(r, g) <=> Has(list, g)) /\ (Once(list, g) => Once(r, g))
  <2>1. Has(r, g) => Has(list, g)
    BY <1>5, <1>6 DEF Has, n
  <2>2. ASSUME Has(list, g) PROVE Has(r, g)
    <3>1. PICK i \in 1..n : list[i].h = g
      BY <2>2 DEF Has, n
    <3>2. i # 1
      BY <1>10, <3>1
    <3>3. i - 1 \in 1..n - 1 /\ i - 1 + 1 = i
      BY <1>1, <3>2
    <3>4. r[i - 1].h = g
      BY <1>5, <3>1, <3>3
    <3> QED
      BY <1>6, <3>3, <3>4 DEF Has
  <2>3. ASSUME Once(list, g), NEW a \in 1..n - 1, NEW b \in 1..n - 1, r[a].h = g, r[b].h = g
        PROVE  a = b
    <3>1. a + 1 = b + 1
      BY <1>5, <2>3 DEF Once, n
    <3> QED
      BY <3>1
  <2>4. Once(list, g) => Once(r, g)
    BY <1>6, <2>3 DEF Once
  <2> QED
    BY <2>1, <2>2, <2>4
<1> QED
  BY <1>5, <1>6, <1>8, <1>9, <1>10 DEF Called, n, r

\* The list when a millisecond has passed.
Later(list) == [i \in DOMAIN list |-> [list[i] EXCEPT !.wait = IF @ = -1 THEN -1 ELSE @ - 1]]

\* A millisecond changes nothing but the time that really remains.
LEMMA LaterIs ==
  ASSUME NEW list \in Seq(Entries(Handlers)), AddsUp(list)
  PROVE  /\ Later(list) \in Seq(Entries(Handlers)) /\ Len(Later(list)) = Len(list) /\ AddsUp(Later(list))
         /\ \A i \in 1..Len(list) :
              /\ Later(list)[i].h = list[i].h /\ Later(list)[i].left = list[i].left
              /\ list[i].wait \in Int /\ list[i].left \in Int
              /\ list[i].wait >= 0 => Later(list)[i].wait = list[i].wait - 1
         /\ \A g : (Has(Later(list), g) <=> Has(list, g)) /\ (Once(Later(list), g) <=> Once(list, g))
<1> DEFINE n == Len(list)
           r == Later(list)
<1>1. n \in Nat /\ \A i \in 1..n : list[i] \in Entries(Handlers)
  OBVIOUS
<1>2. \A i \in 1..n : r[i] = [list[i] EXCEPT !.wait = IF @ = -1 THEN -1 ELSE @ - 1]
  BY DEF Later
<1>3. r = [i \in 1..n |-> r[i]]
  BY DEF Later
<1>4. \A i \in 1..n : list[i].time = Left(list, i) - Left(list, i - 1) /\ list[i].left <= Modulus - 1
  BY DEF AddsUp
<1> HIDE DEF n, r
<1>5. \A i \in 1..n : list[i].wait \in Int /\ list[i].left \in Int
  BY <1>1 DEF Entries
<1>6. ASSUME NEW i \in 1..n
      PROVE  /\ r[i] \in Entries(Handlers) /\ r[i].h = list[i].h /\ r[i].left = list[i].left
             /\ r[i].time = list[i].time
             /\ list[i].wait >= 0 => r[i].wait = list[i].wait - 1
  <2>1. PICK e \in Entries(Handlers) : e = list[i]
    BY <1>1
  <2>2. PICK x \in Int : x = IF e.wait = -1 THEN -1 ELSE e.wait - 1
    BY <1>5, <2>1
  <2>3. r[i] = [e EXCEPT !.wait = x]
    BY <1>2, <2>1, <2>2
  <2>4. r[i] \in Entries(Handlers) /\ r[i].h = e.h /\ r[i].time = e.time /\ r[i].left = e.left /\ r[i].wait = x
    BY <2>3, WaitChanged
  <2>5. e.wait \in Int
    BY <1>5, <2>1
  <2>6. e.wait >= 0 => x = e.wait - 1
    BY <2>2, <2>5
  <2> QED
    BY <2>1, <2>4, <2>6
<1>7. r \in Seq(Entries(Handlers)) /\ Len(r) = n
  <2>1. \A i \in 1..n : r[i] \in Entries(Handlers)
    BY <1>6
  <2>2. r \in [1..n -> Entries(Handlers)]
    BY <1>3, <2>1
  <2> QED
    BY <1>1, <2>2
<1>8. \A i \in 0..n : Left(r, i) = Left(list, i)
  BY <1>1, <1>6 DEF Left
<1>9. AddsUp(r)
  <2> SUFFICES ASSUME NEW i \in 1..n
               PROVE  r[i].time = Left(r, i) - Left(r, i - 1) /\ r[i].left <= Modulus - 1
    BY <1>7 DEF AddsUp
  <2>1. i \in 0..n /\ i - 1 \in 0..n
    BY <1>1
  <2>2. Left(r, i) = Left(list, i) /\ Left(r, i - 1) = Left(list, i - 1)
    BY <1>8, <2>1
  <2> QED
    BY <1>4, <1>6, <2>2
<1>10. ASSUME NEW g
       PROVE  (Has(r, g) <=> Has(list, g)) /\ (Once(r, g) <=> Once(list, g))
  <2>1. Len(list) = n /\ Len(r) = n /\ \A i \in 1..n : r[i].h = list[i].h
    BY <1>6, <1>7 DEF n
  <2> QED
    BY <2>1 DEF Has, Once
<1> QED
  BY <1>5, <1>6, <1>7, <1>9, <1>10 DEF n, r
-----------------------------------------------------------------------------
(* The timers the stack starts with *)

IsStart(f, n) ==
  f = [k \in 0..n |-> IF k = 0 THEN <<>>
                      ELSE Inserted(f[k - 1], Entry(Cyclic[k].msecs, Cyclic[k].h))]

\* sys_timeouts_init starts the timers of Cyclic one after the other.
LEMMA StartedStep ==
  /\ Started[0] = <<>>
  /\ \A n \in 1..Len(Cyclic) :
       Started[n] = Inserted(Started[n - 1], Entry(Cyclic[n].msecs, Cyclic[n].h))
<1>0. Len(Cyclic) \in Nat
  BY TimeoutsAssumption
<1>1. \A n \in 0..Len(Cyclic) : \E f : IsStart(f, n)
  <2> DEFINE S == {n \in 0..Len(Cyclic) : ~ \E f : IsStart(f, n)}
  <2> SUFFICES ASSUME S # {} PROVE FALSE
    OBVIOUS
  <2>0. S \subseteq Nat
    OBVIOUS
  <2>1. PICK n \in S : \A m \in S : n <= m
    <3> HIDE DEF S
    <3> QED  BY <2>0, LeastNumber
  <2>2. n # 0
    <3>1. IsStart([k \in 0..0 |-> <<>>], 0)
      BY DEF IsStart
    <3> QED
      BY <3>1
  <2>3. n \in 0..Len(Cyclic) /\ n - 1 \in 0..Len(Cyclic)
    BY <1>0, <2>2
  <2>4. n - 1 \notin S
    <3> HIDE DEF S
    <3> QED  BY <1>0, <2>1, <2>3
  <2>5. PICK f : IsStart(f, n - 1)
    BY <2>3, <2>4
  <2> DEFINE E(k) == Entry(Cyclic[k].msecs, Cyclic[k].h)
             g == [k \in 0..n |-> IF k = n THEN Inserted(f[n - 1], E(n)) ELSE f[k]]
  <2>6. \A k \in 0..n - 1 : f[k] = IF k = 0 THEN <<>> ELSE Inserted(f[k - 1], E(k))
    BY <2>5 DEF IsStart
  <2> HIDE DEF E
  <2>7. \A k \in 0..n : g[k] = IF k = 0 THEN <<>> ELSE Inserted(g[k - 1], E(k))
    <3> SUFFICES ASSUME NEW k \in 0..n
                 PROVE  g[k] = IF k = 0 THEN <<>> ELSE Inserted(g[k - 1], E(k))
      OBVIOUS
    <3>1. CASE k = n
      <4>1. g[k] = Inserted(f[n - 1], E(n)) /\ g[k - 1] = f[n - 1] /\ k # 0
        BY <1>0, <2>2, <2>3, <3>1
      <4> QED
        BY <3>1, <4>1
    <3>2. CASE k # n
      <4>1. k \in 0..n - 1 /\ g[k] = f[k] /\ (k # 0 => g[k - 1] = f[k - 1])
        BY <1>0, <2>3, <3>2
      <4> QED
        BY <2>6, <4>1
    <3> QED
      BY <3>1, <3>2
  <2>8. IsStart(g, n)
    BY <2>7 DEF IsStart, E
  <2> QED
    BY <2>1, <2>8
<1>2. Started = CHOOSE f : IsStart(f, Len(Cyclic))
  BY DEF Started, IsStart
<1>3. IsStart(Started, Len(Cyclic))
  <2>1. Len(Cyclic) \in 0..Len(Cyclic)
    BY <1>0
  <2> QED
    BY <1>1, <1>2, <2>1
<1> HIDE DEF Started
<1>4. \A n \in 0..Len(Cyclic) : Started[n] = IF n = 0 THEN <<>>
                                ELSE Inserted(Started[n - 1], Entry(Cyclic[n].msecs, Cyclic[n].h))
  BY <1>3 DEF IsStart
<1> QED
  BY <1>0, <1>4

\* After n of them the list holds their n entries, as they were asked for.
StartedList(n, list) ==
  /\ list \in Seq(Entries(Handlers)) /\ Len(list) = n /\ AddsUp(list)
  /\ \A i \in 1..n : Has(list, Cyclic[i].h)
  /\ \A i \in DOMAIN Cyclic : Once(list, Cyclic[i].h) /\ (i > n => ~Has(list, Cyclic[i].h))
  /\ \A j \in 1..n : list[j].h # TCP /\ list[j].wait = list[j].left /\ list[j].wait >= 1

\* The list sys_timeouts_init leaves.
LEMMA StartedIs == StartedList(Len(Cyclic), Started[Len(Cyclic)])
<1> DEFINE N == Len(Cyclic)
<1>0. N \in Nat /\ DOMAIN Cyclic = 1..N
  BY TimeoutsAssumption
<1> HIDE DEF N
<1> DEFINE S == {n \in 0..N : ~StartedList(n, Started[n])}
<1>1. SUFFICES ASSUME S # {} PROVE FALSE
  <2>1. N \in 0..N
    BY <1>0
  <2> QED
    BY <2>1 DEF N
<1>2. S \subseteq Nat
  BY <1>0
<1>3. PICK n \in S : \A m \in S : n <= m
  <2> HIDE DEF S
  <2> QED  BY <1>1, <1>2, LeastNumber
<1>4. n # 0
  <2>1. StartedList(0, <<>>)
    BY DEF StartedList, AddsUp, Has, Once
  <2> QED
    BY <1>0, <2>1, StartedStep
<1>5. n \in 1..N /\ n - 1 \in 0..N
  BY <1>0, <1>4
<1>6. n - 1 \notin S
  <2> HIDE DEF S
  <2> QED  BY <1>0, <1>3, <1>5
<1> DEFINE l == Started[n - 1]
           c == Cyclic[n]
           r == Inserted(l, Entry(c.msecs, c.h))
<1>7. StartedList(n - 1, l)
  BY <1>5, <1>6
<1>8. Started[n] = r
  BY <1>5, StartedStep DEF N
<1>9. /\ c.msecs \in 1..Modulus - 1 /\ c.h \in Handlers /\ c.h # TCP
  BY <1>0, <1>5, TimeoutsAssumption DEF Handlers, StackHandlers
<1>10. /\ l \in Seq(Entries(Handlers)) /\ Len(l) = n - 1 /\ AddsUp(l)
       /\ \A i \in 1..n - 1 : Has(l, Cyclic[i].h)
       /\ \A i \in DOMAIN Cyclic : Once(l, Cyclic[i].h) /\ (i > n - 1 => ~Has(l, Cyclic[i].h))
       /\ \A j \in 1..n - 1 : l[j].h # TCP /\ l[j].wait = l[j].left /\ l[j].wait >= 1
  BY <1>7 DEF StartedList
<1> HIDE DEF l, c
<1>11. Made(l, c.msecs, c.h, r)
  BY <1>9, <1>10, TimeoutMade
<1> HIDE DEF r
<1>12. r \in Seq(Entries(Handlers)) /\ Len(r) = n /\ AddsUp(r)
  BY <1>0, <1>5, <1>10, <1>11 DEF Made
<1>13. \A i \in 1..n : Has(r, Cyclic[i].h)
  <2> SUFFICES ASSUME NEW i \in 1..n
               PROVE  Has(r, Cyclic[i].h)
    OBVIOUS
  <2>1. CASE Cyclic[i].h = c.h
    BY <1>11, <2>1 DEF Made
  <2>2. CASE Cyclic[i].h # c.h
    <3>1. i \in 1..n - 1
      BY <1>0, <1>5, <2>2 DEF c
    <3>2. Has(l, Cyclic[i].h)
      BY <1>10, <3>1
    <3> QED
      BY <1>11, <2>2, <3>2 DEF Made
  <2> QED
    BY <2>1, <2>2
<1>14. \A j \in 1..n : r[j].h # TCP /\ r[j].wait = r[j].left /\ r[j].wait >= 1
  <2> SUFFICES ASSUME NEW j \in 1..n
               PROVE  r[j].h # TCP /\ r[j].wait = r[j].left /\ r[j].wait >= 1
    OBVIOUS
  <2>1. CASE r[j].left = c.msecs /\ r[j].wait = c.msecs /\ r[j].h = c.h
    <3>1. c.msecs >= 1
      BY <1>9, ClockWidth
    <3> QED
      BY <1>9, <2>1, <3>1
  <2>2. CASE \E i \in 1..n - 1 : Like(r[j], l[i])
    <3>1. PICK i \in 1..n - 1 : Like(r[j], l[i])
      BY <2>2
    <3>2. l[i].h # TCP /\ l[i].wait = l[i].left /\ l[i].wait >= 1
      BY <1>10
    <3> QED
      BY <3>1, <3>2 DEF Like
  <2> QED
    BY <1>10, <1>11, <1>12, <2>1, <2>2 DEF Made
<1>15. \A i \in DOMAIN Cyclic : Once(r, Cyclic[i].h) /\ (i > n => ~Has(r, Cyclic[i].h))
  <2> SUFFICES ASSUME NEW i \in DOMAIN Cyclic
               PROVE  Once(r, Cyclic[i].h) /\ (i > n => ~Has(r, Cyclic[i].h))
    OBVIOUS
  <2>1. /\ Once(l, Cyclic[i].h) /\ (i > n - 1 => ~Has(l, Cyclic[i].h))
    BY <1>10
  <2>2. CASE i = n
    <3>1. ~Has(l, c.h) /\ Cyclic[i].h = c.h /\ ~(i > n)
      BY <1>0, <1>5, <2>1, <2>2 DEF c
    <3> QED
      BY <1>11, <3>1 DEF Made
  <2>3. CASE i # n
    <3>1. Cyclic[i].h # c.h
      BY <1>0, <1>5, <2>3, TimeoutsAssumption DEF c
    <3>2. i > n => i > n - 1
      BY <1>0, <1>5
    <3> QED
      BY <1>11, <2>1, <3>1, <3>2 DEF Made
  <2> QED
    BY <2>2, <2>3
<1>16. StartedList(n, r)
  BY <1>12, <1>13, <1>14, <1>15 DEF StartedList
<1> QED
  BY <1>8, <1>16
=============================================================================
