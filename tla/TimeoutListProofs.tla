------------------------- MODULE TimeoutListProofs -------------------------
(***************************************************************************)
(* What the operations on the list of timeouts compute, for every list:    *)
(* the lemmas TcpipThreadProofs and TimeoutsProofs rest on.                *)
(*                                                                         *)
(* Cumulative is a recursive function.  That it satisfies its equation,    *)
(* and what holds of it for every length, is proved without an induction   *)
(* rule: the least length for which it fails is shown not to exist.        *)
(***************************************************************************)
EXTENDS TimeoutList, FiniteSetTheorems, TLAPS

\* Every nonempty set of naturals has a least element.
LEMMA LeastNumber ==
  ASSUME NEW S, S \subseteq Nat, S # {}
  PROVE  \E x \in S : \A y \in S : x <= y
<1>1. PICK x \in S : \A y \in S : ~(<<y, x>> \in OpToRel(<, Nat))
  BY WFMin, NatLessThanWellFounded
<1>2. \A y \in S : ~(y < x)
  BY <1>1 DEF OpToRel
<1> QED
  BY <1>2
-----------------------------------------------------------------------------
Entries(H) == [h : H, time : Nat, left : Int, wait : Int]

IsSum(f, list, n) ==
  f = [k \in 0..n |-> IF k = 0 THEN 0 ELSE f[k - 1] + list[k].time]

\* The equation of Cumulative has a solution for every list (core/timers.c).
LEMMA SumExists ==
  ASSUME NEW list, NEW m \in Nat, \A i \in 1..m : list[i].time \in Nat
  PROVE  \A n \in 0..m : \E f \in [0..n -> Nat] : IsSum(f, list, n)
<1> DEFINE S == {n \in 0..m : ~ \E f \in [0..n -> Nat] : IsSum(f, list, n)}
<1> SUFFICES ASSUME S # {} PROVE FALSE
  OBVIOUS
<1>0. S \subseteq Nat
  OBVIOUS
<1>1. PICK n \in S : \A y \in S : n <= y
  <2> HIDE DEF S
  <2> QED  BY <1>0, LeastNumber
<1>2. n # 0
  <2>1. [k \in 0..0 |-> 0] \in [0..0 -> Nat] /\ IsSum([k \in 0..0 |-> 0], list, 0)
    BY DEF IsSum
  <2> QED
    BY <2>1
<1>3. n \in 0..m /\ n - 1 \in 0..m
  BY <1>2
<1>7. n - 1 \notin S
  <2> HIDE DEF S
  <2> QED  BY <1>1, <1>3
<1>4. PICK f \in [0..n - 1 -> Nat] : IsSum(f, list, n - 1)
  BY <1>3, <1>7
<1> DEFINE g == [k \in 0..n |-> IF k = n THEN f[n - 1] + list[n].time ELSE f[k]]
<1>5. g \in [0..n -> Nat]
  BY <1>2
<1>6. IsSum(g, list, n)
  <2>1. \A k \in 0..n - 1 : f[k] = IF k = 0 THEN 0 ELSE f[k - 1] + list[k].time
    BY <1>4 DEF IsSum
  <2>2. \A k \in 0..n : g[k] = IF k = 0 THEN 0 ELSE g[k - 1] + list[k].time
    BY <2>1, <1>2
  <2> QED
    BY <2>2, <1>5 DEF IsSum
<1> QED
  BY <1>1, <1>5, <1>6

\* Two solutions agree where both are defined.
LEMMA SumUnique ==
  ASSUME NEW list, NEW m \in Nat, NEW n \in 0..m, NEW f, NEW g,
         IsSum(f, list, m), IsSum(g, list, n)
  PROVE  \A k \in 0..n : f[k] = g[k]
<1> DEFINE S == {k \in 0..n : f[k] # g[k]}
<1> SUFFICES ASSUME S # {} PROVE FALSE
  OBVIOUS
<1>0. S \subseteq Nat
  OBVIOUS
<1>1. PICK k \in S : \A y \in S : k <= y
  <2> HIDE DEF S
  <2> QED  BY <1>0, LeastNumber
<1>2. /\ f[k] = IF k = 0 THEN 0 ELSE f[k - 1] + list[k].time
      /\ g[k] = IF k = 0 THEN 0 ELSE g[k - 1] + list[k].time
  BY DEF IsSum
<1>3. k # 0
  BY <1>2
<1>4. k - 1 \in 0..n /\ k - 1 \notin S
  BY <1>1, <1>3
<1> QED
  BY <1>2, <1>3, <1>4

\* Cumulative is its equation's solution.
LEMMA CumulativeIsSum ==
  ASSUME NEW list, NEW n \in Nat, \A i \in 1..n : list[i].time \in Nat
  PROVE  \E f \in [0..n -> Nat] : IsSum(f, list, n) /\ Cumulative(list, n) = f[n]
<1>0. n \in 0..n
  OBVIOUS
<1>1. PICK f0 \in [0..n -> Nat] : IsSum(f0, list, n)
  BY <1>0, SumExists
<1>2. Cumulative(list, n) = (CHOOSE f : IsSum(f, list, n))[n]
  BY DEF Cumulative, IsSum
<1> DEFINE g == CHOOSE f : IsSum(f, list, n)
<1>3. IsSum(g, list, n)
  BY <1>1
<1>4. g = f0
  <2>1. \A k \in 0..n : f0[k] = g[k]
    <3> HIDE DEF g
    <3> QED  BY <1>1, <1>3, SumUnique
  <2> QED
    BY <2>1, <1>3 DEF IsSum
<1> QED
  BY <1>1, <1>2, <1>4

\* Cumulative(list, n) is the sum of the first n times.
LEMMA CumulativeStep ==
  ASSUME NEW list, NEW m \in Nat, \A i \in 1..m : list[i].time \in Nat
  PROVE  /\ Cumulative(list, 0) = 0
         /\ \A n \in 0..m : Cumulative(list, n) \in Nat
         /\ \A n \in 1..m : Cumulative(list, n) = Cumulative(list, n - 1) + list[n].time
<1>0. m \in 0..m
  OBVIOUS
<1>1. PICK f \in [0..m -> Nat] : IsSum(f, list, m)
  BY <1>0, SumExists
<1>2. ASSUME NEW n \in 0..m
      PROVE  Cumulative(list, n) = f[n]
  <2>0. n \in Nat /\ \A i \in 1..n : list[i].time \in Nat
    OBVIOUS
  <2>1. PICK g \in [0..n -> Nat] : IsSum(g, list, n) /\ Cumulative(list, n) = g[n]
    BY <2>0, CumulativeIsSum
  <2> QED
    BY <1>1, <2>1, SumUnique
<1>3. \A n \in 0..m : f[n] = IF n = 0 THEN 0 ELSE f[n - 1] + list[n].time
  BY <1>1 DEF IsSum
<1>4. \A n \in 1..m : n - 1 \in 0..m /\ n \in 0..m /\ n # 0
  OBVIOUS
<1>5. \A n \in 1..m : Cumulative(list, n) = Cumulative(list, n - 1) + list[n].time
  BY <1>2, <1>3, <1>4
<1> QED
  BY <1>2, <1>3, <1>5

\* No entry expires before the one in front of it.
LEMMA CumulativeMonotone ==
  ASSUME NEW list, NEW m \in Nat, \A i \in 1..m : list[i].time \in Nat,
         NEW i \in 0..m
  PROVE  \A n \in i..m : Cumulative(list, i) <= Cumulative(list, n)
<1> DEFINE S == {n \in i..m : ~(Cumulative(list, i) <= Cumulative(list, n))}
<1> SUFFICES ASSUME S # {} PROVE FALSE
  OBVIOUS
<1>0. S \subseteq Nat
  OBVIOUS
<1>1. PICK n \in S : \A y \in S : n <= y
  <2> HIDE DEF S
  <2> QED  BY <1>0, LeastNumber
<1>2. /\ \A k \in 0..m : Cumulative(list, k) \in Nat
      /\ \A k \in 1..m : Cumulative(list, k) = Cumulative(list, k - 1) + list[k].time
  BY CumulativeStep
<1>3. n # i
  BY <1>2
<1>4. n \in 1..m /\ n - 1 \in i..m /\ n - 1 \in 0..m /\ n - 1 \notin S /\ n \in 0..m
  BY <1>1, <1>3
<1> QED
  BY <1>2, <1>4
-----------------------------------------------------------------------------
\* r is s with one more element at place i.
WithOneMore(s, i, e, r) ==
  /\ Len(r) = Len(s) + 1
  /\ \A j \in 1..i - 1 : r[j] = s[j]
  /\ r[i] = e
  /\ \A j \in i..Len(s) : r[j + 1] = s[j]

\* What inserting one element into a sequence gives.
LEMMA LinkedIs ==
  ASSUME NEW T, NEW s \in Seq(T), NEW i \in 1..Len(s) + 1, NEW e \in T
  PROVE  Linked(s, i, e) \in Seq(T) /\ WithOneMore(s, i, e, Linked(s, i, e))
<1> DEFINE a == SubSeq(s, 1, i - 1)
           b == SubSeq(s, i, Len(s))
<1>1. a \in Seq(T) /\ Len(a) = i - 1 /\ \A j \in 1..i - 1 : a[j] = s[j]
  OBVIOUS
<1>2. b \in Seq(T) /\ Len(b) = Len(s) - i + 1 /\ \A j \in i..Len(s) : b[j - i + 1] = s[j]
  OBVIOUS
<1> DEFINE c == a \o <<e>>
<1>3. Linked(s, i, e) = c \o b
  BY DEF Linked
<1> HIDE DEF a, b
<1>4. c \in Seq(T) /\ Len(c) = i /\ (\A j \in 1..i - 1 : c[j] = s[j]) /\ c[i] = e
  <2>1. i - 1 \in Nat /\ i - 1 + 1 = i
    OBVIOUS
  <2>2. c = Append(a, e)
    BY <1>1
  <2>3. c \in Seq(T) /\ Len(c) = Len(a) + 1 /\ c[Len(a) + 1] = e /\ \A j \in 1..Len(a) : c[j] = a[j]
    BY <1>1, <2>2
  <2> QED
    BY <1>1, <2>1, <2>3
<1> HIDE DEF c
<1>n. PICK n \in Nat : n = Len(s)
  OBVIOUS
<1>i. i \in 1..n + 1
  BY <1>n
<1>b. Len(b) = n - i + 1
  BY <1>n, <1>2
<1>c. Len(c) = i
  BY <1>4
<1> DEFINE r == c \o b
<1>5. r \in Seq(T) /\ Len(r) = Len(s) + 1
  <2>1. c \in Seq(T) /\ b \in Seq(T)
    BY <1>2, <1>4
  <2>2. r \in Seq(T) /\ Len(r) = Len(c) + Len(b)
    BY <2>1
  <2> HIDE DEF r
  <2>3. i + (n - i + 1) = n + 1
    BY <1>i
  <2>4. Len(r) = n + 1
    BY <1>b, <1>c, <2>2, <2>3
  <2> QED
    BY <1>n, <2>2, <2>4
<1>6. \A j \in 1..Len(c) : r[j] = c[j]
  BY <1>2, <1>4
<1>7. \A j \in 1..Len(b) : r[Len(c) + j] = b[j]
  BY <1>2, <1>4
<1> HIDE DEF r
<1>8. (\A j \in 1..i - 1 : r[j] = s[j]) /\ r[i] = e
  BY <1>4, <1>6
<1>9. ASSUME NEW j \in i..Len(s)
      PROVE  r[j + 1] = s[j]
  <2>1. j \in Int /\ i <= j /\ j <= n
    BY <1>n
  <2>2. j - i + 1 \in 1..n - i + 1 /\ i + (j - i + 1) = j + 1
    BY <1>i, <2>1
  <2>3. r[i + (j - i + 1)] = b[j - i + 1]
    BY <1>b, <1>c, <1>7, <2>2
  <2>4. b[j - i + 1] = s[j]
    BY <1>2
  <2> QED
    BY <2>2, <2>3, <2>4
<1> QED
  BY <1>3, <1>5, <1>8, <1>9 DEF WithOneMore, r

\* r is s without its element at place i.
WithOneLess(s, i, r) ==
  /\ Len(r) = Len(s) - 1
  /\ \A j \in 1..i - 1 : r[j] = s[j]
  /\ \A j \in i..Len(s) - 1 : r[j] = s[j + 1]

\* What removing one element of a sequence gives.
LEMMA UnlinkedIs ==
  ASSUME NEW T, NEW s \in Seq(T), NEW i \in 1..Len(s)
  PROVE  Unlinked(s, i) \in Seq(T) /\ WithOneLess(s, i, Unlinked(s, i))
<1> DEFINE a == SubSeq(s, 1, i - 1)
           b == SubSeq(s, i + 1, Len(s))
<1>1. a \in Seq(T) /\ Len(a) = i - 1 /\ \A j \in 1..i - 1 : a[j] = s[j]
  OBVIOUS
<1>2. b \in Seq(T) /\ Len(b) = Len(s) - i /\ \A j \in i + 1..Len(s) : b[j - i] = s[j]
  OBVIOUS
<1>3. Unlinked(s, i) = a \o b
  BY DEF Unlinked
<1> HIDE DEF a, b
<1>4. Unlinked(s, i) \in Seq(T) /\ Len(Unlinked(s, i)) = Len(s) - 1
  BY <1>1, <1>2, <1>3
<1>5. \A j \in 1..i - 1 : Unlinked(s, i)[j] = s[j]
  BY <1>1, <1>2, <1>3
<1>6. ASSUME NEW j \in i..Len(s) - 1
      PROVE  Unlinked(s, i)[j] = s[j + 1]
  <2>1. (a \o b)[j] = b[j - (i - 1)]
    BY <1>1, <1>2
  <2>0. j + 1 \in i + 1..Len(s)
    OBVIOUS
  <2>2. b[(j + 1) - i] = s[j + 1]
    BY <1>2, <2>0
  <2>3. j - (i - 1) = (j + 1) - i
    OBVIOUS
  <2> QED
    BY <2>1, <2>2, <2>3, <1>3
<1> QED
  BY <1>4, <1>5, <1>6 DEF WithOneLess
-----------------------------------------------------------------------------
\* The result r of sys_timeout: e is behind the first k entries, those that do
\* not expire later, and the next one gives up the time e takes.
InsertedBehind(list, e, k, r) ==
  /\ k \in 0..Len(list)
  /\ Len(r) = Len(list) + 1
  /\ Cumulative(list, k) <= e.time
  /\ \A j \in 1..k : r[j] = list[j]
  /\ r[k + 1] = [e EXCEPT !.time = e.time - Cumulative(list, k)]
  /\ k < Len(list) => /\ Cumulative(list, k + 1) > e.time
                      /\ r[k + 2] = [list[k + 1] EXCEPT !.time = Cumulative(list, k + 1) - e.time]
  /\ \A j \in k + 2..Len(list) : r[j + 1] = list[j]

\* The entries that do not expire later are the first ones of the list.
LEMMA NotLaterIsPrefix ==
  ASSUME NEW list, NEW n \in Nat, \A i \in 1..n : list[i].time \in Nat, NEW t \in Nat
  PROVE  \E k \in 0..n : /\ {i \in 1..n : Cumulative(list, i) <= t} = 1..k
                         /\ Cumulative(list, k) <= t
                         /\ k < n => Cumulative(list, k + 1) > t
<1> DEFINE S == {i \in 1..n + 1 : i = n + 1 \/ Cumulative(list, i) > t}
<1>0. S \subseteq Nat /\ S # {}
  OBVIOUS
<1>1. PICK x \in S : \A y \in S : x <= y
  <2> HIDE DEF S
  <2> QED  BY <1>0, LeastNumber
<1>2. /\ \A k \in 0..n : Cumulative(list, k) \in Nat
      /\ Cumulative(list, 0) = 0
  BY CumulativeStep
<1>3. x - 1 \in 0..n /\ x \in 1..n + 1
  OBVIOUS
<1>4. \A i \in 1..x - 1 : i \in 1..n /\ i \notin S
  BY <1>1, <1>3
<1>5. \A i \in 1..x - 1 : Cumulative(list, i) <= t
  BY <1>2, <1>4
<1>6. ASSUME NEW i \in 1..n, i >= x
      PROVE  Cumulative(list, i) > t
  <2>1. x \in 0..n /\ i \in x..n
    BY <1>3, <1>6
  <2>2. Cumulative(list, x) <= Cumulative(list, i)
    BY <2>1, CumulativeMonotone
  <2>3. Cumulative(list, x) > t
    BY <2>1
  <2> QED
    BY <2>1, <2>2, <2>3, <1>2
<1>7. {i \in 1..n : Cumulative(list, i) <= t} = 1..x - 1
  BY <1>2, <1>3, <1>5, <1>6
<1>8. Cumulative(list, x - 1) <= t
  BY <1>2, <1>3, <1>5
<1>9. x - 1 < n => Cumulative(list, x - 1 + 1) > t
  BY <1>3, <1>6
<1> QED
  BY <1>3, <1>7, <1>8, <1>9

\* What sys_timeout does with the list: it stays a list of entries, with times
\* that are not negative.
LEMMA InsertedIs ==
  ASSUME NEW H, NEW list \in Seq(Entries(H)), NEW e \in Entries(H)
  PROVE  /\ Inserted(list, e) \in Seq(Entries(H))
         /\ \E k \in 0..Len(list) : InsertedBehind(list, e, k, Inserted(list, e))
<1> DEFINE n == Len(list)
<1>1. n \in Nat /\ DOMAIN list = 1..n /\ \A i \in 1..n : list[i] \in Entries(H)
  OBVIOUS
<1>2. \A i \in 1..n : list[i].time \in Nat
  BY <1>1 DEF Entries
<1>3. e.time \in Nat
  BY DEF Entries
<1> HIDE DEF n
<1>4. PICK k \in 0..n : /\ {i \in 1..n : Cumulative(list, i) <= e.time} = 1..k
                        /\ Cumulative(list, k) <= e.time
                        /\ k < n => Cumulative(list, k + 1) > e.time
  BY <1>1, <1>2, <1>3, NotLaterIsPrefix
<1>5. Cardinality({i \in DOMAIN list : Cumulative(list, i) <= e.time}) = k
  <2>1. Cardinality(1..k) = k
    BY FS_Interval
  <2> QED
    BY <1>1, <1>4, <2>1
<1> DEFINE time == e.time - Cumulative(list, k)
           later == IF k = n THEN list ELSE [list EXCEPT ![k + 1].time = @ - time]
           new == [e EXCEPT !.time = time]
<1>6. Inserted(list, e) = Linked(later, k + 1, new)
  BY <1>5 DEF Inserted, n
<1>7. /\ \A j \in 0..n : Cumulative(list, j) \in Nat
      /\ \A j \in 1..n : Cumulative(list, j) = Cumulative(list, j - 1) + list[j].time
  BY <1>1, <1>2, CumulativeStep
<1>8. time \in Nat
  BY <1>3, <1>4, <1>7
<1>9. new \in Entries(H)
  BY <1>8 DEF Entries
<1>10. /\ later \in Seq(Entries(H)) /\ Len(later) = n
       /\ \A j \in 1..n : j # k + 1 => later[j] = list[j]
       /\ k < n => later[k + 1] = [list[k + 1] EXCEPT !.time = Cumulative(list, k + 1) - e.time]
  <2>1. CASE k = n
    BY <1>1, <2>1 DEF n
  <2>2. CASE k # n
    <3>0. k + 1 \in 1..n /\ k + 1 - 1 = k /\ k < n
      BY <1>1, <2>2
    <3>1. Cumulative(list, k + 1) = Cumulative(list, k) + list[k + 1].time
      BY <1>7, <3>0
    <3>a. PICK u, v, w, t \in Nat : /\ u = Cumulative(list, k) /\ v = Cumulative(list, k + 1)
                                    /\ w = list[k + 1].time /\ t = e.time
      <4>1. k + 1 \in 0..n
        BY <3>0
      <4> QED
        BY <1>2, <1>3, <1>7, <3>0, <4>1
    <3>b. v = u + w /\ v > t
      BY <1>4, <3>0, <3>1, <3>a
    <3>c. w - (t - u) = v - t /\ w - (t - u) \in Nat
      BY <3>b
    <3>2. list[k + 1].time - time = Cumulative(list, k + 1) - e.time
      BY <3>a, <3>c
    <3>3. list[k + 1].time - time \in Nat
      BY <3>a, <3>c
    <3> DEFINE x == [list[k + 1] EXCEPT !.time = list[k + 1].time - time]
    <3>4. x \in Entries(H)
      BY <1>1, <3>0, <3>3 DEF Entries
    <3>5. later = [list EXCEPT ![k + 1] = x]
      BY <2>2
    <3>6. x = [list[k + 1] EXCEPT !.time = Cumulative(list, k + 1) - e.time]
      BY <3>2
    <3> HIDE DEF x, later
    <3>7. later \in Seq(Entries(H)) /\ Len(later) = n
      BY <3>4, <3>5, <3>0, <1>1 DEF n
    <3>8. (\A j \in 1..n : j # k + 1 => later[j] = list[j]) /\ later[k + 1] = x
      BY <3>5, <3>0, <1>1
    <3> QED
      BY <3>6, <3>7, <3>8
  <2> QED
    BY <2>1, <2>2
<1> HIDE DEF time, later, new
<1> DEFINE r == Linked(later, k + 1, new)
<1>11. k + 1 \in 1..Len(later) + 1
  BY <1>1, <1>10
<1>12. /\ r \in Seq(Entries(H)) /\ Len(r) = n + 1
       /\ \A j \in 1..k + 1 - 1 : r[j] = later[j]
       /\ r[k + 1] = new
       /\ \A j \in k + 1..n : r[j + 1] = later[j]
  <2>1. later \in Seq(Entries(H)) /\ Len(later) = n
    BY <1>10
  <2>2. r \in Seq(Entries(H)) /\ WithOneMore(later, k + 1, new, r)
    BY <1>9, <1>11, <2>1, LinkedIs
  <2> HIDE DEF r
  <2> QED
    BY <2>1, <2>2 DEF WithOneMore
<1> HIDE DEF r
<1>13. \A j \in 1..k : r[j] = list[j]
  <2> SUFFICES ASSUME NEW j \in 1..k
               PROVE  r[j] = list[j]
    OBVIOUS
  <2>1. j \in 1..k + 1 - 1 /\ j \in 1..n /\ j # k + 1
    BY <1>1
  <2>2. r[j] = later[j]
    BY <1>12, <2>1
  <2>3. later[j] = list[j]
    BY <1>10, <2>1
  <2> QED
    BY <2>2, <2>3
<1>14. k < n => r[k + 2] = [list[k + 1] EXCEPT !.time = Cumulative(list, k + 1) - e.time]
  <2> SUFFICES ASSUME k < n
               PROVE  r[k + 2] = later[k + 1]
    BY <1>10
  <2>1. k + 1 \in k + 1..n /\ (k + 1) + 1 = k + 2
    BY <1>1
  <2> QED
    BY <2>1, <1>12
<1>15. \A j \in k + 2..n : r[j + 1] = list[j]
  <2> SUFFICES ASSUME NEW j \in k + 2..n
               PROVE  r[j + 1] = list[j]
    OBVIOUS
  <2>1. j \in k + 1..n /\ j \in 1..n /\ j # k + 1
    BY <1>1
  <2>2. r[j + 1] = later[j]
    BY <1>12, <2>1
  <2>3. later[j] = list[j]
    BY <1>10, <2>1
  <2> QED
    BY <2>2, <2>3
<1>16. InsertedBehind(list, e, k, r)
  BY <1>4, <1>12, <1>13, <1>14, <1>15 DEF InsertedBehind, n, new, time
<1>17. k \in 0..Len(list)
  BY DEF n
<1> QED
  BY <1>6, <1>12, <1>16, <1>17 DEF r

\* The result r of sys_untimeout when entry i is removed: the next one has its
\* time as well.
RemovedAt(list, i, r) ==
  /\ i \in 1..Len(list)
  /\ Len(r) = Len(list) - 1
  /\ \A j \in 1..i - 1 : r[j] = list[j]
  /\ i < Len(list) => r[i] = [list[i + 1] EXCEPT !.time = list[i + 1].time + list[i].time]
  /\ \A j \in i + 1..Len(list) - 1 : r[j] = list[j + 1]

\* What sys_untimeout does with the list.
LEMMA RemovedIs ==
  ASSUME NEW H, NEW list \in Seq(Entries(H)), NEW h
  PROVE  /\ Removed(list, h) \in Seq(Entries(H))
         /\ \/ Removed(list, h) = list
            \/ \E i \in 1..Len(list) : list[i].h = h /\ RemovedAt(list, i, Removed(list, h))
<1> DEFINE n == Len(list)
           found == {i \in DOMAIN list : list[i].h = h}
           i == CHOOSE i \in found : \A j \in found : i <= j
<1>1. n \in Nat /\ DOMAIN list = 1..n /\ \A j \in 1..n : list[j] \in Entries(H)
  OBVIOUS
<1> HIDE DEF n
<1>2. CASE found = {}
  BY <1>2 DEF Removed
<1>3. CASE found # {}
  <2>1. found \subseteq Nat
    BY <1>1
  <2>2. \E x \in found : \A j \in found : x <= j
    <3> HIDE DEF found
    <3> QED  BY <1>3, <2>1, LeastNumber
  <2>3. i \in found
    <3> HIDE DEF found
    <3> QED  BY <2>2
  <2>4. i \in 1..n /\ list[i].h = h
    BY <1>1, <2>3
  <2> DEFINE later == IF i = n THEN list ELSE [list EXCEPT ![i + 1].time = @ + list[i].time]
  <2>5. Removed(list, h) = Unlinked(later, i)
    BY <1>3 DEF Removed, n
  <2> HIDE DEF i, found
  <2>6. /\ later \in Seq(Entries(H)) /\ Len(later) = n
        /\ \A j \in 1..n : j # i + 1 => later[j] = list[j]
        /\ i < n => later[i + 1] = [list[i + 1] EXCEPT !.time = list[i + 1].time + list[i].time]
    <3>1. CASE i = n
      BY <1>1, <2>4, <3>1 DEF n
    <3>2. CASE i # n
      <4>1. i + 1 \in 1..n /\ i < n
        BY <1>1, <2>4, <3>2
      <4>0. \A j \in 1..n : list[j].time \in Nat
        BY <1>1 DEF Entries
      <4>2. list[i + 1].time + list[i].time \in Nat
        BY <2>4, <4>0, <4>1
      <4> DEFINE x == [list[i + 1] EXCEPT !.time = list[i + 1].time + list[i].time]
      <4>3. x \in Entries(H)
        BY <1>1, <4>1, <4>2 DEF Entries
      <4>4. later = [list EXCEPT ![i + 1] = x]
        BY <3>2
      <4> HIDE DEF x, later
      <4>5. later \in Seq(Entries(H)) /\ Len(later) = n
        BY <4>1, <4>3, <4>4, <1>1 DEF n
      <4>6. (\A j \in 1..n : j # i + 1 => later[j] = list[j]) /\ later[i + 1] = x
        BY <4>1, <4>4, <1>1
      <4> QED
        BY <4>5, <4>6 DEF x
    <3> QED
      BY <3>1, <3>2
  <2> HIDE DEF later
  <2>7. Unlinked(later, i) \in Seq(Entries(H)) /\ WithOneLess(later, i, Unlinked(later, i))
    BY <2>4, <2>6, UnlinkedIs
  <2> DEFINE r == Unlinked(later, i)
  <2> HIDE DEF r
  <2>8. /\ Len(r) = n - 1
        /\ \A j \in 1..i - 1 : r[j] = later[j]
        /\ \A j \in i..n - 1 : r[j] = later[j + 1]
    BY <2>6, <2>7 DEF WithOneLess, r
  <2>9. RemovedAt(list, i, r)
    <3>1. \A j \in 1..i - 1 : r[j] = list[j]
      BY <1>1, <2>4, <2>6, <2>8
    <3>2. i < n => r[i] = later[i + 1]
      BY <1>1, <2>4, <2>8
    <3>3. ASSUME NEW j \in i + 1..n - 1
          PROVE  r[j] = list[j + 1]
      <4>1. j \in i..n - 1 /\ j + 1 \in 1..n /\ j + 1 # i + 1
        BY <1>1, <2>4
      <4> QED
        BY <4>1, <2>6, <2>8
    <3> QED
      BY <3>1, <3>2, <3>3, <2>4, <2>6, <2>8 DEF RemovedAt, n
  <2> QED
    BY <2>4, <2>5, <2>7, <2>9 DEF r, n
<1> QED
  BY <1>2, <1>3
============================================================================
