--------------------------- MODULE SequenceLemmas ---------------------------
(***************************************************************************)
(* Induction over the naturals, from the theorem that a well-founded set   *)
(* has minimal elements; what is computed by turns; and facts about        *)
(* sequences, among them those of the ages of what happened within a time. *)
(***************************************************************************)
EXTENDS Integers, Sequences, WellFoundedInduction, TLAPS

\* A set of naturals has a least element.
LEMMA LeastNatural ==
    ASSUME NEW T \in SUBSET Nat, T # {}
    PROVE  \E m \in T : \A n \in T : m <= n
<1> DEFINE R == OpToRel(<, Nat)
<1>1. IsWellFoundedOn(R, Nat)
  BY NatLessThanWellFounded
<1>2. \A p, q \in Nat : p < q => <<p, q>> \in R
  BY DEF OpToRel
<1> HIDE DEF R
<1>3. PICK m \in T : \A n \in T : ~ (<<n, m>> \in R)
  BY <1>1, WFMin
<1>4. ASSUME NEW n \in T PROVE m <= n
  <2>1. ~ (n < m)
    BY <1>2, <1>3
  <2> QED
    BY <2>1
<1> QED
  BY <1>4

\* Induction, over a set.
LEMMA Induction ==
    ASSUME NEW S, 0 \in S, \A n \in Nat : n \in S => n + 1 \in S
    PROVE  Nat \subseteq S
<1> SUFFICES ASSUME Nat \ S # {} PROVE FALSE
  OBVIOUS
<1>1. PICK m \in Nat \ S : \A n \in Nat \ S : m <= n
  BY LeastNatural
<1>2. m - 1 \in Nat /\ m - 1 \notin Nat \ S
  BY <1>1
<1> QED
  BY <1>1, <1>2

\* Where the elements of a concatenation come from.
LEMMA Joined ==
    ASSUME NEW S, NEW s \in Seq(S), NEW t \in Seq(S)
    PROVE  /\ s \o t \in Seq(S)
           /\ Len(s \o t) = Len(s) + Len(t)
           /\ \A i \in 1 .. Len(s) : (s \o t)[i] = s[i]
           /\ \A i \in 1 .. Len(t) : (s \o t)[Len(s) + i] = t[i]
OBVIOUS

\* A sequence without its first element.
LEMMA TailIs ==
    ASSUME NEW S, NEW s \in Seq(S), s # <<>>
    PROVE  /\ Len(s) \in Nat /\ Len(s) >= 1
           /\ Tail(s) \in Seq(S) /\ Len(Tail(s)) = Len(s) - 1
           /\ \A i \in 1 .. Len(Tail(s)) : Tail(s)[i] = s[i + 1]
OBVIOUS

\* A sequence of two elements.
LEMMA PairIs ==
    ASSUME NEW S, NEW s \in Seq(S), Len(s) = 2
    PROVE  s = <<s[1], s[2]>>
<1>1. DOMAIN s = 1 .. 2 /\ s = [i \in 1 .. 2 |-> s[i]]
  OBVIOUS
<1>2. DOMAIN <<s[1], s[2]>> = 1 .. 2 /\ <<s[1], s[2]>> = [i \in 1 .. 2 |-> <<s[1], s[2]>>[i]]
  OBVIOUS
<1>3. \A i \in 1 .. 2 : s[i] = <<s[1], s[2]>>[i]
  <2>1. \A i \in 1 .. 2 : i = 1 \/ i = 2
    OBVIOUS
  <2> QED
    BY <2>1
<1> QED
  BY <1>1, <1>2, <1>3

\* r is s without its k-th element.
Without(s, k, r) ==
    /\ Len(r) = Len(s) - 1
    /\ \A i \in 1 .. Len(r) : r[i] = s[IF i < k THEN i ELSE i + 1]

LEMMA Removed ==
    ASSUME NEW S, NEW s \in Seq(S), NEW k \in 1 .. Len(s)
    PROVE  \E r \in Seq(S) :
              r = SubSeq(s, 1, k - 1) \o SubSeq(s, k + 1, Len(s)) /\ Without(s, k, r)
<1>1. Len(s) \in Nat /\ k - 1 \in Nat /\ Len(s) - k \in Nat
  OBVIOUS
<1>2. PICK front : front = SubSeq(s, 1, k - 1)
  OBVIOUS
<1>3. PICK back : back = SubSeq(s, k + 1, Len(s))
  OBVIOUS
<1>4. front \in Seq(S) /\ Len(front) = k - 1 /\ \A i \in 1 .. k - 1 : front[i] = s[i]
  BY <1>1, <1>2
<1>5. back \in Seq(S) /\ Len(back) = Len(s) - k /\ \A i \in 1 .. Len(s) - k : back[i] = s[k + i]
  BY <1>1, <1>3
<1>6. /\ front \o back \in Seq(S) /\ Len(front \o back) = Len(front) + Len(back)
      /\ \A i \in 1 .. Len(front) : (front \o back)[i] = front[i]
      /\ \A i \in 1 .. Len(back) : (front \o back)[Len(front) + i] = back[i]
  <2>1. front \in Seq(S) /\ back \in Seq(S)
    BY <1>4, <1>5
  <2> QED
    BY <2>1, Joined
<1>7. PICK r : r = front \o back
  OBVIOUS
<1>8. PICK m \in Nat : m = Len(s)
  BY <1>1
<1>9. /\ r \in Seq(S) /\ Len(r) = (k - 1) + (m - k)
      /\ \A i \in 1 .. k - 1 : r[i] = s[i]
      /\ \A i \in 1 .. m - k : r[k - 1 + i] = s[k + i]
  BY <1>4, <1>5, <1>6, <1>7, <1>8
<1>10. k \in Nat /\ k >= 1 /\ k <= m /\ Len(r) = m - 1
  BY <1>8, <1>9
<1>12. ASSUME NEW i \in 1 .. Len(r) PROVE r[i] = s[IF i < k THEN i ELSE i + 1]
  <2>1. i \in Nat /\ i >= 1 /\ i <= m - 1
    BY <1>8, <1>10
  <2>2. CASE i < k
    <3>1. i \in 1 .. k - 1
      BY <1>10, <2>1, <2>2
    <3> QED
      BY <1>9, <3>1, <2>2
  <2>3. CASE ~ (i < k)
    <3>1. PICK j \in Nat : j = (i - k) + 1
      BY <1>10, <2>1, <2>3
    <3>2. j \in 1 .. m - k /\ k - 1 + j = i /\ k + j = i + 1
      BY <1>8, <1>10, <2>1, <2>3, <3>1
    <3>3. r[k - 1 + j] = s[k + j]
      BY <1>9, <3>2
    <3> QED
      BY <2>3, <3>2, <3>3
  <2> QED
    BY <2>2, <2>3
<1>11. r = SubSeq(s, 1, k - 1) \o SubSeq(s, k + 1, Len(s))
  BY <1>2, <1>3, <1>7
<1> QED
  BY <1>8, <1>9, <1>10, <1>11, <1>12 DEF Without

-----------------------------------------------------------------------------
(* Windows of a fixed length, each with a share of requests or packets *)

Ordered(ages) == \A i, j \in 1 .. Len(ages) : i <= j => ages[i] >= ages[j]

\* The first n ages are of the time before a window of this age, the others in it.
Split(ages, n, age) ==
    \A i \in 1 .. Len(ages) : IF i <= n THEN ages[i] >= age ELSE ages[i] <= age

\* What the ages within a length of time, the oldest first, are when the window has
\* this age and this many in it: those, and of the windows before it one share.
Shared(age, count, share, length, ages) ==
    /\ ages \in Seq(0 .. length - 1)
    /\ Ordered(ages)
    /\ IF age >= length THEN Len(ages) <= share
       ELSE \E n \in 0 .. Len(ages) : n <= share /\ Len(ages) - n = count /\ Split(ages, n, age)

\* r is what ages are some ticks later: what is too old is gone from the start.
Passed(ages, ticks, length, r) ==
    \E n \in 0 .. Len(ages) :
        /\ \A i \in 1 .. Len(ages) : i > n <=> ages[i] + ticks < length
        /\ Len(r) = Len(ages) - n
        /\ r \in Seq(0 .. length - 1)
        /\ \A i \in 1 .. Len(r) : r[i] = ages[i + n] + ticks

\* Where to cut ordered ages.
LEMMA CutExists ==
    ASSUME NEW length \in Nat \ {0}, NEW ages \in Seq(0 .. length - 1), Ordered(ages),
           NEW ticks \in Nat
    PROVE  \E n \in 0 .. Len(ages) : \A i \in 1 .. Len(ages) : i > n <=> ages[i] + ticks < length
<1> DEFINE T == {n \in Nat : \A i \in 1 .. Len(ages) : i > n => ages[i] + ticks < length}
<1>0. Len(ages) \in Nat /\ \A i \in 1 .. Len(ages) : ages[i] \in 0 .. length - 1
  OBVIOUS
<1>1. Len(ages) \in T
  BY <1>0
<1>2. PICK n \in T : \A k \in T : n <= k
  BY <1>1, LeastNatural
<1>3. n \in 0 .. Len(ages)
  BY <1>0, <1>1, <1>2
<1>4. ASSUME NEW i \in 1 .. Len(ages), i <= n PROVE ~ (ages[i] + ticks < length)
  <2> SUFFICES ASSUME ages[i] + ticks < length PROVE FALSE
    OBVIOUS
  <2>1. i - 1 \in Nat /\ i - 1 < n
    BY <1>0, <1>3, <1>4
  <2>2. ASSUME NEW j \in 1 .. Len(ages), j > i - 1 PROVE ages[j] + ticks < length
    <3>1. i <= j
      BY <1>0, <2>2
    <3>2. ages[i] >= ages[j]
      BY <3>1 DEF Ordered
    <3>3. ages[i] \in 0 .. length - 1 /\ ages[j] \in 0 .. length - 1
      BY <1>0
    <3> QED
      BY <3>2, <3>3
  <2>3. i - 1 \in T
    BY <2>1, <2>2
  <2>4. n <= i - 1
    <3> HIDE DEF T
    <3> QED
      BY <1>2, <2>3
  <2> QED
    BY <1>3, <2>1, <2>4
<1>5. ASSUME NEW i \in 1 .. Len(ages) PROVE i > n <=> ages[i] + ticks < length
  <2>1. i > n \/ i <= n
    BY <1>3
  <2>2. i > n => ages[i] + ticks < length
    BY <1>2
  <2>3. i <= n => ~ (i > n)
    BY <1>3
  <2> QED
    BY <1>4, <2>1, <2>2, <2>3
<1> QED
  BY <1>3, <1>5

\* Ages stay in order as time passes, and as one more comes.
LEMMA PassedOrdered ==
    ASSUME NEW length \in Nat \ {0}, NEW ages \in Seq(0 .. length - 1), Ordered(ages),
           NEW ticks \in Nat, NEW r, Passed(ages, ticks, length, r)
    PROVE  Ordered(r)
<1>1. /\ Len(ages) \in Nat
      /\ \A i \in 1 .. Len(ages) : ages[i] \in 0 .. length - 1
  OBVIOUS
<1>2. PICK m \in 0 .. Len(ages) :
        /\ Len(r) = Len(ages) - m
        /\ \A i \in 1 .. Len(r) : r[i] = ages[i + m] + ticks
  BY DEF Passed
<1>3. m \in Nat /\ m <= Len(ages) /\ Len(r) \in Nat
  BY <1>1, <1>2
<1>4. \A i \in 1 .. Len(r) : i \in Nat /\ i + m \in 1 .. Len(ages)
  BY <1>1, <1>2, <1>3
<1> SUFFICES ASSUME NEW i \in 1 .. Len(r), NEW j \in 1 .. Len(r), i <= j PROVE r[i] >= r[j]
  BY DEF Ordered
<1>5. i + m <= j + m /\ i + m \in 1 .. Len(ages) /\ j + m \in 1 .. Len(ages)
  BY <1>3, <1>4
<1>6. ages[i + m] >= ages[j + m]
  BY <1>1, <1>5 DEF Ordered
<1>7. ages[i + m] \in Nat /\ ages[j + m] \in Nat
  BY <1>1, <1>5
<1>8. r[i] = ages[i + m] + ticks /\ r[j] = ages[j + m] + ticks
  BY <1>2
<1> QED
  BY <1>6, <1>7, <1>8

LEMMA AppendOrdered ==
    ASSUME NEW length \in Nat \ {0}, NEW ages \in Seq(0 .. length - 1), Ordered(ages)
    PROVE  Ordered(Append(ages, 0))
<1>1. Len(ages) \in Nat /\ \A i \in 1 .. Len(ages) : ages[i] \in 0 .. length - 1
  OBVIOUS
<1>2. PICK r : r = Append(ages, 0)
  OBVIOUS
<1>3. /\ r \in Seq(0 .. length - 1) /\ Len(r) = Len(ages) + 1 /\ r[Len(ages) + 1] = 0
      /\ \A i \in 1 .. Len(ages) : r[i] = ages[i]
  BY <1>1, <1>2
<1>4. ASSUME NEW i \in 1 .. Len(r), NEW j \in 1 .. Len(r), i <= j PROVE r[i] >= r[j]
  <2>1. CASE j = Len(ages) + 1
    <3>1. r[j] = 0 /\ r[i] \in 0 .. length - 1
      BY <1>3, <2>1
    <3> QED
      BY <3>1
  <2>2. CASE j # Len(ages) + 1
    <3>1. j \in 1 .. Len(ages) /\ i \in 1 .. Len(ages)
      BY <1>1, <1>3, <1>4, <2>2
    <3>2. ages[i] >= ages[j] /\ r[i] = ages[i] /\ r[j] = ages[j]
      BY <1>1, <1>3, <1>4, <3>1 DEF Ordered
    <3> QED
      BY <3>2
  <2> QED
    BY <2>1, <2>2
<1>5. Ordered(r)
  BY <1>4 DEF Ordered
<1> QED
  BY <1>2, <1>5

\* Each age at least a gap after the one before it.
Spaced(ages, gap) == \A i \in 1 .. Len(ages) - 1 : ages[i] - ages[i + 1] >= gap

LEMMA PassedSpaced ==
    ASSUME NEW length \in Nat \ {0}, NEW ages \in Seq(0 .. length - 1), NEW gap \in Nat,
           Spaced(ages, gap), NEW ticks \in Nat, NEW r, Passed(ages, ticks, length, r)
    PROVE  Spaced(r, gap)
<1>1. PICK n \in 0 .. Len(ages) :
        /\ Len(r) = Len(ages) - n
        /\ \A i \in 1 .. Len(r) : r[i] = ages[i + n] + ticks
  BY DEF Passed
<1>2. PICK l \in Nat : l = Len(ages)
  OBVIOUS
<1>3. n \in Nat /\ n <= l /\ Len(r) = l - n
  BY <1>1, <1>2
<1>4. ASSUME NEW i \in 1 .. (l - n) - 1 PROVE r[i] - r[i + 1] >= gap
  <2>1. i \in 1 .. l - n /\ i + 1 \in 1 .. l - n
    BY <1>3
  <2>2. PICK j \in Nat : j = i + n
    BY <1>3
  <2>3. (i + 1) + n = j + 1 /\ j \in 1 .. l - 1 /\ j \in 1 .. l /\ j + 1 \in 1 .. l
    BY <1>3, <2>2
  <2>4. r[i] = ages[j] + ticks /\ r[i + 1] = ages[j + 1] + ticks
    BY <1>1, <1>3, <2>1, <2>2, <2>3
  <2>5. PICK u, v \in Nat : u = ages[j] /\ v = ages[j + 1]
    BY <1>2, <2>3
  <2>6. u - v >= gap
    BY <1>2, <2>3, <2>5 DEF Spaced
  <2>7. (u + ticks) - (v + ticks) >= gap
    BY <2>6
  <2> QED
    BY <2>4, <2>5, <2>7
<1> QED
  BY <1>3, <1>4 DEF Spaced

LEMMA PassedLast ==
    ASSUME NEW length \in Nat \ {0}, NEW ages \in Seq(0 .. length - 1),
           NEW ticks \in Nat, NEW r, Passed(ages, ticks, length, r), Len(r) > 0
    PROVE  /\ Len(ages) > 0 /\ ages[Len(ages)] \in Nat
           /\ r[Len(r)] = ages[Len(ages)] + ticks
<1>1. PICK n \in 0 .. Len(ages) :
        /\ Len(r) = Len(ages) - n
        /\ \A i \in 1 .. Len(r) : r[i] = ages[i + n] + ticks
  BY DEF Passed
<1>2. PICK l \in Nat : l = Len(ages)
  OBVIOUS
<1>3. n \in Nat /\ Len(r) = l - n /\ l - n > 0
  BY <1>1, <1>2
<1>4. l > 0 /\ l - n \in 1 .. l - n /\ (l - n) + n = l
  BY <1>3
<1>5. r[l - n] = ages[l] + ticks
  BY <1>1, <1>3, <1>4
<1>6. ages[l] \in Nat
  BY <1>2, <1>4
<1> QED
  BY <1>2, <1>3, <1>4, <1>5, <1>6

\* A new age after a last one that is old enough.
LEMMA AppendSpaced ==
    ASSUME NEW length \in Nat \ {0}, NEW ages \in Seq(0 .. length - 1), NEW gap \in Nat,
           Spaced(ages, gap), Len(ages) > 0 => ages[Len(ages)] >= gap
    PROVE  Spaced(Append(ages, 0), gap)
<1>1. PICK l \in Nat : l = Len(ages)
  OBVIOUS
<1>2. PICK q : q = Append(ages, 0)
  OBVIOUS
<1>3. Len(q) = l + 1 /\ q[l + 1] = 0 /\ \A i \in 1 .. l : q[i] = ages[i] /\ ages[i] \in Nat
  BY <1>1, <1>2
<1>4. ASSUME NEW i \in 1 .. l PROVE q[i] - q[i + 1] >= gap
  <2>1. CASE i = l
    <3>1. q[i] = ages[l] /\ ages[l] \in Nat /\ ages[l] >= gap
      BY <1>1, <1>3, <2>1
    <3>2. q[i + 1] = 0
      BY <1>3, <2>1
    <3> QED
      BY <3>1, <3>2
  <2>2. CASE i # l
    <3>1. i \in 1 .. l - 1 /\ i + 1 \in 1 .. l
      BY <2>2
    <3>2. ages[i] - ages[i + 1] >= gap
      BY <1>1, <3>1 DEF Spaced
    <3> QED
      BY <1>3, <3>1, <3>2
  <2> QED
    BY <2>1, <2>2
<1>5. Len(q) - 1 = l
  BY <1>3
<1> QED
  BY <1>2, <1>4, <1>5 DEF Spaced

\* Time passes, and the window ages with it.
LEMMA SharedAges ==
    ASSUME NEW length \in Nat \ {0}, NEW share \in Nat, NEW age \in Nat, NEW count \in 0 .. share,
           NEW ages, Shared(age, count, share, length, ages),
           NEW ticks \in Nat, NEW r, Passed(ages, ticks, length, r),
           NEW later \in Nat, IF age + ticks >= length THEN later >= length ELSE later = age + ticks
    PROVE  Shared(later, count, share, length, r)
<1>1. /\ ages \in Seq(0 .. length - 1) /\ Ordered(ages) /\ Len(ages) \in Nat
      /\ \A i \in 1 .. Len(ages) : ages[i] \in 0 .. length - 1
  BY DEF Shared
<1>2. PICK m \in 0 .. Len(ages) :
        /\ \A i \in 1 .. Len(ages) : i > m <=> ages[i] + ticks < length
        /\ Len(r) = Len(ages) - m
        /\ r \in Seq(0 .. length - 1)
        /\ \A i \in 1 .. Len(r) : r[i] = ages[i + m] + ticks
  BY DEF Passed
<1>3. m \in Nat /\ m <= Len(ages) /\ Len(r) \in Nat
  BY <1>1, <1>2
<1>4. \A i \in 1 .. Len(r) : i \in Nat /\ i + m \in 1 .. Len(ages)
  BY <1>1, <1>2, <1>3
<1>5. Ordered(r)
  BY <1>1, PassedOrdered
<1>6. CASE age >= length
  <2>1. later >= length /\ Len(ages) <= share
    BY <1>6 DEF Shared
  <2>2. Len(r) <= share
    BY <1>1, <1>2, <1>3, <2>1
  <2> QED
    BY <1>2, <1>5, <2>1, <2>2 DEF Shared
<1>7. CASE ~ (age >= length)
  <2>1. PICK n \in 0 .. Len(ages) : n <= share /\ Len(ages) - n = count /\ Split(ages, n, age)
    BY <1>7 DEF Shared
  <2>2. n \in Nat /\ n <= Len(ages)
    BY <1>1, <2>1
  <2>3. CASE later >= length
    <3>1. age + ticks >= length
      BY <1>7, <2>3
    <3>2. ASSUME m < n PROVE FALSE
      <4>1. n \in 1 .. Len(ages) /\ n > m
        BY <1>3, <2>2, <3>2
      <4>2. ages[n] >= age /\ ages[n] + ticks < length /\ ages[n] \in Nat
        BY <1>1, <1>2, <2>1, <4>1 DEF Split
      <4> QED
        BY <3>1, <4>2
    <3>3. Len(r) <= share
      BY <1>1, <1>2, <1>3, <2>1, <2>2, <3>2
    <3> QED
      BY <1>2, <1>5, <2>3, <3>3 DEF Shared
  <2>4. CASE ~ (later >= length)
    <3>1. age + ticks < length /\ later = age + ticks
      BY <1>7, <2>4
    <3>2. ASSUME m > n PROVE FALSE
      <4>1. n + 1 \in 1 .. Len(ages) /\ ~ (n + 1 <= n) /\ ~ (n + 1 > m)
        BY <1>1, <1>3, <2>2, <3>2
      <4>2. ages[n + 1] <= age /\ ages[n + 1] \in Nat /\ ~ (ages[n + 1] + ticks < length)
        BY <1>1, <1>2, <2>1, <4>1 DEF Split
      <4> QED
        BY <3>1, <4>2
    <3>3. n - m \in 0 .. Len(r) /\ n - m <= share /\ Len(r) - (n - m) = count
      <4>1. m <= n
        BY <1>3, <2>2, <3>2
      <4>2. Len(r) = Len(ages) - m /\ Len(ages) \in Nat /\ Len(ages) - n = count /\ n <= share
        BY <1>1, <1>2, <2>1
      <4> QED
        BY <1>3, <2>2, <4>1, <4>2
    <3>4. ASSUME NEW i \in 1 .. Len(r)
          PROVE  IF i <= n - m THEN r[i] >= later ELSE r[i] <= later
      <4>1. i + m \in 1 .. Len(ages) /\ r[i] = ages[i + m] + ticks /\ ages[i + m] \in Nat
        <5>1. i + m \in 1 .. Len(ages)
          BY <1>4
        <5>2. ages[i + m] \in 0 .. length - 1
          BY <1>1, <5>1
        <5>3. r[i] = ages[i + m] + ticks
          BY <1>2
        <5> QED
          BY <5>1, <5>2, <5>3
      <4>2. IF i + m <= n THEN ages[i + m] >= age ELSE ages[i + m] <= age
        BY <2>1, <4>1 DEF Split
      <4>3. i <= n - m <=> i + m <= n
        BY <1>3, <2>2
      <4>4. CASE i + m <= n
        BY <3>1, <4>1, <4>2, <4>3, <4>4
      <4>5. CASE ~ (i + m <= n)
        BY <3>1, <4>1, <4>2, <4>3, <4>5
      <4> QED
        BY <4>4, <4>5
    <3>5. Split(r, n - m, later)
      BY <3>4 DEF Split
    <3> QED
      BY <1>2, <1>5, <2>4, <3>3, <3>5 DEF Shared
  <2> QED
    BY <2>3, <2>4
<1> QED
  BY <1>6, <1>7

\* A window that is over gives way to a new one.
LEMMA SharedRolls ==
    ASSUME NEW length \in Nat \ {0}, NEW share \in Nat, NEW age \in Nat, age >= length,
           NEW count, NEW ages, Shared(age, count, share, length, ages)
    PROVE  Shared(0, 0, share, length, ages)
<1>1. /\ ages \in Seq(0 .. length - 1) /\ Ordered(ages) /\ Len(ages) \in Nat /\ Len(ages) <= share
      /\ \A i \in 1 .. Len(ages) : ages[i] \in 0 .. length - 1
  BY DEF Shared
<1>2. Split(ages, Len(ages), 0)
  BY <1>1 DEF Split
<1>3. Len(ages) \in 0 .. Len(ages) /\ Len(ages) - Len(ages) = 0 /\ ~ (0 >= length)
  BY <1>1
<1> QED
  BY <1>1, <1>2, <1>3 DEF Shared

\* One more now.
LEMMA SharedGrows ==
    ASSUME NEW length \in Nat \ {0}, NEW share \in Nat, NEW age \in Nat, age < length,
           NEW count \in Nat, NEW ages, Shared(age, count, share, length, ages)
    PROVE  Shared(age, count + 1, share, length, Append(ages, 0))
<1>1. /\ ages \in Seq(0 .. length - 1) /\ Ordered(ages) /\ Len(ages) \in Nat
      /\ \A i \in 1 .. Len(ages) : ages[i] \in 0 .. length - 1
  BY DEF Shared
<1>2. PICK r : r = Append(ages, 0)
  OBVIOUS
<1>3. /\ r \in Seq(0 .. length - 1) /\ Len(r) = Len(ages) + 1 /\ r[Len(ages) + 1] = 0
      /\ \A i \in 1 .. Len(ages) : r[i] = ages[i]
  BY <1>1, <1>2
<1>4. \A i \in 1 .. Len(r) : i = Len(ages) + 1 \/ i \in 1 .. Len(ages)
  BY <1>1, <1>3
<1>5. Ordered(r)
  BY <1>1, <1>2, AppendOrdered
<1>6. PICK n \in 0 .. Len(ages) : n <= share /\ Len(ages) - n = count /\ Split(ages, n, age)
  <2>1. ~ (age >= length)
    OBVIOUS
  <2> QED
    BY <2>1 DEF Shared
<1>7. n \in Nat /\ n <= Len(ages) /\ n \in 0 .. Len(r) /\ Len(r) - n = count + 1
  BY <1>1, <1>3, <1>6
<1>8. ASSUME NEW i \in 1 .. Len(r) PROVE IF i <= n THEN r[i] >= age ELSE r[i] <= age
  <2>1. CASE i = Len(ages) + 1
    <3>1. r[i] = 0 /\ ~ (i <= n)
      BY <1>3, <1>7, <1>1, <2>1
    <3> QED
      BY <3>1
  <2>2. CASE i \in 1 .. Len(ages)
    <3>1. r[i] = ages[i]
      BY <1>3, <2>2
    <3>2. IF i <= n THEN ages[i] >= age ELSE ages[i] <= age
      BY <1>6, <2>2 DEF Split
    <3> QED
      BY <3>1, <3>2
  <2> QED
    BY <1>4, <2>1, <2>2
<1>9. Split(r, n, age) /\ ~ (age >= length)
  BY <1>8 DEF Split
<1>10. Shared(age, count + 1, share, length, r)
  BY <1>3, <1>5, <1>6, <1>7, <1>9 DEF Shared
<1> QED
  BY <1>2, <1>10

\* No length of time sees more than two shares.
LEMMA SharedBound ==
    ASSUME NEW length \in Nat \ {0}, NEW share \in Nat, NEW age \in Nat, NEW count \in 0 .. share,
           NEW ages, Shared(age, count, share, length, ages)
    PROVE  Len(ages) \in Nat /\ Len(ages) <= 2 * share /\ (age < length => Len(ages) >= count)
<1>1. Len(ages) \in Nat
  BY DEF Shared
<1>2. CASE age >= length
  <2>1. Len(ages) <= share
    BY <1>2 DEF Shared
  <2> QED
    BY <1>1, <1>2, <2>1
<1>3. CASE ~ (age >= length)
  <2>1. PICK n \in 0 .. Len(ages) : n <= share /\ Len(ages) - n = count
    BY <1>3 DEF Shared
  <2> QED
    BY <1>1, <2>1
<1> QED
  BY <1>2, <1>3

LEMMA SharedEmpty ==
    ASSUME NEW length \in Nat \ {0}, NEW share \in Nat, NEW age \in Nat
    PROVE  Shared(age, 0, share, length, <<>>) /\ <<>> \in Seq(0 .. length - 1)
<1>1. <<>> \in Seq(0 .. length - 1) /\ Len(<<>>) = 0 /\ Ordered(<<>>) /\ Split(<<>>, 0, age)
  BY DEF Ordered, Split
<1>2. 0 \in 0 .. Len(<<>>) /\ 0 <= share /\ Len(<<>>) - 0 = 0 /\ Len(<<>>) <= share
  BY <1>1
<1> QED
  BY <1>1, <1>2 DEF Shared

-----------------------------------------------------------------------------
(* What is computed by turns *)

\* What a turn may make of the one before it.
Turns(S, m) == [S \X (1 .. m) -> S]

\* What m turns from base are.
Run(f, S, base, g, m) ==
    /\ f \in [0 .. m -> S]
    /\ f[0] = base
    /\ \A k \in 1 .. m : f[k] = g[<<f[k - 1], k>>]

\* A function by turns, each of which stays in a set, exists.
LEMMA Iterated ==
    ASSUME NEW S, NEW base \in S, NEW m \in Nat, NEW g \in Turns(S, m)
    PROVE  \E f : Run(f, S, base, g, m)
<1> DEFINE Fits(f, n) == f = [k \in 0 .. n |-> IF k = 0 THEN base ELSE g[<<f[k - 1], k>>]]
           M == {n \in Nat : n <= m => \E f \in [0 .. n -> S] : Fits(f, n)}
<1>0. g \in [S \X (1 .. m) -> S]
  BY DEF Turns
<1>1. 0 \in M
  <2>1. PICK f : f = [k \in 0 .. 0 |-> base]
    OBVIOUS
  <2>2. f \in [0 .. 0 -> S] /\ Fits(f, 0)
    BY <2>1
  <2> QED
    BY <2>2
<1>2. ASSUME NEW n \in Nat, n \in M PROVE n + 1 \in M
  <2> SUFFICES ASSUME n + 1 <= m PROVE \E f \in [0 .. n + 1 -> S] : Fits(f, n + 1)
    OBVIOUS
  <2>1. PICK f \in [0 .. n -> S] :
           f = [k \in 0 .. n |-> IF k = 0 THEN base ELSE g[<<f[k - 1], k>>]]
    BY <1>2
  <2>2. PICK h : h = [k \in 0 .. n + 1 |-> IF k <= n THEN f[k] ELSE g[<<f[n], n + 1>>]]
    OBVIOUS
  <2>3. f[n] \in S /\ g[<<f[n], n + 1>>] \in S
    BY <1>0, <2>1
  <2>4. h \in [0 .. n + 1 -> S]
    BY <2>2, <2>3
  <2>5. ASSUME NEW k \in 0 .. n + 1
        PROVE  h[k] = IF k = 0 THEN base ELSE g[<<h[k - 1], k>>]
    <3>1. CASE k = 0
      <4>1. 0 \in 0 .. n /\ 0 <= n
        OBVIOUS
      <4>2. f[0] = base /\ h[0] = f[0]
        BY <2>1, <2>2, <4>1
      <4> QED
        BY <3>1, <4>2
    <3>2. CASE k \in 1 .. n
      <4>1. k \in 0 .. n /\ k # 0 /\ k <= n /\ k - 1 \in 0 .. n + 1 /\ k - 1 <= n
        BY <3>2
      <4>2. f[k] = g[<<f[k - 1], k>>]
        BY <2>1, <4>1
      <4>3. h[k] = f[k] /\ h[k - 1] = f[k - 1]
        BY <2>2, <4>1
      <4> QED
        BY <4>1, <4>2, <4>3
    <3>3. CASE k = n + 1
      <4>1. n + 1 # 0 /\ ~ (n + 1 <= n) /\ (n + 1) - 1 = n /\ n \in 0 .. n + 1 /\ n + 1 \in 0 .. n + 1
        OBVIOUS
      <4>2. h[n + 1] = g[<<f[n], n + 1>>] /\ h[n] = f[n]
        BY <2>2, <4>1
      <4> QED
        BY <3>3, <4>1, <4>2
    <3> QED
      BY <3>1, <3>2, <3>3
  <2>6. Fits(h, n + 1)
    BY <2>4, <2>5
  <2> QED
    BY <2>4, <2>6
<1> HIDE DEF M
<1>3. Nat \subseteq M
  BY <1>1, <1>2, Induction
<1>4. PICK f \in [0 .. m -> S] : Fits(f, m)
  BY <1>3 DEF M
<1>5. \A k \in 0 .. m : f[k] = IF k = 0 THEN base ELSE g[<<f[k - 1], k>>]
  BY <1>4
<1>6. f[0] = base /\ \A k \in 1 .. m : f[k] = g[<<f[k - 1], k>>]
  <2>1. 0 \in 0 .. m /\ \A k \in 1 .. m : k \in 0 .. m /\ k # 0
    OBVIOUS
  <2> QED
    BY <1>5, <2>1
<1> QED
  BY <1>6 DEF Run

\* What holds of the first turn and from each to the next holds of the last.
LEMMA Turned ==
    ASSUME NEW m \in Nat, NEW T, 0 \in T, \A k \in 1 .. m : k - 1 \in T => k \in T
    PROVE  m \in T
<1> DEFINE M == {n \in Nat : n <= m => n \in T}
<1>1. 0 \in M
  OBVIOUS
<1>2. ASSUME NEW n \in Nat, n \in M PROVE n + 1 \in M
  <2> SUFFICES ASSUME n + 1 <= m PROVE n + 1 \in T
    OBVIOUS
  <2>1. n \in T /\ n + 1 \in 1 .. m /\ (n + 1) - 1 = n
    BY <1>2
  <2> QED
    BY <2>1
<1> HIDE DEF M
<1>3. Nat \subseteq M
  BY <1>1, <1>2, Induction
<1> QED
  BY <1>3 DEF M

-----------------------------------------------------------------------------
(* The elements of a sequence, and how those stand to the ones after them *)

Elements(s) == {s[i] : i \in 1 .. Len(s)}

\* Each element of s stands in the relation R to those after it.
Related(s, R) == \A i, j \in 1 .. Len(s) : i < j => <<s[i], s[j]>> \in R

LEMMA JoinedRelated ==
    ASSUME NEW S, NEW s \in Seq(S), NEW t \in Seq(S), NEW R, Related(s, R), Related(t, R),
           \A i \in 1 .. Len(s), j \in 1 .. Len(t) : <<s[i], t[j]>> \in R
    PROVE  Related(s \o t, R)
<1>1. /\ s \o t \in Seq(S) /\ Len(s \o t) = Len(s) + Len(t)
      /\ \A i \in 1 .. Len(s) : (s \o t)[i] = s[i]
      /\ \A i \in 1 .. Len(t) : (s \o t)[Len(s) + i] = t[i]
      /\ Len(s) \in Nat /\ Len(t) \in Nat
  BY Joined
<1> SUFFICES ASSUME NEW i \in 1 .. Len(s) + Len(t), NEW j \in 1 .. Len(s) + Len(t), i < j
             PROVE  <<(s \o t)[i], (s \o t)[j]>> \in R
  BY <1>1 DEF Related
<1>2. CASE j <= Len(s)
  BY <1>1, <1>2 DEF Related
<1>3. CASE i <= Len(s) /\ j > Len(s)
  <2>1. PICK l \in 1 .. Len(t) : j = Len(s) + l
    <3>1. j - Len(s) \in 1 .. Len(t) /\ j = Len(s) + (j - Len(s))
      BY <1>1, <1>3
    <3> QED
      BY <3>1
  <2>2. i \in 1 .. Len(s)
    BY <1>1, <1>3
  <2> QED
    BY <1>1, <2>1, <2>2
<1>4. CASE i > Len(s)
  <2>1. PICK l \in 1 .. Len(t) : j = Len(s) + l
    <3>1. j - Len(s) \in 1 .. Len(t) /\ j = Len(s) + (j - Len(s))
      BY <1>1, <1>4
    <3> QED
      BY <3>1
  <2>2. PICK k \in 1 .. Len(t) : i = Len(s) + k
    <3>1. i - Len(s) \in 1 .. Len(t) /\ i = Len(s) + (i - Len(s))
      BY <1>1, <1>4
    <3> QED
      BY <3>1
  <2>3. k < l
    BY <1>1, <2>1, <2>2
  <2> QED
    BY <1>1, <2>1, <2>2, <2>3 DEF Related
<1>5. j <= Len(s) \/ (i <= Len(s) /\ j > Len(s)) \/ i > Len(s)
  BY <1>1
<1> QED
  BY <1>2, <1>3, <1>4, <1>5

LEMMA JoinedElements ==
    ASSUME NEW S, NEW s \in Seq(S), NEW t \in Seq(S)
    PROVE  Elements(s \o t) = Elements(s) \cup Elements(t)
<1>1. /\ s \o t \in Seq(S) /\ Len(s \o t) = Len(s) + Len(t)
      /\ \A i \in 1 .. Len(s) : (s \o t)[i] = s[i]
      /\ \A i \in 1 .. Len(t) : (s \o t)[Len(s) + i] = t[i]
      /\ Len(s) \in Nat /\ Len(t) \in Nat
  BY Joined
<1>2. ASSUME NEW x, NEW i \in 1 .. Len(s), s[i] = x
      PROVE  \E j \in 1 .. Len(s \o t) : (s \o t)[j] = x
  <2>1. i \in 1 .. Len(s \o t) /\ (s \o t)[i] = x
    BY <1>1, <1>2
  <2> QED
    BY <2>1
<1>3. ASSUME NEW x, NEW i \in 1 .. Len(t), t[i] = x
      PROVE  \E j \in 1 .. Len(s \o t) : (s \o t)[j] = x
  <2>1. Len(s) + i \in 1 .. Len(s \o t) /\ (s \o t)[Len(s) + i] = x
    BY <1>1, <1>3
  <2> QED
    BY <2>1
<1>4. ASSUME NEW x, NEW i \in 1 .. Len(s \o t), (s \o t)[i] = x
      PROVE  (\E j \in 1 .. Len(s) : s[j] = x) \/ (\E j \in 1 .. Len(t) : t[j] = x)
  <2>1. CASE i <= Len(s)
    <3>1. i \in 1 .. Len(s) /\ s[i] = x
      BY <1>1, <1>4, <2>1
    <3> QED
      BY <3>1
  <2>2. CASE i > Len(s)
    <3>1. i - Len(s) \in 1 .. Len(t) /\ i = Len(s) + (i - Len(s))
      BY <1>1, <2>2
    <3>2. t[i - Len(s)] = x
      BY <1>1, <1>4, <3>1
    <3> QED
      BY <3>1, <3>2
  <2> QED
    BY <1>1, <2>1, <2>2
<1> QED
  BY <1>2, <1>3, <1>4 DEF Elements

\* A sequence of no, one, or two elements.
LEMMA FewElements ==
    /\ \A R : Related(<<>>, R) /\ Elements(<<>>) = {} /\ \A S : <<>> \in Seq(S)
    /\ \A R, x : Related(<<x>>, R) /\ Elements(<<x>>) = {x} /\ \A S : x \in S => <<x>> \in Seq(S)
    /\ \A R, x, y : /\ <<x, y>> \in R => Related(<<x, y>>, R)
                    /\ Elements(<<x, y>>) = {x, y}
                    /\ \A S : x \in S /\ y \in S => <<x, y>> \in Seq(S)
<1>1. ASSUME NEW R PROVE Related(<<>>, R) /\ Elements(<<>>) = {} /\ \A S : <<>> \in Seq(S)
  BY DEF Related, Elements
<1>2. ASSUME NEW R, NEW x
      PROVE  Related(<<x>>, R) /\ Elements(<<x>>) = {x} /\ \A S : x \in S => <<x>> \in Seq(S)
  <2>1. Len(<<x>>) = 1 /\ <<x>>[1] = x /\ 1 .. 1 = {1}
    OBVIOUS
  <2>2. Related(<<x>>, R)
    BY <2>1 DEF Related
  <2>3. Elements(<<x>>) = {x}
    BY <2>1 DEF Elements
  <2> QED
    BY <2>2, <2>3
<1>3. ASSUME NEW R, NEW x, NEW y
      PROVE  /\ <<x, y>> \in R => Related(<<x, y>>, R)
             /\ Elements(<<x, y>>) = {x, y}
             /\ \A S : x \in S /\ y \in S => <<x, y>> \in Seq(S)
  <2>1. Len(<<x, y>>) = 2 /\ <<x, y>>[1] = x /\ <<x, y>>[2] = y /\ 1 .. 2 = {1, 2}
    OBVIOUS
  <2>2. <<x, y>> \in R => Related(<<x, y>>, R)
    <3>1. \A i, j \in {1, 2} : i < j => i = 1 /\ j = 2
      OBVIOUS
    <3> QED
      BY <2>1, <3>1 DEF Related
  <2>3. Elements(<<x, y>>) = {x, y}
    BY <2>1 DEF Elements
  <2> QED
    BY <2>2, <2>3
<1> QED
  BY <1>1, <1>2, <1>3

LEMMA JoinedFew ==
    ASSUME NEW x, NEW y
    PROVE  <<x>> \o <<y>> = <<x, y>> /\ <<>> \o <<y>> = <<y>>
<1> DEFINE S == {x, y}
<1>1. <<x>> \in Seq(S) /\ <<y>> \in Seq(S) /\ <<>> \in Seq(S)
      /\ Len(<<x>>) = 1 /\ Len(<<y>>) = 1 /\ Len(<<>>) = 0 /\ <<x>>[1] = x /\ <<y>>[1] = y
  OBVIOUS
<1> HIDE DEF S
<1>2. PICK s : s = <<x>> \o <<y>>
  OBVIOUS
<1>3. s \in Seq(S) /\ Len(s) = 2 /\ s[1] = x /\ s[2] = y
  <2>1. /\ s \in Seq(S) /\ Len(s) = 1 + 1
        /\ \A i \in 1 .. 1 : s[i] = <<x>>[i]
        /\ \A i \in 1 .. 1 : s[1 + i] = <<y>>[i]
    BY <1>1, <1>2, Joined
  <2>2. 1 \in 1 .. 1 /\ 1 + 1 = 2
    OBVIOUS
  <2> QED
    BY <1>1, <2>1, <2>2
<1>4. PICK t : t = <<>> \o <<y>>
  OBVIOUS
<1>5. t \in Seq(S) /\ Len(t) = 1 /\ t[1] = y
  <2>1. /\ t \in Seq(S) /\ Len(t) = 0 + 1
        /\ \A i \in 1 .. 1 : t[0 + i] = <<y>>[i]
    BY <1>1, <1>4, Joined
  <2>2. 1 \in 1 .. 1 /\ 0 + 1 = 1
    OBVIOUS
  <2> QED
    BY <1>1, <2>1, <2>2
<1>6. t = <<y>>
  BY <1>5
<1> QED
  BY <1>2, <1>3, <1>4, <1>6, PairIs

\* A list of which some elements are left, in the same order.
LEMMA SomeRelated ==
    ASSUME NEW S, NEW s \in Seq(S), NEW R, Related(s, R), NEW t \in Seq(S),
           NEW f \in [1 .. Len(t) -> 1 .. Len(s)],
           \A i, j \in 1 .. Len(t) : i < j => f[i] < f[j],
           \A i \in 1 .. Len(t) : t[i] = s[f[i]]
    PROVE  Related(t, R)
BY DEF Related

LEMMA AppendedElements ==
    ASSUME NEW S, NEW s \in Seq(S), NEW x \in S
    PROVE  Append(s, x) \in Seq(S) /\ Elements(Append(s, x)) = Elements(s) \cup {x}
<1>1. PICK u : u = Append(s, x)
  OBVIOUS
<1>2. /\ u \in Seq(S) /\ Len(u) = Len(s) + 1 /\ u[Len(s) + 1] = x /\ Len(s) \in Nat
      /\ \A i \in 1 .. Len(s) : u[i] = s[i]
  BY <1>1
<1>3. \A i \in 1 .. Len(u) : i \in 1 .. Len(s) \/ i = Len(s) + 1
  BY <1>2
<1>4. (\A i \in 1 .. Len(s) : i \in 1 .. Len(u)) /\ Len(s) + 1 \in 1 .. Len(u)
  BY <1>2
<1> QED
  BY <1>1, <1>2, <1>3, <1>4 DEF Elements
=============================================================================
