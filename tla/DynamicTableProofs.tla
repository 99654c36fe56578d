-------------------------- MODULE DynamicTableProofs --------------------------
(***************************************************************************)
(* Theorems about DynamicTable, for any capacities and any fields with     *)
(* some text, in the hands of any caller.                                  *)
(***************************************************************************)
EXTENDS DynamicTable, DataLemmas, FiniteSetTheorems, SequenceTheorems

-----------------------------------------------------------------------------
(* Totals.                                                                 *)

(* Whatever adds up the numbers of a sequence ends with its total.         *)
LEMMA TotalIs ==
  ASSUME NEW q \in Seq(Nat), NEW g, Adds(g, q)
  PROVE  Total(q) = g[Len(q)]
<1>1. PICK f : IsSum(f, q) /\ Total(q) = f[Len(q)]
  BY TotalIsSum
<1>2. Len(q) \in Nat /\ Begins(q, q) /\ Adds(f, q)
  BY <1>1 DEF Begins, IsSum
<1>3. \A n \in 0..Len(q) : f[n] = g[n]
  BY <1>2, SumsAgree
<1>4. Len(q) \in 0..Len(q)
  BY <1>2
<1>5. QED
  BY <1>1, <1>3, <1>4

LEMMA Later ==
  ASSUME NEW a \in Nat, NEW b \in Nat, NEW c \in Nat, NEW d \in Nat, a = b + d
  PROVE  a - c = (b - c) + d
OBVIOUS

(* The first k numbers, the others, and the last m in reverse.             *)
LEMMA TotalOfFirst ==
  ASSUME NEW q \in Seq(Nat), NEW f, IsSum(f, q), NEW k \in 0..Len(q),
         NEW p \in Seq(Nat), Len(p) = k, \A i \in 1..k : p[i] = q[i]
  PROVE  Total(p) = f[k]
<1>1. Len(q) \in Nat
  OBVIOUS
<1>2. Adds(f, p)
  <2>1. f[0] = 0 /\ \A i \in 1..Len(q) : f[i] = f[i - 1] + q[i]
    BY Zenon DEF IsSum, Adds
  <2>2. \A i \in 1..k : i \in 1..Len(q)
    BY <1>1
  <2>3. QED
    BY <2>1, <2>2, Zenon DEF Adds
<1>3. QED
  BY <1>2, TotalIs

LEMMA Shifted ==
  ASSUME NEW k \in Nat, NEW n \in Nat, NEW m \in Nat, k + n = m, NEW i \in 1..n
  PROVE  /\ i \in 0..n /\ i - 1 \in 0..n /\ k + i \in 1..m /\ k + i \in 0..m
         /\ k + (i - 1) = (k + i) - 1 /\ (k + i) - 1 \in 0..m
OBVIOUS

LEMMA TotalOfRest ==
  ASSUME NEW q \in Seq(Nat), NEW f, IsSum(f, q), NEW k \in 0..Len(q),
         NEW p \in Seq(Nat), Len(p) = Len(q) - k, \A i \in 1..Len(p) : p[i] = q[k + i]
  PROVE  Total(p) = f[Len(q)] - f[k]
<1> DEFINE n == Len(p)
           g == [i \in 0..n |-> f[k + i] - f[k]]
<1>1. Len(q) \in Nat /\ k \in Nat /\ n \in Nat /\ k + n = Len(q)
  OBVIOUS
<1>2. \A i \in 0..Len(q) : f[i] \in Nat
  BY DEF IsSum
<1>3. g[0] = 0
  <2>1. 0 \in 0..n /\ k + 0 = k /\ f[k] \in Nat
    BY <1>1, <1>2
  <2>2. QED
    BY <2>1
<1>4. ASSUME NEW i \in 1..n PROVE g[i] = g[i - 1] + p[i]
  <2>1. i \in 0..n /\ i - 1 \in 0..n /\ k + i \in 1..Len(q) /\ k + i \in 0..Len(q)
        /\ k + (i - 1) = (k + i) - 1 /\ (k + i) - 1 \in 0..Len(q)
    <3> HIDE DEF n
    <3>1. QED
      BY <1>1, Shifted
  <2>2. f[k + i] = f[(k + i) - 1] + q[k + i]
    BY <2>1 DEF IsSum, Adds
  <2>3. f[k + i] \in Nat /\ f[(k + i) - 1] \in Nat /\ f[k] \in Nat /\ q[k + i] \in Nat
    <3>1. k \in 0..Len(q) /\ \A x \in 1..Len(q) : q[x] \in Nat
      OBVIOUS
    <3>2. QED
      BY <1>2, <2>1, <3>1, Zenon
  <2>4. g[i] = f[k + i] - f[k] /\ g[i - 1] = f[(k + i) - 1] - f[k] /\ p[i] = q[k + i]
    BY <2>1
  <2>5. QED
    <3> HIDE DEF g, n
    <3>1. f[k + i] - f[k] = (f[(k + i) - 1] - f[k]) + q[k + i]
      BY <2>2, <2>3, Later
    <3>2. QED
      BY <3>1, <2>4
<1>5. Adds(g, p)
  BY <1>3, <1>4 DEF Adds
<1>6. Total(p) = g[n]
  BY <1>5, TotalIs
<1>7. n \in 0..n
  BY <1>1
<1>8. QED
  BY <1>1, <1>6, <1>7

LEMMA TotalOfLast ==
  ASSUME NEW q \in Seq(Nat), NEW f, IsSum(f, q), NEW m \in 0..Len(q),
         NEW p \in Seq(Nat), Len(p) = m,
         \A i \in 1..m : p[i] = q[Len(q) + 1 - i]
  PROVE  Total(p) = f[Len(q)] - f[Len(q) - m]
<1> DEFINE n == Len(q)
           g == [i \in 0..m |-> f[n] - f[n - i]]
<1>1. n \in Nat /\ m \in Nat /\ m <= n
  OBVIOUS
<1>2. \A i \in 0..n : f[i] \in Nat
  BY DEF IsSum
<1>3. g[0] = 0
  <2>1. 0 \in 0..m /\ n - 0 = n /\ f[n] \in Nat
    BY <1>1, <1>2
  <2>2. QED
    BY <2>1
<1>4. ASSUME NEW i \in 1..m PROVE g[i] = g[i - 1] + p[i]
  <2> DEFINE j == n + 1 - i
  <2>1. i \in 0..m /\ i - 1 \in 0..m /\ j \in 1..n /\ j \in 0..n
        /\ n - i = j - 1 /\ n - (i - 1) = j /\ j - 1 \in 0..n /\ n \in 0..n
    BY <1>1
  <2>2. p[i] = q[j]
    OBVIOUS
  <2> HIDE DEF j
  <2>3. f[j] = f[j - 1] + q[j]
    BY <2>1 DEF IsSum, Adds
  <2>4. f[j] \in Nat /\ f[j - 1] \in Nat /\ f[n] \in Nat /\ q[j] \in Nat
    <3>1. \A x \in 1..n : q[x] \in Nat
      OBVIOUS
    <3>2. QED
      BY <1>2, <2>1, <3>1, Zenon
  <2>5. g[i] = f[n] - f[j - 1] /\ g[i - 1] = f[n] - f[j]
    BY <2>1
  <2>6. QED
    <3> DEFINE a == f[j]
               b == f[j - 1]
               c == f[n]
               d == q[j]
    <3>1. a = b + d /\ a \in Nat /\ b \in Nat /\ c \in Nat /\ d \in Nat
      BY <2>3, <2>4
    <3> HIDE DEF g, n, a, b, c, d
    <3>2. c - b = (c - a) + d
      BY <3>1
    <3> USE DEF a, b, c, d
    <3>3. QED
      BY <3>2, <2>2, <2>5
<1>5. Adds(g, p)
  BY <1>3, <1>4 DEF Adds
<1>6. Total(p) = g[m]
  BY <1>5, TotalIs
<1>7. m \in 0..m
  BY <1>1
<1>8. QED
  BY <1>6, <1>7

(* n numbers that are all more than c make more than n times c.            *)
LEMMA TotalOfMany ==
  ASSUME NEW q \in Seq(Nat), \A i \in 1..Len(q) : q[i] > headerEntryOverhead
  PROVE  Total(q) >= 33 * Len(q)
<1>1. PICK f : IsSum(f, q) /\ Total(q) = f[Len(q)]
  BY TotalIsSum
<1>2. Len(q) \in Nat /\ \A i \in 0..Len(q) : f[i] \in Nat
  BY <1>1 DEF IsSum
<1> DEFINE T == {n \in 0..Len(q) : ~(f[n] >= 33 * n)}
<1>3. T = {}
  <2> SUFFICES ASSUME T # {} PROVE FALSE
    OBVIOUS
  <2>1. T \in SUBSET Nat
    BY <1>2
  <2>2. PICK n \in T : \A y \in T : n <= y
    <3> HIDE DEF T
    <3>1. QED
      BY <2>1, LeastOf
  <2>3. n \in 0..Len(q) /\ ~(f[n] >= 33 * n)
    BY <2>2
  <2>4. n # 0
    BY <1>1, <2>3 DEF IsSum, Adds
  <2>5. n \in 1..Len(q) /\ n - 1 \in 0..Len(q) /\ n - 1 < n /\ n \in Nat
    BY <1>2, <2>3, <2>4
  <2>6. f[n - 1] >= 33 * (n - 1)
    <3>1. n - 1 \notin T
      <4> HIDE DEF T
      <4>1. QED
        BY <2>2, <2>5
    <3>2. QED
      BY <3>1, <2>5
  <2>7. f[n] = f[n - 1] + q[n]
    BY <1>1, <2>5 DEF IsSum, Adds
  <2>8. q[n] > 32 /\ q[n] \in Nat /\ f[n - 1] \in Nat /\ f[n] \in Nat
    BY <1>2, <2>5 DEF headerEntryOverhead
  <2>9. QED
    <3> DEFINE a == f[n]
               b == f[n - 1]
               d == q[n]
    <3>1. a = b + d /\ d > 32 /\ d \in Nat /\ b \in Nat /\ b >= 33 * (n - 1) /\ ~(a >= 33 * n)
      BY <2>3, <2>6, <2>7, <2>8
    <3> HIDE DEF a, b, d, T
    <3>2. QED
      BY <3>1, <2>5
<1>4. Len(q) \in 0..Len(q)
  BY <1>2
<1>5. QED
  BY <1>1, <1>3, <1>4

-----------------------------------------------------------------------------
(* A table of capacity c has room for more fields than fit into it.        *)

Sizes(q) == [i \in 1..Len(q) |-> SizeOf(q[i])]

LEMMA SizesType ==
  ASSUME NEW q \in Seq(HeaderFields)
  PROVE  /\ Sizes(q) \in Seq(Nat) /\ Len(Sizes(q)) = Len(q) /\ Len(q) \in Nat
         /\ \A i \in 1..Len(q) : /\ q[i] \in HeaderFields
                                 /\ Sizes(q)[i] = SizeOf(q[i])
                                 /\ Sizes(q)[i] > headerEntryOverhead
<1>1. Len(q) \in Nat /\ \A i \in 1..Len(q) : q[i] \in HeaderFields
  OBVIOUS
<1>2. \A i \in 1..Len(q) : SizeOf(q[i]) \in Nat /\ SizeOf(q[i]) > headerEntryOverhead
  BY <1>1, FieldsAssumption
<1>3. QED
  BY <1>1, <1>2 DEF Sizes

LEMMA MaxEntriesType ==
  ASSUME NEW c \in Nat
  PROVE  /\ MaxEntries(c) \in Nat /\ c <= 32 * MaxEntries(c)
         /\ (MaxEntries(c) = 0) = (c = 0)
<1>1. QED
  BY DEF MaxEntries, headerEntryOverhead

LEMMA RoomLeft ==
  ASSUME NEW q \in Seq(HeaderFields), NEW c \in Nat, Total(Sizes(q)) <= c
  PROVE  Len(q) = 0 \/ Len(q) < MaxEntries(c)
<1>1. Total(Sizes(q)) >= 33 * Len(q) /\ Total(Sizes(q)) \in Nat /\ Len(q) \in Nat
  <2>1. Total(Sizes(q)) >= 33 * Len(Sizes(q))
    BY SizesType, TotalOfMany
  <2>2. QED
    BY <2>1, SizesType, TotalType
<1>2. MaxEntries(c) \in Nat /\ c <= 32 * MaxEntries(c)
  BY MaxEntriesType
<1>3. QED
  BY <1>1, <1>2

-----------------------------------------------------------------------------
(* Indices that go round c slots.                                          *)

Wrap(c, i) == IF i < c THEN i ELSE i - c

Within(c, t) == t \in Nat /\ (t < c \/ t = 0)

LEMMA WrapRound ==
  ASSUME NEW c \in Nat, NEW t, Within(c, t), NEW k \in Nat, k < c \/ k = 0
  PROVE  /\ Within(c, Wrap(c, t + k))
         /\ c > 0 => Wrap(c, t + k) \in 0..(c - 1)
         /\ \A i \in Nat : k + i <= c => Wrap(c, Wrap(c, t + k) + i) = Wrap(c, t + (k + i))
BY DEF Wrap, Within

LEMMA WrapApart ==
  ASSUME NEW c \in Nat, NEW t, Within(c, t), NEW i \in Nat, NEW j \in Nat,
         i < c, j < c, Wrap(c, t + i) = Wrap(c, t + j)
  PROVE  i = j
BY DEF Wrap, Within

(* How length finds out.                                                   *)
LEMMA WrapLength ==
  ASSUME NEW c \in Nat, NEW t, Within(c, t), NEW k \in Nat, k < c \/ k = 0,
         NEW h, h = Wrap(c, t + k)
  PROVE  (IF h < t THEN c - t + h ELSE h - t) = k
BY DEF Wrap, Within

(* getEntry goes backwards.                                                *)
LEMMA WrapBack ==
  ASSUME NEW c \in Nat, NEW t, Within(c, t), NEW k \in Nat, k < c, NEW i \in 1..k,
         NEW h, h = Wrap(c, t + k)
  PROVE  (IF h - i < 0 THEN h - i + c ELSE h - i) = Wrap(c, t + (k - i))
BY DEF Wrap, Within

-----------------------------------------------------------------------------
(* The invariant: the slots from tail on hold the fields of q, the oldest  *)
(* first, and the others hold nothing.                                     *)
At(i) == Wrap(Count, tail + (i - 1))

Slots == 0..(MaxEntries(capacity) - 1)

Holds(q) ==
  /\ q \in Seq(HeaderFields)
  /\ capacity \in Nat
  /\ headerFields \in [Slots -> HeaderFields \cup {NoField}]
  /\ Within(Count, tail)
  /\ head = Wrap(Count, tail + Len(q))
  /\ \A i \in 1..Len(q) : headerFields[At(i)] = q[i]
  /\ \A x \in Slots : headerFields[x] # NoField => \E i \in 1..Len(q) : x = At(i)
  /\ size = Total(Sizes(q)) /\ size <= capacity

RingInv == \E q : Holds(q)

LEMMA CountIs ==
  ASSUME NEW c \in Nat, NEW S, NEW h \in [0..(MaxEntries(c) - 1) -> S]
  PROVE  Cardinality(DOMAIN h) = MaxEntries(c)
<1>1. DOMAIN h = 0..(MaxEntries(c) - 1) /\ MaxEntries(c) \in Nat
  BY MaxEntriesType
<1>2. Cardinality(0..(MaxEntries(c) - 1)) = MaxEntries(c)
  BY <1>1, FS_Interval
<1>3. QED
  BY <1>1, <1>2

Shaped(q) ==
  /\ Count = MaxEntries(capacity) /\ Count \in Nat
  /\ Len(q) \in Nat /\ (Len(q) < Count \/ Len(q) = 0)
  /\ length = Len(q)
  /\ \A i \in 1..Len(q) : Slot(i) = At(i) /\ At(i) \in Slots
  /\ \A i, j \in 1..Len(q) : At(i) = At(j) => i = j

LEMMA HoldsShape == \A q : Holds(q) => Shaped(q)
<1> SUFFICES ASSUME NEW q, Holds(q) PROVE Shaped(q)
  OBVIOUS
<1>1. Count = MaxEntries(capacity) /\ Count \in Nat
  <2>1. capacity \in Nat
        /\ headerFields \in [0..(MaxEntries(capacity) - 1) -> HeaderFields \cup {NoField}]
    BY DEF Holds, Slots
  <2>2. Cardinality(DOMAIN headerFields) = MaxEntries(capacity) /\ MaxEntries(capacity) \in Nat
    BY <2>1, CountIs, MaxEntriesType, Zenon
  <2>3. QED
    BY <2>2 DEF Count
<1>2. Len(q) \in Nat /\ (Len(q) < Count \/ Len(q) = 0)
  BY <1>1, RoomLeft DEF Holds
<1>3. Within(Count, tail) /\ head = Wrap(Count, tail + Len(q))
  BY DEF Holds
<1>4. length = Len(q)
  BY <1>1, <1>2, <1>3, WrapLength DEF length
<1>5. ASSUME NEW i \in 1..Len(q)
      PROVE  /\ Slot(i) = At(i) /\ At(i) \in Slots
             /\ i - 1 \in Nat /\ i - 1 < Count
  <2>1. i - 1 \in Nat /\ i - 1 < Count /\ Count > 0
    BY <1>1, <1>2
  <2>2. tail + i - 1 = tail + (i - 1)
    BY <1>3 DEF Within
  <2>3. At(i) \in 0..(Count - 1)
    BY <1>1, <1>3, <2>1, WrapRound DEF At
  <2>4. QED
    BY <1>1, <2>1, <2>2, <2>3 DEF Slot, Wrapped, At, Wrap, Slots
<1>6. ASSUME NEW i \in 1..Len(q), NEW j \in 1..Len(q), At(i) = At(j)
      PROVE  i = j
  <2>1. i - 1 = j - 1
    BY <1>1, <1>3, <1>5, <1>6, WrapApart DEF At
  <2>2. QED
    BY <2>1, <1>2
<1>7. QED
  BY <1>1, <1>2, <1>4, <1>5, <1>6 DEF Shaped

(* The invariant says what RingIsSound asks for.                           *)
LEMMA HoldsSizes ==
  ASSUME NEW q, Holds(q), NEW f, IsSum(f, Sizes(q)), NEW k \in 0..Len(q)
  PROVE  SizeOfOldest(k) = f[k]
<1>1. Shaped(q) /\ q \in Seq(HeaderFields)
  BY HoldsShape DEF Holds
<1> DEFINE p == [i \in 1..k |-> SizeOf(headerFields[Slot(i)])]
<1>2. k \in Nat /\ Len(q) \in Nat /\ k <= Len(q)
  BY <1>1 DEF Shaped
<1>3. ASSUME NEW i \in 1..k PROVE p[i] = Sizes(q)[i] /\ p[i] \in Nat
  <2>1. i \in 1..Len(q)
    BY <1>2
  <2>2. headerFields[Slot(i)] = q[i]
    BY <1>1, <2>1 DEF Shaped, Holds
  <2>3. Sizes(q)[i] = SizeOf(q[i]) /\ q[i] \in HeaderFields
    BY <1>1, <2>1, SizesType
  <2>4. QED
    BY <2>2, <2>3, FieldsAssumption
<1>4. p \in Seq(Nat) /\ Len(p) = k
  BY <1>2, <1>3
<1> HIDE DEF p
<1>5. Total(p) = f[k]
  <2>1. Sizes(q) \in Seq(Nat) /\ k \in 0..Len(Sizes(q))
    BY <1>1, SizesType
  <2>2. QED
    BY <2>1, <1>3, <1>4, TotalOfFirst
<1>6. QED
  BY <1>5 DEF p, SizeOfOldest

LEMMA HoldsIsSound == \A q : Holds(q) => RingIsSound
<1> SUFFICES ASSUME NEW q, Holds(q) PROVE RingIsSound
  OBVIOUS
<1>1. Shaped(q) /\ q \in Seq(HeaderFields) /\ DOMAIN headerFields = Slots
  BY HoldsShape DEF Holds
<1>2. size = SizeOfOldest(length) /\ size <= capacity
  <2>1. PICK f : IsSum(f, Sizes(q)) /\ Total(Sizes(q)) = f[Len(Sizes(q))]
    BY <1>1, SizesType, TotalIsSum
  <2>2. Len(Sizes(q)) = Len(q) /\ Len(q) \in 0..Len(q) /\ length = Len(q)
    BY <1>1, SizesType DEF Shaped
  <2>3. SizeOfOldest(Len(q)) = f[Len(q)]
    BY <2>1, <2>2, HoldsSizes
  <2>4. QED
    BY <2>1, <2>2, <2>3 DEF Holds
<1>3. ASSUME NEW i \in 1..length PROVE getEntry(i) # NoField
  <2>1. i \in 1..Len(q) /\ Len(q) \in Nat /\ Len(q) < Count /\ Count \in Nat
        /\ Len(q) + 1 - i \in 1..Len(q)
    BY <1>1 DEF Shaped
  <2>2. (IF head - i < 0 THEN head - i + Count ELSE head - i)
        = Wrap(Count, tail + (Len(q) - i))
    BY <2>1, WrapBack DEF Holds
  <2>3. (Len(q) + 1 - i) - 1 = Len(q) - i
    BY <2>1
  <2>4. getEntry(i) = headerFields[At(Len(q) + 1 - i)]
    BY <2>2, <2>3 DEF getEntry, At
  <2>5. getEntry(i) = q[Len(q) + 1 - i] /\ q[Len(q) + 1 - i] \in HeaderFields
    BY <1>1, <2>1, <2>4 DEF Holds
  <2>6. QED
    BY <2>5, FieldsAssumption
<1>4. length = Cardinality({x \in DOMAIN headerFields : headerFields[x] # NoField})
  <2> DEFINE S == 1..Len(q)
             T == {x \in DOMAIN headerFields : headerFields[x] # NoField}
             g == [i \in S |-> At(i)]
  <2>1. \A i \in S : At(i) \in T
    BY <1>1, FieldsAssumption DEF Shaped, Holds
  <2>2. \A x \in T : \E i \in S : x = At(i)
    BY <1>1 DEF Holds
  <2>3. \A i, j \in S : At(i) = At(j) => i = j
    BY <1>1 DEF Shaped
  <2>4. IsFiniteSet(S) /\ Cardinality(S) = Len(q)
    <3>1. PICK k \in Nat : k = Len(q)
      BY <1>1 DEF Shaped
    <3>2. 1 \in Int /\ k \in Int /\ (IF 1 > k THEN 0 ELSE k - 1 + 1) = k
      OBVIOUS
    <3>3. IsFiniteSet(1..k) /\ Cardinality(1..k) = k
      BY <3>2, FS_Interval, Zenon
    <3>4. QED
      BY <3>1, <3>3
  <2> HIDE DEF S, T
  <2>5. g \in Bijection(S, T)
    BY <2>1, <2>2, <2>3 DEF Bijection, Injection, Surjection, IsInjective
  <2>6. Cardinality(T) = Cardinality(S)
    BY <2>4, <2>5, FS_Bijection DEF ExistsBijection
  <2>7. QED
    BY <1>1, <2>4, <2>6 DEF T, Shaped
<1>5. QED
  BY <1>2, <1>3, <1>4 DEF RingIsSound

-----------------------------------------------------------------------------
(* Making room.                                                            *)

(* k is the least number of numbers, of m whose sums are f, that must go   *)
(* for the others to add up to no more than n.                             *)
Enough(f, m, n, k) ==
  /\ k \in 0..m
  /\ f[m] - f[k] <= n
  /\ \A j \in 0..(k - 1) : f[m] - f[j] > n

LEMMA EnoughExists ==
  ASSUME NEW m \in Nat, NEW n \in Nat, NEW f \in [0..m -> Nat]
  PROVE  \E k : Enough(f, m, n, k)
<1> DEFINE T == {k \in 0..m : f[m] - f[k] <= n}
<1>1. m \in T
  <2>1. m \in 0..m /\ f[m] \in Nat
    OBVIOUS
  <2>2. QED
    BY <2>1
<1>2. PICK k \in T : \A y \in T : k <= y
  <2>1. T \in SUBSET Nat /\ T # {}
    BY <1>1
  <2> HIDE DEF T
  <2>2. QED
    BY <2>1, LeastOf
<1>3. ASSUME NEW j \in 0..(k - 1) PROVE f[m] - f[j] > n
  <2>1. j \in 0..m /\ ~(k <= j) /\ m \in 0..m
    BY <1>2
  <2>2. j \notin T /\ f[j] \in Nat /\ f[m] \in Nat
    <3> HIDE DEF T
    <3>1. QED
      BY <1>2, <2>1
  <2>3. QED
    BY <2>1, <2>2
<1>4. QED
  BY <1>2, <1>3 DEF Enough

LEMMA EnoughUnique ==
  ASSUME NEW m \in Nat, NEW n \in Nat, NEW f \in [0..m -> Nat],
         NEW k, Enough(f, m, n, k), NEW l, Enough(f, m, n, l)
  PROVE  k = l
<1>1. k \in 0..m /\ l \in 0..m /\ f[k] \in Nat /\ f[l] \in Nat /\ f[m] \in Nat
  BY DEF Enough
<1>2. ~(k < l)
  BY <1>1 DEF Enough
<1>3. ~(l < k)
  BY <1>1 DEF Enough
<1>4. QED
  BY <1>1, <1>2, <1>3

LEMMA SurplusIs ==
  ASSUME NEW q, Holds(q), NEW f, IsSum(f, Sizes(q)), NEW n \in Nat
  PROVE  Enough(f, Len(q), n, Surplus(n))
<1> DEFINE m == Len(q)
           P(k) == /\ size - SizeOfOldest(k) <= n
                   /\ \A j \in 0..(k - 1) : size - SizeOfOldest(j) > n
<1>1. /\ m \in Nat /\ length = m /\ Len(Sizes(q)) = m /\ Sizes(q) \in Seq(Nat)
      /\ f \in [0..m -> Nat]
  BY HoldsShape, SizesType DEF Holds, Shaped, IsSum
<1>2. \A k \in 0..m : SizeOfOldest(k) = f[k]
  BY HoldsSizes
<1>3. size = f[m]
  BY <1>1, TotalIs DEF Holds, IsSum
<1>4. \A k \in 0..m : P(k) = Enough(f, m, n, k)
  <2> SUFFICES ASSUME NEW k \in 0..m PROVE P(k) = Enough(f, m, n, k)
    OBVIOUS
  <2>1. \A j \in 0..(k - 1) : SizeOfOldest(j) = f[j]
    BY <1>1, <1>2
  <2>2. SizeOfOldest(k) = f[k]
    BY <1>2
  <2>3. QED
    BY <1>3, <2>1, <2>2 DEF Enough
<1>5. PICK k : Enough(f, m, n, k)
  BY <1>1, EnoughExists
<1>6. k \in 0..m /\ P(k)
  <2>1. k \in 0..m
    BY <1>5 DEF Enough
  <2> HIDE DEF P
  <2>2. QED
    BY <2>1, <1>4, <1>5
<1>7. Surplus(n) = CHOOSE j \in 0..m : P(j)
  BY <1>1 DEF Surplus
<1> HIDE DEF P, m
<1>8. Surplus(n) \in 0..m /\ P(Surplus(n))
  BY <1>6, <1>7
<1>9. QED
  BY <1>4, <1>8 DEF m

(* What is left in the ring after k calls of remove: s.                    *)
Rest(q, k) == SubSeq(q, k + 1, Len(q))

Leaves(fields, t, sizes, s) ==
  /\ s \in Seq(HeaderFields)
  /\ fields \in [Slots -> HeaderFields \cup {NoField}]
  /\ Within(Count, t)
  /\ head = Wrap(Count, t + Len(s))
  /\ \A i \in 1..Len(s) : fields[Wrap(Count, t + (i - 1))] = s[i]
  /\ \A x \in Slots :
       fields[x] # NoField => \E i \in 1..Len(s) : x = Wrap(Count, t + (i - 1))
  /\ sizes = Total(Sizes(s))

LEMMA RestIs ==
  ASSUME NEW S, NEW q \in Seq(S), NEW k \in 0..Len(q)
  PROVE  /\ Rest(q, k) \in Seq(S) /\ Len(Rest(q, k)) = Len(q) - k
         /\ \A i \in 1..(Len(q) - k) : Rest(q, k)[i] = q[k + i]
<1>1. k + 1 \in 1..(Len(q) + 1) /\ Len(q) \in Nat /\ Len(q) \in 0..Len(q)
      /\ k \in Nat /\ k <= Len(q)
  OBVIOUS
<1>2. \A j \in (k + 1)..Len(q) : q[j] \in S
  BY <1>1
<1>3. QED
  BY <1>1, <1>2 DEF Rest

LEMMA RestTotal ==
  ASSUME NEW q \in Seq(HeaderFields), NEW f, IsSum(f, Sizes(q)), NEW k \in 0..Len(q)
  PROVE  Total(Sizes(Rest(q, k))) = f[Len(q)] - f[k]
<1> DEFINE s == Rest(q, k)
<1>1. s \in Seq(HeaderFields) /\ Len(s) = Len(q) - k /\ Len(q) \in Nat /\ k \in Nat
      /\ \A i \in 1..Len(s) : s[i] = q[k + i]
  BY RestIs
<1> HIDE DEF s
<1>2. Sizes(s) \in Seq(Nat) /\ Len(Sizes(s)) = Len(Sizes(q)) - k
      /\ Sizes(q) \in Seq(Nat) /\ Len(Sizes(q)) = Len(q)
  BY <1>1, SizesType
<1>3. ASSUME NEW i \in 1..Len(Sizes(s)) PROVE Sizes(s)[i] = Sizes(q)[k + i]
  <2>1. i \in 1..Len(s) /\ k + i \in 1..Len(q)
    BY <1>1, <1>2
  <2>2. Sizes(s)[i] = SizeOf(s[i]) /\ Sizes(q)[k + i] = SizeOf(q[k + i])
    BY <2>1, <1>1, SizesType
  <2>3. QED
    BY <2>1, <2>2, <1>1
<1>4. k \in 0..Len(Sizes(q))
  BY <1>2
<1>5. QED
  BY <1>2, <1>3, <1>4, TotalOfRest DEF s

LEMMA Removing ==
  ASSUME NEW q, Holds(q), NEW k \in 0..Len(q), NEW f, IsSum(f, Sizes(q))
  PROVE  /\ Leaves(Removed(k).fields, Removed(k).tail, Removed(k).size, Rest(q, k))
         /\ Removed(k).size = f[Len(q)] - f[k]
<1> DEFINE s == Rest(q, k)
           m == Len(q)
           t == Removed(k).tail
           fields == Removed(k).fields
<1>1. /\ Shaped(q) /\ q \in Seq(HeaderFields) /\ m \in Nat /\ Count \in Nat
      /\ k \in Nat /\ k <= m /\ (m < Count \/ m = 0) /\ Within(Count, tail)
      /\ DOMAIN headerFields = Slots /\ Slots = 0..(Count - 1)
  BY HoldsShape DEF Holds, Shaped, Slots
<1>2. /\ s \in Seq(HeaderFields) /\ Len(s) = m - k
      /\ \A i \in 1..(m - k) : s[i] = q[k + i]
  BY <1>1, RestIs
<1>3. t = Wrap(Count, tail + k)
  BY DEF Removed, Wrapped, Wrap
<1>4. /\ Removed(k).size = f[m] - f[k]
      /\ Removed(k).size = Total(Sizes(s))
  <2>1. Removed(k).size = size - SizeOfOldest(k)
    BY DEF Removed
  <2>2. SizeOfOldest(k) = f[k]
    BY HoldsSizes
  <2>3. size = f[m]
    <3>1. Sizes(q) \in Seq(Nat) /\ Len(Sizes(q)) = m /\ Adds(f, Sizes(q))
      BY <1>1, SizesType DEF IsSum
    <3>2. QED
      BY <3>1, TotalIs DEF Holds
  <2>4. Total(Sizes(s)) = f[m] - f[k]
    BY <1>1, RestTotal
  <2>5. QED
    BY <2>1, <2>2, <2>3, <2>4
<1>5. Within(Count, t)
  BY <1>1, <1>3, WrapRound
<1>6. ASSUME NEW i \in Nat, k + i <= m
      PROVE  Wrap(Count, t + i) = Wrap(Count, tail + (k + i))
  <2>1. k + i <= Count
    BY <1>1, <1>6
  <2>2. k < Count \/ k = 0
    BY <1>1
  <2>3. QED
    BY <1>1, <1>3, <2>1, <2>2, WrapRound
<1>7. head = Wrap(Count, t + Len(s))
  <2>1. m - k \in Nat /\ k + (m - k) = m
    BY <1>1
  <2>2. head = Wrap(Count, tail + m)
    BY DEF Holds
  <2>3. QED
    BY <2>1, <2>2, <1>2, <1>6
<1>8. fields = [x \in Slots |-> IF \E j \in 1..k : x = Slot(j) THEN NoField ELSE headerFields[x]]
  BY <1>1 DEF Removed
<1>9. ASSUME NEW i \in 1..(m - k)
      PROVE  /\ Wrap(Count, t + (i - 1)) = At(k + i) /\ k + i \in 1..m
  <2>1. i - 1 \in Nat /\ k + (i - 1) <= m /\ k + (i - 1) = (k + i) - 1 /\ k + i \in 1..m
    BY <1>1
  <2>2. QED
    BY <2>1, <1>6 DEF At
<1>10. /\ \A i \in 1..m : Slot(i) = At(i) /\ At(i) \in Slots
       /\ \A i, j \in 1..m : At(i) = At(j) => i = j
  BY <1>1 DEF Shaped
<1>11. fields \in [Slots -> HeaderFields \cup {NoField}]
  BY <1>8 DEF Holds
<1> HIDE DEF s, t, fields, m
<1>12. ASSUME NEW i \in 1..(m - k)
       PROVE  fields[Wrap(Count, t + (i - 1))] = s[i]
  <2>1. Wrap(Count, t + (i - 1)) = At(k + i) /\ k + i \in 1..m /\ At(k + i) \in Slots
    BY <1>9, <1>10
  <2>2. ~ \E j \in 1..k : At(k + i) = Slot(j)
    <3> SUFFICES ASSUME NEW j \in 1..k, At(k + i) = Slot(j) PROVE FALSE
      OBVIOUS
    <3>1. j \in 1..m /\ j # k + i
      BY <1>1
    <3>2. QED
      BY <3>1, <2>1, <1>10
  <2>3. headerFields[At(k + i)] = q[k + i]
    BY <2>1 DEF Holds, m
  <2>4. QED
    BY <2>1, <2>2, <2>3, <1>2, <1>8
<1>13. ASSUME NEW x \in Slots, fields[x] # NoField
       PROVE  \E i \in 1..(m - k) : x = Wrap(Count, t + (i - 1))
  <2>1. headerFields[x] # NoField /\ ~ \E j \in 1..k : x = Slot(j)
    BY <1>8, <1>13
  <2>2. PICK j \in 1..m : x = At(j)
    BY <2>1 DEF Holds, m
  <2>3. j - k \in 1..(m - k) /\ k + (j - k) = j
    <3>1. ~(j \in 1..k)
      BY <2>1, <2>2, <1>10
    <3>2. QED
      BY <3>1, <1>1
  <2>4. QED
    BY <2>2, <2>3, <1>9
<1>14. QED
  BY <1>2, <1>4, <1>5, <1>7, <1>11, <1>12, <1>13 DEF Leaves, s, t, fields, m

-----------------------------------------------------------------------------
(* The steps.                                                              *)

LEMMA NothingHeld ==
  /\ <<>> \in Seq(HeaderFields) /\ Len(<<>>) = 0
  /\ Total(Sizes(<<>>)) = 0
<1>1. <<>> \in Seq(HeaderFields) /\ Len(<<>>) = 0
  OBVIOUS
<1>2. Sizes(<<>>) \in Seq(Nat) /\ Len(Sizes(<<>>)) = 0
  BY <1>1, SizesType
<1>3. QED
  BY <1>1, <1>2, TotalEmpty

LEMMA OneMoreSize ==
  ASSUME NEW s \in Seq(HeaderFields), NEW x \in HeaderFields
  PROVE  /\ Append(s, x) \in Seq(HeaderFields) /\ Len(Append(s, x)) = Len(s) + 1
         /\ \A i \in 1..Len(s) : Append(s, x)[i] = s[i]
         /\ Append(s, x)[Len(s) + 1] = x
         /\ Total(Sizes(Append(s, x))) = Total(Sizes(s)) + SizeOf(x)
<1> DEFINE p == Append(s, x)
<1>1. /\ p \in Seq(HeaderFields) /\ Len(p) = Len(s) + 1 /\ Len(s) \in Nat
      /\ \A i \in 1..Len(s) : p[i] = s[i]
      /\ p[Len(s) + 1] = x
  OBVIOUS
<1> HIDE DEF p
<1>2. /\ Sizes(p) \in Seq(Nat) /\ Sizes(s) \in Seq(Nat)
      /\ Len(Sizes(p)) = Len(s) + 1 /\ Len(Sizes(s)) = Len(s)
  BY <1>1, SizesType
<1>3. \A i \in 1..Len(s) : Sizes(p)[i] = Sizes(s)[i]
  <2> SUFFICES ASSUME NEW i \in 1..Len(s) PROVE Sizes(p)[i] = Sizes(s)[i]
    OBVIOUS
  <2>1. i \in 1..Len(p)
    BY <1>1
  <2>2. Sizes(p)[i] = SizeOf(p[i]) /\ Sizes(s)[i] = SizeOf(s[i])
    BY <2>1, <1>1, SizesType
  <2>3. QED
    BY <2>2, <1>1
<1>4. Sizes(p)[Len(s) + 1] = SizeOf(x)
  <2>1. Len(s) + 1 \in 1..Len(p)
    BY <1>1
  <2>2. QED
    BY <2>1, <1>1, SizesType
<1>5. Begins(Sizes(s), Sizes(p))
  BY <1>1, <1>2, <1>3 DEF Begins
<1>6. Total(Sizes(p)) = Total(Sizes(s)) + SizeOf(x)
  BY <1>1, <1>2, <1>4, <1>5, TotalOfPart
<1>7. QED
  BY <1>1, <1>6 DEF p

LEMMA ClearHolds ==
  ASSUME NEW q, Holds(q), clear
  PROVE  Holds(<<>>)'
<1>1. /\ headerFields' = [x \in Slots |-> NoField] /\ DOMAIN headerFields = Slots
      /\ head' = 0 /\ tail' = 0 /\ size' = 0 /\ capacity' = capacity
  BY DEF clear, Holds
<1>2. Slots' = Slots /\ capacity \in Nat
  BY <1>1 DEF Slots, Holds
<1>3. Count' = Count /\ Count \in Nat
  <2>1. Shaped(q)
    BY HoldsShape
  <2>2. QED
    BY <1>1, <2>1 DEF Count, Shaped
<1>4. headerFields' \in [Slots -> HeaderFields \cup {NoField}]
  BY <1>1
<1>5. 0 = Wrap(Count, 0 + 0) /\ Within(Count, 0)
  BY <1>3 DEF Wrap, Within
<1>6. \A x \in Slots : headerFields'[x] = NoField
  BY <1>1
<1>7. 1..0 = {} /\ Len(<<>>) = 0
  OBVIOUS
<1>8. QED
  BY <1>1, <1>2, <1>3, <1>4, <1>5, <1>6, <1>7, NothingHeld DEF Holds

(* The new field goes behind what is left, into a slot that is free.       *)
LEMMA AddHolds ==
  ASSUME NEW q, Holds(q), NEW x \in HeaderFields, SizeOf(x) <= capacity, add(x),
         NEW k, k = Surplus(capacity - SizeOf(x))
  PROVE  Holds(Append(Rest(q, k), x))'
<1> DEFINE n == capacity - SizeOf(x)
           s == Rest(q, k)
           t == Removed(k).tail
           fields == Removed(k).fields
           p == Append(s, x)
           m == Len(s)
<1>1. capacity \in Nat /\ SizeOf(x) \in Nat /\ n \in Nat /\ x # NoField
  BY FieldsAssumption DEF Holds
<1>2. PICK f : IsSum(f, Sizes(q))
  BY SizesType, SumExists DEF Holds
<1>3. Enough(f, Len(q), n, k)
  BY <1>1, <1>2, SurplusIs
<1>4. k \in 0..Len(q) /\ f[Len(q)] - f[k] <= n
  BY <1>3 DEF Enough
<1>5. /\ Leaves(fields, t, Removed(k).size, s)
      /\ Removed(k).size = f[Len(q)] - f[k]
  BY <1>2, <1>4, Removing
<1>6. /\ headerFields' = [fields EXCEPT ![head] = x]
      /\ tail' = t /\ head' = Wrap(Count, head + 1)
      /\ size' = Removed(k).size + SizeOf(x)
      /\ capacity' = capacity
  BY <1>1 DEF add, Wrapped, Wrap
<1>7. /\ p \in Seq(HeaderFields) /\ Len(p) = m + 1 /\ m \in Nat
      /\ \A i \in 1..m : p[i] = s[i]
      /\ p[m + 1] = x
      /\ Total(Sizes(p)) = Total(Sizes(s)) + SizeOf(x)
      /\ Total(Sizes(s)) \in Nat
  <2>1. s \in Seq(HeaderFields)
    BY <1>5 DEF Leaves
  <2>2. QED
    BY <2>1, OneMoreSize, SizesType, TotalType
<1>8. size' = Total(Sizes(p)) /\ size' <= capacity
  <2>1. Removed(k).size = Total(Sizes(s))
    BY <1>5 DEF Leaves
  <2>2. Total(Sizes(s)) <= capacity - SizeOf(x)
    BY <1>4, <1>5, <2>1
  <2> HIDE DEF s, p, n
  <2>3. QED
    BY <1>1, <1>6, <1>7, <2>1, <2>2
<1> HIDE DEF s, p, n, t, fields, m
<1>9. /\ Count = MaxEntries(capacity) /\ Count \in Nat /\ Slots = 0..(Count - 1)
  BY HoldsShape DEF Shaped, Slots
<1>10. m + 1 < Count
  BY <1>1, <1>7, <1>8, <1>9, RoomLeft
<1>11. /\ Within(Count, t) /\ head = Wrap(Count, t + m) /\ head \in Slots
       /\ fields \in [Slots -> HeaderFields \cup {NoField}]
       /\ Wrap(Count, head + 1) = Wrap(Count, t + (m + 1))
  <2>1. Within(Count, t) /\ head = Wrap(Count, t + m)
        /\ fields \in [Slots -> HeaderFields \cup {NoField}]
    BY <1>5 DEF Leaves, m
  <2>2. QED
    BY <2>1, <1>7, <1>9, <1>10, WrapRound
<1>12. /\ Slots' = Slots /\ Count' = Count
       /\ headerFields' \in [Slots -> HeaderFields \cup {NoField}]
  <2>1. DOMAIN headerFields' = DOMAIN headerFields
    BY <1>6, <1>11 DEF Holds
  <2>2. QED
    BY <2>1, <1>6, <1>11 DEF Slots, Count
<1>13. ASSUME NEW i \in 1..(m + 1)
       PROVE  headerFields'[Wrap(Count, t + (i - 1))] = p[i]
  <2>0. m \in Nat /\ Count \in Nat /\ m + 1 < Count
    BY <1>7, <1>9, <1>10
  <2>1. i - 1 \in Nat /\ i - 1 < Count
    BY <2>0
  <2>2. Wrap(Count, t + (i - 1)) \in Slots
    BY <2>1, <1>9, <1>10, <1>11, WrapRound
  <2>3. CASE i = m + 1
    <3>1. i - 1 = m
      BY <2>3, <1>7
    <3>2. QED
      BY <3>1, <2>3, <1>6, <1>7, <1>11
  <2>4. CASE i # m + 1
    <3>1. i \in 1..m /\ m < Count
      BY <2>4, <2>0
    <3>2. Wrap(Count, t + (i - 1)) # head
      <4>1. i - 1 # m
        BY <3>1, <1>7
      <4>2. QED
        BY <4>1, <2>1, <3>1, <1>7, <1>9, <1>11, WrapApart
    <3>3. fields[Wrap(Count, t + (i - 1))] = s[i]
      BY <3>1, <1>5 DEF Leaves, m
    <3>4. QED
      BY <3>1, <3>2, <3>3, <2>2, <1>6, <1>7, <1>11
  <2>5. QED
    BY <2>3, <2>4
<1>14. ASSUME NEW y \in Slots, headerFields'[y] # NoField
       PROVE  \E i \in 1..(m + 1) : y = Wrap(Count, t + (i - 1))
  <2>1. CASE y = head
    <3>1. m + 1 \in 1..(m + 1) /\ (m + 1) - 1 = m
      BY <1>7
    <3>2. QED
      BY <3>1, <2>1, <1>11
  <2>2. CASE y # head
    <3>1. fields[y] # NoField
      BY <2>2, <1>6, <1>11, <1>14
    <3>2. PICK i \in 1..m : y = Wrap(Count, t + (i - 1))
      BY <3>1, <1>5 DEF Leaves, m
    <3>3. i \in 1..(m + 1)
      BY <1>7
    <3>4. QED
      BY <3>2, <3>3
  <2>3. QED
    BY <2>1, <2>2
<1>15. Holds(p)'
  <2>1. head' = Wrap(Count', tail' + Len(p))
    BY <1>6, <1>7, <1>11, <1>12
  <2>2. \A i \in 1..Len(p) : headerFields'[Wrap(Count', tail' + (i - 1))] = p[i]
    BY <1>6, <1>7, <1>12, <1>13
  <2>3. \A y \in Slots' : headerFields'[y] # NoField =>
          \E i \in 1..Len(p) : y = Wrap(Count', tail' + (i - 1))
    BY <1>6, <1>7, <1>12, <1>14
  <2>4. Within(Count', tail') /\ p \in Seq(HeaderFields) /\ capacity' \in Nat
        /\ headerFields' \in [Slots' -> HeaderFields \cup {NoField}]
    BY <1>1, <1>6, <1>7, <1>11, <1>12
  <2>5. size' = Total(Sizes(p)) /\ size' <= capacity'
    BY <1>6, <1>8
  <2>6. QED
    BY <2>1, <2>2, <2>3, <2>4, <2>5 DEF Holds, At
<1>16. QED
  BY <1>15 DEF p, s

LEMMA SameHolds ==
  ASSUME NEW q, Holds(q), UNCHANGED <<headerFields, head, tail, size, capacity>>
  PROVE  Holds(q)'
<1>1. Slots' = Slots /\ Count' = Count
  BY DEF Slots, Count
<1>2. \A i \in 1..Len(q) : headerFields'[Wrap(Count', tail' + (i - 1))] = q[i]
  BY <1>1 DEF Holds, At
<1>3. \A y \in Slots' : headerFields'[y] # NoField =>
        \E i \in 1..Len(q) : y = Wrap(Count', tail' + (i - 1))
  BY <1>1 DEF Holds, At
<1>4. QED
  BY <1>1, <1>2, <1>3 DEF Holds, At

(* What capacityChanged leaves to do when there was no room to be made.    *)
Resized(n, r, len) ==
  \/ /\ MaxEntries(n) = Count
     /\ headerFields' = r.fields /\ tail' = r.tail /\ head' = head
  \/ /\ MaxEntries(n) # Count
     /\ r.tail + len <= Count
     /\ headerFields' = [i \in 0..(MaxEntries(n) - 1) |->
                           IF i < len THEN r.fields[r.tail + i] ELSE NoField]
     /\ tail' = 0 /\ head' = len

LEMMA SetCapacityCases ==
  ASSUME NEW n \in Nat, setCapacity(n), NEW k, k = Surplus(n)
  PROVE  \/ UNCHANGED <<headerFields, head, tail, size, capacity>>
         \/ /\ capacity' = n /\ size' = Removed(k).size
            /\ Resized(n, Removed(k), length - k)
BY DEF setCapacity, ring, Resized

(* The entries keep their order, or come to the front of a new array.      *)
LEMMA ResizeHolds ==
  ASSUME NEW q, Holds(q), NEW n \in Nat, NEW k, k = Surplus(n),
         capacity' = n, size' = Removed(k).size,
         Resized(n, Removed(k), length - k)
  PROVE  Holds(Rest(q, k))'
<1> DEFINE s == Rest(q, k)
           t == Removed(k).tail
           fields == Removed(k).fields
           m == Len(s)
<1>1. PICK f : IsSum(f, Sizes(q))
  BY SizesType, SumExists DEF Holds
<1>2. k \in 0..Len(q) /\ f[Len(q)] - f[k] <= n
  BY <1>1, SurplusIs DEF Enough
<1>3. /\ Leaves(fields, t, Removed(k).size, s)
      /\ Removed(k).size = f[Len(q)] - f[k]
  BY <1>1, <1>2, Removing
<1>4. /\ Count \in Nat /\ Slots = 0..(Count - 1) /\ length = Len(q) /\ Len(q) \in Nat
  BY HoldsShape DEF Shaped, Slots
<1>5. s \in Seq(HeaderFields) /\ m = length - k /\ m \in Nat
  BY <1>2, <1>4, RestIs DEF Holds
<1>6. size' = Total(Sizes(s)) /\ size' <= n
  BY <1>2, <1>3 DEF Leaves
<1>7. (m = 0 \/ m < MaxEntries(n)) /\ MaxEntries(n) \in Nat
  BY <1>5, <1>6, RoomLeft, MaxEntriesType
<1>8. Slots' = 0..(MaxEntries(n) - 1)
  BY DEF Slots
<1> HIDE DEF s, t, fields, m
<1>9. /\ Within(Count, t) /\ head = Wrap(Count, t + m)
      /\ fields \in [Slots -> HeaderFields \cup {NoField}]
      /\ \A i \in 1..m : fields[Wrap(Count, t + (i - 1))] = s[i]
      /\ \A x \in Slots : fields[x] # NoField => \E i \in 1..m : x = Wrap(Count, t + (i - 1))
  BY <1>3 DEF Leaves, m
<1>10. ASSUME /\ Count' = MaxEntries(n)
              /\ headerFields' \in [0..(MaxEntries(n) - 1) -> HeaderFields \cup {NoField}]
              /\ Within(Count', tail') /\ head' = Wrap(Count', tail' + m)
              /\ \A i \in 1..m : headerFields'[Wrap(Count', tail' + (i - 1))] = s[i]
              /\ \A x \in Slots' : headerFields'[x] # NoField =>
                   \E i \in 1..m : x = Wrap(Count', tail' + (i - 1))
       PROVE  Holds(s)'
  BY <1>5, <1>6, <1>8, <1>10 DEF Holds, At, m
<1>11. CASE /\ MaxEntries(n) = Count
            /\ headerFields' = fields /\ tail' = t /\ head' = head
  <2>1. Count' = Count /\ Slots' = Slots
    BY <1>4, <1>8, <1>9, <1>11 DEF Count, Holds
  <2>2. QED
    BY <1>4, <1>8, <1>9, <1>10, <1>11, <2>1 DEF s
<1>12. CASE /\ MaxEntries(n) # Count
            /\ t + m <= Count
            /\ headerFields' = [i \in 0..(MaxEntries(n) - 1) |->
                                  IF i < m THEN fields[t + i] ELSE NoField]
            /\ tail' = 0 /\ head' = m
  <2>1. ASSUME NEW i \in 0..(m - 1)
        PROVE  /\ t + i \in Slots /\ t + i = Wrap(Count, t + ((i + 1) - 1)) /\ i + 1 \in 1..m
               /\ fields[t + i] = s[i + 1] /\ s[i + 1] \in HeaderFields
    <3>1. t \in Nat /\ t + i < Count /\ t + i \in Slots /\ i + 1 \in 1..m /\ (i + 1) - 1 = i
      BY <1>4, <1>5, <1>9, <1>12 DEF Within
    <3>2. t + i = Wrap(Count, t + ((i + 1) - 1))
      BY <3>1 DEF Wrap
    <3>3. fields[t + i] = s[i + 1]
      BY <3>1, <3>2, <1>9
    <3>4. s[i + 1] \in HeaderFields
      BY <3>1, <1>5 DEF m
    <3>5. QED
      BY <3>1, <3>2, <3>3, <3>4
  <2>2. headerFields' \in [0..(MaxEntries(n) - 1) -> HeaderFields \cup {NoField}]
    <3>1. \A i \in 0..(MaxEntries(n) - 1) : i < m => i \in 0..(m - 1)
      BY <1>5, <1>7
    <3>2. QED
      BY <3>1, <2>1, <1>12
  <2>3. Count' = MaxEntries(n)
    BY <2>2, CountIs DEF Count
  <2>4. Within(Count', tail') /\ head' = Wrap(Count', tail' + m)
    BY <2>3, <1>5, <1>7, <1>12 DEF Within, Wrap
  <2>5. ASSUME NEW i \in 1..m
        PROVE  /\ Wrap(Count', tail' + (i - 1)) = i - 1
               /\ headerFields'[i - 1] = s[i]
    <3>1. i - 1 \in 0..(m - 1) /\ i - 1 \in 0..(MaxEntries(n) - 1) /\ (i - 1) + 1 = i
          /\ i - 1 < m
      BY <1>5, <1>7
    <3>2. Wrap(Count', tail' + (i - 1)) = i - 1
      BY <3>1, <2>3, <1>7, <1>12 DEF Wrap
    <3>3. headerFields'[i - 1] = fields[t + (i - 1)]
      BY <3>1, <1>12
    <3>4. QED
      BY <3>1, <3>2, <3>3, <2>1
  <2>6. ASSUME NEW x \in Slots', headerFields'[x] # NoField
        PROVE  \E i \in 1..m : x = Wrap(Count', tail' + (i - 1))
    <3>1. x < m /\ x \in Nat
      BY <2>6, <1>7, <1>8, <1>12
    <3>2. x + 1 \in 1..m /\ (x + 1) - 1 = x
      BY <3>1, <1>5
    <3>3. QED
      BY <3>2, <2>5
  <2>7. QED
    BY <2>2, <2>3, <2>4, <2>5, <2>6, <1>10 DEF s
<1>13. QED
  BY <1>5, <1>11, <1>12 DEF Resized, s, t, fields

LEMMA RingInvInit == (\E n \in Nat : TableInit(n)) => RingInv
<1> SUFFICES ASSUME NEW n \in Nat, TableInit(n) PROVE Holds(<<>>)
  BY DEF RingInv
<1>1. /\ headerFields = [i \in 0..(MaxEntries(n) - 1) |-> NoField]
      /\ head = 0 /\ tail = 0 /\ size = 0 /\ capacity = n
  BY DEF TableInit
<1>2. Slots = 0..(MaxEntries(n) - 1)
  BY <1>1 DEF Slots
<1>3. headerFields \in [Slots -> HeaderFields \cup {NoField}]
      /\ \A x \in Slots : headerFields[x] = NoField
  BY <1>1, <1>2
<1>4. Count = MaxEntries(n) /\ Count \in Nat
  <2>1. headerFields \in [0..(MaxEntries(n) - 1) -> HeaderFields \cup {NoField}]
    BY <1>2, <1>3
  <2>2. Cardinality(DOMAIN headerFields) = MaxEntries(n)
    BY <2>1, CountIs
  <2>3. QED
    BY <2>2, MaxEntriesType DEF Count
<1>5. 0 = Wrap(Count, 0 + 0) /\ Within(Count, 0)
  BY <1>4 DEF Wrap, Within
<1>6. 1..0 = {} /\ Len(<<>>) = 0
  OBVIOUS
<1>7. QED
  <2>1. \A i \in 1..Len(<<>>) : FALSE
    BY <1>6
  <2>2. head = Wrap(Count, tail + Len(<<>>)) /\ Within(Count, tail)
    BY <1>1, <1>5, <1>6
  <2>3. size = Total(Sizes(<<>>)) /\ size <= capacity /\ capacity \in Nat
    BY <1>1, NothingHeld
  <2>4. QED
    BY <1>3, <2>1, <2>2, <2>3, NothingHeld DEF Holds

LEMMA RingInvStep == RingInv /\ [TableStep]_ring => RingInv'
<1> SUFFICES ASSUME NEW q, Holds(q), [TableStep]_ring
             PROVE  \E p : Holds(p)'
  BY DEF RingInv
<1>1. CASE UNCHANGED ring
  BY <1>1, SameHolds DEF ring
<1>2. CASE clear
  BY <1>2, ClearHolds
<1>3. ASSUME NEW x \in HeaderFields, add(x)
      PROVE  \E p : Holds(p)'
  <2>1. CASE SizeOf(x) <= capacity
    <3>1. PICK k : k = Surplus(capacity - SizeOf(x))
      OBVIOUS
    <3>2. QED
      BY <2>1, <3>1, <1>3, AddHolds
  <2>2. CASE ~(SizeOf(x) <= capacity)
    <3>1. SizeOf(x) > capacity
      BY <2>2, FieldsAssumption DEF Holds
    <3>2. QED
      BY <3>1, <1>3, ClearHolds DEF add
  <2>3. QED
    BY <2>1, <2>2
<1>4. ASSUME NEW n \in Nat, setCapacity(n)
      PROVE  \E p : Holds(p)'
  <2>1. PICK k : k = Surplus(n)
    OBVIOUS
  <2>2. QED
    BY <2>1, <1>4, SetCapacityCases, SameHolds, ResizeHolds
<1>5. QED
  BY <1>1, <1>2, <1>3, <1>4 DEF TableStep

(* For any capacities, any fields with some text and any caller: the ring  *)
(* counts its entries right, whatever wraps around its end, and never says *)
(* that it is smaller or larger than its fields.                           *)
THEOREM RingsAreSound == TableSpec => []RingIsSound
<1>1. RingInv => RingIsSound
  BY HoldsIsSound DEF RingInv
<1>2. TableSpec => []RingInv
  BY RingInvInit, RingInvStep, PTL DEF TableSpec
<1>3. QED
  BY <1>1, <1>2, PTL

-----------------------------------------------------------------------------
(* The table of HeaderTable that the ring implements: the newest first.    *)

Mirror(q) == [i \in 1..Len(q) |-> q[Len(q) + 1 - i]]

LEMMA MirrorIs ==
  ASSUME NEW S, NEW q \in Seq(S)
  PROVE  /\ Mirror(q) \in Seq(S) /\ Len(Mirror(q)) = Len(q) /\ Len(q) \in Nat
         /\ DOMAIN Mirror(q) = 1..Len(q)
         /\ \A i \in 1..Len(q) : Mirror(q)[i] = q[Len(q) + 1 - i]
<1>1. Len(q) \in Nat /\ \A i \in 1..Len(q) : Len(q) + 1 - i \in 1..Len(q) /\ q[i] \in S
  OBVIOUS
<1>2. \A i \in 1..Len(q) : q[Len(q) + 1 - i] \in S
  BY <1>1
<1>3. QED
  BY <1>1, <1>2 DEF Mirror

LEMMA MirrorAppend ==
  ASSUME NEW S, NEW q \in Seq(S), NEW x \in S
  PROVE  Mirror(Append(q, x)) = <<x>> \o Mirror(q)
<1> DEFINE p == Append(q, x)
           m == Mirror(q)
           r == <<x>> \o m
<1>1. /\ p \in Seq(S) /\ Len(p) = Len(q) + 1 /\ Len(q) \in Nat
      /\ \A i \in 1..Len(q) : p[i] = q[i]
      /\ p[Len(q) + 1] = x
  OBVIOUS
<1>2. /\ m \in Seq(S) /\ Len(m) = Len(q)
      /\ \A i \in 1..Len(q) : m[i] = q[Len(q) + 1 - i]
  BY MirrorIs
<1> HIDE DEF p, m
<1>3. /\ r \in Seq(S) /\ Len(r) = Len(q) + 1 /\ r[1] = x
      /\ \A i \in 2..(Len(q) + 1) : r[i] = m[i - 1]
  <2>1. <<x>> \in Seq(S) /\ Len(<<x>>) = 1 /\ <<x>>[1] = x
    OBVIOUS
  <2>2. QED
    BY <2>1, <1>1, <1>2, ConcatProperties
<1>4. /\ Mirror(p) \in Seq(S) /\ Len(Mirror(p)) = Len(q) + 1
      /\ \A i \in 1..(Len(q) + 1) : Mirror(p)[i] = p[(Len(q) + 1) + 1 - i]
  BY <1>1, MirrorIs
<1> HIDE DEF r
<1>5. ASSUME NEW i \in 1..(Len(q) + 1)
      PROVE  Mirror(p)[i] = r[i]
  <2>1. CASE i = 1
    <3>1. (Len(q) + 1) + 1 - i = Len(q) + 1
      BY <2>1, <1>1
    <3>2. QED
      BY <3>1, <2>1, <1>1, <1>3, <1>4
  <2>2. CASE i # 1
    <3>1. /\ i \in 2..(Len(q) + 1) /\ i - 1 \in 1..Len(q)
          /\ (Len(q) + 1) + 1 - i = Len(q) + 1 - (i - 1)
          /\ Len(q) + 1 - (i - 1) \in 1..Len(q)
      BY <2>2, <1>1
    <3>2. r[i] = q[Len(q) + 1 - (i - 1)]
      BY <3>1, <1>2, <1>3
    <3>3. Mirror(p)[i] = p[Len(q) + 1 - (i - 1)]
      BY <3>1, <1>4
    <3>4. QED
      BY <3>1, <3>2, <3>3, <1>1
  <2>3. QED
    BY <2>1, <2>2
<1>6. Mirror(p) = r
  BY <1>1, <1>3, <1>4, <1>5, SeqEqual
<1>7. QED
  BY <1>6 DEF p, r, m

LEMMA MirrorEmpty == Mirror(<<>>) = <<>>
<1>1. <<>> \in Seq({}) /\ Len(<<>>) = 0
  OBVIOUS
<1>2. Mirror(<<>>) \in Seq({}) /\ Len(Mirror(<<>>)) = 0
  BY <1>1, MirrorIs
<1>3. QED
  BY <1>2

EntriesMirror == \A q : Holds(q) => Entries = Mirror(q)

LEMMA EntriesAre == EntriesMirror
<1> SUFFICES ASSUME NEW q, Holds(q) PROVE Entries = Mirror(q)
  BY DEF EntriesMirror
<1>1. Shaped(q)
  BY HoldsShape
<1>2. ASSUME NEW i \in 1..Len(q) PROVE getEntry(i) = q[Len(q) + 1 - i]
  <2>1. i \in 1..Len(q) /\ Len(q) \in Nat /\ Len(q) < Count /\ Count \in Nat
        /\ Len(q) + 1 - i \in 1..Len(q) /\ (Len(q) + 1 - i) - 1 = Len(q) - i
    BY <1>1 DEF Shaped
  <2>2. (IF head - i < 0 THEN head - i + Count ELSE head - i)
        = Wrap(Count, tail + (Len(q) - i))
    BY <2>1, WrapBack DEF Holds
  <2>3. getEntry(i) = headerFields[At(Len(q) + 1 - i)]
    BY <2>1, <2>2 DEF getEntry, At
  <2>4. QED
    BY <2>1, <2>3 DEF Holds
<1>3. QED
  BY <1>1, <1>2 DEF Entries, Mirror, Shaped

(* Fit keeps as many of the newest entries as removing leaves.             *)
LEMMA TotalIsTotal == \A q : Table!Total(q) = Total(q)
BY DEF Table!Total, Total

LEMMA NewestTotal ==
  ASSUME NEW q \in Seq(HeaderFields), NEW f, IsSum(f, Sizes(q)), NEW j \in 0..Len(q)
  PROVE  Table!SizeOfAll(SubSeq(Mirror(q), 1, j)) = f[Len(q)] - f[Len(q) - j]
<1> DEFINE w == SubSeq(Mirror(q), 1, j)
           p == [i \in DOMAIN w |-> SizeOf(w[i])]
<1>1. /\ Mirror(q) \in Seq(HeaderFields) /\ Len(Mirror(q)) = Len(q) /\ Len(q) \in Nat
      /\ \A i \in 1..Len(q) : Mirror(q)[i] = q[Len(q) + 1 - i]
  BY MirrorIs
<1>2. /\ w \in Seq(HeaderFields) /\ Len(w) = j /\ DOMAIN w = 1..j /\ j \in Nat
      /\ \A i \in 1..j : w[i] = Mirror(q)[i]
  <2> DEFINE r == Mirror(q)
  <2>1. r \in Seq(HeaderFields) /\ Len(r) \in Nat /\ j \in 0..Len(r)
    BY <1>1
  <2> HIDE DEF r
  <2>2. \A i \in 1..j : r[i] \in HeaderFields
    BY <2>1
  <2>3. /\ SubSeq(r, 1, j) \in Seq(HeaderFields) /\ Len(SubSeq(r, 1, j)) = j
        /\ DOMAIN SubSeq(r, 1, j) = 1..j /\ j \in Nat
        /\ \A i \in 1..j : SubSeq(r, 1, j)[i] = r[i]
    BY <2>1, <2>2
  <2>4. QED
    BY <2>3 DEF r
<1> HIDE DEF w
<1>3. ASSUME NEW i \in 1..j
      PROVE  p[i] = Sizes(q)[Len(q) + 1 - i] /\ p[i] \in Nat
  <2>1. i \in 1..Len(q) /\ Len(q) + 1 - i \in 1..Len(q)
    BY <1>1
  <2>2. w[i] = q[Len(q) + 1 - i]
    BY <2>1, <1>1, <1>2
  <2>3. Sizes(q)[Len(q) + 1 - i] = SizeOf(q[Len(q) + 1 - i]) /\ q[Len(q) + 1 - i] \in HeaderFields
    BY <2>1, SizesType
  <2>4. QED
    BY <2>2, <2>3, <1>2, FieldsAssumption
<1>4. p \in Seq(Nat) /\ Len(p) = j
  BY <1>2, <1>3
<1> HIDE DEF p
<1>5. Sizes(q) \in Seq(Nat) /\ Len(Sizes(q)) = Len(q)
  BY SizesType
<1>6. Total(p) = f[Len(q)] - f[Len(q) - j]
  <2> DEFINE z == Sizes(q)
  <2>1. /\ z \in Seq(Nat) /\ Len(z) = Len(q) /\ IsSum(f, z) /\ j \in 0..Len(z)
        /\ \A i \in 1..j : p[i] = z[Len(z) + 1 - i]
    BY <1>3, <1>5
  <2> HIDE DEF z
  <2>2. Total(p) = f[Len(z)] - f[Len(z) - j]
    BY <2>1, <1>4, TotalOfLast
  <2>3. QED
    BY <2>1, <2>2
<1>7. Table!SizeOfAll(w) = Table!Total(p)
  BY DEF Table!SizeOfAll, p
<1>8. QED
  BY <1>6, <1>7, TotalIsTotal DEF w

LEMMA FitIs ==
  ASSUME NEW q \in Seq(HeaderFields), NEW f, IsSum(f, Sizes(q)), NEW n \in Nat,
         NEW k, Enough(f, Len(q), n, k)
  PROVE  Table!Fit(Mirror(q), n) = Mirror(Rest(q, k))
<1> DEFINE M == Mirror(q)
           L == Len(q)
           T == {j \in 0..Len(M) : Table!SizeOfAll(SubSeq(M, 1, j)) <= n}
           c == CHOOSE j \in T : \A i \in T : i <= j
<1>1. /\ M \in Seq(HeaderFields) /\ Len(M) = L /\ L \in Nat
      /\ \A i \in 1..L : M[i] = q[L + 1 - i]
  BY MirrorIs
<1>2. k \in 0..L /\ k \in Nat /\ L - k \in 0..L /\ L - (L - k) = k
  BY <1>1 DEF Enough
<1>3. \A j \in 0..L : Table!SizeOfAll(SubSeq(M, 1, j)) = f[L] - f[L - j]
  BY NewestTotal
<1> HIDE DEF M, L
<1>4. L - k \in T
  BY <1>1, <1>2, <1>3 DEF Enough, L
<1>5. ASSUME NEW j \in T PROVE j <= L - k
  <2>1. j \in 0..L /\ f[L] - f[L - j] <= n
    BY <1>1, <1>3
  <2>2. ~(L - j \in 0..(k - 1))
    <3>1. ASSUME L - j \in 0..(k - 1) PROVE FALSE
      <4>1. f[L] - f[L - j] > n
        BY <3>1 DEF Enough, L
      <4>2. f[L] \in Nat /\ f[L - j] \in Nat
        <5>1. f \in [0..L -> Nat]
          BY SizesType DEF IsSum, L
        <5>2. L - j \in 0..L /\ L \in 0..L
          BY <2>1, <1>1
        <5>3. QED
          BY <5>1, <5>2
      <4>3. QED
        BY <4>1, <4>2, <2>1
    <3>2. QED
      BY <3>1
  <2>3. QED
    BY <2>1, <2>2, <1>1, <1>2
<1> HIDE DEF T
<1>6. c \in T /\ \A i \in T : i <= c
  BY <1>4, <1>5
<1>7. c = L - k
  <2>1. c <= L - k /\ L - k <= c
    BY <1>4, <1>5, <1>6
  <2>2. c \in 0..L
    BY <1>1, <1>6 DEF T
  <2> HIDE DEF c
  <2>3. QED
    BY <2>1, <2>2, <1>1, <1>2
<1>8. Table!Fit(M, n) = SubSeq(M, 1, c)
  BY DEF Table!Fit, T
<1>9. SubSeq(M, 1, L - k) = Mirror(Rest(q, k))
  <2> DEFINE A == SubSeq(M, 1, L - k)
             s == Rest(q, k)
             B == Mirror(s)
  <2>1. \A i \in 1..(L - k) : M[i] \in HeaderFields
    BY <1>1, <1>2
  <2>2. /\ A \in Seq(HeaderFields) /\ Len(A) = L - k
        /\ \A i \in 1..(L - k) : A[i] = M[i]
    BY <1>1, <1>2, <2>1
  <2>3. /\ s \in Seq(HeaderFields) /\ Len(s) = L - k
        /\ \A i \in 1..(L - k) : s[i] = q[k + i]
    BY <1>2, RestIs DEF L
  <2> HIDE DEF A, s
  <2>4. /\ B \in Seq(HeaderFields) /\ Len(B) = L - k
        /\ \A i \in 1..(L - k) : B[i] = s[L - k + 1 - i]
    BY <2>3, MirrorIs
  <2> HIDE DEF B
  <2>5. ASSUME NEW i \in 1..(L - k) PROVE A[i] = B[i]
    <3>1. /\ L - k + 1 - i \in 1..(L - k) /\ k + (L - k + 1 - i) = L + 1 - i /\ i \in 1..L
      BY <1>1, <1>2
    <3>2. s[L - k + 1 - i] = q[L + 1 - i]
      BY <3>1, <2>3
    <3>3. QED
      BY <3>1, <3>2, <2>2, <2>4, <1>1
  <2>6. A = B
    BY <2>2, <2>4, <2>5, SeqEqual
  <2>7. QED
    BY <2>6 DEF A, B, s
<1>10. QED
  <2>1. Table!Fit(M, n) = Mirror(Rest(q, k))
    BY <1>7, <1>8, <1>9
  <2>2. QED
    BY <2>1 DEF M

LEMMA FIFOInit == (\E n \in Nat : TableInit(n)) => Table!Init
<1> SUFFICES ASSUME NEW n \in Nat, TableInit(n) PROVE Table!Init
  OBVIOUS
<1>1. head = 0 /\ tail = 0 /\ capacity = n
  BY DEF TableInit
<1>2. length = 0
  BY <1>1 DEF length
<1>3. Entries = <<>>
  <2>1. 1..0 = {}
    OBVIOUS
  <2>2. Entries \in [1..0 -> {}]
    BY <1>2, <2>1 DEF Entries
  <2>3. QED
    BY <2>2
<1>4. QED
  BY <1>1, <1>3 DEF Table!Init

LEMMA EntriesNext == EntriesMirror'
BY EntriesAre, PTL

LEMMA FIFOStep == RingInv /\ [TableStep]_ring => [Table!Next]_<<Entries, capacity>>
<1> SUFFICES ASSUME NEW q, Holds(q), [TableStep]_ring
             PROVE  [Table!Next]_<<Entries, capacity>>
  BY DEF RingInv
<1>1. Entries = Mirror(q) /\ q \in Seq(HeaderFields) /\ capacity \in Nat
  BY EntriesAre DEF EntriesMirror, Holds
<1>2. \A p : Holds(p)' => Entries' = Mirror(p)
  BY EntriesNext DEF EntriesMirror
<1>3. ASSUME UNCHANGED <<headerFields, head, tail, size, capacity>>
      PROVE  UNCHANGED <<Entries, capacity>>
  <2>1. Holds(q)'
    BY <1>3, SameHolds
  <2>2. QED
    BY <1>1, <1>2, <1>3, <2>1
<1>4. ASSUME clear PROVE Table!Next
  <2>1. Holds(<<>>)'
    BY <1>4, ClearHolds
  <2>2. Entries' = <<>> /\ capacity' = capacity
    BY <1>2, <1>4, <2>1, MirrorEmpty DEF clear
  <2>3. Table!Clear
    BY <2>2 DEF Table!Clear
  <2>4. QED
    BY <2>3 DEF Table!Next
<1>5. PICK f : IsSum(f, Sizes(q))
  BY <1>1, SizesType, SumExists
<1>6. ASSUME NEW x \in HeaderFields, add(x), SizeOf(x) <= capacity
      PROVE  Table!Next
  <2>1. PICK k : k = Surplus(capacity - SizeOf(x))
    OBVIOUS
  <2>2. capacity - SizeOf(x) \in Nat /\ capacity' = capacity
    BY <1>1, <1>6, FieldsAssumption DEF add
  <2>3. Enough(f, Len(q), capacity - SizeOf(x), k)
    BY <2>1, <2>2, <1>5, SurplusIs
  <2>4. Table!Fit(Entries, capacity - SizeOf(x)) = Mirror(Rest(q, k))
    BY <2>2, <2>3, <1>1, <1>5, FitIs
  <2>5. Entries' = Mirror(Append(Rest(q, k), x))
    BY <2>1, <1>2, <1>6, AddHolds
  <2>6. Rest(q, k) \in Seq(HeaderFields)
    BY <2>3, <1>1, RestIs DEF Enough
  <2>7. Entries' = <<x>> \o Mirror(Rest(q, k))
    BY <2>5, <2>6, MirrorAppend
  <2>8. Entries' # <<>> /\ Head(Entries') = x
    <3> DEFINE r == Mirror(Rest(q, k))
    <3>1. r \in Seq(HeaderFields)
      BY <2>6, MirrorIs
    <3> HIDE DEF r
    <3>2. <<x>> \o r # <<>> /\ Head(<<x>> \o r) = x
      BY <3>1
    <3>3. QED
      BY <3>2, <2>7 DEF r
  <2>9. ~(SizeOf(x) > capacity)
    BY <1>1, <1>6, FieldsAssumption
  <2>10. Table!Insert(x)
    BY <2>2, <2>4, <2>7, <2>9 DEF Table!Insert
  <2>11. QED
    BY <2>8, <2>10 DEF Table!Next
<1>7. ASSUME NEW x \in HeaderFields, add(x), ~(SizeOf(x) <= capacity)
      PROVE  Table!Next
  <2>1. SizeOf(x) > capacity
    BY <1>1, <1>7, FieldsAssumption
  <2>2. QED
    BY <2>1, <1>4, <1>7 DEF add
<1>8. ASSUME NEW n \in Nat, setCapacity(n)
      PROVE  [Table!Next]_<<Entries, capacity>>
  <2>1. PICK k : k = Surplus(n)
    OBVIOUS
  <2>2. CASE UNCHANGED <<headerFields, head, tail, size, capacity>>
    BY <2>2, <1>3
  <2>3. CASE /\ capacity' = n /\ size' = Removed(k).size
             /\ Resized(n, Removed(k), length - k)
    <3>1. Entries' = Mirror(Rest(q, k))
      BY <2>1, <2>3, <1>2, ResizeHolds
    <3>2. Table!Fit(Entries, n) = Mirror(Rest(q, k))
      BY <2>1, <1>1, <1>5, SurplusIs, FitIs
    <3>3. Table!Resize(capacity') /\ capacity' \in Nat
      BY <2>3, <3>1, <3>2 DEF Table!Resize
    <3>4. QED
      BY <3>3 DEF Table!Next
  <2>4. QED
    BY <2>1, <2>2, <2>3, <1>8, SetCapacityCases
<1>9. QED
  BY <1>3, <1>4, <1>6, <1>7, <1>8 DEF TableStep, ring

(* For any capacities, any fields with some text and any caller: the ring  *)
(* is a table of HeaderTable, first in and first out, that drops exactly   *)
(* the fields that have no more room.                                      *)
THEOREM TablesAreFIFO == TableSpec => TableIsFIFO
<1>1. TableSpec => []RingInv
  BY RingInvInit, RingInvStep, PTL DEF TableSpec
<1>2. TableSpec => Table!Spec
  BY <1>1, FIFOInit, FIFOStep, PTL DEF TableSpec, Table!Spec, Table!vars
<1>3. QED
  BY <1>2 DEF TableIsFIFO

=============================================================================
