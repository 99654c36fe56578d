----------------------------- MODULE DataLemmas -----------------------------
(***************************************************************************)
(* Lemmas about numbers, totals and joins that the proofs of the           *)
(* components use.                                                         *)
(* What other proofs do by induction on a number n goes here by a least    *)
(* counterexample: the set of the numbers for which a statement fails has  *)
(* a least element, or is empty.                                           *)
(***************************************************************************)
EXTENDS Totals, Integers, SequenceTheorems, WellFoundedInduction, TLAPS

(* A set of numbers has a least one.                                       *)
LEMMA LeastOf ==
  ASSUME NEW T \in SUBSET Nat, T # {}
  PROVE  \E x \in T : \A y \in T : x <= y
<1> DEFINE R == OpToRel(<, Nat)
<1>1. IsWellFoundedOn(R, Nat)
  BY NatLessThanWellFounded
<1>2. \E x \in T : \A y \in T : ~ (<<y, x>> \in R)
  <2> HIDE DEF R
  <2> QED
    BY <1>1, WFMin
<1>3. \E x \in T : \A y \in T : ~(y < x)
  BY <1>2 DEF OpToRel
<1> QED
  BY <1>3

-----------------------------------------------------------------------------
(* f[n] is the sum of the first n numbers of q.                            *)
Adds(f, q) == f[0] = 0 /\ \A n \in 1..Len(q) : f[n] = f[n - 1] + q[n]

IsSum(f, q) == f \in [0..Len(q) -> Nat] /\ Adds(f, q)

(* Every sequence of numbers has its sums.                                 *)
LEMMA SumExists ==
  ASSUME NEW q \in Seq(Nat)
  PROVE  \E f : IsSum(f, q)
<1> DEFINE Upto(n, f) == /\ f \in [0..n -> Nat] /\ f[0] = 0
                         /\ \A i \in 1..n : f[i] = f[i - 1] + q[i]
           T == {n \in 0..Len(q) : ~ \E f : Upto(n, f)}
<1>1. Len(q) \in Nat /\ \A i \in 1..Len(q) : q[i] \in Nat
  OBVIOUS
<1>2. T = {}
  <2> SUFFICES ASSUME T # {} PROVE FALSE
    OBVIOUS
  <2>1. T \in SUBSET Nat
    BY <1>1
  <2>2. PICK n \in T : \A y \in T : n <= y
    <3> HIDE DEF T
    <3> QED
      BY <2>1, LeastOf
  <2>3. n \in 0..Len(q) /\ ~ \E f : Upto(n, f)
    BY <2>2
  <2>4. CASE n = 0
    <3>1. Upto(0, [i \in 0..0 |-> 0])
      OBVIOUS
    <3> QED
      BY <2>3, <2>4, <3>1
  <2>5. CASE n # 0
    <3>1. n - 1 \in 0..Len(q) /\ n \in 1..Len(q) /\ n \in Nat
      BY <1>1, <2>3, <2>5
    <3>2. n - 1 \notin T
      <4> HIDE DEF T
      <4> QED
        BY <2>2, <3>1
    <3>3. PICK f : Upto(n - 1, f)
      <4> HIDE DEF Upto
      <4> QED
        BY <3>1, <3>2
    <3> DEFINE g == [i \in 0..n |-> IF i = n THEN f[n - 1] + q[n] ELSE f[i]]
    <3>4. f[n - 1] \in Nat /\ q[n] \in Nat
      BY <1>1, <3>1, <3>3
    <3>5. g \in [0..n -> Nat]
      <4>1. \A i \in 0..n : i # n => f[i] \in Nat
        BY <3>1, <3>3
      <4> QED
        BY <3>4, <4>1
    <3>6. g[0] = 0
      BY <3>1, <3>3
    <3>7. ASSUME NEW i \in 1..n PROVE g[i] = g[i - 1] + q[i]
      <4>1. i \in 0..n /\ i - 1 \in 0..n /\ i - 1 # n /\ g[i - 1] = f[i - 1]
        BY <3>1
      <4>2. CASE i = n
        BY <4>1, <4>2
      <4>3. CASE i # n
        <5>1. i \in 1..(n - 1) /\ g[i] = f[i]
          BY <3>1, <4>1, <4>3
        <5> QED
          BY <3>3, <4>1, <5>1
      <4> QED
        BY <4>2, <4>3
    <3>8. Upto(n, g)
      <4> HIDE DEF g
      <4> QED
        BY <3>5, <3>6, <3>7
    <3> QED
      <4> HIDE DEF Upto, g
      <4> QED
        BY <2>3, <3>8
  <2> QED
    BY <2>4, <2>5
<1>3. \E f : Upto(Len(q), f)
  <2> HIDE DEF Upto
  <2> QED
    BY <1>1, <1>2
<1> QED
  BY <1>3 DEF IsSum, Adds

(* q begins with p.                                                        *)
Begins(p, q) == Len(p) <= Len(q) /\ \A n \in 1..Len(p) : p[n] = q[n]

(* Sums of sequences that begin alike begin alike.                         *)
LEMMA SumsAgree ==
  ASSUME NEW p \in Seq(Nat), NEW q \in Seq(Nat), Begins(p, q),
         NEW f, Adds(f, p), NEW g, Adds(g, q)
  PROVE  \A n \in 0..Len(p) : f[n] = g[n]
<1> DEFINE T == {n \in 0..Len(p) : f[n] # g[n]}
<1> SUFFICES ASSUME T # {} PROVE FALSE
  OBVIOUS
<1>1. Len(p) \in Nat /\ Len(q) \in Nat /\ Len(p) <= Len(q) /\ T \in SUBSET Nat
  BY DEF Begins
<1>2. PICK n \in T : \A y \in T : n <= y
  <2> HIDE DEF T
  <2> QED
    BY <1>1, LeastOf
<1>3. n \in 0..Len(p) /\ f[n] # g[n]
  BY <1>2
<1>4. n # 0
  BY <1>3 DEF Adds
<1>5. n \in 1..Len(p) /\ n \in 1..Len(q) /\ n - 1 \in 0..Len(p) /\ n - 1 < n
  BY <1>1, <1>3, <1>4
<1>6. f[n - 1] = g[n - 1]
  <2>1. n - 1 \notin T
    <3> HIDE DEF T
    <3> QED
      BY <1>1, <1>2, <1>5
  <2> QED
    BY <1>5, <2>1
<1>7. f[n] = f[n - 1] + p[n] /\ g[n] = g[n - 1] + q[n] /\ p[n] = q[n]
  BY <1>5 DEF Adds, Begins
<1> QED
  BY <1>3, <1>6, <1>7

LEMMA TotalIsSum ==
  ASSUME NEW q \in Seq(Nat)
  PROVE  \E f : IsSum(f, q) /\ Total(q) = f[Len(q)]
<1> DEFINE Eq(f) == f = [n \in 0..Len(q) |-> IF n = 0 THEN 0 ELSE f[n - 1] + q[n]]
<1>0. Len(q) \in Nat
  OBVIOUS
<1>1. PICK f : IsSum(f, q)
  BY SumExists
<1>2. Eq(f)
  BY <1>0, <1>1 DEF IsSum, Adds
<1>3. Eq(CHOOSE g : Eq(g))
  <2> HIDE DEF Eq
  <2> QED
    BY <1>2
<1> DEFINE s == CHOOSE g : Eq(g)
<1>4. Total(q) = s[Len(q)]
  BY DEF Total
<1>5. s = [n \in 0..Len(q) |-> IF n = 0 THEN 0 ELSE s[n - 1] + q[n]]
  BY <1>3
<1> HIDE DEF s, Eq
<1>6. Adds(s, q) /\ Begins(q, q)
  BY <1>0, <1>5 DEF Adds, Begins
<1>7. \A n \in 0..Len(q) : s[n] = f[n]
  BY <1>1, <1>6, SumsAgree DEF IsSum
<1> QED
  BY <1>0, <1>1, <1>4, <1>7

(* Sums never fall.                                                        *)
LEMMA SumsGrow ==
  ASSUME NEW q \in Seq(Nat), NEW f, IsSum(f, q), NEW m \in 0..Len(q)
  PROVE  \A n \in m..Len(q) : f[m] <= f[n]
<1> DEFINE T == {n \in m..Len(q) : ~ (f[m] <= f[n])}
<1> SUFFICES ASSUME T # {} PROVE FALSE
  OBVIOUS
<1>1. Len(q) \in Nat /\ m \in Nat /\ T \in SUBSET Nat
  OBVIOUS
<1>2. PICK n \in T : \A y \in T : n <= y
  <2> HIDE DEF T
  <2> QED
    BY <1>1, LeastOf
<1>3. n \in m..Len(q) /\ ~ (f[m] <= f[n])
  BY <1>2
<1>4. \A i \in 0..Len(q) : f[i] \in Nat
  BY DEF IsSum, Adds
<1>5. n # m
  BY <1>1, <1>3, <1>4
<1>6. n \in 1..Len(q) /\ n - 1 \in m..Len(q) /\ n - 1 < n /\ n - 1 \in 0..Len(q) /\ n \in 0..Len(q)
  BY <1>1, <1>3, <1>5
<1>7. f[m] <= f[n - 1]
  <2>1. n - 1 \notin T
    <3> HIDE DEF T
    <3> QED
      BY <1>1, <1>2, <1>6
  <2> QED
    BY <1>6, <2>1
<1>8. f[n] = f[n - 1] + q[n] /\ q[n] \in Nat
  BY <1>6 DEF IsSum, Adds
<1>9. f[m] \in Nat /\ f[n - 1] \in Nat
  BY <1>1, <1>4, <1>6
<1>10. f[m] <= f[n]
  <2> HIDE DEF T
  <2>1. \A a, b, c \in Nat : a <= b => a <= b + c
    OBVIOUS
  <2> QED
    BY <1>7, <1>8, <1>9, <2>1, Zenon
<1> QED
  BY <1>3, <1>10, Zenon

(* The total of nothing.                                                   *)
LEMMA TotalEmpty ==
  ASSUME NEW q \in Seq(Nat), Len(q) = 0
  PROVE  Total(q) = 0
<1>1. PICK f : IsSum(f, q) /\ Total(q) = f[Len(q)]
  BY TotalIsSum
<1> QED
  <2>1. Len(q) \in 0..Len(q)
    OBVIOUS
  <2>2. f[0] = 0 /\ \A n \in 0..Len(q) : f[n] \in Nat
    BY <1>1, Zenon DEF IsSum, Adds
  <2> QED
    BY <1>1, <2>1, <2>2, Zenon

LEMMA TotalType ==
  ASSUME NEW q \in Seq(Nat)
  PROVE  Total(q) \in Nat
<1>1. PICK f : IsSum(f, q) /\ Total(q) = f[Len(q)]
  BY TotalIsSum
<1> QED
  <2>1. Len(q) \in 0..Len(q)
    OBVIOUS
  <2>2. f[0] = 0 /\ \A n \in 0..Len(q) : f[n] \in Nat
    BY <1>1, Zenon DEF IsSum, Adds
  <2> QED
    BY <1>1, <2>1, <2>2, Zenon

(* The total of the beginning of a sequence is no more than that of the    *)
(* sequence, and one number short of it is less by that number.            *)
LEMMA TotalOfPart ==
  ASSUME NEW p \in Seq(Nat), NEW q \in Seq(Nat), Begins(p, q)
  PROVE  /\ Total(p) <= Total(q)
         /\ Len(q) = Len(p) + 1 => Total(q) = Total(p) + q[Len(q)]
<1>0. Len(p) \in Nat /\ Len(q) \in Nat /\ Len(p) \in 0..Len(q) /\ Len(p) \in 0..Len(p)
  BY DEF Begins
<1>1. PICK f : IsSum(f, p) /\ Total(p) = f[Len(p)]
  BY TotalIsSum
<1>2. PICK g : IsSum(g, q) /\ Total(q) = g[Len(q)]
  BY TotalIsSum
<1>3. f[Len(p)] = g[Len(p)]
  <2>1. Adds(f, p) /\ Adds(g, q)
    BY <1>1, <1>2, Zenon DEF IsSum
  <2>2. \A n \in 0..Len(p) : f[n] = g[n]
    BY <2>1, SumsAgree
  <2> QED
    BY <1>0, <2>2, Zenon
<1>4. g[Len(p)] <= g[Len(q)]
  <2> DEFINE m == Len(p)
  <2>1. m \in 0..Len(q) /\ Len(q) \in m..Len(q)
    BY <1>0
  <2> HIDE DEF m
  <2>2. \A n \in m..Len(q) : g[m] <= g[n]
    BY <1>2, <2>1, SumsGrow
  <2> QED
    BY <2>1, <2>2 DEF m
<1>5. Len(q) = Len(p) + 1 => g[Len(q)] = g[Len(p)] + q[Len(q)]
  <2> SUFFICES ASSUME Len(q) = Len(p) + 1 PROVE g[Len(q)] = g[Len(p)] + q[Len(q)]
    OBVIOUS
  <2>1. \A n \in 1..Len(q) : g[n] = g[n - 1] + q[n]
    BY <1>2, Zenon DEF IsSum, Adds
  <2>2. Len(q) \in 1..Len(q) /\ Len(q) - 1 = Len(p)
    BY <1>0
  <2> QED
    BY <2>1, <2>2, Zenon
<1> QED
  BY <1>1, <1>2, <1>3, <1>4, <1>5

-----------------------------------------------------------------------------
(* f[n] is what the first n sequences of ss make, put together.            *)
Chains(f, ss) == f[0] = <<>> /\ \A n \in 1..Len(ss) : f[n] = f[n - 1] \o ss[n]

IsJoin(f, ss, S) == f \in [0..Len(ss) -> Seq(S)] /\ Chains(f, ss)

LEMMA ConcatIs ==
  ASSUME NEW S, NEW a \in Seq(S), NEW b \in Seq(S)
  PROVE  /\ a \o b \in Seq(S) /\ Len(a \o b) = Len(a) + Len(b)
         /\ \A i \in 1..Len(a) : (a \o b)[i] = a[i]
         /\ \A i \in 1..Len(b) : (a \o b)[Len(a) + i] = b[i]
         /\ Begins(a, a \o b)
<1> DEFINE c == a \o b
           m == Len(a)
           n == Len(b)
<1>1. m \in Nat /\ n \in Nat
  OBVIOUS
<1>2. /\ c \in Seq(S) /\ Len(c) = m + n
      /\ \A i \in 1..(m + n) : c[i] = IF i <= m THEN a[i] ELSE b[i - m]
  BY ConcatProperties, Zenon
<1> HIDE DEF c, m, n
<1>3. \A i \in 1..m : c[i] = a[i]
  BY <1>1, <1>2
<1>4. \A i \in 1..n : c[m + i] = b[i]
  BY <1>1, <1>2
<1>5. Len(a) <= Len(c)
  BY <1>1, <1>2 DEF m
<1>6. QED
  BY <1>2, <1>3, <1>4, <1>5 DEF Begins, c, m, n

(* Every sequence of sequences can be put together.                        *)
LEMMA JoinExists ==
  ASSUME NEW S, NEW ss \in Seq(Seq(S))
  PROVE  \E f : IsJoin(f, ss, S)
<1> DEFINE Upto(n, f) == /\ f \in [0..n -> Seq(S)] /\ f[0] = <<>>
                         /\ \A i \in 1..n : f[i] = f[i - 1] \o ss[i]
           T == {n \in 0..Len(ss) : ~ \E f : Upto(n, f)}
<1>1. Len(ss) \in Nat /\ \A i \in 1..Len(ss) : ss[i] \in Seq(S)
  OBVIOUS
<1>2. T = {}
  <2> SUFFICES ASSUME T # {} PROVE FALSE
    OBVIOUS
  <2>1. T \in SUBSET Nat
    <3> HIDE DEF Upto
    <3>1. QED
      BY <1>1
  <2>2. PICK n \in T : \A y \in T : n <= y
    <3> HIDE DEF T
    <3>1. QED
      BY <2>1, LeastOf
  <2>3. n \in 0..Len(ss) /\ ~ \E f : Upto(n, f)
    BY <2>2
  <2>4. CASE n = 0
    <3>1. Upto(0, [i \in 0..0 |-> <<>>])
      OBVIOUS
    <3>2. QED
      BY <2>3, <2>4, <3>1
  <2>5. CASE n # 0
    <3>1. n - 1 \in 0..Len(ss) /\ n \in 1..Len(ss) /\ n \in Nat
      BY <1>1, <2>3, <2>5
    <3>2. n - 1 \notin T
      <4> HIDE DEF T
      <4>1. QED
        BY <2>2, <3>1
    <3>3. PICK f : Upto(n - 1, f)
      <4> HIDE DEF Upto
      <4>1. QED
        BY <3>1, <3>2
    <3> DEFINE g == [i \in 0..n |-> IF i = n THEN f[n - 1] \o ss[n] ELSE f[i]]
    <3>4. f[n - 1] \o ss[n] \in Seq(S)
      <4>1. f[n - 1] \in Seq(S) /\ ss[n] \in Seq(S)
        BY <1>1, <3>1, <3>3
      <4>2. QED
        BY <4>1, ConcatIs
    <3>5. g \in [0..n -> Seq(S)]
      <4>1. \A i \in 0..n : i # n => f[i] \in Seq(S)
        BY <3>1, <3>3
      <4>2. QED
        BY <3>4, <4>1
    <3>6. g[0] = <<>>
      BY <3>1, <3>3
    <3>7. ASSUME NEW i \in 1..n PROVE g[i] = g[i - 1] \o ss[i]
      <4>1. i \in 0..n /\ i - 1 \in 0..n /\ i - 1 # n /\ g[i - 1] = f[i - 1]
        BY <3>1
      <4>2. CASE i = n
        BY <4>1, <4>2
      <4>3. CASE i # n
        <5>1. i \in 1..(n - 1) /\ g[i] = f[i]
          BY <3>1, <4>1, <4>3
        <5>2. QED
          BY <3>3, <4>1, <5>1
      <4>4. QED
        BY <4>2, <4>3
    <3>8. Upto(n, g)
      <4> HIDE DEF g
      <4>1. QED
        BY <3>5, <3>6, <3>7
    <3>9. QED
      <4> HIDE DEF Upto, g
      <4>1. QED
        BY <2>3, <3>8
  <2>6. QED
    BY <2>4, <2>5
<1>3. \E f : Upto(Len(ss), f)
  <2> HIDE DEF Upto
  <2>1. QED
    BY <1>1, <1>2
<1>4. QED
  BY <1>3 DEF IsJoin, Chains

(* Sequences that begin alike are put together alike.                      *)
LEMMA JoinsAgree ==
  ASSUME NEW S, NEW p \in Seq(Seq(S)), NEW q \in Seq(Seq(S)), Begins(p, q),
         NEW f, Chains(f, p), NEW g, Chains(g, q)
  PROVE  \A n \in 0..Len(p) : f[n] = g[n]
<1> DEFINE T == {n \in 0..Len(p) : f[n] # g[n]}
<1> SUFFICES ASSUME T # {} PROVE FALSE
  OBVIOUS
<1>1. Len(p) \in Nat /\ Len(q) \in Nat /\ Len(p) <= Len(q) /\ T \in SUBSET Nat
  BY DEF Begins
<1>2. PICK n \in T : \A y \in T : n <= y
  <2> HIDE DEF T
  <2>1. QED
    BY <1>1, LeastOf
<1>3. n \in 0..Len(p) /\ f[n] # g[n]
  BY <1>2
<1>4. n # 0
  BY <1>3 DEF Chains
<1>5. n \in 1..Len(p) /\ n \in 1..Len(q) /\ n - 1 \in 0..Len(p) /\ n - 1 < n
  BY <1>1, <1>3, <1>4
<1>6. f[n - 1] = g[n - 1]
  <2>1. n - 1 \notin T
    <3> HIDE DEF T
    <3>1. QED
      BY <1>1, <1>2, <1>5
  <2>2. QED
    BY <1>5, <2>1
<1>7. f[n] = f[n - 1] \o p[n] /\ g[n] = g[n - 1] \o q[n] /\ p[n] = q[n]
  BY <1>5 DEF Chains, Begins
<1>8. QED
  BY <1>3, <1>6, <1>7

LEMMA JoinedIsJoin ==
  ASSUME NEW S, NEW ss \in Seq(Seq(S))
  PROVE  \E f : IsJoin(f, ss, S) /\ Joined(ss) = f[Len(ss)]
<1> DEFINE Eq(f) == f = [n \in 0..Len(ss) |-> IF n = 0 THEN <<>> ELSE f[n - 1] \o ss[n]]
<1>0. Len(ss) \in Nat
  OBVIOUS
<1>1. PICK f : IsJoin(f, ss, S)
  BY JoinExists
<1>2. Eq(f)
  <2>1. f \in [0..Len(ss) -> Seq(S)] /\ f[0] = <<>>
    BY <1>1 DEF IsJoin, Chains
  <2>2. \A n \in 0..Len(ss) : n # 0 => f[n] = f[n - 1] \o ss[n]
    <3>1. \A n \in 1..Len(ss) : f[n] = f[n - 1] \o ss[n]
      BY <1>1 DEF IsJoin, Chains
    <3>2. \A n \in 0..Len(ss) : n # 0 => n \in 1..Len(ss)
      BY <1>0
    <3>3. QED
      BY <3>1, <3>2, Zenon
  <2>3. f = [n \in 0..Len(ss) |-> f[n]]
    BY <2>1
  <2>4. \A n \in 0..Len(ss) : f[n] = IF n = 0 THEN <<>> ELSE f[n - 1] \o ss[n]
    BY <2>1, <2>2
  <2>5. QED
    BY <2>3, <2>4, Zenon
<1>3. Eq(CHOOSE g : Eq(g))
  <2> HIDE DEF Eq
  <2>1. QED
    BY <1>2
<1> DEFINE s == CHOOSE g : Eq(g)
<1>4. Joined(ss) = s[Len(ss)]
  BY DEF Joined
<1>5. s = [n \in 0..Len(ss) |-> IF n = 0 THEN <<>> ELSE s[n - 1] \o ss[n]]
  BY <1>3
<1> HIDE DEF s, Eq
<1>6. Chains(s, ss) /\ Begins(ss, ss)
  <2>1. \A n \in 0..Len(ss) : s[n] = IF n = 0 THEN <<>> ELSE s[n - 1] \o ss[n]
    BY <1>5, Zenon
  <2>2. s[0] = <<>>
    BY <1>0, <2>1
  <2>3. \A n \in 1..Len(ss) : s[n] = s[n - 1] \o ss[n]
    <3>1. \A n \in 1..Len(ss) : n \in 0..Len(ss) /\ n # 0
      BY <1>0
    <3>2. QED
      BY <2>1, <3>1, Zenon
  <2>4. Begins(ss, ss)
    BY <1>0 DEF Begins
  <2>5. QED
    BY <2>2, <2>3, <2>4, Zenon DEF Chains
<1>7. \A n \in 0..Len(ss) : s[n] = f[n]
  BY <1>1, <1>6, JoinsAgree DEF IsJoin
<1>8. QED
  BY <1>0, <1>1, <1>4, <1>7

(* What a part makes is where the whole begins.                            *)
LEMMA JoinsGrow ==
  ASSUME NEW S, NEW ss \in Seq(Seq(S)), NEW f, IsJoin(f, ss, S), NEW m \in 0..Len(ss)
  PROVE  \A n \in m..Len(ss) : Begins(f[m], f[n])
<1> DEFINE T == {n \in m..Len(ss) : ~ Begins(f[m], f[n])}
<1> SUFFICES ASSUME T # {} PROVE FALSE
  OBVIOUS
<1>1. Len(ss) \in Nat /\ m \in Nat /\ T \in SUBSET Nat
  OBVIOUS
<1>2. PICK n \in T : \A y \in T : n <= y
  <2> HIDE DEF T
  <2>1. QED
    BY <1>1, LeastOf
<1>3. n \in m..Len(ss) /\ ~ Begins(f[m], f[n])
  BY <1>2
<1>4. \A i \in 0..Len(ss) : f[i] \in Seq(S) /\ Len(f[i]) \in Nat
  <2>1. \A i \in 0..Len(ss) : f[i] \in Seq(S)
    BY Zenon DEF IsJoin
  <2>2. \A x \in Seq(S) : Len(x) \in Nat
    OBVIOUS
  <2>3. QED
    BY <2>1, <2>2, Zenon
<1>5. n # m
  <2>1. Begins(f[m], f[m])
    BY <1>4 DEF Begins
  <2>2. QED
    BY <1>3, <2>1
<1>6. n \in 1..Len(ss) /\ n - 1 \in m..Len(ss) /\ n - 1 < n /\ n - 1 \in 0..Len(ss) /\ n \in 0..Len(ss)
  BY <1>1, <1>3, <1>5
<1>7. Begins(f[m], f[n - 1])
  <2>1. n - 1 \notin T
    <3> HIDE DEF T
    <3>1. QED
      BY <1>1, <1>2, <1>6
  <2>2. QED
    BY <1>6, <2>1
<1>8. f[n] = f[n - 1] \o ss[n] /\ ss[n] \in Seq(S)
  <2>1. \A i \in 1..Len(ss) : f[i] = f[i - 1] \o ss[i]
    BY DEF IsJoin, Chains
  <2>2. QED
    BY <1>6, <2>1, ElementOfSeq
<1>9. Begins(f[n - 1], f[n])
  <2>1. f[n - 1] \in Seq(S)
    BY <1>4, <1>6
  <2>2. Begins(f[n - 1], f[n - 1] \o ss[n])
    BY <1>8, <2>1, ConcatIs
  <2>3. QED
    BY <1>8, <2>2, Zenon
<1>10. Begins(f[m], f[n])
  <2> HIDE DEF T
  <2>1. m \in 0..Len(ss) /\ Len(f[m]) \in Nat /\ Len(f[n - 1]) \in Nat /\ Len(f[n]) \in Nat
    BY <1>1, <1>4, <1>6, Zenon
  <2>2. Len(f[m]) <= Len(f[n])
    BY <1>7, <1>9, <2>1 DEF Begins
  <2>3. \A i \in 1..Len(f[m]) : f[m][i] = f[n][i]
    <3>1. \A i \in 1..Len(f[m]) : i \in 1..Len(f[n - 1])
      BY <1>7, <2>1 DEF Begins
    <3>2. QED
      BY <1>7, <1>9, <3>1, Zenon DEF Begins
  <2>4. QED
    BY <2>2, <2>3, Zenon DEF Begins
<1>11. QED
  BY <1>3, <1>10

LEMMA JoinedType ==
  ASSUME NEW S, NEW ss \in Seq(Seq(S))
  PROVE  Joined(ss) \in Seq(S) /\ (Len(ss) = 0 => Joined(ss) = <<>>)
<1>1. PICK f : IsJoin(f, ss, S) /\ Joined(ss) = f[Len(ss)]
  BY JoinedIsJoin
<1> DEFINE n == Len(ss)
<1>2. n \in 0..n
  OBVIOUS
<1> HIDE DEF n
<1>3. f[0] = <<>> /\ \A m \in 0..n : f[m] \in Seq(S)
  BY <1>1, Zenon DEF IsJoin, Chains, n
<1>4. Joined(ss) = f[n]
  BY <1>1 DEF n
<1>5. QED
  BY <1>2, <1>3, <1>4, Zenon DEF n

(* The beginning of a sequence of sequences makes the beginning of what it *)
(* makes, and one sequence more is put behind.                             *)
LEMMA JoinedOfPart ==
  ASSUME NEW S, NEW p \in Seq(Seq(S)), NEW q \in Seq(Seq(S)), Begins(p, q)
  PROVE  /\ Begins(Joined(p), Joined(q))
         /\ Len(q) = Len(p) + 1 => Joined(q) = Joined(p) \o q[Len(q)]
<1>0. Len(p) \in Nat /\ Len(q) \in Nat /\ Len(p) \in 0..Len(q) /\ Len(p) \in 0..Len(p)
  BY DEF Begins
<1>1. PICK f : IsJoin(f, p, S) /\ Joined(p) = f[Len(p)]
  BY JoinedIsJoin
<1>2. PICK g : IsJoin(g, q, S) /\ Joined(q) = g[Len(q)]
  BY JoinedIsJoin
<1>3. f[Len(p)] = g[Len(p)]
  <2>1. Chains(f, p) /\ Chains(g, q)
    BY <1>1, <1>2 DEF IsJoin
  <2>2. \A n \in 0..Len(p) : f[n] = g[n]
    BY <2>1, JoinsAgree
  <2>3. QED
    BY <1>0, <2>2, Zenon
<1>4. Begins(g[Len(p)], g[Len(q)])
  <2> DEFINE m == Len(p)
  <2>1. m \in 0..Len(q) /\ Len(q) \in m..Len(q)
    BY <1>0
  <2> HIDE DEF m
  <2>2. \A n \in m..Len(q) : Begins(g[m], g[n])
    BY <1>2, <2>1, JoinsGrow
  <2>3. QED
    BY <2>1, <2>2 DEF m
<1>5. Len(q) = Len(p) + 1 => g[Len(q)] = g[Len(p)] \o q[Len(q)]
  <2> SUFFICES ASSUME Len(q) = Len(p) + 1 PROVE g[Len(q)] = g[Len(p)] \o q[Len(q)]
    OBVIOUS
  <2>1. \A n \in 1..Len(q) : g[n] = g[n - 1] \o q[n]
    BY <1>2 DEF IsJoin, Chains
  <2>2. Len(q) \in 1..Len(q) /\ Len(q) - 1 = Len(p)
    BY <1>0
  <2>3. QED
    BY <2>1, <2>2
<1>6. QED
  BY <1>1, <1>2, <1>3, <1>4, <1>5

(* Two sequences of the same length that begin alike are the same.         *)
LEMMA BeginsSame ==
  ASSUME NEW S, NEW a \in Seq(S), NEW b \in Seq(S), Begins(a, b), Len(a) = Len(b)
  PROVE  a = b
BY SeqEqual DEF Begins

First(q, k) == SubSeq(q, 1, k)

LEMMA FirstIs ==
  ASSUME NEW S, NEW q \in Seq(S), NEW k \in 0..Len(q)
  PROVE  /\ First(q, k) \in Seq(S) /\ Len(First(q, k)) = k
         /\ \A i \in 1..k : First(q, k)[i] = q[i]
         /\ First(q, Len(q)) = q /\ First(q, 0) = <<>>
<1> DEFINE n == Len(q)
<1>1. n \in Nat /\ k \in 0..n /\ \A i \in 1..n : q[i] \in S
  BY ElementOfSeq
<1> HIDE DEF n
<1>2. k \in Int /\ \A i \in 1..k : q[i] \in S
  BY <1>1
<1>3. /\ First(q, k) \in Seq(S) /\ Len(First(q, k)) = IF 1 <= k THEN k - 1 + 1 ELSE 0
      /\ \A i \in 1..(k - 1 + 1) : First(q, k)[i] = q[1 + i - 1]
  BY <1>2, SubSeqProperties DEF First
<1>4. First(q, Len(q)) = q /\ First(q, 0) = <<>>
  BY SubSeqFull, SubSeqEmpty DEF First
<1> HIDE DEF First
<1>5. QED
  BY <1>1, <1>3, <1>4

(* What the first sequences of q make.                                     *)
LEMMA JoinedFirst ==
  ASSUME NEW S, NEW q \in Seq(Seq(S)), NEW k \in 0..Len(q)
  PROVE  /\ Joined(First(q, k)) \in Seq(S) /\ Joined(First(q, 0)) = <<>>
         /\ \A j \in k..Len(q) : Begins(Joined(First(q, k)), Joined(First(q, j)))
         /\ k < Len(q) => Joined(First(q, k + 1)) = Joined(First(q, k)) \o q[k + 1]
<1> DEFINE n == Len(q)
<1>1. n \in Nat /\ k \in 0..n
  OBVIOUS
<1>2. \A i \in 0..n : First(q, i) \in Seq(Seq(S)) /\ Len(First(q, i)) = i
                      /\ \A m \in 1..i : First(q, i)[m] = q[m]
  BY FirstIs
<1>3. Joined(First(q, k)) \in Seq(S)
  BY <1>1, <1>2, JoinedType
<1>4. Joined(First(q, 0)) = <<>>
  <2>1. First(q, 0) \in Seq(Seq(S)) /\ Len(First(q, 0)) = 0
    BY <1>1, <1>2
  <2>2. QED
    BY <2>1, JoinedType
<1> HIDE DEF n
<1>5. \A i, j \in 0..n : i <= j => Begins(First(q, i), First(q, j))
  BY <1>2 DEF Begins
<1>6. \A j \in k..n : Begins(Joined(First(q, k)), Joined(First(q, j)))
  <2> SUFFICES ASSUME NEW j \in k..n
               PROVE  Begins(Joined(First(q, k)), Joined(First(q, j)))
    OBVIOUS
  <2>1. j \in 0..n /\ k <= j
    BY <1>1
  <2>2. First(q, k) \in Seq(Seq(S)) /\ First(q, j) \in Seq(Seq(S))
        /\ Begins(First(q, k), First(q, j))
    BY <1>1, <1>2, <1>5, <2>1
  <2>3. QED
    BY <2>2, JoinedOfPart
<1>7. ASSUME k < n
      PROVE  Joined(First(q, k + 1)) = Joined(First(q, k)) \o q[k + 1]
  <2>1. k + 1 \in 0..n /\ k + 1 \in 1..(k + 1)
    BY <1>1, <1>7
  <2>2. /\ First(q, k) \in Seq(Seq(S)) /\ First(q, k + 1) \in Seq(Seq(S))
        /\ Begins(First(q, k), First(q, k + 1))
        /\ Len(First(q, k + 1)) = Len(First(q, k)) + 1 /\ Len(First(q, k + 1)) = k + 1
        /\ First(q, k + 1)[k + 1] = q[k + 1]
    BY <1>1, <1>2, <1>5, <2>1
  <2>3. QED
    BY <2>2, JoinedOfPart
<1>8. QED
  BY <1>3, <1>4, <1>6, <1>7 DEF n

(* One sequence more.                                                      *)
LEMMA JoinedMore ==
  ASSUME NEW S, NEW q \in Seq(Seq(S)), NEW x \in Seq(S)
  PROVE  Joined(Append(q, x)) = Joined(q) \o x
<1>1. /\ Append(q, x) \in Seq(Seq(S)) /\ Len(Append(q, x)) = Len(q) + 1
      /\ \A i \in 1..Len(q) : Append(q, x)[i] = q[i]
      /\ Append(q, x)[Len(q) + 1] = x
  BY AppendProperties
<1>2. Len(q) \in Nat
  OBVIOUS
<1> DEFINE p == Append(q, x)
<1> HIDE DEF p
<1>3. Begins(q, p) /\ p[Len(p)] = x
  BY <1>1, <1>2 DEF Begins, p
<1>4. Joined(p) = Joined(q) \o p[Len(p)]
  BY <1>1, <1>3, JoinedOfPart DEF p
<1>5. QED
  BY <1>3, <1>4 DEF p

(* The sequences that g gives for the elements of q.                       *)
Gives(g, T, S) == \A x \in T : g[x] \in S
Each(g, q) == [i \in DOMAIN q |-> g[q[i]]]

LEMMA EachIs ==
  ASSUME NEW T, NEW S, NEW g, Gives(g, T, S), NEW q \in Seq(T)
  PROVE  /\ Each(g, q) \in Seq(S) /\ Len(Each(g, q)) = Len(q)
         /\ \A i \in 1..Len(q) : Each(g, q)[i] = g[q[i]]
<1> DEFINE n == Len(q)
<1>1. n \in Nat /\ DOMAIN q = 1..n /\ \A i \in 1..n : q[i] \in T
  OBVIOUS
<1> HIDE DEF n
<1>2. \A i \in 1..n : g[q[i]] \in S
  BY <1>1 DEF Gives
<1>3. Each(g, q) = [i \in 1..n |-> g[q[i]]]
  BY <1>1 DEF Each
<1>4. Each(g, q) \in Seq(S) /\ Len(Each(g, q)) = n
  BY <1>1, <1>2, <1>3
<1>5. QED
  BY <1>3, <1>4 DEF n

LEMMA EachOfFirst ==
  ASSUME NEW T, NEW S, NEW g, Gives(g, T, S), NEW q \in Seq(T), NEW k \in 0..Len(q)
  PROVE  Each(g, First(q, k)) = First(Each(g, q), k)
<1>1. Len(q) \in Nat /\ k \in 0..Len(q)
  OBVIOUS
<1>2. First(q, k) \in Seq(T) /\ Len(First(q, k)) = k /\ \A i \in 1..k : First(q, k)[i] = q[i]
  BY FirstIs
<1>3. /\ Each(g, q) \in Seq(S) /\ Len(Each(g, q)) = Len(q)
      /\ \A i \in 1..Len(q) : Each(g, q)[i] = g[q[i]]
  BY EachIs
<1> DEFINE a == Each(g, First(q, k))
           b == First(Each(g, q), k)
<1>4. a \in Seq(S) /\ Len(a) = k /\ \A i \in 1..k : a[i] = g[First(q, k)[i]]
  <2> DEFINE r == First(q, k)
  <2>1. r \in Seq(T) /\ Len(r) = k
    BY <1>2
  <2> HIDE DEF r
  <2>2. /\ Each(g, r) \in Seq(S) /\ Len(Each(g, r)) = k
        /\ \A i \in 1..k : Each(g, r)[i] = g[r[i]]
    BY <2>1, EachIs
  <2>3. QED
    BY <2>2 DEF r
<1>5. b \in Seq(S) /\ Len(b) = k /\ \A i \in 1..k : b[i] = Each(g, q)[i]
  BY <1>1, <1>3, FirstIs
<1> HIDE DEF a, b
<1>6. \A i \in 1..k : a[i] = b[i]
  <2>1. \A i \in 1..k : i \in 1..Len(q)
    BY <1>1
  <2> SUFFICES ASSUME NEW i \in 1..k PROVE a[i] = b[i]
    OBVIOUS
  <2>2. a[i] = g[First(q, k)[i]] /\ First(q, k)[i] = q[i]
    BY <1>2, <1>4, Zenon
  <2>3. b[i] = Each(g, q)[i] /\ Each(g, q)[i] = g[q[i]]
    BY <1>3, <1>5, <2>1, Zenon
  <2>4. QED
    BY <2>2, <2>3
<1>7. a = b
  BY <1>4, <1>5, <1>6, SeqEqual
<1>8. QED
  BY <1>7 DEF a, b

(* What the first elements of q make when g gives the parts.               *)
Made(g, q, k) == Joined(Each(g, First(q, k)))

LEMMA MadeIs ==
  ASSUME NEW T, NEW S, NEW g, Gives(g, T, Seq(S)), NEW q \in Seq(T), NEW k \in 0..Len(q)
  PROVE  /\ Made(g, q, k) \in Seq(S) /\ Made(g, q, 0) = <<>>
         /\ Made(g, q, Len(q)) = Joined(Each(g, q))
         /\ \A j \in k..Len(q) : Begins(Made(g, q, k), Made(g, q, j))
         /\ k < Len(q) => Made(g, q, k + 1) = Made(g, q, k) \o g[q[k + 1]]
<1> DEFINE p == Each(g, q)
<1>1. /\ p \in Seq(Seq(S)) /\ Len(p) = Len(q)
      /\ \A i \in 1..Len(q) : p[i] = g[q[i]]
  <2> DEFINE U == Seq(S)
  <2>1. Gives(g, T, U)
    OBVIOUS
  <2> HIDE DEF U
  <2>2. /\ p \in Seq(U) /\ Len(p) = Len(q)
        /\ \A i \in 1..Len(q) : p[i] = g[q[i]]
    BY <2>1, EachIs
  <2>3. QED
    BY <2>2 DEF U
<1>2. Len(q) \in Nat /\ k \in 0..Len(q)
  OBVIOUS
<1>3. \A j \in 0..Len(q) : Made(g, q, j) = Joined(First(p, j))
  <2> DEFINE U == Seq(S)
  <2>1. Gives(g, T, U)
    OBVIOUS
  <2> HIDE DEF U
  <2>2. SUFFICES ASSUME NEW j \in 0..Len(q) PROVE Made(g, q, j) = Joined(First(p, j))
    OBVIOUS
  <2>3. Each(g, First(q, j)) = First(p, j)
    BY <2>1, EachOfFirst
  <2>4. QED
    BY <2>3 DEF Made
<1> HIDE DEF p
<1>4. k \in 0..Len(p)
  BY <1>1, <1>2
<1>5. /\ Joined(First(p, k)) \in Seq(S) /\ Joined(First(p, 0)) = <<>>
      /\ \A j \in k..Len(p) : Begins(Joined(First(p, k)), Joined(First(p, j)))
      /\ k < Len(p) => Joined(First(p, k + 1)) = Joined(First(p, k)) \o p[k + 1]
  BY <1>1, <1>4, JoinedFirst
<1>6. Made(g, q, 0) = <<>> /\ Made(g, q, k) \in Seq(S)
  BY <1>2, <1>3, <1>5
<1>7. Made(g, q, Len(q)) = Joined(p)
  <2>1. First(p, Len(p)) = p
    BY <1>1, <1>4, FirstIs
  <2>2. Len(q) \in 0..Len(q)
    BY <1>2
  <2>3. QED
    BY <1>1, <1>3, <2>1, <2>2
<1>8. \A j \in k..Len(q) : Begins(Made(g, q, k), Made(g, q, j))
  BY <1>1, <1>2, <1>3, <1>5
<1>9. ASSUME k < Len(q) PROVE Made(g, q, k + 1) = Made(g, q, k) \o g[q[k + 1]]
  <2>1. k + 1 \in 1..Len(q) /\ k + 1 \in 0..Len(q)
    BY <1>2, <1>9
  <2>2. p[k + 1] = g[q[k + 1]]
    BY <1>1, <2>1
  <2>3. QED
    BY <1>1, <1>2, <1>3, <1>5, <1>9, <2>1, <2>2
<1>10. QED
  BY <1>6, <1>7, <1>8, <1>9 DEF p

LEMMA MadeMore ==
  ASSUME NEW T, NEW S, NEW g, Gives(g, T, Seq(S)), NEW q \in Seq(T), NEW x \in T
  PROVE  Joined(Each(g, Append(q, x))) = Joined(Each(g, q)) \o g[x]
<1> DEFINE p == Append(q, x)
           n == Len(q)
<1>1. /\ n \in Nat /\ p \in Seq(T) /\ Len(p) = n + 1
      /\ \A i \in 1..n : p[i] = q[i]
      /\ p[n + 1] = x
  BY AppendProperties
<1> HIDE DEF p, n
<1>2. First(p, n) = q
  <2> DEFINE r == First(p, n)
  <2>1. n \in 0..Len(p)
    BY <1>1
  <2>2. r \in Seq(T) /\ Len(r) = n /\ \A i \in 1..n : r[i] = p[i]
    BY <1>1, <2>1, FirstIs
  <2> HIDE DEF r
  <2>3. \A i \in 1..n : r[i] = q[i]
    BY <1>1, <2>2
  <2>4. r = q
    BY <2>2, <2>3, SeqEqual DEF n
  <2>5. QED
    BY <2>4 DEF r
<1>3. n \in 0..Len(p) /\ n < Len(p) /\ Len(p) = n + 1
  BY <1>1
<1>4. Made(g, p, n + 1) = Made(g, p, n) \o g[p[n + 1]]
  <2>1. p \in Seq(T) /\ n \in 0..Len(p)
    BY <1>1, <1>3
  <2>2. n < Len(p) => Made(g, p, n + 1) = Made(g, p, n) \o g[p[n + 1]]
    BY <2>1, MadeIs
  <2>3. QED
    BY <1>3, <2>2
<1>5. Made(g, p, n + 1) = Joined(Each(g, p))
  BY <1>1, <1>3, MadeIs
<1>6. Made(g, p, n) = Joined(Each(g, q))
  BY <1>2 DEF Made
<1>7. QED
  BY <1>1, <1>4, <1>5, <1>6 DEF p

=============================================================================
