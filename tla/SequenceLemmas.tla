--------------------------- MODULE SequenceLemmas ---------------------------
(***************************************************************************)
(* Facts about numbers and sequences that the proofs of other modules use. *)
(* What holds of a number is a set here, for induction too                 *)
(* (InductionUpTo).                                                        *)
(***************************************************************************)
EXTENDS Subsequences, SequenceTheorems, WellFoundedInduction, TLAPS

\* A set of natural numbers that is not empty has a least element.
LEMMA LeastElement ==
  ASSUME NEW T, T \subseteq Nat, T # {}
  PROVE  \E x \in T : \A y \in T : x <= y
<1> DEFINE R == OpToRel(<, Nat)
<1>1. IsWellFoundedOn(R, Nat)
  BY NatLessThanWellFounded, Zenon DEF OpToRel
<1>2. \E x \in T : \A y \in T : <<y, x>> \notin R
  <2> HIDE DEF R
  <2> QED
    BY <1>1, WFMin
<1>3. ASSUME NEW x \in T, NEW y \in T, <<y, x>> \notin R
      PROVE  x <= y
  BY <1>3, SMT DEF OpToRel
<1> QED
  BY <1>2, <1>3

\* A set with 0, and with each number up to N whose predecessor it has, has them all.
LEMMA InductionUpTo ==
  ASSUME NEW N \in Nat, NEW S, 0 \in S, \A n \in 1..N : n - 1 \in S => n \in S
  PROVE  \A n \in 0..N : n \in S
<1> DEFINE T == {n \in 0..N : n \notin S}
<1> SUFFICES ASSUME T # {} PROVE FALSE
  OBVIOUS
<1>1. PICK x \in T : \A y \in T : x <= y
  <2>1. T \subseteq Nat
    OBVIOUS
  <2> HIDE DEF T
  <2> QED
    BY <2>1, LeastElement
<1>2. x \in 1..N /\ x - 1 \notin T
  BY <1>1
<1> QED
  BY <1>2

\* Of two increasing sequences of the same numbers, one is a prefix of the other.
LEMMA IncreasingPrefix ==
  ASSUME NEW s \in Seq(Nat), NEW t \in Seq(Nat), Increasing(s), Increasing(t),
         Elements(s) = Elements(t), NEW k \in 1..Len(s)
  PROVE  k <= Len(t) /\ s[k] = t[k]
<1> DEFINE T == {i \in 1..Len(s) : ~(i <= Len(t) /\ s[i] = t[i])}
<1> SUFFICES ASSUME T # {} PROVE FALSE
  BY Zenon
<1>1. Len(s) \in Nat /\ DOMAIN s = 1..Len(s) /\ Len(t) \in Nat /\ DOMAIN t = 1..Len(t)
  OBVIOUS
<1>2. ASSUME NEW a \in Seq(Nat), NEW i \in 1..Len(a), NEW j \in 1..Len(a), Increasing(a)
      PROVE  /\ a[i] \in Nat /\ a[j] \in Nat
             /\ i < j => a[i] < a[j]
  <2>1. DOMAIN a = 1..Len(a) /\ \A n \in DOMAIN a : a[n] \in Nat
    BY SMTT(30)
  <2> QED
    BY <1>2, <2>1 DEF Increasing
<1>3. PICK x \in T : \A y \in T : x <= y
  <2>1. T \subseteq Nat
    BY <1>1
  <2> HIDE DEF T
  <2> QED
    BY <2>1, LeastElement
<1>4. x \in 1..Len(s) /\ ~(x <= Len(t) /\ s[x] = t[x])
  OBVIOUS
<1>5. ASSUME NEW i \in 1..Len(s), i < x
      PROVE  i \in 1..Len(t) /\ s[i] = t[i]
  BY <1>1, <1>3, <1>4, <1>5
<1> HIDE DEF T
<1>6. PICK m \in 1..Len(t) : s[x] = t[m]
  BY <1>1, <1>4 DEF Elements
<1>7. m >= x
  <2> SUFFICES ASSUME m < x PROVE FALSE
    BY <1>1, <1>4
  <2>1. m \in 1..Len(s) /\ s[m] = t[m]
    BY <1>1, <1>4, <1>5
  <2> QED
    BY <1>2, <1>4, <1>6, <2>1
<1>8. x \in 1..Len(t)
  BY <1>1, <1>4, <1>7
<1>9. PICK n \in 1..Len(s) : s[n] = t[x]
  BY <1>1, <1>8 DEF Elements
<1>10. n >= x
  <2> SUFFICES ASSUME n < x PROVE FALSE
    BY <1>1, <1>4
  <2>1. n \in 1..Len(t) /\ s[n] = t[n]
    BY <1>4, <1>5
  <2>2. t[n] \in Nat /\ (n < x => t[n] < t[x])
    BY <1>2, <1>8, <2>1
  <2> QED
    BY <1>9, <2>1, <2>2
<1>11. s[x] \in Nat /\ t[x] \in Nat /\ (x < n => s[x] < s[n]) /\ (x < m => t[x] < t[m])
  BY <1>2, <1>4, <1>8
<1> QED
  BY <1>1, <1>4, <1>6, <1>7, <1>8, <1>9, <1>10, <1>11

\* Two increasing sequences of the same numbers are equal.
LEMMA IncreasingIsUnique ==
  ASSUME NEW s \in Seq(Nat), NEW t \in Seq(Nat), Increasing(s), Increasing(t),
         Elements(s) = Elements(t)
  PROVE  s = t
<1>1. \A k \in 1..Len(s) : k <= Len(t) /\ s[k] = t[k]
  BY IncreasingPrefix
<1>2. \A k \in 1..Len(t) : k <= Len(s) /\ s[k] = t[k]
  BY IncreasingPrefix
<1>3. Len(s) = Len(t)
  BY <1>1, <1>2
<1> QED
  BY <1>1, <1>3
-----------------------------------------------------------------------------
(* Only: the recursive function that defines it exists, and what it returns *)
(* is the sequence without the elements that are not in the set.            *)

KeptAt(f, s, T, n) ==
  IF n = 0 THEN <<>>
  ELSE IF s[n] \in T THEN Append(f[n - 1], s[n])
  ELSE f[n - 1]

IsKept(f, A, s, T) ==
  /\ f \in [0..Len(s) -> Seq(A)]
  /\ \A n \in 0..Len(s) : f[n] = KeptAt(f, s, T, n)

LEMMA KeptExists ==
  ASSUME NEW A, NEW s \in Seq(A), NEW T
  PROVE  \E f : IsKept(f, A, s, T)
<1> DEFINE Defined(m) ==
             \E f \in [0..m -> Seq(A)] : \A n \in 0..m : f[n] = KeptAt(f, s, T, n)
           S == {m \in 0..Len(s) : Defined(m)}
<1>1. Len(s) \in Nat /\ \A i \in 1..Len(s) : s[i] \in A
  OBVIOUS
<1>2. 0 \in S
  <2> DEFINE f == [n \in 0..0 |-> <<>>]
  <2>1. f \in [0..0 -> Seq(A)] /\ \A n \in 0..0 : f[n] = KeptAt(f, s, T, n)
    BY DEF KeptAt
  <2>2. Defined(0)
    BY <2>1
  <2> QED
    BY <1>1, <2>2
<1>3. ASSUME NEW m \in 1..Len(s), m - 1 \in S
      PROVE  m \in S
  <2>1. PICK f \in [0..(m - 1) -> Seq(A)] :
          \A n \in 0..(m - 1) : f[n] = KeptAt(f, s, T, n)
    BY <1>3
  <2> DEFINE g == [n \in 0..m |-> IF n = m THEN KeptAt(f, s, T, m) ELSE f[n]]
  <2>2. m - 1 \in 0..(m - 1) /\ m \in Nat \ {0} /\ s[m] \in A
    BY <1>1
  <2>3. KeptAt(f, s, T, m) \in Seq(A)
    BY <2>1, <2>2 DEF KeptAt
  <2>4. g \in [0..m -> Seq(A)]
    BY <2>1, <2>3
  <2>5. ASSUME NEW n \in 0..m
        PROVE  g[n] = KeptAt(g, s, T, n)
    <3>1. n # 0 => n - 1 \in 0..(m - 1) /\ g[n - 1] = f[n - 1]
      BY <2>2
    <3>2. KeptAt(g, s, T, n) = KeptAt(f, s, T, n)
      BY <3>1 DEF KeptAt
    <3>3. n # m => n \in 0..(m - 1)
      BY <2>2
    <3> QED
      BY <2>1, <3>2, <3>3
  <2>6. Defined(m)
    BY <2>4, <2>5
  <2> HIDE DEF Defined
  <2> QED
    BY <1>1, <2>6
<1> HIDE DEF S
<1>4. \A m \in 0..Len(s) : m \in S
  BY <1>1, <1>2, <1>3, InductionUpTo
<1>5. Len(s) \in S
  BY <1>1, <1>4
<1> QED
  BY <1>5 DEF S, IsKept

\* Only is what the function returns for the whole sequence.
LEMMA OnlyDefinition ==
  ASSUME NEW A, NEW s \in Seq(A), NEW T
  PROVE  \E f : IsKept(f, A, s, T) /\ Only(s, T) = f[Len(s)]
<1> DEFINE F(f) == [n \in 0..Len(s) |-> IF n = 0 THEN <<>>
                                        ELSE IF s[n] \in T THEN Append(f[n - 1], s[n])
                                        ELSE f[n - 1]]
           kept == CHOOSE f : f = F(f)
<1>1. \E f : f = F(f)
  <2>1. PICK f : IsKept(f, A, s, T)
    BY KeptExists, Zenon
  <2>2. f = F(f)
    BY <2>1 DEF IsKept, KeptAt
  <2> QED
    BY <2>2
<1>2. Only(s, T) = kept[Len(s)]
  BY DEF Only
<1>3. kept = F(kept)
  <2> HIDE DEF F
  <2> QED
    BY <1>1, Zenon
<1> HIDE DEF kept
<1>4. DOMAIN kept = 0..Len(s) /\ \A n \in 0..Len(s) : kept[n] = KeptAt(kept, s, T, n)
  BY <1>3 DEF KeptAt
<1> DEFINE S == {n \in 0..Len(s) : kept[n] \in Seq(A)}
<1>5. 0 \in S
  <2>1. 0 \in 0..Len(s) /\ <<>> \in Seq(A)
    OBVIOUS
  <2> QED
    BY <1>4, <2>1 DEF KeptAt
<1>6. ASSUME NEW n \in 1..Len(s), n - 1 \in S
      PROVE  n \in S
  <2>1. s[n] \in A /\ n \in 0..Len(s) /\ n # 0 /\ kept[n - 1] \in Seq(A)
    BY <1>6
  <2>2. kept[n] = IF s[n] \in T THEN Append(kept[n - 1], s[n]) ELSE kept[n - 1]
    BY <1>4, <2>1 DEF KeptAt
  <2> HIDE DEF F
  <2>3. kept[n] \in Seq(A)
    BY <2>1, <2>2
  <2> QED
    BY <2>1, <2>3
<1>7. \A n \in 0..Len(s) : n \in S
  <2>1. Len(s) \in Nat
    OBVIOUS
  <2> HIDE DEF S
  <2> QED
    BY <1>5, <1>6, <2>1, InductionUpTo
<1>8. kept = [n \in 0..Len(s) |-> kept[n]]
  BY <1>3
<1>9. kept \in [0..Len(s) -> Seq(A)]
  BY <1>7, <1>8
<1> QED
  BY <1>2, <1>4, <1>9 DEF IsKept

\* What is kept of s, as positions of s in increasing order.
Keeps(e, t, s, n, T) ==
  /\ e \in [1..Len(t) -> 1..n]
  /\ \A j, k \in 1..Len(t) : j < k => e[j] < e[k]
  /\ \A k \in 1..Len(t) : t[k] = s[e[k]] /\ s[e[k]] \in T
  /\ \A i \in 1..n : s[i] \in T => \E k \in 1..Len(t) : e[k] = i

LEMMA OnlyKeeps ==
  ASSUME NEW A, NEW s \in Seq(A), NEW T
  PROVE  /\ Only(s, T) \in Seq(A)
         /\ \E e : Keeps(e, Only(s, T), s, Len(s), T)
<1>1. PICK f : IsKept(f, A, s, T) /\ Only(s, T) = f[Len(s)]
  BY OnlyDefinition, Zenon
<1>2. /\ Len(s) \in Nat /\ \A i \in 1..Len(s) : s[i] \in A
      /\ \A n \in 0..Len(s) : f[n] \in Seq(A) /\ f[n] = KeptAt(f, s, T, n)
  BY <1>1, SMTT(30) DEF IsKept
<1> DEFINE S == {n \in 0..Len(s) : \E e : Keeps(e, f[n], s, n, T)}
<1>3. 0 \in S
  <2> DEFINE e == [k \in {} |-> 0]
  <2>1. f[0] = <<>>
    BY <1>2 DEF KeptAt
  <2>2. Keeps(e, f[0], s, 0, T)
    BY <2>1 DEF Keeps
  <2> QED
    BY <1>2, <2>2
<1>4. ASSUME NEW n \in 1..Len(s), n - 1 \in S
      PROVE  n \in S
  <2>1. PICK e : Keeps(e, f[n - 1], s, n - 1, T)
    BY <1>4
  <2>2. f[n - 1] \in Seq(A) /\ s[n] \in A /\ n \in 0..Len(s) /\ n # 0
    BY <1>2
  <2>3. f[n] = IF s[n] \in T THEN Append(f[n - 1], s[n]) ELSE f[n - 1]
    BY <1>2, <2>2 DEF KeptAt
  <2>4. CASE s[n] \notin T
    <3>1. Keeps(e, f[n], s, n, T)
      BY <2>1, <2>2, <2>3, <2>4 DEF Keeps
    <3> QED
      BY <2>2, <3>1
  <2>5. CASE s[n] \in T
    <3> DEFINE t == f[n - 1]
               g == [k \in 1..(Len(t) + 1) |-> IF k = Len(t) + 1 THEN n ELSE e[k]]
    <3>1. /\ f[n] = Append(t, s[n]) /\ Len(f[n]) = Len(t) + 1 /\ Len(t) \in Nat
          /\ f[n][Len(t) + 1] = s[n]
          /\ \A k \in 1..Len(t) : f[n][k] = t[k]
      BY <2>2, <2>3, <2>5
    <3>2. /\ e \in [1..Len(t) -> 1..(n - 1)]
          /\ \A j, k \in 1..Len(t) : j < k => e[j] < e[k]
          /\ \A k \in 1..Len(t) : t[k] = s[e[k]] /\ s[e[k]] \in T
          /\ \A i \in 1..(n - 1) : s[i] \in T => \E k \in 1..Len(t) : e[k] = i
      BY <2>1 DEF Keeps
    <3> HIDE DEF t
    <3>3. g \in [1..(Len(t) + 1) -> 1..n]
      BY <2>2, <3>1, <3>2
    <3>4. ASSUME NEW j \in 1..(Len(t) + 1), NEW k \in 1..(Len(t) + 1), j < k
          PROVE  g[j] < g[k]
      <4>1. j \in 1..Len(t) /\ g[j] = e[j] /\ e[j] \in 1..(n - 1)
        BY <3>1, <3>2, <3>4
      <4>2. CASE k = Len(t) + 1
        BY <4>1, <4>2
      <4>3. CASE k # Len(t) + 1
        BY <3>1, <3>2, <3>4, <4>1, <4>3
      <4> QED
        BY <4>2, <4>3
    <3>5. \A k \in 1..(Len(t) + 1) : f[n][k] = s[g[k]] /\ s[g[k]] \in T
      BY <2>2, <2>5, <3>1, <3>2
    <3>6. ASSUME NEW i \in 1..n, s[i] \in T
          PROVE  \E k \in 1..(Len(t) + 1) : g[k] = i
      <4>1. CASE i = n
        BY <3>1, <4>1
      <4>2. CASE i # n
        <5>1. PICK k \in 1..Len(t) : e[k] = i
          BY <2>2, <3>2, <3>6, <4>2
        <5> QED
          BY <3>1, <5>1
      <4> QED
        BY <4>1, <4>2
    <3>7. Keeps(g, f[n], s, n, T)
      BY <3>1, <3>3, <3>4, <3>5, <3>6 DEF Keeps
    <3> QED
      BY <2>2, <3>7
  <2> QED
    BY <2>4, <2>5
<1>5. \A n \in 0..Len(s) : n \in S
  <2> HIDE DEF S
  <2> QED
    BY <1>2, <1>3, <1>4, InductionUpTo
<1>6. Len(s) \in S
  BY <1>2, <1>5
<1> QED
  BY <1>1, <1>2, <1>6
\* The elements that are kept are those of the set.
LEMMA OnlyElements ==
  ASSUME NEW A, NEW s \in Seq(A), NEW T
  PROVE  Elements(Only(s, T)) = Elements(s) \cap T
<1>1. Only(s, T) \in Seq(A) /\ \E e : Keeps(e, Only(s, T), s, Len(s), T)
  BY OnlyKeeps
<1>2. PICK e : Keeps(e, Only(s, T), s, Len(s), T)
  BY <1>1
<1> DEFINE t == Only(s, T)
<1>3. DOMAIN s = 1..Len(s) /\ DOMAIN t = 1..Len(t)
  BY <1>1
<1> HIDE DEF t
<1>4. Keeps(e, t, s, Len(s), T)
  BY <1>2 DEF t
<1>5. Elements(t) \subseteq Elements(s) \cap T
  BY <1>3, <1>4 DEF Keeps, Elements
<1>6. ASSUME NEW i \in 1..Len(s), s[i] \in T
      PROVE  s[i] \in Elements(t)
  <2>1. PICK k \in 1..Len(t) : e[k] = i
    BY <1>4, <1>6 DEF Keeps
  <2> QED
    BY <1>3, <1>4, <2>1 DEF Keeps, Elements
<1> QED
  BY <1>3, <1>5, <1>6 DEF Elements, t

\* If an element is kept, the last one that is kept is that element or a later one.
LEMMA LastKept ==
  ASSUME NEW A, NEW s \in Seq(A), NEW T, NEW i \in 1..Len(s), s[i] \in T
  PROVE  /\ Only(s, T) # <<>>
         /\ \E j \in i..Len(s) : s[j] \in T /\ Only(s, T)[Len(Only(s, T))] = s[j]
<1> DEFINE t == Only(s, T)
<1>1. t \in Seq(A) /\ \E e : Keeps(e, t, s, Len(s), T)
  BY OnlyKeeps
<1> HIDE DEF t
<1>2. PICK e : Keeps(e, t, s, Len(s), T)
  BY <1>1
<1>3. Len(s) \in Nat /\ Len(t) \in Nat
  BY <1>1
<1>4. PICK k \in 1..Len(t) : e[k] = i
  BY <1>2 DEF Keeps
<1>5. /\ Len(t) \in 1..Len(t) /\ e[Len(t)] \in 1..Len(s)
      /\ t[Len(t)] = s[e[Len(t)]] /\ s[e[Len(t)]] \in T
  BY <1>2, <1>3, <1>4 DEF Keeps
<1>6. e[Len(t)] >= i
  BY <1>2, <1>3, <1>4, <1>5 DEF Keeps
<1>7. t # <<>>
  BY <1>1, <1>4
<1> QED
  BY <1>3, <1>5, <1>6, <1>7 DEF t

\* A sequence is its first part and the rest.
LEMMA Parts ==
  ASSUME NEW A, NEW s \in Seq(A), NEW n \in 1..Len(s) + 1
  PROVE  /\ SubSeq(s, 1, n - 1) \in Seq(A) /\ SubSeq(s, n, Len(s)) \in Seq(A)
         /\ Len(SubSeq(s, 1, n - 1)) = n - 1
         /\ Len(SubSeq(s, n, Len(s))) = Len(s) + 1 - n
         /\ \A i \in 1..n - 1 : SubSeq(s, 1, n - 1)[i] = s[i]
         /\ \A i \in 1..Len(s) + 1 - n : SubSeq(s, n, Len(s))[i] = s[n - 1 + i]
         /\ Elements(SubSeq(s, 1, n - 1)) = {s[i] : i \in 1..n - 1}
         /\ Elements(SubSeq(s, n, Len(s))) = {s[i] : i \in n..Len(s)}
<1> DEFINE a == SubSeq(s, 1, n - 1)
           b == SubSeq(s, n, Len(s))
<1>1. /\ Len(s) \in Nat
      /\ a \in Seq(A) /\ b \in Seq(A) /\ Len(a) = n - 1 /\ Len(b) = Len(s) + 1 - n
      /\ DOMAIN a = 1..n - 1 /\ DOMAIN b = 1..Len(s) + 1 - n
  OBVIOUS
<1>2. /\ \A i \in 1..n - 1 : a[i] = s[i]
      /\ \A i \in 1..Len(s) + 1 - n : b[i] = s[n - 1 + i]
  BY <1>1
<1> HIDE DEF a, b
<1>3. Elements(a) = {s[i] : i \in 1..n - 1}
  BY <1>1, <1>2 DEF Elements
<1>4. Elements(b) = {s[i] : i \in n..Len(s)}
  <2>1. ASSUME NEW i \in n..Len(s)
        PROVE  i - n + 1 \in 1..Len(s) + 1 - n /\ b[i - n + 1] = s[i]
    BY <1>1, <1>2
  <2>2. ASSUME NEW i \in 1..Len(s) + 1 - n
        PROVE  n - 1 + i \in n..Len(s) /\ b[i] = s[n - 1 + i]
    BY <1>1, <1>2
  <2>3. Elements(b) \subseteq {s[i] : i \in n..Len(s)}
    BY <1>1, <2>2 DEF Elements
  <2>4. {s[i] : i \in n..Len(s)} \subseteq Elements(b)
    BY <1>1, <2>1 DEF Elements
  <2> QED
    BY <2>3, <2>4
<1> QED
  BY <1>1, <1>2, <1>3, <1>4 DEF a, b

\* Two sequences, one after the other.
LEMMA Concatenation ==
  ASSUME NEW A, NEW s \in Seq(A), NEW t \in Seq(A)
  PROVE  /\ s \o t \in Seq(A) /\ Len(s \o t) = Len(s) + Len(t)
         /\ \A i \in 1..Len(s) : (s \o t)[i] = s[i]
         /\ \A i \in 1..Len(t) : (s \o t)[Len(s) + i] = t[i]
         /\ Elements(s \o t) = Elements(s) \cup Elements(t)
<1>1. /\ s \o t \in Seq(A) /\ Len(s \o t) = Len(s) + Len(t)
      /\ Len(s) \in Nat /\ Len(t) \in Nat
      /\ DOMAIN s = 1..Len(s) /\ DOMAIN t = 1..Len(t)
      /\ DOMAIN (s \o t) = 1..(Len(s) + Len(t))
  OBVIOUS
<1>2. /\ \A i \in 1..Len(s) : (s \o t)[i] = s[i]
      /\ \A i \in 1..Len(t) : (s \o t)[Len(s) + i] = t[i]
  BY <1>1
<1> DEFINE st == s \o t
<1>3. Elements(st) \subseteq Elements(s) \cup Elements(t)
  <2> SUFFICES ASSUME NEW i \in 1..(Len(s) + Len(t))
               PROVE  st[i] \in Elements(s) \cup Elements(t)
    BY <1>1 DEF Elements
  <2>1. CASE i \in 1..Len(s)
    BY <1>1, <1>2, <2>1 DEF Elements
  <2>2. CASE i \notin 1..Len(s)
    <3>1. i - Len(s) \in 1..Len(t) /\ i = Len(s) + (i - Len(s))
      BY <1>1, <2>2
    <3>2. st[i] = t[i - Len(s)]
      BY <1>2, <3>1
    <3> QED
      BY <1>1, <3>1, <3>2 DEF Elements
  <2> QED
    BY <2>1, <2>2
<1>4. Elements(s) \subseteq Elements(st) /\ Elements(t) \subseteq Elements(st)
  <2>1. ASSUME NEW i \in 1..Len(s) PROVE s[i] \in Elements(st)
    BY <1>1, <1>2 DEF Elements
  <2>2. ASSUME NEW i \in 1..Len(t) PROVE t[i] \in Elements(st)
    <3>1. Len(s) + i \in 1..(Len(s) + Len(t)) /\ st[Len(s) + i] = t[i]
      BY <1>1, <1>2
    <3> QED
      BY <1>1, <3>1 DEF Elements
  <2> QED
    BY <1>1, <2>1, <2>2 DEF Elements
<1> QED
  BY <1>1, <1>2, <1>3, <1>4
=============================================================================
