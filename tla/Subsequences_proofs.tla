------------------------ MODULE Subsequences_proofs ------------------------
(***************************************************************************)
(* What Kept returns.  The provers have no induction; that a set of        *)
(* numbers has a least element follows from the well-foundedness of the    *)
(* inclusion of finite sets, and induction from that.                      *)
(***************************************************************************)
EXTENDS Subsequences, FiniteSetTheorems, SequenceTheorems, TLAPS

\* A set of numbers that is not empty has a least element.
LEMMA Smallest ==
  ASSUME NEW T \in SUBSET Nat, T # {}
  PROVE  \E x \in T : \A y \in T : x <= y
<1> DEFINE U == {0..k : k \in T}
<1>1. U \subseteq FiniteSubsetsOf(Nat) /\ U # {}
  <2>1. ASSUME NEW k \in T PROVE 0..k \in FiniteSubsetsOf(Nat)
    BY FS_Interval DEF FiniteSubsetsOf
  <2> QED
    BY <2>1
<1>2. PICK u \in U : \A v \in U : <<v, u>> \notin StrictSubsetOrdering(Nat)
  BY <1>1, WFMin, FS_StrictSubsetOrderingWellFounded
<1>3. PICK k \in T : u = 0..k
  BY <1>2
<1>4. ASSUME NEW j \in T, j < k PROVE FALSE
  <2>1. 0..j \subseteq 0..k /\ k \in 0..k /\ k \notin 0..j
    BY <1>4
  <2>2. 0..j \in U /\ 0..j # 0..k /\ 0..j \in SUBSET Nat /\ 0..k \in SUBSET Nat
    BY <2>1
  <2>3. <<0..j, 0..k>> \in StrictSubsetOrdering(Nat)
    BY <2>1, <2>2 DEF StrictSubsetOrdering
  <2> QED
    BY <1>2, <1>3, <2>2, <2>3
<1> QED
  BY <1>4

\* A set of numbers that is not empty and has a bound has a greatest element.
LEMMA Largest ==
  ASSUME NEW T \in SUBSET Nat, T # {}, NEW b \in Nat, \A x \in T : x <= b
  PROVE  \E x \in T : \A y \in T : y <= x
<1> DEFINE U == {b - x : x \in T}
<1>1. U \in SUBSET Nat /\ U # {}
  <2>1. \A x \in T : b - x \in Nat
    OBVIOUS
  <2> QED
    BY <2>1
<1>2. PICK u \in U : \A v \in U : u <= v
  BY <1>1, Smallest
<1>3. PICK x \in T : u = b - x
  BY <1>2
<1>4. ASSUME NEW y \in T PROVE y <= x
  BY <1>2, <1>3
<1> QED
  BY <1>4

\* Induction over the numbers, for a set.
LEMMA Induction ==
  ASSUME NEW T \in SUBSET Nat, 0 \in T, \A n \in T : n + 1 \in T
  PROVE  T = Nat
<1> SUFFICES ASSUME Nat \ T # {} PROVE FALSE
  OBVIOUS
<1>1. PICK x \in Nat \ T : \A y \in Nat \ T : x <= y
  BY Smallest
<1>2. x # 0 /\ x - 1 \in Nat
  BY <1>1
<1>3. x - 1 \in T
  BY <1>1, <1>2
<1> QED
  BY <1>1, <1>2, <1>3

\* The recursion of Kept
Step(s, K, f, n) ==
  IF n = 0 THEN <<>> ELSE IF n \in K THEN Append(f[n - 1], s[n]) ELSE f[n - 1]

\* The recursion of Kept defines a function.
LEMMA StepsExist ==
  ASSUME NEW s, NEW K, NEW n \in Nat
  PROVE  \E f : f = [i \in 0..n |-> Step(s, K, f, i)]
<1> DEFINE T == {m \in Nat : \E f : f = [i \in 0..m |-> Step(s, K, f, i)]}
<1>1. 0 \in T
  <2> DEFINE f == [i \in 0..0 |-> <<>>]
  <2>1. f = [i \in 0..0 |-> Step(s, K, f, i)]
    BY DEF Step
  <2> QED
    BY <2>1
<1>2. ASSUME NEW m \in T PROVE m + 1 \in T
  <2>1. PICK f : f = [i \in 0..m |-> Step(s, K, f, i)]
    OBVIOUS
  <2> DEFINE g == [i \in 0..(m + 1) |-> IF i \in 0..m THEN f[i] ELSE Step(s, K, f, i)]
  <2>2. ASSUME NEW i \in 0..(m + 1) PROVE g[i] = Step(s, K, g, i)
    <3>1. Step(s, K, g, i) = Step(s, K, f, i)
      BY DEF Step
    <3> QED
      BY <2>1, <3>1
  <2>3. g = [i \in 0..(m + 1) |-> Step(s, K, g, i)]
    BY <2>2
  <2> HIDE DEF g
  <2> QED
    BY <2>3
<1>3. T = Nat
  BY <1>1, <1>2, Induction
<1> QED
  BY <1>3

LEMMA KeptSteps ==
  ASSUME NEW S, NEW s \in Seq(S), NEW K
  PROVE  \E f : /\ f = [i \in 0..Len(s) |-> Step(s, K, f, i)]
               /\ Kept(s, K) = f[Len(s)]
<1> DEFINE f == CHOOSE f : f = [i \in 0..Len(s) |-> Step(s, K, f, i)]
<1>1. f = [i \in 0..Len(s) |-> Step(s, K, f, i)]
  BY StepsExist
<1>2. Kept(s, K) = f[Len(s)]
  BY DEF Kept, Step
<1> QED
  BY <1>1, <1>2

\* t is the elements of s at the positions K up to n, in order, and h says from where.
Picks(s, K, n, t, h) ==
  /\ h \in [1..Len(t) -> 1..n]
  /\ \A i \in 1..Len(t) : h[i] \in K /\ t[i] = s[h[i]]
  /\ \A i, j \in 1..Len(t) : i < j => h[i] < h[j]
  /\ \A k \in K \cap (1..n) : \E i \in 1..Len(t) : h[i] = k

\* Kept(s, K) is a sequence, and picks the positions K of s.
LEMMA KeptPicks ==
  ASSUME NEW S, NEW s \in Seq(S), NEW K
  PROVE  /\ Kept(s, K) \in Seq(S)
         /\ \E h : Picks(s, K, Len(s), Kept(s, K), h)
<1> DEFINE N == Len(s)
<1>1. N \in Nat /\ \A i \in 1..N : s[i] \in S
  OBVIOUS
<1>2. PICK f : f = [i \in 0..N |-> Step(s, K, f, i)] /\ Kept(s, K) = f[N]
  BY KeptSteps
<1>3. \A i \in 0..N : f[i] = Step(s, K, f, i)
  BY <1>2
<1> DEFINE P(m) == f[m] \in Seq(S) /\ \E h : Picks(s, K, m, f[m], h)
           T == {m \in Nat : m <= N => P(m)}
<1> HIDE DEF N
<1>4. P(0)
  <2>1. f[0] = <<>>
    BY <1>1, <1>3 DEF Step
  <2>2. Picks(s, K, 0, <<>>, [i \in 1..0 |-> 0])
    BY DEF Picks
  <2> QED
    BY <2>1, <2>2
<1>5. ASSUME NEW m \in Nat, m + 1 <= N, P(m) PROVE P(m + 1)
  <2>1. f[m + 1] = IF m + 1 \in K THEN Append(f[m], s[m + 1]) ELSE f[m]
    <3>1. m + 1 \in 0..N /\ m + 1 # 0 /\ (m + 1) - 1 = m
      BY <1>1, <1>5
    <3> QED
      BY <1>3, <3>1 DEF Step
  <2>2. PICK h : Picks(s, K, m, f[m], h)
    BY <1>5
  <2>3. CASE m + 1 \notin K
    <3>1. Picks(s, K, m + 1, f[m], h)
      BY <1>5, <2>2, <2>3 DEF Picks
    <3> QED
      BY <1>5, <2>1, <2>3, <3>1
  <2>4. CASE m + 1 \in K
    <3> DEFINE t == f[m + 1]
               l == Len(f[m]) + 1
               g == [i \in 1..l |-> IF i = l THEN m + 1 ELSE h[i]]
    <3>1. s[m + 1] \in S
      BY <1>1, <1>5
    <3>2. /\ t \in Seq(S) /\ Len(t) = l /\ l \in Nat /\ Len(f[m]) \in Nat /\ Len(f[m]) = l - 1
          /\ t[l] = s[m + 1] /\ \A i \in 1..Len(f[m]) : t[i] = f[m][i]
      BY <1>5, <2>1, <2>4, <3>1, AppendProperties
    <3> HIDE DEF t, l
    <3>3. \A i \in 1..(l - 1) : h[i] \in 1..m /\ h[i] \in K /\ f[m][i] = s[h[i]]
      BY <2>2, <3>2 DEF Picks
    <3>4. \A i \in 1..l : g[i] = IF i = l THEN m + 1 ELSE h[i]
      OBVIOUS
    <3>5. 1..(l - 1) \subseteq 1..l /\ l \in 1..l /\ l \notin 1..(l - 1)
      BY <3>2
    <3>6. /\ \A i \in 1..(l - 1) : /\ h[i] \in 1..m /\ h[i] \in K /\ t[i] = s[h[i]]
                                  /\ g[i] = h[i]
          /\ g[l] = m + 1
      BY <3>2, <3>3, <3>4, <3>5
    <3>7. \A i, j \in 1..(l - 1) : i < j => h[i] < h[j]
      BY <2>2, <3>2 DEF Picks
    <3>8. \A k \in K \cap (1..m) : \E i \in 1..(l - 1) : h[i] = k
      BY <2>2, <3>2 DEF Picks
    <3>9. g \in [1..l -> 1..(m + 1)]
      <4>1. \A i \in 1..l : i = l \/ i \in 1..(l - 1)
        BY <3>2
      <4>2. ASSUME NEW i \in 1..l PROVE (IF i = l THEN m + 1 ELSE h[i]) \in 1..(m + 1)
        BY <1>5, <3>3, <4>1
      <4> QED
        BY <4>2
    <3> HIDE DEF g
    <3>10. ASSUME NEW i \in 1..l PROVE g[i] \in K /\ t[i] = s[g[i]]
      <4>1. i = l \/ i \in 1..(l - 1)
        BY <3>2
      <4> QED
        BY <2>4, <3>2, <3>6, <4>1
    <3>11. ASSUME NEW i \in 1..l, NEW j \in 1..l, i < j PROVE g[i] < g[j]
      <4>1. i \in 1..(l - 1) /\ (j = l \/ j \in 1..(l - 1))
        BY <3>2, <3>11
      <4> QED
        BY <1>5, <3>2, <3>6, <3>7, <3>11, <4>1
    <3>12. \A k \in K \cap (1..(m + 1)) : \E i \in 1..l : g[i] = k
      <4>1. l \in 1..l /\ 1..(l - 1) \subseteq 1..l
        BY <3>2
      <4>2. \A k \in 1..(m + 1) : k = m + 1 \/ k \in 1..m
        BY <1>5
      <4> QED
        BY <3>6, <3>8, <4>1, <4>2
    <3>13. Picks(s, K, m + 1, t, g)
      BY <3>2, <3>9, <3>10, <3>11, <3>12 DEF Picks
    <3> QED
      BY <3>2, <3>13 DEF t
  <2> QED
    BY <2>3, <2>4
<1> HIDE DEF P
<1>6. 0 \in T
  BY <1>4
<1>7. \A m \in T : m + 1 \in T
  BY <1>1, <1>5
<1>8. T \subseteq Nat
  OBVIOUS
<1> HIDE DEF T
<1>9. T = Nat
  BY <1>6, <1>7, <1>8, Induction
<1>10. P(N)
  BY <1>1, <1>9 DEF T
<1> QED
  BY <1>2, <1>10 DEF P, N

\* What is distinct stays distinct.
LEMMA KeptDistinct ==
  ASSUME NEW S, NEW s \in Seq(S), NEW K,
         \A i, j \in DOMAIN s : s[i] = s[j] => i = j
  PROVE  LET t == Kept(s, K)
         IN  /\ t \in Seq(S)
             /\ \A i, j \in DOMAIN t : t[i] = t[j] => i = j
             /\ \A i \in DOMAIN t : \E k \in DOMAIN s : k \in K /\ t[i] = s[k]
<1> DEFINE t == Kept(s, K)
<1>1. PICK h : Picks(s, K, Len(s), t, h)
  BY KeptPicks
<1>2. t \in Seq(S) /\ DOMAIN t = 1..Len(t) /\ DOMAIN s = 1..Len(s) /\ Len(t) \in Nat
  BY KeptPicks
<1>3. ASSUME NEW i \in DOMAIN t, NEW j \in DOMAIN t, t[i] = t[j] PROVE i = j
  <2>1. h[i] = h[j]
    BY <1>1, <1>2, <1>3 DEF Picks
  <2> QED
    BY <1>1, <1>2, <2>1 DEF Picks
<1>4. \A i \in DOMAIN t : \E k \in DOMAIN s : k \in K /\ t[i] = s[k]
  BY <1>1, <1>2 DEF Picks
<1> QED
  BY <1>2, <1>3, <1>4
=============================================================================
