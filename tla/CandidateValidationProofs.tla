------------------------ MODULE CandidateValidationProofs ------------------------
(***************************************************************************)
(* Theorems about CandidateValidation for every set of addresses, lists of *)
(* any length, every number of passes, every limit and every outcome of    *)
(* the checks.                                                             *)
(***************************************************************************)
EXTENDS CandidateValidation, SequenceTheorems, FiniteSetTheorems, NaturalsInduction, TLAPS

(***************************************************************************)
(* Sequences without repetition.                                           *)
(***************************************************************************)
Once(s) == \A i, j \in 1 .. Len(s) : s[i] = s[j] => i = j

\* The elements of a sequence, by their indices.
LEMMA ElementsOfSeq ==
  ASSUME NEW S, NEW s \in Seq(S)
  PROVE  /\ ToSet(s) = {s[i] : i \in 1 .. Len(s)}
         /\ ToSet(s) \subseteq S
  BY LenProperties DEF ToSet

\* A sequence has finitely many elements.
LEMMA ElementsAreFinite ==
  ASSUME NEW S, NEW s \in Seq(S)
  PROVE  IsFiniteSet(ToSet(s))
  <1>1. Len(s) \in Nat /\ s \in [1 .. Len(s) -> S]
    BY LenProperties
  <1>2. s \in [1 .. Len(s) -> ToSet(s)]
    BY <1>1, ElementsOfSeq
  <1>3. s \in Surjection(1 .. Len(s), ToSet(s))
    BY <1>2, ElementsOfSeq DEF Surjection
  <1>4. IsFiniteSet(1 .. Len(s))
    BY <1>1, FS_Interval
  <1> QED
    BY <1>3, <1>4, FS_Surjection

\* A slice from the front keeps the elements and their places.
LEMMA LimitKeepsPlaces ==
  ASSUME NEW S, NEW s \in Seq(S), NEW n \in Nat
  PROVE  /\ Limit(s, n) \in Seq(S)
         /\ Len(Limit(s, n)) = IF n = 0 \/ n >= Len(s) THEN Len(s) ELSE n
         /\ Len(Limit(s, n)) <= Len(s)
         /\ \A i \in 1 .. Len(Limit(s, n)) : Limit(s, n)[i] = s[i]
  <1>1. Len(s) \in Nat
    BY LenProperties
  <1>2. CASE n = 0 \/ n >= Len(s)
    BY <1>1, <1>2 DEF Limit
  <1>3. CASE ~(n = 0 \/ n >= Len(s))
    <2>1. Limit(s, n) = SubSeq(s, 1, n) /\ n \in Nat /\ 1 <= n /\ n < Len(s)
      BY <1>1, <1>3 DEF Limit
    <2>2. \A i \in 1 .. n : s[i] \in S
      BY <1>1, <2>1, ElementOfSeq
    <2>3. /\ SubSeq(s, 1, n) \in Seq(S)
          /\ Len(SubSeq(s, 1, n)) = IF 1 <= n THEN n - 1 + 1 ELSE 0
          /\ \A i \in 1 .. n - 1 + 1 : SubSeq(s, 1, n)[i] = s[1 + i - 1]
      BY <2>2, SubSeqProperties
    <2> QED
      BY <1>1, <2>1, <2>3
  <1> QED
    BY <1>2, <1>3

\* An ordering of a finite set holds each of its elements once and no other.
LEMMA OrderingsOfSet ==
  ASSUME NEW S, IsFiniteSet(S), NEW s \in SetToSeqs(S)
  PROVE  /\ s \in Seq(S)
         /\ Len(s) = Cardinality(S) /\ Cardinality(S) \in Nat
         /\ Once(s)
         /\ \A x \in S : \E i \in 1 .. Len(s) : s[i] = x
  <1> DEFINE n == Cardinality(S)
  <1>1. n \in Nat
    BY FS_CardinalityType
  <1>2. /\ s \in [1 .. n -> S]
        /\ \A i, j \in 1 .. n : i # j => s[i] # s[j]
    BY DEF SetToSeqs
  <1>3. s \in Seq(S) /\ Len(s) = n
    <2>1. s \in Seq(S)
      BY <1>1, <1>2, SeqDef
    <2>2. Len(s) \in Nat /\ DOMAIN s = 1 .. Len(s) /\ DOMAIN s = 1 .. n
      BY <1>2, <2>1, LenProperties
    <2>3. Len(s) = n
      BY <1>1, <2>2
    <2> QED
      BY <2>1, <2>3
  <1>4. Once(s)
    BY <1>2, <1>3 DEF Once
  <1>5. s \in Surjection(1 .. n, S)
    <2>1. s \in Injection(1 .. n, S)
      BY <1>2 DEF Injection, IsInjective
    <2>2. IsFiniteSet(1 .. n) /\ Cardinality(1 .. n) = Cardinality(S)
      BY <1>1, FS_Interval
    <2> QED
      BY <2>1, <2>2, FS_Injection
  <1>6. \A x \in S : \E i \in 1 .. n : s[i] = x
    BY <1>5 DEF Surjection
  <1> QED
    BY <1>1, <1>3, <1>4, <1>6

\* The front of an ordering of a set: whatever is not among its first i elements
\* comes after them in the ordering.
LEMMA FrontOfOrdering ==
  ASSUME NEW S, IsFiniteSet(S), NEW s \in SetToSeqs(S), NEW n \in Nat,
         NEW f, f = Limit(s, n), NEW i \in DOMAIN f
  PROVE  /\ f[i] \in S
         /\ \A x \in S \ ToSet(SubSeq(f, 1, i)) :
              \E j \in DOMAIN s : i \in DOMAIN s /\ i < j /\ s[i] = f[i] /\ s[j] = x
  <1>1. /\ s \in Seq(S) /\ Len(s) \in Nat /\ DOMAIN s = 1 .. Len(s)
        /\ \A x \in S : \E j \in 1 .. Len(s) : s[j] = x
    BY OrderingsOfSet, LenProperties
  <1>2. /\ Limit(s, n) \in Seq(S)
        /\ Len(Limit(s, n)) <= Len(s)
        /\ \A k \in 1 .. Len(Limit(s, n)) : Limit(s, n)[k] = s[k]
    BY <1>1, LimitKeepsPlaces
  <1>3. f \in Seq(S) /\ Len(f) <= Len(s) /\ \A k \in 1 .. Len(f) : f[k] = s[k]
    BY <1>2
  <1>4. Len(f) \in Nat /\ DOMAIN f = 1 .. Len(f)
    BY <1>3, LenProperties
  <1>5. i \in Nat /\ 1 <= i /\ i <= Len(f) /\ i <= Len(s)
    BY <1>1, <1>3, <1>4
  <1>6. \A k \in 1 .. i : f[k] \in S
    <2> TAKE k \in 1 .. i
    <2>1. k \in 1 .. Len(f)
      BY <1>4, <1>5
    <2> QED
      BY <1>3, <2>1, ElementOfSeq
  <1>7. /\ SubSeq(f, 1, i) \in Seq(S)
        /\ Len(SubSeq(f, 1, i)) = IF 1 <= i THEN i - 1 + 1 ELSE 0
        /\ \A k \in 1 .. i - 1 + 1 : SubSeq(f, 1, i)[k] = f[1 + k - 1]
    BY <1>5, <1>6, SubSeqProperties
  <1>8. \A k \in 1 .. i : f[k] \in ToSet(SubSeq(f, 1, i))
    <2> TAKE k \in 1 .. i
    <2>1. k \in 1 .. Len(SubSeq(f, 1, i)) /\ SubSeq(f, 1, i)[k] = f[k]
      BY <1>5, <1>7
    <2>2. DOMAIN SubSeq(f, 1, i) = 1 .. Len(SubSeq(f, 1, i))
      BY <1>7, LenProperties
    <2> QED
      BY <2>1, <2>2 DEF ToSet
  <1>9. ASSUME NEW x \in S, x \notin ToSet(SubSeq(f, 1, i))
        PROVE  \E j \in DOMAIN s : i \in DOMAIN s /\ i < j /\ s[i] = f[i] /\ s[j] = x
    <2>1. PICK j \in 1 .. Len(s) : s[j] = x
      BY <1>1, <1>9
    <2>2. i < j
      <3>1. SUFFICES ASSUME j <= i PROVE FALSE
        BY <1>1, <1>5
      <3>2. j \in 1 .. i /\ j \in 1 .. Len(f)
        BY <1>1, <1>4, <1>5, <3>1
      <3>3. f[j] = x
        BY <1>3, <2>1, <3>2
      <3> QED
        BY <1>8, <1>9, <3>2, <3>3
    <2>3. i \in DOMAIN s /\ j \in DOMAIN s /\ s[i] = f[i]
      BY <1>1, <1>3, <1>4, <1>5
    <2> QED
      BY <2>1, <2>2, <2>3
  <1> QED
    BY <1>5, <1>6, <1>9

-----------------------------------------------------------------------------
(***************************************************************************)
(* Loops over a list as recursive functions on 0 .. N.                     *)
(***************************************************************************)

\* A nonempty set of naturals has a least element.
LEMMA Least ==
  ASSUME NEW T \in SUBSET Nat, T # {}
  PROVE  \E m \in T : \A k \in T : m <= k
  <1>1. PICK m \in T : \A k \in T : ~(<<k, m>> \in OpToRel(<, Nat))
    BY NatLessThanWellFounded, WFMin
  <1>2. \A k \in T : ~(k < m)
    BY <1>1 DEF OpToRel
  <1> QED
    BY <1>2

\* What holds at 0 and passes from each place to the next holds up to N.
LEMMA UpTo ==
  ASSUME NEW N \in Nat, NEW G, 0 \in G,
         \A n \in 1 .. N : n - 1 \in G => n \in G
  PROVE  \A n \in 0 .. N : n \in G
  <1> SUFFICES ASSUME NEW k \in 0 .. N, k \notin G PROVE FALSE
    OBVIOUS
  <1> DEFINE T == {n \in 0 .. N : n \notin G}
  <1>1. T \in SUBSET Nat /\ T # {}
    OBVIOUS
  <1>2. PICK m \in T : \A n \in T : m <= n
    BY <1>1, Least
  <1>3. m \in 1 .. N
    BY <1>2
  <1>4. m - 1 \in 0 .. N /\ ~(m <= m - 1)
    BY <1>3
  <1>5. m - 1 \in G
    BY <1>2, <1>4
  <1> QED
    BY <1>2, <1>3, <1>5

\* f holds the state after each turn of a loop over 1 .. N: it starts at base, and
\* turn n takes the state x to step[<<x, n>>].
IsLoop(f, N, S, base, step) ==
  /\ f \in [0 .. N -> S]
  /\ f[0] = base
  /\ \A n \in 1 .. N : f[n] = step[<<f[n - 1], n>>]

Turns(N, S) == [S \X (1 .. N) -> S]

\* Every loop runs to its end.
LEMMA LoopRuns ==
  ASSUME NEW N \in Nat, NEW S, NEW base \in S, NEW step \in Turns(N, S)
  PROVE  \E f : IsLoop(f, N, S, base, step)
  <1> DEFINE Runs(m) == \E f \in [0 .. m -> S] :
               f[0] = base /\ \A n \in 1 .. m : f[n] = step[<<f[n - 1], n>>]
             G == {m \in 0 .. N : Runs(m)}
  <1> USE DEF Turns
  <1>1. 0 \in G
    <2> DEFINE f == [n \in 0 .. 0 |-> base]
    <2>1. f \in [0 .. 0 -> S] /\ f[0] = base
      OBVIOUS
    <2>2. \A n \in 1 .. 0 : f[n] = step[<<f[n - 1], n>>]
      OBVIOUS
    <2>3. Runs(0)
      <3> HIDE DEF f
      <3> QED
        BY <2>1, <2>2
    <2> QED
      BY <2>3
  <1>2. ASSUME NEW m \in 1 .. N, m - 1 \in G PROVE m \in G
    <2>1. PICK f \in [0 .. m - 1 -> S] :
            f[0] = base /\ \A n \in 1 .. m - 1 : f[n] = step[<<f[n - 1], n>>]
      BY <1>2
    <2> DEFINE g == [n \in 0 .. m |-> IF n = m THEN step[<<f[m - 1], m>>] ELSE f[n]]
    <2>2. f[m - 1] \in S
      BY <2>1
    <2>3. step[<<f[m - 1], m>>] \in S
      BY <2>2
    <2>4. g \in [0 .. m -> S]
      BY <2>1, <2>3
    <2>5. g[0] = base
      BY <2>1
    <2>6. ASSUME NEW n \in 1 .. m PROVE g[n] = step[<<g[n - 1], n>>]
      <3>1. n - 1 \in 0 .. m /\ n - 1 # m /\ n \in 0 .. m
        OBVIOUS
      <3>2. g[n - 1] = f[n - 1]
        BY <3>1
      <3>3. CASE n = m
        BY <3>1, <3>2, <3>3
      <3>4. CASE n # m
        <4>1. n \in 1 .. m - 1 /\ g[n] = f[n]
          BY <3>1, <3>4
        <4> QED
          BY <2>1, <3>2, <4>1
      <3> QED
        BY <3>3, <3>4
    <2>7. Runs(m)
      BY <2>4, <2>5, <2>6
    <2> QED
      BY <2>7
  <1>3. N \in G
    <2> HIDE DEF G
    <2>1. \A n \in 0 .. N : n \in G
      BY <1>1, <1>2, UpTo
    <2> QED
      BY <2>1
  <1> QED
    BY <1>3 DEF IsLoop

-----------------------------------------------------------------------------
\* A sum of numbers is one, however long the list.
LEMMA TotalIsNat ==
  ASSUME NEW s \in Seq(Nat)
  PROVE  Total(s) \in Nat
  <1> DEFINE N == Len(s)
             step == [x \in Nat \X (1 .. N) |-> x[1] + s[x[2]]]
             Rec(g) == [n \in 0 .. N |-> IF n = 0 THEN 0 ELSE g[n - 1] + s[n]]
             g == CHOOSE h : h = Rec(h)
  <1>1. N \in Nat /\ \A n \in 1 .. N : s[n] \in Nat
    BY LenProperties, ElementOfSeq
  <1>2. step \in [Nat \X (1 .. N) -> Nat]
    BY <1>1
  <1>3. PICK f \in [0 .. N -> Nat] :
          f[0] = 0 /\ \A n \in 1 .. N : f[n] = step[<<f[n - 1], n>>]
    <2> DEFINE S == Nat  base == 0
    <2>1. base \in S /\ N \in Nat /\ step \in Turns(N, S)
      BY <1>1, <1>2 DEF Turns
    <2> HIDE DEF step, N, S, base
    <2>2. PICK f : IsLoop(f, N, S, base, step)
      BY <2>1, LoopRuns
    <2> QED
      BY <2>2 DEF IsLoop, S, base
  <1>4. \A n \in 1 .. N : f[n] = f[n - 1] + s[n]
    <2> TAKE n \in 1 .. N
    <2>1. n - 1 \in 0 .. N
      BY <1>1
    <2>2. f[n - 1] \in Nat
      BY <1>3, <2>1
    <2> QED
      BY <1>3, <2>2
  <1>5. f = Rec(f)
    BY <1>3, <1>4
  <1>6. g = Rec(g)
    BY <1>5
  <1>7. Total(s) = g[N]
    BY DEF Total
  <1>8. \A n \in 0 .. N : g[n] \in Nat
    <2> DEFINE G == {n \in 0 .. N : g[n] \in Nat}
    <2> HIDE DEF g
    <2>1. 0 \in G
      BY <1>1, <1>6
    <2>2. ASSUME NEW n \in 1 .. N, n - 1 \in G PROVE n \in G
      <3>1. n \in 0 .. N /\ n # 0 /\ g[n - 1] \in Nat
        BY <1>1, <2>2
      <3>2. g[n] = g[n - 1] + s[n]
        BY <1>6, <3>1
      <3> QED
        BY <1>1, <3>1, <3>2
    <2>3. \A n \in 0 .. N : n \in G
      <3> HIDE DEF G, N
      <3> QED
        BY <1>1, <2>1, <2>2, UpTo
    <2> QED
      BY <2>3
  <1> QED
    <2> HIDE DEF g
    <2> QED
      BY <1>1, <1>7, <1>8

\* A rounded average is off by half a millisecond at most, one of a single
\* timing not at all.
LEMMA RoundedBounds ==
  ASSUME NEW sum \in Nat, NEW n \in Nat \ {0}
  PROVE  /\ Rounded(sum, n) \in Nat
         /\ 2 * sum - n <= 2 * (n * Rounded(sum, n))
         /\ 2 * (n * Rounded(sum, n)) <= 2 * sum + n
         /\ n = 1 => Rounded(sum, n) = sum
  <1> DEFINE q == sum \div n  r == sum % n
  <1>1. /\ q \in Nat /\ r \in 0 .. n - 1
        /\ sum = n * q + r
    OBVIOUS
  <1>2. Rounded(sum, n) = IF 2 * r < n \/ (2 * r = n /\ q % 2 = 0) THEN q ELSE q + 1
    BY DEF Rounded
  <1> HIDE DEF q, r
  <1>3. n * (q + 1) = n * q + n
    BY <1>1
  <1>4. CASE 2 * r < n \/ (2 * r = n /\ q % 2 = 0)
    <2>1. Rounded(sum, n) = q
      BY <1>2, <1>4
    <2> DEFINE nq == n * q
    <2>2. nq \in Int /\ sum = nq + r /\ 2 * r <= n
      BY <1>1, <1>4
    <2> HIDE DEF nq
    <2>3. 2 * sum - n <= 2 * nq /\ 2 * nq <= 2 * sum + n
      BY <1>1, <2>2
    <2>4. n = 1 => q = sum
      BY <1>1, <1>4
    <2> QED
      BY <1>1, <2>1, <2>3, <2>4 DEF nq
  <1>5. CASE ~(2 * r < n \/ (2 * r = n /\ q % 2 = 0))
    <2>1. Rounded(sum, n) = q + 1
      BY <1>2, <1>5
    <2> DEFINE nq == n * q
    <2>2. nq \in Int /\ sum = nq + r /\ n <= 2 * r
      BY <1>1, <1>5
    <2> HIDE DEF nq
    <2>3. 2 * sum - n <= 2 * (nq + n) /\ 2 * (nq + n) <= 2 * sum + n
      BY <1>1, <2>2
    <2>4. n # 1
      BY <1>1, <2>2
    <2> QED
      BY <1>1, <1>3, <2>1, <2>3, <2>4 DEF nq
  <1> QED
    BY <1>4, <1>5

\* So rounded averages can hide a difference of a millisecond on average, but
\* never reverse an order.
LEMMA RoundedOrder ==
  ASSUME NEW s \in Nat, NEW t \in Nat, NEW n \in Nat \ {0}, t < s,
         Rounded(s, n) <= Rounded(t, n)
  PROVE  n > 1 /\ s <= t + n /\ Rounded(s, n) = Rounded(t, n)
  <1> DEFINE a == Rounded(s, n)  b == Rounded(t, n)
  <1>1. /\ a \in Nat /\ b \in Nat
        /\ 2 * s - n <= 2 * (n * a) /\ 2 * (n * b) <= 2 * t + n
        /\ n = 1 => a = s /\ b = t
    BY RoundedBounds
  <1> HIDE DEF a, b
  <1>2. n * a <= n * b
    BY <1>1 DEF a, b
  <1> DEFINE x == n * a  y == n * b
  <1>3. x \in Int /\ y \in Int /\ x <= y /\ 2 * s - n <= 2 * x /\ 2 * y <= 2 * t + n
    BY <1>1, <1>2
  <1> HIDE DEF x, y
  <1>4. s <= t + n /\ y < x + n
    BY <1>3
  <1>5. a = b
    <2>1. a <= b
      BY DEF a, b
    <2>2. n * b < n * (a + 1)
      <3>1. n * (a + 1) = n * a + n
        BY <1>1
      <3> QED
        BY <1>4, <3>1 DEF x, y
    <2>3. ~(a + 1 <= b)
      <3> SUFFICES ASSUME a + 1 <= b
                   PROVE  n * (a + 1) <= n * b
        BY <1>1, <2>2
      <3>1. PICK k \in Nat : b = a + 1 + k
        BY <1>1, b - (a + 1) \in Nat
      <3>2. n * (a + 1 + k) = n * (a + 1) + n * k /\ n * k \in Nat
        BY <1>1
      <3> QED
        BY <1>1, <3>1, <3>2
    <2> QED
      BY <1>1, <2>1, <2>3
  <1>6. n # 1
    BY <1>1, <1>5
  <1> QED
    BY <1>4, <1>5, <1>6 DEF a, b

-----------------------------------------------------------------------------
\* The running length of the JSON list.
LEMMA JsonLengthRuns ==
  ASSUME NEW s \in Seq(Proxies)
  PROVE  \E f \in [0 .. Len(s) -> Nat] :
           /\ f[0] = 1
           /\ \A n \in 1 .. Len(s) : f[n] = f[n - 1] + Size(s[n]) + 3
           /\ JsonLength(s) = f[Len(s)]
  <1> DEFINE N == Len(s)
             step == [x \in Nat \X (1 .. N) |-> x[1] + Size(s[x[2]]) + 3]
             Rec(g) == [n \in 0 .. N |-> IF n = 0 THEN 1 ELSE g[n - 1] + Size(s[n]) + 3]
             g == CHOOSE h : h = Rec(h)
  <1>1. N \in Nat /\ \A n \in 1 .. N : s[n] \in Proxies /\ Size(s[n]) \in Nat
    BY LenProperties, ElementOfSeq, SizesAssumption
  <1>2. step \in [Nat \X (1 .. N) -> Nat]
    BY <1>1
  <1>3. PICK f \in [0 .. N -> Nat] :
          f[0] = 1 /\ \A n \in 1 .. N : f[n] = step[<<f[n - 1], n>>]
    <2> DEFINE S == Nat  base == 1
    <2>1. base \in S /\ N \in Nat /\ step \in Turns(N, S)
      BY <1>1, <1>2 DEF Turns
    <2> HIDE DEF step, N, S, base
    <2>2. PICK f : IsLoop(f, N, S, base, step)
      BY <2>1, LoopRuns
    <2> QED
      BY <2>2 DEF IsLoop, S, base
  <1>4. \A n \in 1 .. N : f[n] = f[n - 1] + Size(s[n]) + 3
    <2> TAKE n \in 1 .. N
    <2>1. n - 1 \in 0 .. N
      BY <1>1
    <2>2. f[n - 1] \in Nat
      BY <1>3, <2>1
    <2> QED
      BY <1>3, <2>2
  <1>5. f = Rec(f)
    BY <1>3, <1>4
  <1>6. g = Rec(g)
    BY <1>5
  <1>7. JsonLength(s) = g[N]
    BY DEF JsonLength
  <1>8. \A n \in 0 .. N : g[n] = f[n]
    <2> DEFINE G == {n \in 0 .. N : g[n] = f[n]}
    <2> HIDE DEF g
    <2>1. 0 \in G
      BY <1>1, <1>3, <1>6
    <2>2. ASSUME NEW n \in 1 .. N, n - 1 \in G PROVE n \in G
      <3>1. n \in 0 .. N /\ n # 0 /\ g[n - 1] = f[n - 1]
        BY <1>1, <2>2
      <3>2. g[n] = g[n - 1] + Size(s[n]) + 3
        BY <1>6, <3>1
      <3> QED
        BY <1>4, <3>1, <3>2
    <2>3. \A n \in 0 .. N : n \in G
      <3> HIDE DEF G, N
      <3> QED
        BY <1>1, <2>1, <2>2, UpTo
    <2> QED
      BY <2>3
  <1>9. JsonLength(s) = f[N]
    <2> HIDE DEF g
    <2> QED
      BY <1>1, <1>7, <1>8
  <1> QED
    BY <1>3, <1>4, <1>9

\* One more address adds its length, its quotes and a comma.
LEMMA JsonLengthGrows ==
  ASSUME NEW s \in Seq(Proxies), NEW p \in Proxies
  PROVE  /\ JsonLength(s) \in Nat
         /\ JsonLength(Append(s, p)) = JsonLength(s) + Size(p) + 3
  <1> DEFINE t == Append(s, p)
             N == Len(s)
  <1>1. /\ N \in Nat /\ t \in Seq(Proxies) /\ Len(t) = N + 1
        /\ \A n \in 1 .. N : t[n] = s[n]
        /\ t[N + 1] = p
    BY LenProperties, AppendProperties
  <1>2. PICK f \in [0 .. Len(s) -> Nat] :
          /\ f[0] = 1
          /\ \A n \in 1 .. Len(s) : f[n] = f[n - 1] + Size(s[n]) + 3
          /\ JsonLength(s) = f[Len(s)]
    BY JsonLengthRuns
  <1>3. PICK g \in [0 .. Len(t) -> Nat] :
          /\ g[0] = 1
          /\ \A n \in 1 .. Len(t) : g[n] = g[n - 1] + Size(t[n]) + 3
          /\ JsonLength(t) = g[Len(t)]
    <2> HIDE DEF t
    <2> QED
      BY <1>1, JsonLengthRuns
  <1> HIDE DEF t, N
  <1>4. \A n \in 0 .. N : n \in {k \in 0 .. N : f[k] = g[k]}
    <2> DEFINE G == {k \in 0 .. N : f[k] = g[k]}
    <2>1. 0 \in G
      BY <1>1, <1>2, <1>3
    <2>2. ASSUME NEW n \in 1 .. N, n - 1 \in G PROVE n \in G
      <3>1. n \in 1 .. Len(s) /\ n \in 1 .. Len(t) /\ t[n] = s[n] /\ f[n - 1] = g[n - 1]
        BY <1>1, <2>2 DEF N
      <3>2. n \in 0 .. N
        BY <1>1
      <3> QED
        BY <1>2, <1>3, <3>1, <3>2
    <2> HIDE DEF G
    <2>3. \A n \in 0 .. N : n \in G
      BY <1>1, <2>1, <2>2, UpTo
    <2> QED
      BY <2>3 DEF G
  <1>5. f[N] = g[N] /\ f[N] \in Nat
    BY <1>1, <1>2, <1>4 DEF N
  <1>6. g[N + 1] = g[N] + Size(p) + 3
    <2>1. N + 1 \in 1 .. Len(t) /\ N + 1 - 1 = N
      BY <1>1
    <2> QED
      BY <1>1, <1>3, <2>1
  <1> QED
    BY <1>1, <1>2, <1>3, <1>5, <1>6 DEF t, N

-----------------------------------------------------------------------------
(***************************************************************************)
(* The runs of a list.                                                     *)
(***************************************************************************)

\* A run is a list; with the next address behind it, it is the next run.
LEMMA RunsOfList ==
  ASSUME NEW s \in Seq(Proxies), NEW first \in 1 .. Len(s), NEW n \in first .. Len(s)
  PROVE  /\ SubSeq(s, first, n) \in Seq(Proxies)
         /\ Len(SubSeq(s, first, n)) = n - first + 1
         /\ SubSeq(s, first, first) = <<s[first]>>
         /\ n < Len(s) => Append(SubSeq(s, first, n), s[n + 1]) = SubSeq(s, first, n + 1)
  <1>1. Len(s) \in Nat /\ \A i \in 1 .. Len(s) : s[i] \in Proxies
    BY LenProperties, ElementOfSeq
  <1>2. ASSUME NEW m \in first .. Len(s)
        PROVE  /\ SubSeq(s, first, m) \in Seq(Proxies)
               /\ Len(SubSeq(s, first, m)) = m - first + 1
               /\ \A i \in 1 .. m - first + 1 : SubSeq(s, first, m)[i] = s[first + i - 1]
    <2>1. first \in Int /\ m \in Int /\ first <= m
      BY <1>1
    <2>2. \A i \in first .. m : s[i] \in Proxies
      BY <1>1
    <2>3. /\ SubSeq(s, first, m) \in Seq(Proxies)
          /\ Len(SubSeq(s, first, m)) = IF first <= m THEN m - first + 1 ELSE 0
          /\ \A i \in 1 .. m - first + 1 : SubSeq(s, first, m)[i] = s[first + i - 1]
      BY <2>1, <2>2, SubSeqProperties
    <2> QED
      BY <2>1, <2>3
  <1>3. SubSeq(s, first, first) = <<s[first]>>
    <2>1. first \in first .. Len(s) /\ first - first + 1 = 1 /\ first + 1 - 1 = first
      BY <1>1
    <2> DEFINE t == SubSeq(s, first, first)
    <2>2. t \in Seq(Proxies) /\ Len(t) = 1 /\ t[1] = s[first]
      BY <1>2, <2>1
    <2>3. <<s[first]>> \in Seq(Proxies) /\ Len(<<s[first]>>) = 1 /\ <<s[first]>>[1] = s[first]
      BY <1>1
    <2> HIDE DEF t
    <2>4. t = <<s[first]>>
      BY <2>2, <2>3, SeqEqual
    <2> QED
      BY <2>4 DEF t
  <1>4. ASSUME n < Len(s)
        PROVE  Append(SubSeq(s, first, n), s[n + 1]) = SubSeq(s, first, n + 1)
    <2> DEFINE r == SubSeq(s, first, n)
               t == SubSeq(s, first, n + 1)
               x == s[n + 1]
               a == Append(r, x)
    <2>1. n + 1 \in first .. Len(s) /\ n + 1 \in 1 .. Len(s) /\ n \in Nat /\ first \in Nat
      BY <1>1, <1>4
    <2>2. /\ r \in Seq(Proxies) /\ Len(r) = n - first + 1
          /\ \A i \in 1 .. n - first + 1 : r[i] = s[first + i - 1]
      BY <1>2
    <2>3. /\ t \in Seq(Proxies) /\ Len(t) = n + 1 - first + 1
          /\ \A i \in 1 .. n + 1 - first + 1 : t[i] = s[first + i - 1]
      BY <1>2, <2>1
    <2>4. x \in Proxies
      BY <1>1, <2>1
    <2> HIDE DEF r, t, x
    <2>5. /\ a \in Seq(Proxies) /\ Len(a) = Len(r) + 1
          /\ \A i \in 1 .. Len(r) : a[i] = r[i]
          /\ a[Len(r) + 1] = x
      BY <2>2, <2>4, AppendProperties
    <2> HIDE DEF a
    <2>6. Len(a) = Len(t)
      BY <2>1, <2>2, <2>3, <2>5
    <2>7. ASSUME NEW i \in 1 .. Len(a) PROVE a[i] = t[i]
      <3>1. i \in 1 .. n - first + 1 \/ i = n - first + 1 + 1
        BY <2>1, <2>2, <2>5, <2>7
      <3>2. CASE i \in 1 .. n - first + 1
        <4>1. i \in 1 .. Len(r) /\ i \in 1 .. n + 1 - first + 1
          BY <2>1, <2>2, <3>2
        <4> QED
          BY <2>2, <2>3, <2>5, <3>2, <4>1
      <3>3. CASE i = n - first + 1 + 1
        <4>1. i = Len(r) + 1 /\ i \in 1 .. n + 1 - first + 1 /\ first + i - 1 = n + 1
          BY <2>1, <2>2, <3>3
        <4> QED
          BY <2>3, <2>5, <4>1 DEF x
      <3> QED
        BY <3>1, <3>2, <3>3
    <2>8. a = t
      BY <2>3, <2>5, <2>6, <2>7, SeqEqual
    <2> QED
      BY <2>8 DEF a, r, t, x
  <1> QED
    BY <1>2, <1>3, <1>4

\* A longer run has no shorter value.
LEMMA LongerRunsAreLonger ==
  ASSUME NEW s \in Seq(Proxies), NEW first \in 1 .. Len(s),
         NEW m \in first .. Len(s), NEW n \in m .. Len(s)
  PROVE  /\ JsonLength(SubSeq(s, first, m)) \in Nat
         /\ JsonLength(SubSeq(s, first, m)) <= JsonLength(SubSeq(s, first, n))
  <1> DEFINE L(k) == JsonLength(SubSeq(s, first, k))
             N == Len(s) - m
             G == {k \in 0 .. N : L(m) <= L(m + k)}
  <1>1. Len(s) \in Nat /\ m \in Nat /\ first \in Nat /\ N \in Nat /\ n \in Nat /\ n - m \in 0 .. N
    BY LenProperties
  <1>2. \A i \in 1 .. Len(s) : s[i] \in Proxies /\ Size(s[i]) \in Nat
    BY ElementOfSeq, SizesAssumption
  <1>3. \A k \in first .. Len(s) : L(k) \in Nat
    <2> TAKE k \in first .. Len(s)
    <2>1. SubSeq(s, first, k) \in Seq(Proxies)
      BY RunsOfList
    <2>2. s[first] \in Proxies
      BY <1>2
    <2> QED
      BY <2>1, <2>2, JsonLengthGrows
  <1>4. \A k \in first .. Len(s) : k < Len(s) => L(k + 1) = L(k) + Size(s[k + 1]) + 3
    <2> SUFFICES ASSUME NEW k \in first .. Len(s), k < Len(s)
                 PROVE  L(k + 1) = L(k) + Size(s[k + 1]) + 3
      OBVIOUS
    <2>1. /\ SubSeq(s, first, k) \in Seq(Proxies)
          /\ Append(SubSeq(s, first, k), s[k + 1]) = SubSeq(s, first, k + 1)
      BY RunsOfList
    <2>2. s[k + 1] \in Proxies
      BY <1>1, <1>2
    <2>3. JsonLength(Append(SubSeq(s, first, k), s[k + 1]))
            = JsonLength(SubSeq(s, first, k)) + Size(s[k + 1]) + 3
      BY <2>1, <2>2, JsonLengthGrows
    <2> QED
      BY <2>1, <2>3
  <1> HIDE DEF L
  <1>5. 0 \in G
    BY <1>1, <1>3
  <1>6. ASSUME NEW k \in 1 .. N, k - 1 \in G PROVE k \in G
    <2>1. /\ m + (k - 1) \in first .. Len(s) /\ m + (k - 1) < Len(s)
          /\ m + (k - 1) + 1 = m + k /\ m + k \in 1 .. Len(s) /\ m + k \in first .. Len(s)
      BY <1>1
    <2>2. L(m + k) = L(m + (k - 1)) + Size(s[m + k]) + 3
      BY <1>4, <2>1
    <2>3. L(m) <= L(m + (k - 1)) /\ L(m) \in Nat /\ L(m + (k - 1)) \in Nat /\ Size(s[m + k]) \in Nat
      BY <1>1, <1>2, <1>3, <1>6, <2>1
    <2>4. L(m) <= L(m + k)
      BY <2>2, <2>3
    <2> QED
      BY <2>4
  <1>7. \A k \in 0 .. N : k \in G
    <2> HIDE DEF G, N
    <2> QED
      BY <1>1, <1>5, <1>6, UpTo
  <1>8. m + (n - m) = n
    BY <1>1
  <1>9. L(m) <= L(n) /\ L(m) \in Nat
    BY <1>1, <1>3, <1>7, <1>8
  <1> QED
    BY <1>9 DEF L

(***************************************************************************)
(* The loop of buildSavedProxyValueStr.                                    *)
(***************************************************************************)
Accs == [list : Seq(Proxies), full : BOOLEAN]

\* The state after each turn of the loop.
LEMMA SavedValueRuns ==
  ASSUME NEW s \in Seq(Proxies)
  PROVE  \E f \in [0 .. Len(s) -> Accs] :
           /\ f[0] = [list |-> <<>>, full |-> FALSE]
           /\ \A n \in 1 .. Len(s) : f[n] = Extended(f[n - 1], s[n])
           /\ SavedValue(s) = f[Len(s)].list
  <1> DEFINE N == Len(s)
             base == [list |-> <<>>, full |-> FALSE]
             step == [x \in Accs \X (1 .. N) |-> Extended(x[1], s[x[2]])]
             Rec(g) == [n \in 0 .. N |-> IF n = 0 THEN base ELSE Extended(g[n - 1], s[n])]
             g == CHOOSE h : h = Rec(h)
  <1>1. N \in Nat /\ \A n \in 1 .. N : s[n] \in Proxies
    BY LenProperties, ElementOfSeq
  <1>2. base \in Accs
    BY EmptySeq DEF Accs
  <1>3. step \in [Accs \X (1 .. N) -> Accs]
    <2> SUFFICES ASSUME NEW acc \in Accs, NEW p \in Proxies
                 PROVE  Extended(acc, p) \in Accs
      BY <1>1
    <2>1. Append(acc.list, p) \in Seq(Proxies)
      BY AppendProperties DEF Accs
    <2> QED
      BY <2>1 DEF Extended, Accs
  <1>4. PICK f \in [0 .. N -> Accs] :
          f[0] = base /\ \A n \in 1 .. N : f[n] = step[<<f[n - 1], n>>]
    <2>1. step \in Turns(N, Accs)
      BY <1>3 DEF Turns
    <2> HIDE DEF step, N, base
    <2>2. PICK f : IsLoop(f, N, Accs, base, step)
      BY <1>1, <1>2, <2>1, LoopRuns
    <2> QED
      BY <2>2 DEF IsLoop
  <1>5. \A n \in 1 .. N : f[n] = Extended(f[n - 1], s[n])
    <2> TAKE n \in 1 .. N
    <2>1. n - 1 \in 0 .. N
      BY <1>1
    <2>2. f[n - 1] \in Accs
      BY <1>4, <2>1
    <2> QED
      BY <1>4, <2>2
  <1> HIDE DEF base
  <1>6. f = Rec(f)
    BY <1>4, <1>5
  <1>7. g = Rec(g)
    BY <1>6
  <1>8. SavedValue(s) = g[N].list
    BY DEF SavedValue, base
  <1>9. \A n \in 0 .. N : g[n] = f[n]
    <2> DEFINE G == {n \in 0 .. N : g[n] = f[n]}
    <2> HIDE DEF g
    <2>1. 0 \in G
      BY <1>1, <1>4, <1>7
    <2>2. ASSUME NEW n \in 1 .. N, n - 1 \in G PROVE n \in G
      <3>1. n \in 0 .. N /\ n # 0 /\ g[n - 1] = f[n - 1]
        BY <1>1, <2>2
      <3>2. g[n] = Extended(g[n - 1], s[n])
        BY <1>7, <3>1
      <3> QED
        BY <1>5, <3>1, <3>2
    <2>3. \A n \in 0 .. N : n \in G
      <3> HIDE DEF G, N
      <3> QED
        BY <1>1, <2>1, <2>2, UpTo
    <2> QED
      BY <2>3
  <1>10. SavedValue(s) = f[N].list
    <2> HIDE DEF g
    <2> QED
      BY <1>1, <1>8, <1>9
  <1> QED
    BY <1>4, <1>5, <1>10 DEF base

\* One turn: an address that does not fit alone leaves the empty list, one that
\* fits behind the list joins it, one that does not fit behind others ends it.
LEMMA TurnOfLoop ==
  ASSUME NEW acc \in Accs, NEW p \in Proxies, MaxSavedCount \in Nat \ {0}
  PROVE  LET longer == Append(acc.list, p) IN
         /\ acc.full \/ Len(acc.list) >= MaxSavedCount => Extended(acc, p) = acc
         /\ ~acc.full /\ Len(acc.list) < MaxSavedCount =>
              Extended(acc, p) =
                IF JsonLength(longer) <= MaxLength THEN [list |-> longer, full |-> FALSE]
                ELSE [list |-> acc.list, full |-> acc.list # <<>>]
  <1> DEFINE longer == Append(acc.list, p)
             C == MaxSavedCount
  <1>1. /\ acc.list \in Seq(Proxies) /\ acc.full \in BOOLEAN
        /\ acc = [list |-> acc.list, full |-> acc.full]
    BY DEF Accs
  <1>2. Len(acc.list) \in Nat /\ C \in Nat
    BY <1>1, LenProperties
  <1>3. Extended(acc, p) =
          IF acc.full \/ Len(acc.list) >= C THEN acc
          ELSE IF JsonLength(longer) <= MaxLength THEN [acc EXCEPT !.list = longer]
          ELSE [acc EXCEPT !.full = acc.list # <<>>]
    BY DEF Extended
  <1> HIDE DEF longer, C
  <1>4. CASE acc.full \/ Len(acc.list) >= C
    <2>1. ~(~acc.full /\ Len(acc.list) < C)
      BY <1>2, <1>4
    <2> QED
      BY <1>3, <1>4, <2>1 DEF longer, C
  <1>5. CASE ~(acc.full \/ Len(acc.list) >= C)
    <2>1. /\ [acc EXCEPT !.list = longer] = [list |-> longer, full |-> FALSE]
          /\ [acc EXCEPT !.full = acc.list # <<>>]
               = [list |-> acc.list, full |-> acc.list # <<>>]
      <3> DEFINE more == acc.list # <<>>
      <3>1. acc.full = FALSE
        BY <1>1, <1>5
      <3> HIDE DEF more
      <3>2. PICK l, b : acc = [list |-> l, full |-> b]
        BY <1>1
      <3>3. acc.list = l /\ b = FALSE
        BY <3>1, <3>2
      <3>4. [acc EXCEPT !.list = longer] = [list |-> longer, full |-> b]
        BY <3>2
      <3>5. [acc EXCEPT !.full = more] = [list |-> l, full |-> more]
        BY <3>2
      <3> QED
        BY <3>3, <3>4, <3>5 DEF more
    <2>2. Extended(acc, p) =
            IF JsonLength(longer) <= MaxLength THEN [list |-> longer, full |-> FALSE]
            ELSE [list |-> acc.list, full |-> acc.list # <<>>]
      BY <1>3, <1>5, <2>1
    <2> QED
      BY <1>5, <2>2 DEF longer, C
  <1> QED
    BY <1>4, <1>5

\* The list saved is a run from the first address that fits, and it ends where
\* the list does, where the count is reached or where the next one is too much.
LEMMA SavedRun ==
  ASSUME NEW s \in Seq(Proxies), NEW first \in 1 .. Len(s), MaxSavedCount \in Nat \ {0},
         JsonLength(<<s[first]>>) <= MaxLength,
         \A i \in 1 .. first - 1 : ~(JsonLength(<<s[i]>>) <= MaxLength)
  PROVE  \E m \in first .. Len(s) :
           /\ SavedValue(s) = SubSeq(s, first, m)
           /\ m - first + 1 <= MaxSavedCount
           /\ JsonLength(SubSeq(s, first, m)) <= MaxLength
           /\ \/ m = Len(s) \/ m - first + 1 = MaxSavedCount
              \/ m < Len(s) /\ ~(JsonLength(SubSeq(s, first, m + 1)) <= MaxLength)
  <1> DEFINE N == Len(s)
             C == MaxSavedCount
             Fits(m) == JsonLength(SubSeq(s, first, m)) <= MaxLength
             base == [list |-> <<>>, full |-> FALSE]
             Ended(acc, n, m) ==
               /\ acc.list = SubSeq(s, first, m)
               /\ m - first + 1 <= C /\ Fits(m)
               /\ acc.full => m < N /\ ~Fits(m + 1)
               /\ ~acc.full => m = n \/ m - first + 1 = C
  <1>1. PICK f \in [0 .. Len(s) -> Accs] :
          /\ f[0] = [list |-> <<>>, full |-> FALSE]
          /\ \A n \in 1 .. Len(s) : f[n] = Extended(f[n - 1], s[n])
          /\ SavedValue(s) = f[Len(s)].list
    BY SavedValueRuns
  <1>2. /\ N \in Nat /\ first \in Nat /\ C \in Nat /\ C # 0
        /\ \A n \in 1 .. N : s[n] \in Proxies
        /\ \A n \in 0 .. N : f[n] \in Accs
    <2>1. N \in Nat /\ first \in Nat /\ C \in Nat /\ C # 0
      BY LenProperties
    <2>2. \A n \in 1 .. N : s[n] \in Proxies
      BY ElementOfSeq
    <2>3. \A n \in 0 .. N : f[n] \in Accs
      BY <1>1
    <2> QED
      BY <2>1, <2>2, <2>3
  <1>3. ASSUME NEW p \in Proxies
        PROVE  /\ JsonLength(<<p>>) <= MaxLength =>
                    Extended(base, p) = [list |-> <<p>>, full |-> FALSE]
               /\ ~(JsonLength(<<p>>) <= MaxLength) => Extended(base, p) = base
    <2>1. base \in Accs /\ Len(<<>>) = 0 /\ 0 < MaxSavedCount /\ Append(<<>>, p) = <<p>>
      BY EmptySeq DEF Accs
    <2> QED
      BY <2>1, TurnOfLoop
  <1>4. \A n \in first .. N :
          /\ SubSeq(s, first, n) \in Seq(Proxies)
          /\ Len(SubSeq(s, first, n)) = n - first + 1
          /\ SubSeq(s, first, first) = <<s[first]>>
          /\ n < N => Append(SubSeq(s, first, n), s[n + 1]) = SubSeq(s, first, n + 1)
    BY RunsOfList
  <1> DEFINE G == {n \in 0 .. N : IF n < first THEN f[n] = base
                                   ELSE \E m \in first .. n : Ended(f[n], n, m)}
  <1>5. 0 \in G
    BY <1>1, <1>2
  <1>6. ASSUME NEW n \in 1 .. N, n - 1 \in G PROVE n \in G
    <2>1. /\ n \in 0 .. N /\ n - 1 \in 0 .. N /\ s[n] \in Proxies
          /\ f[n] = Extended(f[n - 1], s[n]) /\ f[n - 1] \in Accs
      BY <1>1, <1>2
    <2>2. CASE n < first
      <3>1. n - 1 < first /\ n \in 1 .. first - 1
        BY <1>2, <2>2
      <3>2. f[n - 1] = base
        BY <1>6, <3>1
      <3>3. f[n] = base
        BY <1>3, <2>1, <3>1, <3>2
      <3> QED
        BY <2>1, <2>2, <3>3
    <2>3. CASE n = first
      <3>1. f[n - 1] = base
        BY <1>2, <1>6, <2>3
      <3>2. f[n] = [list |-> <<s[first]>>, full |-> FALSE]
        BY <1>3, <2>1, <2>3, <3>1
      <3>3. first \in first .. n /\ first \in first .. N /\ first - first + 1 = 1 /\ 1 <= C
        BY <1>2, <2>3
      <3>4. SubSeq(s, first, first) = <<s[first]>> /\ Fits(first)
        BY <1>4, <3>3
      <3>5. Ended(f[n], n, first)
        BY <2>3, <3>2, <3>3, <3>4
      <3>6. ~(n < first)
        BY <1>2, <2>3
      <3> HIDE DEF Ended
      <3> QED
        BY <2>1, <3>3, <3>5, <3>6
    <2>4. CASE first < n
      <3>1. ~(n - 1 < first) /\ ~(n < first)
        BY <1>2, <2>4
      <3>2. PICK m \in first .. n - 1 : Ended(f[n - 1], n - 1, m)
        BY <1>6, <3>1
      <3>3. /\ m \in first .. n /\ m \in first .. N /\ m < N /\ n \in first .. n
            /\ m \in Nat /\ n \in Nat
        BY <1>2, <2>4, <3>2
      <3>4. /\ f[n - 1].list = SubSeq(s, first, m)
            /\ Len(f[n - 1].list) = m - first + 1
            /\ f[n - 1].full \in BOOLEAN
        BY <1>4, <2>1, <3>2, <3>3 DEF Accs
      <3>5. CASE f[n - 1].full \/ Len(f[n - 1].list) >= C
        <4>1. f[n] = f[n - 1]
          BY <2>1, <3>5, TurnOfLoop
        <4>2. ~f[n - 1].full => m - first + 1 = C
          BY <1>2, <3>2, <3>3, <3>4, <3>5
        <4>3. Ended(f[n], n, m)
          BY <3>2, <4>1, <4>2
        <4> HIDE DEF Ended
        <4> QED
          BY <2>1, <3>1, <3>3, <4>3
      <3>6. CASE ~f[n - 1].full /\ Len(f[n - 1].list) < C
        <4>1. m = n - 1 /\ m + 1 = n /\ m - first + 1 < C
          BY <1>2, <3>2, <3>3, <3>4, <3>6
        <4>2. Append(f[n - 1].list, s[n]) = SubSeq(s, first, n)
          BY <1>4, <3>3, <3>4, <4>1
        <4>3. f[n] = IF Fits(n) THEN [list |-> SubSeq(s, first, n), full |-> FALSE]
                     ELSE [list |-> SubSeq(s, first, m), full |-> SubSeq(s, first, m) # <<>>]
          BY <2>1, <3>4, <3>6, <4>2, TurnOfLoop
        <4>4. CASE Fits(n)
          <5>1. f[n] = [list |-> SubSeq(s, first, n), full |-> FALSE]
            BY <4>3, <4>4
          <5>2. n - first + 1 <= C
            BY <1>2, <3>3, <4>1
          <5>3. Ended(f[n], n, n)
            BY <4>4, <5>1, <5>2
          <5> HIDE DEF Ended
          <5> QED
            BY <2>1, <3>1, <3>3, <5>3
        <4>5. CASE ~Fits(n)
          <5>1. SubSeq(s, first, m) # <<>>
            <6>1. Len(SubSeq(s, first, m)) # 0
              BY <1>2, <3>2, <3>3, <3>4
            <6> QED
              BY <6>1
          <5>2. f[n] = [list |-> SubSeq(s, first, m), full |-> TRUE]
            BY <4>3, <4>5, <5>1
          <5>3. m - first + 1 <= C /\ Fits(m)
            BY <3>2
          <5>4. Ended(f[n], n, m)
            BY <3>3, <4>1, <4>5, <5>2, <5>3
          <5> HIDE DEF Ended
          <5> QED
            BY <2>1, <3>1, <3>3, <5>4
        <4> QED
          BY <4>4, <4>5
      <3>7. f[n - 1].full \/ Len(f[n - 1].list) >= C \/ (~f[n - 1].full /\ Len(f[n - 1].list) < C)
        BY <1>2, <3>3, <3>4
      <3> QED
        BY <3>5, <3>6, <3>7
    <2> QED
      BY <1>2, <2>2, <2>3, <2>4
  <1>7. N \in G
    <2> HIDE DEF G, N
    <2>1. \A n \in 0 .. N : n \in G
      BY <1>2, <1>5, <1>6, UpTo
    <2> QED
      BY <1>2, <2>1
  <1>8. PICK m \in first .. N : Ended(f[N], N, m)
    BY <1>2, <1>7
  <1>9. f[N].full \in BOOLEAN
    BY <1>2 DEF Accs
  <1> QED
    BY <1>1, <1>8, <1>9

\* Nothing is saved when no address fits.
LEMMA NothingFits ==
  ASSUME NEW s \in Seq(Proxies), MaxSavedCount \in Nat \ {0},
         \A i \in 1 .. Len(s) : ~(JsonLength(<<s[i]>>) <= MaxLength)
  PROVE  SavedValue(s) = <<>>
  <1> DEFINE N == Len(s)
             base == [list |-> <<>>, full |-> FALSE]
  <1>1. PICK f \in [0 .. Len(s) -> Accs] :
          /\ f[0] = [list |-> <<>>, full |-> FALSE]
          /\ \A n \in 1 .. Len(s) : f[n] = Extended(f[n - 1], s[n])
          /\ SavedValue(s) = f[Len(s)].list
    BY SavedValueRuns
  <1>2. N \in Nat /\ \A n \in 1 .. N : s[n] \in Proxies
    BY LenProperties, ElementOfSeq
  <1>3. ASSUME NEW p \in Proxies, ~(JsonLength(<<p>>) <= MaxLength)
        PROVE  Extended(base, p) = base
    <2>1. base \in Accs /\ Len(<<>>) = 0 /\ 0 < MaxSavedCount /\ Append(<<>>, p) = <<p>>
      BY EmptySeq DEF Accs
    <2> QED
      BY <1>3, <2>1, TurnOfLoop
  <1> DEFINE G == {n \in 0 .. N : f[n] = base}
  <1>4. 0 \in G
    BY <1>1, <1>2
  <1>5. ASSUME NEW n \in 1 .. N, n - 1 \in G PROVE n \in G
    <2>1. n \in 0 .. N /\ f[n] = Extended(f[n - 1], s[n]) /\ f[n - 1] = base
      BY <1>1, <1>2, <1>5
    <2>2. f[n] = base
      BY <1>2, <1>3, <2>1
    <2> QED
      BY <2>1, <2>2
  <1>6. N \in G
    <2> HIDE DEF G, N
    <2>1. \A n \in 0 .. N : n \in G
      BY <1>2, <1>4, <1>5, UpTo
    <2> QED
      BY <1>2, <2>1
  <1> QED
    BY <1>1, <1>6

\* The value saved for a list is the longest run that may be saved among those
\* from the first address that fits.
LEMMA SavedIsLongest ==
  ASSUME NEW s \in Seq(Proxies), MaxSavedCount \in Nat \ {0}
  PROVE  LET fitting == {i \in DOMAIN s : JsonLength(<<s[i]>>) <= MaxLength}
             runs(first) == {SubSeq(s, first, n) : n \in first .. Len(s)}
             good(first) ==
               {r \in runs(first) : Len(r) <= MaxSavedCount /\ JsonLength(r) <= MaxLength}
         IN  /\ fitting = {} => SavedValue(s) = <<>>
             /\ \A first \in fitting :
                  (\A i \in fitting : first <= i) =>
                    /\ SavedValue(s) \in good(first)
                    /\ \A r \in good(first) : Len(r) <= Len(SavedValue(s))
  <1> DEFINE fitting == {i \in DOMAIN s : JsonLength(<<s[i]>>) <= MaxLength}
             runs(first) == {SubSeq(s, first, n) : n \in first .. Len(s)}
             good(first) ==
               {r \in runs(first) : Len(r) <= MaxSavedCount /\ JsonLength(r) <= MaxLength}
  <1>1. Len(s) \in Nat /\ DOMAIN s = 1 .. Len(s)
    BY LenProperties
  <1>2. fitting = {} => SavedValue(s) = <<>>
    <2> SUFFICES ASSUME fitting = {} PROVE SavedValue(s) = <<>>
      OBVIOUS
    <2>1. \A i \in 1 .. Len(s) : ~(JsonLength(<<s[i]>>) <= MaxLength)
      BY <1>1
    <2> QED
      BY <2>1, NothingFits
  <1>3. ASSUME NEW first \in fitting, \A i \in fitting : first <= i
        PROVE  /\ SavedValue(s) \in good(first)
               /\ \A r \in good(first) : Len(r) <= Len(SavedValue(s))
    <2> DEFINE v == SavedValue(s)
    <2>1. first \in 1 .. Len(s) /\ JsonLength(<<s[first]>>) <= MaxLength
      BY <1>1
    <2>2. ASSUME NEW i \in 1 .. first - 1 PROVE ~(JsonLength(<<s[i]>>) <= MaxLength)
      <3>1. i \in 1 .. Len(s) /\ ~(first <= i)
        BY <1>1, <2>1
      <3> QED
        BY <1>1, <1>3, <3>1
    <2>3. PICK m \in first .. Len(s) :
            /\ v = SubSeq(s, first, m)
            /\ m - first + 1 <= MaxSavedCount
            /\ JsonLength(SubSeq(s, first, m)) <= MaxLength
            /\ \/ m = Len(s) \/ m - first + 1 = MaxSavedCount
               \/ m < Len(s) /\ ~(JsonLength(SubSeq(s, first, m + 1)) <= MaxLength)
      BY <2>1, <2>2, SavedRun
    <2> HIDE DEF v
    <2>4. Len(v) = m - first + 1
      BY <2>1, <2>3, RunsOfList
    <2>5. v \in good(first)
      BY <2>3, <2>4
    <2>6. ASSUME NEW n \in first .. Len(s), Len(SubSeq(s, first, n)) <= MaxSavedCount,
                 JsonLength(SubSeq(s, first, n)) <= MaxLength
          PROVE  n <= m
      <3>1. first \in Nat /\ m \in Nat /\ n \in Nat /\ MaxSavedCount \in Nat
        BY <1>1, <2>1
      <3> SUFFICES ASSUME m < n PROVE FALSE
        BY <3>1
      <3>2. Len(SubSeq(s, first, n)) = n - first + 1
        BY <2>1, RunsOfList
      <3>3. m < Len(s) /\ m - first + 1 # MaxSavedCount
        BY <1>1, <2>6, <3>1, <3>2
      <3>4. m + 1 \in first .. Len(s) /\ n \in m + 1 .. Len(s)
        BY <1>1, <3>1
      <3>5. ~(JsonLength(SubSeq(s, first, m + 1)) <= MaxLength)
        BY <2>3, <3>1, <3>3
      <3>6. /\ JsonLength(SubSeq(s, first, m + 1)) \in Nat
            /\ JsonLength(SubSeq(s, first, m + 1)) <= JsonLength(SubSeq(s, first, n))
        BY <2>1, <3>4, LongerRunsAreLonger
      <3>7. JsonLength(SubSeq(s, first, n)) \in Nat
        BY <2>1, LongerRunsAreLonger
      <3> QED
        BY <2>6, <3>5, <3>6, <3>7, SizesAssumption
    <2>7. ASSUME NEW r \in good(first) PROVE Len(r) <= Len(v)
      <3>1. PICK n \in first .. Len(s) : r = SubSeq(s, first, n)
        OBVIOUS
      <3>2. n <= m
        BY <2>6, <3>1
      <3>3. Len(r) = n - first + 1
        BY <2>1, <3>1, RunsOfList
      <3> QED
        BY <1>1, <2>1, <2>4, <3>2, <3>3
    <2> QED
      BY <2>5, <2>7 DEF v
  <1> HIDE DEF fitting, good
  <1>4. /\ fitting = {} => SavedValue(s) = <<>>
        /\ \A first \in fitting :
             (\A i \in fitting : first <= i) =>
               SavedValue(s) \in good(first) /\ \A r \in good(first) : Len(r) <= Len(SavedValue(s))
    BY <1>2, <1>3
  <1> QED
    BY <1>4 DEF fitting, good

-----------------------------------------------------------------------------
(***************************************************************************)
(* The invariant.  What a proxy has passed is told by the list it is in:   *)
(* one still in the queue has passed every pass before this one, a survivor *)
(* this one too.                                                           *)
(***************************************************************************)
TypeInv ==
  /\ mode \in {"search", "check"}
  /\ rows \in Seq(Rows)
  /\ allowed \in SUBSET Proxies
  /\ limit \in Nat /\ resultCount \in Nat
  /\ pass \in Nat \ {0}
  /\ timings \in [Proxies -> Seq(0 .. MaxTiming)]
  /\ candidates \in Seq(allowed) /\ queue \in Seq(allowed) /\ survivors \in Seq(allowed)

UntestedInv ==
  phase = "parse" =>
    /\ queue = <<>> /\ survivors = <<>> /\ pass = 1
    /\ \A p \in Proxies : timings[p] = <<>>

PassInv ==
  phase = "validate" =>
    /\ Once(queue) /\ Once(survivors)
    /\ \A i \in 1 .. Len(queue) : Len(timings[queue[i]]) = pass - 1
    /\ \A i \in 1 .. Len(survivors) : Len(timings[survivors[i]]) = pass

ValidationInv ==
  /\ TypeInv /\ UntestedInv /\ PassInv
  /\ LimitIsFilled /\ ResultIsProven /\ RankedWithinRounding /\ SavedValueIsLongest

LEMMA ValidationInit == Init => ValidationInv
  <1> SUFFICES ASSUME Init PROVE ValidationInv
    OBVIOUS
  <1>1. rows \in Seq(Rows)
    <2>1. PICK m \in 0 .. MaxRows : rows \in [1 .. m -> Rows]
      BY DEF Init, BoundedSeq, SeqOf
    <2>2. m \in Nat
      BY LimitsAreCounts
    <2> QED
      BY <2>1, <2>2, SeqDef
  <1>2. TypeInv
    BY <1>1, LimitsAreCounts, EmptySeq DEF Init, TypeInv
  <1>3. UntestedInv
    BY DEF Init, UntestedInv
  <1> QED
    BY <1>2, <1>3
    DEF Init, ValidationInv, PassInv, LimitIsFilled, ResultIsProven, RankedWithinRounding,
            SavedValueIsLongest

\* The list to validate holds allowed addresses of the rows, each once, and as
\* many as the limit leaves.
LEMMA PreparedCandidates ==
  ASSUME TypeInv, NEW c \in Prepared
  PROVE  /\ c \in Seq(allowed)
         /\ Once(c)
         /\ ToSet(c) \subseteq ToSet(rows) \cap allowed
         /\ Len(c) = IF mode = "search" /\ limit \in 1 .. Cardinality(ToSet(rows) \cap allowed)
                     THEN limit ELSE Cardinality(ToSet(rows) \cap allowed)
  <1> DEFINE S == ToSet(rows) \cap allowed
             n == Cardinality(S)
  <1>1. KnownRows \cap allowed = S
    BY DEF KnownRows, TypeInv
  <1>2. IsFiniteSet(S)
    <2>1. IsFiniteSet(ToSet(rows))
      BY ElementsAreFinite DEF TypeInv
    <2> QED
      BY <2>1, FS_Subset
  <1>3. PICK s \in SetToSeqs(S) : c = Limit(s, CandidateLimit)
    BY <1>1 DEF Prepared, Orders
  <1>4. s \in Seq(S) /\ Len(s) = n /\ n \in Nat /\ Once(s)
    BY <1>2, <1>3, OrderingsOfSet
  <1>5. CandidateLimit \in Nat
    BY DEF CandidateLimit, TypeInv
  <1>6. /\ c \in Seq(S)
        /\ Len(c) = IF CandidateLimit = 0 \/ CandidateLimit >= n THEN n ELSE CandidateLimit
        /\ Len(c) <= n
        /\ \A i \in 1 .. Len(c) : c[i] = s[i]
    <2> HIDE DEF S, n
    <2>1. /\ Limit(s, CandidateLimit) \in Seq(S)
          /\ Len(Limit(s, CandidateLimit)) =
               IF CandidateLimit = 0 \/ CandidateLimit >= Len(s) THEN Len(s)
                                                                ELSE CandidateLimit
          /\ Len(Limit(s, CandidateLimit)) <= Len(s)
          /\ \A i \in 1 .. Len(Limit(s, CandidateLimit)) :
               Limit(s, CandidateLimit)[i] = s[i]
      BY <1>4, <1>5, LimitKeepsPlaces
    <2> QED
      BY <1>3, <1>4, <2>1
  <1>7. Len(c) \in Nat
    BY <1>6, LenProperties
  <1>8. Once(c)
    <2> SUFFICES ASSUME NEW i \in 1 .. Len(c), NEW j \in 1 .. Len(c), c[i] = c[j]
                 PROVE  i = j
      BY DEF Once
    <2>1. i \in 1 .. Len(s) /\ j \in 1 .. Len(s)
      BY <1>4, <1>6, <1>7
    <2>2. s[i] = s[j]
      BY <1>6
    <2> QED
      BY <1>4, <2>1, <2>2 DEF Once
  <1>9. c \in Seq(allowed)
    BY <1>6, SeqMonotonic
  <1>10. ToSet(c) \subseteq S
    BY <1>6, ElementsOfSeq
  <1>11. Len(c) = IF mode = "search" /\ limit \in 1 .. n THEN limit ELSE n
    <2> HIDE DEF S, n
    <2>1. CASE mode = "search"
      <3>1. CandidateLimit = limit /\ limit \in Nat
        BY <2>1 DEF CandidateLimit, TypeInv
      <3> QED
        BY <1>4, <1>6, <2>1, <3>1
    <2>2. CASE mode = "check"
      BY <1>6, <2>2 DEF CandidateLimit
    <2> QED
      BY <2>1, <2>2 DEF TypeInv
  <1> QED
    BY <1>8, <1>9, <1>10, <1>11

LEMMA ParseStep ==
  ASSUME ValidationInv, Parse
  PROVE  ValidationInv'
  <1> DEFINE S == ToSet(rows) \cap allowed
  <1>1. /\ phase = "parse" /\ phase' = "validate"
        /\ candidates' \in Prepared /\ queue' = candidates'
        /\ UNCHANGED <<options, allowed, pass, survivors, timings, result, value>>
    BY DEF Parse
  <1>2. UNCHANGED <<mode, rows, limit, resultCount, allowed, pass, survivors, timings>>
    BY <1>1 DEF options
  <1>3. /\ candidates' \in Seq(allowed)
        /\ Once(candidates')
        /\ ToSet(candidates') \subseteq S
        /\ Len(candidates') = IF mode = "search" /\ limit \in 1 .. Cardinality(S)
                              THEN limit ELSE Cardinality(S)
    BY <1>1, PreparedCandidates DEF ValidationInv
  <1>4. TypeInv'
    BY <1>1, <1>2, <1>3 DEF ValidationInv, TypeInv
  <1>5. UntestedInv'
    BY <1>1 DEF UntestedInv
  <1>6. PassInv'
    <2>1. /\ survivors = <<>> /\ pass = 1
          /\ \A p \in Proxies : timings[p] = <<>>
      BY <1>1 DEF ValidationInv, UntestedInv
    <2>2. Len(survivors') = 0
      BY <1>2, <2>1
    <2>3. Once(survivors')
      BY <2>2 DEF Once
    <2>4. \A i \in 1 .. Len(queue') : Len(timings'[queue'[i]]) = pass' - 1
      <3> SUFFICES ASSUME NEW i \in 1 .. Len(queue')
                   PROVE  Len(timings'[queue'[i]]) = pass' - 1
        OBVIOUS
      <3>1. queue'[i] \in Proxies
        BY <1>1, <1>3, ElementOfSeq DEF ValidationInv, TypeInv
      <3> QED
        BY <1>2, <2>1, <3>1
    <2>5. Once(queue)'
      BY <1>1, <1>3 DEF Once
    <2>6. \A i \in 1 .. Len(survivors') : Len(timings'[survivors'[i]]) = pass'
      BY <2>2
    <2> QED
      BY <2>3, <2>4, <2>5, <2>6 DEF PassInv, Once
  <1>7. LimitIsFilled'
    BY <1>2, <1>3 DEF LimitIsFilled
  <1> QED
    BY <1>1, <1>4, <1>5, <1>6, <1>7 DEF ValidationInv, ResultIsProven, RankedWithinRounding,
            SavedValueIsLongest

LEMMA ParseRaisesStep ==
  ASSUME ValidationInv, ParseRaises
  PROVE  ValidationInv'
  BY DEF ParseRaises, options, ValidationInv, TypeInv, UntestedInv, PassInv,
         LimitIsFilled, ResultIsProven, RankedWithinRounding,
            SavedValueIsLongest

\* Only the tested proxy's timings change, and it leaves the queue: it joins the
\* survivors with one more timing, or nothing.
LEMMA TestStep ==
  ASSUME ValidationInv, Test
  PROVE  ValidationInv'
  <1> DEFINE p == Head(queue)
  <1>1. /\ phase = "validate" /\ queue # <<>>
        /\ queue' = Tail(queue)
        /\ UNCHANGED <<options, allowed, phase, candidates, pass, result, value>>
    BY DEF Test
  <1>2. PICK r \in CheckResults :
          /\ survivors' = Keep(p, Usable(r.working, r.ms))
          /\ timings' = IF Usable(r.working, r.ms)
                        THEN [timings EXCEPT ![p] = Append(@, r.ms)] ELSE timings
    BY DEF Test
  <1>3. UNCHANGED <<mode, rows, limit, resultCount, allowed>>
    BY <1>1 DEF options
  <1>4. TypeInv /\ PassInv /\ allowed \subseteq Proxies
    BY DEF ValidationInv, TypeInv
  <1>5. /\ queue \in Seq(allowed) /\ survivors \in Seq(allowed)
        /\ Len(queue) \in Nat /\ Len(survivors) \in Nat
    BY <1>4, LenProperties DEF TypeInv
  <1>6. /\ p \in allowed /\ p = queue[1]
        /\ Tail(queue) \in Seq(allowed) /\ Len(Tail(queue)) = Len(queue) - 1
        /\ \A i \in 1 .. Len(Tail(queue)) : Tail(queue)[i] = queue[i + 1]
    BY <1>1, <1>5, HeadTailProperties
  <1>7. Len(queue) # 0
    BY <1>1, <1>5, EmptySeq
  <1>8. /\ timings[p] \in Seq(0 .. MaxTiming)
        /\ Len(timings[p]) = pass - 1
    BY <1>1, <1>4, <1>5, <1>6, <1>7 DEF TypeInv, PassInv
  <1>9. \A i \in 1 .. Len(Tail(queue)) : /\ Tail(queue)[i] # p
                                         /\ Tail(queue)[i] \in Proxies
                                         /\ Len(timings[Tail(queue)[i]]) = pass - 1
    <2> SUFFICES ASSUME NEW i \in 1 .. Len(Tail(queue))
                 PROVE  /\ Tail(queue)[i] # p /\ Tail(queue)[i] \in Proxies
                        /\ Len(timings[Tail(queue)[i]]) = pass - 1
      OBVIOUS
    <2>1. i + 1 \in 1 .. Len(queue) /\ 1 \in 1 .. Len(queue) /\ i + 1 # 1
      BY <1>5, <1>6, <1>7
    <2>2. Tail(queue)[i] = queue[i + 1] /\ queue[i + 1] \in allowed
      BY <1>5, <1>6, <2>1, ElementOfSeq
    <2> QED
      BY <1>1, <1>4, <1>6, <2>1, <2>2 DEF PassInv, Once
  <1>10. \A i \in 1 .. Len(survivors) : /\ survivors[i] # p
                                        /\ survivors[i] \in Proxies
                                        /\ Len(timings[survivors[i]]) = pass
    <2> SUFFICES ASSUME NEW i \in 1 .. Len(survivors)
                 PROVE  /\ survivors[i] # p /\ survivors[i] \in Proxies
                        /\ Len(timings[survivors[i]]) = pass
      OBVIOUS
    <2>1. survivors[i] \in Proxies
      BY <1>4, <1>5, ElementOfSeq
    <2>2. Len(timings[survivors[i]]) = pass /\ pass # pass - 1
      BY <1>1, <1>4 DEF PassInv, TypeInv
    <2> QED
      BY <1>8, <2>1, <2>2
  <1>11. Once(queue')
    <2> SUFFICES ASSUME NEW i \in 1 .. Len(Tail(queue)), NEW j \in 1 .. Len(Tail(queue)),
                        Tail(queue)[i] = Tail(queue)[j]
                 PROVE  i = j
      BY <1>1 DEF Once
    <2>1. i + 1 \in 1 .. Len(queue) /\ j + 1 \in 1 .. Len(queue)
      BY <1>5, <1>6
    <2>2. queue[i + 1] = queue[j + 1]
      BY <1>6
    <2>3. i + 1 = j + 1
      BY <1>1, <1>4, <2>1, <2>2 DEF PassInv, Once
    <2> QED
      BY <2>3
  <1>12. CASE ~Usable(r.working, r.ms)
    <2>1. survivors' = survivors /\ timings' = timings
      BY <1>2, <1>12 DEF Keep
    <2>2. TypeInv'
      BY <1>1, <1>3, <1>4, <1>6, <2>1 DEF TypeInv
    <2>3. PassInv'
      BY <1>1, <1>4, <1>9, <1>11, <2>1 DEF PassInv, Once
    <2> QED
      BY <1>1, <1>3, <2>2, <2>3
      DEF ValidationInv, UntestedInv, LimitIsFilled, ResultIsProven, RankedWithinRounding,
            SavedValueIsLongest
  <1>13. CASE Usable(r.working, r.ms)
    <2>1. survivors' = Append(survivors, p) /\ timings' = [timings EXCEPT ![p] = Append(@, r.ms)]
      BY <1>2, <1>13 DEF Keep
    <2>2. r.ms \in 0 .. MaxTiming
      BY <1>13 DEF Usable, CheckResults
    <2>3. /\ Append(timings[p], r.ms) \in Seq(0 .. MaxTiming)
          /\ Len(Append(timings[p], r.ms)) = Len(timings[p]) + 1
      BY <1>8, <2>2, AppendProperties
    <2>4. /\ timings' \in [Proxies -> Seq(0 .. MaxTiming)]
          /\ Len(timings'[p]) = pass
          /\ \A q \in Proxies : q # p => timings'[q] = timings[q]
      BY <1>4, <1>6, <1>8, <2>1, <2>3 DEF TypeInv
    <2>5. /\ survivors' \in Seq(allowed) /\ Len(survivors') = Len(survivors) + 1
          /\ \A i \in 1 .. Len(survivors) : survivors'[i] = survivors[i]
          /\ survivors'[Len(survivors) + 1] = p
      BY <1>5, <1>6, <2>1, AppendProperties
    <2>6. TypeInv'
      BY <1>1, <1>3, <1>4, <1>6, <2>4, <2>5 DEF TypeInv
    <2>7. \A i \in 1 .. Len(survivors') :
            i \in 1 .. Len(survivors) \/ i = Len(survivors) + 1
      BY <1>5, <2>5
    <2>8. Once(survivors')
      <3> SUFFICES ASSUME NEW i \in 1 .. Len(survivors'), NEW j \in 1 .. Len(survivors'),
                          survivors'[i] = survivors'[j]
                   PROVE  i = j
        BY DEF Once
      <3> QED
        BY <1>1, <1>4, <1>10, <2>5, <2>7 DEF PassInv, Once
    <2>9. \A i \in 1 .. Len(survivors') : Len(timings'[survivors'[i]]) = pass
      BY <1>10, <2>4, <2>5, <2>7
    <2>10. \A i \in 1 .. Len(queue') : Len(timings'[queue'[i]]) = pass - 1
      BY <1>1, <1>9, <2>4
    <2>11. PassInv'
      BY <1>1, <1>11, <2>8, <2>9, <2>10 DEF PassInv, Once
    <2> QED
      BY <1>1, <1>3, <2>6, <2>11
      DEF ValidationInv, UntestedInv, LimitIsFilled, ResultIsProven, RankedWithinRounding,
            SavedValueIsLongest
  <1> QED
    BY <1>12, <1>13

\* The survivors are the queue of the next pass, with as many timings each.
LEMMA NextPassStep ==
  ASSUME ValidationInv, NextPass
  PROVE  ValidationInv'
  <1>1. /\ phase = "validate" /\ phase' = "validate"
        /\ pass' = pass + 1 /\ queue' = survivors /\ survivors' = <<>>
        /\ UNCHANGED <<mode, rows, limit, resultCount, allowed, candidates, timings>>
    BY DEF NextPass, options
  <1>2. TypeInv /\ PassInv
    BY DEF ValidationInv
  <1>3. TypeInv'
    BY <1>1, <1>2, EmptySeq DEF TypeInv
  <1>4. PassInv'
    <2>1. Len(survivors') = 0
      BY <1>1
    <2>2. Once(survivors)' /\ \A i \in 1 .. Len(survivors') : Len(timings'[survivors'[i]]) = pass'
      BY <2>1 DEF Once
    <2>3. Once(queue)'
      BY <1>1, <1>2 DEF PassInv, Once
    <2>4. \A i \in 1 .. Len(queue') : Len(timings'[queue'[i]]) = pass' - 1
      BY <1>1, <1>2 DEF PassInv, TypeInv
    <2> QED
      BY <2>2, <2>3, <2>4 DEF PassInv
  <1> QED
    BY <1>1, <1>3, <1>4
    DEF ValidationInv, UntestedInv, LimitIsFilled, ResultIsProven, RankedWithinRounding,
            SavedValueIsLongest

LEMMA FinishStep ==
  ASSUME ValidationInv, Finish
  PROVE  ValidationInv'
  <1>1. /\ phase = "validate" /\ phase' = "done"
        /\ survivors = <<>> \/ pass = Passes
        /\ UNCHANGED <<mode, rows, random, limit, resultCount, allowed, candidates, pass,
                       queue, survivors, timings>>
    BY DEF Finish, options
  <1>2. PICK ranking \in Rankings(ToSet(survivors)) : result' = Limit(ranking, resultCount)
    BY DEF Finish
  <1>3. TypeInv /\ PassInv
    BY DEF ValidationInv
  <1>4. /\ ranking \in SetToSeqs(ToSet(survivors)) /\ resultCount \in Nat
        /\ IsFiniteSet(ToSet(survivors))
    BY <1>2, <1>3, ElementsAreFinite DEF Rankings, TypeInv
  <1>5. ASSUME NEW i \in DOMAIN result'
        PROVE  /\ result'[i] \in ToSet(survivors)
               /\ \A x \in ToSet(survivors) \ ToSet(SubSeq(result', 1, i)) :
                    \E j \in DOMAIN ranking :
                      i \in DOMAIN ranking /\ i < j /\ ranking[i] = result'[i] /\ ranking[j] = x
    BY <1>2, <1>4, FrontOfOrdering
  <1>6. ResultIsProven'
    <2> SUFFICES ASSUME NEW p \in ToSet(result')
                 PROVE  /\ p \in allowed
                        /\ Len(timings[p]) = Passes
                        /\ \A ms \in ToSet(timings[p]) : ms <= MaxTiming
      BY <1>1 DEF ResultIsProven, Passes
    <2>1. p \in ToSet(survivors)
      BY <1>5 DEF ToSet
    <2>2. PICK i \in 1 .. Len(survivors) : p = survivors[i]
      BY <1>3, <2>1, ElementsOfSeq DEF TypeInv
    <2>3. p \in allowed
      BY <1>3, <2>2, ElementOfSeq DEF TypeInv
    <2>4. Len(timings[p]) = pass
      BY <1>1, <1>3, <2>2 DEF PassInv
    <2>5. pass = Passes
      BY <1>1, <2>2
    <2>6. timings[p] \in Seq(0 .. MaxTiming)
      BY <1>3, <2>3 DEF TypeInv
    <2>7. ToSet(timings[p]) \subseteq 0 .. MaxTiming
      BY <2>6, ElementsOfSeq
    <2> QED
      BY <2>3, <2>4, <2>5, <2>7
  <1>7. RankedWithinRounding'
    <2>1. Passes' = Passes
      BY <1>1 DEF Passes
    <2> SUFFICES ASSUME ~random, NEW i \in DOMAIN result',
                        NEW p \in ToSet(survivors) \ ToSet(SubSeq(result', 1, i))
                 PROVE  \/ Total(timings[result'[i]]) <= Total(timings[p])
                        \/ TiesByRounding(result'[i], p)
      BY <1>1, <2>1 DEF RankedWithinRounding, TiesByRounding
    <2> DEFINE best == result'[i]
    <2>2. PICK j \in DOMAIN ranking :
            i \in DOMAIN ranking /\ i < j /\ ranking[i] = best /\ ranking[j] = p
      BY <1>5
    <2>3. RanksLower(best, p)
      BY <1>2, <2>2 DEF Rankings
    <2>4. \A q \in ToSet(survivors) :
            /\ timings[q] \in Seq(Nat) /\ Len(timings[q]) = Passes
            /\ Passes \in Nat \ {0}
      <3> TAKE q \in ToSet(survivors)
      <3>1. PICK k \in 1 .. Len(survivors) : q = survivors[k]
        BY <1>3, ElementsOfSeq DEF TypeInv
      <3>2. q \in Proxies
        BY <1>3, <3>1, ElementOfSeq DEF TypeInv
      <3>3. timings[q] \in Seq(0 .. MaxTiming)
        BY <1>3, <3>2 DEF TypeInv
      <3>4. timings[q] \in Seq(Nat)
        BY <3>3, SeqMonotonic, LimitsAreCounts
      <3>5. Len(timings[q]) = pass /\ pass = Passes
        BY <1>1, <1>3, <3>1 DEF PassInv
      <3> QED
        BY <1>3, <3>4, <3>5 DEF TypeInv
    <2>5. best \in ToSet(survivors)
      BY <1>5
    <2>6. Average(best) = Rounded(Total(timings[best]), Passes)
          /\ Average(p) = Rounded(Total(timings[p]), Passes)
      BY <2>4, <2>5 DEF Average, MeanTiming
    <2>7. /\ Total(timings[best]) \in Nat /\ Total(timings[p]) \in Nat
          /\ Passes \in Nat \ {0}
      BY <2>4, <2>5, TotalIsNat
    <2>8. Rounded(Total(timings[best]), Passes) <= Rounded(Total(timings[p]), Passes)
      <3>1. Average(best) \in Nat /\ Average(p) \in Nat
        BY <2>6, <2>7, RoundedBounds
      <3>2. Average(best) <= Average(p)
        BY <2>3, <3>1 DEF RanksLower
      <3> QED
        BY <2>6, <3>2
    <2>9. CASE Total(timings[p]) < Total(timings[best])
      <3>1. /\ Passes > 1
            /\ Total(timings[best]) <= Total(timings[p]) + Passes
            /\ Average(best) = Average(p)
        BY <2>6, <2>7, <2>8, <2>9, RoundedOrder
      <3>2. Average(best) \in Nat
        BY <2>6, <2>7, RoundedBounds
      <3>3. best < p
        BY <2>3, <3>1, <3>2 DEF RanksLower
      <3> QED
        BY <3>1, <3>3 DEF TiesByRounding
    <2> QED
      BY <2>7, <2>9
  <1>8. TypeInv'
    BY <1>1, <1>3 DEF TypeInv
  <1>9. SavedValueIsLongest'
    <2>1. MaxSavedCount' = MaxSavedCount
      BY <1>1 DEF MaxSavedCount
    <2>2. MaxSavedCount \in Nat \ {0}
      BY <1>4, SizesAssumption DEF MaxSavedCount
    <2>3. result' \in Seq(Proxies)
      <3>1. ranking \in Seq(ToSet(survivors))
        BY <1>4, OrderingsOfSet
      <3>2. Limit(ranking, resultCount) \in Seq(ToSet(survivors))
        BY <1>4, <3>1, LimitKeepsPlaces
      <3>3. ToSet(survivors) \subseteq Proxies
        BY <1>3, ElementsOfSeq DEF TypeInv
      <3> QED
        BY <1>2, <3>2, <3>3, SeqMonotonic
    <2>4. mode' = "search" => value' = SavedValue(result')
      BY <1>1 DEF Finish
    <2> QED
      BY <2>1, <2>2, <2>3, <2>4, SavedIsLongest DEF SavedValueIsLongest
  <1> QED
    BY <1>1, <1>6, <1>7, <1>8, <1>9 DEF ValidationInv, UntestedInv, PassInv, LimitIsFilled

LEMMA ValidationStutter ==
  ASSUME ValidationInv, UNCHANGED vars
  PROVE  ValidationInv'
  <1>1. UNCHANGED <<mode, rows, random, limit, resultCount, allowed, phase, candidates, pass,
                    queue, survivors, timings, result, value>>
    BY DEF vars, options
  <1> QED
    BY <1>1
    DEF ValidationInv, TypeInv, UntestedInv, PassInv, Once, LimitIsFilled, ResultIsProven,
        RankedWithinRounding, TiesByRounding, SavedValueIsLongest, MaxSavedCount,
        Passes

LEMMA ValidationInvariant == Spec => []ValidationInv
  <1>1. ValidationInv /\ [Next]_vars => ValidationInv'
    BY ParseStep, ParseRaisesStep, TestStep, NextPassStep, FinishStep, ValidationStutter
    DEF Next
  <1> QED
    BY ValidationInit, <1>1, PTL DEF Spec

\* A proxy that get() or search() returns was allowed by its history and passed
\* every pass of the checks in time, however many there are.
THEOREM ReturnedProxiesAreProven == Spec => []ResultIsProven
  <1>1. ValidationInv => ResultIsProven
    BY DEF ValidationInv
  <1> QED
    BY <1>1, ValidationInvariant, PTL

\* A proxy that failed one check is neither tested again nor kept
\* (the dict of the next pass holds the survivors of this one).
THEOREM FailuresAreGivenUp == Spec => []NoSecondChance
  <1>1. ASSUME ValidationInv PROVE NoSecondChance
    <2>1. queue \in Seq(allowed) /\ survivors \in Seq(allowed) /\ PassInv
      BY <1>1 DEF ValidationInv, TypeInv
    <2>2. /\ ToSet(queue) = {queue[i] : i \in 1 .. Len(queue)}
          /\ ToSet(survivors) = {survivors[i] : i \in 1 .. Len(survivors)}
      BY <2>1, ElementsOfSeq
    <2> QED
      BY <2>1, <2>2 DEF NoSecondChance, PassInv
  <1> QED
    BY <1>1, ValidationInvariant, PTL

\* The candidate limit is filled with rows the history allows, as far as there
\* are any, and no address is a candidate twice: used up proxies take no place.
THEOREM LimitsAreFilled == Spec => []LimitIsFilled
  <1>1. ValidationInv => LimitIsFilled
    BY DEF ValidationInv
  <1> QED
    BY <1>1, ValidationInvariant, PTL

\* With "best" a slower proxy comes before a faster one only by the rounding of
\* their averages in buildWorkingProxyRecord: by a millisecond on average at most,
\* for every number of passes, and not at all after a single one.
THEOREM RankingErrsByRounding == Spec => []RankedWithinRounding
  <1>1. ValidationInv => RankedWithinRounding
    BY DEF ValidationInv
  <1> QED
    BY <1>1, ValidationInvariant, PTL

\* The value saved in KeyVal fits it and is the longest run of the result that
\* may be saved among those that start with the first address that fits.
THEOREM SavedValuesAreLongest == Spec => []SavedValueIsLongest
  <1>1. ValidationInv => SavedValueIsLongest
    BY DEF ValidationInv
  <1> QED
    BY <1>1, ValidationInvariant, PTL
=============================================================================
