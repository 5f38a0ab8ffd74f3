----------------------------- MODULE DataLemmas -----------------------------
(***************************************************************************)
(* What the proofs of several components need of data.  Of numbers: what   *)
(* the integers of the machine keep of them.  Of sequences: popping a      *)
(* stack, the first and the last of some positions, and folds.  A fold     *)
(* ends where the one of a shorter sequence ends, plus a step; that there  *)
(* is a first of some positions is what takes the place of induction.      *)
(***************************************************************************)
EXTENDS TwosComplement, SequencesExt, FiniteSetTheorems, WellFoundedInduction,
        SequenceTheorems, TLAPS

-----------------------------------------------------------------------------
(* Numbers                                                                 *)

(* A number is a multiple of the modulus and a remainder.                  *)
LEMMA Division ==
  ASSUME NEW n \in Int, NEW m \in Nat \ {0}
  PROVE  /\ n % m \in 0 .. (m - 1) /\ n \div m \in Int
         /\ n = ((n \div m) * m) + (n % m)
  OBVIOUS

(* Only zero is a multiple within the modulus.                             *)
LEMMA SmallMultiple ==
  ASSUME NEW d \in Int, NEW m \in Nat \ {0}, -m < d * m, d * m < m
  PROVE  d = 0
  OBVIOUS

(* The remainder is the only one.                                          *)
LEMMA OneRemainder ==
  ASSUME NEW m \in Nat \ {0}, NEW k \in Int, NEW j \in Int,
         NEW r \in 0 .. (m - 1), NEW s \in 0 .. (m - 1), (k * m) + r = (j * m) + s
  PROVE  r = s
<1>1. (k - j) * m = s - r
  OBVIOUS
<1>2. k - j = 0
  BY <1>1, SmallMultiple
<1>. QED BY <1>1, <1>2

(* Numbers that differ by multiples of the modulus have the same.          *)
LEMMA RemainderShifted ==
  ASSUME NEW m \in Nat \ {0}, NEW n \in Int, NEW j \in Int, NEW k \in Int,
         n = j + (k * m)
  PROVE  n % m = j % m
<1>. DEFINE p == n \div m
            q == j \div m
            r == n % m
            s == j % m
<1>1. /\ p \in Int /\ q \in Int /\ r \in 0 .. (m - 1) /\ s \in 0 .. (m - 1)
      /\ n = (p * m) + r /\ j = (q * m) + s
  BY Division
<1>. HIDE DEF p, q, r, s
<1>2. (p * m) + r = ((q + k) * m) + s /\ q + k \in Int
  BY <1>1
<1>3. r = s
  BY <1>1, <1>2, OneRemainder
<1>. QED BY <1>3 DEF r, s

(* What a machine integer keeps of a number: the number itself if it is    *)
(* one of them, and always one of them that is congruent to it.            *)
LEMMA SignedKeeps ==
  ASSUME NEW max \in Nat, NEW n \in Int
  PROVE  /\ ToSigned(n, max) \in Signed(max) /\ ToSigned(n, max) \in Int
         /\ ToSigned(n, max) % Modulus(max) = n % Modulus(max)
         /\ n \in Signed(max) => ToSigned(n, max) = n
         /\ \E k \in Int : ToSigned(n, max) = n + (k * Modulus(max))
<1>. DEFINE m == Modulus(max)
            r == n % m
            q == n \div m
            v == ToSigned(n, max)
<1>1. m \in Nat \ {0} /\ m = 2 * (max + 1)
  BY DEF Modulus
<1>2. r \in 0 .. (m - 1) /\ q \in Int /\ n = (q * m) + r
  BY <1>1, Division
<1>3. v = IF r <= max THEN r ELSE r - m
  BY DEF ToSigned
<1>. HIDE DEF m, r, q, v
<1>4. v \in Signed(max) /\ v \in Int
  BY <1>1, <1>2, <1>3 DEF Signed
<1>5. PICK k \in Int : v = n + (k * m)
  <2>1. CASE r <= max
    <3>1. v = n + ((-q) * m) /\ -q \in Int
      BY <1>1, <1>2, <1>3, <2>1
    <3>. QED BY <3>1
  <2>2. CASE ~(r <= max)
    <3>1. v = n + ((-q - 1) * m) /\ -q - 1 \in Int
      BY <1>1, <1>2, <1>3, <2>2
    <3>. QED BY <3>1
  <2>. QED BY <2>1, <2>2
<1>6. v % m = n % m
  BY <1>1, <1>4, <1>5, RemainderShifted
<1>7. ASSUME n \in Signed(max) PROVE v = n
  <2>1. -m < k * m /\ k * m < m
    BY <1>1, <1>4, <1>5, <1>7 DEF Signed
  <2>2. k = 0
    BY <1>1, <2>1, SmallMultiple
  <2>. QED BY <1>1, <1>5, <2>2
<1>. QED BY <1>4, <1>5, <1>6, <1>7 DEF m, v

(* Numbers that differ by multiples of the modulus are kept as the same.   *)
LEMMA KeptAlike ==
  ASSUME NEW max \in Nat, NEW n \in Int, NEW j \in Int, NEW k \in Int,
         n = j + (k * Modulus(max))
  PROVE  ToSigned(n, max) = ToSigned(j, max)
<1>1. Modulus(max) \in Nat \ {0}
  BY DEF Modulus
<1>2. n % Modulus(max) = j % Modulus(max)
  BY <1>1, RemainderShifted
<1>. QED BY <1>2, Zenon DEF ToSigned

(* A number that is kept as zero is zero, or too large for the machine.    *)
LEMMA KeptAsZero ==
  ASSUME NEW max \in Nat, NEW n \in Nat, ToSigned(n, max) = 0
  PROVE  n = 0 \/ n >= Modulus(max)
<1>. DEFINE m == Modulus(max)
            q == n \div m
            r == n % m
<1>1. m \in Nat \ {0} /\ m = 2 * (max + 1) /\ n \in Int
  BY DEF Modulus
<1>2. r \in 0 .. (m - 1) /\ q \in Int /\ n = (q * m) + r
  BY <1>1, Division
<1>3. r = 0
  BY <1>1, <1>2 DEF ToSigned
<1>. HIDE DEF m, q, r
<1>4. ASSUME n < m PROVE n = 0
  <2>1. -m < q * m /\ q * m < m
    BY <1>1, <1>2, <1>3, <1>4
  <2>2. q = 0
    BY <1>1, <1>2, <2>1, SmallMultiple
  <2>. QED BY <1>1, <1>2, <1>3, <2>2
<1>. QED BY <1>1, <1>4 DEF m

-----------------------------------------------------------------------------
(* Stacks                                                                  *)

(* A sequence without its last element.                                    *)
LEMMA ButLast ==
    ASSUME NEW S, NEW s \in Seq(S), s # <<>>
    PROVE  /\ SubSeq(s, 1, Len(s) - 1) \in Seq(S)
           /\ Len(SubSeq(s, 1, Len(s) - 1)) = Len(s) - 1
           /\ Len(s) \in Nat \ {0}
<1> DEFINE n == Len(s) - 1
<1>1. Len(s) \in Nat \ {0}
    BY EmptySeq
<1>2. n \in Nat /\ n \in Int /\ 1 \in Int
    BY <1>1
<1>3. \A i \in 1 .. n : s[i] \in S
    BY <1>1, ElementOfSeq
<1> HIDE DEF n
<1>4. /\ SubSeq(s, 1, n) \in Seq(S)
      /\ Len(SubSeq(s, 1, n)) = IF 1 <= n THEN n - 1 + 1 ELSE 0
    BY <1>2, <1>3, SubSeqProperties
<1>5. Len(SubSeq(s, 1, n)) = n
    BY <1>2, <1>4
<1> QED BY <1>1, <1>4, <1>5 DEF n

(* What a sequence without its last element holds.                         *)
LEMMA SubSeqElements ==
  ASSUME NEW S, NEW s \in Seq(S), s # <<>>
  PROVE  \A i \in 1 .. Len(s) - 1 : SubSeq(s, 1, Len(s) - 1)[i] = s[i]
<1>1. Len(s) \in Nat \ {0}
  BY EmptySeq
<1>2. \A i \in 1 .. Len(s) - 1 : s[i] \in S
  BY <1>1, ElementOfSeq
<1>3. Len(s) - 1 \in Int /\ 1 \in Int /\ (Len(s) - 1) - 1 + 1 = Len(s) - 1
  BY <1>1
<1>4. \A i \in 1 .. (Len(s) - 1) - 1 + 1 : SubSeq(s, 1, Len(s) - 1)[i] = s[1 + i - 1]
  BY <1>2, <1>3, SubSeqProperties
<1>. QED BY <1>1, <1>3, <1>4

-----------------------------------------------------------------------------
(* Positions                                                               *)

(* A set of positions has a first one.                                     *)
LEMMA LeastExists ==
  ASSUME NEW n \in Nat, NEW T \in SUBSET (0..n), T # {}
  PROVE  \E x \in T : \A y \in T : x <= y
<1> DEFINE Upto(x) == {y \in T : y <= x}
           F == {Upto(x) : x \in T}
           R == StrictSubsetOrdering(0..n)
<1>1. IsFiniteSet(0..n)
  BY FS_Interval
<1>2. F \subseteq FiniteSubsetsOf(0..n) /\ F # {}
  <2>1. FiniteSubsetsOf(0..n) = SUBSET (0..n)
    BY <1>1, FS_FiniteSubsetsOfFinite, Zenon
  <2>2. \A x \in T : Upto(x) \in SUBSET (0..n)
    OBVIOUS
  <2>3. PICK x \in T : TRUE
    OBVIOUS
  <2>4. Upto(x) \in F
    OBVIOUS
  <2>5. \A A \in F : A \in SUBSET (0..n)
    BY <2>2
  <2>. QED BY <2>1, <2>4, <2>5
<1>3. IsWellFoundedOn(R, FiniteSubsetsOf(0..n))
  BY FS_StrictSubsetOrderingWellFounded
<1>4. PICK A \in F : \A B \in F : ~(<<B, A>> \in R)
  <2> HIDE DEF F, R
  <2> QED BY <1>2, <1>3, WFMin
<1>5. PICK x \in T : A = Upto(x)
  BY <1>4
<1>6. ASSUME NEW y \in T, ~(x <= y) PROVE FALSE
  <2>1. y < x /\ x \in 0..n /\ y \in 0..n
    BY <1>6
  <2>2. Upto(y) \subseteq A /\ Upto(y) # A
    <3>1. x \in A /\ x \notin Upto(y)
      BY <1>5, <2>1
    <3>2. ASSUME NEW z \in Upto(y) PROVE z \in A
      <4>1. z \in 0..n /\ z <= y
        OBVIOUS
      <4> QED BY <1>5, <2>1, <4>1
    <3> QED BY <3>1, <3>2
  <2>3. <<Upto(y), A>> \in R
    <3>1. Upto(y) \in SUBSET (0..n) /\ A \in SUBSET (0..n)
      BY <1>5
    <3> HIDE DEF Upto
    <3> QED BY <2>2, <3>1 DEF StrictSubsetOrdering
  <2>4. Upto(y) \in F
    BY <1>6
  <2> HIDE DEF Upto, F, R
  <2> QED BY <1>4, <2>3, <2>4
<1> QED BY <1>6

(* And a last one.                                                         *)
LEMMA GreatestExists ==
  ASSUME NEW n \in Nat, NEW T \in SUBSET (0..n), T # {}
  PROVE  \E x \in T : \A y \in T : x >= y
<1> DEFINE U == {n - x : x \in T}
<1>1. U \in SUBSET (0..n) /\ U # {}
  <2>1. \A x \in T : n - x \in 0..n
    OBVIOUS
  <2>2. PICK x \in T : TRUE
    OBVIOUS
  <2>3. n - x \in U
    OBVIOUS
  <2>. QED BY <2>1, <2>3
<1>2. PICK u \in U : \A v \in U : u <= v
  <2> HIDE DEF U
  <2> QED BY <1>1, LeastExists
<1>3. PICK x \in T : u = n - x
  OBVIOUS
<1>4. ASSUME NEW y \in T PROVE x >= y
  <2>1. n - y \in U
    OBVIOUS
  <2>2. n - x <= n - y /\ x \in 0..n /\ y \in 0..n
    BY <1>2, <1>3, <2>1
  <2> QED BY <2>2
<1> QED BY <1>4

(* The smaller of two.                                                     *)
LEMMA MinOfTwo ==
  ASSUME NEW a \in Int, NEW b \in Int, a <= b
  PROVE  Min({a, b}) = a /\ Min({b, a}) = a
<1>1. a \in {a, b} /\ \A y \in {a, b} : a <= y
  OBVIOUS
<1>2. \A m \in {a, b} : (\A y \in {a, b} : m <= y) => m = a
  OBVIOUS
<1>3. Min({a, b}) = a
  BY <1>1, <1>2 DEF Min
<1>4. {b, a} = {a, b}
  OBVIOUS
<1>. QED BY <1>3, <1>4, Zenon

(* The largest of some of the positions of a sequence.                     *)
LEMMA MaxIs ==
  ASSUME NEW n \in Nat, NEW T \in SUBSET (1..n), T # {}
  PROVE  Max(T) \in T /\ \A y \in T : Max(T) >= y
<1>1. T \in SUBSET (0..n)
  OBVIOUS
<1>2. \E x \in T : \A y \in T : x >= y
  BY <1>1, GreatestExists
<1>. QED BY <1>2, Zenon DEF Max

(* The first k positions without the last of them.                         *)
LEMMA MaxOfFirst ==
  ASSUME NEW n \in Nat, NEW k \in 1..n
  PROVE  Max(1..k) = k /\ (1..k) \ {k} = 1..(k - 1) /\ 1..k \in SUBSET (1..n) /\ 1..k # {}
<1>1. 1..k \in SUBSET (1..n) /\ 1..k # {} /\ k \in 1..k
  OBVIOUS
<1>2. Max(1..k) \in 1..k /\ Max(1..k) >= k
  BY <1>1, MaxIs
<1>3. Max(1..k) = k
  BY <1>2
<1>4. (1..k) \ {k} = 1..(k - 1)
  OBVIOUS
<1>. QED BY <1>1, <1>3, <1>4

-----------------------------------------------------------------------------
(* Folds                                                                   *)

(* A step of a fold: what it makes of the last of some positions.          *)
FoldsAt(h, F, base, s, seq) == h[s] = IF s = {} THEN base ELSE F[h[s \ {Max(s)}]][seq[Max(s)]]

(* A fold of the first k elements, at every set of their positions.        *)
FoldUpto(h, V, F, base, seq, k) ==
  /\ h \in [SUBSET (1..k) -> V]
  /\ \A s \in SUBSET (1..k) : FoldsAt(h, F, base, s, seq)

(* A sequence of any length can be folded: the recursion that FoldLeft     *)
(* chooses a solution of has one.                                          *)
LEMMA FoldExists ==
  ASSUME NEW V, NEW W, NEW F \in [V -> [W -> V]], NEW base \in V, NEW seq \in Seq(W)
  PROVE  \E h : FoldUpto(h, V, F, base, seq, Len(seq))
<1> DEFINE n == Len(seq)
           T == {k \in 0..n : ~\E h : FoldUpto(h, V, F, base, seq, k)}
<1>1. n \in Nat
  OBVIOUS
<1> HIDE DEF n
<1>2. ASSUME T # {} PROVE FALSE
  <2>1. PICK k \in T : \A y \in T : k <= y
    <3>1. T \in SUBSET (0..n)
      OBVIOUS
    <3> HIDE DEF T
    <3> QED BY <1>1, <1>2, <3>1, LeastExists
  <2>2. k \in 0..n /\ ~\E h : FoldUpto(h, V, F, base, seq, k)
    OBVIOUS
  <2>3. CASE k = 0
    <3> DEFINE g == [s \in SUBSET (1..k) |-> base]
    <3>1. g \in [SUBSET (1..k) -> V]
      OBVIOUS
    <3>2. \A s \in SUBSET (1..k) : s = {}
      BY <2>3
    <3>3. \A s \in SUBSET (1..k) : FoldsAt(g, F, base, s, seq)
      BY <3>2 DEF FoldsAt
    <3> HIDE DEF g
    <3> QED BY <2>2, <3>1, <3>3 DEF FoldUpto
  <2>4. CASE k # 0
    <3>1. k \in 1..n /\ k - 1 \in 0..n /\ k \in Nat /\ ~(k <= k - 1)
      BY <1>1, <2>2, <2>4
    <3>2. k - 1 \notin T
      BY <2>1, <3>1
    <3>3. PICK g : FoldUpto(g, V, F, base, seq, k - 1)
      BY <3>1, <3>2
    <3> DEFINE f == [s \in SUBSET (1..k) |->
                       IF s \in SUBSET (1..(k - 1)) THEN g[s] ELSE F[g[s \ {k}]][seq[k]]]
    <3>4. /\ g \in [SUBSET (1..(k - 1)) -> V]
          /\ \A s \in SUBSET (1..(k - 1)) : FoldsAt(g, F, base, s, seq)
      BY <3>3 DEF FoldUpto
    <3>5. SUBSET (1..(k - 1)) \subseteq SUBSET (1..k)
      BY <3>1
    <3>6. seq[k] \in W
      BY <3>1 DEF n
    <3>7. ASSUME NEW s \in SUBSET (1..k) PROVE f[s] \in V /\ FoldsAt(f, F, base, s, seq)
      <4>1. CASE s \in SUBSET (1..(k - 1))
        <5>1. f[s] = g[s]
          BY <4>1
        <5>2. s # {} => s \ {Max(s)} \in SUBSET (1..(k - 1))
          BY <4>1
        <5>3. s # {} => f[s \ {Max(s)}] = g[s \ {Max(s)}]
          BY <3>5, <5>2
        <5>4. FoldsAt(g, F, base, s, seq) /\ g[s] \in V
          BY <3>4, <4>1
        <5> HIDE DEF f
        <5> QED BY <5>1, <5>3, <5>4 DEF FoldsAt
      <4>2. CASE s \notin SUBSET (1..(k - 1))
        <5>1. k \in s
          BY <3>1, <4>2
        <5>2. Max(s) = k
          <6>1. Max(s) \in s /\ Max(s) >= k
            BY <3>1, <5>1, MaxIs
          <6>2. Max(s) \in 1..k
            BY <6>1
          <6> QED BY <3>1, <6>1, <6>2
        <5>3. s \ {k} \in SUBSET (1..(k - 1))
          BY <3>1
        <5>4. f[s] = F[g[s \ {k}]][seq[k]]
          BY <4>2
        <5>5. f[s \ {k}] = g[s \ {k}] /\ g[s \ {k}] \in V
          BY <3>4, <3>5, <5>3
        <5> HIDE DEF f
        <5>6. F[g[s \ {k}]][seq[k]] \in V
          BY <3>6, <5>5
        <5> QED BY <5>1, <5>2, <5>4, <5>5, <5>6 DEF FoldsAt
      <4> QED BY <4>1, <4>2
    <3>8. f = [s \in SUBSET (1..k) |-> f[s]]
      OBVIOUS
    <3> HIDE DEF f
    <3>9. f \in [SUBSET (1..k) -> V]
      BY <3>7, <3>8
    <3> QED BY <2>2, <3>7, <3>9 DEF FoldUpto
  <2> QED BY <2>3, <2>4
<1>3. n \in 0..n
  BY <1>1
<1>4. n \notin T
  <2> HIDE DEF T
  <2> QED BY <1>2
<1>5. \E h : FoldUpto(h, V, F, base, seq, n)
  BY <1>3, <1>4
<1> QED BY <1>5 DEF n

(* What a fold makes of the first elements of a sequence, one by one.      *)
Folds(h, V, F, base, seq) ==
  /\ h[{}] = base
  /\ \A k \in 1..Len(seq) : h[1..(k - 1)] \in V => h[1..k] = F[h[1..(k - 1)]][seq[k]]

(* Two folds of sequences that begin alike begin alike.                    *)
LEMMA FoldsAgree ==
  ASSUME NEW V, NEW W, NEW F \in [V -> [W -> V]], NEW base \in V,
         NEW s \in Seq(W), NEW t \in Seq(W), NEW g, NEW h,
         Folds(g, V, F, base, s), Folds(h, V, F, base, t),
         Len(s) <= Len(t), \A k \in 1..Len(s) : s[k] = t[k]
  PROVE  \A k \in 0..Len(s) : g[1..k] = h[1..k] /\ g[1..k] \in V
<1> DEFINE n == Len(s)
           Same(k) == g[1..k] = h[1..k] /\ g[1..k] \in V
           T == {k \in 0..n : ~Same(k)}
<1>1. n \in Nat /\ Len(t) \in Nat /\ n <= Len(t)
  OBVIOUS
<1>2. ASSUME T # {} PROVE FALSE
  <2>1. PICK k \in T : \A y \in T : k <= y
    <3>1. T \in SUBSET (0..n)
      OBVIOUS
    <3> HIDE DEF T, n
    <3> QED BY <1>1, <1>2, <3>1, LeastExists
  <2>2. k \in 0..n /\ ~Same(k)
    OBVIOUS
  <2>3. CASE k = 0
    <3>1. 1..k = {}
      BY <2>3
    <3> QED BY <2>2, <3>1 DEF Folds
  <2>4. CASE k # 0
    <3>1. k \in 1..n /\ k \in 1..Len(t) /\ k - 1 \in 0..n /\ ~(k <= k - 1)
      <4>1. k \in 0..n
        BY <2>2
      <4> HIDE DEF n, T
      <4> QED BY <1>1, <2>4, <4>1
    <3>2. k - 1 \notin T
      <4> HIDE DEF T, n
      <4> QED BY <2>1, <3>1
    <3>3. g[1..(k - 1)] = h[1..(k - 1)] /\ g[1..(k - 1)] \in V
      <4>1. Same(k - 1)
        BY <3>1, <3>2
      <4> QED BY <4>1
    <3>4. g[1..k] = F[g[1..(k - 1)]][s[k]] /\ h[1..k] = F[h[1..(k - 1)]][t[k]]
      BY <3>1, <3>3 DEF Folds
    <3>5. s[k] = t[k] /\ s[k] \in W
      <4>1. k \in 1..Len(s)
        BY <3>1
      <4> QED BY <4>1, ElementOfSeq
    <3>6. F[g[1..(k - 1)]][s[k]] \in V
      BY <3>3, <3>5
    <3> QED BY <2>2, <3>3, <3>4, <3>5, <3>6
  <2> QED BY <2>3, <2>4
<1>3. T = {}
  <2> HIDE DEF T
  <2> QED BY <1>2
<1>4. ASSUME NEW k \in 0..n PROVE Same(k)
  <2>1. k \notin T
    <3> HIDE DEF T
    <3> QED BY <1>3
  <2> QED BY <2>1
<1> QED BY <1>4

(* One more element is one more step.                                      *)
LEMMA FoldOfAppend ==
  ASSUME NEW V, NEW W, NEW F \in [V -> [W -> V]], NEW base \in V,
         NEW s \in Seq(W), NEW w \in W, NEW g, NEW h,
         Folds(g, V, F, base, s), Folds(h, V, F, base, Append(s, w))
  PROVE  h[1..(Len(s) + 1)] = F[g[1..Len(s)]][w] /\ g[1..Len(s)] \in V
<1> DEFINE t == Append(s, w)
<1>1. /\ Len(s) \in Nat /\ t \in Seq(W) /\ Len(t) = Len(s) + 1 /\ t[Len(s) + 1] = w
      /\ \A k \in 1..Len(s) : s[k] = t[k]
  OBVIOUS
<1>2. Folds(h, V, F, base, t)
  OBVIOUS
<1> HIDE DEF t
<1>3. Len(s) <= Len(t)
  BY <1>1
<1>4. g[1..Len(s)] = h[1..Len(s)] /\ g[1..Len(s)] \in V
  <2>1. \A k \in 0..Len(s) : g[1..k] = h[1..k] /\ g[1..k] \in V
    BY <1>1, <1>2, <1>3, FoldsAgree
  <2>2. Len(s) \in 0..Len(s)
    BY <1>1
  <2> QED BY <2>1, <2>2, Zenon
<1>5. Len(s) + 1 \in 1..Len(t) /\ (Len(s) + 1) - 1 = Len(s)
  BY <1>1
<1>6. h[1..(Len(s) + 1)] = F[h[1..Len(s)]][t[Len(s) + 1]]
  <2>1. h[1..((Len(s) + 1) - 1)] \in V => h[1..(Len(s) + 1)] = F[h[1..((Len(s) + 1) - 1)]][t[Len(s) + 1]]
    BY <1>2, <1>5, Zenon DEF Folds
  <2> QED BY <1>4, <1>5, <2>1, Zenon
<1> QED BY <1>1, <1>4, <1>6
=============================================================================
