---------------------------- MODULE CoreTypeProofs ----------------------------
(***************************************************************************)
(* Type correctness of the pipeline.  The ALU and the CSR unit meet in     *)
(* ToWord, a sum over a set of bits, so the proof starts with powers of    *)
(* two and that sum, and goes on stage by stage from the ALU to WB.        *)
(***************************************************************************)
EXTENDS RefinementProofs, FiniteSetTheorems, WellFoundedInduction

-----------------------------------------------------------------------------
(* Powers of two *)

\* A power of two is the number of subsets of an interval.
LEMMA PowNat == ASSUME NEW n \in Nat PROVE 2^n \in Nat
<1>1. IsFiniteSet(1..n) /\ Cardinality(1..n) = n
  BY FS_Interval
<1> QED
  BY <1>1, FS_SUBSET, FS_CardinalityType

\* The empty product.
LEMMA PowZero == 2^0 = 1
  OBVIOUS

\* The subsets of 1 .. n + 1 are those of 1 .. n, each without and with
\* n + 1: one bit more doubles the range of a word.
LEMMA PowSucc ==
  ASSUME NEW n \in Nat
  PROVE  2^(n + 1) = 2 * 2^n
<1> DEFINE S == 1 .. n
           T == 1 .. n + 1
           A == SUBSET S
           B == {x \cup {n + 1} : x \in A}
           f == [x \in A |-> x \cup {n + 1}]
<1>1. /\ IsFiniteSet(S) /\ Cardinality(S) = n
      /\ IsFiniteSet(T) /\ Cardinality(T) = n + 1
  BY FS_Interval
<1>2. /\ IsFiniteSet(A) /\ Cardinality(A) = 2^n
      /\ IsFiniteSet(SUBSET T) /\ Cardinality(SUBSET T) = 2^(n + 1)
  BY <1>1, FS_SUBSET
<1>3. T = S \cup {n + 1} /\ n + 1 \notin S
  OBVIOUS
<1> HIDE DEF S, T
<1>4. f \in Bijection(A, B)
  <2>1. f \in [A -> B]
    OBVIOUS
  <2>2. \A x, y \in A : f[x] = f[y] => x = y
    BY <1>3
  <2>3. \A y \in B : \E x \in A : f[x] = y
    OBVIOUS
  <2> QED
    BY <2>1, <2>2, <2>3 DEF Bijection, Injection, Surjection, IsInjective
<1>5. IsFiniteSet(B) /\ Cardinality(B) = 2^n
  BY <1>2, <1>4, FS_Bijection DEF ExistsBijection
<1>6. SUBSET T = A \cup B
  <2>1. ASSUME NEW x \in SUBSET T, n + 1 \in x PROVE x \in B
    <3>1. x \ {n + 1} \in A /\ x = (x \ {n + 1}) \cup {n + 1}
      BY <1>3, <2>1
    <3> QED
      BY <3>1
  <2>2. ASSUME NEW x \in SUBSET T, n + 1 \notin x PROVE x \in A
    BY <1>3, <2>2
  <2>3. A \subseteq SUBSET T /\ B \subseteq SUBSET T
    BY <1>3
  <2> QED
    BY <2>1, <2>2, <2>3
<1>7. A \cap B = {}
  BY <1>3
<1> HIDE DEF A, B
<1>8. Cardinality({}) = 0
  BY FS_EmptySet
<1>9. Cardinality(A \cup B) = Cardinality(A) + Cardinality(B) - Cardinality(A \cap B)
  BY <1>2, <1>5, FS_Union, Zenon
<1>10. 2^(n + 1) = 2^n + 2^n - 0
  BY <1>2, <1>5, <1>6, <1>7, <1>8, <1>9, Zenon
<1>11. 2^n \in Nat
  BY PowNat
<1> QED
  BY <1>10, <1>11

\* Induction over the naturals, for a set in place of a predicate.
LEMMA Induct ==
  ASSUME NEW P, 0 \in P, \A n \in Nat : n \in P => n + 1 \in P
  PROVE  \A n \in Nat : n \in P
<1> SUFFICES ASSUME NEW m \in Nat \ P PROVE FALSE
  OBVIOUS
<1>1. PICK k \in Nat \ P : \A j \in Nat \ P : ~(<<j, k>> \in OpToRel(<, Nat))
  BY NatLessThanWellFounded, WFMin
<1>2. k - 1 \in Nat
  OBVIOUS
<1>3. k - 1 \notin P
  BY <1>2
<1>4. <<k - 1, k>> \in {ss \in Nat \X Nat : ss[1] < ss[2]}
  BY <1>2
<1> QED
  BY <1>1, <1>2, <1>3, <1>4 DEF OpToRel

\* Shifting by m + n is shifting twice.
LEMMA PowAdd ==
  ASSUME NEW m \in Nat, NEW n \in Nat
  PROVE  2^(m + n) = 2^m * 2^n
<1> DEFINE P == {k \in Nat : 2^(m + k) = 2^m * 2^k}
<1>1. 0 \in P
  BY PowNat
<1>2. ASSUME NEW k \in Nat, k \in P PROVE k + 1 \in P
  <2>1. 2^(m + k) = 2^m * 2^k
    BY <1>2
  <2>2. m + k \in Nat /\ m + (k + 1) = (m + k) + 1
    OBVIOUS
  <2>3. 2^(m + (k + 1)) = 2 * (2^m * 2^k)
    BY <2>1, <2>2, PowSucc
  <2>4. 2^(k + 1) = 2 * 2^k /\ 2^m \in Nat /\ 2^k \in Nat
    BY PowSucc, PowNat
  <2>5. \A x, y \in Nat : 2 * (x * y) = x * (2 * y)
    OBVIOUS
  <2> QED
    BY <2>3, <2>4, <2>5
<1> HIDE DEF P
<1>3. n \in P
  BY <1>1, <1>2, Induct
<1> QED
  BY <1>3 DEF P

\* No power of two is zero.
LEMMA PowPos ==
  ASSUME NEW n \in Nat
  PROVE  2^n \in Nat /\ 2^n >= 1
<1> DEFINE P == {k \in Nat : 2^k >= 1}
<1>1. 0 \in P
  OBVIOUS
<1>2. ASSUME NEW k \in Nat, k \in P PROVE k + 1 \in P
  BY <1>2, PowSucc, PowNat
<1> HIDE DEF P
<1>3. n \in P
  BY <1>1, <1>2, Induct
<1> QED
  BY <1>3, PowNat DEF P

\* A wider word has the larger range.
LEMMA PowMono ==
  ASSUME NEW m \in Nat, NEW n \in Nat, m <= n
  PROVE  2^m <= 2^n
<1>1. n - m \in Nat /\ m + (n - m) = n
  OBVIOUS
<1>2. 2^n = 2^m * 2^(n - m)
  BY <1>1, PowAdd
<1>3. \A x, y \in Nat : y >= 1 => x <= x * y
  OBVIOUS
<1> QED
  BY <1>1, <1>2, <1>3, PowPos

-----------------------------------------------------------------------------
(* ToWord, the sum over a set of bits *)

\* The sum of 2^i over a set, as a function on the subsets of b.
Pick(s) == CHOOSE x \in s : TRUE
SumStep(g, s) == IF s = {} THEN 0 ELSE 2^Pick(s) + g[s \ {Pick(s)}]
IsSum(g, b) == g = [s \in SUBSET b |-> SumStep(g, s)]

\* ToWord is the value at b of the recursive sum over the subsets of b.
LEMMA Unfold ==
  ASSUME NEW b
  PROVE  ToWord(b) = (CHOOSE g : IsSum(g, b))[b]
  BY DEF ToWord, MapThenSumSet, MapThenFoldSet, IsSum, SumStep, Pick

\* Finite sets of naturals: what is picked, and what is left.
LEMMA PickFacts ==
  ASSUME NEW s, IsFiniteSet(s), s # {}, s \subseteq Nat
  PROVE  /\ Pick(s) \in s /\ 2^Pick(s) \in Nat
         /\ IsFiniteSet(s \ {Pick(s)}) /\ Cardinality(s \ {Pick(s)}) = Cardinality(s) - 1
         /\ Cardinality(s) \in Nat /\ Cardinality(s) >= 1
<1>1. Pick(s) \in s
  BY DEF Pick
<1>2. Cardinality(s) \in Nat /\ Cardinality(s) # 0
  BY FS_CardinalityType, FS_EmptySet
<1>3. 2^Pick(s) \in Nat
  BY <1>1, PowNat
<1>4. IsFiniteSet(s \ {Pick(s)}) /\ Cardinality(s \ {Pick(s)}) = Cardinality(s) - 1
  BY <1>1, FS_RemoveElement
<1> QED
  BY <1>1, <1>2, <1>3, <1>4

\* The recursion has a solution: by induction on the cardinality.
LEMMA SumExists ==
  ASSUME NEW b, IsFiniteSet(b), b \subseteq Nat
  PROVE  \E g : IsSum(g, b)
<1> DEFINE D(n) == {s \in SUBSET b : Cardinality(s) <= n}
           Good(g, n) == g \in [D(n) -> Nat] /\ \A s \in D(n) : g[s] = SumStep(g, s)
           P == {n \in Nat : \E g : Good(g, n)}
<1>1. \A s \in SUBSET b : IsFiniteSet(s) /\ Cardinality(s) \in Nat /\ s \subseteq Nat
  BY FS_Subset, FS_CardinalityType
<1>2. 0 \in P
  <2>1. \A s \in D(0) : s = {}
    BY <1>1, FS_EmptySet
  <2>2. Good([s \in D(0) |-> 0], 0)
    BY <2>1 DEF SumStep
  <2> QED
    BY <2>2
<1>3. ASSUME NEW n \in Nat, n \in P PROVE n + 1 \in P
  <2>1. PICK g : Good(g, n)
    BY <1>3
  <2> DEFINE h == [s \in D(n + 1) |-> SumStep(g, s)]
  <2>2. ASSUME NEW s \in D(n + 1), s # {}
        PROVE  s \ {Pick(s)} \in D(n) /\ 2^Pick(s) \in Nat
    <3>1. s \in SUBSET b /\ Cardinality(s) <= n + 1 /\ IsFiniteSet(s) /\ s \subseteq Nat
      BY <1>1
    <3>2. /\ 2^Pick(s) \in Nat /\ Cardinality(s \ {Pick(s)}) = Cardinality(s) - 1
          /\ Cardinality(s) \in Nat
      BY <2>2, <3>1, PickFacts
    <3>3. Cardinality(s \ {Pick(s)}) <= n
      BY <3>1, <3>2
    <3>4. s \ {Pick(s)} \in SUBSET b
      BY <3>1
    <3> QED
      BY <3>2, <3>3, <3>4
  <2>3. D(n) \subseteq D(n + 1)
    BY <1>1
  <2>4. \A s \in D(n) : h[s] = g[s]
    BY <2>1, <2>3
  <2>5. ASSUME NEW s \in D(n + 1)
        PROVE  h[s] \in Nat /\ h[s] = SumStep(h, s)
    <3>1. CASE s = {}
      BY <3>1 DEF SumStep
    <3>2. CASE s # {}
      <4>1. h[s] = 2^Pick(s) + g[s \ {Pick(s)}]
        BY <3>2 DEF SumStep
      <4>2. g[s \ {Pick(s)}] \in Nat /\ h[s \ {Pick(s)}] = g[s \ {Pick(s)}]
        BY <2>1, <2>2, <2>4, <3>2
      <4>3. SumStep(h, s) = 2^Pick(s) + h[s \ {Pick(s)}]
        BY <3>2 DEF SumStep
      <4>4. 2^Pick(s) \in Nat
        BY <2>2, <3>2
      <4> HIDE DEF h
      <4> QED
        BY <4>1, <4>2, <4>3, <4>4
    <3> QED
      BY <3>1, <3>2
  <2>6. Good(h, n + 1)
    BY <2>5
  <2> HIDE DEF Good, h
  <2> QED
    BY <2>6
<1> HIDE DEF P
<1>4. Cardinality(b) \in P
  BY <1>1, <1>2, <1>3, Induct
<1>5. PICK g : Good(g, Cardinality(b))
  BY <1>4 DEF P
<1>6. D(Cardinality(b)) = SUBSET b
  BY FS_Subset
<1>7. g = [s \in SUBSET b |-> SumStep(g, s)]
  BY <1>5, <1>6
<1> QED
  BY <1>7 DEF IsSum

\* Whichever element is taken first, the sum is the same.
AnyOrder(g, b) == \A s \in SUBSET b : \A y \in s : g[s] = 2^y + g[s \ {y}]

\* A solution is a natural number on every subset, whichever element is
\* taken first.
LEMMA SumFacts ==
  ASSUME NEW b, IsFiniteSet(b), b \subseteq Nat, NEW g, IsSum(g, b)
  PROVE  /\ g[{}] = 0
         /\ \A s \in SUBSET b : g[s] \in Nat
         /\ AnyOrder(g, b)
<1> DEFINE Ok(s) == g[s] \in Nat /\ \A y \in s : g[s] = 2^y + g[s \ {y}]
           P == {n \in Nat : \A s \in SUBSET b : Cardinality(s) <= n => Ok(s)}
<1>1. \A s \in SUBSET b : IsFiniteSet(s) /\ Cardinality(s) \in Nat /\ s \subseteq Nat
  BY FS_Subset, FS_CardinalityType
<1>2. g[{}] = 0 /\ \A s \in SUBSET b : s # {} => g[s] = 2^Pick(s) + g[s \ {Pick(s)}]
  BY DEF IsSum, SumStep
<1>3. 0 \in P
  <2>1. \A s \in SUBSET b : Cardinality(s) <= 0 => s = {}
    BY <1>1, FS_EmptySet
  <2>2. Ok({})
    BY <1>2
  <2> HIDE DEF Ok
  <2> QED
    BY <2>1, <2>2
<1>4. ASSUME NEW n \in Nat, n \in P PROVE n + 1 \in P
  <2>0. SUFFICES ASSUME NEW s \in SUBSET b, Cardinality(s) <= n + 1 PROVE Ok(s)
    <3> HIDE DEF Ok
    <3> QED
      OBVIOUS
  <2>1. CASE s = {}
    BY <1>2, <2>1
  <2>2. CASE s # {}
    <3> DEFINE x == Pick(s)
    <3>0. /\ x \in s /\ 2^x \in Nat /\ Cardinality(s \ {x}) = Cardinality(s) - 1
          /\ Cardinality(s) \in Nat
      BY <1>1, <2>2, PickFacts
    <3>5. g[s] = 2^x + g[s \ {x}]
      BY <1>2, <2>2
    <3> HIDE DEF x
    <3>1. x \in s /\ 2^x \in Nat /\ s \ {x} \in SUBSET b /\ Cardinality(s \ {x}) <= n
      BY <2>0, <3>0
    <3>2. Ok(s \ {x})
      <4> HIDE DEF Ok
      <4> QED
        BY <1>4, <3>1
    <3>3. g[s] = 2^x + g[s \ {x}] /\ g[s] \in Nat
      BY <3>1, <3>2, <3>5
    <3>4. ASSUME NEW y \in s, y # x PROVE g[s] = 2^y + g[s \ {y}]
      <4>1. y \in s \ {x} /\ x \in s \ {y} /\ (s \ {x}) \ {y} = (s \ {y}) \ {x}
        BY <3>1, <3>4
      <4>7. IsFiniteSet(s) /\ Cardinality(s) \in Nat
        BY <1>1
      <4>8. Cardinality(s \ {y}) = Cardinality(s) - 1
        BY <4>7, FS_RemoveElement
      <4>2. s \ {y} \in SUBSET b /\ Cardinality(s \ {y}) <= n
        BY <2>0, <4>7, <4>8
      <4>3. Ok(s \ {y})
        BY <1>4, <4>2
      <4>4. /\ g[s \ {x}] = 2^y + g[(s \ {x}) \ {y}]
            /\ g[s \ {y}] = 2^x + g[(s \ {x}) \ {y}]
        BY <3>2, <4>1, <4>3
      <4>5. (s \ {x}) \ {y} \in SUBSET b /\ Cardinality((s \ {x}) \ {y}) <= n
        <5>1. IsFiniteSet(s \ {x}) /\ Cardinality(s \ {x}) \in Nat
          BY <1>1, <3>1
        <5>2. Cardinality((s \ {x}) \ {y}) = Cardinality(s \ {x}) - 1
          BY <4>1, <5>1, FS_RemoveElement
        <5>3. (s \ {x}) \ {y} \in SUBSET b
          BY <3>1
        <5> QED
          BY <3>1, <5>1, <5>2, <5>3
      <4>6. g[(s \ {x}) \ {y}] \in Nat /\ 2^y \in Nat
        BY <1>1, <1>4, <4>5, PowNat
      <4> DEFINE u == g[(s \ {x}) \ {y}]
      <4> HIDE DEF u
      <4> QED
        BY <3>1, <3>3, <4>4, <4>6 DEF u
    <3> QED
      BY <3>3, <3>4
  <2> QED
    BY <2>1, <2>2
<1>5. \A n \in Nat : n \in P
  <2> HIDE DEF P
  <2> QED
    BY <1>3, <1>4, Induct
<1>6. ASSUME NEW s \in SUBSET b PROVE Ok(s)
  <2> HIDE DEF Ok
  <2>1. Cardinality(s) \in Nat /\ Cardinality(s) <= Cardinality(s)
    BY <1>1
  <2>2. Cardinality(s) \in P
    BY <1>5, <2>1
  <2> QED
    BY <2>1, <2>2
<1> QED
  BY <1>2, <1>6 DEF AnyOrder

\* n bits add up to less than 2^n: by induction on the highest bit.
LEMMA SumBound ==
  ASSUME NEW b, IsFiniteSet(b), b \subseteq Nat, NEW g, IsSum(g, b), NEW n \in Nat,
         b \subseteq 0 .. n - 1
  PROVE  g[b] \in 0 .. 2^n - 1
<1>0. AnyOrder(g, b)
  BY SumFacts
<1> DEFINE P == {k \in Nat : \A s \in SUBSET b : s \subseteq 0 .. k - 1 => g[s] < 2^k}
<1>1. 0 \in P
  <2>1. \A s : s \subseteq 0 .. 0 - 1 => s = {}
    OBVIOUS
  <2>2. g[{}] = 0
    BY SumFacts
  <2>3. 2^0 = 1
    OBVIOUS
  <2>4. g[{}] < 2^0
    BY <2>2, <2>3
  <2> QED
    BY <2>1, <2>4
<1>2. ASSUME NEW k \in Nat, k \in P PROVE k + 1 \in P
  <2> SUFFICES ASSUME NEW s \in SUBSET b, s \subseteq 0 .. (k + 1) - 1 PROVE g[s] < 2^(k + 1)
    OBVIOUS
  <2>1. 2^(k + 1) = 2 * 2^k /\ 2^k \in Nat /\ 2^k >= 1
    BY PowSucc, PowPos
  <2>2. s \ {k} \in SUBSET b /\ s \ {k} \subseteq 0 .. k - 1
    OBVIOUS
  <2>3. g[s \ {k}] < 2^k /\ g[s \ {k}] \in Nat
    BY <1>2, <2>2, SumFacts
  <2> DEFINE p == 2^k
             u == g[s \ {k}]
  <2>4. CASE k \in s
    <3>1. g[s] = p + u
      BY <1>0, <2>4 DEF AnyOrder
    <3> HIDE DEF p, u
    <3>2. u < p /\ u \in Nat /\ p \in Nat /\ 2^(k + 1) = 2 * p
      BY <2>1, <2>3 DEF p, u
    <3> QED
      BY <3>1, <3>2
  <2>5. CASE k \notin s
    <3>1. g[s] = u
      <4>1. s \ {k} = s
        BY <2>5
      <4> QED
        BY <4>1
    <3> HIDE DEF p, u
    <3>2. u < p /\ u \in Nat /\ p \in Nat /\ 2^(k + 1) = 2 * p
      BY <2>1, <2>3 DEF p, u
    <3> QED
      BY <3>1, <3>2
  <2> QED
    BY <2>4, <2>5
<1> HIDE DEF P
<1>3. n \in P
  BY <1>1, <1>2, Induct
<1>4. g[b] < 2^n
  BY <1>3 DEF P
<1>5. g[b] \in Nat /\ 2^n \in Nat
  BY SumFacts, PowNat
<1> QED
  BY <1>4, <1>5

\* A set of bits is a word.
LEMMA ToWordTyped ==
  ASSUME NEW b \in Bits
  PROVE  ToWord(b) \in Word
<1>1. b \subseteq 0 .. XLEN - 1 /\ XLEN \in Nat
  BY XlenAssumption DEF Bits, BitIdx
<1>2. b \subseteq Nat
  BY <1>1
<1>5. IsFiniteSet(0 .. XLEN - 1)
  BY <1>1, FS_Interval
<1>6. IsFiniteSet(b)
  BY <1>1, <1>5, FS_Subset
<1> DEFINE g == CHOOSE h : IsSum(h, b)
<1>3. IsSum(g, b)
  BY <1>2, <1>6, SumExists
<1> HIDE DEF g
<1>4. g[b] \in 0 .. 2^XLEN - 1
  BY <1>1, <1>2, <1>3, <1>6, SumBound
<1> QED
  BY <1>4, Unfold DEF g, Word

-----------------------------------------------------------------------------
(* Words and the ALU *)

\* A word can hold 0, 1 and the encoding of NOP.
LEMMA PowFacts ==
  /\ XLEN \in Nat /\ 2^XLEN \in Nat /\ 2^XLEN >= 32
  /\ 0 \in Word /\ 1 \in Word /\ 19 \in Word
<1>1. XLEN \in Nat /\ 5 <= XLEN
  BY XlenAssumption
<1>2. 2^5 = 32
  <2>1. 2^1 = 2
    BY PowSucc, PowZero
  <2>2. 2^2 = 4
    BY <2>1, PowSucc
  <2>3. 2^3 = 8
    BY <2>2, PowSucc
  <2>4. 2^4 = 16
    BY <2>3, PowSucc
  <2> QED
    BY <2>4, PowSucc
<1>3. 2^5 <= 2^XLEN
  BY <1>1, PowMono
<1>4. 2^XLEN \in Nat
  BY <1>1, PowNat
<1> QED
  BY <1>1, <1>2, <1>3, <1>4 DEF Word

\* Whatever the adders produce, Wrap cuts it to a word.
LEMMA WrapTyped ==
  ASSUME NEW n \in Int
  PROVE  Wrap(n) \in Word
<1> DEFINE p == 2^XLEN
<1>1. p \in Nat /\ p >= 1
  BY PowFacts
<1> HIDE DEF p
<1>2. n % p \in 0 .. p - 1
  BY <1>1
<1> QED
  BY <1>2 DEF Wrap, Word, p

\* The low bits of a word.
LEMMA LowTyped ==
  ASSUME NEW w \in Word, NEW bits \in Nat
  PROVE  /\ Low(w, bits) \in Word
         /\ Low(w, bits) \in 0 .. 2^bits - 1
<1> DEFINE p == 2^bits
<1>1. p \in Nat /\ p >= 1
  BY PowPos
<1>2. w \in Nat /\ w < 2^XLEN /\ 2^XLEN \in Nat
  BY PowFacts DEF Word
<1> HIDE DEF p
<1>3. w % p \in 0 .. p - 1 /\ w % p <= w
  <2>1. w % p \in 0 .. p - 1
    BY <1>1, <1>2
  <2>2. w = p * (w \div p) + (w % p) /\ w \div p \in Nat
    BY <1>1, <1>2
  <2>3. \A x, y \in Nat : x * y \in Nat
    OBVIOUS
  <2>4. p * (w \div p) \in Nat
    BY <1>1, <2>2, <2>3
  <2> QED
    BY <1>2, <2>1, <2>2, <2>4
<1> QED
  BY <1>2, <1>3 DEF Low, Word, p

\* Sign extension stays within the word.
LEMMA SignExtTyped ==
  ASSUME NEW w \in Word, NEW bits \in 1 .. XLEN
  PROVE  SignExt(w, bits) \in Word
<1>1. bits \in Nat /\ XLEN \in Nat /\ bits <= XLEN
  BY PowFacts
<1>2. Low(w, bits) \in 0 .. 2^bits - 1 /\ Low(w, bits) \in Word
  BY <1>1, LowTyped
<1>3. 2^bits \in Nat /\ 2^XLEN \in Nat /\ 2^bits <= 2^XLEN
  BY <1>1, PowNat, PowMono
<1> DEFINE l == Low(w, bits)
           b == 2^bits
           p == 2^XLEN
<1> HIDE DEF l, b, p
<1>4. l \in 0 .. b - 1 /\ b \in Nat /\ p \in Nat /\ b <= p
  BY <1>2, <1>3 DEF l, b, p
<1>5. l + (p - b) \in 0 .. p - 1
  BY <1>4
<1>6. l + (p - b) \in Word /\ l \in Word
  BY <1>2, <1>5 DEF Word, p, l
<1> QED
  BY <1>6 DEF SignExt, l, b, p

\* A right shift makes a word no larger.
LEMMA ShiftDown ==
  ASSUME NEW w \in Word, NEW n \in Nat
  PROVE  w \div 2^n \in Word
<1> DEFINE p == 2^n
<1>1. p \in Nat /\ p >= 1 /\ w \in Nat
  BY PowPos DEF Word
<1> HIDE DEF p
<1>2. \A x, y \in Nat : y >= 1 => x \div y \in Nat /\ x \div y <= x
  <2> SUFFICES ASSUME NEW x \in Nat, NEW y \in Nat, y >= 1
               PROVE  x \div y \in Nat /\ x \div y <= x
    OBVIOUS
  <2>1. x \div y \in Nat /\ x = y * (x \div y) + (x % y) /\ x % y \in Nat
    OBVIOUS
  <2>2. \A u, v \in Nat : u >= 1 => v <= u * v /\ u * v \in Nat
    OBVIOUS
  <2>3. x \div y <= y * (x \div y) /\ y * (x \div y) \in Nat
    BY <2>1, <2>2
  <2> QED
    BY <2>1, <2>3
<1>3. w \div p \in Nat /\ w \div p <= w
  BY <1>1, <1>2
<1> QED
  BY <1>3, PowFacts DEF Word, p

\* The signed reading of a word is an integer.
LEMMA SignedInt ==
  ASSUME NEW w \in Word
  PROVE  Signed(w) \in Int
BY PowFacts DEF Signed, Word

\* A left shift of what is left of the word by n bits.
LEMMA ShiftUp ==
  ASSUME NEW w \in Word, NEW n \in 0 .. XLEN - 1
  PROVE  Low(w, XLEN - n) * 2^n \in Word
<1>1. n \in Nat /\ XLEN - n \in Nat /\ (XLEN - n) + n = XLEN
  BY PowFacts
<1> DEFINE l == Low(w, XLEN - n)
           q == 2^(XLEN - n)
           p == 2^n
<1>2. l \in 0 .. q - 1
  BY <1>1, LowTyped
<1>3. p \in Nat /\ p >= 1 /\ q \in Nat
  BY <1>1, PowPos
<1>4. 2^XLEN = q * p
  BY <1>1, PowAdd
<1> HIDE DEF l, p, q
<1>5. l * p \in 0 .. q * p - 1
  <2>1. \A x, y, z \in Nat : z >= 1 /\ x + 1 <= y => x * z \in Nat /\ x * z + z <= y * z
    <3>1. \A x, y, z \in Nat : x <= y => x * z <= y * z /\ x * z \in Nat /\ y * z \in Nat
      OBVIOUS
    <3>2. \A x, z \in Nat : (x + 1) * z = x * z + z
      OBVIOUS
    <3> QED
      BY <3>1, <3>2
  <2>2. l \in Nat /\ l + 1 <= q
    BY <1>2, <1>3
  <2>3. l * p \in Nat /\ l * p + p <= q * p /\ q * p \in Nat
    BY <1>3, <2>1, <2>2
  <2> QED
    BY <1>3, <2>3
<1> QED
  BY <1>4, <1>5 DEF Word, l, p

\* The bitwise operations give sets of bits.
LEMMA BitsTyped ==
  ASSUME NEW a, NEW b
  PROVE  /\ (ToBits(a) \ ToBits(b)) \cup (ToBits(b) \ ToBits(a)) \in Bits
         /\ ToBits(a) \cup ToBits(b) \in Bits
         /\ ToBits(a) \cap ToBits(b) \in Bits
<1>1. ToBits(a) \in Bits /\ ToBits(b) \in Bits
  BY DEF ToBits, Bits
<1> QED
  BY <1>1 DEF Bits

\* Every operation of alu.sv has a word as its result.
LEMMA AluTyped ==
  ASSUME NEW op \in AluOp, NEW a \in Word, NEW b \in Word
  PROVE  Alu(op, a, b) \in Word
<1> DEFINE sh == b % XLEN
<1>1. a \in Int /\ b \in Int /\ a + b \in Int /\ a - b \in Int
  BY DEF Word
<1>2. sh \in 0 .. XLEN - 1 /\ sh \in Nat
  <2>1. XLEN \in Nat /\ XLEN >= 1
    BY XlenAssumption
  <2> QED
    BY <1>1, <2>1
<1> HIDE DEF sh
<1>3. Wrap(a + b) \in Word /\ Wrap(a - b) \in Word
  BY <1>1, WrapTyped
<1>4. Low(a, XLEN - sh) * 2^sh \in Word
  BY <1>2, ShiftUp
<1>5. \A x : BoolWord(x) \in Word
  BY PowFacts DEF BoolWord
<1>6. a \div 2^sh \in Word
  BY <1>2, ShiftDown
<1>7. Wrap(Signed(a) \div 2^sh) \in Word
  <2>1. Signed(a) \in Int
    BY SignedInt
  <2>2. 2^sh \in Nat /\ 2^sh >= 1
    BY <1>2, PowPos
  <2>3. \A x \in Int, y \in Nat : y >= 1 => x \div y \in Int
    OBVIOUS
  <2>4. Signed(a) \div 2^sh \in Int
    BY <2>1, <2>2, <2>3
  <2> QED
    BY <2>4, WrapTyped
<1>8. /\ ToWord((ToBits(a) \ ToBits(b)) \cup (ToBits(b) \ ToBits(a))) \in Word
      /\ ToWord(ToBits(a) \cup ToBits(b)) \in Word
      /\ ToWord(ToBits(a) \cap ToBits(b)) \in Word
  BY BitsTyped, ToWordTyped
<1>9. op = "ADD" \/ op = "SUB" \/ op = "SLL" \/ op = "SLT" \/ op = "SLTU" \/ op = "XOR"
        \/ op = "SRL" \/ op = "SRA" \/ op = "OR" \/ op = "AND"
  BY DEF AluOp
<1>10. CASE op = "ADD"
  BY <1>3, <1>10 DEF Alu
<1>11. CASE op = "SUB"
  BY <1>3, <1>11 DEF Alu
<1>12. CASE op = "SLL"
  BY <1>4, <1>12 DEF Alu, sh
<1>13. CASE op = "SLT" \/ op = "SLTU"
  BY <1>5, <1>13 DEF Alu
<1>14. CASE op = "XOR"
  BY <1>8, <1>14 DEF Alu
<1>15. CASE op = "SRL"
  BY <1>6, <1>15 DEF Alu, sh
<1>16. CASE op = "SRA"
  BY <1>7, <1>16 DEF Alu, sh
<1>17. CASE op = "OR"
  BY <1>8, <1>17 DEF Alu
<1>18. CASE op = "AND"
  BY <1>8, <1>18 DEF Alu
<1> QED
  BY <1>9, <1>10, <1>11, <1>12, <1>13, <1>14, <1>15, <1>16, <1>17, <1>18

\* So have the EX stage and its branch target, in the word forms too.
LEMMA ResultTyped ==
  ASSUME NEW ctl, ctl.alu_op \in AluOp, NEW at \in Word, NEW rs1 \in Word, NEW rs2 \in Word,
         NEW imm \in Word
  PROVE  /\ AluResult(ctl, at, rs1, rs2, imm) \in Word
         /\ BranchTarget(ctl, at, rs1, rs2, imm) \in Word
<1> DEFINE a == IF ctl.src1_pc THEN at ELSE rs1
           b == IF ctl.src2_imm THEN imm ELSE rs2
           raw == RawResult(ctl, at, rs1, rs2, imm)
<1>1. HALF \in Nat /\ HALF \in 1 .. XLEN
  BY XlenAssumption DEF HALF
<1>2. a \in Word /\ b \in Word
  OBVIOUS
<1> HIDE DEF a, b
<1>3. OperandA(ctl, a) \in Word
  <2>1. SignExt(a, HALF) \in Word /\ Low(a, HALF) \in Word
    BY <1>1, <1>2, SignExtTyped, LowTyped
  <2> QED
    BY <1>2, <2>1 DEF OperandA
<1>4. OperandB(ctl, b) \in Word
  <2>1. \A x \in Nat, y \in Nat : y >= 1 => x % y \in 0 .. y - 1
    OBVIOUS
  <2>2. b % HALF \in 0 .. HALF - 1
    BY <1>1, <1>2, <2>1 DEF Word
  <2>3. HALF <= 2^XLEN
    <3>1. \A n \in Nat : n <= 2^n
      <4> DEFINE P == {n \in Nat : n <= 2^n}
      <4>1. 0 \in P
        BY PowNat
      <4>2. ASSUME NEW n \in Nat, n \in P PROVE n + 1 \in P
        BY <4>2, PowSucc, PowPos
      <4> HIDE DEF P
      <4>3. \A n \in Nat : n \in P
        BY <4>1, <4>2, Induct
      <4> QED
        BY <4>3 DEF P
    <3> QED
      BY <1>1, <3>1, PowFacts
  <2>4. b % HALF \in Word
    BY <1>1, <2>2, <2>3, PowFacts DEF Word
  <2> QED
    BY <1>2, <2>4 DEF OperandB
<1>5. raw \in Word
  BY <1>3, <1>4, AluTyped DEF RawResult, a, b
<1> HIDE DEF raw
<1>6. SignExt(raw, HALF) \in Word
  BY <1>1, <1>5, SignExtTyped
<1>7. 2 * (raw \div 2) \in Word
  BY <1>5, PowFacts DEF Word
<1> QED
  BY <1>5, <1>6, <1>7 DEF AluResult, BranchTarget, raw

-----------------------------------------------------------------------------
(* Loads and stores *)

\* Bytes of an access, by funct3.
LEMMA SizeBytes ==
  ASSUME NEW size \in 0 .. 7
  PROVE  /\ size \in {0, 4} => 2^(size % 4) = 1
         /\ size \in {1, 5} => 2^(size % 4) = 2
         /\ size \in {2, 6} => 2^(size % 4) = 4
         /\ size \in {3, 7} => 2^(size % 4) = 8
<1>1. 2^1 = 2
  BY PowSucc, PowZero
<1>2. 2^2 = 4
  BY <1>1, PowSucc
<1>3. 2^3 = 8
  BY <1>2, PowSucc
<1>4. /\ size \in {0, 4} => size % 4 = 0
      /\ size \in {1, 5} => size % 4 = 1
      /\ size \in {2, 6} => size % 4 = 2
      /\ size \in {3, 7} => size % 4 = 3
  OBVIOUS
<1> QED
  BY <1>1, <1>2, <1>3, <1>4, PowZero

\* An access moves at least one bit and at most a register.
LEMMA AccessTyped ==
  ASSUME NEW size \in 0 .. 7
  PROVE  AccessBits(size) \in 1 .. XLEN
<1>0. size \in {0, 4} \/ size \in {1, 5} \/ size \in {2, 6} \/ size \in {3, 7}
  OBVIOUS
<1>1. 2^(size % 4) \in {1, 2, 4, 8}
  BY <1>0, SizeBytes, Zenon
<1> QED
  BY <1>1, XlenAssumption DEF AccessBits

\* load_data_aligned extends to a word.
LEMMA LoadTyped ==
  ASSUME NEW size \in 0 .. 7, NEW addr \in Word, NEW cell \in Word
  PROVE  LoadData(size, addr, cell) \in Word
<1> DEFINE off == AlignOffset(addr)
           shifted == IF off < XLEN THEN cell \div 2^off ELSE 0
<1>1. off \in Nat
  BY DEF AlignOffset, Word
<1> HIDE DEF off
<1>2. shifted \in Word
  BY <1>1, ShiftDown, PowFacts
<1> HIDE DEF shifted
<1>3. AccessBits(size) \in 1 .. XLEN /\ AccessBits(size) \in Nat
  BY AccessTyped
<1>4. Low(shifted, AccessBits(size)) \in Word /\ SignExt(shifted, AccessBits(size)) \in Word
  BY <1>2, <1>3, LowTyped, SignExtTyped
<1> QED
  BY <1>4, PowFacts DEF LoadData, shifted, off

\* The alignment check keeps every store within its cell. It needs a width
\* of 16, 32 or 64: with 24 bits, an aligned halfword could straddle the end.
LEMMA AlignedLaneFits ==
  ASSUME XLEN \in {16, 32, 64}, NEW size \in 0 .. 6, NEW addr \in Word,
         ~addr_misaligned(size, addr), AlignOffset(addr) < XLEN
  PROVE  AlignOffset(addr) \in Nat /\ AlignOffset(addr) + AccessBits(size) <= XLEN
<1>1. addr \in Nat /\ AlignOffset(addr) = 8 * (addr % 8)
  BY DEF Word, AlignOffset
<1>2. addr % 2^(size % 4) = 0 /\ size \in 0 .. 7
  BY DEF addr_misaligned
<1>3. CASE size \in {0, 4}
  <2>1. 2^(size % 4) = 1
    BY <1>2, <1>3, SizeBytes
  <2>2. AccessBits(size) = 8
    BY <2>1 DEF AccessBits
  <2> QED
    BY <1>1, <2>2
<1>4. CASE size \in {1, 5}
  <2>1. 2^(size % 4) = 2
    BY <1>2, <1>4, SizeBytes
  <2>2. AccessBits(size) = 16 /\ addr % 2 = 0
    BY <1>2, <2>1 DEF AccessBits
  <2> QED
    BY <1>1, <2>2
<1>5. CASE size \in {2, 6}
  <2>1. 2^(size % 4) = 4
    BY <1>2, <1>5, SizeBytes
  <2>2. addr % 4 = 0
    BY <1>2, <2>1
  <2>3. AccessBits(size) = IF XLEN = 16 THEN 16 ELSE 32
    BY <2>1 DEF AccessBits
  <2> QED
    BY <1>1, <2>2, <2>3
<1>6. CASE size = 3
  <2>1. 2^(size % 4) = 8
    BY <1>2, <1>6, SizeBytes
  <2>2. AccessBits(size) = XLEN /\ addr % 8 = 0
    BY <1>2, <2>1 DEF AccessBits
  <2> QED
    BY <1>1, <2>2
<1> QED
  BY <1>3, <1>4, <1>5, <1>6

\* Replacing w consecutive bits at position p leaves the bits on either side,
\* and with them the bound, alone.
LEMMA LaneReplaced ==
  ASSUME NEW p \in Nat, p >= 1, NEW w \in Nat, w >= 1, NEW q \in Nat,
         NEW c \in Nat, c < (p * w) * q, NEW d \in 0 .. w - 1
  PROVE  c + (d - ((c \div p) % w)) * p \in 0 .. ((p * w) * q) - 1
<1> DEFINE k == c \div p
           r == c % p
           lane == k % w
           j == k \div w
<1>1. k \in Nat /\ r \in 0 .. p - 1 /\ c = p * k + r
  OBVIOUS
<1> HIDE DEF k, r
<1>2. j \in Nat /\ lane \in 0 .. w - 1 /\ k = w * j + lane
  BY <1>1
<1> HIDE DEF j, lane
<1>3. c + (d - lane) * p = p * (w * j + d) + r
  <2>1. \A x, y, z \in Int : p * x + y + (d - z) * p = p * (x - z + d) + y
    OBVIOUS
  <2>2. w * j \in Int /\ k \in Int /\ lane \in Int /\ r \in Int
    BY <1>1, <1>2
  <2>3. p * k + r + (d - lane) * p = p * (k - lane + d) + r
    BY <2>1, <2>2
  <2>4. k - lane + d = w * j + d
    BY <1>2, <2>2
  <2> QED
    BY <1>1, <2>3, <2>4
<1>4. j < q
  <2>1. SUFFICES ASSUME j >= q PROVE FALSE
    BY <1>2
  <2>2. \A x, y, z \in Nat : y <= z => x * y <= x * z /\ x * y \in Nat /\ x * z \in Nat
    OBVIOUS
  <2>3. w * q <= w * j /\ w * j \in Nat /\ w * q \in Nat
    BY <1>2, <2>1, <2>2
  <2>4. w * q <= k
    BY <1>1, <1>2, <2>3
  <2>5. p * (w * q) <= p * k /\ p * k \in Nat
    BY <1>1, <2>2, <2>3, <2>4
  <2>6. p * (w * q) = (p * w) * q /\ (p * w) * q \in Nat
    OBVIOUS
  <2> QED
    BY <1>1, <2>5, <2>6
<1>5. w * j + d \in Nat /\ w * j + d + 1 <= w * q
  <2>1. \A x, y \in Nat : x + 1 <= y => w * x + w <= w * y /\ w * x \in Nat /\ w * y \in Nat
    <3>1. \A x, y \in Nat : x <= y => w * x <= w * y /\ w * x \in Nat /\ w * y \in Nat
      OBVIOUS
    <3>2. \A x \in Nat : w * (x + 1) = w * x + w
      OBVIOUS
    <3> QED
      BY <3>1, <3>2
  <2> QED
    BY <1>2, <1>4, <2>1
<1> DEFINE m == w * j + d
           n == w * q
<1>6. m \in Nat /\ n \in Nat /\ m + 1 <= n
  BY <1>5
<1> HIDE DEF m, n
<1>7. p * m \in Nat /\ p * m + p <= p * n /\ p * n \in Nat
  <2>1. \A x, y \in Nat : x <= y => p * x <= p * y /\ p * x \in Nat /\ p * y \in Nat
    OBVIOUS
  <2>2. \A x \in Nat : p * (x + 1) = p * x + p
    OBVIOUS
  <2> QED
    BY <1>6, <2>1, <2>2
<1>8. p * n = (p * w) * q
  BY DEF n
<1>9. p * m + r \in 0 .. p * n - 1
  BY <1>1, <1>7
<1> QED
  BY <1>3, <1>8, <1>9 DEF m, lane, k

\* A cell holds a word after a store.
LEMMA StoreTyped ==
  ASSUME XLEN \in {16, 32, 64}, NEW size \in 0 .. 7, NEW addr \in Word,
         ~addr_misaligned(size, addr), NEW cell \in Word, NEW data \in Word
  PROVE  StoreData(size, addr, cell, data) \in Word
<1> DEFINE off == AlignOffset(addr)
           bits == AccessBits(size)
<1>0. off \in Nat /\ XLEN \in Nat
  BY PowFacts DEF AlignOffset, Word
<1>1. CASE off >= XLEN
  BY <1>0, <1>1 DEF StoreData
<1>3. CASE off < XLEN /\ size = 7
  <2>1. cell % 2^off \in Word
    <3> HIDE DEF off
    <3>1. 2^off \in Nat /\ 2^off >= 1
      BY <1>0, PowPos
    <3>2. cell \in Nat /\ cell < 2^XLEN /\ 2^XLEN \in Nat
      BY PowFacts DEF Word
    <3>3. cell % 2^off \in Nat /\ cell % 2^off <= cell
      BY <3>1, <3>2
    <3> QED
      BY <3>2, <3>3 DEF Word
  <2> QED
    BY <1>0, <1>3, <2>1 DEF StoreData
<1>2. CASE off < XLEN /\ size # 7
  <2>1. bits \in Nat
    BY AccessTyped
  <2>2. off \in Nat /\ off + bits <= XLEN
    <3>1. off \in Nat
      BY DEF AlignOffset, Word
    <3>2. size \in 0 .. 6 /\ off < XLEN
      BY <1>2, <3>1
    <3> QED
      BY <3>2, AlignedLaneFits
  <2> HIDE DEF off, bits
  <2> DEFINE p == 2^off
             w == 2^bits
             q == 2^(XLEN - (off + bits))
  <2>3. p \in Nat /\ p >= 1 /\ w \in Nat /\ w >= 1 /\ q \in Nat
    <3>1. XLEN - (off + bits) \in Nat
      BY <2>1, <2>2
    <3> QED
      BY <2>1, <2>2, <3>1, PowPos
  <2>4. 2^XLEN = (p * w) * q
    <3>1. XLEN - (off + bits) \in Nat /\ off + bits \in Nat
            /\ (off + bits) + (XLEN - (off + bits)) = XLEN
      BY <2>1, <2>2
    <3>2. 2^(off + bits) = p * w
      BY <2>1, <2>2, PowAdd
    <3>3. 2^XLEN = 2^(off + bits) * q
      BY <3>1, PowAdd
    <3> QED
      BY <3>2, <3>3
  <2> HIDE DEF p, w, q
  <2>5. cell \in Nat /\ cell < (p * w) * q /\ data \in Nat
    BY <2>4, PowFacts DEF Word
  <2> DEFINE d == IF size > 3 THEN 0 ELSE data % w
  <2>6. d \in 0 .. w - 1
    BY <2>3, <2>5
  <2> HIDE DEF d
  <2>7. cell + (d - ((cell \div p) % w)) * p \in 0 .. ((p * w) * q) - 1
    BY <2>3, <2>5, <2>6, LaneReplaced
  <2>8. cell + (d - ((cell \div p) % w)) * p \in Word
    BY <2>4, <2>7 DEF Word
  <2>9. StoreData(size, addr, cell, data) = cell + (d - ((cell \div p) % w)) * p
    BY <1>0, <1>2 DEF StoreData, off, bits, p, w, d
  <2> QED
    BY <2>8, <2>9
<1> QED
  BY <1>0, <1>1, <1>2, <1>3

\* So does the cell after it, where an unaligned store of size code 7 ends.
LEMMA SpillTyped ==
  ASSUME NEW addr \in Word, NEW cell \in Word
  PROVE  SpillData(addr, cell) \in Word
<1> DEFINE p == 2^AlignOffset(addr)
<1>1. AlignOffset(addr) \in Nat
  BY DEF AlignOffset, Word
<1>2. p \in Nat /\ p >= 1
  BY <1>1, PowPos
<1>3. cell \in Nat /\ cell < 2^XLEN /\ 2^XLEN \in Nat /\ 0 \in Word
  BY PowFacts DEF Word
<1> HIDE DEF p
<1>4. cell - (cell % p) \in Nat /\ cell - (cell % p) <= cell
  BY <1>2, <1>3
<1>5. cell - (cell % p) \in Word
  BY <1>3, <1>4 DEF Word
<1> QED
  BY <1>3, <1>5 DEF SpillData, p

-----------------------------------------------------------------------------
(* Decoder, CSR reads and data memory *)

\* The control word of a bubble.
LEMMA IdleTyped == IdleCtl \in CtlType
  BY RegAssumption DEF IdleCtl, CtlType, AluOp, CsrOp

\* Control words of the register and immediate forms, illegal ones included.
LEMMA AluCtlTyped ==
  ASSUME NEW i \in Instruction, NEW register \in BOOLEAN, NEW word_op \in BOOLEAN
  PROVE  AluCtl(i, register, word_op) \in CtlType
<1> DEFINE mext   == register /\ i.fn = "mext"
           noWord == word_op /\ i.f3 \notin {0, 1, 5}
           op == IF mext \/ noWord THEN "ADD" ELSE AluOpOf(i.f3, i.fn = "alt", register)
           nr  == ~register
           bad == mext \/ noWord
<1>1. op \in AluOp /\ nr \in BOOLEAN /\ bad \in BOOLEAN
  BY DEF AluOp, AluOpOf
<1>2. AluCtl(i, register, word_op) =
        [IdleCtl EXCEPT !.reg_write_en = TRUE, !.src2_imm = nr, !.word_op = word_op,
                        !.illegal = bad, !.alu_op = op]
  BY DEF AluCtl
<1> HIDE DEF op, nr, bad
<1>3. [IdleCtl EXCEPT !.reg_write_en = TRUE, !.src2_imm = nr, !.word_op = word_op,
                      !.illegal = bad, !.alu_op = op] \in CtlType
  BY <1>1, IdleTyped DEF CtlType
<1> QED
  BY <1>2, <1>3, Zenon

\* Control words of the privileged instructions, in every mode.
LEMMA SystemCtlTyped ==
  ASSUME NEW i \in Instruction, NEW priv
  PROVE  SystemCtl(i, priv) \in CtlType
<1>1. \A x, y \in BOOLEAN : [IdleCtl EXCEPT !.mret = x, !.illegal = y] \in CtlType
  BY IdleTyped DEF CtlType
<1>4. \A x, y \in BOOLEAN : [IdleCtl EXCEPT !.sret = x, !.illegal = y] \in CtlType
  BY IdleTyped DEF CtlType
<1>5. \A y \in BOOLEAN : [IdleCtl EXCEPT !.illegal = y] \in CtlType
  BY IdleTyped DEF CtlType
<1>2. [IdleCtl EXCEPT !.ecall = TRUE] \in CtlType /\ [IdleCtl EXCEPT !.ebreak = TRUE] \in CtlType
  BY IdleTyped DEF CtlType
<1>3. (priv = PRIV_M) \in BOOLEAN /\ (priv # PRIV_M) \in BOOLEAN
        /\ priv_ge(priv, PRIV_S) \in BOOLEAN /\ (~priv_ge(priv, PRIV_S)) \in BOOLEAN
  BY DEF priv_ge
<1> QED
  BY <1>1, <1>2, <1>3, <1>4, <1>5, IdleTyped DEF SystemCtl

\* Control words of the CSR instructions, allowed or not.
LEMMA CsrCtlTyped ==
  ASSUME NEW i \in Instruction, NEW priv
  PROVE  CsrCtl(i, priv) \in CtlType
<1> DEFINE allowed == csr_access_allowed(priv, CsrAddrField(i))
           denied  == ~allowed
<1>1. allowed \in BOOLEAN /\ denied \in BOOLEAN
  BY DEF csr_access_allowed, priv_ge
<1>2. i.f3 \in CsrOp
  BY DEF Instruction, CsrOp
<1>3. CsrCtl(i, priv) = [IdleCtl EXCEPT !.reg_write_en = allowed, !.is_csr = allowed,
                                        !.illegal = denied, !.csr_op = i.f3]
  BY DEF CsrCtl
<1> HIDE DEF allowed, denied
<1>4. [IdleCtl EXCEPT !.reg_write_en = allowed, !.is_csr = allowed] \in CtlType
  BY <1>1, IdleTyped DEF CtlType
<1> DEFINE c == [IdleCtl EXCEPT !.reg_write_en = allowed, !.is_csr = allowed]
<1> HIDE DEF c
<1>5. [c EXCEPT !.illegal = denied, !.csr_op = i.f3] \in CtlType
  BY <1>1, <1>2, <1>4 DEF CtlType, c
<1> QED
  BY <1>3, <1>5, Zenon DEF c

\* The decoder produces control words, register numbers and immediates.
LEMMA DecodeTyped ==
  ASSUME NEW i \in Instruction, NEW priv
  PROVE  /\ Decode(i, priv) \in CtlType
         /\ Rs1Addr(i) \in Reg /\ DecodeImm(i) \in Word
<1>1. i.f3 \in 0 .. 7 /\ i.rd \in Reg /\ i.rs1 \in Reg /\ i.imm \in Word
  BY DEF Instruction
<1>2. DecodeOp(i, priv) \in CtlType
  <2>1. CASE i.op \in {"OP_IMM", "OP_IMM_32", "OP", "OP_32"}
    BY <2>1, AluCtlTyped DEF DecodeOp
  <2>2. CASE i.op = "SYSTEM"
    BY <2>2, SystemCtlTyped, CsrCtlTyped DEF DecodeOp
  <2>3. CASE i.op = "LUI"
    <3>1. [IdleCtl EXCEPT !.reg_write_en = TRUE, !.src2_imm = TRUE] \in CtlType
      BY <1>1, IdleTyped DEF CtlType
    <3> QED
      BY <2>3, <3>1 DEF DecodeOp
  <2>4. CASE i.op = "AUIPC"
    <3>1. [IdleCtl EXCEPT !.reg_write_en = TRUE, !.src1_pc = TRUE, !.src2_imm = TRUE] \in CtlType
      BY <1>1, IdleTyped DEF CtlType
    <3> QED
      BY <2>4, <3>1 DEF DecodeOp
  <2>5. CASE i.op = "JAL"
    <3>1. [IdleCtl EXCEPT !.reg_write_en = TRUE, !.is_jump = TRUE, !.src1_pc = TRUE,
                           !.src2_imm = TRUE, !.wb_sel = "pc4"] \in CtlType
      BY <1>1, IdleTyped DEF CtlType
    <3> QED
      BY <2>5, <3>1 DEF DecodeOp
  <2>6. CASE i.op = "JALR"
    <3>1. [IdleCtl EXCEPT !.reg_write_en = TRUE, !.is_jump = TRUE, !.src2_imm = TRUE,
                           !.wb_sel = "pc4"] \in CtlType
      BY <1>1, IdleTyped DEF CtlType
    <3> QED
      BY <2>6, <3>1 DEF DecodeOp
  <2>7. CASE i.op = "BRANCH"
    <3>1. [IdleCtl EXCEPT !.is_branch = TRUE, !.branch_op = i.f3, !.src1_pc = TRUE,
                           !.src2_imm = TRUE] \in CtlType
      BY <1>1, IdleTyped DEF CtlType
    <3> QED
      BY <2>7, <3>1 DEF DecodeOp
  <2>8. CASE i.op = "LOAD"
    <3>1. [IdleCtl EXCEPT !.reg_write_en = TRUE, !.is_load = TRUE, !.mem_size = i.f3,
                           !.src2_imm = TRUE, !.wb_sel = "mem"] \in CtlType
      BY <1>1, IdleTyped DEF CtlType
    <3> QED
      BY <2>8, <3>1 DEF DecodeOp
  <2>9. CASE i.op = "STORE"
    <3>1. [IdleCtl EXCEPT !.is_store = TRUE, !.mem_size = i.f3, !.src2_imm = TRUE] \in CtlType
      BY <1>1, IdleTyped DEF CtlType
    <3> QED
      BY <2>9, <3>1 DEF DecodeOp
  <2>10. CASE i.op \in {"MISC_MEM", "UNSUPPORTED"}
    <3>1. \A x \in BOOLEAN : [IdleCtl EXCEPT !.illegal = x] \in CtlType
      BY IdleTyped DEF CtlType
    <3> QED
      BY <2>10, <3>1 DEF DecodeOp
  <2> QED
    BY <2>1, <2>2, <2>3, <2>4, <2>5, <2>6, <2>7, <2>8, <2>9, <2>10
       DEF Instruction, Opcode
<1>3. Decode(i, priv) \in CtlType
  BY <1>1, <1>2 DEF Decode, CtlType
<1> QED
  BY <1>1, <1>3, RegAssumption, PowFacts DEF Rs1Addr, DecodeImm

\* The instruction memory delivers instructions; NOP where nothing is mapped.
LEMMA FetchTyped ==
  ASSUME NEW mem, \A a \in DOMAIN mem : mem[a] \in Instruction, NEW addr
  PROVE  Fetch(mem, addr) \in Instruction
<1>1. NOP \in Instruction
  BY RegAssumption, PowFacts DEF NOP, Instruction, Opcode, Function
<1> QED
  BY <1>1 DEF Fetch

\* Every address reads as a word. fcsr is fflags beside frm, and fits because
\* both are short.
LEMMA ReadCsrTyped ==
  ASSUME NEW r \in RegFile, Short(r), NEW addr
  PROVE  read_csr(r, addr) \in Bits
<1>1. r[CSR_FFLAGS] \in Bits /\ r[CSR_FRM] \subseteq 0 .. 2
  BY ShortWidths, ShortAddresses DEF RegFile, Short, ShortOnes
<1>2. compose_fcsr(r) \in Bits
  BY <1>1, XlenAssumption DEF compose_fcsr, Bits, BitIdx
<1>3. {} \in Bits
  BY DEF Bits
<1>4. \A a \in StoredCsr : r[a] \in Bits
  BY DEF RegFile
<1> QED
  BY <1>2, <1>3, <1>4, CsrFileAssumption DEF read_csr

\* MEM hands a word to WB.
LEMMA MemReadTyped ==
  ASSUME NEW mem \in [DCells -> Word], NEW ctl \in CtlType, NEW addr \in Word
  PROVE  MemRead(mem, ctl, addr) \in Word
<1>1. ctl.mem_size \in 0 .. 7
  BY DEF CtlType
<1> QED
  BY <1>1, LoadTyped, PowFacts DEF MemRead

\* The data memory holds words after the edge.
LEMMA MemWrittenTyped ==
  ASSUME XLEN \in {16, 32, 64},
         NEW mem \in [DCells -> Word], NEW ctl \in CtlType, NEW addr \in Word, NEW data \in Word
  PROVE  MemWritten(mem, ctl, addr, data) \in [DCells -> Word]
<1>1. ctl.mem_size \in 0 .. 7
  BY DEF CtlType
<1>2. CASE dmem_write_req(ctl, addr)
  <2>1. ~addr_misaligned(ctl.mem_size, addr)
    BY <1>2 DEF dmem_write_req, StoreMisaligned
  <2>2. ASSUME NEW c \in DCells
        PROVE  /\ StoreData(ctl.mem_size, addr, mem[c], data) \in Word
               /\ SpillData(addr, mem[c]) \in Word
               /\ mem[c] \in Word
    <3>1. mem[c] \in Word
      OBVIOUS
    <3> QED
      BY <1>1, <2>1, <3>1, StoreTyped, SpillTyped
  <2> QED
    BY <1>2, <2>2 DEF MemWritten
<1>3. CASE ~dmem_write_req(ctl, addr)
  BY <1>3 DEF MemWritten
<1> QED
  BY <1>2, <1>3

-----------------------------------------------------------------------------
(* WB *)

\* wb_rd_wdata: CSR value, ALU result, load data or link.
LEMMA WbDataTyped ==
  ASSUME NEW m, m.ctl \in CtlType, m.alu \in Word, m.mdata \in Word, m.pc \in Word,
         NEW c \in CsrFileType, Short(c.reg)
  PROVE  WriteBackData(m, c) \in Word
<1>1. c.reg \in RegFile
  BY DEF CsrFileType, RegFile
<1>2. ToWord(read_csr(c.reg, m.imm % 4096)) \in Word
  BY <1>1, ReadCsrTyped, ToWordTyped
<1>3. Wrap(m.pc + 4) \in Word
  <2>1. \A n \in Word : n + 4 \in Int
    BY DEF Word
  <2> QED
    BY <2>1, WrapTyped
<1>4. m.ctl.wb_sel = "alu" \/ m.ctl.wb_sel = "mem" \/ m.ctl.wb_sel = "pc4"
  BY DEF CtlType
<1> QED
  BY <1>2, <1>3, <1>4 DEF WriteBackData

\* Cause numbers are naturals.
LEMMA CauseTyped ==
  ASSUME NEW w, NEW c, NEW irq
  PROVE  CauseIndex(w, c, irq) \in Nat
<1>1. InterruptCode(irq) \in Nat
  BY DEF InterruptCode, INTERRUPT_M_EXTERNAL, INTERRUPT_M_SOFTWARE, INTERRUPT_M_TIMER
<1>2. SyncTrap(w, c.priv).cause \in Nat
  BY DEF SyncTrap, EXC_INST_ILLEGAL, EXC_BREAKPOINT, EXC_ECALL_FROM_U, EXC_ECALL_FROM_S,
         EXC_ECALL_FROM_M, EXC_LOAD_FAULT, EXC_STORE_FAULT, EXC_INSTR_PAGE_FAULT,
         EXC_LOAD_PAGE_FAULT, EXC_STORE_PAGE_FAULT
<1> QED
  BY <1>1, <1>2 DEF CauseIndex

\* Trap vector, mepc and sepc are words, also for a vectored interrupt.
LEMMA NextPcTyped ==
  ASSUME NEW m, NEW c \in CsrFileType, NEW irq
  PROVE  WbNextPc(m, c, irq) \in Word
<1> DEFINE w == WbWires(m)
           at == IF trap_to_s_mode(w, c, irq) THEN CSR_STVEC ELSE CSR_MTVEC
           aligned == ToWord(c.reg[at] \ {0, 1})
<1>1. \A a \in StoredCsr : c.reg[a] \in Bits
  BY DEF CsrFileType
<1>2. {CSR_STVEC, CSR_MTVEC, CSR_MEPC, CSR_SEPC} \subseteq StoredCsr
  BY DEF StoredCsr
<1>3. ToWord(c.reg[CSR_MEPC]) \in Word /\ ToWord(c.reg[CSR_SEPC]) \in Word
  BY <1>1, <1>2, ToWordTyped
<1>4. aligned \in Word
  <2>1. c.reg[at] \in Bits
    BY <1>1, <1>2
  <2>2. c.reg[at] \ {0, 1} \in Bits
    BY <2>1 DEF Bits
  <2> QED
    BY <2>2, ToWordTyped
<1>5. Wrap(aligned + 4 * CauseIndex(w, c, irq)) \in Word
  <2>1. aligned \in Int
    BY <1>4 DEF Word
  <2> HIDE DEF aligned
  <2>2. aligned + 4 * CauseIndex(w, c, irq) \in Int
    BY <2>1, CauseTyped
  <2> QED
    BY <2>2, WrapTyped
<1>6. TrapVector(w, c, irq) \in Word
  BY <1>4, <1>5 DEF TrapVector
<1> QED
  BY <1>3, <1>6, PowFacts DEF WbNextPc, trap_next_pc

\* The register file holds and delivers words.
LEMMA PortsTyped ==
  ASSUME NEW r \in [Reg -> Word], NEW m, m.ctl \in CtlType, m.alu \in Word, m.mdata \in Word,
         m.pc \in Word, NEW c \in CsrFileType, Short(c.reg)
  PROVE  /\ RegWritten(r, m, c) \in [Reg -> Word]
         /\ \A a \in Reg : RegReadBypass(r, a, m, c) \in Word
<1>1. WriteBackData(m, c) \in Word
  BY WbDataTyped
<1>2. RegWritten(r, m, c) \in [Reg -> Word]
  BY <1>1 DEF RegWritten
<1>3. \A a \in Reg : RegReadBypass(r, a, m, c) \in Word
  BY <1>1, PowFacts DEF RegReadBypass
<1> QED
  BY <1>2, <1>3

-----------------------------------------------------------------------------
(* The pipeline *)

\* The latches, as TypeOK has them.
IfIdType == [pc : Word, instr : Instruction, v : BOOLEAN]
IdExType == [pc : Word, instr : Word, rs1 : Reg, rs2 : Reg, rs1_data : Word,
             rs2_data : Word, imm : Word, ctl : CtlType, v : BOOLEAN]
ExMemType == [pc : Word, instr : Word, alu : Word, rs1 : Reg, rs1_data : Word,
              rs2_data : Word, imm : Word, ctl : CtlType, v : BOOLEAN]
MemWbType == [pc : Word, instr : Word, alu : Word, mdata : Word, rs1 : Reg,
              rs1_data : Word, imm : Word, ctl : CtlType, load_fault : BOOLEAN,
              store_fault : BOOLEAN, fault_addr : Word, v : BOOLEAN,
              before : [DCells -> Word]]

\* TypeOK does not bound frm, on which the width of fcsr depends, nor say
\* that the memory holds instructions.
TypeInv ==
  /\ TypeOK
  /\ csr \in CsrFileType /\ Short(csr.reg)
  /\ \A a \in DOMAIN imem : imem[a] \in Instruction

\* What TypeInv says of each register, for use by name.
LEMMA TypeFacts ==
  ASSUME TypeInv
  PROVE  /\ pc \in Word /\ if_id \in IfIdType /\ id_ex \in IdExType /\ ex_mem \in ExMemType
         /\ mem_wb \in MemWbType /\ regs \in [Reg -> Word] /\ dmem \in [DCells -> Word]
  BY DEF TypeInv, TypeOK, IfIdType, IdExType, ExMemType, MemWbType

\* The forwarding muxes deliver words.
LEMMA OperandsTyped ==
  ASSUME TypeInv
  PROVE  ExRs1 \in Word /\ ExRs2 \in Word
<1>1. WbData \in Word
  BY TypeFacts, WbDataTyped DEF MemWbType, TypeInv, WbData
<1>2. ex_mem.alu \in Word /\ id_ex.rs1_data \in Word /\ id_ex.rs2_data \in Word
  BY TypeFacts DEF ExMemType, IdExType
<1> QED
  BY <1>1, <1>2 DEF ExRs1, ExRs2, Forwarded

\* The front of the pipeline on an edge, with the flush request named.
LEMMA EdgeShape ==
  ASSUME NEW irq, Clock(irq)
  PROVE  \E flush \in BOOLEAN :
           /\ pc' = NextFetchPc(pc, Control(flush).if_stall, flush, WbNextPc(mem_wb, csr, irq),
                                ExBranchTaken,
                                BranchTarget(id_ex.ctl, id_ex.pc, ExRs1, ExRs2, id_ex.imm),
                                Wrap(pc + 4))
           /\ if_id' = IfIdNext(Control(flush))
           /\ id_ex' = IdExNext(Control(flush))
           /\ ex_mem' = ExMemNext(Control(flush), flush)
           /\ mem_wb' = MemWbNext(flush)
<1>1. trap_flush_req(WbCommand(mem_wb, csr, irq)) \in BOOLEAN
  BY DEF trap_flush_req
<1> QED
  BY <1>1 DEF Clock

\* The PC stays a word, from whichever source it is taken.
LEMMA PcTyped ==
  ASSUME TypeInv, NEW irq, Clock(irq)
  PROVE  pc' \in Word
<1>1. WbNextPc(mem_wb, csr, irq) \in Word
  BY NextPcTyped DEF TypeInv
<1>2. BranchTarget(id_ex.ctl, id_ex.pc, ExRs1, ExRs2, id_ex.imm) \in Word
  <2>1. id_ex.ctl.alu_op \in AluOp /\ id_ex.pc \in Word /\ id_ex.imm \in Word
    BY TypeFacts DEF IdExType, CtlType
  <2> QED
    BY <2>1, OperandsTyped, ResultTyped
<1>3. Wrap(pc + 4) \in Word /\ pc \in Word
  <2>1. pc \in Word
    BY TypeFacts
  <2>2. pc + 4 \in Int
    BY <2>1 DEF Word
  <2> QED
    BY <2>1, <2>2, WrapTyped
<1> QED
  BY <1>1, <1>2, <1>3, EdgeShape DEF NextFetchPc

\* IF/ID after the edge.
LEMMA IfIdTyped ==
  ASSUME TypeInv, NEW h
  PROVE  IfIdNext(h) \in IfIdType
<1>1. pc \in Word /\ if_id \in IfIdType
  BY TypeFacts
<1>2. Fetch(imem, pc) \in Instruction
  BY FetchTyped DEF TypeInv
<1>3. NOP \in Instruction
  <2>1. \A a \in DOMAIN <<>> : <<>>[a] \in Instruction
    OBVIOUS
  <2>2. Fetch(<<>>, 0) = NOP
    BY DEF Fetch
  <2> QED
    BY <2>1, <2>2, FetchTyped
<1> QED
  BY <1>1, <1>2, <1>3, PowFacts DEF IfIdNext, IfIdBubble, IfIdType

\* ID/EX after the edge.
LEMMA IdExTyped ==
  ASSUME TypeInv, NEW h
  PROVE  IdExNext(h) \in IdExType
<1> DEFINE i == if_id.instr
<1>1. id_ex \in IdExType /\ if_id.pc \in Word /\ i \in Instruction /\ if_id.v \in BOOLEAN
  BY TypeFacts DEF IfIdType
<1> HIDE DEF i
<1>2. i.word \in Word /\ i.rs2 \in Reg
  BY <1>1 DEF Instruction
<1>3. Decode(i, csr.priv) \in CtlType /\ Rs1Addr(i) \in Reg /\ DecodeImm(i) \in Word
  BY <1>1, DecodeTyped
<1>4. \A a \in Reg : RegReadBypass(regs, a, mem_wb, csr) \in Word
  BY TypeFacts, PortsTyped DEF MemWbType, TypeInv
<1>5. CASE h.id_ex_flush
  BY <1>1, <1>5, IdleTyped, PowFacts DEF IdExNext, IdExType
<1>6. CASE ~h.id_ex_flush
  BY <1>1, <1>2, <1>3, <1>4, <1>6 DEF IdExNext, IdExType, i
<1> QED
  BY <1>5, <1>6

\* EX/MEM after the edge.
LEMMA ExMemTyped ==
  ASSUME TypeInv, NEW h, NEW flush
  PROVE  ExMemNext(h, flush) \in ExMemType
<1>1. id_ex \in IdExType /\ ex_mem \in ExMemType
  BY TypeFacts
<1>2. id_ex.ctl.alu_op \in AluOp /\ id_ex.pc \in Word /\ id_ex.imm \in Word
  BY <1>1 DEF IdExType, CtlType
<1>3. AluResult(id_ex.ctl, id_ex.pc, ExRs1, ExRs2, id_ex.imm) \in Word
  BY <1>2, OperandsTyped, ResultTyped
<1> QED
  BY <1>1, <1>3, OperandsTyped DEF ExMemNext, ExMemType, IdExType

\* MEM/WB after the edge, flushed or not.
LEMMA MemWbTyped ==
  ASSUME TypeInv, NEW flush
  PROVE  MemWbNext(flush) \in MemWbType
<1>1. mem_wb \in MemWbType /\ ex_mem \in ExMemType /\ dmem \in [DCells -> Word]
  BY TypeFacts
<1>2. CASE flush
  <2> DEFINE ctl == [IdleCtl EXCEPT !.rd = mem_wb.ctl.rd, !.wb_sel = mem_wb.ctl.wb_sel,
                                    !.csr_op = mem_wb.ctl.csr_op]
  <2>1. mem_wb.ctl \in CtlType
    BY <1>1 DEF MemWbType
  <2>2. ctl \in CtlType
    BY <2>1, IdleTyped DEF CtlType
  <2> HIDE DEF ctl
  <2>3. MemWbFlushed \in MemWbType
    BY <1>1, <2>2, PowFacts DEF MemWbFlushed, MemWbType, ctl
  <2> QED
    BY <1>2, <2>3 DEF MemWbNext
<1>3. CASE ~flush
  <2>1. ex_mem.ctl \in CtlType /\ ex_mem.alu \in Word
    BY <1>1 DEF ExMemType
  <2>2. MemRead(dmem, ex_mem.ctl, ex_mem.alu) \in Word
    BY <1>1, <2>1, MemReadTyped
  <2>3. FaultAddr(ex_mem.ctl, ex_mem.alu) \in Word
    BY <2>1, PowFacts DEF FaultAddr
  <2>4. /\ LoadMisaligned(ex_mem.ctl, ex_mem.alu) \in BOOLEAN
        /\ StoreMisaligned(ex_mem.ctl, ex_mem.alu) \in BOOLEAN
    BY DEF LoadMisaligned, StoreMisaligned
  <2> QED
    BY <1>1, <1>3, <2>2, <2>3, <2>4 DEF MemWbNext, MemWbType, ExMemType
<1> QED
  BY <1>2, <1>3

\* The CSR file after the edge, whatever the pins.
LEMMA CsrTyped ==
  ASSUME TypeInv, NEW irq, Clock(irq)
  PROVE  csr' \in CsrFileType /\ Short(csr'.reg)
<1>1. csr' = CsrNext(csr, CsrRequest(mem_wb), WbCommand(mem_wb, csr, irq))
  BY DEF Clock
<1>2. CtlOk(mem_wb.ctl) /\ mem_wb.imm \in Int
  BY TypeFacts DEF MemWbType, CtlType, CtlOk, Word
<1>3. CsrRequest(mem_wb) \in RequestType
  BY <1>2, RequestTyped
<1>4. WbCommand(mem_wb, csr, irq) \in CommandType
  BY CommandTyped
<1> QED
  BY <1>1, <1>3, <1>4, CsrNextType, CsrNextShort DEF TypeInv

\* A clock edge preserves the invariant.
LEMMA TypeStep ==
  ASSUME XLEN \in {16, 32, 64}, TypeInv, NEW irq, Clock(irq)
  PROVE  TypeInv'
<1>1. PICK flush \in BOOLEAN :
        /\ if_id' = IfIdNext(Control(flush)) /\ id_ex' = IdExNext(Control(flush))
        /\ ex_mem' = ExMemNext(Control(flush), flush) /\ mem_wb' = MemWbNext(flush)
  BY EdgeShape
<1>2. /\ if_id' \in IfIdType /\ id_ex' \in IdExType /\ ex_mem' \in ExMemType
      /\ mem_wb' \in MemWbType
  BY <1>1, IfIdTyped, IdExTyped, ExMemTyped, MemWbTyped
<1>3. regs' \in [Reg -> Word]
  <2>1. regs' = RegWritten(regs, mem_wb, csr)
    BY DEF Clock
  <2> QED
    BY <2>1, TypeFacts, PortsTyped DEF MemWbType, TypeInv
<1>4. dmem' \in [DCells -> Word]
  <2>1. dmem' = MemWritten(dmem, ex_mem.ctl, ex_mem.alu, ex_mem.rs2_data)
    BY DEF Clock
  <2> QED
    BY <2>1, TypeFacts, MemWrittenTyped DEF ExMemType
<1>5. pc' \in Word /\ csr' \in CsrFileType /\ Short(csr'.reg)
  BY PcTyped, CsrTyped
<1>6. imem' = imem
  BY DEF Clock
<1>7. csr'.reg \in [StoredCsr -> Bits] /\ csr'.priv \in PrivMode
  BY <1>5 DEF CsrFileType
<1>8. TypeOK'
  BY <1>2, <1>3, <1>4, <1>5, <1>7 DEF TypeOK, IfIdType, IdExType, ExMemType, MemWbType
<1>9. (\A a \in DOMAIN imem : imem[a] \in Instruction)'
  BY <1>6 DEF TypeInv
<1> QED
  BY <1>5, <1>8, <1>9 DEF TypeInv

\* The state after reset.
LEMMA ResetTyped ==
  ASSUME NEW mem \in [DCells -> Word]
  PROVE  /\ ResetPC \in Word /\ IfIdBubble \in IfIdType /\ IdExReset \in IdExType
         /\ ExMemReset \in ExMemType /\ MemWbReset(mem) \in MemWbType
         /\ ResetRegs \in [Reg -> Word] /\ ResetCsr \in CsrFileType /\ Short(ResetCsr.reg)
<1>1. 0 \in Word /\ 0 \in Reg /\ IdleCtl \in CtlType
  BY PowFacts, RegAssumption, IdleTyped
<1>2. NOP \in Instruction
  BY <1>1, PowFacts DEF NOP, Instruction, Opcode, Function
<1>3. ResetPC \in Word
  BY CoreAssumption
<1>4. ResetCsr \in CsrFileType /\ Short(ResetCsr.reg)
  BY ResetType, ShortAddresses DEF ResetCsr, Short
<1>5. IfIdBubble \in IfIdType
  BY <1>1, <1>2 DEF IfIdBubble, IfIdType
<1>6. IdExReset \in IdExType
  BY <1>1 DEF IdExReset, IdExType
<1>7. ExMemReset \in ExMemType
  BY <1>1 DEF ExMemReset, ExMemType
<1>8. MemWbReset(mem) \in MemWbType
  BY <1>1 DEF MemWbReset, MemWbType
<1>9. ResetRegs \in [Reg -> Word]
  BY <1>1 DEF ResetRegs
<1> QED
  BY <1>3, <1>4, <1>5, <1>6, <1>7, <1>8, <1>9

\* The invariant holds from reset on.
LEMMA TypeInvariant ==
  ASSUME XLEN \in {16, 32, 64}
  PROVE  Spec => []TypeInv
<1>1. Init => TypeInv
  <2> SUFFICES ASSUME Init PROVE TypeInv
    OBVIOUS
  <2>1. dmem \in [DCells -> Word]
    BY PowFacts DEF Init
  <2>2. /\ pc \in Word /\ if_id \in IfIdType /\ id_ex \in IdExType /\ ex_mem \in ExMemType
        /\ mem_wb \in MemWbType /\ regs \in [Reg -> Word] /\ csr \in CsrFileType
        /\ Short(csr.reg)
    BY <2>1, ResetTyped DEF Init
  <2>3. \A a \in DOMAIN imem : imem[a] \in Instruction
    BY CoreAssumption DEF Init
  <2>4. csr.reg \in [StoredCsr -> Bits] /\ csr.priv \in PrivMode
    BY <2>2 DEF CsrFileType
  <2> QED
    BY <2>1, <2>2, <2>3, <2>4
       DEF TypeInv, TypeOK, IfIdType, IdExType, ExMemType, MemWbType
<1>2. TypeInv /\ [Next]_vars => TypeInv'
  <2> SUFFICES ASSUME TypeInv, [Next]_vars PROVE TypeInv'
    OBVIOUS
  <2>1. CASE Tick
    BY <2>1, TypeStep DEF Tick
  <2>2. CASE Reset
    <3>1. dmem' \in [DCells -> Word]
      <4>1. dmem' = MemWritten(dmem, ex_mem.ctl, ex_mem.alu, ex_mem.rs2_data)
        BY <2>2 DEF Reset
      <4> QED
        BY <4>1, TypeFacts, MemWrittenTyped DEF ExMemType
    <3>2. /\ pc' \in Word /\ if_id' \in IfIdType /\ id_ex' \in IdExType /\ ex_mem' \in ExMemType
          /\ mem_wb' \in MemWbType /\ regs' \in [Reg -> Word] /\ csr' \in CsrFileType
          /\ Short(csr'.reg)
      BY <2>2, <3>1, ResetTyped DEF Reset
    <3>3. (\A a \in DOMAIN imem : imem[a] \in Instruction)'
      BY <2>2 DEF TypeInv, Reset
    <3>4. csr'.reg \in [StoredCsr -> Bits] /\ csr'.priv \in PrivMode
      BY <3>2 DEF CsrFileType
    <3> QED
      BY <3>1, <3>2, <3>3, <3>4
         DEF TypeInv, TypeOK, IfIdType, IdExType, ExMemType, MemWbType
  <2>3. CASE UNCHANGED vars
    BY <2>3 DEF vars, TypeInv, TypeOK
  <2> QED
    BY <2>1, <2>2, <2>3 DEF Next
<1> QED
  BY <1>1, <1>2, PTL DEF Spec

\* Every data path of the core carries XLEN-bit words and every latch a
\* control word of the decoder, for every program, memory, interrupt pattern
\* and reset: no carry, sign extension, lane or vector offset leaves its width.
THEOREM CoreTypeCorrect ==
  ASSUME XLEN \in {16, 32, 64}
  PROVE  Spec => []TypeOK
<1>1. TypeInv => TypeOK
  BY DEF TypeInv
<1> QED
  BY <1>1, TypeInvariant, PTL

-----------------------------------------------------------------------------
(* The two forms of a word *)

\* The same value for every subset of d.
AgreeOn(g, h, d) == \A s \in SUBSET d : g[s] = h[s]

\* Two sums agree where both are defined: by induction on the cardinality.
LEMMA SumUnique ==
  ASSUME NEW b, IsFiniteSet(b), b \subseteq Nat, NEW g, IsSum(g, b),
         NEW c, NEW h, IsSum(h, c)
  PROVE  AgreeOn(g, h, b \cap c)
<1> DEFINE P == {n \in Nat : \A s \in SUBSET (b \cap c) : Cardinality(s) <= n => g[s] = h[s]}
<1>1. \A s \in SUBSET (b \cap c) : IsFiniteSet(s) /\ Cardinality(s) \in Nat /\ s \subseteq Nat
  BY FS_Subset, FS_CardinalityType
<1>2. \A s \in SUBSET (b \cap c) : g[s] = SumStep(g, s) /\ h[s] = SumStep(h, s)
  BY DEF IsSum
<1>3. 0 \in P
  <2> SUFFICES ASSUME NEW s \in SUBSET (b \cap c), Cardinality(s) <= 0 PROVE g[s] = h[s]
    OBVIOUS
  <2>1. s = {}
    BY <1>1, FS_EmptySet
  <2> QED
    BY <1>2, <2>1 DEF SumStep
<1>4. ASSUME NEW n \in Nat, n \in P PROVE n + 1 \in P
  <2> SUFFICES ASSUME NEW s \in SUBSET (b \cap c), Cardinality(s) <= n + 1 PROVE g[s] = h[s]
    OBVIOUS
  <2>1. CASE s = {}
    BY <1>2, <2>1 DEF SumStep
  <2>2. CASE s # {}
    <3> DEFINE t == s \ {Pick(s)}
    <3>1. Cardinality(t) = Cardinality(s) - 1 /\ Cardinality(s) \in Nat
      BY <1>1, <2>2, PickFacts
    <3>2. t \in SUBSET (b \cap c)
      OBVIOUS
    <3> HIDE DEF t
    <3>4. Cardinality(t) <= n
      BY <3>1
    <3>3. g[t] = h[t]
      BY <1>4, <3>2, <3>4
    <3> QED
      BY <1>2, <2>2, <3>3 DEF SumStep, t
  <2> QED
    BY <2>1, <2>2
<1> HIDE DEF P
<1>5. \A n \in Nat : n \in P
  BY <1>3, <1>4, Induct
<1> SUFFICES ASSUME NEW s \in SUBSET (b \cap c) PROVE g[s] = h[s]
  BY DEF AgreeOn
<1>6. Cardinality(s) \in Nat /\ Cardinality(s) <= Cardinality(s)
  BY <1>1
<1>7. Cardinality(s) \in P
  BY <1>5, <1>6
<1> QED
  BY <1>6, <1>7 DEF P

\* Bits below n, as a set: finite, and a number below 2^n.
LEMMA ToWordBelow ==
  ASSUME NEW n \in Nat, NEW s, s \subseteq 0 .. n - 1
  PROVE  /\ IsFiniteSet(s) /\ s \subseteq Nat
         /\ \E g : IsSum(g, s) /\ ToWord(s) = g[s]
         /\ ToWord(s) \in 0 .. 2^n - 1
<1>1. s \subseteq Nat
  OBVIOUS
<1>2. IsFiniteSet(0 .. n - 1)
  BY FS_Interval
<1>3. IsFiniteSet(s)
  BY <1>2, FS_Subset
<1> DEFINE g == CHOOSE h : IsSum(h, s)
<1>4. IsSum(g, s)
  BY <1>1, <1>3, SumExists
<1>5. ToWord(s) = g[s]
  BY Unfold
<1> HIDE DEF g
<1>6. g[s] \in 0 .. 2^n - 1
  BY <1>1, <1>3, <1>4, SumBound
<1> QED
  BY <1>1, <1>3, <1>4, <1>5, <1>6

\* A bit adds its power of two.
LEMMA ToWordInsert ==
  ASSUME NEW n \in Nat, NEW s, s \subseteq 0 .. n - 1, NEW y \in s
  PROVE  ToWord(s) = 2^y + ToWord(s \ {y})
<1>1. IsFiniteSet(s) /\ s \subseteq Nat /\ s \ {y} \subseteq 0 .. n - 1
  BY ToWordBelow
<1>2. PICK g : IsSum(g, s) /\ ToWord(s) = g[s]
  BY ToWordBelow
<1>3. PICK h : IsSum(h, s \ {y}) /\ ToWord(s \ {y}) = h[s \ {y}]
  BY <1>1, ToWordBelow
<1>4. g[s \ {y}] = h[s \ {y}]
  <2> DEFINE u == s \ {y}
  <2>1. u \in SUBSET (s \cap u)
    OBVIOUS
  <2>2. IsSum(h, u)
    BY <1>3
  <2> HIDE DEF u
  <2>3. AgreeOn(g, h, s \cap u)
    BY <1>1, <1>2, <2>2, SumUnique
  <2> QED
    BY <2>1, <2>3 DEF u, AgreeOn
<1>5. AnyOrder(g, s)
  BY <1>1, <1>2, SumFacts
<1>6. g[s] = 2^y + g[s \ {y}]
  BY <1>5 DEF AnyOrder
<1> QED
  BY <1>2, <1>3, <1>4, <1>6

\* Different sets of bits are different words: by induction on the highest
\* bit, which outweighs all the others.
LEMMA ToWordInjective ==
  ASSUME NEW n \in Nat
  PROVE  \A s, t \in SUBSET (0 .. n - 1) : ToWord(s) = ToWord(t) => s = t
<1> DEFINE P == {k \in Nat : \A s, t \in SUBSET (0 .. k - 1) : ToWord(s) = ToWord(t) => s = t}
<1>1. 0 \in P
  <2>1. 0 .. 0 - 1 = {}
    OBVIOUS
  <2> QED
    BY <2>1
<1>2. ASSUME NEW k \in Nat, k \in P PROVE k + 1 \in P
  <2> SUFFICES ASSUME NEW s \in SUBSET (0 .. (k + 1) - 1), NEW t \in SUBSET (0 .. (k + 1) - 1),
                      ToWord(s) = ToWord(t)
               PROVE  s = t
    OBVIOUS
  <2>1. s \ {k} \in SUBSET (0 .. k - 1) /\ t \ {k} \in SUBSET (0 .. k - 1)
    OBVIOUS
  <2>2. ToWord(s \ {k}) \in 0 .. 2^k - 1 /\ ToWord(t \ {k}) \in 0 .. 2^k - 1 /\ 2^k \in Nat
    BY <2>1, ToWordBelow, PowNat
  <2>3. k + 1 \in Nat
    OBVIOUS
  <2>4. k \in s => ToWord(s) = 2^k + ToWord(s \ {k})
    BY <2>3, ToWordInsert
  <2>5. k \in t => ToWord(t) = 2^k + ToWord(t \ {k})
    BY <2>3, ToWordInsert
  <2>6. (k \notin s => s \ {k} = s) /\ (k \notin t => t \ {k} = t)
    OBVIOUS
  <2> DEFINE p == 2^k
             x == ToWord(s \ {k})
             y == ToWord(t \ {k})
  <2>7. k \in s <=> k \in t
    <3>1. k \in s /\ k \notin t => FALSE
      <4> SUFFICES ASSUME k \in s, k \notin t PROVE FALSE
        OBVIOUS
      <4>1. p + x = y
        BY <2>4, <2>6
      <4>2. x \in 0 .. p - 1 /\ y \in 0 .. p - 1 /\ p \in Nat
        BY <2>2
      <4> HIDE DEF p, x, y
      <4> QED
        BY <4>1, <4>2
    <3>2. k \in t /\ k \notin s => FALSE
      <4> SUFFICES ASSUME k \in t, k \notin s PROVE FALSE
        OBVIOUS
      <4>1. p + y = x
        BY <2>5, <2>6
      <4>2. x \in 0 .. p - 1 /\ y \in 0 .. p - 1 /\ p \in Nat
        BY <2>2
      <4> HIDE DEF p, x, y
      <4> QED
        BY <4>1, <4>2
    <3> QED
      BY <3>1, <3>2
  <2>8. x = y
    <3>1. CASE k \in s
      <4>1. p + x = p + y
        BY <2>4, <2>5, <2>7, <3>1
      <4>2. x \in 0 .. p - 1 /\ y \in 0 .. p - 1 /\ p \in Nat
        BY <2>2
      <4> HIDE DEF p, x, y
      <4> QED
        BY <4>1, <4>2
    <3>2. CASE k \notin s
      BY <2>6, <2>7, <3>2
    <3> QED
      BY <3>1, <3>2
  <2>9. s \ {k} = t \ {k}
    BY <1>2, <2>1, <2>8
  <2> QED
    BY <2>7, <2>9
<1> HIDE DEF P
<1>3. n \in P
  BY <1>1, <1>2, Induct
<1> QED
  BY <1>3 DEF P

\* The bits of w below n.
BitsBelow(w, n) == {i \in 0 .. n - 1 : (w \div 2^i) % 2 = 1}

\* They add up to the low n bits of w: by induction on n.
LEMMA LowBitsSum ==
  ASSUME NEW w \in Nat, NEW n \in Nat
  PROVE  ToWord(BitsBelow(w, n)) = w % 2^n
<1> DEFINE P == {k \in Nat : ToWord(BitsBelow(w, k)) = w % 2^k}
<1>1. 0 \in P
  <2>1. BitsBelow(w, 0) = {}
    BY DEF BitsBelow
  <2>2. {} \subseteq 0 .. 0 - 1
    OBVIOUS
  <2>3. ToWord({}) \in 0 .. 2^0 - 1
    BY <2>2, ToWordBelow
  <2>4. ToWord({}) = 0
    BY <2>3, PowZero
  <2>5. w % 2^0 = 0
    BY PowZero
  <2> QED
    BY <2>1, <2>4, <2>5
<1>2. ASSUME NEW k \in Nat, k \in P PROVE k + 1 \in P
  <2> DEFINE p == 2^k
             s == BitsBelow(w, k)
             t == BitsBelow(w, k + 1)
  <2>1. p \in Nat /\ p >= 1 /\ 2^(k + 1) = 2 * p
    BY PowPos, PowSucc
  <2>2. s \subseteq 0 .. k - 1 /\ t \subseteq 0 .. (k + 1) - 1 /\ t \ {k} = s
        /\ (k \in t <=> (w \div p) % 2 = 1)
    BY DEF BitsBelow
  <2>3. ToWord(s) = w % p
    BY <1>2
  <2>4. k \in t => ToWord(t) = p + ToWord(s)
    BY <2>2, ToWordInsert
  <2>5. k \notin t => ToWord(t) = ToWord(s)
    <3>1. k \notin t => t = s
      BY <2>2
    <3> QED
      BY <3>1
  <2> HIDE DEF p, s, t
  <2>6. w % (2 * p) = IF (w \div p) % 2 = 1 THEN p + (w % p) ELSE w % p
    <3> DEFINE d == w \div p
               r == w % p
               e == d \div 2
               f == d % 2
    <3>1. d \in Nat /\ r \in 0 .. p - 1 /\ w = p * d + r
      BY <2>1
    <3> HIDE DEF d, r
    <3>2. e \in Nat /\ f \in {0, 1} /\ d = 2 * e + f
      BY <3>1
    <3> HIDE DEF e, f
    <3>3. w = (2 * p) * e + (p * f + r)
      <4>1. \A a, x, y, z \in Nat : a * (2 * x + y) + z = (2 * a) * x + (a * y + z)
        OBVIOUS
      <4> QED
        BY <2>1, <3>1, <3>2, <4>1
    <3>4. p * f + r \in 0 .. 2 * p - 1 /\ p * f = IF f = 1 THEN p ELSE 0
      BY <2>1, <3>1, <3>2
    <3>5. \A a, x, z \in Nat : a >= 1 /\ z < a => (a * x + z) % a = z
      OBVIOUS
    <3>6. w % (2 * p) = p * f + r
      <4> DEFINE a == 2 * p
                 z == p * f + r
      <4>1. a \in Nat /\ a >= 1 /\ z \in Nat /\ z < a /\ w = a * e + z
        BY <2>1, <3>3, <3>4
      <4> HIDE DEF a, z
      <4>2. w % a = z
        BY <3>2, <3>5, <4>1
      <4> QED
        BY <4>2 DEF a, z
    <3>7. w % (2 * p) = IF f = 1 THEN p + r ELSE r
      BY <2>1, <3>1, <3>2, <3>4, <3>6
    <3> QED
      BY <3>7, Zenon DEF f, r, d
  <2> QED
    BY <2>1, <2>2, <2>3, <2>4, <2>5, <2>6 DEF t
<1> HIDE DEF P
<1>3. n \in P
  BY <1>1, <1>2, Induct
<1> QED
  BY <1>3 DEF P

\* A word is the sum of its bits.
LEMMA WordOfBits ==
  ASSUME NEW w \in Word
  PROVE  ToWord(ToBits(w)) = w
<1>1. w \in Nat /\ XLEN \in Nat /\ 2^XLEN \in Nat /\ w < 2^XLEN
  BY PowFacts DEF Word
<1>2. ToBits(w) = BitsBelow(w, XLEN)
  BY DEF ToBits, BitsBelow, BitIdx
<1>3. ToWord(ToBits(w)) = w % 2^XLEN
  BY <1>1, <1>2, LowBitsSum
<1>4. \A x, y \in Nat : x < y => x % y = x
  OBVIOUS
<1> QED
  BY <1>1, <1>3, <1>4

\* ... and a set of bits is the set of the bits of its sum.
LEMMA BitsOfWord ==
  ASSUME NEW b \in Bits
  PROVE  ToBits(ToWord(b)) = b
<1> DEFINE c == ToBits(ToWord(b))
<1>1. ToWord(c) = ToWord(b)
  BY ToWordTyped, WordOfBits
<1>2. b \in SUBSET (0 .. XLEN - 1) /\ c \in SUBSET (0 .. XLEN - 1) /\ XLEN \in Nat
  BY XlenAssumption DEF Bits, BitIdx, ToBits
<1> HIDE DEF c
<1>3. c = b
  BY <1>1, <1>2, ToWordInjective
<1> QED
  BY <1>3 DEF c

\* The registers of the CSR unit and the buses of the core are two views of
\* one word: turning one into the other and back loses nothing, at any width.
THEOREM WordsAreBits ==
  /\ \A w \in Word : ToWord(ToBits(w)) = w
  /\ \A b \in Bits : ToBits(ToWord(b)) = b
BY WordOfBits, BitsOfWord

\* The handler's exception PC is the address of the instruction in WB.
TrapSaves(irq) ==
  LET t == WbCommand(mem_wb, csr, irq)
  IN  t.trigger => ToWord(csr'.reg[EpcOf(t)]) = mem_wb.pc

\* On every edge that takes a trap, an interrupt that strikes a CSR
\* instruction writing that very register included, the PC a return will
\* fetch from is exactly the address of the instruction in WB.
THEOREM TrapSavesPc ==
  ASSUME XLEN \in {16, 32, 64}
  PROVE  Spec => [][\A irq \in IrqChoices : Clock(irq) => TrapSaves(irq)]_vars
<1>1. TypeInv => \A irq \in IrqChoices : Clock(irq) => TrapSaves(irq)
  <2> SUFFICES ASSUME TypeInv, NEW irq \in IrqChoices, Clock(irq),
                      WbCommand(mem_wb, csr, irq).trigger
               PROVE  ToWord(csr'.reg[EpcOf(WbCommand(mem_wb, csr, irq))]) = mem_wb.pc
    BY DEF TrapSaves
  <2> DEFINE t == WbCommand(mem_wb, csr, irq)
  <2>1. csr' = CsrNext(csr, CsrRequest(mem_wb), t)
    BY DEF Clock
  <2>2. CtlOk(mem_wb.ctl) /\ mem_wb.imm \in Int /\ mem_wb.pc \in Word
    BY TypeFacts DEF MemWbType, CtlType, CtlOk, Word
  <2>3. CsrRequest(mem_wb) \in RequestType /\ t \in CommandType /\ csr \in CsrFileType
    BY <2>2, RequestTyped, CommandTyped DEF TypeInv
  <2>4. t.mepc = ToBits(mem_wb.pc)
    BY DEF WbCommand, TrapCommand, WbWires
  <2> HIDE DEF t
  <2>5. csr'.reg[EpcOf(t)] = ToBits(mem_wb.pc)
    <3>1. t.trigger
      BY DEF t
    <3> QED
      BY <2>1, <2>3, <2>4, <3>1, TrapWritesEpc
  <2> QED
    BY <2>2, <2>5, WordOfBits DEF t
<1> QED
  BY <1>1, TypeInvariant, PTL

-----------------------------------------------------------------------------
(* Memory is bytes: what a store writes is what a load of the same bytes   *)
(* reads, and a load of other bytes reads what it read before.             *)

Positive(n) == n \in Nat /\ n >= 1

\* x is c with the lane of w values at position p set to d, as StoreData
\* computes it ...
LaneSet(x, c, p, w, d) == x = c + (d - ((c \div p) % w)) * p

\* ... and as the lanes of x show it.
LaneHolds(x, c, p, w, d) ==
  /\ x \in Nat
  /\ x % p = c % p
  /\ (x \div p) % w = d
  /\ (x \div p) \div w = (c \div p) \div w

\* The lane holds the new value, what is below it and what is above it stays.
LEMMA LaneParts ==
  ASSUME NEW p, Positive(p), NEW w, Positive(w), NEW c \in Nat, NEW d, d \in 0 .. w - 1,
         NEW x, LaneSet(x, c, p, w, d)
  PROVE  LaneHolds(x, c, p, w, d)
<1> USE DEF Positive
<1> DEFINE k == c \div p
           r == c % p
           lane == k % w
           j == k \div w
<1>1. k \in Nat /\ r \in 0 .. p - 1 /\ c = p * k + r
  OBVIOUS
<1> HIDE DEF k, r
<1>2. j \in Nat /\ lane \in 0 .. w - 1 /\ k = w * j + lane
  BY <1>1
<1>3. x = c + (d - lane) * p
  BY DEF lane, k, LaneSet
<1> HIDE DEF j, lane
<1> DEFINE m == w * j + d
<1>4. m \in Nat
  BY <1>2
<1>5. x = p * m + r
  <2>1. \A u, v, z \in Int : p * u + v + (d - z) * p = p * (u - z + d) + v
    OBVIOUS
  <2>2. w * j \in Int /\ k \in Int /\ lane \in Int /\ r \in Int
    BY <1>1, <1>2
  <2>3. p * k + r + (d - lane) * p = p * (k - lane + d) + r
    BY <2>1, <2>2
  <2>4. k - lane + d = w * j + d
    BY <1>2, <2>2
  <2> QED
    BY <1>1, <1>3, <2>3, <2>4
<1>6. \A a, u, z \in Nat : a >= 1 /\ z < a => (a * u + z) % a = z /\ (a * u + z) \div a = u
  OBVIOUS
<1>7. m % w = d /\ m \div w = j
  <2>1. w \in Nat /\ w >= 1 /\ d \in Nat /\ d < w
    OBVIOUS
  <2>2. (w * j + d) % w = d /\ (w * j + d) \div w = j
    BY <1>2, <1>6, <2>1
  <2> QED
    BY <2>2
<1> HIDE DEF m
<1>8. x % p = r /\ x \div p = m
  <2>1. r \in Nat /\ r < p
    BY <1>1
  <2>2. (p * m + r) % p = r /\ (p * m + r) \div p = m
    BY <1>4, <1>6, <2>1
  <2> QED
    BY <1>5, <2>2
<1>9. x \in Nat
  BY <1>1, <1>4, <1>5
<1> QED
  BY <1>7, <1>8, <1>9 DEF j, k, r, LaneHolds

SameRest(x, c, n) == x % n = c % n

SameLane(x, c, p, w) == (x \div p) % w = (c \div p) % w

\* Numbers equal modulo a multiple of p * w have the same lane of w values at p.
LEMMA SameBelow ==
  ASSUME NEW p, Positive(p), NEW w, Positive(w), NEW z, Positive(z),
         NEW x \in Nat, NEW c \in Nat, SameRest(x, c, (p * w) * z)
  PROVE  SameLane(x, c, p, w)
<1> USE DEF Positive
<1> DEFINE n == (p * w) * z
<1>1. n \in Nat /\ n >= 1
  <2>1. \A a, b \in Nat : a >= 1 /\ b >= 1 => a * b \in Nat /\ a * b >= 1
    OBVIOUS
  <2> QED
    BY <2>1
<1>2. \A y \in Nat : (y \div p) % w = ((y % n) \div p) % w
  <2> SUFFICES ASSUME NEW y \in Nat PROVE (y \div p) % w = ((y % n) \div p) % w
    OBVIOUS
  <2> DEFINE e == y \div n
             f == y % n
             k == f \div p
             r == f % p
  <2> HIDE DEF n
  <2>1. e \in Nat /\ f \in Nat /\ y = n * e + f
    BY <1>1
  <2> HIDE DEF e, f
  <2>2. k \in Nat /\ r \in 0 .. p - 1 /\ f = p * k + r
    BY <2>1
  <2>9. f \div p = k
    OBVIOUS
  <2> HIDE DEF k, r
  <2>3. n * e = p * (w * (z * e))
    <3>1. \A a, b, g, h \in Nat : ((a * b) * g) * h = a * (b * (g * h))
      OBVIOUS
    <3> QED
      BY <2>1, <3>1 DEF n
  <2> DEFINE u == z * e
  <2>4. u \in Nat
    BY <2>1
  <2> HIDE DEF u
  <2>5. w * u \in Nat /\ (w * u) + k \in Nat
    BY <2>2, <2>4
  <2>6. y = p * ((w * u) + k) + r
    <3>1. \A a, b, g, h \in Nat : a * b + (a * g + h) = a * (b + g) + h
      OBVIOUS
    <3>2. y = p * (w * u) + (p * k + r)
      BY <2>1, <2>2, <2>3 DEF u
    <3> QED
      BY <2>2, <2>5, <3>1, <3>2
  <2>7. y \div p = (w * u) + k
    <3>1. \A a, b, g \in Nat : a >= 1 /\ g < a => (a * b + g) \div a = b
      OBVIOUS
    <3> QED
      BY <2>2, <2>5, <2>6, <3>1
  <2>8. ((w * u) + k) % w = k % w
    <3>1. \A a, b, g \in Nat : a >= 1 => (a * b + g) % a = g % a
      <4> SUFFICES ASSUME NEW a \in Nat, NEW b \in Nat, NEW g \in Nat, a >= 1
                   PROVE  (a * b + g) % a = g % a
        OBVIOUS
      <4> DEFINE v == g \div a
                 t == g % a
      <4>1. v \in Nat /\ t \in 0 .. a - 1 /\ g = a * v + t
        OBVIOUS
      <4> HIDE DEF v, t
      <4>2. a * b + g = a * (b + v) + t
        BY <4>1
      <4>3. \A h, i, l \in Nat : h >= 1 /\ l < h => (h * i + l) % h = l
        OBVIOUS
      <4>4. b + v \in Nat
        BY <4>1
      <4>5. (a * (b + v) + t) % a = t
        BY <4>1, <4>3, <4>4
      <4> QED
        BY <4>2, <4>5 DEF t
    <3> QED
      BY <2>2, <2>4, <3>1
  <2> QED
    BY <2>7, <2>8, <2>9 DEF f
<1> HIDE DEF n
<1>3. (x \div p) % w = ((x % n) \div p) % w /\ (c \div p) % w = ((c % n) \div p) % w
  BY <1>2
<1>4. x % n = c % n
  BY DEF n, SameRest
<1> QED
  BY <1>3, <1>4 DEF SameLane

\* Dividing twice is dividing by the product.
LEMMA DivDiv ==
  ASSUME NEW x \in Nat, NEW a \in Nat, a >= 1, NEW b \in Nat, b >= 1
  PROVE  x \div (a * b) = (x \div a) \div b
<1> DEFINE k == x \div a
           r == x % a
           e == k \div b
           f == k % b
<1>1. k \in Nat /\ r \in 0 .. a - 1 /\ x = a * k + r
  OBVIOUS
<1> HIDE DEF k, r
<1>2. e \in Nat /\ f \in 0 .. b - 1 /\ k = b * e + f
  BY <1>1
<1> HIDE DEF e, f
<1>3. x = (a * b) * e + (a * f + r)
  <2>1. \A g, h, i, l, m \in Nat : g * (h * i + l) + m = (g * h) * i + (g * l + m)
    OBVIOUS
  <2> QED
    BY <1>1, <1>2, <2>1
<1>4. a * f + r \in Nat /\ a * f + r < a * b
  <2>1. f + 1 <= b /\ f \in Nat
    BY <1>2
  <2>2. \A g, h \in Nat : g <= h => a * g <= a * h /\ a * g \in Nat /\ a * h \in Nat
    OBVIOUS
  <2>3. a * (f + 1) = a * f + a
    BY <2>1
  <2>4. a * (f + 1) <= a * b /\ a * (f + 1) \in Nat /\ a * b \in Nat /\ a * f \in Nat
    BY <2>1, <2>2
  <2> QED
    BY <1>1, <2>3, <2>4
<1>5. a * b \in Nat /\ a * b >= 1
  OBVIOUS
<1>6. \A g, h, l \in Nat : g >= 1 /\ l < g => (g * h + l) \div g = h
  OBVIOUS
<1> DEFINE n == a * b
           z == a * f + r
<1>7. n \in Nat /\ n >= 1 /\ z \in Nat /\ z < n /\ x = n * e + z
  BY <1>3, <1>4, <1>5
<1> HIDE DEF n, z
<1>8. x \div n = e
  BY <1>2, <1>6, <1>7
<1> QED
  BY <1>8 DEF n, e, k

\* What a load returns depends on the bits of its lane only.
LEMMA LoadsFromLane ==
  ASSUME NEW size \in 0 .. 7, NEW addr, AlignOffset(addr) < XLEN, NEW x, NEW c,
         (x \div 2^AlignOffset(addr)) % 2^AccessBits(size) =
           (c \div 2^AlignOffset(addr)) % 2^AccessBits(size)
  PROVE  LoadData(size, addr, x) = LoadData(size, addr, c)
<1> DEFINE bits == AccessBits(size)
           u == x \div 2^AlignOffset(addr)
           v == c \div 2^AlignOffset(addr)
<1>1. Low(u, bits) = Low(v, bits)
  BY DEF Low
<1>2. /\ LoadData(size, addr, x) = CASE size = 7        -> 0
                                     [] size \in 4 .. 6 -> Low(u, bits)
                                     [] OTHER           -> SignExt(u, bits)
      /\ LoadData(size, addr, c) = CASE size = 7        -> 0
                                     [] size \in 4 .. 6 -> Low(v, bits)
                                     [] OTHER           -> SignExt(v, bits)
  BY DEF LoadData
<1> HIDE DEF bits, u, v
<1>3. SignExt(u, bits) = SignExt(v, bits)
  BY <1>1 DEF SignExt
<1> QED
  BY <1>1, <1>2, <1>3

\* The lanes of two accesses of one cell do not overlap.
Disjoint(s1, a1, s2, a2) ==
  \/ AlignOffset(a1) + AccessBits(s1) <= AlignOffset(a2)
  \/ AlignOffset(a2) + AccessBits(s2) <= AlignOffset(a1)

\* Memory is bytes. After an aligned store, a load of the same size and
\* address returns the stored value, sign- or zero-extended, and an aligned
\* load of other bytes of the cell returns what it would have returned
\* before: the shifts of mem_stage.sv, of the store and of the load, and the
\* bytes the memory writes fit together.
THEOREM MemoryIsBytes ==
  ASSUME XLEN \in {16, 32, 64}, NEW cell \in Word, NEW data \in Word,
         NEW size \in 0 .. 3, NEW addr \in Word, ~addr_misaligned(size, addr),
         AlignOffset(addr) < XLEN
  PROVE  /\ LoadData(size, addr, StoreData(size, addr, cell, data)) =
              SignExt(data, AccessBits(size))
         /\ size # 3 => LoadData(size + 4, addr, StoreData(size, addr, cell, data)) =
                          Low(data, AccessBits(size))
         /\ \A s \in 0 .. 6, a \in Word :
              /\ ~addr_misaligned(s, a) /\ AlignOffset(a) < XLEN
              /\ Disjoint(size, addr, s, a)
              => LoadData(s, a, StoreData(size, addr, cell, data)) = LoadData(s, a, cell)
<1> DEFINE off  == AlignOffset(addr)
           bits == AccessBits(size)
           p == 2^off
           w == 2^bits
           x == StoreData(size, addr, cell, data)
<1>1. bits \in Nat /\ off \in Nat /\ off + bits <= XLEN
  BY AccessTyped, AlignedLaneFits
<1>2. p \in Nat /\ p >= 1 /\ w \in Nat /\ w >= 1
  BY <1>1, PowPos
<1>3. cell \in Nat /\ data \in Nat
  BY DEF Word
<1>4. x = cell + ((data % w) - ((cell \div p) % w)) * p
  <2>1. size \in 0 .. 3 /\ off < XLEN /\ ~(off >= XLEN)
    BY <1>1, PowFacts
  <2> QED
    BY <2>1 DEF StoreData
<1>5. /\ x \in Nat /\ x % p = cell % p /\ (x \div p) % w = data % w
      /\ (x \div p) \div w = (cell \div p) \div w
  <2> HIDE DEF off, bits, p, w, x
  <2>1. data % w \in 0 .. w - 1
    BY <1>2, <1>3
  <2> QED
    <3> DEFINE d == data % w
    <3>1. d \in 0 .. w - 1 /\ x = cell + (d - ((cell \div p) % w)) * p
      BY <1>4, <2>1
    <3> HIDE DEF d
    <3>2. Positive(p) /\ Positive(w) /\ LaneSet(x, cell, p, w, d)
      BY <1>2, <3>1 DEF Positive, LaneSet
    <3>3. LaneHolds(x, cell, p, w, d)
      BY <1>3, <3>1, <3>2, LaneParts, Zenon
    <3> QED
      BY <3>3 DEF d, LaneHolds
<1>6. Low(x \div p, bits) = Low(data, bits)
  BY <1>5 DEF Low
<1>7. LoadData(size, addr, x) = SignExt(data, bits)
  <2>1. LoadData(size, addr, x) = SignExt(x \div p, bits)
    BY DEF LoadData
  <2> QED
    BY <1>6, <2>1 DEF SignExt
<1>8. size # 3 => LoadData(size + 4, addr, x) = Low(data, bits)
  <2> SUFFICES ASSUME size # 3 PROVE LoadData(size + 4, addr, x) = Low(data, bits)
    OBVIOUS
  <2>1. size + 4 \in 4 .. 6 /\ (size + 4) % 4 = size % 4
    OBVIOUS
  <2>2. AccessBits(size + 4) = bits
    BY <2>1 DEF AccessBits
  <2>3. LoadData(size + 4, addr, x) = Low(x \div p, AccessBits(size + 4))
    BY <2>1 DEF LoadData
  <2> QED
    BY <1>6, <2>2, <2>3
<1>9. ASSUME NEW s \in 0 .. 6, NEW a \in Word, ~addr_misaligned(s, a), AlignOffset(a) < XLEN,
             Disjoint(size, addr, s, a)
      PROVE  LoadData(s, a, x) = LoadData(s, a, cell)
  <2> DEFINE off2  == AlignOffset(a)
             bits2 == AccessBits(s)
             p2 == 2^off2
             w2 == 2^bits2
  <2>1. bits2 \in Nat /\ off2 \in Nat
    BY AccessTyped DEF AlignOffset, Word
  <2>2. p2 \in Nat /\ p2 >= 1 /\ w2 \in Nat /\ w2 >= 1
    BY <2>1, PowPos
  <2>3. CASE off + bits <= off2
    <3> DEFINE z == 2^(off2 - (off + bits))
    <3>1. /\ off2 - (off + bits) \in Nat /\ off + bits \in Nat
          /\ (off + bits) + (off2 - (off + bits)) = off2
      BY <1>1, <2>1, <2>3
    <3>2. z \in Nat /\ z >= 1
      BY <3>1, PowPos
    <3>3. p2 = (p * w) * z
      <4>1. 2^(off + bits) = p * w
        BY <1>1, PowAdd
      <4>2. p2 = 2^(off + bits) * z
        BY <3>1, PowAdd
      <4> QED
        BY <4>1, <4>2
    <3> HIDE DEF p, w, z, p2, w2, x, off, bits, off2, bits2
    <3>4. p * w \in Nat /\ p * w >= 1
      BY <1>2
    <3>5. \A y \in Nat : y \div p2 = ((y \div p) \div w) \div z
      <4> SUFFICES ASSUME NEW y \in Nat PROVE y \div p2 = ((y \div p) \div w) \div z
        OBVIOUS
      <4>1. y \div p2 = (y \div (p * w)) \div z
        BY <3>2, <3>3, <3>4, DivDiv
      <4>2. y \div (p * w) = (y \div p) \div w
        BY <1>2, DivDiv
      <4> QED
        BY <4>1, <4>2
    <3>6. x \div p2 = cell \div p2
      BY <1>3, <1>5, <3>5
    <3> QED
      BY <1>9, <3>6, LoadsFromLane DEF p2, off2
  <2>4. CASE off2 + bits2 <= off
    <3> DEFINE z == 2^(off - (off2 + bits2))
    <3>1. /\ off - (off2 + bits2) \in Nat /\ off2 + bits2 \in Nat
          /\ (off2 + bits2) + (off - (off2 + bits2)) = off
      BY <1>1, <2>1, <2>4
    <3>2. z \in Nat /\ z >= 1
      BY <3>1, PowPos
    <3>3. p = (p2 * w2) * z
      <4>1. 2^(off2 + bits2) = p2 * w2
        BY <2>1, PowAdd
      <4>2. p = 2^(off2 + bits2) * z
        BY <3>1, PowAdd
      <4> QED
        BY <4>1, <4>2
    <3> HIDE DEF p, w, z, p2, w2, x, off, bits, off2, bits2
    <3>4. (x \div p2) % w2 = (cell \div p2) % w2
      <4>1. x % ((p2 * w2) * z) = cell % ((p2 * w2) * z) /\ x \in Nat
        BY <1>5, <3>3, Zenon
      <4>2. /\ Positive(p2) /\ Positive(w2) /\ Positive(z)
            /\ SameRest(x, cell, (p2 * w2) * z)
        BY <2>2, <3>2, <4>1 DEF Positive, SameRest
      <4>3. SameLane(x, cell, p2, w2)
        BY <1>3, <4>1, <4>2, SameBelow, Zenon
      <4> QED
        BY <4>3 DEF SameLane
    <3> QED
      BY <1>9, <3>4, LoadsFromLane DEF p2, w2, off2, bits2
  <2> QED
    BY <1>9, <2>3, <2>4 DEF Disjoint
<1> HIDE DEF x, bits
<1> QED
  BY <1>7, <1>8, <1>9 DEF x, bits
=============================================================================
