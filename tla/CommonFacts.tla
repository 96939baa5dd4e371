---------------------------- MODULE CommonFacts ----------------------------
(***************************************************************************)
(* Facts about the operators the components' proofs share: positions of a  *)
(* list, least and greatest numbers, and rounding to pages.                *)
(***************************************************************************)
EXTENDS Integers, SequencesExt, SequenceTheorems, WellFoundedInduction, TLAPS

(***************************************************************************)
(* What unlinking and linking do to a list, element by element.            *)
(***************************************************************************)

\* Unlinking position i moves what is behind it one place to the front.
LEMMA RemoveAtFacts ==
  ASSUME NEW S, NEW s \in Seq(S), NEW i \in 1 .. Len(s)
  PROVE  /\ RemoveAt(s, i) \in Seq(S)
         /\ Len(RemoveAt(s, i)) = Len(s) - 1
         /\ \A j \in 1 .. Len(s) - 1 :
              RemoveAt(s, i)[j] = IF j < i THEN s[j] ELSE s[j + 1]
<1> DEFINE a == SubSeq(s, 1, i - 1)
           b == SubSeq(s, i + 1, Len(s))
<1>1. a \in Seq(S) /\ Len(a) = i - 1 /\ \A j \in 1 .. i - 1 : a[j] = s[j]
  OBVIOUS
<1>2. /\ b \in Seq(S) /\ Len(b) = Len(s) - i
      /\ \A j \in 1 .. Len(s) - i : b[j] = s[i + j]
  OBVIOUS
<1>3. RemoveAt(s, i) = a \o b
  BY DEF RemoveAt
<1> HIDE DEF a, b
<1>4. /\ a \o b \in Seq(S) /\ Len(a \o b) = Len(s) - 1
      /\ \A j \in 1 .. Len(s) - 1 :
           (a \o b)[j] = IF j < i THEN a[j] ELSE b[j - (i - 1)]
  <2>1. /\ a \o b \in Seq(S) /\ Len(a \o b) = Len(a) + Len(b)
        /\ \A j \in 1 .. Len(a) + Len(b) :
             (a \o b)[j] = IF j <= Len(a) THEN a[j] ELSE b[j - Len(a)]
    BY <1>1, <1>2, ConcatProperties, Zenon
  <2>2. QED
    BY <1>1, <1>2, <2>1, SMTT(60)
<1>5. \A j \in 1 .. Len(s) - 1 : j >= i => b[j - (i - 1)] = s[j + 1]
  BY <1>2, SMTT(60)
<1> QED
  BY <1>1, <1>3, <1>4, <1>5, SMTT(60)

\* Entry j of s once e has been inserted at position i.
AfterInsert(s, i, e, j) ==
  IF j < i THEN s[j] ELSE IF j = i THEN e ELSE s[j - 1]

\* Linking e in at position i moves what is there from i on one place back.
LEMMA InsertAtFacts ==
  ASSUME NEW S, NEW s \in Seq(S), NEW i \in 1 .. Len(s) + 1, NEW e \in S
  PROVE  /\ InsertAt(s, i, e) \in Seq(S)
         /\ Len(InsertAt(s, i, e)) = Len(s) + 1
         /\ \A j \in 1 .. Len(s) + 1 :
              InsertAt(s, i, e)[j] = AfterInsert(s, i, e, j)
<1> DEFINE a == SubSeq(s, 1, i - 1)
           b == SubSeq(s, i, Len(s))
           c == a \o <<e>>
<1>1. a \in Seq(S) /\ Len(a) = i - 1 /\ \A j \in 1 .. i - 1 : a[j] = s[j]
  OBVIOUS
<1>2. /\ b \in Seq(S) /\ Len(b) = Len(s) - i + 1
      /\ \A j \in 1 .. Len(s) - i + 1 : b[j] = s[i - 1 + j]
  OBVIOUS
<1>3. InsertAt(s, i, e) = c \o b
  BY DEF InsertAt
<1> HIDE DEF a, b
<1>4. /\ c \in Seq(S) /\ Len(c) = i
      /\ \A j \in 1 .. i : c[j] = IF j < i THEN s[j] ELSE e
  <2>1. /\ <<e>> \in Seq(S) /\ Len(<<e>>) = 1 /\ <<e>>[1] = e
    OBVIOUS
  <2>2. /\ c \in Seq(S) /\ Len(c) = Len(a) + Len(<<e>>)
        /\ \A j \in 1 .. Len(a) + Len(<<e>>) :
             c[j] = IF j <= Len(a) THEN a[j] ELSE <<e>>[j - Len(a)]
    BY <1>1, <2>1, ConcatProperties, Zenon
  <2>3. /\ i \in Nat /\ Len(a) + 1 = i /\ \A j \in 1 .. i : j < i => j <= Len(a)
        /\ \A j \in 1 .. i : ~(j < i) => ~(j <= Len(a)) /\ j - Len(a) = 1
    BY <1>1
  <2>4. QED
    BY <1>1, <2>1, <2>2, <2>3, SMTT(30)
<1> HIDE DEF c
<1>5. /\ c \o b \in Seq(S) /\ Len(c \o b) = Len(s) + 1
      /\ \A j \in 1 .. Len(s) + 1 :
           (c \o b)[j] = IF j <= i THEN c[j] ELSE b[j - i]
  <2>1. /\ c \o b \in Seq(S) /\ Len(c \o b) = Len(c) + Len(b)
        /\ \A j \in 1 .. Len(c) + Len(b) :
             (c \o b)[j] = IF j <= Len(c) THEN c[j] ELSE b[j - Len(c)]
    BY <1>2, <1>4, ConcatProperties, ZenonT(60)
  <2>2. QED
    BY <1>2, <1>4, <2>1
<1>6. \A j \in 1 .. Len(s) + 1 : j > i => b[j - i] = s[j - 1]
  BY <1>2
<1>7. \A j \in 1 .. Len(s) + 1 :
        (c \o b)[j] = AfterInsert(s, i, e, j)
  <2> TAKE j \in 1 .. Len(s) + 1
  <2>1. CASE j <= i
    BY <2>1, <1>4, <1>5 DEF AfterInsert
  <2>2. CASE j > i
    BY <2>2, <1>5, <1>6 DEF AfterInsert
  <2>3. j <= i \/ j > i
    OBVIOUS
  <2>4. QED
    BY <2>1, <2>2, <2>3, Zenon
<1> QED
  BY <1>3, <1>5, <1>7

-----------------------------------------------------------------------------
(***************************************************************************)
(* Least and greatest numbers.                                             *)
(***************************************************************************)
\* A set of natural numbers that is not empty has a least element.
LEMMA LeastNatural ==
  ASSUME NEW S, S \subseteq Nat, S # {}
  PROVE  \E x \in S : \A y \in S : x <= y
<1>1. PICK x \in S : \A y \in S : ~(<<y, x>> \in OpToRel(<, Nat))
  BY NatLessThanWellFounded, WFMin, Zenon
<1>2. \A y \in S : ~(y < x)
  BY <1>1 DEF OpToRel
<1> QED
  BY <1>2

\* Min picks it: the first IOAPIC that has an interrupt, the line of the highest
\* priority that a PIC acknowledges, the next processor to start.
LEMMA MinFacts ==
  ASSUME NEW S, S \subseteq Nat, S # {}
  PROVE  Min(S) \in S /\ \A y \in S : Min(S) <= y
BY LeastNatural, Zenon DEF Min

\* Max picks the greatest of a bounded set: the vector the local APIC delivers.
LEMMA MaxFacts ==
  ASSUME NEW N \in Nat, NEW S, S \subseteq 0 .. N, S # {}
  PROVE  Max(S) \in S /\ \A y \in S : Max(S) >= y
<1> DEFINE T == {N - x : x \in S}
<1>1. T \subseteq Nat
  OBVIOUS
<1>2. T # {}
  <2>1. PICK x \in S : TRUE
    OBVIOUS
  <2>2. N - x \in T
    OBVIOUS
  <2> QED
    BY <2>2, Zenon
<1>3. PICK t \in T : \A y \in T : t <= y
  BY <1>1, <1>2, LeastNatural
<1>4. PICK x \in S : t = N - x
  OBVIOUS
<1>5. \A y \in S : x >= y
  BY <1>3, <1>4
<1> QED
  BY <1>5, Zenon DEF Max

\* The only member of a set is its least and its greatest.
LEMMA SingleFacts ==
  ASSUME NEW x \in Nat
  PROVE  Min({x}) = x /\ Max({x}) = x
<1>1. Min({x}) \in {x}
  BY MinFacts
<1>2. Max({x}) \in {x}
  BY MaxFacts
<1> QED
  BY <1>1, <1>2

-----------------------------------------------------------------------------
(***************************************************************************)
(* Division by a positive constant, as in rounding addresses to pages.     *)
(***************************************************************************)
\* Rounding down and multiplying again stays within one unit.
LEMMA DivFacts ==
  ASSUME NEW P \in Nat \ {0}, NEW a \in Nat
  PROVE  /\ a \div P \in Nat /\ (a \div P) * P \in Nat
         /\ (a \div P) * P <= a /\ a < (a \div P) * P + P
OBVIOUS

\* Quotient and remainder make up the number again.
LEMMA DivModFacts ==
  ASSUME NEW P \in Nat \ {0}, NEW a \in Nat,
         NEW q \in Nat, q = a \div P, NEW r \in Nat, r = a % P
  PROVE  r \in 0 .. P - 1 /\ a = q * P + r
<1>1. r \in 0 .. P - 1
  OBVIOUS
<1>2. a = q * P + r
  OBVIOUS
<1> QED
  BY <1>1, <1>2

\* Multiples of P are P apart.
LEMMA MultiplesApart ==
  ASSUME NEW P \in Nat \ {0}, NEW p \in Int, NEW q \in Int, p < q
  PROVE  p * P + P <= q * P
<1>1. q - p - 1 \in Nat
  OBVIOUS
<1>2. (q - p - 1) * P \in Nat
  BY <1>1
<1>3. q * P = p * P + P + (q - p - 1) * P
  OBVIOUS
<1> QED
  BY <1>2, <1>3

\* The quotient of a is at least q exactly if a is at least the q-th multiple.
LEMMA QuotientAtLeast ==
  ASSUME NEW P \in Nat \ {0}, NEW a \in Nat, NEW q \in Int
  PROVE  q * P <= a <=> q <= a \div P
<1> DEFINE d == a \div P
<1>1. d \in Nat /\ d * P <= a /\ a < d * P + P
  BY DivFacts
<1> HIDE DEF d
<1>2. CASE q < d
  <2>1. q * P + P <= d * P
    BY <1>1, <1>2, MultiplesApart
  <2> QED
    BY <1>1, <1>2, <2>1 DEF d
<1>3. CASE q = d
  BY <1>1, <1>3 DEF d
<1>4. CASE d < q
  <2>1. d * P + P <= q * P
    BY <1>1, <1>4, MultiplesApart
  <2> QED
    BY <1>1, <1>4, <2>1 DEF d
<1> QED
  BY <1>1, <1>2, <1>3, <1>4

\* b is a units behind the q-th multiple of P.
Composed(b, q, P, a) == b = q * P + a

\* Adding a multiple of P adds to the quotient and leaves the remainder.
LEMMA DivAdd ==
  ASSUME NEW P \in Nat \ {0}, NEW q \in Nat, NEW a \in Nat,
         NEW b, Composed(b, q, P, a)
  PROVE  b \in Nat /\ b \div P = q + a \div P /\ b % P = a % P
<1> DEFINE d == a \div P
<1>1. d \in Nat /\ d * P \in Nat /\ d * P <= a /\ a < d * P + P
  BY DivFacts
<1>2. b \in Nat /\ q * P \in Nat /\ b = q * P + a
  BY DEF Composed
<1> HIDE DEF d
<1>3. (q + d) * P = q * P + d * P /\ (q + d + 1) * P = q * P + d * P + P
  BY <1>1
<1>4. (q + d) * P <= b /\ ~((q + d + 1) * P <= b)
  BY <1>1, <1>2, <1>3
<1>5. q + d <= b \div P /\ ~(q + d + 1 <= b \div P) /\ b \div P \in Nat
  BY <1>1, <1>2, <1>4, QuotientAtLeast, DivFacts
<1>6. b \div P = q + d
  BY <1>1, <1>5
<1>7. b % P = b - (b \div P) * P /\ a % P = a - d * P
  <2>1. b % P = b - (b \div P) * P
    BY <1>2
  <2>2. a % P = a - (a \div P) * P
    OBVIOUS
  <2> QED
    BY <2>1, <2>2 DEF d
<1>8. b % P = a % P
  BY <1>1, <1>2, <1>3, <1>6, <1>7
<1> QED
  BY <1>2, <1>6, <1>8 DEF d
=============================================================================
