----------------------------- MODULE Stdio_proofs -----------------------------
(****************************************************************************)
(* What printf's operators return, for every format and every number:       *)
(* facts about recursive functions, each from the least number at which     *)
(* they could fail.                                                         *)
(****************************************************************************)
EXTENDS Stdio, WellFoundedInduction, TLAPS

----------------------------------------------------------------------------
\* Induction over the natural numbers, as a fact about sets.

\* A set of natural numbers has a least element.
LEMMA LeastNatural ==
  ASSUME NEW S, S \subseteq Nat, S # {}
  PROVE  \E m \in S : \A k \in S : m <= k
<1> DEFINE R == OpToRel(<, Nat)
<1>1. IsWellFoundedOn(R, Nat)
  BY NatLessThanWellFounded
<1>2. PICK m \in S : \A k \in S : ~(<<k, m>> \in R)
  <2> HIDE DEF R
  <2>1. QED BY <1>1, WFMin
<1>3. ASSUME NEW k \in S PROVE m <= k
  <2>1. k \in Nat /\ m \in Nat OBVIOUS
  <2>2. <<k, m>> \in Nat \X Nat BY <2>1
  <2>3. k < m => <<k, m>> \in OpToRel(<, Nat) BY <2>2 DEF OpToRel
  <2>4. ~(k < m) BY <1>2, <2>3
  <2>q. QED BY <2>1, <2>4
<1>q. QED BY <1>3

\* A set with 0 and every successor of its elements has every natural number.
LEMMA SetInduction ==
  ASSUME NEW S, 0 \in S, \A n \in Nat : n \in S => n + 1 \in S
  PROVE  \A n \in Nat : n \in S
<1> SUFFICES ASSUME Nat \ S # {} PROVE FALSE
  OBVIOUS
<1>1. PICK m \in Nat \ S : \A k \in Nat \ S : m <= k
  BY LeastNatural
<1>2. m - 1 \in Nat /\ m - 1 \in S BY <1>1
<1>q. QED BY <1>1, <1>2

\* The same up to a bound.
LEMMA BoundedInduction ==
  ASSUME NEW N \in Nat, NEW S, 0 \in S,
         \A n \in 0 .. (N - 1) : n \in S => n + 1 \in S
  PROVE  \A n \in 0 .. N : n \in S
<1> DEFINE T == {n \in Nat : n <= N => n \in S}
<1>1. 0 \in T OBVIOUS
<1>2. \A n \in Nat : n \in T => n + 1 \in T
  <2>1. SUFFICES ASSUME NEW n \in Nat, n <= N => n \in S, n + 1 <= N PROVE n + 1 \in S
    OBVIOUS
  <2>2. n \in 0 .. (N - 1) BY <2>1
  <2>q. QED BY <2>1, <2>2
<1>3. \A n \in Nat : n \in T
  <2> HIDE DEF T
  <2>q. QED BY <1>1, <1>2, SetInduction
<1>q. QED BY <1>3

\* One more element at the end.
LEMMA AppendFacts ==
  ASSUME NEW S, NEW s \in Seq(S), NEW x \in S
  PROVE  /\ Append(s, x) \in Seq(S) /\ Len(Append(s, x)) = Len(s) + 1
         /\ Append(s, x)[Len(s) + 1] = x
         /\ \A i \in 1 .. Len(s) : Append(s, x)[i] = s[i]
  OBVIOUS

----------------------------------------------------------------------------
\* Division.

LEMMA BitsCases == Bits \in Nat /\ (Bits = 8 \/ Bits = 16 \/ Bits = 24 \/ Bits = 32)
<1>1. Bits \in {8 * n : n \in 1 .. 4} BY StdioAssumption
<1>2. PICK n \in 1 .. 4 : Bits = 8 * n BY <1>1
<1>3. n = 1 \/ n = 2 \/ n = 3 \/ n = 4 BY <1>2
<1>q. QED BY <1>2, <1>3

\* The function that Divided names.
LEMMA DividedSteps ==
  ASSUME NEW n, NEW base
  PROVE  Divided(n, base) = [k \in 0 .. Bits |-> IF k = 0 THEN n
                               ELSE Quotient(Divided(n, base)[k - 1], base)]
<1> DEFINE E(m, f) == f = [k \in 0 .. m |-> IF k = 0 THEN n ELSE Quotient(f[k - 1], base)]
           T == {m \in Nat : \E f : E(m, f)}
<1>1. 0 \in T
  <2>1. E(0, [k \in 0 .. 0 |-> n]) OBVIOUS
  <2>q. QED BY <2>1
<1>2. ASSUME NEW m \in Nat, m \in T PROVE m + 1 \in T
  <2>1. PICK f : E(m, f) BY <1>2
  <2> DEFINE g == [k \in 0 .. (m + 1) |-> IF k = m + 1 THEN Quotient(f[m], base) ELSE f[k]]
  <2>2. E(m + 1, g) BY <2>1
  <2>3. \E h : E(m + 1, h)
    <3> HIDE DEF E, g
    <3>q. QED BY <2>2
  <2>q. QED BY <2>3
<1>3. Bits \in Nat BY BitsCases
<1>4. \E f : E(Bits, f)
  <2>1. \A m \in Nat : m \in T
    <3> HIDE DEF T
    <3>q. QED BY <1>1, <1>2, SetInduction
  <2>q. QED BY <1>3, <2>1
<1>5. E(Bits, CHOOSE f : E(Bits, f))
  <2> HIDE DEF E
  <2>q. QED BY <1>4
<1>6. Divided(n, base) = CHOOSE f : E(Bits, f) BY DEF Divided
<1>q. QED BY <1>5, <1>6

\* The powers of two below the word.
LEMMA Powers ==
  \E P \in [0 .. Bits -> Nat \ {0}] :
     P[0] = 1 /\ P[Bits] = Word /\ \A k \in 0 .. (Bits - 1) : P[k + 1] = 2 * P[k]
<1> DEFINE E(m, f) == /\ f \in [0 .. m -> Nat \ {0}] /\ f[0] = 1
                      /\ \A k \in 0 .. (m - 1) : f[k + 1] = 2 * f[k]
           T == {m \in Nat : \E f : E(m, f)}
<1>1. 0 \in T
  <2>1. E(0, [k \in 0 .. 0 |-> 1]) OBVIOUS
  <2>q. QED BY <2>1
<1>2. ASSUME NEW m \in Nat, m \in T PROVE m + 1 \in T
  <2>1. PICK f : E(m, f) BY <1>2
  <2> DEFINE g == [k \in 0 .. (m + 1) |-> IF k = m + 1 THEN 2 * f[m] ELSE f[k]]
  <2>2. E(m + 1, g) BY <2>1
  <2>3. \E h : E(m + 1, h)
    <3> HIDE DEF E, g
    <3>q. QED BY <2>2
  <2>q. QED BY <2>3
<1>3. \A m \in Nat : m \in T
  <2> HIDE DEF T
  <2>q. QED BY <1>1, <1>2, SetInduction
<1>4. PICK P : E(Bits, P)
  <2>1. Bits \in T BY <1>3, BitsCases
  <2>q. QED BY <2>1
<1>a. Bits \in Nat BY BitsCases
<1>b. P \in [0 .. Bits -> Nat \ {0}] BY <1>4
<1>c. \A j \in 0 .. (Bits - 1) : P[j + 1] = 2 * P[j] BY <1>4
<1>5. ASSUME NEW k \in 0 .. (Bits - 8) PROVE P[k + 8] = 256 * P[k]
  <2>0. k \in Int /\ \A j \in 0 .. 7 : k + j \in 0 .. (Bits - 1) BY BitsCases
  <2>1. \A j \in 0 .. (Bits - 1) : P[j + 1] = 2 * P[j] /\ P[j] \in Nat BY <1>a, <1>b, <1>c
  <2>2. P[k + 0 + 1] = 2 * P[k + 0] /\ P[k + 1 + 1] = 2 * P[k + 1] BY <2>0, <2>1
  <2>3. P[k + 2 + 1] = 2 * P[k + 2] /\ P[k + 3 + 1] = 2 * P[k + 3] BY <2>0, <2>1
  <2>4. P[k + 4 + 1] = 2 * P[k + 4] /\ P[k + 5 + 1] = 2 * P[k + 5] BY <2>0, <2>1
  <2>5. P[k + 6 + 1] = 2 * P[k + 6] /\ P[k + 7 + 1] = 2 * P[k + 7] BY <2>0, <2>1
  <2>6. P[k + 0] \in Nat BY <2>0, <2>1
  <2>7. /\ k + 0 = k /\ k + 0 + 1 = k + 1 /\ k + 1 + 1 = k + 2 /\ k + 2 + 1 = k + 3
        /\ k + 3 + 1 = k + 4 /\ k + 4 + 1 = k + 5 /\ k + 5 + 1 = k + 6
        /\ k + 6 + 1 = k + 7 /\ k + 7 + 1 = k + 8
    BY <2>0
  <2>q. QED BY <2>2, <2>3, <2>4, <2>5, <2>6, <2>7
<1>6. P[8] = 256 BY <1>4, <1>5, BitsCases
<1>7. Bits >= 16 => P[16] = 65536 BY <1>5, <1>6, BitsCases
<1>8. Bits >= 24 => P[24] = 16777216 BY <1>5, <1>7, BitsCases
<1>9. Bits >= 32 => P[32] = 4294967296 BY <1>5, <1>8, BitsCases
<1>10. P[Bits] = Word
  <2>1. CASE Bits = 8
    <3>1. Word = 2 ^ 8 BY <2>1 DEF Word
    <3>2. Word = 256 BY <3>1
    <3>q. QED BY <2>1, <3>2, <1>6
  <2>2. CASE Bits = 16
    <3>1. Word = 2 ^ 16 BY <2>2 DEF Word
    <3>2. Word = 65536 BY <3>1
    <3>q. QED BY <2>2, <3>2, <1>7
  <2>3. CASE Bits = 24
    <3>1. Word = 2 ^ 24 BY <2>3 DEF Word
    <3>2. Word = 16777216 BY <3>1
    <3>q. QED BY <2>3, <3>2, <1>8
  <2>4. CASE Bits = 32
    <3>1. Word = 2 ^ 32 BY <2>4 DEF Word
    <3>2. Word = 4294967296 BY <3>1
    <3>q. QED BY <2>4, <3>2, <1>9
  <2>q. QED BY <2>1, <2>2, <2>3, <2>4, BitsCases
<1>q. QED BY <1>4, <1>10

\* The value of a word, for the sizes there are.
LEMMA WordCases ==
  /\ Word \in Nat
  /\ Bits = 8 => Word = 256
  /\ Bits = 16 => Word = 65536
  /\ Bits = 24 => Word = 16777216
  /\ Bits = 32 => Word = 4294967296
<1>1. Bits = 8 => Word = 2 ^ 8 BY DEF Word
<1>2. Bits = 16 => Word = 2 ^ 16 BY DEF Word
<1>3. Bits = 24 => Word = 2 ^ 24 BY DEF Word
<1>4. Bits = 32 => Word = 2 ^ 32 BY DEF Word
<1>5. Bits = 8 => Word = 256 BY <1>1
<1>6. Bits = 16 => Word = 65536 BY <1>2
<1>7. Bits = 24 => Word = 16777216 BY <1>3
<1>8. Bits = 32 => Word = 4294967296 BY <1>4
<1>q. QED BY <1>5, <1>6, <1>7, <1>8, BitsCases

\* The bases that printf divides by.
Bases == {2, 10, 256}

\* Division by a base goes towards zero, and at least halves.
LEMMA QuotientFacts ==
  ASSUME NEW n \in Int, NEW base \in Bases
  PROVE  /\ Quotient(n, base) \in Int /\ Remainder(n, base) \in Int
         /\ Remainder(n, base) \in (1 - base) .. (base - 1)
         /\ n = base * Quotient(n, base) + Remainder(n, base)
         /\ n >= 0 => /\ Quotient(n, base) >= 0
                      /\ Remainder(n, base) >= 0
                      /\ Quotient(n, base) = n \div base
                      /\ Remainder(n, base) = n % base
         /\ \A p \in Nat : n > -(2 * p) /\ n < 2 * p =>
              Quotient(n, base) > -p /\ Quotient(n, base) < p
<1>1. CASE base = 2 BY <1>1 DEF Quotient, Remainder
<1>2. CASE base = 10 BY <1>2 DEF Quotient, Remainder
<1>3. CASE base = 256 BY <1>3 DEF Quotient, Remainder
<1>q. QED BY <1>1, <1>2, <1>3 DEF Bases

\* A number of a word's size, divided as often as the word has bits: every
\* step is a quotient, nothing is left in the end.
LEMMA DividedFacts ==
  ASSUME NEW n \in Int, NEW base \in Bases, -Word < n, n < Word
  PROVE  LET D == Divided(n, base)
         IN /\ D \in [0 .. Bits -> Int] /\ D[0] = n /\ D[Bits] = 0
            /\ \A k \in 0 .. (Bits - 1) : D[k + 1] = Quotient(D[k], base)
            /\ n >= 0 => \A k \in 0 .. Bits : D[k] >= 0
<1> DEFINE D == Divided(n, base)
<1>b. Bits \in Nat BY BitsCases
<1>1. D = [k \in 0 .. Bits |-> IF k = 0 THEN n ELSE Quotient(D[k - 1], base)]
  BY DividedSteps
<1> HIDE DEF D
<1>2. D[0] = n BY <1>1, <1>b
<1>3. \A k \in 0 .. (Bits - 1) : D[k + 1] = Quotient(D[k], base)
  <2>1. TAKE k \in 0 .. (Bits - 1)
  <2>2. k + 1 \in 0 .. Bits /\ k + 1 # 0 /\ (k + 1) - 1 = k BY <1>b
  <2>q. QED BY <1>1, <2>2
<1>4. PICK P \in [0 .. Bits -> Nat \ {0}] :
        P[0] = 1 /\ P[Bits] = Word /\ \A k \in 0 .. (Bits - 1) : P[k + 1] = 2 * P[k]
  BY Powers
<1> DEFINE S == {k \in 0 .. Bits : /\ D[k] \in Int
                                   /\ n >= 0 => D[k] >= 0
                                   /\ -P[Bits - k] < D[k] /\ D[k] < P[Bits - k]}
<1>5. \A k \in 0 .. Bits : k \in S
  <2>1. 0 \in S
    <3>1. Bits - 0 = Bits BY <1>b
    <3>q. QED BY <1>2, <1>4, <1>b, <3>1
  <2>2. ASSUME NEW k \in 0 .. (Bits - 1), k \in S PROVE k + 1 \in S
    <3>1. D[k] \in Int /\ (n >= 0 => D[k] >= 0) BY <2>2
    <3>2. -P[Bits - k] < D[k] /\ D[k] < P[Bits - k] BY <2>2
    <3>3. Bits - (k + 1) \in 0 .. (Bits - 1) /\ (Bits - (k + 1)) + 1 = Bits - k BY <1>b
    <3>4. P[Bits - k] = 2 * P[Bits - (k + 1)] BY <1>4, <3>3
    <3>5. P[Bits - (k + 1)] \in Nat BY <1>4, <3>3, <1>b
    <3>6. D[k + 1] = Quotient(D[k], base) BY <1>3
    <3>7. /\ D[k + 1] \in Int
          /\ -P[Bits - (k + 1)] < D[k + 1] /\ D[k + 1] < P[Bits - (k + 1)]
      BY <3>1, <3>2, <3>4, <3>5, <3>6, QuotientFacts
    <3>8. n >= 0 => D[k + 1] >= 0 BY <3>1, <3>6, QuotientFacts
    <3>9. k + 1 \in 0 .. Bits BY <1>b
    <3>q. QED BY <3>7, <3>8, <3>9
  <2> HIDE DEF S
  <2>q. QED BY <1>b, <2>1, <2>2, BoundedInduction
<1>6. \A k \in 0 .. Bits : D[k] \in Int /\ (n >= 0 => D[k] >= 0) BY <1>5
<1>7. D \in [0 .. Bits -> Int]
  <2>1. D = [k \in 0 .. Bits |-> D[k]] BY <1>1
  <2>q. QED BY <1>6, <2>1
<1>8. D[Bits] = 0
  <2>1. Bits \in S BY <1>5, <1>b
  <2>2. Bits - Bits = 0 /\ Bits \in 0 .. Bits BY <1>b
  <2>3. -P[0] < D[Bits] /\ D[Bits] < P[0] /\ D[Bits] \in Int BY <2>1, <2>2
  <2>q. QED BY <2>3, <1>4
<1>9. D \in [0 .. Bits -> Int] /\ D[0] = n /\ D[Bits] = 0
      /\ (\A k \in 0 .. (Bits - 1) : D[k + 1] = Quotient(D[k], base))
      /\ (n >= 0 => \A k \in 0 .. Bits : D[k] >= 0)
  BY <1>2, <1>3, <1>6, <1>7, <1>8
<1>q. QED BY <1>9 DEF D

\* There is such a number of divisions.
LEMMA DivisionsFacts ==
  ASSUME NEW n \in Int, NEW base \in Bases, -Word < n, n < Word
  PROVE  LET k == Divisions(n, base)
         IN /\ k \in 0 .. Bits /\ Divided(n, base)[k] = 0
            /\ \A j \in 0 .. (k - 1) : Divided(n, base)[j] # 0
<1> DEFINE D == Divided(n, base)
           S == {k \in 0 .. Bits : D[k] = 0}
           Right(k) == D[k] = 0 /\ \A j \in 0 .. (k - 1) : D[j] # 0
<1>b. Bits \in Nat BY BitsCases
<1>1. D[Bits] = 0 BY DividedFacts
<1>2. Bits \in S /\ S \subseteq Nat BY <1>1, <1>b
<1>3. PICK m \in S : \A k \in S : m <= k
  <2> HIDE DEF S
  <2>q. QED BY <1>2, LeastNatural
<1>4. \E k \in 0 .. Bits : Right(k)
  <2>1. m \in 0 .. Bits /\ D[m] = 0 BY <1>3
  <2>2. \A j \in 0 .. (m - 1) : D[j] # 0
    <3>1. SUFFICES ASSUME NEW j \in 0 .. (m - 1), D[j] = 0 PROVE FALSE
      OBVIOUS
    <3>2. j \in 0 .. Bits /\ j < m BY <2>1, <1>b
    <3>q. QED BY <1>3, <3>1, <3>2
  <2>q. QED BY <2>1, <2>2
<1>5. Divisions(n, base) = CHOOSE k \in 0 .. Bits : Right(k) BY DEF Divisions
<1>6. Divisions(n, base) \in 0 .. Bits /\ Right(Divisions(n, base))
  <2> HIDE DEF Right
  <2>q. QED BY <1>4, <1>5
<1>q. QED BY <1>6

----------------------------------------------------------------------------
\* Digits and their value.

\* The sixteen digits differ.
LEMMA DigitsDiffer ==
  ASSUME NEW d \in 0 .. 15, NEW e \in 0 .. 15, DigitChars[d + 1] = DigitChars[e + 1]
  PROVE  d = e
<1>1. \A i \in 1 .. 16, j \in 1 .. 16 : DigitChars[i] = DigitChars[j] => i = j
  BY DEF DigitChars
<1>2. d + 1 \in 1 .. 16 /\ e + 1 \in 1 .. 16 OBVIOUS
<1>3. d + 1 = e + 1 BY <1>1, <1>2
<1>q. QED BY <1>3

LEMMA DigitOfDigit ==
  ASSUME NEW d \in 0 .. 15
  PROVE  DigitOf(DigitChars[d + 1]) = d
<1> HIDE DEF DigitChars
<1>1. \E e \in 0 .. 15 : DigitChars[e + 1] = DigitChars[d + 1] OBVIOUS
<1>2. DigitOf(DigitChars[d + 1]) \in 0 .. 15
  BY <1>1 DEF DigitOf
<1>3. DigitChars[DigitOf(DigitChars[d + 1]) + 1] = DigitChars[d + 1]
  BY <1>1 DEF DigitOf
<1>q. QED BY <1>2, <1>3, DigitsDiffer

LEMMA DigitsAreChars ==
  /\ \A d \in 0 .. 15 : DigitChars[d + 1] \in Chars
  /\ \A d \in Int : d <= 15 => Digit(d) \in Chars
  /\ \A d \in 0 .. 15 : Digit(d) = DigitChars[d + 1]
  /\ "0" \in Chars /\ "%" \in Chars /\ " " \in Chars /\ NewLine \in Chars
  /\ Digit(0) = "0" /\ DigitChars[1] = "0"
<1>1. {DigitChars[d] : d \in 1 .. 16} \subseteq Chars BY StdioAssumption
<1>2. "above 0x80" \in Chars /\ "%" \in Chars /\ " " \in Chars /\ NewLine \in Chars
  BY StdioAssumption
<1>3. \A d \in 0 .. 15 : DigitChars[d + 1] \in Chars
  <2>1. TAKE d \in 0 .. 15
  <2>2. d + 1 \in 1 .. 16 OBVIOUS
  <2>q. QED BY <1>1, <2>2
<1>4. \A d \in Int : d <= 15 => Digit(d) \in Chars
  <2> TAKE d \in Int
  <2>1. CASE d < 0 BY <2>1, <1>2 DEF Digit
  <2>2. CASE d >= 0 /\ d <= 15
    <3>1. d \in 0 .. 15 BY <2>2
    <3>0. ~(d < 0) BY <2>2
    <3>2. Digit(d) = DigitChars[d + 1] BY <3>0, Zenon DEF Digit
    <3>q. QED BY <1>3, <3>1, <3>2
  <2>q. QED BY <2>1, <2>2
<1>5. \A d \in 0 .. 15 : Digit(d) = DigitChars[d + 1]
  <2>1. \A d \in 0 .. 15 : ~(d < 0) OBVIOUS
  <2>q. QED BY <2>1, Zenon DEF Digit
<1>6. DigitChars[1] = "0" BY DEF DigitChars
<1>7. Digit(0) = "0" BY <1>5, <1>6
<1>8. "0" \in Chars BY <1>7, <1>4
<1>q. QED BY <1>2, <1>3, <1>4, <1>5, <1>6, <1>7, <1>8

\* The function that ValueUpTo names.
LEMMA ValueSteps ==
  ASSUME NEW S, NEW digits \in Seq(S), NEW base
  PROVE  ValueUpTo(digits, base) =
           [k \in 0 .. Len(digits) |-> IF k = 0 THEN 0
              ELSE base * ValueUpTo(digits, base)[k - 1] + DigitOf(digits[k])]
<1> DEFINE E(m, f) == f = [k \in 0 .. m |-> IF k = 0 THEN 0
                             ELSE base * f[k - 1] + DigitOf(digits[k])]
           T == {m \in Nat : \E f : E(m, f)}
<1>1. 0 \in T
  <2>1. E(0, [k \in 0 .. 0 |-> 0]) OBVIOUS
  <2>q. QED BY <2>1
<1>2. ASSUME NEW m \in Nat, m \in T PROVE m + 1 \in T
  <2>1. PICK f : E(m, f) BY <1>2
  <2> DEFINE g == [k \in 0 .. (m + 1) |-> IF k = m + 1
                     THEN base * f[m] + DigitOf(digits[m + 1]) ELSE f[k]]
  <2>2. E(m + 1, g) BY <2>1
  <2>3. \E h : E(m + 1, h)
    <3> HIDE DEF E, g
    <3>q. QED BY <2>2
  <2> HIDE DEF E
  <2>q. QED BY <2>3
<1>3. Len(digits) \in T
  <2> HIDE DEF T
  <2>q. QED BY <1>1, <1>2, SetInduction
<1>4. \E f : E(Len(digits), f) BY <1>3
<1>5. E(Len(digits), CHOOSE f : E(Len(digits), f))
  <2> HIDE DEF E
  <2>q. QED BY <1>4
<1>6. ValueUpTo(digits, base) = CHOOSE f : E(Len(digits), f) BY DEF ValueUpTo
<1>q. QED BY <1>5, <1>6

\* The digits are those of the numbers d[k]; the first k are worth v[k].
Worth(digits, base, d, v) ==
  /\ v[0] = 0
  /\ \A k \in 1 .. Len(digits) :
       /\ d[k] \in 0 .. 15 /\ digits[k] = DigitChars[d[k] + 1]
       /\ v[k] = base * v[k - 1] + d[k]

LEMMA ValueIs ==
  ASSUME NEW digits \in Seq(Chars), NEW base \in Nat, NEW d, NEW v, Worth(digits, base, d, v)
  PROVE  Value(digits, base) = v[Len(digits)]
<1> DEFINE V == ValueUpTo(digits, base)
           S == {k \in 0 .. Len(digits) : V[k] = v[k]}
<1>1. V = [k \in 0 .. Len(digits) |-> IF k = 0 THEN 0
                                      ELSE base * V[k - 1] + DigitOf(digits[k])]
  BY ValueSteps
<1>l. Len(digits) \in Nat OBVIOUS
<1>w. /\ v[0] = 0
      /\ \A k \in 1 .. Len(digits) :
           /\ d[k] \in 0 .. 15 /\ digits[k] = DigitChars[d[k] + 1]
           /\ v[k] = base * v[k - 1] + d[k]
  BY DEF Worth
<1> HIDE DEF V
<1>2. 0 \in S BY <1>1, <1>l, <1>w
<1>3. ASSUME NEW k \in 0 .. (Len(digits) - 1), k \in S PROVE k + 1 \in S
  <2>1. k + 1 \in 1 .. Len(digits) /\ (k + 1) - 1 = k /\ k + 1 \in 0 .. Len(digits) BY <1>l
  <2>2. V[k + 1] = base * V[k] + DigitOf(digits[k + 1])
    <3>1. \A j \in 0 .. Len(digits) : j # 0 =>
            V[j] = base * V[j - 1] + DigitOf(digits[j])
      BY <1>1
    <3>2. V[k + 1] = base * V[(k + 1) - 1] + DigitOf(digits[k + 1])
      BY <2>1, <3>1
    <3>q. QED BY <2>1, <3>2
  <2>3. DigitOf(digits[k + 1]) = d[k + 1]
    <3>1. d[k + 1] \in 0 .. 15 /\ digits[k + 1] = DigitChars[d[k + 1] + 1] BY <2>1, <1>w
    <3>q. QED BY <3>1, DigitOfDigit
  <2>4. v[k + 1] = base * v[k] + d[k + 1]
    <3>1. v[k + 1] = base * v[(k + 1) - 1] + d[k + 1] BY <2>1, <1>w
    <3>q. QED BY <2>1, <3>1
  <2>5. V[k] = v[k] BY <1>3
  <2>q. QED BY <2>1, <2>2, <2>3, <2>4, <2>5
<1>4. Len(digits) \in S
  <2>1. \A k \in 0 .. Len(digits) : k \in S
    <3> HIDE DEF S
    <3>q. QED BY <1>l, <1>2, <1>3, BoundedInduction
  <2>q. QED BY <1>l, <2>1
<1>5. V[Len(digits)] = v[Len(digits)] BY <1>4
<1>q. QED BY <1>5 DEF Value, V

----------------------------------------------------------------------------
\* The conversions of numbers.

LEMMA LastDigitsTyped ==
  ASSUME NEW n \in Int, NEW base \in {2, 10}, -Word < n, n < Word, NEW k \in 0 .. Bits
  PROVE  /\ LastDigits(n, k, base) \in Seq(Chars)
         /\ Len(LastDigits(n, k, base)) = k
<1> DEFINE D == Divided(n, base)
<1>1. D \in [0 .. Bits -> Int]
  <2>1. base \in Bases BY DEF Bases
  <2>q. QED BY <2>1, DividedFacts
<1> HIDE DEF D
<1>2. ASSUME NEW i \in 1 .. k PROVE Digit(Remainder(D[k - i], base)) \in Chars
  <2>1. k - i \in 0 .. Bits BY BitsCases
  <2>2. D[k - i] \in Int BY <1>1, <2>1
  <2>3. base \in Bases BY DEF Bases
  <2>a. /\ Remainder(D[k - i], base) \in Int
        /\ Remainder(D[k - i], base) \in (1 - base) .. (base - 1)
    BY <2>2, <2>3, QuotientFacts
  <2>4. Remainder(D[k - i], base) \in Int /\ Remainder(D[k - i], base) <= 15
    BY <2>a
  <2>q. QED BY <2>4, DigitsAreChars
<1>3. k \in Nat BY BitsCases
<1>4. LastDigits(n, k, base) = [i \in 1 .. k |-> Digit(Remainder(D[k - i], base))]
  BY DEF LastDigits, D
<1>q. QED BY <1>2, <1>3, <1>4

\* Digits of a number that is not negative are its numeral, if nothing of it
\* is left; the first of them is the last quotient's.
LEMMA LastDigitsValue ==
  ASSUME NEW n \in Nat, NEW base \in {2, 10}, n < Word,
         NEW k \in 0 .. Bits, Divided(n, base)[k] = 0
  PROVE  /\ Value(LastDigits(n, k, base), base) = n
         /\ \A i \in 1 .. k : \E d \in 1 .. base : LastDigits(n, k, base)[i] = DigitChars[d]
         /\ k > 0 /\ Divided(n, base)[k - 1] # 0 => LastDigits(n, k, base)[1] # "0"
<1> DEFINE D == Divided(n, base)
           digits == LastDigits(n, k, base)
           v == [i \in 0 .. k |-> D[k - i]]
           d == [i \in 1 .. k |-> Remainder(D[k - i], base)]
<1>b. base \in Bases /\ base \in Nat /\ base <= 10 /\ Bits \in Nat BY BitsCases DEF Bases
<1>w. -Word < n BY WordCases
<1>1. /\ D \in [0 .. Bits -> Int] /\ D[0] = n
      /\ \A j \in 0 .. (Bits - 1) : D[j + 1] = Quotient(D[j], base)
      /\ \A j \in 0 .. Bits : D[j] >= 0
  BY <1>b, <1>w, DividedFacts
<1>2. digits \in Seq(Chars) /\ Len(digits) = k
  BY <1>w, LastDigitsTyped
<1>3. digits = [i \in 1 .. k |-> Digit(d[i])]
  BY DEF LastDigits
<1>z. D[k] = 0 OBVIOUS
<1> HIDE DEF D, digits
<1>4. ASSUME NEW i \in 1 .. k
      PROVE  /\ d[i] \in 0 .. 15 /\ d[i] <= base - 1 /\ d[i] \in Int
             /\ digits[i] = DigitChars[d[i] + 1]
             /\ v[i] = base * v[i - 1] + d[i]
  <2>1. k - i \in 0 .. (Bits - 1) /\ (k - i) + 1 = k - (i - 1) /\ i - 1 \in 0 .. k /\ i \in 0 .. k
    BY <1>b
  <2>2. D[k - (i - 1)] = Quotient(D[k - i], base) BY <1>1, <2>1
  <2>3. D[k - i] \in Int /\ D[k - i] >= 0 BY <1>1, <2>1, <1>b
  <2>4. D[k - i] = base * Quotient(D[k - i], base) + Remainder(D[k - i], base)
    BY <2>3, <1>b, QuotientFacts
  <2>a. Remainder(D[k - i], base) \in (1 - base) .. (base - 1)
    BY <2>3, <1>b, QuotientFacts
  <2>c. Remainder(D[k - i], base) >= 0
    BY <2>3, <1>b, QuotientFacts
  <2>5. d[i] = Remainder(D[k - i], base) /\ v[i] = D[k - i] /\ v[i - 1] = D[k - (i - 1)]
    BY <2>1
  <2> HIDE DEF d, v
  <2>6. d[i] \in 0 .. 15 /\ d[i] <= base - 1 /\ d[i] \in Int BY <2>a, <2>c, <2>5, <1>b
  <2>7. digits[i] = Digit(d[i]) BY <1>3
  <2>8. digits[i] = DigitChars[d[i] + 1] BY <2>6, <2>7, DigitsAreChars
  <2>9. v[i] = base * v[i - 1] + d[i] BY <2>2, <2>4, <2>5
  <2>q. QED BY <2>6, <2>8, <2>9
<1>5. v[0] = 0
  <2>1. 0 \in 0 .. k /\ k - 0 = k BY <1>b
  <2>q. QED BY <2>1, <1>z
<1>6. Value(digits, base) = v[k]
  <2> HIDE DEF v, d
  <2>1. \A i \in 1 .. Len(digits) :
          /\ d[i] \in 0 .. 15 /\ digits[i] = DigitChars[d[i] + 1]
          /\ v[i] = base * v[i - 1] + d[i]
    BY <1>2, <1>4
  <2>2. Value(digits, base) = v[Len(digits)]
    <3>1. digits \in Seq(Chars) /\ base \in Nat BY <1>2, <1>b
    <3>2. Worth(digits, base, d, v) BY <2>1, <1>5, Zenon DEF Worth
    <3>q. QED BY <3>1, <3>2, ValueIs
  <2>q. QED BY <1>2, <2>2
<1>7. v[k] = n
  <2>1. k \in 0 .. k /\ k - k = 0 BY <1>b
  <2>q. QED BY <2>1, <1>1
<1>8. \A i \in 1 .. k : \E e \in 1 .. base : digits[i] = DigitChars[e]
  <2> TAKE i \in 1 .. k
  <2> HIDE DEF d
  <2>1. d[i] \in 0 .. 15 /\ d[i] <= base - 1 /\ digits[i] = DigitChars[d[i] + 1] BY <1>4
  <2>2. d[i] + 1 \in 1 .. base BY <2>1, <1>b
  <2>q. QED BY <2>1, <2>2
<1>9. ASSUME k > 0, D[k - 1] # 0 PROVE digits[1] # "0"
  <2>1. 1 \in 1 .. k /\ k - 1 \in 0 .. (Bits - 1) /\ (k - 1) + 1 = k BY <1>9, <1>b
  <2>2. D[k - 1] \in Int /\ D[k - 1] >= 0 BY <1>1, <2>1, <1>b
  <2>3. Quotient(D[k - 1], base) = 0 BY <1>1, <2>1, <1>z
  <2>4. D[k - 1] = base * Quotient(D[k - 1], base) + Remainder(D[k - 1], base)
    BY <2>2, <1>b, QuotientFacts
  <2>5. d[1] = Remainder(D[k - 1], base) BY <2>1
  <2>6. d[1] # 0
    <3>1. base * 0 = 0 BY <1>b
    <3>2. Remainder(D[k - 1], base) \in Int BY <2>2, <1>b, QuotientFacts
    <3>3. Remainder(D[k - 1], base) # 0 BY <1>9, <2>3, <2>4, <3>1, <3>2
    <3>q. QED BY <2>5, <3>3
  <2> HIDE DEF d
  <2>7. digits[1] = DigitChars[d[1] + 1] /\ d[1] \in 0 .. 15 BY <1>4, <2>1
  <2>8. digits[1] # DigitChars[0 + 1]
    <3>1. 0 \in 0 .. 15 OBVIOUS
    <3>q. QED BY <2>6, <2>7, <3>1, DigitsDiffer
  <2>9. DigitChars[0 + 1] = "0"
    <3>1. 0 + 1 = 1 OBVIOUS
    <3>q. QED BY <3>1, DigitsAreChars
  <2>q. QED BY <2>8, <2>9
<1>q. QED BY <1>6, <1>7, <1>8, <1>9 DEF D, digits

\* A word read as an int.
LEMMA SignedFacts ==
  ASSUME NEW u \in 0 .. (Word - 1)
  PROVE  /\ SignedOf(u) \in Int /\ -Word < SignedOf(u) /\ SignedOf(u) < Word
         /\ u < Word \div 2 => SignedOf(u) = u
<1>1. Word \in Nat /\ Word > 0 BY WordCases, BitsCases
<1>2. CASE u >= Word \div 2
  <2>1. SignedOf(u) = u - Word BY <1>2, Zenon DEF SignedOf
  <2>2. u > 0 BY <1>1, <1>2, WordCases, BitsCases
  <2>q. QED BY <1>1, <1>2, <2>1, <2>2
<1>3. CASE ~(u >= Word \div 2)
  <2>1. SignedOf(u) = u BY <1>3, Zenon DEF SignedOf
  <2>q. QED BY <1>1, <1>3, <2>1
<1>q. QED BY <1>2, <1>3

\* "0" as a text.
LEMMA ZeroSaid ==
  /\ <<"0">> \in Seq(Chars) /\ Len(<<"0">>) = 1 /\ IsShortest(<<"0">>)
  /\ \A base \in {2, 10} : Value(<<"0">>, base) = 0 /\ IsNumeral(<<"0">>, base)
<1>0. "0" \in Chars BY DigitsAreChars
<1>1. <<"0">> \in Seq(Chars) /\ Len(<<"0">>) = 1 BY <1>0
<1>2. IsShortest(<<"0">>) BY DEF IsShortest
<1>3. ASSUME NEW base \in {2, 10}
      PROVE  Value(<<"0">>, base) = 0 /\ IsNumeral(<<"0">>, base)
  <2> DEFINE s == <<"0">>
             V == ValueUpTo(s, base)
  <2>1. V = [k \in 0 .. 1 |-> IF k = 0 THEN 0 ELSE base * V[k - 1] + DigitOf(s[k])]
    BY <1>1, ValueSteps
  <2>2. s[1] = "0" /\ s[1] = DigitChars[0 + 1]
    <3>1. 0 + 1 = 1 OBVIOUS
    <3>q. QED BY <3>1, DigitsAreChars
  <2>3. DigitOf(s[1]) = 0
    <3>1. 0 \in 0 .. 15 OBVIOUS
    <3>q. QED BY <2>2, <3>1, DigitOfDigit
  <2> HIDE DEF s, V
  <2>4. V[0] = 0 BY <2>1
  <2>5. V[1] = base * V[0] + DigitOf(s[1])
    <3>1. \A k \in 0 .. 1 : k # 0 => V[k] = base * V[k - 1] + DigitOf(s[k]) BY <2>1
    <3>2. 1 \in 0 .. 1 /\ 1 # 0 /\ 1 - 1 = 0 OBVIOUS
    <3>3. V[1] = base * V[1 - 1] + DigitOf(s[1]) BY <3>1, <3>2
    <3>q. QED BY <3>2, <3>3
  <2>6. V[1] = 0
    <3>1. base * 0 = 0 OBVIOUS
    <3>q. QED BY <2>3, <2>4, <2>5, <3>1
  <2>7. Value(s, base) = 0 BY <1>1, <2>6 DEF Value, V, s
  <2>8. IsNumeral(s, base)
    <3>1. Len(s) = 1 BY <1>1 DEF s
    <3>2. 1 \in 1 .. base OBVIOUS
    <3>3. s[1] = DigitChars[1]
      <4>1. 0 + 1 = 1 OBVIOUS
      <4>q. QED BY <2>2, <4>1
    <3>q. QED BY <3>1, <3>2, <3>3 DEF IsNumeral
  <2>q. QED BY <2>7, <2>8 DEF s
<1>q. QED BY <1>1, <1>2, <1>3

\* The digits of a positive number, all of them, are its shortest numeral.
LEMMA AllDigitsSaid ==
  ASSUME NEW n \in Nat, n > 0, n < Word, NEW base \in {2, 10}
  PROVE  LET digits == LastDigits(n, Divisions(n, base), base)
         IN /\ digits \in Seq(Chars) /\ IsNumeral(digits, base)
            /\ IsShortest(digits) /\ Value(digits, base) = n
<1> DEFINE k == Divisions(n, base)
           D == Divided(n, base)
           digits == LastDigits(n, k, base)
<1>b. base \in Bases /\ Bits \in Nat BY BitsCases DEF Bases
<1>w. -Word < n BY WordCases
<1>1. k \in 0 .. Bits /\ D[k] = 0 /\ \A j \in 0 .. (k - 1) : D[j] # 0
  BY <1>b, <1>w, DivisionsFacts
<1>2. D[0] = n BY <1>b, <1>w, DividedFacts
<1> HIDE DEF k
<1>3. k > 0
  <2> HIDE DEF D
  <2>q. QED BY <1>1, <1>2, <1>b
<1>4. k - 1 \in 0 .. (k - 1) BY <1>1, <1>3, <1>b
<1>5. /\ Value(digits, base) = n
      /\ \A i \in 1 .. k : \E d \in 1 .. base : digits[i] = DigitChars[d]
      /\ digits[1] # "0"
  BY <1>1, <1>3, <1>4, LastDigitsValue
<1>6. digits \in Seq(Chars) /\ Len(digits) = k
  BY <1>1, <1>w, LastDigitsTyped
<1> HIDE DEF digits
<1>7. IsNumeral(digits, base) BY <1>3, <1>5, <1>6 DEF IsNumeral
<1>8. IsShortest(digits) BY <1>5 DEF IsShortest
<1>q. QED BY <1>5, <1>6, <1>7, <1>8 DEF digits, k

\* What the conversions of numbers return is text.
LEMMA NumbersTyped ==
  ASSUME NEW u \in 0 .. (Word - 1)
  PROVE  /\ Int2Char(SignedOf(u)) \in Seq(Chars)
         /\ Uint2Char(u) \in Seq(Chars)
         /\ Binary(SignedOf(u)) \in Seq(Chars)
         /\ BigBinary(SignedOf(u)) \in Seq(Chars)
<1> DEFINE n == SignedOf(u)
<1>1. n \in Int /\ -Word < n /\ n < Word BY SignedFacts
<1>b. 2 \in Bases /\ 10 \in Bases /\ Bits \in Nat BY BitsCases DEF Bases
<1> HIDE DEF n
<1>2. Divisions(n, 2) \in 0 .. Bits /\ Divisions(n, 10) \in 0 .. Bits
  BY <1>1, <1>b, DivisionsFacts
<1>3. -Word < u /\ u < Word /\ u \in Int BY WordCases
<1>4. LastDigits(n, Divisions(n, 10), 10) \in Seq(Chars) BY <1>1, <1>2, LastDigitsTyped
<1>5. LastDigits(u, Divisions(n, 10), 10) \in Seq(Chars) BY <1>2, <1>3, LastDigitsTyped
<1>6. LastDigits(n, Divisions(n, 2), 2) \in Seq(Chars) BY <1>1, <1>2, LastDigitsTyped
<1>7. LastDigits(n, Bits, 2) \in Seq(Chars)
  <2>1. Bits \in 0 .. Bits BY <1>b
  <2>q. QED BY <1>1, <2>1, LastDigitsTyped
<1>8. [i \in 1 .. Bits |-> "0"] \in Seq(Chars)
  <2>1. "0" \in Chars BY DigitsAreChars
  <2>q. QED BY <1>b, <2>1
<1>9. <<"0">> \in Seq(Chars) /\ <<>> \in Seq(Chars) BY ZeroSaid
<1>10. Int2Char(n) \in Seq(Chars) BY <1>4, <1>9, Zenon DEF Int2Char
<1>11. Uint2Char(u) \in Seq(Chars) BY <1>5, <1>9, Zenon DEF Uint2Char, n
<1>12. Binary(n) \in Seq(Chars) BY <1>6, <1>9, Zenon DEF Binary
<1>13. BigBinary(n) \in Seq(Chars) BY <1>7, <1>8, Zenon DEF BigBinary
<1>q. QED BY <1>10, <1>11, <1>12, <1>13 DEF n

\* A number that is no negative int is converted to its numeral.
LEMMA NumbersSaid ==
  ASSUME NEW u \in 0 .. (Word - 1), u < Word \div 2
  PROVE  /\ Says("i", u, Int2Char(SignedOf(u)))
         /\ Says("u", u, Uint2Char(u))
         /\ Says("b", u, Binary(SignedOf(u)))
         /\ Says("B", u, BigBinary(SignedOf(u)))
<1>1. SignedOf(u) = u BY SignedFacts
<1>b. 2 \in Bases /\ 10 \in Bases /\ Bits \in Nat /\ Bits > 1 BY BitsCases DEF Bases
<1>w. u \in Nat /\ u < Word /\ -Word < u BY WordCases
<1>2. CASE u = 0
  <2>1. Int2Char(0) = <<"0">> BY Zenon DEF Int2Char
  <2>2. Uint2Char(0) = <<"0">> BY Zenon DEF Uint2Char
  <2>3. Binary(0) = <<"0">>
    <3>1. ~(0 > 0) /\ Remainder(0, 2) = 0 BY DEF Remainder, Quotient
    <3>q. QED BY <3>1, Zenon DEF Binary
  <2> DEFINE z == [i \in 1 .. Bits |-> "0"]
  <2>4. BigBinary(0) = z
    <3>1. ~(0 > 0) OBVIOUS
    <3>q. QED BY <3>1, Zenon DEF BigBinary
  <2>5. Says("i", 0, <<"0">>) /\ Says("u", 0, <<"0">>) /\ Says("b", 0, <<"0">>)
    BY ZeroSaid DEF Says
  <2>6. z \in Seq(Chars) /\ Len(z) = Bits
    <3>1. "0" \in Chars BY DigitsAreChars
    <3>q. QED BY <1>b, <3>1
  <2>7. Value(z, 2) = 0
    <3> DEFINE v == [i \in 0 .. Bits |-> 0]
    <3>1. v[0] = 0 /\ v[Bits] = 0 BY <1>b
    <3>2. \A i \in 1 .. Len(z) : /\ v[i] \in 0 .. 15 /\ z[i] = DigitChars[v[i] + 1]
                                 /\ v[i] = 2 * v[i - 1] + v[i]
      <4>1. TAKE i \in 1 .. Len(z)
      <4>2. i \in 1 .. Bits /\ i - 1 \in 0 .. Bits /\ i \in 0 .. Bits BY <2>6, <1>b
      <4>3. v[i] = 0 /\ v[i - 1] = 0 /\ z[i] = "0" BY <4>2
      <4>4. 0 + 1 = 1 /\ 2 * 0 + 0 = 0 OBVIOUS
      <4>5. z[i] = DigitChars[v[i] + 1] BY <4>3, <4>4, DigitsAreChars
      <4> HIDE DEF v, z
      <4>q. QED BY <4>3, <4>5
    <3> HIDE DEF v, z
    <3> DEFINE base == 2
    <3>4. Worth(z, base, v, v) /\ base \in Nat BY <3>1, <3>2, Zenon DEF Worth
    <3> HIDE DEF base
    <3>5. Value(z, base) = v[Len(z)] BY <2>6, <3>4, ValueIs
    <3>3. Value(z, 2) = v[Len(z)] BY <3>5 DEF base
    <3>q. QED BY <2>6, <3>1, <3>3
  <2>8. IsNumeral(z, 2)
    <3>1. \A i \in 1 .. Len(z) : z[i] = DigitChars[1] BY <2>6, DigitsAreChars
    <3>2. 1 \in 1 .. 2 OBVIOUS
    <3> HIDE DEF z
    <3>q. QED BY <2>6, <1>b, <3>1, <3>2 DEF IsNumeral
  <2>9. Says("B", 0, z)
    <3> HIDE DEF z
    <3>q. QED BY <2>6, <2>7, <2>8 DEF Says
  <2> HIDE DEF z
  <2>q. QED BY <1>1, <1>2, <2>1, <2>2, <2>3, <2>4, <2>5, <2>9
<1>3. CASE u > 0
  <2> DEFINE ten == LastDigits(u, Divisions(u, 10), 10)
             two == LastDigits(u, Divisions(u, 2), 2)
             big == LastDigits(u, Bits, 2)
  <2>0. u # 0 BY <1>3
  <2>1. Int2Char(u) = ten BY <2>0, Zenon DEF Int2Char
  <2>2. Uint2Char(u) = ten BY <1>1, <2>0, Zenon DEF Uint2Char
  <2>3. Binary(u) = two BY <1>3, Zenon DEF Binary
  <2>4. BigBinary(u) = big BY <1>3, Zenon DEF BigBinary
  <2>5. IsNumeral(ten, 10) /\ IsShortest(ten) /\ Value(ten, 10) = u
    BY <1>3, <1>w, AllDigitsSaid
  <2>6. IsNumeral(two, 2) /\ IsShortest(two) /\ Value(two, 2) = u
    BY <1>3, <1>w, AllDigitsSaid
  <2>7. Bits \in 0 .. Bits /\ Divided(u, 2)[Bits] = 0
    BY <1>b, <1>w, DividedFacts
  <2>8. /\ Value(big, 2) = u
        /\ \A i \in 1 .. Bits : \E d \in 1 .. 2 : big[i] = DigitChars[d]
    BY <1>w, <2>7, LastDigitsValue
  <2>9. Len(big) = Bits BY <1>w, <2>7, LastDigitsTyped
  <2> HIDE DEF ten, two, big
  <2>10. IsNumeral(big, 2) BY <2>8, <2>9, <1>b DEF IsNumeral
  <2>11. Says("i", u, ten) /\ Says("u", u, ten) BY <2>5 DEF Says
  <2>12. Says("b", u, two) BY <2>6 DEF Says
  <2>13. Says("B", u, big) BY <2>8, <2>9, <2>10 DEF Says
  <2>q. QED BY <1>1, <2>1, <2>2, <2>3, <2>4, <2>11, <2>12, <2>13
<1>q. QED BY <1>2, <1>3, <1>w

\* A word is no nearer to 0 as an unsigned number than as an int, at any step
\* of the division.
LEMMA SignedIsNearer ==
  ASSUME NEW u \in 0 .. (Word - 1)
  PROVE  \A k \in 0 .. Bits :
           /\ -Divided(u, 10)[k] <= Divided(SignedOf(u), 10)[k]
           /\ Divided(SignedOf(u), 10)[k] <= Divided(u, 10)[k]
<1> DEFINE n == SignedOf(u)
           D == Divided(u, 10)
           E == Divided(n, 10)
           S == {k \in 0 .. Bits : -D[k] <= E[k] /\ E[k] <= D[k]}
<1>b. 10 \in Bases /\ Bits \in Nat BY BitsCases DEF Bases
<1>1. n \in Int /\ -Word < n /\ n < Word /\ u \in Int /\ -Word < u /\ u < Word /\ u >= 0
  BY SignedFacts, WordCases
<1>2. -u <= n /\ n <= u
  <2>1. CASE u >= Word \div 2
    <3>1. n = u - Word BY <2>1, Zenon DEF SignedOf
    <3>2. Word <= 2 * u BY <2>1, <1>1, WordCases, BitsCases
    <3>q. QED BY <1>1, <3>1, <3>2, WordCases
  <2>2. CASE ~(u >= Word \div 2)
    <3>1. n = u BY <2>2, Zenon DEF SignedOf
    <3>q. QED BY <1>1, <3>1
  <2>q. QED BY <2>1, <2>2
<1> HIDE DEF n
<1>3. /\ D \in [0 .. Bits -> Int] /\ D[0] = u /\ \A k \in 0 .. Bits : D[k] >= 0
      /\ \A k \in 0 .. (Bits - 1) : D[k + 1] = Quotient(D[k], 10)
  BY <1>1, <1>b, DividedFacts
<1>4. /\ E \in [0 .. Bits -> Int] /\ E[0] = n
      /\ \A k \in 0 .. (Bits - 1) : E[k + 1] = Quotient(E[k], 10)
  BY <1>1, <1>b, DividedFacts
<1> HIDE DEF D, E
<1>5. \A a, b \in Int : b >= 0 /\ -b <= a /\ a <= b =>
        -Quotient(b, 10) <= Quotient(a, 10) /\ Quotient(a, 10) <= Quotient(b, 10)
  BY DEF Quotient
<1>6. 0 \in S BY <1>2, <1>3, <1>4, <1>b
<1>7. ASSUME NEW k \in 0 .. (Bits - 1), k \in S PROVE k + 1 \in S
  <2>1. k \in 0 .. Bits /\ k + 1 \in 0 .. Bits BY <1>b
  <2>2. D[k] \in Int /\ E[k] \in Int /\ D[k] >= 0 /\ -D[k] <= E[k] /\ E[k] <= D[k]
    BY <1>3, <1>4, <1>7, <2>1
  <2>3. D[k + 1] = Quotient(D[k], 10) /\ E[k + 1] = Quotient(E[k], 10) BY <1>3, <1>4
  <2>4. -Quotient(D[k], 10) <= Quotient(E[k], 10) /\ Quotient(E[k], 10) <= Quotient(D[k], 10)
    BY <1>5, <2>2
  <2>q. QED BY <2>1, <2>3, <2>4
<1>8. \A k \in 0 .. Bits : k \in S
  <2> HIDE DEF S
  <2>q. QED BY <1>6, <1>7, <1>b, BoundedInduction
<1>q. QED BY <1>8 DEF D, E, n

\* Of every word uint2char returns the last digits of the numeral: it counts
\* no more digits than there are, and reads those it counts off the word.
LEMMA UintEnds ==
  ASSUME NEW u \in 0 .. (Word - 1)
  PROVE  EndsNumeral(u, Uint2Char(u))
<1>w. u \in Nat /\ u < Word /\ -Word < u /\ u \in Int BY WordCases
<1>b. 10 \in Bases /\ Bits \in Nat BY BitsCases DEF Bases
<1>1. CASE u = 0
  <2> DEFINE z == <<"0">>
  <2>1. Uint2Char(0) = z BY Zenon DEF Uint2Char
  <2>2. Len(z) = 1 /\ Says("u", 0, z) BY ZeroSaid DEF Says
  <2> DEFINE lost == Len(z) - Len(z)
  <2>3. lost = 0 /\ Len(z) > 0 BY <2>2
  <2>4. /\ Says("u", 0, z) /\ Len(z) > 0 /\ lost >= 0
        /\ z = [i \in 1 .. Len(z) |-> z[lost + i]]
        => EndsNumeral(0, z)
    BY DEF EndsNumeral
  <2> HIDE DEF lost
  <2>5. z = [i \in 1 .. Len(z) |-> z[lost + i]] BY <2>3
  <2> HIDE DEF z
  <2>6. EndsNumeral(0, z)
    <3>1. lost >= 0 BY <2>3
    <3>q. QED BY <2>2, <2>3, <2>4, <2>5, <3>1, Zenon
  <2>q. QED BY <1>1, <2>1, <2>6
<1>2. CASE u # 0
  <2> DEFINE n == SignedOf(u)
             k == Divisions(n, 10)
             m == Divisions(u, 10)
             D == Divided(u, 10)
             chars == LastDigits(u, k, 10)
             full == LastDigits(u, m, 10)
             lost == m - k
  <2>1. n \in Int /\ -Word < n /\ n < Word /\ n # 0
    <3>1. n \in Int /\ -Word < n /\ n < Word BY SignedFacts
    <3>2. n = u \/ n = u - Word BY Zenon DEF SignedOf
    <3>3. u - Word # 0 BY <1>w, WordCases
    <3>q. QED BY <1>2, <3>1, <3>2, <3>3
  <2>2. k \in 0 .. Bits /\ Divided(n, 10)[k] = 0 /\ \A j \in 0 .. (k - 1) : Divided(n, 10)[j] # 0
    BY <1>b, <2>1, DivisionsFacts
  <2>3. m \in 0 .. Bits /\ D[m] = 0 BY <1>b, <1>w, DivisionsFacts
  <2>4. Divided(n, 10)[0] = n /\ Divided(n, 10) \in [0 .. Bits -> Int]
    BY <1>b, <2>1, DividedFacts
  <2>5. -D[m] <= Divided(n, 10)[m] /\ Divided(n, 10)[m] <= D[m] BY <2>3, SignedIsNearer
  <2>6. Says("u", u, full)
    <3>1. IsNumeral(full, 10) /\ IsShortest(full) /\ Value(full, 10) = u
      BY <1>2, <1>w, AllDigitsSaid
    <3> HIDE DEF full
    <3>q. QED BY <3>1 DEF Says
  <2>7. Uint2Char(u) = chars BY <1>2, Zenon DEF Uint2Char
  <2>8. Len(chars) = k /\ Len(full) = m BY <1>b, <1>w, <2>2, <2>3, LastDigitsTyped
  <2>9. /\ chars = [i \in 1 .. k |-> Digit(Remainder(D[k - i], 10))]
        /\ full = [i \in 1 .. m |-> Digit(Remainder(D[m - i], 10))]
    BY DEF LastDigits
  <2>10. EndsNumeral(u, chars) =
           (/\ Says("u", u, full) /\ Len(chars) > 0 /\ Len(full) - Len(chars) >= 0
            /\ chars = [i \in 1 .. Len(chars) |-> full[(Len(full) - Len(chars)) + i]])
    BY <1>2, Zenon DEF EndsNumeral
  <2> HIDE DEF n, k, m, D, chars, full
  <2>11. k > 0 /\ k <= m
    <3>1. k # 0 BY <2>1, <2>2, <2>4
    <3>2. Divided(n, 10)[m] = 0
      <4> DEFINE e == Divided(n, 10)[m]
      <4>1. e \in Int BY <2>3, <2>4
      <4>2. -0 <= e /\ e <= 0 BY <2>3, <2>5
      <4> HIDE DEF e
      <4>3. e = 0 BY <4>1, <4>2
      <4>q. QED BY <4>3 DEF e
    <3>3. ~(m \in 0 .. (k - 1)) BY <2>2, <3>2
    <3>q. QED BY <1>b, <2>2, <2>3, <3>1, <3>3
  <2>12. chars = [i \in 1 .. k |-> full[lost + i]]
    <3>1. ASSUME NEW i \in 1 .. k PROVE full[lost + i] = Digit(Remainder(D[k - i], 10))
      <4>1. lost + i \in 1 .. m /\ m - (lost + i) = k - i BY <1>b, <2>2, <2>3, <2>11
      <4> HIDE DEF lost
      <4>q. QED BY <2>9, <4>1
    <3> HIDE DEF lost
    <3>q. QED BY <2>9, <3>1
  <2>q. QED BY <1>b, <2>2, <2>3, <2>6, <2>7, <2>8, <2>10, <2>11, <2>12
<1>q. QED BY <1>1, <1>2

----------------------------------------------------------------------------
\* Operations and what they print.

Op == [op : {"put"}, at : {0}, char : Chars]
       \cup [op : {"store", "show"}, at : 1 .. 2, char : Chars]

\* Every digit shown has been stored, and nothing else since, at its place.
Backed(ops) ==
  \A i \in 1 .. Len(ops) : ops[i].op = "show" =>
    \E j \in 1 .. (i - 1) :
      /\ ops[j] = Store(ops[i].at, ops[i].char)
      /\ \A m \in (j + 1) .. (i - 1) : ~(ops[m].op = "store" /\ ops[m].at = ops[i].at)

\* Nothing of it goes by way of the literal.
OnlyPuts(ops) == \A i \in 1 .. Len(ops) : ops[i].op = "put"

\* The function that CharactersUpTo names.
LEMMA CharactersSteps ==
  ASSUME NEW ops \in Seq(Op)
  PROVE  LET C == CharactersUpTo(ops)
         IN /\ C \in [0 .. Len(ops) -> Seq(Chars)]
            /\ C[0] = <<>>
            /\ \A n \in 1 .. Len(ops) :
                 C[n] = IF ops[n].op = "store" THEN C[n - 1] ELSE Append(C[n - 1], ops[n].char)
<1> DEFINE E(m, f) == f = [n \in 0 .. m |-> IF n = 0 THEN <<>>
                             ELSE IF ops[n].op = "store" THEN f[n - 1]
                             ELSE Append(f[n - 1], ops[n].char)]
           T == {m \in Nat : \E f : E(m, f)}
<1>1. 0 \in T
  <2>1. E(0, [k \in 0 .. 0 |-> <<>>]) OBVIOUS
  <2>q. QED BY <2>1
<1>2. ASSUME NEW m \in Nat, m \in T PROVE m + 1 \in T
  <2>1. PICK f : E(m, f) BY <1>2
  <2> DEFINE g == [k \in 0 .. (m + 1) |-> IF k = m + 1
                     THEN IF ops[m + 1].op = "store" THEN f[m]
                          ELSE Append(f[m], ops[m + 1].char)
                     ELSE f[k]]
  <2>2. E(m + 1, g)
    <3>1. SUFFICES ASSUME NEW k \in 0 .. (m + 1)
                   PROVE  g[k] = IF k = 0 THEN <<>>
                                 ELSE IF ops[k].op = "store" THEN g[k - 1]
                                 ELSE Append(g[k - 1], ops[k].char)
      OBVIOUS
    <3>2. CASE k = m + 1
      <4>1. g[k] = IF ops[k].op = "store" THEN f[m] ELSE Append(f[m], ops[k].char)
        BY <3>2
      <4>2. k # 0 /\ k - 1 = m /\ m \in 0 .. (m + 1) /\ m # m + 1 BY <3>2
      <4>3. g[k - 1] = f[m] BY <4>2
      <4> HIDE DEF g
      <4>q. QED BY <4>1, <4>2, <4>3, Zenon
    <3>3. CASE k # m + 1
      <4>1. k \in 0 .. m BY <3>3
      <4>2. g[k] = f[k] BY <3>3
      <4>3. k # 0 => k - 1 \in 0 .. (m + 1) /\ k - 1 # m + 1 BY <4>1
      <4>4. k # 0 => g[k - 1] = f[k - 1] BY <4>3
      <4>5. f[k] = IF k = 0 THEN <<>> ELSE IF ops[k].op = "store" THEN f[k - 1]
                   ELSE Append(f[k - 1], ops[k].char)
        BY <2>1, <4>1
      <4> HIDE DEF g
      <4>q. QED BY <4>2, <4>4, <4>5, Zenon
    <3>q. QED BY <3>2, <3>3
  <2>3. \E h : E(m + 1, h)
    <3> HIDE DEF E, g
    <3>q. QED BY <2>2
  <2> HIDE DEF E
  <2>q. QED BY <2>3
<1>3. Len(ops) \in T
  <2> HIDE DEF T
  <2>q. QED BY <1>1, <1>2, SetInduction
<1>4. \E f : E(Len(ops), f) BY <1>3
<1> DEFINE C == CharactersUpTo(ops)
<1>5. E(Len(ops), C)
  <2>1. E(Len(ops), CHOOSE f : E(Len(ops), f))
    <3> HIDE DEF E
    <3>q. QED BY <1>4
  <2>2. C = CHOOSE f : E(Len(ops), f) BY DEF CharactersUpTo
  <2>q. QED BY <2>1, <2>2
<1> HIDE DEF C
<1>l. Len(ops) \in Nat OBVIOUS
<1>6. C[0] = <<>> BY <1>5, <1>l
<1>7. \A n \in 1 .. Len(ops) :
        C[n] = IF ops[n].op = "store" THEN C[n - 1] ELSE Append(C[n - 1], ops[n].char)
  <2>1. TAKE n \in 1 .. Len(ops)
  <2>2. n \in 0 .. Len(ops) /\ n # 0 BY <1>l
  <2>3. C[n] = IF n = 0 THEN <<>> ELSE IF ops[n].op = "store" THEN C[n - 1]
               ELSE Append(C[n - 1], ops[n].char)
    BY <1>5, <2>2
  <2>q. QED BY <2>2, <2>3, Zenon
<1> DEFINE S == {n \in 0 .. Len(ops) : C[n] \in Seq(Chars)}
<1>8. 0 \in S
  <2>1. <<>> \in Seq(Chars) /\ 0 \in 0 .. Len(ops) BY <1>l
  <2>q. QED BY <1>6, <2>1, Zenon
<1>9. ASSUME NEW n \in 0 .. (Len(ops) - 1), n \in S PROVE n + 1 \in S
  <2>1. n + 1 \in 1 .. Len(ops) /\ n + 1 \in 0 .. Len(ops) /\ (n + 1) - 1 = n BY <1>l
  <2>2. C[n + 1] = IF ops[n + 1].op = "store" THEN C[n] ELSE Append(C[n], ops[n + 1].char)
    BY <1>7, <2>1
  <2>3. ops[n + 1] \in Op BY <2>1
  <2>4. ops[n + 1].char \in Chars BY <2>3 DEF Op
  <2>5. C[n] \in Seq(Chars) BY <1>9
  <2>6. Append(C[n], ops[n + 1].char) \in Seq(Chars) BY <2>4, <2>5
  <2>7. C[n + 1] \in Seq(Chars) BY <2>2, <2>5, <2>6, Zenon
  <2>q. QED BY <2>1, <2>7
<1>10. \A n \in 0 .. Len(ops) : n \in S
  <2> HIDE DEF S
  <2>q. QED BY <1>8, <1>9, <1>l, BoundedInduction
<1>11. C \in [0 .. Len(ops) -> Seq(Chars)] BY <1>5, <1>10
<1>q. QED BY <1>6, <1>7, <1>11 DEF C

\* print's characters.
LEMMA PutsFacts ==
  ASSUME NEW chars \in Seq(Chars)
  PROVE  /\ Puts(chars) \in Seq(Op) /\ Len(Puts(chars)) = Len(chars)
         /\ Backed(Puts(chars)) /\ OnlyPuts(Puts(chars))
         /\ Characters(Puts(chars)) = chars
<1> DEFINE ops == Puts(chars)
           C == CharactersUpTo(ops)
<1>l. Len(chars) \in Nat OBVIOUS
<1>1. ops = [i \in 1 .. Len(chars) |-> Put(chars[i])] BY DEF Puts
<1>2. \A i \in 1 .. Len(chars) : /\ Put(chars[i]) \in Op /\ Put(chars[i]).op = "put"
                                 /\ Put(chars[i]).char = chars[i]
  <2>1. TAKE i \in 1 .. Len(chars)
  <2>2. chars[i] \in Chars OBVIOUS
  <2>q. QED BY <2>2 DEF Put, Op
<1> HIDE DEF ops
<1>3. ops \in Seq(Op) /\ Len(ops) = Len(chars) BY <1>1, <1>2, <1>l
<1>4. \A i \in 1 .. Len(ops) : ops[i].op = "put" /\ ops[i].char = chars[i] BY <1>1, <1>2, <1>3
<1>5. Backed(ops) /\ OnlyPuts(ops) BY <1>4 DEF Backed, OnlyPuts
<1>6. /\ C \in [0 .. Len(ops) -> Seq(Chars)] /\ C[0] = <<>>
      /\ \A n \in 1 .. Len(ops) :
           C[n] = IF ops[n].op = "store" THEN C[n - 1] ELSE Append(C[n - 1], ops[n].char)
  BY <1>3, CharactersSteps
<1> HIDE DEF C
<1> DEFINE S == {n \in 0 .. Len(ops) : C[n] = SubSeq(chars, 1, n)}
<1>7. 0 \in S BY <1>3, <1>6, <1>l
<1>8. ASSUME NEW n \in 0 .. (Len(ops) - 1), n \in S PROVE n + 1 \in S
  <2>1. n + 1 \in 1 .. Len(ops) /\ n + 1 \in 0 .. Len(ops) /\ (n + 1) - 1 = n BY <1>3, <1>l
  <2>2. C[n + 1] = IF ops[n + 1].op = "store" THEN C[(n + 1) - 1]
                   ELSE Append(C[(n + 1) - 1], ops[n + 1].char)
    BY <1>6, <2>1
  <2>3. C[n + 1] = Append(C[n], chars[n + 1]) BY <1>4, <2>1, <2>2
  <2>4. C[n] = SubSeq(chars, 1, n) BY <1>8
  <2>5. Append(SubSeq(chars, 1, n), chars[n + 1]) = SubSeq(chars, 1, n + 1)
    BY <1>3, <1>l, <2>1
  <2>q. QED BY <2>1, <2>3, <2>4, <2>5
<1>9. \A n \in 0 .. Len(ops) : n \in S
  <2>1. Len(ops) \in Nat BY <1>3
  <2> HIDE DEF S
  <2>q. QED BY <1>7, <1>8, <2>1, BoundedInduction
<1>10. C[Len(ops)] = SubSeq(chars, 1, Len(chars)) BY <1>9, <1>3, <1>l
<1>11. C[Len(ops)] = chars BY <1>10, <1>l
<1>q. QED BY <1>3, <1>5, <1>11 DEF ops, C, Characters

\* printfHex.
LEMMA HexFacts ==
  ASSUME NEW byte \in 0 .. 255
  PROVE  LET high == DigitChars[(byte \div 16) + 1]
             low == DigitChars[(byte % 16) + 1]
             ops == Hex(byte)
         IN /\ high \in Chars /\ low \in Chars
            /\ ops \in Seq(Op) /\ Len(ops) = 4
            /\ ops[1] = Store(1, high) /\ ops[2] = Store(2, low)
            /\ ops[3] = Show(1, high) /\ ops[4] = Show(2, low)
<1> DEFINE high == DigitChars[(byte \div 16) + 1]
           low == DigitChars[(byte % 16) + 1]
<1>1. byte \div 16 \in 0 .. 15 /\ byte % 16 \in 0 .. 15 OBVIOUS
<1>2. high \in Chars /\ low \in Chars BY <1>1, DigitsAreChars
<1>3. Hex(byte) = <<Store(1, high), Store(2, low), Show(1, high), Show(2, low)>>
  BY DEF Hex
<1> HIDE DEF high, low
<1>4. /\ Store(1, high) \in Op /\ Store(2, low) \in Op
      /\ Show(1, high) \in Op /\ Show(2, low) \in Op
  BY <1>2 DEF Op, Store, Show
<1>5. Hex(byte) \in Seq(Op) /\ Len(Hex(byte)) = 4 BY <1>3, <1>4
<1>6. /\ Hex(byte)[1] = Store(1, high) /\ Hex(byte)[2] = Store(2, low)
      /\ Hex(byte)[3] = Show(1, high) /\ Hex(byte)[4] = Show(2, low)
  BY <1>3
<1>q. QED BY <1>2, <1>5, <1>6 DEF high, low

\* A word divided into bytes: after Bits \div 8 divisions nothing is left.
LEMMA BytesFacts ==
  ASSUME NEW u \in 0 .. (Word - 1)
  PROVE  LET D == Divided(u, 256)
             bytes == Bits \div 8
         IN /\ bytes \in 1 .. 4 /\ bytes <= Bits /\ Bits \div 4 = 2 * bytes
            /\ D[0] = u /\ D[bytes] = 0
            /\ \A k \in 0 .. bytes : D[k] \in Nat
            /\ \A k \in 0 .. (bytes - 1) : D[k + 1] = D[k] \div 256
<1> DEFINE D == Divided(u, 256)
           bytes == Bits \div 8
<1>1. bytes \in 1 .. 4 /\ bytes <= Bits /\ Bits \div 4 = 2 * bytes /\ Bits = 8 * bytes
  BY BitsCases
<1>2. /\ D \in [0 .. Bits -> Int] /\ D[0] = u
      /\ \A k \in 0 .. (Bits - 1) : D[k + 1] = Quotient(D[k], 256)
      /\ \A k \in 0 .. Bits : D[k] >= 0
  <2>1. 256 \in Bases /\ u \in Int /\ -Word < u /\ u < Word BY WordCases DEF Bases
  <2>2. u >= 0 BY WordCases
  <2>q. QED BY <2>1, <2>2, DividedFacts
<1> HIDE DEF D
<1>3. \A k \in 0 .. bytes : D[k] \in Nat BY <1>1, <1>2
<1>4. \A k \in 0 .. (bytes - 1) : D[k + 1] = D[k] \div 256
  <2>1. TAKE k \in 0 .. (bytes - 1)
  <2>2. k \in 0 .. (Bits - 1) /\ k \in 0 .. bytes BY <1>1
  <2>3. D[k + 1] = Quotient(D[k], 256) /\ D[k] \in Nat BY <1>2, <1>3, <2>2
  <2>q. QED BY <2>3 DEF Quotient
<1>5. D[bytes] = 0
  <2>1. D[0] \in 0 .. (Word - 1) BY <1>2
  <2>2. D[0 + 1] = D[0] \div 256 BY <1>1, <1>4
  <2>3. bytes > 1 => D[1 + 1] = D[1] \div 256 BY <1>1, <1>4
  <2>4. bytes > 2 => D[2 + 1] = D[2] \div 256 BY <1>1, <1>4
  <2>5. bytes > 3 => D[3 + 1] = D[3] \div 256 BY <1>1, <1>4
  <2> HIDE DEF bytes
  <2>6. 0 + 1 = 1 /\ 1 + 1 = 2 /\ 2 + 1 = 3 /\ 3 + 1 = 4 OBVIOUS
  <2>a. \A x \in Nat : /\ (x < 256 => x \div 256 = 0)
                      /\ (x < 65536 => x \div 256 < 256)
                      /\ (x < 16777216 => x \div 256 < 65536)
                      /\ (x < 4294967296 => x \div 256 < 16777216)
    BY SMT
  <2>b. D[0] \in Nat /\ D[0] < Word BY <2>1, WordCases
  <2>7. CASE bytes = 1
    <3>1. D[0] < 256 BY <1>1, <2>7, <2>b, WordCases, SMT
    <3>q. QED BY <2>2, <2>6, <2>7, <2>a, <2>b, <3>1, SMT
  <2>8. CASE bytes = 2
    <3>1. D[0] < 65536 BY <1>1, <2>8, <2>b, WordCases, SMT
    <3>2. D[1] = D[0] \div 256 /\ D[2] = D[1] \div 256 BY <2>2, <2>3, <2>6, <2>8, SMT
    <3>3. D[1] \in Nat /\ D[2] \in Nat BY <1>3, <2>8
    <3>4. D[1] < 256 BY <2>a, <2>b, <3>1, <3>2, SMT
    <3>q. QED BY <2>8, <2>a, <3>2, <3>3, <3>4, SMT
  <2>9. CASE bytes = 3
    <3>1. D[0] < 16777216 BY <1>1, <2>9, <2>b, WordCases, SMT
    <3>2. D[1] = D[0] \div 256 /\ D[2] = D[1] \div 256 /\ D[3] = D[2] \div 256
      BY <2>2, <2>3, <2>4, <2>6, <2>9, SMT
    <3>3. D[1] \in Nat /\ D[2] \in Nat BY <1>3, <2>9
    <3>4. D[1] < 65536 BY <2>a, <2>b, <3>1, <3>2, SMT
    <3>5. D[2] < 256 BY <2>a, <3>2, <3>3, <3>4, SMT
    <3>q. QED BY <2>9, <2>a, <3>2, <3>3, <3>5, SMT
  <2>10. CASE bytes = 4
    <3>1. D[0] < 4294967296 BY <1>1, <2>10, <2>b, WordCases, SMT
    <3>2. /\ D[1] = D[0] \div 256 /\ D[2] = D[1] \div 256
          /\ D[3] = D[2] \div 256 /\ D[4] = D[3] \div 256
      BY <2>2, <2>3, <2>4, <2>5, <2>6, <2>10, SMT
    <3>3. D[1] \in Nat /\ D[2] \in Nat /\ D[3] \in Nat BY <1>3, <2>10
    <3>4. D[1] < 16777216 BY <2>a, <2>b, <3>1, <3>2, SMT
    <3>5. D[2] < 65536 BY <2>a, <3>2, <3>3, <3>4, SMT
    <3>6. D[3] < 256 BY <2>a, <3>2, <3>3, <3>5, SMT
    <3>q. QED BY <2>10, <2>a, <3>2, <3>3, <3>6, SMT
  <2>q. QED BY <1>1, <2>7, <2>8, <2>9, <2>10
<1>q. QED BY <1>1, <1>2, <1>3, <1>4, <1>5 DEF D

\* printfHex32: four operations a byte, the highest first; D[k] is what k
\* divisions leave of the number.
FourEach(ops, D, bytes) ==
  /\ ops \in Seq(Op) /\ Len(ops) = 4 * bytes
  /\ \A k \in 1 .. bytes :
       /\ D[bytes - k] % 256 \in 0 .. 255
       /\ ops[4 * k - 3] = Hex(D[bytes - k] % 256)[1]
       /\ ops[4 * k - 2] = Hex(D[bytes - k] % 256)[2]
       /\ ops[4 * k - 1] = Hex(D[bytes - k] % 256)[3]
       /\ ops[4 * k] = Hex(D[bytes - k] % 256)[4]

LEMMA Hex32At ==
  ASSUME NEW u \in 0 .. (Word - 1)
  PROVE  FourEach(Hex32(u), Divided(u, 256), Bits \div 8)
<1> DEFINE bytes == Bits \div 8
           D == Divided(u, 256)
           byte(k) == D[bytes - k] % 256
           ops == Hex32(u)
<1>1. bytes \in 1 .. 4 /\ \A k \in 0 .. bytes : D[k] \in Nat BY BytesFacts
<1>2. ops = [i \in 1 .. (4 * bytes) |-> Hex(byte((i + 3) \div 4))[((i - 1) % 4) + 1]]
  BY DEF Hex32
<1> HIDE DEF bytes, D, ops
<1>3. \A k \in 1 .. bytes : byte(k) \in 0 .. 255
  <2>1. TAKE k \in 1 .. bytes
  <2>2. bytes - k \in 0 .. bytes BY <1>1
  <2>q. QED BY <1>1, <2>2
<1> HIDE DEF byte
<1>4. \A i \in 1 .. (4 * bytes) :
        Hex(byte((i + 3) \div 4))[((i - 1) % 4) + 1] \in Op
  <2>1. TAKE i \in 1 .. (4 * bytes)
  <2>2. (i + 3) \div 4 \in 1 .. bytes /\ ((i - 1) % 4) + 1 \in 1 .. 4 BY <1>1
  <2>3. byte((i + 3) \div 4) \in 0 .. 255 BY <1>3, <2>2
  <2>4. Hex(byte((i + 3) \div 4)) \in Seq(Op) /\ Len(Hex(byte((i + 3) \div 4))) = 4
    BY <2>3, HexFacts
  <2>q. QED BY <2>2, <2>4
<1>5. ops \in Seq(Op) /\ Len(ops) = 4 * bytes
  <2>1. 4 * bytes \in Nat BY <1>1
  <2>q. QED BY <1>2, <1>4, <2>1
<1>6. ASSUME NEW k \in 1 .. bytes, NEW r \in 1 .. 4
      PROVE  ops[4 * k - 4 + r] = Hex(byte(k))[r]
  <2>1. 4 * k - 4 + r \in 1 .. (4 * bytes) BY <1>1
  <2>2. ((4 * k - 4 + r) + 3) \div 4 = k /\ (((4 * k - 4 + r) - 1) % 4) + 1 = r BY <1>1
  <2>q. QED BY <1>2, <2>1, <2>2
<1>7. ASSUME NEW k \in 1 .. bytes
      PROVE  /\ byte(k) \in 0 .. 255
             /\ ops[4 * k - 3] = Hex(byte(k))[1] /\ ops[4 * k - 2] = Hex(byte(k))[2]
             /\ ops[4 * k - 1] = Hex(byte(k))[3] /\ ops[4 * k] = Hex(byte(k))[4]
  <2>1. /\ 4 * k - 4 + 1 = 4 * k - 3 /\ 4 * k - 4 + 2 = 4 * k - 2
        /\ 4 * k - 4 + 3 = 4 * k - 1 /\ 4 * k - 4 + 4 = 4 * k
    BY <1>1
  <2>2. 1 \in 1 .. 4 /\ 2 \in 1 .. 4 /\ 3 \in 1 .. 4 /\ 4 \in 1 .. 4 OBVIOUS
  <2>3. ops[4 * k - 4 + 1] = Hex(byte(k))[1] /\ ops[4 * k - 4 + 2] = Hex(byte(k))[2]
    BY <1>6, <2>2
  <2>4. ops[4 * k - 4 + 3] = Hex(byte(k))[3] /\ ops[4 * k - 4 + 4] = Hex(byte(k))[4]
    BY <1>6, <2>2
  <2>q. QED BY <1>3, <2>1, <2>3, <2>4
<1>8. FourEach(ops, D, bytes)
  <2>1. \A k \in 1 .. bytes :
          /\ byte(k) \in 0 .. 255
          /\ ops[4 * k - 3] = Hex(byte(k))[1] /\ ops[4 * k - 2] = Hex(byte(k))[2]
          /\ ops[4 * k - 1] = Hex(byte(k))[3] /\ ops[4 * k] = Hex(byte(k))[4]
    BY <1>7
  <2>q. QED BY <1>5, <2>1 DEF byte, FourEach
<1>q. QED BY <1>8 DEF bytes, D, ops

\* The operations of hexadecimal output, a number of bytes.
HexOps(ops, byte, bytes) ==
  /\ Len(ops) = 4 * bytes
  /\ \A k \in 1 .. bytes :
       /\ byte[k] \in 0 .. 255
       /\ ops[4 * k - 3] = Hex(byte[k])[1] /\ ops[4 * k - 2] = Hex(byte[k])[2]
       /\ ops[4 * k - 1] = Hex(byte[k])[3] /\ ops[4 * k] = Hex(byte[k])[4]

\* Their digits.
TwoDigitsEach(chars, byte, bytes) ==
  /\ Len(chars) = 2 * bytes
  /\ \A k \in 1 .. bytes : /\ chars[2 * k - 1] = DigitChars[(byte[k] \div 16) + 1]
                            /\ chars[2 * k] = DigitChars[(byte[k] % 16) + 1]

LEMMA HexBacked ==
  ASSUME NEW bytes \in Nat, NEW byte, NEW ops \in Seq(Op), HexOps(ops, byte, bytes)
  PROVE  Backed(ops)
<1>1. ASSUME NEW k \in 1 .. bytes
      PROVE  \E high \in Chars, low \in Chars :
               /\ ops[4 * k - 3] = Store(1, high) /\ ops[4 * k - 2] = Store(2, low)
               /\ ops[4 * k - 1] = Show(1, high) /\ ops[4 * k] = Show(2, low)
  BY HexFacts DEF HexOps
<1>l. Len(ops) = 4 * bytes BY DEF HexOps
<1>2. ASSUME NEW i \in 1 .. Len(ops), ops[i].op = "show"
      PROVE  \E j \in 1 .. (i - 1) :
               /\ ops[j] = Store(ops[i].at, ops[i].char)
               /\ \A m \in (j + 1) .. (i - 1) : ~(ops[m].op = "store" /\ ops[m].at = ops[i].at)
  <2>1. PICK k \in 1 .. bytes : i \in (4 * k - 3) .. (4 * k)
    <3>1. (i + 3) \div 4 \in 1 .. bytes /\ i \in (4 * ((i + 3) \div 4) - 3) .. (4 * ((i + 3) \div 4))
      BY <1>l
    <3>q. QED BY <3>1
  <2>2. PICK high \in Chars, low \in Chars :
               /\ ops[4 * k - 3] = Store(1, high) /\ ops[4 * k - 2] = Store(2, low)
               /\ ops[4 * k - 1] = Show(1, high) /\ ops[4 * k] = Show(2, low)
    BY <1>1
  <2>3. k \in Int /\ k >= 1 OBVIOUS
  <2>4. CASE i = 4 * k - 3 BY <1>2, <2>2, <2>4 DEF Store
  <2>5. CASE i = 4 * k - 2 BY <1>2, <2>2, <2>5 DEF Store
  <2>6. CASE i = 4 * k - 1
    <3>1. 4 * k - 3 \in 1 .. (i - 1) /\ \A m \in (4 * k - 3 + 1) .. (i - 1) : m = 4 * k - 2
      BY <2>3, <2>6
    <3>2. ops[i].at = 1 /\ ops[i].char = high BY <2>2, <2>6 DEF Show
    <3>3. ops[4 * k - 2].at = 2 BY <2>2 DEF Store
    <3>4. ops[4 * k - 3] = Store(ops[i].at, ops[i].char) BY <2>2, <3>2
    <3>5. \A m \in (4 * k - 3 + 1) .. (i - 1) : ~(ops[m].op = "store" /\ ops[m].at = ops[i].at)
      <4>1. ops[4 * k - 2].at # ops[i].at BY <3>2, <3>3
      <4>q. QED BY <3>1, <4>1
    <3>q. QED BY <3>1, <3>4, <3>5
  <2>7. CASE i = 4 * k
    <3>1. 4 * k - 2 \in 1 .. (i - 1) /\ \A m \in (4 * k - 2 + 1) .. (i - 1) : m = 4 * k - 1
      BY <2>3, <2>7
    <3>2. ops[i].at = 2 /\ ops[i].char = low BY <2>2, <2>7 DEF Show
    <3>3. ops[4 * k - 1].op = "show" BY <2>2 DEF Show
    <3>4. ops[4 * k - 2] = Store(ops[i].at, ops[i].char) BY <2>2, <3>2
    <3>5. \A m \in (4 * k - 2 + 1) .. (i - 1) : ~(ops[m].op = "store" /\ ops[m].at = ops[i].at)
      <4>1. "show" # "store" OBVIOUS
      <4>2. ~(ops[4 * k - 1].op = "store") BY <3>3, <4>1
      <4>q. QED BY <3>1, <4>2
    <3>q. QED BY <3>1, <3>4, <3>5
  <2>q. QED BY <2>1, <2>3, <2>4, <2>5, <2>6, <2>7
<1>q. QED BY <1>2 DEF Backed

\* What they print: two digits a byte.
LEMMA HexCharacters ==
  ASSUME NEW bytes \in Nat, NEW byte, NEW ops \in Seq(Op), HexOps(ops, byte, bytes)
  PROVE  LET chars == Characters(ops)
         IN chars \in Seq(Chars) /\ TwoDigitsEach(chars, byte, bytes)
<1> DEFINE C == CharactersUpTo(ops)
           high(k) == DigitChars[(byte[k] \div 16) + 1]
           low(k) == DigitChars[(byte[k] % 16) + 1]
           S == {k \in 0 .. bytes :
                   /\ C[4 * k] \in Seq(Chars) /\ Len(C[4 * k]) = 2 * k
                   /\ \A j \in 1 .. k : C[4 * k][2 * j - 1] = high(j) /\ C[4 * k][2 * j] = low(j)}
<1>1. /\ C \in [0 .. Len(ops) -> Seq(Chars)] /\ C[0] = <<>>
      /\ \A n \in 1 .. Len(ops) :
           C[n] = IF ops[n].op = "store" THEN C[n - 1] ELSE Append(C[n - 1], ops[n].char)
  BY CharactersSteps
<1>l. Len(ops) = 4 * bytes BY DEF HexOps
<1>2. \A k \in 1 .. bytes : high(k) \in Chars /\ low(k) \in Chars BY HexFacts DEF HexOps
<1>3. ASSUME NEW k \in 1 .. bytes
      PROVE  /\ ops[4 * k - 3] = Store(1, high(k)) /\ ops[4 * k - 2] = Store(2, low(k))
             /\ ops[4 * k - 1] = Show(1, high(k)) /\ ops[4 * k] = Show(2, low(k))
  BY HexFacts DEF HexOps
<1> HIDE DEF C, high, low
<1>4. 0 \in S
  <2>1. <<>> \in Seq(Chars) /\ Len(<<>>) = 0 /\ 4 * 0 = 0 /\ 2 * 0 = 0 OBVIOUS
  <2>2. C[4 * 0] \in Seq(Chars) /\ Len(C[4 * 0]) = 2 * 0 BY <1>1, <2>1
  <2>q. QED BY <2>2
<1>5. ASSUME NEW k \in 0 .. (bytes - 1), k \in S PROVE k + 1 \in S
  <2> DEFINE c == C[4 * k]
  <2>1. /\ k + 1 \in 1 .. bytes /\ k + 1 \in 0 .. bytes
        /\ 4 * (k + 1) - 3 \in 1 .. Len(ops) /\ 4 * (k + 1) - 2 \in 1 .. Len(ops)
        /\ 4 * (k + 1) - 1 \in 1 .. Len(ops) /\ 4 * (k + 1) \in 1 .. Len(ops)
        /\ 4 * (k + 1) - 3 - 1 = 4 * k /\ 4 * (k + 1) - 2 - 1 = 4 * (k + 1) - 3
        /\ 4 * (k + 1) - 1 - 1 = 4 * (k + 1) - 2
    BY <1>l
  <2>2. /\ ops[4 * (k + 1) - 3] = Store(1, high(k + 1))
        /\ ops[4 * (k + 1) - 2] = Store(2, low(k + 1))
        /\ ops[4 * (k + 1) - 1] = Show(1, high(k + 1))
        /\ ops[4 * (k + 1)] = Show(2, low(k + 1))
    BY <1>3, <2>1
  <2>3. "show" # "store" OBVIOUS
  <2>4. C[4 * (k + 1) - 3] = c
    <3>1. ops[4 * (k + 1) - 3].op = "store" BY <2>2 DEF Store
    <3>2. C[4 * (k + 1) - 3] = C[4 * (k + 1) - 3 - 1] BY <1>1, <2>1, <3>1
    <3>q. QED BY <2>1, <3>2
  <2>5. C[4 * (k + 1) - 2] = c
    <3>1. ops[4 * (k + 1) - 2].op = "store" BY <2>2 DEF Store
    <3>2. C[4 * (k + 1) - 2] = C[4 * (k + 1) - 2 - 1] BY <1>1, <2>1, <3>1
    <3>q. QED BY <2>1, <2>4, <3>2
  <2>6. C[4 * (k + 1) - 1] = Append(c, high(k + 1))
    <3>1. ops[4 * (k + 1) - 1].op = "show" /\ ops[4 * (k + 1) - 1].char = high(k + 1)
      BY <2>2 DEF Show
    <3>2. C[4 * (k + 1) - 1] = Append(C[4 * (k + 1) - 1 - 1], ops[4 * (k + 1) - 1].char)
      BY <1>1, <2>1, <2>3, <3>1
    <3>q. QED BY <2>1, <2>5, <3>1, <3>2
  <2>7. C[4 * (k + 1)] = Append(Append(c, high(k + 1)), low(k + 1))
    <3>1. ops[4 * (k + 1)].op = "show" /\ ops[4 * (k + 1)].char = low(k + 1)
      BY <2>2 DEF Show
    <3>2. C[4 * (k + 1)] = Append(C[4 * (k + 1) - 1], ops[4 * (k + 1)].char)
      BY <1>1, <2>1, <2>3, <3>1
    <3>q. QED BY <2>6, <3>1, <3>2
  <2>8. /\ c \in Seq(Chars) /\ Len(c) = 2 * k
        /\ \A j \in 1 .. k : c[2 * j - 1] = high(j) /\ c[2 * j] = low(j)
    BY <1>5
  <2>9. high(k + 1) \in Chars /\ low(k + 1) \in Chars BY <1>2, <2>1
  <2> HIDE DEF c
  <2> DEFINE e == Append(Append(c, high(k + 1)), low(k + 1))
  <2> DEFINE f == Append(c, high(k + 1))
  <2>a. c \in Seq(Chars) /\ Len(c) = 2 * k BY <2>8
  <2>b. /\ f \in Seq(Chars) /\ Len(f) = 2 * k + 1 /\ f[2 * k + 1] = high(k + 1)
        /\ \A i \in 1 .. (2 * k) : f[i] = c[i]
    BY <2>a, <2>9, AppendFacts
  <2>c. e = Append(f, low(k + 1)) OBVIOUS
  <2> HIDE DEF e, f
  <2>f. e \in Seq(Chars) /\ Len(e) = Len(f) + 1 BY <2>b, <2>c, <2>9, AppendFacts
  <2>10. e \in Seq(Chars) /\ Len(e) = 2 * (k + 1) BY <2>b, <2>f
  <2>d. 2 * (k + 1) - 1 = 2 * k + 1 /\ 2 * (k + 1) = (2 * k + 1) + 1 OBVIOUS
  <2>e. e[(2 * k + 1) + 1] = low(k + 1) /\ \A i \in 1 .. (2 * k + 1) : e[i] = f[i]
    BY <2>b, <2>c, <2>9, AppendFacts
  <2>11. e[2 * (k + 1) - 1] = high(k + 1) /\ e[2 * (k + 1)] = low(k + 1)
         /\ \A i \in 1 .. (2 * k) : e[i] = c[i]
    BY <2>b, <2>d, <2>e
  <2> HIDE DEF e
  <2>12. \A j \in 1 .. (k + 1) : e[2 * j - 1] = high(j) /\ e[2 * j] = low(j)
    <3>1. TAKE j \in 1 .. (k + 1)
    <3>2. CASE j = k + 1 BY <2>11, <3>2
    <3>3. CASE j # k + 1
      <4>1. j \in 1 .. k /\ 2 * j - 1 \in 1 .. (2 * k) /\ 2 * j \in 1 .. (2 * k) BY <3>3
      <4>q. QED BY <2>8, <2>11, <4>1
    <3>q. QED BY <3>2, <3>3
  <2>q. QED BY <2>1, <2>7, <2>10, <2>12 DEF e
<1>6. bytes \in S
  <2>1. \A k \in 0 .. bytes : k \in S
    <3> HIDE DEF S
    <3>q. QED BY <1>4, <1>5, BoundedInduction
  <2>q. QED BY <2>1
<1>7. C[4 * bytes] = Characters(ops) BY <1>l DEF C, Characters
<1>q. QED BY <1>6, <1>7 DEF high, low, TwoDigitsEach

\* D[k] is what k divisions by 256 leave of D[0], and the bytes, the highest
\* first, are their rests.
DividesToZero(D, byte, bytes) ==
  /\ D[bytes] = 0
  /\ \A k \in 0 .. bytes : D[k] \in Nat
  /\ \A k \in 0 .. (bytes - 1) : D[k + 1] = D[k] \div 256
  /\ \A k \in 1 .. bytes : byte[k] = D[bytes - k] % 256

\* Halves of the last byte of a number.
LEMMA Nibbles ==
  ASSUME NEW x \in Nat
  PROVE  /\ (x % 256) \div 16 \in 0 .. 15 /\ (x % 256) % 16 \in 0 .. 15
         /\ x \div 16 = 16 * (x \div 256) + (x % 256) \div 16
         /\ x = 16 * (x \div 16) + ((x % 256) % 16)
<1> DEFINE q == x \div 256
           b == x % 256
           h == b \div 16
           l == b % 16
<1>1. x = 256 * q + b /\ q \in Nat /\ b \in 0 .. 255 OBVIOUS
<1> HIDE DEF q, b
<1>2. b = 16 * h + l /\ h \in 0 .. 15 /\ l \in 0 .. 15 BY <1>1
<1> HIDE DEF h, l
<1>3. x = 16 * (16 * q + h) + l /\ 16 * q + h \in Nat BY <1>1, <1>2
<1>4. x \div 16 = 16 * q + h BY <1>2, <1>3
<1>5. x = 16 * (x \div 16) + l BY <1>3, <1>4
<1>6. x \div 256 = q /\ x % 256 = b BY DEF q, b
<1>7. b \div 16 = h /\ b % 16 = l BY DEF h, l
<1>8. (x % 256) \div 16 = h /\ (x % 256) % 16 = l BY <1>6, <1>7, Zenon
<1>9. (x % 256) \div 16 \in 0 .. 15 /\ (x % 256) % 16 \in 0 .. 15 BY <1>2, <1>8, Zenon
<1>10. x \div 16 = 16 * (x \div 256) + (x % 256) \div 16 BY <1>4, <1>6, <1>8, Zenon
<1>11. x = 16 * (x \div 16) + ((x % 256) % 16) BY <1>5, <1>8, Zenon
<1>q. QED BY <1>9, <1>10, <1>11, Zenon

\* The number they print, if the bytes are the rests of its divisions.
LEMMA HexValue ==
  ASSUME NEW bytes \in Nat, NEW byte, NEW D, DividesToZero(D, byte, bytes),
         NEW chars \in Seq(Chars), TwoDigitsEach(chars, byte, bytes)
  PROVE  /\ Value(chars, 16) = D[0]
         /\ bytes > 0 => IsNumeral(chars, 16)
<1> DEFINE d == [i \in 1 .. (2 * bytes) |->
                   IF i % 2 = 1 THEN (D[bytes - ((i + 1) \div 2)] % 256) \div 16
                   ELSE (D[bytes - (i \div 2)] % 256) % 16]
           v == [i \in 0 .. (2 * bytes) |->
                   IF i % 2 = 1 THEN D[bytes - ((i + 1) \div 2)] \div 16
                   ELSE D[bytes - (i \div 2)]]
<1>l. Len(chars) = 2 * bytes BY DEF TwoDigitsEach
<1>1. v[0] = 0
  <2>1. 0 \in 0 .. (2 * bytes) /\ 0 % 2 # 1 /\ bytes - (0 \div 2) = bytes OBVIOUS
  <2>2. v[0] = D[bytes] BY <2>1
  <2>q. QED BY <2>2 DEF DividesToZero
<1>2. v[2 * bytes] = D[0]
  <2>1. /\ 2 * bytes \in 0 .. (2 * bytes) /\ (2 * bytes) % 2 # 1
        /\ bytes - ((2 * bytes) \div 2) = 0
    OBVIOUS
  <2>q. QED BY <2>1
<1>3. ASSUME NEW i \in 1 .. (2 * bytes)
      PROVE  /\ d[i] \in 0 .. 15 /\ chars[i] = DigitChars[d[i] + 1]
             /\ v[i] = 16 * v[i - 1] + d[i]
  <2>1. i \in Int /\ i - 1 \in 0 .. (2 * bytes) /\ i \in 0 .. (2 * bytes) OBVIOUS
  <2>2. CASE i % 2 = 1
    <3> DEFINE k == (i + 1) \div 2
    <3>a. k \in 1 .. bytes /\ i = 2 * k - 1 BY <2>2
    <3>b. (i - 1) % 2 # 1 /\ (i - 1) \div 2 = k - 1 BY <2>2
    <3>c. bytes - k \in 0 .. (bytes - 1) /\ (bytes - k) + 1 = bytes - (k - 1) BY <3>a
    <3>1. /\ k \in 1 .. bytes /\ i = 2 * k - 1 /\ (i - 1) % 2 # 1
          /\ (i - 1) \div 2 = k - 1 /\ bytes - k \in 0 .. (bytes - 1)
          /\ (bytes - k) + 1 = bytes - (k - 1)
      BY <3>a, <3>b, <3>c
    <3>2. d[i] = (D[bytes - k] % 256) \div 16 /\ v[i] = D[bytes - k] \div 16 BY <2>1, <2>2
    <3>3. v[i - 1] = D[bytes - (k - 1)] BY <2>1, <3>1
    <3> HIDE DEF d, v, k
    <3>4. D[bytes - k] \in Nat /\ D[(bytes - k) + 1] = D[bytes - k] \div 256
      BY <3>1 DEF DividesToZero
    <3> DEFINE x == D[bytes - k]
    <3>x. x \in Nat BY <3>4
    <3>9. v[i - 1] = x \div 256 BY <3>1, <3>3, <3>4
    <3>e. d[i] = (x % 256) \div 16 /\ v[i] = x \div 16 BY <3>2
    <3> HIDE DEF x
    <3>5. /\ (x % 256) \div 16 \in 0 .. 15
          /\ x \div 16 = 16 * (x \div 256) + (x % 256) \div 16
      BY <3>x, Nibbles
    <3>6. d[i] \in 0 .. 15 BY <3>e, <3>5
    <3>7. v[i] = 16 * v[i - 1] + d[i] BY <3>e, <3>5, <3>9
    <3>w. byte[k] = D[bytes - k] % 256 BY <3>1 DEF DividesToZero
    <3>v. chars[2 * k - 1] = DigitChars[(byte[k] \div 16) + 1] BY <3>1 DEF TwoDigitsEach
    <3>8. chars[i] = DigitChars[d[i] + 1] BY <3>1, <3>2, <3>v, <3>w, Zenon
    <3>q. QED BY <3>6, <3>7, <3>8
  <2>3. CASE i % 2 # 1
    <3> DEFINE k == i \div 2
    <3>1. /\ k \in 1 .. bytes /\ i = 2 * k /\ (i - 1) % 2 = 1
          /\ ((i - 1) + 1) \div 2 = k /\ bytes - k \in 0 .. bytes
      BY <2>3
    <3>2. d[i] = (D[bytes - k] % 256) % 16 /\ v[i] = D[bytes - k] BY <2>1, <2>3
    <3>3. v[i - 1] = D[bytes - k] \div 16 BY <2>1, <3>1
    <3> HIDE DEF d, v, k
    <3>4. D[bytes - k] \in Nat BY <3>1 DEF DividesToZero
    <3> DEFINE x == D[bytes - k]
    <3>x. x \in Nat BY <3>4
    <3>e. d[i] = (x % 256) % 16 /\ v[i] = x /\ v[i - 1] = x \div 16 BY <3>2, <3>3
    <3> HIDE DEF x
    <3>5. /\ (x % 256) % 16 \in 0 .. 15
          /\ x = 16 * (x \div 16) + ((x % 256) % 16)
      BY <3>x, Nibbles
    <3>6. d[i] \in 0 .. 15 BY <3>e, <3>5
    <3>7. v[i] = 16 * v[i - 1] + d[i] BY <3>e, <3>5
    <3>w. byte[k] = D[bytes - k] % 256 BY <3>1 DEF DividesToZero
    <3>v. chars[2 * k] = DigitChars[(byte[k] % 16) + 1] BY <3>1 DEF TwoDigitsEach
    <3>8. chars[i] = DigitChars[d[i] + 1] BY <3>1, <3>2, <3>v, <3>w, Zenon
    <3>q. QED BY <3>6, <3>7, <3>8
  <2>q. QED BY <2>2, <2>3
<1> HIDE DEF d, v
<1>4. Value(chars, 16) = v[Len(chars)]
  <2> DEFINE base == 16
  <2>1. \A i \in 1 .. Len(chars) : /\ d[i] \in 0 .. 15 /\ chars[i] = DigitChars[d[i] + 1]
                                   /\ v[i] = base * v[i - 1] + d[i]
    BY <1>3, <1>l
  <2>2. base \in Nat OBVIOUS
  <2> HIDE DEF base
  <2>4. Worth(chars, base, d, v) BY <1>1, <2>1, Zenon DEF Worth
  <2>3. Value(chars, base) = v[Len(chars)] BY <2>2, <2>4, ValueIs
  <2>q. QED BY <2>3 DEF base
<1>5. ASSUME bytes > 0 PROVE IsNumeral(chars, 16)
  <2>1. ASSUME NEW i \in 1 .. Len(chars) PROVE \E e \in 1 .. 16 : chars[i] = DigitChars[e]
    <3>1. d[i] \in 0 .. 15 /\ chars[i] = DigitChars[d[i] + 1] BY <1>3, <1>l
    <3>3. d[i] \in 0 .. 15 BY <3>1
    <3>2. d[i] + 1 \in 1 .. 16 BY <3>3
    <3>q. QED BY <3>1, <3>2
  <2>2. Len(chars) > 0 BY <1>5, <1>l
  <2>q. QED BY <2>1, <2>2 DEF IsNumeral
<1>q. QED BY <1>2, <1>4, <1>5, <1>l

\* Hexadecimal output of a byte and of a word: its operations, its digits.
LEMMA HexSaid ==
  ASSUME NEW u \in 0 .. (Word - 1)
  PROVE  /\ Hex(u % 256) \in Seq(Op) /\ Backed(Hex(u % 256))
         /\ Says("x", u, Characters(Hex(u % 256)))
<1> DEFINE b == u % 256
           D == [k \in 0 .. 1 |-> IF k = 0 THEN b ELSE 0]
           byte == [k \in 1 .. 1 |-> b]
           ops == Hex(b)
           chars == Characters(ops)
<1>1. b \in 0 .. 255
  <2>1. u \in Nat BY WordCases
  <2>q. QED BY <2>1
<1> HIDE DEF b
<1>2. ops \in Seq(Op) /\ Len(ops) = 4 BY <1>1, HexFacts
<1>3. HexOps(ops, byte, 1)
  <2>1. 4 * 1 - 3 = 1 /\ 4 * 1 - 2 = 2 /\ 4 * 1 - 1 = 3 /\ 4 * 1 = 4 OBVIOUS
  <2>2. byte[1] = b /\ \A k \in 1 .. 1 : k = 1 OBVIOUS
  <2>3. ASSUME NEW k \in 1 .. 1
        PROVE  /\ byte[k] \in 0 .. 255
               /\ ops[4 * k - 3] = Hex(byte[k])[1] /\ ops[4 * k - 2] = Hex(byte[k])[2]
               /\ ops[4 * k - 1] = Hex(byte[k])[3] /\ ops[4 * k] = Hex(byte[k])[4]
    <3>1. k = 1 BY <2>2
    <3>2. byte[k] = b BY <2>2, <3>1
    <3>3. 4 * k - 3 = 1 /\ 4 * k - 2 = 2 /\ 4 * k - 1 = 3 /\ 4 * k = 4 BY <3>1
    <3> HIDE DEF byte
    <3>4. ops = Hex(byte[k]) BY <3>2, Zenon
    <3>5. byte[k] \in 0 .. 255 BY <3>2, <1>1
    <3> HIDE DEF ops
    <3>q. QED BY <3>3, <3>4, <3>5, Zenon
  <2> HIDE DEF byte, ops
  <2>q. QED BY <1>2, <2>1, <2>3, Zenon DEF HexOps
<1>d. b % 256 = b /\ b \div 256 = 0 BY <1>1
<1>4. D[0] = b /\ D[1] = 0 /\ byte[1] = b OBVIOUS
<1> HIDE DEF byte, ops, D
<1>5. 1 \in Nat OBVIOUS
<1>6. Backed(ops) BY <1>2, <1>3, <1>5, HexBacked
<1>7. chars \in Seq(Chars) /\ TwoDigitsEach(chars, byte, 1)
  BY <1>2, <1>3, <1>5, HexCharacters
<1> HIDE DEF chars
<1>9. DividesToZero(D, byte, 1)
  <2>1. \A k \in 0 .. 1 : D[k] \in Nat BY <1>1, <1>4
  <2>2. \A k \in 0 .. (1 - 1) : D[k + 1] = D[k] \div 256
    <3>1. \A k \in 0 .. (1 - 1) : k = 0 /\ k + 1 = 1 OBVIOUS
    <3>q. QED BY <1>4, <1>d, <3>1
  <2>3. \A k \in 1 .. 1 : byte[k] = D[1 - k] % 256
    <3>1. \A k \in 1 .. 1 : k = 1 /\ 1 - k = 0 OBVIOUS
    <3>q. QED BY <1>4, <1>d, <3>1
  <2>q. QED BY <1>4, <2>1, <2>2, <2>3 DEF DividesToZero
<1>10. Value(chars, 16) = b /\ IsNumeral(chars, 16) /\ Len(chars) = 2
  <2>1. 1 > 0 /\ 2 * 1 = 2 OBVIOUS
  <2>2. Value(chars, 16) = D[0] /\ (1 > 0 => IsNumeral(chars, 16))
    BY <1>5, <1>7, <1>9, HexValue, Zenon
  <2>3. Len(chars) = 2 * 1 BY <1>7 DEF TwoDigitsEach
  <2>q. QED BY <1>4, <2>1, <2>2, <2>3
<1>11. Says("x", u, chars) BY <1>10 DEF Says, b
<1>q. QED BY <1>2, <1>6, <1>11 DEF chars, ops, b

LEMMA Hex32Said ==
  ASSUME NEW u \in 0 .. (Word - 1)
  PROVE  /\ Hex32(u) \in Seq(Op) /\ Backed(Hex32(u))
         /\ Says("X", u, Characters(Hex32(u)))
<1> DEFINE bytes == Bits \div 8
           D == Divided(u, 256)
           byte == [k \in 1 .. bytes |-> D[bytes - k] % 256]
           ops == Hex32(u)
           chars == Characters(ops)
<1>0. FourEach(ops, D, bytes) BY Hex32At, Zenon
<1>1. /\ bytes \in 1 .. 4 /\ Bits \div 4 = 2 * bytes /\ D[0] = u
      /\ D[bytes] = 0
      /\ \A k \in 0 .. bytes : D[k] \in Nat
      /\ \A k \in 0 .. (bytes - 1) : D[k + 1] = D[k] \div 256
  BY BytesFacts
<1>3. \A k \in 1 .. bytes : byte[k] = D[bytes - k] % 256 OBVIOUS
<1> HIDE DEF bytes, byte, ops, D
<1>2. /\ ops \in Seq(Op) /\ Len(ops) = 4 * bytes
      /\ \A k \in 1 .. bytes :
           /\ D[bytes - k] % 256 \in 0 .. 255
           /\ ops[4 * k - 3] = Hex(D[bytes - k] % 256)[1]
           /\ ops[4 * k - 2] = Hex(D[bytes - k] % 256)[2]
           /\ ops[4 * k - 1] = Hex(D[bytes - k] % 256)[3]
           /\ ops[4 * k] = Hex(D[bytes - k] % 256)[4]
  BY <1>0, Zenon DEF FourEach
<1>4. HexOps(ops, byte, bytes)
  <2>1. ASSUME NEW k \in 1 .. bytes
        PROVE  /\ byte[k] \in 0 .. 255
               /\ ops[4 * k - 3] = Hex(byte[k])[1] /\ ops[4 * k - 2] = Hex(byte[k])[2]
               /\ ops[4 * k - 1] = Hex(byte[k])[3] /\ ops[4 * k] = Hex(byte[k])[4]
    <3> DEFINE b == D[bytes - k] % 256
    <3>1. /\ b \in 0 .. 255
          /\ ops[4 * k - 3] = Hex(b)[1] /\ ops[4 * k - 2] = Hex(b)[2]
          /\ ops[4 * k - 1] = Hex(b)[3] /\ ops[4 * k] = Hex(b)[4]
      BY <1>2
    <3>2. byte[k] = b BY <1>3
    <3> HIDE DEF b
    <3>q. QED BY <3>1, <3>2
  <2>q. QED BY <1>2, <2>1, Zenon DEF HexOps
<1>a. DividesToZero(D, byte, bytes) BY <1>1, <1>3, Zenon DEF DividesToZero
<1>b. bytes \in Nat /\ bytes > 0 BY <1>1
<1>5. Backed(ops) BY <1>2, <1>4, <1>b, HexBacked
<1>6. chars \in Seq(Chars) /\ TwoDigitsEach(chars, byte, bytes)
  BY <1>2, <1>4, <1>b, HexCharacters
<1> HIDE DEF chars
<1>8. Value(chars, 16) = u /\ IsNumeral(chars, 16) /\ Len(chars) = 2 * bytes
  <2>1. Value(chars, 16) = D[0] /\ IsNumeral(chars, 16)
    BY <1>a, <1>b, <1>6, HexValue, Zenon
  <2>2. Len(chars) = 2 * bytes BY <1>6, Zenon DEF TwoDigitsEach
  <2>q. QED BY <1>1, <2>1, <2>2, Zenon
<1>9. Len(chars) = Bits \div 4 BY <1>1, <1>8
<1>10. Says("X", u, chars) BY <1>8, <1>9 DEF Says
<1>q. QED BY <1>2, <1>5, <1>10 DEF chars, ops

----------------------------------------------------------------------------
\* printf.

\* One conversion: operations on the screen, every digit shown stored before;
\* and for a number the numeral.
LEMMA ConvertedFacts ==
  ASSUME NEW letter \in Letters, NEW arg, Matches(letter, arg)
  PROVE  LET ops == Converted(letter, arg)
         IN /\ ops \in Seq(Op) /\ Backed(ops)
            /\ \/ letter \in {"x", "X"}
               \/ letter \in {"i", "u", "b", "B"} /\ arg < Word \div 2
               => Says(letter, arg, Characters(ops))
            /\ letter = "u" => EndsNumeral(arg, Characters(ops))
            /\ letter \notin {"x", "X"} => OnlyPuts(ops)
<1>1. CASE letter = "c"
  <2>1. arg \in Chars BY <1>1, Zenon DEF Matches
  <2>2. Converted(letter, arg) = Puts(<<arg>>) BY <1>1, Zenon DEF Converted
  <2>3. <<arg>> \in Seq(Chars) BY <2>1
  <2>4. Puts(<<arg>>) \in Seq(Op) /\ Backed(Puts(<<arg>>)) /\ OnlyPuts(Puts(<<arg>>))
    BY <2>3, PutsFacts
  <2>q. QED BY <1>1, <2>2, <2>4
<1>2. CASE letter = "s"
  <2>1. arg \in Seq(Chars) BY <1>2, Zenon DEF Matches
  <2>2. Converted(letter, arg) = Puts(arg) BY <1>2, Zenon DEF Converted
  <2>4. Puts(arg) \in Seq(Op) /\ Backed(Puts(arg)) /\ OnlyPuts(Puts(arg)) BY <2>1, PutsFacts
  <2>q. QED BY <1>2, <2>2, <2>4
<1>3. ASSUME letter # "c", letter # "s" PROVE arg \in 0 .. (Word - 1)
  BY <1>3, Zenon DEF Matches
<1>4. CASE letter = "i"
  <2>1. arg \in 0 .. (Word - 1) BY <1>3, <1>4
  <2>2. Converted(letter, arg) = Puts(Int2Char(SignedOf(arg))) BY <1>4, Zenon DEF Converted
  <2>3. Int2Char(SignedOf(arg)) \in Seq(Chars) BY <2>1, NumbersTyped
  <2>q. QED BY <1>4, <2>1, <2>2, <2>3, PutsFacts, NumbersSaid
<1>5. CASE letter = "u"
  <2>1. arg \in 0 .. (Word - 1) BY <1>3, <1>5
  <2>2. Converted(letter, arg) = Puts(Uint2Char(arg)) BY <1>5, Zenon DEF Converted
  <2>3. Uint2Char(arg) \in Seq(Chars) BY <2>1, NumbersTyped
  <2>q. QED BY <1>5, <2>1, <2>2, <2>3, PutsFacts, NumbersSaid, UintEnds
<1>6. CASE letter = "b"
  <2>1. arg \in 0 .. (Word - 1) BY <1>3, <1>6
  <2>2. Converted(letter, arg) = Puts(Binary(SignedOf(arg))) BY <1>6, Zenon DEF Converted
  <2>3. Binary(SignedOf(arg)) \in Seq(Chars) BY <2>1, NumbersTyped
  <2>q. QED BY <1>6, <2>1, <2>2, <2>3, PutsFacts, NumbersSaid
<1>7. CASE letter = "B"
  <2>1. arg \in 0 .. (Word - 1) BY <1>3, <1>7
  <2>2. Converted(letter, arg) = Puts(BigBinary(SignedOf(arg))) BY <1>7, Zenon DEF Converted
  <2>3. BigBinary(SignedOf(arg)) \in Seq(Chars) BY <2>1, NumbersTyped
  <2>q. QED BY <1>7, <2>1, <2>2, <2>3, PutsFacts, NumbersSaid
<1>8. CASE letter = "x"
  <2>1. arg \in 0 .. (Word - 1) BY <1>3, <1>8
  <2>2. Converted(letter, arg) = Hex(arg % 256) BY <1>8, Zenon DEF Converted
  <2>q. QED BY <1>8, <2>1, <2>2, HexSaid
<1>9. CASE letter = "X"
  <2>1. arg \in 0 .. (Word - 1) BY <1>3, <1>9
  <2>2. Converted(letter, arg) = Hex32(arg) BY <1>9, Zenon DEF Converted
  <2>q. QED BY <1>9, <2>1, <2>2, Hex32Said
<1>q. QED BY <1>1, <1>2, <1>4, <1>5, <1>6, <1>7, <1>8, <1>9, Zenon DEF Letters

\* One list of operations after another.
LEMMA ConcatBacked ==
  ASSUME NEW s \in Seq(Op), NEW t \in Seq(Op), Backed(s), Backed(t)
  PROVE  s \o t \in Seq(Op) /\ Backed(s \o t)
<1> DEFINE n == Len(s)
           r == s \o t
<1>1. /\ r \in Seq(Op) /\ Len(r) = n + Len(t) /\ n \in Nat /\ Len(t) \in Nat
      /\ \A i \in 1 .. n : r[i] = s[i]
      /\ \A i \in 1 .. Len(t) : r[n + i] = t[i]
  OBVIOUS
<1> HIDE DEF n, r
<1>2. ASSUME NEW i \in 1 .. Len(r), r[i].op = "show"
      PROVE  \E j \in 1 .. (i - 1) :
               /\ r[j] = Store(r[i].at, r[i].char)
               /\ \A m \in (j + 1) .. (i - 1) : ~(r[m].op = "store" /\ r[m].at = r[i].at)
  <2>1. CASE i <= n
    <3>1. i \in 1 .. n /\ i \in 1 .. Len(s) BY <2>1 DEF n
    <3>2. r[i] = s[i] BY <1>1, <3>1
    <3>3. PICK j \in 1 .. (i - 1) :
            /\ s[j] = Store(s[i].at, s[i].char)
            /\ \A m \in (j + 1) .. (i - 1) : ~(s[m].op = "store" /\ s[m].at = s[i].at)
      BY <1>2, <3>1, <3>2 DEF Backed
    <3>6. i \in Int /\ i <= n /\ n \in Int BY <1>1, <2>1
    <3>4. j \in 1 .. n BY <3>6
    <3>5. \A m \in (j + 1) .. (i - 1) : m \in 1 .. n BY <3>6
    <3>q. QED BY <1>1, <3>2, <3>3, <3>4, <3>5
  <2>2. CASE i > n
    <3> DEFINE k == i - n
    <3>1. k \in 1 .. Len(t) /\ i = n + k BY <1>1, <2>2
    <3>2. r[i] = t[k] BY <1>1, <3>1
    <3> HIDE DEF k
    <3>3. PICK j \in 1 .. (k - 1) :
            /\ t[j] = Store(t[k].at, t[k].char)
            /\ \A m \in (j + 1) .. (k - 1) : ~(t[m].op = "store" /\ t[m].at = t[k].at)
      BY <1>2, <3>1, <3>2 DEF Backed
    <3>4. n + j \in 1 .. (i - 1) /\ j \in 1 .. Len(t) BY <1>1, <3>1
    <3>5. r[n + j] = Store(r[i].at, r[i].char) BY <1>1, <3>2, <3>3, <3>4
    <3>6. ASSUME NEW m \in (n + j + 1) .. (i - 1)
          PROVE  ~(r[m].op = "store" /\ r[m].at = r[i].at)
      <4>1. m - n \in (j + 1) .. (k - 1) /\ m - n \in 1 .. Len(t) /\ m = n + (m - n)
        BY <1>1, <3>1
      <4>2. r[m] = t[m - n] BY <1>1, <4>1
      <4>q. QED BY <3>2, <3>3, <4>1, <4>2
    <3>q. QED BY <3>4, <3>5, <3>6
  <2>q. QED BY <1>1, <2>1, <2>2
<1>q. QED BY <1>1, <1>2 DEF Backed, r

\* One iteration: its operations, and what is left is shorter.
LEMMA IterationFacts ==
  ASSUME NEW format \in Seq(Chars), format # <<>>, NEW A, NEW args \in Seq(A),
         Conversion(format) => args # <<>> /\ Matches(format[2], args[1])
  PROVE  LET it == Iteration(format, args)
         IN /\ it = [ops |-> it.ops, format |-> it.format, args |-> it.args]
            /\ it.ops \in Seq(Op) /\ Backed(it.ops)
            /\ it.format \in Seq(Chars) /\ Len(it.format) < Len(format)
            /\ it.args \in Seq(A)
            /\ Conversion(format) => it.ops = Converted(format[2], args[1])
<1> DEFINE it == Iteration(format, args)
           from(k) == SubSeq(format, k, Len(format))
<1>l. Len(format) \in Nat /\ Len(format) > 0 OBVIOUS
<1>p. "%" \in Chars BY DigitsAreChars
<1>n. "%" \notin Letters BY DEF Letters
<1>1. from(2) \in Seq(Chars) /\ Len(from(2)) < Len(format) BY <1>l
<1>2. Len(format) > 1 => from(3) \in Seq(Chars) /\ Len(from(3)) < Len(format) BY <1>l
<1>0. <<>> \in Seq(Chars) /\ Len(<<>>) = 0 OBVIOUS
<1> HIDE DEF from
<1>3. CASE format[1] # "%"
  <2>1. it = [ops |-> Puts(<<format[1]>>), format |-> from(2), args |-> args]
    BY <1>3, Zenon DEF Iteration, from
  <2>2. format[1] \in Chars BY <1>l
  <2>3. <<format[1]>> \in Seq(Chars) BY <2>2
  <2>4. Puts(<<format[1]>>) \in Seq(Op) /\ Backed(Puts(<<format[1]>>)) BY <2>3, PutsFacts
  <2>5. ~Conversion(format) BY <1>3, Zenon DEF Conversion
  <2> HIDE DEF it
  <2>6. it.ops = Puts(<<format[1]>>) /\ it.format = from(2) /\ it.args = args BY <2>1
  <2>q. QED BY <1>1, <2>1, <2>4, <2>5, <2>6 DEF it
<1>4. CASE format[1] = "%" /\ Conversion(format)
  <2>1. it = [ops |-> Converted(format[2], args[1]), format |-> from(3), args |-> Tail(args)]
    BY <1>4, Zenon DEF Iteration, from
  <2>2. format[2] \in Letters /\ Len(format) > 1 BY <1>4, Zenon DEF Conversion
  <2>3. args # <<>> /\ Matches(format[2], args[1]) BY <1>4
  <2>4. Converted(format[2], args[1]) \in Seq(Op) /\ Backed(Converted(format[2], args[1]))
    BY <2>2, <2>3, ConvertedFacts
  <2>5. Tail(args) \in Seq(A) BY <2>3
  <2> HIDE DEF it
  <2>6. /\ it.ops = Converted(format[2], args[1]) /\ it.format = from(3)
        /\ it.args = Tail(args)
    BY <2>1
  <2>q. QED BY <1>2, <2>1, <2>2, <2>4, <2>5, <2>6 DEF it
<1>5. CASE format[1] = "%" /\ ~Conversion(format) /\ Len(format) > 1 /\ format[2] = "%"
  <2>1. it = [ops |-> Puts(<<"%">>), format |-> from(3), args |-> args]
    BY <1>5, Zenon DEF Iteration, from
  <2>3. <<"%">> \in Seq(Chars) BY <1>p
  <2>4. Puts(<<"%">>) \in Seq(Op) /\ Backed(Puts(<<"%">>)) BY <2>3, PutsFacts
  <2> HIDE DEF it
  <2>6. it.ops = Puts(<<"%">>) /\ it.format = from(3) /\ it.args = args BY <2>1
  <2>q. QED BY <1>2, <1>5, <2>1, <2>4, <2>6 DEF it
<1>6. CASE format[1] = "%" /\ ~Conversion(format) /\ ~(Len(format) > 1 /\ format[2] = "%")
  <2>1. it = [ops |-> Puts(format), format |-> <<>>, args |-> args]
    BY <1>6, Zenon DEF Iteration, from
  <2>4. Puts(format) \in Seq(Op) /\ Backed(Puts(format)) BY PutsFacts
  <2> HIDE DEF it
  <2>6. it.ops = Puts(format) /\ it.format = <<>> /\ it.args = args BY <2>1
  <2>q. QED BY <1>0, <1>l, <1>6, <2>1, <2>4, <2>6 DEF it
<1>q. QED BY <1>3, <1>4, <1>5, <1>6, Zenon

\* The function that Iterations names.
LEMMA IterationsSteps ==
  ASSUME NEW format \in Seq(Chars), NEW args
  PROVE  LET R == Iterations(format, args)
         IN /\ R[0] = [ops |-> <<>>, format |-> format, args |-> args]
            /\ \A n \in 0 .. (Len(format) - 1) : R[n + 1] = Continued(R[n])
<1> DEFINE first == [ops |-> <<>>, format |-> format, args |-> args]
           E(m, f) == f = [n \in 0 .. m |-> IF n = 0 THEN first ELSE Continued(f[n - 1])]
           T == {m \in Nat : \E f : E(m, f)}
           R == Iterations(format, args)
<1>l. Len(format) \in Nat OBVIOUS
<1>0. R = CHOOSE f : E(Len(format), f) BY DEF Iterations
<1> HIDE DEF first
<1>1. 0 \in T
  <2>1. E(0, [k \in 0 .. 0 |-> first]) OBVIOUS
  <2>q. QED BY <2>1
<1>2. ASSUME NEW m \in Nat, m \in T PROVE m + 1 \in T
  <2>1. PICK f : E(m, f) BY <1>2
  <2> DEFINE g == [k \in 0 .. (m + 1) |-> IF k = m + 1 THEN Continued(f[m]) ELSE f[k]]
  <2>2. E(m + 1, g) BY <2>1
  <2>3. \E h : E(m + 1, h)
    <3> HIDE DEF E, g
    <3>q. QED BY <2>2
  <2> HIDE DEF E
  <2>q. QED BY <2>3
<1>3. Len(format) \in T
  <2> HIDE DEF T
  <2>q. QED BY <1>1, <1>2, <1>l, SetInduction
<1>4. \E f : E(Len(format), f) BY <1>3
<1>5. E(Len(format), R)
  <2> HIDE DEF E, R
  <2>q. QED BY <1>0, <1>4
<1> HIDE DEF R
<1>6. R[0] = first BY <1>5, <1>l
<1>7. \A n \in 0 .. (Len(format) - 1) : R[n + 1] = Continued(R[n])
  <2>1. TAKE n \in 0 .. (Len(format) - 1)
  <2>2. n + 1 \in 0 .. Len(format) /\ n + 1 # 0 /\ (n + 1) - 1 = n BY <1>l
  <2>q. QED BY <1>5, <2>2
<1>q. QED BY <1>6, <1>7 DEF first, R

\* Arguments that Fits accepts are a sequence of what they are.
LEMMA ArgumentsAreASequence ==
  ASSUME NEW args, Len(args) \in Nat, args = [i \in 1 .. Len(args) |-> args[i]]
  PROVE  args \in Seq({args[i] : i \in 1 .. Len(args)})
<1> DEFINE A == {args[i] : i \in 1 .. Len(args)}
           n == Len(args)
<1>1. args \in [1 .. n -> A]
  <2>1. \A i \in 1 .. n : args[i] \in A OBVIOUS
  <2> HIDE DEF A
  <2>q. QED BY <2>1
<1> HIDE DEF A
<1>2. args \in Seq(A) BY <1>1
<1>q. QED BY <1>2 DEF A

\* Along a call that fits: operations whose digits are stored before they are
\* shown, and ever less of the format.
LEMMA IterationsFacts ==
  ASSUME NEW format, NEW args, Fits(format, args), NEW A, args \in Seq(A)
  PROVE  LET R == Iterations(format, args)
         IN /\ Len(format) \in Nat /\ format \in Seq(Chars)
            /\ \A n \in 0 .. Len(format) :
                 /\ R[n].ops \in Seq(Op) /\ Backed(R[n].ops)
                 /\ R[n].format \in Seq(Chars) /\ Len(R[n].format) <= Len(format) - n
                 /\ R[n].args \in Seq(A)
                 /\ Conversion(R[n].format) =>
                      R[n].args # <<>> /\ Matches(R[n].format[2], R[n].args[1])
            /\ \A n \in 0 .. (Len(format) - 1) : R[n + 1] = Continued(R[n])
<1> DEFINE R == Iterations(format, args)
           S == {n \in 0 .. Len(format) :
                   /\ R[n].ops \in Seq(Op) /\ Backed(R[n].ops)
                   /\ R[n].format \in Seq(Chars) /\ Len(R[n].format) <= Len(format) - n
                   /\ R[n].args \in Seq(A)}
<1>l. format \in Seq(Chars) /\ Len(format) \in Nat BY DEF Fits
<1>1. /\ R[0] = [ops |-> <<>>, format |-> format, args |-> args]
      /\ \A n \in 0 .. (Len(format) - 1) : R[n + 1] = Continued(R[n])
  BY <1>l, IterationsSteps
<1>2. \A n \in 0 .. Len(format) :
        Conversion(R[n].format) => R[n].args # <<>> /\ Matches(R[n].format[2], R[n].args[1])
  BY Zenon DEF Fits
<1> HIDE DEF R
<1>3. 0 \in S
  <2>1. <<>> \in Seq(Op) /\ Backed(<<>>) BY DEF Backed
  <2>2. R[0].ops = <<>> /\ R[0].format = format /\ R[0].args = args BY <1>1
  <2>3. Len(format) <= Len(format) - 0 /\ 0 \in 0 .. Len(format) BY <1>l
  <2>q. QED BY <1>l, <2>1, <2>2, <2>3
<1>4. ASSUME NEW n \in 0 .. (Len(format) - 1), n \in S PROVE n + 1 \in S
  <2> DEFINE r == R[n]
             it == Iteration(r.format, r.args)
  <2>0. n + 1 \in 0 .. Len(format) /\ n \in 0 .. Len(format) /\ n \in Int BY <1>l
  <2>1. R[n + 1] = Continued(r) BY <1>1
  <2>2. /\ r.ops \in Seq(Op) /\ Backed(r.ops)
        /\ r.format \in Seq(Chars) /\ Len(r.format) <= Len(format) - n
        /\ r.args \in Seq(A)
    BY <1>4
  <2>3. Conversion(r.format) => r.args # <<>> /\ Matches(r.format[2], r.args[1])
    BY <1>2, <2>0
  <2>4. CASE r.format = <<>>
    <3>1. R[n + 1] = r BY <2>1, <2>4, Zenon DEF Continued
    <3>2. Len(r.format) = 0 BY <2>4
    <3> HIDE DEF r
    <3>3. Len(r.format) <= Len(format) - (n + 1) BY <1>l, <3>2
    <3>q. QED BY <2>0, <2>2, <3>1, <3>3
  <2>5. CASE r.format # <<>>
    <3>1. R[n + 1] = [it EXCEPT !.ops = r.ops \o @] BY <2>1, <2>5, Zenon DEF Continued
    <3> HIDE DEF r
    <3>2. /\ it = [ops |-> it.ops, format |-> it.format, args |-> it.args]
          /\ it.ops \in Seq(Op) /\ Backed(it.ops)
          /\ it.format \in Seq(Chars) /\ Len(it.format) < Len(r.format)
          /\ it.args \in Seq(A)
      BY <2>2, <2>3, <2>5, IterationFacts
    <3> HIDE DEF it
    <3>3. R[n + 1].ops = r.ops \o it.ops /\ R[n + 1].format = it.format /\ R[n + 1].args = it.args
      BY <3>1, <3>2
    <3>4. r.ops \o it.ops \in Seq(Op) /\ Backed(r.ops \o it.ops)
      BY <2>2, <3>2, ConcatBacked
    <3>5. Len(it.format) <= Len(format) - (n + 1)
      <4>1. Len(it.format) \in Nat /\ Len(r.format) \in Nat BY <2>2, <3>2
      <4>q. QED BY <1>l, <2>0, <2>2, <3>2, <4>1
    <3>q. QED BY <2>0, <3>2, <3>3, <3>4, <3>5
  <2>q. QED BY <2>4, <2>5
<1>5. \A n \in 0 .. Len(format) : n \in S
  <2> HIDE DEF S
  <2>q. QED BY <1>3, <1>4, <1>l, BoundedInduction
<1>q. QED BY <1>1, <1>2, <1>5, <1>l DEF R

\* A whole call.
LEMMA PrintfFacts ==
  ASSUME NEW format, NEW args, Fits(format, args)
  PROVE  Printf(format, args) \in Seq(Op) /\ Backed(Printf(format, args))
<1>1. args \in Seq({args[i] : i \in 1 .. Len(args)})
  BY ArgumentsAreASequence DEF Fits
<1>2. format \in Seq(Chars) /\ Len(format) \in Nat BY DEF Fits
<1>3. Len(format) \in 0 .. Len(format) BY <1>2
<1> DEFINE R == Iterations(format, args)
           A == {args[i] : i \in 1 .. Len(args)}
<1> HIDE DEF A
<1>4. R[Len(format)].ops \in Seq(Op) /\ Backed(R[Len(format)].ops)
  <2>1. args \in Seq(A) BY <1>1 DEF A
  <2>q. QED BY <1>3, <2>1, IterationsFacts
<1>q. QED BY <1>4 DEF Printf

\* A character as a format needs no argument.
LEMMA CharacterFits ==
  ASSUME NEW c \in Chars
  PROVE  Fits(<<c>>, <<>>)
<1> DEFINE format == <<c>>
           R == Iterations(format, <<>>)
<1>1. format \in Seq(Chars) /\ Len(format) = 1 /\ format # <<>> /\ format[1] = c OBVIOUS
<1>2. Len(<<>>) \in Nat /\ <<>> = [i \in 1 .. Len(<<>>) |-> <<>>[i]] OBVIOUS
<1>3. /\ R[0] = [ops |-> <<>>, format |-> format, args |-> <<>>]
      /\ \A n \in 0 .. (Len(format) - 1) : R[n + 1] = Continued(R[n])
  <2> DEFINE none == <<>>
  <2> HIDE DEF format, none
  <2>1. LET S == Iterations(format, none)
        IN /\ S[0] = [ops |-> <<>>, format |-> format, args |-> none]
           /\ \A n \in 0 .. (Len(format) - 1) : S[n + 1] = Continued(S[n])
    BY <1>1, IterationsSteps
  <2>q. QED BY <2>1, Zenon DEF none
<1> HIDE DEF format
<1>4. ~Conversion(format) BY <1>1 DEF Conversion
<1>5. Len(R[1].format) < 1
  <2> DEFINE it == Iteration(format, <<>>)
  <2>1. 0 \in 0 .. (Len(format) - 1) /\ 0 + 1 = 1 BY <1>1
  <2>2. R[1] = Continued(R[0]) BY <1>3, <2>1
  <2>3. R[0].format = format /\ R[0].args = <<>> BY <1>3
  <2>4. R[1] = [it EXCEPT !.ops = R[0].ops \o @] BY <1>1, <2>2, <2>3, Zenon DEF Continued
  <2>5. /\ it = [ops |-> it.ops, format |-> it.format, args |-> it.args]
        /\ it.format \in Seq(Chars) /\ Len(it.format) < Len(format)
    <3>1. <<>> \in Seq(Chars) OBVIOUS
    <3>q. QED BY <1>1, <1>4, <3>1, IterationFacts
  <2> HIDE DEF it
  <2>6. R[1].format = it.format BY <2>4, <2>5
  <2>q. QED BY <1>1, <2>5, <2>6
<1>6. \A n \in 0 .. Len(format) : ~Conversion(R[n].format)
  <2>1. \A n \in 0 .. Len(format) : n = 0 \/ n = 1 BY <1>1
  <2>2. ~Conversion(R[0].format) BY <1>3, <1>4
  <2>3. ~Conversion(R[1].format)
    <3>1. ~(Len(R[1].format) > 1) BY <1>5
    <3>q. QED BY <3>1 DEF Conversion
  <2>q. QED BY <2>1, <2>2, <2>3
<1>q. QED BY <1>1, <1>2, <1>6, Zenon DEF Fits, format, R
==============================================================================
