--------------------------- MODULE FramingProofs ---------------------------
(***************************************************************************)
(* Theorems about Framing: every step is a step of MessageStream, nothing  *)
(* is taken for a message after junk, and the order of the numbers.        *)
(***************************************************************************)
EXTENDS Framing, Integers, FiniteSetTheorems, WellFoundedInduction, TLAPS

-----------------------------------------------------------------------------
(* Numbers.  The text of a number is defined by recursion, so that it      *)
(* exists has to be shown before anything can be said of it.               *)

Before == {p \in Nat \X Nat : p[1] < p[2]}

LEMMA Least ==
  ASSUME NEW T, T \subseteq Nat, T # {}
  PROVE  \E x \in T : \A y \in T : x <= y
<1>1. ASSUME NEW x \in Nat, NEW y \in Nat, y < x PROVE <<y, x>> \in Before
  <2>1. <<y, x>> \in Nat \X Nat
    BY <1>1
  <2>2. <<y, x>>[1] < <<y, x>>[2]
    BY <1>1
  <2>3. QED
    BY <2>1, <2>2, Zenon DEF Before
<1>2. IsWellFoundedOn(Before, Nat)
  BY NatLessThanWellFounded DEF OpToRel, Before
<1>3. PICK x \in T : \A y \in T : ~(<<y, x>> \in Before)
  BY <1>2, WFMin
<1>4. \A y \in T : ~(y < x)
  BY <1>1, <1>3
<1>5. QED
  BY <1>4

LEMMA Division ==
  ASSUME NEW n \in Nat
  PROVE  /\ n \div Base \in Nat /\ n % Base \in 0..(Base - 1)
         /\ n = (n \div Base) * Base + (n % Base)
         /\ n >= Base => n \div Base < n /\ n > 0
<1>1. Base \in Nat /\ Base > 1
  BY NumbersAssumption
<1>2. n \div Base \in Nat /\ n % Base \in 0..(Base - 1)
  BY <1>1
<1>3. n = (n \div Base) * Base + (n % Base)
  BY <1>1
<1>4. n >= Base => n \div Base < n
  BY <1>1, <1>2, <1>3
<1>5. QED
  BY <1>1, <1>2, <1>3, <1>4

LEMMA DigitsDiffer ==
  ASSUME NEW i \in 1..10, NEW j \in 1..10, Digits[i] = Digits[j]
  PROVE  i = j
  BY DEF Digits

\* A digit stands for its number and is not one of the other bytes.
LEMMA DigitIsNumeral ==
  ASSUME NEW r \in 0..(Base - 1)
  PROVE  /\ Digits[r + 1] \in Numerals /\ Digits[r + 1] \in Bytes
         /\ Numeral(Digits[r + 1]) = r
<1>1. Base \in 2..10 /\ r + 1 \in 1..Base /\ r + 1 \in 1..10
  BY NumbersAssumption
<1>2. \A d \in 1..Base : Digits[d] = Digits[r + 1] => d = r + 1
  BY <1>1, DigitsDiffer
<1>3. Numeral(Digits[r + 1]) = r
  BY <1>1, <1>2 DEF Numeral
<1>4. QED
  BY <1>1, <1>3, BytesAssumption DEF Numerals

LEMMA DigitIsNoMark ==
  ASSUME NEW d \in 1..10
  PROVE  Digits[d] # Space /\ Digits[d] # "\t" /\ Digits[d] # "NUL" /\ Digits[d] # "\r\n"
<1> DEFINE T == {"0", "1", "2", "3", "4", "5", "6", "7", "8", "9"}
<1>1. Digits[d] \in T
  BY DEF Digits
<1>2. Space \notin T /\ "\t" \notin T /\ "NUL" \notin T /\ "\r\n" \notin T
  BY DEF Space
<1>3. QED
  BY <1>1, <1>2, Zenon

LEMMA NumeralIsNoMark ==
  /\ \A x \in Numerals : x \notin Blanks /\ x # Nul
  /\ "\r\n" \notin Numerals /\ Space \notin Numerals
<1>1. \A d \in 1..Base : d \in 1..10
  BY NumbersAssumption
<1>2. QED
  BY <1>1, DigitIsNoMark DEF Numerals, Blanks, Nul

Step(f, n) ==
  IF n < Base THEN <<Digits[n + 1]>> ELSE Append(f[n \div Base], Digits[(n % Base) + 1])

\* The function on the numbers up to n.
UpTo(n) == {f \in [0..n -> Seq(Bytes)] : \A i \in 0..n : f[i] = Step(f, i)}

LEMMA StepIsText ==
  ASSUME NEW f, NEW n \in Nat, n >= Base => f[n \div Base] \in Seq(Bytes)
  PROVE  Step(f, n) \in Seq(Bytes)
<1>1. CASE n < Base
  <2>1. n \in 0..(Base - 1)
    BY <1>1, NumbersAssumption
  <2>2. Digits[n + 1] \in Bytes
    BY <2>1, DigitIsNumeral
  <2>3. QED
    BY <1>1, <2>2 DEF Step
<1>2. CASE ~(n < Base)
  <2>1. n >= Base
    BY <1>2, NumbersAssumption
  <2>2. Digits[(n % Base) + 1] \in Bytes
    BY Division, DigitIsNumeral
  <2>3. QED
    BY <1>2, <2>1, <2>2 DEF Step
<1>3. QED
  BY <1>1, <1>2

LEMMA UpToAgree ==
  ASSUME NEW n \in Nat, NEW m \in Nat, NEW f \in UpTo(n), NEW g \in UpTo(m),
         NEW i \in Nat, i <= n, i <= m
  PROVE  f[i] = g[i]
<1> DEFINE T == {x \in Nat : x <= n /\ x <= m /\ f[x] # g[x]}
<1>1. SUFFICES ASSUME T # {} PROVE FALSE
  BY <1>1
<1>2. PICK x \in T : \A y \in T : x <= y
  BY <1>1, Least
<1>3. f[x] = Step(f, x) /\ g[x] = Step(g, x)
  BY DEF UpTo
<1>4. CASE x < Base
  BY <1>3, <1>4 DEF Step
<1>5. CASE ~(x < Base)
  <2>1. x \div Base \in Nat /\ x \div Base < x
    BY <1>5, Division, NumbersAssumption
  <2>2. f[x \div Base] = g[x \div Base]
    BY <1>2, <2>1
  <2>3. QED
    BY <1>3, <1>5, <2>2 DEF Step
<1>6. QED
  BY <1>4, <1>5

LEMMA UpToExists == \A n \in Nat : UpTo(n) # {}
<1> DEFINE T == {x \in Nat : UpTo(x) = {}}
<1>1. SUFFICES ASSUME T # {} PROVE FALSE
  OBVIOUS
<1>2. PICK x \in T : \A y \in T : x <= y
  BY <1>1, Least
<1>3. ASSUME NEW g, \A i \in 0..(x - 1) : g[i] \in Seq(Bytes) /\ g[i] = Step(g, i) PROVE FALSE
  <2> DEFINE h == [i \in 0..x |-> IF i = x THEN Step(g, x) ELSE g[i]]
  <2>1. x >= Base => x \div Base \in 0..(x - 1)
    BY Division
  <2>2. Step(g, x) \in Seq(Bytes)
    BY <1>3, <2>1, StepIsText
  <2>3. h \in [0..x -> Seq(Bytes)]
    BY <1>3, <2>2
  <2>4. ASSUME NEW i \in 0..x PROVE h[i] = Step(g, i) /\ Step(g, i) = Step(h, i)
    <3>1. h[i] = Step(g, i)
      BY <1>3
    <3>2. ~(i < Base) => i \div Base \in 0..(x - 1) /\ i \div Base < i
      BY Division, NumbersAssumption
    <3>3. ~(i < Base) => h[i \div Base] = g[i \div Base]
      BY <3>2
    <3>4. QED
      BY <3>1, <3>3 DEF Step
  <2>5. h \in UpTo(x)
    BY <2>3, <2>4 DEF UpTo
  <2>6. QED
    BY <2>5
<1>4. CASE x = 0
  BY <1>3, <1>4
<1>5. CASE x # 0
  <2>1. x - 1 \in Nat /\ x - 1 \notin T
    BY <1>2, <1>5
  <2>2. PICK g : g \in UpTo(x - 1)
    BY <2>1
  <2>3. QED
    BY <1>3, <2>1, <2>2 DEF UpTo
<1>6. QED
  BY <1>4, <1>5

\* The recursion of Decimal.
LEMMA DecimalStep ==
  ASSUME NEW n \in Nat
  PROVE  Decimal[n] = Step(Decimal, n)
<1> DEFINE F == [x \in Nat |-> (CHOOSE f : f \in UpTo(x))[x]]
<1>1. ASSUME NEW x \in Nat PROVE F[x] = Step(F, x)
  <2>1. PICK f : f = (CHOOSE g : g \in UpTo(x))
    OBVIOUS
  <2>2. f \in UpTo(x)
    BY <2>1, UpToExists
  <2>3. F[x] = f[x]
    BY <2>1
  <2>6. f[x] = Step(f, x)
    BY <2>2 DEF UpTo
  <2>4. ASSUME ~(x < Base) PROVE f[x \div Base] = F[x \div Base]
    <3>1. x \div Base \in Nat /\ x \div Base <= x
      BY <2>4, Division, NumbersAssumption
    <3>2. PICK h : h = (CHOOSE g : g \in UpTo(x \div Base))
      OBVIOUS
    <3>3. h \in UpTo(x \div Base)
      BY <3>1, <3>2, UpToExists
    <3>4. f[x \div Base] = h[x \div Base]
      BY <2>2, <3>1, <3>3, UpToAgree
    <3>5. QED
      BY <3>1, <3>2, <3>4
  <2>5. QED
    BY <2>3, <2>4, <2>6 DEF Step
<1>2. F = [x \in Nat |-> Step(F, x)]
  BY <1>1
<1>3. Decimal = CHOOSE f : f = [x \in Nat |-> Step(f, x)]
  BY DEF Decimal, Step
<1>4. Decimal = [x \in Nat |-> Step(Decimal, x)]
  BY <1>2, <1>3
<1>5. QED
  BY <1>4
\* d is a text of the number n: reading it numeral by numeral gives n, and no
\* more than n on the way.
Spells(d, n) ==
  /\ d \in Seq(Bytes)
  /\ \A i \in 1..Len(d) : d[i] \in Numerals
  /\ \E a \in [0..Len(d) -> 0..n] :
       /\ a[0] = 0 /\ a[Len(d)] = n
       /\ \A i \in 1..Len(d) : a[i] = a[i - 1] * Base + Numeral(d[i])

LEMMA SpellsOne ==
  ASSUME NEW n \in 0..(Base - 1)
  PROVE  Spells(<<Digits[n + 1]>>, n)
<1> DEFINE d == <<Digits[n + 1]>>
<1> DEFINE a == [i \in 0..1 |-> IF i = 0 THEN 0 ELSE n]
<1>1. n \in Nat /\ Base \in Nat
  BY NumbersAssumption
<1>2. Len(d) = 1 /\ d[1] = Digits[n + 1] /\ d \in Seq(Bytes)
  BY DigitIsNumeral
<1>3. d[1] \in Numerals /\ Numeral(d[1]) = n
  BY <1>2, DigitIsNumeral
<1>4. a \in [0..Len(d) -> 0..n] /\ a[0] = 0 /\ a[Len(d)] = n /\ a[1] = n
  BY <1>1, <1>2
<1> HIDE DEF d, a
<1>5. \A i \in 1..Len(d) : i = 1
  BY <1>2
<1>6. a[1] = a[1 - 1] * Base + Numeral(d[1])
  BY <1>1, <1>3, <1>4
<1>7. Spells(d, n)
  BY <1>2, <1>3, <1>4, <1>5, <1>6 DEF Spells
<1>8. QED
  BY <1>7 DEF d

LEMMA SpellsMore ==
  ASSUME NEW d, NEW q \in Nat, Spells(d, q), NEW r \in 0..(Base - 1)
  PROVE  Spells(Append(d, Digits[r + 1]), q * Base + r)
<1> DEFINE n == q * Base + r
<1> DEFINE dd == Append(d, Digits[r + 1])
<1>1. n \in Nat /\ q <= n /\ Base \in Nat
  BY NumbersAssumption
<1>2. PICK a \in [0..Len(d) -> 0..q] :
        /\ a[0] = 0 /\ a[Len(d)] = q
        /\ \A i \in 1..Len(d) : a[i] = a[i - 1] * Base + Numeral(d[i])
  BY DEF Spells
<1>3. d \in Seq(Bytes) /\ \A i \in 1..Len(d) : d[i] \in Numerals
  BY DEF Spells
<1>4. /\ dd \in Seq(Bytes) /\ Len(dd) = Len(d) + 1 /\ Len(d) \in Nat
      /\ dd[Len(d) + 1] = Digits[r + 1] /\ \A i \in 1..Len(d) : dd[i] = d[i]
  BY <1>3, DigitIsNumeral
<1> DEFINE b == [i \in 0..(Len(d) + 1) |-> IF i = Len(d) + 1 THEN n ELSE a[i]]
<1> HIDE DEF n, dd
<1>5. /\ b \in [0..(Len(d) + 1) -> 0..n] /\ b[Len(d) + 1] = n
      /\ \A i \in 0..Len(d) : b[i] = a[i]
  BY <1>1, <1>2, <1>4
<1> HIDE DEF b
<1>6. b[0] = 0 /\ b[Len(dd)] = n /\ b \in [0..Len(dd) -> 0..n]
  BY <1>2, <1>4, <1>5
<1>7. ASSUME NEW i \in 1..Len(dd)
      PROVE  dd[i] \in Numerals /\ b[i] = b[i - 1] * Base + Numeral(dd[i])
  <2>1. CASE i = Len(d) + 1
    <3>1. dd[i] = Digits[r + 1] /\ b[i] = n /\ b[i - 1] = q
      BY <2>1, <1>2, <1>4, <1>5
    <3>2. QED
      BY <3>1, DigitIsNumeral DEF n
  <2>2. CASE i # Len(d) + 1
    <3>1. i \in 1..Len(d) /\ i \in 0..Len(d) /\ i - 1 \in 0..Len(d)
      BY <2>2, <1>4
    <3>2. dd[i] = d[i] /\ b[i] = a[i] /\ b[i - 1] = a[i - 1]
      BY <3>1, <1>4, <1>5
    <3>3. QED
      BY <3>1, <3>2, <1>2, <1>3
  <2>3. QED
    BY <2>1, <2>2
<1>8. Spells(dd, n)
  BY <1>4, <1>6, <1>7 DEF Spells
<1>9. QED
  BY <1>8 DEF n, dd

LEMMA DecimalSpells == \A n \in Nat : Spells(Decimal[n], n)
<1> DEFINE T == {n \in Nat : ~Spells(Decimal[n], n)}
<1>1. SUFFICES ASSUME T # {} PROVE FALSE
  OBVIOUS
<1>2. PICK n \in T : \A y \in T : n <= y
  BY <1>1, Least
<1>3. Decimal[n] = Step(Decimal, n)
  BY DecimalStep
<1>4. CASE n < Base
  <2>1. n \in 0..(Base - 1)
    BY <1>4, NumbersAssumption
  <2>2. QED
    BY <1>3, <1>4, <2>1, SpellsOne DEF Step
<1>5. CASE ~(n < Base)
  <2>1. /\ n \div Base \in Nat /\ n \div Base < n /\ n % Base \in 0..(Base - 1)
        /\ n = (n \div Base) * Base + (n % Base)
    BY <1>5, Division, NumbersAssumption
  <2>2. Spells(Decimal[n \div Base], n \div Base)
    BY <1>2, <2>1
  <2>3. Spells(Append(Decimal[n \div Base], Digits[(n % Base) + 1]), (n \div Base) * Base + (n % Base))
    BY <2>1, <2>2, SpellsMore
  <2>4. QED
    BY <1>3, <1>5, <2>1, <2>3 DEF Step
<1>6. QED
  BY <1>4, <1>5

-----------------------------------------------------------------------------
(* What stands in a sequence of bytes.                                     *)

\* The bytes w are in s behind position p.
Stands(s, p, w) == p + Len(w) <= Len(s) /\ \A i \in 1..Len(w) : s[p + i] = w[i]

LEMMA Joined ==
  ASSUME NEW s \in Seq(Bytes), NEW t \in Seq(Bytes)
  PROVE  /\ s \o t \in Seq(Bytes)
         /\ Len(s) \in Nat /\ Len(t) \in Nat /\ Len(s \o t) = Len(s) + Len(t)
         /\ \A i \in 1..Len(s) : (s \o t)[i] = s[i]
         /\ \A i \in 1..Len(t) : (s \o t)[Len(s) + i] = t[i]
<1> DEFINE u == s \o t
<1>1. u \in Seq(Bytes) /\ Len(s) \in Nat /\ Len(t) \in Nat
  OBVIOUS
<1>2. Len(u) = Len(s) + Len(t)
  OBVIOUS
<1>3. ASSUME NEW i \in 1..Len(s) PROVE u[i] = s[i]
  BY <1>1
<1>4. ASSUME NEW i \in 1..Len(t) PROVE u[Len(s) + i] = t[i]
  <2>1. Len(s) + i \in 1..(Len(s) + Len(t)) /\ ~(Len(s) + i <= Len(s))
    BY <1>1
  <2>2. (s \o t)[Len(s) + i] = t[Len(s) + i - Len(s)]
    BY <2>1, <1>1
  <2>3. Len(s) + i - Len(s) = i
    BY <1>1
  <2>4. QED
    BY <2>2, <2>3
<1>5. QED
  BY <1>1, <1>2, <1>3, <1>4

LEMMA MarksAreBytes ==
  /\ HeaderName \in Seq(Bytes) /\ Len(HeaderName) = 3
  /\ Ends \in Seq(Bytes) /\ Len(Ends) = 2
  /\ Space \in Bytes /\ "\r\n" \in Bytes
<1>1. "Content" \in Bytes /\ "-Length" \in Bytes /\ ":" \in Bytes /\ "\r\n" \in Bytes /\ Space \in Bytes
  BY BytesAssumption DEF Blanks
<1>2. QED
  BY <1>1 DEF HeaderName, Ends

LEMMA BodyIsText ==
  ASSUME NEW b \in Bodies
  PROVE  b \in Seq(Bytes) /\ Len(b) \in 1..(SizeLimit - 1) /\ b[1] = Brace /\ Len(b) \in Nat
  BY BodiesAssumption, NumbersAssumption

LEMMA HeaderBytes ==
  ASSUME NEW b \in Bodies, NEW D, D = Decimal[Len(b)]
  PROVE  /\ D \in Seq(Bytes) /\ Len(D) \in Nat
         /\ Header(b) \in Seq(Bytes) /\ Len(Header(b)) = Len(D) + 6
         /\ Header(b)[4] = Space
         /\ \A i \in 1..Len(D) : Header(b)[4 + i] = D[i]
         /\ Header(b)[Len(D) + 5] = "\r\n"
         /\ \A i \in 1..3 : Header(b)[i] = HeaderName[i]
<1>1. D \in Seq(Bytes) /\ Len(D) \in Nat
  BY BodyIsText, DecimalSpells DEF Spells
<1>2. Header(b) = HeaderName \o <<Space>> \o D \o Ends
  BY DEF Header
<1> DEFINE P == <<Space>>
<1> DEFINE N == HeaderName \o P
<1>3. P \in Seq(Bytes) /\ Len(P) = 1 /\ P[1] = Space
  BY MarksAreBytes
<1> HIDE DEF P
<1>4. /\ N \in Seq(Bytes) /\ Len(N) = 4
      /\ \A i \in 1..3 : N[i] = HeaderName[i]
      /\ N[4] = Space
  <2>1. /\ N \in Seq(Bytes) /\ Len(N) = 3 + 1
        /\ \A i \in 1..3 : N[i] = HeaderName[i]
        /\ \A i \in 1..1 : N[3 + i] = P[i]
    <3>1. HeaderName \in Seq(Bytes) /\ Len(HeaderName) = 3
      BY MarksAreBytes
    <3>2. /\ N \in Seq(Bytes) /\ Len(N) = Len(HeaderName) + Len(P)
          /\ \A i \in 1..Len(HeaderName) : N[i] = HeaderName[i]
          /\ \A i \in 1..Len(P) : N[Len(HeaderName) + i] = P[i]
      BY <1>3, <3>1, Joined, Zenon
    <3>3. QED
      BY <1>3, <3>1, <3>2, Zenon
  <2>2. N[3 + 1] = P[1]
    BY <2>1
  <2>3. 3 + 1 = 4
    OBVIOUS
  <2>4. QED
    BY <2>1, <2>2, <2>3, <1>3
<1> DEFINE M == N \o D
<1> HIDE DEF N
<1>5. /\ M \in Seq(Bytes) /\ Len(M) = 4 + Len(D)
      /\ \A i \in 1..4 : M[i] = N[i]
      /\ \A i \in 1..Len(D) : M[4 + i] = D[i]
  <2>1. /\ M \in Seq(Bytes) /\ Len(M) = Len(N) + Len(D)
        /\ \A i \in 1..Len(N) : M[i] = N[i]
        /\ \A i \in 1..Len(D) : M[Len(N) + i] = D[i]
    BY <1>1, <1>4, Joined, Zenon
  <2>2. QED
    BY <2>1, <1>4, Zenon
<1>6. Header(b) = M \o Ends
  BY <1>2 DEF N, P
<1> HIDE DEF M
<1>7. /\ Header(b) \in Seq(Bytes) /\ Len(Header(b)) = Len(M) + 2
      /\ \A i \in 1..Len(M) : Header(b)[i] = M[i]
      /\ \A i \in 1..2 : Header(b)[Len(M) + i] = Ends[i]
  <2>1. Ends \in Seq(Bytes) /\ Len(Ends) = 2
    BY MarksAreBytes
  <2>2. /\ Header(b) \in Seq(Bytes) /\ Len(Header(b)) = Len(M) + Len(Ends)
        /\ \A i \in 1..Len(M) : Header(b)[i] = M[i]
        /\ \A i \in 1..Len(Ends) : Header(b)[Len(M) + i] = Ends[i]
    <3>1. M \in Seq(Bytes) /\ Ends \in Seq(Bytes)
      BY <1>5, <2>1
    <3>2. /\ M \o Ends \in Seq(Bytes) /\ Len(M \o Ends) = Len(M) + Len(Ends)
          /\ \A i \in 1..Len(M) : (M \o Ends)[i] = M[i]
          /\ \A i \in 1..Len(Ends) : (M \o Ends)[Len(M) + i] = Ends[i]
      BY <3>1, Joined, Zenon
    <3>3. QED
      BY <3>2, <1>6, Zenon
  <2>3. QED
    BY <2>1, <2>2, Zenon
<1>8. Header(b)[Len(D) + 5] = "\r\n"
  <2>1. Header(b)[Len(M) + 1] = Ends[1] /\ Ends[1] = "\r\n"
    BY <1>7 DEF Ends
  <2>2. Len(M) + 1 = Len(D) + 5
    BY <1>1, <1>5
  <2>3. QED
    BY <2>1, <2>2
<1>9. \A i \in 1..(Len(D) + 4) : Header(b)[i] = M[i]
  BY <1>1, <1>5, <1>7
<1>10. ASSUME NEW i \in 1..Len(D) PROVE Header(b)[4 + i] = D[i]
  <2>1. 4 + i \in 1..(Len(D) + 4)
    BY <1>1
  <2>2. QED
    BY <2>1, <1>5, <1>9
<1>11. Header(b)[4] = Space /\ \A i \in 1..3 : Header(b)[i] = HeaderName[i]
  <2>1. 1 \in 1..(Len(D) + 4) /\ 2 \in 1..(Len(D) + 4) /\ 3 \in 1..(Len(D) + 4) /\ 4 \in 1..(Len(D) + 4)
    BY <1>1
  <2>2. \A i \in 1..3 : i \in 1..(Len(D) + 4) /\ i \in 1..4
    BY <1>1
  <2>3. QED
    BY <2>1, <2>2, <1>4, <1>5, <1>9
<1>12. Len(Header(b)) = Len(D) + 6
  BY <1>1, <1>5, <1>7
<1>13. QED
  BY <1>1, <1>7, <1>8, <1>10, <1>11, <1>12

\* A header of the sender is read as the length of its body.
LEMMA HeaderIsRead ==
  ASSUME NEW W \in Seq(Bytes), NEW q \in Nat, NEW b \in Bodies, Stands(W, q, Header(b))
  PROVE  \E m, d, k, e \in Nat : \E a \in [0..k -> 0..(SizeLimit - 1)] :
           /\ ReadsLength(W, q + Len(HeaderName), m, d, k, e)
           /\ Lengths(W, d, k, a)
           /\ a[k] = Len(b)
           /\ e + Len(Ends) = q + Len(Header(b))
<1> DEFINE D == Decimal[Len(b)]
<1> DEFINE H == Header(b)
<1> DEFINE k == Len(D)
<1>1. /\ D \in Seq(Bytes) /\ k \in Nat
      /\ H \in Seq(Bytes) /\ Len(H) = k + 6
      /\ H[4] = Space /\ H[k + 5] = "\r\n"
      /\ \A i \in 1..k : H[4 + i] = D[i]
  BY HeaderBytes
<1>2. Len(b) \in Nat /\ Len(b) < SizeLimit /\ SizeLimit \in Nat /\ Base \in Nat
  BY BodyIsText, NumbersAssumption
<1>3. Spells(D, Len(b))
  BY <1>2, DecimalSpells
<1>4. \A i \in 1..k : D[i] \in Numerals
  BY <1>3 DEF Spells
<1>5. PICK a \in [0..k -> 0..Len(b)] :
        /\ a[0] = 0 /\ a[k] = Len(b)
        /\ \A i \in 1..k : a[i] = a[i - 1] * Base + Numeral(D[i])
  BY <1>3 DEF Spells
<1> HIDE DEF D, H, k
<1>6. q + k + 6 <= Len(W) /\ \A i \in 1..(k + 6) : W[q + i] = H[i]
  BY <1>1 DEF Stands, H
<1>7. W[q + 4] = Space /\ W[q + k + 5] = "\r\n" /\ \A i \in 1..k : W[q + 4 + i] = D[i]
  <2>1. W[q + 4] = Space /\ W[q + k + 5] = "\r\n"
    BY <1>1, <1>6
  <2>2. ASSUME NEW i \in 1..k PROVE W[q + 4 + i] = D[i]
    <3>1. 4 + i \in 1..(k + 6)
      BY <1>1
    <3>2. W[q + (4 + i)] = H[4 + i]
      BY <1>6, <3>1
    <3>3. QED
      BY <3>2, <1>1
  <2>3. QED
    BY <2>1, <2>2
<1>8. a \in [0..k -> 0..(SizeLimit - 1)]
  BY <1>2, <1>5
<1>9. Lengths(W, q + 4, k, a)
  <2>1. ASSUME NEW i \in 1..k
        PROVE  a[i] = (a[i - 1] * Base + Numeral(W[q + 4 + i])) % SizeLimit
    <3>1. a[i] \in 0..Len(b)
      BY <1>1, <1>5
    <3>2. a[i] % SizeLimit = a[i]
      BY <1>2, <3>1
    <3>3. a[i] = a[i - 1] * Base + Numeral(W[q + 4 + i])
      BY <1>5, <1>7
    <3>4. QED
      BY <3>2, <3>3
  <2>2. QED
    BY <2>1, <1>5 DEF Lengths
<1>10. ReadsLength(W, q + 3, 1, q + 4, k, q + 4 + k)
  <2>1. q + 3 + 1 < Len(W) /\ q + 4 + k < Len(W)
    BY <1>1, <1>6
  <2>2. \A i \in 1..1 : W[q + 3 + i] \in Blanks
    <3>1. W[q + 4] \in Blanks
      BY <1>7 DEF Blanks
    <3>2. \A i \in 1..1 : q + 3 + i = q + 4
      OBVIOUS
    <3>3. QED
      BY <3>1, <3>2
  <2>3. W[q + 4 + 1] \notin Blanks /\ W[q + 4 + 1] # Nul
    <3>1. CASE k = 0
      <4>1. W[q + 4 + 1] = "\r\n"
        BY <3>1, <1>7
      <4>2. "\r\n" \notin Blanks /\ "\r\n" # Nul
        BY Zenon DEF Blanks, Nul, Space
      <4>3. QED
        BY <4>1, <4>2
    <3>2. CASE k # 0
      <4>1. 1 \in 1..k
        BY <1>1, <3>2
      <4>2. W[q + 4 + 1] \in Numerals
        BY <4>1, <1>4, <1>7
      <4>3. QED
        BY <4>2, NumeralIsNoMark
    <3>3. QED
      BY <3>1, <3>2
  <2>4. \A i \in 1..k : W[q + 4 + i] \in Numerals
    BY <1>4, <1>7
  <2>5. W[q + 4 + k + 1] = "\r\n"
    <3>1. q + 4 + k + 1 = q + k + 5
      BY <1>1
    <3>2. QED
      BY <3>1, <1>7
  <2>6. W[q + 4 + k + 1] \notin Numerals /\ W[q + 4 + k + 1] # Nul
    BY <2>5, NumeralIsNoMark DEF Nul
  <2>7. q + 3 + 1 + 1 = q + 4 + 1 /\ q + 3 + 1 = q + 4 /\ q + 4 + 0 = q + 4 /\ q + 4 + k + 0 = q + 4 + k
    BY <1>1
  <2>8. W[q + 3 + 1 + 1] \notin Blanks /\ W[q + 3 + 1 + 1] # Nul
    BY <2>3, <2>7
  <2>9. q + 4 = q + 3 + 1 + (IF W[q + 3 + 1 + 1] = Nul THEN 1 ELSE 0)
    BY <2>7, <2>8
  <2>10. q + 4 + k = q + 4 + k + (IF W[q + 4 + k + 1] = Nul THEN 1 ELSE 0)
    BY <2>6, <2>7
  <2>11. QED
    BY <2>1, <2>2, <2>4, <2>6, <2>8, <2>9, <2>10 DEF ReadsLength
<1>11. q + 4 + k + Len(Ends) = q + Len(Header(b)) /\ Len(HeaderName) = 3
  BY <1>1, MarksAreBytes DEF H
<1>12. 1 \in Nat /\ q + 4 \in Nat /\ k \in Nat /\ q + 4 + k \in Nat
  BY <1>1
<1>13. /\ ReadsLength(W, q + Len(HeaderName), 1, q + 4, k, q + 4 + k)
       /\ a[k] = Len(b)
  BY <1>5, <1>10, <1>11
<1>14. \E x \in [0..k -> 0..(SizeLimit - 1)] :
         /\ ReadsLength(W, q + Len(HeaderName), 1, q + 4, k, q + 4 + k)
         /\ Lengths(W, q + 4, k, x)
         /\ x[k] = Len(b)
         /\ q + 4 + k + Len(Ends) = q + Len(Header(b))
  BY <1>8, <1>9, <1>11, <1>13, Zenon
<1>15. QED
  BY <1>12, <1>14, Zenon

\* What stands in V is still there, u further, in a W in which V stands behind u.
LEMMA StandsShift ==
  ASSUME NEW W \in Seq(Bytes), NEW V \in Seq(Bytes), NEW u \in Nat, Stands(W, u, V),
         NEW p \in Nat, NEW w \in Seq(Bytes), Stands(V, p, w)
  PROVE  Stands(W, u + p, w)
<1>1. u + Len(V) <= Len(W) /\ \A i \in 1..Len(V) : W[u + i] = V[i]
  BY DEF Stands
<1>2. p + Len(w) <= Len(V) /\ \A i \in 1..Len(w) : V[p + i] = w[i]
  BY DEF Stands
<1>3. Len(V) \in Nat /\ Len(W) \in Nat /\ Len(w) \in Nat
  OBVIOUS
<1>4. ASSUME NEW i \in 1..Len(w) PROVE W[u + p + i] = w[i]
  <2>1. p + i \in 1..Len(V) /\ u + (p + i) = u + p + i
    BY <1>2, <1>3
  <2>2. QED
    BY <2>1, <1>1, <1>2
<1>5. u + p + Len(w) <= Len(W)
  BY <1>1, <1>2, <1>3
<1>6. QED
  BY <1>4, <1>5 DEF Stands

LEMMA ContradictsShift ==
  ASSUME NEW W \in Seq(Bytes), NEW V \in Seq(Bytes), NEW u \in Nat, Stands(W, u, V),
         NEW p \in Nat, NEW w \in Seq(Bytes), Contradicts(V, p, w)
  PROVE  Contradicts(W, u + p, w)
<1>1. u + Len(V) <= Len(W) /\ \A i \in 1..Len(V) : W[u + i] = V[i]
  BY DEF Stands
<1>2. Len(V) \in Nat /\ Len(W) \in Nat /\ Len(w) \in Nat
  OBVIOUS
<1>3. PICK i \in 1..Len(w) : p + i <= Len(V) /\ V[p + i] # w[i]
  BY DEF Contradicts
<1>4. p + i \in 1..Len(V) /\ u + (p + i) = u + p + i
  BY <1>2, <1>3
<1>5. u + p + i <= Len(W) /\ W[u + p + i] # w[i]
  BY <1>1, <1>2, <1>3, <1>4
<1>6. QED
  BY <1>5 DEF Contradicts

LEMMA ReadsShift ==
  ASSUME NEW W \in Seq(Bytes), NEW V \in Seq(Bytes), NEW u \in Nat, Stands(W, u, V),
         NEW q \in Nat, NEW m \in Nat, NEW d \in Nat, NEW k \in Nat, NEW e \in Nat,
         ReadsLength(V, q, m, d, k, e)
  PROVE  ReadsLength(W, u + q, m, u + d, k, u + e)
<1>1. u + Len(V) <= Len(W) /\ \A i \in 1..Len(V) : W[u + i] = V[i]
  BY DEF Stands
<1>2. Len(V) \in Nat /\ Len(W) \in Nat
  OBVIOUS
<1>3. /\ q + m < Len(V) /\ d + k < Len(V)
      /\ \A i \in 1..m : V[q + i] \in Blanks
      /\ V[q + m + 1] \notin Blanks
      /\ d = q + m + (IF V[q + m + 1] = Nul THEN 1 ELSE 0)
      /\ \A i \in 1..k : V[d + i] \in Numerals
      /\ V[d + k + 1] \notin Numerals
      /\ e = d + k + (IF V[d + k + 1] = Nul THEN 1 ELSE 0)
  BY DEF ReadsLength
<1>4. u + q + m < Len(W) /\ u + d + k < Len(W)
  BY <1>1, <1>2, <1>3
<1>5. \A i \in 1..m : W[u + q + i] \in Blanks
  <2>1. SUFFICES ASSUME NEW i \in 1..m PROVE W[u + q + i] \in Blanks
    OBVIOUS
  <2>2. q + i \in 1..Len(V) /\ u + (q + i) = u + q + i
    BY <1>2, <1>3
  <2>3. QED
    BY <2>2, <1>1, <1>3
<1>6. \A i \in 1..k : W[u + d + i] = V[d + i]
  <2>1. SUFFICES ASSUME NEW i \in 1..k PROVE W[u + d + i] = V[d + i]
    OBVIOUS
  <2>2. d + i \in 1..Len(V) /\ u + (d + i) = u + d + i
    BY <1>2, <1>3
  <2>3. W[u + (d + i)] = V[d + i]
    BY <2>2, <1>1
  <2>4. QED
    BY <2>2, <2>3
<1>7. W[u + q + m + 1] = V[q + m + 1]
  <2>1. q + m + 1 \in 1..Len(V) /\ u + (q + m + 1) = u + q + m + 1
    BY <1>2, <1>3
  <2>2. QED
    BY <2>1, <1>1
<1>8. W[u + d + k + 1] = V[d + k + 1]
  <2>1. d + k + 1 \in 1..Len(V) /\ u + (d + k + 1) = u + d + k + 1
    BY <1>2, <1>3
  <2>2. QED
    BY <2>1, <1>1
<1>9. u + d = u + q + m + (IF W[u + q + m + 1] = Nul THEN 1 ELSE 0)
  <2>1. CASE V[q + m + 1] = Nul
    <3>1. d = q + m + 1
      BY <2>1, <1>3
    <3>2. W[u + q + m + 1] = Nul
      BY <2>1, <1>7
    <3>3. QED
      BY <3>1, <3>2
  <2>2. CASE V[q + m + 1] # Nul
    <3>1. d = q + m
      BY <2>2, <1>3
    <3>2. W[u + q + m + 1] # Nul
      BY <2>2, <1>7
    <3>3. QED
      BY <3>1, <3>2
  <2>3. QED
    BY <2>1, <2>2
<1>10. u + e = u + d + k + (IF W[u + d + k + 1] = Nul THEN 1 ELSE 0)
  <2>1. CASE V[d + k + 1] = Nul
    <3>1. e = d + k + 1
      BY <2>1, <1>3
    <3>2. W[u + d + k + 1] = Nul
      BY <2>1, <1>8
    <3>3. QED
      BY <3>1, <3>2
  <2>2. CASE V[d + k + 1] # Nul
    <3>1. e = d + k
      BY <2>2, <1>3
    <3>2. W[u + d + k + 1] # Nul
      BY <2>2, <1>8
    <3>3. QED
      BY <3>1, <3>2
  <2>3. QED
    BY <2>1, <2>2
<1>11. \A i \in 1..k : W[u + d + i] \in Numerals
  BY <1>3, <1>6
<1>12. W[u + q + m + 1] \notin Blanks /\ W[u + d + k + 1] \notin Numerals
  BY <1>3, <1>7, <1>8
<1>13. QED
  BY <1>4, <1>5, <1>9, <1>10, <1>11, <1>12 DEF ReadsLength

LEMMA LengthsShift ==
  ASSUME NEW W \in Seq(Bytes), NEW V \in Seq(Bytes), NEW u \in Nat, Stands(W, u, V),
         NEW d \in Nat, NEW k \in Nat, d + k < Len(V), NEW a, Lengths(V, d, k, a)
  PROVE  Lengths(W, u + d, k, a)
<1>1. u + Len(V) <= Len(W) /\ \A i \in 1..Len(V) : W[u + i] = V[i]
  BY DEF Stands
<1>2. Len(V) \in Nat
  OBVIOUS
<1>3. ASSUME NEW i \in 1..k PROVE W[u + d + i] = V[d + i]
  <2>1. d + i \in 1..Len(V) /\ u + (d + i) = u + d + i
    BY <1>2
  <2>2. QED
    BY <2>1, <1>1
<1>4. QED
  BY <1>3 DEF Lengths

LEMMA RefusedShift ==
  ASSUME NEW W \in Seq(Bytes), NEW V \in Seq(Bytes), NEW u \in Nat, Stands(W, u, V),
         NEW p \in Nat, Refused(V, p)
  PROVE  Refused(W, u + p)
<1>1. CASE Contradicts(V, p, HeaderName)
  <2>1. Contradicts(W, u + p, HeaderName)
    BY <1>1, ContradictsShift, MarksAreBytes
  <2>2. QED
    BY <2>1 DEF Refused
<1>2. CASE ~Contradicts(V, p, HeaderName)
  <2>1. PICK m, d, k, e \in 0..Len(V) :
          /\ ReadsLength(V, p + Len(HeaderName), m, d, k, e)
          /\ \E a \in [0..k -> 0..(SizeLimit - 1)] :
               /\ Lengths(V, d, k, a)
               /\ Contradicts(V, e, IF a[k] = 0 THEN HeaderName ELSE Ends)
    BY <1>2 DEF Refused
  <2>2. PICK a \in [0..k -> 0..(SizeLimit - 1)] :
               /\ Lengths(V, d, k, a)
               /\ Contradicts(V, e, IF a[k] = 0 THEN HeaderName ELSE Ends)
    BY <2>1
  <2>3. Len(V) \in Nat /\ Len(W) \in Nat /\ u + Len(V) <= Len(W)
    BY DEF Stands
  <2>4. m \in Nat /\ d \in Nat /\ k \in Nat /\ e \in Nat /\ p + Len(HeaderName) \in Nat
    BY <2>3, MarksAreBytes
  <2>5. ReadsLength(W, u + (p + Len(HeaderName)), m, u + d, k, u + e)
    BY <2>1, <2>4, ReadsShift
  <2>6. u + (p + Len(HeaderName)) = (u + p) + Len(HeaderName)
    BY MarksAreBytes
  <2>7. d + k < Len(V)
    BY <2>1 DEF ReadsLength
  <2>8. Lengths(W, u + d, k, a)
    BY <2>2, <2>4, <2>7, LengthsShift
  <2>9. (IF a[k] = 0 THEN HeaderName ELSE Ends) \in Seq(Bytes)
    BY MarksAreBytes
  <2>10. Contradicts(W, u + e, IF a[k] = 0 THEN HeaderName ELSE Ends)
    BY <2>2, <2>4, <2>9, ContradictsShift
  <2>11. m \in 0..Len(W) /\ u + d \in 0..Len(W) /\ k \in 0..Len(W) /\ u + e \in 0..Len(W)
    BY <2>1, <2>3, <2>4, SMTT(30)
  <2>12. ReadsLength(W, (u + p) + Len(HeaderName), m, u + d, k, u + e)
    BY <2>5, <2>6
  <2>13. \E x \in [0..k -> 0..(SizeLimit - 1)] :
           /\ Lengths(W, u + d, k, x)
           /\ Contradicts(W, u + e, IF x[k] = 0 THEN HeaderName ELSE Ends)
    BY <2>2, <2>8, <2>10, Zenon
  <2>14. QED
    BY <2>11, <2>12, <2>13, Zenon DEF Refused
<1>3. QED
  BY <1>1, <1>2

LEMMA JoinedStand ==
  ASSUME NEW s \in Seq(Bytes), NEW t \in Seq(Bytes)
  PROVE  Stands(s \o t, 0, s) /\ Stands(s \o t, Len(s), t)
<1> DEFINE u == s \o t
<1>1. /\ u \in Seq(Bytes) /\ Len(s) \in Nat /\ Len(t) \in Nat /\ Len(u) = Len(s) + Len(t)
      /\ \A i \in 1..Len(s) : u[i] = s[i]
      /\ \A i \in 1..Len(t) : u[Len(s) + i] = t[i]
  BY Joined, Zenon
<1> HIDE DEF u
<1>2. \A i \in 1..Len(s) : u[0 + i] = s[i]
  BY <1>1
<1>3. Stands(u, 0, s) /\ Stands(u, Len(s), t)
  BY <1>1, <1>2 DEF Stands
<1>4. QED
  BY <1>3 DEF u

-----------------------------------------------------------------------------
(* The inductive invariant: the sending end.                               *)

\* What only the sending end touches, and what only the reader does.
SendingOK ==
  /\ nextSeq \in 1..(MaxSends + 1) /\ sendMutex \in Senders \cup {Nobody}
  /\ sending \in [Senders -> {"idle", "made", "locked", "begun"}]
  /\ message \in [Senders -> Message \cup {None}]
  /\ sent \in Seq(Message)
  /\ spoilt \in 0..NotSpoilt

ReadingOK ==
  /\ link \in BOOLEAN /\ closed \in BOOLEAN /\ len \in 0..(SizeLimit - 1)
  /\ at \in {"loop", "name", "blank", "digit", "ends", "body", "ended"}
  /\ wire \in Seq(Bytes) /\ buf \in Seq(Bytes) /\ got \in Seq(Seq(Bytes))

\* What was handed on are messages: this takes all of the invariant.
Whole == got \in Seq(Bodies)

\* Who is writing has the lock, who is sending has a message of its own.
Writing(t) == sending[t] \in {"locked", "begun"}
Carries(t) == sending[t] # "idle"
SendersOK ==
  \A t \in Senders :
    /\ Writing(t) <=> sendMutex = t
    /\ Carries(t) => message[t] \in Message /\ message[t].by = t

\* Numbers are below the next one and are used once; what a thread carries is
\* younger than what it has sent.
NumbersOK ==
  /\ \A t \in Senders : Carries(t) => message[t].seq < nextSeq
  /\ \A t, u \in Senders :
       t # u /\ Carries(t) /\ Carries(u) => message[t].seq # message[u].seq
  /\ \A i \in 1..Len(sent) : sent[i].seq < nextSeq
  /\ \A i \in 1..Len(sent), t \in Senders :
       Carries(t) => /\ sent[i].seq # message[t].seq
                     /\ sent[i].by = t => sent[i].seq < message[t].seq
  /\ OvertakenByOthersOnly

\* How many messages the reader may find.
Limit == IF spoilt = NotSpoilt THEN Len(sent) ELSE spoilt
SpoiltOK == spoilt # NotSpoilt => spoilt <= Len(sent)

SenderInv == SendingOK /\ ReadingOK /\ SendersOK /\ NumbersOK /\ SpoiltOK

-----------------------------------------------------------------------------
(* The inductive invariant: the stream and the reader.  W is everything    *)
(* that was ever written, B the bodies whose header was, frame i of them   *)
(* ends at c[i], and the reader has taken the first p bytes out of buf.    *)

\* What is in buf and under way is what follows p, cut off perhaps.
Ahead(W, p) ==
  /\ p \in Nat
  /\ p + Len(buf) + Len(wire) <= Len(W)
  /\ link => p + Len(buf) + Len(wire) = Len(W)
  /\ \A i \in 1..Len(buf) : buf[i] = W[p + i]
  /\ \A i \in 1..Len(wire) : wire[i] = W[p + Len(buf) + i]

\* The frames of the messages sent before the junk, and perhaps one header.
Frames(W, B, c) ==
  /\ W \in Seq(Bytes) /\ B \in Seq(Bodies) /\ c \in [0..Len(B) -> Nat]
  /\ c[0] = 0
  /\ \A i \in 1..Len(B) : /\ Stands(W, c[i - 1], Header(B[i]))
                          /\ c[i] = c[i - 1] + Len(Header(B[i])) + Len(B[i])
  /\ Limit <= Len(B)
  /\ \A i \in 1..Limit : /\ B[i] = sent[i].body
                         /\ Stands(W, c[i - 1] + Len(Header(B[i])), B[i])

\* Behind them is the junk, or nothing, or the header of the message that is
\* being written when the connection is up.
Behind(W, B, c) ==
  \/ /\ spoilt # NotSpoilt
     /\ Len(B) = Limit
     /\ c[Limit] <= Len(W) /\ Refused(W, c[Limit])
  \/ /\ spoilt = NotSpoilt
     /\ Len(B) = Limit
     /\ Len(W) = c[Limit]
     /\ link => \A t \in Senders : sending[t] # "begun"
  \/ /\ spoilt = NotSpoilt
     /\ Len(B) = Limit + 1
     /\ Len(W) = c[Limit] + Len(Header(B[Limit + 1]))
     /\ link => \E t \in Senders : sending[t] = "begun" /\ message[t].body = B[Limit + 1]

\* The reader is between two frames, or about to find junk.
Between(W, c, p) ==
  /\ at \in {"loop", "name"}
  /\ at = "name" => len = 0
  /\ p = c[Len(got)] \/ Contradicts(W, p, HeaderName)

\* The header the reader is in announces the next body, or is no header.
Announces(W, B, c, k, e, a) ==
  /\ Len(got) < Len(B)
  /\ a[k] = Len(B[Len(got) + 1])
  /\ e + Len(Ends) = c[Len(got)] + Len(Header(B[Len(got) + 1]))

Misleads(W, k, e, a) == Contradicts(W, e, IF a[k] = 0 THEN HeaderName ELSE Ends)

Within(W, B, c, p, m, d, k, e, a) ==
  /\ ReadsLength(W, c[Len(got)] + Len(HeaderName), m, d, k, e)
  /\ a \in [0..k -> 0..(SizeLimit - 1)] /\ Lengths(W, d, k, a)
  /\ Announces(W, B, c, k, e, a) \/ Misleads(W, k, e, a)
  /\ \/ at = "blank" /\ len = 0 /\ \E i \in 0..m : p = c[Len(got)] + Len(HeaderName) + i
     \/ at = "digit" /\ \E i \in 0..k : p = d + i /\ len = a[i]
     \/ at = "ends" /\ p = e /\ len = a[k] /\ len # 0
     \/ at = "body" /\ p = e + Len(Ends) /\ len = a[k] /\ Announces(W, B, c, k, e, a)

Reads(W, B, c, p) ==
  /\ Frames(W, B, c) /\ Behind(W, B, c) /\ Ahead(W, p)
  /\ \/ Between(W, c, p)
     \/ \E m, d, k, e \in Nat : \E a \in [0..k -> 0..(SizeLimit - 1)] :
          Within(W, B, c, p, m, d, k, e, a)

\* The connection is lost and the reader has seen it.
Over == ~link /\ (at = "ended" \/ (at = "loop" /\ closed))

\* The connection is lost, nothing more comes, and what is left is no header.
GivesUp ==
  /\ ~link /\ ~closed /\ wire = <<>>
  /\ \/ buf = <<>> /\ at \in {"loop", "name", "blank", "digit", "ends"}
     \/ buf # <<>> /\ buf[1] = Brace /\ at \in {"loop", "name"}

OnStream == ~closed /\ \E W, B, c, p : Reads(W, B, c, p)

ReaderInv == Len(got) <= Limit /\ (Over \/ GivesUp \/ OnStream)

IInv == SenderInv /\ ReaderInv /\ Whole

-----------------------------------------------------------------------------
(* The sending end.                                                        *)

LEMMA NumberIsNatural ==
  ASSUME NEW m \in Message
  PROVE  m.seq \in Nat /\ m.seq >= 1 /\ m.body \in Bodies
<1>1. m.seq \in 1..MaxSends /\ m.body \in Bodies
  BY DEF Message
<1>2. QED
  BY <1>1, NumbersAssumption

LEMMA SentNumbers ==
  ASSUME SendingOK
  PROVE  /\ Len(sent) \in Nat
         /\ \A i \in 1..Len(sent) : /\ sent[i] \in Message /\ sent[i].body \in Bodies
                                   /\ sent[i].seq \in Nat /\ sent[i].seq >= 1
<1>1. Len(sent) \in Nat /\ \A i \in 1..Len(sent) : sent[i] \in Message
  BY DEF SendingOK
<1>2. QED
  BY <1>1, NumberIsNatural

LEMMA SerializeKeeps ==
  ASSUME SendingOK, SendersOK, NumbersOK, NEW t \in Senders, Serialize(t)
  PROVE  SendingOK' /\ SendersOK' /\ NumbersOK'
<1>1. /\ nextSeq <= MaxSends /\ nextSeq' = nextSeq + 1
      /\ sending[t] = "idle" /\ sending' = [sending EXCEPT ![t] = "made"]
      /\ sendMutex' = sendMutex /\ sent' = sent /\ spoilt' = spoilt
  BY DEF Serialize, Goes
<1>2. PICK body \in Bodies : message' = [message EXCEPT ![t] = [by |-> t, seq |-> nextSeq, body |-> body]]
  BY DEF Serialize
<1> DEFINE m == [by |-> t, seq |-> nextSeq, body |-> body]
<1>3. nextSeq \in 1..MaxSends /\ nextSeq \in Nat /\ MaxSends \in Nat /\ nextSeq + 1 \in 1..(MaxSends + 1)
  BY <1>1, NumbersAssumption DEF SendingOK
<1>4. m \in Message /\ m.by = t /\ m.seq = nextSeq
  BY <1>3 DEF Message
<1> HIDE DEF m
<1>5. message' = [message EXCEPT ![t] = m]
  BY <1>2 DEF m
<1>6. /\ message' \in [Senders -> Message \cup {None}] /\ message'[t] = m
      /\ \A u \in Senders : u # t => message'[u] = message[u]
  BY <1>4, <1>5 DEF SendingOK
<1>7. /\ sending' \in [Senders -> {"idle", "made", "locked", "begun"}] /\ sending'[t] = "made"
      /\ \A u \in Senders : u # t => sending'[u] = sending[u]
  BY <1>1 DEF SendingOK
<1>8. SendingOK'
  BY <1>1, <1>3, <1>6, <1>7 DEF SendingOK, NotSpoilt
<1>9. SendersOK'
  <2>1. ASSUME NEW u \in Senders
        PROVE  /\ Writing(u)' <=> sendMutex' = u
               /\ Carries(u)' => message'[u] \in Message /\ message'[u].by = u
    BY <1>1, <1>4, <1>6, <1>7 DEF SendersOK, Writing, Carries
  <2>2. QED
    BY <2>1 DEF SendersOK
<1>10. \A u \in Senders : Carries(u) => message[u].seq \in Nat /\ message[u].seq < nextSeq
  BY NumberIsNatural DEF SendersOK, NumbersOK
<1>11. \A i \in 1..Len(sent) : sent[i].seq \in Nat /\ sent[i].seq < nextSeq
  BY SentNumbers DEF NumbersOK
<1>12. NumbersOK'
  <2>1. ASSUME NEW u \in Senders, Carries(u)' PROVE message'[u].seq < nextSeq'
    BY <2>1, <1>1, <1>3, <1>4, <1>6, <1>7, <1>10 DEF Carries
  <2>2. ASSUME NEW u \in Senders, NEW v \in Senders, u # v, Carries(u)', Carries(v)'
        PROVE  message'[u].seq # message'[v].seq
    <3>1. CASE u = t
      BY <2>2, <3>1, <1>3, <1>4, <1>6, <1>7, <1>10 DEF Carries
    <3>2. CASE v = t
      BY <2>2, <3>2, <1>3, <1>4, <1>6, <1>7, <1>10 DEF Carries
    <3>3. CASE u # t /\ v # t
      BY <2>2, <3>3, <1>6, <1>7 DEF Carries, NumbersOK
    <3>4. QED
      BY <3>1, <3>2, <3>3
  <2>3. \A i \in 1..Len(sent') : sent'[i].seq < nextSeq'
    BY <1>1, <1>3, <1>11
  <2>4. ASSUME NEW i \in 1..Len(sent'), NEW u \in Senders, Carries(u)'
        PROVE  sent'[i].seq # message'[u].seq /\ (sent'[i].by = u => sent'[i].seq < message'[u].seq)
    <3>1. CASE u = t
      BY <3>1, <1>1, <1>3, <1>4, <1>6, <1>11
    <3>2. CASE u # t
      BY <2>4, <3>2, <1>1, <1>6, <1>7 DEF Carries, NumbersOK
    <3>3. QED
      BY <3>1, <3>2
  <2>5. OvertakenByOthersOnly'
    BY <1>1 DEF NumbersOK, OvertakenByOthersOnly
  <2>6. QED
    BY <2>1, <2>2, <2>3, <2>4, <2>5 DEF NumbersOK
<1>13. QED
  BY <1>8, <1>9, <1>12

\* The steps from the lock to the header leave messages and numbers alone.
LEMMA NumbersStay ==
  ASSUME NumbersOK, SendingOK, NEW t \in Senders, Carries(t),
         sending' \in [Senders -> {"idle", "made", "locked", "begun"}],
         \A u \in Senders : u # t => sending'[u] = sending[u],
         UNCHANGED <<nextSeq, message, sent>>
  PROVE  NumbersOK'
<1>1. \A u \in Senders : Carries(u)' => Carries(u)
  BY DEF Carries
<1>2. QED
  BY <1>1 DEF NumbersOK, OvertakenByOthersOnly

LEMMA LockKeeps ==
  ASSUME SendingOK, SendersOK, NumbersOK, NEW t \in Senders, Lock(t)
  PROVE  SendingOK' /\ SendersOK' /\ NumbersOK'
<1>1. /\ sendMutex = Nobody /\ sendMutex' = t
      /\ sending[t] = "made" /\ sending' = [sending EXCEPT ![t] = "locked"]
      /\ UNCHANGED <<nextSeq, message, sent, spoilt>>
  BY DEF Lock, Goes
<1>2. /\ sending' \in [Senders -> {"idle", "made", "locked", "begun"}] /\ sending'[t] = "locked"
      /\ \A u \in Senders : u # t => sending'[u] = sending[u]
  BY <1>1 DEF SendingOK
<1>3. SendingOK'
  BY <1>1, <1>2 DEF SendingOK, NotSpoilt
<1>4. \A u \in Senders : ~Writing(u)
  BY <1>1, NobodyAssumption DEF SendersOK
<1>5. SendersOK'
  <2>1. ASSUME NEW u \in Senders PROVE Writing(u)' <=> sendMutex' = u
    BY <1>1, <1>2, <1>4 DEF Writing
  <2>2. ASSUME NEW u \in Senders, Carries(u)' PROVE message'[u] \in Message /\ message'[u].by = u
    BY <2>2, <1>1, <1>2 DEF SendersOK, Carries
  <2>3. QED
    BY <2>1, <2>2 DEF SendersOK
<1>6. Carries(t)
  BY <1>1 DEF Carries
<1>7. QED
  BY <1>1, <1>2, <1>3, <1>5, <1>6, NumbersStay

LEMMA WriteHeaderKeeps ==
  ASSUME SendingOK, SendersOK, NumbersOK, NEW t \in Senders, WriteHeader(t)
  PROVE  SendingOK' /\ SendersOK' /\ NumbersOK'
<1>1. /\ sending[t] = "locked" /\ sending' = [sending EXCEPT ![t] = "begun"]
      /\ UNCHANGED <<nextSeq, sendMutex, message, sent, spoilt>>
  BY DEF WriteHeader, Goes
<1>2. /\ sending' \in [Senders -> {"idle", "made", "locked", "begun"}] /\ sending'[t] = "begun"
      /\ \A u \in Senders : u # t => sending'[u] = sending[u]
  BY <1>1 DEF SendingOK
<1>3. SendingOK'
  BY <1>1, <1>2 DEF SendingOK, NotSpoilt
<1>4. SendersOK'
  <2>1. ASSUME NEW u \in Senders PROVE Writing(u)' <=> sendMutex' = u
    BY <1>1, <1>2 DEF SendersOK, Writing
  <2>2. ASSUME NEW u \in Senders, Carries(u)' PROVE message'[u] \in Message /\ message'[u].by = u
    BY <2>2, <1>1, <1>2 DEF SendersOK, Carries
  <2>3. QED
    BY <2>1, <2>2 DEF SendersOK
<1>5. Carries(t)
  BY <1>1 DEF Carries
<1>6. QED
  BY <1>1, <1>2, <1>3, <1>4, <1>5, NumbersStay

\* The end of a send, whether it succeeded or not.
LEMMA SendEnds ==
  ASSUME SendingOK, SendersOK, NumbersOK, NEW t \in Senders, Writing(t),
         sending' = [sending EXCEPT ![t] = "idle"], message' = [message EXCEPT ![t] = None],
         sendMutex' = Nobody, UNCHANGED <<nextSeq, spoilt>>,
         sent' = sent \/ sent' = Append(sent, message[t])
  PROVE  SendingOK' /\ SendersOK' /\ NumbersOK'
<1> DEFINE m == message[t]
<1>1. /\ sending' \in [Senders -> {"idle", "made", "locked", "begun"}] /\ sending'[t] = "idle"
      /\ \A u \in Senders : u # t => sending'[u] = sending[u]
  BY DEF SendingOK
<1>2. /\ message' \in [Senders -> Message \cup {None}]
      /\ \A u \in Senders : u # t => message'[u] = message[u]
  BY DEF SendingOK
<1>3. Carries(t) /\ m \in Message /\ m.by = t
  BY DEF SendersOK, Writing, Carries
<1>4. sent' \in Seq(Message)
  BY <1>3 DEF SendingOK
<1>5. SendingOK'
  BY <1>1, <1>2, <1>4 DEF SendingOK, NotSpoilt
<1>6. \A u \in Senders : u # t => ~Writing(u)
  BY DEF SendersOK
<1>7. \A u \in Senders : Carries(u)' => u # t /\ Carries(u) /\ message'[u] = message[u]
  BY <1>1, <1>2 DEF Carries
<1>8. SendersOK'
  <2>1. ASSUME NEW u \in Senders PROVE Writing(u)' <=> sendMutex' = u
    BY <1>1, <1>6, NobodyAssumption DEF Writing
  <2>2. ASSUME NEW u \in Senders, Carries(u)' PROVE message'[u] \in Message /\ message'[u].by = u
    BY <2>2, <1>7 DEF SendersOK
  <2>3. QED
    BY <2>1, <2>2 DEF SendersOK
<1> DEFINE l == Len(sent)
<1>9. /\ l \in Nat
      /\ \A i \in 1..Len(sent') : (i \in 1..l /\ sent'[i] = sent[i])
                                  \/ (i = l + 1 /\ sent'[i] = m)
  <2>1. CASE sent' = sent
    BY <2>1 DEF SendingOK
  <2>2. CASE sent' = Append(sent, m)
    BY <2>2 DEF SendingOK
  <2>3. QED
    BY <2>1, <2>2
<1>10. /\ \A u \in Senders : Carries(u) => message[u].seq < nextSeq
       /\ \A u, v \in Senders :
            u # v /\ Carries(u) /\ Carries(v) => message[u].seq # message[v].seq
       /\ \A i \in 1..l : sent[i].seq < nextSeq
       /\ \A i \in 1..l, u \in Senders :
            Carries(u) => /\ sent[i].seq # message[u].seq
                          /\ sent[i].by = u => sent[i].seq < message[u].seq
       /\ \A i, j \in 1..l :
            i < j /\ sent[i].seq >= sent[j].seq => sent[i].by # sent[j].by /\ sent[i].seq # sent[j].seq
  BY Zenon DEF NumbersOK, OvertakenByOthersOnly
<1>11. m.seq \in Nat /\ \A i \in 1..l : sent[i].seq \in Nat
  BY <1>3, NumberIsNatural, SentNumbers
<1> HIDE DEF m, l
<1>12. \A i \in 1..Len(sent') : sent'[i].seq < nextSeq'
  BY <1>3, <1>9, <1>10 DEF m
<1>13. ASSUME NEW i \in 1..Len(sent'), NEW u \in Senders, Carries(u)'
       PROVE  sent'[i].seq # message'[u].seq /\ (sent'[i].by = u => sent'[i].seq < message'[u].seq)
  <2>1. u # t /\ Carries(u) /\ message'[u] = message[u]
    BY <1>7, <1>13
  <2>2. CASE i \in 1..l /\ sent'[i] = sent[i]
    BY <2>1, <2>2, <1>10
  <2>3. CASE sent'[i] = m
    BY <2>1, <2>3, <1>3, <1>10 DEF m
  <2>4. QED
    BY <2>2, <2>3, <1>9
<1>14. ASSUME NEW i \in 1..Len(sent'), NEW j \in 1..Len(sent'), i < j, sent'[i].seq >= sent'[j].seq
       PROVE  sent'[i].by # sent'[j].by /\ sent'[i].seq # sent'[j].seq
  <2>1. i \in 1..l /\ sent'[i] = sent[i]
    BY <1>9, <1>14, <1>4
  <2>2. CASE j \in 1..l /\ sent'[j] = sent[j]
    BY <2>1, <2>2, <1>10, <1>14
  <2>3. CASE sent'[j] = m
    <3>1. sent[i].seq # m.seq /\ (sent[i].by = t => sent[i].seq < m.seq)
      BY <2>1, <1>3, <1>10 DEF m
    <3>2. QED
      BY <2>1, <2>3, <3>1, <1>3, <1>11, <1>14
  <2>4. QED
    BY <2>2, <2>3, <1>9
<1>15. NumbersOK'
  BY <1>7, <1>10, <1>12, <1>13, <1>14 DEF NumbersOK, OvertakenByOthersOnly
<1>16. QED
  BY <1>5, <1>8, <1>15

LEMMA SenderKeeps ==
  ASSUME SendingOK, SendersOK, NumbersOK, NEW t \in Senders, Sender(t)
  PROVE  SendingOK' /\ SendersOK' /\ NumbersOK'
<1>1. CASE Serialize(t)
  BY <1>1, SerializeKeeps
<1>2. CASE Lock(t)
  BY <1>2, LockKeeps
<1>3. CASE WriteHeader(t)
  BY <1>3, WriteHeaderKeeps
<1>4. CASE WriteBody(t)
  <2>1. Writing(t)
    BY <1>4 DEF WriteBody, Goes, Writing
  <2>2. QED
    BY <1>4, <2>1, SendEnds DEF WriteBody, Goes
<1>5. CASE SendFails(t)
  <2>1. Writing(t)
    BY <1>5 DEF SendFails, Writing
  <2>2. QED
    BY <1>5, <2>1, SendEnds DEF SendFails
<1>6. QED
  BY <1>1, <1>2, <1>3, <1>4, <1>5 DEF Sender

\* Every message written has a number of its own below the next one.
LEMMA SentAreFew ==
  ASSUME SendingOK, NumbersOK
  PROVE  Len(sent) \in 0..MaxSends
<1> DEFINE f == [i \in 1..Len(sent) |-> sent[i].seq]
<1>1. Len(sent) \in Nat /\ nextSeq - 1 \in Nat /\ nextSeq - 1 <= MaxSends /\ MaxSends \in Nat
  BY NumbersAssumption DEF SendingOK
<1>2. \A i \in 1..Len(sent) : sent[i].seq \in 1..(nextSeq - 1)
  <2>1. \A i \in 1..Len(sent) : sent[i].seq \in Nat /\ sent[i].seq >= 1 /\ sent[i].seq < nextSeq
    BY SentNumbers DEF NumbersOK
  <2>2. nextSeq \in Nat
    BY NumbersAssumption DEF SendingOK
  <2>3. QED
    BY <2>1, <2>2
<1>3. \A i, j \in 1..Len(sent) : i # j => sent[i].seq # sent[j].seq
  <2>1. \A i, j \in 1..Len(sent) : i < j => sent[i].seq # sent[j].seq
    BY <1>2 DEF NumbersOK, OvertakenByOthersOnly
  <2>2. QED
    BY <2>1
<1>4. f \in Injection(1..Len(sent), 1..(nextSeq - 1))
  <2>1. f \in [1..Len(sent) -> 1..(nextSeq - 1)] /\ DOMAIN f = 1..Len(sent)
    BY <1>2
  <2>2. \A i, j \in 1..Len(sent) : f[i] = f[j] => i = j
    BY <1>3
  <2>3. IsInjective(f)
    BY <2>1, <2>2 DEF IsInjective
  <2>4. QED
    BY <2>1, <2>3 DEF Injection
<1>5. /\ IsFiniteSet(1..(nextSeq - 1)) /\ Cardinality(1..(nextSeq - 1)) = nextSeq - 1
      /\ IsFiniteSet(1..Len(sent)) /\ Cardinality(1..Len(sent)) = Len(sent)
  <2>1. ASSUME NEW n \in Nat PROVE IsFiniteSet(1..n) /\ Cardinality(1..n) = n
    <3>1. IsFiniteSet(1..n) /\ Cardinality(1..n) = IF 1 > n THEN 0 ELSE n - 1 + 1
      BY FS_Interval
    <3>2. QED
      BY <3>1
  <2>2. QED
    BY <1>1, <2>1
<1>6. Cardinality(1..Len(sent)) <= Cardinality(1..(nextSeq - 1))
  BY <1>4, <1>5, FS_Injection
<1>7. QED
  BY <1>1, <1>5, <1>6

-----------------------------------------------------------------------------
(* The stream.                                                             *)

LEMMA Piece ==
  ASSUME NEW s \in Seq(Bytes), NEW n \in 0..Len(s)
  PROVE  /\ SubSeq(s, 1, n) \in Seq(Bytes) /\ Len(SubSeq(s, 1, n)) = n
         /\ \A i \in 1..n : SubSeq(s, 1, n)[i] = s[i]
         /\ SubSeq(s, n + 1, Len(s)) \in Seq(Bytes)
         /\ Len(SubSeq(s, n + 1, Len(s))) = Len(s) - n
         /\ \A i \in 1..(Len(s) - n) : SubSeq(s, n + 1, Len(s))[i] = s[n + i]
<1>1. Len(s) \in Nat /\ n \in Nat
  OBVIOUS
<1>2. SubSeq(s, 1, n) \in Seq(Bytes) /\ Len(SubSeq(s, 1, n)) = n
  BY <1>1
<1>3. \A i \in 1..n : SubSeq(s, 1, n)[i] = s[i]
  BY <1>1
<1>4. SubSeq(s, n + 1, Len(s)) \in Seq(Bytes) /\ Len(SubSeq(s, n + 1, Len(s))) = Len(s) - n
  BY <1>1
<1>5. ASSUME NEW i \in 1..(Len(s) - n) PROVE SubSeq(s, n + 1, Len(s))[i] = s[n + i]
  BY <1>1
<1>6. QED
  BY <1>2, <1>3, <1>4, <1>5

\* Bytes are written at the end of the stream.
LEMMA AheadPuts ==
  ASSUME ReadingOK, NEW W \in Seq(Bytes), NEW p, Ahead(W, p), link, NEW V \in Seq(Bytes),
         Puts(V), UNCHANGED buf, UNCHANGED link
  PROVE  Ahead(W \o V, p)'
<1>1. wire \in Seq(Bytes) /\ buf \in Seq(Bytes) /\ Len(wire) \in Nat /\ Len(buf) \in Nat /\ Len(W) \in Nat
  BY DEF ReadingOK
<1>2. /\ p \in Nat /\ p + Len(buf) + Len(wire) = Len(W)
      /\ \A i \in 1..Len(buf) : buf[i] = W[p + i]
      /\ \A i \in 1..Len(wire) : wire[i] = W[p + Len(buf) + i]
  BY DEF Ahead
<1> DEFINE X == W \o V
<1>3. /\ Len(X) = Len(W) + Len(V) /\ Len(V) \in Nat
      /\ \A i \in 1..Len(W) : X[i] = W[i]
      /\ \A i \in 1..Len(V) : X[Len(W) + i] = V[i]
  BY Joined, Zenon
<1> HIDE DEF X
<1>4. /\ Len(wire') = Len(wire) + Len(V)
      /\ \A i \in 1..Len(wire) : wire'[i] = wire[i]
      /\ \A i \in 1..Len(V) : wire'[Len(wire) + i] = V[i]
  <2>1. /\ Len(wire \o V) = Len(wire) + Len(V)
        /\ \A i \in 1..Len(wire) : (wire \o V)[i] = wire[i]
        /\ \A i \in 1..Len(V) : (wire \o V)[Len(wire) + i] = V[i]
    BY <1>1, Joined, Zenon
  <2>2. wire' = wire \o V
    BY DEF Puts
  <2>3. QED
    BY <2>1, <2>2, Zenon
<1>10. Len(buf') = Len(buf) /\ \A i \in 1..Len(buf) : buf'[i] = buf[i]
  OBVIOUS
<1>11. /\ p \in Nat /\ Len(buf) \in Nat /\ Len(wire) \in Nat /\ Len(V) \in Nat
       /\ p + Len(buf) + Len(wire) = Len(W)
  BY <1>1, <1>2, <1>3
<1>5. p + Len(buf') + Len(wire') = Len(X)
  <2>1. Len(buf') = Len(buf) /\ Len(wire') = Len(wire) + Len(V) /\ Len(X) = Len(W) + Len(V)
    BY <1>3, <1>4, <1>10
  <2>2. QED
    BY <2>1, <1>11
<1>6. \A i \in 1..Len(buf') : buf'[i] = X[p + i]
  <2>1. SUFFICES ASSUME NEW i \in 1..Len(buf) PROVE buf'[i] = X[p + i]
    BY <1>10
  <2>2. p + i \in 1..Len(W)
    BY <1>1, <1>2
  <2>3. QED
    BY <2>2, <1>2, <1>3, <1>10
<1>7. ASSUME NEW i \in 1..Len(wire') PROVE wire'[i] = X[p + Len(buf') + i]
  <2>1. CASE i \in 1..Len(wire)
    <3>1. p + Len(buf) + i \in 1..Len(W)
      BY <2>1, <1>1, <1>2
    <3>2. wire'[i] = W[p + Len(buf) + i]
      BY <2>1, <1>2, <1>4
    <3>3. QED
      BY <3>1, <3>2, <1>3, <1>10
  <2>2. CASE i \notin 1..Len(wire)
    <3>1. PICK j \in 1..Len(V) : i = Len(wire) + j
      <4>1. i - Len(wire) \in 1..Len(V) /\ i = Len(wire) + (i - Len(wire))
        BY <2>2, <1>1, <1>3, <1>4
      <4>2. QED
        BY <4>1
    <3>2. p + Len(buf) + i = Len(W) + j
      BY <3>1, <1>11
    <3>3. QED
      BY <3>1, <3>2, <1>3, <1>4, <1>10
  <2>3. QED
    BY <2>1, <2>2
<1>8. Ahead(X, p)'
  BY <1>2, <1>5, <1>6, <1>7, <1>1, <1>3, <1>4 DEF Ahead
<1>9. QED
  BY <1>8 DEF X

LEMMA AheadBuffer ==
  ASSUME ReadingOK, NEW W \in Seq(Bytes), NEW p, Ahead(W, p), Buffer
  PROVE  Ahead(W, p)'
<1>1. wire \in Seq(Bytes) /\ buf \in Seq(Bytes) /\ Len(wire) \in Nat /\ Len(buf) \in Nat /\ Len(W) \in Nat
  BY DEF ReadingOK
<1>2. /\ p \in Nat /\ p + Len(buf) + Len(wire) <= Len(W)
      /\ link => p + Len(buf) + Len(wire) = Len(W)
      /\ \A i \in 1..Len(buf) : buf[i] = W[p + i]
      /\ \A i \in 1..Len(wire) : wire[i] = W[p + Len(buf) + i]
  BY DEF Ahead
<1>10. PICK n \in 1..Len(wire) : /\ buf' = buf \o SubSeq(wire, 1, n)
                                  /\ wire' = SubSeq(wire, n + 1, Len(wire))
  BY DEF Buffer
<1> DEFINE V == SubSeq(wire, 1, n)
<1>3. n \in 0..Len(wire) /\ n \in Nat
  BY <1>1
<1>4. /\ V \in Seq(Bytes) /\ Len(V) = n /\ \A i \in 1..n : V[i] = wire[i]
      /\ Len(wire') = Len(wire) - n
      /\ \A i \in 1..(Len(wire) - n) : wire'[i] = wire[n + i]
  BY <1>1, <1>3, <1>10, Piece
<1> HIDE DEF V
<1>5. /\ Len(buf') = Len(buf) + n
      /\ \A i \in 1..Len(buf) : buf'[i] = buf[i]
      /\ \A i \in 1..n : buf'[Len(buf) + i] = V[i]
  <2>1. /\ Len(buf \o V) = Len(buf) + Len(V)
        /\ \A i \in 1..Len(buf) : (buf \o V)[i] = buf[i]
        /\ \A i \in 1..Len(V) : (buf \o V)[Len(buf) + i] = V[i]
    BY <1>1, <1>4, Joined, Zenon
  <2>2. buf' = buf \o V
    BY <1>10 DEF V
  <2>3. QED
    BY <2>1, <2>2, <1>4, Zenon
<1>6. p + Len(buf') + Len(wire') = p + Len(buf) + Len(wire)
  BY <1>1, <1>2, <1>3, <1>4, <1>5
<1>7. ASSUME NEW i \in 1..Len(buf') PROVE buf'[i] = W[p + i]
  <2>1. CASE i \in 1..Len(buf)
    BY <2>1, <1>2, <1>5
  <2>2. CASE i \notin 1..Len(buf)
    <3>1. PICK j \in 1..n : i = Len(buf) + j
      <4>1. i - Len(buf) \in 1..n /\ i = Len(buf) + (i - Len(buf))
        BY <2>2, <1>1, <1>3, <1>5
      <4>2. QED
        BY <4>1
    <3>2. buf'[i] = wire[j]
      BY <3>1, <1>4, <1>5
    <3>3. wire[j] = W[p + Len(buf) + j] /\ p + Len(buf) + j = p + i
      BY <3>1, <1>1, <1>2
    <3>4. QED
      BY <3>2, <3>3
  <2>3. QED
    BY <2>1, <2>2
<1>8. ASSUME NEW i \in 1..Len(wire') PROVE wire'[i] = W[p + Len(buf') + i]
  <2>1. i \in 1..(Len(wire) - n) /\ n + i \in 1..Len(wire)
    BY <1>1, <1>3, <1>4
  <2>2. wire'[i] = W[p + Len(buf) + (n + i)]
    BY <2>1, <1>2, <1>4
  <2>3. p + Len(buf) + (n + i) = p + Len(buf') + i
    BY <1>1, <1>2, <1>3, <1>5
  <2>4. QED
    BY <2>2, <2>3
<1>11. link' = link
  BY DEF Buffer
<1>9. QED
  BY <1>2, <1>6, <1>7, <1>8, <1>11 DEF Ahead

\* The reader takes bytes out of buf.
LEMMA AheadPops ==
  ASSUME ReadingOK, NEW W \in Seq(Bytes), NEW p, Ahead(W, p), NEW n \in 0..Len(buf), Pops(n),
         wire' = wire, link' = link
  PROVE  Ahead(W, p + n)'
<1>1. wire \in Seq(Bytes) /\ buf \in Seq(Bytes) /\ Len(wire) \in Nat /\ Len(buf) \in Nat /\ Len(W) \in Nat
  BY DEF ReadingOK
<1>2. /\ p \in Nat /\ p + Len(buf) + Len(wire) <= Len(W)
      /\ link => p + Len(buf) + Len(wire) = Len(W)
      /\ \A i \in 1..Len(buf) : buf[i] = W[p + i]
      /\ \A i \in 1..Len(wire) : wire[i] = W[p + Len(buf) + i]
  BY DEF Ahead
<1>3. /\ Len(buf') = Len(buf) - n
      /\ \A i \in 1..(Len(buf) - n) : buf'[i] = buf[n + i]
  BY <1>1, Piece DEF Pops
<1>4. n \in Nat /\ p + n \in Nat /\ (p + n) + Len(buf') + Len(wire') = p + Len(buf) + Len(wire)
  BY <1>1, <1>2, <1>3
<1>5. ASSUME NEW i \in 1..Len(buf') PROVE buf'[i] = W[(p + n) + i]
  <2>1. i \in 1..(Len(buf) - n) /\ n + i \in 1..Len(buf) /\ p + (n + i) = (p + n) + i
    BY <1>1, <1>2, <1>3, <1>4
  <2>2. QED
    BY <2>1, <1>2, <1>3
<1>6. ASSUME NEW i \in 1..Len(wire') PROVE wire'[i] = W[(p + n) + Len(buf') + i]
  <2>1. (p + n) + Len(buf') + i = p + Len(buf) + i
    BY <1>1, <1>2, <1>3, <1>4
  <2>2. QED
    BY <2>1, <1>2
<1>7. QED
  BY <1>2, <1>4, <1>5, <1>6 DEF Ahead

LEMMA AheadCut ==
  ASSUME ReadingOK, NEW W \in Seq(Bytes), NEW p, Ahead(W, p), Cut
  PROVE  Ahead(W, p)'
<1>1. wire \in Seq(Bytes) /\ buf \in Seq(Bytes) /\ Len(wire) \in Nat /\ Len(buf) \in Nat /\ Len(W) \in Nat
  BY DEF ReadingOK
<1>2. /\ p \in Nat /\ p + Len(buf) + Len(wire) <= Len(W)
      /\ \A i \in 1..Len(buf) : buf[i] = W[p + i]
      /\ \A i \in 1..Len(wire) : wire[i] = W[p + Len(buf) + i]
  BY DEF Ahead
<1>3. PICK n \in 0..Len(wire) : wire' = SubSeq(wire, 1, n)
  BY DEF Cut
<1>4. Len(wire') = n /\ \A i \in 1..n : wire'[i] = wire[i]
  BY <1>1, <1>3, Piece
<1>5. buf' = buf /\ link' = FALSE
  BY DEF Cut, readerVars
<1>6. n \in Nat /\ p + Len(buf) + n <= Len(W)
  BY <1>1, <1>2
<1>7. \A i \in 1..n : i \in 1..Len(wire)
  BY <1>1
<1>8. QED
  BY <1>2, <1>4, <1>5, <1>6, <1>7 DEF Ahead

\* What the reader knows of the stream stays true when more is written.
LEMMA BetweenGrows ==
  ASSUME NEW W \in Seq(Bytes), NEW V \in Seq(Bytes), Stands(V, 0, W),
         NEW c, NEW g, NEW p \in Nat, Between(W, c, p),
         UNCHANGED <<at, len, got>>, g[Len(got)] = c[Len(got)]
  PROVE  Between(V, g, p)'
<1>1. ASSUME Contradicts(W, p, HeaderName) PROVE Contradicts(V, p, HeaderName)
  <2>1. Contradicts(V, 0 + p, HeaderName)
    BY <1>1, ContradictsShift, MarksAreBytes
  <2>2. QED
    BY <2>1
<1>2. QED
  BY <1>1 DEF Between

LEMMA WithinGrows ==
  ASSUME NEW W \in Seq(Bytes), NEW V \in Seq(Bytes), Stands(V, 0, W),
         NEW B, NEW D, NEW c, NEW g, NEW p \in Nat,
         NEW m \in Nat, NEW d \in Nat, NEW k \in Nat, NEW e \in Nat, NEW a,
         Within(W, B, c, p, m, d, k, e, a), c[Len(got)] \in Nat,
         UNCHANGED <<at, len, got>>, g[Len(got)] = c[Len(got)],
         Len(got) < Len(B) => Len(got) < Len(D) /\ D[Len(got) + 1] = B[Len(got) + 1]
  PROVE  Within(V, D, g, p, m, d, k, e, a)'
<1> DEFINE q == c[Len(got)]
<1>1. /\ ReadsLength(W, q + Len(HeaderName), m, d, k, e)
      /\ a \in [0..k -> 0..(SizeLimit - 1)] /\ Lengths(W, d, k, a)
      /\ Announces(W, B, c, k, e, a) \/ Misleads(W, k, e, a)
  BY DEF Within
<1>2. q + Len(HeaderName) \in Nat
  BY MarksAreBytes
<1>3. ReadsLength(V, q + Len(HeaderName), m, d, k, e)
  <2>1. ReadsLength(V, 0 + (q + Len(HeaderName)), m, 0 + d, k, 0 + e)
    BY <1>1, <1>2, ReadsShift
  <2>2. QED
    BY <2>1, <1>2
<1>4. Lengths(V, d, k, a)
  <2>1. d + k < Len(W)
    BY <1>1 DEF ReadsLength
  <2>2. Lengths(V, 0 + d, k, a)
    BY <1>1, <2>1, LengthsShift
  <2>3. QED
    BY <2>2
<1>5. ASSUME Misleads(W, k, e, a) PROVE Misleads(V, k, e, a)
  <2>1. (IF a[k] = 0 THEN HeaderName ELSE Ends) \in Seq(Bytes)
    BY MarksAreBytes
  <2>2. Contradicts(V, 0 + e, IF a[k] = 0 THEN HeaderName ELSE Ends)
    BY <1>5, <2>1, ContradictsShift DEF Misleads
  <2>3. QED
    BY <2>2 DEF Misleads
<1>6. ASSUME Announces(W, B, c, k, e, a) PROVE Announces(V, D, g, k, e, a)'
  BY <1>6 DEF Announces
<1>7. Announces(V, D, g, k, e, a)' \/ Misleads(V, k, e, a)
  BY <1>1, <1>5, <1>6
<1>8. \/ at' = "blank" /\ len' = 0 /\ \E i \in 0..m : p = g[Len(got')] + Len(HeaderName) + i
      \/ at' = "digit" /\ \E i \in 0..k : p = d + i /\ len' = a[i]
      \/ at' = "ends" /\ p = e /\ len' = a[k] /\ len' # 0
      \/ at' = "body" /\ p = e + Len(Ends) /\ len' = a[k] /\ Announces(V, D, g, k, e, a)'
  BY <1>6 DEF Within
<1>9. g[Len(got')] = q
  OBVIOUS
<1>10. QED
  BY <1>1, <1>3, <1>4, <1>7, <1>8, <1>9, Zenon DEF Within

LEMMA LimitIsNatural ==
  ASSUME SendingOK, SpoiltOK
  PROVE  Limit \in Nat /\ Limit <= Len(sent)
<1>1. Len(sent) \in Nat /\ NotSpoilt \in Nat /\ spoilt \in Nat
  BY NumbersAssumption DEF SendingOK, NotSpoilt
<1>2. QED
  BY <1>1 DEF Limit, SpoiltOK

LEMMA FrameTypes ==
  ASSUME NEW W, NEW B, NEW c, Frames(W, B, c), NEW i \in 1..Len(B)
  PROVE  /\ B[i] \in Bodies /\ B[i] \in Seq(Bytes) /\ Len(B[i]) \in Nat
         /\ Header(B[i]) \in Seq(Bytes) /\ Len(Header(B[i])) \in Nat
         /\ c[i - 1] \in Nat /\ c[i] \in Nat
<1>1. B \in Seq(Bodies) /\ c \in [0..Len(B) -> Nat]
  BY DEF Frames
<1>2. Len(B) \in Nat
  BY <1>1
<1>3. B[i] \in Bodies
  BY <1>1
<1>4. Header(B[i]) \in Seq(Bytes) /\ B[i] \in Seq(Bytes) /\ Len(B[i]) \in Nat
  BY <1>3, HeaderBytes, BodyIsText
<1>5. Len(Header(B[i])) \in Nat
  BY <1>4
<1>6. i - 1 \in 0..Len(B) /\ i \in 0..Len(B)
  BY <1>2
<1>7. QED
  BY <1>1, <1>3, <1>4, <1>5, <1>6

LEMMA FramesGrow ==
  ASSUME SendingOK, SpoiltOK, NEW W, NEW V \in Seq(Bytes), Stands(V, 0, W),
         NEW B, NEW c, Frames(W, B, c),
         Limit' = Limit, \A i \in 1..Limit : sent'[i] = sent[i]
  PROVE  Frames(V, B, c)'
<1>1. /\ W \in Seq(Bytes) /\ B \in Seq(Bodies) /\ c \in [0..Len(B) -> Nat]
      /\ c[0] = 0
      /\ \A i \in 1..Len(B) : /\ Stands(W, c[i - 1], Header(B[i]))
                              /\ c[i] = c[i - 1] + Len(Header(B[i])) + Len(B[i])
      /\ Limit <= Len(B)
      /\ \A i \in 1..Limit : /\ B[i] = sent[i].body
                             /\ Stands(W, c[i - 1] + Len(Header(B[i])), B[i])
  BY DEF Frames
<1>2. \A i \in 1..Len(B) : /\ B[i] \in Bodies /\ B[i] \in Seq(Bytes) /\ Header(B[i]) \in Seq(Bytes)
                           /\ Len(Header(B[i])) \in Nat /\ c[i - 1] \in Nat
  BY FrameTypes
<1>3. ASSUME NEW x \in Nat, NEW w \in Seq(Bytes), Stands(W, x, w) PROVE Stands(V, x, w)
  <2>1. Stands(V, 0 + x, w)
    BY <1>1, <1>3, StandsShift
  <2>2. QED
    BY <2>1
<1>4. \A i \in 1..Len(B) : Stands(V, c[i - 1], Header(B[i]))
  BY <1>1, <1>2, <1>3
<1>5. ASSUME NEW i \in 1..Limit
      PROVE  B[i] = sent'[i].body /\ Stands(V, c[i - 1] + Len(Header(B[i])), B[i])
  <2>1. i \in 1..Len(B)
    <3>1. B \in Seq(Bodies) /\ Limit <= Len(B) /\ Limit \in Nat
      BY <1>1, LimitIsNatural
    <3>2. Len(B) \in Nat
      BY <3>1
    <3>3. QED
      BY <3>1, <3>2
  <2>2. c[i - 1] + Len(Header(B[i])) \in Nat
    BY <1>2, <2>1
  <2>3. QED
    BY <1>1, <1>2, <1>3, <2>1, <2>2
<1>6. QED
  BY <1>1, <1>4, <1>5 DEF Frames

\* After junk the frames are complete and what follows them stays refused.
LEMMA BehindJunkGrows ==
  ASSUME NEW W, NEW V \in Seq(Bytes), Stands(V, 0, W), NEW B, NEW c,
         Frames(W, B, c), Behind(W, B, c), spoilt # NotSpoilt, spoilt' = spoilt, Limit' = Limit
  PROVE  Behind(V, B, c)'
<1>1. Len(B) = Limit /\ c[Limit] <= Len(W) /\ Refused(W, c[Limit])
  BY DEF Behind
<1>2. W \in Seq(Bytes) /\ c \in [0..Len(B) -> Nat] /\ B \in Seq(Bodies)
  BY DEF Frames
<1>3. c[Limit] \in Nat
  <2>1. Len(B) \in 0..Len(B)
    BY <1>2
  <2>2. QED
    BY <1>1, <1>2, <2>1
<1>4. Refused(V, 0 + c[Limit])
  BY <1>1, <1>2, <1>3, RefusedShift
<1>5. Len(W) <= Len(V) /\ Len(W) \in Nat /\ Len(V) \in Nat
  BY <1>2 DEF Stands
<1>6. Refused(V, c[Limit]) /\ c[Limit] <= Len(V)
  BY <1>1, <1>3, <1>4, <1>5
<1>7. QED
  BY <1>1, <1>6 DEF Behind, NotSpoilt

\* A header is written behind complete frames.
LEMMA HeaderAdds ==
  ASSUME SendingOK, SpoiltOK, NEW W, NEW B, NEW c, Frames(W, B, c),
         Len(B) = Limit, Len(W) = c[Limit], NEW b \in Bodies,
         spoilt = NotSpoilt, link,
         UNCHANGED <<message, sent, spoilt, link>>,
         NEW t \in Senders, sending'[t] = "begun", message[t].body = b
  PROVE  LET g == [i \in 0..(Len(B) + 1) |->
                     IF i = Len(B) + 1 THEN c[Len(B)] + Len(Header(b)) + Len(b) ELSE c[i]]
         IN  Frames(W \o Header(b), Append(B, b), g)' /\ Behind(W \o Header(b), Append(B, b), g)'
<1> DEFINE g == [i \in 0..(Len(B) + 1) |->
                   IF i = Len(B) + 1 THEN c[Len(B)] + Len(Header(b)) + Len(b) ELSE c[i]]
<1> DEFINE H == Header(b)
<1> DEFINE V == W \o H
<1> DEFINE D == Append(B, b)
<1>1. W \in Seq(Bytes) /\ B \in Seq(Bodies) /\ c \in [0..Len(B) -> Nat] /\ c[0] = 0
  BY DEF Frames
<1>2. H \in Seq(Bytes) /\ b \in Seq(Bytes) /\ Len(b) \in Nat
  BY HeaderBytes, BodyIsText
<1> HIDE DEF H
<1>3. Len(B) \in Nat /\ Len(H) \in Nat /\ Len(B) \in 0..Len(B)
  BY <1>1, <1>2
<1>4. c[Len(B)] \in Nat
  BY <1>1, <1>3
<1>5. /\ V \in Seq(Bytes) /\ Len(V) = Len(W) + Len(H)
      /\ Stands(V, 0, W) /\ Stands(V, Len(W), H)
  BY <1>1, <1>2, Joined, JoinedStand, Zenon
<1> HIDE DEF V
<1>6. /\ D \in Seq(Bodies) /\ Len(D) = Len(B) + 1 /\ D[Len(B) + 1] = b
      /\ \A i \in 1..Len(B) : D[i] = B[i]
  BY <1>1
<1> HIDE DEF D
<1>7. /\ g \in [0..Len(D) -> Nat] /\ \A i \in 0..Len(B) : g[i] = c[i]
      /\ g[Len(B) + 1] = c[Len(B)] + Len(H) + Len(b)
  <2>1. c[Len(B)] + Len(H) + Len(b) \in Nat
    BY <1>2, <1>3, <1>4
  <2>2. \A i \in 0..(Len(B) + 1) : i # Len(B) + 1 => i \in 0..Len(B)
    BY <1>3
  <2>3. g \in [0..(Len(B) + 1) -> Nat]
    BY <1>1, <2>1, <2>2 DEF H
  <2>4. \A i \in 0..Len(B) : i \in 0..(Len(B) + 1) /\ i # Len(B) + 1
    BY <1>3
  <2>5. Len(B) + 1 \in 0..(Len(B) + 1)
    BY <1>3
  <2>6. QED
    BY <1>6, <2>3, <2>4, <2>5 DEF H
<1> HIDE DEF g
<1>8. Limit' = Limit /\ Limit \in Nat
  BY LimitIsNatural DEF Limit, NotSpoilt
<1>9. Frames(V, B, c)'
  BY <1>5, <1>8, FramesGrow
<1>10. /\ \A i \in 1..Len(B) : /\ Stands(V, c[i - 1], Header(B[i]))
                               /\ c[i] = c[i - 1] + Len(Header(B[i])) + Len(B[i])
       /\ \A i \in 1..Limit : /\ B[i] = sent'[i].body
                              /\ Stands(V, c[i - 1] + Len(Header(B[i])), B[i])
  BY <1>8, <1>9 DEF Frames
<1>11. ASSUME NEW i \in 1..Len(D)
       PROVE  /\ Stands(V, g[i - 1], Header(D[i]))
              /\ g[i] = g[i - 1] + Len(Header(D[i])) + Len(D[i])
  <2>1. CASE i = Len(B) + 1
    <3>1. g[i - 1] = c[Len(B)] /\ i - 1 = Len(B)
      BY <2>1, <1>3, <1>7
    <3>2. D[i] = b /\ Header(D[i]) = H
      BY <2>1, <1>6 DEF H
    <3>3. c[Len(B)] = Len(W)
      OBVIOUS
    <3>4. g[i] = c[Len(B)] + Len(H) + Len(b)
      BY <2>1, <1>7
    <3>5. QED
      BY <3>1, <3>2, <3>3, <3>4, <1>5
  <2>2. CASE i # Len(B) + 1
    <3>1. i \in 1..Len(B) /\ i \in 0..Len(B) /\ i - 1 \in 0..Len(B)
      BY <2>2, <1>3, <1>6
    <3>2. D[i] = B[i] /\ g[i] = c[i] /\ g[i - 1] = c[i - 1]
      BY <3>1, <1>6, <1>7
    <3>3. QED
      BY <3>1, <3>2, <1>10
  <2>3. QED
    BY <2>1, <2>2
<1>12. ASSUME NEW i \in 1..Limit
       PROVE  D[i] = sent'[i].body /\ Stands(V, g[i - 1] + Len(Header(D[i])), D[i])
  <2>1. i \in 1..Len(B) /\ i - 1 \in 0..Len(B)
    BY <1>3
  <2>2. D[i] = B[i] /\ g[i - 1] = c[i - 1]
    BY <2>1, <1>6, <1>7
  <2>3. QED
    BY <2>1, <2>2, <1>10
<1>13. g[0] = 0
  <2>1. 0 \in 0..Len(B)
    BY <1>3
  <2>2. QED
    BY <2>1, <1>1, <1>7
<1>14. Limit' <= Len(D)
  BY <1>3, <1>6, <1>8
<1>15. \A i \in 1..Limit' : D[i] = sent'[i].body /\ Stands(V, g[i - 1] + Len(Header(D[i])), D[i])
  BY <1>8, <1>12
<1>16. Frames(V, D, g)'
  BY <1>5, <1>6, <1>7, <1>11, <1>13, <1>14, <1>15 DEF Frames
<1>17. Behind(V, D, g)'
  <2>1. Len(D) = Limit' + 1 /\ D[Limit' + 1] = b
    BY <1>6, <1>8
  <2>2. Limit \in 0..Len(B) /\ g[Limit'] = c[Limit]
    BY <1>3, <1>7, <1>8
  <2>3. Len(V) = g[Limit'] + Len(Header(D[Limit' + 1]))
    BY <1>5, <2>1, <2>2 DEF H
  <2>4. \E u \in Senders : sending'[u] = "begun" /\ message'[u].body = D[Limit' + 1]
    BY <2>1
  <2>5. spoilt' = NotSpoilt
    OBVIOUS
  <2>6. QED
    BY <2>1, <2>3, <2>4, <2>5 DEF Behind, NotSpoilt
<1>18. QED
  BY <1>16, <1>17 DEF V, D, g, H

\* The body is written behind its header.
LEMMA BodyAdds ==
  ASSUME SendingOK, SpoiltOK, NEW W, NEW B, NEW c, Frames(W, B, c),
         NEW l, l = Limit, NEW b, b = B[l + 1],
         Len(B) = l + 1, Len(W) = c[l] + Len(Header(b)),
         spoilt = NotSpoilt, UNCHANGED spoilt,
         NEW x, x.body = b, sent' = Append(sent, x),
         \A t \in Senders : sending'[t] # "begun"
  PROVE  Frames(W \o b, B, c)' /\ Behind(W \o b, B, c)'
<1> DEFINE V == W \o b
<1>1. W \in Seq(Bytes) /\ B \in Seq(Bodies) /\ c \in [0..Len(B) -> Nat]
  BY DEF Frames
<1>2. l \in Nat /\ l = Len(sent) /\ l + 1 \in 1..Len(B)
  BY LimitIsNatural DEF Limit
<1>3. /\ b \in Bodies /\ b \in Seq(Bytes) /\ Len(b) \in Nat
      /\ Header(b) \in Seq(Bytes) /\ Len(Header(b)) \in Nat
      /\ c[l + 1 - 1] \in Nat /\ c[l + 1] \in Nat
  BY <1>2, FrameTypes
<1>4. c[l] \in Nat /\ l + 1 - 1 = l
  BY <1>2, <1>3
<1>5. /\ V \in Seq(Bytes) /\ Len(V) = Len(W) + Len(b)
      /\ Stands(V, 0, W) /\ Stands(V, Len(W), b)
  BY <1>1, <1>3, Joined, JoinedStand, Zenon
<1>6. Len(sent') = l + 1
      /\ sent'[l + 1] = x /\ \A i \in 1..l : sent'[i] = sent[i]
  BY <1>2 DEF SendingOK
<1>7. Limit' = l + 1
  <2>1. Limit' = IF spoilt' = NotSpoilt THEN Len(sent') ELSE spoilt'
    BY DEF Limit, NotSpoilt
  <2>2. QED
    BY <2>1, <1>6
<1>8. c[l + 1] = c[l] + Len(Header(b)) + Len(b)
  <2>1. \A i \in 1..Len(B) : c[i] = c[i - 1] + Len(Header(B[i])) + Len(B[i])
    BY DEF Frames
  <2>2. c[l + 1] = c[l + 1 - 1] + Len(Header(b)) + Len(b)
    BY <1>2, <2>1
  <2>3. QED
    BY <1>4, <2>2
<1> HIDE DEF V
<1>9. ASSUME NEW i \in 1..Len(B)
      PROVE  /\ Stands(V, c[i - 1], Header(B[i]))
             /\ c[i] = c[i - 1] + Len(Header(B[i])) + Len(B[i])
  <2>1. Stands(W, c[i - 1], Header(B[i])) /\ c[i] = c[i - 1] + Len(Header(B[i])) + Len(B[i])
    BY DEF Frames
  <2>2. c[i - 1] \in Nat /\ Header(B[i]) \in Seq(Bytes)
    BY FrameTypes
  <2>3. Stands(V, 0 + c[i - 1], Header(B[i]))
    BY <1>1, <1>5, <2>1, <2>2, StandsShift
  <2>4. 0 + c[i - 1] = c[i - 1]
    BY <2>2
  <2>5. QED
    BY <2>1, <2>3, <2>4
<1>10. ASSUME NEW i \in 1..(l + 1)
       PROVE  B[i] = sent'[i].body /\ Stands(V, c[i - 1] + Len(Header(B[i])), B[i])
  <2>1. CASE i = l + 1
    <3>1. B[i] = b /\ sent'[i] = x /\ i - 1 = l
      BY <2>1, <1>2, <1>6
    <3>2. b = x.body
      OBVIOUS
    <3>3. Len(W) = c[l] + Len(Header(b))
      OBVIOUS
    <3>4. QED
      BY <3>1, <3>2, <3>3, <1>5
  <2>2. CASE i # l + 1
    <3>1. i \in 1..l /\ i \in 1..Limit /\ i \in 1..Len(B)
      BY <2>2, <1>2
    <3>2. B[i] = sent[i].body /\ Stands(W, c[i - 1] + Len(Header(B[i])), B[i])
      BY <3>1 DEF Frames
    <3>8. c[i - 1] \in Nat /\ Len(Header(B[i])) \in Nat /\ B[i] \in Seq(Bytes)
      BY <3>1, FrameTypes
    <3>3. c[i - 1] + Len(Header(B[i])) \in Nat /\ B[i] \in Seq(Bytes)
      BY <3>8
    <3>4. Stands(V, 0 + (c[i - 1] + Len(Header(B[i]))), B[i])
      BY <1>1, <1>5, <3>2, <3>3, StandsShift
    <3>5. 0 + (c[i - 1] + Len(Header(B[i]))) = c[i - 1] + Len(Header(B[i]))
      BY <3>3
    <3>6. sent'[i] = sent[i]
      BY <3>1, <1>6
    <3>7. QED
      BY <3>2, <3>4, <3>5, <3>6
  <2>3. QED
    BY <2>1, <2>2
<1>11. c[0] = 0 /\ Len(B) = l + 1
  BY DEF Frames
<1>12. l + 1 <= Len(B)
  BY <1>2, <1>11
<1>13. Frames(V, B, c)'
  <2>1. Limit' <= Len(B)
    BY <1>7, <1>12
  <2>2. \A i \in 1..Limit' : /\ B[i] = sent'[i].body
                            /\ Stands(V, c[i - 1] + Len(Header(B[i])), B[i])
    BY <1>7, <1>10
  <2>3. QED
    BY <1>1, <1>5, <1>9, <1>11, <2>1, <2>2 DEF Frames
<1>14. Len(V) = c[l + 1]
  <2>1. Len(W) = c[l] + Len(Header(b))
    OBVIOUS
  <2>2. QED
    BY <2>1, <1>3, <1>4, <1>5, <1>8
<1>15. spoilt' = NotSpoilt
  OBVIOUS
<1>18. Len(B) = Limit' /\ Len(V) = c[Limit']
  BY <1>7, <1>11, <1>14
<1>16. Behind(V, B, c)'
  BY <1>15, <1>18, Zenon DEF Behind, NotSpoilt
<1>17. QED
  BY <1>13, <1>16 DEF V

\* Junk is written behind complete frames.
LEMMA JunkAdds ==
  ASSUME SendingOK, SpoiltOK, NEW W, NEW B, NEW c, Frames(W, B, c),
         Len(B) = Limit, Len(W) = c[Limit], NEW j \in Junk,
         spoilt = NotSpoilt, Len(sent) # NotSpoilt,
         spoilt' = Len(sent), UNCHANGED sent
  PROVE  Frames(W \o j, B, c)' /\ Behind(W \o j, B, c)'
<1> DEFINE V == W \o j
<1>1. W \in Seq(Bytes) /\ B \in Seq(Bodies) /\ c \in [0..Len(B) -> Nat]
  BY DEF Frames
<1>2. j \in Seq(Bytes) /\ Refused(j, 0)
  BY JunkAssumption
<1>3. /\ V \in Seq(Bytes) /\ Len(V) = Len(W) + Len(j) /\ Len(j) \in Nat
      /\ Stands(V, 0, W) /\ Stands(V, Len(W), j)
  BY <1>1, <1>2, Joined, JoinedStand, Zenon
<1> HIDE DEF V
<1>4. Limit = Len(sent) /\ Limit' = Limit
  BY DEF Limit, NotSpoilt
<1>5. Frames(V, B, c)'
  BY <1>3, <1>4, FramesGrow
<1>6. Len(W) \in Nat
  BY <1>1
<1>7. Refused(V, Len(W) + 0)
  BY <1>1, <1>2, <1>3, <1>6, RefusedShift
<1>8. Refused(V, c[Limit']) /\ c[Limit'] <= Len(V) /\ Len(B) = Limit' /\ spoilt' # NotSpoilt
  BY <1>3, <1>4, <1>6, <1>7
<1>9. Behind(V, B, c)'
  BY <1>8 DEF Behind, NotSpoilt
<1>10. QED
  BY <1>5, <1>9 DEF V

\* More is written: the reader is where it was in a longer stream.
LEMMA ReadsGrow ==
  ASSUME SendingOK, SpoiltOK, ReadingOK, Len(got) <= Limit, link,
         NEW W, NEW B, NEW c, NEW p, Reads(W, B, c, p),
         NEW V \in Seq(Bytes), Puts(V), UNCHANGED <<readerVars, link>>,
         NEW D, NEW g, Frames(W \o V, D, g)', Behind(W \o V, D, g)',
         \A i \in 0..Len(B) : g[i] = c[i],
         Len(B) <= Len(D) /\ \A i \in 1..Len(B) : D[i] = B[i]
  PROVE  Reads(W \o V, D, g, p)'
<1> DEFINE X == W \o V
<1>1. Frames(W, B, c) /\ Ahead(W, p)
  BY DEF Reads
<1>2. W \in Seq(Bytes) /\ B \in Seq(Bodies) /\ c \in [0..Len(B) -> Nat] /\ Limit <= Len(B)
  BY <1>1 DEF Frames
<1>3. D \in Seq(Bodies) /\ Len(D) \in Nat /\ Len(B) \in Nat
  <2>1. D \in Seq(Bodies)
    BY DEF Frames
  <2>2. QED
    BY <2>1, <1>2
<1>4. X \in Seq(Bytes) /\ Stands(X, 0, W)
  BY <1>2, Joined, JoinedStand, Zenon
<1>5. Len(got) \in Nat /\ Limit \in Nat
  BY LimitIsNatural DEF ReadingOK
<1>6. Len(got) \in 0..Len(B)
  BY <1>2, <1>3, <1>5
<1>7. g[Len(got)] = c[Len(got)] /\ c[Len(got)] \in Nat
  BY <1>2, <1>6
<1>8. Len(got) < Len(B) => Len(got) < Len(D) /\ D[Len(got) + 1] = B[Len(got) + 1]
  <2>1. SUFFICES ASSUME Len(got) < Len(B) PROVE Len(got) + 1 \in 1..Len(B) /\ Len(got) < Len(D)
    OBVIOUS
  <2>2. QED
    BY <2>1, <1>3, <1>5
<1>9. p \in Nat
  BY <1>1 DEF Ahead
<1>10. UNCHANGED <<at, len, got, buf, closed>>
  BY DEF readerVars
<1>11. Ahead(X, p)'
  BY <1>1, <1>2, <1>10, AheadPuts
<1> HIDE DEF X
<1>12. ASSUME Between(W, c, p) PROVE Between(X, g, p)'
  BY <1>2, <1>4, <1>7, <1>9, <1>10, <1>12, BetweenGrows
<1>13. ASSUME NEW m \in Nat, NEW d \in Nat, NEW k \in Nat, NEW e \in Nat,
              NEW a \in [0..k -> 0..(SizeLimit - 1)], Within(W, B, c, p, m, d, k, e, a)
       PROVE  Within(X, D, g, p, m, d, k, e, a)'
  BY <1>2, <1>4, <1>7, <1>8, <1>9, <1>10, <1>13, WithinGrows
<1>14. \/ Between(X, g, p)'
       \/ \E m, d, k, e \in Nat : \E a \in [0..k -> 0..(SizeLimit - 1)] :
            Within(X, D, g, p, m, d, k, e, a)'
  <2>1. CASE Between(W, c, p)
    BY <1>12, <2>1
  <2>2. CASE ~Between(W, c, p)
    <3>1. PICK m, d, k, e \in Nat : \E a \in [0..k -> 0..(SizeLimit - 1)] :
                 Within(W, B, c, p, m, d, k, e, a)
      BY <2>2 DEF Reads
    <3>2. PICK a \in [0..k -> 0..(SizeLimit - 1)] : Within(W, B, c, p, m, d, k, e, a)
      BY <3>1
    <3>3. Within(X, D, g, p, m, d, k, e, a)'
      BY <1>13, <3>2
    <3>4. QED
      BY <3>3
  <2>3. QED
    BY <2>1, <2>2
<1>15. Frames(X, D, g)' /\ Behind(X, D, g)'
  BY DEF X
<1>16. Reads(X, D, g, p)'
  BY <1>11, <1>14, <1>15 DEF Reads
<1>17. QED
  BY <1>16 DEF X

\* What is behind the frames stays while nothing is written.
LEMMA BehindStays ==
  ASSUME NEW W, NEW B, NEW c, Behind(W, B, c), UNCHANGED <<sent, spoilt>>,
         link' => /\ link
                  /\ \A u \in Senders :
                       /\ sending'[u] = "begun" <=> sending[u] = "begun"
                       /\ sending[u] = "begun" => message'[u].body = message[u].body
  PROVE  Behind(W, B, c)'
<1> DEFINE Quiet == \A t \in Senders : sending[t] # "begun"
<1> DEFINE Begun == \E t \in Senders : sending[t] = "begun" /\ message[t].body = B[Limit + 1]
<1>1. Limit' = Limit /\ (spoilt' = NotSpoilt' <=> spoilt = NotSpoilt)
  BY DEF Limit, NotSpoilt
<1>2. link' /\ Quiet => Quiet'
  OBVIOUS
<1>3. link' /\ Begun => Begun'
  <2>1. SUFFICES ASSUME link', Begun PROVE Begun'
    OBVIOUS
  <2>2. PICK t \in Senders : sending[t] = "begun" /\ message[t].body = B[Limit + 1]
    BY <2>1
  <2>3. sending'[t] = "begun" /\ message'[t].body = B[Limit' + 1]
    BY <1>1, <2>1, <2>2
  <2>4. QED
    BY <2>3
<1>4. Behind(W, B, c)' <=>
        \/ /\ spoilt' # NotSpoilt' /\ Len(B) = Limit'
           /\ c[Limit'] <= Len(W) /\ Refused(W, c[Limit'])
        \/ /\ spoilt' = NotSpoilt' /\ Len(B) = Limit'
           /\ Len(W) = c[Limit'] /\ (link' => Quiet')
        \/ /\ spoilt' = NotSpoilt' /\ Len(B) = Limit' + 1
           /\ Len(W) = c[Limit'] + Len(Header(B[Limit' + 1])) /\ (link' => Begun')
  BY Zenon DEF Behind
<1> HIDE DEF Quiet, Begun
<1>5. \/ /\ spoilt # NotSpoilt /\ Len(B) = Limit
         /\ c[Limit] <= Len(W) /\ Refused(W, c[Limit])
      \/ /\ spoilt = NotSpoilt /\ Len(B) = Limit
         /\ Len(W) = c[Limit] /\ (link => Quiet)
      \/ /\ spoilt = NotSpoilt /\ Len(B) = Limit + 1
         /\ Len(W) = c[Limit] + Len(Header(B[Limit + 1])) /\ (link => Begun)
  BY Zenon DEF Behind, Quiet, Begun
<1>6. link' => link
  OBVIOUS
<1>7. QED
  BY <1>1, <1>2, <1>3, <1>4, <1>5, <1>6, Zenon

LEMMA PlaceStays ==
  ASSUME NEW W, NEW B, NEW c, NEW p, UNCHANGED <<at, len, got>>, Reads(W, B, c, p)
  PROVE  \/ Between(W, c, p)'
         \/ \E m, d, k, e \in Nat : \E a \in [0..k -> 0..(SizeLimit - 1)] :
              Within(W, B, c, p, m, d, k, e, a)'
<1>1. CASE Between(W, c, p)
  BY <1>1 DEF Between
<1>2. CASE ~Between(W, c, p)
  <2>1. PICK m, d, k, e \in Nat : \E a \in [0..k -> 0..(SizeLimit - 1)] :
               Within(W, B, c, p, m, d, k, e, a)
    BY <1>2 DEF Reads
  <2>2. PICK a \in [0..k -> 0..(SizeLimit - 1)] : Within(W, B, c, p, m, d, k, e, a)
    BY <2>1
  <2>3. Within(W, B, c, p, m, d, k, e, a)'
    BY <2>2 DEF Within, Announces
  <2>4. QED
    BY <2>3
<1>3. QED
  BY <1>1, <1>2

\* Nothing is written: the stream and the reader stay as they are.
LEMMA ReadsStay ==
  ASSUME NEW W, NEW B, NEW c, NEW p, Reads(W, B, c, p),
         UNCHANGED <<at, len, got, buf, wire, link, sent, spoilt>>,
         link => \A u \in Senders :
                   /\ sending'[u] = "begun" <=> sending[u] = "begun"
                   /\ sending[u] = "begun" => message'[u].body = message[u].body
  PROVE  Reads(W, B, c, p)'
<1>1. Frames(W, B, c) /\ Behind(W, B, c) /\ Ahead(W, p)
  BY DEF Reads
<1>2. Limit' = Limit
  BY DEF Limit, NotSpoilt
<1>3. Frames(W, B, c)'
  BY <1>1, <1>2 DEF Frames
<1>4. Ahead(W, p)'
  BY <1>1 DEF Ahead
<1>5. Behind(W, B, c)'
  BY <1>1, BehindStays
<1>6. \/ Between(W, c, p)'
      \/ \E m, d, k, e \in Nat : \E a \in [0..k -> 0..(SizeLimit - 1)] :
           Within(W, B, c, p, m, d, k, e, a)'
  BY PlaceStays
<1>8. QED
  BY <1>3, <1>4, <1>5, <1>6, Zenon DEF Reads

LEMMA QuietStep ==
  ASSUME ReaderInv,
         UNCHANGED <<readerVars, wire, link, sent, spoilt>>,
         link => \A u \in Senders :
                   /\ sending'[u] = "begun" <=> sending[u] = "begun"
                   /\ sending[u] = "begun" => message'[u].body = message[u].body
  PROVE  ReaderInv'
<1>1. UNCHANGED <<at, len, got, buf, closed, wire, link, sent, spoilt>>
  BY DEF readerVars
<1>2. Len(got') <= Limit'
  BY <1>1 DEF ReaderInv, Limit, NotSpoilt
<1>3. CASE Over
  BY <1>1, <1>2, <1>3 DEF ReaderInv, Over
<1>4. CASE GivesUp
  BY <1>1, <1>2, <1>4 DEF ReaderInv, GivesUp
<1>5. CASE OnStream
  <2>1. PICK W, B, c, p : Reads(W, B, c, p)
    BY <1>5 DEF OnStream
  <2>2. Reads(W, B, c, p)'
    BY <1>1, <2>1, ReadsStay
  <2>3. OnStream'
    BY <1>1, <1>5, <2>2 DEF OnStream
  <2>4. QED
    BY <1>2, <2>3 DEF ReaderInv
<1>6. QED
  BY <1>3, <1>4, <1>5 DEF ReaderInv

LEMMA SpoiltGrows ==
  ASSUME SendingOK, SpoiltOK, ReadingOK, ReaderInv, spoilt # NotSpoilt, link,
         NEW V \in Seq(Bytes), Puts(V), UNCHANGED <<readerVars, link, spoilt>>,
         sent' = sent \/ \E x \in Message : sent' = Append(sent, x)
  PROVE  ReaderInv'
<1>1. PICK W, B, c, p : Reads(W, B, c, p)
  BY DEF ReaderInv, Over, GivesUp, OnStream
<1>2. Frames(W, B, c) /\ Behind(W, B, c)
  BY <1>1 DEF Reads
<1>3. W \in Seq(Bytes) /\ B \in Seq(Bodies) /\ c \in [0..Len(B) -> Nat] /\ Len(B) \in Nat
  <2>1. W \in Seq(Bytes) /\ B \in Seq(Bodies) /\ c \in [0..Len(B) -> Nat]
    BY <1>2 DEF Frames
  <2>2. QED
    BY <2>1
<1>4. W \o V \in Seq(Bytes) /\ Stands(W \o V, 0, W)
  BY <1>3, Joined, JoinedStand, Zenon
<1>5. Limit' = Limit /\ Limit \in Nat /\ Limit <= Len(sent)
  BY LimitIsNatural DEF Limit, NotSpoilt
<1>6. \A i \in 1..Limit : sent'[i] = sent[i]
  <2>1. sent \in Seq(Message) /\ Len(sent) \in Nat
    BY DEF SendingOK
  <2>2. ASSUME NEW i \in 1..Len(sent) PROVE sent'[i] = sent[i]
    <3>1. CASE sent' = sent
      BY <3>1
    <3>2. CASE \E x \in Message : sent' = Append(sent, x)
      <4>1. PICK x \in Message : sent' = Append(sent, x)
        BY <3>2
      <4>2. QED
        BY <2>1, <4>1
    <3>3. QED
      BY <3>1, <3>2
  <2>3. QED
    BY <1>5, <2>1, <2>2
<1>7. Frames(W \o V, B, c)'
  BY <1>2, <1>4, <1>5, <1>6, FramesGrow
<1>8. Behind(W \o V, B, c)'
  BY <1>2, <1>4, <1>5, BehindJunkGrows
<1>9. Len(got) <= Limit
  BY DEF ReaderInv
<1>10. \A i \in 0..Len(B) : c[i] = c[i]
  OBVIOUS
<1>11. Len(B) <= Len(B) /\ \A i \in 1..Len(B) : B[i] = B[i]
  BY <1>3
<1>12. Reads(W \o V, B, c, p)'
  BY <1>1, <1>7, <1>8, <1>9, <1>10, <1>11, ReadsGrow
<1>13. ~closed'
  BY DEF ReaderInv, Over, GivesUp, OnStream, readerVars
<1>14. Len(got') <= Limit'
  BY <1>5, <1>9 DEF readerVars
<1>15. QED
  BY <1>12, <1>13, <1>14 DEF ReaderInv, OnStream

LEMMA HeaderWritten ==
  ASSUME SendingOK, SendersOK, SpoiltOK, ReadingOK, ReaderInv,
         NEW t \in Senders, WriteHeader(t)
  PROVE  ReaderInv'
<1>1. /\ sending[t] = "locked" /\ sending' = [sending EXCEPT ![t] = "begun"]
      /\ UNCHANGED <<message, sent, spoilt, readerVars, link>>
      /\ Puts(Header(message[t].body))
  BY DEF WriteHeader, Goes
<1>2. sending'[t] = "begun"
  BY <1>1 DEF SendingOK
<1>3. \A u \in Senders : sending[u] # "begun"
  BY <1>1 DEF SendersOK, Writing
<1>4. PICK b \in Bodies : b = message[t].body
  BY <1>1, NumberIsNatural DEF SendersOK, Carries
<1>5. Header(b) \in Seq(Bytes)
  BY HeaderBytes
<1>6. CASE ~link
  <2>1. wire' = wire
    BY <1>1, <1>6 DEF Puts
  <2>2. QED
    BY <1>1, <1>6, <2>1, QuietStep
<1>7. CASE link /\ spoilt # NotSpoilt
  <2>1. Puts(Header(b)) /\ UNCHANGED <<readerVars, link, spoilt>> /\ sent' = sent
    BY <1>1, <1>4
  <2>2. QED
    BY <1>5, <1>7, <2>1, SpoiltGrows
<1>8. CASE link /\ spoilt = NotSpoilt
  <2>1. PICK W, B, c, p : Reads(W, B, c, p)
    BY <1>8 DEF ReaderInv, Over, GivesUp, OnStream
  <2>2. Frames(W, B, c) /\ Behind(W, B, c)
    BY <2>1 DEF Reads
  <2>3. Len(B) = Limit /\ Len(W) = c[Limit]
    BY <1>3, <1>8, <2>2 DEF Behind
  <2> DEFINE g == [i \in 0..(Len(B) + 1) |->
                     IF i = Len(B) + 1 THEN c[Len(B)] + Len(Header(b)) + Len(b) ELSE c[i]]
  <2>4. /\ UNCHANGED <<message, sent, spoilt, link>>
        /\ message[t].body = b
    BY <1>1, <1>4
  <2>5. /\ Frames(W \o Header(b), Append(B, b), g)'
        /\ Behind(W \o Header(b), Append(B, b), g)'
    BY <1>2, <1>8, <2>2, <2>3, <2>4, HeaderAdds
  <2>6. B \in Seq(Bodies) /\ Len(B) \in Nat
    <3>1. B \in Seq(Bodies)
      BY <2>2 DEF Frames
    <3>2. QED
      BY <3>1
  <2>7. \A i \in 0..Len(B) : g[i] = c[i]
    <3>1. \A i \in 0..Len(B) : i \in 0..(Len(B) + 1) /\ i # Len(B) + 1
      BY <2>6
    <3>2. QED
      BY <3>1
  <2>8. Len(B) <= Len(Append(B, b)) /\ \A i \in 1..Len(B) : Append(B, b)[i] = B[i]
    BY <2>6
  <2>9. Len(got) <= Limit
    BY DEF ReaderInv
  <2>10. Puts(Header(b)) /\ UNCHANGED <<readerVars, link>>
    BY <1>1, <1>4
  <2> HIDE DEF g
  <2>11. Reads(W \o Header(b), Append(B, b), g, p)'
    BY <1>5, <1>8, <2>1, <2>5, <2>7, <2>8, <2>9, <2>10, ReadsGrow
  <2>12. ~closed' /\ Len(got') <= Limit'
    BY <1>1, <1>8, <2>9 DEF ReaderInv, Over, GivesUp, OnStream, readerVars, Limit, NotSpoilt
  <2>13. QED
    BY <2>11, <2>12 DEF ReaderInv, OnStream
<1>9. QED
  BY <1>6, <1>7, <1>8

LEMMA BodyWritten ==
  ASSUME SendingOK, SendersOK, SpoiltOK, ReadingOK, ReaderInv,
         NEW t \in Senders, WriteBody(t)
  PROVE  ReaderInv'
<1>1. /\ sending[t] = "begun" /\ sending' = [sending EXCEPT ![t] = "idle"]
      /\ UNCHANGED <<spoilt, readerVars, link>>
      /\ sent' = IF link THEN Append(sent, message[t]) ELSE sent
      /\ Puts(message[t].body)
  BY DEF WriteBody, Goes
<1>2. \A u \in Senders : sending[u] = "begun" => u = t
  BY <1>1 DEF SendersOK, Writing
<1>3. \A u \in Senders : sending'[u] # "begun"
  BY <1>1, <1>2 DEF SendingOK
<1>4. message[t] \in Message
  BY <1>1 DEF SendersOK, Carries
<1>5. PICK b \in Bodies : b = message[t].body
  BY <1>4, NumberIsNatural
<1>6. b \in Seq(Bytes)
  BY BodyIsText
<1>7. CASE ~link
  <2>1. wire' = wire /\ sent' = sent
    BY <1>1, <1>7 DEF Puts
  <2>2. QED
    BY <1>1, <1>7, <2>1, QuietStep
<1>8. CASE link /\ spoilt # NotSpoilt
  <2>1. Puts(b) /\ UNCHANGED <<readerVars, link, spoilt>> /\ sent' = Append(sent, message[t])
    BY <1>1, <1>5, <1>8
  <2>2. QED
    BY <1>4, <1>6, <1>8, <2>1, SpoiltGrows
<1>9. CASE link /\ spoilt = NotSpoilt
  <2>1. PICK W, B, c, p : Reads(W, B, c, p)
    BY <1>9 DEF ReaderInv, Over, GivesUp, OnStream
  <2>2. Frames(W, B, c) /\ Behind(W, B, c)
    BY <2>1 DEF Reads
  <2>3. /\ Len(B) = Limit + 1
        /\ Len(W) = c[Limit] + Len(Header(B[Limit + 1]))
        /\ \E u \in Senders : sending[u] = "begun" /\ message[u].body = B[Limit + 1]
    BY <1>1, <1>9, <2>2 DEF Behind
  <2>4. b = B[Limit + 1]
    BY <1>2, <1>5, <2>3
  <2>5. PICK l : l = Limit
    OBVIOUS
  <2>6. /\ b = B[l + 1] /\ Len(B) = l + 1 /\ Len(W) = c[l] + Len(Header(b))
    BY <2>3, <2>4, <2>5
  <2>7. PICK x : x = message[t]
    OBVIOUS
  <2>8. x.body = b /\ sent' = Append(sent, x) /\ spoilt' = spoilt
    BY <1>1, <1>5, <1>9, <2>7
  <2>9. Frames(W \o b, B, c)' /\ Behind(W \o b, B, c)'
    BY <1>3, <1>9, <2>2, <2>5, <2>6, <2>8, BodyAdds
  <2>10. B \in Seq(Bodies) /\ Len(B) \in Nat
    <3>1. B \in Seq(Bodies)
      BY <2>2 DEF Frames
    <3>2. QED
      BY <3>1
  <2>11. Len(B) <= Len(B) /\ (\A i \in 1..Len(B) : B[i] = B[i]) /\ \A i \in 0..Len(B) : c[i] = c[i]
    BY <2>10
  <2>12. Len(got) <= Limit
    BY DEF ReaderInv
  <2>13. Puts(b) /\ UNCHANGED <<readerVars, link>>
    BY <1>1, <1>5
  <2>14. Reads(W \o b, B, c, p)'
    BY <1>6, <1>9, <2>1, <2>9, <2>11, <2>12, <2>13, ReadsGrow
  <2>15. Limit = Len(sent) /\ Limit' = Len(sent') /\ Len(sent') = Len(sent) + 1 /\ Len(sent) \in Nat
    <3>1. sent \in Seq(Message) /\ Len(sent) \in Nat
      BY DEF SendingOK
    <3>2. Len(sent') = Len(sent) + 1
      BY <3>1, <2>8
    <3>3. QED
      BY <3>1, <3>2, <1>9, <2>8 DEF Limit, NotSpoilt
  <2>16. got' = got /\ Len(got) \in Nat
    BY <1>1 DEF readerVars, ReadingOK
  <2>17. Len(got') <= Limit'
    BY <2>12, <2>15, <2>16
  <2>18. ~closed'
    BY <1>1, <1>9 DEF ReaderInv, Over, GivesUp, OnStream, readerVars
  <2>19. QED
    BY <2>14, <2>17, <2>18 DEF ReaderInv, OnStream
<1>10. QED
  BY <1>7, <1>8, <1>9

\* What the senders do leaves the reader somewhere in what was written.
LEMMA SenderReads ==
  ASSUME SendingOK, SendersOK, SpoiltOK, ReadingOK, ReaderInv, NEW t \in Senders, Sender(t)
  PROVE  ReaderInv'
<1> USE DEF SendingOK
<1>1. CASE Serialize(t) \/ Lock(t)
  <2>1. /\ UNCHANGED <<readerVars, wire, link, sent, spoilt>>
        /\ sending[t] # "begun" /\ sending'[t] # "begun"
        /\ \A u \in Senders : u # t => sending'[u] = sending[u] /\ message'[u] = message[u]
    BY <1>1 DEF Serialize, Lock, Goes
  <2>2. QED
    BY <2>1, QuietStep
<1>2. CASE WriteHeader(t)
  BY <1>2, HeaderWritten
<1>3. CASE WriteBody(t)
  BY <1>3, BodyWritten
<1>4. CASE SendFails(t)
  BY <1>4, QuietStep DEF SendFails
<1>5. QED
  BY <1>1, <1>2, <1>3, <1>4 DEF Sender

LEMMA SpoilReads ==
  ASSUME SendingOK, SendersOK, NumbersOK, SpoiltOK, ReadingOK, ReaderInv, Spoil
  PROVE  ReaderInv'
<1>1. /\ spoilt = NotSpoilt /\ link /\ sendMutex = Nobody /\ spoilt' = Len(sent)
      /\ UNCHANGED <<sending, message, sent, readerVars, link>>
  BY DEF Spoil
<1>2. PICK j \in Junk : Puts(j)
  BY DEF Spoil
<1>3. j \in Seq(Bytes)
  BY JunkAssumption
<1>4. Len(sent) # NotSpoilt
  BY SentAreFew, NumbersAssumption DEF NotSpoilt
<1>5. PICK W, B, c, p : Reads(W, B, c, p)
  BY <1>1 DEF ReaderInv, Over, GivesUp, OnStream
<1>6. Frames(W, B, c) /\ Behind(W, B, c)
  BY <1>5 DEF Reads
<1>7. \A u \in Senders : sending[u] # "begun"
  BY <1>1, NobodyAssumption DEF SendersOK, Writing
<1>8. Len(B) = Limit /\ Len(W) = c[Limit]
  BY <1>1, <1>6, <1>7 DEF Behind
<1>9. Frames(W \o j, B, c)' /\ Behind(W \o j, B, c)'
  BY <1>1, <1>4, <1>6, <1>8, JunkAdds
<1>10. Len(got) <= Limit
  BY DEF ReaderInv
<1>11. Len(B) <= Len(B) /\ (\A i \in 1..Len(B) : B[i] = B[i]) /\ \A i \in 0..Len(B) : c[i] = c[i]
  <2>1. B \in Seq(Bodies)
    BY <1>6 DEF Frames
  <2>2. QED
    BY <2>1
<1>12. Reads(W \o j, B, c, p)'
  BY <1>1, <1>2, <1>3, <1>5, <1>9, <1>10, <1>11, ReadsGrow
<1>13. ~closed' /\ Len(got') <= Limit'
  BY <1>1, <1>4, <1>10 DEF ReaderInv, Over, GivesUp, OnStream, readerVars, Limit, NotSpoilt
<1>14. QED
  BY <1>12, <1>13 DEF ReaderInv, OnStream

\* What arrives of a connection that is lost is a part of what was sent.
LEMMA CutReads ==
  ASSUME ReadingOK, ReaderInv, Cut
  PROVE  ReaderInv'
<1>1. /\ link /\ ~link' /\ UNCHANGED <<sending, message, sent, spoilt>>
      /\ UNCHANGED <<at, buf, len, closed, got>>
  BY DEF Cut, senderVars, readerVars
<1>2. PICK W, B, c, p : Reads(W, B, c, p)
  BY <1>1 DEF ReaderInv, Over, GivesUp, OnStream
<1>3. Frames(W, B, c) /\ Behind(W, B, c) /\ Ahead(W, p)
  BY <1>2 DEF Reads
<1>4. Limit' = Limit
  BY <1>1 DEF Limit, NotSpoilt
<1>5. W \in Seq(Bytes) /\ Ahead(W, p)'
  <2>1. W \in Seq(Bytes)
    BY <1>3 DEF Frames
  <2>2. QED
    BY <1>3, <2>1, AheadCut
<1>6. Frames(W, B, c)'
  BY <1>1, <1>3, <1>4 DEF Frames
<1>7. Behind(W, B, c)'
  BY <1>1, <1>3, BehindStays
<1>8. \/ Between(W, c, p)'
      \/ \E m, d, k, e \in Nat : \E a \in [0..k -> 0..(SizeLimit - 1)] :
           Within(W, B, c, p, m, d, k, e, a)'
  BY <1>1, <1>2, PlaceStays
<1>10. Reads(W, B, c, p)'
  BY <1>5, <1>6, <1>7, <1>8, Zenon DEF Reads
<1>11. ~closed' /\ Len(got') <= Limit'
  BY <1>1, <1>4 DEF ReaderInv, Over, GivesUp, OnStream
<1>12. QED
  BY <1>10, <1>11 DEF ReaderInv, OnStream

\* The types of what the reader has, in the steps of the others.
LEMMA PutsBytes ==
  ASSUME ReadingOK, NEW V \in Seq(Bytes), Puts(V), UNCHANGED <<readerVars, link>>
  PROVE  ReadingOK'
<1>1. wire \o V \in Seq(Bytes)
  BY Joined, Zenon DEF ReadingOK
<1>2. wire' \in Seq(Bytes)
  BY <1>1 DEF Puts, ReadingOK
<1>3. QED
  BY <1>2 DEF ReadingOK, readerVars

LEMMA OthersKeepReading ==
  ASSUME SendingOK, SendersOK, ReadingOK, (\E t \in Senders : Sender(t)) \/ Spoil \/ Cut
  PROVE  ReadingOK'
<1>1. ASSUME NEW t \in Senders, Sender(t) PROVE ReadingOK'
  <2>1. CASE Serialize(t) \/ Lock(t) \/ SendFails(t)
    <3>1. UNCHANGED <<readerVars, wire, link>>
      BY <2>1 DEF Serialize, Lock, SendFails
    <3>2. QED
      BY <3>1 DEF ReadingOK, readerVars
  <2>2. CASE WriteHeader(t) \/ WriteBody(t)
    <3>1. Carries(t)
      BY <2>2 DEF WriteHeader, WriteBody, Goes, Carries
    <3>2. PICK b \in Bodies : b = message[t].body
      BY <3>1, NumberIsNatural DEF SendersOK
    <3>3. Header(b) \in Seq(Bytes) /\ b \in Seq(Bytes)
      BY HeaderBytes, BodyIsText
    <3>4. Puts(Header(b)) \/ Puts(b)
      BY <2>2, <3>2 DEF WriteHeader, WriteBody
    <3>5. UNCHANGED <<readerVars, link>>
      BY <2>2 DEF WriteHeader, WriteBody
    <3>6. QED
      BY <3>3, <3>4, <3>5, PutsBytes
  <2>3. QED
    BY <1>1, <2>1, <2>2 DEF Sender
<1>2. ASSUME Spoil PROVE ReadingOK'
  <2>1. PICK j \in Junk : Puts(j)
    BY <1>2 DEF Spoil
  <2>2. j \in Seq(Bytes) /\ UNCHANGED <<readerVars, link>>
    BY <1>2, JunkAssumption DEF Spoil
  <2>3. QED
    BY <2>1, <2>2, PutsBytes
<1>3. ASSUME Cut PROVE ReadingOK'
  <2>1. PICK n \in 0..Len(wire) : wire' = SubSeq(wire, 1, n)
    BY <1>3 DEF Cut
  <2>2. SubSeq(wire, 1, n) \in Seq(Bytes)
    BY Piece DEF ReadingOK
  <2>3. wire' \in Seq(Bytes) /\ link' = FALSE /\ UNCHANGED <<at, buf, len, closed, got>>
    BY <1>3, <2>1, <2>2 DEF Cut, readerVars
  <2>4. QED
    BY <2>3 DEF ReadingOK
<1>4. QED
  BY <1>1, <1>2, <1>3

\* And of what the senders have, in the steps of the others.
LEMMA OthersKeepSending ==
  ASSUME SendingOK, SendersOK, NumbersOK, SpoiltOK, Spoil \/ Cut \/ Receiver \/ UNCHANGED vars
  PROVE  SendingOK' /\ SendersOK' /\ NumbersOK' /\ SpoiltOK'
<1>1. UNCHANGED <<nextSeq, sendMutex, sending, message, sent>>
  BY DEF Spoil, Cut, Receiver, Loop, Buffer, Name, Blank, Digit, EndOfHeader, Body,
         Continues, BadHeader, senderVars, vars
<1>2. spoilt' = spoilt \/ spoilt' = Len(sent)
  BY DEF Spoil, Cut, Receiver, Loop, Buffer, Name, Blank, Digit, EndOfHeader, Body,
         Continues, BadHeader, senderVars, vars
<1>3. Len(sent) \in 0..NotSpoilt
  BY SentAreFew, NumbersAssumption DEF NotSpoilt
<1>4. SendingOK'
  BY <1>1, <1>2, <1>3 DEF SendingOK, NotSpoilt
<1>5. SendersOK'
  BY <1>1 DEF SendersOK, Writing, Carries
<1>6. NumbersOK'
  BY <1>1 DEF NumbersOK, OvertakenByOthersOnly, Carries
<1>7. SpoiltOK'
  BY <1>1, <1>2, <1>3 DEF SpoiltOK, NotSpoilt
<1>8. QED
  BY <1>4, <1>5, <1>6, <1>7

LEMMA SendersKeepSpoilt ==
  ASSUME SendingOK, SpoiltOK, NEW t \in Senders, Sender(t)
  PROVE  SpoiltOK'
<1>1. spoilt' = spoilt /\ (sent' = sent \/ sent' = Append(sent, message[t]))
  BY DEF Sender, Serialize, Lock, WriteHeader, WriteBody, SendFails
<1>2. spoilt \in Nat /\ Len(sent) \in Nat /\ Len(sent') \in Nat /\ Len(sent) <= Len(sent')
  <2>1. sent \in Seq(Message) /\ message[t] \in Message \cup {None}
    BY DEF SendingOK
  <2>2. Len(sent) \in Nat /\ Len(sent') \in Nat /\ Len(sent) <= Len(sent')
    BY <1>1, <2>1
  <2>3. QED
    BY <2>2, NumbersAssumption DEF SendingOK, NotSpoilt
<1>3. QED
  BY <1>1, <1>2 DEF SpoiltOK, NotSpoilt

-----------------------------------------------------------------------------
(* The receiver.                                                           *)

LEMMA MarksDiffer ==
  /\ Nul \notin Blanks
  /\ HeaderName[1] # Brace
<1>1. "NUL" # Space /\ "NUL" # "\t" /\ "Content" # Brace
  BY Zenon DEF Space, Brace
<1>2. HeaderName[1] = "Content"
  BY DEF HeaderName
<1>3. QED
  BY <1>1, <1>2 DEF Blanks, Nul

LEMMA Asked ==
  /\ at = "name" => Wanted = Len(HeaderName)
  /\ at = "ends" => Wanted = Len(Ends)
  /\ at \in {"blank", "digit"} => Wanted = 1
  /\ at = "body" => Wanted = len
  /\ at \in {"loop", "ended"} => Wanted = 0
BY DEF Wanted

LEMMA NumeralIsNatural ==
  ASSUME NEW x \in Numerals, NEW n \in Nat
  PROVE  (n * Base + Numeral(x)) % SizeLimit \in 0..(SizeLimit - 1)
<1>1. PICK d \in 1..Base : x = Digits[d]
  BY DEF Numerals
<1>2. d - 1 \in 0..(Base - 1) /\ d = (d - 1) + 1
  BY NumbersAssumption
<1>3. Numeral(x) = d - 1
  BY <1>1, <1>2, DigitIsNumeral
<1>4. n * Base \in Nat
  BY NumbersAssumption
<1>5. n * Base + Numeral(x) \in Nat
  BY <1>2, <1>3, <1>4, NumbersAssumption
<1> DEFINE y == n * Base + Numeral(x)
<1> HIDE DEF y
<1>6. y \in Nat => y % SizeLimit \in 0..(SizeLimit - 1)
  BY NumbersAssumption
<1>7. QED
  BY <1>5, <1>6 DEF y

LEMMA PopsBytes ==
  ASSUME ReadingOK, NEW n \in 0..Len(buf), Pops(n)
  PROVE  buf' \in Seq(Bytes)
BY Piece DEF Pops, ReadingOK

\* What the receiver does to what it has.
LEMMA ReceiverKeepsReading ==
  ASSUME ReadingOK, Receiver
  PROVE  ReadingOK'
<1> USE DEF ReadingOK
<1>1. CASE Loop
  BY <1>1, NumbersAssumption DEF Loop, Continues
<1>2. CASE Buffer
  <2>1. PICK n \in 1..Len(wire) : /\ buf' = buf \o SubSeq(wire, 1, n)
                                   /\ wire' = SubSeq(wire, n + 1, Len(wire))
    BY <1>2 DEF Buffer
  <2>2. n \in 0..Len(wire)
    OBVIOUS
  <2>3. SubSeq(wire, 1, n) \in Seq(Bytes) /\ SubSeq(wire, n + 1, Len(wire)) \in Seq(Bytes)
    BY <2>2, Piece
  <2>4. buf \o SubSeq(wire, 1, n) \in Seq(Bytes)
    BY <2>3, Joined, Zenon
  <2>5. UNCHANGED <<link, at, len, closed, got>>
    BY <1>2 DEF Buffer
  <2>6. QED
    BY <2>1, <2>3, <2>4, <2>5
<1>3. ASSUME BadHeader PROVE ReadingOK'
  <2>1. /\ at' = "loop" /\ closed' = TRUE /\ link' = FALSE /\ wire' = <<>>
        /\ buf' = buf /\ len' = len /\ got' = got
    BY <1>3 DEF BadHeader
  <2>2. <<>> \in Seq(Bytes)
    OBVIOUS
  <2>3. QED
    BY <2>1, <2>2
<1>4. ASSUME Matches(HeaderName) \/ Matches(Ends) PROVE Wanted \in 0..Len(buf)
  <2>1. Len(buf) >= Wanted /\ Len(buf) \in Nat
    BY <1>4 DEF Matches, Buffered
  <2>2. Wanted \in Nat
    BY NumbersAssumption, MarksAreBytes, Asked
  <2>3. QED
    BY <2>1, <2>2
<1>5. CASE Name
  <2>1. CASE Matches(HeaderName) /\ Pops(Wanted) /\ Continues("blank") /\ UNCHANGED len
    <3>1. buf' \in Seq(Bytes)
      BY <2>1, <1>4, PopsBytes
    <3>2. QED
      BY <2>1, <3>1 DEF Continues
  <2>2. QED
    BY <1>3, <1>5, <2>1 DEF Name
<1>6. CASE EndOfHeader
  <2>1. CASE Matches(Ends) /\ Pops(Wanted) /\ Continues("body") /\ UNCHANGED len
    <3>1. buf' \in Seq(Bytes)
      BY <2>1, <1>4, PopsBytes
    <3>2. QED
      BY <2>1, <3>1 DEF Continues
  <2>2. QED
    BY <1>3, <1>6, <2>1 DEF EndOfHeader
<1>7. ASSUME Buffered, at \in {"blank", "digit"}, Pops(1) PROVE buf' \in Seq(Bytes)
  <2>1. 1 \in 0..Len(buf)
    BY <1>7, Asked DEF Buffered
  <2>2. QED
    BY <1>7, <2>1, PopsBytes
<1>8. CASE Blank
  <2>1. buf' \in Seq(Bytes)
    BY <1>7, <1>8 DEF Blank, Skips
  <2>2. QED
    BY <1>8, <2>1 DEF Blank, Continues
<1>9. CASE Digit
  <2>1. buf' \in Seq(Bytes)
    BY <1>7, <1>9 DEF Digit, Skips
  <2>2. AfterLength \in {"loop", "ends"}
    BY DEF AfterLength
  <2>3. len' \in 0..(SizeLimit - 1)
    <3>1. len \in Nat
      BY NumbersAssumption
    <3>2. CASE buf[1] \in Numerals /\ len' = (len * Base + Numeral(buf[1])) % SizeLimit
      BY <3>1, <3>2, NumeralIsNatural
    <3>3. QED
      BY <1>9, <3>2 DEF Digit
  <2>4. at' \in {"digit", "loop", "ends"} /\ UNCHANGED <<link, closed, wire, got>>
    BY <1>9, <2>2 DEF Digit, Continues
  <2>5. QED
    BY <2>1, <2>3, <2>4
<1>10. CASE Body
  <2>1. CASE Buffered /\ Pops(len) /\ got' = Append(got, SubSeq(buf, 1, len))
    <3>1. len \in 0..Len(buf)
      BY <1>10, <2>1, Asked, NumbersAssumption DEF Body, Buffered
    <3>2. buf' \in Seq(Bytes) /\ SubSeq(buf, 1, len) \in Seq(Bytes)
      BY <2>1, <3>1, PopsBytes, Piece
    <3>3. got' \in Seq(Seq(Bytes))
      BY <2>1, <3>2
    <3>4. QED
      BY <1>10, <3>2, <3>3 DEF Body
  <2>2. CASE UNCHANGED <<buf, got>>
    BY <1>10, <2>2 DEF Body
  <2>3. QED
    BY <1>10, <2>1, <2>2 DEF Body
<1>11. QED
  BY <1>1, <1>2, <1>5, <1>6, <1>8, <1>9, <1>10 DEF Receiver

\* Where the connection is lost and the reader has seen it.
LEMMA OverMoves ==
  ASSUME Over, ReadingOK, Receiver
  PROVE  Over'
<1>1. at \in {"loop", "ended"} /\ Wanted = 0 /\ Len(buf) \in Nat
  BY Asked DEF Over, ReadingOK
<1>2. Loop
  BY <1>1 DEF Receiver, Buffer, Name, Blank, Digit, EndOfHeader, Body
<1>3. QED
  BY <1>2 DEF Over, Loop, Continues

LEMMA GivesUpMoves ==
  ASSUME GivesUp, ReadingOK, Receiver
  PROVE  Over' \/ GivesUp'
<1>1. Len(buf) \in Nat /\ (buf = <<>> => Len(buf) = 0)
  BY DEF ReadingOK
<1>2. CASE Loop
  <2>1. UNCHANGED <<buf, wire, link, closed>> /\ at' \in {"name", "ended"}
    BY <1>2 DEF Loop, Continues
  <2>2. at = "loop"
    BY <1>2 DEF Loop
  <2>3. QED
    BY <2>1, <2>2 DEF GivesUp, Over
<1>3. ~Buffer
  BY DEF Buffer, GivesUp
<1>4. ASSUME BadHeader PROVE Over'
  BY <1>4 DEF BadHeader, Over
<1>5. CASE Name
  <2>1. ASSUME Matches(HeaderName) PROVE FALSE
    <3>1. Len(buf) >= 3 /\ SubSeq(buf, 1, 3) = HeaderName
      BY <1>5, <2>1, Asked, MarksAreBytes DEF Matches, Buffered, Name
    <3>2. buf[1] = HeaderName[1]
      <4>1. 3 \in 0..Len(buf) /\ 1 \in 1..3
        BY <1>1, <3>1
      <4>2. SubSeq(buf, 1, 3)[1] = buf[1]
        BY <4>1, Piece DEF ReadingOK
      <4>3. QED
        BY <3>1, <4>2
    <3>3. QED
      BY <1>1, <3>1, <3>2, MarksDiffer DEF GivesUp
  <2>2. QED
    BY <1>4, <1>5, <2>1 DEF Name
<1>6. CASE Blank
  <2>1. Wanted = 1 /\ buf = <<>>
    BY <1>6, Asked DEF Blank, GivesUp
  <2>2. ~Buffered
    BY <1>1, <2>1 DEF Buffered
  <2>3. at' = "digit" /\ UNCHANGED <<buf, wire, link, closed>>
    BY <1>6, <2>2 DEF Blank, Skips, Continues
  <2>4. QED
    BY <2>1, <2>3 DEF GivesUp
<1>7. CASE Digit
  <2>1. Wanted = 1 /\ buf = <<>>
    BY <1>7, Asked DEF Digit, GivesUp
  <2>2. ~Buffered
    BY <1>1, <2>1 DEF Buffered
  <2>3. at' = AfterLength /\ UNCHANGED <<buf, wire, link, closed>>
    BY <1>7, <2>2 DEF Digit, Skips, Continues
  <2>4. QED
    BY <2>1, <2>3 DEF GivesUp, AfterLength
<1>8. CASE EndOfHeader
  <2>1. Wanted = 2 /\ buf = <<>>
    BY <1>8, Asked, MarksAreBytes DEF EndOfHeader, GivesUp
  <2>2. ~Buffered
    BY <1>1, <2>1 DEF Buffered
  <2>3. QED
    BY <1>4, <1>8, <2>2 DEF EndOfHeader, Matches
<1>9. ~Body
  BY DEF Body, GivesUp
<1>10. QED
  BY <1>2, <1>3, <1>5, <1>6, <1>7, <1>8, <1>9 DEF Receiver

\* Somewhere in the stream: the facts every step needs.
LEMMA StreamTypes ==
  ASSUME SendingOK, SpoiltOK, ReadingOK, Len(got) <= Limit, NEW W, NEW B, NEW c, Frames(W, B, c)
  PROVE  /\ W \in Seq(Bytes) /\ Len(W) \in Nat
         /\ B \in Seq(Bodies) /\ Len(B) \in Nat
         /\ Len(got) \in 0..Len(B) /\ c[Len(got)] \in Nat
         /\ Limit \in Nat /\ Limit <= Len(B)
         /\ Len(got) < Len(B) => Len(got) + 1 \in 1..Len(B)
<1>1. /\ W \in Seq(Bytes) /\ B \in Seq(Bodies) /\ c \in [0..Len(B) -> Nat] /\ Limit <= Len(B)
  BY DEF Frames
<1>2. Len(W) \in Nat /\ Len(B) \in Nat /\ Limit \in Nat /\ Len(got) \in Nat
  BY <1>1, LimitIsNatural DEF ReadingOK
<1>3. Len(got) \in 0..Len(B) /\ (Len(got) < Len(B) => Len(got) + 1 \in 1..Len(B))
  BY <1>1, <1>2
<1>4. QED
  BY <1>1, <1>2, <1>3

LEMMA MovesOn ==
  ASSUME NEW W, NEW B, NEW c, Frames(W, B, c), Behind(W, B, c),
         UNCHANGED <<senderVars, link>>, ~closed', Len(got') <= Limit,
         NEW q, Ahead(W, q)',
         \/ Between(W, c, q)'
         \/ \E m, d, k, e \in Nat : \E a \in [0..k -> 0..(SizeLimit - 1)] :
              Within(W, B, c, q, m, d, k, e, a)'
  PROVE  ReaderInv'
<1>1. UNCHANGED <<sending, message, sent, spoilt>>
  BY DEF senderVars
<1>2. Limit' = Limit
  BY <1>1 DEF Limit, NotSpoilt
<1>3. Frames(W, B, c)'
  BY <1>1, <1>2 DEF Frames
<1>4. Behind(W, B, c)'
  BY <1>1, BehindStays
<1>5. Reads(W, B, c, q)'
  BY <1>3, <1>4, Zenon DEF Reads
<1>6. QED
  BY <1>2, <1>5 DEF ReaderInv, OnStream

LEMMA RefusesInput ==
  ASSUME Len(got) <= Limit, BadHeader
  PROVE  ReaderInv'
<1>1. UNCHANGED <<sent, spoilt, got>>
  BY DEF BadHeader, senderVars
<1>2. Len(got') <= Limit'
  BY <1>1 DEF Limit, NotSpoilt
<1>3. Over'
  BY DEF BadHeader, Over
<1>4. QED
  BY <1>2, <1>3 DEF ReaderInv

LEMMA RunsDry ==
  ASSUME Len(got) <= Limit, UNCHANGED senderVars, UNCHANGED <<buf, wire, link, closed, got>>,
         ~link, ~closed, wire = <<>>,
         \/ buf = <<>> /\ at' \in {"loop", "name", "blank", "digit", "ends"}
         \/ buf # <<>> /\ buf[1] = Brace /\ at' \in {"loop", "name"}
  PROVE  ReaderInv'
<1>1. Len(got') <= Limit'
  BY DEF Limit, NotSpoilt, senderVars
<1>2. GivesUp'
  BY DEF GivesUp
<1>3. QED
  BY <1>1, <1>2 DEF ReaderInv

\* The next byte of a blank or a digit.
LEMMA NextByte ==
  ASSUME ReadingOK, at \in {"blank", "digit"}, NEW W \in Seq(Bytes), NEW p, Ahead(W, p)
  PROVE  /\ Buffered => /\ 1 \in 0..Len(buf) /\ buf[1] = W[p + 1] /\ p + 1 <= Len(W)
         /\ Exhausted => buf = <<>> /\ wire = <<>> /\ ~link
<1>1. Wanted = 1 /\ Len(buf) \in Nat /\ Len(wire) \in Nat /\ Len(W) \in Nat /\ p \in Nat
  BY Asked DEF ReadingOK, Ahead
<1>2. ASSUME Buffered PROVE 1 \in 0..Len(buf) /\ buf[1] = W[p + 1] /\ p + 1 <= Len(W)
  BY <1>1, <1>2 DEF Buffered, Ahead
<1>3. ASSUME Exhausted PROVE buf = <<>> /\ wire = <<>> /\ ~link
  <2>1. Len(buf) = 0 /\ wire = <<>> /\ ~link
    BY <1>1, <1>3 DEF Exhausted
  <2>2. QED
    BY <2>1 DEF ReadingOK
<1>4. QED
  BY <1>2, <1>3

\* What is in buf stands in the stream.
LEMMA MatchStands ==
  ASSUME ReadingOK, NEW W \in Seq(Bytes), NEW p, Ahead(W, p), NEW w \in Seq(Bytes),
         Len(buf) >= Len(w), SubSeq(buf, 1, Len(w)) = w
  PROVE  Stands(W, p, w) /\ ~Contradicts(W, p, w)
<1>1. Len(buf) \in Nat /\ Len(wire) \in Nat /\ Len(W) \in Nat /\ p \in Nat /\ Len(w) \in 0..Len(buf)
  BY DEF ReadingOK, Ahead
<1>2. p + Len(w) <= Len(W)
  BY <1>1 DEF Ahead
<1>3. \A i \in 1..Len(w) : w[i] = buf[i]
  BY <1>1, Piece DEF ReadingOK
<1>4. \A i \in 1..Len(w) : W[p + i] = w[i]
  BY <1>1, <1>3 DEF Ahead
<1>5. QED
  BY <1>2, <1>4 DEF Stands, Contradicts

LEMMA LoopMoves ==
  ASSUME Len(got) <= Limit, ~closed, NEW W, NEW B, NEW c, NEW p, Reads(W, B, c, p), Loop
  PROVE  ReaderInv'
<1>1. /\ at = "loop" /\ UNCHANGED <<senderVars, link, wire, closed, got, buf>>
      /\ (at' = "name" /\ len' = 0) \/ (at' = "ended" /\ ~link)
  BY DEF Loop, Continues
<1>2. CASE at' = "name" /\ len' = 0
  <2>1. Frames(W, B, c) /\ Behind(W, B, c) /\ Ahead(W, p)
    BY DEF Reads
  <2>2. Between(W, c, p)
    BY <1>1 DEF Reads, Within
  <2>3. Between(W, c, p)'
    BY <1>1, <1>2, <2>2 DEF Between
  <2>4. Ahead(W, p)'
    BY <1>1, <2>1 DEF Ahead
  <2>5. QED
    BY <1>1, <2>1, <2>3, <2>4, MovesOn
<1>3. CASE at' = "ended" /\ ~link
  <2>1. Len(got') <= Limit'
    BY <1>1 DEF Limit, NotSpoilt, senderVars
  <2>2. QED
    BY <1>1, <1>3, <2>1 DEF ReaderInv, Over
<1>4. QED
  BY <1>1, <1>2, <1>3

LEMMA BufferMoves ==
  ASSUME Len(got) <= Limit, ReadingOK, ~closed,
         NEW W, NEW B, NEW c, NEW p, Reads(W, B, c, p), Buffer
  PROVE  ReaderInv'
<1>1. UNCHANGED <<senderVars, link, at, len, closed, got>>
  BY DEF Buffer
<1>2. Frames(W, B, c) /\ Behind(W, B, c) /\ Ahead(W, p)
  BY DEF Reads
<1>3. W \in Seq(Bytes)
  BY <1>2 DEF Frames
<1>4. Ahead(W, p)'
  BY <1>2, <1>3, AheadBuffer
<1>5. \/ Between(W, c, p)'
      \/ \E m, d, k, e \in Nat : \E a \in [0..k -> 0..(SizeLimit - 1)] :
           Within(W, B, c, p, m, d, k, e, a)'
  BY <1>1, PlaceStays
<1>8. QED
  BY <1>1, <1>2, <1>4, <1>5, MovesOn

\* The name of a header was found: it is the next one, or the junk's.
LEMMA NameMoves ==
  ASSUME SendingOK, SpoiltOK, ReadingOK, Len(got) <= Limit, ~closed,
         NEW W, NEW B, NEW c, NEW p, Reads(W, B, c, p), Name
  PROVE  ReaderInv'
<1>1. /\ at = "name" /\ Wanted = Len(HeaderName) /\ HeaderName \in Seq(Bytes) /\ Len(HeaderName) \in Nat
  BY Asked, MarksAreBytes DEF Name
<1>2. Frames(W, B, c) /\ Behind(W, B, c) /\ Ahead(W, p)
  BY DEF Reads
<1>3. /\ W \in Seq(Bytes) /\ Len(W) \in Nat /\ B \in Seq(Bodies) /\ Len(B) \in Nat
      /\ Len(got) \in 0..Len(B) /\ c[Len(got)] \in Nat /\ Limit <= Len(B) /\ Limit \in Nat
      /\ Len(got) < Len(B) => Len(got) + 1 \in 1..Len(B)
  BY <1>2, StreamTypes
<1>4. Between(W, c, p)
  BY <1>1 DEF Reads, Within
<1>5. CASE Mismatches(HeaderName) /\ BadHeader
  BY <1>5, RefusesInput
<1>6. CASE Matches(HeaderName) /\ Pops(Wanted) /\ Continues("blank") /\ UNCHANGED len
  <2>1. Len(buf) >= Len(HeaderName) /\ SubSeq(buf, 1, Len(HeaderName)) = HeaderName
    BY <1>1, <1>6 DEF Matches, Buffered
  <2>2. Stands(W, p, HeaderName) /\ ~Contradicts(W, p, HeaderName)
    BY <1>1, <1>2, <1>3, <2>1, MatchStands
  <2>3a. PICK q : q = c[Len(got)]
    OBVIOUS
  <2>3. p = q /\ len = 0
    BY <1>1, <1>4, <2>2, <2>3a DEF Between
  <2>4. PICK r : r = q + Len(HeaderName)
    OBVIOUS
  <2>5. UNCHANGED <<senderVars, wire, link, closed, got, len>> /\ at' = "blank" /\ Pops(Len(HeaderName))
    BY <1>1, <1>6 DEF Continues
  <2>6. Ahead(W, r)'
    <3>1. Len(HeaderName) \in 0..Len(buf)
      BY <1>1, <2>1 DEF ReadingOK
    <3>2. Ahead(W, p + Len(HeaderName))'
      BY <1>2, <1>3, <2>5, <3>1, AheadPops
    <3>3. QED
      BY <2>3, <2>4, <3>2
  <2>7. \E m, d, k, e \in Nat : \E a \in [0..k -> 0..(SizeLimit - 1)] :
          /\ ReadsLength(W, r, m, d, k, e) /\ Lengths(W, d, k, a)
          /\ Announces(W, B, c, k, e, a) \/ Misleads(W, k, e, a)
    <3>1. CASE Len(got) < Len(B)
      <4>1. PICK b : b = B[Len(got) + 1]
        OBVIOUS
      <4>2. b \in Bodies
        BY <1>2, <1>3, <3>1, <4>1, FrameTypes
      <4>3. Stands(W, q, Header(b))
        <5>1. Stands(W, c[Len(got) + 1 - 1], Header(B[Len(got) + 1]))
          BY <1>2, <1>3, <3>1 DEF Frames
        <5>2. Len(got) + 1 - 1 = Len(got)
          BY <1>3
        <5>3. QED
          BY <2>3a, <4>1, <5>1, <5>2
      <4>4. \E m, d, k, e \in Nat : \E a \in [0..k -> 0..(SizeLimit - 1)] :
              /\ ReadsLength(W, q + Len(HeaderName), m, d, k, e)
              /\ Lengths(W, d, k, a)
              /\ a[k] = Len(b)
              /\ e + Len(Ends) = q + Len(Header(b))
        <5>1. W \in Seq(Bytes) /\ q \in Nat
          BY <1>3, <2>3a
        <5>2. QED
          BY <4>2, <4>3, <5>1, HeaderIsRead
      <4>5a. PICK m, d, k, e \in Nat : \E a \in [0..k -> 0..(SizeLimit - 1)] :
              /\ ReadsLength(W, q + Len(HeaderName), m, d, k, e)
              /\ Lengths(W, d, k, a)
              /\ a[k] = Len(b)
              /\ e + Len(Ends) = q + Len(Header(b))
        BY <4>4
      <4>5. PICK a \in [0..k -> 0..(SizeLimit - 1)] :
              /\ ReadsLength(W, q + Len(HeaderName), m, d, k, e)
              /\ Lengths(W, d, k, a)
              /\ a[k] = Len(b)
              /\ e + Len(Ends) = q + Len(Header(b))
        BY <4>5a
      <4>6. Announces(W, B, c, k, e, a)
        BY <2>3a, <3>1, <4>1, <4>5 DEF Announces
      <4>7. QED
        BY <2>4, <4>5, <4>6
    <3>2. CASE ~(Len(got) < Len(B))
      <4>1. Len(got) = Len(B) /\ Len(B) = Limit
        <5>1. Len(got) \in Nat
          BY <1>3
        <5>2. QED
          BY <1>3, <3>2, <5>1
      <4>2. q + Len(HeaderName) <= Len(W) /\ Len(HeaderName) = 3
        BY <2>2, <2>3, MarksAreBytes DEF Stands
      <4>3. Refused(W, q)
        <5>1. Len(W) # c[Limit]
          BY <1>3, <2>3a, <4>1, <4>2
        <5>2. Len(B) # Limit + 1
          BY <1>3, <4>1
        <5>3. QED
          BY <1>2, <2>3a, <4>1, <5>1, <5>2 DEF Behind
      <4>4. PICK m, d, k, e \in 0..Len(W) :
              /\ ReadsLength(W, q + Len(HeaderName), m, d, k, e)
              /\ \E a \in [0..k -> 0..(SizeLimit - 1)] :
                   /\ Lengths(W, d, k, a)
                   /\ Contradicts(W, e, IF a[k] = 0 THEN HeaderName ELSE Ends)
        BY <2>2, <2>3, <4>3 DEF Refused
      <4>5. PICK a \in [0..k -> 0..(SizeLimit - 1)] :
                   /\ Lengths(W, d, k, a)
                   /\ Contradicts(W, e, IF a[k] = 0 THEN HeaderName ELSE Ends)
        BY <4>4
      <4>6. Misleads(W, k, e, a)
        BY <4>5 DEF Misleads
      <4>7. m \in Nat /\ d \in Nat /\ k \in Nat /\ e \in Nat
        BY <1>3
      <4>8. QED
        BY <2>4, <4>4, <4>5, <4>6, <4>7
    <3>3. QED
      BY <3>1, <3>2
  <2>8a. PICK m, d, k, e \in Nat : \E a \in [0..k -> 0..(SizeLimit - 1)] :
          /\ ReadsLength(W, r, m, d, k, e) /\ Lengths(W, d, k, a)
          /\ Announces(W, B, c, k, e, a) \/ Misleads(W, k, e, a)
    BY <2>7
  <2>8. PICK a \in [0..k -> 0..(SizeLimit - 1)] :
          /\ ReadsLength(W, r, m, d, k, e) /\ Lengths(W, d, k, a)
          /\ Announces(W, B, c, k, e, a) \/ Misleads(W, k, e, a)
    BY <2>8a
  <2>9. Announces(W, B, c, k, e, a)' = Announces(W, B, c, k, e, a)
    BY <2>5 DEF Announces
  <2>10. r = c[Len(got')] + Len(HeaderName) + 0 /\ 0 \in 0..m
    BY <1>1, <1>3, <2>3a, <2>4, <2>5
  <2>11. r = c[Len(got')] + Len(HeaderName)
    BY <2>3a, <2>4, <2>5
  <2>12. Within(W, B, c, r, m, d, k, e, a)'
    BY <2>3, <2>5, <2>8, <2>9, <2>10, <2>11 DEF Within
  <2>13. QED
    BY <1>2, <2>5, <2>6, <2>12, MovesOn
<1>7. QED
  BY <1>5, <1>6 DEF Name

LEMMA BlankMoves ==
  ASSUME SendingOK, SpoiltOK, ReadingOK, Len(got) <= Limit, ~closed,
         NEW W, NEW B, NEW c, NEW p, Reads(W, B, c, p), Blank
  PROVE  ReaderInv'
<1>1. at = "blank"
  BY DEF Blank
<1>2. Frames(W, B, c) /\ Behind(W, B, c) /\ Ahead(W, p)
  BY DEF Reads
<1>3. W \in Seq(Bytes) /\ Len(W) \in Nat /\ c[Len(got)] \in Nat
  BY <1>2, StreamTypes
<1>4a. PICK m, d, k, e \in Nat : \E a \in [0..k -> 0..(SizeLimit - 1)] :
        Within(W, B, c, p, m, d, k, e, a)
  <2>1. ~Between(W, c, p)
    BY <1>1 DEF Between
  <2>2. QED
    BY <2>1 DEF Reads
<1>4. PICK a \in [0..k -> 0..(SizeLimit - 1)] :
        Within(W, B, c, p, m, d, k, e, a)
  BY <1>4a
<1>5. PICK r : r = c[Len(got)] + Len(HeaderName)
  OBVIOUS
<1>6. PICK i \in 0..m : p = r + i
  BY <1>1, <1>4, <1>5 DEF Within
<1>7. len = 0 /\ r \in Nat /\ i \in Nat
  <2>1. len = 0
    BY <1>1, <1>4 DEF Within
  <2>2. QED
    BY <1>3, <1>5, <2>1, MarksAreBytes
<1>8. ReadsLength(W, r, m, d, k, e) /\ Lengths(W, d, k, a)
  BY <1>4, <1>5 DEF Within
<1>9. UNCHANGED <<senderVars, wire, link, closed, got, len>>
  BY DEF Blank, Continues
<1>10. Announces(W, B, c, k, e, a)' = Announces(W, B, c, k, e, a)
  BY <1>9 DEF Announces
<1>11. \/ Buffered /\ buf[1] \in Blanks /\ Pops(1) /\ at' = "blank"
       \/ Skips /\ at' = "digit"
       \/ Stops(Blanks) /\ UNCHANGED buf /\ at' = "digit"
  BY DEF Blank, Continues
<1>12. ASSUME Buffered PROVE 1 \in 0..Len(buf) /\ buf[1] = W[r + i + 1] /\ p + 1 = r + (i + 1)
  <2>1. 1 \in 0..Len(buf) /\ buf[1] = W[p + 1]
    BY <1>1, <1>2, <1>3, <1>12, NextByte
  <2>2. QED
    BY <2>1, <1>6, <1>7
<1>13. ASSUME i # m PROVE i + 1 \in 1..m /\ W[r + i + 1] \in Blanks
  <2>1. i + 1 \in 1..m /\ r + (i + 1) = r + i + 1
    BY <1>7, <1>13
  <2>2. W[r + (i + 1)] \in Blanks
    BY <1>8, <2>1 DEF ReadsLength
  <2>3. QED
    BY <2>1, <2>2
<1>14. ASSUME i = m PROVE W[r + i + 1] \notin Blanks /\ d = r + m + (IF W[r + i + 1] = Nul THEN 1 ELSE 0)
  BY <1>8, <1>14 DEF ReadsLength
<1>15. c[Len(got')] + Len(HeaderName) = r
  BY <1>5, <1>9
<1>16. CASE Buffered /\ buf[1] \in Blanks /\ Pops(1) /\ at' = "blank"
  <2>1. i + 1 \in 0..m
    BY <1>7, <1>12, <1>13, <1>14, <1>16
  <2>2. Ahead(W, p + 1)'
    BY <1>2, <1>3, <1>9, <1>12, <1>16, AheadPops
  <2>3. Within(W, B, c, p + 1, m, d, k, e, a)'
    <3>1. \E x \in 0..m : p + 1 = c[Len(got')] + Len(HeaderName) + x
      BY <1>12, <1>15, <1>16, <2>1
    <3>2. at' = "blank" /\ len' = 0
      BY <1>7, <1>9, <1>16
    <3>3. Announces(W, B, c, k, e, a)' \/ Misleads(W, k, e, a)
      BY <1>4, <1>10 DEF Within
    <3>4. QED
      BY <1>8, <1>15, <3>1, <3>2, <3>3 DEF Within
  <2>4. QED
    BY <1>2, <1>9, <2>2, <2>3, MovesOn
<1>17. ASSUME at' = "digit", Ahead(W, d)' PROVE ReaderInv'
  <2>1. a[0] = 0 /\ 0 \in 0..k /\ d = d + 0
    BY <1>8 DEF Lengths
  <2>2. Announces(W, B, c, k, e, a)' \/ Misleads(W, k, e, a)
    BY <1>4, <1>10 DEF Within
  <2>3. \E x \in 0..k : d = d + x /\ len' = a[x]
    BY <1>7, <1>9, <2>1
  <2>4. Within(W, B, c, d, m, d, k, e, a)'
    BY <1>8, <1>15, <1>17, <2>2, <2>3 DEF Within
  <2>5. QED
    BY <1>2, <1>9, <1>17, <2>4, MovesOn
<1>18. CASE Skips /\ at' = "digit"
  <2>1. Buffered /\ buf[1] = Nul /\ Pops(1)
    BY <1>18 DEF Skips
  <2>2. i = m
    BY <2>1, <1>12, <1>13, MarksDiffer
  <2>3. d = p + 1
    BY <2>1, <2>2, <1>6, <1>12, <1>14
  <2>4. Ahead(W, p + 1)'
    BY <1>2, <1>3, <1>9, <1>12, <2>1, AheadPops
  <2>5. QED
    BY <1>17, <1>18, <2>3, <2>4
<1>19. CASE Stops(Blanks) /\ UNCHANGED buf /\ at' = "digit"
  <2>1. CASE Exhausted
    <3>1. buf = <<>> /\ wire = <<>> /\ ~link
      BY <1>1, <1>2, <1>3, <2>1, NextByte
    <3>2. QED
      BY <1>9, <1>19, <3>1, RunsDry
  <2>2. CASE Buffered /\ buf[1] \notin Blanks \cup {Nul}
    <3>1. i = m
      BY <2>2, <1>12, <1>13
    <3>2. d = p
      BY <2>2, <3>1, <1>6, <1>7, <1>12, <1>14
    <3>3. Ahead(W, d)'
      BY <1>2, <1>9, <1>19, <3>2 DEF Ahead
    <3>4. QED
      BY <1>17, <1>19, <3>3
  <2>3. QED
    BY <1>19, <2>1, <2>2 DEF Stops
<1>20. QED
  BY <1>11, <1>16, <1>18, <1>19

\* The length was read: it is the next body's, or the junk's.
LEMMA LengthIsRead ==
  ASSUME SendingOK, SpoiltOK, ReadingOK, Len(got) <= Limit, ~closed,
         NEW W, NEW B, NEW c, Frames(W, B, c), Behind(W, B, c),
         NEW m \in Nat, NEW d \in Nat, NEW k \in Nat, NEW e \in Nat,
         NEW a \in [0..k -> 0..(SizeLimit - 1)],
         ReadsLength(W, c[Len(got)] + Len(HeaderName), m, d, k, e), Lengths(W, d, k, a),
         Announces(W, B, c, k, e, a) \/ Misleads(W, k, e, a),
         len = a[k], UNCHANGED len, at' = AfterLength, Ahead(W, e)',
         UNCHANGED <<senderVars, link, closed, got>>
  PROVE  ReaderInv'
<1>1. Len(got) < Len(B) => B[Len(got) + 1] \in Bodies
  BY StreamTypes, FrameTypes
<1>2. CASE a[k] = 0
  <2>1. ~Announces(W, B, c, k, e, a)
    BY <1>1, <1>2, BodyIsText DEF Announces
  <2>2. Contradicts(W, e, HeaderName)
    BY <1>2, <2>1 DEF Misleads
  <2>3. at' = "loop"
    BY <1>2 DEF AfterLength
  <2>4. Between(W, c, e)'
    BY <2>2, <2>3 DEF Between
  <2>5. QED
    BY <2>4, MovesOn
<1>3. CASE a[k] # 0
  <2>1. at' = "ends"
    BY <1>3 DEF AfterLength
  <2>2. Announces(W, B, c, k, e, a)' = Announces(W, B, c, k, e, a)
    BY DEF Announces
  <2>3. Within(W, B, c, e, m, d, k, e, a)'
    BY <1>3, <2>1, <2>2 DEF Within
  <2>4. QED
    BY <2>3, MovesOn
<1>4. QED
  BY <1>2, <1>3

LEMMA DigitMoves ==
  ASSUME SendingOK, SpoiltOK, ReadingOK, Len(got) <= Limit, ~closed,
         NEW W, NEW B, NEW c, NEW p, Reads(W, B, c, p), Digit
  PROVE  ReaderInv'
<1>1. at = "digit"
  BY DEF Digit
<1>2. Frames(W, B, c) /\ Behind(W, B, c) /\ Ahead(W, p)
  BY DEF Reads
<1>3. W \in Seq(Bytes) /\ Len(W) \in Nat /\ c[Len(got)] \in Nat
  BY <1>2, StreamTypes
<1>4. PICK m, d, k, e \in Nat : \E a \in [0..k -> 0..(SizeLimit - 1)] :
        Within(W, B, c, p, m, d, k, e, a)
  <2>1. ~Between(W, c, p)
    BY <1>1 DEF Between
  <2>2. QED
    BY <2>1 DEF Reads
<1>5. PICK a \in [0..k -> 0..(SizeLimit - 1)] : Within(W, B, c, p, m, d, k, e, a)
  BY <1>4
<1>6. PICK i \in 0..k : p = d + i /\ len = a[i]
  BY <1>1, <1>5 DEF Within
<1>7. PICK r : r = c[Len(got)] + Len(HeaderName)
  OBVIOUS
<1>8. /\ ReadsLength(W, r, m, d, k, e) /\ Lengths(W, d, k, a)
      /\ Announces(W, B, c, k, e, a) \/ Misleads(W, k, e, a)
  BY <1>5, <1>7 DEF Within
<1>9. UNCHANGED <<senderVars, wire, link, closed, got>>
  BY DEF Digit, Continues
<1>10. \/ /\ Buffered /\ buf[1] \in Numerals /\ Pops(1) /\ at' = "digit"
          /\ len' = (len * Base + Numeral(buf[1])) % SizeLimit
       \/ Skips /\ at' = AfterLength /\ len' = len
       \/ Stops(Numerals) /\ UNCHANGED <<buf, len>> /\ at' = AfterLength
  BY DEF Digit, Continues
<1>11. i \in Nat
  OBVIOUS
<1>12. ASSUME Buffered PROVE 1 \in 0..Len(buf) /\ buf[1] = W[d + i + 1]
  BY <1>1, <1>2, <1>3, <1>6, <1>12, NextByte
<1>13. ASSUME i # k PROVE i + 1 \in 1..k /\ W[d + i + 1] \in Numerals /\ W[d + (i + 1)] = W[d + i + 1]
  <2>1. i + 1 \in 1..k /\ d + (i + 1) = d + i + 1
    BY <1>11, <1>13
  <2>2. W[d + (i + 1)] \in Numerals
    BY <1>8, <2>1 DEF ReadsLength
  <2>3. QED
    BY <2>1, <2>2
<1>14. ASSUME i = k PROVE W[d + i + 1] \notin Numerals /\ e = d + k + (IF W[d + i + 1] = Nul THEN 1 ELSE 0)
  BY <1>8, <1>14 DEF ReadsLength
<1>15. CASE /\ Buffered /\ buf[1] \in Numerals /\ Pops(1) /\ at' = "digit"
            /\ len' = (len * Base + Numeral(buf[1])) % SizeLimit
  <2>1. i + 1 \in 1..k /\ W[d + (i + 1)] = buf[1]
    BY <1>12, <1>13, <1>14, <1>15
  <2>2. p + 1 = d + (i + 1) /\ i + 1 \in 0..k /\ i + 1 - 1 = i
    BY <1>6, <1>11, <2>1
  <2>3. len' = a[i + 1]
    <3>1. a[i + 1] = (a[i + 1 - 1] * Base + Numeral(W[d + (i + 1)])) % SizeLimit
      BY <1>8, <2>1 DEF Lengths
    <3>2. QED
      BY <1>6, <1>15, <2>1, <2>2, <3>1
  <2>4. Ahead(W, p + 1)'
    BY <1>2, <1>3, <1>9, <1>12, <1>15, AheadPops
  <2>5. Announces(W, B, c, k, e, a)' \/ Misleads(W, k, e, a)
    BY <1>8, <1>9 DEF Announces
  <2>6. Within(W, B, c, p + 1, m, d, k, e, a)'
    <3>1. \E x \in 0..k : p + 1 = d + x /\ len' = a[x]
      BY <2>2, <2>3
    <3>2. ReadsLength(W, c[Len(got')] + Len(HeaderName), m, d, k, e)
      BY <1>7, <1>8, <1>9
    <3>3. QED
      BY <1>8, <1>15, <2>5, <3>1, <3>2 DEF Within
  <2>7. QED
    BY <1>2, <1>9, <2>4, <2>6, MovesOn
<1>16. ASSUME i = k, at' = AfterLength, len' = len, Ahead(W, e)' PROVE ReaderInv'
  <2>1. len = a[k] /\ ReadsLength(W, c[Len(got)] + Len(HeaderName), m, d, k, e)
    BY <1>6, <1>7, <1>8, <1>16
  <2>2. QED
    BY <1>2, <1>8, <1>9, <1>16, <2>1, LengthIsRead
<1>17. CASE Skips /\ at' = AfterLength /\ len' = len
  <2>1. Buffered /\ buf[1] = Nul /\ Pops(1)
    BY <1>17 DEF Skips
  <2>2. i = k
    BY <2>1, <1>12, <1>13, NumeralIsNoMark
  <2>3. e = p + 1
    BY <2>1, <2>2, <1>6, <1>12, <1>14
  <2>4. Ahead(W, p + 1)'
    BY <1>2, <1>3, <1>9, <1>12, <2>1, AheadPops
  <2>5. QED
    BY <1>16, <1>17, <2>2, <2>3, <2>4
<1>18. CASE Stops(Numerals) /\ UNCHANGED <<buf, len>> /\ at' = AfterLength
  <2>1. CASE Exhausted
    <3>1. buf = <<>> /\ wire = <<>> /\ ~link
      BY <1>1, <1>2, <1>3, <2>1, NextByte
    <3>2. QED
      BY <1>9, <1>18, <3>1, RunsDry DEF AfterLength
  <2>2. CASE Buffered /\ buf[1] \notin Numerals \cup {Nul}
    <3>1. i = k
      BY <2>2, <1>12, <1>13
    <3>2. e = p
      BY <2>2, <3>1, <1>6, <1>11, <1>12, <1>14
    <3>3. Ahead(W, e)'
      BY <1>2, <1>9, <1>18, <3>2 DEF Ahead
    <3>4. QED
      BY <1>16, <1>18, <3>1, <3>3
  <2>3. QED
    BY <1>18, <2>1, <2>2 DEF Stops
<1>19. QED
  BY <1>10, <1>15, <1>17, <1>18

\* A header that ends as it should announces a body.
LEMMA EndOfHeaderMoves ==
  ASSUME SendingOK, SpoiltOK, ReadingOK, Len(got) <= Limit, ~closed,
         NEW W, NEW B, NEW c, NEW p, Reads(W, B, c, p), EndOfHeader
  PROVE  ReaderInv'
<1>1. /\ at = "ends" /\ Wanted = Len(Ends) /\ Ends \in Seq(Bytes) /\ Len(Ends) \in Nat
  BY Asked, MarksAreBytes DEF EndOfHeader
<1>2. Frames(W, B, c) /\ Behind(W, B, c) /\ Ahead(W, p)
  BY DEF Reads
<1>3. W \in Seq(Bytes)
  BY <1>2, StreamTypes
<1>4. PICK m, d, k, e \in Nat : \E a \in [0..k -> 0..(SizeLimit - 1)] :
        Within(W, B, c, p, m, d, k, e, a)
  <2>1. ~Between(W, c, p)
    BY <1>1 DEF Between
  <2>2. QED
    BY <2>1 DEF Reads
<1>5. PICK a \in [0..k -> 0..(SizeLimit - 1)] : Within(W, B, c, p, m, d, k, e, a)
  BY <1>4
<1>6. /\ ReadsLength(W, c[Len(got)] + Len(HeaderName), m, d, k, e) /\ Lengths(W, d, k, a)
      /\ Announces(W, B, c, k, e, a) \/ Misleads(W, k, e, a)
      /\ p = e /\ len = a[k] /\ len # 0
  BY <1>1, <1>5 DEF Within
<1>7. CASE Mismatches(Ends) /\ BadHeader
  BY <1>7, RefusesInput
<1>8. CASE Matches(Ends) /\ Pops(Wanted) /\ Continues("body") /\ UNCHANGED len
  <2>1. Len(buf) >= Len(Ends) /\ SubSeq(buf, 1, Len(Ends)) = Ends
    BY <1>1, <1>8 DEF Matches, Buffered
  <2>2. ~Contradicts(W, e, Ends)
    BY <1>1, <1>2, <1>3, <1>6, <2>1, MatchStands
  <2>3. Announces(W, B, c, k, e, a)
    BY <1>6, <2>2 DEF Misleads
  <2>4. UNCHANGED <<senderVars, wire, link, closed, got, len>> /\ at' = "body" /\ Pops(Len(Ends))
    BY <1>1, <1>8 DEF Continues
  <2>5. Ahead(W, e + Len(Ends))'
    <3>1. Len(Ends) \in 0..Len(buf)
      BY <1>1, <2>1 DEF ReadingOK
    <3>2. Ahead(W, p + Len(Ends))'
      BY <1>2, <1>3, <2>4, <3>1, AheadPops
    <3>3. QED
      BY <1>6, <3>2
  <2>6. Announces(W, B, c, k, e, a)'
    BY <2>3, <2>4 DEF Announces
  <2>7. Within(W, B, c, e + Len(Ends), m, d, k, e, a)'
    BY <1>6, <2>4, <2>6 DEF Within
  <2>8. QED
    BY <1>2, <2>4, <2>5, <2>7, MovesOn
<1>9. QED
  BY <1>7, <1>8 DEF EndOfHeader

\* The body that the reader expects: it was written, or nothing of it was.
LEMMA BodyAhead ==
  ASSUME SendingOK, SpoiltOK, ReadingOK, Len(got) <= Limit,
         NEW W, NEW B, NEW c, NEW p, Reads(W, B, c, p), at = "body"
  PROVE  \E b \in Bodies :
           /\ len = Len(b) /\ Len(got) < Len(B) /\ p \in Nat
           /\ c[Len(got) + 1] = p + len
           /\ \/ Len(got) < Limit /\ Stands(W, p, b) /\ b = sent[Len(got) + 1].body
              \/ Len(W) = p
<1>1. Frames(W, B, c) /\ Behind(W, B, c) /\ Ahead(W, p)
  BY DEF Reads
<1>2. /\ W \in Seq(Bytes) /\ Len(B) \in Nat /\ c[Len(got)] \in Nat /\ Limit <= Len(B) /\ Limit \in Nat
      /\ Len(got) \in Nat /\ Len(got) < Len(B) => Len(got) + 1 \in 1..Len(B)
  BY <1>1, StreamTypes
<1>3. PICK m, d, k, e \in Nat : \E a \in [0..k -> 0..(SizeLimit - 1)] :
        Within(W, B, c, p, m, d, k, e, a)
  <2>1. ~Between(W, c, p)
    BY DEF Between
  <2>2. QED
    BY <2>1 DEF Reads
<1>4. PICK a \in [0..k -> 0..(SizeLimit - 1)] : Within(W, B, c, p, m, d, k, e, a)
  BY <1>3
<1>5. p = e + Len(Ends) /\ len = a[k] /\ Announces(W, B, c, k, e, a)
  BY <1>4 DEF Within
<1>6. PICK b : b = B[Len(got) + 1]
  OBVIOUS
<1>7. /\ Len(got) < Len(B) /\ len = Len(b) /\ p = c[Len(got)] + Len(Header(b))
  BY <1>5, <1>6 DEF Announces
<1>8. Len(got) + 1 \in 1..Len(B)
  BY <1>2, <1>7
<1>9. b \in Bodies /\ Len(b) \in Nat /\ Len(Header(b)) \in Nat
  BY <1>1, <1>6, <1>8, FrameTypes
<1>10. p \in Nat
  BY <1>2, <1>7, <1>9
<1>11. Len(got) + 1 - 1 = Len(got)
  BY <1>2
<1>12. c[Len(got) + 1] = p + len
  <2>1. c[Len(got) + 1] = c[Len(got) + 1 - 1] + Len(Header(b)) + Len(b)
    BY <1>1, <1>6, <1>8 DEF Frames
  <2>2. QED
    BY <2>1, <1>7, <1>11
<1>13. CASE Len(got) < Limit
  <2>1. Len(got) + 1 \in 1..Limit
    BY <1>2, <1>13
  <2>2. b = sent[Len(got) + 1].body /\ Stands(W, c[Len(got) + 1 - 1] + Len(Header(b)), b)
    BY <1>1, <1>6, <2>1 DEF Frames
  <2>3. QED
    BY <1>7, <1>9, <1>10, <1>11, <1>12, <1>13, <2>2
<1>14. CASE ~(Len(got) < Limit)
  <2>1. Len(got) = Limit /\ Len(B) # Limit
    BY <1>2, <1>7, <1>14
  <2>2. Len(W) = c[Limit] + Len(Header(B[Limit + 1]))
    BY <1>1, <2>1 DEF Behind
  <2>3. Len(W) = p
    BY <1>6, <1>7, <2>1, <2>2
  <2>4. QED
    BY <1>7, <1>9, <1>10, <1>12, <2>3
<1>15. QED
  BY <1>13, <1>14

\* What is handed on is the next message, whole.
LEMMA BodyIsWhole ==
  ASSUME SendingOK, SpoiltOK, ReadingOK, Len(got) <= Limit,
         NEW W, NEW B, NEW c, NEW p, Reads(W, B, c, p), at = "body", Buffered
  PROVE  /\ Len(got) < Limit /\ len \in 0..Len(buf)
         /\ SubSeq(buf, 1, len) = sent[Len(got) + 1].body
<1>1. Frames(W, B, c) /\ Ahead(W, p)
  BY DEF Reads
<1>2. PICK b \in Bodies :
        /\ len = Len(b) /\ Len(got) < Len(B) /\ p \in Nat
        /\ c[Len(got) + 1] = p + len
        /\ \/ Len(got) < Limit /\ Stands(W, p, b) /\ b = sent[Len(got) + 1].body
           \/ Len(W) = p
  BY BodyAhead
<1>3. /\ b \in Seq(Bytes) /\ Len(b) >= 1 /\ Len(b) \in Nat
      /\ Len(buf) \in Nat /\ Len(wire) \in Nat /\ buf \in Seq(Bytes)
  BY BodyIsText, NumbersAssumption DEF ReadingOK
<1>4. Len(buf) >= len
  BY Asked DEF Buffered
<1>5. W \in Seq(Bytes) /\ Len(W) \in Nat
  BY <1>1, StreamTypes
<1>6. len \in 0..Len(buf)
  BY <1>2, <1>3, <1>4
<1>7. p + Len(buf) + Len(wire) <= Len(W)
  BY <1>1 DEF Ahead
<1>8. Len(W) # p
  BY <1>2, <1>3, <1>4, <1>5, <1>7
<1>9. Len(got) < Limit /\ Stands(W, p, b) /\ b = sent[Len(got) + 1].body
  BY <1>2, <1>8
<1>10. SubSeq(buf, 1, len) = b
  <2>1. /\ SubSeq(buf, 1, len) \in Seq(Bytes) /\ Len(SubSeq(buf, 1, len)) = Len(b)
        /\ \A i \in 1..len : SubSeq(buf, 1, len)[i] = buf[i]
    BY <1>2, <1>3, <1>6, Piece
  <2>7. \A i \in 1..len : i \in 1..Len(buf) /\ i \in 1..Len(b)
    BY <1>2, <1>3, <1>6
  <2>8. \A i \in 1..Len(buf) : buf[i] = W[p + i]
    BY <1>1 DEF Ahead
  <2>9. \A i \in 1..Len(b) : W[p + i] = b[i]
    BY <1>9 DEF Stands
  <2>2. \A i \in 1..len : buf[i] = W[p + i] /\ b[i] = W[p + i]
    BY <2>7, <2>8, <2>9
  <2>3. \A i \in 1..Len(b) : SubSeq(buf, 1, len)[i] = b[i]
    BY <1>2, <2>1, <2>2
  <2> DEFINE s == SubSeq(buf, 1, len)
  <2>4. s \in Seq(Bytes) /\ b \in Seq(Bytes) /\ Len(s) = Len(b) /\ \A i \in 1..Len(b) : s[i] = b[i]
    BY <1>3, <2>1, <2>3
  <2> HIDE DEF s
  <2>5. s = b
    BY <2>4
  <2>6. QED
    BY <2>5 DEF s
<1>11. QED
  BY <1>6, <1>9, <1>10

LEMMA BodyMoves ==
  ASSUME SendingOK, SpoiltOK, ReadingOK, Len(got) <= Limit, ~closed,
         NEW W, NEW B, NEW c, NEW p, Reads(W, B, c, p), Body
  PROVE  ReaderInv'
<1>1. at = "body" /\ at' = "loop" /\ UNCHANGED <<senderVars, wire, link, closed, len>>
  BY DEF Body
<1>2. Frames(W, B, c) /\ Behind(W, B, c) /\ Ahead(W, p)
  BY DEF Reads
<1>3. W \in Seq(Bytes) /\ Len(W) \in Nat /\ Limit \in Nat /\ Len(got) \in Nat
  BY <1>2, StreamTypes
<1>4. PICK b \in Bodies :
        /\ len = Len(b) /\ Len(got) < Len(B) /\ p \in Nat
        /\ c[Len(got) + 1] = p + len
        /\ \/ Len(got) < Limit /\ Stands(W, p, b) /\ b = sent[Len(got) + 1].body
           \/ Len(W) = p
  BY <1>1, BodyAhead
<1>5. CASE Buffered /\ Pops(len) /\ got' = Append(got, SubSeq(buf, 1, len))
  <2>1. Len(got) < Limit /\ len \in 0..Len(buf)
    BY <1>1, <1>5, BodyIsWhole
  <2>2. Ahead(W, p + len)'
    BY <1>1, <1>2, <1>3, <1>5, <2>1, AheadPops
  <2>3. Len(got') = Len(got) + 1
    BY <1>5 DEF ReadingOK
  <2>4. Between(W, c, p + len)'
    BY <1>1, <1>4, <2>3 DEF Between
  <2>5. Len(got') <= Limit
    BY <1>3, <2>1, <2>3
  <2>6. QED
    BY <1>1, <1>2, <2>2, <2>4, <2>5, MovesOn
<1>6. CASE Exhausted /\ UNCHANGED <<buf, got>>
  <2>1. wire = <<>> /\ ~link /\ Len(buf) < len
    BY <1>1, <1>6, Asked DEF Exhausted
  <2>2. Len(buf) \in Nat /\ (Len(buf) = 0 => buf = <<>>) /\ Len(wire) \in Nat
    BY DEF ReadingOK
  <2>3. p + Len(buf) + Len(wire) <= Len(W) /\ \A i \in 1..Len(buf) : buf[i] = W[p + i]
    BY <1>2 DEF Ahead
  <2>4. buf = <<>> \/ buf[1] = Brace
    <3>1. CASE Len(W) = p
      BY <1>4, <2>2, <2>3, <3>1
    <3>2. CASE Stands(W, p, b) /\ Len(buf) # 0
      <4>1. 1 \in 1..Len(buf) /\ 1 \in 1..Len(b)
        BY <1>4, <2>1, <2>2, <3>2, BodyIsText
      <4>2. buf[1] = W[p + 1] /\ W[p + 1] = b[1]
        BY <2>3, <3>2, <4>1 DEF Stands
      <4>3. QED
        BY <4>2, BodyIsText
    <3>3. QED
      BY <1>4, <2>2, <3>1, <3>2
  <2>5. QED
    BY <1>1, <1>6, <2>1, <2>4, RunsDry
<1>7. QED
  BY <1>5, <1>6 DEF Body

LEMMA ReceiverReads ==
  ASSUME SendingOK, SpoiltOK, ReadingOK, ReaderInv, Receiver
  PROVE  ReaderInv'
<1>1. Len(got) <= Limit
  BY DEF ReaderInv
<1>2. ASSUME Over' \/ GivesUp', UNCHANGED <<senderVars, got>> PROVE ReaderInv'
  <2>1. Len(got') <= Limit'
    BY <1>1, <1>2 DEF Limit, NotSpoilt, senderVars
  <2>2. QED
    BY <1>2, <2>1 DEF ReaderInv
<1>3. at # "body" => UNCHANGED <<senderVars, got>>
  BY DEF Receiver, Loop, Buffer, Name, Blank, Digit, EndOfHeader, Body, Continues, BadHeader
<1>4. CASE Over
  <2>1. at # "body"
    BY <1>4 DEF Over
  <2>2. QED
    BY <1>2, <1>3, <1>4, <2>1, OverMoves
<1>5. CASE GivesUp
  <2>1. at # "body"
    BY <1>5 DEF GivesUp
  <2>2. QED
    BY <1>2, <1>3, <1>5, <2>1, GivesUpMoves
<1>6. CASE OnStream
  <2>1. ~closed
    BY <1>6 DEF OnStream
  <2>2. PICK W, B, c, p : Reads(W, B, c, p)
    BY <1>6 DEF OnStream
  <2>3. CASE Loop
    BY <1>1, <2>1, <2>2, <2>3, LoopMoves
  <2>4. CASE Buffer
    BY <1>1, <2>1, <2>2, <2>4, BufferMoves
  <2>5. CASE Name
    BY <1>1, <2>1, <2>2, <2>5, NameMoves
  <2>6. CASE Blank
    BY <1>1, <2>1, <2>2, <2>6, BlankMoves
  <2>7. CASE Digit
    BY <1>1, <2>1, <2>2, <2>7, DigitMoves
  <2>8. CASE EndOfHeader
    BY <1>1, <2>1, <2>2, <2>8, EndOfHeaderMoves
  <2>9. CASE Body
    BY <1>1, <2>1, <2>2, <2>9, BodyMoves
  <2>10. QED
    BY <2>3, <2>4, <2>5, <2>6, <2>7, <2>8, <2>9 DEF Receiver
<1>7. QED
  BY <1>4, <1>5, <1>6 DEF ReaderInv

\* And nothing else ever is.
LEMMA StaysWhole ==
  ASSUME SendingOK, SpoiltOK, ReadingOK, ReaderInv, Whole, [Next]_vars
  PROVE  Whole'
<1>1. CASE Body /\ Buffered /\ got' = Append(got, SubSeq(buf, 1, len))
  <2>1. at = "body"
    BY <1>1 DEF Body
  <2>2. OnStream /\ Len(got) <= Limit
    BY <2>1 DEF ReaderInv, Over, GivesUp
  <2>3. PICK W, B, c, p : Reads(W, B, c, p)
    BY <2>2 DEF OnStream
  <2>4. Len(got) < Limit /\ SubSeq(buf, 1, len) = sent[Len(got) + 1].body
    BY <1>1, <2>1, <2>2, <2>3, BodyIsWhole
  <2>5. Len(got) \in Nat /\ Limit \in 0..Len(sent)
    BY LimitIsNatural DEF ReadingOK
  <2>6. Len(sent) \in Nat /\ \A i \in 1..Len(sent) : sent[i].body \in Bodies
    BY SentNumbers
  <2>7. Len(got) + 1 \in 1..Len(sent)
    BY <2>4, <2>5, <2>6
  <2>8. SubSeq(buf, 1, len) \in Bodies
    BY <2>4, <2>6, <2>7
  <2>9. QED
    BY <1>1, <2>8 DEF Whole
<1>2. CASE UNCHANGED got
  BY <1>2 DEF Whole
<1>3. (Body /\ Buffered /\ got' = Append(got, SubSeq(buf, 1, len))) \/ UNCHANGED got
  BY DEF Next, Sender, Serialize, Lock, WriteHeader, WriteBody, SendFails, Spoil, Cut, Receiver,
         Loop, Buffer, Name, Blank, Digit, EndOfHeader, Body, Continues, BadHeader, readerVars, vars
<1>4. QED
  BY <1>1, <1>2, <1>3

-----------------------------------------------------------------------------
(* The theorems.                                                           *)

LEMMA InitInv == Init => IInv
<1> SUFFICES ASSUME Init PROVE IInv
  OBVIOUS
<1> USE DEF Init
<1>1. SendingOK
  <2>1. 1 \in 1..(MaxSends + 1) /\ NotSpoilt \in 0..NotSpoilt
    BY NumbersAssumption DEF NotSpoilt
  <2>2. <<>> \in Seq(Message)
    OBVIOUS
  <2>3. message \in [Senders -> Message \cup {None}] /\ sending \in [Senders -> {"idle", "made", "locked", "begun"}]
    OBVIOUS
  <2>4. QED
    BY <2>1, <2>2, <2>3 DEF SendingOK
<1>2. ReadingOK
  <2>1. 0 \in 0..(SizeLimit - 1)
    BY NumbersAssumption
  <2>2. <<>> \in Seq(Bytes) /\ <<>> \in Seq(Seq(Bytes))
    OBVIOUS
  <2>3. QED
    BY <2>1, <2>2 DEF ReadingOK
<1>3. SendersOK
  BY NobodyAssumption DEF SendersOK, Writing, Carries
<1>4. Len(sent) = 0 /\ Len(got) = 0
  OBVIOUS
<1>5. NumbersOK
  BY <1>4 DEF NumbersOK, OvertakenByOthersOnly, Carries
<1>6. SpoiltOK
  BY DEF SpoiltOK
<1>7. Limit = 0
  BY <1>4 DEF Limit
<1> DEFINE c == [i \in 0..0 |-> 0]
<1>8. /\ <<>> \in Seq(Bytes) /\ <<>> \in Seq(Bodies) /\ Len(<<>>) = 0
      /\ c \in [0..Len(<<>>) -> Nat] /\ c[0] = 0
  <2>1. 0..Len(<<>>) = 0..0 /\ 0 \in 0..0
    OBVIOUS
  <2>2. QED
    BY <2>1
<1> HIDE DEF c
<1>9. Frames(<<>>, <<>>, c)
  BY <1>7, <1>8 DEF Frames
<1>10. Behind(<<>>, <<>>, c)
  <2>1. spoilt = NotSpoilt /\ Len(<<>>) = Limit /\ Len(<<>>) = c[Limit]
    BY <1>7, <1>8
  <2>2. \A t \in Senders : sending[t] # "begun"
    OBVIOUS
  <2>3. QED
    BY <2>1, <2>2 DEF Behind
<1>11. Ahead(<<>>, 0)
  <2>1. Len(buf) = 0 /\ Len(wire) = 0 /\ 0 \in Nat
    OBVIOUS
  <2>2. QED
    BY <1>8, <2>1 DEF Ahead
<1>12. Between(<<>>, c, 0)
  BY <1>4, <1>8 DEF Between
<1>13. Reads(<<>>, <<>>, c, 0)
  BY <1>9, <1>10, <1>11, <1>12 DEF Reads
<1>14. ReaderInv
  BY <1>4, <1>7, <1>13 DEF ReaderInv, OnStream
<1>15. QED
  BY <1>1, <1>2, <1>3, <1>5, <1>6, <1>14 DEF IInv, SenderInv, Whole

LEMMA StepInv == IInv /\ [Next]_vars => IInv'
<1> SUFFICES ASSUME IInv, [Next]_vars PROVE IInv'
  OBVIOUS
<1>1. SendingOK /\ ReadingOK /\ SendersOK /\ NumbersOK /\ SpoiltOK /\ ReaderInv
  BY DEF IInv, SenderInv
<1>2. SUFFICES SendingOK' /\ ReadingOK' /\ SendersOK' /\ NumbersOK' /\ SpoiltOK' /\ ReaderInv'
  BY <1>1, StaysWhole DEF IInv, SenderInv
<1>3. ASSUME NEW t \in Senders, Sender(t)
      PROVE  SendingOK' /\ ReadingOK' /\ SendersOK' /\ NumbersOK' /\ SpoiltOK' /\ ReaderInv'
  BY <1>1, <1>3, SenderKeeps, OthersKeepReading, SendersKeepSpoilt, SenderReads
<1>4. CASE Spoil \/ Cut
  BY <1>1, <1>4, OthersKeepSending, OthersKeepReading, SpoilReads, CutReads
<1>5. CASE Receiver
  BY <1>1, <1>5, OthersKeepSending, ReceiverKeepsReading, ReceiverReads
<1>6. CASE UNCHANGED vars
  <2>1. UNCHANGED <<senderVars, readerVars, wire, link>>
    BY <1>6 DEF vars
  <2>2. ReadingOK'
    BY <1>1, <2>1 DEF ReadingOK, readerVars
  <2>3. ReaderInv'
    BY <1>1, <2>1, QuietStep DEF senderVars
  <2>4. QED
    BY <1>1, <1>6, <2>2, <2>3, OthersKeepSending
<1>7. QED
  BY <1>3, <1>4, <1>5, <1>6 DEF Next

\* What is in the stream, what was read of it and what the reader expects
\* belong together in every state: the frames are where their lengths say.
THEOREM FramingInvariant == Spec => []IInv
BY InitInv, StepInv, PTL DEF Spec

\* The types of the model; what the receiver is handed is a whole message of the
\* protocol, though the stream may be cut and hold other bytes.
THEOREM TypeCorrect == Spec => []TypeOK
<1>1. IInv => TypeOK
  BY DEF IInv, SenderInv, SendingOK, ReadingOK, Whole, TypeOK
<1>2. QED
  BY <1>1, FramingInvariant, PTL

\* Numbers are taken outside sendMutex, but no number goes out twice and the
\* messages of one thread go out in the order of their numbers.
THEOREM OrderOfNumbers == Spec => []OvertakenByOthersOnly
<1>1. IInv => OvertakenByOthersOnly
  BY DEF IInv, SenderInv, NumbersOK
<1>2. QED
  BY <1>1, FramingInvariant, PTL

\* The reader takes nothing for a message that comes behind junk it can tell
\* from one: it closes the socket first.
THEOREM NothingIsReadAfterJunk == Spec => []NothingAfterJunk
<1>1. IInv => NothingAfterJunk
  <2> SUFFICES ASSUME IInv PROVE NothingAfterJunk
    OBVIOUS
  <2>1. SendingOK /\ ReadingOK /\ NumbersOK /\ SpoiltOK /\ Len(got) <= Limit
    BY DEF IInv, SenderInv, ReaderInv
  <2>2. Len(sent) \in 0..MaxSends /\ MaxSends \in Nat
    BY <2>1, SentAreFew, NumbersAssumption
  <2>3. spoilt = NotSpoilt => Len(sent) <= spoilt
    BY <2>2 DEF NotSpoilt
  <2>4. Len(got) \in Nat /\ spoilt \in Nat
    BY <2>1, NumbersAssumption DEF ReadingOK, SendingOK, NotSpoilt
  <2>5. QED
    BY <2>1, <2>2, <2>3, <2>4 DEF NothingAfterJunk, Limit
<1>2. QED
  BY <1>1, FramingInvariant, PTL

\* The messages that the receiver hands on are those that were written, in that
\* order, each whole and once; it ends only when the connection is lost.
LEMMA StepSimulates == IInv /\ [Next]_vars => [Stream!Next]_Stream!vars
<1> SUFFICES ASSUME IInv, [Next]_vars PROVE [Stream!Next]_Stream!vars
  OBVIOUS
<1>1. SendingOK /\ ReadingOK /\ SendersOK /\ NumbersOK /\ SpoiltOK /\ ReaderInv
  BY DEF IInv, SenderInv
<1>2. sent \in Seq(Message) /\ Len(sent) \in Nat
  BY <1>1 DEF SendingOK
<1>3. ASSUME UNCHANGED <<sent, got, spoilt, link>>, at = "ended" <=> at' = "ended"
      PROVE  [Stream!Next]_Stream!vars
  <2>1. SentBodies' = SentBodies
    BY <1>3 DEF SentBodies
  <2>2. (spoilt = NotSpoilt)' = (spoilt = NotSpoilt)
    BY <1>3 DEF NotSpoilt
  <2>3. (at = "ended")' = (at = "ended")
    BY <1>3
  <2>4. QED
    BY <1>3, <2>1, <2>2, <2>3 DEF Stream!vars
<1>4. ASSUME UNCHANGED <<sent, got, spoilt>>, link' = FALSE, at # "ended", at' # "ended"
      PROVE  Stream!Next
  <2>1. SentBodies' = SentBodies /\ (spoilt = NotSpoilt)' = (spoilt = NotSpoilt)
    BY <1>4 DEF SentBodies, NotSpoilt
  <2>2. (at = "ended")' = (at = "ended")
    BY <1>4
  <2>3. Stream!Lose
    BY <1>4, <2>1, <2>2 DEF Stream!Lose
  <2>4. QED
    BY <2>3 DEF Stream!Next
<1>5. ASSUME NEW t \in Senders, Sender(t) PROVE [Stream!Next]_Stream!vars
  <2>1. UNCHANGED <<got, spoilt, link, at>>
    BY <1>5 DEF Sender, Serialize, Lock, WriteHeader, WriteBody, SendFails, readerVars
  <2>2. CASE sent' = sent
    BY <1>3, <2>1, <2>2
  <2>3. CASE sent' # sent
    <3>1. sent' = Append(sent, message[t]) /\ Carries(t)
      BY <1>5, <2>3 DEF Sender, Serialize, Lock, WriteHeader, WriteBody, SendFails, Goes, Carries
    <3>2. PICK x \in Message : x = message[t]
      BY <1>1, <3>1 DEF SendersOK
    <3>3. PICK b \in Bodies : b = x.body
      BY NumberIsNatural
    <3>4. /\ Len(sent') = Len(sent) + 1 /\ sent'[Len(sent) + 1] = x
          /\ \A i \in 1..Len(sent) : sent'[i] = sent[i]
      BY <1>2, <3>1, <3>2
    <3>5. SentBodies \in Seq(Bodies) /\ Len(SentBodies) = Len(sent)
      <4>1. \A i \in 1..Len(sent) : sent[i].body \in Bodies
        BY <1>1, SentNumbers
      <4>2. QED
        BY <1>2, <4>1 DEF SentBodies
    <3>6. \A i \in 1..Len(sent) : SentBodies[i] = sent[i].body
      BY DEF SentBodies
    <3>7. SentBodies' = Append(SentBodies, b)
      <4> DEFINE S == [i \in 1..(Len(sent) + 1) |-> sent'[i].body]
      <4>1. SentBodies' = S
        BY <3>4 DEF SentBodies
      <4>2. \A i \in 1..(Len(sent) + 1) : S[i] \in Bodies
        BY <1>1, <1>2, <3>3, <3>4, SentNumbers
      <4>3. S \in Seq(Bodies) /\ Len(S) = Len(sent) + 1
        BY <1>2, <4>2
      <4>4. \A i \in 1..(Len(sent) + 1) : S[i] = Append(SentBodies, b)[i]
        BY <1>2, <3>3, <3>4, <3>5, <3>6
      <4>5. Append(SentBodies, b) \in Seq(Bodies) /\ Len(Append(SentBodies, b)) = Len(sent) + 1
        BY <3>5
      <4> HIDE DEF S
      <4>6. S = Append(SentBodies, b)
        BY <4>3, <4>4, <4>5
      <4>7. QED
        BY <4>1, <4>6
    <3>8. (spoilt = NotSpoilt)' = (spoilt = NotSpoilt) /\ (at = "ended")' = (at = "ended")
      BY <2>1 DEF NotSpoilt
    <3>9. Stream!Write(b)
      BY <2>1, <3>7, <3>8 DEF Stream!Write
    <3>10. QED
      BY <3>9 DEF Stream!Next
  <2>4. QED
    BY <2>2, <2>3
<1>6. CASE Spoil
  <2>1. UNCHANGED <<sent, got, link, at>> /\ spoilt' = Len(sent)
    BY <1>6 DEF Spoil, readerVars
  <2>2. spoilt' # NotSpoilt
    BY <1>1, <2>1, SentAreFew, NumbersAssumption DEF NotSpoilt
  <2>3. (spoilt = NotSpoilt)' = FALSE
    BY <2>2 DEF NotSpoilt
  <2>4. SentBodies' = SentBodies /\ (at = "ended")' = (at = "ended")
    BY <2>1 DEF SentBodies
  <2>5. Stream!Spoil
    BY <2>1, <2>3, <2>4 DEF Stream!Spoil
  <2>6. QED
    BY <2>5 DEF Stream!Next
<1>7. CASE Cut
  <2>1. link /\ link' = FALSE /\ UNCHANGED <<sent, got, spoilt, at>>
    BY <1>7 DEF Cut, senderVars, readerVars
  <2>2. CASE at = "ended"
    \* The reader has not ended while the connection is up.
    <3>1. FALSE
      BY <1>1, <2>1, <2>2 DEF ReaderInv, Over, GivesUp, OnStream, Reads, Between, Within
    <3>2. QED
      BY <3>1
  <2>3. QED
    BY <1>4, <2>1, <2>2
<1>8. CASE Loop
  <2>1. /\ at = "loop" /\ UNCHANGED <<sent, got, spoilt, link>>
        /\ at' = "name" \/ (at' = "ended" /\ ~link)
    BY <1>8 DEF Loop, Continues, senderVars
  <2>2. CASE at' = "name"
    BY <1>3, <2>1, <2>2
  <2>3. CASE at' = "ended" /\ ~link
    <3>1. SentBodies' = SentBodies /\ (spoilt = NotSpoilt)' = (spoilt = NotSpoilt)
      BY <2>1 DEF SentBodies, NotSpoilt
    <3>2. (at = "ended")' = TRUE
      BY <2>3
    <3>3. Stream!End
      BY <2>1, <2>3, <3>1, <3>2 DEF Stream!End
    <3>4. QED
      BY <3>3 DEF Stream!Next
  <2>4. QED
    BY <2>1, <2>2, <2>3
<1>9. ASSUME BadHeader, at # "ended" PROVE [Stream!Next]_Stream!vars
  <2>1. UNCHANGED <<sent, got, spoilt>> /\ link' = FALSE /\ at' # "ended"
    BY <1>9 DEF BadHeader, senderVars
  <2>2. QED
    BY <1>4, <1>9, <2>1
<1>10. CASE Buffer \/ Name \/ Blank \/ Digit \/ EndOfHeader
  <2>1. CASE BadHeader /\ at # "ended"
    BY <1>9, <2>1
  <2>2. CASE ~(BadHeader /\ at # "ended")
    <3>1. UNCHANGED <<sent, got, spoilt, link>>
      BY <1>10, <2>2 DEF Buffer, Name, Blank, Digit, EndOfHeader, Continues, senderVars
    <3>2. at = "ended" <=> at' = "ended"
      BY <1>10, <2>2 DEF Buffer, Name, Blank, Digit, EndOfHeader, Continues, AfterLength
    <3>3. QED
      BY <1>3, <3>1, <3>2
  <2>3. QED
    BY <2>1, <2>2
<1>11. CASE Body
  <2>1. at = "body" /\ at' = "loop" /\ UNCHANGED <<sent, spoilt, link>>
    BY <1>11 DEF Body, senderVars
  <2>2. CASE got' = got
    BY <1>3, <2>1, <2>2
  <2>3. CASE got' # got
    <3>1. Buffered /\ got' = Append(got, SubSeq(buf, 1, len))
      BY <1>11, <2>3 DEF Body
    <3>2. Len(got) <= Limit /\ Limit <= Len(sent)
      BY <1>1, LimitIsNatural DEF ReaderInv
    <3>3. PICK W, B, c, p : Reads(W, B, c, p)
      BY <1>1, <2>1 DEF ReaderInv, Over, GivesUp, OnStream
    <3>4. Len(got) < Limit /\ SubSeq(buf, 1, len) = sent[Len(got) + 1].body
      BY <1>1, <2>1, <3>1, <3>2, <3>3, BodyIsWhole
    <3>5. Len(got) + 1 \in 1..Len(sent) /\ Len(got) < Len(sent)
      BY <1>1, <1>2, <3>2, <3>4, LimitIsNatural DEF ReadingOK
    <3>6. Len(SentBodies) = Len(sent) /\ SentBodies[Len(got) + 1] = sent[Len(got) + 1].body
      BY <1>2, <3>5 DEF SentBodies
    <3>7. SentBodies' = SentBodies /\ (spoilt = NotSpoilt)' = (spoilt = NotSpoilt)
      BY <2>1 DEF SentBodies, NotSpoilt
    <3>8. (at = "ended")' = (at = "ended") /\ at # "ended"
      BY <2>1
    <3>9. got' = Append(got, SentBodies[Len(got) + 1]) /\ Len(got) < Len(SentBodies)
      BY <3>1, <3>4, <3>5, <3>6
    <3>10. Stream!Read
      BY <2>1, <3>7, <3>8, <3>9 DEF Stream!Read
    <3>11. QED
      BY <3>10 DEF Stream!Next
  <2>4. QED
    BY <2>2, <2>3
<1>12. CASE UNCHANGED vars
  BY <1>3, <1>12 DEF vars, senderVars, readerVars
<1>13. QED
  BY <1>5, <1>6, <1>7, <1>8, <1>10, <1>11, <1>12 DEF Next, Receiver

\* What ContentWriter writes and ContentReader reads is a stream of messages,
\* however its bytes arrive and wherever the connection is cut: everything that
\* ImplementsStream says but that a reader at an intact connection goes on.
THEOREM FramesAreAStream == Spec => Stream!SafetySpec
<1>1. Init => Stream!Init
  <2> SUFFICES ASSUME Init PROVE Stream!Init
    OBVIOUS
  <2>1. sent = <<>> /\ got = <<>> /\ link = TRUE /\ at = "loop" /\ spoilt = NotSpoilt
    BY DEF Init
  <2>2. SentBodies = <<>>
    BY <2>1 DEF SentBodies
  <2>3. QED
    BY <2>1, <2>2 DEF Stream!Init
<1>2. QED
  BY <1>1, StepSimulates, FramingInvariant, PTL DEF Spec, Stream!SafetySpec
=============================================================================
