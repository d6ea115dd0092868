----------------------------- MODULE WireProofs -----------------------------
(***************************************************************************)
(* Proofs about the arithmetic both ends share and about the grammar, for  *)
(* every width the assumptions of Wire allow and every message.            *)
(***************************************************************************)
EXTENDS Encoding, WireGrammar, WellFoundedInduction, SequenceTheorems, TLAPS

-----------------------------------------------------------------------------
(* Powers of two and widths *)

\* The assumption about powers, in the range most proofs need it.
LEMMA PowersAdd ==
  /\ \A n \in 0..(2 * ValueBits) : 2^n \in Nat \ {0}
  /\ \A m, n \in 0..ValueBits : 2^(m + n) = 2^m * 2^n
<1>1. ValueBits \in Nat
  BY WidthAssumption DEF ByteBits
<1>2. ASSUME NEW m \in 0..ValueBits, NEW n \in 0..ValueBits
      PROVE  m \in 0..(2 * ValueBits) /\ n \in 0..(2 * ValueBits) /\ m + n <= 2 * ValueBits
  BY <1>1
<1> QED BY <1>2, PowerAssumption

\* Powers of two that occur: naturals, monotone, multiplicative.
LEMMA Powers ==
  ASSUME NEW m \in 0..ValueBits, NEW n \in 0..ValueBits, m <= n
  PROVE  /\ 2^m \in Nat \ {0} /\ 2^n \in Nat \ {0}
         /\ 2^(n - m) \in Nat \ {0}
         /\ 2^n = 2^m * 2^(n - m)
         /\ 2^m <= 2^n
<1> ValueBits \in Nat
  BY WidthAssumption DEF ByteBits
<1>1. n - m \in 0..ValueBits /\ m + (n - m) = n
  OBVIOUS
<1>2. 2^m \in Nat \ {0} /\ 2^n \in Nat \ {0} /\ 2^(n - m) \in Nat \ {0}
  BY <1>1, PowersAdd
<1>3. 2^n = 2^m * 2^(n - m)
  BY <1>1, PowersAdd
<1>4. \A a, b \in Nat \ {0} : a <= a * b
  OBVIOUS
<1> QED
  BY <1>2, <1>3, <1>4

\* A quantity below 2^k shifted by s onto one below 2^s stays below 2^(s + k).
LEMMA ShiftOnto ==
  ASSUME NEW s \in Nat, NEW k \in Nat, s + k <= ValueBits,
         NEW low \in Nat, low < 2^s, NEW high \in Nat, high < 2^k
  PROVE  /\ high * 2^s \in 0..(2^ValueBits - 1)
         /\ low + high * 2^s \in Nat
         /\ low + high * 2^s < 2^(s + k)
         /\ 2^(s + k) <= 2^ValueBits
<1> DEFINE S == 2^s
           K == 2^k
<1>0. ValueBits \in Nat
  BY WidthAssumption DEF ByteBits
<1>1. s \in 0..ValueBits /\ k \in 0..ValueBits /\ s + k \in 0..ValueBits
  BY <1>0
<1>2. S \in Nat \ {0} /\ K \in Nat \ {0}
  BY <1>1, Powers
<1>3. 2^(s + k) = S * K
  BY <1>1, PowersAdd
<1>4. 2^(s + k) <= 2^ValueBits /\ 2^ValueBits \in Nat
  BY <1>0, <1>1, Powers
<1>5. ASSUME NEW a \in Nat \ {0}, NEW b \in Nat \ {0}, NEW x \in Nat, x < b
      PROVE  x * a \in Nat /\ x * a <= b * a - a
  <2>1. x + 1 <= b
    BY <1>5
  <2>2. (x + 1) * a <= b * a
    BY <2>1, <1>5
  <2>3. (x + 1) * a = x * a + a
    BY <1>5
  <2> QED
    BY <2>2, <2>3, <1>5
<1>6. high * S \in Nat /\ high * S <= K * S - S
  BY <1>2, <1>5
<1>7. K * S = S * K
  BY <1>2
<1> HIDE DEF S, K
<1>8. high * S \in 0..(2^ValueBits - 1)
  BY <1>2, <1>3, <1>4, <1>6, <1>7
<1>9. low < S
  BY DEF S
<1>10. low + high * S \in Nat /\ low + high * S < 2^(s + k)
  BY <1>2, <1>3, <1>6, <1>7, <1>9
<1> QED
  BY <1>4, <1>8, <1>10 DEF S

\* What WidthAssumption says of the widths as naturals.
LEMMA Widths ==
  /\ ValueBits \in Nat /\ ByteBits \in Nat /\ PayloadBits \in 1..ValueBits
  /\ ByteBits \in 1..ValueBits
  /\ 2^ValueBits \in Nat \ {0} /\ 2^PayloadBits \in Nat \ {0} /\ 2^ByteBits \in Nat \ {0}
<1>1. \A f, b \in Nat \ {0} : f * b \in Nat /\ b <= f * b /\ b <= 2 * f * b
  OBVIOUS
<1>2. ByteBits \in Nat \ {0} /\ FloatBytes \in Nat \ {0}
  BY WidthAssumption DEF ByteBits
<1>3. ValueBits \in Nat /\ ByteBits <= ValueBits
  BY <1>1, <1>2, WidthAssumption
<1>4. PayloadBits \in 1..ValueBits /\ ByteBits \in 1..ValueBits
  BY <1>2, <1>3, WidthAssumption DEF ByteBits
<1> QED
  BY <1>3, <1>4, PowersAdd

\* The ceilings are naturals, and 0 is an id in every build.
LEMMA Ceilings == ID_MAX \in Nat /\ ARRAY_MAX \in Nat
<1>1. 8 <= 2^ValueBits
  <2>1. 2^PayloadBits <= 2^ValueBits
    BY Widths, Powers
  <2> QED BY <2>1, Widths, WidthAssumption
<1> QED
  BY <1>1, Widths, WidthAssumption DEF ID_MAX, ARRAY_MAX

-----------------------------------------------------------------------------
(* ZigZag *)

\* What zigzag_encode and zigzag_decode make of each other: a signed value of
\* any width comes back as it was, the least one included, whose double does not
\* fit the value type.
THEOREM ZigZagRoundTrip ==
  \A v \in Signed : zigzag_encode(v) \in Unsigned /\ zigzag_decode(zigzag_encode(v)) = v
<1> DEFINE H == 2^(ValueBits - 1)
           W == 2^ValueBits
<1>1. H \in Nat \ {0} /\ W = 2 * H
  <2>1. 1 \in 0..ValueBits /\ ValueBits - 1 \in 0..ValueBits /\ 1 + (ValueBits - 1) = ValueBits
    BY Widths
  <2>2. 2^ValueBits = 2^1 * 2^(ValueBits - 1)
    BY <2>1, PowersAdd
  <2>3. 2^1 = 2
    OBVIOUS
  <2> QED BY <2>1, <2>2, <2>3, PowersAdd
<1> HIDE DEF H, W
<1>2. SUFFICES ASSUME NEW v \in (-H)..(H - 1)
               PROVE  zigzag_encode(v) \in 0..(W - 1) /\ zigzag_decode(zigzag_encode(v)) = v
  BY DEF Signed, Unsigned, H, W
<1>3. CASE v >= 0
  <2>1. (2 * v) % W = 2 * v
    BY <1>1, <1>2, <1>3
  <2>2. zigzag_encode(v) = 2 * v
    BY <2>1, <1>2, <1>3 DEF zigzag_encode, W
  <2>3. (2 * v) % 2 = 0 /\ (2 * v) \div 2 = v
    BY <1>2
  <2> QED BY <2>2, <2>3, <1>1, <1>2, <1>3 DEF zigzag_decode
<1>4. CASE v < 0
  <2>1. (2 * v) % W = 2 * v + W
    BY <1>1, <1>2, <1>4
  <2>2. zigzag_encode(v) = -(2 * v) - 1
    BY <2>1, <1>1, <1>2, <1>4 DEF zigzag_encode, W
  <2>3. (-(2 * v) - 1) % 2 = 1 /\ (-(2 * v) - 1) \div 2 = -v - 1
    BY <1>2, <1>4
  <2> QED BY <2>2, <2>3, <1>1, <1>2, <1>4 DEF zigzag_decode
<1> QED BY <1>2, <1>3, <1>4

-----------------------------------------------------------------------------
(* The split shift of 32-bit targets *)

\* Quotient and remainder are the ones that add up.
LEMMA DivMod ==
  ASSUME NEW q \in Nat, NEW b \in Nat \ {0}, NEW r \in 0..(b - 1)
  PROVE  (q * b + r) \div b = q /\ (q * b + r) % b = r
<1> DEFINE x == q * b + r
<1>0. q * b \in Nat /\ x \in Nat
  OBVIOUS
<1>1. x \div b \in Nat /\ x % b \in 0..(b - 1) /\ x = b * (x \div b) + (x % b)
  BY <1>0
<1> DEFINE d == x \div b
           e == x % b
<1>2. d \in Nat /\ e \in 0..(b - 1) /\ q * b + r = b * d + e
  BY <1>1
<1> HIDE DEF x, d, e
<1>3. ASSUME NEW m \in Nat, NEW n \in Nat, m < n PROVE m * b + b <= n * b
  <2>1. m + 1 <= n
    BY <1>3
  <2>2. (m + 1) * b <= n * b
    BY <2>1
  <2>3. (m + 1) * b = m * b + b
    OBVIOUS
  <2> QED BY <2>2, <2>3
<1>4. d * b = b * d
  BY <1>2
<1>5. ~(d < q)
  BY <1>2, <1>3, <1>4
<1>6. ~(q < d)
  BY <1>2, <1>3, <1>4
<1>7. d = q
  BY <1>2, <1>5, <1>6
<1>8. e = r
  BY <1>2, <1>7, <1>4
<1> QED BY <1>7, <1>8 DEF x, d, e

\* Dividing by 2 and then by c is dividing by 2 * c.
LEMMA DivTwice ==
  ASSUME NEW x \in Nat, NEW c \in Nat \ {0}
  PROVE  (x \div 2) \div c = x \div (2 * c)
<1> DEFINE y == x \div 2
           t == x % 2
           d == y \div c
           e == y % c
<1>1. y \in Nat /\ t \in 0..1 /\ x = 2 * y + t
  OBVIOUS
<1>2. d \in Nat /\ e \in 0..(c - 1) /\ y = c * d + e
  <2> HIDE DEF y
  <2> QED BY <1>1
<1> HIDE DEF t, e
<1>3. 2 * c \in Nat \ {0} /\ 2 * e + t \in 0..(2 * c - 1)
  BY <1>1, <1>2
<1>4. x = d * (2 * c) + (2 * e + t)
  <2> HIDE DEF y, d
  <2> QED BY <1>1, <1>2
<1>5. x \div (2 * c) = d
  <2> HIDE DEF y, d
  <2> QED BY <1>2, <1>3, <1>4, DivMod
<1> QED BY <1>5

\* x scaled by a stays below n scaled by a, whatever is below a on top.
LEMMA ScaledBelow ==
  ASSUME NEW a \in Nat \ {0}, NEW n \in Nat, NEW x \in Nat, x < n, NEW low \in 0..(a - 1)
  PROVE  x * a + low \in Nat /\ x * a + low <= n * a - 1
<1>1. x * a \in Nat /\ n * a \in Nat
  OBVIOUS
<1>2. (x + 1) * a <= n * a
  OBVIOUS
<1>3. (x + 1) * a = x * a + a
  OBVIOUS
<1> QED BY <1>1, <1>2, <1>3

\* The code composes a shifted payload byte from two half words where a whole
\* word cannot be shifted cheaply: the result is that of the plain shift, at
\* every shift, 0 and the half width included.
THEOREM HalvesAreTheShift ==
  ASSUME NEW half \in Nat, ValueBits = 2 * half, PayloadBits <= half,
         NEW payload \in 0..(2^PayloadBits - 1), NEW shift \in 0..(ValueBits - 1)
  PROVE  shifted_in_halves(payload, shift) = shifted(payload, shift)
<1> DEFINE h == 2^half
<1>1. half \in 0..ValueBits /\ half \in Nat \ {0} /\ ValueBits \div 2 = half
  BY Widths
<1>2. h \in Nat \ {0} /\ 2^ValueBits = h * h
  <2>1. half + half = ValueBits
    OBVIOUS
  <2> QED BY <1>1, <2>1, PowersAdd
<1>3. payload \in Nat /\ payload < h
  <2>1. 2^PayloadBits <= 2^half
    BY <1>1, Widths, Powers
  <2> QED BY <2>1, <1>2, Widths
<1>4. CASE shift < half
  <2> DEFINE a == 2^shift
             b == 2^(half - shift)
             c == 2^(half - 1 - shift)
             q == payload \div b
             r == payload % b
  <2>1. a \in Nat \ {0} /\ b \in Nat \ {0} /\ h = a * b
    BY <1>1, <1>4, Powers
  <2>2. c \in Nat \ {0} /\ b = 2 * c
    <3>1. /\ 1 \in 0..ValueBits /\ half - 1 - shift \in 0..ValueBits
          /\ 1 + (half - 1 - shift) = half - shift
      BY <1>1, <1>4
    <3>2. 2^1 = 2
      OBVIOUS
    <3>3. 2^(1 + (half - 1 - shift)) = 2^1 * 2^(half - 1 - shift)
      BY <3>1, PowersAdd
    <3> QED BY <3>1, <3>2, <3>3, PowersAdd
  <2>3. q \in Nat /\ r \in 0..(b - 1) /\ payload = b * q + r
    BY <1>3, <2>1
  <2>4. (payload \div 2) \div c = q
    BY <1>3, <2>2, DivTwice
  <2> HIDE DEF h, a, b, c, q, r
  <2>5. payload * a = q * h + r * a
    <3>1. \A x \in Nat : (b * q + x) * a = q * (a * b) + x * a
      BY <2>1, <2>3
    <3> QED BY <2>1, <2>3, <3>1
  <2>6. r * a \in 0..(h - 1)
    <3>1. r * a + 0 <= b * a - 1
      BY <2>1, <2>3, ScaledBelow
    <3> QED BY <2>1, <2>3, <3>1
  <2>7. q < h
    <3>1. q <= b * q
      BY <2>1, <2>3
    <3> QED BY <1>3, <2>1, <2>3, <3>1
  <2>8. q * h + r * a \in 0..(h * h - 1)
    <3>1. q * h + r * a \in Nat /\ q * h + r * a <= h * h - 1
      BY <1>2, <2>3, <2>6, <2>7, ScaledBelow
    <3> QED BY <1>2, <3>1
  <2>9. shifted(payload, shift) = q * h + r * a
    <3>1. \A w \in Nat \ {0} : \A x \in 0..(w - 1) : x % w = x
      OBVIOUS
    <3>2. h * h \in Nat \ {0}
      BY <1>2
    <3>3. (q * h + r * a) % (h * h) = q * h + r * a
      BY <2>8, <3>1, <3>2
    <3> QED BY <1>2, <2>5, <3>3 DEF shifted, a
  <2>10. (payload * a) % h = r * a
    BY <1>2, <2>3, <2>5, <2>6, DivMod
  <2>11. shifted_in_halves(payload, shift) = q * h + r * a
    BY <1>1, <1>4, <2>4, <2>10 DEF shifted_in_halves, h, a, c
  <2> QED BY <2>9, <2>11
<1>5. CASE shift >= half
  <2> DEFINE c == 2^(shift - half)
             q == (payload * c) \div h
             r == (payload * c) % h
  <2>1. c \in Nat \ {0} /\ 2^shift = h * c
    BY <1>1, <1>5, Powers
  <2>2. q \in Nat /\ r \in 0..(h - 1) /\ payload * c = h * q + r
    <3> DEFINE x == payload * c
    <3>1. x \in Nat
      BY <1>3, <2>1
    <3> HIDE DEF h, x
    <3>2. x \div h \in Nat /\ x % h \in 0..(h - 1) /\ x = h * (x \div h) + (x % h)
      BY <1>2, <3>1
    <3> QED BY <3>2 DEF x
  <2>3. shifted_in_halves(payload, shift) = r * h
    BY <1>1, <1>5 DEF shifted_in_halves
  <2> HIDE DEF h, c, q, r
  <2>4. payload * (h * c) = q * (h * h) + r * h
    <3>1. payload * (h * c) = (payload * c) * h
      BY <1>2, <1>3, <2>1
    <3>2. (h * q + r) * h = q * (h * h) + r * h
      BY <1>2, <2>2
    <3> QED BY <2>2, <3>1, <3>2
  <2>5. h * h \in Nat \ {0} /\ r * h \in 0..(h * h - 1)
    <3>1. r * h + 0 \in Nat /\ r * h + 0 <= h * h - 1
      BY <1>2, <2>2, ScaledBelow
    <3> QED BY <1>2, <2>2, <3>1
  <2>6. (payload * (h * c)) % (h * h) = r * h
    BY <2>2, <2>4, <2>5, DivMod
  <2> QED BY <1>2, <2>1, <2>3, <2>6 DEF shifted
<1> QED BY <1>4, <1>5

\* Whichever of the two a build has, payload_at is the plain shift.
LEMMA PayloadAt ==
  ASSUME NEW payload \in 0..(2^PayloadBits - 1), NEW shift \in 0..(ValueBits - 1)
  PROVE  payload_at(payload, shift) = (payload * 2^shift) % 2^ValueBits
<1>1. CASE Target32 /\ ValueBits = 2 * FloatBytes * ByteBits
  <2> DEFINE half == FloatBytes * ByteBits
  <2>1. ByteBits \in Nat \ {0} /\ PayloadBits <= ByteBits /\ FloatBytes \in Nat \ {0}
    BY WidthAssumption DEF ByteBits
  <2>2. \A f, b \in Nat \ {0} : f * b \in Nat /\ b <= f * b /\ 2 * f * b = 2 * (f * b)
    OBVIOUS
  <2>3. half \in Nat /\ PayloadBits <= half /\ ValueBits = 2 * half
    <3>1. half \in Nat /\ ByteBits <= half /\ 2 * FloatBytes * ByteBits = 2 * half
      BY <2>1, <2>2
    <3> HIDE DEF half
    <3> QED BY <1>1, <2>1, <3>1, Widths
  <2> HIDE DEF half
  <2> QED BY <1>1, <2>3, HalvesAreTheShift DEF payload_at, shifted
<1>2. CASE ~(Target32 /\ ValueBits = 2 * FloatBytes * ByteBits)
  BY <1>2 DEF payload_at, shifted
<1> QED BY <1>1, <1>2

-----------------------------------------------------------------------------
(* One byte of a varint *)

\* A byte push does not refuse adds its payload bits to the accumulator, which
\* stays within the value type, and below the next position if the varint goes on.
LEMMA PushFits ==
  ASSUME NEW low \in Nat, NEW s \in 0..(ValueBits - 1), low < 2^s,
         NEW byte \in Bytes, ~Overlong(byte, s)
  PROVE  /\ Accumulate(low, byte, s) = low + Payload(byte) * 2^s
         /\ Accumulate(low, byte, s) \in Unsigned
         /\ More(byte) => /\ s + PayloadBits <= ValueBits
                          /\ Accumulate(low, byte, s) < 2^(s + PayloadBits)
<1> DEFINE p == Payload(byte)
           room == ValueBits - s
<1>1. byte \in Nat
  BY Widths DEF Bytes
<1>2. p \in Nat /\ p < 2^PayloadBits
  BY <1>1, Widths DEF Payload
<1>3. room \in 1..ValueBits /\ s \in 0..ValueBits /\ s + room = ValueBits
  BY Widths
<1>4. \A x \in Nat : \A b \in Nat \ {0} : x \div b = 0 => x < b
  OBVIOUS
<1>5. 2^room \in Nat \ {0}
  BY <1>3, Powers
<1>6. room < PayloadBits => ~More(byte) /\ p < 2^room
  BY <1>2, <1>3, <1>4, <1>5 DEF Overlong
<1>7. PICK k \in Nat : /\ s + k <= ValueBits /\ p < 2^k
                       /\ More(byte) => k = PayloadBits
  BY <1>2, <1>3, <1>6, Widths
<1>8. /\ p * 2^s \in 0..(2^ValueBits - 1)
      /\ low + p * 2^s \in Nat /\ low + p * 2^s < 2^(s + k)
      /\ 2^(s + k) <= 2^ValueBits
  <2>1. s \in Nat
    BY Widths
  <2> HIDE DEF p
  <2> QED BY <2>1, <1>2, <1>7, ShiftOnto
<1>9. Accumulate(low, byte, s) = low + p * 2^s
  <2>1. \A w \in Nat \ {0} : \A x \in 0..(w - 1) : x % w = x
    OBVIOUS
  <2>2. (p * 2^s) % 2^ValueBits = p * 2^s
    BY <2>1, <1>8, Widths
  <2>3. p \in 0..(2^PayloadBits - 1)
    BY <1>2, Widths
  <2> QED BY <2>2, <2>3, PayloadAt DEF Accumulate
<1>10. 2^(s + k) \in Nat
  BY <1>3, <1>7, PowersAdd, Widths
<1>11. Accumulate(low, byte, s) \in Unsigned
  <2> HIDE DEF p
  <2> QED BY <1>8, <1>9, <1>10, Widths DEF Unsigned
<1>12. ASSUME More(byte)
       PROVE  /\ s + PayloadBits <= ValueBits
              /\ Accumulate(low, byte, s) < 2^(s + PayloadBits)
  <2>1. k = PayloadBits
    BY <1>7, <1>12
  <2> HIDE DEF p
  <2> QED BY <2>1, <1>7, <1>8, <1>9
<1> QED
  BY <1>9, <1>11, <1>12

-----------------------------------------------------------------------------
(* Induction *)

\* Over a set of numbers: the theorem about a predicate is out of reach here.
LEMMA Induction ==
  ASSUME NEW S, 0 \in S, \A n \in Nat : n \in S => n + 1 \in S
  PROVE  Nat \subseteq S
<1> SUFFICES ASSUME Nat \ S # {} PROVE FALSE
  OBVIOUS
<1> DEFINE R == OpToRel(<, Nat)
<1>1. IsWellFoundedOn(R, Nat)
  BY NatLessThanWellFounded
<1>2. \A x, y \in Nat : <<y, x>> \in R <=> y < x
  BY DEF OpToRel
<1> HIDE DEF R
<1>3. PICK x \in Nat \ S : \A y \in Nat \ S : ~(<<y, x>> \in R)
  BY <1>1, WFMin
<1>4. x # 0 /\ x - 1 \in Nat
  BY <1>3
<1>5. x - 1 \in S
  <2>1. <<x - 1, x>> \in R
    BY <1>2, <1>4
  <2> QED BY <1>3, <1>4, <2>1
<1>6. x = (x - 1) + 1
  BY <1>3
<1> QED BY <1>3, <1>4, <1>5, <1>6

-----------------------------------------------------------------------------
(* Sequences *)

\* A sequence of whatever: events are not typed further.
IsSequence(q) == \E E : q \in Seq(E)

\* Appending adds one event after those there are.
LEMMA AppendIs ==
  ASSUME NEW q, IsSequence(q), NEW e
  PROVE  /\ IsSequence(Append(q, e)) /\ Len(q) \in Nat /\ Len(Append(q, e)) = Len(q) + 1
         /\ Append(q, e)[Len(q) + 1] = e
         /\ \A i \in 1..Len(q) : Append(q, e)[i] = q[i]
         /\ \A x : [Append(q, e) EXCEPT ![Len(q) + 1] = x] = Append(q, x)
<1>1. PICK E : q \in Seq(E)
  BY DEF IsSequence
<1> DEFINE F == E \cup {e}
<1>2. q \in Seq(F) /\ e \in F
  BY <1>1
<1> HIDE DEF F
<1>3. /\ Append(q, e) \in Seq(F) /\ Len(q) \in Nat /\ Len(Append(q, e)) = Len(q) + 1
      /\ Append(q, e)[Len(q) + 1] = e
      /\ \A i \in 1..Len(q) : Append(q, e)[i] = q[i]
  BY <1>2, AppendProperties
<1>4. ASSUME NEW x PROVE [Append(q, e) EXCEPT ![Len(q) + 1] = x] = Append(q, x)
  <2> DEFINE G == E \cup {e, x}
             u == Append(q, e)
             w == Append(q, x)
             z == [u EXCEPT ![Len(q) + 1] = x]
  <2>1. q \in Seq(G) /\ e \in G /\ x \in G
    BY <1>1
  <2> HIDE DEF G
  <2>2. /\ u \in Seq(G) /\ Len(u) = Len(q) + 1 /\ Len(q) \in Nat
        /\ \A i \in 1..Len(q) : u[i] = q[i]
    BY <2>1, AppendProperties
  <2>3. /\ w \in Seq(G) /\ Len(w) = Len(q) + 1
        /\ \A i \in 1..Len(q) : w[i] = q[i] /\ w[Len(q) + 1] = x
    BY <2>1, AppendProperties
  <2>4. w[Len(q) + 1] = x
    BY <2>1, AppendProperties
  <2> HIDE DEF u, w
  <2>5. Len(q) + 1 \in 1..Len(u)
    BY <2>2
  <2>6. /\ z \in Seq(G) /\ Len(z) = Len(u)
        /\ \A j \in 1..Len(u) : z[j] = IF j = Len(q) + 1 THEN x ELSE u[j]
    BY <2>1, <2>2, <2>5, ExceptSeq
  <2> HIDE DEF z
  <2>7. \A j \in 1..Len(z) : z[j] = w[j]
    BY <2>2, <2>3, <2>4, <2>6
  <2>8. z = w
    BY <2>2, <2>3, <2>6, <2>7, SeqEqual
  <2> QED BY <2>8 DEF u, w, z
<1> QED BY <1>3, <1>4 DEF IsSequence

\* A message that has grown by a byte, followed by whatever.
LEMMA Grown ==
  ASSUME NEW s \in Seq(Bytes), NEW b \in Bytes
  PROVE  /\ Append(s, b) \in Seq(Bytes) /\ Len(s) \in Nat /\ Len(Append(s, b)) = Len(s) + 1
         /\ Append(s, b)[Len(s) + 1] = b /\ \A i \in 1..Len(s) : Append(s, b)[i] = s[i]
         /\ \A t \in Seq(Bytes) : /\ <<b>> \o t \in Seq(Bytes)
                                  /\ Append(s, b) \o t = s \o (<<b>> \o t)
<1>1. Append(s, b) = s \o <<b>> /\ <<b>> \in Seq(Bytes)
  BY AppendIsConcat
<1>2. ASSUME NEW t \in Seq(Bytes)
      PROVE  /\ <<b>> \o t \in Seq(Bytes)
             /\ Append(s, b) \o t = s \o (<<b>> \o t)
  BY <1>1, ConcatProperties, ConcatAssociative
<1> QED BY <1>2, AppendProperties

\* A sequence and what follows it.
LEMMA Followed ==
  ASSUME NEW s \in Seq(Bytes), NEW t \in Seq(Bytes)
  PROVE  /\ s \o t \in Seq(Bytes) /\ Len(s) \in Nat /\ Len(t) \in Nat
         /\ Len(s \o t) = Len(s) + Len(t)
         /\ \A i \in 1..Len(s) : (s \o t)[i] = s[i]
BY ConcatProperties

-----------------------------------------------------------------------------
(* Numbers *)

\* A function that adds up digits exists: what LittleEndian needs to be one.
LEMMA Sums ==
  ASSUME NEW D, NEW N \in Nat
  PROVE  \E f : f = [n \in 0..N |-> IF n = 0 THEN 0 ELSE f[n - 1] + D[n]]
<1> DEFINE S == {m \in Nat : \E f : f = [n \in 0..m |-> IF n = 0 THEN 0 ELSE f[n - 1] + D[n]]}
<1> HIDE DEF S
<1>1. 0 \in S
  <2> DEFINE f == [n \in 0..0 |-> 0]
  <2>1. f = [n \in 0..0 |-> IF n = 0 THEN 0 ELSE f[n - 1] + D[n]]
    OBVIOUS
  <2> QED BY <2>1 DEF S
<1>2. ASSUME NEW m \in Nat, m \in S PROVE m + 1 \in S
  <2>1. PICK f : f = [n \in 0..m |-> IF n = 0 THEN 0 ELSE f[n - 1] + D[n]]
    BY <1>2 DEF S
  <2> DEFINE F == [n \in 0..m |-> IF n = 0 THEN 0 ELSE f[n - 1] + D[n]]
             g == [n \in 0..(m + 1) |-> IF n = m + 1 THEN f[m] + D[m + 1] ELSE f[n]]
             G == [n \in 0..(m + 1) |-> IF n = 0 THEN 0 ELSE g[n - 1] + D[n]]
  <2>2. F[0] = 0 /\ \A n \in 1..m : F[n] = f[n - 1] + D[n]
    <3>1. 0 \in 0..m /\ \A n \in 1..m : n \in 0..m /\ n # 0
      OBVIOUS
    <3> QED BY <3>1, Zenon
  <2>3. f = F
    BY <2>1
  <2> HIDE DEF F
  <2>4. f[0] = 0 /\ \A n \in 1..m : f[n] = f[n - 1] + D[n]
    BY <2>2, <2>3
  <2>5. g[m + 1] = f[m] + D[m + 1] /\ \A n \in 0..m : g[n] = f[n]
    OBVIOUS
  <2> HIDE DEF g
  <2>6. G[0] = 0 /\ \A n \in 1..(m + 1) : G[n] = g[n - 1] + D[n]
    <3>1. 0 \in 0..(m + 1) /\ \A n \in 1..(m + 1) : n \in 0..(m + 1) /\ n # 0
      OBVIOUS
    <3> QED BY <3>1, Zenon
  <2>7. DOMAIN g = 0..(m + 1) /\ g = [n \in 0..(m + 1) |-> g[n]]
    BY DEF g
  <2>8. \A n \in 0..(m + 1) : g[n] = G[n]
    <3> SUFFICES ASSUME NEW n \in 0..(m + 1) PROVE g[n] = G[n]
      OBVIOUS
    <3> HIDE DEF G
    <3>1. CASE n = 0
      BY <2>4, <2>5, <2>6, <3>1
    <3>2. CASE n \in 1..m
      <4>1. n - 1 \in 0..m /\ n \in 0..m /\ n \in 1..(m + 1)
        BY <3>2
      <4> QED BY <2>4, <2>5, <2>6, <3>2, <4>1
    <3>3. CASE n = m + 1
      <4>1. m + 1 \in 1..(m + 1) /\ (m + 1) - 1 = m /\ m \in 0..m
        OBVIOUS
      <4> QED BY <2>5, <2>6, <3>3, <4>1
    <3> QED BY <3>1, <3>2, <3>3
  <2>9. g = G
    BY <2>7, <2>8
  <2>10. \E h : h = [n \in 0..(m + 1) |-> IF n = 0 THEN 0 ELSE h[n - 1] + D[n]]
    BY <2>9, Zenon
  <2>11. m + 1 \in Nat
    OBVIOUS
  <2> QED BY <2>10, <2>11, Zenon DEF S
<1>3. Nat \subseteq S
  BY <1>1, <1>2, Induction
<1> QED BY <1>3 DEF S

\* The recursive function inside LittleEndian.
SumOf(d, bits) ==
  CHOOSE f : f = [n \in 0..Len(d) |->
                    IF n = 0 THEN 0 ELSE f[n - 1] + d[n] * 2^(bits * (n - 1))]

\* LittleEndian adds the digits one after the other, the lowest first.
LEMMA SumIs ==
  ASSUME NEW d, Len(d) \in Nat, NEW bits
  PROVE  /\ LittleEndian(d, bits) = SumOf(d, bits)[Len(d)]
         /\ SumOf(d, bits)[0] = 0
         /\ \A n \in 1..Len(d) :
              SumOf(d, bits)[n] = SumOf(d, bits)[n - 1] + d[n] * 2^(bits * (n - 1))
<1> DEFINE D == [n \in 1..Len(d) |-> d[n] * 2^(bits * (n - 1))]
<1>1. PICK f : f = [n \in 0..Len(d) |-> IF n = 0 THEN 0 ELSE f[n - 1] + D[n]]
  <2> HIDE DEF D
  <2> QED BY Sums
<1>2. \A n \in 0..Len(d) : (IF n = 0 THEN 0 ELSE f[n - 1] + D[n]) =
                           (IF n = 0 THEN 0 ELSE f[n - 1] + d[n] * 2^(bits * (n - 1)))
  <2> SUFFICES ASSUME NEW n \in 0..Len(d), n # 0 PROVE D[n] = d[n] * 2^(bits * (n - 1))
    OBVIOUS
  <2>1. n \in 1..Len(d)
    OBVIOUS
  <2> QED BY <2>1
<1> HIDE DEF D
<1>3. f = [n \in 0..Len(d) |-> IF n = 0 THEN 0 ELSE f[n - 1] + d[n] * 2^(bits * (n - 1))]
  BY <1>1, <1>2
<1> DEFINE g == SumOf(d, bits)
<1>4. g = [n \in 0..Len(d) |-> IF n = 0 THEN 0 ELSE g[n - 1] + d[n] * 2^(bits * (n - 1))]
  BY <1>3, Zenon DEF SumOf
<1> DEFINE H == [n \in 0..Len(d) |-> IF n = 0 THEN 0 ELSE g[n - 1] + d[n] * 2^(bits * (n - 1))]
<1> HIDE DEF g
<1>5. H[0] = 0 /\ \A n \in 1..Len(d) : H[n] = g[n - 1] + d[n] * 2^(bits * (n - 1))
  <2>1. 0 \in 0..Len(d) /\ \A n \in 1..Len(d) : n \in 0..Len(d) /\ n # 0
    OBVIOUS
  <2> QED BY <2>1, Zenon
<1>6. g = H
  BY <1>4
<1> HIDE DEF H
<1>7. g[0] = 0 /\ \A n \in 1..Len(d) : g[n] = g[n - 1] + d[n] * 2^(bits * (n - 1))
  BY <1>5, <1>6
<1> QED BY <1>7 DEF g, LittleEndian, SumOf

\* Nothing is worth 0, and one digit more stands above those before it.
LEMMA LittleEndianGrows ==
  ASSUME NEW bits
  PROVE  /\ LittleEndian(<<>>, bits) = 0
         /\ \A d : IsSequence(d) =>
              \A x : LittleEndian(Append(d, x), bits)
                       = LittleEndian(d, bits) + x * 2^(bits * Len(d))
<1>1. LittleEndian(<<>>, bits) = 0
  <2>1. Len(<<>>) = 0
    OBVIOUS
  <2> QED BY <2>1, SumIs
<1>2. ASSUME NEW d, IsSequence(d), NEW x
      PROVE  LittleEndian(Append(d, x), bits) = LittleEndian(d, bits) + x * 2^(bits * Len(d))
  <2> DEFINE e == Append(d, x)
             N == Len(d)
             f == SumOf(d, bits)
             g == SumOf(e, bits)
             S == {n \in Nat : n <= N => g[n] = f[n]}
  <2>1. N \in Nat /\ Len(e) = N + 1 /\ e[N + 1] = x /\ \A i \in 1..N : e[i] = d[i]
    BY <1>2, AppendIs
  <2>2. /\ LittleEndian(d, bits) = f[N] /\ f[0] = 0
        /\ \A n \in 1..N : f[n] = f[n - 1] + d[n] * 2^(bits * (n - 1))
    BY <2>1, SumIs
  <2>3. /\ LittleEndian(e, bits) = g[N + 1] /\ g[0] = 0
        /\ \A n \in 1..(N + 1) : g[n] = g[n - 1] + e[n] * 2^(bits * (n - 1))
    <3> HIDE DEF e
    <3>1. Len(e) \in Nat
      BY <2>1
    <3> QED BY <2>1, <3>1, SumIs
  <2> HIDE DEF e, N, f, g
  <2>4. 0 \in S
    BY <2>2, <2>3
  <2>5. ASSUME NEW n \in Nat, n \in S PROVE n + 1 \in S
    <3>1. CASE n + 1 <= N
      <4>1. n + 1 \in 1..N /\ n + 1 \in 1..(N + 1) /\ (n + 1) - 1 = n /\ n <= N
        BY <2>1, <3>1
      <4>2. g[n] = f[n] /\ e[n + 1] = d[n + 1]
        BY <2>1, <2>5, <4>1
      <4> QED BY <2>2, <2>3, <4>1, <4>2
    <3>2. CASE ~(n + 1 <= N)
      BY <3>2
    <3> QED BY <3>1, <3>2
  <2> HIDE DEF S
  <2>6. Nat \subseteq S
    BY <2>4, <2>5, Induction
  <2>7. g[N] = f[N]
    BY <2>1, <2>6 DEF S
  <2>8. g[N + 1] = g[N] + x * 2^(bits * N)
    <3>1. N + 1 \in 1..(N + 1) /\ (N + 1) - 1 = N
      BY <2>1
    <3> QED BY <2>1, <2>3, <3>1
  <2>9. LittleEndian(e, bits) = LittleEndian(d, bits) + x * 2^(bits * N)
    BY <2>2, <2>3, <2>7, <2>8
  <2> QED BY <2>9 DEF e, N
<1> QED BY <1>1, <1>2

\* The payload bits of a varint that has grown by a byte.
LEMMA DigitsGrow ==
  ASSUME NEW u, NEW p \in Nat, NEW q \in Nat, p <= q
  PROVE  /\ IsSequence(Digits(u, p, q - 1)) /\ Len(Digits(u, p, q - 1)) = q - p
         /\ Digits(u, p, q) = Append(Digits(u, p, q - 1), Payload(u[q]))
<1> DEFINE n == q - p
           d == Digits(u, p, q - 1)
           e == Digits(u, p, q)
<1>1. n \in Nat /\ q - p + 1 = n + 1 /\ (q - 1) - p + 1 = n /\ p + (n + 1) - 1 = q
  OBVIOUS
<1>2. d = [i \in 1..n |-> Payload(u[p + i - 1])]
  BY <1>1 DEF Digits
<1>3. e = [i \in 1..(n + 1) |-> Payload(u[p + i - 1])]
  BY <1>1 DEF Digits
<1>4. IsSequence(d) /\ Len(d) = n
  <2> DEFINE E == {Payload(u[p + i - 1]) : i \in 1..n}
  <2>1. d \in [1..n -> E]
    BY <1>2
  <2> HIDE DEF E, d, n
  <2>2. d \in Seq(E) /\ Len(d) = n
    BY <1>1, <2>1
  <2> QED BY <2>2 DEF IsSequence
<1>5. Append(d, Payload(u[q])) = e
  <2> DEFINE a == Append(d, Payload(u[q]))
  <2>1. /\ Len(a) = n + 1 /\ a[n + 1] = Payload(u[q]) /\ \A i \in 1..n : a[i] = d[i]
        /\ IsSequence(a)
    BY <1>4, AppendIs
  <2> HIDE DEF a, d, e, n
  <2>2. \A i \in 1..(n + 1) : a[i] = e[i]
    <3> SUFFICES ASSUME NEW i \in 1..(n + 1) PROVE a[i] = e[i]
      OBVIOUS
    <3>1. CASE i = n + 1
      BY <1>1, <1>3, <2>1, <3>1
    <3>2. CASE i # n + 1
      <4>1. i \in 1..n
        BY <1>1, <3>2
      <4> QED BY <1>2, <1>3, <2>1, <4>1
    <3> QED BY <3>1, <3>2
  <2>3. a = [i \in 1..(n + 1) |-> a[i]]
    <3>1. PICK E : a \in Seq(E)
      BY <2>1 DEF IsSequence
    <3> QED BY <2>1, <3>1, LenProperties
  <2>4. e = [i \in 1..(n + 1) |-> e[i]]
    BY <1>3
  <2>5. a = e
    BY <2>2, <2>3, <2>4
  <2> QED BY <2>5 DEF a
<1> QED BY <1>4, <1>5 DEF n, d, e

\* They are those of the bytes from p to q, whatever comes before and after.
LEMMA DigitsSame ==
  ASSUME NEW u, NEW w, NEW p \in Nat, NEW q \in Int, \A i \in p..q : u[i] = w[i]
  PROVE  Digits(u, p, q) = Digits(w, p, q)
<1>1. \A i \in 1..(q - p + 1) : p + i - 1 \in p..q
  OBVIOUS
<1> QED BY <1>1 DEF Digits

-----------------------------------------------------------------------------
(* Varints *)

\* How many bytes a varint has at most: the next still begins within the value.
LEMMA VarintSize ==
  /\ VarintBytes \in Nat
  /\ \A k \in Nat : PayloadBits * k \in Nat /\ (PayloadBits * k < ValueBits <=> k < VarintBytes)
<1> DEFINE g == PayloadBits
           x == ValueBits + g - 1
           q == x \div g
           r == x % g
<1>1. g \in Nat \ {0} /\ ValueBits \in Nat /\ x \in Nat
  BY Widths
<1>2. q \in Nat /\ r \in 0..(g - 1) /\ x = g * q + r
  <2> HIDE DEF x, g
  <2> QED BY <1>1
<1>3. VarintBytes = q
  BY DEF VarintBytes
<1> HIDE DEF q, r
<1>4. ValueBits = g * q + r + 1 - g
  <2>1. g * q \in Nat
    BY <1>1, <1>2
  <2> QED BY <1>1, <1>2, <2>1
<1> HIDE DEF x, g
<1>5. ASSUME NEW k \in Nat PROVE g * k \in Nat /\ (g * k < ValueBits <=> k < q)
  <2>1. g * k \in Nat /\ g * q \in Nat
    BY <1>1, <1>2
  <2>2. ASSUME k < q PROVE g * k < ValueBits
    <3>1. k + 1 <= q
      BY <1>2, <2>2
    <3>2. g * (k + 1) <= g * q
      BY <1>1, <1>2, <3>1
    <3>3. g * (k + 1) = g * k + g
      BY <1>1
    <3> QED BY <1>1, <1>2, <1>4, <2>1, <3>2, <3>3
  <2>3. ASSUME ~(k < q) PROVE ~(g * k < ValueBits)
    <3>1. q <= k
      BY <1>2, <2>3
    <3>2. g * q <= g * k
      BY <1>1, <1>2, <3>1
    <3> QED BY <1>1, <1>2, <1>4, <2>1, <3>2
  <2> QED BY <2>1, <2>2, <2>3
<1> QED BY <1>2, <1>3, <1>5 DEF g

\* The bytes up to q are a varint's but for its end: where it may end.
LEMMA VarintEnds ==
  ASSUME NEW u \in Seq(Bytes), NEW p \in 1..Len(u), NEW q \in p..Len(u),
         \A i \in p..(q - 1) : More(u[i])
  PROVE  LET ends == {r \in p..Len(u) : ~More(u[r])}
             last == IF ends = {} THEN Len(u) ELSE CHOOSE r \in ends : \A m \in ends : r <= m
         IN /\ ~More(u[q]) => ends # {} /\ last = q
            /\ More(u[q]) => /\ last \in q..Len(u)
                             /\ ends # {} => last # q
<1> DEFINE ends == {r \in p..Len(u) : ~More(u[r])}
           last == IF ends = {} THEN Len(u) ELSE CHOOSE r \in ends : \A m \in ends : r <= m
<1>0. Len(u) \in Nat
  BY LenProperties
<1>1. \A r \in ends : r \in q..Len(u)
  BY <1>0
<1>2. ASSUME ~More(u[q]) PROVE ends # {} /\ last = q
  <2>1. q \in ends /\ \A m \in ends : q <= m
    BY <1>0, <1>1, <1>2
  <2>2. \A r \in ends : (\A m \in ends : r <= m) => r = q
    BY <1>0, <1>1, <2>1
  <2> HIDE DEF ends
  <2>3. (CHOOSE r \in ends : \A m \in ends : r <= m) = q
    BY <2>1, <2>2
  <2> QED BY <2>1, <2>3
<1>3. ASSUME More(u[q]) PROVE last \in q..Len(u) /\ (ends # {} => last # q)
  <2>1. CASE ends = {}
    BY <1>0, <2>1
  <2>2. CASE ends # {}
    <3>1. PICK n \in Nat : n + q \in ends
      <4>1. PICK r \in ends : TRUE
        BY <2>2
      <4>2. r - q \in Nat /\ (r - q) + q = r
        BY <1>0, <1>1, <4>1
      <4> QED BY <4>1, <4>2
    <3>2. \E r \in ends : \A m \in ends : r <= m
      <4> DEFINE S == {j \in Nat : \A i \in 0..j : i + q \notin ends}
      <4>1. CASE q \in ends
        BY <1>0, <1>1, <4>1
      <4>2. CASE q \notin ends
        <5>1. 0 \in S
          BY <4>2
        <5>2. PICK j \in Nat : j \in S /\ j + 1 \notin S
          <6>1. n \notin S
            BY <3>1
          <6> HIDE DEF S
          <6> QED BY <5>1, <6>1, Induction
        <5>3. (j + 1) + q \in ends
          <6> HIDE DEF ends
          <6>1. PICK i \in 0..(j + 1) : i + q \in ends
            BY <5>2
          <6>2. i \notin 0..j
            BY <5>2, <6>1
          <6>3. i = j + 1
            BY <5>2, <6>1, <6>2
          <6> QED BY <6>1, <6>3
        <5>4. \A m \in ends : (j + 1) + q <= m
          <6> SUFFICES ASSUME NEW m \in ends, m < (j + 1) + q PROVE FALSE
            BY <1>0, <1>1
          <6>1. m - q \in 0..j /\ (m - q) + q = m
            BY <1>0, <1>1
          <6> QED BY <5>2, <6>1
        <5> QED BY <5>3, <5>4
      <4> QED BY <4>1, <4>2
    <3>3. last \in ends
      <4> HIDE DEF ends
      <4> QED BY <2>2, <3>2
    <3>4. q \notin ends
      BY <1>3
    <3> QED BY <1>1, <3>3, <3>4
  <2> QED BY <2>1, <2>2
<1> QED BY <1>2, <1>3

-----------------------------------------------------------------------------
(* The reading of a message *)

Start == At(1, 0, AHeader, <<>>)

\* A function that reads item after item exists.
LEMMA ReadingExists ==
  ASSUME NEW s, NEW N \in Nat
  PROVE  \E f : f = [n \in 0..N |-> IF n = 0 THEN Start ELSE Item(s, f[n - 1])]
<1> DEFINE S == {m \in Nat : \E f : f = [n \in 0..m |-> IF n = 0 THEN Start
                                                                 ELSE Item(s, f[n - 1])]}
<1> HIDE DEF S
<1>1. 0 \in S
  <2> DEFINE f == [n \in 0..0 |-> Start]
  <2>1. f = [n \in 0..0 |-> IF n = 0 THEN Start ELSE Item(s, f[n - 1])]
    OBVIOUS
  <2> HIDE DEF f
  <2>2. \E h : h = [n \in 0..0 |-> IF n = 0 THEN Start ELSE Item(s, h[n - 1])]
    BY <2>1, Zenon
  <2> QED BY <2>2 DEF S
<1>2. ASSUME NEW m \in Nat, m \in S PROVE m + 1 \in S
  <2>1. PICK f : f = [n \in 0..m |-> IF n = 0 THEN Start ELSE Item(s, f[n - 1])]
    BY <1>2 DEF S
  <2> DEFINE F == [n \in 0..m |-> IF n = 0 THEN Start ELSE Item(s, f[n - 1])]
             g == [n \in 0..(m + 1) |-> IF n = m + 1 THEN Item(s, f[m]) ELSE f[n]]
             G == [n \in 0..(m + 1) |-> IF n = 0 THEN Start ELSE Item(s, g[n - 1])]
  <2>2. F[0] = Start /\ \A n \in 1..m : F[n] = Item(s, f[n - 1])
    <3>1. 0 \in 0..m /\ \A n \in 1..m : n \in 0..m /\ n # 0
      OBVIOUS
    <3> QED BY <3>1, Zenon
  <2>3. f = F
    BY <2>1
  <2> HIDE DEF F
  <2>4. f[0] = Start /\ \A n \in 1..m : f[n] = Item(s, f[n - 1])
    BY <2>2, <2>3
  <2>5. g[m + 1] = Item(s, f[m]) /\ \A n \in 0..m : g[n] = f[n]
    OBVIOUS
  <2> HIDE DEF g
  <2>6. G[0] = Start /\ \A n \in 1..(m + 1) : G[n] = Item(s, g[n - 1])
    <3>1. 0 \in 0..(m + 1) /\ \A n \in 1..(m + 1) : n \in 0..(m + 1) /\ n # 0
      OBVIOUS
    <3> QED BY <3>1, Zenon
  <2>7. DOMAIN g = 0..(m + 1) /\ g = [n \in 0..(m + 1) |-> g[n]]
    BY DEF g
  <2>8. \A n \in 0..(m + 1) : g[n] = G[n]
    <3> SUFFICES ASSUME NEW n \in 0..(m + 1) PROVE g[n] = G[n]
      OBVIOUS
    <3> HIDE DEF G
    <3>1. CASE n = 0
      BY <2>4, <2>5, <2>6, <3>1
    <3>2. CASE n \in 1..m
      <4>1. n - 1 \in 0..m /\ n \in 0..m /\ n \in 1..(m + 1)
        BY <3>2
      <4> QED BY <2>4, <2>5, <2>6, <3>2, <4>1
    <3>3. CASE n = m + 1
      <4>1. m + 1 \in 1..(m + 1) /\ (m + 1) - 1 = m /\ m \in 0..m
        OBVIOUS
      <4> QED BY <2>5, <2>6, <3>3, <4>1
    <3> QED BY <3>1, <3>2, <3>3
  <2>9. g = G
    BY <2>7, <2>8
  <2>10. \E h : h = [n \in 0..(m + 1) |-> IF n = 0 THEN Start ELSE Item(s, h[n - 1])]
    BY <2>9, Zenon
  <2>11. m + 1 \in Nat
    OBVIOUS
  <2> QED BY <2>10, <2>11, Zenon DEF S
<1>3. Nat \subseteq S
  BY <1>1, <1>2, Induction
<1> QED BY <1>3 DEF S

\* A reading starts at the first byte and goes on item by item.
LEMMA ReadingsAre ==
  ASSUME NEW s \in Seq(Bytes)
  PROVE  /\ Readings(s)[0] = Start
         /\ \A n \in 1..(Len(s) + 1) : Readings(s)[n] = Item(s, Readings(s)[n - 1])
<1> DEFINE N == Len(s) + 1
           R == Readings(s)
<1>1. N \in Nat
  BY LenProperties
<1>2. PICK f : f = [n \in 0..N |-> IF n = 0 THEN Start ELSE Item(s, f[n - 1])]
  <2> HIDE DEF N
  <2> QED BY <1>1, ReadingExists
<1>3. R = CHOOSE h : h = [n \in 0..N |-> IF n = 0 THEN Start ELSE Item(s, h[n - 1])]
  BY DEF Readings, Start
<1>4. R = [n \in 0..N |-> IF n = 0 THEN Start ELSE Item(s, R[n - 1])]
  <2> HIDE DEF R, N
  <2> QED BY <1>2, <1>3, Zenon
<1> DEFINE H == [n \in 0..N |-> IF n = 0 THEN Start ELSE Item(s, R[n - 1])]
<1> HIDE DEF R, N
<1>5. H[0] = Start /\ \A n \in 1..N : H[n] = Item(s, R[n - 1])
  <2>1. 0 \in 0..N /\ \A n \in 1..N : n \in 0..N /\ n # 0
    BY <1>1
  <2> QED BY <2>1, Zenon
<1>6. R = H
  BY <1>4
<1> HIDE DEF H
<1>7. R[0] = Start /\ \A n \in 1..N : R[n] = Item(s, R[n - 1])
  BY <1>5, <1>6
<1> QED BY <1>7 DEF R, N

\* A reading that has ended stays as it is.
LEMMA EndStays ==
  ASSUME NEW s \in Seq(Bytes), NEW n \in 0..(Len(s) + 1), NEW verdict, NEW events,
         verdict # "none", Readings(s)[n] = Ended(verdict, events)
  PROVE  Meaning(s) = Ended(verdict, events)
<1> DEFINE N == Len(s) + 1
           R == Readings(s)
           e == Ended(verdict, events)
           S == {m \in Nat : n + m <= N => R[n + m] = e}
<1>1. N \in Nat /\ n \in 0..N /\ R[n] = e
  BY LenProperties
<1>2. \A m \in 1..N : R[m] = Item(s, R[m - 1])
  BY ReadingsAre
<1>3. e.verdict # "none"
  BY DEF Ended
<1>4. e = [verdict |-> e.verdict, events |-> e.events]
  BY DEF Ended
<1>5. Meaning(s) = [verdict |-> R[N].verdict, events |-> R[N].events]
  BY DEF Meaning
<1> HIDE DEF N, R, e
<1>6. 0 \in S
  BY <1>1
<1>7. ASSUME NEW m \in Nat, m \in S PROVE m + 1 \in S
  <2> SUFFICES ASSUME n + (m + 1) <= N PROVE R[n + (m + 1)] = e
    OBVIOUS
  <2>1. n + (m + 1) \in 1..N /\ (n + (m + 1)) - 1 = n + m /\ n + m <= N
    BY <1>1
  <2>2. R[n + (m + 1)] = Item(s, R[n + m])
    BY <1>2, <2>1
  <2>3. R[n + m] = e
    BY <1>7, <2>1
  <2>4. Item(s, e) = e
    BY <1>3 DEF Item
  <2> QED BY <2>2, <2>3, <2>4
<1> HIDE DEF S
<1>8. Nat \subseteq S
  BY <1>6, <1>7, Induction
<1>9. R[N] = e
  <2>1. N - n \in Nat /\ n + (N - n) = N /\ N <= N
    BY <1>1
  <2>2. N - n \in S
    BY <1>8, <2>1
  <2>3. n + (N - n) <= N => R[n + (N - n)] = e
    BY <2>2 DEF S
  <2> QED BY <2>1, <2>3
<1> QED BY <1>4, <1>5, <1>9 DEF e

\* A varint of which all bytes so far have the continuation flag, and fit, is
\* read in part.
LEMMA VarintPartial ==
  ASSUME NEW s \in Seq(Bytes), NEW p \in 1..(Len(s) + 1), \A i \in p..Len(s) : More(s[i]),
         PayloadBits * (Len(s) - p + 1) < ValueBits,
         LittleEndian(Digits(s, p, Len(s)), PayloadBits) \in Unsigned
  PROVE  ReadVarint(s, p) = [is |-> "partial"]
<1> DEFINE ends == {r \in p..Len(s) : ~More(s[r])}
           last == IF ends = {} THEN Len(s) ELSE CHOOSE r \in ends : \A m \in ends : r <= m
           size == last - p + 1
           q    == IF size < VarintBytes THEN last ELSE p + VarintBytes - 1
<1>1. ends = {} /\ last = Len(s) /\ size = Len(s) - p + 1 /\ size \in Nat
  BY LenProperties
<1>2. size < VarintBytes /\ VarintBytes \in Nat
  BY <1>1, VarintSize
<1>3. q = Len(s)
  BY <1>1, <1>2
<1>4. ReadVarint(s, p) =
        IF \/ LittleEndian(Digits(s, p, q), PayloadBits) \notin Unsigned
           \/ size > VarintBytes \/ (ends = {} /\ size = VarintBytes)
          THEN [is |-> "malformed"]
        ELSE IF ends = {} THEN [is |-> "partial"]
        ELSE [is |-> "read", value |-> LittleEndian(Digits(s, p, q), PayloadBits),
              next |-> last + 1]
  BY DEF ReadVarint
<1> HIDE DEF ends, last, size, q
<1> QED BY <1>1, <1>2, <1>3, <1>4

\* A byte after those: what ReadVarint makes of the varint is what push makes of
\* the byte, whatever follows.
LEMMA VarintReads ==
  ASSUME NEW u \in Seq(Bytes), NEW p \in 1..Len(u), NEW q \in p..Len(u),
         \A i \in p..(q - 1) : More(u[i]),
         NEW low \in Nat, low = LittleEndian(Digits(u, p, q - 1), PayloadBits),
         PayloadBits * (q - p) < ValueBits, low < 2^(PayloadBits * (q - p))
  PROVE  LET shifts == PayloadBits * (q - p)
         IN /\ Overlong(u[q], shifts) => ReadVarint(u, p) = [is |-> "malformed"]
            /\ ~Overlong(u[q], shifts) =>
                 /\ Accumulate(low, u[q], shifts)
                      = LittleEndian(Digits(u, p, q), PayloadBits)
                 /\ ~More(u[q]) =>
                      ReadVarint(u, p) = [is |-> "read", next |-> q + 1,
                                          value |-> Accumulate(low, u[q], shifts)]
<1> DEFINE ends == {r \in p..Len(u) : ~More(u[r])}
           last == IF ends = {} THEN Len(u) ELSE CHOOSE r \in ends : \A m \in ends : r <= m
           size == last - p + 1
           till == IF size < VarintBytes THEN last ELSE p + VarintBytes - 1
           value == LittleEndian(Digits(u, p, till), PayloadBits)
           k == q - p
           s == PayloadBits * k
           b == u[q]
<1>0. /\ Len(u) \in Nat /\ p \in Nat /\ q \in Nat /\ p <= q /\ q <= Len(u)
      /\ k \in Nat /\ b \in Bytes
  BY LenProperties, ElementOfSeq
<1>1. s \in 0..(ValueBits - 1) /\ k < VarintBytes /\ VarintBytes \in Nat
  <2>1. s < ValueBits
    OBVIOUS
  <2>2. s \in Nat /\ k < VarintBytes
    BY <1>0, <2>1, VarintSize
  <2> HIDE DEF s, k
  <2> QED BY <2>1, <2>2, VarintSize, Widths
<1>2. LittleEndian(Digits(u, p, q), PayloadBits) = low + Payload(b) * 2^s
  <2>1. /\ IsSequence(Digits(u, p, q - 1)) /\ Len(Digits(u, p, q - 1)) = k
        /\ Digits(u, p, q) = Append(Digits(u, p, q - 1), Payload(b))
    BY <1>0, DigitsGrow
  <2> QED BY <2>1, LittleEndianGrows
<1>3. ReadVarint(u, p) =
        IF value \notin Unsigned \/ size > VarintBytes \/ (ends = {} /\ size = VarintBytes)
          THEN [is |-> "malformed"]
        ELSE IF ends = {} THEN [is |-> "partial"]
        ELSE [is |-> "read", value |-> value, next |-> last + 1]
  BY DEF ReadVarint
<1>4. /\ ~More(b) => ends # {} /\ last = q
      /\ More(b) => last \in q..Len(u) /\ (ends # {} => last # q)
  BY VarintEnds
<1> HIDE DEF ends, last, k, b
<1>5. ASSUME last = q PROVE value = low + Payload(b) * 2^s
  <2>1. size = k + 1 /\ till = q
    BY <1>0, <1>1, <1>5 DEF k
  <2> HIDE DEF till, s
  <2> QED BY <1>2, <2>1
<1> HIDE DEF value, till
<1>6. ASSUME ~Overlong(b, s)
      PROVE  /\ Accumulate(low, b, s) = low + Payload(b) * 2^s
             /\ Accumulate(low, b, s) \in Unsigned
  <2> HIDE DEF s
  <2> QED BY <1>0, <1>1, <1>6, PushFits DEF s, k
<1>7. ASSUME ~Overlong(b, s), ~More(b)
      PROVE  ReadVarint(u, p) = [is |-> "read", value |-> Accumulate(low, b, s), next |-> q + 1]
  <2>1. last = q /\ ends # {} /\ value = Accumulate(low, b, s) /\ value \in Unsigned
    BY <1>4, <1>5, <1>6, <1>7
  <2>2. ~(size > VarintBytes)
    BY <1>0, <1>1, <2>1 DEF k
  <2> HIDE DEF s, size
  <2> QED BY <1>3, <2>1, <2>2
<1>8. ASSUME Overlong(b, s) PROVE ReadVarint(u, p) = [is |-> "malformed"]
  <2>1. ValueBits - s < PayloadBits
    BY <1>8 DEF Overlong
  <2>2. k + 1 = VarintBytes
    <3>1. PayloadBits * (k + 1) = s + PayloadBits
      BY <1>0, Widths
    <3>2. ~(PayloadBits * (k + 1) < ValueBits) /\ k + 1 \in Nat
      BY <1>0, <1>1, <2>1, <3>1, Widths
    <3>3. ~(k + 1 < VarintBytes)
      BY <3>2, VarintSize
    <3> QED BY <1>0, <1>1, <3>3
  <2>3. CASE More(b)
    <3>1. size \in Nat /\ size >= VarintBytes /\ (ends # {} => size > VarintBytes)
      BY <1>0, <1>4, <2>2, <2>3 DEF k
    <3> HIDE DEF size, s
    <3> QED BY <1>1, <1>3, <3>1
  <2>4. CASE ~More(b)
    <3> DEFINE room == ValueBits - s
               x == Payload(b)
    <3>1. x \div 2^room # 0
      BY <1>8, <2>4 DEF Overlong
    <3>2. /\ room \in 0..ValueBits /\ s \in 0..ValueBits /\ s + room = ValueBits
          /\ x \in Nat
      <4>1. x \in Nat
        BY <1>0, Widths DEF Payload, Bytes
      <4> QED BY <1>1, <4>1, Widths
    <3>3. 2^room \in Nat \ {0} /\ 2^s \in Nat \ {0} /\ 2^ValueBits = 2^s * 2^room
      <4> HIDE DEF room, s
      <4>1. 2^room \in Nat \ {0} /\ 2^s \in Nat \ {0}
        BY <3>2, Powers
      <4> QED BY <3>2, <4>1, PowersAdd
    <3> HIDE DEF room, x, s
    <3>4. \A a \in Nat, d \in Nat \ {0} : ~(a < d) \/ a \div d = 0
      OBVIOUS
    <3>5. x >= 2^room
      <4>1. ~(x < 2^room)
        BY <3>1, <3>2, <3>3, <3>4
      <4> QED BY <3>2, <3>3, <4>1
    <3>6. \A a, d \in Nat, c \in Nat : a >= d => c * d <= a * c /\ a * c \in Nat
      OBVIOUS
    <3>7. low + x * 2^s >= 2^ValueBits /\ low + x * 2^s \in Nat
      BY <3>2, <3>3, <3>5, <3>6
    <3>8. value \notin Unsigned
      BY <1>4, <1>5, <2>4, <3>7, Widths DEF Unsigned, x
    <3> QED BY <1>3, <3>8
  <2> QED BY <2>3, <2>4
<1> QED BY <1>2, <1>6, <1>7, <1>8 DEF k, b

\* Whatever follows s, the reading of it after n items, or after one more than c.
ReadingIs(s, n, c) == \A t \in Seq(Bytes) : Readings(s \o t)[n] = c
NextIs(s, c, d)    == \A t \in Seq(Bytes) : Item(s \o t, c) = d

\* The bytes w complete an item: the reading after it.
LEMMA NextItem ==
  ASSUME NEW s \in Seq(Bytes), NEW w \in Seq(Bytes), Len(w) > 0, NEW z, z = s \o w,
         NEW n \in 0..Len(s), NEW c, ReadingIs(s, n, c), NEW d, NextIs(z, c, d)
  PROVE  z \in Seq(Bytes) /\ n + 1 \in 1..Len(z) /\ ReadingIs(z, n + 1, d)
<1>1. z \in Seq(Bytes) /\ Len(z) = Len(s) + Len(w) /\ Len(s) \in Nat /\ Len(w) \in Nat
  BY Followed
<1>2. n + 1 \in 1..Len(z)
  BY <1>1
<1>3. ASSUME NEW t \in Seq(Bytes) PROVE Readings(z \o t)[n + 1] = d
  <2> DEFINE u == z \o t
  <2>1. u = s \o (w \o t) /\ w \o t \in Seq(Bytes)
    BY ConcatAssociative, ConcatProperties
  <2>2. u \in Seq(Bytes) /\ Len(u) = Len(z) + Len(t) /\ Len(t) \in Nat
    BY <1>1, Followed
  <2>3. Readings(s \o (w \o t))[n] = c
    BY <2>1 DEF ReadingIs
  <2>4. Item(u, c) = d
    BY DEF NextIs
  <2> HIDE DEF u
  <2>5. n + 1 \in 1..(Len(u) + 1) /\ (n + 1) - 1 = n
    BY <1>1, <1>2, <2>2
  <2>6. Readings(u)[n + 1] = Item(u, Readings(u)[n])
    BY <2>2, <2>5, ReadingsAre
  <2>7. Readings(u)[n + 1] = d
    BY <2>1, <2>3, <2>4, <2>6
  <2> QED BY <2>7 DEF u
<1> QED BY <1>1, <1>2, <1>3 DEF ReadingIs

\* A message that has grown by some bytes: the bytes from p on have.
LEMMA TailGrows ==
  ASSUME NEW s \in Seq(Bytes), NEW w \in Seq(Bytes), NEW p \in 1..(Len(s) + 1)
  PROVE  /\ SubSeq(s, p, Len(s)) \in Seq(Bytes) /\ Len(SubSeq(s, p, Len(s))) = Len(s) - p + 1
         /\ SubSeq(s \o w, p, Len(s)) = SubSeq(s, p, Len(s))
         /\ SubSeq(s \o w, p, Len(s \o w)) = SubSeq(s, p, Len(s)) \o w
<1> DEFINE n == Len(s)
           u == s \o w
<1>1. /\ n \in Nat /\ p \in Int /\ n \in Int /\ u \in Seq(Bytes) /\ Len(w) \in Nat
      /\ Len(u) = n + Len(w) /\ \A i \in 1..n : u[i] = s[i]
  BY Followed
<1>2. /\ \A i \in p..n : s[i] \in Bytes
      /\ \A i \in p..n : i \in 1..n
  BY <1>1, ElementOfSeq
<1>3. SubSeq(s, p, n) \in Seq(Bytes) /\ Len(SubSeq(s, p, n)) = n - p + 1
  <2> HIDE DEF n
  <2>1. /\ SubSeq(s, p, n) \in Seq(Bytes)
        /\ Len(SubSeq(s, p, n)) = IF p <= n THEN n - p + 1 ELSE 0
    BY <1>1, <1>2, SubSeqProperties
  <2>2. p \in 1..(n + 1)
    BY DEF n
  <2> QED BY <1>1, <2>1, <2>2
<1>4. SubSeq(u, p, n) = SubSeq(s, p, n)
  <2>1. CASE p \in 1..n
    <3>1. n \in 1..n
      BY <1>1, <2>1
    <3> QED BY <2>1, <3>1, SubSeqOfConcat1
  <2>2. CASE p = n + 1
    BY <1>1, <2>2, SubSeqEmpty
  <2> QED BY <1>1, <2>1, <2>2
<1>5. SubSeq(u, n + 1, Len(u)) = w
  <2>1. CASE Len(w) = 0
    <3>1. SubSeq(u, n + 1, Len(u)) = <<>>
      BY <1>1, <2>1, SubSeqEmpty
    <3>2. w = <<>>
      BY <2>1, EmptySeq
    <3> QED BY <3>1, <3>2
  <2>2. CASE Len(w) # 0
    <3>1. /\ n + 1 \in (Len(s) + 1)..(Len(s) + Len(w)) /\ Len(u) \in (Len(s) + 1)..(Len(s) + Len(w))
          /\ (n + 1) - Len(s) = 1 /\ Len(u) - Len(s) = Len(w)
      BY <1>1, <2>2
    <3>2. SubSeq(s \o w, n + 1, Len(u)) = SubSeq(w, 1, Len(w))
      <4> HIDE DEF u, n
      <4>1. \A a, b \in (Len(s) + 1)..(Len(s) + Len(w)) :
              SubSeq(s \o w, a, b) = SubSeq(w, a - Len(s), b - Len(s))
        BY SubSeqOfConcat2
      <4> QED BY <3>1, <4>1
    <3> QED BY <3>2, SubSeqFull
  <2> QED BY <2>1, <2>2
<1>6. SubSeq(u, p, n) \o SubSeq(u, n + 1, Len(u)) = SubSeq(u, p, Len(u))
  <2>1. p \in 1..(Len(u) + 1) /\ n \in (p - 1)..Len(u) /\ Len(u) \in n..Len(u)
    BY <1>1
  <2> HIDE DEF u, n
  <2> QED BY <1>1, <2>1, ConcatAdjacentSubSeq
<1> QED BY <1>3, <1>4, <1>5, <1>6

\* The tag of a word names one subtype at most.
LEMMA OneSubtype ==
  ASSUME NEW word, NEW t \in SubtypeOf(word)
  PROVE  SubtypeOf(word) = {t} /\ t \in FixlenTypes
<1>1. \A x, y \in FixlenTypes : FixlenCode[x] = FixlenCode[y] => x = y
  BY DEF FixlenTypes, FixlenCode
<1> QED BY <1>1 DEF SubtypeOf, from_raw

-----------------------------------------------------------------------------
(* What write_varint puts out *)

\* A value cut twice, by a and then by b, and once, by a * b.
LEMMA CutTwice ==
  ASSUME NEW x \in Nat, NEW a \in Nat \ {0}, NEW b \in Nat \ {0}
  PROVE  \E q \in Nat, e \in 0..(b - 1), r \in 0..(a - 1) :
           /\ x % a = r
           /\ (x \div a) \div b = q
           /\ (x \div a) % b = e
           /\ x \div (a * b) = q
           /\ x % (a * b) = r + e * a
<1> DEFINE y == x \div a
           r == x % a
           q == y \div b
           e == y % b
<1>1. y \in Nat /\ r \in 0..(a - 1) /\ x = a * y + r
  OBVIOUS
<1>2. q \in Nat /\ e \in 0..(b - 1) /\ y = b * q + e
  <2> HIDE DEF y
  <2> QED BY <1>1
<1> HIDE DEF y, r, q, e
<1>3. a * b \in Nat \ {0}
  OBVIOUS
<1>4. e * a + r \in Nat /\ e * a + r <= b * a - 1
  BY <1>1, <1>2, ScaledBelow
<1>5. e * a + r \in 0..(a * b - 1)
  BY <1>3, <1>4
<1>6. x = q * (a * b) + (e * a + r)
  BY <1>1, <1>2
<1>7. x \div (a * b) = q /\ x % (a * b) = e * a + r
  BY <1>2, <1>3, <1>5, <1>6, DivMod
<1>8. e * a + r = r + e * a
  BY <1>1, <1>2
<1> QED BY <1>1, <1>2, <1>7, <1>8 DEF y, r, q, e

\* Dividing by a and then by b is dividing by a * b.
LEMMA DivTimes ==
  \A x \in Nat : \A a, b \in Nat \ {0} : (x \div a) \div b = x \div (a * b)
<1> SUFFICES ASSUME NEW x \in Nat, NEW a \in Nat \ {0}, NEW b \in Nat \ {0}
             PROVE  (x \div a) \div b = x \div (a * b)
  OBVIOUS
<1>1. PICK q \in Nat : (x \div a) \div b = q /\ x \div (a * b) = q
  BY CutTwice
<1> QED BY <1>1, Zenon

\* The remainder by a * b is the one by a, and above it a digit of the quotient by a.
LEMMA RemTimes ==
  \A x \in Nat : \A a, b \in Nat \ {0} : x % (a * b) = (x % a) + (((x \div a) % b) * a)
<1> SUFFICES ASSUME NEW x \in Nat, NEW a \in Nat \ {0}, NEW b \in Nat \ {0}
             PROVE  x % (a * b) = (x % a) + (((x \div a) % b) * a)
  OBVIOUS
<1>1. PICK q \in Nat, e \in 0..(b - 1), r \in 0..(a - 1) :
             /\ x % a = r
             /\ (x \div a) \div b = q
             /\ (x \div a) % b = e
             /\ x \div (a * b) = q
             /\ x % (a * b) = r + e * a
  BY CutTwice, Zenon
<1> QED BY <1>1, Zenon

\* A byte of a varint has one bit beside its payload.
LEMMA ByteSize == 2^ByteBits = 2 * 2^PayloadBits
<1>1. 1 \in 0..ValueBits /\ PayloadBits \in 0..ValueBits /\ ByteBits = 1 + PayloadBits
  BY Widths DEF ByteBits
<1>2. 2^(1 + PayloadBits) = 2^1 * 2^PayloadBits
  BY <1>1, PowersAdd
<1>3. 2^1 = 2
  OBVIOUS
<1> QED BY <1>1, <1>2, <1>3

\* One turn of write_varint, with what the turns after it push.
Turn(v, rest) ==
  IF v \div 2^PayloadBits = 0 THEN <<VarintByte(v)>> ELSE <<VarintByte(v)>> \o rest

\* A function that makes the turns for every value up to a bound exists.
LEMMA VarintExists ==
  ASSUME NEW N \in Nat
  PROVE  \E f : f = [v \in 0..N |-> Turn(v, f[v \div 2^PayloadBits])]
<1> DEFINE R == 2^PayloadBits
           Is(f, m) == f = [v \in 0..m |-> Turn(v, f[v \div R])]
           S == {m \in Nat : \E f : Is(f, m)}
<1>0. R \in Nat /\ R > 1
  BY Widths, WidthAssumption
<1> HIDE DEF R
<1>1. 0 \in S
  <2> DEFINE f == [v \in 0..0 |-> Turn(0, 0)]
  <2>1. Turn(0, f[0 \div R]) = Turn(0, 0)
    BY <1>0 DEF Turn, R
  <2>2. \A v \in 0..0 : v = 0
    OBVIOUS
  <2>3. [v \in 0..0 |-> Turn(v, f[v \div R])] = [v \in 0..0 |-> Turn(0, 0)]
    BY <2>1, <2>2
  <2>4. Is(f, 0)
    BY <2>3
  <2> HIDE DEF f, Is
  <2> QED BY <2>4
<1>2. ASSUME NEW m \in Nat, m \in S PROVE m + 1 \in S
  <2>1. PICK f : Is(f, m)
    BY <1>2
  <2> DEFINE F == [v \in 0..m |-> Turn(v, f[v \div R])]
             top == Turn(m + 1, f[(m + 1) \div R])
             g == [v \in 0..(m + 1) |-> IF v = m + 1 THEN top ELSE f[v]]
             G == [v \in 0..(m + 1) |-> Turn(v, g[v \div R])]
  <2>2. f = F /\ \A v \in 0..m : F[v] = Turn(v, f[v \div R])
    BY <2>1
  <2> HIDE DEF F
  <2>3. \A v \in 0..m : f[v] = Turn(v, f[v \div R])
    BY <2>2
  <2> HIDE DEF top
  <2>4. g[m + 1] = top /\ \A v \in 0..m : g[v] = f[v]
    OBVIOUS
  <2>5. DOMAIN g = 0..(m + 1) /\ g = [v \in 0..(m + 1) |-> g[v]]
    OBVIOUS
  <2> HIDE DEF g
  <2>6. \A v \in 0..(m + 1) : v \div R \in 0..m
    <3> SUFFICES ASSUME NEW v \in 0..(m + 1) PROVE v \div R \in 0..m
      OBVIOUS
    <3>1. CASE v = 0
      <4>1. 0 \div R = 0
        BY <1>0
      <4> QED BY <3>1, <4>1
    <3>2. CASE v # 0
      <4> DEFINE d == v \div R
      <4>1. d \in Nat /\ R * d <= v
        BY <1>0
      <4> HIDE DEF d
      <4>2. d # 0 => R * d >= d + d
        <5>1. \A x, y \in Nat : y > 1 => y * x >= 2 * x
          OBVIOUS
        <5> QED BY <1>0, <4>1, <5>1
      <4>3. R * d \in Nat
        BY <1>0, <4>1
      <4>4. d < v
        BY <3>2, <4>1, <4>2, <4>3
      <4> QED BY <4>1, <4>4 DEF d
    <3> QED BY <3>1, <3>2
  <2>7. \A v \in 0..(m + 1) : g[v] = Turn(v, g[v \div R])
    <3> SUFFICES ASSUME NEW v \in 0..(m + 1) PROVE g[v] = Turn(v, g[v \div R])
      OBVIOUS
    <3>1. g[v \div R] = f[v \div R]
      BY <2>4, <2>6
    <3>2. CASE v = m + 1
      BY <2>4, <3>1, <3>2 DEF top
    <3>3. CASE v \in 0..m
      BY <2>3, <2>4, <3>1, <3>3
    <3> QED BY <3>2, <3>3
  <2>8. Is(g, m + 1)
    BY <2>5, <2>7
  <2> HIDE DEF Is
  <2>9. m + 1 \in Nat
    OBVIOUS
  <2> QED BY <2>8, <2>9
<1> HIDE DEF S
<1>3. N \in S
  BY <1>1, <1>2, Induction
<1> QED BY <1>3 DEF S, R

\* A varint is one turn of write_varint's loop, then the varint of what is left.
LEMMA VarintIs ==
  ASSUME NEW v \in Unsigned
  PROVE  VarintOf[v] = Turn(v, VarintOf[v \div 2^PayloadBits])
<1> DEFINE N == 2^ValueBits - 1
           R == 2^PayloadBits
           Rec(f) == [u \in Unsigned |-> Turn(u, f[u \div R])]
<1>1. N \in Nat /\ Unsigned = 0..N
  BY Widths DEF Unsigned
<1>2. \E f : f = Rec(f)
  <2> HIDE DEF N
  <2>1. PICK f : f = [u \in 0..N |-> Turn(u, f[u \div 2^PayloadBits])]
    BY <1>1, VarintExists
  <2>2. f = Rec(f)
    BY <1>1, <2>1
  <2> HIDE DEF Rec
  <2> QED BY <2>2
<1>3. VarintOf = CHOOSE f : f = Rec(f)
  BY DEF VarintOf, Turn
<1> HIDE DEF Rec
<1>4. VarintOf = Rec(VarintOf)
  BY <1>2, <1>3
<1>5. Rec(VarintOf)[v] = Turn(v, VarintOf[v \div R])
  BY DEF Rec
<1> QED BY <1>4, <1>5

\* What write_varint puts out: all bytes but the last have the continuation flag,
\* their payloads are the digits of the value, lowest first, and there is no byte
\* more than the value needs.
Spells(v, w) ==
  /\ w \in Seq(Bytes) /\ Len(w) \in Nat \ {0}
  /\ PayloadBits * (Len(w) - 1) < ValueBits
  /\ v < 2^(PayloadBits * Len(w))
  /\ \A i \in 1..Len(w) : /\ Payload(w[i]) = (v \div 2^(PayloadBits * (i - 1))) % 2^PayloadBits
                          /\ More(w[i]) <=> i < Len(w)
  /\ Len(w) > 1 => 2^(PayloadBits * (Len(w) - 1)) <= v

\* The powers a varint meets.
LEMMA VarintPowers ==
  ASSUME NEW k \in Nat, PayloadBits * k < ValueBits
  PROVE  /\ PayloadBits * k \in 0..ValueBits
         /\ PayloadBits * (k + 1) = PayloadBits * k + PayloadBits
         /\ 2^(PayloadBits * k) \in Nat \ {0} /\ 2^(PayloadBits * (k + 1)) \in Nat \ {0}
         /\ 2^(PayloadBits * (k + 1)) = 2^PayloadBits * 2^(PayloadBits * k)
         /\ 2^(PayloadBits * (k + 1)) <= 2^ValueBits - 1 => PayloadBits * (k + 1) < ValueBits
<1> DEFINE g == PayloadBits
           a == g * k
<1>1. /\ g \in 1..ValueBits /\ a \in 0..ValueBits /\ g * (k + 1) = a + g /\ ValueBits \in Nat
  <2>1. g * k \in Nat /\ g * (k + 1) = g * k + g
    BY Widths
  <2> QED BY <2>1, Widths
<1> HIDE DEF a, g
<1>2. /\ g \in 0..(2 * ValueBits) /\ a \in 0..(2 * ValueBits) /\ a + g \in 0..(2 * ValueBits)
      /\ g \in 0..ValueBits /\ a + g = g + a
  BY <1>1
<1>3. /\ 2^a \in Nat \ {0} /\ 2^(a + g) \in Nat \ {0} /\ 2^(a + g) = 2^g * 2^a
  BY <1>1, <1>2, PowersAdd
<1>4. ASSUME ~(a + g < ValueBits) PROVE ~(2^(a + g) <= 2^ValueBits - 1)
  <2>1. /\ a + g - ValueBits \in 0..ValueBits /\ ValueBits \in 0..ValueBits
        /\ ValueBits + (a + g - ValueBits) = a + g /\ a + g - ValueBits \in 0..(2 * ValueBits)
    BY <1>1, <1>4
  <2>2. 2^(a + g) = 2^ValueBits * 2^(a + g - ValueBits) /\ 2^(a + g - ValueBits) \in Nat \ {0}
    BY <2>1, PowersAdd
  <2>3. \A x, y \in Nat \ {0} : ~(x * y <= x - 1)
    <3> SUFFICES ASSUME NEW x \in Nat \ {0}, NEW y \in Nat \ {0} PROVE x <= x * y
      OBVIOUS
    <3> QED OBVIOUS
  <2> QED BY <2>2, <2>3, Widths
<1> QED BY <1>1, <1>2, <1>3, <1>4 DEF a, g

\* A varint with one byte before it.
LEMMA VarintLonger ==
  ASSUME NEW v \in Unsigned, NEW w, Spells(v \div 2^PayloadBits, w),
         v \div 2^PayloadBits # 0
  PROVE  Spells(v, <<VarintByte(v)>> \o w)
<1> DEFINE R == 2^PayloadBits
           u == v \div R
           x == v % R
           b == VarintByte(v)
           z == <<b>> \o w
           P(k) == 2^(PayloadBits * k)
<1>1. R \in Nat \ {0} /\ 2^ByteBits = 2 * R /\ 2^ValueBits \in Nat
  BY ByteSize, Widths
<1>2. /\ v \in Nat /\ v <= 2^ValueBits - 1 /\ u \in Nat \ {0} /\ x \in 0..(R - 1) /\ v = R * u + x
  <2>1. v \in Nat /\ v <= 2^ValueBits - 1
    BY <1>1 DEF Unsigned
  <2> HIDE DEF R
  <2> QED BY <1>1, <2>1 DEF R
<1>3. b = x + R
  BY <1>2 DEF VarintByte
<1> HIDE DEF R, u, x, b
<1>4. b \in Bytes /\ Payload(b) = x /\ More(b)
  <2>1. b = 1 * R + x /\ 1 \in Nat
    BY <1>1, <1>2, <1>3
  <2>2. b \div R = 1 /\ b % R = x
    BY <1>1, <1>2, <2>1, DivMod
  <2>3. b \in 0..(2 * R - 1)
    BY <1>1, <1>2, <1>3
  <2> QED BY <1>1, <2>2, <2>3 DEF Bytes, Payload, More, R
<1>5. /\ w \in Seq(Bytes) /\ Len(w) \in Nat \ {0} /\ PayloadBits * (Len(w) - 1) < ValueBits
      /\ u < P(Len(w))
      /\ Len(w) > 1 => P(Len(w) - 1) <= u
      /\ \A i \in 1..Len(w) : /\ Payload(w[i]) = (u \div P(i - 1)) % R
                              /\ More(w[i]) <=> i < Len(w)
  BY DEF Spells, u, R
<1>6. /\ z \in Seq(Bytes) /\ Len(z) = Len(w) + 1 /\ z[1] = b
      /\ \A i \in 2..Len(z) : z[i] = w[i - 1] /\ i - 1 \in 1..Len(w)
  <2>1. <<b>> \in Seq(Bytes) /\ Len(<<b>>) = 1 /\ <<b>>[1] = b
    BY <1>4
  <2>2. /\ z \in Seq(Bytes) /\ Len(z) = 1 + Len(w)
        /\ \A i \in 1..1 : z[i] = <<b>>[i]
        /\ \A i \in (1 + 1)..(1 + Len(w)) : z[i] = w[i - 1]
    <3> DEFINE o == <<b>>
    <3> HIDE DEF o
    <3>1. /\ o \o w \in Seq(Bytes) /\ Len(o \o w) = Len(o) + Len(w)
          /\ \A i \in 1..Len(o) : (o \o w)[i] = o[i]
          /\ \A i \in (Len(o) + 1)..(Len(o) + Len(w)) : (o \o w)[i] = w[i - Len(o)]
      <4>1. o \in Seq(Bytes)
        BY <2>1 DEF o
      <4> QED BY <1>5, <4>1, ConcatProperties
    <3>2. Len(o) = 1
      BY <2>1 DEF o
    <3>3. /\ o \o w \in Seq(Bytes) /\ Len(o \o w) = 1 + Len(w)
          /\ \A i \in 1..1 : (o \o w)[i] = o[i]
          /\ \A i \in (1 + 1)..(1 + Len(w)) : (o \o w)[i] = w[i - 1]
      BY <3>1, <3>2
    <3> QED BY <3>3 DEF o
  <2> HIDE DEF z
  <2> QED BY <1>5, <2>1, <2>2
<1> HIDE DEF z
<1>7. P(0) = 1 /\ P(1) = R
  <2>1. PayloadBits * 0 = 0 /\ PayloadBits * 1 = PayloadBits
    BY Widths
  <2>2. 2^0 = 1
    OBVIOUS
  <2> QED BY <2>1, <2>2 DEF R
\* The powers below the length, each the one before it times R.
<1>8. \A k \in 0..(Len(w) - 1) : /\ P(k) \in Nat \ {0} /\ P(k + 1) \in Nat \ {0}
                                 /\ P(k + 1) = R * P(k)
  <2> SUFFICES ASSUME NEW k \in 0..(Len(w) - 1)
               PROVE  P(k) \in Nat \ {0} /\ P(k + 1) \in Nat \ {0} /\ P(k + 1) = R * P(k)
    OBVIOUS
  <2>1. k \in Nat /\ k <= Len(w) - 1
    BY <1>5
  <2>2. PayloadBits * k <= PayloadBits * (Len(w) - 1) /\ PayloadBits * k \in Nat
        /\ PayloadBits * (Len(w) - 1) \in Nat
    <3>1. \A l, i, j \in Nat : i <= j => l * i <= l * j /\ l * i \in Nat /\ l * j \in Nat
      OBVIOUS
    <3>2. PayloadBits \in Nat /\ Len(w) - 1 \in Nat
      BY <1>5, Widths
    <3> QED BY <2>1, <3>1, <3>2
  <2>3. PayloadBits * k < ValueBits
    BY <1>5, <2>2, Widths
  <2> QED BY <2>1, <2>3, VarintPowers DEF R
<1>9. P(Len(w)) <= v /\ P(Len(w)) \in Nat
  <2>1. CASE Len(w) = 1
    <3>1. R * u >= R
      BY <1>1, <1>2
    <3> QED BY <1>1, <1>2, <1>7, <2>1, <3>1
  <2>2. CASE Len(w) > 1
    <3>1. /\ P(Len(w) - 1) <= u /\ P(Len(w) - 1) \in Nat \ {0} /\ P(Len(w)) \in Nat
          /\ P(Len(w)) = R * P(Len(w) - 1)
      <4>1. Len(w) - 1 \in 0..(Len(w) - 1) /\ (Len(w) - 1) + 1 = Len(w)
        BY <1>5
      <4> HIDE DEF P
      <4> QED BY <1>5, <1>8, <2>2, <4>1
    <3> HIDE DEF P
    <3>2. R * P(Len(w) - 1) <= R * u
      <4>1. \A l, i, j \in Nat : i <= j => l * i <= l * j
        OBVIOUS
      <4> QED BY <1>1, <1>2, <3>1, <4>1
    <3>3. R * u \in Nat /\ R * u <= v
      BY <1>1, <1>2
    <3>4. PICK y : y = R * u
      OBVIOUS
    <3>5. PICK x1 : x1 = P(Len(w))
      OBVIOUS
    <3>6. x1 <= y /\ y <= v /\ x1 \in Nat /\ y \in Nat
      BY <3>1, <3>2, <3>3, <3>4, <3>5
    <3>7. x1 <= v
      BY <1>2, <3>6
    <3>8. P(Len(w)) <= v /\ P(Len(w)) \in Nat
      BY <3>5, <3>6, <3>7, Zenon
    <3> QED BY <3>8, Zenon
  <2>3. Len(w) = 1 \/ Len(w) > 1
    <3>1. \A n \in Nat \ {0} : n = 1 \/ n > 1
      OBVIOUS
    <3> QED BY <1>5, <3>1, Zenon
  <2> HIDE DEF P
  <2> QED BY <2>1, <2>2, <2>3, Zenon
<1>10. PayloadBits * (Len(z) - 1) < ValueBits
  <2>1. Len(w) - 1 \in Nat /\ (Len(w) - 1) + 1 = Len(w) /\ Len(z) - 1 = Len(w)
    BY <1>5, <1>6
  <2>2. 2^(PayloadBits * Len(w)) <= 2^ValueBits - 1
    BY <1>1, <1>2, <1>9
  <2> QED BY <1>5, <2>1, <2>2, VarintPowers
<1>11. P(Len(w) + 1) = R * P(Len(w)) /\ P(Len(w)) \in Nat \ {0} /\ P(Len(w) + 1) \in Nat
  BY <1>5, <1>6, <1>10, VarintPowers DEF R
<1>12. v < P(Len(z))
  <2> DEFINE p == P(Len(w))
  <2>1. u + 1 <= p /\ p \in Nat
    BY <1>2, <1>5, <1>9
  <2>2. P(Len(z)) = R * p
    BY <1>6, <1>11
  <2> HIDE DEF p, P
  <2>3. R * (u + 1) <= R * p /\ R * (u + 1) = R * u + R
    BY <1>1, <1>2, <2>1
  <2>4. R * u \in Nat /\ R * p \in Nat
    BY <1>1, <1>2, <2>1
  <2> QED BY <1>1, <1>2, <2>2, <2>3, <2>4
<1>13. ASSUME NEW i \in 1..Len(z)
       PROVE  /\ Payload(z[i]) = (v \div P(i - 1)) % R
              /\ More(z[i]) <=> i < Len(z)
  <2>1. CASE i = 1
    <3>1. P(i - 1) = 1 /\ v \div 1 = v
      BY <1>2, <1>7, <2>1
    <3> QED BY <1>4, <1>5, <1>6, <2>1, <3>1 DEF x
  <2>2. CASE i \in 2..Len(z)
    <3>1. /\ z[i] = w[i - 1] /\ i - 1 \in 1..Len(w) /\ i - 2 \in 0..(Len(w) - 1)
          /\ (i - 2) + 1 = i - 1 /\ (i - 1) - 1 = i - 2 /\ i \in Nat
      BY <1>5, <1>6, <2>2
    <3>2. /\ Payload(z[i]) = (u \div P(i - 2)) % R
          /\ More(z[i]) <=> i - 1 < Len(w)
      <4> HIDE DEF P
      <4> QED BY <1>5, <3>1
    <3>3. P(i - 2) \in Nat \ {0} /\ P(i - 1) = R * P(i - 2)
      <4> HIDE DEF P
      <4> QED BY <1>8, <3>1
    <3>4. u \div P(i - 2) = v \div P(i - 1)
      <4> DEFINE a == P(i - 2)
      <4>1. a \in Nat \ {0} /\ P(i - 1) = R * a
        BY <3>3
      <4> HIDE DEF a, P
      <4>2. v \in Nat /\ R \in Nat \ {0}
        BY <1>1, <1>2
      <4>3. (v \div R) \div a = v \div (R * a)
        BY <4>1, <4>2, DivTimes, Zenon
      <4> QED BY <3>3, <4>3 DEF a, u
    <3> QED BY <1>5, <1>6, <3>1, <3>2, <3>4
  <2>3. i = 1 \/ i \in 2..Len(z)
    BY <1>5, <1>6
  <2> QED BY <2>1, <2>2, <2>3
<1>14. Len(z) \in Nat \ {0} /\ Len(z) - 1 = Len(w)
  BY <1>5, <1>6
<1> QED BY <1>6, <1>9, <1>10, <1>12, <1>13, <1>14 DEF Spells, z, b, R

\* A value of a single digit is spelt by one byte.
LEMMA VarintOne ==
  ASSUME NEW v \in Unsigned, v \div 2^PayloadBits = 0
  PROVE  Spells(v, <<VarintByte(v)>>)
<1> DEFINE R == 2^PayloadBits
           b == VarintByte(v)
           w == <<b>>
<1>1. R \in Nat \ {0} /\ 2^ByteBits = 2 * R /\ 2^ValueBits \in Nat /\ v \in Nat
  BY ByteSize, Widths DEF Unsigned
<1>2. b = v % R
  BY DEF VarintByte
<1>3. v = v % R /\ v < R /\ v \div R = 0
  <2> HIDE DEF R
  <2>1. v = R * (v \div R) + (v % R) /\ v % R \in 0..(R - 1)
    BY <1>1
  <2>2. v \div R = 0
    BY DEF R
  <2>3. R * 0 = 0
    BY <1>1
  <2> QED BY <1>1, <2>1, <2>2, <2>3
<1> HIDE DEF R, b
<1>4. b \in Bytes /\ Payload(b) = v /\ ~More(b)
  <2>1. b = v /\ v \in 0..(2 * R - 1)
    BY <1>1, <1>2, <1>3
  <2> QED BY <1>1, <1>3, <2>1 DEF Bytes, Payload, More, R
<1>5. w \in Seq(Bytes) /\ Len(w) = 1 /\ w[1] = b
  BY <1>4
<1> HIDE DEF w
<1>6. /\ PayloadBits * (Len(w) - 1) = 0 /\ 0 < ValueBits /\ 2^0 = 1
      /\ PayloadBits * Len(w) = PayloadBits
  BY <1>5, Widths
<1>7. ASSUME NEW i \in 1..Len(w)
      PROVE  /\ Payload(w[i]) = (v \div 2^(PayloadBits * (i - 1))) % R
             /\ More(w[i]) <=> i < Len(w)
  <2>1. i = 1 /\ i - 1 = 0 /\ PayloadBits * 0 = 0 /\ v \div 1 = v
    BY <1>1, <1>5, Widths
  <2>2. 2^(PayloadBits * (i - 1)) = 1
    BY <1>6, <2>1
  <2>3. v \div 2^(PayloadBits * (i - 1)) = v
    BY <2>1, <2>2
  <2>4. Payload(w[i]) = v /\ ~More(w[i]) /\ ~(i < Len(w))
    BY <1>4, <1>5, <2>1
  <2> QED BY <1>3, <2>3, <2>4
<1> QED BY <1>3, <1>5, <1>6, <1>7 DEF Spells, w, b, R

\* What write_varint puts out spells the value.
LEMMA VarintShape ==
  ASSUME NEW v \in Unsigned
  PROVE  Spells(v, VarintOf[v])
<1> DEFINE R == 2^PayloadBits
           S == {m \in Nat : \A u \in Unsigned : u <= m => Spells(u, VarintOf[u])}
<1>1. R \in Nat /\ R > 1 /\ 2^ValueBits \in Nat
  BY Widths, WidthAssumption
<1>2. ASSUME NEW u \in Unsigned, u \div R = 0 PROVE Spells(u, VarintOf[u])
  BY <1>2, VarintIs, VarintOne DEF Turn
<1>3. 0 \in S
  <2>1. ASSUME NEW u \in Unsigned, u <= 0 PROVE u \div R = 0
    <3>1. u = 0
      BY <1>1, <2>1 DEF Unsigned
    <3> HIDE DEF R
    <3> QED BY <1>1, <3>1
  <2> QED BY <1>2, <2>1
<1>4. ASSUME NEW m \in Nat, m \in S PROVE m + 1 \in S
  <2> SUFFICES ASSUME NEW u \in Unsigned, u <= m + 1 PROVE Spells(u, VarintOf[u])
    OBVIOUS
  <2>1. CASE u \div R # 0
    <3> DEFINE d == u \div R
    <3>1. d \in Unsigned /\ d <= m
      <4>1. u \in Nat /\ u <= 2^ValueBits - 1
        BY <1>1 DEF Unsigned
      <4>2. d \in Nat /\ R * d <= u
        <5> HIDE DEF R
        <5> QED BY <1>1, <4>1
      <4>3. \A x, y \in Nat : y > 1 => y * x >= 2 * x
        OBVIOUS
      <4>4. R * d >= 2 * d /\ R * d \in Nat /\ d # 0
        <5> HIDE DEF d, R
        <5>1. R * d \in Nat
          BY <1>1, <4>2
        <5> QED BY <1>1, <2>1, <4>2, <4>3, <5>1 DEF d
      <4> HIDE DEF d, R
      <4> QED BY <1>1, <4>1, <4>2, <4>4 DEF Unsigned
    <3>2. Spells(d, VarintOf[d])
      BY <1>4, <3>1
    <3>3. VarintOf[u] = <<VarintByte(u)>> \o VarintOf[d]
      BY <2>1, VarintIs DEF Turn
    <3> QED BY <2>1, <3>2, <3>3, VarintLonger
  <2> QED BY <1>2, <2>1
<1> HIDE DEF S
<1>5. Nat \subseteq S
  BY <1>3, <1>4, Induction
<1>6. v \in Nat
  BY <1>1 DEF Unsigned
<1> QED BY <1>5, <1>6 DEF S

\* Digits cut out of a value are worth the value as far as they reach.
LEMMA DigitsWorth ==
  ASSUME NEW g \in Nat, NEW v \in Nat, NEW d, Len(d) \in Nat,
         g * Len(d) <= 2 * ValueBits, g <= 2 * ValueBits,
         \A i \in 1..Len(d) : d[i] = (v \div 2^(g * (i - 1))) % 2^g
  PROVE  LittleEndian(d, g) = v % 2^(g * Len(d))
<1> DEFINE N == Len(d)
           f == SumOf(d, g)
           P(n) == 2^(g * n)
           R == 2^g
           S == {n \in Nat : n <= N => f[n] = v % P(n)}
<1>1. /\ LittleEndian(d, g) = f[N] /\ f[0] = 0
      /\ \A n \in 1..N : f[n] = f[n - 1] + d[n] * P(n - 1)
  BY SumIs
<1>2. \A n \in 0..N : g * n \in 0..(2 * ValueBits)
  <2>1. \A x, y, z \in Nat : x <= y => z * x <= z * y /\ z * x \in Nat /\ z * y \in Nat
    OBVIOUS
  <2>2. ASSUME NEW n \in 0..N PROVE g * n \in 0..(2 * ValueBits)
    <3>1. n \in Nat /\ n <= N /\ N \in Nat
      OBVIOUS
    <3>2. g * n <= g * N /\ g * n \in Nat /\ g * N \in Nat
      BY <2>1, <3>1
    <3>3. g * N <= 2 * ValueBits /\ ValueBits \in Nat
      BY Widths
    <3> QED BY <3>2, <3>3
  <2> QED BY <2>2
<1>3. \A n \in 0..N : P(n) \in Nat \ {0}
  BY <1>2, PowerAssumption
<1>4. \A n \in Nat : n + 1 <= N => P(n + 1) = P(n) * R
  <2> SUFFICES ASSUME NEW n \in Nat, n + 1 <= N PROVE P(n + 1) = P(n) * R
    OBVIOUS
  <2>1. n \in 0..N /\ n + 1 \in 0..N
    OBVIOUS
  <2>2. g * (n + 1) = g * n + g
    OBVIOUS
  <2>3. g * n \in 0..(2 * ValueBits) /\ g \in 0..(2 * ValueBits) /\ g * n + g <= 2 * ValueBits
    BY <1>2, <2>1, <2>2, Widths
  <2> QED BY <2>2, <2>3, PowerAssumption
<1>5. R \in Nat \ {0}
  BY Widths, PowerAssumption
<1>6. \A n \in 1..N : d[n] = (v \div P(n - 1)) % R
  OBVIOUS
<1>7. P(0) = 1
  <2>1. g * 0 = 0 /\ 2^0 = 1
    OBVIOUS
  <2> QED BY <2>1
<1> HIDE DEF N, f, P, R
<1>8. 0 \in S
  <2>1. v % 1 = 0
    OBVIOUS
  <2> QED BY <1>1, <1>7, <2>1
<1>9. ASSUME NEW n \in Nat, n \in S PROVE n + 1 \in S
  <2> SUFFICES ASSUME n + 1 <= N PROVE f[n + 1] = v % P(n + 1)
    OBVIOUS
  <2>1. n + 1 \in 1..N /\ (n + 1) - 1 = n /\ n \in 0..N /\ n <= N
    BY DEF N
  <2>2. f[n + 1] = f[n] + d[n + 1] * P(n) /\ f[n] = v % P(n) /\ d[n + 1] = (v \div P(n)) % R
    BY <1>1, <1>6, <1>9, <2>1
  <2>3. PICK p \in Nat \ {0} : p = P(n)
    BY <1>3, <2>1
  <2>4. v % (p * R) = (v % p) + (((v \div p) % R) * p)
    BY <1>5, RemTimes, Zenon
  <2>5. P(n + 1) = p * R
    BY <1>4, <2>3
  <2>6. f[n + 1] = (v % p) + (((v \div p) % R) * p)
    BY <2>2, <2>3, Zenon
  <2> QED BY <2>4, <2>5, <2>6, Zenon
<1> HIDE DEF S
<1>10. N \in S /\ N <= N
  <2>1. N \in Nat /\ N <= N
    BY DEF N
  <2> QED BY <1>8, <1>9, <2>1, Induction
<1>11. f[N] = v % P(N)
  BY <1>10 DEF S
<1> QED BY <1>1, <1>11 DEF N, P

-----------------------------------------------------------------------------
(* One after the other *)

\* A function that concatenates as many of the sequences H[1], H[2], ... as its
\* argument says exists: what the recursive function in Concatenated needs to be one.
LEMMA Concats ==
  ASSUME NEW H, NEW N \in Nat
  PROVE  \E f : f = [n \in 0..N |-> IF n = 0 THEN <<>> ELSE f[n - 1] \o H[n]]
<1> DEFINE S == {m \in Nat : \E f : f = [n \in 0..m |-> IF n = 0 THEN <<>> ELSE f[n - 1] \o H[n]]}
<1> HIDE DEF S
<1>1. 0 \in S
  <2> DEFINE f == [n \in 0..0 |-> <<>>]
  <2>1. f = [n \in 0..0 |-> IF n = 0 THEN <<>> ELSE f[n - 1] \o H[n]]
    OBVIOUS
  <2> QED BY <2>1 DEF S
<1>2. ASSUME NEW m \in Nat, m \in S PROVE m + 1 \in S
  <2>1. PICK f : f = [n \in 0..m |-> IF n = 0 THEN <<>> ELSE f[n - 1] \o H[n]]
    BY <1>2 DEF S
  <2> DEFINE F == [n \in 0..m |-> IF n = 0 THEN <<>> ELSE f[n - 1] \o H[n]]
             g == [n \in 0..(m + 1) |-> IF n = m + 1 THEN f[m] \o H[m + 1] ELSE f[n]]
             G == [n \in 0..(m + 1) |-> IF n = 0 THEN <<>> ELSE g[n - 1] \o H[n]]
  <2>2. F[0] = <<>> /\ \A n \in 1..m : F[n] = f[n - 1] \o H[n]
    <3>1. 0 \in 0..m /\ \A n \in 1..m : n \in 0..m /\ n # 0
      OBVIOUS
    <3> QED BY <3>1, Zenon
  <2>3. f = F
    BY <2>1
  <2> HIDE DEF F
  <2>4. f[0] = <<>> /\ \A n \in 1..m : f[n] = f[n - 1] \o H[n]
    BY <2>2, <2>3
  <2>5. g[m + 1] = f[m] \o H[m + 1] /\ \A n \in 0..m : g[n] = f[n]
    OBVIOUS
  <2> HIDE DEF g
  <2>6. G[0] = <<>> /\ \A n \in 1..(m + 1) : G[n] = g[n - 1] \o H[n]
    <3>1. 0 \in 0..(m + 1) /\ \A n \in 1..(m + 1) : n \in 0..(m + 1) /\ n # 0
      OBVIOUS
    <3> QED BY <3>1, Zenon
  <2>7. DOMAIN g = 0..(m + 1) /\ g = [n \in 0..(m + 1) |-> g[n]]
    BY DEF g
  <2>8. \A n \in 0..(m + 1) : g[n] = G[n]
    <3> SUFFICES ASSUME NEW n \in 0..(m + 1) PROVE g[n] = G[n]
      OBVIOUS
    <3> HIDE DEF G
    <3>1. CASE n = 0
      BY <2>4, <2>5, <2>6, <3>1
    <3>2. CASE n \in 1..m
      <4>1. n - 1 \in 0..m /\ n \in 0..m /\ n \in 1..(m + 1)
        BY <3>2
      <4> QED BY <2>4, <2>5, <2>6, <3>2, <4>1
    <3>3. CASE n = m + 1
      <4>1. m + 1 \in 1..(m + 1) /\ (m + 1) - 1 = m /\ m \in 0..m
        OBVIOUS
      <4> QED BY <2>5, <2>6, <3>3, <4>1
    <3> QED BY <3>1, <3>2, <3>3
  <2>9. g = G
    BY <2>7, <2>8
  <2>10. \E h : h = [n \in 0..(m + 1) |-> IF n = 0 THEN <<>> ELSE h[n - 1] \o H[n]]
    BY <2>9, Zenon
  <2>11. m + 1 \in Nat
    OBVIOUS
  <2> QED BY <2>10, <2>11, Zenon DEF S
<1>3. Nat \subseteq S
  BY <1>1, <1>2, Induction
<1> QED BY <1>3 DEF S

\* The parts concatenated as far as the one numbered by the argument.
Prefixes(parts) ==
  CHOOSE f : f = [n \in 0..Len(parts) |-> IF n = 0 THEN <<>> ELSE f[n - 1] \o parts[n]]

\* The parts one after the other, prefix by prefix.
LEMMA ConcatenatedIs ==
  ASSUME NEW parts, Len(parts) \in Nat
  PROVE  /\ Concatenated(parts) = Prefixes(parts)[Len(parts)]
         /\ Prefixes(parts)[0] = <<>>
         /\ \A n \in 1..Len(parts) : Prefixes(parts)[n] = Prefixes(parts)[n - 1] \o parts[n]
<1> DEFINE N == Len(parts)
           P == Prefixes(parts)
           Rec(f) == [n \in 0..N |-> IF n = 0 THEN <<>> ELSE f[n - 1] \o parts[n]]
<1>1. Concatenated(parts) = P[N]
  BY DEF Concatenated, Prefixes
<1>2. \E f : f = Rec(f)
  BY Concats
<1>3. P = Rec(P)
  <2>1. P = CHOOSE f : f = Rec(f)
    BY DEF Prefixes
  <2> HIDE DEF Rec, P
  <2> QED BY <1>2, <2>1
<1>4. Rec(P)[0] = <<>> /\ \A n \in 1..N : Rec(P)[n] = P[n - 1] \o parts[n]
  <2>1. 0 \in 0..N /\ \A n \in 1..N : n \in 0..N /\ n # 0
    OBVIOUS
  <2> QED BY <2>1, Zenon
<1> HIDE DEF Rec, P
<1>5. P[0] = <<>> /\ \A n \in 1..N : P[n] = P[n - 1] \o parts[n]
  BY <1>3, <1>4
<1> QED BY <1>1, <1>5 DEF P

-----------------------------------------------------------------------------
(* Concatenation *)

\* Bytes put together are bytes, in whichever order they are put together.
LEMMA Assoc ==
  \A s, t, u \in Seq(Bytes) : /\ (s \o t) \o u = s \o (t \o u)
                              /\ s \o t \in Seq(Bytes)
<1> TAKE s, t, u \in Seq(Bytes)
<1> QED BY ConcatAssociative, ConcatProperties

\* Named, so that a prover finds the instance it needs.
Regroups(s, t, u, v) == (s \o (t \o u)) \o v = s \o (t \o (u \o v))

\* The same for four runs of bytes, as the writers put them together.
LEMMA Regrouping == \A s, t, u, v \in Seq(Bytes) : Regroups(s, t, u, v)
<1> SUFFICES ASSUME NEW s \in Seq(Bytes), NEW t \in Seq(Bytes),
                    NEW u \in Seq(Bytes), NEW v \in Seq(Bytes)
             PROVE  (s \o (t \o u)) \o v = s \o (t \o (u \o v))
  BY DEF Regroups
<1>1. t \o u \in Seq(Bytes)
  BY Assoc
<1>2. (s \o (t \o u)) \o v = s \o ((t \o u) \o v)
  <2> DEFINE tu == t \o u
  <2>1. tu \in Seq(Bytes)
    BY <1>1
  <2> HIDE DEF tu
  <2>2. (s \o tu) \o v = s \o (tu \o v)
    BY <2>1, Assoc
  <2> QED BY <2>2 DEF tu
<1>3. (t \o u) \o v = t \o (u \o v)
  BY Assoc
<1> QED BY <1>2, <1>3

-----------------------------------------------------------------------------
(* What the writers put out are bytes *)

\* A varint is one byte or more.
LEMMA VarintTyped ==
  ASSUME NEW v \in Unsigned
  PROVE  VarintOf[v] \in Seq(Bytes) /\ VarintOf[v] # <<>> /\ Len(VarintOf[v]) \in Nat \ {0}
<1>1. VarintOf[v] \in Seq(Bytes) /\ Len(VarintOf[v]) \in Nat \ {0}
  BY VarintShape DEF Spells
<1>2. VarintOf[v] # <<>>
  BY <1>1
<1> QED BY <1>1, <1>2

\* An id the format has, and a type, make a value whose quotient and remainder they are.
LEMMA HeaderFits ==
  ASSUME NEW id \in Ids \cup {0}, NEW type \in 0..7
  PROVE  /\ id * 8 + type \in Unsigned /\ id \in Nat
         /\ (id * 8 + type) \div 8 = id /\ (id * 8 + type) % 8 = type
<1>1. 2^ValueBits \in Nat /\ 8 <= 2^ValueBits
  <2>1. PayloadBits \in 0..ValueBits /\ ValueBits \in 0..ValueBits /\ PayloadBits <= ValueBits
    BY Widths
  <2>2. 2^PayloadBits <= 2^ValueBits
    BY <2>1, Powers
  <2> QED BY <2>2, Widths, WidthAssumption
<1>2. PICK x \in Nat : x = 2^ValueBits
  BY <1>1
<1>3. id \in Nat /\ id <= x \div 8 - 1
  <2>1. x \div 8 >= 1
    BY <1>1, <1>2
  <2>2. id \in Ids => id \in Nat /\ id <= x \div 8 - 1
    BY <1>2, Ceilings DEF Ids, ID_MAX
  <2> QED BY <1>2, <2>1, <2>2
<1>4. id * 8 + type <= x - 1
  BY <1>2, <1>3
<1>5. id * 8 + type \in Unsigned
  BY <1>2, <1>3, <1>4 DEF Unsigned
<1>6. 8 \in Nat \ {0} /\ type \in 0..(8 - 1)
  OBVIOUS
<1> QED BY <1>3, <1>5, <1>6, DivMod

\* So is the header of a field or of the end of a sequence.
LEMMA HeaderTyped ==
  ASSUME NEW id \in Ids \cup {0}, NEW type \in 0..7
  PROVE  Header(id, type) \in Seq(Bytes) /\ Header(id, type) # <<>>
BY HeaderFits, VarintTyped DEF Header

\* Parts that are bytes make bytes.
LEMMA ConcatenatedTyped ==
  ASSUME NEW parts, Len(parts) \in Nat, \A i \in 1..Len(parts) : parts[i] \in Seq(Bytes)
  PROVE  Concatenated(parts) \in Seq(Bytes)
<1> DEFINE N == Len(parts)
           P == Prefixes(parts)
           S == {n \in Nat : n <= N => P[n] \in Seq(Bytes)}
<1>1. Concatenated(parts) = P[N] /\ P[0] = <<>> /\ \A n \in 1..N : P[n] = P[n - 1] \o parts[n]
  BY ConcatenatedIs
<1> HIDE DEF P
<1>2. 0 \in S
  <2>1. <<>> \in Seq(Bytes)
    OBVIOUS
  <2>2. P[0] \in Seq(Bytes)
    BY <1>1, <2>1
  <2> QED BY <2>2
<1>3. ASSUME NEW n \in Nat, n \in S PROVE n + 1 \in S
  <2> SUFFICES ASSUME n + 1 <= N PROVE P[n + 1] \in Seq(Bytes)
    OBVIOUS
  <2>1. n + 1 \in 1..N /\ (n + 1) - 1 = n /\ P[n] \in Seq(Bytes)
    BY <1>3
  <2>2. parts[n + 1] \in Seq(Bytes) /\ P[n + 1] = P[n] \o parts[n + 1]
    BY <1>1, <2>1
  <2> QED BY <2>1, <2>2, ConcatProperties
<1> HIDE DEF S
<1>4. N \in S
  BY <1>2, <1>3, Induction
<1> QED BY <1>1, <1>4 DEF S

\* The bits of a float make bytes, for the powers they are cut by are known.
LEMMA FloatWidths ==
  ASSUME NEW t \in {"Fp32", "Fp64"}
  PROVE  Width(t) \in Nat \ {0} /\ ByteBits * Width(t) \in 0..(2 * ValueBits)
<1>1. FloatBytes \in Nat \ {0} /\ ByteBits \in Nat
  BY WidthAssumption, Widths
<1>2. FloatBytes * ByteBits \in Nat /\ FloatBytes * ByteBits <= ValueBits /\ ValueBits \in Nat
  BY <1>1, WidthAssumption, Widths
<1>3. /\ ByteBits * FloatBytes = FloatBytes * ByteBits
      /\ ByteBits * (2 * FloatBytes) = 2 * (FloatBytes * ByteBits)
  BY <1>1
<1>4. CASE t = "Fp32"
  BY <1>1, <1>2, <1>3, <1>4 DEF Width
<1>5. CASE t = "Fp64"
  BY <1>1, <1>2, <1>3, <1>5 DEF Width
<1> QED BY <1>4, <1>5

\* A float is put out as the bytes of its width.
LEMMA LeBytesTyped ==
  ASSUME NEW t \in {"Fp32", "Fp64"}, NEW bits \in BitsOf(t)
  PROVE  /\ LeBytes(bits, Width(t)) \in Seq(Bytes) /\ Len(LeBytes(bits, Width(t))) = Width(t)
         /\ bits \in Nat
<1> DEFINE w == Width(t)
           d == LeBytes(bits, w)
<1>1. w \in Nat \ {0} /\ ByteBits * w \in 0..(2 * ValueBits) /\ ByteBits \in Nat
  BY FloatWidths, Widths
<1>2. bits \in Nat
  <2>1. 2^(ByteBits * w) \in Nat \ {0}
    BY <1>1, PowerAssumption
  <2> QED BY <2>1 DEF BitsOf
<1> HIDE DEF w
<1>3. ASSUME NEW i \in 1..w
      PROVE  (bits \div 2^(ByteBits * (i - 1))) % 2^ByteBits \in Bytes
  <2>1. ByteBits * (i - 1) \in 0..(2 * ValueBits)
    <3>1. \A x, y, z \in Nat : x <= y => z * x <= z * y /\ z * x \in Nat /\ z * y \in Nat
      OBVIOUS
    <3>2. i - 1 \in Nat /\ i - 1 <= w
      BY <1>1
    <3>3. ByteBits * (i - 1) <= ByteBits * w /\ ByteBits * (i - 1) \in Nat
      BY <1>1, <3>1, <3>2
    <3> QED BY <1>1, <3>3, Widths
  <2>2. 2^(ByteBits * (i - 1)) \in Nat \ {0} /\ 2^ByteBits \in Nat \ {0}
    BY <2>1, PowerAssumption, Widths
  <2>3. \A x \in Nat : \A y, z \in Nat \ {0} : (x \div y) % z \in 0..(z - 1)
    OBVIOUS
  <2> QED BY <1>2, <2>2, <2>3 DEF Bytes
<1>4. d = [i \in 1..w |-> (bits \div 2^(ByteBits * (i - 1))) % 2^ByteBits]
  BY DEF LeBytes
<1> HIDE DEF d
<1>5. d \in [1..w -> Bytes]
  BY <1>3, <1>4
<1>6. d \in Seq(Bytes) /\ Len(d) = w
  BY <1>1, <1>5
<1> QED BY <1>2, <1>6 DEF w, d

\* A count or a length in the value type, whatever it was before.
LEMMA Counted ==
  ASSUME NEW n \in Nat
  PROVE  n % 2^ValueBits \in Unsigned /\ (n \in Unsigned => n % 2^ValueBits = n)
<1>1. PICK y \in Nat \ {0} : y = 2^ValueBits
  BY Widths
<1>2. (n % y) \in 0..(y - 1) /\ (n < y => (n % y) = n)
  OBVIOUS
<1>3. Unsigned = 0..(y - 1)
  BY <1>1 DEF Unsigned
<1>4. n \in 0..(y - 1) => n < y
  OBVIOUS
<1> QED BY <1>1, <1>2, <1>3, <1>4, Zenon

\* The word of a payload is bytes, truncated or not.
LEMMA WordTyped ==
  ASSUME NEW n \in Nat, NEW t \in DOMAIN FixlenCode
  PROVE  /\ FixlenCode[t] \in 0..7 /\ n * 8 + FixlenCode[t] \in Nat
         /\ FixlenWordOf(n, t) \in Seq(Bytes)
<1>1. FixlenCode[t] \in 0..7
  BY DEF FixlenCode
<1>2. n * 8 + FixlenCode[t] \in Nat
  BY <1>1
<1> QED BY <1>1, <1>2, Counted, VarintTyped DEF FixlenWordOf

\* The count of an array is bytes, truncated or not.
LEMMA CountTyped ==
  ASSUME NEW data, Len(data) \in Nat
  PROVE  CountOf(data) \in Seq(Bytes)
BY Counted, VarintTyped DEF CountOf

\* The parts of an array: the encodings of its elements.
Varints(data) == [i \in 1..Len(data) |-> VarintOf[data[i]]]
ZigZags(data) == [i \in 1..Len(data) |-> VarintOf[zigzag_encode(data[i])]]
FloatParts(data, t) == [i \in 1..Len(data) |-> LeBytes(data[i], Width(t))]

\* The elements of an array are bytes, whatever their kind.
LEMMA PartsTyped ==
  ASSUME NEW data, Len(data) \in Nat
  PROVE  /\ data \in Seq(Unsigned) => Concatenated(Varints(data)) \in Seq(Bytes)
         /\ data \in Seq(Signed) => Concatenated(ZigZags(data)) \in Seq(Bytes)
         /\ \A t \in {"Fp32", "Fp64"} :
              data \in Seq(BitsOf(t)) => Concatenated(FloatParts(data, t)) \in Seq(Bytes)
<1>1. ASSUME data \in Seq(Unsigned) PROVE Concatenated(Varints(data)) \in Seq(Bytes)
  <2>1. Len(Varints(data)) = Len(data)
    BY DEF Varints
  <2>2. \A i \in 1..Len(data) : Varints(data)[i] \in Seq(Bytes)
    BY <1>1, ElementOfSeq, VarintTyped DEF Varints
  <2> QED BY <2>1, <2>2, ConcatenatedTyped
<1>2. ASSUME data \in Seq(Signed) PROVE Concatenated(ZigZags(data)) \in Seq(Bytes)
  <2>1. Len(ZigZags(data)) = Len(data)
    BY DEF ZigZags
  <2>2. \A i \in 1..Len(data) : data[i] \in Signed
    BY <1>2, ElementOfSeq
  <2>3. \A i \in 1..Len(data) : zigzag_encode(data[i]) \in Unsigned
    BY <2>2, ZigZagRoundTrip
  <2>4. \A i \in 1..Len(data) : ZigZags(data)[i] \in Seq(Bytes)
    BY <2>3, VarintTyped DEF ZigZags
  <2> QED BY <2>1, <2>4, ConcatenatedTyped
<1>3. ASSUME NEW t \in {"Fp32", "Fp64"}, data \in Seq(BitsOf(t))
      PROVE  Concatenated(FloatParts(data, t)) \in Seq(Bytes)
  <2>1. Len(FloatParts(data, t)) = Len(data)
    BY DEF FloatParts
  <2>2. \A i \in 1..Len(data) : FloatParts(data, t)[i] \in Seq(Bytes)
    BY <1>3, ElementOfSeq, LeBytesTyped DEF FloatParts
  <2> QED BY <2>1, <2>2, ConcatenatedTyped
<1> QED BY <1>1, <1>2, <1>3

\* The body of each writer in one piece of its own.
LEMMA Bodies ==
  ASSUME NEW field
  PROVE  LET data == field.data
         IN /\ field.writer = "write_unsigned" => Body(field) = VarintOf[data]
            /\ field.writer = "write_signed" => Body(field) = VarintOf[zigzag_encode(data)]
            /\ field.writer = "write_fp32" =>
                 Body(field) = Fixlen(LeBytes(data, Width("Fp32")), "Fp32")
            /\ field.writer = "write_fp64" =>
                 Body(field) = Fixlen(LeBytes(data, Width("Fp64")), "Fp64")
            /\ field.writer = "write_str" => Body(field) = Fixlen(data, "Str")
            /\ field.writer = "write_blob" => Body(field) = Fixlen(data, "Blob")
            /\ field.writer = "write_fixlen" => Body(field) = Fixlen(data, field.subtype)
            /\ field.writer = "write_array_unsigned" =>
                 Body(field) = CountOf(data) \o Concatenated(Varints(data))
            /\ field.writer = "write_array_signed" =>
                 Body(field) = CountOf(data) \o Concatenated(ZigZags(data))
            /\ field.writer = "write_array_fp32" => Body(field) = FloatArray(data, "Fp32")
            /\ field.writer = "write_array_fp64" => Body(field) = FloatArray(data, "Fp64")
<1> DEFINE data == field.data
<1>1. CASE field.writer = "write_unsigned"
  BY <1>1 DEF Body
<1>2. CASE field.writer = "write_signed"
  BY <1>2 DEF Body
<1>3. CASE field.writer = "write_fp32"
  BY <1>3 DEF Body, FixlenWriter
<1>4. CASE field.writer = "write_fp64"
  BY <1>4 DEF Body, FixlenWriter
<1>5. CASE field.writer = "write_str"
  BY <1>5 DEF Body, FixlenWriter
<1>6. CASE field.writer = "write_blob"
  BY <1>6 DEF Body, FixlenWriter
<1>7. CASE field.writer = "write_fixlen"
  BY <1>7 DEF Body
<1>8. CASE field.writer = "write_array_unsigned"
  <2>1. Each(data, LAMBDA v : VarintOf[v]) = Concatenated(Varints(data))
    BY DEF Each, Varints
  <2> QED BY <1>8, <2>1 DEF Body
<1>9. CASE field.writer = "write_array_signed"
  <2>1. Each(data, LAMBDA v : VarintOf[zigzag_encode(v)]) = Concatenated(ZigZags(data))
    BY DEF Each, ZigZags
  <2> QED BY <1>9, <2>1 DEF Body
<1>10. CASE field.writer = "write_array_fp32"
  BY <1>10 DEF Body
<1>11. CASE field.writer = "write_array_fp64"
  BY <1>11 DEF Body
<1> QED BY <1>1, <1>2, <1>3, <1>4, <1>5, <1>6, <1>7, <1>8, <1>9, <1>10, <1>11

\* An array of floats is its count, its word and its elements.
LEMMA FloatArrayIs ==
  ASSUME NEW data, NEW t
  PROVE  FloatArray(data, t)
           = CountOf(data) \o FixlenWordOf(Width(t), t) \o Concatenated(FloatParts(data, t))
BY DEF FloatArray, Each, FloatParts

\* A word and a payload are bytes.
LEMMA FixlenTyped ==
  ASSUME NEW data \in Seq(Bytes), NEW t \in DOMAIN FixlenCode
  PROVE  Fixlen(data, t) \in Seq(Bytes)
<1>1. Len(data) \in Nat
  BY LenProperties
<1> QED BY <1>1, WordTyped, ConcatProperties DEF Fixlen

\* Whatever a writer was given, what follows the header is bytes.
LEMMA BodyTyped ==
  ASSUME NEW field, IsField(field)
  PROVE  Body(field) \in Seq(Bytes)
<1> DEFINE data == field.data
<1>0. /\ "Fp32" \in DOMAIN FixlenCode /\ "Fp64" \in DOMAIN FixlenCode
      /\ "Str" \in DOMAIN FixlenCode /\ "Blob" \in DOMAIN FixlenCode
      /\ FixlenTypes \subseteq DOMAIN FixlenCode
  BY DEF FixlenCode, FixlenTypes
<1>1. CASE field.writer = "write_unsigned" /\ data \in Unsigned
  BY <1>1, Bodies, VarintTyped
<1>2. CASE field.writer = "write_signed" /\ data \in Signed
  BY <1>2, Bodies, VarintTyped, ZigZagRoundTrip
<1>3. CASE field.writer = "write_fp32" /\ data \in BitsOf("Fp32")
  BY <1>0, <1>3, Bodies, LeBytesTyped, FixlenTyped
<1>4. CASE field.writer = "write_fp64" /\ data \in BitsOf("Fp64")
  BY <1>0, <1>4, Bodies, LeBytesTyped, FixlenTyped
<1>5. CASE field.writer \in {"write_str", "write_blob"} /\ data \in Seq(Bytes)
  BY <1>0, <1>5, Bodies, FixlenTyped
<1>6. CASE field.writer = "write_fixlen" /\ field.subtype \in FixlenTypes /\ data \in Seq(Bytes)
  BY <1>0, <1>6, Bodies, FixlenTyped
<1>7. CASE field.writer = "write_array_unsigned" /\ data \in Seq(Unsigned)
  <2>1. Len(data) \in Nat
    BY <1>7, LenProperties
  <2>2. CountOf(data) \in Seq(Bytes) /\ Concatenated(Varints(data)) \in Seq(Bytes)
    BY <1>7, <2>1, CountTyped, PartsTyped
  <2>3. CountOf(data) \o Concatenated(Varints(data)) \in Seq(Bytes)
    BY <2>2, ConcatProperties
  <2> QED BY <1>7, <2>3, Bodies
<1>8. CASE field.writer = "write_array_signed" /\ data \in Seq(Signed)
  <2>1. Len(data) \in Nat
    BY <1>8, LenProperties
  <2>2. CountOf(data) \in Seq(Bytes) /\ Concatenated(ZigZags(data)) \in Seq(Bytes)
    BY <1>8, <2>1, CountTyped, PartsTyped
  <2>3. CountOf(data) \o Concatenated(ZigZags(data)) \in Seq(Bytes)
    BY <2>2, ConcatProperties
  <2> QED BY <1>8, <2>3, Bodies
<1>9. ASSUME NEW t \in {"Fp32", "Fp64"}, data \in Seq(BitsOf(t))
      PROVE  FloatArray(data, t) \in Seq(Bytes)
  <2>1. Len(data) \in Nat
    BY <1>9, LenProperties
  <2>2. /\ CountOf(data) \in Seq(Bytes) /\ FixlenWordOf(Width(t), t) \in Seq(Bytes)
        /\ Concatenated(FloatParts(data, t)) \in Seq(Bytes)
    BY <1>0, <1>9, <2>1, CountTyped, PartsTyped, WordTyped, FloatWidths
  <2>3. CountOf(data) \o FixlenWordOf(Width(t), t) \in Seq(Bytes)
    BY <2>2, ConcatProperties
  <2> QED BY <2>2, <2>3, FloatArrayIs, ConcatProperties
<1>10. CASE field.writer = "write_array_fp32" /\ data \in Seq(BitsOf("Fp32"))
  BY <1>9, <1>10, Bodies
<1>11. CASE field.writer = "write_array_fp64" /\ data \in Seq(BitsOf("Fp64"))
  BY <1>9, <1>11, Bodies
<1> QED BY <1>1, <1>2, <1>3, <1>4, <1>5, <1>6, <1>7, <1>8, <1>10, <1>11 DEF IsField

\* The bytes of a field are bytes, and there are some.
LEMMA FieldTyped ==
  ASSUME NEW field, IsField(field), field.id \in Ids
  PROVE  /\ TypeOf(field) \in 0..5 /\ TypeOf(field) \in WireTypes
         /\ FieldBytes(field) \in Seq(Bytes) /\ FieldBytes(field) # <<>>
<1>1. TypeOf(field) \in 0..5 /\ TypeOf(field) \in WireTypes
  BY DEF IsField, TypeOf, FixlenWriter, T_VARINT_UNSIGNED, T_VARINT_SIGNED, T_FIXLEN,
     T_VARINTARRAY_UNSIGNED, T_VARINTARRAY_SIGNED, T_FIXLENARRAY
<1>2. PICK h : h = Header(field.id, TypeOf(field))
  OBVIOUS
<1>3. h \in Seq(Bytes) /\ h # <<>>
  <2>1. field.id \in Ids \cup {0} /\ TypeOf(field) \in 0..7
    BY <1>1
  <2> QED BY <1>2, <2>1, HeaderTyped
<1>4. PICK b : b = Body(field)
  OBVIOUS
<1>5. b \in Seq(Bytes) /\ FieldBytes(field) = h \o b
  BY <1>2, <1>4, BodyTyped DEF FieldBytes
<1>6. h \o b \in Seq(Bytes) /\ h \o b # <<>>
  BY <1>3, <1>5, ConcatProperties, EmptySeq, LenProperties
<1> QED BY <1>1, <1>5, <1>6

-----------------------------------------------------------------------------
(* A varint read back *)

\* Where the bytes of three runs put together are.
LEMMA Twofold ==
  ASSUME NEW s \in Seq(Bytes), NEW w \in Seq(Bytes), NEW t \in Seq(Bytes)
  PROVE  /\ (s \o w) \o t \in Seq(Bytes) /\ s \o w \in Seq(Bytes)
         /\ Len(s) \in Nat /\ Len(w) \in Nat /\ Len(t) \in Nat
         /\ Len(s \o w) = Len(s) + Len(w) /\ Len((s \o w) \o t) = Len(s) + Len(w) + Len(t)
         /\ \A i \in 1..Len(w) : ((s \o w) \o t)[Len(s) + i] = w[i]
<1>1. /\ s \o w \in Seq(Bytes) /\ Len(s) \in Nat /\ Len(w) \in Nat
      /\ Len(s \o w) = Len(s) + Len(w)
      /\ \A i \in (Len(s) + 1)..(Len(s) + Len(w)) : (s \o w)[i] = w[i - Len(s)]
  BY ConcatProperties, LenProperties
<1>2. PICK z : z = s \o w
  OBVIOUS
<1>3. /\ z \o t \in Seq(Bytes) /\ Len(t) \in Nat /\ Len(z \o t) = Len(z) + Len(t)
      /\ \A i \in 1..Len(z) : (z \o t)[i] = z[i]
  BY <1>1, <1>2, Followed
<1>4. ASSUME NEW i \in 1..Len(w) PROVE (z \o t)[Len(s) + i] = w[i]
  <2>1. /\ Len(s) + i \in 1..Len(z) /\ Len(s) + i \in (Len(s) + 1)..(Len(s) + Len(w))
        /\ (Len(s) + i) - Len(s) = i
    BY <1>1, <1>2
  <2>2. (z \o t)[Len(s) + i] = z[Len(s) + i]
    BY <1>3, <2>1
  <2>3. z[Len(s) + i] = w[(Len(s) + i) - Len(s)]
    BY <1>1, <1>2, <2>1
  <2> QED BY <2>1, <2>2, <2>3
<1>5. Len(z \o t) = Len(s) + Len(w) + Len(t)
  BY <1>1, <1>2, <1>3
<1> QED BY <1>1, <1>2, <1>3, <1>4, <1>5

\* The last byte of a varint is not overlong.
LEMMA LastFits ==
  ASSUME NEW v \in Unsigned, NEW w, Spells(v, w)
  PROVE  ~Overlong(w[Len(w)], PayloadBits * (Len(w) - 1))
<1> DEFINE k == Len(w) - 1
           sh == PayloadBits * k
           room == ValueBits - sh
           b == w[Len(w)]
<1>1. /\ k \in Nat /\ Len(w) \in 1..Len(w) /\ sh < ValueBits /\ ~More(b)
      /\ Payload(b) = (v \div 2^sh) % 2^PayloadBits
  BY DEF Spells
<1>2. sh \in 0..ValueBits /\ room \in 1..ValueBits /\ 2^sh \in Nat \ {0}
  <2>1. sh \in 0..ValueBits /\ 2^sh \in Nat \ {0}
    BY <1>1, VarintPowers
  <2> QED BY <1>1, <2>1, Widths
<1>3. ASSUME room < PayloadBits PROVE Payload(b) \div 2^room = 0
  <2>1. 2^ValueBits = 2^sh * 2^room /\ 2^room \in Nat \ {0} /\ 2^room <= 2^PayloadBits
        /\ 2^PayloadBits \in Nat \ {0}
    <3>1. sh + room = ValueBits /\ room \in 0..ValueBits /\ PayloadBits \in 0..ValueBits
          /\ room <= PayloadBits
      BY <1>2, <1>3, Widths
    <3>2. 2^(sh + room) = 2^sh * 2^room
      BY <1>2, <3>1, PowersAdd
    <3>3. 2^room \in Nat \ {0} /\ 2^room <= 2^PayloadBits /\ 2^PayloadBits \in Nat \ {0}
      BY <3>1, Powers
    <3> QED BY <3>1, <3>2, <3>3
  <2>2. PICK x \in Nat \ {0}, y \in Nat \ {0}, z \in Nat \ {0} :
             x = 2^sh /\ y = 2^room /\ z = 2^PayloadBits
    BY <1>2, <2>1
  <2>3. v \in Nat /\ v < x * y
    BY <2>1, <2>2, Widths DEF Unsigned
  <2>4. (v \div x) \in Nat /\ (v \div x) < y
    <3>1. PICK q \in Nat, r \in 0..(x - 1) : q = v \div x /\ v = x * q + r
      BY <2>3
    <3>2. ~(q >= y)
      <4>1. q >= y => x * q >= x * y
        BY <2>3
      <4>2. x * q \in Nat /\ x * y \in Nat
        OBVIOUS
      <4> QED BY <2>3, <3>1, <4>1, <4>2
    <3> QED BY <3>1, <3>2
  <2>5. y <= z
    BY <2>1, <2>2
  <2>6. PICK d \in Nat : d = v \div x
    BY <2>4
  <2>7. (d % z) = d /\ (d \div y) = 0
    BY <2>4, <2>5, <2>6
  <2> QED BY <1>1, <2>2, <2>6, <2>7
<1> HIDE DEF sh, room, b, k
<1>4. ~Overlong(b, sh)
  BY <1>1, <1>3 DEF Overlong, room
<1> QED BY <1>4 DEF b, sh, k

\* What write_varint puts out is read back as the value it was given, whatever is
\* before it and after.
LEMMA VarintReadBack ==
  ASSUME NEW v \in Unsigned, NEW s \in Seq(Bytes), NEW t \in Seq(Bytes)
  PROVE  ReadVarint((s \o VarintOf[v]) \o t, Len(s) + 1)
           = [is |-> "read", next |-> Len(s) + Len(VarintOf[v]) + 1, value |-> v]
<1> DEFINE w == VarintOf[v]
           u == (s \o w) \o t
           L == Len(w)
           p == Len(s) + 1
           q == Len(s) + L
           sh == PayloadBits * (q - p)
<1>1. /\ w \in Seq(Bytes) /\ L \in Nat \ {0} /\ PayloadBits * (L - 1) < ValueBits
      /\ v < 2^(PayloadBits * L)
      /\ \A i \in 1..L : /\ Payload(w[i]) = (v \div 2^(PayloadBits * (i - 1))) % 2^PayloadBits
                         /\ More(w[i]) <=> i < L
  BY VarintShape DEF Spells
<1> HIDE DEF w
<1>2. /\ u \in Seq(Bytes) /\ Len(s) \in Nat /\ Len(u) = Len(s) + L + Len(t) /\ Len(t) \in Nat
      /\ \A i \in 1..L : u[Len(s) + i] = w[i]
  BY <1>1, Twofold
<1>3. ~Overlong(w[L], PayloadBits * (L - 1))
  BY VarintShape, LastFits DEF w
<1> HIDE DEF u, L
<1>4. /\ p \in 1..Len(u) /\ q \in p..Len(u) /\ q - p = L - 1 /\ q + 1 = Len(s) + L + 1
      /\ p \in Nat /\ q \in Nat
  BY <1>1, <1>2
<1>5. ASSUME NEW m \in 0..L
      PROVE  LittleEndian(Digits(u, p, Len(s) + m), PayloadBits) = v % 2^(PayloadBits * m)
  <2> DEFINE d == Digits(u, p, Len(s) + m)
  <2>1. (Len(s) + m) - p + 1 = m /\ m \in Nat
    BY <1>2
  <2>2. d = [i \in 1..m |-> Payload(u[p + i - 1])]
    BY <2>1 DEF Digits
  <2> HIDE DEF d
  <2>3. Len(d) = m
    BY <2>1, <2>2
  <2>4. ASSUME NEW i \in 1..m
        PROVE  d[i] = (v \div 2^(PayloadBits * (i - 1))) % 2^PayloadBits
    <3>1. i \in 1..L /\ p + i - 1 = Len(s) + i
      BY <1>1, <1>2
    <3>2. u[p + i - 1] = w[i]
      BY <1>2, <3>1
    <3> QED BY <1>1, <2>2, <3>1, <3>2
  <2>5. v \in Nat /\ PayloadBits \in Nat /\ PayloadBits <= 2 * ValueBits
    BY Widths DEF Unsigned
  <2>6. PayloadBits * m <= 2 * ValueBits
    <3>1. PayloadBits * L = PayloadBits * (L - 1) + PayloadBits /\ PayloadBits * (L - 1) \in Nat
      BY <1>1, Widths
    <3>2. PayloadBits * L <= 2 * ValueBits
      BY <1>1, <3>1, Widths
    <3>3. \A x, y, z \in Nat : x <= y => z * x <= z * y /\ z * x \in Nat /\ z * y \in Nat
      OBVIOUS
    <3>4. PayloadBits * m <= PayloadBits * L /\ PayloadBits * m \in Nat
          /\ PayloadBits * L \in Nat
      BY <1>1, <2>5, <3>3
    <3> QED BY <3>2, <3>4, Widths
  <2>7. LittleEndian(d, PayloadBits) = v % 2^(PayloadBits * Len(d))
    BY <2>1, <2>3, <2>4, <2>5, <2>6, DigitsWorth
  <2> QED BY <2>3, <2>7 DEF d
<1>6. PICK low : low = LittleEndian(Digits(u, p, q - 1), PayloadBits)
  OBVIOUS
<1>7. low = v % 2^sh /\ 2^sh \in Nat \ {0} /\ sh < ValueBits
  <2>1. L - 1 \in 0..L /\ Len(s) + (L - 1) = q - 1 /\ L - 1 \in Nat
    BY <1>1, <1>2
  <2>2. low = v % 2^(PayloadBits * (L - 1))
    BY <1>5, <1>6, <2>1
  <2>3. 2^(PayloadBits * (L - 1)) \in Nat \ {0}
    BY <1>1, <2>1, VarintPowers
  <2> QED BY <1>1, <1>4, <2>2, <2>3
<1>8. low \in Nat /\ low < 2^sh
  <2>1. PICK y \in Nat \ {0} : y = 2^sh
    BY <1>7
  <2>2. v \in Nat
    BY Widths DEF Unsigned
  <2>3. (v % y) \in Nat /\ (v % y) < y
    BY <2>2
  <2> QED BY <1>7, <2>1, <2>3
<1>9. /\ u[q] = w[L] /\ ~More(u[q]) /\ ~Overlong(u[q], sh)
      /\ \A i \in p..(q - 1) : More(u[i])
  <2>1. L \in 1..L /\ ~(L < L)
    BY <1>1
  <2>2. u[q] = w[L] /\ ~More(w[L])
    BY <1>1, <1>2, <2>1
  <2>3. ASSUME NEW i \in p..(q - 1) PROVE More(u[i])
    <3>1. i - Len(s) \in 1..L /\ i - Len(s) < L /\ Len(s) + (i - Len(s)) = i
      BY <1>1, <1>2
    <3> QED BY <1>1, <1>2, <3>1
  <2> QED BY <1>3, <1>4, <2>2, <2>3
<1>10. LittleEndian(Digits(u, p, q), PayloadBits) = v
  <2>1. LittleEndian(Digits(u, p, q), PayloadBits) = v % 2^(PayloadBits * L)
    BY <1>1, <1>5
  <2>2. v \in Nat /\ 2^(PayloadBits * L) \in Nat \ {0}
    <3>1. L - 1 \in Nat /\ (L - 1) + 1 = L
      BY <1>1
    <3>2. 2^(PayloadBits * ((L - 1) + 1)) \in Nat \ {0}
      BY <1>1, <3>1, VarintPowers
    <3> QED BY <3>1, <3>2, Widths DEF Unsigned
  <2>3. PICK y \in Nat \ {0} : y = 2^(PayloadBits * L)
    BY <2>2
  <2>4. v < y => (v % y) = v
    BY <2>2
  <2> QED BY <1>1, <2>1, <2>3, <2>4
<1>11. ReadVarint(u, p) = [is |-> "read", next |-> q + 1, value |-> Accumulate(low, u[q], sh)]
       /\ Accumulate(low, u[q], sh) = LittleEndian(Digits(u, p, q), PayloadBits)
  <2> HIDE DEF p, q
  <2> QED BY <1>2, <1>4, <1>6, <1>7, <1>8, <1>9, VarintReads
<1>12. ReadVarint(u, p) = [is |-> "read", next |-> Len(s) + L + 1, value |-> v]
  BY <1>4, <1>10, <1>11
<1> QED BY <1>12 DEF u, w, L

-----------------------------------------------------------------------------
(* Events one after the other *)

\* Events may be put together, and no events change nothing.
LEMMA EventsJoin ==
  ASSUME NEW a, NEW b, IsSequence(a), IsSequence(b)
  PROVE  IsSequence(a \o b) /\ a \o <<>> = a /\ <<>> \o a = a
<1>1. PICK A, B : a \in Seq(A) /\ b \in Seq(B)
  BY DEF IsSequence
<1>2. PICK E : E = A \cup B
  OBVIOUS
<1>3. a \in Seq(E) /\ b \in Seq(E)
  BY <1>1, <1>2
<1>4. a \o b \in Seq(E) /\ a \o <<>> = a /\ <<>> \o a = a
  BY <1>3, ConcatProperties, ConcatEmptySeq
<1> QED BY <1>4 DEF IsSequence

\* Named, so that a prover finds the instance it needs.
SameEvents(a, b, c) == (a \o b) \o c = a \o (b \o c)

\* In whichever order they are put together.
LEMMA EventsRegroup ==
  ASSUME NEW a, NEW b, NEW c, IsSequence(a), IsSequence(b), IsSequence(c)
  PROVE  SameEvents(a, b, c)
<1>1. PICK A, B, C : a \in Seq(A) /\ b \in Seq(B) /\ c \in Seq(C)
  BY DEF IsSequence
<1>2. PICK E : E = A \cup B \cup C
  OBVIOUS
<1>3. a \in Seq(E) /\ b \in Seq(E) /\ c \in Seq(E)
  BY <1>1, <1>2
<1> QED BY <1>3, ConcatAssociative DEF SameEvents

\* An event by itself.
LEMMA EventOne ==
  ASSUME NEW a, IsSequence(a), NEW e
  PROVE  IsSequence(<<e>>) /\ Append(a, e) = a \o <<e>>
<1>1. PICK A : a \in Seq(A)
  BY DEF IsSequence
<1>2. PICK E : E = A \cup {e}
  OBVIOUS
<1>3. a \in Seq(E) /\ e \in E /\ <<e>> \in Seq(E)
  BY <1>1, <1>2
<1>4. Append(a, e) = a \o <<e>>
  BY <1>3, AppendIsConcat
<1> QED BY <1>3, <1>4 DEF IsSequence

-----------------------------------------------------------------------------
(* What some bytes add to a reading *)

\* Read after any message with nest1 sequences open that goes on with the item a1,
\* the bytes w are these events more, and what follows goes on with a2, nest2 open.
Adds(w, nest1, a1, nest2, a2, more) ==
  \A s \in Seq(Bytes) : \A events : IsSequence(events) =>
    \A n \in 0..Len(s) :
      ReadingIs(s, n, At(Len(s) + 1, nest1, a1, events)) =>
        \E m \in 0..Len(s \o w) :
          ReadingIs(s \o w, m, At(Len(s \o w) + 1, nest2, a2, events \o more))

\* No bytes add nothing.
LEMMA AddsNothing ==
  ASSUME NEW nest, NEW a
  PROVE  Adds(<<>>, nest, a, nest, a, <<>>)
<1> SUFFICES ASSUME NEW s \in Seq(Bytes), NEW events, IsSequence(events), NEW n \in 0..Len(s),
                    ReadingIs(s, n, At(Len(s) + 1, nest, a, events))
             PROVE  \E m \in 0..Len(s \o <<>>) :
                      ReadingIs(s \o <<>>, m,
                                At(Len(s \o <<>>) + 1, nest, a, events \o <<>>))
  BY DEF Adds
<1>1. s \o <<>> = s
  BY ConcatEmptySeq
<1>2. events \o <<>> = events
  BY EventsJoin
<1> QED BY <1>1, <1>2

\* What bytes add, then what the bytes after them add.
LEMMA AddsThen ==
  ASSUME NEW v \in Seq(Bytes), NEW w \in Seq(Bytes), NEW nest1, NEW a1, NEW nest2, NEW a2,
         NEW nest3, NEW a3, NEW e, NEW f, IsSequence(e), IsSequence(f),
         Adds(v, nest1, a1, nest2, a2, e), Adds(w, nest2, a2, nest3, a3, f)
  PROVE  Adds(v \o w, nest1, a1, nest3, a3, e \o f)
<1> SUFFICES ASSUME NEW s \in Seq(Bytes), NEW events, IsSequence(events), NEW n \in 0..Len(s),
                    ReadingIs(s, n, At(Len(s) + 1, nest1, a1, events))
             PROVE  \E m \in 0..Len(s \o (v \o w)) :
                      ReadingIs(s \o (v \o w), m,
                                At(Len(s \o (v \o w)) + 1, nest3, a3, events \o (e \o f)))
  BY DEF Adds
<1>1. PICK z \in Seq(Bytes) : z = s \o v
  BY ConcatProperties
<1>2. PICK m \in 0..Len(z) : ReadingIs(z, m, At(Len(z) + 1, nest2, a2, events \o e))
  BY <1>1 DEF Adds
<1>3. PICK g : g = events \o e
  OBVIOUS
<1>4. IsSequence(g) /\ ReadingIs(z, m, At(Len(z) + 1, nest2, a2, g))
  BY <1>2, <1>3, EventsJoin
<1>5. PICK k \in 0..Len(z \o w) : ReadingIs(z \o w, k, At(Len(z \o w) + 1, nest3, a3, g \o f))
  BY <1>4 DEF Adds
<1>6. z \o w = s \o (v \o w)
  <2>1. (s \o v) \o w = s \o (v \o w)
    BY Assoc
  <2> QED BY <1>1, <2>1, Zenon
<1>7. g \o f = events \o (e \o f)
  <2>1. SameEvents(events, e, f)
    BY EventsRegroup
  <2> QED BY <1>3, <2>1, Zenon DEF SameEvents
<1> QED BY <1>5, <1>6, <1>7

\* Bytes that are one item.
LEMMA AddsItem ==
  ASSUME NEW w \in Seq(Bytes), w # <<>>, NEW nest1, NEW a1, NEW nest2, NEW a2, NEW more,
         \A s, t \in Seq(Bytes) : \A events : IsSequence(events) =>
           Item((s \o w) \o t, At(Len(s) + 1, nest1, a1, events))
             = At(Len(s) + Len(w) + 1, nest2, a2, events \o more)
  PROVE  Adds(w, nest1, a1, nest2, a2, more)
<1> SUFFICES ASSUME NEW s \in Seq(Bytes), NEW events, IsSequence(events), NEW n \in 0..Len(s),
                    ReadingIs(s, n, At(Len(s) + 1, nest1, a1, events))
             PROVE  \E m \in 0..Len(s \o w) :
                      ReadingIs(s \o w, m, At(Len(s \o w) + 1, nest2, a2, events \o more))
  BY DEF Adds
<1>1. PICK z : z = s \o w
  OBVIOUS
<1>2. PICK c : c = At(Len(s) + 1, nest1, a1, events)
  OBVIOUS
<1>3. PICK d : d = At(Len(s) + Len(w) + 1, nest2, a2, events \o more)
  OBVIOUS
<1>4. Len(w) > 0 /\ Len(z) = Len(s) + Len(w) /\ Len(s) \in Nat /\ Len(w) \in Nat
  BY <1>1, Followed, EmptySeq
<1>5. NextIs(z, c, d)
  BY <1>1, <1>2, <1>3 DEF NextIs
<1>6. z \in Seq(Bytes) /\ n + 1 \in 1..Len(z) /\ ReadingIs(z, n + 1, d)
  BY <1>1, <1>2, <1>4, <1>5, NextItem
<1>7. n + 1 \in 0..Len(z) /\ d = At(Len(z) + 1, nest2, a2, events \o more)
  BY <1>3, <1>4, <1>6
<1> QED BY <1>1, <1>6, <1>7

\* Bytes that are an item that is a varint.
LEMMA AddsVarint ==
  ASSUME NEW v \in Unsigned, NEW nest1, NEW a1, NEW nest2, NEW a2, NEW more,
         a1.is # "floats", a1.is # "payload",
         \A p, q, events : IsSequence(events) =>
           Read(At(p, nest1, a1, events), v, q) = At(q, nest2, a2, events \o more)
  PROVE  Adds(VarintOf[v], nest1, a1, nest2, a2, more)
<1> DEFINE w == VarintOf[v]
<1>1. w \in Seq(Bytes) /\ w # <<>> /\ Len(w) \in Nat \ {0}
  BY VarintTyped
<1>2. ASSUME NEW s \in Seq(Bytes), NEW t \in Seq(Bytes), NEW events, IsSequence(events)
      PROVE  Item((s \o w) \o t, At(Len(s) + 1, nest1, a1, events))
               = At(Len(s) + Len(w) + 1, nest2, a2, events \o more)
  <2> DEFINE u == (s \o w) \o t
             c == At(Len(s) + 1, nest1, a1, events)
  <2>1. ReadVarint(u, Len(s) + 1) = [is |-> "read", next |-> Len(s) + Len(w) + 1, value |-> v]
    BY VarintReadBack
  <2>2. Len(s) + 1 <= Len(u) /\ Len(s) \in Nat /\ Len(u) \in Nat
    <3> HIDE DEF w
    <3>1. Len(u) = Len(s) + Len(w) + Len(t) /\ Len(s) \in Nat /\ Len(t) \in Nat
      BY <1>1, Twofold
    <3> QED BY <1>1, <3>1
  <2>3. c.verdict = "none" /\ c.p = Len(s) + 1 /\ c.awaits = a1
    BY DEF At
  <2> HIDE DEF u, w, c
  <2>4. ~(c.p > Len(u))
    BY <2>2, <2>3
  <2>5. Item(u, c) = Varint(u, c)
    BY <2>3, <2>4 DEF Item
  <2>6. Varint(u, c) = Read(c, v, Len(s) + Len(w) + 1)
    BY <2>1, <2>3 DEF Varint
  <2>7. Read(c, v, Len(s) + Len(w) + 1)
          = At(Len(s) + Len(w) + 1, nest2, a2, events \o more)
    BY <1>2 DEF c
  <2> QED BY <2>5, <2>6, <2>7 DEF u, c
<1> HIDE DEF w
<1>3. Adds(w, nest1, a1, nest2, a2, more)
  BY <1>1, <1>2, AddsItem
<1> QED BY <1>3 DEF w

\* Parts each of which adds one event add them all.
LEMMA PartsAdd ==
  ASSUME NEW parts, Len(parts) \in Nat, \A i \in 1..Len(parts) : parts[i] \in Seq(Bytes),
         NEW nest, NEW a, NEW e,
         \A i \in 1..Len(parts) : Adds(parts[i], nest[i - 1], a[i - 1], nest[i], a[i], <<e[i]>>)
  PROVE  Adds(Concatenated(parts), nest[0], a[0], nest[Len(parts)], a[Len(parts)],
              [i \in 1..Len(parts) |-> e[i]])
<1> DEFINE N == Len(parts)
           P == Prefixes(parts)
           E(n) == [i \in 1..n |-> e[i]]
           S == {n \in Nat : n <= N =>
                   P[n] \in Seq(Bytes) /\ Adds(P[n], nest[0], a[0], nest[n], a[n], E(n))}
<1>1. Concatenated(parts) = P[N] /\ P[0] = <<>> /\ \A n \in 1..N : P[n] = P[n - 1] \o parts[n]
  BY ConcatenatedIs
<1> HIDE DEF P
<1>2. E(0) = <<>>
  OBVIOUS
<1>3. ASSUME NEW n \in Nat PROVE IsSequence(E(n)) /\ E(n + 1) = E(n) \o <<e[n + 1]>>
  <2>1. PICK D : D = {e[i] : i \in 1..(n + 1)}
    OBVIOUS
  <2>2. E(n) \in Seq(D) /\ E(n + 1) \in Seq(D) /\ Len(E(n)) = n /\ Len(E(n + 1)) = n + 1
        /\ e[n + 1] \in D
    BY <2>1
  <2>3. IsSequence(E(n))
    BY <2>2 DEF IsSequence
  <2>4. PICK z : z = Append(E(n), e[n + 1])
    OBVIOUS
  <2>5. z \in Seq(D) /\ Len(z) = n + 1 /\ \A i \in 1..(n + 1) : z[i] = e[i]
    BY <2>2, <2>4, AppendProperties
  <2>6. \A i \in 1..(n + 1) : E(n + 1)[i] = e[i]
    OBVIOUS
  <2>7. E(n + 1) = z
    <3> HIDE DEF E
    <3>1. \A i \in 1..Len(z) : E(n + 1)[i] = z[i]
      BY <2>5, <2>6
    <3> QED BY <2>2, <2>5, <3>1, SeqEqual
  <2> HIDE DEF E
  <2> QED BY <2>3, <2>4, <2>7, EventOne
<1> HIDE DEF E
<1>4. 0 \in S
  <2>1. <<>> \in Seq(Bytes)
    OBVIOUS
  <2>2. P[0] \in Seq(Bytes) /\ Adds(P[0], nest[0], a[0], nest[0], a[0], E(0))
    BY <1>1, <1>2, <2>1, AddsNothing
  <2> QED BY <2>2
<1>5. ASSUME NEW n \in Nat, n \in S PROVE n + 1 \in S
  <2> SUFFICES ASSUME n + 1 <= N
               PROVE  /\ P[n + 1] \in Seq(Bytes)
                      /\ Adds(P[n + 1], nest[0], a[0], nest[n + 1], a[n + 1], E(n + 1))
    OBVIOUS
  <2>1. n + 1 \in 1..N /\ (n + 1) - 1 = n /\ n <= N
    OBVIOUS
  <2>2. P[n] \in Seq(Bytes) /\ Adds(P[n], nest[0], a[0], nest[n], a[n], E(n))
    BY <1>5, <2>1
  <2>3. /\ parts[n + 1] \in Seq(Bytes)
        /\ Adds(parts[n + 1], nest[n], a[n], nest[n + 1], a[n + 1], <<e[n + 1]>>)
    BY <2>1
  <2>4. P[n + 1] = P[n] \o parts[n + 1]
    BY <1>1, <2>1
  <2>5. IsSequence(E(n)) /\ IsSequence(<<e[n + 1]>>) /\ E(n + 1) = E(n) \o <<e[n + 1]>>
    BY <1>3, EventOne
  <2>6. Adds(P[n] \o parts[n + 1], nest[0], a[0], nest[n + 1], a[n + 1], E(n) \o <<e[n + 1]>>)
    BY <2>2, <2>3, <2>5, AddsThen
  <2>7. P[n] \o parts[n + 1] \in Seq(Bytes)
    BY <2>2, <2>3, ConcatProperties
  <2> QED BY <2>4, <2>5, <2>6, <2>7
<1> HIDE DEF S
<1>6. N \in S
  BY <1>4, <1>5, Induction
<1>7. Adds(P[N], nest[0], a[0], nest[N], a[N], E(N))
  BY <1>6 DEF S
<1> QED BY <1>1, <1>7 DEF E

-----------------------------------------------------------------------------
(* What each piece of an encoding adds *)

\* A header of a value, a sequence that begins, and one that ends.
LEMMA HeaderAdds ==
  ASSUME NEW id \in Ids \cup {0}, NEW nest
  PROVE  /\ \A t \in WireTypes \cap (0..5) :
              Adds(Header(id, t), nest, AHeader, nest, Opened(id, t), <<>>)
         /\ "sequence" \in Features /\ nest # MaxDepth =>
              Adds(Header(id, T_SEQUENCE_START), nest, AHeader, nest + 1, AHeader,
                   <<[fn |-> "sequence_begin", id |-> id]>>)
         /\ "sequence" \in Features /\ nest # 0 =>
              Adds(Header(id, T_SEQUENCE_END), nest, AHeader, nest - 1, AHeader,
                   <<[fn |-> "sequence_end"]>>)
<1>1. AHeader.is = "header" /\ AHeader.is # "floats" /\ AHeader.is # "payload"
  BY DEF AHeader
<1>2. ASSUME NEW p, NEW events
      PROVE  /\ At(p, nest, AHeader, events).awaits.is = "header"
             /\ At(p, nest, AHeader, events).nest = nest
             /\ At(p, nest, AHeader, events).events = events
  BY <1>1 DEF At
<1>3. ~(id > ID_MAX)
  BY Ceilings DEF Ids
<1>4. ASSUME NEW t \in 0..7, NEW p, NEW q, NEW events
      PROVE  Read(At(p, nest, AHeader, events), id * 8 + t, q)
               = FieldHeader(At(p, nest, AHeader, events), id * 8 + t, q)
  BY <1>2 DEF Read
<1>5. ASSUME NEW t \in WireTypes \cap (0..5)
      PROVE  Adds(Header(id, t), nest, AHeader, nest, Opened(id, t), <<>>)
  <2>1. t \in 0..7 /\ t \in WireTypes /\ t # T_SEQUENCE_START /\ t # T_SEQUENCE_END
    BY DEF T_SEQUENCE_START, T_SEQUENCE_END
  <2>2. PICK v \in Unsigned : v = id * 8 + t /\ v \div 8 = id /\ v % 8 = t
    BY <2>1, HeaderFits
  <2>3. ASSUME NEW p, NEW q, NEW events, IsSequence(events)
        PROVE  Read(At(p, nest, AHeader, events), v, q)
                 = At(q, nest, Opened(id, t), events \o <<>>)
    <3>1. FieldHeader(At(p, nest, AHeader, events), v, q) = At(q, nest, Opened(id, t), events)
      BY <1>2, <1>3, <2>1, <2>2 DEF FieldHeader
    <3>2. <<>> \in Seq({}) /\ events \o <<>> = events
      BY <2>3, EventsJoin
    <3> QED BY <1>4, <2>1, <2>2, <3>1, <3>2
  <2>4. Adds(VarintOf[v], nest, AHeader, nest, Opened(id, t), <<>>)
    BY <1>1, <2>3, AddsVarint
  <2> QED BY <2>2, <2>4 DEF Header
<1>6. ASSUME "sequence" \in Features, nest # MaxDepth
      PROVE  Adds(Header(id, T_SEQUENCE_START), nest, AHeader, nest + 1, AHeader,
                  <<[fn |-> "sequence_begin", id |-> id]>>)
  <2> DEFINE t == T_SEQUENCE_START
             e == [fn |-> "sequence_begin", id |-> id]
  <2>1. t \in 0..7 /\ t \in WireTypes /\ t # T_SEQUENCE_END
    BY <1>6 DEF T_SEQUENCE_START, T_SEQUENCE_END, WireTypes
  <2>2. PICK v \in Unsigned : v = id * 8 + t /\ v \div 8 = id /\ v % 8 = t
    BY <2>1, HeaderFits
  <2>3. ASSUME NEW p, NEW q, NEW events, IsSequence(events)
        PROVE  Read(At(p, nest, AHeader, events), v, q)
                 = At(q, nest + 1, AHeader, events \o <<e>>)
    <3>1. FieldHeader(At(p, nest, AHeader, events), v, q)
            = At(q, nest + 1, AHeader, Append(events, e))
      BY <1>2, <1>3, <1>6, <2>1, <2>2 DEF FieldHeader
    <3>2. Append(events, e) = events \o <<e>>
      <4> HIDE DEF e
      <4> QED BY <2>3, EventOne
    <3> QED BY <1>4, <2>1, <2>2, <3>1, <3>2
  <2> HIDE DEF e, t
  <2>4. Adds(VarintOf[v], nest, AHeader, nest + 1, AHeader, <<e>>)
    BY <1>1, <2>3, AddsVarint
  <2> QED BY <2>2, <2>4 DEF Header, e, t
<1>7. ASSUME "sequence" \in Features, nest # 0
      PROVE  Adds(Header(id, T_SEQUENCE_END), nest, AHeader, nest - 1, AHeader,
                  <<[fn |-> "sequence_end"]>>)
  <2> DEFINE t == T_SEQUENCE_END
             e == [fn |-> "sequence_end"]
  <2>1. t \in 0..7 /\ t \in WireTypes /\ t # T_SEQUENCE_START
    BY <1>7 DEF T_SEQUENCE_START, T_SEQUENCE_END, WireTypes
  <2>2. PICK v \in Unsigned : v = id * 8 + t /\ v \div 8 = id /\ v % 8 = t
    BY <2>1, HeaderFits
  <2>3. ASSUME NEW p, NEW q, NEW events, IsSequence(events)
        PROVE  Read(At(p, nest, AHeader, events), v, q)
                 = At(q, nest - 1, AHeader, events \o <<e>>)
    <3>1. FieldHeader(At(p, nest, AHeader, events), v, q)
            = At(q, nest - 1, AHeader, Append(events, e))
      BY <1>2, <1>3, <1>7, <2>1, <2>2 DEF FieldHeader
    <3>2. Append(events, e) = events \o <<e>>
      <4> HIDE DEF e
      <4> QED BY <2>3, EventOne
    <3> QED BY <1>4, <2>1, <2>2, <3>1, <3>2
  <2> HIDE DEF e, t
  <2>4. Adds(VarintOf[v], nest, AHeader, nest - 1, AHeader, <<e>>)
    BY <1>1, <2>3, AddsVarint
  <2> QED BY <2>2, <2>4 DEF Header, e, t
<1> QED BY <1>5, <1>6, <1>7

\* An integer alone or of an array.
LEMMA IntegerAdds ==
  ASSUME NEW v \in Unsigned, NEW nest, NEW f, NEW k, NEW left
  PROVE  Adds(VarintOf[v], nest, Integers(f, k, left), nest, Others(Integers(f, k, left)),
              <<[fn |-> IntegerCall(k), id |-> f,
                 value |-> IF k = "Signed" THEN zigzag_decode(v) ELSE v]>>)
<1> DEFINE a == Integers(f, k, left)
           e == [fn |-> IntegerCall(k), id |-> f,
                 value |-> IF k = "Signed" THEN zigzag_decode(v) ELSE v]
<1>1. a.is = "integers" /\ a.is # "floats" /\ a.is # "payload" /\ a.id = f /\ a.kind = k
  BY DEF Integers
<1>2. ASSUME NEW p, NEW q, NEW events, IsSequence(events)
      PROVE  Read(At(p, nest, a, events), v, q) = At(q, nest, Others(a), events \o <<e>>)
  <2> DEFINE c == At(p, nest, a, events)
  <2>1. c.awaits = a /\ c.nest = nest /\ c.events = events
    BY DEF At
  <2> HIDE DEF c, a
  <2>2. Read(c, v, q) = Integer(c, v, q)
    BY <1>1, <2>1 DEF Read
  <2>3. Integer(c, v, q) = At(q, nest, Others(a), Append(events, e))
    BY <1>1, <2>1 DEF Integer
  <2>4. Append(events, e) = events \o <<e>>
    <3> HIDE DEF e
    <3> QED BY <1>2, EventOne
  <2> QED BY <2>2, <2>3, <2>4 DEF c
<1> HIDE DEF a, e
<1>3. Adds(VarintOf[v], nest, a, nest, Others(a), <<e>>)
  BY <1>1, <1>2, AddsVarint
<1> QED BY <1>3 DEF a, e

\* The count of an array, of integers and of floats.
LEMMA CountAdds ==
  ASSUME NEW data, Len(data) \in Unsigned, Len(data) <= ARRAY_MAX, NEW nest, NEW f
  PROVE  /\ \A k \in {"Unsigned", "Signed"} :
              Adds(CountOf(data), nest, ACount(f, k), nest,
                   IF Len(data) = 0 THEN AHeader ELSE Integers(f, k, Len(data)),
                   <<[fn |-> "array_begin", id |-> f, kind |-> k, count |-> Len(data)]>>)
         /\ Adds(CountOf(data), nest, ACount(f, "Fp32"), nest, AnArrayWord(f, Len(data)), <<>>)
<1>1. PICK v \in Unsigned : v = Len(data)
  OBVIOUS
<1>2. CountOf(data) = VarintOf[v] /\ ~(v > ARRAY_MAX)
  <2>1. v \in Nat
    BY Widths DEF Unsigned
  <2> QED BY <1>1, <2>1, Counted, Ceilings DEF CountOf
<1>3. ASSUME NEW k, NEW p, NEW events
      PROVE  LET c == At(p, nest, ACount(f, k), events)
             IN /\ c.awaits.is = "count" /\ c.awaits.id = f /\ c.awaits.kind = k
                /\ c.nest = nest /\ c.events = events
                /\ \A q : Read(c, v, q) = Count(c, v, q)
  <2> DEFINE c == At(p, nest, ACount(f, k), events)
  <2>1. /\ c.awaits.is = "count" /\ c.awaits.id = f /\ c.awaits.kind = k
        /\ c.nest = nest /\ c.events = events
    BY DEF At, ACount
  <2> HIDE DEF c
  <2>2. \A q : Read(c, v, q) = Count(c, v, q)
    BY <2>1 DEF Read
  <2> QED BY <2>1, <2>2 DEF c
<1>4. \A k : ACount(f, k).is = "count"
  BY DEF ACount
<1>5. ASSUME NEW k \in {"Unsigned", "Signed"}
      PROVE  Adds(VarintOf[v], nest, ACount(f, k), nest,
                  IF v = 0 THEN AHeader ELSE Integers(f, k, v),
                  <<[fn |-> "array_begin", id |-> f, kind |-> k, count |-> v]>>)
  <2> DEFINE a == ACount(f, k)
             b == IF v = 0 THEN AHeader ELSE Integers(f, k, v)
             e == [fn |-> "array_begin", id |-> f, kind |-> k, count |-> v]
  <2>1. ASSUME NEW p, NEW q, NEW events, IsSequence(events)
        PROVE  Read(At(p, nest, a, events), v, q) = At(q, nest, b, events \o <<e>>)
    <3> DEFINE c == At(p, nest, a, events)
    <3>1. /\ c.awaits.id = f /\ c.awaits.kind = k /\ c.nest = nest /\ c.events = events
          /\ Read(c, v, q) = Count(c, v, q)
      BY <1>3
    <3> HIDE DEF c, a
    <3>2. Count(c, v, q) = At(q, nest, b, Append(events, e))
      BY <1>2, <3>1 DEF Count
    <3>3. Append(events, e) = events \o <<e>>
      <4> HIDE DEF e
      <4> QED BY <2>1, EventOne
    <3> QED BY <3>1, <3>2, <3>3 DEF c
  <2>2. a.is # "floats" /\ a.is # "payload"
    BY <1>4
  <2> HIDE DEF a, b, e
  <2>3. Adds(VarintOf[v], nest, a, nest, b, <<e>>)
    BY <2>1, <2>2, AddsVarint
  <2> QED BY <2>3 DEF a, b, e
<1>6. Adds(VarintOf[v], nest, ACount(f, "Fp32"), nest, AnArrayWord(f, v), <<>>)
  <2> DEFINE a == ACount(f, "Fp32")
             b == AnArrayWord(f, v)
  <2>1. ASSUME NEW p, NEW q, NEW events, IsSequence(events)
        PROVE  Read(At(p, nest, a, events), v, q) = At(q, nest, b, events \o <<>>)
    <3> DEFINE c == At(p, nest, a, events)
    <3>1. /\ c.awaits.id = f /\ c.awaits.kind = "Fp32" /\ c.nest = nest /\ c.events = events
          /\ Read(c, v, q) = Count(c, v, q)
      BY <1>3
    <3> HIDE DEF c, a
    <3>2. Count(c, v, q) = At(q, nest, b, events)
      BY <1>2, <3>1 DEF Count
    <3>3. events \o <<>> = events
      BY <2>1, EventsJoin
    <3> QED BY <3>1, <3>2, <3>3 DEF c
  <2>2. a.is # "floats" /\ a.is # "payload"
    BY <1>4
  <2> HIDE DEF a, b
  <2>3. Adds(VarintOf[v], nest, a, nest, b, <<>>)
    BY <2>1, <2>2, AddsVarint
  <2> QED BY <2>3 DEF a, b
<1> QED BY <1>1, <1>2, <1>5, <1>6

\* A fixlen word that fits the value type names the length and the subtype.
LEMMA WordFits ==
  ASSUME NEW n \in Nat, n * 8 + 7 \in Unsigned, NEW t \in FixlenTypes
  PROVE  \E v \in Unsigned : /\ FixlenWordOf(n, t) = VarintOf[v]
                             /\ v \div 8 = n /\ SubtypeOf(v) = {t}
<1>1. t \in DOMAIN FixlenCode /\ FixlenCode[t] \in 0..7
  BY DEF FixlenTypes, FixlenCode
<1>2. PICK k \in 0..(8 - 1) : k = FixlenCode[t]
  BY <1>1
<1>3. PICK v : v = n * 8 + k
  OBVIOUS
<1>4. v \in Nat /\ v \in Unsigned
  BY <1>3, Widths DEF Unsigned
<1>5. v \div 8 = n /\ v % 8 = k
  BY <1>3, DivMod
<1>6. FixlenWordOf(n, t) = VarintOf[v]
  BY <1>2, <1>3, <1>4, Counted DEF FixlenWordOf
<1>7. t \in SubtypeOf(v)
  BY <1>2, <1>5 DEF SubtypeOf, from_raw
<1> QED BY <1>4, <1>5, <1>6, <1>7, OneSubtype

\* The word of an array of floats.
LEMMA ArrayWordAdds ==
  ASSUME NEW t \in FixlenTypes \cap {"Fp32", "Fp64"}, NEW n, NEW nest, NEW f,
         Width(t) * 8 + 7 \in Unsigned, Width(t) <= ARRAY_MAX
  PROVE  Adds(FixlenWordOf(Width(t), t), nest, AnArrayWord(f, n), nest,
              IF n = 0 THEN AHeader ELSE Floats(f, t, n),
              <<[fn |-> "array_begin", id |-> f, kind |-> t, count |-> n]>>)
<1> DEFINE a == AnArrayWord(f, n)
           b == IF n = 0 THEN AHeader ELSE Floats(f, t, n)
           e == [fn |-> "array_begin", id |-> f, kind |-> t, count |-> n]
<1>1. Width(t) \in Nat \ {0}
  BY FloatWidths
<1>2. PICK v \in Unsigned : /\ FixlenWordOf(Width(t), t) = VarintOf[v]
                            /\ v \div 8 = Width(t) /\ SubtypeOf(v) = {t}
  BY <1>1, WordFits
<1>3. a.is = "array word" /\ a.is # "floats" /\ a.is # "payload" /\ a.id = f /\ a.count = n
  BY DEF AnArrayWord
<1>4. ASSUME NEW p, NEW q, NEW events, IsSequence(events)
      PROVE  Read(At(p, nest, a, events), v, q) = At(q, nest, b, events \o <<e>>)
  <2> DEFINE c == At(p, nest, a, events)
             floats == {x \in SubtypeOf(v) : Width(x) # 0 /\ v \div 8 = Width(x)}
  <2>1. c.awaits = a /\ c.nest = nest /\ c.events = events
    BY DEF At
  <2>2. floats = {t} /\ (CHOOSE x \in {t} : TRUE) = t
    BY <1>1, <1>2
  <2>3. ~(v \div 8 > ARRAY_MAX)
    BY <1>1, <1>2, Ceilings
  <2> HIDE DEF c, a
  <2>4. Read(c, v, q) = ArrayWord(c, v, q)
    BY <1>3, <2>1 DEF Read
  <2>5. ArrayWord(c, v, q) =
          IF floats = {} \/ v \div 8 > ARRAY_MAX THEN Ended("InvalidMsg", c.events)
          ELSE At(q, c.nest, IF a.count = 0 THEN AHeader
                             ELSE Floats(a.id, CHOOSE x \in floats : TRUE, a.count),
                  Append(c.events, [fn |-> "array_begin", id |-> a.id,
                                    kind |-> CHOOSE x \in floats : TRUE, count |-> a.count]))
    BY <2>1 DEF ArrayWord
  <2> HIDE DEF floats
  <2>6. (CHOOSE x \in floats : TRUE) = t /\ floats # {}
    BY <2>2
  <2>7. ArrayWord(c, v, q) = At(q, nest, b, Append(events, e))
    BY <1>3, <2>1, <2>3, <2>5, <2>6
  <2>8. Append(events, e) = events \o <<e>>
    <3> HIDE DEF e
    <3> QED BY <1>4, EventOne
  <2> QED BY <2>4, <2>7, <2>8 DEF c
<1> HIDE DEF a, b, e
<1>5. Adds(VarintOf[v], nest, a, nest, b, <<e>>)
  BY <1>3, <1>4, AddsVarint
<1> QED BY <1>2, <1>5 DEF a, b, e

\* Two events, one after the other.
LEMMA OneAndOne ==
  ASSUME NEW x, NEW y
  PROVE  <<x>> \o <<y>> = <<x, y>>
<1> DEFINE S == {x, y}
           d == <<x>> \o <<y>>
           z == <<x, y>>
<1>1. <<x>> \in Seq(S) /\ <<y>> \in Seq(S) /\ z \in Seq(S)
  OBVIOUS
<1>2. Len(<<x>>) = 1 /\ Len(<<y>>) = 1 /\ Len(z) = 2 /\ z[1] = x /\ z[2] = y
      /\ <<x>>[1] = x /\ <<y>>[1] = y
  OBVIOUS
<1>3. d \in Seq(S) /\ Len(d) = 2
  BY <1>1, <1>2, ConcatProperties
<1>4. d[1] = x /\ d[2] = y
  BY <1>1, <1>2, ConcatProperties
<1> HIDE DEF d, z, S
<1>5. \A i \in 1..Len(d) : d[i] = z[i]
  BY <1>2, <1>3, <1>4
<1> QED BY <1>1, <1>2, <1>3, <1>5, SeqEqual DEF d, z

\* The word of one fixlen value: of a float, of a payload, of an empty payload.
LEMMA WordAdds ==
  ASSUME NEW t \in FixlenTypes, NEW n \in Nat, NEW nest, NEW f,
         n * 8 + 7 \in Unsigned, n <= ARRAY_MAX
  PROVE  LET begun == [fn |-> "fixlen_begin", id |-> f, subtype |-> t, total |-> n]
         IN /\ Width(t) # 0 /\ Width(t) = n =>
                 Adds(FixlenWordOf(n, t), nest, AWord(f), nest, Floats(f, t, 1), <<begun>>)
            /\ Width(t) = 0 /\ n # 0 =>
                 Adds(FixlenWordOf(n, t), nest, AWord(f), nest, APayload(f, t, n), <<begun>>)
            /\ Width(t) = 0 /\ n = 0 =>
                 Adds(FixlenWordOf(n, t), nest, AWord(f), nest, AHeader,
                      <<begun, PayloadEvent(APayload(f, t, 0), <<>>)>>)
<1> DEFINE a == AWord(f)
           e == [fn |-> "fixlen_begin", id |-> f, subtype |-> t, total |-> n]
           g == PayloadEvent(APayload(f, t, 0), <<>>)
<1>1. PICK v \in Unsigned : /\ FixlenWordOf(n, t) = VarintOf[v]
                            /\ v \div 8 = n /\ SubtypeOf(v) = {t}
  BY WordFits
<1>2. a.is = "word" /\ a.is # "floats" /\ a.is # "payload" /\ a.id = f
  BY DEF AWord
<1>3. (CHOOSE x \in {t} : TRUE) = t
  OBVIOUS
<1>4. ASSUME NEW p, NEW q, NEW events, IsSequence(events), Width(t) \in {0, n}
      PROVE  Read(At(p, nest, a, events), v, q) =
               IF Width(t) # 0 THEN At(q, nest, Floats(f, t, 1), events \o <<e>>)
               ELSE IF n # 0 THEN At(q, nest, APayload(f, t, n), events \o <<e>>)
               ELSE At(q, nest, AHeader, events \o <<e, g>>)
  <2> DEFINE c == At(p, nest, a, events)
  <2>1. c.awaits.is = "word" /\ c.awaits.id = f /\ c.nest = nest /\ c.events = events
    BY <1>2 DEF At
  <2> HIDE DEF c, a, e, g
  <2>2. Read(c, v, q) = Word(c, v, q)
    BY <2>1 DEF Read
  <2>3. Append(events, e) = events \o <<e>> /\ IsSequence(<<e>>)
    BY <1>4, EventOne
  <2>4. Append(Append(events, e), g) = events \o <<e, g>>
    <3>1. Append(events \o <<e>>, g) = (events \o <<e>>) \o <<g>> /\ IsSequence(<<g>>)
      BY <1>4, <2>3, EventOne, EventsJoin
    <3>2. SameEvents(events, <<e>>, <<g>>)
      BY <1>4, <2>3, <3>1, EventsRegroup
    <3>3. <<e>> \o <<g>> = <<e, g>>
      BY OneAndOne
    <3> QED BY <2>3, <3>1, <3>2, <3>3, Zenon DEF SameEvents
  <2>5. ~(n > ARRAY_MAX) /\ ~(SubtypeOf(v) = {}) /\ ~(Width(t) \notin {0, n})
    BY <1>1, <1>4, Ceilings
  <2>6. Word(c, v, q) =
          IF Width(t) # 0 THEN At(q, nest, Floats(f, t, 1), Append(events, e))
          ELSE IF n # 0 THEN At(q, nest, APayload(f, t, n), Append(events, e))
          ELSE At(q, nest, AHeader, Append(Append(events, e), g))
    BY <1>1, <1>3, <2>1, <2>5 DEF Word, e, g
  <2> QED BY <2>2, <2>3, <2>4, <2>6 DEF c
<1> HIDE DEF a, e, g
<1>5. ASSUME Width(t) # 0, Width(t) = n
      PROVE  Adds(VarintOf[v], nest, a, nest, Floats(f, t, 1), <<e>>)
  BY <1>2, <1>4, <1>5, AddsVarint
<1>6. ASSUME Width(t) = 0, n # 0
      PROVE  Adds(VarintOf[v], nest, a, nest, APayload(f, t, n), <<e>>)
  BY <1>2, <1>4, <1>6, AddsVarint
<1>7. ASSUME Width(t) = 0, n = 0
      PROVE  Adds(VarintOf[v], nest, a, nest, AHeader, <<e, g>>)
  BY <1>2, <1>4, <1>7, AddsVarint
<1> QED BY <1>1, <1>5, <1>6, <1>7 DEF a, e, g

\* The bytes in the middle, cut out again.
LEMMA Middle ==
  ASSUME NEW s \in Seq(Bytes), NEW w \in Seq(Bytes), NEW t \in Seq(Bytes)
  PROVE  SubSeq((s \o w) \o t, Len(s) + 1, Len(s) + Len(w)) = w
<1> DEFINE u == (s \o w) \o t
           d == SubSeq(u, Len(s) + 1, Len(s) + Len(w))
<1>1. /\ u \in Seq(Bytes) /\ Len(s) \in Nat /\ Len(w) \in Nat /\ Len(t) \in Nat
      /\ Len(u) = Len(s) + Len(w) + Len(t)
      /\ \A i \in 1..Len(w) : u[Len(s) + i] = w[i]
  BY Twofold
<1> HIDE DEF u
<1>2. \A i \in (Len(s) + 1)..(Len(s) + Len(w)) : u[i] \in Bytes
  BY <1>1, ElementOfSeq
<1>3. /\ d \in Seq(Bytes)
      /\ Len(d) = IF Len(s) + 1 <= Len(s) + Len(w)
                    THEN Len(s) + Len(w) - (Len(s) + 1) + 1 ELSE 0
      /\ \A i \in 1..(Len(s) + Len(w) - (Len(s) + 1) + 1) : d[i] = u[Len(s) + 1 + i - 1]
  <2>1. Len(s) + 1 \in Int /\ Len(s) + Len(w) \in Int
    BY <1>1
  <2> QED BY <1>2, <2>1, SubSeqProperties
<1> HIDE DEF d
<1>4. Len(d) = Len(w)
  BY <1>1, <1>3
<1>5. \A i \in 1..Len(d) : d[i] = w[i]
  <2> SUFFICES ASSUME NEW i \in 1..Len(w) PROVE d[i] = w[i]
    BY <1>4
  <2>1. i \in 1..(Len(s) + Len(w) - (Len(s) + 1) + 1) /\ Len(s) + 1 + i - 1 = Len(s) + i
    BY <1>1
  <2> QED BY <1>1, <1>3, <2>1
<1>6. d = w
  BY <1>3, <1>4, <1>5, SeqEqual
<1> QED BY <1>6 DEF d, u

\* A float alone or of an array: it has the value of its bytes.
LEMMA FloatBytesAdd ==
  ASSUME NEW t \in {"Fp32", "Fp64"}, NEW w \in Seq(Bytes), Len(w) = Width(t),
         NEW nest, NEW f, NEW left
  PROVE  Adds(w, nest, Floats(f, t, left), nest, Others(Floats(f, t, left)),
              <<[fn |-> FloatCall(t), id |-> f, value |-> LittleEndian(w, ByteBits)]>>)
<1> DEFINE a == Floats(f, t, left)
           e == [fn |-> FloatCall(t), id |-> f, value |-> LittleEndian(w, ByteBits)]
<1>1. Len(w) = Width(t) /\ Width(t) \in Nat \ {0}
  BY FloatWidths
<1>2. e = [fn |-> FloatCall(t), id |-> f, value |-> LittleEndian(w, ByteBits)]
  OBVIOUS
<1>3. a.is = "floats" /\ a.id = f /\ a.kind = t
  BY DEF Floats
<1> HIDE DEF a
<1>4. ASSUME NEW s \in Seq(Bytes), NEW z \in Seq(Bytes), NEW events, IsSequence(events)
      PROVE  Item((s \o w) \o z, At(Len(s) + 1, nest, a, events))
               = At(Len(s) + Len(w) + 1, nest, Others(a), events \o <<e>>)
  <2> DEFINE u == (s \o w) \o z
             c == At(Len(s) + 1, nest, a, events)
  <2>1. c.verdict = "none" /\ c.p = Len(s) + 1 /\ c.awaits = a /\ c.nest = nest
        /\ c.events = events
    BY DEF At
  <2>2. SubSeq(u, Len(s) + 1, Len(s) + Len(w)) = w
    BY <1>1, Middle
  <2>3. Len(u) = Len(s) + Len(w) + Len(z) /\ Len(s) \in Nat /\ Len(z) \in Nat
    BY <1>1, Twofold
  <2> HIDE DEF c, u
  <2>4. Item(u, c) = Float(u, c)
    BY <1>3, <2>1 DEF Item
  <2>5. c.p + Width(t) = Len(s) + Len(w) + 1 /\ (c.p + Width(t)) - 1 = Len(s) + Len(w)
        /\ ~(Len(u) < (c.p + Width(t)) - 1)
    <3>1. PICK n \in Nat : n = Len(w) /\ n = Width(t)
      BY <1>1
    <3>2. PICK k \in Nat : k = Len(s)
      BY <2>3
    <3>3. PICK j \in Nat : j = Len(z)
      BY <2>3
    <3>4. Len(u) = k + n + j /\ c.p = k + 1
      BY <2>1, <2>3, <3>1, <3>2, <3>3
    <3>5. /\ c.p + n = k + n + 1
          /\ (c.p + n) - 1 = k + n
          /\ ~(Len(u) < (c.p + n) - 1)
      BY <3>4
    <3> QED BY <3>1, <3>2, <3>5
  <2>6. Float(u, c) = At(Len(s) + Len(w) + 1, nest, Others(a), Append(events, e))
    BY <1>2, <1>3, <2>1, <2>2, <2>5 DEF Float
  <2>7. Append(events, e) = events \o <<e>>
    <3> HIDE DEF e
    <3> QED BY <1>4, EventOne
  <2> QED BY <2>4, <2>6, <2>7 DEF c, u
<1> HIDE DEF e
<1>5. w # <<>>
  BY <1>1, EmptySeq
<1>6. Adds(w, nest, a, nest, Others(a), <<e>>)
  BY <1>1, <1>4, <1>5, AddsItem
<1> QED BY <1>6 DEF a, e

\* The bytes of a float's bits are worth its bits.
LEMMA FloatWorth ==
  ASSUME NEW t \in {"Fp32", "Fp64"}, NEW bits \in BitsOf(t)
  PROVE  LittleEndian(LeBytes(bits, Width(t)), ByteBits) = bits
<1> DEFINE w == LeBytes(bits, Width(t))
<1>1. w \in Seq(Bytes) /\ Len(w) = Width(t) /\ Width(t) \in Nat \ {0} /\ bits \in Nat
      /\ ByteBits * Width(t) \in 0..(2 * ValueBits)
  BY LeBytesTyped, FloatWidths
<1>2. LittleEndian(w, ByteBits) = bits
  <2>1. \A i \in 1..Len(w) : w[i] = (bits \div 2^(ByteBits * (i - 1))) % 2^ByteBits
    <3>1. w = [i \in 1..Width(t) |-> (bits \div 2^(ByteBits * (i - 1))) % 2^ByteBits]
      BY DEF LeBytes
    <3> HIDE DEF w
    <3> QED BY <1>1, <3>1
  <2> HIDE DEF w
  <2>2. LittleEndian(w, ByteBits) = bits % 2^(ByteBits * Width(t))
    <3>1. ByteBits \in Nat /\ ByteBits <= 2 * ValueBits /\ ByteBits * Len(w) <= 2 * ValueBits
          /\ Len(w) \in Nat
      BY <1>1, Widths
    <3>2. LittleEndian(w, ByteBits) = bits % 2^(ByteBits * Len(w))
      BY <1>1, <2>1, <3>1, DigitsWorth
    <3> QED BY <1>1, <3>2
  <2>3. PICK y \in Nat \ {0} : y = 2^(ByteBits * Width(t))
    BY <1>1, PowerAssumption
  <2>4. bits < y
    BY <1>1, <2>3 DEF BitsOf
  <2>5. (bits % y) = bits
    BY <1>1, <2>4
  <2> QED BY <2>2, <2>3, <2>5
<1> QED BY <1>2 DEF w

\* The bytes of a float in an array add the float, wherever the array stands.
LEMMA FloatAdds ==
  ASSUME NEW t \in {"Fp32", "Fp64"}, NEW bits \in BitsOf(t), NEW nest, NEW f, NEW left
  PROVE  Adds(LeBytes(bits, Width(t)), nest, Floats(f, t, left), nest,
              Others(Floats(f, t, left)),
              <<[fn |-> FloatCall(t), id |-> f, value |-> bits]>>)
<1> DEFINE w == LeBytes(bits, Width(t))
<1>1. w \in Seq(Bytes) /\ Len(w) = Width(t) /\ Width(t) \in Nat \ {0} /\ bits \in Nat
      /\ ByteBits * Width(t) \in 0..(2 * ValueBits)
  BY LeBytesTyped, FloatWidths
<1>2. LittleEndian(w, ByteBits) = bits
  BY FloatWorth
<1> HIDE DEF w
<1>3. Adds(w, nest, Floats(f, t, left), nest, Others(Floats(f, t, left)),
           <<[fn |-> FloatCall(t), id |-> f, value |-> LittleEndian(w, ByteBits)]>>)
  BY <1>1, FloatBytesAdd
<1> QED BY <1>2, <1>3 DEF w

\* The bytes of a payload.
LEMMA PayloadAdds ==
  ASSUME NEW data \in Seq(Bytes), data # <<>>, NEW nest, NEW f, NEW t
  PROVE  Adds(data, nest, APayload(f, t, Len(data)), nest, AHeader,
              <<PayloadEvent(APayload(f, t, Len(data)), data)>>)
<1> DEFINE a == APayload(f, t, Len(data))
           e == PayloadEvent(a, data)
<1>1. a.is = "payload" /\ a.total = Len(data) /\ a.is # "floats" /\ a.is # "header"
  BY DEF APayload
<1> HIDE DEF a
<1>2. Len(data) \in Nat \ {0}
  BY EmptySeq, LenProperties
<1>3. ASSUME NEW s \in Seq(Bytes), NEW z \in Seq(Bytes), NEW events, IsSequence(events)
      PROVE  Item((s \o data) \o z, At(Len(s) + 1, nest, a, events))
               = At(Len(s) + Len(data) + 1, nest, AHeader, events \o <<e>>)
  <2> DEFINE u == (s \o data) \o z
             c == At(Len(s) + 1, nest, a, events)
  <2>1. c.verdict = "none" /\ c.p = Len(s) + 1 /\ c.awaits = a /\ c.nest = nest
        /\ c.events = events
    BY DEF At
  <2>2. SubSeq(u, Len(s) + 1, Len(s) + Len(data)) = data
    BY Middle
  <2>3. Len(u) = Len(s) + Len(data) + Len(z) /\ Len(s) \in Nat /\ Len(z) \in Nat
    BY Twofold
  <2> HIDE DEF c, u, e
  <2>4. Item(u, c) = PayloadBytes(u, c)
    BY <1>1, <2>1 DEF Item
  <2>5. /\ c.p + Len(data) = Len(s) + Len(data) + 1
        /\ (c.p + Len(data)) - 1 = Len(s) + Len(data)
        /\ ~(Len(u) < (c.p + Len(data)) - 1) /\ ~(Len(u) < c.p)
    BY <1>2, <2>1, <2>3
  <2>6. PayloadBytes(u, c) = At(Len(s) + Len(data) + 1, nest, AHeader, Append(events, e))
    BY <1>1, <2>1, <2>2, <2>5 DEF PayloadBytes, e
  <2>7. Append(events, e) = events \o <<e>>
    BY <1>3, EventOne
  <2> QED BY <2>4, <2>6, <2>7 DEF c, u
<1> HIDE DEF e
<1>4. Adds(data, nest, a, nest, AHeader, <<e>>)
  BY <1>3, AddsItem
<1> QED BY <1>4 DEF a, e
=============================================================================
