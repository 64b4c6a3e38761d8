---------------------------- MODULE EncodersProofs ----------------------------
(****************************************************************************)
(* That an instruction decodes as what was asked for, for every mnemonic and  *)
(* every operand its class can hold.  The constructors of a class's hierarchy *)
(* write fields into one word, one after the other: After says what a         *)
(* sequence of them makes of a word, the sections below what it is for each    *)
(* class and that its decoder reads the operands back.                        *)
(****************************************************************************)
EXTENDS Encoders, SequenceTheorems, WellFoundedInduction, TLAPS

-----------------------------------------------------------------------------
(* What a sequence of setters makes of a word. *)

\* Whether a field, low bit and high bit and value, covers a bit.
Covers(f, b) == b \in f[1] .. f[2] - 1

\* Two to the power of n; opaque to the provers where the numeral is long.
Power(n) == 2^n

\* Whether the i-th bit of v is set.
Tests(v, i) == (v \div Power(i)) % 2 = 1

\* What is in w after all of s: at each bit, what the last setter that covers it writes.
After(w, s) ==
  {b \in w : \A j \in 1 .. Len(s) : ~Covers(s[j], b)}
  \cup {b \in Int : \E j \in 1 .. Len(s) : /\ Covers(s[j], b) /\ Tests(s[j][3], b - s[j][1])
                                            /\ \A m \in j + 1 .. Len(s) : ~Covers(s[m], b)}

\* What SetField is called with.
FieldSets == Int \X Int \X Int

\* No setter leaves the word as it is.
LEMMA AfterNone == ASSUME NEW w PROVE After(w, <<>>) = w
  BY DEF After

\* What setters make of a word, from the first one and the others.
LEMMA AfterFirst ==
  ASSUME NEW w, NEW s \in Seq(FieldSets), s # <<>>
  PROVE  After(w, s) = After(SetBits(w, s[1][1], s[1][2], s[1][3]), Tail(s))
<1> DEFINE u == SetBits(w, s[1][1], s[1][2], s[1][3])
<1>1. /\ Len(s) \in Nat \ {0} /\ Len(Tail(s)) = Len(s) - 1
      /\ \A j \in 1 .. Len(s) - 1 : Tail(s)[j] = s[j + 1]
      /\ \A j \in 1 .. Len(s) : s[j] \in FieldSets
  BY DEF FieldSets
<1>2. \A b : b \in u <=> IF Covers(s[1], b) THEN Tests(s[1][3], b - s[1][1]) ELSE b \in w
  BY <1>1 DEF SetBits, Covers, Tests, Power, FieldSets
<1>3. ASSUME NEW b PROVE b \in After(w, s) <=> b \in After(u, Tail(s))
  <2> HIDE DEF u
  <2>1. CASE \E j \in 2 .. Len(s) : Covers(s[j], b)
    <3>1. b \in Int
      BY <2>1, <1>1 DEF Covers, FieldSets
    <3>2. b \in After(w, s) <=> \E j \in 2 .. Len(s) : /\ Covers(s[j], b) /\ Tests(s[j][3], b - s[j][1])
                                            /\ \A m \in j + 1 .. Len(s) : ~Covers(s[m], b)
      BY <1>1, <2>1, <3>1 DEF After
    <3>3. b \in After(u, Tail(s)) => \E j \in 2 .. Len(s) : /\ Covers(s[j], b) /\ Tests(s[j][3], b - s[j][1])
                                            /\ \A m \in j + 1 .. Len(s) : ~Covers(s[m], b)
      <4> SUFFICES ASSUME b \in After(u, Tail(s))
                   PROVE  \E j \in 2 .. Len(s) : /\ Covers(s[j], b) /\ Tests(s[j][3], b - s[j][1])
                                            /\ \A m \in j + 1 .. Len(s) : ~Covers(s[m], b)
        OBVIOUS
      <4>1. ~ \A j \in 1 .. Len(Tail(s)) : ~Covers(Tail(s)[j], b)
        <5>1. PICK j \in 2 .. Len(s) : Covers(s[j], b)
          BY <2>1
        <5>2. j - 1 \in 1 .. Len(Tail(s)) /\ Tail(s)[j - 1] = s[j]
          BY <1>1
        <5>3. QED BY <5>1, <5>2
      <4>2. PICK j \in 1 .. Len(Tail(s)) : /\ Covers(Tail(s)[j], b) /\ Tests(Tail(s)[j][3], b - Tail(s)[j][1])
                                            /\ \A m \in j + 1 .. Len(Tail(s)) : ~Covers(Tail(s)[m], b)
        BY <4>1 DEF After
      <4>3. Tail(s)[j] = s[j + 1] /\ j + 1 \in 2 .. Len(s)
        BY <1>1
      <4>4. \A m \in j + 2 .. Len(s) : ~Covers(s[m], b)
        <5> TAKE m \in j + 2 .. Len(s)
        <5>1. m - 1 \in j + 1 .. Len(Tail(s)) /\ Tail(s)[m - 1] = s[m]
          BY <1>1
        <5>2. QED BY <5>1, <4>2
      <4>5. QED BY <4>2, <4>3, <4>4
    <3>4. ASSUME NEW j \in 2 .. Len(s), Covers(s[j], b), Tests(s[j][3], b - s[j][1]),
                 \A m \in j + 1 .. Len(s) : ~Covers(s[m], b)
          PROVE  b \in After(u, Tail(s))
      <4>1. PICK k \in 1 .. Len(Tail(s)) : k + 1 = j /\ Tail(s)[k] = s[j]
        BY <1>1
      <4>2. \A m \in k + 1 .. Len(Tail(s)) : ~Covers(Tail(s)[m], b)
        BY <1>1, <3>4, <4>1
      <4>3. Covers(Tail(s)[k], b) /\ Tests(Tail(s)[k][3], b - Tail(s)[k][1])
        BY <3>4, <4>1
      <4>4. QED BY <3>1, <4>2, <4>3 DEF After
    <3>5. QED BY <3>2, <3>3, <3>4
  <2>2. CASE \A j \in 2 .. Len(s) : ~Covers(s[j], b)
    <3>1. \A j \in 1 .. Len(Tail(s)) : ~Covers(Tail(s)[j], b)
      BY <1>1, <2>2
    <3>2. b \in After(u, Tail(s)) <=> b \in u
      BY <3>1 DEF After
    <3>3. Covers(s[1], b) => b \in Int
      BY <1>1 DEF Covers, FieldSets
    <3>4. b \in After(w, s) <=> IF Covers(s[1], b) THEN Tests(s[1][3], b - s[1][1]) ELSE b \in w
      BY <1>1, <2>2, <3>3 DEF After
    <3>5. QED BY <1>2, <3>2, <3>4
  <2>3. QED BY <2>1, <2>2
<1>4. QED BY <1>3

\* One setter is one call of SetField.
LEMMA AfterOne ==
  ASSUME NEW w, NEW a \in FieldSets
  PROVE  After(w, <<a>>) = SetBits(w, a[1], a[2], a[3])
  <1>1. <<a>> \in Seq(FieldSets) /\ <<a>> # <<>> /\ Tail(<<a>>) = <<>> /\ <<a>>[1] = a
    OBVIOUS
  <1>2. QED BY <1>1, AfterFirst, AfterNone

\* What the setters of two constructors make, from what each makes.
LEMMA AfterConcat ==
  ASSUME NEW w, NEW s \in Seq(FieldSets), NEW t \in Seq(FieldSets)
  PROVE  After(w, s \o t) = After(After(w, s), t)
<1>1. /\ Len(s \o t) = Len(s) + Len(t) /\ Len(s) \in Nat /\ Len(t) \in Nat
      /\ \A j \in 1 .. Len(s) : (s \o t)[j] = s[j]
      /\ \A j \in 1 .. Len(t) : (s \o t)[Len(s) + j] = t[j]
  OBVIOUS
<1>t. \A j \in 1 .. Len(s) + Len(t) : j \in 1 .. Len(s) \/ (j - Len(s) \in 1 .. Len(t) /\ (s \o t)[j] = t[j - Len(s)])
  BY <1>1
<1>2. ASSUME NEW b PROVE b \in After(w, s \o t) <=> b \in After(After(w, s), t)
  <2> DEFINE Ends(q, j) == /\ Covers(q[j], b) /\ Tests(q[j][3], b - q[j][1])
                        /\ \A m \in j + 1 .. Len(q) : ~Covers(q[m], b)
  <2> SUFFICES ASSUME b \in Int \/ b \notin Int PROVE b \in After(w, s \o t) <=> b \in After(After(w, s), t)
    OBVIOUS
  <2>1. \A q, v : b \in After(v, q) <=> \/ b \in v /\ \A j \in 1 .. Len(q) : ~Covers(q[j], b)
                                        \/ b \in Int /\ \E j \in 1 .. Len(q) : Ends(q, j)
    BY DEF After
  <2>2. CASE \E j \in 1 .. Len(t) : Covers(t[j], b)
    <3>1. \E j \in 1 .. Len(s \o t) : Covers((s \o t)[j], b)
      BY <1>1, <2>2
    <3>2. ASSUME NEW j \in 1 .. Len(t), Ends(t, j)
          PROVE  Ends(s \o t, Len(s) + j) /\ Len(s) + j \in 1 .. Len(s \o t)
      <4>1. \A m \in Len(s) + j + 1 .. Len(s) + Len(t) : ~Covers((s \o t)[m], b)
        <5> TAKE m \in Len(s) + j + 1 .. Len(s) + Len(t)
        <5>1. m - Len(s) \in j + 1 .. Len(t) /\ (s \o t)[m] = t[m - Len(s)]
          BY <1>1, <1>t
        <5>2. QED BY <5>1, <3>2
      <4>2. QED BY <1>1, <3>2, <4>1
    <3>3. ASSUME NEW j \in 1 .. Len(s \o t), Ends(s \o t, j) PROVE \E k \in 1 .. Len(t) : Ends(t, k)
      <4>1. PICK i \in 1 .. Len(t) : Covers(t[i], b)
        BY <2>2
      <4>2. j >= Len(s) + i
        BY <1>1, <3>3, <4>1
      <4>3. j - Len(s) \in 1 .. Len(t) /\ (s \o t)[j] = t[j - Len(s)]
        BY <1>1, <1>t, <4>2
      <4>4. \A m \in j - Len(s) + 1 .. Len(t) : ~Covers(t[m], b)
        <5> TAKE m \in j - Len(s) + 1 .. Len(t)
        <5>1. Len(s) + m \in j + 1 .. Len(s \o t) /\ (s \o t)[Len(s) + m] = t[m]
          BY <1>1, <4>3
        <5>2. QED
          BY <3>3, <5>1
      <4>5. QED BY <3>3, <4>3, <4>4
    <3> HIDE DEF Ends
    <3>4. QED BY <2>1, <2>2, <3>1, <3>2, <3>3
  <2>3. CASE \A j \in 1 .. Len(t) : ~Covers(t[j], b)
    <3>1. b \in After(After(w, s), t) <=> b \in After(w, s)
      BY <2>3 DEF After
    <3>2. (\A j \in 1 .. Len(s \o t) : ~Covers((s \o t)[j], b)) <=> (\A j \in 1 .. Len(s) : ~Covers(s[j], b))
      BY <1>1, <1>t, <2>3
    <3>3. ASSUME NEW j \in 1 .. Len(s), Ends(s, j) PROVE Ends(s \o t, j) /\ j \in 1 .. Len(s \o t)
      BY <1>1, <1>t, <2>3, <3>3
    <3>4. ASSUME NEW j \in 1 .. Len(s \o t), Ends(s \o t, j) PROVE Ends(s, j) /\ j \in 1 .. Len(s)
      <4>1. j \in 1 .. Len(s)
        BY <1>1, <1>t, <2>3, <3>4
      <4>2. QED BY <1>1, <3>4, <4>1
    <3> HIDE DEF Ends
    <3>5. QED BY <2>1, <3>1, <3>2, <3>3, <3>4
  <2>4. QED BY <2>2, <2>3
<1>3. QED BY <1>2

-----------------------------------------------------------------------------
(* Sets of numbers. *)

\* A set of natural numbers that is not empty has a least one.
LEMMA SetHasMin ==
  ASSUME NEW S \in SUBSET Nat, S # {}
  PROVE  \E m \in S : \A n \in S : m <= n
<1> DEFINE R == OpToRel(<, Nat)
<1>1. IsWellFoundedOn(R, Nat)
  BY NatLessThanWellFounded
<1>2. PICK m \in S : \A n \in S : ~ (<<n, m>> \in R)
  <2> HIDE DEF R
  <2> QED BY <1>1, WFMin
<1>3. \A n \in S : m <= n
  <2> TAKE n \in S
  <2>1. ~ (n < m)
    BY <1>2 DEF OpToRel
  <2> QED BY <2>1
<1> QED BY <1>2, <1>3

-----------------------------------------------------------------------------
(* Quotients and remainders. *)

\* A number from its quotient and its remainder, named.
LEMMA Divided ==
  ASSUME NEW v \in Int, NEW p \in Nat \ {0}
  PROVE  \E c \in Int, r \in 0 .. p - 1 : c = v \div p /\ r = v % p /\ v = p * c + r
<1>1. v \div p \in Int /\ v % p \in 0 .. p - 1
  OBVIOUS
<1>2. v = p * (v \div p) + (v % p)
  BY Z3
<1>3. QED
  BY <1>1, <1>2

\* A positive multiple is no smaller than what it is a multiple of.
LEMMA AtLeastOnce ==
  ASSUME NEW p \in Nat \ {0}, NEW a \in Int, a >= 1
  PROVE  p * a >= p
  OBVIOUS

\* There is one quotient and one remainder.
LEMMA DivUnique ==
  ASSUME NEW v \in Int, NEW p \in Nat \ {0}, NEW c \in Int, NEW r \in 0 .. p - 1, v = p * c + r
  PROVE  v \div p = c /\ v % p = r
<1>1. PICK d \in Int, s \in 0 .. p - 1 : d = v \div p /\ s = v % p /\ v = p * d + s
  BY Divided
<1>2. p * (c - d) = s - r /\ p * (d - c) = r - s
  BY <1>1
<1>3. ~(c - d >= 1)
  <2>1. c - d >= 1 => p * (c - d) >= p
    BY AtLeastOnce
  <2>2. QED
    BY <1>1, <1>2, <2>1
<1>4. ~(d - c >= 1)
  <2>1. d - c >= 1 => p * (d - c) >= p
    BY AtLeastOnce
  <2>2. QED
    BY <1>1, <1>2, <2>1
<1>5. c = d
  BY <1>1, <1>3, <1>4
<1>6. QED
  BY <1>1, <1>5

\* v \div (2 p) and v % (2 p) from the quotient by p, both ways.
LEMMA DivTwice ==
  ASSUME NEW v \in Int, NEW p \in Nat \ {0}
  PROVE  v \div (2 * p) = (v \div p) \div 2
<1>1. PICK c \in Int, r \in 0 .. p - 1 : c = v \div p /\ r = v % p /\ v = p * c + r
  BY Divided
<1>2. PICK d \in Int, s \in 0 .. 1 : d = c \div 2 /\ c = 2 * d + s
  <2>1. c \div 2 \in Int /\ c % 2 \in 0 .. 1 /\ c = 2 * (c \div 2) + (c % 2)
    BY <1>1
  <2>2. QED BY <2>1
<1>3. p * c = (2 * p) * d + p * s
  BY <1>1, <1>2
<1>4. p * s + r \in 0 .. 2 * p - 1
  <2>1. CASE s = 0
    <3>1. p * s = 0
      BY <2>1
    <3>2. QED BY <3>1, <1>1
  <2>2. CASE s = 1
    <3>1. p * s = p
      BY <2>2
    <3>2. QED BY <3>1, <1>1
  <2>3. QED BY <2>1, <2>2, <1>2
<1>5. DEFINE t == p * s + r
<1>6. v = (2 * p) * d + t /\ t \in 0 .. 2 * p - 1 /\ 2 * p \in Nat \ {0}
  <2>1. v = (2 * p) * d + (p * s + r)
    BY <1>1, <1>3
  <2>2. QED BY <1>4, <2>1
<1>7. v \div (2 * p) = d
  <2> DEFINE q == 2 * p
  <2>1. v = q * d + t /\ t \in 0 .. q - 1 /\ q \in Nat \ {0}
    BY <1>6
  <2> HIDE DEF t, q
  <2>2. v \div q = d
    BY <2>1, <1>2, DivUnique
  <2>3. QED BY <2>2 DEF q
<1>8. QED
  BY <1>1, <1>2, <1>7

\* A remainder by twice q is its lowest bit and twice the remainder of the rest.
LEMMA ModTwice ==
  ASSUME NEW x \in Int, NEW q \in Nat \ {0}
  PROVE  x % (2 * q) = (x % 2) + 2 * ((x \div 2) % q)
<1>1. PICK h \in Int, e \in 0 .. 1 : h = x \div 2 /\ e = x % 2 /\ x = 2 * h + e
  <2>1. x \div 2 \in Int /\ x % 2 \in 0 .. 1 /\ x = 2 * (x \div 2) + (x % 2)
    OBVIOUS
  <2>2. QED BY <2>1
<1>2. PICK c \in Int, r \in 0 .. q - 1 : c = h \div q /\ r = h % q /\ h = q * c + r
  BY Divided
<1> DEFINE p == 2 * q
<1>3. x = p * c + (e + 2 * r)
  <2>1. p * c = 2 * (q * c)
    OBVIOUS
  <2>2. QED BY <1>1, <1>2, <2>1
<1>4. e + 2 * r \in 0 .. p - 1 /\ p \in Nat \ {0}
  BY <1>1, <1>2
<1> HIDE DEF p
<1>5. x % p = e + 2 * r
  <2> DEFINE t == e + 2 * r
  <2>1. x = p * c + t /\ t \in 0 .. p - 1 /\ p \in Nat \ {0} /\ c \in Int
    BY <1>3, <1>4
  <2> HIDE DEF t
  <2>2. x % p = t
    BY <2>1, DivUnique
  <2>3. QED BY <2>2 DEF t
<1>6. QED
  BY <1>1, <1>2, <1>5 DEF p

-----------------------------------------------------------------------------
(* Bits and numbers. *)

\* The powers of two that a word of 32 bits needs.
LEMMA Powers ==
  /\ Power(0) = 1 /\ Power(1) = 2 /\ Power(2) = 4 /\ Power(3) = 8
  /\ Power(4) = 16 /\ Power(5) = 32 /\ Power(6) = 64 /\ Power(7) = 128
  /\ Power(8) = 256 /\ Power(9) = 512 /\ Power(10) = 1024 /\ Power(11) = 2048
  /\ Power(12) = 4096 /\ Power(13) = 8192 /\ Power(14) = 16384 /\ Power(15) = 32768
  /\ Power(16) = 65536 /\ Power(17) = 131072 /\ Power(18) = 262144 /\ Power(19) = 524288
  /\ Power(20) = 1048576 /\ Power(21) = 2097152 /\ Power(22) = 4194304 /\ Power(23) = 8388608
  /\ Power(24) = 16777216 /\ Power(25) = 33554432 /\ Power(26) = 67108864 /\ Power(27) = 134217728
  /\ Power(28) = 268435456 /\ Power(29) = 536870912 /\ Power(30) = 1073741824 /\ Power(31) = 2147483648
  /\ Power(32) = 4294967296
  BY DEF Power

\* Each is twice the one before.
LEMMA PowerDoubles ==
  ASSUME NEW n \in 0 .. 31
  PROVE  Power(n + 1) = 2 * Power(n) /\ Power(n) \in Nat \ {0}
<1>1. CASE n \in 0 .. 7
  BY <1>1, Powers
<1>2. CASE n \in 8 .. 15
  BY <1>2, Powers
<1>3. CASE n \in 16 .. 23
  BY <1>3, Powers
<1>4. CASE n \in 24 .. 31
  BY <1>4, Powers
<1>5. QED
  BY <1>1, <1>2, <1>3, <1>4

\* None is zero.
LEMMA PowerPositive == \A n \in 0 .. 32 : Power(n) \in Nat \ {0}
<1>1. Power(32) \in Nat \ {0}
  BY Powers
<1>2. \A n \in 0 .. 31 : Power(n) \in Nat \ {0}
  BY PowerDoubles
<1>3. \A n \in 0 .. 32 : n = 32 \/ n \in 0 .. 31
  OBVIOUS
<1>4. QED
  BY <1>1, <1>2, <1>3

\* The bits from low to high, read as a number by Bits, where each is a bit of v.
LEMMA BitsAre ==
  ASSUME NEW low \in 0 .. 32, NEW high \in 0 .. 32, low <= high, NEW v \in Int,
         \A b \in low .. high - 1 : b \in word <=> Tests(v, b - low)
  PROVE  Bits(low, high) = v % Power(high - low)
<1> DEFINE F(g) == [b \in low .. high |-> IF b = high THEN 0 ELSE One(b \in word) + 2 * g[b + 1]]
           f == CHOOSE g : g = F(g)
           Rest(b) == (v \div Power(b - low)) % Power(high - b)
           h == [b \in low .. high |-> Rest(b)]
<1>1. \A b \in low .. high : b - low \in 0 .. 31 \/ b - low = 32
  OBVIOUS
<1>2. Power(32) \in Nat \ {0} /\ Power(0) = 1
  BY Powers
<1>3. \A n \in 0 .. 32 : Power(n) \in Nat \ {0}
  BY PowerPositive
<1>4. ASSUME NEW b \in low .. high, b # high
      PROVE  Rest(b) = One(b \in word) + 2 * Rest(b + 1)
  <2>1. PICK x \in Int : x = v \div Power(b - low)
    <3>1. b - low \in 0 .. 32
      OBVIOUS
    <3>2. PICK p \in Nat \ {0} : p = Power(b - low)
      BY <1>3, <3>1
    <3>3. v \div p \in Int
      OBVIOUS
    <3>4. QED
      BY <3>2, <3>3
  <2>2. PICK n \in 0 .. 31 : n = high - b - 1 /\ high - b = n + 1 /\ high - (b + 1) = n
    BY <1>4
  <2>3. PICK m \in 0 .. 31 : m = b - low /\ (b + 1) - low = m + 1
    BY <1>4
  <2>4. PICK p \in Nat \ {0} : p = Power(m) /\ Power(m + 1) = 2 * p
    BY PowerDoubles
  <2>5. PICK q \in Nat \ {0} : q = Power(n) /\ Power(n + 1) = 2 * q
    BY PowerDoubles
  <2>6. v \div Power((b + 1) - low) = x \div 2
    BY <2>1, <2>3, <2>4, DivTwice
  <2>7. x % (2 * q) = (x % 2) + 2 * ((x \div 2) % q)
    BY ModTwice
  <2>8. b \in word <=> x % 2 = 1
    BY <1>4, <2>1 DEF Tests
  <2>9. x % 2 = One(b \in word)
    <3>1. x % 2 \in 0 .. 1
      OBVIOUS
    <3>2. QED
      BY <2>8, <3>1 DEF One
  <2>10. Rest(b) = x % (2 * q)
    BY <2>1, <2>2, <2>5
  <2>11. Rest(b + 1) = (x \div 2) % q
    BY <2>2, <2>5, <2>6
  <2>12. QED
    BY <2>7, <2>9, <2>10, <2>11
<1>5. Rest(high) = 0
  <2>1. v \div Power(high - low) \in Int
    BY <1>3
  <2>2. Power(high - high) = 1
    BY <1>2
  <2>3. \A x \in Int : x % 1 = 0
    OBVIOUS
  <2>4. QED
    BY <2>1, <2>2, <2>3
<1>6. \A b \in low .. high : b # high => b + 1 \in low .. high
  OBVIOUS
<1>7. h = F(h)
  <2> HIDE DEF Rest
  <2>1. \A b \in low .. high : h[b] = F(h)[b]
    BY <1>4, <1>5, <1>6
  <2>2. QED
    BY <2>1
<1>8. f = F(f)
  BY <1>7
<1>9. \A b \in low .. high : f[b] = IF b = high THEN 0 ELSE One(b \in word) + 2 * f[b + 1]
  <2> HIDE DEF f
  <2>1. \A b \in low .. high : F(f)[b] = IF b = high THEN 0 ELSE One(b \in word) + 2 * f[b + 1]
    OBVIOUS
  <2>2. QED
    BY <1>8, <2>1
<1>10. f[low] = Rest(low)
  <2> HIDE DEF f, h, F, Rest
  <2> DEFINE S == {n \in 0 .. high - low : f[high - n] # Rest(high - n)}
  <2>1. SUFFICES ASSUME f[low] # Rest(low)
                 PROVE  FALSE
    OBVIOUS
  <2>2. PICK n \in S : \A m \in S : n <= m
    <3>1. S \in SUBSET Nat
      OBVIOUS
    <3>2. high - low \in 0 .. high - low /\ high - (high - low) = low
      OBVIOUS
    <3>3. S # {}
      BY <2>1, <3>2
    <3>4. QED
      BY <3>1, <3>3, SetHasMin
  <2>3. n # 0
    BY <1>5, <1>9, <2>2
  <2>4. n - 1 \notin S /\ n - 1 \in 0 .. high - low /\ n \in 0 .. high - low
    BY <2>2, <2>3
  <2>5. PICK b \in low .. high : b = high - n /\ b # high /\ b + 1 = high - (n - 1)
    BY <2>3, <2>4
  <2>6. f[b + 1] = Rest(b + 1)
    BY <2>4, <2>5
  <2>7. f[b] = Rest(b)
    BY <1>4, <1>9, <2>5, <2>6
  <2>8. QED
    BY <2>2, <2>5, <2>7
<1>11. Bits(low, high) = f[low]
  BY DEF Bits
<1>12. Rest(low) = v % Power(high - low)
  <2>1. v \div Power(low - low) = v
    BY <1>2
  <2>2. QED
    BY <2>1
<1>13. QED
  BY <1>10, <1>11, <1>12

-----------------------------------------------------------------------------
(* What each constructor of a class's hierarchy writes. *)

\* That the setters s make u of w.
Leads(w, s, u) == u = After(w, s)

\* Fields, in the order they are written.
MainField(op0) == <<<<25, 29, op0>>>>

LEMMA MainFieldType ==
  ASSUME NEW op0 \in Int
  PROVE  MainField(op0) \in Seq(FieldSets)
  BY DEF FieldSets, MainField

\* Each field has its value and no other bit changes.
LEMMA MainFieldWrite ==
  ASSUME NEW w, NEW u, NEW op0
  PROVE  Leads(w, MainField(op0), u) =>
           /\ \A b \in 25 .. 28 : b \in u <=> Tests(op0, b - 25)
           /\ \A b \in (0 .. 24) \cup (29 .. 31) : b \in u <=> b \in w
<1>1. Leads(w, MainField(op0), u) => \A b \in 25 .. 28 : b \in u <=> Tests(op0, b - 25)
  BY DEF Leads, After, Covers, MainField
<1>2. Leads(w, MainField(op0), u) => \A b \in (0 .. 24) \cup (29 .. 31) : b \in u <=> b \in w
  BY DEF Leads, After, Covers, MainField
<1>3. QED
  BY <1>1, <1>2

Field100x(op0) == <<<<23, 26, op0>>>>

LEMMA Field100xType ==
  ASSUME NEW op0 \in Int
  PROVE  Field100x(op0) \in Seq(FieldSets)
  BY DEF FieldSets, Field100x

\* Each field has its value and no other bit changes.
LEMMA Field100xWrite ==
  ASSUME NEW w, NEW u, NEW op0
  PROVE  Leads(w, Field100x(op0), u) =>
           /\ \A b \in 23 .. 25 : b \in u <=> Tests(op0, b - 23)
           /\ \A b \in (0 .. 22) \cup (26 .. 31) : b \in u <=> b \in w
<1>1. Leads(w, Field100x(op0), u) => \A b \in 23 .. 25 : b \in u <=> Tests(op0, b - 23)
  BY DEF Leads, After, Covers, Field100x
<1>2. Leads(w, Field100x(op0), u) => \A b \in (0 .. 22) \cup (26 .. 31) : b \in u <=> b \in w
  BY DEF Leads, After, Covers, Field100x
<1>3. QED
  BY <1>1, <1>2

Field101x(op0) == <<<<29, 32, op0>>>>

LEMMA Field101xType ==
  ASSUME NEW op0 \in Int
  PROVE  Field101x(op0) \in Seq(FieldSets)
  BY DEF FieldSets, Field101x

\* Each field has its value and no other bit changes.
LEMMA Field101xWrite ==
  ASSUME NEW w, NEW u, NEW op0
  PROVE  Leads(w, Field101x(op0), u) =>
           /\ \A b \in 29 .. 31 : b \in u <=> Tests(op0, b - 29)
           /\ \A b \in 0 .. 28 : b \in u <=> b \in w
<1>1. Leads(w, Field101x(op0), u) => \A b \in 29 .. 31 : b \in u <=> Tests(op0, b - 29)
  BY DEF Leads, After, Covers, Field101x
<1>2. Leads(w, Field101x(op0), u) => \A b \in 0 .. 28 : b \in u <=> b \in w
  BY DEF Leads, After, Covers, Field101x
<1>3. QED
  BY <1>1, <1>2

Fieldx1x0(op0) == <<<<28, 32, op0>>>>

LEMMA Fieldx1x0Type ==
  ASSUME NEW op0 \in Int
  PROVE  Fieldx1x0(op0) \in Seq(FieldSets)
  BY DEF FieldSets, Fieldx1x0

\* Each field has its value and no other bit changes.
LEMMA Fieldx1x0Write ==
  ASSUME NEW w, NEW u, NEW op0
  PROVE  Leads(w, Fieldx1x0(op0), u) =>
           /\ \A b \in 28 .. 31 : b \in u <=> Tests(op0, b - 28)
           /\ \A b \in 0 .. 27 : b \in u <=> b \in w
<1>1. Leads(w, Fieldx1x0(op0), u) => \A b \in 28 .. 31 : b \in u <=> Tests(op0, b - 28)
  BY DEF Leads, After, Covers, Fieldx1x0
<1>2. Leads(w, Fieldx1x0(op0), u) => \A b \in 0 .. 27 : b \in u <=> b \in w
  BY DEF Leads, After, Covers, Fieldx1x0
<1>3. QED
  BY <1>1, <1>2

Fieldsx101(op0, op1, op2, op3) == <<<<30, 31, op0>>, <<28, 29, op1>>, <<20, 24, op2>>, <<10, 15, op3>>>>

LEMMA Fieldsx101Type ==
  ASSUME NEW op0 \in Int, NEW op1 \in Int, NEW op2 \in Int, NEW op3 \in Int
  PROVE  Fieldsx101(op0, op1, op2, op3) \in Seq(FieldSets)
  BY DEF FieldSets, Fieldsx101

\* Each field has its value and no other bit changes.
LEMMA Fieldsx101Write ==
  ASSUME NEW w, NEW u, NEW op0, NEW op1, NEW op2, NEW op3
  PROVE  Leads(w, Fieldsx101(op0, op1, op2, op3), u) =>
           /\ \A b \in 10 .. 14 : b \in u <=> Tests(op3, b - 10)
           /\ \A b \in 20 .. 23 : b \in u <=> Tests(op2, b - 20)
           /\ (28 \in u <=> Tests(op1, 0))
           /\ (30 \in u <=> Tests(op0, 0))
           /\ \A b \in (0 .. 9) \cup (15 .. 19) \cup (24 .. 27) \cup {29} \cup {31} : b \in u <=> b \in w
<1>1. Leads(w, Fieldsx101(op0, op1, op2, op3), u) => \A b \in 10 .. 14 : b \in u <=> Tests(op3, b - 10)
  BY DEF Leads, After, Covers, Fieldsx101
<1>2. Leads(w, Fieldsx101(op0, op1, op2, op3), u) => \A b \in 20 .. 23 : b \in u <=> Tests(op2, b - 20)
  BY DEF Leads, After, Covers, Fieldsx101
<1>3. Leads(w, Fieldsx101(op0, op1, op2, op3), u) => (28 \in u <=> Tests(op1, 0))
  BY DEF Leads, After, Covers, Fieldsx101
<1>4. Leads(w, Fieldsx101(op0, op1, op2, op3), u) => (30 \in u <=> Tests(op0, 0))
  BY DEF Leads, After, Covers, Fieldsx101
<1>5. Leads(w, Fieldsx101(op0, op1, op2, op3), u) =>
        \A b \in (0 .. 9) \cup (15 .. 19) \cup (24 .. 27) \cup {29} \cup {31} : b \in u <=> b \in w
  BY DEF Leads, After, Covers, Fieldsx101
<1>6. QED
  BY <1>1, <1>2, <1>3, <1>4, <1>5

\* Fields, in the order they are written.
AddSubtractFields(sf, op, s) == <<<<31, 32, sf>>, <<30, 31, op>>, <<29, 30, s>>>>

LEMMA AddSubtractFieldsType ==
  ASSUME NEW sf \in Int, NEW op \in Int, NEW s \in Int
  PROVE  AddSubtractFields(sf, op, s) \in Seq(FieldSets)
  BY DEF FieldSets, AddSubtractFields

\* Each field has its value and no other bit changes.
LEMMA AddSubtractFieldsWrite ==
  ASSUME NEW w, NEW u, NEW sf, NEW op, NEW s
  PROVE  Leads(w, AddSubtractFields(sf, op, s), u) =>
           /\ (29 \in u <=> Tests(s, 0))
           /\ (30 \in u <=> Tests(op, 0))
           /\ (31 \in u <=> Tests(sf, 0))
           /\ \A b \in 0 .. 28 : b \in u <=> b \in w
<1>1. Leads(w, AddSubtractFields(sf, op, s), u) => (29 \in u <=> Tests(s, 0))
  BY DEF Leads, After, Covers, AddSubtractFields
<1>2. Leads(w, AddSubtractFields(sf, op, s), u) => (30 \in u <=> Tests(op, 0))
  BY DEF Leads, After, Covers, AddSubtractFields
<1>3. Leads(w, AddSubtractFields(sf, op, s), u) => (31 \in u <=> Tests(sf, 0))
  BY DEF Leads, After, Covers, AddSubtractFields
<1>4. Leads(w, AddSubtractFields(sf, op, s), u) => \A b \in 0 .. 28 : b \in u <=> b \in w
  BY DEF Leads, After, Covers, AddSubtractFields
<1>5. QED
  BY <1>1, <1>2, <1>3, <1>4

\* Fields, in the order they are written.
OperandFields(rd, rn, imm12, sh) == <<<<0, 5, rd>>, <<5, 10, rn>>, <<10, 22, imm12>>, <<22, 23, sh>>>>

LEMMA OperandFieldsType ==
  ASSUME NEW rd \in Int, NEW rn \in Int, NEW imm12 \in Int, NEW sh \in Int
  PROVE  OperandFields(rd, rn, imm12, sh) \in Seq(FieldSets)
  BY DEF FieldSets, OperandFields

\* Each field has its value and no other bit changes.
LEMMA OperandFieldsWrite ==
  ASSUME NEW w, NEW u, NEW rd, NEW rn, NEW imm12, NEW sh
  PROVE  Leads(w, OperandFields(rd, rn, imm12, sh), u) =>
           /\ \A b \in 0 .. 4 : b \in u <=> Tests(rd, b - 0)
           /\ \A b \in 5 .. 9 : b \in u <=> Tests(rn, b - 5)
           /\ \A b \in 10 .. 21 : b \in u <=> Tests(imm12, b - 10)
           /\ (22 \in u <=> Tests(sh, 0))
           /\ \A b \in 23 .. 31 : b \in u <=> b \in w
<1>1. Leads(w, OperandFields(rd, rn, imm12, sh), u) => \A b \in 0 .. 4 : b \in u <=> Tests(rd, b - 0)
  BY DEF Leads, After, Covers, OperandFields
<1>2. Leads(w, OperandFields(rd, rn, imm12, sh), u) => \A b \in 5 .. 9 : b \in u <=> Tests(rn, b - 5)
  BY DEF Leads, After, Covers, OperandFields
<1>3. Leads(w, OperandFields(rd, rn, imm12, sh), u) => \A b \in 10 .. 21 : b \in u <=> Tests(imm12, b - 10)
  BY DEF Leads, After, Covers, OperandFields
<1>4. Leads(w, OperandFields(rd, rn, imm12, sh), u) => (22 \in u <=> Tests(sh, 0))
  BY DEF Leads, After, Covers, OperandFields
<1>5. Leads(w, OperandFields(rd, rn, imm12, sh), u) => \A b \in 23 .. 31 : b \in u <=> b \in w
  BY DEF Leads, After, Covers, OperandFields
<1>6. QED
  BY <1>1, <1>2, <1>3, <1>4, <1>5

\* Fields, in the order they are written.
MoveWideFields(sf, opc, hw, imm, rd) == <<<<31, 32, sf>>, <<29, 31, opc>>, <<21, 23, hw>>, <<5, 21, imm>>,
    <<0, 5, rd>>>>

LEMMA MoveWideFieldsType ==
  ASSUME NEW sf \in Int, NEW opc \in Int, NEW hw \in Int, NEW imm \in Int, NEW rd \in Int
  PROVE  MoveWideFields(sf, opc, hw, imm, rd) \in Seq(FieldSets)
  BY DEF FieldSets, MoveWideFields

\* Each field has its value and no other bit changes.
LEMMA MoveWideFieldsWrite ==
  ASSUME NEW w, NEW u, NEW sf, NEW opc, NEW hw, NEW imm, NEW rd
  PROVE  Leads(w, MoveWideFields(sf, opc, hw, imm, rd), u) =>
           /\ \A b \in 0 .. 4 : b \in u <=> Tests(rd, b - 0)
           /\ \A b \in 5 .. 20 : b \in u <=> Tests(imm, b - 5)
           /\ \A b \in 21 .. 22 : b \in u <=> Tests(hw, b - 21)
           /\ \A b \in 29 .. 30 : b \in u <=> Tests(opc, b - 29)
           /\ (31 \in u <=> Tests(sf, 0))
           /\ \A b \in 23 .. 28 : b \in u <=> b \in w
<1>1. Leads(w, MoveWideFields(sf, opc, hw, imm, rd), u) => \A b \in 0 .. 4 : b \in u <=> Tests(rd, b - 0)
  BY DEF Leads, After, Covers, MoveWideFields
<1>2. Leads(w, MoveWideFields(sf, opc, hw, imm, rd), u) => \A b \in 5 .. 20 : b \in u <=> Tests(imm, b - 5)
  BY DEF Leads, After, Covers, MoveWideFields
<1>3. Leads(w, MoveWideFields(sf, opc, hw, imm, rd), u) => \A b \in 21 .. 22 : b \in u <=> Tests(hw, b - 21)
  BY DEF Leads, After, Covers, MoveWideFields
<1>4. Leads(w, MoveWideFields(sf, opc, hw, imm, rd), u) => \A b \in 29 .. 30 : b \in u <=> Tests(opc, b - 29)
  BY DEF Leads, After, Covers, MoveWideFields
<1>5. Leads(w, MoveWideFields(sf, opc, hw, imm, rd), u) => (31 \in u <=> Tests(sf, 0))
  BY DEF Leads, After, Covers, MoveWideFields
<1>6. Leads(w, MoveWideFields(sf, opc, hw, imm, rd), u) => \A b \in 23 .. 28 : b \in u <=> b \in w
  BY DEF Leads, After, Covers, MoveWideFields
<1>7. QED
  BY <1>1, <1>2, <1>3, <1>4, <1>5, <1>6

\* Fields, in the order they are written.
PcRelFields(op, imm, immhi, rd) == <<<<31, 32, op>>, <<29, 31, imm>>, <<5, 24, immhi>>, <<0, 5, rd>>>>

LEMMA PcRelFieldsType ==
  ASSUME NEW op \in Int, NEW imm \in Int, NEW immhi \in Int, NEW rd \in Int
  PROVE  PcRelFields(op, imm, immhi, rd) \in Seq(FieldSets)
  BY DEF FieldSets, PcRelFields

\* Each field has its value and no other bit changes.
LEMMA PcRelFieldsWrite ==
  ASSUME NEW w, NEW u, NEW op, NEW imm, NEW immhi, NEW rd
  PROVE  Leads(w, PcRelFields(op, imm, immhi, rd), u) =>
           /\ \A b \in 0 .. 4 : b \in u <=> Tests(rd, b - 0)
           /\ \A b \in 5 .. 23 : b \in u <=> Tests(immhi, b - 5)
           /\ \A b \in 29 .. 30 : b \in u <=> Tests(imm, b - 29)
           /\ (31 \in u <=> Tests(op, 0))
           /\ \A b \in 24 .. 28 : b \in u <=> b \in w
<1>1. Leads(w, PcRelFields(op, imm, immhi, rd), u) => \A b \in 0 .. 4 : b \in u <=> Tests(rd, b - 0)
  BY DEF Leads, After, Covers, PcRelFields
<1>2. Leads(w, PcRelFields(op, imm, immhi, rd), u) => \A b \in 5 .. 23 : b \in u <=> Tests(immhi, b - 5)
  BY DEF Leads, After, Covers, PcRelFields
<1>3. Leads(w, PcRelFields(op, imm, immhi, rd), u) => \A b \in 29 .. 30 : b \in u <=> Tests(imm, b - 29)
  BY DEF Leads, After, Covers, PcRelFields
<1>4. Leads(w, PcRelFields(op, imm, immhi, rd), u) => (31 \in u <=> Tests(op, 0))
  BY DEF Leads, After, Covers, PcRelFields
<1>5. Leads(w, PcRelFields(op, imm, immhi, rd), u) => \A b \in 24 .. 28 : b \in u <=> b \in w
  BY DEF Leads, After, Covers, PcRelFields
<1>6. QED
  BY <1>1, <1>2, <1>3, <1>4, <1>5

\* Fields, in the order they are written.
BranchImmediateFields(op, imm26) == <<<<31, 32, op>>, <<0, 26, imm26>>>>

LEMMA BranchImmediateFieldsType ==
  ASSUME NEW op \in Int, NEW imm26 \in Int
  PROVE  BranchImmediateFields(op, imm26) \in Seq(FieldSets)
  BY DEF FieldSets, BranchImmediateFields

\* Each field has its value and no other bit changes.
LEMMA BranchImmediateFieldsWrite ==
  ASSUME NEW w, NEW u, NEW op, NEW imm26
  PROVE  Leads(w, BranchImmediateFields(op, imm26), u) =>
           /\ \A b \in 0 .. 25 : b \in u <=> Tests(imm26, b - 0)
           /\ (31 \in u <=> Tests(op, 0))
           /\ \A b \in 26 .. 30 : b \in u <=> b \in w
<1>1. Leads(w, BranchImmediateFields(op, imm26), u) => \A b \in 0 .. 25 : b \in u <=> Tests(imm26, b - 0)
  BY DEF Leads, After, Covers, BranchImmediateFields
<1>2. Leads(w, BranchImmediateFields(op, imm26), u) => (31 \in u <=> Tests(op, 0))
  BY DEF Leads, After, Covers, BranchImmediateFields
<1>3. Leads(w, BranchImmediateFields(op, imm26), u) => \A b \in 26 .. 30 : b \in u <=> b \in w
  BY DEF Leads, After, Covers, BranchImmediateFields
<1>4. QED
  BY <1>1, <1>2, <1>3

\* The wide field first, the narrow ones in it after.
BranchRegisterFields(opc, op2) == <<<<12, 26, 8192>>, <<21, 25, opc>>, <<16, 21, op2>>>>

LEMMA BranchRegisterFieldsType ==
  ASSUME NEW opc \in Int, NEW op2 \in Int
  PROVE  BranchRegisterFields(opc, op2) \in Seq(FieldSets)
  BY DEF FieldSets, BranchRegisterFields

\* Each field has its value and no other bit changes.
LEMMA BranchRegisterFieldsWrite ==
  ASSUME NEW w, NEW u, NEW opc, NEW op2
  PROVE  Leads(w, BranchRegisterFields(opc, op2), u) =>
           /\ \A b \in 12 .. 15 : b \in u <=> Tests(8192, b - 12)
           /\ (25 \in u <=> Tests(8192, 13))
           /\ \A b \in 16 .. 20 : b \in u <=> Tests(op2, b - 16)
           /\ \A b \in 21 .. 24 : b \in u <=> Tests(opc, b - 21)
           /\ \A b \in (0 .. 11) \cup (26 .. 31) : b \in u <=> b \in w
<1>1. Leads(w, BranchRegisterFields(opc, op2), u) => \A b \in 12 .. 15 : b \in u <=> Tests(8192, b - 12)
  BY DEF Leads, After, Covers, BranchRegisterFields
<1>2. Leads(w, BranchRegisterFields(opc, op2), u) => (25 \in u <=> Tests(8192, 13))
  BY DEF Leads, After, Covers, BranchRegisterFields
<1>3. Leads(w, BranchRegisterFields(opc, op2), u) => \A b \in 16 .. 20 : b \in u <=> Tests(op2, b - 16)
  BY DEF Leads, After, Covers, BranchRegisterFields
<1>4. Leads(w, BranchRegisterFields(opc, op2), u) => \A b \in 21 .. 24 : b \in u <=> Tests(opc, b - 21)
  BY DEF Leads, After, Covers, BranchRegisterFields
<1>5. Leads(w, BranchRegisterFields(opc, op2), u) => \A b \in (0 .. 11) \cup (26 .. 31) : b \in u <=> b \in w
  BY DEF Leads, After, Covers, BranchRegisterFields
<1>6. QED
  BY <1>1, <1>2, <1>3, <1>4, <1>5

\* Fields, in the order they are written.
BranchOperandFields(rn) == <<<<10, 16, 0>>, <<5, 10, rn>>, <<0, 5, 0>>>>

LEMMA BranchOperandFieldsType ==
  ASSUME NEW rn \in Int
  PROVE  BranchOperandFields(rn) \in Seq(FieldSets)
  BY DEF FieldSets, BranchOperandFields

\* Each field has its value and no other bit changes.
LEMMA BranchOperandFieldsWrite ==
  ASSUME NEW w, NEW u, NEW rn
  PROVE  Leads(w, BranchOperandFields(rn), u) =>
           /\ \A b \in 0 .. 4 : b \in u <=> Tests(0, b - 0)
           /\ \A b \in 5 .. 9 : b \in u <=> Tests(rn, b - 5)
           /\ \A b \in 10 .. 15 : b \in u <=> Tests(0, b - 10)
           /\ \A b \in 16 .. 31 : b \in u <=> b \in w
<1>1. Leads(w, BranchOperandFields(rn), u) => \A b \in 0 .. 4 : b \in u <=> Tests(0, b - 0)
  BY DEF Leads, After, Covers, BranchOperandFields
<1>2. Leads(w, BranchOperandFields(rn), u) => \A b \in 5 .. 9 : b \in u <=> Tests(rn, b - 5)
  BY DEF Leads, After, Covers, BranchOperandFields
<1>3. Leads(w, BranchOperandFields(rn), u) => \A b \in 10 .. 15 : b \in u <=> Tests(0, b - 10)
  BY DEF Leads, After, Covers, BranchOperandFields
<1>4. Leads(w, BranchOperandFields(rn), u) => \A b \in 16 .. 31 : b \in u <=> b \in w
  BY DEF Leads, After, Covers, BranchOperandFields
<1>5. QED
  BY <1>1, <1>2, <1>3, <1>4

\* Fields, in the order they are written.
HintsFields == <<<<12, 26, 4146>>, <<0, 5, 31>>>>

LEMMA HintsFieldsType ==
  HintsFields \in Seq(FieldSets)
  BY DEF FieldSets, HintsFields

\* Each field has its value and no other bit changes.
LEMMA HintsFieldsWrite ==
  ASSUME NEW w, NEW u
  PROVE  Leads(w, HintsFields, u) =>
           /\ \A b \in 0 .. 4 : b \in u <=> Tests(31, b - 0)
           /\ \A b \in 12 .. 25 : b \in u <=> Tests(4146, b - 12)
           /\ \A b \in (5 .. 11) \cup (26 .. 31) : b \in u <=> b \in w
<1>1. Leads(w, HintsFields, u) => \A b \in 0 .. 4 : b \in u <=> Tests(31, b - 0)
  BY DEF Leads, After, Covers, HintsFields
<1>2. Leads(w, HintsFields, u) => \A b \in 12 .. 25 : b \in u <=> Tests(4146, b - 12)
  BY DEF Leads, After, Covers, HintsFields
<1>3. Leads(w, HintsFields, u) => \A b \in (5 .. 11) \cup (26 .. 31) : b \in u <=> b \in w
  BY DEF Leads, After, Covers, HintsFields
<1>4. QED
  BY <1>1, <1>2, <1>3

\* Fields, in the order they are written.
NopFields == <<<<8, 12, 0>>, <<5, 8, 0>>>>

LEMMA NopFieldsType ==
  NopFields \in Seq(FieldSets)
  BY DEF FieldSets, NopFields

\* Each field has its value and no other bit changes.
LEMMA NopFieldsWrite ==
  ASSUME NEW w, NEW u
  PROVE  Leads(w, NopFields, u) =>
           /\ \A b \in 5 .. 7 : b \in u <=> Tests(0, b - 5)
           /\ \A b \in 8 .. 11 : b \in u <=> Tests(0, b - 8)
           /\ \A b \in (0 .. 4) \cup (12 .. 31) : b \in u <=> b \in w
<1>1. Leads(w, NopFields, u) => \A b \in 5 .. 7 : b \in u <=> Tests(0, b - 5)
  BY DEF Leads, After, Covers, NopFields
<1>2. Leads(w, NopFields, u) => \A b \in 8 .. 11 : b \in u <=> Tests(0, b - 8)
  BY DEF Leads, After, Covers, NopFields
<1>3. Leads(w, NopFields, u) => \A b \in (0 .. 4) \cup (12 .. 31) : b \in u <=> b \in w
  BY DEF Leads, After, Covers, NopFields
<1>4. QED
  BY <1>1, <1>2, <1>3

\* Fields, in the order they are written.
LiteralFields(opc, v, imm19, rt) == <<<<28, 32, 1>>, <<23, 25, 0>>, <<30, 31, opc>>, <<26, 27, v>>,
    <<5, 24, imm19>>, <<0, 5, rt>>>>

LEMMA LiteralFieldsType ==
  ASSUME NEW opc \in Int, NEW v \in Int, NEW imm19 \in Int, NEW rt \in Int
  PROVE  LiteralFields(opc, v, imm19, rt) \in Seq(FieldSets)
  BY DEF FieldSets, LiteralFields

\* Each field has its value and no other bit changes.
LEMMA LiteralFieldsWrite ==
  ASSUME NEW w, NEW u, NEW opc, NEW v, NEW imm19, NEW rt
  PROVE  Leads(w, LiteralFields(opc, v, imm19, rt), u) =>
           /\ \A b \in 0 .. 4 : b \in u <=> Tests(rt, b - 0)
           /\ \A b \in 5 .. 23 : b \in u <=> Tests(imm19, b - 5)
           /\ (24 \in u <=> Tests(0, 1))
           /\ (26 \in u <=> Tests(v, 0))
           /\ \A b \in 28 .. 29 : b \in u <=> Tests(1, b - 28)
           /\ (31 \in u <=> Tests(1, 3))
           /\ (30 \in u <=> Tests(opc, 0))
           /\ \A b \in {25} \cup {27} : b \in u <=> b \in w
<1>1. Leads(w, LiteralFields(opc, v, imm19, rt), u) => \A b \in 0 .. 4 : b \in u <=> Tests(rt, b - 0)
  BY DEF Leads, After, Covers, LiteralFields
<1>2. Leads(w, LiteralFields(opc, v, imm19, rt), u) => \A b \in 5 .. 23 : b \in u <=> Tests(imm19, b - 5)
  BY DEF Leads, After, Covers, LiteralFields
<1>3. Leads(w, LiteralFields(opc, v, imm19, rt), u) => (24 \in u <=> Tests(0, 1))
  BY DEF Leads, After, Covers, LiteralFields
<1>4. Leads(w, LiteralFields(opc, v, imm19, rt), u) => (26 \in u <=> Tests(v, 0))
  BY DEF Leads, After, Covers, LiteralFields
<1>5. Leads(w, LiteralFields(opc, v, imm19, rt), u) => \A b \in 28 .. 29 : b \in u <=> Tests(1, b - 28)
  BY DEF Leads, After, Covers, LiteralFields
<1>6. Leads(w, LiteralFields(opc, v, imm19, rt), u) => (31 \in u <=> Tests(1, 3))
  BY DEF Leads, After, Covers, LiteralFields
<1>7. Leads(w, LiteralFields(opc, v, imm19, rt), u) => (30 \in u <=> Tests(opc, 0))
  BY DEF Leads, After, Covers, LiteralFields
<1>8. Leads(w, LiteralFields(opc, v, imm19, rt), u) => \A b \in {25} \cup {27} : b \in u <=> b \in w
  BY DEF Leads, After, Covers, LiteralFields
<1>9. QED
  BY <1>1, <1>2, <1>3, <1>4, <1>5, <1>6, <1>7, <1>8

\* Fields, in the order they are written.
UnscaledFields(size, v, opc, imm9, rn, rt) == <<<<23, 25, 0>>, <<16, 22, 0>>, <<10, 12, 0>>, <<30, 32, size>>,
    <<26, 27, v>>, <<22, 24, opc>>, <<12, 21, imm9>>, <<5, 10, rn>>, <<0, 5, rt>>>>

LEMMA UnscaledFieldsType ==
  ASSUME NEW size \in Int, NEW v \in Int, NEW opc \in Int, NEW imm9 \in Int, NEW rn \in Int, NEW rt \in Int
  PROVE  UnscaledFields(size, v, opc, imm9, rn, rt) \in Seq(FieldSets)
  BY DEF FieldSets, UnscaledFields

\* Each field has its value and no other bit changes.
LEMMA UnscaledFieldsWrite ==
  ASSUME NEW w, NEW u, NEW size, NEW v, NEW opc, NEW imm9, NEW rn, NEW rt
  PROVE  Leads(w, UnscaledFields(size, v, opc, imm9, rn, rt), u) =>
           /\ \A b \in 0 .. 4 : b \in u <=> Tests(rt, b - 0)
           /\ \A b \in 5 .. 9 : b \in u <=> Tests(rn, b - 5)
           /\ \A b \in 10 .. 11 : b \in u <=> Tests(0, b - 10)
           /\ \A b \in 12 .. 20 : b \in u <=> Tests(imm9, b - 12)
           /\ (21 \in u <=> Tests(0, 5))
           /\ \A b \in 22 .. 23 : b \in u <=> Tests(opc, b - 22)
           /\ (24 \in u <=> Tests(0, 1))
           /\ (26 \in u <=> Tests(v, 0))
           /\ \A b \in 30 .. 31 : b \in u <=> Tests(size, b - 30)
           /\ \A b \in {25} \cup (27 .. 29) : b \in u <=> b \in w
<1>1. Leads(w, UnscaledFields(size, v, opc, imm9, rn, rt), u) =>
        \A b \in 0 .. 4 : b \in u <=> Tests(rt, b - 0)
  BY DEF Leads, After, Covers, UnscaledFields
<1>2. Leads(w, UnscaledFields(size, v, opc, imm9, rn, rt), u) =>
        \A b \in 5 .. 9 : b \in u <=> Tests(rn, b - 5)
  BY DEF Leads, After, Covers, UnscaledFields
<1>3. Leads(w, UnscaledFields(size, v, opc, imm9, rn, rt), u) =>
        \A b \in 10 .. 11 : b \in u <=> Tests(0, b - 10)
  BY DEF Leads, After, Covers, UnscaledFields
<1>4. Leads(w, UnscaledFields(size, v, opc, imm9, rn, rt), u) =>
        \A b \in 12 .. 20 : b \in u <=> Tests(imm9, b - 12)
  BY DEF Leads, After, Covers, UnscaledFields
<1>5. Leads(w, UnscaledFields(size, v, opc, imm9, rn, rt), u) => (21 \in u <=> Tests(0, 5))
  BY DEF Leads, After, Covers, UnscaledFields
<1>6. Leads(w, UnscaledFields(size, v, opc, imm9, rn, rt), u) =>
        \A b \in 22 .. 23 : b \in u <=> Tests(opc, b - 22)
  BY DEF Leads, After, Covers, UnscaledFields
<1>7. Leads(w, UnscaledFields(size, v, opc, imm9, rn, rt), u) => (24 \in u <=> Tests(0, 1))
  BY DEF Leads, After, Covers, UnscaledFields
<1>8. Leads(w, UnscaledFields(size, v, opc, imm9, rn, rt), u) => (26 \in u <=> Tests(v, 0))
  BY DEF Leads, After, Covers, UnscaledFields
<1>9. Leads(w, UnscaledFields(size, v, opc, imm9, rn, rt), u) =>
        \A b \in 30 .. 31 : b \in u <=> Tests(size, b - 30)
  BY DEF Leads, After, Covers, UnscaledFields
<1>10. Leads(w, UnscaledFields(size, v, opc, imm9, rn, rt), u) =>
        \A b \in {25} \cup (27 .. 29) : b \in u <=> b \in w
  BY DEF Leads, After, Covers, UnscaledFields
<1>11. QED
  BY <1>1, <1>2, <1>3, <1>4, <1>5, <1>6, <1>7, <1>8, <1>9, <1>10

\* Fields, in the order they are written.
UnsignedFields(size, v, opc, imm12, rn, rt) == <<<<23, 25, 2>>, <<30, 32, size>>, <<26, 27, v>>, <<22, 24, opc>>,
    <<10, 22, imm12>>, <<5, 10, rn>>, <<0, 5, rt>>>>

LEMMA UnsignedFieldsType ==
  ASSUME NEW size \in Int, NEW v \in Int, NEW opc \in Int, NEW imm12 \in Int, NEW rn \in Int, NEW rt \in Int
  PROVE  UnsignedFields(size, v, opc, imm12, rn, rt) \in Seq(FieldSets)
  BY DEF FieldSets, UnsignedFields

\* Each field has its value and no other bit changes.
LEMMA UnsignedFieldsWrite ==
  ASSUME NEW w, NEW u, NEW size, NEW v, NEW opc, NEW imm12, NEW rn, NEW rt
  PROVE  Leads(w, UnsignedFields(size, v, opc, imm12, rn, rt), u) =>
           /\ \A b \in 0 .. 4 : b \in u <=> Tests(rt, b - 0)
           /\ \A b \in 5 .. 9 : b \in u <=> Tests(rn, b - 5)
           /\ \A b \in 10 .. 21 : b \in u <=> Tests(imm12, b - 10)
           /\ \A b \in 22 .. 23 : b \in u <=> Tests(opc, b - 22)
           /\ (24 \in u <=> Tests(2, 1))
           /\ (26 \in u <=> Tests(v, 0))
           /\ \A b \in 30 .. 31 : b \in u <=> Tests(size, b - 30)
           /\ \A b \in {25} \cup (27 .. 29) : b \in u <=> b \in w
<1>1. Leads(w, UnsignedFields(size, v, opc, imm12, rn, rt), u) =>
        \A b \in 0 .. 4 : b \in u <=> Tests(rt, b - 0)
  BY DEF Leads, After, Covers, UnsignedFields
<1>2. Leads(w, UnsignedFields(size, v, opc, imm12, rn, rt), u) =>
        \A b \in 5 .. 9 : b \in u <=> Tests(rn, b - 5)
  BY DEF Leads, After, Covers, UnsignedFields
<1>3. Leads(w, UnsignedFields(size, v, opc, imm12, rn, rt), u) =>
        \A b \in 10 .. 21 : b \in u <=> Tests(imm12, b - 10)
  BY DEF Leads, After, Covers, UnsignedFields
<1>4. Leads(w, UnsignedFields(size, v, opc, imm12, rn, rt), u) =>
        \A b \in 22 .. 23 : b \in u <=> Tests(opc, b - 22)
  BY DEF Leads, After, Covers, UnsignedFields
<1>5. Leads(w, UnsignedFields(size, v, opc, imm12, rn, rt), u) => (24 \in u <=> Tests(2, 1))
  BY DEF Leads, After, Covers, UnsignedFields
<1>6. Leads(w, UnsignedFields(size, v, opc, imm12, rn, rt), u) => (26 \in u <=> Tests(v, 0))
  BY DEF Leads, After, Covers, UnsignedFields
<1>7. Leads(w, UnsignedFields(size, v, opc, imm12, rn, rt), u) =>
        \A b \in 30 .. 31 : b \in u <=> Tests(size, b - 30)
  BY DEF Leads, After, Covers, UnsignedFields
<1>8. Leads(w, UnsignedFields(size, v, opc, imm12, rn, rt), u) =>
        \A b \in {25} \cup (27 .. 29) : b \in u <=> b \in w
  BY DEF Leads, After, Covers, UnsignedFields
<1>9. QED
  BY <1>1, <1>2, <1>3, <1>4, <1>5, <1>6, <1>7, <1>8

\* Fields, in the order they are written.
OffsetFields(size, opc, v) == <<<<30, 32, size>>, <<22, 24, opc>>, <<26, 27, 0>>, <<23, 25, 0>>, <<16, 22, 32>>,
    <<10, 12, 2>>, <<26, 27, v>>>>

LEMMA OffsetFieldsType ==
  ASSUME NEW size \in Int, NEW opc \in Int, NEW v \in Int
  PROVE  OffsetFields(size, opc, v) \in Seq(FieldSets)
  BY DEF FieldSets, OffsetFields

\* Each field has its value and no other bit changes.
LEMMA OffsetFieldsWrite ==
  ASSUME NEW w, NEW u, NEW size, NEW opc, NEW v
  PROVE  Leads(w, OffsetFields(size, opc, v), u) =>
           /\ \A b \in 10 .. 11 : b \in u <=> Tests(2, b - 10)
           /\ \A b \in 16 .. 21 : b \in u <=> Tests(32, b - 16)
           /\ (22 \in u <=> Tests(opc, 0))
           /\ \A b \in 23 .. 24 : b \in u <=> Tests(0, b - 23)
           /\ (26 \in u <=> Tests(v, 0))
           /\ \A b \in 30 .. 31 : b \in u <=> Tests(size, b - 30)
           /\ \A b \in (0 .. 9) \cup (12 .. 15) \cup {25} \cup (27 .. 29) : b \in u <=> b \in w
<1>1. Leads(w, OffsetFields(size, opc, v), u) => \A b \in 10 .. 11 : b \in u <=> Tests(2, b - 10)
  BY DEF Leads, After, Covers, OffsetFields
<1>2. Leads(w, OffsetFields(size, opc, v), u) => \A b \in 16 .. 21 : b \in u <=> Tests(32, b - 16)
  BY DEF Leads, After, Covers, OffsetFields
<1>3. Leads(w, OffsetFields(size, opc, v), u) => (22 \in u <=> Tests(opc, 0))
  BY DEF Leads, After, Covers, OffsetFields
<1>4. Leads(w, OffsetFields(size, opc, v), u) => \A b \in 23 .. 24 : b \in u <=> Tests(0, b - 23)
  BY DEF Leads, After, Covers, OffsetFields
<1>5. Leads(w, OffsetFields(size, opc, v), u) => (26 \in u <=> Tests(v, 0))
  BY DEF Leads, After, Covers, OffsetFields
<1>6. Leads(w, OffsetFields(size, opc, v), u) => \A b \in 30 .. 31 : b \in u <=> Tests(size, b - 30)
  BY DEF Leads, After, Covers, OffsetFields
<1>7. Leads(w, OffsetFields(size, opc, v), u) =>
        \A b \in (0 .. 9) \cup (12 .. 15) \cup {25} \cup (27 .. 29) : b \in u <=> b \in w
  BY DEF Leads, After, Covers, OffsetFields
<1>8. QED
  BY <1>1, <1>2, <1>3, <1>4, <1>5, <1>6, <1>7

\* Fields, in the order they are written.
OffsetOperandFields(size, rm, option, s, rt, rn) == <<<<30, 32, size>>, <<16, 21, rm>>, <<13, 16, option>>,
    <<12, 13, s>>, <<0, 5, rt>>, <<5, 10, rn>>>>

LEMMA OffsetOperandFieldsType ==
  ASSUME NEW size \in Int, NEW rm \in Int, NEW option \in Int, NEW s \in Int, NEW rt \in Int, NEW rn \in Int
  PROVE  OffsetOperandFields(size, rm, option, s, rt, rn) \in Seq(FieldSets)
  BY DEF FieldSets, OffsetOperandFields

\* Each field has its value and no other bit changes.
LEMMA OffsetOperandFieldsWrite ==
  ASSUME NEW w, NEW u, NEW size, NEW rm, NEW option, NEW s, NEW rt, NEW rn
  PROVE  Leads(w, OffsetOperandFields(size, rm, option, s, rt, rn), u) =>
           /\ \A b \in 0 .. 4 : b \in u <=> Tests(rt, b - 0)
           /\ \A b \in 5 .. 9 : b \in u <=> Tests(rn, b - 5)
           /\ (12 \in u <=> Tests(s, 0))
           /\ \A b \in 13 .. 15 : b \in u <=> Tests(option, b - 13)
           /\ \A b \in 16 .. 20 : b \in u <=> Tests(rm, b - 16)
           /\ \A b \in 30 .. 31 : b \in u <=> Tests(size, b - 30)
           /\ \A b \in (10 .. 11) \cup (21 .. 29) : b \in u <=> b \in w
<1>1. Leads(w, OffsetOperandFields(size, rm, option, s, rt, rn), u) =>
        \A b \in 0 .. 4 : b \in u <=> Tests(rt, b - 0)
  BY DEF Leads, After, Covers, OffsetOperandFields
<1>2. Leads(w, OffsetOperandFields(size, rm, option, s, rt, rn), u) =>
        \A b \in 5 .. 9 : b \in u <=> Tests(rn, b - 5)
  BY DEF Leads, After, Covers, OffsetOperandFields
<1>3. Leads(w, OffsetOperandFields(size, rm, option, s, rt, rn), u) => (12 \in u <=> Tests(s, 0))
  BY DEF Leads, After, Covers, OffsetOperandFields
<1>4. Leads(w, OffsetOperandFields(size, rm, option, s, rt, rn), u) =>
        \A b \in 13 .. 15 : b \in u <=> Tests(option, b - 13)
  BY DEF Leads, After, Covers, OffsetOperandFields
<1>5. Leads(w, OffsetOperandFields(size, rm, option, s, rt, rn), u) =>
        \A b \in 16 .. 20 : b \in u <=> Tests(rm, b - 16)
  BY DEF Leads, After, Covers, OffsetOperandFields
<1>6. Leads(w, OffsetOperandFields(size, rm, option, s, rt, rn), u) =>
        \A b \in 30 .. 31 : b \in u <=> Tests(size, b - 30)
  BY DEF Leads, After, Covers, OffsetOperandFields
<1>7. Leads(w, OffsetOperandFields(size, rm, option, s, rt, rn), u) =>
        \A b \in (10 .. 11) \cup (21 .. 29) : b \in u <=> b \in w
  BY DEF Leads, After, Covers, OffsetOperandFields
<1>8. QED
  BY <1>1, <1>2, <1>3, <1>4, <1>5, <1>6, <1>7

\* Fields, in the order they are written.
LogicalFields(sf, opc) == <<<<31, 32, sf>>, <<29, 31, opc>>>>

LEMMA LogicalFieldsType ==
  ASSUME NEW sf \in Int, NEW opc \in Int
  PROVE  LogicalFields(sf, opc) \in Seq(FieldSets)
  BY DEF FieldSets, LogicalFields

\* Each field has its value and no other bit changes.
LEMMA LogicalFieldsWrite ==
  ASSUME NEW w, NEW u, NEW sf, NEW opc
  PROVE  Leads(w, LogicalFields(sf, opc), u) =>
           /\ \A b \in 29 .. 30 : b \in u <=> Tests(opc, b - 29)
           /\ (31 \in u <=> Tests(sf, 0))
           /\ \A b \in 0 .. 28 : b \in u <=> b \in w
<1>1. Leads(w, LogicalFields(sf, opc), u) => \A b \in 29 .. 30 : b \in u <=> Tests(opc, b - 29)
  BY DEF Leads, After, Covers, LogicalFields
<1>2. Leads(w, LogicalFields(sf, opc), u) => (31 \in u <=> Tests(sf, 0))
  BY DEF Leads, After, Covers, LogicalFields
<1>3. Leads(w, LogicalFields(sf, opc), u) => \A b \in 0 .. 28 : b \in u <=> b \in w
  BY DEF Leads, After, Covers, LogicalFields
<1>4. QED
  BY <1>1, <1>2, <1>3

OrrFields(shift, rm, amount, rn, rd) == <<<<22, 24, shift>>, <<21, 22, 0>>, <<16, 21, rm>>, <<10, 16, amount>>,
    <<5, 10, rn>>, <<0, 5, rd>>>>

LEMMA OrrFieldsType ==
  ASSUME NEW shift \in Int, NEW rm \in Int, NEW amount \in Int, NEW rn \in Int, NEW rd \in Int
  PROVE  OrrFields(shift, rm, amount, rn, rd) \in Seq(FieldSets)
  BY DEF FieldSets, OrrFields

\* Each field has its value and no other bit changes.
LEMMA OrrFieldsWrite ==
  ASSUME NEW w, NEW u, NEW shift, NEW rm, NEW amount, NEW rn, NEW rd
  PROVE  Leads(w, OrrFields(shift, rm, amount, rn, rd), u) =>
           /\ \A b \in 0 .. 4 : b \in u <=> Tests(rd, b - 0)
           /\ \A b \in 5 .. 9 : b \in u <=> Tests(rn, b - 5)
           /\ \A b \in 10 .. 15 : b \in u <=> Tests(amount, b - 10)
           /\ \A b \in 16 .. 20 : b \in u <=> Tests(rm, b - 16)
           /\ (21 \in u <=> Tests(0, 0))
           /\ \A b \in 22 .. 23 : b \in u <=> Tests(shift, b - 22)
           /\ \A b \in 24 .. 31 : b \in u <=> b \in w
<1>1. Leads(w, OrrFields(shift, rm, amount, rn, rd), u) => \A b \in 0 .. 4 : b \in u <=> Tests(rd, b - 0)
  BY DEF Leads, After, Covers, OrrFields
<1>2. Leads(w, OrrFields(shift, rm, amount, rn, rd), u) => \A b \in 5 .. 9 : b \in u <=> Tests(rn, b - 5)
  BY DEF Leads, After, Covers, OrrFields
<1>3. Leads(w, OrrFields(shift, rm, amount, rn, rd), u) =>
        \A b \in 10 .. 15 : b \in u <=> Tests(amount, b - 10)
  BY DEF Leads, After, Covers, OrrFields
<1>4. Leads(w, OrrFields(shift, rm, amount, rn, rd), u) => \A b \in 16 .. 20 : b \in u <=> Tests(rm, b - 16)
  BY DEF Leads, After, Covers, OrrFields
<1>5. Leads(w, OrrFields(shift, rm, amount, rn, rd), u) => (21 \in u <=> Tests(0, 0))
  BY DEF Leads, After, Covers, OrrFields
<1>6. Leads(w, OrrFields(shift, rm, amount, rn, rd), u) =>
        \A b \in 22 .. 23 : b \in u <=> Tests(shift, b - 22)
  BY DEF Leads, After, Covers, OrrFields
<1>7. Leads(w, OrrFields(shift, rm, amount, rn, rd), u) => \A b \in 24 .. 31 : b \in u <=> b \in w
  BY DEF Leads, After, Covers, OrrFields
<1>8. QED
  BY <1>1, <1>2, <1>3, <1>4, <1>5, <1>6, <1>7

-----------------------------------------------------------------------------
(* The constructors of an instruction, one after the other. *)

\* What two constructors make goes through what the first makes;
LEMMA LeadsBoth ==
  ASSUME NEW w, NEW u, NEW s \in Seq(FieldSets), NEW t \in Seq(FieldSets), Leads(w, s \o t, u)
  PROVE  \E v : Leads(w, s, v) /\ Leads(v, t, u)
<1>1. u = After(After(w, s), t)
  BY AfterConcat DEF Leads
<1>2. QED
  BY <1>1, Zenon DEF Leads

\* and with three,
LEMMA LeadsThree ==
  ASSUME NEW w, NEW u, NEW s \in Seq(FieldSets), NEW t \in Seq(FieldSets), NEW r \in Seq(FieldSets),
         Leads(w, (s \o t) \o r, u)
  PROVE  \E v1, v2 : Leads(w, s, v1) /\ Leads(v1, t, v2) /\ Leads(v2, r, u)
<1>1. s \o t \in Seq(FieldSets)
  OBVIOUS
<1>2. PICK v2 : Leads(w, s \o t, v2) /\ Leads(v2, r, u)
  BY <1>1, LeadsBoth
<1>3. PICK v1 : Leads(w, s, v1) /\ Leads(v1, t, v2)
  BY <1>2, LeadsBoth
<1>4. QED
  BY <1>2, <1>3

\* and with four.
LEMMA LeadsFour ==
  ASSUME NEW w, NEW u, NEW s \in Seq(FieldSets), NEW t \in Seq(FieldSets), NEW r \in Seq(FieldSets),
         NEW q \in Seq(FieldSets), Leads(w, ((s \o t) \o r) \o q, u)
  PROVE  \E v1, v2, v3 : Leads(w, s, v1) /\ Leads(v1, t, v2) /\ Leads(v2, r, v3) /\ Leads(v3, q, u)
<1>1. (s \o t) \o r \in Seq(FieldSets)
  OBVIOUS
<1>2. PICK v3 : Leads(w, (s \o t) \o r, v3) /\ Leads(v3, q, u)
  BY <1>1, LeadsBoth
<1>3. PICK v1, v2 : Leads(w, s, v1) /\ Leads(v1, t, v2) /\ Leads(v2, r, v3)
  BY <1>2, LeadsThree
<1>4. QED
  BY <1>2, <1>3

\* The fields of an addition or subtraction, with those of its base classes.
AddSubtractSetters(sf, op, s, rd, rn, imm12, sh) ==
  ((MainField(8) \o Field100x(2)) \o AddSubtractFields(sf, op, s)) \o OperandFields(rd, rn, imm12, sh)

\* The bits they make of it.
AddSubtractBits(sf, op, s, rd, rn, imm12, sh) ==
  /\ \A b \in 23 .. 28 : b \in word <=> b \in {24, 28}
  /\ \A b \in 0 .. 4 : b \in word <=> Tests(rd, b - 0)
  /\ \A b \in 5 .. 9 : b \in word <=> Tests(rn, b - 5)
  /\ \A b \in 10 .. 21 : b \in word <=> Tests(imm12, b - 10)
  /\ (22 \in word <=> Tests(sh, 0))
  /\ (29 \in word <=> Tests(s, 0))
  /\ (30 \in word <=> Tests(op, 0))
  /\ (31 \in word <=> Tests(sf, 0))

\* The fields of an addition or subtraction are fields.
LEMMA AddSubtractTypes ==
  ASSUME NEW sf \in Int, NEW op \in Int, NEW s \in Int, NEW rd \in Int, NEW rn \in Int,
         NEW imm12 \in Int, NEW sh \in Int
  PROVE  /\ MainField(8) \in Seq(FieldSets)
         /\ Field100x(2) \in Seq(FieldSets)
         /\ AddSubtractFields(sf, op, s) \in Seq(FieldSets)
         /\ OperandFields(rd, rn, imm12, sh) \in Seq(FieldSets)
         /\ AddSubtractSetters(sf, op, s, rd, rn, imm12, sh) \in Seq(FieldSets)
<1>1. MainField(8) \in Seq(FieldSets)
  BY MainFieldType
<1>2. Field100x(2) \in Seq(FieldSets)
  BY Field100xType
<1>3. AddSubtractFields(sf, op, s) \in Seq(FieldSets)
  BY AddSubtractFieldsType
<1>4. OperandFields(rd, rn, imm12, sh) \in Seq(FieldSets)
  BY OperandFieldsType
<1>5. AddSubtractSetters(sf, op, s, rd, rn, imm12, sh) \in Seq(FieldSets)
  BY <1>1, <1>2, <1>3, <1>4 DEF AddSubtractSetters
<1>6. QED
  BY <1>1, <1>2, <1>3, <1>4, <1>5

\* After them the word has the bits of an addition or subtraction.
LEMMA AddSubtractWord ==
  ASSUME NEW sf \in Int, NEW op \in Int, NEW s \in Int, NEW rd \in Int, NEW rn \in Int,
         NEW imm12 \in Int, NEW sh \in Int,
         Leads({}, AddSubtractSetters(sf, op, s, rd, rn, imm12, sh), word)
  PROVE  AddSubtractBits(sf, op, s, rd, rn, imm12, sh)
<1>1. /\ MainField(8) \in Seq(FieldSets)
      /\ Field100x(2) \in Seq(FieldSets)
      /\ AddSubtractFields(sf, op, s) \in Seq(FieldSets)
      /\ OperandFields(rd, rn, imm12, sh) \in Seq(FieldSets)
      /\ AddSubtractSetters(sf, op, s, rd, rn, imm12, sh) \in Seq(FieldSets)
  BY AddSubtractTypes
<1>2. PICK v1, v2, v3 :
        /\ Leads({}, MainField(8), v1)
        /\ Leads(v1, Field100x(2), v2)
        /\ Leads(v2, AddSubtractFields(sf, op, s), v3)
        /\ Leads(v3, OperandFields(rd, rn, imm12, sh), word)
  BY <1>1, LeadsFour DEF AddSubtractSetters
<1>3. /\ \A b \in 25 .. 28 : b \in v1 <=> Tests(8, b - 25)
      /\ \A b \in (0 .. 24) \cup (29 .. 31) : b \in v1 <=> b \in {}
  BY <1>2, MainFieldWrite
<1>4. /\ \A b \in 23 .. 25 : b \in v2 <=> Tests(2, b - 23)
      /\ \A b \in (0 .. 22) \cup (26 .. 31) : b \in v2 <=> b \in v1
  BY <1>2, Field100xWrite
<1>5. /\ (29 \in v3 <=> Tests(s, 0))
      /\ (30 \in v3 <=> Tests(op, 0))
      /\ (31 \in v3 <=> Tests(sf, 0))
      /\ \A b \in 0 .. 28 : b \in v3 <=> b \in v2
  BY <1>2, AddSubtractFieldsWrite
<1>6. /\ \A b \in 0 .. 4 : b \in word <=> Tests(rd, b - 0)
      /\ \A b \in 5 .. 9 : b \in word <=> Tests(rn, b - 5)
      /\ \A b \in 10 .. 21 : b \in word <=> Tests(imm12, b - 10)
      /\ (22 \in word <=> Tests(sh, 0))
      /\ \A b \in 23 .. 31 : b \in word <=> b \in v3
  BY <1>2, OperandFieldsWrite
<1>7. /\ ~Tests(2, 0) /\ Tests(2, 1) /\ ~Tests(2, 2) /\ ~Tests(8, 1) /\ ~Tests(8, 2)
      /\ Tests(8, 3)
  BY DEF Tests, Power
<1>8. \A b \in 23 .. 28 : b \in word <=> b \in {24, 28}
  BY <1>3, <1>4, <1>5, <1>6, <1>7
<1>9. (29 \in word <=> Tests(s, 0))
  BY <1>5, <1>6
<1>10. (30 \in word <=> Tests(op, 0))
  BY <1>5, <1>6
<1>11. (31 \in word <=> Tests(sf, 0))
  BY <1>5, <1>6
<1>12. QED
  BY <1>6, <1>8, <1>9, <1>10, <1>11 DEF AddSubtractBits

\* The fields of a wide move, with those of its base classes.
MoveWideSetters(sf, opc, hw, imm, rd) == (MainField(8) \o Field100x(5)) \o MoveWideFields(sf, opc, hw, imm, rd)

\* The bits they make of it.
MoveWideBits(sf, opc, hw, imm, rd) ==
  /\ \A b \in 23 .. 28 : b \in word <=> b \in {23, 25, 28}
  /\ \A b \in 0 .. 4 : b \in word <=> Tests(rd, b - 0)
  /\ \A b \in 5 .. 20 : b \in word <=> Tests(imm, b - 5)
  /\ \A b \in 21 .. 22 : b \in word <=> Tests(hw, b - 21)
  /\ \A b \in 29 .. 30 : b \in word <=> Tests(opc, b - 29)
  /\ (31 \in word <=> Tests(sf, 0))

\* The fields of a wide move are fields.
LEMMA MoveWideTypes ==
  ASSUME NEW sf \in Int, NEW opc \in Int, NEW hw \in Int, NEW imm \in Int, NEW rd \in Int
  PROVE  /\ MainField(8) \in Seq(FieldSets)
         /\ Field100x(5) \in Seq(FieldSets)
         /\ MoveWideFields(sf, opc, hw, imm, rd) \in Seq(FieldSets)
         /\ MoveWideSetters(sf, opc, hw, imm, rd) \in Seq(FieldSets)
<1>1. MainField(8) \in Seq(FieldSets)
  BY MainFieldType
<1>2. Field100x(5) \in Seq(FieldSets)
  BY Field100xType
<1>3. MoveWideFields(sf, opc, hw, imm, rd) \in Seq(FieldSets)
  BY MoveWideFieldsType
<1>4. MoveWideSetters(sf, opc, hw, imm, rd) \in Seq(FieldSets)
  BY <1>1, <1>2, <1>3 DEF MoveWideSetters
<1>5. QED
  BY <1>1, <1>2, <1>3, <1>4

\* After them the word has the bits of a wide move.
LEMMA MoveWideWord ==
  ASSUME NEW sf \in Int, NEW opc \in Int, NEW hw \in Int, NEW imm \in Int, NEW rd \in Int,
         Leads({}, MoveWideSetters(sf, opc, hw, imm, rd), word)
  PROVE  MoveWideBits(sf, opc, hw, imm, rd)
<1>1. /\ MainField(8) \in Seq(FieldSets)
      /\ Field100x(5) \in Seq(FieldSets)
      /\ MoveWideFields(sf, opc, hw, imm, rd) \in Seq(FieldSets)
      /\ MoveWideSetters(sf, opc, hw, imm, rd) \in Seq(FieldSets)
  BY MoveWideTypes
<1>2. PICK v1, v2 :
        /\ Leads({}, MainField(8), v1)
        /\ Leads(v1, Field100x(5), v2)
        /\ Leads(v2, MoveWideFields(sf, opc, hw, imm, rd), word)
  BY <1>1, LeadsThree DEF MoveWideSetters
<1>3. /\ \A b \in 25 .. 28 : b \in v1 <=> Tests(8, b - 25)
      /\ \A b \in (0 .. 24) \cup (29 .. 31) : b \in v1 <=> b \in {}
  BY <1>2, MainFieldWrite
<1>4. /\ \A b \in 23 .. 25 : b \in v2 <=> Tests(5, b - 23)
      /\ \A b \in (0 .. 22) \cup (26 .. 31) : b \in v2 <=> b \in v1
  BY <1>2, Field100xWrite
<1>5. /\ \A b \in 0 .. 4 : b \in word <=> Tests(rd, b - 0)
      /\ \A b \in 5 .. 20 : b \in word <=> Tests(imm, b - 5)
      /\ \A b \in 21 .. 22 : b \in word <=> Tests(hw, b - 21)
      /\ \A b \in 29 .. 30 : b \in word <=> Tests(opc, b - 29)
      /\ (31 \in word <=> Tests(sf, 0))
      /\ \A b \in 23 .. 28 : b \in word <=> b \in v2
  BY <1>2, MoveWideFieldsWrite
<1>6. /\ Tests(5, 0) /\ ~Tests(5, 1) /\ Tests(5, 2) /\ ~Tests(8, 1) /\ ~Tests(8, 2)
      /\ Tests(8, 3)
  BY DEF Tests, Power
<1>7. \A b \in 23 .. 28 : b \in word <=> b \in {23, 25, 28}
  BY <1>3, <1>4, <1>5, <1>6
<1>8. QED
  BY <1>5, <1>7 DEF MoveWideBits

\* The fields of an adr or adrp, with those of its base classes.
PcRelSetters(op, imm, immhi, rd) == (MainField(8) \o Field100x(0)) \o PcRelFields(op, imm, immhi, rd)

\* The bits they make of it.
PcRelBits(op, imm, immhi, rd) ==
  /\ \A b \in 24 .. 28 : b \in word <=> b \in {28}
  /\ \A b \in 0 .. 4 : b \in word <=> Tests(rd, b - 0)
  /\ \A b \in 5 .. 23 : b \in word <=> Tests(immhi, b - 5)
  /\ \A b \in 29 .. 30 : b \in word <=> Tests(imm, b - 29)
  /\ (31 \in word <=> Tests(op, 0))

\* The fields of an adr or adrp are fields.
LEMMA PcRelTypes ==
  ASSUME NEW op \in Int, NEW imm \in Int, NEW immhi \in Int, NEW rd \in Int
  PROVE  /\ MainField(8) \in Seq(FieldSets)
         /\ Field100x(0) \in Seq(FieldSets)
         /\ PcRelFields(op, imm, immhi, rd) \in Seq(FieldSets)
         /\ PcRelSetters(op, imm, immhi, rd) \in Seq(FieldSets)
<1>1. MainField(8) \in Seq(FieldSets)
  BY MainFieldType
<1>2. Field100x(0) \in Seq(FieldSets)
  BY Field100xType
<1>3. PcRelFields(op, imm, immhi, rd) \in Seq(FieldSets)
  BY PcRelFieldsType
<1>4. PcRelSetters(op, imm, immhi, rd) \in Seq(FieldSets)
  BY <1>1, <1>2, <1>3 DEF PcRelSetters
<1>5. QED
  BY <1>1, <1>2, <1>3, <1>4

\* After them the word has the bits of an adr or adrp.
LEMMA PcRelWord ==
  ASSUME NEW op \in Int, NEW imm \in Int, NEW immhi \in Int, NEW rd \in Int,
         Leads({}, PcRelSetters(op, imm, immhi, rd), word)
  PROVE  PcRelBits(op, imm, immhi, rd)
<1>1. /\ MainField(8) \in Seq(FieldSets)
      /\ Field100x(0) \in Seq(FieldSets)
      /\ PcRelFields(op, imm, immhi, rd) \in Seq(FieldSets)
      /\ PcRelSetters(op, imm, immhi, rd) \in Seq(FieldSets)
  BY PcRelTypes
<1>2. PICK v1, v2 :
        /\ Leads({}, MainField(8), v1)
        /\ Leads(v1, Field100x(0), v2)
        /\ Leads(v2, PcRelFields(op, imm, immhi, rd), word)
  BY <1>1, LeadsThree DEF PcRelSetters
<1>3. /\ \A b \in 25 .. 28 : b \in v1 <=> Tests(8, b - 25)
      /\ \A b \in (0 .. 24) \cup (29 .. 31) : b \in v1 <=> b \in {}
  BY <1>2, MainFieldWrite
<1>4. /\ \A b \in 23 .. 25 : b \in v2 <=> Tests(0, b - 23)
      /\ \A b \in (0 .. 22) \cup (26 .. 31) : b \in v2 <=> b \in v1
  BY <1>2, Field100xWrite
<1>5. /\ \A b \in 0 .. 4 : b \in word <=> Tests(rd, b - 0)
      /\ \A b \in 5 .. 23 : b \in word <=> Tests(immhi, b - 5)
      /\ \A b \in 29 .. 30 : b \in word <=> Tests(imm, b - 29)
      /\ (31 \in word <=> Tests(op, 0))
      /\ \A b \in 24 .. 28 : b \in word <=> b \in v2
  BY <1>2, PcRelFieldsWrite
<1>6. /\ ~Tests(0, 1) /\ ~Tests(0, 2) /\ ~Tests(8, 1) /\ ~Tests(8, 2) /\ Tests(8, 3)
  BY DEF Tests, Power
<1>7. \A b \in 24 .. 28 : b \in word <=> b \in {28}
  BY <1>3, <1>4, <1>5, <1>6
<1>8. QED
  BY <1>5, <1>7 DEF PcRelBits

\* The fields of a branch to a distance, with those of its base classes.
BranchImmediateSetters(op, imm26) == (MainField(10) \o Field101x(0)) \o BranchImmediateFields(op, imm26)

\* The bits they make of it.
BranchImmediateBits(op, imm26) ==
  /\ \A b \in 26 .. 30 : b \in word <=> b \in {26, 28}
  /\ \A b \in 0 .. 25 : b \in word <=> Tests(imm26, b - 0)
  /\ (31 \in word <=> Tests(op, 0))

\* The fields of a branch to a distance are fields.
LEMMA BranchImmediateTypes ==
  ASSUME NEW op \in Int, NEW imm26 \in Int
  PROVE  /\ MainField(10) \in Seq(FieldSets)
         /\ Field101x(0) \in Seq(FieldSets)
         /\ BranchImmediateFields(op, imm26) \in Seq(FieldSets)
         /\ BranchImmediateSetters(op, imm26) \in Seq(FieldSets)
<1>1. MainField(10) \in Seq(FieldSets)
  BY MainFieldType
<1>2. Field101x(0) \in Seq(FieldSets)
  BY Field101xType
<1>3. BranchImmediateFields(op, imm26) \in Seq(FieldSets)
  BY BranchImmediateFieldsType
<1>4. BranchImmediateSetters(op, imm26) \in Seq(FieldSets)
  BY <1>1, <1>2, <1>3 DEF BranchImmediateSetters
<1>5. QED
  BY <1>1, <1>2, <1>3, <1>4

\* After them the word has the bits of a branch to a distance.
LEMMA BranchImmediateWord ==
  ASSUME NEW op \in Int, NEW imm26 \in Int, Leads({}, BranchImmediateSetters(op, imm26), word)
  PROVE  BranchImmediateBits(op, imm26)
<1>1. /\ MainField(10) \in Seq(FieldSets)
      /\ Field101x(0) \in Seq(FieldSets)
      /\ BranchImmediateFields(op, imm26) \in Seq(FieldSets)
      /\ BranchImmediateSetters(op, imm26) \in Seq(FieldSets)
  BY BranchImmediateTypes
<1>2. PICK v1, v2 :
        /\ Leads({}, MainField(10), v1)
        /\ Leads(v1, Field101x(0), v2)
        /\ Leads(v2, BranchImmediateFields(op, imm26), word)
  BY <1>1, LeadsThree DEF BranchImmediateSetters
<1>3. /\ \A b \in 25 .. 28 : b \in v1 <=> Tests(10, b - 25)
      /\ \A b \in (0 .. 24) \cup (29 .. 31) : b \in v1 <=> b \in {}
  BY <1>2, MainFieldWrite
<1>4. /\ \A b \in 29 .. 31 : b \in v2 <=> Tests(0, b - 29)
      /\ \A b \in 0 .. 28 : b \in v2 <=> b \in v1
  BY <1>2, Field101xWrite
<1>5. /\ \A b \in 0 .. 25 : b \in word <=> Tests(imm26, b - 0)
      /\ (31 \in word <=> Tests(op, 0))
      /\ \A b \in 26 .. 30 : b \in word <=> b \in v2
  BY <1>2, BranchImmediateFieldsWrite
<1>6. /\ Tests(10, 1) /\ ~Tests(10, 2) /\ Tests(10, 3) /\ ~Tests(0, 0) /\ ~Tests(0, 1)
  BY DEF Tests, Power
<1>7. \A b \in 26 .. 30 : b \in word <=> b \in {26, 28}
  BY <1>3, <1>4, <1>5, <1>6
<1>8. QED
  BY <1>5, <1>7 DEF BranchImmediateBits

\* The fields of a branch to a register, with those of its base classes.
BranchRegisterSetters(opc, rn) ==
  ((MainField(10) \o Field101x(6)) \o BranchRegisterFields(opc, 31)) \o BranchOperandFields(rn)

\* The bits they make of it.
BranchRegisterBits(opc, rn) ==
  /\ \A b \in (0 .. 4) \cup (10 .. 20) \cup (25 .. 31) : b \in word <=> b \in {16, 17, 18, 19, 20, 25, 26, 28, 30, 31}
  /\ \A b \in 5 .. 9 : b \in word <=> Tests(rn, b - 5)
  /\ \A b \in 21 .. 24 : b \in word <=> Tests(opc, b - 21)

\* The fields of a branch to a register are fields.
LEMMA BranchRegisterTypes ==
  ASSUME NEW opc \in Int, NEW rn \in Int
  PROVE  /\ MainField(10) \in Seq(FieldSets)
         /\ Field101x(6) \in Seq(FieldSets)
         /\ BranchRegisterFields(opc, 31) \in Seq(FieldSets)
         /\ BranchOperandFields(rn) \in Seq(FieldSets)
         /\ BranchRegisterSetters(opc, rn) \in Seq(FieldSets)
<1>1. MainField(10) \in Seq(FieldSets)
  BY MainFieldType
<1>2. Field101x(6) \in Seq(FieldSets)
  BY Field101xType
<1>3. BranchRegisterFields(opc, 31) \in Seq(FieldSets)
  BY BranchRegisterFieldsType
<1>4. BranchOperandFields(rn) \in Seq(FieldSets)
  BY BranchOperandFieldsType
<1>5. BranchRegisterSetters(opc, rn) \in Seq(FieldSets)
  BY <1>1, <1>2, <1>3, <1>4 DEF BranchRegisterSetters
<1>6. QED
  BY <1>1, <1>2, <1>3, <1>4, <1>5

\* After them the word has the bits of a branch to a register.
LEMMA BranchRegisterWord ==
  ASSUME NEW opc \in Int, NEW rn \in Int, Leads({}, BranchRegisterSetters(opc, rn), word)
  PROVE  BranchRegisterBits(opc, rn)
<1>1. /\ MainField(10) \in Seq(FieldSets)
      /\ Field101x(6) \in Seq(FieldSets)
      /\ BranchRegisterFields(opc, 31) \in Seq(FieldSets)
      /\ BranchOperandFields(rn) \in Seq(FieldSets)
      /\ BranchRegisterSetters(opc, rn) \in Seq(FieldSets)
  BY BranchRegisterTypes
<1>2. PICK v1, v2, v3 :
        /\ Leads({}, MainField(10), v1)
        /\ Leads(v1, Field101x(6), v2)
        /\ Leads(v2, BranchRegisterFields(opc, 31), v3)
        /\ Leads(v3, BranchOperandFields(rn), word)
  BY <1>1, LeadsFour DEF BranchRegisterSetters
<1>3. /\ \A b \in 25 .. 28 : b \in v1 <=> Tests(10, b - 25)
      /\ \A b \in (0 .. 24) \cup (29 .. 31) : b \in v1 <=> b \in {}
  BY <1>2, MainFieldWrite
<1>4. /\ \A b \in 29 .. 31 : b \in v2 <=> Tests(6, b - 29)
      /\ \A b \in 0 .. 28 : b \in v2 <=> b \in v1
  BY <1>2, Field101xWrite
<1>5. /\ \A b \in 12 .. 15 : b \in v3 <=> Tests(8192, b - 12)
      /\ (25 \in v3 <=> Tests(8192, 13))
      /\ \A b \in 16 .. 20 : b \in v3 <=> Tests(31, b - 16)
      /\ \A b \in 21 .. 24 : b \in v3 <=> Tests(opc, b - 21)
      /\ \A b \in (0 .. 11) \cup (26 .. 31) : b \in v3 <=> b \in v2
  BY <1>2, BranchRegisterFieldsWrite
<1>6. /\ \A b \in 0 .. 4 : b \in word <=> Tests(0, b - 0)
      /\ \A b \in 5 .. 9 : b \in word <=> Tests(rn, b - 5)
      /\ \A b \in 10 .. 15 : b \in word <=> Tests(0, b - 10)
      /\ \A b \in 16 .. 31 : b \in word <=> b \in v3
  BY <1>2, BranchOperandFieldsWrite
<1>7. /\ ~Tests(0, 0) /\ ~Tests(0, 1) /\ ~Tests(0, 2) /\ ~Tests(0, 3) /\ ~Tests(0, 4)
      /\ ~Tests(0, 5) /\ Tests(31, 0) /\ Tests(31, 1) /\ Tests(31, 2) /\ Tests(31, 3)
      /\ Tests(31, 4) /\ Tests(8192, 13) /\ Tests(10, 1) /\ ~Tests(10, 2) /\ Tests(10, 3)
      /\ ~Tests(6, 0) /\ Tests(6, 1) /\ Tests(6, 2)
  BY DEF Tests, Power
<1>8. \A b \in (0 .. 4) \cup (10 .. 20) \cup (25 .. 31) : b \in word <=> b \in {16, 17, 18, 19, 20, 25, 26, 28, 30, 31}
  BY <1>3, <1>4, <1>5, <1>6, <1>7
<1>9. \A b \in 21 .. 24 : b \in word <=> Tests(opc, b - 21)
  BY <1>5, <1>6
<1>10. QED
  BY <1>6, <1>8, <1>9 DEF BranchRegisterBits

\* The fields of a nop, with those of its base classes.
NopSetters == ((MainField(10) \o Field101x(6)) \o HintsFields) \o NopFields

\* The bits they make of it.
NopBits ==
  /\ \A b \in 0 .. 31 : b \in word <=> b \in {0, 1, 2, 3, 4, 13, 16, 17, 24, 26, 28, 30, 31}

\* The fields of a nop are fields.
LEMMA NopTypes ==
         /\ MainField(10) \in Seq(FieldSets)
         /\ Field101x(6) \in Seq(FieldSets)
         /\ HintsFields \in Seq(FieldSets)
         /\ NopFields \in Seq(FieldSets)
         /\ NopSetters \in Seq(FieldSets)
<1>1. MainField(10) \in Seq(FieldSets)
  BY MainFieldType
<1>2. Field101x(6) \in Seq(FieldSets)
  BY Field101xType
<1>3. HintsFields \in Seq(FieldSets)
  BY HintsFieldsType
<1>4. NopFields \in Seq(FieldSets)
  BY NopFieldsType
<1>5. NopSetters \in Seq(FieldSets)
  BY <1>1, <1>2, <1>3, <1>4 DEF NopSetters
<1>6. QED
  BY <1>1, <1>2, <1>3, <1>4, <1>5

\* After them the word has the bits of a nop.
LEMMA NopWord ==
  ASSUME Leads({}, NopSetters, word)
  PROVE  NopBits
<1>1. /\ MainField(10) \in Seq(FieldSets)
      /\ Field101x(6) \in Seq(FieldSets)
      /\ HintsFields \in Seq(FieldSets)
      /\ NopFields \in Seq(FieldSets)
      /\ NopSetters \in Seq(FieldSets)
  BY NopTypes
<1>2. PICK v1, v2, v3 :
        /\ Leads({}, MainField(10), v1)
        /\ Leads(v1, Field101x(6), v2)
        /\ Leads(v2, HintsFields, v3)
        /\ Leads(v3, NopFields, word)
  BY <1>1, LeadsFour DEF NopSetters
<1>3. /\ \A b \in 25 .. 28 : b \in v1 <=> Tests(10, b - 25)
      /\ \A b \in (0 .. 24) \cup (29 .. 31) : b \in v1 <=> b \in {}
  BY <1>2, MainFieldWrite
<1>4. /\ \A b \in 29 .. 31 : b \in v2 <=> Tests(6, b - 29)
      /\ \A b \in 0 .. 28 : b \in v2 <=> b \in v1
  BY <1>2, Field101xWrite
<1>5. /\ \A b \in 0 .. 4 : b \in v3 <=> Tests(31, b - 0)
      /\ \A b \in 12 .. 25 : b \in v3 <=> Tests(4146, b - 12)
      /\ \A b \in (5 .. 11) \cup (26 .. 31) : b \in v3 <=> b \in v2
  BY <1>2, HintsFieldsWrite
<1>6. /\ \A b \in 5 .. 7 : b \in word <=> Tests(0, b - 5)
      /\ \A b \in 8 .. 11 : b \in word <=> Tests(0, b - 8)
      /\ \A b \in (0 .. 4) \cup (12 .. 31) : b \in word <=> b \in v3
  BY <1>2, NopFieldsWrite
<1>7. /\ Tests(31, 0) /\ Tests(31, 1) /\ Tests(31, 2) /\ Tests(31, 3) /\ Tests(31, 4)
      /\ ~Tests(0, 0) /\ ~Tests(0, 1) /\ ~Tests(0, 2) /\ ~Tests(0, 3) /\ ~Tests(4146, 0)
      /\ Tests(4146, 1) /\ ~Tests(4146, 2) /\ ~Tests(4146, 3) /\ Tests(4146, 4) /\ Tests(4146, 5)
      /\ ~Tests(4146, 6) /\ ~Tests(4146, 7) /\ ~Tests(4146, 8) /\ ~Tests(4146, 9) /\ ~Tests(4146, 10)
      /\ ~Tests(4146, 11) /\ Tests(4146, 12) /\ ~Tests(4146, 13) /\ Tests(10, 1) /\ ~Tests(10, 2)
      /\ Tests(10, 3) /\ ~Tests(6, 0) /\ Tests(6, 1) /\ Tests(6, 2)
  BY DEF Tests, Power
<1>8. \A b \in 0 .. 31 : b \in word <=> b \in {0, 1, 2, 3, 4, 13, 16, 17, 24, 26, 28, 30, 31}
  BY <1>3, <1>4, <1>5, <1>6, <1>7
<1>9. QED
  BY <1>6, <1>8 DEF NopBits

\* The fields of a load of a literal, with those of its base classes.
LiteralSetters(opc, imm19, rt) == (MainField(4) \o Fieldx1x0(1)) \o LiteralFields(opc, 0, imm19, rt)

\* The bits they make of it.
LiteralBits(opc, imm19, rt) ==
  /\ \A b \in (24 .. 29) \cup {31} : b \in word <=> b \in {27, 28}
  /\ \A b \in 0 .. 4 : b \in word <=> Tests(rt, b - 0)
  /\ \A b \in 5 .. 23 : b \in word <=> Tests(imm19, b - 5)
  /\ (30 \in word <=> Tests(opc, 0))

\* The fields of a load of a literal are fields.
LEMMA LiteralTypes ==
  ASSUME NEW opc \in Int, NEW imm19 \in Int, NEW rt \in Int
  PROVE  /\ MainField(4) \in Seq(FieldSets)
         /\ Fieldx1x0(1) \in Seq(FieldSets)
         /\ LiteralFields(opc, 0, imm19, rt) \in Seq(FieldSets)
         /\ LiteralSetters(opc, imm19, rt) \in Seq(FieldSets)
<1>1. MainField(4) \in Seq(FieldSets)
  BY MainFieldType
<1>2. Fieldx1x0(1) \in Seq(FieldSets)
  BY Fieldx1x0Type
<1>3. LiteralFields(opc, 0, imm19, rt) \in Seq(FieldSets)
  BY LiteralFieldsType
<1>4. LiteralSetters(opc, imm19, rt) \in Seq(FieldSets)
  BY <1>1, <1>2, <1>3 DEF LiteralSetters
<1>5. QED
  BY <1>1, <1>2, <1>3, <1>4

\* After them the word has the bits of a load of a literal.
LEMMA LiteralWord ==
  ASSUME NEW opc \in Int, NEW imm19 \in Int, NEW rt \in Int, Leads({}, LiteralSetters(opc, imm19, rt), word)
  PROVE  LiteralBits(opc, imm19, rt)
<1>1. /\ MainField(4) \in Seq(FieldSets)
      /\ Fieldx1x0(1) \in Seq(FieldSets)
      /\ LiteralFields(opc, 0, imm19, rt) \in Seq(FieldSets)
      /\ LiteralSetters(opc, imm19, rt) \in Seq(FieldSets)
  BY LiteralTypes
<1>2. PICK v1, v2 :
        /\ Leads({}, MainField(4), v1)
        /\ Leads(v1, Fieldx1x0(1), v2)
        /\ Leads(v2, LiteralFields(opc, 0, imm19, rt), word)
  BY <1>1, LeadsThree DEF LiteralSetters
<1>3. /\ \A b \in 25 .. 28 : b \in v1 <=> Tests(4, b - 25)
      /\ \A b \in (0 .. 24) \cup (29 .. 31) : b \in v1 <=> b \in {}
  BY <1>2, MainFieldWrite
<1>4. /\ \A b \in 28 .. 31 : b \in v2 <=> Tests(1, b - 28)
      /\ \A b \in 0 .. 27 : b \in v2 <=> b \in v1
  BY <1>2, Fieldx1x0Write
<1>5. /\ \A b \in 0 .. 4 : b \in word <=> Tests(rt, b - 0)
      /\ \A b \in 5 .. 23 : b \in word <=> Tests(imm19, b - 5)
      /\ (24 \in word <=> Tests(0, 1))
      /\ (26 \in word <=> Tests(0, 0))
      /\ \A b \in 28 .. 29 : b \in word <=> Tests(1, b - 28)
      /\ (31 \in word <=> Tests(1, 3))
      /\ (30 \in word <=> Tests(opc, 0))
      /\ \A b \in {25} \cup {27} : b \in word <=> b \in v2
  BY <1>2, LiteralFieldsWrite
<1>6. /\ ~Tests(0, 1) /\ ~Tests(4, 0) /\ ~Tests(0, 0) /\ Tests(4, 2) /\ Tests(1, 0)
      /\ ~Tests(1, 1) /\ ~Tests(1, 3)
  BY DEF Tests, Power
<1>7. \A b \in (24 .. 29) \cup {31} : b \in word <=> b \in {27, 28}
  BY <1>3, <1>4, <1>5, <1>6
<1>8. QED
  BY <1>5, <1>7 DEF LiteralBits

\* The fields of an unscaled transfer, with those of its base classes.
UnscaledSetters(size, opc, imm9, rn, rt) ==
  (MainField(4) \o Fieldx1x0(3)) \o UnscaledFields(size, 0, opc, imm9, rn, rt)

\* The bits they make of it.
UnscaledBits(size, opc, imm9, rn, rt) ==
  /\ \A b \in {10, 11} \cup {21} \cup (24 .. 29) : b \in word <=> b \in {27, 28, 29}
  /\ \A b \in 0 .. 4 : b \in word <=> Tests(rt, b - 0)
  /\ \A b \in 5 .. 9 : b \in word <=> Tests(rn, b - 5)
  /\ \A b \in 12 .. 20 : b \in word <=> Tests(imm9, b - 12)
  /\ \A b \in 22 .. 23 : b \in word <=> Tests(opc, b - 22)
  /\ \A b \in 30 .. 31 : b \in word <=> Tests(size, b - 30)

\* The fields of an unscaled transfer are fields.
LEMMA UnscaledTypes ==
  ASSUME NEW size \in Int, NEW opc \in Int, NEW imm9 \in Int, NEW rn \in Int, NEW rt \in Int
  PROVE  /\ MainField(4) \in Seq(FieldSets)
         /\ Fieldx1x0(3) \in Seq(FieldSets)
         /\ UnscaledFields(size, 0, opc, imm9, rn, rt) \in Seq(FieldSets)
         /\ UnscaledSetters(size, opc, imm9, rn, rt) \in Seq(FieldSets)
<1>1. MainField(4) \in Seq(FieldSets)
  BY MainFieldType
<1>2. Fieldx1x0(3) \in Seq(FieldSets)
  BY Fieldx1x0Type
<1>3. UnscaledFields(size, 0, opc, imm9, rn, rt) \in Seq(FieldSets)
  BY UnscaledFieldsType
<1>4. UnscaledSetters(size, opc, imm9, rn, rt) \in Seq(FieldSets)
  BY <1>1, <1>2, <1>3 DEF UnscaledSetters
<1>5. QED
  BY <1>1, <1>2, <1>3, <1>4

\* After them the word has the bits of an unscaled transfer.
LEMMA UnscaledWord ==
  ASSUME NEW size \in Int, NEW opc \in Int, NEW imm9 \in Int, NEW rn \in Int, NEW rt \in Int,
         Leads({}, UnscaledSetters(size, opc, imm9, rn, rt), word)
  PROVE  UnscaledBits(size, opc, imm9, rn, rt)
<1>1. /\ MainField(4) \in Seq(FieldSets)
      /\ Fieldx1x0(3) \in Seq(FieldSets)
      /\ UnscaledFields(size, 0, opc, imm9, rn, rt) \in Seq(FieldSets)
      /\ UnscaledSetters(size, opc, imm9, rn, rt) \in Seq(FieldSets)
  BY UnscaledTypes
<1>2. PICK v1, v2 :
        /\ Leads({}, MainField(4), v1)
        /\ Leads(v1, Fieldx1x0(3), v2)
        /\ Leads(v2, UnscaledFields(size, 0, opc, imm9, rn, rt), word)
  BY <1>1, LeadsThree DEF UnscaledSetters
<1>3. /\ \A b \in 25 .. 28 : b \in v1 <=> Tests(4, b - 25)
      /\ \A b \in (0 .. 24) \cup (29 .. 31) : b \in v1 <=> b \in {}
  BY <1>2, MainFieldWrite
<1>4. /\ \A b \in 28 .. 31 : b \in v2 <=> Tests(3, b - 28)
      /\ \A b \in 0 .. 27 : b \in v2 <=> b \in v1
  BY <1>2, Fieldx1x0Write
<1>5. /\ \A b \in 0 .. 4 : b \in word <=> Tests(rt, b - 0)
      /\ \A b \in 5 .. 9 : b \in word <=> Tests(rn, b - 5)
      /\ \A b \in 10 .. 11 : b \in word <=> Tests(0, b - 10)
      /\ \A b \in 12 .. 20 : b \in word <=> Tests(imm9, b - 12)
      /\ (21 \in word <=> Tests(0, 5))
      /\ \A b \in 22 .. 23 : b \in word <=> Tests(opc, b - 22)
      /\ (24 \in word <=> Tests(0, 1))
      /\ (26 \in word <=> Tests(0, 0))
      /\ \A b \in 30 .. 31 : b \in word <=> Tests(size, b - 30)
      /\ \A b \in {25} \cup (27 .. 29) : b \in word <=> b \in v2
  BY <1>2, UnscaledFieldsWrite
<1>6. /\ ~Tests(0, 0) /\ ~Tests(0, 1) /\ ~Tests(0, 5) /\ ~Tests(4, 0) /\ Tests(4, 2)
      /\ Tests(3, 0) /\ Tests(3, 1)
  BY DEF Tests, Power
<1>7. \A b \in {10, 11} \cup {21} \cup (24 .. 29) : b \in word <=> b \in {27, 28, 29}
  BY <1>3, <1>4, <1>5, <1>6
<1>8. QED
  BY <1>5, <1>7 DEF UnscaledBits

\* The fields of a transfer at an unsigned offset, with those of its base classes.
UnsignedSetters(size, opc, imm12, rn, rt) ==
  (MainField(4) \o Fieldx1x0(3)) \o UnsignedFields(size, 0, opc, imm12, rn, rt)

\* The bits they make of it.
UnsignedBits(size, opc, imm12, rn, rt) ==
  /\ \A b \in 24 .. 29 : b \in word <=> b \in {24, 27, 28, 29}
  /\ \A b \in 0 .. 4 : b \in word <=> Tests(rt, b - 0)
  /\ \A b \in 5 .. 9 : b \in word <=> Tests(rn, b - 5)
  /\ \A b \in 10 .. 21 : b \in word <=> Tests(imm12, b - 10)
  /\ \A b \in 22 .. 23 : b \in word <=> Tests(opc, b - 22)
  /\ \A b \in 30 .. 31 : b \in word <=> Tests(size, b - 30)

\* The fields of a transfer at an unsigned offset are fields.
LEMMA UnsignedTypes ==
  ASSUME NEW size \in Int, NEW opc \in Int, NEW imm12 \in Int, NEW rn \in Int, NEW rt \in Int
  PROVE  /\ MainField(4) \in Seq(FieldSets)
         /\ Fieldx1x0(3) \in Seq(FieldSets)
         /\ UnsignedFields(size, 0, opc, imm12, rn, rt) \in Seq(FieldSets)
         /\ UnsignedSetters(size, opc, imm12, rn, rt) \in Seq(FieldSets)
<1>1. MainField(4) \in Seq(FieldSets)
  BY MainFieldType
<1>2. Fieldx1x0(3) \in Seq(FieldSets)
  BY Fieldx1x0Type
<1>3. UnsignedFields(size, 0, opc, imm12, rn, rt) \in Seq(FieldSets)
  BY UnsignedFieldsType
<1>4. UnsignedSetters(size, opc, imm12, rn, rt) \in Seq(FieldSets)
  BY <1>1, <1>2, <1>3 DEF UnsignedSetters
<1>5. QED
  BY <1>1, <1>2, <1>3, <1>4

\* After them the word has the bits of a transfer at an unsigned offset.
LEMMA UnsignedWord ==
  ASSUME NEW size \in Int, NEW opc \in Int, NEW imm12 \in Int, NEW rn \in Int, NEW rt \in Int,
         Leads({}, UnsignedSetters(size, opc, imm12, rn, rt), word)
  PROVE  UnsignedBits(size, opc, imm12, rn, rt)
<1>1. /\ MainField(4) \in Seq(FieldSets)
      /\ Fieldx1x0(3) \in Seq(FieldSets)
      /\ UnsignedFields(size, 0, opc, imm12, rn, rt) \in Seq(FieldSets)
      /\ UnsignedSetters(size, opc, imm12, rn, rt) \in Seq(FieldSets)
  BY UnsignedTypes
<1>2. PICK v1, v2 :
        /\ Leads({}, MainField(4), v1)
        /\ Leads(v1, Fieldx1x0(3), v2)
        /\ Leads(v2, UnsignedFields(size, 0, opc, imm12, rn, rt), word)
  BY <1>1, LeadsThree DEF UnsignedSetters
<1>3. /\ \A b \in 25 .. 28 : b \in v1 <=> Tests(4, b - 25)
      /\ \A b \in (0 .. 24) \cup (29 .. 31) : b \in v1 <=> b \in {}
  BY <1>2, MainFieldWrite
<1>4. /\ \A b \in 28 .. 31 : b \in v2 <=> Tests(3, b - 28)
      /\ \A b \in 0 .. 27 : b \in v2 <=> b \in v1
  BY <1>2, Fieldx1x0Write
<1>5. /\ \A b \in 0 .. 4 : b \in word <=> Tests(rt, b - 0)
      /\ \A b \in 5 .. 9 : b \in word <=> Tests(rn, b - 5)
      /\ \A b \in 10 .. 21 : b \in word <=> Tests(imm12, b - 10)
      /\ \A b \in 22 .. 23 : b \in word <=> Tests(opc, b - 22)
      /\ (24 \in word <=> Tests(2, 1))
      /\ (26 \in word <=> Tests(0, 0))
      /\ \A b \in 30 .. 31 : b \in word <=> Tests(size, b - 30)
      /\ \A b \in {25} \cup (27 .. 29) : b \in word <=> b \in v2
  BY <1>2, UnsignedFieldsWrite
<1>6. /\ Tests(2, 1) /\ ~Tests(4, 0) /\ ~Tests(0, 0) /\ Tests(4, 2) /\ Tests(3, 0)
      /\ Tests(3, 1)
  BY DEF Tests, Power
<1>7. \A b \in 24 .. 29 : b \in word <=> b \in {24, 27, 28, 29}
  BY <1>3, <1>4, <1>5, <1>6
<1>8. QED
  BY <1>5, <1>7 DEF UnsignedBits

\* The fields of a transfer at a register offset, with those of its base classes.
OffsetSetters(size, opc, rm, option, s, rt, rn) ==
  ((MainField(4) \o Fieldx1x0(3)) \o OffsetFields(size, opc, 0)) \o OffsetOperandFields(size, rm, option, s, rt, rn)

\* The bits they make of it.
OffsetBits(size, opc, rm, option, s, rt, rn) ==
  /\ \A b \in {10, 11} \cup {21} \cup (23 .. 29) : b \in word <=> b \in {11, 21, 27, 28, 29}
  /\ \A b \in 0 .. 4 : b \in word <=> Tests(rt, b - 0)
  /\ \A b \in 5 .. 9 : b \in word <=> Tests(rn, b - 5)
  /\ (12 \in word <=> Tests(s, 0))
  /\ \A b \in 13 .. 15 : b \in word <=> Tests(option, b - 13)
  /\ \A b \in 16 .. 20 : b \in word <=> Tests(rm, b - 16)
  /\ (22 \in word <=> Tests(opc, 0))
  /\ \A b \in 30 .. 31 : b \in word <=> Tests(size, b - 30)

\* The fields of a transfer at a register offset are fields.
LEMMA OffsetTypes ==
  ASSUME NEW size \in Int, NEW opc \in Int, NEW rm \in Int, NEW option \in Int, NEW s \in Int,
         NEW rt \in Int, NEW rn \in Int
  PROVE  /\ MainField(4) \in Seq(FieldSets)
         /\ Fieldx1x0(3) \in Seq(FieldSets)
         /\ OffsetFields(size, opc, 0) \in Seq(FieldSets)
         /\ OffsetOperandFields(size, rm, option, s, rt, rn) \in Seq(FieldSets)
         /\ OffsetSetters(size, opc, rm, option, s, rt, rn) \in Seq(FieldSets)
<1>1. MainField(4) \in Seq(FieldSets)
  BY MainFieldType
<1>2. Fieldx1x0(3) \in Seq(FieldSets)
  BY Fieldx1x0Type
<1>3. OffsetFields(size, opc, 0) \in Seq(FieldSets)
  BY OffsetFieldsType
<1>4. OffsetOperandFields(size, rm, option, s, rt, rn) \in Seq(FieldSets)
  BY OffsetOperandFieldsType
<1>5. OffsetSetters(size, opc, rm, option, s, rt, rn) \in Seq(FieldSets)
  BY <1>1, <1>2, <1>3, <1>4 DEF OffsetSetters
<1>6. QED
  BY <1>1, <1>2, <1>3, <1>4, <1>5

\* After them the word has the bits of a transfer at a register offset.
LEMMA OffsetWord ==
  ASSUME NEW size \in Int, NEW opc \in Int, NEW rm \in Int, NEW option \in Int, NEW s \in Int,
         NEW rt \in Int, NEW rn \in Int,
         Leads({}, OffsetSetters(size, opc, rm, option, s, rt, rn), word)
  PROVE  OffsetBits(size, opc, rm, option, s, rt, rn)
<1>1. /\ MainField(4) \in Seq(FieldSets)
      /\ Fieldx1x0(3) \in Seq(FieldSets)
      /\ OffsetFields(size, opc, 0) \in Seq(FieldSets)
      /\ OffsetOperandFields(size, rm, option, s, rt, rn) \in Seq(FieldSets)
      /\ OffsetSetters(size, opc, rm, option, s, rt, rn) \in Seq(FieldSets)
  BY OffsetTypes
<1>2. PICK v1, v2, v3 :
        /\ Leads({}, MainField(4), v1)
        /\ Leads(v1, Fieldx1x0(3), v2)
        /\ Leads(v2, OffsetFields(size, opc, 0), v3)
        /\ Leads(v3, OffsetOperandFields(size, rm, option, s, rt, rn), word)
  BY <1>1, LeadsFour DEF OffsetSetters
<1>3. /\ \A b \in 25 .. 28 : b \in v1 <=> Tests(4, b - 25)
      /\ \A b \in (0 .. 24) \cup (29 .. 31) : b \in v1 <=> b \in {}
  BY <1>2, MainFieldWrite
<1>4. /\ \A b \in 28 .. 31 : b \in v2 <=> Tests(3, b - 28)
      /\ \A b \in 0 .. 27 : b \in v2 <=> b \in v1
  BY <1>2, Fieldx1x0Write
<1>5. /\ \A b \in 10 .. 11 : b \in v3 <=> Tests(2, b - 10)
      /\ \A b \in 16 .. 21 : b \in v3 <=> Tests(32, b - 16)
      /\ (22 \in v3 <=> Tests(opc, 0))
      /\ \A b \in 23 .. 24 : b \in v3 <=> Tests(0, b - 23)
      /\ (26 \in v3 <=> Tests(0, 0))
      /\ \A b \in 30 .. 31 : b \in v3 <=> Tests(size, b - 30)
      /\ \A b \in (0 .. 9) \cup (12 .. 15) \cup {25} \cup (27 .. 29) : b \in v3 <=> b \in v2
  BY <1>2, OffsetFieldsWrite
<1>6. /\ \A b \in 0 .. 4 : b \in word <=> Tests(rt, b - 0)
      /\ \A b \in 5 .. 9 : b \in word <=> Tests(rn, b - 5)
      /\ (12 \in word <=> Tests(s, 0))
      /\ \A b \in 13 .. 15 : b \in word <=> Tests(option, b - 13)
      /\ \A b \in 16 .. 20 : b \in word <=> Tests(rm, b - 16)
      /\ \A b \in 30 .. 31 : b \in word <=> Tests(size, b - 30)
      /\ \A b \in (10 .. 11) \cup (21 .. 29) : b \in word <=> b \in v3
  BY <1>2, OffsetOperandFieldsWrite
<1>7. /\ ~Tests(2, 0) /\ Tests(2, 1) /\ Tests(32, 5) /\ ~Tests(0, 0) /\ ~Tests(0, 1)
      /\ ~Tests(4, 0) /\ Tests(4, 2) /\ Tests(3, 0) /\ Tests(3, 1)
  BY DEF Tests, Power
<1>8. \A b \in {10, 11} \cup {21} \cup (23 .. 29) : b \in word <=> b \in {11, 21, 27, 28, 29}
  BY <1>3, <1>4, <1>5, <1>6, <1>7
<1>9. (22 \in word <=> Tests(opc, 0))
  BY <1>5, <1>6
<1>10. QED
  BY <1>6, <1>8, <1>9 DEF OffsetBits

\* The fields of an orr, with those of its base classes.
OrrSetters(sf, shift, rm, amount, rn, rd) ==
  ((MainField(5) \o Fieldsx101(0, 0, 0, 0)) \o LogicalFields(sf, 1)) \o OrrFields(shift, rm, amount, rn, rd)

\* The bits they make of it.
OrrBits(sf, shift, rm, amount, rn, rd) ==
  /\ \A b \in {21} \cup (24 .. 30) : b \in word <=> b \in {25, 27, 29}
  /\ \A b \in 0 .. 4 : b \in word <=> Tests(rd, b - 0)
  /\ \A b \in 5 .. 9 : b \in word <=> Tests(rn, b - 5)
  /\ \A b \in 10 .. 15 : b \in word <=> Tests(amount, b - 10)
  /\ \A b \in 16 .. 20 : b \in word <=> Tests(rm, b - 16)
  /\ \A b \in 22 .. 23 : b \in word <=> Tests(shift, b - 22)
  /\ (31 \in word <=> Tests(sf, 0))

\* The fields of an orr are fields.
LEMMA OrrTypes ==
  ASSUME NEW sf \in Int, NEW shift \in Int, NEW rm \in Int, NEW amount \in Int, NEW rn \in Int, NEW rd \in Int
  PROVE  /\ MainField(5) \in Seq(FieldSets)
         /\ Fieldsx101(0, 0, 0, 0) \in Seq(FieldSets)
         /\ LogicalFields(sf, 1) \in Seq(FieldSets)
         /\ OrrFields(shift, rm, amount, rn, rd) \in Seq(FieldSets)
         /\ OrrSetters(sf, shift, rm, amount, rn, rd) \in Seq(FieldSets)
<1>1. MainField(5) \in Seq(FieldSets)
  BY MainFieldType
<1>2. Fieldsx101(0, 0, 0, 0) \in Seq(FieldSets)
  BY Fieldsx101Type
<1>3. LogicalFields(sf, 1) \in Seq(FieldSets)
  BY LogicalFieldsType
<1>4. OrrFields(shift, rm, amount, rn, rd) \in Seq(FieldSets)
  BY OrrFieldsType
<1>5. OrrSetters(sf, shift, rm, amount, rn, rd) \in Seq(FieldSets)
  BY <1>1, <1>2, <1>3, <1>4 DEF OrrSetters
<1>6. QED
  BY <1>1, <1>2, <1>3, <1>4, <1>5

\* After them the word has the bits of an orr.
LEMMA OrrWord ==
  ASSUME NEW sf \in Int, NEW shift \in Int, NEW rm \in Int, NEW amount \in Int, NEW rn \in Int,
         NEW rd \in Int,
         Leads({}, OrrSetters(sf, shift, rm, amount, rn, rd), word)
  PROVE  OrrBits(sf, shift, rm, amount, rn, rd)
<1>1. /\ MainField(5) \in Seq(FieldSets)
      /\ Fieldsx101(0, 0, 0, 0) \in Seq(FieldSets)
      /\ LogicalFields(sf, 1) \in Seq(FieldSets)
      /\ OrrFields(shift, rm, amount, rn, rd) \in Seq(FieldSets)
      /\ OrrSetters(sf, shift, rm, amount, rn, rd) \in Seq(FieldSets)
  BY OrrTypes
<1>2. PICK v1, v2, v3 :
        /\ Leads({}, MainField(5), v1)
        /\ Leads(v1, Fieldsx101(0, 0, 0, 0), v2)
        /\ Leads(v2, LogicalFields(sf, 1), v3)
        /\ Leads(v3, OrrFields(shift, rm, amount, rn, rd), word)
  BY <1>1, LeadsFour DEF OrrSetters
<1>3. /\ \A b \in 25 .. 28 : b \in v1 <=> Tests(5, b - 25)
      /\ \A b \in (0 .. 24) \cup (29 .. 31) : b \in v1 <=> b \in {}
  BY <1>2, MainFieldWrite
<1>4. /\ \A b \in 10 .. 14 : b \in v2 <=> Tests(0, b - 10)
      /\ \A b \in 20 .. 23 : b \in v2 <=> Tests(0, b - 20)
      /\ (28 \in v2 <=> Tests(0, 0))
      /\ (30 \in v2 <=> Tests(0, 0))
      /\ \A b \in (0 .. 9) \cup (15 .. 19) \cup (24 .. 27) \cup {29} \cup {31} : b \in v2 <=> b \in v1
  BY <1>2, Fieldsx101Write
<1>5. /\ \A b \in 29 .. 30 : b \in v3 <=> Tests(1, b - 29)
      /\ (31 \in v3 <=> Tests(sf, 0))
      /\ \A b \in 0 .. 28 : b \in v3 <=> b \in v2
  BY <1>2, LogicalFieldsWrite
<1>6. /\ \A b \in 0 .. 4 : b \in word <=> Tests(rd, b - 0)
      /\ \A b \in 5 .. 9 : b \in word <=> Tests(rn, b - 5)
      /\ \A b \in 10 .. 15 : b \in word <=> Tests(amount, b - 10)
      /\ \A b \in 16 .. 20 : b \in word <=> Tests(rm, b - 16)
      /\ (21 \in word <=> Tests(0, 0))
      /\ \A b \in 22 .. 23 : b \in word <=> Tests(shift, b - 22)
      /\ \A b \in 24 .. 31 : b \in word <=> b \in v3
  BY <1>2, OrrFieldsWrite
<1>7. /\ ~Tests(0, 0) /\ Tests(5, 0) /\ ~Tests(5, 1) /\ Tests(5, 2) /\ Tests(1, 0)
      /\ ~Tests(1, 1)
  BY DEF Tests, Power
<1>8. \A b \in {21} \cup (24 .. 30) : b \in word <=> b \in {25, 27, 29}
  BY <1>3, <1>4, <1>5, <1>6, <1>7
<1>9. (31 \in word <=> Tests(sf, 0))
  BY <1>5, <1>6
<1>10. QED
  BY <1>6, <1>8, <1>9 DEF OrrBits

-----------------------------------------------------------------------------
(* What the bits of a word are read as. *)

\* That the bits from low to before high are those of v.
Reads(low, high, v) == \A b \in low .. high - 1 : b \in word <=> Tests(v, b - low)

\* BitsAre with the premise as an operator, for the provers to match.
LEMMA BitsRead ==
  ASSUME NEW v \in Int, NEW low \in 0 .. 32, NEW high \in 0 .. 32, low <= high, Reads(low, high, v)
  PROVE  Bits(low, high) = v % Power(high - low)
  BY BitsAre DEF Reads

\* The bits from 0 to before 5.
LEMMA Bits0To5 ==
  ASSUME NEW v \in Int, \A b \in 0 .. 4 : b \in word <=> Tests(v, b - 0)
  PROVE  Bits(0, 5) = v % 32
<1>1. Reads(0, 5, v)
  BY DEF Reads
<1>2. Bits(0, 5) = v % Power(5 - 0)
  BY <1>1, BitsRead
<1>3. QED
  BY <1>2, Powers

\* The bits from 5 to before 10.
LEMMA Bits5To10 ==
  ASSUME NEW v \in Int, \A b \in 5 .. 9 : b \in word <=> Tests(v, b - 5)
  PROVE  Bits(5, 10) = v % 32
<1>1. Reads(5, 10, v)
  BY DEF Reads
<1>2. Bits(5, 10) = v % Power(10 - 5)
  BY <1>1, BitsRead
<1>3. QED
  BY <1>2, Powers

\* The bits from 16 to before 21.
LEMMA Bits16To21 ==
  ASSUME NEW v \in Int, \A b \in 16 .. 20 : b \in word <=> Tests(v, b - 16)
  PROVE  Bits(16, 21) = v % 32
<1>1. Reads(16, 21, v)
  BY DEF Reads
<1>2. Bits(16, 21) = v % Power(21 - 16)
  BY <1>1, BitsRead
<1>3. QED
  BY <1>2, Powers

\* The bits from 10 to before 22.
LEMMA Bits10To22 ==
  ASSUME NEW v \in Int, \A b \in 10 .. 21 : b \in word <=> Tests(v, b - 10)
  PROVE  Bits(10, 22) = v % 4096
<1>1. Reads(10, 22, v)
  BY DEF Reads
<1>2. Bits(10, 22) = v % Power(22 - 10)
  BY <1>1, BitsRead
<1>3. QED
  BY <1>2, Powers

\* The bits from 5 to before 21.
LEMMA Bits5To21 ==
  ASSUME NEW v \in Int, \A b \in 5 .. 20 : b \in word <=> Tests(v, b - 5)
  PROVE  Bits(5, 21) = v % 65536
<1>1. Reads(5, 21, v)
  BY DEF Reads
<1>2. Bits(5, 21) = v % Power(21 - 5)
  BY <1>1, BitsRead
<1>3. QED
  BY <1>2, Powers

\* The bits from 21 to before 23.
LEMMA Bits21To23 ==
  ASSUME NEW v \in Int, \A b \in 21 .. 22 : b \in word <=> Tests(v, b - 21)
  PROVE  Bits(21, 23) = v % 4
<1>1. Reads(21, 23, v)
  BY DEF Reads
<1>2. Bits(21, 23) = v % Power(23 - 21)
  BY <1>1, BitsRead
<1>3. QED
  BY <1>2, Powers

\* The bits from 5 to before 24.
LEMMA Bits5To24 ==
  ASSUME NEW v \in Int, \A b \in 5 .. 23 : b \in word <=> Tests(v, b - 5)
  PROVE  Bits(5, 24) = v % 524288
<1>1. Reads(5, 24, v)
  BY DEF Reads
<1>2. Bits(5, 24) = v % Power(24 - 5)
  BY <1>1, BitsRead
<1>3. QED
  BY <1>2, Powers

\* The bits from 29 to before 31.
LEMMA Bits29To31 ==
  ASSUME NEW v \in Int, \A b \in 29 .. 30 : b \in word <=> Tests(v, b - 29)
  PROVE  Bits(29, 31) = v % 4
<1>1. Reads(29, 31, v)
  BY DEF Reads
<1>2. Bits(29, 31) = v % Power(31 - 29)
  BY <1>1, BitsRead
<1>3. QED
  BY <1>2, Powers

\* The bits from 0 to before 26.
LEMMA Bits0To26 ==
  ASSUME NEW v \in Int, \A b \in 0 .. 25 : b \in word <=> Tests(v, b - 0)
  PROVE  Bits(0, 26) = v % 67108864
<1>1. Reads(0, 26, v)
  BY DEF Reads
<1>2. Bits(0, 26) = v % Power(26 - 0)
  BY <1>1, BitsRead
<1>3. QED
  BY <1>2, Powers

\* The bits from 12 to before 21.
LEMMA Bits12To21 ==
  ASSUME NEW v \in Int, \A b \in 12 .. 20 : b \in word <=> Tests(v, b - 12)
  PROVE  Bits(12, 21) = v % 512
<1>1. Reads(12, 21, v)
  BY DEF Reads
<1>2. Bits(12, 21) = v % Power(21 - 12)
  BY <1>1, BitsRead
<1>3. QED
  BY <1>2, Powers

\* The bits from 13 to before 16.
LEMMA Bits13To16 ==
  ASSUME NEW v \in Int, \A b \in 13 .. 15 : b \in word <=> Tests(v, b - 13)
  PROVE  Bits(13, 16) = v % 8
<1>1. Reads(13, 16, v)
  BY DEF Reads
<1>2. Bits(13, 16) = v % Power(16 - 13)
  BY <1>1, BitsRead
<1>3. QED
  BY <1>2, Powers

\* The bits from 10 to before 16.
LEMMA Bits10To16 ==
  ASSUME NEW v \in Int, \A b \in 10 .. 15 : b \in word <=> Tests(v, b - 10)
  PROVE  Bits(10, 16) = v % 64
<1>1. Reads(10, 16, v)
  BY DEF Reads
<1>2. Bits(10, 16) = v % Power(16 - 10)
  BY <1>1, BitsRead
<1>3. QED
  BY <1>2, Powers

\* The bits from 22 to before 24.
LEMMA Bits22To24 ==
  ASSUME NEW v \in Int, \A b \in 22 .. 23 : b \in word <=> Tests(v, b - 22)
  PROVE  Bits(22, 24) = v % 4
<1>1. Reads(22, 24, v)
  BY DEF Reads
<1>2. Bits(22, 24) = v % Power(24 - 22)
  BY <1>1, BitsRead
<1>3. QED
  BY <1>2, Powers

\* A flag's field is the flag.
LEMMA OneBit == \A x \in BOOLEAN : One(x) \in 0 .. 1 /\ (Tests(One(x), 0) <=> x)
<1>1. Tests(1, 0) /\ ~Tests(0, 0)
  BY DEF Tests, Power
<1>2. QED
  BY <1>1 DEF One

\* Five bits of a register's index, which is 127 for none, name the register.
LEMMA RegistersAre ==
  ASSUME NEW r \in AnyRegister
  PROVE  /\ (\A b \in 0 .. 4 : b \in word <=> Tests(r.index, b - 0)) => RdIs(r)
         /\ (\A b \in 5 .. 9 : b \in word <=> Tests(r.index, b - 5)) => RnIs(r)
         /\ (\A b \in 16 .. 20 : b \in word <=> Tests(r.index, b - 16)) => RmIs(r)
         /\ \A bit : (bit \in word <=> Tests(One(r.is64), 0)) => Wide(bit, r)
<1>1. r.index \in Int /\ r.is64 \in BOOLEAN
  BY DEF AnyRegister
<1>2. (\A b \in 0 .. 4 : b \in word <=> Tests(r.index, b - 0)) => RdIs(r)
  BY <1>1, Bits0To5 DEF RdIs
<1>3. (\A b \in 5 .. 9 : b \in word <=> Tests(r.index, b - 5)) => RnIs(r)
  BY <1>1, Bits5To10 DEF RnIs
<1>4. (\A b \in 16 .. 20 : b \in word <=> Tests(r.index, b - 16)) => RmIs(r)
  BY <1>1, Bits16To21 DEF RmIs
<1>5. \A bit : (bit \in word <=> Tests(One(r.is64), 0)) => Wide(bit, r)
  BY <1>1, OneBit DEF Wide
<1>6. QED
  BY <1>2, <1>3, <1>4, <1>5

\* A distance cut to nineteen bits keeps its sign bit, though the shift filled in zeros.
LEMMA SignOf18 ==
  ASSUME NEW c \in Int, -262144 <= c, c < 262144, NEW v \in Int, v = c \/ v = c + 1073741824
  PROVE  (Tests(v, 18) <=> c < 0) /\ v % 524288 = IF c < 0 THEN c + 524288 ELSE c
<1>1. Power(18) = 262144
  BY Powers, SMT
<1>2. v % 524288 = IF c < 0 THEN c + 524288 ELSE c
  BY SMT
<1>3. (v \div 262144) % 2 = 1 <=> c < 0
  BY SMT
<1>4. QED
  BY <1>1, <1>2, <1>3, SMT DEF Tests

\* Such a field reads back as the distance.
LEMMA Signed5To24 ==
  ASSUME NEW c \in Int, -262144 <= c, c < 262144, NEW v \in Int, v = c \/ v = c + 1073741824,
         \A b \in 5 .. 23 : b \in word <=> Tests(v, b - 5)
  PROVE  SignedBits(5, 24) = c
<1>1. Bits(5, 24) = v % 524288
  BY Bits5To24, SMT
<1>2. 23 \in word <=> Tests(v, 18)
  BY SMT
<1>3. (Tests(v, 18) <=> c < 0) /\ v % 524288 = IF c < 0 THEN c + 524288 ELSE c
  BY SignOf18, SMT
<1>4. 2^(24 - 5) = 524288
  BY SMT
<1>5. SignedBits(5, 24) = Bits(5, 24) - IF 23 \in word THEN 524288 ELSE 0
  BY <1>4, SMT DEF SignedBits
<1>6. QED
  BY <1>1, <1>2, <1>3, <1>5, SMT

\* The same for the branches' twenty-six bits,
LEMMA SignOf25 ==
  ASSUME NEW c \in Int, -33554432 <= c, c < 33554432, NEW v \in Int, v = c \/ v = c + 1073741824
  PROVE  (Tests(v, 25) <=> c < 0) /\ v % 67108864 = IF c < 0 THEN c + 67108864 ELSE c
<1>1. Power(25) = 33554432
  BY Powers, SMT
<1>2. v % 67108864 = IF c < 0 THEN c + 67108864 ELSE c
  BY SMT
<1>3. (v \div 33554432) % 2 = 1 <=> c < 0
  BY SMT
<1>4. QED
  BY <1>1, <1>2, <1>3, SMT DEF Tests

\* which read back as the distance,
LEMMA Signed0To26 ==
  ASSUME NEW c \in Int, -33554432 <= c, c < 33554432, NEW v \in Int, v = c \/ v = c + 1073741824,
         \A b \in 0 .. 25 : b \in word <=> Tests(v, b - 0)
  PROVE  SignedBits(0, 26) = c
<1>1. Bits(0, 26) = v % 67108864
  BY Bits0To26, SMT
<1>2. 25 \in word <=> Tests(v, 25)
  BY SMT
<1>3. (Tests(v, 25) <=> c < 0) /\ v % 67108864 = IF c < 0 THEN c + 67108864 ELSE c
  BY SignOf25, SMT
<1>4. 2^(26 - 0) = 67108864
  BY SMT
<1>5. SignedBits(0, 26) = Bits(0, 26) - IF 25 \in word THEN 67108864 ELSE 0
  BY <1>4, SMT DEF SignedBits
<1>6. QED
  BY <1>1, <1>2, <1>3, <1>5, SMT

\* and for the nine bits of an unscaled offset.
LEMMA Signed12To21 ==
  ASSUME NEW v \in Int, -256 <= v, v < 256, \A b \in 12 .. 20 : b \in word <=> Tests(v, b - 12)
  PROVE  SignedBits(12, 21) = v
<1>1. Bits(12, 21) = v % 512
  BY Bits12To21, SMT
<1>2. 20 \in word <=> Tests(v, 8)
  BY SMT
<1>3. Power(8) = 256
  BY Powers, SMT
<1>4. Tests(v, 8) <=> v < 0
  BY <1>3, SMT DEF Tests
<1>5. 2^(21 - 12) = 512
  BY SMT
<1>6. SignedBits(12, 21) = Bits(12, 21) - IF 20 \in word THEN 512 ELSE 0
  BY <1>5, SMT DEF SignedBits
<1>7. QED
  BY <1>1, <1>2, <1>4, <1>6, SMT

-----------------------------------------------------------------------------
(* Operations. *)

\* What an operation's operands are.
LEMMA OperandTypes ==
  ASSUME NEW o \in Operations
  PROVE  /\ o.mn \in Mnemonics /\ o.rd \in AnyRegister /\ o.rn \in AnyRegister /\ o.rm \in AnyRegister
         /\ o.imm \in Int /\ o.shift \in Nat /\ o.amount \in Nat
  BY OperationsAssumption

\* What a register's parts are.
LEMMA RegisterTypes ==
  /\ \A r \in AnyRegister : r.is64 \in BOOLEAN /\ r.index \in 0 .. 127 /\ r.index \in Int
  /\ \A b \in BOOLEAN : None(b) \in AnyRegister /\ None(b).is64 = b /\ None(b).index = 127
<1>1. \A r \in AnyRegister : r.is64 \in BOOLEAN /\ r.index \in 0 .. 127 /\ r.index \in Int
  BY DEF AnyRegister
<1>2. \A b \in BOOLEAN : None(b) \in AnyRegister /\ None(b).is64 = b /\ None(b).index = 127
  BY DEF None, Reg, AnyRegister
<1>3. QED
  BY <1>1, <1>2

\* What Encodable says of each mnemonic.
LEMMA EncodableIs ==
  ASSUME NEW o, Encodable(o)
  PROVE  /\ o.mn \in AddsSubs => EncodableAddition(o)
         /\ o.mn \in Moves => EncodableMove(o)
         /\ o.mn = "adr" => EncodableAddress(o.imm)
         /\ o.mn = "adrp" => EncodablePage(o.imm)
         /\ o.mn \in {"b", "bl"} => EncodableBranch(o.imm)
         /\ o.mn = "ldr_literal" => o.imm % 4 = 0 /\ EncodableAddress(o.imm)
         /\ o.mn \in {"ldur", "stur"} => EncodableUnscaled(o.imm)
         /\ o.mn \in {"ldr", "str"} => EncodableUnsigned(o.imm)
         /\ o.mn \in {"ldr_offset", "str_offset"} => EncodableOffset(o)
         /\ o.mn = "orr" => EncodableLogical(o)
<1>1. o.mn \in AddsSubs => EncodableAddition(o)
  BY SMT DEF Encodable, AddsSubs, Moves
<1>2. o.mn \in Moves => EncodableMove(o)
  BY SMT DEF Encodable, AddsSubs, Moves
<1>3. o.mn = "adr" => EncodableAddress(o.imm)
  BY SMT DEF Encodable, AddsSubs, Moves
<1>4. o.mn = "adrp" => EncodablePage(o.imm)
  BY SMT DEF Encodable, AddsSubs, Moves
<1>5. o.mn \in {"b", "bl"} => EncodableBranch(o.imm)
  BY SMT DEF Encodable, AddsSubs, Moves
<1>6. o.mn = "ldr_literal" => o.imm % 4 = 0 /\ EncodableAddress(o.imm)
  BY SMT DEF Encodable, AddsSubs, Moves
<1>7. o.mn \in {"ldur", "stur"} => EncodableUnscaled(o.imm)
  BY SMT DEF Encodable, AddsSubs, Moves
<1>8. o.mn \in {"ldr", "str"} => EncodableUnsigned(o.imm)
  BY SMT DEF Encodable, AddsSubs, Moves
<1>9. o.mn \in {"ldr_offset", "str_offset"} => EncodableOffset(o)
  BY SMT DEF Encodable, AddsSubs, Moves
<1>10. o.mn = "orr" => EncodableLogical(o)
  BY SMT DEF Encodable, AddsSubs, Moves
<1>11. QED
  BY <1>1, <1>2, <1>3, <1>4, <1>5, <1>6, <1>7, <1>8, <1>9, <1>10

\* The two fields of an addition's immediate are its value.
LEMMA ImmediateFields ==
  ASSUME NEW imm \in Int, AdditionImmediate(imm)
  PROVE  /\ CalcImm(imm) \in Int /\ CalcSh(imm) \in BOOLEAN
         /\ (CalcImm(imm) % 4096) * (IF CalcSh(imm) THEN 4096 ELSE 1) = imm
<1>1. CASE CalcSh(imm)
  <2>1. imm % 4096 = 0 /\ imm >= 0 /\ imm # 0
    <3>1. imm % 4096 = 0 /\ imm # 0
      BY <1>1 DEF CalcSh
    <3>2. \/ 0 <= imm /\ imm < 4096
          \/ 0 <= imm \div 4096 /\ imm \div 4096 < 4096
      BY DEF AdditionImmediate
    <3>3. QED
      BY <3>1, <3>2, SMT
  <2>2. imm \div 4096 \in 0 .. 4095 /\ (imm \div 4096) * 4096 = imm
    BY <2>1, SMT DEF AdditionImmediate
  <2>3. CalcImm(imm) = (imm \div 4096) % 65536
    <3>1. ShiftedRight(imm, 12) = imm \div 4096
      <4>1. 2^12 = 4096
        BY SMT
      <4>2. QED
        BY <2>1, <4>1, SMT DEF ShiftedRight
    <3>2. QED
      BY <1>1, <3>1, SMT DEF CalcImm
  <2>4. CalcImm(imm) = imm \div 4096
    BY <2>2, <2>3, SMT
  <2>5. QED
    BY <1>1, <2>2, <2>4, SMT DEF CalcSh
<1>2. CASE ~CalcSh(imm)
  <2>1. 0 <= imm /\ imm < 4096
    BY <1>2, SMT DEF CalcSh, AdditionImmediate
  <2>2. CalcImm(imm) = imm
    BY <1>2, <2>1, SMT DEF CalcImm
  <2>3. QED
    BY <1>2, <2>1, <2>2, SMT DEF CalcSh
<1>3. QED
  BY <1>1, <1>2

-----------------------------------------------------------------------------
(* Additions and subtractions. *)

\* The constructors, with what they call, are those fields.
LEMMA AdditionIs ==
  \A rd, rn, imm :
    /\ AddImmediate(rd, rn, imm) =
         AddSubtractSetters(One(rd.is64), 0, 0, rd.index, rn.index, CalcImm(imm), One(CalcSh(imm)))
    /\ AddsImmediate(rd, rn, imm) =
         AddSubtractSetters(One(rd.is64), 0, 1, rd.index, rn.index, CalcImm(imm), One(CalcSh(imm)))
    /\ SubImmediate(rd, rn, imm) =
         AddSubtractSetters(One(rd.is64), 1, 0, rd.index, rn.index, CalcImm(imm), One(CalcSh(imm)))
    /\ SubsImmediate(rd, rn, imm) =
         AddSubtractSetters(One(rd.is64), 1, 1, rd.index, rn.index, CalcImm(imm), One(CalcSh(imm)))
  BY DEF AddImmediate, AddsImmediate, SubImmediate, SubsImmediate, AddSubtractImmediate, Operands,
         Op100xInstruction, Instruction, AddSubtractSetters, MainField, Field100x, AddSubtractFields, OperandFields

\* The bits of an addition or subtraction, read as its decoder does.
LEMMA AddSubtractRead ==
  ASSUME NEW rd \in AnyRegister, NEW rn \in AnyRegister, NEW imm \in Int, AdditionImmediate(imm),
         NEW op, op = 0 \/ op = 1, NEW s, s = 0 \/ s = 1,
         AddSubtractBits(One(rd.is64), op, s, rd.index, rn.index, CalcImm(imm), One(CalcSh(imm)))
  PROVE  /\ Fixed(23 .. 30, {24, 28} \cup (IF op = 1 THEN {30} ELSE {}) \cup (IF s = 0 THEN {} ELSE {29}))
         /\ Bits(10, 22) * (IF 22 \in word THEN 4096 ELSE 1) = imm
         /\ Wide(31, rd) /\ RnIs(rn) /\ RdIs(rd)
<1>1. CalcImm(imm) \in Int /\ CalcSh(imm) \in BOOLEAN
  BY ImmediateFields
<1>2. /\ \A b \in 23 .. 28 : b \in word <=> b \in {24, 28}
      /\ \A b \in 0 .. 4 : b \in word <=> Tests(rd.index, b - 0)
      /\ \A b \in 5 .. 9 : b \in word <=> Tests(rn.index, b - 5)
      /\ \A b \in 10 .. 21 : b \in word <=> Tests(CalcImm(imm), b - 10)
      /\ 22 \in word <=> Tests(One(CalcSh(imm)), 0)
      /\ 29 \in word <=> Tests(s, 0)
      /\ 30 \in word <=> Tests(op, 0)
      /\ 31 \in word <=> Tests(One(rd.is64), 0)
  BY DEF AddSubtractBits
<1>3. Fixed(23 .. 30, {24, 28} \cup (IF op = 1 THEN {30} ELSE {}) \cup (IF s = 0 THEN {} ELSE {29}))
  <2>1. (Tests(op, 0) <=> op = 1) /\ (Tests(s, 0) <=> s # 0)
    BY DEF Tests, Power
  <2>2. \A b \in 23 .. 30 : b \in word <=> b \in {24, 28} \/ (b = 30 /\ op = 1) \/ (b = 29 /\ s # 0)
    BY <1>2, <2>1
  <2>3. QED
    BY <2>2 DEF Fixed
<1>4. Bits(10, 22) * (IF 22 \in word THEN 4096 ELSE 1) = imm
  <2>1. Bits(10, 22) = CalcImm(imm) % 4096
    BY <1>1, <1>2, Bits10To22
  <2>2. 22 \in word <=> CalcSh(imm)
    BY <1>1, <1>2, OneBit
  <2>3. QED
    BY <2>1, <2>2, ImmediateFields, SMT
<1>5. Wide(31, rd) /\ RnIs(rn) /\ RdIs(rd)
  BY <1>2, RegistersAre
<1>6. QED
  BY <1>3, <1>4, <1>5

\* So it has for registers.
LEMMA AddSubtractReads ==
  ASSUME NEW rd \in AnyRegister, NEW rn \in AnyRegister, NEW i \in Int, NEW sh \in BOOLEAN,
         NEW op \in Int, NEW s \in Int,
         Leads({}, AddSubtractSetters(One(rd.is64), op, s, rd.index, rn.index, i, One(sh)), word)
  PROVE  AddSubtractBits(One(rd.is64), op, s, rd.index, rn.index, i, One(sh))
<1>1. One(rd.is64) \in Int /\ One(sh) \in Int /\ rd.index \in Int /\ rn.index \in Int
  BY RegisterTypes, OneBit
<1>2. QED
  BY <1>1, AddSubtractWord

\* The word of an addition or subtraction decodes as it.
LEMMA AddSubtractDecodes ==
  ASSUME NEW o \in Operations, o.mn \in AddsSubs, Encodable(o), Leads({}, Constructors(o), word)
  PROVE  Decodes(o)
<1>1. PICK dest \in AnyRegister, rn \in AnyRegister, imm \in Int : dest = o.rd /\ rn = o.rn /\ imm = o.imm
  BY OperandTypes
<1>2. AdditionImmediate(imm) /\ (o.mn \in {"cmn", "cmp"} \/ dest.is64 = rn.is64)
  <2>1. EncodableAddition(o)
    BY EncodableIs
  <2>2. QED
    BY <1>1, <2>1 DEF EncodableAddition
<1>3. PICK rd \in AnyRegister : rd = IF o.mn \in {"cmn", "cmp"} THEN None(rn.is64) ELSE dest
  BY RegisterTypes
<1>4. PICK op, s : /\ op = IF o.mn \in {"sub", "subs", "cmp"} THEN 1 ELSE 0
                   /\ s = IF o.mn \in {"add", "sub"} THEN 0 ELSE 1
  OBVIOUS
<1>5. Constructors(o) = AddSubtractSetters(One(rd.is64), op, s, rd.index, rn.index, CalcImm(imm), One(CalcSh(imm)))
  <2>1. CASE o.mn = "add"
    <3>1. Constructors(o) = AddImmediate(rd, rn, imm) /\ op = 0 /\ s = 0
      BY <1>1, <1>3, <1>4, <2>1 DEF Constructors
    <3>2. QED
      BY <3>1, AdditionIs
  <2>2. CASE o.mn = "adds"
    <3>1. Constructors(o) = AddsImmediate(rd, rn, imm) /\ op = 0 /\ s = 1
      BY <1>1, <1>3, <1>4, <2>2 DEF Constructors
    <3>2. QED
      BY <3>1, AdditionIs
  <2>3. CASE o.mn = "sub"
    <3>1. Constructors(o) = SubImmediate(rd, rn, imm) /\ op = 1 /\ s = 0
      BY <1>1, <1>3, <1>4, <2>3 DEF Constructors
    <3>2. QED
      BY <3>1, AdditionIs
  <2>4. CASE o.mn = "subs"
    <3>1. Constructors(o) = SubsImmediate(rd, rn, imm) /\ op = 1 /\ s = 1
      BY <1>1, <1>3, <1>4, <2>4 DEF Constructors
    <3>2. QED
      BY <3>1, AdditionIs
  <2>5. CASE o.mn = "cmn"
    <3>1. Constructors(o) = AddsImmediate(rd, rn, imm) /\ op = 0 /\ s = 1
      BY <1>1, <1>3, <1>4, <2>5 DEF Constructors, CmnImmediate
    <3>2. QED
      BY <3>1, AdditionIs
  <2>6. CASE o.mn = "cmp"
    <3>1. Constructors(o) = SubsImmediate(rd, rn, imm) /\ op = 1 /\ s = 1
      BY <1>1, <1>3, <1>4, <2>6 DEF Constructors, CmpImmediate
    <3>2. QED
      BY <3>1, AdditionIs
  <2>7. QED
    BY <2>1, <2>2, <2>3, <2>4, <2>5, <2>6 DEF AddsSubs
<1>6. CalcImm(imm) \in Int /\ CalcSh(imm) \in BOOLEAN
  BY <1>2, ImmediateFields
<1>7. AddSubtractBits(One(rd.is64), op, s, rd.index, rn.index, CalcImm(imm), One(CalcSh(imm)))
  <2>1. op \in Int /\ s \in Int
    BY <1>4
  <2>2. QED
    BY <1>5, <1>6, <2>1, AddSubtractReads
<1>8. /\ Fixed(23 .. 30, {24, 28} \cup (IF op = 1 THEN {30} ELSE {}) \cup (IF s = 0 THEN {} ELSE {29}))
      /\ Bits(10, 22) * (IF 22 \in word THEN 4096 ELSE 1) = imm
      /\ Wide(31, rd) /\ RnIs(rn) /\ RdIs(rd)
  <2>1. (op = 0 \/ op = 1) /\ (s = 0 \/ s = 1)
    BY <1>4
  <2>2. QED
    BY <1>2, <1>7, <2>1, AddSubtractRead
<1>9. DecodesAddition(o)
  <2>1. Fixed(23 .. 30, {24, 28} \cup (IF o.mn \in {"sub", "subs", "cmp"} THEN {30} ELSE {})
                                 \cup (IF o.mn \in {"add", "sub"} THEN {} ELSE {29}))
    BY <1>4, <1>8
  <2>2. Wide(31, o.rn)
    BY <1>1, <1>2, <1>3, <1>8, RegisterTypes DEF Wide
  <2>3. IF o.mn \in {"cmn", "cmp"} THEN Bits(0, 5) = 31 ELSE RdIs(o.rd)
    <3>1. None(rn.is64).index % 32 = 31
      BY RegisterTypes
    <3>2. QED
      BY <1>1, <1>3, <1>8, <3>1 DEF RdIs
  <2>4. QED
    BY <1>1, <1>8, <2>1, <2>2, <2>3 DEF DecodesAddition
<1>10. QED
  BY <1>9 DEF Decodes, AddsSubs, Moves

-----------------------------------------------------------------------------
(* Wide moves. *)

\* A field that holds what is given.
Below(v, n) == v \in Int /\ 0 <= v /\ v < n

\* The constructors, with what they call, are those fields.
LEMMA MovesAre ==
  \A rd, imm, shift :
    /\ Movn(rd, imm, shift) = MoveWideSetters(One(rd.is64), 0, shift, imm, rd.index)
    /\ Movz(rd, imm, shift) = MoveWideSetters(One(rd.is64), 2, shift, imm, rd.index)
    /\ Movk(rd, imm, shift) = MoveWideSetters(One(rd.is64), 3, shift, imm, rd.index)
  BY DEF Movn, Movz, Movk, MoveWideImmediate, Op100xInstruction, Instruction, MoveWideSetters,
         MainField, Field100x,
         MoveWideFields

\* So it has for registers.
LEMMA MoveWideReads ==
  ASSUME NEW rd \in AnyRegister, NEW opc \in Int, NEW hw \in Int, NEW imm \in Int,
         Leads({}, MoveWideSetters(One(rd.is64), opc, hw, imm, rd.index), word)
  PROVE  MoveWideBits(One(rd.is64), opc, hw, imm, rd.index)
<1>1. One(rd.is64) \in Int /\ rd.index \in Int
  BY RegisterTypes, OneBit
<1>2. QED
  BY <1>1, MoveWideWord

\* The bits of a wide move, read as its decoder does.
LEMMA MoveWideRead ==
  ASSUME NEW rd \in AnyRegister, NEW imm, Below(imm, 65536), NEW hw, Below(hw, 4),
         NEW opc, opc = 0 \/ opc = 2 \/ opc = 3, MoveWideBits(One(rd.is64), opc, hw, imm, rd.index)
  PROVE  /\ Fixed(23 .. 30, {23, 25, 28} \cup (IF opc = 0 THEN {} ELSE IF opc = 2 THEN {30} ELSE {29, 30}))
         /\ Wide(31, rd) /\ RdIs(rd) /\ Bits(5, 21) = imm /\ Bits(21, 23) = hw
<1>1. /\ \A b \in 23 .. 28 : b \in word <=> b \in {23, 25, 28}
      /\ \A b \in 0 .. 4 : b \in word <=> Tests(rd.index, b - 0)
      /\ \A b \in 5 .. 20 : b \in word <=> Tests(imm, b - 5)
      /\ \A b \in 21 .. 22 : b \in word <=> Tests(hw, b - 21)
      /\ \A b \in 29 .. 30 : b \in word <=> Tests(opc, b - 29)
      /\ 31 \in word <=> Tests(One(rd.is64), 0)
  BY DEF MoveWideBits
<1>2. Fixed(23 .. 30, {23, 25, 28} \cup (IF opc = 0 THEN {} ELSE IF opc = 2 THEN {30} ELSE {29, 30}))
  <2>1. (Tests(opc, 0) <=> opc = 3) /\ (Tests(opc, 1) <=> opc # 0)
    BY DEF Tests, Power
  <2>2. (29 \in word <=> Tests(opc, 0)) /\ (30 \in word <=> Tests(opc, 1))
    BY <1>1
  <2>3. \A b \in 23 .. 30 : b \in word <=> b \in {23, 25, 28} \/ (b = 30 /\ opc # 0) \/ (b = 29 /\ opc = 3)
    BY <1>1, <2>1, <2>2
  <2>4. QED
    BY <2>3 DEF Fixed
<1>3. Bits(5, 21) = imm
  <2>1. imm \in Int /\ imm % 65536 = imm
    BY SMT DEF Below
  <2>2. Bits(5, 21) = imm % 65536
    BY <1>1, <2>1, Bits5To21, SMT
  <2>3. QED
    BY <2>1, <2>2, SMT
<1>4. Bits(21, 23) = hw
  <2>1. hw \in Int /\ hw % 4 = hw
    BY DEF Below
  <2>2. Bits(21, 23) = hw % 4
    BY <1>1, <2>1, Bits21To23
  <2>3. QED
    BY <2>1, <2>2
<1>5. Wide(31, rd) /\ RdIs(rd)
  BY <1>1, RegistersAre
<1>6. QED
  BY <1>2, <1>3, <1>4, <1>5

\* The word of a wide move decodes as it.
LEMMA MoveWideDecodes ==
  ASSUME NEW o \in Operations, o.mn \in Moves, Encodable(o), Leads({}, Constructors(o), word)
  PROVE  Decodes(o)
<1>1. PICK rd \in AnyRegister, imm \in Int, hw \in Int : rd = o.rd /\ imm = o.imm /\ hw = o.shift
  BY OperandTypes
<1>2. Below(imm, 65536) /\ Below(hw, 4)
  <2>1. EncodableMove(o)
    BY EncodableIs
  <2>2. imm \in 0 .. 2^16 - 1 /\ hw \in 0 .. IF rd.is64 THEN 3 ELSE 1
    BY <1>1, <2>1, SMT DEF EncodableMove
  <2>3. QED
    BY <2>2, SMT DEF Below
<1>3. PICK opc : opc = IF o.mn = "movn" THEN 0 ELSE IF o.mn = "movz" THEN 2 ELSE 3
  OBVIOUS
<1>4. Constructors(o) = MoveWideSetters(One(rd.is64), opc, hw, imm, rd.index)
  <2>1. CASE o.mn = "movn"
    <3>1. Constructors(o) = Movn(rd, imm, hw) /\ opc = 0
      BY <1>1, <1>3, <2>1 DEF Constructors
    <3>2. QED
      BY <3>1, MovesAre
  <2>2. CASE o.mn = "movz"
    <3>1. Constructors(o) = Movz(rd, imm, hw) /\ opc = 2
      BY <1>1, <1>3, <2>2 DEF Constructors
    <3>2. QED
      BY <3>1, MovesAre
  <2>3. CASE o.mn = "movk"
    <3>1. Constructors(o) = Movk(rd, imm, hw) /\ opc = 3
      BY <1>1, <1>3, <2>3 DEF Constructors
    <3>2. QED
      BY <3>1, MovesAre
  <2>4. QED
    BY <2>1, <2>2, <2>3 DEF Moves
<1>5. (opc = 0 \/ opc = 2 \/ opc = 3) /\ opc \in Int
  BY <1>3
<1>6. MoveWideBits(One(rd.is64), opc, hw, imm, rd.index)
  BY <1>4, <1>5, MoveWideReads
<1>7. /\ Fixed(23 .. 30, {23, 25, 28} \cup (IF opc = 0 THEN {} ELSE IF opc = 2 THEN {30} ELSE {29, 30}))
      /\ Wide(31, rd) /\ RdIs(rd) /\ Bits(5, 21) = imm /\ Bits(21, 23) = hw
  BY <1>2, <1>5, <1>6, MoveWideRead
<1>8. DecodesMove(o)
  <2>1. Fixed(23 .. 30, {23, 25, 28} \cup (IF o.mn = "movn" THEN {} ELSE IF o.mn = "movz" THEN {30} ELSE {29, 30}))
    BY <1>3, <1>7
  <2>2. QED
    BY <1>1, <1>7, <2>1 DEF DecodesMove
<1>9. QED
  BY <1>8 DEF Decodes, AddsSubs, Moves

-----------------------------------------------------------------------------
(* Addresses near the program counter. *)

\* The constructors, with what they call, are those fields.
LEMMA AddressesAre ==
  \A rd, imm :
    /\ Adr(rd, imm) = PcRelSetters(0, imm, ShiftedRight(imm, 2), rd.index)
    /\ Adrp(rd, imm) = PcRelSetters(1, ShiftedRight(imm, 12), ShiftedRight(ShiftedRight(imm, 12), 2), rd.index)
  BY DEF Adr, Adrp, PcRelAddressing, Op100xInstruction, Instruction, PcRelSetters, MainField, Field100x,
         PcRelFields

\* So it has for registers.
LEMMA PcRelReads ==
  ASSUME NEW rd \in AnyRegister, NEW op \in Int, NEW imm \in Int, NEW immhi \in Int,
         Leads({}, PcRelSetters(op, imm, immhi, rd.index), word)
  PROVE  PcRelBits(op, imm, immhi, rd.index)
<1>1. rd.index \in Int
  BY RegisterTypes
<1>2. QED
  BY <1>1, PcRelWord

\* A signed field that does.
Signed(v, n) == v \in Int /\ -n <= v /\ v < n

\* An unsigned shift by two of a signed number is its quarter, or that and 2^30.
LEMMA ShiftedTwice ==
  ASSUME NEW v \in Int
  PROVE  /\ ShiftedRight(v, 2) \in Int
         /\ ShiftedRight(v, 2) = v \div 4 \/ ShiftedRight(v, 2) = (v \div 4) + 1073741824
         /\ 4 * (v \div 4) + (v % 4) = v
<1>1. 2^2 = 4 /\ 2^(32 - 2) = 1073741824
  BY SMT
<1>2. ShiftedRight(v, 2) = (v \div 4) + IF v < 0 THEN 1073741824 ELSE 0
  BY <1>1, SMT DEF ShiftedRight
<1>3. 4 * (v \div 4) + (v % 4) = v
  BY SMT
<1>4. QED
  BY <1>2, <1>3, SMT

\* A distance of 21 bits reads back from its two fields.
LEMMA PcRelRead ==
  ASSUME NEW rd \in AnyRegister, NEW imm, Signed(imm, 1048576),
         NEW op, op = 0 \/ op = 1, PcRelBits(op, imm, ShiftedRight(imm, 2), rd.index)
  PROVE  /\ Fixed({24, 25, 26, 27, 28, 31}, {28} \cup IF op = 1 THEN {31} ELSE {})
         /\ RdIs(rd) /\ 4 * SignedBits(5, 24) + Bits(29, 31) = imm
<1>1. /\ \A b \in 24 .. 28 : b \in word <=> b \in {28}
      /\ \A b \in 0 .. 4 : b \in word <=> Tests(rd.index, b - 0)
      /\ \A b \in 5 .. 23 : b \in word <=> Tests(ShiftedRight(imm, 2), b - 5)
      /\ \A b \in 29 .. 30 : b \in word <=> Tests(imm, b - 29)
      /\ 31 \in word <=> Tests(op, 0)
  BY DEF PcRelBits
<1>2. Fixed({24, 25, 26, 27, 28, 31}, {28} \cup IF op = 1 THEN {31} ELSE {})
  <2>1. Tests(op, 0) <=> op = 1
    BY DEF Tests, Power
  <2>2. \A b \in {24, 25, 26, 27, 28, 31} : b \in word <=> b = 28 \/ (b = 31 /\ op = 1)
    BY <1>1, <2>1
  <2>3. QED
    BY <2>2 DEF Fixed
<1>3. 4 * SignedBits(5, 24) + Bits(29, 31) = imm
  <2>1. imm \in Int
    BY DEF Signed
  <2>2. PICK c \in Int, v \in Int :
          /\ c = imm \div 4 /\ v = ShiftedRight(imm, 2) /\ (v = c \/ v = c + 1073741824)
                                   /\ 4 * c + (imm % 4) = imm
    BY <2>1, ShiftedTwice, SMT
  <2>3. -262144 <= c /\ c < 262144
    BY <2>1, <2>2, SMT DEF Signed
  <2>4. \A b \in 5 .. 23 : b \in word <=> Tests(v, b - 5)
    BY <1>1, <2>2, SMT
  <2>5. SignedBits(5, 24) = c
    BY <2>2, <2>3, <2>4, Signed5To24, SMT
  <2>6. Bits(29, 31) = imm % 4
    BY <1>1, <2>1, Bits29To31
  <2>7. QED
    BY <2>2, <2>5, <2>6, SMT
<1>4. RdIs(rd)
  BY <1>1, RegistersAre
<1>5. QED
  BY <1>2, <1>3, <1>4

\* The word of an adr or adrp decodes as it.
LEMMA PcRelDecodes ==
  ASSUME NEW o \in Operations, o.mn \in {"adr", "adrp"}, Encodable(o), Leads({}, Constructors(o), word)
  PROVE  Decodes(o)
<1>1. PICK rd \in AnyRegister, given \in Int : rd = o.rd /\ given = o.imm
  BY OperandTypes
<1>2. PICK imm, op : /\ imm = IF o.mn = "adrp" THEN ShiftedRight(given, 12) ELSE given
                     /\ op = IF o.mn = "adrp" THEN 1 ELSE 0
  OBVIOUS
<1>3. Signed(imm, 1048576) /\ imm = IF o.mn = "adrp" THEN given \div 4096 ELSE given
  <2>1. CASE o.mn = "adr"
    <3>1. given \in -(2^20) .. 2^20 - 1
      <4>1. EncodableAddress(o.imm)
        BY <2>1, EncodableIs
      <4>2. QED
        BY <1>1, <4>1, SMT DEF EncodableAddress
    <3>2. QED
      BY <3>1, <2>1, <1>2, SMT DEF Signed
  <2>2. CASE o.mn = "adrp"
    <3>1. given % 4096 = 0 /\ given \div 4096 \in 0 .. 2^20 - 1
      <4>1. EncodablePage(o.imm)
        BY <2>2, EncodableIs
      <4>2. QED
        BY <1>1, <4>1, SMT DEF EncodablePage
    <3>2. given >= 0
      <4>1. 0 <= given \div 4096
        BY <3>1, SMT
      <4>2. QED
        BY <4>1, SMT
    <3>3. 2^12 = 4096
      BY SMT
    <3>4. ShiftedRight(given, 12) = given \div 4096
      BY <3>2, <3>3, SMT DEF ShiftedRight
    <3>5. imm = given \div 4096
      BY <1>2, <2>2, <3>4
    <3>6. Signed(given \div 4096, 1048576)
      BY <3>1, SMT DEF Signed
    <3>7. QED
      BY <2>2, <3>5, <3>6
  <2>3. QED
    BY <2>1, <2>2
<1>4. Constructors(o) = PcRelSetters(op, imm, ShiftedRight(imm, 2), rd.index)
  <2>1. CASE o.mn = "adr"
    <3>1. Constructors(o) = Adr(rd, given) /\ op = 0 /\ imm = given
      BY <1>1, <1>2, <2>1 DEF Constructors
    <3>2. QED
      BY <3>1, AddressesAre
  <2>2. CASE o.mn = "adrp"
    <3>1. Constructors(o) = Adrp(rd, given) /\ op = 1 /\ imm = ShiftedRight(given, 12)
      BY <1>1, <1>2, <2>2 DEF Constructors
    <3>2. QED
      BY <3>1, AddressesAre
  <2>3. QED
    BY <2>1, <2>2
<1>5. (op = 0 \/ op = 1) /\ op \in Int /\ imm \in Int
  BY <1>2, <1>3 DEF Signed
<1>6. ShiftedRight(imm, 2) \in Int
  BY <1>5, ShiftedTwice, SMT
<1>7. PcRelBits(op, imm, ShiftedRight(imm, 2), rd.index)
  BY <1>4, <1>5, <1>6, PcRelReads
<1>8. /\ Fixed({24, 25, 26, 27, 28, 31}, {28} \cup IF op = 1 THEN {31} ELSE {})
      /\ RdIs(rd) /\ 4 * SignedBits(5, 24) + Bits(29, 31) = imm
  BY <1>3, <1>5, <1>7, PcRelRead, SMT
<1>9. DecodesAddress(o)
  <2>1. Fixed({24, 25, 26, 27, 28, 31}, {28} \cup IF o.mn = "adrp" THEN {31} ELSE {})
    BY <1>2, <1>8
  <2>2. QED
    BY <1>1, <1>3, <1>8, <2>1 DEF DecodesAddress
<1>10. QED
  BY <1>9 DEF Decodes, AddsSubs, Moves

-----------------------------------------------------------------------------
(* Branches. *)

\* The constructors, with what they call, are those fields.
LEMMA BranchesAre ==
  \A imm :
    /\ Branch(imm) = BranchImmediateSetters(0, ShiftedRight(imm, 2))
    /\ BranchLink(imm) = BranchImmediateSetters(1, ShiftedRight(imm, 2))
  BY DEF Branch, BranchLink, UnconditionalBranchImmediate, Op101xInstruction, Instruction,
         BranchImmediateSetters,
         MainField, Field101x, BranchImmediateFields

\* A distance to another instruction, in a field of words.
WordDistance(imm, n) == imm \in Int /\ imm % 4 = 0 /\ -n <= imm /\ imm < n

\* The bits of a branch to a distance, read as its decoder does.
LEMMA BranchImmediateRead ==
  ASSUME NEW imm, WordDistance(imm, 134217728), NEW op, op = 0 \/ op = 1,
         BranchImmediateBits(op, ShiftedRight(imm, 2))
  PROVE  /\ Fixed(26 .. 31, {26, 28} \cup IF op = 1 THEN {31} ELSE {})
         /\ 4 * SignedBits(0, 26) = imm
<1>1. /\ \A b \in 26 .. 30 : b \in word <=> b \in {26, 28}
      /\ \A b \in 0 .. 25 : b \in word <=> Tests(ShiftedRight(imm, 2), b - 0)
      /\ 31 \in word <=> Tests(op, 0)
  BY DEF BranchImmediateBits
<1>2. Fixed(26 .. 31, {26, 28} \cup IF op = 1 THEN {31} ELSE {})
  <2>1. Tests(op, 0) <=> op = 1
    BY DEF Tests, Power
  <2>2. \A b \in 26 .. 31 : b \in word <=> b \in {26, 28} \/ (b = 31 /\ op = 1)
    BY <1>1, <2>1
  <2>3. QED
    BY <2>2 DEF Fixed
<1>3. 4 * SignedBits(0, 26) = imm
  <2>1. imm \in Int /\ imm % 4 = 0
    BY DEF WordDistance
  <2>2. PICK c \in Int, v \in Int :
          /\ c = imm \div 4 /\ v = ShiftedRight(imm, 2) /\ (v = c \/ v = c + 1073741824)
                                   /\ 4 * c + (imm % 4) = imm
    BY <2>1, ShiftedTwice, SMT
  <2>3. -33554432 <= c /\ c < 33554432
    BY <2>1, <2>2, SMT DEF WordDistance
  <2>4. \A b \in 0 .. 25 : b \in word <=> Tests(v, b - 0)
    BY <1>1, <2>2, SMT
  <2>5. SignedBits(0, 26) = c
    BY <2>2, <2>3, <2>4, Signed0To26, SMT
  <2>6. QED
    BY <2>1, <2>2, <2>5, SMT
<1>4. QED
  BY <1>2, <1>3

\* The word of a branch to a distance decodes as it.
LEMMA BranchImmediateDecodes ==
  ASSUME NEW o \in Operations, o.mn \in {"b", "bl"}, Encodable(o), Leads({}, Constructors(o), word)
  PROVE  Decodes(o)
<1>1. PICK imm \in Int : imm = o.imm
  BY OperandTypes
<1>2. WordDistance(imm, 134217728)
  <2>1. EncodableBranch(o.imm)
    BY EncodableIs
  <2>2. QED
    BY <1>1, <2>1, SMT DEF EncodableBranch, WordDistance
<1>3. PICK op : op = IF o.mn = "bl" THEN 1 ELSE 0
  OBVIOUS
<1>4. Constructors(o) = BranchImmediateSetters(op, ShiftedRight(imm, 2))
  <2>1. CASE o.mn = "b"
    <3>1. Constructors(o) = Branch(imm) /\ op = 0
      BY <1>1, <1>3, <2>1 DEF Constructors
    <3>2. QED
      BY <3>1, BranchesAre
  <2>2. CASE o.mn = "bl"
    <3>1. Constructors(o) = BranchLink(imm) /\ op = 1
      BY <1>1, <1>3, <2>2 DEF Constructors
    <3>2. QED
      BY <3>1, BranchesAre
  <2>3. QED
    BY <2>1, <2>2
<1>5. (op = 0 \/ op = 1) /\ op \in Int
  BY <1>3
<1>6. ShiftedRight(imm, 2) \in Int
  BY ShiftedTwice, SMT
<1>7. BranchImmediateBits(op, ShiftedRight(imm, 2))
  BY <1>4, <1>5, <1>6, BranchImmediateWord
<1>8. /\ Fixed(26 .. 31, {26, 28} \cup IF op = 1 THEN {31} ELSE {})
      /\ 4 * SignedBits(0, 26) = imm
  BY <1>2, <1>5, <1>7, BranchImmediateRead, SMT
<1>9. DecodesBranch(o)
  <2>1. Fixed(26 .. 31, {26, 28} \cup IF o.mn = "bl" THEN {31} ELSE {})
    BY <1>3, <1>8
  <2>2. QED
    BY <1>1, <1>8, <2>1 DEF DecodesBranch
<1>10. QED
  BY <1>9 DEF Decodes, AddsSubs, Moves

\* The constructors, with what they call, are those fields.
LEMMA RegisterBranchesAre ==
  \A rn :
    /\ BranchRegister(rn) = BranchRegisterSetters(0, rn.index)
    /\ Ret(rn) = BranchRegisterSetters(2, rn.index)
  BY DEF BranchRegister, Ret, UnconditionalBranchRegister, Op101xInstruction, Instruction,
         BranchRegisterSetters,
         MainField, Field101x, BranchRegisterFields, BranchOperandFields

\* The bits of a branch to a register, read as its decoder does.
LEMMA BranchRegisterRead ==
  ASSUME NEW rn \in AnyRegister, NEW opc, opc = 0 \/ opc = 2, BranchRegisterBits(opc, rn.index)
  PROVE  /\ Fixed((0 .. 31) \ (5 .. 9), (16 .. 20) \cup {25, 26, 28, 30, 31} \cup IF opc = 2 THEN {22} ELSE {})
         /\ RnIs(rn)
<1>1. /\ \A b \in (0 .. 4) \cup (10 .. 20) \cup (25 .. 31) :
            b \in word <=> b \in {16, 17, 18, 19, 20, 25, 26, 28, 30, 31}
      /\ \A b \in 5 .. 9 : b \in word <=> Tests(rn.index, b - 5)
      /\ \A b \in 21 .. 24 : b \in word <=> Tests(opc, b - 21)
  BY DEF BranchRegisterBits
<1>2. Fixed((0 .. 31) \ (5 .. 9), (16 .. 20) \cup {25, 26, 28, 30, 31} \cup IF opc = 2 THEN {22} ELSE {})
  <2>1. ~Tests(opc, 0) /\ (Tests(opc, 1) <=> opc = 2) /\ ~Tests(opc, 2) /\ ~Tests(opc, 3)
    BY DEF Tests, Power
  <2>2. 21 \notin word /\ (22 \in word <=> opc = 2) /\ 23 \notin word /\ 24 \notin word
    BY <1>1, <2>1
  <2>3. \A b \in (0 .. 31) \ (5 .. 9) :
          b \in word <=> b \in 16 .. 20 \/ b \in {25, 26, 28, 30, 31} \/ (b = 22 /\ opc = 2)
    BY <1>1, <2>2
  <2>4. QED
    BY <2>3 DEF Fixed
<1>3. RnIs(rn)
  BY <1>1, RegistersAre
<1>4. QED
  BY <1>2, <1>3

\* The word of a branch to a register decodes as it.
LEMMA BranchRegisterDecodes ==
  ASSUME NEW o \in Operations, o.mn \in {"br", "ret"}, Leads({}, Constructors(o), word)
  PROVE  Decodes(o)
<1>1. PICK rn \in AnyRegister : rn = o.rn
  BY OperandTypes
<1>2. PICK opc : opc = IF o.mn = "ret" THEN 2 ELSE 0
  OBVIOUS
<1>3. Constructors(o) = BranchRegisterSetters(opc, rn.index)
  <2>1. CASE o.mn = "br"
    <3>1. Constructors(o) = BranchRegister(rn) /\ opc = 0
      BY <1>1, <1>2, <2>1 DEF Constructors
    <3>2. QED
      BY <3>1, RegisterBranchesAre
  <2>2. CASE o.mn = "ret"
    <3>1. Constructors(o) = Ret(rn) /\ opc = 2
      BY <1>1, <1>2, <2>2 DEF Constructors
    <3>2. QED
      BY <3>1, RegisterBranchesAre
  <2>3. QED
    BY <2>1, <2>2
<1>4. (opc = 0 \/ opc = 2) /\ opc \in Int /\ rn.index \in Int
  BY <1>2, RegisterTypes
<1>5. BranchRegisterBits(opc, rn.index)
  BY <1>3, <1>4, BranchRegisterWord
<1>6. /\ Fixed((0 .. 31) \ (5 .. 9), (16 .. 20) \cup {25, 26, 28, 30, 31} \cup IF opc = 2 THEN {22} ELSE {})
      /\ RnIs(rn)
  BY <1>4, <1>5, BranchRegisterRead
<1>7. DecodesBranchRegister(o)
  <2>1. Fixed((0 .. 31) \ (5 .. 9), (16 .. 20) \cup {25, 26, 28, 30, 31} \cup IF o.mn = "ret" THEN {22} ELSE {})
    BY <1>2, <1>6
  <2>2. QED
    BY <1>1, <1>6, <2>1 DEF DecodesBranchRegister
<1>8. QED
  BY <1>7 DEF Decodes, AddsSubs, Moves

-----------------------------------------------------------------------------
(* Nop. *)

\* The constructors, with what they call, are those fields.
LEMMA NopIs == Nop = NopSetters
  BY DEF Nop, Hints, Op101xInstruction, Instruction, NopSetters, MainField, Field101x, HintsFields, NopFields

\* Nothing is written outside the 32 bits.
LEMMA NopFieldsInside ==
  ASSUME NEW w, NEW u, NEW op0, NEW b \in u, b \notin 0 .. 31
  PROVE  /\ Leads(w, MainField(op0), u) => b \in w
         /\ Leads(w, Field101x(op0), u) => b \in w
         /\ Leads(w, HintsFields, u) => b \in w
         /\ Leads(w, NopFields, u) => b \in w
<1>1. Leads(w, MainField(op0), u) => b \in w
  BY DEF Leads, After, Covers, MainField
<1>2. Leads(w, Field101x(op0), u) => b \in w
  BY DEF Leads, After, Covers, Field101x
<1>3. Leads(w, HintsFields, u) => b \in w
  BY DEF Leads, After, Covers, HintsFields
<1>4. Leads(w, NopFields, u) => b \in w
  BY DEF Leads, After, Covers, NopFields
<1>5. QED
  BY <1>1, <1>2, <1>3, <1>4

\* So a nop is nothing but its fields.
LEMMA NopStaysInside ==
  ASSUME Leads({}, NopSetters, word)
  PROVE  word \subseteq 0 .. 31
<1>1. /\ MainField(10) \in Seq(FieldSets) /\ Field101x(6) \in Seq(FieldSets)
      /\ HintsFields \in Seq(FieldSets) /\ NopFields \in Seq(FieldSets)
  <2>1. MainField(10) \in Seq(FieldSets)
    BY MainFieldType
  <2>2. Field101x(6) \in Seq(FieldSets)
    BY Field101xType
  <2>3. QED
    BY <2>1, <2>2, HintsFieldsType, NopFieldsType
<1>2. PICK v1, v2, v3 : /\ Leads({}, MainField(10), v1) /\ Leads(v1, Field101x(6), v2)
                        /\ Leads(v2, HintsFields, v3) /\ Leads(v3, NopFields, word)
  BY <1>1, LeadsFour DEF NopSetters
<1>3. SUFFICES ASSUME NEW b \in word, b \notin 0 .. 31
               PROVE  FALSE
  OBVIOUS
<1>4. b \in v3
  BY <1>2, <1>3, NopFieldsInside
<1>5. b \in v2
  BY <1>2, <1>3, <1>4, NopFieldsInside
<1>6. b \in v1
  BY <1>2, <1>3, <1>5, NopFieldsInside
<1>7. b \in {}
  BY <1>2, <1>3, <1>6, NopFieldsInside
<1>8. QED
  BY <1>7

\* A nop decodes as one.
LEMMA NopDecodes ==
  ASSUME NEW o \in Operations, o.mn = "nop", Leads({}, Constructors(o), word)
  PROVE  Decodes(o)
<1>1. Constructors(o) = NopSetters
  <2>1. Constructors(o) = Nop
    BY DEF Constructors
  <2>2. QED
    BY <2>1, NopIs
<1>2. Leads({}, NopSetters, word)
  BY <1>1
<1>3. NopBits
  BY <1>2, NopWord
<1>4. word \subseteq 0 .. 31
  BY <1>2, NopStaysInside
<1>5. DecodesNop
  <2>1. \A b \in 0 .. 31 : b \in word <=> b \in {0, 1, 2, 3, 4, 13, 16, 17, 24, 26, 28, 30, 31}
    BY <1>3 DEF NopBits
  <2>2. \A b \in 0 .. 31 : b \in word <=> b \in (0 .. 4) \cup {13, 16, 17, 24, 26, 28, 30, 31}
    BY <2>1
  <2>3. (0 .. 4) \cup {13, 16, 17, 24, 26, 28, 30, 31} \subseteq 0 .. 31
    OBVIOUS
  <2>4. QED
    BY <1>4, <2>2, <2>3 DEF DecodesNop
<1>6. QED
  BY <1>5 DEF Decodes, AddsSubs, Moves

-----------------------------------------------------------------------------
(* Loads and stores. *)

\* The constructors, with what they call, are those fields.
LEMMA LiteralIs ==
  \A rt, imm : LdrLiteral(rt, imm) = LiteralSetters(One(rt.is64), ShiftedRight(imm, 2), rt.index)
  BY DEF LdrLiteral, LoadRegisterLiteral, Opx1x0Instruction, Instruction, LiteralSetters, MainField,
         Fieldx1x0,
         LiteralFields

\* The bits of a load of a literal, read as its decoder does.
LEMMA LiteralRead ==
  ASSUME NEW rt \in AnyRegister, NEW imm, WordDistance(imm, 1048576),
         LiteralBits(One(rt.is64), ShiftedRight(imm, 2), rt.index)
  PROVE  /\ Fixed((24 .. 29) \cup {31}, {27, 28}) /\ Wide(30, rt) /\ RdIs(rt)
         /\ 4 * SignedBits(5, 24) = imm
<1>1. /\ \A b \in (24 .. 29) \cup {31} : b \in word <=> b \in {27, 28}
      /\ \A b \in 0 .. 4 : b \in word <=> Tests(rt.index, b - 0)
      /\ \A b \in 5 .. 23 : b \in word <=> Tests(ShiftedRight(imm, 2), b - 5)
      /\ 30 \in word <=> Tests(One(rt.is64), 0)
  BY DEF LiteralBits
<1>2. Fixed((24 .. 29) \cup {31}, {27, 28})
  BY <1>1 DEF Fixed
<1>3. 4 * SignedBits(5, 24) = imm
  <2>1. imm \in Int /\ imm % 4 = 0
    BY DEF WordDistance
  <2>2. PICK c \in Int, v \in Int :
          /\ c = imm \div 4 /\ v = ShiftedRight(imm, 2) /\ (v = c \/ v = c + 1073741824)
                                   /\ 4 * c + (imm % 4) = imm
    BY <2>1, ShiftedTwice, SMT
  <2>3. -262144 <= c /\ c < 262144
    BY <2>1, <2>2, SMT DEF WordDistance
  <2>4. \A b \in 5 .. 23 : b \in word <=> Tests(v, b - 5)
    BY <1>1, <2>2, SMT
  <2>5. SignedBits(5, 24) = c
    BY <2>2, <2>3, <2>4, Signed5To24, SMT
  <2>6. QED
    BY <2>1, <2>2, <2>5, SMT
<1>4. Wide(30, rt) /\ RdIs(rt)
  BY <1>1, RegistersAre
<1>5. QED
  BY <1>2, <1>3, <1>4

\* The word of a load of a literal decodes as it.
LEMMA LiteralDecodes ==
  ASSUME NEW o \in Operations, o.mn = "ldr_literal", Encodable(o), Leads({}, Constructors(o), word)
  PROVE  Decodes(o)
<1>1. PICK rt \in AnyRegister, imm \in Int : rt = o.rd /\ imm = o.imm
  BY OperandTypes
<1>2. WordDistance(imm, 1048576)
  <2>1. o.imm % 4 = 0 /\ EncodableAddress(o.imm)
    BY EncodableIs
  <2>2. QED
    BY <1>1, <2>1, SMT DEF EncodableAddress, WordDistance
<1>3. Constructors(o) = LiteralSetters(One(rt.is64), ShiftedRight(imm, 2), rt.index)
  <2>1. Constructors(o) = LdrLiteral(rt, imm)
    BY <1>1 DEF Constructors
  <2>2. QED
    BY <2>1, LiteralIs
<1>4. One(rt.is64) \in Int /\ rt.index \in Int
  BY RegisterTypes, OneBit
<1>5. ShiftedRight(imm, 2) \in Int
  BY ShiftedTwice, SMT
<1>6. LiteralBits(One(rt.is64), ShiftedRight(imm, 2), rt.index)
  BY <1>3, <1>4, <1>5, LiteralWord
<1>7. /\ Fixed((24 .. 29) \cup {31}, {27, 28}) /\ Wide(30, rt) /\ RdIs(rt)
      /\ 4 * SignedBits(5, 24) = imm
  BY <1>2, <1>6, LiteralRead, SMT
<1>8. DecodesLiteral(o)
  BY <1>1, <1>7 DEF DecodesLiteral
<1>9. QED
  BY <1>8 DEF Decodes, AddsSubs, Moves

\* The size of a transfer says which register it is.
LEMMA SizeBits ==
  ASSUME NEW rt \in AnyRegister
  PROVE  /\ SizeOf(rt) \in Int /\ Tests(SizeOf(rt), 1) /\ (Tests(SizeOf(rt), 0) <=> rt.is64)
<1>1. Tests(2, 1) /\ Tests(3, 1) /\ ~Tests(2, 0) /\ Tests(3, 0)
  BY DEF Tests, Power
<1>2. (rt.is64 /\ SizeOf(rt) = 3) \/ (~rt.is64 /\ SizeOf(rt) = 2)
  <2>1. rt.is64 \in BOOLEAN
    BY RegisterTypes
  <2>2. QED
    BY <2>1 DEF SizeOf, One
<1>3. QED
  BY <1>1, <1>2

\* The constructors, with what they call, are those fields.
LEMMA UnscaledAre ==
  \A rt, rn, imm :
    /\ LdurUnscaledImmediate(rt, rn, imm) = UnscaledSetters(SizeOf(rt), 1, imm, rn.index, rt.index)
    /\ SturUnscaledImmediate(rt, rn, imm) = UnscaledSetters(SizeOf(rt), 0, imm, rn.index, rt.index)
  BY DEF LdurUnscaledImmediate, SturUnscaledImmediate, LoadStoreRegisterUnscaledImmediate,
         Opx1x0Instruction, Instruction,
         UnscaledSetters, MainField, Fieldx1x0, UnscaledFields

\* So it has for registers.
LEMMA UnscaledReads ==
  ASSUME NEW rt \in AnyRegister, NEW rn \in AnyRegister, NEW opc \in Int, NEW imm \in Int,
         Leads({}, UnscaledSetters(SizeOf(rt), opc, imm, rn.index, rt.index), word)
  PROVE  UnscaledBits(SizeOf(rt), opc, imm, rn.index, rt.index)
<1>1. SizeOf(rt) \in Int /\ rn.index \in Int /\ rt.index \in Int
  BY RegisterTypes, SizeBits
<1>2. QED
  BY <1>1, UnscaledWord

\* The bits of an unscaled transfer, read as its decoder does.
LEMMA UnscaledRead ==
  ASSUME NEW rt \in AnyRegister, NEW rn \in AnyRegister, NEW imm, Signed(imm, 256), NEW opc,
         opc = 0 \/ opc = 1,
         UnscaledBits(SizeOf(rt), opc, imm, rn.index, rt.index)
  PROVE  /\ Fixed({10, 11, 21} \cup (22 .. 29) \cup {31}, (27 .. 29) \cup {31} \cup IF opc = 1 THEN {22} ELSE {})
         /\ Wide(30, rt) /\ RdIs(rt) /\ RnIs(rn) /\ SignedBits(12, 21) = imm
<1>1. /\ \A b \in {10, 11} \cup {21} \cup (24 .. 29) : b \in word <=> b \in {27, 28, 29}
      /\ \A b \in 0 .. 4 : b \in word <=> Tests(rt.index, b - 0)
      /\ \A b \in 5 .. 9 : b \in word <=> Tests(rn.index, b - 5)
      /\ \A b \in 12 .. 20 : b \in word <=> Tests(imm, b - 12)
      /\ \A b \in 22 .. 23 : b \in word <=> Tests(opc, b - 22)
      /\ \A b \in 30 .. 31 : b \in word <=> Tests(SizeOf(rt), b - 30)
  BY DEF UnscaledBits
<1>2. 31 \in word /\ (30 \in word <=> rt.is64)
  <2>1. (31 \in word <=> Tests(SizeOf(rt), 1)) /\ (30 \in word <=> Tests(SizeOf(rt), 0))
    BY <1>1
  <2>2. QED
    BY <2>1, SizeBits
<1>3. Fixed({10, 11, 21} \cup (22 .. 29) \cup {31}, (27 .. 29) \cup {31} \cup IF opc = 1 THEN {22} ELSE {})
  <2>1. (Tests(opc, 0) <=> opc = 1) /\ ~Tests(opc, 1)
    BY DEF Tests, Power
  <2>2. (22 \in word <=> Tests(opc, 0)) /\ (23 \in word <=> Tests(opc, 1))
    BY <1>1
  <2>3. \A b \in {10, 11, 21} \cup (22 .. 29) \cup {31} :
          b \in word <=> b \in 27 .. 29 \/ b = 31 \/ (b = 22 /\ opc = 1)
    BY <1>1, <1>2, <2>1, <2>2
  <2>4. QED
    BY <2>3 DEF Fixed
<1>4. SignedBits(12, 21) = imm
  <2>1. imm \in Int /\ -256 <= imm /\ imm < 256
    BY DEF Signed
  <2>2. QED
    BY <1>1, <2>1, Signed12To21
<1>5. Wide(30, rt)
  BY <1>2, RegisterTypes DEF Wide
<1>6. RdIs(rt) /\ RnIs(rn)
  BY <1>1, RegistersAre
<1>7. QED
  BY <1>3, <1>4, <1>5, <1>6

\* The word of an unscaled transfer decodes as it.
LEMMA UnscaledDecodes ==
  ASSUME NEW o \in Operations, o.mn \in {"ldur", "stur"}, Encodable(o), Leads({}, Constructors(o), word)
  PROVE  Decodes(o)
<1>1. PICK rt \in AnyRegister, rn \in AnyRegister, imm \in Int : rt = o.rd /\ rn = o.rn /\ imm = o.imm
  BY OperandTypes
<1>2. Signed(imm, 256)
  <2>1. EncodableUnscaled(imm)
    BY <1>1, EncodableIs
  <2>2. QED
    BY <2>1, SMT DEF EncodableUnscaled, Signed
<1>3. PICK opc : opc = IF o.mn = "ldur" THEN 1 ELSE 0
  OBVIOUS
<1>4. Constructors(o) = UnscaledSetters(SizeOf(rt), opc, imm, rn.index, rt.index)
  <2>1. CASE o.mn = "ldur"
    <3>1. Constructors(o) = LdurUnscaledImmediate(rt, rn, imm) /\ opc = 1
      BY <1>1, <1>3, <2>1 DEF Constructors
    <3>2. QED
      BY <3>1, UnscaledAre
  <2>2. CASE o.mn = "stur"
    <3>1. Constructors(o) = SturUnscaledImmediate(rt, rn, imm) /\ opc = 0
      BY <1>1, <1>3, <2>2 DEF Constructors
    <3>2. QED
      BY <3>1, UnscaledAre
  <2>3. QED
    BY <2>1, <2>2
<1>5. (opc = 0 \/ opc = 1) /\ opc \in Int
  BY <1>3
<1>6. UnscaledBits(SizeOf(rt), opc, imm, rn.index, rt.index)
  BY <1>4, <1>5, UnscaledReads
<1>7. /\ Fixed({10, 11, 21} \cup (22 .. 29) \cup {31}, (27 .. 29) \cup {31} \cup IF opc = 1 THEN {22} ELSE {})
      /\ Wide(30, rt) /\ RdIs(rt) /\ RnIs(rn) /\ SignedBits(12, 21) = imm
  BY <1>2, <1>5, <1>6, UnscaledRead
<1>8. DecodesUnscaled(o)
  <2>1. Fixed({10, 11, 21} \cup (22 .. 29) \cup {31}, (27 .. 29) \cup {31} \cup IF o.mn = "ldur" THEN {22} ELSE {})
    BY <1>3, <1>7
  <2>2. QED
    BY <1>1, <1>7, <2>1 DEF DecodesUnscaled
<1>9. QED
  BY <1>8 DEF Decodes, AddsSubs, Moves

\* The constructors, with what they call, are those fields.
LEMMA UnsignedAre ==
  \A rt, rn, imm :
    /\ LdrRegisterImmediate(rt, rn, imm) = UnsignedSetters(SizeOf(rt), 1, imm, rn.index, rt.index)
    /\ StrRegisterImmediate(rt, rn, imm) = UnsignedSetters(SizeOf(rt), 0, imm, rn.index, rt.index)
  BY DEF LdrRegisterImmediate, StrRegisterImmediate, LoadStoreRegisterUnsignedImmediate,
         Opx1x0Instruction, Instruction,
         UnsignedSetters, MainField, Fieldx1x0, UnsignedFields

\* So it has for registers.
LEMMA UnsignedReads ==
  ASSUME NEW rt \in AnyRegister, NEW rn \in AnyRegister, NEW opc \in Int, NEW imm \in Int,
         Leads({}, UnsignedSetters(SizeOf(rt), opc, imm, rn.index, rt.index), word)
  PROVE  UnsignedBits(SizeOf(rt), opc, imm, rn.index, rt.index)
<1>1. SizeOf(rt) \in Int /\ rn.index \in Int /\ rt.index \in Int
  BY RegisterTypes, SizeBits
<1>2. QED
  BY <1>1, UnsignedWord

\* The bits of a transfer at an unsigned offset, read as its decoder does.
LEMMA UnsignedRead ==
  ASSUME NEW rt \in AnyRegister, NEW rn \in AnyRegister, NEW imm, Below(imm, 4096), NEW opc,
         opc = 0 \/ opc = 1,
         UnsignedBits(SizeOf(rt), opc, imm, rn.index, rt.index)
  PROVE  /\ Fixed((22 .. 29) \cup {31}, {24, 27, 28, 29, 31} \cup IF opc = 1 THEN {22} ELSE {})
         /\ Wide(30, rt) /\ RdIs(rt) /\ RnIs(rn) /\ Bits(10, 22) = imm
<1>1. /\ \A b \in 24 .. 29 : b \in word <=> b \in {24, 27, 28, 29}
      /\ \A b \in 0 .. 4 : b \in word <=> Tests(rt.index, b - 0)
      /\ \A b \in 5 .. 9 : b \in word <=> Tests(rn.index, b - 5)
      /\ \A b \in 10 .. 21 : b \in word <=> Tests(imm, b - 10)
      /\ \A b \in 22 .. 23 : b \in word <=> Tests(opc, b - 22)
      /\ \A b \in 30 .. 31 : b \in word <=> Tests(SizeOf(rt), b - 30)
  BY DEF UnsignedBits
<1>2. 31 \in word /\ (30 \in word <=> rt.is64)
  <2>1. (31 \in word <=> Tests(SizeOf(rt), 1)) /\ (30 \in word <=> Tests(SizeOf(rt), 0))
    BY <1>1
  <2>2. QED
    BY <2>1, SizeBits
<1>3. Fixed((22 .. 29) \cup {31}, {24, 27, 28, 29, 31} \cup IF opc = 1 THEN {22} ELSE {})
  <2>1. (Tests(opc, 0) <=> opc = 1) /\ ~Tests(opc, 1)
    BY DEF Tests, Power
  <2>2. (22 \in word <=> Tests(opc, 0)) /\ (23 \in word <=> Tests(opc, 1))
    BY <1>1
  <2>3. \A b \in (22 .. 29) \cup {31} : b \in word <=> b \in {24, 27, 28, 29, 31} \/ (b = 22 /\ opc = 1)
    BY <1>1, <1>2, <2>1, <2>2
  <2>4. QED
    BY <2>3 DEF Fixed
<1>4. Bits(10, 22) = imm
  <2>1. imm \in Int /\ imm % 4096 = imm
    BY SMT DEF Below
  <2>2. Bits(10, 22) = imm % 4096
    BY <1>1, <2>1, Bits10To22, SMT
  <2>3. QED
    BY <2>1, <2>2
<1>5. Wide(30, rt)
  BY <1>2, RegisterTypes DEF Wide
<1>6. RdIs(rt) /\ RnIs(rn)
  BY <1>1, RegistersAre
<1>7. QED
  BY <1>3, <1>4, <1>5, <1>6

\* The word of a transfer at an unsigned offset decodes as it.
LEMMA UnsignedDecodes ==
  ASSUME NEW o \in Operations, o.mn \in {"ldr", "str"}, Encodable(o), Leads({}, Constructors(o), word)
  PROVE  Decodes(o)
<1>1. PICK rt \in AnyRegister, rn \in AnyRegister, imm \in Int : rt = o.rd /\ rn = o.rn /\ imm = o.imm
  BY OperandTypes
<1>2. Below(imm, 4096)
  <2>1. EncodableUnsigned(imm)
    BY <1>1, EncodableIs
  <2>2. QED
    BY <2>1, SMT DEF EncodableUnsigned, Below
<1>3. PICK opc : opc = IF o.mn = "ldr" THEN 1 ELSE 0
  OBVIOUS
<1>4. Constructors(o) = UnsignedSetters(SizeOf(rt), opc, imm, rn.index, rt.index)
  <2>1. CASE o.mn = "ldr"
    <3>1. Constructors(o) = LdrRegisterImmediate(rt, rn, imm) /\ opc = 1
      BY <1>1, <1>3, <2>1 DEF Constructors
    <3>2. QED
      BY <3>1, UnsignedAre
  <2>2. CASE o.mn = "str"
    <3>1. Constructors(o) = StrRegisterImmediate(rt, rn, imm) /\ opc = 0
      BY <1>1, <1>3, <2>2 DEF Constructors
    <3>2. QED
      BY <3>1, UnsignedAre
  <2>3. QED
    BY <2>1, <2>2
<1>5. (opc = 0 \/ opc = 1) /\ opc \in Int
  BY <1>3
<1>6. UnsignedBits(SizeOf(rt), opc, imm, rn.index, rt.index)
  BY <1>4, <1>5, UnsignedReads
<1>7. /\ Fixed((22 .. 29) \cup {31}, {24, 27, 28, 29, 31} \cup IF opc = 1 THEN {22} ELSE {})
      /\ Wide(30, rt) /\ RdIs(rt) /\ RnIs(rn) /\ Bits(10, 22) = imm
  BY <1>2, <1>5, <1>6, UnsignedRead
<1>8. DecodesUnsigned(o)
  <2>1. Fixed((22 .. 29) \cup {31}, {24, 27, 28, 29, 31} \cup IF o.mn = "ldr" THEN {22} ELSE {})
    BY <1>3, <1>7
  <2>2. QED
    BY <1>1, <1>7, <2>1 DEF DecodesUnsigned
<1>9. QED
  BY <1>8 DEF Decodes, AddsSubs, Moves

\* The constructors, with what they call, are those fields.
LEMMA OffsetsAre ==
  \A rt, rn, rm, extend, amount :
    /\ LdrRegisterOffset(rt, rn, rm, extend, amount) =
         OffsetSetters(SizeOf(rt), 1, rm.index, CreateOption(extend), One(CreateS(rt, amount)), rt.index, rn.index)
    /\ StrRegisterOffset(rt, rn, rm, extend, amount) =
         OffsetSetters(SizeOf(rt), 0, rm.index, CreateOption(extend), One(CreateS(rt, amount)), rt.index, rn.index)
  BY DEF LdrRegisterOffset, StrRegisterOffset, LoadStoreRegisterOffset, RegisterOffset,
         Opx1x0Instruction, Instruction,
         OffsetSetters, MainField, Fieldx1x0, OffsetFields, OffsetOperandFields

\* So it has for registers.
LEMMA OffsetReads ==
  ASSUME NEW rt \in AnyRegister, NEW rn \in AnyRegister, NEW rm \in AnyRegister, NEW opc \in Int,
         NEW option \in Int,
         NEW s \in BOOLEAN, Leads({}, OffsetSetters(SizeOf(rt), opc, rm.index, option, One(s), rt.index, rn.index), word)
  PROVE  OffsetBits(SizeOf(rt), opc, rm.index, option, One(s), rt.index, rn.index)
<1>1. SizeOf(rt) \in Int /\ rn.index \in Int /\ rt.index \in Int /\ rm.index \in Int /\ One(s) \in Int
  BY RegisterTypes, SizeBits, OneBit
<1>2. QED
  BY <1>1, OffsetWord

\* The bits of a transfer at a register offset, read as its decoder does.
LEMMA OffsetRead ==
  ASSUME NEW rt \in AnyRegister, NEW rn \in AnyRegister, NEW rm \in AnyRegister, NEW option, Below(option, 8),
         NEW s \in BOOLEAN, NEW opc, opc = 0 \/ opc = 1,
         OffsetBits(SizeOf(rt), opc, rm.index, option, One(s), rt.index, rn.index)
  PROVE  /\ Fixed({10, 11} \cup (21 .. 29) \cup {31}, {11, 21, 27, 28, 29, 31} \cup IF opc = 1 THEN {22} ELSE {})
         /\ Wide(30, rt) /\ RdIs(rt) /\ RnIs(rn) /\ RmIs(rm) /\ Bits(13, 16) = option /\ (12 \in word <=> s)
<1>1. /\ \A b \in {10, 11} \cup {21} \cup (23 .. 29) : b \in word <=> b \in {11, 21, 27, 28, 29}
      /\ \A b \in 0 .. 4 : b \in word <=> Tests(rt.index, b - 0)
      /\ \A b \in 5 .. 9 : b \in word <=> Tests(rn.index, b - 5)
      /\ 12 \in word <=> Tests(One(s), 0)
      /\ \A b \in 13 .. 15 : b \in word <=> Tests(option, b - 13)
      /\ \A b \in 16 .. 20 : b \in word <=> Tests(rm.index, b - 16)
      /\ 22 \in word <=> Tests(opc, 0)
      /\ \A b \in 30 .. 31 : b \in word <=> Tests(SizeOf(rt), b - 30)
  BY DEF OffsetBits
<1>2. 31 \in word /\ (30 \in word <=> rt.is64)
  <2>1. (31 \in word <=> Tests(SizeOf(rt), 1)) /\ (30 \in word <=> Tests(SizeOf(rt), 0))
    BY <1>1
  <2>2. QED
    BY <2>1, SizeBits
<1>3. Fixed({10, 11} \cup (21 .. 29) \cup {31}, {11, 21, 27, 28, 29, 31} \cup IF opc = 1 THEN {22} ELSE {})
  <2>1. Tests(opc, 0) <=> opc = 1
    BY DEF Tests, Power
  <2>2. \A b \in {10, 11} \cup (21 .. 29) \cup {31} : b \in word <=> b \in {11, 21, 27, 28, 29, 31} \/ (b = 22 /\ opc = 1)
    BY <1>1, <1>2, <2>1
  <2>3. QED
    BY <2>2 DEF Fixed
<1>4. Bits(13, 16) = option
  <2>1. option \in Int /\ option % 8 = option
    BY SMT DEF Below
  <2>2. Bits(13, 16) = option % 8
    BY <1>1, <2>1, Bits13To16
  <2>3. QED
    BY <2>1, <2>2
<1>5. Wide(30, rt)
  BY <1>2, RegisterTypes DEF Wide
<1>6. RdIs(rt) /\ RnIs(rn) /\ RmIs(rm)
  BY <1>1, RegistersAre
<1>7. 12 \in word <=> s
  BY <1>1, OneBit
<1>8. QED
  BY <1>3, <1>4, <1>5, <1>6, <1>7

\* The word of a transfer at a register offset decodes as it.
LEMMA OffsetDecodes ==
  ASSUME NEW o \in Operations, o.mn \in {"ldr_offset", "str_offset"}, Encodable(o),
         Leads({}, Constructors(o), word)
  PROVE  Decodes(o)
<1>1. PICK rt \in AnyRegister, rn \in AnyRegister, rm \in AnyRegister, extend \in Int, amount \in Int :
        rt = o.rd /\ rn = o.rn /\ rm = o.rm /\ extend = o.shift /\ amount = o.amount
  BY OperandTypes
<1>2. /\ Below(extend, 8) /\ CreateOption(extend) = extend
      /\ CreateS(rt, amount) \in BOOLEAN /\ (CreateS(rt, amount) <=> amount # 0)
  <2>1. EncodableOffset(o)
    BY EncodableIs
  <2>2. extend \in {2, 3, 6, 7} /\ amount \in {0, IF rt.is64 THEN 3 ELSE 2}
    BY <1>1, <2>1 DEF EncodableOffset
  <2>3. Below(extend, 8) /\ CreateOption(extend) = extend
    BY <2>2 DEF Below, CreateOption
  <2>4. CreateS(rt, amount) \in BOOLEAN /\ (CreateS(rt, amount) <=> amount # 0)
    BY <2>2 DEF CreateS
  <2>5. QED
    BY <2>3, <2>4
<1>3. PICK opc : opc = IF o.mn = "ldr_offset" THEN 1 ELSE 0
  OBVIOUS
<1>4. Constructors(o) = OffsetSetters(SizeOf(rt), opc, rm.index, extend, One(CreateS(rt, amount)), rt.index, rn.index)
  <2>1. CASE o.mn = "ldr_offset"
    <3>1. Constructors(o) = LdrRegisterOffset(rt, rn, rm, extend, amount) /\ opc = 1
      BY <1>1, <1>3, <2>1 DEF Constructors
    <3>2. QED
      BY <3>1, <1>2, OffsetsAre
  <2>2. CASE o.mn = "str_offset"
    <3>1. Constructors(o) = StrRegisterOffset(rt, rn, rm, extend, amount) /\ opc = 0
      BY <1>1, <1>3, <2>2 DEF Constructors
    <3>2. QED
      BY <3>1, <1>2, OffsetsAre
  <2>3. QED
    BY <2>1, <2>2
<1>5. (opc = 0 \/ opc = 1) /\ opc \in Int
  BY <1>3
<1>6. OffsetBits(SizeOf(rt), opc, rm.index, extend, One(CreateS(rt, amount)), rt.index, rn.index)
  BY <1>2, <1>4, <1>5, OffsetReads
<1>7. /\ Fixed({10, 11} \cup (21 .. 29) \cup {31}, {11, 21, 27, 28, 29, 31} \cup IF opc = 1 THEN {22} ELSE {})
      /\ Wide(30, rt) /\ RdIs(rt) /\ RnIs(rn) /\ RmIs(rm) /\ Bits(13, 16) = extend
      /\ 12 \in word <=> CreateS(rt, amount)
  BY <1>2, <1>5, <1>6, OffsetRead
<1>8. DecodesOffset(o)
  <2>1. Fixed({10, 11} \cup (21 .. 29) \cup {31},
              {11, 21, 27, 28, 29, 31} \cup IF o.mn = "ldr_offset" THEN {22} ELSE {})
    BY <1>3, <1>7
  <2>2. (12 \in word) = (o.amount # 0)
    BY <1>1, <1>2, <1>7
  <2>3. QED
    BY <1>1, <1>7, <2>1, <2>2 DEF DecodesOffset
<1>9. QED
  BY <1>8 DEF Decodes, AddsSubs, Moves

-----------------------------------------------------------------------------
(* Logical operations. *)

\* The constructors, with what they call, are those fields.
LEMMA LogicalsAre ==
  \A rd, rn, rm, shift, amount :
    /\ OrrShiftedRegister(rd, rn, rm, shift, amount) =
         OrrSetters(One(rd.is64), shift, rm.index, amount, rn.index, rd.index)
    /\ MovRegister(rd, rm) = OrrSetters(One(rd.is64), 0, rm.index, 0, None(rd.is64).index, rd.index)
  BY DEF OrrShiftedRegister, MovRegister, LogicalShiftedRegister, Opx101Instruction, Instruction,
         OrrSetters, MainField,
         Fieldsx101, LogicalFields, OrrFields

\* So it has for registers.
LEMMA OrrReads ==
  ASSUME NEW rd \in AnyRegister, NEW rn \in AnyRegister, NEW rm \in AnyRegister, NEW shift \in Int,
         NEW amount \in Int,
         Leads({}, OrrSetters(One(rd.is64), shift, rm.index, amount, rn.index, rd.index), word)
  PROVE  OrrBits(One(rd.is64), shift, rm.index, amount, rn.index, rd.index)
<1>1. One(rd.is64) \in Int /\ rd.index \in Int /\ rn.index \in Int /\ rm.index \in Int
  BY RegisterTypes, OneBit
<1>2. QED
  BY <1>1, OrrWord

\* The bits of an orr, read as its decoder does.
LEMMA OrrRead ==
  ASSUME NEW rd \in AnyRegister, NEW rn \in AnyRegister, NEW rm \in AnyRegister, NEW shift, Below(shift, 4),
         NEW amount, Below(amount, 64), OrrBits(One(rd.is64), shift, rm.index, amount, rn.index, rd.index)
  PROVE  /\ Fixed({21} \cup (24 .. 30), {25, 27, 29})
         /\ Wide(31, rd) /\ RdIs(rd) /\ RnIs(rn) /\ RmIs(rm) /\ Bits(10, 16) = amount /\ Bits(22, 24) = shift
<1>1. /\ \A b \in {21} \cup (24 .. 30) : b \in word <=> b \in {25, 27, 29}
      /\ \A b \in 0 .. 4 : b \in word <=> Tests(rd.index, b - 0)
      /\ \A b \in 5 .. 9 : b \in word <=> Tests(rn.index, b - 5)
      /\ \A b \in 10 .. 15 : b \in word <=> Tests(amount, b - 10)
      /\ \A b \in 16 .. 20 : b \in word <=> Tests(rm.index, b - 16)
      /\ \A b \in 22 .. 23 : b \in word <=> Tests(shift, b - 22)
      /\ 31 \in word <=> Tests(One(rd.is64), 0)
  BY DEF OrrBits
<1>2. Fixed({21} \cup (24 .. 30), {25, 27, 29})
  BY <1>1 DEF Fixed
<1>3. Bits(10, 16) = amount
  <2>1. amount \in Int /\ amount % 64 = amount
    BY SMT DEF Below
  <2>2. Bits(10, 16) = amount % 64
    BY <1>1, <2>1, Bits10To16
  <2>3. QED
    BY <2>1, <2>2
<1>4. Bits(22, 24) = shift
  <2>1. shift \in Int /\ shift % 4 = shift
    BY SMT DEF Below
  <2>2. Bits(22, 24) = shift % 4
    BY <1>1, <2>1, Bits22To24
  <2>3. QED
    BY <2>1, <2>2
<1>5. Wide(31, rd) /\ RdIs(rd) /\ RnIs(rn) /\ RmIs(rm)
  BY <1>1, RegistersAre
<1>6. QED
  BY <1>2, <1>3, <1>4, <1>5

\* The word of an orr or mov decodes as it.
LEMMA LogicalDecodes ==
  ASSUME NEW o \in Operations, o.mn \in {"orr", "mov"}, Encodable(o), Leads({}, Constructors(o), word)
  PROVE  Decodes(o)
<1>1. PICK rd \in AnyRegister, given \in AnyRegister, rm \in AnyRegister :
        rd = o.rd /\ given = o.rn /\ rm = o.rm
  BY OperandTypes
<1>2. PICK rn, shift, amount : /\ rn = IF o.mn = "mov" THEN None(rd.is64) ELSE given
                               /\ shift = IF o.mn = "mov" THEN 0 ELSE o.shift
                               /\ amount = IF o.mn = "mov" THEN 0 ELSE o.amount
  OBVIOUS
<1>3. rn \in AnyRegister
  BY <1>1, <1>2, RegisterTypes
<1>4. Below(shift, 4) /\ Below(amount, 64)
  <2>1. CASE o.mn = "orr"
    <3>1. EncodableLogical(o)
      BY <2>1, EncodableIs
    <3>2. shift \in 0 .. 3 /\ amount \in 0 .. IF rd.is64 THEN 63 ELSE 31
      BY <1>1, <1>2, <2>1, <3>1 DEF EncodableLogical
    <3>3. QED
      BY <3>2, SMT DEF Below
  <2>2. CASE o.mn = "mov"
    BY <1>2, <2>2 DEF Below
  <2>3. QED
    BY <2>1, <2>2
<1>5. Constructors(o) = OrrSetters(One(rd.is64), shift, rm.index, amount, rn.index, rd.index)
  <2>1. CASE o.mn = "orr"
    <3>1. Constructors(o) = OrrShiftedRegister(rd, rn, rm, shift, amount)
      BY <1>1, <1>2, <2>1 DEF Constructors
    <3>2. QED
      BY <3>1, LogicalsAre
  <2>2. CASE o.mn = "mov"
    <3>1. Constructors(o) = MovRegister(rd, rm) /\ rn = None(rd.is64) /\ shift = 0 /\ amount = 0
      BY <1>1, <1>2, <2>2 DEF Constructors
    <3>2. QED
      BY <3>1, LogicalsAre
  <2>3. QED
    BY <2>1, <2>2
<1>6. shift \in Int /\ amount \in Int
  BY <1>4 DEF Below
<1>7. OrrBits(One(rd.is64), shift, rm.index, amount, rn.index, rd.index)
  BY <1>3, <1>5, <1>6, OrrReads
<1>8. /\ Fixed({21} \cup (24 .. 30), {25, 27, 29})
      /\ Wide(31, rd) /\ RdIs(rd) /\ RnIs(rn) /\ RmIs(rm) /\ Bits(10, 16) = amount /\ Bits(22, 24) = shift
  BY <1>3, <1>4, <1>7, OrrRead
<1>9. DecodesLogical(o)
  <2>1. CASE o.mn = "orr"
    BY <1>1, <1>2, <1>8, <2>1 DEF DecodesLogical
  <2>2. CASE o.mn = "mov"
    <3>1. None(rd.is64).index % 32 = 31
      BY RegisterTypes
    <3>2. Bits(5, 10) = 31
      BY <1>2, <1>8, <2>2, <3>1 DEF RnIs
    <3>3. QED
      BY <1>1, <1>2, <1>8, <2>2, <3>2 DEF DecodesLogical
  <2>3. QED
    BY <2>1, <2>2
<1>10. QED
  BY <1>9 DEF Decodes, AddsSubs, Moves

-----------------------------------------------------------------------------
(* All of them. *)

\* What the constructors of an operation write into a zero word is that operation.
LEMMA EncodedDecodes ==
  ASSUME NEW o \in Operations, Encodable(o), Leads({}, Constructors(o), word)
  PROVE  Decodes(o)
<1>1. o.mn \in Mnemonics
  BY OperandTypes
<1>2. \/ o.mn \in AddsSubs \/ o.mn \in Moves \/ o.mn \in {"adr", "adrp"} \/ o.mn \in {"b", "bl"}
      \/ o.mn \in {"br", "ret"} \/ o.mn = "nop" \/ o.mn = "ldr_literal" \/ o.mn \in {"ldur", "stur"}
      \/ o.mn \in {"ldr", "str"} \/ o.mn \in {"ldr_offset", "str_offset"} \/ o.mn \in {"orr", "mov"}
  BY <1>1 DEF Mnemonics, AddsSubs, Moves
<1>3. QED
  BY <1>2, AddSubtractDecodes, MoveWideDecodes, PcRelDecodes, BranchImmediateDecodes,
     BranchRegisterDecodes, NopDecodes,
     LiteralDecodes, UnscaledDecodes, UnsignedDecodes, OffsetDecodes, LogicalDecodes

-----------------------------------------------------------------------------
(* The constructors write fields. *)

\* What is computed from an immediate is a number.
LEMMA OperandFieldsAreNumbers ==
  ASSUME NEW imm \in Int
  PROVE  CalcImm(imm) \in Int /\ CalcSh(imm) \in BOOLEAN /\ ShiftedRight(imm, 12) \in Int /\ ShiftedRight(imm, 2) \in Int
<1>1. 2^12 = 4096 /\ 2^(32 - 12) = 1048576
  BY SMT
<1>2. ShiftedRight(imm, 12) \in Int
  BY <1>1, SMT DEF ShiftedRight
<1>3. CalcSh(imm) \in BOOLEAN
  BY DEF CalcSh
<1>4. \A v \in Int : v % 65536 \in Int
  BY SMT
<1>5. CalcImm(imm) \in Int
  <2>1. CalcImm(imm) = IF CalcSh(imm) THEN ShiftedRight(imm, 12) % 65536 ELSE imm % 65536
    BY SMT DEF CalcImm
  <2>2. QED
    BY <1>2, <1>4, <2>1
<1>6. QED
  BY <1>2, <1>3, <1>5, ShiftedTwice, SMT

\* Additions write fields.
LEMMA AdditionsTyped ==
  ASSUME NEW rd \in AnyRegister, NEW rn \in AnyRegister, NEW imm \in Int
  PROVE  /\ AddImmediate(rd, rn, imm) \in Seq(FieldSets) /\ AddsImmediate(rd, rn, imm) \in Seq(FieldSets)
         /\ SubImmediate(rd, rn, imm) \in Seq(FieldSets) /\ SubsImmediate(rd, rn, imm) \in Seq(FieldSets)
<1>1. /\ One(rd.is64) \in Int /\ One(CalcSh(imm)) \in Int /\ CalcImm(imm) \in Int
      /\ rd.index \in Int /\ rn.index \in Int /\ 0 \in Int /\ 1 \in Int
  BY RegisterTypes, OneBit, OperandFieldsAreNumbers
<1>2. \A op, s \in {0, 1} :
        AddSubtractSetters(One(rd.is64), op, s, rd.index, rn.index, CalcImm(imm), One(CalcSh(imm))) \in Seq(FieldSets)
  BY <1>1, AddSubtractTypes
<1>3. QED
  BY <1>2, AdditionIs

\* Moves write fields.
LEMMA MovesTyped ==
  ASSUME NEW rd \in AnyRegister, NEW imm \in Int, NEW shift \in Int
  PROVE  /\ Movn(rd, imm, shift) \in Seq(FieldSets) /\ Movz(rd, imm, shift) \in Seq(FieldSets)
         /\ Movk(rd, imm, shift) \in Seq(FieldSets)
<1>1. One(rd.is64) \in Int /\ rd.index \in Int /\ 0 \in Int /\ 2 \in Int /\ 3 \in Int
  BY RegisterTypes, OneBit
<1>2. \A opc \in {0, 2, 3} : MoveWideSetters(One(rd.is64), opc, shift, imm, rd.index) \in Seq(FieldSets)
  BY <1>1, MoveWideTypes
<1>3. QED
  BY <1>2, MovesAre

\* Addresses write fields.
LEMMA AddressesTyped ==
  ASSUME NEW rd \in AnyRegister, NEW imm \in Int
  PROVE  Adr(rd, imm) \in Seq(FieldSets) /\ Adrp(rd, imm) \in Seq(FieldSets)
<1>1. /\ rd.index \in Int /\ ShiftedRight(imm, 2) \in Int /\ ShiftedRight(imm, 12) \in Int
      /\ ShiftedRight(ShiftedRight(imm, 12), 2) \in Int /\ 0 \in Int /\ 1 \in Int
  BY RegisterTypes, OperandFieldsAreNumbers
<1>2. PcRelSetters(0, imm, ShiftedRight(imm, 2), rd.index) \in Seq(FieldSets)
  BY <1>1, PcRelTypes
<1>3. PcRelSetters(1, ShiftedRight(imm, 12), ShiftedRight(ShiftedRight(imm, 12), 2), rd.index) \in Seq(FieldSets)
  BY <1>1, PcRelTypes
<1>4. QED
  BY <1>2, <1>3, AddressesAre

\* Jumps write fields.
LEMMA JumpsTyped ==
  /\ \A imm \in Int : Branch(imm) \in Seq(FieldSets) /\ BranchLink(imm) \in Seq(FieldSets)
  /\ \A rn \in AnyRegister : BranchRegister(rn) \in Seq(FieldSets) /\ Ret(rn) \in Seq(FieldSets)
  /\ Nop \in Seq(FieldSets)
<1>1. ASSUME NEW imm \in Int PROVE Branch(imm) \in Seq(FieldSets) /\ BranchLink(imm) \in Seq(FieldSets)
  <2>1. ShiftedRight(imm, 2) \in Int
    BY OperandFieldsAreNumbers
  <2>2. QED
    BY <2>1, BranchesAre, BranchImmediateTypes
<1>2. ASSUME NEW rn \in AnyRegister PROVE BranchRegister(rn) \in Seq(FieldSets) /\ Ret(rn) \in Seq(FieldSets)
  <2>1. rn.index \in Int /\ 0 \in Int /\ 2 \in Int
    BY RegisterTypes
  <2>2. \A opc \in {0, 2} : BranchRegisterSetters(opc, rn.index) \in Seq(FieldSets)
    BY <2>1, BranchRegisterTypes
  <2>3. QED
    BY <2>2, RegisterBranchesAre
<1>3. Nop \in Seq(FieldSets)
  BY NopIs, NopTypes
<1>4. QED
  BY <1>1, <1>2, <1>3

\* Transfers write fields.
LEMMA TransfersTyped ==
  ASSUME NEW rt \in AnyRegister, NEW rn \in AnyRegister, NEW imm \in Int
  PROVE  /\ LdrLiteral(rt, imm) \in Seq(FieldSets)
         /\ LdurUnscaledImmediate(rt, rn, imm) \in Seq(FieldSets) /\ SturUnscaledImmediate(rt, rn, imm) \in Seq(FieldSets)
         /\ LdrRegisterImmediate(rt, rn, imm) \in Seq(FieldSets) /\ StrRegisterImmediate(rt, rn, imm) \in Seq(FieldSets)
<1>1. /\ One(rt.is64) \in Int /\ SizeOf(rt) \in Int /\ rt.index \in Int /\ rn.index \in Int
      /\ ShiftedRight(imm, 2) \in Int /\ 0 \in Int /\ 1 \in Int
  <2>1. rt.is64 \in BOOLEAN /\ rt.index \in Int /\ rn.index \in Int
    BY RegisterTypes
  <2>2. SizeOf(rt) \in Int
    BY SizeBits
  <2>3. One(rt.is64) \in Int
    BY <2>1, OneBit
  <2>4. ShiftedRight(imm, 2) \in Int
    BY OperandFieldsAreNumbers
  <2>5. QED
    BY <2>1, <2>2, <2>3, <2>4
<1>2. LdrLiteral(rt, imm) \in Seq(FieldSets)
  BY <1>1, LiteralIs, LiteralTypes
<1>3. LdurUnscaledImmediate(rt, rn, imm) \in Seq(FieldSets) /\ SturUnscaledImmediate(rt, rn, imm) \in Seq(FieldSets)
  <2>1. \A opc \in {0, 1} : UnscaledSetters(SizeOf(rt), opc, imm, rn.index, rt.index) \in Seq(FieldSets)
    BY <1>1, UnscaledTypes
  <2>2. QED
    BY <2>1, UnscaledAre
<1>4. LdrRegisterImmediate(rt, rn, imm) \in Seq(FieldSets) /\ StrRegisterImmediate(rt, rn, imm) \in Seq(FieldSets)
  <2>1. \A opc \in {0, 1} : UnsignedSetters(SizeOf(rt), opc, imm, rn.index, rt.index) \in Seq(FieldSets)
    BY <1>1, UnsignedTypes
  <2>2. QED
    BY <2>1, UnsignedAre
<1>5. QED
  BY <1>2, <1>3, <1>4

\* Offsets write fields.
LEMMA OffsetsTyped ==
  ASSUME NEW rt \in AnyRegister, NEW rn \in AnyRegister, NEW rm \in AnyRegister, NEW extend \in Int,
         NEW amount \in Int
  PROVE  /\ LdrRegisterOffset(rt, rn, rm, extend, amount) \in Seq(FieldSets)
         /\ StrRegisterOffset(rt, rn, rm, extend, amount) \in Seq(FieldSets)
<1>1. /\ SizeOf(rt) \in Int /\ rt.index \in Int /\ rn.index \in Int /\ rm.index \in Int
      /\ 0 \in Int /\ 1 \in Int
  BY RegisterTypes, SizeBits
<1>2. CreateOption(extend) \in Int /\ One(CreateS(rt, amount)) \in Int
  BY DEF CreateOption, CreateS, One
<1>3. \A opc \in {0, 1} :
        OffsetSetters(SizeOf(rt), opc, rm.index, CreateOption(extend), One(CreateS(rt, amount)), rt.index, rn.index)
          \in Seq(FieldSets)
  BY <1>1, <1>2, OffsetTypes
<1>4. QED
  BY <1>3, OffsetsAre

\* Logicals write fields.
LEMMA LogicalsTyped ==
  ASSUME NEW rd \in AnyRegister, NEW rn \in AnyRegister, NEW rm \in AnyRegister, NEW shift \in Int,
         NEW amount \in Int
  PROVE  OrrShiftedRegister(rd, rn, rm, shift, amount) \in Seq(FieldSets) /\ MovRegister(rd, rm) \in Seq(FieldSets)
<1>1. /\ One(rd.is64) \in Int /\ rd.index \in Int /\ rn.index \in Int /\ rm.index \in Int
      /\ None(rd.is64).index \in Int /\ 0 \in Int
  BY RegisterTypes, OneBit
<1>2. OrrSetters(One(rd.is64), shift, rm.index, amount, rn.index, rd.index) \in Seq(FieldSets)
  BY <1>1, OrrTypes
<1>3. OrrSetters(One(rd.is64), 0, rm.index, 0, None(rd.is64).index, rd.index) \in Seq(FieldSets)
  BY <1>1, OrrTypes
<1>4. QED
  BY <1>2, <1>3, LogicalsAre

\* What an operation's constructors write is a sequence of fields.
LEMMA ConstructorsTyped ==
  ASSUME NEW o \in Operations
  PROVE  Constructors(o) \in Seq(FieldSets)
<1>1. PICK rd \in AnyRegister, rn \in AnyRegister, rm \in AnyRegister, imm \in Int, shift \in Int, amount \in Int :
        /\ rd = o.rd /\ rn = o.rn /\ rm = o.rm /\ imm = o.imm /\ shift = o.shift /\ amount = o.amount
  BY OperandTypes
<1>2. None(rn.is64) \in AnyRegister
  BY RegisterTypes
<1>3. CASE o.mn = "add"
  <2>1. Constructors(o) = AddImmediate(rd, rn, imm)
    BY <1>1, <1>3 DEF Constructors
  <2>2. QED
    BY <2>1, AdditionsTyped
<1>4. CASE o.mn = "adds"
  <2>1. Constructors(o) = AddsImmediate(rd, rn, imm)
    BY <1>1, <1>4 DEF Constructors
  <2>2. QED
    BY <2>1, AdditionsTyped
<1>5. CASE o.mn = "sub"
  <2>1. Constructors(o) = SubImmediate(rd, rn, imm)
    BY <1>1, <1>5 DEF Constructors
  <2>2. QED
    BY <2>1, AdditionsTyped
<1>6. CASE o.mn = "subs"
  <2>1. Constructors(o) = SubsImmediate(rd, rn, imm)
    BY <1>1, <1>6 DEF Constructors
  <2>2. QED
    BY <2>1, AdditionsTyped
<1>7. CASE o.mn = "cmn"
  <2>1. Constructors(o) = AddsImmediate(None(rn.is64), rn, imm)
    BY <1>1, <1>7 DEF Constructors, CmnImmediate
  <2>2. QED
    BY <2>1, AdditionsTyped, <1>2
<1>8. CASE o.mn = "cmp"
  <2>1. Constructors(o) = SubsImmediate(None(rn.is64), rn, imm)
    BY <1>1, <1>8 DEF Constructors, CmpImmediate
  <2>2. QED
    BY <2>1, AdditionsTyped, <1>2
<1>9. CASE o.mn = "movn"
  <2>1. Constructors(o) = Movn(rd, imm, shift)
    BY <1>1, <1>9 DEF Constructors
  <2>2. QED
    BY <2>1, MovesTyped
<1>10. CASE o.mn = "movz"
  <2>1. Constructors(o) = Movz(rd, imm, shift)
    BY <1>1, <1>10 DEF Constructors
  <2>2. QED
    BY <2>1, MovesTyped
<1>11. CASE o.mn = "movk"
  <2>1. Constructors(o) = Movk(rd, imm, shift)
    BY <1>1, <1>11 DEF Constructors
  <2>2. QED
    BY <2>1, MovesTyped
<1>12. CASE o.mn = "adr"
  <2>1. Constructors(o) = Adr(rd, imm)
    BY <1>1, <1>12 DEF Constructors
  <2>2. QED
    BY <2>1, AddressesTyped
<1>13. CASE o.mn = "adrp"
  <2>1. Constructors(o) = Adrp(rd, imm)
    BY <1>1, <1>13 DEF Constructors
  <2>2. QED
    BY <2>1, AddressesTyped
<1>14. CASE o.mn = "b"
  <2>1. Constructors(o) = Branch(imm)
    BY <1>1, <1>14 DEF Constructors
  <2>2. QED
    BY <2>1, JumpsTyped
<1>15. CASE o.mn = "bl"
  <2>1. Constructors(o) = BranchLink(imm)
    BY <1>1, <1>15 DEF Constructors
  <2>2. QED
    BY <2>1, JumpsTyped
<1>16. CASE o.mn = "br"
  <2>1. Constructors(o) = BranchRegister(rn)
    BY <1>1, <1>16 DEF Constructors
  <2>2. QED
    BY <2>1, JumpsTyped
<1>17. CASE o.mn = "ret"
  <2>1. Constructors(o) = Ret(rn)
    BY <1>1, <1>17 DEF Constructors
  <2>2. QED
    BY <2>1, JumpsTyped
<1>18. CASE o.mn = "nop"
  <2>1. Constructors(o) = Nop
    BY <1>1, <1>18 DEF Constructors
  <2>2. QED
    BY <2>1, JumpsTyped
<1>19. CASE o.mn = "ldr_literal"
  <2>1. Constructors(o) = LdrLiteral(rd, imm)
    BY <1>1, <1>19 DEF Constructors
  <2>2. QED
    BY <2>1, TransfersTyped
<1>20. CASE o.mn = "ldur"
  <2>1. Constructors(o) = LdurUnscaledImmediate(rd, rn, imm)
    BY <1>1, <1>20 DEF Constructors
  <2>2. QED
    BY <2>1, TransfersTyped
<1>21. CASE o.mn = "stur"
  <2>1. Constructors(o) = SturUnscaledImmediate(rd, rn, imm)
    BY <1>1, <1>21 DEF Constructors
  <2>2. QED
    BY <2>1, TransfersTyped
<1>22. CASE o.mn = "ldr"
  <2>1. Constructors(o) = LdrRegisterImmediate(rd, rn, imm)
    BY <1>1, <1>22 DEF Constructors
  <2>2. QED
    BY <2>1, TransfersTyped
<1>23. CASE o.mn = "str"
  <2>1. Constructors(o) = StrRegisterImmediate(rd, rn, imm)
    BY <1>1, <1>23 DEF Constructors
  <2>2. QED
    BY <2>1, TransfersTyped
<1>24. CASE o.mn = "ldr_offset"
  <2>1. Constructors(o) = LdrRegisterOffset(rd, rn, rm, shift, amount)
    BY <1>1, <1>24 DEF Constructors
  <2>2. QED
    BY <2>1, OffsetsTyped
<1>25. CASE o.mn = "str_offset"
  <2>1. Constructors(o) = StrRegisterOffset(rd, rn, rm, shift, amount)
    BY <1>1, <1>25 DEF Constructors
  <2>2. QED
    BY <2>1, OffsetsTyped
<1>26. CASE o.mn = "orr"
  <2>1. Constructors(o) = OrrShiftedRegister(rd, rn, rm, shift, amount)
    BY <1>1, <1>26 DEF Constructors
  <2>2. QED
    BY <2>1, LogicalsTyped
<1>27. CASE o.mn = "mov"
  <2>1. Constructors(o) = MovRegister(rd, rm)
    BY <1>1, <1>27 DEF Constructors
  <2>2. QED
    BY <2>1, LogicalsTyped
<1>28. o.mn \in Mnemonics
  BY OperandTypes
<1>29. QED
  BY <1>28, <1>3, <1>4, <1>5, <1>6, <1>7, <1>8, <1>9, <1>10, <1>11, <1>12, <1>13, <1>14, <1>15, <1>16,
     <1>17, <1>18, <1>19, <1>20, <1>21, <1>22, <1>23, <1>24, <1>25, <1>26, <1>27
     DEF Mnemonics

-----------------------------------------------------------------------------
(* The invariant. *)

\* What the setters that are left will make of the word is what all of them make of zero.
EncoderIInv ==
  /\ operation \in Operations
  /\ setters \in Seq(FieldSets)
  /\ After(word, setters) = After({}, Constructors(operation))

\* A new word has all its setters before it.
LEMMA EncoderStarts == (\E o \in Operations : EncoderInit(o)) => EncoderIInv
  BY ConstructorsTyped DEF EncoderInit, EncoderIInv

\* A call of SetField takes the first of them.
LEMMA EncoderSteps == EncoderIInv /\ [EncoderNext]_encoderVars => EncoderIInv'
<1>1. CASE SetField /\ EncoderIInv
  <2>1. /\ setters \in Seq(FieldSets) /\ setters # <<>> /\ setters' = Tail(setters) /\ operation' = operation
        /\ word' = SetBits(word, setters[1][1], setters[1][2], setters[1][3])
    BY <1>1 DEF SetField, EncoderIInv
  <2>2. setters' \in Seq(FieldSets)
    BY <2>1
  <2>3. After(word, setters) = After(word', setters')
    BY <2>1, AfterFirst
  <2>4. (After(word, setters) = After({}, Constructors(operation)))'
    <3>1. Constructors(operation)' = Constructors(operation)
      BY <2>1
    <3>2. After(word', setters') = After({}, Constructors(operation))
      BY <1>1, <2>3 DEF EncoderIInv
    <3>3. After({}, Constructors(operation))' = After({}, Constructors(operation))
      BY <2>1
    <3>4. QED
      BY <3>2, <3>3
  <2>5. QED
    BY <1>1, <2>1, <2>2, <2>4 DEF EncoderIInv
<1>2. CASE UNCHANGED encoderVars /\ EncoderIInv
  BY <1>2 DEF encoderVars, EncoderIInv
<1>3. QED
  BY <1>1, <1>2 DEF EncoderNext

\* With none left the word is what all of them make of zero, and decodes.
LEMMA EncoderEnds == EncoderIInv => EncodesTheOperands
<1>1. SUFFICES ASSUME EncoderIInv, setters = <<>>, Encodable(operation)
               PROVE  Decodes(operation)
  BY DEF EncodesTheOperands
<1>2. word = After({}, Constructors(operation))
  BY <1>1, AfterNone DEF EncoderIInv
<1>3. QED
  BY <1>1, <1>2, EncodedDecodes DEF Leads, EncoderIInv

\* What the encoder leaves behind the last setter decodes, by the architecture manual's
\* rules, to the operation that was asked for, whatever the operands in the class's range:
\* no constructor of a base class clobbers a field that a derived one has written, and no
\* operand is cut where it fits.
THEOREM EncodersEncode == EncoderSpec => []EncodesTheOperands
<1>1. EncoderSpec => []EncoderIInv
  BY EncoderStarts, EncoderSteps, PTL DEF EncoderSpec
<1>2. QED
  BY <1>1, EncoderEnds, PTL

===============================================================================
