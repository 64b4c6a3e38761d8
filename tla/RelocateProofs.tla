---------------------------- MODULE RelocateProofs ----------------------------
(* Proofs about Relocate, for functions of every length and content, wherever    *)
(* they and their trampolines are.                                               *)
EXTENDS Relocate, SequenceTheorems, WellFoundedInduction, TLAPS

Written ==
  Kinds \cup {"nop", "ldrx17", "brx17", "adrx30", "ldrrd", "address", "upperHalf", "copied", "undefined"}
Word == [op : Written, off : Int, low : Int, reg : Int]

(* What may wait in the fix map. *)
Waiting == {"b", "bl", "cbz", "tbz", "adr"}

(* HookFuncImpl moves four or five words when the callback is far away.  When it  *)
(* is near, it moves one, and the trampoline, which is in the callback's module,  *)
(* is so close that the jump back is one branch wherever it begins.               *)
JumpIsShort(p) ==
  /\ p.base + Len(p.code) - p.rx < Reach26 - 1
  /\ p.rx + 10 * Len(p.code) - (p.base + Len(p.code)) < Reach26 - 1

(* No load of the function reads what is to be its trampoline.                   *)
LiteralsElsewhere(p) ==
  \A i \in 1 .. Len(p.code) :
    p.code[i].op \in Literals =>
      p.base + i - 1 + Widened(p.code[i].off) \notin p.rx .. p.rx + 10 * Len(p.code) - 1

Ordinary == \A p \in Programs : (Len(p.code) >= 4 \/ JumpIsShort(p)) /\ LiteralsElsewhere(p)

(* The word at place k of the trampoline of p is aligned, and what it loads.     *)
Aligned(p, k, w) ==
  /\ w.op = "address" => (p.rx + k - 1) % 2 = 0
  /\ w.op \in Literals /\ k + w.off \in 1 .. 10 * Len(p.code) =>
       (p.rx + k - 1 + w.off) % LiteralWords(w.op) = 0

(* The words s are aligned behind the first l words of the trampoline.           *)
Fine(p, l, s) == s \in Seq(Word) /\ \A k \in 1 .. Len(s) : Aligned(p, l + k, s[k])

(* A word that is no address and no load, and so many of them.                   *)
Plain(w) == w \in Word /\ w.op \notin Literals \cup {"address"}
Jump(s, n) == s \in Seq(Word) /\ Len(s) = n /\ \A k \in 1 .. n : Plain(s[k])

(* No more than n of them.                                                       *)
Fits(p, l, s, n) == Fine(p, l, s) /\ Len(s) <= n

(* Nine words at most for each word moved, eight for the first, since a          *)
(* trampoline begins at an even place.                                           *)
Room ==
  /\ cur \in 1 .. Len(code) + 2
  /\ cur = 1 => Len(out) = 0
  /\ cur \in 2 .. Len(code) + 1 => Len(out) <= 9 * (cur - 1) - 1
  /\ Len(out) <= 10 * Len(code)

FixMapWaits ==
  /\ fmap \in [1 .. Len(code) -> SUBSET ((Nat \ {0}) \X (Nat \ {0}))]
  /\ \A i \in 1 .. Len(code) : \A f \in fmap[i] : f[1] \in 1 .. Len(out) /\ out[f[1]].op \in Waiting

RInv ==
  /\ program \in Programs
  /\ dat \in [1 .. Len(code) -> Int]
  /\ Fine(program, 0, out)
  /\ Room
  /\ FixMapWaits

-----------------------------------------------------------------------------
(* Words and their alignment. *)

LEMMA ProgramTypes ==
  ASSUME NEW p \in Programs
  PROVE  /\ p.base \in Int /\ p.rx \in Int /\ p.rw \in Int /\ p.rx % 2 = 0
         /\ p.code \in Seq([op : Kinds, off : Int, low : Int, reg : {0}])
         /\ Len(p.code) \in Nat \ {0}
         /\ \A i \in 1 .. Len(p.code) : p.code[i] \in [op : Kinds, off : Int, low : Int, reg : {0}]
<1>1. p.base \in Int /\ p.rx \in Int /\ p.rw \in Int /\ p.rx % 2 = 0
  BY RelocateAssumption
<1>2. p.code \in Seq([op : Kinds, off : Int, low : Int, reg : {0}]) /\ p.code # <<>>
  BY RelocateAssumption
<1>. HIDE RelocateAssumption
<1>3. \A S : \A s \in Seq(S) : s # <<>> => Len(s) \in Nat \ {0} /\ \A i \in 1 .. Len(s) : s[i] \in S
  BY EmptySeq, ElementOfSeq, LenProperties
<1>4. QED
  BY <1>1, <1>2, <1>3

LEMMA ReachTypes ==
  /\ Reach14 \in Nat \ {0} /\ Reach19 \in Nat \ {0} /\ Reach26 \in Nat \ {0}
  /\ Wrap \in Nat \ {0} /\ PageSize \in Nat \ {0}
  BY RelocateAssumption

LEMMA LiteralWordsIs ==
  ASSUME NEW op \in Literals
  PROVE  LiteralWords(op) \in {1, 2, 4}
<1>1. CASE op \in {"ldrw", "ldrs"}
  BY <1>1 DEF LiteralWords
<1>2. CASE op \in {"ldrx", "ldrd", "ldrsw"}
  BY <1>2 DEF LiteralWords
<1>3. CASE op = "ldrq"
  BY <1>3 DEF LiteralWords
<1>4. QED
  BY <1>1, <1>2, <1>3 DEF Literals

(* Nops up to one less than n put what comes behind them at a multiple of n. *)
LEMMA PadIs ==
  ASSUME NEW a \in Int, NEW n \in {1, 2, 4}
  PROVE  (-a) % n \in 0 .. n - 1 /\ (a + ((-a) % n)) % n = 0
<1>1. CASE n = 1
  BY <1>1, Z3
<1>2. CASE n = 2
  BY <1>2, Z3
<1>3. CASE n = 4
  BY <1>3, Z3
<1>4. QED
  BY <1>1, <1>2, <1>3

LEMMA IIsAWord ==
  ASSUME NEW op \in Written, NEW off \in Int
  PROVE  I(op, off) \in Word /\ I(op, off).op = op /\ I(op, off).off = off
  BY DEF I, Word

LEMMA Joined ==
  ASSUME NEW p, NEW l \in Nat, NEW s, NEW t, Fine(p, l, s), Fine(p, l + Len(s), t)
  PROVE  Fine(p, l, s \o t) /\ Len(s \o t) = Len(s) + Len(t)
<1>1. s \in Seq(Word) /\ t \in Seq(Word)
  BY DEF Fine
<1>2. Len(s) \in Nat /\ Len(t) \in Nat
  BY <1>1, LenProperties
<1>3. /\ s \o t \in Seq(Word) /\ Len(s \o t) = Len(s) + Len(t)
      /\ \A i \in 1 .. Len(s) + Len(t) : (s \o t)[i] = IF i <= Len(s) THEN s[i] ELSE t[i - Len(s)]
  BY <1>1, ConcatProperties
<1>4. ASSUME NEW k \in 1 .. Len(s) + Len(t)
      PROVE  Aligned(p, l + k, (s \o t)[k])
  <2>1. CASE k <= Len(s)
    BY <1>2, <1>3, <2>1 DEF Fine
  <2>2. CASE k > Len(s)
    <3>1. k - Len(s) \in 1 .. Len(t) /\ (s \o t)[k] = t[k - Len(s)]
      BY <1>2, <1>3, <2>2
    <3>2. Aligned(p, (l + Len(s)) + (k - Len(s)), t[k - Len(s)])
      BY <3>1 DEF Fine
    <3>3. (l + Len(s)) + (k - Len(s)) = l + k
      BY <1>2
    <3>4. QED
      BY <3>1, <3>2, <3>3
  <2>3. QED
    BY <1>2, <2>1, <2>2
<1>5. QED
  BY <1>3, <1>4 DEF Fine

(* Words that are neither an address nor a load are fine anywhere. *)
LEMMA PlainIsFine ==
  ASSUME NEW p, NEW l, NEW s \in Seq(Word),
         \A k \in 1 .. Len(s) : s[k].op \notin Literals \cup {"address"}
  PROVE  Fine(p, l, s)
  BY DEF Fine, Aligned

LEMMA NopsAreFine ==
  ASSUME NEW p, NEW l, NEW n \in Nat
  PROVE  Fine(p, l, Nops(n)) /\ Len(Nops(n)) = n
<1>1. "nop" \in Written /\ 0 \in Int
  BY DEF Written
<1>2. NopWord \in Word /\ NopWord.op = "nop"
  BY <1>1, IIsAWord DEF NopWord
<1>3. Nops(n) \in Seq(Word) /\ Len(Nops(n)) = n /\ \A k \in 1 .. n : Nops(n)[k] = NopWord
  BY <1>2 DEF Nops
<1>4. "nop" \notin Literals \cup {"address"}
  BY DEF Literals
<1>5. QED
  BY <1>2, <1>3, <1>4, PlainIsFine

LEMMA KeptIsFine ==
  ASSUME NEW p, NEW l, NEW a \in Int, NEW n \in Nat
  PROVE  Fine(p, l, Kept(a, n)) /\ Len(Kept(a, n)) = n
<1>1. ASSUME NEW k \in 1 .. n
      PROVE  I("copied", a + k - 1) \in Word /\ I("copied", a + k - 1).op = "copied"
  <2>1. a + k - 1 \in Int /\ "copied" \in Written
    BY DEF Written
  <2>2. QED
    BY <2>1, IIsAWord
<1>. DEFINE w(k) == I("copied", a + k - 1)
<1>2. Kept(a, n) = [k \in 1 .. n |-> w(k)] /\ \A k \in 1 .. n : w(k) \in Word /\ w(k).op = "copied"
  BY <1>1 DEF Kept, Copied
<1>. HIDE DEF w
<1>3. Kept(a, n) \in Seq(Word) /\ Len(Kept(a, n)) = n /\ \A k \in 1 .. n : Kept(a, n)[k] = w(k)
  BY <1>2
<1>4. "copied" \notin Literals \cup {"address"}
  BY DEF Literals
<1>5. QED
  BY <1>2, <1>3, <1>4, PlainIsFine

(* The two words of an address are fine at an even place. *)
LEMMA AddressIsFine ==
  ASSUME NEW p, NEW l \in Nat, NEW a \in Int, NEW low \in Int, (p.rx + l) % 2 = 0, p.rx \in Int
  PROVE  Fine(p, l, Address(a, low)) /\ Len(Address(a, low)) = 2
<1>1. [I("address", a) EXCEPT !.low = low] \in Word /\ [I("address", a) EXCEPT !.low = low].op = "address"
  BY DEF I, Word, Written
<1>2. I("upperHalf", a) \in Word /\ I("upperHalf", a).op = "upperHalf"
  BY IIsAWord DEF Written
<1>3. Address(a, low) \in Seq(Word) /\ Len(Address(a, low)) = 2
  BY <1>1, <1>2 DEF Address
<1>4. Aligned(p, l + 1, Address(a, low)[1])
  <2>1. p.rx + (l + 1) - 1 = p.rx + l
    OBVIOUS
  <2>2. Address(a, low)[1] = [I("address", a) EXCEPT !.low = low]
    BY DEF Address
  <2>3. "address" \notin Literals
    BY DEF Literals
  <2>4. QED
    BY <1>1, <2>1, <2>2, <2>3 DEF Aligned
<1>5. Aligned(p, l + 2, Address(a, low)[2])
  <2>1. Address(a, low)[2] = I("upperHalf", a)
    BY DEF Address
  <2>2. "upperHalf" \notin Literals \cup {"address"}
    BY DEF Literals
  <2>3. QED
    BY <1>2, <2>1, <2>2 DEF Aligned
<1>6. \A k \in 1 .. 2 : k = 1 \/ k = 2
  OBVIOUS
<1>7. QED
  BY <1>3, <1>4, <1>5, <1>6 DEF Fine

(* The nops that put at an even place what comes so many words behind l words.   *)
PadsEven(p, l, behind, pad) == pad \in {0, 1} /\ (p.rx + l + behind + pad) % 2 = 0

LEMMA PadIsEven ==
  ASSUME RInv, program.rx \in Int, Len(out) \in Nat, NEW behind \in Nat
  PROVE  PadsEven(program, Len(out), behind, Pad(behind, 2))
<1>1. \A b \in Int : (-b) % 2 \in {0, 1} /\ (b + ((-b) % 2)) % 2 = 0
  BY Z3
<1>2. PICK b \in Int : b = program.rx + Len(out) + behind
  OBVIOUS
<1>3. PICK pad : pad = (-b) % 2
  OBVIOUS
<1>4. pad = Pad(behind, 2)
  BY <1>2, <1>3 DEF Pad, Outrx
<1>5. pad \in {0, 1} /\ (b + pad) % 2 = 0
  BY <1>1, <1>3
<1>6. program.rx + Len(out) + behind + pad = b + pad
  BY <1>2, <1>5
<1>7. PadsEven(program, Len(out), behind, pad)
  BY <1>5, <1>6 DEF PadsEven
<1>8. QED
  BY <1>4, <1>7

(* A jump behind nops and before its address, which the nops align. *)
LEMMA FarIsFine ==
  ASSUME NEW p, NEW l \in Nat, p.rx \in Int, NEW s, NEW behind \in Nat, Jump(s, behind),
         NEW pad, PadsEven(p, l, behind, pad),
         NEW a \in Int, NEW low \in Int, NEW words, words = Nops(pad) \o s \o Address(a, low)
  PROVE  Fits(p, l, words, behind + 3)
<1>1. pad \in {0, 1} /\ (p.rx + l + behind + pad) % 2 = 0
  BY DEF PadsEven
<1>2. Fine(p, l, Nops(pad)) /\ Len(Nops(pad)) = pad
  BY <1>1, NopsAreFine
<1>3. Fine(p, l + Len(Nops(pad)), s) /\ Len(s) = behind
  BY PlainIsFine DEF Jump, Plain
<1>4. \A s1, s2 : Fine(p, l, s1) /\ Fine(p, l + Len(s1), s2) =>
        Fine(p, l, s1 \o s2) /\ Len(s1 \o s2) = Len(s1) + Len(s2)
  BY Joined
<1>5. Fine(p, l, Nops(pad) \o s) /\ Len(Nops(pad) \o s) = pad + behind
  <2>1. Fine(p, l, Nops(pad) \o s) /\ Len(Nops(pad) \o s) = Len(Nops(pad)) + Len(s)
    BY <1>2, <1>3, <1>4, Zenon
  <2>2. QED
    BY <1>2, <1>3, <2>1
<1>6. l + (pad + behind) \in Nat /\ p.rx + (l + (pad + behind)) = p.rx + l + behind + pad
  <2>1. \A x \in Int : \A m, b, q \in Nat : m + (q + b) \in Nat /\ x + (m + (q + b)) = x + m + b + q
    OBVIOUS
  <2>2. pad \in Nat
    BY <1>1
  <2>3. PICK x \in Int : x = p.rx
    OBVIOUS
  <2>4. l + (pad + behind) \in Nat /\ x + (l + (pad + behind)) = x + l + behind + pad
    BY <2>1, <2>2
  <2>5. QED
    BY <2>3, <2>4
<1>7. Fine(p, l + (pad + behind), Address(a, low)) /\ Len(Address(a, low)) = 2
  BY <1>1, <1>6, AddressIsFine
<1>8. /\ Fine(p, l, (Nops(pad) \o s) \o Address(a, low))
      /\ Len((Nops(pad) \o s) \o Address(a, low)) = (pad + behind) + 2
  <2>1. Fine(p, l + Len(Nops(pad) \o s), Address(a, low))
    BY <1>5, <1>7
  <2>2. /\ Fine(p, l, (Nops(pad) \o s) \o Address(a, low))
        /\ Len((Nops(pad) \o s) \o Address(a, low)) = Len(Nops(pad) \o s) + Len(Address(a, low))
    BY <1>5, <1>4, <2>1, Zenon
  <2>3. QED
    BY <1>5, <1>7, <2>2
<1>9. Len(words) <= behind + 3 /\ Fine(p, l, words)
  BY <1>1, <1>8
<1>10. QED
  BY <1>9 DEF Fits

-----------------------------------------------------------------------------
(* A word that is moved. *)

LEMMA FieldIsInt ==
  ASSUME NEW x \in Int, NEW reach \in Nat \ {0}
  PROVE  Field(x, reach) \in Int
<1>1. \A a \in Int : \A b \in Nat \ {0} : a % b \in Int
  OBVIOUS
<1>2. x + reach \in Int /\ 2 * reach \in Nat \ {0}
  OBVIOUS
<1>3. (x + reach) % (2 * reach) \in Int
  BY <1>1, <1>2
<1>4. QED
  BY <1>3 DEF Field

LEMMA WaitingIsPlain == Waiting \cap (Literals \cup {"address"}) = {}
  BY DEF Waiting, Literals

(* Completing what waited changes no address, no load and no operation. *)
LEMMA ProcessFixMapIs ==
  ASSUME NEW o \in Seq(Word), NEW i, NEW place \in Int, program.rx \in Int,
         fmap[i] \subseteq (Nat \ {0}) \X (Nat \ {0}),
         \A f \in fmap[i] : f[1] \in 1 .. Len(o) /\ o[f[1]].op \in Waiting,
         NEW fixed, fixed = ProcessFixMap(o, i, place)
  PROVE  /\ fixed \in Seq(Word) /\ Len(fixed) = Len(o)
         /\ \A k \in 1 .. Len(o) :
              /\ fixed[k].op = o[k].op
              /\ o[k].op \in Literals \cup {"address"} => fixed[k] = o[k]
<1>1. Len(o) \in Nat /\ DOMAIN o = 1 .. Len(o) /\ \A k \in 1 .. Len(o) : o[k] \in Word
  BY LenProperties, ElementOfSeq
<1>. DEFINE Fixes(k) == \E f \in fmap[i] : f[1] = k
            fix(k) == CHOOSE f \in fmap[i] : f[1] = k
            off(k) == Field(place - (program.rx + k - 1), fix(k)[2])
            w(k) == IF Fixes(k) THEN [o[k] EXCEPT !.off = off(k)] ELSE o[k]
<1>2. ProcessFixMap(o, i, place) = [k \in 1 .. Len(o) |-> w(k)]
  BY <1>1 DEF ProcessFixMap
<1>3. ASSUME NEW k \in 1 .. Len(o), Fixes(k)
      PROVE  /\ w(k) \in Word /\ w(k).op = o[k].op
             /\ o[k].op \notin Literals \cup {"address"}
  <2>1. fix(k) \in fmap[i] /\ fix(k)[1] = k
    BY <1>3
  <2>2. fix(k)[2] \in Nat \ {0}
    BY <2>1
  <2>3. o[k].op \in Waiting
    BY <2>1
  <2>4. place - (program.rx + k - 1) \in Int
    OBVIOUS
  <2>5. off(k) \in Int
    BY <2>2, <2>4, FieldIsInt
  <2>. HIDE DEF Fixes, off
  <2>6. w(k) = [o[k] EXCEPT !.off = off(k)]
    BY <1>3
  <2>7. w(k) \in Word /\ w(k).op = o[k].op
    BY <1>1, <2>5, <2>6 DEF Word
  <2>8. QED
    BY <2>3, <2>7, WaitingIsPlain
<1>. HIDE DEF Fixes, fix, off
<1>4. \A k \in 1 .. Len(o) : ~Fixes(k) => w(k) = o[k]
  OBVIOUS
<1>. HIDE DEF w
<1>5. \A k \in 1 .. Len(o) :
        /\ w(k) \in Word /\ w(k).op = o[k].op
        /\ o[k].op \in Literals \cup {"address"} => w(k) = o[k]
  BY <1>1, <1>3, <1>4
<1>6. /\ fixed \in Seq(Word) /\ Len(fixed) = Len(o)
      /\ \A k \in 1 .. Len(o) : fixed[k] = w(k)
  BY <1>1, <1>2, <1>5
<1>7. QED
  BY <1>5, <1>6

LEMMA EmitIs ==
  ASSUME RInv, cur \in 1 .. Len(code), NEW words, NEW place \in Int, Emit(words, place),
         Fine(program, Len(out), words),
         Len(words) <= 9, cur = 1 => Len(words) <= 8,
         fmap' \in [1 .. Len(code) -> SUBSET ((Nat \ {0}) \X (Nat \ {0}))],
         \A i \in 1 .. Len(code) : \A f \in fmap'[i] :
           \/ f \in fmap[i]
           \/ /\ f[1] = Len(out) + 1
              /\ Len(words) >= 1
              /\ words[1].op \in Waiting
  PROVE  RInv'
<1>1. program \in Programs /\ program.rx \in Int /\ Len(code) \in Nat \ {0}
  BY ProgramTypes DEF RInv, code
<1>2. /\ out' = ProcessFixMap(out \o words, cur, place) /\ dat' = [dat EXCEPT ![cur] = place]
      /\ cur' = cur + 1 /\ program' = program
  BY DEF Emit
<1>3. out \in Seq(Word) /\ words \in Seq(Word) /\ Fine(program, 0, out)
  BY DEF RInv, Fine
<1>4. Len(out) \in Nat /\ Len(words) \in Nat
  BY <1>3, LenProperties
<1>5. PICK o : o = out \o words
  OBVIOUS
<1>6. /\ o \in Seq(Word) /\ Len(o) = Len(out) + Len(words)
      /\ \A k \in 1 .. Len(out) : o[k] = out[k]
      /\ \A k \in 1 .. Len(words) : o[Len(out) + k] = words[k]
  <2>1. \A k \in 1 .. Len(out) + Len(words) : o[k] = IF k <= Len(out) THEN out[k] ELSE words[k - Len(out)]
    BY <1>3, <1>5, ConcatProperties
  <2>2. o \in Seq(Word) /\ Len(o) = Len(out) + Len(words)
    BY <1>3, <1>5, ConcatProperties
  <2>3. \A k \in 1 .. Len(out) : o[k] = out[k]
    BY <1>4, <2>1
  <2>4. ASSUME NEW k \in 1 .. Len(words)
        PROVE  o[Len(out) + k] = words[k]
    <3>1. Len(out) + k \in 1 .. Len(out) + Len(words) /\ ~(Len(out) + k <= Len(out))
      BY <1>4
    <3>2. (Len(out) + k) - Len(out) = k
      BY <1>4
    <3>3. QED
      BY <2>1, <3>1, <3>2
  <2>5. QED
    BY <2>2, <2>3, <2>4
<1>7. Fine(program, 0, o)
  <2>1. Fine(program, 0 + Len(out), words)
    BY <1>4
  <2>2. QED
    BY <1>3, <1>5, <2>1, Joined
<1>8. /\ out' \in Seq(Word) /\ Len(out') = Len(o)
      /\ \A k \in 1 .. Len(o) :
           /\ out'[k].op = o[k].op
           /\ o[k].op \in Literals \cup {"address"} => out'[k] = o[k]
  <2>1. FixMapWaits
    BY DEF RInv
  <2>2. fmap[cur] \subseteq (Nat \ {0}) \X (Nat \ {0})
    BY <2>1 DEF FixMapWaits
  <2>3. \A f \in fmap[cur] : f[1] \in 1 .. Len(o) /\ o[f[1]].op \in Waiting
    BY <1>4, <1>6, <2>1 DEF FixMapWaits
  <2>4. PICK fixed : fixed = ProcessFixMap(o, cur, place)
    OBVIOUS
  <2>5. /\ fixed \in Seq(Word) /\ Len(fixed) = Len(o)
        /\ \A k \in 1 .. Len(o) :
             /\ fixed[k].op = o[k].op
             /\ o[k].op \in Literals \cup {"address"} => fixed[k] = o[k]
    BY <1>1, <1>6, <2>2, <2>3, <2>4, ProcessFixMapIs
  <2>6. out' = fixed
    BY <1>2, <1>5, <2>4
  <2>7. QED
    BY <2>5, <2>6
<1>9. Fine(program, 0, out')
  <2>1. ASSUME NEW k \in 1 .. Len(out')
        PROVE  Aligned(program, 0 + k, out'[k])
    <3>1. Aligned(program, 0 + k, o[k])
      BY <1>7, <1>8 DEF Fine
    <3>2. CASE o[k].op \in Literals \cup {"address"}
      BY <1>8, <3>1, <3>2
    <3>3. CASE o[k].op \notin Literals \cup {"address"}
      BY <1>8, <3>3 DEF Aligned
    <3>4. QED
      BY <3>2, <3>3
  <2>2. QED
    BY <1>8, <2>1 DEF Fine
<1>10. /\ cur' \in 1 .. Len(code) + 2 /\ cur' # 1
      /\ Len(out') <= 9 * (cur' - 1) - 1 /\ Len(out') <= 10 * Len(code)
  <2>1. Len(out) + Len(words) <= 9 * cur - 1
    <3>1. CASE cur = 1
      BY <1>4, <3>1 DEF RInv, Room
    <3>2. CASE cur # 1
      BY <1>1, <1>4, <3>2 DEF RInv, Room
    <3>3. QED
      BY <3>1, <3>2
  <2>2. QED
    BY <1>1, <1>2, <1>4, <1>6, <1>8, <2>1
<1>11. code' = code
  BY <1>2 DEF code
<1>12. Room'
  BY <1>10, <1>11 DEF Room
<1>13. FixMapWaits'
  <2>1. ASSUME NEW i \in 1 .. Len(code), NEW f \in fmap'[i]
        PROVE  f[1] \in 1 .. Len(out') /\ out'[f[1]].op \in Waiting
    <3>1. CASE f \in fmap[i]
      <4>1. f[1] \in 1 .. Len(out) /\ out[f[1]].op \in Waiting
        BY <3>1 DEF RInv, FixMapWaits
      <4>2. QED
        BY <1>4, <1>6, <1>8, <4>1
    <3>2. CASE f[1] = Len(out) + 1 /\ Len(words) >= 1 /\ words[1].op \in Waiting
      <4>1. o[Len(out) + 1] = words[1] /\ f[1] \in 1 .. Len(o)
        BY <1>4, <1>6, <3>2
      <4>2. QED
        BY <1>8, <3>2, <4>1
    <3>3. QED
      BY <3>1, <3>2
  <2>2. QED
    BY <1>11, <2>1 DEF FixMapWaits
<1>14. dat' \in [1 .. Len(code) -> Int]
  BY <1>2 DEF RInv
<1>15. QED
  BY <1>1, <1>2, <1>9, <1>11, <1>12, <1>13, <1>14 DEF RInv

LEMMA StateTypes ==
  ASSUME RInv
  PROVE  /\ program \in Programs /\ program.base \in Int /\ program.rx \in Int /\ program.rw \in Int
         /\ program.rx % 2 = 0
         /\ Len(code) \in Nat \ {0} /\ Len(out) \in Nat /\ cur \in Int
         /\ Outrx = program.rx + Len(out) /\ Outrx \in Int /\ Outrw \in Int
         /\ \A i \in 1 .. Len(code) : code[i] \in [op : Kinds, off : Int, low : Int, reg : {0}]
         /\ \A i \in Int : Here(i) \in Int
<1>1. program \in Programs /\ out \in Seq(Word) /\ Room
  BY DEF RInv, Fine
<1>2. /\ program.base \in Int /\ program.rx \in Int /\ program.rw \in Int /\ program.rx % 2 = 0
      /\ Len(code) \in Nat \ {0}
      /\ \A i \in 1 .. Len(code) : code[i] \in [op : Kinds, off : Int, low : Int, reg : {0}]
  BY <1>1, ProgramTypes DEF code
<1>3. Len(out) \in Nat /\ cur \in Int
  BY <1>1, <1>2, LenProperties DEF Room
<1>4. Outrx = program.rx + Len(out) /\ Outrx \in Int /\ Outrw \in Int
  BY <1>2, <1>3 DEF Outrx, Outrw
<1>5. \A i \in Int : Here(i) \in Int
  BY <1>2 DEF Here
<1>6. QED
  BY <1>1, <1>2, <1>3, <1>4, <1>5

(* The word that is moved. *)
LEMMA MovedWord ==
  ASSUME RInv, cur \in 1 .. Len(code)
  PROVE  /\ code[cur] \in Word /\ code[cur].op \in Kinds /\ code[cur].off \in Int /\ code[cur].low \in Int
         /\ Here(cur) \in Int
<1>1. code[cur] \in [op : Kinds, off : Int, low : Int, reg : {0}] /\ Here(cur) \in Int
  BY StateTypes
<1>2. Kinds \subseteq Written
  BY DEF Written
<1>3. QED
  BY <1>1, <1>2 DEF Word

LEMMA OneIsFine ==
  ASSUME NEW p, NEW l, NEW w \in Word, w.op \notin Literals \cup {"address"}
  PROVE  Fine(p, l, <<w>>) /\ Len(<<w>>) = 1
<1>1. <<w>> \in Seq(Word) /\ Len(<<w>>) = 1 /\ \A k \in 1 .. 1 : <<w>>[k] = w
  OBVIOUS
<1>2. QED
  BY <1>1, PlainIsFine

LEMMA EmitAndForget ==
  ASSUME RInv, cur \in 1 .. Len(code), NEW words, NEW place \in Int, Emit(words, place), NoWait,
         Fine(program, Len(out), words),
         Len(words) <= 9, cur = 1 => Len(words) <= 8
  PROVE  RInv'
<1>1. fmap' = [fmap EXCEPT ![cur] = {}] /\ FixMapWaits
  BY DEF NoWait, RInv
<1>2. fmap' \in [1 .. Len(code) -> SUBSET ((Nat \ {0}) \X (Nat \ {0}))]
  BY <1>1 DEF FixMapWaits
<1>3. \A i \in 1 .. Len(code) : \A f \in fmap'[i] : f \in fmap[i]
  BY <1>1 DEF FixMapWaits
<1>4. QED
  BY <1>2, <1>3, EmitIs

LEMMA EmitReferenceIs ==
  ASSUME RInv, cur \in 1 .. Len(code), NEW word \in Word, word.op \in Waiting,
         NEW ref \in 1 .. Len(code), NEW reach \in Nat \ {0}, EmitReference(word, ref, reach)
  PROVE  RInv'
<1>1. ASSUME NEW off \in Int
      PROVE  /\ Fine(program, Len(out), <<[word EXCEPT !.off = off]>>)
             /\ Len(<<[word EXCEPT !.off = off]>>) = 1
             /\ <<[word EXCEPT !.off = off]>>[1].op = word.op
  <2>1. [word EXCEPT !.off = off] \in Word /\ [word EXCEPT !.off = off].op = word.op
    BY DEF Word
  <2>2. QED
    BY <2>1, OneIsFine, WaitingIsPlain
<1>2. CASE ref <= cur
  <2>1. PICK place \in Int : place = IF ref = cur THEN Outrx ELSE dat[ref]
    BY StateTypes DEF RInv
  <2>2. PICK off \in Int : off = Field(place - Outrx, reach)
    <3>1. Outrx \in Int
      BY StateTypes
    <3>2. place - Outrx \in Int
      BY <3>1
    <3>3. QED
      BY <3>2, FieldIsInt
  <2>3. Emit(<<[word EXCEPT !.off = off]>>, Outrx) /\ NoWait
    BY <1>2, <2>1, <2>2 DEF EmitReference
  <2>4. PICK words : words = <<[word EXCEPT !.off = off]>>
    OBVIOUS
  <2>5. Fine(program, Len(out), words) /\ Len(words) = 1 /\ Emit(words, Outrx) /\ NoWait
    BY <1>1, <2>3, <2>4
  <2>6. Len(words) <= 9 /\ Len(words) <= 8
    BY <2>5
  <2>7. Outrx \in Int
    BY StateTypes
  <2>8. QED
    BY <2>5, <2>6, <2>7, EmitAndForget
<1>3. CASE ~(ref <= cur)
  <2>1. /\ Emit(<<[word EXCEPT !.off = 0]>>, Outrx)
        /\ fmap' = [fmap EXCEPT ![cur] = {}, ![ref] = @ \cup {<<Len(out) + 1, reach>>}]
    BY <1>3 DEF EmitReference
  <2>2. PICK words : words = <<[word EXCEPT !.off = 0]>>
    OBVIOUS
  <2>3. Fine(program, Len(out), words) /\ Len(words) = 1 /\ words[1].op \in Waiting /\ Emit(words, Outrx)
    BY <1>1, <2>1, <2>2
  <2>4. FixMapWaits /\ ref # cur /\ Len(out) + 1 \in Nat \ {0}
    <3>1. Len(out) \in Nat /\ cur \in Int
      BY StateTypes
    <3>2. QED
      BY <1>3, <3>1 DEF RInv
  <2>5. /\ fmap'[ref] = fmap[ref] \cup {<<Len(out) + 1, reach>>}
        /\ \A i \in 1 .. Len(code) : i # ref => fmap'[i] \subseteq fmap[i]
    BY <2>1, <2>4 DEF FixMapWaits
  <2>6. fmap' \in [1 .. Len(code) -> SUBSET ((Nat \ {0}) \X (Nat \ {0}))]
    <3>1. <<Len(out) + 1, reach>> \in (Nat \ {0}) \X (Nat \ {0})
      BY <2>4
    <3>2. fmap[ref] \cup {<<Len(out) + 1, reach>>} \in SUBSET ((Nat \ {0}) \X (Nat \ {0}))
      BY <2>4, <3>1 DEF FixMapWaits
    <3>3. QED
      BY <2>1, <2>4, <3>2 DEF FixMapWaits
  <2>7. ASSUME NEW i \in 1 .. Len(code), NEW f \in fmap'[i]
        PROVE  \/ f \in fmap[i]
               \/ /\ f[1] = Len(out) + 1
                  /\ Len(words) >= 1
                  /\ words[1].op \in Waiting
    <3>1. CASE i = ref /\ f = <<Len(out) + 1, reach>>
      BY <2>3, <3>1
    <3>2. CASE ~(i = ref /\ f = <<Len(out) + 1, reach>>)
      BY <2>5, <3>2
    <3>3. QED
      BY <3>1, <3>2
  <2>8. Len(words) <= 9 /\ Len(words) <= 8
    BY <2>3
  <2>9. Outrx \in Int
    BY StateTypes
  <2>10. QED
    BY <2>3, <2>6, <2>7, <2>8, <2>9, EmitIs
<1>4. QED
  BY <1>2, <1>3

(* A jump to where no branch reaches, with its address. *)
LEMMA EmitFar ==
  ASSUME RInv, cur \in 1 .. Len(code), NEW s, NEW behind \in {2, 3, 4}, Jump(s, behind),
         NEW a \in Int, NEW low \in Int, NEW pad, pad = Pad(behind, 2), NEW place,
         place = Outrx \/ place = Outrx + pad \/ place = Outrw,
         Emit(Nops(pad) \o s \o Address(a, low), place), NoWait
  PROVE  RInv'
<1>1. program.rx \in Int /\ Len(out) \in Nat /\ Outrx \in Int /\ Outrw \in Int
  BY StateTypes
<1>2. behind \in Nat
  OBVIOUS
<1>3. PadsEven(program, Len(out), behind, pad)
  BY <1>1, <1>2, PadIsEven
<1>4. PICK words : words = Nops(pad) \o s \o Address(a, low)
  OBVIOUS
<1>5. Fits(program, Len(out), words, behind + 3)
  BY <1>1, <1>2, <1>3, <1>4, FarIsFine
<1>6. Fine(program, Len(out), words) /\ Len(words) <= 9 /\ Len(words) <= 8
  <2>1. Len(words) \in Nat
    BY <1>5, LenProperties DEF Fits, Fine
  <2>2. QED
    BY <1>5, <2>1 DEF Fits
<1>7. place \in Int
  <2>1. pad \in Int
    BY <1>3 DEF PadsEven
  <2>2. QED
    BY <1>1, <2>1
<1>8. QED
  BY <1>4, <1>5, <1>6, <1>7, EmitAndForget

LEMMA EmitOne ==
  ASSUME RInv, cur \in 1 .. Len(code), NEW w, Plain(w),
         NEW place \in Int, Emit(<<w>>, place), NoWait
  PROVE  RInv'
<1>1. PICK words : words = <<w>>
  OBVIOUS
<1>2. Fine(program, Len(out), words) /\ Len(words) = 1 /\ Emit(words, place)
  BY <1>1, OneIsFine DEF Plain
<1>3. Len(words) <= 9 /\ Len(words) <= 8
  BY <1>2
<1>4. QED
  BY <1>2, <1>3, EmitAndForget

LEMMA RefIndexIs ==
  ASSUME RInv, NEW a \in Int, InRange(a)
  PROVE  RefIndex(a) \in 1 .. Len(code)
<1>1. program.base \in Int /\ Len(code) \in Nat
  BY StateTypes
<1>2. QED
  BY <1>1 DEF InRange, RefIndex

(* The words the rewriting functions write. *)
LEMMA WordsWritten ==
  /\ \A off \in Int : Plain(LdrX17(off))
  /\ Plain(BrX17)
  /\ \A op \in Waiting \cup {"adrx30", "ldrrd"} : \A off \in Int : Plain(I(op, off))
<1>1. (Waiting \cup {"adrx30", "ldrrd", "ldrx17", "brx17"}) \subseteq Written
  BY DEF Waiting, Written, Kinds
<1>2. \A op \in Waiting \cup {"adrx30", "ldrrd", "ldrx17", "brx17"} : op \notin Literals \cup {"address"}
  BY DEF Waiting, Literals
<1>3. \A op \in Waiting \cup {"adrx30", "ldrrd", "ldrx17", "brx17"} : \A off \in Int : Plain(I(op, off))
  BY <1>1, <1>2, IIsAWord DEF Plain
<1>4. 0 \in Int
  OBVIOUS
<1>5. Plain(BrX17)
  BY <1>3, <1>4 DEF BrX17
<1>6. \A off \in Int : Plain(LdrX17(off))
  BY <1>3 DEF LdrX17
<1>7. QED
  BY <1>3, <1>5, <1>6

(* A sequence of two, three or four such words. *)
LEMMA Two ==
  ASSUME NEW a, NEW b, Plain(a), Plain(b)
  PROVE  Jump(<<a, b>>, 2)
<1>1. <<a, b>> \in Seq(Word) /\ Len(<<a, b>>) = 2 /\ <<a, b>>[1] = a /\ <<a, b>>[2] = b
  BY DEF Plain
<1>2. \A k \in 1 .. 2 : k = 1 \/ k = 2
  OBVIOUS
<1>3. QED
  BY <1>1, <1>2 DEF Jump

LEMMA Three ==
  ASSUME NEW a, NEW b, NEW c, Plain(a), Plain(b), Plain(c)
  PROVE  Jump(<<a, b, c>>, 3)
<1>1. /\ <<a, b, c>> \in Seq(Word) /\ Len(<<a, b, c>>) = 3
      /\ <<a, b, c>>[1] = a /\ <<a, b, c>>[2] = b /\ <<a, b, c>>[3] = c
  BY DEF Plain
<1>2. \A k \in 1 .. 3 : k = 1 \/ k = 2 \/ k = 3
  OBVIOUS
<1>3. QED
  BY <1>1, <1>2 DEF Jump

LEMMA Four ==
  ASSUME NEW a, NEW b, NEW c, NEW d, Plain(a), Plain(b), Plain(c), Plain(d)
  PROVE  Jump(<<a, b, c, d>>, 4)
<1>1. /\ <<a, b, c, d>> \in Seq(Word) /\ Len(<<a, b, c, d>>) = 4
      /\ <<a, b, c, d>>[1] = a /\ <<a, b, c, d>>[2] = b /\ <<a, b, c, d>>[3] = c /\ <<a, b, c, d>>[4] = d
  BY DEF Plain
<1>2. \A k \in 1 .. 4 : k = 1 \/ k = 2 \/ k = 3 \/ k = 4
  OBVIOUS
<1>3. QED
  BY <1>1, <1>2 DEF Jump

-----------------------------------------------------------------------------
(* One lemma for each of the rewriting functions. *)

LEMMA FixBranchStep ==
  ASSUME RInv, cur \in 1 .. Len(code), FixBranch
  PROVE  RInv'
<1>1. PICK w \in Word : w = code[cur]
  BY MovedWord
<1>2. w.off \in Int /\ w.op \in {"b", "bl"} /\ w.op \in Waiting
  BY <1>1, MovedWord DEF FixBranch, Waiting
<1>3. PICK to \in Int : to = Here(cur) + w.off
  BY <1>1, MovedWord
<1>4. \/ /\ w.op = "b"
         /\ Emit(Nops(Pad(2, 2)) \o <<LdrX17(2), BrX17>> \o Address(to, 0), Outrx + Pad(2, 2)) /\ NoWait
      \/ /\ w.op = "bl"
         /\ Emit(Nops(Pad(3, 2)) \o <<LdrX17(3), I("adrx30", 4), BrX17>> \o Address(to, 0), Outrx + Pad(3, 2))
         /\ NoWait
      \/ InRange(to) /\ EmitReference(w, RefIndex(to), Reach26)
      \/ Emit(<<I(w.op, to - Outrx)>>, Outrx) /\ NoWait
  BY <1>1, <1>2, <1>3, Zenon DEF FixBranch
<1>5. CASE Emit(Nops(Pad(2, 2)) \o <<LdrX17(2), BrX17>> \o Address(to, 0), Outrx + Pad(2, 2)) /\ NoWait
  <2>1. PICK s : s = <<LdrX17(2), BrX17>>
    OBVIOUS
  <2>2. Jump(s, 2)
    BY <2>1, WordsWritten, Two
  <2>3. PICK behind \in {2, 3, 4} : behind = 2
    OBVIOUS
  <2>4. PICK pad : pad = Pad(behind, 2)
    OBVIOUS
  <2>5. PICK place : place = Outrx + pad
    OBVIOUS
  <2>6. Emit(Nops(pad) \o s \o Address(to, 0), place) /\ NoWait /\ Jump(s, behind) /\ 0 \in Int
    BY <1>5, <2>1, <2>2, <2>3, <2>4, <2>5
  <2>7. QED
    BY <2>4, <2>5, <2>6, EmitFar
<1>6. CASE /\ Emit(Nops(Pad(3, 2)) \o <<LdrX17(3), I("adrx30", 4), BrX17>> \o Address(to, 0), Outrx + Pad(3, 2))
           /\ NoWait
  <2>1. PICK s : s = <<LdrX17(3), I("adrx30", 4), BrX17>>
    OBVIOUS
  <2>2. Jump(s, 3)
    BY <2>1, WordsWritten, Three
  <2>3. PICK behind \in {2, 3, 4} : behind = 3
    OBVIOUS
  <2>4. PICK pad : pad = Pad(behind, 2)
    OBVIOUS
  <2>5. PICK place : place = Outrx + pad
    OBVIOUS
  <2>6. Emit(Nops(pad) \o s \o Address(to, 0), place) /\ NoWait /\ Jump(s, behind) /\ 0 \in Int
    BY <1>6, <2>1, <2>2, <2>3, <2>4, <2>5
  <2>7. QED
    BY <2>4, <2>5, <2>6, EmitFar
<1>7. CASE InRange(to) /\ EmitReference(w, RefIndex(to), Reach26)
  BY <1>2, <1>7, RefIndexIs, ReachTypes, EmitReferenceIs
<1>8. CASE Emit(<<I(w.op, to - Outrx)>>, Outrx) /\ NoWait
  <2>1. Outrx \in Int /\ to - Outrx \in Int
    BY StateTypes
  <2>2. PICK v : v = I(w.op, to - Outrx) /\ Plain(v)
    BY <1>2, <2>1, WordsWritten
  <2>3. QED
    BY <1>8, <2>1, <2>2, EmitOne
<1>9. QED
  BY <1>4, <1>5, <1>6, <1>7, <1>8

LEMMA FixConditionalStep ==
  ASSUME RInv, cur \in 1 .. Len(code), FixConditional
  PROVE  RInv'
<1>1. PICK w \in Word : w = code[cur]
  BY MovedWord
<1>2. w.off \in Int /\ w.op \in {"cbz", "tbz"} /\ w.op \in Waiting
  BY <1>1, MovedWord DEF FixConditional, Waiting
<1>3. PICK reach \in Nat \ {0} : reach = ReachOf(w.op)
  BY ReachTypes DEF ReachOf
<1>4. PICK to \in Int : to = Here(cur) + Unsigned(w.off, reach)
  <2>1. \A a \in Int : \A b \in Nat \ {0} : a % b \in Int
    OBVIOUS
  <2>2. 2 * reach \in Nat \ {0}
    OBVIOUS
  <2>3. Unsigned(w.off, reach) \in Int
    BY <1>2, <2>1, <2>2 DEF Unsigned
  <2>4. QED
    BY <2>3, MovedWord
<1>5. \/ Emit(Nops(Pad(4, 2)) \o <<I(w.op, 2), I("b", 5), LdrX17(2), BrX17>> \o Address(to, 0), Outrx) /\ NoWait
      \/ InRange(to) /\ EmitReference(w, RefIndex(to), reach)
      \/ Emit(<<I(w.op, to - Outrx)>>, Outrx) /\ NoWait
  BY <1>1, <1>3, <1>4, Zenon DEF FixConditional
<1>6. CASE Emit(Nops(Pad(4, 2)) \o <<I(w.op, 2), I("b", 5), LdrX17(2), BrX17>> \o Address(to, 0), Outrx) /\ NoWait
  <2>1. PICK s : s = <<I(w.op, 2), I("b", 5), LdrX17(2), BrX17>>
    OBVIOUS
  <2>2. "b" \in Waiting /\ 2 \in Int /\ 5 \in Int /\ 0 \in Int
    BY DEF Waiting
  <2>3. Plain(I(w.op, 2)) /\ Plain(I("b", 5)) /\ Plain(LdrX17(2)) /\ Plain(BrX17)
    BY <1>2, <2>2, WordsWritten
  <2>4. Jump(s, 4)
    BY <2>1, <2>3, Four
  <2>5. PICK behind \in {2, 3, 4} : behind = 4
    OBVIOUS
  <2>6. PICK pad : pad = Pad(behind, 2)
    OBVIOUS
  <2>7. PICK place : place = Outrx
    OBVIOUS
  <2>8. Emit(Nops(pad) \o s \o Address(to, 0), place) /\ NoWait /\ Jump(s, behind)
    BY <1>6, <2>1, <2>4, <2>5, <2>6, <2>7
  <2>9. QED
    BY <2>2, <2>6, <2>7, <2>8, EmitFar
<1>7. CASE InRange(to) /\ EmitReference(w, RefIndex(to), reach)
  BY <1>2, <1>7, RefIndexIs, EmitReferenceIs
<1>8. CASE Emit(<<I(w.op, to - Outrx)>>, Outrx) /\ NoWait
  <2>1. Outrx \in Int /\ to - Outrx \in Int
    BY StateTypes
  <2>2. PICK v : v = I(w.op, to - Outrx) /\ Plain(v)
    BY <1>2, <2>1, WordsWritten
  <2>3. QED
    BY <1>8, <2>1, <2>2, EmitOne
<1>9. QED
  BY <1>5, <1>6, <1>7, <1>8

(* The word that loads an address from behind a jump over it. *)
LEMMA LoadOfAddress == Jump(<<I("ldrrd", 2), I("b", 3)>>, 2)
<1>1. "b" \in Waiting /\ 2 \in Int /\ 3 \in Int
  BY DEF Waiting
<1>2. Plain(I("ldrrd", 2)) /\ Plain(I("b", 3))
  BY <1>1, WordsWritten
<1>3. QED
  BY <1>2, Two

LEMMA WidenedIsInt ==
  ASSUME NEW off \in Int
  PROVE  Widened(off) \in Int
  BY ReachTypes DEF Widened

LEMMA FixAdrStep ==
  ASSUME RInv, cur \in 1 .. Len(code), FixAdr
  PROVE  RInv'
<1>1. PICK w \in Word : w = code[cur]
  BY MovedWord
<1>2. w.off \in Int /\ w.low \in Int /\ w.op = "adr" /\ w.op \in Waiting
  BY <1>1, MovedWord DEF FixAdr, Waiting
<1>3. PICK to \in Int : to = Here(cur) + Widened(w.off)
  <2>1. Widened(w.off) \in Int /\ Here(cur) \in Int
    BY <1>2, WidenedIsInt, MovedWord
  <2>2. QED
    BY <2>1
<1>4. \/ Emit(Nops(Pad(2, 2)) \o <<I("ldrrd", 2), I("b", 3)>> \o Address(to, w.low), Outrx + Pad(2, 2)) /\ NoWait
      \/ InRange(to) /\ EmitReference(w, RefIndex(to), Reach19)
      \/ Emit(<<[w EXCEPT !.off = to - Outrx, !.reg = w.low]>>, Outrx) /\ NoWait
  BY <1>1, <1>3, Zenon DEF FixAdr
<1>5. CASE Emit(Nops(Pad(2, 2)) \o <<I("ldrrd", 2), I("b", 3)>> \o Address(to, w.low), Outrx + Pad(2, 2)) /\ NoWait
  <2>1. PICK s : s = <<I("ldrrd", 2), I("b", 3)>> /\ Jump(s, 2)
    BY LoadOfAddress
  <2>2. PICK behind \in {2, 3, 4} : behind = 2
    OBVIOUS
  <2>3. PICK pad : pad = Pad(behind, 2)
    OBVIOUS
  <2>4. PICK place : place = Outrx + pad
    OBVIOUS
  <2>5. Emit(Nops(pad) \o s \o Address(to, w.low), place) /\ NoWait /\ Jump(s, behind)
    BY <1>5, <2>1, <2>2, <2>3, <2>4
  <2>6. QED
    BY <1>2, <2>3, <2>4, <2>5, EmitFar
<1>6. CASE InRange(to) /\ EmitReference(w, RefIndex(to), Reach19)
  BY <1>2, <1>6, RefIndexIs, ReachTypes, EmitReferenceIs
<1>7. CASE Emit(<<[w EXCEPT !.off = to - Outrx, !.reg = w.low]>>, Outrx) /\ NoWait
  <2>1. Outrx \in Int /\ to - Outrx \in Int
    BY StateTypes
  <2>2. PICK v : v = [w EXCEPT !.off = to - Outrx, !.reg = w.low]
    OBVIOUS
  <2>3. v \in Word /\ v.op = w.op
    BY <1>2, <2>1, <2>2 DEF Word
  <2>4. Plain(v)
    BY <1>2, <2>3, WaitingIsPlain DEF Plain
  <2>5. QED
    BY <1>7, <2>1, <2>2, <2>4, EmitOne
<1>8. QED
  BY <1>4, <1>5, <1>6, <1>7

LEMMA FixAdrpStep ==
  ASSUME RInv, cur \in 1 .. Len(code), FixAdrp
  PROVE  RInv'
<1>1. PICK w \in Word : w = code[cur]
  BY MovedWord
<1>2. w.off \in Int /\ w.op = "adrp" /\ Plain(w)
  BY <1>1, MovedWord DEF FixAdrp, Plain, Literals
<1>3. Outrx \in Int /\ Outrw \in Int
  BY StateTypes
<1>4. PICK to \in Int : to = PageOfWord(Here(cur)) + Widened(w.off * PageSize)
  <2>1. \A a \in Int : \A b \in Nat \ {0} : a % b \in Int /\ a * b \in Int
    OBVIOUS
  <2>2. w.off * PageSize \in Int /\ Here(cur) % PageSize \in Int /\ Here(cur) \in Int
    BY <1>2, <2>1, ReachTypes, MovedWord
  <2>3. PageOfWord(Here(cur)) \in Int
    BY <2>2 DEF PageOfWord
  <2>4. Widened(w.off * PageSize) \in Int
    BY <2>2, WidenedIsInt
  <2>5. QED
    BY <2>3, <2>4
<1>5. CASE InRange(to)
  <2>1. Emit(<<w>>, Outrw) /\ NoWait
    BY <1>1, <1>4, <1>5, Zenon DEF FixAdrp
  <2>2. QED
    BY <1>2, <1>3, <2>1, EmitOne
<1>6. CASE ~InRange(to)
  <2>1. PICK s : s = <<I("ldrrd", 2), I("b", 3)>> /\ Jump(s, 2)
    BY LoadOfAddress
  <2>2. PICK behind \in {2, 3, 4} : behind = 2
    OBVIOUS
  <2>3. PICK pad : pad = Pad(behind, 2)
    OBVIOUS
  <2>4. PICK place : place = IF pad = 0 THEN Outrw ELSE Outrx + pad
    OBVIOUS
  <2>5. pad = Pad(2, 2)
    BY <2>2, <2>3
  <2>6. Emit(Nops(pad) \o s \o Address(to, 0), place) /\ NoWait
    BY <1>1, <1>4, <1>6, <2>1, <2>4, <2>5, Zenon DEF FixAdrp
  <2>7. place = Outrx + pad \/ place = Outrw
    BY <2>4
  <2>8. Jump(s, behind) /\ 0 \in Int
    BY <2>1, <2>2
  <2>9. QED
    BY <2>3, <2>6, <2>7, <2>8, EmitFar
<1>7. QED
  BY <1>5, <1>6

LEMMA NearPlace ==
  ASSUME NEW x \in Int, NEW l \in Nat, NEW o \in Int, o = x + l, NEW f \in Int, NEW q \in Nat,
         NEW a, a = f - o - q
  PROVE  a \in Int /\ (l + q + 1) + a = f - x + 1
  OBVIOUS

(* What does not depend on the alignment: a load of a literal in reach.          *)
LEMMA NearIsFine ==
  ASSUME NEW p, NEW l \in Nat, p.rx \in Int, NEW pad \in Nat, NEW from \in Int, NEW op \in Literals,
         Len(p.code) \in Nat, from \notin p.rx .. p.rx + 10 * Len(p.code) - 1,
         NEW near \in Int, (l + pad + 1) + near = from - p.rx + 1
  PROVE  Fits(p, l, Nops(pad) \o <<I(Oversigned(op, near), near)>>, pad + 1)
<1>1. Oversigned(op, near) \in Literals \cup {"undefined"}
  <2>1. CASE near >= 0
    BY <2>1 DEF Oversigned
  <2>2. CASE ~(near >= 0)
    <3>1. CASE op = "ldrw"
      BY <2>2, <3>1, Zenon DEF Oversigned, Literals
    <3>2. CASE op \in {"ldrs", "ldrd", "ldrq"}
      BY <2>2, <3>2, Zenon DEF Oversigned, Literals
    <3>3. CASE op \notin {"ldrw", "ldrs", "ldrd", "ldrq"}
      BY <2>2, <3>3, Zenon DEF Oversigned, Literals
    <3>4. QED
      BY <3>1, <3>2, <3>3
  <2>3. QED
    BY <2>1, <2>2
<1>2. PICK w : w = I(Oversigned(op, near), near)
  OBVIOUS
<1>3. Oversigned(op, near) \in Written /\ Oversigned(op, near) # "address"
  BY <1>1 DEF Written, Kinds, Literals
<1>4. w \in Word /\ w.off = near /\ w.op # "address"
  BY <1>2, <1>3, IIsAWord
<1>5. (l + pad + 1) + near \notin 1 .. 10 * Len(p.code)
  <2>1. PICK x \in Int : x = p.rx
    OBVIOUS
  <2>2. PICK m \in Nat : m = Len(p.code)
    OBVIOUS
  <2>3. from \notin x .. x + 10 * m - 1 /\ (l + pad + 1) + near = from - x + 1
    BY <2>1, <2>2
  <2>4. from - x + 1 \notin 1 .. 10 * m
    BY <2>3
  <2>5. QED
    BY <2>2, <2>3, <2>4
<1>6. Aligned(p, l + pad + 1, w)
  BY <1>4, <1>5 DEF Aligned
<1>7. Fine(p, l + pad, <<w>>) /\ Len(<<w>>) = 1
  <2>1. <<w>> \in Seq(Word) /\ Len(<<w>>) = 1 /\ \A k \in 1 .. 1 : <<w>>[k] = w /\ k = 1
    BY <1>4
  <2>2. QED
    BY <1>6, <2>1 DEF Fine
<1>8. Fine(p, l, Nops(pad)) /\ Len(Nops(pad)) = pad
  BY NopsAreFine
<1>9. Fine(p, l + Len(Nops(pad)), <<w>>)
  BY <1>7, <1>8
<1>10. Fine(p, l, Nops(pad) \o <<w>>) /\ Len(Nops(pad) \o <<w>>) = Len(Nops(pad)) + Len(<<w>>)
  <2>1. \A s1, s2 : Fine(p, l, s1) /\ Fine(p, l + Len(s1), s2) =>
         Fine(p, l, s1 \o s2) /\ Len(s1 \o s2) = Len(s1) + Len(s2)
    BY Joined
  <2>2. QED
    BY <1>8, <1>9, <2>1, Zenon
<1>11. QED
  BY <1>2, <1>7, <1>8, <1>10 DEF Fits

(* A load of a literal that is copied behind it, to where the nops align it. *)
LEMMA CopyIsFine ==
  ASSUME NEW p, NEW l \in Nat, p.rx \in Int, NEW pad \in Nat, NEW from \in Int, NEW op \in Literals,
         NEW n \in Nat, n = LiteralWords(op), (p.rx + l + 2 + pad) % n = 0
  PROVE  Fits(p, l, Nops(pad) \o (<<I(op, 2), I("b", 1 + n)>> \o Kept(from, n)), pad + 2 + n)
<1>1. PICK w, v : w = I(op, 2) /\ v = I("b", 1 + n)
  OBVIOUS
<1>2. w \in Word /\ w.op = op /\ w.off = 2
  <2>1. op \in Written /\ 2 \in Int
    BY DEF Written, Kinds
  <2>2. QED
    BY <1>1, <2>1, IIsAWord
<1>3. Plain(v)
  <2>1. "b" \in Waiting /\ 1 + n \in Int
    BY DEF Waiting
  <2>2. QED
    BY <1>1, <2>1, WordsWritten
<1>4. Aligned(p, l + pad + 1, w)
  <2>1. PICK x \in Int : x = p.rx
    OBVIOUS
  <2>2. x + (l + pad + 1) - 1 + 2 = x + l + 2 + pad
    OBVIOUS
  <2>3. p.rx + (l + pad + 1) - 1 + 2 = p.rx + l + 2 + pad
    BY <2>1, <2>2
  <2>4. op # "address"
    BY DEF Literals
  <2>5. (p.rx + (l + pad + 1) - 1 + w.off) % LiteralWords(w.op) = 0
    BY <1>2, <2>3
  <2>6. QED
    BY <1>2, <2>4, <2>5 DEF Aligned
<1>5. Aligned(p, l + pad + 2, v)
  BY <1>3 DEF Plain, Aligned
<1>6. Fine(p, l + pad, <<w, v>>) /\ Len(<<w, v>>) = 2
  <2>1. <<w, v>> \in Seq(Word) /\ Len(<<w, v>>) = 2 /\ <<w, v>>[1] = w /\ <<w, v>>[2] = v
    BY <1>2, <1>3 DEF Plain
  <2>2. \A k \in 1 .. 2 : k = 1 \/ k = 2
    OBVIOUS
  <2>3. QED
    BY <1>4, <1>5, <2>1, <2>2 DEF Fine
<1>7. Fine(p, l + pad + Len(<<w, v>>), Kept(from, n)) /\ Len(Kept(from, n)) = n
  BY KeptIsFine
<1>8. PICK rest : rest = <<w, v>> \o Kept(from, n)
  OBVIOUS
<1>9. Fine(p, l + pad, rest) /\ Len(rest) = 2 + n
  <2>1. l + pad \in Nat
    OBVIOUS
  <2>2. \A s1, s2 : Fine(p, l + pad, s1) /\ Fine(p, l + pad + Len(s1), s2) =>
         Fine(p, l + pad, s1 \o s2) /\ Len(s1 \o s2) = Len(s1) + Len(s2)
    BY <2>1, Joined
  <2>3. Fine(p, l + pad, rest) /\ Len(rest) = Len(<<w, v>>) + Len(Kept(from, n))
    BY <1>6, <1>7, <1>8, <2>2, Zenon
  <2>4. QED
    BY <1>6, <1>7, <2>3
<1>10. Fine(p, l, Nops(pad)) /\ Len(Nops(pad)) = pad
  BY NopsAreFine
<1>11. Fine(p, l, Nops(pad) \o rest) /\ Len(Nops(pad) \o rest) = Len(Nops(pad)) + Len(rest)
  <2>1. Fine(p, l + Len(Nops(pad)), rest)
    BY <1>9, <1>10
  <2>2. \A s1, s2 : Fine(p, l, s1) /\ Fine(p, l + Len(s1), s2) =>
         Fine(p, l, s1 \o s2) /\ Len(s1 \o s2) = Len(s1) + Len(s2)
    BY Joined
  <2>3. QED
    BY <1>10, <2>1, <2>2, Zenon
<1>12. QED
  BY <1>1, <1>8, <1>9, <1>10, <1>11 DEF Fits

(* Fewer nops are needed behind an even place. *)
LEMMA PadBehindEven ==
  ASSUME NEW a \in Int, a % 2 = 0
  PROVE  (-(a + 2)) % 4 \in {0, 2}
  BY Z3

LEMMA EmitFitting ==
  ASSUME RInv, cur \in 1 .. Len(code), NEW words, NEW place \in Int, Emit(words, place), NoWait,
         NEW n \in Nat, Fits(program, Len(out), words, n), n <= 9, cur = 1 => n <= 8
  PROVE  RInv'
<1>1. Fine(program, Len(out), words) /\ Len(words) <= n
  BY DEF Fits
<1>2. Len(words) \in Nat
  BY <1>1, LenProperties DEF Fine
<1>3. Len(words) <= 9 /\ (cur = 1 => Len(words) <= 8)
  BY <1>1, <1>2
<1>4. QED
  BY <1>1, <1>3, EmitAndForget

LEMMA FixLiteralStep ==
  ASSUME Ordinary, RInv, cur \in 1 .. Len(code), FixLiteral
  PROVE  RInv'
<1>1. PICK w \in Word : w = code[cur]
  BY MovedWord
<1>2. w.off \in Int /\ w.op \in Literals
  BY <1>1, MovedWord DEF FixLiteral
<1>3. PICK n \in {1, 2, 4} : n = LiteralWords(w.op)
  BY <1>2, LiteralWordsIs
<1>4. PICK from \in Int : from = Here(cur) + Widened(w.off)
  <2>1. Widened(w.off) \in Int /\ Here(cur) \in Int
    BY <1>2, WidenedIsInt, MovedWord
  <2>2. QED
    BY <2>1
<1>5. /\ program.rx \in Int /\ program.rx % 2 = 0 /\ Len(out) \in Nat /\ Outrx = program.rx + Len(out)
      /\ Outrx \in Int /\ Len(program.code) \in Nat
  BY StateTypes DEF code
<1>6. from \notin program.rx .. program.rx + 10 * Len(program.code) - 1
  <2>1. program \in Programs
    BY DEF RInv
  <2>2. LiteralsElsewhere(program)
    BY <2>1 DEF Ordinary
  <2>3. from = program.base + cur - 1 + Widened(program.code[cur].off) /\ program.code[cur].op \in Literals
    BY <1>1, <1>2, <1>4 DEF Here, code
  <2>4. QED
    BY <2>2, <2>3 DEF LiteralsElsewhere, code
<1>7. \/ /\ Emit(Nops(Pad(2, n)) \o (<<I(w.op, 2), I("b", 1 + n)>> \o Kept(from, n)), Outrx + Pad(2, n))
         /\ NoWait
      \/ \E pad, near :
           /\ pad = (from - Outrx) % n /\ near = from - Outrx - pad
           /\ Emit(Nops(pad) \o <<I(Oversigned(w.op, near), near)>>, Outrx + pad) /\ NoWait
  BY <1>1, <1>3, <1>4, Zenon DEF FixLiteral
<1>8. CASE Emit(Nops(Pad(2, n)) \o (<<I(w.op, 2), I("b", 1 + n)>> \o Kept(from, n)), Outrx + Pad(2, n)) /\ NoWait
  <2>1. PICK b \in Int : b = Outrx + 2
    BY <1>5
  <2>2. PICK pad : pad = Pad(2, n)
    OBVIOUS
  <2>3. pad = (-b) % n
    BY <2>1, <2>2 DEF Pad
  <2>4. pad \in 0 .. n - 1 /\ (b + pad) % n = 0
    BY <2>3, PadIs
  <2>5. (program.rx + Len(out) + 2 + pad) % n = 0
    <3>1. program.rx + Len(out) + 2 + pad = b + pad
      BY <1>5, <2>1, <2>4
    <3>2. QED
      BY <2>4, <3>1
  <2>6. PICK words : words = Nops(pad) \o (<<I(w.op, 2), I("b", 1 + n)>> \o Kept(from, n))
    OBVIOUS
  <2>7. pad \in Nat /\ n \in Nat
    BY <2>4
  <2>8. PICK m \in Nat : m = pad + 2 + n
    BY <2>7
  <2>9. Fits(program, Len(out), words, m)
    BY <1>2, <1>3, <1>5, <2>5, <2>6, <2>7, <2>8, CopyIsFine
  <2>10. m <= 9
    BY <2>4, <2>8
  <2>11. ASSUME cur = 1
         PROVE  m <= 8
    <3>1. Len(out) = 0
      BY <2>11 DEF RInv, Room
    <3>2. b = program.rx + 2
      BY <1>5, <2>1, <3>1
    <3>3. CASE n = 4
      <4>1. pad = (-(program.rx + 2)) % 4
        BY <2>3, <3>2, <3>3
      <4>2. pad \in {0, 2}
        BY <1>5, <4>1, PadBehindEven
      <4>3. QED
        BY <2>8, <3>3, <4>2
    <3>4. CASE n # 4
      BY <2>4, <2>8, <3>4
    <3>5. QED
      BY <3>3, <3>4
  <2>12. PICK place \in Int : place = Outrx + pad
    BY <1>5, <2>7
  <2>13. Emit(words, place) /\ NoWait
    BY <1>8, <2>2, <2>6, <2>12
  <2>14. QED
    BY <2>9, <2>10, <2>11, <2>13, EmitFitting
<1>9. ASSUME NEW pad, NEW near,
             pad = (from - Outrx) % n, near = from - Outrx - pad,
             Emit(Nops(pad) \o <<I(Oversigned(w.op, near), near)>>, Outrx + pad), NoWait
      PROVE  RInv'
  <2>1. \A a \in Int : \A b \in Nat \ {0} : a % b \in 0 .. b - 1
    OBVIOUS
  <2>2. pad \in Nat /\ pad <= 3
    <3>1. from - Outrx \in Int /\ n \in Nat \ {0} /\ n <= 4
      BY <1>5
    <3>2. pad \in 0 .. n - 1
      BY <1>9, <2>1, <3>1
    <3>3. QED
      BY <3>1, <3>2
  <2>3. near \in Int /\ (Len(out) + pad + 1) + near = from - program.rx + 1
    <3>1. PICK x \in Int, o \in Int, l \in Nat : x = program.rx /\ o = Outrx /\ l = Len(out)
      BY <1>5
    <3>2. o = x + l /\ near = from - o - pad /\ pad \in Nat
      BY <1>5, <1>9, <2>2, <3>1
    <3>3. near \in Int /\ (l + pad + 1) + near = from - x + 1
      BY <3>2, NearPlace
    <3>4. QED
      BY <3>1, <3>3
  <2>4. PICK words : words = Nops(pad) \o <<I(Oversigned(w.op, near), near)>>
    OBVIOUS
  <2>5. PICK m \in Nat : m = pad + 1
    BY <2>2
  <2>6. Fits(program, Len(out), words, m)
    BY <1>2, <1>5, <1>6, <2>2, <2>3, <2>4, <2>5, NearIsFine
  <2>7. PICK place \in Int : place = Outrx + pad
    BY <1>5, <2>2
  <2>8. Emit(words, place) /\ NoWait /\ m <= 9 /\ m <= 8
    BY <1>9, <2>2, <2>4, <2>5, <2>7
  <2>9. QED
    BY <2>6, <2>8, EmitFitting
<1>10. QED
  BY <1>7, <1>8, <1>9

LEMMA SkipPrefetchStep ==
  ASSUME RInv, cur \in 1 .. Len(code), SkipPrefetch
  PROVE  RInv'
<1>1. Emit(<<>>, Outrx) /\ NoWait
  BY DEF SkipPrefetch
<1>2. PICK words : words = <<>>
  OBVIOUS
<1>3. words \in Seq(Word) /\ Len(words) = 0
  BY <1>2, EmptySeq
<1>4. Fine(program, Len(out), words)
  BY <1>3 DEF Fine
<1>5. Outrx \in Int
  BY StateTypes
<1>6. Emit(words, Outrx) /\ Len(words) <= 9 /\ Len(words) <= 8
  BY <1>1, <1>2, <1>3
<1>7. QED
  BY <1>1, <1>4, <1>5, <1>6, EmitAndForget

LEMMA CopyWordStep ==
  ASSUME RInv, cur \in 1 .. Len(code), CopyWord
  PROVE  RInv'
<1>1. PICK w \in Word : w = code[cur]
  BY MovedWord
<1>2. w.op = "other" /\ Emit(<<w>>, Outrx) /\ NoWait
  BY <1>1 DEF CopyWord
<1>3. Plain(w)
  BY <1>2 DEF Plain, Literals
<1>4. Outrx \in Int
  BY StateTypes
<1>5. QED
  BY <1>2, <1>3, <1>4, EmitOne

(* The jump back takes one word when it is short, and else five at most. *)
LEMMA JumpBackWords ==
  ASSUME RInv, cur = Len(code) + 1, JumpBack
  PROVE  \E words :
           /\ out' = out \o words /\ Fits(program, Len(out), words, 5)
           /\ JumpIsShort(program) => Fits(program, Len(out), words, 1)
<1>1. /\ program.rx \in Int /\ program.base \in Int /\ Len(out) \in Nat /\ Outrx = program.rx + Len(out)
      /\ Outrx \in Int /\ Len(code) \in Nat
  BY StateTypes
<1>2. PICK back \in Int : back = Here(Len(code) + 1) /\ back = program.base + Len(code)
  BY <1>1 DEF Here
<1>3. Len(out) <= 10 * Len(code)
  BY DEF RInv, Room
<1>4. CASE Magnitude(back - Outrx) >= Reach26 - 1
  <2>1. ~JumpIsShort(program)
    <3>1. PICK x, l, n, r : x = program.rx /\ l = Len(out) /\ n = Len(code) /\ r = Reach26
      OBVIOUS
    <3>2. x \in Int /\ l \in Nat /\ n \in Nat /\ r \in Nat /\ l <= 10 * n
      BY <1>1, <1>3, <3>1, ReachTypes
    <3>3. back - (x + l) >= r - 1 \/ (x + l) - back >= r - 1
      <4>1. PICK d \in Int : d = back - (x + l) /\ d = back - Outrx
        BY <1>1, <3>1, <3>2
      <4>2. Magnitude(d) >= r - 1
        BY <1>4, <3>1, <4>1
      <4>3. d >= r - 1 \/ -d >= r - 1
        BY <4>2 DEF Magnitude
      <4>4. QED
        BY <3>2, <4>1, <4>3
    <3>4. ~(back - x < r - 1 /\ x + 10 * n - back < r - 1)
      BY <3>2, <3>3
    <3>5. PICK b \in Int : b = program.base
      BY <1>1
    <3>6. back = b + n
      BY <1>2, <3>1, <3>5
    <3>7. ~(b + n - x < r - 1 /\ x + 10 * n - (b + n) < r - 1)
      BY <3>2, <3>4, <3>6
    <3>8. QED
      BY <3>1, <3>5, <3>7 DEF JumpIsShort, code
  <2>2. PICK s : s = <<LdrX17(2), BrX17>>
    OBVIOUS
  <2>3. Jump(s, 2)
    BY <2>2, WordsWritten, Two
  <2>4. PICK behind \in Nat : behind = 2
    OBVIOUS
  <2>5. PICK pad : pad = Pad(behind, 2)
    OBVIOUS
  <2>6. PadsEven(program, Len(out), behind, pad)
    BY <1>1, <2>5, PadIsEven
  <2>7. PICK words : words = Nops(pad) \o s \o Address(back, 0)
    OBVIOUS
  <2>8. 0 \in Int /\ Jump(s, behind)
    BY <2>3, <2>4
  <2>9. Fits(program, Len(out), words, behind + 3)
    BY <1>1, <2>6, <2>7, <2>8, FarIsFine
  <2>10. out' = out \o (Nops(Pad(2, 2)) \o <<LdrX17(2), BrX17>> \o Address(back, 0))
    BY <1>2, <1>4, Zenon DEF JumpBack
  <2>11. out' = out \o words
    BY <2>2, <2>4, <2>5, <2>7, <2>10
  <2>12. Fits(program, Len(out), words, 5)
    BY <2>4, <2>9
  <2>13. QED
    BY <2>1, <2>11, <2>12
<1>5. CASE ~(Magnitude(back - Outrx) >= Reach26 - 1)
  <2>1. back - Outrx \in Int /\ "b" \in Waiting
    BY <1>1 DEF Waiting
  <2>2. PICK v : v = I("b", back - Outrx) /\ Plain(v)
    BY <2>1, WordsWritten
  <2>3. PICK words : words = <<v>>
    OBVIOUS
  <2>4. out' = out \o words
    BY <1>2, <1>5, <2>2, <2>3, Zenon DEF JumpBack
  <2>5. Fine(program, Len(out), words) /\ Len(words) = 1
    BY <2>2, <2>3, OneIsFine DEF Plain
  <2>6. Fits(program, Len(out), words, 5) /\ Fits(program, Len(out), words, 1)
    BY <2>5 DEF Fits
  <2>7. QED
    BY <2>4, <2>6, Zenon
<1>6. QED
  BY <1>4, <1>5

LEMMA JumpBackStep ==
  ASSUME Ordinary, RInv, JumpBack
  PROVE  RInv'
<1>1. cur = Len(code) + 1 /\ cur' = cur + 1 /\ program' = program /\ dat' = dat /\ fmap' = fmap
  BY DEF JumpBack
<1>2. program \in Programs /\ Len(out) \in Nat /\ Len(code) \in Nat \ {0} /\ code' = code
  BY <1>1, StateTypes DEF code
<1>3. PICK words :
        /\ out' = out \o words /\ Fits(program, Len(out), words, 5)
        /\ JumpIsShort(program) => Fits(program, Len(out), words, 1)
  BY <1>1, JumpBackWords
<1>4. out \in Seq(Word) /\ words \in Seq(Word) /\ Fine(program, 0, out) /\ Fine(program, Len(out), words)
  BY <1>3 DEF RInv, Fits, Fine
<1>5. Len(words) \in Nat /\ Len(words) <= 5 /\ (JumpIsShort(program) => Len(words) <= 1)
  BY <1>3, <1>4, LenProperties DEF Fits
<1>6. /\ Len(out') = Len(out) + Len(words)
      /\ \A k \in 1 .. Len(out) : out'[k] = out[k]
  <2>1. /\ Len(out') = Len(out) + Len(words)
        /\ \A k \in 1 .. Len(out) + Len(words) : out'[k] = IF k <= Len(out) THEN out[k] ELSE words[k - Len(out)]
    BY <1>3, <1>4, ConcatProperties
  <2>2. QED
    BY <1>2, <1>5, <2>1
<1>7. Fine(program, 0, out')
  <2>1. Fine(program, 0 + Len(out), words)
    BY <1>2, <1>4
  <2>2. QED
    BY <1>3, <1>4, <2>1, Joined
<1>8. Len(out) + Len(words) <= 10 * Len(code)
  <2>1. Len(out) <= 9 * Len(code) - 1
    BY <1>1, <1>2 DEF RInv, Room
  <2>2. CASE Len(code) >= 4
    BY <1>2, <1>5, <2>1, <2>2
  <2>3. CASE JumpIsShort(program)
    BY <1>2, <1>5, <2>1, <2>3
  <2>4. QED
    BY <1>2, <2>2, <2>3 DEF Ordinary, code
<1>9. Room'
  BY <1>1, <1>2, <1>6, <1>8 DEF Room
<1>10. FixMapWaits'
  <2>1. ASSUME NEW i \in 1 .. Len(code), NEW f \in fmap[i]
        PROVE  f[1] \in 1 .. Len(out') /\ out'[f[1]].op \in Waiting
    <3>1. f[1] \in 1 .. Len(out) /\ out[f[1]].op \in Waiting
      BY DEF RInv, FixMapWaits
    <3>2. QED
      BY <1>2, <1>5, <1>6, <3>1
  <2>2. fmap \in [1 .. Len(code) -> SUBSET ((Nat \ {0}) \X (Nat \ {0}))]
    BY DEF RInv, FixMapWaits
  <2>3. QED
    BY <1>1, <1>2, <2>1, <2>2 DEF FixMapWaits
<1>11. QED
  BY <1>1, <1>2, <1>7, <1>9, <1>10 DEF RInv

-----------------------------------------------------------------------------
(* The invariant and what follows from it. *)

LEMMA RelocateInitRInv ==
  ASSUME NEW p \in Programs, RelocateInit(p)
  PROVE  RInv
<1>1. program = p /\ cur = 1 /\ out = <<>> /\ code = p.code
  BY DEF RelocateInit, code
<1>2. DOMAIN p.code = 1 .. Len(p.code) /\ Len(p.code) \in Nat \ {0}
  BY ProgramTypes, LenProperties
<1>3. dat = [i \in 1 .. Len(code) |-> 0] /\ fmap = [i \in 1 .. Len(code) |-> {}]
  BY <1>1, <1>2 DEF RelocateInit
<1>4. out \in Seq(Word) /\ Len(out) = 0
  BY <1>1, EmptySeq
<1>5. Fine(program, 0, out)
  BY <1>4 DEF Fine
<1>6. Room
  BY <1>1, <1>2, <1>4 DEF Room
<1>7. FixMapWaits
  BY <1>3 DEF FixMapWaits
<1>8. dat \in [1 .. Len(code) -> Int]
  BY <1>3
<1>9. QED
  BY <1>1, <1>5, <1>6, <1>7, <1>8 DEF RInv

LEMMA RelocateStepRInv ==
  ASSUME Ordinary, RInv, [RelocateNext]_relocateVars
  PROVE  RInv'
<1>1. CASE MoveWord
  <2>1. cur \in 1 .. Len(code)
    <3>1. Len(code) \in Nat
      BY StateTypes
    <3>2. QED
      BY <1>1, <3>1 DEF MoveWord, RInv, Room
  <2>2. CASE FixBranch
    BY <2>1, <2>2, FixBranchStep
  <2>3. CASE FixConditional
    BY <2>1, <2>3, FixConditionalStep
  <2>4. CASE FixLiteral
    BY <2>1, <2>4, FixLiteralStep
  <2>5. CASE SkipPrefetch
    BY <2>1, <2>5, SkipPrefetchStep
  <2>6. CASE FixAdr
    BY <2>1, <2>6, FixAdrStep
  <2>7. CASE FixAdrp
    BY <2>1, <2>7, FixAdrpStep
  <2>8. CASE CopyWord
    BY <2>1, <2>8, CopyWordStep
  <2>9. QED
    BY <1>1, <2>2, <2>3, <2>4, <2>5, <2>6, <2>7, <2>8 DEF MoveWord
<1>2. CASE JumpBack
  BY <1>2, JumpBackStep
<1>3. CASE UNCHANGED relocateVars
  BY <1>3 DEF relocateVars, RInv, Room, FixMapWaits, code
<1>4. QED
  BY <1>1, <1>2, <1>3 DEF RelocateNext

LEMMA RInvAligns ==
  ASSUME RInv
  PROVE  DataIsAligned
<1>1. Len(out) <= 10 * Len(code) /\ Len(out) \in Nat /\ Len(code) \in Nat /\ DOMAIN out = 1 .. Len(out)
  BY StateTypes, LenProperties DEF RInv, Room, Fine
<1>2. ASSUME NEW k \in DOMAIN out
      PROVE  /\ out[k].op = "address" => (program.rx + k - 1) % 2 = 0
             /\ Moved /\ out[k].op \in Literals /\ k + out[k].off \in DOMAIN out =>
                  (program.rx + k - 1 + out[k].off) % LiteralWords(out[k].op) = 0
  <2>1. Aligned(program, 0 + k, out[k]) /\ 0 + k = k
    BY <1>1 DEF RInv, Fine
  <2>2. Aligned(program, k, out[k])
    BY <2>1
  <2>3. k + out[k].off \in DOMAIN out => k + out[k].off \in 1 .. 10 * Len(program.code)
    BY <1>1 DEF code
  <2>4. QED
    BY <2>2, <2>3 DEF Aligned
<1>3. QED
  BY <1>1, <1>2 DEF DataIsAligned

(* Whatever words a function begins with, wherever it and its trampoline are:    *)
(* the addresses __fix_instructions writes between the words it moves, and the   *)
(* literals it copies behind their loads, are aligned as their loads need, no    *)
(* word that waited in the fix map is taken for a load, and all of it fits the   *)
(* ten words there are for each word moved.                                      *)
THEOREM DataStaysAligned ==
  ASSUME Ordinary
  PROVE  RelocateSpec => []DataIsAligned
<1>1. (\E p \in Programs : RelocateInit(p)) => RInv
  BY RelocateInitRInv
<1>2. RInv /\ [RelocateNext]_relocateVars => RInv'
  BY RelocateStepRInv
<1>3. RInv => DataIsAligned
  BY RInvAligns
<1>4. QED
  BY <1>1, <1>2, <1>3, PTL DEF RelocateSpec

-----------------------------------------------------------------------------
(* What the trampoline is made of, word for word. *)

(* What the offset of a word is read as, and the address or the page it names.   *)
Reads(w) ==
  IF w.op \in {"b", "bl"} THEN w.off
  ELSE IF w.op \in {"cbz", "tbz"} THEN Unsigned(w.off, ReachOf(w.op))
  ELSE Widened(w.off)
Target(p, i) == p.base + i - 1 + Reads(p.code[i])
PageTarget(p, i) == PageOfWord(p.base + i - 1) + Widened(p.code[i].off * PageSize)

(* Word i of p names a word of p, which one, and with how wide an immediate.     *)
Inside(p, a) == p.base <= a /\ a < p.base + Len(p.code)
Refers(p, i) == p.code[i].op \in Waiting /\ Inside(p, Target(p, i))
Ref(p, i) == Target(p, i) - p.base + 1
ReachFor(op) == IF op \in {"b", "bl"} THEN Reach26 ELSE IF op = "tbz" THEN Reach14 ELSE Reach19

(* Behind b words come nops, and then an instruction at q, which is not behind e. *)
Starts(b, q, e, o) ==
  /\ q \in b + 1 .. e /\ o[q].op # "nop"
  /\ \A k \in b + 1 .. q - 1 : o[k].op = "nop"

(* The ways a word of p is moved, to q .. e of the trampoline o.                 *)
JumpsFar(p, i, q, e, o) ==
  /\ p.code[i].op = "b" /\ ~Inside(p, Target(p, i))
  /\ e = q + 3 /\ o[q] = LdrX17(2) /\ o[q + 1].op = "brx17" /\ o[q + 2].off = Target(p, i)
CallsFar(p, i, q, e, o) ==
  /\ p.code[i].op = "bl" /\ ~Inside(p, Target(p, i))
  /\ e = q + 4 /\ o[q] = LdrX17(3) /\ o[q + 1] = I("adrx30", 4) /\ o[q + 3].off = Target(p, i)
BranchesFar(p, i, q, e, o) ==
  /\ p.code[i].op \in {"cbz", "tbz"} /\ ~Inside(p, Target(p, i))
  /\ e = q + 5 /\ o[q] = I(p.code[i].op, 2) /\ o[q + 1] = I("b", 5) /\ o[q + 2] = LdrX17(2)
  /\ o[q + 4].off = Target(p, i)
BranchesNear(p, i, q, e, o) ==
  /\ p.code[i].op \in {"b", "bl", "cbz", "tbz"} /\ ~Inside(p, Target(p, i))
  /\ e = q /\ o[q].op = p.code[i].op /\ o[q].off = Target(p, i) - (p.rx + q - 1)
CopiesLiteral(p, i, q, e, o) ==
  /\ p.code[i].op \in Literals
  /\ e = q + 1 + LiteralWords(p.code[i].op)
  /\ o[q] = I(p.code[i].op, 2) /\ o[q + 1] = I("b", 1 + LiteralWords(p.code[i].op))
  /\ \A t \in 0 .. LiteralWords(p.code[i].op) - 1 : o[q + 2 + t] = I("copied", Target(p, i) + t)
LoadsLiteral(p, i, q, e, o) ==
  /\ p.code[i].op \in Literals
  /\ e = q /\ o[q].off = Target(p, i) - (p.rx + q - 1) /\ o[q].op = Oversigned(p.code[i].op, o[q].off)
LoadsAddress(p, i, q, e, o) ==
  /\ e = q + 3 /\ o[q] = I("ldrrd", 2) /\ o[q + 1] = I("b", 3)
  /\ \/ /\ p.code[i].op = "adr" /\ ~Inside(p, Target(p, i))
        /\ o[q + 2].off = Target(p, i) /\ o[q + 2].low = p.code[i].low
     \/ /\ p.code[i].op = "adrp" /\ o[q + 2].off = PageTarget(p, i) /\ o[q + 2].low = 0
NamesAddress(p, i, q, e, o) ==
  /\ p.code[i].op = "adr" /\ ~Inside(p, Target(p, i))
  /\ e = q /\ o[q].op = "adr" /\ o[q].off = Target(p, i) - (p.rx + q - 1)
  /\ o[q].low = p.code[i].low /\ o[q].reg = p.code[i].low
NamesPage(p, i, q, e, o) == p.code[i].op = "adrp" /\ Inside(p, PageTarget(p, i)) /\ e = q
StaysSame(p, i, q, e, o) == p.code[i].op = "other" /\ e = q /\ o[q].op = "other"

MovedAs(p, i, q, e, o) ==
  \/ JumpsFar(p, i, q, e, o) \/ CallsFar(p, i, q, e, o) \/ BranchesFar(p, i, q, e, o)
  \/ BranchesNear(p, i, q, e, o) \/ CopiesLiteral(p, i, q, e, o) \/ LoadsLiteral(p, i, q, e, o)
  \/ LoadsAddress(p, i, q, e, o) \/ NamesAddress(p, i, q, e, o) \/ NamesPage(p, i, q, e, o)
  \/ StaysSame(p, i, q, e, o)

(* What may have become of word i: words behind the first b up to the e-th, with  *)
(* the place d among their nops or, of an adrp, in the alias; one word that names *)
(* another one of the function; or nothing.                                       *)
Block(p, i, b, e, d, o) ==
  \E q \in b + 1 .. e :
    /\ Starts(b, q, e, o) /\ MovedAs(p, i, q, e, o)
    /\ d \in p.rx + b .. p.rx + q - 1 \/ (p.code[i].op = "adrp" /\ d >= p.rw)
Named(p, i, b, e, d, o) ==
  /\ Refers(p, i) /\ e = b + 1 /\ d = p.rx + b
  /\ o[e].op = p.code[i].op /\ o[e].low = p.code[i].low /\ o[e].reg = p.code[i].reg
Dropped(p, i, b, e, d) == p.code[i].op = "prfm" /\ e = b /\ d = p.rx + b

(* Where the words made of word j begin; the last of them ends at e.             *)
Edge(e, j) == IF j < cur /\ j <= Len(code) THEN begin[j] ELSE e

Blocks(e) ==
  \A j \in 1 .. Len(code) : j < cur =>
    \/ Block(program, j, begin[j], Edge(e, j + 1), dat[j], out)
    \/ Named(program, j, begin[j], Edge(e, j + 1), dat[j], out)
    \/ Dropped(program, j, begin[j], Edge(e, j + 1), dat[j])

(* They come in the order of the words they are made of, none of them between    *)
(* those around words that were dropped.                                         *)
Ordered(e) ==
  \A j \in 1 .. Len(code) : j < cur =>
    /\ begin[j] \in Nat
    /\ \A l \in j .. Len(code) + 1 : l <= cur =>
         /\ begin[j] <= Edge(e, l)
         /\ (\A m \in j .. l - 1 : code[m].op = "prfm") => begin[j] = Edge(e, l)

(* A word that names a word which has its place leads there, and else waits.     *)
References ==
  \A j \in 1 .. Len(code) : j < cur /\ Refers(program, j) =>
    IF Ref(program, j) < cur
    THEN out[begin[j] + 1].off = Field(dat[Ref(program, j)] - (program.rx + begin[j]), ReachFor(code[j].op))
    ELSE \E f \in fmap[Ref(program, j)] : f[1] = begin[j] + 1

(* What waits for a word is the one word made of a word that names it.           *)
Awaited(e) ==
  \A r \in 1 .. Len(code) : \A f \in fmap[r] :
    /\ r >= cur /\ f[2] = ReachFor(out[f[1]].op)
    /\ \A j \in 1 .. Len(code) : j < cur /\ f[1] \in begin[j] + 1 .. Edge(e, j + 1) =>
         Refers(program, j) /\ Ref(program, j) = r /\ f[1] = begin[j] + 1

(* Behind e words the jump back, with its address or without.                    *)
JumpsBack(p, e, o) ==
  \/ Len(o) = e + 1 /\ o[e + 1] = I("b", p.base + Len(p.code) - (p.rx + e))
  \/ Len(o) = e + 4 /\ o[e + 1] = LdrX17(2) /\ o[e + 3].off = p.base + Len(p.code)
  \/ Len(o) = e + 5 /\ o[e + 1].op = "nop" /\ o[e + 2] = LdrX17(2) /\ o[e + 4].off = p.base + Len(p.code)

Laid(e) ==
  /\ e \in 0 .. Len(out) /\ begin \in [1 .. Len(code) -> Int]
  /\ Blocks(e) /\ Ordered(e) /\ References /\ Awaited(e)
  /\ IF cur <= Len(code) + 1 THEN e = Len(out) ELSE JumpsBack(program, e, out)
MInv == \E e \in Nat : Laid(e)

(* The jumps and addresses of the function, and its return, leave its trampoline  *)
(* alone; a conditional branch has an offset of its width; and the trampoline is   *)
(* in reach of every branch within it.                                             *)
InTrampoline(p, a) == a \in p.rx .. p.rx + 10 * Len(p.code) - 1
JumpsElsewhere(p) ==
  /\ 10 * Len(p.code) < Reach14
  /\ ~InTrampoline(p, p.base + Len(p.code))
  /\ \A i \in 1 .. Len(p.code) :
       /\ p.code[i].op \in Waiting => ~InTrampoline(p, p.base + i - 1 + p.code[i].off)
       /\ p.code[i].op \in {"cbz", "tbz"} => p.code[i].off < 2 * ReachOf(p.code[i].op)

-----------------------------------------------------------------------------
(* Where control gets to when everything is moved. *)

Done(e) == RInv /\ e \in Nat /\ Laid(e) /\ cur = Len(code) + 2

LEMMA LeastNatural ==
  ASSUME NEW S \in SUBSET Nat, S # {}
  PROVE  \E m \in S : \A n \in S : m <= n
<1> DEFINE R == OpToRel(<, Nat)
<1>1. IsWellFoundedOn(R, Nat)
  BY NatLessThanWellFounded
<1>2. PICK m \in S : \A n \in S : ~ (<<n, m>> \in R)
  <2> HIDE DEF R
  <2> QED BY <1>1, WFMin
<1>3. \A n \in S : ~(n < m)
  BY <1>2 DEF OpToRel
<1>4. QED
  BY <1>3

LEMMA DoneTypes ==
  ASSUME NEW e, Done(e)
  PROVE  /\ program \in Programs /\ program.base \in Int /\ program.rx \in Int /\ program.rw \in Int
         /\ Len(code) \in Nat \ {0} /\ code = program.code /\ e \in Nat
         /\ Len(out) \in Nat /\ DOMAIN out = 1 .. Len(out) /\ Len(out) <= 10 * Len(code)
         /\ \A k \in 1 .. Len(out) : out[k] \in Word
         /\ \A i \in 1 .. Len(code) : code[i] \in [op : Kinds, off : Int, low : Int, reg : {0}]
         /\ DOMAIN code = 1 .. Len(code)
<1>1. out \in Seq(Word)
  BY DEF Done, RInv, Fine
<1>2. DOMAIN out = 1 .. Len(out) /\ \A k \in 1 .. Len(out) : out[k] \in Word
  BY <1>1, LenProperties, ElementOfSeq
<1>3. RInv /\ e \in Nat
  BY DEF Done
<1>4. Len(out) <= 10 * Len(code)
  BY <1>3 DEF RInv, Room
<1>5. DOMAIN code = 1 .. Len(code)
  <2>1. code \in Seq([op : Kinds, off : Int, low : Int, reg : {0}])
    BY <1>3, ProgramTypes DEF RInv, code
  <2>2. QED
    BY <2>1, LenProperties
<1>6. QED
  BY <1>2, <1>3, <1>4, <1>5, StateTypes DEF code

(* The edges of what was made of the words, in their order. *)
LEMMA Edges ==
  ASSUME NEW e, Done(e)
  PROVE  /\ \A j \in 1 .. Len(code) : Edge(e, j) = begin[j]
         /\ Edge(e, Len(code) + 1) = e
         /\ \A j \in 1 .. Len(code) + 1 : Edge(e, j) \in Nat /\ Edge(e, j) <= e
         /\ \A j \in 1 .. Len(code) : \A l \in j .. Len(code) + 1 :
              /\ Edge(e, j) <= Edge(e, l)
              /\ (\A m \in j .. l - 1 : code[m].op = "prfm") => Edge(e, j) = Edge(e, l)
<1>1. Len(code) \in Nat /\ cur = Len(code) + 2 /\ e \in Nat
  BY DoneTypes DEF Done
<1>2. \A j \in 1 .. Len(code) : j < cur /\ Edge(e, j) = begin[j]
  BY <1>1 DEF Edge
<1>3. Edge(e, Len(code) + 1) = e
  BY <1>1 DEF Edge
<1>4. \A j \in 1 .. Len(code) :
        /\ begin[j] \in Nat
        /\ \A l \in j .. Len(code) + 1 :
             /\ begin[j] <= Edge(e, l)
             /\ (\A m \in j .. l - 1 : code[m].op = "prfm") => begin[j] = Edge(e, l)
  <2>1. \A j \in 1 .. Len(code) : \A l \in j .. Len(code) + 1 : l <= cur
    BY <1>1
  <2>2. QED
    BY <1>1, <1>2, <2>1 DEF Done, Laid, Ordered
<1>5. \A j \in 1 .. Len(code) : Len(code) + 1 \in j .. Len(code) + 1
  BY <1>1
<1>6. \A j \in 1 .. Len(code) : begin[j] <= e
  BY <1>3, <1>4, <1>5
<1>7. ASSUME NEW j \in 1 .. Len(code) + 1
      PROVE  Edge(e, j) \in Nat /\ Edge(e, j) <= e
  <2>1. CASE j = Len(code) + 1
    BY <1>1, <1>3, <2>1
  <2>2. CASE j # Len(code) + 1
    <3>1. j \in 1 .. Len(code)
      BY <1>1, <2>2
    <3>2. QED
      BY <1>2, <1>4, <1>6, <3>1
  <2>3. QED
    BY <2>1, <2>2
<1>8. QED
  BY <1>2, <1>3, <1>4, <1>7

(* Words of the trampoline there are: those moved, and behind them the jump back. *)
LEMMA BackIsThere ==
  ASSUME NEW e, Done(e)
  PROVE  e + 1 \in 1 .. Len(out) /\ JumpsBack(program, e, out)
<1>1. JumpsBack(program, e, out) /\ e \in Nat
  <2>1. Len(code) \in Nat
    BY DoneTypes
  <2>2. QED
    BY <2>1 DEF Done, Laid
<1>2. Len(out) >= e + 1
  BY <1>1 DEF JumpsBack
<1>3. QED
  BY <1>1, <1>2, DoneTypes

LEMMA InstructionIs ==
  ASSUME NEW e, Done(e), NEW j \in 1 .. Len(code), NEW q, Starts(begin[j], q, Edge(e, j + 1), out)
  PROVE  InstructionOf(j) = q
<1>1. Len(out) \in Nat /\ begin[j] \in Nat /\ Edge(e, j + 1) \in Nat /\ Edge(e, j + 1) <= Len(out)
  <2>1. Len(code) \in Nat /\ e <= Len(out) /\ Len(out) \in Nat /\ e \in Nat
    BY DoneTypes DEF Done, Laid
  <2>2. j + 1 \in 1 .. Len(code) + 1 /\ j \in 1 .. Len(code) + 1
    BY <2>1
  <2>3. Edge(e, j + 1) \in Nat /\ Edge(e, j + 1) <= e
    BY <2>2, Edges
  <2>4. begin[j] \in Nat
    BY <2>2, Edges
  <2>5. QED
    BY <2>1, <2>3, <2>4
<1>2. q \in begin[j] + 1 .. Len(out) /\ out[q].op # "nop" /\ \A l \in begin[j] + 1 .. q - 1 : out[l].op = "nop"
  BY <1>1 DEF Starts
<1>3. \A r \in begin[j] + 1 .. Len(out) :
        out[r].op # "nop" /\ (\A l \in begin[j] + 1 .. r - 1 : out[l].op = "nop") => r = q
  <2>. SUFFICES ASSUME NEW r \in begin[j] + 1 .. Len(out), out[r].op # "nop",
                       \A l \in begin[j] + 1 .. r - 1 : out[l].op = "nop"
                PROVE  r = q
    OBVIOUS
  <2>1. ~(r < q)
    <3>1. r < q => r \in begin[j] + 1 .. q - 1
      BY <1>1, <1>2
    <3>2. QED
      BY <1>2, <3>1
  <2>2. ~(q < r)
    <3>1. q < r => q \in begin[j] + 1 .. r - 1
      BY <1>1, <1>2
    <3>2. QED
      BY <1>2, <3>1
  <2>3. QED
    BY <1>1, <1>2, <2>1, <2>2
<1>4. Skip(begin[j] + 1) = q
  BY <1>2, <1>3 DEF Skip
<1>5. QED
  BY <1>4 DEF InstructionOf

(* Every word that is kept has nops and an instruction of its own. *)
LEMMA KeptStarts ==
  ASSUME NEW e, Done(e), NEW j \in 1 .. Len(code), code[j].op # "prfm"
  PROVE  Starts(begin[j], InstructionOf(j), Edge(e, j + 1), out)
<1>1. \/ Block(program, j, begin[j], Edge(e, j + 1), dat[j], out)
      \/ Named(program, j, begin[j], Edge(e, j + 1), dat[j], out)
  <2>1. j < cur /\ program.code[j].op # "prfm"
    BY DoneTypes DEF Done, code
  <2>2. QED
    BY <2>1 DEF Done, Laid, Blocks, Dropped
<1>2. ASSUME NEW q, Starts(begin[j], q, Edge(e, j + 1), out)
      PROVE  Starts(begin[j], InstructionOf(j), Edge(e, j + 1), out)
  <2>1. InstructionOf(j) = q
    BY <1>2, InstructionIs
  <2>2. QED
    BY <1>2, <2>1
<1>3. CASE Block(program, j, begin[j], Edge(e, j + 1), dat[j], out)
  BY <1>2, <1>3 DEF Block
<1>4. CASE Named(program, j, begin[j], Edge(e, j + 1), dat[j], out)
  <2>1. PICK q : q = Edge(e, j + 1)
    OBVIOUS
  <2>2. q = begin[j] + 1 /\ out[q].op \in Waiting
    BY <1>4, <2>1 DEF Named, Refers
  <2>3. begin[j] \in Nat
    <3>1. j \in 1 .. Len(code) + 1
      BY DoneTypes
    <3>2. QED
      BY <3>1, Edges
  <2>4. "nop" \notin Waiting
    BY DEF Waiting
  <2>5. Starts(begin[j], q, Edge(e, j + 1), out)
    BY <2>1, <2>2, <2>3, <2>4 DEF Starts
  <2>6. QED
    BY <1>2, <2>5
<1>5. QED
  BY <1>1, <1>3, <1>4

(* No two words have a word of the trampoline in common. *)
LEMMA WordsAtOwn ==
  ASSUME NEW e, Done(e), NEW i \in 1 .. Len(code), NEW j \in 1 .. Len(code), NEW k \in Int,
         begin[i] < k, k <= Edge(e, i + 1), begin[j] < k, k <= Edge(e, j + 1)
  PROVE  i = j
<1>1. Len(code) \in Nat
  BY DoneTypes
<1>2. \A a \in 1 .. Len(code), b \in 1 .. Len(code) : a < b => Edge(e, a + 1) <= begin[b]
  <2>. SUFFICES ASSUME NEW a \in 1 .. Len(code), NEW b \in 1 .. Len(code), a < b
                PROVE  Edge(e, a + 1) <= begin[b]
    OBVIOUS
  <2>1. a + 1 \in 1 .. Len(code) /\ b \in a + 1 .. Len(code) + 1
    BY <1>1
  <2>2. Edge(e, a + 1) <= Edge(e, b) /\ Edge(e, b) = begin[b]
    BY <2>1, Edges
  <2>3. QED
    BY <2>2
<1>3. \A a \in 1 .. Len(code) : begin[a] \in Nat /\ Edge(e, a + 1) \in Nat
  <2>. SUFFICES ASSUME NEW a \in 1 .. Len(code)
                PROVE  begin[a] \in Nat /\ Edge(e, a + 1) \in Nat
    OBVIOUS
  <2>1. a \in 1 .. Len(code) + 1 /\ a + 1 \in 1 .. Len(code) + 1
    BY <1>1
  <2>2. QED
    BY <2>1, Edges
<1>4. ~(i < j) /\ ~(j < i)
  BY <1>2, <1>3
<1>5. QED
  BY <1>1, <1>4

LEMMA WordsAtIs ==
  ASSUME NEW e, Done(e), NEW i \in 1 .. Len(code), NEW k \in Int, begin[i] < k, k <= Edge(e, i + 1)
  PROVE  WordsAt(k) = IF code[i].op # "prfm" /\ k <= InstructionOf(i) THEN {i} ELSE {}
<1>1. DOMAIN code = 1 .. Len(code)
  BY DoneTypes
<1>2. ASSUME NEW j \in WordsAt(k)
      PROVE  j = i
  <2>1. j \in 1 .. Len(code) /\ code[j].op # "prfm" /\ begin[j] < k /\ k <= InstructionOf(j)
    BY <1>1 DEF WordsAt, KeptWords
  <2>2. InstructionOf(j) <= Edge(e, j + 1) /\ InstructionOf(j) \in Int /\ Edge(e, j + 1) \in Int
    <3>1. Starts(begin[j], InstructionOf(j), Edge(e, j + 1), out)
      BY <2>1, KeptStarts
    <3>2. j \in 1 .. Len(code) + 1 /\ j + 1 \in 1 .. Len(code) + 1
      BY <2>1, DoneTypes
    <3>3. begin[j] \in Nat /\ Edge(e, j + 1) \in Nat
      BY <2>1, <3>2, Edges
    <3>4. QED
      BY <3>1, <3>3 DEF Starts
  <2>3. k <= Edge(e, j + 1)
    BY <2>1, <2>2
  <2>4. QED
    BY <2>1, <2>3, WordsAtOwn
<1>3. i \in WordsAt(k) <=> code[i].op # "prfm" /\ k <= InstructionOf(i)
  BY <1>1 DEF WordsAt, KeptWords
<1>4. QED
  BY <1>2, <1>3

LEMMA WordsAtBack ==
  ASSUME NEW e, Done(e), NEW k \in Int, k > e
  PROVE  WordsAt(k) = {}
<1>1. ASSUME NEW j \in WordsAt(k)
      PROVE  FALSE
  <2>1. j \in 1 .. Len(code) /\ code[j].op # "prfm" /\ k <= InstructionOf(j)
    BY DoneTypes DEF WordsAt, KeptWords
  <2>2. Starts(begin[j], InstructionOf(j), Edge(e, j + 1), out)
    BY <2>1, KeptStarts
  <2>3. j \in 1 .. Len(code) + 1 /\ j + 1 \in 1 .. Len(code) + 1
    BY <2>1, DoneTypes
  <2>4. begin[j] \in Nat /\ Edge(e, j + 1) \in Nat /\ Edge(e, j + 1) <= e /\ e \in Nat
    BY <2>1, <2>3, Edges, DoneTypes
  <2>5. QED
    BY <2>1, <2>2, <2>4 DEF Starts
<1>2. QED
  BY <1>1

(* A place that is not a word of the trampoline is where control goes on.        *)
LEMMA OnIs ==
  /\ \A a : On(<<"at", a>>) = <<"at", a>>
  /\ \A a : On(<<"word", a>>) = <<"word", a>>
  /\ \A k : On(<<"on", k>>) = Leads(k)
  BY DEF On

LEMMA LeadsOut ==
  ASSUME NEW e, Done(e), NEW k \in Int, k \notin 1 .. Len(out)
  PROVE  Leads(k) = <<"at", program.rx + k - 1>> /\ Goes(k) = <<"at", program.rx + k - 1>>
<1>1. k \notin DOMAIN out
  BY DoneTypes
<1>2. Leads(k) = <<"at", program.rx + k - 1>>
  BY <1>1 DEF Leads
<1>3. QED
  BY <1>2, OnIs DEF Goes

(* The nops before a word that was moved, and the word itself.                   *)
LEMMA LeadsToWord ==
  ASSUME NEW e, Done(e), NEW i \in 1 .. Len(code), code[i].op # "prfm",
         NEW k \in begin[i] + 1 .. InstructionOf(i)
  PROVE  Leads(k) = <<"word", i>> /\ Goes(k) = <<"word", i>>
<1>1. Starts(begin[i], InstructionOf(i), Edge(e, i + 1), out)
  BY KeptStarts
<1>2. i \in 1 .. Len(code) + 1 /\ i + 1 \in 1 .. Len(code) + 1
  BY DoneTypes
<1>3. begin[i] \in Nat /\ Edge(e, i + 1) \in Nat /\ Edge(e, i + 1) <= e /\ e \in Nat /\ e + 1 \in 1 .. Len(out)
  BY <1>2, Edges, DoneTypes, BackIsThere
<1>4. InstructionOf(i) \in begin[i] + 1 .. Edge(e, i + 1)
  BY <1>1 DEF Starts
<1>5. k \in Int /\ begin[i] < k /\ k <= Edge(e, i + 1) /\ k <= InstructionOf(i) /\ k \in 1 .. Len(out)
  BY <1>3, <1>4, DoneTypes
<1>6. WordsAt(k) = {i} /\ k \in DOMAIN out
  BY <1>5, WordsAtIs, DoneTypes
<1>7. Leads(k) = <<"word", i>>
  BY <1>6 DEF Leads
<1>8. QED
  BY <1>7, OnIs DEF Goes

(* A jump of the trampoline itself.                                              *)
LEMMA LeadsOn ==
  ASSUME NEW e, Done(e), NEW k \in 1 .. Len(out), WordsAt(k) = {}
  PROVE  /\ out[k].op = "nop" => Leads(k) = <<"on", k + 1>>
         /\ out[k].op = "b" => Leads(k) = <<"on", k + out[k].off>>
         /\ out[k].op = "ldrx17" => Leads(k) = <<"at", out[k + out[k].off].off>>
<1>1. k \in DOMAIN out
  BY DoneTypes
<1>2. QED
  BY <1>1 DEF Leads

(* The first word from r on that is not dropped.                                 *)
LEMMA FirstKeptIs ==
  ASSUME NEW e, Done(e), NEW r \in 1 .. Len(code) + 1
  PROVE  /\ FirstKept(r) \in r .. Len(code) + 1
         /\ FirstKept(r) = Len(code) + 1 \/ code[FirstKept(r)].op # "prfm"
         /\ \A k \in r .. FirstKept(r) - 1 : code[k].op = "prfm"
<1>1. Len(code) \in Nat
  BY DoneTypes
<1>2. PICK S : S = {j \in r .. Len(code) + 1 : j = Len(code) + 1 \/ code[j].op # "prfm"}
  OBVIOUS
<1>3. Len(code) + 1 \in S /\ S \in SUBSET Nat
  BY <1>1, <1>2
<1>4. PICK m \in S : \A j \in S : m <= j
  BY <1>3, LeastNatural
<1>5. m \in r .. Len(code) + 1 /\ (m = Len(code) + 1 \/ code[m].op # "prfm")
  BY <1>2
<1>6. \A k \in r .. m - 1 : code[k].op = "prfm"
  <2>. SUFFICES ASSUME NEW k \in r .. m - 1, code[k].op # "prfm"
                PROVE  FALSE
    OBVIOUS
  <2>1. k \in S /\ k < m
    BY <1>1, <1>2, <1>5
  <2>2. QED
    BY <1>4, <1>5, <2>1
<1>7. \E j \in r .. Len(code) + 1 :
        /\ j = Len(code) + 1 \/ code[j].op # "prfm"
        /\ \A k \in r .. j - 1 : code[k].op = "prfm"
  BY <1>5, <1>6
<1>8. QED
  BY <1>7 DEF FirstKept

LEMMA KeptIsFirst ==
  ASSUME NEW e, Done(e), NEW r \in 1 .. Len(code), code[r].op # "prfm"
  PROVE  FirstKept(r) = r /\ WordPlace(r) = <<"word", r>>
<1>1. Len(code) \in Nat /\ r \in 1 .. Len(code) + 1
  BY DoneTypes
<1>2. FirstKept(r) \in r .. Len(code) + 1 /\ \A k \in r .. FirstKept(r) - 1 : code[k].op = "prfm"
  BY <1>1, FirstKeptIs
<1>3. ~(r < FirstKept(r))
  <2>1. r < FirstKept(r) => r \in r .. FirstKept(r) - 1
    BY <1>1, <1>2
  <2>2. QED
    BY <1>2, <2>1
<1>4. FirstKept(r) = r /\ ~(r > Len(code))
  BY <1>1, <1>2, <1>3
<1>5. QED
  BY <1>4 DEF WordPlace

(* The jump back gets to the word behind those moved.                            *)
LEMMA LeadsBack ==
  ASSUME NEW e, Done(e), JumpsElsewhere(program)
  PROVE  On(Leads(e + 1)) = <<"at", Here(Len(code) + 1)>>
<1>1. PICK n \in Nat, base \in Int, rx \in Int, len \in Nat :
        /\ n = Len(code) /\ base = program.base /\ rx = program.rx /\ len = Len(out) /\ n = Len(program.code)
        /\ len <= 10 * n
  BY DoneTypes
<1>2. Here(Len(code) + 1) = base + n
  BY <1>1 DEF Here
<1>3. ~(base + n \in rx .. rx + 10 * n - 1)
  BY <1>1 DEF JumpsElsewhere, InTrampoline
<1>4. e \in Nat /\ e + 1 \in 1 .. len /\ JumpsBack(program, e, out)
  BY <1>1, BackIsThere, DoneTypes
<1>5. \A k \in 1 .. len : k > e => WordsAt(k) = {}
  BY <1>4, WordsAtBack
<1>6. CASE Len(out) = e + 1 /\ out[e + 1] = I("b", program.base + Len(program.code) - (program.rx + e))
  <2>1. e \in Int
    BY <1>4
  <2>2. base + n - (rx + e) \in Int
    BY <2>1
  <2>3. PICK off \in Int : off = base + n - (rx + e)
    BY <2>2
  <2>4. out[e + 1].op = "b" /\ out[e + 1].off = off
    BY <1>1, <1>6, <2>3 DEF I
  <2>5. Leads(e + 1) = <<"on", e + 1 + off>>
    <3>1. WordsAt(e + 1) = {} /\ e + 1 \in 1 .. Len(out)
      BY <1>1, <1>4, <1>5
    <3>2. QED
      BY <2>4, <3>1, LeadsOn
  <2>6. PICK k \in Int : k = e + 1 + off
    BY <1>4
  <2>7. rx + k - 1 = base + n
    BY <1>4, <2>3, <2>6
  <2>8. k \notin 1 .. len
    BY <1>1, <1>3, <2>7
  <2>9. Leads(k) = <<"at", program.rx + k - 1>>
    BY <1>1, <2>8, LeadsOut
  <2>10. QED
    BY <1>1, <1>2, <2>5, <2>6, <2>7, <2>9, OnIs
<1>7. CASE Len(out) = e + 4 /\ out[e + 1] = LdrX17(2) /\ out[e + 3].off = program.base + Len(program.code)
  <2>1. out[e + 1].op = "ldrx17" /\ out[e + 1].off = 2
    BY <1>7 DEF LdrX17, I
  <2>2. WordsAt(e + 1) = {} /\ e + 1 \in 1 .. Len(out)
    BY <1>1, <1>4, <1>5
  <2>3. Leads(e + 1) = <<"at", out[e + 1 + 2].off>>
    BY <2>1, <2>2, LeadsOn
  <2>4. e + 1 + 2 = e + 3
    BY <1>4
  <2>5. Leads(e + 1) = <<"at", base + n>>
    BY <1>1, <1>7, <2>3, <2>4
  <2>6. QED
    BY <1>2, <2>5, OnIs
<1>8. CASE /\ Len(out) = e + 5 /\ out[e + 1].op = "nop" /\ out[e + 2] = LdrX17(2)
           /\ out[e + 4].off = program.base + Len(program.code)
  <2>1. out[e + 1].op = "nop" /\ out[e + 2].op = "ldrx17" /\ out[e + 2].off = 2
    BY <1>8 DEF LdrX17, I
  <2>2. e + 1 \in 1 .. Len(out) /\ e + 2 \in 1 .. Len(out) /\ e + 1 > e /\ e + 2 > e /\ len = Len(out)
    BY <1>1, <1>4, <1>8
  <2>3. WordsAt(e + 1) = {} /\ WordsAt(e + 2) = {}
    BY <1>5, <2>2
  <2>4. Leads(e + 1) = <<"on", e + 1 + 1>>
    BY <2>1, <2>2, <2>3, LeadsOn
  <2>5. Leads(e + 2) = <<"at", out[e + 2 + 2].off>>
    BY <2>1, <2>2, <2>3, LeadsOn
  <2>6. e + 2 + 2 = e + 4 /\ e + 1 + 1 = e + 2
    BY <1>4
  <2>7. Leads(e + 2) = <<"at", base + n>>
    BY <1>1, <1>8, <2>5, <2>6
  <2>8. QED
    BY <1>2, <2>4, <2>6, <2>7, OnIs
<1>9. QED
  BY <1>4, <1>6, <1>7, <1>8 DEF JumpsBack

(* Behind what was made of a word control gets to the next word that was kept.   *)
LEMMA LeadsNext ==
  ASSUME NEW e, Done(e), JumpsElsewhere(program), NEW r \in 1 .. Len(code) + 1
  PROVE  On(Leads(Edge(e, r) + 1)) = WordPlace(r) /\ On(WordPlace(r)) = WordPlace(r)
<1>1. Len(code) \in Nat
  BY DoneTypes
<1>2. PICK l \in r .. Len(code) + 1 :
        /\ l = FirstKept(r) /\ (l = Len(code) + 1 \/ code[l].op # "prfm")
        /\ \A k \in r .. l - 1 : code[k].op = "prfm"
  BY FirstKeptIs
<1>3. Edge(e, r) = Edge(e, l)
  <2>1. CASE r \in 1 .. Len(code)
    BY <1>2, <2>1, Edges
  <2>2. CASE r \notin 1 .. Len(code)
    BY <1>1, <1>2, <2>2
  <2>3. QED
    BY <2>1, <2>2
<1>4. CASE l = Len(code) + 1
  <2>1. WordPlace(r) = <<"at", Here(Len(code) + 1)>>
    BY <1>1, <1>2, <1>4 DEF WordPlace
  <2>2. Edge(e, r) = e
    BY <1>3, <1>4, Edges
  <2>3. QED
    BY <2>1, <2>2, LeadsBack, OnIs
<1>5. CASE l # Len(code) + 1
  <2>1. l \in 1 .. Len(code) /\ code[l].op # "prfm" /\ ~(l > Len(code))
    BY <1>1, <1>2, <1>5
  <2>2. WordPlace(r) = <<"word", l>>
    BY <1>2, <2>1 DEF WordPlace
  <2>3. Edge(e, l) = begin[l]
    BY <2>1, Edges
  <2>4. begin[l] + 1 \in begin[l] + 1 .. InstructionOf(l)
    <3>1. Starts(begin[l], InstructionOf(l), Edge(e, l + 1), out)
      BY <2>1, KeptStarts
    <3>2. l \in 1 .. Len(code) + 1 /\ l + 1 \in 1 .. Len(code) + 1
      BY <1>1, <2>1
    <3>3. begin[l] \in Nat /\ Edge(e, l + 1) \in Nat
      BY <2>1, <3>2, Edges
    <3>4. QED
      BY <3>1, <3>3 DEF Starts
  <2>5. Leads(begin[l] + 1) = <<"word", l>>
    BY <2>1, <2>4, LeadsToWord
  <2>6. QED
    BY <1>3, <2>2, <2>3, <2>5, OnIs
<1>6. QED
  BY <1>4, <1>5

(* And so it does behind a jump over data.                                       *)
LEMMA GoesNext ==
  ASSUME NEW e, Done(e), JumpsElsewhere(program), NEW r \in 1 .. Len(code) + 1
  PROVE  /\ Goes(Edge(e, r) + 1) = WordPlace(r)
         /\ \A k \in 1 .. Len(out) :
              WordsAt(k) = {} /\ out[k].op = "b" /\ k + out[k].off = Edge(e, r) + 1 => Goes(k) = WordPlace(r)
<1>1. On(Leads(Edge(e, r) + 1)) = WordPlace(r) /\ On(WordPlace(r)) = WordPlace(r)
  BY LeadsNext
<1>2. Goes(Edge(e, r) + 1) = WordPlace(r)
  BY <1>1 DEF Goes
<1>3. ASSUME NEW k \in 1 .. Len(out), WordsAt(k) = {}, out[k].op = "b", k + out[k].off = Edge(e, r) + 1
      PROVE  Goes(k) = WordPlace(r)
  <2>1. Leads(k) = <<"on", Edge(e, r) + 1>>
    BY <1>3, LeadsOn
  <2>2. QED
    BY <1>1, <2>1, OnIs DEF Goes
<1>4. QED
  BY <1>2, <1>3

-----------------------------------------------------------------------------
(* What each word does. *)

LEMMA BeforeIs ==
  ASSUME NEW i, NEW to, to = Here(i) + code[i].off, NEW next, next = WordPlace(i + 1)
  PROVE  /\ code[i].op = "b" => Before(i) = <<"go", Place(to)>>
         /\ code[i].op = "bl" => Before(i) = <<"call", Place(to), next>>
         /\ code[i].op \in {"cbz", "tbz"} => Before(i) = <<code[i].op, Place(to), next>>
         /\ code[i].op \in Literals => Before(i) = <<code[i].op, to, next>>
         /\ code[i].op = "adr" => Before(i) = <<"rd", 0, Place(to), code[i].low, next>>
         /\ code[i].op = "adrp" =>
              Before(i) = <<"rd", 0, <<"at", PageOfWord(Here(i)) + code[i].off * PageSize>>, 0, next>>
         /\ code[i].op = "other" => Before(i) = <<"other", next>>
<1>1. \A op : op \in Literals => op \notin {"b", "bl", "cbz", "tbz", "adr", "adrp", "other"}
  BY DEF Literals
<1>2. CASE code[i].op = "b"
  BY <1>1, <1>2 DEF Before
<1>3. CASE code[i].op = "bl"
  BY <1>1, <1>3 DEF Before
<1>4. CASE code[i].op \in {"cbz", "tbz"}
  BY <1>1, <1>4 DEF Before
<1>5. CASE code[i].op \in Literals
  BY <1>1, <1>5 DEF Before
<1>6. CASE code[i].op = "adr"
  BY <1>1, <1>6 DEF Before
<1>7. CASE code[i].op = "adrp"
  BY <1>1, <1>7 DEF Before
<1>8. CASE code[i].op = "other"
  BY <1>1, <1>8 DEF Before
<1>9. QED
  BY <1>2, <1>3, <1>4, <1>5, <1>6, <1>7, <1>8

LEMMA AfterIs ==
  ASSUME NEW i, NEW k, k = InstructionOf(i), NEW next, next = Goes(k + 1)
  PROVE  /\ out[k].op = "b" => After(i) = <<"go", Goes(k + out[k].off)>>
         /\ out[k].op = "bl" => After(i) = <<"call", Goes(k + out[k].off), next>>
         /\ out[k].op = "ldrx17" /\ out[k + 1].op # "adrx30" =>
              After(i) = <<"go", <<"at", out[k + out[k].off].off>>>>
         /\ out[k].op = "ldrx17" /\ out[k + 1].op = "adrx30" =>
              After(i) = <<"call", <<"at", out[k + out[k].off].off>>, Goes(k + 1 + out[k + 1].off)>>
         /\ out[k].op \in {"cbz", "tbz"} => After(i) = <<out[k].op, Goes(k + out[k].off), next>>
         /\ out[k].op \in Literals =>
              After(i) = <<out[k].op, Loaded(k + out[k].off, LiteralWords(out[k].op)), next>>
         /\ out[k].op = "ldrrd" =>
              After(i) = <<"rd", 0, <<"at", out[k + out[k].off].off>>, out[k + out[k].off].low, next>>
         /\ out[k].op = "adr" => After(i) = <<"rd", out[k].reg, Goes(k + out[k].off), out[k].low, next>>
         /\ out[k].op = "other" => After(i) = <<"other", next>>
<1>1. \A op : op \in Literals => op \notin {"b", "bl", "ldrx17", "cbz", "tbz", "ldrrd", "adr", "adrp", "other"}
  BY DEF Literals
<1>2. CASE out[k].op = "b"
  BY <1>1, <1>2 DEF After
<1>3. CASE out[k].op = "bl"
  BY <1>1, <1>3 DEF After
<1>4. CASE out[k].op = "ldrx17"
  BY <1>1, <1>4 DEF After
<1>5. CASE out[k].op \in {"cbz", "tbz"}
  BY <1>1, <1>5 DEF After
<1>6. CASE out[k].op \in Literals
  BY <1>1, <1>6 DEF After
<1>7. CASE out[k].op = "ldrrd"
  BY <1>1, <1>7 DEF After
<1>8. CASE out[k].op = "adr"
  BY <1>1, <1>8 DEF After
<1>9. CASE out[k].op = "other"
  BY <1>1, <1>9 DEF After
<1>10. QED
  BY <1>2, <1>3, <1>4, <1>5, <1>6, <1>7, <1>8, <1>9

LEMMA InsideIs ==
  ASSUME NEW a
  PROVE  /\ InRange(a) <=> Inside(program, a)
         /\ ~InRange(a) => Place(a) = <<"at", a>>
         /\ InRange(a) => Place(a) = WordPlace(RefIndex(a))
  BY DEF InRange, Inside, Place, code

(* An offset that is not negative is read as it is. *)
LEMMA TargetIs ==
  ASSUME NEW e, Done(e), JumpsElsewhere(program), NEW i \in 1 .. Len(code), NEW to, to = Target(program, i)
  PROVE  /\ Here(i) = program.base + i - 1 /\ Here(i) \in Int /\ to \in Int
         /\ code[i].op \in {"b", "bl"} \/ code[i].off >= 0 => to = Here(i) + code[i].off
         /\ code[i].op \in Literals => to = Here(i) + Widened(code[i].off)
<1>1. /\ code = program.code /\ i \in Int
      /\ code[i].off \in Int /\ Reach14 \in Nat \ {0} /\ Reach19 \in Nat \ {0} /\ Wrap \in Nat
  BY DoneTypes, ReachTypes
<1>2. PICK off \in Int, base \in Int, op \in {code[i].op} :
        off = code[i].off /\ base = program.base /\ op = code[i].op
  BY <1>1, DoneTypes
<1>3. Here(i) = base + i - 1 /\ Here(i) \in Int
  BY <1>2 DEF Here
<1>4. PICK reads : reads = Reads(code[i])
  OBVIOUS
<1>5. to = Here(i) + reads
  <2>1. to = program.base + i - 1 + Reads(code[i])
    BY <1>1 DEF Target
  <2>2. QED
    BY <1>2, <1>3, <1>4, <2>1
<1>6. Widened(off) \in Int /\ (off >= 0 => Widened(off) = off)
  BY <1>1 DEF Widened
<1>7. ASSUME op \in {"cbz", "tbz"}
      PROVE  reads \in Int /\ (off >= 0 => reads = off)
  <2>1. PICK reach \in Nat \ {0} : reach = ReachOf(op)
    BY <1>1 DEF ReachOf
  <2>2. off < 2 * reach
    BY <1>1, <1>2, <1>7, <2>1 DEF JumpsElsewhere
  <2>3. reads = off % (2 * reach)
    BY <1>2, <1>4, <1>7, <2>1 DEF Reads, Unsigned
  <2>4. PICK m \in Nat \ {0} : m = 2 * reach
    OBVIOUS
  <2>5. \A a \in Int : \A b \in Nat \ {0} : a % b \in Int /\ (0 <= a /\ a < b => a % b = a)
    OBVIOUS
  <2>6. QED
    BY <2>2, <2>3, <2>4, <2>5
<1>8. ASSUME op \in {"b", "bl"}
      PROVE  reads = off
  BY <1>2, <1>4, <1>8 DEF Reads
<1>9. ASSUME op \notin {"b", "bl", "cbz", "tbz"}
      PROVE  reads = Widened(off)
  BY <1>2, <1>4, <1>9 DEF Reads
<1>10. reads \in Int /\ (op \in {"b", "bl"} \/ off >= 0 => reads = off)
  BY <1>6, <1>7, <1>8, <1>9
<1>11. op \in Literals => reads = Widened(off)
  BY <1>9 DEF Literals
<1>12. QED
  BY <1>2, <1>3, <1>5, <1>10, <1>11

(* Where the words made of word i are. *)
LEMMA WordsOf ==
  ASSUME NEW e, Done(e), NEW i \in 1 .. Len(code), code[i].op # "prfm",
         NEW q, q = InstructionOf(i), NEW end, end = Edge(e, i + 1)
  PROVE  /\ q \in Nat /\ end \in Nat /\ begin[i] \in Nat /\ begin[i] < q /\ q <= end /\ end < Len(out)
         /\ q \in 1 .. Len(out) /\ q \in DOMAIN out
         /\ \A k \in q + 1 .. end : WordsAt(k) = {} /\ k \in 1 .. Len(out) /\ k \in DOMAIN out
<1>1. Starts(begin[i], q, end, out)
  BY KeptStarts
<1>2. i \in 1 .. Len(code) + 1 /\ i + 1 \in 1 .. Len(code) + 1
  BY DoneTypes
<1>3. begin[i] \in Nat /\ end \in Nat /\ end <= e /\ e \in Nat /\ e + 1 \in 1 .. Len(out) /\ Len(out) \in Nat
  BY <1>2, Edges, DoneTypes, BackIsThere
<1>4. q \in begin[i] + 1 .. end
  BY <1>1 DEF Starts
<1>5. ASSUME NEW k \in q + 1 .. end
      PROVE  WordsAt(k) = {} /\ k \in 1 .. Len(out)
  <2>1. k \in Int /\ begin[i] < k /\ k <= end /\ ~(k <= q)
    BY <1>3, <1>4
  <2>2. WordsAt(k) = {}
    BY <2>1, WordsAtIs
  <2>3. QED
    BY <1>3, <1>4, <2>1, <2>2
<1>6. /\ q \in Nat /\ begin[i] < q /\ q <= end /\ end < Len(out) /\ q \in 1 .. Len(out)
  BY <1>3, <1>4
<1>7. DOMAIN out = 1 .. Len(out)
  BY DoneTypes
<1>8. QED
  BY <1>3, <1>5, <1>6, <1>7

LEMMA JumpsFarSame ==
  ASSUME NEW e, Done(e), JumpsElsewhere(program), NEW i \in 1 .. Len(code),
         NEW q, q = InstructionOf(i), JumpsFar(program, i, q, Edge(e, i + 1), out)
  PROVE  After(i) = Before(i)
<1>1. PICK to : to = Target(program, i)
  OBVIOUS
<1>2. code[i].op = "b" /\ ~InRange(to) /\ to = Here(i) + code[i].off
  <2>1. code[i].op = "b" /\ ~InRange(to)
    BY <1>1, InsideIs DEF JumpsFar, code
  <2>2. QED
    BY <1>1, <2>1, TargetIs
<1>3. out[q].op = "ldrx17" /\ out[q].off = 2 /\ out[q + 1].op # "adrx30" /\ out[q + 2].off = to
  BY <1>1 DEF JumpsFar, LdrX17, I
<1>4. PICK next : next = Goes(q + 1)
  OBVIOUS
<1>5. After(i) = <<"go", <<"at", to>>>>
  BY <1>3, <1>4, AfterIs
<1>6. Before(i) = <<"go", Place(to)>>
  BY <1>2, BeforeIs
<1>7. QED
  BY <1>2, <1>5, <1>6, InsideIs

LEMMA CallsFarSame ==
  ASSUME NEW e, Done(e), JumpsElsewhere(program), NEW i \in 1 .. Len(code),
         NEW q, q = InstructionOf(i), CallsFar(program, i, q, Edge(e, i + 1), out)
  PROVE  After(i) = Before(i)
<1>1. PICK to : to = Target(program, i)
  OBVIOUS
<1>2. code[i].op = "bl" /\ ~InRange(to) /\ to = Here(i) + code[i].off
  <2>1. code[i].op = "bl" /\ ~InRange(to)
    BY <1>1, InsideIs DEF CallsFar, code
  <2>2. QED
    BY <1>1, <2>1, TargetIs
<1>3. /\ out[q].op = "ldrx17" /\ out[q].off = 3 /\ out[q + 1].op = "adrx30" /\ out[q + 1].off = 4
      /\ out[q + 3].off = to /\ Edge(e, i + 1) = q + 4
  BY <1>1 DEF CallsFar, LdrX17, I
<1>4. PICK next : next = Goes(q + 1)
  OBVIOUS
<1>5. After(i) = <<"call", <<"at", to>>, Goes(q + 1 + 4)>>
  BY <1>3, <1>4, AfterIs
<1>6. PICK end : end = Edge(e, i + 1)
  OBVIOUS
<1>7. q \in Nat /\ code[i].op # "prfm"
  BY <1>2, <1>6, WordsOf
<1>8. q + 1 + 4 = end + 1 /\ end = q + 4
  BY <1>3, <1>6, <1>7
<1>9. i + 1 \in 1 .. Len(code) + 1
  BY DoneTypes
<1>10. Goes(q + 1 + 4) = WordPlace(i + 1)
  BY <1>6, <1>8, <1>9, GoesNext
<1>11. Before(i) = <<"call", Place(to), WordPlace(i + 1)>>
  BY <1>2, BeforeIs
<1>12. QED
  BY <1>2, <1>5, <1>10, <1>11, InsideIs

(* A branch that is written as it was leads out of the trampoline.               *)
LEMMA GoesNear ==
  ASSUME NEW e, Done(e), JumpsElsewhere(program), NEW i \in 1 .. Len(code),
         code[i].op \in {"b", "bl"} \/ code[i].off >= 0, code[i].op \in Waiting,
         NEW to, to = Target(program, i), ~InRange(to),
         NEW q \in Int, NEW off, off = to - (program.rx + q - 1)
  PROVE  Goes(q + off) = Place(to)
<1>1. PICK n \in Nat, rx \in Int, len \in Nat :
        n = Len(program.code) /\ rx = program.rx /\ len = Len(out) /\ len <= 10 * n
  BY DoneTypes
<1>2. to \in Int /\ to = program.base + i - 1 + code[i].off
  BY TargetIs
<1>3. PICK t \in Int : t = to
  BY <1>2
<1>4. ~(t \in rx .. rx + 10 * n - 1)
  <2>1. code = program.code
    BY DEF code
  <2>2. QED
    BY <1>1, <1>2, <1>3, <2>1 DEF JumpsElsewhere, InTrampoline
<1>5. PICK k \in Int : k = q + off /\ k = t - rx + 1
  <2>1. off = t - (rx + q - 1)
    BY <1>1, <1>3
  <2>2. t - rx + 1 \in Int /\ q + (t - (rx + q - 1)) = t - rx + 1
    OBVIOUS
  <2>3. QED
    BY <2>1, <2>2
<1>6. k \notin 1 .. len
  <2>1. len <= 10 * n
    BY <1>1
  <2>2. QED
    BY <1>4, <1>5, <2>1
<1>7. Goes(k) = <<"at", program.rx + k - 1>>
  BY <1>1, <1>6, LeadsOut
<1>8. rx + k - 1 = t
  <2>1. k = t - rx + 1
    BY <1>5
  <2>2. QED
    BY <2>1
<1>9. QED
  BY <1>1, <1>3, <1>5, <1>7, <1>8, InsideIs

LEMMA BranchesNearSame ==
  ASSUME NEW e, Done(e), JumpsElsewhere(program), NEW i \in 1 .. Len(code), ~LosesSign(i),
         NEW q, q = InstructionOf(i), BranchesNear(program, i, q, Edge(e, i + 1), out)
  PROVE  After(i) = Before(i)
<1>1. PICK to : to = Target(program, i)
  OBVIOUS
<1>2. /\ code[i].op \in {"b", "bl", "cbz", "tbz"} /\ code[i].op \in Waiting
      /\ ~InRange(to)
      /\ out[q].op = code[i].op /\ out[q].off = to - (program.rx + q - 1) /\ Edge(e, i + 1) = q
  BY <1>1, InsideIs DEF BranchesNear, code, Waiting
<1>3. code[i].off \in Int
  BY DoneTypes
<1>4. code[i].op \in {"b", "bl"} \/ code[i].off >= 0
  BY <1>2, <1>3 DEF LosesSign
<1>5. to = Here(i) + code[i].off
  BY <1>1, <1>4, TargetIs
<1>6. q \in Int /\ i + 1 \in 1 .. Len(code) + 1
  BY <1>2, WordsOf, DoneTypes
<1>7. Goes(q + out[q].off) = Place(to)
  BY <1>1, <1>2, <1>4, <1>6, GoesNear
<1>8. PICK next : next = Goes(q + 1)
  OBVIOUS
<1>9. next = WordPlace(i + 1)
  BY <1>2, <1>6, <1>8, GoesNext
<1>10. CASE code[i].op = "b"
  BY <1>2, <1>5, <1>7, <1>8, <1>9, <1>10, BeforeIs, AfterIs
<1>11. CASE code[i].op = "bl"
  BY <1>2, <1>5, <1>7, <1>8, <1>9, <1>11, BeforeIs, AfterIs
<1>12. CASE code[i].op \in {"cbz", "tbz"}
  BY <1>2, <1>5, <1>7, <1>8, <1>9, <1>12, BeforeIs, AfterIs
<1>13. QED
  BY <1>2, <1>10, <1>11, <1>12

LEMMA BranchesFarSame ==
  ASSUME NEW e, Done(e), JumpsElsewhere(program), NEW i \in 1 .. Len(code), ~LosesSign(i),
         NEW q, q = InstructionOf(i), BranchesFar(program, i, q, Edge(e, i + 1), out)
  PROVE  After(i) = Before(i)
<1>1. PICK to : to = Target(program, i)
  OBVIOUS
<1>2. /\ code[i].op \in {"cbz", "tbz"} /\ code[i].op # "prfm"
      /\ ~InRange(to) /\ Edge(e, i + 1) = q + 5
      /\ out[q].op = code[i].op /\ out[q].off = 2
      /\ out[q + 1].op = "b" /\ out[q + 1].off = 5
      /\ out[q + 2].op = "ldrx17" /\ out[q + 2].off = 2 /\ out[q + 4].off = to
  BY <1>1, InsideIs DEF BranchesFar, code, LdrX17, I
<1>3. code[i].off \in Int
  BY DoneTypes
<1>4. code[i].off >= 0
  BY <1>2, <1>3 DEF LosesSign
<1>5. to = Here(i) + code[i].off
  BY <1>1, <1>4, TargetIs
<1>6. PICK end : end = Edge(e, i + 1)
  OBVIOUS
<1>7. /\ q \in Nat /\ end = q + 5
       /\ \A k \in q + 1 .. end : WordsAt(k) = {} /\ k \in 1 .. Len(out)
  BY <1>2, <1>6, WordsOf
<1>8. i + 1 \in 1 .. Len(code) + 1
  BY DoneTypes
<1>9. q + 1 \in q + 1 .. end /\ q + 2 \in q + 1 .. end /\ q + 2 + 2 = q + 4 /\ (q + 1) + 5 = end + 1
  BY <1>7
<1>10. Goes(q + 2) = <<"at", to>>
  <2>1. Leads(q + 2) = <<"at", out[q + 2 + 2].off>>
    BY <1>2, <1>7, <1>9, LeadsOn
  <2>2. QED
    BY <1>2, <1>9, <2>1, OnIs DEF Goes
<1>11. PICK next : next = Goes(q + 1)
  OBVIOUS
<1>12. next = WordPlace(i + 1)
  <2>1. PICK k \in 1 .. Len(out) : k = q + 1 /\ WordsAt(k) = {}
    BY <1>7, <1>9
  <2>2. k + out[k].off = Edge(e, i + 1) + 1 /\ out[k].op = "b"
    BY <1>2, <1>6, <1>9, <2>1
  <2>3. Goes(k) = WordPlace(i + 1)
    BY <1>8, <2>1, <2>2, GoesNext
  <2>4. QED
    BY <1>11, <2>1, <2>3
<1>13. After(i) = <<code[i].op, <<"at", to>>, next>>
  BY <1>2, <1>10, <1>11, AfterIs
<1>14. Before(i) = <<code[i].op, Place(to), next>>
  BY <1>2, <1>5, <1>12, BeforeIs
<1>15. QED
  BY <1>2, <1>13, <1>14, InsideIs

LEMMA CopiesLiteralSame ==
  ASSUME NEW e, Done(e), JumpsElsewhere(program), NEW i \in 1 .. Len(code), ~LosesSign(i),
         NEW q, q = InstructionOf(i), CopiesLiteral(program, i, q, Edge(e, i + 1), out)
  PROVE  After(i) = Before(i)
<1>1. PICK to : to = Target(program, i)
  OBVIOUS
<1>2. code[i].op \in Literals /\ code[i].op # "prfm"
  BY DEF CopiesLiteral, code, Literals
<1>3. PICK n \in {1, 2, 4} : n = LiteralWords(code[i].op)
  BY <1>2, LiteralWordsIs
<1>4. /\ Edge(e, i + 1) = q + 1 + n
      /\ out[q].op = code[i].op /\ out[q].off = 2
      /\ out[q + 1].op = "b" /\ out[q + 1].off = 1 + n
      /\ \A t \in 0 .. n - 1 : out[q + 2 + t] = I("copied", to + t)
  BY <1>1, <1>3 DEF CopiesLiteral, code, I
<1>5. code[i].off \in Int
  BY DoneTypes
<1>6. code[i].off >= 0
  BY <1>2, <1>5 DEF LosesSign
<1>7. to = Here(i) + code[i].off /\ to \in Int
  BY <1>1, <1>6, TargetIs
<1>8. PICK end : end = Edge(e, i + 1)
  OBVIOUS
<1>9. /\ q \in Nat /\ end = q + 1 + n
       /\ \A k \in q + 1 .. end : WordsAt(k) = {} /\ k \in 1 .. Len(out) /\ k \in DOMAIN out
  BY <1>2, <1>4, <1>8, WordsOf
<1>10. i + 1 \in 1 .. Len(code) + 1
  BY DoneTypes
<1>11. q + 1 \in q + 1 .. end /\ q + 2 \in q + 1 .. end /\ (q + 1) + (1 + n) = end + 1 /\ q + 2 + 0 = q + 2
  <2>1. n \in Nat /\ n >= 1
    BY <1>3
  <2>2. end = q + 1 + n /\ q \in Nat
    BY <1>9
  <2>3. QED
    BY <2>1, <2>2
<1>12. Loaded(q + 2, n) = to
  <2>1. q + 2 \in DOMAIN out
    BY <1>9, <1>11
  <2>2. out[q + 2].off = to
    <3>1. 0 \in 0 .. n - 1 /\ to + 0 = to
      BY <1>7
    <3>2. out[q + 2 + 0] = I("copied", to + 0)
      BY <1>4, <3>1
    <3>3. QED
      BY <1>11, <3>1, <3>2 DEF I
  <2>3. \A t \in 0 .. n - 1 : out[q + 2 + t] = I("copied", out[q + 2].off + t)
    BY <1>4, <2>2
  <2>4. QED
    BY <2>1, <2>2, <2>3 DEF Loaded
<1>13. PICK next : next = Goes(q + 1)
  OBVIOUS
<1>14. next = WordPlace(i + 1)
  <2>1. PICK k \in 1 .. Len(out) : k = q + 1 /\ WordsAt(k) = {}
    BY <1>9, <1>11
  <2>2. k + out[k].off = Edge(e, i + 1) + 1 /\ out[k].op = "b"
    BY <1>4, <1>8, <1>11, <2>1
  <2>3. Goes(k) = WordPlace(i + 1)
    BY <1>10, <2>1, <2>2, GoesNext
  <2>4. QED
    BY <1>13, <2>1, <2>3
<1>15. After(i) = <<code[i].op, to, next>>
  BY <1>2, <1>3, <1>4, <1>12, <1>13, AfterIs
<1>16. Before(i) = <<code[i].op, to, next>>
  BY <1>2, <1>7, <1>14, BeforeIs
<1>17. QED
  BY <1>15, <1>16

LEMMA LoadsLiteralSame ==
  ASSUME NEW e, Done(e), JumpsElsewhere(program), LiteralsElsewhere(program), NEW i \in 1 .. Len(code),
         ~LosesSign(i), ~LosesOpcode(i),
         NEW q, q = InstructionOf(i), LoadsLiteral(program, i, q, Edge(e, i + 1), out)
  PROVE  After(i) = Before(i)
<1>1. PICK to : to = Target(program, i)
  OBVIOUS
<1>2. /\ code[i].op \in Literals /\ code[i].op # "prfm" /\ Edge(e, i + 1) = q
      /\ out[q].off = to - (program.rx + q - 1) /\ out[q].op = Oversigned(code[i].op, out[q].off)
  BY <1>1 DEF LoadsLiteral, code, Literals
<1>3. code[i].off \in Int /\ code = program.code
  BY DoneTypes
<1>4. code[i].off >= 0
  BY <1>2, <1>3 DEF LosesSign
<1>5. to = Here(i) + code[i].off /\ to = Here(i) + Widened(code[i].off) /\ Here(i) = program.base + i - 1
  BY <1>1, <1>2, <1>4, TargetIs
<1>6. PICK n \in Nat, rx \in Int, len \in Nat, t \in Int :
        n = Len(program.code) /\ rx = program.rx /\ len = Len(out) /\ len <= 10 * n /\ t = to
  BY <1>1, DoneTypes, TargetIs
<1>7. ~(t \in rx .. rx + 10 * n - 1)
  BY <1>2, <1>3, <1>5, <1>6 DEF LiteralsElsewhere
<1>8. q \in Nat /\ begin[i] \in Nat /\ begin[i] + 1 <= Len(out) /\ i + 1 \in 1 .. Len(code) + 1
  <2>1. PICK end : end = Edge(e, i + 1)
    OBVIOUS
  <2>2. q \in Nat /\ end \in Nat /\ begin[i] \in Nat /\ begin[i] < q /\ q <= end /\ end < Len(out)
    BY <1>2, <2>1, WordsOf
  <2>3. begin[i] + 1 <= len
    BY <1>6, <2>2
  <2>4. QED
    BY <1>6, <2>2, <2>3, DoneTypes
<1>9. PICK k \in Int, off \in Int : off = t - (rx + q - 1) /\ k = q + off /\ k = t - rx + 1
  <2>1. t - (rx + q - 1) \in Int /\ t - rx + 1 \in Int /\ q + (t - (rx + q - 1)) = t - rx + 1
    BY <1>8
  <2>2. QED
    BY <2>1
<1>10. out[q].op = code[i].op
  <2>1. out[q].off = off
    BY <1>2, <1>6, <1>9
  <2>2. CASE code[i].op \in {"ldrx", "ldrsw"}
    BY <1>2, <2>2 DEF Oversigned
  <2>3. CASE code[i].op \notin {"ldrx", "ldrsw"}
    <3>1. ~(to < program.rx + q - 1)
      BY <1>2, <1>5, <1>8, <2>3 DEF LosesOpcode
    <3>2. off >= 0
      <4>1. ~(t < rx + q - 1)
        BY <1>6, <3>1
      <4>2. off = t - (rx + q - 1)
        BY <1>9
      <4>3. QED
        BY <1>8, <4>1, <4>2
    <3>3. QED
      BY <1>2, <2>1, <3>2 DEF Oversigned
  <2>4. QED
    BY <2>2, <2>3
<1>11. Loaded(k, LiteralWords(code[i].op)) = to
  <2>1. k \notin 1 .. len
    <3>1. k = t - rx + 1 /\ len <= 10 * n
      BY <1>6, <1>9
    <3>2. QED
      BY <1>7, <3>1
  <2>2. k \notin DOMAIN out
    BY <1>6, <2>1, DoneTypes
  <2>3. rx + k - 1 = t
    <3>1. k = t - rx + 1
      BY <1>9
    <3>2. QED
      BY <3>1
  <2>4. QED
    BY <1>6, <2>2, <2>3 DEF Loaded
<1>12. PICK next : next = Goes(q + 1)
  OBVIOUS
<1>13. next = WordPlace(i + 1)
  BY <1>2, <1>8, <1>12, GoesNext
<1>14. k = q + out[q].off
  BY <1>2, <1>6, <1>9
<1>15. After(i) = <<code[i].op, to, next>>
  BY <1>2, <1>10, <1>11, <1>12, <1>14, AfterIs
<1>16. Before(i) = <<code[i].op, to, next>>
  BY <1>2, <1>5, <1>13, BeforeIs
<1>17. QED
  BY <1>15, <1>16

LEMMA PageTargetIs ==
  ASSUME NEW e, Done(e), NEW i \in 1 .. Len(code), code[i].off >= 0
  PROVE  PageTarget(program, i) = PageOfWord(Here(i)) + code[i].off * PageSize
<1>1. \A a \in Int : \A b \in Nat : a >= 0 => a * b \in Nat
  BY Z3
<1>2. PICK page \in Nat : page = PageSize
  BY ReachTypes
<1>3. code[i].off \in Int /\ code = program.code
  BY DoneTypes
<1>4. PICK off \in Int : off = code[i].off
  BY <1>3
<1>5. off * page \in Nat
  BY <1>1, <1>4
<1>6. Widened(off * page) = off * page
  BY <1>5 DEF Widened
<1>7. PageTarget(program, i) = PageOfWord(Here(i)) + Widened(off * page)
  BY <1>2, <1>3, <1>4 DEF PageTarget, Here
<1>8. QED
  BY <1>2, <1>4, <1>6, <1>7

LEMMA LoadsAddressSame ==
  ASSUME NEW e, Done(e), JumpsElsewhere(program), NEW i \in 1 .. Len(code), ~LosesSign(i),
         NEW q, q = InstructionOf(i), LoadsAddress(program, i, q, Edge(e, i + 1), out)
  PROVE  After(i) = Before(i)
<1>1. PICK to : to = Target(program, i)
  OBVIOUS
<1>2. /\ Edge(e, i + 1) = q + 3 /\ out[q].op = "ldrrd" /\ out[q].off = 2
      /\ out[q + 1].op = "b" /\ out[q + 1].off = 3
      /\ code[i].op \in {"adr", "adrp"}
  BY DEF LoadsAddress, code, I
<1>3. code[i].off \in Int /\ code = program.code
  BY DoneTypes
<1>4. code[i].off >= 0
  BY <1>2, <1>3 DEF LosesSign
<1>5. PICK end : end = Edge(e, i + 1)
  OBVIOUS
<1>6. /\ q \in Nat /\ end = q + 3
       /\ \A k \in q + 1 .. end : WordsAt(k) = {} /\ k \in 1 .. Len(out)
  BY <1>2, <1>5, WordsOf
<1>7. i + 1 \in 1 .. Len(code) + 1
  BY DoneTypes
<1>8. q + 1 \in q + 1 .. end /\ (q + 1) + 3 = end + 1
  BY <1>6
<1>9. PICK next : next = Goes(q + 1)
  OBVIOUS
<1>10. next = WordPlace(i + 1)
  <2>1. PICK k \in 1 .. Len(out) : k = q + 1 /\ WordsAt(k) = {}
    BY <1>6, <1>8
  <2>2. k + out[k].off = Edge(e, i + 1) + 1 /\ out[k].op = "b"
    BY <1>2, <1>5, <1>8, <2>1
  <2>3. Goes(k) = WordPlace(i + 1)
    BY <1>7, <2>1, <2>2, GoesNext
  <2>4. QED
    BY <1>9, <2>1, <2>3
<1>11. After(i) = <<"rd", 0, <<"at", out[q + 2].off>>, out[q + 2].low, next>>
  BY <1>2, <1>9, AfterIs
<1>12. CASE code[i].op = "adr"
  <2>1. ~InRange(to) /\ out[q + 2].off = to /\ out[q + 2].low = code[i].low
    BY <1>1, <1>3, <1>12, InsideIs DEF LoadsAddress
  <2>2. to = Here(i) + code[i].off
    BY <1>1, <1>4, TargetIs
  <2>3. Before(i) = <<"rd", 0, Place(to), code[i].low, next>>
    BY <1>10, <1>12, <2>2, BeforeIs
  <2>4. QED
    BY <1>11, <2>1, <2>3, InsideIs
<1>13. CASE code[i].op = "adrp"
  <2>1. out[q + 2].off = PageTarget(program, i) /\ out[q + 2].low = 0
    BY <1>3, <1>13 DEF LoadsAddress
  <2>2. PageTarget(program, i) = PageOfWord(Here(i)) + code[i].off * PageSize
    BY <1>4, PageTargetIs
  <2>3. Before(i) = <<"rd", 0, <<"at", PageOfWord(Here(i)) + code[i].off * PageSize>>, 0, next>>
    <3>1. PICK a : a = Here(i) + code[i].off
      OBVIOUS
    <3>2. QED
      BY <1>10, <1>13, <3>1, BeforeIs
  <2>4. QED
    BY <1>11, <2>1, <2>2, <2>3
<1>14. QED
  BY <1>2, <1>12, <1>13

LEMMA NamesAddressSame ==
  ASSUME NEW e, Done(e), JumpsElsewhere(program), NEW i \in 1 .. Len(code), ~LosesSign(i), ~LosesRegister(i),
         NEW q, q = InstructionOf(i), NamesAddress(program, i, q, Edge(e, i + 1), out)
  PROVE  After(i) = Before(i)
<1>1. PICK to : to = Target(program, i)
  OBVIOUS
<1>2. /\ code[i].op = "adr" /\ code[i].op \in Waiting /\ ~InRange(to) /\ Edge(e, i + 1) = q
      /\ out[q].op = "adr" /\ out[q].off = to - (program.rx + q - 1)
      /\ out[q].low = code[i].low /\ out[q].reg = code[i].low
  BY <1>1, InsideIs DEF NamesAddress, code, Waiting
<1>3. code[i].off \in Int
  BY DoneTypes
<1>4. code[i].off >= 0
  BY <1>2, <1>3 DEF LosesSign
<1>5. to = Here(i) + code[i].off
  BY <1>1, <1>4, TargetIs
<1>6. code[i].low = 0
  BY <1>2, <1>5 DEF LosesRegister
<1>7. q \in Int /\ i + 1 \in 1 .. Len(code) + 1
  BY <1>2, WordsOf, DoneTypes
<1>8. Goes(q + out[q].off) = Place(to)
  BY <1>1, <1>2, <1>4, <1>7, GoesNear
<1>9. PICK next : next = Goes(q + 1)
  OBVIOUS
<1>10. next = WordPlace(i + 1)
  BY <1>2, <1>7, <1>9, GoesNext
<1>11. After(i) = <<"rd", 0, Place(to), 0, next>>
  BY <1>2, <1>6, <1>8, <1>9, AfterIs
<1>12. Before(i) = <<"rd", 0, Place(to), 0, next>>
  BY <1>2, <1>5, <1>6, <1>10, BeforeIs
<1>13. QED
  BY <1>11, <1>12

LEMMA StaysSameSame ==
  ASSUME NEW e, Done(e), JumpsElsewhere(program), NEW i \in 1 .. Len(code),
         NEW q, q = InstructionOf(i), StaysSame(program, i, q, Edge(e, i + 1), out)
  PROVE  After(i) = Before(i)
<1>1. code[i].op = "other" /\ out[q].op = "other" /\ Edge(e, i + 1) = q
  BY DEF StaysSame, code
<1>2. i + 1 \in 1 .. Len(code) + 1
  BY DoneTypes
<1>3. PICK next : next = Goes(q + 1)
  OBVIOUS
<1>4. next = WordPlace(i + 1)
  BY <1>1, <1>2, <1>3, GoesNext
<1>5. PICK to : to = Here(i) + code[i].off
  OBVIOUS
<1>6. QED
  BY <1>1, <1>3, <1>4, <1>5, AfterIs, BeforeIs

LEMMA FieldIs ==
  ASSUME NEW reach \in Nat \ {0}, NEW x \in Int, -reach <= x, x < reach
  PROVE  Field(x, reach) = x
<1>1. \A a \in Int : \A b \in Nat \ {0} : 0 <= a /\ a < b => a % b = a
  OBVIOUS
<1>2. x + reach \in Int /\ 2 * reach \in Nat \ {0} /\ 0 <= x + reach /\ x + reach < 2 * reach
  OBVIOUS
<1>3. (x + reach) % (2 * reach) = x + reach
  BY <1>1, <1>2
<1>4. QED
  BY <1>3 DEF Field

(* The place noted for a word is one from which control gets to it.              *)
LEMMA GoesToNoted ==
  ASSUME NEW e, Done(e), JumpsElsewhere(program), NEW r \in 1 .. Len(code),
         ~(code[r].op = "adrp" /\ dat[r] >= program.rw), NEW k, k = dat[r] - program.rx + 1
  PROVE  Goes(k) = WordPlace(r) /\ k \in 1 .. Len(out)
<1>1. r < cur /\ code = program.code /\ r \in 1 .. Len(code) + 1 /\ r + 1 \in 1 .. Len(code) + 1 /\ dat[r] \in Int
  BY DoneTypes DEF Done, RInv
<1>2. PICK rx \in Int, d \in Int : rx = program.rx /\ d = dat[r]
  BY <1>1, DoneTypes
<1>3. k = d - rx + 1 /\ k \in Int
  BY <1>2
<1>4. /\ begin[r] \in Nat /\ Edge(e, r) = begin[r] /\ begin[r] <= e /\ e \in Nat
      /\ e + 1 \in 1 .. Len(out) /\ Len(out) \in Nat
  BY <1>1, Edges, DoneTypes, BackIsThere
<1>5. CASE d = rx + begin[r]
  <2>1. k = begin[r] + 1
    BY <1>3, <1>4, <1>5
  <2>2. Goes(k) = WordPlace(r)
    BY <1>1, <1>4, <2>1, GoesNext
  <2>3. QED
    BY <1>4, <2>1, <2>2
<1>6. ASSUME Block(program, r, begin[r], Edge(e, r + 1), d, out)
      PROVE  Goes(k) = WordPlace(r) /\ k \in 1 .. Len(out)
  <2>1. PICK q : /\ Starts(begin[r], q, Edge(e, r + 1), out) /\ MovedAs(program, r, q, Edge(e, r + 1), out)
                 /\ d \in rx + begin[r] .. rx + q - 1
    BY <1>1, <1>2, <1>6 DEF Block
  <2>2. q = InstructionOf(r)
    BY <2>1, InstructionIs
  <2>3. code[r].op # "prfm"
    BY <1>1, <2>1 DEF MovedAs, JumpsFar, CallsFar, BranchesFar, BranchesNear, CopiesLiteral, LoadsLiteral,
                      LoadsAddress, NamesAddress, NamesPage, StaysSame, Literals
  <2>4. q \in Nat /\ q \in 1 .. Len(out)
    <3>1. PICK end : end = Edge(e, r + 1)
      OBVIOUS
    <3>2. QED
      BY <2>2, <2>3, <3>1, WordsOf
  <2>5. k \in begin[r] + 1 .. q
    <3>1. d \in rx + begin[r] .. rx + q - 1
      BY <2>1
    <3>2. QED
      BY <1>3, <1>4, <2>4, <3>1
  <2>6. Goes(k) = <<"word", r>>
    BY <2>2, <2>3, <2>5, LeadsToWord
  <2>7. k \in 1 .. Len(out)
    BY <1>4, <2>4, <2>5
  <2>8. QED
    BY <2>3, <2>6, <2>7, KeptIsFirst
<1>7. Block(program, r, begin[r], Edge(e, r + 1), d, out) \/ d = rx + begin[r]
  BY <1>1, <1>2 DEF Done, Laid, Blocks, Named, Dropped
<1>8. QED
  BY <1>5, <1>6, <1>7

LEMMA NamedSame ==
  ASSUME NEW e, Done(e), JumpsElsewhere(program), NEW i \in 1 .. Len(code), ~LosesSign(i), ~NamesAlias(i),
         Named(program, i, begin[i], Edge(e, i + 1), dat[i], out)
  PROVE  After(i) = Before(i)
<1>1. PICK to, q, r : to = Target(program, i) /\ q = begin[i] + 1 /\ r = Ref(program, i)
  OBVIOUS
<1>2. code = program.code /\ i + 1 \in 1 .. Len(code) + 1 /\ i \in 1 .. Len(code) + 1 /\ Len(code) \in Nat
  BY DoneTypes
<1>3. /\ code[i].op \in Waiting /\ InRange(to) /\ Edge(e, i + 1) = q
      /\ out[q].op = code[i].op /\ out[q].low = code[i].low /\ out[q].reg = code[i].reg
  <2>1. Refers(program, i) /\ Edge(e, i + 1) = q
    BY <1>1 DEF Named
  <2>2. out[q].op = code[i].op /\ out[q].low = code[i].low /\ out[q].reg = code[i].reg
    BY <1>1, <1>2, <2>1 DEF Named
  <2>3. QED
    BY <1>1, <1>2, <2>1, <2>2, InsideIs DEF Refers
<1>4. code[i].op # "prfm" /\ code[i].op \notin Literals /\ "nop" \notin Waiting
  BY <1>3 DEF Waiting, Literals
<1>5. code[i].off \in Int /\ code[i].reg = 0
  BY DoneTypes
<1>6. code[i].op \in {"b", "bl"} \/ code[i].off >= 0
  BY <1>3, <1>5 DEF LosesSign, Waiting
<1>7. to = Here(i) + code[i].off /\ to \in Int
  BY <1>1, <1>6, TargetIs
<1>8. r = RefIndex(to) /\ r \in 1 .. Len(code)
  <2>1. RInv
    BY DEF Done
  <2>2. r = RefIndex(to)
    BY <1>1 DEF Ref, RefIndex
  <2>3. QED
    BY <1>3, <1>7, <2>1, <2>2, RefIndexIs
<1>9. ~(code[r].op = "adrp" /\ dat[r] >= program.rw)
  BY <1>3, <1>7, <1>8 DEF NamesAlias, Waiting
<1>10. PICK k : k = dat[r] - program.rx + 1
  OBVIOUS
<1>11. Goes(k) = WordPlace(r) /\ k \in 1 .. Len(out)
  BY <1>8, <1>9, <1>10, GoesToNoted
<1>12. begin[i] \in Nat /\ begin[i] + 1 <= Len(out)
  <2>1. Edge(e, i) = begin[i] /\ Edge(e, i) \in Nat
    BY <1>2, Edges
  <2>2. Edge(e, i + 1) <= e
    BY <1>2, Edges
  <2>3. e \in Nat /\ e + 1 \in 1 .. Len(out) /\ Len(out) \in Nat
    BY DoneTypes, BackIsThere
  <2>4. QED
    BY <1>1, <1>3, <2>1, <2>2, <2>3
<1>13. q + out[q].off = k
  <2>1. PICK reach \in Nat \ {0} : reach = ReachFor(code[i].op) /\ Reach14 <= reach
    <3>1. /\ Reach14 \in Nat \ {0} /\ Reach19 \in Nat \ {0} /\ Reach26 \in Nat \ {0}
          /\ Reach14 <= Reach19 /\ Reach19 <= Reach26
      BY RelocateAssumption
    <3>2. QED
      BY <3>1 DEF ReachFor
  <2>2. out[q].off = Field(dat[r] - (program.rx + begin[i]), reach)
    <3>1. i < cur /\ r < cur /\ Refers(program, i)
      BY <1>2, <1>8 DEF Done, Named
    <3>2. References
      BY DEF Done, Laid
    <3>3. QED
      BY <1>1, <2>1, <3>1, <3>2 DEF References
  <2>3. PICK rx \in Int, d \in Int, b \in Nat, len \in Nat, n \in Nat :
          rx = program.rx /\ d = dat[r] /\ b = begin[i] /\ len = Len(out) /\ n = Len(code) /\ len <= 10 * n
    BY <1>8, <1>12, DoneTypes DEF Done, RInv
  <2>4. k = d - rx + 1 /\ k \in 1 .. len /\ b + 1 <= len /\ 10 * n < Reach14
    BY <1>2, <1>10, <1>11, <1>12, <2>3 DEF JumpsElsewhere
  <2>5. d - (rx + b) \in Int /\ d - (rx + b) = k - 1 - b
    BY <2>4
  <2>6. Reach14 \in Nat
    BY ReachTypes
  <2>7. -reach <= k - 1 - b /\ k - 1 - b < reach
    <3>1. k \in 1 .. len /\ b + 1 <= len /\ 10 * n < Reach14 /\ len <= 10 * n /\ Reach14 <= reach
      BY <2>1, <2>3, <2>4
    <3>2. QED
      BY <2>6, <3>1
  <2>8. Field(d - (rx + b), reach) = d - (rx + b)
    BY <2>5, <2>7, FieldIs
  <2>9. out[q].off = k - 1 - b
    BY <2>2, <2>3, <2>5, <2>8
  <2>10. QED
    BY <1>1, <2>3, <2>4, <2>9
<1>14. Goes(q + out[q].off) = Place(to)
  BY <1>3, <1>8, <1>11, <1>13, InsideIs
<1>15. q = InstructionOf(i)
  <2>1. Starts(begin[i], q, Edge(e, i + 1), out)
    BY <1>1, <1>3, <1>4, <1>12 DEF Starts
  <2>2. QED
    BY <2>1, InstructionIs
<1>16. PICK next : next = Goes(q + 1)
  OBVIOUS
<1>17. next = WordPlace(i + 1)
  BY <1>2, <1>3, <1>16, GoesNext
<1>18. CASE code[i].op = "b"
  BY <1>3, <1>7, <1>14, <1>15, <1>16, <1>17, <1>18, BeforeIs, AfterIs
<1>19. CASE code[i].op = "bl"
  BY <1>3, <1>7, <1>14, <1>15, <1>16, <1>17, <1>19, BeforeIs, AfterIs
<1>20. CASE code[i].op \in {"cbz", "tbz"}
  BY <1>3, <1>7, <1>14, <1>15, <1>16, <1>17, <1>20, BeforeIs, AfterIs
<1>21. CASE code[i].op = "adr"
  BY <1>3, <1>5, <1>7, <1>14, <1>15, <1>16, <1>17, <1>21, BeforeIs, AfterIs
<1>22. QED
  BY <1>3, <1>18, <1>19, <1>20, <1>21 DEF Waiting

(* When the jump back is there, what is there means the same.                    *)
LEMMA LaidMeansTheSame ==
  ASSUME NEW e, Done(e), JumpsElsewhere(program), LiteralsElsewhere(program)
  PROVE  MovedMeansTheSame
<1>1. ASSUME NEW i \in KeptWords, ~LosesSign(i), ~LosesRegister(i), ~LosesOpcode(i), ~LosesPage(i), ~NamesAlias(i)
      PROVE  After(i) = Before(i)
  <2>1. i \in 1 .. Len(code) /\ code[i].op # "prfm" /\ code = program.code /\ i < cur
    BY DoneTypes DEF KeptWords, Done
  <2>2. CASE Named(program, i, begin[i], Edge(e, i + 1), dat[i], out)
    BY <1>1, <2>1, <2>2, NamedSame
  <2>3. CASE Block(program, i, begin[i], Edge(e, i + 1), dat[i], out)
    <3>1. PICK q : Starts(begin[i], q, Edge(e, i + 1), out) /\ MovedAs(program, i, q, Edge(e, i + 1), out)
      BY <2>3 DEF Block
    <3>2. q = InstructionOf(i)
      BY <2>1, <3>1, InstructionIs
    <3>3. CASE JumpsFar(program, i, q, Edge(e, i + 1), out)
      BY <2>1, <3>2, <3>3, JumpsFarSame
    <3>4. CASE CallsFar(program, i, q, Edge(e, i + 1), out)
      BY <2>1, <3>2, <3>4, CallsFarSame
    <3>5. CASE BranchesFar(program, i, q, Edge(e, i + 1), out)
      BY <1>1, <2>1, <3>2, <3>5, BranchesFarSame
    <3>6. CASE BranchesNear(program, i, q, Edge(e, i + 1), out)
      BY <1>1, <2>1, <3>2, <3>6, BranchesNearSame
    <3>7. CASE CopiesLiteral(program, i, q, Edge(e, i + 1), out)
      BY <1>1, <2>1, <3>2, <3>7, CopiesLiteralSame
    <3>8. CASE LoadsLiteral(program, i, q, Edge(e, i + 1), out)
      BY <1>1, <2>1, <3>2, <3>8, LoadsLiteralSame
    <3>9. CASE LoadsAddress(program, i, q, Edge(e, i + 1), out)
      BY <1>1, <2>1, <3>2, <3>9, LoadsAddressSame
    <3>10. CASE NamesAddress(program, i, q, Edge(e, i + 1), out)
      BY <1>1, <2>1, <3>2, <3>10, NamesAddressSame
    <3>11. CASE StaysSame(program, i, q, Edge(e, i + 1), out)
      BY <2>1, <3>2, <3>11, StaysSameSame
    <3>12. CASE NamesPage(program, i, q, Edge(e, i + 1), out)
      <4>1. code[i].op = "adrp" /\ Inside(program, PageTarget(program, i))
        BY <2>1, <3>12 DEF NamesPage
      <4>2. code[i].off \in Int /\ code[i].off >= 0
        BY <1>1, <2>1, <4>1, DoneTypes DEF LosesSign
      <4>3. PageTarget(program, i) = PageOfWord(Here(i)) + code[i].off * PageSize
        BY <2>1, <4>2, PageTargetIs
      <4>4. LosesPage(i)
        BY <4>1, <4>3, InsideIs DEF LosesPage
      <4>5. QED
        BY <1>1, <4>4
    <3>13. QED
      BY <3>1, <3>3, <3>4, <3>5, <3>6, <3>7, <3>8, <3>9, <3>10, <3>11, <3>12 DEF MovedAs
  <2>4. QED
    BY <2>1, <2>2, <2>3 DEF Done, Laid, Blocks, Dropped
<1>2. QED
  BY <1>1 DEF MovedMeansTheSame

-----------------------------------------------------------------------------
(* A step keeps what was made of the words before, and adds one word's.         *)

(* What was made of a word that names no word of the function is not changed.   *)
LEMMA MovedIsNoReference ==
  ASSUME NEW p, NEW i, NEW q, NEW e, NEW o, MovedAs(p, i, q, e, o)
  PROVE  ~Refers(p, i) /\ p.code[i].op # "prfm"
<1>1. /\ Literals \cap Waiting = {} /\ "prfm" \notin Literals
      /\ "adrp" \notin Waiting /\ "other" \notin Waiting
  BY DEF Literals, Waiting
<1>2. CASE \/ JumpsFar(p, i, q, e, o) \/ CallsFar(p, i, q, e, o)
           \/ BranchesFar(p, i, q, e, o) \/ BranchesNear(p, i, q, e, o)
  BY <1>2 DEF JumpsFar, CallsFar, BranchesFar, BranchesNear, Refers
<1>3. CASE CopiesLiteral(p, i, q, e, o) \/ LoadsLiteral(p, i, q, e, o)
  BY <1>1, <1>3 DEF CopiesLiteral, LoadsLiteral, Refers
<1>4. CASE LoadsAddress(p, i, q, e, o) \/ NamesAddress(p, i, q, e, o)
  BY <1>1, <1>4 DEF LoadsAddress, NamesAddress, Refers
<1>5. CASE NamesPage(p, i, q, e, o) \/ StaysSame(p, i, q, e, o)
  BY <1>1, <1>5 DEF NamesPage, StaysSame, Refers
<1>6. QED
  BY <1>2, <1>3, <1>4, <1>5 DEF MovedAs

LEMMA BlockIsNoReference ==
  ASSUME NEW p, NEW i, NEW b, NEW e, NEW d, NEW o, Block(p, i, b, e, d, o)
  PROVE  ~Refers(p, i) /\ p.code[i].op # "prfm"
  BY MovedIsNoReference DEF Block

LEMMA MovedStays ==
  ASSUME NEW p, NEW i, NEW q \in Nat, NEW e \in Nat, q <= e, NEW o, NEW o2, \A k \in q .. e : o2[k] = o[k],
         MovedAs(p, i, q, e, o)
  PROVE  MovedAs(p, i, q, e, o2)
<1>1. o2[q] = o[q]
  OBVIOUS
<1>2. CASE JumpsFar(p, i, q, e, o)
  <2>1. q + 1 \in q .. e /\ q + 2 \in q .. e
    BY <1>2 DEF JumpsFar
  <2>2. JumpsFar(p, i, q, e, o2)
    BY <1>1, <1>2, <2>1 DEF JumpsFar
  <2>3. QED
    BY <2>2 DEF MovedAs
<1>3. CASE CallsFar(p, i, q, e, o)
  <2>1. q + 1 \in q .. e /\ q + 3 \in q .. e
    BY <1>3 DEF CallsFar
  <2>2. CallsFar(p, i, q, e, o2)
    BY <1>1, <1>3, <2>1 DEF CallsFar
  <2>3. QED
    BY <2>2 DEF MovedAs
<1>4. CASE BranchesFar(p, i, q, e, o)
  <2>1. q + 1 \in q .. e /\ q + 2 \in q .. e /\ q + 4 \in q .. e
    BY <1>4 DEF BranchesFar
  <2>2. BranchesFar(p, i, q, e, o2)
    BY <1>1, <1>4, <2>1 DEF BranchesFar
  <2>3. QED
    BY <2>2 DEF MovedAs
<1>5. CASE BranchesNear(p, i, q, e, o)
  BY <1>1, <1>5 DEF BranchesNear, MovedAs
<1>6. CASE CopiesLiteral(p, i, q, e, o)
  <2>1. PICK n \in {1, 2, 4} : n = LiteralWords(p.code[i].op)
    BY <1>6, LiteralWordsIs DEF CopiesLiteral
  <2>2. e = q + 1 + n
    BY <1>6, <2>1 DEF CopiesLiteral
  <2>3. q + 1 \in q .. e /\ \A t \in 0 .. n - 1 : q + 2 + t \in q .. e
    BY <2>1, <2>2
  <2>4. o2[q + 1] = o[q + 1] /\ \A t \in 0 .. n - 1 : o2[q + 2 + t] = o[q + 2 + t]
    BY <2>3
  <2>5. CopiesLiteral(p, i, q, e, o2)
    BY <1>1, <1>6, <2>1, <2>4 DEF CopiesLiteral
  <2>6. QED
    BY <2>5 DEF MovedAs
<1>7. CASE LoadsLiteral(p, i, q, e, o)
  BY <1>1, <1>7 DEF LoadsLiteral, MovedAs
<1>8. CASE LoadsAddress(p, i, q, e, o)
  <2>1. q + 1 \in q .. e /\ q + 2 \in q .. e
    BY <1>8 DEF LoadsAddress
  <2>2. LoadsAddress(p, i, q, e, o2)
    BY <1>1, <1>8, <2>1 DEF LoadsAddress
  <2>3. QED
    BY <2>2 DEF MovedAs
<1>9. CASE NamesAddress(p, i, q, e, o)
  BY <1>1, <1>9 DEF NamesAddress, MovedAs
<1>10. CASE NamesPage(p, i, q, e, o)
  BY <1>10 DEF NamesPage, MovedAs
<1>11. CASE StaysSame(p, i, q, e, o)
  BY <1>1, <1>11 DEF StaysSame, MovedAs
<1>12. QED
  BY <1>2, <1>3, <1>4, <1>5, <1>6, <1>7, <1>8, <1>9, <1>10, <1>11 DEF MovedAs

LEMMA BlockStays ==
  ASSUME NEW p, NEW i, NEW b \in Nat, NEW e \in Nat, NEW d, NEW o, NEW o2, \A k \in b + 1 .. e : o2[k] = o[k],
         Block(p, i, b, e, d, o)
  PROVE  Block(p, i, b, e, d, o2)
<1>1. PICK q \in b + 1 .. e :
        /\ Starts(b, q, e, o) /\ MovedAs(p, i, q, e, o)
        /\ d \in p.rx + b .. p.rx + q - 1 \/ (p.code[i].op = "adrp" /\ d >= p.rw)
  BY DEF Block
<1>2. q \in Nat /\ q <= e /\ \A k \in q .. e : k \in b + 1 .. e
  OBVIOUS
<1>3. \A k \in b + 1 .. q - 1 : k \in b + 1 .. e
  OBVIOUS
<1>4. MovedAs(p, i, q, e, o2)
  BY <1>1, <1>2, MovedStays
<1>5. Starts(b, q, e, o2)
  BY <1>1, <1>3 DEF Starts
<1>6. QED
  BY <1>1, <1>4, <1>5 DEF Block

(* What Emit writes: the words behind those there are, and the offsets of those  *)
(* that waited.                                                                  *)
LEMMA EmitWrites ==
  ASSUME RInv, cur \in 1 .. Len(code), NEW words \in Seq(Word), NEW place \in Int, Emit(words, place)
  PROVE  /\ program' = program /\ code' = code /\ cur' = cur + 1
         /\ dat' = [dat EXCEPT ![cur] = place] /\ begin' = [begin EXCEPT ![cur] = Len(out)]
         /\ Len(out') = Len(out) + Len(words) /\ Len(words) \in Nat
         /\ \A t \in 1 .. Len(words) : out'[Len(out) + t] = words[t]
         /\ \A k \in 1 .. Len(out) :
              /\ out'[k].op = out[k].op /\ out'[k].low = out[k].low /\ out'[k].reg = out[k].reg
              /\ (\A f \in fmap[cur] : f[1] # k) => out'[k] = out[k]
              /\ (\E f \in fmap[cur] : f[1] = k) =>
                   \E f \in fmap[cur] : f[1] = k /\ out'[k].off = Field(place - (program.rx + k - 1), f[2])
<1>1. /\ out' = ProcessFixMap(out \o words, cur, place) /\ dat' = [dat EXCEPT ![cur] = place]
      /\ cur' = cur + 1 /\ program' = program /\ begin' = [begin EXCEPT ![cur] = Len(out)]
  BY DEF Emit
<1>2. code' = code
  BY <1>1 DEF code
<1>3. out \in Seq(Word) /\ Len(out) \in Nat /\ Len(words) \in Nat
  BY LenProperties DEF RInv, Fine
<1>4. PICK o : o = out \o words
  OBVIOUS
<1>5. /\ o \in Seq(Word) /\ Len(o) = Len(out) + Len(words) /\ DOMAIN o = 1 .. Len(o)
      /\ \A k \in 1 .. Len(out) + Len(words) : o[k] = IF k <= Len(out) THEN out[k] ELSE words[k - Len(out)]
  BY <1>3, <1>4, ConcatProperties, LenProperties
<1>6. \A k \in 1 .. Len(o) : o[k] \in Word
  BY <1>5, ElementOfSeq
<1>. DEFINE Fixes(k) == \E f \in fmap[cur] : f[1] = k
            fix(k) == CHOOSE f \in fmap[cur] : f[1] = k
            w(k) == IF Fixes(k) THEN [o[k] EXCEPT !.off = Field(place - (program.rx + k - 1), fix(k)[2])] ELSE o[k]
<1>7. out' = [k \in 1 .. Len(o) |-> w(k)]
  BY <1>1, <1>4, <1>5 DEF ProcessFixMap
<1>8. \A k \in 1 .. Len(o) : out'[k] = w(k)
  <2>. HIDE DEF w
  <2>1. QED
    BY <1>7
<1>9. Len(out') = Len(o)
  <2>. HIDE DEF w
  <2>1. out' = [k \in 1 .. Len(o) |-> w(k)] /\ Len(o) \in Nat
    BY <1>3, <1>5, <1>7
  <2>2. \A n \in Nat : \A s : s = [k \in 1 .. n |-> w(k)] => Len(s) = n
    OBVIOUS
  <2>3. QED
    BY <2>1, <2>2
<1>10. \A k \in 1 .. Len(o) : Fixes(k) => fix(k) \in fmap[cur] /\ fix(k)[1] = k
  OBVIOUS
<1>11. ASSUME NEW k \in 1 .. Len(out)
       PROVE  /\ out'[k].op = out[k].op /\ out'[k].low = out[k].low /\ out'[k].reg = out[k].reg
              /\ (\A f \in fmap[cur] : f[1] # k) => out'[k] = out[k]
              /\ (\E f \in fmap[cur] : f[1] = k) =>
                   \E f \in fmap[cur] : f[1] = k /\ out'[k].off = Field(place - (program.rx + k - 1), f[2])
  <2>1. k \in 1 .. Len(o) /\ o[k] = out[k]
    BY <1>3, <1>5
  <2>2. out'[k] = w(k) /\ out[k] \in Word
    BY <1>6, <1>8, <2>1
  <2>3. CASE Fixes(k)
    <3>1. PICK g \in fmap[cur] : g = fix(k) /\ g[1] = k
      BY <1>10, <2>1, <2>3
    <3>2. out'[k] = [out[k] EXCEPT !.off = Field(place - (program.rx + k - 1), g[2])]
      BY <2>1, <2>2, <2>3, <3>1
    <3>3. /\ out'[k].off = Field(place - (program.rx + k - 1), g[2])
          /\ out'[k].op = out[k].op /\ out'[k].low = out[k].low /\ out'[k].reg = out[k].reg
      BY <2>2, <3>2 DEF Word
    <3>4. QED
      BY <2>3, <3>1, <3>3
  <2>4. CASE ~Fixes(k)
    BY <2>1, <2>2, <2>4
  <2>5. QED
    BY <2>3, <2>4
<1>12. ASSUME NEW t \in 1 .. Len(words)
       PROVE  out'[Len(out) + t] = words[t]
  <2>1. PICK l \in Nat, m \in Nat : l = Len(out) /\ m = Len(words) /\ Len(o) = l + m
    BY <1>3, <1>5
  <2>2. l + t \in 1 .. l + m /\ ~(l + t <= l) /\ (l + t) - l = t
    BY <2>1
  <2>3. PICK k \in 1 .. Len(o) : k = Len(out) + t /\ ~(k <= Len(out)) /\ k - Len(out) = t
    BY <2>1, <2>2
  <2>4. o[k] = words[t]
    BY <1>5, <2>3
  <2>5. ~Fixes(k)
    <3>1. \A f \in fmap[cur] : f[1] \in 1 .. Len(out)
      BY DEF RInv, FixMapWaits
    <3>2. QED
      BY <1>3, <2>3, <3>1
  <2>6. QED
    BY <1>8, <2>3, <2>4, <2>5
<1>13. QED
  BY <1>1, <1>2, <1>3, <1>5, <1>9, <1>11, <1>12

(* A step leaves the edges of what was made before, and adds one.               *)
LEMMA EmitEdges ==
  ASSUME RInv, cur \in 1 .. Len(code), begin \in [1 .. Len(code) -> Int],
         NEW words \in Seq(Word), NEW place \in Int, Emit(words, place), NEW l
  PROVE  /\ \A j \in 1 .. Len(code) + 1 : j <= cur => Edge(l, j)' = Edge(Len(out), j)
         /\ \A j : j = cur + 1 => Edge(l, j)' = l
         /\ \A j \in 1 .. Len(code) : j < cur =>
              begin'[j] = begin[j] /\ dat'[j] = dat[j] /\ Edge(Len(out), j) = begin[j]
         /\ begin'[cur] = Len(out) /\ dat'[cur] = place
         /\ begin' \in [1 .. Len(code) -> Int]
<1>1. /\ code' = code /\ cur' = cur + 1
      /\ dat' = [dat EXCEPT ![cur] = place] /\ begin' = [begin EXCEPT ![cur] = Len(out)]
  BY EmitWrites
<1>2. Len(code) \in Nat /\ cur \in Int /\ Len(out) \in Int /\ DOMAIN dat = 1 .. Len(code)
  BY StateTypes DEF RInv
<1>3. \A j \in 1 .. Len(code) : j < cur => begin'[j] = begin[j] /\ dat'[j] = dat[j]
  BY <1>1, <1>2
<1>4. begin'[cur] = Len(out) /\ dat'[cur] = place /\ begin' \in [1 .. Len(code) -> Int]
  BY <1>1, <1>2
<1>5. ASSUME NEW j \in 1 .. Len(code) + 1, j <= cur
      PROVE  Edge(l, j)' = Edge(Len(out), j)
  <2>1. Edge(l, j)' = begin'[j]
    BY <1>1, <1>2, <1>5 DEF Edge
  <2>2. CASE j = cur
    BY <1>2, <1>4, <2>1, <2>2 DEF Edge
  <2>3. CASE j # cur
    <3>1. j < cur /\ j <= Len(code) /\ j \in 1 .. Len(code)
      BY <1>2, <1>5, <2>3
    <3>2. QED
      BY <1>3, <2>1, <3>1 DEF Edge
  <2>4. QED
    BY <2>2, <2>3
<1>6. ASSUME NEW j, j = cur + 1
      PROVE  Edge(l, j)' = l
  BY <1>1, <1>2, <1>6 DEF Edge
<1>7. \A j \in 1 .. Len(code) : j < cur => Edge(Len(out), j) = begin[j]
  BY DEF Edge
<1>8. QED
  BY <1>3, <1>4, <1>5, <1>6, <1>7

(* What is laid while words are still moved. *)
Laying == RInv /\ cur \in 1 .. Len(code) /\ Laid(Len(out))

LEMMA LayingTypes ==
  ASSUME Laying
  PROVE  /\ RInv /\ cur \in 1 .. Len(code) /\ begin \in [1 .. Len(code) -> Int]
         /\ Blocks(Len(out)) /\ Ordered(Len(out)) /\ References /\ Awaited(Len(out))
         /\ Len(code) \in Nat \ {0} /\ Len(out) \in Nat /\ code = program.code
         /\ \A j \in 1 .. Len(code) : j < cur =>
              /\ begin[j] \in Nat /\ begin[j] <= Len(out)
              /\ Edge(Len(out), j + 1) \in Nat /\ Edge(Len(out), j + 1) <= Len(out)
<1>1. /\ RInv /\ cur \in 1 .. Len(code) /\ begin \in [1 .. Len(code) -> Int]
      /\ Blocks(Len(out)) /\ Ordered(Len(out)) /\ References /\ Awaited(Len(out))
  BY DEF Laying, Laid
<1>2. Len(code) \in Nat \ {0} /\ Len(out) \in Nat /\ code = program.code
  BY <1>1, StateTypes DEF code
<1>3. ASSUME NEW j \in 1 .. Len(code), j < cur
      PROVE  begin[j] \in Nat /\ begin[j] <= Len(out)
  <2>1. cur \in j .. Len(code) + 1 /\ cur <= cur /\ ~(cur < cur)
    BY <1>1, <1>2, <1>3
  <2>2. Edge(Len(out), cur) = Len(out)
    BY <2>1 DEF Edge
  <2>3. QED
    BY <1>1, <1>3, <2>1, <2>2 DEF Ordered
<1>4. ASSUME NEW j \in 1 .. Len(code), j < cur
      PROVE  Edge(Len(out), j + 1) \in Nat /\ Edge(Len(out), j + 1) <= Len(out)
  <2>1. CASE j + 1 < cur
    <3>1. j + 1 \in 1 .. Len(code) /\ j + 1 < cur
      BY <1>1, <1>2, <2>1
    <3>2. begin[j + 1] \in Nat /\ begin[j + 1] <= Len(out)
      BY <1>3, <3>1
    <3>3. Edge(Len(out), j + 1) = begin[j + 1]
      BY <3>1 DEF Edge
    <3>4. QED
      BY <3>2, <3>3
  <2>2. CASE ~(j + 1 < cur)
    BY <1>2, <2>2 DEF Edge
  <2>3. QED
    BY <2>1, <2>2
<1>5. QED
  BY <1>1, <1>2, <1>3, <1>4

LEMMA EmitKeepsBlocks ==
  ASSUME Laying, NEW words \in Seq(Word), NEW place \in Int, Emit(words, place), NEW l,
         \/ Block(program, cur, Len(out), l, place, out')
         \/ Named(program, cur, Len(out), l, place, out')
         \/ Dropped(program, cur, Len(out), l, place)
  PROVE  Blocks(l)'
<1>1. PICK o, c : o = out' /\ c = code
  OBVIOUS
<1>2. program' = program /\ code' = code /\ cur' = cur + 1
  BY LayingTypes, EmitWrites
<1>3. /\ \A k \in 1 .. Len(out) :
           /\ o[k].op = out[k].op /\ o[k].low = out[k].low /\ o[k].reg = out[k].reg
           /\ (\A f \in fmap[cur] : f[1] # k) => o[k] = out[k]
  BY <1>1, LayingTypes, EmitWrites
<1>4. ASSUME NEW j \in 1 .. Len(code), j < cur
      PROVE  \/ Block(program, j, begin[j], Edge(Len(out), j + 1), dat[j], o)
             \/ Named(program, j, begin[j], Edge(Len(out), j + 1), dat[j], o)
             \/ Dropped(program, j, begin[j], Edge(Len(out), j + 1), dat[j])
  <2>1. PICK b \in Nat, e \in Nat : b = begin[j] /\ e = Edge(Len(out), j + 1) /\ b <= Len(out) /\ e <= Len(out)
    BY <1>4, LayingTypes
  <2>2. \/ Block(program, j, b, e, dat[j], out)
        \/ Named(program, j, b, e, dat[j], out)
        \/ Dropped(program, j, b, e, dat[j])
    BY <1>4, <2>1, LayingTypes DEF Blocks
  <2>3. CASE Block(program, j, b, e, dat[j], out)
    <3>1. ~Refers(program, j)
      BY <2>3, BlockIsNoReference
    <3>2. ASSUME NEW k \in b + 1 .. e
          PROVE  o[k] = out[k]
      <4>1. k \in 1 .. Len(out)
        BY <2>1, LayingTypes
      <4>2. \A f \in fmap[cur] : f[1] # k
        BY <1>4, <2>1, <3>1, <3>2, LayingTypes DEF Awaited
      <4>3. QED
        BY <1>3, <4>1, <4>2
    <3>3. Block(program, j, b, e, dat[j], o)
      BY <2>3, <3>2, BlockStays
    <3>4. QED
      BY <2>1, <3>3
  <2>4. CASE Named(program, j, b, e, dat[j], out)
    <3>1. e = b + 1
      BY <2>4 DEF Named
    <3>2. e \in 1 .. Len(out)
      BY <2>1, <3>1, LayingTypes
    <3>3. o[e].op = out[e].op /\ o[e].low = out[e].low /\ o[e].reg = out[e].reg
      BY <1>3, <3>2
    <3>4. Named(program, j, b, e, dat[j], o)
      BY <2>4, <3>3 DEF Named
    <3>5. QED
      BY <2>1, <3>4
  <2>5. CASE Dropped(program, j, b, e, dat[j])
    BY <2>1, <2>5
  <2>6. QED
    BY <2>2, <2>3, <2>4, <2>5
<1>5. ASSUME NEW j \in 1 .. Len(code), j < cur + 1
      PROVE  \/ Block(program, j, begin'[j], Edge(l, j + 1)', dat'[j], o)
             \/ Named(program, j, begin'[j], Edge(l, j + 1)', dat'[j], o)
             \/ Dropped(program, j, begin'[j], Edge(l, j + 1)', dat'[j])
  <2>1. CASE j = cur
    <3>1. PICK k : k = j + 1
      OBVIOUS
    <3>2. begin'[j] = Len(out) /\ dat'[j] = place /\ Edge(l, k)' = l
      BY <2>1, <3>1, LayingTypes, EmitEdges
    <3>3. QED
      BY <1>1, <2>1, <3>1, <3>2
  <2>2. CASE j # cur
    <3>1. j < cur /\ j + 1 \in 1 .. Len(code) + 1 /\ j + 1 <= cur
      BY <1>5, <2>2, LayingTypes
    <3>2. begin'[j] = begin[j] /\ dat'[j] = dat[j]
      BY <3>1, LayingTypes, EmitEdges
    <3>3. Edge(l, j + 1)' = Edge(Len(out), j + 1)
      BY <3>1, LayingTypes, EmitEdges
    <3>4. QED
      BY <1>4, <3>1, <3>2, <3>3
  <2>3. QED
    BY <2>1, <2>2
<1>6. QED
  BY <1>1, <1>2, <1>5 DEF Blocks

LEMMA EmitKeepsOrder ==
  ASSUME Laying, NEW words \in Seq(Word), NEW place \in Int, Emit(words, place), NEW l \in Nat, l = Len(out'),
         code[cur].op = "prfm" => l = Len(out)
  PROVE  Ordered(l)'
<1>1. program' = program /\ code' = code /\ cur' = cur + 1 /\ l >= Len(out)
  <2>1. program' = program /\ code' = code /\ cur' = cur + 1 /\ l = Len(out) + Len(words) /\ Len(words) \in Nat
    BY LayingTypes, EmitWrites
  <2>2. QED
    BY <2>1, LayingTypes
<1>2. ASSUME NEW j \in 1 .. Len(code), j <= cur
      PROVE  /\ begin'[j] \in Nat /\ begin'[j] <= Len(out)
             /\ (\A m \in j .. cur - 1 : code[m].op = "prfm") => begin'[j] = Len(out)
  <2>1. CASE j = cur
    <3>1. begin'[j] = Len(out)
      BY <2>1, LayingTypes, EmitEdges
    <3>2. QED
      BY <3>1, LayingTypes
  <2>2. CASE j # cur
    <3>1. j < cur
      BY <1>2, <2>2, LayingTypes
    <3>2. begin'[j] = begin[j]
      BY <3>1, LayingTypes, EmitEdges
    <3>3. Edge(Len(out), cur) = Len(out) /\ cur \in j .. Len(code) + 1 /\ cur <= cur
      BY <3>1, LayingTypes DEF Edge
    <3>4. QED
      BY <3>1, <3>2, <3>3, LayingTypes DEF Ordered
  <2>3. QED
    BY <2>1, <2>2
<1>3. ASSUME NEW j \in 1 .. Len(code), NEW k \in j .. Len(code) + 1, j < cur + 1, k <= cur + 1
      PROVE  /\ begin'[j] <= Edge(l, k)'
             /\ (\A m \in j .. k - 1 : code[m].op = "prfm") => begin'[j] = Edge(l, k)'
  <2>1. j <= cur /\ k \in 1 .. Len(code) + 1
    BY <1>3, LayingTypes
  <2>2. CASE k = cur + 1
    <3>1. Edge(l, k)' = l
      BY <2>2, LayingTypes, EmitEdges
    <3>2. begin'[j] <= l
      BY <1>1, <1>2, <2>1, LayingTypes
    <3>3. ASSUME \A m \in j .. k - 1 : code[m].op = "prfm"
          PROVE  begin'[j] = l
      <4>1. cur \in j .. k - 1 /\ \A m \in j .. cur - 1 : m \in j .. k - 1
        BY <2>1, <2>2, LayingTypes
      <4>2. code[cur].op = "prfm" /\ begin'[j] = Len(out)
        BY <1>2, <2>1, <3>3, <4>1
      <4>3. QED
        BY <4>2
    <3>4. QED
      BY <3>1, <3>2, <3>3
  <2>3. CASE k # cur + 1
    <3>1. k <= cur
      BY <1>3, <2>1, <2>3, LayingTypes
    <3>2. Edge(l, k)' = Edge(Len(out), k)
      BY <2>1, <3>1, LayingTypes, EmitEdges
    <3>3. CASE j = cur
      <4>1. k = cur
        BY <3>1, <3>3, LayingTypes
      <4>2. Edge(Len(out), k) = Len(out) /\ begin'[j] = Len(out)
        BY <3>3, <4>1, LayingTypes, EmitEdges DEF Edge
      <4>3. QED
        BY <3>2, <4>2, LayingTypes
    <3>4. CASE j # cur
      <4>1. j < cur
        BY <2>1, <3>4, LayingTypes
      <4>2. begin'[j] = begin[j]
        BY <4>1, LayingTypes, EmitEdges
      <4>3. QED
        BY <3>1, <3>2, <4>1, <4>2, LayingTypes DEF Ordered
    <3>5. QED
      BY <3>3, <3>4
  <2>4. QED
    BY <2>2, <2>3
<1>4. \A j \in 1 .. Len(code) : j < cur + 1 => begin'[j] \in Nat
  BY <1>2, LayingTypes
<1>5. QED
  BY <1>1, <1>3, <1>4 DEF Ordered

LEMMA TargetIsInt ==
  ASSUME RInv, NEW i \in 1 .. Len(code)
  PROVE  /\ Target(program, i) \in Int
         /\ Target(program, i) = Here(i) + Reads(code[i])
         /\ Refers(program, i) => Ref(program, i) \in 1 .. Len(code) /\ Ref(program, i) = RefIndex(Target(program, i))
<1>1. code = program.code
  BY DEF code
<1>2. /\ i \in Int /\ code[i].off \in Int
      /\ Reach14 \in Nat \ {0} /\ Reach19 \in Nat \ {0} /\ program.base \in Int
  <2>1. code[i] \in [op : Kinds, off : Int, low : Int, reg : {0}]
    BY StateTypes
  <2>2. code[i].off \in Int
    BY <2>1
  <2>3. program.base \in Int /\ Len(code) \in Nat
    BY StateTypes
  <2>4. i \in Int
    BY <2>3
  <2>5. QED
    BY <2>2, <2>3, <2>4, ReachTypes
<1>3. PICK off \in Int, op \in {code[i].op} : off = code[i].off /\ op = code[i].op
  BY <1>2
<1>4. Unsigned(off, ReachOf(op)) \in Int
  <2>1. PICK reach \in Nat \ {0} : reach = ReachOf(op)
    BY <1>2 DEF ReachOf
  <2>2. \A a \in Int : \A b \in Nat \ {0} : a % b \in Int
    OBVIOUS
  <2>3. 2 * reach \in Nat \ {0}
    OBVIOUS
  <2>4. QED
    BY <2>1, <2>2, <2>3 DEF Unsigned
<1>5. Reads(code[i]) \in Int
  BY <1>3, <1>4, WidenedIsInt DEF Reads
<1>6. Target(program, i) = Here(i) + Reads(code[i])
  <2>1. Target(program, i) = program.base + i - 1 + Reads(code[i])
    BY <1>1 DEF Target
  <2>2. Here(i) = program.base + i - 1
    BY DEF Here
  <2>3. QED
    BY <2>1, <2>2
<1>7. Target(program, i) \in Int
  BY <1>5, <1>6, StateTypes
<1>8. Refers(program, i) => InRange(Target(program, i))
  BY <1>1 DEF Refers, Inside, InRange
<1>9. Ref(program, i) = RefIndex(Target(program, i))
  BY DEF Ref, RefIndex
<1>10. QED
  BY <1>6, <1>7, <1>8, <1>9, RefIndexIs

LEMMA EmitKeepsReferences ==
  ASSUME Laying, NEW words \in Seq(Word), NEW place \in Int, Emit(words, place),
         \A r \in 1 .. Len(code) : r # cur => fmap[r] \subseteq fmap'[r],
         Refers(program, cur) =>
           IF Ref(program, cur) <= cur
           THEN out'[Len(out) + 1].off =
                  Field(dat'[Ref(program, cur)] - (program.rx + Len(out)), ReachFor(code[cur].op))
           ELSE \E f \in fmap'[Ref(program, cur)] : f[1] = Len(out) + 1
  PROVE  References'
<1>1. program' = program /\ code' = code /\ cur' = cur + 1
  BY LayingTypes, EmitWrites
<1>2. ASSUME NEW j \in 1 .. Len(code), j < cur + 1, Refers(program, j)
      PROVE  IF Ref(program, j) < cur + 1
             THEN out'[begin'[j] + 1].off =
                    Field(dat'[Ref(program, j)] - (program.rx + begin'[j]), ReachFor(code[j].op))
             ELSE \E f \in fmap'[Ref(program, j)] : f[1] = begin'[j] + 1
  <2>1. PICK r \in 1 .. Len(code) : r = Ref(program, j)
    BY <1>2, LayingTypes, TargetIsInt
  <2>2. CASE j = cur
    <3>1. begin'[j] = Len(out)
      BY <2>2, LayingTypes, EmitEdges
    <3>2. r < cur + 1 <=> r <= cur
      BY LayingTypes
    <3>3. QED
      BY <1>2, <2>1, <2>2, <3>1, <3>2
  <2>3. CASE j # cur
    <3>1. j < cur
      BY <1>2, <2>3, LayingTypes
    <3>2. PICK b \in Nat : b = begin[j] /\ b = begin'[j]
      BY <3>1, LayingTypes, EmitEdges
    <3>3. Named(program, j, b, Edge(Len(out), j + 1), dat[j], out)
      <4>1. Waiting \cap {"prfm"} = {}
        BY DEF Waiting
      <4>2. ~Dropped(program, j, b, Edge(Len(out), j + 1), dat[j])
        BY <1>2, <4>1 DEF Dropped, Refers
      <4>3. ~Block(program, j, b, Edge(Len(out), j + 1), dat[j], out)
        BY <1>2, BlockIsNoReference
      <4>4. QED
        BY <3>1, <3>2, <4>2, <4>3, LayingTypes DEF Blocks
    <3>4. PICK k : k = b + 1 /\ k \in b + 1 .. Edge(Len(out), j + 1) /\ k \in 1 .. Len(out) /\ out[k].op = code[j].op
      <4>1. Edge(Len(out), j + 1) = b + 1 /\ Edge(Len(out), j + 1) <= Len(out) /\ Len(out) \in Nat
        BY <3>1, <3>3, LayingTypes DEF Named
      <4>2. out[b + 1].op = code[j].op
        BY <3>3, <4>1, LayingTypes DEF Named
      <4>3. QED
        BY <4>1, <4>2
    <3>5. \A s \in 1 .. Len(code) : \A f \in fmap[s] : f[1] = k => s = r /\ f[2] = ReachFor(out[k].op)
      <4>1. Awaited(Len(out)) /\ Len(code) \in Nat
        BY LayingTypes
      <4>2. k \in begin[j] + 1 .. Edge(Len(out), j + 1) /\ j < cur
        BY <3>1, <3>2, <3>4
      <4>3. ASSUME NEW s \in 1 .. Len(code), NEW f \in fmap[s], f[1] = k
            PROVE  s = r /\ f[2] = ReachFor(out[k].op)
        <5>1. f[1] \in begin[j] + 1 .. Edge(Len(out), j + 1) /\ f[2] = ReachFor(out[f[1]].op)
          BY <4>1, <4>2, <4>3 DEF Awaited
        <5>2. Ref(program, j) = s
          BY <4>1, <4>2, <5>1 DEF Awaited
        <5>3. QED
          BY <2>1, <4>3, <5>1, <5>2
      <4>4. QED
        BY <4>3
    <3>6. CASE r < cur
      <4>1. out[k].off = Field(dat[r] - (program.rx + b), ReachFor(code[j].op))
        BY <1>2, <2>1, <3>1, <3>2, <3>4, <3>6, LayingTypes DEF References
      <4>2. \A f \in fmap[cur] : f[1] # k
        BY <3>5, <3>6, LayingTypes
      <4>3. out'[k] = out[k]
        BY <3>4, <4>2, LayingTypes, EmitWrites
      <4>4. dat'[r] = dat[r]
        BY <3>6, LayingTypes, EmitEdges
      <4>5. r < cur + 1
        BY <3>6, LayingTypes
      <4>6. QED
        BY <2>1, <3>2, <3>4, <4>1, <4>3, <4>4, <4>5
    <3>7. ASSUME ~(r < cur)
          PROVE  \E f \in fmap[r] : f[1] = k
      BY <1>2, <2>1, <3>1, <3>2, <3>4, <3>7, LayingTypes DEF References
    <3>8. CASE r = cur
      <4>1. \E f \in fmap[cur] : f[1] = k
        BY <3>7, <3>8, LayingTypes
      <4>2. PICK f \in fmap[cur] : f[1] = k /\ out'[k].off = Field(place - (program.rx + k - 1), f[2])
        BY <3>4, <4>1, LayingTypes, EmitWrites
      <4>3. f[2] = ReachFor(code[j].op)
        BY <3>4, <3>5, <4>2, LayingTypes
      <4>4. program.rx + k - 1 = program.rx + b
        <5>1. PICK rx \in Int : rx = program.rx
          BY LayingTypes, StateTypes
        <5>2. rx + (b + 1) - 1 = rx + b
          OBVIOUS
        <5>3. QED
          BY <3>4, <5>1, <5>2
      <4>5. dat'[r] = place /\ r < cur + 1
        <5>1. dat'[r] = place
          BY <3>8, LayingTypes, EmitEdges
        <5>2. r < cur + 1
          BY <3>8, LayingTypes
        <5>3. QED
          BY <5>1, <5>2
      <4>6. QED
        BY <2>1, <3>2, <3>4, <4>2, <4>3, <4>4, <4>5
    <3>9. CASE r # cur /\ ~(r < cur)
      <4>1. \E f \in fmap'[r] : f[1] = k
        BY <3>7, <3>9
      <4>2. ~(r < cur + 1)
        BY <3>9, LayingTypes
      <4>3. QED
        BY <2>1, <3>2, <3>4, <4>1, <4>2
    <3>10. QED
      BY <3>6, <3>8, <3>9
  <2>4. QED
    BY <2>2, <2>3
<1>3. QED
  BY <1>1, <1>2 DEF References

LEMMA EmitKeepsAwaited ==
  ASSUME Laying, NEW words \in Seq(Word), NEW place \in Int, Emit(words, place), NEW l,
         fmap'[cur] = {},
         \A r \in 1 .. Len(code) : \A f \in fmap'[r] :
           \/ f \in fmap[r]
           \/ /\ r > cur /\ f = <<Len(out) + 1, ReachFor(code[cur].op)>>
              /\ Refers(program, cur) /\ Ref(program, cur) = r
              /\ out'[Len(out) + 1].op = code[cur].op
  PROVE  Awaited(l)'
<1>1. program' = program /\ code' = code /\ cur' = cur + 1
  BY LayingTypes, EmitWrites
<1>2. ASSUME NEW r \in 1 .. Len(code), NEW f \in fmap'[r]
      PROVE  /\ r >= cur + 1 /\ f[2] = ReachFor(out'[f[1]].op)
             /\ \A j \in 1 .. Len(code) : j < cur + 1 /\ f[1] \in begin'[j] + 1 .. Edge(l, j + 1)' =>
                  Refers(program, j) /\ Ref(program, j) = r /\ f[1] = begin'[j] + 1
  <2>1. CASE f \in fmap[r]
    <3>1. r >= cur /\ r # cur /\ f[1] \in 1 .. Len(out) /\ f[2] = ReachFor(out[f[1]].op)
      BY <1>2, <2>1, LayingTypes DEF Awaited, RInv, FixMapWaits
    <3>2. out'[f[1]].op = out[f[1]].op
      BY <3>1, LayingTypes, EmitWrites
    <3>3. ASSUME NEW j \in 1 .. Len(code), j < cur + 1, f[1] \in begin'[j] + 1 .. Edge(l, j + 1)'
          PROVE  Refers(program, j) /\ Ref(program, j) = r /\ f[1] = begin'[j] + 1
      <4>1. CASE j = cur
        <5>1. begin'[j] = Len(out)
          BY <4>1, LayingTypes, EmitEdges
        <5>2. QED
          BY <3>1, <3>3, <5>1, LayingTypes
      <4>2. CASE j # cur
        <5>1. j < cur /\ j + 1 \in 1 .. Len(code) + 1 /\ j + 1 <= cur
          BY <3>3, <4>2, LayingTypes
        <5>2. begin'[j] = begin[j] /\ Edge(l, j + 1)' = Edge(Len(out), j + 1)
          BY <5>1, LayingTypes, EmitEdges
        <5>3. QED
          BY <2>1, <3>3, <5>1, <5>2, LayingTypes DEF Awaited
      <4>3. QED
        BY <4>1, <4>2
    <3>4. r >= cur + 1
      BY <3>1, LayingTypes
    <3>5. QED
      BY <3>1, <3>2, <3>3, <3>4
  <2>2. CASE /\ r > cur /\ f = <<Len(out) + 1, ReachFor(code[cur].op)>>
             /\ Refers(program, cur) /\ Ref(program, cur) = r
             /\ out'[Len(out) + 1].op = code[cur].op
    <3>1. f[1] = Len(out) + 1 /\ f[2] = ReachFor(out'[f[1]].op) /\ r >= cur + 1
      BY <2>2, LayingTypes
    <3>2. ASSUME NEW j \in 1 .. Len(code), j < cur + 1, f[1] \in begin'[j] + 1 .. Edge(l, j + 1)'
          PROVE  Refers(program, j) /\ Ref(program, j) = r /\ f[1] = begin'[j] + 1
      <4>1. CASE j = cur
        <5>1. begin'[j] = Len(out)
          BY <4>1, LayingTypes, EmitEdges
        <5>2. QED
          BY <2>2, <3>1, <4>1, <5>1
      <4>2. CASE j # cur
        <5>1. j < cur /\ j + 1 \in 1 .. Len(code) + 1 /\ j + 1 <= cur
          BY <3>2, <4>2, LayingTypes
        <5>2. PICK b \in Nat, e \in Nat :
                /\ b = begin[j] /\ e = Edge(Len(out), j + 1) /\ e <= Len(out)
          BY <5>1, LayingTypes
        <5>3. begin'[j] = b /\ Edge(l, j + 1)' = e
          BY <5>1, <5>2, LayingTypes, EmitEdges
        <5>4. Len(out) + 1 \in b + 1 .. e
          BY <3>1, <3>2, <5>3
        <5>5. QED
          BY <5>2, <5>4, LayingTypes
      <4>3. QED
        BY <4>1, <4>2
    <3>3. QED
      BY <3>1, <3>2
  <2>3. QED
    BY <1>2, <2>1, <2>2
<1>3. QED
  BY <1>1, <1>2 DEF Awaited

LEMMA EmitLays ==
  ASSUME Laying, NEW words \in Seq(Word), NEW place \in Int, Emit(words, place), NEW l, l = Len(out'),
         \/ Block(program, cur, Len(out), l, place, out')
         \/ Named(program, cur, Len(out), l, place, out')
         \/ Dropped(program, cur, Len(out), l, place),
         fmap'[cur] = {},
         \A r \in 1 .. Len(code) : r # cur => fmap[r] \subseteq fmap'[r],
         \A r \in 1 .. Len(code) : \A f \in fmap'[r] :
           \/ f \in fmap[r]
           \/ /\ r > cur /\ f = <<Len(out) + 1, ReachFor(code[cur].op)>>
              /\ Refers(program, cur) /\ Ref(program, cur) = r
              /\ out'[Len(out) + 1].op = code[cur].op,
         Refers(program, cur) =>
           IF Ref(program, cur) <= cur
           THEN out'[Len(out) + 1].off =
                  Field(dat'[Ref(program, cur)] - (program.rx + Len(out)), ReachFor(code[cur].op))
           ELSE \E f \in fmap'[Ref(program, cur)] : f[1] = Len(out) + 1
  PROVE  MInv'
<1>1. /\ program' = program /\ code' = code /\ cur' = cur + 1
      /\ Len(out') = Len(out) + Len(words) /\ Len(words) \in Nat
  BY LayingTypes, EmitWrites
<1>2. l \in Nat /\ l \in 0 .. Len(out') /\ cur' <= Len(code') + 1
  BY <1>1, LayingTypes
<1>3. code[cur].op = "prfm" => l = Len(out)
  <2>1. code[cur].op = "prfm" => ~Block(program, cur, Len(out), l, place, out')
    BY BlockIsNoReference, LayingTypes
  <2>2. code[cur].op = "prfm" => ~Named(program, cur, Len(out), l, place, out')
    BY LayingTypes DEF Named, Refers, Waiting
  <2>3. QED
    BY <2>1, <2>2 DEF Dropped
<1>4. begin' \in [1 .. Len(code') -> Int]
  BY <1>1, LayingTypes, EmitEdges
<1>5. Blocks(l)'
  BY EmitKeepsBlocks
<1>6. Ordered(l)'
  BY <1>2, <1>3, EmitKeepsOrder
<1>7. References'
  BY EmitKeepsReferences
<1>8. Awaited(l)'
  BY EmitKeepsAwaited
<1>9. Laid(l)'
  BY <1>2, <1>4, <1>5, <1>6, <1>7, <1>8 DEF Laid
<1>10. QED
  BY <1>2, <1>9 DEF MInv

-----------------------------------------------------------------------------
(* What each way of writing a word lays. *)

(* So many nops, and s behind them, which begins with an instruction.            *)
Behind(words, pad, s) ==
  /\ words \in Seq(Word) /\ pad \in Nat /\ Len(s) \in Nat \ {0} /\ Len(words) = pad + Len(s)
  /\ \A k \in 1 .. pad : words[k].op = "nop"
  /\ \A k \in 1 .. Len(s) : words[pad + k] = s[k]
  /\ s[1].op # "nop"

LEMMA NopsAre ==
  ASSUME NEW pad \in Nat
  PROVE  Nops(pad) \in Seq(Word) /\ Len(Nops(pad)) = pad /\ \A k \in 1 .. pad : Nops(pad)[k].op = "nop"
<1>1. "nop" \in Written /\ 0 \in Int
  BY DEF Written
<1>2. NopWord \in Word /\ NopWord.op = "nop"
  BY <1>1, IIsAWord DEF NopWord
<1>3. QED
  BY <1>2 DEF Nops

Joint(w, s, t) ==
  /\ w \in Seq(Word) /\ Len(w) = Len(s) + Len(t)
  /\ \A k \in 1 .. Len(s) : w[k] = s[k]
  /\ \A k \in 1 .. Len(t) : w[Len(s) + k] = t[k]

LEMMA JoinedWords ==
  ASSUME NEW s \in Seq(Word), NEW t \in Seq(Word)
  PROVE  Joint(s \o t, s, t)
<1>. PICK w, n, m : w = s \o t /\ n = Len(s) /\ m = Len(t)
  OBVIOUS
<1>1. n \in Nat /\ m \in Nat
  BY LenProperties
<1>2. w \in Seq(Word) /\ Len(w) = Len(s) + Len(t)
  BY ConcatProperties
<1>3. \A k \in 1 .. Len(s) + Len(t) : w[k] = IF k <= Len(s) THEN s[k] ELSE t[k - Len(s)]
  BY ConcatProperties
<1>4. ASSUME NEW k \in 1 .. n
      PROVE  w[k] = s[k]
  <2>1. k \in 1 .. n + m /\ k <= n
    BY <1>1
  <2>2. QED
    BY <1>3, <2>1
<1>5. ASSUME NEW k \in 1 .. m
      PROVE  w[n + k] = t[k]
  <2>1. n + k \in 1 .. n + m /\ ~(n + k <= n) /\ (n + k) - n = k
    BY <1>1
  <2>2. QED
    BY <1>3, <2>1
<1>6. QED
  BY <1>2, <1>4, <1>5 DEF Joint

LEMMA BehindNops ==
  ASSUME NEW pad \in Nat, NEW s \in Seq(Word), Len(s) \in Nat \ {0}, s[1].op # "nop",
         NEW words, words = Nops(pad) \o s
  PROVE  Behind(words, pad, s)
<1>1. Nops(pad) \in Seq(Word) /\ Len(Nops(pad)) = pad /\ \A k \in 1 .. pad : Nops(pad)[k].op = "nop"
  BY NopsAre
<1>2. PICK nops : nops = Nops(pad) /\ nops \in Seq(Word) /\ pad = Len(nops) /\ words = nops \o s
  BY <1>1
<1>3. PICK n : n = Len(s)
  OBVIOUS
<1>4. /\ words \in Seq(Word) /\ Len(words) = pad + n
      /\ \A k \in 1 .. pad : words[k] = nops[k]
      /\ \A k \in 1 .. n : words[pad + k] = s[k]
  <2>1. Joint(words, nops, s)
    BY <1>2, JoinedWords, Zenon
  <2>2. QED
    BY <1>2, <1>3, <2>1 DEF Joint
<1>5. QED
  BY <1>1, <1>2, <1>3, <1>4 DEF Behind

LEMMA BehindNone ==
  ASSUME NEW w \in Word, w.op # "nop"
  PROVE  Behind(<<w>>, 0, <<w>>) /\ Len(<<w>>) = 1 /\ <<w>>[1] = w
<1>1. <<w>> \in Seq(Word) /\ Len(<<w>>) = 1 /\ <<w>>[1] = w
  OBVIOUS
<1>2. \A k \in 1 .. 1 : k = 1 /\ 0 + k = 1
  OBVIOUS
<1>3. QED
  BY <1>1, <1>2 DEF Behind

(* A jump and its address behind nops. *)
Carries(words, pad, t, s, n, a, low) ==
  /\ Behind(words, pad, t) /\ Len(t) = n + 2
  /\ \A k \in 1 .. n : t[k] = s[k]
  /\ t[n + 1].off = a /\ t[n + 1].low = low

LEMMA BehindFar ==
  ASSUME NEW pad \in Nat, NEW n \in Nat \ {0}, NEW s, Jump(s, n), s[1].op # "nop", NEW a \in Int, NEW low \in Int,
         NEW words, words = Nops(pad) \o s \o Address(a, low)
  PROVE  \E t : Carries(words, pad, t, s, n, a, low)
<1>1. s \in Seq(Word) /\ Len(s) = n
  BY DEF Jump
<1>2. PICK w, v : w = [I("address", a) EXCEPT !.low = low] /\ v = I("upperHalf", a)
  OBVIOUS
<1>3. w \in Word /\ v \in Word /\ w.off = a /\ w.low = low
  BY <1>2 DEF I, Word, Written
<1>4. PICK u : u = <<w, v>>
  OBVIOUS
<1>5. u = Address(a, low) /\ u \in Seq(Word) /\ Len(u) = 2 /\ u[1] = w
  BY <1>2, <1>3, <1>4 DEF Address
<1>6. PICK t : t = s \o u
  OBVIOUS
<1>7. Joint(t, s, u)
  BY <1>1, <1>5, <1>6, JoinedWords, Zenon
<1>8. /\ t \in Seq(Word) /\ Len(t) = n + 2
      /\ \A k \in 1 .. n : t[k] = s[k]
      /\ \A k \in 1 .. 2 : t[n + k] = u[k]
  BY <1>1, <1>5, <1>7 DEF Joint
<1>9. t[n + 1] = w
  BY <1>5, <1>8
<1>10. words = Nops(pad) \o t
  <2>1. Nops(pad) \in Seq(Word)
    BY NopsAre
  <2>2. \A x, y, z \in Seq(Word) : (x \o y) \o z = x \o (y \o z)
    BY ConcatAssociative
  <2>3. (Nops(pad) \o s) \o u = Nops(pad) \o (s \o u)
    BY <1>1, <1>5, <2>1, <2>2, Zenon
  <2>4. QED
    BY <1>5, <1>6, <2>3
<1>11. t[1].op # "nop" /\ Len(t) \in Nat \ {0}
  BY <1>8
<1>12. Behind(words, pad, t)
  BY <1>8, <1>10, <1>11, BehindNops
<1>13. Carries(words, pad, t, s, n, a, low)
  BY <1>3, <1>8, <1>9, <1>12 DEF Carries
<1>14. QED
  BY <1>13

(* Behind b words of o come nops up to q, and s there, to the l-th. *)
Begun(b, q, l, s, o) ==
  /\ q \in Nat /\ l \in Nat /\ l + 1 = q + Len(s)
  /\ Starts(b, q, l, o)
  /\ \A k \in 1 .. Len(s) : o[q + k - 1] = s[k]
  /\ o[q] = s[1]

LEMMA EmitStarts ==
  ASSUME Laying, NEW words, NEW pad, NEW s, Behind(words, pad, s), NEW place \in Int, Emit(words, place),
         NEW q, q = Len(out) + pad + 1
  PROVE  Begun(Len(out), q, Len(out'), s, out')
<1>. PICK l : l = Len(out')
  OBVIOUS
<1>1. /\ words \in Seq(Word) /\ pad \in Nat /\ Len(s) \in Nat \ {0} /\ Len(words) = pad + Len(s)
      /\ \A k \in 1 .. pad : words[k].op = "nop"
      /\ \A k \in 1 .. Len(s) : words[pad + k] = s[k]
      /\ s[1].op # "nop"
  BY DEF Behind
<1>2. PICK b \in Nat, n \in Nat \ {0} : b = Len(out) /\ n = Len(s)
  BY <1>1, LayingTypes
<1>3. PICK m \in Nat : m = pad /\ Len(words) = m + n
  BY <1>1, <1>2
<1>4. l = b + (m + n) /\ \A t \in 1 .. m + n : out'[b + t] = words[t]
  <2>1. /\ Len(out') = Len(out) + Len(words)
        /\ \A t \in 1 .. Len(words) : out'[Len(out) + t] = words[t]
    BY <1>1, LayingTypes, EmitWrites
  <2>2. QED
    BY <1>2, <1>3, <2>1
<1>5. q = b + m + 1
  BY <1>2, <1>3
<1>6. q \in Nat /\ l \in Nat /\ l + 1 = q + n /\ q \in b + 1 .. l
  <2>1. l = b + (m + n)
    BY <1>4
  <2>2. QED
    BY <1>5, <2>1
<1>7. ASSUME NEW k \in 1 .. n
      PROVE  out'[q + k - 1] = s[k]
  <2>1. m + k \in 1 .. m + n /\ b + (m + k) = q + k - 1
    BY <1>5
  <2>2. QED
    BY <1>1, <1>2, <1>3, <1>4, <2>1
<1>8. out'[q] = s[1]
  <2>1. PICK k \in 1 .. n : k = 1 /\ q + k - 1 = q
    BY <1>6
  <2>2. QED
    BY <1>7, <2>1
<1>9. ASSUME NEW k \in b + 1 .. q - 1
      PROVE  out'[k].op = "nop"
  <2>1. PICK t \in 1 .. m : b + t = k /\ t \in 1 .. m + n
    <3>1. k - b \in 1 .. m /\ b + (k - b) = k /\ k - b \in 1 .. m + n
      BY <1>5
    <3>2. QED
      BY <3>1
  <2>2. QED
    BY <1>1, <1>3, <1>4, <2>1
<1>10. Starts(b, q, l, out')
  BY <1>1, <1>6, <1>8, <1>9 DEF Starts
<1>11. QED
  BY <1>2, <1>6, <1>7, <1>8, <1>10 DEF Begun

(* Words that name no word of the function. *)
LEMMA EmitMoved ==
  ASSUME Laying, NEW words \in Seq(Word), NEW place \in Int, Emit(words, place), NoWait, NEW l, l = Len(out'),
         NEW q \in Nat, Starts(Len(out), q, l, out'), MovedAs(program, cur, q, l, out'),
         place \in program.rx + Len(out) .. program.rx + q - 1 \/ (code[cur].op = "adrp" /\ place >= program.rw)
  PROVE  MInv'
<1>1. ~Refers(program, cur)
  BY MovedIsNoReference
<1>2. fmap' = [fmap EXCEPT ![cur] = {}] /\ DOMAIN fmap = 1 .. Len(code)
  BY LayingTypes DEF NoWait, RInv, FixMapWaits
<1>3. fmap'[cur] = {} /\ \A r \in 1 .. Len(code) : r # cur => fmap'[r] = fmap[r]
  BY <1>2, LayingTypes
<1>4. Block(program, cur, Len(out), l, place, out')
  <2>1. q \in Len(out) + 1 .. l /\ program.code = code
    BY DEF Starts, code
  <2>2. QED
    BY <2>1 DEF Block
<1>5. \A r \in 1 .. Len(code) : r # cur => fmap[r] \subseteq fmap'[r]
  BY <1>3
<1>6. \A r \in 1 .. Len(code) : \A f \in fmap'[r] : f \in fmap[r]
  BY <1>3
<1>7. QED
  BY <1>1, <1>3, <1>4, <1>5, <1>6, EmitLays

(* A word that names one. *)
LEMMA EmitReferenceLays ==
  ASSUME Laying, Refers(program, cur), NEW ref, ref = Ref(program, cur),
         EmitReference(code[cur], ref, ReachFor(code[cur].op))
  PROVE  MInv'
<1>1. PICK w \in Word : w = code[cur]
  BY LayingTypes, MovedWord
<1>2. ref \in 1 .. Len(code) /\ cur \in 1 .. Len(code) /\ Len(code) \in Nat /\ Len(out) \in Nat
  BY LayingTypes, TargetIsInt
<1>3. PICK reach \in Nat \ {0} : reach = ReachFor(code[cur].op)
  BY ReachTypes DEF ReachFor
<1>4. Outrx \in Int /\ Outrx = program.rx + Len(out) /\ program.rx \in Int
  BY LayingTypes, StateTypes
<1>5. dat \in [1 .. Len(code) -> Int] /\ DOMAIN fmap = 1 .. Len(code)
  BY LayingTypes DEF RInv, FixMapWaits
<1>6. ASSUME NEW off \in Int, NEW words, words = <<[w EXCEPT !.off = off]>>, Emit(words, Outrx),
             NEW l, l = Len(out')
      PROVE  /\ words \in Seq(Word) /\ Named(program, cur, Len(out), l, Outrx, out')
             /\ out'[Len(out) + 1].off = off /\ out'[Len(out) + 1].op = code[cur].op
  <2>1. PICK v : v = [w EXCEPT !.off = off]
    OBVIOUS
  <2>2. v \in Word /\ v.op = w.op /\ v.low = w.low /\ v.reg = w.reg /\ v.off = off
    BY <2>1 DEF Word
  <2>3. words \in Seq(Word) /\ Len(words) = 1 /\ words[1] = v
    BY <1>6, <2>1, <2>2
  <2>4. l = Len(out) + 1 /\ out'[Len(out) + 1] = v
    <3>1. Len(out') = Len(out) + Len(words) /\ \A t \in 1 .. Len(words) : out'[Len(out) + t] = words[t]
      BY <1>4, <1>6, <2>3, LayingTypes, EmitWrites
    <3>2. 1 \in 1 .. Len(words)
      BY <2>3
    <3>3. QED
      BY <1>6, <2>3, <3>1, <3>2
  <2>5. program.code = code
    BY DEF code
  <2>6. Named(program, cur, Len(out), l, Outrx, out')
    BY <1>1, <1>4, <2>2, <2>4, <2>5 DEF Named
  <2>7. QED
    BY <1>1, <2>2, <2>3, <2>4, <2>6
<1>7. PICK l : l = Len(out')
  OBVIOUS
<1>8. CASE ref <= cur
  <2>1. PICK to \in Int : to = IF ref = cur THEN Outrx ELSE dat[ref]
    BY <1>2, <1>4, <1>5
  <2>2. PICK off \in Int : off = Field(to - Outrx, reach)
    <3>1. to - Outrx \in Int
      BY <1>4
    <3>2. QED
      BY <3>1, FieldIsInt
  <2>3. PICK words : words = <<[w EXCEPT !.off = off]>>
    OBVIOUS
  <2>4. Emit(words, Outrx) /\ NoWait
    BY <1>1, <1>3, <1>8, <2>1, <2>2, <2>3 DEF EmitReference
  <2>5. /\ words \in Seq(Word) /\ Named(program, cur, Len(out), l, Outrx, out')
        /\ out'[Len(out) + 1].off = off
    BY <1>6, <1>7, <2>3, <2>4
  <2>6. fmap'[cur] = {} /\ \A r \in 1 .. Len(code) : r # cur => fmap'[r] = fmap[r]
    BY <1>2, <1>5, <2>4 DEF NoWait
  <2>7. dat'[ref] = to
    <3>1. dat' = [dat EXCEPT ![cur] = Outrx]
      BY <1>4, <2>4, <2>5, LayingTypes, EmitWrites
    <3>2. QED
      BY <1>2, <1>5, <2>1, <3>1
  <2>8. /\ \A r \in 1 .. Len(code) : r # cur => fmap[r] \subseteq fmap'[r]
        /\ \A r \in 1 .. Len(code) : \A f \in fmap'[r] : f \in fmap[r]
    BY <2>6
  <2>9. out'[Len(out) + 1].off = Field(dat'[Ref(program, cur)] - (program.rx + Len(out)), ReachFor(code[cur].op))
    BY <1>3, <1>4, <2>2, <2>5, <2>7
  <2>10. QED
    BY <1>4, <1>7, <1>8, <2>4, <2>5, <2>6, <2>8, <2>9, EmitLays
<1>9. CASE ~(ref <= cur)
  <2>1. PICK words : words = <<[w EXCEPT !.off = 0]>>
    OBVIOUS
  <2>2. /\ Emit(words, Outrx)
        /\ fmap' = [fmap EXCEPT ![cur] = {}, ![ref] = @ \cup {<<Len(out) + 1, reach>>}]
    BY <1>1, <1>3, <1>9, <2>1 DEF EmitReference
  <2>3. 0 \in Int
    OBVIOUS
  <2>4. /\ words \in Seq(Word) /\ Named(program, cur, Len(out), l, Outrx, out')
        /\ out'[Len(out) + 1].op = code[cur].op
    BY <1>6, <1>7, <2>1, <2>2, <2>3
  <2>5. ref # cur /\ ref > cur
    BY <1>2, <1>9
  <2>6. /\ fmap'[cur] = {} /\ fmap'[ref] = fmap[ref] \cup {<<Len(out) + 1, reach>>}
        /\ \A r \in 1 .. Len(code) : r # cur /\ r # ref => fmap'[r] = fmap[r]
    BY <1>2, <1>5, <2>2, <2>5
  <2>7. \A r \in 1 .. Len(code) : r # cur => fmap[r] \subseteq fmap'[r]
    BY <2>6
  <2>8. ASSUME NEW r \in 1 .. Len(code), NEW f \in fmap'[r]
        PROVE  \/ f \in fmap[r]
               \/ /\ r > cur /\ f = <<Len(out) + 1, ReachFor(code[cur].op)>>
                  /\ Refers(program, cur) /\ Ref(program, cur) = r
                  /\ out'[Len(out) + 1].op = code[cur].op
    <3>1. CASE r = ref
      BY <1>3, <2>4, <2>5, <2>6, <3>1
    <3>2. CASE r # ref
      BY <2>6, <3>2
    <3>3. QED
      BY <3>1, <3>2
  <2>9. \E f \in fmap'[Ref(program, cur)] : f[1] = Len(out) + 1
    <3>1. <<Len(out) + 1, reach>> \in fmap'[ref] /\ <<Len(out) + 1, reach>>[1] = Len(out) + 1
      BY <2>6
    <3>2. QED
      BY <3>1
  <2>10. QED
    BY <1>4, <1>7, <1>9, <2>2, <2>4, <2>6, <2>7, <2>8, <2>9, EmitLays
<1>10. QED
  BY <1>8, <1>9

(* A jump and its address, laid behind nops. *)
FarWords(words, place, s, n, a, low) ==
  /\ n \in {2, 3, 4} /\ Jump(s, n) /\ s[1].op # "nop" /\ a \in Int /\ low \in Int
  /\ words = Nops(Pad(n, 2)) \o s \o Address(a, low)
  /\ place \in {Outrx, Outrx + Pad(n, 2), Outrw}
  /\ Emit(words, place)

FarLaid(place, s, n, a, low, q, l, o) ==
  /\ Starts(Len(out), q, l, o) /\ l = q + n + 1
  /\ \A k \in 1 .. n : o[q + k - 1] = s[k]
  /\ o[q + n].off = a /\ o[q + n].low = low
  /\ place \in {Outrx, Outrx + Pad(n, 2)} => place \in program.rx + Len(out) .. program.rx + q - 1

LEMMA FarIsLaid ==
  ASSUME Laying, NEW words, NEW place, NEW s, NEW n, NEW a, NEW low, FarWords(words, place, s, n, a, low)
  PROVE  /\ words \in Seq(Word) /\ place \in Int
         /\ \E q \in Nat : FarLaid(place, s, n, a, low, q, Len(out'), out')
<1>. PICK l, pad : l = Len(out') /\ pad = Pad(n, 2)
  OBVIOUS
<1>1. /\ program.rx \in Int /\ Len(out) \in Nat /\ Outrx \in Int /\ Outrw \in Int
      /\ Outrx = program.rx + Len(out)
  BY LayingTypes, StateTypes
<1>2. n \in Nat \ {0} /\ place \in {Outrx, Outrx + pad, Outrw} /\ words = Nops(pad) \o s \o Address(a, low)
  BY DEF FarWords
<1>3. pad \in {0, 1}
  <2>1. PadsEven(program, Len(out), n, pad)
    BY <1>1, <1>2, LayingTypes, PadIsEven
  <2>2. QED
    BY <2>1 DEF PadsEven
<1>4. pad \in Nat
  BY <1>3
<1>5. place \in Int
  BY <1>1, <1>2, <1>4
<1>6. PICK t : /\ Behind(words, pad, t) /\ Len(t) = n + 2
               /\ \A k \in 1 .. n : t[k] = s[k]
               /\ t[n + 1].off = a /\ t[n + 1].low = low
  <2>1. Jump(s, n) /\ s[1].op # "nop" /\ a \in Int /\ low \in Int
    BY DEF FarWords
  <2>2. \E t : Carries(words, pad, t, s, n, a, low)
    BY <1>2, <1>4, <2>1, BehindFar
  <2>3. QED
    BY <2>2 DEF Carries
<1>7. PICK q : q = Len(out) + pad + 1
  OBVIOUS
<1>8. Begun(Len(out), q, l, t, out')
  <2>1. Emit(words, place)
    BY DEF FarWords
  <2>2. QED
    BY <1>5, <1>6, <1>7, <2>1, EmitStarts
<1>9. q \in Nat /\ l = q + n + 1 /\ Starts(Len(out), q, l, out')
  <2>1. q \in Nat /\ l \in Nat /\ l + 1 = q + (n + 2) /\ Starts(Len(out), q, l, out')
    BY <1>6, <1>8 DEF Begun
  <2>2. QED
    BY <1>2, <2>1
<1>10. \A k \in 1 .. n + 2 : out'[q + k - 1] = t[k]
  BY <1>6, <1>8 DEF Begun
<1>11. \A k \in 1 .. n : out'[q + k - 1] = s[k]
  <2>1. \A k \in 1 .. n : k \in 1 .. n + 2
    BY <1>2
  <2>2. QED
    BY <1>6, <1>10, <2>1
<1>12. out'[q + n] = t[n + 1]
  <2>1. n + 1 \in 1 .. n + 2 /\ q + (n + 1) - 1 = q + n
    BY <1>2, <1>9
  <2>2. QED
    BY <1>10, <2>1
<1>13. place \in {Outrx, Outrx + pad} => place \in program.rx + Len(out) .. program.rx + q - 1
  <2>1. PICK rx \in Int, b \in Nat : rx = program.rx /\ b = Len(out)
    BY <1>1
  <2>2. q = b + pad + 1 /\ Outrx = rx + b
    BY <1>1, <1>7, <2>1
  <2>3. rx + b \in rx + b .. rx + q - 1 /\ rx + b + pad \in rx + b .. rx + q - 1
    BY <1>4, <2>2
  <2>4. QED
    BY <2>1, <2>2, <2>3
<1>14. words \in Seq(Word)
  BY <1>6 DEF Behind
<1>15. FarLaid(place, s, n, a, low, q, l, out')
  BY <1>6, <1>9, <1>11, <1>12, <1>13 DEF FarLaid
<1>16. QED
  BY <1>5, <1>9, <1>14, <1>15

LEMMA FarMoves ==
  ASSUME Laying, NEW words, NEW place, NEW s, NEW n, NEW a, NEW low, FarWords(words, place, s, n, a, low), NoWait,
         NEW q \in Nat, NEW l, l = Len(out'), FarLaid(place, s, n, a, low, q, l, out'),
         MovedAs(program, cur, q, l, out'),
         place \in {Outrx, Outrx + Pad(n, 2)} \/ code[cur].op = "adrp"
  PROVE  MInv'
<1>1. words \in Seq(Word) /\ place \in Int
  BY FarIsLaid
<1>2. Emit(words, place) /\ place \in {Outrx, Outrx + Pad(n, 2), Outrw}
  BY DEF FarWords
<1>3. Starts(Len(out), q, l, out')
  BY DEF FarLaid
<1>4. place \in program.rx + Len(out) .. program.rx + q - 1 \/ (code[cur].op = "adrp" /\ place >= program.rw)
  <2>1. CASE place \in {Outrx, Outrx + Pad(n, 2)}
    BY <2>1 DEF FarLaid
  <2>2. CASE place \notin {Outrx, Outrx + Pad(n, 2)}
    <3>. place = Outrw /\ code[cur].op = "adrp"
      BY <1>2, <2>2
    <3>1. Len(out) \in Nat /\ program.rw \in Int
      BY LayingTypes, StateTypes
    <3>2. Outrw = program.rw + Len(out)
      BY DEF Outrw
    <3>3. place >= program.rw
      <4>1. PICK x \in Int, b \in Nat : x = program.rw /\ b = Len(out)
        BY <3>1
      <4>2. place = x + b
        BY <3>2, <4>1
      <4>3. x + b >= x
        OBVIOUS
      <4>4. QED
        BY <4>1, <4>2, <4>3
    <3>4. QED
      BY <3>3
  <2>3. QED
    BY <2>1, <2>2
<1>5. QED
  BY <1>1, <1>2, <1>3, <1>4, EmitMoved

(* A word that is laid as it is. *)
OneLaid(place, w, l, o) ==
  /\ l \in Nat /\ Starts(Len(out), l, l, o) /\ o[l] = w
  /\ Outrx = program.rx + l - 1
  /\ place = Outrx => place \in program.rx + Len(out) .. program.rx + l - 1

LEMMA OneIsLaid ==
  ASSUME Laying, NEW w \in Word, w.op # "nop", NEW place \in {Outrx, Outrw},
         NEW words, words = <<w>>, Emit(words, place)
  PROVE  /\ words \in Seq(Word) /\ place \in Int
         /\ OneLaid(place, w, Len(out'), out')
<1>. PICK l : l = Len(out')
  OBVIOUS
<1>1. PICK rx \in Int, b \in Nat : rx = program.rx /\ b = Len(out) /\ Outrx = rx + b
  BY LayingTypes, StateTypes
<1>2. PICK pad : pad = 0
  OBVIOUS
<1>3. Behind(words, pad, words) /\ Len(words) = 1 /\ words[1] = w
  BY <1>2, BehindNone
<1>4. PICK q : q = Len(out) + pad + 1
  OBVIOUS
<1>5. place \in Int
  BY LayingTypes, StateTypes
<1>6. Begun(Len(out), q, l, words, out')
  BY <1>3, <1>4, <1>5, EmitStarts
<1>7. q \in Nat /\ l \in Nat /\ l + 1 = q + 1 /\ Starts(Len(out), q, l, out') /\ out'[q] = w
  BY <1>3, <1>6 DEF Begun
<1>8. q = l /\ l = b + 1
  <2>1. q = b + 1
    BY <1>1, <1>2, <1>4
  <2>2. QED
    BY <1>7, <2>1
<1>9. rx + b = rx + l - 1 /\ rx + b \in rx + b .. rx + l - 1
  BY <1>8
<1>10. words \in Seq(Word)
  BY <1>3 DEF Behind
<1>11. OneLaid(place, w, l, out')
  BY <1>1, <1>7, <1>8, <1>9 DEF OneLaid
<1>12. QED
  BY <1>5, <1>10, <1>11

(* A branch that reaches out of the trampoline from there as well. *)
LEMMA NearLays ==
  ASSUME Laying, NEW to \in Int, to = Target(program, cur), ~InRange(to),
         code[cur].op \in {"b", "bl", "cbz", "tbz"},
         Emit(<<I(code[cur].op, to - Outrx)>>, Outrx), NoWait
  PROVE  MInv'
<1>1. PICK w, words, l, op : op = code[cur].op /\ w = I(op, to - Outrx) /\ words = <<w>> /\ l = Len(out')
  OBVIOUS
<1>2. to - Outrx \in Int /\ op \in Waiting \cup {"adrx30", "ldrrd"} /\ op # "nop"
  <2>1. Outrx \in Int
    BY LayingTypes, StateTypes
  <2>2. to - Outrx \in Int
    BY <2>1
  <2>3. op \in Waiting \cup {"adrx30", "ldrrd"} /\ op # "nop"
    BY <1>1 DEF Waiting
  <2>4. QED
    BY <2>2, <2>3
<1>3. Plain(w) /\ w.op = op /\ w.off = to - Outrx
  BY <1>1, <1>2, WordsWritten DEF I
<1>4. w \in Word /\ w.op # "nop"
  BY <1>2, <1>3 DEF Plain
<1>5. PICK place : place = Outrx
  OBVIOUS
<1>6. Emit(words, place) /\ place \in {Outrx, Outrw}
  BY <1>1, <1>5
<1>7. words \in Seq(Word) /\ place \in Int /\ OneLaid(place, w, l, out')
  BY <1>1, <1>4, <1>6, OneIsLaid
<1>8. /\ l \in Nat /\ Starts(Len(out), l, l, out') /\ out'[l] = w
      /\ Outrx = program.rx + l - 1
      /\ place \in program.rx + Len(out) .. program.rx + l - 1
  BY <1>5, <1>7 DEF OneLaid
<1>9. BranchesNear(program, cur, l, l, out')
  <2>1. ~Inside(program, to) /\ program.code = code
    BY InsideIs DEF code
  <2>2. QED
    BY <1>1, <1>3, <1>8, <2>1 DEF BranchesNear
<1>10. MovedAs(program, cur, l, l, out')
  BY <1>9 DEF MovedAs
<1>11. QED
  BY <1>1, <1>6, <1>7, <1>8, <1>10, EmitMoved

LEMMA FixBranchLays ==
  ASSUME Laying, FixBranch
  PROVE  MInv'
<1>1. PICK w \in Word : w = code[cur] /\ w.off \in Int /\ w = program.code[cur]
  BY LayingTypes, MovedWord
<1>2. w.op \in {"b", "bl"} /\ w.op \in Waiting /\ w.op # "nop"
  BY <1>1 DEF FixBranch, Waiting
<1>3. PICK to \in Int : to = Here(cur) + w.off
  BY <1>1, LayingTypes, MovedWord
<1>4. to = Target(program, cur) /\ (InRange(to) <=> Inside(program, to))
  <2>1. Target(program, cur) = Here(cur) + Reads(code[cur])
    BY LayingTypes, TargetIsInt
  <2>2. Reads(code[cur]) = w.off
    BY <1>1, <1>2 DEF Reads
  <2>3. QED
    BY <1>3, <2>1, <2>2, InsideIs
<1>5. PICK l : l = Len(out')
  OBVIOUS
<1>6. \/ /\ w.op = "b" /\ ~InRange(to)
         /\ Emit(Nops(Pad(2, 2)) \o <<LdrX17(2), BrX17>> \o Address(to, 0), Outrx + Pad(2, 2)) /\ NoWait
      \/ /\ w.op = "bl" /\ ~InRange(to)
         /\ Emit(Nops(Pad(3, 2)) \o <<LdrX17(3), I("adrx30", 4), BrX17>> \o Address(to, 0), Outrx + Pad(3, 2))
         /\ NoWait
      \/ InRange(to) /\ EmitReference(w, RefIndex(to), Reach26)
      \/ ~InRange(to) /\ Emit(<<I(w.op, to - Outrx)>>, Outrx) /\ NoWait
  BY <1>1, <1>2, <1>3, Zenon DEF FixBranch
<1>7. CASE /\ w.op = "b" /\ ~InRange(to)
           /\ Emit(Nops(Pad(2, 2)) \o <<LdrX17(2), BrX17>> \o Address(to, 0), Outrx + Pad(2, 2)) /\ NoWait
  <2>1. PICK s : s = <<LdrX17(2), BrX17>>
    OBVIOUS
  <2>2. Jump(s, 2) /\ s[1] = LdrX17(2) /\ s[2] = BrX17 /\ s[1].op # "nop"
    BY <2>1, WordsWritten, Two DEF LdrX17, I
  <2>3. PICK n, words, place :
          n = 2 /\ words = Nops(Pad(2, 2)) \o s \o Address(to, 0) /\ place = Outrx + Pad(2, 2)
    OBVIOUS
  <2>4. Emit(words, place) /\ NoWait
    BY <1>7, <2>1, <2>3
  <2>5. FarWords(words, place, s, n, to, 0)
    BY <2>2, <2>3, <2>4 DEF FarWords
  <2>6. words \in Seq(Word) /\ place \in Int
    BY <2>5, FarIsLaid
  <2>7. PICK q \in Nat : FarLaid(place, s, n, to, 0, q, l, out')
    BY <1>5, <2>5, FarIsLaid
  <2>8. JumpsFar(program, cur, q, l, out')
    <3>1. l = q + 3 /\ out'[q + 1 - 1] = LdrX17(2) /\ out'[q + 2 - 1] = BrX17 /\ out'[q + 2].off = to
      BY <2>2, <2>3, <2>7 DEF FarLaid
    <3>2. out'[q] = LdrX17(2) /\ out'[q + 1].op = "brx17"
      BY <3>1 DEF BrX17, I
    <3>3. QED
      BY <1>1, <1>4, <1>7, <3>1, <3>2 DEF JumpsFar
  <2>9. MovedAs(program, cur, q, l, out')
    BY <2>8 DEF MovedAs
  <2>10. place \in {Outrx, Outrx + Pad(n, 2)}
    BY <2>3
  <2>11. QED
    BY <1>5, <2>4, <2>5, <2>7, <2>9, <2>10, FarMoves
<1>8. CASE /\ w.op = "bl" /\ ~InRange(to)
           /\ Emit(Nops(Pad(3, 2)) \o <<LdrX17(3), I("adrx30", 4), BrX17>> \o Address(to, 0), Outrx + Pad(3, 2))
           /\ NoWait
  <2>1. PICK s : s = <<LdrX17(3), I("adrx30", 4), BrX17>>
    OBVIOUS
  <2>2. Jump(s, 3) /\ s[1] = LdrX17(3) /\ s[2] = I("adrx30", 4) /\ s[1].op # "nop"
    BY <2>1, WordsWritten, Three DEF LdrX17, I
  <2>3. PICK n, words, place :
          /\ n = 3 /\ words = Nops(Pad(3, 2)) \o s \o Address(to, 0)
          /\ place = Outrx + Pad(3, 2)
    OBVIOUS
  <2>4. Emit(words, place) /\ NoWait
    BY <1>8, <2>1, <2>3
  <2>5. FarWords(words, place, s, n, to, 0)
    BY <2>2, <2>3, <2>4 DEF FarWords
  <2>6. PICK q \in Nat : FarLaid(place, s, n, to, 0, q, l, out')
    BY <1>5, <2>5, FarIsLaid
  <2>7. CallsFar(program, cur, q, l, out')
    <3>1. /\ l = q + 4 /\ out'[q + 1 - 1] = LdrX17(3) /\ out'[q + 2 - 1] = I("adrx30", 4)
          /\ out'[q + 3].off = to
      BY <2>2, <2>3, <2>6 DEF FarLaid
    <3>2. q + 1 - 1 = q /\ q + 2 - 1 = q + 1
      OBVIOUS
    <3>3. QED
      BY <1>1, <1>4, <1>8, <3>1, <3>2 DEF CallsFar
  <2>8. MovedAs(program, cur, q, l, out')
    BY <2>7 DEF MovedAs
  <2>9. place \in {Outrx, Outrx + Pad(n, 2)}
    BY <2>3
  <2>10. QED
    BY <1>5, <2>4, <2>5, <2>6, <2>8, <2>9, FarMoves
<1>9. CASE InRange(to) /\ EmitReference(w, RefIndex(to), Reach26)
  <2>1. PICK ref : ref = Ref(program, cur)
    OBVIOUS
  <2>2. Refers(program, cur)
    BY <1>1, <1>2, <1>4, <1>9 DEF Refers
  <2>3. ref = RefIndex(to) /\ Reach26 = ReachFor(code[cur].op)
    BY <1>1, <1>2, <1>4, <2>1 DEF Ref, RefIndex, ReachFor
  <2>4. EmitReference(code[cur], ref, ReachFor(code[cur].op))
    BY <1>1, <1>9, <2>3
  <2>5. QED
    BY <2>1, <2>2, <2>4, EmitReferenceLays
<1>10. CASE ~InRange(to) /\ Emit(<<I(w.op, to - Outrx)>>, Outrx) /\ NoWait
  <2>1. Emit(<<I(code[cur].op, to - Outrx)>>, Outrx) /\ code[cur].op \in {"b", "bl", "cbz", "tbz"}
    BY <1>1, <1>2, <1>10
  <2>2. QED
    BY <1>4, <1>10, <2>1, NearLays
<1>11. QED
  BY <1>6, <1>7, <1>8, <1>9, <1>10


LEMMA FixConditionalLays ==
  ASSUME Laying, FixConditional
  PROVE  MInv'
<1>1. PICK w \in Word : w = code[cur] /\ w.off \in Int /\ w = program.code[cur]
  BY LayingTypes, MovedWord
<1>2. w.op \in {"cbz", "tbz"} /\ w.op \in Waiting /\ w.op # "nop"
  BY <1>1 DEF FixConditional, Waiting
<1>3. PICK reach : reach = ReachOf(w.op)
  OBVIOUS
<1>4. PICK to \in Int : to = Here(cur) + Unsigned(w.off, reach) /\ to = Target(program, cur)
  <2>1. Target(program, cur) = Here(cur) + Reads(code[cur]) /\ Target(program, cur) \in Int
    BY LayingTypes, TargetIsInt
  <2>2. Reads(code[cur]) = Unsigned(w.off, reach)
    BY <1>1, <1>2, <1>3 DEF Reads
  <2>3. QED
    BY <2>1, <2>2
<1>5. PICK l : l = Len(out')
  OBVIOUS
<1>6. \/ /\ ~InRange(to) /\ NoWait
         /\ Emit(Nops(Pad(4, 2)) \o <<I(w.op, 2), I("b", 5), LdrX17(2), BrX17>> \o Address(to, 0), Outrx)
      \/ InRange(to) /\ EmitReference(w, RefIndex(to), reach)
      \/ ~InRange(to) /\ Emit(<<I(w.op, to - Outrx)>>, Outrx) /\ NoWait
  BY <1>1, <1>2, <1>3, <1>4, Zenon DEF FixConditional
<1>7. CASE /\ ~InRange(to) /\ NoWait
           /\ Emit(Nops(Pad(4, 2)) \o <<I(w.op, 2), I("b", 5), LdrX17(2), BrX17>> \o Address(to, 0), Outrx)
  <2>1. PICK s : s = <<I(w.op, 2), I("b", 5), LdrX17(2), BrX17>>
    OBVIOUS
  <2>2. Jump(s, 4) /\ s[1] = I(w.op, 2) /\ s[2] = I("b", 5) /\ s[3] = LdrX17(2) /\ s[1].op # "nop"
    <3>1. "b" \in Waiting
      BY DEF Waiting
    <3>2. Plain(I(w.op, 2)) /\ Plain(I("b", 5)) /\ Plain(LdrX17(2)) /\ Plain(BrX17)
      BY <1>2, <3>1, WordsWritten
    <3>3. Jump(<<I(w.op, 2), I("b", 5), LdrX17(2), BrX17>>, 4)
      BY <3>2, Four
    <3>4. I(w.op, 2).op # "nop"
      BY <1>2 DEF I
    <3>5. QED
      BY <2>1, <3>3, <3>4
  <2>3. PICK n, words, place : n = 4 /\ words = Nops(Pad(4, 2)) \o s \o Address(to, 0) /\ place = Outrx
    OBVIOUS
  <2>4. Emit(words, place) /\ NoWait
    BY <1>7, <2>1, <2>3
  <2>5. FarWords(words, place, s, n, to, 0)
    BY <2>2, <2>3, <2>4 DEF FarWords
  <2>6. PICK q \in Nat : FarLaid(place, s, n, to, 0, q, l, out')
    BY <1>5, <2>5, FarIsLaid
  <2>7. BranchesFar(program, cur, q, l, out')
    <3>1. /\ l = q + 5 /\ out'[q + 1 - 1] = I(w.op, 2) /\ out'[q + 2 - 1] = I("b", 5)
          /\ out'[q + 3 - 1] = LdrX17(2) /\ out'[q + 4].off = to
      BY <2>2, <2>3, <2>6 DEF FarLaid
    <3>2. q + 1 - 1 = q /\ q + 2 - 1 = q + 1 /\ q + 3 - 1 = q + 2
      OBVIOUS
    <3>3. ~Inside(program, to)
      BY <1>7, InsideIs
    <3>4. QED
      BY <1>1, <1>2, <1>4, <3>1, <3>2, <3>3 DEF BranchesFar
  <2>8. MovedAs(program, cur, q, l, out')
    BY <2>7 DEF MovedAs
  <2>9. place \in {Outrx, Outrx + Pad(n, 2)}
    BY <2>3
  <2>10. QED
    BY <1>5, <2>4, <2>5, <2>6, <2>8, <2>9, FarMoves
<1>8. CASE InRange(to) /\ EmitReference(w, RefIndex(to), reach)
  <2>1. PICK ref : ref = Ref(program, cur)
    OBVIOUS
  <2>2. Refers(program, cur)
    BY <1>1, <1>2, <1>4, <1>8, InsideIs DEF Refers
  <2>3. ref = RefIndex(to) /\ reach = ReachFor(code[cur].op)
    BY <1>1, <1>2, <1>3, <1>4, <2>1 DEF Ref, RefIndex, ReachFor, ReachOf
  <2>4. EmitReference(code[cur], ref, ReachFor(code[cur].op))
    BY <1>1, <1>8, <2>3
  <2>5. QED
    BY <2>1, <2>2, <2>4, EmitReferenceLays
<1>9. CASE ~InRange(to) /\ Emit(<<I(w.op, to - Outrx)>>, Outrx) /\ NoWait
  <2>1. Emit(<<I(code[cur].op, to - Outrx)>>, Outrx) /\ code[cur].op \in {"b", "bl", "cbz", "tbz"}
    BY <1>1, <1>2, <1>9
  <2>2. QED
    BY <1>4, <1>9, <2>1, NearLays
<1>10. QED
  BY <1>6, <1>7, <1>8, <1>9

LEMMA OneLays ==
  ASSUME Laying, NEW w \in Word, w.op # "nop", NEW place \in {Outrx, Outrw},
         NEW words, words = <<w>>, Emit(words, place), NoWait, NEW l, l = Len(out'),
         OneLaid(place, w, l, out') => MovedAs(program, cur, l, l, out'),
         place = Outrx \/ code[cur].op = "adrp"
  PROVE  MInv'
<1>1. words \in Seq(Word) /\ place \in Int /\ OneLaid(place, w, l, out')
  BY OneIsLaid
<1>2. /\ l \in Nat /\ Starts(Len(out), l, l, out')
      /\ place = Outrx => place \in program.rx + Len(out) .. program.rx + l - 1
  BY <1>1 DEF OneLaid
<1>3. place \in program.rx + Len(out) .. program.rx + l - 1 \/ (code[cur].op = "adrp" /\ place >= program.rw)
  <2>1. CASE place = Outrx
    BY <1>2, <2>1
  <2>2. CASE place # Outrx
    <3>1. Len(out) \in Nat /\ program.rw \in Int
      BY LayingTypes, StateTypes
    <3>2. Outrw = program.rw + Len(out) /\ place = Outrw
      BY <2>2 DEF Outrw
    <3>3. PICK x \in Int, b \in Nat : x = program.rw /\ b = Len(out)
      BY <3>1
    <3>4. place = x + b
      BY <3>2, <3>3
    <3>5. x + b >= x
      OBVIOUS
    <3>6. place >= program.rw
      BY <3>3, <3>4, <3>5
    <3>7. QED
      BY <2>2, <3>6
  <2>3. QED
    BY <2>1, <2>2
<1>4. MovedAs(program, cur, l, l, out')
  BY <1>1
<1>5. QED
  BY <1>1, <1>2, <1>3, <1>4, EmitMoved

LEMMA CopyWordLays ==
  ASSUME Laying, CopyWord
  PROVE  MInv'
<1>1. PICK w \in Word : w = code[cur] /\ w = program.code[cur] /\ w.op = "other"
  <2>1. PICK w \in Word : w = code[cur] /\ w = program.code[cur]
    BY LayingTypes, MovedWord
  <2>2. w.op = "other"
    BY <2>1 DEF CopyWord
  <2>3. QED
    BY <2>1, <2>2
<1>2. PICK words, place, l : words = <<w>> /\ place = Outrx /\ l = Len(out')
  OBVIOUS
<1>3. Emit(words, place) /\ NoWait
  BY <1>1, <1>2 DEF CopyWord
<1>4. OneLaid(place, w, l, out') => MovedAs(program, cur, l, l, out')
  <2>1. SUFFICES ASSUME OneLaid(place, w, l, out')
                 PROVE  MovedAs(program, cur, l, l, out')
    OBVIOUS
  <2>2. StaysSame(program, cur, l, l, out')
    BY <1>1, <2>1 DEF StaysSame, OneLaid
  <2>3. QED
    BY <2>2 DEF MovedAs
<1>5. w.op # "nop" /\ place \in {Outrx, Outrw}
  BY <1>1, <1>2
<1>6. QED
  BY <1>2, <1>3, <1>4, <1>5, OneLays

LEMMA SkipPrefetchLays ==
  ASSUME Laying, SkipPrefetch
  PROVE  MInv'
<1>1. PICK words, place, l, b : words = <<>> /\ place = Outrx /\ l = Len(out') /\ b = Len(out)
  OBVIOUS
<1>2. Emit(words, place) /\ NoWait /\ code[cur].op = "prfm"
  BY <1>1 DEF SkipPrefetch
<1>3. words \in Seq(Word) /\ Len(words) = 0
  BY <1>1
<1>4. place \in Int /\ place = program.rx + b /\ b \in Nat /\ RInv /\ cur \in 1 .. Len(code)
  BY <1>1, LayingTypes, StateTypes
<1>5. l = b
  <2>1. l = b + 0
    BY <1>1, <1>2, <1>3, <1>4, EmitWrites
  <2>2. QED
    BY <1>4, <2>1
<1>6. Dropped(program, cur, b, l, place)
  BY <1>2, <1>4, <1>5 DEF Dropped, code
<1>7. ~Refers(program, cur)
  BY <1>2 DEF Refers, Waiting, code
<1>8. /\ fmap \in [1 .. Len(code) -> SUBSET ((Nat \ {0}) \X (Nat \ {0}))]
  BY <1>4 DEF RInv, FixMapWaits
<1>9. /\ fmap'[cur] = {}
      /\ \A r \in 1 .. Len(code) : r # cur => fmap[r] \subseteq fmap'[r]
      /\ \A r \in 1 .. Len(code) : \A f \in fmap'[r] : f \in fmap[r]
  BY <1>2, <1>4, <1>8 DEF NoWait
<1>10. QED
  BY <1>1, <1>2, <1>3, <1>4, <1>6, <1>7, <1>9, EmitLays

(* A load of the address that an adr or an adrp made. *)
LEMMA AddressLays ==
  ASSUME Laying, NEW a \in Int, NEW low \in Int, NEW place, NEW n, n = 2,
         place \in {Outrx, Outrx + Pad(n, 2)} \/ (place = Outrw /\ program.code[cur].op = "adrp"),
         Emit(Nops(Pad(n, 2)) \o <<I("ldrrd", 2), I("b", 3)>> \o Address(a, low), place), NoWait,
         \/ /\ program.code[cur].op = "adr" /\ ~Inside(program, Target(program, cur))
            /\ a = Target(program, cur) /\ low = program.code[cur].low
         \/ program.code[cur].op = "adrp" /\ a = PageTarget(program, cur) /\ low = 0
  PROVE  MInv'
<1>1. PICK s, l, words :
        /\ s = <<I("ldrrd", 2), I("b", 3)>> /\ l = Len(out')
        /\ words = Nops(Pad(n, 2)) \o s \o Address(a, low)
  OBVIOUS
<1>2. Jump(s, 2) /\ s[1] = I("ldrrd", 2) /\ s[2] = I("b", 3) /\ s[1].op # "nop"
  <2>1. Jump(s, 2)
    BY <1>1, LoadOfAddress
  <2>2. s[1] = I("ldrrd", 2) /\ s[2] = I("b", 3)
    BY <1>1
  <2>3. QED
    BY <2>1, <2>2 DEF I
<1>3. Emit(words, place) /\ place \in {Outrx, Outrx + Pad(n, 2), Outrw}
  BY <1>1
<1>4. FarWords(words, place, s, n, a, low)
  BY <1>1, <1>2, <1>3 DEF FarWords
<1>5. PICK q \in Nat : FarLaid(place, s, n, a, low, q, l, out')
  BY <1>1, <1>4, FarIsLaid
<1>6. LoadsAddress(program, cur, q, l, out')
  <2>1. /\ l = q + 3 /\ out'[q + 1 - 1] = I("ldrrd", 2) /\ out'[q + 2 - 1] = I("b", 3)
        /\ out'[q + 2].off = a /\ out'[q + 2].low = low
    BY <1>2, <1>5 DEF FarLaid
  <2>2. q + 1 - 1 = q /\ q + 2 - 1 = q + 1
    OBVIOUS
  <2>3. QED
    BY <2>1, <2>2 DEF LoadsAddress
<1>7. MovedAs(program, cur, q, l, out')
  BY <1>6 DEF MovedAs
<1>8. place \in {Outrx, Outrx + Pad(n, 2)} \/ code[cur].op = "adrp"
  BY DEF code
<1>9. QED
  BY <1>1, <1>3, <1>4, <1>5, <1>7, <1>8, FarMoves

LEMMA FixAdrLays ==
  ASSUME Laying, FixAdr
  PROVE  MInv'
<1>1. PICK w \in Word : w = code[cur] /\ w = program.code[cur] /\ w.off \in Int /\ w.low \in Int
  BY LayingTypes, MovedWord
<1>2. w.op = "adr" /\ w.op \in Waiting /\ w.op # "nop"
  BY <1>1 DEF FixAdr, Waiting
<1>3. PICK to \in Int : to = Here(cur) + Widened(w.off) /\ to = Target(program, cur)
  <2>1. Target(program, cur) = Here(cur) + Reads(code[cur]) /\ Target(program, cur) \in Int
    BY LayingTypes, TargetIsInt
  <2>2. Reads(code[cur]) = Widened(w.off)
    BY <1>1, <1>2 DEF Reads
  <2>3. QED
    BY <2>1, <2>2
<1>4. PICK l, low : l = Len(out') /\ low = w.low
  OBVIOUS
<1>5. \/ /\ ~InRange(to) /\ NoWait
         /\ Emit(Nops(Pad(2, 2)) \o <<I("ldrrd", 2), I("b", 3)>> \o Address(to, low), Outrx + Pad(2, 2))
      \/ InRange(to) /\ EmitReference(w, RefIndex(to), Reach19)
      \/ ~InRange(to) /\ Emit(<<[w EXCEPT !.off = to - Outrx, !.reg = low]>>, Outrx) /\ NoWait
  BY <1>1, <1>3, <1>4, Zenon DEF FixAdr
<1>6. CASE /\ ~InRange(to) /\ NoWait
           /\ Emit(Nops(Pad(2, 2)) \o <<I("ldrrd", 2), I("b", 3)>> \o Address(to, low), Outrx + Pad(2, 2))
  <2>1. PICK place, n : n = 2 /\ place = Outrx + Pad(n, 2)
    OBVIOUS
  <2>2. Emit(Nops(Pad(n, 2)) \o <<I("ldrrd", 2), I("b", 3)>> \o Address(to, low), place) /\ NoWait
    BY <1>6, <2>1
  <2>3. ~Inside(program, to)
    BY <1>6, InsideIs
  <2>4. /\ program.code[cur].op = "adr" /\ ~Inside(program, Target(program, cur))
        /\ to = Target(program, cur) /\ low = program.code[cur].low
    BY <1>1, <1>2, <1>3, <1>4, <2>3
  <2>5. low \in Int /\ place \in {Outrx, Outrx + Pad(n, 2)}
    BY <1>1, <1>4, <2>1
  <2>6. QED
    BY <2>1, <2>2, <2>4, <2>5, AddressLays
<1>7. CASE InRange(to) /\ EmitReference(w, RefIndex(to), Reach19)
  <2>1. PICK ref : ref = Ref(program, cur)
    OBVIOUS
  <2>2. Refers(program, cur)
    BY <1>1, <1>2, <1>3, <1>7, InsideIs DEF Refers
  <2>3. ref = RefIndex(to) /\ Reach19 = ReachFor(code[cur].op)
    BY <1>1, <1>2, <1>3, <2>1 DEF Ref, RefIndex, ReachFor
  <2>4. EmitReference(code[cur], ref, ReachFor(code[cur].op))
    BY <1>1, <1>7, <2>3
  <2>5. QED
    BY <2>1, <2>2, <2>4, EmitReferenceLays
<1>8. CASE ~InRange(to) /\ Emit(<<[w EXCEPT !.off = to - Outrx, !.reg = low]>>, Outrx) /\ NoWait
  <2>1. PICK off \in Int : off = to - Outrx
    <3>1. Outrx \in Int
      BY LayingTypes, StateTypes
    <3>2. QED
      BY <3>1
  <2>2. PICK v, words, place : v = [w EXCEPT !.off = off, !.reg = low] /\ words = <<v>> /\ place = Outrx
    OBVIOUS
  <2>3. v \in Word /\ v.op = "adr" /\ v.off = off /\ v.low = low /\ v.reg = low
    BY <1>1, <1>2, <1>4, <2>2 DEF Word
  <2>4. Emit(words, place) /\ NoWait /\ place \in {Outrx, Outrw} /\ v.op # "nop"
    BY <1>8, <2>1, <2>2, <2>3
  <2>5. OneLaid(place, v, l, out') => MovedAs(program, cur, l, l, out')
    <3>1. SUFFICES ASSUME OneLaid(place, v, l, out')
                   PROVE  MovedAs(program, cur, l, l, out')
      OBVIOUS
    <3>2. out'[l] = v /\ Outrx = program.rx + l - 1
      BY <3>1 DEF OneLaid
    <3>3. ~Inside(program, to)
      BY <1>8, InsideIs
    <3>4. NamesAddress(program, cur, l, l, out')
      BY <1>1, <1>2, <1>3, <1>4, <2>1, <2>3, <3>2, <3>3 DEF NamesAddress
    <3>5. QED
      BY <3>4 DEF MovedAs
  <2>6. QED
    BY <1>4, <2>2, <2>3, <2>4, <2>5, OneLays
<1>9. QED
  BY <1>5, <1>6, <1>7, <1>8

LEMMA FixAdrpLays ==
  ASSUME Laying, FixAdrp
  PROVE  MInv'
<1>1. PICK w \in Word : w = code[cur] /\ w = program.code[cur] /\ w.off \in Int
  BY LayingTypes, MovedWord
<1>2. w.op = "adrp" /\ w.op # "nop"
  BY <1>1 DEF FixAdrp
<1>3. PICK to \in Int : to = PageOfWord(Here(cur)) + Widened(w.off * PageSize)
  <2>1. \A a \in Int : \A b \in Nat \ {0} : a % b \in Int /\ a * b \in Int
    OBVIOUS
  <2>2. Here(cur) \in Int
    BY LayingTypes, MovedWord
  <2>3. w.off * PageSize \in Int /\ Here(cur) % PageSize \in Int
    BY <1>1, <2>1, <2>2, ReachTypes
  <2>4. PageOfWord(Here(cur)) \in Int
    BY <2>2, <2>3 DEF PageOfWord
  <2>5. Widened(w.off * PageSize) \in Int
    BY <2>3, WidenedIsInt
  <2>6. QED
    BY <2>4, <2>5
<1>4. to = PageTarget(program, cur)
  BY <1>1, <1>3 DEF PageTarget, Here
<1>5. PICK l : l = Len(out')
  OBVIOUS
<1>6. CASE InRange(to)
  <2>1. PICK words, place : words = <<w>> /\ place = Outrw
    OBVIOUS
  <2>2. Emit(<<w>>, Outrw) /\ NoWait
    BY <1>1, <1>3, <1>6, Zenon DEF FixAdrp
  <2>3. Emit(words, place) /\ NoWait /\ place \in {Outrx, Outrw}
    BY <2>1, <2>2
  <2>4. MovedAs(program, cur, l, l, out')
    <3>1. Inside(program, to)
      BY <1>6, InsideIs
    <3>2. NamesPage(program, cur, l, l, out')
      BY <1>1, <1>2, <1>4, <3>1 DEF NamesPage
    <3>3. QED
      BY <3>2 DEF MovedAs
  <2>5. code[cur].op = "adrp"
    BY <1>1, <1>2
  <2>6. QED
    BY <1>2, <1>5, <2>1, <2>3, <2>4, <2>5, OneLays
<1>7. CASE ~InRange(to)
  <2>1. PICK n, low : n = 2 /\ low = 0
    OBVIOUS
  <2>2. PICK place : place = IF Pad(n, 2) = 0 THEN Outrw ELSE Outrx + Pad(n, 2)
    OBVIOUS
  <2>3. Emit(Nops(Pad(2, 2)) \o <<I("ldrrd", 2), I("b", 3)>> \o Address(to, 0),
             IF Pad(2, 2) = 0 THEN Outrw ELSE Outrx + Pad(2, 2)) /\ NoWait
    BY <1>1, <1>3, <1>7, Zenon DEF FixAdrp
  <2>4. Emit(Nops(Pad(n, 2)) \o <<I("ldrrd", 2), I("b", 3)>> \o Address(to, low), place) /\ NoWait
    BY <2>1, <2>2, <2>3
  <2>5. program.code[cur].op = "adrp" /\ to = PageTarget(program, cur) /\ low = 0 /\ low \in Int
    BY <1>1, <1>2, <1>4, <2>1
  <2>6. place \in {Outrx, Outrx + Pad(n, 2)} \/ (place = Outrw /\ program.code[cur].op = "adrp")
    BY <2>2, <2>5
  <2>7. QED
    BY <2>1, <2>4, <2>5, <2>6, AddressLays
<1>8. QED
  BY <1>6, <1>7

(* What has its place behind the nops. *)
LEMMA BehindLays ==
  ASSUME Laying, NEW words, NEW pad, NEW s, Behind(words, pad, s), NEW place, place = Outrx + pad,
         Emit(words, place), NoWait, NEW l, l = Len(out'), NEW q, q = Len(out) + pad + 1,
         Begun(Len(out), q, l, s, out') => MovedAs(program, cur, q, l, out')
  PROVE  MInv'
<1>1. words \in Seq(Word) /\ pad \in Nat
  BY DEF Behind
<1>2. PICK x \in Int, b \in Nat : x = program.rx /\ b = Len(out) /\ Outrx = x + b
  BY LayingTypes, StateTypes
<1>3. place \in Int /\ place = x + b + pad
  BY <1>1, <1>2
<1>4. Begun(Len(out), q, l, s, out')
  BY <1>3, EmitStarts
<1>5. q \in Nat /\ Starts(Len(out), q, l, out')
  BY <1>4 DEF Begun
<1>6. q = b + pad + 1
  BY <1>2
<1>7. place \in x + b .. x + q - 1
  BY <1>1, <1>3, <1>6
<1>8. place \in program.rx + Len(out) .. program.rx + q - 1
  BY <1>2, <1>7
<1>9. MovedAs(program, cur, q, l, out')
  BY <1>4
<1>10. QED
  BY <1>1, <1>3, <1>5, <1>8, <1>9, EmitMoved

(* A load of a literal, a branch over it, and the literal. *)
CopyWords(t, op, from, n) ==
  /\ t \in Seq(Word) /\ Len(t) = 2 + n /\ t[1] = I(op, 2) /\ t[2] = I("b", 1 + n) /\ t[1].op # "nop"
  /\ \A k \in 0 .. n - 1 : t[3 + k] = I("copied", from + k)

LEMMA CopyIs ==
  ASSUME NEW op \in Literals, NEW from \in Int, NEW n \in Nat
  PROVE  CopyWords(<<I(op, 2), I("b", 1 + n)>> \o Kept(from, n), op, from, n)
<1>1. PICK u, v, s, r :
        u = I(op, 2) /\ v = I("b", 1 + n) /\ s = <<I(op, 2), I("b", 1 + n)>> /\ r = Kept(from, n)
  OBVIOUS
<1>2. PICK t : t = s \o r
  OBVIOUS
<1>3. u \in Word /\ v \in Word /\ u.op # "nop"
  <2>1. op \in Written /\ "b" \in Written /\ 2 \in Int /\ 1 + n \in Int /\ op # "nop"
    BY DEF Written, Kinds, Literals
  <2>2. QED
    BY <1>1, <2>1, IIsAWord
<1>4. s \in Seq(Word) /\ Len(s) = 2 /\ s[1] = u /\ s[2] = v
  BY <1>1, <1>3
<1>5. r \in Seq(Word) /\ Len(r) = n
  <2>1. Fine(program, 0, Kept(from, n)) /\ Len(Kept(from, n)) = n
    BY KeptIsFine
  <2>2. QED
    BY <1>1, <2>1 DEF Fine
<1>6. Joint(t, s, r)
  BY <1>2, <1>4, <1>5, JoinedWords, Zenon
<1>7. /\ t \in Seq(Word) /\ Len(t) = 2 + n
      /\ \A k \in 1 .. 2 : t[k] = s[k]
      /\ \A k \in 1 .. n : t[2 + k] = r[k]
  BY <1>4, <1>5, <1>6 DEF Joint
<1>8. t[1] = u /\ t[2] = v
  BY <1>4, <1>7
<1>9. ASSUME NEW k \in 0 .. n - 1
      PROVE  t[3 + k] = I("copied", from + k)
  <2>1. 1 + k \in 1 .. n /\ 2 + (1 + k) = 3 + k
    OBVIOUS
  <2>2. t[3 + k] = r[1 + k]
    BY <1>7, <2>1
  <2>3. r[1 + k] = I("copied", from + (1 + k) - 1)
    BY <1>1, <2>1 DEF Kept, Copied
  <2>4. from + (1 + k) - 1 = from + k
    OBVIOUS
  <2>5. QED
    BY <2>2, <2>3, <2>4
<1>10. CopyWords(t, op, from, n)
  BY <1>1, <1>3, <1>7, <1>8, <1>9 DEF CopyWords
<1>11. QED
  BY <1>1, <1>2, <1>10

LEMMA FixLiteralLays ==
  ASSUME Laying, FixLiteral
  PROVE  MInv'
<1>1. PICK w \in Word : w = code[cur] /\ w = program.code[cur] /\ w.off \in Int
  BY LayingTypes, MovedWord
<1>2. w.op \in Literals
  BY <1>1 DEF FixLiteral
<1>3. PICK n \in {1, 2, 4} : n = LiteralWords(w.op)
  BY <1>2, LiteralWordsIs
<1>4. PICK from \in Int : from = Here(cur) + Widened(w.off) /\ from = Target(program, cur)
  <2>1. Target(program, cur) = Here(cur) + Reads(code[cur]) /\ Target(program, cur) \in Int
    BY LayingTypes, TargetIsInt
  <2>2. w.op \notin {"b", "bl", "cbz", "tbz"}
    BY <1>2 DEF Literals
  <2>3. Reads(code[cur]) = Widened(w.off)
    BY <1>1, <2>2 DEF Reads
  <2>4. QED
    BY <2>1, <2>3
<1>5. PICK x \in Int, b \in Nat, o \in Int : x = program.rx /\ b = Len(out) /\ o = Outrx /\ o = x + b
  BY LayingTypes, StateTypes
<1>6. PICK l : l = Len(out')
  OBVIOUS
<1>7. \/ /\ Emit(Nops(Pad(2, n)) \o (<<I(w.op, 2), I("b", 1 + n)>> \o Kept(from, n)), Outrx + Pad(2, n))
         /\ NoWait
      \/ \E pad, near :
           /\ pad = (from - Outrx) % n /\ near = from - Outrx - pad
           /\ Emit(Nops(pad) \o <<I(Oversigned(w.op, near), near)>>, Outrx + pad) /\ NoWait
  BY <1>1, <1>3, <1>4, Zenon DEF FixLiteral
<1>8. CASE Emit(Nops(Pad(2, n)) \o (<<I(w.op, 2), I("b", 1 + n)>> \o Kept(from, n)), Outrx + Pad(2, n)) /\ NoWait
  <2>1. PICK pad : pad = Pad(2, n)
    OBVIOUS
  <2>2. PICK t : t = <<I(w.op, 2), I("b", 1 + n)>> \o Kept(from, n)
    OBVIOUS
  <2>3. PICK words, place, q : words = Nops(pad) \o t /\ place = Outrx + pad /\ q = Len(out) + pad + 1
    OBVIOUS
  <2>4. Emit(words, place) /\ NoWait
    BY <1>8, <2>1, <2>2, <2>3
  <2>5. pad \in Nat
    <3>1. PICK a \in Int : a = o + 2
      OBVIOUS
    <3>2. pad = (-a) % n
      BY <1>5, <2>1, <3>1 DEF Pad
    <3>3. pad \in 0 .. n - 1
      BY <3>2, PadIs
    <3>4. QED
      BY <3>3
  <2>6. n \in Nat
    OBVIOUS
  <2>7. CopyWords(t, w.op, from, n)
    BY <1>2, <2>2, <2>6, CopyIs
  <2>8. Behind(words, pad, t)
    <3>1. t \in Seq(Word) /\ Len(t) \in Nat \ {0} /\ t[1].op # "nop"
      BY <2>6, <2>7 DEF CopyWords
    <3>2. QED
      BY <2>3, <2>5, <3>1, BehindNops
  <2>9. ASSUME Begun(Len(out), q, l, t, out')
        PROVE  MovedAs(program, cur, q, l, out')
    <3>1. /\ q \in Nat /\ l \in Nat /\ l + 1 = q + (2 + n)
          /\ \A k \in 1 .. 2 + n : out'[q + k - 1] = t[k]
      BY <2>7, <2>9 DEF Begun, CopyWords
    <3>2. l = q + 1 + n
      BY <3>1
    <3>3. out'[q] = I(w.op, 2) /\ out'[q + 1] = I("b", 1 + n)
      <4>1. 1 \in 1 .. 2 + n /\ 2 \in 1 .. 2 + n /\ q + 1 - 1 = q /\ q + 2 - 1 = q + 1
        BY <3>1
      <4>2. out'[q] = t[1] /\ out'[q + 1] = t[2]
        BY <3>1, <4>1
      <4>3. QED
        BY <2>7, <4>2 DEF CopyWords
    <3>4. ASSUME NEW k \in 0 .. n - 1
          PROVE  out'[q + 2 + k] = I("copied", from + k)
      <4>1. 3 + k \in 1 .. 2 + n /\ q + (3 + k) - 1 = q + 2 + k
        BY <3>1
      <4>2. out'[q + 2 + k] = t[3 + k]
        BY <3>1, <4>1
      <4>3. QED
        BY <2>7, <4>2 DEF CopyWords
    <3>5. CopiesLiteral(program, cur, q, l, out')
      BY <1>1, <1>2, <1>3, <1>4, <3>2, <3>3, <3>4 DEF CopiesLiteral
    <3>6. QED
      BY <3>5 DEF MovedAs
  <2>10. QED
    BY <1>6, <2>3, <2>4, <2>8, <2>9, BehindLays
<1>9. ASSUME NEW pad, NEW near,
             pad = (from - Outrx) % n, near = from - Outrx - pad,
             Emit(Nops(pad) \o <<I(Oversigned(w.op, near), near)>>, Outrx + pad), NoWait
      PROVE  MInv'
  <2>1. pad \in Nat
    <3>1. \A c \in Int : \A d \in Nat \ {0} : c % d \in 0 .. d - 1
      OBVIOUS
    <3>2. from - o \in Int /\ n \in Nat \ {0}
      OBVIOUS
    <3>3. (from - o) % n \in 0 .. n - 1
      BY <3>1, <3>2
    <3>4. pad = (from - o) % n
      BY <1>5, <1>9
    <3>5. QED
      BY <3>3, <3>4
  <2>2. near \in Int /\ near = from - o - pad
    <3>1. near = from - Outrx - pad
      BY <1>9
    <3>2. near = from - o - pad
      BY <1>5, <3>1
    <3>3. QED
      BY <2>1, <3>2
  <2>3. PICK op, v, t : op = Oversigned(w.op, near) /\ v = I(op, near) /\ t = <<v>>
    OBVIOUS
  <2>4. op \in Written /\ op # "nop"
    BY <1>2, <2>3 DEF Oversigned, Written, Kinds, Literals
  <2>5. v \in Word /\ v.op = op /\ v.off = near
    BY <2>2, <2>3, <2>4, IIsAWord
  <2>6. PICK words, place, q : words = Nops(pad) \o t /\ place = Outrx + pad /\ q = Len(out) + pad + 1
    OBVIOUS
  <2>7. Emit(words, place) /\ NoWait
    BY <1>9, <2>3, <2>6
  <2>8. t \in Seq(Word) /\ Len(t) = 1 /\ t[1] = v /\ t[1].op # "nop"
    BY <2>3, <2>4, <2>5
  <2>9. Behind(words, pad, t)
    <3>1. t \in Seq(Word) /\ Len(t) \in Nat \ {0} /\ t[1].op # "nop"
      BY <2>8
    <3>2. words = Nops(pad) \o t
      BY <2>6
    <3>3. QED
      BY <2>1, <3>1, <3>2, BehindNops
  <2>10. ASSUME Begun(Len(out), q, l, t, out')
         PROVE  MovedAs(program, cur, q, l, out')
    <3>1. q \in Nat /\ l \in Nat /\ l + 1 = q + 1 /\ out'[q] = v
      BY <2>8, <2>10 DEF Begun
    <3>2. l = q
      BY <3>1
    <3>3. near = from - (x + q - 1)
      <4>1. q = b + pad + 1
        BY <1>5, <2>6
      <4>2. near = from - (x + b) - pad
        BY <1>5, <2>2
      <4>3. QED
        BY <2>1, <4>1, <4>2
    <3>4. out'[q].off = Target(program, cur) - (program.rx + q - 1)
      BY <1>4, <1>5, <2>5, <3>1, <3>3
    <3>5. out'[q].op = Oversigned(program.code[cur].op, out'[q].off)
      BY <1>1, <2>3, <2>5, <3>1
    <3>6. LoadsLiteral(program, cur, q, l, out')
      BY <1>1, <1>2, <3>2, <3>4, <3>5 DEF LoadsLiteral
    <3>7. QED
      BY <3>6 DEF MovedAs
  <2>11. QED
    BY <1>6, <2>6, <2>7, <2>9, <2>10, BehindLays
<1>10. QED
  BY <1>7, <1>8, <1>9

-----------------------------------------------------------------------------
(* The first state, the jump back, and every step. *)

Laden(e) == RInv /\ cur = Len(code) + 1 /\ e \in Nat /\ Laid(e)

LEMMA LadenTypes ==
  ASSUME NEW e, Laden(e)
  PROVE  /\ RInv /\ begin \in [1 .. Len(code) -> Int] /\ e = Len(out) /\ e \in Nat
         /\ Blocks(e) /\ Ordered(e) /\ References /\ Awaited(e)
         /\ Len(code) \in Nat \ {0} /\ code = program.code
         /\ \A j \in 1 .. Len(code) : /\ j < cur
                                      /\ begin[j] \in Nat /\ Edge(e, j + 1) \in Nat /\ Edge(e, j + 1) <= e
<1>1. /\ RInv /\ begin \in [1 .. Len(code) -> Int] /\ e \in Nat
      /\ Blocks(e) /\ Ordered(e) /\ References /\ Awaited(e)
  BY DEF Laden, Laid
<1>2. Len(code) \in Nat \ {0} /\ code = program.code
  BY <1>1, StateTypes DEF code
<1>3. cur = Len(code) + 1 /\ cur <= Len(code) + 1
  BY <1>2 DEF Laden
<1>4. e = Len(out)
  BY <1>3 DEF Laden, Laid
<1>5. ASSUME NEW j \in 1 .. Len(code)
      PROVE  j < cur /\ begin[j] \in Nat /\ begin[j] <= e
  <2>1. j < cur /\ Len(code) + 1 \in j .. Len(code) + 1 /\ Len(code) + 1 <= cur /\ ~(Len(code) + 1 <= Len(code))
    BY <1>2, <1>3
  <2>2. Edge(e, Len(code) + 1) = e
    BY <2>1 DEF Edge
  <2>3. QED
    BY <1>1, <2>1, <2>2 DEF Ordered
<1>6. ASSUME NEW j \in 1 .. Len(code)
      PROVE  Edge(e, j + 1) \in Nat /\ Edge(e, j + 1) <= e
  <2>1. CASE j + 1 <= Len(code)
    <3>1. j + 1 \in 1 .. Len(code)
      BY <1>2, <2>1
    <3>2. begin[j + 1] \in Nat /\ begin[j + 1] <= e /\ j + 1 < cur
      BY <1>5, <3>1
    <3>3. Edge(e, j + 1) = begin[j + 1]
      BY <2>1, <3>2 DEF Edge
    <3>4. QED
      BY <3>2, <3>3
  <2>2. CASE ~(j + 1 <= Len(code))
    BY <1>1, <2>2 DEF Edge
  <2>3. QED
    BY <2>1, <2>2
<1>7. QED
  BY <1>1, <1>2, <1>4, <1>5, <1>6

Extended(o, e, o2, words) ==
  /\ Len(o2) = e + Len(words) /\ Len(o2) \in Nat /\ e <= Len(o2)
  /\ \A k \in 1 .. e : o2[k] = o[k]
  /\ \A k \in 1 .. Len(words) : o2[e + k] = words[k]

LEMMA JointExtends ==
  ASSUME NEW o, NEW o2, NEW words, NEW e \in Nat, e = Len(o), Joint(o2, o, words), words \in Seq(Word)
  PROVE  Extended(o, e, o2, words)
<1>1. /\ Len(o2) = e + Len(words)
      /\ \A k \in 1 .. e : o2[k] = o[k]
      /\ \A k \in 1 .. Len(words) : o2[e + k] = words[k]
  BY DEF Joint
<1>2. Len(words) \in Nat
  BY LenProperties
<1>3. Len(o2) \in Nat /\ e <= Len(o2)
  BY <1>1, <1>2
<1>4. QED
  BY <1>1, <1>3 DEF Extended

(* The words of the jump back. *)
LEMMA JumpBackWrites ==
  ASSUME NEW e, Laden(e), JumpBack
  PROVE  /\ program' = program /\ code' = code /\ cur' = Len(code) + 2
         /\ dat' = dat /\ fmap' = fmap /\ begin' = begin
         /\ Len(out') \in Nat /\ e <= Len(out') /\ \A k \in 1 .. e : out'[k] = out[k]
         /\ JumpsBack(program, e, out')
<1>1. /\ cur = Len(code) + 1 /\ program' = program /\ code' = code /\ cur' = cur + 1
      /\ dat' = dat /\ fmap' = fmap /\ begin' = begin
  BY DEF JumpBack, code
<1>2. RInv /\ e = Len(out) /\ e \in Nat /\ code = program.code
  BY LadenTypes
<1>3. PICK x \in Int, base \in Int, n \in Nat :
        x = program.rx /\ base = program.base /\ n = Len(code) /\ Outrx = x + e
  BY <1>2, StateTypes
<1>4. PICK back \in Int : back = Here(Len(code) + 1) /\ back = base + n
  BY <1>3 DEF Here
<1>5. out \in Seq(Word)
  BY <1>2 DEF RInv, Fine
<1>6. cur' = Len(code) + 2
  BY <1>1, <1>3
<1>7. CASE Magnitude(back - Outrx) >= Reach26 - 1
  <2>1. PICK s : s = <<LdrX17(2), BrX17>>
    OBVIOUS
  <2>2. Jump(s, 2) /\ s[1] = LdrX17(2) /\ s[1].op # "nop"
    BY <2>1, WordsWritten, Two DEF LdrX17, I
  <2>3. PICK n2 \in Nat \ {0}, low \in Int : n2 = 2 /\ low = 0
    OBVIOUS
  <2>4. PICK pad : pad = Pad(n2, 2)
    OBVIOUS
  <2>5. pad \in {0, 1} /\ pad \in Nat
    <3>1. PadsEven(program, Len(out), n2, pad)
      BY <1>2, <1>3, <2>4, PadIsEven
    <3>2. QED
      BY <3>1 DEF PadsEven
  <2>6. PICK words : words = Nops(pad) \o s \o Address(back, low)
    OBVIOUS
  <2>7. Jump(s, n2)
    BY <2>2, <2>3
  <2>8. \E t : Carries(words, pad, t, s, n2, back, low)
    BY <2>2, <2>5, <2>6, <2>7, BehindFar
  <2>9. PICK t : Carries(words, pad, t, s, n2, back, low)
    BY <2>8
  <2>10. /\ words \in Seq(Word) /\ Len(words) = pad + 4
         /\ \A k \in 1 .. pad : words[k].op = "nop"
         /\ \A k \in 1 .. 4 : words[pad + k] = t[k]
         /\ t[1] = LdrX17(2) /\ t[3].off = back
    <3>1. /\ words \in Seq(Word) /\ Len(words) = pad + Len(t) /\ Len(t) = n2 + 2
          /\ \A k \in 1 .. pad : words[k].op = "nop"
          /\ \A k \in 1 .. Len(t) : words[pad + k] = t[k]
          /\ \A k \in 1 .. n2 : t[k] = s[k]
          /\ t[n2 + 1].off = back
      BY <2>9 DEF Carries, Behind
    <3>2. Len(t) = 4 /\ n2 + 1 = 3 /\ 1 \in 1 .. n2
      BY <2>3, <3>1
    <3>3. QED
      BY <2>2, <3>1, <3>2
  <2>11. out' = out \o (Nops(Pad(2, 2)) \o <<LdrX17(2), BrX17>> \o Address(back, 0))
    BY <1>4, <1>7, Zenon DEF JumpBack
  <2>12. out' = out \o words
    BY <2>1, <2>3, <2>4, <2>6, <2>11
  <2>13. Joint(out', out, words)
    BY <1>5, <2>10, <2>12, JoinedWords, Zenon
  <2>14. /\ Len(out') = e + Len(words) /\ Len(out') \in Nat /\ e <= Len(out')
         /\ \A k \in 1 .. e : out'[k] = out[k]
         /\ \A k \in 1 .. Len(words) : out'[e + k] = words[k]
    <3>1. Extended(out, e, out', words)
      BY <1>2, <2>10, <2>13, JointExtends
    <3>2. QED
      BY <3>1 DEF Extended
  <2>15. JumpsBack(program, e, out')
    <3>1. back = program.base + Len(program.code)
      BY <1>2, <1>3, <1>4
    <3>2. CASE pad = 0
      <4>1. Len(words) = 4 /\ words[1] = t[1] /\ words[3] = t[3]
        <5>1. pad + 1 = 1 /\ pad + 3 = 3
          BY <3>2
        <5>2. words[pad + 1] = t[1] /\ words[pad + 3] = t[3]
          BY <2>10
        <5>3. QED
          BY <2>10, <3>2, <5>1, <5>2
      <4>2. Len(out') = e + 4 /\ out'[e + 1] = words[1] /\ out'[e + 3] = words[3]
        BY <2>14, <4>1
      <4>3. out'[e + 1] = LdrX17(2) /\ out'[e + 3].off = back
        BY <2>10, <4>1, <4>2
      <4>4. QED
        BY <3>1, <4>2, <4>3 DEF JumpsBack
    <3>3. CASE pad = 1
      <4>1. Len(words) = 5 /\ words[1].op = "nop" /\ words[2] = t[1] /\ words[4] = t[3]
        <5>1. pad + 1 = 2 /\ pad + 3 = 4 /\ 1 \in 1 .. pad
          BY <3>3
        <5>2. words[pad + 1] = t[1] /\ words[pad + 3] = t[3]
          BY <2>10
        <5>3. QED
          BY <2>10, <3>3, <5>1, <5>2
      <4>2. Len(out') = e + 5 /\ out'[e + 1] = words[1] /\ out'[e + 2] = words[2] /\ out'[e + 4] = words[4]
        BY <2>14, <4>1
      <4>3. out'[e + 1].op = "nop" /\ out'[e + 2] = LdrX17(2) /\ out'[e + 4].off = back
        BY <2>10, <4>1, <4>2
      <4>4. QED
        BY <3>1, <4>2, <4>3 DEF JumpsBack
    <3>4. QED
      BY <2>5, <3>2, <3>3
  <2>16. QED
    BY <1>1, <1>6, <2>14, <2>15
<1>8. CASE ~(Magnitude(back - Outrx) >= Reach26 - 1)
  <2>1. back - Outrx \in Int /\ "b" \in Waiting
    BY <1>2, <1>3 DEF Waiting
  <2>2. PICK v : v = I("b", back - Outrx) /\ Plain(v)
    BY <2>1, WordsWritten
  <2>3. PICK words : words = <<v>>
    OBVIOUS
  <2>4. out' = out \o words
    BY <1>4, <1>8, <2>2, <2>3, Zenon DEF JumpBack
  <2>5. words \in Seq(Word) /\ Len(words) = 1 /\ words[1] = v
    BY <2>2, <2>3 DEF Plain
  <2>6. Joint(out', out, words)
    BY <1>5, <2>4, <2>5, JoinedWords, Zenon
  <2>7. /\ Len(out') = e + Len(words) /\ Len(out') \in Nat /\ e <= Len(out')
        /\ \A k \in 1 .. e : out'[k] = out[k]
        /\ \A k \in 1 .. Len(words) : out'[e + k] = words[k]
    <3>1. Extended(out, e, out', words)
      BY <1>2, <2>5, <2>6, JointExtends
    <3>2. QED
      BY <3>1 DEF Extended
  <2>8. Len(out') = e + 1 /\ out'[e + 1] = v
    BY <2>5, <2>7
  <2>9. v = I("b", program.base + Len(program.code) - (program.rx + e))
    <3>1. PICK there : there = program.base + Len(program.code) - (program.rx + e)
      OBVIOUS
    <3>2. there = base + n - (x + e)
      BY <1>2, <1>3, <3>1
    <3>3. back - Outrx = base + n - (x + e)
      BY <1>3, <1>4
    <3>4. QED
      BY <2>2, <3>1, <3>2, <3>3
  <2>10. JumpsBack(program, e, out')
    BY <2>8, <2>9 DEF JumpsBack
  <2>11. QED
    BY <1>1, <1>6, <2>7, <2>10
<1>9. QED
  BY <1>7, <1>8

LEMMA JumpBackLays ==
  ASSUME NEW e, Laden(e), JumpBack
  PROVE  MInv'
<1>1. /\ program' = program /\ code' = code /\ cur' = Len(code) + 2
      /\ dat' = dat /\ fmap' = fmap /\ begin' = begin
      /\ Len(out') \in Nat /\ e <= Len(out') /\ \A k \in 1 .. e : out'[k] = out[k]
      /\ JumpsBack(program, e, out')
  BY JumpBackWrites
<1>2. PICK n \in Nat : n = Len(code) /\ n # 0 /\ cur = n + 1
  BY LadenTypes DEF Laden
<1>3. cur' = n + 2
  BY <1>1, <1>2
<1>4. \A j \in 1 .. n + 1 : Edge(e, j)' = Edge(e, j)
  <2>1. ASSUME NEW j \in 1 .. n + 1
        PROVE  Edge(e, j)' = Edge(e, j)
    <3>1. j < cur' /\ j <= Len(code') <=> j < cur /\ j <= Len(code)
      BY <1>1, <1>2, <1>3
    <3>2. QED
      BY <1>1, <3>1 DEF Edge
  <2>2. QED
    BY <2>1
<1>5. \A j \in 1 .. n : j + 1 \in 1 .. n + 1 /\ Edge(e, j + 1)' = Edge(e, j + 1)
  BY <1>4
<1>6. /\ \A j \in 1 .. n : begin[j] \in Nat /\ Edge(e, j + 1) \in Nat /\ Edge(e, j + 1) <= e /\ j < cur
      /\ Blocks(e) /\ Ordered(e) /\ References /\ Awaited(e)
      /\ begin \in [1 .. n -> Int] /\ RInv /\ e \in Nat /\ code = program.code
  BY <1>2, LadenTypes
<1>7. ASSUME NEW j \in 1 .. n
      PROVE  \A k \in begin[j] + 1 .. Edge(e, j + 1) : out'[k] = out[k]
  <2>1. \A k \in begin[j] + 1 .. Edge(e, j + 1) : k \in 1 .. e
    BY <1>6
  <2>2. QED
    BY <1>1, <2>1
<1>8. ASSUME NEW j \in 1 .. n
      PROVE  \/ Block(program, j, begin[j], Edge(e, j + 1), dat[j], out')
             \/ Named(program, j, begin[j], Edge(e, j + 1), dat[j], out')
             \/ Dropped(program, j, begin[j], Edge(e, j + 1), dat[j])
  <2>1. PICK b \in Nat, d \in Nat : b = begin[j] /\ d = Edge(e, j + 1) /\ d <= e
    BY <1>6
  <2>2. \A k \in b + 1 .. d : out'[k] = out[k]
    BY <1>7, <2>1
  <2>3. CASE Block(program, j, begin[j], Edge(e, j + 1), dat[j], out)
    <3>1. Block(program, j, b, d, dat[j], out')
      BY <2>1, <2>2, <2>3, BlockStays
    <3>2. QED
      BY <2>1, <3>1
  <2>4. CASE Named(program, j, begin[j], Edge(e, j + 1), dat[j], out)
    <3>1. d \in b + 1 .. d
      BY <2>1, <2>4 DEF Named
    <3>2. out'[d] = out[d]
      BY <2>2, <3>1
    <3>3. QED
      BY <2>1, <2>4, <3>2 DEF Named
  <2>5. CASE Dropped(program, j, begin[j], Edge(e, j + 1), dat[j])
    BY <2>5
  <2>6. QED
    BY <1>2, <1>6, <2>3, <2>4, <2>5 DEF Blocks
<1>9. Blocks(e)'
  BY <1>1, <1>2, <1>5, <1>8 DEF Blocks
<1>10. Ordered(e)'
  <2>1. ASSUME NEW j \in 1 .. n
        PROVE  /\ begin[j] \in Nat
               /\ \A l \in j .. n + 1 :
                    /\ begin[j] <= Edge(e, l)'
                    /\ (\A m \in j .. l - 1 : code[m].op = "prfm") => begin[j] = Edge(e, l)'
    <3>1. ASSUME NEW l \in j .. n + 1
          PROVE  l \in 1 .. n + 1 /\ l <= cur /\ Edge(e, l)' = Edge(e, l)
      <4>1. l \in 1 .. n + 1 /\ l <= cur
        BY <1>2
      <4>2. QED
        BY <1>4, <4>1
    <3>2. QED
      BY <1>2, <1>6, <3>1 DEF Ordered
  <2>2. QED
    BY <1>1, <1>2, <2>1 DEF Ordered
<1>11. References'
  <2>1. ASSUME NEW j \in 1 .. n, Refers(program, j)
        PROVE  /\ Ref(program, j) < n + 1
               /\ out'[begin[j] + 1].off = Field(dat[Ref(program, j)] - (program.rx + begin[j]), ReachFor(code[j].op))
    <3>1. Ref(program, j) \in 1 .. n
      BY <1>2, <1>6, <2>1, TargetIsInt
    <3>2. Ref(program, j) < n + 1
      BY <3>1
    <3>3. out[begin[j] + 1].off = Field(dat[Ref(program, j)] - (program.rx + begin[j]), ReachFor(code[j].op))
      BY <1>2, <1>6, <2>1, <3>2 DEF References
    <3>4. ~Dropped(program, j, begin[j], Edge(e, j + 1), dat[j])
      BY <2>1 DEF Dropped, Refers, Waiting
    <3>5. ~Block(program, j, begin[j], Edge(e, j + 1), dat[j], out)
      BY <2>1, BlockIsNoReference
    <3>6. Named(program, j, begin[j], Edge(e, j + 1), dat[j], out)
      BY <1>2, <1>6, <3>4, <3>5 DEF Blocks
    <3>7. begin[j] + 1 \in begin[j] + 1 .. Edge(e, j + 1)
      BY <1>6, <3>6 DEF Named
    <3>8. out'[begin[j] + 1] = out[begin[j] + 1]
      BY <1>7, <3>7
    <3>9. QED
      BY <3>2, <3>3, <3>8
  <2>2. ASSUME NEW j \in 1 .. n, Refers(program, j)
        PROVE  Ref(program, j) < cur'
    <3>1. Ref(program, j) \in 1 .. n
      BY <1>2, <1>6, <2>2, TargetIsInt
    <3>2. QED
      BY <1>3, <3>1
  <2>3. QED
    BY <1>1, <1>2, <2>1, <2>2 DEF References
<1>12. Awaited(e)'
  <2>1. \A r \in 1 .. n : fmap[r] = {}
    <3>1. ASSUME NEW r \in 1 .. n, NEW f \in fmap[r]
          PROVE  FALSE
      <4>1. r >= cur
        BY <1>2, <1>6 DEF Awaited
      <4>2. QED
        BY <1>2, <4>1
    <3>2. QED
      BY <3>1
  <2>2. QED
    BY <1>1, <1>2, <2>1 DEF Awaited
<1>13. Laid(e)'
  <2>1. ~(cur' <= Len(code') + 1) /\ e \in 0 .. Len(out')
    BY <1>1, <1>2, <1>3, <1>6
  <2>2. begin' \in [1 .. Len(code') -> Int]
    BY <1>1, <1>2, <1>6
  <2>3. QED
    BY <1>1, <1>9, <1>10, <1>11, <1>12, <2>1, <2>2 DEF Laid
<1>14. QED
  BY <1>6, <1>13 DEF MInv

LEMMA InitLays ==
  ASSUME NEW p \in Programs, RelocateInit(p)
  PROVE  MInv
<1>1. program = p /\ cur = 1 /\ out = <<>> /\ code = p.code
  BY DEF RelocateInit, code
<1>2. DOMAIN p.code = 1 .. Len(p.code) /\ Len(p.code) \in Nat \ {0}
  BY ProgramTypes, LenProperties
<1>3. begin = [i \in 1 .. Len(code) |-> 0] /\ fmap = [i \in 1 .. Len(code) |-> {}]
  BY <1>1, <1>2 DEF RelocateInit
<1>4. Len(out) = 0
  BY <1>1, EmptySeq
<1>5. PICK e \in Nat : e = 0
  OBVIOUS
<1>6. \A j \in 1 .. Len(code) : ~(j < cur)
  BY <1>1, <1>2
<1>7. Blocks(e) /\ Ordered(e) /\ References
  BY <1>6 DEF Blocks, Ordered, References
<1>8. \A r \in 1 .. Len(code) : fmap[r] = {}
  BY <1>3
<1>9. Awaited(e)
  BY <1>8 DEF Awaited
<1>10. e \in 0 .. Len(out) /\ begin \in [1 .. Len(code) -> Int] /\ e = Len(out) /\ cur <= Len(code) + 1
  BY <1>1, <1>2, <1>3, <1>4, <1>5
<1>11. Laid(e)
  BY <1>7, <1>9, <1>10 DEF Laid
<1>12. QED
  BY <1>11 DEF MInv

LEMMA StepLays ==
  ASSUME RInv, MInv, [RelocateNext]_relocateVars
  PROVE  MInv'
<1>1. PICK e \in Nat : Laid(e)
  BY DEF MInv
<1>2. Len(code) \in Nat \ {0} /\ cur \in 1 .. Len(code) + 2
  BY StateTypes DEF RInv, Room
<1>3. CASE MoveWord
  <2>1. cur \in 1 .. Len(code)
    BY <1>2, <1>3 DEF MoveWord
  <2>2. cur <= Len(code) + 1
    BY <1>2, <2>1
  <2>3. e = Len(out)
    BY <1>1, <2>2 DEF Laid
  <2>4. Laying
    BY <1>1, <2>1, <2>3 DEF Laying
  <2>5. CASE FixBranch
    BY <2>4, <2>5, FixBranchLays
  <2>6. CASE FixConditional
    BY <2>4, <2>6, FixConditionalLays
  <2>7. CASE FixLiteral
    BY <2>4, <2>7, FixLiteralLays
  <2>8. CASE SkipPrefetch
    BY <2>4, <2>8, SkipPrefetchLays
  <2>9. CASE FixAdr
    BY <2>4, <2>9, FixAdrLays
  <2>10. CASE FixAdrp
    BY <2>4, <2>10, FixAdrpLays
  <2>11. CASE CopyWord
    BY <2>4, <2>11, CopyWordLays
  <2>12. QED
    BY <1>3, <2>5, <2>6, <2>7, <2>8, <2>9, <2>10, <2>11 DEF MoveWord
<1>4. CASE JumpBack
  <2>1. Laden(e)
    BY <1>1, <1>4 DEF Laden, JumpBack
  <2>2. QED
    BY <1>4, <2>1, JumpBackLays
<1>5. CASE UNCHANGED relocateVars
  <2>1. program' = program /\ cur' = cur /\ out' = out /\ dat' = dat /\ fmap' = fmap /\ begin' = begin
    BY <1>5 DEF relocateVars
  <2>2. \A j : Edge(e, j)' = Edge(e, j)
    BY <2>1 DEF Edge, code
  <2>3. Blocks(e)' /\ Ordered(e)' /\ References' /\ Awaited(e)'
    <3>1. Blocks(e)'
      BY <1>1, <2>1, <2>2 DEF Laid, Blocks, code
    <3>2. Ordered(e)'
      BY <1>1, <2>1, <2>2 DEF Laid, Ordered, code
    <3>3. References'
      BY <1>1, <2>1 DEF Laid, References, code
    <3>4. Awaited(e)'
      BY <1>1, <2>1, <2>2 DEF Laid, Awaited, code
    <3>5. QED
      BY <3>1, <3>2, <3>3, <3>4
  <2>4. Laid(e)'
    BY <1>1, <2>1, <2>3 DEF Laid, code
  <2>5. QED
    BY <2>4 DEF MInv
<1>6. QED
  BY <1>3, <1>4, <1>5 DEF RelocateNext

LEMMA LaidMeans ==
  ASSUME Ordinary, \A p \in Programs : JumpsElsewhere(p), RInv, MInv
  PROVE  MovedMeansTheSame
<1>1. CASE Moved
  <2>1. PICK e \in Nat : Laid(e)
    BY DEF MInv
  <2>2. Done(e)
    BY <1>1, <2>1 DEF Done, Moved
  <2>3. program \in Programs
    BY DEF RInv
  <2>4. JumpsElsewhere(program) /\ LiteralsElsewhere(program)
    BY <2>3 DEF Ordinary
  <2>5. QED
    BY <2>2, <2>4, LaidMeansTheSame
<1>2. CASE ~Moved
  BY <1>2 DEF MovedMeansTheSame
<1>3. QED
  BY <1>1, <1>2

(* Whatever words a function begins with, wherever it and its trampoline are,    *)
(* when none of them leads into the trampoline and the trampoline is in reach of *)
(* every branch within it: the words that __fix_instructions and its rewriting   *)
(* functions wrote do in the trampoline what they did in the function, every one *)
(* of them, and control goes on where it went on, over nops, data and words that *)
(* waited in the fix map; but for the words MovedMeansTheSame names, which the   *)
(* code moves wrongly.                                                           *)
THEOREM MovedWordsMeanTheSame ==
  ASSUME Ordinary, \A p \in Programs : JumpsElsewhere(p)
  PROVE  RelocateSpec => []MovedMeansTheSame
<1>1. (\E p \in Programs : RelocateInit(p)) => RInv /\ MInv
  BY RelocateInitRInv, InitLays
<1>2. RInv /\ MInv /\ [RelocateNext]_relocateVars => (RInv /\ MInv)'
  BY RelocateStepRInv, StepLays
<1>3. RInv /\ MInv => MovedMeansTheSame
  BY LaidMeans
<1>4. QED
  BY <1>1, <1>2, <1>3, PTL DEF RelocateSpec
===============================================================================
