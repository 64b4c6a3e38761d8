------------------------------- MODULE Relocate -------------------------------
(****************************************************************************)
(* Moving the first words of a hooked function into its trampoline:          *)
(* __fix_instructions of hook/nx64/hook_impl.cpp and its four rewriting      *)
(* functions.  An address counts 32-bit words; a word is an instruction with *)
(* its offset, in words, and the two bits of an adr below that.  Rd is one   *)
(* of the first eight registers: reg is what was ORed above its three bits.  *)
(****************************************************************************)
EXTENDS Integers, Sequences

CONSTANTS
  Reach14, Reach19, Reach26, \* an immediate of that many bits is in -Reach .. Reach - 1
  Wrap,                      \* words in the 4 GB an offset widened without its sign is off by
  PageSize,                  \* words of a page
  Programs                   \* [base, code, rx, rw]: function, its words, trampoline and its alias

Literals == {"ldrw", "ldrx", "ldrsw", "ldrs", "ldrd", "ldrq"}
Kinds == Literals \cup {"b", "bl", "cbz", "tbz", "prfm", "adr", "adrp", "other"}

ASSUME RelocateAssumption ==
  /\ {Reach14, Reach19, Reach26, Wrap, PageSize} \subseteq Nat \ {0}
  /\ Reach14 <= Reach19 /\ Reach19 <= Reach26 /\ 2 * Reach26 <= Wrap
  /\ \A p \in Programs :
       /\ p.base \in Int /\ p.rx \in Int /\ p.rw \in Int /\ p.rx % 2 = 0
       /\ p.code \in Seq([op : Kinds, off : Int, low : Int, reg : {0}]) /\ p.code # <<>>

VARIABLES
  program, \* what is moved
  cur,     \* the word being moved; Len(code) + 1 when only the jump back is left
  out,     \* the words written
  dat,     \* Context::dat[].ins: where each word went, 0 until it is known
  fmap,    \* Context::dat[].fmap: <<place in out, reach>> to be fixed when a word has its place
  begin    \* how much of out was written before each word

relocateVars == <<program, cur, out, dat, fmap, begin>>

I(op, off) == [op |-> op, off |-> off, low |-> 0, reg |-> 0]
NopWord == I("nop", 0)
LdrX17(off) == I("ldrx17", off)
BrX17 == I("brx17", 0)
Address(a, low) == <<[I("address", a) EXCEPT !.low = low], I("upperHalf", a)>>
Copied(a, n) == [k \in 1 .. n |-> I("copied", a + k - 1)]
Nops(n) == [k \in 1 .. n |-> NopWord]

code == program.code
Here(i) == program.base + i - 1     \* *inprxp
Outrx == program.rx + Len(out)      \* *outprx
Outrw == program.rw + Len(out)      \* *outprw
Magnitude(x) == IF x < 0 THEN -x ELSE x

\* Context::is_in_fixing_range and get_ref_ins_index.
InRange(a) == program.base <= a /\ a < program.base + Len(code)
RefIndex(a) == a - program.base + 1

\* An immediate cut to its field and read back.
Field(x, reach) == ((x + reach) % (2 * reach)) - reach

\* A bug: what waits for a word is fixed to where the code came from.
ProcessFixMapStale(words, i, place) ==
  [k \in DOMAIN words |->
     IF \E f \in fmap[i] : f[1] = k
     THEN [words[k] EXCEPT !.off = Field(Here(i) - (program.rx + k - 1), (CHOOSE f \in fmap[i] : f[1] = k)[2])]
     ELSE words[k]]

\* Context::process_fix_map: branches that waited for word i are completed.
ProcessFixMap(words, i, place) ==
  [k \in DOMAIN words |->
     IF \E f \in fmap[i] : f[1] = k
     THEN [words[k] EXCEPT !.off = Field(place - (program.rx + k - 1), (CHOOSE f \in fmap[i] : f[1] = k)[2])]
     ELSE words[k]]

\* Word cur is written as words, its place is noted and what waited is fixed.
Emit(words, place) ==
  /\ out' = ProcessFixMap(out \o words, cur, place)
  /\ dat' = [dat EXCEPT ![cur] = place]
  /\ begin' = [begin EXCEPT ![cur] = Len(out)]
  /\ cur' = cur + 1
  /\ UNCHANGED program

NoWait == fmap' = [fmap EXCEPT ![cur] = {}]

\* A word that names word ref of the same function: known or to be fixed.
EmitReference(word, ref, reach) ==
  IF ref <= cur
  THEN /\ Emit(<<[word EXCEPT !.off = Field((IF ref = cur THEN Outrx ELSE dat[ref]) - Outrx, reach)]>>, Outrx)
       /\ NoWait
  ELSE /\ Emit(<<[word EXCEPT !.off = 0]>>, Outrx)
       /\ fmap' = [fmap EXCEPT ![cur] = {}, ![ref] = @ \cup {<<Len(out) + 1, reach>>}]

-----------------------------------------------------------------------------
(* The rewriting functions. *)

\* A bug: a literal is placed without regard to its alignment.
PadCareless(behind, n) == 0

\* The nops that align what comes "behind" words later to n words.
Pad(behind, n) == (-(Outrx + behind)) % n

\* __fix_branch_imm: b and bl.
FixBranch ==
  LET w == code[cur]
      to == Here(cur) + w.off
      far == ~InRange(to) /\ Magnitude(to - Outrx) >= Reach26 - 1
      pad == IF w.op = "b" THEN Pad(2, 2) ELSE Pad(3, 2)
      jump == IF w.op = "b" THEN <<LdrX17(2), BrX17>> ELSE <<LdrX17(3), I("adrx30", 4), BrX17>>
  IN /\ w.op \in {"b", "bl"}
     /\ IF far THEN Emit(Nops(pad) \o jump \o Address(to, 0), Outrx + pad) /\ NoWait
        ELSE IF InRange(to) THEN EmitReference(w, RefIndex(to), Reach26)
        ELSE Emit(<<I(w.op, to - Outrx)>>, Outrx) /\ NoWait

ReachOf(op) == IF op = "tbz" THEN Reach14 ELSE Reach19

\* The offset of a conditional branch, cut out of the word without its sign.
Unsigned(off, reach) == off % (2 * reach)

\* __fix_cond_comp_test_branch: b.c, cbz and cbnz ("cbz"), tbz and tbnz ("tbz").
FixConditional ==
  LET w == code[cur]
      reach == ReachOf(w.op)
      to == Here(cur) + Unsigned(w.off, reach)
      far == ~InRange(to) /\ Magnitude(to - Outrx) >= reach - 1
      jump == <<I(w.op, 2), I("b", 5), LdrX17(2), BrX17>>
  IN /\ w.op \in {"cbz", "tbz"}
     /\ IF far THEN Emit(Nops(Pad(4, 2)) \o jump \o Address(to, 0), Outrx) /\ NoWait
        ELSE IF InRange(to) THEN EmitReference(w, RefIndex(to), reach)
        ELSE Emit(<<I(w.op, to - Outrx)>>, Outrx) /\ NoWait

\* Words of a literal: faligned + 1 over four.
LiteralWords(op) == CASE op \in {"ldrw", "ldrs"} -> 1 [] op \in {"ldrx", "ldrd", "ldrsw"} -> 2 [] op = "ldrq" -> 4

\* A signed 32-bit offset masked with an unsigned 3 and added to 64 bits.
Widened(off) == IF off < 0 THEN off + Wrap ELSE off

\* The opcode after the sign of the offset went over its two upper bits,
\* as far as its own mask lets it.
Oversigned(op, off) ==
  IF off >= 0 THEN op
  ELSE CASE op = "ldrw" -> "ldrx" [] op \in {"ldrs", "ldrd", "ldrq"} -> "undefined" [] OTHER -> op

\* A bug: the copied literal is one word short.
CopiedShort(a, n) == Copied(a, n - 1) \o <<NopWord>>

\* What the trampoline keeps of a literal it cannot reach.
Kept(a, n) == Copied(a, n)

\* __fix_loadlit: literals are copied when they are out of reach; prfm is dropped.
\* The copy of a literal before the function reads 4 GB off.  Where nothing is
\* mapped it faults and the program ends before this step, as a behaviour may:
\* there is no fairness.
FixLiteral ==
  LET w == code[cur]
      n == LiteralWords(w.op)
      from == Here(cur) + Widened(w.off)
      copy == InRange(from) \/ Magnitude(from - Outrx) + n - 1 >= Reach19 - 1
      pad == IF copy THEN Pad(2, n) ELSE (from - Outrx) % n
      near == from - Outrx - pad
  IN /\ w.op \in Literals
     /\ Emit(Nops(pad) \o (IF copy THEN <<I(w.op, 2), I("b", 1 + n)>> \o Kept(from, n)
                                   ELSE <<I(Oversigned(w.op, near), near)>>),
             Outrx + pad)
     /\ NoWait

SkipPrefetch ==
  /\ code[cur].op = "prfm"
  /\ Emit(<<>>, Outrx)
  /\ NoWait

\* __fix_pcreladdr, adr: the two low bits of the offset fall into Rd.
FixAdr ==
  LET w == code[cur]
      to == Here(cur) + Widened(w.off)
      far == ~InRange(to) /\ Magnitude(4 * (to - Outrx) + w.low) >= 4 * Reach19 - 1
      pad == Pad(2, 2)
  IN /\ w.op = "adr"
     /\ IF far THEN Emit(Nops(pad) \o <<I("ldrrd", 2), I("b", 3)>> \o Address(to, w.low), Outrx + pad) /\ NoWait
        ELSE IF InRange(to) THEN EmitReference(w, RefIndex(to), Reach19)
        ELSE Emit(<<[w EXCEPT !.off = to - Outrx, !.reg = w.low]>>, Outrx) /\ NoWait

PageOfWord(a) == a - (a % PageSize)

\* __fix_pcreladdr, adrp: its place is noted by the alias unless a nop was needed.
FixAdrp ==
  LET w == code[cur]
      to == PageOfWord(Here(cur)) + Widened(w.off * PageSize)
      pad == IF InRange(to) THEN 0 ELSE Pad(2, 2)
  IN /\ w.op = "adrp"
     /\ Emit(IF InRange(to) THEN <<w>> ELSE Nops(pad) \o <<I("ldrrd", 2), I("b", 3)>> \o Address(to, 0),
             IF pad = 0 THEN Outrw ELSE Outrx + pad)
     /\ NoWait

CopyWord ==
  /\ code[cur].op = "other"
  /\ Emit(<<code[cur]>>, Outrx)
  /\ NoWait

\* The jump behind the words that were moved.
JumpBack ==
  LET back == Here(Len(code) + 1)
  IN /\ cur = Len(code) + 1
     /\ out' = out \o IF Magnitude(back - Outrx) >= Reach26 - 1
                      THEN Nops(Pad(2, 2)) \o <<LdrX17(2), BrX17>> \o Address(back, 0)
                      ELSE <<I("b", back - Outrx)>>
     /\ cur' = cur + 1
     /\ UNCHANGED <<program, dat, fmap, begin>>

RelocateInit(p) ==
  /\ program = p
  /\ cur = 1
  /\ out = <<>>
  /\ dat = [i \in DOMAIN p.code |-> 0]
  /\ fmap = [i \in DOMAIN p.code |-> {}]
  /\ begin = [i \in DOMAIN p.code |-> 0]

MoveWord ==
  /\ cur <= Len(code)
  /\ FixBranch \/ FixConditional \/ FixLiteral \/ SkipPrefetch \/ FixAdr \/ FixAdrp \/ CopyWord

RelocateNext == MoveWord \/ JumpBack
RelocateSpec == (\E p \in Programs : RelocateInit(p)) /\ [][RelocateNext]_relocateVars

-----------------------------------------------------------------------------
(* What words do, where they were and in the trampoline: control goes to a     *)
(* place, which is a word of the function or an address outside it.            *)

Moved == cur = Len(code) + 2

\* The first word from i on that is not dropped, or the one behind the last.
FirstKept(i) == CHOOSE j \in i .. Len(code) + 1 :
                  /\ j = Len(code) + 1 \/ code[j].op # "prfm"
                  /\ \A k \in i .. j - 1 : code[k].op = "prfm"

WordPlace(i) ==
  IF FirstKept(i) > Len(code) THEN <<"at", Here(Len(code) + 1)>> ELSE <<"word", FirstKept(i)>>
Place(a) == IF InRange(a) THEN WordPlace(RefIndex(a)) ELSE <<"at", a>>

\* What word i did: <<effect, address, low bits>> and where control went.
Before(i) ==
  LET w == code[i]
      to == Here(i) + w.off
      next == WordPlace(i + 1)
  IN CASE w.op = "b" -> <<"go", Place(to)>>
       [] w.op = "bl" -> <<"call", Place(to), next>>
       [] w.op \in {"cbz", "tbz"} -> <<w.op, Place(to), next>>
       [] w.op \in Literals -> <<w.op, to, next>>
       [] w.op = "adr" -> <<"rd", 0, Place(to), w.low, next>>
       [] w.op = "adrp" -> <<"rd", 0, <<"at", PageOfWord(Here(i)) + w.off * PageSize>>, 0, next>>
       [] OTHER -> <<w.op, next>>

\* The word of the trampoline that the nops from k on lead to.
Skip(k) == CHOOSE j \in k .. Len(out) : out[j].op # "nop" /\ \A l \in k .. j - 1 : out[l].op = "nop"
InstructionOf(i) == Skip(begin[i] + 1)
KeptWords == {i \in DOMAIN code : code[i].op # "prfm"}

\* The words whose place in the trampoline the k-th word of it is.
WordsAt(k) == {i \in KeptWords : begin[i] < k /\ k <= InstructionOf(i)}

\* What the k-th word leads to: a moved word, an address, or another word.
Leads(k) ==
  IF k \notin DOMAIN out THEN <<"at", program.rx + k - 1>>
  ELSE IF WordsAt(k) # {} THEN <<"word", CHOOSE i \in WordsAt(k) : TRUE>>
  ELSE IF out[k].op = "ldrx17" THEN <<"at", out[k + out[k].off].off>>
  ELSE <<"on", k + IF out[k].op = "nop" THEN 1 ELSE out[k].off>>
On(place) == IF place[1] = "on" THEN Leads(place[2]) ELSE place

\* Where control gets from the k-th word on: nothing but a jump over data, and
\* then the jump back, a nop before it or not, is between words that were moved.
Goes(k) == On(On(Leads(k)))

\* The literal a load at the k-th word gets, if its words are all there.
Loaded(k, n) ==
  IF k \notin DOMAIN out THEN program.rx + k - 1
  ELSE IF \A t \in 0 .. n - 1 : out[k + t] = I("copied", out[k].off + t) THEN out[k].off ELSE -1

\* What word i does in the trampoline.
After(i) ==
  LET k == InstructionOf(i)
      w == out[k]
      next == Goes(k + 1)
  IN CASE w.op = "b" -> <<"go", Goes(k + w.off)>>
       [] w.op = "bl" -> <<"call", Goes(k + w.off), next>>
       [] w.op = "ldrx17" ->
            IF out[k + 1].op = "adrx30" THEN <<"call", <<"at", out[k + w.off].off>>, Goes(k + 1 + out[k + 1].off)>>
            ELSE <<"go", <<"at", out[k + w.off].off>>>>
       [] w.op \in {"cbz", "tbz"} -> <<w.op, Goes(k + w.off), next>>
       [] w.op \in Literals -> <<w.op, Loaded(k + w.off, LiteralWords(w.op)), next>>
       [] w.op = "ldrrd" -> <<"rd", 0, <<"at", out[k + w.off].off>>, out[k + w.off].low, next>>
       [] w.op = "adr" -> <<"rd", w.reg, Goes(k + w.off), w.low, next>>
       [] w.op = "adrp" -> <<"rd", 0, <<"at", PageOfWord(program.rx + k - 1) + w.off * PageSize>>, 0, next>>
       [] OTHER -> <<w.op, next>>

\* The words known to be moved wrongly.
LosesSign(i) == code[i].off < 0 /\ code[i].op \in {"cbz", "tbz", "adr", "adrp"} \cup Literals
LosesRegister(i) == code[i].op = "adr" /\ out[InstructionOf(i)].op = "adr" /\ ~InRange(Here(i) + code[i].off) /\ code[i].low # 0
LosesOpcode(i) ==
  /\ code[i].op \in Literals \ {"ldrx", "ldrsw"}
  /\ begin[i] + 1 <= Len(out) /\ Here(i) + code[i].off < program.rx + InstructionOf(i) - 1
LosesPage(i) == code[i].op = "adrp" /\ InRange(PageOfWord(Here(i)) + code[i].off * PageSize)
NamesAlias(i) ==
  /\ code[i].op \in {"b", "bl", "cbz", "tbz", "adr"}
  /\ LET to == Here(i) + code[i].off
     IN InRange(to) /\ code[RefIndex(to)].op = "adrp" /\ dat[RefIndex(to)] >= program.rw

\* Every word does in the trampoline what it did in the function, and goes on
\* where it went on, except for these: a negative offset of anything but b and
\* bl, an adr in reach with low bits, a 32-bit or vector literal in reach and
\* behind, an adrp of the function's own page, and what names an adrp.
MovedMeansTheSame ==
  Moved => \A i \in KeptWords :
    \/ After(i) = Before(i)
    \/ LosesSign(i) \/ LosesRegister(i) \/ LosesOpcode(i) \/ LosesPage(i) \/ NamesAlias(i)

\* The copies of what a trampoline holds as 64-bit or 128-bit data are aligned,
\* and all of it fits the ten words there are for each word moved.
DataIsAligned ==
  /\ Len(out) <= 10 * Len(code)
  /\ \A k \in DOMAIN out :
       /\ out[k].op = "address" => (program.rx + k - 1) % 2 = 0
       /\ Moved /\ out[k].op \in Literals /\ k + out[k].off \in DOMAIN out =>
            (program.rx + k - 1 + out[k].off) % LiteralWords(out[k].op) = 0

\* A moved adr loads the PC-relative address it loaded before, into its register.
AddressKept == Moved => \A i \in KeptWords : code[i].op = "adr" => After(i) = Before(i)
===============================================================================
