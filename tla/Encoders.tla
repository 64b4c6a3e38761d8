------------------------------- MODULE Encoders -------------------------------
(****************************************************************************)
(* The encoders of single instructions, lib/armv8/instructions: an object is *)
(* a word of bits, and its constructors, from the base class on, call the    *)
(* setters of its fields one after the other.  A word is the set of its bits *)
(* that are one; an operand is an integer, negative when its sign bit is set.*)
(****************************************************************************)
EXTENDS Integers, Sequences

CONSTANT Operations \* what is constructed: [mn, rd, rn, rm, imm, shift, amount]

Mnemonics ==
  {"add", "adds", "sub", "subs", "cmn", "cmp", "movn", "movz", "movk", "adr", "adrp", "b", "bl", "br", "ret", "nop",
   "ldr_literal", "ldur", "stur", "ldr", "str", "ldr_offset", "str_offset", "orr", "mov"}

\* The packed members of Register: a bit for the kind, seven for the index.
AnyRegister == [is64 : BOOLEAN, index : 0 .. 127]

ASSUME OperationsAssumption ==
  Operations \subseteq [mn : Mnemonics, rd : AnyRegister, rn : AnyRegister, rm : AnyRegister,
                        imm : Int, shift : Nat, amount : Nat]

VARIABLES
  operation, \* what is constructed
  setters,   \* the calls of setters that are left: <<low, high, value>>
  word       \* BitSet::m_Data

encoderVars == <<operation, setters, word>>

One(b) == IF b THEN 1 ELSE 0

\* register.hpp; None32 and None64 have all bits of their index set.
Reg(is64, index) == [is64 |-> is64, index |-> index]
None(is64) == Reg(is64, 127)

\* Bits low .. high - 1 become the lower bits of value.
SetBits(w, low, high, value) ==
  (w \ (low .. high - 1)) \cup {b \in low .. high - 1 : (value \div 2^(b - low)) % 2 = 1}

\* A 32-bit operand shifted right, or divided by a power of two, as unsigned.
ShiftedRight(value, n) == (value \div 2^n) + IF value < 0 THEN 2^(32 - n) ELSE 0

Instruction(op0) == <<<<25, 29, op0>>>>

-----------------------------------------------------------------------------
(* op100x: data processing with immediates. *)

Op100xInstruction(op0) == Instruction(8) \o <<<<23, 26, op0>>>>

AddSubtractImmediate(is64, op, s) ==
  Op100xInstruction(2) \o <<<<31, 32, One(is64)>>, <<30, 31, op>>, <<29, 30, s>>>>
CalcSh(imm) == imm # 0 /\ imm % 4096 = 0
CalcImm(imm) == (IF CalcSh(imm) THEN ShiftedRight(imm, 12) ELSE imm) % 65536
Operands(rd, rn, imm) ==
  <<<<0, 5, rd.index>>, <<5, 10, rn.index>>, <<10, 22, CalcImm(imm)>>, <<22, 23, One(CalcSh(imm))>>>>
AddImmediate(rd, rn, imm) == AddSubtractImmediate(rd.is64, 0, 0) \o Operands(rd, rn, imm)
AddsImmediate(rd, rn, imm) == AddSubtractImmediate(rd.is64, 0, 1) \o Operands(rd, rn, imm)
SubImmediate(rd, rn, imm) == AddSubtractImmediate(rd.is64, 1, 0) \o Operands(rd, rn, imm)
SubsImmediate(rd, rn, imm) == AddSubtractImmediate(rd.is64, 1, 1) \o Operands(rd, rn, imm)
CmnImmediate(reg, imm) == AddsImmediate(None(reg.is64), reg, imm)
CmpImmediate(reg, imm) == SubsImmediate(None(reg.is64), reg, imm)

MoveWideImmediate(reg, opc, hw, imm) ==
  Op100xInstruction(5) \o <<<<31, 32, One(reg.is64)>>, <<29, 31, opc>>, <<21, 23, hw>>, <<5, 21, imm>>,
                            <<0, 5, reg.index>>>>
Movn(reg, imm, shift) == MoveWideImmediate(reg, 0, shift, imm)
Movz(reg, imm, shift) == MoveWideImmediate(reg, 2, shift, imm)
Movk(reg, imm, shift) == MoveWideImmediate(reg, 3, shift, imm)

PcRelAddressing(reg, imm, op) ==
  Op100xInstruction(0) \o <<<<31, 32, op>>, <<29, 31, imm>>, <<5, 24, ShiftedRight(imm, 2)>>, <<0, 5, reg.index>>>>
Adr(reg, imm) == PcRelAddressing(reg, imm, 0)
Adrp(reg, imm) == PcRelAddressing(reg, ShiftedRight(imm, 12), 1)

-----------------------------------------------------------------------------
(* op101x: branches and hints. *)

Op101xInstruction(op0) == Instruction(10) \o <<<<29, 32, op0>>>>

Hints == Op101xInstruction(6) \o <<<<12, 26, 4146>>, <<0, 5, 31>>>>
Nop == Hints \o <<<<8, 12, 0>>, <<5, 8, 0>>>>

UnconditionalBranchImmediate(op, relative_address) ==
  Op101xInstruction(0) \o <<<<31, 32, op>>, <<0, 26, ShiftedRight(relative_address, 2)>>>>
Branch(relative_address) == UnconditionalBranchImmediate(0, relative_address)
BranchLink(relative_address) == UnconditionalBranchImmediate(1, relative_address)

\* A bug: the wide field of the class is written over the narrow ones in it.
UnconditionalBranchRegisterSwapped(opc, op2) ==
  Op101xInstruction(6) \o <<<<21, 25, opc>>, <<16, 21, op2>>, <<12, 26, 8192>>>>
UnconditionalBranchRegister(opc, op2) ==
  Op101xInstruction(6) \o <<<<12, 26, 8192>>, <<21, 25, opc>>, <<16, 21, op2>>>>

BranchRegister(rn) == UnconditionalBranchRegister(0, 31) \o <<<<10, 16, 0>>, <<5, 10, rn.index>>, <<0, 5, 0>>>>
Ret(rn) == UnconditionalBranchRegister(2, 31) \o <<<<10, 16, 0>>, <<5, 10, rn.index>>, <<0, 5, 0>>>>

-----------------------------------------------------------------------------
(* opx1x0: loads and stores. *)

Opx1x0Instruction(op0) == Instruction(4) \o <<<<28, 32, op0>>>>
SizeOf(rt) == 2 + One(rt.is64)

\* SignExtend does not change the bits that are kept of an immediate.
LoadRegisterLiteral(rt, imm19, v, opc) ==
  Opx1x0Instruction(1) \o <<<<28, 32, 1>>, <<23, 25, 0>>, <<30, 31, opc>>, <<26, 27, v>>, <<5, 24, imm19>>,
                            <<0, 5, rt.index>>>>
LdrLiteral(rt, relative_distance) == LoadRegisterLiteral(rt, ShiftedRight(relative_distance, 2), 0, One(rt.is64))

LoadStoreRegisterUnscaledImmediate(size, v, opc, imm9, rn, rt) ==
  Opx1x0Instruction(3) \o <<<<23, 25, 0>>, <<16, 22, 0>>, <<10, 12, 0>>, <<30, 32, size>>, <<26, 27, v>>,
                            <<22, 24, opc>>, <<12, 21, imm9>>, <<5, 10, rn.index>>, <<0, 5, rt.index>>>>
LdurUnscaledImmediate(rt, rn, imm9) == LoadStoreRegisterUnscaledImmediate(SizeOf(rt), 0, 1, imm9, rn, rt)
SturUnscaledImmediate(rt, rn, imm9) == LoadStoreRegisterUnscaledImmediate(SizeOf(rt), 0, 0, imm9, rn, rt)

LoadStoreRegisterUnsignedImmediate(size, v, opc, imm12, rn, rt) ==
  Opx1x0Instruction(3) \o <<<<23, 25, 2>>, <<30, 32, size>>, <<26, 27, v>>, <<22, 24, opc>>, <<10, 22, imm12>>,
                            <<5, 10, rn.index>>, <<0, 5, rt.index>>>>
LdrRegisterImmediate(rt, rn, imm12) == LoadStoreRegisterUnsignedImmediate(SizeOf(rt), 0, 1, imm12, rn, rt)
StrRegisterImmediate(rt, rn, imm12) == LoadStoreRegisterUnsignedImmediate(SizeOf(rt), 0, 0, imm12, rn, rt)

LoadStoreRegisterOffset(size, v, opc) ==
  Opx1x0Instruction(3) \o <<<<30, 32, size>>, <<22, 24, opc>>, <<26, 27, 0>>, <<23, 25, 0>>, <<16, 22, 32>>,
                            <<10, 12, 2>>, <<26, 27, v>>>>
\* UXTW is 2, LSL 3, SXTW 6 and SXTX 7; anything else silently becomes 0.
CreateOption(extend) == IF extend \in {2, 3, 6, 7} THEN extend ELSE 0
CreateS(rt, amount) == amount = IF rt.is64 THEN 3 ELSE 2
RegisterOffset(rt, rn, rm, extend, amount) ==
  <<<<30, 32, SizeOf(rt)>>, <<16, 21, rm.index>>, <<13, 16, CreateOption(extend)>>, <<12, 13, One(CreateS(rt, amount))>>,
    <<0, 5, rt.index>>, <<5, 10, rn.index>>>>
LdrRegisterOffset(rt, rn, rm, extend, amount) ==
  LoadStoreRegisterOffset(SizeOf(rt), 0, 1) \o RegisterOffset(rt, rn, rm, extend, amount)
StrRegisterOffset(rt, rn, rm, extend, amount) ==
  LoadStoreRegisterOffset(SizeOf(rt), 0, 0) \o RegisterOffset(rt, rn, rm, extend, amount)

-----------------------------------------------------------------------------
(* opx101: data processing with registers. *)

Opx101Instruction(op0, op1, op2, op3) ==
  Instruction(5) \o <<<<30, 31, op0>>, <<28, 29, op1>>, <<20, 24, op2>>, <<10, 15, op3>>>>
LogicalShiftedRegister(sf, opc) == Opx101Instruction(0, 0, 0, 0) \o <<<<31, 32, sf>>, <<29, 31, opc>>>>
OrrShiftedRegister(rd, rn, rm, shift, amount) ==
  LogicalShiftedRegister(One(rd.is64), 1) \o
  <<<<22, 24, shift>>, <<21, 22, 0>>, <<16, 21, rm.index>>, <<10, 16, amount>>, <<5, 10, rn.index>>, <<0, 5, rd.index>>>>
MovRegister(rd, rm) == OrrShiftedRegister(rd, None(rd.is64), rm, 0, 0)

-----------------------------------------------------------------------------

Constructors(o) ==
  CASE o.mn = "add" -> AddImmediate(o.rd, o.rn, o.imm)      [] o.mn = "adds" -> AddsImmediate(o.rd, o.rn, o.imm)
    [] o.mn = "sub" -> SubImmediate(o.rd, o.rn, o.imm)      [] o.mn = "subs" -> SubsImmediate(o.rd, o.rn, o.imm)
    [] o.mn = "cmn" -> CmnImmediate(o.rn, o.imm)            [] o.mn = "cmp" -> CmpImmediate(o.rn, o.imm)
    [] o.mn = "movn" -> Movn(o.rd, o.imm, o.shift)          [] o.mn = "movz" -> Movz(o.rd, o.imm, o.shift)
    [] o.mn = "movk" -> Movk(o.rd, o.imm, o.shift)
    [] o.mn = "adr" -> Adr(o.rd, o.imm)                     [] o.mn = "adrp" -> Adrp(o.rd, o.imm)
    [] o.mn = "b" -> Branch(o.imm)                          [] o.mn = "bl" -> BranchLink(o.imm)
    [] o.mn = "br" -> BranchRegister(o.rn)                  [] o.mn = "ret" -> Ret(o.rn)
    [] o.mn = "nop" -> Nop                                  [] o.mn = "ldr_literal" -> LdrLiteral(o.rd, o.imm)
    [] o.mn = "ldur" -> LdurUnscaledImmediate(o.rd, o.rn, o.imm)
    [] o.mn = "stur" -> SturUnscaledImmediate(o.rd, o.rn, o.imm)
    [] o.mn = "ldr" -> LdrRegisterImmediate(o.rd, o.rn, o.imm)
    [] o.mn = "str" -> StrRegisterImmediate(o.rd, o.rn, o.imm)
    [] o.mn = "ldr_offset" -> LdrRegisterOffset(o.rd, o.rn, o.rm, o.shift, o.amount)
    [] o.mn = "str_offset" -> StrRegisterOffset(o.rd, o.rn, o.rm, o.shift, o.amount)
    [] o.mn = "orr" -> OrrShiftedRegister(o.rd, o.rn, o.rm, o.shift, o.amount)
    [] o.mn = "mov" -> MovRegister(o.rd, o.rm)

EncoderInit(o) ==
  /\ operation = o
  /\ setters = Constructors(o)
  /\ word = {}

SetField ==
  /\ setters # <<>>
  /\ word' = SetBits(word, setters[1][1], setters[1][2], setters[1][3])
  /\ setters' = Tail(setters)
  /\ UNCHANGED operation

EncoderNext == SetField
EncoderSpec == (\E o \in Operations : EncoderInit(o)) /\ [][EncoderNext]_encoderVars

-----------------------------------------------------------------------------
(* The architecture's reading of the word. *)

Bits(low, high) ==
  LET f[b \in low .. high] == IF b = high THEN 0 ELSE One(b \in word) + 2 * f[b + 1] IN f[low]
SignedBits(low, high) == Bits(low, high) - IF high - 1 \in word THEN 2^(high - low) ELSE 0
Fixed(care, ones) == word \cap care = ones
RdIs(reg) == Bits(0, 5) = reg.index % 32
RnIs(reg) == Bits(5, 10) = reg.index % 32
RmIs(reg) == Bits(16, 21) = reg.index % 32
Wide(bit, reg) == (bit \in word) = reg.is64

AddsSubs == {"add", "adds", "sub", "subs", "cmn", "cmp"}
Moves == {"movn", "movz", "movk"}

\* Twelve bits, as they are or shifted left by twelve.
AdditionImmediate(imm) == imm \in 0 .. 4095 \/ (imm % 4096 = 0 /\ imm \div 4096 \in 0 .. 4095)

\* The operands the architecture has an encoding for.  Registers of an addition
\* have one width, which AddImmediate leaves to its callers; adrp takes its offset
\* as unsigned: a negative one is not among them.
EncodableAddition(o) == AdditionImmediate(o.imm) /\ (o.mn \in {"cmn", "cmp"} \/ o.rd.is64 = o.rn.is64)
EncodableMove(o) == o.imm \in 0 .. 2^16 - 1 /\ o.shift \in 0 .. IF o.rd.is64 THEN 3 ELSE 1
EncodableAddress(imm) == imm \in -(2^20) .. 2^20 - 1
EncodablePage(imm) == imm % 4096 = 0 /\ imm \div 4096 \in 0 .. 2^20 - 1
EncodableBranch(imm) == imm % 4 = 0 /\ imm \in -(2^27) .. 2^27 - 1
EncodableUnscaled(imm) == imm \in -256 .. 255
EncodableUnsigned(imm) == imm \in 0 .. 4095
EncodableOffset(o) == o.shift \in {2, 3, 6, 7} /\ o.amount \in {0, IF o.rd.is64 THEN 3 ELSE 2}
EncodableLogical(o) == o.shift \in 0 .. 3 /\ o.amount \in 0 .. IF o.rd.is64 THEN 63 ELSE 31

Encodable(o) ==
  CASE o.mn \in AddsSubs -> EncodableAddition(o)          [] o.mn \in Moves -> EncodableMove(o)
    [] o.mn = "adr" -> EncodableAddress(o.imm)            [] o.mn = "adrp" -> EncodablePage(o.imm)
    [] o.mn \in {"b", "bl"} -> EncodableBranch(o.imm)
    [] o.mn = "ldr_literal" -> o.imm % 4 = 0 /\ EncodableAddress(o.imm)
    [] o.mn \in {"ldur", "stur"} -> EncodableUnscaled(o.imm)
    [] o.mn \in {"ldr", "str"} -> EncodableUnsigned(o.imm)
    [] o.mn \in {"ldr_offset", "str_offset"} -> EncodableOffset(o)
    [] o.mn = "orr" -> EncodableLogical(o)                [] OTHER -> TRUE

DecodesAddition(o) ==
  /\ Fixed(23 .. 30, {24, 28} \cup (IF o.mn \in {"sub", "subs", "cmp"} THEN {30} ELSE {})
                              \cup (IF o.mn \in {"add", "sub"} THEN {} ELSE {29}))
  /\ Bits(10, 22) * (IF 22 \in word THEN 4096 ELSE 1) = o.imm
  /\ Wide(31, o.rn) /\ RnIs(o.rn)
  /\ IF o.mn \in {"cmn", "cmp"} THEN Bits(0, 5) = 31 ELSE RdIs(o.rd)
DecodesMove(o) ==
  /\ Fixed(23 .. 30, {23, 25, 28} \cup (IF o.mn = "movn" THEN {} ELSE IF o.mn = "movz" THEN {30} ELSE {29, 30}))
  /\ Wide(31, o.rd) /\ RdIs(o.rd) /\ Bits(5, 21) = o.imm /\ Bits(21, 23) = o.shift
DecodesAddress(o) ==
  /\ Fixed({24, 25, 26, 27, 28, 31}, {28} \cup IF o.mn = "adrp" THEN {31} ELSE {})
  /\ RdIs(o.rd)
  /\ 4 * SignedBits(5, 24) + Bits(29, 31) = IF o.mn = "adrp" THEN o.imm \div 4096 ELSE o.imm
DecodesBranch(o) ==
  Fixed(26 .. 31, {26, 28} \cup IF o.mn = "bl" THEN {31} ELSE {}) /\ 4 * SignedBits(0, 26) = o.imm
DecodesBranchRegister(o) ==
  /\ Fixed((0 .. 31) \ (5 .. 9), (16 .. 20) \cup {25, 26, 28, 30, 31} \cup IF o.mn = "ret" THEN {22} ELSE {})
  /\ RnIs(o.rn)
DecodesNop == word = (0 .. 4) \cup {13, 16, 17, 24, 26, 28, 30, 31}
DecodesLiteral(o) ==
  Fixed((24 .. 29) \cup {31}, {27, 28}) /\ Wide(30, o.rd) /\ RdIs(o.rd) /\ 4 * SignedBits(5, 24) = o.imm
DecodesUnscaled(o) ==
  /\ Fixed({10, 11, 21} \cup (22 .. 29) \cup {31}, (27 .. 29) \cup {31} \cup IF o.mn = "ldur" THEN {22} ELSE {})
  /\ Wide(30, o.rd) /\ RdIs(o.rd) /\ RnIs(o.rn) /\ SignedBits(12, 21) = o.imm
DecodesUnsigned(o) ==
  /\ Fixed((22 .. 29) \cup {31}, {24, 27, 28, 29, 31} \cup IF o.mn = "ldr" THEN {22} ELSE {})
  /\ Wide(30, o.rd) /\ RdIs(o.rd) /\ RnIs(o.rn) /\ Bits(10, 22) = o.imm
DecodesOffset(o) ==
  /\ Fixed({10, 11} \cup (21 .. 29) \cup {31}, {11, 21, 27, 28, 29, 31} \cup IF o.mn = "ldr_offset" THEN {22} ELSE {})
  /\ Wide(30, o.rd) /\ RdIs(o.rd) /\ RnIs(o.rn) /\ RmIs(o.rm)
  /\ Bits(13, 16) = o.shift /\ (12 \in word) = (o.amount # 0)
DecodesLogical(o) ==
  /\ Fixed({21} \cup (24 .. 30), {25, 27, 29})
  /\ Wide(31, o.rd) /\ RdIs(o.rd) /\ RmIs(o.rm)
  /\ IF o.mn = "mov" THEN Bits(5, 10) = 31 /\ Bits(10, 16) = 0 /\ Bits(22, 24) = 0
     ELSE RnIs(o.rn) /\ Bits(10, 16) = o.amount /\ Bits(22, 24) = o.shift

Decodes(o) ==
  CASE o.mn \in AddsSubs -> DecodesAddition(o)                   [] o.mn \in Moves -> DecodesMove(o)
    [] o.mn \in {"adr", "adrp"} -> DecodesAddress(o)             [] o.mn \in {"b", "bl"} -> DecodesBranch(o)
    [] o.mn \in {"br", "ret"} -> DecodesBranchRegister(o)        [] o.mn = "nop" -> DecodesNop
    [] o.mn = "ldr_literal" -> DecodesLiteral(o)                 [] o.mn \in {"ldur", "stur"} -> DecodesUnscaled(o)
    [] o.mn \in {"ldr", "str"} -> DecodesUnsigned(o)
    [] o.mn \in {"ldr_offset", "str_offset"} -> DecodesOffset(o) [] o.mn \in {"orr", "mov"} -> DecodesLogical(o)

\* Whatever the setters of the base classes wrote over one another, the word of
\* a finished object is the instruction, and its operands are the given ones.
EncodesTheOperands == setters = <<>> /\ Encodable(operation) => Decodes(operation)
===============================================================================
