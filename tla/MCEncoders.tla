------------------------------ MODULE MCEncoders ------------------------------
(* Every mnemonic with registers of both widths, the ends of the register file,  *)
(* and operands at and beyond the edges of the fields that hold them.            *)
EXTENDS Encoders

Zero == Reg(TRUE, 0)
Registers == {Reg(b, n) : b \in BOOLEAN, n \in {0, 21, 30, 31}}

\* An object of that mnemonic with no operands yet.
Object(mn) == [mn |-> mn, rd |-> Zero, rn |-> Zero, rm |-> Zero, imm |-> 0, shift |-> 0, amount |-> 0]

Immediates ==
  {[Object(mn) EXCEPT !.rd = r, !.rn = Reg(r.is64, 10), !.imm = i] :
     mn \in {"add", "adds", "sub", "subs"}, r \in Registers,
     i \in {0, 1, 2730, 4095, 4096, 4097, 2796 * 4096, 4095 * 4096, 4096 * 4096}}
  \cup {[Object(mn) EXCEPT !.rn = r, !.imm = i] : mn \in {"cmp", "cmn"}, r \in Registers, i \in {0, 45, 4095, 4096}}
  \cup {[Object(mn) EXCEPT !.rd = r, !.imm = i, !.shift = s] :
          mn \in Moves, r \in Registers, i \in {0, 1, 43690, 65535}, s \in 0 .. 3}
  \cup {[Object(mn) EXCEPT !.rd = r, !.imm = i] :
          mn \in {"adr", "adrp"}, r \in Registers,
          i \in {0, 1, 5, -1, -2, 4096, -4096, 2^20 - 1, -(2^20), 2^30, 2^29 + 4096}}

Jumps ==
  {[Object(mn) EXCEPT !.imm = i] : mn \in {"b", "bl"}, i \in {0, 4, -4, 2^27 - 4, -(2^27), 2^27, 17476}}
  \cup {[Object(mn) EXCEPT !.rn = r] : mn \in {"br", "ret"}, r \in Registers}
  \cup {Object("nop")}

Transfers ==
  {[Object("ldr_literal") EXCEPT !.rd = r, !.imm = i] : r \in Registers, i \in {0, 4, -4, 2^20 - 4, -(2^20), 2^20}}
  \cup {[Object(mn) EXCEPT !.rd = r, !.rn = Reg(TRUE, n), !.imm = i] :
          mn \in {"ldur", "stur", "ldr", "str"}, r \in Registers, n \in {1, 31},
          i \in {0, 1, -1, 255, -256, 256, 2730, 4095}}
  \cup {[Object(mn) EXCEPT !.rd = r, !.rn = Reg(TRUE, n), !.rm = Reg(r.is64, 17), !.shift = e, !.amount = a] :
          mn \in {"ldr_offset", "str_offset"}, r \in Registers, n \in {1, 31}, e \in 0 .. 7, a \in 0 .. 4}

Shifted ==
  {[Object("orr") EXCEPT !.rd = r, !.rn = Reg(TRUE, n), !.rm = Reg(r.is64, 17), !.shift = e, !.amount = a] :
     r \in Registers, n \in {1, 31}, e \in 0 .. 3, a \in {0, 1, 31, 42, 63}}
  \cup {[Object("mov") EXCEPT !.rd = r, !.rm = Reg(r.is64, n)] : r \in Registers, n \in {1, 31}}

MCOperations == Immediates \cup Jumps \cup Transfers \cup Shifted
===============================================================================
