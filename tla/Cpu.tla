-------------------------------- MODULE Cpu ---------------------------------
(***************************************************************************)
(* The instructions of the emulated CPU (src/cpu.cc,                       *)
(* src/cpu_instructions.cc) on words of W bits with immediates of I bits,  *)
(* and what the emulator does when one raises an exception (src/cpu.h,     *)
(* src/cp0.h).  The pc counts instructions, so that no fetch is unaligned  *)
(* (one would raise AdEL, as an unaligned load does).  There are no branch *)
(* delay slots: a branch sets the pc at once.                              *)
(*                                                                         *)
(* The CPU is a record: the registers a program uses (reg), hi and lo, pc, *)
(* sp, the two scratch registers k0 and k1, and of CP0 the bits UM, IE and *)
(* EXL of Status, ExcCode of Cause, and EPC.                               *)
(***************************************************************************)
EXTENDS Integers, Sequences, Bitwise

CONSTANTS W, I

ASSUME WidthAssumption == W \in Nat /\ I \in 1..W

Word == 0..(2 ^ W - 1)

Wrap(n) == n % 2 ^ W

(* int32_t(x), int16_t(imm) *)
Signed(x) == IF x < 2 ^ (W - 1) THEN x ELSE x - 2 ^ W

signed_immediate(i) == IF i < 2 ^ (I - 1) THEN i ELSE i - 2 ^ I

Bit(b) == IF b THEN 1 ELSE 0

Complement(x) == 2 ^ W - 1 - x

(* shifts; the build's shift instructions take the count modulo the width *)
ShiftLeft(x, n) == Wrap(x * 2 ^ (n % W))

ShiftRight(x, n) == x \div 2 ^ (n % W)

ShiftArithmetic(x, n) == Wrap(Signed(x) \div 2 ^ (n % W))

(* rd := rs op rt, for the shifts rt op rs *)
Alu(op, x, y) ==
    CASE op = "addu" -> Wrap(x + y)
      [] op = "subu" -> Wrap(x - y)
      [] op = "and"  -> x & y
      [] op = "or"   -> x | y
      [] op = "xor"  -> x ^^ y
      [] op = "nor"  -> Complement(x | y)
      [] op = "slt"  -> Bit(Signed(x) < Signed(y))
      [] op = "sltu" -> Bit(x < y)
      [] op = "sllv" -> ShiftLeft(y, x)
      [] op = "srlv" -> ShiftRight(y, x)
      [] op = "srav" -> ShiftArithmetic(y, x)

AluOps == {"addu", "subu", "and", "or", "xor", "nor", "slt", "sltu", "sllv", "srlv", "srav"}

(* rt := rs op immediate; the shifts take shift() and lui no register.
   sltiu compares with the immediate zero-extended *)
AluImmediate(op, x, i) ==
    CASE op = "addiu" -> Wrap(x + signed_immediate(i))
      [] op = "slti"  -> Bit(Signed(x) < signed_immediate(i))
      [] op = "sltiu" -> Bit(x < i)
      [] op = "andi"  -> x & i
      [] op = "ori"   -> x | i
      [] op = "xori"  -> x ^^ i
      [] op = "lui"   -> Wrap(i * 2 ^ (W - I))
      [] op = "sll"   -> ShiftLeft(x, i)
      [] op = "srl"   -> ShiftRight(x, i)
      [] op = "sra"   -> ShiftArithmetic(x, i)

ImmediateOps == {"addiu", "slti", "sltiu", "andi", "ori", "xori", "lui", "sll", "srl", "sra"}

Taken(op, x, y) ==
    CASE op = "beq"  -> x = y
      [] op = "bne"  -> x # y
      [] op = "blez" -> Signed(x) <= 0
      [] op = "bgtz" -> Signed(x) > 0
      [] op = "bltz" -> Signed(x) < 0
      [] op = "bgez" -> Signed(x) >= 0

BranchOps == {"beq", "bne", "blez", "bgtz", "bltz", "bgez"}

-----------------------------------------------------------------------------
(* An instruction is a record [op, rd, rs, rt, imm]; rd is the register    *)
(* written, imm also the target of j and jal.                              *)

SetReg(c, r, x) == [c EXCEPT !.reg[r] = x, !.pc = @ + 1]

exe_branch(c, i) ==
    [c EXCEPT !.pc = Wrap(@ + 1 + (IF Taken(i.op, c.reg[i.rs], c.reg[i.rt])
                                   THEN signed_immediate(i.imm) ELSE 0))]

exe_jump(c, i) ==
    CASE i.op = "j"    -> [c EXCEPT !.pc = i.imm]
      [] i.op = "jal"  -> [c EXCEPT !.pc = i.imm, !.reg["ra"] = c.pc + 1]
      [] i.op = "jr"   -> [c EXCEPT !.pc = c.reg[i.rs]]
      [] i.op = "jalr" -> [c EXCEPT !.pc = c.reg[i.rs], !.reg[i.rd] = c.pc + 1]

JumpOps == {"j", "jal", "jr", "jalr"}

(* mult multiplies the words as unsigned numbers *)
exe_mult(c, i) ==
    [c EXCEPT !.hi = (c.reg[i.rs] * c.reg[i.rt]) \div 2 ^ W,
              !.lo = Wrap(c.reg[i.rs] * c.reg[i.rt]),
              !.pc = @ + 1]

exe_hilo(c, i) ==
    CASE i.op = "mult" -> exe_mult(c, i)
      [] i.op = "mfhi" -> SetReg(c, i.rd, c.hi)
      [] i.op = "mflo" -> SetReg(c, i.rd, c.lo)
      [] i.op = "mthi" -> [c EXCEPT !.hi = c.reg[i.rs], !.pc = @ + 1]
      [] i.op = "mtlo" -> [c EXCEPT !.lo = c.reg[i.rs], !.pc = @ + 1]

HiLoOps == {"mult", "mfhi", "mflo", "mthi", "mtlo"}

(* the instructions that cannot raise an exception *)
Execute(c, i) ==
    CASE i.op \in AluOps       -> SetReg(c, i.rd, Alu(i.op, c.reg[i.rs], c.reg[i.rt]))
      [] i.op \in ImmediateOps -> SetReg(c, i.rd, AluImmediate(i.op, c.reg[i.rs], i.imm))
      [] i.op \in BranchOps    -> exe_branch(c, i)
      [] i.op \in JumpOps      -> exe_jump(c, i)
      [] i.op \in HiLoOps      -> exe_hilo(c, i)
      [] i.op = "cache"        -> [c EXCEPT !.pc = @ + 1]

-----------------------------------------------------------------------------
(* Memory is little-endian; a byte has W \div 4 bits.                      *)

Byte == 2 ^ (W \div 4)

Address(c, i) == Wrap(c.reg[i.rs] + signed_immediate(i.imm))

read_half_word(m, x) == m[x] + Byte * m[x + 1]

read_word(m, x) == read_half_word(m, x) + Byte ^ 2 * read_half_word(m, x + 2)

SignedByte(b) == Wrap(IF b < Byte \div 2 THEN b ELSE b - Byte)

Loaded(op, m, x) ==
    CASE op = "lw"  -> read_word(m, x)
      [] op = "lhu" -> read_half_word(m, x)
      [] op = "lbu" -> m[x]
      [] op = "lb"  -> SignedByte(m[x])

Stored(op, m, x, v) ==
    CASE op = "sb" -> [m EXCEPT ![x] = v % Byte]
      [] op = "sw" -> [y \in DOMAIN m |-> IF y \in x..(x + 3)
                                          THEN (v \div Byte ^ (y - x)) % Byte
                                          ELSE m[y]]

LoadOps == {"lw", "lhu", "lbu", "lb"}

StoreOps == {"sw", "sb"}

Aligned(op, x) ==
    CASE op \in {"lw", "sw"} -> x % 4 = 0
      [] op = "lhu"          -> x % 2 = 0
      [] OTHER               -> TRUE

(* the exception an instruction raises: the address is checked before it
   is translated, a store needs the D bit of its page besides, and an
   instruction the decoder does not know, div among them, is reserved *)
Raises(c, i, mapped, writable) ==
    CASE i.op = "syscall" -> "Sys"
      [] i.op = "div"     -> "RI"
      [] i.op \in LoadOps ->
            IF ~Aligned(i.op, Address(c, i)) THEN "AdEL"
            ELSE IF mapped THEN "none" ELSE "TLBL"
      [] i.op \in StoreOps ->
            IF ~Aligned(i.op, Address(c, i)) THEN "AdES"
            ELSE IF ~mapped THEN "TLBS"
            ELSE IF writable THEN "none" ELSE "Mod"
      [] OTHER -> "none"

-----------------------------------------------------------------------------
(* exceptions *)

VECTOR == -1

(* run: EPC is kept when the CPU is at exception level already *)
Exception(c, code) ==
    [c EXCEPT !.epc = IF c.exl THEN @ ELSE c.pc,
              !.pc = VECTOR,
              !.exl = TRUE,
              !.exc = code]

interrupt_enabled(c) == c.ie /\ ~c.exl

(* next, once the instruction is done: Count may have reached Compare; the
   interrupt is lost when it is not enabled *)
Retired(c) == IF interrupt_enabled(c) THEN {c, Exception(c, "Int")} ELSE {c}

exe_eret(c) == [c EXCEPT !.pc = c.epc, !.exl = FALSE]
=============================================================================
