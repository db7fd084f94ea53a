------------------------------- MODULE Table68k -------------------------------
(***************************************************************************)
(* The 68000's opcodes as the emulator knows them: the lines of            *)
(* src/cpu/table68k, the way build_insn of readcpu.c expands a line into    *)
(* opcodes, the merging of opcodes that share one generated function, and   *)
(* which of them the running program can execute (newcpu.c).               *)
(*                                                                         *)
(* A word is cut into the fields all its readings are made of:             *)
(*   op 15-12, reg 11-9, om 8-6, mode 5-3, er 2-0.                         *)
(***************************************************************************)
EXTENDS Integers, Sequences, FiniteSets

Digit == 0 .. 7
Word == [op : 0 .. 15, reg : Digit, om : Digit, mode : Digit, er : Digit]

Byte == 0
Wide == 1
Long == 2

\* What several fields make together.
Cond(w) == 2 * w.reg + w.om \div 4
LowByte(w) == 64 * (w.om % 4) + 8 * w.mode + w.er
Signed(byte) == IF byte < 128 THEN byte ELSE byte - 256
Size(w) == w.om % 4

(***************************************************************************)
(* Addressing modes.                                                       *)
(***************************************************************************)
ModeFromMr(mode, reg) ==
  IF mode < 7
  THEN <<"Dreg", "Areg", "Aind", "Aipi", "Apdi", "Ad16", "Ad8r">>[mode + 1]
  ELSE <<"absw", "absl", "PC16", "PC8r", "imm", "illg", "illg", "illg">>[reg + 1]

InRegister == {"Dreg", "Areg", "Aind", "Aipi", "Apdi", "Ad16", "Ad8r"}
Modes == InRegister \cup {"absw", "absl", "PC16", "PC8r", "imm"}
Unwritable == {"imm", "PC16", "PC8r"}

(***************************************************************************)
(* The operands of a line of table68k: Dr, DR, Ar, AR, Arp and ArP are     *)
(* registers, #z, #1, #2, #i, #j and #J immediates, s and d effective       *)
(* addresses with the modes they exclude, are limited to or are read as.    *)
(* "at" is the field that holds the register (or the field of a move's      *)
(* destination), "to" is TRUE for d.                                       *)
(***************************************************************************)
NoOperand == [k |-> "none"]
Reg(mode, at) == [k |-> "reg", mode |-> mode, at |-> at]
Dr == Reg("Dreg", "reg")
Ar == Reg("Areg", "reg")
DR == Reg("Dreg", "er")
AR == Reg("Areg", "er")
Imm(mode) == [k |-> "imm", mode |-> mode]
Ea(to, at, only, as) == [k |-> "ea", to |-> to, at |-> at, only |-> only, as |-> as]
S(not) == Ea(FALSE, "low", Modes \ not, "same")
D(not) == Ea(TRUE, "low", Modes \ not, "same")
DOnly(mode) == Ea(TRUE, "low", {mode}, "same")
DAs(from, mode) == Ea(TRUE, "low", {from}, mode)
MoveTo(modes) == Ea(TRUE, "high", modes, "same")

NotAreg == {"Areg"}
NotControl == {"Dreg", "Areg", "Aipi", "Apdi", "imm"}

\* A line: the values of the word's fields, the mnemonic (without the f of a
\* shift, which stands for R or L), the size, the operands and the CPU level.
Sized == 3                              \* .z: the size is in the word
Line(op, regs, oms, modes, ers, mn, sz, src, dst) ==
  [op |-> op, reg |-> regs, om |-> oms, mode |-> modes, er |-> ers,
   mn |-> mn, sz |-> sz, src |-> src, dst |-> dst, lev |-> 0]
EaLine(op, regs, oms, mn, sz, src, dst) ==
  Line(op, regs, oms, Digit, Digit, mn, sz, src, dst)
Fixed(reg, om, mode, ers, mn, sz, src, dst) ==
  Line(4, {reg}, {om}, {mode}, ers, mn, sz, src, dst)
From(lev, line) == [line EXCEPT !.lev = lev]

ImmediateLines ==
  {Line(0, {0}, {0}, {7}, {4}, "ORSR", Byte, Imm("imm1"), NoOperand),
   Line(0, {0}, {1}, {7}, {4}, "ORSR", Wide, Imm("imm1"), NoOperand),
   Line(0, {1}, {0}, {7}, {4}, "ANDSR", Byte, Imm("imm1"), NoOperand),
   Line(0, {1}, {1}, {7}, {4}, "ANDSR", Wide, Imm("imm1"), NoOperand),
   Line(0, {5}, {0}, {7}, {4}, "EORSR", Byte, Imm("imm1"), NoOperand),
   Line(0, {5}, {1}, {7}, {4}, "EORSR", Wide, Imm("imm1"), NoOperand),
   EaLine(0, {0}, 0 .. 3, "OR", Sized, Imm("imm"), D(NotAreg)),
   EaLine(0, {1}, 0 .. 3, "AND", Sized, Imm("imm"), D(NotAreg)),
   EaLine(0, {2}, 0 .. 3, "SUB", Sized, Imm("imm"), D(NotAreg)),
   EaLine(0, {3}, 0 .. 3, "ADD", Sized, Imm("imm"), D(NotAreg)),
   EaLine(0, {5}, 0 .. 3, "EOR", Sized, Imm("imm"), D(NotAreg)),
   EaLine(0, {6}, 0 .. 3, "CMP", Sized, Imm("imm"), S({"Areg", "imm"}))}

BitLines ==
  LET Pair(om, mn, not) == {EaLine(0, {4}, {om}, mn, Long, Imm("imm1"), S(not)),
                            EaLine(0, Digit, {om + 4}, mn, Long, Dr, S(not))}
  IN Pair(0, "BTST", NotAreg) \cup Pair(1, "BCHG", {"Areg", "imm"})
       \cup Pair(2, "BCLR", {"Areg", "imm"}) \cup Pair(3, "BSET", {"Areg", "imm"})

PeripheralLines ==
  {EaLine(0, Digit, {4}, "MVPMR", Wide, DAs("Areg", "Ad16"), Dr),
   EaLine(0, Digit, {5}, "MVPMR", Long, DAs("Areg", "Ad16"), Dr),
   EaLine(0, Digit, {6}, "MVPRM", Wide, Dr, DAs("Areg", "Ad16")),
   EaLine(0, Digit, {7}, "MVPRM", Long, Dr, DAs("Areg", "Ad16"))}

MoveLines ==
  {EaLine(1, Digit, Digit, "MOVE", Byte, S({}), MoveTo(Modes \ NotAreg)),
   EaLine(2, Digit, Digit, "MOVEA", Long, S({}), MoveTo({"Areg"})),
   EaLine(2, Digit, Digit, "MOVE", Long, S({}), MoveTo(Modes \ NotAreg)),
   EaLine(3, Digit, Digit, "MOVEA", Wide, S({}), MoveTo({"Areg"})),
   EaLine(3, Digit, Digit, "MOVE", Wide, S({}), MoveTo(Modes \ NotAreg)),
   EaLine(7, Digit, 0 .. 3, "MOVE", Long, Imm("immi"), Dr)}

OneOperandLines ==
  LET In4(reg, oms, mn, sz, src) == EaLine(4, {reg}, oms, mn, sz, src, NoOperand)
      Control == S(NotControl)
  IN {In4(0, 0 .. 3, "NEGX", Sized, D(NotAreg)), In4(1, 0 .. 3, "CLR", Sized, D(NotAreg)),
      In4(2, 0 .. 3, "NEG", Sized, D(NotAreg)), In4(3, 0 .. 3, "NOT", Sized, D(NotAreg)),
      In4(0, {3}, "MVSR2", Wide, D(NotAreg)),
      From(1, In4(1, {3}, "MVSR2", Byte, D(NotAreg))),
      In4(2, {3}, "MV2SR", Byte, S(NotAreg)), In4(3, {3}, "MV2SR", Wide, S(NotAreg)),
      In4(4, {0}, "NBCD", Byte, D(NotAreg)), In4(4, {1}, "SWAP", Wide, S(Modes \ {"Dreg"})),
      In4(4, {1}, "PEA", Long, Control),
      In4(4, {2}, "EXT", Wide, DOnly("Dreg")), In4(4, {3}, "EXT", Long, DOnly("Dreg")),
      In4(4, {7}, "EXT", Byte, DOnly("Dreg")),
      EaLine(4, {4}, {2}, "MVMLE", Wide, Imm("imm1"), D({"Dreg", "Areg", "Aipi"})),
      EaLine(4, {4}, {3}, "MVMLE", Long, Imm("imm1"), D({"Dreg", "Areg", "Aipi"})),
      EaLine(4, {6}, {2}, "MVMEL", Wide, Imm("imm1"), S({"Dreg", "Areg", "Apdi", "imm"})),
      EaLine(4, {6}, {3}, "MVMEL", Long, Imm("imm1"), S({"Dreg", "Areg", "Apdi", "imm"})),
      In4(5, 0 .. 3, "TST", Sized, S({})), In4(5, {3}, "TAS", Byte, D(NotAreg)),
      In4(7, {2}, "JSR", Long, Control), In4(7, {3}, "JMP", Long, Control),
      EaLine(4, Digit, {4}, "CHK", Long, S(NotAreg), Dr),
      EaLine(4, Digit, {6}, "CHK", Wide, S(NotAreg), Dr),
      EaLine(4, Digit, {7}, "LEA", Long, Control, Ar)}

SystemLines ==
  {Fixed(5, 3, 7, {4}, "ILLEGAL", Long, NoOperand, NoOperand),
   Line(4, {7}, {1}, {0, 1}, Digit, "TRAP", Long, Imm("immi"), NoOperand),
   Fixed(7, 1, 2, Digit, "LINK", Wide, AR, Imm("imm1")),
   Fixed(7, 1, 3, Digit, "UNLK", Long, AR, NoOperand),
   Fixed(7, 1, 4, Digit, "MVR2USP", Long, AR, NoOperand),
   Fixed(7, 1, 5, Digit, "MVUSP2R", Long, AR, NoOperand),
   Fixed(7, 1, 6, {2}, "STOP", Long, Imm("imm1"), NoOperand),
   Fixed(7, 1, 6, {4}, "RTD", Long, Imm("imm1"), NoOperand),
   From(1, Fixed(7, 1, 7, {2}, "MOVEC2", Long, Imm("imm1"), NoOperand)),
   From(1, Fixed(7, 1, 7, {3}, "MOVE2C", Long, Imm("imm1"), NoOperand))}
    \cup {Fixed(7, 1, 6, {er}, <<"RESET", "NOP", "", "RTE", "", "RTS", "TRAPV", "RTR">>[er + 1],
                Long, NoOperand, NoOperand) : er \in {0, 1, 3, 5, 6, 7}}

QuickLines ==
  {EaLine(5, Digit, {1}, "ADDA", Wide, Imm("immi"), DOnly("Areg")),
   EaLine(5, Digit, {2}, "ADDA", Long, Imm("immi"), DOnly("Areg")),
   EaLine(5, Digit, 0 .. 3, "ADD", Sized, Imm("immi"), D(NotAreg)),
   EaLine(5, Digit, {5}, "SUBA", Wide, Imm("immi"), DOnly("Areg")),
   EaLine(5, Digit, {6}, "SUBA", Long, Imm("immi"), DOnly("Areg")),
   EaLine(5, Digit, 4 .. 7, "SUB", Sized, Imm("immi"), D(NotAreg)),
   Line(5, Digit, {3, 7}, {1}, Digit, "DBcc", Wide, DR, Imm("imm1")),
   EaLine(5, Digit, {3, 7}, "Scc", Byte, D(NotAreg), NoOperand)}

BranchLines ==
  {Line(6, {0}, {4}, {0}, {0}, "BSR", Wide, Imm("imm1"), NoOperand),
   Line(6, {0}, 4 .. 7, Digit, Digit, "BSR", Byte, Imm("immi"), NoOperand),
   Line(6, {0}, {7}, {7}, {7}, "BSR", Long, Imm("imm2"), NoOperand),
   Line(6, Digit, {0, 4}, {0}, {0}, "Bcc", Wide, Imm("imm1"), NoOperand),
   Line(6, Digit, Digit, Digit, Digit, "Bcc", Byte, Imm("immi"), NoOperand),
   Line(6, Digit, {3, 7}, {7}, {7}, "Bcc", Long, Imm("imm2"), NoOperand)}

ArithmeticLines ==
  LET ToReg(op, mn, not) == EaLine(op, Digit, 0 .. 3, mn, Sized, S(not), Dr)
      ToEa(op, mn, not) == EaLine(op, Digit, 4 .. 7, mn, Sized, Dr, D(not))
      Times(op, om, mn) == EaLine(op, Digit, {om}, mn, Wide, S(NotAreg), Dr)
      ToAddr(op, om, mn, sz) == EaLine(op, Digit, {om}, mn, sz, S({}), Ar)
      Chain(op, oms, mn, sz) ==
        {EaLine(op, Digit, oms, mn, sz, DOnly("Dreg"), Dr),
         EaLine(op, Digit, oms, mn, sz, DAs("Areg", "Apdi"), Reg("Apdi", "reg"))}
  IN {ToReg(8, "OR", NotAreg), ToEa(8, "OR", {"Areg", "Dreg"}),
      Times(8, 3, "DIVU"), Times(8, 7, "DIVS"),
      ToReg(9, "SUB", {}), ToEa(9, "SUB", {"Areg", "Dreg"}),
      ToAddr(9, 3, "SUBA", Wide), ToAddr(9, 7, "SUBA", Long),
      ToReg(11, "CMP", {}), ToEa(11, "EOR", NotAreg),
      ToAddr(11, 3, "CMPA", Wide), ToAddr(11, 7, "CMPA", Long),
      EaLine(11, Digit, 4 .. 7, "CMPM", Sized, DAs("Areg", "Aipi"), Reg("Aipi", "reg")),
      ToReg(12, "AND", NotAreg), ToEa(12, "AND", {"Areg", "Dreg"}),
      Times(12, 3, "MULU"), Times(12, 7, "MULS"),
      EaLine(12, Digit, {5}, "EXG", Long, Dr, DOnly("Dreg")),
      EaLine(12, Digit, {5}, "EXG", Long, Ar, DOnly("Areg")),
      EaLine(12, Digit, {6}, "EXG", Long, Dr, DOnly("Areg")),
      ToReg(13, "ADD", {}), ToEa(13, "ADD", {"Areg", "Dreg"}),
      ToAddr(13, 3, "ADDA", Wide), ToAddr(13, 7, "ADDA", Long)}
       \cup Chain(8, {4}, "SBCD", Byte) \cup Chain(12, {4}, "ABCD", Byte)
       \cup Chain(9, 4 .. 7, "SUBX", Sized) \cup Chain(13, 4 .. 7, "ADDX", Sized)

ShiftName(n) == <<"AS", "LS", "ROX", "RO">>[n + 1]
ShiftLines ==
  {Line(14, Digit, Digit, {n}, Digit, ShiftName(n), Sized, Imm("immi"), DR) : n \in 0 .. 3}
    \cup {Line(14, Digit, Digit, {n + 4}, Digit, ShiftName(n), Sized, Dr, DR) : n \in 0 .. 3}
    \cup {EaLine(14, {n}, {3, 7}, ShiftName(n), Wide, D({"Dreg", "Areg"}), NoOperand) : n \in 0 .. 3}

Lines == ImmediateLines \cup BitLines \cup PeripheralLines \cup MoveLines
           \cup OneOperandLines \cup SystemLines \cup QuickLines \cup BranchLines
           \cup ArithmeticLines \cup ShiftLines
LinesOf == [op \in 0 .. 15 |-> {l \in Lines : l.op = op}]

(***************************************************************************)
(* build_insn: the operands, the opcode's entry, and what does not match.   *)
(***************************************************************************)

\* An operand read from the word: its mode, its register or value, and the
\* field the generated function takes it from ("no" when it is compiled in).
Value(line, w) ==
  CASE line.op = 5 /\ line.mn # "DBcc" -> IF w.reg = 0 THEN 8 ELSE w.reg    \* j
    [] line.op = 14 -> IF w.reg = 0 THEN 8 ELSE w.reg                      \* j
    [] line.mn = "TRAP" -> 8 * (w.mode % 2) + w.er                         \* J
    [] OTHER -> Signed(LowByte(w))                                         \* i
ValueField(line) ==
  CASE line.op \in {5, 14} -> "reg" [] line.mn = "TRAP" -> "trap" [] OTHER -> "byte"

\* Mutant: the register field is gathered in modes it selects, too.
GatheredAlways(mode, at) == IF mode = "imm" THEN "no" ELSE at
Gathered(mode, at) == IF mode \in InRegister THEN at ELSE "no"
EaOperand(spec, w) ==
  LET high == spec.at = "high"
      r == IF high THEN w.reg ELSE w.er
      m == ModeFromMr(IF high THEN w.om ELSE w.mode, r)
      mode == IF spec.as = "same" THEN m ELSE spec.as
  IN IF m \in spec.only /\ ~(spec.to /\ mode \in Unwritable)
     THEN {[mode |-> mode, reg |-> r, pos |-> Gathered(mode, IF high THEN "reg" ELSE "er")]}
     ELSE {}

Operand(spec, line, w) ==
  CASE spec.k = "none" -> {[mode |-> "none", reg |-> 0, pos |-> "no"]}
    [] spec.k = "reg" ->
         {[mode |-> spec.mode, reg |-> w[spec.at], pos |-> spec.at]}
    [] spec.k = "imm" /\ spec.mode = "immi" ->
         {[mode |-> "immi", reg |-> Value(line, w), pos |-> ValueField(line)]}
    [] spec.k = "imm" /\ spec.mode # "immi" -> {[mode |-> spec.mode, reg |-> 0, pos |-> "no"]}
    [] spec.k = "ea" -> EaOperand(spec, w)

LineSize(line, w) == IF line.sz = Sized THEN Size(w) ELSE line.sz
\* Mutant: displacement bytes 0 and 255 are not kept for the longer forms (I).
FitsAnyByte(line, w) ==
  /\ w.reg \in line.reg /\ w.om \in line.om /\ w.mode \in line.mode /\ w.er \in line.er
  /\ LineSize(line, w) # 3
  /\ line.mn = "Bcc" => Cond(w) # 1
Fits(line, w) ==
  /\ w.reg \in line.reg /\ w.om \in line.om /\ w.mode \in line.mode /\ w.er \in line.er
  /\ LineSize(line, w) # 3
  /\ line.mn = "Bcc" => Cond(w) # 1                                        \* C
  /\ line.op = 6 /\ line.sz = Byte => LowByte(w) \notin {0, 255}           \* I

SizeFits(sz, s, d) == ~(sz = Byte /\ "Areg" \in {s.mode, d.mode})

BitTests == {"BTST", "BCHG", "BCLR", "BSET"}
EntriesOf(line, w) ==
  LET sz == LineSize(line, w)
      mn == IF line.op = 14 THEN line.mn \o (IF w.om < 4 THEN "R" ELSE "L") ELSE line.mn
  IN {[mn |-> mn, src |-> p[1], dst |-> p[2], lev |-> line.lev,
       cc |-> IF mn \in {"Bcc", "DBcc", "Scc"} THEN Cond(w) ELSE 0,
       sz |-> IF mn \notin BitTests THEN sz
              ELSE IF p[2].mode = "Dreg" THEN Long ELSE Byte] :
        p \in {q \in Operand(line.src, line, w) \X Operand(line.dst, line, w) :
                 SizeFits(sz, q[1], q[2])}}

\* What table68k holds for the word: nothing for an illegal one.
Matches(w) == UNION {EntriesOf(l, w) : l \in {k \in LinesOf[w.op] : Fits(k, w)}}

\* op_illg_1, or a function: build_cpufunctbl, for a 68000.
CpuLevel == 0
Legal(w) == {e \in Matches(w) : e.lev <= CpuLevel}

(***************************************************************************)
(* handle_merges: the words that get the same function as w.               *)
(***************************************************************************)
Put(w, pos, v) ==
  CASE pos = "no" -> w
    [] pos = "reg" -> [w EXCEPT !.reg = v % 8]
    [] pos = "er" -> [w EXCEPT !.er = v % 8]
    [] pos = "trap" -> [w EXCEPT !.mode = (v % 16) \div 8, !.er = v % 8]
    [] pos = "byte" -> [w EXCEPT !.om = 4 * (@ \div 4) + v \div 64,
                                 !.mode = (v \div 8) % 8, !.er = v % 8]

SameInsn(e, f) ==
  /\ e.mn = f.mn /\ e.sz = f.sz
  /\ e.src.mode = f.src.mode /\ e.src.pos = f.src.pos
  /\ e.dst.mode = f.dst.mode /\ e.dst.pos = f.dst.pos

\* The words whose gathered fields hold s and d, if they are the same instruction.
MergedWith(w, e, s, d) ==
  LET x == Put(Put(w, e.src.pos, s), e.dst.pos, d)
  IN {f \in Matches(x) : SameInsn(f, e)}
=============================================================================
