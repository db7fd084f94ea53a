-------------------------------- MODULE As68k --------------------------------
(***************************************************************************)
(* What the assembler (src/as68k/as68k.c, asm_pass1) makes of one line: an  *)
(* opcode and the number of words written, or nothing when it stops with    *)
(* an error.  Every "strncmp" block of asm_pass1 is an operator.           *)
(***************************************************************************)
EXTENDS Dis68k

\* get_imm, get_ea: an operand's mode.  Any other word is taken for a label, a
\* long absolute address.
Names == {"ccr", "sr", "usp", "label"}
ModeOf(o) ==
  CASE o.m = "immi" -> "imm" [] o.m \in Names -> "absl" [] OTHER -> o.m
\* The flags of get_ea are sets of modes.
NoImmNoPcNoAreg == Modes \ {"imm", "PC16", "PC8r", "Areg"}
AllNoAreg == Modes \ {"Areg"}
NoImmNoPc == NoImmNoPcNoAreg \cup {"Areg"}
Control == {"Aind", "Ad16", "Ad8r", "absw", "absl", "PC16", "PC8r"}

\* check_range.  An immediate written in full fits.
InRange(o, sz) ==
  o.m = "immi" =>
    CASE sz = Byte -> o.r \in -128 .. 255
      [] sz = Wide -> o.r \in -32768 .. 65535
      [] OTHER -> TRUE
GetEa(o, sz, flags) == ModeOf(o) \in flags /\ (ModeOf(o) = "imm" => InRange(o, sz))
GetReg(o, flags) == o.m \in flags
GetImm(o) == ModeOf(o) = "imm"
Full == 100
ImmVal(o) == IF o.m = "immi" THEN o.r ELSE Full
Range(o, from, to) == GetImm(o) /\ ImmVal(o) \in from .. to

\* The second pass stops at a label that is not defined: ccr, sr and usp are not.
Defined(o) == o.m \notin {"ccr", "sr", "usp"}

\* The fields of an effective address, and wr_ea's words.
EaMode(o) ==
  LET m == ModeOf(o)
  IN IF m \in InRegister THEN CHOOSE i \in 0 .. 6 : ModeFromMr(i, 0) = m ELSE 7
EaReg(o) ==
  LET m == ModeOf(o)
  IN IF m \in InRegister THEN o.r ELSE CHOOSE i \in 0 .. 4 : ModeFromMr(7, i) = m
W(op, reg, om, mode, er) == [op |-> op, reg |-> reg, om |-> om, mode |-> mode, er |-> er]
Write(w, words) == {[w |-> w, words |-> words]}
WithEaOf(op, reg, om, o, sz, fixed) ==
  IF Defined(o)
  THEN Write(W(op, reg, om, EaMode(o), EaReg(o)), 1 + fixed + ExtWords(ModeOf(o), sz)) ELSE {}

HasSize(l) == l.sz \in {Byte, Wide, Long}
Bare(l) == l.sz = NoSize
Only(l) == l.dst = None                  \* check_end after the first operand

(***************************************************************************)
(* The blocks.                                                              *)
(***************************************************************************)
AsmAddq(l) ==
  If(l.mn \in {"addq", "subq"} /\ HasSize(l) /\ Range(l.src, 1, 8) /\ GetEa(l.dst, Long, NoImmNoPc)
       /\ ~(l.sz = Byte /\ l.dst.m = "Areg"),
     WithEaOf(5, ImmVal(l.src) % 8, (IF l.mn = "subq" THEN 4 ELSE 0) + l.sz, l.dst, Long, 0))

OneEa == [not |-> 3, negx |-> 0, neg |-> 2, clr |-> 1, tst |-> 5]
AsmOneEa(l) ==
  If(l.mn \in DOMAIN OneEa /\ HasSize(l) /\ GetEa(l.src, l.sz, NoImmNoPcNoAreg) /\ Only(l),
     WithEaOf(4, OneEa[l.mn], l.sz, l.src, l.sz, 0))

MulDiv == [divu |-> <<8, 3>>, divs |-> <<8, 7>>, mulu |-> <<12, 3>>, muls |-> <<12, 7>>]
AsmMulDiv(l) ==
  If(l.mn \in DOMAIN MulDiv /\ Bare(l) /\ GetEa(l.src, Wide, AllNoAreg) /\ GetReg(l.dst, {"Dreg"}),
     WithEaOf(MulDiv[l.mn][1], l.dst.r, MulDiv[l.mn][2], l.src, Wide, 0))

\* Addi and subi read the immediate as an address, the others as a number.
Immediates == [ori |-> 0, andi |-> 1, subi |-> 2, addi |-> 3, eori |-> 5, cmpi |-> 6]
AsmImmediate(l) ==
  If(l.mn \in DOMAIN Immediates /\ HasSize(l) /\ GetImm(l.src) /\ InRange(l.src, l.sz)
       /\ GetEa(l.dst, l.sz, NoImmNoPcNoAreg),
     WithEaOf(0, Immediates[l.mn], l.sz, l.dst, l.sz, ExtWords("imm", l.sz)))

ToAddress == [adda |-> 13, suba |-> 9, cmpa |-> 11]
AsmToAddress(l) ==
  If(l.mn \in DOMAIN ToAddress /\ l.sz \in {Wide, Long} /\ GetEa(l.src, l.sz, Modes)
       /\ GetReg(l.dst, {"Areg"}),
     WithEaOf(ToAddress[l.mn], l.dst.r, IF l.sz = Wide THEN 3 ELSE 7, l.src, l.sz, 0))

\* Mutant: source and destination of addx swapped.
AsmAddxSwapped(l) ==
  If(l.mn \in {"addx", "subx"} /\ HasSize(l) /\ l.src.m \in {"Dreg", "Apdi"} /\ l.dst.m = l.src.m,
     Write(W(IF l.mn = "addx" THEN 13 ELSE 9, l.src.r, 4 + l.sz,
             IF l.src.m = "Apdi" THEN 1 ELSE 0, l.dst.r), 1))
AsmAddx(l) ==
  If(l.mn \in {"addx", "subx"} /\ HasSize(l) /\ l.src.m \in {"Dreg", "Apdi"} /\ l.dst.m = l.src.m,
     Write(W(IF l.mn = "addx" THEN 13 ELSE 9, l.dst.r, 4 + l.sz,
             IF l.src.m = "Apdi" THEN 1 ELSE 0, l.src.r), 1))

\* Mutant: the source register is looked at first.
TwoWayFromDn(l, op, from, to) ==
  If(HasSize(l) /\ GetEa(l.src, l.sz, from) /\ GetEa(l.dst, l.sz, to),
     CASE l.src.m = "Dreg" -> WithEaOf(op, l.src.r, l.sz + 4, l.dst, l.sz, 0)
       [] l.src.m # "Dreg" /\ l.dst.m = "Dreg" -> WithEaOf(op, l.dst.r, l.sz, l.src, l.sz, 0)
       [] OTHER -> {})
\* One operand is a data register, the destination if both are.
TwoWay(l, op, from, to) ==
  If(HasSize(l) /\ GetEa(l.src, l.sz, from) /\ GetEa(l.dst, l.sz, to),
     CASE l.dst.m = "Dreg" -> WithEaOf(op, l.dst.r, l.sz, l.src, l.sz, 0)
       [] l.dst.m # "Dreg" /\ l.src.m = "Dreg" -> WithEaOf(op, l.src.r, l.sz + 4, l.dst, l.sz, 0)
       [] OTHER -> {})
AsmAddSub(l) ==
  If(l.mn \in {"add", "sub"}, TwoWay(l, IF l.mn = "add" THEN 13 ELSE 9, Modes, NoImmNoPcNoAreg))
AsmAndOr(l) ==
  If(l.mn \in {"and", "or"}, TwoWay(l, IF l.mn = "and" THEN 12 ELSE 8, AllNoAreg, NoImmNoPcNoAreg))
AsmEor(l) ==
  If(l.mn = "eor" /\ HasSize(l) /\ GetReg(l.src, {"Dreg"}) /\ GetEa(l.dst, l.sz, NoImmNoPcNoAreg),
     WithEaOf(11, l.src.r, 4 + l.sz, l.dst, l.sz, 0))

Bits == [btst |-> 0, bchg |-> 1, bclr |-> 2, bset |-> 3]
AsmBit(l) ==
  LET pc == IF l.mn = "btst" /\ GetImm(l.src) THEN {"PC16", "PC8r"} ELSE {}
  IN If(l.mn \in DOMAIN Bits /\ Bare(l) /\ GetEa(l.src, Byte, {"imm", "Dreg"})
          /\ GetEa(l.dst, Byte, NoImmNoPcNoAreg \cup pc),
        IF l.src.m = "Dreg" THEN WithEaOf(0, l.src.r, 4 + Bits[l.mn], l.dst, Byte, 0)
        ELSE WithEaOf(0, 4, Bits[l.mn], l.dst, Byte, 1))

ShiftOf == [asr |-> <<0, 0>>, asl |-> <<0, 4>>, lsr |-> <<1, 0>>, lsl |-> <<1, 4>>,
            roxr |-> <<2, 0>>, roxl |-> <<2, 4>>, ror |-> <<3, 0>>, rol |-> <<3, 4>>]
AsmShift(l) ==
  LET type == ShiftOf[l.mn][1]
      dir == ShiftOf[l.mn][2]
  IN If(l.mn \in DOMAIN ShiftOf /\ HasSize(l),
        CASE l.src.m = "Dreg" ->
               If(GetReg(l.dst, {"Dreg"}), Write(W(14, l.src.r, dir + l.sz, 4 + type, l.dst.r), 1))
          [] GetImm(l.src) ->
               If(GetReg(l.dst, {"Dreg"}) /\ Range(l.src, 1, 8),
                  Write(W(14, ImmVal(l.src) % 8, dir + l.sz, type, l.dst.r), 1))
          [] OTHER ->
               If(l.sz = Wide /\ GetEa(l.src, l.sz, NoImmNoPcNoAreg) /\ Only(l),
                  WithEaOf(14, type, 3 + dir, l.src, l.sz, 0)))

AsmSwap(l) == If(l.mn = "swap" /\ Bare(l) /\ GetReg(l.src, {"Dreg"}) /\ Only(l), Write(W(4, 4, 1, 0, l.src.r), 1))

\* A short branch's displacement is put into the opcode by the second pass; the
\* word is told apart by its low byte: 0 for the long form, 2 stands for the rest.
Short == 2
AsmBranch(l) ==
  LET cc == CASE l.mn = "bra" -> 0 [] l.mn = "bsr" -> 1 [] OTHER -> l.cc
  IN If(l.mn \in {"bra", "bsr", "bcc"} /\ (l.mn = "bcc" => l.cc > 1) /\ l.src = Target /\ Only(l),
        CASE l.sz = Byte -> Write(W(6, cc \div 2, 4 * (cc % 2), 0, Short), 1)
          [] l.sz = Wide -> Write(W(6, cc \div 2, 4 * (cc % 2), 0, 0), 2)
          [] OTHER -> {})
AsmDbcc(l) ==
  If(l.mn = "dbcc" /\ Bare(l) /\ GetReg(l.src, {"Dreg"}) /\ l.dst = Target,
     Write(W(5, l.cc \div 2, 4 * (l.cc % 2) + 3, 1, l.src.r), 2))

AsmCmpm(l) ==
  If(l.mn = "cmpm" /\ HasSize(l) /\ l.src.m = "Aipi" /\ l.dst.m = "Aipi",
     Write(W(11, l.dst.r, 4 + l.sz, 1, l.src.r), 1))
AsmCmp(l) ==
  If(l.mn = "cmp" /\ HasSize(l) /\ GetEa(l.src, l.sz, Modes) /\ ~(l.sz = Byte /\ l.src.m = "Areg")
       /\ GetReg(l.dst, {"Dreg"}),
     WithEaOf(11, l.dst.r, l.sz, l.src, l.sz, 0))
AsmExg(l) ==
  If(l.mn = "exg" /\ Bare(l),
     CASE l.src.m = "Areg" /\ l.dst.m = "Areg" -> Write(W(12, l.src.r, 5, 1, l.dst.r), 1)
       [] l.src.m = "Dreg" /\ l.dst.m = "Areg" -> Write(W(12, l.src.r, 6, 1, l.dst.r), 1)
       [] l.src.m = "Dreg" /\ l.dst.m = "Dreg" -> Write(W(12, l.src.r, 5, 0, l.dst.r), 1)
       [] OTHER -> {})
AsmExt(l) ==
  If(l.mn = "ext" /\ l.sz \in {Wide, Long} /\ GetReg(l.src, {"Dreg"}) /\ Only(l),
     Write(W(4, 4, l.sz + 1, 0, l.src.r), 1))

\* parse_movem: the mask of a list of ranges, d0 first, a7 first for -(Ax).
ParseMovem(pieces, pre) ==
  LET base(p) == IF p.bank = "a" THEN 8 ELSE 0
      regs == UNION {(base(p) + p.from) .. (base(p) + p.to) : p \in pieces}
  IN IF pre THEN {15 - r : r \in regs} ELSE regs

AsmMovem(l) ==
  If(l.mn = "movem" /\ l.sz \in {Wide, Long},
     CASE l.src = RegList /\ GetEa(l.dst, l.sz, (Control \cup {"Apdi"}) \ {"PC16", "PC8r"}) ->
            WithEaOf(4, 4, 1 + l.sz, l.dst, l.sz, 1)
       [] l.dst = RegList /\ GetEa(l.src, l.sz, Control \cup {"Aipi"}) ->
            WithEaOf(4, 6, 1 + l.sz, l.src, l.sz, 1)
       [] OTHER -> {})

Plain4 == [reset |-> <<7, 1, 6, 0>>, nop |-> <<7, 1, 6, 1>>, rte |-> <<7, 1, 6, 3>>,
           rts |-> <<7, 1, 6, 5>>, trapv |-> <<7, 1, 6, 6>>, illegal |-> <<5, 3, 7, 4>>]
AsmPlain(l) ==
  If(l.mn \in DOMAIN Plain4 /\ Bare(l) /\ l.src = None /\ Only(l),
     LET f == Plain4[l.mn] IN Write(W(4, f[1], f[2], f[3], f[4]), 1))
AsmHost(l) ==
  CASE l.mn = "hostcall" /\ Bare(l) /\ l.src = None /\ Only(l) -> Write(W(0, 0, 0, 1, 2), 1)
    [] l.mn = "hcall" /\ Bare(l) /\ GetImm(l.src) /\ InRange(l.src, Wide) /\ Only(l) -> Write(W(0, 0, 0, 1, 3), 2)
    [] OTHER -> {}
AsmTrap(l) ==
  If(l.mn = "trap" /\ Bare(l) /\ Range(l.src, 0, 15) /\ Only(l),
     Write(W(4, 7, 1, ImmVal(l.src) \div 8, ImmVal(l.src) % 8), 1))
AsmLink(l) ==
  CASE l.mn = "link" /\ Bare(l) /\ GetReg(l.src, {"Areg"}) /\ GetImm(l.dst) /\ InRange(l.dst, Wide) ->
           Write(W(4, 7, 1, 2, l.src.r), 2)
    [] l.mn = "unlk" /\ Bare(l) /\ GetReg(l.src, {"Areg"}) /\ Only(l) -> Write(W(4, 7, 1, 3, l.src.r), 1)
    [] OTHER -> {}

AsmMoveq(l) ==
  LET byte == ImmVal(l.src) % 256
  IN If(l.mn = "moveq" /\ Bare(l) /\ GetImm(l.src) /\ InRange(l.src, Byte) /\ GetReg(l.dst, {"Dreg"}),
        Write(W(7, l.dst.r, byte \div 64, (byte \div 8) % 8, byte % 8), 1))

\* move_size of the assembler.
OpSize(sz) == <<1, 3, 2>>[sz + 1]
ToAreg(l) ==
  If(l.sz # Byte /\ GetEa(l.src, l.sz, Modes), WithEaOf(OpSize(l.sz), l.dst.r, 1, l.src, l.sz, 0))
AsmMovea(l) == If(l.mn = "movea" /\ HasSize(l) /\ GetReg(l.dst, {"Areg"}), ToAreg(l))
AsmMove(l) ==
  LET sr == Special("sr")
  IN If(l.mn = "move" /\ HasSize(l) /\ GetEa(l.src, l.sz, Modes) /\ GetEa(l.dst, l.sz, NoImmNoPc),
        CASE l.src = sr -> If(l.sz = Wide, WithEaOf(4, 0, 3, l.dst, l.sz, 0))
          [] l.src # sr /\ l.dst.m = "Areg" -> ToAreg(l)
          [] l.src # sr /\ l.dst = sr -> If(l.sz = Wide, WithEaOf(4, 3, 3, l.src, l.sz, 0))
          [] OTHER ->
               If(Defined(l.dst),
                  {[x EXCEPT !.words = @ + ExtWords(ModeOf(l.dst), l.sz)] :
                     x \in WithEaOf(OpSize(l.sz), EaReg(l.dst), EaMode(l.dst), l.src, l.sz, 0)}))

AsmPea(l) ==
  If(l.mn = "pea" /\ Bare(l) /\ GetEa(l.src, Long, Control) /\ Only(l), WithEaOf(4, 4, 1, l.src, Long, 0))
AsmLea(l) ==
  If(l.mn = "lea" /\ Bare(l) /\ GetEa(l.src, Long, Control) /\ GetReg(l.dst, {"Areg"}),
     WithEaOf(4, l.dst.r, 7, l.src, Long, 0))
AsmJump(l) ==
  If(l.mn \in {"jsr", "jmp"} /\ Bare(l) /\ GetEa(l.src, Long, Control) /\ Only(l),
     WithEaOf(4, 7, IF l.mn = "jsr" THEN 2 ELSE 3, l.src, Long, 0))
AsmScc(l) ==
  If(l.mn = "scc" /\ Bare(l) /\ GetEa(l.src, Byte, NoImmNoPcNoAreg) /\ Only(l),
     WithEaOf(5, l.cc \div 2, 4 * (l.cc % 2) + 3, l.src, Byte, 0))

\* asm_pass1: the first block whose name the line has; "Unknown opcode" otherwise.
Assembled(l) ==
  UNION {AsmAddq(l), AsmOneEa(l), AsmMulDiv(l), AsmImmediate(l), AsmToAddress(l), AsmAddx(l),
         AsmAddSub(l), AsmAndOr(l), AsmEor(l), AsmBit(l), AsmShift(l), AsmSwap(l), AsmBranch(l),
         AsmDbcc(l), AsmCmpm(l), AsmCmp(l), AsmExg(l), AsmExt(l), AsmMovem(l), AsmPlain(l),
         AsmHost(l), AsmTrap(l), AsmLink(l), AsmMoveq(l), AsmMovea(l), AsmMove(l), AsmPea(l),
         AsmLea(l), AsmJump(l), AsmScc(l)}
=============================================================================
