-------------------------------- MODULE Dis68k --------------------------------
(***************************************************************************)
(* What the disassembler (src/dis68k/dis68k.c, dump_code) makes of one      *)
(* opcode: a line of assembler, or dc.w.  Every block of dump_code is an    *)
(* operator: a set with the line it prints, empty when it breaks out.      *)
(*                                                                         *)
(* What follows the opcode is told apart as far as the code looks at it:    *)
(*   Plain    nothing in it stops the disassembler;                        *)
(*   1, 2, 3  that extension word has a high byte and a scale field that    *)
(*            are not zero, as no index word and no byte immediate has;     *)
(*   Outside  a branch would leave the program;                            *)
(*   ZeroNext the next word is zero.                                       *)
(***************************************************************************)
EXTENDS Table68k

Plain == 0
Outside == 4
ZeroNext == 5
Follows == 0 .. 5

NoSize == 3
Op(m, r) == [m |-> m, r |-> r]
None == Op("none", 0)
Immediate == Op("imm", 4)
Quick(n) == Op("immi", n)
D_(r) == Op("Dreg", r)
A_(r) == Op("Areg", r)
Target == Op("label", 0)
RegList == Op("list", 0)
Special(name) == Op(name, 0)

\* A line: mnemonic, condition, size, operands and how many words were read.
Says(mn, sz, src, dst, words) ==
  {[mn |-> mn, cc |-> 0, sz |-> sz, src |-> src, dst |-> dst, words |-> words]}
SaysCc(mn, cc, sz, src, dst, words) ==
  {[mn |-> mn, cc |-> cc, sz |-> sz, src |-> src, dst |-> dst, words |-> words]}

Type1(w) == 16 * w.op + 2 * w.reg + w.om \div 4
Mode(w) == ModeFromMr(w.mode, w.er)
PutAdrmod(w) == Op(Mode(w), w.er)

\* put_adrmod, put_imm: the words an operand takes.
ExtWords(m, sz) ==
  CASE m \in {"Ad16", "Ad8r", "absw", "PC16", "PC8r"} -> 1
    [] m = "absl" -> 2
    [] m = "imm" -> IF sz = Long THEN 2 ELSE 1
    [] OTHER -> 0

\* is_adrmod: whether the mode exists and its index word is one; the immediate
\* data in front of it, of size "skip", is skipped.
NoSkip == -1
IndexWord(skip) == CASE skip = NoSkip -> 1 [] skip \in {Byte, Wide} -> 2 [] OTHER -> 3
IsMode(m, sz, skip, q) ==
  CASE m \in {"Ad8r", "PC8r"} -> q # IndexWord(skip)
    [] m = "imm" -> sz # NoSize /\ (sz = Byte => q # 1)
    [] m = "illg" -> FALSE
    [] OTHER -> TRUE
IsAdrmod(w, sz, skip, q) == IsMode(Mode(w), sz, skip, q)

\* The modes the blocks leave out.
Alterable == {"absw", "absl"} \cup InRegister
MemAlterable == Alterable \ {"Dreg", "Areg"}
DataAlterable == Alterable \ {"Areg"}
ControlModes == {"Aind", "Ad16", "Ad8r", "absw", "absl", "PC16", "PC8r"}

\* The commonest block: one effective address, of a mode in "ok".
WithEa(w, q, ok, mn, sz, opsz, skip, src, dst, fixed) ==
  IF Mode(w) \in ok /\ IsAdrmod(w, opsz, skip, q)
  THEN Says(mn, sz, src, dst, 1 + fixed + ExtWords(Mode(w), opsz))
  ELSE {}
ToDn(w, q, ok, mn, sz, opsz) ==
  WithEa(w, q, ok, mn, sz, opsz, NoSkip, PutAdrmod(w), D_(w.reg), 0)
ToAn(w, q, mn, opsz) ==
  WithEa(w, q, Modes, mn, opsz, opsz, NoSkip, PutAdrmod(w), A_(w.reg), 0)
FromDn(w, q, ok, mn, sz, opsz) ==
  WithEa(w, q, ok, mn, sz, opsz, NoSkip, D_(w.reg), PutAdrmod(w), 0)
Single(w, q, ok, mn, sz, opsz) ==
  WithEa(w, q, ok, mn, sz, opsz, NoSkip, PutAdrmod(w), None, 0)
ImmTo(w, q, mn) ==
  IF Size(w) = NoSize THEN {}
  ELSE WithEa(w, q, DataAlterable, mn, Size(w), Size(w), Size(w), Immediate, PutAdrmod(w),
              ExtWords("imm", Size(w)))
If(cond, block) == IF cond THEN block ELSE {}
NotByteAreg(sz) == IF sz = Byte THEN Modes \ {"Areg"} ELSE Modes
DataModes == Modes \ {"Areg"}

(***************************************************************************)
(* The blocks, in the order of the source.                                  *)
(***************************************************************************)
Pairs(w, mn, sz, mode) ==
  Says(mn, sz, Op(mode, w.er), Op(mode, w.reg), 1)

AbcdSbcd(w) ==
  If(w.om = 4 /\ w.mode < 2 /\ w.op \in {12, 8},
     Pairs(w, IF w.op = 12 THEN "abcd" ELSE "sbcd", NoSize,
           IF w.mode = 1 THEN "Apdi" ELSE "Dreg"))

AddSub(w, q) ==
  LET name == IF w.op = 13 THEN <<"add", "adda">> ELSE <<"sub", "suba">>
  IN If(w.op \in {13, 9},
        CASE w.om = 3 -> ToAn(w, q, name[2], Wide)
          [] w.om = 7 -> ToAn(w, q, name[2], Long)
          [] w.om < 3 -> ToDn(w, q, NotByteAreg(w.om), name[1], w.om, w.om)
          [] OTHER -> FromDn(w, q, MemAlterable, name[1], w.om - 4, w.om - 4))

AddiSubi(w, q) ==
  If(Type1(w) \in {6, 4}, ImmTo(w, q, IF Type1(w) = 6 THEN "addi" ELSE "subi"))

AddqSubq(w, q) ==
  If(w.op = 5 /\ Size(w) # NoSize,
     WithEa(w, q, Alterable \cap NotByteAreg(Size(w)), IF w.om > 3 THEN "subq" ELSE "addq",
            Size(w), Size(w), NoSkip, Quick(IF w.reg = 0 THEN 8 ELSE w.reg), PutAdrmod(w), 0))

AddxSubx(w) ==
  If(w.op \in {13, 9} /\ w.om > 3 /\ w.mode < 2 /\ Size(w) # NoSize,
     Pairs(w, IF w.op = 13 THEN "addx" ELSE "subx", Size(w),
           IF w.mode = 1 THEN "Apdi" ELSE "Dreg"))

AndOr(w, q) ==
  LET mn == IF w.op = 12 THEN "and" ELSE "or"
  IN If(w.op \in {12, 8} /\ w.om \notin {3, 7},
        IF w.om < 3 THEN ToDn(w, q, DataModes, mn, w.om, w.om)
        ELSE FromDn(w, q, MemAlterable, mn, w.om - 4, w.om - 4))

AndiEoriOri(w, q) ==
  LET zero == Type1(w) = 0 /\ w.om = 0 /\ w.mode = 0 /\ w.er = 0
      mn == CASE Type1(w) = 2 -> "andi" [] Type1(w) = 10 -> "eori" [] OTHER -> "ori"
  IN If(Type1(w) \in {2, 10, 0} /\ ~(zero /\ q = ZeroNext), ImmTo(w, q, mn))

\* andi, eori and ori to ccr and sr, each a block of its own.
ToStatus(w) ==
  LET mn == CASE Type1(w) = 2 -> "andi" [] Type1(w) = 10 -> "eori" [] OTHER -> "ori"
  IN If(Type1(w) \in {2, 10, 0} /\ w.om \in {0, 1} /\ Mode(w) = "imm",
        Says(mn, NoSize, Immediate, Special(IF w.om = 0 THEN "ccr" ELSE "sr"), 2))

Shifts(n) == <<"as", "ls", "rox", "ro">>[n + 1]
Direction(w) == IF w.om > 3 THEN "l" ELSE "r"
ShiftReg(w) ==
  If(w.op = 14 /\ Size(w) # NoSize,
     Says(Shifts(w.mode % 4) \o Direction(w), Size(w),
           IF w.mode > 3 THEN D_(w.reg) ELSE Quick(IF w.reg = 0 THEN 8 ELSE w.reg),
           D_(w.er), 1))
ShiftMem(w, q) ==
  If(w.op = 14 /\ w.reg < 4 /\ Size(w) = 3,
     Single(w, q, MemAlterable, Shifts(w.reg % 4) \o Direction(w), Wide, Wide))

\* Short when the displacement is in the opcode.
Branch(w, q, mn, cc) ==
  If(q # Outside,
     IF LowByte(w) # 0 THEN SaysCc(mn, cc, Byte, Target, None, 1)
     ELSE SaysCc(mn, cc, Wide, Target, None, 2))
Bcc(w, q) == If(w.op = 6 /\ Cond(w) > 1, Branch(w, q, "bcc", Cond(w)))
Bra(w, q) == If(w.op = 6 /\ Cond(w) = 0, Branch(w, q, "bra", 0))
Bsr(w, q) == If(w.op = 6 /\ Cond(w) = 1, Branch(w, q, "bsr", 0))

BitNames == <<"btst", "bchg", "bclr", "bset">>
BitDn(w, q) ==
  If(w.op = 0 /\ w.om > 3,
     FromDn(w, q, IF w.om = 4 THEN DataModes ELSE DataAlterable, BitNames[w.om - 3], NoSize, Long))
BitImm(w, q) ==
  If(w.op = 0 /\ w.reg = 4 /\ w.om < 4 /\ q # 1,
     WithEa(w, q, DataAlterable, BitNames[w.om + 1], NoSize, Long, Wide, Immediate, PutAdrmod(w), 1))

Chk(w, q) == If(w.op = 4 /\ w.om = 6, ToDn(w, q, DataModes, "chk", NoSize, Wide))
Clr(w, q) == If(Type1(w) = 66 /\ Size(w) # NoSize, Single(w, q, DataAlterable, "clr", Size(w), Size(w)))
Cmp(w, q) == If(w.op = 11 /\ w.om < 3, ToDn(w, q, NotByteAreg(w.om), "cmp", w.om, w.om))
Cmpa(w, q) == If(w.op = 11 /\ w.om \in {3, 7}, ToAn(w, q, "cmpa", IF w.om = 3 THEN Wide ELSE Long))
Cmpi(w, q) == If(Type1(w) = 12, ImmTo(w, q, "cmpi"))
Cmpm(w) == If(w.op = 11 /\ w.om > 3 /\ w.mode = 1 /\ Size(w) # NoSize, Pairs(w, "cmpm", Size(w), "Aipi"))
Dbcc(w, q) ==
  If(w.op = 5 /\ Size(w) = 3 /\ w.mode = 1 /\ q # Outside,
     SaysCc("dbcc", Cond(w), NoSize, D_(w.er), Target, 2))
Div(w, q) ==
  If(w.op = 8 /\ w.om \in {3, 7}, ToDn(w, q, DataModes, IF w.om = 7 THEN "divs" ELSE "divu", NoSize, Wide))
Eor(w, q) == If(w.op = 11 /\ w.om \in 4 .. 6, FromDn(w, q, DataAlterable, "eor", w.om - 4, w.om - 4))
Exg(w) ==
  LET P(src, dst) == Says("exg", NoSize, src, dst, 1)
  IN If(w.op = 12,
        CASE w.om = 5 /\ w.mode = 0 -> P(D_(w.reg), D_(w.er))
          [] w.om = 5 /\ w.mode = 1 -> P(A_(w.reg), A_(w.er))
          [] w.om = 6 /\ w.mode = 1 -> P(D_(w.reg), A_(w.er))
          [] OTHER -> {})

In4(w, reg, om) == w.op = 4 /\ w.reg = reg /\ w.om = om
Ext(w) ==
  If(w.op = 4 /\ w.reg = 4 /\ w.mode = 0 /\ w.om \in {2, 3},
     Says("ext", w.om - 1, D_(w.er), None, 1))
HostCall(w) == If(Type1(w) = 0 /\ w.om = 0 /\ w.mode = 1 /\ w.er = 2, Says("hostcall", NoSize, None, None, 1))
Illegal(w) == If(In4(w, 5, 3) /\ w.mode = 7 /\ w.er = 4, Says("illegal", NoSize, None, None, 1))
Jmp(w, q) == If(In4(w, 7, 3), Single(w, q, ControlModes, "jmp", NoSize, Long))
Jsr(w, q) == If(In4(w, 7, 2), Single(w, q, ControlModes, "jsr", NoSize, Long))
Lea(w, q) ==
  If(w.op = 4 /\ w.om = 7,
     WithEa(w, q, ControlModes, "lea", NoSize, Long, NoSkip, PutAdrmod(w), A_(w.reg), 0))
Link(w) == If(In4(w, 7, 1) /\ w.mode = 2, Says("link", NoSize, A_(w.er), Immediate, 2))

\* Mutant: the sizes of a move in the order of the other opcodes.
MoveSizeStraight(n) == <<3, Byte, Wide, Long>>[n + 1]
MoveSize(n) == <<3, Byte, Long, Wide>>[n + 1]
DestMode(w) == ModeFromMr(w.om, w.reg)
MoveSkip(w, sz) ==
  CASE Mode(w) = "imm" -> sz
    [] Mode(w) = "absl" -> Long
    [] Mode(w) \in {"absw", "PC16", "PC8r", "Ad16", "Ad8r"} -> Wide
    [] OTHER -> NoSkip
Move(w, q) ==
  LET sz == MoveSize(w.op % 4) IN
  If(w.op \in 1 .. 3 /\ Mode(w) \in NotByteAreg(sz)
       /\ DestMode(w) \in Alterable \cap NotByteAreg(sz)
       /\ IsAdrmod(w, sz, NoSkip, q) /\ IsMode(DestMode(w), sz, MoveSkip(w, sz), q),
     Says(IF DestMode(w) = "Areg" THEN "movea" ELSE "move", sz, PutAdrmod(w),
           Op(DestMode(w), w.reg), 1 + ExtWords(Mode(w), sz) + ExtWords(DestMode(w), sz)))
MoveStatus(w, q) ==
  CASE In4(w, 2, 3) -> WithEa(w, q, DataModes, "move", Wide, Wide, NoSkip, PutAdrmod(w), Special("ccr"), 0)
    [] In4(w, 0, 3) -> WithEa(w, q, DataAlterable, "move", Wide, Wide, NoSkip, Special("sr"), PutAdrmod(w), 0)
    [] In4(w, 3, 3) -> WithEa(w, q, DataModes, "move", Wide, Wide, NoSkip, PutAdrmod(w), Special("sr"), 0)
    [] OTHER -> {}
MoveUsp(w) ==
  If(In4(w, 7, 1) /\ w.mode \in {4, 5},
     IF w.mode = 5 THEN Says("move", Long, Special("usp"), A_(w.er), 1)
     ELSE Says("move", Long, A_(w.er), Special("usp"), 1))
Movem(w, q) ==
  LET sz == 1 + (w.om % 2) IN
  If(w.op = 4 /\ w.reg \in {4, 6} /\ w.om \in {2, 3},
     IF w.reg = 6
     THEN WithEa(w, q, ControlModes \cup {"Aipi"}, "movem", sz, sz, Wide, PutAdrmod(w), RegList, 1)
     ELSE WithEa(w, q, MemAlterable \ {"Aipi"}, "movem", sz, sz, Wide, RegList, PutAdrmod(w), 1))
Moveq(w) == If(w.op = 7 /\ w.om < 4, Says("moveq", NoSize, Quick(Signed(LowByte(w))), D_(w.reg), 1))
Mul(w, q) ==
  If(w.op = 12 /\ w.om \in {3, 7}, ToDn(w, q, DataModes, IF w.om = 7 THEN "muls" ELSE "mulu", NoSize, Wide))
Nbcd(w, q) == If(In4(w, 4, 0), Single(w, q, DataAlterable, "nbcd", NoSize, Byte))
NegNot(w, q) ==
  If(w.op = 4 /\ w.reg \in {0, 2, 3} /\ w.om < 3,
     Single(w, q, DataAlterable, <<"negx", "", "neg", "not">>[w.reg + 1], Size(w), Size(w)))
Pea(w, q) ==
  If(In4(w, 4, 1) /\ Mode(w) \in ControlModes /\ IsAdrmod(w, Wide, NoSkip, q),
     Says("pea", NoSize, PutAdrmod(w), None, 1 + ExtWords(Mode(w), Long)))
NoOperands(w) ==
  LET name == <<"reset", "nop", "", "rte", "", "rts", "trapv", "rtr">>
  IN If(In4(w, 7, 1) /\ w.mode = 6 /\ w.er \notin {2, 4}, Says(name[w.er + 1], NoSize, None, None, 1))
Scc(w, q) ==
  {[l EXCEPT !.cc = Cond(w)] :
     l \in If(w.op = 5 /\ Size(w) = 3, Single(w, q, DataAlterable, "scc", NoSize, Byte))}
Stop(w) == If(In4(w, 7, 1) /\ w.mode = 6 /\ w.er = 2, Says("stop", NoSize, Immediate, None, 2))
Swap(w) == If(In4(w, 4, 1) /\ w.mode = 0, Says("swap", NoSize, D_(w.er), None, 1))
Tas(w, q) == If(In4(w, 5, 3), Single(w, q, DataAlterable, "tas", NoSize, Byte))
Trap(w) == If(In4(w, 7, 1) /\ w.mode < 2, Says("trap", NoSize, Quick(8 * w.mode + w.er), None, 1))
Tst(w, q) ==
  If(w.op = 4 /\ w.reg = 5 /\ w.om < 3, Single(w, q, DataAlterable, "tst", Size(w), Size(w)))
Unlk(w) == If(In4(w, 7, 1) /\ w.mode = 3, Says("unlk", NoSize, A_(w.er), None, 1))

\* dump_code goes to "done" from the first block that does not break; the blocks
\* are disjoint (Words!OneMeaning), so that the order is left out.
Readings(w, q) ==
  {AbcdSbcd(w), AddSub(w, q), AddiSubi(w, q), AddqSubq(w, q), AddxSubx(w), AndOr(w, q),
   AndiEoriOri(w, q), ToStatus(w), ShiftReg(w), ShiftMem(w, q), Bcc(w, q), Bra(w, q), Bsr(w, q),
   BitDn(w, q), BitImm(w, q), Chk(w, q), Clr(w, q), Cmp(w, q), Cmpa(w, q), Cmpi(w, q), Cmpm(w),
   Dbcc(w, q), Div(w, q), Eor(w, q), Exg(w), Ext(w), HostCall(w), Illegal(w), Jmp(w, q), Jsr(w, q),
   Lea(w, q), Link(w), Move(w, q), MoveStatus(w, q), MoveUsp(w), Movem(w, q), Moveq(w), Mul(w, q),
   Nbcd(w, q), NegNot(w, q), Pea(w, q), NoOperands(w), Scc(w, q), Stop(w), Swap(w), Tas(w, q),
   Trap(w), Tst(w, q), Unlk(w)}
Listed(w, q) == UNION Readings(w, q)

\* The debugger's copy of dump_code (hardware/disasm.c): it knows no host calls, no
\* end of the program, and lets data bytes with a high byte through.
InDebugger(w, q) ==
  IF q \in {Outside, ZeroNext} \/ (q = 1 /\ Mode(w) = "imm") THEN Plain ELSE q
\* Its blocks, by the stretch of the alphabet they stand in.
DumpedAbcdToOri(w, q) ==
  {AbcdSbcd(w), AddSub(w, q), AddiSubi(w, q), AddqSubq(w, q), AddxSubx(w), AndOr(w, q),
   AndiEoriOri(w, q), ToStatus(w)}
DumpedAslToChk(w, q) ==
  {ShiftReg(w), ShiftMem(w, q), Bcc(w, q), Bra(w, q), Bsr(w, q), BitDn(w, q), BitImm(w, q), Chk(w, q)}
DumpedClrToIllegal(w, q) ==
  {Clr(w, q), Cmp(w, q), Cmpa(w, q), Cmpi(w, q), Cmpm(w), Dbcc(w, q), Div(w, q), Eor(w, q), Exg(w),
   Ext(w), Illegal(w)}
DumpedJmpToMovem(w, q) ==
  {Jmp(w, q), Jsr(w, q), Lea(w, q), Link(w), Move(w, q), MoveStatus(w, q), MoveUsp(w), Movem(w, q)}
DumpedMoveqToUnlk(w, q) ==
  {Moveq(w), Mul(w, q), Nbcd(w, q), NegNot(w, q), Pea(w, q), NoOperands(w), Scc(w, q), Stop(w),
   Swap(w), Tas(w, q), Trap(w), Tst(w, q), Unlk(w)}
Dumped(w, q) ==
  LET d == InDebugger(w, q)
  IN UNION (DumpedAbcdToOri(w, d) \cup DumpedAslToChk(w, d) \cup DumpedClrToIllegal(w, d)
              \cup DumpedJmpToMovem(w, d) \cup DumpedMoveqToUnlk(w, d))

(***************************************************************************)
(* put_movem_regs: the mask of a movem as ranges of registers, a range for  *)
(* every run of bits, cut in two where it crosses from d7 to a0.  In front  *)
(* of -(Ax) the mask is reversed.                                          *)
(***************************************************************************)
Runs(mask) ==
  {r \in (0 .. 15) \X (0 .. 15) :
     /\ r[1] <= r[2] /\ r[1] .. r[2] \subseteq mask
     /\ r[1] - 1 \notin mask /\ r[2] + 1 \notin mask}
Piece(bank, from, to) == [bank |-> bank, from |-> from, to |-> to]
AuxPutMovemRegs(pre, low, high) ==
  LET lo == IF pre THEN 15 - high ELSE low
      hi == IF pre THEN 15 - low ELSE high
  IN If(lo < 8, {Piece("d", lo, IF hi > 7 THEN 7 ELSE hi)})
       \cup If(hi > 7, {Piece("a", IF lo > 7 THEN lo - 8 ELSE 0, hi - 8)})
PutMovemRegs(mask, pre) == UNION {AuxPutMovemRegs(pre, r[1], r[2]) : r \in Runs(mask)}
=============================================================================
