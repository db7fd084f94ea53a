-------------------------------- MODULE Words --------------------------------
(***************************************************************************)
(* One instruction on its way through the tools that have to agree on what  *)
(* a word means: the emulator's table (Table68k), the disassemblers         *)
(* (Dis68k) and the assembler (As68k).  A word is listed and the listing    *)
(* assembled again; a line somebody wrote is assembled; the register mask    *)
(* of a movem is listed and parsed.                                        *)
(***************************************************************************)
EXTENDS As68k

CONSTANTS Mnemonics,      \* of the lines somebody writes
          WrittenSrc, WrittenDst,
          Masks           \* register masks of movem

VARIABLES stage, word, line, out
vars == <<stage, word, line, out>>

NoWord == [op |-> 16]
NoLine == [mn |-> "none"]
RegisterLists == [mask : SUBSET Masks, pre : BOOLEAN]

WrittenLines ==
  {l \in [mn : Mnemonics, cc : {5}, sz : 0 .. NoSize, src : WrittenSrc, dst : WrittenDst, words : {0}] :
     l.src = None => l.dst = None}

Init ==
  /\ out = {}
  /\ \/ stage = "fetched" /\ word \in Word /\ line = NoLine
     \/ stage = "written" /\ word = NoWord /\ line \in WrittenLines
     \/ stage = "mask" /\ word = NoWord /\ line \in RegisterLists

\* dis68k: a line, or dc.w.
List ==
  /\ stage = "fetched"
  /\ \E q \in Follows :
       LET ls == Listed(word, q)
       IN IF ls = {} THEN stage' = "data" /\ line' = NoLine
          ELSE stage' = "listed" /\ line' \in ls
  /\ UNCHANGED <<word, out>>

\* The debugger's listing.
Dump ==
  /\ stage = "fetched"
  /\ \E q \in Follows : line' \in Dumped(word, q)
  /\ stage' = "dumped"
  /\ UNCHANGED <<word, out>>

Assemble ==
  /\ stage \in {"listed", "written"}
  /\ out' = Assembled(line)
  /\ stage' = IF out' = {} THEN "refused" ELSE "assembled"
  /\ UNCHANGED <<word, line>>

\* A mask without registers leaves the list empty; parse_movem looks for it again
\* and again when it is the destination, and refuses the line when it is the source.
ReadMask ==
  /\ stage = "mask"
  /\ LET pieces == PutMovemRegs(line.mask, line.pre)
     IN /\ out' = ParseMovem(pieces, line.pre)
        /\ stage' = CASE pieces # {} -> "parsed" [] line.pre -> "refused" [] OTHER -> "loops"
  /\ UNCHANGED <<word, line>>

Next == List \/ Dump \/ Assemble \/ ReadMask
Spec == Init /\ [][Next]_vars

(***************************************************************************)
(* What the emulator's entry says in the words of a listing.                *)
(***************************************************************************)
Shown ==
  [ABCD |-> "abcd", SBCD |-> "sbcd", ADD |-> "add", SUB |-> "sub", ADDA |-> "adda",
   SUBA |-> "suba", ADDX |-> "addx", SUBX |-> "subx", AND |-> "and", OR |-> "or", EOR |-> "eor",
   ORSR |-> "ori", ANDSR |-> "andi", EORSR |-> "eori", BTST |-> "btst", BCHG |-> "bchg",
   BCLR |-> "bclr", BSET |-> "bset", CHK |-> "chk", CLR |-> "clr", CMP |-> "cmp", CMPA |-> "cmpa",
   CMPM |-> "cmpm", Bcc |-> "bcc", BSR |-> "bsr", DBcc |-> "dbcc", Scc |-> "scc", DIVU |-> "divu",
   DIVS |-> "divs", EXG |-> "exg", EXT |-> "ext", ILLEGAL |-> "illegal", JMP |-> "jmp",
   JSR |-> "jsr", LEA |-> "lea", LINK |-> "link", MOVE |-> "move", MOVEA |-> "movea",
   MVSR2 |-> "move", MV2SR |-> "move", MVR2USP |-> "move", MVUSP2R |-> "move",
   MVMLE |-> "movem", MVMEL |-> "movem", MULU |-> "mulu", MULS |-> "muls", NBCD |-> "nbcd",
   NEG |-> "neg", NEGX |-> "negx", NOT |-> "not", PEA |-> "pea", RESET |-> "reset", NOP |-> "nop",
   RTE |-> "rte", RTS |-> "rts", TRAPV |-> "trapv", RTR |-> "rtr", STOP |-> "stop",
   SWAP |-> "swap", TAS |-> "tas", TRAP |-> "trap", TST |-> "tst", UNLK |-> "unlk",
   ASL |-> "asl", ASR |-> "asr", LSL |-> "lsl", LSR |-> "lsr", ROL |-> "rol", ROR |-> "ror",
   ROXL |-> "roxl", ROXR |-> "roxr"]
ShownImmediate ==
  [ADD |-> "addi", SUB |-> "subi", AND |-> "andi", OR |-> "ori", EOR |-> "eori", CMP |-> "cmpi"]
ShownQuick ==
  [ADD |-> "addq", ADDA |-> "addq", SUB |-> "subq", SUBA |-> "subq", MOVE |-> "moveq"]
Sizeless ==
  {"abcd", "sbcd", "btst", "bchg", "bclr", "bset", "chk", "dbcc", "divu", "divs", "exg",
   "illegal", "jmp", "jsr", "lea", "link", "moveq", "mulu", "muls", "nbcd", "pea", "reset", "nop",
   "rte", "rts", "trapv", "rtr", "scc", "stop", "swap", "tas", "trap", "unlk"}

ShownOperand(o) ==
  CASE o.mode = "none" -> None
    [] o.mode \in {"imm", "imm1"} -> Immediate
    [] o.mode = "immi" -> Quick(o.reg)
    [] OTHER -> Op(o.mode, o.reg)
OperandWords(o, sz) ==
  CASE o.mode = "imm1" -> 1 [] o.mode = "imm2" -> 2 [] OTHER -> ExtWords(o.mode, sz)
Length(e) == 1 + OperandWords(e.src, e.sz) + OperandWords(e.dst, e.sz)

Meaning(w, e) ==
  LET name ==
        CASE e.src.mode = "immi" /\ e.mn \in DOMAIN ShownQuick -> ShownQuick[e.mn]
          [] e.src.mode = "imm" /\ w.op = 0 /\ e.mn \in DOMAIN ShownImmediate -> ShownImmediate[e.mn]
          [] e.mn = "Bcc" /\ e.cc = 0 -> "bra"
          [] OTHER -> Shown[e.mn]
      src == ShownOperand(e.src)
      dst == ShownOperand(e.dst)
      status == Special(IF e.sz = Byte THEN "ccr" ELSE "sr")
      usp == Special("usp")
      operands ==
        CASE e.mn \in {"ORSR", "ANDSR", "EORSR"} -> <<NoSize, Immediate, status>>
          [] e.mn = "MVSR2" -> <<Wide, Special("sr"), src>>
          [] e.mn = "MV2SR" -> <<Wide, src, status>>
          [] e.mn = "MVR2USP" -> <<Long, src, usp>>
          [] e.mn = "MVUSP2R" -> <<Long, usp, src>>
          [] e.mn = "MVMLE" -> <<e.sz, RegList, dst>>
          [] e.mn = "MVMEL" -> <<e.sz, dst, RegList>>
          [] e.mn \in {"Bcc", "BSR"} -> <<e.sz, Target, None>>
          [] e.mn = "DBcc" -> <<NoSize, src, Target>>
          [] OTHER -> <<IF name \in Sizeless THEN NoSize ELSE e.sz, src, dst>>
  IN [mn |-> name, cc |-> IF name = "bra" THEN 0 ELSE e.cc, sz |-> operands[1],
      src |-> operands[2], dst |-> operands[3], words |-> Length(e)]

TheEntry(w) == CHOOSE e \in Legal(w) : TRUE
MeaningOf(w) == Meaning(w, TheEntry(w))

(***************************************************************************)
(* Properties.                                                              *)
(***************************************************************************)

\* A word has one meaning: one line of table68k makes it (build_insn prints
\* "Double match" otherwise and goes on), and one block of dump_code at most prints
\* it, so that the order of the blocks decides nothing.
OneMeaning ==
  stage = "fetched" =>
    /\ Cardinality(Matches(word)) <= 1
    /\ \A q \in Follows : Cardinality(Listed(word, q)) <= 1

\* Words whose gathered fields alone differ share a generated function: they never
\* are different instructions, except for branches whose displacement byte stands
\* for a longer form (handle_merges), and nothing that is compiled into the function
\* differs between them: neither condition, nor CPU level, nor any other operand.
SharedFunctions ==
  stage = "fetched" =>
    \A e \in Matches(word), s \in {0, 5, 255}, d \in {0, 5} :
      LET same == MergedWith(word, e, s, d)
      IN /\ same = {} => e.src.pos = "byte" /\ e.mn \in {"Bcc", "BSR"} /\ s \in {0, 255}
         /\ \A f \in same :
              /\ f.cc = e.cc /\ f.lev = e.lev
              /\ e.src.pos = "no" => f.src = e.src
              /\ e.dst.pos = "no" => f.dst = e.dst

\* Words the emulator runs and the disassemblers print as data.
Gap(e) ==
  LET modes == {e.src.mode, e.dst.mode}
  IN \/ e.mn \in {"MVPMR", "MVPRM", "RTD"}
     \/ e.mn = "CHK" /\ e.sz = Long
     \/ e.mn = "EXT" /\ e.sz = Byte
     \/ e.mn = "TST" /\ modes \cap ({"Areg"} \cup Unwritable) # {}
     \/ e.mn \in BitTests /\ modes \cap Unwritable # {} /\ ~(e.mn = "BTST" /\ e.src.mode = "Dreg")
     \/ e.mn = "CMP" /\ e.src.mode = "imm" /\ e.dst.mode \in {"PC16", "PC8r"}

\* The extension words the disassembler looks into before it believes an opcode:
\* the index words, wherever the operand in front leaves them, the immediate byte
\* of a source operand and of a bit number.
LookedInto(w, e) ==
  LET second == 1 + OperandWords(e.src, e.sz)
  IN {i \in 1 .. 3 :
        \/ e.src.mode \in {"Ad8r", "PC8r"} /\ i = 1
        \/ e.dst.mode \in {"Ad8r", "PC8r"} /\ i = second
        \/ e.src.mode = "imm" /\ e.sz = Byte /\ e.mn # "MV2SR" /\ w.op # 0 /\ i = 1
        \/ e.mn \in BitTests /\ e.src.mode = "imm1" /\ i = 1}

\* A listing says what the emulator executes: the instruction, its size, its
\* operands in their order, and as many words.  (A displacement byte of 255 is a
\* long branch to the emulator and a short one to the tools, and the immediate of
\* btst Dn,#data is read as a long word.)  Whatever the emulator executes is listed,
\* but for the known gaps, and is taken for data only when a word it has to look into
\* is no index word or byte; what is listed the emulator executes, but for host calls.
Misread(w) ==
  \/ w.op = 6 /\ LowByte(w) = 255
  \/ w.op = 0 /\ w.om = 4 /\ Mode(w) = "imm"
ListedAsExecuted ==
  /\ stage \in {"listed", "dumped"} /\ line.mn # "hostcall" /\ ~Misread(word) =>
       line = MeaningOf(word)
  /\ stage = "fetched" /\ Legal(word) = {} =>
       \A q \in Follows : \A l \in Listed(word, q) : l.mn = "hostcall"
  /\ stage = "fetched" =>
       \A e \in Legal(word) :
         IF Gap(e) THEN \A q \in Follows : Listed(word, q) = {}
         ELSE \A q \in 0 .. 3 : Listed(word, q) = {} <=> q \in LookedInto(word, e)

\* A listing assembles to the word it was made from, in as many words; branches but
\* for the displacement.  The assembler refuses what it has no block for.  A register
\* list is read back as the mask it was printed from, whichever way the mask runs; only
\* the empty list is refused, or read for ever.
NoBlock(l) ==
  \/ l.mn \in {"abcd", "sbcd", "nbcd", "tas", "chk", "rtr", "stop"}
  \/ {"ccr", "usp"} \cap {l.src.m, l.dst.m} # {}
  \/ l.mn \in {"andi", "ori", "eori"} /\ l.dst.m = "sr"
  \/ l.mn = "btst" /\ l.src.m = "Dreg" /\ l.dst.m \in Unwritable
RoundTrip ==
  /\ stage = "parsed" => out = line.mask
  /\ stage = "loops" \/ (stage = "refused" /\ line \in RegisterLists) => line.mask = {}
  /\ word # NoWord =>
       /\ stage = "refused" => NoBlock(line)
       /\ stage = "assembled" =>
            \A a \in out :
              /\ a.words = line.words
              /\ IF word.op = 6
                 THEN Cond(a.w) = Cond(word) /\ (LowByte(a.w) = 0 <=> LowByte(word) = 0)
                 ELSE a.w = word

\* What is assembled from a line somebody wrote is what the emulator then executes:
\* the same instruction, size and operands.  (Address registers as byte operands
\* and as operands of a move of sr are let through and are illegal; host calls are
\* the emulator's own; move to an address register is movea; the byte of a moveq is
\* signed.)
LetThrough(l) ==
  \/ l.mn \in {"hostcall", "hcall"}
  \/ l.sz = Byte /\ l.src.m = "Areg"
  \/ l.mn = "move" /\ {l.src.m, l.dst.m} = {"sr", "Areg"}
Reads(o, mn, m) ==
  \/ o = m
  \/ o.m = "immi" /\ m = Immediate
  \/ o = Target /\ m = Op("absl", 1)
  \/ mn = "moveq" /\ o.m = "immi" /\ m.m = "immi" /\ (o.r - m.r) % 256 = 0
EmitsMeant ==
  stage = "assembled" /\ word = NoWord /\ ~LetThrough(line) =>
    \A a \in out :
      /\ Legal(a.w) # {}
      /\ LET m == MeaningOf(a.w)
         IN /\ m.mn = line.mn \/ (line.mn = "move" /\ line.dst.m = "Areg" /\ m.mn = "movea")
            /\ m.sz = line.sz /\ m.words = a.words
            /\ m.cc = IF m.mn \in {"bcc", "dbcc", "scc"} THEN line.cc ELSE 0
            /\ Reads(line.src, line.mn, m.src) /\ Reads(line.dst, line.mn, m.dst)
=============================================================================
