------------------------------- MODULE MCWords -------------------------------
(***************************************************************************)
(* Words for TLC: every word, every register mask, and written lines with   *)
(* each kind of operand and immediates on both sides of every limit.       *)
(***************************************************************************)
EXTENDS Words

MCMnemonics ==
  {"addq", "subq", "not", "negx", "neg", "clr", "tst", "divu", "divs", "mulu", "muls", "ori",
   "andi", "subi", "addi", "eori", "cmpi", "adda", "suba", "cmpa", "addx", "subx", "add", "sub",
   "and", "or", "eor", "btst", "bchg", "bclr", "bset", "asr", "asl", "lsr", "lsl", "roxr", "roxl",
   "ror", "rol", "swap", "bra", "bsr", "bcc", "dbcc", "cmpm", "cmp", "exg", "ext", "reset", "nop",
   "rte", "rts", "trapv", "illegal", "hostcall", "hcall", "trap", "link", "unlk", "moveq", "movea",
   "move", "pea", "lea", "jsr", "jmp", "scc", "movem", "stop"}
Operands ==
  {None, Target, RegList, D_(2), A_(3), Op("Aind", 1), Op("Aipi", 2), Op("Apdi", 3), Op("Ad16", 4),
   Op("Ad8r", 5), Op("absw", 0), Op("absl", 1), Op("PC16", 2), Op("PC8r", 3), Special("sr"),
   Special("ccr")}
MCWrittenSrc == Operands \cup {Quick(n) : n \in {-129, -128, 0, 1, 8, 9, 128, 255, 256, 65536}}
MCWrittenDst == Operands \cup {D_(5), A_(6), Op("Aipi", 7), Op("Apdi", 0), Quick(4)}
=============================================================================
