------------------------------- MODULE Shift68k -------------------------------
(***************************************************************************)
(* Shifts, rotates and single bits of the 68000, as the code src/cpu/gencpu.c *)
(* generates for them computes them.  A value of the generated code is a     *)
(* uae_u32; it is the set of its bits here, so that longs fit too.           *)
(***************************************************************************)
EXTENDS Integers

CONSTANTS Sizes,         \* 8, 16, 32: the bits of an operand
          Starts         \* values by their size

\* The flags of a byte are those of Alu68k.
Alu == INSTANCE Alu68k WITH Half <- 128

ASSUME ShiftAssumption ==
  Sizes \subseteq {8, 16, 32} /\ \A S \in Sizes : Starts[S] \subseteq SUBSET (0 .. S - 1)

Mask(S) == 0 .. S - 1
Shl(v, n) == {b + n : b \in v} \cap Mask(32)
Shr(v, n) == {b - n : b \in {i \in v : i >= n}}
\* A shift by the width of the type has no meaning in C: the build shifts by its
\* count modulo 32, or to zero.
ShlWide(v, n, wraps) == IF n = 32 /\ wraps THEN v ELSE Shl(v, n)
ShrWide(v, n, wraps) == IF n = 32 /\ wraps THEN v ELSE Shr(v, n)

\* CLEAR_CZNV, what the instruction sets of X, V and C, and N and Z of the value
\* (flag_logical_noclobber).
Shifted(S, val, x, v, c) == Alu!Out(val, Alu!Ccr(x, S - 1 \in val, val \cap Mask(S) = {}, v, c))

(***************************************************************************)
(* A register shifted by a count of 0 .. 63.                                *)
(***************************************************************************)
Asr(S, v, cnt, f) ==
  LET sign == S - 1 \in v
      before == Shr(v, cnt - 1)
      filled == IF sign THEN Shl(Mask(S), S - cnt) ELSE {}
  IN IF cnt >= S THEN Shifted(S, IF sign THEN Mask(S) ELSE {}, sign, FALSE, sign)
     ELSE IF cnt > 0
     THEN Shifted(S, (Shr(before, 1) \cup filled) \cap Mask(S), 0 \in before, FALSE, 0 \in before)
     ELSE Shifted(S, v, "X" \in f, FALSE, FALSE)

\* V: the bits that pass the sign are neither all clear nor all set.
\* Mutant: the sign itself is not one of them.
AslSignLeftOut(S, v, cnt, f) ==
  LET mask == Shl(Mask(S), S - cnt) \cap Mask(S)
      before == Shl(v, cnt - 1)
      c == S - 1 \in before
  IN IF cnt >= S THEN Shifted(S, {}, cnt = S /\ 0 \in v, v # {}, cnt = S /\ 0 \in v)
     ELSE IF cnt > 0
     THEN Shifted(S, Shl(before, 1) \cap Mask(S), c, v \cap mask \notin {mask, {}}, c)
     ELSE Shifted(S, v, "X" \in f, FALSE, FALSE)
Asl(S, v, cnt, f) ==
  LET mask == Shl(Mask(S), S - 1 - cnt) \cap Mask(S)
      before == Shl(v, cnt - 1)
      c == S - 1 \in before
  IN IF cnt >= S THEN Shifted(S, {}, cnt = S /\ 0 \in v, v # {}, cnt = S /\ 0 \in v)
     ELSE IF cnt > 0
     THEN Shifted(S, Shl(before, 1) \cap Mask(S), c, v \cap mask \notin {mask, {}}, c)
     ELSE Shifted(S, v, "X" \in f, FALSE, FALSE)

Lsr(S, v, cnt, f) ==
  LET before == Shr(v, cnt - 1)
      c == IF cnt >= S THEN cnt = S /\ S - 1 \in v ELSE 0 \in before
  IN IF cnt > 0 THEN Shifted(S, IF cnt >= S THEN {} ELSE Shr(before, 1), c, FALSE, c)
     ELSE Shifted(S, v, "X" \in f, FALSE, FALSE)

Lsl(S, v, cnt, f) ==
  LET before == Shl(v, cnt - 1)
      c == IF cnt >= S THEN cnt = S /\ 0 \in v ELSE S - 1 \in before
  IN IF cnt > 0
     THEN Shifted(S, IF cnt >= S THEN {} ELSE Shl(before, 1) \cap Mask(S), c, FALSE, c)
     ELSE Shifted(S, v, "X" \in f, FALSE, FALSE)

Rol(S, v, cnt, f, wraps) ==
  LET n == cnt % S
      val == (Shl(v, n) \cup ShrWide(v, S - n, wraps)) \cap Mask(S)
  IN IF cnt > 0 THEN Shifted(S, val, "X" \in f, FALSE, 0 \in val)
     ELSE Shifted(S, v, "X" \in f, FALSE, FALSE)

Ror(S, v, cnt, f, wraps) ==
  LET n == cnt % S
      val == (Shr(v, n) \cup ShlWide(v, S - n, wraps)) \cap Mask(S)
  IN IF cnt > 0 THEN Shifted(S, val, "X" \in f, FALSE, S - 1 \in val)
     ELSE Shifted(S, v, "X" \in f, FALSE, FALSE)

\* force_range_for_rox, which an immediate count is not put through.
Reduced(n, by) == IF n >= by THEN n - by ELSE n
RoxRange(S, cnt, imm) ==
  IF imm THEN cnt
  ELSE CASE S = 32 -> Reduced(cnt, 33)
         [] S = 16 -> Reduced(Reduced(cnt, 34), 17)
         [] S = 8 -> Reduced(Reduced(Reduced(cnt, 36), 18), 9)

WithX(v, f) == Shl(v, 1) \cup (IF "X" \in f THEN {0} ELSE {})

Roxl(S, v, cnt, f, imm) ==
  LET n == RoxRange(S, cnt, imm)
      loval == Shr(v, S - n)
      x == 0 \in loval
      val == (Shl(WithX(v, f), n - 1) \cup Shr(loval, 1)) \cap Mask(S)
  IN IF n > 0 THEN Shifted(S, val, x, FALSE, x)
     ELSE Shifted(S, v, "X" \in f, FALSE, "X" \in f)

Roxr(S, v, cnt, f, imm) ==
  LET n == RoxRange(S, cnt, imm)
      hival == Shl(WithX(v, f), S - n)
      before == Shr(v, n - 1)
      x == 0 \in before
      val == (Shr(before, 1) \cup hival) \cap Mask(S)
  IN IF n > 0 THEN Shifted(S, val, x, FALSE, x)
     ELSE Shifted(S, v, "X" \in f, FALSE, "X" \in f)

Kinds == {"ASL", "ASR", "LSL", "LSR", "ROL", "ROR", "ROXL", "ROXR"}
RegisterShift(kind, S, v, cnt, f, imm, wraps) ==
  CASE kind = "ASL" -> Asl(S, v, cnt, f)         [] kind = "ASR" -> Asr(S, v, cnt, f)
    [] kind = "LSL" -> Lsl(S, v, cnt, f)         [] kind = "LSR" -> Lsr(S, v, cnt, f)
    [] kind = "ROL" -> Rol(S, v, cnt, f, wraps)  [] kind = "ROR" -> Ror(S, v, cnt, f, wraps)
    [] kind = "ROXL" -> Roxl(S, v, cnt, f, imm)  [] kind = "ROXR" -> Roxr(S, v, cnt, f, imm)

(***************************************************************************)
(* An operand in memory, shifted by one: ASLW, ASRW and so on.              *)
(***************************************************************************)
MemoryShift(kind, S, v, f) ==
  LET top == S - 1 \in v
      low == 0 \in v
      up == Shl(v, 1) \cap Mask(S)
      down == Shr(v, 1)
      x == "X" \in f
  IN CASE kind = "ASL" -> Shifted(S, up, top, (S - 1 \in up) # top, top)
       [] kind = "ASR" -> Shifted(S, down \cup (v \cap {S - 1}), low, FALSE, low)
       [] kind = "LSL" -> Shifted(S, up, top, FALSE, top)
       [] kind = "LSR" -> Shifted(S, down, low, FALSE, low)
       [] kind = "ROL" -> Shifted(S, IF top THEN up \cup {0} ELSE up, x, FALSE, top)
       [] kind = "ROR" -> Shifted(S, IF low THEN down \cup {S - 1} ELSE down, x, FALSE, low)
       [] kind = "ROXL" -> Shifted(S, IF x THEN up \cup {0} ELSE up, top, FALSE, top)
       [] kind = "ROXR" -> Shifted(S, IF x THEN down \cup {S - 1} ELSE down, low, FALSE, low)

(***************************************************************************)
(* Logic, single bits, and the parts of a register.                         *)
(***************************************************************************)
LogicalBits(S, r, f) == Shifted(S, r, "X" \in f, FALSE, FALSE)
Or(S, s, d, f) == LogicalBits(S, s \cup d, f)
And(S, s, d, f) == LogicalBits(S, s \cap d, f)
Eor(S, s, d, f) == LogicalBits(S, (s \ d) \cup (d \ s), f)
Not(S, s, f) == LogicalBits(S, Mask(S) \ s, f)

\* Of a byte or a long; a bit number counts modulo the size, and only Z tells what
\* the bit was.
BitFlags(f, b, d) == IF b \in d THEN f \ {"Z"} ELSE f \cup {"Z"}
Btst(S, n, d, f) == Alu!Out(d, BitFlags(f, n % S, d))
Bchg(S, n, d, f) ==
  LET b == n % S
      r == (d \ {b}) \cup ({b} \ d)
  IN Alu!Out(r, IF b \in r THEN f \cup {"Z"} ELSE f \ {"Z"})
Bclr(S, n, d, f) == Alu!Out(d \ {n % S}, BitFlags(f, n % S, d))
Bset(S, n, d, f) == Alu!Out(d \cup {n % S}, BitFlags(f, n % S, d))

\* SWAP, and EXT to a word or a long.
Swap(v, f) == LogicalBits(32, Shr(v, 16) \cup Shl(v \cap Mask(16), 16), f)
\* Mutant: the sign of the new size is copied.
ExtNewSign(S, v, f) ==
  LogicalBits(S, IF S - 1 \in v THEN Mask(S) \ (Mask(S \div 2) \ v) ELSE v \cap Mask(S \div 2), f)
Ext(S, v, f) ==
  LET half == S \div 2
  IN LogicalBits(S, IF half - 1 \in v THEN Mask(S) \ (Mask(half) \ v) ELSE v \cap Mask(half), f)

(***************************************************************************)
(* A value shifted by one again and again.                                  *)
(***************************************************************************)
VARIABLES kind, size,    \* how, and of what size
          start, f0,     \* the value and the flags at first
          count,         \* how often it was shifted
          val, fl,       \* the value and the flags now
          turned         \* history: the sign has changed on the way
shiftVars == <<kind, size, start, f0, count, val, fl, turned>>

ShiftInit ==
  /\ kind = "none" /\ size \in Sizes /\ count = 0 /\ turned = FALSE
  /\ start \in Starts[size] /\ val = start
  /\ f0 \in {{}, Alu!Flags} /\ fl = f0

ShiftOnce ==
  /\ count < 63
  /\ \E k \in IF kind = "none" THEN Kinds ELSE {kind} :
       LET out == MemoryShift(k, size, val, fl)
       IN /\ kind' = k
          /\ val' = out.r /\ fl' = out.f
          /\ turned' = (turned \/ "V" \in out.f)
  /\ count' = count + 1
  /\ UNCHANGED <<size, start, f0>>

ShiftSpec == ShiftInit /\ [][ShiftOnce]_shiftVars

-----------------------------------------------------------------------------
(* Properties.                                                              *)

\* A register shifted by a count, immediate or from a register, is what shifting
\* by one that often makes of it, with the same flags, and V set if the sign changed
\* on the way; a count of zero changes nothing but clears C, or makes it X.
ManyAsOne ==
  \A k \in IF kind = "none" THEN Kinds ELSE {kind}, wraps \in BOOLEAN,
     imm \in IF count \in 1 .. 8 THEN BOOLEAN ELSE {FALSE} :
    RegisterShift(k, size, start, count, f0, imm, wraps) =
      IF count > 0 THEN Alu!Out(val, IF turned THEN fl \cup {"V"} ELSE fl)
      ELSE Shifted(size, start, "X" \in f0, FALSE, k \in {"ROXL", "ROXR"} /\ "X" \in f0)

\* The number that a byte is.
Number(v) ==
  LET digit(b) == IF b \in v THEN 1 ELSE 0
  IN digit(0) + 2 * digit(1) + 4 * digit(2) + 8 * digit(3) + 16 * digit(4) + 32 * digit(5)
       + 64 * digit(6) + 128 * digit(7)
SameNumber(a, b, flags) == Number(a.r) = b.r /\ a.f \cap flags = b.f \cap flags

\* Instructions that ought to do the same do, though the generator has a case of its
\* own for each: doubling by shifts and by additions, negating, bits by masks, halves
\* exchanged by rotating, and a sign spread by shifting up and down.
SameByAnotherWay ==
  LET all == {"X", "N", "Z", "V", "C"}
      bit == Lsl(size, {0}, count % size, f0).r
  IN /\ size = 8 /\ kind = "none" =>
          /\ SameNumber(Asl(8, val, 1, f0), Alu!Add(Number(val), Number(val)), all)
          /\ SameNumber(Roxl(8, val, 1, f0, TRUE), Alu!Addx(f0, Number(val), Number(val)),
                        {"X", "N", "C"})
          /\ Alu!Neg(Number(val)).r = Alu!Add(1, Number(Not(8, val, f0).r)).r
          /\ Alu!Negx({"X"}, Number(val)).r = Number(Not(8, val, f0).r)
     /\ size = 32 /\ kind = "none" =>
          Swap(val, f0).r = Ror(32, val, 16, f0, FALSE).r
     /\ size \in {16, 32} /\ kind = "none" =>
          LET half == size \div 2
              up == Asl(size, val, half, f0).r
              down == Asr(size, up, half, f0)
          IN Ext(size, val, f0).r = down.r /\ Ext(size, val, f0).f \ {"X"} = down.f \ {"X", "C"}
     /\ size # 16 =>
          /\ Bset(size, count, start, f0).r = Or(size, bit, start, f0).r
          /\ Bclr(size, count, start, f0).r = And(size, Not(size, bit, f0).r, start, f0).r
          /\ Bchg(size, count, start, f0).r = Eor(size, bit, start, f0).r
          /\ \A out \in {Btst(size, count, start, f0), Bset(size, count, start, f0),
                         Bclr(size, count, start, f0), Bchg(size, count, start, f0)} :
               "Z" \in out.f <=> "Z" \in And(size, bit, start, f0).f
=============================================================================
