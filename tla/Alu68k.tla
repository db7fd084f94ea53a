------------------------------- MODULE Alu68k -------------------------------
(***************************************************************************)
(* What the code that src/cpu/gencpu.c generates for the 68000's arithmetic *)
(* computes: the value it stores and the flags it leaves.  The generator     *)
(* prints the same lines for bytes, words and longs with other casts, so     *)
(* the operators are stated for an operand of any width: values are the      *)
(* residues 0 .. 2 * Half - 1, of which those from Half on are negative.     *)
(***************************************************************************)
EXTENDS Integers

CONSTANT Half            \* 128, 32768 or 2^31

ASSUME HalfAssumption == Half \in Nat \ {0}

M == 2 * Half
Values == 0 .. M - 1

\* The flags are the set of those that are set.
Flags == {"X", "N", "Z", "V", "C"}
Ccr(x, n, z, v, c) ==
  {g \in Flags : CASE g = "X" -> x [] g = "N" -> n [] g = "Z" -> z [] g = "V" -> v [] g = "C" -> c}

\* The cast to the unsigned type of the size, and the sign of the signed one.
Cast(n) == n % M
Negative(v) == v >= Half
SignedValue(v) == IF Negative(v) THEN v - M ELSE v
One(b) == IF b THEN 1 ELSE 0

\* What an instruction does: the value it stores and all flags after it.
Out(r, f) == [r |-> r, f |-> f]

(***************************************************************************)
(* genflags_normal.                                                         *)
(***************************************************************************)
\* flag_logical, which keeps X, and the value it is for.
Logical(f, r) == Out(r, Ccr("X" \in f, Negative(r), r = 0, FALSE, FALSE))

\* flgs, flgo and flgn are the signs of the source, the destination and the result.
AddOverflow(s, d, r) == Negative(s) # Negative(r) /\ Negative(d) # Negative(r)
SubOverflow(s, d, r) == Negative(s) # Negative(d) /\ Negative(r) # Negative(d)

\* flag_add: the carry is found by comparing the source with ~dst.
Add(s, d) ==
  LET r == Cast(d + s)
      c == M - 1 - d < s
  IN Out(r, Ccr(c, Negative(r), r = 0, AddOverflow(s, d, r), c))

\* flag_sub.
Sub(s, d) ==
  LET r == Cast(d - s)
      c == s > d
  IN Out(r, Ccr(c, Negative(r), r = 0, SubOverflow(s, d, r), c))

\* flag_cmp, which stores nothing and keeps X.
Cmp(f, s, d) == Out(d, (Sub(s, d).f \ {"X"}) \cup (f \cap {"X"}))

\* flag_addx and flag_zn: carry and overflow from the signs, Z only ever cleared.
\* Mutant: Z is set by the last word alone.
AddxZeroAlone(f, s, d) ==
  LET r == Cast(d + s + One("X" \in f))
      flgs == Negative(s)
      flgo == Negative(d)
      flgn == Negative(r)
      c == flgs # (flgs # flgo /\ flgo # flgn)
  IN Out(r, Ccr(c, flgn, r = 0, AddOverflow(s, d, r), c))
Addx(f, s, d) ==
  LET r == Cast(d + s + One("X" \in f))
      flgs == Negative(s)
      flgo == Negative(d)
      flgn == Negative(r)
      c == flgs # (flgs # flgo /\ flgo # flgn)
  IN Out(r, Ccr(c, flgn, "Z" \in f /\ r = 0, AddOverflow(s, d, r), c))

\* flag_subx and flag_zn.
\* Mutant: the minterm of flag_addx.
SubxMinterm(f, s, d) ==
  LET r == Cast(d - s - One("X" \in f))
      flgs == Negative(s)
      flgo == Negative(d)
      flgn == Negative(r)
      c == flgs # (flgs # flgo /\ flgo # flgn)
  IN Out(r, Ccr(c, flgn, "Z" \in f /\ r = 0, SubOverflow(s, d, r), c))
Subx(f, s, d) ==
  LET r == Cast(d - s - One("X" \in f))
      flgs == Negative(s)
      flgo == Negative(d)
      flgn == Negative(r)
      c == flgs # (flgs # flgn /\ flgo # flgn)
  IN Out(r, Ccr(c, flgn, "Z" \in f /\ r = 0, SubOverflow(s, d, r), c))

Neg(s) == Sub(s, 0)
Negx(f, s) == Subx(f, s, 0)

(***************************************************************************)
(* Packed decimal bytes.  newv, newv_lo and newv_hi are uae_u16.            *)
(***************************************************************************)
U16(n) == n % 65536
Lo(v) == v % 16
Hi(v) == v - (v % 16)
Decimal(f, newv, c, v) ==
  LET r == newv % 256
  IN Out(r, Ccr(c, r >= 128, "Z" \in f /\ r = 0, v, c))
Bit7(n) == (n \div 128) % 2 = 1

Abcd(f, s, d) ==
  LET newv_lo == Lo(s) + Lo(d) + One("X" \in f)
      tmp_newv == Hi(s) + Hi(d) + newv_lo
      adjusted == IF newv_lo > 9 THEN tmp_newv + 6 ELSE tmp_newv
      cflg == 16 * ((adjusted \div 16) % 64) > 144
      newv == IF cflg THEN adjusted + 96 ELSE adjusted
  IN Decimal(f, newv, cflg, ~Bit7(tmp_newv) /\ Bit7(newv))

\* The borrow is seen in bit 8 of the difference, the carry in bits 8 and 9 of the
\* one that is adjusted by six.
Sbcd(f, s, d) ==
  LET newv_lo == U16(Lo(d) - Lo(s) - One("X" \in f))
      newv_hi == U16(Hi(d) - Hi(s))
      tmp_newv == U16(newv_hi + newv_lo)
      bcd == IF (newv_lo \div 16) % 16 # 0 THEN 6 ELSE 0
      borrow == ((d - s - One("X" \in f)) \div 256) % 2 = 1
      cflg == ((d - s - bcd - One("X" \in f)) \div 256) % 4 # 0
      newv == U16(tmp_newv - bcd - (IF borrow THEN 96 ELSE 0))
  IN Decimal(f, newv, cflg, Bit7(tmp_newv) /\ ~Bit7(newv))

\* V is left as it was.
Nbcd(f, s) ==
  LET low == U16(-Lo(s) - One("X" \in f))
      newv_lo == IF low > 9 THEN low - 6 ELSE low
      sum == U16(U16(-Hi(s)) + newv_lo)
      cflg == 16 * ((sum \div 16) % 32) > 144
      newv == IF cflg THEN U16(sum - 96) ELSE sum
  IN Decimal(f, newv, cflg, "V" \in f)

(***************************************************************************)
(* Words multiplied to longs, and longs divided by words: a word is one of   *)
(* Values here, a long one of 0 .. M * M - 1.                               *)
(***************************************************************************)
LongCast(n) == n % (M * M)
LongNegative(n) == n >= Half * M
LongSigned(n) == IF LongNegative(n) THEN n - M * M ELSE n
LongLogical(f, r) ==
  Out(r, Ccr("X" \in f, LongNegative(r), r = 0, FALSE, FALSE))

Mulu(f, s, d) == LongLogical(f, d * s)
Muls(f, s, d) == LongLogical(f, LongCast(SignedValue(d) * SignedValue(s)))

\* C's division of signed numbers, which cuts towards zero, and its remainder.
Magnitude(n) == IF n < 0 THEN -n ELSE n
Quot(n, m) ==
  LET q == Magnitude(n) \div Magnitude(m)
  IN IF (n < 0) = (m < 0) THEN q ELSE -q
Rem(n, m) == n - m * Quot(n, m)

\* The destination keeps its value when the quotient does not fit.
Overflowed(f, d) == Out(d, (f \cup {"V", "N"}) \ {"C"})
Divided(f, newv, rem) == Out(newv + M * rem, Logical(f, newv).f)

Divu(f, s, d) ==
  LET newv == d \div s
  IN IF newv > M - 1 THEN Overflowed(f, d) ELSE Divided(f, newv, d % s)

\* Mutant: the remainder takes the sign of the divisor.
DivsRemainder(f, s, d) ==
  LET newv == Quot(LongSigned(d), SignedValue(s))
      rem == Cast(Rem(LongSigned(d), SignedValue(s)))
      signed == IF Negative(rem) # Negative(s) THEN Cast(-rem) ELSE rem
  IN IF newv \div Half \notin {0, -1} THEN Overflowed(f, d)
     ELSE Divided(f, Cast(newv), signed)
Divs(f, s, d) ==
  LET newv == Quot(LongSigned(d), SignedValue(s))
      rem == Cast(Rem(LongSigned(d), SignedValue(s)))
      signed == IF Negative(rem) # LongNegative(d) THEN Cast(-rem) ELSE rem
  IN IF newv \div Half \notin {0, -1} THEN Overflowed(f, d)
     ELSE Divided(f, Cast(newv), signed)

\* The host's own division has no answer for the smallest long and -1.
NoQuotient(s, d) == LongSigned(d) = -Half * M /\ SignedValue(s) = -1

(***************************************************************************)
(* cctrue (src/cpu/m68k.h).                                                 *)
(***************************************************************************)
cctrue(cc, f) ==
  CASE cc = "T" -> TRUE               [] cc = "F" -> FALSE
    [] cc = "HI" -> "C" \notin f /\ "Z" \notin f      [] cc = "LS" -> "C" \in f \/ "Z" \in f
    [] cc = "CC" -> "C" \notin f              [] cc = "CS" -> "C" \in f
    [] cc = "NE" -> "Z" \notin f              [] cc = "EQ" -> "Z" \in f
    [] cc = "VC" -> "V" \notin f              [] cc = "VS" -> "V" \in f
    [] cc = "PL" -> "N" \notin f              [] cc = "MI" -> "N" \in f
    [] cc = "GE" -> ("N" \in f) = ("V" \in f)         [] cc = "LT" -> ("N" \in f) # ("V" \in f)
    [] cc = "GT" -> "Z" \notin f /\ ("N" \in f) = ("V" \in f) [] cc = "LE" -> "Z" \in f \/ ("N" \in f) # ("V" \in f)
=============================================================================
