------------------------------ MODULE Divide68k ------------------------------
(***************************************************************************)
(* A data register that is multiplied and divided by words, signed and       *)
(* unsigned, with the exception of a division by zero and the one quotient   *)
(* the host's own division has no answer for.                                *)
(***************************************************************************)
EXTENDS Alu68k

VARIABLES reg,           \* the data register, a long
          flags,           \* the flags
          last,          \* the instruction that was executed last
          by, was,       \* history: its operand, and the register before it
          flagsWas         \* history: the flags before it
divideVars == <<reg, flags, last, by, was, flagsWas>>

DivideInit ==
  /\ reg \in 0 .. M * M - 1 /\ was = reg /\ by = 0
  /\ flags \in {{}, Flags} /\ flagsWas = flags
  /\ last = "none"

Executes(i, s, out) ==
  /\ last' = i /\ by' = s
  /\ was' = reg /\ reg' = out.r
  /\ flagsWas' = flags /\ flags' = out.f

\* MULU and MULS read the low word of the register and write all of it.
Multiply ==
  /\ last = "none"
  /\ \E s \in Values : \/ Executes("mulu", s, Mulu(flags, s, reg % M))
                       \/ Executes("muls", s, Muls(flags, s, reg % M))

\* Exception 5 follows, with V clear: the emulator prints the registers and exits.
DivideByZero ==
  last # "crash" /\ Executes("crash", 0, Out(reg, flags \ {"V"}))

Divide ==
  /\ last \in {"none", "mulu", "muls"}
  /\ \E s \in Values \ {0} :
       \/ Executes("divu", s, Divu(flags, s, reg))
       \/ ~NoQuotient(s, reg) /\ Executes("divs", s, Divs(flags, s, reg))

\* The program ends with the host's trap, where the host has one.
HostTraps ==
  /\ last \in {"none", "mulu", "muls"}
  /\ \E s \in Values : NoQuotient(s, reg) /\ Executes("crash", s, Out(reg, flags))

DivideNext == Multiply \/ DivideByZero \/ Divide \/ HostTraps

DivideSpec == DivideInit /\ [][DivideNext]_divideVars

-----------------------------------------------------------------------------
(* Properties.                                                              *)

Quotient == reg % M
Remainder == reg \div M

\* Quotient times divisor plus remainder is the dividend, with the remainder smaller
\* than the divisor and of the dividend's sign, unless V says that the quotient does
\* not fit, which it says exactly then, and the register is as before.
DivisionExact ==
  /\ last = "divu" =>
       /\ "V" \in flags <=> was >= M * by
       /\ "V" \in flags => reg = was
       /\ "V" \notin flags =>
            /\ was = Quotient * by + Remainder /\ Remainder < by
            /\ "N" \in flags <=> Negative(Quotient)
            /\ "Z" \in flags <=> Quotient = 0
  /\ last = "divs" =>
       LET n == LongSigned(was)
           m == SignedValue(by)
           q == SignedValue(Quotient)
           r == SignedValue(Remainder)
       IN /\ "V" \in flags <=>
               \A fit \in -Half .. Half - 1 : Magnitude(n - fit * m) >= Magnitude(m)
                                                \/ (n - fit * m) * n < 0
          /\ "V" \in flags => reg = was
          /\ "V" \notin flags =>
               /\ n = q * m + r /\ Magnitude(r) < Magnitude(m) /\ r * n >= 0
               /\ "N" \in flags <=> q < 0
               /\ "Z" \in flags <=> q = 0
  /\ last = "mulu" => reg = (was % M) * by
  /\ last = "muls" => LongSigned(reg) = SignedValue(was % M) * SignedValue(by)
  /\ "X" \in flags <=> "X" \in flagsWas
=============================================================================
