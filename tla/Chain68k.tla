------------------------------ MODULE Chain68k ------------------------------
(***************************************************************************)
(* Numbers longer than a register: a guest adds, subtracts or negates them   *)
(* word by word from the lowest, the first with ADD, SUB or NEG, or with X   *)
(* clear and Z set, the others with ADDX, SUBX, NEGX, ABCD, SBCD or NBCD,    *)
(* and branches on the flags of the last one.  CMP is a chain of one word.   *)
(***************************************************************************)
EXTENDS Alu68k

CONSTANTS MaxWords,      \* bound: words of a number
          LowPairs       \* the pairs of decimal digits below the highest one

ASSUME WordsAssumption == MaxWords \in Nat /\ LowPairs \subseteq 0 .. 99

VARIABLES op,            \* what is computed: "none" at first
          words,         \* how many words are done
          weight,        \* what the next word counts
          dst, src,      \* history: the operands so far, as numbers
          res,           \* the words stored so far, as a number
          f              \* the flags
chainVars == <<op, words, weight, dst, src, res, f>>

ChainInit ==
  /\ op = "none" /\ words = 0 /\ weight = 1
  /\ dst = 0 /\ src = 0 /\ res = 0
  /\ f \in SUBSET Flags

\* X and Z as a first extended instruction needs them.
Prepared == words > 0 \/ ("X" \notin f /\ "Z" \in f)

\* One more word of the operands s and d, with the result out.
Word(o, base, s, d, r, out) ==
  /\ op' = o
  /\ words' = words + 1
  /\ weight' = weight * base
  /\ src' = src + weight * s
  /\ dst' = dst + weight * d
  /\ res' = res + weight * r
  /\ f' = out.f

Begins == words = 0 /\ words < MaxWords
Goes(o) == op \in {"none", o} /\ words < MaxWords /\ Prepared
Stored(o, s, d, out) == Word(o, M, s, d, out.r, out)

AddFirst == Begins /\ \E s, d \in Values : Stored("add", s, d, Add(s, d))
AddNext == Goes("add") /\ \E s, d \in Values : Stored("add", s, d, Addx(f, s, d))
SubFirst == Begins /\ \E s, d \in Values : Stored("sub", s, d, Sub(s, d))
SubNext == Goes("sub") /\ \E s, d \in Values : Stored("sub", s, d, Subx(f, s, d))
NegFirst == Begins /\ \E s \in Values : Stored("neg", s, 0, Neg(s))
NegNext == Goes("neg") /\ \E s \in Values : Stored("neg", s, 0, Negx(f, s))

\* The difference CMP finds and does not store.
Compare ==
  Begins /\ \E s, d \in Values : Word("cmp", M, s, d, Cast(d - s), Cmp(f, s, d))

\* Decimal digits in pairs: 42 is the byte $42.
Packed(n) == 16 * (n \div 10) + (n % 10)
Unpacked(b) == IF Lo(b) < 10 /\ b < 160 THEN 10 * (b \div 16) + Lo(b) ELSE 1000
Pairs == IF words + 1 < MaxWords THEN LowPairs ELSE 0 .. 99
StoredDecimal(o, s, d, out) == Word(o, 100, s, d, Unpacked(out.r), out)

AddDecimal ==
  Goes("abcd") /\ \E s, d \in Pairs : StoredDecimal("abcd", s, d, Abcd(f, Packed(s), Packed(d)))
SubDecimal ==
  Goes("sbcd") /\ \E s, d \in Pairs : StoredDecimal("sbcd", s, d, Sbcd(f, Packed(s), Packed(d)))
NegDecimal ==
  Goes("nbcd") /\ \E s \in Pairs : StoredDecimal("nbcd", s, 0, Nbcd(f, Packed(s)))

ChainNext ==
  \/ AddFirst \/ AddNext \/ SubFirst \/ SubNext \/ NegFirst \/ NegNext \/ Compare
  \/ AddDecimal \/ SubDecimal \/ NegDecimal

ChainSpec == ChainInit /\ [][ChainNext]_chainVars

-----------------------------------------------------------------------------
(* Properties.                                                              *)

Adds == {"add", "abcd"}
Subtracts == {"sub", "neg", "cmp", "sbcd", "nbcd"}
Carry == IF "C" \in f THEN weight ELSE 0

\* What a chain has stored so far and its last carry or borrow are together exactly
\* the sum or the difference of the numbers, decimal or binary, however long; and Z
\* says whether the whole result is zero, not only its last word.
ChainExact ==
  /\ op \in Adds => res + Carry = dst + src
  /\ op \in Subtracts => res - Carry = dst - src
  /\ res \in 0 .. weight - 1
  /\ words > 0 => ("Z" \in f <=> res = 0)

\* The numbers so far in two's complement.
Complement(n) == IF 2 * n >= weight THEN n - weight ELSE n
Representable(n) == -weight <= 2 * n /\ 2 * n < weight

\* After a subtraction of long numbers, or a CMP, every condition of a branch says of
\* the whole numbers what its name says, signed or unsigned; after every binary chain
\* V says whether the exact result fits.
ConditionsHold ==
  /\ op \in {"sub", "cmp", "neg"} =>
       /\ cctrue("HI", f) <=> dst > src
       /\ cctrue("LS", f) <=> dst <= src
       /\ cctrue("CC", f) <=> dst >= src
       /\ cctrue("CS", f) <=> dst < src
       /\ cctrue("NE", f) <=> dst # src
       /\ cctrue("EQ", f) <=> dst = src
       /\ cctrue("GE", f) <=> Complement(dst) >= Complement(src)
       /\ cctrue("LT", f) <=> Complement(dst) < Complement(src)
       /\ cctrue("GT", f) <=> Complement(dst) > Complement(src)
       /\ cctrue("LE", f) <=> Complement(dst) <= Complement(src)
       /\ cctrue("VC", f) <=> Representable(Complement(dst) - Complement(src))
  /\ op = "add" =>
       /\ cctrue("VS", f) <=> ~Representable(Complement(dst) + Complement(src))
       /\ cctrue("MI", f) <=> Complement(res) < 0
       /\ cctrue("PL", f) <=> Complement(res) >= 0
=============================================================================
