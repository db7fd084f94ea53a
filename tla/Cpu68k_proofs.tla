--------------------------- MODULE Cpu68k_proofs ---------------------------
(***************************************************************************)
(* The instructions of the 68000: arithmetic, of any width where the width is *)
(* a constant, and stacks.                                                 *)
(*                                                                         *)
(* Chains.  What a chain of ADD and ADDX, SUB and SUBX, NEG and NEGX, ABCD, *)
(* SBCD or NBCD has stored is the exact sum or difference of numbers of any *)
(* length, and the conditions of a branch after it are true of the whole    *)
(* numbers.  A lemma for every instruction says what one word does: its      *)
(* result and its carry together are the exact sum of the words and the     *)
(* carry that came in.  ChainInv carries that over the words, for which X   *)
(* has to be the carry and Z the zero of all words so far; the signs of the *)
(* numbers are those of their last words.                                  *)
(*                                                                         *)
(* Divisions.  A register divided or multiplied again and again by any       *)
(* operands holds the exact quotient and remainder, or product, or is left   *)
(* alone with V set where the quotient does not fit a word.  The two halves  *)
(* of a register are told apart by Joined, a signed quotient from one of     *)
(* magnitudes by QuotIs, and OnlyQuotient says that no other pair will do.   *)
(*                                                                         *)
(* Shifts.  A register shifted or rotated by a count is what shifting by one *)
(* that often makes of it, flags included, for every value and every count.  *)
(* Moved, CarryOf, XOf and TurnedOf say bit by bit what has come of the first *)
(* value after n times; the lemmas called AtOnce show that the instruction    *)
(* with a count computes them, those called Again that one more shift by one  *)
(* takes them from n to n + 1, and ShiftInv carries that over the count.      *)
(* The same lemmas say what a shift by one, by sixteen or by half a size is,  *)
(* from which NumberUp gets the sum of a byte and itself, and so what ADD,    *)
(* SWAP and EXT do by their own ways.                                      *)
(*                                                                         *)
(* Stacks.  Whatever the guest has entered it gets back when it leaves.      *)
(* Frame says what an entry has left in memory, Stacked that all entries are  *)
(* there, each between the stack pointers of its moment and of the next, and  *)
(* Linked that A6 points to the last LINK that is open.  Entering writes only *)
(* below what is in use; leaving goes back to the moment before.            *)
(***************************************************************************)
EXTENDS Chain68k, Divide68k, Shift68k, Stack68k, FiniteSetTheorems, SequenceTheorems, TLAPS

-----------------------------------------------------------------------------
(* Arithmetic.                                                             *)

LEMMA Residue ==
  ASSUME NEW m \in Nat \ {0}, NEW n \in Int
  PROVE  /\ 0 <= n /\ n < m => n % m = n
         /\ m <= n /\ n < m + m => n % m = n - m
         /\ -m <= n /\ n < 0 => n % m = n + m
<1>1. 0 <= n /\ n < m => n % m = n
  OBVIOUS
<1>2. m <= n /\ n < m + m => n % m = n - m
  OBVIOUS
<1>3. -m <= n /\ n < 0 => n % m = n + m
  OBVIOUS
<1>. QED
  BY <1>1, <1>2, <1>3

LEMMA MNat == M \in Nat \ {0} /\ M = Half + Half /\ Half \in Nat \ {0}
BY HalfAssumption DEF M

LEMMA Products == \A a, b \in Int : a * b \in Int
OBVIOUS

\* A number below w with one more digit in base b in front of it.
LEMMA OneMoreDigit ==
  ASSUME NEW w \in Nat \ {0}, NEW b \in Nat \ {0}, NEW n \in 0 .. w - 1, NEW r \in 0 .. b - 1
  PROVE  /\ w * b \in Nat \ {0} /\ w * r \in Nat
         /\ n + w * r \in 0 .. w * b - 1
         /\ n + w * r = 0 <=> n = 0 /\ r = 0
<1>1. w * b \in Nat \ {0} /\ w * r \in Nat
  OBVIOUS
<1>2. w * r + w <= w * b
  OBVIOUS
<1>3. w * r = 0 <=> r = 0
  OBVIOUS
<1>. QED
  BY <1>1, <1>2, <1>3

\* The carry of a sum moves with the weight, and so does the borrow of a difference.
LEMMA CarriedOver ==
  ASSUME NEW w \in Nat, NEW b \in Nat, NEW sw \in Int, NEW d \in Int, NEW r \in Int,
         NEW x \in {0, 1}, NEW y \in {0, 1}
  PROVE  /\ r + b * y = d + sw + x => w * r + (w * b) * y = w * d + w * sw + w * x
         /\ r - b * y = d - sw - x => w * r - (w * b) * y = w * d - w * sw - w * x
<1>1. ASSUME r + b * y = d + sw + x PROVE w * r + (w * b) * y = w * d + w * sw + w * x
  <2>1. w * (r + b * y) = w * (d + sw + x)
    BY <1>1
  <2>2. w * (r + b * y) = w * r + (w * b) * y
    OBVIOUS
  <2>3. w * (d + sw + x) = w * d + w * sw + w * x
    OBVIOUS
  <2>. QED
    BY <2>1, <2>2, <2>3
<1>2. ASSUME r - b * y = d - sw - x PROVE w * r - (w * b) * y = w * d - w * sw - w * x
  <2>1. w * (r - b * y) = w * (d - sw - x)
    BY <1>2
  <2>2. w * (r - b * y) = w * r - (w * b) * y
    OBVIOUS
  <2>3. w * (d - sw - x) = w * d - w * sw - w * x
    OBVIOUS
  <2>. QED
    BY <2>1, <2>2, <2>3
<1>. QED
  BY <1>1, <1>2

\* A number is in the upper half when its highest word is.
LEMMA SignOfHighest ==
  ASSUME NEW w \in Nat \ {0}, NEW n \in 0 .. w - 1, NEW r \in Values
  PROVE  2 * (n + w * r) >= w * M <=> Negative(r)
<1>. DEFINE h == w * Half
<1>1. w * M = h + h /\ h \in Nat
  BY MNat
<1>2. CASE r >= Half
  <2>1. w * r >= h
    BY <1>2, MNat DEF Values
  <2>. HIDE DEF h
  <2>2. w * r \in Int
    BY DEF Values
  <2>. QED
    BY <1>1, <1>2, <2>1, <2>2 DEF Negative
<1>3. CASE r < Half
  <2>1. w * r + w <= h
    BY <1>3, MNat DEF Values
  <2>. HIDE DEF h
  <2>2. w * r \in Int
    BY DEF Values
  <2>. QED
    BY <1>1, <1>3, <2>1, <2>2, MNat DEF Negative, Values
<1>. QED
  BY <1>2, <1>3, MNat DEF Values

LEMMA CastIs ==
  ASSUME NEW n \in Int
  PROVE  /\ 0 <= n /\ n < M => Cast(n) = n
         /\ M <= n /\ n < M + M => Cast(n) = n - M
         /\ -M <= n /\ n < 0 => Cast(n) = n + M
BY MNat, Residue DEF Cast

-----------------------------------------------------------------------------
(* One word.                                                               *)

\* In base b: sw and d and what was carried make r, and a carry that X keeps.
Plus(b, sw, d, x, r, fs) ==
  /\ r \in 0 .. b - 1
  /\ fs \in SUBSET Flags
  /\ r + b * One("C" \in fs) = d + sw + x
  /\ "X" \in fs <=> "C" \in fs
Minus(b, sw, d, x, r, fs) ==
  /\ r \in 0 .. b - 1
  /\ fs \in SUBSET Flags
  /\ r - b * One("C" \in fs) = d - sw - x

LEMMA AddWord ==
  ASSUME NEW sw \in Values, NEW d \in Values
  PROVE  LET out == Add(sw, d)
         IN /\ Plus(M, sw, d, 0, out.r, out.f)
            /\ "Z" \in out.f <=> out.r = 0
            /\ "N" \in out.f <=> Negative(out.r)
            /\ "V" \in out.f <=> AddOverflow(sw, d, out.r)
<1>. DEFINE r == Cast(d + sw)
            c == M - 1 - d < sw
<1>1. /\ Add(sw, d).r = r
      /\ Add(sw, d).f = Ccr(c, Negative(r), r = 0, AddOverflow(sw, d, r), c)
  BY DEF Add, Out
<1>2. sw \in Int /\ d \in Int /\ 0 <= sw /\ 0 <= d /\ sw < M /\ d < M
  BY MNat DEF Values
<1>3. c <=> d + sw >= M
  BY <1>2, MNat
<1>4. r = IF c THEN d + sw - M ELSE d + sw
  BY <1>2, <1>3, MNat, CastIs
<1>5. r \in 0 .. M - 1 /\ r + M * One(c) = d + sw + 0
  BY <1>2, <1>3, <1>4, MNat DEF One
<1>. HIDE DEF r, c
<1>. DEFINE g == Ccr(c, Negative(r), r = 0, AddOverflow(sw, d, r), c)
<1>6. /\ g \in SUBSET Flags
      /\ "X" \in g <=> c
      /\ "C" \in g <=> c
      /\ "N" \in g <=> Negative(r)
      /\ "Z" \in g <=> r = 0
      /\ "V" \in g <=> AddOverflow(sw, d, r)
  BY DEF Ccr, Flags
<1>7. Add(sw, d).r = r /\ Add(sw, d).f = g
  BY <1>1
<1>. HIDE DEF g
<1>8. One("C" \in g) = One(c)
  BY <1>6 DEF One
<1>9. Plus(M, sw, d, 0, r, g)
  BY <1>5, <1>6, <1>8 DEF Plus
<1>. QED
  BY <1>6, <1>7, <1>9 DEF r

LEMMA AddxWord ==
  ASSUME NEW fs \in SUBSET Flags, NEW sw \in Values, NEW d \in Values
  PROVE  LET out == Addx(fs, sw, d)
         IN /\ Plus(M, sw, d, One("X" \in fs), out.r, out.f)
            /\ "Z" \in out.f <=> "Z" \in fs /\ out.r = 0
            /\ "N" \in out.f <=> Negative(out.r)
            /\ "V" \in out.f <=> AddOverflow(sw, d, out.r)
<1>. DEFINE x == One("X" \in fs)
            r == Cast(d + sw + x)
            c == Negative(sw) # (Negative(sw) # Negative(d) /\ Negative(d) # Negative(r))
<1>1. /\ Addx(fs, sw, d).r = r
      /\ Addx(fs, sw, d).f = Ccr(c, Negative(r), "Z" \in fs /\ r = 0, AddOverflow(sw, d, r), c)
  BY DEF Addx, Out
<1>2. /\ sw \in Int /\ d \in Int /\ 0 <= sw /\ 0 <= d /\ sw < M /\ d < M
      /\ x \in {0, 1}
  BY MNat DEF Values, One
<1>3. r = IF d + sw + x >= M THEN d + sw + x - M ELSE d + sw + x
  BY <1>2, MNat, CastIs
<1>4. c <=> d + sw + x >= M
  BY <1>2, <1>3, MNat DEF Negative
<1>5. r \in 0 .. M - 1 /\ r + M * One(c) = d + sw + x
  BY <1>2, <1>3, <1>4, MNat DEF One
<1>. HIDE DEF r, c, x
<1>. DEFINE g == Ccr(c, Negative(r), "Z" \in fs /\ r = 0, AddOverflow(sw, d, r), c)
<1>6. /\ g \in SUBSET Flags
      /\ "X" \in g <=> c
      /\ "C" \in g <=> c
      /\ "N" \in g <=> Negative(r)
      /\ "Z" \in g <=> "Z" \in fs /\ r = 0
      /\ "V" \in g <=> AddOverflow(sw, d, r)
  BY DEF Ccr, Flags
<1>7. Addx(fs, sw, d).r = r /\ Addx(fs, sw, d).f = g
  BY <1>1
<1>. HIDE DEF g
<1>8. One("C" \in g) = One(c)
  BY <1>6 DEF One
<1>9. Plus(M, sw, d, One("X" \in fs), r, g)
  BY <1>5, <1>6, <1>8 DEF Plus, x
<1>. QED
  BY <1>6, <1>7, <1>9 DEF r

LEMMA SubWord ==
  ASSUME NEW sw \in Values, NEW d \in Values
  PROVE  LET out == Sub(sw, d)
         IN /\ out.r = Cast(d - sw)
            /\ Minus(M, sw, d, 0, out.r, out.f)
            /\ "X" \in out.f <=> "C" \in out.f
            /\ "Z" \in out.f <=> out.r = 0
            /\ "N" \in out.f <=> Negative(out.r)
            /\ "V" \in out.f <=> SubOverflow(sw, d, out.r)
<1>. DEFINE r == Cast(d - sw)
            c == sw > d
<1>1. /\ Sub(sw, d).r = r
      /\ Sub(sw, d).f = Ccr(c, Negative(r), r = 0, SubOverflow(sw, d, r), c)
  BY DEF Sub, Out
<1>2. sw \in Int /\ d \in Int /\ 0 <= sw /\ 0 <= d /\ sw < M /\ d < M
  BY MNat DEF Values
<1>3. r = IF c THEN d - sw + M ELSE d - sw
  BY <1>2, MNat, CastIs
<1>4. r \in 0 .. M - 1 /\ r - M * One(c) = d - sw - 0
  BY <1>2, <1>3, MNat DEF One
<1>. HIDE DEF r, c
<1>. DEFINE g == Ccr(c, Negative(r), r = 0, SubOverflow(sw, d, r), c)
<1>5. /\ g \in SUBSET Flags
      /\ "X" \in g <=> c
      /\ "C" \in g <=> c
      /\ "N" \in g <=> Negative(r)
      /\ "Z" \in g <=> r = 0
      /\ "V" \in g <=> SubOverflow(sw, d, r)
  BY DEF Ccr, Flags
<1>6. Sub(sw, d).r = r /\ Sub(sw, d).f = g
  BY <1>1
<1>. HIDE DEF g
<1>7. One("C" \in g) = One(c)
  BY <1>5 DEF One
<1>8. Minus(M, sw, d, 0, r, g)
  BY <1>4, <1>5, <1>7 DEF Minus
<1>. QED
  BY <1>5, <1>6, <1>8 DEF r

LEMMA SubxWord ==
  ASSUME NEW fs \in SUBSET Flags, NEW sw \in Values, NEW d \in Values
  PROVE  LET out == Subx(fs, sw, d)
         IN /\ Minus(M, sw, d, One("X" \in fs), out.r, out.f)
            /\ "X" \in out.f <=> "C" \in out.f
            /\ "Z" \in out.f <=> "Z" \in fs /\ out.r = 0
            /\ "N" \in out.f <=> Negative(out.r)
            /\ "V" \in out.f <=> SubOverflow(sw, d, out.r)
<1>. DEFINE x == One("X" \in fs)
            r == Cast(d - sw - x)
            c == Negative(sw) # (Negative(sw) # Negative(r) /\ Negative(d) # Negative(r))
<1>1. /\ Subx(fs, sw, d).r = r
      /\ Subx(fs, sw, d).f = Ccr(c, Negative(r), "Z" \in fs /\ r = 0, SubOverflow(sw, d, r), c)
  BY DEF Subx, Out
<1>2. /\ sw \in Int /\ d \in Int /\ 0 <= sw /\ 0 <= d /\ sw < M /\ d < M
      /\ x \in {0, 1}
  BY MNat DEF Values, One
<1>3. r = IF d - sw - x < 0 THEN d - sw - x + M ELSE d - sw - x
  BY <1>2, MNat, CastIs
<1>4. c <=> d - sw - x < 0
  BY <1>2, <1>3, MNat DEF Negative
<1>5. r \in 0 .. M - 1 /\ r - M * One(c) = d - sw - x
  BY <1>2, <1>3, <1>4, MNat DEF One
<1>. HIDE DEF r, c, x
<1>. DEFINE g == Ccr(c, Negative(r), "Z" \in fs /\ r = 0, SubOverflow(sw, d, r), c)
<1>6. /\ g \in SUBSET Flags
      /\ "X" \in g <=> c
      /\ "C" \in g <=> c
      /\ "N" \in g <=> Negative(r)
      /\ "Z" \in g <=> "Z" \in fs /\ r = 0
      /\ "V" \in g <=> SubOverflow(sw, d, r)
  BY DEF Ccr, Flags
<1>7. Subx(fs, sw, d).r = r /\ Subx(fs, sw, d).f = g
  BY <1>1
<1>. HIDE DEF g
<1>8. One("C" \in g) = One(c)
  BY <1>6 DEF One
<1>9. Minus(M, sw, d, One("X" \in fs), r, g)
  BY <1>5, <1>6, <1>8 DEF Minus, x
<1>. QED
  BY <1>6, <1>7, <1>9 DEF r
-----------------------------------------------------------------------------
(* One pair of decimal digits.                                             *)

LEMMA Digits ==
  ASSUME NEW n \in 0 .. 99
  PROVE  /\ n \div 10 \in 0 .. 9 /\ n % 10 \in 0 .. 9 /\ n = 10 * (n \div 10) + (n % 10)
         /\ Packed(n) = 16 * (n \div 10) + (n % 10)
         /\ Lo(Packed(n)) = n % 10 /\ Hi(Packed(n)) = 16 * (n \div 10)
<1>1. n \div 10 \in 0 .. 9 /\ n % 10 \in 0 .. 9 /\ n = 10 * (n \div 10) + (n % 10)
  OBVIOUS
<1>. DEFINE h == n \div 10
            l == n % 10
<1>. HIDE DEF h, l
<1>2. (16 * h + l) % 16 = l
  BY <1>1 DEF h, l
<1>. QED
  BY <1>1, <1>2 DEF Packed, Lo, Hi, h, l

\* Unpacked gives back what the correct byte of two digits stands for.
LEMMA Unpack ==
  ASSUME NEW h \in 0 .. 9, NEW l \in 0 .. 9
  PROVE  Unpacked(16 * h + l) = 10 * h + l
<1>1. (16 * h + l) % 16 = l /\ (16 * h + l) \div 16 = h /\ 16 * h + l < 160
  OBVIOUS
<1>. QED
  BY <1>1 DEF Unpacked, Lo

\* A number of two hexadecimal digits, the higher perhaps negative or too large.
LEMMA TwoDigits ==
  ASSUME NEW t \in -26 .. 25, NEW l \in 0 .. 9
  PROVE  /\ (16 * t + l) \div 16 = t
         /\ 16 * t + l < 0 <=> t < 0
         /\ t \in 0 .. 9 => (16 * t + l) % 256 = 16 * t + l
         /\ t \in 16 .. 25 => (16 * t + l) % 256 = 16 * (t - 16) + l
         /\ t \in -16 .. -7 => (65536 + 16 * t + l) % 256 = 16 * (t + 16) + l
<1>1. (16 * t + l) \div 16 = t
  OBVIOUS
<1>2. /\ t \in 0 .. 9 => (16 * t + l) % 256 = 16 * t + l
      /\ t \in 16 .. 25 => (16 * t + l) % 256 = 16 * (t - 16) + l
  OBVIOUS
<1>3. t \in -16 .. -7 => (65536 + 16 * t + l) % 256 = 16 * (t + 16) + l
  OBVIOUS
<1>. QED
  BY <1>1, <1>2, <1>3

\* What a decimal instruction leaves: two digits and a carry that X keeps.
DecimalOut(out, fs, value, c) ==
  /\ out.r \in Nat /\ Unpacked(out.r) = value /\ value \in 0 .. 99
  /\ out.f \in SUBSET Flags
  /\ "X" \in out.f <=> c
  /\ "C" \in out.f <=> c
  /\ "Z" \in out.f <=> "Z" \in fs /\ value = 0

LEMMA DecimalIs ==
  ASSUME NEW fs \in SUBSET Flags, NEW newv \in Nat, NEW c \in BOOLEAN, NEW v \in BOOLEAN,
         NEW h \in 0 .. 9, NEW l \in 0 .. 9, newv % 256 = 16 * h + l
  PROVE  DecimalOut(Decimal(fs, newv, c, v), fs, 10 * h + l, c)
<1>. DEFINE r == newv % 256
            g == Ccr(c, r >= 128, "Z" \in fs /\ r = 0, v, c)
<1>1. Decimal(fs, newv, c, v) = Out(r, g)
  BY DEF Decimal
<1>2. r = 16 * h + l /\ r \in Nat
  OBVIOUS
<1>. HIDE DEF r
<1>3. /\ g \in SUBSET Flags
      /\ "X" \in g <=> c
      /\ "C" \in g <=> c
      /\ "Z" \in g <=> "Z" \in fs /\ r = 0
  BY DEF Ccr, Flags
<1>. HIDE DEF g
<1>4. /\ r = 0 <=> 10 * h + l = 0
      /\ 10 * h + l \in 0 .. 99
  BY <1>2
<1>5. Unpacked(r) = 10 * h + l
  BY <1>2, Unpack
<1>6. Out(r, g).r = r /\ Out(r, g).f = g
  BY DEF Out
<1>7. DecimalOut(Out(r, g), fs, 10 * h + l, c)
  BY <1>2, <1>3, <1>4, <1>5, <1>6 DEF DecimalOut
<1>. QED
  BY <1>1, <1>7

LEMMA AbcdPair ==
  ASSUME NEW fs \in SUBSET Flags, NEW sw \in 0 .. 99, NEW d \in 0 .. 99
  PROVE  LET x == One("X" \in fs)
             c == d + sw + x >= 100
         IN DecimalOut(Abcd(fs, Packed(sw), Packed(d)), fs,
                       IF c THEN d + sw + x - 100 ELSE d + sw + x, c)
<1>. DEFINE x == One("X" \in fs)
            sh == sw \div 10
            sl == sw % 10
            dh == d \div 10
            dl == d % 10
            lo == sl + dl + x
            k == IF lo > 9 THEN 1 ELSE 0
            l == lo - 10 * k
            t == sh + dh + k
            adjusted == 16 * t + l
            c == t > 9
            newv == IF c THEN adjusted + 96 ELSE adjusted
            tmp == 16 * sh + 16 * dh + lo
            h == IF c THEN t - 10 ELSE t
<1>1. /\ sh \in 0 .. 9 /\ sl \in 0 .. 9 /\ sw = 10 * sh + sl
      /\ dh \in 0 .. 9 /\ dl \in 0 .. 9 /\ d = 10 * dh + dl
      /\ Lo(Packed(sw)) = sl /\ Hi(Packed(sw)) = 16 * sh
      /\ Lo(Packed(d)) = dl /\ Hi(Packed(d)) = 16 * dh
      /\ x \in {0, 1}
  BY Digits DEF One
<1>. HIDE DEF x, sh, sl, dh, dl
<1>2. /\ lo \in 0 .. 19 /\ k \in {0, 1} /\ l \in 0 .. 9 /\ t \in 0 .. 19
      /\ adjusted = IF lo > 9 THEN tmp + 6 ELSE tmp
      /\ 10 * t + l = d + sw + x
  BY <1>1
<1>3. /\ adjusted \div 16 = t /\ t % 64 = t
      /\ 16 * ((adjusted \div 16) % 64) > 144 <=> c
  <2>. HIDE DEF t, l
  <2>. QED
    BY <1>2, TwoDigits
<1>4. newv \in Nat /\ h \in 0 .. 9 /\ newv % 256 = 16 * h + l
  <2>. HIDE DEF t, l
  <2>1. CASE c
    <3>1. newv = 16 * (t + 6) + l /\ t + 6 \in 16 .. 25
      BY <1>2, <2>1
    <3>2. (16 * (t + 6) + l) % 256 = 16 * (t + 6 - 16) + l
      BY <1>2, <3>1, TwoDigits
    <3>. QED
      BY <1>2, <2>1, <3>1, <3>2
  <2>2. CASE ~c
    BY <1>2, <2>2, TwoDigits
  <2>. QED
    BY <2>1, <2>2
<1>5. Abcd(fs, Packed(sw), Packed(d)) = Decimal(fs, newv, c, ~Bit7(tmp) /\ Bit7(newv))
  <2>1. Hi(Packed(sw)) + Hi(Packed(d)) + lo = tmp /\ Lo(Packed(sw)) + Lo(Packed(d)) + x = lo
    BY <1>1
  <2>. HIDE DEF lo, tmp, adjusted, c
  <2>2. (IF lo > 9 THEN tmp + 6 ELSE tmp) = adjusted
    BY <1>2
  <2>3. (16 * ((adjusted \div 16) % 64) > 144) = c
    BY <1>3 DEF c
  <2>. QED
    BY ZenonT(30), <2>1, <2>2, <2>3 DEF Abcd, x
<1>6. DecimalOut(Decimal(fs, newv, c, ~Bit7(tmp) /\ Bit7(newv)), fs, 10 * h + l, c)
  <2>1. c \in BOOLEAN /\ (~Bit7(tmp) /\ Bit7(newv)) \in BOOLEAN
    OBVIOUS
  <2>. HIDE DEF newv, h, l, c, tmp
  <2>. QED
    BY <1>2, <1>4, <2>1, DecimalIs
<1>7. /\ c <=> d + sw + x >= 100
      /\ 10 * h + l = IF c THEN d + sw + x - 100 ELSE d + sw + x
  <2>. HIDE DEF t, l
  <2>. QED
    BY <1>1, <1>2
<1>. HIDE DEF newv, h, l, c, tmp
<1>. QED
  BY <1>5, <1>6, <1>7 DEF DecimalOut, x

LEMMA U16Is ==
  ASSUME NEW n \in Int
  PROVE  /\ 0 <= n /\ n < 65536 => U16(n) = n
         /\ 65536 <= n /\ n < 131072 => U16(n) = n - 65536
         /\ -65536 <= n /\ n < 0 => U16(n) = n + 65536
BY DEF U16

LEMMA SbcdPair ==
  ASSUME NEW fs \in SUBSET Flags, NEW sw \in 0 .. 99, NEW d \in 0 .. 99
  PROVE  LET x == One("X" \in fs)
             c == d - sw - x < 0
         IN DecimalOut(Sbcd(fs, Packed(sw), Packed(d)), fs,
                       IF c THEN d - sw - x + 100 ELSE d - sw - x, c)
<1>. DEFINE x == One("X" \in fs)
            sh == sw \div 10
            sl == sw % 10
            dh == d \div 10
            dl == d % 10
            y == dl - sl - x
            k == IF y < 0 THEN 1 ELSE 0
            a == dh - sh
            t == a - k
            l == y + 10 * k
            lo == U16(y)
            tmp == U16(U16(16 * a) + lo)
            c == t < 0
            newv == U16(tmp - 6 * k - (IF c THEN 96 ELSE 0))
            h == IF c THEN t + 10 ELSE t
<1>1. /\ sh \in 0 .. 9 /\ sl \in 0 .. 9 /\ sw = 10 * sh + sl
      /\ dh \in 0 .. 9 /\ dl \in 0 .. 9 /\ d = 10 * dh + dl
      /\ Lo(Packed(sw)) = sl /\ Hi(Packed(sw)) = 16 * sh
      /\ Lo(Packed(d)) = dl /\ Hi(Packed(d)) = 16 * dh
      /\ Packed(sw) = 16 * sh + sl /\ Packed(d) = 16 * dh + dl
      /\ x \in {0, 1}
  BY Digits DEF One
<1>. HIDE DEF x, sh, sl, dh, dl
<1>2. /\ y \in -10 .. 9 /\ a \in -9 .. 9 /\ k \in {0, 1} /\ (k = 1 <=> y < 0)
  BY <1>1
<1>3. /\ t \in -10 .. 9 /\ l \in 0 .. 9
      /\ c <=> d - sw - x < 0
      /\ c => 10 * (t + 10) + l = d - sw - x + 100
      /\ ~c => 10 * t + l = d - sw - x
      /\ 16 * a + y < 0 <=> c
      /\ 16 * t + l < 0 <=> c
      /\ 16 * t + l = 16 * a + y - 6 * k
  <2>1. k \in {0, 1} /\ (k = 1 <=> dl - sl - x < 0)
    BY <1>2
  <2>. HIDE DEF k
  <2>2. /\ a - k \in -10 .. 9 /\ y + 10 * k \in 0 .. 9
        /\ a - k < 0 <=> d - sw - x < 0
        /\ a - k < 0 => 10 * (a - k + 10) + (y + 10 * k) = d - sw - x + 100
        /\ a - k >= 0 => 10 * (a - k) + (y + 10 * k) = d - sw - x
        /\ 16 * a + y < 0 <=> a - k < 0
        /\ 16 * (a - k) + (y + 10 * k) < 0 <=> a - k < 0
        /\ 16 * (a - k) + (y + 10 * k) = 16 * a + y - 6 * k
    <3>1. CASE k = 0
      BY <1>1, <2>1, <3>1
    <3>2. CASE k = 1
      BY <1>1, <2>1, <3>2
    <3>. QED
      BY <2>1, <3>1, <3>2
  <2>. HIDE DEF a, y
  <2>3. a \in Int /\ y \in Int
    BY <1>2
  <2>. QED
    BY <2>1, <2>2, <2>3
<1>4. (IF (lo \div 16) % 16 # 0 THEN 6 ELSE 0) = 6 * k
  <2>. HIDE DEF y
  <2>1. CASE y < 0
    <3>1. lo = y + 65536 /\ lo \div 16 = 4095
      BY <1>2, <2>1, U16Is
    <3>2. (lo \div 16) % 16 = 15
      BY <3>1
    <3>. QED
      BY <2>1, <3>2
  <2>2. CASE y >= 0
    <3>1. lo = y /\ lo \div 16 = 0
      BY <1>2, <2>2, U16Is
    <3>2. (lo \div 16) % 16 = 0
      BY <3>1
    <3>. QED
      BY <1>2, <2>2, <3>2
  <2>. QED
    BY <1>2, <2>1, <2>2
<1>. DEFINE n == 16 * a + y
            m == 16 * t + l
<1>5. /\ n \in -154 .. 153 /\ m \in -160 .. 153
      /\ Packed(d) - Packed(sw) - x = n
      /\ Packed(d) - Packed(sw) - 6 * k - x = m
  BY <1>1, <1>2, <1>3
<1>6. /\ (n \div 256) % 2 = 1 <=> c
      /\ (m \div 256) % 4 # 0 <=> c
  <2>1. (n < 0 <=> c) /\ (m < 0 <=> c)
    BY <1>3
  <2>. HIDE DEF n, m, c
  <2>2. /\ n < 0 => n \div 256 = -1
        /\ n >= 0 => n \div 256 = 0
        /\ m < 0 => m \div 256 = -1
        /\ m >= 0 => m \div 256 = 0
    BY <1>5
  <2>3. \A z \in -1 .. 0 : ((z % 2 = 1) <=> (z = -1)) /\ ((z % 4 # 0) <=> (z = -1))
    OBVIOUS
  <2>. QED
    BY <1>5, <2>1, <2>2, <2>3, n \div 256 \in -1 .. 0, m \div 256 \in -1 .. 0
<1>7. tmp = IF c THEN n + 65536 ELSE n
  <2>1. U16(16 * a) = IF a < 0 THEN 16 * a + 65536 ELSE 16 * a
    BY <1>2, U16Is
  <2>2. lo = IF y < 0 THEN y + 65536 ELSE y
    BY <1>2, U16Is
  <2>3. n < 0 <=> c
    BY <1>3
  <2>. HIDE DEF y, a, lo, c
  <2>. QED
    BY <1>2, <2>1, <2>2, <2>3, U16Is
<1>8. newv \in Nat /\ h \in 0 .. 9 /\ newv % 256 = 16 * h + l
  <2>1. tmp - 6 * k = IF c THEN m + 65536 ELSE m
    BY <1>2, <1>3, <1>7
  <2>. HIDE DEF tmp, t, l, k
  <2>2. CASE c
    <3>1. newv = 65536 + 16 * (t - 6) + l /\ t - 6 \in -16 .. -7
      BY <1>3, <2>1, <2>2, U16Is
    <3>2. (65536 + 16 * (t - 6) + l) % 256 = 16 * (t - 6 + 16) + l
      BY <1>3, <3>1, TwoDigits
    <3>. QED
      BY <1>3, <2>2, <3>1, <3>2
  <2>3. CASE ~c
    <3>1. newv = 16 * t + l /\ t \in 0 .. 9
      BY <1>3, <2>1, <2>3, U16Is
    <3>. QED
      BY <1>3, <2>3, <3>1, TwoDigits
  <2>. QED
    BY <2>2, <2>3
<1>9. Sbcd(fs, Packed(sw), Packed(d)) = Decimal(fs, newv, c, Bit7(tmp) /\ ~Bit7(newv))
  <2>1. Lo(Packed(d)) - Lo(Packed(sw)) - x = y /\ Hi(Packed(d)) - Hi(Packed(sw)) = 16 * a
    BY <1>1
  <2>2. ((n \div 256) % 2 = 1) = c /\ ((m \div 256) % 4 # 0) = c
    BY <1>6
  <2>. HIDE DEF y, a, lo, tmp, c, n, m, k
  <2>3. /\ U16(Lo(Packed(d)) - Lo(Packed(sw)) - x) = lo
        /\ U16(U16(Hi(Packed(d)) - Hi(Packed(sw))) + lo) = tmp
        /\ ((Packed(d) - Packed(sw) - x) \div 256) % 2 = (n \div 256) % 2
        /\ ((Packed(d) - Packed(sw) - 6 * k - x) \div 256) % 4 = (m \div 256) % 4
    BY <1>5, <2>1 DEF lo, tmp
  <2>4. /\ U16(Lo(Packed(d)) - Lo(Packed(sw)) - One("X" \in fs)) = lo
        /\ (((Packed(d) - Packed(sw) - One("X" \in fs)) \div 256) % 2 = 1) = c
        /\ (((Packed(d) - Packed(sw) - 6 * k - One("X" \in fs)) \div 256) % 4 # 0) = c
    BY <2>2, <2>3 DEF x
  <2>5. (IF (U16(Lo(Packed(d)) - Lo(Packed(sw)) - One("X" \in fs)) \div 16) % 16 # 0 THEN 6 ELSE 0)
        = 6 * k
    BY <1>4, <2>4
  <2>6. U16(tmp - 6 * k - (IF c THEN 96 ELSE 0)) = newv
    OBVIOUS
  <2>. HIDE DEF newv
  <2>. QED
    BY ZenonT(120), <2>3, <2>4, <2>5, <2>6 DEF Sbcd
<1>10. DecimalOut(Decimal(fs, newv, c, Bit7(tmp) /\ ~Bit7(newv)), fs, 10 * h + l, c)
  <2>1. c \in BOOLEAN /\ (Bit7(tmp) /\ ~Bit7(newv)) \in BOOLEAN
    OBVIOUS
  <2>. HIDE DEF newv, h, l, c, tmp
  <2>. QED
    BY <1>3, <1>8, <2>1, DecimalIs
<1>11. /\ c <=> d - sw - x < 0
       /\ 10 * h + l = IF c THEN d - sw - x + 100 ELSE d - sw - x
  <2>. HIDE DEF t, l
  <2>. QED
    BY <1>3
<1>. HIDE DEF newv, h, l, c, tmp
<1>. QED
  BY <1>9, <1>10, <1>11 DEF DecimalOut, x

LEMMA NbcdPair ==
  ASSUME NEW fs \in SUBSET Flags, NEW sw \in 0 .. 99
  PROVE  LET x == One("X" \in fs)
             c == 0 - sw - x < 0
         IN DecimalOut(Nbcd(fs, Packed(sw)), fs, IF c THEN 0 - sw - x + 100 ELSE 0 - sw - x, c)
<1>. DEFINE x == One("X" \in fs)
            sh == sw \div 10
            sl == sw % 10
            y == -sl - x
            k == IF y < 0 THEN 1 ELSE 0
            t == -sh - k
            l == y + 10 * k
            low == U16(y)
            lo == IF low > 9 THEN low - 6 ELSE low
            sum == U16(U16(-(16 * sh)) + lo)
            c == t < 0
            newv == IF c THEN U16(sum - 96) ELSE sum
            h == IF c THEN t + 10 ELSE t
<1>1. /\ sh \in 0 .. 9 /\ sl \in 0 .. 9 /\ sw = 10 * sh + sl
      /\ Lo(Packed(sw)) = sl /\ Hi(Packed(sw)) = 16 * sh
      /\ x \in {0, 1}
  BY Digits DEF One
<1>. HIDE DEF x, sh, sl
<1>2. y \in -10 .. 0 /\ k \in {0, 1} /\ (k = 1 <=> y < 0)
  BY <1>1
<1>. DEFINE m == 16 * t + l
<1>3. /\ t \in -10 .. 0 /\ l \in 0 .. 9
      /\ c <=> 0 - sw - x < 0
      /\ c => 10 * (t + 10) + l = 0 - sw - x + 100
      /\ ~c => 10 * t + l = 0 - sw - x
      /\ m < 0 <=> c
      /\ m = -(16 * sh) + y - 6 * k
  <2>. HIDE DEF k
  <2>1. CASE k = 0
    BY <1>1, <1>2, <2>1
  <2>2. CASE k = 1
    BY <1>1, <1>2, <2>2
  <2>. QED
    BY <1>2, <2>1, <2>2
<1>4. lo = IF k = 1 THEN y + 65536 - 6 ELSE y
  BY <1>2, U16Is
<1>5. sum = IF c THEN m + 65536 ELSE m
  <2>1. U16(-(16 * sh)) = IF sh > 0 THEN 65536 - 16 * sh ELSE -(16 * sh)
    BY <1>1, U16Is
  <2>2. m \in -160 .. 153
    BY <1>3
  <2>. HIDE DEF y, k, lo, c, m
  <2>. QED
    BY <1>1, <1>2, <1>3, <1>4, <2>1, <2>2, U16Is
<1>6. 16 * ((sum \div 16) % 32) > 144 <=> c
  <2>. HIDE DEF t, l, sum
  <2>1. CASE c
    <3>1. sum \div 16 = 4096 + t
      BY <1>3, <1>5, <2>1
    <3>2. (4096 + t) % 32 = 32 + t
      BY <1>3, <2>1
    <3>. QED
      BY <1>3, <2>1, <3>1, <3>2
  <2>2. CASE ~c
    <3>1. sum \div 16 = 0
      BY <1>3, <1>5, <2>2
    <3>. QED
      BY <2>2, <3>1
  <2>. QED
    BY <2>1, <2>2
<1>7. newv \in Nat /\ h \in 0 .. 9 /\ newv % 256 = 16 * h + l
  <2>. HIDE DEF sum, t, l
  <2>1. CASE c
    <3>1. newv = 65536 + 16 * (t - 6) + l /\ t - 6 \in -16 .. -7
      BY <1>3, <1>5, <2>1, U16Is
    <3>2. (65536 + 16 * (t - 6) + l) % 256 = 16 * (t - 6 + 16) + l
      BY <1>3, <3>1, TwoDigits
    <3>. QED
      BY <1>3, <2>1, <3>1, <3>2
  <2>2. CASE ~c
    <3>1. newv = 16 * t + l /\ t \in 0 .. 9
      BY <1>3, <1>5, <2>2
    <3>. QED
      BY <1>3, <2>2, <3>1, TwoDigits
  <2>. QED
    BY <2>1, <2>2
<1>8. Nbcd(fs, Packed(sw)) = Decimal(fs, newv, c, "V" \in fs)
  <2>1. -Lo(Packed(sw)) - One("X" \in fs) = y /\ -Hi(Packed(sw)) = -(16 * sh)
    BY <1>1 DEF x
  <2>. HIDE DEF y, low, lo, sum, c
  <2>2. /\ U16(-Lo(Packed(sw)) - One("X" \in fs)) = low
        /\ (IF low > 9 THEN low - 6 ELSE low) = lo
        /\ U16(U16(-Hi(Packed(sw))) + lo) = sum
        /\ (16 * ((sum \div 16) % 32) > 144) = c
    BY <1>6, <2>1 DEF low, lo, sum, c
  <2>. QED
    BY ZenonT(30), <2>2 DEF Nbcd
<1>9. DecimalOut(Decimal(fs, newv, c, "V" \in fs), fs, 10 * h + l, c)
  <2>1. c \in BOOLEAN /\ ("V" \in fs) \in BOOLEAN
    OBVIOUS
  <2>. HIDE DEF newv, h, l, c
  <2>. QED
    BY <1>3, <1>7, <2>1, DecimalIs
<1>10. /\ c <=> 0 - sw - x < 0
       /\ 10 * h + l = IF c THEN 0 - sw - x + 100 ELSE 0 - sw - x
  <2>. HIDE DEF t, l
  <2>. QED
    BY <1>3
<1>. HIDE DEF newv, h, l, c
<1>. QED
  BY <1>8, <1>9, <1>10 DEF DecimalOut, x

-----------------------------------------------------------------------------
(* All words.                                                              *)

ChainInv ==
  /\ words \in Nat /\ weight \in Nat \ {0}
  /\ dst \in 0 .. weight - 1 /\ src \in 0 .. weight - 1 /\ res \in 0 .. weight - 1
  /\ f \in SUBSET Flags
  /\ op \in {"none"} \cup Adds \cup Subtracts
  /\ words = 0 => op = "none" /\ weight = 1
  /\ words > 0 => op # "none" /\ ("Z" \in f <=> res = 0)
  /\ words > 0 /\ op # "cmp" => ("X" \in f <=> "C" \in f)
  /\ op \in Adds => res + Carry = dst + src
  /\ op \in Subtracts => res - Carry = dst - src

\* What the next word is given: nothing, or the carry of the last one.
Carried(x) == /\ words = 0 => x = 0
              /\ words > 0 => x = One("C" \in f)

LEMMA CarryIs ==
  ASSUME weight \in Nat
  PROVE  Carry = weight * One("C" \in f)
BY DEF Carry, One

LEMMA Longer ==
  ASSUME ChainInv, NEW base \in Nat \ {0}, NEW o, NEW out,
         NEW sw \in 0 .. base - 1, NEW d \in 0 .. base - 1, NEW r \in 0 .. base - 1,
         Word(o, base, sw, d, r, out)
  PROVE  /\ words' \in Nat /\ words' > 0 /\ weight' \in Nat \ {0}
         /\ dst' \in 0 .. weight' - 1 /\ src' \in 0 .. weight' - 1 /\ res' \in 0 .. weight' - 1
         /\ res' = 0 <=> res = 0 /\ r = 0
<1>1. words' \in Nat /\ words' > 0
  BY DEF ChainInv, Word
<1>2. /\ weight' = weight * base /\ dst' = dst + weight * d
      /\ src' = src + weight * sw /\ res' = res + weight * r
  BY DEF Word
<1>3. /\ weight \in Nat \ {0}
      /\ dst \in 0 .. weight - 1 /\ src \in 0 .. weight - 1 /\ res \in 0 .. weight - 1
  BY DEF ChainInv
<1>4. dst + weight * d \in 0 .. weight * base - 1 /\ weight * base \in Nat \ {0}
  BY <1>3, OneMoreDigit
<1>5. src + weight * sw \in 0 .. weight * base - 1
  BY <1>3, OneMoreDigit
<1>6. /\ res + weight * r \in 0 .. weight * base - 1
      /\ res + weight * r = 0 <=> res = 0 /\ r = 0
  BY <1>3, OneMoreDigit
<1>. QED
  BY <1>1, <1>2, <1>4, <1>5, <1>6

LEMMA AddsWord ==
  ASSUME ChainInv, NEW o \in Adds, op \in {"none", o}, NEW base \in Nat \ {0}, NEW out,
         NEW sw \in 0 .. base - 1, NEW d \in 0 .. base - 1, NEW r, NEW x \in {0, 1},
         Plus(base, sw, d, x, r, out.f), Carried(x),
         "Z" \in out.f <=> (words = 0 \/ "Z" \in f) /\ r = 0,
         Word(o, base, sw, d, r, out)
  PROVE  ChainInv'
<1>1. r \in 0 .. base - 1
  BY DEF Plus
<1>2. /\ words' \in Nat /\ words' > 0 /\ weight' \in Nat \ {0}
      /\ dst' \in 0 .. weight' - 1 /\ src' \in 0 .. weight' - 1 /\ res' \in 0 .. weight' - 1
      /\ res' = 0 <=> res = 0 /\ r = 0
  BY <1>1, Longer
<1>3. /\ op' = o /\ f' = out.f /\ f' \in SUBSET Flags
      /\ "X" \in f' <=> "C" \in f'
  BY DEF Word, Plus
<1>4. "Z" \in f' <=> res' = 0
  <2>1. words = 0 => res = 0
    BY DEF ChainInv
  <2>. QED
    BY <1>2, <1>3, <2>1 DEF ChainInv
<1>5. res + weight * x = dst + src
  <2>1. CASE words = 0
    BY <2>1 DEF ChainInv, Carried
  <2>2. CASE words > 0
    <3>1. op \in Adds /\ weight \in Nat
      BY <2>2 DEF ChainInv
    <3>. QED
      BY <2>2, <3>1, CarryIs DEF ChainInv, Carried
  <2>. QED
    BY <2>1, <2>2 DEF ChainInv
<1>6. res' + Carry' = dst' + src'
  <2>. DEFINE y == One("C" \in out.f)
  <2>1. y \in {0, 1} /\ r + base * y = d + sw + x
    BY DEF Plus, One
  <2>2. Carry' = (weight * base) * y
    BY <1>2, <1>3 DEF Carry, One, Word
  <2>. HIDE DEF y
  <2>3. weight \in Nat /\ base \in Nat /\ sw \in Int /\ d \in Int /\ r \in Int
    BY <1>1 DEF ChainInv
  <2>4. weight * r + (weight * base) * y = weight * d + weight * sw + weight * x
    BY <2>1, <2>3, CarriedOver
  <2>5. dst' = dst + weight * d /\ src' = src + weight * sw /\ res' = res + weight * r
    BY DEF Word
  <2>6. /\ weight * r \in Int /\ (weight * base) * y \in Int /\ weight * d \in Int
        /\ weight * sw \in Int /\ weight * x \in Int
    <3>1. /\ weight \in Int /\ base \in Int /\ sw \in Int /\ d \in Int /\ r \in Int
          /\ x \in Int /\ y \in Int
      BY <2>1, <2>3
    <3>. QED
      BY <3>1, Products, Zenon
  <2>7. dst \in Int /\ src \in Int /\ res \in Int
    BY DEF ChainInv
  <2>. DEFINE rr == weight * r
              cc == (weight * base) * y
              dd == weight * d
              ss == weight * sw
              xx == weight * x
  <2>. HIDE DEF rr, cc, dd, ss, xx
  <2>8. res' = res + rr /\ dst' = dst + dd /\ src' = src + ss /\ Carry' = cc
    BY <2>2, <2>5 DEF rr, cc, dd, ss
  <2>9. rr \in Int /\ cc \in Int /\ dd \in Int /\ ss \in Int /\ xx \in Int
    BY <2>6 DEF rr, cc, dd, ss, xx
  <2>10. rr + cc = dd + ss + xx /\ res + xx = dst + src
    BY <1>5, <2>4 DEF rr, cc, dd, ss, xx
  <2>. QED
    BY <2>7, <2>8, <2>9, <2>10
<1>7. o # "none" /\ o # "cmp" /\ o \notin Subtracts
  BY DEF Adds, Subtracts
<1>8. op' \in Adds => res' + Carry' = dst' + src'
  BY <1>6
<1>9. op' \in Subtracts => res' - Carry' = dst' - src'
  BY <1>3, <1>7
<1>10. /\ words' = 0 => op' = "none" /\ weight' = 1
       /\ words' > 0 => op' # "none" /\ ("Z" \in f' <=> res' = 0)
       /\ words' > 0 /\ op' # "cmp" => ("X" \in f' <=> "C" \in f')
       /\ op' \in {"none"} \cup Adds \cup Subtracts
  BY <1>2, <1>3, <1>4, <1>7
<1>. QED
  BY <1>2, <1>3, <1>8, <1>9, <1>10 DEF ChainInv

LEMMA SubtractsWord ==
  ASSUME ChainInv, NEW o \in Subtracts, op \in {"none", o}, NEW base \in Nat \ {0}, NEW out,
         NEW sw \in 0 .. base - 1, NEW d \in 0 .. base - 1, NEW r, NEW x \in {0, 1},
         Minus(base, sw, d, x, r, out.f), Carried(x),
         o # "cmp" => ("X" \in out.f <=> "C" \in out.f),
         "Z" \in out.f <=> (words = 0 \/ "Z" \in f) /\ r = 0,
         Word(o, base, sw, d, r, out)
  PROVE  ChainInv'
<1>1. r \in 0 .. base - 1
  BY DEF Minus
<1>2. /\ words' \in Nat /\ words' > 0 /\ weight' \in Nat \ {0}
      /\ dst' \in 0 .. weight' - 1 /\ src' \in 0 .. weight' - 1 /\ res' \in 0 .. weight' - 1
      /\ res' = 0 <=> res = 0 /\ r = 0
  BY <1>1, Longer
<1>3. /\ op' = o /\ f' = out.f /\ f' \in SUBSET Flags
      /\ o # "cmp" => ("X" \in f' <=> "C" \in f')
  BY DEF Word, Minus
<1>4. "Z" \in f' <=> res' = 0
  <2>1. words = 0 => res = 0
    BY DEF ChainInv
  <2>. QED
    BY <1>2, <1>3, <2>1 DEF ChainInv
<1>5. res - weight * x = dst - src
  <2>1. CASE words = 0
    BY <2>1 DEF ChainInv, Carried
  <2>2. CASE words > 0
    <3>1. op \in Subtracts /\ weight \in Nat
      BY <2>2 DEF ChainInv
    <3>. QED
      BY <2>2, <3>1, CarryIs DEF ChainInv, Carried
  <2>. QED
    BY <2>1, <2>2 DEF ChainInv
<1>6. res' - Carry' = dst' - src'
  <2>. DEFINE y == One("C" \in out.f)
  <2>1. y \in {0, 1} /\ r - base * y = d - sw - x
    BY DEF Minus, One
  <2>2. Carry' = (weight * base) * y
    BY <1>2, <1>3 DEF Carry, One, Word
  <2>. HIDE DEF y
  <2>3. weight \in Nat /\ base \in Nat /\ sw \in Int /\ d \in Int /\ r \in Int
    BY <1>1 DEF ChainInv
  <2>4. weight * r - (weight * base) * y = weight * d - weight * sw - weight * x
    BY <2>1, <2>3, CarriedOver
  <2>5. dst' = dst + weight * d /\ src' = src + weight * sw /\ res' = res + weight * r
    BY DEF Word
  <2>6. /\ weight * r \in Int /\ (weight * base) * y \in Int /\ weight * d \in Int
        /\ weight * sw \in Int /\ weight * x \in Int
    <3>1. /\ weight \in Int /\ base \in Int /\ sw \in Int /\ d \in Int /\ r \in Int
          /\ x \in Int /\ y \in Int
      BY <2>1, <2>3
    <3>. QED
      BY <3>1, Products, Zenon
  <2>7. dst \in Int /\ src \in Int /\ res \in Int
    BY DEF ChainInv
  <2>. DEFINE rr == weight * r
              cc == (weight * base) * y
              dd == weight * d
              ss == weight * sw
              xx == weight * x
  <2>. HIDE DEF rr, cc, dd, ss, xx
  <2>8. res' = res + rr /\ dst' = dst + dd /\ src' = src + ss /\ Carry' = cc
    BY <2>2, <2>5 DEF rr, cc, dd, ss
  <2>9. rr \in Int /\ cc \in Int /\ dd \in Int /\ ss \in Int /\ xx \in Int
    BY <2>6 DEF rr, cc, dd, ss, xx
  <2>10. rr - cc = dd - ss - xx /\ res - xx = dst - src
    BY <1>5, <2>4 DEF rr, cc, dd, ss, xx
  <2>. QED
    BY <2>7, <2>8, <2>9, <2>10
<1>7. o # "none" /\ o \notin Adds
  BY DEF Adds, Subtracts
<1>8. op' \in Adds => res' + Carry' = dst' + src'
  BY <1>3, <1>7
<1>9. op' \in Subtracts => res' - Carry' = dst' - src'
  BY <1>6
<1>10. /\ words' = 0 => op' = "none" /\ weight' = 1
       /\ words' > 0 => op' # "none" /\ ("Z" \in f' <=> res' = 0)
       /\ words' > 0 /\ op' # "cmp" => ("X" \in f' <=> "C" \in f')
       /\ op' \in {"none"} \cup Adds \cup Subtracts
  BY <1>2, <1>3, <1>4, <1>7
<1>. QED
  BY <1>2, <1>3, <1>8, <1>9, <1>10 DEF ChainInv

\* The operands of the actions, and what is carried into them.
LEMMA FirstCarriesNothing ==
  ASSUME ChainInv, words = 0
  PROVE  Carried(0) /\ op = "none"
BY DEF ChainInv, Carried

LEMMA NextCarriesX ==
  ASSUME ChainInv, NEW o \in (Adds \cup Subtracts) \ {"cmp"}, Goes(o)
  PROVE  /\ Carried(One("X" \in f)) /\ op \in {"none", o}
         /\ One("X" \in f) \in {0, 1} /\ f \in SUBSET Flags
         /\ "Z" \in f <=> words = 0 \/ "Z" \in f
<1>1. CASE words = 0
  BY <1>1 DEF ChainInv, Carried, Goes, Prepared, One
<1>2. CASE words > 0
  <2>1. op # "cmp" /\ op \in {"none", o}
    BY <1>2 DEF ChainInv, Goes
  <2>2. "X" \in f <=> "C" \in f
    BY <1>2, <2>1 DEF ChainInv
  <2>. QED
    BY <1>2, <2>1, <2>2 DEF ChainInv, Carried, One
<1>. QED
  BY <1>1, <1>2 DEF ChainInv

LEMMA CmpWord ==
  ASSUME NEW fs \in SUBSET Flags, NEW sw \in Values, NEW d \in Values
  PROVE  LET out == Cmp(fs, sw, d)
         IN /\ Minus(M, sw, d, 0, Cast(d - sw), out.f)
            /\ "Z" \in out.f <=> Cast(d - sw) = 0
            /\ "N" \in out.f <=> Negative(Cast(d - sw))
            /\ "V" \in out.f <=> SubOverflow(sw, d, Cast(d - sw))
<1>. DEFINE g == Sub(sw, d).f
            h == (g \ {"X"}) \cup (fs \cap {"X"})
            r == Cast(d - sw)
<1>1. /\ Sub(sw, d).r = r
      /\ Minus(M, sw, d, 0, r, g)
      /\ "Z" \in g <=> r = 0
      /\ "N" \in g <=> Negative(r)
      /\ "V" \in g <=> SubOverflow(sw, d, r)
  BY SubWord
<1>2. Cmp(fs, sw, d).f = h
  BY DEF Cmp, Out
<1>. HIDE DEF g, r
<1>3. /\ h \in SUBSET Flags
      /\ "Z" \in h <=> "Z" \in g
      /\ "N" \in h <=> "N" \in g
      /\ "V" \in h <=> "V" \in g
      /\ "C" \in h <=> "C" \in g
  BY <1>1 DEF Minus, Flags
<1>. HIDE DEF h
<1>4. One("C" \in h) = One("C" \in g)
  BY <1>3 DEF One
<1>5. Minus(M, sw, d, 0, r, h)
  BY <1>1, <1>3, <1>4 DEF Minus
<1>. QED
  BY <1>1, <1>2, <1>3, <1>5 DEF r

LEMMA BinaryKeeps ==
  ASSUME ChainInv, AddFirst \/ AddNext \/ SubFirst \/ SubNext \/ NegFirst \/ NegNext \/ Compare
  PROVE  ChainInv'
<1>1. /\ M \in Nat \ {0} /\ Values = 0 .. M - 1 /\ 0 \in Values
      /\ "add" \in Adds /\ "sub" \in Subtracts /\ "neg" \in Subtracts /\ "cmp" \in Subtracts
      /\ "sub" # "cmp" /\ "neg" # "cmp"
      /\ "add" \in (Adds \cup Subtracts) \ {"cmp"}
      /\ "sub" \in (Adds \cup Subtracts) \ {"cmp"}
      /\ "neg" \in (Adds \cup Subtracts) \ {"cmp"}
  BY MNat DEF Values, Adds, Subtracts
<1>. HIDE DEF Values
<1>2. CASE AddFirst
  <2>1. PICK sw \in Values, d \in Values : Stored("add", sw, d, Add(sw, d))
    BY <1>2 DEF AddFirst
  <2>. DEFINE out == Add(sw, d)
  <2>2. Plus(M, sw, d, 0, out.r, out.f) /\ ("Z" \in out.f <=> out.r = 0)
    BY AddWord
  <2>3. words = 0 /\ Word("add", M, sw, d, out.r, out)
    BY <1>2, <2>1 DEF AddFirst, Begins, Stored
  <2>4. Carried(0) /\ op \in {"none", "add"} /\ ("Z" \in out.f <=> (words = 0 \/ "Z" \in f) /\ out.r = 0)
    BY <2>2, <2>3, FirstCarriesNothing
  <2>. HIDE DEF out
  <2>. QED
    BY <1>1, <2>2, <2>3, <2>4, AddsWord
<1>3. CASE AddNext
  <2>1. PICK sw \in Values, d \in Values : Stored("add", sw, d, Addx(f, sw, d))
    BY <1>3 DEF AddNext
  <2>. DEFINE out == Addx(f, sw, d)
              x == One("X" \in f)
  <2>2. Carried(x) /\ op \in {"none", "add"} /\ x \in {0, 1} /\ f \in SUBSET Flags
        /\ ("Z" \in f <=> words = 0 \/ "Z" \in f)
    BY <1>1, <1>3, NextCarriesX DEF AddNext
  <2>3. Plus(M, sw, d, x, out.r, out.f) /\ ("Z" \in out.f <=> "Z" \in f /\ out.r = 0)
    BY <2>2, AddxWord
  <2>4. Word("add", M, sw, d, out.r, out)
    BY <2>1 DEF Stored
  <2>5. "Z" \in out.f <=> (words = 0 \/ "Z" \in f) /\ out.r = 0
    BY <2>2, <2>3
  <2>. HIDE DEF out, x
  <2>. QED
    BY <1>1, <2>2, <2>3, <2>4, <2>5, AddsWord
<1>4. CASE SubFirst
  <2>1. PICK sw \in Values, d \in Values : Stored("sub", sw, d, Sub(sw, d))
    BY <1>4 DEF SubFirst
  <2>. DEFINE out == Sub(sw, d)
  <2>2. /\ Minus(M, sw, d, 0, out.r, out.f) /\ ("Z" \in out.f <=> out.r = 0)
        /\ "X" \in out.f <=> "C" \in out.f
    BY SubWord
  <2>3. words = 0 /\ Word("sub", M, sw, d, out.r, out)
    BY <1>4, <2>1 DEF SubFirst, Begins, Stored
  <2>4. Carried(0) /\ op \in {"none", "sub"} /\ ("Z" \in out.f <=> (words = 0 \/ "Z" \in f) /\ out.r = 0)
    BY <2>2, <2>3, FirstCarriesNothing
  <2>. HIDE DEF out
  <2>. QED
    BY <1>1, <2>2, <2>3, <2>4, SubtractsWord
<1>5. CASE SubNext
  <2>1. PICK sw \in Values, d \in Values : Stored("sub", sw, d, Subx(f, sw, d))
    BY <1>5 DEF SubNext
  <2>. DEFINE out == Subx(f, sw, d)
              x == One("X" \in f)
  <2>2. Carried(x) /\ op \in {"none", "sub"} /\ x \in {0, 1} /\ f \in SUBSET Flags
        /\ ("Z" \in f <=> words = 0 \/ "Z" \in f)
    BY <1>1, <1>5, NextCarriesX DEF SubNext
  <2>3. /\ Minus(M, sw, d, x, out.r, out.f) /\ ("Z" \in out.f <=> "Z" \in f /\ out.r = 0)
        /\ "X" \in out.f <=> "C" \in out.f
    BY <2>2, SubxWord
  <2>4. Word("sub", M, sw, d, out.r, out)
    BY <2>1 DEF Stored
  <2>5. "Z" \in out.f <=> (words = 0 \/ "Z" \in f) /\ out.r = 0
    BY <2>2, <2>3
  <2>. HIDE DEF out, x
  <2>. QED
    BY <1>1, <2>2, <2>3, <2>4, <2>5, SubtractsWord
<1>6. CASE NegFirst
  <2>1. PICK sw \in Values : Stored("neg", sw, 0, Neg(sw))
    BY <1>6 DEF NegFirst
  <2>. DEFINE out == Sub(sw, 0)
  <2>2. /\ Minus(M, sw, 0, 0, out.r, out.f) /\ ("Z" \in out.f <=> out.r = 0)
        /\ "X" \in out.f <=> "C" \in out.f
    BY <1>1, SubWord
  <2>3. words = 0 /\ Word("neg", M, sw, 0, out.r, out)
    BY <1>6, <2>1 DEF NegFirst, Begins, Stored, Neg
  <2>4. Carried(0) /\ op \in {"none", "neg"} /\ ("Z" \in out.f <=> (words = 0 \/ "Z" \in f) /\ out.r = 0)
    BY <2>2, <2>3, FirstCarriesNothing
  <2>. HIDE DEF out
  <2>. QED
    BY <1>1, <2>2, <2>3, <2>4, SubtractsWord
<1>7. CASE NegNext
  <2>1. PICK sw \in Values : Stored("neg", sw, 0, Negx(f, sw))
    BY <1>7 DEF NegNext
  <2>. DEFINE out == Subx(f, sw, 0)
              x == One("X" \in f)
  <2>2. Carried(x) /\ op \in {"none", "neg"} /\ x \in {0, 1} /\ f \in SUBSET Flags
        /\ ("Z" \in f <=> words = 0 \/ "Z" \in f)
    BY <1>1, <1>7, NextCarriesX DEF NegNext
  <2>3. /\ Minus(M, sw, 0, x, out.r, out.f) /\ ("Z" \in out.f <=> "Z" \in f /\ out.r = 0)
        /\ "X" \in out.f <=> "C" \in out.f
    BY <1>1, <2>2, SubxWord
  <2>4. Word("neg", M, sw, 0, out.r, out)
    BY <2>1 DEF Stored, Negx
  <2>5. "Z" \in out.f <=> (words = 0 \/ "Z" \in f) /\ out.r = 0
    BY <2>2, <2>3
  <2>. HIDE DEF out, x
  <2>. QED
    BY <1>1, <2>2, <2>3, <2>4, <2>5, SubtractsWord
<1>8. CASE Compare
  <2>1. PICK sw \in Values, d \in Values : Word("cmp", M, sw, d, Cast(d - sw), Cmp(f, sw, d))
    BY <1>8 DEF Compare
  <2>. DEFINE out == Cmp(f, sw, d)
              r == Cast(d - sw)
  <2>2. f \in SUBSET Flags
    BY DEF ChainInv
  <2>3. Minus(M, sw, d, 0, r, out.f) /\ ("Z" \in out.f <=> r = 0)
    BY <2>2, CmpWord
  <2>4. words = 0 /\ Word("cmp", M, sw, d, r, out)
    BY <1>8, <2>1 DEF Compare, Begins
  <2>5. Carried(0) /\ op \in {"none", "cmp"} /\ ("Z" \in out.f <=> (words = 0 \/ "Z" \in f) /\ r = 0)
    BY <2>3, <2>4, FirstCarriesNothing
  <2>. HIDE DEF out, r
  <2>. QED
    BY <1>1, <2>3, <2>4, <2>5, SubtractsWord
<1>. QED
  BY <1>2, <1>3, <1>4, <1>5, <1>6, <1>7, <1>8

\* The digits of the numbers are those of the bytes.
LEMMA DecimalKeeps ==
  ASSUME ChainInv, AddDecimal \/ SubDecimal \/ NegDecimal
  PROVE  ChainInv'
<1>1. /\ 100 \in Nat \ {0} /\ 0 \in 0 .. 99 /\ 0 .. 99 = 0 .. 100 - 1 /\ Pairs \subseteq 0 .. 99
      /\ "abcd" \in Adds /\ "sbcd" \in Subtracts /\ "nbcd" \in Subtracts
      /\ "abcd" \in (Adds \cup Subtracts) \ {"cmp"}
      /\ "sbcd" \in (Adds \cup Subtracts) \ {"cmp"}
      /\ "nbcd" \in (Adds \cup Subtracts) \ {"cmp"}
  BY WordsAssumption DEF Pairs, Adds, Subtracts
<1>. DEFINE x == One("X" \in f)
<1>2. ASSUME NEW o \in {"abcd", "sbcd", "nbcd"}, Goes(o)
      PROVE  /\ Carried(x) /\ op \in {"none", o} /\ x \in {0, 1} /\ f \in SUBSET Flags
             /\ "Z" \in f <=> words = 0 \/ "Z" \in f
  BY <1>1, <1>2, NextCarriesX
<1>3. CASE AddDecimal
  <2>1. PICK sw \in 0 .. 99, d \in 0 .. 99 :
          StoredDecimal("abcd", sw, d, Abcd(f, Packed(sw), Packed(d)))
    BY <1>1, <1>3 DEF AddDecimal
  <2>2. Carried(x) /\ op \in {"none", "abcd"} /\ x \in {0, 1} /\ f \in SUBSET Flags
        /\ ("Z" \in f <=> words = 0 \/ "Z" \in f)
    BY <1>2, <1>3 DEF AddDecimal
  <2>. DEFINE out == Abcd(f, Packed(sw), Packed(d))
              r == Unpacked(out.r)
              c == d + sw + x >= 100
              v == IF c THEN d + sw + x - 100 ELSE d + sw + x
  <2>3. DecimalOut(out, f, v, c)
    BY <2>2, AbcdPair
  <2>4. Word("abcd", 100, sw, d, r, out)
    BY <2>1 DEF StoredDecimal
  <2>. HIDE DEF out, x
  <2>5. v + 100 * One(c) = d + sw + x
    BY <2>2 DEF One
  <2>. HIDE DEF v, c
  <2>6. r = v /\ One("C" \in out.f) = One(c)
    BY <2>3 DEF DecimalOut, One
  <2>7. Plus(100, sw, d, x, r, out.f)
    BY <2>3, <2>5, <2>6 DEF DecimalOut, Plus
  <2>8. "Z" \in out.f <=> (words = 0 \/ "Z" \in f) /\ r = 0
    BY <2>2, <2>3, <2>6 DEF DecimalOut
  <2>. HIDE DEF r
  <2>. QED
    BY <1>1, <2>2, <2>4, <2>7, <2>8, AddsWord
<1>4. CASE SubDecimal
  <2>1. PICK sw \in 0 .. 99, d \in 0 .. 99 :
          StoredDecimal("sbcd", sw, d, Sbcd(f, Packed(sw), Packed(d)))
    BY <1>1, <1>4 DEF SubDecimal
  <2>2. Carried(x) /\ op \in {"none", "sbcd"} /\ x \in {0, 1} /\ f \in SUBSET Flags
        /\ ("Z" \in f <=> words = 0 \/ "Z" \in f)
    BY <1>2, <1>4 DEF SubDecimal
  <2>. DEFINE out == Sbcd(f, Packed(sw), Packed(d))
              r == Unpacked(out.r)
              c == d - sw - x < 0
              v == IF c THEN d - sw - x + 100 ELSE d - sw - x
  <2>3. DecimalOut(out, f, v, c)
    BY <2>2, SbcdPair
  <2>4. Word("sbcd", 100, sw, d, r, out)
    BY <2>1 DEF StoredDecimal
  <2>. HIDE DEF out, x
  <2>5. v - 100 * One(c) = d - sw - x
    BY <2>2 DEF One
  <2>. HIDE DEF v, c
  <2>6. r = v /\ One("C" \in out.f) = One(c)
    BY <2>3 DEF DecimalOut, One
  <2>7. Minus(100, sw, d, x, r, out.f) /\ ("X" \in out.f <=> "C" \in out.f)
    BY <2>3, <2>5, <2>6 DEF DecimalOut, Minus
  <2>8. "Z" \in out.f <=> (words = 0 \/ "Z" \in f) /\ r = 0
    BY <2>2, <2>3, <2>6 DEF DecimalOut
  <2>. HIDE DEF r
  <2>. QED
    BY <1>1, <2>2, <2>4, <2>7, <2>8, SubtractsWord
<1>5. CASE NegDecimal
  <2>1. PICK sw \in 0 .. 99 : StoredDecimal("nbcd", sw, 0, Nbcd(f, Packed(sw)))
    BY <1>1, <1>5 DEF NegDecimal
  <2>2. Carried(x) /\ op \in {"none", "nbcd"} /\ x \in {0, 1} /\ f \in SUBSET Flags
        /\ ("Z" \in f <=> words = 0 \/ "Z" \in f)
    BY <1>2, <1>5 DEF NegDecimal
  <2>. DEFINE out == Nbcd(f, Packed(sw))
              r == Unpacked(out.r)
              c == 0 - sw - x < 0
              v == IF c THEN 0 - sw - x + 100 ELSE 0 - sw - x
  <2>3. DecimalOut(out, f, v, c)
    BY <2>2, NbcdPair
  <2>4. Word("nbcd", 100, sw, 0, r, out)
    BY <2>1 DEF StoredDecimal
  <2>. HIDE DEF out, x
  <2>5. v - 100 * One(c) = 0 - sw - x
    BY <2>2 DEF One
  <2>. HIDE DEF v, c
  <2>6. r = v /\ One("C" \in out.f) = One(c)
    BY <2>3 DEF DecimalOut, One
  <2>7. Minus(100, sw, 0, x, r, out.f) /\ ("X" \in out.f <=> "C" \in out.f)
    BY <2>3, <2>5, <2>6 DEF DecimalOut, Minus
  <2>8. "Z" \in out.f <=> (words = 0 \/ "Z" \in f) /\ r = 0
    BY <2>2, <2>3, <2>6 DEF DecimalOut
  <2>. HIDE DEF r
  <2>. QED
    BY <1>1, <2>2, <2>4, <2>7, <2>8, SubtractsWord
<1>. QED
  BY <1>3, <1>4, <1>5

LEMMA ChainStarts == ChainInit => ChainInv
<1>. SUFFICES ASSUME ChainInit PROVE ChainInv
  OBVIOUS
<1>1. /\ op = "none" /\ words = 0 /\ weight = 1 /\ dst = 0 /\ src = 0 /\ res = 0
      /\ f \in SUBSET Flags
  BY DEF ChainInit
<1>. QED
  BY <1>1 DEF ChainInv, Adds, Subtracts

LEMMA ChainStutters ==
  ASSUME ChainInv, UNCHANGED chainVars
  PROVE  ChainInv'
<1>1. /\ op' = op /\ words' = words /\ weight' = weight /\ dst' = dst /\ src' = src
      /\ res' = res /\ f' = f
  BY DEF chainVars
<1>2. Carry' = Carry
  BY <1>1 DEF Carry
<1>. QED
  BY <1>1, <1>2 DEF ChainInv

LEMMA ChainSteps == ChainInv /\ [ChainNext]_chainVars => ChainInv'
BY BinaryKeeps, DecimalKeeps, ChainStutters DEF ChainNext

\* ChainInv holds in every state, for every width of the operands and length of the
\* numbers (what src/cpu/gencpu.c generates for the instructions of a chain).
THEOREM ChainInvariance == ChainSpec => []ChainInv
BY ChainStarts, ChainSteps, PTL DEF ChainSpec

\* What a chain has stored and its last carry or borrow are the exact sum or difference,
\* binary or decimal, and Z is the zero of the whole result.
THEOREM ChainIsExact == ChainSpec => []ChainExact
<1>1. ChainInv => ChainExact
  BY DEF ChainInv, ChainExact
<1>. QED
  BY <1>1, ChainInvariance, PTL

-----------------------------------------------------------------------------
(* Signs and conditions.                                                   *)

Upper(n) == 2 * n >= weight

\* The signs of binary numbers are those the flags were computed from.
SignInv ==
  op \in {"add", "sub", "neg", "cmp"} =>
    /\ "N" \in f <=> Upper(res)
    /\ op = "add" => ("V" \in f <=> Upper(src) # Upper(res) /\ Upper(dst) # Upper(res))
    /\ op # "add" => ("V" \in f <=> Upper(src) # Upper(dst) /\ Upper(res) # Upper(dst))

SignsOf(o, sw, d, r, g) ==
  /\ "N" \in g <=> Negative(r)
  /\ o = "add" => ("V" \in g <=> AddOverflow(sw, d, r))
  /\ o # "add" => ("V" \in g <=> SubOverflow(sw, d, r))

LEMMA SignsOfNumbers ==
  ASSUME ChainInv, NEW o, NEW out, NEW sw \in Values, NEW d \in Values, NEW r \in Values,
         Word(o, M, sw, d, r, out), SignsOf(o, sw, d, r, out.f)
  PROVE  SignInv'
<1>1. /\ weight \in Nat \ {0}
      /\ dst \in 0 .. weight - 1 /\ src \in 0 .. weight - 1 /\ res \in 0 .. weight - 1
  BY DEF ChainInv
<1>2. /\ op' = o /\ f' = out.f /\ weight' = weight * M /\ dst' = dst + weight * d
      /\ src' = src + weight * sw /\ res' = res + weight * r
  BY DEF Word
<1>3. Upper(res)' <=> Negative(r)
  BY <1>1, <1>2, SignOfHighest DEF Upper
<1>4. Upper(dst)' <=> Negative(d)
  BY <1>1, <1>2, SignOfHighest DEF Upper
<1>5. Upper(src)' <=> Negative(sw)
  BY <1>1, <1>2, SignOfHighest DEF Upper
<1>. QED
  BY <1>2, <1>3, <1>4, <1>5 DEF SignInv, SignsOf, AddOverflow, SubOverflow, Upper, Negative

LEMMA SignsKept ==
  ASSUME ChainInv, SignInv, [ChainNext]_chainVars
  PROVE  SignInv'
<1>1. Values = 0 .. M - 1 /\ 0 \in Values /\ f \in SUBSET Flags
  BY MNat DEF Values, ChainInv
<1>2. CASE AddFirst
  <2>1. PICK sw \in Values, d \in Values : Word("add", M, sw, d, Add(sw, d).r, Add(sw, d))
    BY <1>2 DEF AddFirst, Stored
  <2>2. Add(sw, d).r \in Values /\ SignsOf("add", sw, d, Add(sw, d).r, Add(sw, d).f)
    BY <1>1, AddWord DEF SignsOf, Plus
  <2>. QED
    BY <2>1, <2>2, SignsOfNumbers
<1>3. CASE AddNext
  <2>1. PICK sw \in Values, d \in Values : Word("add", M, sw, d, Addx(f, sw, d).r, Addx(f, sw, d))
    BY <1>3 DEF AddNext, Stored
  <2>2. Addx(f, sw, d).r \in Values /\ SignsOf("add", sw, d, Addx(f, sw, d).r, Addx(f, sw, d).f)
    BY <1>1, AddxWord DEF SignsOf, Plus
  <2>. QED
    BY <2>1, <2>2, SignsOfNumbers
<1>4. CASE SubFirst
  <2>1. PICK sw \in Values, d \in Values : Word("sub", M, sw, d, Sub(sw, d).r, Sub(sw, d))
    BY <1>4 DEF SubFirst, Stored
  <2>2. Sub(sw, d).r \in Values /\ SignsOf("sub", sw, d, Sub(sw, d).r, Sub(sw, d).f)
    BY <1>1, SubWord DEF SignsOf, Minus
  <2>. QED
    BY <2>1, <2>2, SignsOfNumbers
<1>5. CASE SubNext
  <2>1. PICK sw \in Values, d \in Values : Word("sub", M, sw, d, Subx(f, sw, d).r, Subx(f, sw, d))
    BY <1>5 DEF SubNext, Stored
  <2>2. Subx(f, sw, d).r \in Values /\ SignsOf("sub", sw, d, Subx(f, sw, d).r, Subx(f, sw, d).f)
    BY <1>1, SubxWord DEF SignsOf, Minus
  <2>. QED
    BY <2>1, <2>2, SignsOfNumbers
<1>6. CASE NegFirst
  <2>1. PICK sw \in Values : Word("neg", M, sw, 0, Sub(sw, 0).r, Sub(sw, 0))
    BY <1>6 DEF NegFirst, Stored, Neg
  <2>2. Sub(sw, 0).r \in Values /\ SignsOf("neg", sw, 0, Sub(sw, 0).r, Sub(sw, 0).f)
    BY <1>1, SubWord DEF SignsOf, Minus
  <2>. QED
    BY <1>1, <2>1, <2>2, SignsOfNumbers
<1>7. CASE NegNext
  <2>1. PICK sw \in Values : Word("neg", M, sw, 0, Subx(f, sw, 0).r, Subx(f, sw, 0))
    BY <1>7 DEF NegNext, Stored, Negx
  <2>2. Subx(f, sw, 0).r \in Values /\ SignsOf("neg", sw, 0, Subx(f, sw, 0).r, Subx(f, sw, 0).f)
    BY <1>1, SubxWord DEF SignsOf, Minus
  <2>. QED
    BY <1>1, <2>1, <2>2, SignsOfNumbers
<1>8. CASE Compare
  <2>1. PICK sw \in Values, d \in Values : Word("cmp", M, sw, d, Cast(d - sw), Cmp(f, sw, d))
    BY <1>8 DEF Compare
  <2>2. Cast(d - sw) \in Values /\ SignsOf("cmp", sw, d, Cast(d - sw), Cmp(f, sw, d).f)
    BY <1>1, CmpWord DEF SignsOf, Minus
  <2>. QED
    BY <2>1, <2>2, SignsOfNumbers
<1>9. CASE AddDecimal \/ SubDecimal \/ NegDecimal
  <2>1. op' \in {"abcd", "sbcd", "nbcd"}
    BY <1>9 DEF AddDecimal, SubDecimal, NegDecimal, StoredDecimal, Word
  <2>. QED
    BY <2>1 DEF SignInv
<1>10. CASE UNCHANGED chainVars
  BY <1>10 DEF chainVars, SignInv, Upper
<1>. QED
  BY <1>2, <1>3, <1>4, <1>5, <1>6, <1>7, <1>8, <1>9, <1>10 DEF ChainNext

\* In every state the flags N and V are those of the last words, which hold the signs of
\* the whole numbers.
THEOREM SignInvariance == ChainSpec => []SignInv
<1>1. ChainInit => SignInv
  BY DEF ChainInit, SignInv
<1>2. ChainInv /\ SignInv /\ [ChainNext]_chainVars => SignInv'
  BY SignsKept
<1>. QED
  BY <1>1, <1>2, ChainInvariance, PTL DEF ChainSpec

LEMMA ConditionsFollow == ChainInv /\ SignInv => ConditionsHold
<1>. SUFFICES ASSUME ChainInv, SignInv PROVE ConditionsHold
  OBVIOUS
<1>1. /\ weight \in Nat \ {0}
      /\ dst \in 0 .. weight - 1 /\ src \in 0 .. weight - 1 /\ res \in 0 .. weight - 1
  BY DEF ChainInv
<1>2. op # "none" => ("Z" \in f <=> res = 0)
  BY DEF ChainInv
<1>3. ASSUME op \in {"sub", "cmp", "neg"}
      PROVE  /\ cctrue("HI", f) <=> dst > src
             /\ cctrue("LS", f) <=> dst <= src
             /\ cctrue("CC", f) <=> dst >= src
             /\ cctrue("CS", f) <=> dst < src
             /\ cctrue("NE", f) <=> dst # src
             /\ cctrue("EQ", f) <=> dst = src
             /\ cctrue("GE", f) <=> Complement(dst) >= Complement(src)
             /\ cctrue("LT", f) <=> Complement(dst) < Complement(src)
             /\ cctrue("GT", f) <=> Complement(dst) > Complement(src)
             /\ cctrue("LE", f) <=> Complement(dst) <= Complement(src)
             /\ cctrue("VC", f) <=> Representable(Complement(dst) - Complement(src))
  <2>1. /\ "Z" \in f <=> res = 0
        /\ res - Carry = dst - src
    BY <1>2, <1>3 DEF ChainInv, Subtracts
  <2>2. /\ "C" \in f <=> dst < src
        /\ "Z" \in f <=> dst = src
        /\ res = IF dst < src THEN dst - src + weight ELSE dst - src
    BY <1>1, <2>1 DEF Carry
  <2>3. /\ "N" \in f <=> 2 * res >= weight
        /\ "V" \in f <=> /\ (2 * src >= weight) # (2 * dst >= weight)
                         /\ (2 * res >= weight) # (2 * dst >= weight)
    BY <1>3 DEF SignInv, Upper
  <2>. DEFINE D == Complement(dst)
              S == Complement(src)
  <2>4. /\ D \in Int /\ S \in Int
        /\ D = S <=> dst = src
        /\ (2 * res >= weight) = ((2 * src >= weight) # (2 * dst >= weight)
                                  /\ (2 * res >= weight) # (2 * dst >= weight))
           <=> D >= S
    BY <1>1, <2>2 DEF Complement
  <2>5. ~((2 * src >= weight) # (2 * dst >= weight) /\ (2 * res >= weight) # (2 * dst >= weight))
        <=> Representable(D - S)
    BY <1>1, <2>2 DEF Complement, Representable
  <2>6. ("N" \in f) = ("V" \in f) <=> D >= S
    BY <2>3, <2>4
  <2>7. "V" \notin f <=> Representable(D - S)
    BY <2>3, <2>5
  <2>8. /\ cctrue("HI", f) <=> "C" \notin f /\ "Z" \notin f
        /\ cctrue("LS", f) <=> "C" \in f \/ "Z" \in f
        /\ cctrue("CC", f) <=> "C" \notin f
        /\ cctrue("CS", f) <=> "C" \in f
        /\ cctrue("NE", f) <=> "Z" \notin f
        /\ cctrue("EQ", f) <=> "Z" \in f
        /\ cctrue("VC", f) <=> "V" \notin f
    BY DEF cctrue
  <2>9. /\ cctrue("GE", f) <=> ("N" \in f) = ("V" \in f)
        /\ cctrue("LT", f) <=> ("N" \in f) # ("V" \in f)
        /\ cctrue("GT", f) <=> "Z" \notin f /\ ("N" \in f) = ("V" \in f)
        /\ cctrue("LE", f) <=> "Z" \in f \/ ("N" \in f) # ("V" \in f)
    BY DEF cctrue
  <2>10. /\ cctrue("HI", f) <=> dst > src
         /\ cctrue("LS", f) <=> dst <= src
         /\ cctrue("CC", f) <=> dst >= src
         /\ cctrue("CS", f) <=> dst < src
         /\ cctrue("NE", f) <=> dst # src
         /\ cctrue("EQ", f) <=> dst = src
    BY <1>1, <2>2, <2>8
  <2>11. /\ cctrue("GE", f) <=> D >= S
         /\ cctrue("LT", f) <=> D < S
         /\ cctrue("GT", f) <=> D > S
         /\ cctrue("LE", f) <=> D <= S
    <3>. HIDE DEF D, S
    <3>. QED
      BY <2>2, <2>4, <2>6, <2>9
  <2>. QED
    BY <2>7, <2>8, <2>10, <2>11
<1>4. ASSUME op = "add"
      PROVE  /\ cctrue("VS", f) <=> ~Representable(Complement(dst) + Complement(src))
             /\ cctrue("MI", f) <=> Complement(res) < 0
             /\ cctrue("PL", f) <=> Complement(res) >= 0
  <2>1. res + Carry = dst + src
    BY <1>4 DEF ChainInv, Adds
  <2>2. res = dst + src \/ res = dst + src - weight
    BY <1>1, <2>1 DEF Carry
  <2>3. /\ "N" \in f <=> 2 * res >= weight
        /\ "V" \in f <=> /\ (2 * src >= weight) # (2 * res >= weight)
                         /\ (2 * dst >= weight) # (2 * res >= weight)
    BY <1>4 DEF SignInv, Upper
  <2>4. (2 * src >= weight) # (2 * res >= weight) /\ (2 * dst >= weight) # (2 * res >= weight)
        <=> ~Representable(Complement(dst) + Complement(src))
    BY <1>1, <2>2 DEF Complement, Representable
  <2>5. /\ 2 * res >= weight <=> Complement(res) < 0
        /\ Complement(res) \in Int
    BY <1>1 DEF Complement
  <2>6. /\ cctrue("VS", f) <=> "V" \in f
        /\ cctrue("MI", f) <=> "N" \in f
        /\ cctrue("PL", f) <=> "N" \notin f
    BY DEF cctrue
  <2>. QED
    BY <2>3, <2>4, <2>5, <2>6
<1>. QED
  BY <1>3, <1>4 DEF ConditionsHold

\* After a chain that subtracts, and after CMP, every condition says of the whole numbers
\* what its name says; after a chain that adds, V, N and their conditions do.
THEOREM BranchesAreRight == ChainSpec => []ConditionsHold
BY ConditionsFollow, ChainInvariance, SignInvariance, PTL

-----------------------------------------------------------------------------
(* Products and quotients.                                                 *)

LEMMA DivModInt ==
  ASSUME NEW n \in Int, NEW m \in Nat \ {0}
  PROVE  /\ n \div m \in Int /\ n % m \in 0 .. m - 1
         /\ n = m * (n \div m) + (n % m)
OBVIOUS

\* A product with a factor that is not zero is as large as the other factor.
LEMMA Multiples ==
  ASSUME NEW b \in Nat \ {0}, NEW k \in Int
  PROVE  /\ b * k \in Int
         /\ k >= 1 => b * k >= b
         /\ k <= -1 => b * k <= -b
         /\ k <= -2 => b * k <= -b - b
         /\ k = 0 => b * k = 0
<1>1. b * k \in Int
  OBVIOUS
<1>2. k >= 1 => b * k >= b
  OBVIOUS
<1>3. k <= -1 => b * k <= -b
  OBVIOUS
<1>4. k <= -2 => b * k <= -b - b
  OBVIOUS
<1>5. k = 0 => b * k = 0
  OBVIOUS
<1>. QED
  BY <1>1, <1>2, <1>3, <1>4, <1>5

LEMMA SmallMultiple ==
  ASSUME NEW b \in Nat \ {0}, NEW k \in Int, -b < b * k, b * k < b
  PROVE  k = 0
BY Multiples

\* What a quotient and a remainder are packed into gives them back.
LEMMA Joined ==
  ASSUME NEW b \in Nat \ {0}, NEW lo \in 0 .. b - 1, NEW hi \in Int
  PROVE  (lo + b * hi) % b = lo /\ (lo + b * hi) \div b = hi
<1>. DEFINE n == lo + b * hi
            q == n \div b
            r == n % b
<1>1. n \in Int
  BY Products
<1>2. q \in Int /\ r \in 0 .. b - 1 /\ n = b * q + r
  BY <1>1, DivModInt
<1>3. b * (hi - q) = r - lo
  <2>1. b * (hi - q) = b * hi - b * q
    BY <1>2
  <2>2. lo + b * hi = b * q + r
    BY <1>2
  <2>3. b * hi \in Int /\ b * q \in Int
    BY <1>2, Products
  <2>. HIDE DEF n, q, r
  <2>. QED
    BY <1>2, <2>1, <2>2, <2>3
<1>. HIDE DEF n, q, r
<1>4. -b < r - lo /\ r - lo < b
  BY <1>2
<1>5. hi - q = 0
  BY <1>2, <1>3, <1>4, SmallMultiple
<1>6. hi = q
  BY <1>2, <1>5
<1>7. r = lo
  BY <1>2, <1>3, <1>5
<1>. QED
  BY <1>6, <1>7 DEF q, r, n

\* The numbers with a floored half of 0 or -1 are those a word holds.
LEMMA FloorHalf ==
  ASSUME NEW q \in Int
  PROVE  q \div Half \in {0, -1} <=> -Half <= q /\ q < Half
<1>. DEFINE k == q \div Half
            e == q % Half
<1>1. k \in Int /\ e \in 0 .. Half - 1 /\ q = Half * k + e
  BY MNat, DivModInt
<1>. HIDE DEF k, e
<1>2. /\ k >= 1 => Half * k >= Half
      /\ k <= -2 => Half * k <= -Half - Half
      /\ k = 0 => Half * k = 0
      /\ k = -1 => Half * k = -Half
      /\ Half * k \in Int
  <2>1. Half * k \in Int /\ (k >= 1 => Half * k >= Half)
          /\ (k <= -2 => Half * k <= -Half - Half) /\ (k = 0 => Half * k = 0)
    BY <1>1, MNat, Multiples
  <2>2. k = -1 => Half * k = -Half
    BY MNat
  <2>. QED
    BY <2>1, <2>2
<1>3. k \in {0, -1} <=> -Half <= q /\ q < Half
  <2>. DEFINE p == Half * k
  <2>1. p \in Int /\ q = p + e
    BY <1>1, <1>2
  <2>2. /\ k >= 1 => p >= Half
        /\ k <= -2 => p <= -Half - Half
        /\ k = 0 => p = 0
        /\ k = -1 => p = -Half
    BY <1>2
  <2>. HIDE DEF p
  <2>. QED
    BY <1>1, <2>1, <2>2, MNat
<1>. QED
  BY <1>3 DEF k

LEMMA MagnitudeIs ==
  ASSUME NEW n \in Int
  PROVE  /\ Magnitude(n) \in Nat
         /\ n >= 0 => Magnitude(n) = n
         /\ n < 0 => Magnitude(n) = -n
         /\ Magnitude(n) = 0 <=> n = 0
BY DEF Magnitude

\* Division cuts towards zero, and its remainder has the dividend's sign.
LEMMA QuotIs ==
  ASSUME NEW n \in Int, NEW m \in Int \ {0}
  PROVE  /\ Quot(n, m) \in Int /\ Rem(n, m) \in Int
         /\ n = Quot(n, m) * m + Rem(n, m)
         /\ Magnitude(Rem(n, m)) < Magnitude(m)
         /\ n >= 0 => Rem(n, m) >= 0
         /\ n <= 0 => Rem(n, m) <= 0
<1>. DEFINE a == Magnitude(n)
            b == Magnitude(m)
            k == a \div b
            e == a % b
            q == Quot(n, m)
            r == Rem(n, m)
<1>1. a \in Nat /\ b \in Nat \ {0}
  BY MagnitudeIs
<1>2. k \in Int /\ e \in 0 .. b - 1 /\ a = b * k + e
  <2>. HIDE DEF a, b
  <2>. QED
    BY <1>1, DivModInt
<1>3. /\ (n < 0) = (m < 0) => q = k
      /\ (n < 0) # (m < 0) => q = -k
  BY DEF Quot
<1>4. r = n - m * q
  BY DEF Rem
<1>5. /\ n >= 0 => n = a
      /\ n < 0 => n = -a
      /\ m > 0 => m = b
      /\ m < 0 => m = -b
  BY DEF Magnitude
<1>. HIDE DEF a, b, k, e, q, r
<1>6. q \in Int
  BY <1>2, <1>3
<1>7. b * k \in Int /\ m * q \in Int /\ q * m = m * q
  BY <1>1, <1>2, <1>6, Products
<1>8. n >= 0 => m * q = b * k
  <2>1. n >= 0 /\ m > 0 => m = b /\ q = k
    BY <1>3, <1>5
  <2>2. n >= 0 /\ m < 0 => m = -b /\ q = -k
    BY <1>3, <1>5
  <2>3. (-b) * (-k) = b * k
    BY <1>1, <1>2
  <2>. QED
    BY <2>1, <2>2, <2>3
<1>9. n < 0 => m * q = -(b * k)
  <2>1. n < 0 /\ m > 0 => m = b /\ q = -k
    BY <1>3, <1>5
  <2>2. n < 0 /\ m < 0 => m = -b /\ q = k
    BY <1>3, <1>5
  <2>3. (-b) * k = -(b * k) /\ b * (-k) = -(b * k)
    BY <1>1, <1>2
  <2>. QED
    BY <2>1, <2>2, <2>3
<1>10. /\ n >= 0 => r = e
       /\ n < 0 => r = -e
  <2>. DEFINE p == b * k
              z == m * q
  <2>1. p \in Int /\ z \in Int /\ a = p + e /\ r = n - z
    BY <1>2, <1>4, <1>7
  <2>2. (n >= 0 => z = p) /\ (n < 0 => z = -p)
    BY <1>8, <1>9
  <2>. HIDE DEF p, z
  <2>. QED
    BY <1>1, <1>2, <1>5, <2>1, <2>2
<1>11. r \in Int /\ n = q * m + r
  <2>. DEFINE z == m * q
  <2>1. z \in Int /\ r = n - z /\ q * m = z
    BY <1>4, <1>7
  <2>. HIDE DEF z
  <2>. QED
    BY <2>1
<1>12. Magnitude(r) = e
  BY <1>2, <1>10 DEF Magnitude
<1>13. Magnitude(r) < b
  BY <1>2, <1>12, <1>1
<1>14. (n >= 0 => r >= 0) /\ (n <= 0 => r <= 0)
  <2>1. n = 0 => e = 0
    <3>1. n = 0 => a = 0
      BY <1>5
    <3>2. CASE k = 0
      BY <1>1, <1>2, <3>1, <3>2
    <3>3. CASE k # 0
      <4>1. b * k >= b \/ b * k <= -b
        BY <1>1, <1>2, <3>3, Multiples
      <4>. QED
        BY <1>1, <1>2, <1>7, <3>1, <4>1
    <3>. QED
      BY <3>2, <3>3
  <2>. QED
    BY <1>2, <1>10, <2>1
<1>. QED
  BY <1>6, <1>11, <1>13, <1>14 DEF q, r, b

LEMMA SameSign ==
  ASSUME NEW n \in Int, NEW r \in Int
  PROVE  /\ r * n >= 0 /\ n > 0 => r >= 0
         /\ r * n >= 0 /\ n < 0 => r <= 0
         /\ (n >= 0 => r >= 0) /\ (n <= 0 => r <= 0) => r * n >= 0
<1>1. r * n >= 0 /\ n > 0 => r >= 0
  OBVIOUS
<1>2. r * n >= 0 /\ n < 0 => r <= 0
  OBVIOUS
<1>3. (n >= 0 => r >= 0) /\ (n <= 0 => r <= 0) => r * n >= 0
  OBVIOUS
<1>. QED
  BY <1>1, <1>2, <1>3

\* There is no other quotient with a remainder like that.
LEMMA OnlyQuotient ==
  ASSUME NEW n \in Int, NEW m \in Int \ {0}, NEW fit \in Int,
         Magnitude(n - fit * m) < Magnitude(m), (n - fit * m) * n >= 0
  PROVE  fit = Quot(n, m)
<1>. DEFINE q == Quot(n, m)
            r == Rem(n, m)
            t == n - fit * m
            b == Magnitude(m)
            k == IF m > 0 THEN fit - q ELSE q - fit
<1>1. /\ q \in Int /\ r \in Int
      /\ n = q * m + r
      /\ Magnitude(r) < b
      /\ n >= 0 => r >= 0
      /\ n <= 0 => r <= 0
  BY QuotIs
<1>2. t \in Int /\ b \in Nat \ {0} /\ fit * m \in Int
  BY Products, MagnitudeIs
<1>3. Magnitude(t) < b /\ t * n >= 0
  OBVIOUS
<1>4. n = fit * m + t
  <2>1. \A z \in Int : n = z + (n - z)
    OBVIOUS
  <2>. QED
    BY <1>2, <2>1
<1>5. (m > 0 => m = b) /\ (m < 0 => m = -b)
  BY DEF Magnitude
<1>. HIDE DEF q, r, t, b
<1>6. r - t = b * k /\ k \in Int
  <2>1. k \in Int
    BY <1>1
  <2>2. (fit - q) * m = fit * m - q * m
    BY <1>1
  <2>3. r - t = (fit - q) * m
    <3>. DEFINE y == fit * m
                z == q * m
    <3>1. y \in Int /\ z \in Int
      BY <1>1, <1>2, Products
    <3>2. n = y + t /\ n = z + r
      BY <1>1, <1>4
    <3>3. (fit - q) * m = y - z
      BY <2>2
    <3>. HIDE DEF y, z
    <3>. QED
      BY <1>1, <1>2, <3>1, <3>2, <3>3
  <2>4. CASE m > 0
    <3>1. m = b /\ k = fit - q
      BY <1>5, <2>4
    <3>2. (fit - q) * b = b * (fit - q)
      BY <1>1, <1>2
    <3>. QED
      BY <2>1, <2>3, <3>1, <3>2
  <2>5. CASE m < 0
    <3>1. m = -b /\ k = q - fit
      BY <1>5, <2>5
    <3>2. (fit - q) * (-b) = b * (q - fit)
      BY <1>1, <1>2
    <3>. QED
      BY <2>1, <2>3, <3>1, <3>2
  <2>. QED
    BY <2>4, <2>5
<1>7. -b < r /\ r < b /\ -b < t /\ t < b
  BY <1>1, <1>2, <1>3 DEF Magnitude
<1>8. (n > 0 => t >= 0) /\ (n < 0 => t <= 0)
  BY <1>2, <1>3, SameSign
<1>9. -b < r - t /\ r - t < b
  BY <1>1, <1>2, <1>7, <1>8
<1>10. k = 0
  <2>. HIDE DEF k
  <2>. QED
    BY <1>2, <1>6, <1>9, SmallMultiple
<1>11. fit = q
  BY <1>1, <1>10
<1>. QED
  BY <1>11 DEF q

-----------------------------------------------------------------------------
(* The instructions.                                                       *)

Longs == 0 .. M * M - 1

LEMMA LongsAre ==
  /\ M * M \in Nat \ {0} /\ Half * M \in Nat \ {0} /\ M * M = Half * M + Half * M
  /\ \A a, b \in 0 .. M - 1 : a + M * b \in Longs /\ a * b \in Longs
<1>1. M * M \in Nat \ {0} /\ Half * M \in Nat \ {0} /\ M * M = Half * M + Half * M
  BY MNat
<1>2. ASSUME NEW a \in 0 .. M - 1, NEW b \in 0 .. M - 1
      PROVE  a + M * b \in Longs /\ a * b \in Longs
  <2>1. M * b + M <= M * M /\ M * b \in Nat
    BY <1>2, MNat
  <2>2. a * b <= M * b /\ a * b \in Nat
    BY <1>2, MNat
  <2>. DEFINE z == M * b
              y == M * M
              x == a * b
  <2>3. z + M <= y /\ z \in Nat /\ x <= z /\ x \in Nat /\ y \in Nat /\ M \in Nat \ {0}
    BY <2>1, <2>2, <1>1, MNat
  <2>4. a \in 0 .. M - 1
    BY <1>2
  <2>. HIDE DEF x, y, z
  <2>5. a + z \in 0 .. y - 1 /\ x \in 0 .. y - 1
    BY <2>3, <2>4
  <2>. QED
    BY <2>5 DEF x, y, z, Longs
<1>. QED
  BY <1>1, <1>2

LEMMA LongSignedIs ==
  ASSUME NEW d \in Longs
  PROVE  /\ LongSigned(d) \in Int
         /\ -(Half * M) <= LongSigned(d) /\ LongSigned(d) < Half * M
         /\ LongNegative(d) <=> LongSigned(d) < 0
<1>. DEFINE h == Half * M
            y == M * M
<1>1. h \in Nat \ {0} /\ y = h + h /\ d \in 0 .. y - 1
  BY LongsAre DEF Longs
<1>2. LongSigned(d) = IF d >= h THEN d - y ELSE d
  BY DEF LongSigned, LongNegative
<1>3. LongNegative(d) <=> d >= h
  BY DEF LongNegative
<1>. HIDE DEF h, y
<1>4. /\ LongSigned(d) \in Int
      /\ -h <= LongSigned(d) /\ LongSigned(d) < h
      /\ LongNegative(d) <=> LongSigned(d) < 0
  BY <1>1, <1>2, <1>3
<1>. QED
  BY <1>4 DEF h

LEMMA SignedIs ==
  ASSUME NEW v \in Values
  PROVE  /\ SignedValue(v) \in Int
         /\ -Half <= SignedValue(v) /\ SignedValue(v) < Half
         /\ Negative(v) <=> SignedValue(v) < 0
         /\ SignedValue(v) = 0 <=> v = 0
BY MNat DEF SignedValue, Negative, Values

LEMMA CastSigned ==
  ASSUME NEW q \in Int, -Half <= q, q < Half
  PROVE  /\ Cast(q) \in Values
         /\ SignedValue(Cast(q)) = q
         /\ Negative(Cast(q)) <=> q < 0
         /\ Cast(q) = 0 <=> q = 0
<1>1. Cast(q) = IF q >= 0 THEN q ELSE q + M
  BY CastIs, MNat
<1>. QED
  BY <1>1, MNat DEF Values, SignedValue, Negative

LEMMA LogicalFlags ==
  ASSUME NEW fs, NEW r
  PROVE  /\ Logical(fs, r).f \subseteq Flags
         /\ "X" \in Logical(fs, r).f <=> "X" \in fs
         /\ "N" \in Logical(fs, r).f <=> Negative(r)
         /\ "Z" \in Logical(fs, r).f <=> r = 0
         /\ "V" \notin Logical(fs, r).f
BY DEF Logical, Out, Ccr, Flags

LEMMA LongLogicalIs ==
  ASSUME NEW fs, NEW r
  PROVE  /\ LongLogical(fs, r).r = r
         /\ LongLogical(fs, r).f \subseteq Flags
         /\ "X" \in LongLogical(fs, r).f <=> "X" \in fs
BY DEF LongLogical, Out, Ccr, Flags

LEMMA MuluIs ==
  ASSUME NEW fs \in SUBSET Flags, NEW sw \in Values, NEW d \in Values
  PROVE  LET out == Mulu(fs, sw, d)
         IN /\ out.r = d * sw /\ out.r \in Longs
            /\ out.f \subseteq Flags /\ ("X" \in out.f <=> "X" \in fs)
<1>1. d * sw \in Longs
  BY LongsAre DEF Values
<1>. QED
  BY <1>1, LongLogicalIs DEF Mulu

LEMMA SquareBound ==
  ASSUME NEW h \in Nat \ {0}, NEW a \in -h .. h - 1, NEW b \in -h .. h - 1
  PROVE  /\ a * b \in Int /\ -(h * h) <= a * b /\ a * b <= h * h
         /\ h * h \in Nat \ {0}
<1>1. a * b \in Int /\ h * h \in Nat \ {0}
  OBVIOUS
<1>2. ASSUME NEW x \in 0 .. h, NEW y \in 0 .. h PROVE x * y \in Nat /\ x * y <= h * h
  <2>1. x * y <= h * y /\ h * y <= h * h
    BY <1>2
  <2>. QED
    BY <1>1, <1>2, <2>1
<1>3. ASSUME a >= 0, b >= 0 PROVE a * b \in Nat /\ a * b <= h * h
  BY <1>2, <1>3
<1>4. ASSUME a >= 0, b < 0 PROVE a * b <= 0 /\ -(h * h) <= a * b
  <2>1. -b \in 0 .. h /\ a \in 0 .. h
    BY <1>4
  <2>2. a * (-b) \in Nat /\ a * (-b) <= h * h
    BY <1>2, <2>1
  <2>3. a * (-b) = -(a * b)
    OBVIOUS
  <2>. QED
    BY <1>1, <2>2, <2>3
<1>5. ASSUME a < 0, b >= 0 PROVE a * b <= 0 /\ -(h * h) <= a * b
  <2>1. -a \in 0 .. h /\ b \in 0 .. h
    BY <1>5
  <2>2. (-a) * b \in Nat /\ (-a) * b <= h * h
    BY <1>2, <2>1
  <2>3. (-a) * b = -(a * b)
    OBVIOUS
  <2>. QED
    BY <1>1, <2>2, <2>3
<1>6. ASSUME a < 0, b < 0 PROVE a * b \in Nat /\ a * b <= h * h
  <2>1. -a \in 0 .. h /\ -b \in 0 .. h
    BY <1>6
  <2>2. (-a) * (-b) \in Nat /\ (-a) * (-b) <= h * h
    BY <1>2, <2>1
  <2>3. (-a) * (-b) = a * b
    OBVIOUS
  <2>. QED
    BY <2>2, <2>3
<1>7. (a >= 0 \/ a < 0) /\ (b >= 0 \/ b < 0)
  OBVIOUS
<1>. DEFINE p == a * b
            q == h * h
<1>8. p \in Int /\ q \in Nat \ {0}
  BY <1>1
<1>9. (p \in Nat /\ p <= q) \/ (p <= 0 /\ -q <= p)
  BY <1>3, <1>4, <1>5, <1>6, <1>7
<1>. HIDE DEF p, q
<1>10. -q <= p /\ p <= q
  BY <1>8, <1>9
<1>. QED
  BY <1>1, <1>10 DEF p, q

LEMMA MulsIs ==
  ASSUME NEW fs \in SUBSET Flags, NEW sw \in Values, NEW d \in Values
  PROVE  LET out == Muls(fs, sw, d)
         IN /\ LongSigned(out.r) = SignedValue(d) * SignedValue(sw) /\ out.r \in Longs
            /\ out.f \subseteq Flags /\ ("X" \in out.f <=> "X" \in fs)
<1>. DEFINE p == SignedValue(d) * SignedValue(sw)
            h == Half * M
            y == M * M
            q == Half * Half
<1>1. SignedValue(d) \in -Half .. Half - 1 /\ SignedValue(sw) \in -Half .. Half - 1
  BY SignedIs, MNat
<1>2. p \in Int /\ -q <= p /\ p <= q /\ q \in Nat \ {0}
  BY <1>1, MNat, SquareBound
<1>3. h = q + q
  BY MNat
<1>4. h \in Nat \ {0} /\ y \in Nat \ {0} /\ y = h + h
  BY LongsAre
<1>5. LongCast(p) = IF p >= 0 THEN p ELSE p + y
  <2>1. LongCast(p) = p % y
    BY DEF LongCast
  <2>. HIDE DEF p, h, y, q
  <2>2. p >= 0 => p % y = p
    BY <1>2, <1>3, <1>4, Residue
  <2>3. p < 0 => p % y = p + y
    <3>1. -y <= p
      BY <1>2, <1>3, <1>4
    <3>. QED
      BY <1>2, <1>4, <3>1, Residue
  <2>. QED
    BY <1>2, <2>1, <2>2, <2>3
<1>6. \A n : LongSigned(n) = IF n >= h THEN n - y ELSE n
  BY DEF LongSigned, LongNegative
<1>7. Muls(fs, sw, d).r = LongCast(p)
  BY LongLogicalIs DEF Muls
<1>8. Muls(fs, sw, d).f \subseteq Flags /\ ("X" \in Muls(fs, sw, d).f <=> "X" \in fs)
  BY LongLogicalIs DEF Muls
<1>9. LongSigned(LongCast(p)) = p /\ LongCast(p) \in 0 .. y - 1
  <2>. DEFINE c == LongCast(p)
  <2>1. c = IF p >= 0 THEN p ELSE p + y
    BY <1>5
  <2>2. LongSigned(c) = IF c >= h THEN c - y ELSE c
    BY <1>6
  <2>. HIDE DEF p, h, y, q, c
  <2>3. LongSigned(c) = p /\ c \in 0 .. y - 1
    BY <1>2, <1>3, <1>4, <2>1, <2>2
  <2>. QED
    BY <2>3 DEF c
<1>. QED
  BY <1>7, <1>8, <1>9 DEF Longs

LEMMA OverflowedIs ==
  ASSUME NEW fs \in SUBSET Flags, NEW d
  PROVE  /\ Overflowed(fs, d).r = d
         /\ Overflowed(fs, d).f \subseteq Flags
         /\ "X" \in Overflowed(fs, d).f <=> "X" \in fs
         /\ "V" \in Overflowed(fs, d).f
BY DEF Overflowed, Out, Flags

LEMMA DividedIs ==
  ASSUME NEW fs \in SUBSET Flags, NEW newv \in Values, NEW rem \in Values
  PROVE  LET out == Divided(fs, newv, rem)
         IN /\ out.r % M = newv /\ out.r \div M = rem /\ out.r \in Longs
            /\ out.f \subseteq Flags
            /\ "X" \in out.f <=> "X" \in fs
            /\ "V" \notin out.f
            /\ "N" \in out.f <=> Negative(newv)
            /\ "Z" \in out.f <=> newv = 0
<1>1. Divided(fs, newv, rem).r = newv + M * rem
  BY DEF Divided, Out
<1>2. Divided(fs, newv, rem).f = Logical(fs, newv).f
  BY DEF Divided, Out
<1>3. newv + M * rem \in Longs
  BY LongsAre DEF Values
<1>4. (newv + M * rem) % M = newv /\ (newv + M * rem) \div M = rem
  <2>1. newv \in 0 .. M - 1 /\ rem \in Int
    BY MNat DEF Values
  <2>. QED
    BY <2>1, MNat, Joined
<1>. QED
  BY <1>1, <1>2, <1>3, <1>4, LogicalFlags

LEMMA DivuIs ==
  ASSUME NEW fs \in SUBSET Flags, NEW sw \in Values \ {0}, NEW d \in Longs
  PROVE  LET out == Divu(fs, sw, d)
         IN /\ out.r \in Longs /\ out.f \subseteq Flags
            /\ "X" \in out.f <=> "X" \in fs
            /\ "V" \in out.f <=> d >= M * sw
            /\ "V" \in out.f => out.r = d
            /\ "V" \notin out.f =>
                 /\ d = (out.r % M) * sw + (out.r \div M) /\ out.r \div M < sw
                 /\ "N" \in out.f <=> Negative(out.r % M)
                 /\ "Z" \in out.f <=> out.r % M = 0
<1>. DEFINE q == d \div sw
            e == d % sw
<1>1. sw \in Nat \ {0} /\ sw < M /\ d \in Nat
  BY MNat, LongsAre DEF Values, Longs
<1>2. q \in Nat /\ e \in 0 .. sw - 1 /\ d = sw * q + e
  <2>1. q \in Int /\ e \in 0 .. sw - 1 /\ d = sw * q + e
    <3>1. d \in Int
      BY <1>1
    <3>. QED
      BY <1>1, <3>1, DivModInt
  <2>2. q \in Nat
    BY <1>1
  <2>. QED
    BY <2>1, <2>2
<1>3. Divu(fs, sw, d) = IF q > M - 1 THEN Overflowed(fs, d) ELSE Divided(fs, q, e)
  BY DEF Divu
<1>. HIDE DEF q, e
<1>4. q > M - 1 <=> d >= M * sw
  <2>1. ASSUME q > M - 1 PROVE d >= M * sw
    <3>1. sw * M <= sw * q
      BY <1>1, <1>2, <2>1, MNat
    <3>2. sw * M = M * sw /\ M * sw \in Int /\ sw * q \in Int
      BY <1>1, <1>2, MNat
    <3>. QED
      BY <1>2, <3>1, <3>2
  <2>2. ASSUME q <= M - 1 PROVE d < M * sw
    <3>1. sw * q <= sw * (M - 1)
      BY <1>1, <1>2, <2>2, MNat
    <3>2. sw * (M - 1) = M * sw - sw /\ M * sw \in Int /\ sw * q \in Int
      BY <1>1, <1>2, MNat
    <3>. QED
      BY <1>1, <1>2, <3>1, <3>2
  <2>3. d \in Int /\ M * sw \in Int
    BY <1>1, MNat
  <2>. QED
    BY <1>2, <2>1, <2>2, <2>3, MNat
<1>5. CASE q > M - 1
  <2>1. Divu(fs, sw, d) = Overflowed(fs, d)
    BY <1>3, <1>5
  <2>. QED
    BY <1>4, <1>5, <2>1, OverflowedIs
<1>6. CASE ~(q > M - 1)
  <2>1. Divu(fs, sw, d) = Divided(fs, q, e)
    BY <1>3, <1>6
  <2>2. q \in Values /\ e \in Values
    BY <1>1, <1>2, <1>6, MNat DEF Values
  <2>3. d = q * sw + e /\ e < sw
    BY <1>1, <1>2
  <2>. QED
    BY <1>4, <1>6, <2>1, <2>2, <2>3, DividedIs
<1>. QED
  BY <1>5, <1>6

\* A quotient that fits a word is the one a word can hold.
LEMMA FitsAWord ==
  ASSUME NEW n \in Int, NEW m \in Int \ {0}
  PROVE  Quot(n, m) \div Half \notin {0, -1} <=>
           \A fit \in -Half .. Half - 1 : Magnitude(n - fit * m) >= Magnitude(m)
                                            \/ (n - fit * m) * n < 0
<1>. DEFINE q == Quot(n, m)
            r == Rem(n, m)
            Bad(fit) == Magnitude(n - fit * m) >= Magnitude(m) \/ (n - fit * m) * n < 0
<1>1. /\ q \in Int /\ r \in Int
      /\ n = q * m + r
      /\ Magnitude(r) < Magnitude(m)
      /\ n >= 0 => r >= 0
      /\ n <= 0 => r <= 0
  BY QuotIs
<1>2. r * n >= 0
  BY <1>1, SameSign
<1>3. n - q * m = r
  <2>1. q * m = m * q
    BY <1>1
  <2>. QED
    BY <2>1 DEF Rem
<1>4. ~Bad(q)
  <2>1. Magnitude(r) \in Nat /\ Magnitude(m) \in Nat /\ r * n \in Int
    BY <1>1, MagnitudeIs, Products
  <2>2. ~(Magnitude(r) >= Magnitude(m) \/ r * n < 0)
    <3>. HIDE DEF r
    <3>. QED
      BY <1>1, <1>2, <2>1
  <2>. QED
    BY <1>3, <2>2
<1>5. \A fit \in Int : ~Bad(fit) => fit = q
  <2>1. ASSUME NEW fit \in Int, ~Bad(fit) PROVE fit = q
    <3>. DEFINE t == n - fit * m
    <3>1. t \in Int /\ t * n \in Int /\ Magnitude(t) \in Nat /\ Magnitude(m) \in Nat
      BY <2>1, Products, MagnitudeIs
    <3>2. ~(Magnitude(t) >= Magnitude(m)) /\ ~(t * n < 0)
      BY <2>1
    <3>. HIDE DEF t
    <3>3. Magnitude(t) < Magnitude(m) /\ t * n >= 0
      BY <3>1, <3>2
    <3>. QED
      BY <2>1, <3>3, OnlyQuotient DEF t
  <2>. QED
    BY <2>1
<1>. HIDE DEF Bad, q
<1>6. q \div Half \in {0, -1} <=> q \in -Half .. Half - 1
  BY <1>1, MNat, FloorHalf
<1>7. q \div Half \notin {0, -1} <=> \A fit \in -Half .. Half - 1 : Bad(fit)
  <2>1. -Half .. Half - 1 \subseteq Int
    BY MNat
  <2>. QED
    BY <1>4, <1>5, <1>6, <2>1
<1>. QED
  BY <1>7 DEF Bad, q

LEMMA MinusNothing == ASSUME NEW z \in Int, z = 0 PROVE -z = 0
<1>. DEFINE y == -z
<1>1. y \in Int /\ y <= 0 /\ y >= 0
  OBVIOUS
<1>. HIDE DEF y
<1>2. y = 0
  BY <1>1
<1>. QED
  BY <1>2 DEF y

\* The sign the generated code puts right is right already.
LEMMA SignKept ==
  ASSUME NEW r \in Int, -Half < r, r < Half, NEW d, LongNegative(d) \in BOOLEAN,
         r < 0 => LongNegative(d), r > 0 => ~LongNegative(d)
  PROVE  LET rem == Cast(r)
         IN (IF Negative(rem) # LongNegative(d) THEN Cast(-rem) ELSE rem) = Cast(r)
<1>1. /\ Negative(Cast(r)) <=> r < 0
      /\ Cast(r) = 0 <=> r = 0
  BY MNat, CastSigned
<1>2. CASE r = 0
  <2>1. Cast(r) = 0
    BY <1>1, <1>2
  <2>. DEFINE c == Cast(r)
  <2>2. c \in Int /\ c = 0
    BY <2>1
  <2>. HIDE DEF c
  <2>3. c = 0 /\ -c = 0
    BY <2>2, MinusNothing
  <2>4. Cast(-c) = Cast(c) /\ Cast(c) = Cast(r)
    BY <1>2, <2>3
  <2>. QED
    BY <2>3, <2>4 DEF c
<1>3. CASE r # 0
  <2>1. Negative(Cast(r)) <=> LongNegative(d)
    BY <1>1, <1>3
  <2>2. Negative(Cast(r)) \in BOOLEAN
    BY DEF Negative
  <2>. QED
    BY <2>1, <2>2
<1>. QED
  BY <1>2, <1>3

LEMMA DivsIs ==
  ASSUME NEW fs \in SUBSET Flags, NEW sw \in Values \ {0}, NEW d \in Longs
  PROVE  LET out == Divs(fs, sw, d)
             n == LongSigned(d)
             m == SignedValue(sw)
             q == SignedValue(out.r % M)
             r == SignedValue(out.r \div M)
         IN /\ out.r \in Longs /\ out.f \subseteq Flags
            /\ "X" \in out.f <=> "X" \in fs
            /\ "V" \in out.f <=>
                 \A fit \in -Half .. Half - 1 : Magnitude(n - fit * m) >= Magnitude(m)
                                                  \/ (n - fit * m) * n < 0
            /\ "V" \in out.f => out.r = d
            /\ "V" \notin out.f =>
                 /\ n = q * m + r /\ Magnitude(r) < Magnitude(m) /\ r * n >= 0
                 /\ "N" \in out.f <=> q < 0
                 /\ "Z" \in out.f <=> q = 0
<1>. DEFINE n == LongSigned(d)
            m == SignedValue(sw)
            q == Quot(n, m)
            r == Rem(n, m)
            signed == LET rem == Cast(r)
                      IN IF Negative(rem) # LongNegative(d) THEN Cast(-rem) ELSE rem
<1>1. n \in Int /\ (LongNegative(d) <=> n < 0) /\ LongNegative(d) \in BOOLEAN
  BY LongSignedIs DEF LongNegative
<1>2. m \in Int \ {0} /\ -Half <= m /\ m < Half
  BY SignedIs
<1>3. /\ q \in Int /\ r \in Int
      /\ n = q * m + r
      /\ Magnitude(r) < Magnitude(m)
      /\ n >= 0 => r >= 0
      /\ n <= 0 => r <= 0
  <2>. HIDE DEF n, m
  <2>. QED
    BY <1>1, <1>2, QuotIs
<1>4. r * n >= 0
  <2>. HIDE DEF n, r
  <2>. QED
    BY <1>1, <1>3, SameSign
<1>5. Divs(fs, sw, d) = IF q \div Half \notin {0, -1} THEN Overflowed(fs, d)
                       ELSE Divided(fs, Cast(q), signed)
  BY DEF Divs
<1>6. q \div Half \notin {0, -1} <=>
        \A fit \in -Half .. Half - 1 : Magnitude(n - fit * m) >= Magnitude(m)
                                         \/ (n - fit * m) * n < 0
  <2>. HIDE DEF n, m
  <2>. QED
    BY <1>1, <1>2, FitsAWord
<1>7. -Half < r /\ r < Half
  <2>. HIDE DEF n, m, q, r
  <2>. QED
    BY <1>2, <1>3, MNat DEF Magnitude
<1>8. signed = Cast(r)
  <2>. HIDE DEF n, m, q, r
  <2>1. (r < 0 => LongNegative(d)) /\ (r > 0 => ~LongNegative(d))
    BY <1>1, <1>3
  <2>. QED
    BY <1>1, <1>3, <1>7, <2>1, SignKept
<1>. HIDE DEF n, m, q, r, signed
<1>9. CASE q \div Half \notin {0, -1}
  <2>1. Divs(fs, sw, d) = Overflowed(fs, d)
    BY <1>5, <1>9
  <2>2. "V" \in Divs(fs, sw, d).f
    BY <2>1, OverflowedIs
  <2>3. /\ Divs(fs, sw, d).r = d
        /\ Divs(fs, sw, d).f \subseteq Flags
        /\ "X" \in Divs(fs, sw, d).f <=> "X" \in fs
    BY <2>1, OverflowedIs
  <2>. QED
    BY <1>6, <1>9, <2>2, <2>3 DEF n, m
<1>10. CASE q \div Half \in {0, -1}
  <2>. DEFINE out == Divs(fs, sw, d)
  <2>1. out = Divided(fs, Cast(q), Cast(r))
    BY <1>5, <1>8, <1>10
  <2>2. -Half <= q /\ q < Half
    BY <1>3, <1>10, FloorHalf
  <2>3. /\ Cast(q) \in Values /\ SignedValue(Cast(q)) = q
        /\ Negative(Cast(q)) <=> q < 0
        /\ Cast(q) = 0 <=> q = 0
    BY <1>3, <2>2, CastSigned
  <2>4. Cast(r) \in Values /\ SignedValue(Cast(r)) = r
    BY <1>3, <1>7, MNat, CastSigned
  <2>5. /\ out.r % M = Cast(q) /\ out.r \div M = Cast(r) /\ out.r \in Longs
        /\ out.f \subseteq Flags
        /\ "X" \in out.f <=> "X" \in fs
        /\ "V" \notin out.f
        /\ "N" \in out.f <=> Negative(Cast(q))
        /\ "Z" \in out.f <=> Cast(q) = 0
    <3>1. LET o == Divided(fs, Cast(q), Cast(r))
          IN /\ o.r % M = Cast(q) /\ o.r \div M = Cast(r) /\ o.r \in Longs
             /\ o.f \subseteq Flags
             /\ "X" \in o.f <=> "X" \in fs
             /\ "V" \notin o.f
             /\ "N" \in o.f <=> Negative(Cast(q))
             /\ "Z" \in o.f <=> Cast(q) = 0
      BY <2>3, <2>4, DividedIs
    <3>. HIDE DEF out
    <3>. QED
      BY <2>1, <3>1
  <2>. HIDE DEF out
  <2>6. SignedValue(out.r % M) = q /\ SignedValue(out.r \div M) = r
    BY <2>3, <2>4, <2>5
  <2>7. ("N" \in out.f <=> q < 0) /\ ("Z" \in out.f <=> q = 0)
    BY <2>3, <2>5
  <2>8. ~(\A fit \in -Half .. Half - 1 : Magnitude(n - fit * m) >= Magnitude(m)
                                          \/ (n - fit * m) * n < 0)
    BY <1>6, <1>10
  <2>. QED
    BY <1>3, <1>4, <2>5, <2>6, <2>7, <2>8 DEF n, m, out
<1>. QED
  BY <1>9, <1>10

-----------------------------------------------------------------------------
(* The register.                                                           *)

DivideTypeOK == reg \in Longs /\ flags \in SUBSET Flags
DivideInv == DivideTypeOK /\ DivisionExact

LEMMA DivideStarts == DivideInit => DivideInv
<1>. SUFFICES ASSUME DivideInit PROVE DivideInv
  OBVIOUS
<1>1. DivideTypeOK
  BY DEF DivideInit, DivideTypeOK, Longs, Flags
<1>2. DivisionExact
  BY DEF DivideInit, DivisionExact
<1>. QED
  BY <1>1, <1>2 DEF DivideInv

LEMMA LowWord == reg \in Longs => reg % M \in Values
<1>1. reg \in Longs => reg \in Int
  BY LongsAre DEF Longs
<1>. QED
  BY <1>1, MNat, DivModInt DEF Values

LEMMA DivideSteps == DivideInv /\ [DivideNext]_divideVars => DivideInv'
<1>. SUFFICES ASSUME DivideInv, [DivideNext]_divideVars PROVE DivideInv'
  OBVIOUS
<1>. USE DEF DivideInv
<1>0. DivideTypeOK
  OBVIOUS
<1>1. CASE Multiply
  <2>1. reg % M \in Values /\ flags \in SUBSET Flags
    BY LowWord DEF DivideTypeOK
  <2>2. ASSUME NEW sw \in Values, Executes("mulu", sw, Mulu(flags, sw, reg % M)) PROVE DivideInv'
    <3>. PICK out : out = Mulu(flags, sw, reg % M)
      OBVIOUS
    <3>1. /\ out.r = (reg % M) * sw /\ out.r \in Longs
          /\ out.f \subseteq Flags /\ ("X" \in out.f <=> "X" \in flags)
      BY <2>1, <2>2, MuluIs
    <3>2. /\ last' = "mulu" /\ by' = sw /\ was' = reg /\ reg' = out.r
          /\ flagsWas' = flags /\ flags' = out.f
      BY <2>2 DEF Executes
    <3>3. DivisionExact'
      BY <3>1, <3>2 DEF DivisionExact
    <3>. QED
      BY <3>1, <3>2, <3>3 DEF DivideTypeOK
  <2>3. ASSUME NEW sw \in Values, Executes("muls", sw, Muls(flags, sw, reg % M)) PROVE DivideInv'
    <3>. PICK out : out = Muls(flags, sw, reg % M)
      OBVIOUS
    <3>1. /\ LongSigned(out.r) = SignedValue(reg % M) * SignedValue(sw) /\ out.r \in Longs
          /\ out.f \subseteq Flags /\ ("X" \in out.f <=> "X" \in flags)
      BY <2>1, <2>3, MulsIs
    <3>2. /\ last' = "muls" /\ by' = sw /\ was' = reg /\ reg' = out.r
          /\ flagsWas' = flags /\ flags' = out.f
      BY <2>3 DEF Executes
    <3>3. DivisionExact'
      BY <3>1, <3>2 DEF DivisionExact
    <3>. QED
      BY <3>1, <3>2, <3>3 DEF DivideTypeOK
  <2>. QED
    BY <1>1, <2>2, <2>3 DEF Multiply
<1>2. CASE DivideByZero
  <2>1. last' = "crash" /\ reg' = reg /\ flagsWas' = flags /\ flags' = flags \ {"V"}
    BY <1>2 DEF DivideByZero, Executes, Out
  <2>2. DivisionExact'
    BY <2>1 DEF DivisionExact
  <2>. QED
    BY <2>1, <2>2 DEF DivideTypeOK
<1>3. CASE Divide
  <2>1. reg \in Longs /\ flags \in SUBSET Flags
    BY DEF DivideTypeOK
  <2>2. ASSUME NEW sw \in Values \ {0}, Executes("divu", sw, Divu(flags, sw, reg)) PROVE DivideInv'
    <3>. PICK out : out = Divu(flags, sw, reg)
      OBVIOUS
    <3>1. /\ out.r \in Longs /\ out.f \subseteq Flags
          /\ "X" \in out.f <=> "X" \in flags
          /\ "V" \in out.f <=> reg >= M * sw
          /\ "V" \in out.f => out.r = reg
          /\ "V" \notin out.f =>
               /\ reg = (out.r % M) * sw + (out.r \div M) /\ out.r \div M < sw
               /\ "N" \in out.f <=> Negative(out.r % M)
               /\ "Z" \in out.f <=> out.r % M = 0
      BY <2>1, <2>2, DivuIs
    <3>2. /\ last' = "divu" /\ by' = sw /\ was' = reg /\ reg' = out.r
          /\ flagsWas' = flags /\ flags' = out.f
      BY <2>2 DEF Executes
    <3>3. DivisionExact'
      BY <3>1, <3>2 DEF DivisionExact, Quotient, Remainder
    <3>. QED
      BY <3>1, <3>2, <3>3 DEF DivideTypeOK
  <2>3. ASSUME NEW sw \in Values \ {0}, Executes("divs", sw, Divs(flags, sw, reg)) PROVE DivideInv'
    <3>. PICK out : out = Divs(flags, sw, reg)
      OBVIOUS
    <3>. DEFINE n == LongSigned(reg)
                m == SignedValue(sw)
                q == SignedValue(out.r % M)
                r == SignedValue(out.r \div M)
    <3>1. /\ out.r \in Longs /\ out.f \subseteq Flags
          /\ "X" \in out.f <=> "X" \in flags
          /\ "V" \in out.f <=>
               \A fit \in -Half .. Half - 1 : Magnitude(n - fit * m) >= Magnitude(m)
                                                \/ (n - fit * m) * n < 0
          /\ "V" \in out.f => out.r = reg
          /\ "V" \notin out.f =>
               /\ n = q * m + r /\ Magnitude(r) < Magnitude(m) /\ r * n >= 0
               /\ "N" \in out.f <=> q < 0
               /\ "Z" \in out.f <=> q = 0
      BY <2>1, <2>3, DivsIs
    <3>2. /\ last' = "divs" /\ by' = sw /\ was' = reg /\ reg' = out.r
          /\ flagsWas' = flags /\ flags' = out.f
      BY <2>3 DEF Executes
    <3>3. DivisionExact'
      BY <3>1, <3>2 DEF DivisionExact, Quotient, Remainder
    <3>. QED
      BY <3>1, <3>2, <3>3 DEF DivideTypeOK
  <2>. QED
    BY <1>3, <2>2, <2>3 DEF Divide
<1>4. CASE HostTraps
  <2>1. PICK sw \in Values : Executes("crash", sw, Out(reg, flags))
    BY <1>4 DEF HostTraps
  <2>2. last' = "crash" /\ reg' = reg /\ flagsWas' = flags /\ flags' = flags
    BY <2>1 DEF Executes, Out
  <2>3. DivisionExact'
    BY <2>2 DEF DivisionExact
  <2>. QED
    BY <2>2, <2>3 DEF DivideTypeOK
<1>5. CASE UNCHANGED divideVars
  BY <1>5 DEF divideVars, DivideTypeOK, DivisionExact, Quotient, Remainder
<1>. QED
  BY <1>1, <1>2, <1>3, <1>4, <1>5 DEF DivideNext

\* The register stays a long, the flags are flags, and the last instruction on them has
\* done what division or multiplication of whole numbers does.
THEOREM DivideInvariance == DivideSpec => []DivideInv
BY DivideStarts, DivideSteps, PTL DEF DivideSpec

\* For words of any width: DIVU and DIVS leave the exact quotient and remainder, V says
\* exactly when the quotient does not fit, and MULU and MULS the exact product.
THEOREM DivisionsAreExact == DivideSpec => []DivisionExact
<1>1. DivideInv => DivisionExact
  BY DEF DivideInv
<1>. QED
  BY <1>1, DivideInvariance, PTL

-----------------------------------------------------------------------------
(* Shifts by one, one after the other, bit by bit.                          *)

\* The sizes of an operand.
ShiftSizes == {8, 16, 32}

\* Bit b of v shifted or rotated n times by one, where x was X.
At(k, S, v, x, n, b) ==
  LET left == (b - n) % (S + 1)
      right == (b + n) % (S + 1)
  IN \/ k \in {"ASL", "LSL"} /\ b - n \in v
     \/ k = "LSR" /\ b + n \in v
     \/ k = "ASR" /\ IF b + n < S THEN b + n \in v ELSE S - 1 \in v
     \/ k = "ROL" /\ (b - n) % S \in v
     \/ k = "ROR" /\ (b + n) % S \in v
     \/ k = "ROXL" /\ IF left = S THEN x ELSE left \in v
     \/ k = "ROXR" /\ IF right = S THEN x ELSE right \in v

\* The value, C and X after n > 0 times, and whether the sign has changed.
Moved(k, S, v, x, n) == {b \in 0 .. S - 1 : At(k, S, v, x, n, b)}
CarryOf(k, S, v, x, n) ==
  CASE k \in {"ASL", "LSL", "ROXL"} -> At(k, S, v, x, n, S)
    [] k \in {"ASR", "LSR"} -> At(k, S, v, x, n - 1, 0)
    [] k = "ROL" -> At(k, S, v, x, n, 0)
    [] k = "ROR" -> At(k, S, v, x, n, S - 1)
    [] k = "ROXR" -> At(k, S, v, x, n, S)
XOf(k, S, v, x, n) == IF n = 0 \/ k \in {"ROL", "ROR"} THEN x ELSE CarryOf(k, S, v, x, n)
Level(S, v, n) == \A b \in S - 1 - n .. S - 1 : b \in v <=> S - 1 \in v
TurnedOf(k, S, v, n) == k = "ASL" /\ ~Level(S, v, n)

\* How often a value was shifted before the last time, and at the end.
Befores == 0 .. 62
Counts == 1 .. 63

LEMMA InShl ==
  ASSUME NEW v \in SUBSET Int, NEW n \in Int
  PROVE  \A b : b \in Shl(v, n) <=> b \in 0 .. 31 /\ b - n \in v
BY DEF Shl, Mask

LEMMA InShr ==
  ASSUME NEW v \in SUBSET Int, NEW n \in Int
  PROVE  \A b : b \in Shr(v, n) <=> b \in Nat /\ b + n \in v
BY DEF Shr

LEMMA Booleans ==
  ASSUME NEW k \in Kinds, NEW S, NEW v, NEW x \in BOOLEAN, NEW n
  PROVE  /\ CarryOf(k, S, v, x, n) \in BOOLEAN
         /\ XOf(k, S, v, x, n) \in BOOLEAN
         /\ TurnedOf(k, S, v, n) \in BOOLEAN
<1>1. CarryOf(k, S, v, x, n) \in BOOLEAN
  BY DEF CarryOf, Kinds, At
<1>2. XOf(k, S, v, x, n) \in BOOLEAN
  BY <1>1 DEF XOf
<1>3. TurnedOf(k, S, v, n) \in BOOLEAN
  BY DEF TurnedOf
<1>. QED
  BY <1>1, <1>2, <1>3

LEMMA SameTruth ==
  ASSUME NEW a \in BOOLEAN, NEW b \in BOOLEAN, a <=> b
  PROVE  a = b
OBVIOUS

\* The bits of a value are below its size.
LEMMA BitsAre ==
  ASSUME NEW S \in ShiftSizes, NEW v \in SUBSET (0 .. S - 1)
  PROVE  v \in SUBSET Int /\ S \in Nat /\ S >= 8 /\ S <= 32 /\ \A b \in v : 0 <= b /\ b < S
BY DEF ShiftSizes

LEMMA InMoved ==
  ASSUME NEW k, NEW S, NEW v, NEW x, NEW n
  PROVE  \A b : b \in Moved(k, S, v, x, n) <=> b \in 0 .. S - 1 /\ At(k, S, v, x, n, b)
BY DEF Moved

-----------------------------------------------------------------------------
(* A register shifted by a count at once.                                   *)

LEMMA LslMoves ==
  ASSUME NEW S \in ShiftSizes, NEW v \in SUBSET (0 .. S - 1), NEW x, NEW n \in Counts,
         NEW k \in {"ASL", "LSL"}
  PROVE  /\ Moved(k, S, v, x, n) = IF n >= S THEN {} ELSE Shl(Shl(v, n - 1), 1) \cap Mask(S)
         /\ CarryOf(k, S, v, x, n) <=> IF n >= S THEN n = S /\ 0 \in v ELSE S - 1 \in Shl(v, n - 1)
<1>. USE DEF Befores, Counts
<1>. DEFINE w == Shl(v, n - 1)
<1>1. v \in SUBSET Int /\ S \in Nat /\ S >= 8 /\ S <= 32 /\ \A b \in v : 0 <= b /\ b < S
  BY BitsAre
<1>2. \A b : b \in w <=> b \in 0 .. 31 /\ b - (n - 1) \in v
  BY <1>1, InShl
<1>3. w \in SUBSET Int
  BY <1>2
<1>. HIDE DEF w
<1>4. \A b : b \in Shl(w, 1) <=> b \in 0 .. 31 /\ b - 1 \in w
  BY <1>3, InShl
<1>5. \A b : b \in Moved(k, S, v, x, n) <=> b \in 0 .. S - 1 /\ b - n \in v
  BY InMoved DEF At
<1>6. ASSUME n >= S PROVE Moved(k, S, v, x, n) = {}
  BY <1>1, <1>5, <1>6
<1>7. ASSUME n < S PROVE Moved(k, S, v, x, n) = Shl(w, 1) \cap Mask(S)
  <2>1. ASSUME NEW b \in 0 .. S - 1 PROVE b \in Shl(w, 1) <=> b - n \in v
    <3>1. (b - 1) - (n - 1) = b - n
      BY <1>1
    <3>2. b - n \in v => b - 1 \in 0 .. 31
      BY <1>1
    <3>. QED
      BY <1>1, <1>2, <1>4, <3>1, <3>2
  <2>. QED
    BY <1>5, <2>1 DEF Mask
<1>8. CarryOf(k, S, v, x, n) <=> S - n \in v
  BY DEF CarryOf, At
<1>9. S - 1 \in w <=> S - n \in v
  <2>1. (S - 1) - (n - 1) = S - n
    BY <1>1
  <2>. QED
    BY <1>1, <1>2, <2>1
<1>10. n >= S => (S - n \in v <=> n = S /\ 0 \in v)
  <2>1. n > S => S - n \notin v
    BY <1>1
  <2>2. n = S => S - n = 0
    BY <1>1
  <2>. QED
    BY <1>1, <2>1, <2>2
<1>11. n >= S \/ n < S
  BY <1>1
<1>. QED
  BY <1>1, <1>6, <1>7, <1>8, <1>9, <1>10, <1>11 DEF w

LEMMA LslAtOnce ==
  ASSUME NEW S \in ShiftSizes, NEW v \in SUBSET (0 .. S - 1), NEW g, NEW x \in BOOLEAN, NEW n \in Counts
  PROVE  Lsl(S, v, n, g) =
           Shifted(S, Moved("LSL", S, v, x, n), XOf("LSL", S, v, x, n), FALSE,
                   CarryOf("LSL", S, v, x, n))
<1>. USE DEF Befores, Counts
<1>. DEFINE c == IF n >= S THEN n = S /\ 0 \in v ELSE S - 1 \in Shl(v, n - 1)
            w == IF n >= S THEN {} ELSE Shl(Shl(v, n - 1), 1) \cap Mask(S)
<1>1. n > 0 /\ n # 0
  OBVIOUS
<1>2. Lsl(S, v, n, g) = Shifted(S, w, c, FALSE, c)
  BY <1>1 DEF Lsl
<1>3. Moved("LSL", S, v, x, n) = w /\ (CarryOf("LSL", S, v, x, n) <=> c)
  BY LslMoves
<1>4. XOf("LSL", S, v, x, n) = CarryOf("LSL", S, v, x, n)
  BY <1>1 DEF XOf
<1>5. c \in BOOLEAN
  <2>1. CASE n >= S
    BY <2>1
  <2>2. CASE ~(n >= S)
    BY <2>2
  <2>. QED
    BY <2>1, <2>2
<1>6. CarryOf("LSL", S, v, x, n) \in BOOLEAN
  BY Booleans DEF Kinds
<1>. HIDE DEF c, w
<1>7. CarryOf("LSL", S, v, x, n) = c
  BY <1>3, <1>5, <1>6, SameTruth
<1>. QED
  BY <1>2, <1>3, <1>4, <1>7

LEMMA AslAtOnce ==
  ASSUME NEW S \in ShiftSizes, NEW v \in SUBSET (0 .. S - 1), NEW g, NEW x \in BOOLEAN, NEW n \in Counts
  PROVE  Asl(S, v, n, g) =
           Shifted(S, Moved("ASL", S, v, x, n), XOf("ASL", S, v, x, n), TurnedOf("ASL", S, v, n),
                   CarryOf("ASL", S, v, x, n))
<1>. USE DEF Befores, Counts
<1>. DEFINE mask == Shl(Mask(S), S - 1 - n) \cap Mask(S)
            c == S - 1 \in Shl(v, n - 1)
            w == Shl(Shl(v, n - 1), 1) \cap Mask(S)
<1>1. n > 0 /\ n # 0
  OBVIOUS
<1>2. S \in Nat /\ S >= 8 /\ S <= 32 /\ \A b \in v : 0 <= b /\ b < S
  BY BitsAre
<1>3. XOf("ASL", S, v, x, n) = CarryOf("ASL", S, v, x, n)
  BY <1>1 DEF XOf
<1>7. CarryOf("ASL", S, v, x, n) \in BOOLEAN /\ TurnedOf("ASL", S, v, n) \in BOOLEAN
  BY Booleans DEF Kinds
<1>4. TurnedOf("ASL", S, v, n) <=> ~Level(S, v, n)
  BY DEF TurnedOf
<1>5. CASE n >= S
  <2>1. Asl(S, v, n, g) = Shifted(S, {}, n = S /\ 0 \in v, v # {}, n = S /\ 0 \in v)
    BY <1>5 DEF Asl
  <2>2. /\ Moved("ASL", S, v, x, n) = {}
        /\ CarryOf("ASL", S, v, x, n) <=> n = S /\ 0 \in v
    BY <1>5, LslMoves
  <2>3. Level(S, v, n) <=> v = {}
    <3>1. -1 \in S - 1 - n .. S - 1 /\ -1 \notin v /\ v \subseteq S - 1 - n .. S - 1
      BY <1>2, <1>5
    <3>2. ASSUME Level(S, v, n) PROVE v = {}
      <4>1. S - 1 \notin v
        BY <3>1, <3>2 DEF Level
      <4>. QED
        BY <3>1, <3>2, <4>1 DEF Level
    <3>. QED
      BY <3>2 DEF Level
  <2>4. TurnedOf("ASL", S, v, n) = (v # {})
    BY <1>4, <1>7, <2>3
  <2>5. CarryOf("ASL", S, v, x, n) = (n = S /\ 0 \in v)
    BY <1>7, <2>2
  <2>. QED
    BY <1>3, <2>1, <2>2, <2>4, <2>5
<1>6. CASE n < S
  <2>1. Asl(S, v, n, g) = Shifted(S, w, c, v \cap mask \notin {mask, {}}, c)
    BY <1>1, <1>2, <1>6 DEF Asl
  <2>2. Moved("ASL", S, v, x, n) = w /\ (CarryOf("ASL", S, v, x, n) <=> c)
    <3>1. ~(n >= S)
      BY <1>2, <1>6
    <3>. QED
      BY <3>1, LslMoves
  <2>3. \A b : b \in mask <=> b \in S - 1 - n .. S - 1
    <3>1. Mask(S) \in SUBSET Int
      BY <1>2 DEF Mask
    <3>2. \A b : b \in Shl(Mask(S), S - 1 - n) <=> b \in 0 .. 31 /\ b - (S - 1 - n) \in Mask(S)
      BY <1>2, <3>1, InShl
    <3>3. \A b \in Int : b \in 0 .. 31 /\ b - (S - 1 - n) \in 0 .. S - 1 /\ b \in 0 .. S - 1
                           <=> b \in S - 1 - n .. S - 1
      BY <1>2, <1>6
    <3>4. Mask(S) = 0 .. S - 1 /\ mask \in SUBSET Int /\ S - 1 - n .. S - 1 \in SUBSET Int
      BY <1>2, <1>6, <3>1 DEF Mask
    <3>5. \A b : b \in mask <=> b \in Shl(Mask(S), S - 1 - n) /\ b \in Mask(S)
      OBVIOUS
    <3>. HIDE DEF mask
    <3>. QED
      BY <3>2, <3>3, <3>4, <3>5
  <2>4. Level(S, v, n) <=> v \cap mask \in {mask, {}}
    <3>1. S - 1 \in mask
      BY <1>2, <2>3
    <3>. HIDE DEF mask
    <3>2. Level(S, v, n) <=> \A b \in mask : b \in v <=> S - 1 \in v
      BY <2>3 DEF Level
    <3>. QED
      BY <3>1, <3>2
  <2>. DEFINE o == v \cap mask \notin {mask, {}}
  <2>5. o \in BOOLEAN /\ c \in BOOLEAN /\ (TurnedOf("ASL", S, v, n) <=> o)
    BY <1>4, <2>4
  <2>. HIDE DEF c, w, mask, o
  <2>6. TurnedOf("ASL", S, v, n) = o /\ CarryOf("ASL", S, v, x, n) = c
    BY <1>7, <2>2, <2>5, SameTruth
  <2>7. Asl(S, v, n, g) = Shifted(S, w, c, o, c)
    BY <2>1 DEF o
  <2>. QED
    BY <1>3, <2>2, <2>6, <2>7
<1>. QED
  BY <1>2, <1>5, <1>6

LEMMA LsrAtOnce ==
  ASSUME NEW S \in ShiftSizes, NEW v \in SUBSET (0 .. S - 1), NEW g, NEW x \in BOOLEAN, NEW n \in Counts
  PROVE  Lsr(S, v, n, g) =
           Shifted(S, Moved("LSR", S, v, x, n), XOf("LSR", S, v, x, n), FALSE,
                   CarryOf("LSR", S, v, x, n))
<1>. USE DEF Befores, Counts
<1>. DEFINE before == Shr(v, n - 1)
            c == IF n >= S THEN n = S /\ S - 1 \in v ELSE 0 \in before
            w == IF n >= S THEN {} ELSE Shr(before, 1)
<1>1. n > 0 /\ n # 0 /\ n \in Nat
  OBVIOUS
<1>2. v \in SUBSET Int /\ S \in Nat /\ S >= 8 /\ S <= 32 /\ \A b \in v : 0 <= b /\ b < S
  BY BitsAre
<1>3. \A b : b \in before <=> b \in Nat /\ b + (n - 1) \in v
  BY <1>2, InShr
<1>4. before \in SUBSET Int
  BY <1>3
<1>5. Lsr(S, v, n, g) = Shifted(S, w, c, FALSE, c)
  BY <1>1 DEF Lsr
<1>. HIDE DEF before
<1>6. \A b : b \in Shr(before, 1) <=> b \in Nat /\ b + 1 \in before
  BY <1>4, InShr
<1>7. \A b : b \in Moved("LSR", S, v, x, n) <=> b \in 0 .. S - 1 /\ b + n \in v
  BY InMoved DEF At
<1>8. Moved("LSR", S, v, x, n) = w
  <2>1. n >= S => Moved("LSR", S, v, x, n) = {}
    BY <1>2, <1>7
  <2>2. \A b \in Nat : b \in Shr(before, 1) <=> b + n \in v
    <3>1. ASSUME NEW b \in Nat PROVE b \in Shr(before, 1) <=> b + n \in v
      <4>1. (b + 1) + (n - 1) = b + n /\ b + 1 \in Nat
        BY <1>1
      <4>. QED
        BY <1>3, <1>6, <4>1
    <3>. QED
      BY <3>1
  <2>3. \A b \in Nat : b + n \in v => b \in 0 .. S - 1
    BY <1>2
  <2>4. \A b : b \in Moved("LSR", S, v, x, n) <=> b \in Shr(before, 1)
    BY <1>2, <1>6, <1>7, <2>2, <2>3
  <2>. QED
    BY <2>1, <2>4
<1>9. CarryOf("LSR", S, v, x, n) <=> c
  <2>1. CarryOf("LSR", S, v, x, n) <=> 0 + (n - 1) \in v
    BY DEF CarryOf, At
  <2>2. n >= S => (0 + (n - 1) \in v <=> n = S /\ S - 1 \in v)
    <3>1. n > S => 0 + (n - 1) \notin v
      BY <1>2
    <3>2. n = S => 0 + (n - 1) = S - 1
      BY <1>2
    <3>. QED
      BY <1>2, <3>1, <3>2
  <2>. QED
    BY <1>3, <2>1, <2>2
<1>10. XOf("LSR", S, v, x, n) = CarryOf("LSR", S, v, x, n)
  BY <1>1 DEF XOf
<1>11. c \in BOOLEAN
  <2>1. CASE n >= S
    BY <2>1
  <2>2. CASE ~(n >= S)
    BY <2>2
  <2>. QED
    BY <2>1, <2>2
<1>12. CarryOf("LSR", S, v, x, n) \in BOOLEAN
  BY Booleans DEF Kinds
<1>. HIDE DEF c, w
<1>13. CarryOf("LSR", S, v, x, n) = c
  BY <1>9, <1>11, <1>12, SameTruth
<1>. QED
  BY <1>5, <1>8, <1>10, <1>13

LEMMA AsrAtOnce ==
  ASSUME NEW S \in ShiftSizes, NEW v \in SUBSET (0 .. S - 1), NEW g, NEW x \in BOOLEAN, NEW n \in Counts
  PROVE  Asr(S, v, n, g) =
           Shifted(S, Moved("ASR", S, v, x, n), XOf("ASR", S, v, x, n), FALSE,
                   CarryOf("ASR", S, v, x, n))
<1>. USE DEF Befores, Counts
<1>. DEFINE sign == S - 1 \in v
            before == Shr(v, n - 1)
            filled == IF sign THEN Shl(Mask(S), S - n) ELSE {}
            w == (Shr(before, 1) \cup filled) \cap Mask(S)
            c == 0 \in before
<1>1. n > 0 /\ n # 0 /\ n \in Nat
  OBVIOUS
<1>2. v \in SUBSET Int /\ S \in Nat /\ S >= 8 /\ S <= 32 /\ \A b \in v : 0 <= b /\ b < S
  BY BitsAre
<1>3. \A b : b \in Moved("ASR", S, v, x, n) <=>
               b \in 0 .. S - 1 /\ IF b + n < S THEN b + n \in v ELSE sign
  BY InMoved DEF At
<1>4. CarryOf("ASR", S, v, x, n) <=> IF 0 + (n - 1) < S THEN 0 + (n - 1) \in v ELSE sign
  BY DEF CarryOf, At
<1>5. XOf("ASR", S, v, x, n) = CarryOf("ASR", S, v, x, n)
  BY <1>1 DEF XOf
<1>9. CarryOf("ASR", S, v, x, n) \in BOOLEAN /\ sign \in BOOLEAN /\ c \in BOOLEAN
  BY Booleans DEF Kinds
<1>6. CASE n >= S
  <2>1. Asr(S, v, n, g) = Shifted(S, IF sign THEN Mask(S) ELSE {}, sign, FALSE, sign)
    BY <1>6 DEF Asr
  <2>2. \A b \in 0 .. S - 1 : ~(b + n < S)
    BY <1>2, <1>6
  <2>3. Moved("ASR", S, v, x, n) = IF sign THEN Mask(S) ELSE {}
    <3>. HIDE DEF sign
    <3>1. \A b : b \in Moved("ASR", S, v, x, n) <=> b \in 0 .. S - 1 /\ sign
      BY <1>3, <2>2
    <3>. QED
      BY <3>1 DEF Mask
  <2>4. CarryOf("ASR", S, v, x, n) <=> sign
    <3>1. 0 + (n - 1) < S => 0 + (n - 1) = S - 1
      BY <1>2, <1>6
    <3>. QED
      BY <1>4, <3>1
  <2>. HIDE DEF sign
  <2>5. CarryOf("ASR", S, v, x, n) = sign
    BY <1>9, <2>4, SameTruth
  <2>. QED
    BY <1>5, <2>1, <2>3, <2>5
<1>7. CASE n < S
  <2>1. Asr(S, v, n, g) = Shifted(S, w, c, FALSE, c)
    <3>1. ~(n >= S)
      BY <1>2, <1>7
    <3>. QED
      BY <1>1, <3>1 DEF Asr
  <2>2. \A b : b \in before <=> b \in Nat /\ b + (n - 1) \in v
    BY <1>2, InShr
  <2>3. before \in SUBSET Int
    BY <2>2
  <2>4. c <=> CarryOf("ASR", S, v, x, n)
    <3>1. 0 + (n - 1) < S
      BY <1>2, <1>7
    <3>. QED
      BY <1>4, <2>2, <3>1
  <2>5. \A b : b \in filled <=> sign /\ b \in 0 .. 31 /\ b - (S - n) \in Mask(S)
    <3>1. Mask(S) \in SUBSET Int
      BY <1>2 DEF Mask
    <3>2. \A b : b \in Shl(Mask(S), S - n) <=> b \in 0 .. 31 /\ b - (S - n) \in Mask(S)
      BY <1>2, <3>1, InShl
    <3>. HIDE DEF sign
    <3>. QED
      BY <3>2
  <2>. HIDE DEF before, filled, c
  <2>6. \A b : b \in Shr(before, 1) <=> b \in Nat /\ b + 1 \in before
    BY <2>3, InShr
  <2>7. ASSUME NEW b \in 0 .. S - 1
        PROVE  b \in w <=> IF b + n < S THEN b + n \in v ELSE sign
    <3>1. (b + 1) + (n - 1) = b + n /\ b + 1 \in Nat /\ b \in Nat /\ b \in Mask(S)
      BY <1>2 DEF Mask
    <3>2. b \in Shr(before, 1) <=> b + n \in v
      BY <2>2, <2>6, <3>1
    <3>3. b \in filled <=> sign /\ ~(b + n < S)
      <4>1. b \in 0 .. 31 /\ (b - (S - n) \in Mask(S) <=> ~(b + n < S))
        BY <1>2, <1>7 DEF Mask
      <4>. QED
        BY <2>5, <4>1
    <3>4. ~(b + n < S) => b + n \notin v
      BY <1>2
    <3>. HIDE DEF sign
    <3>. QED
      BY <3>1, <3>2, <3>3, <3>4
  <2>8. Moved("ASR", S, v, x, n) = w
    <3>. HIDE DEF sign
    <3>1. w \subseteq 0 .. S - 1
      BY DEF Mask
    <3>. HIDE DEF w
    <3>. QED
      BY <1>3, <2>7, <3>1
  <2>. HIDE DEF w, sign
  <2>9. CarryOf("ASR", S, v, x, n) = c
    BY <1>9, <2>4, SameTruth
  <2>. QED
    BY <1>5, <2>1, <2>8, <2>9
<1>8. n >= S \/ n < S
  BY <1>2
<1>. QED
  BY <1>6, <1>7, <1>8

\* A bit that goes around a word or, with X, a word and one more bit.
LEMMA GoesAround ==
  ASSUME NEW m \in {8, 9, 16, 17, 32, 33}, NEW b \in 0 .. m - 1, NEW n \in 0 .. 63
  PROVE  /\ n % m \in 0 .. m - 1
         /\ (b - n) % m = IF b >= n % m THEN b - (n % m) ELSE b - (n % m) + m
         /\ (b + n) % m = IF b + (n % m) < m THEN b + (n % m) ELSE b + (n % m) - m
<1>1. CASE m = 8
  BY <1>1
<1>2. CASE m = 9
  BY <1>2
<1>3. CASE m = 16
  BY <1>3
<1>4. CASE m = 17
  BY <1>4
<1>5. CASE m = 32
  BY <1>5
<1>6. CASE m = 33
  BY <1>6
<1>. QED
  BY <1>1, <1>2, <1>3, <1>4, <1>5, <1>6

LEMMA InWide ==
  ASSUME NEW v \in SUBSET Int, NEW n \in 0 .. 32, NEW wraps \in BOOLEAN
  PROVE  /\ n < 32 => ShlWide(v, n, wraps) = Shl(v, n) /\ ShrWide(v, n, wraps) = Shr(v, n)
         /\ n = 32 => ShlWide(v, n, wraps) \in {v, Shl(v, n)} /\ ShrWide(v, n, wraps) \in {v, Shr(v, n)}
BY DEF ShlWide, ShrWide

LEMMA RolAtOnce ==
  ASSUME NEW S \in ShiftSizes, NEW v \in SUBSET (0 .. S - 1), NEW g, NEW n \in Counts,
         NEW wraps \in BOOLEAN
  PROVE  LET x == "X" \in g
         IN Rol(S, v, n, g, wraps) =
              Shifted(S, Moved("ROL", S, v, x, n), XOf("ROL", S, v, x, n), FALSE,
                      CarryOf("ROL", S, v, x, n))
<1>. USE DEF Befores, Counts
<1>. DEFINE x == "X" \in g
            j == n % S
            wide == ShrWide(v, S - j, wraps)
            w == (Shl(v, j) \cup wide) \cap Mask(S)
            k == "ROL"
<1>1. v \in SUBSET Int /\ S \in Nat /\ S >= 8 /\ S <= 32 /\ \A b \in v : 0 <= b /\ b < S
  BY BitsAre
<1>2. n > 0 /\ n # 0 /\ n \in 0 .. 63 /\ S \in {8, 9, 16, 17, 32, 33}
  BY DEF ShiftSizes
<1>3. j \in 0 .. S - 1 /\ \A b \in 0 .. S - 1 : (b - n) % S = IF b >= j THEN b - j ELSE b - j + S
  <2>1. 0 \in 0 .. S - 1
    BY <1>1
  <2>. QED
    BY <1>2, <2>1, GoesAround
<1>4. Rol(S, v, n, g, wraps) = Shifted(S, w, x, FALSE, 0 \in w)
  BY <1>2 DEF Rol
<1>. HIDE DEF j
<1>5. \A b : b \in Shl(v, j) <=> b \in 0 .. 31 /\ b - j \in v
  BY <1>1, <1>3, InShl
<1>6. \A b \in 0 .. S - 1 : b \in wide <=> b + (S - j) \in v \/ (wide = v /\ j = 0 /\ b \in v)
  <2>1. \A b : b \in Shr(v, S - j) <=> b \in Nat /\ b + (S - j) \in v
    BY <1>1, <1>3, InShr
  <2>2. S - j \in 0 .. 32
    BY <1>1, <1>3
  <2>3. wide = Shr(v, S - j) \/ (wide = v /\ S - j = 32)
    BY <1>1, <2>2, InWide
  <2>. HIDE DEF wide
  <2>4. \A b \in 0 .. S - 1 : b \in Nat
    BY <1>1
  <2>5. CASE wide = Shr(v, S - j)
    <3>1. \A b \in 0 .. S - 1 : b \in wide <=> b + (S - j) \in v
      BY <2>1, <2>4, <2>5
    <3>. QED
      BY <3>1
  <2>6. CASE wide = v /\ S - j = 32
    <3>1. j = 0 /\ S = 32
      BY <1>1, <1>3, <2>6
    <3>2. \A b \in 0 .. S - 1 : b + (S - j) \notin v
      BY <1>1, <3>1
    <3>. QED
      BY <2>6, <3>1, <3>2
  <2>. QED
    BY <2>3, <2>5, <2>6
<1>. HIDE DEF wide
<1>7. ASSUME NEW b \in 0 .. S - 1 PROVE b \in w <=> At(k, S, v, x, n, b)
  <2>1. At(k, S, v, x, n, b) <=> (b - n) % S \in v
    BY DEF At
  <2>2. b \in 0 .. 31 /\ b \in Mask(S) /\ b \in Int
    BY <1>1 DEF Mask
  <2>3. CASE b >= j
    <3>1. (b - n) % S = b - j /\ b + (S - j) \notin v
      BY <1>1, <1>3, <2>3
    <3>2. j = 0 => b - j = b
      BY <2>2
    <3>. QED
      BY <1>5, <1>6, <2>1, <2>2, <3>1, <3>2
  <2>4. CASE b < j
    <3>1. (b - n) % S = b + (S - j) /\ b - j \notin v /\ j # 0
      BY <1>1, <1>3, <2>4
    <3>. QED
      BY <1>5, <1>6, <2>1, <2>2, <3>1
  <2>. QED
    BY <1>3, <2>2, <2>3, <2>4
<1>8. w \subseteq 0 .. S - 1
  BY DEF Mask
<1>. HIDE DEF w
<1>9. Moved(k, S, v, x, n) = w
  BY <1>7, <1>8, InMoved
<1>10. CarryOf(k, S, v, x, n) = (0 \in w)
  <2>1. CarryOf(k, S, v, x, n) <=> At(k, S, v, x, n, 0)
    BY DEF CarryOf
  <2>2. 0 \in 0 .. S - 1
    BY <1>1
  <2>3. CarryOf(k, S, v, x, n) <=> 0 \in w
    BY <1>7, <2>1, <2>2
  <2>4. CarryOf(k, S, v, x, n) \in BOOLEAN
    <3>1. x \in BOOLEAN /\ k \in Kinds
      BY DEF Kinds
    <3>. HIDE DEF x, k
    <3>. QED
      BY <3>1, Booleans
  <2>. QED
    BY <2>3, <2>4
<1>11. XOf(k, S, v, x, n) = x
  BY <1>2 DEF XOf
<1>. QED
  BY <1>4, <1>9, <1>10, <1>11

LEMMA RorAtOnce ==
  ASSUME NEW S \in ShiftSizes, NEW v \in SUBSET (0 .. S - 1), NEW g, NEW n \in Counts,
         NEW wraps \in BOOLEAN
  PROVE  LET x == "X" \in g
         IN Ror(S, v, n, g, wraps) =
              Shifted(S, Moved("ROR", S, v, x, n), XOf("ROR", S, v, x, n), FALSE,
                      CarryOf("ROR", S, v, x, n))
<1>. USE DEF Befores, Counts
<1>. DEFINE x == "X" \in g
            j == n % S
            wide == ShlWide(v, S - j, wraps)
            w == (Shr(v, j) \cup wide) \cap Mask(S)
            k == "ROR"
<1>1. v \in SUBSET Int /\ S \in Nat /\ S >= 8 /\ S <= 32 /\ \A b \in v : 0 <= b /\ b < S
  BY BitsAre
<1>2. n > 0 /\ n # 0 /\ n \in 0 .. 63 /\ S \in {8, 9, 16, 17, 32, 33}
  BY DEF ShiftSizes
<1>3. /\ j \in 0 .. S - 1
      /\ \A b \in 0 .. S - 1 : (b + n) % S = IF b + j < S THEN b + j ELSE b + j - S
  <2>1. 0 \in 0 .. S - 1
    BY <1>1
  <2>. QED
    BY <1>2, <2>1, GoesAround
<1>4. Ror(S, v, n, g, wraps) = Shifted(S, w, x, FALSE, S - 1 \in w)
  BY <1>2 DEF Ror
<1>. HIDE DEF j
<1>5. \A b : b \in Shr(v, j) <=> b \in Nat /\ b + j \in v
  BY <1>1, <1>3, InShr
<1>6. \A b \in 0 .. S - 1 : b \in wide <=> b - (S - j) \in v \/ (wide = v /\ j = 0 /\ b \in v)
  <2>1. \A b : b \in Shl(v, S - j) <=> b \in 0 .. 31 /\ b - (S - j) \in v
    BY <1>1, <1>3, InShl
  <2>2. S - j \in 0 .. 32
    BY <1>1, <1>3
  <2>3. wide = Shl(v, S - j) \/ (wide = v /\ S - j = 32)
    BY <1>1, <2>2, InWide
  <2>. HIDE DEF wide
  <2>4. \A b \in 0 .. S - 1 : b \in 0 .. 31
    BY <1>1
  <2>5. CASE wide = Shl(v, S - j)
    <3>1. \A b \in 0 .. S - 1 : b \in wide <=> b - (S - j) \in v
      BY <2>1, <2>4, <2>5
    <3>2. j = 0 => \A b \in 0 .. S - 1 : b - (S - j) \notin v
      BY <1>1
    <3>3. j = 0 /\ wide = v => \A b \in 0 .. S - 1 : b \notin v
      BY <3>1, <3>2
    <3>. QED
      BY <3>1, <3>3
  <2>6. CASE wide = v /\ S - j = 32
    <3>1. j = 0 /\ S = 32
      BY <1>1, <1>3, <2>6
    <3>2. \A b \in 0 .. S - 1 : b - (S - j) \notin v
      BY <1>1, <3>1
    <3>. QED
      BY <2>6, <3>1, <3>2
  <2>. QED
    BY <2>3, <2>5, <2>6
<1>. HIDE DEF wide
<1>7. ASSUME NEW b \in 0 .. S - 1 PROVE b \in w <=> At(k, S, v, x, n, b)
  <2>1. At(k, S, v, x, n, b) <=> (b + n) % S \in v
    BY DEF At
  <2>2. b \in Nat /\ b \in Mask(S) /\ b \in Int
    BY <1>1 DEF Mask
  <2>3. CASE b + j < S
    <3>1. (b + n) % S = b + j /\ b - (S - j) \notin v
      BY <1>1, <1>3, <2>3
    <3>2. j = 0 => b + j = b
      BY <2>2
    <3>. QED
      BY <1>5, <1>6, <2>1, <2>2, <3>1, <3>2
  <2>4. CASE b + j >= S
    <3>1. (b + n) % S = b - (S - j) /\ b + j \notin v /\ j # 0
      BY <1>1, <1>3, <2>4
    <3>. QED
      BY <1>5, <1>6, <2>1, <2>2, <3>1
  <2>5. b + j < S \/ b + j >= S
    BY <1>1, <1>3
  <2>. QED
    BY <2>3, <2>4, <2>5
<1>8. w \subseteq 0 .. S - 1
  BY DEF Mask
<1>. HIDE DEF w
<1>9. Moved(k, S, v, x, n) = w
  BY <1>7, <1>8, InMoved
<1>10. CarryOf(k, S, v, x, n) = (S - 1 \in w)
  <2>1. CarryOf(k, S, v, x, n) <=> At(k, S, v, x, n, S - 1)
    BY DEF CarryOf
  <2>2. S - 1 \in 0 .. S - 1
    BY <1>1
  <2>3. CarryOf(k, S, v, x, n) <=> S - 1 \in w
    BY <1>7, <2>1, <2>2
  <2>4. CarryOf(k, S, v, x, n) \in BOOLEAN
    <3>1. x \in BOOLEAN /\ k \in Kinds
      BY DEF Kinds
    <3>. HIDE DEF x, k
    <3>. QED
      BY <3>1, Booleans
  <2>. QED
    BY <2>3, <2>4
<1>11. XOf(k, S, v, x, n) = x
  BY <1>2 DEF XOf
<1>. QED
  BY <1>4, <1>9, <1>10, <1>11

LEMMA RoxRangeIs ==
  ASSUME NEW S \in ShiftSizes, NEW n \in Counts, NEW imm \in BOOLEAN, imm => n <= 8
  PROVE  RoxRange(S, n, imm) = n % (S + 1)
<1>. USE DEF Befores, Counts
<1>1. CASE S = 8
  BY <1>1 DEF RoxRange, Reduced
<1>2. CASE S = 16
  BY <1>2 DEF RoxRange, Reduced
<1>3. CASE S = 32
  BY <1>3 DEF RoxRange, Reduced
<1>. QED
  BY <1>1, <1>2, <1>3 DEF ShiftSizes

LEMMA InWithX ==
  ASSUME NEW v \in SUBSET (0 .. 31), NEW g
  PROVE  /\ WithX(v, g) \in SUBSET Int
         /\ \A i : i \in WithX(v, g) <=> i \in 0 .. 31 /\ (i - 1 \in v \/ (i = 0 /\ "X" \in g))
<1>1. \A i : i \in Shl(v, 1) <=> i \in 0 .. 31 /\ i - 1 \in v
  <2>1. v \in SUBSET Int
    OBVIOUS
  <2>. QED
    BY <2>1, InShl
<1>2. \A i : i \in WithX(v, g) <=> i \in Shl(v, 1) \/ (i = 0 /\ "X" \in g)
  BY DEF WithX
<1>3. 0 \in 0 .. 31
  OBVIOUS
<1>4. \A i : i \in WithX(v, g) <=> i \in 0 .. 31 /\ (i - 1 \in v \/ (i = 0 /\ "X" \in g))
  BY <1>1, <1>2, <1>3
<1>. QED
  BY <1>4

LEMMA RoxlAtOnce ==
  ASSUME NEW S \in ShiftSizes, NEW v \in SUBSET (0 .. S - 1), NEW g, NEW n \in Counts,
         NEW imm \in BOOLEAN, imm => n <= 8
  PROVE  LET x == "X" \in g
         IN Roxl(S, v, n, g, imm) =
              Shifted(S, Moved("ROXL", S, v, x, n), XOf("ROXL", S, v, x, n), FALSE,
                      CarryOf("ROXL", S, v, x, n))
<1>. USE DEF Befores, Counts
<1>. DEFINE x == "X" \in g
            j == n % (S + 1)
            loval == Shr(v, S - j)
            wx == WithX(v, g)
            hi == Shl(wx, j - 1)
            w == (hi \cup Shr(loval, 1)) \cap Mask(S)
            c == 0 \in loval
            k == "ROXL"
<1>1. v \in SUBSET Int /\ S \in Nat /\ S >= 8 /\ S <= 32 /\ \A b \in v : 0 <= b /\ b < S
  BY BitsAre
<1>2. n > 0 /\ n # 0 /\ n \in 0 .. 63 /\ S + 1 \in {8, 9, 16, 17, 32, 33}
  BY DEF ShiftSizes
<1>3. /\ j \in 0 .. S
      /\ \A b \in 0 .. S : (b - n) % (S + 1) = IF b >= j THEN b - j ELSE b - j + (S + 1)
  <2>1. 0 \in 0 .. (S + 1) - 1 /\ (S + 1) - 1 = S
    BY <1>1
  <2>. QED
    BY <1>2, <2>1, GoesAround
<1>4. Roxl(S, v, n, g, imm) = IF j > 0 THEN Shifted(S, w, c, FALSE, c)
                              ELSE Shifted(S, v, x, FALSE, x)
  BY RoxRangeIs DEF Roxl
<1>5. \A b : At(k, S, v, x, n, b) <=> LET left == (b - n) % (S + 1)
                                      IN IF left = S THEN x ELSE left \in v
  BY DEF At
<1>6. CarryOf(k, S, v, x, n) <=> At(k, S, v, x, n, S)
  BY DEF CarryOf
<1>7. XOf(k, S, v, x, n) = CarryOf(k, S, v, x, n) /\ CarryOf(k, S, v, x, n) \in BOOLEAN
  <2>1. x \in BOOLEAN /\ k \in Kinds /\ k \notin {"ROL", "ROR"}
    BY DEF Kinds
  <2>. HIDE DEF x, k
  <2>2. CarryOf(k, S, v, x, n) \in BOOLEAN
    BY <2>1, Booleans
  <2>. QED
    BY <1>2, <2>1, <2>2 DEF XOf
<1>8. S \in 0 .. S /\ \A b \in 0 .. S - 1 : b \in 0 .. S
  BY <1>1
<1>. HIDE DEF j
<1>9. CASE j = 0
  <2>1. ASSUME NEW b \in 0 .. S - 1 PROVE At(k, S, v, x, n, b) <=> b \in v
    <3>1. (b - n) % (S + 1) = b /\ b # S
      BY <1>1, <1>3, <1>8, <1>9
    <3>. QED
      BY <1>5, <3>1
  <2>2. Moved(k, S, v, x, n) = v
    BY <1>1, <2>1, InMoved
  <2>3. (S - n) % (S + 1) = S
    BY <1>1, <1>3, <1>8, <1>9
  <2>4. CarryOf(k, S, v, x, n) = x
    BY <1>5, <1>6, <1>7, <2>3
  <2>5. ~(j > 0)
    BY <1>9
  <2>. QED
    BY <1>4, <1>7, <2>2, <2>4, <2>5
<1>10. CASE j > 0
  <2>1. \A b : b \in loval <=> b \in Nat /\ b + (S - j) \in v
    BY <1>1, <1>3, InShr
  <2>2. loval \in SUBSET Int
    BY <2>1
  <2>3. wx \in SUBSET Int /\ \A i : i \in wx <=> i \in 0 .. 31 /\ (i - 1 \in v \/ (i = 0 /\ x))
    <3>1. v \in SUBSET (0 .. 31)
      BY <1>1
    <3>. QED
      BY <3>1, InWithX
  <2>. HIDE DEF loval, wx
  <2>4. \A b : b \in hi <=> b \in 0 .. 31 /\ b - (j - 1) \in wx
    BY <1>3, <2>3, InShl
  <2>5. \A b : b \in Shr(loval, 1) <=> b \in Nat /\ b + 1 \in loval
    BY <2>2, InShr
  <2>. HIDE DEF hi
  <2>6. ASSUME NEW b \in 0 .. S - 1 PROVE b \in w <=> At(k, S, v, x, n, b)
    <3>1. b \in 0 .. 31 /\ b \in Nat /\ b \in Mask(S) /\ b + 1 \in Nat
      BY <1>1 DEF Mask
    <3>2. b \in Shr(loval, 1) <=> (b + 1) + (S - j) \in v
      BY <2>1, <2>5, <3>1
    <3>3. b \in hi <=> b - (j - 1) \in 0 .. 31 /\ ((b - (j - 1)) - 1 \in v \/ (b - (j - 1) = 0 /\ x))
      BY <2>3, <2>4, <3>1
    <3>4. CASE b >= j
      <4>1. (b - n) % (S + 1) = b - j
        BY <1>3, <1>8, <3>4
      <4>2. b - j # S /\ (b - (j - 1)) - 1 = b - j /\ b - (j - 1) # 0 /\ b - (j - 1) \in 0 .. 31
        BY <1>1, <1>3, <1>10, <3>4
      <4>3. (b + 1) + (S - j) \notin v
        BY <1>1, <1>3, <3>4
      <4>. QED
        BY <1>5, <3>1, <3>2, <3>3, <4>1, <4>2, <4>3
    <3>5. CASE b = j - 1
      <4>1. (b - n) % (S + 1) = S
        BY <1>1, <1>3, <1>8, <3>5
      <4>2. b - (j - 1) = 0 /\ (b - (j - 1)) - 1 \notin v /\ b - (j - 1) \in 0 .. 31
        BY <1>1, <1>3, <3>5
      <4>3. (b + 1) + (S - j) \notin v
        BY <1>1, <1>3, <3>5
      <4>. QED
        BY <1>5, <3>1, <3>2, <3>3, <4>1, <4>2, <4>3
    <3>6. CASE b < j - 1
      <4>1. (b - n) % (S + 1) = (b + 1) + (S - j) /\ (b + 1) + (S - j) # S
        BY <1>1, <1>3, <1>8, <3>6
      <4>2. b - (j - 1) \notin 0 .. 31
        BY <1>1, <1>3, <3>6
      <4>. QED
        BY <1>5, <3>1, <3>2, <3>3, <4>1, <4>2
    <3>7. b >= j \/ b = j - 1 \/ b < j - 1
      BY <1>3
    <3>. QED
      BY <3>4, <3>5, <3>6, <3>7
  <2>7. w \subseteq 0 .. S - 1
    BY DEF Mask
  <2>8. CarryOf(k, S, v, x, n) <=> c
    <3>1. (S - n) % (S + 1) = S - j /\ S - j # S
      BY <1>1, <1>3, <1>8, <1>10
    <3>2. 0 + (S - j) = S - j
      BY <1>1, <1>3
    <3>. QED
      BY <1>5, <1>6, <2>1, <3>1, <3>2
  <2>9. c \in BOOLEAN
    OBVIOUS
  <2>. HIDE DEF w, c
  <2>10. Moved(k, S, v, x, n) = w
    BY <2>6, <2>7, InMoved
  <2>11. CarryOf(k, S, v, x, n) = c
    BY <1>7, <2>8, <2>9, SameTruth
  <2>. QED
    BY <1>4, <1>7, <1>10, <2>10, <2>11
<1>11. j = 0 \/ j > 0
  BY <1>3
<1>. QED
  BY <1>9, <1>10, <1>11

LEMMA RoxrAtOnce ==
  ASSUME NEW S \in ShiftSizes, NEW v \in SUBSET (0 .. S - 1), NEW g, NEW n \in Counts,
         NEW imm \in BOOLEAN, imm => n <= 8
  PROVE  LET x == "X" \in g
         IN Roxr(S, v, n, g, imm) =
              Shifted(S, Moved("ROXR", S, v, x, n), XOf("ROXR", S, v, x, n), FALSE,
                      CarryOf("ROXR", S, v, x, n))
<1>. USE DEF Befores, Counts
<1>. DEFINE x == "X" \in g
            j == n % (S + 1)
            before == Shr(v, j - 1)
            wx == WithX(v, g)
            hival == Shl(wx, S - j)
            w == (Shr(before, 1) \cup hival) \cap Mask(S)
            c == 0 \in before
            k == "ROXR"
<1>1. v \in SUBSET Int /\ S \in Nat /\ S >= 8 /\ S <= 32 /\ \A b \in v : 0 <= b /\ b < S
  BY BitsAre
<1>2. n > 0 /\ n # 0 /\ n \in 0 .. 63 /\ S + 1 \in {8, 9, 16, 17, 32, 33}
  BY DEF ShiftSizes
<1>3. /\ j \in 0 .. S
      /\ \A b \in 0 .. S : (b + n) % (S + 1) = IF b + j < S + 1 THEN b + j ELSE b + j - (S + 1)
  <2>1. 0 \in 0 .. (S + 1) - 1 /\ (S + 1) - 1 = S
    BY <1>1
  <2>. QED
    BY <1>2, <2>1, GoesAround
<1>4. Roxr(S, v, n, g, imm) = IF j > 0 THEN Shifted(S, w, c, FALSE, c)
                              ELSE Shifted(S, v, x, FALSE, x)
  BY RoxRangeIs DEF Roxr
<1>5. \A b : At(k, S, v, x, n, b) <=> LET right == (b + n) % (S + 1)
                                      IN IF right = S THEN x ELSE right \in v
  BY DEF At
<1>6. CarryOf(k, S, v, x, n) <=> At(k, S, v, x, n, S)
  BY DEF CarryOf
<1>7. XOf(k, S, v, x, n) = CarryOf(k, S, v, x, n) /\ CarryOf(k, S, v, x, n) \in BOOLEAN
  <2>1. x \in BOOLEAN /\ k \in Kinds /\ k \notin {"ROL", "ROR"}
    BY DEF Kinds
  <2>. HIDE DEF x, k
  <2>2. CarryOf(k, S, v, x, n) \in BOOLEAN
    BY <2>1, Booleans
  <2>. QED
    BY <1>2, <2>1, <2>2 DEF XOf
<1>8. S \in 0 .. S /\ \A b \in 0 .. S - 1 : b \in 0 .. S
  BY <1>1
<1>. HIDE DEF j
<1>9. CASE j = 0
  <2>1. ASSUME NEW b \in 0 .. S - 1 PROVE At(k, S, v, x, n, b) <=> b \in v
    <3>1. (b + n) % (S + 1) = b /\ b # S
      BY <1>1, <1>3, <1>8, <1>9
    <3>. QED
      BY <1>5, <3>1
  <2>2. Moved(k, S, v, x, n) = v
    BY <1>1, <2>1, InMoved
  <2>3. (S + n) % (S + 1) = S
    BY <1>1, <1>3, <1>8, <1>9
  <2>4. CarryOf(k, S, v, x, n) = x
    BY <1>5, <1>6, <1>7, <2>3
  <2>5. ~(j > 0)
    BY <1>9
  <2>. QED
    BY <1>4, <1>7, <2>2, <2>4, <2>5
<1>10. CASE j > 0
  <2>1. \A b : b \in before <=> b \in Nat /\ b + (j - 1) \in v
    BY <1>1, <1>3, InShr
  <2>2. before \in SUBSET Int
    BY <2>1
  <2>3. wx \in SUBSET Int /\ \A i : i \in wx <=> i \in 0 .. 31 /\ (i - 1 \in v \/ (i = 0 /\ x))
    <3>1. v \in SUBSET (0 .. 31)
      BY <1>1
    <3>. QED
      BY <3>1, InWithX
  <2>. HIDE DEF before, wx
  <2>4. \A b : b \in hival <=> b \in 0 .. 31 /\ b - (S - j) \in wx
    BY <1>1, <1>3, <2>3, InShl
  <2>5. \A b : b \in Shr(before, 1) <=> b \in Nat /\ b + 1 \in before
    BY <2>2, InShr
  <2>. HIDE DEF hival
  <2>6. ASSUME NEW b \in 0 .. S - 1 PROVE b \in w <=> At(k, S, v, x, n, b)
    <3>1. b \in 0 .. 31 /\ b \in Nat /\ b \in Mask(S) /\ b + 1 \in Nat
      BY <1>1 DEF Mask
    <3>2. b \in Shr(before, 1) <=> b + j \in v
      <4>1. (b + 1) + (j - 1) = b + j
        BY <1>3
      <4>. QED
        BY <2>1, <2>5, <3>1, <4>1
    <3>3. b \in hival <=> b - (S - j) \in 0 .. 31 /\ ((b - (S - j)) - 1 \in v \/ (b - (S - j) = 0 /\ x))
      BY <2>3, <2>4, <3>1
    <3>4. CASE b + j < S
      <4>1. (b + n) % (S + 1) = b + j /\ b + j # S
        BY <1>1, <1>3, <1>8, <3>4
      <4>2. b - (S - j) \notin 0 .. 31
        BY <1>1, <1>3, <3>4
      <4>. QED
        BY <1>5, <3>1, <3>2, <3>3, <4>1, <4>2
    <3>5. CASE b + j = S
      <4>1. (b + n) % (S + 1) = S
        BY <1>1, <1>3, <1>8, <3>5
      <4>2. b - (S - j) = 0 /\ (b - (S - j)) - 1 \notin v /\ b - (S - j) \in 0 .. 31 /\ b + j \notin v
        BY <1>1, <1>3, <3>5
      <4>. QED
        BY <1>5, <3>1, <3>2, <3>3, <4>1, <4>2
    <3>6. CASE b + j > S
      <4>1. /\ (b + n) % (S + 1) = (b - (S - j)) - 1 /\ (b - (S - j)) - 1 # S
            /\ b - (S - j) # 0 /\ b - (S - j) \in 0 .. 31 /\ b + j \notin v
        BY <1>1, <1>3, <1>8, <3>6
      <4>. QED
        BY <1>5, <3>1, <3>2, <3>3, <4>1
    <3>7. b + j < S \/ b + j = S \/ b + j > S
      BY <1>1, <1>3
    <3>. QED
      BY <3>4, <3>5, <3>6, <3>7
  <2>7. w \subseteq 0 .. S - 1
    BY DEF Mask
  <2>8. CarryOf(k, S, v, x, n) <=> c
    <3>1. (S + n) % (S + 1) = j - 1 /\ j - 1 # S
      BY <1>1, <1>3, <1>8, <1>10
    <3>2. 0 + (j - 1) = j - 1
      BY <1>1, <1>3
    <3>. QED
      BY <1>5, <1>6, <2>1, <3>1, <3>2
  <2>9. c \in BOOLEAN
    OBVIOUS
  <2>. HIDE DEF w, c
  <2>10. Moved(k, S, v, x, n) = w
    BY <2>6, <2>7, InMoved
  <2>11. CarryOf(k, S, v, x, n) = c
    BY <1>7, <2>8, <2>9, SameTruth
  <2>. QED
    BY <1>4, <1>7, <1>10, <2>10, <2>11
<1>11. j = 0 \/ j > 0
  BY <1>3
<1>. QED
  BY <1>9, <1>10, <1>11

-----------------------------------------------------------------------------
(* Shifted once more.                                                       *)

\* Going all the way around changes nothing.
LEMMA AllTheWay ==
  ASSUME NEW m \in {8, 9, 16, 17, 32, 33}, NEW a \in Int
  PROVE  (a + m) % m = a % m /\ (a - m) % m = a % m
<1>1. CASE m = 8
  BY <1>1
<1>2. CASE m = 9
  BY <1>2
<1>3. CASE m = 16
  BY <1>3
<1>4. CASE m = 17
  BY <1>4
<1>5. CASE m = 32
  BY <1>5
<1>6. CASE m = 33
  BY <1>6
<1>. QED
  BY <1>1, <1>2, <1>3, <1>4, <1>5, <1>6

\* What the shift by one makes of the bits below and above.
LEMMA UpAndDown ==
  ASSUME NEW S \in ShiftSizes, NEW u \in SUBSET (0 .. S - 1)
  PROVE  /\ \A b : b \in Shl(u, 1) \cap Mask(S) <=> b \in 0 .. S - 1 /\ b - 1 \in u
         /\ \A b : b \in Shr(u, 1) <=> b \in 0 .. S - 1 /\ b + 1 \in u
<1>1. u \in SUBSET Int /\ S \in Nat /\ S >= 8 /\ S <= 32 /\ \A b \in u : 0 <= b /\ b < S
  BY BitsAre
<1>2. \A b : b \in Shl(u, 1) <=> b \in 0 .. 31 /\ b - 1 \in u
  BY <1>1, InShl
<1>3. \A b : b \in Shr(u, 1) <=> b \in Nat /\ b + 1 \in u
  BY <1>1, InShr
<1>4. \A b \in 0 .. S - 1 : b \in 0 .. 31
  BY <1>1
<1>5. \A b \in Nat : b + 1 \in u => b \in 0 .. S - 1
  BY <1>1
<1>6. \A b \in 0 .. S - 1 : b \in Nat
  BY <1>1
<1>. QED
  BY <1>2, <1>3, <1>4, <1>5, <1>6 DEF Mask

LEMMA MovedAre ==
  ASSUME NEW S \in ShiftSizes, NEW k, NEW v, NEW x, NEW n
  PROVE  Moved(k, S, v, x, n) \in SUBSET (0 .. S - 1)
BY DEF Moved

\* The three that take in a zero.
Lefts == {"ASL", "LSL"}

LEMMA LeftAgain ==
  ASSUME NEW S \in ShiftSizes, NEW v \in SUBSET (0 .. S - 1), NEW x,
         NEW n \in Befores, NEW k \in Lefts, NEW i, i = n + 1
  PROVE  Moved(k, S, v, x, i) = Shl(Moved(k, S, v, x, n), 1) \cap Mask(S)
<1>. USE DEF Befores, Counts
<1>. DEFINE u == Moved(k, S, v, x, n)
<1>1. S \in Nat /\ S >= 8 /\ S <= 32 /\ \A b \in v : 0 <= b /\ b < S
  BY BitsAre
<1>2. \A b : b \in u <=> b \in 0 .. S - 1 /\ At(k, S, v, x, n, b)
  BY InMoved
<1>3. \A b : b \in Moved(k, S, v, x, n + 1) <=> b \in 0 .. S - 1 /\ At(k, S, v, x, n + 1, b)
  BY InMoved
<1>4. u \in SUBSET (0 .. S - 1)
  BY MovedAre
<1>. HIDE DEF u
<1>5. \A b : b \in Shl(u, 1) \cap Mask(S) <=> b \in 0 .. S - 1 /\ b - 1 \in u
  BY <1>4, UpAndDown
<1>6. ASSUME NEW b \in 0 .. S - 1 PROVE At(k, S, v, x, n + 1, b) <=> b - 1 \in u
  <2>1. At(k, S, v, x, n + 1, b) <=> At(k, S, v, x, n, b - 1)
    <3>1. b - (n + 1) = (b - 1) - n
      BY <1>1
    <3>. QED
      BY <3>1 DEF At, Lefts
  <2>2. CASE b = 0
    <3>1. (b - 1) - n \notin v /\ b - 1 \notin 0 .. S - 1
      BY <1>1, <2>2
    <3>2. ~At(k, S, v, x, n, b - 1)
      BY <3>1 DEF At, Lefts
    <3>. QED
      BY <1>2, <2>1, <3>1, <3>2
  <2>3. CASE b # 0
    <3>1. b - 1 \in 0 .. S - 1
      BY <1>1, <2>3
    <3>. QED
      BY <1>2, <2>1, <3>1
  <2>. QED
    BY <2>2, <2>3
<1>7. Moved(k, S, v, x, n + 1) = Shl(u, 1) \cap Mask(S)
  BY <1>3, <1>5, <1>6
<1>. QED
  BY <1>7 DEF u

LEMMA LeftCarries ==
  ASSUME NEW S \in ShiftSizes, NEW v \in SUBSET (0 .. S - 1), NEW x, x \in BOOLEAN,
         NEW n \in Befores, NEW k \in Lefts
  PROVE  CarryOf(k, S, v, x, n + 1) = (S - 1 \in Moved(k, S, v, x, n))
<1>. USE DEF Befores, Counts
<1>1. S - 1 \in 0 .. S - 1 /\ S - (n + 1) = (S - 1) - n
  BY BitsAre
<1>2. CarryOf(k, S, v, x, n + 1) <=> At(k, S, v, x, n + 1, S)
  BY DEF CarryOf, Lefts
<1>3. At(k, S, v, x, n + 1, S) <=> At(k, S, v, x, n, S - 1)
  BY <1>1 DEF At, Lefts
<1>4. S - 1 \in Moved(k, S, v, x, n) <=> At(k, S, v, x, n, S - 1)
  BY <1>1, InMoved
<1>5. CarryOf(k, S, v, x, n + 1) \in BOOLEAN
  BY Booleans DEF Kinds, Lefts
<1>. QED
  BY <1>2, <1>3, <1>4, <1>5

LEMMA AslAgain ==
  ASSUME NEW S \in ShiftSizes, NEW v \in SUBSET (0 .. S - 1), NEW x, x \in BOOLEAN,
         NEW n \in Befores, NEW g
  PROVE  LET k == "ASL"
             u == Moved(k, S, v, x, n)
             m == Moved(k, S, v, x, n + 1)
         IN MemoryShift(k, S, u, g) =
              Shifted(S, m, XOf(k, S, v, x, n + 1), (S - 1 \in m) # (S - 1 \in u),
                      CarryOf(k, S, v, x, n + 1))
<1>. DEFINE k == "ASL"
            u == Moved(k, S, v, x, n)
            m == Moved(k, S, v, x, n + 1)
            up == Shl(u, 1) \cap Mask(S)
            top == S - 1 \in u
<1>1. MemoryShift(k, S, u, g) = Shifted(S, up, top, (S - 1 \in up) # top, top)
  BY DEF MemoryShift
<1>2. m = up /\ CarryOf(k, S, v, x, n + 1) = top /\ XOf(k, S, v, x, n + 1) = top
  <2>1. k \in Lefts
    BY DEF Lefts
  <2>2. m = up
    BY <2>1, LeftAgain
  <2>3. CarryOf(k, S, v, x, n + 1) = top
    BY <2>1, LeftCarries
  <2>4. XOf(k, S, v, x, n + 1) = CarryOf(k, S, v, x, n + 1)
    BY DEF XOf, Befores
  <2>. QED
    BY <2>2, <2>3, <2>4
<1>. HIDE DEF u, m, up
<1>. QED
  BY <1>1, <1>2 DEF u, m

LEMMA LslAgain ==
  ASSUME NEW S \in ShiftSizes, NEW v \in SUBSET (0 .. S - 1), NEW x, x \in BOOLEAN,
         NEW n \in Befores, NEW g
  PROVE  LET k == "LSL"
             u == Moved(k, S, v, x, n)
         IN MemoryShift(k, S, u, g) =
              Shifted(S, Moved(k, S, v, x, n + 1), XOf(k, S, v, x, n + 1), FALSE,
                      CarryOf(k, S, v, x, n + 1))
<1>. DEFINE k == "LSL"
            u == Moved(k, S, v, x, n)
            m == Moved(k, S, v, x, n + 1)
            up == Shl(u, 1) \cap Mask(S)
            top == S - 1 \in u
<1>1. MemoryShift(k, S, u, g) = Shifted(S, up, top, FALSE, top)
  BY DEF MemoryShift
<1>2. m = up /\ CarryOf(k, S, v, x, n + 1) = top /\ XOf(k, S, v, x, n + 1) = top
  <2>1. k \in Lefts
    BY DEF Lefts
  <2>2. m = up
    BY <2>1, LeftAgain
  <2>3. CarryOf(k, S, v, x, n + 1) = top
    BY <2>1, LeftCarries
  <2>4. XOf(k, S, v, x, n + 1) = CarryOf(k, S, v, x, n + 1)
    BY DEF XOf, Befores
  <2>. QED
    BY <2>2, <2>3, <2>4
<1>. HIDE DEF u, m, up
<1>. QED
  BY <1>1, <1>2 DEF u, m

LEMMA LsrAgain ==
  ASSUME NEW S \in ShiftSizes, NEW v \in SUBSET (0 .. S - 1), NEW x, x \in BOOLEAN,
         NEW n \in Befores, NEW g
  PROVE  LET k == "LSR"
             u == Moved(k, S, v, x, n)
         IN MemoryShift(k, S, u, g) =
              Shifted(S, Moved(k, S, v, x, n + 1), XOf(k, S, v, x, n + 1), FALSE,
                      CarryOf(k, S, v, x, n + 1))
<1>. USE DEF Befores, Counts
<1>. DEFINE k == "LSR"
            u == Moved(k, S, v, x, n)
<1>0. MemoryShift(k, S, u, g) = Shifted(S, Shr(u, 1), 0 \in u, FALSE, 0 \in u)
  BY DEF MemoryShift
<1>1. S \in Nat /\ S >= 8 /\ S <= 32 /\ \A b \in v : 0 <= b /\ b < S
  BY BitsAre
<1>2. \A b : b \in u <=> b \in 0 .. S - 1 /\ At(k, S, v, x, n, b)
  BY InMoved
<1>3. \A b : b \in Moved(k, S, v, x, n + 1) <=> b \in 0 .. S - 1 /\ At(k, S, v, x, n + 1, b)
  BY InMoved
<1>4. u \in SUBSET (0 .. S - 1)
  BY MovedAre
<1>. HIDE DEF u
<1>5. \A b : b \in Shr(u, 1) <=> b \in 0 .. S - 1 /\ b + 1 \in u
  BY <1>4, UpAndDown
<1>6. ASSUME NEW b \in 0 .. S - 1 PROVE At(k, S, v, x, n + 1, b) <=> b + 1 \in u
  <2>1. At(k, S, v, x, n + 1, b) <=> At(k, S, v, x, n, b + 1)
    <3>1. b + (n + 1) = (b + 1) + n
      BY <1>1
    <3>. QED
      BY <3>1 DEF At
  <2>2. CASE b = S - 1
    <3>1. (b + 1) + n \notin v /\ b + 1 \notin 0 .. S - 1
      BY <1>1, <2>2
    <3>2. ~At(k, S, v, x, n, b + 1)
      BY <3>1 DEF At
    <3>. QED
      BY <1>2, <2>1, <3>1, <3>2
  <2>3. CASE b # S - 1
    <3>1. b + 1 \in 0 .. S - 1
      BY <1>1, <2>3
    <3>. QED
      BY <1>2, <2>1, <3>1
  <2>. QED
    BY <2>2, <2>3
<1>7. Moved(k, S, v, x, n + 1) = Shr(u, 1)
  BY <1>3, <1>5, <1>6
<1>8. CarryOf(k, S, v, x, n + 1) = (0 \in u)
  <2>1. CarryOf(k, S, v, x, n + 1) <=> At(k, S, v, x, n, 0)
    <3>1. (n + 1) - 1 = n
      OBVIOUS
    <3>. QED
      BY <3>1 DEF CarryOf
  <2>2. 0 \in 0 .. S - 1
    BY <1>1
  <2>3. CarryOf(k, S, v, x, n + 1) \in BOOLEAN
    BY Booleans DEF Kinds
  <2>. QED
    BY <1>2, <2>1, <2>2, <2>3
<1>9. XOf(k, S, v, x, n + 1) = CarryOf(k, S, v, x, n + 1)
  BY DEF XOf
<1>. QED
  BY <1>0, <1>7, <1>8, <1>9 DEF u

LEMMA AsrAgain ==
  ASSUME NEW S \in ShiftSizes, NEW v \in SUBSET (0 .. S - 1), NEW x, x \in BOOLEAN,
         NEW n \in Befores, NEW g
  PROVE  LET k == "ASR"
             u == Moved(k, S, v, x, n)
         IN MemoryShift(k, S, u, g) =
              Shifted(S, Moved(k, S, v, x, n + 1), XOf(k, S, v, x, n + 1), FALSE,
                      CarryOf(k, S, v, x, n + 1))
<1>. USE DEF Befores, Counts
<1>. DEFINE k == "ASR"
            u == Moved(k, S, v, x, n)
            sign == S - 1 \in v
<1>0. MemoryShift(k, S, u, g) = Shifted(S, Shr(u, 1) \cup (u \cap {S - 1}), 0 \in u, FALSE, 0 \in u)
  BY DEF MemoryShift
<1>1. S \in Nat /\ S >= 8 /\ S <= 32 /\ \A b \in v : 0 <= b /\ b < S
  BY BitsAre
<1>2. \A b : b \in u <=> b \in 0 .. S - 1 /\ At(k, S, v, x, n, b)
  BY InMoved
<1>3. \A b : b \in Moved(k, S, v, x, n + 1) <=> b \in 0 .. S - 1 /\ At(k, S, v, x, n + 1, b)
  BY InMoved
<1>4. u \in SUBSET (0 .. S - 1)
  BY MovedAre
<1>5. \A b : At(k, S, v, x, n, b) <=> IF b + n < S THEN b + n \in v ELSE sign
  BY DEF At
<1>6. \A b : At(k, S, v, x, n + 1, b) <=> IF b + (n + 1) < S THEN b + (n + 1) \in v ELSE sign
  BY DEF At
<1>. HIDE DEF u
<1>7. \A b : b \in Shr(u, 1) <=> b \in 0 .. S - 1 /\ b + 1 \in u
  BY <1>4, UpAndDown
<1>8. S - 1 \in u <=> sign
  <2>1. S - 1 \in 0 .. S - 1 /\ (S - 1 + n < S => S - 1 + n = S - 1)
    BY <1>1
  <2>2. S - 1 \in u <=> At(k, S, v, x, n, S - 1)
    BY <1>2, <2>1
  <2>3. At(k, S, v, x, n, S - 1) <=> sign
    BY <1>5, <2>1
  <2>. QED
    BY <2>2, <2>3
<1>9. ASSUME NEW b \in 0 .. S - 1
      PROVE  At(k, S, v, x, n + 1, b) <=> b + 1 \in u \/ b \in u \cap {S - 1}
  <2>1. CASE b = S - 1
    <3>1. b + 1 \notin u /\ ~(b + (n + 1) < S)
      BY <1>1, <1>4, <2>1
    <3>. QED
      BY <1>6, <1>8, <2>1, <3>1
  <2>2. CASE b # S - 1
    <3>1. b + 1 \in 0 .. S - 1 /\ (b + 1) + n = b + (n + 1)
      BY <1>1, <2>2
    <3>2. b + 1 \in u <=> At(k, S, v, x, n, b + 1)
      BY <1>2, <3>1
    <3>3. At(k, S, v, x, n, b + 1) <=> At(k, S, v, x, n + 1, b)
      BY <1>5, <1>6, <3>1
    <3>. QED
      BY <2>2, <3>2, <3>3
  <2>. QED
    BY <2>1, <2>2
<1>10. Moved(k, S, v, x, n + 1) = Shr(u, 1) \cup (u \cap {S - 1})
  <2>1. S - 1 \in 0 .. S - 1
    BY <1>1
  <2>. QED
    BY <1>3, <1>7, <1>9, <2>1
<1>11. CarryOf(k, S, v, x, n + 1) = (0 \in u)
  <2>1. CarryOf(k, S, v, x, n + 1) <=> At(k, S, v, x, n, 0)
    <3>1. (n + 1) - 1 = n
      OBVIOUS
    <3>. QED
      BY <3>1 DEF CarryOf
  <2>2. 0 \in 0 .. S - 1
    BY <1>1
  <2>3. CarryOf(k, S, v, x, n + 1) \in BOOLEAN
    BY Booleans DEF Kinds
  <2>. QED
    BY <1>2, <2>1, <2>2, <2>3
<1>12. XOf(k, S, v, x, n + 1) = CarryOf(k, S, v, x, n + 1)
  BY DEF XOf
<1>. QED
  BY <1>0, <1>10, <1>11, <1>12 DEF u

\* The four that take in a bit they have moved out.
LEMMA RolAgain ==
  ASSUME NEW S \in ShiftSizes, NEW v \in SUBSET (0 .. S - 1), NEW x, x \in BOOLEAN,
         NEW n \in Befores, NEW g, "X" \in g <=> x
  PROVE  LET k == "ROL"
             u == Moved(k, S, v, x, n)
         IN MemoryShift(k, S, u, g) =
              Shifted(S, Moved(k, S, v, x, n + 1), XOf(k, S, v, x, n + 1), FALSE,
                      CarryOf(k, S, v, x, n + 1))
<1>. USE DEF Befores, Counts
<1>. DEFINE k == "ROL"
            u == Moved(k, S, v, x, n)
            up == Shl(u, 1) \cap Mask(S)
            w == IF S - 1 \in u THEN up \cup {0} ELSE up
<1>0. MemoryShift(k, S, u, g) = Shifted(S, w, x, FALSE, S - 1 \in u)
  BY DEF MemoryShift
<1>1. S \in Nat /\ S >= 8 /\ S <= 32 /\ \A b \in v : 0 <= b /\ b < S
  BY BitsAre
<1>2. \A b : b \in u <=> b \in 0 .. S - 1 /\ At(k, S, v, x, n, b)
  BY InMoved
<1>3. \A b : b \in Moved(k, S, v, x, n + 1) <=> b \in 0 .. S - 1 /\ At(k, S, v, x, n + 1, b)
  BY InMoved
<1>4. u \in SUBSET (0 .. S - 1)
  BY MovedAre
<1>5. \A b : At(k, S, v, x, n, b) <=> (b - n) % S \in v
  BY DEF At
<1>6. \A b : At(k, S, v, x, n + 1, b) <=> (b - (n + 1)) % S \in v
  BY DEF At
<1>. HIDE DEF u
<1>7. \A b : b \in up <=> b \in 0 .. S - 1 /\ b - 1 \in u
  BY <1>4, UpAndDown
<1>. HIDE DEF up
<1>8. S - 1 \in 0 .. S - 1 /\ 0 \in 0 .. S - 1 /\ 0 - 1 \notin u
  BY <1>1, <1>4
<1>9. At(k, S, v, x, n + 1, 0) <=> S - 1 \in u
  <2>1. S \in {8, 9, 16, 17, 32, 33} /\ 0 - (n + 1) \in Int
    BY DEF ShiftSizes
  <2>2. (0 - (n + 1) + S) % S = (0 - (n + 1)) % S
    BY <2>1, AllTheWay
  <2>3. 0 - (n + 1) + S = (S - 1) - n
    BY <1>1
  <2>4. S - 1 \in u <=> At(k, S, v, x, n, S - 1)
    BY <1>2, <1>8
  <2>. QED
    BY <1>5, <1>6, <2>2, <2>3, <2>4
<1>10. ASSUME NEW b \in 1 .. S - 1 PROVE At(k, S, v, x, n + 1, b) <=> b - 1 \in u
  <2>1. b - 1 \in 0 .. S - 1 /\ b - (n + 1) = (b - 1) - n
    BY <1>1
  <2>2. b - 1 \in u <=> At(k, S, v, x, n, b - 1)
    BY <1>2, <2>1
  <2>. QED
    BY <1>5, <1>6, <2>1, <2>2
<1>11. \A b : b \in w <=> b \in 0 .. S - 1 /\ (b - 1 \in u \/ (b = 0 /\ S - 1 \in u))
  <2>1. CASE S - 1 \in u
    <3>1. w = up \cup {0}
      BY <2>1
    <3>. HIDE DEF w
    <3>. QED
      BY <1>7, <1>8, <2>1, <3>1
  <2>2. CASE S - 1 \notin u
    <3>1. w = up
      BY <2>2
    <3>. HIDE DEF w
    <3>. QED
      BY <1>7, <2>2, <3>1
  <2>. QED
    BY <2>1, <2>2
<1>. HIDE DEF w
<1>12. Moved(k, S, v, x, n + 1) = w
  <2>1. ASSUME NEW b \in 0 .. S - 1 PROVE At(k, S, v, x, n + 1, b) <=> b \in w
    <3>1. CASE b = 0
      <4>1. b \in w <=> S - 1 \in u
        BY <1>8, <1>11, <3>1
      <4>. QED
        BY <1>9, <3>1, <4>1
    <3>2. CASE b # 0
      <4>1. b \in 1 .. S - 1
        BY <1>1, <3>2
      <4>2. b \in w <=> b - 1 \in u
        BY <1>11, <3>2
      <4>. QED
        BY <1>10, <4>1, <4>2
    <3>. QED
      BY <3>1, <3>2
  <2>2. \A b \in w : b \in 0 .. S - 1
    BY <1>11
  <2>. QED
    BY <1>3, <2>1, <2>2
<1>13. CarryOf(k, S, v, x, n + 1) = (S - 1 \in u)
  <2>1. CarryOf(k, S, v, x, n + 1) <=> At(k, S, v, x, n + 1, 0)
    BY DEF CarryOf
  <2>2. CarryOf(k, S, v, x, n + 1) \in BOOLEAN
    BY Booleans DEF Kinds
  <2>. QED
    BY <1>9, <2>1, <2>2
<1>14. XOf(k, S, v, x, n + 1) = x
  BY DEF XOf
<1>. QED
  BY <1>0, <1>12, <1>13, <1>14 DEF u

LEMMA RorAgain ==
  ASSUME NEW S \in ShiftSizes, NEW v \in SUBSET (0 .. S - 1), NEW x, x \in BOOLEAN,
         NEW n \in Befores, NEW g, "X" \in g <=> x
  PROVE  LET k == "ROR"
             u == Moved(k, S, v, x, n)
         IN MemoryShift(k, S, u, g) =
              Shifted(S, Moved(k, S, v, x, n + 1), XOf(k, S, v, x, n + 1), FALSE,
                      CarryOf(k, S, v, x, n + 1))
<1>. USE DEF Befores, Counts
<1>. DEFINE k == "ROR"
            u == Moved(k, S, v, x, n)
            down == Shr(u, 1)
            w == IF 0 \in u THEN down \cup {S - 1} ELSE down
<1>0. MemoryShift(k, S, u, g) = Shifted(S, w, x, FALSE, 0 \in u)
  BY DEF MemoryShift
<1>1. S \in Nat /\ S >= 8 /\ S <= 32 /\ \A b \in v : 0 <= b /\ b < S
  BY BitsAre
<1>2. \A b : b \in u <=> b \in 0 .. S - 1 /\ At(k, S, v, x, n, b)
  BY InMoved
<1>3. \A b : b \in Moved(k, S, v, x, n + 1) <=> b \in 0 .. S - 1 /\ At(k, S, v, x, n + 1, b)
  BY InMoved
<1>4. u \in SUBSET (0 .. S - 1)
  BY MovedAre
<1>5. \A b : At(k, S, v, x, n, b) <=> (b + n) % S \in v
  BY DEF At
<1>6. \A b : At(k, S, v, x, n + 1, b) <=> (b + (n + 1)) % S \in v
  BY DEF At
<1>. HIDE DEF u
<1>7. \A b : b \in down <=> b \in 0 .. S - 1 /\ b + 1 \in u
  BY <1>4, UpAndDown
<1>. HIDE DEF down
<1>8. S - 1 \in 0 .. S - 1 /\ 0 \in 0 .. S - 1 /\ (S - 1) + 1 \notin u
  BY <1>1, <1>4
<1>9. At(k, S, v, x, n + 1, S - 1) <=> 0 \in u
  <2>1. S \in {8, 9, 16, 17, 32, 33} /\ 0 + n \in Int
    BY DEF ShiftSizes
  <2>2. ((0 + n) + S) % S = (0 + n) % S
    BY <2>1, AllTheWay
  <2>3. (0 + n) + S = (S - 1) + (n + 1)
    BY <1>1
  <2>4. 0 \in u <=> At(k, S, v, x, n, 0)
    BY <1>2, <1>8
  <2>. QED
    BY <1>5, <1>6, <2>2, <2>3, <2>4
<1>10. ASSUME NEW b \in 0 .. S - 2 PROVE At(k, S, v, x, n + 1, b) <=> b + 1 \in u
  <2>1. b + 1 \in 0 .. S - 1 /\ b + (n + 1) = (b + 1) + n
    BY <1>1
  <2>2. b + 1 \in u <=> At(k, S, v, x, n, b + 1)
    BY <1>2, <2>1
  <2>. QED
    BY <1>5, <1>6, <2>1, <2>2
<1>11. \A b : b \in w <=> b \in 0 .. S - 1 /\ (b + 1 \in u \/ (b = S - 1 /\ 0 \in u))
  <2>1. CASE 0 \in u
    <3>1. w = down \cup {S - 1}
      BY <2>1
    <3>. HIDE DEF w
    <3>. QED
      BY <1>7, <1>8, <2>1, <3>1
  <2>2. CASE 0 \notin u
    <3>1. w = down
      BY <2>2
    <3>. HIDE DEF w
    <3>. QED
      BY <1>7, <2>2, <3>1
  <2>. QED
    BY <2>1, <2>2
<1>. HIDE DEF w
<1>12. Moved(k, S, v, x, n + 1) = w
  <2>1. ASSUME NEW b \in 0 .. S - 1 PROVE At(k, S, v, x, n + 1, b) <=> b \in w
    <3>1. CASE b = S - 1
      <4>1. b \in w <=> 0 \in u
        BY <1>8, <1>11, <3>1
      <4>. QED
        BY <1>9, <3>1, <4>1
    <3>2. CASE b # S - 1
      <4>1. b \in 0 .. S - 2
        BY <1>1, <3>2
      <4>2. b \in w <=> b + 1 \in u
        BY <1>11, <3>2
      <4>. QED
        BY <1>10, <4>1, <4>2
    <3>. QED
      BY <3>1, <3>2
  <2>2. \A b \in w : b \in 0 .. S - 1
    BY <1>11
  <2>. QED
    BY <1>3, <2>1, <2>2
<1>13. CarryOf(k, S, v, x, n + 1) = (0 \in u)
  <2>1. CarryOf(k, S, v, x, n + 1) <=> At(k, S, v, x, n + 1, S - 1)
    BY DEF CarryOf
  <2>2. CarryOf(k, S, v, x, n + 1) \in BOOLEAN
    BY Booleans DEF Kinds
  <2>. QED
    BY <1>9, <2>1, <2>2
<1>14. XOf(k, S, v, x, n + 1) = x
  BY DEF XOf
<1>. QED
  BY <1>0, <1>12, <1>13, <1>14 DEF u

LEMMA RoxlAgain ==
  ASSUME NEW S \in ShiftSizes, NEW v \in SUBSET (0 .. S - 1), NEW x, x \in BOOLEAN,
         NEW n \in Befores, NEW g, "X" \in g <=> XOf("ROXL", S, v, x, n)
  PROVE  LET k == "ROXL"
             u == Moved(k, S, v, x, n)
         IN MemoryShift(k, S, u, g) =
              Shifted(S, Moved(k, S, v, x, n + 1), XOf(k, S, v, x, n + 1), FALSE,
                      CarryOf(k, S, v, x, n + 1))
<1>. USE DEF Befores, Counts
<1>. DEFINE k == "ROXL"
            u == Moved(k, S, v, x, n)
            up == Shl(u, 1) \cap Mask(S)
            y == XOf(k, S, v, x, n)
            w == IF y THEN up \cup {0} ELSE up
            Source(i) == IF i = S THEN x ELSE i \in v
<1>0. MemoryShift(k, S, u, g) = Shifted(S, w, S - 1 \in u, FALSE, S - 1 \in u)
  BY DEF MemoryShift
<1>1. S \in Nat /\ S >= 8 /\ S <= 32 /\ \A b \in v : 0 <= b /\ b < S
  BY BitsAre
<1>2. \A b : b \in u <=> b \in 0 .. S - 1 /\ At(k, S, v, x, n, b)
  BY InMoved
<1>3. \A b : b \in Moved(k, S, v, x, n + 1) <=> b \in 0 .. S - 1 /\ At(k, S, v, x, n + 1, b)
  BY InMoved
<1>4. u \in SUBSET (0 .. S - 1)
  BY MovedAre
<1>5. \A b : At(k, S, v, x, n, b) <=> Source((b - n) % (S + 1))
  BY DEF At
<1>6. \A b : At(k, S, v, x, n + 1, b) <=> Source((b - (n + 1)) % (S + 1))
  BY DEF At
<1>. HIDE DEF u
<1>7. \A b : b \in up <=> b \in 0 .. S - 1 /\ b - 1 \in u
  BY <1>4, UpAndDown
<1>. HIDE DEF up
<1>8. S - 1 \in 0 .. S - 1 /\ 0 \in 0 .. S - 1 /\ 0 - 1 \notin u
  BY <1>1, <1>4
<1>15. S + 1 \in {8, 9, 16, 17, 32, 33}
  BY DEF ShiftSizes
<1>16. (y <=> Source((S - n) % (S + 1))) /\ y \in BOOLEAN
  <2>1. CASE n = 0
    <3>1. (S - n) % (S + 1) = S
      BY <1>1, <2>1
    <3>2. y = x
      BY <2>1 DEF XOf
    <3>. QED
      BY <3>1, <3>2
  <2>2. CASE n # 0
    <3>1. y = CarryOf(k, S, v, x, n)
      BY <2>2 DEF XOf
    <3>2. CarryOf(k, S, v, x, n) <=> At(k, S, v, x, n, S)
      BY DEF CarryOf
    <3>3. CarryOf(k, S, v, x, n) \in BOOLEAN
      BY Booleans DEF Kinds
    <3>. HIDE DEF y, Source
    <3>. QED
      BY <1>5, <3>1, <3>2, <3>3
  <2>. QED
    BY <2>1, <2>2
<1>. HIDE DEF Source, y
<1>9. At(k, S, v, x, n + 1, 0) <=> y
  <2>1. 0 - (n + 1) \in Int
    OBVIOUS
  <2>2. (0 - (n + 1) + (S + 1)) % (S + 1) = (0 - (n + 1)) % (S + 1)
    BY <1>15, <2>1, AllTheWay
  <2>3. 0 - (n + 1) + (S + 1) = S - n
    BY <1>1
  <2>. QED
    BY <1>6, <1>16, <2>2, <2>3
<1>10. ASSUME NEW b \in 1 .. S - 1 PROVE At(k, S, v, x, n + 1, b) <=> b - 1 \in u
  <2>1. b - 1 \in 0 .. S - 1 /\ b - (n + 1) = (b - 1) - n
    BY <1>1
  <2>2. b - 1 \in u <=> At(k, S, v, x, n, b - 1)
    BY <1>2, <2>1
  <2>. QED
    BY <1>5, <1>6, <2>1, <2>2
<1>11. \A b : b \in w <=> b \in 0 .. S - 1 /\ (b - 1 \in u \/ (b = 0 /\ y))
  <2>1. CASE y
    <3>1. w = up \cup {0}
      BY <2>1
    <3>. HIDE DEF w
    <3>. QED
      BY <1>7, <1>8, <2>1, <3>1
  <2>2. CASE ~y
    <3>1. w = up
      BY <2>2
    <3>. HIDE DEF w
    <3>. QED
      BY <1>7, <2>2, <3>1
  <2>. QED
    BY <2>1, <2>2
<1>. HIDE DEF w
<1>12. Moved(k, S, v, x, n + 1) = w
  <2>1. ASSUME NEW b \in 0 .. S - 1 PROVE At(k, S, v, x, n + 1, b) <=> b \in w
    <3>1. CASE b = 0
      <4>1. b \in w <=> y
        BY <1>8, <1>11, <3>1
      <4>. QED
        BY <1>9, <3>1, <4>1
    <3>2. CASE b # 0
      <4>1. b \in 1 .. S - 1
        BY <1>1, <3>2
      <4>2. b \in w <=> b - 1 \in u
        BY <1>11, <3>2
      <4>. QED
        BY <1>10, <4>1, <4>2
    <3>. QED
      BY <3>1, <3>2
  <2>2. \A b \in w : b \in 0 .. S - 1
    BY <1>11
  <2>. QED
    BY <1>3, <2>1, <2>2
<1>13. CarryOf(k, S, v, x, n + 1) = (S - 1 \in u)
  <2>1. CarryOf(k, S, v, x, n + 1) <=> At(k, S, v, x, n + 1, S)
    BY DEF CarryOf
  <2>2. CarryOf(k, S, v, x, n + 1) \in BOOLEAN
    BY Booleans DEF Kinds
  <2>3. S - (n + 1) = (S - 1) - n
    BY <1>1
  <2>4. S - 1 \in u <=> At(k, S, v, x, n, S - 1)
    BY <1>2, <1>8
  <2>5. At(k, S, v, x, n + 1, S) <=> S - 1 \in u
    BY <1>5, <1>6, <2>3, <2>4
  <2>. QED
    BY <2>1, <2>2, <2>5
<1>14. XOf(k, S, v, x, n + 1) = CarryOf(k, S, v, x, n + 1)
  BY DEF XOf
<1>. QED
  BY <1>0, <1>12, <1>13, <1>14 DEF u

LEMMA RoxrAgain ==
  ASSUME NEW S \in ShiftSizes, NEW v \in SUBSET (0 .. S - 1), NEW x, x \in BOOLEAN,
         NEW n \in Befores, NEW g, "X" \in g <=> XOf("ROXR", S, v, x, n)
  PROVE  LET k == "ROXR"
             u == Moved(k, S, v, x, n)
         IN MemoryShift(k, S, u, g) =
              Shifted(S, Moved(k, S, v, x, n + 1), XOf(k, S, v, x, n + 1), FALSE,
                      CarryOf(k, S, v, x, n + 1))
<1>. USE DEF Befores, Counts
<1>. DEFINE k == "ROXR"
            u == Moved(k, S, v, x, n)
            down == Shr(u, 1)
            y == XOf(k, S, v, x, n)
            w == IF y THEN down \cup {S - 1} ELSE down
            Source(i) == IF i = S THEN x ELSE i \in v
<1>0. MemoryShift(k, S, u, g) = Shifted(S, w, 0 \in u, FALSE, 0 \in u)
  BY DEF MemoryShift
<1>1. S \in Nat /\ S >= 8 /\ S <= 32 /\ \A b \in v : 0 <= b /\ b < S
  BY BitsAre
<1>2. \A b : b \in u <=> b \in 0 .. S - 1 /\ At(k, S, v, x, n, b)
  BY InMoved
<1>3. \A b : b \in Moved(k, S, v, x, n + 1) <=> b \in 0 .. S - 1 /\ At(k, S, v, x, n + 1, b)
  BY InMoved
<1>4. u \in SUBSET (0 .. S - 1)
  BY MovedAre
<1>5. \A b : At(k, S, v, x, n, b) <=> Source((b + n) % (S + 1))
  BY DEF At
<1>6. \A b : At(k, S, v, x, n + 1, b) <=> Source((b + (n + 1)) % (S + 1))
  BY DEF At
<1>. HIDE DEF u
<1>7. \A b : b \in down <=> b \in 0 .. S - 1 /\ b + 1 \in u
  BY <1>4, UpAndDown
<1>. HIDE DEF down
<1>8. S - 1 \in 0 .. S - 1 /\ 0 \in 0 .. S - 1 /\ (S - 1) + 1 \notin u
  BY <1>1, <1>4
<1>15. S + 1 \in {8, 9, 16, 17, 32, 33}
  BY DEF ShiftSizes
<1>16. (y <=> Source((S + n) % (S + 1))) /\ y \in BOOLEAN
  <2>1. CASE n = 0
    <3>1. (S + n) % (S + 1) = S
      BY <1>1, <2>1
    <3>2. y = x
      BY <2>1 DEF XOf
    <3>. QED
      BY <3>1, <3>2
  <2>2. CASE n # 0
    <3>1. y = CarryOf(k, S, v, x, n)
      BY <2>2 DEF XOf
    <3>2. CarryOf(k, S, v, x, n) <=> At(k, S, v, x, n, S)
      BY DEF CarryOf
    <3>3. CarryOf(k, S, v, x, n) \in BOOLEAN
      BY Booleans DEF Kinds
    <3>. HIDE DEF y, Source
    <3>. QED
      BY <1>5, <3>1, <3>2, <3>3
  <2>. QED
    BY <2>1, <2>2
<1>. HIDE DEF Source, y
<1>9. At(k, S, v, x, n + 1, S - 1) <=> y
  <2>1. (S - 1) + (n + 1) = S + n
    BY <1>1
  <2>. QED
    BY <1>6, <1>16, <2>1
<1>10. ASSUME NEW b \in 0 .. S - 2 PROVE At(k, S, v, x, n + 1, b) <=> b + 1 \in u
  <2>1. b + 1 \in 0 .. S - 1 /\ b + (n + 1) = (b + 1) + n
    BY <1>1
  <2>2. b + 1 \in u <=> At(k, S, v, x, n, b + 1)
    BY <1>2, <2>1
  <2>. QED
    BY <1>5, <1>6, <2>1, <2>2
<1>11. \A b : b \in w <=> b \in 0 .. S - 1 /\ (b + 1 \in u \/ (b = S - 1 /\ y))
  <2>1. CASE y
    <3>1. w = down \cup {S - 1}
      BY <2>1
    <3>. HIDE DEF w
    <3>. QED
      BY <1>7, <1>8, <2>1, <3>1
  <2>2. CASE ~y
    <3>1. w = down
      BY <2>2
    <3>. HIDE DEF w
    <3>. QED
      BY <1>7, <2>2, <3>1
  <2>. QED
    BY <2>1, <2>2
<1>. HIDE DEF w
<1>12. Moved(k, S, v, x, n + 1) = w
  <2>1. ASSUME NEW b \in 0 .. S - 1 PROVE At(k, S, v, x, n + 1, b) <=> b \in w
    <3>1. CASE b = S - 1
      <4>1. b \in w <=> y
        BY <1>8, <1>11, <3>1
      <4>. QED
        BY <1>9, <3>1, <4>1
    <3>2. CASE b # S - 1
      <4>1. b \in 0 .. S - 2
        BY <1>1, <3>2
      <4>2. b \in w <=> b + 1 \in u
        BY <1>11, <3>2
      <4>. QED
        BY <1>10, <4>1, <4>2
    <3>. QED
      BY <3>1, <3>2
  <2>2. \A b \in w : b \in 0 .. S - 1
    BY <1>11
  <2>. QED
    BY <1>3, <2>1, <2>2
<1>13. CarryOf(k, S, v, x, n + 1) = (0 \in u)
  <2>1. CarryOf(k, S, v, x, n + 1) <=> At(k, S, v, x, n + 1, S)
    BY DEF CarryOf
  <2>2. CarryOf(k, S, v, x, n + 1) \in BOOLEAN
    BY Booleans DEF Kinds
  <2>3. (0 + n + (S + 1)) % (S + 1) = (0 + n) % (S + 1)
    <3>1. 0 + n \in Int
      OBVIOUS
    <3>. QED
      BY <1>15, <3>1, AllTheWay
  <2>4. S + (n + 1) = 0 + n + (S + 1)
    BY <1>1
  <2>5. 0 \in u <=> At(k, S, v, x, n, 0)
    BY <1>2, <1>8
  <2>6. At(k, S, v, x, n + 1, S) <=> 0 \in u
    BY <1>5, <1>6, <2>3, <2>4, <2>5
  <2>. QED
    BY <2>1, <2>2, <2>6
<1>14. XOf(k, S, v, x, n + 1) = CarryOf(k, S, v, x, n + 1)
  BY DEF XOf
<1>. QED
  BY <1>0, <1>12, <1>13, <1>14 DEF u

\* Shifting a value that has been moved by one moves it once more.
LEMMA OnceMore ==
  ASSUME NEW S \in ShiftSizes, NEW v \in SUBSET (0 .. S - 1), NEW x, x \in BOOLEAN,
         NEW n \in Befores, NEW k \in Kinds, NEW g, "X" \in g <=> XOf(k, S, v, x, n),
         NEW u, u = Moved(k, S, v, x, n), NEW m, m = Moved(k, S, v, x, n + 1),
         NEW t, t \in BOOLEAN, t <=> k = "ASL" /\ (S - 1 \in m) # (S - 1 \in u)
  PROVE  MemoryShift(k, S, u, g) =
           Shifted(S, m, XOf(k, S, v, x, n + 1), t, CarryOf(k, S, v, x, n + 1))
<1>0. k # "ASL" => t = FALSE
  OBVIOUS
<1>1. CASE k = "ASL"
  <2>. DEFINE d == (S - 1 \in m) # (S - 1 \in u)
  <2>1. MemoryShift("ASL", S, u, g) =
          Shifted(S, m, XOf("ASL", S, v, x, n + 1), d, CarryOf("ASL", S, v, x, n + 1))
    BY AslAgain, <1>1
  <2>2. t = d
    BY <1>1
  <2>. HIDE DEF d
  <2>. QED
    BY <1>1, <2>1, <2>2
<1>2. CASE k = "ASR"
  <2>1. MemoryShift("ASR", S, u, g) =
          Shifted(S, m, XOf("ASR", S, v, x, n + 1), FALSE, CarryOf("ASR", S, v, x, n + 1))
    BY <1>2, AsrAgain
  <2>. QED
    BY <1>0, <1>2, <2>1
<1>3. CASE k = "LSL"
  <2>1. MemoryShift("LSL", S, u, g) =
          Shifted(S, m, XOf("LSL", S, v, x, n + 1), FALSE, CarryOf("LSL", S, v, x, n + 1))
    BY <1>3, LslAgain
  <2>. QED
    BY <1>0, <1>3, <2>1
<1>4. CASE k = "LSR"
  <2>1. MemoryShift("LSR", S, u, g) =
          Shifted(S, m, XOf("LSR", S, v, x, n + 1), FALSE, CarryOf("LSR", S, v, x, n + 1))
    BY <1>4, LsrAgain
  <2>. QED
    BY <1>0, <1>4, <2>1
<1>5. CASE k = "ROL"
  <2>1. "X" \in g <=> x
    BY <1>5 DEF XOf
  <2>2. MemoryShift("ROL", S, u, g) =
          Shifted(S, m, XOf("ROL", S, v, x, n + 1), FALSE, CarryOf("ROL", S, v, x, n + 1))
    BY <1>5, <2>1, RolAgain
  <2>. QED
    BY <1>0, <1>5, <2>2
<1>6. CASE k = "ROR"
  <2>1. "X" \in g <=> x
    BY <1>6 DEF XOf
  <2>2. MemoryShift("ROR", S, u, g) =
          Shifted(S, m, XOf("ROR", S, v, x, n + 1), FALSE, CarryOf("ROR", S, v, x, n + 1))
    BY <1>6, <2>1, RorAgain
  <2>. QED
    BY <1>0, <1>6, <2>2
<1>7. CASE k = "ROXL"
  <2>1. MemoryShift("ROXL", S, u, g) =
          Shifted(S, m, XOf("ROXL", S, v, x, n + 1), FALSE, CarryOf("ROXL", S, v, x, n + 1))
    BY <1>7, RoxlAgain
  <2>. QED
    BY <1>0, <1>7, <2>1
<1>8. CASE k = "ROXR"
  <2>1. MemoryShift("ROXR", S, u, g) =
          Shifted(S, m, XOf("ROXR", S, v, x, n + 1), FALSE, CarryOf("ROXR", S, v, x, n + 1))
    BY <1>8, RoxrAgain
  <2>. QED
    BY <1>0, <1>8, <2>1
<1>. QED
  BY <1>1, <1>2, <1>3, <1>4, <1>5, <1>6, <1>7, <1>8 DEF Kinds

\* V of a shift by a count is V of one of the shifts by one.
LEMMA TurnsOnce ==
  ASSUME NEW S \in ShiftSizes, NEW v \in SUBSET (0 .. S - 1), NEW x, NEW n \in Befores
  PROVE  LET u == Moved("ASL", S, v, x, n)
             m == Moved("ASL", S, v, x, n + 1)
         IN TurnedOf("ASL", S, v, n + 1) <=>
              TurnedOf("ASL", S, v, n) \/ ((S - 1 \in m) # (S - 1 \in u))
<1>. USE DEF Befores, Counts
<1>. DEFINE u == Moved("ASL", S, v, x, n)
            m == Moved("ASL", S, v, x, n + 1)
            sign == S - 1 \in v
<1>1. S \in Nat /\ S >= 8 /\ S <= 32 /\ \A b \in v : 0 <= b /\ b < S
  BY BitsAre
<1>2. S - 1 \in 0 .. S - 1
  BY <1>1
<1>3. (S - 1 \in u <=> S - 1 - n \in v) /\ (S - 1 \in m <=> S - 1 - (n + 1) \in v)
  BY <1>2, InMoved DEF At
<1>4. Level(S, v, n) <=> \A b \in S - 1 - n .. S - 1 : b \in v <=> sign
  BY DEF Level
<1>5. Level(S, v, n + 1) <=> \A b \in S - 1 - (n + 1) .. S - 1 : b \in v <=> sign
  BY DEF Level
<1>. HIDE DEF u, m, sign
<1>6. /\ S - 1 - n \in S - 1 - n .. S - 1
      /\ \A b : b \in S - 1 - (n + 1) .. S - 1 <=>
                  b = S - 1 - (n + 1) \/ b \in S - 1 - n .. S - 1
  BY <1>1
<1>7. Level(S, v, n) => (S - 1 \in u <=> sign)
  BY <1>3, <1>4, <1>6
<1>8. Level(S, v, n + 1) <=> Level(S, v, n) /\ (S - 1 \in m <=> sign)
  BY <1>3, <1>4, <1>5, <1>6
<1>9. Level(S, v, n + 1) <=> Level(S, v, n) /\ (S - 1 \in m <=> S - 1 \in u)
  BY <1>7, <1>8
<1>. QED
  BY <1>9 DEF TurnedOf, u, m

-----------------------------------------------------------------------------
(* The value shifted again and again.                                       *)

LEMMA MovedNothing ==
  ASSUME NEW S \in ShiftSizes, NEW v \in SUBSET (0 .. S - 1), NEW x, NEW k \in Kinds
  PROVE  /\ Moved(k, S, v, x, 0) = v
         /\ XOf(k, S, v, x, 0) = x
         /\ ~TurnedOf(k, S, v, 0)
<1>1. S \in Nat /\ S >= 8 /\ S <= 32 /\ \A b \in v : 0 <= b /\ b < S
  BY BitsAre
<1>2. ASSUME NEW b \in 0 .. S - 1 PROVE At(k, S, v, x, 0, b) <=> b \in v
  <2>1. /\ b - 0 = b /\ b + 0 = b /\ b # S /\ b < S
        /\ b % S = b /\ b % (S + 1) = b
    BY <1>1
  <2>. QED
    BY <2>1 DEF At, Kinds
<1>3. Moved(k, S, v, x, 0) = v
  BY <1>1, <1>2, InMoved
<1>4. XOf(k, S, v, x, 0) = x
  BY DEF XOf
<1>5. Level(S, v, 0)
  <2>1. \A b \in S - 1 - 0 .. S - 1 : b = S - 1
    BY <1>1
  <2>. QED
    BY <2>1 DEF Level
<1>. QED
  BY <1>3, <1>4, <1>5 DEF TurnedOf

LEMMA ShiftedIs ==
  ASSUME NEW S, NEW w, NEW x, NEW v, NEW c
  PROVE  LET out == Shifted(S, w, x, v, c)
         IN /\ out.r = w
            /\ out.f = Alu!Ccr(x, S - 1 \in w, w \cap Mask(S) = {}, v, c)
            /\ "X" \in out.f <=> x
            /\ "V" \in out.f <=> v
BY DEF Shifted, Alu!Out, Alu!Ccr, Alu!Flags

ShiftTypeOK ==
  /\ size \in ShiftSizes
  /\ start \in SUBSET (0 .. size - 1)
  /\ f0 \in SUBSET Alu!Flags
  /\ count \in 0 .. 63
  /\ kind \in Kinds \cup {"none"}
  /\ turned \in BOOLEAN

\* What the value, the flags and the history are after count shifts.
ShiftedFar ==
  LET x == "X" \in f0
  IN /\ kind = "none" <=> count = 0
     /\ count = 0 => val = start /\ fl = f0 /\ ~turned
     /\ count > 0 =>
          /\ val = Moved(kind, size, start, x, count)
          /\ turned <=> TurnedOf(kind, size, start, count)
          /\ \E w \in BOOLEAN :
               /\ w => turned
               /\ fl = Alu!Ccr(XOf(kind, size, start, x, count), size - 1 \in val,
                               val \cap Mask(size) = {}, w, CarryOf(kind, size, start, x, count))

ShiftInv == ShiftTypeOK /\ ShiftedFar

LEMMA ShiftStarts == ShiftInit => ShiftInv
<1>. SUFFICES ASSUME ShiftInit PROVE ShiftInv
  OBVIOUS
<1>1. size \in ShiftSizes /\ start \in SUBSET (0 .. size - 1)
  BY ShiftAssumption DEF ShiftInit, ShiftSizes
<1>2. ShiftTypeOK
  <2>1. f0 \in SUBSET Alu!Flags /\ kind \in Kinds \cup {"none"}
    BY DEF ShiftInit
  <2>2. count \in 0 .. 63
    BY DEF ShiftInit
  <2>3. turned \in BOOLEAN
    BY DEF ShiftInit
  <2>. QED
    BY <1>1, <2>1, <2>2, <2>3 DEF ShiftTypeOK
<1>3. ShiftedFar
  BY DEF ShiftInit, ShiftedFar
<1>. QED
  BY <1>2, <1>3 DEF ShiftInv

LEMMA ShiftSteps == ShiftInv /\ [ShiftOnce]_shiftVars => ShiftInv'
<1>. SUFFICES ASSUME ShiftInv, [ShiftOnce]_shiftVars PROVE ShiftInv'
  OBVIOUS
<1>0. ShiftTypeOK /\ ShiftedFar
  BY DEF ShiftInv
<1>1. CASE UNCHANGED shiftVars
  BY <1>0, <1>1 DEF shiftVars, ShiftInv, ShiftTypeOK, ShiftedFar
<1>2. CASE ShiftOnce
  <2>. DEFINE x == "X" \in f0
  <2>1. PICK k \in IF kind = "none" THEN Kinds ELSE {kind} :
          LET out == MemoryShift(k, size, val, fl)
          IN /\ kind' = k
             /\ val' = out.r /\ fl' = out.f
             /\ turned' = (turned \/ "V" \in out.f)
    BY <1>2 DEF ShiftOnce
  <2>2. k \in Kinds
    <3>1. kind \in Kinds \cup {"none"}
      BY <1>0 DEF ShiftTypeOK
    <3>. QED
      BY <2>1, <3>1
  <2>3. PICK S : S = size
    OBVIOUS
  <2>4. PICK v : v = start
    OBVIOUS
  <2>5. PICK n : n = count
    OBVIOUS
  <2>6. /\ S \in ShiftSizes /\ v \in SUBSET (0 .. S - 1) /\ n \in Befores
        /\ size' = S /\ start' = v /\ f0' = f0 /\ count' = n + 1
    BY <1>0, <1>2, <2>3, <2>4, <2>5 DEF ShiftTypeOK, ShiftOnce, Befores
  <2>7. x \in BOOLEAN
    OBVIOUS
  <2>8. /\ val = Moved(k, S, v, x, n)
        /\ "X" \in fl <=> XOf(k, S, v, x, n)
        /\ turned <=> TurnedOf(k, S, v, n)
    <3>1. CASE n = 0
      <4>1. val = start /\ fl = f0 /\ ~turned
        BY <1>0, <2>5, <3>1 DEF ShiftedFar
      <4>. HIDE DEF x
      <4>2. Moved(k, S, v, x, 0) = v /\ XOf(k, S, v, x, 0) = x /\ ~TurnedOf(k, S, v, 0)
        BY <2>2, <2>6, MovedNothing
      <4>. QED
        BY <2>4, <3>1, <4>1, <4>2 DEF x
    <3>2. CASE n # 0
      <4>1. count > 0
        BY <2>5, <2>6, <3>2 DEF Befores
      <4>2. kind = k
        BY <1>0, <2>1, <4>1 DEF ShiftedFar, ShiftTypeOK
      <4>3. /\ val = Moved(k, S, v, x, n)
            /\ turned <=> TurnedOf(k, S, v, n)
        BY <1>0, <2>3, <2>4, <2>5, <4>1, <4>2 DEF ShiftedFar
      <4>4. PICK w \in BOOLEAN :
              fl = Alu!Ccr(XOf(k, S, v, x, n), S - 1 \in val,
                           val \cap Mask(S) = {}, w, CarryOf(k, S, v, x, n))
        BY <1>0, <2>3, <2>4, <2>5, <4>1, <4>2 DEF ShiftedFar
      <4>5. "X" \in fl <=> XOf(k, S, v, x, n)
        BY <4>4 DEF Alu!Ccr, Alu!Flags
      <4>. QED
        BY <4>3, <4>5
    <3>. QED
      BY <3>1, <3>2
  <2>. HIDE DEF x
  <2>9. "X" \in fl <=> XOf(k, S, v, x, n)
    BY <2>8
  <2>. DEFINE u == Moved(k, S, v, x, n)
              m == Moved(k, S, v, x, n + 1)
              t == k = "ASL" /\ (S - 1 \in m) # (S - 1 \in u)
              y == XOf(k, S, v, x, n + 1)
              c == CarryOf(k, S, v, x, n + 1)
              out == MemoryShift(k, S, u, fl)
  <2>10. t \in BOOLEAN
    BY DEF Kinds
  <2>11. out = Shifted(S, m, y, t, c)
    <3>1. t <=> k = "ASL" /\ (S - 1 \in m) # (S - 1 \in u)
      OBVIOUS
    <3>. HIDE DEF u, m, t
    <3>2. u = Moved(k, S, v, x, n) /\ m = Moved(k, S, v, x, n + 1)
      BY DEF u, m
    <3>. QED
      BY <2>2, <2>6, <2>7, <2>9, <2>10, <3>1, <3>2, OnceMore
  <2>12. TurnedOf(k, S, v, n + 1) <=> TurnedOf(k, S, v, n) \/ t
    <3>1. CASE k = "ASL"
      BY <2>6, <3>1, TurnsOnce
    <3>2. CASE k # "ASL"
      BY <3>2 DEF TurnedOf
    <3>. QED
      BY <3>1, <3>2
  <2>13. /\ out.r = m /\ ("V" \in out.f <=> t)
         /\ out.f = Alu!Ccr(y, S - 1 \in m, m \cap Mask(S) = {}, t, c)
    <3>. HIDE DEF out, m, y, t, c
    <3>. QED
      BY <2>11, ShiftedIs
  <2>14. /\ kind' = k /\ val' = out.r /\ fl' = out.f
         /\ turned' = (turned \/ "V" \in out.f)
    BY <2>1, <2>3, <2>8
  <2>. HIDE DEF out, t
  <2>15. turned' \in BOOLEAN /\ (turned' <=> turned \/ t)
    BY <2>13, <2>14
  <2>16. turned' <=> TurnedOf(k, S, v, n + 1)
    BY <2>8, <2>12, <2>15
  <2>17. n + 1 \in 0 .. 63 /\ n + 1 > 0 /\ n + 1 # 0
    BY <2>6 DEF Befores
  <2>18. ShiftTypeOK'
    <3>1. f0 \in SUBSET Alu!Flags
      BY <1>0 DEF ShiftTypeOK
    <3>. QED
      BY <2>2, <2>6, <2>14, <2>15, <2>17, <3>1 DEF ShiftTypeOK
  <2>19. kind' # "none" /\ count' # 0 /\ count' > 0
    BY <2>2, <2>6, <2>14, <2>17 DEF Kinds
  <2>20. /\ val' = Moved(kind', size', start', "X" \in f0', count')
         /\ turned' <=> TurnedOf(kind', size', start', count')
    BY <2>6, <2>13, <2>14, <2>16 DEF x
  <2>21. \E w \in BOOLEAN :
           /\ w => turned'
           /\ fl' = Alu!Ccr(XOf(kind', size', start', "X" \in f0', count'), size' - 1 \in val',
                            val' \cap Mask(size') = {}, w,
                            CarryOf(kind', size', start', "X" \in f0', count'))
    <3>1. t => turned'
      BY <2>15
    <3>2. fl' = Alu!Ccr(y, S - 1 \in m, m \cap Mask(S) = {}, t, c)
      BY <2>13, <2>14
    <3>3. /\ y = XOf(kind', size', start', "X" \in f0', count')
          /\ c = CarryOf(kind', size', start', "X" \in f0', count')
      BY <2>6, <2>14 DEF x
    <3>4. val' = m
      BY <2>13, <2>14
    <3>. HIDE DEF y, c, m
    <3>5. /\ (S - 1 \in m) = (size' - 1 \in val')
          /\ (m \cap Mask(S) = {}) = (val' \cap Mask(size') = {})
      BY <2>6, <3>4
    <3>6. fl' = Alu!Ccr(y, size' - 1 \in val', val' \cap Mask(size') = {}, t, c)
      BY <3>2, <3>5
    <3>. QED
      BY <2>10, <3>1, <3>3, <3>6
  <2>22. ShiftedFar'
    BY <2>19, <2>20, <2>21 DEF ShiftedFar
  <2>. QED
    BY <2>18, <2>22 DEF ShiftInv
<1>. QED
  BY <1>1, <1>2

\* The count, the value and the flags stay in their types, the value is the first one
\* moved count times, and the flags are those of a value moved so.
THEOREM ShiftInvariance == ShiftSpec => []ShiftInv
BY ShiftStarts, ShiftSteps, PTL DEF ShiftSpec

\* A register shifted by a count is the first value moved by it.
LEMMA AtOnce ==
  ASSUME NEW k \in Kinds, NEW S \in ShiftSizes, NEW v \in SUBSET (0 .. S - 1), NEW g,
         NEW n \in Counts, NEW wraps \in BOOLEAN, NEW imm \in BOOLEAN, imm => n <= 8
  PROVE  LET x == "X" \in g
         IN RegisterShift(k, S, v, n, g, imm, wraps) =
              Shifted(S, Moved(k, S, v, x, n), XOf(k, S, v, x, n), TurnedOf(k, S, v, n),
                      CarryOf(k, S, v, x, n))
<1>. DEFINE x == "X" \in g
<1>1. x \in BOOLEAN
  OBVIOUS
<1>2. k # "ASL" => TurnedOf(k, S, v, n) = FALSE
  BY DEF TurnedOf
<1>3. CASE k = "ASL"
  <2>1. RegisterShift(k, S, v, n, g, imm, wraps) = Asl(S, v, n, g)
    BY <1>3 DEF RegisterShift
  <2>. HIDE DEF x
  <2>. QED
    BY <1>1, <1>3, <2>1, AslAtOnce DEF x
<1>4. CASE k = "ASR"
  <2>1. RegisterShift(k, S, v, n, g, imm, wraps) = Asr(S, v, n, g)
    BY <1>4 DEF RegisterShift
  <2>2. TurnedOf(k, S, v, n) = FALSE
    BY <1>2, <1>4
  <2>. HIDE DEF x
  <2>3. Asr(S, v, n, g) =
          Shifted(S, Moved("ASR", S, v, x, n), XOf("ASR", S, v, x, n), FALSE,
                  CarryOf("ASR", S, v, x, n))
    BY <1>1, AsrAtOnce
  <2>4. RegisterShift(k, S, v, n, g, imm, wraps) =
          Shifted(S, Moved(k, S, v, x, n), XOf(k, S, v, x, n), TurnedOf(k, S, v, n),
                  CarryOf(k, S, v, x, n))
    BY <1>4, <2>1, <2>2, <2>3
  <2>. QED
    BY <2>4 DEF x
<1>5. CASE k = "LSL"
  <2>1. RegisterShift(k, S, v, n, g, imm, wraps) = Lsl(S, v, n, g)
    BY <1>5 DEF RegisterShift
  <2>2. TurnedOf(k, S, v, n) = FALSE
    BY <1>2, <1>5
  <2>. HIDE DEF x
  <2>3. Lsl(S, v, n, g) =
          Shifted(S, Moved("LSL", S, v, x, n), XOf("LSL", S, v, x, n), FALSE,
                  CarryOf("LSL", S, v, x, n))
    BY <1>1, LslAtOnce
  <2>4. RegisterShift(k, S, v, n, g, imm, wraps) =
          Shifted(S, Moved(k, S, v, x, n), XOf(k, S, v, x, n), TurnedOf(k, S, v, n),
                  CarryOf(k, S, v, x, n))
    BY <1>5, <2>1, <2>2, <2>3
  <2>. QED
    BY <2>4 DEF x
<1>6. CASE k = "LSR"
  <2>1. RegisterShift(k, S, v, n, g, imm, wraps) = Lsr(S, v, n, g)
    BY <1>6 DEF RegisterShift
  <2>2. TurnedOf(k, S, v, n) = FALSE
    BY <1>2, <1>6
  <2>. HIDE DEF x
  <2>3. Lsr(S, v, n, g) =
          Shifted(S, Moved("LSR", S, v, x, n), XOf("LSR", S, v, x, n), FALSE,
                  CarryOf("LSR", S, v, x, n))
    BY <1>1, LsrAtOnce
  <2>4. RegisterShift(k, S, v, n, g, imm, wraps) =
          Shifted(S, Moved(k, S, v, x, n), XOf(k, S, v, x, n), TurnedOf(k, S, v, n),
                  CarryOf(k, S, v, x, n))
    BY <1>6, <2>1, <2>2, <2>3
  <2>. QED
    BY <2>4 DEF x
<1>7. CASE k = "ROL"
  <2>1. RegisterShift(k, S, v, n, g, imm, wraps) = Rol(S, v, n, g, wraps)
    BY <1>7 DEF RegisterShift
  <2>. QED
    BY <1>2, <1>7, <2>1, RolAtOnce
<1>8. CASE k = "ROR"
  <2>1. RegisterShift(k, S, v, n, g, imm, wraps) = Ror(S, v, n, g, wraps)
    BY <1>8 DEF RegisterShift
  <2>. QED
    BY <1>2, <1>8, <2>1, RorAtOnce
<1>9. CASE k = "ROXL"
  <2>1. RegisterShift(k, S, v, n, g, imm, wraps) = Roxl(S, v, n, g, imm)
    BY <1>9 DEF RegisterShift
  <2>. QED
    BY <1>2, <1>9, <2>1, RoxlAtOnce
<1>10. CASE k = "ROXR"
  <2>1. RegisterShift(k, S, v, n, g, imm, wraps) = Roxr(S, v, n, g, imm)
    BY <1>10 DEF RegisterShift
  <2>. QED
    BY <1>2, <1>10, <2>1, RoxrAtOnce
<1>. QED
  BY <1>3, <1>4, <1>5, <1>6, <1>7, <1>8, <1>9, <1>10 DEF Kinds

\* A count of zero changes the flags alone.
LEMMA ByNothing ==
  ASSUME NEW k \in Kinds, NEW S \in ShiftSizes, NEW v, NEW g, NEW wraps, NEW imm,
         NEW no, no \in BOOLEAN, ~no, NEW x, x \in BOOLEAN, x <=> "X" \in g,
         NEW c, c \in BOOLEAN, c <=> k \in {"ROXL", "ROXR"} /\ x
  PROVE  RegisterShift(k, S, v, 0, g, imm, wraps) = Shifted(S, v, x, no, c)
<1>0. no = FALSE
  OBVIOUS
<1>1. S \in Nat /\ S >= 8 /\ ~(0 >= S) /\ ~(0 > 0)
  BY DEF ShiftSizes
<1>2. CASE k \in {"ROXL", "ROXR"}
  <2>1. RoxRange(S, 0, imm) = 0
    BY DEF RoxRange, Reduced, ShiftSizes
  <2>2. c = x
    BY <1>2
  <2>3. RegisterShift(k, S, v, 0, g, imm, wraps) = Shifted(S, v, x, FALSE, x)
    BY <1>1, <1>2, <2>1 DEF RegisterShift, Roxl, Roxr
  <2>. QED
    BY <1>0, <2>2, <2>3
<1>3. CASE k \notin {"ROXL", "ROXR"}
  <2>1. c = FALSE
    BY <1>3
  <2>2. RegisterShift(k, S, v, 0, g, imm, wraps) = Shifted(S, v, x, FALSE, FALSE)
    BY <1>1, <1>3 DEF RegisterShift, Kinds, Asl, Asr, Lsl, Lsr, Rol, Ror
  <2>. QED
    BY <1>0, <2>1, <2>2
<1>. QED
  BY <1>2, <1>3

LEMMA ManyAsOneFollows == ShiftInv => ManyAsOne
<1>. SUFFICES ASSUME ShiftInv,
                     NEW k \in IF kind = "none" THEN Kinds ELSE {kind},
                     NEW wraps \in BOOLEAN,
                     NEW imm, imm \in BOOLEAN, imm => count \in 1 .. 8
              PROVE  RegisterShift(k, size, start, count, f0, imm, wraps) =
                       IF count > 0 THEN Alu!Out(val, IF turned THEN fl \cup {"V"} ELSE fl)
                       ELSE Shifted(size, start, "X" \in f0, FALSE,
                                    k \in {"ROXL", "ROXR"} /\ "X" \in f0)
  BY DEF ManyAsOne
<1>0. ShiftTypeOK /\ ShiftedFar
  BY DEF ShiftInv
<1>1. k \in Kinds /\ size \in ShiftSizes /\ start \in SUBSET (0 .. size - 1) /\ count \in 0 .. 63
  BY <1>0 DEF ShiftTypeOK
<1>2. CASE count = 0
  <2>1. ~(count > 0)
    BY <1>2
  <2>2. PICK x : x \in BOOLEAN /\ (x <=> "X" \in f0)
    OBVIOUS
  <2>3. PICK c : c \in BOOLEAN /\ (c <=> k \in {"ROXL", "ROXR"} /\ x)
    OBVIOUS
  <2>4. x = ("X" \in f0)
    BY <2>2, SameTruth
  <2>. DEFINE d == k \in {"ROXL", "ROXR"} /\ "X" \in f0
  <2>5. c = d
    <3>1. d \in BOOLEAN /\ (c <=> d)
      BY <2>2, <2>3
    <3>. HIDE DEF d
    <3>. QED
      BY <2>3, <3>1, SameTruth
  <2>. DEFINE no == FALSE
  <2>6. no \in BOOLEAN /\ ~no
    OBVIOUS
  <2>. HIDE DEF d, no
  <2>7. RegisterShift(k, size, start, 0, f0, imm, wraps) = Shifted(size, start, x, no, c)
    BY <1>1, <2>2, <2>3, <2>6, ByNothing
  <2>8. RegisterShift(k, size, start, count, f0, imm, wraps) = Shifted(size, start, x, no, c)
    BY <1>2, <2>7
  <2>. QED
    BY <2>1, <2>4, <2>5, <2>8 DEF d, no
<1>3. CASE count # 0
  <2>. DEFINE x == "X" \in f0
              y == XOf(k, size, start, x, count)
              o == TurnedOf(k, size, start, count)
              c == CarryOf(k, size, start, x, count)
              n == size - 1 \in val
              z == val \cap Mask(size) = {}
  <2>1. count > 0 /\ count \in Counts
    BY <1>1, <1>3 DEF Counts
  <2>2. kind = k
    BY <1>0, <2>1 DEF ShiftedFar, ShiftTypeOK
  <2>3. imm \in BOOLEAN /\ (imm => count <= 8)
    OBVIOUS
  <2>4. val = Moved(k, size, start, x, count) /\ (turned <=> o)
    BY <1>0, <2>1, <2>2 DEF ShiftedFar
  <2>5. PICK w \in BOOLEAN : (w => turned) /\ fl = Alu!Ccr(y, n, z, w, c)
    BY <1>0, <2>1, <2>2 DEF ShiftedFar
  <2>6. RegisterShift(k, size, start, count, f0, imm, wraps) = Shifted(size, val, y, o, c)
    BY <1>1, <2>1, <2>3, <2>4, AtOnce
  <2>7. Shifted(size, val, y, o, c) = Alu!Out(val, Alu!Ccr(y, n, z, o, c))
    BY DEF Shifted
  <2>8. o \in BOOLEAN
    BY DEF TurnedOf
  <2>. HIDE DEF y, o, c, n, z
  <2>9. (IF turned THEN fl \cup {"V"} ELSE fl) = Alu!Ccr(y, n, z, o, c)
    <3>1. CASE turned
      <4>1. o = TRUE
        BY <2>4, <2>8, <3>1
      <4>2. Alu!Ccr(y, n, z, w, c) \cup {"V"} = Alu!Ccr(y, n, z, TRUE, c)
        BY DEF Alu!Ccr, Alu!Flags
      <4>. QED
        BY <2>5, <3>1, <4>1, <4>2
    <3>2. CASE ~turned
      <4>1. o = FALSE /\ w = FALSE
        BY <2>4, <2>5, <2>8, <3>2
      <4>. QED
        BY <2>5, <3>2, <4>1
    <3>. QED
      BY <3>1, <3>2
  <2>. QED
    BY <2>1, <2>6, <2>7, <2>9
<1>. QED
  BY <1>2, <1>3

\* For any set of first values of the sizes a processor has: an instruction that shifts or
\* rotates a register by a count does what shifting by one that often does.
THEOREM ShiftsAreRepeated == ShiftSpec => []ManyAsOne
BY ManyAsOneFollows, ShiftInvariance, PTL


-----------------------------------------------------------------------------
(* The same by another instruction.                                         *)

\* A bit of a byte, as a digit.
DigitOf(v, b) == IF b \in v THEN 1 ELSE 0

LEMMA NumberIs ==
  ASSUME NEW v
  PROVE  /\ Number(v) = DigitOf(v, 0) + 2 * DigitOf(v, 1) + 4 * DigitOf(v, 2)
                          + 8 * DigitOf(v, 3) + 16 * DigitOf(v, 4) + 32 * DigitOf(v, 5)
                          + 64 * DigitOf(v, 6) + 128 * DigitOf(v, 7)
         /\ \A b : DigitOf(v, b) \in {0, 1}
BY DEF Number, DigitOf

LEMMA NumberInRange ==
  ASSUME NEW v
  PROVE  /\ Number(v) \in 0 .. 255
         /\ Number(v) >= 128 <=> 7 \in v
<1>. DEFINE d(b) == DigitOf(v, b)
<1>1. d(0) \in {0, 1} /\ d(1) \in {0, 1} /\ d(2) \in {0, 1} /\ d(3) \in {0, 1}
  BY NumberIs
<1>2. d(4) \in {0, 1} /\ d(5) \in {0, 1} /\ d(6) \in {0, 1} /\ d(7) \in {0, 1}
  BY NumberIs
<1>3. Number(v) = d(0) + 2 * d(1) + 4 * d(2) + 8 * d(3) + 16 * d(4) + 32 * d(5)
                    + 64 * d(6) + 128 * d(7)
  BY NumberIs
<1>4. d(7) = 1 <=> 7 \in v
  BY DEF DigitOf
<1>. HIDE DEF d
<1>. QED
  BY <1>1, <1>2, <1>3, <1>4

\* Only the empty byte is zero.
LEMMA NumberZero ==
  ASSUME NEW v \in SUBSET (0 .. 7)
  PROVE  Number(v) = 0 <=> v = {}
<1>. DEFINE d(b) == DigitOf(v, b)
<1>1. d(0) \in {0, 1} /\ d(1) \in {0, 1} /\ d(2) \in {0, 1} /\ d(3) \in {0, 1}
  BY NumberIs
<1>2. d(4) \in {0, 1} /\ d(5) \in {0, 1} /\ d(6) \in {0, 1} /\ d(7) \in {0, 1}
  BY NumberIs
<1>3. Number(v) = d(0) + 2 * d(1) + 4 * d(2) + 8 * d(3) + 16 * d(4) + 32 * d(5)
                    + 64 * d(6) + 128 * d(7)
  BY NumberIs
<1>4. \A b : d(b) = 0 <=> b \notin v
  BY DEF DigitOf
<1>. HIDE DEF d
<1>5. Number(v) = 0 <=> /\ d(0) = 0 /\ d(1) = 0 /\ d(2) = 0 /\ d(3) = 0
                        /\ d(4) = 0 /\ d(5) = 0 /\ d(6) = 0 /\ d(7) = 0
  BY <1>1, <1>2, <1>3
<1>6. v = {} <=> /\ 0 \notin v /\ 1 \notin v /\ 2 \notin v /\ 3 \notin v
                 /\ 4 \notin v /\ 5 \notin v /\ 6 \notin v /\ 7 \notin v
  <2>1. \A b \in 0 .. 7 : b = 0 \/ b = 1 \/ b = 2 \/ b = 3 \/ b = 4 \/ b = 5 \/ b = 6 \/ b = 7
    OBVIOUS
  <2>. QED
    BY <2>1
<1>. QED
  BY <1>4, <1>5, <1>6

\* A byte shifted up by one, with y below.
LEMMA NumberUp ==
  ASSUME NEW v, NEW w, NEW y \in BOOLEAN, 0 \in w <=> y, \A b \in 1 .. 7 : b \in w <=> b - 1 \in v
  PROVE  Number(w) = (Number(v) + Number(v) + Alu!One(y)) % 256
<1>. DEFINE d(b) == DigitOf(v, b)
            e(b) == DigitOf(w, b)
<1>1. d(0) \in {0, 1} /\ d(1) \in {0, 1} /\ d(2) \in {0, 1} /\ d(3) \in {0, 1}
  BY NumberIs
<1>2. d(4) \in {0, 1} /\ d(5) \in {0, 1} /\ d(6) \in {0, 1} /\ d(7) \in {0, 1}
  BY NumberIs
<1>3. Number(v) = d(0) + 2 * d(1) + 4 * d(2) + 8 * d(3) + 16 * d(4) + 32 * d(5)
                    + 64 * d(6) + 128 * d(7)
  BY NumberIs
<1>4. Number(w) = e(0) + 2 * e(1) + 4 * e(2) + 8 * e(3) + 16 * e(4) + 32 * e(5)
                    + 64 * e(6) + 128 * e(7)
  BY NumberIs
<1>5. \A b \in 1 .. 7 : e(b) = d(b - 1)
  BY DEF DigitOf
<1>6. e(0) = Alu!One(y) /\ Alu!One(y) \in {0, 1}
  BY DEF DigitOf, Alu!One
<1>. HIDE DEF d, e
<1>7. /\ e(1) = d(0) /\ e(2) = d(1) /\ e(3) = d(2) /\ e(4) = d(3)
      /\ e(5) = d(4) /\ e(6) = d(5) /\ e(7) = d(6)
  <2>1. e(1) = d(1 - 1) /\ e(2) = d(2 - 1) /\ e(3) = d(3 - 1) /\ e(4) = d(4 - 1)
    BY <1>5
  <2>2. e(5) = d(5 - 1) /\ e(6) = d(6 - 1) /\ e(7) = d(7 - 1)
    BY <1>5
  <2>3. 1 - 1 = 0 /\ 2 - 1 = 1 /\ 3 - 1 = 2 /\ 4 - 1 = 3 /\ 5 - 1 = 4 /\ 6 - 1 = 5 /\ 7 - 1 = 6
    OBVIOUS
  <2>. QED
    BY <2>1, <2>2, <2>3
<1>8. Number(v) + Number(v) + Alu!One(y) = Number(w) + 256 * d(7)
  BY <1>1, <1>2, <1>3, <1>4, <1>6, <1>7
<1>9. Number(w) \in 0 .. 255
  BY NumberInRange
<1>. QED
  BY <1>2, <1>8, <1>9

LEMMA NumberNot ==
  ASSUME NEW v
  PROVE  Number(Mask(8) \ v) = 255 - Number(v)
<1>. DEFINE w == Mask(8) \ v
            d(b) == DigitOf(v, b)
            e(b) == DigitOf(w, b)
<1>1. d(0) \in {0, 1} /\ d(1) \in {0, 1} /\ d(2) \in {0, 1} /\ d(3) \in {0, 1}
  BY NumberIs
<1>2. d(4) \in {0, 1} /\ d(5) \in {0, 1} /\ d(6) \in {0, 1} /\ d(7) \in {0, 1}
  BY NumberIs
<1>3. Number(v) = d(0) + 2 * d(1) + 4 * d(2) + 8 * d(3) + 16 * d(4) + 32 * d(5)
                    + 64 * d(6) + 128 * d(7)
  BY NumberIs
<1>4. Number(w) = e(0) + 2 * e(1) + 4 * e(2) + 8 * e(3) + 16 * e(4) + 32 * e(5)
                    + 64 * e(6) + 128 * e(7)
  BY NumberIs
<1>5. \A b \in 0 .. 7 : e(b) = 1 - d(b)
  <2>1. \A b \in 0 .. 7 : b \in w <=> b \notin v
    BY DEF Mask
  <2>. QED
    BY <2>1 DEF DigitOf
<1>. HIDE DEF d, e, w
<1>6. /\ e(0) = 1 - d(0) /\ e(1) = 1 - d(1) /\ e(2) = 1 - d(2) /\ e(3) = 1 - d(3)
      /\ e(4) = 1 - d(4) /\ e(5) = 1 - d(5) /\ e(6) = 1 - d(6) /\ e(7) = 1 - d(7)
  BY <1>5
<1>7. Number(w) = 255 - Number(v)
  BY <1>1, <1>2, <1>3, <1>4, <1>6
<1>. QED
  BY <1>7 DEF w

LEMMA ByteOps ==
  /\ \A n : Alu!Cast(n) = n % 256
  /\ \A n : Alu!Negative(n) <=> n >= 128
  /\ \A n : Alu!Negative(n) \in BOOLEAN
  /\ Alu!M = 256
<1>1. Alu!M = 256
  BY DEF Alu!M
<1>. QED
  BY <1>1 DEF Alu!Cast, Alu!Negative

\* ASL by one and ADD of a byte to itself.
LEMMA AslIsAdd ==
  ASSUME NEW v \in SUBSET (0 .. 7), NEW g
  PROVE  LET a == Asl(8, v, 1, g)
             b == Alu!Add(Number(v), Number(v))
         IN Number(a.r) = b.r /\ a.f = b.f
<1>. DEFINE x == "X" \in g
            n == Number(v)
            m == Moved("ASL", 8, v, x, 1)
            c == CarryOf("ASL", 8, v, x, 1)
            t == TurnedOf("ASL", 8, v, 1)
            k == 255 - n < n
            o == Alu!AddOverflow(n, n, Number(m))
<1>1. x \in BOOLEAN /\ 8 \in ShiftSizes /\ 1 \in Counts /\ 8 - 1 = 7
  BY DEF ShiftSizes, Counts
<1>2. Asl(8, v, 1, g) = Shifted(8, m, c, t, c)
  <2>1. XOf("ASL", 8, v, x, 1) = c
    BY DEF XOf
  <2>. HIDE DEF x
  <2>2. Asl(8, v, 1, g) = Shifted(8, m, XOf("ASL", 8, v, x, 1), t, c)
    BY <1>1, AslAtOnce
  <2>. QED
    BY <2>1, <2>2
<1>3. \A b : b \in m <=> b \in 0 .. 7 /\ b - 1 \in v
  <2>1. \A b : b \in m <=> b \in 0 .. 8 - 1 /\ At("ASL", 8, v, x, 1, b)
    BY InMoved
  <2>2. \A b : At("ASL", 8, v, x, 1, b) <=> b - 1 \in v
    BY DEF At
  <2>. QED
    BY <1>1, <2>1, <2>2
<1>4. (c <=> 7 \in v) /\ c \in BOOLEAN /\ t \in BOOLEAN
  <2>1. At("ASL", 8, v, x, 1, 8) <=> 8 - 1 \in v
    BY DEF At
  <2>2. c <=> 7 \in v
    BY <1>1, <2>1 DEF CarryOf
  <2>3. c \in BOOLEAN /\ t \in BOOLEAN
    <3>. HIDE DEF x
    <3>. QED
      BY <1>1, Booleans DEF Kinds
  <2>. QED
    BY <2>2, <2>3
<1>5. t <=> ((7 \in v) # (6 \in v))
  <2>1. Level(8, v, 1) <=> (6 \in v <=> 7 \in v)
    <3>1. 8 - 1 - 1 = 6 /\ \A b : b \in 6 .. 7 <=> b = 6 \/ b = 7
      OBVIOUS
    <3>. QED
      BY <1>1, <3>1 DEF Level
  <2>. QED
    BY <2>1 DEF TurnedOf
<1>6. m \in SUBSET (0 .. 7) /\ (7 \in m <=> 6 \in v) /\ (0 \in m <=> FALSE)
      /\ \A b \in 1 .. 7 : b \in m <=> b - 1 \in v
  <2>1. 0 - 1 \notin v /\ 7 - 1 = 6 /\ 7 \in 0 .. 7 /\ \A b \in 1 .. 7 : b \in 0 .. 7
    OBVIOUS
  <2>2. 7 \in m <=> 7 - 1 \in v
    BY <1>3, <2>1
  <2>. QED
    BY <1>3, <2>1, <2>2
<1>. HIDE DEF x, m, c, t
<1>7. Number(m) = (n + n) % 256
  <2>1. Number(m) = (n + n + Alu!One(FALSE)) % 256
    BY <1>6, NumberUp
  <2>2. n \in 0 .. 255 /\ n + n + 0 = n + n
    BY NumberInRange
  <2>. QED
    BY <2>1, <2>2 DEF Alu!One
<1>8. n \in 0 .. 255 /\ (n >= 128 <=> 7 \in v) /\ (Number(m) >= 128 <=> 7 \in m)
  BY NumberInRange
<1>9. Alu!Add(n, n) = Alu!Out(Number(m), Alu!Ccr(k, Alu!Negative(Number(m)), Number(m) = 0, o, k))
  <2>1. Alu!Cast(n + n) = Number(m) /\ Alu!M - 1 - n = 255 - n
    BY <1>7, <1>8, ByteOps
  <2>. HIDE DEF n
  <2>. QED
    BY <2>1 DEF Alu!Add
<1>10. k = c
  <2>1. k <=> n >= 128
    BY <1>8
  <2>. QED
    BY <1>4, <1>8, <2>1
<1>11. o = t
  <2>1. o <=> ((7 \in v) # (7 \in m))
    BY <1>8, ByteOps DEF Alu!AddOverflow
  <2>. QED
    BY <1>4, <1>5, <1>6, <2>1 DEF Alu!AddOverflow
<1>12. Alu!Negative(Number(m)) = (8 - 1 \in m)
  BY <1>1, <1>8, ByteOps
<1>13. (Number(m) = 0) = (m \cap Mask(8) = {})
  <2>1. m \cap Mask(8) = m
    BY <1>1, <1>6 DEF Mask
  <2>. QED
    BY <1>6, <2>1, NumberZero
<1>. HIDE DEF n, k, o
<1>14. Alu!Add(n, n) = Alu!Out(Number(m), Alu!Ccr(c, 8 - 1 \in m, m \cap Mask(8) = {}, t, c))
  BY <1>9, <1>10, <1>11, <1>12, <1>13
<1>15. /\ Asl(8, v, 1, g).r = m
       /\ Asl(8, v, 1, g).f = Alu!Ccr(c, 8 - 1 \in m, m \cap Mask(8) = {}, t, c)
  BY <1>2, ShiftedIs
<1>. QED
  BY <1>14, <1>15 DEF n, Alu!Out

\* ROXL by one and ADDX of a byte to itself.
LEMMA RoxlIsAddx ==
  ASSUME NEW v \in SUBSET (0 .. 7), NEW g
  PROVE  LET a == Roxl(8, v, 1, g, TRUE)
             b == Alu!Addx(g, Number(v), Number(v))
             kept == {"X", "N", "C"}
         IN Number(a.r) = b.r /\ a.f \cap kept = b.f \cap kept
<1>. DEFINE x == "X" \in g
            n == Number(v)
            m == Moved("ROXL", 8, v, x, 1)
            c == CarryOf("ROXL", 8, v, x, 1)
            neg == Alu!Negative(n)
            top == Alu!Negative(Number(m))
            k == neg # (neg # neg /\ neg # top)
            z == "Z" \in g /\ Number(m) = 0
            o == Alu!AddOverflow(n, n, Number(m))
<1>1. x \in BOOLEAN /\ 8 \in ShiftSizes /\ 1 \in Counts /\ 8 - 1 = 7
  BY DEF ShiftSizes, Counts
<1>2. Roxl(8, v, 1, g, TRUE) = Shifted(8, m, c, FALSE, c)
  <2>1. XOf("ROXL", 8, v, x, 1) = c
    BY DEF XOf
  <2>. HIDE DEF x
  <2>2. Roxl(8, v, 1, g, TRUE) = Shifted(8, m, XOf("ROXL", 8, v, x, 1), FALSE, c)
    <3>1. TRUE \in BOOLEAN /\ (TRUE => 1 <= 8)
      OBVIOUS
    <3>. QED
      BY <1>1, <3>1, RoxlAtOnce DEF x
  <2>. QED
    BY <2>1, <2>2
<1>3. \A b : b \in m <=> b \in 0 .. 7 /\ At("ROXL", 8, v, x, 1, b)
  BY <1>1, InMoved
<1>4. /\ 0 \in m <=> x
      /\ \A b \in 1 .. 7 : b \in m <=> b - 1 \in v
  <2>1. At("ROXL", 8, v, x, 1, 0) <=> x
    <3>1. (0 - 1) % (8 + 1) = 8
      <4>1. \A i \in {9}, b \in 0 .. 8 : (b - 1) % i = IF b >= 1 THEN b - 1 ELSE 8
        OBVIOUS
      <4>2. 8 + 1 \in {9} /\ 0 \in 0 .. 8 /\ ~(0 >= 1)
        OBVIOUS
      <4>. QED
        BY <4>1, <4>2
    <3>. QED
      BY <1>1, <3>1 DEF At
  <2>2. ASSUME NEW b \in 1 .. 7 PROVE At("ROXL", 8, v, x, 1, b) <=> b - 1 \in v
    <3>1. (b - 1) % (8 + 1) = b - 1 /\ b - 1 # 8
      OBVIOUS
    <3>. QED
      BY <3>1 DEF At
  <2>3. 0 \in 0 .. 7 /\ \A b \in 1 .. 7 : b \in 0 .. 7
    OBVIOUS
  <2>. QED
    BY <1>3, <2>1, <2>2, <2>3
<1>5. (c <=> 7 \in v) /\ c \in BOOLEAN
  <2>1. (8 - 1) % (8 + 1) = 7 /\ 7 # 8
    OBVIOUS
  <2>2. At("ROXL", 8, v, x, 1, 8) <=> 7 \in v
    BY <2>1 DEF At
  <2>3. c <=> 7 \in v
    BY <2>2 DEF CarryOf
  <2>4. c \in BOOLEAN
    <3>. HIDE DEF x
    <3>. QED
      BY <1>1, Booleans DEF Kinds
  <2>. QED
    BY <2>3, <2>4
<1>6. n \in 0 .. 255 /\ (n >= 128 <=> 7 \in v) /\ (Number(m) >= 128 <=> 7 \in m)
  BY NumberInRange
<1>7. Number(m) = (n + n + Alu!One(x)) % 256
  <2>. HIDE DEF x, m
  <2>. QED
    BY <1>1, <1>4, NumberUp
<1>8. Alu!Addx(g, n, n) = Alu!Out(Number(m), Alu!Ccr(k, top, z, o, k))
  <2>1. Alu!Cast(n + n + Alu!One("X" \in g)) = Number(m)
    BY <1>7, ByteOps
  <2>. HIDE DEF n, m
  <2>. QED
    BY <2>1 DEF Alu!Addx
<1>9. k = c /\ top = (8 - 1 \in m)
  <2>1. neg \in BOOLEAN /\ (neg <=> 7 \in v) /\ top \in BOOLEAN /\ (top <=> 7 \in m)
    BY <1>6, ByteOps
  <2>. HIDE DEF neg, top
  <2>2. k = neg
    BY <2>1
  <2>. QED
    BY <1>1, <1>5, <2>1, <2>2
<1>. HIDE DEF x, m, c, neg, top, k, z, o
<1>. DEFINE a == Roxl(8, v, 1, g, TRUE)
            no == FALSE
<1>10. a = Shifted(8, m, c, no, c)
  BY <1>2
<1>. HIDE DEF a, no
<1>11. a.r = m /\ a.f = Alu!Ccr(c, 8 - 1 \in m, m \cap Mask(8) = {}, no, c)
  BY <1>10, ShiftedIs
<1>12. Alu!Addx(g, n, n).r = Number(m) /\ Alu!Addx(g, n, n).f = Alu!Ccr(c, 8 - 1 \in m, z, o, c)
  BY <1>8, <1>9 DEF Alu!Out
<1>13. \A y, w : Alu!Ccr(c, 8 - 1 \in m, y, w, c) \cap {"X", "N", "C"} =
                  {h \in {"X", "N", "C"} : CASE h = "X" -> c [] h = "N" -> 8 - 1 \in m [] h = "C" -> c}
  BY DEF Alu!Ccr, Alu!Flags
<1>. QED
  BY <1>12, <1>13, <1>11 DEF n, a

\* NEG is the complement and one, NEGX with X set the complement.
LEMMA NegIsNot ==
  ASSUME NEW v \in SUBSET (0 .. 7), NEW g
  PROVE  /\ Alu!Neg(Number(v)).r = Alu!Add(1, Number(Not(8, v, g).r)).r
         /\ Alu!Negx({"X"}, Number(v)).r = Number(Not(8, v, g).r)
<1>. DEFINE n == Number(v)
            w == Not(8, v, g).r
<1>1. w = Mask(8) \ v
  BY DEF Not, LogicalBits, Shifted, Alu!Out
<1>2. Number(w) = 255 - n /\ n \in 0 .. 255
  BY <1>1, NumberNot, NumberInRange
<1>. HIDE DEF n, w
<1>3. Alu!Neg(n).r = (0 - n) % 256
  BY ByteOps DEF Alu!Neg, Alu!Sub, Alu!Out
<1>4. Alu!Add(1, Number(w)).r = (Number(w) + 1) % 256
  BY ByteOps DEF Alu!Add, Alu!Out
<1>5. Alu!Negx({"X"}, n).r = (0 - n - 1) % 256
  BY ByteOps DEF Alu!Negx, Alu!Subx, Alu!Out, Alu!One
<1>6. (0 - n) % 256 = (255 - n + 1) % 256
  <2>1. CASE n = 0
    BY <2>1
  <2>2. CASE n # 0
    BY <1>2, <2>2
  <2>. QED
    BY <2>1, <2>2
<1>7. (0 - n - 1) % 256 = 255 - n
  BY <1>2
<1>. QED
  BY <1>2, <1>3, <1>4, <1>5, <1>6, <1>7 DEF n, w

\* What is left of a value shifted, of the form ShiftedIs is stated for.
LEMMA ShiftedValue ==
  ASSUME NEW S, NEW w, NEW x, NEW v, NEW c
  PROVE  Shifted(S, w, x, v, c).r = w
BY DEF Shifted, Alu!Out

LEMMA RorValue ==
  ASSUME NEW S \in ShiftSizes, NEW v \in SUBSET (0 .. S - 1), NEW g, NEW n \in Counts,
         NEW wraps \in BOOLEAN
  PROVE  Ror(S, v, n, g, wraps).r = Moved("ROR", S, v, "X" \in g, n)
<1>. DEFINE x == "X" \in g
            no == FALSE
<1>1. Ror(S, v, n, g, wraps) =
        Shifted(S, Moved("ROR", S, v, x, n), XOf("ROR", S, v, x, n), no, CarryOf("ROR", S, v, x, n))
  BY RorAtOnce
<1>. HIDE DEF x, no
<1>2. Ror(S, v, n, g, wraps).r = Moved("ROR", S, v, x, n)
  BY <1>1, ShiftedValue
<1>. QED
  BY <1>2 DEF x

\* SWAP is a rotation by sixteen.
LEMMA SwapIsRor ==
  ASSUME NEW v \in SUBSET (0 .. 31), NEW g
  PROVE  Swap(v, g).r = Ror(32, v, 16, g, FALSE).r
<1>. DEFINE x == "X" \in g
            m == Moved("ROR", 32, v, x, 16)
            w == Shr(v, 16) \cup Shl(v \cap Mask(16), 16)
            no == FALSE
<1>1. x \in BOOLEAN /\ 32 \in ShiftSizes /\ 16 \in Counts /\ 32 - 1 = 31 /\ no \in BOOLEAN
  BY DEF ShiftSizes, Counts
<1>2. Ror(32, v, 16, g, FALSE).r = m
  <2>1. v \in SUBSET (0 .. 32 - 1)
    BY <1>1
  <2>2. 32 \in ShiftSizes /\ 16 \in Counts /\ FALSE \in BOOLEAN
    BY <1>1
  <2>. QED
    BY <2>1, <2>2, RorValue, Zenon
<1>3. Swap(v, g).r = w
  BY DEF Swap, LogicalBits, Shifted, Alu!Out
<1>4. \A b : b \in m <=> b \in 0 .. 31 /\ (b + 16) % 32 \in v
  <2>1. \A b : b \in m <=> b \in 0 .. 31 /\ At("ROR", 32, v, x, 16, b)
    BY <1>1, InMoved
  <2>. QED
    BY <2>1 DEF At
<1>5. \A b : b \in Shr(v, 16) <=> b \in Nat /\ b + 16 \in v
  BY InShr
<1>6. \A b : b \in Shl(v \cap Mask(16), 16) <=> b \in 0 .. 31 /\ b - 16 \in v \cap Mask(16)
  BY InShl
<1>7. \A b \in 0 .. 31 : (b + 16) % 32 = IF b < 16 THEN b + 16 ELSE b - 16
  OBVIOUS
<1>. HIDE DEF m
<1>8. ASSUME NEW b \in 0 .. 31 PROVE b \in w <=> b \in m
  <2>1. CASE b < 16
    <3>1. b \in Nat /\ b - 16 \notin Mask(16)
      BY <2>1 DEF Mask
    <3>2. b \in m <=> b + 16 \in v
      BY <1>4, <1>7, <2>1
    <3>. QED
      BY <1>5, <1>6, <3>1, <3>2
  <2>2. CASE ~(b < 16)
    <3>1. b \in Nat /\ b - 16 \in Mask(16) /\ b + 16 \notin v
      BY <2>2 DEF Mask
    <3>2. b \in m <=> b - 16 \in v
      BY <1>4, <1>7, <2>2
    <3>. QED
      BY <1>5, <1>6, <3>1, <3>2
  <2>. QED
    BY <2>1, <2>2
<1>9. \A b : b \in w => b \in 0 .. 31
  <2>1. \A b \in Nat : b + 16 \in v => b \in 0 .. 31
    OBVIOUS
  <2>. QED
    BY <1>5, <1>6, <2>1
<1>10. w = m
  <2>. HIDE DEF w
  <2>. QED
    BY <1>4, <1>8, <1>9
<1>. QED
  BY <1>2, <1>3, <1>10

\* EXT spreads the sign as shifts up and down do.
LEMMA ExtIsShifts ==
  ASSUME NEW S \in {16, 32}, NEW v \in SUBSET (0 .. S - 1), NEW g
  PROVE  LET half == S \div 2
             up == Asl(S, v, half, g).r
             down == Asr(S, up, half, g)
         IN Ext(S, v, g).r = down.r /\ Ext(S, v, g).f \ {"X"} = down.f \ {"X", "C"}
<1>. DEFINE x == "X" \in g
            half == S \div 2
            up == Asl(S, v, half, g).r
            down == Asr(S, up, half, g)
            m == Moved("ASR", S, up, x, half)
            y == XOf("ASR", S, up, x, half)
            c == CarryOf("ASR", S, up, x, half)
            w == IF half - 1 \in v THEN Mask(S) \ (Mask(half) \ v) ELSE v \cap Mask(half)
            no == FALSE
<1>1. x \in BOOLEAN /\ S \in ShiftSizes /\ no = FALSE
  BY DEF ShiftSizes
<1>2. half \in Counts /\ half \in 1 .. 32 /\ half + half = S /\ S \in Nat
  <2>1. CASE S = 16
    BY <2>1 DEF Counts
  <2>2. CASE S = 32
    BY <2>2 DEF Counts
  <2>. QED
    BY <2>1, <2>2
<1>. HIDE DEF x, half
<1>3. up = Moved("ASL", S, v, x, half)
  <2>1. Asl(S, v, half, g) =
          Shifted(S, Moved("ASL", S, v, x, half), XOf("ASL", S, v, x, half),
                  TurnedOf("ASL", S, v, half), CarryOf("ASL", S, v, x, half))
    BY <1>1, <1>2, AslAtOnce
  <2>. QED
    BY <2>1, ShiftedValue
<1>4. \A b : b \in up <=> b \in 0 .. S - 1 /\ b - half \in v
  <2>1. \A b : At("ASL", S, v, x, half, b) <=> b - half \in v
    BY DEF At
  <2>. QED
    BY <1>3, <2>1, InMoved
<1>5. up \in SUBSET (0 .. S - 1)
  BY <1>4
<1>. HIDE DEF up
<1>6. down = Shifted(S, m, y, no, c)
  BY <1>1, <1>2, <1>5, AsrAtOnce
<1>7. \A b : b \in m <=> b \in 0 .. S - 1 /\ IF b + half < S THEN b + half \in up ELSE S - 1 \in up
  <2>1. \A b : At("ASR", S, up, x, half, b) <=> IF b + half < S THEN b + half \in up ELSE S - 1 \in up
    BY DEF At
  <2>. QED
    BY <2>1, InMoved
<1>8. Ext(S, v, g) = Shifted(S, w, x, no, no)
  BY DEF Ext, LogicalBits, x, half
<1>. HIDE DEF no
<1>9. S - 1 \in up <=> half - 1 \in v
  <2>1. S - 1 \in 0 .. S - 1 /\ (S - 1) - half = half - 1
    BY <1>2
  <2>. QED
    BY <1>4, <2>1
<1>10. ASSUME NEW b \in 0 .. S - 1 PROVE b \in m <=> b \in w
  <2>1. CASE b < half
    <3>1. b + half < S /\ b + half \in 0 .. S - 1 /\ (b + half) - half = b /\ b \in 0 .. half - 1
      BY <1>2, <2>1
    <3>2. b \in m <=> b \in v
      BY <1>4, <1>7, <3>1
    <3>. QED
      BY <3>1, <3>2 DEF Mask
  <2>2. CASE ~(b < half)
    <3>1. ~(b + half < S) /\ b \notin 0 .. half - 1
      BY <1>2, <2>2
    <3>2. b \in m <=> half - 1 \in v
      BY <1>7, <1>9, <3>1
    <3>. QED
      BY <3>1, <3>2 DEF Mask
  <2>. QED
    BY <2>1, <2>2
<1>11. w \subseteq 0 .. S - 1
  BY DEF Mask
<1>. HIDE DEF m, y, c, w
<1>12. m \subseteq 0 .. S - 1
  BY <1>7
<1>13. m = w
  BY <1>10, <1>11, <1>12
<1>14. /\ Ext(S, v, g).r = w
       /\ Ext(S, v, g).f = Alu!Ccr(x, S - 1 \in w, w \cap Mask(S) = {}, no, no)
  BY <1>8, ShiftedIs
<1>15. down.r = m /\ down.f = Alu!Ccr(y, S - 1 \in m, m \cap Mask(S) = {}, no, c)
  BY <1>6, ShiftedIs
<1>. HIDE DEF down
<1>16. Ext(S, v, g).f \ {"X"} = down.f \ {"X", "C"}
  BY <1>13, <1>14, <1>15 DEF Alu!Ccr, Alu!Flags, no
<1>. QED
  BY <1>13, <1>14, <1>15, <1>16 DEF down, up, half

\* A single one shifted to its place.
LEMMA OneBit ==
  ASSUME NEW S \in ShiftSizes, NEW n \in 0 .. S - 1, NEW g
  PROVE  Lsl(S, {0}, n, g).r = {n}
<1>. DEFINE x == "X" \in g
            m == Moved("LSL", S, {0}, x, n)
<1>1. S \in Nat /\ S >= 8 /\ S <= 32 /\ x \in BOOLEAN /\ {0} \in SUBSET (0 .. S - 1)
  BY DEF ShiftSizes
<1>2. CASE n = 0
  BY <1>2 DEF Lsl, Shifted, Alu!Out
<1>3. CASE n # 0
  <2>1. n \in Counts
    BY <1>1, <1>3 DEF Counts
  <2>2. Lsl(S, {0}, n, g).r = m
    <3>. DEFINE no == FALSE
    <3>. HIDE DEF x
    <3>1. Lsl(S, {0}, n, g) =
            Shifted(S, m, XOf("LSL", S, {0}, x, n), no, CarryOf("LSL", S, {0}, x, n))
      BY <1>1, <2>1, LslAtOnce
    <3>. HIDE DEF no
    <3>. QED
      BY <3>1, ShiftedValue
  <2>3. \A b : b \in m <=> b \in 0 .. S - 1 /\ b - n \in {0}
    <3>1. \A b : At("LSL", S, {0}, x, n, b) <=> b - n \in {0}
      BY DEF At
    <3>. QED
      BY <3>1, InMoved
  <2>4. \A b \in 0 .. S - 1 : b - n \in {0} <=> b = n
    BY <1>1
  <2>. HIDE DEF m
  <2>5. m = {n}
    BY <2>3, <2>4
  <2>. QED
    BY <2>2, <2>5
<1>. QED
  BY <1>2, <1>3

\* Single bits are set, cleared and changed as by masks, and Z tells what they were.
LEMMA BitsAreMasks ==
  ASSUME NEW S \in ShiftSizes, NEW i \in 0 .. 63, NEW v \in SUBSET (0 .. S - 1), NEW g
  PROVE  LET bit == Lsl(S, {0}, i % S, g).r
         IN /\ Bset(S, i, v, g).r = Or(S, bit, v, g).r
            /\ Bclr(S, i, v, g).r = And(S, Not(S, bit, g).r, v, g).r
            /\ Bchg(S, i, v, g).r = Eor(S, bit, v, g).r
            /\ \A out \in {Btst(S, i, v, g), Bset(S, i, v, g), Bclr(S, i, v, g), Bchg(S, i, v, g)} :
                 "Z" \in out.f <=> "Z" \in And(S, bit, v, g).f
<1>. DEFINE n == i % S
            bit == Lsl(S, {0}, n, g).r
            masked == And(S, bit, v, g)
<1>1. n \in 0 .. S - 1
  <2>1. S \in Nat \ {0}
    BY DEF ShiftSizes
  <2>. QED
    BY <2>1
<1>. HIDE DEF n
<1>2. bit = {n}
  BY <1>1, OneBit
<1>. HIDE DEF bit
<1>3. \A w : LogicalBits(S, w, g).r = w
  BY DEF LogicalBits, Shifted, Alu!Out
<1>4. Bset(S, i, v, g).r = v \cup {n} /\ Or(S, bit, v, g).r = bit \cup v
  BY <1>3 DEF Bset, Or, Alu!Out, n
<1>5. /\ Bclr(S, i, v, g).r = v \ {n}
      /\ And(S, Not(S, bit, g).r, v, g).r = (Mask(S) \ bit) \cap v
  BY <1>3 DEF Bclr, And, Not, Alu!Out, n
<1>6. /\ Bchg(S, i, v, g).r = (v \ {n}) \cup ({n} \ v)
      /\ Eor(S, bit, v, g).r = (bit \ v) \cup (v \ bit)
  BY <1>3 DEF Bchg, Eor, Alu!Out, n
<1>7. "Z" \in masked.f <=> n \notin v
  <2>1. (bit \cap v) \cap Mask(S) = {} <=> n \notin v
    BY <1>1, <1>2 DEF Mask
  <2>. DEFINE w == bit \cap v
              zero == w \cap Mask(S) = {}
              top == S - 1 \in w
              no == FALSE
              x == "X" \in g
  <2>2. masked = Shifted(S, w, x, no, no)
    BY DEF And, LogicalBits
  <2>. HIDE DEF no, x, w, masked
  <2>3. masked.f = Alu!Ccr(x, top, zero, no, no)
    BY <2>2, ShiftedIs
  <2>. HIDE DEF zero, top
  <2>4. "Z" \in masked.f <=> zero
    BY <2>3 DEF Alu!Ccr, Alu!Flags
  <2>. QED
    BY <2>1, <2>4 DEF zero, w
<1>8. "Z" \in BitFlags(g, n, v) <=> n \notin v
  BY DEF BitFlags
<1>9. /\ Btst(S, i, v, g).f = BitFlags(g, n, v)
      /\ Bset(S, i, v, g).f = BitFlags(g, n, v)
      /\ Bclr(S, i, v, g).f = BitFlags(g, n, v)
  BY DEF Btst, Bset, Bclr, Alu!Out, n
<1>10. "Z" \in Bchg(S, i, v, g).f <=> n \notin v
  <2>. DEFINE r == (v \ {n}) \cup ({n} \ v)
  <2>1. Bchg(S, i, v, g).f = IF n \in r THEN g \cup {"Z"} ELSE g \ {"Z"}
    BY DEF Bchg, Alu!Out, n
  <2>2. n \in r <=> n \notin v
    OBVIOUS
  <2>. HIDE DEF r
  <2>. QED
    BY <2>1, <2>2
<1>11. /\ Bset(S, i, v, g).r = Or(S, bit, v, g).r
       /\ Bclr(S, i, v, g).r = And(S, Not(S, bit, g).r, v, g).r
       /\ Bchg(S, i, v, g).r = Eor(S, bit, v, g).r
  <2>1. v \cup {n} = bit \cup v
    BY <1>2
  <2>2. v \ {n} = (Mask(S) \ bit) \cap v
    BY <1>2 DEF Mask
  <2>3. (v \ {n}) \cup ({n} \ v) = (bit \ v) \cup (v \ bit)
    BY <1>2
  <2>. QED
    BY <1>4, <1>5, <1>6, <2>1, <2>2, <2>3
<1>. HIDE DEF masked
<1>12. \A out \in {Btst(S, i, v, g), Bset(S, i, v, g), Bclr(S, i, v, g), Bchg(S, i, v, g)} :
         "Z" \in out.f <=> "Z" \in masked.f
  BY <1>7, <1>8, <1>9, <1>10
<1>. QED
  BY <1>11, <1>12 DEF masked, bit, n

LEMMA SameFollows == ShiftInv => SameByAnotherWay
<1>. SUFFICES ASSUME ShiftInv PROVE SameByAnotherWay
  OBVIOUS
<1>1. /\ size \in ShiftSizes /\ start \in SUBSET (0 .. size - 1) /\ count \in 0 .. 63
      /\ kind = "none" => val = start
  BY DEF ShiftInv, ShiftTypeOK, ShiftedFar
<1>2. size = 8 /\ kind = "none" =>
        /\ SameNumber(Asl(8, val, 1, f0), Alu!Add(Number(val), Number(val)),
                      {"X", "N", "Z", "V", "C"})
        /\ SameNumber(Roxl(8, val, 1, f0, TRUE), Alu!Addx(f0, Number(val), Number(val)),
                      {"X", "N", "C"})
        /\ Alu!Neg(Number(val)).r = Alu!Add(1, Number(Not(8, val, f0).r)).r
        /\ Alu!Negx({"X"}, Number(val)).r = Number(Not(8, val, f0).r)
  <2>. SUFFICES ASSUME size = 8, kind = "none"
                PROVE  /\ SameNumber(Asl(8, val, 1, f0), Alu!Add(Number(val), Number(val)),
                                     {"X", "N", "Z", "V", "C"})
                       /\ SameNumber(Roxl(8, val, 1, f0, TRUE),
                                     Alu!Addx(f0, Number(val), Number(val)), {"X", "N", "C"})
                       /\ Alu!Neg(Number(val)).r = Alu!Add(1, Number(Not(8, val, f0).r)).r
                       /\ Alu!Negx({"X"}, Number(val)).r = Number(Not(8, val, f0).r)
    OBVIOUS
  <2>1. val \in SUBSET (0 .. 7)
    <3>1. 8 - 1 = 7
      OBVIOUS
    <3>. QED
      BY <1>1, <3>1
  <2>2. SameNumber(Asl(8, val, 1, f0), Alu!Add(Number(val), Number(val)),
                   {"X", "N", "Z", "V", "C"})
    <3>. DEFINE a == Asl(8, val, 1, f0)
                b == Alu!Add(Number(val), Number(val))
    <3>1. Number(a.r) = b.r /\ a.f = b.f
      BY <2>1, AslIsAdd
    <3>. HIDE DEF a, b
    <3>2. SameNumber(a, b, {"X", "N", "Z", "V", "C"})
      BY <3>1 DEF SameNumber
    <3>. QED
      BY <3>2 DEF a, b
  <2>3. SameNumber(Roxl(8, val, 1, f0, TRUE), Alu!Addx(f0, Number(val), Number(val)),
                   {"X", "N", "C"})
    BY <2>1, RoxlIsAddx DEF SameNumber
  <2>. QED
    BY <2>1, <2>2, <2>3, NegIsNot
<1>3. size = 32 /\ kind = "none" => Swap(val, f0).r = Ror(32, val, 16, f0, FALSE).r
  <2>1. 32 - 1 = 31
    OBVIOUS
  <2>. QED
    BY <1>1, <2>1, SwapIsRor
<1>4. size \in {16, 32} /\ kind = "none" =>
        LET half == size \div 2
            up == Asl(size, val, half, f0).r
            down == Asr(size, up, half, f0)
        IN Ext(size, val, f0).r = down.r /\ Ext(size, val, f0).f \ {"X"} = down.f \ {"X", "C"}
  BY <1>1, ExtIsShifts
<1>5. LET bit == Lsl(size, {0}, count % size, f0).r
      IN /\ Bset(size, count, start, f0).r = Or(size, bit, start, f0).r
         /\ Bclr(size, count, start, f0).r = And(size, Not(size, bit, f0).r, start, f0).r
         /\ Bchg(size, count, start, f0).r = Eor(size, bit, start, f0).r
         /\ \A out \in {Btst(size, count, start, f0), Bset(size, count, start, f0),
                        Bclr(size, count, start, f0), Bchg(size, count, start, f0)} :
              "Z" \in out.f <=> "Z" \in And(size, bit, start, f0).f
  BY <1>1, BitsAreMasks
<1>. QED
  BY <1>2, <1>3, <1>4, <1>5 DEF SameByAnotherWay

\* Instructions the generator has a case of its own for, and that ought to do the same, do:
\* ASL and ROXL by one and ADD and ADDX of a byte to itself, NEG, NEGX and NOT, SWAP and ROR,
\* EXT and two shifts, a bit and its mask, for every value, every bit number and any flags.
THEOREM DifferentWaysAgree == ShiftSpec => []SameByAnotherWay
BY SameFollows, ShiftInvariance, PTL

-----------------------------------------------------------------------------
(* Places of a list of registers.                                          *)

\* The registers of a list from r on, and up to r.
From(list, r) == {i \in list : i >= r}
UpTo(list, r) == {i \in list : i <= r}

\* A list is a finite set of numbers, and so are its parts.
LEMMA ListsAreFinite ==
  ASSUME NEW list, list \subseteq Regs \cup {A7}
  PROVE  /\ IsFiniteSet(list) 
         /\ \A r \in list : r \in Nat /\ r <= 15
         /\ \A part \in SUBSET list : IsFiniteSet(part) /\ Cardinality(part) \in Nat
<1>1. \A r \in list : r \in Nat /\ r <= 15
  BY DEF Regs, DataRegs, A6, A7
<1>3. IsFiniteSet(list)
  BY <1>1, FS_BoundedSetOfNaturals
<1> QED
  BY <1>1, <1>3, FS_Subset, FS_CardinalityType

\* The bits of a mask of MOVEM to -(A7) are in the opposite order of the registers.
LEMMA PlaceDownIs ==
  ASSUME NEW list, list \subseteq Regs \cup {A7}, NEW r \in list
  PROVE  PlaceDown(list, r) = Cardinality(From(list, r))
<1> DEFINE bits == {i \in MaskDown(list) : i <= 15 - r}
           g == [i \in From(list, r) |-> 15 - i]
<1>1. r \in Int /\ \A i \in list : i \in Int
  BY ListsAreFinite
<1>2. g \in Bijection(From(list, r), bits)
  <2>1. \A i \in From(list, r) : g[i] \in bits
    BY <1>1 DEF From, MaskDown
  <2>2. \A i, j \in From(list, r) : g[i] = g[j] => i = j
    BY <1>1 DEF From
  <2>3. \A b \in bits : \E i \in From(list, r) : g[i] = b
    BY <1>1 DEF From, MaskDown
  <2> QED
    BY <2>1, <2>2, <2>3 DEF Bijection, Injection, Surjection, IsInjective
<1>3. IsFiniteSet(From(list, r))
  BY ListsAreFinite DEF From
<1>4. ExistsBijection(From(list, r), bits)
  BY <1>2 DEF ExistsBijection
<1> HIDE DEF g, bits
<1>5. Cardinality(bits) = Cardinality(From(list, r))
  BY <1>3, <1>4, FS_Bijection
<1> QED
  BY <1>5 DEF PlaceDown, Place, bits

LEMMA PlaceUpIs ==
  ASSUME NEW list, list \subseteq Regs \cup {A7}, NEW r \in list
  PROVE  PlaceUp(list, r) = Cardinality(UpTo(list, r))
<1> DEFINE data == {i \in list : i < 8}
           others == {i \in list \ data : i <= r}
<1>1. r \in Int /\ \A i \in list : i \in Int
  BY ListsAreFinite
<1>2. CASE r < 8
  <2>1. \A i \in list : i <= r => i < 8
    BY <1>1, <1>2
  <2>2. {i \in data : i <= r} = UpTo(list, r)
    BY <2>1, Zenon DEF UpTo
  <2> QED
    BY <2>2, <1>2 DEF PlaceUp, Place
<1>3. CASE ~(r < 8)
  <2>1. IsFiniteSet(data) /\ IsFiniteSet(others) /\ Cardinality(others) \in Nat
        /\ Cardinality(data) \in Nat
    BY ListsAreFinite
  <2>2. \A i \in list : i < 8 => i <= r
    BY <1>1, <1>3
  <2>3. data \cap others = {} /\ data \cup others = UpTo(list, r)
    BY <2>2, Zenon DEF UpTo
  <2> HIDE DEF data, others
  <2>4. Cardinality(data \cup others)
        = Cardinality(data) + Cardinality(others) - Cardinality(data \cap others)
    BY <2>1, FS_Union
  <2>5. Cardinality(UpTo(list, r)) = Cardinality(data) + Cardinality(others)
    <3>1. Cardinality(data \cap others) = 0
      BY <2>3, FS_EmptySet
    <3>2. Cardinality(UpTo(list, r)) = Cardinality(data) + Cardinality(others) - 0
      BY <2>3, <2>4, <3>1
    <3> QED
      BY <2>1, <3>2
  <2> QED
    BY <2>5, <1>3 DEF PlaceUp, Place, data, others
<1> QED
  BY <1>2, <1>3

\* A register is looked for where it was put: counted from the other end.
LEMMA PlacesMeet ==
  ASSUME NEW list, list \subseteq Regs \cup {A7}, NEW r \in list
  PROVE  /\ PlaceDown(list, r) \in 1 .. Cardinality(list)
         /\ PlaceUp(list, r) \in 1 .. Cardinality(list)
         /\ PlaceDown(list, r) + PlaceUp(list, r) = Cardinality(list) + 1
<1> DEFINE F == From(list, r)
           U == UpTo(list, r)
<1>1. r \in Int /\ \A i \in list : i \in Int
  BY ListsAreFinite
<1>2. F \subseteq list /\ U \subseteq list
  BY DEF From, UpTo
<1>3. F \cup U = list /\ F \cap U = {r}
  <2>1. \A i \in list : (i >= r \/ i <= r) /\ (i >= r /\ i <= r <=> i = r)
    BY <1>1
  <2> QED
    BY <2>1, Zenon DEF From, UpTo
<1>4. r \in F /\ r \in U
  BY <1>1 DEF From, UpTo
<1> HIDE DEF F, U
<1>5. /\ IsFiniteSet(list) /\ IsFiniteSet(F) /\ IsFiniteSet(U)
      /\ Cardinality(F) \in Nat /\ Cardinality(U) \in Nat /\ Cardinality(list) \in Nat
  BY <1>2, ListsAreFinite
<1>b. Cardinality(F \cup U) = Cardinality(F) + Cardinality(U) - Cardinality(F \cap U)
  BY <1>5, FS_Union
<1>6. Cardinality(list) = Cardinality(F) + Cardinality(U) - 1
  BY <1>3, <1>b, FS_Singleton
<1>7. Cardinality(F) # 0 /\ Cardinality(U) # 0
  BY <1>4, <1>5, FS_EmptySet
<1>8. PlaceDown(list, r) = Cardinality(F) /\ PlaceUp(list, r) = Cardinality(U)
  BY PlaceDownIs, PlaceUpIs DEF F, U
<1> HIDE DEF F, U
<1> QED
  BY <1>5, <1>6, <1>7, <1>8

\* No two registers have the same place.
LEMMA PlacesDiffer ==
  ASSUME NEW list, list \subseteq Regs \cup {A7}, NEW r \in list, NEW q \in list, q # r
  PROVE  PlaceDown(list, q) # PlaceDown(list, r)
<1>1. \A i \in list : i \in Int
  BY ListsAreFinite
<1>2. ASSUME NEW a \in list, NEW b \in list, a < b
      PROVE  PlaceDown(list, a) # PlaceDown(list, b)
  <2>1. From(list, b) \subseteq From(list, a) /\ a \in From(list, a) /\ a \notin From(list, b)
    BY <1>1, <1>2 DEF From
  <2>2. IsFiniteSet(From(list, a))
    BY ListsAreFinite DEF From
  <2>3. Cardinality(From(list, b)) # Cardinality(From(list, a))
    BY <2>1, <2>2, FS_Subset
  <2> QED
    BY <2>3, <1>2, PlaceDownIs
<1> QED
  BY <1>1, <1>2

-----------------------------------------------------------------------------
(* Bytes.                                                                  *)

FourBytes == [1 .. 4 -> Int]
Cells == 0 .. Top - 1

LEMMA SeqsAreFunctions ==
  ASSUME NEW p, NEW n \in {1, 2, 4}
  PROVE  p \in [1 .. n -> Int] <=> p \in Seq(Int) /\ Len(p) = n
OBVIOUS

\* The low bytes of a long.
LEMMA LowIs ==
  ASSUME NEW l \in FourBytes, NEW n \in {1, 2, 4}
  PROVE  /\ Low(l, n) \in [1 .. n -> Int]
         /\ \A i \in 1 .. n : Low(l, n)[i] = l[4 - n + i]
<1>1. \A i \in 5 - n .. 4 : l[i] \in Int
  BY DEF FourBytes
<1>2. /\ SubSeq(l, 5 - n, 4) \in Seq(Int)
      /\ Len(SubSeq(l, 5 - n, 4)) = n
      /\ \A i \in 1 .. n : SubSeq(l, 5 - n, 4)[i] = l[4 - n + i]
  BY <1>1, SubSeqProperties
<1> QED
  BY <1>2, SeqsAreFunctions DEF Low

LEMMA LowOfFour ==
  ASSUME NEW l \in FourBytes
  PROVE  Low(l, 4) = l
<1>1. Low(l, 4) \in FourBytes /\ \A i \in 1 .. 4 : Low(l, 4)[i] = l[i]
  BY LowIs DEF FourBytes
<1> QED
  BY <1>1 DEF FourBytes

LEMMA PartlyIs ==
  ASSUME NEW l \in FourBytes, NEW n \in {1, 2, 4}, NEW p \in [1 .. n -> Int]
  PROVE  Partly(l, p) \in FourBytes
<1>1. p \in Seq(Int) /\ Len(p) = n
  BY SeqsAreFunctions
<1>2. \A i \in 1 .. 4 - n : l[i] \in Int
  BY DEF FourBytes
<1>3. SubSeq(l, 1, 4 - n) \in Seq(Int) /\ Len(SubSeq(l, 1, 4 - n)) = 4 - n
  BY <1>2, SubSeqProperties
<1>4. Partly(l, p) \in Seq(Int) /\ Len(Partly(l, p)) = 4
  BY <1>1, <1>3, ConcatProperties DEF Partly
<1> QED
  BY <1>4, SeqsAreFunctions DEF FourBytes

LEMMA TwoWords ==
  ASSUME NEW a \in Int, NEW b \in Int, NEW p \in [1 .. 2 -> Int]
  PROVE  <<a, b>> \o p \in FourBytes /\ <<a, b>> \o p = <<a, b, p[1], p[2]>>
<1> DEFINE high == <<a, b>>
<1>1. high \in Seq(Int) /\ Len(high) = 2 /\ high[1] = a /\ high[2] = b
  OBVIOUS
<1>2. p \in Seq(Int) /\ Len(p) = 2
  BY SeqsAreFunctions
<1> HIDE DEF high
<1>3. /\ high \o p \in Seq(Int) /\ Len(high \o p) = 4
      /\ \A i \in 1 .. 4 : (high \o p)[i] = IF i <= 2 THEN high[i] ELSE p[i - 2]
  <2>1. /\ high \o p \in Seq(Int) /\ Len(high \o p) = Len(high) + Len(p)
        /\ \A i \in 1 .. Len(high) + Len(p) :
             (high \o p)[i] = IF i <= Len(high) THEN high[i] ELSE p[i - Len(high)]
    BY <1>1, <1>2, ConcatProperties
  <2> QED
    BY <1>1, <1>2, <2>1
<1>4. high \o p \in FourBytes
  BY <1>3, SeqsAreFunctions DEF FourBytes
<1>5. /\ (high \o p)[1] = a /\ (high \o p)[2] = b
      /\ (high \o p)[3] = p[1] /\ (high \o p)[4] = p[2]
  BY <1>1, <1>3
<1>6. high \o p = <<a, b, p[1], p[2]>>
  <2>1. \A l \in FourBytes : l = <<l[1], l[2], l[3], l[4]>>
    BY DEF FourBytes
  <2> QED
    BY <1>4, <1>5, <2>1
<1> QED
  BY <1>4, <1>6 DEF high

\* A long that MOVEM reads is what it was; a word becomes a long.
LEMMA ExtendedIs ==
  ASSUME NEW n \in {2, 4}, NEW p \in [1 .. n -> Int]
  PROVE  Extended(p) \in FourBytes /\ (n = 4 => Extended(p) = p)
<1>1. p \in Seq(Int) /\ Len(p) = n
  BY SeqsAreFunctions
<1>2. CASE n = 4
  BY <1>1, <1>2 DEF Extended, FourBytes
<1>3. CASE n = 2
  BY <1>1, <1>3, TwoWords DEF Extended
<1> QED
  BY <1>2, <1>3

\* The frame pointer is an address, which a word can hold.
LEMMA AddressesFitAWord ==
  ASSUME NEW k \in Int
  PROVE  Long(k) \in FourBytes /\ Address(Long(k)) = k /\ Extended(Low(Long(k), 2)) = Long(k)
<1>1. Long(k) \in FourBytes /\ Address(Long(k)) = k
  BY DEF Long, FourBytes, Address
<1>2. Low(Long(k), 2) \in [1 .. 2 -> Int] /\ Low(Long(k), 2)[1] = 0 /\ Low(Long(k), 2)[2] = k
  BY <1>1, LowIs DEF Long
<1>3. Low(Long(k), 2) = <<0, k>>
  BY <1>2
<1>4. Extended(<<0, k>>) = <<0, 0>> \o <<0, k>>
  BY DEF Extended
<1>5. <<0, 0>> \o <<0, k>> = <<0, 0, 0, k>>
  <2>1. <<0, k>> \in [1 .. 2 -> Int]
    OBVIOUS
  <2> QED
    BY <2>1, TwoWords
<1> QED
  BY <1>1, <1>3, <1>4, <1>5 DEF Long

-----------------------------------------------------------------------------
(* Memory.                                                                 *)

LEMMA CellsAre ==
  /\ \A x : x \in Cells <=> x \in Int /\ 0 <= x /\ x < Top
  /\ Top \in Int /\ UserTop \in Int /\ 0 <= UserTop /\ UserTop <= Top
BY DEF Cells, Top, UserTop

LEMMA GetIs ==
  ASSUME NEW m \in [Cells -> Int], NEW a \in Int, NEW n \in {1, 2, 4}, a >= 0, a + n <= Top
  PROVE  Get(m, a, n) \in [1 .. n -> Int]
BY CellsAre DEF Get

\* What is not written stays.
LEMMA GetKept ==
  ASSUME NEW m1, NEW m2, NEW a \in Int, NEW n \in {1, 2, 4},
         \A x \in a .. a + n - 1 : m2[x] = m1[x]
  PROVE  Get(m2, a, n) = Get(m1, a, n)
BY DEF Get

LEMMA PutIs ==
  ASSUME NEW m \in [Cells -> Int], NEW a \in Int, NEW n \in {1, 2, 4},
         NEW b \in [1 .. n -> Int]
  PROVE  /\ Put(m, a, b) \in [Cells -> Int]
         /\ \A x \in Cells : x \notin a .. a + n - 1 => Put(m, a, b)[x] = m[x]
         /\ a >= 0 /\ a + n <= Top => Get(Put(m, a, b), a, n) = b
<1>1. Len(b) = n
  BY SeqsAreFunctions
<1>2. Put(m, a, b) = [x \in Cells |-> IF x - a \in 0 .. n - 1 THEN b[x - a + 1] ELSE m[x]]
  BY <1>1 DEF Put
<1>3. Put(m, a, b) \in [Cells -> Int]
  <2>1. \A x \in Cells : x - a \in 0 .. n - 1 => x - a + 1 \in 1 .. n
    BY CellsAre
  <2> QED
    BY <1>2, <2>1
<1>4. \A x \in Cells : x \notin a .. a + n - 1 => Put(m, a, b)[x] = m[x]
  BY <1>2, CellsAre
<1>5. ASSUME a >= 0, a + n <= Top
      PROVE  Get(Put(m, a, b), a, n) = b
  <2>1. \A i \in 1 .. n : a + i - 1 \in Cells /\ Put(m, a, b)[a + i - 1] = b[i]
    <3> SUFFICES ASSUME NEW i \in 1 .. n
                 PROVE  a + i - 1 \in Cells /\ Put(m, a, b)[a + i - 1] = b[i]
      OBVIOUS
    <3>1. a + i - 1 \in Cells
      BY <1>5, CellsAre
    <3>2. (a + i - 1) - a \in 0 .. n - 1 /\ (a + i - 1) - a + 1 = i
      OBVIOUS
    <3> QED
      BY <1>2, <3>1, <3>2
  <2> QED
    BY <2>1 DEF Get
<1> QED
  BY <1>3, <1>4, <1>5

LEMMA PutLongIs ==
  ASSUME NEW m \in [Cells -> Int], NEW a \in Int, a >= 0, a + 4 <= Top,
         NEW b \in [1 .. 4 -> Int]
  PROVE  /\ Put(m, a, b) \in [Cells -> Int]
         /\ \A x \in Cells : x \notin a .. a + 3 => Put(m, a, b)[x] = m[x]
         /\ Get(Put(m, a, b), a, 4) = b
<1>1. 4 \in {1, 2, 4} /\ a + 4 - 1 = a + 3
  OBVIOUS
<1> QED
  BY <1>1, PutIs

\* Where MOVEM puts register r of a list, and the registers that cover a cell.
Slot(list, a, n, r) == a - n * PlaceDown(list, r)
Covering(list, a, n, x) == {r \in list : x - Slot(list, a, n, r) \in 0 .. n - 1}
ListStored(m, list, a, n, v) ==
  [x \in DOMAIN m |->
     IF Covering(list, a, n, x) = {} THEN m[x]
     ELSE LET r == CHOOSE i \in Covering(list, a, n, x) : TRUE
          IN Low(v[r], n)[x - Slot(list, a, n, r) + 1]]

\* A slot is inside the part of the stack that the list takes.
LEMMA SlotsAreInside ==
  ASSUME NEW list, list \subseteq Regs \cup {A7}, NEW r \in list, NEW n \in {2, 4}, NEW a \in Int
  PROVE  /\ Slot(list, a, n, r) \in Int /\ Cardinality(list) \in Nat
         /\ a - n * Cardinality(list) <= Slot(list, a, n, r) /\ Slot(list, a, n, r) + n <= a
         /\ Slot(list, a, n, r)
              = (a - n * Cardinality(list)) + n * (PlaceUp(list, r) - 1)
<1>1. Cardinality(list) \in Nat
  BY ListsAreFinite
<1>2. CASE n = 2
  BY <1>1, <1>2, PlacesMeet DEF Slot
<1>3. CASE n = 4
  BY <1>1, <1>3, PlacesMeet DEF Slot
<1> QED
  BY <1>2, <1>3

LEMMA SlotsAreApart ==
  ASSUME NEW list, list \subseteq Regs \cup {A7}, NEW r \in list, NEW q \in list,
         NEW n \in {2, 4}, NEW a \in Int, NEW x \in Int,
         r \in Covering(list, a, n, x), q \in Covering(list, a, n, x)
  PROVE  q = r
<1> SUFFICES ASSUME q # r PROVE FALSE
  OBVIOUS
<1> DEFINE i == PlaceDown(list, q)
           j == PlaceDown(list, r)
<1>1. i # j /\ i \in Int /\ j \in Int
  BY PlacesDiffer, PlacesMeet
<1>2. x - (a - n * i) \in 0 .. n - 1 /\ x - (a - n * j) \in 0 .. n - 1
  BY Zenon DEF Covering, Slot
<1> HIDE DEF i, j
<1>3. CASE n = 2
  BY <1>1, <1>2, <1>3
<1>4. CASE n = 4
  BY <1>1, <1>2, <1>4
<1> QED
  BY <1>3, <1>4

LEMMA StoredIs ==
  ASSUME NEW m \in [Cells -> Int], NEW list, list \subseteq Regs \cup {A7}, NEW n \in {2, 4},
         NEW a \in Int, a - n * Cardinality(list) >= 0, a <= Top, NEW v \in [list -> FourBytes]
  PROVE  /\ ListStored(m, list, a, n, v) \in [Cells -> Int]
         /\ \A x \in Cells : x \notin a - n * Cardinality(list) .. a - 1
                               => ListStored(m, list, a, n, v)[x] = m[x]
         /\ \A r \in list : Get(ListStored(m, list, a, n, v), Slot(list, a, n, r), n) = Low(v[r], n)
<1> DEFINE m2 == ListStored(m, list, a, n, v)
<1>0. \A x \in Cells : x \in Int
  BY CellsAre
<1>1. ASSUME NEW x \in Cells, NEW r \in Covering(list, a, n, x)
      PROVE  m2[x] = Low(v[r], n)[x - Slot(list, a, n, r) + 1]
  <2>1. r = CHOOSE i \in Covering(list, a, n, x) : TRUE
    BY <1>0, <1>1, SlotsAreApart DEF Covering
  <2>2. Covering(list, a, n, x) # {}
    BY <1>1
  <2> QED
    BY <2>1, <2>2 DEF ListStored
<1>2. ASSUME NEW x \in Cells, Covering(list, a, n, x) = {}
      PROVE  m2[x] = m[x]
  BY <1>2 DEF ListStored
<1>3. ASSUME NEW x \in Cells
      PROVE  m2[x] \in Int
  <2>1. CASE Covering(list, a, n, x) = {}
    BY <1>2, <2>1
  <2>2. CASE Covering(list, a, n, x) # {}
    <3>1. PICK r \in Covering(list, a, n, x) : TRUE
      BY <2>2
    <3>2. r \in list /\ x - Slot(list, a, n, r) + 1 \in 1 .. n
      BY <1>0, SlotsAreInside DEF Covering
    <3>3. Low(v[r], n) \in [1 .. n -> Int]
      BY <3>2, LowIs
    <3>4. Low(v[r], n)[x - Slot(list, a, n, r) + 1] \in Int
      BY <3>2, <3>3
    <3> QED
      BY <1>1, <3>4
  <2> QED
    BY <2>1, <2>2
<1>4. m2 \in [Cells -> Int]
  BY <1>3 DEF ListStored
<1>5. ASSUME NEW x \in Cells, x \notin a - n * Cardinality(list) .. a - 1
      PROVE  m2[x] = m[x]
  <2>1. ASSUME NEW r \in Covering(list, a, n, x) PROVE FALSE
    <3>1. r \in list /\ x - Slot(list, a, n, r) \in 0 .. n - 1
      BY DEF Covering
    <3>2. /\ Slot(list, a, n, r) \in Int /\ Cardinality(list) \in Nat
          /\ a - n * Cardinality(list) <= Slot(list, a, n, r) /\ Slot(list, a, n, r) + n <= a
      BY <3>1, SlotsAreInside
    <3>3. n * Cardinality(list) \in Int
      BY <3>2
    <3> QED
      BY <1>0, <1>5, <3>1, <3>2, <3>3
  <2> QED
    BY <1>2, <1>5, <2>1
<1>6. ASSUME NEW r \in list
      PROVE  Get(m2, Slot(list, a, n, r), n) = Low(v[r], n)
  <2> DEFINE base == Slot(list, a, n, r)
  <2>1. base \in Int /\ 0 <= base /\ base + n <= Top
    <3>1. n * Cardinality(list) \in Int
      BY SlotsAreInside
    <3> QED
      BY <3>1, SlotsAreInside, CellsAre
  <2>2. ASSUME NEW i \in 1 .. n
        PROVE  m2[base + i - 1] = Low(v[r], n)[i]
    <3>1. base + i - 1 \in Cells
      BY <2>1, CellsAre
    <3>2. (base + i - 1) - base \in 0 .. n - 1 /\ (base + i - 1) - base + 1 = i
      BY <2>1
    <3>3. r \in Covering(list, a, n, base + i - 1)
      BY <3>2 DEF Covering
    <3> QED
      BY <1>1, <3>1, <3>2, <3>3
  <2>3. Low(v[r], n) \in [1 .. n -> Int]
    BY LowIs
  <2> HIDE DEF base, m2
  <2> QED
    BY <2>2, <2>3 DEF Get, base
<1> QED
  BY <1>4, <1>5, <1>6

-----------------------------------------------------------------------------
(* What the guest has entered.                                             *)

\* The two stack pointers and the mode, now and when something was entered.
Usp(t) == IF t.s THEN t.otherSp ELSE t.a7
Ssp(t) == IF t.s THEN t.a7 ELSE t.otherSp
Moments == {t \in [a7 : Int, otherSp : Int, s : BOOLEAN] :
              /\ 0 <= Usp(t) /\ Usp(t) <= UserTop /\ UserTop <= Ssp(t) /\ Ssp(t) <= Top
              /\ t.a7 % 2 = 0 /\ t.otherSp % 2 = 0}
AsMoment(e) == [a7 |-> e.a7, otherSp |-> e.otherSp, s |-> e.s]
Moment(q, t, i) == IF i <= Len(q) THEN AsMoment(q[i]) ELSE t
Within(t1, t2) == Usp(t1) <= Usp(t2) /\ Ssp(t1) <= Ssp(t2)

\* The cells that are in use at a moment.
InUse(t, x) == (Usp(t) <= x /\ x < UserTop) \/ Ssp(t) <= x
Untouched(t, m1, m2) == \A x \in Cells : InUse(t, x) => m2[x] = m1[x]

Singles == {"byte", "word", "long"}
EntryKinds == Singles \cup {"longs", "words", "link", "call", "exception"}
Entries == [what : EntryKinds, list : SUBSET (Regs \cup {A7}), part : Seq(Int),
            a7 : Int, otherSp : Int, s : BOOLEAN, pc : Int, ccr : Int,
            fp : FourBytes, saved : [Regs -> FourBytes]]

\* What entry e has left in memory at m when the stack pointers were those of t.
Same(e, t) == t.s = e.s /\ t.otherSp = e.otherSp
SingleFrame(e, t, m) ==
  /\ Same(e, t) /\ t.a7 = e.a7 - ByteInc(Bytes(e.what))
  /\ Get(m, t.a7, Bytes(e.what)) = e.part
ListFrame(e, t, m, n) ==
  /\ Same(e, t) /\ t.a7 = e.a7 - n * Cardinality(e.list)
  /\ \A r \in e.list \ {A7} : Get(m, Slot(e.list, e.a7, n, r), n) = Low(e.saved[r], n)
LinkFrame(e, t, m) ==
  Same(e, t) /\ t.a7 <= e.a7 - 4 /\ Get(m, e.a7 - 4, 4) = e.fp
CallFrame(e, t, m) ==
  Same(e, t) /\ t.a7 = e.a7 - 4 /\ Get(m, t.a7, 4) = Long(e.pc + 2)
ExceptionFrame(e, t, m) ==
  /\ t.s = TRUE /\ t.a7 = Ssp(e) - 6 /\ t.otherSp = Usp(e)
  /\ Get(m, t.a7, 2) = <<IF e.s THEN 32 ELSE 0, e.ccr>>
  /\ Get(m, t.a7 + 2, 4) = Long(e.pc)
Frame(e, t, m) ==
  /\ e.what \in Singles => SingleFrame(e, t, m)
  /\ e.what = "longs" => ListFrame(e, t, m, 4)
  /\ e.what = "words" => ListFrame(e, t, m, 2)
  /\ e.what = "link" => LinkFrame(e, t, m)
  /\ e.what = "call" => CallFrame(e, t, m)
  /\ e.what = "exception" => ExceptionFrame(e, t, m)

\* Everything that was entered is still there, one on the other.
Stacked(q, t, m) ==
  /\ q \in Seq(Entries) /\ t \in Moments
  /\ \A i \in 1 .. Len(q) : AsMoment(q[i]) \in Moments /\ q[i].saved[A6] = q[i].fp
  /\ \A i \in 1 .. Len(q), j \in 1 .. Len(q) + 1 :
       i < j => Within(Moment(q, t, j), Moment(q, t, i))
  /\ \A i \in 1 .. Len(q) : Frame(q[i], Moment(q, t, i + 1), m)

\* The frame pointer is that of the last LINK that is open, then and now.
FpAt(q, fp, i) == IF i <= Len(q) THEN q[i].fp ELSE fp
Linked(q, fp) ==
  \A i \in 1 .. Len(q), j \in 1 .. Len(q) + 1 :
    i < j /\ q[i].what = "link" /\ (\A k \in i + 1 .. j - 1 : q[k].what # "link")
      => FpAt(q, fp, j) = Long(q[i].a7 - 4)

LEMMA MomentsAre ==
  ASSUME NEW t \in Moments
  PROVE  /\ t.a7 \in Int /\ t.otherSp \in Int /\ t.s \in BOOLEAN
         /\ Usp(t) \in Int /\ Ssp(t) \in Int
         /\ 0 <= Usp(t) /\ Usp(t) <= UserTop /\ UserTop <= Ssp(t) /\ Ssp(t) <= Top
         /\ 0 <= t.a7 /\ t.a7 <= Top
         /\ t.a7 % 2 = 0 /\ t.otherSp % 2 = 0
         /\ Usp(t) % 2 = 0 /\ Ssp(t) % 2 = 0
BY CellsAre DEF Moments, Usp, Ssp

\* Bytes between the stack pointers of two moments are in use at the later.
LEMMA BytesAreKept ==
  ASSUME NEW t \in Moments, NEW e \in Entries, AsMoment(e) \in Moments, Same(e, t),
         NEW a \in Int, NEW n \in {1, 2, 4}, t.a7 <= a, a + n <= e.a7,
         NEW m1, NEW m2, Untouched(t, m1, m2)
  PROVE  Get(m2, a, n) = Get(m1, a, n)
<1>1. ASSUME NEW x \in a .. a + n - 1
      PROVE  m2[x] = m1[x]
  <2>1. x \in Cells /\ InUse(t, x)
    BY CellsAre, MomentsAre DEF InUse, Usp, Ssp, AsMoment, Same, Moments
  <2> QED
    BY <2>1 DEF Untouched
<1> QED
  BY <1>1, GetKept

LEMMA FramesAreKept ==
  ASSUME NEW t \in Moments, NEW e \in Entries, AsMoment(e) \in Moments,
         NEW m1, NEW m2, Frame(e, t, m1), Untouched(t, m1, m2)
  PROVE  Frame(e, t, m2)
<1>0. e.a7 \in Int /\ t.a7 \in Int
  BY MomentsAre DEF Entries
<1>1. e.what \in Singles => SingleFrame(e, t, m2)
  <2> SUFFICES ASSUME e.what \in Singles PROVE SingleFrame(e, t, m2)
    OBVIOUS
  <2>1. SingleFrame(e, t, m1)
    BY DEF Frame
  <2>2. Bytes(e.what) \in {1, 2, 4} /\ ByteInc(Bytes(e.what)) >= Bytes(e.what)
        /\ ByteInc(Bytes(e.what)) \in Int
    BY DEF Singles, Bytes, ByteInc
  <2>3. t.a7 + Bytes(e.what) <= e.a7
    BY <1>0, <2>1, <2>2 DEF SingleFrame
  <2>4. Get(m2, t.a7, Bytes(e.what)) = Get(m1, t.a7, Bytes(e.what))
    BY <1>0, <2>1, <2>2, <2>3, BytesAreKept DEF SingleFrame
  <2> QED
    BY <2>1, <2>4 DEF SingleFrame
<1>2. ASSUME NEW n \in {2, 4}, ListFrame(e, t, m1, n)
      PROVE  ListFrame(e, t, m2, n)
  <2>1. ASSUME NEW r \in e.list \ {A7}
        PROVE  Get(m2, Slot(e.list, e.a7, n, r), n) = Get(m1, Slot(e.list, e.a7, n, r), n)
    <3>1. e.list \subseteq Regs \cup {A7} /\ r \in e.list
      BY <2>1 DEF Entries
    <3>2. /\ Slot(e.list, e.a7, n, r) \in Int
          /\ e.a7 - n * Cardinality(e.list) <= Slot(e.list, e.a7, n, r)
          /\ Slot(e.list, e.a7, n, r) + n <= e.a7
      BY <1>0, <3>1, SlotsAreInside
    <3>3. t.a7 <= Slot(e.list, e.a7, n, r) /\ Same(e, t)
      BY <1>2, <3>2 DEF ListFrame
    <3> QED
      BY <3>2, <3>3, BytesAreKept
  <2> QED
    BY <1>2, <2>1 DEF ListFrame
<1>3. ASSUME LinkFrame(e, t, m1)
      PROVE  LinkFrame(e, t, m2)
  <2>1. Get(m2, e.a7 - 4, 4) = Get(m1, e.a7 - 4, 4)
    BY <1>0, <1>3, BytesAreKept DEF LinkFrame
  <2> QED
    BY <1>3, <2>1 DEF LinkFrame
<1>4. ASSUME CallFrame(e, t, m1)
      PROVE  CallFrame(e, t, m2)
  <2>1. Get(m2, t.a7, 4) = Get(m1, t.a7, 4)
    BY <1>0, <1>4, BytesAreKept DEF CallFrame
  <2> QED
    BY <1>4, <2>1 DEF CallFrame
<1>5. ASSUME ExceptionFrame(e, t, m1)
      PROVE  ExceptionFrame(e, t, m2)
  <2>1. \A x \in t.a7 .. t.a7 + 5 : m2[x] = m1[x]
    <3> SUFFICES ASSUME NEW x \in t.a7 .. t.a7 + 5 PROVE m2[x] = m1[x]
      OBVIOUS
    <3>1. Ssp(e) \in Int /\ Ssp(e) <= Top
      BY MomentsAre DEF AsMoment, Ssp
    <3>2. t.s = TRUE /\ t.a7 = Ssp(e) - 6
      BY <1>5 DEF ExceptionFrame
    <3>3. Ssp(t) = t.a7 /\ 0 <= t.a7
      BY <3>2, MomentsAre DEF Ssp
    <3>4. x \in Cells /\ InUse(t, x)
      BY <1>0, <3>1, <3>2, <3>3, CellsAre DEF InUse
    <3> QED
      BY <3>4 DEF Untouched
  <2>2. Get(m2, t.a7, 2) = Get(m1, t.a7, 2)
    BY <1>0, <2>1, GetKept
  <2>3. Get(m2, t.a7 + 2, 4) = Get(m1, t.a7 + 2, 4)
    <3>1. \A x \in t.a7 + 2 .. (t.a7 + 2) + 4 - 1 : m2[x] = m1[x]
      BY <1>0, <2>1
    <3> QED
      BY <1>0, <3>1, GetKept
  <2> QED
    BY <1>5, <2>2, <2>3 DEF ExceptionFrame
<1> QED
  BY <1>1, <1>2, <1>3, <1>4, <1>5 DEF Frame

\* Entering leaves everything below the new entry as it was.
LEMMA Entered ==
  ASSUME NEW q, NEW t, NEW m1, NEW m2, NEW e \in Entries, NEW t2 \in Moments,
         Stacked(q, t, m1), AsMoment(e) = t, e.saved[A6] = e.fp,
         Within(t2, t), Untouched(t, m1, m2), Frame(e, t2, m2)
  PROVE  Stacked(Append(q, e), t2, m2)
<1> DEFINE q2 == Append(q, e)
           n == Len(q)
<1>1. q \in Seq(Entries) /\ t \in Moments /\ n \in Nat
  BY DEF Stacked
<1>2. /\ q2 \in Seq(Entries) /\ Len(q2) = n + 1
      /\ \A i \in 1 .. n : q2[i] = q[i]
      /\ q2[n + 1] = e
  BY <1>1, AppendProperties
<1> HIDE DEF q2, n
<1>3. \A i \in 1 .. n + 1 : Moment(q2, t2, i) = Moment(q, t, i)
  BY <1>1, <1>2 DEF Moment, n
<1>4. Moment(q2, t2, n + 2) = t2 /\ Moment(q, t, n + 1) = t
  BY <1>1, <1>2 DEF Moment, n
<1>5. \A i \in 1 .. n + 1 : AsMoment(q2[i]) \in Moments /\ q2[i].saved[A6] = q2[i].fp
  <2>1. \A i \in 1 .. n : AsMoment(q[i]) \in Moments /\ q[i].saved[A6] = q[i].fp
    BY DEF Stacked, n
  <2> QED
    BY <1>1, <1>2, <2>1
<1>6. ASSUME NEW i \in 1 .. n + 1, NEW j \in 1 .. n + 2, i < j
      PROVE  Within(Moment(q2, t2, j), Moment(q2, t2, i))
  <2>0. Moment(q, t, i) \in Moments
    BY <1>1, <1>2, <1>5 DEF Moment, n
  <2>1. \A k \in 1 .. n + 1 : i < k => Within(Moment(q, t, k), Moment(q, t, i))
    BY <1>1 DEF Stacked, n
  <2>2. CASE j <= n + 1
    BY <1>1, <1>3, <1>6, <2>1, <2>2
  <2>3. CASE j = n + 2
    <3>1. Moment(q2, t2, j) = t2 /\ Moment(q2, t2, i) = Moment(q, t, i)
      BY <1>3, <1>4, <2>3
    <3>2. Within(t, Moment(q, t, i))
      <4>1. CASE i = n + 1
        BY <1>1, <1>4, <4>1, MomentsAre DEF Within
      <4>2. CASE i < n + 1
        BY <1>1, <1>4, <2>1, <4>2
      <4> QED
        BY <1>1, <4>1, <4>2
    <3>3. Within(t2, Moment(q, t, i))
      BY <1>1, <2>0, <3>2, MomentsAre DEF Within
    <3> QED
      BY <3>1, <3>3
  <2> QED
    BY <1>1, <2>2, <2>3
<1>7. ASSUME NEW i \in 1 .. n + 1
      PROVE  Frame(q2[i], Moment(q2, t2, i + 1), m2)
  <2>1. CASE i = n + 1
    BY <1>1, <1>2, <1>4, <2>1
  <2>2. CASE i # n + 1
    <3>1. i \in 1 .. n /\ i + 1 \in 1 .. n + 1
      BY <1>1, <2>2
    <3>2. Frame(q[i], Moment(q, t, i + 1), m1) /\ q[i] \in Entries /\ AsMoment(q[i]) \in Moments
      BY <1>1, <1>2, <1>5, <3>1 DEF Stacked, n
    <3>3. Moment(q, t, i + 1) \in Moments
      BY <1>1, <1>2, <1>5, <3>1 DEF Moment, n
    <3>4. Within(t, Moment(q, t, i + 1))
      <4>1. CASE i + 1 = n + 1
        BY <1>1, <1>4, <4>1, MomentsAre DEF Within
      <4>2. CASE i + 1 # n + 1
        <5>1. i + 1 \in 1 .. n /\ i + 1 < n + 1
          BY <1>1, <3>1, <4>2
        <5>2. Within(Moment(q, t, n + 1), Moment(q, t, i + 1))
          BY <1>1, <5>1 DEF Stacked, n
        <5> QED
          BY <1>4, <5>2
      <4> QED
        BY <4>1, <4>2
    <3>5. Untouched(Moment(q, t, i + 1), m1, m2)
      <4>1. \A x \in Cells : InUse(Moment(q, t, i + 1), x) => InUse(t, x)
        BY <1>1, <3>3, <3>4, MomentsAre, CellsAre DEF InUse, Within
      <4> QED
        BY <4>1 DEF Untouched
    <3>6. Frame(q[i], Moment(q, t, i + 1), m2)
      BY <3>2, <3>3, <3>5, FramesAreKept
    <3>7. q2[i] = q[i] /\ Moment(q2, t2, i + 1) = Moment(q, t, i + 1)
      BY <1>2, <1>3, <3>1
    <3> QED
      BY <3>6, <3>7
  <2> QED
    BY <2>1, <2>2
<1> QED
  BY <1>2, <1>1, <1>5, <1>6, <1>7 DEF Stacked, q2

LEMMA FrontIs ==
  ASSUME NEW q \in Seq(Entries), q # <<>>
  PROVE  /\ Front(q) \in Seq(Entries) /\ Len(q) \in Nat /\ Len(q) >= 1
         /\ Len(Front(q)) = Len(q) - 1
         /\ \A i \in 1 .. Len(q) - 1 : Front(q)[i] = q[i]
         /\ Last(q) = q[Len(q)] /\ Last(q) \in Entries
<1>1. Len(q) \in Nat /\ Len(q) >= 1 /\ \A i \in 1 .. Len(q) : q[i] \in Entries
  OBVIOUS
<1>2. \A i \in 1 .. Len(q) - 1 : q[i] \in Entries
  BY <1>1
<1>3. /\ SubSeq(q, 1, Len(q) - 1) \in Seq(Entries)
      /\ Len(SubSeq(q, 1, Len(q) - 1)) = IF 1 <= Len(q) - 1 THEN (Len(q) - 1) - 1 + 1 ELSE 0
      /\ \A i \in 1 .. (Len(q) - 1) - 1 + 1 : SubSeq(q, 1, Len(q) - 1)[i] = q[1 + i - 1]
  BY <1>1, <1>2, SubSeqProperties
<1>4. /\ Len(SubSeq(q, 1, Len(q) - 1)) = Len(q) - 1
      /\ \A i \in 1 .. Len(q) - 1 : SubSeq(q, 1, Len(q) - 1)[i] = q[i]
  <2> DEFINE n == Len(q)
             g == SubSeq(q, 1, Len(q) - 1)
  <2>1. n \in Nat /\ n >= 1 /\ Len(g) = IF 1 <= n - 1 THEN (n - 1) - 1 + 1 ELSE 0
    BY <1>1, <1>3
  <2>2. \A i \in 1 .. (n - 1) - 1 + 1 : g[i] = q[1 + i - 1]
    BY <1>3
  <2> HIDE DEF n, g
  <2>3. Len(g) = n - 1
    BY <2>1
  <2>4. \A i \in 1 .. n - 1 : i \in 1 .. (n - 1) - 1 + 1 /\ 1 + i - 1 = i
    BY <2>1
  <2>5. \A i \in 1 .. n - 1 : g[i] = q[i]
    BY <2>2, <2>4
  <2> QED
    BY <2>3, <2>5 DEF n, g
<1>5. q[Len(q)] \in Entries
  BY <1>1
<1> QED
  BY <1>1, <1>3, <1>4, <1>5, Zenon DEF Front, Last

\* Leaving the last entry leaves the others as they were when it was entered.
LEMMA Left ==
  ASSUME NEW q, NEW t, NEW m, Stacked(q, t, m), q # <<>>
  PROVE  /\ Stacked(Front(q), AsMoment(Last(q)), m)
         /\ Last(q) \in Entries /\ AsMoment(Last(q)) \in Moments /\ Last(q).saved[A6] = Last(q).fp
         /\ t \in Moments /\ Within(t, AsMoment(Last(q)))
         /\ Frame(Last(q), t, m)
<1> DEFINE n == Len(q)
           e == Last(q)
           q2 == Front(q)
           t2 == AsMoment(Last(q))
<1>1. q \in Seq(Entries) /\ t \in Moments
  BY DEF Stacked
<1>2. /\ q2 \in Seq(Entries) /\ n \in Nat /\ n >= 1
      /\ Len(q2) = n - 1
      /\ \A i \in 1 .. n - 1 : q2[i] = q[i]
      /\ e = q[n] /\ e \in Entries
  BY <1>1, FrontIs
<1>3. /\ \A i \in 1 .. n : AsMoment(q[i]) \in Moments /\ q[i].saved[A6] = q[i].fp
      /\ \A i \in 1 .. n, j \in 1 .. n + 1 : i < j => Within(Moment(q, t, j), Moment(q, t, i))
      /\ \A i \in 1 .. n : Frame(q[i], Moment(q, t, i + 1), m)
  BY DEF Stacked
<1>4. t2 = AsMoment(q[n])
  BY <1>2
<1> HIDE DEF n, e, q2, t2
<1>5. \A i \in 1 .. n : Moment(q2, t2, i) = Moment(q, t, i)
  BY <1>2, <1>4 DEF Moment, n
<1>6. Moment(q, t, n) = t2 /\ Moment(q, t, n + 1) = t
  BY <1>2, <1>4 DEF Moment, n
<1>7. t2 \in Moments /\ e.saved[A6] = e.fp
  BY <1>2, <1>3, <1>4
<1>8. Within(t, t2)
  <2>1. Within(Moment(q, t, n + 1), Moment(q, t, n))
    BY <1>2, <1>3
  <2> QED
    BY <1>6, <2>1
<1>9. Frame(e, t, m)
  <2>1. n \in 1 .. n
    BY <1>2
  <2>2. Frame(q[n], Moment(q, t, n + 1), m)
    BY <1>3, <2>1
  <2>3. e = q[n] /\ Moment(q, t, n + 1) = t
    BY <1>2, <1>6
  <2> QED
    BY <2>2, <2>3
<1>10. \A i \in 1 .. Len(q2) : AsMoment(q2[i]) \in Moments /\ q2[i].saved[A6] = q2[i].fp
  <2>1. \A i \in 1 .. Len(q2) : i \in 1 .. n /\ q2[i] = q[i]
    BY <1>2
  <2> QED
    BY <1>3, <2>1
<1>11. ASSUME NEW i \in 1 .. Len(q2), NEW j \in 1 .. Len(q2) + 1, i < j
       PROVE  Within(Moment(q2, t2, j), Moment(q2, t2, i))
  BY <1>2, <1>3, <1>5, <1>11
<1>12. ASSUME NEW i \in 1 .. Len(q2)
       PROVE  Frame(q2[i], Moment(q2, t2, i + 1), m)
  <2>1. i \in 1 .. n - 1 /\ i \in 1 .. n /\ i + 1 \in 1 .. n
    BY <1>2
  <2> QED
    BY <1>2, <1>3, <1>5, <2>1
<1>13. Stacked(q2, t2, m)
  BY <1>2, <1>7, <1>10, <1>11, <1>12 DEF Stacked
<1> QED
  BY <1>1, <1>2, <1>7, <1>8, <1>9, <1>13 DEF e, q2, t2

LEMMA EnteredIsLinked ==
  ASSUME NEW q \in Seq(Entries), NEW fp, NEW fp2, NEW e \in Entries, Linked(q, fp), e.fp = fp,
         e.what = "link" => fp2 = Long(e.a7 - 4),
         e.what # "link" => fp2 = fp
  PROVE  Linked(Append(q, e), fp2)
<1> DEFINE q2 == Append(q, e)
           n == Len(q)
<1>1. /\ n \in Nat /\ Len(q2) = n + 1
      /\ \A i \in 1 .. n : q2[i] = q[i]
      /\ q2[n + 1] = e
  BY AppendProperties
<1>2. \A i \in 1 .. n, j \in 1 .. n + 1 :
        i < j /\ q[i].what = "link" /\ (\A k \in i + 1 .. j - 1 : q[k].what # "link")
          => FpAt(q, fp, j) = Long(q[i].a7 - 4)
  BY DEF Linked
<1> HIDE DEF q2, n
<1>3. \A i \in 1 .. n + 1 : FpAt(q2, fp2, i) = FpAt(q, fp, i)
  BY <1>1 DEF FpAt, n
<1>4. FpAt(q2, fp2, n + 2) = fp2 /\ FpAt(q, fp, n + 1) = fp
  BY <1>1 DEF FpAt, n
<1>5. ASSUME NEW i \in 1 .. n + 1, NEW j \in 1 .. n + 2, i < j, q2[i].what = "link",
             \A k \in i + 1 .. j - 1 : q2[k].what # "link"
      PROVE  FpAt(q2, fp2, j) = Long(q2[i].a7 - 4)
  <2>1. CASE i = n + 1
    <3>1. j = n + 2
      BY <1>1, <1>5, <2>1
    <3>2. q2[i] = e /\ e.what = "link"
      BY <1>1, <1>5, <2>1
    <3>3. fp2 = Long(e.a7 - 4)
      BY <3>2
    <3> QED
      BY <1>4, <3>1, <3>2, <3>3, Zenon
  <2>2. CASE i # n + 1 /\ j # n + 2
    <3>1. i \in 1 .. n /\ j \in 1 .. n + 1 /\ q2[i] = q[i]
      <4>1. n \in Nat
        BY <1>1
      <4>2. i \in 1 .. n /\ j \in 1 .. n + 1
        BY <2>2, <4>1
      <4> QED
        BY <1>1, <4>2
    <3>2. ASSUME NEW k \in i + 1 .. j - 1
          PROVE  q[k].what # "link"
      <4>1. k \in 1 .. n
        BY <1>1, <3>1
      <4>2. q2[k].what # "link"
        BY <1>5
      <4> QED
        BY <1>1, <4>1, <4>2
    <3> QED
      BY <1>2, <1>3, <1>5, <3>1, <3>2
  <2>3. CASE i # n + 1 /\ j = n + 2
    <3>1. i \in 1 .. n /\ q2[i] = q[i]
      BY <1>1, <2>3
    <3>2. e.what # "link"
      <4>1. n + 1 \in i + 1 .. j - 1
        BY <1>1, <2>3, <3>1
      <4> QED
        BY <1>1, <1>5, <4>1
    <3>3. \A k \in i + 1 .. (n + 1) - 1 : q[k].what # "link"
      BY <1>1, <1>5, <2>3, <3>1
    <3>4. FpAt(q, fp, n + 1) = Long(q[i].a7 - 4)
      BY <1>1, <1>2, <1>5, <3>1, <3>3
    <3> QED
      BY <1>4, <2>3, <3>1, <3>2, <3>4
  <2> QED
    BY <2>1, <2>2, <2>3
<1>6. Len(q2) = n + 1 /\ Len(q2) + 1 = n + 2
  BY <1>1
<1> QED
  BY <1>5, <1>6, Zenon DEF Linked, q2

\* The frame pointer after leaving: as it was saved, as a word of that, or untouched.
LEMMA LeftIsLinked ==
  ASSUME NEW q \in Seq(Entries), q # <<>>, NEW fp, NEW fp2, Linked(q, fp),
         \/ fp2 = Last(q).fp
         \/ fp2 = Extended(Low(Last(q).fp, 2))
         \/ fp2 = fp /\ Last(q).what # "link"
  PROVE  Linked(Front(q), fp2)
<1> DEFINE n == Len(q)
           q2 == Front(q)
<1>1. /\ q2 \in Seq(Entries) /\ n \in Nat /\ n >= 1
      /\ Len(q2) = n - 1
      /\ \A i \in 1 .. n - 1 : q2[i] = q[i]
      /\ Last(q) = q[n] /\ \A i \in 1 .. n : q[i].a7 \in Int
  <2>1. \A i \in 1 .. n : q[i] \in Entries
    OBVIOUS
  <2> QED
    BY <2>1, FrontIs DEF Entries
<1>2. \A i \in 1 .. n, j \in 1 .. n + 1 :
        i < j /\ q[i].what = "link" /\ (\A k \in i + 1 .. j - 1 : q[k].what # "link")
          => FpAt(q, fp, j) = Long(q[i].a7 - 4)
  BY DEF Linked
<1> HIDE DEF q2, n
<1>3. \A i \in 1 .. n - 1 : FpAt(q2, fp2, i) = FpAt(q, fp, i)
  BY <1>1 DEF FpAt, n
<1>4. FpAt(q2, fp2, n) = fp2 /\ FpAt(q, fp, n) = q[n].fp /\ FpAt(q, fp, n + 1) = fp
  BY <1>1 DEF FpAt, n
<1>5. ASSUME NEW i \in 1 .. n - 1, NEW j \in 1 .. n, i < j, q2[i].what = "link",
             \A k \in i + 1 .. j - 1 : q2[k].what # "link"
      PROVE  FpAt(q2, fp2, j) = Long(q2[i].a7 - 4)
  <2>0. i \in 1 .. n /\ q2[i] = q[i] /\ \A k \in i + 1 .. j - 1 : q[k].what # "link"
    BY <1>1, <1>5
  <2>1. FpAt(q, fp, j) = Long(q[i].a7 - 4)
    <3>1. j \in 1 .. n + 1 /\ q[i].what = "link"
      BY <1>1, <1>5, <2>0
    <3> QED
      BY <1>2, <1>5, <2>0, <3>1, Zenon
  <2>2. CASE j # n
    <3>1. j \in 1 .. n - 1
      BY <1>1, <2>2
    <3> QED
      BY <1>3, <2>0, <2>1, <3>1
  <2>3. CASE j = n
    <3>1. q[n].fp = Long(q[i].a7 - 4)
      BY <1>4, <2>1, <2>3
    <3>2. q[i].a7 - 4 \in Int
      BY <1>1, <2>0
    <3>3. CASE fp2 = q[n].fp
      BY <1>4, <2>0, <2>3, <3>1, <3>3
    <3>4. CASE fp2 = Extended(Low(q[n].fp, 2))
      BY <1>4, <2>0, <2>3, <3>1, <3>2, <3>4, AddressesFitAWord
    <3>5. CASE fp2 = fp /\ q[n].what # "link"
      <4>1. \A k \in i + 1 .. (n + 1) - 1 : q[k].what # "link"
        BY <1>1, <2>0, <2>3, <3>5
      <4>2. FpAt(q, fp, n + 1) = Long(q[i].a7 - 4)
        BY <1>1, <1>2, <1>5, <2>0, <4>1
      <4> QED
        BY <1>4, <2>0, <2>3, <3>5, <4>2
    <3> QED
      BY <1>1, <3>3, <3>4, <3>5
  <2> QED
    BY <2>2, <2>3
<1> QED
  BY <1>1, <1>5 DEF Linked, q2

\* UNLK finds the stack pointer of the LINK in A6.
LEMMA LinkIsFound ==
  ASSUME NEW q \in Seq(Entries), q # <<>>, NEW fp, Linked(q, fp), Last(q).what = "link"
  PROVE  fp = Long(Last(q).a7 - 4)
<1>1. Len(q) \in Nat /\ Len(q) >= 1 /\ Last(q) = q[Len(q)]
  BY FrontIs
<1>2. FpAt(q, fp, Len(q) + 1) = fp
  BY <1>1 DEF FpAt
<1>3. FpAt(q, fp, Len(q) + 1) = Long(q[Len(q)].a7 - 4)
  <2>1. \A k \in Len(q) + 1 .. (Len(q) + 1) - 1 : q[k].what # "link"
    BY <1>1
  <2>2. Len(q) \in 1 .. Len(q) /\ Len(q) + 1 \in 1 .. Len(q) + 1 /\ Len(q) < Len(q) + 1
    BY <1>1
  <2> QED
    BY <1>1, <2>1, <2>2 DEF Linked
<1> QED
  BY <1>1, <1>2, <1>3

-----------------------------------------------------------------------------
(* The invariant.                                                          *)

StackTypeOK ==
  /\ regs \in [Regs -> FourBytes] /\ mem \in [Cells -> Int]
  /\ a7 \in Int /\ otherSp \in Int /\ s \in BOOLEAN /\ pc \in Int /\ ccr \in Int
Here == [a7 |-> a7, otherSp |-> otherSp, s |-> s]
StackInv == StackTypeOK /\ Stacked(open, Here, mem) /\ Linked(open, regs[A6])

NewEntry(what, list, part) ==
  [what |-> what, list |-> list, part |-> part, a7 |-> a7, otherSp |-> otherSp, s |-> s,
   pc |-> pc, ccr |-> ccr, fp |-> regs[A6], saved |-> [r \in Regs |-> regs[r]]]

LEMMA NewEntryIs ==
  ASSUME StackTypeOK, NEW what \in EntryKinds, NEW list \in SUBSET (Regs \cup {A7}), NEW part \in Seq(Int)
  PROVE  /\ NewEntry(what, list, part) \in Entries
         /\ AsMoment(NewEntry(what, list, part)) = Here
         /\ NewEntry(what, list, part).saved = regs
         /\ NewEntry(what, list, part).fp = regs[A6]
<1>1. A6 \in Regs
  BY DEF A6, Regs
<1>2. [r \in Regs |-> regs[r]] = regs
  BY DEF StackTypeOK
<1> QED
  BY <1>1, <1>2 DEF NewEntry, Entries, AsMoment, Here, StackTypeOK

\* Whatever enters keeps the invariant if it leaves a frame below what is in use.
LEMMA Entering ==
  ASSUME StackInv, NEW what \in EntryKinds, NEW list \in SUBSET (Regs \cup {A7}),
         NEW part \in Seq(Int), Enter(what, list, part), StackTypeOK',
         Here' \in Moments, Within(Here', Here), Untouched(Here, mem, mem'),
         Frame(NewEntry(what, list, part), Here', mem'),
         regs'[A6] = IF what = "link" THEN Long(a7 - 4) ELSE regs[A6]
  PROVE  StackInv' /\ ~(Len(open') < Len(open))
<1> DEFINE e == NewEntry(what, list, part)
<1>1. open' = Append(open, e)
  BY DEF Enter, NewEntry
<1>2. /\ e \in Entries /\ AsMoment(e) = Here
      /\ e.saved[A6] = e.fp /\ e.fp = regs[A6] /\ e.what = what /\ e.a7 = a7
  <2>1. e.what = what /\ e.a7 = a7
    BY DEF NewEntry
  <2> QED
    BY <2>1, NewEntryIs DEF StackInv
<1>3. open \in Seq(Entries)
  BY DEF StackInv, Stacked
<1> HIDE DEF e
<1>4. Stacked(open', Here', mem')
  BY <1>1, <1>2, Entered DEF StackInv, e
<1>5. Linked(open', regs'[A6])
  BY <1>1, <1>2, <1>3, EnteredIsLinked DEF StackInv
<1>6. Len(open') = Len(open) + 1 /\ Len(open) \in Nat
  BY <1>1, <1>2, <1>3, AppendProperties
<1> QED
  BY <1>4, <1>5, <1>6 DEF StackInv

\* The stack of the mode the guest is in grows by k bytes.
LEMMA Growing ==
  ASSUME StackTypeOK, Here \in Moments, NEW k \in Nat, k % 2 = 0,
         a7 - k >= (IF s THEN UserTop ELSE 0),
         a7' = a7 - k, otherSp' = otherSp, s' = s,
         \A x \in Cells : x \notin a7 - k .. a7 - 1 => mem'[x] = mem[x]
  PROVE  /\ a7' \in Int /\ Here' \in Moments /\ Within(Here', Here)
         /\ Untouched(Here, mem, mem')
<1>1. /\ a7 \in Int /\ otherSp \in Int /\ s \in BOOLEAN
      /\ Here.a7 = a7 /\ Here.otherSp = otherSp /\ Here.s = s
      /\ Here'.a7 = a7 - k /\ Here'.otherSp = otherSp /\ Here'.s = s
      /\ Here' = [a7 |-> a7 - k, otherSp |-> otherSp, s |-> s]
  BY DEF Here, StackTypeOK
<1>2. /\ 0 <= Usp(Here) /\ Usp(Here) <= UserTop /\ UserTop <= Ssp(Here) /\ Ssp(Here) <= Top
      /\ a7 % 2 = 0 /\ otherSp % 2 = 0
  BY <1>1, MomentsAre
<1>3. (a7 - k) % 2 = 0 /\ a7 - k \in Int
  BY <1>1, <1>2
<1>4. CASE s
  BY <1>1, <1>2, <1>3, <1>4, CellsAre DEF Moments, Usp, Ssp, Within, Untouched, InUse
<1>5. CASE ~s
  BY <1>1, <1>2, <1>3, <1>5, CellsAre DEF Moments, Usp, Ssp, Within, Untouched, InUse
<1> QED
  BY <1>1, <1>4, <1>5

LEMMA PushedBytes ==
  ASSUME StackInv, NEW n \in {1, 2, 4}, NEW part \in [1 .. n -> Int], PushBytes(part, 4),
         s' = s, otherSp' = otherSp
  PROVE  /\ a7' \in Int /\ Here' \in Moments /\ Within(Here', Here)
         /\ Untouched(Here, mem, mem')
         /\ mem' \in [Cells -> Int]
         /\ a7' = a7 - ByteInc(n) /\ Get(mem', a7', n) = part
<1>1. part \in Seq(Int) /\ Len(part) = n
  BY SeqsAreFunctions
<1>2. a7' = a7 - ByteInc(n) /\ mem' = Put(mem, a7', part) /\ a7 - 4 >= (IF s THEN UserTop ELSE 0)
  BY <1>1 DEF PushBytes, Room
<1>3. ByteInc(n) \in Nat /\ ByteInc(n) % 2 = 0 /\ n <= ByteInc(n) /\ ByteInc(n) <= 4
  BY DEF ByteInc
<1>4. StackTypeOK /\ Here \in Moments /\ a7 \in Int /\ mem \in [Cells -> Int]
  BY DEF StackInv, Stacked, StackTypeOK
<1>5. a7 <= Top
  <2>1. Here.a7 <= Top
    BY <1>4, MomentsAre
  <2> QED
    BY <2>1 DEF Here
<1>6. a7' \in Int /\ a7' >= (IF s THEN UserTop ELSE 0) /\ a7' >= 0 /\ a7' + n <= Top
  BY <1>2, <1>3, <1>4, <1>5, CellsAre
<1>7. /\ mem' \in [Cells -> Int]
      /\ \A x \in Cells : x \notin a7' .. a7' + n - 1 => mem'[x] = mem[x]
      /\ Get(mem', a7', n) = part
  <2>1. PICK a \in Int : a = a7'
    BY <1>6
  <2>2. /\ Put(mem, a, part) \in [Cells -> Int]
        /\ \A x \in Cells : x \notin a .. a + n - 1 => Put(mem, a, part)[x] = mem[x]
        /\ a >= 0 /\ a + n <= Top => Get(Put(mem, a, part), a, n) = part
    BY <1>4, PutIs
  <2> QED
    BY <1>2, <1>6, <2>1, <2>2
<1>8. \A x \in Cells : x \notin a7 - ByteInc(n) .. a7 - 1 => mem'[x] = mem[x]
  BY <1>2, <1>3, <1>4, <1>7, CellsAre
<1>9. a7 - ByteInc(n) >= (IF s THEN UserTop ELSE 0)
  BY <1>2, <1>6
<1> QED
  BY <1>2, <1>3, <1>4, <1>7, <1>8, <1>9, Growing

LEMMA PushKeeps ==
  ASSUME StackInv, NEW sz \in Singles, NEW r \in DataRegs, Push(sz, r)
  PROVE  StackInv' /\ ~(Len(open') < Len(open))
<1> DEFINE n == Bytes(sz)
           part == Low(regs[r], Bytes(sz))
<1>1. n \in {1, 2, 4}
  BY DEF Bytes, Singles
<1>2. r \in Regs /\ regs[r] \in FourBytes /\ A6 \in Regs
  BY DEF Regs, DataRegs, A6, StackInv, StackTypeOK
<1>3. part \in [1 .. n -> Int] /\ part \in Seq(Int)
  BY <1>1, <1>2, LowIs, SeqsAreFunctions
<1>4. /\ PushBytes(part, 4) /\ Enter(sz, {r}, part)
      /\ regs' = regs /\ pc' = pc /\ s' = s /\ ccr' = ccr /\ otherSp' = otherSp
  BY DEF Push
<1> HIDE DEF part, n
<1>5. /\ a7' \in Int /\ Here' \in Moments /\ Within(Here', Here)
      /\ Untouched(Here, mem, mem') /\ mem' \in [Cells -> Int]
      /\ a7' = a7 - ByteInc(n) /\ Get(mem', a7', n) = part
  BY <1>1, <1>3, <1>4, PushedBytes
<1>6. StackTypeOK'
  BY <1>4, <1>5 DEF StackTypeOK, StackInv
<1>7. Frame(NewEntry(sz, {r}, part), Here', mem')
  BY <1>4, <1>5 DEF Frame, SingleFrame, Same, NewEntry, Here, Singles, n
<1>8. sz \in EntryKinds /\ sz # "link" /\ {r} \in SUBSET (Regs \cup {A7})
  BY <1>2 DEF Singles, EntryKinds
<1> QED
  BY <1>3, <1>4, <1>5, <1>6, <1>7, <1>8, Entering

LEMMA PeaKeeps ==
  ASSUME StackInv, NEW address \in Int, Pea(address)
  PROVE  StackInv' /\ ~(Len(open') < Len(open))
<1> DEFINE part == Long(address)
<1>1. part \in [1 .. 4 -> Int] /\ part \in Seq(Int)
  BY AddressesFitAWord, SeqsAreFunctions DEF FourBytes
<1>2. /\ PushBytes(part, 4) /\ Enter("long", {}, part)
      /\ regs' = regs /\ pc' = pc /\ s' = s /\ ccr' = ccr /\ otherSp' = otherSp
  BY DEF Pea
<1> HIDE DEF part
<1>3. /\ a7' \in Int /\ Here' \in Moments /\ Within(Here', Here)
      /\ Untouched(Here, mem, mem') /\ mem' \in [Cells -> Int]
      /\ a7' = a7 - ByteInc(4) /\ Get(mem', a7', 4) = part
  BY <1>1, <1>2, PushedBytes
<1>4. StackTypeOK'
  BY <1>2, <1>3 DEF StackTypeOK, StackInv
<1>5. Frame(NewEntry("long", {}, part), Here', mem')
  BY <1>2, <1>3 DEF Frame, SingleFrame, Same, NewEntry, Here, Singles, Bytes
<1>6. "long" \in EntryKinds
  BY DEF Singles, EntryKinds
<1> QED
  BY <1>1, <1>2, <1>3, <1>4, <1>5, <1>6, Entering

LEMMA CallKeeps ==
  ASSUME StackInv, Call
  PROVE  StackInv' /\ ~(Len(open') < Len(open))
<1> DEFINE part == Long(pc + 2)
<1>1. part \in [1 .. 4 -> Int] /\ <<>> \in Seq(Int) /\ pc + 2 \in Int
  <2>1. pc \in Int /\ pc + 2 \in Int
    BY DEF StackInv, StackTypeOK
  <2> QED
    BY <2>1, AddressesFitAWord DEF FourBytes
<1>2. /\ PushBytes(part, 4) /\ Enter("call", {}, <<>>)
      /\ regs' = regs /\ pc' = SubAt /\ s' = s /\ ccr' = ccr /\ otherSp' = otherSp
  BY DEF Call
<1> HIDE DEF part
<1>3. /\ a7' \in Int /\ Here' \in Moments /\ Within(Here', Here)
      /\ Untouched(Here, mem, mem') /\ mem' \in [Cells -> Int]
      /\ a7' = a7 - ByteInc(4) /\ Get(mem', a7', 4) = part
  BY <1>1, <1>2, PushedBytes
<1>4. StackTypeOK'
  BY <1>2, <1>3, StackAssumption DEF StackTypeOK, StackInv
<1>5. Frame(NewEntry("call", {}, <<>>), Here', mem')
  BY <1>2, <1>3 DEF Frame, CallFrame, Same, NewEntry, Here, Singles, ByteInc, part
<1>6. "call" \in EntryKinds
  BY DEF EntryKinds
<1> QED
  BY <1>1, <1>2, <1>3, <1>4, <1>5, <1>6, Entering

LEMMA LinkKeeps ==
  ASSUME StackInv, NEW taken \in {0, 6}, Link(taken)
  PROVE  StackInv' /\ ~(Len(open') < Len(open))
<1>1. /\ a7 - (4 + taken) >= (IF s THEN UserTop ELSE 0)
      /\ mem' = Put(mem, a7 - 4, regs[A6])
      /\ regs' = [regs EXCEPT ![A6] = Long(a7 - 4)]
      /\ a7' = a7 - (4 + taken)
      /\ Enter("link", {}, <<>>)
      /\ pc' = pc /\ s' = s /\ ccr' = ccr /\ otherSp' = otherSp
  BY DEF Link, Room, StackInv, StackTypeOK
<1>2. /\ StackTypeOK /\ Here \in Moments /\ a7 \in Int /\ mem \in [Cells -> Int]
      /\ regs \in [Regs -> FourBytes] /\ A6 \in Regs /\ regs[A6] \in FourBytes
  BY DEF StackInv, Stacked, StackTypeOK, A6, Regs
<1>3. a7 <= Top /\ a7 - 4 >= 0 /\ a7 - 4 \in Int
  <2>1. Here.a7 <= Top
    BY <1>2, MomentsAre
  <2> QED
    BY <1>1, <1>2, <2>1, CellsAre DEF Here
<1>4. /\ mem' \in [Cells -> Int]
      /\ \A x \in Cells : x \notin a7 - 4 .. a7 - 1 => mem'[x] = mem[x]
      /\ Get(mem', a7 - 4, 4) = regs[A6]
  <2>1. PICK a \in Int : a = a7 - 4
    BY <1>3
  <2>2. PICK b \in [1 .. 4 -> Int] : b = regs[A6]
    BY <1>2 DEF FourBytes
  <2>3. a + 3 = a7 - 1 /\ a + 4 <= Top /\ a >= 0
    BY <1>2, <1>3, <2>1, CellsAre
  <2>4. /\ Put(mem, a, b) \in [Cells -> Int]
        /\ \A x \in Cells : x \notin a .. a + 3 => Put(mem, a, b)[x] = mem[x]
        /\ Get(Put(mem, a, b), a, 4) = b
    BY <1>2, <2>3, PutLongIs
  <2> QED
    BY <1>1, <2>1, <2>2, <2>3, <2>4
<1>5. \A x \in Cells : x \notin a7 - (4 + taken) .. a7 - 1 => mem'[x] = mem[x]
  BY <1>2, <1>4, CellsAre
<1>6. /\ a7' \in Int /\ Here' \in Moments /\ Within(Here', Here)
      /\ Untouched(Here, mem, mem')
  <2>1. 4 + taken \in Nat /\ (4 + taken) % 2 = 0
    OBVIOUS
  <2> QED
    BY <1>1, <1>2, <1>5, <2>1, Growing
<1>7. regs' \in [Regs -> FourBytes] /\ regs'[A6] = Long(a7 - 4)
  BY <1>1, <1>2, <1>3, AddressesFitAWord
<1>8. StackTypeOK'
  BY <1>1, <1>2, <1>4, <1>6, <1>7 DEF StackTypeOK
<1>9. Frame(NewEntry("link", {}, <<>>), Here', mem')
  <2>1. a7' <= a7 - 4
    BY <1>1, <1>2
  <2> QED
    BY <1>1, <1>4, <2>1 DEF Frame, LinkFrame, Same, NewEntry, Here, Singles
<1>10. "link" \in EntryKinds /\ <<>> \in Seq(Int)
  BY DEF EntryKinds
<1> QED
  BY <1>1, <1>6, <1>7, <1>8, <1>9, <1>10, Entering

LEMMA PushListKeeps ==
  ASSUME StackInv, NEW sz \in {"word", "long"}, NEW list \in Lists, PushList(sz, list)
  PROVE  StackInv' /\ ~(Len(open') < Len(open))
<1> DEFINE n == Bytes(sz)
           taken == n * Cardinality(list)
           v == [r \in list |-> Reg(r)]
<1>1. n \in {2, 4}
  BY DEF Bytes
<1>2. /\ a7 - 4 * Cardinality(list) >= (IF s THEN UserTop ELSE 0)
      /\ a7' = a7 - taken
      /\ Enter(ListKind(sz), list, <<>>)
      /\ regs' = regs /\ pc' = pc /\ s' = s /\ ccr' = ccr /\ otherSp' = otherSp
  BY Zenon DEF PushList, Room
<1>3. /\ list \subseteq Regs \cup {A7} /\ Cardinality(list) \in Nat
  BY StackAssumption, ListsAreFinite
<1>4. /\ StackTypeOK /\ Here \in Moments /\ a7 \in Int /\ mem \in [Cells -> Int]
      /\ regs \in [Regs -> FourBytes]
  BY DEF StackInv, Stacked, StackTypeOK
<1>5. v \in [list -> FourBytes] /\ \A r \in list \ {A7} : v[r] = regs[r]
  <2>1. \A r \in list : Reg(r) \in FourBytes
    BY <1>3, <1>4, AddressesFitAWord DEF Reg
  <2> QED
    BY <2>1 DEF Reg
<1>6. mem' = ListStored(mem, list, a7, n, v)
  <2>1. mem' = [x \in DOMAIN mem |->
          IF Covering(list, a7, n, x) = {} THEN mem[x]
          ELSE LET r == CHOOSE i \in Covering(list, a7, n, x) : TRUE
               IN Low(Reg(r), n)[x - Slot(list, a7, n, r) + 1]]
    BY DEF PushList, Covering, Slot
  <2>2. \A x : Covering(list, a7, n, x) # {} =>
          LET r == CHOOSE i \in Covering(list, a7, n, x) : TRUE
          IN r \in list /\ Reg(r) = v[r]
    BY DEF Covering
  <2> QED
    BY <2>1, <2>2 DEF ListStored
<1>7. taken \in Nat /\ taken % 2 = 0 /\ taken <= 4 * Cardinality(list)
  BY <1>1, <1>3
<1> HIDE DEF n, v
<1>8. a7 <= Top /\ a7 - taken >= (IF s THEN UserTop ELSE 0) /\ a7 - taken >= 0
  <2>1. Here.a7 <= Top
    BY <1>4, MomentsAre
  <2>2. a7 <= Top
    BY <2>1 DEF Here
  <2>3. 4 * Cardinality(list) \in Int
    BY <1>3
  <2> HIDE DEF taken
  <2>4. a7 - taken >= a7 - 4 * Cardinality(list)
    BY <1>4, <1>7, <2>3
  <2> QED
    BY <1>2, <1>4, <1>7, <2>2, <2>3, <2>4, CellsAre
<1>9. /\ mem' \in [Cells -> Int]
      /\ \A x \in Cells : x \notin a7 - taken .. a7 - 1 => mem'[x] = mem[x]
      /\ \A r \in list : Get(mem', Slot(list, a7, n, r), n) = Low(v[r], n)
  <2>1. PICK a \in Int : a = a7
    BY <1>4
  <2>2. /\ ListStored(mem, list, a, n, v) \in [Cells -> Int]
        /\ \A x \in Cells : x \notin a - taken .. a - 1
                              => ListStored(mem, list, a, n, v)[x] = mem[x]
        /\ \A r \in list : Get(ListStored(mem, list, a, n, v), Slot(list, a, n, r), n) = Low(v[r], n)
    BY <1>1, <1>3, <1>4, <1>5, <1>8, <2>1, StoredIs
  <2> QED
    BY <1>6, <2>1, <2>2
<1>10. /\ a7' \in Int /\ Here' \in Moments /\ Within(Here', Here)
       /\ Untouched(Here, mem, mem')
  <2> HIDE DEF taken
  <2> QED
    BY <1>2, <1>4, <1>7, <1>8, <1>9, Growing
<1>11. StackTypeOK'
  BY <1>2, <1>4, <1>9, <1>10 DEF StackTypeOK
<1>12. ListFrame(NewEntry(ListKind(sz), list, <<>>), Here', mem', n)
  <2>1. \A r \in list \ {A7} : r \in Regs
    BY <1>3
  <2> QED
    BY <1>2, <1>5, <1>9, <2>1 DEF ListFrame, Same, NewEntry, Here
<1>13. Frame(NewEntry(ListKind(sz), list, <<>>), Here', mem')
  <2>1. CASE sz = "long"
    BY <1>12, <2>1 DEF Frame, NewEntry, ListKind, Singles, Bytes, n
  <2>2. CASE sz = "word"
    BY <1>12, <2>2 DEF Frame, NewEntry, ListKind, Singles, Bytes, n
  <2> QED
    BY <2>1, <2>2
<1>14. ListKind(sz) \in EntryKinds /\ ListKind(sz) # "link" /\ <<>> \in Seq(Int)
  BY DEF EntryKinds, ListKind
<1> QED
  BY <1>2, <1>3, <1>10, <1>11, <1>13, <1>14, Entering

LEMMA ExceptionKeeps ==
  ASSUME StackInv, Exception
  PROVE  StackInv' /\ ~(Len(open') < Len(open))
<1> DEFINE sp == IF s THEN a7 ELSE otherSp
           sr == <<IF s THEN 32 ELSE 0, ccr>>
           m1 == Put(mem, sp - 4, Long(pc))
<1>1. /\ sp - 6 >= UserTop
      /\ s' = TRUE
      /\ otherSp' = (IF s THEN otherSp ELSE a7)
      /\ mem' = Put(m1, sp - 6, sr)
      /\ a7' = sp - 6 /\ pc' = SubAt /\ regs' = regs /\ ccr' = ccr
      /\ Enter("exception", {}, <<>>)
  BY DEF Exception
<1>2. /\ StackTypeOK /\ Here \in Moments /\ a7 \in Int /\ otherSp \in Int /\ s \in BOOLEAN
      /\ mem \in [Cells -> Int] /\ regs \in [Regs -> FourBytes] /\ pc \in Int /\ ccr \in Int
  BY DEF StackInv, Stacked, StackTypeOK
<1>3. /\ sp = Ssp(Here) /\ sp \in Int /\ sp <= Top /\ sp % 2 = 0
      /\ (IF s THEN otherSp ELSE a7) = Usp(Here)
      /\ Usp(Here) \in Int /\ 0 <= Usp(Here) /\ Usp(Here) <= UserTop /\ Usp(Here) % 2 = 0
  <2>1. sp = Ssp(Here) /\ (IF s THEN otherSp ELSE a7) = Usp(Here)
    BY DEF Ssp, Usp, Here
  <2> HIDE DEF sp
  <2> QED
    BY <1>2, <2>1, MomentsAre
<1>4. sr \in [1 .. 2 -> Int]
  BY <1>2
<1> HIDE DEF sp, sr, m1
<1>a. sp - 6 >= 0 /\ sp <= Top /\ sp \in Int
  <2>1. sp - 6 >= UserTop
    BY <1>1
  <2> QED
    BY <1>3, <2>1, CellsAre
<1>5. /\ m1 \in [Cells -> Int]
      /\ \A x \in Cells : x \notin sp - 4 .. sp - 1 => m1[x] = mem[x]
      /\ Get(m1, sp - 4, 4) = Long(pc)
  <2>1. PICK a \in Int : a = sp - 4
    BY <1>3
  <2>2. PICK b \in [1 .. 4 -> Int] : b = Long(pc)
    BY <1>2, AddressesFitAWord DEF FourBytes
  <2>3. a + 3 = sp - 1 /\ a + 4 <= Top /\ a >= 0
    BY <1>a, <2>1, CellsAre
  <2>4. /\ Put(mem, a, b) \in [Cells -> Int]
        /\ \A x \in Cells : x \notin a .. a + 3 => Put(mem, a, b)[x] = mem[x]
        /\ Get(Put(mem, a, b), a, 4) = b
    BY <1>2, <2>3, PutLongIs
  <2> QED
    BY <2>1, <2>2, <2>3, <2>4 DEF m1
<1>6. /\ mem' \in [Cells -> Int]
      /\ \A x \in Cells : x \notin sp - 6 .. sp - 5 => mem'[x] = m1[x]
      /\ Get(mem', sp - 6, 2) = sr
  <2>1. PICK a \in Int : a = sp - 6
    BY <1>3
  <2>3. /\ Put(m1, a, sr) \in [Cells -> Int]
        /\ \A x \in Cells : x \notin a .. a + 2 - 1 => Put(m1, a, sr)[x] = m1[x]
        /\ a >= 0 /\ a + 2 <= Top => Get(Put(m1, a, sr), a, 2) = sr
    BY <1>4, <1>5, PutIs
  <2>4. a + 2 - 1 = sp - 5 /\ a + 2 <= Top /\ a >= 0
    BY <1>a, <2>1, CellsAre
  <2> QED
    BY <1>1, <2>1, <2>3, <2>4
<1>7. Get(mem', a7' + 2, 4) = Long(pc)
  <2>1. \A x \in sp - 4 .. (sp - 4) + 4 - 1 : mem'[x] = m1[x]
    BY <1>1, <1>3, <1>6, CellsAre
  <2>2. Get(mem', sp - 4, 4) = Get(m1, sp - 4, 4)
    <3>1. PICK a \in Int : a = sp - 4
      BY <1>3
    <3> QED
      BY <2>1, <3>1, GetKept
  <2>3. a7' + 2 = sp - 4
    BY <1>1, <1>3
  <2> QED
    BY <1>5, <2>2, <2>3
<1>8. Untouched(Here, mem, mem')
  <2>1. \A x \in Cells : InUse(Here, x) => x >= sp \/ x < UserTop
    BY <1>3, CellsAre DEF InUse
  <2>2. \A x \in Cells : x >= sp \/ x < UserTop => mem'[x] = mem[x]
    <3> SUFFICES ASSUME NEW x \in Cells, x >= sp \/ x < UserTop PROVE mem'[x] = mem[x]
      OBVIOUS
    <3>1. x \notin sp - 4 .. sp - 1 /\ x \notin sp - 6 .. sp - 5
      BY <1>1, <1>3, CellsAre
    <3> QED
      BY <1>5, <1>6, <3>1
  <2> QED
    BY <2>1, <2>2 DEF Untouched
<1>9. /\ a7' = Ssp(Here) - 6 /\ otherSp' = Usp(Here) /\ s' = TRUE
  BY <1>1, <1>3
<1>10. Here' \in Moments /\ Within(Here', Here)
  <2>1. Here' = [a7 |-> sp - 6, otherSp |-> Usp(Here), s |-> TRUE]
    BY <1>1, <1>3, <1>9 DEF Here
  <2>2. Usp(Here') = Usp(Here) /\ Ssp(Here') = sp - 6
    BY <2>1 DEF Usp, Ssp
  <2>3. (sp - 6) % 2 = 0 /\ sp - 6 <= Top /\ sp - 6 \in Int
    BY <1>3, CellsAre
  <2>4. Here' \in Moments
    <3> DEFINE t == Here'
    <3>1. t \in [a7 : Int, otherSp : Int, s : BOOLEAN] /\ t.a7 = sp - 6 /\ t.otherSp = Usp(Here)
      BY <1>3, <2>1, <2>3
    <3>2. Usp(t) = Usp(Here) /\ Ssp(t) = sp - 6
      BY <2>2
    <3> HIDE DEF t
    <3>3. t \in Moments
      BY <1>1, <1>3, <2>3, <3>1, <3>2 DEF Moments
    <3> QED
      BY <3>3 DEF t
  <2>5. Within(Here', Here)
    BY <1>3, <2>2 DEF Within
  <2> QED
    BY <2>4, <2>5
<1>11. StackTypeOK'
  BY <1>1, <1>2, <1>3, <1>6, <1>9, StackAssumption DEF StackTypeOK
<1>12. Frame(NewEntry("exception", {}, <<>>), Here', mem')
  <2> DEFINE e == NewEntry("exception", {}, <<>>)
  <2>1. Ssp(e) = Ssp(Here) /\ Usp(e) = Usp(Here) /\ e.s = s /\ e.ccr = ccr /\ e.pc = pc
        /\ e.what = "exception"
    BY DEF NewEntry, Ssp, Usp, Here
  <2>2. Here'.a7 = a7' /\ Here'.otherSp = otherSp' /\ Here'.s = s'
    BY DEF Here
  <2>3. Get(mem', a7', 2) = <<IF s THEN 32 ELSE 0, ccr>>
    BY <1>1, <1>6 DEF sr
  <2> HIDE DEF e
  <2>4. ExceptionFrame(e, Here', mem')
    BY <1>7, <1>9, <2>1, <2>2, <2>3 DEF ExceptionFrame
  <2>5. Frame(e, Here', mem')
    BY <2>1, <2>4 DEF Frame, Singles
  <2> QED
    BY <2>5 DEF e
<1>13. "exception" \in EntryKinds /\ <<>> \in Seq(Int)
  BY DEF EntryKinds
<1> QED
  BY <1>1, <1>8, <1>10, <1>11, <1>12, <1>13, Entering

\* Whatever leaves keeps the invariant if it restores the stack pointers.
LEMMA Leaving ==
  ASSUME StackInv, open # <<>>, Leave, StackTypeOK', mem' = mem,
         Here' = AsMoment(Last(open)),
         \/ regs'[A6] = Last(open).fp
         \/ regs'[A6] = Extended(Low(Last(open).fp, 2))
         \/ regs'[A6] = regs[A6] /\ Last(open).what # "link"
  PROVE  StackInv'
<1>1. open \in Seq(Entries) /\ open' = Front(open)
  BY DEF StackInv, Stacked, Leave
<1>2. Stacked(open', Here', mem')
  BY <1>1, Left DEF StackInv
<1>3. Linked(open', regs'[A6])
  BY <1>1, LeftIsLinked DEF StackInv
<1> QED
  BY <1>2, <1>3 DEF StackInv

\* What is known of the entry that is left.
LEMMA LastIs ==
  ASSUME StackInv, open # <<>>
  PROVE  /\ Last(open) \in Entries /\ AsMoment(Last(open)) \in Moments
         /\ Last(open).saved[A6] = Last(open).fp
         /\ Here \in Moments /\ Within(Here, AsMoment(Last(open)))
         /\ Frame(Last(open), Here, mem)
         /\ StackTypeOK
         /\ Last(open).a7 \in Int /\ Last(open).a7 <= Top /\ Last(open).a7 % 2 = 0
         /\ a7 >= 0 /\ a7 <= Top
<1>1. Stacked(open, Here, mem) /\ StackTypeOK
  BY DEF StackInv
<1>2. /\ Last(open) \in Entries /\ AsMoment(Last(open)) \in Moments
      /\ Last(open).saved[A6] = Last(open).fp
      /\ Here \in Moments /\ Within(Here, AsMoment(Last(open)))
      /\ Frame(Last(open), Here, mem)
  BY <1>1, Left
<1>3. Last(open).a7 \in Int /\ Last(open).a7 <= Top /\ Last(open).a7 % 2 = 0
  <2>1. AsMoment(Last(open)).a7 = Last(open).a7
    BY DEF AsMoment
  <2> QED
    BY <1>2, <2>1, MomentsAre
<1>4. a7 >= 0 /\ a7 <= Top
  <2>1. Here.a7 = a7
    BY DEF Here
  <2> QED
    BY <1>2, <2>1, MomentsAre
<1> QED
  BY <1>1, <1>2, <1>3, <1>4

LEMMA PopKeeps ==
  ASSUME StackInv, NEW sz \in Singles, NEW r \in DataRegs, Pop(sz, r)
  PROVE  StackInv' /\ Restored(Last(open))
<1> DEFINE e == Last(open)
           n == Bytes(sz)
<1>1. /\ open # <<>> /\ e.what = sz /\ Leave
      /\ regs' = [regs EXCEPT ![r] = Partly(@, Get(mem, a7, n))]
      /\ a7' = a7 + ByteInc(n)
      /\ pc' = pc /\ s' = s /\ ccr' = ccr /\ otherSp' = otherSp /\ mem' = mem
  BY DEF Pop, Inner
<1>2. n \in {1, 2, 4} /\ ByteInc(n) \in Int /\ n <= ByteInc(n)
  BY DEF Bytes, Singles, ByteInc
<1>3. /\ e.a7 \in Int /\ e.a7 <= Top /\ e.a7 % 2 = 0 /\ a7 >= 0 /\ StackTypeOK
      /\ Frame(e, Here, mem)
  BY <1>1, LastIs
<1>4. /\ regs \in [Regs -> FourBytes] /\ mem \in [Cells -> Int] /\ a7 \in Int
      /\ r \in Regs /\ r # A6 /\ A6 \in Regs
  BY <1>3 DEF StackTypeOK, Regs, DataRegs, A6
<1>5. s = e.s /\ otherSp = e.otherSp /\ a7 = e.a7 - ByteInc(n) /\ Get(mem, a7, n) = e.part
  BY <1>1, <1>3 DEF Frame, SingleFrame, Same, Here
<1> HIDE DEF e, n
<1>6. a7' = e.a7
  BY <1>1, <1>2, <1>3, <1>4, <1>5
<1>7. Get(mem, a7, n) \in [1 .. n -> Int]
  <2>1. a7 + n <= Top
    BY <1>2, <1>3, <1>4, <1>5, CellsAre
  <2> QED
    BY <1>2, <1>3, <1>4, <2>1, GetIs
<1>8. regs[r] \in FourBytes /\ Partly(regs[r], Get(mem, a7, n)) \in FourBytes
  BY <1>2, <1>4, <1>7, PartlyIs
<1>9. regs' \in [Regs -> FourBytes] /\ regs'[A6] = regs[A6]
  BY <1>1, <1>4, <1>8
<1>10. StackTypeOK'
  BY <1>1, <1>3, <1>6, <1>9 DEF StackTypeOK
<1>11. Here' = AsMoment(e)
  BY <1>1, <1>5, <1>6 DEF Here, AsMoment
<1>12. StackInv'
  <2>1. sz # "link"
    BY DEF Singles
  <2> QED
    BY <1>1, <1>9, <1>10, <1>11, <2>1, Leaving DEF e
<1>13. regs' = [regs EXCEPT ![r] = Partly(@, e.part)]
  BY <1>1, <1>5
<1>14. Restored(e)
  BY <1>1, <1>3, <1>5, <1>6, <1>13 DEF Restored, Singles
<1> QED
  BY <1>12, <1>14 DEF e

LEMMA PopListKeeps ==
  ASSUME StackInv, NEW sz \in {"word", "long"}, NEW list \in Lists, PopList(sz, list)
  PROVE  StackInv' /\ Restored(Last(open))
<1> DEFINE e == Last(open)
           n == Bytes(sz)
           taken == n * Cardinality(list)
<1>1. /\ open # <<>> /\ e.what = ListKind(sz) /\ e.list = list /\ Leave
      /\ regs' = [r \in Regs |->
           IF r \in list THEN Extended(Get(mem, a7 + n * (PlaceUp(list, r) - 1), n)) ELSE regs[r]]
      /\ a7' = a7 + taken
      /\ pc' = pc /\ s' = s /\ ccr' = ccr /\ otherSp' = otherSp /\ mem' = mem
  BY DEF PopList, Inner
<1>2. n \in {2, 4} /\ (sz = "long" <=> n = 4) /\ (sz = "word" <=> n = 2)
  BY DEF Bytes
<1>3. /\ e \in Entries /\ e.saved[A6] = e.fp
      /\ e.a7 \in Int /\ e.a7 % 2 = 0 /\ StackTypeOK
      /\ Frame(e, Here, mem)
  BY <1>1, LastIs
<1>4. /\ regs \in [Regs -> FourBytes] /\ a7 \in Int /\ A6 \in Regs /\ e.saved \in [Regs -> FourBytes]
      /\ A7 \notin Regs
  BY <1>3 DEF StackTypeOK, Regs, DataRegs, A6, A7, Entries
<1>5. list \subseteq Regs \cup {A7} /\ Cardinality(list) \in Nat
  BY StackAssumption, ListsAreFinite
<1>6. ListFrame(e, Here, mem, n)
  <2>1. CASE sz = "long"
    BY <1>1, <1>2, <1>3, <2>1 DEF Frame, ListKind
  <2>2. CASE sz = "word"
    BY <1>1, <1>2, <1>3, <2>2 DEF Frame, ListKind
  <2> QED
    BY <2>1, <2>2
<1>7. /\ s = e.s /\ otherSp = e.otherSp /\ a7 = e.a7 - taken
      /\ \A r \in list \ {A7} : Get(mem, Slot(list, e.a7, n, r), n) = Low(e.saved[r], n)
  BY <1>1, <1>6 DEF ListFrame, Same, Here
<1>8. ASSUME NEW r \in list, r \in Regs
      PROVE  regs'[r] = Extended(Low(e.saved[r], n))
  <2>1. Slot(list, e.a7, n, r) = (e.a7 - taken) + n * (PlaceUp(list, r) - 1)
    BY <1>2, <1>3, <1>5, SlotsAreInside
  <2>2. r \in list \ {A7}
    BY <1>4, <1>8
  <2>3. Get(mem, Slot(list, e.a7, n, r), n) = Low(e.saved[r], n)
    BY <1>7, <2>2
  <2>4. Get(mem, a7 + n * (PlaceUp(list, r) - 1), n) = Low(e.saved[r], n)
    BY <1>7, <2>1, <2>3
  <2> QED
    BY <1>1, <1>8, <2>4
<1> HIDE DEF n, taken, e
<1>9. taken \in Int
  BY <1>2, <1>5 DEF taken
<1>10. a7' = e.a7
  BY <1>1, <1>3, <1>4, <1>7, <1>9
<1>11. \A r \in Regs : /\ Extended(Low(e.saved[r], n)) \in FourBytes
                       /\ n = 4 => Extended(Low(e.saved[r], n)) = e.saved[r]
  <2> SUFFICES ASSUME NEW r \in Regs
               PROVE  /\ Extended(Low(e.saved[r], n)) \in FourBytes
                      /\ n = 4 => Extended(Low(e.saved[r], n)) = e.saved[r]
    OBVIOUS
  <2>1. e.saved[r] \in FourBytes /\ n \in {1, 2, 4}
    BY <1>2, <1>4
  <2>2. Low(e.saved[r], n) \in [1 .. n -> Int]
    BY <2>1, LowIs
  <2> QED
    BY <1>2, <2>1, <2>2, ExtendedIs, LowOfFour
<1>12. regs' \in [Regs -> FourBytes]
  <2>1. \A r \in Regs : regs'[r] \in FourBytes
    BY <1>1, <1>4, <1>8, <1>11
  <2> QED
    BY <1>1, <2>1
<1>13. StackTypeOK'
  BY <1>1, <1>3, <1>10, <1>12 DEF StackTypeOK
<1>14. Here' = AsMoment(e)
  BY <1>1, <1>7, <1>10 DEF Here, AsMoment
<1>15. \/ regs'[A6] = e.fp
       \/ regs'[A6] = Extended(Low(e.fp, 2))
       \/ regs'[A6] = regs[A6] /\ e.what # "link"
  <2>1. CASE A6 \in list
    <3>1. regs'[A6] = Extended(Low(e.fp, n))
      BY <1>3, <1>4, <1>8, <2>1
    <3>2. n = 4 => Extended(Low(e.fp, n)) = e.fp
      BY <1>3, <1>4, <1>11
    <3> QED
      BY <1>2, <3>1, <3>2
  <2>2. CASE A6 \notin list
    <3>1. regs'[A6] = regs[A6]
      BY <1>1, <1>4, <2>2
    <3>2. e.what # "link"
      BY <1>1 DEF ListKind
    <3> QED
      BY <3>1, <3>2
  <2> QED
    BY <2>1, <2>2
<1>16. StackInv'
  BY <1>1, <1>13, <1>14, <1>15, Leaving DEF e
<1>17. /\ e.what = "longs" => \A r \in e.list \ {A7} : regs'[r] = e.saved[r]
       /\ e.what = "words" => \A r \in e.list \ {A7} : regs'[r] = Extended(Low(e.saved[r], 2))
  <2>1. \A r \in e.list \ {A7} : r \in list /\ r \in Regs
    BY <1>1, <1>5
  <2>2. /\ e.what = "longs" => n = 4
        /\ e.what = "words" => n = 2
    BY <1>1, <1>2 DEF ListKind
  <2> QED
    BY <1>8, <1>11, <2>1, <2>2
<1>18. Restored(e)
  BY <1>1, <1>3, <1>7, <1>10, <1>17 DEF Restored, ListKind
<1> QED
  BY <1>16, <1>18 DEF e

LEMMA UnlkKeeps ==
  ASSUME StackInv, Unlk
  PROVE  StackInv' /\ Restored(Last(open))
<1> DEFINE e == Last(open)
<1>1. /\ open # <<>> /\ e.what = "link" /\ Leave
      /\ regs' = [regs EXCEPT ![A6] = Get(mem, Address(@), 4)]
      /\ a7' = Address(regs[A6]) + 4
      /\ pc' = pc /\ s' = s /\ ccr' = ccr /\ otherSp' = otherSp /\ mem' = mem
  BY DEF Unlk, Inner
<1>2. /\ e \in Entries /\ e.a7 \in Int /\ e.a7 % 2 = 0 /\ StackTypeOK
      /\ Frame(e, Here, mem)
  BY <1>1, LastIs
<1>3. regs \in [Regs -> FourBytes] /\ A6 \in Regs /\ e.fp \in FourBytes
  BY <1>2 DEF StackTypeOK, A6, Regs, Entries
<1>4. s = e.s /\ otherSp = e.otherSp /\ Get(mem, e.a7 - 4, 4) = e.fp
  BY <1>1, <1>2 DEF Frame, LinkFrame, Same, Here
<1>5. regs[A6] = Long(e.a7 - 4)
  <2>1. open \in Seq(Entries) /\ Linked(open, regs[A6])
    BY DEF StackInv, Stacked
  <2> QED
    BY <1>1, <2>1, LinkIsFound
<1> HIDE DEF e
<1>6. Address(regs[A6]) = e.a7 - 4 /\ e.a7 - 4 \in Int
  BY <1>2, <1>5, AddressesFitAWord
<1>7. a7' = e.a7
  BY <1>1, <1>2, <1>6
<1>8. regs' \in [Regs -> FourBytes] /\ regs'[A6] = e.fp
  BY <1>1, <1>3, <1>4, <1>6
<1>9. StackTypeOK'
  BY <1>1, <1>2, <1>7, <1>8 DEF StackTypeOK
<1>10. Here' = AsMoment(e)
  BY <1>1, <1>4, <1>7 DEF Here, AsMoment
<1>11. StackInv'
  BY <1>1, <1>8, <1>9, <1>10, Leaving DEF e
<1>12. Restored(e)
  BY <1>1, <1>2, <1>4, <1>7, <1>8 DEF Restored
<1> QED
  BY <1>11, <1>12 DEF e

LEMMA RtsKeeps ==
  ASSUME StackInv, Rts
  PROVE  StackInv' /\ Restored(Last(open))
<1> DEFINE e == Last(open)
<1>1. /\ open # <<>> /\ e.what = "call" /\ Leave
      /\ pc' = Address(Get(mem, a7, 4))
      /\ a7' = a7 + 4
      /\ regs' = regs /\ s' = s /\ ccr' = ccr /\ otherSp' = otherSp /\ mem' = mem
  BY DEF Rts, Inner
<1>2. /\ e \in Entries /\ e.a7 \in Int /\ e.a7 % 2 = 0 /\ StackTypeOK
      /\ Frame(e, Here, mem)
  BY <1>1, LastIs
<1>3. s = e.s /\ otherSp = e.otherSp /\ a7 = e.a7 - 4 /\ Get(mem, a7, 4) = Long(e.pc + 2)
  BY <1>1, <1>2 DEF Frame, CallFrame, Same, Here
<1>4. a7' = e.a7 /\ e.pc \in Int /\ e.pc + 2 \in Int
  BY <1>1, <1>2, <1>3 DEF Entries
<1>5. pc' = e.pc + 2
  BY <1>1, <1>3, <1>4, AddressesFitAWord
<1> HIDE DEF e
<1>6. StackTypeOK'
  BY <1>1, <1>2, <1>4, <1>5 DEF StackTypeOK
<1>7. Here' = AsMoment(e)
  BY <1>1, <1>3, <1>4 DEF Here, AsMoment
<1>8. StackInv'
  BY <1>1, <1>6, <1>7, Leaving DEF e
<1>9. Restored(e)
  BY <1>1, <1>2, <1>3, <1>4, <1>5 DEF Restored
<1> QED
  BY <1>8, <1>9 DEF e

LEMMA RteKeeps ==
  ASSUME StackInv, Rte
  PROVE  StackInv' /\ Restored(Last(open))
<1> DEFINE e == Last(open)
           sr == Get(mem, a7, 2)
           user == sr[1] = 0
<1>1. /\ open # <<>> /\ e.what = "exception" /\ Leave /\ s
      /\ pc' = Address(Get(mem, a7 + 2, 4))
      /\ s' = ~user /\ ccr' = sr[2]
      /\ a7' = (IF user THEN otherSp ELSE a7 + 6)
      /\ otherSp' = (IF user THEN a7 + 6 ELSE otherSp)
      /\ regs' = regs /\ mem' = mem
  BY DEF Rte, Inner
<1>2. /\ e \in Entries /\ AsMoment(e) \in Moments
      /\ e.a7 \in Int /\ e.a7 % 2 = 0 /\ StackTypeOK
      /\ Frame(e, Here, mem)
  BY <1>1, LastIs
<1>3. /\ e.otherSp \in Int /\ e.s \in BOOLEAN /\ e.pc \in Int /\ e.ccr \in Int
  BY <1>2 DEF Entries
<1>4. /\ a7 = Ssp(e) - 6 /\ otherSp = Usp(e)
      /\ sr = <<IF e.s THEN 32 ELSE 0, e.ccr>>
      /\ Get(mem, a7 + 2, 4) = Long(e.pc)
  BY <1>1, <1>2 DEF Frame, ExceptionFrame, Here
<1>5. sr[1] = (IF e.s THEN 32 ELSE 0) /\ sr[2] = e.ccr
  BY <1>4
<1>6. pc' = e.pc /\ ccr' = e.ccr /\ s' = e.s
  <2>1. user <=> ~e.s
    BY <1>3, <1>5
  <2>2. pc' = e.pc
    BY <1>1, <1>3, <1>4, AddressesFitAWord
  <2>3. s' = e.s
    BY <1>1, <1>3, <2>1, Zenon
  <2> QED
    BY <1>1, <1>5, <2>2, <2>3
<1>7. a7' = e.a7 /\ otherSp' = e.otherSp
  <2>1. CASE e.s
    BY <1>1, <1>2, <1>3, <1>4, <1>5, <2>1 DEF Ssp, Usp
  <2>2. CASE ~e.s
    BY <1>1, <1>2, <1>3, <1>4, <1>5, <2>2 DEF Ssp, Usp
  <2> QED
    BY <2>1, <2>2
<1> HIDE DEF e, sr, user
<1>8. StackTypeOK'
  BY <1>1, <1>2, <1>3, <1>6, <1>7 DEF StackTypeOK
<1>9. Here' = AsMoment(e)
  BY <1>6, <1>7 DEF Here, AsMoment
<1>10. StackInv'
  BY <1>1, <1>8, <1>9, Leaving DEF e
<1>11. Restored(e)
  BY <1>1, <1>2, <1>6, <1>7 DEF Restored
<1> QED
  BY <1>10, <1>11 DEF e

LEMMA ScribbleKeeps ==
  ASSUME StackInv, Scribble
  PROVE  StackInv' /\ ~(Len(open') < Len(open))
<1>1. /\ regs' = [r \in Regs |-> IF r = A6 THEN regs[A6] ELSE <<0, 0, 200, r>>]
      /\ ccr' = 31
      /\ a7' = a7 /\ pc' = pc /\ s' = s /\ otherSp' = otherSp /\ mem' = mem /\ open' = open
  BY DEF Scribble
<1>2. StackTypeOK /\ A6 \in Regs /\ regs[A6] \in FourBytes /\ open \in Seq(Entries)
  BY DEF StackInv, StackTypeOK, A6, Regs, Stacked
<1>3. \A r \in Regs : <<0, 0, 200, r>> \in FourBytes
  BY DEF Regs, DataRegs, A6, FourBytes
<1>4. regs' \in [Regs -> FourBytes] /\ regs'[A6] = regs[A6]
  BY <1>1, <1>2, <1>3
<1>5. StackTypeOK'
  BY <1>1, <1>2, <1>4 DEF StackTypeOK
<1>6. Here' = Here
  BY <1>1 DEF Here
<1>7. Stacked(open', Here', mem') /\ Linked(open', regs'[A6])
  BY <1>1, <1>4, <1>6 DEF StackInv
<1>8. Len(open) \in Nat
  BY <1>2
<1> QED
  BY <1>1, <1>5, <1>7, <1>8 DEF StackInv

LEMMA StackStarts ==
  ASSUME StackInit
  PROVE  StackInv
<1>1. /\ s \in BOOLEAN
      /\ a7 = (IF s THEN Top ELSE UserTop) /\ otherSp = (IF s THEN UserTop ELSE Top)
      /\ pc = 0 /\ ccr = 0 /\ open = <<>> /\ mem = [x \in 0 .. Top - 1 |-> 0]
  BY DEF StackInit
<1>2. regs \in [Regs -> FourBytes]
  <2>1. regs = [r \in Regs |-> CASE r = 0 -> <<1, 2, 3, 4>> [] r = 1 -> <<129, 130, 131, 132>>
                              [] r = 8 -> <<5, 6, 135, 8>> [] OTHER -> <<9, 9, 9, 9>>]
    BY DEF StackInit
  <2>2. /\ <<1, 2, 3, 4>> \in FourBytes /\ <<129, 130, 131, 132>> \in FourBytes
        /\ <<5, 6, 135, 8>> \in FourBytes /\ <<9, 9, 9, 9>> \in FourBytes
    BY DEF FourBytes
  <2>3. \A r \in Regs : regs[r] \in FourBytes
    BY <2>1, <2>2
  <2> QED
    BY <2>1, <2>3
<1>3. mem \in [Cells -> Int]
  <2>1. \A x \in 0 .. Top - 1 : mem[x] \in Int
    BY <1>1
  <2> QED
    BY <1>1, <2>1 DEF Cells
<1>4. StackTypeOK
  BY <1>1, <1>2, <1>3, CellsAre DEF StackTypeOK
<1>5. Here \in Moments
  <2>1. /\ Here \in [a7 : Int, otherSp : Int, s : BOOLEAN]
        /\ Here.a7 = a7 /\ Here.otherSp = otherSp /\ Here.s = s
    BY <1>1, CellsAre DEF Here
  <2>2. Usp(Here) = UserTop /\ Ssp(Here) = Top
    BY <1>1, <2>1 DEF Usp, Ssp
  <2>3. a7 % 2 = 0 /\ otherSp % 2 = 0
    <3>1. Top % 2 = 0 /\ UserTop % 2 = 0
      BY DEF Top, UserTop
    <3> QED
      BY <1>1, <3>1
  <2> QED
    BY <2>1, <2>2, <2>3, CellsAre DEF Moments
<1>6. open \in Seq(Entries) /\ Len(open) = 0
  BY <1>1
<1>7. Stacked(open, Here, mem)
  BY <1>5, <1>6 DEF Stacked
<1>8. Linked(open, regs[A6])
  BY <1>6 DEF Linked
<1> QED
  BY <1>4, <1>7, <1>8 DEF StackInv

LEMMA StackSteps ==
  ASSUME StackInv, [StackNext]_stackVars
  PROVE  StackInv' /\ (Len(open') < Len(open) => Restored(Last(open)))
<1>1. ASSUME NEW sz \in Singles, NEW r \in DataRegs, Push(sz, r) \/ Pop(sz, r)
      PROVE  StackInv' /\ (Len(open') < Len(open) => Restored(Last(open)))
  BY <1>1, PushKeeps, PopKeeps
<1>2. ASSUME NEW sz \in {"word", "long"}, NEW list \in Lists, PushList(sz, list) \/ PopList(sz, list)
      PROVE  StackInv' /\ (Len(open') < Len(open) => Restored(Last(open)))
  BY <1>2, PushListKeeps, PopListKeeps
<1>3. CASE Pea(42)
  BY <1>3, PeaKeeps
<1>4. ASSUME NEW taken \in {0, 6}, Link(taken)
      PROVE  StackInv' /\ (Len(open') < Len(open) => Restored(Last(open)))
  BY <1>4, LinkKeeps
<1>5. CASE Unlk
  BY <1>5, UnlkKeeps
<1>6. CASE Call
  BY <1>6, CallKeeps
<1>7. CASE Rts
  BY <1>7, RtsKeeps
<1>8. CASE Exception
  BY <1>8, ExceptionKeeps
<1>9. CASE Rte
  BY <1>9, RteKeeps
<1>10. CASE Scribble
  BY <1>10, ScribbleKeeps
<1>11. CASE UNCHANGED stackVars
  <2>1. /\ regs' = regs /\ a7' = a7 /\ pc' = pc /\ s' = s /\ ccr' = ccr /\ otherSp' = otherSp
        /\ mem' = mem /\ open' = open
    BY <1>11 DEF stackVars
  <2>2. StackInv'
    BY <2>1 DEF StackInv, StackTypeOK, Here
  <2>3. Len(open) \in Nat
    BY DEF StackInv, Stacked
  <2> QED
    BY <2>1, <2>2, <2>3
<1> QED
  BY <1>1, <1>2, <1>3, <1>4, <1>5, <1>6, <1>7, <1>8, <1>9, <1>10, <1>11 DEF StackNext, Singles

\* Whatever the guest has entered, in user mode or not, and however deep, it gets back
\* when it leaves: registers, places, flags and both stack pointers.
THEOREM StacksUnwind == StackSpec => UnwindsExactly
<1>1. StackInit => StackInv
  BY StackStarts
<1>2. StackInv /\ [StackNext]_stackVars => StackInv'
  BY StackSteps
<1>3. StackInv /\ [StackNext]_stackVars
        => [Len(open') < Len(open) => Restored(Last(open))]_stackVars
  BY StackSteps
<1> QED
  BY <1>1, <1>2, <1>3, PTL DEF StackSpec, UnwindsExactly
=============================================================================
