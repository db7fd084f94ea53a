------------------------------- MODULE Stack68k -------------------------------
(***************************************************************************)
(* The addressing modes -(A7) and (A7)+ as src/cpu/gencpu.c generates them   *)
(* for MOVE, MOVEM, PEA, LINK and UNLK, calls and returns, and the stack      *)
(* frames of exceptions (src/cpu/newcpu.c), which are built on the stack of   *)
(* the supervisor: a guest that leaves everything it has entered, in the      *)
(* opposite order.                                                          *)
(*                                                                         *)
(* Registers and memory hold bytes; A7 is an address and others are <<most    *)
(* significant, ..., least significant>>.                                    *)
(***************************************************************************)
EXTENDS Integers, Sequences, SequencesExt, FiniteSets

CONSTANTS Lists,         \* register lists of MOVEM: 0 .. 7 are D0 .. D7, 8 .. 15 A0 .. A7
          SubAt,         \* where a subroutine or a handler starts
          MaxOpen,       \* bound: how deep the guest nests
          MaxSteps       \* bound: instructions

A6 == 14
A7 == 15
DataRegs == {0, 1}
Regs == DataRegs \cup {8, A6}          \* besides A7
UserTop == 32
Top == 64

ASSUME StackAssumption ==
  /\ \A list \in Lists : list \subseteq Regs \cup {A7} /\ list # {}
  /\ MaxOpen \in Nat /\ MaxSteps \in Nat /\ SubAt \in Nat

VARIABLES regs,          \* D0, D1, A0 and A6
          a7, pc, s,     \* the stack pointer, the program counter and regs.s
          ccr,           \* the low byte of the status register
          otherSp,       \* regs.isp in user mode, regs.usp in supervisor mode
          mem,           \* the stacks: the user's below UserTop, the supervisor's above
          open,          \* history: what was entered and is not left yet
          steps
stackVars == <<regs, a7, pc, s, ccr, otherSp, mem, open, steps>>

Long(n) == <<0, 0, 0, n>>
Address(l) == l[4]
Bytes(sz) == CASE sz = "byte" -> 1 [] sz = "word" -> 2 [] sz = "long" -> 4
Low(l, n) == SubSeq(l, 5 - n, 4)
\* genastore to a data register, and the sign extension of a word to all of one.
Partly(l, part) == SubSeq(l, 1, 4 - Len(part)) \o part
Extended(part) ==
  IF Len(part) = 4 THEN part
  ELSE (IF part[1] >= 128 THEN <<255, 255>> ELSE <<0, 0>>) \o part

Get(m, a, n) == [i \in 1 .. n |-> m[a + i - 1]]
Put(m, a, b) == [x \in DOMAIN m |-> IF x - a \in 0 .. Len(b) - 1 THEN b[x - a + 1] ELSE m[x]]
Reg(r) == IF r = A7 THEN Long(a7) ELSE regs[r]

StackInit ==
  /\ regs = [r \in Regs |-> CASE r = 0 -> <<1, 2, 3, 4>> [] r = 1 -> <<129, 130, 131, 132>>
                              [] r = 8 -> <<5, 6, 135, 8>> [] OTHER -> <<9, 9, 9, 9>>]
  /\ s \in BOOLEAN
  /\ a7 = (IF s THEN Top ELSE UserTop) /\ otherSp = (IF s THEN UserTop ELSE Top)
  /\ pc = 0 /\ ccr = 0
  /\ mem = [x \in 0 .. Top - 1 |-> 0]
  /\ open = <<>> /\ steps = 0

-----------------------------------------------------------------------------

\* areg_byteinc: A7 moves by two for a byte.
ByteInc(n) == IF n = 1 THEN 2 ELSE n

Step == steps < MaxSteps /\ steps' = steps + 1
\* There is room for a long or all registers of a list.
Room(n) == Len(open) < MaxOpen /\ a7 - n >= (IF s THEN UserTop ELSE 0)
Enter(what, list, part) ==
  open' = Append(open, [what |-> what, list |-> list, part |-> part,
                        a7 |-> a7, otherSp |-> otherSp, s |-> s, pc |-> pc, ccr |-> ccr,
                        fp |-> regs[A6],
                        saved |-> [r \in Regs |-> regs[r]]])
Inner(what) == open # <<>> /\ Last(open).what = what
Leave == open' = Front(open)

\* genamode of -(A7) and genastore; genamode of (A7)+ is in the actions that read.
PushBytes(part, room) ==
  /\ Room(room)
  /\ a7' = a7 - ByteInc(Len(part))
  /\ mem' = Put(mem, a7', part)

\* MOVE.sz Dr,-(A7), and MOVE.sz (A7)+,Dr.  The flags a MOVE sets are left to
\* Scribble: nothing here reads them but an exception, which may come after it.
Push(sz, r) ==
  /\ Step /\ PushBytes(Low(regs[r], Bytes(sz)), 4)
  /\ Enter(sz, {r}, Low(regs[r], Bytes(sz)))
  /\ UNCHANGED <<regs, pc, s, ccr, otherSp>>
Pop(sz, r) ==
  /\ Step /\ Inner(sz) /\ Leave
  /\ regs' = [regs EXCEPT ![r] = Partly(@, Get(mem, a7, Bytes(sz)))]
  /\ a7' = a7 + ByteInc(Bytes(sz))
  /\ UNCHANGED <<pc, s, ccr, otherSp, mem>>

\* MOVEM takes the lowest bit out of a mask until none is left (movem_index1 and
\* movem_next): the place of a bit among them.
Place(mask, bit) == Cardinality({i \in mask : i <= bit})

\* MOVEM list,-(A7): the mask has A7 in its lowest bit, and a bit is looked up in
\* movem_index2; the base register is stored as it was.
ListKind(sz) == IF sz = "long" THEN "longs" ELSE "words"
MaskDown(list) == {15 - r : r \in list}
PlaceDown(list, r) == Place(MaskDown(list), 15 - r)
PushList(sz, list) ==
  LET n == Bytes(sz)
      \* srca for register r
      srca(r) == a7 - n * PlaceDown(list, r)
      At(x) == {r \in list : x - srca(r) \in 0 .. n - 1}
  IN /\ Step /\ Room(4 * Cardinality(list))
     /\ mem' = [x \in DOMAIN mem |->
          IF At(x) = {} THEN mem[x]
          ELSE LET r == CHOOSE i \in At(x) : TRUE IN Low(Reg(r), n)[x - srca(r) + 1]]
     /\ a7' = a7 - n * Cardinality(list)
     /\ Enter(ListKind(sz), list, <<>>)
     /\ UNCHANGED <<regs, pc, s, ccr, otherSp>>

\* MOVEM (A7)+,list: the data registers, then the others; a word is extended, and A7 is
\* set at the end, whatever was read for it.
PlaceUp(list, r) ==
  LET data == {i \in list : i < 8}
  IN IF r < 8 THEN Place(data, r) ELSE Cardinality(data) + Place(list \ data, r)
PopList(sz, list) ==
  LET n == Bytes(sz)
  IN /\ Step /\ Inner(ListKind(sz)) /\ Last(open).list = list /\ Leave
     /\ regs' = [r \in Regs |->
          IF r \in list THEN Extended(Get(mem, a7 + n * (PlaceUp(list, r) - 1), n)) ELSE regs[r]]
     /\ a7' = a7 + n * Cardinality(list)
     /\ UNCHANGED <<pc, s, ccr, otherSp, mem>>

\* PEA, whose address a MOVE.L (A7)+ takes.
Pea(address) ==
  /\ Step /\ PushBytes(Long(address), 4)
  /\ Enter("long", {}, Long(address))
  /\ UNCHANGED <<regs, pc, s, ccr, otherSp>>

\* LINK A6 with a frame of size bytes, and UNLK.
Link(size) ==
  /\ Step /\ Room(4 + size)
  /\ mem' = Put(mem, a7 - 4, regs[A6])
  /\ regs' = [regs EXCEPT ![A6] = Long(a7 - 4)]
  /\ a7' = a7 - 4 - size
  /\ Enter("link", {}, <<>>)
  /\ UNCHANGED <<pc, s, ccr, otherSp>>
Unlk ==
  /\ Step /\ Inner("link") /\ Leave
  /\ regs' = [regs EXCEPT ![A6] = Get(mem, Address(@), 4)]
  /\ a7' = Address(regs[A6]) + 4
  /\ UNCHANGED <<pc, s, ccr, otherSp, mem>>

\* m68k_do_jsr and m68k_do_bsr, with the instruction after the call; m68k_do_rts.
Call ==
  /\ Step /\ PushBytes(Long(pc + 2), 4)
  /\ pc' = SubAt
  /\ Enter("call", {}, <<>>)
  /\ UNCHANGED <<regs, s, ccr, otherSp>>
Rts ==
  /\ Step /\ Inner("call") /\ Leave
  /\ pc' = Address(Get(mem, a7, 4))
  /\ a7' = a7 + 4
  /\ UNCHANGED <<regs, s, ccr, otherSp, mem>>

\* Exception of an interrupt or a trap: the stack of the supervisor, the program
\* counter, the status register.
Exception ==
  LET sp == IF s THEN a7 ELSE otherSp
      sr == <<IF s THEN 32 ELSE 0, ccr>>
  IN /\ Step /\ Len(open) < MaxOpen /\ sp - 6 >= UserTop
     /\ s' = TRUE
     /\ otherSp' = IF s THEN otherSp ELSE a7
     /\ mem' = Put(Put(mem, sp - 4, Long(pc)), sp - 6, sr)
     /\ a7' = sp - 6
     /\ pc' = SubAt
     /\ Enter("exception", {}, <<>>)
     /\ UNCHANGED <<regs, ccr>>

\* RTE, and MakeFromSR, which exchanges the stack pointers when the guest was a user.
\* Mutant: the stack pointer is exchanged before the frame is taken off.
RteEarly ==
  LET sr == Get(mem, a7, 2)
      user == sr[1] = 0
  IN /\ Step /\ Inner("exception") /\ s /\ Leave
     /\ pc' = Address(Get(mem, a7 + 2, 4))
     /\ s' = ~user /\ ccr' = sr[2]
     /\ a7' = IF user THEN otherSp ELSE a7 + 6
     /\ otherSp' = IF user THEN a7 ELSE otherSp
     /\ UNCHANGED <<regs, mem>>
Rte ==
  LET sr == Get(mem, a7, 2)
      user == sr[1] = 0
  IN /\ Step /\ Inner("exception") /\ s /\ Leave
     /\ pc' = Address(Get(mem, a7 + 2, 4))
     /\ s' = ~user /\ ccr' = sr[2]
     /\ a7' = IF user THEN otherSp ELSE a7 + 6
     /\ otherSp' = IF user THEN a7 + 6 ELSE otherSp
     /\ UNCHANGED <<regs, mem>>

\* Anything that works in the registers a subroutine may use.
Scribble ==
  /\ Step
  /\ regs' = [r \in Regs |-> IF r = A6 THEN regs[A6] ELSE <<0, 0, 200, r>>]
  /\ ccr' = 31
  /\ UNCHANGED <<a7, pc, s, otherSp, mem, open>>

StackNext ==
  \/ \E sz \in {"byte", "word", "long"}, r \in DataRegs : Push(sz, r) \/ Pop(sz, r)
  \/ \E sz \in {"word", "long"}, list \in Lists : PushList(sz, list) \/ PopList(sz, list)
  \/ Pea(42)
  \/ \E size \in {0, 6} : Link(size)
  \/ Unlk \/ Call \/ Rts \/ Exception \/ Rte \/ Scribble

StackSpec == StackInit /\ [][StackNext]_stackVars

-----------------------------------------------------------------------------
(* Properties.                                                              *)

\* What is entered last is left with everything it saved: the register a MOVE pops
\* has the bytes that were pushed and keeps its others; a MOVEM restores every listed
\* register, as a word or a long; UNLK, RTS and RTE give back the frame pointer, the
\* place and the flags; and both stack pointers are where they were, and A7 even.
Restored(e) ==
  /\ a7' = e.a7 /\ a7' % 2 = 0 /\ s' = e.s /\ otherSp' = e.otherSp
  /\ e.what \in {"byte", "word", "long"} =>
       \E r \in DataRegs : regs' = [regs EXCEPT ![r] = Partly(@, e.part)]
  /\ e.what = "longs" => \A r \in e.list \ {A7} : regs'[r] = e.saved[r]
  /\ e.what = "words" => \A r \in e.list \ {A7} : regs'[r] = Extended(Low(e.saved[r], 2))
  /\ e.what = "link" => regs'[A6] = e.fp
  /\ e.what = "call" => pc' = e.pc + 2
  /\ e.what = "exception" => pc' = e.pc /\ ccr' = e.ccr
UnwindsExactly == [][Len(open') < Len(open) => Restored(Last(open))]_stackVars
=============================================================================
