------------------------------ MODULE Assembler ------------------------------
(***************************************************************************)
(* A program on its way into memory: the first pass of the assembler        *)
(* (src/as68k/as68k.c) reads lines, defines labels and notes fixups; the     *)
(* second pass patches them and writes the relocation table; the loader     *)
(* (src/hardware/loadfe2.c), or the disassembler, which reads the same file *)
(* (src/dis68k/dis68k.c), applies it.                                       *)
(*                                                                         *)
(* Addresses count from the start of the code, which is BASE in the file    *)
(* and FE2BASE in memory.  Of the bytes of the program the model keeps the  *)
(* places where labels are used.                                           *)
(***************************************************************************)
EXTENDS LabelTree

CONSTANTS Used,          \* labels that lines refer to
          Gaps,          \* lengths of a ds.b
          Kinds,         \* kinds of references
          Budget         \* bound: what the lines of a program cost together

ASSUME AssemblerAssumption ==
  /\ Used \subseteq Keys /\ Gaps \subseteq Nat /\ Budget \in Nat
  /\ Kinds \subseteq {"data", "absolute", "short", "branch", "index", "relative", "movem", "btst"}
  /\ Null \notin Nat \cup [type : {"address", "constant"}, val : Nat]

VARIABLES phase,         \* "pass1", "pass2", "file", "reading", "ready" or "error"
          pos,           \* get_bitpos () - BASE; the length of the code in the end
          labels,        \* the tree of labels: their types and values
          fixups,        \* the fixups not resolved yet
          image,         \* what was written where a label is used
          table,         \* the relocation table: its first long word, its bytes and last_adr
          reader,        \* get_fixup: the address it returned last and the byte it reads next
          applied,       \* the addresses the base was added at, in order
          cost,          \* of the lines so far
          source         \* the source itself: where it defines its labels, and its references
vars == <<phase, pos, labels, fixups, image, table, reader, applied, cost, source>>

Byte == 0
Word == 1
Long == 3                \* LONG_FIXUP

\* A line that uses a label: its length, where in it the label goes, how, and where
\* the processor counts a displacement from.
Shape(length, at, size, pc) == [length |-> length, at |-> at, size |-> size, pc |-> pc]
ShapeOf(kind) ==
  CASE kind = "data" -> Shape(4, 0, Long, 0)                \* dc.l label
    [] kind = "absolute" -> Shape(6, 2, Long, 0)            \* jsr label
    [] kind = "short" -> Shape(2, 1, Byte, 2)               \* bra.s label
    [] kind = "branch" -> Shape(4, 2, Word, 2)              \* bra.w label
    [] kind = "index" -> Shape(4, 3, Byte, 2)               \* lea label(pc,d0.w),a0
    [] kind = "relative" -> Shape(4, 2, Word, 2)            \* lea label(pc),a0
    [] kind \in {"movem", "btst"} -> Shape(6, 4, Word, 4)   \* movem label(pc),d0; btst #0,label(pc)

\* add_fixup: two bytes after last_op_addr, which a movem has moved on by its mask.
\* Mutant: it has not.
RelToNoMask(kind) == pos + 2
RelTo(kind) == pos + 2 + (IF kind = "movem" THEN 2 ELSE 0)

Init ==
  /\ phase = "pass1" /\ pos = 0 /\ cost = 0
  /\ labels = DictInit
  /\ fixups = <<>> /\ image = <<>> /\ applied = <<>>
  /\ table = [first |-> 0, bytes |-> <<>>, last |-> -1]
  /\ reader = [at |-> 0, next |-> 1]
  /\ source = [places |-> [k \in Keys |-> Null], refs |-> {}]

\* error (): the program is removed.
Error ==
  /\ phase' = "error"
  /\ UNCHANGED <<pos, labels, fixups, image, table, reader, applied, cost, source>>

(***************************************************************************)
(* The first pass: one action for every kind of line.                       *)
(***************************************************************************)
Line(price) == phase = "pass1" /\ cost + price <= Budget /\ cost' = cost + price

\* add_label.
AddLabel(name, type, val) ==
  /\ DictGet(labels, name) = Null
  /\ labels' = DictSet(labels, name, [type |-> type, val |-> val])

LabelLine(name) ==
  /\ Line(1)
  /\ AddLabel(name, "address", pos)
  /\ source' = [source EXCEPT !.places[name] = pos]
  /\ UNCHANGED <<phase, pos, fixups, image, table, reader, applied>>

Equ(name) ==
  /\ Line(1)
  /\ AddLabel(name, "constant", 0)
  /\ UNCHANGED <<phase, pos, fixups, image, table, reader, applied, source>>

Redefinition(name) == phase = "pass1" /\ DictGet(labels, name) # Null /\ Error

Ds(length) ==
  /\ Line(1)
  /\ pos' = pos + length
  /\ UNCHANGED <<phase, labels, fixups, image, table, reader, applied, source>>

\* get_imm knows the constants that are defined above.
IsConstant(name) ==
  DictGet(labels, name) # Null /\ labels.obj[name].type = "constant"
Misplaced(kind) == kind # "data" /\ pos % 2 = 1
NotRelative(kind, name) == kind \in {"index", "relative", "movem", "btst"} /\ IsConstant(name)

Reference(kind, name) ==
  LET s == ShapeOf(kind)
      value == kind \in {"data", "absolute"} /\ IsConstant(name)
      fix == [adr |-> pos + s.at, size |-> s.size, relTo |-> RelTo(kind), label |-> name]
  IN /\ Line(2) /\ ~Misplaced(kind) /\ ~NotRelative(kind, name)
     /\ pos' = pos + s.length
     /\ fixups' = IF value THEN fixups ELSE Append(fixups, fix)
     /\ source' = [source EXCEPT !.refs = @ \cup {[kind |-> kind, label |-> name, op |-> pos]}]
     /\ UNCHANGED <<phase, labels, image, table, reader, applied>>

BadReference(kind, name) ==
  phase = "pass1" /\ (Misplaced(kind) \/ NotRelative(kind, name)) /\ Error

EndOfSource ==
  /\ phase = "pass1" /\ phase' = "pass2"
  /\ UNCHANGED <<pos, labels, fixups, image, table, reader, applied, cost, source>>

(***************************************************************************)
(* The second pass.                                                         *)
(***************************************************************************)
InReach(size, dist) ==
  CASE size = Byte -> dist \in -128 .. 127
    [] size = Word -> dist \in -32768 .. 32767
    [] OTHER -> TRUE
Resolvable(f) ==
  /\ DictGet(labels, f.label) # Null
  /\ labels.obj[f.label].type = "address"
  /\ InReach(f.size, labels.obj[f.label].val - f.relTo)

\* The bytes of a distance between two relocations.
\* Mutant: 254 is split too.
DistanceBytesAt(dist) ==
  LET ones == IF dist >= 254 THEN dist \div 254 ELSE 0
  IN [i \in 1 .. ones |-> 1] \o <<dist - 254 * ones>>
DistanceBytes(dist) ==
  LET ones == (dist - 1) \div 254
  IN [i \in 1 .. ones |-> 1] \o <<dist - 254 * ones>>

Relocate(adr) ==
  IF table.last < 0 THEN [table EXCEPT !.first = adr, !.last = adr]
  ELSE [table EXCEPT !.bytes = @ \o DistanceBytes(adr - table.last), !.last = adr]

Resolve ==
  /\ phase = "pass2" /\ fixups # <<>> /\ Resolvable(Head(fixups))
  /\ LET f == Head(fixups)
         val == labels.obj[f.label].val
         new == IF f.size = Long THEN val ELSE val - f.relTo
     IN /\ image' = [a \in DOMAIN image \cup {f.adr} |-> IF a = f.adr THEN new ELSE image[a]]
        /\ table' = IF f.size = Long THEN Relocate(f.adr) ELSE table
  /\ fixups' = Tail(fixups)
  /\ UNCHANGED <<phase, pos, labels, reader, applied, cost, source>>

Unresolved == phase = "pass2" /\ fixups # <<>> /\ ~Resolvable(Head(fixups)) /\ Error

\* A table without relocations is a long word of zero.
Finish ==
  /\ phase = "pass2" /\ fixups = <<>>
  /\ phase' = "file"
  /\ table' = IF table.last < 0 THEN table ELSE [table EXCEPT !.bytes = Append(@, 0)]
  /\ UNCHANGED <<pos, labels, fixups, image, reader, applied, cost, source>>

(***************************************************************************)
(* Reading the file: get_fixup, of the loader and of the disassembler.       *)
(***************************************************************************)
Relocated(at, next) ==
  /\ reader' = [at |-> at, next |-> next]
  /\ applied' = Append(applied, at)
  /\ phase' = "reading"

\* Called with zero: the first long word.
FirstFixup ==
  /\ phase = "file"
  /\ IF table.first = 0 THEN phase' = "ready" /\ UNCHANGED <<reader, applied>>
     ELSE Relocated(table.first, 1)
  /\ UNCHANGED <<pos, labels, fixups, image, table, cost, source>>

\* Bytes of one are chained to the byte after them.
NextFixup ==
  LET rest == {i \in reader.next .. Len(table.bytes) : table.bytes[i] # 1}
      i == Min(rest)
  IN /\ phase = "reading"
     /\ IF table.bytes[i] = 0 THEN phase' = "ready" /\ UNCHANGED <<reader, applied>>
        ELSE Relocated(reader.at + 254 * (i - reader.next) + table.bytes[i], i + 1)
     /\ UNCHANGED <<pos, labels, fixups, image, table, cost, source>>

Next ==
  \/ \E name \in Keys : LabelLine(name) \/ Redefinition(name)
  \/ \E name \in Used : Equ(name)
  \/ \E length \in Gaps : Ds(length)
  \/ \E kind \in Kinds, name \in Used : Reference(kind, name) \/ BadReference(kind, name)
  \/ EndOfSource \/ Resolve \/ Unresolved \/ Finish \/ FirstFixup \/ NextFixup

Spec == Init /\ [][Next]_vars

(***************************************************************************)
(* Properties.                                                              *)
(***************************************************************************)

\* The tree of dict.c is a symbol table: dict_get finds every label with the value
\* add_label gave it, and no other, through all the rotations dict_set makes.
Symbols == INSTANCE SymbolTable WITH
  Names <- Keys, Undefined <- Null,
  table <- [k \in Keys |-> IF DictGet(labels, k) = Null THEN Null ELSE labels.obj[k]]
SymbolsKept == Symbols!Spec

\* What node_isbalanced asserts of every node (dict.c:455-477): its balance is the
\* difference of the heights below it and never more than one; and the tree is a
\* search tree whose parent pointers lead back.
Balanced ==
  \A k \in Members(labels) :
    LET left == labels.child[k]["left"]
        right == labels.child[k]["right"]
    IN /\ labels.balance[k] = Height(labels, right) - Height(labels, left)
       /\ labels.balance[k] \in -1 .. 1
       /\ \A m \in Below(labels, left) : k < m
       /\ \A m \in Below(labels, right) : m < k
       /\ \A m \in {left, right} \ {Null} : labels.parent[m] = k
       /\ labels.parent[k] = Null <=> labels.root = k

AddressRefs == {r \in source.refs : source.places[r.label] # Null}
At(r) == r.op + ShapeOf(r.kind).at
IsLong(r) == r.kind \in {"data", "absolute"}
Pointers == {At(r) : r \in {x \in AddressRefs : IsLong(x)}}

\* The table cannot say that the first long word of the program is a label, nor that
\* a distance is one more than a multiple of 254: the byte of the remainder reads as
\* one of the chained ones.
Unreadable ==
  \/ 0 \in Pointers
  \/ \E a \in Pointers :
       LET before == {b \in Pointers : b < a}
       IN before # {} /\ a - Max(before) > 254 /\ (a - Max(before)) % 254 = 1

\* Otherwise the loader and the disassembler add the base to the address of every
\* label in the program, once, and to nothing else.
PointersRelocated ==
  phase = "ready" =>
    ~Unreadable <=> /\ Range(applied) = Pointers
                    /\ Len(applied) = Cardinality(Pointers)

\* Whatever was assembled without an error leads the processor to the place where the
\* source defines the label: the pointers, and the displacements from where the
\* processor counts them.  (A short branch to the next instruction becomes a long
\* one, and a btst of a label(pc) counts from the wrong word.)
LabelsReached ==
  phase = "ready" =>
    \A r \in AddressRefs :
      IF IsLong(r) THEN image[At(r)] = source.places[r.label]
      ELSE r.kind = "btst" \/ (r.kind = "short" /\ image[At(r)] = 0)
             \/ r.op + ShapeOf(r.kind).pc + image[At(r)] = source.places[r.label]
=============================================================================
