----------------------------- MODULE RingQueue -----------------------------
(***************************************************************************)
(* The ring buffers of hardware/input.c, as operators on one record:       *)
(* buf[0 .. size-1], and the indices head, of the oldest entry, and tail,  *)
(* of the next free slot.  Nothing checks that a slot is free: the entry   *)
(* that brings tail round to head makes the buffer look empty.             *)
(***************************************************************************)
EXTENDS Integers, Sequences

Indices(size) == 0 .. size - 1

Rings(size, Entries) ==
  [buf : [Indices(size) -> Entries], head : Indices(size), tail : Indices(size)]

EmptyRing(size, e) == [buf |-> [i \in Indices(size) |-> e], head |-> 0, tail |-> 0]

IsEmpty(r) == r.head = r.tail

\* Mutant: the entry is stored behind the slot tail is at.
PutBehind(r, size, e) ==
  [r EXCEPT !.buf[(r.tail + 1) % size] = e, !.tail = (r.tail + 1) % size]

Put(r, size, e) ==
  [r EXCEPT !.buf[r.tail] = e, !.tail = (r.tail + 1) % size]

\* The entry read, when there is one, and the buffer without it.
Oldest(r) == r.buf[r.head]

Drop(r, size) == [r EXCEPT !.head = (r.head + 1) % size]

\* The entries waiting, oldest first.
Length(r, size) == (r.tail - r.head) % size

Contents(r, size) ==
  [i \in 1 .. Length(r, size) |-> r.buf[(r.head + i - 1) % size]]
=============================================================================
