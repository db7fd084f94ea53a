----------------------------- MODULE LossyFifo -----------------------------
(***************************************************************************)
(* What the input buffers promise: a queue of at most Capacity entries,    *)
(* read in the order they were written, each once.  The entry that does    *)
(* not fit is lost and takes everything that waits with it.                *)
(***************************************************************************)
EXTENDS Integers, Sequences

CONSTANTS Entries, Capacity

VARIABLES queue, last      \* what waits; the last entry that was written

Write(s, e) == IF Len(s) = Capacity THEN << >> ELSE Append(s, e)

Init == queue = << >> /\ last \in Entries

Put(e) ==
  /\ queue' = Write(queue, e)
  /\ last' = e

\* The release of Caps Lock writes two entries.
PutTwo(e, f) ==
  /\ queue' = Write(Write(queue, e), f)
  /\ last' = f

Get ==
  /\ queue # << >>
  /\ queue' = Tail(queue)
  /\ UNCHANGED last

Next ==
  \/ \E e \in Entries : Put(e)
  \/ \E e, f \in Entries : PutTwo(e, f)
  \/ Get

Spec == Init /\ [][Next]_<<queue, last>>
=============================================================================
