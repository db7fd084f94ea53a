----------------------------- MODULE SymbolTable -----------------------------
(***************************************************************************)
(* What the assembler wants of its dictionary of labels: a name that is     *)
(* defined keeps its value, and the others stay undefined.                  *)
(***************************************************************************)
CONSTANTS Names, Undefined

VARIABLE table

Init == table = [n \in Names |-> Undefined]

Define(n, v) ==
  /\ table[n] = Undefined /\ v # Undefined
  /\ table' = [table EXCEPT ![n] = v]

\* As an action of the table as it becomes: exactly one name gets a value.
Defines == \E n \in Names : Define(n, table'[n])

Spec == Init /\ [][Defines]_table
=============================================================================
