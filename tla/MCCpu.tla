--------------------------------- MODULE MCCpu ---------------------------------
(***************************************************************************)
(* The four parts of the processor, of which a behaviour exercises one.      *)
(***************************************************************************)
EXTENDS Chain68k, Divide68k, Shift68k, Stack68k

VARIABLE unit

\* Every byte, and words and longs with bits at their ends, in rows and in combs.
MCStarts ==
  [S \in Sizes |->
     IF S = 8 THEN SUBSET (0 .. 7)
     ELSE {{}, {0}, {S - 1}, {S - 2}, {0, S - 1}, 0 .. S - 2, 0 .. S - 1, 1 .. S - 1,
           {i \in 0 .. S - 1 : i % 2 = 0}, {i \in 0 .. S - 1 : i % 3 = 0},
           (S \div 2) .. S - 1, 0 .. (S \div 2) - 1, {(S \div 2) - 1}}]
MCLists == {{0, 8}, {1, 8, A6}, {0, 1, A7}}


MCInit ==
  /\ unit \in {"chain", "divide", "shift", "stack"}
  /\ IF unit = "chain" THEN ChainInit
     ELSE /\ op = "none" /\ words = 0 /\ weight = 1 /\ dst = 0 /\ src = 0 /\ res = 0 /\ f = {}
  /\ IF unit = "divide" THEN DivideInit
     ELSE reg = 0 /\ was = 0 /\ by = 0 /\ flags = {} /\ flagsWas = {} /\ last = "none"
  /\ IF unit = "shift" THEN ShiftInit
     ELSE /\ kind = "none" /\ size = 8 /\ count = 0 /\ turned = FALSE
          /\ start = {} /\ val = {} /\ f0 = {} /\ fl = {}
  /\ IF unit = "stack" THEN StackInit
     ELSE /\ regs = <<>> /\ a7 = 0 /\ pc = 0 /\ s = TRUE /\ ccr = 0 /\ otherSp = 0
          /\ mem = <<>> /\ open = <<>> /\ steps = 0

MCNext ==
  \/ unit = "chain" /\ ChainNext /\ UNCHANGED <<unit, divideVars, shiftVars, stackVars>>
  \/ unit = "divide" /\ DivideNext /\ UNCHANGED <<unit, chainVars, shiftVars, stackVars>>
  \/ unit = "shift" /\ ShiftOnce /\ UNCHANGED <<unit, chainVars, divideVars, stackVars>>
  \/ unit = "stack" /\ StackNext /\ UNCHANGED <<unit, chainVars, divideVars, shiftVars>>
=============================================================================
