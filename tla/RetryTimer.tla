----------------------------- MODULE RetryTimer -----------------------------
(***************************************************************************)
(* What the deferral of a VBL promises (hardware/video.c on the timers of  *)
(* hardware/int.c): a VBL the guest does not let through is tried again    *)
(* exactly Delay cycles later, and again every Delay cycles after that,    *)
(* until it is let through.  left is the number of cycles before the next  *)
(* try; every instruction, and every turn of a stopped processor, takes    *)
(* InsnCycles of it.  The guest's mask, the requests and the user change   *)
(* as they like while left and charging stay as they are.                  *)
(***************************************************************************)
EXTENDS Integers

CONSTANTS
  Delay,            \* cycles between two tries
  InsnCycles,       \* cycles of an instruction
  Idle              \* nothing is deferred

VARIABLES
  left,             \* cycles before the next try, or Idle
  charging,         \* an instruction is over whose cycles are not yet taken
  refused,          \* the guest would not let a VBL through now
  reset,            \* the user has asked for a cold reset
  quit              \* the user has asked to quit

vars == <<left, charging>>

Init == left = Idle /\ ~charging

Instruction ==
  /\ ~charging /\ charging'
  /\ left' = left

\* The try at the end of the delay; a VBL that is refused waits once more.
Try == left' = IF refused THEN Delay ELSE Idle

Charge ==
  /\ charging /\ ~charging'
  /\ IF left = Idle THEN left' = Idle
     ELSE IF left > InsnCycles THEN left' = left - InsnCycles
     ELSE left = InsnCycles /\ Try

\* A VBL is refused for the first time.
Defer ==
  /\ ~charging /\ ~charging'
  /\ left = Idle /\ refused'
  /\ left' = Delay

\* A cold reset masks every interrupt in the middle of a VBL's handler,
\* which then defers its VBL whatever was deferred before.
ColdReset ==
  /\ ~charging /\ ~charging'
  /\ reset /\ ~reset' /\ refused'
  /\ left' = Delay

Quit ==
  /\ ~charging /\ ~charging'
  /\ quit
  /\ left' = Idle

Next == Instruction \/ Charge \/ Defer \/ ColdReset \/ Quit

Spec == Init /\ [][Next]_vars
=============================================================================
