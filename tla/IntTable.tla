------------------------------ MODULE IntTable ------------------------------
(***************************************************************************)
(* The timer table of hardware/int.c, as operators on one record.          *)
(*                                                                         *)
(* The emulator does not count down every timer.  It keeps the cycle       *)
(* count of each handler as it was when the table was last adjusted, and   *)
(* counts down one number, PendingInterruptCount, loaded from the handler  *)
(* with the least count.  A table is a record                              *)
(*    used[h], cycles[h]   InterruptHandlers[h].bUsed and .Cycles          *)
(*    count                PendingInterruptCount, a signed short           *)
(*    fn                   PendingInterruptFunction                        *)
(*    active               ActiveInterrupt                                 *)
(*    over                 nCyclesOver                                     *)
(* InterruptHandlers[h].pFunction never changes after Int_Reset, so it is  *)
(* the constant HandlerFn[h].                                              *)
(***************************************************************************)
EXTENDS Integers

CONSTANTS
  MaxInterrupts,    \* MAX_INTERRUPTS: the number of entries of the table
  HandlerFn,        \* HandlerFn[h]: the pFunction of entry h, or NoFn
  NoFn,             \* the NULL function pointer
  ShortMod,         \* 65536: the number of values of a short
  NoInterrupt,      \* 999999: the count no pending interrupt is compared with
  InsnCycles        \* 4: the cycles do_cycles charges for an instruction

Handlers == 0 .. MaxInterrupts - 1

ASSUME TableAssumption ==
  /\ MaxInterrupts \in Nat \ {0}
  /\ ShortMod \in Nat \ {0} /\ ShortMod % 2 = 0
  /\ NoInterrupt \in Nat
  /\ InsnCycles \in Nat \ {0}
  /\ DOMAIN HandlerFn = Handlers

Half == ShortMod \div 2

\* The conversion to a signed short.
Short(x) == ((x + Half) % ShortMod) - Half

Tables ==
  [used : [Handlers -> BOOLEAN], cycles : [Handlers -> Int], count : Int,
   fn : {HandlerFn[h] : h \in Handlers} \cup {NoFn},
   active : Handlers, over : Int]

-----------------------------------------------------------------------------

\* The table of a program that has just started: C's zero initialisation,
\* then Int_Reset's function pointers.
InitTable ==
  [used |-> [h \in Handlers |-> FALSE], cycles |-> [h \in Handlers |-> 0],
   count |-> 0, fn |-> NoFn, active |-> 0, over |-> 0]

\* Int_Reset leaves ActiveInterrupt, PendingInterruptFunction and every
\* Cycles as they were.
Reset(tab) ==
  [tab EXCEPT !.used = [h \in Handlers |-> FALSE], !.count = 0, !.over = 0]

\* The entries Int_SetNewInterrupt looks at, and the one it picks: the first
\* with the least count, or entry 0 when there is none.
Eligible(tab) == {h \in Handlers : tab.used[h] /\ tab.cycles[h] < NoInterrupt}

Lowest(tab) ==
  IF Eligible(tab) = {}
  THEN 0
  ELSE CHOOSE h \in Eligible(tab) :
         \A k \in Eligible(tab) :
            \/ tab.cycles[h] < tab.cycles[k]
            \/ tab.cycles[h] = tab.cycles[k] /\ h <= k

SetNew(tab) ==
  [tab EXCEPT !.count  = Short(tab.cycles[Lowest(tab)]),
              !.fn     = HandlerFn[Lowest(tab)],
              !.active = Lowest(tab)]

\* Cycles gone since the table was last loaded, the overshoot included.
Elapsed(tab) == tab.cycles[tab.active] - tab.count

Update(tab) ==
  [tab EXCEPT !.over   = tab.count,
              !.cycles = [h \in Handlers |-> IF tab.used[h]
                                             THEN tab.cycles[h] - Elapsed(tab)
                                             ELSE tab.cycles[h]]]

Acknowledge(tab) ==
  SetNew([Update(tab) EXCEPT !.used[tab.active] = FALSE])

AddAbsolute(tab, cycleTime, h) ==
  SetNew([tab EXCEPT !.used[h] = TRUE, !.cycles[h] = cycleTime + tab.over])

InterruptActive(tab, h) == tab.used[h]

\* do_cycles: the count after one instruction, and whether the pending
\* function is called (PendingInterruptFlag is never set).
Charge(tab) == [tab EXCEPT !.count = Short(tab.count - InsnCycles)]

Due(tab) == tab.count <= 0 /\ tab.fn # NoFn
=============================================================================
