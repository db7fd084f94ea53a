------------------------------- MODULE VmCore -------------------------------
(***************************************************************************)
(* The execution loop of the virtual machine and everything it calls that  *)
(* raises, defers, delivers or drops an interrupt: m68k_run_2 and          *)
(* do_specialties (cpu/newcpu.c), do_cycles (cpu/events.h), the VBL        *)
(* handlers (hardware/video.c), Input_Update (hardware/input.c), the event *)
(* poll (hardware/main.c), the shortcut keys and the cold reset.           *)
(*                                                                         *)
(* All of it runs on one thread.  One iteration of the loop is split into  *)
(* phases where another party comes in: the guest program chooses an       *)
(* instruction, the host delivers an event, time has passed or not.        *)
(*                                                                         *)
(*   exec -> cycles -> special -> poll -> due -> [vbl -> raise ->          *)
(*   vblEvents -> vblQuit ->] exec                                         *)
(*                                                                         *)
(* and, while the guest is stopped by a STOP instruction, special loops    *)
(* through stopCycles -> stopEvents -> stopInt.                            *)
(***************************************************************************)
EXTENDS IntTable, Sequences, FiniteSets

CONSTANTS
  PendingDelay,     \* 100: cycles before a deferred VBL is tried again
  PollPeriod,       \* 0x10000: instructions between two polls of the host
  BufSize,          \* SIZE_KEYBUF, SIZE_MOUSEBUF
  SetupLen,         \* instructions from fe2.s:157 to the last of SetupHandlers
  VblLen,           \* instructions of the guest's VBL handler before its RTE
  GuestInsns,       \* which of "sr", "stop", "reset" the guest's main program uses
  SrMasks,          \* the interrupt masks it loads with them
  Shortcuts         \* the shortcut keys the user presses

ASSUME CoreAssumption ==
  /\ MaxInterrupts = 2
  /\ HandlerFn[0] = NoFn
  /\ HandlerFn[1] # NoFn
  /\ PendingDelay \in Nat \ {0}
  \* 100 cycles are a whole number of instructions.
  /\ PendingDelay % InsnCycles = 0
  /\ PendingDelay < Half /\ PendingDelay < NoInterrupt
  /\ InsnCycles < NoInterrupt /\ InsnCycles < Half
  /\ PollPeriod \in Nat \ {0}
  /\ BufSize \in Nat \ {0}
  /\ SetupLen \in Nat \ {0}
  /\ VblLen \in Nat
  /\ GuestInsns \subseteq {"sr", "stop", "reset"}
  /\ SrMasks \subseteq 0 .. 7
  /\ Shortcuts \subseteq {"reset", "quit", "dialog"}

\* Entries of the timer table (hardware/int.h).
IntNull    == 0
VblPending == 1

\* Autovector levels: EXCEPTION_VBLANK and EXCEPTION_INPUT.
Vblank == 4
Input  == 5
Levels == {Vblank, Input}

None    == -1       \* no interrupt is requested
Buffers == {"key", "button"}
Flags   == {"INT", "DOINT", "STOP"}
StopPhases == {"stopCycles", "stopEvents", "stopInt"}
VblPhases  == {"vbl", "raise", "vblEvents", "vblQuit"}
Phases  == {"exec", "cycles", "special", "poll", "due", "halted"}
             \cup StopPhases \cup VblPhases

VARIABLES
  phase,            \* where the loop is
  mask,             \* regs.intmask
  spc,              \* regs.spcflags
  requested,        \* requestedInterrupt
  tab,              \* the timer table
  iters,            \* iters_this_frame & 0xffff
  quit,             \* bQuitProgram
  shortcut,         \* ShortCutKey.Key, or "none"
  queued,           \* events in input.key_buf and input.mousebut_buf
  moved,            \* input.motion_x or motion_y is not zero
  guest,            \* the guest's main program: "boot", "setup" or "main"
  step,             \* in "setup", the instructions it has executed
  saved,            \* the masks in the SRs the guest's stack holds
  hpc               \* how far the guest's handler of each level is

hostVars  == <<quit, shortcut, queued, moved>>
guestVars == <<guest, step, saved, hpc>>
irqVars   == <<mask, spc, requested, tab>>
vars      == <<phase, iters, irqVars, hostVars, guestVars>>

-----------------------------------------------------------------------------
(* Interrupt requests *)

\* "level > FIND_IPL && level > intlev()": the second half is only evaluated
\* when the first is true, and intlev forgets the request it returns.
CanRaise(level) == level > mask /\ level > requested

AfterTest(level) ==
  IF CanRaise(level) THEN level
  ELSE IF level > mask THEN None
  ELSE requested

\* Mutant: the request is noted but the loop is not asked to look at it.
AfterRaiseUnflagged(level) == spc

\* M68000_Exception of an autovector: note the request, ask the loop to look.
AfterRaise(level) == IF CanRaise(level) THEN spc \cup {"INT"} ELSE spc

Waiting(q, m) == m \/ \E b \in Buffers : q[b] # 0

\* Input_Update, at the end of every Main_EventHandler; the caller may clear
\* flags afterwards.
InputUpdate(cleared) ==
  IF Waiting(queued', moved')
  THEN /\ requested' = AfterTest(Input)
       /\ spc' = AfterRaise(Input) \ cleared
  ELSE /\ requested' = requested
       /\ spc' = spc \ cleared

\* Main_EventHandler: at most one event of the host's queue, then Input_Update.
QuitEvent ==
  /\ quit' = TRUE
  /\ UNCHANGED <<shortcut, queued, moved>>

NoEvent == UNCHANGED hostVars

\* Motion adds up, and may add up to nothing.
MotionEvent ==
  /\ moved' \in IF moved THEN BOOLEAN ELSE {TRUE}
  /\ UNCHANGED <<quit, shortcut, queued>>

\* n entries more in a ring buffer, whose tail may run into its head.
Pushed(b, n) == [queued EXCEPT ![b] = (@ + n) % BufSize]

\* A key makes one entry, the release of Caps Lock two; a mouse button one.
KeyEvent ==
  /\ queued' \in {Pushed("key", n) : n \in 1 .. 2}
  /\ UNCHANGED <<quit, shortcut, moved>>

ButtonEvent ==
  /\ queued' = Pushed("button", 1)
  /\ UNCHANGED <<quit, shortcut, moved>>

ShortcutEvent(k) ==
  /\ shortcut' = k
  /\ UNCHANGED <<quit, queued, moved>>

HostEvent ==
  \/ NoEvent
  \/ QuitEvent
  \/ MotionEvent
  \/ KeyEvent
  \/ ButtonEvent
  \/ \E k \in Shortcuts : ShortcutEvent(k)

EventHandler == HostEvent /\ InputUpdate({})

-----------------------------------------------------------------------------
(* The guest *)

\* MakeFromSR: the new mask may let a pending interrupt through.
LoadSr(m, flags) ==
  /\ mask' = m
  /\ spc' = spc \cup {"INT"} \cup flags

\* fe2.s:156: the first instruction of the program enables interrupts.
EnableInterrupts ==
  /\ guest = "boot"
  /\ LoadSr(0, {})
  /\ guest' = "setup"
  /\ step' = 0
  /\ UNCHANGED <<saved, hpc, requested, queued, moved>>

\* On the way to SetupHandlers, whose last instructions set the vectors.
SetupInsn ==
  /\ guest = "setup"
  /\ step' = step + 1
  /\ guest' = IF step' = SetupLen THEN "main" ELSE "setup"
  /\ UNCHANGED <<saved, hpc, mask, spc, requested, queued, moved>>

\* An instruction without effect on any of this: of the main program, or of
\* the cleared memory below FE2BASE (see Interrupted).
OrdinaryInsn ==
  /\ saved = << >>
  /\ \/ guest = "main"
     \/ guest = "boot" /\ mask # 7
  /\ UNCHANGED <<guestVars, mask, spc, requested, queued, moved>>

MoveToSr(m) ==
  /\ "sr" \in GuestInsns
  /\ guest = "main" /\ saved = << >>
  /\ LoadSr(m, {})
  /\ UNCHANGED <<guestVars, requested, queued, moved>>

StopInsn(m) ==
  /\ "stop" \in GuestInsns
  /\ guest = "main" /\ saved = << >>
  /\ LoadSr(m, {"STOP"})
  /\ UNCHANGED <<guestVars, requested, queued, moved>>

\* RESET calls customreset.
ResetInsn ==
  /\ "reset" \in GuestInsns
  /\ guest = "main" /\ saved = << >>
  /\ requested' = None
  /\ UNCHANGED <<guestVars, mask, spc, queued, moved>>

InHandler(level) == saved # << >> /\ mask = level

\* InputHandler: Call_GetMouseInput, Call_GetKeyboardEvent, RTE.
HandlerLen(level) == IF level = Input THEN 2 ELSE VblLen

Popped(b) == [queued EXCEPT ![b] = IF @ = 0 THEN 0 ELSE @ - 1]

GetMouseInput ==
  /\ InHandler(Input) /\ hpc[Input] = 0
  /\ moved' = FALSE
  /\ queued' = Popped("button")
  /\ hpc' = [hpc EXCEPT ![Input] = 1]
  /\ UNCHANGED <<guest, step, saved, mask, spc, requested>>

GetKeyboardEvent ==
  /\ InHandler(Input) /\ hpc[Input] = 1
  /\ queued' = Popped("key")
  /\ hpc' = [hpc EXCEPT ![Input] = 2]
  /\ UNCHANGED <<guest, step, saved, mask, spc, requested, moved>>

VblankInsn ==
  /\ InHandler(Vblank) /\ hpc[Vblank] < VblLen
  /\ hpc' = [hpc EXCEPT ![Vblank] = @ + 1]
  /\ UNCHANGED <<guest, step, saved, mask, spc, requested, queued, moved>>

Rte(level) ==
  /\ InHandler(level) /\ hpc[level] = HandlerLen(level)
  /\ LoadSr(saved[Len(saved)], {})
  /\ saved' = SubSeq(saved, 1, Len(saved) - 1)
  /\ hpc' = [hpc EXCEPT ![level] = 0]
  /\ UNCHANGED <<guest, step, requested, queued, moved>>

GuestInsn ==
  \/ EnableInterrupts \/ SetupInsn \/ OrdinaryInsn
  \/ \E m \in SrMasks : MoveToSr(m) \/ StopInsn(m)
  \/ ResetInsn
  \/ GetMouseInput \/ GetKeyboardEvent \/ VblankInsn
  \/ \E level \in Levels : Rte(level)

\* Exception of an autovector: SR and PC are pushed and the vector fetched.
\* Before SetupHandlers the vectors are zero: the guest runs through the
\* cleared memory from address 0, where everything decodes to instructions
\* without effect, up to FE2BASE, and starts again.
Interrupted(level) ==
  IF guest = "main"
  THEN /\ saved' = Append(saved, mask)
       /\ UNCHANGED <<guest, step, hpc>>
  ELSE /\ guest' = "boot"
       /\ step' = 0
       /\ UNCHANGED <<saved, hpc>>

-----------------------------------------------------------------------------
(* The execution loop *)

Init ==
  /\ phase = "exec"
  /\ mask = 7
  /\ spc = {}
  /\ requested = None
  /\ tab = InitTable
  /\ iters = 0
  /\ quit = FALSE
  /\ shortcut = "none"
  /\ queued = [b \in Buffers |-> 0]
  /\ moved = FALSE
  /\ guest = "boot"
  /\ step = 0
  /\ saved = << >>
  /\ hpc = [level \in Levels |-> 0]

Goto(p) == phase' = p

\* while (!bQuitProgram): one instruction of the guest.
Execute ==
  /\ phase = "exec" /\ ~quit
  /\ GuestInsn
  /\ Goto("cycles")
  /\ UNCHANGED <<iters, tab, quit, shortcut>>

Halt ==
  /\ phase = "exec" /\ quit
  /\ Goto("halted")
  /\ UNCHANGED <<iters, irqVars, hostVars, guestVars>>

\* Mutants: the handler of a deferred VBL gives up when it still cannot raise
\* it, or does not acknowledge its timer when it can.
VblPendingGivesUp(t) ==
  /\ requested' = AfterTest(Vblank)
  /\ spc' = AfterRaise(Vblank)
  /\ tab' = Acknowledge(t)

VblPendingUnacknowledged(t) ==
  /\ requested' = AfterTest(Vblank)
  /\ spc' = AfterRaise(Vblank)
  /\ tab' = IF CanRaise(Vblank)
            THEN t
            ELSE AddAbsolute(Acknowledge(t), PendingDelay, VblPending)

\* Video_InterruptHandler_VBL_Pending, on the table do_cycles leaves.
VblPendingHandler(t) ==
  /\ requested' = AfterTest(Vblank)
  /\ spc' = AfterRaise(Vblank)
  /\ tab' = IF CanRaise(Vblank)
            THEN Acknowledge(t)
            ELSE AddAbsolute(Acknowledge(t), PendingDelay, VblPending)

DoCycles ==
  IF Due(Charge(tab))
  THEN VblPendingHandler(Charge(tab))
  ELSE /\ tab' = Charge(tab)
       /\ UNCHANGED <<requested, spc>>

Cycles ==
  /\ phase = "cycles"
  /\ DoCycles
  /\ iters' = (iters + 1) % PollPeriod
  /\ Goto("special")
  /\ UNCHANGED <<mask, hostVars, guestVars>>

\* do_specialties.  Taking the request forgets it, deliverable or not.
EnterStop ==
  /\ phase = "special" /\ "STOP" \in spc
  /\ Goto("stopCycles")
  /\ UNCHANGED <<iters, irqVars, hostVars, guestVars>>

\* Mutant: the comparison lets a level interrupt itself.
DeliverableAtMask == requested # None /\ requested >= mask

Deliverable == requested # None /\ requested > mask

\* Interrupt sets SPCFLAG_INT, which the next statement turns into DOINT.
Deliver ==
  /\ phase = "special" /\ "STOP" \notin spc
  /\ "DOINT" \in spc /\ Deliverable
  /\ mask' = requested
  /\ spc' = {"DOINT"}
  /\ requested' = None
  /\ Interrupted(requested)
  /\ Goto("poll")
  /\ UNCHANGED <<iters, tab, hostVars>>

\* Mutant: SPCFLAG_INT is cleared instead of becoming SPCFLAG_DOINT.
NoDeliveryForgets ==
  /\ phase = "special" /\ "STOP" \notin spc
  /\ "DOINT" \in spc => ~Deliverable
  /\ requested' = IF "DOINT" \in spc THEN None ELSE requested
  /\ spc' = {}
  /\ Goto("poll")
  /\ UNCHANGED <<iters, mask, tab, hostVars, guestVars>>

NoDelivery ==
  /\ phase = "special" /\ "STOP" \notin spc
  /\ "DOINT" \in spc => ~Deliverable
  /\ requested' = IF "DOINT" \in spc THEN None ELSE requested
  /\ spc' = IF "INT" \in spc THEN {"DOINT"} ELSE {}
  /\ Goto("poll")
  /\ UNCHANGED <<iters, mask, tab, hostVars, guestVars>>

\* The loop of a stopped processor.
StopCycles ==
  /\ phase = "stopCycles"
  /\ DoCycles
  /\ Goto("stopEvents")
  /\ UNCHANGED <<iters, mask, hostVars, guestVars>>

\* Events are looked at for a mask of 6 or 7 only; a quit ends the stop.
StopEvents ==
  /\ phase = "stopEvents" /\ mask > 5
  /\ HostEvent
  /\ InputUpdate(IF quit' THEN {"STOP"} ELSE {})
  /\ Goto("stopInt")
  /\ UNCHANGED <<iters, mask, tab, guestVars>>

StopNoEvents ==
  /\ phase = "stopEvents" /\ mask <= 5
  /\ Goto("stopInt")
  /\ UNCHANGED <<iters, irqVars, hostVars, guestVars>>

AfterStop(flags) == IF "STOP" \in flags THEN "stopCycles" ELSE "special"

StopDeliver ==
  /\ phase = "stopInt"
  /\ spc \cap {"INT", "DOINT"} # {} /\ Deliverable
  /\ mask' = requested
  /\ spc' = {"INT"}
  /\ requested' = None
  /\ Interrupted(requested)
  /\ Goto("special")
  /\ UNCHANGED <<iters, tab, hostVars>>

StopNoDelivery ==
  /\ phase = "stopInt"
  /\ spc \cap {"INT", "DOINT"} # {} => ~Deliverable
  /\ requested' = IF spc \cap {"INT", "DOINT"} # {} THEN None ELSE requested
  /\ spc' = spc \cap {"STOP"}
  /\ Goto(AfterStop(spc))
  /\ UNCHANGED <<iters, mask, tab, hostVars, guestVars>>

\* Every PollPeriod instructions: handle an event if the millisecond changed...
NoPoll ==
  /\ phase = "poll" /\ iters # 0
  /\ Goto("exec")
  /\ UNCHANGED <<iters, irqVars, hostVars, guestVars>>

PollEvents ==
  /\ phase = "poll" /\ iters = 0
  /\ EventHandler
  /\ Goto("due")
  /\ UNCHANGED <<iters, mask, tab, guestVars>>

SameMillisecond ==
  /\ phase = "poll" /\ iters = 0
  /\ Goto("due")
  /\ UNCHANGED <<iters, irqVars, hostVars, guestVars>>

\* ... and raise a VBL if 20 ms have gone (FramePacer says when).
VblDue ==
  /\ phase = "due"
  /\ Goto("vbl")
  /\ UNCHANGED <<iters, irqVars, hostVars, guestVars>>

VblNotDue ==
  /\ phase = "due"
  /\ Goto("exec")
  /\ UNCHANGED <<iters, irqVars, hostVars, guestVars>>

-----------------------------------------------------------------------------
(* Video_InterruptHandler_VBL *)

\* Reset_VM: memory, timer table, CPU.  Neither requestedInterrupt nor the
\* input buffers are reset.
ColdReset ==
  /\ phase = "vbl" /\ shortcut = "reset"
  /\ tab' = Reset(tab)
  /\ mask' = 7
  /\ spc' = {}
  /\ guest' = "boot"
  /\ step' = 0
  /\ saved' = << >>
  /\ hpc' = [level \in Levels |-> 0]
  /\ shortcut' = "none"
  /\ Goto("raise")
  /\ UNCHANGED <<iters, requested, quit, queued, moved>>

\* The quit key, or the dialog, in which the user may ask to quit.
OtherShortcut ==
  /\ phase = "vbl" /\ shortcut # "reset"
  /\ quit' \in CASE shortcut = "quit"   -> {TRUE}
                 [] shortcut = "dialog" -> {quit, TRUE}
                 [] OTHER               -> {quit}
  /\ shortcut' = "none"
  /\ Goto("raise")
  /\ UNCHANGED <<iters, irqVars, queued, moved, guestVars>>

\* Mutant: a VBL that is refused while another is deferred sets its timer anew.
RaiseVblPostpones ==
  /\ phase = "raise"
  /\ requested' = AfterTest(Vblank)
  /\ spc' = AfterRaise(Vblank)
  /\ tab' = IF CanRaise(Vblank) THEN tab ELSE AddAbsolute(tab, PendingDelay, VblPending)
  /\ Goto("vblEvents")
  /\ UNCHANGED <<iters, mask, hostVars, guestVars>>

RaiseVbl ==
  /\ phase = "raise"
  /\ requested' = AfterTest(Vblank)
  /\ spc' = AfterRaise(Vblank)
  /\ tab' = IF CanRaise(Vblank) \/ InterruptActive(tab, VblPending)
            THEN tab
            ELSE AddAbsolute(tab, PendingDelay, VblPending)
  /\ Goto("vblEvents")
  /\ UNCHANGED <<iters, mask, hostVars, guestVars>>

VblEvents ==
  /\ phase = "vblEvents"
  /\ EventHandler
  /\ Goto("vblQuit")
  /\ UNCHANGED <<iters, mask, tab, guestVars>>

VblQuit ==
  /\ phase = "vblQuit"
  /\ tab' = IF quit THEN AddAbsolute(tab, InsnCycles, IntNull) ELSE tab
  /\ Goto("exec")
  /\ UNCHANGED <<iters, mask, spc, requested, hostVars, guestVars>>

\* m68k_go has returned.
Exited == phase = "halted" /\ UNCHANGED vars

Next ==
  \/ Execute \/ Halt \/ Exited \/ Cycles
  \/ EnterStop \/ Deliver \/ NoDelivery
  \/ StopCycles \/ StopEvents \/ StopNoEvents \/ StopDeliver \/ StopNoDelivery
  \/ NoPoll \/ PollEvents \/ SameMillisecond \/ VblDue \/ VblNotDue
  \/ ColdReset \/ OtherShortcut \/ RaiseVbl \/ VblEvents \/ VblQuit

Spec == Init /\ [][Next]_vars

(***************************************************************************)
(* The loop never blocks, so it always takes its next step; the host's     *)
(* clock goes on, so again and again a poll finds that a millisecond has   *)
(* passed and that 20 of them have; and the cleared memory the guest may   *)
(* run through ends at the program's entry.                                *)
(***************************************************************************)
Fairness ==
  /\ WF_vars(Next)
  /\ SF_vars(PollEvents)
  /\ SF_vars(VblDue)
  /\ SF_vars(Execute /\ EnableInterrupts)

FairSpec == Spec /\ Fairness

-----------------------------------------------------------------------------

(***************************************************************************)
(* The type of every variable.                                             *)
(***************************************************************************)
TypeOK ==
  /\ phase \in Phases
  /\ mask \in 0 .. 7
  /\ spc \subseteq Flags
  /\ requested \in {None} \cup Levels
  /\ tab \in Tables
  /\ iters \in 0 .. PollPeriod - 1
  /\ quit \in BOOLEAN
  /\ shortcut \in Shortcuts \cup {"none"}
  /\ queued \in [Buffers -> 0 .. BufSize - 1]
  /\ moved \in BOOLEAN
  /\ guest \in {"boot", "setup", "main"}
  /\ step \in 0 .. SetupLen
  /\ saved \in Seq(0 .. 7)
  /\ hpc \in [Levels -> Nat]

(***************************************************************************)
(* A deferred VBL is never forgotten or late: while its timer is armed the *)
(* one count that is counted down is that timer's, has not run out, and    *)
(* nothing is carried over; while it is not armed no function is pending.  *)
(* The reset forgets only part of the table: until the VBL handler it is   *)
(* called from arms the timer again, a pending function has no timer.      *)
(***************************************************************************)
RetryKept ==
  ~tab.used[IntNull] /\ phase # "raise" =>
    IF tab.used[VblPending]
    THEN /\ tab.fn = HandlerFn[VblPending] /\ tab.active = VblPending
         /\ tab.cycles[VblPending] = PendingDelay
         /\ tab.count \in 1 .. PendingDelay
         /\ tab.over = 0
    ELSE tab.fn = NoFn

\* The cycles before the retry.  A handler that is about to defer its VBL counts
\* as having done so.
NotDeferred == -1

Left ==
  IF tab.used[VblPending] /\ ~tab.used[IntNull] THEN tab.count
  ELSE IF phase = "raise" /\ ~CanRaise(Vblank) THEN PendingDelay
  ELSE NotDeferred

Retry == INSTANCE RetryTimer WITH
  Delay <- PendingDelay, Idle <- NotDeferred, left <- Left,
  charging <- phase \in {"cycles", "stopCycles"},
  refused <- ~CanRaise(Vblank), reset <- shortcut = "reset"

(***************************************************************************)
(* video.c:74, video.c:105: a deferred VBL is tried again exactly every    *)
(* PendingDelay cycles.  The VBLs refused in the meantime do not put it    *)
(* off, the count of an idle table that has wrapped does not bring it      *)
(* forward, no try follows one that was let through, and after a cold      *)
(* reset, which forgets the timer but not its function, it starts over.    *)
(***************************************************************************)
KeepsTime == Retry!Spec

(***************************************************************************)
(* do_specialties looks at requestedInterrupt only when SPCFLAG_INT or     *)
(* SPCFLAG_DOINT tells it to, yet the request, the flags and the mask are  *)
(* changed in five places.  A request nobody would ever look at exists     *)
(* only after a cold reset, and only until the guest's first instruction.  *)
(***************************************************************************)
RequestSeen ==
  requested # None => spc \cap {"INT", "DOINT"} # {} \/ guest = "boot"

(***************************************************************************)
(* The guest's interrupt handlers nest by priority: an interrupted mask is *)
(* below the one that interrupted it, so no handler interrupts itself and  *)
(* the guest's stack never holds more than one frame per level; a handler  *)
(* that is not on the stack starts from its beginning.                     *)
(***************************************************************************)
ActiveLevels ==
  {level \in Levels : saved # << >> /\ (mask = level \/ \E i \in 2 .. Len(saved) : saved[i] = level)}

Nesting ==
  /\ saved # << >> => guest = "main" /\ mask \in Levels /\ saved[Len(saved)] < mask
  /\ \A i \in 2 .. Len(saved) : saved[i] = Vblank /\ saved[i - 1] < saved[i]
  /\ \A level \in Levels : hpc[level] # 0 => level \in ActiveLevels

(***************************************************************************)
(* A VBL that was requested or deferred leaves the machine only delivered, *)
(* or by one of four losses: an input interrupt takes the request's place, *)
(* the guest raised its mask before the request was looked at, the guest   *)
(* executed RESET, or the user reset the machine.                          *)
(***************************************************************************)
VblOutstanding == requested = Vblank \/ tab.used[VblPending]

VblAccounted ==
  [][VblOutstanding /\ ~VblOutstanding' =>
       \/ mask < Vblank /\ mask' = Vblank
       \/ requested' = Input
       \/ mask >= Vblank /\ phase \in {"special", "stopInt"}
       \/ phase = "exec" /\ "reset" \in GuestInsns
       \/ shortcut = "reset"]_vars

(***************************************************************************)
(* While no input arrives the guest's VBL handler runs again and again,    *)
(* however the retries of deferred VBLs fall.                              *)
(***************************************************************************)
VblKeepsComing ==
  <>[](~Waiting(queued, moved)) => []<>InHandler(Vblank) \/ <>quit

(***************************************************************************)
(* Input that waits is noticed: the guest's input handler runs.            *)
(***************************************************************************)
InputServed ==
  Waiting(queued, moved) ~> InHandler(Input) \/ ~Waiting(queued, moved) \/ quit
=============================================================================
