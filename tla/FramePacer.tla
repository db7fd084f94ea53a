----------------------------- MODULE FramePacer -----------------------------
(***************************************************************************)
(* The pacing of the virtual machine against the host's clock: the poll    *)
(* m68k_run_2 (cpu/newcpu.c) makes every 0x10000 instructions, and the     *)
(* skipping of frames by Screen_DrawFrame (hardware/screen.c).             *)
(*                                                                         *)
(* The clock is SDL_GetTicks, a Uint32 that wraps; the loop subtracts two  *)
(* readings of it and adds what is left over from earlier frames, lag, an  *)
(* int that the addition converts to Uint32.  A VBL is worth FrameMs; when *)
(* more than FrameMs is left over another FrameMs is written off and the   *)
(* next drawing of the screen is skipped.                                  *)
(*                                                                         *)
(* The guest draws from its VBL handler, a few thousand instructions long: *)
(* before the next poll, or not at all when the VBL was not delivered.     *)
(***************************************************************************)
EXTENDS Integers

CONSTANTS
  FrameMs,          \* 20: milliseconds of a VBL
  TickMod,          \* 2^32: the number of values of a Uint32
  MaxGap,           \* milliseconds between two polls, at most
  MaxStart          \* milliseconds from SDL_Init to the loop, at most

\* The host keeps up: two polls are less than two frames apart.
ASSUME PacerAssumption ==
  /\ FrameMs \in Nat \ {0}
  /\ MaxGap \in Nat /\ MaxGap <= 2 * FrameMs
  /\ MaxStart \in Nat
  /\ TickMod \in Nat
  /\ TickMod > 2 * (MaxStart + 4 * FrameMs)

Uint32 == 0 .. TickMod - 1

\* Addition and subtraction of Uint32s.
Plus(a, b)  == IF a + b < TickMod THEN a + b ELSE a + b - TickMod
Minus(a, b) == IF b <= a THEN a - b ELSE a - b + TickMod

\* The conversions between int and Uint32.
ToUint(i) == IF i >= 0 THEN i ELSE i + TickMod
ToInt(u)  == IF 2 * u < TickMod THEN u ELSE u - TickMod

VARIABLES
  now,              \* the host's clock
  last_vbl,         \* its value when the last VBL was raised
  last_eventpoll,   \* its value when an event was last polled
  lag,              \* milliseconds left over
  skip,             \* bTooSlowSoSkipAFlip
  pending,          \* the VBL just raised has neither been drawn nor lost
  frames            \* history: VBLs raised and frames written off, a Uint32

vars == <<now, last_vbl, last_eventpoll, lag, skip, pending, frames>>

-----------------------------------------------------------------------------

Init ==
  /\ now \in 0 .. MaxStart
  /\ last_vbl = 0
  /\ last_eventpoll = 0
  /\ lag = 0
  /\ skip = FALSE
  /\ pending = FALSE
  /\ frames = 0

\* now - last_vbl + lag, when the clock shows t.
Owed(t) == Plus(Minus(t, last_vbl), ToUint(lag))

\* What is left of it after one VBL.
Left(t) == ToInt(Minus(Owed(t), FrameMs))

\* The clock shows t; the event poll is done when that is a new millisecond.
NoFrame(t) ==
  /\ Owed(t) < FrameMs
  /\ UNCHANGED <<last_vbl, lag, skip, pending, frames>>

\* Mutants: the frame written off is not taken from the lag; no frame is
\* ever written off.
FrameNotTaken(t) ==
  /\ Owed(t) >= FrameMs
  /\ lag' = Left(t)
  /\ skip' = (skip \/ Left(t) > FrameMs)
  /\ frames' = Plus(frames, IF Left(t) > FrameMs THEN 2 ELSE 1)
  /\ last_vbl' = t
  /\ pending' = TRUE

FrameKeepsLag(t) ==
  /\ Owed(t) >= FrameMs
  /\ lag' = Left(t)
  /\ frames' = Plus(frames, 1)
  /\ last_vbl' = t
  /\ pending' = TRUE
  /\ UNCHANGED skip

Frame(t) ==
  /\ Owed(t) >= FrameMs
  /\ lag' = IF Left(t) > FrameMs THEN Left(t) - FrameMs ELSE Left(t)
  /\ skip' = (skip \/ Left(t) > FrameMs)
  /\ frames' = Plus(frames, IF Left(t) > FrameMs THEN 2 ELSE 1)
  /\ last_vbl' = t
  /\ pending' = TRUE

\* A poll d milliseconds after the last one.
Poll(d) ==
  /\ ~pending
  /\ now' = Plus(now, d)
  /\ last_eventpoll' = now'
  /\ NoFrame(now') \/ Frame(now')

\* Screen_DrawFrame, called from the guest's VBL handler: a skipped frame
\* is drawn next time.
Draw ==
  /\ pending
  /\ pending' = FALSE
  /\ skip' = FALSE
  /\ UNCHANGED <<now, last_vbl, last_eventpoll, lag, frames>>

\* The VBL was not delivered, or the screen is held.
Lose ==
  /\ pending
  /\ pending' = FALSE
  /\ UNCHANGED <<now, last_vbl, last_eventpoll, lag, skip, frames>>

Next == Draw \/ Lose \/ \E d \in 0 .. MaxGap : Poll(d)

Spec == Init /\ [][Next]_vars

\* The loop goes on; so does the clock.
FairSpec ==
  /\ Spec
  /\ WF_vars(Next)
  /\ WF_vars(\E d \in 1 .. MaxGap : Poll(d))
  /\ SF_vars(Draw)

-----------------------------------------------------------------------------

TypeOK ==
  /\ now \in Uint32
  /\ last_vbl \in Uint32
  /\ last_eventpoll \in Uint32
  /\ lag \in Int /\ -TickMod <= 2 * lag /\ 2 * lag < TickMod
  /\ skip \in BOOLEAN
  /\ pending \in BOOLEAN
  /\ frames \in Uint32

(***************************************************************************)
(* newcpu.c:1392-1399: time is neither lost nor made up.  Whatever the     *)
(* jitter of the polls, the frames raised and written off and the lag are  *)
(* exactly the time up to the last VBL, in the clock's arithmetic.         *)
(***************************************************************************)
TimeKept == (frames * FrameMs + lag - last_vbl) % TickMod = 0

(***************************************************************************)
(* A host that polls at least every two frames never falls further behind  *)
(* than it was at the start or than one frame: the arithmetic of int and   *)
(* Uint32 never wraps the lag.                                             *)
(***************************************************************************)
Behind == Minus(now, last_vbl) + lag

LagBound ==
  /\ lag >= 0
  /\ Behind <= (IF MaxStart > FrameMs THEN MaxStart ELSE FrameMs)

(***************************************************************************)
(* newcpu.c:1396: once polls are less than two frames apart, whatever the  *)
(* loop was behind, at the start or later, is worked off for good.         *)
(***************************************************************************)
PollWithin(ms) == Minus(now', now) <= ms

CatchesUp == <>[][PollWithin(2 * FrameMs - 1)]_vars => <>[](lag <= FrameMs)

(***************************************************************************)
(* screen.c:332: once polls are no more than a frame and a millisecond     *)
(* apart and every VBL is drawn, frames are shown again and again.  It     *)
(* takes that much: with two milliseconds, VBLs can be raised two frames   *)
(* apart forever, one of the two written off each time, and then no frame  *)
(* is ever drawn.                                                          *)
(***************************************************************************)
EveryVblDrawn == pending /\ ~pending' => Draw

ScreenAlive ==
  <>[][PollWithin(FrameMs + 1) /\ EveryVblDrawn]_vars => []<>(pending /\ ~skip)

(***************************************************************************)
(* newcpu.c:1392-1399: the loop keeps up with the clock, with its frames    *)
(* and with the screen.                                                     *)
(***************************************************************************)
KeepsUp == CatchesUp /\ ScreenAlive
=============================================================================
