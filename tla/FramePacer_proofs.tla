-------------------------- MODULE FramePacer_proofs --------------------------
(***************************************************************************)
(* Theorems about the frame pacer (FramePacer): its bound on the lag and   *)
(* its conservation of time, for every frame length, clock width, gap      *)
(* between polls and start-up time that PacerAssumption allows.            *)
(***************************************************************************)
EXTENDS FramePacer, TLAPS

Slack == IF MaxStart > FrameMs THEN MaxStart ELSE FrameMs

\* The invariant is inductive as it stands: what a poll adds to the time the
\* machine is behind, at most two frames, is taken away again by the VBL and
\* the frame written off.
IInv == TypeOK /\ LagBound

LEMMA SlackNat ==
  /\ Slack \in Nat
  /\ MaxStart <= Slack
  /\ FrameMs <= Slack
  /\ 2 * (Slack + 2 * FrameMs) < TickMod
BY PacerAssumption DEF Slack

\* While the lag is in range the sum the loop compares with FrameMs is the
\* time behind after the poll, and nothing wraps.
LEMMA OwedExact ==
  ASSUME IInv, NEW d \in 0 .. MaxGap
  PROVE  /\ Owed(Plus(now, d)) = Behind + d
         /\ Plus(now, d) \in Uint32
         /\ 2 * (Behind + d) < TickMod
<1>1. d \in Nat /\ d <= 2 * FrameMs
  BY PacerAssumption
<1>2. /\ now \in Uint32 /\ last_vbl \in Uint32
      /\ lag \in Int /\ lag >= 0
      /\ TickMod \in Nat
  BY PacerAssumption DEF IInv, TypeOK, LagBound
<1>3. Behind <= Slack
  BY DEF IInv, LagBound, Slack
<1>4. /\ Minus(now, last_vbl) \in Nat
      /\ Behind = Minus(now, last_vbl) + lag
  BY <1>2 DEF Behind, Minus, Uint32
<1>5. 2 * (Behind + d) < TickMod
  BY <1>1, <1>2, <1>3, <1>4, SlackNat, PacerAssumption
<1>6. Plus(now, d) \in Uint32
  BY <1>1, <1>2, <1>4, <1>5 DEF Plus, Uint32
<1>7. Minus(Plus(now, d), last_vbl) = Minus(now, last_vbl) + d
  BY <1>1, <1>2, <1>4, <1>5 DEF Minus, Plus, Uint32
<1>8. Owed(Plus(now, d)) = Behind + d
  BY <1>1, <1>2, <1>4, <1>5, <1>7 DEF Owed, ToUint, Plus
<1> QED BY <1>5, <1>6, <1>8

LEMMA InitIInv == Init => IInv
<1> SUFFICES ASSUME Init PROVE IInv
  OBVIOUS
<1>1. /\ MaxStart \in Nat /\ TickMod \in Nat
      /\ MaxStart < TickMod /\ 0 < TickMod
      /\ FrameMs \in Nat
  BY PacerAssumption
<1>2. now \in 0 .. MaxStart /\ last_vbl = 0 /\ lag = 0
  BY DEF Init
<1>3. TypeOK
  <2>1. now \in Uint32 /\ 0 \in Uint32
    BY <1>1, <1>2 DEF Uint32
  <2>2. lag \in Int /\ -TickMod <= 2 * lag /\ 2 * lag < TickMod
    BY <1>1, <1>2
  <2> QED BY <2>1, <2>2 DEF Init, TypeOK
<1>4. LagBound
  <2>1. Behind = now
    BY <1>1, <1>2 DEF Behind, Minus
  <2> QED BY <1>1, <1>2, <2>1 DEF LagBound
<1> QED BY <1>3, <1>4 DEF IInv

\* Both outcomes of a poll keep the time behind in bounds.  The clock's new
\* value is named t.
LEMMA PollIInv ==
  ASSUME IInv, NEW d \in 0 .. MaxGap, Poll(d)
  PROVE  IInv'
<1> DEFINE t == Plus(now, d)
           b == Behind + d
<1>1. /\ Owed(t) = b
      /\ t \in Uint32
      /\ 2 * b < TickMod
  BY OwedExact
<1>2. now' = t /\ last_eventpoll' = t
  BY DEF Poll
<1>3. /\ TickMod \in Nat /\ FrameMs \in Nat /\ FrameMs > 0
      /\ d \in Nat /\ d <= 2 * FrameMs
      /\ now \in Uint32 /\ last_vbl \in Uint32 /\ frames \in Uint32
      /\ lag \in Nat
      /\ 2 < TickMod
  BY PacerAssumption DEF IInv, TypeOK, LagBound
<1>4. Minus(now, last_vbl) \in Nat
  BY <1>3 DEF Minus, Uint32
<1>5. b \in Nat /\ b = Minus(now, last_vbl) + lag + d
  BY <1>3, <1>4 DEF Behind
<1>6. Behind <= Slack
  BY DEF IInv, LagBound, Slack
<1> HIDE DEF t, b
<1>7. CASE NoFrame(t)
  <2>1. UNCHANGED <<last_vbl, lag, skip, pending, frames>> /\ b < FrameMs
    BY <1>1, <1>7 DEF NoFrame
  <2>2. Minus(t, last_vbl) = Minus(now, last_vbl) + d
    BY <1>1, <1>3, <1>4, <1>5 DEF t, Minus, Plus, Uint32
  <2>3. Minus(t, last_vbl) + lag = b
    BY <1>3, <1>4, <1>5, <2>2
  <2>4. Behind' = b
    BY <1>2, <2>1, <2>3 DEF Behind
  <2>5. b <= Slack
    BY <1>3, <1>5, <2>1, SlackNat
  <2>6. LagBound'
    BY <2>1, <2>4, <2>5 DEF LagBound, Slack, IInv
  <2>7. TypeOK'
    BY <1>1, <1>2, <2>1 DEF IInv, TypeOK
  <2> QED BY <2>6, <2>7 DEF IInv
<1>8. CASE Frame(t)
  <2>1. b >= FrameMs
    BY <1>1, <1>8 DEF Frame
  <2>2. Left(t) = b - FrameMs
    BY <1>1, <1>3, <1>5, <2>1 DEF Left, Minus, ToInt
  <2> DEFINE l == IF b - FrameMs > FrameMs THEN b - FrameMs - FrameMs ELSE b - FrameMs
  <2>3. lag' = l /\ last_vbl' = t
    BY <1>8, <2>2 DEF Frame
  <2>4. /\ l \in Nat /\ l <= Slack
        /\ -TickMod <= 2 * l /\ 2 * l < TickMod
    BY <1>1, <1>3, <1>4, <1>5, <1>6, <2>1, SlackNat DEF Behind
  <2> HIDE DEF l
  <2>5. Minus(t, t) = 0
    BY <1>1, <1>3 DEF Minus, Uint32
  <2>6. 0 + l = l /\ l >= 0
    BY <2>4
  <2>7. Behind' = l
    BY <1>2, <2>3, <2>5, <2>6 DEF Behind
  <2>8. LagBound'
    BY <2>3, <2>4, <2>6, <2>7 DEF LagBound, Slack
  <2>9. frames' \in Uint32
    <3>1. Plus(frames, 1) \in Uint32 /\ Plus(frames, 2) \in Uint32
      BY <1>3 DEF Plus, Uint32
    <3> QED BY <3>1, <1>8 DEF Frame
  <2>10. TypeOK'
    <3>1. lag' \in Int /\ -TickMod <= 2 * lag' /\ 2 * lag' < TickMod
      BY <2>3, <2>4
    <3>2. skip' \in BOOLEAN /\ pending' \in BOOLEAN
      BY <1>8 DEF Frame, IInv, TypeOK
    <3> QED BY <1>1, <1>2, <2>3, <2>9, <3>1, <3>2 DEF TypeOK
  <2> QED BY <2>8, <2>10 DEF IInv
<1> QED BY <1>2, <1>7, <1>8 DEF Poll

\* Drawing a frame or losing it does not touch the clock or the lag.
LEMMA NextIInv == IInv /\ [Next]_vars => IInv'
<1> SUFFICES ASSUME IInv, [Next]_vars PROVE IInv'
  OBVIOUS
<1>1. CASE \E d \in 0 .. MaxGap : Poll(d)
  BY <1>1, PollIInv
<1>2. CASE Draw
  BY <1>2 DEF Draw, IInv, TypeOK, LagBound, Behind
<1>3. CASE Lose
  BY <1>3 DEF Lose, IInv, TypeOK, LagBound, Behind
<1>4. CASE UNCHANGED vars
  BY <1>4 DEF vars, IInv, TypeOK, LagBound, Behind
<1> QED BY <1>1, <1>2, <1>3, <1>4 DEF Next

(***************************************************************************)
(* Every variable of the pacer keeps its type: in particular the sums of   *)
(* newcpu.c:1394-1396 never leave the range of an int.                     *)
(***************************************************************************)
THEOREM TypeCorrect == Spec => []TypeOK
<1>1. IInv => TypeOK
  BY DEF IInv
<1> QED BY InitIInv, NextIInv, <1>1, PTL DEF Spec

(***************************************************************************)
(* newcpu.c:1394-1399: a host that polls at least every two frames never   *)
(* gets further behind than it was at the start, or than one frame, and    *)
(* the lag is never negative.                                              *)
(***************************************************************************)
THEOREM LagBounded == Spec => []LagBound
<1>1. IInv => LagBound
  BY DEF IInv
<1> QED BY InitIInv, NextIInv, <1>1, PTL DEF Spec

-----------------------------------------------------------------------------

\* TimeKept without the remainder, which is easier to reason about.
Sum == frames * FrameMs + lag - last_vbl

Congruent == \E k \in Int : Sum = k * TickMod

LEMMA CongruentIsTimeKept ==
  ASSUME IInv, Congruent
  PROVE  TimeKept
<1>1. TickMod \in Nat \ {0}
  BY PacerAssumption
<1>2. ASSUME NEW k \in Int PROVE (k * TickMod) % TickMod = 0
  BY <1>1
<1> QED BY <1>2 DEF Congruent, TimeKept, Sum

\* The products of the sum, multiplied out.
LEMMA Multiplied ==
  ASSUME NEW f \in Int, NEW n \in Int, NEW m \in Int, NEW w \in Int
  PROVE  /\ (f + n) * m = f * m + n * m
         /\ (f + n - w) * m = f * m + n * m - w * m
         /\ f * m + w * m = (f + w) * m
         /\ f * m - w * m = (f - w) * m
         /\ f * m \in Int /\ 1 * m = m /\ 2 * m = m + m
         /\ w * m = m * w
OBVIOUS

\* A Uint32 sum or difference is the exact one up to one turn of the clock.
LEMMA UpToOneTurn ==
  ASSUME NEW u \in Int, NEW v \in Int
  PROVE  /\ \E g \in {0, 1} : Plus(u, v) = u + v - g * TickMod
         /\ \E h \in {0, 1} : Minus(u, v) = u - v + h * TickMod
BY PacerAssumption DEF Plus, Minus

LEMMA FrameCongruent ==
  ASSUME IInv, Congruent, NEW d \in 0 .. MaxGap, Poll(d), Frame(Plus(now, d))
  PROVE  Congruent'
<1> DEFINE t == Plus(now, d)
           b == Behind + d
<1>1. /\ Owed(t) = b
      /\ 2 * b < TickMod
  BY OwedExact
<1>2. /\ TickMod \in Nat /\ FrameMs \in Nat /\ FrameMs > 0 /\ d \in Nat
      /\ now \in Int /\ last_vbl \in Int /\ frames \in Int /\ lag \in Nat
  BY PacerAssumption DEF IInv, TypeOK, LagBound, Uint32
<1>3. Minus(now, last_vbl) \in Nat
  BY PacerAssumption DEF Minus, IInv, TypeOK, Uint32
<1>4. b \in Nat /\ b = Minus(now, last_vbl) + lag + d
  BY <1>2, <1>3 DEF Behind
<1> HIDE DEF t, b
<1>5. PICK k \in Int : Sum = k * TickMod
  BY DEF Congruent
<1>6. PICK h \in {0, 1} : Minus(now, last_vbl) = now - last_vbl + h * TickMod
  BY <1>2, UpToOneTurn
<1>7. PICK g \in {0, 1} : t = now + d - g * TickMod
  BY <1>2, UpToOneTurn DEF t
<1>8. b >= FrameMs /\ Left(t) = b - FrameMs
  <2>1. b >= FrameMs
    BY <1>1 DEF Frame, t
  <2> QED BY <1>1, <1>2, <1>4, <2>1 DEF Left, Minus, ToInt
<1>9. PICK n \in {1, 2} : lag' = b - n * FrameMs /\ frames' = Plus(frames, n)
  BY <1>2, <1>4, <1>8 DEF Frame, t
<1>10. PICK e \in {0, 1} : Plus(frames, n) = frames + n - e * TickMod
  BY <1>2, UpToOneTurn
<1>11. last_vbl' = t
  BY DEF Frame, t
<1>12. Sum' = (frames + n - e * TickMod) * FrameMs + (b - n * FrameMs) - t
  BY <1>9, <1>10, <1>11 DEF Sum
<1>13. (frames + n - e * TickMod) * FrameMs
         = frames * FrameMs + n * FrameMs - (e * FrameMs) * TickMod
  <2>1. e * TickMod \in Int /\ n \in Int /\ e \in Int
    BY <1>2
  <2>2. (frames + n - e * TickMod) * FrameMs
          = frames * FrameMs + n * FrameMs - (e * TickMod) * FrameMs
    BY <1>2, <2>1, Multiplied
  <2>3. (e * TickMod) * FrameMs = (e * FrameMs) * TickMod
    BY <1>2, <2>1
  <2> QED BY <2>2, <2>3
<1> DEFINE s == frames * FrameMs
           p == n * FrameMs
           q == (e * FrameMs) * TickMod
           x == h * TickMod
           y == g * TickMod
<1>14. /\ s \in Int /\ p \in Int /\ q \in Int /\ x \in Int /\ y \in Int
       /\ e * FrameMs \in Int /\ k \in Int /\ t \in Int
  BY <1>2, <1>7
<1>15. Sum' = s + p - q + (b - p) - t
  BY <1>12, <1>13
<1>16. /\ Sum = s + lag - last_vbl
       /\ b = now - last_vbl + x + lag + d
       /\ t = now + d - y
  BY <1>4, <1>6, <1>7 DEF Sum
<1> HIDE DEF s, p, q, x, y
<1>17. s + p - q + (b - p) - t = Sum - q + x + y
  BY <1>2, <1>4, <1>14, <1>16
<1>18. Sum - q + x + y = (k - e * FrameMs + h + g) * TickMod
  <2>1. k * TickMod - (e * FrameMs) * TickMod = (k - e * FrameMs) * TickMod
    BY <1>2, <1>14, Multiplied
  <2>2. (k - e * FrameMs) * TickMod + h * TickMod = (k - e * FrameMs + h) * TickMod
    BY <1>2, <1>14, Multiplied
  <2>3. (k - e * FrameMs + h) * TickMod + g * TickMod
          = (k - e * FrameMs + h + g) * TickMod
    BY <1>2, <1>14, Multiplied
  <2> QED BY <1>5, <2>1, <2>2, <2>3 DEF q, x, y
<1>19. k - e * FrameMs + h + g \in Int
  BY <1>2, <1>14
<1> QED BY <1>15, <1>17, <1>18, <1>19 DEF Congruent

(***************************************************************************)
(* newcpu.c:1394-1402: whatever the jitter of the polls, and however often *)
(* the clock wraps, the frames raised and written off and the lag are the  *)
(* time up to the last VBL: the VBLs do not drift from the host's clock.   *)
(***************************************************************************)
THEOREM FramesKeepTime == Spec => []TimeKept
<1>1. Init => Congruent
  <2> SUFFICES ASSUME Init PROVE Congruent
    OBVIOUS
  <2>1. Sum = 0 * TickMod
    BY PacerAssumption DEF Init, Sum
  <2> QED BY <2>1 DEF Congruent
<1>2. IInv /\ Congruent /\ [Next]_vars => Congruent'
  <2> SUFFICES ASSUME IInv, Congruent, [Next]_vars PROVE Congruent'
    OBVIOUS
  <2>1. CASE \E d \in 0 .. MaxGap : Poll(d)
    <3>1. PICK d \in 0 .. MaxGap : Poll(d)
      BY <2>1
    <3>2. now' = Plus(now, d) /\ (NoFrame(now') \/ Frame(now'))
      BY <3>1 DEF Poll
    <3>3. CASE NoFrame(now')
      BY <3>3 DEF NoFrame, Congruent, Sum
    <3>4. CASE Frame(now')
      BY <3>1, <3>2, <3>4, FrameCongruent
    <3> QED BY <3>2, <3>3, <3>4
  <2>2. CASE Draw
    BY <2>2 DEF Draw, Congruent, Sum
  <2>3. CASE Lose
    BY <2>3 DEF Lose, Congruent, Sum
  <2>4. CASE UNCHANGED vars
    BY <2>4 DEF vars, Congruent, Sum
  <2> QED BY <2>1, <2>2, <2>3, <2>4 DEF Next
<1> QED BY InitIInv, NextIInv, CongruentIsTimeKept, <1>1, <1>2, PTL DEF Spec
=============================================================================
