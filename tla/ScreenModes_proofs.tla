------------------------- MODULE ScreenModes_proofs -------------------------
(***************************************************************************)
(* Proofs about ScreenModes: types, the frames drawn in a window, the      *)
(* mouse and the sound.                                                    *)
(***************************************************************************)
EXTENDS ScreenModes, TLAPS

\* What the calls on the display keep whatever the parameters are.  In a window
\* the host did not have to be asked for twice, the drawing function is the one
\* the surface was made for.
WindowInv(d) ==
  /\ d \in Displays
  /\ d.width = Width(d.prev)
  /\ ~d.refused /\ ~d.inFull => d.drawn = d.prev
  /\ d.full => d.inFull /\ d.grabbed
  /\ ~d.inFull /\ ~grabMouse /\ d.grabbed => d.refused
  /\ ~d.frame.wish /\ ~d.frame.refused =>
       d.frame.follows /\ d.frame.picture = d.frame.width

\* What they keep under the parameters c: a full screen the parameters do not
\* ask for (F11) draws the chosen mode, if the surface is of that mode.
FullInv(d, c) ==
  ~d.refused /\ d.inFull /\ ~c.full /\ d.prev = c.mode => d.drawn = c.mode

\* The sound, and what the dialog's copy shares with the configuration.
SoundInv ==
  /\ device = "open" => config.sound
  /\ where = "start" => active /\ (device = "open" => playing)
  /\ where = "dialog" => (s.inFull => config.full) /\ dialog.sound = config.sound
  /\ SoundAgrees

Inv ==
  /\ TypeOK
  /\ WindowInv(s)
  /\ FullInv(s, config)
  /\ SoundInv

-----------------------------------------------------------------------------

\* Setting the window's size makes everything agree.
LEMMA WindowRes ==
  ASSUME NEW d, NEW c \in Params, WindowInv(d), grabMouse \in BOOLEAN
  PROVE  /\ WindowInv(SetWindowRes(d, c))
         /\ SetWindowRes(d, c).prev = c.mode
         /\ SetWindowRes(d, c).drawn = c.mode
         /\ SetWindowRes(d, c).inFull = d.inFull
<1> DEFINE e == SetWindowRes(d, c)
<1>1. /\ c.mode \in Modes
      /\ Width(c.mode) \in 1 .. 2
  BY DEF Params, Width
<1>2. e = [d EXCEPT !.prev = c.mode, !.width = Width(c.mode), !.full = FALSE,
                    !.refused = FALSE, !.grabbed = @ /\ grabMouse,
                    !.drawn = c.mode]
  BY DEF SetWindowRes, SetDrawModes, WindowInv, Displays
<1>3. /\ e \in Displays
      /\ e.prev = c.mode /\ e.drawn = c.mode /\ e.width = Width(c.mode)
      /\ e.inFull = d.inFull /\ e.frame = d.frame
      /\ ~e.full /\ ~e.refused /\ e.grabbed = (d.grabbed /\ grabMouse)
  BY <1>1, <1>2 DEF WindowInv, Displays
<1>4. QED
  BY <1>3 DEF WindowInv

\* Leaving the full screen, when there is one, ends in a window.
LEMMA Return ==
  ASSUME NEW d, NEW c \in Params, WindowInv(d), grabMouse \in BOOLEAN
  PROVE  /\ WindowInv(ReturnFromFullScreen(d, c))
         /\ FullInv(ReturnFromFullScreen(d, c), c)
         /\ ReturnFromFullScreen(d, c).inFull = FALSE
<1>1. CASE d.inFull
  <2> DEFINE w == [d EXCEPT !.inFull = FALSE]
             e == SetWindowRes(w, c)
  <2>1. /\ c.mode \in Modes
        /\ Width(c.mode) \in 1 .. 2
    BY DEF Params, Width
  <2>2. e = [d EXCEPT !.inFull = FALSE, !.prev = c.mode, !.width = Width(c.mode),
                      !.full = FALSE, !.refused = FALSE,
                      !.grabbed = @ /\ grabMouse, !.drawn = c.mode]
    BY DEF SetWindowRes, SetDrawModes, WindowInv, Displays
  <2>3. /\ e \in Displays
        /\ e.prev = c.mode /\ e.drawn = c.mode /\ e.width = Width(c.mode)
        /\ ~e.inFull /\ e.frame = d.frame
        /\ ~e.full /\ ~e.refused /\ e.grabbed = (d.grabbed /\ grabMouse)
    BY <2>1, <2>2 DEF WindowInv, Displays
  <2>4. e = ReturnFromFullScreen(d, c)
    BY <1>1 DEF ReturnFromFullScreen
  <2>5. QED
    BY <2>3, <2>4 DEF WindowInv, FullInv
<1>2. CASE ~d.inFull
  BY <1>2 DEF ReturnFromFullScreen, FullInv, WindowInv, Displays
<1>3. QED
  BY <1>1, <1>2

\* Entering it, granted or not, keeps what does not depend on the parameters,
\* and the rest if they were kept to before.
LEMMA Enter ==
  ASSUME NEW d, NEW c \in Params, NEW granted \in BOOLEAN, WindowInv(d)
  PROVE  /\ WindowInv(EnterFullScreen(d, c, granted))
         /\ FullInv(d, c) => FullInv(EnterFullScreen(d, c, granted), c)
<1> DEFINE e == EnterFullScreen(d, c, granted)
<1>1. CASE d.inFull
  BY <1>1 DEF EnterFullScreen
<1>2. CASE ~d.inFull
  <2>1. e = IF granted
            THEN [d EXCEPT !.drawn = c.mode, !.inFull = TRUE, !.full = TRUE, !.grabbed = TRUE]
            ELSE [d EXCEPT !.drawn = c.mode, !.refused = TRUE, !.grabbed = TRUE]
    BY <1>2 DEF EnterFullScreen, SetDrawModes, WindowInv, Displays
  <2>2. c.mode \in Modes
    BY DEF Params
  <2>3. /\ e \in Displays
        /\ e.drawn = c.mode /\ e.grabbed
        /\ e.prev = d.prev /\ e.width = d.width /\ e.frame = d.frame
        /\ e.full => e.inFull
        /\ ~e.inFull => e.refused
    BY <1>2, <2>1, <2>2 DEF WindowInv, Displays
  <2>4. QED
    BY <2>3 DEF WindowInv, FullInv
<1>3. QED
  BY <1>1, <1>2

\* A frame, drawn or not.
LEMMA Drawing ==
  ASSUME NEW d, NEW c \in Params, WindowInv(d), FullInv(d, c),
         grabMouse \in BOOLEAN, NEW e \in DrawOutcomes(d, c)
  PROVE  /\ WindowInv(e)
         /\ FullInv(e, c)
         /\ e.inFull => d.inFull
<1> DEFINE f == Fresh(d, c)
<1>1. /\ WindowInv(f)
      /\ FullInv(f, c)
      /\ f.inFull = d.inFull
      /\ ~c.full => f.prev = c.mode
  <2>1. CASE ~c.full /\ d.prev # c.mode
    BY <2>1, WindowRes DEF Fresh, FullInv
  <2>2. CASE ~(~c.full /\ d.prev # c.mode)
    BY <2>2 DEF Fresh
  <2>3. QED
    BY <2>1, <2>2
<1> HIDE DEF f
<1>2. ASSUME e = [f EXCEPT !.frame = Frame(f, c)]
      PROVE  WindowInv(e) /\ FullInv(e, c) /\ e.inFull = f.inFull
  <2>1. ~c.full /\ ~f.refused => f.drawn = c.mode /\ f.width = Width(c.mode)
    BY <1>1 DEF WindowInv, FullInv, Displays
  <2>2. /\ Frame(f, c) \in Frames
        /\ ~Frame(f, c).wish /\ ~Frame(f, c).refused =>
             Frame(f, c).follows /\ Frame(f, c).picture = Frame(f, c).width
    BY <1>1, <2>1 DEF WindowInv, Frame, Displays, Frames, Params, Width
  <2>3. /\ e \in Displays
        /\ e.frame = Frame(f, c) /\ e.width = f.width /\ e.prev = f.prev
        /\ e.drawn = f.drawn /\ e.inFull = f.inFull /\ e.full = f.full
        /\ e.grabbed = f.grabbed /\ e.refused = f.refused
    BY <1>1, <1>2, <2>2 DEF WindowInv, Displays
  <2>4. QED
    BY <1>1, <2>2, <2>3 DEF WindowInv, FullInv
<1>3. CASE e = ReturnFromFullScreen(f, c)
  BY <1>1, <1>3, Return
<1>4. QED
  BY <1>1, <1>2, <1>3 DEF DrawOutcomes, f

-----------------------------------------------------------------------------

LEMMA InitInv == Init => Inv
<1> SUFFICES ASSUME Init PROVE Inv
  OBVIOUS
<1>1. config \in Params /\ dialog \in Params
  BY DEF Init, Params, Modes
<1>2. s \in Displays /\ s.width = Width(s.prev) /\ s.drawn = s.prev
  BY DEF Init, Displays, Frames, Modes, Width
<1>3. WindowInv(s) /\ FullInv(s, config)
  BY <1>2 DEF Init, WindowInv, FullInv
<1>4. TypeOK
  BY <1>1, <1>2, Zenon DEF Init, TypeOK
<1>5. device = "open" => config.sound
  BY DEF Init
<1>6. SoundInv
  BY <1>5 DEF Init, SoundInv, SoundAgrees
<1>7. QED
  BY <1>3, <1>4, <1>6 DEF Inv

LEMMA NextInv == Inv /\ [Next]_vars => Inv'
<1> SUFFICES ASSUME Inv, [Next]_vars PROVE Inv'
  OBVIOUS
<1> USE DEF Inv
<1>1. CASE Start
  <2>1. WindowInv(s)' /\ FullInv(s, config)'
    <3>1. \/ s' = s
          \/ \E granted \in BOOLEAN : s' = EnterFullScreen(s, config, granted)
      BY <1>1 DEF Start
    <3>2. WindowInv(s') /\ FullInv(s', config)
      BY <3>1, Enter DEF TypeOK
    <3>3. QED
      BY <1>1, <3>2 DEF Start, WindowInv, FullInv
  <2>2. QED
    BY <1>1, <2>1 DEF Start, TypeOK, SoundInv, SoundAgrees, Resume, WindowInv, Params
<1>2. CASE SetScreenBase
  BY <1>2 DEF SetScreenBase, TypeOK, WindowInv, FullInv, SoundInv, SoundAgrees, audioVars
<1>3. CASE Draw
  <2>1. WindowInv(s)' /\ FullInv(s, config)'
    <3>1. WindowInv(s') /\ FullInv(s', config)
      BY <1>3, Drawing DEF Draw, TypeOK
    <3>2. QED
      BY <1>3, <3>1 DEF Draw, WindowInv, FullInv
  <2>2. QED
    BY <1>3, <2>1 DEF Draw, Switched, TypeOK, SoundInv, SoundAgrees, Resume, WindowInv, Params
<1>4. CASE FullScreen
  <2>1. WindowInv(s)' /\ FullInv(s, config)'
    <3>1. PICK granted \in BOOLEAN :
            s' = IF s.inFull THEN ReturnFromFullScreen(s, config)
                             ELSE EnterFullScreen(s, config, granted)
      BY <1>4, Zenon DEF FullScreen
    <3>2. WindowInv(s') /\ FullInv(s', config)
      BY <3>1, Enter, Return DEF TypeOK
    <3>3. QED
      BY <1>4, <3>2 DEF FullScreen, WindowInv, FullInv
  <2>2. QED
    BY <1>4, <2>1 DEF FullScreen, TypeOK, SoundInv, SoundAgrees, Resume, WindowInv, Params
<1>5. CASE MouseMode
  BY <1>5 DEF MouseMode, TypeOK, WindowInv, FullInv, SoundInv, SoundAgrees, audioVars,
              Displays
<1>6. CASE ColdReset
  BY <1>6 DEF ColdReset, TypeOK, WindowInv, FullInv, SoundInv, SoundAgrees, audioVars
<1>7. CASE OpenDialog
  <2>1. config' \in Params /\ config'.full = s.inFull /\ config'.sound = config.sound
    BY <1>7 DEF OpenDialog, TypeOK, Params, WindowInv, Displays
  <2>2. WindowInv(s)' /\ FullInv(s, config)'
    BY <1>7, <2>1 DEF OpenDialog, WindowInv, FullInv
  <2>3. QED
    BY <1>7, <2>1, <2>2
    DEF OpenDialog, Pause, Resume, TypeOK, SoundInv, SoundAgrees, WindowInv, Params
<1>8. CASE Page
  <2>1. WindowInv(s)' /\ FullInv(s, config)' /\ (s'.inFull => s.inFull)
    BY <1>8, Drawing DEF Page, WindowInv, FullInv, TypeOK
  <2>2. dialog' \in Params /\ dialog'.sound = dialog.sound
    BY <1>8 DEF Page, TypeOK, Params
  <2>3. QED
    BY <1>8, <2>1, <2>2
    DEF Page, Switched, Resume, TypeOK, SoundInv, SoundAgrees, WindowInv, Params, Displays
<1>9. CASE Okay
  <2>1. WindowInv(s)' /\ FullInv(s, config)'
    <3>1. PICK d \in DrawOutcomes(s, config), granted \in BOOLEAN :
            s' = IF dialog.full THEN EnterFullScreen(d, config', granted)
                                ELSE ReturnFromFullScreen(d, config')
      BY <1>9 DEF Okay
    <3>2. WindowInv(d)
      BY Drawing DEF TypeOK
    <3>3. config' = dialog /\ config' \in Params /\ grabMouse' = grabMouse
      BY <1>9 DEF Okay, TypeOK
    <3>4. CASE dialog.full
      BY ZenonT(30), <3>1, <3>2, <3>3, <3>4, Enter DEF TypeOK, WindowInv, FullInv
    <3>5. CASE ~dialog.full
      BY <3>1, <3>2, <3>3, <3>5, Return DEF TypeOK, WindowInv, FullInv
    <3>6. QED
      BY <3>4, <3>5
  <2>2. QED
    BY <1>9, <2>1 DEF Okay, Resume, TypeOK, SoundInv, SoundAgrees, WindowInv, Params
<1>10. CASE Cancel
  <2>1. WindowInv(s)' /\ FullInv(s, config)'
    BY <1>10, Drawing DEF Cancel, WindowInv, FullInv, TypeOK
  <2>2. QED
    BY <1>10, <2>1 DEF Cancel, Resume, TypeOK, SoundInv, SoundAgrees, WindowInv, Params
<1>11. CASE Quit
  <2>1. WindowInv(s)' /\ FullInv(s, config)'
    BY <1>11, Return DEF Quit, WindowInv, FullInv, TypeOK
  <2>2. QED
    BY <1>11, <2>1 DEF Quit, TypeOK, SoundInv, SoundAgrees, WindowInv
<1>12. CASE UNCHANGED vars
  BY <1>12 DEF vars, audioVars, TypeOK, WindowInv, FullInv, SoundInv, SoundAgrees
<1>13. QED
  BY <1>1, <1>2, <1>3, <1>4, <1>5, <1>6, <1>7, <1>8, <1>9, <1>10, <1>11, <1>12
  DEF Next

LEMMA Invariance == Spec => []Inv
  BY InitInv, NextInv, PTL DEF Spec

\* Every state has the declared types.
THEOREM TypeCorrect == Spec => []TypeOK
<1>1. Inv => TypeOK
  BY DEF Inv
<1>2. QED
  BY <1>1, Invariance, PTL

\* A frame drawn while the configuration asks for a window shows the chosen mode
\* on a surface of its size, after any sequence of dialogs, switches and resets.
THEOREM FramesFollowMode == Spec => []FramesFollow
<1>1. Inv => FramesFollow
  BY DEF Inv, WindowInv, FramesFollow
<1>2. QED
  BY <1>1, Invariance, PTL

\* The mouse is held in full screen and let go in a window.
THEOREM MouseIsRight == Spec => []MouseAgrees
<1>1. Inv => MouseAgrees
  BY DEF Inv, WindowInv, MouseAgrees
<1>2. QED
  BY <1>1, Invariance, PTL

\* Nested pauses leave the sound as it is configured.
THEOREM SoundIsRight == Spec => []SoundAgrees
<1>1. Inv => SoundAgrees
  BY DEF Inv, SoundInv
<1>2. QED
  BY <1>1, Invariance, PTL
=============================================================================
