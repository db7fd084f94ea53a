---------------------------- MODULE ScreenModes ----------------------------
(***************************************************************************)
(* The window, the full screen and the options dialog: hardware/screen.c   *)
(* and dialog.c, with the pausing of the emulation (main.c), the switching *)
(* of the sound device (audio.c) and the shortcut keys (shortcut.c) that   *)
(* drive them.                                                             *)
(*                                                                         *)
(* The chosen display mode is kept four times: in ConfigureParams, in the  *)
(* dialog's copy of it, in the size of SDL's surface and in the drawing    *)
(* function, and the wish for a full screen, the flag bInFullScreen and    *)
(* what SDL shows are three things too.  They are brought together by      *)
(* different calls.  A record "s" holds what those calls change, so that   *)
(* an action composes them in the order of the code:                       *)
(*                                                                         *)
(*   width, full   SDL's surface: 1 for 320x200, 2 for 640x400; whether it *)
(*                 is the full screen                                      *)
(*   drawn         the mode whose drawing function is selected             *)
(*   inFull        bInFullScreen                                           *)
(*   prev          prevChosenDisplayMode                                   *)
(*   grabbed       SDL's grab of the mouse                                 *)
(*   refused       history: the full screen was refused since the surface  *)
(*                 was last made                                           *)
(*   frame         history: what the last frame was drawn with             *)
(*                                                                         *)
(* The host's depth of colour is the same for every surface                *)
(* (SDL_ANYFORMAT), and a surface that is refused leaves the old one.      *)
(***************************************************************************)
EXTENDS Integers

\* DISPLAYMODE_HICOL_1X, _2X and _SCALE2X, and the width of their pictures.
Modes == {"1x", "2x", "scale2x"}

Width(m) == IF m = "1x" THEN 1 ELSE 2

VARIABLES
  s,                \* the display, see above
  config,           \* ConfigureParams: mode, full, sound
  dialog,           \* DialogParams, the same
  grabMouse,        \* bGrabMouse
  active,           \* bEmulationActive
  playing,          \* bPlayingBuffer
  device,           \* the sound device: "open" or "off"
  base,             \* the guest has set VideoBase
  where             \* "start", "run", "dialog" or "over"

audioVars == <<active, playing, device>>
vars == <<s, config, dialog, grabMouse, audioVars, base, where>>

Params == [mode : Modes, full : BOOLEAN, sound : BOOLEAN]

Frames == [picture : 1 .. 2, width : 1 .. 2, follows : BOOLEAN,
           wish : BOOLEAN, refused : BOOLEAN]

Displays == [width : 1 .. 2, full : BOOLEAN, drawn : Modes, inFull : BOOLEAN,
             prev : Modes, grabbed : BOOLEAN, refused : BOOLEAN,
             frame : Frames]

-----------------------------------------------------------------------------
(* Calls on the display; c is ConfigureParams at the time *)

SetDrawModes(d, c) == [d EXCEPT !.drawn = c.mode]

SetWindowRes(d, c) ==
  SetDrawModes([d EXCEPT !.prev = c.mode, !.width = Width(c.mode),
                         !.full = FALSE, !.refused = FALSE,
                         !.grabbed = @ /\ grabMouse], c)

\* The full screen gets the size of the surface there is, the drawing
\* function the mode that is chosen; the mouse is grabbed either way.
EnterFullScreen(d, c, granted) ==
  LET e == SetDrawModes(d, c) IN
  IF d.inFull THEN d
  ELSE IF granted THEN [e EXCEPT !.inFull = TRUE, !.full = TRUE, !.grabbed = TRUE]
  ELSE [e EXCEPT !.refused = TRUE, !.grabbed = TRUE]

ReturnFromFullScreen(d, c) ==
  IF d.inFull THEN SetWindowRes([d EXCEPT !.inFull = FALSE], c) ELSE d

\* The frame that is drawn now.
Frame(d, c) ==
  [picture |-> Width(d.drawn), width |-> d.width, follows |-> d.drawn = c.mode,
   wish |-> c.full, refused |-> d.refused]

\* Mutant: a mode chosen for the window is only noticed by the next switch.
NeverFresh(d, c) == d

\* A mode chosen for the window is noticed by the next frame.
Fresh(d, c) ==
  IF ~c.full /\ d.prev # c.mode THEN SetWindowRes(d, c) ELSE d

\* Screen_Draw: nothing before the guest has a screen; a frame may be skipped;
\* a surface that cannot be locked ends the full screen.
DrawOutcomes(d, c) ==
  LET e == Fresh(d, c) IN
  IF ~base THEN {d}
  ELSE {e, [e EXCEPT !.frame = Frame(e, c)], ReturnFromFullScreen(e, c)}

-----------------------------------------------------------------------------
(* The emulation and its sound *)

\* Audio_EnableAudio leaves the device as it is asked.
Pause ==
  /\ playing' = (playing /\ ~active)
  /\ active' = FALSE

\* Mutant: what was playing before the pause is not asked for again.
ResumeSilent(c) ==
  /\ playing' = playing
  /\ active' = TRUE

\* Main_UnPauseEmulation after a pause, whether a call in between has resumed
\* already or not.
Resume(c) ==
  /\ playing' = c.sound
  /\ active' = TRUE

\* Entering and leaving the full screen pauses and resumes.
Switched(d, e, c) ==
  IF d.inFull # e.inFull THEN Resume(c) ELSE UNCHANGED <<active, playing>>

-----------------------------------------------------------------------------
(* Steps *)

\* Main_Init up to the program's first instruction.  --nosound, no device and
\* no audio system all leave the sound off, the last without saying so in the
\* configuration.
Init ==
  /\ device \in {"open", "off"}
  /\ \E snd \in BOOLEAN :
       /\ device = "open" => snd
       /\ config = [mode |-> "2x", full |-> FALSE, sound |-> snd]
  /\ dialog = [mode |-> "1x", full |-> FALSE, sound |-> FALSE]
  /\ s = [width |-> 2, full |-> FALSE, drawn |-> "2x", inFull |-> FALSE,
          prev |-> "2x", grabbed |-> FALSE, refused |-> FALSE,
          frame |-> [picture |-> 2, width |-> 2, follows |-> TRUE,
                     wish |-> FALSE, refused |-> FALSE]]
  /\ grabMouse = FALSE
  /\ active = TRUE
  /\ playing = (device = "open")
  /\ base = FALSE
  /\ where = "start"

\* main, with or without --fullscreen
Start ==
  /\ where = "start"
  /\ where' = "run"
  /\ \/ UNCHANGED <<s, active, playing>>
     \/ /\ s' \in {EnterFullScreen(s, config, granted) : granted \in BOOLEAN}
        /\ Resume(config)
  /\ UNCHANGED <<config, dialog, grabMouse, device, base>>

SetScreenBase ==
  /\ where = "run"
  /\ base' = TRUE
  /\ UNCHANGED <<s, config, dialog, grabMouse, audioVars, where>>

\* Call_UpdateScreen from the guest's VBL handler
Draw ==
  /\ where = "run"
  /\ s' \in DrawOutcomes(s, config)
  /\ Switched(s, s', config)
  /\ UNCHANGED <<config, dialog, grabMouse, device, base, where>>

\* F11
FullScreen ==
  /\ where = "run"
  /\ \E granted \in BOOLEAN :
       s' = IF s.inFull THEN ReturnFromFullScreen(s, config)
                        ELSE EnterFullScreen(s, config, granted)
  /\ Resume(config)
  /\ UNCHANGED <<config, dialog, grabMouse, device, base, where>>

\* Mutant: the mouse is switched in full screen too.
MouseModeAlways ==
  /\ where = "run"
  /\ grabMouse' = ~grabMouse
  /\ s' = [s EXCEPT !.grabbed = grabMouse']
  /\ UNCHANGED <<config, dialog, audioVars, base, where>>

MouseMode ==
  /\ where = "run"
  /\ grabMouse' = ~grabMouse
  /\ s' = [s EXCEPT !.grabbed = IF s.inFull THEN @ ELSE grabMouse']
  /\ UNCHANGED <<config, dialog, audioVars, base, where>>

ColdReset ==
  /\ where = "run"
  /\ base' = FALSE
  /\ UNCHANGED <<s, config, dialog, grabMouse, audioVars, where>>

\* F12.  Without a font there is no dialog, and the emulation resumes.
OpenDialog ==
  /\ where = "run"
  /\ config' = [config EXCEPT !.full = s.inFull]
  /\ dialog' = config'
  /\ \/ where' = "dialog" /\ Pause
     \/ where' = "run" /\ Resume(config)
  /\ UNCHANGED <<s, grabMouse, device, base>>

-----------------------------------------------------------------------------
(* The dialog.  Each of its buttons is followed by Screen_Draw(0).  The      *)
(* emulation is paused all the while, so what Screen_Draw may call resumes   *)
(* it under the open dialog.                                                 *)

\* About and Keyboard leave the screen's parameters alone; the Screen page
\* takes what is selected when it is left.
Page ==
  /\ where = "dialog"
  /\ \E m \in Modes, f \in BOOLEAN :
       dialog' \in {dialog, [dialog EXCEPT !.mode = m, !.full = f]}
  /\ s' \in DrawOutcomes(s, config)
  /\ config' = config
  /\ Switched(s, s', config)
  /\ UNCHANGED <<grabMouse, device, base, where>>

\* Dialog_CopyDialogParamsToConfiguration, after the last Screen_Draw
Okay ==
  /\ where = "dialog"
  /\ where' = "run"
  /\ config' = dialog
  /\ \E d \in DrawOutcomes(s, config), granted \in BOOLEAN :
       s' = IF dialog.full THEN EnterFullScreen(d, config', granted)
                           ELSE ReturnFromFullScreen(d, config')
  /\ Resume(config)
  /\ UNCHANGED <<dialog, grabMouse, device, base>>

Cancel ==
  /\ where = "dialog"
  /\ where' = "run"
  /\ s' \in DrawOutcomes(s, config)
  /\ config' = config
  /\ Resume(config)
  /\ UNCHANGED <<dialog, grabMouse, device, base>>

\* Quit, from a shortcut, an event or the dialog: nothing is drawn any more,
\* and Main_UnInit leaves the full screen and stops the sound.
Quit ==
  /\ where \in {"run", "dialog"}
  /\ where' = "over"
  /\ s' = ReturnFromFullScreen(s, config)
  /\ active' = TRUE
  /\ playing' = FALSE
  /\ device' = "off"
  /\ UNCHANGED <<config, dialog, grabMouse, base>>

Next ==
  \/ Start \/ SetScreenBase \/ Draw \/ FullScreen \/ MouseMode \/ ColdReset
  \/ OpenDialog \/ Page \/ Okay \/ Cancel \/ Quit

Spec == Init /\ [][Next]_vars

-----------------------------------------------------------------------------
(* Properties *)

\* The types of the variables.
TypeOK ==
  /\ s \in Displays
  /\ config \in Params
  /\ dialog \in Params
  /\ grabMouse \in BOOLEAN
  /\ active \in BOOLEAN
  /\ playing \in BOOLEAN
  /\ device \in {"open", "off"}
  /\ base \in BOOLEAN
  /\ where \in {"start", "run", "dialog", "over"}

\* A frame drawn while the configuration asks for a window shows the chosen
\* mode on a surface of its size, however the dialog, the full screen and
\* resets came before it (Screen_DrawFrame, screen.c:327) - unless the full
\* screen was refused since the surface was made.
FramesFollow ==
  ~s.frame.wish /\ ~s.frame.refused =>
    s.frame.follows /\ s.frame.picture = s.frame.width

\* What is drawn on a surface the host granted fits it: "Only draw what can
\* fit into full-screen" (screen.c:272).
PictureFits == ~s.frame.refused => s.frame.picture <= s.frame.width

\* In full screen the mouse is held; in a window it is let go when the user
\* does not want it held, unless the full screen was refused (screen.c:179
\* grabs it all the same).
MouseAgrees ==
  /\ s.full => s.grabbed
  /\ ~s.inFull /\ ~grabMouse /\ s.grabbed => s.refused

\* However pauses nest, the sound comes back as configured; under the dialog
\* it is off, unless a surface that could not be locked ended the full screen
\* there; and it is off at the end (main.c:83, audio.c:291).
SoundAgrees ==
  /\ where = "run" => active /\ (device = "open" => playing = config.sound)
  /\ where = "dialog" /\ s.inFull = config.full => ~active /\ ~playing
  /\ where = "over" => ~playing

=============================================================================
