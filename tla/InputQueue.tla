----------------------------- MODULE InputQueue -----------------------------
(***************************************************************************)
(* The way of a key or a mouse button from the host to the guest:          *)
(* Main_EventHandler (hardware/main.c) hands events to Keymap_KeyDown and  *)
(* Keymap_KeyUp (hardware/keymap.c) or Input_MousePress and                *)
(* Input_MouseRelease (hardware/input.c), which write to two ring buffers; *)
(* the guest's InputHandler (fe2.s) reads one entry of each with           *)
(* Call_GetMouseInput and Call_GetKeyboardEvent and keeps a table of the   *)
(* keys it believes are down.  While the options dialog is open its own    *)
(* loop (hardware/sdlgui.c) takes every event from the host, and the guest *)
(* does not run.  VmCore says when the guest's handler runs.               *)
(*                                                                         *)
(* ScanCode[k][n] is the ST scan code of key k, with n telling whether Num *)
(* Lock is on, or Unmapped.  Several keys may share a code.                *)
(***************************************************************************)
EXTENDS RingQueue

CONSTANTS
  Keys,             \* the host's keys, but for those below
  CtrlKeys,         \* the modifiers that make a key a shortcut, among Keys
  CapsLock,         \* SDLK_CAPSLOCK, if among Keys
  FnKeys,           \* SDLK_F11, SDLK_F12
  DialogKey,        \* SDLK_F12
  ResetKey,         \* SDLK_r
  Codes,            \* ST scan codes
  ScanCode,         \* the key map
  CapsCode,         \* 0x3A
  Unmapped,         \* -1
  Buttons,          \* SDL_BUTTON_LEFT, SDL_BUTTON_RIGHT
  KeyBufSize,       \* SIZE_KEYBUF
  MouseBufSize,     \* SIZE_MOUSEBUF
  MaxMotion,        \* bound on the motion that adds up between two polls
  NumLock,          \* SDLK_NUMLOCK
  NoKey             \* no shortcut is waiting

ASSUME InputAssumption ==
  /\ CtrlKeys \subseteq Keys
  /\ NumLock \notin Keys \cup FnKeys
  /\ NoKey \notin Keys \cup FnKeys
  /\ FnKeys \cap Keys = {}
  /\ Unmapped \notin Codes
  /\ CapsCode \in Codes
  /\ ScanCode \in [Keys -> [BOOLEAN -> Codes \cup {Unmapped}]]
  /\ CapsLock \in Keys => ScanCode[CapsLock] = [n \in BOOLEAN |-> CapsCode]
  /\ KeyBufSize \in Nat /\ KeyBufSize > 1
  \* Call_GetMouseInput reduces mbuf_head modulo SIZE_KEYBUF.
  /\ MouseBufSize = KeyBufSize
  /\ MaxMotion \in Nat

VARIABLES
  held,             \* the keys down on the host's keyboard
  numlock,          \* SDL_GetModState() & KMOD_NUM
  dialog,           \* the options dialog is open
  key_states,       \* input.key_states
  shortcut,         \* ShortCutKey.Key
  key_buf,          \* input.key_buf, buf_head, buf_tail
  mouse_buf,        \* input.mousebut_buf, mbuf_head, mbuf_tail
  cur_mousebut,     \* input.cur_mousebut_state
  motion,           \* input.motion_x
  guestDown,        \* the guest's A6_keystates
  guestButtons,     \* the guest's A6_mouse_buttons
  lastKey,          \* history: the last entry Input_PressSTKey was called with
  lostKeys          \* history: key events were lost on the way, or misread

keyVars   == <<held, numlock, key_states, key_buf, lastKey, lostKeys>>
mouseVars == <<mouse_buf, cur_mousebut, motion>>
guestVars == <<guestDown, guestButtons>>
vars      == <<keyVars, mouseVars, guestVars, dialog, shortcut>>

\* An entry of the key buffer: a scan code, with bit 7 set for a release.
Press(c)   == [code |-> c, press |-> TRUE]
Release(c) == [code |-> c, press |-> FALSE]
KeyEntries == [code : Codes, press : BOOLEAN]

-----------------------------------------------------------------------------

Init ==
  /\ held = {}
  /\ numlock \in BOOLEAN
  /\ dialog = FALSE
  /\ key_states = [k \in Keys |-> FALSE]
  /\ shortcut = NoKey
  /\ key_buf = EmptyRing(KeyBufSize, Release(CapsCode))
  /\ mouse_buf = EmptyRing(MouseBufSize, {})
  /\ cur_mousebut = {}
  /\ motion = 0
  /\ guestDown = {}
  /\ guestButtons = {}
  /\ lastKey = Release(CapsCode)
  /\ lostKeys = FALSE

Full(r, size) == Length(r, size) = size - 1

\* Input_PressSTKey.
PressSTKey(e) ==
  /\ key_buf' = Put(key_buf, KeyBufSize, e)
  /\ lastKey' = e
  /\ lostKeys' = (lostKeys \/ Full(key_buf, KeyBufSize))

PressTwoSTKeys(e, f) ==
  LET first == Put(key_buf, KeyBufSize, e)
  IN /\ key_buf' = Put(first, KeyBufSize, f)
     /\ lastKey' = f
     /\ lostKeys' = (lostKeys \/ Full(key_buf, KeyBufSize) \/ Full(first, KeyBufSize))

NothingSent == UNCHANGED <<key_buf, lastKey, lostKeys>>

Code(k) == ScanCode[k][numlock]

KmodCtrl == held \cap CtrlKeys # {}

\* Keymap_KeyDown.  A key pressed with Ctrl is kept for the next VBL and not
\* sent; one that is marked as down already is not sent again.
KeyDown(k) ==
  /\ ~dialog
  /\ k \notin held
  /\ held' = held \cup {k}
  /\ key_states' = [key_states EXCEPT ![k] = TRUE]
  /\ shortcut' = IF KmodCtrl THEN k ELSE shortcut
  /\ IF ~KmodCtrl /\ Code(k) # Unmapped /\ ~key_states[k]
     THEN PressSTKey(Press(Code(k)))
     ELSE NothingSent
  /\ UNCHANGED <<numlock, dialog, mouseVars, guestVars>>

\* F11 and F12 are shortcuts with or without Ctrl.
FnKeyDown(k) ==
  /\ ~dialog
  /\ k \in FnKeys
  /\ shortcut' = k
  /\ UNCHANGED <<dialog, keyVars, mouseVars, guestVars>>

\* Num Lock is not passed on, but changes the codes of the keypad.
Misread == \E k \in held : ScanCode[k][TRUE] # ScanCode[k][FALSE]

NumLockDown ==
  /\ numlock' = ~numlock
  /\ lostKeys' = (lostKeys \/ Misread)
  /\ UNCHANGED <<held, dialog, shortcut, key_states, key_buf, lastKey, mouseVars, guestVars>>

\* Mutant: no release is sent while Ctrl is down.
KeyUpUnlessCtrl(k) ==
  /\ ~dialog
  /\ k \in held
  /\ held' = held \ {k}
  /\ key_states' = [key_states EXCEPT ![k] = FALSE]
  /\ IF key_states[k] /\ Code(k) # Unmapped /\ ~KmodCtrl
     THEN PressSTKey(Release(Code(k)))
     ELSE NothingSent
  /\ UNCHANGED <<numlock, dialog, shortcut, mouseVars, guestVars>>

\* Keymap_KeyUp.
KeyUp(k) ==
  /\ ~dialog
  /\ k \in held
  /\ held' = held \ {k}
  /\ key_states' = [key_states EXCEPT ![k] = FALSE]
  /\ IF key_states[k] /\ Code(k) # Unmapped
     THEN IF k = CapsLock
          THEN PressTwoSTKeys(Press(CapsCode), Release(CapsCode))
          ELSE PressSTKey(Release(Code(k)))
     ELSE IF k = CapsLock
          THEN PressSTKey(Press(CapsCode))
          ELSE NothingSent
  /\ UNCHANGED <<numlock, dialog, shortcut, mouseVars, guestVars>>

\* Input_MousePress and Input_MouseRelease.
PutButtons == mouse_buf' = Put(mouse_buf, MouseBufSize, cur_mousebut')

MousePress(b) ==
  /\ ~dialog
  /\ cur_mousebut' = cur_mousebut \cup {b}
  /\ PutButtons
  /\ UNCHANGED <<motion, keyVars, guestVars, dialog, shortcut>>

MouseRelease(b) ==
  /\ ~dialog
  /\ cur_mousebut' = cur_mousebut \ {b}
  /\ PutButtons
  /\ UNCHANGED <<motion, keyVars, guestVars, dialog, shortcut>>

MouseMotion(d) ==
  /\ ~dialog
  /\ motion + d \in -MaxMotion .. MaxMotion
  /\ motion' = motion + d
  /\ UNCHANGED <<mouse_buf, cur_mousebut, keyVars, guestVars, dialog, shortcut>>

\* Mutant: the empty buffer is read as "no button".
GetMouseInputNone ==
  /\ ~dialog
  /\ IF IsEmpty(mouse_buf)
     THEN /\ guestButtons' = {}
          /\ UNCHANGED mouse_buf
     ELSE /\ guestButtons' = Oldest(mouse_buf)
          /\ mouse_buf' = Drop(mouse_buf, KeyBufSize)
  /\ motion' = 0
  /\ UNCHANGED <<cur_mousebut, keyVars, guestDown, dialog, shortcut>>

\* Call_GetMouseInput.
GetMouseInput ==
  /\ ~dialog
  /\ IF IsEmpty(mouse_buf)
     THEN /\ guestButtons' = cur_mousebut
          /\ UNCHANGED mouse_buf
     ELSE /\ guestButtons' = Oldest(mouse_buf)
          /\ mouse_buf' = Drop(mouse_buf, KeyBufSize)
  /\ motion' = 0
  /\ UNCHANGED <<cur_mousebut, keyVars, guestDown, dialog, shortcut>>

\* The guest's table of keys after an entry.
Noted(codes, e) == IF e.press THEN codes \cup {e.code} ELSE codes \ {e.code}

\* Call_GetKeyboardEvent, and what InputHandler does with the entry: nothing
\* when there is none.
GetKeyboardEvent ==
  /\ ~dialog
  /\ ~IsEmpty(key_buf)
  /\ key_buf' = Drop(key_buf, KeyBufSize)
  /\ guestDown' = Noted(guestDown, Oldest(key_buf))
  /\ UNCHANGED <<held, numlock, key_states, lastKey, lostKeys, mouseVars,
                 guestButtons, dialog, shortcut>>

\* ShortCut_CheckKeys, at every VBL.  F12 opens the dialog; a cold reset
\* clears the guest's memory and leaves the buffers alone.
CheckKeys ==
  /\ ~dialog
  /\ shortcut' = NoKey
  /\ dialog' = (shortcut = DialogKey)
  /\ IF shortcut = ResetKey
     THEN guestDown' = {} /\ guestButtons' = {}
     ELSE UNCHANGED guestVars
  /\ UNCHANGED <<keyVars, mouseVars>>

\* The dialog's loop throws away what does not concern it.
DialogEats(k) ==
  /\ dialog
  /\ held' = IF k \in held THEN held \ {k} ELSE held \cup {k}
  /\ lostKeys' = TRUE
  /\ UNCHANGED <<numlock, dialog, shortcut, key_states, key_buf, lastKey, mouseVars,
                 guestVars>>

CloseDialog ==
  /\ dialog
  /\ dialog' = FALSE
  /\ UNCHANGED <<keyVars, mouseVars, guestVars, shortcut>>

Next ==
  \/ \E k \in Keys : KeyDown(k) \/ KeyUp(k) \/ DialogEats(k)
  \/ \E k \in FnKeys : FnKeyDown(k)
  \/ NumLockDown
  \/ \E b \in Buttons : MousePress(b) \/ MouseRelease(b)
  \/ \E d \in {-1, 1} : MouseMotion(d)
  \/ GetMouseInput \/ GetKeyboardEvent
  \/ CheckKeys \/ CloseDialog

Spec == Init /\ [][Next]_vars

-----------------------------------------------------------------------------

(***************************************************************************)
(* Both buffers are queues that lose everything when they overflow: what   *)
(* is read is what was put, no entry is read twice or out of order, and    *)
(* nothing else is lost.                                                   *)
(***************************************************************************)
KeyFifo ==
  INSTANCE LossyFifo WITH queue    <- Contents(key_buf, KeyBufSize),
                          last     <- lastKey,
                          Entries  <- KeyEntries,
                          Capacity <- KeyBufSize - 1

MouseFifo ==
  INSTANCE LossyFifo WITH queue    <- Contents(mouse_buf, MouseBufSize),
                          last     <- cur_mousebut,
                          Entries  <- SUBSET Buttons,
                          Capacity <- MouseBufSize - 1

BuffersInOrder == KeyFifo!Spec /\ MouseFifo!Spec

(***************************************************************************)
(* Once it has read everything the guest believes only such keys to be     *)
(* down as are, whatever was pressed with Ctrl, in whatever order, unless  *)
(* the buffer overflowed, the dialog took an event or Num Lock changed the *)
(* code of a key that was down.                                            *)
(***************************************************************************)
NoStuckKey ==
  IsEmpty(key_buf) /\ ~lostKeys => guestDown \subseteq {Code(k) : k \in held}

(***************************************************************************)
(* Whenever the guest has read everything it believes the buttons to be as *)
(* they were last reported, also after the buffer overflowed: the last     *)
(* entry written is the current state, and so is what is read when there   *)
(* is none.                                                                *)
(***************************************************************************)
ButtonsAgree ==
  [][GetMouseInput /\ IsEmpty(mouse_buf') => guestButtons' = cur_mousebut]_vars
=============================================================================
