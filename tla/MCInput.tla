------------------------------ MODULE MCInput ------------------------------
(***************************************************************************)
(* A letter (which is also the key of the cold reset), Ctrl, Caps Lock and *)
(* a key of the keypad; two mouse buttons.  A behaviour uses some of them: *)
(* its scenario, chosen at the start.                                      *)
(***************************************************************************)
EXTENDS InputQueue

CONSTANTS a, ctrl, caps, pad, codeA, codeCtrl, codeCaps, codePad, codeCursor, F12,
          left, right

MCScanCode ==
  [k \in Keys |->
     [n \in BOOLEAN |->
        CASE k = a    -> codeA
          [] k = ctrl -> codeCtrl
          [] k = caps -> codeCaps
          [] k = pad  -> IF n THEN codePad ELSE codeCursor]]

VARIABLE scenario

Scenarios ==
  { [keys |-> {a, ctrl},   buttons |-> {}],
    [keys |-> {caps, pad}, buttons |-> {}],
    [keys |-> {},          buttons |-> {left, right}] }

MCInit == Init /\ scenario \in Scenarios

MCNext ==
  /\ Next
  /\ held' \subseteq scenario.keys
  /\ cur_mousebut' \subseteq scenario.buttons
  /\ scenario.buttons = {} => motion' = 0 /\ mouse_buf' = mouse_buf
  /\ UNCHANGED scenario

MCSpec == MCInit /\ [][MCNext]_<<vars, scenario>>
=============================================================================
