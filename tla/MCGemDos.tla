------------------------------ MODULE MCGemDos ------------------------------
(* Two files, the second of which the guest sees under the name of the     *)
(* first, and a directory.                                                 *)
EXTENDS GemDos, TLC

CONSTANTS jameson, saves

MCStName == <<jameson, jameson, saves>>
MCFits   == (jameson :> {1, 2}) @@ (saves :> {3})
MCOwn    == (jameson :> 1) @@ (saves :> 3)
=============================================================================
