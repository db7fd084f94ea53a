------------------------------ MODULE MCVmCore ------------------------------
(* The two entries of hardware/int.h; the numbers come from the .cfg.      *)
EXTENDS VmCore

CONSTANT vbl

MCHandlerFn == [h \in Handlers |-> IF h = 0 THEN NoFn ELSE vbl]
=============================================================================
