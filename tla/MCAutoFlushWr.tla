---------------------------- MODULE MCAutoFlushWr ----------------------------
(* The delays that AutoFlushWr's runs model-check. *)
EXTENDS AutoFlushWr

CONSTANTS w1, w2

DelayDef == [w \in Writers |-> IF w = w1 THEN 1 ELSE 2]
===============================================================================
