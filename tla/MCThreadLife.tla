----------------------------- MODULE MCThreadLife -----------------------------
(* The kinds of program that ThreadLife's runs model-check. *)
EXTENDS ThreadLife

(* Two threads beside the first, one of which is the first to need a larger *)
(* table, in a program that makes every call; and three that race to fork   *)
(* in a full table, so that an AssignSlot finds the larger one full again.  *)
ProgramsDef ==
  {[threads |-> 0..2, calls |-> AllCalls],
   [threads |-> 0..3, calls |-> {"OutOfMemory"}]}

(* A program that forks, joins and alerts, and nothing else. *)
AlertJoinPrograms == {[threads |-> 0..2, calls |-> {"AlertJoin"}]}
===============================================================================
