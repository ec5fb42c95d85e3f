--------------------------- MODULE MCFormatterBuffer ---------------------------
(* Instances of FormatterBuffer for TLC. *)
EXTENDS FormatterBuffer
===============================================================================
