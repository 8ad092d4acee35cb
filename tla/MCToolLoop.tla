------------------------------- MODULE MCToolLoop -----------------------------
(***************************************************************************)
(* ToolLoop for TLC.                                                       *)
(***************************************************************************)
EXTENDS ToolLoop

===============================================================================
