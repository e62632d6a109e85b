---------------------------- MODULE MCFyEmitter ----------------------------
(* Instances of FyEmitter for TLC.                                         *)
EXTENDS FyEmitter

AllLayouts  == {"ORIGINAL", "BLOCK", "FLOW_ONELINE", "JSON"}
OriginalMode == {"ORIGINAL"}
BlockLayout  == {"BLOCK"}
=============================================================================
