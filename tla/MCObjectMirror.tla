--------------------------- MODULE MCObjectMirror ---------------------------
(* Instances of ObjectMirror for TLC.                                      *)
EXTENDS ObjectMirror
=============================================================================
