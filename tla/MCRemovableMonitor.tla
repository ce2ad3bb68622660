------------------------- MODULE MCRemovableMonitor -------------------------
(* Instances of RemovableMonitor for TLC.                                  *)
EXTENDS RemovableMonitor
=============================================================================
