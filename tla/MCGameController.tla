-------------------------- MODULE MCGameController --------------------------
(* Instances of GameController for TLC.  Controllers and node names are    *)
(* interchangeable.                                                        *)
EXTENDS GameController, TLC

ControllerSymmetry == Permutations(Devs) \cup Permutations(Names)
=============================================================================
