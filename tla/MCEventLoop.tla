---------------------------- MODULE MCEventLoop ----------------------------
(* Instances of EventLoop for TLC.  The addresses are interchangeable.     *)
EXTENDS EventLoop, TLC

AddressSymmetry == Permutations(Sources)
=============================================================================
