---------------------------- MODULE MCInputReader ----------------------------
(* InputReader for TLC; the configurations give the constants.  -8 and the *)
(* like cannot be written in a configuration.                              *)
EXTENDS InputReader

RawSamples == {-8, -1, 0, 3, 7}
=============================================================================
