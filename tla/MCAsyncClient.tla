---------------------------- MODULE MCAsyncClient ----------------------------
(* AsyncClient for TLC; the configurations give the constants.             *)
EXTENDS AsyncClient
=============================================================================
