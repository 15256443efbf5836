----------------------------- MODULE MCAsyncConn -----------------------------
(***************************************************************************)
(* AsyncConn for TLC.                                                      *)
(***************************************************************************)
EXTENDS AsyncConn
=============================================================================
