---------------------------- MODULE MCTcpSession ----------------------------
(***************************************************************************)
(* TcpSession for TLC: one client that works, one that takes the session.  *)
(***************************************************************************)
EXTENDS TcpSessionInvariant

CONSTANTS Worker, Rival, WorkerOps, RivalOps
MCMaxOps == [c \in {Worker, Rival} |-> IF c = Worker THEN WorkerOps ELSE RivalOps]
=============================================================================
