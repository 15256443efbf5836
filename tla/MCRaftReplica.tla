---------------------------- MODULE MCRaftReplica ----------------------------
(***************************************************************************)
(* RaftReplica for TLC.                                                    *)
(***************************************************************************)
EXTENDS RaftReplica

\* A state after two faults, with three members and client 1 gone: its write of slot 1 is on member 3 only.  The
\* poll of client 2's first login did not reach member 3, and its wait timed out; members 2 and 3 have
\* committed that login since, the leader's worker is behind.
TimedOutOnce ==
    LET Only(d, c) == [[d2 \in Slots |-> Missing] EXCEPT ![d] = c]
    IN  /\ rep = [r \in Members |->
                    CASE r = Leader -> [Fresh EXCEPT !.term = 1]
                      [] r = 2      -> [Fresh EXCEPT !.term = 2]
                      [] OTHER      -> [Fresh EXCEPT !.term = 2, !.journal = Only(1, 1), !.last = 1]]
        /\ token = [r \in Members |-> IF r = Leader THEN 1 ELSE 2]
        /\ timer = [r \in Members |-> [armed |-> NoTimer, firing |-> NoTimer]]
        /\ srv = [r \in Members |-> IF r = Leader THEN [next |-> 2, term |-> 2, active |-> FALSE]
                                                  ELSE [next |-> 0, term |-> 1, active |-> TRUE]]
        /\ log = <<SyncRSCommitLSNMsg(-1, {}), InternalLoginMsg(1, 1, -1),
                   SyncRSCommitLSNMsg(-1, {}), InternalLoginMsg(2, 2, -1)>>
        /\ work = [r \in Members |-> [at |-> IF r = Leader THEN 3 ELSE 5, busy |-> FALSE, peer |-> 0, missing |-> {}]]
        /\ login = [c \in Clients |-> NoLogin] /\ done = FALSE
        /\ client = [c \in Clients |-> [NoClient EXCEPT !.pc = IF c = 1 THEN "gone" ELSE "out"]]
        /\ wire = {} /\ acked = {} /\ missed = {3} /\ faults = 2
TimedOutSpec == TimedOutOnce /\ [][Next]_vars
=============================================================================
