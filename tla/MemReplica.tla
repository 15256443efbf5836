----------------------------- MODULE MemReplica -----------------------------
(***************************************************************************)
(* One in-memory replica (class MemCraftReplica) as a data type: its       *)
(* journal, its applied index, and the watermarks commit_lsn,              *)
(* last_append_lsn and term.  Each operator is a method that runs under    *)
(* the replica's own mutex.  The volume is one block; a zero write is a    *)
(* write whose value is the hole.                                          *)
(***************************************************************************)
EXTENDS Integers, FiniteSetsExt

CONSTANT MaxSlots    \* bound: dLSNs 0..MaxSlots - 1

Slots == 0..(MaxSlots - 1)

\* A journal slot is absent, a tombstone, or the write of the session with that term.
Missing == 0
Empty   == -1

NoCell == [dlsn |-> -1, term |-> 0]
Fresh ==
    [journal |-> [d \in Slots |-> Missing], index |-> NoCell, commit |-> -1, last |-> -1, term |-> 0]

Holds(s, d)   == s.journal[d] > 0
Present(s, d) == s.journal[d] # Missing

\* Mutant: a missing slot does not stall the apply.
apply_up_to_SkipsHoles(s, target) ==
    LET top == Max({s.commit} \cup {x \in Slots : s.commit < x /\ x <= target /\ x <= s.last})
        applied == {d \in Slots : s.commit < d /\ d <= top /\ Holds(s, d)}
    IN  [s EXCEPT !.commit = top,
                  !.index = IF applied = {} THEN @
                            ELSE [dlsn |-> Max(applied), term |-> s.journal[Max(applied)]]]

\* Apply in dLSN order up to the target, stalling at the first missing slot; Empty slots are passed.
apply_up_to(s, target) ==
    LET reach(x) == \A d \in Slots : s.commit < d /\ d <= x => Present(s, d)
        top == Max({s.commit} \cup {x \in Slots : s.commit < x /\ x <= target /\ reach(x)})
        applied == {d \in Slots : s.commit < d /\ d <= top /\ Holds(s, d)}
    IN  [s EXCEPT !.commit = top,
                  !.index = IF applied = {} THEN @
                            ELSE [dlsn |-> Max(applied), term |-> s.journal[Max(applied)]]]

\* do_write(): fenced by the term, refused by a tombstone, else appended; then the piggybacked commit.
WriteReply(s, term, d) ==
    IF term # s.term THEN "stale" ELSE IF s.journal[d] = Empty THEN "refused" ELSE "acked"

\* Mutant: a late write revives a tombstone.
do_write_IntoEmpty(s, term, d, commit) ==
    IF term # s.term THEN s
    ELSE apply_up_to([s EXCEPT !.journal[d] = term, !.last = Max({@, d})], commit)

do_write(s, term, d, commit) ==
    IF WriteReply(s, term, d) # "acked" THEN s
    ELSE apply_up_to([s EXCEPT !.journal[d] = term, !.last = Max({@, d})], commit)

do_keep_alive(s, term, commit) == IF term # s.term THEN s ELSE apply_up_to(s, commit)

\* Mutant: the horizon does not clamp the tail.
read_range_NoClamp(s, H) ==
    LET tail == {d \in Slots : s.commit < d /\ Holds(s, d)}
    IN  IF tail = {} THEN s.index ELSE [dlsn |-> Max(tail), term |-> s.journal[Max(tail)]]

\* read_range(): the journal tail above commit_lsn and at most H, else the applied index.
read_range(s, H) ==
    LET tail == {d \in Slots : s.commit < d /\ d <= H /\ Holds(s, d)}
    IN  IF tail = {} THEN s.index ELSE [dlsn |-> Max(tail), term |-> s.journal[Max(tail)]]

\* do_read() on a member of the session: the piggybacked commit, then the read.
do_read(s, commit, H) == read_range(apply_up_to(s, commit), H)

\* The hooks of the cold path: login, logout, truncation, and the resolution round.
cold_apply_sync(s, rs)    == apply_up_to(s, rs)
cold_apply_login(s, term) == [s EXCEPT !.term = term]
cold_apply_logout(s)      == [s EXCEPT !.term = 0]
cold_truncate_above(s, rs) ==
    [s EXCEPT !.journal = [d \in Slots |-> IF d > rs THEN Missing ELSE @[d]], !.last = Min({@, rs})]
cold_mark_empty(s, d) == [s EXCEPT !.journal[d] = Empty, !.last = Max({@, d})]
cold_install_slot(s, d, copy) ==
    IF Present(s, d) THEN s ELSE [s EXCEPT !.journal[d] = copy, !.last = Max({@, d})]
peek_empties(s, upto) == {d \in Slots : d <= upto /\ s.journal[d] = Empty}
=============================================================================
