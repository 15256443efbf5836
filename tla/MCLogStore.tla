----------------------------- MODULE MCLogStore -----------------------------
(* LogStore for TLC: two servers and three kinds of entry.                 *)
EXTENDS LogStore

MCEntry == {[term |-> 1, size |-> 1], [term |-> 1, size |-> 3],
            [term |-> 2, size |-> 1]}

=============================================================================
