---------------------------- MODULE MCWireReply ----------------------------
EXTENDS WireReply

\* A write of the whole volume, a zero write and a write of zeros inside it, and one at its end.
SomeWrites == {[kind |-> "data", lba |-> 0, len |-> 3], [kind |-> "zeros", lba |-> 1, len |-> 1],
               [kind |-> "blank", lba |-> 0, len |-> 2], [kind |-> "data", lba |-> 2, len |-> 1]}

\* The whole volume, and a part that does not start at block 0.
SomeReads == {[lba |-> 0, len |-> 3], [lba |-> 1, len |-> 2]}
=============================================================================
