---------------------------- MODULE AbstractLog ----------------------------
(***************************************************************************)
(* What the RAFT library is promised by a log store: one dense run of      *)
(* entries per server, whose first index only compaction and a first log   *)
(* pack may choose.  LogStore is shown to implement it.                    *)
(***************************************************************************)
EXTENDS Integers, Sequences

CONSTANTS Servers, Entry, MaxIndex

VARIABLE log      \* log[s].entries[k] is the entry at index log[s].first + k - 1

Past(l) == l.first + Len(l.entries)

Init == log = [s \in Servers |-> [first |-> 1, entries |-> << >>]]

Extend(s, e) ==
  log' = [log EXCEPT ![s] = [first   |-> log[s].first,
                             entries |-> Append(log[s].entries, e)]]

\* Replacing the entry at index i drops every entry after it.
Replace(s, i, e) ==
  /\ i >= log[s].first
  /\ i <= Past(log[s])
  /\ log' = [log EXCEPT ![s] =
       [first   |-> log[s].first,
        entries |-> Append(SubSeq(log[s].entries, 1, i - log[s].first), e)]]

\* A server behind t receives t's entries i .. i + n - 1, at the end of its own
\* entries or, holding none, wherever t's begin.
Receive(s, t, i, n) ==
  /\ i >= log[t].first
  /\ i + n <= Past(log[t])
  /\ i = Past(log[s]) \/ log[s].entries = << >>
  /\ log' = [log EXCEPT ![s] =
       [first   |-> IF log[s].entries = << >> THEN i ELSE log[s].first,
        entries |-> log[s].entries
                    \o SubSeq(log[t].entries, i - log[t].first + 1,
                              i - log[t].first + n)]]

\* Everything up to index i is forgotten, entries never received included.
Forget(s, i) ==
  /\ i >= log[s].first
  /\ log' = [log EXCEPT ![s] =
       [first   |-> i + 1,
        entries |-> SubSeq(log[s].entries, i - log[s].first + 2,
                           Len(log[s].entries))]]

Next ==
  \E s \in Servers :
     \/ \E e \in Entry : Extend(s, e)
     \/ \E i \in 1..MaxIndex, e \in Entry : Replace(s, i, e)
     \/ \E t \in Servers \ {s}, i, n \in 1..MaxIndex : Receive(s, t, i, n)
     \/ \E i \in 1..MaxIndex : Forget(s, i)

Spec == Init /\ [][Next]_log

=============================================================================
