------------------------------ MODULE LogStore ------------------------------
(***************************************************************************)
(* nuraft::inmem_log_store (src/src/raft/in_memory_log_store.cpp): an      *)
(* ordered map from log index to entry that always holds a dummy at index  *)
(* 0, and the index of the first real entry.  Each operation is one        *)
(* critical section of logs_lock_.  The callers, the RAFT library, keep    *)
(* the contract of its log_store interface: an overwrite lands in the log  *)
(* or at its end, a log pack is never empty.                               *)
(***************************************************************************)
EXTENDS Integers, Sequences, FiniteSets

CONSTANTS Servers, Entry, MaxIndex

Dummy == [term |-> 0, size |-> 8]

\* An entry is appended by a leader, and an election has raised its term above 0.
ASSUME LogStoreAssumption ==
  /\ MaxIndex \in Nat \ {0}
  /\ \A e \in Entry : e.term \in Nat \ {0} /\ e.size \in Nat \ {0}

VARIABLE store    \* store[s] = [logs |-> the map, start |-> start_idx_]

-----------------------------------------------------------------------------
\* logs_.find(i), and the fallback to the dummy entry when it finds nothing.
find(st, i) == IF i \in DOMAIN st.logs THEN st.logs[i] ELSE st.logs[0]

next_slot(st) == st.start + Cardinality(DOMAIN st.logs) - 1

\* Mutant: one past the tail.
last_entry_AtNext(st) == find(st, next_slot(st))

last_entry(st) == find(st, next_slot(st) - 1)

entry_at(st, i) == find(st, i)

term_at(st, i) == find(st, i).term

log_entries(st, a, b) == [k \in 1..(b - a) |-> find(st, a + k - 1)]

\* Bytes accumulated over the first k entries from a.
Bytes(st, a, k) ==
  LET sum[j \in 0..k] == IF j = 0 THEN 0
                         ELSE sum[j - 1] + find(st, a + j - 1).size
  IN  sum[k]

Reached(st, a, k, hint) == hint > 0 /\ Bytes(st, a, k) >= hint

\* The number of entries pushed before the accumulated size reaches the hint.
Pushed(st, a, b, hint) ==
  IF hint < 0 THEN 0
  ELSE CHOOSE k \in 0..(b - a) :
         /\ k = b - a \/ (k > 0 /\ Reached(st, a, k, hint))
         /\ \A j \in 1..(k - 1) : ~Reached(st, a, j, hint)

\* Mutant: the entry that reaches the hint is left out.
log_entries_ext_Strict(st, a, b, hint) ==
  LET k == Pushed(st, a, b, hint)
  IN  log_entries(st, a, a + (IF k > 0 /\ Reached(st, a, k, hint)
                              THEN k - 1 ELSE k))

log_entries_ext(st, a, b, hint) ==
  log_entries(st, a, a + Pushed(st, a, b, hint))

\* The serialized entries i .. i + cnt - 1, their count first.
pack(st, i, cnt) == log_entries(st, i, i + cnt)

-----------------------------------------------------------------------------
\* logs_[i] = e.
Put(logs, i, e) == [j \in DOMAIN logs \cup {i} |-> IF j = i THEN e ELSE logs[j]]

Only(logs, keep) == [j \in DOMAIN logs \cap keep |-> logs[j]]

append(s, e) ==
  /\ next_slot(store[s]) <= MaxIndex
  /\ store' = [store EXCEPT ![s] =
       [logs  |-> Put(store[s].logs, next_slot(store[s]), e),
        start |-> store[s].start]]

\* Mutant: what follows is kept.
write_at_KeepsTail(s, i, e) ==
  /\ store[s].start <= i /\ i <= next_slot(store[s])
  /\ store' = [store EXCEPT ![s].logs = Put(@, i, e)]

write_at(s, i, e) ==
  /\ store[s].start <= i /\ i <= next_slot(store[s])
  /\ store' = [store EXCEPT ![s] =
       [logs  |-> Put(Only(store[s].logs, 0..(i - 1)), i, e),
        start |-> store[s].start]]

\* start_idx_ is recomputed as the first index above the dummy.
apply_pack(s, i, p) ==
  LET logs  == [j \in DOMAIN store[s].logs \cup i..(i + Len(p) - 1) |->
                  IF j \in i..(i + Len(p) - 1) THEN p[j - i + 1]
                  ELSE store[s].logs[j]]
      first == IF DOMAIN logs = {0} THEN 1
               ELSE CHOOSE j \in DOMAIN logs \ {0} :
                      \A k \in DOMAIN logs \ {0} : j <= k
  IN  store' = [store EXCEPT ![s] = [logs |-> logs, start |-> first]]

\* The RAFT library brings server s up from server t with a log pack.
Sync(s, t, i, cnt) ==
  /\ store[t].start <= i /\ i + cnt <= next_slot(store[t])
  /\ i = next_slot(store[s]) \/ DOMAIN store[s].logs = {0}
  /\ apply_pack(s, i, pack(store[t], i, cnt))

\* Mutant: start_idx_ stays.
compact_OnlyErases(s, i) ==
  store' = [store EXCEPT ![s].logs = Only(@, DOMAIN @ \ (store[s].start..i))]

\* start_idx_ moves past the compacted index even when nothing was erased.
compact(s, i) ==
  store' = [store EXCEPT ![s] =
     [logs  |-> Only(store[s].logs,
                     DOMAIN store[s].logs \ (store[s].start..i)),
      start |-> IF store[s].start <= i THEN i + 1 ELSE store[s].start]]

Init == store = [s \in Servers |->
                   [logs |-> [i \in {0} |-> Dummy], start |-> 1]]

Next ==
  \E s \in Servers :
     \/ \E e \in Entry : append(s, e)
     \/ \E i \in 1..MaxIndex, e \in Entry : write_at(s, i, e)
     \/ \E t \in Servers \ {s}, i, cnt \in 1..MaxIndex : Sync(s, t, i, cnt)
     \/ \E i \in 1..MaxIndex : compact(s, i)

Spec == Init /\ [][Next]_store

-----------------------------------------------------------------------------
\* The entries of one store, oldest first.
Contents(st) == [k \in 1..(next_slot(st) - st.start) |-> st.logs[st.start + k - 1]]

\* The refinement mapping: the abstract log each server's store stands for.
alog == [s \in Servers |-> [first   |-> store[s].start,
                            entries |-> Contents(store[s])]]

Abs == INSTANCE AbstractLog WITH log <- alog

\* The indexes held are the dummy's and one gapless run from start_idx_, and
\* the run is as long as logs_.size() says.  next_slot, append and
\* last_durable_index compute positions from logs_.size(), so a gap makes an
\* append overwrite a stored entry.
Gapless ==
  \A s \in Servers : DOMAIN store[s].logs
    = {0} \cup store[s].start..(next_slot(store[s]) - 1)

\* Every read inside the log returns what is stored there and never the dummy:
\* last_entry is the tail, log_entries(a, b) excludes b, entry_at and term_at
\* agree with both.
ReadsTheLog ==
  \A s \in Servers :
    LET st == store[s] IN
    /\ st.start < next_slot(st) => last_entry(st) = st.logs[next_slot(st) - 1]
    /\ last_entry(st) = Dummy => Contents(st) = << >>
    /\ \A a, b \in st.start..next_slot(st) :
         a <= b => /\ Len(log_entries(st, a, b)) = b - a
                   /\ \A k \in 1..(b - a) :
                        /\ log_entries(st, a, b)[k] = entry_at(st, a + k - 1)
                        /\ term_at(st, a + k - 1) > 0

\* A size-limited batch is a prefix of the range, and a nonempty range with a
\* nonnegative hint yields at least one entry: an empty batch would leave a
\* follower without progress however small the leader's hint.
BatchProgresses ==
  \A s \in Servers : LET st == store[s] IN
    \A a, b \in st.start..next_slot(st), hint \in -1..4 :
      a < b => LET p == log_entries_ext(st, a, b, hint) IN
        /\ Len(p) <= b - a
        /\ p = log_entries(st, a, a + Len(p))
        /\ (p = << >>) = (hint < 0)

\* The store implements the abstract log: no operation loses, moves or invents
\* an entry of the dense run, whatever order appends, overwrites, compactions
\* past the end and log packs come in.
ImplementsLog == Abs!Spec

=============================================================================
