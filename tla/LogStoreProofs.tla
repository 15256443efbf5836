--------------------------- MODULE LogStoreProofs ---------------------------
(***************************************************************************)
(* For any servers, entries and index bound: the log store's map stays     *)
(* gapless, the store implements AbstractLog, a read returns what the log  *)
(* holds, and a batch scan takes an entry unless its hint is negative.     *)
(***************************************************************************)
EXTENDS LogStore, FiniteSetTheorems, SequenceTheorems, TLAPS

Maps == UNION {[D -> Entry \cup {Dummy}] : D \in SUBSET Nat}

Run(a, n) == {0} \cup a..(a + n - 1)

\* The inductive invariant, for one store: a dummy and n consecutive entries.
Dense(st) ==
  /\ st \in [logs : Maps, start : Nat \ {0}]
  /\ \E n \in Nat : DOMAIN st.logs = Run(st.start, n)

IInv == store \in [Servers -> [logs : Maps, start : Nat \ {0}]]
        /\ \A s \in Servers : Dense(store[s])

\* logs_.size() counts the dummy and the run.
LEMMA SizeOfRun ==
  ASSUME NEW a \in Nat \ {0}, NEW n \in Nat
  PROVE  Cardinality(Run(a, n)) = n + 1
<1>1. IsFiniteSet(a..(a + n - 1)) /\ Cardinality(a..(a + n - 1)) = n
  <2>1. a \in Int /\ a + n - 1 \in Int
    OBVIOUS
  <2>2. Cardinality(a..(a + n - 1))
          = IF a > a + n - 1 THEN 0 ELSE (a + n - 1) - a + 1
    BY <2>1, FS_Interval
  <2> QED BY <2>1, <2>2, FS_Interval
<1>2. 0 \notin a..(a + n - 1)
  OBVIOUS
<1>3. Run(a, n) = (a..(a + n - 1)) \cup {0}
  BY DEF Run
<1> QED BY <1>1, <1>2, <1>3, FS_AddElement, Zenon

\* next_slot, computed from logs_.size(), is the index after the run.
LEMMA NextSlotOfRun ==
  ASSUME NEW st, NEW n \in Nat, st.start \in Nat \ {0},
         DOMAIN st.logs = Run(st.start, n)
  PROVE  next_slot(st) = st.start + n
<1>1. Cardinality(DOMAIN st.logs) = n + 1
  BY SizeOfRun
<1> QED BY <1>1 DEF next_slot

\* A dense store is gapless in the sense the runs check.
LEMMA DenseGapless ==
  ASSUME NEW st, Dense(st)
  PROVE  /\ next_slot(st) \in Nat
         /\ next_slot(st) >= st.start
         /\ DOMAIN st.logs = Run(st.start, next_slot(st) - st.start)
         /\ DOMAIN st.logs = {0} \cup st.start..(next_slot(st) - 1)
<1>1. PICK n \in Nat : DOMAIN st.logs = Run(st.start, n)
  BY DEF Dense
<1>2. st.start \in Nat \ {0}
  BY DEF Dense
<1>3. next_slot(st) = st.start + n
  BY <1>1, <1>2, NextSlotOfRun
<1> QED BY <1>1, <1>2, <1>3 DEF Run

\* The shape of a dense store: its start a, its length n, and its contents.
Shape(st, a, n) ==
  /\ st = [logs |-> st.logs, start |-> a]
  /\ a \in Nat \ {0} /\ n \in Nat
  /\ next_slot(st) = a + n
  /\ st.logs = [i \in Run(a, n) |-> st.logs[i]]
  /\ \A i \in Run(a, n) : st.logs[i] \in Entry \cup {Dummy}
  /\ Contents(st) = [k \in 1..n |-> st.logs[a + k - 1]]
  /\ Contents(st) \in Seq(Entry \cup {Dummy})
  /\ Len(Contents(st)) = n

\* A function on Run(a, n) and its start index have that shape.
LEMMA MakeShape ==
  ASSUME NEW st, NEW a \in Nat \ {0}, NEW n \in Nat, NEW f,
         f \in [Run(a, n) -> Entry \cup {Dummy}],
         st = [logs |-> f, start |-> a]
  PROVE  Dense(st) /\ Shape(st, a, n)
<1>1. st.logs = f /\ st.start = a /\ DOMAIN f = Run(a, n)
  OBVIOUS
<1>2. next_slot(st) = a + n
  BY <1>1, NextSlotOfRun
<1>3. Run(a, n) \in SUBSET Nat /\ \A k \in 1..n : a + k - 1 \in Run(a, n)
  BY DEF Run
<1>4. f \in Maps
  BY <1>3 DEF Maps
<1>5. Dense(st)
  BY <1>1, <1>4 DEF Dense
<1>6. Contents(st) = [k \in 1..n |-> f[a + k - 1]]
  <2>1. next_slot(st) - st.start = n
    BY <1>1, <1>2
  <2> QED BY <1>1, <2>1 DEF Contents
<1>7. Contents(st) \in Seq(Entry \cup {Dummy}) /\ Len(Contents(st)) = n
  <2>1. \A k \in 1..n : f[a + k - 1] \in Entry \cup {Dummy}
    BY <1>3
  <2>2. Contents(st) \in [1..n -> Entry \cup {Dummy}]
    BY <1>6, <2>1
  <2> QED BY <1>6, <2>2
<1> QED BY <1>1, <1>2, <1>5, <1>6, <1>7 DEF Shape

\* Every dense store has a shape.
LEMMA DenseShape ==
  ASSUME NEW st, Dense(st)
  PROVE  \E n \in Nat : Shape(st, st.start, n)
<1>1. PICK n \in Nat : DOMAIN st.logs = Run(st.start, n)
  BY DEF Dense
<1>2. st.start \in Nat \ {0} /\ st = [logs |-> st.logs, start |-> st.start]
  BY DEF Dense
<1>3. st.logs \in [Run(st.start, n) -> Entry \cup {Dummy}]
  BY <1>1, Zenon DEF Dense, Maps
<1> QED BY <1>2, <1>3, MakeShape

-----------------------------------------------------------------------------
\* A run cut at its m-th entry is a shorter run, as write_at cuts it.
LEMMA RunCut ==
  ASSUME NEW a \in Nat \ {0}, NEW n \in Nat, NEW m \in 0..n
  PROVE  /\ Run(a, n) \cap 0..(a + m - 1) = Run(a, m)
         /\ Run(a, m) \subseteq Run(a, n)
BY DEF Run

\* One index past a run extends it, as append does.
LEMMA RunAdd ==
  ASSUME NEW a \in Nat \ {0}, NEW n \in Nat
  PROVE  Run(a, n) \cup {a + n} = Run(a, n + 1)
<1>1. (a..(a + n - 1)) \cup {a + n} = a..(a + (n + 1) - 1)
  OBVIOUS
<1> QED BY <1>1 DEF Run

\* A run without its indexes up to i is a later run or only the dummy,
\* as compact leaves it.
LEMMA RunDrop ==
  ASSUME NEW a \in Nat \ {0}, NEW n \in Nat, NEW i \in Nat, i >= a
  PROVE  \E m \in Nat : /\ m = IF i < a + n THEN a + n - 1 - i ELSE 0
                        /\ Run(a, n) \cap (Run(a, n) \ (a..i)) = Run(i + 1, m)
<1>1. CASE i < a + n
  <2> DEFINE m == a + n - 1 - i
  <2>1. m \in Nat
    BY <1>1
  <2>2. (a..(a + n - 1)) \ (a..i) = (i + 1)..((i + 1) + m - 1)
    BY <1>1
  <2> HIDE DEF m
  <2>3. Run(a, n) \cap (Run(a, n) \ (a..i)) = Run(i + 1, m)
    BY <2>2 DEF Run
  <2> USE DEF m
  <2> QED BY <1>1, <2>1, <2>3
<1>2. CASE ~(i < a + n)
  <2>1. (a..(a + n - 1)) \ (a..i) = {} /\ (i + 1)..((i + 1) + 0 - 1) = {}
    BY <1>2
  <2>2. Run(a, n) \cap (Run(a, n) \ (a..i)) = Run(i + 1, 0)
    BY <2>1 DEF Run
  <2> QED BY <1>2, <2>2
<1> QED BY <1>1, <1>2

-----------------------------------------------------------------------------
\* Writing an entry just past a run cut down to its first m entries: append
\* with the whole run, write_at with a shorter one.
PutAt(st, a, m, e) ==
  [logs |-> Put(Only(st.logs, 0..(a + m - 1)), a + m, e), start |-> a]

\* The write leaves a dense store, its contents the cut run and the entry.
LEMMA PutShape ==
  ASSUME NEW st, NEW a, NEW n, Shape(st, a, n),
         NEW m \in 0..n, NEW e \in Entry
  PROVE  /\ Dense(PutAt(st, a, m, e))
         /\ PutAt(st, a, m, e).start = a
         /\ Contents(PutAt(st, a, m, e)) = Append(SubSeq(Contents(st), 1, m), e)
<1>t. a \in Nat \ {0} /\ n \in Nat
  BY DEF Shape
<1> USE <1>t
<1>0. PICK st2 : st2 = PutAt(st, a, m, e)
  OBVIOUS
<1>d. st2 = [logs  |-> Put(Only(st.logs, 0..(a + m - 1)), a + m, e), start |-> a]
  BY <1>0 DEF PutAt
<1>s. st2 = [logs |-> st2.logs, start |-> a]
  BY <1>d
<1> DEFINE f == [i \in Run(a, m + 1) |-> IF i = a + m THEN e ELSE st.logs[i]]
<1>1. DOMAIN st.logs = Run(a, n)
  BY DEF Shape
<1>2. \A i \in Run(a, m + 1) : i # a + m => i \in Run(a, m) /\ i \in Run(a, n)
  BY DEF Run
<1>3. st2.logs = f
  <2>1. Only(st.logs, 0..(a + m - 1)) = [i \in Run(a, m) |-> st.logs[i]]
    BY <1>1, RunCut DEF Only
  <2>2. Run(a, m) \cup {a + m} = Run(a, m + 1)
    <3>1. m \in Nat
      OBVIOUS
    <3> QED BY <3>1, RunAdd
  <2> QED BY <1>d, <1>2, <2>1, <2>2 DEF Put
<1>4. f \in [Run(a, m + 1) -> Entry \cup {Dummy}]
  BY <1>2 DEF Shape
<1>5. \A k \in 1..(m + 1) :
        f[a + k - 1] = IF k = m + 1 THEN e ELSE Contents(st)[k]
  <2> TAKE k \in 1..(m + 1)
  <2>1. f[a + k - 1] = IF k = m + 1 THEN e ELSE st.logs[a + k - 1]
    <3>1. a + k - 1 \in Run(a, m + 1)
      BY DEF Run
    <3>2. a + k - 1 = a + m <=> k = m + 1
      OBVIOUS
    <3> QED BY <3>1, <3>2
  <2>2. k # m + 1 => k \in 1..n
    OBVIOUS
  <2> QED BY <2>1, <2>2 DEF Shape
<1> HIDE DEF f
<1>6. Dense(st2) /\ Shape(st2, a, m + 1)
  <2>1. m + 1 \in Nat /\ st2 = [logs |-> f, start |-> a]
    BY <1>s, <1>3
  <2> QED BY <1>4, <2>1, MakeShape
<1>7. Contents(st2) = [k \in 1..(m + 1) |-> f[a + k - 1]]
  BY <1>3, <1>6 DEF Shape
<1>8. Contents(st2) = [k \in 1..(m + 1) |-> IF k = m + 1 THEN e ELSE Contents(st)[k]]
  BY <1>5, <1>7
<1>9. Append(SubSeq(Contents(st), 1, m), e)
        = [k \in 1..(m + 1) |-> IF k = m + 1 THEN e ELSE Contents(st)[k]]
  <2>1. Contents(st) \in Seq(Entry \cup {Dummy}) /\ Len(Contents(st)) = n
    BY DEF Shape
  <2> HIDE DEF Contents
  <2> QED BY <2>1
<1> QED BY <1>0, <1>s, <1>6, <1>8, <1>9

\* Erasing the indexes up to i: what compact does.
DropTo(st, a, i) ==
  [logs |-> Only(st.logs, DOMAIN st.logs \ (a..i)), start |-> i + 1]

\* Compaction leaves a dense store, empty when i is past the end.
LEMMA CompactShape ==
  ASSUME NEW st, NEW a, NEW n, Shape(st, a, n),
         NEW i \in Nat, i >= a
  PROVE  /\ Dense(DropTo(st, a, i))
         /\ DropTo(st, a, i).start = i + 1
         /\ Contents(DropTo(st, a, i)) = SubSeq(Contents(st), i - a + 2, n)
<1>t. a \in Nat \ {0} /\ n \in Nat
  BY DEF Shape
<1> USE <1>t
<1>0. PICK st2 : st2 = DropTo(st, a, i)
  OBVIOUS
<1>d. st2 = [logs |-> Only(st.logs, DOMAIN st.logs \ (a..i)), start |-> i + 1]
  BY <1>0 DEF DropTo
<1>s. st2 = [logs |-> st2.logs, start |-> i + 1]
  BY <1>d
<1>1. PICK m \in Nat : /\ m = IF i < a + n THEN a + n - 1 - i ELSE 0
                       /\ Run(a, n) \cap (Run(a, n) \ (a..i)) = Run(i + 1, m)
  BY RunDrop, Zenon
<1> DEFINE f == [j \in Run(i + 1, m) |-> st.logs[j]]
<1>2. DOMAIN st.logs = Run(a, n)
  BY DEF Shape
<1>3. st2.logs = f
  BY <1>d, <1>1, <1>2 DEF Only
<1>4. f \in [Run(i + 1, m) -> Entry \cup {Dummy}]
  <2>1. Run(i + 1, m) \subseteq Run(a, n)
    BY <1>1
  <2> QED BY <2>1 DEF Shape
<1>5. \A k \in 1..m : f[i + k] = Contents(st)[i - a + 1 + k]
  <2> TAKE k \in 1..m
  <2>1. i + k \in Run(i + 1, m) /\ i - a + 1 + k \in 1..n
    BY <1>1 DEF Run
  <2>2. a + (i - a + 1 + k) - 1 = i + k
    OBVIOUS
  <2> QED BY <2>1, <2>2 DEF Shape
<1> HIDE DEF f
<1>6. Dense(st2) /\ Shape(st2, i + 1, m)
  <2>1. i + 1 \in Nat \ {0} /\ st2 = [logs |-> f, start |-> i + 1]
    BY <1>s, <1>3
  <2> QED BY <1>4, <2>1, MakeShape
<1>7. Contents(st2) = [k \in 1..m |-> f[i + k]]
  <2>1. \A k \in 1..m : (i + 1) + k - 1 = i + k
    OBVIOUS
  <2>2. Contents(st2) = [k \in 1..m |-> f[(i + 1) + k - 1]]
    BY <1>3, <1>6 DEF Shape
  <2> QED BY <2>1, <2>2
<1>8. Contents(st2) = [k \in 1..m |-> Contents(st)[i - a + 1 + k]]
  BY <1>5, <1>7
<1>9. SubSeq(Contents(st), i - a + 2, n)
        = [k \in 1..m |-> Contents(st)[i - a + 1 + k]]
  <2>1. Contents(st) \in Seq(Entry \cup {Dummy}) /\ Len(Contents(st)) = n
    BY DEF Shape
  <2>2. PICK d \in Nat : d = i - a + 1
    OBVIOUS
  <2>3. m = IF d < n THEN n - d ELSE 0
    BY <1>1, <2>2
  <2>4. ASSUME NEW q \in Seq(Entry \cup {Dummy}), Len(q) = n
        PROVE  SubSeq(q, d + 1, n) = [k \in 1..m |-> q[d + k]]
    <3>1. 1..(n - (d + 1) + 1) = 1..m
      BY <2>3
    <3>2. SubSeq(q, d + 1, n) = [k \in 1..(n - (d + 1) + 1) |-> q[(d + 1) + k - 1]]
      BY <2>4
    <3>3. \A k \in 1..m : (d + 1) + k - 1 = d + k
      OBVIOUS
    <3> QED BY <3>1, <3>2, <3>3
  <2>5. SubSeq(Contents(st), d + 1, n) = [k \in 1..m |-> Contents(st)[d + k]]
    BY <2>1, <2>4
  <2>6. d + 1 = i - a + 2 /\ \A k \in 1..m : d + k = i - a + 1 + k
    BY <2>2
  <2> QED BY <2>5, <2>6
<1> QED BY <1>0, <1>s, <1>6, <1>8, <1>9

\* A concatenation, pointwise.
LEMMA Concatenation ==
  ASSUME NEW S, NEW q \in Seq(S), NEW p \in Seq(S)
  PROVE  q \o p = [k \in 1..(Len(q) + Len(p)) |->
                     IF k <= Len(q) THEN q[k] ELSE p[k - Len(q)]]
<1>1. q \o p \in Seq(S) /\ Len(q \o p) = Len(q) + Len(p)
  OBVIOUS
<1>2. q \o p = [k \in 1..(Len(q) + Len(p)) |-> (q \o p)[k]]
  <2>1. ASSUME NEW r \in Seq(S), NEW l, Len(r) = l
        PROVE  r = [k \in 1..l |-> r[k]]
    BY <2>1
  <2> QED BY <1>1, <2>1, Zenon
<1>3. \A k \in 1..(Len(q) + Len(p)) :
        (q \o p)[k] = IF k <= Len(q) THEN q[k] ELSE p[k - Len(q)]
  OBVIOUS
<1> QED BY <1>2, <1>3

\* Appending m consecutive entries to a run, or to an empty store at any index:
\* what apply_pack does.  start_idx_ is the least index above the dummy.
PackAt(st, b, i, p) ==
  [logs  |-> [j \in DOMAIN st.logs \cup i..(i + Len(p) - 1) |->
                IF j \in i..(i + Len(p) - 1) THEN p[j - i + 1] ELSE st.logs[j]],
   start |-> b]

\* A pack at index i continues a run of n entries from a; b is the new start.
Joins(a, n, b, i) ==
  /\ b \in Nat \ {0} /\ i \in Nat \ {0}
  /\ \/ i = a + n /\ b = a
     \/ n = 0 /\ b = i

\* A log pack leaves a dense store whose contents the pack continues.
LEMMA PackShape ==
  ASSUME NEW st, NEW a, NEW n, Shape(st, a, n),
         NEW b, NEW i, Joins(a, n, b, i),
         NEW p \in Seq(Entry \cup {Dummy}), p # << >>
  PROVE  /\ Dense(PackAt(st, b, i, p))
         /\ PackAt(st, b, i, p).start = b
         /\ Contents(PackAt(st, b, i, p)) = Contents(st) \o p
<1>t. /\ a \in Nat \ {0} /\ n \in Nat /\ b \in Nat \ {0} /\ i \in Nat \ {0}
      /\ (i = a + n /\ b = a) \/ (n = 0 /\ b = i)
  BY DEF Shape, Joins
<1> USE <1>t
<1>0. PICK st2 : st2 = PackAt(st, b, i, p)
  OBVIOUS
<1>m. PICK m \in Nat \ {0} : m = Len(p)
  OBVIOUS
<1>d. st2 = [logs  |-> [j \in DOMAIN st.logs \cup i..(i + m - 1) |->
                           IF j \in i..(i + m - 1) THEN p[j - i + 1]
                           ELSE st.logs[j]],
              start |-> b]
  BY <1>0, <1>m DEF PackAt
<1>s. st2 = [logs |-> st2.logs, start |-> b]
  BY <1>d
<1>1. i = b + n
  OBVIOUS
<1>2. DOMAIN st.logs = Run(b, n)
  <2>1. DOMAIN st.logs = Run(a, n)
    BY DEF Shape
  <2>2. n = 0 => Run(a, n) = {0} /\ Run(b, n) = {0}
    BY DEF Run
  <2> QED BY <2>1, <2>2, Zenon
<1>3. \A j \in Run(b, n) : st.logs[j] \in Entry \cup {Dummy}
  BY <1>2 DEF Shape
<1> DEFINE f == [j \in Run(b, n + m) |->
                   IF j \in i..(i + m - 1) THEN p[j - i + 1] ELSE st.logs[j]]
<1>4. st2.logs = f
  <2>1. Run(b, n) \cup i..(i + m - 1) = Run(b, n + m)
    <3>1. (b..(b + n - 1)) \cup i..(i + m - 1) = b..(b + (n + m) - 1)
      BY <1>1
    <3> QED BY <3>1 DEF Run
  <2> QED BY <1>d, <1>2, <2>1
<1>5. f \in [Run(b, n + m) -> Entry \cup {Dummy}]
  <2> SUFFICES ASSUME NEW j \in Run(b, n + m) PROVE f[j] \in Entry \cup {Dummy}
    OBVIOUS
  <2>1. CASE j \in i..(i + m - 1)
    <3>1. j - i + 1 \in 1..m
      BY <1>m, <2>1
    <3> QED BY <1>m, <2>1, <3>1
  <2>2. CASE j \notin i..(i + m - 1)
    <3>1. j \in Run(b, n)
      BY <1>1, <2>2 DEF Run
    <3> QED BY <1>3, <2>2, <3>1
  <2> QED BY <2>1, <2>2
<1>6. \A k \in 1..(n + m) :
        f[b + k - 1] = IF k <= n THEN Contents(st)[k] ELSE p[k - n]
  <2> SUFFICES ASSUME NEW k \in 1..(n + m)
               PROVE  f[b + k - 1] = IF k <= n THEN Contents(st)[k] ELSE p[k - n]
    BY Zenon
  <2>1. b + k - 1 \in Run(b, n + m)
    BY DEF Run
  <2>2. b + k - 1 \in i..(i + m - 1) <=> ~(k <= n)
    BY <1>1
  <2>3. (b + k - 1) - i + 1 = k - n
    BY <1>1
  <2>4. k <= n => Contents(st)[k] = st.logs[b + k - 1]
    BY DEF Shape
  <2> QED BY <2>1, <2>2, <2>3, <2>4
<1> HIDE DEF f
<1>7. Dense(st2) /\ Shape(st2, b, n + m)
  <2>1. n + m \in Nat /\ st2 = [logs |-> f, start |-> b]
    BY <1>s, <1>4
  <2> QED BY <1>5, <2>1, MakeShape
<1>8. Contents(st2) = [k \in 1..(n + m) |-> f[b + k - 1]]
  BY <1>4, <1>7 DEF Shape
<1>9. Contents(st2)
        = [k \in 1..(n + m) |-> IF k <= n THEN Contents(st)[k] ELSE p[k - n]]
  BY <1>6, <1>8
<1>10. Contents(st) \o p
        = [k \in 1..(n + m) |-> IF k <= n THEN Contents(st)[k] ELSE p[k - n]]
  <2>1. Contents(st) \in Seq(Entry \cup {Dummy}) /\ Len(Contents(st)) = n
    BY DEF Shape
  <2>2. ASSUME NEW q \in Seq(Entry \cup {Dummy}), Len(q) = n
        PROVE  q \o p = [k \in 1..(n + m) |-> IF k <= n THEN q[k] ELSE p[k - n]]
    <3>1. q \o p = [k \in 1..(Len(q) + Len(p)) |->
                       IF k <= Len(q) THEN q[k] ELSE p[k - Len(q)]]
      BY Concatenation, ZenonT(30)
    <3> QED BY <1>m, <2>2, <3>1, Zenon
  <2> QED BY <2>1, <2>2
<1> QED BY <1>0, <1>s, <1>7, <1>9, <1>10

-----------------------------------------------------------------------------
\* A step that leaves one server's store dense and the others alone keeps the
\* invariant and moves only that server's abstract log.
LEMMA OneStore ==
  ASSUME IInv, NEW s \in Servers, NEW st2, Dense(st2),
         store' = [store EXCEPT ![s] = st2]
  PROVE  /\ IInv'
         /\ alog' = [alog EXCEPT ![s] = [first   |-> st2.start,
                                         entries |-> Contents(st2)]]
<1>1. st2 \in [logs : Maps, start : Nat \ {0}]
  BY DEF Dense
<1>2. /\ store' \in [Servers -> [logs : Maps, start : Nat \ {0}]]
      /\ \A r \in Servers : store'[r] = IF r = s THEN st2 ELSE store[r]
  BY <1>1 DEF IInv
<1>3. \A r \in Servers : Dense(store'[r])
  BY <1>2 DEF IInv
<1>4. IInv'
  BY <1>2, <1>3 DEF IInv
<1>5. alog' = [r \in Servers |-> [first   |-> store'[r].start,
                                  entries |-> Contents(store'[r])]]
  BY DEF alog
<1>6. \A r \in Servers : [first |-> store'[r].start, entries |-> Contents(store'[r])]
        = IF r = s THEN [first |-> st2.start, entries |-> Contents(st2)]
          ELSE alog[r]
  BY <1>2 DEF alog
<1>7. alog' = [alog EXCEPT ![s] = [first   |-> st2.start,
                                   entries |-> Contents(st2)]]
  BY <1>5, <1>6, Zenon DEF alog
<1> QED BY <1>4, <1>7

\* The shape of each server's store under the invariant.
LEMMA ShapeOf ==
  ASSUME IInv, NEW s \in Servers
  PROVE  /\ store[s] \in [logs : Maps, start : Nat \ {0}]
         /\ \E n \in Nat : Shape(store[s], store[s].start, n)
         /\ alog[s].first = store[s].start
         /\ alog[s].entries = Contents(store[s])
BY DenseShape DEF IInv, alog

\* append keeps the invariant and extends the abstract log.
LEMMA AppendStep ==
  ASSUME IInv, NEW s \in Servers, NEW e \in Entry, append(s, e)
  PROVE  IInv' /\ Abs!Extend(s, e)
<1>1. PICK n \in Nat : Shape(store[s], store[s].start, n)
  BY ShapeOf
<1>2. PICK a \in Nat \ {0} : a = store[s].start
  BY ShapeOf
<1>3. /\ next_slot(store[s]) = a + n
      /\ store[s].logs = [i \in Run(a, n) |-> store[s].logs[i]]
      /\ Contents(store[s]) \in Seq(Entry \cup {Dummy})
      /\ Len(Contents(store[s])) = n
  BY <1>1, <1>2 DEF Shape
<1>4. Only(store[s].logs, 0..(a + n - 1)) = store[s].logs
  <2>1. Run(a, n) \cap 0..(a + n - 1) = Run(a, n)
    BY RunCut
  <2> QED BY <1>3, <2>1 DEF Only
<1>5. store' = [store EXCEPT ![s] = PutAt(store[s], a, n, e)]
  BY <1>2, <1>3, <1>4, Zenon DEF append, PutAt
<1>6. n \in 0..n
  OBVIOUS
<1>7. /\ IInv'
      /\ alog' = [alog EXCEPT ![s] =
           [first   |-> alog[s].first,
            entries |-> Append(SubSeq(alog[s].entries, 1, n), e)]]
  <2> DEFINE st2 == PutAt(store[s], a, n, e)
  <2>1. /\ Dense(st2) /\ st2.start = a
        /\ Contents(st2) = Append(SubSeq(Contents(store[s]), 1, n), e)
    BY <1>1, <1>2, <1>6, PutShape
  <2>2. store' = [store EXCEPT ![s] = st2]
    BY <1>5
  <2> HIDE DEF st2
  <2>3. IInv' /\ alog' = [alog EXCEPT ![s] = [first   |-> st2.start,
                                              entries |-> Contents(st2)]]
    BY <2>1, <2>2, OneStore, Zenon
  <2>4. alog[s].first = a /\ alog[s].entries = Contents(store[s])
    BY <1>2, ShapeOf
  <2> QED BY <2>1, <2>3, <2>4
<1>8. SubSeq(alog[s].entries, 1, n) = alog[s].entries
  <2>1. alog[s].entries = Contents(store[s])
    BY ShapeOf
  <2> QED BY <1>3, <2>1
<1> QED BY <1>7, <1>8, Zenon DEF Abs!Extend

\* write_at keeps the invariant and replaces an entry and its successors.
LEMMA WriteAtStep ==
  ASSUME IInv, NEW s \in Servers, NEW i \in 1..MaxIndex, NEW e \in Entry,
         write_at(s, i, e)
  PROVE  IInv' /\ Abs!Replace(s, i, e)
<1>1. PICK n \in Nat : Shape(store[s], store[s].start, n)
  BY ShapeOf
<1>2. PICK a \in Nat \ {0} : a = store[s].start
  BY ShapeOf
<1>3. next_slot(store[s]) = a + n /\ Len(Contents(store[s])) = n
  BY <1>1, <1>2 DEF Shape
<1>4. PICK m \in 0..n : i = a + m
  <2>1. i >= a /\ i <= a + n /\ i \in Int
    BY <1>2, <1>3, LogStoreAssumption DEF write_at
  <2>2. i - a \in 0..n /\ i = a + (i - a)
    BY <2>1
  <2> QED BY <2>2
<1>5. store' = [store EXCEPT ![s] = PutAt(store[s], a, m, e)]
  <2>1. i - 1 = a + m - 1
    BY <1>4
  <2> QED BY <1>2, <1>4, <2>1, Zenon DEF write_at, PutAt
<1>6. /\ IInv'
      /\ alog' = [alog EXCEPT ![s] =
           [first   |-> alog[s].first,
            entries |-> Append(SubSeq(alog[s].entries, 1, m), e)]]
  <2> DEFINE st2 == PutAt(store[s], a, m, e)
  <2>1. /\ Dense(st2) /\ st2.start = a
        /\ Contents(st2) = Append(SubSeq(Contents(store[s]), 1, m), e)
    BY <1>1, <1>2, PutShape
  <2>2. store' = [store EXCEPT ![s] = st2]
    BY <1>5
  <2> HIDE DEF st2
  <2>3. IInv' /\ alog' = [alog EXCEPT ![s] = [first   |-> st2.start,
                                              entries |-> Contents(st2)]]
    BY <2>1, <2>2, OneStore, Zenon
  <2>4. alog[s].first = a /\ alog[s].entries = Contents(store[s])
    BY <1>2, ShapeOf
  <2> QED BY <2>1, <2>3, <2>4
<1>7. alog[s].first = a /\ Len(alog[s].entries) = n
  BY <1>2, <1>3, ShapeOf
<1>8. m = i - alog[s].first /\ i >= alog[s].first
      /\ i <= alog[s].first + Len(alog[s].entries)
  BY <1>4, <1>7
<1> QED BY <1>6, <1>8 DEF Abs!Replace, Abs!Past

\* compact keeps the invariant and forgets a prefix, or does nothing below
\* start_idx_.
LEMMA CompactStep ==
  ASSUME IInv, NEW s \in Servers, NEW i \in 1..MaxIndex, compact(s, i)
  PROVE  IInv' /\ (Abs!Forget(s, i) \/ UNCHANGED alog)
<1>1. PICK n \in Nat : Shape(store[s], store[s].start, n)
  BY ShapeOf
<1>2. PICK a \in Nat \ {0} : a = store[s].start
  BY ShapeOf
<1>3. /\ store[s] = [logs |-> store[s].logs, start |-> a]
      /\ store[s].logs = [j \in Run(a, n) |-> store[s].logs[j]]
      /\ Len(Contents(store[s])) = n
  BY <1>1, <1>2 DEF Shape
<1>i. i \in Nat
  BY LogStoreAssumption
<1>4. alog[s].first = a /\ alog[s].entries = Contents(store[s])
  BY <1>2, ShapeOf
<1>5. CASE i >= a
  <2> DEFINE st2 == DropTo(store[s], a, i)
  <2>1. /\ Dense(st2) /\ st2.start = i + 1
        /\ Contents(st2) = SubSeq(Contents(store[s]), i - a + 2, n)
    <3>1. Shape(store[s], a, n)
      BY <1>1, <1>2, Zenon
    <3> QED BY <1>5, <1>i, <3>1, CompactShape, Zenon
  <2>2. store' = [store EXCEPT ![s] = st2]
    BY <1>2, <1>5, <1>i, Zenon DEF compact, DropTo
  <2> HIDE DEF st2
  <2>3. IInv' /\ alog' = [alog EXCEPT ![s] = [first   |-> st2.start,
                                              entries |-> Contents(st2)]]
    BY <2>1, <2>2, OneStore, Zenon
  <2> QED BY <1>3, <1>4, <1>5, <2>1, <2>3, Zenon DEF Abs!Forget
<1>6. CASE ~(i >= a)
  <2>1. Only(store[s].logs, DOMAIN store[s].logs \ (a..i)) = store[s].logs
    <3>1. a..i = {}
      BY <1>6, <1>i
    <3>2. DOMAIN store[s].logs \cap (DOMAIN store[s].logs \ (a..i)) = Run(a, n)
      BY <1>3, <3>1
    <3> QED BY <1>3, <3>2 DEF Only
  <2>2. store' = [store EXCEPT ![s] = [logs |-> store[s].logs, start |-> a]]
    BY <1>2, <1>6, <1>i, <2>1, Zenon DEF compact
  <2>3. store' = [store EXCEPT ![s] = store[s]]
    BY <1>3, <2>2, Zenon
  <2>4. store' = store
    BY <2>3 DEF IInv
  <2> QED BY <2>4 DEF IInv, alog, Dense, Contents, next_slot
<1> QED BY <1>5, <1>6

\* The least index above the dummy of a nonempty run is where the run begins.
LEMMA FirstOfRun ==
  ASSUME NEW b \in Nat \ {0}, NEW m \in Nat \ {0}
  PROVE  /\ Run(b, m) # {0}
         /\ (CHOOSE j \in Run(b, m) \ {0} : \A k \in Run(b, m) \ {0} : j <= k) = b
<1>1. b \in Run(b, m) \ {0} /\ \A k \in Run(b, m) \ {0} : b <= k /\ k \in Nat
  BY DEF Run
<1>2. \A j \in Run(b, m) \ {0} :
        (\A k \in Run(b, m) \ {0} : j <= k) => j = b
  BY <1>1
<1> QED BY <1>1, <1>2

\* A log pack sent between servers keeps the invariant and hands over exactly
\* the entries asked for.
LEMMA SyncStep ==
  ASSUME IInv, NEW s \in Servers, NEW t \in Servers,
         NEW i \in 1..MaxIndex, NEW cnt \in 1..MaxIndex, Sync(s, t, i, cnt)
  PROVE  IInv' /\ Abs!Receive(s, t, i, cnt)
<1>1. PICK n \in Nat : Shape(store[s], store[s].start, n)
  BY ShapeOf
<1>2. PICK a \in Nat \ {0} : a = store[s].start
  BY ShapeOf
<1>3. PICK l \in Nat : Shape(store[t], store[t].start, l)
  BY ShapeOf
<1>4. PICK c \in Nat \ {0} : c = store[t].start
  BY ShapeOf
<1>5. i \in Nat \ {0} /\ cnt \in Nat \ {0}
  BY LogStoreAssumption
<1>6. /\ next_slot(store[s]) = a + n /\ next_slot(store[t]) = c + l
      /\ DOMAIN store[s].logs = Run(a, n)
      /\ Len(Contents(store[s])) = n /\ Len(Contents(store[t])) = l
      /\ Contents(store[s]) \in Seq(Entry \cup {Dummy})
      /\ Contents(store[t]) \in Seq(Entry \cup {Dummy})
  BY <1>1, <1>2, <1>3, <1>4, Zenon DEF Shape
<1>7. /\ alog[s].first = a /\ alog[s].entries = Contents(store[s])
      /\ alog[t].first = c /\ alog[t].entries = Contents(store[t])
  BY <1>2, <1>4, ShapeOf
<1>8. c <= i /\ i + cnt <= c + l
  BY <1>4, <1>6 DEF Sync
<1>9. i = a + n \/ n = 0
  <2>1. Run(a, n) = {0} => n = 0
    <3>1. n > 0 => a \in Run(a, n)
      BY DEF Run
    <3> QED BY <3>1
  <2> QED BY <1>6, <2>1 DEF Sync
<1>10. (Contents(store[s]) = << >>) <=> n = 0
  BY <1>6
<1> DEFINE p == pack(store[t], i, cnt)
<1>11. p = SubSeq(Contents(store[t]), i - c + 1, i - c + cnt)
  <2>1. \A k \in 1..cnt : find(store[t], i + k - 1) = Contents(store[t])[i - c + k]
    <3> SUFFICES ASSUME NEW k \in 1..cnt PROVE find(store[t], i + k - 1) = Contents(store[t])[i - c + k]
      BY Zenon
    <3>1. i + k - 1 \in Run(c, l) /\ i - c + k \in 1..l /\ c + (i - c + k) - 1 = i + k - 1
      BY <1>5, <1>8 DEF Run
    <3>2. /\ DOMAIN store[t].logs = Run(c, l)
          /\ Contents(store[t]) = [x \in 1..l |-> store[t].logs[c + x - 1]]
      BY <1>3, <1>4 DEF Shape
    <3> QED BY <3>1, <3>2 DEF find
  <2>2. p = [k \in 1..cnt |-> Contents(store[t])[i - c + k]]
    <3>1. (i + cnt) - i = cnt
      BY <1>5
    <3> QED BY <2>1, <3>1 DEF pack, log_entries
  <2>3. ASSUME NEW q \in Seq(Entry \cup {Dummy}), Len(q) = l, NEW d \in Nat, d + cnt <= l
        PROVE  SubSeq(q, d + 1, d + cnt) = [k \in 1..cnt |-> q[d + k]]
    <3>1. SubSeq(q, d + 1, d + cnt)
            = [k \in 1..((d + cnt) - (d + 1) + 1) |-> q[(d + 1) + k - 1]]
      BY <2>3, <1>5
    <3>2. (d + cnt) - (d + 1) + 1 = cnt /\ \A k \in 1..cnt : (d + 1) + k - 1 = d + k
      BY <1>5
    <3> QED BY <3>1, <3>2
  <2>4. i - c \in Nat /\ (i - c) + cnt <= l
    BY <1>5, <1>8
  <2> QED BY <1>6, <2>2, <2>3, <2>4
<1>12. p \in Seq(Entry \cup {Dummy}) /\ Len(p) = cnt /\ p # << >>
  <2>1. i - c + 1 \in 1..l /\ i - c + cnt \in 1..l
    BY <1>5, <1>8
  <2>2. ASSUME NEW q \in Seq(Entry \cup {Dummy}), Len(q) = l
        PROVE  LET r == SubSeq(q, i - c + 1, i - c + cnt)
               IN  r \in Seq(Entry \cup {Dummy}) /\ Len(r) = cnt
    BY <1>5, <2>1, <2>2
  <2>3. p \in Seq(Entry \cup {Dummy}) /\ Len(p) = cnt
    BY <1>6, <1>11, <2>2
  <2> HIDE DEF p
  <2> QED BY <1>5, <2>3
<1>13. PICK b \in Nat \ {0} : b = IF n = 0 THEN i ELSE a
  BY <1>5
<1> DEFINE st2 == PackAt(store[s], b, i, p)
<1> HIDE DEF p
<1>14. /\ Dense(st2) /\ st2.start = b
       /\ Contents(st2) = Contents(store[s]) \o p
  <2>1. Joins(a, n, b, i)
    BY <1>5, <1>9, <1>13 DEF Joins
  <2>2. Shape(store[s], a, n)
    BY <1>1, <1>2
  <2>3. p \in Seq(Entry \cup {Dummy}) /\ p # << >>
    BY <1>12
  <2> QED BY ONLY <2>1, <2>2, <2>3, PackShape
<1>15. DOMAIN store[s].logs \cup i..(i + Len(p) - 1) = Run(b, n + cnt)
  <2>1. i = b + n
    BY <1>9, <1>13
  <2>2. Run(a, n) = Run(b, n)
    BY <1>13 DEF Run
  <2>3. (b..(b + n - 1)) \cup i..(i + cnt - 1) = b..(b + (n + cnt) - 1)
    BY <1>5, <2>1
  <2> QED BY <1>6, <1>12, <2>2, <2>3 DEF Run
<1>16. store' = [store EXCEPT ![s] = st2]
  <2> DEFINE logs == [j \in DOMAIN store[s].logs \cup i..(i + Len(p) - 1) |->
                        IF j \in i..(i + Len(p) - 1) THEN p[j - i + 1]
                        ELSE store[s].logs[j]]
  <2>1. DOMAIN logs = Run(b, n + cnt)
    BY <1>15
  <2>2. n + cnt \in Nat \ {0}
    BY <1>5
  <2>3. /\ DOMAIN logs # {0}
        /\ (CHOOSE j \in DOMAIN logs \ {0} : \A k \in DOMAIN logs \ {0} : j <= k) = b
    BY <2>1, <2>2, FirstOfRun
  <2>4. apply_pack(s, i, p)
    BY DEF Sync, p
  <2>5. store' = [store EXCEPT ![s] = [logs |-> logs, start |-> b]]
    BY <2>3, <2>4, Zenon DEF apply_pack
  <2> QED BY <2>5 DEF PackAt
<1> HIDE DEF st2
<1>17. IInv' /\ alog' = [alog EXCEPT ![s] = [first   |-> st2.start,
                                             entries |-> Contents(st2)]]
  BY <1>14, <1>16, OneStore, Zenon
<1>18. b = IF Contents(store[s]) = << >> THEN i ELSE a
  BY <1>10, <1>13
<1>19. alog' = [alog EXCEPT ![s] =
         [first   |-> IF alog[s].entries = << >> THEN i ELSE alog[s].first,
          entries |-> alog[s].entries
                      \o SubSeq(alog[t].entries, i - alog[t].first + 1,
                                i - alog[t].first + cnt)]]
  BY <1>7, <1>11, <1>14, <1>17, <1>18
<1>20. /\ i >= alog[t].first /\ i + cnt <= alog[t].first + Len(alog[t].entries)
       /\ i = alog[s].first + Len(alog[s].entries) \/ alog[s].entries = << >>
  BY <1>6, <1>7, <1>8, <1>9, <1>10
<1> QED BY <1>17, <1>19, <1>20, Zenon DEF Abs!Receive, Abs!Past

-----------------------------------------------------------------------------
\* The inductive step, one case per operation.
LEMMA Step ==
  IInv /\ [Next]_store => IInv' /\ [Abs!Next]_alog
<1> SUFFICES ASSUME IInv, [Next]_store
             PROVE  IInv' /\ [Abs!Next]_alog
  OBVIOUS
<1>1. ASSUME NEW s \in Servers, NEW e \in Entry, append(s, e)
      PROVE  IInv' /\ Abs!Next
  BY <1>1, AppendStep DEF Abs!Next
<1>2. ASSUME NEW s \in Servers, NEW i \in 1..MaxIndex, NEW e \in Entry,
             write_at(s, i, e)
      PROVE  IInv' /\ Abs!Next
  BY <1>2, WriteAtStep DEF Abs!Next
<1>3. ASSUME NEW s \in Servers, NEW t \in Servers \ {s},
             NEW i \in 1..MaxIndex, NEW cnt \in 1..MaxIndex, Sync(s, t, i, cnt)
      PROVE  IInv' /\ Abs!Next
  BY <1>3, SyncStep DEF Abs!Next
<1>4. ASSUME NEW s \in Servers, NEW i \in 1..MaxIndex, compact(s, i)
      PROVE  IInv' /\ [Abs!Next]_alog
  BY <1>4, CompactStep DEF Abs!Next
<1>5. ASSUME UNCHANGED store
      PROVE  IInv' /\ UNCHANGED alog
  BY <1>5 DEF IInv, alog, Dense, Contents, next_slot
<1> QED BY <1>1, <1>2, <1>3, <1>4, <1>5 DEF Next

\* A fresh store holds only the dummy and stands for the empty log.
LEMMA Start ==
  Init => IInv /\ Abs!Init
<1> SUFFICES ASSUME Init PROVE IInv /\ Abs!Init
  OBVIOUS
<1> DEFINE st == [logs |-> [i \in {0} |-> Dummy], start |-> 1]
<1>1. Run(1, 0) = {0}
  BY DEF Run
<1>2. [i \in {0} |-> Dummy] \in [Run(1, 0) -> Entry \cup {Dummy}]
  BY <1>1
<1>3. Dense(st) /\ Shape(st, 1, 0)
  BY <1>2, MakeShape
<1>4. st.start = 1 /\ Contents(st) = << >>
  BY <1>3 DEF Shape
<1> HIDE DEF st
<1>5. store = [s \in Servers |-> st]
  BY DEF Init, st
<1>6. IInv
  BY <1>3, <1>5 DEF IInv, Dense
<1>7. alog = [s \in Servers |-> [first |-> 1, entries |-> << >>]]
  BY <1>4, <1>5 DEF alog
<1> QED BY <1>6, <1>7 DEF Abs!Init

\* Whatever the RAFT library does with the stores within the log_store
\* contract, each holds the dummy and one gapless run whose length logs_.size()
\* gives, so next_slot never points into or past the log.
THEOREM GaplessAlways == Spec => []Gapless
<1>1. IInv => Gapless
  BY DenseGapless DEF IInv, Gapless
<1> QED BY <1>1, Start, Step, PTL DEF Spec

\* inmem_log_store implements the abstract log for any number of servers, any
\* entries and any index bound.
THEOREM StoreImplementsLog == Spec => ImplementsLog
BY Start, Step, PTL DEF Spec, ImplementsLog, Abs!Spec

-----------------------------------------------------------------------------
\* Only entries that some append, overwrite or log pack brought are in a log:
\* the dummy at index 0 never enters the run.
Real == \A s \in Servers : alog[s].entries \in Seq(Entry)

\* A slice of a log of entries is a log of entries (log_entries returns one).
LEMMA RealSubSeq ==
  ASSUME NEW q \in Seq(Entry), NEW i \in Nat \ {0}, NEW j \in Int, j <= Len(q)
  PROVE  SubSeq(q, i, j) \in Seq(Entry)
<1>1. CASE i <= j
  BY <1>1, SubSeqProperties
<1>2. CASE ~(i <= j)
  BY <1>2, SubSeqEmpty
<1> QED BY <1>1, <1>2

\* An abstract step puts only real entries into a log.
LEMMA RealStep ==
  IInv /\ Real /\ [Abs!Next]_alog => Real'
<1> SUFFICES ASSUME IInv, Real, [Abs!Next]_alog PROVE Real'
  OBVIOUS
<1>0. ASSUME NEW s \in Servers
      PROVE  alog[s].first \in Nat \ {0} /\ alog[s].entries \in Seq(Entry)
  <2>1. alog[s].first = store[s].start /\ store[s] \in [logs : Maps, start : Nat \ {0}]
    BY ShapeOf
  <2> QED BY <2>1 DEF Real
<1>d. ASSUME NEW s \in Servers, NEW f, NEW q \in Seq(Entry),
             alog' = [alog EXCEPT ![s] = [first |-> f, entries |-> q]]
      PROVE  Real'
  <2>1. \A r \in Servers : alog'[r] = IF r = s THEN [first |-> f, entries |-> q] ELSE alog[r]
    BY <1>d, Zenon DEF alog
  <2> QED BY <1>d, <2>1 DEF Real
<1>1. ASSUME NEW s \in Servers, NEW e \in Entry, Abs!Extend(s, e) PROVE Real'
  <2>1. Append(alog[s].entries, e) \in Seq(Entry)
    BY <1>0
  <2> QED BY <1>1, <1>d, <2>1, Zenon DEF Abs!Extend
<1>2. ASSUME NEW s \in Servers, NEW i \in 1..MaxIndex, NEW e \in Entry, Abs!Replace(s, i, e)
      PROVE  Real'
  <2>1. i - alog[s].first \in Int /\ i - alog[s].first <= Len(alog[s].entries)
    BY <1>0, <1>2, LogStoreAssumption DEF Abs!Replace, Abs!Past
  <2>2. SubSeq(alog[s].entries, 1, i - alog[s].first) \in Seq(Entry)
    BY <1>0, <2>1, RealSubSeq
  <2>3. Append(SubSeq(alog[s].entries, 1, i - alog[s].first), e) \in Seq(Entry)
    BY <2>2
  <2> QED BY <1>2, <1>d, <2>3, Zenon DEF Abs!Replace
<1>3. ASSUME NEW s \in Servers, NEW t \in Servers, NEW i \in 1..MaxIndex, NEW n \in 1..MaxIndex,
             Abs!Receive(s, t, i, n)
      PROVE  Real'
  <2>1. /\ i - alog[t].first + 1 \in Nat \ {0}
        /\ i - alog[t].first + n \in Int /\ i - alog[t].first + n <= Len(alog[t].entries)
    <3>1. /\ alog[t].first \in Nat \ {0} /\ Len(alog[t].entries) \in Nat
          /\ i >= alog[t].first /\ i + n <= alog[t].first + Len(alog[t].entries)
      <4>1. alog[t].first \in Nat \ {0} /\ alog[t].entries \in Seq(Entry)
        BY <1>0
      <4>2. i >= alog[t].first /\ i + n <= Abs!Past(alog[t])
        BY <1>3, Zenon DEF Abs!Receive
      <4> QED BY <4>1, <4>2 DEF Abs!Past
    <3>2. PICK f \in Nat, l \in Nat : f = alog[t].first /\ l = Len(alog[t].entries)
      BY <3>1
    <3>3. i \in Nat /\ n \in Nat
      BY LogStoreAssumption
    <3>4. i >= f /\ i + n <= f + l
      BY <3>1, <3>2
    <3>5. i - f + 1 \in Nat \ {0} /\ i - f + n \in Int /\ i - f + n <= l
      BY <3>3, <3>4
    <3> QED BY <3>2, <3>5, Zenon
  <2>2. SubSeq(alog[t].entries, i - alog[t].first + 1, i - alog[t].first + n) \in Seq(Entry)
    BY <1>0, <2>1, RealSubSeq, Zenon
  <2>3. alog[s].entries \o SubSeq(alog[t].entries, i - alog[t].first + 1, i - alog[t].first + n)
          \in Seq(Entry)
    BY <1>0, <2>2
  <2> QED BY <1>3, <1>d, <2>3, Zenon DEF Abs!Receive
<1>4. ASSUME NEW s \in Servers, NEW i \in 1..MaxIndex, Abs!Forget(s, i) PROVE Real'
  <2>1. i - alog[s].first + 2 \in Nat \ {0} /\ Len(alog[s].entries) \in Int
    BY <1>0, <1>4, LogStoreAssumption DEF Abs!Forget
  <2>2. SubSeq(alog[s].entries, i - alog[s].first + 2, Len(alog[s].entries)) \in Seq(Entry)
    BY <1>0, <2>1, RealSubSeq
  <2> QED BY <1>4, <1>d, <2>2, Zenon DEF Abs!Forget
<1>5. CASE alog' = alog
  BY <1>5 DEF Real
<1> QED BY <1>1, <1>2, <1>3, <1>4, <1>5 DEF Abs!Next

\* The dummy of index 0 is never among the entries of the run.
LEMMA RealAlways == Spec => [](IInv /\ Real)
<1>1. Init => Real
  <2> SUFFICES ASSUME Init PROVE Real
    OBVIOUS
  <2>1. alog = [s \in Servers |-> [first |-> 1, entries |-> << >>]]
    BY Start DEF Abs!Init
  <2>2. \A s \in Servers : alog[s].entries = << >>
    BY <2>1
  <2>3. << >> \in Seq(Entry)
    OBVIOUS
  <2> QED BY <2>2, <2>3, Zenon DEF Real
<1>2. IInv /\ Real /\ [Next]_store => (IInv /\ Real)'
  BY Step, RealStep
<1> QED BY <1>1, <1>2, Start, PTL DEF Spec

\* What the inductive invariant says of the indexes between start_idx_ and
\* next_slot: a real entry is stored at each, and find() does find it.
LEMMA InLog ==
  ASSUME IInv, Real, NEW s \in Servers
  PROVE  /\ store[s].start \in Nat \ {0} /\ next_slot(store[s]) \in Nat
         /\ store[s].start <= next_slot(store[s])
         /\ \A i \in store[s].start..(next_slot(store[s]) - 1) :
              /\ find(store[s], i) = store[s].logs[i]
              /\ find(store[s], i) \in Entry
<1>1. PICK st : st = store[s]
  OBVIOUS
<1>2. PICK a \in Nat \ {0} : a = st.start
  BY <1>1, ShapeOf
<1>3. PICK n \in Nat : Shape(st, a, n)
  BY <1>1, <1>2, ShapeOf
<1>4. next_slot(st) = a + n /\ DOMAIN st.logs = Run(a, n)
  BY <1>3 DEF Shape
<1>5. Contents(st) \in Seq(Entry) /\ Len(Contents(st)) = n
  <2>1. Contents(st) = alog[s].entries
    BY <1>1, ShapeOf
  <2>2. Len(Contents(st)) = n
    BY <1>3 DEF Shape
  <2> QED BY <2>1, <2>2 DEF Real
<1>6. ASSUME NEW i \in a..(a + n - 1)
      PROVE  find(st, i) = st.logs[i] /\ find(st, i) \in Entry
  <2>1. i \in Run(a, n)
    BY DEF Run
  <2>2. find(st, i) = st.logs[i]
    BY <1>4, <2>1 DEF find
  <2>3. PICK k \in 1..n : k = i - a + 1
    OBVIOUS
  <2>4. Contents(st)[k] = st.logs[a + k - 1] /\ a + k - 1 = i
    BY <1>3, <2>3 DEF Shape
  <2>5. Contents(st)[k] \in Entry
    <3> HIDE DEF Contents
    <3> QED BY <1>5
  <2> QED BY <2>2, <2>4, <2>5
<1> QED BY <1>1, <1>2, <1>4, <1>6

\* last_entry, log_entries, entry_at and term_at never answer with the dummy
\* for an index of the log, in any store the RAFT library can produce.
THEOREM ReadsAreReal == Spec => []ReadsTheLog
<1>1. IInv /\ Real => ReadsTheLog
  <2> SUFFICES ASSUME IInv, Real, NEW s \in Servers
               PROVE  LET st == store[s] IN
                      /\ st.start < next_slot(st) => last_entry(st) = st.logs[next_slot(st) - 1]
                      /\ last_entry(st) = Dummy => Contents(st) = << >>
                      /\ \A a, b \in st.start..next_slot(st) :
                           a <= b => /\ Len(log_entries(st, a, b)) = b - a
                                     /\ \A k \in 1..(b - a) :
                                          /\ log_entries(st, a, b)[k] = entry_at(st, a + k - 1)
                                          /\ term_at(st, a + k - 1) > 0
    BY Zenon DEF ReadsTheLog
  <2>1. PICK st : st = store[s]
    OBVIOUS
  <2>2. PICK f \in Nat \ {0} : f = st.start
    BY <2>1, InLog
  <2>3. PICK x \in Nat : x = next_slot(st)
    BY <2>1, InLog
  <2>4. f <= x /\ \A i \in f..(x - 1) : find(st, i) = st.logs[i] /\ find(st, i) \in Entry
    BY <2>1, <2>2, <2>3, InLog
  <2>5. f < x => last_entry(st) = st.logs[x - 1]
    BY <2>3, <2>4 DEF last_entry
  <2>6. last_entry(st) = Dummy => Contents(st) = << >>
    <3>1. CASE f < x
      <4>1. last_entry(st) \in Entry
        BY <2>3, <2>4, <3>1 DEF last_entry
      <4>2. last_entry(st).term # 0 /\ Dummy.term = 0
        BY <4>1, LogStoreAssumption DEF Dummy
      <4> QED BY <4>2
    <3>2. CASE ~(f < x)
      BY <2>2, <2>3, <2>4, <3>2 DEF Contents
    <3> QED BY <3>1, <3>2
  <2>7. ASSUME NEW a \in f..x, NEW b \in f..x, a <= b
        PROVE  /\ Len(log_entries(st, a, b)) = b - a
               /\ \A k \in 1..(b - a) : /\ log_entries(st, a, b)[k] = entry_at(st, a + k - 1)
                                        /\ term_at(st, a + k - 1) > 0
    <3>1. \A k \in 1..(b - a) : find(st, a + k - 1) \in Entry
      BY <2>4, <2>7
    <3>2. \A k \in 1..(b - a) : term_at(st, a + k - 1) > 0
      <4>1. \A e \in Entry : e.term > 0
        BY LogStoreAssumption
      <4> QED BY <3>1, <4>1, Zenon DEF term_at
    <3>3. log_entries(st, a, b) = [k \in 1..(b - a) |-> entry_at(st, a + k - 1)]
      BY DEF log_entries, entry_at
    <3>4. b - a \in Nat
      BY <2>7
    <3> HIDE DEF entry_at
    <3> QED BY <3>2, <3>3, <3>4
  <2> QED BY <2>1, <2>2, <2>3, <2>5, <2>6, <2>7, ZenonT(30)
<1> QED BY <1>1, RealAlways, PTL

-----------------------------------------------------------------------------
\* A set of positions has a first one: of the sets of positions up to a member,
\* one is contained in all the others.
LEMMA FirstPosition ==
  ASSUME NEW m \in Nat, NEW P \in SUBSET (1..m), P # {}
  PROVE  \E x \in P : \A y \in P : x <= y
<1> DEFINE Upto(x) == {y \in P : y <= x}
           T == {Upto(x) : x \in P}
<1>0. P \subseteq Int /\ IsFiniteSet(P)
  <2>1. 1 \in Int /\ m \in Int
    OBVIOUS
  <2>2. IsFiniteSet(1..m)
    BY <2>1, FS_Interval
  <2>3. IsFiniteSet(P)
    BY <2>2, FS_Subset, Zenon
  <2> QED BY <2>3
<1>1. T \subseteq FiniteSubsetsOf(P) /\ T # {}
  <2>1. \A x \in P : Upto(x) \in SUBSET P
    BY Zenon
  <2>2. \A x \in P : IsFiniteSet(Upto(x))
    BY <1>0, <2>1, FS_Subset, Zenon
  <2> QED BY <2>1, <2>2, Zenon DEF FiniteSubsetsOf
<1>2. PICK A \in T : \A B \in T : ~(<<B, A>> \in StrictSubsetOrdering(P))
  <2> HIDE DEF T
  <2> QED BY <1>0, <1>1, FS_StrictSubsetOrderingWellFounded, WFMin
<1>3. PICK x \in P : A = Upto(x)
  BY <1>2, Zenon
<1>4. ASSUME NEW y \in P, ~(x <= y) PROVE FALSE
  <2>1. Upto(y) \in T /\ Upto(y) \in SUBSET P /\ Upto(x) \in SUBSET P
    BY Zenon
  <2>2. <<Upto(y), Upto(x)>> \notin StrictSubsetOrdering(P)
    BY <2>1, <1>2, <1>3, Zenon
  <2>3. \A z \in P : z <= y => z <= x
    BY <1>0, <1>4
  <2>4. Upto(y) \subseteq Upto(x)
    BY <2>3, Zenon
  <2>5. x \in Upto(x) /\ x \notin Upto(y)
    BY <1>0, <1>4
  <2> HIDE DEF Upto
  <2>6. <<Upto(y), Upto(x)>> \in (SUBSET P) \X (SUBSET P)
    BY <2>1
  <2> QED BY <2>2, <2>4, <2>5, <2>6 DEF StrictSubsetOrdering
<1> QED BY <1>4, Zenon

\* log_entries_ext's loop ends: a nonempty range has a first position at which
\* the accumulated size reaches the hint or the range is used up.
LEMMA PushedSome ==
  ASSUME NEW st, NEW a \in Int, NEW b \in Int, a < b, NEW hint \in Int, hint >= 0
  PROVE  Pushed(st, a, b, hint) \in 1..(b - a)
<1> DEFINE Ends(k) == k = b - a \/ (k > 0 /\ Reached(st, a, k, hint))
           First(k) == Ends(k) /\ \A j \in 1..(k - 1) : ~Reached(st, a, j, hint)
           P == {k \in 1..(b - a) : Ends(k)}
<1>1. b - a \in Nat /\ b - a \in 1..(b - a)
  OBVIOUS
<1>2. b - a \in P
  BY <1>1
<1>3. PICK k \in P : \A j \in P : k <= j
  <2>1. P \in SUBSET (1..(b - a)) /\ P # {}
    BY <1>2, Zenon
  <2> HIDE DEF P
  <2> QED BY <1>1, <2>1, FirstPosition, Zenon
<1>4. k \in 0..(b - a) /\ Ends(k)
  BY <1>3
<1>5. ASSUME NEW j \in 1..(k - 1) PROVE ~Reached(st, a, j, hint)
  <2>1. j \in 1..(b - a) /\ ~(k <= j) /\ j > 0
    BY <1>3
  <2>2. j \notin P
    BY <1>3, <2>1
  <2> QED BY <2>1, <2>2
<1>6. First(k)
  BY <1>4, <1>5
<1>7. Pushed(st, a, b, hint) = CHOOSE i \in 0..(b - a) : First(i)
  <2>1. ~(hint < 0)
    OBVIOUS
  <2> QED BY <2>1, Zenon DEF Pushed
<1> HIDE DEF First
<1>8. Pushed(st, a, b, hint) \in 0..(b - a) /\ First(Pushed(st, a, b, hint))
  BY <1>4, <1>6, <1>7, Zenon
<1> QED BY <1>1, <1>8 DEF First

\* A size-limited batch is a prefix of the range asked for and, with a hint that
\* is not negative, never empty: a follower catches up however small the hint.
THEOREM BatchesProgress == Spec => []BatchProgresses
<1>1. IInv /\ Real => BatchProgresses
  <2> SUFFICES ASSUME IInv, Real, NEW s \in Servers,
                      NEW a \in store[s].start..next_slot(store[s]),
                      NEW b \in store[s].start..next_slot(store[s]),
                      NEW hint \in -1..4, a < b
               PROVE  LET p == log_entries_ext(store[s], a, b, hint) IN
                        /\ Len(p) <= b - a
                        /\ p = log_entries(store[s], a, a + Len(p))
                        /\ (p = << >>) = (hint < 0)
    BY Zenon DEF BatchProgresses
  <2>1. a \in Int /\ b \in Int /\ hint \in Int
    BY InLog
  <2>2. PICK k : k = Pushed(store[s], a, b, hint)
    OBVIOUS
  <2>3. PICK p : p = log_entries_ext(store[s], a, b, hint)
    OBVIOUS
  <2>4. k \in 0..(b - a) /\ (k = 0 <=> hint < 0)
    <3>1. CASE hint < 0
      BY <2>1, <2>2, <3>1 DEF Pushed
    <3>2. CASE ~(hint < 0)
      BY <2>1, <2>2, <3>2, PushedSome
    <3> QED BY <3>1, <3>2
  <2>5. p = log_entries(store[s], a, a + k)
    BY <2>2, <2>3, Zenon DEF log_entries_ext
  <2>6. (a + k) - a = k /\ k \in Nat
    BY <2>1, <2>4
  <2>7. p = [j \in 1..k |-> find(store[s], a + j - 1)]
    BY <2>5, <2>6 DEF log_entries
  <2>8. Len(p) = k /\ (p = << >> <=> k = 0)
    BY <2>6, <2>7
  <2> QED BY <2>1, <2>3, <2>4, <2>5, <2>8
<1> QED BY <1>1, RealAlways, PTL
=============================================================================
