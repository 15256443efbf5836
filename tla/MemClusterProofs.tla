-------------------------- MODULE MemClusterProofs --------------------------
(***************************************************************************)
(* The replica set on one queue, for any number of replicas, slots,        *)
(* sessions and faults: what is applied is present, decided and agreed,    *)
(* and an acknowledged write stays in the journals of a quorum.            *)
(***************************************************************************)
EXTENDS MemClusterSteps, FiniteSetTheorems

\* The order of the integers, and the slots in it.
LEMMA IntOrder ==
    /\ Slots \subseteq Int
    /\ \A a, b, c \in Int : /\ a <= b /\ b <= c => a <= c
                            /\ a <= b /\ b < c => a < c
                            /\ a < b /\ b <= c => a < c
    /\ \A a, b \in Int : /\ (a > b <=> b < a) /\ (a >= b <=> b <= a)
                         /\ (a <= b <=> ~(a > b)) /\ (a < b \/ b <= a) /\ (a <= b /\ b <= a => a = b)
  BY SlotsNat

\* What is past a bound is past what the bound covers.
LEMMA Past ==
    /\ \A a, b, e \in Int : a <= b /\ b < e => e > a
    /\ \A a, b, c, e \in Int : b >= a /\ b <= c /\ c < e => e > a
  OBVIOUS

\* An empty index answers with a dLSN below every watermark.
LEMMA NoCellLow == NoCell.dlsn = -1 /\ \A m \in Marks : NoCell.dlsn <= m
  BY DEF NoCell, Marks

\* Max finds the greatest element of a finite set of integers: among the sets of elements at or above
\* a member one is contained in no other, and that member is the greatest.
LEMMA MaxIsGreatest ==
    ASSUME NEW S \in SUBSET Int, IsFiniteSet(S), S # {}
    PROVE  Max(S) \in S /\ \A x \in S : x <= Max(S)
  <1> DEFINE Above(x) == {y \in S : y >= x}
             T == {Above(x) : x \in S}
  <1>1. T \subseteq FiniteSubsetsOf(S) /\ T # {}
    <2>1. \A x \in S : Above(x) \in SUBSET S
      BY Zenon
    <2>2. \A x \in S : IsFiniteSet(Above(x))
      BY <2>1, FS_Subset, Zenon
    <2> QED BY <2>1, <2>2, Zenon DEF FiniteSubsetsOf
  <1>2. PICK A \in T : \A B \in T : ~(<<B, A>> \in StrictSubsetOrdering(S))
    <2> HIDE DEF T
    <2> QED BY <1>1, FS_StrictSubsetOrderingWellFounded, WFMin, Zenon
  <1>3. PICK x \in S : A = Above(x)
    BY <1>2, Zenon
  <1>4. ASSUME NEW y \in S, ~(y <= x) PROVE FALSE
    <2>1. Above(y) \in T /\ Above(y) \in SUBSET S /\ Above(x) \in SUBSET S
      BY Zenon
    <2>2. <<Above(y), Above(x)>> \notin StrictSubsetOrdering(S)
      BY <2>1, <1>2, <1>3, Zenon
    <2>3. \A z \in S : z >= y => z >= x
      BY <1>4
    <2>4. Above(y) \subseteq Above(x)
      BY <2>3, Zenon
    <2>5. x \in Above(x) /\ x \notin Above(y)
      BY <1>4
    <2> HIDE DEF Above
    <2>6. <<Above(y), Above(x)>> \in (SUBSET S) \X (SUBSET S)
      BY <2>1, Zenon
    <2> QED BY <2>2, <2>4, <2>5, <2>6, Zenon DEF StrictSubsetOrdering
  <1>5. \A y \in S : y <= x
    BY <1>4, Zenon
  <1> QED BY <1>5, Zenon DEF Max

\* Min finds the least element: the same, with the elements at or below a member.
LEMMA MinIsLeast ==
    ASSUME NEW S \in SUBSET Int, IsFiniteSet(S), S # {}
    PROVE  Min(S) \in S /\ \A x \in S : Min(S) <= x
  <1> DEFINE Below(x) == {y \in S : y <= x}
             T == {Below(x) : x \in S}
  <1>1. T \subseteq FiniteSubsetsOf(S) /\ T # {}
    <2>1. \A x \in S : Below(x) \in SUBSET S
      BY Zenon
    <2>2. \A x \in S : IsFiniteSet(Below(x))
      BY <2>1, FS_Subset, Zenon
    <2> QED BY <2>1, <2>2, Zenon DEF FiniteSubsetsOf
  <1>2. PICK A \in T : \A B \in T : ~(<<B, A>> \in StrictSubsetOrdering(S))
    <2> HIDE DEF T
    <2> QED BY <1>1, FS_StrictSubsetOrderingWellFounded, WFMin
  <1>3. PICK x \in S : A = Below(x)
    BY <1>2, Zenon
  <1>4. ASSUME NEW y \in S, ~(x <= y) PROVE FALSE
    <2>1. Below(y) \in T /\ Below(y) \in SUBSET S /\ Below(x) \in SUBSET S
      BY Zenon
    <2>2. <<Below(y), Below(x)>> \notin StrictSubsetOrdering(S)
      BY <2>1, <1>2, <1>3, Zenon
    <2>3. \A z \in S : z <= y => z <= x
      BY <1>4
    <2>4. Below(y) \subseteq Below(x)
      BY <2>3, Zenon
    <2>5. x \in Below(x) /\ x \notin Below(y)
      BY <1>4
    <2> HIDE DEF Below
    <2>6. <<Below(y), Below(x)>> \in (SUBSET S) \X (SUBSET S)
      BY <2>1
    <2> QED BY <2>2, <2>4, <2>5, <2>6 DEF StrictSubsetOrdering
  <1>5. \A y \in S : x <= y
    BY <1>4, Zenon
  <1> QED BY <1>5, Zenon DEF Min

\* The dLSNs of the model are finitely many naturals.
LEMMA SlotsFinite == IsFiniteSet(Slots) /\ Slots \subseteq Nat
  <1>1. MaxSlots \in Nat
    BY ClusterAssumption, Zenon
  <1> QED BY <1>1, FS_Interval DEF Slots

\* The greatest of a default and of some slots, as F, Want, Ha and apply_up_to compute it.
LEMMA MaxOfSlots ==
    ASSUME NEW c \in Int, NEW S \in SUBSET Slots
    PROVE  /\ Max({c} \cup S) \in {c} \cup S
           /\ \A x \in S : x <= Max({c} \cup S)
           /\ c <= Max({c} \cup S)
           /\ Max({c} \cup S) \in Int
  <1>1. IsFiniteSet({c} \cup S)
    BY SlotsFinite, FS_Subset, FS_Singleton, FS_Union, Zenon
  <1>2. {c} \cup S \in SUBSET Int
    BY SlotsFinite
  <1> QED BY <1>1, <1>2, MaxIsGreatest, Zenon

\* The greater of two marks.
LEMMA MaxOfTwo ==
    ASSUME NEW a \in Int, NEW b \in Int
    PROVE  /\ Max({a, b}) \in Int /\ (Max({a, b}) = a \/ Max({a, b}) = b)
           /\ a <= Max({a, b}) /\ b <= Max({a, b})
  <1> DEFINE S == {a, b}
  <1>1. IsFiniteSet(S)
    <2>1. S = {a} \cup {b}
      BY Zenon
    <2>2. IsFiniteSet({a})
      BY FS_Singleton, Zenon
    <2>3. IsFiniteSet({a} \cup {b})
      BY <2>2, FS_AddElement, Zenon
    <2> QED BY <2>1, <2>3, Zenon
  <1>2. S \in SUBSET Int /\ S # {} /\ a \in S /\ b \in S /\ \A x \in S : x = a \/ x = b
    BY Zenon
  <1> HIDE DEF S
  <1>3. Max(S) \in S /\ \A x \in S : x <= Max(S)
    BY <1>1, <1>2, MaxIsGreatest, Zenon
  <1>4. Max(S) \in Int /\ (Max(S) = a \/ Max(S) = b) /\ a <= Max(S) /\ b <= Max(S)
    BY <1>2, <1>3, Zenon
  <1> QED BY <1>4, Zenon DEF S

\* last_append_lsn after an append, as do_write and the cold hooks set it.
LEMMA RaiseLast ==
    ASSUME NEW s \in Replica, NEW d \in Slots
    PROVE  /\ Max({s.last, d}) \in {s.last, d} /\ Max({s.last, d}) \in Marks
           /\ s.last <= Max({s.last, d}) /\ d <= Max({s.last, d})
  <1>1. s.last \in Int /\ s.last \in Marks /\ d \in Marks /\ d \in Int
    BY SlotsFinite DEF Replica, Marks
  <1> QED BY <1>1, MaxOfTwo, Zenon

\* Two quorums share a replica.
LEMMA Intersect ==
    ASSUME NEW S, NEW T, Majority(S), Majority(T)
    PROVE  \E r \in Replicas : r \in S /\ r \in T
  <1>1. IsFiniteSet(Replicas) /\ Cardinality(Replicas) \in Nat
    BY ClusterAssumption, FS_CardinalityType, Zenon
  <1>2. Cardinality(S) \in Nat /\ Cardinality(T) \in Nat
    BY <1>1, FS_Subset, FS_CardinalityType, Zenon DEF Majority
  <1>3. Cardinality(S) + Cardinality(T) > Cardinality(Replicas)
    BY <1>1, <1>2 DEF Majority, Quorum
  <1>4. S \cap T # {}
    BY <1>1, <1>3, FS_MajoritiesIntersect, Zenon DEF Majority
  <1> QED BY <1>4, Zenon DEF Majority

\* A superset of a quorum is a quorum.
LEMMA Superset ==
    ASSUME NEW S, NEW T, Majority(S), S \subseteq T, T \subseteq Replicas
    PROVE  Majority(T)
  <1>1. IsFiniteSet(T) /\ Cardinality(S) <= Cardinality(T)
    BY ClusterAssumption, FS_Subset, Zenon
  <1>2. Cardinality(S) \in Nat /\ Cardinality(T) \in Nat /\ Cardinality(Replicas) \in Nat
    BY <1>1, ClusterAssumption, FS_Subset, FS_CardinalityType, Zenon
  <1> QED BY <1>1, <1>2 DEF Majority, Quorum
-----------------------------------------------------------------------------
\* apply_up_to only moves commit and the index: commit advances, at most to the target, over slots
\* that are all present.
LEMMA ApplyFacts ==
    ASSUME NEW s \in Replica, NEW target \in Int
    PROVE  LET t == apply_up_to(s, target)
           IN  /\ t \in Replica
               /\ t.journal = s.journal /\ t.last = s.last /\ t.term = s.term
               /\ s.commit <= t.commit
               /\ t.commit = s.commit \/ t.commit <= target
               /\ \A d \in Slots : s.commit < d /\ d <= t.commit => Present(s, d)
               /\ t.commit = s.commit \/ t.commit \in Slots
  <1> DEFINE reach(x) == \A d \in Slots : s.commit < d /\ d <= x => Present(s, d)
             S == {x \in Slots : s.commit < x /\ x <= target /\ reach(x)}
             top == Max({s.commit} \cup S)
             applied == {d \in Slots : s.commit < d /\ d <= top /\ Holds(s, d)}
             idx == IF applied = {} THEN s.index
                    ELSE [dlsn |-> Max(applied), term |-> s.journal[Max(applied)]]
             t == [s EXCEPT !.commit = top, !.index = idx]
  <1>1. apply_up_to(s, target) = t
    BY Zenon DEF apply_up_to
  <1>2. s.commit \in Int /\ S \in SUBSET Slots
    BY DEF Replica, Marks
  <1>3. /\ top \in {s.commit} \cup S /\ s.commit <= top /\ top \in Int
    <2> HIDE DEF S
    <2> QED BY <1>2, MaxOfSlots, Zenon
  <1>4. /\ top \in Marks /\ (top = s.commit \/ top <= target)
        /\ \A d \in Slots : s.commit < d /\ d <= top => Present(s, d)
        /\ top = s.commit \/ top \in Slots
    <2>1. CASE top = s.commit
      <3>1. s.commit \in Marks
        BY Zenon DEF Replica
      <3>2. \A d \in Slots : ~(s.commit < d /\ d <= s.commit)
        BY <1>2, SlotsFinite
      <3> HIDE DEF top
      <3> QED BY <2>1, <3>1, <3>2, Zenon
    <2>2. CASE top \in S
      <3> HIDE DEF top
      <3> QED BY <2>2, SlotsFinite, Zenon DEF Marks
    <2> HIDE DEF top, S
    <2> QED BY <1>3, <2>1, <2>2, Zenon
  <1> HIDE DEF top
  <1>5. idx \in [dlsn : Marks, term : Nat]
    <2>1. CASE applied = {}
      BY <2>1, Zenon DEF Replica
    <2>2. CASE applied # {}
      <3>0. applied \in SUBSET Slots
        BY Zenon
      <3>1. IsFiniteSet(applied) /\ applied \in SUBSET Int
        <4> HIDE DEF applied
        <4>1. IsFiniteSet(applied)
          BY <3>0, SlotsFinite, FS_Subset, Zenon
        <4> QED BY <3>0, <4>1, SlotsFinite
      <3>2. Max(applied) \in applied
        <4> HIDE DEF applied
        <4> QED BY <2>2, <3>1, MaxIsGreatest, Zenon
      <3>3. Max(applied) \in Slots /\ Holds(s, Max(applied))
        BY <3>2, Zenon
      <3>4. s.journal[Max(applied)] \in Cells /\ s.journal[Max(applied)] > 0
        <4> HIDE DEF applied
        <4> QED BY <3>3, Zenon DEF Replica, Holds
      <3>5. Max(applied) \in Marks
        <4> HIDE DEF applied
        <4> QED BY <3>3, SlotsFinite, Zenon DEF Marks
      <3>6. s.journal[Max(applied)] \in Nat
        <4> HIDE DEF applied
        <4> QED BY <3>4 DEF Cells, Missing, Empty
      <3> HIDE DEF applied
      <3> QED BY <2>2, <3>5, <3>6, Zenon
    <2> QED BY <2>1, <2>2, Zenon
  <1> HIDE DEF idx
  <1>6. /\ t \in Replica /\ t.commit = top
        /\ t.journal = s.journal /\ t.last = s.last /\ t.term = s.term
    BY <1>4, <1>5, Zenon DEF Replica
  <1> QED BY <1>1, <1>3, <1>4, <1>6, Zenon

\* Applying keeps the watermarks in order.
LEMMA ApplyMarked ==
    ASSUME NEW s \in Replica, NEW target \in Int, Marked(s)
    PROVE  Marked(apply_up_to(s, target))
  <1> DEFINE t == apply_up_to(s, target)
  <1>1. /\ t \in Replica /\ t.journal = s.journal /\ t.last = s.last
        /\ s.commit <= t.commit
        /\ \A d \in Slots : s.commit < d /\ d <= t.commit => Present(s, d)
        /\ t.commit = s.commit \/ t.commit \in Slots
    BY ApplyFacts, Zenon
  <1> HIDE DEF t
  <1>2. t.commit \in Int /\ s.commit \in Int /\ s.last \in Int
    BY <1>1 DEF Replica, Marks
  <1>3. \A d \in Slots : d <= t.commit => Present(s, d)
    BY <1>1, <1>2, SlotsFinite DEF Marked
  <1>4. t.commit <= s.last
    BY <1>1, <1>2, <1>3 DEF Marked
  <1>5. Marked(t)
    BY <1>1, <1>3, <1>4, Zenon DEF Marked, Present
  <1> QED BY <1>5, Zenon DEF t

\* Applying keeps the index the newest applied write.
LEMMA ApplyNewest ==
    ASSUME NEW s \in Replica, NEW target \in Int, Newest(s)
    PROVE  Newest(apply_up_to(s, target))
  <1> DEFINE t == apply_up_to(s, target)
             applied == {d \in Slots : s.commit < d /\ d <= t.commit /\ Holds(s, d)}
  <1>1. /\ t \in Replica /\ t.journal = s.journal /\ s.commit <= t.commit
    BY ApplyFacts, Zenon
  <1>2. t.index = IF applied = {} THEN s.index
                  ELSE [dlsn |-> Max(applied), term |-> s.journal[Max(applied)]]
    BY Zenon DEF apply_up_to, Replica
  <1> HIDE DEF t
  <1>3. \A d \in Slots : Holds(t, d) <=> Holds(s, d)
    BY <1>1, Zenon DEF Holds
  <1>4. s.commit \in Int /\ t.commit \in Int
    BY <1>1 DEF Replica, Marks
  <1>5. CASE applied = {}
    <2>1. t.index = s.index
      BY <1>2, <1>5, Zenon
    <2>2. \A d \in Slots : d <= t.commit /\ Holds(s, d) => d <= s.commit
      BY <1>4, <1>5, SlotsFinite
    <2>3. \A d \in Slots : d <= s.commit => d <= t.commit
      BY <1>1, <1>4, SlotsFinite
    <2>4. ASSUME s.index = NoCell, \A d \in Slots : d <= s.commit => ~Holds(s, d) PROVE Newest(t)
      BY <2>1, <2>2, <2>4, <1>3, Zenon DEF Newest
    <2>5. ASSUME NEW e \in Slots, e <= s.commit, Holds(s, e), s.index = [dlsn |-> e, term |-> s.journal[e]],
                 \A d \in Slots : d <= s.commit /\ Holds(s, d) => d <= e
          PROVE  Newest(t)
      BY <2>1, <2>2, <2>3, <2>5, <1>1, <1>3, Zenon DEF Newest
    <2>6. Newest(t)
      BY <2>4, <2>5, Zenon DEF Newest
    <2> QED BY <2>6 DEF t
  <1>6. CASE applied # {}
    <2>1. applied \in SUBSET Slots
      BY Zenon
    <2>2. Max(applied) \in applied /\ \A d \in applied : d <= Max(applied)
      <3> HIDE DEF applied
      <3>1. IsFiniteSet(applied)
        BY <2>1, SlotsFinite, FS_Subset, Zenon
      <3>2. applied \in SUBSET Int
        BY <2>1, SlotsFinite
      <3> QED BY <1>6, <3>1, <3>2, MaxIsGreatest, Zenon
    <2>3. PICK e \in Slots : e = Max(applied) /\ s.commit < e /\ e <= t.commit /\ Holds(s, e)
      BY <2>2, Zenon
    <2>4. \A d \in Slots : d <= t.commit /\ Holds(s, d) => d <= e
      <3> TAKE d \in Slots
      <3> HAVE d <= t.commit /\ Holds(s, d)
      <3>1. CASE s.commit < d
        BY <2>2, <2>3, <3>1, Zenon
      <3>2. CASE d <= s.commit
        BY <1>4, <2>3, <3>2, SlotsFinite
      <3> QED BY <1>4, <3>1, <3>2, SlotsFinite, SMTT(30)
    <2>5. t.index = [dlsn |-> e, term |-> t.journal[e]]
      BY <1>1, <1>2, <1>6, <2>3, Zenon
    <2>6. Newest(t)
      BY <1>3, <2>3, <2>4, <2>5, Zenon DEF Newest
    <2> QED BY <2>6, Zenon DEF t
  <1> QED BY <1>5, <1>6, Zenon
-----------------------------------------------------------------------------
\* do_write either refuses and changes nothing, or puts the term in the slot and applies.
LEMMA WriteFacts ==
    ASSUME NEW s \in Replica, NEW w \in Nat, NEW d \in Slots, NEW c \in Int
    PROVE  LET t == do_write(s, w, d, c)
           IN  /\ t \in Replica /\ t.term = s.term
               /\ s.commit <= t.commit /\ (t.commit = s.commit \/ t.commit <= c)
               /\ \A e \in Slots \ {d} : t.journal[e] = s.journal[e]
               /\ t.commit # s.commit => w = s.term
               /\ \/ /\ w = s.term /\ s.journal[d] # Empty /\ t.journal[d] = w
                     /\ WriteReply(s, w, d) = "acked"
                  \/ /\ w # s.term /\ t = s /\ WriteReply(s, w, d) = "stale"
                  \/ /\ s.journal[d] = Empty /\ t = s /\ WriteReply(s, w, d) = "refused"
               /\ w > 0 /\ Marked(s) => Marked(t)
               /\ w > 0 /\ Marked(s) /\ Newest(s) /\ s.journal[d] \in {Missing, Empty, w} => Newest(t)
  <1> DEFINE t == do_write(s, w, d, c)
             u == [s EXCEPT !.journal[d] = w, !.last = Max({@, d})]
  <1>1. CASE WriteReply(s, w, d) # "acked"
    <2>1. t = s
      BY <1>1, Zenon DEF do_write
    <2>2. s.commit \in Int
      BY DEF Replica, Marks
    <2> HIDE DEF t
    <2>3. \/ w # s.term /\ WriteReply(s, w, d) = "stale"
          \/ s.journal[d] = Empty /\ WriteReply(s, w, d) = "refused"
      BY <1>1, Zenon DEF WriteReply
    <2>4. /\ t \in Replica /\ t.term = s.term
          /\ s.commit <= t.commit /\ (t.commit = s.commit \/ t.commit <= c)
          /\ \A e \in Slots \ {d} : t.journal[e] = s.journal[e]
          /\ t.commit # s.commit => w = s.term
          /\ \/ /\ w = s.term /\ s.journal[d] # Empty /\ t.journal[d] = w
                /\ WriteReply(s, w, d) = "acked"
             \/ /\ w # s.term /\ t = s /\ WriteReply(s, w, d) = "stale"
             \/ /\ s.journal[d] = Empty /\ t = s /\ WriteReply(s, w, d) = "refused"
          /\ w > 0 /\ Marked(s) => Marked(t)
          /\ w > 0 /\ Marked(s) /\ Newest(s) /\ s.journal[d] \in {Missing, Empty, w} => Newest(t)
      BY <2>1, <2>2, <2>3
    <2> QED BY <2>4, Zenon DEF t
  <1>2. CASE WriteReply(s, w, d) = "acked"
    <2>1. t = apply_up_to(u, c) /\ w = s.term /\ s.journal[d] # Empty
      BY <1>2, Zenon DEF do_write, WriteReply
    <2>2. /\ Max({s.last, d}) \in {s.last, d} /\ Max({s.last, d}) \in Marks
          /\ s.last <= Max({s.last, d}) /\ d <= Max({s.last, d})
      BY RaiseLast, Zenon
    <2>3. /\ u \in Replica /\ u.journal = [s.journal EXCEPT ![d] = w]
          /\ u.last = Max({s.last, d})
          /\ u.commit = s.commit /\ u.index = s.index /\ u.term = s.term
      <3>1. w \in Cells
        BY Zenon DEF Cells
      <3> QED BY <2>2, <3>1, Zenon DEF Replica
    <2>4. /\ u.journal[d] = w /\ \A e \in Slots \ {d} : u.journal[e] = s.journal[e]
      BY <2>3, Zenon DEF Replica
    <2>5. /\ t \in Replica /\ t.term = s.term /\ t.journal = u.journal
          /\ s.commit <= t.commit /\ (t.commit = s.commit \/ t.commit <= c)
      <3> HIDE DEF u
      <3>1. LET v == apply_up_to(u, c)
            IN  /\ v \in Replica /\ v.journal = u.journal /\ v.term = u.term
                /\ u.commit <= v.commit /\ (v.commit = u.commit \/ v.commit <= c)
        BY <2>3, ApplyFacts
      <3> HIDE DEF t
      <3> QED BY <2>1, <2>3, <3>1, Zenon
    <2>6. ASSUME w > 0, Marked(s) PROVE Marked(t)
      <3>1. \A e \in Slots : Present(u, e) <=> e = d \/ Present(s, e)
        BY <2>4, <2>6 DEF Present, Missing
      <3>2. s.commit \in Int /\ s.last \in Int /\ u.last \in Int
        <4> HIDE DEF u
        <4> QED BY <2>3 DEF Replica, Marks
      <3>3. Marked(u)
        <4> HIDE DEF u
        <4> QED BY <2>2, <2>3, <2>6, <3>1, <3>2, SlotsFinite, SMTT(30) DEF Marked
      <3> HIDE DEF u
      <3> QED BY <2>1, <2>3, <3>3, ApplyMarked, Zenon
    <2>7. ASSUME w > 0, Marked(s), Newest(s), s.journal[d] \in {Missing, Empty, w} PROVE Newest(t)
      <3>1. \A e \in Slots : e <= s.commit => u.journal[e] = s.journal[e]
        <4>1. d <= s.commit => s.journal[d] = w
          BY <2>1, <2>7, Zenon DEF Marked, Present
        <4> HIDE DEF u
        <4> QED BY <2>4, <4>1, Zenon
      <3>2. Newest(u)
        <4> HIDE DEF u
        <4> QED BY <2>3, <2>7, <3>1, Zenon DEF Newest, Holds
      <3> HIDE DEF u
      <3> QED BY <2>1, <2>3, <3>2, ApplyNewest, SMTT(30)
    <2> HIDE DEF t, u
    <2>8. /\ t \in Replica /\ t.term = s.term
          /\ s.commit <= t.commit /\ (t.commit = s.commit \/ t.commit <= c)
          /\ \A e \in Slots \ {d} : t.journal[e] = s.journal[e]
          /\ w = s.term /\ s.journal[d] # Empty /\ t.journal[d] = w
      BY <2>1, <2>4, <2>5, Zenon
    <2> QED BY <1>2, <2>6, <2>7, <2>8, Zenon DEF t
  <1> QED BY <1>1, <1>2, Zenon

\* do_keep_alive applies when the term matches, and otherwise changes nothing.
LEMMA KeepAliveFacts ==
    ASSUME NEW s \in Replica, NEW w \in Nat, NEW c \in Int
    PROVE  LET t == do_keep_alive(s, w, c)
           IN  /\ t \in Replica /\ t.journal = s.journal /\ t.last = s.last /\ t.term = s.term
               /\ s.commit <= t.commit /\ (t.commit = s.commit \/ t.commit <= c)
               /\ t.commit # s.commit => w = s.term
               /\ Marked(s) => Marked(t)
               /\ Newest(s) => Newest(t)
  <1>1. CASE w # s.term
    <2>1. do_keep_alive(s, w, c) = s /\ s.commit \in Int
      BY <1>1 DEF do_keep_alive, Replica, Marks
    <2> QED BY <2>1
  <1>2. CASE w = s.term
    <2>1. do_keep_alive(s, w, c) = apply_up_to(s, c)
      BY <1>2, Zenon DEF do_keep_alive
    <2> QED BY <1>2, <2>1, ApplyFacts, ApplyMarked, ApplyNewest, SMTT(30)
  <1> QED BY <1>1, <1>2, Zenon

\* The verdict touches one slot: a tombstone replaces what is there, a copy only fills a hole.
LEMMA DecideFacts ==
    ASSUME NEW s \in Replica, NEW d \in Slots, NEW v \in Cells, v # Missing
    PROVE  LET t == Decide(s, d, v)
           IN  /\ t \in Replica /\ t.term = s.term /\ t.commit = s.commit /\ t.index = s.index
               /\ \A e \in Slots \ {d} : t.journal[e] = s.journal[e]
               /\ t.journal[d] = IF v # Empty /\ Present(s, d) THEN s.journal[d] ELSE v
               /\ Marked(s) => Marked(t)
               /\ Newest(s) /\ Marked(s) /\ (v = Empty => ~Holds(s, d)) => Newest(t)
  <1> DEFINE t == Decide(s, d, v)
             u == [s EXCEPT !.journal[d] = v, !.last = Max({@, d})]
  <1>1. CASE v # Empty /\ Present(s, d)
    <2>1. t = s
      BY <1>1, Zenon DEF Decide, cold_install_slot
    <2> QED BY <1>1, <2>1, Zenon
  <1>2. CASE ~(v # Empty /\ Present(s, d))
    <2>1. t = u
      BY <1>2, Zenon DEF Decide, cold_install_slot, cold_mark_empty
    <2>2. /\ u \in Replica /\ u.journal = [s.journal EXCEPT ![d] = v]
          /\ u.last = Max({s.last, d})
          /\ u.commit = s.commit /\ u.index = s.index /\ u.term = s.term
      BY RaiseLast, Zenon DEF Replica
    <2>3. /\ u.journal[d] = v /\ \A e \in Slots \ {d} : u.journal[e] = s.journal[e]
      BY <2>2, Zenon DEF Replica
    <2> HIDE DEF u
    <2>4. ASSUME Marked(s) PROVE Marked(u)
      <3>1. \A e \in Slots : Present(u, e) <=> e = d \/ Present(s, e)
        BY <2>3, Zenon DEF Present, Missing
      <3>2. s.commit \in Int /\ s.last \in Int /\ u.last \in Int
        BY <2>2 DEF Replica, Marks
      <3> QED BY <2>2, <2>4, <3>1, <3>2, RaiseLast, SlotsFinite, SMTT(30) DEF Marked
    <2>5. ASSUME Newest(s), Marked(s), v = Empty => ~Holds(s, d) PROVE Newest(u)
      <3>1. d <= s.commit => Present(s, d)
        BY <2>5, Zenon DEF Marked
      <3>2. \A e \in Slots : e <= s.commit => /\ Holds(u, e) <=> Holds(s, e)
                                              /\ Holds(s, e) => u.journal[e] = s.journal[e]
        BY <1>2, <2>3, <2>5, <3>1, SMTT(30) DEF Holds, Empty
      <3> QED BY <2>2, <2>5, <3>2, Zenon DEF Newest
    <2>6. u.journal[d] = IF v # Empty /\ Present(s, d) THEN s.journal[d] ELSE v
      BY <1>2, <2>3, Zenon
    <2> HIDE DEF t
    <2>7. /\ t \in Replica /\ t.term = s.term /\ t.commit = s.commit /\ t.index = s.index
          /\ \A e \in Slots \ {d} : t.journal[e] = s.journal[e]
          /\ t.journal[d] = IF v # Empty /\ Present(s, d) THEN s.journal[d] ELSE v
          /\ Marked(s) => Marked(t)
          /\ Newest(s) /\ Marked(s) /\ (v = Empty => ~Holds(s, d)) => Newest(t)
      BY <2>1, <2>2, <2>3, <2>4, <2>5, <2>6, Zenon
    <2> QED BY <2>7, Zenon DEF t
  <1> QED BY <1>1, <1>2, Zenon

\* The client's frontier: F is the login dLSN or a slot, and every slot of the session up to it is resolved.
LEMMA FrontierFacts ==
    ASSUME TypeOK
    PROVE  /\ F \in Marks /\ F >= sess.L /\ (F = sess.L \/ F \in Slots)
           /\ \A e \in Slots : sess.L < e /\ e <= F => outcome[e] \in Resolved
  <1> DEFINE S == {x \in Slots : x > sess.L /\ \A d \in Slots :
                                   sess.L < d /\ d <= x => outcome[d] \in Resolved}
  <1>1. S \in SUBSET Slots /\ sess.L \in Int /\ sess.L \in Marks
    BY DEF TypeOK, Marks
  <1>2. F = Max({sess.L} \cup S)
    BY Zenon DEF F
  <1>3. F \in {sess.L} \cup S /\ sess.L <= F /\ F \in Int
    <2> HIDE DEF S
    <2> QED BY <1>1, <1>2, MaxOfSlots, Zenon
  <1>4. CASE F = sess.L
    BY <1>1, <1>4, SlotsFinite
  <1>5. CASE F \in S
    BY <1>1, <1>3, <1>5, SlotsFinite, Zenon DEF Marks
  <1> HIDE DEF S
  <1> QED BY <1>3, <1>4, <1>5, Zenon

\* The want of a round is a failed slot, the highest one.
LEMMA WantFacts ==
    ASSUME TypeOK
    PROVE  /\ Want \in Marks
           /\ Want >= 0 => Want \in Slots /\ outcome[Want] = "failed"
  <1> DEFINE S == {d \in Slots : outcome[d] = "failed"}
  <1>1. S \in SUBSET Slots /\ -1 \in Int
    OBVIOUS
  <1>2. Want = Max({-1} \cup S)
    BY Zenon DEF Want
  <1>3. Want \in {-1} \cup S
    <2> HIDE DEF S
    <2> QED BY <1>1, <1>2, MaxOfSlots, Zenon
  <1> QED BY <1>3, SlotsFinite DEF Marks

\* The highest acknowledged slot, or the login dLSN.
LEMMA HaFacts ==
    ASSUME TypeOK
    PROVE  /\ Ha \in Int /\ Ha >= sess.L
           /\ Ha = sess.L \/ (Ha \in Slots /\ outcome[Ha] = "acked")
           /\ \A d \in Slots : outcome[d] = "acked" => d <= Ha
  <1> DEFINE S == {d \in Slots : outcome[d] = "acked"}
  <1>1. S \in SUBSET Slots /\ sess.L \in Int
    BY DEF TypeOK, Marks
  <1>2. Ha = Max({sess.L} \cup S)
    BY Zenon DEF Ha
  <1>3. Ha \in {sess.L} \cup S /\ sess.L <= Ha /\ Ha \in Int /\ \A d \in S : d <= Ha
    <2> HIDE DEF S
    <2> QED BY <1>1, <1>2, MaxOfSlots, Zenon
  <1> QED BY <1>3, Zenon

\* The lowest commit and the highest last of the live set, which has the leader: a finite set has both.
LEMMA LiveFacts ==
    ASSUME TypeOK, up[Leader]
    PROVE  /\ Min({rep[r].commit : r \in Live}) \in Marks
           /\ \A q \in Live : Min({rep[r].commit : r \in Live}) <= rep[q].commit
           /\ Max({rep[r].last : r \in Live}) \in Marks
           /\ \A q \in Live : rep[q].last <= Max({rep[r].last : r \in Live})
  <1> DEFINE C == {rep[r].commit : r \in Live}
             M == {rep[r].last : r \in Live}
  <1>1. Live \subseteq Replicas /\ Leader \in Live
    BY ClusterAssumption, Zenon DEF Live
  <1>2. C # {} /\ C \in SUBSET Marks /\ C \in SUBSET Int
    BY <1>1 DEF TypeOK, Replica, Marks
  <1>3. M # {} /\ M \in SUBSET Marks /\ M \in SUBSET Int
    BY <1>1 DEF TypeOK, Replica, Marks
  <1>4. IsFiniteSet(Live)
    BY <1>1, ClusterAssumption, FS_Subset, Zenon
  <1>5. IsFiniteSet(C)
    <2> DEFINE f == [r \in Live |-> rep[r].commit]
    <2>1. f \in Surjection(Live, C)
      BY Zenon DEF Surjection
    <2> HIDE DEF f, C
    <2> QED BY <1>4, <2>1, FS_Surjection, Zenon
  <1>6. IsFiniteSet(M)
    <2> DEFINE f == [r \in Live |-> rep[r].last]
    <2>1. f \in Surjection(Live, M)
      BY Zenon DEF Surjection
    <2> HIDE DEF f, M
    <2> QED BY <1>4, <2>1, FS_Surjection
  <1>7. \A r \in Live : rep[r].commit \in C /\ rep[r].last \in M
    BY Zenon
  <1> HIDE DEF C, M
  <1>8. Min(C) \in C /\ \A x \in C : Min(C) <= x
    BY <1>2, <1>5, MinIsLeast, Zenon
  <1>9. Max(M) \in M /\ \A x \in M : x <= Max(M)
    BY <1>3, <1>6, MaxIsGreatest, Zenon
  <1>10. /\ Min(C) \in Marks /\ \A r \in Live : Min(C) <= rep[r].commit
         /\ Max(M) \in Marks /\ \A r \in Live : rep[r].last <= Max(M)
    BY <1>2, <1>3, <1>7, <1>8, <1>9, Zenon
  <1> QED BY <1>10, Zenon DEF C, M
-----------------------------------------------------------------------------
\* The contracts hold: the operations of the replica, the quorums and the client's marks keep them.
LEMMA ContractsHold == Contracts
  <1>1. ApplyContract
    BY ApplyFacts, ApplyMarked, ApplyNewest, ZenonT(30) DEF ApplyContract
  <1>2. WriteContract
    BY WriteFacts, Zenon DEF WriteContract
  <1>3. KeepAliveContract
    BY KeepAliveFacts, Zenon DEF KeepAliveContract
  <1>4. DecideContract
    BY DecideFacts DEF DecideContract
  <1>5. QuorumContract
    BY Intersect, Superset, Zenon DEF QuorumContract
  <1>6. FrontierContract /\ WantContract
    BY FrontierFacts, WantFacts, Zenon DEF FrontierContract, WantContract
  <1>7. LiveContract
    BY LiveFacts, Zenon DEF LiveContract
  <1> QED BY <1>1, <1>2, <1>3, <1>4, <1>5, <1>6, <1>7, ZenonT(30) DEF Contracts

\* Fresh replicas and no session: nothing is present, applied, acknowledged or on its way.
LEMMA InitIInv == Init => IInv
  <1> SUFFICES ASSUME Init PROVE IInv
    BY Zenon
  <1>1. /\ Fresh \in Replica /\ Fresh.commit = -1 /\ Fresh.last = -1 /\ Fresh.term = 0 /\ Fresh.index = NoCell
        /\ \A d \in Slots : Fresh.journal[d] = Missing
    BY Zenon DEF Fresh, Replica, NoCell, Marks, Cells
  <1>2. \A r \in Replicas : rep[r] = Fresh
    BY Zenon DEF Init
  <1>3. /\ round.pc = "idle" /\ login.pc = "idle" /\ sess.term = 0 /\ sess.L = -1 /\ sess.admitted = FALSE
        /\ term = 0 /\ missed = {} /\ excluded = {} /\ late = {} /\ acked = {} /\ open = {}
        /\ \A d \in Slots : outcome[d] = "none" /\ hdr[d] = -1 /\ \A r \in Replicas : leg[d][r] = "none"
    BY Zenon DEF Init, NoRound, NoLogin, NoSession
  <1>4. TypeOK
    <2>1. rep \in [Replicas -> Replica]
      BY <1>1, Zenon DEF Init
    <2>2. sess \in [term : Nat, L : Marks, admitted : BOOLEAN]
      BY Zenon DEF Init, NoSession, Marks
    <2>3. round \in [pc : {"idle", "peek", "mark", "sync", "reply"}, term : Nat, upto : Marks,
                  live : SUBSET Replicas, d : Nat \cup {-1}, verdict : Cells, empties : SUBSET Slots]
      BY Zenon DEF Init, NoRound, Marks, Cells
    <2>4. login \in [pc : {"idle", "sync", "term", "truncate"}, live : SUBSET Replicas, rs : Marks]
      BY Zenon DEF Init, NoLogin, Marks
    <2>5. outcome \in [Slots -> Outcomes] /\ hdr \in [Slots -> Marks] /\ leg \in [Slots -> [Replicas -> LegStates]]
      BY Zenon DEF Init, Outcomes, Marks, LegStates
    <2>6. up \in [Replicas -> BOOLEAN]
      BY Zenon DEF Init
    <2> QED BY <1>3, <2>1, <2>2, <2>3, <2>4, <2>5, <2>6, ZenonT(30) DEF TypeOK
  <1>5. \A d \in Slots : d >= 0
    BY SlotsFinite
  <1>6. AllMarked
    BY <1>1, <1>2, <1>5, SlotsFinite DEF AllMarked, Marked, Present
  <1>7. Exclusive /\ Verdicts
    BY <1>3, Zenon DEF Exclusive, Scanning, Verdicts
  <1>8. Terms
    BY <1>1, <1>2, <1>3 DEF Terms, Current
  <1>9. Ordered /\ LegsTell /\ Refusals /\ AckedHeld
    BY <1>3, Zenon DEF Ordered, LegsTell, Refusals, AckedHeld
  <1>10. Headers
    BY <1>3, <1>5, SlotsFinite DEF Headers
  <1>11. OneWriter
    BY <1>1, <1>2, <1>3, Zenon DEF OneWriter, Current
  <1>12. Tombstones
    BY <1>1, <1>2 DEF Tombstones, Missing, Empty
  <1>13. AppliedIsDecided
    BY <1>1, <1>2, <1>5, SlotsFinite, SMTT(30) DEF AppliedIsDecided
  <1>14. IndexNewest
    BY <1>1, <1>2, <1>5, SlotsFinite, SMTT(30) DEF IndexNewest, Core, Newest
  <1> QED BY <1>4, <1>6, <1>7, <1>8, <1>9, <1>10, <1>11, <1>12, <1>13, <1>14, ZenonT(30) DEF IInv, Parts

\* Every step keeps the invariant.
LEMMA NextIInv == OneQueue /\ ~StaleReturns /\ IInv /\ [Next]_vars => IInv'
  <1> SUFFICES ASSUME OneQueue, ~StaleReturns, IInv, [Next]_vars PROVE IInv'
    BY Zenon
  <1>1. CASE Write
    BY <1>1, ContractsHold, WriteStep, Zenon
  <1>2. ASSUME NEW d \in Slots, NEW r \in Replicas, Deliver(d, r) \/ Drop(d, r) \/ TimeOut(d, r) PROVE IInv'
    BY <1>2, ContractsHold, DeliverStep, DropStep, TimeOutStep, Zenon
  <1>3. ASSUME NEW m \in late, late_write(m) PROVE IInv'
    BY <1>3, ContractsHold, LateWriteStep, Zenon
  <1>4. ASSUME NEW d \in Slots, WriteDone(d) PROVE IInv'
    BY <1>4, ContractsHold, WriteDoneStep, Zenon
  <1>5. ASSUME NEW r \in Replicas, KeepAlive(r) \/ GoDown(r) \/ ComeUp(r) PROVE IInv'
    BY <1>5, ContractsHold, KeepAliveStep, UpDownStep, Zenon
  <1>6. CASE RoundBegin \/ RoundPeek \/ RoundMark \/ RoundSync \/ RoundReply
    BY <1>6, ContractsHold, RoundBeginStep, RoundPeekStep, RoundMarkStep, RoundSyncStep, RoundReplyStep, Zenon
  <1>7. CASE LoginBegin \/ LoginSync \/ LoginTerm \/ LoginTruncate \/ Probe \/ Logout
    BY <1>7, ContractsHold, LoginBeginStep, LoginSyncStep, LoginTermStep, LoginTruncateStep, ProbeStep, LogoutStep, Zenon
  <1>8. CASE UNCHANGED vars
    BY <1>8, StutterStep, Zenon
  <1> QED BY <1>1, <1>2, <1>3, <1>4, <1>5, <1>6, <1>7, <1>8, ZenonT(30) DEF Next

\* The inductive invariant holds throughout, when the cluster runs on one queue and a replica that missed a
\* login is resynced before it returns.
THEOREM Inductive ==
    ASSUME OneQueue, ~StaleReturns
    PROVE  Spec => []IInv
  <1>1. Init => IInv
    BY InitIInv, Zenon
  <1>2. IInv /\ [Next]_vars => IInv'
    BY NextIInv, Zenon
  <1> QED BY <1>1, <1>2, PTL DEF Spec
-----------------------------------------------------------------------------
\* What each replica has applied is in its journal: apply_up_to() stalls at the first hole.
THEOREM AppliedPresent ==
    ASSUME OneQueue, ~StaleReturns
    PROVE  Spec => []AppliedIsPresent
  <1>1. IInv => AppliedIsPresent
    BY DEF IInv, Parts, AllMarked, Marked, AppliedIsPresent
  <1> QED BY <1>1, Inductive, PTL

\* A write acknowledged to its caller is in the journals of a quorum from then on, whatever rounds, logins,
\* timeouts and late arrivals follow.
THEOREM AckedStaysHeld ==
    ASSUME OneQueue, ~StaleReturns
    PROVE  Spec => []AckedHeld
  <1>1. IInv => AckedHeld
    BY DEF IInv, Parts
  <1> QED BY <1>1, Inductive, PTL

\* While no login deposes the session, no replica applies a slot of it that the client has not resolved.
THEOREM AppliedDecided ==
    ASSUME OneQueue, ~StaleReturns
    PROVE  Spec => []AppliedIsDecided
  <1>1. IInv => AppliedIsDecided
    BY DEF IInv, Parts
  <1> QED BY <1>1, Inductive, PTL

\* A slot the client counts as Empty is in no journal of the core.
LEMMA EmptyAbsent == IInv => EmptyHasNoCopy
  <1> SUFFICES ASSUME IInv, NEW d \in Slots, outcome[d] = "empty", NEW r \in Core PROVE ~Holds(rep[r], d)
    BY Zenon DEF EmptyHasNoCopy, Core
  <1>1. r \in Current /\ Leader \in Replicas
    BY ClusterAssumption, Zenon DEF Core, Current
  <1>2. CASE rep[Leader].journal[d] = Empty
    <2>1. rep[r].journal[d] = Empty
      BY <1>1, <1>2 DEF IInv, Parts, Tombstones
    <2> QED BY <2>1 DEF Holds, Empty
  <1>3. CASE \A x \in Current : ~Holds(rep[x], d) /\ leg[d][x] \notin {"wire", "timeout"}
    BY <1>1, <1>3, Zenon
  <1> QED BY <1>2, <1>3 DEF IInv, Parts, Refusals

\* An Empty verdict, by refusals or by a round, is final: no late leg puts the write back.
THEOREM EmptyStaysAbsent ==
    ASSUME OneQueue, ~StaleReturns
    PROVE  Spec => []EmptyHasNoCopy
  <1> QED BY EmptyAbsent, Inductive, PTL

\* Two core replicas agree on every slot that both have applied.
LEMMA CoreAgrees ==
    ASSUME IInv, NEW r \in Core, NEW s \in Core, NEW d \in Slots, d <= rep[r].commit, d <= rep[s].commit
    PROVE  rep[r].journal[d] = rep[s].journal[d]
  <1> USE DEF IInv, Parts
  <1>1. r \in Replicas /\ s \in Replicas /\ r \in Current /\ s \in Current
    BY Zenon DEF Core, Current
  <1>2. /\ rep[r].journal[d] # Missing /\ rep[s].journal[d] # Missing
        /\ rep[r].journal[d] \in Cells /\ rep[s].journal[d] \in Cells
    BY <1>1, SMTT(30) DEF AllMarked, Marked, Present, TypeOK, Replica
  <1>3. CASE rep[r].journal[d] = Empty \/ rep[s].journal[d] = Empty
    BY <1>1, <1>3, SMTT(30) DEF Tombstones
  <1>4. CASE rep[r].journal[d] # Empty /\ rep[s].journal[d] # Empty
    <2>1. Holds(rep[r], d) /\ Holds(rep[s], d)
      BY <1>2, <1>4 DEF Cells, Missing, Empty, Holds
    <2> QED BY <1>1, <2>1, ZenonT(30) DEF OneWriter
  <1> QED BY <1>3, <1>4, Zenon

\* The index is a function of the applied journal.
LEMMA SameIndex ==
    ASSUME NEW a \in Replica, NEW b \in Replica, Newest(a), Newest(b), a.commit = b.commit,
           \A d \in Slots : d <= a.commit => a.journal[d] = b.journal[d]
    PROVE  a.index = b.index
  <1>1. \A d \in Slots : d <= a.commit => (Holds(a, d) <=> Holds(b, d))
    BY Zenon DEF Holds
  <1>2. CASE \A d \in Slots : d <= a.commit => ~Holds(a, d)
    <2>1. a.index = NoCell
      <3>1. ~\E e \in Slots : e <= a.commit /\ Holds(a, e)
        BY <1>2, Zenon
      <3> QED BY <3>1, Zenon DEF Newest
    <2>2. ~\E e \in Slots : e <= b.commit /\ Holds(b, e)
      BY <1>1, <1>2, Zenon
    <2>3. b.index = NoCell
      BY <2>2, Zenon DEF Newest
    <2> QED BY <2>1, <2>3, Zenon
  <1>3. CASE \E d \in Slots : d <= a.commit /\ Holds(a, d)
    <2>1. PICK e \in Slots : /\ e <= a.commit /\ Holds(a, e) /\ a.index = [dlsn |-> e, term |-> a.journal[e]]
                             /\ \A d \in Slots : d <= a.commit /\ Holds(a, d) => d <= e
      BY <1>3, Zenon DEF Newest
    <2>2. PICK f \in Slots : /\ f <= b.commit /\ Holds(b, f) /\ b.index = [dlsn |-> f, term |-> b.journal[f]]
                             /\ \A d \in Slots : d <= b.commit /\ Holds(b, d) => d <= f
      BY <1>1, <1>3, Zenon DEF Newest
    <2>3. e = f
      <3>1. e <= f /\ f <= e
        BY <1>1, <2>1, <2>2, ZenonT(30)
      <3> QED BY <3>1, SlotsFinite
    <2> QED BY <2>1, <2>2, <2>3, Zenon
  <1> QED BY <1>2, <1>3, Zenon

\* Replicas that took part in every round and login are state machines over one log.
THEOREM AppliedAgreed ==
    ASSUME OneQueue, ~StaleReturns
    PROVE  Spec => []AppliedAgree
  <1>1. IInv => AppliedAgree
    <2> SUFFICES ASSUME IInv, NEW r \in Core, NEW s \in Core
                 PROVE  /\ \A d \in Slots : d <= rep[r].commit /\ d <= rep[s].commit =>
                             rep[r].journal[d] = rep[s].journal[d]
                        /\ rep[r].commit = rep[s].commit => rep[r].index = rep[s].index
      BY Zenon DEF AppliedAgree, Core
    <2>1. \A d \in Slots : d <= rep[r].commit /\ d <= rep[s].commit => rep[r].journal[d] = rep[s].journal[d]
      BY CoreAgrees, Zenon
    <2>2. ASSUME rep[r].commit = rep[s].commit PROVE rep[r].index = rep[s].index
      <3>1. rep[r] \in Replica /\ rep[s] \in Replica /\ Newest(rep[r]) /\ Newest(rep[s])
        BY DEF IInv, Parts, TypeOK, IndexNewest, Core
      <3>2. \A d \in Slots : d <= rep[r].commit => rep[r].journal[d] = rep[s].journal[d]
        BY <2>1, <2>2, Zenon
      <3> QED BY <2>2, <3>1, <3>2, SameIndex, ZenonT(30)
    <2> QED BY <2>1, <2>2, Zenon
  <1> QED BY <1>1, Inductive, PTL
-----------------------------------------------------------------------------
\* An acknowledged slot is a tombstone nowhere: two quorums would meet.
LEMMA AckedNotEmpty ==
    ASSUME IInv, NEW d \in Slots, outcome[d] = "acked", NEW r \in Replicas
    PROVE  rep[r].journal[d] # Empty
  <1> USE DEF IInv, Parts
  <1>1. SUFFICES ASSUME rep[r].journal[d] = Empty PROVE FALSE
    BY Zenon
  <1>2. PICK Q \in SUBSET Replicas : Majority(Q) /\ \A q \in Q : rep[q].journal[d] = Empty
    BY <1>1 DEF Tombstones
  <1> DEFINE a == [slot |-> d, term |-> sess.term]
             H == {x \in Replicas : rep[x].journal[d] = sess.term}
  <1>3. a \in acked /\ sess.term > 0
    BY DEF Ordered
  <1>4. Majority(H)
    <2>1. Cardinality({x \in Replicas : rep[x].journal[a.slot] = a.term}) >= Quorum
      BY <1>3, Zenon DEF AckedHeld
    <2>2. a.slot = d /\ a.term = sess.term
      BY Zenon
    <2> QED BY <2>1, <2>2, Zenon DEF Majority
  <1>5. PICK x \in Replicas : x \in H /\ x \in Q
    <2> HIDE DEF H
    <2> QED BY <1>2, <1>4, Intersect, Zenon
  <1> QED BY <1>2, <1>3, <1>5 DEF Empty

\* The client's horizon is the higher of its frontier and its highest acknowledged slot.
LEMMA HorizonFacts ==
    ASSUME TypeOK
    PROVE  /\ Max({F, Ha}) \in Int /\ F <= Max({F, Ha}) /\ Ha <= Max({F, Ha})
           /\ Max({F, Ha}) = F \/ Max({F, Ha}) = Ha
  <1>1. F \in Int /\ Ha \in Int
    BY FrontierFacts, HaFacts DEF Marks
  <1> QED BY <1>1, MaxOfTwo, Zenon

\* read_range answers with the highest slot of the tail, or with the index when the tail is empty.
LEMMA ReadRangeFacts ==
    ASSUME NEW s \in Replica, NEW H \in Int
    PROVE  \/ /\ read_range(s, H) = s.index
              /\ \A d \in Slots : s.commit < d /\ d <= H => ~Holds(s, d)
           \/ \E e \in Slots : /\ s.commit < e /\ e <= H /\ Holds(s, e)
                               /\ read_range(s, H) = [dlsn |-> e, term |-> s.journal[e]]
                               /\ \A d \in Slots : s.commit < d /\ d <= H /\ Holds(s, d) => d <= e
  <1> DEFINE tail == {d \in Slots : s.commit < d /\ d <= H /\ Holds(s, d)}
  <1>1. read_range(s, H) = IF tail = {} THEN s.index ELSE [dlsn |-> Max(tail), term |-> s.journal[Max(tail)]]
    BY Zenon DEF read_range
  <1>2. CASE tail = {}
    BY <1>1, <1>2, Zenon
  <1>3. CASE tail # {}
    <2>1. tail \in SUBSET Slots
      BY Zenon
    <2>2. Max(tail) \in tail /\ \A d \in tail : d <= Max(tail)
      <3> HIDE DEF tail
      <3>1. IsFiniteSet(tail)
        BY <2>1, SlotsFinite, FS_Subset, Zenon
      <3>2. tail \in SUBSET Int
        BY <2>1, SlotsFinite
      <3> QED BY <1>3, <3>1, <3>2, MaxIsGreatest, ZenonT(30)
    <2>3. PICK e \in Slots : e = Max(tail) /\ s.commit < e /\ e <= H /\ Holds(s, e)
      BY <2>2, Zenon
    <2>4. \A d \in Slots : s.commit < d /\ d <= H /\ Holds(s, d) => d <= e
      BY <2>2, <2>3, Zenon
    <2>5. read_range(s, H) = [dlsn |-> e, term |-> s.journal[e]]
      BY <1>1, <1>3, <2>3, Zenon
    <2> QED BY <2>3, <2>4, <2>5, Zenon
  <1> QED BY <1>2, <1>3, Zenon

\* A read at the horizon: every slot of the session above the answer, applied or in the tail, is resolved and
\* not acknowledged, so it is Empty and the member does not have it.
LEMMA ReadsNewest ==
    ASSUME OneQueue, IInv, Scheduled, sess.admitted, sess.term = term,
           NEW r \in Core, rep[r].term = term
    PROVE  LET newest == do_read(rep[r], F, Max({F, Ha}))
           IN  /\ Ha > sess.L /\ (leg[Ha][r] = "acked" \/ rep[r].commit >= Ha) =>
                     newest = [dlsn |-> Ha, term |-> sess.term]
               /\ Ha = sess.L /\ rep[r].commit >= sess.L => newest.dlsn <= sess.L
  <1> USE DEF IInv, Parts
  <1> DEFINE H == Max({F, Ha})
             u == apply_up_to(rep[r], F)
             newest == read_range(u, H)
             ha == Ha
             f == F
  <1>1. r \in Replicas /\ r \in Current /\ rep[r] \in Replica /\ sess.term > 0
    BY DEF Core, Current, TypeOK, Ordered
  <1>2. /\ f \in Int /\ ha \in Int /\ sess.L \in Int /\ sess.L \in Marks /\ rep[r].commit \in Int
        /\ f >= sess.L /\ ha >= sess.L
        /\ H \in Int /\ f <= H /\ ha <= H /\ (H = f \/ H = ha)
        /\ ha = sess.L \/ (ha \in Slots /\ outcome[ha] = "acked")
        /\ \A d \in Slots : outcome[d] = "acked" => d <= ha
        /\ \A d \in Slots : sess.L < d /\ d <= f => outcome[d] \in Resolved
    <2>1. sess.L \in Int /\ sess.L \in Marks /\ rep[r].commit \in Int
      BY <1>1, ReplicaFacts, MarkFacts, ZenonT(30) DEF TypeOK
    <2>2. f \in Int /\ f >= sess.L /\ \A d \in Slots : sess.L < d /\ d <= f => outcome[d] \in Resolved
      BY FrontierFacts, MarkFacts, Zenon
    <2>3. /\ ha \in Int /\ ha >= sess.L /\ (ha = sess.L \/ (ha \in Slots /\ outcome[ha] = "acked"))
          /\ \A d \in Slots : outcome[d] = "acked" => d <= ha
      BY HaFacts
    <2>4. H \in Int /\ f <= H /\ ha <= H /\ (H = f \/ H = ha)
      BY HorizonFacts
    <2> HIDE DEF H, f, ha
    <2> QED BY <2>1, <2>2, <2>3, <2>4, ZenonT(30)
  <1>3. /\ u \in Replica /\ u.journal = rep[r].journal /\ rep[r].commit <= u.commit
        /\ u.commit = rep[r].commit \/ u.commit <= f
        /\ Newest(u)
    <2>1. Newest(rep[r])
      BY DEF IndexNewest
    <2>2. u = apply_up_to(rep[r], f)
      BY Zenon
    <2> HIDE DEF f, u, IInv, Parts
    <2>3. LET t == apply_up_to(rep[r], f)
          IN  /\ t \in Replica /\ t.journal = rep[r].journal /\ rep[r].commit <= t.commit
              /\ t.commit = rep[r].commit \/ t.commit <= f
      BY <1>1, <1>2, ApplyFacts, Zenon
    <2>4. Newest(apply_up_to(rep[r], f))
      BY <1>1, <1>2, <2>1, ApplyNewest, Zenon
    <2> QED BY <2>2, <2>3, <2>4, Zenon
  <1>4. do_read(rep[r], F, Max({F, Ha})) = newest
    BY Zenon DEF do_read
  <1> HIDE DEF H, u, f
  <1>5. \/ newest = u.index /\ \A d \in Slots : u.commit < d /\ d <= H => ~Holds(u, d)
        \/ \E e \in Slots : /\ u.commit < e /\ e <= H /\ Holds(u, e)
                            /\ newest = [dlsn |-> e, term |-> u.journal[e]]
                            /\ \A d \in Slots : u.commit < d /\ d <= H /\ Holds(u, d) => d <= e
    BY <1>2, <1>3, ReadRangeFacts, Zenon
  <1> HIDE DEF newest, ha
  <1>6. u.commit \in Int
    BY <1>3 DEF Replica, Marks
  <1>7. \A d \in Slots : Holds(u, d) <=> Holds(rep[r], d)
    BY <1>3, Zenon DEF Holds
  \* Above the highest acknowledged slot the member holds nothing that it has applied or that H covers.
  <1>8. ASSUME NEW d \in Slots, d > ha, d <= u.commit \/ d <= H PROVE ~Holds(u, d)
    <2>1. d \in Int /\ d > sess.L
      BY <1>2, <1>8, IntOrder, Zenon
    <2>2. d <= rep[r].commit \/ d <= f
      <3>1. ~(d <= ha)
        BY <1>2, <1>8, <2>1, IntOrder, Zenon
      <3>2. d <= u.commit \/ d <= f
        BY <1>2, <1>8, <3>1, Zenon
      <3> QED BY <1>2, <1>3, <1>6, <2>1, <3>2, IntOrder, ZenonT(30)
    <2>3. outcome[d] \in Resolved
      <3>1. CASE d <= f
        BY <1>2, <2>1, <3>1, Zenon
      <3>2. CASE d <= rep[r].commit
        <4>1. round.pc = "idle"
          BY Idle, Zenon
        <4> QED BY <1>1, <2>1, <3>2, <4>1, ZenonT(30) DEF AppliedIsDecided
      <3> QED BY <2>2, <3>1, <3>2, Zenon
    <2>4. outcome[d] = "empty"
      <3>1. ~(d <= ha)
        BY <1>2, <1>8, <2>1, IntOrder, Zenon
      <3> QED BY <1>2, <2>3, <3>1, ZenonT(30) DEF Resolved
    <2>5. ~Holds(rep[r], d)
      BY <1>1, <2>4, EmptyAbsent, Zenon DEF EmptyHasNoCopy, Core
    <2> QED BY <1>7, <2>5, Zenon
  <1>9. ASSUME ha > sess.L, leg[ha][r] = "acked" \/ rep[r].commit >= ha
        PROVE  newest = [dlsn |-> ha, term |-> sess.term]
    <2>1. ha \in Slots /\ outcome[ha] = "acked"
      BY <1>2, <1>9
    <2>2. rep[r].journal[ha] # Empty
      BY <1>1, <2>1, AckedNotEmpty, Zenon
    <2>3. rep[r].journal[ha] = sess.term
      <3>1. CASE leg[ha][r] = "acked"
        BY <1>1, <2>1, <2>2, <3>1, ZenonT(30) DEF LegsTell
      <3>2. CASE rep[r].commit >= ha
        <4>1. rep[r].journal[ha] # Missing
          BY <1>1, <1>2, <2>1, <3>2, ZenonT(30) DEF AllMarked, Marked, Present
        <4>2. rep[r].journal[ha] \in {Missing, Empty, sess.term}
          BY <1>1, <1>9, <2>1, ZenonT(30) DEF OneWriter
        <4> QED BY <2>2, <4>1, <4>2, Zenon
      <3> QED BY <1>9, <3>1, <3>2, Zenon
    <2>4. Holds(u, ha) /\ u.journal[ha] = sess.term
      BY <1>1, <1>3, <2>3, Zenon DEF Holds
    <2>5. CASE u.commit < ha
      <3>1. PICK e \in Slots : /\ u.commit < e /\ e <= H /\ Holds(u, e)
                               /\ newest = [dlsn |-> e, term |-> u.journal[e]]
                               /\ \A d \in Slots : u.commit < d /\ d <= H /\ Holds(u, d) => d <= e
        BY <1>2, <1>5, <2>1, <2>4, <2>5, ZenonT(30)
      <3>2. ha <= e
        BY <1>2, <2>1, <2>4, <2>5, <3>1, ZenonT(30)
      <3>3. ~(e > ha)
        BY <1>8, <3>1, Zenon
      <3>4. e = ha
        BY <1>2, <3>2, <3>3, IntOrder, ZenonT(30)
      <3> QED BY <2>4, <3>1, <3>4, Zenon
    <2>6. CASE ha <= u.commit
      <3>1. newest = u.index
        <4> SUFFICES ASSUME NEW e \in Slots, u.commit < e, e <= H, Holds(u, e) PROVE FALSE
          BY <1>5, Zenon
        <4>1. e > ha
          <5>1. e \in Int /\ ha \in Int
            BY <1>2, MarkFacts, Zenon
          <5> HIDE DEF IInv, Parts
          <5> QED BY <1>6, <2>6, <5>1, Past, Zenon
        <4> QED BY <1>8, <4>1, Zenon
      <3>2. PICK e \in Slots : /\ e <= u.commit /\ Holds(u, e) /\ u.index = [dlsn |-> e, term |-> u.journal[e]]
                               /\ \A d \in Slots : d <= u.commit /\ Holds(u, d) => d <= e
        BY <1>3, <2>1, <2>4, <2>6, ZenonT(30) DEF Newest
      <3>3. ha <= e
        BY <2>1, <2>4, <2>6, <3>2, ZenonT(30)
      <3>4. ~(e > ha)
        BY <1>8, <3>2, ZenonT(30)
      <3>5. e = ha
        BY <1>2, <3>3, <3>4, IntOrder, Zenon
      <3> QED BY <2>4, <3>1, <3>2, <3>5, ZenonT(30)
    <2> QED BY <1>2, <1>6, <2>5, <2>6, IntOrder, ZenonT(30)
  <1>10. ASSUME ha = sess.L, rep[r].commit >= sess.L PROVE newest.dlsn <= sess.L
    <2>1. newest = u.index
      <3> SUFFICES ASSUME NEW e \in Slots, u.commit < e, e <= H, Holds(u, e) PROVE FALSE
        BY <1>5, Zenon
      <3>1. e > ha
        <4>1. e \in Int /\ rep[r].commit >= ha /\ rep[r].commit <= u.commit /\ rep[r].commit \in Int /\ ha \in Int
          BY <1>2, <1>3, <1>10, MarkFacts, ZenonT(30)
        <4> HIDE DEF IInv, Parts
        <4> QED BY <1>6, <4>1, Past, Zenon
      <3> QED BY <1>8, <3>1, Zenon
    <2>2. CASE u.index = NoCell
      BY <1>2, <2>1, <2>2, NoCellLow, ZenonT(30)
    <2>3. ASSUME NEW e \in Slots, e <= u.commit, Holds(u, e), u.index = [dlsn |-> e, term |-> u.journal[e]]
          PROVE  newest.dlsn <= sess.L
      <3>1. ~(e > ha)
        BY <1>8, <2>3, Zenon
      <3>2. newest.dlsn = e
        <4> HIDE DEF IInv, Parts
        <4> QED BY <2>1, <2>3, SMTT(30)
      <3> QED BY <1>2, <1>10, <3>1, <3>2, IntOrder, ZenonT(30)
    <2> QED BY <1>3, <2>2, <2>3, ZenonT(30) DEF Newest
  <1> QED BY <1>4, <1>9, <1>10, ZenonT(30) DEF ha

\* A read at the client's horizon finds the newest acknowledged write of the session, at any member the
\* client may send it to.
THEOREM ReadsSeeNewest ==
    ASSUME OneQueue, ~StaleReturns
    PROVE  Spec => []ReadNewest
  <1>1. IInv => ReadNewest
    BY ReadsNewest, Zenon DEF ReadNewest, Core
  <1> QED BY <1>1, Inductive, PTL
=============================================================================
