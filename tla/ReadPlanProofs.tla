--------------------------- MODULE ReadPlanProofs ---------------------------
(***************************************************************************)
(* The read planner for any number of blocks, slots and segments: its      *)
(* segments tile the range, no horizon hides a write acknowledged before   *)
(* the read began, and none exposes an unresolved one, although slots are  *)
(* reserved, resolve and advance the frontier while it scans.              *)
(***************************************************************************)
EXTENDS ReadPlan, FiniteSetTheorems, TLAPS

Stages == {"none", "reserved", "active", "stored", "bit", "raised"}
Pending(d) == outcome[d] \in {"in_flight", "failed"}
AckedOn(a, b) == b \in range[a] /\ outcome[a] = "acked"

\* The horizon H is clean on block b: an unresolved slot at or below it lies beneath an acked one.
Clean(b, H) ==
    \A u \in Slots : (u <= H /\ b \in range[u] /\ Pending(u))
        => \E a \in Slots : u < a /\ a <= H /\ AckedOn(a, b)

SlotTypes ==
    /\ range \in [Slots -> SUBSET (1..Outside)]
    /\ stage \in [Slots -> Stages]
    /\ outcome \in [Slots -> Outcomes]
    /\ F \in 0..MaxSlots /\ Ha \in 0..MaxSlots

\* What the writers keep true: a stored outcome is final, F passes completed slots only, and an acked
\* write that has returned is at or below Ha.
Writers ==
    /\ SlotTypes
    /\ \A d \in Slots : outcome[d] \in {"acked", "empty"} <=> stage[d] \in {"stored", "bit", "raised"}
    /\ \A d \in Slots : d <= F => Completed(d)
    /\ \A d \in Slots : stage[d] = "raised" /\ outcome[d] = "acked" => d <= Ha

LocalTypes ==
    /\ rd \in [F : 0..MaxSlots, Ha : 0..MaxSlots, h : 0..(MaxSlots + 1), umin : 0..MaxSlots,
               failed : BOOLEAN, gap : BOOLEAN, ustar : [Blocks -> 0..MaxSlots]]
    /\ rpc \in {"idle", "loadHa", "hop", "split", "planned"}
    /\ before \subseteq Slots
    /\ \A d \in before : stage[d] = "raised" /\ outcome[d] = "acked"

Unclaimed == rd.umin = 0 /\ ~rd.gap /\ \A b \in Blocks : rd.ustar[b] = 0

\* A slot the hops left behind resolved, or writes outside the read, or lies at or above umin.
Passed(u) ==
    \/ Completed(u)
    \/ Active(u) /\ range[u] \cap Blocks = {}
    \/ rd.umin # 0 /\ rd.umin <= u /\ (rd.gap \/ Active(u))

AtHop ==
    /\ rd.F < rd.Ha /\ rd.Ha <= Ha
    /\ rd.h \in (rd.F + 1)..(rd.Ha + 1)
    /\ \A d \in before : d <= rd.Ha
    /\ rd.umin < rd.h
    /\ \A b \in Blocks : rd.ustar[b] = 0
    /\ \A u \in Slots : u < rd.h => Passed(u)

\* Where block b stands in the walk: below the slot that claims it, or at the last slot walked.
Reach(b) == IF rd.ustar[b] = 0 THEN rd.h - 1 ELSE rd.ustar[b] - 1

AtSplit ==
    /\ rd.Ha <= Ha /\ rd.umin # 0
    /\ rd.h \in rd.umin..(rd.Ha + 1)
    /\ \A d \in before : d <= rd.Ha
    /\ \A u \in Slots : u <= rd.Ha => Active(u)
    /\ \A b \in Blocks :
         /\ rd.ustar[b] < rd.h
         /\ Clean(b, Reach(b))
         /\ \A d \in before : b \in range[d] /\ d < rd.h => d <= Reach(b)

Reader ==
    /\ LocalTypes
    /\ rpc \in {"idle", "loadHa", "planned"} => Unclaimed
    /\ rpc \in {"loadHa", "hop"} => rd.F <= F
    /\ rpc = "hop" => AtHop
    /\ rpc = "split" => AtSplit
    /\ rpc # "planned" => plan = NoPlan

\* The plan's horizons: integers, every slot up to them created, clean and fresh.
Sound(b, H) ==
    /\ H \in 0..MaxSlots
    /\ \A u \in Slots : u <= H => Active(u)
    /\ Clean(b, H)
    /\ \A d \in before : b \in range[d] => d <= H

Planned == plan.kind = "segments" => SegmentsTile /\ \A b \in Blocks : Sound(b, PlannedH(b))

IInv == Writers /\ Reader /\ Planned
-----------------------------------------------------------------------------
\* The walk's bounds are naturals.
LEMMA Bounds == NumBlocks \in Nat \ {0} /\ MaxSlots \in Nat \ {0} /\ MaxSegments \in Nat \ {0}
  BY PlanAssumption

\* Every non-empty set of naturals has a least element, the one Min finds.
LEMMA MinIsLeast ==
    ASSUME NEW S \in SUBSET Nat, S # {}
    PROVE  Min(S) \in S /\ \A x \in S : Min(S) <= x
  <1>1. PICK m \in S : \A x \in S : ~(<<x, m>> \in OpToRel(<, Nat))
    BY NatLessThanWellFounded, WFMin, Zenon
  <1>2. \A x \in S : ~(x < m)
    BY <1>1, Zenon DEF OpToRel
  <1>3. \A x \in S : m <= x
    BY <1>2
  <1> QED BY <1>3, Zenon DEF Min

\* The blocks that start a segment are finitely many, and block 1 is one of them.
LEMMA StartsFinite ==
    /\ Starts \subseteq Blocks /\ Blocks \subseteq Nat /\ 1 \in Starts
    /\ IsFiniteSet(Starts) /\ Cardinality(Starts) \in Nat
  <1>1. 1 \in Int /\ NumBlocks \in Int
    BY Bounds
  <1>2. IsFiniteSet(Blocks)
    BY <1>1, FS_Interval DEF Blocks
  <1>3. Starts \subseteq Blocks
    BY Zenon DEF Starts
  <1>4. IsFiniteSet(Starts)
    BY <1>2, <1>3, FS_Subset, Zenon
  <1>5. 1 \in Blocks /\ Blocks \subseteq Nat
    BY Bounds DEF Blocks
  <1>6. 1 \in Starts
    BY <1>5, Zenon DEF Starts
  <1> QED BY <1>3, <1>4, <1>5, <1>6, FS_CardinalityType, Zenon

\* The place of a block counts the starts up to it, which lie between 1 and all of them.
LEMMA PlaceType ==
    ASSUME NEW b \in Blocks
    PROVE  Place(b) \in 1..Cardinality(Starts)
  <1> DEFINE P == {x \in Starts : x <= b}
  <1>1. P \in SUBSET Starts
    BY Zenon
  <1>2. 1 \in P
    BY StartsFinite DEF Blocks
  <1>3. IsFiniteSet(P) /\ Cardinality(P) <= Cardinality(Starts)
    BY <1>1, StartsFinite, FS_Subset, Zenon
  <1>4. Cardinality(P) \in Nat /\ Cardinality(P) # 0
    BY <1>2, <1>3, FS_EmptySet, FS_CardinalityType
  <1>5. Place(b) = Cardinality(P)
    BY Zenon DEF Place
  <1> HIDE DEF P
  <1> QED BY <1>3, <1>4, <1>5, StartsFinite

\* A start between two blocks moves the later one to a later place; without one they share it.
LEMMA PlaceOrder ==
    ASSUME NEW a \in Blocks, NEW b \in Blocks, a <= b
    PROVE  /\ Place(a) <= Place(b)
           /\ Place(a) = Place(b) => \A c \in Starts : ~(a < c /\ c <= b)
  <1> DEFINE P(z) == {x \in Starts : x <= z}
  <1>0. a \in Nat /\ b \in Nat /\ Starts \subseteq Nat
    BY StartsFinite, Zenon
  <1>1. \A x \in Starts : x <= a => x <= b
    BY <1>0
  <1>2. P(a) \in SUBSET P(b) /\ P(b) \in SUBSET Starts
    BY <1>1, Zenon
  <1>3. IsFiniteSet(P(b))
    BY <1>2, StartsFinite, FS_Subset, Zenon
  <1>4. Place(a) = Cardinality(P(a)) /\ Place(b) = Cardinality(P(b))
    BY Zenon DEF Place
  <1>5. \A c \in Starts : a < c /\ c <= b => c \in P(b) /\ c \notin P(a)
    BY <1>0
  <1> HIDE DEF P
  <1>6. Cardinality(P(a)) <= Cardinality(P(b)) /\ (Cardinality(P(b)) = Cardinality(P(a)) => P(b) = P(a))
    BY <1>2, <1>3, FS_Subset, Zenon
  <1> QED BY <1>4, <1>5, <1>6, Zenon

\* Two starts with the same place are the same start.
LEMMA PlaceInjective ==
    ASSUME NEW a \in Starts, NEW b \in Starts, Place(a) = Place(b)
    PROVE  a = b
  <1>1. a \in Blocks /\ b \in Blocks /\ a \in Nat /\ b \in Nat
    BY StartsFinite, Zenon
  <1>2. a <= b => a = b
    BY <1>1, PlaceOrder
  <1>3. b <= a => a = b
    BY <1>1, PlaceOrder
  <1> QED BY <1>1, <1>2, <1>3

\* Every place from 1 to the number of starts is taken by one start, the one StartAt names.
LEMMA StartAtPlace ==
    ASSUME NEW k \in 1..Cardinality(Starts)
    PROVE  StartAt(k) \in Starts /\ Place(StartAt(k)) = k
  <1> DEFINE n == Cardinality(Starts)
             f == [a \in Starts |-> Place(a)]
  <1>1. f \in Injection(Starts, 1..n)
    <2>1. \A a \in Starts : Place(a) \in 1..n
      BY PlaceType, StartsFinite, Zenon
    <2>2. f \in [Starts -> 1..n]
      BY <2>1, Zenon
    <2>3. \A a, b \in Starts : f[a] = f[b] => a = b
      BY PlaceInjective, Zenon
    <2>4. DOMAIN f = Starts
      BY Zenon
    <2> HIDE DEF f
    <2> QED BY <2>2, <2>3, <2>4, Zenon DEF Injection, IsInjective
  <1>2. IsFiniteSet(1..n) /\ Cardinality(1..n) = n
    <2>1. 1 \in Int /\ n \in Int /\ n >= 0
      BY StartsFinite
    <2> HIDE DEF n
    <2>2. Cardinality(1..n) = IF 1 > n THEN 0 ELSE n - 1 + 1
      BY <2>1, FS_Interval
    <2> QED BY <2>1, <2>2, FS_Interval
  <1>3. f \in Surjection(Starts, 1..n)
    <2> HIDE DEF f
    <2> QED BY <1>1, <1>2, StartsFinite, FS_Injection
  <1>4. \A j \in 1..n : \E a \in Starts : f[a] = j
    <2> HIDE DEF f
    <2> QED BY <1>3, Zenon DEF Surjection
  <1>5. \E a \in Starts : Place(a) = k
    BY <1>4, Zenon
  <1> QED BY <1>5, Zenon DEF StartAt

\* Where the segment that starts at the k-th start ends: at the next start, or behind the last block.
EndOf(k) == IF k = Cardinality(Starts) THEN NumBlocks + 1 ELSE StartAt(k + 1)

\* A segment reaches to the next start and the last one to the end of the range, as the loop of split
\* cuts one off wherever the horizon changes and once more behind the last block.
LEMMA SegmentEnds ==
    ASSUME NEW k \in 1..Cardinality(Starts)
    PROVE  /\ StartAt(k) \in Blocks /\ EndOf(k) \in Nat /\ StartAt(k) < EndOf(k)
           /\ EndOf(k) <= NumBlocks + 1
           /\ \A c \in Starts : ~(StartAt(k) < c /\ c < EndOf(k))
           /\ Segment(StartAt(k)).len = EndOf(k) - StartAt(k)
  <1> DEFINE n == Cardinality(Starts)
             a == StartAt(k)
             e == EndOf(k)
             S == {b \in Starts \cup {NumBlocks + 1} : b > a}
             Ends == /\ e \in Nat /\ a < e /\ e <= NumBlocks + 1
                     /\ \A c \in Starts : ~(a < c /\ c < e)
                     /\ e \in S /\ \A b \in S : e <= b
  <1>0. n \in Nat /\ k \in Nat /\ 1 <= k /\ k <= n /\ NumBlocks \in Nat
    BY StartsFinite, Bounds
  <1>1. a \in Starts /\ Place(a) = k /\ a \in Blocks /\ a \in Nat /\ Starts \subseteq Nat
    BY StartAtPlace, StartsFinite, Zenon
  <1>2. \A c \in Starts : c \in Blocks /\ c <= NumBlocks /\ Place(c) \in 1..n
    BY StartsFinite, PlaceType DEF Blocks
  <1>3. \A c \in Starts : a < c => k < Place(c)
    <2> TAKE c \in Starts
    <2> HAVE a < c
    <2>1. Place(a) <= Place(c) /\ Place(a) # Place(c)
      BY <1>1, <1>2, PlaceOrder
    <2> QED BY <1>0, <1>1, <1>2, <2>1
  <1>4. ASSUME k = n PROVE Ends
    <2>1. e = NumBlocks + 1 /\ e \in Nat /\ a < e
      BY <1>0, <1>1, <1>2, <1>4 DEF EndOf
    <2>2. \A c \in Starts : ~(a < c)
      BY <1>0, <1>2, <1>3, <1>4
    <2>3. e \in S /\ \A b \in S : e <= b
      BY <1>0, <1>1, <2>1, <2>2
    <2> QED BY <1>0, <2>1, <2>2, <2>3
  <1>5. ASSUME k # n PROVE Ends
    <2>1. e = StartAt(k + 1) /\ k + 1 \in 1..n
      BY <1>0, <1>5 DEF EndOf
    <2>2. e \in Starts /\ Place(e) = k + 1 /\ e \in Nat /\ e <= NumBlocks
      BY <1>1, <1>2, <2>1, StartAtPlace, Zenon
    <2>3. a < e
      <3>1. ASSUME e <= a PROVE FALSE
        <4>1. Place(e) <= Place(a)
          BY <1>1, <1>2, <2>2, <3>1, PlaceOrder
        <4> QED BY <1>0, <1>1, <2>2, <4>1
      <3> QED BY <1>1, <2>2, <3>1
    <2>4. ASSUME NEW c \in Starts, a < c, c < e PROVE FALSE
      <3>1. c <= e /\ e # c
        BY <1>1, <2>2, <2>4
      <3>2. Place(c) <= Place(e) /\ Place(c) # Place(e)
        BY <1>2, <2>2, <3>1, PlaceOrder, PlaceInjective
      <3> QED BY <1>0, <1>2, <1>3, <2>2, <2>4, <3>2
    <2>5. e \in S /\ \A b \in S : e <= b
      BY <1>0, <1>1, <2>2, <2>3, <2>4
    <2> QED BY <1>0, <2>2, <2>3, <2>4, <2>5
  <1>6. Ends
    BY <1>4, <1>5, Zenon
  <1>7. Min(S) = e
    <2>1. NumBlocks + 1 \in Nat
      BY <1>0
    <2>2. S \in SUBSET Nat
      BY <1>1, <2>1, Zenon
    <2>3. e \in S /\ \A b \in S : e <= b
      BY <1>6, Zenon
    <2> HIDE DEF S, e, Ends
    <2>4. Min(S) \in S /\ \A x \in S : Min(S) <= x
      BY <2>2, <2>3, MinIsLeast
    <2>5. Min(S) <= e /\ e <= Min(S) /\ Min(S) \in Nat /\ e \in Nat
      BY <2>2, <2>3, <2>4, Zenon
    <2> QED BY <2>5
  <1>8. Segment(a).len = Min(S) - a
    BY DEF Segment
  <1> QED BY <1>1, <1>6, <1>7, <1>8

\* All blocks of a segment have the horizon of its first: the least one that differed would be a start.
LEMMA HorizonsMerge ==
    ASSUME NEW k \in 1..Cardinality(Starts), NEW b \in Blocks, StartAt(k) <= b, b < EndOf(k)
    PROVE  HorizonOf(b) = HorizonOf(StartAt(k))
  <1> DEFINE a == StartAt(k)
             D == {c \in Blocks : a <= c /\ c <= b /\ HorizonOf(c) # HorizonOf(a)}
  <1>1. /\ a \in Blocks /\ EndOf(k) \in Nat /\ Blocks \subseteq Nat
        /\ \A c \in Starts : ~(a < c /\ c < EndOf(k))
    BY SegmentEnds, StartsFinite, Zenon
  <1>2. a \in Nat /\ b \in Nat /\ D \in SUBSET Nat
    BY <1>1, Zenon
  <1> HIDE DEF a
  <1>3. ASSUME D # {} PROVE FALSE
    <2>1. PICK m \in D : \A x \in D : m <= x
      BY <1>2, <1>3, MinIsLeast, Zenon
    <2>2. m \in Blocks /\ m \in Nat /\ a <= m /\ m <= b /\ HorizonOf(m) # HorizonOf(a)
      BY <1>1, <2>1, Zenon
    <2>3. m # a
      BY <2>2, Zenon
    <2>4. m - 1 \in Blocks /\ a <= m - 1 /\ m - 1 <= b /\ ~(m <= m - 1) /\ a < m /\ m < EndOf(k)
      <3>1. EndOf(k) \in Nat /\ b < EndOf(k) /\ NumBlocks \in Nat /\ m \in 1..NumBlocks /\ a \in 1..NumBlocks
        BY <1>1, <2>2, Bounds, Zenon DEF Blocks
      <3> QED BY <1>2, <2>2, <2>3, <3>1 DEF Blocks
    <2>5. HorizonOf(m - 1) = HorizonOf(a)
      BY <2>1, <2>4, Zenon
    <2>6. m \in Starts
      BY <2>2, <2>5, Zenon DEF Starts
    <2> QED BY <1>1, <2>4, <2>6, Zenon
  <1>4. b \notin D
    BY <1>3, Zenon
  <1>5. a <= b /\ b <= b
    BY <1>2 DEF a
  <1> QED BY <1>4, <1>5, Zenon DEF a

\* Every block lies in the segment at its place.
LEMMA BlockCovered ==
    ASSUME NEW b \in Blocks
    PROVE  \E k \in 1..Cardinality(Starts) : StartAt(k) <= b /\ b < EndOf(k)
  <1> DEFINE n == Cardinality(Starts)
             k == Place(b)
  <1>1. k \in 1..n /\ n \in Nat
    BY PlaceType, StartsFinite, Zenon
  <1>2. /\ StartAt(k) \in Starts /\ StartAt(k) \in Blocks /\ Place(StartAt(k)) = k /\ EndOf(k) \in Nat
        /\ Blocks \subseteq Nat /\ Starts \subseteq Blocks
    BY <1>1, StartAtPlace, SegmentEnds, StartsFinite, Zenon
  <1>5. StartAt(k) \in Nat /\ b \in Nat
    BY <1>2, Zenon
  <1>3. StartAt(k) <= b
    <2>1. ASSUME b < StartAt(k) PROVE FALSE
      <3>1. b <= StartAt(k) /\ StartAt(k) <= StartAt(k)
        BY <1>5, <2>1
      <3> QED BY <1>2, <2>1, <3>1, PlaceOrder, Zenon
    <2> QED BY <1>5, <2>1
  <1>4. b < EndOf(k)
    <2>1. CASE k = n
      <3>1. EndOf(k) = NumBlocks + 1
        BY <2>1 DEF EndOf
      <3> QED BY <3>1, Bounds DEF Blocks
    <2>2. CASE k # n
      <3>1. EndOf(k) = StartAt(k + 1) /\ k + 1 \in 1..n
        BY <1>1, <2>2 DEF EndOf
      <3>2. EndOf(k) \in Starts /\ Place(EndOf(k)) = k + 1
        BY <3>1, StartAtPlace, Zenon
      <3>3. ASSUME EndOf(k) <= b PROVE FALSE
        <4>1. Place(EndOf(k)) <= k
          BY <1>2, <3>2, <3>3, PlaceOrder, Zenon
        <4> QED BY <1>1, <3>2, <4>1
      <3> QED BY <1>2, <3>3
    <2> QED BY <2>1, <2>2
  <1> QED BY <1>1, <1>3, <1>4, Zenon

\* A segment, field by field.
LEMMA SegmentFields ==
    ASSUME NEW k \in 1..Cardinality(Starts)
    PROVE  /\ Segments[k].from = StartAt(k) /\ Segments[k].H = HorizonOf(StartAt(k))
           /\ Segments[k].len = EndOf(k) - StartAt(k)
           /\ Segments[k].from + Segments[k].len = EndOf(k)
  <1>1. Segments[k] = Segment(StartAt(k))
    BY Zenon DEF Segments
  <1>2. Segment(StartAt(k)).from = StartAt(k) /\ Segment(StartAt(k)).H = HorizonOf(StartAt(k))
    BY DEF Segment
  <1>3. /\ StartAt(k) \in Nat /\ EndOf(k) \in Nat
        /\ Segment(StartAt(k)).len = EndOf(k) - StartAt(k)
    BY SegmentEnds, StartsFinite, Zenon
  <1> QED BY <1>1, <1>2, <1>3

\* There are as many segments as starts.
LEMMA SegmentsLen ==
    Len(Segments) = Cardinality(Starts) /\ DOMAIN Segments = 1..Cardinality(Starts)
  <1>1. Cardinality(Starts) \in Nat
    BY StartsFinite
  <1> QED BY <1>1 DEF Segments

\* What split returns tiles the range, and gives each block its own horizon.
LEMMA SplitTiles ==
    ASSUME plan' = [kind |-> "segments", segs |-> Segments], ~(Len(Segments) > MaxSegments)
    PROVE  SegmentsTile' /\ \A b \in Blocks : PlannedH(b)' = HorizonOf(b)
  <1> DEFINE n == Cardinality(Starts)
  <1>1. plan'.segs = Segments /\ plan'.kind = "segments"
    OBVIOUS
  <1>2. Len(Segments) = n /\ DOMAIN Segments = 1..n /\ n \in Nat
    BY SegmentsLen, StartsFinite, Zenon
  <1>3. n \in 1..MaxSegments /\ 1 \in 1..n
    <2>1. n # 0
      BY StartsFinite, FS_EmptySet
    <2> HIDE DEF n
    <2> QED BY <1>2, <2>1, Bounds
  <1>4. Segments[1].from = 1
    <2>1. StartAt(1) \in Starts /\ Place(StartAt(1)) = 1 /\ 1 \in Starts /\ 1 \in Blocks
      BY <1>3, StartAtPlace, StartsFinite, Zenon
    <2>2. Place(1) = 1
      <3>1. \A x \in Starts : x <= 1 <=> x = 1
        BY StartsFinite DEF Blocks
      <3>2. {x \in Starts : x <= 1} = {1}
        BY <2>1, <3>1
      <3> QED BY <3>2, FS_Singleton, Zenon DEF Place
    <2>3. StartAt(1) = 1
      BY <2>1, <2>2, PlaceInjective
    <2> QED BY <1>3, <2>3, SegmentFields
  <1>5. ASSUME NEW k \in 1..n
        PROVE  /\ Segments[k].len > 0
               /\ Segments[k].from + Segments[k].len = IF k = n THEN NumBlocks + 1 ELSE Segments[k + 1].from
    <2>1. StartAt(k) \in Nat /\ EndOf(k) \in Nat /\ StartAt(k) < EndOf(k)
      BY SegmentEnds, StartsFinite, Zenon
    <2>2. Segments[k].len = EndOf(k) - StartAt(k) /\ Segments[k].from + Segments[k].len = EndOf(k)
      BY SegmentFields
    <2>3. k # n => k + 1 \in 1..n
      BY <1>2
    <2>4. k # n => Segments[k + 1].from = EndOf(k)
      BY <2>3, SegmentFields, Zenon DEF EndOf
    <2>5. k = n => EndOf(k) = NumBlocks + 1
      BY Zenon DEF EndOf
    <2>6. Segments[k].len > 0
      BY <2>1, <2>2
    <2> QED BY <2>2, <2>4, <2>5, <2>6, Zenon
  <1>6. SegmentsTile'
    <2>1. /\ Len(plan'.segs) \in 1..MaxSegments /\ plan'.segs[1].from = 1
          /\ Len(plan'.segs) = n /\ DOMAIN plan'.segs = 1..n
      BY <1>1, <1>2, <1>3, <1>4, Zenon
    <2>2. \A k \in DOMAIN plan'.segs :
            /\ plan'.segs[k].len > 0
            /\ plan'.segs[k].from + plan'.segs[k].len =
                 (IF k = Len(plan'.segs) THEN NumBlocks + 1 ELSE plan'.segs[k + 1].from)
      BY <1>1, <1>2, <1>5, Zenon
    <2> QED BY <2>1, <2>2, Zenon DEF SegmentsTile
  <1>7. ASSUME NEW b \in Blocks PROVE PlannedH(b)' = HorizonOf(b)
    <2> DEFINE In(k) == Segments[k].from <= b /\ b < Segments[k].from + Segments[k].len
    <2>1. \A k \in 1..n : In(k) <=> StartAt(k) <= b /\ b < EndOf(k)
      BY SegmentFields, Zenon
    <2>2. \E k \in 1..n : In(k)
      BY <2>1, BlockCovered, Zenon
    <2> DEFINE j == CHOOSE k \in 1..n : In(k)
    <2>3. j \in 1..n /\ In(j)
      BY <2>2, Zenon
    <2>4. SegOf(b)' = j
      BY <1>1, <1>2, Zenon DEF SegOf
    <2> HIDE DEF j
    <2>5. PlannedH(b)' = Segments[j].H
      BY <1>1, <2>4, Zenon DEF PlannedH
    <2>6. StartAt(j) <= b /\ b < EndOf(j) /\ Segments[j].H = HorizonOf(StartAt(j))
      BY <2>1, <2>3, SegmentFields, Zenon
    <2> QED BY <2>3, <2>5, <2>6, HorizonsMerge, Zenon
  <1> QED BY <1>6, <1>7, Zenon

\* One segment tiles the range and gives every block the same horizon (one_segment).
LEMMA WholeTiles ==
    ASSUME NEW H, plan' = Whole(H)
    PROVE  SegmentsTile' /\ \A b \in Blocks : PlannedH(b)' = H
  <1> DEFINE seg == [from |-> 1, len |-> NumBlocks, H |-> H]
  <1>1. plan'.segs = <<seg>> /\ seg.from = 1 /\ seg.len = NumBlocks /\ seg.H = H
    BY DEF Whole
  <1> HIDE DEF seg
  <1>2. Len(plan'.segs) = 1 /\ DOMAIN plan'.segs = {1} /\ plan'.segs[1] = seg
    BY <1>1
  <1>3. SegmentsTile'
    BY <1>1, <1>2, Bounds DEF SegmentsTile
  <1>4. ASSUME NEW b \in Blocks PROVE PlannedH(b)' = H
    <2>1. seg.from <= b /\ b < seg.from + seg.len
      BY <1>1, Bounds DEF Blocks
    <2>2. SegOf(b)' = 1
      BY <1>2, <2>1, Zenon DEF SegOf
    <2> QED BY <1>1, <1>2, <2>2, Zenon DEF PlannedH
  <1> QED BY <1>3, <1>4, Zenon
-----------------------------------------------------------------------------
\* What the steps of the writers never undo.
Grows ==
    /\ F <= F' /\ Ha <= Ha'
    /\ \A d \in Slots :
         /\ Active(d) => Active(d)' /\ range'[d] = range[d]
         /\ Completed(d) => Completed(d)'
         /\ outcome[d] = "acked" => outcome'[d] = "acked"
         /\ stage[d] = "raised" => stage'[d] = "raised"
         /\ Pending(d)' => Pending(d)

WriterStep ==
    \/ \E d \in Slots : Reserve(d) \/ Create(d) \/ StoreOutcome(d) \/ SetBit(d) \/ Raise(d)
    \/ AdvanceF

\* Raise stores the greater of Ha and the slot.
LEMMA MaxOfTwo ==
    ASSUME NEW x \in Int, NEW y \in Int
    PROVE  Max({x, y}) \in {x, y} /\ x <= Max({x, y}) /\ y <= Max({x, y})
  <1>1. \E m \in {x, y} : \A z \in {x, y} : m >= z
    OBVIOUS
  <1>2. Max({x, y}) \in {x, y} /\ \A z \in {x, y} : Max({x, y}) >= z
    BY <1>1, Zenon DEF Max
  <1> QED BY <1>2

\* reserve, create, resolve and advance_frontier keep the writers' facts, and only move slots forward.
LEMMA WritersStep ==
    ASSUME Writers, WriterStep
    PROVE  Writers' /\ Grows /\ ReaderUnchanged
  <1> USE DEF Writers, SlotTypes, Grows, Completed, Active, Pending, Stages, Outcomes
  <1>0. MaxSlots \in Nat /\ Slots \subseteq Int /\ \A d \in Slots : d \in 0..MaxSlots
    BY Bounds DEF Slots
  <1>1. ASSUME NEW d \in Slots, Reserve(d) PROVE Writers' /\ Grows /\ ReaderUnchanged
    BY <1>0, <1>1 DEF Reserve, Stage
  <1>2. ASSUME NEW d \in Slots, Create(d) PROVE Writers' /\ Grows /\ ReaderUnchanged
    <2>1. PICK bs \in Ranges : range' = [range EXCEPT ![d] = bs]
      BY <1>2, Zenon DEF Create
    <2>2. bs \subseteq 1..Outside
      BY <2>1, Bounds DEF Ranges, Outside, Blocks
    <2> QED BY <1>0, <1>2, <2>1, <2>2 DEF Create, Stage
  <1>3. ASSUME NEW d \in Slots, StoreOutcome(d) PROVE Writers' /\ Grows /\ ReaderUnchanged
    BY <1>0, <1>3 DEF StoreOutcome
  <1>4. ASSUME NEW d \in Slots, SetBit(d) PROVE Writers' /\ Grows /\ ReaderUnchanged
    BY <1>0, <1>4 DEF SetBit, Stage
  <1>5. ASSUME NEW d \in Slots, Raise(d) PROVE Writers' /\ Grows /\ ReaderUnchanged
    <2>1. Ha' \in {Ha, d} /\ Ha <= Ha' /\ d <= Ha'
      <3>1. Ha \in Int /\ d \in Int
        BY <1>0
      <3>2. Ha' = Max({Ha, d})
        BY <1>5, Zenon DEF Raise
      <3> QED BY <3>1, <3>2, MaxOfTwo, Zenon
    <2> QED BY <1>0, <1>5, <2>1 DEF Raise, Stage
  <1>6. ASSUME AdvanceF PROVE Writers' /\ Grows /\ ReaderUnchanged
    <2>1. \A d \in Slots : d <= F + 1 => d <= F \/ d = F + 1
      BY <1>0
    <2> QED BY <1>0, <1>6, <2>1 DEF AdvanceF, Slots
  <1> QED BY <1>1, <1>2, <1>3, <1>4, <1>5, <1>6, Zenon DEF WriterStep

\* A clean horizon stays clean once every slot up to it is created: a range never changes after that,
\* an acked slot stays acked, and a slot that is pending later is pending now.
LEMMA CleanStays ==
    ASSUME Grows, NEW b, NEW H, \A u \in Slots : u <= H => Active(u), Clean(b, H)
    PROVE  Clean(b, H)' /\ \A u \in Slots : u <= H => Active(u)'
  <1> USE DEF Grows
  <1>1. \A u \in Slots : u <= H => Active(u)'
    BY Zenon
  <1>2. ASSUME NEW u \in Slots, u <= H, b \in range'[u], Pending(u)'
        PROVE  \E a \in Slots : u < a /\ a <= H /\ AckedOn(a, b)'
    <2>1. b \in range[u] /\ Pending(u)
      BY <1>2, Zenon
    <2>2. PICK a \in Slots : u < a /\ a <= H /\ AckedOn(a, b)
      BY <1>2, <2>1, Zenon DEF Clean
    <2>3. AckedOn(a, b)'
      BY <2>2, Zenon DEF AckedOn
    <2> QED BY <2>2, <2>3, Zenon
  <1>3. Clean(b, H)'
    BY <1>2, Zenon DEF Clean
  <1> QED BY <1>1, <1>3, Zenon

\* The acknowledged writes a read started from keep their ranges.
LEMMA BeforeStays ==
    ASSUME Grows, Reader, before' = before
    PROVE  \A d \in before : d \in Slots /\ range'[d] = range[d]
                             /\ stage'[d] = "raised" /\ outcome'[d] = "acked"
  <1>1. \A d \in before : d \in Slots /\ stage[d] = "raised" /\ outcome[d] = "acked"
    BY Zenon DEF Reader, LocalTypes
  <1>2. \A d \in before : Active(d)
    BY <1>1, Zenon DEF Active
  <1> QED BY <1>1, <1>2, Zenon DEF Grows

\* A plan stays sound while writers go on: the slots resolving under it only make it safer.
LEMMA PlannedStays ==
    ASSUME Grows, Reader, Planned, UNCHANGED <<plan, before>>
    PROVE  Planned'
  <1> SUFFICES ASSUME plan'.kind = "segments"
               PROVE  SegmentsTile' /\ \A b \in Blocks : Sound(b, PlannedH(b))'
    BY Zenon DEF Planned
  <1>1. plan' = plan /\ before' = before /\ plan.kind = "segments"
    BY Zenon
  <1>2. SegmentsTile'
    BY <1>1, Zenon DEF Planned, SegmentsTile
  <1>3. ASSUME NEW b \in Blocks PROVE Sound(b, PlannedH(b))'
    <2>1. PICK H : H = PlannedH(b)
      BY Zenon
    <2>2. Sound(b, H)
      BY <1>1, <2>1, Zenon DEF Planned
    <2>3. PlannedH(b)' = H
      BY <1>1, <2>1, Zenon DEF PlannedH, SegOf
    <2>4. Clean(b, H)' /\ \A u \in Slots : u <= H => Active(u)'
      BY <2>2, CleanStays, Zenon DEF Sound
    <2>5. \A d \in before' : b \in range'[d] => d <= H
      BY <1>1, <2>2, BeforeStays, Zenon DEF Sound
    <2>6. H \in 0..MaxSlots
      BY <2>2, Zenon DEF Sound
    <2> QED BY <2>3, <2>4, <2>5, <2>6, Zenon DEF Sound
  <1> QED BY <1>2, <1>3, Zenon

\* What the hops and the walk learned stays true while writers go on under them.
LEMMA ReaderStays ==
    ASSUME Writers, Reader, Grows, ReaderUnchanged, Writers'
    PROVE  Reader'
  <1>0. rpc' = rpc /\ rd' = rd /\ plan' = plan /\ before' = before
    BY Zenon DEF ReaderUnchanged
  <1>1. \A d \in before : d \in Slots /\ range'[d] = range[d] /\ stage'[d] = "raised" /\ outcome'[d] = "acked"
    BY <1>0, BeforeStays, Zenon
  <1>2. LocalTypes'
    BY <1>0, <1>1, Zenon DEF Reader, LocalTypes
  <1>3. Unclaimed => Unclaimed'
    BY <1>0, Zenon DEF Unclaimed
  <1>4. /\ rd.F \in Int /\ rd.Ha \in Int /\ F \in Int /\ F' \in Int /\ Ha \in Int /\ Ha' \in Int
        /\ F <= F' /\ Ha <= Ha'
    BY DEF Reader, LocalTypes, Writers, SlotTypes, Grows
  <1>5. (rd.F <= F => rd.F <= F') /\ (rd.Ha <= Ha => rd.Ha <= Ha')
    BY <1>4
  <1>6. AtHop => AtHop'
    <2> SUFFICES ASSUME AtHop PROVE AtHop'
      BY Zenon
    <2>1. ASSUME NEW u \in Slots, Passed(u) PROVE Passed(u)'
      BY <1>0, <2>1, Zenon DEF Passed, Grows
    <2> QED BY <1>0, <1>5, <2>1, Zenon DEF AtHop
  <1>7. AtSplit => AtSplit'
    <2> SUFFICES ASSUME AtSplit PROVE AtSplit'
      BY Zenon
    <2>1. \A u \in Slots : u <= rd.Ha => Active(u)'
      BY Zenon DEF AtSplit, Grows
    <2>2. ASSUME NEW b \in Blocks
          PROVE  /\ rd.ustar[b] < rd.h /\ Clean(b, Reach(b))'
                 /\ \A d \in before : b \in range'[d] /\ d < rd.h => d <= Reach(b)
      <3>1. PICK H : H = Reach(b)
        BY Zenon
      <3>2. Reach(b)' = H
        BY <1>0, <3>1, Zenon DEF Reach
      <3>3. \A u \in Slots : u <= H => u <= rd.Ha
        <4>1. /\ rd.ustar[b] \in Int /\ rd.h \in Int /\ rd.Ha \in Int
              /\ rd.ustar[b] < rd.h /\ rd.h <= rd.Ha + 1
          BY DEF AtSplit, Reader, LocalTypes
        <4>2. H <= rd.Ha /\ H \in Int
          BY <3>1, <4>1 DEF Reach
        <4> QED BY <4>1, <4>2, Bounds DEF Slots
      <3>4. Clean(b, H)'
        BY <3>1, <3>3, CleanStays, Zenon DEF AtSplit
      <3> QED BY <1>1, <3>1, <3>2, <3>4, Zenon DEF AtSplit
    <2>3. \A b \in Blocks : Reach(b)' = Reach(b)
      BY <1>0, Zenon DEF Reach
    <2> QED BY <1>0, <1>5, <2>1, <2>2, <2>3, Zenon DEF AtSplit
  <1> QED BY <1>0, <1>2, <1>3, <1>5, <1>6, <1>7, Zenon DEF Reader
-----------------------------------------------------------------------------
\* Returning keeps the reader's facts: its locals are gone.
LEMMA ReturnKeeps ==
    ASSUME Reader, NEW p, Return(p), UNCHANGED <<slotVars, before>>
    PROVE  Reader'
  <1>1. rpc' = "planned" /\ rd' = NoLocals /\ before' = before /\ stage' = stage /\ outcome' = outcome
    BY DEF Return, slotVars
  <1>2. NoLocals \in [F : 0..MaxSlots, Ha : 0..MaxSlots, h : 0..(MaxSlots + 1), umin : 0..MaxSlots,
                      failed : BOOLEAN, gap : BOOLEAN, ustar : [Blocks -> 0..MaxSlots]]
    <2>1. [b \in Blocks |-> 0] \in [Blocks -> 0..MaxSlots]
      BY Bounds
    <2> QED BY <2>1, Bounds DEF NoLocals
  <1>3. LocalTypes'
    BY <1>1, <1>2, Zenon DEF Reader, LocalTypes
  <1>4. Unclaimed'
    BY <1>1 DEF Unclaimed, NoLocals
  <1> QED BY <1>1, <1>3, <1>4, Zenon DEF Reader

\* A fenced read has no horizons.
LEMMA FencedKeeps ==
    ASSUME NEW f, Return(fenced(f))
    PROVE  Planned'
  <1>1. plan'.kind # "segments"
    BY DEF Return, fenced
  <1> QED BY <1>1, Zenon DEF Planned

\* A plan of sound horizons is a sound plan.
LEMMA WholeKeeps ==
    ASSUME NEW H, Return(Whole(H)), UNCHANGED <<slotVars, before>>, \A b \in Blocks : Sound(b, H)
    PROVE  Planned'
  <1>1. plan' = Whole(H) /\ before' = before /\ UNCHANGED <<range, stage, outcome>>
    BY DEF Return, slotVars
  <1>2. SegmentsTile' /\ \A b \in Blocks : PlannedH(b)' = H
    BY <1>1, WholeTiles, Zenon
  <1>3. ASSUME NEW b \in Blocks PROVE Sound(b, H)'
    BY <1>1, Zenon DEF Sound, Clean, Active, Pending, AckedOn
  <1>4. \A b \in Blocks : Sound(b, PlannedH(b))'
    BY <1>2, <1>3, Zenon DEF Sound, Clean
  <1> QED BY <1>2, <1>4, Zenon DEF Planned

\* compute loads F: the writes acknowledged by then are at or below Ha whenever it is loaded.
LEMMA LoadFStep ==
    ASSUME Writers, Reader, LoadF
    PROVE  Reader' /\ Planned'
  <1>1. /\ rpc = "idle" /\ rpc' = "loadHa" /\ plan' = plan /\ rd' = [rd EXCEPT !.F = F]
        /\ before' = {d \in Slots : stage[d] = "raised" /\ outcome[d] = "acked"}
        /\ F' = F /\ stage' = stage /\ outcome' = outcome
    BY DEF LoadF, Goto, slotVars
  <1>2. plan = NoPlan /\ Unclaimed /\ LocalTypes
    BY <1>1, Zenon DEF Reader
  <1>3. rd' \in [F : 0..MaxSlots, Ha : 0..MaxSlots, h : 0..(MaxSlots + 1), umin : 0..MaxSlots,
                 failed : BOOLEAN, gap : BOOLEAN, ustar : [Blocks -> 0..MaxSlots]]
        /\ rd'.F = F /\ rd'.umin = rd.umin /\ rd'.gap = rd.gap /\ rd'.ustar = rd.ustar
    BY <1>1, <1>2 DEF LocalTypes, Writers, SlotTypes
  <1>4. LocalTypes'
    BY <1>1, <1>3, Zenon DEF LocalTypes
  <1>5. Unclaimed'
    BY <1>2, <1>3, Zenon DEF Unclaimed
  <1>6. rd'.F <= F'
    BY <1>1, <1>3 DEF Writers, SlotTypes
  <1>7. Planned'
    <2>1. plan'.kind = "none"
      BY <1>1, <1>2 DEF NoPlan
    <2> QED BY <2>1 DEF Planned
  <1>8. rpc' # "hop" /\ rpc' # "split"
    BY <1>1
  <1> QED BY <1>1, <1>2, <1>4, <1>5, <1>6, <1>7, <1>8, Zenon DEF Reader

\* Up to the frontier every slot is resolved, so any horizon there is clean.
LEMMA CleanToF ==
    ASSUME Writers, NEW H \in 0..MaxSlots, H <= F, NEW b
    PROVE  Clean(b, H) /\ \A u \in Slots : u <= H => Active(u)
  <1>1. \A u \in Slots : u <= H => Completed(u)
    BY Bounds DEF Writers, SlotTypes, Slots
  <1>2. \A u \in Slots : u <= H => Active(u) /\ ~Pending(u)
    BY <1>1 DEF Writers, SlotTypes, Completed, Active, Pending, Stages, Outcomes
  <1> QED BY <1>2, Zenon DEF Clean

\* compute loads Ha: behind the frontier it returns F, else it starts hopping above F.
LEMMA LoadHaStep ==
    ASSUME Writers, Reader, LoadHa
    PROVE  Reader' /\ Planned'
  <1>0. rpc = "loadHa" /\ UNCHANGED <<slotVars, before>>
    BY DEF LoadHa
  <1>1. Unclaimed /\ rd.F <= F /\ plan = NoPlan /\ LocalTypes
    BY <1>0, Zenon DEF Reader
  <1>2. /\ rd.F \in 0..MaxSlots /\ Ha \in 0..MaxSlots /\ F \in 0..MaxSlots /\ MaxSlots \in Nat
        /\ before \subseteq Slots
    BY <1>1, Bounds DEF LocalTypes, Writers, SlotTypes
  <1>3. \A d \in before : d <= Ha /\ d \in Int
    BY <1>1, Bounds DEF LocalTypes, Writers, Slots
  <1>4. ASSUME rd.F >= Ha, Return(Whole(rd.F)) PROVE Reader' /\ Planned'
    <2>1. PICK H : H = rd.F
      BY Zenon
    <2>2. \A d \in before : d <= H
      BY <1>2, <1>3, <1>4, <2>1
    <2>3. \A b \in Blocks : Sound(b, H)
      BY <1>1, <1>2, <2>1, <2>2, CleanToF, Zenon DEF Sound
    <2> QED BY <1>0, <1>4, <2>1, <2>3, WholeKeeps, ReturnKeeps, Zenon
  <1>5. ASSUME rd.F < Ha, rd' = [rd EXCEPT !.Ha = Ha, !.h = rd.F + 1], Goto("hop"), plan' = plan
        PROVE  Reader' /\ Planned'
    <2>1. /\ rd'.F = rd.F /\ rd'.Ha = Ha /\ rd'.h = rd.F + 1 /\ rd'.umin = rd.umin
          /\ rd'.gap = rd.gap /\ rd'.ustar = rd.ustar /\ rpc' = "hop"
          /\ before' = before /\ stage' = stage /\ outcome' = outcome /\ range' = range /\ F' = F /\ Ha' = Ha
      BY <1>0, <1>1, <1>5 DEF Goto, LocalTypes, slotVars
    <2>2. LocalTypes'
      <3>1. rd' \in [F : 0..MaxSlots, Ha : 0..MaxSlots, h : 0..(MaxSlots + 1), umin : 0..MaxSlots,
                     failed : BOOLEAN, gap : BOOLEAN, ustar : [Blocks -> 0..MaxSlots]]
        <4>1. rd.F + 1 \in 0..(MaxSlots + 1) /\ Ha \in 0..MaxSlots
          BY <1>2
        <4> QED BY <1>1, <1>5, <4>1, Zenon DEF LocalTypes
      <3> QED BY <1>1, <2>1, <3>1, Zenon DEF LocalTypes
    <2>3. \A u \in Slots : u < rd.F + 1 => Passed(u)'
      <3>1. \A u \in Slots : u < rd.F + 1 => u <= F
        BY <1>1, <1>2 DEF Slots
      <3>2. \A u \in Slots : u < rd.F + 1 => Completed(u)
        BY <3>1, Zenon DEF Writers
      <3> QED BY <2>1, <3>2, Zenon DEF Passed, Completed
    <2>4. \A b \in Blocks : rd'.ustar[b] = 0
      BY <1>1, <2>1, Zenon DEF Unclaimed
    <2>5. /\ rd'.F < rd'.Ha /\ rd'.Ha <= Ha' /\ rd'.h \in (rd'.F + 1)..(rd'.Ha + 1)
          /\ rd'.umin < rd'.h /\ rd'.F <= F'
      BY <1>1, <1>2, <1>5, <2>1 DEF Unclaimed
    <2>6. AtHop'
      BY <1>3, <2>1, <2>3, <2>4, <2>5, Zenon DEF AtHop
    <2>7. Planned'
      <3>1. plan'.kind = "none"
        BY <1>1, <1>5 DEF NoPlan
      <3> QED BY <3>1 DEF Planned
    <2> QED BY <1>1, <1>5, <2>1, <2>2, <2>5, <2>6, <2>7 DEF Reader
  <1> QED BY <1>4, <1>5, Zenon DEF LoadHa

\* completed_upto(h) + 1: the slots from h up to it are completed, and it is not.
LEMMA FirstUnresolved ==
    ASSUME NEW h \in 1..(MaxSlots + 1)
    PROVE  /\ NextUnresolved(h) \in h..(MaxSlots + 1)
           /\ NextUnresolved(h) \in Slots => ~Completed(NextUnresolved(h))
           /\ \A u \in Slots : h <= u /\ u < NextUnresolved(h) => Completed(u)
  <1> DEFINE U == {u \in h..(MaxSlots + 1) : u \in Slots => ~Completed(u)}
  <1>0. MaxSlots \in Nat /\ h \in Nat
    BY Bounds
  <1>1. MaxSlots + 1 \in U
    BY <1>0 DEF Slots
  <1>2. U \in SUBSET Nat
    BY <1>0
  <1>3. NextUnresolved(h) \in U /\ \A u \in U : NextUnresolved(h) <= u
    <2> HIDE DEF U
    <2>1. Min(U) \in U /\ \A u \in U : Min(U) <= u
      BY <1>1, <1>2, MinIsLeast, Zenon
    <2>2. NextUnresolved(h) = Min(U)
      BY Zenon DEF NextUnresolved, U
    <2> QED BY <2>1, <2>2, Zenon
  <1>4. PICK n : n = NextUnresolved(h)
    BY Zenon
  <1>5. n \in h..(MaxSlots + 1) /\ (n \in Slots => ~Completed(n)) /\ \A u \in U : n <= u
    BY <1>3, <1>4, Zenon
  <1>6. ASSUME NEW u \in Slots, h <= u, u < n, ~Completed(u) PROVE FALSE
    <2>1. u \in h..(MaxSlots + 1) /\ ~(n <= u)
      BY <1>0, <1>5, <1>6 DEF Slots
    <2>2. u \in U
      BY <1>6, <2>1, Zenon
    <2> QED BY <1>5, <2>1, <2>2, Zenon
  <1> QED BY <1>4, <1>5, <1>6, Zenon

\* One hop leaves behind the completed slots and the unresolved one it stopped at, which it records
\* unless it writes outside the read.
LEMMA HopStep ==
    ASSUME Writers, Reader, Hop
    PROVE  Reader' /\ Planned'
  <1>0. rpc = "hop" /\ rpc' = rpc /\ plan' = plan /\ before' = before /\ UNCHANGED <<range, stage, outcome, F, Ha>>
    BY DEF Hop, slotVars
  <1>1. AtHop /\ LocalTypes /\ rd.F <= F /\ plan = NoPlan
    BY <1>0 DEF Reader
  <1>2. PICK u : u = NextUnresolved(rd.h)
    BY Zenon
  <1>3. /\ rd.h \in 1..(MaxSlots + 1) /\ rd.h <= rd.Ha + 1 /\ rd.Ha \in 0..MaxSlots /\ MaxSlots \in Nat
        /\ rd.umin \in 0..MaxSlots /\ rd.F \in 0..MaxSlots /\ rd.F + 1 <= rd.h
        /\ rd.umin < rd.h
    BY <1>1, Bounds DEF AtHop, LocalTypes
  <1>4. /\ u \in rd.h..(MaxSlots + 1) /\ \A v \in Slots : rd.h <= v /\ v < u => Completed(v)
        /\ u <= rd.Ha
    BY <1>2, <1>3, FirstUnresolved, Zenon DEF Hop
  <1>5. u \in Slots /\ u \in Nat /\ u + 1 \in 0..(MaxSlots + 1) /\ u + 1 <= rd.Ha + 1 /\ u # 0
    BY <1>3, <1>4 DEF Slots
  <1>6. \A v \in Slots : v < u + 1 => v < rd.h \/ (rd.h <= v /\ v < u) \/ v = u
    BY <1>3, <1>5 DEF Slots
  <1>7. /\ rd' \in [F : 0..MaxSlots, Ha : 0..MaxSlots, h : 0..(MaxSlots + 1), umin : 0..MaxSlots,
                    failed : BOOLEAN, gap : BOOLEAN, ustar : [Blocks -> 0..MaxSlots]]
        /\ rd'.h = u + 1 /\ rd'.F = rd.F /\ rd'.Ha = rd.Ha /\ rd'.ustar = rd.ustar
        /\ rd.umin # 0 => rd'.umin = rd.umin
        /\ rd.gap => rd'.gap
        /\ Hits(u) => rd'.umin # 0 /\ rd'.umin <= u /\ (rd'.gap \/ Active(u))
        /\ rd'.umin < u + 1
    <2> DEFINE RD == [F : 0..MaxSlots, Ha : 0..MaxSlots, h : 0..(MaxSlots + 1), umin : 0..MaxSlots,
                      failed : BOOLEAN, gap : BOOLEAN, ustar : [Blocks -> 0..MaxSlots]]
    <2>1. rd \in RD
      BY <1>1 DEF LocalTypes
    <2>2. CASE Hits(u)
      <3>1. PICK um \in 0..MaxSlots : um = IF rd.umin = 0 THEN u ELSE rd.umin
        BY <1>3, <1>4
      <3>2. PICK g \in BOOLEAN : g = (rd.gap \/ ~Active(u))
        BY Zenon
      <3>3. PICK f \in BOOLEAN : f = (rd.failed \/ (Active(u) /\ outcome[u] = "failed"))
        BY Zenon
      <3>4. rd' = [rd EXCEPT !.umin = um, !.gap = g, !.failed = f, !.h = u + 1]
        BY <1>2, <2>2, <3>1, <3>2, <3>3, Zenon DEF Hop
      <3>5. rd' \in RD /\ rd'.h = u + 1 /\ rd'.F = rd.F /\ rd'.Ha = rd.Ha /\ rd'.ustar = rd.ustar
            /\ rd'.umin = um /\ rd'.gap = g
        BY <1>5, <2>1, <3>4, Zenon
      <3>6. um <= u /\ um # 0 /\ um < u + 1
        BY <1>3, <1>4, <1>5, <3>1
      <3> QED BY <3>1, <3>2, <3>5, <3>6, Zenon
    <2>3. CASE ~Hits(u)
      <3>1. rd' = [rd EXCEPT !.h = u + 1]
        BY <1>2, <2>3, Zenon DEF Hop
      <3>2. rd' \in RD /\ rd'.h = u + 1 /\ rd'.F = rd.F /\ rd'.Ha = rd.Ha /\ rd'.ustar = rd.ustar
            /\ rd'.umin = rd.umin /\ rd'.gap = rd.gap
        BY <1>5, <2>1, <3>1
      <3> QED BY <1>3, <1>4, <2>3, <3>2
    <2> QED BY <2>2, <2>3, Zenon
  <1>8. LocalTypes'
    BY <1>0, <1>1, <1>7, Zenon DEF LocalTypes
  <1>9. ASSUME NEW v \in Slots, v < u + 1 PROVE Passed(v)'
    <2>1. v < rd.h => Passed(v)
      BY <1>1, Zenon DEF AtHop
    <2>2. Passed(v) => Passed(v)'
      BY <1>0, <1>7, Zenon DEF Passed, Completed, Active
    <2>3. rd.h <= v /\ v < u => Passed(v)'
      BY <1>0, <1>4, Zenon DEF Passed, Completed
    <2>4. v = u => Passed(v)'
      BY <1>0, <1>7, Zenon DEF Passed, Hits, Active
    <2> QED BY <1>6, <1>9, <2>1, <2>2, <2>3, <2>4, Zenon
  <1>10. AtHop'
    <2>1. rd'.h \in (rd'.F + 1)..(rd'.Ha + 1)
      BY <1>3, <1>4, <1>5, <1>7
    <2>2. \A v \in Slots : v < rd'.h => Passed(v)'
      BY <1>7, <1>9, Zenon
    <2> QED BY <1>0, <1>1, <1>7, <2>1, <2>2, Zenon DEF AtHop
  <1>11. Planned'
    <2>1. plan'.kind = "none"
      BY <1>0, <1>1 DEF NoPlan
    <2> QED BY <2>1 DEF Planned
  <1> QED BY <1>0, <1>1, <1>7, <1>8, <1>10, <1>11 DEF Reader

\* When the hops are over, every slot up to Ha has been passed: with no umin the whole range is clean at
\* Ha, and without a gap the walk may start at umin, all slots below it being resolved or elsewhere.
LEMMA EndHopStep ==
    ASSUME Writers, Reader, EndHop
    PROVE  Reader' /\ Planned'
  <1>0. rpc = "hop" /\ UNCHANGED <<slotVars, before>> /\ NextUnresolved(rd.h) > rd.Ha
    BY DEF EndHop
  <1>1. AtHop /\ LocalTypes /\ plan = NoPlan
    BY <1>0 DEF Reader
  <1>2. /\ rd.h \in 1..(MaxSlots + 1) /\ rd.h <= rd.Ha + 1 /\ rd.Ha \in 0..MaxSlots /\ MaxSlots \in Nat
        /\ rd.umin \in 0..MaxSlots /\ rd.umin < rd.h
    BY <1>1, Bounds DEF AtHop, LocalTypes
  <1>3. \A u \in Slots : u <= rd.Ha => Passed(u)
    <2>1. PICK n \in rd.h..(MaxSlots + 1) : n = NextUnresolved(rd.h)
      BY <1>2, FirstUnresolved, Zenon
    <2>2. \A u \in Slots : rd.h <= u /\ u < n => Completed(u)
      BY <1>2, <2>1, FirstUnresolved, Zenon
    <2>3. \A u \in Slots : u <= rd.Ha => u < rd.h \/ (rd.h <= u /\ u < n)
      BY <1>0, <1>2, <2>1 DEF Slots
    <2> QED BY <1>1, <2>2, <2>3, Zenon DEF AtHop, Passed
  <1>4. \A u \in Slots : Completed(u) => Active(u) /\ ~Pending(u)
    BY DEF Writers, SlotTypes, Completed, Active, Pending, Stages, Outcomes
  <1>5. ASSUME rd.umin = 0, Return(Whole(rd.Ha)) PROVE Reader' /\ Planned'
    <2>1. PICK H \in 0..MaxSlots : H = rd.Ha
      BY <1>2, Zenon
    <2>2. \A u \in Slots : u <= H => Completed(u) \/ (Active(u) /\ range[u] \cap Blocks = {})
      BY <1>3, <1>5, <2>1, Zenon DEF Passed
    <2>3. ASSUME NEW b \in Blocks PROVE Sound(b, H)
      <3>1. Clean(b, H) /\ \A u \in Slots : u <= H => Active(u)
        BY <1>4, <2>2, Zenon DEF Clean
      <3>2. \A d \in before : d <= H
        BY <1>1, <2>1, Zenon DEF AtHop
      <3> QED BY <3>1, <3>2, Zenon DEF Sound
    <2> QED BY <1>0, <1>5, <2>1, <2>3, WholeKeeps, ReturnKeeps, Zenon
  <1>6. ASSUME Return(fenced(rd.failed)) PROVE Reader' /\ Planned'
    BY <1>0, <1>6, ReturnKeeps, FencedKeeps, Zenon
  <1>7. ASSUME rd.umin # 0, ~rd.gap, rd' = [rd EXCEPT !.h = rd.umin], Goto("split"), plan' = plan
        PROVE  Reader' /\ Planned'
    <2>1. /\ rd'.F = rd.F /\ rd'.Ha = rd.Ha /\ rd'.h = rd.umin /\ rd'.umin = rd.umin /\ rd'.ustar = rd.ustar
          /\ rpc' = "split" /\ before' = before
          /\ stage' = stage /\ outcome' = outcome /\ range' = range /\ F' = F /\ Ha' = Ha
      BY <1>0, <1>1, <1>7 DEF Goto, LocalTypes, slotVars
    <2>2. LocalTypes'
      <3>1. rd' \in [F : 0..MaxSlots, Ha : 0..MaxSlots, h : 0..(MaxSlots + 1), umin : 0..MaxSlots,
                     failed : BOOLEAN, gap : BOOLEAN, ustar : [Blocks -> 0..MaxSlots]]
        <4>1. rd.umin \in 0..(MaxSlots + 1)
          BY <1>2
        <4> QED BY <1>1, <1>7, <4>1 DEF LocalTypes
      <3> QED BY <1>1, <2>1, <3>1, Zenon DEF LocalTypes
    <2>3. \A u \in Slots : u <= rd.Ha => Active(u)
      BY <1>3, <1>4, <1>7, Zenon DEF Passed
    <2>4. \A u \in Slots : u <= rd.umin - 1 => Completed(u) \/ range[u] \cap Blocks = {}
      <3>1. \A u \in Slots : u <= rd.umin - 1 => u <= rd.Ha /\ ~(rd.umin <= u)
        BY <1>2 DEF Slots
      <3> QED BY <1>3, <3>1, Zenon DEF Passed
    <2>5. ASSUME NEW b \in Blocks
          PROVE  /\ rd'.ustar[b] < rd'.h
                 /\ Clean(b, Reach(b))'
                 /\ \A d \in before' : b \in range'[d] /\ d < rd'.h => (d <= Reach(b))'
      <3>1. rd'.ustar[b] = 0
        BY <1>1, <2>1, Zenon DEF AtHop
      <3>2. PICK H : H = rd.umin - 1
        BY Zenon
      <3>3. Reach(b)' = H
        BY <2>1, <3>1, <3>2, Zenon DEF Reach
      <3>4. Clean(b, H)
        BY <1>4, <2>4, <3>2, Zenon DEF Clean
      <3>5. Clean(b, H)'
        BY <2>1, <3>4, Zenon DEF Clean, Pending, AckedOn
      <3>6. \A d \in before : d < rd.umin => d <= H
        BY <1>1, <1>2, <3>2, Bounds DEF LocalTypes, Slots
      <3>7. 0 < rd.umin
        BY <1>2, <1>7
      <3> QED BY <2>1, <3>1, <3>3, <3>5, <3>6, <3>7, Zenon DEF Clean
    <2>6. rd'.h \in rd'.umin..(rd'.Ha + 1)
      BY <1>2, <2>1
    <2>7. AtSplit'
      BY <1>1, <1>7, <2>1, <2>3, <2>5, <2>6, Zenon DEF AtSplit, AtHop, Active
    <2>8. Planned'
      <3>1. plan'.kind = "none"
        BY <1>1, <1>7 DEF NoPlan
      <3> QED BY <3>1 DEF Planned
    <2> QED BY <1>1, <1>7, <2>1, <2>2, <2>7, <2>8 DEF Reader
  <1> QED BY <1>5, <1>6, <1>7, Zenon DEF EndHop

\* One step of the walk on one block: an acked slot d shadows everything beneath it, a pending one stops
\* the block's horizon below d unless it is stopped already, and any other leaves it alone.
LEMMA WalkBlock ==
    ASSUME Writers, NEW d \in Slots, NEW b \in Blocks,
           NEW old \in 0..MaxSlots, NEW new \in 0..MaxSlots, old < d,
           new = (IF outcome[d] = "empty" \/ b \notin range[d] THEN old
                  ELSE IF outcome[d] = "acked" THEN 0
                  ELSE IF old = 0 THEN d ELSE old),
           NEW R, R = (IF old = 0 THEN d - 1 ELSE old - 1),
           NEW Q, Q = (IF new = 0 THEN d ELSE new - 1),
           Clean(b, R),
           NEW B \in SUBSET Slots, \A e \in B : outcome[e] = "acked",
           \A e \in B : b \in range[e] /\ e < d => e <= R
    PROVE  new < d + 1 /\ Clean(b, Q) /\ \A e \in B : b \in range[e] /\ e < d + 1 => e <= Q
  <1>0. d \in Nat /\ d # 0 /\ R \in Int /\ Q \in Int /\ Slots \subseteq Nat /\ MaxSlots \in Nat /\ B \subseteq Nat
    BY Bounds DEF Slots
  <1>1. \A u \in Slots : Pending(u) <=> outcome[u] # "empty" /\ outcome[u] # "acked"
    BY DEF Writers, SlotTypes, Outcomes, Pending
  <1>2. ASSUME NEW e \in B, e < d + 1 PROVE e < d \/ e = d
    <2>1. e \in Nat
      BY <1>0, Zenon
    <2> QED BY <1>0, <1>2, <2>1
  <1>3. CASE outcome[d] = "acked" /\ b \in range[d]
    <2>1. new = 0 /\ Q = d
      BY <1>3
    <2>2. ASSUME NEW u \in Slots, u <= d, Pending(u) PROVE u < d
      <3>1. u \in Nat /\ u # d
        BY <1>0, <1>1, <1>3, <2>2, Zenon
      <3> QED BY <1>0, <2>2, <3>1
    <2>3. Clean(b, Q)
      <3>1. d <= d
        BY <1>0
      <3> QED BY <1>3, <2>1, <2>2, <3>1, Zenon DEF Clean, AckedOn
    <2> QED BY <1>0, <2>1, <2>3
  <1>4. CASE Pending(d) /\ b \in range[d]
    <2>1. new = (IF old = 0 THEN d ELSE old)
      BY <1>1, <1>4, Zenon
    <2>2. Q = R /\ new < d + 1
      BY <1>0, <2>1
    <2>3. \A e \in B : e # d
      BY <1>1, <1>4, Zenon
    <2> QED BY <1>2, <2>2, <2>3, Zenon
  <1>5. CASE outcome[d] = "empty" \/ b \notin range[d]
    <2>1. new = old
      BY <1>5, Zenon
    <2>2. \A e \in B : b \in range[e] => e # d
      BY <1>5
    <2>3. CASE old = 0
      <3>1. Q = d /\ R = d - 1
        BY <2>1, <2>3, Zenon
      <3>2. \A u \in Slots : u <= d /\ u # d => u <= R
        BY <1>0, <3>1
      <3>3. \A a \in Slots : a <= R => a <= Q
        BY <1>0, <3>1
      <3>4. ~(b \in range[d] /\ Pending(d))
        BY <1>1, <1>5, Zenon
      <3>5. Clean(b, Q)
        BY <3>1, <3>2, <3>3, <3>4, Zenon DEF Clean
      <3> QED BY <1>0, <2>1, <2>3, <3>1, <3>5
    <2>4. CASE old # 0
      <3>1. Q = R /\ new < d + 1
        BY <1>0, <2>1, <2>4
      <3> QED BY <1>2, <2>2, <3>1, Zenon
    <2> QED BY <2>3, <2>4
  <1> QED BY <1>1, <1>3, <1>4, <1>5, Zenon

\* The walk of split keeps every block's horizon clean and fresh up to the slot it has reached.
LEMMA SplitSlotStep ==
    ASSUME Writers, Reader, SplitSlot
    PROVE  Reader' /\ Planned'
  <1>0. /\ rpc = "split" /\ rpc' = rpc /\ plan' = plan /\ before' = before
        /\ UNCHANGED <<range, stage, outcome, F, Ha>> /\ rd.h <= rd.Ha
    BY DEF SplitSlot, slotVars
  <1>1. AtSplit /\ LocalTypes /\ plan = NoPlan
    BY <1>0 DEF Reader
  <1>2. PICK d : d = rd.h
    BY Zenon
  <1>3. /\ d \in Slots /\ d \in Nat /\ d <= rd.Ha /\ d + 1 \in 0..(MaxSlots + 1) /\ rd.umin <= d
        /\ rd.Ha \in 0..MaxSlots /\ rd.umin \in 0..MaxSlots
    BY <1>0, <1>1, <1>2, Bounds DEF AtSplit, LocalTypes, Slots
  <1>4. Active(d)
    BY <1>1, <1>3, Zenon DEF AtSplit
  <1>5. PICK us : us = Ustar(d, rd.ustar)
    BY Zenon
  <1>6. /\ \A b \in Blocks : us[b] = (IF outcome[d] = "empty" \/ b \notin range[d] THEN rd.ustar[b]
                                      ELSE IF outcome[d] = "acked" THEN 0
                                      ELSE IF rd.ustar[b] = 0 THEN d ELSE rd.ustar[b])
        /\ us \in [Blocks -> 0..MaxSlots]
    <2>1. d \in 0..MaxSlots /\ 0 \in 0..MaxSlots /\ rd.ustar \in [Blocks -> 0..MaxSlots]
      BY <1>1, <1>3, Bounds DEF LocalTypes, Slots
    <2> QED BY <1>5, <2>1 DEF Ustar
  <1>7. rd' = [rd EXCEPT !.h = d + 1, !.ustar = us]
    BY <1>2, <1>4, <1>5, Zenon DEF SplitSlot
  <1>8. /\ rd' \in [F : 0..MaxSlots, Ha : 0..MaxSlots, h : 0..(MaxSlots + 1), umin : 0..MaxSlots,
                    failed : BOOLEAN, gap : BOOLEAN, ustar : [Blocks -> 0..MaxSlots]]
        /\ rd'.h = d + 1 /\ rd'.F = rd.F /\ rd'.Ha = rd.Ha /\ rd'.umin = rd.umin /\ rd'.ustar = us
    BY <1>1, <1>3, <1>6, <1>7, Zenon DEF LocalTypes
  <1>9. LocalTypes'
    BY <1>0, <1>1, <1>8, Zenon DEF LocalTypes
  <1>10. ASSUME NEW b \in Blocks
         PROVE  /\ rd'.ustar[b] < rd'.h
                /\ Clean(b, Reach(b))'
                /\ \A e \in before' : b \in range'[e] /\ e < rd'.h => (e <= Reach(b))'
    <2>1. PICK R : R = Reach(b)
      BY Zenon
    <2>2. PICK old \in 0..MaxSlots : old = rd.ustar[b]
      BY <1>1 DEF LocalTypes
    <2>3. PICK new \in 0..MaxSlots : new = us[b]
      BY <1>6
    <2>4. PICK Q : Q = IF new = 0 THEN d ELSE new - 1
      BY Zenon
    <2>5. R = IF old = 0 THEN d - 1 ELSE old - 1
      BY <1>2, <2>1, <2>2, Zenon DEF Reach
    <2>6. old < d /\ Clean(b, R) /\ \A e \in before : b \in range[e] /\ e < d => e <= R
      BY <1>1, <1>2, <2>1, <2>2, Zenon DEF AtSplit
    <2>7. before \in SUBSET Slots /\ \A e \in before : outcome[e] = "acked"
      BY <1>1, Zenon DEF LocalTypes
    <2>8. new = (IF outcome[d] = "empty" \/ b \notin range[d] THEN old
                 ELSE IF outcome[d] = "acked" THEN 0
                 ELSE IF old = 0 THEN d ELSE old)
      BY <1>6, <2>2, <2>3, Zenon
    <2>9. new < d + 1 /\ Clean(b, Q) /\ \A e \in before : b \in range[e] /\ e < d + 1 => e <= Q
      BY <1>3, <2>4, <2>5, <2>6, <2>7, <2>8, WalkBlock
    <2>10. Reach(b)' = Q
      <3>1. (d + 1) - 1 = d
        BY <1>3
      <3>2. rd'.ustar[b] = new /\ rd'.h = d + 1
        BY <1>8, <2>3, Zenon
      <3>3. new = 0 => Reach(b)' = rd'.h - 1
        BY <3>2 DEF Reach
      <3>4. new # 0 => Reach(b)' = rd'.ustar[b] - 1
        BY <3>2 DEF Reach
      <3>5. new = 0 => Reach(b)' = d
        BY <3>1, <3>2, <3>3, Zenon
      <3>6. new # 0 => Reach(b)' = new - 1
        BY <3>2, <3>4, Zenon
      <3> QED BY <2>4, <3>5, <3>6, Zenon
    <2>11. Clean(b, Q)'
      BY <1>0, <2>9, Zenon DEF Clean, Pending, AckedOn
    <2> QED BY <1>0, <1>8, <2>3, <2>9, <2>10, <2>11, Zenon DEF Clean
  <1>11. rd'.h \in rd'.umin..(rd'.Ha + 1)
    BY <1>3, <1>8
  <1>12. AtSplit'
    BY <1>0, <1>1, <1>8, <1>10, <1>11, Zenon DEF AtSplit, Active
  <1>13. Planned'
    <2>1. plan'.kind = "none"
      BY <1>0, <1>1 DEF NoPlan
    <2> QED BY <2>1 DEF Planned
  <1> QED BY <1>0, <1>1, <1>9, <1>12, <1>13 DEF Reader

\* split returns: what the walk left for each block is the horizon of the segment it lies in.
LEMMA EndSplitStep ==
    ASSUME Writers, Reader, EndSplit
    PROVE  Reader' /\ Planned'
  <1>0. rpc = "split" /\ UNCHANGED <<slotVars, before>> /\ rd.h > rd.Ha
    BY DEF EndSplit
  <1>1. AtSplit /\ LocalTypes /\ plan = NoPlan
    BY <1>0 DEF Reader
  <1>2. CASE Len(Segments) > MaxSegments
    <2>1. Return(fenced(rd.failed))
      BY <1>2, Zenon DEF EndSplit
    <2> QED BY <1>0, <2>1, ReturnKeeps, FencedKeeps, Zenon
  <1>3. CASE ~(Len(Segments) > MaxSegments)
    <2>1. Return([kind |-> "segments", segs |-> Segments])
      BY <1>3, Zenon DEF EndSplit
    <2>2. plan' = [kind |-> "segments", segs |-> Segments] /\ before' = before
          /\ UNCHANGED <<range, stage, outcome>>
      BY <1>0, <2>1 DEF Return, slotVars
    <2>3. SegmentsTile' /\ \A b \in Blocks : PlannedH(b)' = HorizonOf(b)
      BY <1>3, <2>2, SplitTiles, Zenon
    <2>4. ASSUME NEW b \in Blocks PROVE Sound(b, PlannedH(b))'
      <3>1. /\ rd.ustar[b] \in 0..MaxSlots /\ rd.h = rd.Ha + 1 /\ rd.Ha \in 0..MaxSlots
            /\ rd.ustar[b] < rd.h /\ MaxSlots \in Nat
        BY <1>0, <1>1, Bounds DEF AtSplit, LocalTypes
      <3>2. PICK H : H = HorizonOf(b)
        BY Zenon
      <3>3. H \in 0..MaxSlots /\ H <= rd.Ha /\ H = Reach(b)
        BY <3>1, <3>2 DEF HorizonOf, Reach
      <3>4. \A u \in Slots : u <= H => Active(u)
        <4>1. \A u \in Slots : u <= H => u <= rd.Ha
          BY <3>1, <3>3 DEF Slots
        <4> QED BY <1>1, <4>1, Zenon DEF AtSplit
      <3>5. Clean(b, H)
        BY <1>1, <3>3, Zenon DEF AtSplit
      <3>6. \A d \in before : b \in range[d] => d <= H
        <4>1. \A d \in before : d < rd.h
          BY <1>1, <3>1, Bounds DEF AtSplit, LocalTypes, Slots
        <4> QED BY <1>1, <3>3, <4>1, Zenon DEF AtSplit
      <3>7. Clean(b, H)' /\ \A u \in Slots : u <= H => Active(u)'
        BY <2>2, <3>4, <3>5, Zenon DEF Clean, Pending, AckedOn, Active
      <3>8. PlannedH(b)' = H
        BY <2>3, <3>2, Zenon
      <3> QED BY <2>2, <3>3, <3>6, <3>7, <3>8, Zenon DEF Sound, Clean
    <2>5. Planned'
      BY <2>3, <2>4, Zenon DEF Planned
    <2> QED BY <1>0, <2>1, <2>5, ReturnKeeps, Zenon
  <1> QED BY <1>2, <1>3

\* The read is over: nothing is planned any more.
LEMMA ForgetStep ==
    ASSUME Reader, Forget
    PROVE  Reader' /\ Planned'
  <1>1. /\ Unclaimed /\ rd' = rd /\ rpc' = "idle" /\ plan' = NoPlan /\ before' = {}
        /\ UNCHANGED <<stage, outcome>>
    BY DEF Forget, Goto, slotVars, Reader
  <1>2. LocalTypes'
    BY <1>1, Zenon DEF Reader, LocalTypes
  <1>3. Unclaimed'
    BY <1>1, Zenon DEF Unclaimed
  <1>4. Planned'
    <2>1. plan'.kind = "none"
      BY <1>1 DEF NoPlan
    <2> QED BY <2>1 DEF Planned
  <1> QED BY <1>1, <1>2, <1>3, <1>4 DEF Reader
-----------------------------------------------------------------------------
\* The inductive invariant holds when a session is reset, before any write or read.
LEMMA InitIInv == Init => IInv
  <1> SUFFICES ASSUME Init PROVE IInv
    OBVIOUS
  <1>0. MaxSlots \in Nat
    BY Bounds
  <1>1. Writers
    BY <1>0 DEF Init, Writers, SlotTypes, Stages, Outcomes, Slots, Completed
  <1>2. NoLocals \in [F : 0..MaxSlots, Ha : 0..MaxSlots, h : 0..(MaxSlots + 1), umin : 0..MaxSlots,
                      failed : BOOLEAN, gap : BOOLEAN, ustar : [Blocks -> 0..MaxSlots]]
    <2>1. [b \in Blocks |-> 0] \in [Blocks -> 0..MaxSlots]
      BY <1>0
    <2> QED BY <1>0, <2>1 DEF NoLocals
  <1>3. LocalTypes
    BY <1>2 DEF Init, LocalTypes
  <1>4. Unclaimed
    BY DEF Init, Unclaimed, NoLocals
  <1>5. Planned
    BY DEF Init, Planned, NoPlan
  <1> QED BY <1>1, <1>3, <1>4, <1>5 DEF Init, IInv, Reader

\* Every step of a writer or of the planner keeps it.
LEMMA NextIInv == IInv /\ [Next]_vars => IInv'
  <1> SUFFICES ASSUME IInv, [Next]_vars PROVE IInv'
    OBVIOUS
  <1>0. Writers /\ Reader /\ Planned
    BY Zenon DEF IInv
  <1>1. CASE WriterStep
    <2>1. Writers' /\ Grows /\ ReaderUnchanged
      BY <1>0, <1>1, WritersStep
    <2>2. UNCHANGED <<plan, before>>
      BY <2>1 DEF ReaderUnchanged
    <2> QED BY <1>0, <2>1, <2>2, ReaderStays, PlannedStays DEF IInv
  <1>2. ASSUME UNCHANGED slotVars PROVE Writers'
    BY <1>0, <1>2 DEF slotVars, Writers, SlotTypes, Completed
  <1>3. CASE LoadF
    BY <1>0, <1>2, <1>3, LoadFStep DEF IInv, LoadF
  <1>4. CASE LoadHa
    BY <1>0, <1>2, <1>4, LoadHaStep DEF IInv, LoadHa
  <1>5. CASE Hop
    BY <1>0, <1>2, <1>5, HopStep DEF IInv, Hop
  <1>6. CASE EndHop
    BY <1>0, <1>2, <1>6, EndHopStep DEF IInv, EndHop
  <1>7. CASE SplitSlot
    BY <1>0, <1>2, <1>7, SplitSlotStep DEF IInv, SplitSlot
  <1>8. CASE EndSplit
    BY <1>0, <1>2, <1>8, EndSplitStep DEF IInv, EndSplit
  <1>9. CASE Forget
    BY <1>0, <1>2, <1>9, ForgetStep DEF IInv, Forget
  <1>10. CASE UNCHANGED vars
    <2>1. UNCHANGED slotVars /\ ReaderUnchanged
      BY <1>10 DEF vars, ReaderUnchanged
    <2>2. Grows
      BY <1>0, <2>1 DEF Grows, slotVars, Active, Completed, Pending, Writers, SlotTypes
    <2>3. UNCHANGED <<plan, before>>
      BY <2>1 DEF ReaderUnchanged
    <2> QED BY <1>0, <1>2, <2>1, <2>2, <2>3, ReaderStays, PlannedStays DEF IInv
  <1> QED BY <1>1, <1>3, <1>4, <1>5, <1>6, <1>7, <1>8, <1>9, <1>10, Zenon DEF Next, WriterStep

\* The invariant of the planner: what it has seen below its position is resolved, elsewhere or recorded,
\* and each block's horizon so far is clean and fresh, whatever the writers did since.
THEOREM Inductive == Spec => []IInv
  BY InitIInv, NextIInv, PTL DEF Spec

\* The segments of a plan tile the range in order and number at most k_max_segments (split, one_segment).
THEOREM PlansTile == Spec => []SegmentsTile
  <1>1. IInv => SegmentsTile
    BY Zenon DEF IInv, Planned, SegmentsTile
  <1> QED BY <1>1, Inductive, PTL

\* A read never misses a write acknowledged before it began: compute loads Ha after that write raised it,
\* and the walk stops a block's horizon only above its acked slots.
THEOREM PlansAreFresh == Spec => []HorizonCoversAcked
  <1>1. IInv => HorizonCoversAcked
    BY Zenon DEF IInv, Planned, HorizonCoversAcked, Sound
  <1> QED BY <1>1, Inductive, PTL

\* A read never returns data that is not durable: at or below a block's horizon an unresolved slot is
\* shadowed by a later acked one, although compute and split hold no lock while writes resolve.
THEOREM PlansAreClean == Spec => []HorizonShadowsUnresolved
  <1>1. IInv => HorizonShadowsUnresolved
    BY Zenon DEF IInv, Planned, HorizonShadowsUnresolved, Sound, Clean, Pending, AckedOn
  <1> QED BY <1>1, Inductive, PTL
=============================================================================
