------------------------- MODULE ReadRouteMapProofs -------------------------
(***************************************************************************)
(* The read router for any number of members, blocks, reads, writes and    *)
(* rounds.  On one queue a dLSN is always in one of the two tiers, and the *)
(* member a read goes to first holds what the read must return; on any     *)
(* number of queues the reclaim floor is applied everywhere.               *)
(***************************************************************************)
EXTENDS ReadRouteMap, FiniteSetTheorems, TLAPS

Dlsns == L..(L + MaxSlots)
Entries == [dlsn : Slots, held : SUBSET Members, blocks : SUBSET Blocks]
Reads ==
    [blocks : SUBSET Blocks, need : SUBSET Slots, f : Dlsns, hmax : Dlsns, batch : SUBSET Entries,
     cand : Members \cup {"none"}, tried : SUBSET Members]

\* No member's watermark, login's probe or a later reply, passes what the member has applied.
SyncedApplied ==
    /\ has \in [Members -> SUBSET Slots] /\ tomb \in [Members -> SUBSET Slots]
    /\ base \in [Members -> BOOLEAN] /\ synced \in [Members -> Int]
    /\ \A i \in Members : Unsynced <= synced[i] /\ synced[i] <= AppliedUpto(i)

SlotTypes ==
    /\ next \in (L + 1)..(L + MaxSlots + 1)
    /\ range \in [Slots -> SUBSET Blocks] /\ res \in [Slots -> {"none", "acked", "empty"}]
    /\ holders \in [Slots -> SUBSET Members] /\ legs \in [Slots -> SUBSET Members]
    /\ bit \in SUBSET Slots /\ verdict \in SUBSET Slots
    /\ leg \in [slot : Dlsns, leader : Members \cup {"none"}, step : {"idle", "note", "resolve"}]

MapTypes ==
    /\ pending \in SUBSET Entries /\ hint \in Int
    /\ miss \in [Members -> [Blocks -> Dlsns]] /\ folded \in Dlsns

RingTypes ==
    /\ rd \in [Rings -> Reads]
    /\ rpc \in [Rings -> {"idle", "planned", "fold", "apply", "pick", "overlay", "serve"}]

\* A slot with a verdict or an acknowledging quorum, and one a round or the refusals of all legs emptied.
Emptied(d) ==
    \/ \E live \in SUBSET Members :
         Cardinality(live) >= Quorum /\ \A i \in live : d \in tomb[i] /\ d \notin has[i]
    \/ legs[d] = Members /\ \A i \in Members : d \notin has[i]

Slotwise(d) ==
    /\ res[d] # "none" \/ d \in bit \/ legs[d] # {} => d < next
    /\ \A i \in holders[d] : d \in has[i]
    /\ \A i \in Members : d \in tomb[i] => res[d] = "empty"
    /\ res[d] = "empty" => Emptied(d)
    /\ res[d] = "acked" => Durable(d)
    /\ d \in verdict => res[d] = "acked" \/ (leg.step = "resolve" /\ leg.slot = d)
    /\ d \in bit => legs[d] = Members
    /\ d <= folded => d \in bit /\ res[d] # "none"

\* A leg between its check and its resolve: the slot is still unresolved, and the leader holds it.
LegFacts ==
    leg.step # "idle" =>
        /\ leg.slot \in Slots /\ leg.slot < next /\ res[leg.slot] = "none"
        /\ leg.leader \in Members /\ leg.slot \in has[leg.leader]
        /\ leg.step = "resolve" => leg.slot \in verdict

\* The misses not yet folded, on the list or drained by the read that is applying them.
Unfolded == pending \cup UNION {rd[r].batch : r \in Rings}

Handed(e) ==
    /\ folded < e.dlsn /\ e.dlsn < next /\ e.blocks = range[e.dlsn]
    /\ \A i \in e.held : e.dlsn \in has[i]
    /\ Durable(e.dlsn)

\* Above folded_ a slot that some member lacks is handed to the fold before it can be passed.
Owed(d) == holders[d] # Members /\ (d \in verdict \/ (legs[d] = Members /\ Cardinality(holders[d]) >= Quorum))
OwedIsHanded == \A d \in Slots : folded < d /\ Owed(d) => \E e \in Unfolded : e.dlsn = d

\* The newest acked write of a block at or below h.
IsNewest(n, b, h) ==
    /\ n <= h /\ b \in range[n] /\ res[n] = "acked"
    /\ \A m \in Slots : m <= h /\ b \in range[m] /\ res[m] = "acked" => m <= n

\* Below folded_ the Missing map excludes a member from exactly the newest write it lacks.
Marked ==
    \A b \in Blocks, i \in Members, n \in Slots :
        IsNewest(n, b, folded) /\ n \notin has[i] => miss[i][b] = n

Store ==
    /\ \A d \in Slots : Slotwise(d)
    /\ LegFacts
    /\ \A e \in Unfolded : Handed(e)
    /\ \A e \in pending : hint <= e.dlsn
    /\ OwedIsHanded /\ Marked

\* What a read must return is the newest acked write of one of its blocks, below its horizon.
Planned(read) ==
    \A n \in read.need : \E b \in read.blocks :
        n <= read.hmax /\ IsNewest(n, b, L + MaxSlots)

Ring(r) ==
    /\ rpc[r] # "apply" => rd[r].batch = {}
    /\ rpc[r] \in {"fold", "apply"} => \A d \in Slots : d <= rd[r].f => res[d] # "none"
    /\ rpc[r] = "apply" =>
         /\ folded < rd[r].f
         /\ \A d \in Slots : d <= rd[r].f => d \in bit
         /\ \A e \in rd[r].batch : e.dlsn <= rd[r].f
         /\ \A e \in pending : rd[r].f < e.dlsn
    /\ rpc[r] = "idle" => rd[r] = NoRead
    /\ rpc[r] \in {"planned", "fold", "apply"} => rd[r].tried = {}
    /\ ~Parked(r) /\ rd[r].tried = {} => Planned(rd[r])
    /\ rpc[r] = "overlay" =>
         rd[r].cand \in Members \ rd[r].tried /\ HoldsBelow(rd[r].cand, rd[r].blocks)
    /\ rpc[r] = "serve" =>
         /\ rd[r].tried # {}
         /\ Cardinality(rd[r].tried) = 1 => rd[r].cand \in Members /\ Fresh(r)

IInv == SyncedApplied /\ SlotTypes /\ MapTypes /\ RingTypes /\ Store /\ \A r \in Rings : Ring(r)
-----------------------------------------------------------------------------
\* The slots of the session lie above L.
LEMMA Bounds ==
    /\ L \in Nat /\ MaxSlots \in Nat /\ Slots \subseteq Nat /\ Dlsns \subseteq Nat /\ L \in Dlsns /\ L \notin Slots
    /\ \A d \in Slots : d \in Dlsns /\ L < d /\ d <= L + MaxSlots
    /\ \A d \in Dlsns : L <= d /\ d <= L + MaxSlots /\ (d \in Slots \/ d = L)
    /\ (L + 1)..(L + MaxSlots + 1) \subseteq Nat
  BY RouteAssumption DEF Slots, Dlsns

\* Every non-empty set of naturals has a least element, the one Min finds.
LEMMA MinIsLeast ==
    ASSUME NEW S \in SUBSET Nat, S # {}
    PROVE  Min(S) \in S /\ \A x \in S : Min(S) <= x
  <1>1. PICK m \in S : \A x \in S : ~(<<x, m>> \in OpToRel(<, Nat))
    BY NatLessThanWellFounded, WFMin, Zenon
  <1>2. \A x \in S : ~(x < m)
    BY <1>1, Zenon DEF OpToRel
  <1>3. \A x \in S : m <= x
    BY <1>2
  <1> QED BY <1>3, Zenon DEF Min

\* Every non-empty set of integers with a bound below or above has the element Min or Max finds.
LEMMA MinOfBounded ==
    ASSUME NEW S \in SUBSET Int, S # {}, NEW k \in Int, \A x \in S : k <= x
    PROVE  Min(S) \in S /\ \A x \in S : Min(S) <= x
  <1> DEFINE T == {x - k : x \in S}
  <1>1. T \in SUBSET Nat /\ T # {}
    <2>1. \A x \in S : x - k \in Nat
      OBVIOUS
    <2> QED BY <2>1, Zenon
  <1>2. PICK m \in T : \A y \in T : m <= y
    <2> HIDE DEF T
    <2> QED BY <1>1, MinIsLeast, Zenon
  <1>3. PICK x \in S : m = x - k
    BY Zenon
  <1>4. \A y \in S : x <= y
    <2> TAKE y \in S
    <2>1. y - k \in T
      BY Zenon
    <2>2. x - k <= y - k
      BY <1>2, <1>3, <2>1, Zenon
    <2> QED BY <2>2
  <1> QED BY <1>4, Zenon DEF Min

\* A non-empty set of integers with a bound has a greatest element, the one Max finds.
LEMMA MaxOfBounded ==
    ASSUME NEW S \in SUBSET Int, S # {}, NEW k \in Int, \A x \in S : x <= k
    PROVE  Max(S) \in S /\ \A x \in S : x <= Max(S)
  <1> DEFINE T == {k - x : x \in S}
  <1>1. T \in SUBSET Nat /\ T # {}
    <2>1. \A x \in S : k - x \in Nat
      OBVIOUS
    <2> QED BY <2>1, Zenon
  <1>2. PICK m \in T : \A y \in T : m <= y
    <2> HIDE DEF T
    <2> QED BY <1>1, MinIsLeast, Zenon
  <1>3. PICK x \in S : m = k - x
    BY Zenon
  <1>4. \A y \in S : x >= y
    <2> TAKE y \in S
    <2>1. k - y \in T
      BY Zenon
    <2>2. k - x <= k - y
      BY <1>2, <1>3, <2>1, Zenon
    <2> QED BY <2>2
  <1>5. Max(S) \in S /\ \A y \in S : Max(S) >= y
    BY <1>4, Zenon DEF Max
  <1> QED BY <1>5

\* The lesser and the greater of two.
LEMMA OfTwo ==
    ASSUME NEW x \in Int, NEW y \in Int
    PROVE  /\ Min({x, y}) \in {x, y} /\ Min({x, y}) <= x /\ Min({x, y}) <= y
           /\ Max({x, y}) \in {x, y} /\ x <= Max({x, y}) /\ y <= Max({x, y})
  <1>1. (\E m \in {x, y} : \A z \in {x, y} : m >= z) /\ (\E m \in {x, y} : \A z \in {x, y} : m =< z)
    OBVIOUS
  <1>2. Max({x, y}) \in {x, y} /\ \A z \in {x, y} : Max({x, y}) >= z
    BY <1>1, Zenon DEF Max
  <1>3. Min({x, y}) \in {x, y} /\ \A z \in {x, y} : Min({x, y}) =< z
    BY <1>1, Zenon DEF Min
  <1> QED BY <1>2, <1>3

\* The end of the contiguous run of a set: everything up to it is in the set, and a larger set has a longer one.
LEMMA PrefixRun ==
    ASSUME NEW S
    PROVE  /\ Prefix(S) \in Dlsns
           /\ \A d \in Slots : d <= Prefix(S) => d \in S
           /\ \A x \in Dlsns : (\A d \in Slots : d <= x => d \in S) => x <= Prefix(S)
  <1> DEFINE P == {x \in {L} \cup Slots : (L + 1)..x \subseteq S}
  <1>1. P \in SUBSET Int /\ \A x \in P : x <= L + MaxSlots
    <2>1. \A x \in {L} \cup Slots : x \in Int /\ x <= L + MaxSlots
      BY Bounds
    <2> QED BY <2>1, Zenon
  <1>2. L \in P
    <2>1. \A x \in (L + 1)..L : x \in S
      BY Bounds
    <2> QED BY <2>1, Zenon
  <1>3. L + MaxSlots \in Int
    BY Bounds
  <1>4. Max(P) \in P /\ \A x \in P : x <= Max(P)
    <2> HIDE DEF P
    <2> QED BY <1>1, <1>2, <1>3, MaxOfBounded, Zenon
  <1>5. Prefix(S) = Max(P)
    BY Zenon DEF Prefix
  <1>6. Prefix(S) \in Dlsns /\ (L + 1)..Prefix(S) \subseteq S
    BY <1>4, <1>5, Bounds, Zenon
  <1>7. \A d \in Slots : d <= Prefix(S) => d \in S
    BY <1>6, Bounds
  <1>8. ASSUME NEW x \in Dlsns, \A d \in Slots : d <= x => d \in S PROVE x <= Prefix(S)
    <2>1. (L + 1)..x \subseteq S
      BY <1>8, Bounds DEF Slots
    <2>2. x \in P
      BY <1>8, <2>1, Bounds
    <2> QED BY <1>4, <1>5, <2>2, Zenon
  <1> QED BY <1>6, <1>7, <1>8, Zenon

\* A larger set has a run at least as long.
LEMMA PrefixGrows ==
    ASSUME NEW S, NEW T, \A d \in Slots : d \in S => d \in T
    PROVE  Prefix(S) <= Prefix(T)
  <1>1. \A d \in Slots : d <= Prefix(S) => d \in T
    BY PrefixRun, Zenon
  <1> QED BY <1>1, PrefixRun, Zenon
-----------------------------------------------------------------------------
\* What a member holds or has Emptied it keeps, and login's verdict on its prefix stands.
Holds ==
    /\ has' \in [Members -> SUBSET Slots] /\ tomb' \in [Members -> SUBSET Slots] /\ base' = base
    /\ \A i \in Members : has[i] \subseteq has'[i] /\ tomb[i] \subseteq tomb'[i]

\* No step takes a slot or a tombstone from a member, nor moves the prefix login recovered.
LEMMA NextHolds ==
    ASSUME SyncedApplied, [Next]_vars
    PROVE  Holds
  <1> USE DEF SyncedApplied, Holds, truthVars
  <1>1. CASE Create
    BY <1>1, Zenon DEF Create
  <1>2. ASSUME NEW d \in Slots, NEW i \in Members, NEW acked \in BOOLEAN, RecordCompletion(d, i, acked) PROVE Holds
    <2>1. /\ has' = [has EXCEPT ![i] = has[i] \cup {d}] \/ has' = has
          /\ UNCHANGED <<base, tomb>>
      BY <1>2, Zenon DEF RecordCompletion
    <2> QED BY <2>1
  <1>3. ASSUME NEW d \in Slots, SetBit(d) \/ WriteResolved(d) PROVE Holds
    BY <1>3, Zenon DEF SetBit, WriteResolved
  <1>4. ASSUME NEW d \in Slots, NEW live \in SUBSET Members, RoundEmpty(d, live) PROVE Holds
    BY <1>4 DEF RoundEmpty
  <1>5. ASSUME NEW d \in Slots, NEW i \in Members, Land(d, i) \/ RetireCheck(d, i) PROVE Holds
    <2>1. has' = [has EXCEPT ![i] = has[i] \cup {d}] /\ UNCHANGED <<base, tomb>>
      BY <1>5, Zenon DEF Land, RetireCheck
    <2> QED BY <2>1
  <1>6. CASE note_filled \/ RetireResolve
    BY <1>6, Zenon DEF note_filled, RetireResolve
  <1>7. ASSUME NEW i \in Members, advance_synced(i) PROVE Holds
    BY <1>7, Zenon DEF advance_synced
  <1>8. ASSUME NEW r \in Rings,
               \/ PlanRead(r) \/ LoadFrontier(r) \/ FoldNothing(r) \/ FoldFast(r) \/ FoldDrain(r)
               \/ FoldApply(r) \/ EligibleOverlay(r) \/ FailOver(r) \/ Done(r)
               \/ \E i \in Members : EligibleMap(r, i)
        PROVE  Holds
    BY <1>8, Zenon DEF PlanRead, LoadFrontier, FoldNothing, FoldFast, FoldDrain, FoldApply, EligibleOverlay,
                       FailOver, Done, EligibleMap
  <1>9. CASE UNCHANGED vars
    BY <1>9, Zenon DEF vars
  <1> QED BY <1>1, <1>2, <1>3, <1>4, <1>5, <1>6, <1>7, <1>8, <1>9, Zenon DEF Next

\* Only advance_synced writes synced_, and it writes the prefix the member reported.
LEMMA NextSyncs ==
    ASSUME SyncedApplied, [Next]_vars
    PROVE  synced' = synced \/ \E i \in Members : synced' = [synced EXCEPT ![i] = AppliedUpto(i)]
  <1> DEFINE G == synced' = synced \/ \E i \in Members : synced' = [synced EXCEPT ![i] = AppliedUpto(i)]
  <1> USE DEF mapVars
  <1>1. CASE Create
    BY <1>1, Zenon DEF Create
  <1>2. ASSUME NEW d \in Slots, NEW i \in Members, NEW acked \in BOOLEAN, RecordCompletion(d, i, acked) PROVE G
    BY <1>2, Zenon DEF RecordCompletion
  <1>3. ASSUME NEW d \in Slots, SetBit(d) \/ WriteResolved(d) PROVE G
    BY <1>3, Zenon DEF SetBit, WriteResolved
  <1>4. ASSUME NEW d \in Slots, NEW live \in SUBSET Members, RoundEmpty(d, live) PROVE G
    BY <1>4, Zenon DEF RoundEmpty
  <1>5. ASSUME NEW d \in Slots, NEW i \in Members, Land(d, i) \/ RetireCheck(d, i) PROVE G
    BY <1>5, Zenon DEF Land, RetireCheck
  <1>6. CASE note_filled \/ RetireResolve
    BY <1>6, Zenon DEF note_filled, RetireResolve
  <1>7. ASSUME NEW i \in Members, advance_synced(i) PROVE G
    BY <1>7, Zenon DEF advance_synced
  <1>8. ASSUME NEW r \in Rings,
               \/ PlanRead(r) \/ LoadFrontier(r) \/ FoldNothing(r) \/ FoldFast(r) \/ FoldDrain(r)
               \/ FoldApply(r) \/ EligibleOverlay(r) \/ FailOver(r) \/ Done(r)
               \/ \E i \in Members : EligibleMap(r, i)
        PROVE  G
    BY <1>8, Zenon DEF PlanRead, LoadFrontier, FoldNothing, FoldFast, FoldDrain, FoldApply, EligibleOverlay,
                       FailOver, Done, EligibleMap
  <1>9. CASE UNCHANGED vars
    BY <1>9, Zenon DEF vars
  <1> QED BY <1>1, <1>2, <1>3, <1>4, <1>5, <1>6, <1>7, <1>8, <1>9, Zenon DEF Next

\* What a member has applied only grows.
LEMMA AppliedGrows ==
    ASSUME SyncedApplied, Holds, NEW i \in Members
    PROVE  AppliedUpto(i) <= AppliedUpto(i)' /\ AppliedUpto(i) \in Int /\ AppliedUpto(i)' \in Int /\ Unsynced <= AppliedUpto(i)
  <1>1. /\ \A d \in Slots : d \in has[i] \cup tomb[i] => d \in has'[i] \cup tomb'[i]
        /\ base'[i] = base[i]
    BY Zenon DEF Holds
  <1>2. /\ Prefix(has[i] \cup tomb[i]) <= Prefix(has'[i] \cup tomb'[i])
        /\ Prefix(has[i] \cup tomb[i]) \in Dlsns /\ Prefix(has'[i] \cup tomb'[i]) \in Dlsns
    BY <1>1, PrefixGrows, PrefixRun, Zenon
  <1>3. /\ AppliedUpto(i) = IF base[i] THEN Prefix(has[i] \cup tomb[i]) ELSE Unsynced
        /\ AppliedUpto(i)' = IF base[i] THEN Prefix(has'[i] \cup tomb'[i]) ELSE Unsynced
    BY <1>1, Zenon DEF AppliedUpto, Prefix
  <1>4. PICK p, q, a, b, v :
             /\ p = Prefix(has[i] \cup tomb[i]) /\ q = Prefix(has'[i] \cup tomb'[i])
             /\ a = AppliedUpto(i) /\ b = AppliedUpto(i)' /\ v = base[i]
    BY Zenon DEF SyncedApplied
  <1>5. p <= q /\ p \in Nat /\ q \in Nat /\ a = (IF v THEN p ELSE Unsynced) /\ b = IF v THEN q ELSE Unsynced
    BY <1>2, <1>3, <1>4, Bounds, Zenon
  <1>6. a <= b /\ a \in Int /\ b \in Int /\ Unsynced <= a
    BY <1>5 DEF Unsynced
  <1> QED BY <1>4, <1>6, Zenon

\* Login's probes set the watermarks to what the members had applied.
LEMMA InitSynced == Init => SyncedApplied
  <1> SUFFICES ASSUME Init PROVE SyncedApplied
    OBVIOUS
  <1>1. /\ has = [i \in Members |-> {}] /\ tomb = [i \in Members |-> {}] /\ base \in [Members -> BOOLEAN]
        /\ synced = [i \in Members |-> IF base[i] THEN L ELSE Unsynced]
    BY Zenon DEF Init
  <1>2. ASSUME NEW i \in Members PROVE Unsynced <= synced[i] /\ synced[i] <= AppliedUpto(i)
    <2>1. synced[i] = (IF base[i] THEN L ELSE Unsynced) /\ AppliedUpto(i) \in {Unsynced} \cup Dlsns /\ (base[i] => AppliedUpto(i) \in Dlsns)
      BY <1>1, PrefixRun, Zenon DEF AppliedUpto
    <2>2. PICK s, a : s = synced[i] /\ a = AppliedUpto(i)
      BY Zenon
    <2>3. CASE base[i]
      <3>1. s = L /\ a \in Dlsns
        BY <2>1, <2>2, <2>3, Zenon
      <3>2. Unsynced <= s /\ s <= a
        BY <3>1, Bounds DEF Unsynced
      <3> QED BY <2>2, <3>2, Zenon
    <2>4. CASE ~base[i]
      <3>1. s = Unsynced /\ a = Unsynced
        BY <2>1, <2>2, <2>4, Zenon DEF AppliedUpto
      <3>2. Unsynced <= s /\ s <= a
        BY <3>1 DEF Unsynced
      <3> QED BY <2>2, <3>2, Zenon
    <2> QED BY <2>3, <2>4, Zenon
  <1>3. synced \in [Members -> Int]
    BY <1>1, Bounds DEF Unsynced
  <1> QED BY <1>1, <1>2, <1>3 DEF SyncedApplied

\* advance_synced takes what the member reported, and the member never takes it back.
LEMMA SyncedStep == SyncedApplied /\ [Next]_vars => SyncedApplied'
  <1> SUFFICES ASSUME SyncedApplied, [Next]_vars PROVE SyncedApplied'
    OBVIOUS
  <1>1. Holds
    BY NextHolds, Zenon
  <1>2. \A i \in Members : /\ AppliedUpto(i) <= AppliedUpto(i)' /\ AppliedUpto(i) \in Int /\ AppliedUpto(i)' \in Int
                           /\ Unsynced <= AppliedUpto(i) /\ synced[i] \in Int
                           /\ Unsynced <= synced[i] /\ synced[i] <= AppliedUpto(i)
    BY <1>1, AppliedGrows, Zenon DEF SyncedApplied
  <1>3. synced' = synced \/ \E i \in Members : synced' = [synced EXCEPT ![i] = AppliedUpto(i)]
    BY NextSyncs, Zenon
  <1>4. synced' \in [Members -> Int] /\ \A i \in Members : synced'[i] = synced[i] \/ synced'[i] = AppliedUpto(i)
    <2>1. synced \in [Members -> Int]
      BY Zenon DEF SyncedApplied
    <2>2. CASE synced' = synced
      BY <2>1, <2>2, Zenon
    <2>3. ASSUME NEW j \in Members, NEW a \in Int, a = AppliedUpto(j), synced' = [synced EXCEPT ![j] = a]
          PROVE  synced' \in [Members -> Int] /\ \A i \in Members : synced'[i] = synced[i] \/ synced'[i] = AppliedUpto(i)
      BY <2>1, <2>3, Zenon
    <2> QED BY <1>2, <1>3, <2>2, <2>3, Zenon
  <1>5. ASSUME NEW i \in Members PROVE Unsynced <= synced'[i] /\ synced'[i] <= AppliedUpto(i)'
    <2>1. PICK a \in Int, b \in Int : a = AppliedUpto(i) /\ b = AppliedUpto(i)'
      BY <1>2, Zenon
    <2>2. a <= b /\ Unsynced <= a /\ Unsynced <= synced[i] /\ synced[i] <= a /\ synced[i] \in Int
      BY <1>2, <2>1, Zenon
    <2>3. synced'[i] = synced[i] \/ synced'[i] = a
      BY <1>4, <2>1, Zenon
    <2>4. Unsynced <= synced'[i] /\ synced'[i] <= b
      BY <2>2, <2>3 DEF Unsynced
    <2> QED BY <2>1, <2>4, Zenon
  <1>6. has' \in [Members -> SUBSET Slots] /\ tomb' \in [Members -> SUBSET Slots] /\ base' \in [Members -> BOOLEAN]
    BY <1>1, Zenon DEF Holds, SyncedApplied
  <1> QED BY <1>4, <1>5, <1>6, Zenon DEF SyncedApplied, Unsynced

\* On any number of queues: every member's watermark is at most what it has applied.
LEMMA SyncedAlways == Spec => []SyncedApplied
  <1> QED BY InitSynced, SyncedStep, PTL DEF Spec

\* The floor all_committed() stamps into every header is applied by every member, whatever interleaves.
THEOREM ReclaimIsSafe == Spec => []ReclaimFloorApplied
  <1>1. SyncedApplied => ReclaimFloorApplied
    <2> SUFFICES ASSUME SyncedApplied, NEW i \in Members PROVE all_committed <= AppliedUpto(i)
      BY Zenon DEF ReclaimFloorApplied
    <2> DEFINE S == {synced[j] : j \in Members}
    <2>1. S \in SUBSET Int /\ S # {} /\ synced[i] \in S /\ \A x \in S : Unsynced <= x
      BY Zenon DEF SyncedApplied
    <2>2. Unsynced \in Int
      BY DEF Unsynced
    <2>3. Min(S) \in S /\ \A x \in S : Min(S) <= x
      <3> HIDE DEF S
      <3> QED BY <2>1, <2>2, MinOfBounded, Zenon
    <2>4. Min(S) \in Int /\ Min(S) <= synced[i] /\ synced[i] \in Int /\ synced[i] <= AppliedUpto(i)
      BY <2>1, <2>3, Zenon DEF SyncedApplied
    <2>5. AppliedUpto(i) \in Int
      <3>1. AppliedUpto(i) \in {Unsynced} \cup Dlsns
        BY PrefixRun, Zenon DEF AppliedUpto
      <3>2. \A a : a \in {Unsynced} \cup Dlsns => a \in Int
        BY <2>2, Bounds
      <3> QED BY <3>1, <3>2, Zenon
    <2>6. all_committed = Min(S)
      BY Zenon DEF all_committed
    <2> HIDE DEF S
    <2> QED BY <2>4, <2>5, <2>6
  <1> QED BY <1>1, SyncedAlways, PTL
-----------------------------------------------------------------------------
\* Two quorums share a member.
LEMMA QuorumsMeet ==
    ASSUME NEW S \in SUBSET Members, NEW T \in SUBSET Members, Cardinality(S) >= Quorum, Cardinality(T) >= Quorum
    PROVE  \E i \in Members : i \in S /\ i \in T
  <1>1. IsFiniteSet(Members) /\ Cardinality(Members) \in Nat
    BY RouteAssumption, FS_CardinalityType, Zenon
  <1>2. Cardinality(S) \in Nat /\ Cardinality(T) \in Nat
    BY <1>1, FS_Subset, FS_CardinalityType, Zenon
  <1>3. Cardinality(S) + Cardinality(T) > Cardinality(Members)
    BY <1>1, <1>2 DEF Quorum
  <1>4. S \cap T # {}
    BY <1>1, <1>3, FS_MajoritiesIntersect, Zenon
  <1> QED BY <1>4, Zenon

\* A superset of a quorum is one, and all members are one.
LEMMA QuorumGrows ==
    ASSUME NEW S \in SUBSET Members, NEW T \in SUBSET Members, Cardinality(S) >= Quorum, S \subseteq T
    PROVE  Cardinality(T) >= Quorum
  <1>1. IsFiniteSet(Members) /\ Cardinality(Members) \in Nat
    BY RouteAssumption, FS_CardinalityType, Zenon
  <1>2. IsFiniteSet(T) /\ Cardinality(S) <= Cardinality(T)
    BY <1>1, FS_Subset, Zenon
  <1>3. Cardinality(S) \in Nat /\ Cardinality(T) \in Nat
    BY <1>1, FS_Subset, FS_CardinalityType, Zenon
  <1> QED BY <1>1, <1>2, <1>3 DEF Quorum

\* A slot with an acknowledging quorum or a verdict is never found empty.
LEMMA DurableNotEmpty ==
    ASSUME SlotTypes, LegFacts, NEW d \in Slots, Slotwise(d), Durable(d)
    PROVE  res[d] # "empty"
  <1> SUFFICES ASSUME res[d] = "empty" PROVE FALSE
    OBVIOUS
  <1>1. holders[d] \in SUBSET Members
    BY Zenon DEF SlotTypes
  <1>2. CASE Cardinality(holders[d]) >= Quorum
    <2>1. \A i \in holders[d] : d \in has[i]
      BY Zenon DEF Slotwise
    <2>2. \E i \in Members : i \in holders[d]
      BY <1>1, <1>2, QuorumsMeet, Zenon
    <2>3. ASSUME NEW live \in SUBSET Members, Cardinality(live) >= Quorum, \A i \in live : d \notin has[i] PROVE FALSE
      BY <1>1, <1>2, <2>1, <2>3, QuorumsMeet, Zenon
    <2>4. Emptied(d)
      BY Zenon DEF Slotwise
    <2> QED BY <1>1, <2>1, <2>2, <2>3, <2>4, Zenon DEF Emptied
  <1>3. CASE d \in verdict
    <2>1. leg.step = "resolve" /\ leg.slot = d
      BY <1>3 DEF Slotwise
    <2> QED BY <2>1 DEF LegFacts
  <1> QED BY <1>2, <1>3, Zenon DEF Durable

\* What a step outside the reads may do while they are parked: writes, members and verdicts only grow.
Grown ==
    /\ Holds /\ next <= next' /\ next' \in Int
    /\ \A d \in Slots :
         /\ holders[d] \subseteq holders'[d] /\ legs[d] \subseteq legs'[d]
         /\ res[d] # "none" => res'[d] = res[d]
         /\ d < next => range'[d] = range[d]
    /\ bit \subseteq bit' /\ verdict \subseteq verdict'
    /\ UNCHANGED <<folded, rd, rpc>> /\ \A r \in Rings : Parked(r)

\* A durable slot stays durable while its holders only grow.
LEMMA DurableStays ==
    ASSUME SlotTypes, SlotTypes', Grown, NEW d \in Slots, Durable(d)
    PROVE  Durable(d)'
  <1>1. holders[d] \in SUBSET Members /\ holders'[d] \in SUBSET Members /\ holders[d] \subseteq holders'[d]
    BY Zenon DEF SlotTypes, Grown
  <1> QED BY <1>1, QuorumGrows, Zenon DEF Durable, Grown

\* A parked read keeps what it has: nothing, or a member that still holds what it held.
LEMMA ParkedKeeps ==
    ASSUME NEW q \in Rings, Ring(q), Parked(q), RingTypes, SyncedApplied, Holds, rd'[q] = rd[q], rpc'[q] = rpc[q]
    PROVE  Ring(q)'
  <1>1. rpc'[q] \in {"idle", "serve"} /\ Parked(q)'
    BY Zenon DEF Parked
  <1>2. rd'[q].batch = {} /\ (rpc'[q] = "idle" => rd'[q] = NoRead)
    BY <1>1 DEF Ring
  <1>3. rpc'[q] = "serve" => rd'[q].tried # {}
    BY Zenon DEF Ring
  <1>4. ASSUME rpc'[q] = "serve", Cardinality(rd'[q].tried) = 1
        PROVE  rd'[q].cand \in Members /\ Fresh(q)'
    <2>1. rd[q].cand \in Members /\ Fresh(q)
      BY <1>4, Zenon DEF Ring
    <2> QED BY <2>1, Zenon DEF Fresh, Holds
  <1> QED BY <1>1, <1>2, <1>3, <1>4 DEF Ring

\* While the reads are parked no miss is in between the two tiers.
LEMMA AllPending ==
    ASSUME \A r \in Rings : Parked(r) /\ Ring(r)
    PROVE  Unfolded = pending
  <1>1. \A r \in Rings : rd[r].batch = {}
    BY DEF Ring, Parked
  <1> QED BY <1>1, Zenon DEF Unfolded

\* The slots folded_ has passed are resolved and issued, so growth leaves the marks alone.
LEMMA GrownKeeps ==
    ASSUME IInv, SlotTypes', Grown
    PROVE  /\ \A r \in Rings : Ring(r)'
           /\ Unfolded = pending /\ Unfolded' = pending'
           /\ \A e \in pending : Handed(e)'
           /\ miss' = miss => Marked'
  <1>1. \A r \in Rings : Ring(r)'
    BY ParkedKeeps, Zenon DEF IInv, Grown
  <1>2. Unfolded = pending
    BY AllPending, Zenon DEF IInv, Grown
  <1>3. \A r \in Rings : rd'[r].batch = {}
    BY <1>1 DEF Ring, Parked, Grown
  <1>4. Unfolded' = pending'
    BY <1>3, Zenon DEF Unfolded
  <1>5. ASSUME NEW e \in pending PROVE Handed(e)'
    <2>1. Handed(e) /\ e \in Entries
      BY <1>2, Zenon DEF IInv, Store, MapTypes
    <2>2. e.dlsn \in Slots /\ e.held \in SUBSET Members
      BY <2>1, Zenon DEF Entries
    <2>3. Durable(e.dlsn)'
      BY <2>1, <2>2, DurableStays, Zenon DEF IInv, Handed
    <2>4. next \in Nat /\ next' \in Nat /\ e.dlsn \in Nat /\ folded \in Nat
      BY <2>2, Bounds, Zenon DEF IInv, SlotTypes, MapTypes
    <2>5. e.dlsn < next' /\ folded' < e.dlsn /\ e.blocks = range'[e.dlsn]
      <3>1. e.dlsn < next /\ folded < e.dlsn /\ e.blocks = range[e.dlsn] /\ next <= next' /\ folded' = folded
        BY <2>1, Zenon DEF Handed, Grown
      <3>2. range'[e.dlsn] = range[e.dlsn]
        BY <2>2, <3>1, Zenon DEF Grown
      <3> QED BY <2>4, <3>1, <3>2
    <2>6. \A i \in e.held : e.dlsn \in has'[i]
      BY <2>1, <2>2, Zenon DEF Handed, Grown, Holds
    <2> QED BY <2>3, <2>5, <2>6, Zenon DEF Handed
  <1>6. ASSUME miss' = miss PROVE Marked'
    <2> SUFFICES ASSUME NEW b \in Blocks, NEW i \in Members, NEW n \in Slots, IsNewest(n, b, folded)', n \notin has'[i]
                 PROVE  miss'[i][b] = n
      BY Zenon DEF Marked
    <2>1. \A m \in Slots : m <= folded => m < next /\ res[m] # "none"
      BY Zenon DEF IInv, Store, Slotwise
    <2>2. \A m \in Slots : m <= folded => res'[m] = res[m] /\ range'[m] = range[m]
      BY <2>1, Zenon DEF Grown
    <2>3. IsNewest(n, b, folded)
      BY <2>2, Zenon DEF IsNewest, Grown
    <2>4. n \notin has[i]
      BY Zenon DEF Grown, Holds
    <2> QED BY <1>6, <2>3, <2>4, Zenon DEF IInv, Store, Marked
  <1> QED BY <1>1, <1>2, <1>4, <1>5, <1>6, Zenon
-----------------------------------------------------------------------------
\* A slot the step does not concern.
Same(x) ==
    /\ holders'[x] = holders[x] /\ legs'[x] = legs[x] /\ res'[x] = res[x]
    /\ (x \in bit' <=> x \in bit) /\ (x \in verdict' <=> x \in verdict)
    /\ \A i \in Members : (x \in has'[i] <=> x \in has[i]) /\ (x \in tomb'[i] <=> x \in tomb[i])
    /\ leg.step = "resolve" /\ leg.slot = x => leg'.step = "resolve" /\ leg'.slot = x

\* A slot whose own state a step leaves alone keeps its facts and owes no new hand-off.
LEMMA SameKeeps ==
    ASSUME IInv, Grown, NEW x \in Slots, Same(x)
    PROVE  Slotwise(x)' /\ (Owed(x)' => Owed(x))
  <1>1. Slotwise(x) /\ x \in Nat /\ next \in Nat
    BY Bounds, Zenon DEF IInv, Store, SlotTypes
  <1>2. Durable(x)' <=> Durable(x)
    BY Zenon DEF Same, Durable
  <1>3. Emptied(x) => Emptied(x)'
    BY Zenon DEF Same, Emptied
  <1>4. x < next => x < next'
    BY <1>1 DEF Grown
  <1>5. holders[x] \in SUBSET Members /\ folded' = folded
    BY Zenon DEF IInv, SlotTypes, Grown
  <1>6. Owed(x)' => Owed(x)
    BY Zenon DEF Same, Owed
  <1> HIDE DEF Durable, Emptied
  <1>7. Slotwise(x)'
    BY <1>1, <1>2, <1>3, <1>4, <1>5, Zenon DEF Slotwise, Same
  <1> QED BY <1>6, <1>7, Zenon

\* A step that concerns slot d alone keeps the invariant when it keeps it for d and for what it hands over.
LEMMA SlotStep ==
    ASSUME IInv, [Next]_vars, SlotTypes', Grown, NEW d, \A x \in Slots : x # d => Same(x),
           d \in Slots => Slotwise(d)' /\ (Owed(d)' /\ folded < d => \E e \in pending' : e.dlsn = d),
           LegFacts', miss' = miss, pending' \in SUBSET Entries, hint' \in Int, pending \subseteq pending',
           \A e \in pending' : e \in pending \/ Handed(e)', \A e \in pending' : hint' <= e.dlsn
    PROVE  IInv'
  <1>1. SyncedApplied'
    BY SyncedStep, Zenon DEF IInv
  <1>2. MapTypes' /\ RingTypes'
    BY Zenon DEF IInv, MapTypes, RingTypes, Grown
  <1>3. /\ \A r \in Rings : Ring(r)'
        /\ Unfolded = pending /\ Unfolded' = pending'
        /\ \A e \in pending : Handed(e)'
        /\ Marked'
    BY GrownKeeps, Zenon
  <1>4. \A e \in Unfolded' : Handed(e)'
    BY <1>3, Zenon
  <1>5. \A x \in Slots : Slotwise(x)'
    BY SameKeeps, Zenon
  <1>6. OwedIsHanded'
    <2> SUFFICES ASSUME NEW x \in Slots, folded' < x, Owed(x)' PROVE \E e \in Unfolded' : e.dlsn = x
      BY Zenon DEF OwedIsHanded
    <2>1. CASE x = d
      BY <1>3, <2>1, Zenon DEF Grown
    <2>2. CASE x # d
      <3>1. Owed(x) /\ folded < x
        BY <2>2, SameKeeps, Zenon DEF Grown
      <3>2. PICK e \in pending : e.dlsn = x
        BY <1>3, <3>1, Zenon DEF IInv, Store, OwedIsHanded
      <3> QED BY <1>3, <3>2, Zenon
    <2> QED BY <2>1, <2>2, Zenon
  <1>7. Store'
    BY <1>3, <1>4, <1>5, <1>6, Zenon DEF Store
  <1> QED BY <1>1, <1>2, <1>3, <1>7, Zenon DEF IInv

\* ...and it hands nothing over.
LEMMA QuietStep ==
    ASSUME IInv, [Next]_vars, SlotTypes', Grown, NEW d, \A x \in Slots : x # d => Same(x),
           d \in Slots => Slotwise(d)' /\ (Owed(d)' => Owed(d)),
           LegFacts', UNCHANGED <<miss, pending, hint>>
    PROVE  IInv'
  <1>1. Unfolded = pending
    BY GrownKeeps, Zenon
  <1>2. d \in Slots => Slotwise(d)' /\ (Owed(d)' /\ folded < d => \E e \in pending' : e.dlsn = d)
    BY <1>1, Zenon DEF IInv, Store, OwedIsHanded
  <1>3. /\ pending' \in SUBSET Entries /\ hint' \in Int /\ pending \subseteq pending'
        /\ \A e \in pending' : hint' <= e.dlsn
    BY Zenon DEF IInv, MapTypes, Store
  <1> QED BY <1>2, <1>3, SlotStep, Zenon
-----------------------------------------------------------------------------
\* With one queue the step runs while every read is parked and no leg is between check and resolve.
LEMMA Alone ==
    ASSUME OneQueue
    PROVE  /\ Scheduled => (\A r \in Rings : Parked(r)) /\ leg.step = "idle"
           /\ RingsParked => \A r \in Rings : Parked(r)
           /\ LegParked => leg.step = "idle"
           /\ \A r \in Rings : RingScheduled(r) => leg.step = "idle" /\ \A q \in Rings : q # r => Parked(q)
  BY Zenon DEF Scheduled, RingsParked, LegParked, RingScheduled

\* Create reserves the next dLSN: nothing below it changes.
LEMMA CreateStep ==
    ASSUME OneQueue, IInv, Create
    PROVE  IInv'
  <1>1. /\ Scheduled /\ next \in Slots /\ next' = next + 1
        /\ UNCHANGED <<res, has, base, tomb, holders, legs, bit, verdict, pending, hint, miss, synced, folded, foldMu, rd, rpc, leg>>
    BY Zenon DEF Create, slotVars, mapVars, ringVars
  <1>2. PICK bs \in SUBSET Blocks : range' = [range EXCEPT ![next] = bs]
    BY Zenon DEF Create
  <1>3. leg.step = "idle" /\ \A r \in Rings : Parked(r)
    BY <1>1, Alone, Zenon
  <1>4. next \in Nat /\ next' \in (L + 1)..(L + MaxSlots + 1) /\ next' \in Int /\ next <= next' /\ \A d \in Slots : d < next => d # next
    BY <1>1, Bounds
  <1>5. SlotTypes'
    <2>1. range' \in [Slots -> SUBSET Blocks]
      BY <1>2, Zenon DEF IInv, SlotTypes
    <2> QED BY <1>1, <1>4, <2>1, Zenon DEF IInv, SlotTypes
  <1>6. Holds
    BY <1>1, Zenon DEF IInv, SyncedApplied, Holds
  <1>7. Grown
    <2>1. \A d \in Slots : d < next => range'[d] = range[d]
      BY <1>2, <1>4, Zenon DEF IInv, SlotTypes
    <2> QED BY <1>1, <1>3, <1>4, <1>6, <2>1, Zenon DEF Grown
  <1>8. \A x \in Slots : Same(x)
    BY <1>1, Zenon DEF Same
  <1>9. LegFacts'
    BY <1>1, <1>3, Zenon DEF LegFacts
  <1>10. [Next]_vars
    BY Zenon DEF Next
  <1> QED BY <1>1, <1>5, <1>7, <1>8, <1>9, <1>10, Bounds, QuietStep, Zenon

\* The completed bit is set once every leg has reported.
LEMMA SetBitStep ==
    ASSUME OneQueue, IInv, NEW d \in Slots, SetBit(d)
    PROVE  IInv'
  <1>1. /\ RingsParked /\ LegParked /\ d \in Issued /\ legs[d] = Members /\ bit' = bit \cup {d}
        /\ UNCHANGED <<next, range, res, has, base, tomb, holders, legs, verdict, pending, hint, miss, synced, folded, foldMu, rd, rpc, leg>>
    BY Zenon DEF SetBit, truthVars, mapVars, ringVars
  <1>3. leg.step = "idle" /\ \A r \in Rings : Parked(r)
    BY <1>1, Alone, Zenon
  <1>4. next \in Nat /\ d < next /\ next \in Int /\ next <= next
    BY <1>1, Bounds DEF Issued, IInv, SlotTypes
  <1>5. SlotTypes'
    BY <1>1, ZenonT(30) DEF IInv, SlotTypes
  <1>6. Holds
    BY <1>1, Zenon DEF IInv, SyncedApplied, Holds
  <1>7. Grown
    BY <1>1, <1>3, <1>4, <1>6, Zenon DEF Grown
  <1>8. \A x \in Slots : x # d => Same(x)
    BY <1>1, Zenon DEF Same
  <1>9. LegFacts'
    BY <1>1, <1>3, Zenon DEF LegFacts
  <1>10. [Next]_vars
    BY Zenon DEF Next
  <1>11. Slotwise(d)' /\ (Owed(d)' => Owed(d))
    <2>1. Slotwise(d)
      BY Zenon DEF IInv, Store
    <2>2. (Durable(d)' <=> Durable(d)) /\ (Emptied(d)' <=> Emptied(d)) /\ (Owed(d)' <=> Owed(d))
      BY <1>1, Zenon DEF Durable, Emptied, Owed
    <2> QED BY <1>1, <1>4, <2>1, <2>2, Zenon DEF Slotwise
  <1> QED BY <1>1, <1>5, <1>7, <1>8, <1>9, <1>10, <1>11, QuietStep, Zenon

\* write() resolves a slot no round has decided: acked by a quorum, or empty because every leg was refused.
LEMMA WriteResolvedStep ==
    ASSUME OneQueue, IInv, NEW d \in Slots, WriteResolved(d)
    PROVE  IInv'
  <1>1. /\ Scheduled /\ d \in Issued /\ res[d] = "none"
        /\ UNCHANGED <<next, range, has, base, tomb, holders, legs, bit, verdict, pending, hint, miss, synced, folded, foldMu, rd, rpc, leg>>
    BY Zenon DEF WriteResolved, slotVars, mapVars, ringVars
  <1>2. PICK v : /\ res' = [res EXCEPT ![d] = v]
                 /\ \/ v = "acked" /\ Cardinality(holders[d]) >= Quorum
                    \/ v = "empty" /\ legs[d] = Members /\ \A i \in Members : d \notin has[i]
    BY Zenon DEF WriteResolved
  <1>3. leg.step = "idle" /\ \A r \in Rings : Parked(r)
    BY <1>1, Alone, Zenon
  <1>4. next \in Nat /\ d < next /\ next \in Int /\ next <= next
    BY <1>1, Bounds DEF Issued, IInv, SlotTypes
  <1>a. res'[d] = v /\ v # "none" /\ v \in {"none", "acked", "empty"} /\ \A x \in Slots : x # d => res'[x] = res[x]
    BY <1>2 DEF IInv, SlotTypes
  <1>5. SlotTypes'
    <2>1. res' \in [Slots -> {"none", "acked", "empty"}]
      BY <1>2, <1>a, Zenon DEF IInv, SlotTypes
    <2> QED BY <1>1, <2>1, Zenon DEF IInv, SlotTypes
  <1>6. Holds
    BY <1>1, Zenon DEF IInv, SyncedApplied, Holds
  <1>7. Grown
    BY <1>1, <1>a, <1>3, <1>4, <1>6, Zenon DEF Grown
  <1>8. \A x \in Slots : x # d => Same(x)
    BY <1>1, <1>a, Zenon DEF Same
  <1>9. LegFacts'
    BY <1>1, <1>3, Zenon DEF LegFacts
  <1>10. [Next]_vars
    BY Zenon DEF Next
  <1>11. Slotwise(d)' /\ (Owed(d)' => Owed(d))
    <2>1. Slotwise(d)
      BY Zenon DEF IInv, Store
    <2>2. (Durable(d)' <=> Durable(d)) /\ (Emptied(d)' <=> Emptied(d)) /\ (Owed(d)' <=> Owed(d))
      BY <1>1, Zenon DEF Durable, Emptied, Owed
    <2>3. (v = "acked" => Durable(d)) /\ (v = "empty" => Emptied(d)) /\ (v = "acked" \/ v = "empty")
      BY <1>2 DEF Durable, Emptied
    <2>4. d \notin verdict /\ (\A i \in Members : d \notin tomb[i]) /\ ~(d <= folded)
      BY <1>1, <1>3, <2>1 DEF Slotwise
    <2> QED BY <1>1, <1>a, <1>4, <2>1, <2>2, <2>3, <2>4, Zenon DEF Slotwise
  <1> QED BY <1>1, <1>5, <1>7, <1>8, <1>9, <1>10, <1>11, QuietStep, Zenon

\* A copy that arrives late, or by resync, is of a slot that was not emptied.
LEMMA LandStep ==
    ASSUME OneQueue, IInv, NEW d \in Slots, NEW i \in Members, Land(d, i)
    PROVE  IInv'
  <1>1. /\ Scheduled /\ d \in Issued /\ res[d] # "empty" /\ has' = [has EXCEPT ![i] = has[i] \cup {d}]
        /\ UNCHANGED <<next, range, res, base, tomb, holders, legs, bit, verdict, pending, hint, miss, synced, folded, foldMu, rd, rpc, leg>>
    BY Zenon DEF Land, slotVars, mapVars, ringVars
  <1>3. leg.step = "idle" /\ \A r \in Rings : Parked(r)
    BY <1>1, Alone, Zenon
  <1>4. next \in Nat /\ next \in Int /\ next <= next
    BY Bounds DEF IInv, SlotTypes
  <1>10. [Next]_vars
    BY Zenon DEF Next
  <1>5. SlotTypes'
    BY <1>1, Zenon DEF IInv, SlotTypes
  <1>6. Holds
    BY <1>10, NextHolds, Zenon DEF IInv
  <1>a. \A x \in Slots, j \in Members : x # d => (x \in has'[j] <=> x \in has[j])
    <2>1. \A j \in Members : has'[j] = has[j] \/ has'[j] = has[j] \cup {d}
      BY <1>1, Zenon DEF IInv, SyncedApplied
    <2> QED BY <2>1, Zenon
  <1>7. Grown
    BY <1>1, <1>3, <1>4, <1>6, Zenon DEF Grown
  <1>8. \A x \in Slots : x # d => Same(x)
    BY <1>1, <1>a, Zenon DEF Same
  <1>9. LegFacts'
    BY <1>1, <1>3, Zenon DEF LegFacts
  <1>11. Slotwise(d)' /\ (Owed(d)' => Owed(d))
    <2>1. Slotwise(d) /\ holders[d] \in SUBSET Members
      BY Zenon DEF IInv, Store, SlotTypes
    <2>2. (Durable(d)' <=> Durable(d)) /\ (Owed(d)' <=> Owed(d))
      BY <1>1, Zenon DEF Durable, Owed
    <2>3. \A j \in holders[d] : d \in has'[j]
      BY <1>6, <2>1, Zenon DEF Slotwise, Holds
    <2> QED BY <1>1, <2>1, <2>2, <2>3, Zenon DEF Slotwise
  <1> QED BY <1>1, <1>5, <1>7, <1>8, <1>9, <1>10, <1>11, QuietStep, Zenon

\* A round Empties a slot that no member of the live quorum holds: their tombstones keep it that way.
LEMMA RoundEmptyStep ==
    ASSUME OneQueue, IInv, NEW d \in Slots, NEW live \in SUBSET Members, RoundEmpty(d, live)
    PROVE  IInv'
  <1>1. /\ Scheduled /\ d \in Issued /\ res[d] = "none" /\ res' = [res EXCEPT ![d] = "empty"]
        /\ Cardinality(live) >= Quorum /\ \A i \in live : d \notin has[i]
        /\ tomb' = [i \in Members |-> IF i \in live THEN tomb[i] \cup {d} ELSE tomb[i]]
        /\ UNCHANGED <<next, range, has, base, holders, legs, bit, verdict, pending, hint, miss, synced, folded, foldMu, rd, rpc, leg>>
    BY Zenon DEF RoundEmpty, slotVars, mapVars, ringVars
  <1>3. leg.step = "idle" /\ \A r \in Rings : Parked(r)
    BY <1>1, Alone, Zenon
  <1>4. next \in Nat /\ d < next /\ next \in Int /\ next <= next
    BY <1>1, Bounds DEF Issued, IInv, SlotTypes
  <1>10. [Next]_vars
    BY Zenon DEF Next
  <1>2. res'[d] = "empty" /\ \A x \in Slots : x # d => res'[x] = res[x]
    BY <1>1 DEF IInv, SlotTypes
  <1>5. SlotTypes'
    <2>1. res' \in [Slots -> {"none", "acked", "empty"}]
      BY <1>1, Zenon DEF IInv, SlotTypes
    <2> QED BY <1>1, <2>1, Zenon DEF IInv, SlotTypes
  <1>6. Holds
    BY <1>10, NextHolds, Zenon DEF IInv
  <1>a. /\ \A x \in Slots, j \in Members : x # d => (x \in tomb'[j] <=> x \in tomb[j])
        /\ \A j \in live : d \in tomb'[j]
    <2>1. \A j \in Members : tomb'[j] = IF j \in live THEN tomb[j] \cup {d} ELSE tomb[j]
      BY <1>1, Zenon
    <2> QED BY <2>1, Zenon
  <1>7. Grown
    BY <1>1, <1>2, <1>3, <1>4, <1>6, Zenon DEF Grown
  <1>8. \A x \in Slots : x # d => Same(x)
    BY <1>1, <1>2, <1>a, Zenon DEF Same
  <1>9. LegFacts'
    BY <1>1, <1>3, Zenon DEF LegFacts
  <1>11. Slotwise(d)' /\ (Owed(d)' => Owed(d))
    <2>1. Slotwise(d) /\ holders[d] \in SUBSET Members
      BY Zenon DEF IInv, Store, SlotTypes
    <2>2. (Durable(d)' <=> Durable(d)) /\ (Owed(d)' <=> Owed(d))
      BY <1>1, Zenon DEF Durable, Owed
    <2>3. Emptied(d)'
      BY <1>1, <1>a, Zenon DEF Emptied
    <2>4. d \notin verdict /\ ~(d <= folded)
      BY <1>1, <1>3, <2>1 DEF Slotwise
    <2>5. res'[d] # "acked" /\ res'[d] # "none"
      BY <1>2
    <2> QED BY <1>1, <1>2, <1>4, <2>1, <2>2, <2>3, <2>4, <2>5, Zenon DEF Slotwise
  <1> QED BY <1>1, <1>5, <1>7, <1>8, <1>9, <1>10, <1>11, QuietStep, ZenonT(30)

\* A round fills the leader; the leg finds the slot unresolved.
LEMMA RetireCheckStep ==
    ASSUME OneQueue, IInv, NEW d \in Slots, NEW i \in Members, RetireCheck(d, i)
    PROVE  IInv'
  <1>1. /\ Scheduled /\ d \in Issued /\ res[d] = "none" /\ has' = [has EXCEPT ![i] = has[i] \cup {d}]
        /\ leg' = [slot |-> d, leader |-> i, step |-> "note"]
        /\ UNCHANGED <<next, range, res, base, tomb, holders, legs, bit, verdict, pending, hint, miss, synced, folded, foldMu, rd, rpc>>
    BY Zenon DEF RetireCheck, slotVars, mapVars, ringVars
  <1>3. leg.step = "idle" /\ \A r \in Rings : Parked(r)
    BY <1>1, Alone, Zenon
  <1>4. next \in Nat /\ d < next /\ next \in Int /\ next <= next
    BY <1>1, Bounds DEF Issued, IInv, SlotTypes
  <1>10. [Next]_vars
    BY Zenon DEF Next
  <1>2. leg'.slot = d /\ leg'.leader = i /\ leg'.step = "note"
    BY <1>1
  <1>5. SlotTypes'
    <2>1. leg' \in [slot : Dlsns, leader : Members \cup {"none"}, step : {"idle", "note", "resolve"}]
      BY <1>1, Bounds, SMTT(30)
    <2> QED BY <1>1, <2>1, Zenon DEF IInv, SlotTypes
  <1>6. Holds
    BY <1>10, NextHolds, Zenon DEF IInv
  <1>a. /\ \A x \in Slots, j \in Members : x # d => (x \in has'[j] <=> x \in has[j])
        /\ d \in has'[i]
    <2>1. (\A j \in Members : has'[j] = has[j] \/ has'[j] = has[j] \cup {d}) /\ has'[i] = has[i] \cup {d}
      BY <1>1, Zenon DEF IInv, SyncedApplied
    <2> QED BY <2>1
  <1>7. Grown
    BY <1>1, <1>3, <1>4, <1>6, Zenon DEF Grown
  <1>8. \A x \in Slots : x # d => Same(x)
    <2>1. leg.step # "resolve"
      BY <1>3
    <2> QED BY <1>1, <1>a, <2>1, Zenon DEF Same
  <1>9. LegFacts'
    BY <1>1, <1>2, <1>4, <1>a DEF LegFacts
  <1>11. Slotwise(d)' /\ (Owed(d)' => Owed(d))
    <2>1. Slotwise(d) /\ holders[d] \in SUBSET Members
      BY Zenon DEF IInv, Store, SlotTypes
    <2>2. (Durable(d)' <=> Durable(d)) /\ (Owed(d)' <=> Owed(d))
      BY <1>1, Zenon DEF Durable, Owed
    <2>3. \A j \in holders[d] : d \in has'[j]
      BY <1>6, <2>1, Zenon DEF Slotwise, Holds
    <2>4. d \notin verdict /\ res'[d] # "empty" /\ res'[d] # "acked" /\ res'[d] = res[d]
      BY <1>1, <1>3, <2>1 DEF Slotwise
    <2> QED BY <1>1, <2>1, <2>2, <2>3, <2>4, Zenon DEF Slotwise
  <1> QED BY <1>1, <1>5, <1>7, <1>8, <1>9, <1>10, <1>11, QuietStep, Zenon

\* The leg resolves the slot it checked: with one queue nobody resolved it in between.
LEMMA RetireResolveStep ==
    ASSUME OneQueue, IInv, RetireResolve
    PROVE  IInv'
  <1>1. /\ RingsParked /\ leg.step = "resolve" /\ leg' = NoLeg
        /\ res' = [res EXCEPT ![leg.slot] = IF res[leg.slot] = "none" THEN "acked" ELSE res[leg.slot]]
        /\ UNCHANGED <<next, range, has, base, tomb, holders, legs, bit, verdict, pending, hint, miss, synced, folded, foldMu, rd, rpc>>
    BY Zenon DEF RetireResolve, slotVars, mapVars, ringVars
  <1>b. PICK d : d = leg.slot
    BY Zenon
  <1>c. d \in Slots /\ d < next /\ res[d] = "none" /\ d \in verdict
    BY <1>1, <1>b DEF IInv, Store, LegFacts
  <1>d. res' = [res EXCEPT ![d] = "acked"]
    BY <1>1, <1>b, <1>c, Zenon
  <1>3. \A r \in Rings : Parked(r)
    BY <1>1, Alone, Zenon
  <1>4. next \in Nat /\ next \in Int /\ next <= next
    BY Bounds DEF IInv, SlotTypes
  <1>10. [Next]_vars
    BY Zenon DEF Next
  <1>2. res'[d] = "acked" /\ \A x \in Slots : x # d => res'[x] = res[x]
    BY <1>c, <1>d DEF IInv, SlotTypes
  <1>5. SlotTypes'
    <2>1. res' \in [Slots -> {"none", "acked", "empty"}]
      BY <1>c, <1>d, Zenon DEF IInv, SlotTypes
    <2>2. leg' \in [slot : Dlsns, leader : Members \cup {"none"}, step : {"idle", "note", "resolve"}]
      BY <1>1, Bounds DEF NoLeg
    <2> QED BY <1>1, <2>1, <2>2, Zenon DEF IInv, SlotTypes
  <1>6. Holds
    BY <1>10, NextHolds, Zenon DEF IInv
  <1>7. Grown
    BY <1>1, <1>c, <1>2, <1>3, <1>4, <1>6, Zenon DEF Grown
  <1>8. \A x \in Slots : x # d => Same(x)
    BY <1>1, <1>b, <1>2, Zenon DEF Same
  <1>9. LegFacts'
    BY <1>1 DEF LegFacts, NoLeg
  <1>11. Slotwise(d)' /\ (Owed(d)' => Owed(d))
    <2>1. Slotwise(d) /\ holders[d] \in SUBSET Members
      BY <1>c, Zenon DEF IInv, Store, SlotTypes
    <2>2. (Durable(d)' <=> Durable(d)) /\ (Owed(d)' <=> Owed(d)) /\ Durable(d)
      BY <1>1, <1>c, Zenon DEF Durable, Owed
    <2>3. res'[d] # "empty" /\ res'[d] # "none" /\ (\A i \in Members : d \notin tomb[i]) /\ ~(d <= folded)
      BY <1>c, <1>2, <2>1 DEF Slotwise
    <2> QED BY <1>1, <1>c, <1>2, <2>1, <2>2, <2>3, Zenon DEF Slotwise
  <1> QED BY <1>1, <1>5, <1>7, <1>8, <1>9, <1>10, <1>11, QuietStep, ZenonT(30)

\* What a hand-over puts on the list and what it does to the hint.
HandsOver(d, held, cond) ==
    /\ pending' \in SUBSET Entries /\ hint' \in Int /\ pending \subseteq pending'
    /\ \A e \in pending' : e \in pending \/ (e.dlsn = d /\ e.held = held /\ e.blocks = range[d])
    /\ \A e \in pending' : hint' <= e.dlsn
    /\ cond => \E e \in pending' : e.dlsn = d

\* The hint stays at or below every pending miss (record_completion and note_filled lower it).
LEMMA HandoffStep ==
    ASSUME IInv, NEW d \in Slots, NEW held \in SUBSET Members, NEW cond \in BOOLEAN,
           IF cond THEN Handoff(d, held) ELSE UNCHANGED <<pending, hint>>
    PROVE  HandsOver(d, held, cond)
  <1>1. /\ pending \in SUBSET Entries /\ hint \in Int /\ range[d] \in SUBSET Blocks /\ \A e \in pending : hint <= e.dlsn
    BY Zenon DEF IInv, MapTypes, SlotTypes, Store
  <1>2. CASE ~cond
    <2>1. UNCHANGED <<pending, hint>>
      BY <1>2, Zenon
    <2> QED BY <1>1, <1>2, <2>1, Zenon DEF HandsOver
  <1>3. CASE cond
    <2>1. PICK e0 : e0 = [dlsn |-> d, held |-> held, blocks |-> range[d]]
      BY Zenon
    <2>2. pending' = pending \cup {e0} /\ hint' = Min({hint, d})
      BY <1>3, <2>1, Zenon DEF Handoff
    <2>3. e0 \in Entries /\ e0.dlsn = d /\ e0.held = held /\ e0.blocks = range[d]
      BY <1>1, <2>1 DEF Entries
    <2>4. d \in Int
      BY Bounds
    <2>5. hint' \in Int /\ hint' <= hint /\ hint' <= d
      BY <1>1, <2>2, <2>4, OfTwo, Zenon
    <2>6. \A e \in pending : e.dlsn \in Int
      <3>1. \A e \in pending : e.dlsn \in Nat
        BY <1>1, Bounds, Zenon DEF Entries
      <3> QED BY <3>1
    <2>7. \A e \in pending : hint' <= e.dlsn
      BY <1>1, <2>5, <2>6
    <2>8. \A e \in pending' : hint' <= e.dlsn
      BY <2>2, <2>3, <2>5, <2>7, Zenon
    <2> QED BY <1>1, <2>2, <2>3, <2>5, <2>8, Zenon DEF HandsOver
  <1> QED BY <1>2, <1>3, Zenon

\* note_filled credits the leader, makes the slot durable and hands it over unless everyone holds it.
LEMMA NoteFilledStep ==
    ASSUME OneQueue, IInv, note_filled
    PROVE  IInv'
  <1>b. PICK d, held, i : d = leg.slot /\ held = holders[d] \cup {i} /\ i = leg.leader
    BY Zenon
  <1>1. /\ RingsParked /\ leg.step = "note" /\ leg' = [leg EXCEPT !.step = "resolve"]
        /\ holders' = [holders EXCEPT ![d] = held] /\ verdict' = verdict \cup {d}
        /\ IF held # Members THEN Handoff(d, held) ELSE UNCHANGED <<pending, hint>>
        /\ UNCHANGED <<next, range, res, has, base, tomb, legs, bit, miss, synced, folded, foldMu, rd, rpc>>
    BY <1>b, Zenon DEF note_filled, truthVars, ringVars
  <1>c. d \in Slots /\ d < next /\ res[d] = "none" /\ i \in Members /\ d \in has[i]
    BY <1>1, <1>b DEF IInv, Store, LegFacts
  <1>3. \A r \in Rings : Parked(r)
    BY <1>1, Alone, Zenon
  <1>4. next \in Nat /\ next \in Int /\ next <= next
    BY Bounds DEF IInv, SlotTypes
  <1>10. [Next]_vars
    BY Zenon DEF Next
  <1>2. /\ holders[d] \in SUBSET Members /\ held \in SUBSET Members /\ holders'[d] = held /\ holders[d] \subseteq held
        /\ \A x \in Slots : x # d => holders'[x] = holders[x]
    BY <1>1, <1>b, <1>c, Zenon DEF IInv, SlotTypes
  <1>d. leg'.slot = d /\ leg'.leader = i /\ leg'.step = "resolve"
    BY <1>1, <1>b DEF IInv, SlotTypes
  <1>5. SlotTypes'
    <2>1. holders' \in [Slots -> SUBSET Members] /\ verdict' \in SUBSET Slots
      BY <1>1, <1>2, <1>c, Zenon DEF IInv, SlotTypes
    <2>2. leg' \in [slot : Dlsns, leader : Members \cup {"none"}, step : {"idle", "note", "resolve"}]
      BY <1>1 DEF IInv, SlotTypes
    <2> QED BY <1>1, <2>1, <2>2, Zenon DEF IInv, SlotTypes
  <1>6. Holds
    BY <1>10, NextHolds, Zenon DEF IInv
  <1>7. Grown
    <2>1. \A x \in Slots : holders[x] \subseteq holders'[x]
      BY <1>2, Zenon
    <2> QED BY <1>1, <2>1, <1>3, <1>4, <1>6, Zenon DEF Grown
  <1>8. \A x \in Slots : x # d => Same(x)
    <2>1. leg.step # "resolve"
      BY <1>1
    <2> QED BY <1>1, <1>2, <2>1, Zenon DEF Same
  <1>9. LegFacts'
    BY <1>1, <1>c, <1>d DEF LegFacts
  <1>e. Slotwise(d) /\ ~(d <= folded)
    BY <1>c DEF IInv, Store, Slotwise
  <1>11. Slotwise(d)'
    <2>2. Durable(d)'
      BY <1>1, Zenon DEF Durable
    <2>3. res'[d] # "empty" /\ res'[d] # "acked" /\ (\A j \in Members : d \notin tomb[j]) /\ d < next'
      BY <1>c, <1>1, <1>e DEF Slotwise
    <2>4. \A j \in holders'[d] : d \in has'[j]
      BY <1>1, <1>2, <1>b, <1>c, <1>e, Zenon DEF Slotwise
    <2> QED BY <1>1, <1>d, <1>e, <2>2, <2>3, <2>4, Zenon DEF Slotwise
  <1>12. HandsOver(d, held, held # Members)
    BY <1>1, <1>2, <1>c, HandoffStep, Zenon
  <1>13. \A e \in pending' : e \in pending \/ Handed(e)'
    <2> SUFFICES ASSUME NEW e \in pending', e \notin pending PROVE Handed(e)'
      BY Zenon
    <2>1. e.dlsn = d /\ e.held = held /\ e.blocks = range[d]
      BY <1>12, Zenon DEF HandsOver
    <2>2. folded < d
      <3>1. folded \in Nat /\ d \in Nat
        BY <1>c, Bounds, Zenon DEF IInv, MapTypes
      <3> QED BY <1>e, <3>1
    <2>3. Durable(d)' /\ \A j \in held : d \in has'[j]
      BY <1>1, <1>2, <1>b, <1>c, <1>e, Zenon DEF Slotwise, Durable
    <2> QED BY <1>1, <1>c, <2>1, <2>2, <2>3, Zenon DEF Handed
  <1>14. Owed(d)' => \E e \in pending' : e.dlsn = d
    BY <1>2, <1>12, Zenon DEF Owed, HandsOver
  <1> QED BY <1>1, <1>5, <1>7, <1>8, <1>9, <1>10, <1>11, <1>12, <1>13, <1>14, SlotStep, Zenon DEF HandsOver

\* The last completer of a quorum-held slot hands it over before the bit is set.
LEMMA RecordStep ==
    ASSUME OneQueue, IInv, NEW d \in Slots, NEW i \in Members, NEW acked \in BOOLEAN, RecordCompletion(d, i, acked)
    PROVE  IInv'
  <1>b. PICK held, cond : /\ held = (IF acked THEN holders[d] \cup {i} ELSE holders[d])
                          /\ cond = (legs'[d] = Members /\ Cardinality(holders'[d]) >= Quorum /\ holders'[d] # Members)
    BY Zenon
  <1>1. /\ Scheduled /\ d \in Issued /\ i \notin legs[d] /\ (acked => d \notin tomb[i])
        /\ has' = (IF acked THEN [has EXCEPT ![i] = has[i] \cup {d}] ELSE has)
        /\ holders' = (IF acked THEN [holders EXCEPT ![d] = holders[d] \cup {i}] ELSE holders)
        /\ legs' = [legs EXCEPT ![d] = legs[d] \cup {i}]
        /\ UNCHANGED <<next, range, res, base, tomb, bit, verdict, miss, synced, folded, foldMu, rd, rpc, leg>>
    BY Zenon DEF RecordCompletion, ringVars
  <1>h. IF cond THEN Handoff(d, holders'[d]) ELSE UNCHANGED <<pending, hint>>
    BY <1>b, Zenon DEF RecordCompletion
  <1>3. leg.step = "idle" /\ \A r \in Rings : Parked(r)
    BY <1>1, Alone, Zenon
  <1>4. next \in Nat /\ d < next /\ next \in Int /\ next <= next
    BY <1>1, Bounds DEF Issued, IInv, SlotTypes
  <1>10. [Next]_vars
    BY Zenon DEF Next
  <1>2. /\ holders[d] \in SUBSET Members /\ held \in SUBSET Members /\ holders'[d] = held /\ holders[d] \subseteq held
        /\ \A x \in Slots : x # d => holders'[x] = holders[x]
        /\ holders' \in [Slots -> SUBSET Members]
    <2>1. holders \in [Slots -> SUBSET Members] /\ holders[d] \in SUBSET Members
      BY Zenon DEF IInv, SlotTypes
    <2>2. held \in SUBSET Members /\ holders[d] \subseteq held
      BY <1>b, <2>1, Zenon
    <2>3. holders' = [holders EXCEPT ![d] = held]
      <3>1. CASE acked
        BY <1>1, <1>b, <3>1, Zenon
      <3>2. CASE ~acked
        <4>1. holders' = holders /\ held = holders[d]
          BY <1>1, <1>b, <3>2, Zenon
        <4> QED BY <2>1, <4>1
      <3> QED BY <3>1, <3>2, Zenon
    <2> QED BY <2>1, <2>2, <2>3
  <1>l. /\ legs' \in [Slots -> SUBSET Members] /\ legs'[d] = legs[d] \cup {i} /\ \A x \in Slots : x # d => legs'[x] = legs[x]
        /\ legs[d] # Members
    <2>1. legs \in [Slots -> SUBSET Members] /\ legs[d] \cup {i} \in SUBSET Members
      BY Zenon DEF IInv, SlotTypes
    <2> QED BY <1>1, <2>1
  <1>5. SlotTypes'
    BY <1>1, <1>2, <1>l, Zenon DEF IInv, SlotTypes
  <1>6. Holds
    BY <1>10, NextHolds, Zenon DEF IInv
  <1>a. /\ \A x \in Slots, j \in Members : x # d => (x \in has'[j] <=> x \in has[j])
        /\ \A j \in Members : d \in has'[j] => d \in has[j] \/ (j = i /\ acked)
        /\ acked => d \in has'[i]
    <2>1. /\ \A j \in Members : j # i => has'[j] = has[j]
          /\ has'[i] = IF acked THEN has[i] \cup {d} ELSE has[i]
      BY <1>1, Zenon DEF IInv, SyncedApplied
    <2> QED BY <2>1
  <1>7. Grown
    <2>1. \A x \in Slots : holders[x] \subseteq holders'[x] /\ legs[x] \subseteq legs'[x]
      BY <1>2, <1>l, Zenon
    <2> QED BY <1>1, <2>1, <1>3, <1>4, <1>6, Zenon DEF Grown
  <1>8. \A x \in Slots : x # d => Same(x)
    BY <1>1, <1>2, <1>l, <1>a, Zenon DEF Same
  <1>9. LegFacts'
    BY <1>1, <1>3, Zenon DEF LegFacts
  <1>e. Slotwise(d) /\ d \notin bit /\ ~(d <= folded)
    BY <1>l, Zenon DEF IInv, Store, Slotwise
  <1>f. \A j \in holders'[d] : d \in has'[j]
    <2>1. \A j \in holders[d] : d \in has'[j]
      BY <1>2, <1>6, <1>e, Zenon DEF Slotwise, Holds
    <2> QED BY <1>2, <1>a, <1>b, <2>1, Zenon
  <1>11. Slotwise(d)'
    <2>1. Durable(d) => Durable(d)'
      BY <1>5, <1>7, DurableStays, Zenon DEF IInv
    <2>2. Emptied(d) => Emptied(d)'
      <3>1. ASSUME NEW live \in SUBSET Members, Cardinality(live) >= Quorum, \A j \in live : d \in tomb[j] /\ d \notin has[j]
            PROVE  \A j \in live : d \in tomb'[j] /\ d \notin has'[j]
        BY <1>1, <1>a, <3>1, Zenon
      <3> QED BY <1>l, <3>1, Zenon DEF Emptied
    <2> HIDE DEF Durable, Emptied
    <2> QED BY <1>1, <1>4, <1>e, <1>f, <2>1, <2>2, Zenon DEF Slotwise
  <1>12. HandsOver(d, held, cond)
    <2>1. cond \in BOOLEAN
      BY <1>b, Zenon
    <2> QED BY <1>h, <1>2, <2>1, HandoffStep, Zenon
  <1>13. \A e \in pending' : e \in pending \/ Handed(e)'
    <2> SUFFICES ASSUME NEW e \in pending', e \notin pending PROVE Handed(e)'
      BY Zenon
    <2>1. e.dlsn = d /\ e.held = held /\ e.blocks = range[d] /\ cond
      BY <1>12, <1>h, Zenon DEF HandsOver
    <2>2. folded < d
      <3>1. folded \in Nat /\ d \in Nat
        BY Bounds, Zenon DEF IInv, MapTypes
      <3> QED BY <1>e, <3>1
    <2>3. Durable(d)'
      BY <1>b, <2>1, Zenon DEF Durable
    <2> QED BY <1>1, <1>2, <1>4, <1>f, <2>1, <2>2, <2>3, Zenon DEF Handed
  <1>14. Owed(d)' /\ folded < d => \E e \in pending' : e.dlsn = d
    <2> SUFFICES ASSUME Owed(d)', folded < d PROVE \E e \in pending' : e.dlsn = d
      BY Zenon
    <2>1. CASE cond
      BY <1>12, <2>1, Zenon DEF HandsOver
    <2>2. CASE ~cond
      <3>1. Owed(d)
        BY <1>1, <1>2, <1>b, <2>2, Zenon DEF Owed
      <3>2. \E e \in pending : e.dlsn = d
        BY <1>5, <1>7, <3>1, GrownKeeps, Zenon DEF IInv, Store, OwedIsHanded
      <3> QED BY <1>12, <3>2, Zenon DEF HandsOver
    <2> QED BY <2>1, <2>2, Zenon
  <1> QED BY <1>1, <1>5, <1>7, <1>8, <1>9, <1>10, <1>11, <1>12, <1>13, <1>14, SlotStep, Zenon DEF HandsOver

\* advance_synced erases a mark only for a write the member has applied, and an acked one is applied by holding it.
LEMMA AdvanceStep ==
    ASSUME OneQueue, IInv, NEW i \in Members, advance_synced(i)
    PROVE  IInv'
  <1>b. PICK a : a = AppliedUpto(i)
    BY Zenon
  <1>1. /\ Scheduled
        /\ miss' = [miss EXCEPT ![i] = [b \in Blocks |-> IF miss[i][b] <= a THEN NoMiss ELSE miss[i][b]]]
        /\ UNCHANGED <<next, range, res, has, base, tomb, holders, legs, bit, verdict, pending, hint, folded, foldMu, rd, rpc, leg>>
    BY <1>b, Zenon DEF advance_synced, truthVars, slotVars, ringVars
  <1>2. [Next]_vars
    BY Zenon DEF Next
  <1>3. \A r \in Rings : Parked(r)
    BY <1>1, Alone, Zenon
  <1>4. next \in Nat /\ next \in Int /\ next <= next
    BY Bounds DEF IInv, SlotTypes
  <1>5. SlotTypes' /\ RingTypes'
    BY <1>1, Zenon DEF IInv, SlotTypes, RingTypes
  <1>6. Holds
    BY <1>1, Zenon DEF IInv, SyncedApplied, Holds
  <1>7. Grown
    BY <1>1, <1>3, <1>4, <1>6, Zenon DEF Grown
  <1>8. SyncedApplied'
    BY <1>2, SyncedStep, Zenon DEF IInv
  <1>9. /\ \A j \in Members : j # i => miss'[j] = miss[j]
        /\ \A b \in Blocks : miss'[i][b] = (IF miss[i][b] <= a THEN NoMiss ELSE miss[i][b]) /\ miss[i][b] \in Dlsns
        /\ miss' \in [Members -> [Blocks -> Dlsns]]
    <2>1. miss \in [Members -> [Blocks -> Dlsns]] /\ NoMiss \in Dlsns
      BY Bounds, Zenon DEF IInv, MapTypes, NoMiss
    <2>2. PICK row : row = [b \in Blocks |-> IF miss[i][b] <= a THEN NoMiss ELSE miss[i][b]]
      BY Zenon
    <2>3. row \in [Blocks -> Dlsns] /\ \A b \in Blocks : row[b] = (IF miss[i][b] <= a THEN NoMiss ELSE miss[i][b]) /\ miss[i][b] \in Dlsns
      BY <2>1, <2>2, Zenon
    <2>4. miss' = [miss EXCEPT ![i] = row]
      BY <1>1, <2>2, Zenon
    <2> QED BY <2>1, <2>3, <2>4, Zenon
  <1>10. MapTypes'
    BY <1>1, <1>9, Zenon DEF IInv, MapTypes
  <1>11. Marked'
    <2> SUFFICES ASSUME NEW b \in Blocks, NEW j \in Members, NEW n \in Slots, IsNewest(n, b, folded)', n \notin has'[j]
                 PROVE  miss'[j][b] = n
      BY Zenon DEF Marked
    <2>1. IsNewest(n, b, folded) /\ n \notin has[j]
      BY <1>1, Zenon DEF IsNewest
    <2>2. miss[j][b] = n /\ res[n] = "acked"
      BY <2>1, Zenon DEF IInv, Store, Marked, IsNewest
    <2>3. CASE j # i
      BY <1>9, <2>2, <2>3, Zenon
    <2>4. CASE j = i
      <3>1. n \notin tomb[i]
        <4>1. res[n] # "empty"
          BY <2>2
        <4> QED BY <4>1, Zenon DEF IInv, Store, Slotwise
      <3>2. ~(n <= a)
        <4>1. CASE base[i]
          BY <1>b, <2>1, <2>4, <3>1, <4>1, PrefixRun, Zenon DEF AppliedUpto
        <4>2. CASE ~base[i]
          <5>1. a = Unsynced /\ n \in Nat
            BY <1>b, <4>2, Bounds, Zenon DEF AppliedUpto
          <5> QED BY <5>1 DEF Unsynced
        <4> QED BY <4>1, <4>2, Zenon
      <3> QED BY <1>9, <2>2, <2>4, <3>2, Zenon
    <2> QED BY <2>3, <2>4, Zenon
  <1>12. /\ \A r \in Rings : Ring(r)'
         /\ Unfolded = pending /\ Unfolded' = pending'
         /\ \A e \in pending : Handed(e)'
    BY <1>5, <1>7, GrownKeeps, Zenon
  <1>13. \A x \in Slots : Slotwise(x)' /\ (Owed(x)' => Owed(x))
    <2>1. \A x \in Slots : Same(x)
      BY <1>1, Zenon DEF Same
    <2> QED BY <1>7, <2>1, SameKeeps, Zenon
  <1>14. LegFacts'
    BY <1>1, Zenon DEF IInv, Store, LegFacts
  <1>15. OwedIsHanded'
    BY <1>1, <1>12, <1>13, Zenon DEF IInv, Store, OwedIsHanded
  <1>16. Store'
    BY <1>1, <1>11, <1>12, <1>13, <1>14, <1>15, Zenon DEF IInv, Store
  <1> QED BY <1>5, <1>8, <1>10, <1>12, <1>16, Zenon DEF IInv
-----------------------------------------------------------------------------
\* A step of read r: it runs alone, and changes no write, no member and no verdict.
RingStep(r, v, label) ==
    /\ rd' \in [Rings -> Reads] /\ rd'[r] = v /\ \A q \in Rings : q # r => rd'[q] = rd[q]
    /\ rpc' \in [Rings -> {"idle", "planned", "fold", "apply", "pick", "overlay", "serve"}]
    /\ rpc'[r] = label /\ \A q \in Rings : q # r => rpc'[q] = rpc[q]
    /\ leg.step = "idle" /\ \A q \in Rings : q # r => Parked(q)
    /\ UNCHANGED <<next, range, res, has, base, tomb, holders, legs, bit, verdict, leg>>

\* A ring step of the code writes its own read and label and nothing else.
LEMMA RingStepIs ==
    ASSUME OneQueue, RingTypes, NEW r \in Rings, RingScheduled(r), NEW v \in Reads,
           SetRead(r, v) \/ (rd' = rd /\ v = rd[r]),
           NEW label \in {"idle", "planned", "fold", "apply", "pick", "overlay", "serve"}, RingGoto(r, label),
           UNCHANGED <<truthVars, slotVars, leg>>
    PROVE  RingStep(r, v, label)
  <1>1. rd' \in [Rings -> Reads] /\ rd'[r] = v /\ \A q \in Rings : q # r => rd'[q] = rd[q]
    BY Zenon DEF RingTypes, SetRead
  <1>2. rpc' = [rpc EXCEPT ![r] = label] /\ rpc \in [Rings -> {"idle", "planned", "fold", "apply", "pick", "overlay", "serve"}]
    BY Zenon DEF RingTypes, RingGoto
  <1>3. /\ rpc' \in [Rings -> {"idle", "planned", "fold", "apply", "pick", "overlay", "serve"}]
        /\ rpc'[r] = label /\ \A q \in Rings : q # r => rpc'[q] = rpc[q]
    BY <1>2, Zenon
  <1>4. leg.step = "idle" /\ \A q \in Rings : q # r => Parked(q)
    BY Alone, Zenon
  <1> QED BY <1>1, <1>3, <1>4, Zenon DEF RingStep, truthVars, slotVars

\* The other reads are parked with no misses drained.
LEMMA OthersKeep ==
    ASSUME IInv, NEW r \in Rings, NEW v, NEW label, RingStep(r, v, label)
    PROVE  /\ SlotTypes' /\ RingTypes' /\ Holds /\ LegFacts'
           /\ \A q \in Rings : q # r => Ring(q)'
           /\ Unfolded = pending \cup rd[r].batch /\ Unfolded' = pending' \cup v.batch
  <1>1. SlotTypes' /\ RingTypes' /\ LegFacts'
    BY Zenon DEF IInv, SlotTypes, RingTypes, RingStep, LegFacts, Store
  <1>2. Holds
    BY Zenon DEF IInv, SyncedApplied, Holds, RingStep
  <1>3. \A q \in Rings : q # r => Ring(q)'
    BY <1>2, ParkedKeeps, ZenonT(30) DEF IInv, RingStep
  <1>4. \A q \in Rings : q # r => rd[q].batch = {} /\ rd'[q] = rd[q]
    BY DEF IInv, Ring, RingStep, Parked
  <1>5. Unfolded = pending \cup rd[r].batch
    <2>1. \A e : e \in Unfolded <=> e \in pending \/ \E q \in Rings : e \in rd[q].batch
      BY Zenon DEF Unfolded
    <2>2. \A e : (\E q \in Rings : e \in rd[q].batch) <=> e \in rd[r].batch
      BY <1>4, Zenon
    <2> QED BY <2>1, <2>2, SMT
  <1>6. Unfolded' = pending' \cup v.batch
    <2>1. \A q \in Rings : rd'[q].batch = IF q = r THEN v.batch ELSE {}
      BY <1>4, Zenon DEF RingStep
    <2>2. \A e : e \in Unfolded' <=> e \in pending' \/ \E q \in Rings : e \in rd'[q].batch
      BY Zenon DEF Unfolded
    <2>3. \A e : (\E q \in Rings : e \in rd'[q].batch) <=> e \in v.batch
      BY <2>1, Zenon
    <2> QED BY <2>2, <2>3, Zenon
  <1> QED BY <1>1, <1>2, <1>3, <1>5, <1>6, Zenon

\* A step that only moves the read on.
LEMMA ReadStep ==
    ASSUME IInv, [Next]_vars, NEW r \in Rings, NEW v, NEW label, RingStep(r, v, label), v.batch = rd[r].batch,
           UNCHANGED <<pending, hint, miss, synced, folded>>, Ring(r)'
    PROVE  IInv'
  <1>1. SyncedApplied'
    BY SyncedStep, Zenon DEF IInv
  <1>2. /\ SlotTypes' /\ RingTypes' /\ LegFacts' /\ \A q \in Rings : q # r => Ring(q)'
        /\ Unfolded' = Unfolded
    BY OthersKeep, Zenon
  <1>3. MapTypes'
    BY Zenon DEF IInv, MapTypes
  <1>4. \A d \in Slots : Slotwise(d)' /\ (Owed(d)' <=> Owed(d))
    <2>1. \A d \in Slots : (Durable(d)' <=> Durable(d)) /\ (Emptied(d)' <=> Emptied(d)) /\ (Owed(d)' <=> Owed(d))
      BY Zenon DEF Durable, Emptied, Owed, RingStep
    <2>2. \A d \in Slots : Slotwise(d)
      BY Zenon DEF IInv, Store
    <2> QED BY <2>1, <2>2, Zenon DEF Slotwise, RingStep
  <1>5. \A e \in Unfolded' : Handed(e)'
    BY <1>2, Zenon DEF IInv, Store, Handed, Durable, RingStep
  <1>6. OwedIsHanded' /\ Marked'
    BY <1>2, <1>4, Zenon DEF IInv, Store, OwedIsHanded, Marked, IsNewest, RingStep
  <1>7. Store'
    BY <1>2, <1>4, <1>5, <1>6, Zenon DEF IInv, Store
  <1> QED BY <1>1, <1>2, <1>3, <1>7, Zenon DEF IInv

\* A plan, once made, stands while its read runs alone.
LEMMA PlanStands ==
    ASSUME NEW r, NEW v, NEW label, RingStep(r, v, label), NEW x
    PROVE  /\ Planned(x)' <=> Planned(x)
           /\ \A d \in Slots : res'[d] = res[d] /\ (d \in bit' <=> d \in bit)
  BY Zenon DEF RingStep, Planned, IsNewest

\* fold_to that finds nothing to fold goes on to the members.
LEMMA FoldNothingStep ==
    ASSUME OneQueue, IInv, NEW r \in Rings, FoldNothing(r)
    PROVE  IInv'
  <1>1. /\ RingScheduled(r) /\ rpc[r] = "fold" /\ RingGoto(r, "pick") /\ rd' = rd
        /\ UNCHANGED <<truthVars, slotVars, leg>> /\ UNCHANGED <<pending, hint, miss, synced, folded>>
    BY Zenon DEF FoldNothing, mapVars
  <1>2. PICK v \in Reads : v = rd[r]
    BY Zenon DEF IInv, RingTypes
  <1>3. RingStep(r, v, "pick")
    BY <1>1, <1>2, RingStepIs, Zenon DEF IInv
  <1>4. [Next]_vars
    BY Zenon DEF Next
  <1>5. v.batch = {} /\ Planned(v)
    <2>1. Ring(r)
      BY ZenonT(30) DEF IInv
    <2> QED BY <1>1, <1>2, <2>1 DEF Ring, Parked
  <1>6. Ring(r)'
    <2>1. rd'[r] = v /\ rpc'[r] = "pick"
      BY <1>3, Zenon DEF RingStep
    <2>2. Planned(v)'
      BY <1>3, <1>5, PlanStands, Zenon
    <2> QED BY <1>5, <2>1, <2>2 DEF Ring, Parked
  <1> QED BY <1>1, <1>2, <1>3, <1>4, <1>6, ReadStep, Zenon

\* A member that does not answer is left for another: the read has been issued once, so it is no first pick.
LEMMA FailOverStep ==
    ASSUME OneQueue, IInv, NEW r \in Rings, FailOver(r)
    PROVE  IInv'
  <1>1. /\ RingScheduled(r) /\ rpc[r] = "serve" /\ RingGoto(r, "pick") /\ rd' = rd
        /\ UNCHANGED <<truthVars, slotVars, leg>> /\ UNCHANGED <<pending, hint, miss, synced, folded>>
    BY Zenon DEF FailOver, mapVars
  <1>2. PICK v \in Reads : v = rd[r]
    BY Zenon DEF IInv, RingTypes
  <1>3. RingStep(r, v, "pick")
    BY <1>1, <1>2, RingStepIs, Zenon DEF IInv
  <1>4. [Next]_vars
    BY Zenon DEF Next
  <1>5. v.batch = {} /\ v.tried # {}
    <2>1. Ring(r)
      BY Zenon DEF IInv
    <2> QED BY <1>1, <1>2, <2>1, ZenonT(30) DEF Ring
  <1>6. Ring(r)'
    <2>1. rd'[r] = v /\ rpc'[r] = "pick"
      BY <1>3, Zenon DEF RingStep
    <2> QED BY <1>5, <2>1, SMTT(30) DEF Ring, Parked
  <1> QED BY <1>1, <1>2, <1>3, <1>4, <1>6, ReadStep, Zenon

\* The read ends.
LEMMA DoneStep ==
    ASSUME OneQueue, IInv, NEW r \in Rings, Done(r)
    PROVE  IInv'
  <1>1. /\ RingScheduled(r) /\ (rpc[r] = "serve" \/ rpc[r] = "pick") /\ RingGoto(r, "idle") /\ SetRead(r, NoRead)
        /\ UNCHANGED <<truthVars, slotVars, leg>> /\ UNCHANGED <<pending, hint, miss, synced, folded>>
    BY Zenon DEF Done, mapVars
  <1>2. NoRead \in Reads /\ NoRead.batch = {}
    BY Bounds DEF NoRead, Reads
  <1>3. RingStep(r, NoRead, "idle")
    BY <1>1, <1>2, RingStepIs, Zenon DEF IInv
  <1>4. [Next]_vars
    BY ZenonT(30) DEF Next
  <1>5. rd[r].batch = {}
    <2>1. Ring(r)
      BY Zenon DEF IInv
    <2> QED BY <1>1, <2>1 DEF Ring
  <1>6. Ring(r)'
    <2>1. rd'[r] = NoRead /\ rpc'[r] = "idle"
      BY <1>3, Zenon DEF RingStep
    <2> QED BY <1>2, <2>1 DEF Ring, Parked
  <1> QED BY <1>1, <1>2, <1>3, <1>4, <1>5, <1>6, ReadStep, Zenon

\* eligible()'s first half picks a candidate the Missing map does not exclude.
LEMMA EligibleMapStep ==
    ASSUME OneQueue, IInv, NEW r \in Rings, NEW i \in Members, EligibleMap(r, i)
    PROVE  IInv'
  <1>0. PICK x \in Reads : x = rd[r]
    BY Zenon DEF IInv, RingTypes
  <1>1. /\ RingScheduled(r) /\ rpc[r] = "pick" /\ i \notin x.tried /\ HoldsBelow(i, x.blocks)
        /\ RingGoto(r, "overlay") /\ SetRead(r, [x EXCEPT !.cand = i])
        /\ UNCHANGED <<truthVars, slotVars, leg>> /\ UNCHANGED <<pending, hint, miss, synced, folded>>
    BY <1>0, ZenonT(30) DEF EligibleMap, mapVars
  <1>2. PICK v : v = [x EXCEPT !.cand = i]
    BY Zenon
  <1>a. v \in Reads /\ v.batch = x.batch /\ v.tried = x.tried /\ v.blocks = x.blocks /\ v.need = x.need /\ v.hmax = x.hmax /\ v.cand = i
    BY <1>2 DEF Reads
  <1>3. RingStep(r, v, "overlay")
    BY <1>1, <1>2, <1>a, RingStepIs, Zenon DEF IInv
  <1>4. [Next]_vars
    BY Zenon DEF Next
  <1>5. x.batch = {} /\ (x.tried = {} => Planned(x))
    <2>1. Ring(r)
      BY Zenon DEF IInv
    <2> QED BY <1>0, <1>1, <2>1 DEF Ring, Parked
  <1>6. Ring(r)'
    <2>1. rd'[r] = v /\ rpc'[r] = "overlay"
      BY <1>3, Zenon DEF RingStep
    <2>2. v.tried = {} => Planned(v)
      BY <1>5, <1>a, Zenon DEF Planned
    <2>3. v.tried = {} => Planned(v)'
      BY <1>3, <2>2, PlanStands, Zenon
    <2>4. HoldsBelow(i, v.blocks)'
      BY <1>1, <1>a, Zenon DEF HoldsBelow
    <2> QED BY <1>1, <1>5, <1>a, <2>1, <2>3, <2>4, SMTT(30) DEF Ring, Parked
  <1> QED BY <1>0, <1>1, <1>a, <1>3, <1>4, <1>6, ReadStep, ZenonT(30)

\* A read that has been issued to one member so far was issued to none before.
LEMMA FirstTry ==
    ASSUME NEW T \in SUBSET Members, NEW i \in Members, i \notin T, Cardinality(T \cup {i}) = 1
    PROVE  T = {}
  <1>1. IsFiniteSet(T)
    BY RouteAssumption, FS_Subset, Zenon
  <1>2. Cardinality(T) \in Nat /\ Cardinality(T \cup {i}) = Cardinality(T) + 1
    BY <1>1, FS_CardinalityType, FS_AddElement, Zenon
  <1>3. Cardinality(T) = 0
    BY <1>2
  <1> QED BY <1>1, <1>3, FS_EmptySet, Zenon

\* Both tiers together: a member that the Missing map and the overlay let pass holds what the plan needs.
LEMMA TiersCover ==
    ASSUME IInv, NEW x \in Reads, NEW i \in Members, Planned(x), HoldsBelow(i, x.blocks), OverlayHolds(i, x.blocks, x.hmax)
    PROVE  base[i] /\ x.need \subseteq has[i]
  <1>1. base[i]
    <2> SUFFICES ASSUME ~base[i] PROVE FALSE
      BY Zenon
    <2>1. L <= synced[i] /\ synced[i] <= Unsynced /\ synced[i] \in Int
      <3>1. synced[i] >= L /\ synced[i] <= AppliedUpto(i) /\ synced[i] \in Int
        BY Zenon DEF HoldsBelow, IInv, SyncedApplied
      <3>2. AppliedUpto(i) = Unsynced
        BY Zenon DEF AppliedUpto
      <3>3. synced[i] <= Unsynced
        BY <3>1, <3>2, Zenon
      <3> QED BY <3>1, <3>3, Bounds
    <2> QED BY <2>1, Bounds DEF Unsynced
  <1>2. ASSUME NEW n \in x.need PROVE n \in has[i]
    <2>1. PICK b \in x.blocks : n <= x.hmax /\ IsNewest(n, b, L + MaxSlots)
      BY Zenon DEF Planned
    <2>2. n \in Slots /\ b \in Blocks /\ x.hmax \in Dlsns
      BY <2>1, Zenon DEF Reads
    <2>3. folded \in Nat /\ n \in Nat /\ Slotwise(n) /\ b \in range[n] /\ res[n] = "acked" /\ L < n /\ folded <= L + MaxSlots
      BY <2>1, <2>2, Bounds, Zenon DEF IInv, MapTypes, Store, IsNewest
    <2>4. CASE n <= folded
      <3>1. IsNewest(n, b, folded)
        <4>1. \A m \in Slots : m <= folded => m <= L + MaxSlots
          BY Bounds, Zenon
        <4> QED BY <2>1, <2>4, <4>1, Zenon DEF IsNewest
      <3>2. miss[i][b] = NoMiss
        BY <2>1, Zenon DEF HoldsBelow
      <3>3. n # NoMiss
        BY <2>2, Bounds, Zenon DEF NoMiss
      <3> QED BY <2>2, <3>1, <3>2, <3>3, Zenon DEF IInv, Store, Marked
    <2>5. CASE ~(n <= folded)
      <3>1. folded < n
        BY <2>3, <2>5
      <3>2. n \in Issued
        <4>1. res[n] # "none"
          BY <2>3
        <4>2. n < next /\ next \in Nat
          BY <2>3, <4>1, Bounds, Zenon DEF Slotwise, IInv, SlotTypes
        <4> QED BY <2>3, <4>2, Bounds, SMTT(30) DEF Issued
      <3>3. Durable(n) /\ range[n] \cap x.blocks # {}
        BY <2>1, <2>3, Zenon DEF Slotwise
      <3>4. i \in holders[n]
        BY <2>1, <3>1, <3>2, <3>3, Zenon DEF OverlayHolds
      <3> QED BY <2>3, <3>4, Zenon DEF Slotwise
    <2> QED BY <2>4, <2>5, Zenon
  <1> QED BY <1>1, <1>2, Zenon

\* eligible()'s second half: the candidate passes the overlay and the read is issued to it, or the next is tried.
LEMMA EligibleOverlayStep ==
    ASSUME OneQueue, IInv, NEW r \in Rings, EligibleOverlay(r)
    PROVE  IInv'
  <1>0. PICK x \in Reads : x = rd[r]
    BY Zenon DEF IInv, RingTypes
  <1>1. /\ RingScheduled(r) /\ rpc[r] = "overlay"
        /\ UNCHANGED <<truthVars, slotVars, leg>> /\ UNCHANGED <<pending, hint, miss, synced, folded>>
    BY Zenon DEF EligibleOverlay, mapVars
  <1>2. [Next]_vars
    BY Zenon DEF Next
  <1>3. x.batch = {} /\ (x.tried = {} => Planned(x)) /\ x.cand \in Members /\ x.cand \notin x.tried /\ HoldsBelow(x.cand, x.blocks)
    <2>1. Ring(r)
      BY Zenon DEF IInv
    <2> QED BY <1>0, <1>1, <2>1 DEF Ring, Parked
  <1>4. CASE /\ OverlayHolds(x.cand, x.blocks, x.hmax) /\ RingGoto(r, "serve")
             /\ SetRead(r, [x EXCEPT !.tried = x.tried \cup {x.cand}, !.f = L])
    <2>1. PICK v : v = [x EXCEPT !.tried = x.tried \cup {x.cand}, !.f = L]
      BY Zenon
    <2>2. /\ v \in Reads /\ v.batch = x.batch /\ v.tried = x.tried \cup {x.cand} /\ v.need = x.need /\ v.cand = x.cand
          /\ x.tried \in SUBSET Members
      BY <1>3, <2>1, Bounds, Zenon DEF Reads
    <2>3. RingStep(r, v, "serve")
      BY <1>1, <1>4, <2>1, <2>2, RingStepIs, Zenon DEF IInv
    <2>4. rd'[r] = v /\ rpc'[r] = "serve" /\ has' = has /\ base' = base
      BY <2>3, Zenon DEF RingStep
    <2>5. ASSUME Cardinality(v.tried) = 1 PROVE v.cand \in Members /\ Fresh(r)'
      <3>1. x.tried = {}
        BY <1>3, <2>2, <2>5, FirstTry, Zenon
      <3>2. base[x.cand] /\ x.need \subseteq has[x.cand]
        BY <1>3, <1>4, <3>1, TiersCover, ZenonT(30)
      <3> QED BY <1>3, <2>2, <2>4, <3>2, Zenon DEF Fresh
    <2>6. Ring(r)'
      <3>1. v.tried # {} /\ v.batch = {}
        BY <1>3, <2>2, Zenon
      <3> QED BY <2>4, <2>5, <3>1 DEF Ring, Parked
    <2> QED BY <1>0, <1>1, <1>2, <2>2, <2>3, <2>6, ReadStep, Zenon
  <1>5. CASE /\ RingGoto(r, "pick") /\ SetRead(r, [x EXCEPT !.cand = "none"])
    <2>1. PICK v : v = [x EXCEPT !.cand = "none"]
      BY Zenon
    <2>2. v \in Reads /\ v.batch = x.batch /\ v.tried = x.tried /\ v.need = x.need /\ v.blocks = x.blocks /\ v.hmax = x.hmax
      BY <2>1 DEF Reads
    <2>3. RingStep(r, v, "pick")
      BY <1>1, <1>5, <2>1, <2>2, RingStepIs, Zenon DEF IInv
    <2>4. rd'[r] = v /\ rpc'[r] = "pick"
      BY <2>3, Zenon DEF RingStep
    <2>5. v.tried = {} => Planned(v)
      BY <1>3, <2>2, Zenon DEF Planned
    <2>6. v.tried = {} => Planned(v)'
      BY <2>3, <2>5, PlanStands, Zenon
    <2>7. Ring(r)'
      BY <1>3, <2>2, <2>4, <2>6 DEF Ring, Parked
    <2> QED BY <1>0, <1>1, <1>2, <2>2, <2>3, <2>7, ReadStep, Zenon
  <1> QED BY <1>0, <1>4, <1>5, Zenon DEF EligibleOverlay

\* F is loaded after the plan and lifts Hmax.
LEMMA LoadFrontierStep ==
    ASSUME OneQueue, IInv, NEW r \in Rings, LoadFrontier(r)
    PROVE  IInv'
  <1>0. PICK x \in Reads : x = rd[r]
    BY Zenon DEF IInv, RingTypes
  <1>f. PICK f, h : f = F /\ h = Max({x.hmax, f})
    BY Zenon
  <1>1. /\ RingScheduled(r) /\ rpc[r] = "planned" /\ RingGoto(r, "fold") /\ SetRead(r, [x EXCEPT !.f = f, !.hmax = h])
        /\ UNCHANGED <<truthVars, slotVars, leg>> /\ UNCHANGED <<pending, hint, miss, synced, folded>>
    BY <1>0, <1>f, Zenon DEF LoadFrontier, mapVars
  <1>2. f \in Dlsns /\ \A d \in Slots : d <= f => res[d] # "none"
    BY <1>f, PrefixRun, Zenon DEF F
  <1>3. h \in Dlsns /\ x.hmax <= h
    <2>1. x.hmax \in Dlsns
      BY Zenon DEF Reads
    <2>2. x.hmax \in Int /\ f \in Int
      <3>1. x.hmax \in Nat /\ f \in Nat
        BY <1>2, <2>1, Bounds, Zenon
      <3> QED BY <3>1
    <2> QED BY <1>2, <1>f, <2>1, <2>2, OfTwo, Zenon
  <1>4. PICK v : v = [x EXCEPT !.f = f, !.hmax = h]
    BY Zenon
  <1>5. v \in Reads /\ v.batch = x.batch /\ v.tried = x.tried /\ v.need = x.need /\ v.blocks = x.blocks /\ v.hmax = h /\ v.f = f
    BY <1>2, <1>3, <1>4, Zenon DEF Reads
  <1>6. RingStep(r, v, "fold")
    BY <1>1, <1>4, <1>5, RingStepIs, Zenon DEF IInv
  <1>7. [Next]_vars
    BY Zenon DEF Next
  <1>8. x.batch = {} /\ x.tried = {} /\ Planned(x)
    <2>1. Ring(r)
      BY Zenon DEF IInv
    <2> QED BY <1>0, <1>1, <2>1 DEF Ring, Parked
  <1>9. Planned(v)
    <2> SUFFICES ASSUME NEW n \in v.need PROVE \E b \in v.blocks : n <= v.hmax /\ IsNewest(n, b, L + MaxSlots)
      BY Zenon DEF Planned
    <2>1. PICK b \in x.blocks : n <= x.hmax /\ IsNewest(n, b, L + MaxSlots)
      BY <1>5, <1>8, Zenon DEF Planned
    <2>2. n \in Nat /\ x.hmax \in Nat /\ h \in Nat
      BY <1>3, <1>5, Bounds, Zenon DEF Reads
    <2>3. n <= h
      BY <1>3, <2>1, <2>2, SMTT(30)
    <2> QED BY <1>5, <2>1, <2>3, Zenon
  <1>10. Ring(r)'
    <2>1. rd'[r] = v /\ rpc'[r] = "fold"
      BY <1>6, Zenon DEF RingStep
    <2>2. Planned(v)' /\ \A d \in Slots : d <= v.f => res'[d] # "none"
      BY <1>2, <1>5, <1>6, <1>9, PlanStands, Zenon
    <2> QED BY <1>5, <1>8, <2>1, <2>2 DEF Ring, Parked
  <1> QED BY <1>0, <1>1, <1>5, <1>6, <1>7, <1>10, ReadStep, Zenon
-----------------------------------------------------------------------------
\* The greatest of L and a set of slots.
LEMMA MaxOfSlots ==
    ASSUME NEW S \in SUBSET Slots
    PROVE  /\ Max({L} \cup S) \in Dlsns /\ (Max({L} \cup S) \in S \/ Max({L} \cup S) = L)
           /\ \A d \in S : d <= Max({L} \cup S)
  <1> DEFINE T == {L} \cup S
  <1>1. T \in SUBSET Int /\ T # {} /\ \A x \in T : x <= L + MaxSlots
    <2>1. \A x \in T : x \in Int /\ x <= L + MaxSlots
      BY Bounds
    <2> QED BY <2>1, Zenon
  <1>2. L + MaxSlots \in Int
    BY Bounds
  <1>3. Max(T) \in T /\ \A x \in T : x <= Max(T)
    <2> HIDE DEF T
    <2> QED BY <1>1, <1>2, MaxOfBounded, Zenon
  <1>4. \A x \in T : x \in Dlsns
    BY Bounds, Zenon
  <1> QED BY <1>3, <1>4, Zenon

\* The newest acked write of a block below h, or L.
LEMMA NewestIs ==
    ASSUME SlotTypes, \A d \in Slots : Slotwise(d), NEW b \in Blocks, NEW h
    PROVE  /\ Newest(b, h) \in Dlsns
           /\ Newest(b, h) = L \/ (Newest(b, h) \in Slots /\ Newest(b, h) <= h /\ b \in range[Newest(b, h)] /\ res[Newest(b, h)] = "acked")
           /\ \A m \in Slots : m <= h /\ b \in range[m] /\ res[m] = "acked" => m <= Newest(b, h)
  <1> DEFINE S == {d \in Slots : d <= h /\ Covers(d, b) /\ res[d] = "acked"}
  <1>1. Newest(b, h) = Max({L} \cup S) /\ S \in SUBSET Slots
    BY Zenon DEF Newest
  <1>2. \A m \in Slots : res[m] = "acked" => m \in Issued
    <2> SUFFICES ASSUME NEW m \in Slots, res[m] = "acked" PROVE m \in Issued
      BY Zenon
    <2>1. res[m] # "none"
      OBVIOUS
    <2>2. m < next /\ next \in Nat /\ m \in Nat /\ L < m
      BY <2>1, Bounds, Zenon DEF Slotwise, SlotTypes
    <2> QED BY <2>2, Bounds DEF Issued
  <1>3. \A m \in Slots : m <= h /\ b \in range[m] /\ res[m] = "acked" => m \in S
    BY <1>2, Zenon DEF Covers
  <1>4. \A m \in S : m \in Slots /\ m <= h /\ b \in range[m] /\ res[m] = "acked"
    BY Zenon DEF Covers
  <1> HIDE DEF S
  <1>5. /\ Max({L} \cup S) \in Dlsns /\ (Max({L} \cup S) \in S \/ Max({L} \cup S) = L)
        /\ \A d \in S : d <= Max({L} \cup S)
    BY <1>1, MaxOfSlots, Zenon
  <1> QED BY <1>1, <1>3, <1>4, <1>5, Zenon

\* A block's horizon never ducks below the newest acked write of the block.
LEMMA HorizonIs ==
    ASSUME SlotTypes, \A d \in Slots : Slotwise(d), NEW b \in Blocks
    PROVE  /\ Horizon(b) \in Dlsns
           /\ \A m \in Slots : b \in range[m] /\ res[m] = "acked" => m <= Horizon(b)
  <1>1. PICK f, a, H : f = F /\ a = Ha /\ H = Max({f, a})
    BY Zenon
  <1>2. f \in Dlsns
    BY <1>1, PrefixRun, Zenon DEF F
  <1>3. a \in Dlsns /\ \A d \in Slots : res[d] = "acked" => d <= a
    <2>1. {d \in Slots : res[d] = "acked"} \in SUBSET Slots
      BY Zenon
    <2> QED BY <1>1, <2>1, MaxOfSlots, Zenon DEF Ha
  <1>4. f \in Nat /\ a \in Nat /\ f \in Int /\ a \in Int
    <2>1. f \in Nat /\ a \in Nat
      BY <1>2, <1>3, Bounds, Zenon
    <2> QED BY <2>1
  <1>5. H \in Dlsns /\ H \in Nat /\ a <= H
    BY <1>1, <1>2, <1>3, <1>4, OfTwo, Zenon
  <1>6. PICK n : n = Newest(b, H)
    BY Zenon
  <1>7. n \in Dlsns /\ n \in Nat
    BY <1>6, NewestIs, Bounds, Zenon
  <1>8. \A m \in Slots : res[m] = "acked" => m <= H
    <2> SUFFICES ASSUME NEW m \in Slots, res[m] = "acked" PROVE m <= H
      BY Zenon
    <2>1. m <= a /\ m \in Nat
      BY <1>3, Bounds, Zenon
    <2> QED BY <1>4, <1>5, <2>1
  <1>9. \A m \in Slots : b \in range[m] /\ res[m] = "acked" => m <= n
    BY <1>6, <1>8, NewestIs, Zenon
  <1>10. n <= H
    <2>1. CASE n = L
      BY <1>5, <2>1, Bounds
    <2>2. CASE n # L
      BY <1>6, <2>2, NewestIs, Zenon
    <2> QED BY <2>1, <2>2, Zenon
  <1> DEFINE above == {u \in Slots : n < u /\ u <= H /\ Covers(u, b) /\ res[u] = "none"}
  <1>11. Horizon(b) = IF above = {} THEN H ELSE Min(above) - 1
    BY <1>1, <1>6, Zenon DEF Horizon
  <1>12. Horizon(b) \in Dlsns /\ n <= Horizon(b)
    <2>1. CASE above = {}
      BY <1>5, <1>10, <1>11, <2>1, Zenon
    <2>2. CASE above # {}
      <3>1. above \in SUBSET Nat
        BY Bounds, Zenon
      <3>2. Min(above) \in above
        <4> HIDE DEF above
        <4> QED BY <2>2, <3>1, MinIsLeast, Zenon
      <3>3. PICK u : u = Min(above)
        BY Zenon
      <3>4. u \in Slots /\ n < u /\ Horizon(b) = u - 1
        BY <1>11, <2>2, <3>2, <3>3, Zenon
      <3>5. L <= n /\ L < u /\ u <= L + MaxSlots /\ u \in Nat
        BY <1>7, <3>4, Bounds, Zenon
      <3>6. u - 1 \in Dlsns /\ n <= u - 1
        BY <1>7, <3>4, <3>5, Bounds DEF Dlsns
      <3> QED BY <3>4, <3>6, Zenon
    <2> QED BY <2>1, <2>2, Zenon
  <1>13. ASSUME NEW m \in Slots, b \in range[m], res[m] = "acked" PROVE m <= Horizon(b)
    <2>1. PICK h : h = Horizon(b)
      BY Zenon
    <2>2. m <= n /\ n <= h /\ m \in Nat /\ h \in Nat
      BY <1>9, <1>12, <1>13, <2>1, Bounds, Zenon
    <2>3. m <= h
      BY <1>7, <2>2
    <2> QED BY <2>1, <2>3, Zenon
  <1> QED BY <1>12, <1>13, Zenon

\* The greatest horizon of a range.
LEMMA HmaxIs ==
    ASSUME SlotTypes, \A d \in Slots : Slotwise(d), NEW bs \in SUBSET Blocks, bs # {}
    PROVE  /\ Max({Horizon(b) : b \in bs}) \in Dlsns
           /\ \A b \in bs : Horizon(b) <= Max({Horizon(c) : c \in bs})
  <1> DEFINE T == {Horizon(b) : b \in bs}
  <1>1. T \in SUBSET Dlsns /\ T # {}
    BY HorizonIs, Zenon
  <1>2. T \in SUBSET Int /\ (\A x \in T : x <= L + MaxSlots) /\ L + MaxSlots \in Int
    <2> HIDE DEF T
    <2>1. (\A x \in Dlsns : x \in Int /\ x <= L + MaxSlots) /\ L + MaxSlots \in Int
      BY Bounds
    <2> QED BY <1>1, <2>1, Zenon
  <1>3. Max(T) \in T /\ \A x \in T : x <= Max(T)
    <2> HIDE DEF T
    <2> QED BY <1>1, <1>2, MaxOfBounded, Zenon
  <1> QED BY <1>1, <1>3, Zenon

\* plan_read: the read needs the newest acked write of each of its blocks, and its horizon covers them.
LEMMA PlanReadStep ==
    ASSUME OneQueue, IInv, NEW r \in Rings, PlanRead(r)
    PROVE  IInv'
  <1>0. PICK x \in Reads : x = rd[r]
    BY Zenon DEF IInv, RingTypes
  <1>1. /\ RingScheduled(r) /\ rpc[r] = "idle" /\ RingGoto(r, "planned")
        /\ UNCHANGED <<truthVars, slotVars, leg>> /\ UNCHANGED <<pending, hint, miss, synced, folded>>
    BY Zenon DEF PlanRead, mapVars
  <1>2. PICK bs \in (SUBSET Blocks) \ {{}} :
             SetRead(r, [x EXCEPT !.blocks = bs, !.need = {Newest(b, Horizon(b)) : b \in bs} \ {L},
                                  !.hmax = Max({Horizon(b) : b \in bs})])
    BY <1>0, Zenon DEF PlanRead
  <1>3. PICK need, h : need = {Newest(b, Horizon(b)) : b \in bs} \ {L} /\ h = Max({Horizon(b) : b \in bs})
    BY Zenon
  <1>4. PICK v : v = [x EXCEPT !.blocks = bs, !.need = need, !.hmax = h]
    BY Zenon
  <1>a. bs \in SUBSET Blocks /\ bs # {} /\ SlotTypes /\ \A d \in Slots : Slotwise(d)
    BY <1>2, Zenon DEF IInv, Store
  <1>5. h \in Dlsns /\ \A b \in bs : Horizon(b) <= h
    BY <1>3, <1>a, HmaxIs, Zenon
  <1>6. ASSUME NEW n \in need PROVE n \in Slots /\ \E b \in bs : n <= h /\ IsNewest(n, b, L + MaxSlots)
    <2>1. PICK b \in bs : n = Newest(b, Horizon(b)) /\ n # L
      BY <1>3, <1>6, Zenon
    <2>2. PICK hb : hb = Horizon(b)
      BY Zenon
    <2>3. hb \in Dlsns /\ hb <= h /\ \A m \in Slots : b \in range[m] /\ res[m] = "acked" => m <= hb
      BY <1>5, <1>a, <2>1, <2>2, HorizonIs, Zenon
    <2>4. /\ n \in Slots /\ n <= hb /\ b \in range[n] /\ res[n] = "acked"
          /\ \A m \in Slots : m <= hb /\ b \in range[m] /\ res[m] = "acked" => m <= n
      BY <1>a, <2>1, <2>2, NewestIs, Zenon
    <2>5. n \in Nat /\ hb \in Nat /\ h \in Nat /\ n <= L + MaxSlots
      BY <1>5, <2>3, <2>4, Bounds, Zenon
    <2>6. n <= h
      BY <2>3, <2>4, <2>5
    <2>7. IsNewest(n, b, L + MaxSlots)
      BY <2>3, <2>4, <2>5, Zenon DEF IsNewest
    <2> QED BY <2>1, <2>4, <2>6, <2>7, Zenon
  <1>7. need \in SUBSET Slots
    BY <1>6, Zenon
  <1>8. v \in Reads /\ v.batch = x.batch /\ v.tried = x.tried /\ v.need = need /\ v.blocks = bs /\ v.hmax = h
    BY <1>4, <1>5, <1>7, <1>a, Zenon DEF Reads
  <1>9. RingStep(r, v, "planned")
    BY <1>1, <1>2, <1>3, <1>4, <1>8, RingStepIs, Zenon DEF IInv
  <1>10. [Next]_vars
    BY ZenonT(30) DEF Next
  <1>11. x.batch = {} /\ x.tried = {}
    <2>1. Ring(r)
      BY Zenon DEF IInv
    <2> QED BY <1>0, <1>1, <2>1 DEF Ring, NoRead
  <1>12. Planned(v)
    BY <1>6, <1>8, ZenonT(30) DEF Planned
  <1>13. Ring(r)'
    <2>1. rd'[r] = v /\ rpc'[r] = "planned"
      BY <1>9, Zenon DEF RingStep
    <2>2. Planned(v)'
      BY <1>9, <1>12, PlanStands, Zenon
    <2> QED BY <1>8, <1>11, <2>1, <2>2 DEF Ring, Parked
  <1> QED BY <1>0, <1>1, <1>8, <1>9, <1>10, <1>13, ReadStep, Zenon
-----------------------------------------------------------------------------
\* fold_to stops at the frontier it was given and at the first slot with a leg outstanding.
LEMMA FoldTargetIs ==
    ASSUME IInv, NEW f \in Dlsns
    PROVE  FoldTarget(f) \in Dlsns /\ FoldTarget(f) <= f /\ \A d \in Slots : d <= FoldTarget(f) => d \in bit
  <1>1. PICK p, t : p = Prefix({d \in Slots : d <= folded \/ d \in bit}) /\ t = FoldTarget(f)
    BY Zenon
  <1>2. p \in Dlsns /\ \A d \in Slots : d <= p => d <= folded \/ d \in bit
    BY <1>1, PrefixRun, Zenon
  <1>3. \A d \in Slots : d <= folded => d \in bit
    BY Zenon DEF IInv, Store, Slotwise
  <1>4. p \in Nat /\ f \in Nat /\ p \in Int /\ f \in Int
    <2>1. p \in Nat /\ f \in Nat
      BY <1>2, Bounds, Zenon
    <2> QED BY <2>1
  <1>5. t = Min({f, p})
    BY <1>1, Zenon DEF FoldTarget
  <1>6. t \in {f, p} /\ t <= f /\ t <= p
    BY <1>4, <1>5, OfTwo, Zenon
  <1>7. t \in Dlsns /\ t \in Nat
    BY <1>2, <1>4, <1>6, Zenon
  <1>8. ASSUME NEW d \in Slots, d <= t PROVE d \in bit
    <2>1. d \in Nat
      BY Bounds, Zenon
    <2>2. d <= p
      BY <1>4, <1>6, <1>7, <1>8, <2>1
    <2> QED BY <1>2, <1>3, <2>2, Zenon
  <1> QED BY <1>1, <1>6, <1>7, <1>8, Zenon

\* The misses of a fold, and the Missing map it leaves: the last entry over a block decides the block.
FoldedMap(B) ==
    \A b \in Blocks, i \in Members :
        \/ LastOver(B, b) = {} /\ miss'[i][b] = miss[i][b]
        \/ \E e \in LastOver(B, b) : miss'[i][b] = IF i \in e.held THEN NoMiss ELSE e.dlsn

Passes(t, B) ==
    /\ t \in Dlsns /\ folded <= t
    /\ \A d \in Slots : d <= t => d \in bit /\ res[d] # "none"
    /\ Unfolded = pending \cup B /\ (\A e \in B : e.dlsn <= t) /\ \A e \in pending : t < e.dlsn

\* Every miss up to the new folded_ is in the batch, and only acked slots are: so the last entry over a block
\* is that of its newest write.
LEMMA FoldMarks ==
    ASSUME IInv, NEW t, NEW B, Passes(t, B), FoldedMap(B),
           NEW b \in Blocks, NEW i \in Members, NEW n \in Slots, IsNewest(n, b, t), n \notin has[i]
    PROVE  miss'[i][b] = n
  <1>1. /\ t \in Nat /\ folded \in Nat /\ n \in Nat /\ folded <= t /\ n <= t /\ b \in range[n] /\ res[n] = "acked"
        /\ Slotwise(n) /\ SlotTypes /\ LegFacts
    BY Bounds, Zenon DEF Passes, IInv, MapTypes, IsNewest, Store
  <1>2. ASSUME NEW e \in B
        PROVE  /\ e.dlsn \in Slots /\ e.dlsn \in Nat /\ folded < e.dlsn /\ e.blocks = range[e.dlsn] /\ res[e.dlsn] = "acked"
               /\ (b \in e.blocks => e.dlsn <= n) /\ \A j \in e.held : e.dlsn \in has[j]
    <2>1. e \in Unfolded /\ Handed(e)
      BY Zenon DEF Passes, IInv, Store
    <2>2. e \in Entries
      <3>1. \A q \in Rings : rd[q].batch \in SUBSET Entries
        BY Zenon DEF IInv, RingTypes, Reads
      <3> QED BY <2>1, <3>1, Zenon DEF Unfolded, IInv, MapTypes
    <2>3. e.dlsn \in Slots /\ e.dlsn <= t /\ res[e.dlsn] # "none" /\ Slotwise(e.dlsn)
      BY <2>2, Zenon DEF Entries, Passes, IInv, Store
    <2>4. res[e.dlsn] # "empty"
      BY <1>1, <2>1, <2>3, DurableNotEmpty, Zenon DEF Handed
    <2>5. res[e.dlsn] = "acked"
      <3>1. res[e.dlsn] \in {"none", "acked", "empty"}
        BY <1>1, <2>3, Zenon DEF SlotTypes
      <3> QED BY <2>3, <2>4, <3>1, Zenon
    <2> QED BY <2>1, <2>3, <2>5, Bounds, Zenon DEF Handed, IsNewest
  <1>3. CASE n <= folded
    <2>1. IsNewest(n, b, folded)
      <3>1. \A m \in Slots : m <= folded => m <= t
        BY <1>1, Bounds
      <3> QED BY <1>3, <3>1, Zenon DEF IsNewest
    <2>2. miss[i][b] = n
      BY <2>1, Zenon DEF IInv, Store, Marked
    <2>3. LastOver(B, b) = {}
      <3> SUFFICES ASSUME NEW e \in LastOver(B, b) PROVE FALSE
        BY Zenon
      <3>1. e \in B /\ b \in e.blocks
        BY Zenon DEF LastOver
      <3>2. e.dlsn \in Nat /\ folded < e.dlsn /\ e.dlsn <= n
        BY <1>2, <3>1, Zenon
      <3> QED BY <1>1, <1>3, <3>2
    <2> QED BY <2>2, <2>3, Zenon DEF FoldedMap
  <1>4. CASE ~(n <= folded)
    <2>1. folded < n
      BY <1>1, <1>4
    <2>2. PICK e \in B : e.dlsn = n
      <3>1. n \in bit /\ legs[n] = Members /\ i \notin holders[n] /\ Durable(n)
        BY <1>1, Zenon DEF Passes, Slotwise
      <3>2. Owed(n)
        BY <3>1, Zenon DEF Owed, Durable
      <3>3. PICK e \in Unfolded : e.dlsn = n
        BY <2>1, <3>2, Zenon DEF IInv, Store, OwedIsHanded
      <3>4. e \notin pending
        <4>1. ~(t < n)
          BY <1>1
        <4> QED BY <3>3, <4>1, Zenon DEF Passes
      <3> QED BY <3>3, <3>4, Zenon DEF Passes
    <2>3. b \in e.blocks
      BY <1>1, <1>2, <2>2, Zenon
    <2>4. e \in LastOver(B, b)
      BY <1>2, <2>2, <2>3, Zenon DEF LastOver
    <2>5. PICK x \in LastOver(B, b) : miss'[i][b] = IF i \in x.held THEN NoMiss ELSE x.dlsn
      BY <2>4, Zenon DEF FoldedMap
    <2>6. x \in B /\ b \in x.blocks /\ e.dlsn <= x.dlsn
      BY <2>2, <2>3, <2>5, Zenon DEF LastOver
    <2>7. x.dlsn = n
      <3>1. x.dlsn \in Nat /\ x.dlsn <= n /\ n <= x.dlsn
        BY <1>2, <2>2, <2>6, Zenon
      <3> QED BY <1>1, <3>1
    <2>8. i \notin x.held
      BY <1>2, <2>6, <2>7, Zenon
    <2> QED BY <2>5, <2>7, <2>8, Zenon
  <1> QED BY <1>3, <1>4, Zenon

\* A fold that takes folded_ to t keeps the invariant.
LEMMA FoldStep ==
    ASSUME IInv, [Next]_vars, NEW r \in Rings, NEW v, NEW label, RingStep(r, v, label), NEW t, Passes(t, rd[r].batch),
           folded' = t, v.batch = {}, UNCHANGED <<pending, hint>>, miss' \in [Members -> [Blocks -> Dlsns]],
           FoldedMap(rd[r].batch), Ring(r)'
    PROVE  IInv'
  <1>1. SyncedApplied'
    BY SyncedStep, Zenon DEF IInv
  <1>2. /\ SlotTypes' /\ RingTypes' /\ LegFacts' /\ (\A q \in Rings : q # r => Ring(q)')
        /\ Unfolded' = pending /\ Unfolded = pending \cup rd[r].batch
    BY OthersKeep, Zenon
  <1>3. MapTypes' /\ t \in Nat /\ folded \in Nat /\ folded <= t
    BY Bounds, Zenon DEF IInv, MapTypes, Passes
  <1>4. \A d \in Slots : Slotwise(d)' /\ (Owed(d)' <=> Owed(d))
    <2>1. \A d \in Slots : (Durable(d)' <=> Durable(d)) /\ (Emptied(d)' <=> Emptied(d)) /\ (Owed(d)' <=> Owed(d))
      BY Zenon DEF Durable, Emptied, Owed, RingStep
    <2>2. \A d \in Slots : Slotwise(d) /\ (d <= t => d \in bit /\ res[d] # "none")
      BY Zenon DEF IInv, Store, Passes
    <2> QED BY <2>1, <2>2, Zenon DEF Slotwise, RingStep
  <1>5. \A e \in Unfolded' : Handed(e)'
    <2>1. \A e \in pending : Handed(e) /\ t < e.dlsn
      BY <1>2, Zenon DEF IInv, Store, Passes
    <2> QED BY <1>2, <2>1, Zenon DEF Handed, Durable, RingStep
  <1>6. OwedIsHanded'
    <2> SUFFICES ASSUME NEW d \in Slots, t < d, Owed(d) PROVE \E e \in pending : e.dlsn = d
      BY <1>2, <1>4, Zenon DEF OwedIsHanded
    <2>1. d \in Nat
      BY Bounds, Zenon
    <2>2. folded < d /\ ~(d <= t)
      BY <1>3, <2>1
    <2>3. PICK e \in Unfolded : e.dlsn = d
      BY <2>2, Zenon DEF IInv, Store, OwedIsHanded
    <2> QED BY <2>2, <2>3, Zenon DEF Passes
  <1>7. Marked'
    <2> SUFFICES ASSUME NEW b \in Blocks, NEW i \in Members, NEW n \in Slots, IsNewest(n, b, folded)', n \notin has'[i]
                 PROVE  miss'[i][b] = n
      BY Zenon DEF Marked
    <2>1. IsNewest(n, b, t) /\ n \notin has[i]
      BY Zenon DEF IsNewest, RingStep
    <2> QED BY <2>1, FoldMarks, Zenon
  <1>8. Store'
    BY <1>2, <1>4, <1>5, <1>6, <1>7, Zenon DEF IInv, Store
  <1> QED BY <1>1, <1>2, <1>3, <1>8, Zenon DEF IInv

\* The lock-free fold: the hint is above the target, so no pending miss is passed.
LEMMA FoldFastStep ==
    ASSUME OneQueue, IInv, NEW r \in Rings, FoldFast(r)
    PROVE  IInv'
  <1>0. PICK v \in Reads : v = rd[r]
    BY Zenon DEF IInv, RingTypes
  <1>a. PICK t : t = FoldTarget(v.f)
    BY Zenon
  <1>1. /\ RingScheduled(r) /\ rpc[r] = "fold" /\ t > folded /\ hint > t /\ folded' = t /\ RingGoto(r, "pick") /\ rd' = rd
        /\ UNCHANGED <<truthVars, slotVars, leg>> /\ UNCHANGED <<pending, hint, miss, synced>>
    BY <1>0, <1>a, Zenon DEF FoldFast
  <1>2. RingStep(r, v, "pick")
    BY <1>0, <1>1, RingStepIs, Zenon DEF IInv
  <1>3. [Next]_vars
    BY ZenonT(30) DEF Next
  <1>4. v.batch = {} /\ Planned(v) /\ \A d \in Slots : d <= v.f => res[d] # "none"
    <2>1. Ring(r)
      BY Zenon DEF IInv
    <2> QED BY <1>0, <1>1, <2>1 DEF Ring, Parked
  <1>5. t \in Dlsns /\ t <= v.f /\ v.f \in Nat /\ t \in Nat /\ folded \in Nat /\ hint \in Int /\ \A d \in Slots : d <= t => d \in bit
    <2>1. v.f \in Dlsns
      BY Zenon DEF Reads
    <2> QED BY <1>a, <2>1, FoldTargetIs, Bounds, Zenon DEF IInv, MapTypes
  <1>6. Passes(t, v.batch)
    <2>1. \A d \in Slots : d <= t => d \in bit /\ res[d] # "none"
      <3>1. \A d \in Slots : d <= t => d <= v.f
        BY <1>5, Bounds
      <3> QED BY <1>4, <1>5, <3>1, Zenon
    <2>2. \A e \in pending : t < e.dlsn
      <3> SUFFICES ASSUME NEW e \in pending PROVE t < e.dlsn
        BY Zenon
      <3>1. hint <= e.dlsn /\ e.dlsn \in Nat
        BY Bounds, Zenon DEF IInv, Store, MapTypes, Entries
      <3> QED BY <1>1, <1>5, <3>1
    <2>3. Unfolded = pending \cup v.batch
      BY <1>0, <1>2, OthersKeep, Zenon
    <2>4. folded <= t
      BY <1>1, <1>5
    <2> QED BY <1>4, <1>5, <2>1, <2>2, <2>3, <2>4, Zenon DEF Passes
  <1>7. FoldedMap(v.batch)
    <2>1. \A b \in Blocks : LastOver(v.batch, b) = {}
      BY <1>4, Zenon DEF LastOver
    <2> QED BY <1>1, <2>1, Zenon DEF FoldedMap
  <1>8. Ring(r)'
    <2>1. rd'[r] = v /\ rpc'[r] = "pick"
      BY <1>2, Zenon DEF RingStep
    <2>2. Planned(v)'
      BY <1>2, <1>4, PlanStands, Zenon
    <2> QED BY <1>4, <2>1, <2>2, SMTT(30) DEF Ring, Parked
  <1>9. miss' \in [Members -> [Blocks -> Dlsns]]
    BY <1>1, Zenon DEF IInv, MapTypes
  <1> QED BY <1>0, <1>1, <1>2, <1>3, <1>4, <1>6, <1>7, <1>8, <1>9, FoldStep, ZenonT(30)

\* The misses up to the target are taken off the list, and the hint rises to the lowest that stays.
LEMMA FoldDrainStep ==
    ASSUME OneQueue, IInv, NEW r \in Rings, FoldDrain(r)
    PROVE  IInv'
  <1>0. PICK x \in Reads : x = rd[r]
    BY Zenon DEF IInv, RingTypes
  <1>a. PICK t, B, v : t = FoldTarget(x.f) /\ B = {e \in pending : e.dlsn <= t} /\ v = [x EXCEPT !.batch = B, !.f = t]
    BY Zenon
  <1>1. /\ RingScheduled(r) /\ rpc[r] = "fold" /\ t > folded /\ pending' = pending \ B
        /\ hint' = Min({Never} \cup {e.dlsn : e \in pending \ B}) /\ SetRead(r, v) /\ RingGoto(r, "apply")
        /\ UNCHANGED <<truthVars, slotVars, leg>> /\ UNCHANGED <<miss, synced, folded>>
    BY <1>0, <1>a, Zenon DEF FoldDrain
  <1>2. [Next]_vars
    BY Zenon DEF Next
  <1>3. x.batch = {} /\ x.tried = {} /\ Planned(x) /\ \A d \in Slots : d <= x.f => res[d] # "none"
    <2>1. Ring(r)
      BY Zenon DEF IInv
    <2> QED BY <1>0, <1>1, <2>1, Zenon DEF Ring, Parked
  <1>4. t \in Dlsns /\ t <= x.f /\ x.f \in Nat /\ t \in Nat /\ folded \in Nat /\ \A d \in Slots : d <= t => d \in bit
    <2>1. x.f \in Dlsns
      BY Zenon DEF Reads
    <2> QED BY <1>a, <2>1, FoldTargetIs, Bounds, Zenon DEF IInv, MapTypes
  <1>5. B \in SUBSET Entries /\ pending \in SUBSET Entries /\ \A e \in pending : e.dlsn \in Nat
    BY <1>a, Bounds, Zenon DEF IInv, MapTypes, Entries
  <1>6. v \in Reads /\ v.batch = B /\ v.f = t /\ v.tried = x.tried /\ v.need = x.need /\ v.blocks = x.blocks /\ v.hmax = x.hmax
    BY <1>a, <1>4, <1>5, Zenon DEF Reads
  <1>7. RingStep(r, v, "apply")
    BY <1>1, <1>6, RingStepIs, Zenon DEF IInv
  <1>8. /\ SlotTypes' /\ RingTypes' /\ LegFacts' /\ (\A q \in Rings : q # r => Ring(q)')
        /\ Unfolded' = (pending \ B) \cup B /\ Unfolded = pending
    <2>1. Unfolded = pending \cup x.batch
      BY <1>0, <1>7, OthersKeep, Zenon
    <2>2. Unfolded = pending
      BY <1>3, <2>1, Zenon
    <2> QED BY <1>1, <1>6, <1>7, <2>2, OthersKeep, Zenon
  <1>9. Unfolded' = Unfolded
    <2>1. (pending \ B) \cup B = pending
      BY <1>a, Zenon
    <2> QED BY <1>8, <2>1, Zenon
  <1>10. hint' \in Int /\ \A e \in pending' : hint' <= e.dlsn
    <2> DEFINE S == {Never} \cup {e.dlsn : e \in pending \ B}
    <2>1. S \in SUBSET Nat /\ S # {}
      <3>1. Never \in Nat
        BY Bounds DEF Never
      <3> QED BY <1>5, <3>1, Zenon
    <2>2. \A e \in pending' : e.dlsn \in S
      BY <1>1, Zenon
    <2>3. hint' = Min(S)
      BY <1>1, Zenon
    <2> HIDE DEF S
    <2>4. Min(S) \in S /\ \A y \in S : Min(S) <= y
      BY <2>1, MinIsLeast, Zenon
    <2>5. hint' \in Nat
      BY <2>1, <2>3, <2>4, Zenon
    <2>6. hint' \in Int
      BY <2>5
    <2> QED BY <2>2, <2>3, <2>4, <2>6, Zenon
  <1>11. MapTypes'
    BY <1>1, <1>5, <1>10, Zenon DEF IInv, MapTypes
  <1>12. SyncedApplied'
    BY <1>2, SyncedStep, Zenon DEF IInv
  <1>13. \A d \in Slots : Slotwise(d)' /\ (Owed(d)' <=> Owed(d))
    <2>1. \A d \in Slots : (Durable(d)' <=> Durable(d)) /\ (Emptied(d)' <=> Emptied(d)) /\ (Owed(d)' <=> Owed(d))
      BY <1>7, Zenon DEF Durable, Emptied, Owed, RingStep
    <2>2. \A d \in Slots : Slotwise(d)
      BY Zenon DEF IInv, Store
    <2> QED BY <1>1, <1>7, <2>1, <2>2, Zenon DEF Slotwise, RingStep
  <1>14. \A e \in Unfolded' : Handed(e)'
    BY <1>1, <1>7, <1>9, ZenonT(30) DEF IInv, Store, Handed, Durable, RingStep
  <1>15. OwedIsHanded' /\ Marked'
    BY <1>1, <1>7, <1>9, <1>13, Zenon DEF IInv, Store, OwedIsHanded, Marked, IsNewest, RingStep
  <1>16. Store'
    BY <1>8, <1>10, <1>13, <1>14, <1>15, Zenon DEF Store
  <1>17. Ring(r)'
    <2>1. rd'[r] = v /\ rpc'[r] = "apply"
      BY <1>7, Zenon DEF RingStep
    <2>2. Planned(v)'
      <3>1. Planned(v)
        BY <1>3, <1>6, Zenon DEF Planned
      <3> QED BY <1>7, <3>1, PlanStands, Zenon
    <2>3. \A d \in Slots : d <= v.f => res'[d] # "none" /\ d \in bit'
      <3>1. \A d \in Slots : d <= t => d <= x.f
        BY <1>4, Bounds
      <3> QED BY <1>3, <1>4, <1>6, <1>7, <3>1, PlanStands, ZenonT(30)
    <2>4. folded' < v.f /\ (\A e \in v.batch : e.dlsn <= v.f)
      <3>1. folded < t
        BY <1>1, <1>4
      <3> QED BY <1>1, <1>6, <1>a, <3>1, ZenonT(30)
    <2>5. \A e \in pending' : v.f < e.dlsn
      <3> SUFFICES ASSUME NEW e \in pending' PROVE t < e.dlsn
        BY <1>6, Zenon
      <3>1. e.dlsn \in Nat /\ ~(e.dlsn <= t)
        BY <1>1, <1>5, <1>a, Zenon
      <3> QED BY <1>4, <3>1
    <2> QED BY <1>3, <1>6, <2>1, <2>2, <2>3, <2>4, <2>5, ZenonT(30) DEF Ring, Parked
  <1> QED BY <1>8, <1>11, <1>12, <1>16, <1>17, Zenon DEF IInv

\* The drained misses are applied and folded_ passes them.
LEMMA FoldApplyStep ==
    ASSUME OneQueue, IInv, NEW r \in Rings, FoldApply(r)
    PROVE  IInv'
  <1>0. PICK x \in Reads : x = rd[r]
    BY Zenon DEF IInv, RingTypes
  <1>a. PICK v, B, t : v = [x EXCEPT !.batch = {}] /\ B = x.batch /\ t = x.f
    BY Zenon
  <1>1. /\ RingScheduled(r) /\ rpc[r] = "apply" /\ folded' = Max({folded, t}) /\ SetRead(r, v) /\ RingGoto(r, "pick")
        /\ UNCHANGED <<truthVars, slotVars, leg>> /\ UNCHANGED <<pending, hint, synced>>
    BY <1>0, <1>a, Zenon DEF FoldApply
  <1>m. PICK m : /\ \A b \in Blocks : m[b] \in FoldMiss(B, b, [i \in Members |-> miss[i][b]])
                 /\ miss' = [i \in Members |-> [b \in Blocks |-> m[b][i]]]
    BY <1>0, <1>a, ZenonT(30) DEF FoldApply
  <1>2. [Next]_vars
    BY Zenon DEF Next
  <1>3. /\ x.tried = {} /\ Planned(x) /\ folded < t
        /\ \A d \in Slots : d <= t => res[d] # "none" /\ d \in bit
        /\ (\A e \in B : e.dlsn <= t) /\ \A e \in pending : t < e.dlsn
    <2>1. Ring(r)
      BY Zenon DEF IInv
    <2> QED BY <1>0, <1>a, <1>1, <2>1, SMTT(30) DEF Ring, Parked
  <1>4. /\ v \in Reads /\ v.batch = {} /\ v.tried = x.tried /\ v.need = x.need /\ v.blocks = x.blocks /\ v.hmax = x.hmax
        /\ t \in Dlsns /\ B \in SUBSET Entries
    BY <1>a DEF Reads
  <1>5. RingStep(r, v, "pick")
    BY <1>1, <1>4, RingStepIs, Zenon DEF IInv
  <1>6. folded' = t /\ folded <= t
    <2>1. t \in Nat /\ folded \in Nat
      BY <1>4, Bounds, Zenon DEF IInv, MapTypes
    <2>2. t \in Int /\ folded \in Int
      BY <2>1
    <2>3. folded' \in {folded, t} /\ t <= folded'
      BY <1>1, <2>2, OfTwo, Zenon
    <2> QED BY <1>3, <2>1, <2>3
  <1>7. Passes(t, B)
    <2>1. Unfolded = pending \cup B
      BY <1>0, <1>a, <1>5, OthersKeep, Zenon
    <2> QED BY <1>3, <1>4, <1>6, <2>1, Zenon DEF Passes
  <1>8. ASSUME NEW b \in Blocks, NEW i \in Members
        PROVE  /\ m[b][i] \in Dlsns
               /\ \/ LastOver(B, b) = {} /\ m[b][i] = miss[i][b]
                  \/ \E e \in LastOver(B, b) : m[b][i] = IF i \in e.held THEN NoMiss ELSE e.dlsn
    <2>1. CASE LastOver(B, b) = {}
      <3>1. m[b] = [j \in Members |-> miss[j][b]]
        BY <1>m, <2>1, Zenon DEF FoldMiss
      <3>2. m[b][i] = miss[i][b] /\ miss[i][b] \in Dlsns
        BY <3>1, Zenon DEF IInv, MapTypes
      <3> QED BY <2>1, <3>2, Zenon
    <2>2. CASE LastOver(B, b) # {}
      <3>1. PICK e \in LastOver(B, b) : m[b] = [j \in Members |-> IF j \in e.held THEN NoMiss ELSE e.dlsn]
        BY <1>m, <2>2, Zenon DEF FoldMiss
      <3>2. m[b][i] = IF i \in e.held THEN NoMiss ELSE e.dlsn
        BY <3>1, Zenon
      <3>3. e.dlsn \in Dlsns /\ NoMiss \in Dlsns
        <4>1. e \in B
          BY <3>1, Zenon DEF LastOver
        <4> QED BY <1>4, <4>1, Bounds, Zenon DEF Entries, NoMiss
      <3> QED BY <3>1, <3>2, <3>3, Zenon
    <2> QED BY <2>1, <2>2, Zenon
  <1>9. \A b \in Blocks, i \in Members : miss'[i][b] = m[b][i]
    BY <1>m, Zenon
  <1>10. FoldedMap(B)
    <2> SUFFICES ASSUME NEW b \in Blocks, NEW i \in Members
                 PROVE  \/ LastOver(B, b) = {} /\ miss'[i][b] = miss[i][b]
                        \/ \E e \in LastOver(B, b) : miss'[i][b] = IF i \in e.held THEN NoMiss ELSE e.dlsn
      BY Zenon DEF FoldedMap
    <2>1. miss'[i][b] = m[b][i]
      BY <1>9, Zenon
    <2>2. CASE LastOver(B, b) = {} /\ m[b][i] = miss[i][b]
      BY <2>1, <2>2, Zenon
    <2>3. ASSUME NEW e \in LastOver(B, b), m[b][i] = IF i \in e.held THEN NoMiss ELSE e.dlsn
          PROVE  \E y \in LastOver(B, b) : miss'[i][b] = IF i \in y.held THEN NoMiss ELSE y.dlsn
      <3>1. miss'[i][b] = IF i \in e.held THEN NoMiss ELSE e.dlsn
        BY <2>1, <2>3
      <3> QED BY <2>3, <3>1, Zenon
    <2> QED BY <1>8, <2>2, <2>3, Zenon
  <1>11. miss' \in [Members -> [Blocks -> Dlsns]]
    <2>1. \A i \in Members : [b \in Blocks |-> m[b][i]] \in [Blocks -> Dlsns]
      BY <1>8, Zenon
    <2> QED BY <1>m, <2>1, Zenon
  <1>12. Ring(r)'
    <2>1. rd'[r] = v /\ rpc'[r] = "pick"
      BY <1>5, Zenon DEF RingStep
    <2>2. Planned(v)'
      <3>1. Planned(v)
        BY <1>3, <1>4, Zenon DEF Planned
      <3> QED BY <1>5, <3>1, PlanStands, Zenon
    <2> QED BY <1>4, <2>1, <2>2, ZenonT(30) DEF Ring, Parked
  <1> QED BY <1>0, <1>a, <1>1, <1>2, <1>4, <1>5, <1>6, <1>7, <1>10, <1>11, <1>12, FoldStep, ZenonT(30)
-----------------------------------------------------------------------------
\* Before the first write both tiers are empty.
LEMMA InitIInv == Init => IInv
  <1> SUFFICES ASSUME Init PROVE IInv
    OBVIOUS
  <1>1. SyncedApplied
    BY InitSynced, Zenon
  <1>2. SlotTypes
    <2>1. next \in (L + 1)..(L + MaxSlots + 1)
      BY Bounds, SMTT(30) DEF Init
    <2>2. leg \in [slot : Dlsns, leader : Members \cup {"none"}, step : {"idle", "note", "resolve"}]
      BY Bounds DEF Init, NoLeg
    <2> QED BY <2>1, <2>2, SMTT(30) DEF Init, SlotTypes
  <1>3. MapTypes
    <2>1. hint \in Int
      BY Bounds, SMTT(30) DEF Init, Never
    <2> QED BY <2>1, Bounds, Zenon DEF Init, MapTypes, NoMiss
  <1>4. NoRead \in Reads
    BY Bounds DEF NoRead, Reads
  <1>5. RingTypes
    BY <1>4, ZenonT(30) DEF Init, RingTypes
  <1>6. \A r \in Rings : Ring(r)
    <2> SUFFICES ASSUME NEW r \in Rings PROVE Ring(r)
      BY Zenon
    <2>1. rd[r] = NoRead /\ rpc[r] = "idle" /\ NoRead.batch = {}
      BY Zenon DEF Init, NoRead
    <2> QED BY <2>1 DEF Ring, Parked
  <1>7. Unfolded = {} /\ pending = {}
    <2>1. \A r \in Rings : rd[r].batch = {}
      BY DEF Init, NoRead
    <2>2. pending = {}
      BY Zenon DEF Init
    <2> QED BY <2>1, <2>2, Zenon DEF Unfolded
  <1>8. ASSUME NEW d \in Slots
        PROVE  res[d] = "none" /\ legs[d] = {} /\ holders[d] = {} /\ d \notin bit /\ d \notin verdict /\ ~(d <= folded)
    BY Bounds DEF Init
  <1>9. \A d \in Slots, i \in Members : d \notin tomb[i]
    BY DEF Init
  <1>10. ASSUME NEW d \in Slots PROVE Slotwise(d)
    <2>1. res[d] # "empty" /\ res[d] # "acked" /\ res[d] = "none"
      BY <1>8, SMTT(30)
    <2> QED BY <1>8, <1>9, <2>1, Zenon DEF Slotwise
  <1>11. LegFacts
    BY DEF Init, NoLeg, LegFacts
  <1>12. OwedIsHanded
    <2>1. \A d \in Slots : ~Owed(d)
      <3> SUFFICES ASSUME NEW d \in Slots, Owed(d) PROVE FALSE
        BY Zenon
      <3>1. legs[d] = Members
        BY <1>8, Zenon DEF Owed
      <3> QED BY <1>8, <3>1, RouteAssumption, Zenon
    <2> QED BY <2>1, Zenon DEF OwedIsHanded
  <1>13. Marked
    BY <1>8, Zenon DEF Marked, IsNewest
  <1>14. Store
    BY <1>7, <1>10, <1>11, <1>12, <1>13, Zenon DEF Store
  <1> QED BY <1>1, <1>2, <1>3, <1>5, <1>6, <1>14, Zenon DEF IInv

\* With one queue every step of the writes, the rounds, the replies and the reads keeps the invariant.
LEMMA NextIInv ==
    ASSUME OneQueue, IInv, [Next]_vars
    PROVE  IInv'
  <1>1. CASE Create
    BY <1>1, CreateStep, Zenon
  <1>2. ASSUME NEW d \in Slots, NEW i \in Members, NEW acked \in BOOLEAN, RecordCompletion(d, i, acked) PROVE IInv'
    BY <1>2, RecordStep, Zenon
  <1>3. ASSUME NEW d \in Slots, SetBit(d) \/ WriteResolved(d) PROVE IInv'
    BY <1>3, SetBitStep, WriteResolvedStep, Zenon
  <1>4. ASSUME NEW d \in Slots, NEW live \in SUBSET Members, RoundEmpty(d, live) PROVE IInv'
    BY <1>4, RoundEmptyStep, Zenon
  <1>5. ASSUME NEW d \in Slots, NEW i \in Members, Land(d, i) \/ RetireCheck(d, i) PROVE IInv'
    BY <1>5, LandStep, RetireCheckStep, Zenon
  <1>6. CASE note_filled \/ RetireResolve
    BY <1>6, NoteFilledStep, RetireResolveStep, Zenon
  <1>7. ASSUME NEW i \in Members, advance_synced(i) PROVE IInv'
    BY <1>7, AdvanceStep, Zenon
  <1>8. ASSUME NEW r \in Rings,
               \/ PlanRead(r) \/ LoadFrontier(r) \/ FoldNothing(r) \/ FoldFast(r) \/ FoldDrain(r)
               \/ FoldApply(r) \/ EligibleOverlay(r) \/ FailOver(r) \/ Done(r)
               \/ \E i \in Members : EligibleMap(r, i)
        PROVE  IInv'
    BY <1>8, PlanReadStep, LoadFrontierStep, FoldNothingStep, FoldFastStep, FoldDrainStep, FoldApplyStep,
       EligibleOverlayStep, FailOverStep, DoneStep, EligibleMapStep, ZenonT(30)
  <1>9. CASE UNCHANGED vars
    <2>1. UNCHANGED <<next, range, res, has, base, tomb, holders, legs, bit, verdict, pending, hint, miss, synced, folded, rd, rpc, leg>>
      BY <1>9, Zenon DEF vars, truthVars, slotVars, mapVars, ringVars
    <2>2. (SyncedApplied' <=> SyncedApplied) /\ (SlotTypes' <=> SlotTypes) /\ (MapTypes' <=> MapTypes) /\ (RingTypes' <=> RingTypes)
      BY <2>1, Zenon DEF SyncedApplied, AppliedUpto, SlotTypes, MapTypes, RingTypes
    <2>3. \A d \in Slots : (Slotwise(d)' <=> Slotwise(d)) /\ (Owed(d)' <=> Owed(d))
      <3>1. \A d \in Slots : (Durable(d)' <=> Durable(d)) /\ (Emptied(d)' <=> Emptied(d)) /\ (Owed(d)' <=> Owed(d))
        BY <2>1, Zenon DEF Durable, Emptied, Owed
      <3> QED BY <2>1, <3>1, ZenonT(30) DEF Slotwise
    <2>4. Unfolded' = Unfolded /\ (LegFacts' <=> LegFacts) /\ \A e : Handed(e)' <=> Handed(e)
      BY <2>1, Zenon DEF Unfolded, LegFacts, Handed, Durable
    <2>5. (OwedIsHanded' <=> OwedIsHanded) /\ (Marked' <=> Marked)
      BY <2>1, <2>3, <2>4, Zenon DEF OwedIsHanded, Marked, IsNewest
    <2>6. Store' <=> Store
      BY <2>1, <2>3, <2>4, <2>5, Zenon DEF Store
    <2>7. \A r \in Rings : Ring(r) => Ring(r)'
      <3> SUFFICES ASSUME NEW r \in Rings, Ring(r) PROVE Ring(r)'
        BY Zenon
      <3>1. Parked(r)' <=> Parked(r)
        BY <2>1, Zenon DEF Parked
      <3>2. ~Parked(r) /\ rd[r].tried = {} => Planned(rd[r])'
        BY <2>1, Zenon DEF Ring, Planned, IsNewest
      <3>3. rpc[r] = "overlay" =>
              rd[r].cand \in Members \ rd[r].tried /\ HoldsBelow(rd[r].cand, rd[r].blocks)'
        BY <2>1, Zenon DEF Ring, HoldsBelow
      <3>4. rpc[r] = "serve" /\ Cardinality(rd[r].tried) = 1 => Fresh(r)'
        BY <2>1, Zenon DEF Ring, Fresh
      <3> QED BY <2>1, <3>1, <3>2, <3>3, <3>4, Zenon DEF Ring
    <2> QED BY <2>2, <2>6, <2>7, Zenon DEF IInv
  <1> QED BY <1>1, <1>2, <1>3, <1>4, <1>5, <1>6, <1>7, <1>8, <1>9, ZenonT(30) DEF Next

\* With one queue the two tiers stay consistent in every reachable state.
LEMMA Inductive ==
    ASSUME OneQueue
    PROVE  Spec => []IInv
  <1>1. IInv /\ [Next]_vars => IInv'
    BY NextIInv
  <1> QED BY <1>1, InitIInv, PTL DEF Spec

\* With one queue the member a read is first issued to holds the prefix <= L and every write the read must
\* return, however many writes, rounds, misses and reads there are.
THEOREM FirstPickFresh ==
    ASSUME OneQueue
    PROVE  Spec => []FirstPickIsFresh
  <1>1. IInv => FirstPickIsFresh
    <2> SUFFICES ASSUME IInv, NEW r \in Rings, rpc[r] = "serve", Cardinality(rd[r].tried) = 1 PROVE Fresh(r)
      BY Zenon DEF FirstPickIsFresh
    <2>1. Ring(r)
      BY Zenon DEF IInv
    <2> QED BY <2>1, Zenon DEF Ring
  <1> QED BY <1>1, Inductive, PTL

\* With one queue no dLSN falls between the overlay and the Missing map: whatever folded_ has passed and a member
\* lacks is marked missing there.
THEOREM TiersMeet ==
    ASSUME OneQueue
    PROVE  Spec => []InSomeTier
  <1>1. IInv => InSomeTier
    <2> SUFFICES ASSUME IInv, NEW b \in Blocks, NEW i \in Members, NEW n, n = Newest(b, folded), n > L, n \notin has[i]
                 PROVE  miss[i][b] # NoMiss
      BY Zenon DEF InSomeTier
    <2>1. SlotTypes /\ \A d \in Slots : Slotwise(d)
      BY Zenon DEF IInv, Store
    <2>2. n \in Dlsns /\ n \in Nat
      BY <2>1, NewestIs, Bounds, Zenon
    <2>3. n # L
      BY <2>2, Bounds
    <2>4. n \in Slots /\ IsNewest(n, b, folded)
      BY <2>1, <2>3, NewestIs, Zenon DEF IsNewest
    <2>5. miss[i][b] = n
      BY <2>4, Zenon DEF IInv, Store, Marked
    <2> QED BY <2>3, <2>5, Zenon DEF NoMiss
  <1> QED BY <1>1, Inductive, PTL
=============================================================================
