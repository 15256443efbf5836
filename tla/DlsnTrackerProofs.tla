------------------------- MODULE DlsnTrackerProofs -------------------------
(***************************************************************************)
(* Machine-checked theorems about DlsnTracker, for every number of writers,*)
(* legs and readers and every session length.  The first part needs nothing*)
(* of StreamTracker; the second part is about the client whose updates of  *)
(* one slot do not interleave (SharedUpdate = FALSE).                      *)
(***************************************************************************)
EXTENDS DlsnTracker, TLAPS

Busy(t) == pc[t] \in {"create", "legs", "update", "store", "bit", "keepbit", "raise",
                      "scan", "cas", "signal", "fire"}

\* A call that is under way works on an issued slot.
CallsInSlots == \A t \in Threads : Busy(t) => slot[t] \in Slots

\* A thread about to compare-exchange F saw every slot between its two values completed.
CasCovered ==
    \A t \in Threads : pc[t] = "cas" =>
        /\ seen[t] < target[t]
        /\ \A d \in Slots : seen[t] < d /\ d <= target[t] => d \in completed

IInv == TypeOK /\ CallsInSlots /\ CasCovered /\ FrontierCompleted

\* The slots handed out are L+1 .. L+MaxIssued: the committed point L and the -1 of an absent value are not among them.
LEMMA SlotBounds ==
    /\ Slots \subseteq Int
    /\ \A d : d \in Slots <=> d \in Int /\ L + 1 <= d /\ d <= L + MaxIssued
    /\ L \in Int /\ L \notin Slots /\ -1 \notin Slots
  BY TrackerAssumption DEF Slots

\* Of two integers that are equal or in order, the second is at least the first.
LEMMA IntOrder == \A a, b \in Int : (a = b \/ a < b) => b >= a
  OBVIOUS

\* A tracker seeded at L, with nothing issued, satisfies the invariant.
LEMMA InitIInv == Init => IInv
  <1> SUFFICES ASSUME Init PROVE IInv
    OBVIOUS
  <1>1. TypeOK
    BY TrackerAssumption DEF Init, TypeOK, Slots, Outcomes, ThreadPc, ReaderPc
  <1>2. CallsInSlots /\ CasCovered
    BY DEF Init, CallsInSlots, CasCovered, Busy
  <1>3. FrontierCompleted
    BY SlotBounds DEF Init, FrontierCompleted
  <1> QED BY <1>1, <1>2, <1>3 DEF IInv

\* Every step keeps the tracker's fields in their types.
LEMMA TypeStep == IInv /\ [Next]_vars => TypeOK'
  <1> SUFFICES ASSUME IInv, [Next]_vars PROVE TypeOK'
    OBVIOUS
  <1> USE TrackerAssumption, SlotBounds
      DEF IInv, TypeOK, Goto, Threads, vars, slotVars, threadVars, legVars, readVars
  <1>1. ASSUME NEW w \in Writers, ReserveFetchAdd(w) PROVE TypeOK'
    BY <1>1 DEF ReserveFetchAdd, ThreadPc, Slots
  <1>2. ASSUME NEW w \in Writers, ReserveCreate(w) PROVE TypeOK'
    BY <1>2, Zenon DEF ReserveCreate, ThreadPc, Outcomes, CallsInSlots, Busy
  <1>3. ASSUME NEW w \in Writers, LegsDone(w) PROVE TypeOK'
    BY <1>3 DEF LegsDone, ThreadPc, Outcomes
  <1>4. ASSUME NEW t \in Threads, UpdateLoad(t) PROVE TypeOK'
    BY <1>4 DEF UpdateLoad, ThreadPc
  <1>5. ASSUME NEW t \in Threads, UpdateStore(t) PROVE TypeOK'
    BY <1>5, Zenon DEF UpdateStore, ApplyOutcome, ThreadPc, Outcomes
  <1>6. ASSUME NEW t \in Threads, SetCompleted(t) PROVE TypeOK'
    <2>1. \E l \in ThreadPc : pc' = [pc EXCEPT ![t] = l]
      BY <1>6 DEF SetCompleted, ThreadPc
    <2>2. slot[t] \in Slots /\ completed' = completed \cup {slot[t]}
      <3>1. pc[t] \in {"bit", "keepbit"} /\ completed' = completed \cup {slot[t]}
        BY <1>6 DEF SetCompleted
      <3> QED BY <3>1 DEF CallsInSlots, Busy
    <2>3. completed' \subseteq Slots
      BY <2>2, Zenon
    <2> QED BY <1>6, <2>1, <2>3 DEF SetCompleted
  <1>7. ASSUME NEW t \in Threads, RaiseHighestAcked(t) PROVE TypeOK'
    BY <1>7 DEF RaiseHighestAcked, AtLeast, ThreadPc, CallsInSlots, Busy
  <1>8. ASSUME NEW t \in Threads, AdvanceScan(t) PROVE TypeOK'
    BY <1>8 DEF AdvanceScan, AtMost, ThreadPc
  <1>9. ASSUME NEW t \in Threads, AdvanceCas(t) PROVE TypeOK'
    BY <1>9 DEF AdvanceCas, ThreadPc
  <1>10. ASSUME NEW t \in Threads, SignalTest(t) PROVE TypeOK'
    BY <1>10 DEF SignalTest, Return, AtLeast, ThreadPc, Outcomes, CallsInSlots, Busy
  <1>11. ASSUME NEW t \in Threads, SignalFire(t) PROVE TypeOK'
    BY <1>11 DEF SignalFire, Return, AtLeast, ThreadPc, Outcomes, CallsInSlots, Busy
  <1>12. ASSUME NEW g \in Legs, RetireStart(g) PROVE TypeOK'
    BY <1>12 DEF RetireStart, AtMost, ThreadPc
  <1>13. ASSUME NEW g \in Legs, RetireHop(g) PROVE TypeOK'
    BY <1>13 DEF RetireHop, AtMost, CompletedUpto, ThreadPc, Outcomes
  <1>14. ASSUME NEW g \in Legs, RetireDone(g) PROVE TypeOK'
    BY <1>14 DEF RetireDone, ThreadPc
  <1>15. ASSUME NEW r \in Readers, Read(r) PROVE TypeOK'
    BY <1>15, Zenon DEF Read, PlanRead, Arm, Enter, Recheck, Await, Leave, ReaderGoto, ReaderFrame, ReaderPc
  <1>16. CASE UNCHANGED vars
    BY <1>16
  <1> QED
    BY <1>1, <1>2, <1>3, <1>4, <1>5, <1>6, <1>7, <1>8, <1>9, <1>10, <1>11, <1>12, <1>13, <1>14,
       <1>15, <1>16, Zenon
       DEF Next, Write, Resolve, Retire

\* A thread inside set_completed, advance_frontier or signal works on a slot that was issued.
LEMMA CallsStep == IInv /\ [Next]_vars => CallsInSlots'
  <1> SUFFICES ASSUME IInv, [Next]_vars PROVE CallsInSlots'
    OBVIOUS
  <1> USE SlotBounds
      DEF IInv, TypeOK, CallsInSlots, Busy, Goto, Threads, vars, slotVars, threadVars, legVars, readVars
  <1>1. ASSUME NEW w \in Writers, Write(w) PROVE CallsInSlots'
    BY <1>1 DEF Write, ReserveFetchAdd, ReserveCreate, LegsDone
  <1>2. ASSUME NEW t \in Threads, UpdateLoad(t) \/ UpdateStore(t) PROVE CallsInSlots'
    BY <1>2 DEF UpdateLoad, UpdateStore, ApplyOutcome
  <1>3. ASSUME NEW t \in Threads, SetCompleted(t) \/ RaiseHighestAcked(t) PROVE CallsInSlots'
    BY <1>3 DEF SetCompleted, RaiseHighestAcked
  <1>4. ASSUME NEW t \in Threads, AdvanceScan(t) \/ AdvanceCas(t) PROVE CallsInSlots'
    BY <1>4 DEF AdvanceScan, AdvanceCas
  <1>5. ASSUME NEW t \in Threads, SignalTest(t) \/ SignalFire(t) PROVE CallsInSlots'
    BY <1>5 DEF SignalTest, SignalFire, Return
  <1>6. ASSUME NEW g \in Legs, Retire(g) PROVE CallsInSlots'
    <2>1. CASE RetireStart(g) \/ RetireDone(g)
      BY <2>1 DEF RetireStart, RetireDone
    <2>2. CASE RetireHop(g)
      <3>1. \/ pc' = pc /\ slot' = slot
            \/ \E u \in active : pc' = [pc EXCEPT ![g] = "update"] /\ slot' = [slot EXCEPT ![g] = u]
        BY <2>2, Zenon DEF RetireHop
      <3> QED BY <3>1
    <2> QED BY <1>6, <2>1, <2>2 DEF Retire
  <1>7. ASSUME NEW r \in Readers, Read(r) PROVE CallsInSlots'
    BY <1>7 DEF Read, PlanRead, Arm, Enter, Recheck, Await, Leave, ReaderGoto, ReaderFrame
  <1>8. CASE UNCHANGED vars
    BY <1>8
  <1> QED
    BY <1>1, <1>2, <1>3, <1>4, <1>5, <1>6, <1>7, <1>8 DEF Next, Resolve

\* The completed bits only accumulate, and F moves only by the compare-exchange.
LEMMA BitsGrow == IInv /\ [Next]_vars => completed \subseteq completed'
  <1> SUFFICES ASSUME IInv, [Next]_vars PROVE completed \subseteq completed'
    OBVIOUS
  <1> QED
    BY ZenonT(30) DEF Next, Write, Resolve, Retire, Read, ReserveFetchAdd, ReserveCreate, LegsDone, UpdateLoad,
           UpdateStore, ApplyOutcome, SetCompleted, RaiseHighestAcked, AdvanceScan, AdvanceCas,
           SignalTest, SignalFire, RetireStart, RetireHop, RetireDone, PlanRead, Arm, Enter, Recheck,
           Await, Leave, ReaderFrame, vars, slotVars

\* Only the compare-and-swap of advance_frontier moves F, from the value it scanned from to its target.
LEMMA FrontierMoves ==
    IInv /\ [Next]_vars =>
        \/ frontier' = frontier
        \/ \E t \in Threads : AdvanceCas(t) /\ frontier = seen[t] /\ frontier' = target[t]
  <1> SUFFICES ASSUME IInv, [Next]_vars
               PROVE  \/ frontier' = frontier
                      \/ \E t \in Threads : AdvanceCas(t) /\ frontier = seen[t] /\ frontier' = target[t]
    OBVIOUS
  <1>1. ASSUME NEW t \in Threads, AdvanceCas(t)
        PROVE  \/ frontier' = frontier
               \/ frontier = seen[t] /\ frontier' = target[t]
    BY <1>1 DEF AdvanceCas
  <1> QED
    BY <1>1, Zenon DEF Next, Write, Resolve, Retire, Read, ReserveFetchAdd, ReserveCreate, LegsDone, UpdateLoad,
           UpdateStore, SetCompleted, RaiseHighestAcked, AdvanceScan,
           SignalTest, SignalFire, RetireStart, RetireHop, RetireDone, PlanRead, Arm, Enter, Recheck,
           Await, Leave, ReaderFrame, vars

\* The target a thread is about to swap in has every bit below it set, and bits are never cleared.
LEMMA CasStep == IInv /\ [Next]_vars => CasCovered'
  <1> SUFFICES ASSUME IInv, [Next]_vars, NEW t \in Threads, pc'[t] = "cas"
               PROVE  /\ seen'[t] < target'[t]
                      /\ \A d \in Slots : seen'[t] < d /\ d <= target'[t] => d \in completed'
    BY DEF CasCovered
  <1> USE DEF IInv, TypeOK, Goto, Threads
  <1>1. CASE AdvanceScan(t)
    BY <1>1, TrackerAssumption, SlotBounds DEF AdvanceScan, CompletedUpto, AtMost, slotVars
  <1>2. CASE ~AdvanceScan(t)
    <2>1. pc[t] = "cas" /\ seen'[t] = seen[t] /\ target'[t] = target[t]
      <3>1. ASSUME NEW w \in Writers, Write(w) PROVE pc[t] = "cas" /\ seen'[t] = seen[t] /\ target'[t] = target[t]
        BY <3>1 DEF Write, ReserveFetchAdd, ReserveCreate, LegsDone
      <3>2. ASSUME NEW u \in Threads, UpdateLoad(u) \/ UpdateStore(u) PROVE pc[t] = "cas" /\ seen'[t] = seen[t] /\ target'[t] = target[t]
        BY <3>2 DEF UpdateLoad, UpdateStore, ApplyOutcome
      <3>3. ASSUME NEW u \in Threads, SetCompleted(u) \/ RaiseHighestAcked(u) PROVE pc[t] = "cas" /\ seen'[t] = seen[t] /\ target'[t] = target[t]
        BY <3>3 DEF SetCompleted, RaiseHighestAcked
      <3>4. ASSUME NEW u \in Threads, AdvanceScan(u) PROVE pc[t] = "cas" /\ seen'[t] = seen[t] /\ target'[t] = target[t]
        BY <1>2, <3>4, Zenon DEF AdvanceScan
      <3>5. ASSUME NEW u \in Threads, AdvanceCas(u) PROVE pc[t] = "cas" /\ seen'[t] = seen[t] /\ target'[t] = target[t]
        BY <3>5 DEF AdvanceCas
      <3>6. ASSUME NEW u \in Threads, SignalTest(u) \/ SignalFire(u) PROVE pc[t] = "cas" /\ seen'[t] = seen[t] /\ target'[t] = target[t]
        BY <3>6 DEF SignalTest, SignalFire, Return
      <3>7. ASSUME NEW g \in Legs, Retire(g) PROVE pc[t] = "cas" /\ seen'[t] = seen[t] /\ target'[t] = target[t]
        BY <3>7 DEF Retire, RetireStart, RetireHop, RetireDone
      <3>8. ASSUME NEW r \in Readers, Read(r) PROVE pc[t] = "cas" /\ seen'[t] = seen[t] /\ target'[t] = target[t]
        BY <3>8 DEF Read, PlanRead, Arm, Enter, Recheck, Await, Leave, ReaderFrame, threadVars
      <3>9. CASE UNCHANGED vars
        BY <3>9 DEF vars, threadVars
      <3> QED
        BY <3>1, <3>2, <3>3, <3>4, <3>5, <3>6, <3>7, <3>8, <3>9 DEF Next, Resolve
    <2> QED BY <2>1, BitsGrow, Zenon DEF CasCovered
  <1> QED BY <1>1, <1>2

\* Every slot up to F has its completed bit.
LEMMA FrontierStep == IInv /\ [Next]_vars => FrontierCompleted'
  <1> SUFFICES ASSUME IInv, [Next]_vars, NEW d \in Slots, d <= frontier' PROVE d \in completed'
    BY DEF FrontierCompleted
  <1>1. CASE frontier' = frontier
    BY <1>1, BitsGrow DEF IInv, FrontierCompleted
  <1>2. ASSUME NEW t \in Threads, AdvanceCas(t), frontier = seen[t], frontier' = target[t]
        PROVE  d \in completed'
    <2>1. CASE d <= frontier
      BY <2>1, BitsGrow DEF IInv, FrontierCompleted
    <2>2. CASE ~(d <= frontier)
      <3>1. seen[t] < d /\ d <= target[t]
        BY <1>2, <2>2, SlotBounds, TrackerAssumption DEF IInv, TypeOK
      <3> QED BY <1>2, <3>1, BitsGrow DEF IInv, CasCovered, AdvanceCas
    <2> QED BY <2>1, <2>2
  <1> QED BY <1>1, <1>2, FrontierMoves

\* Every step of the tracker keeps the invariant.
LEMMA IInvStep == IInv /\ [Next]_vars => IInv'
  BY TypeStep, CallsStep, CasStep, FrontierStep DEF IInv

\* The invariant holds in every reachable state.
LEMMA Inductive == Spec => []IInv
  BY InitIInv, IInvStep, PTL DEF Spec

\* The tracker's state stays well typed: watermarks and calls stay within the issued window.
THEOREM TypeCorrect == Spec => []TypeOK
  <1>1. IInv => TypeOK
    BY DEF IInv
  <1> QED BY <1>1, Inductive, PTL

\* advance_frontier(): however many threads race it, F never passes a slot without its completed bit.
THEOREM FrontierPrefix == Spec => []FrontierCompleted
  <1>1. IInv => FrontierCompleted
    BY DEF IInv
  <1> QED BY <1>1, Inductive, PTL

\* F and Ha, which every request piggybacks and every read plans against, never move back.
THEOREM Monotone == Spec => WatermarksMonotone
  <1>1. IInv /\ [Next]_vars => [frontier' >= frontier /\ highestAcked' >= highestAcked]_vars
    <2> SUFFICES ASSUME IInv, [Next]_vars PROVE frontier' >= frontier /\ highestAcked' >= highestAcked
      OBVIOUS
    <2> USE SlotBounds DEF IInv, TypeOK
    <2>1. frontier' >= frontier
      BY FrontierMoves DEF CasCovered, AdvanceCas
    <2>2. ASSUME NEW t \in Threads, RaiseHighestAcked(t) PROVE highestAcked' >= highestAcked
      BY <2>2 DEF RaiseHighestAcked, AtLeast, CallsInSlots, Busy
    <2>3. highestAcked' = highestAcked => highestAcked' >= highestAcked
      OBVIOUS
    <2> QED
      BY <2>1, <2>2, <2>3, Zenon DEF Next, Write, Resolve, Retire, Read, ReserveFetchAdd, ReserveCreate, LegsDone,
           UpdateLoad, UpdateStore, SetCompleted, AdvanceScan, AdvanceCas,
           SignalTest, SignalFire, RetireStart, RetireHop, RetireDone, PlanRead, Arm, Enter, Recheck,
           Await, Leave, ReaderFrame, vars
  <1> QED BY <1>1, Inductive, PTL DEF Spec, WatermarksMonotone
-----------------------------------------------------------------------------
\* A slot nobody created is untouched, and each reserved dLSN has one creator.
Tickets ==
    /\ \A d \in Slots : d \notin active => outcome[d] = "in_flight" /\ d \notin completed
    /\ \A d \in active : d < next
    /\ \A t \in Threads : pc[t] = "create" => slot[t] < next /\ slot[t] \notin active
    /\ \A t, u \in Threads : t # u /\ pc[t] = "create" /\ pc[u] = "create" => slot[t] # slot[u]
    /\ \A t \in Threads : Busy(t) /\ pc[t] # "create" => slot[t] \in active

\* A thread about to set a completed bit, or to raise Ha, left a resolved outcome behind it. A
\* thread about to store an outcome is alone on its slot, whose outcome is still unresolved.
Published ==
    /\ \A t \in Threads : pc[t] = "store" => ~is_resolved(outcome[slot[t]])
    /\ \A t, u \in Threads : t # u /\ pc[t] = "store" /\ pc[u] = "store" => slot[t] # slot[u]
    /\ \A t \in Threads : pc[t] = "keepbit" => is_resolved(outcome[slot[t]])
    /\ \A t \in Threads : pc[t] = "bit" => is_resolved(oc[t]) /\ outcome[slot[t]] = oc[t]
    /\ \A t \in Threads : pc[t] = "raise" => slot[t] \in completed /\ outcome[slot[t]] = "acked"

SInv == IInv /\ Tickets /\ Published /\ CompletedIsResolved /\ HighestAckedVisible

\* The invariant for serialised updates holds of a freshly seeded tracker.
LEMMA InitSInv == Init => SInv
  <1> SUFFICES ASSUME Init PROVE SInv
    OBVIOUS
  <1>1. Tickets /\ Published
    BY DEF Init, Tickets, Published, Busy
  <1>2. CompletedIsResolved /\ HighestAckedVisible
    BY TrackerAssumption DEF Init, CompletedIsResolved, HighestAckedVisible
  <1> QED BY <1>1, <1>2, InitIInv DEF SInv

\* The ticket discipline of reserve() is inductive whatever the updates do.
LEMMA TicketsStep == IInv /\ Tickets /\ [Next]_vars => Tickets'
  <1> SUFFICES ASSUME IInv, Tickets, [Next]_vars PROVE Tickets'
    OBVIOUS
  <1> USE SlotBounds, TrackerAssumption
      DEF IInv, TypeOK, CallsInSlots, Tickets, Busy, Goto, Threads, slotVars, threadVars, vars
  <1>1. ASSUME NEW w \in Writers, ReserveFetchAdd(w) PROVE Tickets'
    BY <1>1 DEF ReserveFetchAdd
  <1>2. ASSUME NEW w \in Writers, ReserveCreate(w) PROVE Tickets'
    BY <1>2 DEF ReserveCreate
  <1>3. ASSUME NEW w \in Writers, LegsDone(w) PROVE Tickets'
    BY <1>3 DEF LegsDone
  <1>4. ASSUME NEW t \in Threads, UpdateLoad(t) \/ UpdateStore(t) PROVE Tickets'
    <2>1. /\ \E l \in {"keepbit", "store", "bit", "signal"} : pc' = [pc EXCEPT ![t] = l]
          /\ pc[t] \in {"update", "store"}
          /\ UNCHANGED <<next, active, completed, slot>>
      BY <1>4 DEF UpdateLoad, UpdateStore, ApplyOutcome
    <2>2. slot[t] \in active /\ \A d \in Slots : d # slot[t] => outcome'[d] = outcome[d]
      BY <1>4 DEF UpdateLoad, UpdateStore, ApplyOutcome
    <2> QED BY <2>1, <2>2
  <1>5. ASSUME NEW t \in Threads, SetCompleted(t) PROVE Tickets'
    BY <1>5 DEF SetCompleted
  <1>6. ASSUME NEW t \in Threads, RaiseHighestAcked(t) PROVE Tickets'
    BY <1>6 DEF RaiseHighestAcked
  <1>7. ASSUME NEW t \in Threads, AdvanceScan(t) \/ AdvanceCas(t) PROVE Tickets'
    <2>1. /\ \E l \in {"scan", "cas", "signal"} : pc' = [pc EXCEPT ![t] = l]
          /\ pc[t] \in {"scan", "cas"}
          /\ UNCHANGED <<next, active, completed, outcome, slot>>
      BY <1>7 DEF AdvanceScan, AdvanceCas
    <2> QED BY <2>1
  <1>8. ASSUME NEW t \in Threads, SignalTest(t) \/ SignalFire(t) PROVE Tickets'
    <2>1. /\ pc[t] \in {"signal", "fire"}
          /\ UNCHANGED <<next, active, completed, outcome>>
          /\ \/ pc' = [pc EXCEPT ![t] = "fire"] /\ slot' = slot
             \/ \E l \in {"idle", "hop"} :
                  pc' = [pc EXCEPT ![t] = l] /\ slot' = [slot EXCEPT ![t] = L]
      BY <1>8 DEF SignalTest, SignalFire, Return
    <2> QED BY <2>1
  <1>9. ASSUME NEW g \in Legs, RetireStart(g) \/ RetireDone(g) PROVE Tickets'
    <2>1. /\ \E l \in {"idle", "hop"} : pc' = [pc EXCEPT ![g] = l]
          /\ UNCHANGED <<next, active, completed, outcome, slot>>
      BY <1>9 DEF RetireStart, RetireDone
    <2> QED BY <2>1
  <1>10. ASSUME NEW g \in Legs, RetireHop(g) PROVE Tickets'
    <2>1. \/ pc' = pc /\ slot' = slot
          \/ \E u \in active : pc' = [pc EXCEPT ![g] = "update"] /\ slot' = [slot EXCEPT ![g] = u]
      BY <1>10, Zenon DEF RetireHop
    <2>2. UNCHANGED <<next, active, completed, outcome>>
      BY <1>10, Zenon DEF RetireHop
    <2>3. CASE pc' = pc /\ slot' = slot
      BY <2>2, <2>3
    <2>4. ASSUME NEW u \in active, pc' = [pc EXCEPT ![g] = "update"], slot' = [slot EXCEPT ![g] = u]
          PROVE  Tickets'
      BY <2>2, <2>4
    <2> QED BY <2>1, <2>3, <2>4, Zenon
  <1>11. ASSUME NEW r \in Readers, Read(r) PROVE Tickets'
    <2>1. UNCHANGED <<next, active, completed, outcome, slot, pc>>
      BY <1>11 DEF Read, PlanRead, Arm, Enter, Recheck, Await, Leave, ReaderFrame
    <2> QED BY <2>1, Zenon
  <1>12. CASE UNCHANGED vars
    BY <1>12
  <1> QED
    BY <1>1, <1>2, <1>3, <1>4, <1>5, <1>6, <1>7, <1>8, <1>9, <1>10, <1>11, <1>12, Zenon
       DEF Next, Write, Resolve, Retire

\* Without interleaved updates a step changes an outcome only if that outcome is unresolved.
LEMMA OutcomeKept ==
    ASSUME ~SharedUpdate
    PROVE  SInv /\ [Next]_vars =>
             \A d \in Slots : is_resolved(outcome[d]) => outcome'[d] = outcome[d]
  <1> SUFFICES ASSUME SInv, [Next]_vars, NEW d \in Slots, is_resolved(outcome[d])
               PROVE  outcome'[d] = outcome[d]
    OBVIOUS
  <1> USE DEF SInv, IInv, TypeOK
  <1>1. ASSUME NEW w \in Writers, ReserveCreate(w) PROVE outcome'[d] = outcome[d]
    BY <1>1 DEF ReserveCreate, Tickets, Busy, CallsInSlots, is_resolved, Threads
  <1>2. ASSUME NEW t \in Threads, UpdateLoad(t) PROVE outcome'[d] = outcome[d]
    BY <1>2 DEF UpdateLoad, slotVars
  <1>3. ASSUME NEW t \in Threads, UpdateStore(t) PROVE outcome'[d] = outcome[d]
    BY <1>3 DEF UpdateStore, ApplyOutcome, Published
  <1> QED
    BY <1>1, <1>2, <1>3, Zenon
       DEF Next, Write, Resolve, Retire, Read, ReserveFetchAdd, LegsDone, SetCompleted,
           RaiseHighestAcked, AdvanceScan, AdvanceCas, SignalTest, SignalFire, RetireStart, RetireHop,
           RetireDone, PlanRead, Arm, Enter, Recheck, Await, Leave, ReaderFrame, vars, slotVars

\* A thread on its way to publish a slot carries an outcome the slot keeps (on_outcome).
LEMMA PublishedStep ==
    ASSUME ~SharedUpdate
    PROVE  SInv /\ [Next]_vars => Published'
  <1> SUFFICES ASSUME SInv, [Next]_vars PROVE Published'
    OBVIOUS
  <1>0. \A d \in Slots : is_resolved(outcome[d]) => outcome'[d] = outcome[d]
    BY OutcomeKept
  <1>00. completed \subseteq completed'
    BY BitsGrow, Zenon DEF SInv
  <1> USE SlotBounds, <1>0, <1>00
      DEF SInv, IInv, TypeOK, CallsInSlots, Published, Busy, Goto, Threads, slotVars, threadVars, vars,
          is_resolved
  <1>1. ASSUME NEW w \in Writers, ReserveFetchAdd(w) PROVE Published'
    <2>1. UNCHANGED <<completed, outcome, oc>> /\ pc' = [pc EXCEPT ![w] = "create"]
          /\ slot' = [slot EXCEPT ![w] = next]
      BY <1>1, Zenon DEF ReserveFetchAdd
    <2> QED BY <2>1
  <1>2. ASSUME NEW w \in Writers, ReserveCreate(w) PROVE Published'
    BY <1>2 DEF ReserveCreate
  <1>3. ASSUME NEW w \in Writers, LegsDone(w) PROVE Published'
    BY <1>3 DEF LegsDone
  <1>4. ASSUME NEW t \in Threads, UpdateLoad(t) PROVE Published'
    BY <1>4 DEF UpdateLoad, Updating
  <1>5. ASSUME NEW t \in Threads, SetCompleted(t) PROVE Published'
    BY <1>5 DEF SetCompleted
  <1>6. ASSUME NEW t \in Threads, RaiseHighestAcked(t) PROVE Published'
    BY <1>6 DEF RaiseHighestAcked
  <1>7. ASSUME NEW t \in Threads, AdvanceScan(t) \/ AdvanceCas(t) PROVE Published'
    <2>1. /\ \E l \in {"scan", "cas", "signal"} : pc' = [pc EXCEPT ![t] = l]
          /\ UNCHANGED <<completed, outcome, slot, oc>>
      BY <1>7, Zenon DEF AdvanceScan, AdvanceCas
    <2> QED BY <2>1
  <1>8. ASSUME NEW t \in Threads, SignalTest(t) \/ SignalFire(t) PROVE Published'
    <2>1. /\ UNCHANGED <<completed, outcome>>
          /\ \/ pc' = [pc EXCEPT ![t] = "fire"] /\ slot' = slot /\ oc' = oc
             \/ \E l \in {"idle", "hop"} :
                  /\ pc' = [pc EXCEPT ![t] = l]
                  /\ slot' = [slot EXCEPT ![t] = L] /\ oc' = [oc EXCEPT ![t] = "in_flight"]
      BY <1>8, Zenon DEF SignalTest, SignalFire, Return
    <2> QED BY <2>1
  <1>9. ASSUME NEW g \in Legs, RetireStart(g) \/ RetireDone(g) PROVE Published'
    <2>1. /\ \E l \in {"idle", "hop"} : pc' = [pc EXCEPT ![g] = l]
          /\ UNCHANGED <<completed, outcome, slot, oc>>
      BY <1>9 DEF RetireStart, RetireDone
    <2> QED BY <2>1
  <1>10. ASSUME NEW g \in Legs, RetireHop(g) PROVE Published'
    <2>1. /\ UNCHANGED <<completed, outcome>>
          /\ \/ pc' = pc /\ slot' = slot /\ oc' = oc
             \/ \E u \in active, v \in {"acked", "empty"} :
                  /\ pc' = [pc EXCEPT ![g] = "update"]
                  /\ slot' = [slot EXCEPT ![g] = u] /\ oc' = [oc EXCEPT ![g] = v]
      BY <1>10, Zenon DEF RetireHop
    <2>2. ASSUME pc' = pc, slot' = slot, oc' = oc PROVE Published'
      BY <2>1, <2>2, SMTT(30)
    <2>3. ASSUME NEW u \in active, NEW v \in {"acked", "empty"}, pc' = [pc EXCEPT ![g] = "update"],
                 slot' = [slot EXCEPT ![g] = u], oc' = [oc EXCEPT ![g] = v]
          PROVE  Published'
      BY <2>1, <2>3
    <2> QED
      <3> HIDE DEF Published
      <3> QED BY <2>1, <2>2, <2>3, Zenon
  <1>11. ASSUME NEW r \in Readers, Read(r) PROVE Published'
    <2>1. UNCHANGED <<completed, outcome, slot, oc, pc>>
      BY <1>11, Zenon DEF Read, PlanRead, Arm, Enter, Recheck, Await, Leave, ReaderFrame
    <2> QED BY <2>1
  <1>12. CASE UNCHANGED vars
    BY <1>12, SMTT(30)
  <1>13. ASSUME NEW t \in Threads, UpdateStore(t) PROVE Published'
    BY <1>13 DEF UpdateStore, ApplyOutcome
  <1> QED
    BY <1>1, <1>2, <1>3, <1>4, <1>5, <1>6, <1>7, <1>8, <1>9, <1>10, <1>11, <1>12, <1>13, Zenon
       DEF Next, Write, Resolve, Retire

\* A completed bit is set only for a resolved slot, and highest_acked only names an acked one.
LEMMA ResolvedStep ==
    ASSUME ~SharedUpdate
    PROVE  SInv /\ [Next]_vars => CompletedIsResolved' /\ HighestAckedVisible'
  <1> SUFFICES ASSUME SInv, [Next]_vars PROVE CompletedIsResolved' /\ HighestAckedVisible'
    OBVIOUS
  <1>0. \A d \in Slots : is_resolved(outcome[d]) => outcome'[d] = outcome[d]
    BY OutcomeKept
  <1>1. completed \subseteq completed' /\ active \subseteq active'
    BY BitsGrow, Zenon
       DEF SInv, Next, Write, Resolve, Retire, Read, ReserveFetchAdd, ReserveCreate, LegsDone, UpdateLoad,
           UpdateStore, SetCompleted, RaiseHighestAcked, AdvanceScan, AdvanceCas,
           SignalTest, SignalFire, RetireStart, RetireHop, RetireDone, PlanRead, Arm, Enter, Recheck,
           Await, Leave, ReaderFrame, vars, slotVars
  <1> USE SlotBounds, TrackerAssumption DEF SInv, IInv, TypeOK
  <1>2. CompletedIsResolved'
    <2>1. ASSUME NEW d \in completed PROVE is_resolved(outcome'[d])
      BY <1>0, <2>1 DEF CompletedIsResolved
    <2>2. ASSUME NEW t \in Threads, SetCompleted(t), NEW d \in completed', d \notin completed
          PROVE  is_resolved(outcome'[d])
      <3>1. d = slot[t] /\ outcome' = outcome
        BY <2>2 DEF SetCompleted
      <3> QED BY <2>2, <3>1 DEF SetCompleted, Published
    <2>3. completed' = completed \/ \E t \in Threads : SetCompleted(t)
      BY Zenon DEF Next, Write, Resolve, Retire, Read, ReserveFetchAdd, ReserveCreate, LegsDone, UpdateLoad,
           UpdateStore, RaiseHighestAcked, AdvanceScan, AdvanceCas,
           SignalTest, SignalFire, RetireStart, RetireHop, RetireDone, PlanRead, Arm, Enter, Recheck,
           Await, Leave, ReaderFrame, vars, slotVars
    <2> QED BY <2>1, <2>2, <2>3, ZenonT(30) DEF CompletedIsResolved
  <1>3. HighestAckedVisible'
    <2>1. CASE highestAcked' = highestAcked
      BY <1>0, <1>1, <2>1, Zenon DEF HighestAckedVisible, is_resolved
    <2>2. ASSUME NEW t \in Threads, RaiseHighestAcked(t), highestAcked' # highestAcked
          PROVE  HighestAckedVisible'
      <3>1. highestAcked' = slot[t] /\ pc[t] = "raise" /\ UNCHANGED <<active, completed, outcome>>
        BY <2>2 DEF RaiseHighestAcked, AtLeast, slotVars
      <3>2. slot[t] \in active /\ slot[t] \in completed /\ outcome[slot[t]] = "acked"
        BY <3>1 DEF Tickets, Published, Busy
      <3> QED BY <3>1, <3>2 DEF HighestAckedVisible
    <2>3. highestAcked' = highestAcked \/ \E t \in Threads : RaiseHighestAcked(t)
      BY Zenon DEF Next, Write, Resolve, Retire, Read, ReserveFetchAdd, ReserveCreate, LegsDone, UpdateLoad,
           UpdateStore, SetCompleted, AdvanceScan, AdvanceCas,
           SignalTest, SignalFire, RetireStart, RetireHop, RetireDone, PlanRead, Arm, Enter, Recheck,
           Await, Leave, ReaderFrame, vars
    <2> QED BY <2>1, <2>2, <2>3
  <1> QED BY <1>2, <1>3

\* With updates of one slot serialised, the strengthened invariant holds in every reachable state.
LEMMA SerialInductive ==
    ASSUME ~SharedUpdate
    PROVE  Spec => []SInv
  <1>1. SInv /\ [Next]_vars => SInv'
    BY IInvStep, TicketsStep, PublishedStep, ResolvedStep DEF SInv
  <1> QED BY <1>1, InitSInv, PTL DEF Spec

\* With updates of one slot serialised, F never passes a write that is in flight or failed.
THEOREM FrontierIsResolved ==
    ASSUME ~SharedUpdate
    PROVE  Spec => []FrontierResolved
  <1>1. SInv => FrontierResolved
    BY DEF SInv, IInv, FrontierCompleted, CompletedIsResolved, FrontierResolved
  <1> QED BY <1>1, SerialInductive, PTL

\* With updates of one slot serialised, whoever loads Ha finds that slot created and acked.
THEOREM HaPublishedLast ==
    ASSUME ~SharedUpdate
    PROVE  Spec => []HighestAckedVisible
  <1>1. SInv => HighestAckedVisible
    BY DEF SInv
  <1> QED BY <1>1, SerialInductive, PTL

\* With updates of one slot serialised, resolve() never overwrites a resolved outcome.
THEOREM ResolvedIsFinal ==
    ASSUME ~SharedUpdate
    PROVE  Spec => NeverDowngrades
  <1>1. SInv /\ [Next]_vars =>
          [\A d \in Slots : is_resolved(outcome[d]) => outcome'[d] = outcome[d]]_vars
    BY OutcomeKept
  <1> QED BY <1>1, SerialInductive, PTL DEF Spec, NeverDowngrades
-----------------------------------------------------------------------------
\* A thread between its completed bit and the end of advance_frontier(), that will scan again unless
\* it finds F tight; and one that stored d's resolved outcome and is about to set d's bit.
Advancing(t) == pc[t] \in {"bit", "raise", "scan", "cas"}
BitDue(d) == \E u \in Threads : pc[u] = "bit" /\ slot[u] = d

\* Whoever stored a resolved outcome sets the bit and advances F afterwards, so a thread that finds
\* the outcome resolved may set the bit and leave without scanning.
BitFollows ==
    /\ \A d \in Slots : is_resolved(outcome[d]) => d \in completed \/ BitDue(d)
    /\ \A t \in Threads : pc[t] = "keepbit" => slot[t] \in completed \/ BitDue(slot[t])

\* While the slot above F is completed somebody still advances F.  A compare-exchange that would
\* leave F below another completed slot is not the last: the thread that completed that slot is still
\* at it, since it could only have finished by moving F, and then this compare-exchange fails.
SomeoneAdvances ==
    /\ frontier + 1 \in completed => \E t \in Threads : Advancing(t)
    /\ \A t \in Threads : pc[t] = "cas" =>
         /\ seen[t] <= frontier
         /\ frontier = seen[t] /\ target[t] + 1 \in completed =>
              \E u \in Threads : u # t /\ Advancing(u)

TInv == IInv /\ Tickets /\ BitFollows /\ SomeoneAdvances

\* Only the bit's own setter leaves "bit", and it leaves the bit set.
LEMMA BitStays ==
    ASSUME IInv, [Next]_vars, NEW u \in Threads, pc[u] = "bit"
    PROVE  \/ pc'[u] = "bit" /\ slot'[u] = slot[u]
           \/ slot[u] \in completed' /\ Advancing(u)'
  <1> USE DEF IInv, TypeOK, Goto, Threads
  <1>1. ASSUME NEW w \in Writers, Write(w) PROVE pc'[u] = "bit" /\ slot'[u] = slot[u]
    BY <1>1 DEF Write, ReserveFetchAdd, ReserveCreate, LegsDone
  <1>2. ASSUME NEW t \in Threads, UpdateLoad(t) \/ UpdateStore(t) PROVE pc'[u] = "bit" /\ slot'[u] = slot[u]
    BY <1>2 DEF UpdateLoad, UpdateStore, ApplyOutcome
  <1>3. ASSUME NEW t \in Threads, SetCompleted(t)
        PROVE  \/ pc'[u] = "bit" /\ slot'[u] = slot[u]
               \/ slot[u] \in completed' /\ Advancing(u)'
    BY <1>3, Zenon DEF SetCompleted, Advancing
  <1>4. ASSUME NEW t \in Threads, RaiseHighestAcked(t) \/ AdvanceScan(t) \/ AdvanceCas(t)
        PROVE  pc'[u] = "bit" /\ slot'[u] = slot[u]
    BY <1>4, Zenon DEF RaiseHighestAcked, AdvanceScan, AdvanceCas
  <1>5. ASSUME NEW t \in Threads, SignalTest(t) \/ SignalFire(t) PROVE pc'[u] = "bit" /\ slot'[u] = slot[u]
    BY <1>5 DEF SignalTest, SignalFire, Return
  <1>6. ASSUME NEW g \in Legs, Retire(g) PROVE pc'[u] = "bit" /\ slot'[u] = slot[u]
    <2>1. CASE RetireStart(g) \/ RetireDone(g)
      BY <2>1, Zenon DEF RetireStart, RetireDone
    <2>2. CASE RetireHop(g)
      BY <2>2, Zenon DEF RetireHop
    <2> QED BY <1>6, <2>1, <2>2, Zenon DEF Retire
  <1>7. ASSUME NEW r \in Readers, Read(r) PROVE pc'[u] = "bit" /\ slot'[u] = slot[u]
    BY <1>7 DEF Read, PlanRead, Arm, Enter, Recheck, Await, Leave, ReaderFrame, threadVars
  <1>8. CASE UNCHANGED vars
    BY <1>8, Zenon DEF vars, threadVars
  <1> QED BY <1>1, <1>2, <1>3, <1>4, <1>5, <1>6, <1>7, <1>8, Zenon DEF Next, Resolve

\* A slot whose bit is set or due stays so.
LEMMA DueStays ==
    ASSUME IInv, [Next]_vars, NEW d, d \in completed \/ BitDue(d)
    PROVE  d \in completed' \/ BitDue(d)'
  BY BitStays, BitsGrow DEF BitDue

\* update() reaches "keepbit" only by finding the outcome resolved.
LEMMA KeepbitEntered ==
    ASSUME IInv, [Next]_vars, NEW t \in Threads, pc'[t] = "keepbit"
    PROVE  \/ pc[t] = "keepbit" /\ slot'[t] = slot[t]
           \/ UpdateLoad(t)
  <1> DEFINE Kept == pc[t] = "keepbit" /\ slot'[t] = slot[t]
  <1> USE DEF IInv, TypeOK, Goto, Threads
  <1>1. ASSUME NEW w \in Writers, Write(w) PROVE Kept
    BY <1>1 DEF Write, ReserveFetchAdd, ReserveCreate, LegsDone
  <1>2. ASSUME NEW u \in Threads, UpdateLoad(u) PROVE Kept \/ UpdateLoad(t)
    <2>1. CASE u # t
      BY <1>2, <2>1, Zenon DEF UpdateLoad
    <2> QED BY <1>2, <2>1, Zenon
  <1>3. ASSUME NEW u \in Threads, UpdateStore(u) \/ SetCompleted(u) PROVE Kept
    BY <1>3, Zenon DEF UpdateStore, ApplyOutcome, SetCompleted
  <1>4. ASSUME NEW u \in Threads, RaiseHighestAcked(u) \/ AdvanceScan(u) \/ AdvanceCas(u) PROVE Kept
    BY <1>4, Zenon DEF RaiseHighestAcked, AdvanceScan, AdvanceCas
  <1>5. ASSUME NEW u \in Threads, SignalTest(u) \/ SignalFire(u) PROVE Kept
    BY <1>5, Zenon DEF SignalTest, SignalFire, Return
  <1>6. ASSUME NEW g \in Legs, Retire(g) PROVE Kept
    BY <1>6, Zenon DEF Retire, RetireStart, RetireHop, RetireDone
  <1>7. ASSUME NEW r \in Readers, Read(r) PROVE Kept
    BY <1>7 DEF Read, PlanRead, Arm, Enter, Recheck, Await, Leave, ReaderFrame, threadVars
  <1>8. CASE UNCHANGED vars
    BY <1>8, Zenon DEF vars, threadVars
  <1> QED BY <1>1, <1>2, <1>3, <1>4, <1>5, <1>6, <1>7, <1>8, Zenon DEF Next, Resolve

\* A thread that advances F stops only when it finds F tight or moves F itself.
LEMMA AdvancerStays ==
    ASSUME IInv, [Next]_vars, NEW u \in Threads, Advancing(u)
    PROVE  \/ Advancing(u)'
           \/ AdvanceScan(u) /\ pc'[u] = "signal"
           \/ AdvanceCas(u) /\ frontier = seen[u] /\ frontier' = target[u]
  <1> USE DEF IInv, TypeOK, Goto, Threads, Advancing
  <1>1. ASSUME NEW w \in Writers, Write(w) PROVE Advancing(u)'
    BY <1>1, Zenon DEF Write, ReserveFetchAdd, ReserveCreate, LegsDone
  <1>2. ASSUME NEW t \in Threads, UpdateLoad(t) \/ UpdateStore(t) PROVE Advancing(u)'
    BY <1>2, Zenon DEF UpdateLoad, UpdateStore, ApplyOutcome
  <1>3. ASSUME NEW t \in Threads, SetCompleted(t) \/ RaiseHighestAcked(t) PROVE Advancing(u)'
    BY <1>3 DEF SetCompleted, RaiseHighestAcked
  <1>4. ASSUME NEW t \in Threads, AdvanceScan(t)
        PROVE  Advancing(u)' \/ (AdvanceScan(u) /\ pc'[u] = "signal")
    <2>1. pc'[t] \in {"cas", "signal"} /\ \A v \in Threads : v # t => pc'[v] = pc[v]
      BY <1>4 DEF AdvanceScan
    <2>2. Advancing(u)' \/ (u = t /\ pc'[u] = "signal")
      BY <2>1
    <2> QED BY <1>4, <2>2, Zenon
  <1>5. ASSUME NEW t \in Threads, AdvanceCas(t)
        PROVE  Advancing(u)' \/ (AdvanceCas(u) /\ frontier = seen[u] /\ frontier' = target[u])
    <2>1. \/ frontier = seen[t] /\ frontier' = target[t] /\ pc' = [pc EXCEPT ![t] = "signal"]
          \/ pc' = [pc EXCEPT ![t] = "scan"]
      BY <1>5 DEF AdvanceCas
    <2>2. Advancing(u)' \/ (u = t /\ frontier = seen[t] /\ frontier' = target[t])
      BY <2>1, Zenon
    <2> QED BY <1>5, <2>2, Zenon
  <1>6. ASSUME NEW t \in Threads, SignalTest(t) \/ SignalFire(t) PROVE Advancing(u)'
    BY <1>6, Zenon DEF SignalTest, SignalFire, Return
  <1>7. ASSUME NEW g \in Legs, Retire(g) PROVE Advancing(u)'
    BY <1>7, Zenon DEF Retire, RetireStart, RetireHop, RetireDone
  <1>8. ASSUME NEW r \in Readers, Read(r) PROVE Advancing(u)'
    BY <1>8, Zenon DEF Read, PlanRead, Arm, Enter, Recheck, Await, Leave, ReaderFrame, threadVars
  <1>9. CASE UNCHANGED vars
    BY <1>9 DEF vars, threadVars
  <1> QED BY <1>1, <1>2, <1>3, <1>4, <1>5, <1>6, <1>7, <1>8, <1>9, Zenon DEF Next, Resolve

\* A thread that gives up its scan found the slot above F not completed.
LEMMA ScanFindsTight ==
    ASSUME IInv, Tickets, NEW u \in Threads, AdvanceScan(u), pc'[u] = "signal"
    PROVE  frontier + 1 \notin completed
  <1>1. PICK x \in Slots \cup {L} : CompletedUpto(frontier + 1, x) /\ AtMost(x, next - 1) <= frontier
    BY Zenon DEF AdvanceScan, Goto, IInv, TypeOK
  <1>2. \A d \in completed : d < next
    BY DEF Tickets, IInv, TypeOK
  <1>3. x \in Int /\ next \in Int /\ frontier \in Int
    BY SlotBounds, TrackerAssumption DEF IInv, TypeOK
  <1>4. x >= (frontier + 1) - 1 /\ x + 1 \notin completed
    BY <1>1, Zenon DEF CompletedUpto
  <1> QED BY <1>1, <1>2, <1>3, <1>4 DEF AtMost

\* A thread that starts a compare-exchange found its target the end of the completed run.
LEMMA ScanFindsEnd ==
    ASSUME IInv, Tickets, NEW u \in Threads, AdvanceScan(u), pc'[u] = "cas"
    PROVE  /\ seen'[u] = frontier /\ target'[u] + 1 \notin completed
  <1>1. PICK x \in Slots \cup {L} : CompletedUpto(frontier + 1, x) /\ target'[u] = AtMost(x, next - 1)
    BY Zenon DEF AdvanceScan, Goto, IInv, TypeOK
  <1>2. \A d \in completed : d < next
    BY Zenon DEF Tickets, IInv, TypeOK
  <1>3. seen'[u] = frontier
    BY DEF AdvanceScan, Goto, IInv, TypeOK
  <1>4. x \in Int /\ next \in Int
    BY SlotBounds, TrackerAssumption DEF IInv, TypeOK
  <1>5. x + 1 \notin completed
    BY <1>1, Zenon DEF CompletedUpto
  <1> QED BY <1>1, <1>2, <1>3, <1>4, <1>5 DEF AtMost

\* A resolved slot has its bit, or some thread is still due to set it (set_completed follows the outcome).
LEMMA FollowsStep == TInv /\ [Next]_vars => BitFollows'
  <1> SUFFICES ASSUME TInv, [Next]_vars PROVE BitFollows'
    OBVIOUS
  <1>0. IInv
    BY DEF TInv
  <1>1. ASSUME NEW d \in Slots, is_resolved(outcome'[d]) PROVE d \in completed' \/ BitDue(d)'
    <2>1. CASE is_resolved(outcome[d])
      BY <1>0, <2>1, DueStays DEF TInv, BitFollows
    <2>2. CASE ~is_resolved(outcome[d])
      <3>1. ASSUME NEW w \in Writers, ReserveCreate(w) PROVE FALSE
        BY <1>0, <1>1, <2>2, <3>1, Zenon DEF ReserveCreate, IInv, TypeOK, is_resolved
      <3>2. ASSUME NEW t \in Threads, UpdateStore(t) PROVE BitDue(d)'
        BY <1>0, <1>1, <2>2, <3>2 DEF UpdateStore, ApplyOutcome, Goto, IInv, TypeOK, BitDue
      <3>3. \/ outcome' = outcome
            \/ \E w \in Writers : ReserveCreate(w)
            \/ \E t \in Threads : UpdateStore(t)
        BY Zenon DEF Next, Write, Resolve, Retire, Read, ReserveFetchAdd, LegsDone, UpdateLoad, SetCompleted,
           RaiseHighestAcked, AdvanceScan, AdvanceCas, SignalTest, SignalFire, RetireStart, RetireHop,
           RetireDone, PlanRead, Arm, Enter, Recheck, Await, Leave, ReaderFrame, vars, slotVars
      <3> QED BY <1>1, <2>2, <3>1, <3>2, <3>3, Zenon
    <2> QED BY <2>1, <2>2, Zenon
  <1>2. ASSUME NEW t \in Threads, pc'[t] = "keepbit" PROVE (slot[t] \in completed \/ BitDue(slot[t]))'
    <2>1. \/ pc[t] = "keepbit" /\ slot'[t] = slot[t]
          \/ UpdateLoad(t)
      BY <1>0, <1>2, KeepbitEntered, Zenon
    <2>2. slot'[t] = slot[t] /\ (slot[t] \in completed \/ BitDue(slot[t]))
      <3>1. CASE pc[t] = "keepbit" /\ slot'[t] = slot[t]
        BY <3>1 DEF TInv, BitFollows
      <3>2. CASE UpdateLoad(t)
        <4>1. is_resolved(outcome[slot[t]]) /\ slot' = slot /\ slot[t] \in Slots
          BY <1>0, <1>2, <3>2 DEF UpdateLoad, Goto, IInv, TypeOK, CallsInSlots, Busy
        <4> QED BY <4>1, Zenon DEF TInv, BitFollows
      <3> QED BY <2>1, <3>1, <3>2, Zenon
    <2>3. PICK d : d = slot[t]
      BY Zenon
    <2>4. d \in completed' \/ BitDue(d)'
      BY <1>0, <2>2, <2>3, DueStays
    <2> QED BY <2>2, <2>3, <2>4 DEF BitDue
  <1> QED BY <1>1, <1>2, Zenon DEF BitFollows

\* A slot whose bit appears in a step has a thread that goes on to advance F, other than any thread
\* that is about to compare-exchange.
LEMMA NewBitAdvances ==
    ASSUME TInv, [Next]_vars, NEW d, d \in completed', d \notin completed
    PROVE  \E u \in Threads : Advancing(u)' /\ pc[u] # "cas"
  <1>1. PICK t \in Threads : SetCompleted(t)
    BY Zenon DEF Next, Write, Resolve, Retire, Read, ReserveFetchAdd, ReserveCreate, LegsDone, UpdateLoad,
           UpdateStore, RaiseHighestAcked, AdvanceScan, AdvanceCas,
           SignalTest, SignalFire, RetireStart, RetireHop, RetireDone, PlanRead, Arm, Enter, Recheck,
           Await, Leave, ReaderFrame, vars, slotVars
  <1>2. d = slot[t] /\ pc[t] \in {"bit", "keepbit"}
    BY <1>1, Zenon DEF SetCompleted
  <1>3. CASE pc[t] = "bit"
    BY <1>1, <1>3, Zenon DEF SetCompleted, Goto, TInv, IInv, TypeOK, Advancing
  <1>4. CASE pc[t] = "keepbit"
    <2>1. PICK u \in Threads : pc[u] = "bit" /\ slot[u] = d
      BY <1>2, <1>4 DEF TInv, BitFollows, BitDue
    <2> QED BY <1>1, <1>4, <2>1, Zenon DEF SetCompleted, Goto, TInv, IInv, TypeOK, Advancing
  <1> QED BY <1>2, <1>3, <1>4

\* A thread stands before the compare-and-swap because it has just scanned, or it stood there already with the same scan.
LEMMA CasEntered ==
    ASSUME IInv, [Next]_vars, NEW t \in Threads, pc'[t] = "cas"
    PROVE  \/ AdvanceScan(t)
           \/ pc[t] = "cas" /\ seen'[t] = seen[t] /\ target'[t] = target[t]
  <1> SUFFICES ASSUME ~AdvanceScan(t)
               PROVE  pc[t] = "cas" /\ seen'[t] = seen[t] /\ target'[t] = target[t]
    BY Zenon
  <1> DEFINE Kept == pc[t] = "cas" /\ seen'[t] = seen[t] /\ target'[t] = target[t]
  <1> USE DEF IInv, TypeOK, Goto, Threads
  <1>1. ASSUME NEW w \in Writers, Write(w) PROVE Kept
    BY <1>1, Zenon DEF Write, ReserveFetchAdd, ReserveCreate, LegsDone
  <1>2. ASSUME NEW u \in Threads, UpdateLoad(u) \/ UpdateStore(u) PROVE Kept
    BY <1>2, Zenon DEF UpdateLoad, UpdateStore, ApplyOutcome
  <1>3. ASSUME NEW u \in Threads, SetCompleted(u) \/ RaiseHighestAcked(u) PROVE Kept
    BY <1>3 DEF SetCompleted, RaiseHighestAcked
  <1>4. ASSUME NEW u \in Threads, AdvanceScan(u) PROVE Kept
    BY <1>4, Zenon DEF AdvanceScan
  <1>5. ASSUME NEW u \in Threads, AdvanceCas(u) PROVE Kept
    BY <1>5, Zenon DEF AdvanceCas
  <1>6. ASSUME NEW u \in Threads, SignalTest(u) \/ SignalFire(u) PROVE Kept
    BY <1>6, Zenon DEF SignalTest, SignalFire, Return
  <1>7. ASSUME NEW g \in Legs, Retire(g) PROVE Kept
    BY <1>7, Zenon DEF Retire, RetireStart, RetireHop, RetireDone
  <1>8. ASSUME NEW r \in Readers, Read(r) PROVE Kept
    BY <1>8, Zenon DEF Read, PlanRead, Arm, Enter, Recheck, Await, Leave, ReaderFrame, threadVars
  <1>9. CASE UNCHANGED vars
    BY <1>9 DEF vars, threadVars
  <1> QED BY <1>1, <1>2, <1>3, <1>4, <1>5, <1>6, <1>7, <1>8, <1>9, Zenon DEF Next, Resolve

\* Scans and compare-exchanges set no bit, and a scan leaves F alone.
LEMMA AdvanceFrame ==
    /\ \A t \in Threads : AdvanceScan(t) => completed' = completed /\ frontier' = frontier
    /\ \A t \in Threads : AdvanceCas(t) => completed' = completed /\ pc[t] = "cas"
  BY DEF AdvanceScan, AdvanceCas, slotVars

\* A step after which the slot above F is completed leaves a thread that advances F.
LEMMA LowestStep ==
    ASSUME TInv, [Next]_vars, frontier' + 1 \in completed'
    PROVE  \E t \in Threads : Advancing(t)'
  <1>0. IInv /\ Tickets
    BY DEF TInv
  <1>1. CASE frontier' + 1 \notin completed
    BY <1>1, NewBitAdvances, Zenon
  <1>2. CASE frontier' + 1 \in completed /\ frontier' = frontier
    <2>1. PICK u \in Threads : Advancing(u)
      BY <1>2 DEF TInv, SomeoneAdvances
    <2>2. ~(AdvanceScan(u) /\ pc'[u] = "signal")
      BY <1>0, <1>2, ScanFindsTight, Zenon
    <2>3. ~(AdvanceCas(u) /\ frontier = seen[u] /\ frontier' = target[u])
      BY <1>0, <1>2, AdvanceFrame, SlotBounds, TrackerAssumption DEF IInv, TypeOK, CasCovered
    <2> QED BY <1>0, <2>1, <2>2, <2>3, AdvancerStays, Zenon
  <1>3. CASE frontier' + 1 \in completed /\ frontier' # frontier
    <2>1. PICK t \in Threads : AdvanceCas(t) /\ frontier = seen[t] /\ frontier' = target[t]
      BY <1>0, <1>3, FrontierMoves
    <2>2. PICK u \in Threads : u # t /\ Advancing(u)
      BY <1>3, <2>1, AdvanceFrame, Zenon DEF TInv, SomeoneAdvances
    <2>3. pc'[u] = pc[u]
      BY <1>0, <2>1, <2>2 DEF AdvanceCas, Goto, IInv, TypeOK
    <2> QED BY <2>2, <2>3 DEF Advancing
  <1> QED BY <1>1, <1>2, <1>3

\* The same for a compare-exchange under way: it is not the last if a completed slot lies beyond it.
LEMMA BeyondStep ==
    ASSUME TInv, [Next]_vars, NEW t \in Threads, pc'[t] = "cas"
    PROVE  /\ seen'[t] <= frontier'
           /\ frontier' = seen'[t] /\ target'[t] + 1 \in completed' =>
                \E u \in Threads : u # t /\ Advancing(u)'
  <1>0. IInv /\ Tickets
    BY DEF TInv
  <1>1. CASE AdvanceScan(t)
    <2>1. seen'[t] = frontier /\ target'[t] + 1 \notin completed
      BY <1>0, <1>1, ScanFindsEnd, Zenon
    <2>2. completed' = completed /\ frontier' = frontier
      BY <1>1, AdvanceFrame, Zenon
    <2>3. frontier \in Int
      BY <1>0, SlotBounds, Zenon DEF IInv, TypeOK
    <2> QED BY <2>1, <2>2, <2>3
  <1>2. CASE pc[t] = "cas" /\ seen'[t] = seen[t] /\ target'[t] = target[t]
    <2>0. /\ seen[t] \in Int /\ target[t] \in Int /\ frontier \in Int /\ frontier' \in Int
          /\ seen[t] <= frontier /\ seen[t] < target[t]
      <3>1. TypeOK'
        BY <1>0, TypeStep, Zenon
      <3> QED BY <1>0, <1>2, <3>1, SlotBounds, Zenon DEF TInv, SomeoneAdvances, IInv, TypeOK, CasCovered
    <2>1. frontier' >= frontier
      <3>1. \/ frontier' = frontier
            \/ \E u \in Threads : AdvanceCas(u) /\ frontier = seen[u] /\ frontier' = target[u]
        BY <1>0, FrontierMoves, Zenon
      <3>2. \A u \in Threads : AdvanceCas(u) => seen[u] < target[u]
        BY <1>0, AdvanceFrame, Zenon DEF IInv, CasCovered
      <3>3. frontier = frontier' \/ frontier < frontier'
        BY <3>1, <3>2, Zenon
      <3> QED BY <2>0, <3>3, IntOrder, Zenon
    <2>2. ASSUME frontier' = seen[t], target[t] + 1 \in completed'
          PROVE  \E u \in Threads : u # t /\ Advancing(u)'
      <3>1. frontier' = frontier /\ frontier = seen[t]
        BY <2>0, <2>1, <2>2
      <3>2. CASE target[t] + 1 \notin completed
        BY <1>2, <2>2, <3>2, NewBitAdvances, Zenon
      <3>3. CASE target[t] + 1 \in completed
        <4>1. PICK u \in Threads : u # t /\ Advancing(u)
          BY <1>2, <3>1, <3>3, Zenon DEF TInv, SomeoneAdvances
        <4>2. frontier + 1 \in completed
          <5>1. frontier + 1 \in Slots
            BY <1>0, <2>0, <3>1, SlotBounds, TrackerAssumption DEF IInv, TypeOK
          <5> QED BY <1>0, <1>2, <2>0, <3>1, <5>1 DEF IInv, CasCovered
        <4>3. ~(AdvanceScan(u) /\ pc'[u] = "signal")
          BY <1>0, <4>2, ScanFindsTight, Zenon
        <4>4. ~(AdvanceCas(u) /\ frontier = seen[u] /\ frontier' = target[u])
          BY <1>0, <2>0, <3>1, AdvanceFrame, SlotBounds DEF IInv, TypeOK, CasCovered
        <4> QED BY <1>0, <4>1, <4>3, <4>4, AdvancerStays, Zenon
      <3> QED BY <3>2, <3>3, Zenon
    <2> QED BY <1>2, <2>0, <2>1, <2>2
  <1> QED BY <1>0, <1>1, <1>2, CasEntered, Zenon

\* The invariant behind FrontierTight holds in every reachable state, with no hypothesis on the callers.
LEMMA TightInductive == Spec => []TInv
  <1>1. Init => TInv
    BY InitIInv, InitSInv, SlotBounds
       DEF SInv, Init, TInv, BitFollows, SomeoneAdvances, BitDue, Advancing, is_resolved
  <1>2. TInv /\ [Next]_vars => TInv'
    <2> SUFFICES ASSUME TInv, [Next]_vars PROVE TInv'
      OBVIOUS
    <2>1. SomeoneAdvances'
      BY LowestStep, BeyondStep DEF SomeoneAdvances
    <2>2. IInv' /\ Tickets' /\ BitFollows'
      BY IInvStep, TicketsStep, FollowsStep DEF TInv
    <2> QED BY <2>1, <2>2 DEF TInv
  <1> QED BY <1>1, <1>2, PTL DEF Spec

\* advance_frontier(): no lost compare-exchange, and no update() that sets a bit without scanning,
\* leaves F short of the completed prefix, also when updates of one slot interleave.
THEOREM NoAdvanceLost == Spec => []FrontierTight
  <1>1. TInv => FrontierTight
    BY DEF TInv, SomeoneAdvances, FrontierTight, Quiescent, Advancing
  <1> QED BY <1>1, TightInductive, PTL
=============================================================================
