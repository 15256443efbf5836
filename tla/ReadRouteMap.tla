---------------------------- MODULE ReadRouteMap ----------------------------
(***************************************************************************)
(* The client's router (class read_route_map): which member may serve a    *)
(* read.  Write legs report completions on any thread, resolution rounds   *)
(* report filled slots, replies report commit watermarks, and ring threads *)
(* fold the overlay into the per-member Missing maps and test eligibility. *)
(*                                                                         *)
(* The tracker is the abstract one: a slot is unresolved, acked or empty,  *)
(* and F is the resolved prefix.  `has` is the truth the router has to     *)
(* track: the slots each member really holds.                              *)
(***************************************************************************)
EXTENDS Integers, FiniteSets, FiniteSetsExt

CONSTANTS
    Members, Blocks,
    Rings,      \* reads in progress: coroutines on the queue threads
    OneQueue,   \* one queue thread: code between two suspension points is not interleaved
    L,          \* login dLSN
    MaxSlots,   \* bound: writes of the session
    MaxBehind,  \* bound: members login found behind L (at most a minority)
    MaxMissed,  \* bound: legs that may have failed
    MaxLanded,  \* bound: slots held by members the router does not credit with them
    MaxHops,    \* bound: members a read is issued to
    MaxRounds,  \* bound: slots a resolution round decides
    NoRing

Slots  == (L + 1)..(L + MaxSlots)
Quorum == Cardinality(Members) \div 2 + 1
Unsynced == -1                       \* k_unsynced
Never == L + MaxSlots + 1            \* kNever: above every dLSN

ASSUME RouteAssumption ==
    /\ {L, MaxSlots, MaxBehind, MaxMissed, MaxLanded, MaxHops, MaxRounds} \subseteq Nat
    /\ IsFiniteSet(Members) /\ Members # {} /\ Blocks # {}
    /\ MaxBehind <= Cardinality(Members) - Quorum
    /\ NoRing \notin Rings /\ OneQueue \in BOOLEAN

VARIABLES
    next, range,        \* the next dLSN, and the blocks each issued write covers
    res,                \* the tracker's resolution of each slot
    has, base, tomb,    \* truth: slots a member holds; it holds everything <= L; slots Emptied on it
    holders, legs,      \* route_slot.holders and .completed
    bit, verdict,       \* overlay completed bits; slots durable by a verdict
    pending, hint,      \* pending_ and pending_hint_
    miss, synced,       \* miss_ and synced_
    folded, foldMu,     \* folded_; who holds fold_mu_
    rd, rpc,            \* a ring's read in progress, and where it is
    leg                 \* a resolution leg between its check of a slot and its resolve

truthVars == <<next, range, res, has, base, tomb>>
slotVars  == <<holders, legs, bit, verdict>>
mapVars   == <<pending, hint, miss, synced, folded, foldMu>>
ringVars  == <<rd, rpc>>
vars == <<truthVars, slotVars, mapVars, ringVars, leg>>

NoMiss == L
NoLeg  == [slot |-> L, leader |-> "none", step |-> "idle"]
NoRead == [blocks |-> {}, need |-> {}, f |-> L, hmax |-> L, batch |-> {}, cand |-> "none", tried |-> {}]

Issued == (L + 1)..(next - 1)
Prefix(S) == Max({x \in {L} \cup Slots : (L + 1)..x \subseteq S})
F  == Prefix({d \in Slots : res[d] # "none"})
Ha == Max({L} \cup {d \in Slots : res[d] = "acked"})

Init ==
    /\ next = L + 1 /\ range = [d \in Slots |-> {}]
    /\ res = [d \in Slots |-> "none"]
    /\ has = [i \in Members |-> {}] /\ base \in [Members -> BOOLEAN]
    /\ tomb = [i \in Members |-> {}]
    /\ Cardinality({i \in Members : ~base[i]}) <= MaxBehind
    /\ holders = [d \in Slots |-> {}] /\ legs = [d \in Slots |-> {}]
    /\ bit = {} /\ verdict = {}
    /\ pending = {} /\ hint = Never
    /\ miss = [i \in Members |-> [b \in Blocks |-> NoMiss]]
    /\ synced = [i \in Members |-> IF base[i] THEN L ELSE Unsynced]   \* from login's probes
    /\ folded = L /\ foldMu = NoRing
    /\ rd = [r \in Rings |-> NoRead] /\ rpc = [r \in Rings |-> "idle"]
    /\ leg = NoLeg
-----------------------------------------------------------------------------
\* With one queue thread nothing else runs while a read is between two co_awaits, a resolution leg
\* between its check and its resolve, or a last completer inside its callback.
Parked(r) == rpc[r] \in {"idle", "serve"}
Completing(d) == d \in Issued /\ legs[d] = Members /\ d \notin bit
RingsParked == OneQueue => \A r \in Rings : Parked(r)
LegParked   == OneQueue => leg.step = "idle"
NoneCompleting == OneQueue => \A d \in Slots : ~Completing(d)
Scheduled == RingsParked /\ LegParked /\ NoneCompleting
RingScheduled(r) == (OneQueue => \A q \in Rings \ {r} : Parked(q)) /\ LegParked /\ NoneCompleting

\* write(): reserve the dLSN, create() the overlay slot, broadcast.
Create ==
    /\ Scheduled
    /\ next \in Slots
    /\ \E bs \in (SUBSET Blocks) \ {{}} : range' = [range EXCEPT ![next] = bs]
    /\ next' = next + 1
    /\ UNCHANGED <<res, has, base, tomb, slotVars, mapVars, ringVars, leg>>

\* A non-universal slot is handed to the fold, and the hint lowered to it.
Handoff(d, held) ==
    /\ pending' = pending \cup {[dlsn |-> d, held |-> held, blocks |-> range[d]]}
    /\ hint' = Min({hint, d})

Missed == {x \in Slots \X Members : x[2] \in legs[x[1]] \ holders[x[1]]}
Landed == {x \in Slots \X Members : x[1] \in has[x[2]] /\ x[2] \notin holders[x[1]]}

\* One leg of the write finished on member i: record_completion(d, i, acked).
RecordCompletion(d, i, acked) ==
    /\ Scheduled
    /\ d \in Issued /\ i \notin legs[d]
    /\ IF acked THEN d \notin tomb[i] ELSE d \in tomb[i] \/ Cardinality(Missed) < MaxMissed
    /\ has' = IF acked THEN [has EXCEPT ![i] = @ \cup {d}] ELSE has
    /\ holders' = IF acked THEN [holders EXCEPT ![d] = @ \cup {i}] ELSE holders
    /\ legs' = [legs EXCEPT ![d] = @ \cup {i}]
    /\ IF legs'[d] = Members /\ Cardinality(holders'[d]) >= Quorum /\ holders'[d] # Members
       THEN Handoff(d, holders'[d])
       ELSE UNCHANGED <<pending, hint>>
    /\ UNCHANGED <<next, range, res, base, tomb, bit, verdict, miss, synced, folded, foldMu, ringVars, leg>>

\* The last completer's callback returned true: StreamTracker sets the completed bit.
SetBit(d) ==
    /\ RingsParked /\ LegParked
    /\ d \in Issued /\ legs[d] = Members /\ d \notin bit
    /\ bit' = bit \cup {d}
    /\ UNCHANGED <<truthVars, holders, legs, verdict, mapVars, ringVars, leg>>

\* write() after the latch: quorum-acked, or every leg refused and provably nobody holds the slot.
WriteResolved(d) ==
    /\ Scheduled
    /\ d \in Issued /\ res[d] = "none"
    /\ \/ /\ Cardinality(holders[d]) >= Quorum
          /\ res' = [res EXCEPT ![d] = "acked"]
       \/ /\ legs[d] = Members /\ \A i \in Members : d \notin has[i]
          /\ res' = [res EXCEPT ![d] = "empty"]
    /\ UNCHANGED <<next, range, has, base, tomb, slotVars, mapVars, ringVars, leg>>

\* External: a delayed write lands, or server-side resync fills a member's hole.
Land(d, i) ==
    /\ Scheduled
    /\ d \in Issued /\ d \notin tomb[i] /\ res[d] # "empty" /\ d \notin has[i]
    /\ i \in legs[d] /\ Cardinality(Landed) < MaxLanded
    /\ has' = [has EXCEPT ![i] = @ \cup {d}]
    /\ UNCHANGED <<next, range, res, base, tomb, slotVars, mapVars, ringVars, leg>>

-----------------------------------------------------------------------------
\* A round over slot d, led by member i.  It Empties a slot nobody in the live quorum holds and fills
\* any other; the leg then checks that we still have it unresolved, tells the router, and resolves it.
Decided == verdict \cup UNION {tomb[i] : i \in Members}

RoundEmpty(d, live) ==
    /\ Scheduled
    /\ Cardinality(Decided) < MaxRounds
    /\ d \in Issued /\ res[d] = "none"
    /\ Cardinality(live) >= Quorum /\ \A i \in live : d \notin has[i]
    /\ tomb' = [i \in Members |-> IF i \in live THEN tomb[i] \cup {d} ELSE tomb[i]]
    /\ res' = [res EXCEPT ![d] = "empty"]
    /\ UNCHANGED <<next, range, has, base, slotVars, mapVars, ringVars, leg>>

RetireCheck(d, i) ==
    /\ Scheduled
    /\ leg.step = "idle" /\ Cardinality(Decided) < MaxRounds
    /\ d \in Issued /\ res[d] = "none" /\ \E j \in Members : d \in has[j]
    /\ has' = [has EXCEPT ![i] = @ \cup {d}]
    /\ leg' = [slot |-> d, leader |-> i, step |-> "note"]
    /\ UNCHANGED <<next, range, res, base, tomb, slotVars, mapVars, ringVars>>

note_filled ==
    /\ RingsParked /\ NoneCompleting
    /\ leg.step = "note"
    /\ LET d == leg.slot
           held == holders[d] \cup {leg.leader}
       IN  /\ holders' = [holders EXCEPT ![d] = held]
           /\ verdict' = verdict \cup {d}
           /\ IF held # Members THEN Handoff(d, held) ELSE UNCHANGED <<pending, hint>>
    /\ leg' = [leg EXCEPT !.step = "resolve"]
    /\ UNCHANGED <<truthVars, legs, bit, miss, synced, folded, foldMu, ringVars>>

RetireResolve ==
    /\ RingsParked /\ NoneCompleting
    /\ leg.step = "resolve"
    /\ res' = [res EXCEPT ![leg.slot] = IF res[leg.slot] = "none" THEN "acked" ELSE res[leg.slot]]
    /\ leg' = NoLeg
    /\ UNCHANGED <<next, range, has, base, tomb, slotVars, mapVars, ringVars>>
-----------------------------------------------------------------------------
\* A reply carries member i's commit_lsn: the end of the prefix it has applied.  A delayed reply
\* carries an older one, which erases less of the Missing map.
AppliedUpto(i) == IF base[i] THEN Prefix(has[i] \cup tomb[i]) ELSE Unsynced

advance_synced(i) ==
    /\ Scheduled
    /\ foldMu = NoRing
    /\ AppliedUpto(i) > synced[i]
    /\ synced' = [synced EXCEPT ![i] = AppliedUpto(i)]
    /\ miss' = [miss EXCEPT ![i] = [b \in Blocks |->
                   IF miss[i][b] <= AppliedUpto(i) THEN NoMiss ELSE miss[i][b]]]
    /\ UNCHANGED <<truthVars, slotVars, pending, hint, folded, foldMu, ringVars, leg>>

\* Mutant: the best member's watermark instead of the worst one's.
all_committed_Max == Max({synced[i] : i \in Members})

all_committed == Min({synced[i] : i \in Members})
-----------------------------------------------------------------------------
RingGoto(r, label) == rpc' = [rpc EXCEPT ![r] = label]
SetRead(r, read) == rd' = [rd EXCEPT ![r] = read]

\* plan_read() of a range.  Block b's horizon ducks under the lowest unresolved slot above the last
\* acked one; `need` is what the read must then return: the newest acked slot of each block.
Covers(d, b) == d \in Issued /\ b \in range[d]
Newest(b, h) == Max({L} \cup {d \in Slots : d <= h /\ Covers(d, b) /\ res[d] = "acked"})
Horizon(b) ==
    LET H == Max({F, Ha})
        above == {u \in Slots : Newest(b, H) < u /\ u <= H /\ Covers(u, b) /\ res[u] = "none"}
    IN  IF above = {} THEN H ELSE Min(above) - 1

PlanRead(r) ==
    /\ RingScheduled(r)
    /\ rpc[r] = "idle"
    /\ \E bs \in (SUBSET Blocks) \ {{}} :
         SetRead(r, [rd[r] EXCEPT !.blocks = bs,
                                  !.need = {Newest(b, Horizon(b)) : b \in bs} \ {L},
                                  !.hmax = Max({Horizon(b) : b \in bs})])
    /\ RingGoto(r, "planned")
    /\ UNCHANGED <<truthVars, slotVars, mapVars, leg>>

\* The frontier is loaded once, after the plan: fold_to's argument, and the floor of Hmax.
LoadFrontier(r) ==
    /\ RingScheduled(r)
    /\ rpc[r] = "planned"
    /\ SetRead(r, [rd[r] EXCEPT !.f = F, !.hmax = Max({rd[r].hmax, F})])
    /\ RingGoto(r, "fold")
    /\ UNCHANGED <<truthVars, slotVars, mapVars, leg>>

\* fold_to(f) advances folded_ over the slots <= f whose legs all completed.
FoldTarget(f) == Min({f, Prefix({d \in Slots : d <= folded \/ d \in bit})})

FoldNothing(r) ==
    /\ RingScheduled(r)
    /\ rpc[r] = "fold" /\ FoldTarget(rd[r].f) <= folded
    /\ RingGoto(r, "pick")
    /\ UNCHANGED <<truthVars, slotVars, mapVars, rd, leg>>

\* No pending miss at or below the target: advance without a lock.
FoldFast(r) ==
    /\ RingScheduled(r)
    /\ rpc[r] = "fold" /\ FoldTarget(rd[r].f) > folded
    /\ hint > FoldTarget(rd[r].f)
    /\ folded' = FoldTarget(rd[r].f)
    /\ RingGoto(r, "pick")
    /\ UNCHANGED <<truthVars, slotVars, pending, hint, miss, synced, foldMu, rd, leg>>

\* The fault path, under fold_mu_: take the pending misses up to the target and raise the hint...
FoldDrain(r) ==
    /\ RingScheduled(r)
    /\ rpc[r] = "fold" /\ FoldTarget(rd[r].f) > folded
    /\ hint <= FoldTarget(rd[r].f)
    /\ foldMu = NoRing
    /\ LET batch == {e \in pending : e.dlsn <= FoldTarget(rd[r].f)}
       IN  /\ pending' = pending \ batch
           /\ hint' = Min({Never} \cup {e.dlsn : e \in pending \ batch})
           /\ SetRead(r, [rd[r] EXCEPT !.batch = batch, !.f = FoldTarget(rd[r].f)])
    /\ foldMu' = r
    /\ RingGoto(r, "apply")
    /\ UNCHANGED <<truthVars, slotVars, miss, synced, folded, leg>>

\* Mutant: applied in descending order, the oldest entry decides.
LastOver_Descending(batch, b) ==
    LET over == {e \in batch : b \in e.blocks}
    IN  {e \in over : \A x \in over : x.dlsn >= e.dlsn}

\* ...apply them in ascending order (the last entry covering a block decides that block; two entries
\* of one dLSN sort either way), then advance folded_.
LastOver(batch, b) ==
    LET over == {e \in batch : b \in e.blocks}
    IN  {e \in over : \A x \in over : x.dlsn <= e.dlsn}

FoldMiss(batch, b, old) ==
    IF LastOver(batch, b) = {} THEN {old}
    ELSE {[i \in Members |-> IF i \in e.held THEN NoMiss ELSE e.dlsn] : e \in LastOver(batch, b)}

FoldApply(r) ==
    /\ RingScheduled(r)
    /\ rpc[r] = "apply"
    /\ \E m \in [Blocks -> UNION {FoldMiss(rd[r].batch, b, [i \in Members |-> miss[i][b]]) : b \in Blocks}] :
         /\ \A b \in Blocks : m[b] \in FoldMiss(rd[r].batch, b, [i \in Members |-> miss[i][b]])
         /\ miss' = [i \in Members |-> [b \in Blocks |-> m[b][i]]]
    /\ folded' = Max({folded, rd[r].f})
    /\ foldMu' = NoRing
    /\ SetRead(r, [rd[r] EXCEPT !.batch = {}])
    /\ RingGoto(r, "pick")
    /\ UNCHANGED <<truthVars, slotVars, pending, hint, synced, leg>>
-----------------------------------------------------------------------------
\* Mutant: the Missing map is not consulted.
EligibleMap_NoMap(r, i) ==
    /\ RingScheduled(r)
    /\ rpc[r] = "pick"
    /\ i \notin rd[r].tried /\ synced[i] >= L
    /\ SetRead(r, [rd[r] EXCEPT !.cand = i])
    /\ RingGoto(r, "overlay")
    /\ UNCHANGED <<truthVars, slotVars, mapVars, leg>>

\* eligible(i, range, Hmax): (a) synced and (b) the Missing map, then (c) folded_ and the overlay.
\* Members are tested in turn from a rotating start, so any member may be the first one tested.
HoldsBelow(i, bs) == synced[i] >= L /\ \A b \in bs : miss[i][b] = NoMiss

EligibleMap(r, i) ==
    /\ RingScheduled(r)
    /\ rpc[r] = "pick"
    /\ i \notin rd[r].tried /\ HoldsBelow(i, rd[r].blocks)
    /\ SetRead(r, [rd[r] EXCEPT !.cand = i])
    /\ RingGoto(r, "overlay")
    /\ UNCHANGED <<truthVars, slotVars, mapVars, leg>>

\* Mutant: a verdict does not make a slot required.
Durable_NoVerdict(d) == Cardinality(holders[d]) >= Quorum

Durable(d) == Cardinality(holders[d]) >= Quorum \/ d \in verdict

OverlayHolds(i, bs, hmax) ==
    \A d \in Issued : folded < d /\ d <= hmax /\ Durable(d) /\ range[d] \cap bs # {} => i \in holders[d]

EligibleOverlay(r) ==
    /\ RingScheduled(r)
    /\ rpc[r] = "overlay"
    /\ \/ /\ OverlayHolds(rd[r].cand, rd[r].blocks, rd[r].hmax)
          /\ RingGoto(r, "serve")
          /\ SetRead(r, [rd[r] EXCEPT !.tried = rd[r].tried \cup {rd[r].cand}, !.f = L])
       \/ /\ ~OverlayHolds(rd[r].cand, rd[r].blocks, rd[r].hmax)
          /\ RingGoto(r, "pick")
          /\ SetRead(r, [rd[r] EXCEPT !.cand = "none"])
    /\ UNCHANGED <<truthVars, slotVars, mapVars, leg>>

\* The member is unreachable and the read fails over to the next one.
FailOver(r) ==
    /\ RingScheduled(r)
    /\ rpc[r] = "serve" /\ Cardinality(rd[r].tried) < MaxHops
    /\ RingGoto(r, "pick")
    /\ UNCHANGED <<truthVars, slotVars, mapVars, rd, leg>>

\* It answered, or no other member is eligible.
Done(r) ==
    /\ RingScheduled(r)
    /\ \/ rpc[r] = "serve"
       \/ /\ rpc[r] = "pick"
          /\ \A i \in Members \ rd[r].tried :
               ~(HoldsBelow(i, rd[r].blocks) /\ OverlayHolds(i, rd[r].blocks, rd[r].hmax))
    /\ RingGoto(r, "idle")
    /\ SetRead(r, NoRead)
    /\ UNCHANGED <<truthVars, slotVars, mapVars, leg>>
-----------------------------------------------------------------------------
Next ==
    \/ Create
    \/ \E d \in Slots, i \in Members : \E acked \in BOOLEAN : RecordCompletion(d, i, acked)
    \/ \E d \in Slots : SetBit(d) \/ WriteResolved(d)
    \/ \E d \in Slots, live \in SUBSET Members : RoundEmpty(d, live)
    \/ \E d \in Slots, i \in Members : Land(d, i) \/ RetireCheck(d, i)
    \/ note_filled \/ RetireResolve
    \/ \E i \in Members : advance_synced(i)
    \/ \E r \in Rings :
         \/ PlanRead(r) \/ LoadFrontier(r) \/ FoldNothing(r) \/ FoldFast(r) \/ FoldDrain(r)
         \/ FoldApply(r) \/ EligibleOverlay(r) \/ FailOver(r) \/ Done(r)
         \/ \E i \in Members : EligibleMap(r, i)

Spec == Init /\ [][Next]_vars
-----------------------------------------------------------------------------
\* Never a silent stale read: a member the router finds eligible holds the whole prefix <= L and
\* the newest acked write of every block of the range.
Fresh(r) == base[rd[r].cand] /\ rd[r].need \subseteq has[rd[r].cand]
EligibleIsFresh == \A r \in Rings : rpc[r] = "serve" => Fresh(r)

\* The same for the member a read goes to first, chosen without a suspension since the plan.
FirstPickIsFresh == \A r \in Rings : rpc[r] = "serve" /\ Cardinality(rd[r].tried) = 1 => Fresh(r)

\* The reclaim floor stamped into every header never passes a slot some member has not applied.
ReclaimFloorApplied == \A i \in Members : all_committed <= AppliedUpto(i)

\* No dLSN is ever in neither tier: once folded_ has passed the newest acked write of a block, a
\* member that does not hold it is marked missing there.
InSomeTier ==
    \A b \in Blocks, i \in Members :
        Newest(b, folded) > L /\ Newest(b, folded) \notin has[i] => miss[i][b] # NoMiss

=============================================================================
