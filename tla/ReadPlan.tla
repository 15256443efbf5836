------------------------------ MODULE ReadPlan ------------------------------
(***************************************************************************)
(* Planning one read (dlsn_tracker::compute and split): which horizon each *)
(* block of the range may be read at.  The planner holds no lock: it loads *)
(* F and Ha, hops over the unresolved slots in between and walks the       *)
(* window slot by slot, while writes are reserved, resolve and advance F   *)
(* under it.  A replica returns, per block, its highest slot <= horizon.   *)
(***************************************************************************)
EXTENDS Integers, Sequences, FiniteSets, FiniteSetsExt

CONSTANTS
    NumBlocks,   \* the read covers blocks 1..NumBlocks
    MaxSlots,    \* bound: writes of the session (dLSNs 1..MaxSlots, login at 0)
    ScanCap,     \* scan_cap_
    MaxBlocks,   \* k_max_blocks
    MaxSegments  \* k_max_segments

ASSUME PlanAssumption ==
    /\ {NumBlocks, MaxSlots, MaxSegments} \subseteq Nat \ {0}
    /\ {ScanCap, MaxBlocks} \subseteq Nat

Blocks == 1..NumBlocks
Slots  == 1..MaxSlots
\* Outside is a block of the volume the read does not cover.
Outside == NumBlocks + 1
Ranges == ({a..b : a \in Blocks, b \in Blocks} \ {{}}) \cup {{Outside}}
Outcomes == {"in_flight", "acked", "failed", "empty"}

VARIABLES
    range,     \* the blocks slot d writes
    stage,     \* how far the tracker got with slot d
    outcome,   \* dlsn_slot.outcome
    F, Ha,     \* frontier_ and highest_acked_
    rpc,       \* where compute() is
    rd,        \* its locals
    plan,      \* what it returned
    before     \* writes already acknowledged when it started

slotVars == <<range, stage, outcome, F, Ha>>
vars == <<slotVars, rpc, rd, plan, before>>

\* A slot is reserved by fetch_add, active once created, and its outcome is stored before its
\* completed bit, the bit before Ha, and Ha before the write returns.
Active(d)    == stage[d] \in {"active", "stored", "bit", "raised"}
Completed(d) == stage[d] \in {"bit", "raised"}
NoPlan  == [kind |-> "none", segs |-> <<>>]
NoLocals == [F |-> 0, Ha |-> 0, h |-> 0, umin |-> 0, failed |-> FALSE, gap |-> FALSE,
             ustar |-> [b \in Blocks |-> 0]]

Init ==
    /\ range = [d \in Slots |-> {}]
    /\ stage = [d \in Slots |-> "none"]
    /\ outcome = [d \in Slots |-> "in_flight"]
    /\ F = 0 /\ Ha = 0
    /\ rpc = "idle" /\ rd = NoLocals /\ plan = NoPlan /\ before = {}

Stage(d, from, to) == stage[d] = from /\ stage' = [stage EXCEPT ![d] = to]
ReaderUnchanged == UNCHANGED <<rpc, rd, plan, before>>
-----------------------------------------------------------------------------
Reserve(d) ==
    /\ Stage(d, "none", "reserved")
    /\ \A e \in Slots : e < d => stage[e] # "none"
    /\ UNCHANGED <<range, outcome, F, Ha>> /\ ReaderUnchanged

Create(d) ==
    /\ Stage(d, "reserved", "active")
    /\ \E bs \in Ranges : range' = [range EXCEPT ![d] = bs]
    /\ UNCHANGED <<outcome, F, Ha>> /\ ReaderUnchanged

StoreOutcome(d) ==
    /\ stage[d] = "active"
    /\ \E o \in Outcomes \ {"in_flight"} :
         /\ o = "failed" => outcome[d] = "in_flight"
         /\ outcome' = [outcome EXCEPT ![d] = o]
         /\ stage' = [stage EXCEPT ![d] = IF o = "failed" THEN "active" ELSE "stored"]
    /\ UNCHANGED <<range, F, Ha>> /\ ReaderUnchanged

\* The completed bit; only an acked slot goes on to raise Ha.
SetBit(d) ==
    /\ Stage(d, "stored", IF outcome[d] = "acked" THEN "bit" ELSE "raised")
    /\ UNCHANGED <<range, outcome, F, Ha>> /\ ReaderUnchanged

Raise(d) ==
    /\ Stage(d, "bit", "raised")
    /\ Ha' = Max({Ha, d})
    /\ UNCHANGED <<range, outcome, F>> /\ ReaderUnchanged

AdvanceF ==
    /\ F + 1 \in Slots /\ Completed(F + 1)
    /\ F' = F + 1
    /\ UNCHANGED <<range, stage, outcome, Ha>> /\ ReaderUnchanged
-----------------------------------------------------------------------------
Goto(label) == rpc' = label
Whole(H) == [kind |-> "segments", segs |-> <<[from |-> 1, len |-> NumBlocks, H |-> H]>>]
fenced(failed) == [kind |-> IF failed THEN "degraded" ELSE "stall", segs |-> <<>>]
Return(p) == plan' = p /\ rd' = NoLocals /\ rpc' = "planned"

\* compute(): load F, then Ha.
LoadF ==
    /\ rpc = "idle"
    /\ before' = {d \in Slots : stage[d] = "raised" /\ outcome[d] = "acked"}
    /\ rd' = [rd EXCEPT !.F = F]
    /\ Goto("loadHa")
    /\ UNCHANGED <<slotVars, plan>>

\* Mutant: reads are always planned at the frontier.
LoadHa_AlwaysF ==
    /\ rpc = "loadHa"
    /\ Return(Whole(rd.F))
    /\ UNCHANGED <<slotVars, before>>

LoadHa ==
    /\ rpc = "loadHa"
    /\ \/ /\ rd.F >= Ha
          /\ Return(Whole(rd.F))
       \/ /\ rd.F < Ha
          /\ rd' = [rd EXCEPT !.Ha = Ha, !.h = rd.F + 1]
          /\ Goto("hop")
          /\ UNCHANGED plan
    /\ UNCHANGED <<slotVars, before>>

\* One hop: the first non-completed slot at or above h.
NextUnresolved(h) == Min({u \in h..(MaxSlots + 1) : u \in Slots => ~Completed(u)})

Hits(u) == ~Active(u) \/ range[u] \cap Blocks # {}
Hop ==
    /\ rpc = "hop"
    /\ LET u == NextUnresolved(rd.h)
       IN  /\ u <= rd.Ha
           /\ rd' = IF Hits(u)
                    THEN [rd EXCEPT !.umin = IF rd.umin = 0 THEN u ELSE rd.umin,
                                    !.gap = rd.gap \/ ~Active(u),
                                    !.failed = rd.failed \/ (Active(u) /\ outcome[u] = "failed"),
                                    !.h = u + 1]
                    ELSE [rd EXCEPT !.h = u + 1]
    /\ UNCHANGED <<slotVars, rpc, plan, before>>

\* Nothing left to hop over: one segment, a fence, or the per-block walk from umin.
EndHop ==
    /\ rpc = "hop" /\ NextUnresolved(rd.h) > rd.Ha
    /\ \/ rd.umin = 0 /\ Return(Whole(rd.Ha))
       \/ /\ rd.umin # 0
          /\ rd.gap \/ rd.Ha - rd.umin > ScanCap \/ NumBlocks > MaxBlocks
          /\ Return(fenced(rd.failed))
       \/ /\ rd.umin # 0
          /\ ~rd.gap /\ rd.Ha - rd.umin <= ScanCap /\ NumBlocks <= MaxBlocks
          /\ rd' = [rd EXCEPT !.h = rd.umin]
          /\ Goto("split") /\ UNCHANGED plan
    /\ UNCHANGED <<slotVars, before>>

\* Mutant: an empty slot supersedes what is beneath it, as an acked one does.
Ustar_EmptySupersedes(d, old) ==
    [b \in Blocks |->
        IF b \notin range[d] THEN old[b]
        ELSE IF outcome[d] \in {"acked", "empty"} THEN 0
        ELSE IF old[b] = 0 THEN d ELSE old[b]]

\* split(): an acked slot clears the block, an unresolved one claims it, an empty one does neither.
Ustar(d, old) ==
    [b \in Blocks |->
        IF outcome[d] = "empty" \/ b \notin range[d] THEN old[b]
        ELSE IF outcome[d] = "acked" THEN 0
        ELSE IF old[b] = 0 THEN d ELSE old[b]]

SplitSlot ==
    /\ rpc = "split" /\ rd.h <= rd.Ha
    /\ rd' = [rd EXCEPT !.h = rd.h + 1,
                         !.ustar = IF Active(rd.h) THEN Ustar(rd.h, rd.ustar) ELSE rd.ustar]
    /\ UNCHANGED <<slotVars, rpc, plan, before>>

\* Blocks with equal horizons merge into segments, in order; too many segments fence the read.
HorizonOf(b) == IF rd.ustar[b] = 0 THEN rd.Ha ELSE rd.ustar[b] - 1
Starts == {b \in Blocks : b = 1 \/ HorizonOf(b) # HorizonOf(b - 1)}
\* Mutant: a segment runs one block into the next.
Segment_Overlap(a) ==
    [from |-> a, H |-> HorizonOf(a),
     len |-> Min({b \in Starts \cup {NumBlocks + 1} : b > a}) - a + 1]

Segment(a) ==
    [from |-> a, H |-> HorizonOf(a),
     len |-> Min({b \in Starts \cup {NumBlocks + 1} : b > a}) - a]
\* Segments come in the order of their first blocks: a start's place is the number of starts up to it.
Place(a) == Cardinality({x \in Starts : x <= a})
StartAt(k) == CHOOSE a \in Starts : Place(a) = k
Segments == [k \in 1..Cardinality(Starts) |-> Segment(StartAt(k))]

EndSplit ==
    /\ rpc = "split" /\ rd.h > rd.Ha
    /\ Return(IF Len(Segments) > MaxSegments THEN fenced(rd.failed)
              ELSE [kind |-> "segments", segs |-> Segments])
    /\ UNCHANGED <<slotVars, before>>
-----------------------------------------------------------------------------
\* The read is over: forget the plan, as plan_read does when it plans again.
Forget ==
    /\ rpc = "planned"
    /\ Goto("idle") /\ plan' = NoPlan /\ before' = {}
    /\ UNCHANGED <<slotVars, rd>>

Next ==
    \/ \E d \in Slots : Reserve(d) \/ Create(d) \/ StoreOutcome(d) \/ SetBit(d) \/ Raise(d)
    \/ AdvanceF
    \/ LoadF \/ LoadHa \/ Hop \/ EndHop \/ SplitSlot \/ EndSplit \/ Forget

Spec == Init /\ [][Next]_vars
-----------------------------------------------------------------------------
\* The horizon the plan gives block b.
SegOf(b) == CHOOSE k \in DOMAIN plan.segs : plan.segs[k].from <= b /\ b < plan.segs[k].from + plan.segs[k].len
PlannedH(b) == plan.segs[SegOf(b)].H

\* The segments tile the range in order: each block lies in exactly one, and they number at most
\* k_max_segments.
SegmentsTile ==
    plan.kind = "segments" =>
        /\ Len(plan.segs) \in 1..MaxSegments
        /\ plan.segs[1].from = 1
        /\ \A k \in DOMAIN plan.segs :
             plan.segs[k].len > 0
             /\ plan.segs[k].from + plan.segs[k].len =
                  (IF k = Len(plan.segs) THEN NumBlocks + 1 ELSE plan.segs[k + 1].from)

\* Fresh: no horizon hides a write that was acknowledged before the read began.
HorizonCoversAcked ==
    plan.kind = "segments" =>
        \A b \in Blocks : \A d \in before : b \in range[d] => d <= PlannedH(b)

\* Clean: whatever a replica finds at the horizon is durable.  An unresolved slot at or below it is
\* shadowed on that block by a later acked one, even though slots resolved while the plan was made.
HorizonShadowsUnresolved ==
    plan.kind = "segments" =>
        \A b \in Blocks, u \in Slots :
            (u <= PlannedH(b) /\ b \in range[u] /\ outcome[u] \in {"in_flight", "failed"})
                => \E a \in Slots : u < a /\ a <= PlannedH(b) /\ b \in range[a] /\ outcome[a] = "acked"
=============================================================================
