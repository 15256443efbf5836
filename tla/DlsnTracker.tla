---------------------------- MODULE DlsnTracker ----------------------------
(***************************************************************************)
(* The dLSN bookkeeping of one client session (class dlsn_tracker): the    *)
(* counter, the slot outcomes, the frontier F, the highest acked dLSN Ha,  *)
(* and the gate on which a fenced read waits.  Every atomic load, store or *)
(* compare-exchange that another thread can observe is a step of its own.  *)
(*                                                                         *)
(*   Writers  ring threads running craft_client::write                     *)
(*   Legs     resolution legs running retire_upto                          *)
(*   Readers  coroutines in plan_read (a read of the whole volume)         *)
(*                                                                         *)
(* StreamTracker runs an update callback under a SHARED lock.              *)
(* SharedUpdate = TRUE lets two updates of one slot interleave between the *)
(* callback's load and its store; FALSE keeps the callbacks on one slot    *)
(* apart, as a client does whose rings and legs all resume on one thread.  *)
(***************************************************************************)
EXTENDS Integers, FiniteSets

CONSTANTS
    Writers, Legs, Readers,
    L,            \* login dLSN: the session issues L+1, L+2, ...
    MaxIssued,    \* bound: dLSNs the session may issue
    ScanCap,      \* scan_cap_: a hung write further than this below Ha fences
    SharedUpdate

Threads == Writers \cup Legs
Slots   == (L + 1)..(L + MaxIssued)

ASSUME TrackerAssumption ==
    /\ L \in Int /\ L >= -1
    /\ MaxIssued \in Nat
    /\ ScanCap \in Nat
    /\ SharedUpdate \in BOOLEAN
    /\ Writers \cap Legs = {}

VARIABLES
    next,         \* next_dlsn_
    frontier,     \* frontier_ (F)
    highestAcked, \* highest_acked_ (Ha)
    want,         \* resolve_want_
    active,       \* slots whose create() is visible
    completed,    \* slots whose completed bit is set
    outcome,      \* dlsn_slot.outcome
    pc,           \* where each thread is
    slot, oc,     \* the arguments of the thread's resolve()
    seen, target, \* f and nf in advance_frontier()
    cursor, hi,   \* h and hi in retire_upto()
    rpc,          \* where each reader is in plan_read()
    fired         \* readers whose captured event has completed

slotVars   == <<active, completed, outcome>>
threadVars == <<pc, slot, oc, seen, target>>
legVars    == <<cursor, hi>>
readVars   == <<rpc, fired>>
vars == <<next, frontier, highestAcked, want, slotVars, threadVars, legVars, readVars>>

Outcomes == {"in_flight", "acked", "failed", "empty"}
is_resolved(o) == o \in {"acked", "empty"}

ThreadPc == {"idle", "create", "legs", "update", "store", "bit", "keepbit", "raise",
             "scan", "cas", "signal", "fire", "hop"}
ReaderPc == {"idle", "arm", "enter", "recheck", "await", "served", "again"}

Init ==
    /\ next = L + 1
    /\ frontier = L /\ highestAcked = L /\ want = -1
    /\ active = {} /\ completed = {}
    /\ outcome = [d \in Slots |-> "in_flight"]
    /\ pc = [t \in Threads |-> "idle"]
    /\ slot = [t \in Threads |-> L]
    /\ oc = [t \in Threads |-> "in_flight"]
    /\ seen = [t \in Threads |-> L] /\ target = [t \in Threads |-> L]
    /\ cursor = [g \in Legs |-> L] /\ hi = [g \in Legs |-> L]
    /\ rpc = [r \in Readers |-> "idle"]
    /\ fired = {}

Goto(t, label) == pc' = [pc EXCEPT ![t] = label]

\* StreamTracker::completed_upto(h): x is the end of the run of completed slots at h.
CompletedUpto(h, x) ==
    /\ x >= h - 1
    /\ \A d \in Slots : h <= d /\ d <= x => d \in completed
    /\ x + 1 \notin completed

AtMost(x, bound)  == IF x < bound THEN x ELSE bound
AtLeast(x, bound) == IF x > bound THEN x ELSE bound
-----------------------------------------------------------------------------
\* reserve(): the fetch_add, then the create() that makes the slot visible.
ReserveFetchAdd(w) ==
    /\ pc[w] = "idle" /\ next \in Slots
    /\ slot' = [slot EXCEPT ![w] = next]
    /\ next' = next + 1
    /\ Goto(w, "create")
    /\ UNCHANGED <<frontier, highestAcked, want, slotVars, oc, seen, target, legVars, readVars>>

ReserveCreate(w) ==
    /\ pc[w] = "create"
    /\ active' = active \cup {slot[w]}
    /\ outcome' = [outcome EXCEPT ![slot[w]] = "in_flight"]
    /\ Goto(w, "legs")
    /\ UNCHANGED <<next, frontier, highestAcked, want, completed, slot, oc, seen, target,
                   legVars, readVars>>

\* write(): the quorum latch fired, with a quorum, a provable refusal, or neither.
LegsDone(w) ==
    /\ pc[w] = "legs"
    /\ \E o \in {"acked", "failed", "empty"} : oc' = [oc EXCEPT ![w] = o]
    /\ Goto(w, "update")
    /\ UNCHANGED <<next, frontier, highestAcked, want, slotVars, slot, seen, target,
                   legVars, readVars>>
-----------------------------------------------------------------------------
\* Mutants: a failed outcome completes its slot too; Ha is raised without waiting for the bit.
ApplyOutcome_FailedCompletes(t) ==
    /\ outcome' = [outcome EXCEPT ![slot[t]] = oc[t]]
    /\ Goto(t, "bit")

ApplyOutcome_RaiseFirst(t) ==
    /\ outcome' = [outcome EXCEPT ![slot[t]] = oc[t]]
    /\ Goto(t, IF oc[t] = "acked" THEN "raise" ELSE IF oc[t] = "empty" THEN "bit" ELSE "signal")

\* resolve(): the update callback stores its outcome; a resolved one completes the slot.
ApplyOutcome(t) ==
    /\ outcome' = [outcome EXCEPT ![slot[t]] = oc[t]]
    /\ Goto(t, IF is_resolved(oc[t]) THEN "bit" ELSE "signal")

\* Some thread is inside the callback on slot d, between its test and its store.
Updating(d) == \E u \in Threads : pc[u] = "store" /\ slot[u] = d

\* Mutant: the callback stores its outcome whatever the slot holds.
UpdateLoad_NoCheck(t) ==
    /\ pc[t] = "update"
    /\ SharedUpdate \/ ~Updating(slot[t])
    /\ Goto(t, "store")
    /\ UNCHANGED <<next, frontier, highestAcked, want, slotVars, slot, oc, seen, target,
                   legVars, readVars>>

\* resolve(): the update callback keeps an outcome that is already resolved.
UpdateLoad(t) ==
    /\ pc[t] = "update"
    /\ SharedUpdate \/ ~Updating(slot[t])
    /\ Goto(t, IF is_resolved(outcome[slot[t]]) THEN "keepbit" ELSE "store")
    /\ UNCHANGED <<next, frontier, highestAcked, want, slotVars, slot, oc, seen, target,
                   legVars, readVars>>

UpdateStore(t) ==
    /\ pc[t] = "store"
    /\ ApplyOutcome(t)
    /\ UNCHANGED <<next, frontier, highestAcked, want, active, completed, slot, oc, seen, target,
                   legVars, readVars>>

\* update() sets the completed bit after the callback returned true.
SetCompleted(t) ==
    /\ pc[t] \in {"bit", "keepbit"}
    /\ completed' = completed \cup {slot[t]}
    /\ \/ pc[t] = "keepbit" /\ Goto(t, "signal")
       \/ pc[t] = "bit" /\ oc[t] = "acked" /\ Goto(t, "raise")
       \/ pc[t] = "bit" /\ oc[t] # "acked" /\ Goto(t, "scan")
    /\ UNCHANGED <<next, frontier, highestAcked, want, active, outcome, slot, oc, seen, target,
                   legVars, readVars>>

\* The CAS-max on highest_acked_.
RaiseHighestAcked(t) ==
    /\ pc[t] = "raise"
    /\ highestAcked' = AtLeast(highestAcked, slot[t])
    /\ Goto(t, "scan")
    /\ UNCHANGED <<next, frontier, want, slotVars, slot, oc, seen, target, legVars, readVars>>

\* Mutant: F chases Ha instead of the contiguous completed prefix.
AdvanceScan_ToHighest(t) ==
    /\ pc[t] = "scan"
    /\ seen' = [seen EXCEPT ![t] = frontier]
    /\ target' = [target EXCEPT ![t] = AtLeast(highestAcked, frontier)]
    /\ Goto(t, "cas")
    /\ UNCHANGED <<next, frontier, highestAcked, want, slotVars, slot, oc, legVars, readVars>>

\* advance_frontier(): load F and scan the completed run above it, then compare-exchange.
\* The batched truncate() of slots <= F only returns memory and is left out.
AdvanceScan(t) ==
    /\ pc[t] = "scan"
    /\ \E x \in (Slots \cup {L}) :
         /\ CompletedUpto(frontier + 1, x)
         /\ LET nf == AtMost(x, next - 1)
            IN  \/ /\ nf <= frontier
                   /\ Goto(t, "signal")
                   /\ UNCHANGED <<seen, target>>
                \/ /\ nf > frontier
                   /\ seen' = [seen EXCEPT ![t] = frontier]
                   /\ target' = [target EXCEPT ![t] = nf]
                   /\ Goto(t, "cas")
    /\ UNCHANGED <<next, frontier, highestAcked, want, slotVars, slot, oc, legVars, readVars>>

\* Mutant: a lost compare-exchange gives up instead of scanning again.
AdvanceCas_NoRetry(t) ==
    /\ pc[t] = "cas"
    /\ frontier' = IF frontier = seen[t] THEN target[t] ELSE frontier
    /\ Goto(t, "signal")
    /\ seen' = [seen EXCEPT ![t] = L]
    /\ target' = [target EXCEPT ![t] = L]
    /\ UNCHANGED <<next, highestAcked, want, slotVars, slot, oc, legVars, readVars>>

AdvanceCas(t) ==
    /\ pc[t] = "cas"
    /\ \/ /\ frontier = seen[t]
          /\ frontier' = target[t]
          /\ Goto(t, "signal")
       \/ /\ frontier # seen[t]
          /\ Goto(t, "scan")
          /\ UNCHANGED frontier
    /\ seen' = [seen EXCEPT ![t] = L]
    /\ target' = [target EXCEPT ![t] = L]
    /\ UNCHANGED <<next, highestAcked, want, slotVars, slot, oc, legVars, readVars>>
-----------------------------------------------------------------------------
\* resolution_gate.  A waiter is counted from enter() to leave().
Waiters == {r \in Readers : rpc[r] \in {"recheck", "await", "served", "again"}}

\* resolve() returns; its arguments die with it.  write() then notes a failed slot for a round.
Return(t) ==
    /\ Goto(t, IF t \in Legs THEN "hop" ELSE "idle")
    /\ want' = IF t \in Writers /\ oc[t] = "failed" THEN AtLeast(want, slot[t]) ELSE want
    /\ slot' = [slot EXCEPT ![t] = L]
    /\ oc' = [oc EXCEPT ![t] = "in_flight"]

SignalTest(t) ==
    /\ pc[t] = "signal"
    /\ \/ Waiters = {} /\ Return(t)
       \/ Waiters # {} /\ Goto(t, "fire") /\ UNCHANGED <<slot, oc, want>>
    /\ UNCHANGED <<next, frontier, highestAcked, slotVars, seen, target, legVars, readVars>>

\* Swap in a fresh event and complete the old one: every reader that armed holds it or an older one.
SignalFire(t) ==
    /\ pc[t] = "fire"
    /\ fired' = fired \cup {r \in Readers : rpc[r] \in {"enter", "recheck", "await"}}
    /\ Return(t)
    /\ UNCHANGED <<next, frontier, highestAcked, slotVars, seen, target, legVars, rpc>>
-----------------------------------------------------------------------------
\* A leg whose round over the current want succeeded.  retire_upto() hops over our unresolved slots
\* <= hi and resolves each by the round's verdict, Empty or filled; a slot whose create() is not
\* visible yet is skipped.  The leg then consumes the want it covered.
RetireStart(g) ==
    /\ pc[g] = "idle" /\ want >= 0
    /\ hi' = [hi EXCEPT ![g] = AtMost(want, next - 1)]
    /\ cursor' = [cursor EXCEPT ![g] = frontier + 1]
    /\ Goto(g, "hop")
    /\ UNCHANGED <<next, frontier, highestAcked, want, slotVars, slot, oc, seen, target, readVars>>

RetireHop(g) ==
    /\ pc[g] = "hop"
    /\ \E x \in (Slots \cup {L}), verdict \in {"acked", "empty"} :
         /\ CompletedUpto(cursor[g], x)
         /\ LET u == AtMost(x, hi[g]) + 1
            IN  /\ cursor[g] <= hi[g] /\ u <= hi[g]
                /\ cursor' = [cursor EXCEPT ![g] = u + 1]
                /\ \/ /\ u \in active
                      /\ slot' = [slot EXCEPT ![g] = u]
                      /\ oc' = [oc EXCEPT ![g] = verdict]
                      /\ Goto(g, "update")
                   \/ /\ u \notin active
                      /\ UNCHANGED <<slot, oc, pc>>
    /\ UNCHANGED <<next, frontier, highestAcked, want, slotVars, seen, target, hi, readVars>>

RetireDone(g) ==
    /\ pc[g] = "hop"
    /\ \E x \in (Slots \cup {L}) : CompletedUpto(cursor[g], x) /\ AtMost(x, hi[g]) + 1 > hi[g]
    /\ cursor' = [cursor EXCEPT ![g] = L]
    /\ hi' = [hi EXCEPT ![g] = L]
    /\ want' = IF want <= hi[g] THEN -1 ELSE want
    /\ Goto(g, "idle")
    /\ UNCHANGED <<next, frontier, highestAcked, slotVars, slot, oc, seen, target, readVars>>
-----------------------------------------------------------------------------
\* compute() for a read of the whole volume: what fences it, and what fails it.
Unresolved == {u \in Slots : frontier < u /\ u <= highestAcked /\ u \notin completed}
Fenced ==
    \/ \E u \in Unresolved : u \notin active
    \/ \E u \in Unresolved : highestAcked - u > ScanCap
Stall == Fenced /\ \A u \in Unresolved \cap active : outcome[u] # "failed"

ReaderGoto(r, label) == rpc' = [rpc EXCEPT ![r] = label]
ReaderFrame == UNCHANGED <<next, frontier, highestAcked, want, slotVars, threadVars, legVars>>

\* plan_read(): only a stalled plan arms the gate; the others return.
PlanRead(r) ==
    /\ rpc[r] = "idle" /\ Stall
    /\ ReaderGoto(r, "arm")
    /\ UNCHANGED fired /\ ReaderFrame

Arm(r) ==
    /\ rpc[r] = "arm"
    /\ fired' = fired \ {r}
    /\ ReaderGoto(r, "enter")
    /\ ReaderFrame

Enter(r) ==
    /\ rpc[r] = "enter"
    /\ ReaderGoto(r, "recheck")
    /\ UNCHANGED fired /\ ReaderFrame

\* Mutant: the reader waits without planning again after enter().
Recheck_Skip(r) ==
    /\ rpc[r] = "recheck"
    /\ ReaderGoto(r, "await")
    /\ UNCHANGED fired /\ ReaderFrame

Recheck(r) ==
    /\ rpc[r] = "recheck"
    /\ ReaderGoto(r, IF Stall THEN "await" ELSE "served")
    /\ UNCHANGED fired /\ ReaderFrame

Await(r) ==
    /\ rpc[r] = "await" /\ r \in fired
    /\ ReaderGoto(r, "again")
    /\ UNCHANGED fired /\ ReaderFrame

Leave(r) ==
    /\ rpc[r] \in {"served", "again"}
    /\ ReaderGoto(r, IF rpc[r] = "served" THEN "idle" ELSE "arm")
    /\ UNCHANGED fired /\ ReaderFrame
-----------------------------------------------------------------------------
Write(w) == ReserveFetchAdd(w) \/ ReserveCreate(w) \/ LegsDone(w)
Resolve(t) ==
    \/ UpdateLoad(t) \/ UpdateStore(t) \/ SetCompleted(t) \/ RaiseHighestAcked(t)
    \/ AdvanceScan(t) \/ AdvanceCas(t) \/ SignalTest(t) \/ SignalFire(t)
Retire(g) == RetireStart(g) \/ RetireHop(g) \/ RetireDone(g)
Read(r) == PlanRead(r) \/ Arm(r) \/ Enter(r) \/ Recheck(r) \/ Await(r) \/ Leave(r)

Next ==
    \/ \E w \in Writers : Write(w)
    \/ \E t \in Threads : Resolve(t)
    \/ \E g \in Legs : Retire(g)
    \/ \E r \in Readers : Read(r)

Spec == Init /\ [][Next]_vars

\* Started calls run to completion: a thread is not descheduled for ever and every leg of a write
\* finishes (each transport op completes or times out).  New writes and new rounds are optional.
Fairness ==
    /\ \A w \in Writers : WF_vars(ReserveCreate(w) \/ LegsDone(w))
    /\ \A t \in Threads : WF_vars(Resolve(t))
    /\ \A g \in Legs : WF_vars(RetireHop(g) \/ RetireDone(g))
    /\ \A r \in Readers : WF_vars(Arm(r) \/ Enter(r) \/ Recheck(r) \/ Await(r) \/ Leave(r))

FairSpec == Spec /\ Fairness
-----------------------------------------------------------------------------
\* The tracker's words, the slots and every thread's locals keep their types (dlsn_tracker's members).
TypeOK ==
    /\ next \in (L + 1)..(L + MaxIssued + 1)
    /\ frontier \in Slots \cup {L} /\ highestAcked \in Slots \cup {L}
    /\ want \in Slots \cup {-1}
    /\ active \subseteq Slots /\ completed \subseteq Slots
    /\ outcome \in [Slots -> Outcomes]
    /\ pc \in [Threads -> ThreadPc]
    /\ slot \in [Threads -> Slots \cup {L}] /\ oc \in [Threads -> Outcomes]
    /\ seen \in [Threads -> Slots \cup {L}] /\ target \in [Threads -> Slots \cup {L}]
    /\ cursor \in [Legs -> L..(L + MaxIssued + 1)] /\ hi \in [Legs -> Slots \cup {L}]
    /\ rpc \in [Readers -> ReaderPc] /\ fired \subseteq Readers

\* Every slot at or below F carries its completed bit, whatever the interleaving of the threads that
\* advance F: the contiguous prefix that client_hdr.commit_lsn piggybacks never jumps a hole.
FrontierCompleted == \A d \in Slots : d <= frontier => d \in completed

\* "Every slot <= F is resolved": commit never passes a write that is in flight or failed.
FrontierResolved == \A d \in Slots : d <= frontier => is_resolved(outcome[d])

\* "The completed bit means RESOLVED": no completed slot carries an in-flight or failed outcome.
CompletedIsResolved == \A d \in completed : is_resolved(outcome[d])

\* Ha is published after the outcome: a reader that loads Ha sees that slot created and acked.
HighestAckedVisible ==
    highestAcked > L => /\ highestAcked \in active \cap completed
                        /\ outcome[highestAcked] = "acked"

\* No advance is lost to a failed compare-exchange: once no thread is between its completed bit and
\* the end of advance_frontier, F is the whole contiguous completed prefix.
Quiescent == \A t \in Threads : pc[t] \notin {"bit", "keepbit", "raise", "scan", "cas"}
FrontierTight == Quiescent => frontier + 1 \notin completed

\* resolve() never downgrades: a resolved outcome is never overwritten.
NeverDowngrades == [][\A d \in Slots : is_resolved(outcome[d]) => outcome'[d] = outcome[d]]_vars

\* The watermarks the client piggybacks only rise.
WatermarksMonotone == [][frontier' >= frontier /\ highestAcked' >= highestAcked]_vars

\* No wakeup is lost: a read that stalls on the gate is served once the writes it waits for resolve.
StalledReadServed == \A r \in Readers : rpc[r] = "await" ~> rpc[r] \in {"idle", "again"}
=============================================================================
