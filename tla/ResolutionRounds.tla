-------------------------- MODULE ResolutionRounds --------------------------
(***************************************************************************)
(* How failed writes get a resolution round (request_resolution_round and  *)
(* fire_resolution): the shared want watermark, one outstanding request    *)
(* per member, and detached legs that drain the want.  A leg is a          *)
(* coroutine in a frame of its own: it may outlive the release of its      *)
(* member's flag, so a member has one draining leg and possibly others on  *)
(* their way out.                                                          *)
(***************************************************************************)
EXTENDS Integers

CONSTANTS
    Members,
    Legs,       \* bound: coroutine frames for the detached legs
    MaxSlots,   \* bound: writes, one per slot 1..MaxSlots
    MaxErrors,  \* bound: requests to the leader that fail
    MaxMoves    \* bound: changes of leader

ASSUME RoundsAssumption ==
    /\ Members # {} /\ Legs # {}
    /\ {MaxSlots, MaxErrors, MaxMoves} \subseteq Nat

Slots == 1..MaxSlots

VARIABLES
    status,   \* the tracker's view of a slot
    wpc,      \* where the slot's writer is: in IO, noting the want, firing legs
    tofire,   \* members the writer has not tried yet
    want,     \* resolve_want_ (-1: nothing pending)
    flag,     \* rr_inflight_
    lpc, idx, upto,  \* a leg's place, its member, and the upto of its request
    asked,    \* the highest upto each member was asked to resolve
    leader, errors, moves

legVars == <<lpc, idx, upto>>
vars == <<status, wpc, tofire, want, flag, legVars, asked, leader, errors, moves>>
envVars == <<leader, errors, moves>>

AtLeast(x, bound) == IF x > bound THEN x ELSE bound

Init ==
    /\ status = [d \in Slots |-> "flying"]
    /\ wpc = [d \in Slots |-> "io"] /\ tofire = [d \in Slots |-> {}]
    /\ want = -1
    /\ flag = [m \in Members |-> FALSE]
    /\ lpc = [k \in Legs |-> "idle"] /\ idx = [k \in Legs |-> "none"] /\ upto = [k \in Legs |-> 0]
    /\ asked = [m \in Members |-> 0]
    /\ leader \in Members /\ errors = 0 /\ moves = 0
-----------------------------------------------------------------------------
\* write(): every leg of slot d finished.  A quorum resolves it; a sub-quorum marks it failed, unless
\* a round resolved it first, and requests a round either way.
WriteEnds(d) ==
    /\ wpc[d] = "io"
    /\ \/ /\ status' = [status EXCEPT ![d] = "retired"]
          /\ wpc' = [wpc EXCEPT ![d] = "done"]
       \/ /\ status' = [status EXCEPT ![d] = IF @ = "flying" THEN "failed" ELSE @]
          /\ wpc' = [wpc EXCEPT ![d] = "note"]
    /\ UNCHANGED <<tofire, want, flag, legVars, asked, envVars>>

note_resolution_want(d) ==
    /\ wpc[d] = "note"
    /\ want' = AtLeast(want, d)
    /\ wpc' = [wpc EXCEPT ![d] = "fire"]
    /\ tofire' = [tofire EXCEPT ![d] = Members]
    /\ UNCHANGED <<status, flag, legVars, asked, envVars>>

Fire(k, m) ==
    /\ lpc[k] = "idle"
    /\ lpc' = [lpc EXCEPT ![k] = "peek"]
    /\ idx' = [idx EXCEPT ![k] = m]
    /\ UNCHANGED upto

\* Mutant: the flag is tested and not taken.
FireLeg_NoFlag(d, m) ==
    /\ wpc[d] = "fire" /\ m \in tofire[d]
    /\ tofire' = [tofire EXCEPT ![d] = @ \ {m}]
    /\ wpc' = [wpc EXCEPT ![d] = IF tofire[d] = {m} THEN "done" ELSE "fire"]
    /\ ~flag[m]
    /\ \E k \in Legs : Fire(k, m)
    /\ UNCHANGED <<flag, status, want, asked, envVars>>

\* try_begin_resolution(m): whoever takes the flag fires the leg.
FireLeg(d, m) ==
    /\ wpc[d] = "fire" /\ m \in tofire[d]
    /\ tofire' = [tofire EXCEPT ![d] = @ \ {m}]
    /\ wpc' = [wpc EXCEPT ![d] = IF tofire[d] = {m} THEN "done" ELSE "fire"]
    /\ \/ flag[m] /\ UNCHANGED <<flag, legVars>>
       \/ /\ ~flag[m]
          /\ flag' = [flag EXCEPT ![m] = TRUE]
          /\ \E k \in Legs : Fire(k, m)
    /\ UNCHANGED <<status, want, asked, envVars>>
-----------------------------------------------------------------------------
LegGoto(k, label) == lpc' = [lpc EXCEPT ![k] = label] /\ UNCHANGED <<idx, upto>>
LegEnds(k) ==
    /\ lpc' = [lpc EXCEPT ![k] = "idle"]
    /\ idx' = [idx EXCEPT ![k] = "none"]
    /\ upto' = [upto EXCEPT ![k] = 0]

\* while (resolution_want()): send a request for it, or leave the loop.
Peek(k) ==
    /\ lpc[k] = "peek"
    /\ \/ /\ want >= 0
          /\ lpc' = [lpc EXCEPT ![k] = "await"]
          /\ upto' = [upto EXCEPT ![k] = want]
          /\ asked' = [asked EXCEPT ![idx[k]] = AtLeast(@, want)]
          /\ UNCHANGED idx
       \/ /\ want < 0
          /\ LegGoto(k, "release")
          /\ UNCHANGED asked
    /\ UNCHANGED <<status, wpc, tofire, want, flag, envVars>>

\* The reply.  A follower, an unreachable member or a deposed term answers with an error: the leg
\* releases its flag and ends.
ReplyError(k) ==
    /\ lpc[k] = "await"
    /\ \/ idx[k] # leader /\ UNCHANGED errors
       \/ idx[k] = leader /\ errors < MaxErrors /\ errors' = errors + 1
    /\ flag' = [flag EXCEPT ![idx[k]] = FALSE]
    /\ LegEnds(k)
    /\ UNCHANGED <<status, wpc, tofire, want, asked, leader, moves>>

ReplyResolved(k) ==
    /\ lpc[k] = "await" /\ idx[k] = leader
    /\ LegGoto(k, "retire")
    /\ UNCHANGED <<status, wpc, tofire, want, flag, asked, envVars>>

\* retire_upto(): our unresolved slots <= upto take the round's verdict.
Retire(k) ==
    /\ lpc[k] = "retire"
    /\ status' = [d \in Slots |-> IF d <= upto[k] THEN "retired" ELSE status[d]]
    /\ LegGoto(k, "clear")
    /\ UNCHANGED <<wpc, tofire, want, flag, asked, envVars>>

\* Mutant: the whole want is consumed, whatever the round covered.
Clear_All(k) ==
    /\ lpc[k] = "clear"
    /\ want' = -1
    /\ lpc' = [lpc EXCEPT ![k] = "peek"]
    /\ upto' = [upto EXCEPT ![k] = 0]
    /\ UNCHANGED idx
    /\ UNCHANGED <<status, wpc, tofire, flag, asked, envVars>>

\* clear_resolution_want(): consume only what the round covered, then loop.
Clear(k) ==
    /\ lpc[k] = "clear"
    /\ want' = IF want <= upto[k] THEN -1 ELSE want
    /\ lpc' = [lpc EXCEPT ![k] = "peek"]
    /\ upto' = [upto EXCEPT ![k] = 0]
    /\ UNCHANGED idx
    /\ UNCHANGED <<status, wpc, tofire, flag, asked, envVars>>

\* end_resolution(), then take the flag back if a want slipped in before the release.
Release(k) ==
    /\ lpc[k] = "release"
    /\ flag' = [flag EXCEPT ![idx[k]] = FALSE]
    /\ LegGoto(k, "recheck")
    /\ UNCHANGED <<status, wpc, tofire, want, asked, envVars>>

\* Mutant: the leg ends without looking at the want again.
Recheck_Skip(k) ==
    /\ lpc[k] = "recheck"
    /\ LegEnds(k)
    /\ UNCHANGED <<status, wpc, tofire, want, flag, asked, envVars>>

Recheck(k) ==
    /\ lpc[k] = "recheck"
    /\ \/ want >= 0 /\ ~flag[idx[k]] /\ flag' = [flag EXCEPT ![idx[k]] = TRUE] /\ LegGoto(k, "peek")
       \/ (want < 0 \/ flag[idx[k]]) /\ LegEnds(k) /\ UNCHANGED flag
    /\ UNCHANGED <<status, wpc, tofire, want, asked, envVars>>

\* External: leadership moves between members.
LeaderMoves ==
    /\ moves < MaxMoves
    /\ \E m \in Members \ {leader} : leader' = m
    /\ moves' = moves + 1
    /\ UNCHANGED <<status, wpc, tofire, want, flag, legVars, asked, errors>>
-----------------------------------------------------------------------------
Request(d) == note_resolution_want(d) \/ \E m \in Members : FireLeg(d, m)
LegStep(k) ==
    \/ Peek(k) \/ ReplyError(k) \/ ReplyResolved(k) \/ Retire(k)
    \/ Clear(k) \/ Release(k) \/ Recheck(k)

Next ==
    \/ \E d \in Slots : WriteEnds(d) \/ Request(d)
    \/ \E k \in Legs : LegStep(k)
    \/ LeaderMoves

Spec == Init /\ [][Next]_vars

\* A call that has started runs on: threads are scheduled and every request completes or times out.
Fairness ==
    /\ \A d \in Slots : WF_vars(Request(d))
    /\ \A k \in Legs : WF_vars(LegStep(k))

FairSpec == Spec /\ Fairness
-----------------------------------------------------------------------------
\* The want, the flags and every leg's locals keep their types, and a running leg knows its member.
TypeOK ==
    /\ status \in [Slots -> {"flying", "failed", "retired"}]
    /\ wpc \in [Slots -> {"io", "note", "fire", "done"}] /\ tofire \in [Slots -> SUBSET Members]
    /\ want \in {-1} \cup Slots /\ flag \in [Members -> BOOLEAN]
    /\ lpc \in [Legs -> {"idle", "peek", "await", "retire", "clear", "release", "recheck"}]
    /\ idx \in [Legs -> Members \cup {"none"}] /\ upto \in [Legs -> {0} \cup Slots]
    /\ \A k \in Legs : lpc[k] # "idle" => idx[k] \in Members
    /\ asked \in [Members -> {0} \cup Slots] /\ leader \in Members

\* One request outstanding per member: the flag is held by exactly the one leg that drains the want.
Draining == {"peek", "await", "retire", "clear", "release"}
Drains(k, m) == lpc[k] \in Draining /\ idx[k] = m
OneLegPerMember ==
    \A m \in Members :
        /\ flag[m] <=> \E k \in Legs : Drains(k, m)
        /\ \A j, k \in Legs : Drains(j, m) /\ Drains(k, m) => j = k

\* A want is consumed only by a round that covered it: with no want pending, no failed slot whose
\* writer has noted it is left behind.
WantCoversFailed ==
    \A d \in Slots : status[d] = "failed" /\ wpc[d] \in {"fire", "done"} => want >= d

\* A failed write does not stay pinned while the leader answers and does not move: whatever races
\* the release of a leg's flag, some leg drains the want.
FailedIsRetired ==
    \A d \in Slots : (status[d] = "failed") ~> (status[d] = "retired" \/ errors > 0 \/ moves > 0)

\* The next failed write re-fires the legs: once its request went out, every member is asked to
\* resolve at least up to it, unless it is resolved.
EveryFailureAsked ==
    \A d \in Slots, m \in Members :
        (wpc[d] = "fire") ~> (asked[m] >= d \/ status[d] = "retired")
=============================================================================
