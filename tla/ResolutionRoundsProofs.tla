----------------------- MODULE ResolutionRoundsProofs -----------------------
(***************************************************************************)
(* Proofs about the resolution-round requests, for any members, any number *)
(* of writes and legs, and any errors and leader moves.                    *)
(***************************************************************************)
EXTENDS ResolutionRounds, TLAPS

\* A leg that is about to consume the want has retired every slot its round covered.
ClearAfterRetire ==
    \A k \in Legs, d \in Slots : lpc[k] = "clear" /\ d <= upto[k] => status[d] = "retired"

\* The inductive invariant.
IInv == TypeOK /\ OneLegPerMember /\ ClearAfterRetire /\ WantCoversFailed

\* AtLeast is the maximum of two integers (the CAS-max loops of the tracker).
LEMMA AtLeastFacts ==
    ASSUME NEW x \in Int, NEW y \in Int
    PROVE  /\ AtLeast(x, y) \in {x, y}
           /\ AtLeast(x, y) >= x /\ AtLeast(x, y) >= y
BY DEF AtLeast

\* dLSNs are positive integers.
LEMMA SlotsAreInts == \A d \in Slots : d \in Int /\ d > 0
BY RoundsAssumption DEF Slots

\* A fresh session satisfies the inductive invariant.
LEMMA InitIInv == Init => IInv
BY SlotsAreInts DEF Init, IInv, TypeOK, OneLegPerMember, ClearAfterRetire, WantCoversFailed,
   Drains, Draining

\* Every action keeps the types.
LEMMA TypeStep == TypeOK /\ [Next]_vars => TypeOK'
<1> SUFFICES ASSUME TypeOK, [Next]_vars PROVE TypeOK'
  OBVIOUS
<1> USE DEF TypeOK
<1>1. ASSUME NEW d \in Slots, WriteEnds(d) PROVE TypeOK'
  BY <1>1 DEF WriteEnds, legVars, envVars
<1>2. ASSUME NEW d \in Slots, note_resolution_want(d) PROVE TypeOK'
  <2>1. AtLeast(want, d) \in {-1} \cup Slots
    BY SlotsAreInts, AtLeastFacts
  <2> QED BY <1>2, <2>1 DEF note_resolution_want, legVars, envVars
<1>3. ASSUME NEW d \in Slots, NEW m \in Members, FireLeg(d, m) PROVE TypeOK'
  <2>1. CASE flag[m]
    BY <1>3, <2>1 DEF FireLeg, legVars, envVars
  <2>2. CASE ~flag[m]
    <3>1. PICK k \in Legs : Fire(k, m)
      BY <1>3, <2>2 DEF FireLeg
    <3>2. lpc' = [lpc EXCEPT ![k] = "peek"] /\ idx' = [idx EXCEPT ![k] = m] /\ upto' = upto
      BY <3>1 DEF Fire
    <3>3. UNCHANGED <<status, want, asked, leader>> /\ flag' = [flag EXCEPT ![m] = TRUE]
      BY <1>3, <2>2 DEF FireLeg, envVars
    <3>4. wpc' \in [Slots -> {"io", "note", "fire", "done"}] /\ tofire' \in [Slots -> SUBSET Members]
      BY <1>3 DEF FireLeg
    <3> QED BY <3>2, <3>3, <3>4
  <2> QED BY <2>1, <2>2
<1>4. ASSUME NEW k \in Legs, Peek(k) PROVE TypeOK'
  <2>1. CASE want >= 0
    <3>1. want \in Slots /\ idx[k] \in Members
      <4>1. want # -1
        BY <2>1
      <4>2. lpc[k] # "idle"
        BY <1>4 DEF Peek
      <4> QED BY <4>1, <4>2
    <3>2. AtLeast(asked[idx[k]], want) \in {0} \cup Slots
      <4>1. asked[idx[k]] \in {0} \cup Slots
        BY <3>1
      <4> QED BY <3>1, <4>1, SlotsAreInts DEF AtLeast
    <3> QED BY <1>4, <2>1, <3>1, <3>2 DEF Peek, LegGoto, envVars
  <2>2. CASE want < 0
    BY <1>4, <2>2, SlotsAreInts DEF Peek, LegGoto, envVars
  <2> QED BY <2>1, <2>2, SlotsAreInts
<1>5. ASSUME NEW k \in Legs, ReplyError(k) PROVE TypeOK'
  BY <1>5 DEF ReplyError, LegEnds
<1>6. ASSUME NEW k \in Legs, ReplyResolved(k) PROVE TypeOK'
  BY <1>6 DEF ReplyResolved, LegGoto, envVars
<1>7. ASSUME NEW k \in Legs, Retire(k) PROVE TypeOK'
  BY <1>7 DEF Retire, LegGoto, envVars
<1>8. ASSUME NEW k \in Legs, Clear(k) PROVE TypeOK'
  BY <1>8 DEF Clear, envVars
<1>9. ASSUME NEW k \in Legs, Release(k) PROVE TypeOK'
  BY <1>9 DEF Release, LegGoto, envVars
<1>10. ASSUME NEW k \in Legs, Recheck(k) PROVE TypeOK'
  <2>1. UNCHANGED <<status, wpc, tofire, want, asked, leader>>
    BY <1>10 DEF Recheck, envVars
  <2>2. idx[k] \in Members
    BY <1>10 DEF Recheck
  <2>3. CASE flag' = [flag EXCEPT ![idx[k]] = TRUE] /\ LegGoto(k, "peek")
    BY <2>1, <2>2, <2>3 DEF LegGoto
  <2>4. CASE LegEnds(k) /\ UNCHANGED flag
    BY <2>1, <2>4 DEF LegEnds
  <2> QED BY <1>10, <2>3, <2>4 DEF Recheck
<1>11. CASE LeaderMoves
  BY <1>11 DEF LeaderMoves, legVars
<1>12. CASE UNCHANGED vars
  BY <1>12 DEF vars, legVars
<1> QED
  BY <1>1, <1>2, <1>3, <1>4, <1>5, <1>6, <1>7, <1>8, <1>9, <1>10, <1>11, <1>12
  DEF Next, Request, LegStep

\* The flag changes hands only together with the one draining leg.
LEMMA OneLegStep == TypeOK /\ OneLegPerMember /\ [Next]_vars => OneLegPerMember'
<1> SUFFICES ASSUME TypeOK, OneLegPerMember, [Next]_vars PROVE OneLegPerMember'
  OBVIOUS
<1> USE DEF TypeOK, OneLegPerMember, Drains, Draining
<1>1. ASSUME NEW d \in Slots, WriteEnds(d) PROVE OneLegPerMember'
  BY <1>1 DEF WriteEnds, legVars, envVars
<1>2. ASSUME NEW d \in Slots, note_resolution_want(d) PROVE OneLegPerMember'
  BY <1>2 DEF note_resolution_want, legVars, envVars
<1>3. ASSUME NEW d \in Slots, NEW m \in Members, FireLeg(d, m) PROVE OneLegPerMember'
  BY <1>3 DEF FireLeg, Fire, legVars, envVars
<1>4. ASSUME NEW k \in Legs, Peek(k) PROVE OneLegPerMember'
  BY <1>4 DEF Peek, LegGoto, envVars
<1>5. ASSUME NEW k \in Legs, ReplyError(k) PROVE OneLegPerMember'
  BY <1>5 DEF ReplyError, LegEnds
<1>6. ASSUME NEW k \in Legs, ReplyResolved(k) PROVE OneLegPerMember'
  BY <1>6 DEF ReplyResolved, LegGoto, envVars
<1>7. ASSUME NEW k \in Legs, Retire(k) PROVE OneLegPerMember'
  BY <1>7 DEF Retire, LegGoto, envVars
<1>8. ASSUME NEW k \in Legs, Clear(k) PROVE OneLegPerMember'
  BY <1>8 DEF Clear, envVars
<1>9. ASSUME NEW k \in Legs, Release(k) PROVE OneLegPerMember'
  BY <1>9 DEF Release, LegGoto, envVars
<1>10. ASSUME NEW k \in Legs, Recheck(k) PROVE OneLegPerMember'
  BY <1>10 DEF Recheck, LegGoto, LegEnds, envVars
<1>11. CASE LeaderMoves
  BY <1>11 DEF LeaderMoves, legVars
<1>12. CASE UNCHANGED vars
  BY <1>12 DEF vars, legVars
<1> QED
  BY <1>1, <1>2, <1>3, <1>4, <1>5, <1>6, <1>7, <1>8, <1>9, <1>10, <1>11, <1>12
  DEF Next, Request, LegStep

\* No action takes a slot out of "retired", and only Retire enters "clear".
LEMMA ClearStep == TypeOK /\ ClearAfterRetire /\ [Next]_vars => ClearAfterRetire'
<1> SUFFICES ASSUME TypeOK, ClearAfterRetire, [Next]_vars PROVE ClearAfterRetire'
  OBVIOUS
<1> USE DEF TypeOK, ClearAfterRetire
<1>1. ASSUME NEW d \in Slots, WriteEnds(d) PROVE ClearAfterRetire'
  BY <1>1 DEF WriteEnds, legVars, envVars
<1>2. ASSUME NEW d \in Slots, note_resolution_want(d) PROVE ClearAfterRetire'
  BY <1>2 DEF note_resolution_want, legVars, envVars
<1>3. ASSUME NEW d \in Slots, NEW m \in Members, FireLeg(d, m) PROVE ClearAfterRetire'
  BY <1>3 DEF FireLeg, Fire, legVars, envVars
<1>4. ASSUME NEW k \in Legs, Peek(k) PROVE ClearAfterRetire'
  BY <1>4 DEF Peek, LegGoto, envVars
<1>5. ASSUME NEW k \in Legs, ReplyError(k) PROVE ClearAfterRetire'
  BY <1>5 DEF ReplyError, LegEnds
<1>6. ASSUME NEW k \in Legs, ReplyResolved(k) PROVE ClearAfterRetire'
  BY <1>6 DEF ReplyResolved, LegGoto, envVars
<1>7. ASSUME NEW k \in Legs, Retire(k) PROVE ClearAfterRetire'
  BY <1>7 DEF Retire, LegGoto, envVars
<1>8. ASSUME NEW k \in Legs, Clear(k) PROVE ClearAfterRetire'
  BY <1>8 DEF Clear, envVars
<1>9. ASSUME NEW k \in Legs, Release(k) PROVE ClearAfterRetire'
  BY <1>9 DEF Release, LegGoto, envVars
<1>10. ASSUME NEW k \in Legs, Recheck(k) PROVE ClearAfterRetire'
  BY <1>10 DEF Recheck, LegGoto, LegEnds, envVars
<1>11. CASE LeaderMoves
  BY <1>11 DEF LeaderMoves, legVars
<1>12. CASE UNCHANGED vars
  BY <1>12 DEF vars, legVars
<1> QED
  BY <1>1, <1>2, <1>3, <1>4, <1>5, <1>6, <1>7, <1>8, <1>9, <1>10, <1>11, <1>12
  DEF Next, Request, LegStep

\* The want is lowered only by Clear, whose round retired everything at or below it.
LEMMA WantStep == TypeOK /\ ClearAfterRetire /\ WantCoversFailed /\ [Next]_vars => WantCoversFailed'
<1> SUFFICES ASSUME TypeOK, ClearAfterRetire, WantCoversFailed, [Next]_vars PROVE WantCoversFailed'
  OBVIOUS
<1> USE DEF TypeOK, WantCoversFailed
<1>1. ASSUME NEW d \in Slots, WriteEnds(d) PROVE WantCoversFailed'
  BY <1>1 DEF WriteEnds, legVars, envVars
<1>2. ASSUME NEW d \in Slots, note_resolution_want(d) PROVE WantCoversFailed'
  BY <1>2, SlotsAreInts, AtLeastFacts DEF note_resolution_want, legVars, envVars
<1>3. ASSUME NEW d \in Slots, NEW m \in Members, FireLeg(d, m) PROVE WantCoversFailed'
  BY <1>3 DEF FireLeg, Fire, legVars, envVars
<1>4. ASSUME NEW k \in Legs, Peek(k) PROVE WantCoversFailed'
  BY <1>4 DEF Peek, LegGoto, envVars
<1>5. ASSUME NEW k \in Legs, ReplyError(k) PROVE WantCoversFailed'
  BY <1>5 DEF ReplyError, LegEnds
<1>6. ASSUME NEW k \in Legs, ReplyResolved(k) PROVE WantCoversFailed'
  BY <1>6 DEF ReplyResolved, LegGoto, envVars
<1>7. ASSUME NEW k \in Legs, Retire(k) PROVE WantCoversFailed'
  BY <1>7 DEF Retire, LegGoto, envVars
<1>8. ASSUME NEW k \in Legs, Clear(k) PROVE WantCoversFailed'
  BY <1>8, SlotsAreInts DEF Clear, ClearAfterRetire, envVars
<1>9. ASSUME NEW k \in Legs, Release(k) PROVE WantCoversFailed'
  BY <1>9 DEF Release, LegGoto, envVars
<1>10. ASSUME NEW k \in Legs, Recheck(k) PROVE WantCoversFailed'
  BY <1>10 DEF Recheck, LegGoto, LegEnds, envVars
<1>11. CASE LeaderMoves
  BY <1>11 DEF LeaderMoves, legVars
<1>12. CASE UNCHANGED vars
  BY <1>12 DEF vars, legVars
<1> QED
  BY <1>1, <1>2, <1>3, <1>4, <1>5, <1>6, <1>7, <1>8, <1>9, <1>10, <1>11, <1>12
  DEF Next, Request, LegStep

\* The inductive invariant is preserved.
LEMMA IInvStep == IInv /\ [Next]_vars => IInv'
BY TypeStep, OneLegStep, ClearStep, WantStep DEF IInv

\* The inductive invariant holds throughout.
THEOREM Invariance == Spec => []IInv
<1>1. Init => IInv
  BY InitIInv
<1>2. IInv /\ [Next]_vars => IInv'
  BY IInvStep
<1> QED BY <1>1, <1>2, PTL DEF Spec

\* At most one request_resolution is outstanding per member, and a member's flag is up exactly while
\* its leg drains the want: the release-then-reclaim of fire_resolution never runs two legs at once.
THEOREM OneOutstanding == Spec => []OneLegPerMember
<1>1. IInv => OneLegPerMember
  BY DEF IInv
<1> QED BY <1>1, Invariance, PTL

\* No failed slot is forgotten: once its writer has noted it the want covers it until a round retires it.
THEOREM WantNeverLost == Spec => []WantCoversFailed
<1>1. IInv => WantCoversFailed
  BY DEF IInv
<1> QED BY <1>1, Invariance, PTL
=============================================================================
