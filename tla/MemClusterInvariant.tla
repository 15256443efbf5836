------------------------ MODULE MemClusterInvariant -------------------------
(***************************************************************************)
(* The inductive invariant of the replica set on one queue, and what the   *)
(* proof that every step keeps it uses of the operations.                  *)
(***************************************************************************)
EXTENDS MemCluster

Cells == Nat \cup {Missing, Empty}
LegStates == {"none", "wire", "down", "timeout", "acked", "refused", "stale"}
Outcomes == {"none", "flying", "failed", "acked", "empty"}
Marks == Nat \cup {-1}

Replica ==
    [journal : [Slots -> Cells], index : [dlsn : Marks, term : Nat], commit : Marks, last : Marks, term : Nat]

\* Every variable has its type.
TypeOK ==
    /\ rep \in [Replicas -> Replica] /\ up \in [Replicas -> BOOLEAN] /\ term \in Nat
    /\ sess \in [term : Nat, L : Marks, admitted : BOOLEAN]
    /\ outcome \in [Slots -> Outcomes] /\ open \subseteq Slots
    /\ leg \in [Slots -> [Replicas -> LegStates]] /\ hdr \in [Slots -> Marks]
    /\ late \subseteq [to : Replicas, slot : Slots, term : Nat, commit : Marks]
    /\ round \in [pc : {"idle", "peek", "mark", "sync", "reply"}, term : Nat, upto : Marks,
                  live : SUBSET Replicas, d : Nat \cup {-1}, verdict : Cells, empties : SUBSET Slots]
    /\ login \in [pc : {"idle", "sync", "term", "truncate"}, live : SUBSET Replicas, rs : Marks]
    /\ acked \subseteq [slot : Slots, term : Nat] /\ excluded \subseteq Replicas /\ missed \subseteq Replicas

\* The watermarks of one replica: nothing is present above last, nothing is missing up to commit.
Marked(s) ==
    /\ s.commit <= s.last
    /\ \A d \in Slots : Present(s, d) => d <= s.last
    /\ \A d \in Slots : d <= s.commit => Present(s, d)

Current == Replicas \ missed
Core == Replicas \ (excluded \cup missed)
Scanning == round.pc \in {"peek", "mark", "sync"}
Pending(d) == outcome[d] \in {"flying", "failed"}
Majority(S) == S \subseteq Replicas /\ Cardinality(S) >= Quorum

\* On one queue a round and a login do not overlap, and nothing moves while either runs.
Exclusive ==
    /\ round.pc = "idle" \/ login.pc = "idle"
    /\ Scanning => /\ Majority(round.live) /\ Leader \in round.live
                   /\ round.live \cap missed = {} /\ Core \subseteq round.live
                   /\ round.d >= 0
                   /\ round.pc # "sync" => round.d <= round.upto
                   /\ round.pc = "sync" => round.d > round.upto
    /\ round.pc # "idle" => /\ round.term = sess.term /\ sess.term = term /\ sess.term > 0
                            /\ round.upto \in Slots /\ outcome[round.upto] = "failed"
    /\ login.pc # "idle" => /\ sess.term < term
                            /\ Majority(login.live) /\ login.live = Current
                            /\ \A r \in login.live : rep[r].last <= login.rs
    /\ login.pc = "truncate" => \A r \in login.live : rep[r].term = term

\* Who is in the current term: a replica that missed a login stays down, behind the minted term.
Terms ==
    /\ \A r \in Replicas : rep[r].term <= term
    /\ \A r \in missed : ~up[r] /\ rep[r].term < term
    /\ sess.term <= term
    /\ login.pc = "idle" => /\ sess.term \in {0, term}
                            /\ \A r \in Current : rep[r].term \in {0, term}

\* The session's slots lie above its login dLSN and are handed out in order.
Ordered ==
    /\ sess.admitted => sess.term > 0
    /\ \A a \in acked : a.term > 0
    /\ \A d \in Slots : outcome[d] # "none" => d > sess.L /\ sess.term > 0
    /\ \A d \in Slots : outcome[d] = "none" => d \notin open /\ \A r \in Replicas : leg[d][r] = "none"
    /\ \A d, e \in Slots : sess.L < e /\ e < d /\ outcome[d] # "none" => outcome[e] # "none"
    /\ \A d \in Slots : outcome[d] = "acked" => [slot |-> d, term |-> sess.term] \in acked

\* A commit_lsn on its way covers resolved slots only.
Headers ==
    /\ \A d, e \in Slots : sess.L < e /\ e <= hdr[d] => outcome[e] \in Resolved
    /\ \A m \in late : /\ m.term > 0 /\ m.term <= term /\ (login.pc # "idle" => m.term < term)
                       /\ m.term = sess.term => leg[m.slot][m.to] = "timeout"
    /\ \A m \in late, e \in Slots :
         sess.term = m.term /\ sess.L < e /\ e <= m.commit => outcome[e] \in Resolved

\* In a slot of the session, or of a write still on the wire, a current replica holds that write or none.
OneWriter ==
    /\ \A r \in Current, d \in Slots :
         sess.term > 0 /\ d > sess.L =>
            rep[r].journal[d] \in (IF outcome[d] = "none" THEN {Missing} ELSE {Missing, Empty, sess.term})
    /\ \A r \in Current : \A m \in late :
         m.term = term => rep[r].journal[m.slot] \in {Missing, Empty, m.term}
    /\ \A r, s \in Current, d \in Slots :
         Holds(rep[r], d) /\ Holds(rep[s], d) => rep[r].journal[d] = rep[s].journal[d]

\* A tombstone is on a quorum that never acknowledged the write, and on the whole core.
Tombstones ==
    \A d \in Slots : (\E r \in Replicas : rep[r].journal[d] = Empty) =>
        /\ \E Q \in SUBSET Replicas : Majority(Q) /\ \A q \in Q : rep[q].journal[d] = Empty /\ leg[d][q] # "acked"
        /\ \A r \in Core : rep[r].journal[d] = Empty

\* What a leg's reply says of the member's journal.
LegsTell ==
    \A d \in Slots, r \in Replicas :
        /\ leg[d][r] = "acked" => rep[r].journal[d] \in {sess.term, Empty}
        /\ leg[d][r] = "refused" => rep[r].journal[d] = Empty

\* A round's verdict is what the live journals said, and scanned slots are the same on the live set.
Verdicts ==
    /\ round.pc = "mark" =>
         IF round.verdict = Empty
         THEN \/ \E r \in round.live : rep[r].journal[round.d] = Empty
              \/ \A r \in round.live : rep[r].journal[round.d] = Missing
         ELSE /\ \A r \in round.live : rep[r].journal[round.d] # Empty
              /\ \E r \in round.live : Holds(rep[r], round.d) /\ rep[r].journal[round.d] = round.verdict
    /\ Scanning => \A e \in Slots :
         sess.L < e /\ e < round.d /\ e <= round.upto /\ Pending(e) =>
            \/ \A r \in round.live : rep[r].journal[e] = Empty
            \/ \A r \in round.live : rep[r].journal[e] = sess.term
    /\ round.pc = "reply" => \A e \in Slots :
         sess.L < e /\ e <= round.upto /\ Pending(e) =>
            IF e \in round.empties THEN rep[Leader].journal[e] = Empty
            ELSE Cardinality({r \in Replicas : rep[r].journal[e] = sess.term}) >= Quorum

\* A replica's index is the newest write it has applied.
Newest(s) ==
    \/ s.index = NoCell /\ \A d \in Slots : d <= s.commit => ~Holds(s, d)
    \/ \E e \in Slots : /\ e <= s.commit /\ Holds(s, e) /\ s.index = [dlsn |-> e, term |-> s.journal[e]]
                        /\ \A d \in Slots : d <= s.commit /\ Holds(s, d) => d <= e
IndexNewest == \A r \in Core : Newest(rep[r])

\* A member whose leg has not delivered the write lacks it, until a round installs it; a slot the client
\* counts as empty is a tombstone at the leader, or no current replica has it or can still get it.
Refusals ==
    /\ \A d \in Slots, r \in Current :
         leg[d][r] \in {"wire", "down"} /\ outcome[d] = "flying" /\ Holds(rep[r], d) =>
            round.pc # "idle" /\ d <= round.upto
    /\ \A d \in Slots : outcome[d] = "empty" =>
         \/ rep[Leader].journal[d] = Empty
         \/ \A r \in Current : ~Holds(rep[r], d) /\ leg[d][r] \notin {"wire", "timeout"}

AllMarked == \A r \in Replicas : Marked(rep[r])

Parts ==
    /\ TypeOK /\ AllMarked /\ Exclusive /\ Terms /\ Ordered /\ Headers
    /\ OneWriter /\ Tombstones /\ LegsTell /\ Verdicts /\ AppliedIsDecided /\ AckedHeld
    /\ IndexNewest /\ Refusals

\* The inductive invariant.  The lemmas name it, and a proof opens the parts of its own hypothesis only.
IInv == Parts
-----------------------------------------------------------------------------
\* A round's verdict on one replica.
Decide(s, d, v) == IF v = Empty THEN cold_mark_empty(s, d) ELSE cold_install_slot(s, d, v)

\* What a step keeps that touches no journal: applying, entering a term, a probe.
JournalsKept ==
    /\ \A r \in Replicas : rep'[r].journal = rep[r].journal /\ rep'[r].last = rep[r].last
    /\ sess'.term = sess.term /\ sess'.L = sess.L
    /\ round' = round \/ (round'.pc # "idle" /\ round'.upto = round.upto)
    /\ login.pc = "idle" => login'.pc = "idle"
    /\ UNCHANGED <<outcome, open, leg, hdr, late, acked, term, missed, excluded>>

\* A write of term w arrives at member q, whose slot d holds no other session's write, and its effect.
Landing(q, d, w, c) ==
    /\ w > 0 /\ (w = rep[q].term => rep[q].journal[d] \in {Missing, Empty, w})
    /\ rep' = [rep EXCEPT ![q] = do_write(rep[q], w, d, c)]
    /\ UNCHANGED <<up, term, sess, acked, round, login, excluded, missed>>
Landed(q, d, w, c) ==
    /\ rep' \in [Replicas -> Replica] /\ AllMarked' /\ IndexNewest' /\ Terms' /\ AckedHeld'
    /\ \A x \in Replicas, e \in Slots : rep'[x].journal[e] = Empty <=> rep[x].journal[e] = Empty
    /\ \A x \in Replicas, e \in Slots :
         \/ rep'[x].journal[e] = rep[x].journal[e]
         \/ x = q /\ e = d /\ w = rep[q].term /\ rep'[x].journal[e] = w /\ rep[x].journal[e] = Missing
    /\ \A x \in Replicas : /\ rep'[x].term = rep[x].term
                           /\ \/ rep'[x].commit = rep[x].commit
                              \/ x = q /\ w = rep[q].term /\ rep'[x].commit <= c
    /\ WriteReply(rep[q], w, d) \in {"acked", "stale", "refused"}
    /\ WriteReply(rep[q], w, d) = "acked" => w = rep[q].term /\ rep[q].journal[d] # Empty /\ rep'[q].journal[d] = w
    /\ WriteReply(rep[q], w, d) = "refused" => rep'[q].journal[d] = Empty
-----------------------------------------------------------------------------
\* What the steps use of the replica's operations, of the quorums and of the marks the client and the
\* coordinator compute.  MemClusterProofs proves each of them.

\* apply_up_to moves commit and the index only: commit advances, at most to the target, over present slots.
ApplyContract ==
    \A s \in Replica, target \in Int :
        LET t == apply_up_to(s, target)
        IN  /\ t \in Replica
            /\ t.journal = s.journal /\ t.last = s.last /\ t.term = s.term
            /\ s.commit <= t.commit
            /\ t.commit = s.commit \/ t.commit <= target
            /\ \A d \in Slots : s.commit < d /\ d <= t.commit => Present(s, d)
            /\ t.commit = s.commit \/ t.commit \in Slots
            /\ Marked(s) => Marked(t)
            /\ Newest(s) => Newest(t)

\* do_write refuses and changes nothing, or puts the term in the slot and applies.
WriteContract ==
    \A s \in Replica, w \in Nat, d \in Slots, c \in Int :
        LET t == do_write(s, w, d, c)
        IN  /\ t \in Replica /\ t.term = s.term
            /\ s.commit <= t.commit /\ (t.commit = s.commit \/ t.commit <= c)
            /\ \A e \in Slots \ {d} : t.journal[e] = s.journal[e]
            /\ t.commit # s.commit => w = s.term
            /\ \/ /\ w = s.term /\ s.journal[d] # Empty /\ t.journal[d] = w
                  /\ WriteReply(s, w, d) = "acked"
               \/ /\ w # s.term /\ t = s /\ WriteReply(s, w, d) = "stale"
               \/ /\ s.journal[d] = Empty /\ t = s /\ WriteReply(s, w, d) = "refused"
            /\ w > 0 /\ Marked(s) => Marked(t)
            /\ w > 0 /\ Marked(s) /\ Newest(s) /\ s.journal[d] \in {Missing, Empty, w} => Newest(t)

\* do_keep_alive applies when the term matches, and otherwise changes nothing.
KeepAliveContract ==
    \A s \in Replica, w \in Nat, c \in Int :
        LET t == do_keep_alive(s, w, c)
        IN  /\ t \in Replica /\ t.journal = s.journal /\ t.last = s.last /\ t.term = s.term
            /\ s.commit <= t.commit /\ (t.commit = s.commit \/ t.commit <= c)
            /\ t.commit # s.commit => w = s.term
            /\ Marked(s) => Marked(t)
            /\ Newest(s) => Newest(t)

\* The verdict touches one slot: a tombstone replaces what is there, a copy only fills a hole.
DecideContract ==
    \A s \in Replica, d \in Slots, v \in Cells \ {Missing} :
        LET t == Decide(s, d, v)
        IN  /\ t \in Replica /\ t.term = s.term /\ t.commit = s.commit /\ t.index = s.index
            /\ \A e \in Slots \ {d} : t.journal[e] = s.journal[e]
            /\ t.journal[d] = IF v # Empty /\ Present(s, d) THEN s.journal[d] ELSE v
            /\ Marked(s) => Marked(t)
            /\ Newest(s) /\ Marked(s) /\ (v = Empty => ~Holds(s, d)) => Newest(t)

\* Two quorums share a replica, and a superset of a quorum is one.
QuorumContract ==
    \A S, T \in SUBSET Replicas : Majority(S) =>
        /\ Majority(T) => \E r \in Replicas : r \in S /\ r \in T
        /\ S \subseteq T => Majority(T)

\* F is the login dLSN or a slot, and every slot of the session up to it is resolved.
FrontierContract ==
    TypeOK => /\ F \in Marks /\ F >= sess.L /\ (F = sess.L \/ F \in Slots)
              /\ \A e \in Slots : sess.L < e /\ e <= F => outcome[e] \in Resolved

\* The want of a round is a failed slot.
WantContract == TypeOK => Want \in Marks /\ (Want >= 0 => Want \in Slots /\ outcome[Want] = "failed")

\* A round starts above the lowest commit of the live set, a login truncates above the highest last.
LiveContract ==
    TypeOK /\ up[Leader] =>
        LET floor == Min({rep[r].commit : r \in Live})
            rs == Max({rep[r].last : r \in Live})
        IN  /\ floor \in Marks /\ \A r \in Live : floor <= rep[r].commit
            /\ rs \in Marks /\ \A r \in Live : rep[r].last <= rs

Contracts ==
    /\ ApplyContract /\ WriteContract /\ KeepAliveContract /\ DecideContract
    /\ QuorumContract /\ FrontierContract /\ WantContract /\ LiveContract
=============================================================================
