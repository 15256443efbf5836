----------------------------- MODULE MemCluster -----------------------------
(***************************************************************************)
(* A replica set behind the in-memory transport (class MemTransport), and  *)
(* the client sessions that write to it: delivery with refusals, timeouts  *)
(* and late arrivals, the resolution round, login in four phases, logout.  *)
(*                                                                         *)
(* A replica's methods hold its mutex; the round and the login hold none   *)
(* between replica calls.  With OneQueue they run without a suspension on  *)
(* the only thread, so nothing interleaves.  A new session is a new client *)
(* object: replies to the one it replaces are of no interest.              *)
(***************************************************************************)
EXTENDS MemReplica, FiniteSets

CONSTANTS
    Replicas, Leader,
    OneQueue,
    MaxSessions,  \* bound: logins
    MaxDropped,   \* bound: legs that are never delivered
    MaxLate,      \* bound: legs that time out and are delivered late
    MaxDowns,     \* bound: times a replica goes down
    StaleReturns  \* bound: whether a replica that missed a login comes back without being resynced

ASSUME ClusterAssumption ==
    /\ Leader \in Replicas /\ IsFiniteSet(Replicas) /\ {OneQueue, StaleReturns} \subseteq BOOLEAN
    /\ {MaxSlots, MaxSessions, MaxDropped, MaxLate, MaxDowns} \subseteq Nat

Quorum == Cardinality(Replicas) \div 2 + 1

VARIABLES
    rep, up,          \* the replicas, and which are reachable
    term,             \* term_: the last term minted
    sess,             \* the client's session: its term, login dLSN, and whether login admitted it
    outcome,          \* the client's view of the session's slots
    open,             \* writes that have not returned to their caller
    leg, hdr,         \* each write's legs, and the commit_lsn its header carries
    late,             \* timed-out writes still on the wire
    round, login,     \* a resolution round and a login in progress
    acked,            \* writes acknowledged so far, as slot and term
    excluded, missed, \* replicas that were down when a round, or a login, ran (history)
    dropped, lates, downs

clientVars == <<sess, outcome, open, leg, hdr, acked>>
faultVars  == <<excluded, missed, dropped, lates, downs>>
vars == <<rep, up, term, clientVars, late, round, login, faultVars>>

Resolved == {"acked", "empty"}
NoRound == [pc |-> "idle", term |-> 0, upto |-> -1, live |-> {}, d |-> -1, verdict |-> Missing, empties |-> {}]
NoLogin == [pc |-> "idle", live |-> {}, rs |-> -1]
NoSession == [term |-> 0, L |-> -1, admitted |-> FALSE]

Init ==
    /\ rep = [r \in Replicas |-> Fresh] /\ up = [r \in Replicas |-> TRUE] /\ term = 0
    /\ sess = NoSession
    /\ outcome = [d \in Slots |-> "none"] /\ open = {}
    /\ leg = [d \in Slots |-> [r \in Replicas |-> "none"]] /\ hdr = [d \in Slots |-> -1]
    /\ late = {} /\ round = NoRound /\ login = NoLogin
    /\ acked = {} /\ excluded = {} /\ missed = {} /\ dropped = 0 /\ lates = 0 /\ downs = 0

Scheduled == OneQueue => round.pc = "idle" /\ login.pc = "idle"
Live == {r \in Replicas : up[r]}
OnLive(live, Op(_)) == rep' = [r \in Replicas |-> IF r \in live THEN Op(rep[r]) ELSE rep[r]]

\* The client's frontier F: the resolved prefix above the login dLSN.
F == Max({sess.L} \cup {x \in Slots : x > sess.L /\ \A d \in Slots :
                                        sess.L < d /\ d <= x => outcome[d] \in Resolved})
Ha == Max({sess.L} \cup {d \in Slots : outcome[d] = "acked"})
-----------------------------------------------------------------------------
\* write(): the next dLSN goes out to every member; an unreachable one refuses at once.
Write ==
    /\ Scheduled /\ sess.admitted
    /\ \E d \in Slots :
         /\ d > sess.L /\ outcome[d] = "none" /\ \A e \in Slots : sess.L < e /\ e < d => outcome[e] # "none"
         /\ outcome' = [outcome EXCEPT ![d] = "flying"] /\ open' = open \cup {d}
         /\ leg' = [leg EXCEPT ![d] = [r \in Replicas |-> IF up[r] THEN "wire" ELSE "down"]]
         /\ hdr' = [hdr EXCEPT ![d] = F]
    /\ UNCHANGED <<rep, up, term, sess, acked, late, round, login, faultVars>>

\* The request arrives.  The replica may have gone down meanwhile, or drop it.
Deliver(d, r) ==
    /\ Scheduled /\ leg[d][r] = "wire"
    /\ IF up[r]
       THEN /\ rep' = [rep EXCEPT ![r] = do_write(@, sess.term, d, hdr[d])]
            /\ leg' = [leg EXCEPT ![d][r] = WriteReply(rep[r], sess.term, d)]
       ELSE /\ leg' = [leg EXCEPT ![d][r] = "down"]
            /\ UNCHANGED rep
    /\ UNCHANGED <<up, term, sess, outcome, open, hdr, acked, late, round, login, faultVars>>

Drop(d, r) ==
    /\ Scheduled /\ leg[d][r] = "wire" /\ dropped < MaxDropped
    /\ leg' = [leg EXCEPT ![d][r] = "down"]
    /\ dropped' = dropped + 1
    /\ UNCHANGED <<rep, up, term, sess, outcome, open, hdr, acked, late, round, login, excluded, missed, lates, downs>>

\* plan_delivery(): a delay past the deadline abandons the leg, and the write still lands later, if
\* it is not dropped on the way.
Message(d, r) == [to |-> r, slot |-> d, term |-> sess.term, commit |-> hdr[d]]

TimeOut(d, r) ==
    /\ Scheduled /\ leg[d][r] = "wire" /\ lates < MaxLate
    /\ leg' = [leg EXCEPT ![d][r] = "timeout"]
    /\ late' = late \cup {Message(d, r)}
    /\ lates' = lates + 1
    /\ UNCHANGED <<rep, up, term, sess, outcome, open, hdr, acked, round, login, excluded, missed, dropped, downs>>

late_write(m) ==
    /\ Scheduled /\ up[m.to]
    /\ rep' = [rep EXCEPT ![m.to] = do_write(@, m.term, m.slot, m.commit)]
    /\ late' = late \ {m}
    /\ UNCHANGED <<up, term, clientVars, round, login, faultVars>>

\* Mutant: a timeout counts as a refusal.
Refused_Timeout(d) == {r \in Replicas : leg[d][r] \in {"down", "refused", "timeout"}}

\* write() after the latch.  A refusal is deterministic: the member provably did not append.
Refused(d) == {r \in Replicas : leg[d][r] \in {"down", "refused"}}
Acks(d)    == {r \in Replicas : leg[d][r] = "acked"}

\* A slot a round has retired meanwhile keeps the round's verdict; the caller still gets its answer.
WriteDone(d) ==
    /\ Scheduled /\ d \in open
    /\ \/ /\ Cardinality(Acks(d)) >= Quorum
          /\ outcome' = [outcome EXCEPT ![d] = IF @ = "flying" THEN "acked" ELSE @]
          /\ acked' = acked \cup {[slot |-> d, term |-> sess.term]}
       \/ /\ Cardinality(Acks(d)) < Quorum /\ \A r \in Replicas : leg[d][r] # "wire"
          /\ outcome' = [outcome EXCEPT ![d] = IF @ # "flying" THEN @
                                               ELSE IF Refused(d) = Replicas THEN "empty" ELSE "failed"]
          /\ UNCHANGED acked
    /\ open' = open \ {d}
    /\ UNCHANGED <<rep, up, term, sess, leg, hdr, late, round, login, faultVars>>

\* Mutant: the header carries Ha instead of F.
KeepAlive_CommitHa(r) ==
    /\ Scheduled /\ sess.admitted /\ up[r]
    /\ rep' = [rep EXCEPT ![r] = do_keep_alive(@, sess.term, Ha)]
    /\ UNCHANGED <<up, term, clientVars, late, round, login, faultVars>>

\* flush(), a keep_alive, or the header of a read: the commit frontier reaches member r.
KeepAlive(r) ==
    /\ Scheduled /\ sess.admitted /\ up[r]
    /\ rep' = [rep EXCEPT ![r] = do_keep_alive(@, sess.term, F)]
    /\ UNCHANGED <<up, term, clientVars, late, round, login, faultVars>>

GoDown(r) ==
    /\ Scheduled /\ up[r] /\ downs < MaxDowns
    /\ up' = [up EXCEPT ![r] = FALSE] /\ downs' = downs + 1
    /\ UNCHANGED <<rep, term, clientVars, late, round, login, excluded, missed, dropped, lates>>

ComeUp(r) ==
    /\ Scheduled /\ ~up[r] /\ (StaleReturns \/ r \notin missed)
    /\ up' = [up EXCEPT ![r] = TRUE]
    /\ UNCHANGED <<rep, term, clientVars, late, round, login, faultVars>>
-----------------------------------------------------------------------------
\* run_resolution(): the leader resolves every slot up to the want, over the live set.
Want == Max({-1} \cup {d \in Slots : outcome[d] = "failed"})
NextScan(d, upto) == IF d <= upto THEN "peek" ELSE "sync"

RoundBegin ==
    /\ Scheduled /\ round.pc = "idle" /\ Want >= 0
    /\ up[Leader] /\ rep[Leader].term = sess.term /\ term = sess.term
    /\ Cardinality(Live) >= Quorum
    /\ LET floor == Min({rep[r].commit : r \in Live})
       IN  round' = [NoRound EXCEPT !.pc = NextScan(floor + 1, Want), !.term = sess.term,
                                    !.upto = Want, !.live = Live, !.d = floor + 1]
    /\ excluded' = excluded \cup (Replicas \ Live)
    /\ UNCHANGED <<rep, up, term, clientVars, late, login, missed, dropped, lates, downs>>

\* A verdict in any live journal, or a slot no live member holds, is Empty; else take a copy.
RoundPeek ==
    /\ round.pc = "peek"
    /\ LET seen == {rep[r].journal[round.d] : r \in round.live}
       IN  IF Empty \in seen \/ seen = {Missing}
           THEN round' = [round EXCEPT !.pc = "mark", !.verdict = Empty]
           ELSE \E copy \in seen \ {Missing} : round' = [round EXCEPT !.pc = "mark", !.verdict = copy]
    /\ UNCHANGED <<rep, up, term, clientVars, late, login, faultVars>>

RoundMark ==
    /\ round.pc = "mark"
    /\ LET decide(s) == IF round.verdict = Empty THEN cold_mark_empty(s, round.d)
                        ELSE cold_install_slot(s, round.d, round.verdict)
       IN  OnLive(round.live, decide)
    /\ round' = [round EXCEPT !.pc = NextScan(round.d + 1, round.upto), !.d = @ + 1, !.verdict = Missing]
    /\ UNCHANGED <<up, term, clientVars, late, login, faultVars>>

RoundSync ==
    /\ round.pc = "sync"
    /\ LET sync(s) == cold_apply_sync(s, round.upto) IN OnLive(round.live, sync)
    /\ round' = [round EXCEPT !.pc = "reply", !.live = {}, !.d = -1,
                              !.empties = peek_empties(rep[Leader], round.upto)]
    /\ UNCHANGED <<up, term, clientVars, late, login, faultVars>>

\* retire_upto(): the session that asked gives its unresolved slots the round's verdict.
RoundReply ==
    /\ round.pc = "reply"
    /\ LET pending == {d \in Slots : /\ d <= round.upto /\ round.term = sess.term
                                     /\ outcome[d] \in {"flying", "failed"}}
           filled == pending \ round.empties
       IN  /\ outcome' = [d \in Slots |-> IF d \in filled THEN "acked"
                                          ELSE IF d \in pending THEN "empty" ELSE outcome[d]]
           /\ acked' = acked \cup {[slot |-> d, term |-> sess.term] : d \in filled}
    /\ round' = NoRound
    /\ UNCHANGED <<rep, up, term, sess, open, leg, hdr, late, login, faultVars>>
-----------------------------------------------------------------------------
\* Requests of a session that ends may still arrive, with its term.
OnWire == {Message(dr[1], dr[2]) : dr \in {x \in Slots \X Replicas : leg[x[1]][x[2]] = "wire"}}

EndSession(new) ==
    /\ sess' = new
    /\ \E left \in SUBSET OnWire :
         /\ lates' = lates + Cardinality(left) /\ lates' <= MaxLate
         /\ late' = late \cup left
    /\ outcome' = [d \in Slots |-> "none"] /\ open' = {}
    /\ leg' = [d \in Slots |-> [r \in Replicas |-> "none"]] /\ hdr' = [d \in Slots |-> -1]
    /\ UNCHANGED <<acked, dropped, downs>>

\* Mutant: Phase 1 takes the least last_append_lsn of the live set.
LoginBegin_Min ==
    /\ Scheduled /\ login.pc = "idle" /\ term < MaxSessions
    /\ up[Leader] /\ Cardinality(Live) >= Quorum
    /\ term' = term + 1
    /\ login' = [pc |-> "sync", live |-> Live, rs |-> Min({rep[r].last : r \in Live})]
    /\ missed' = missed \cup (Replicas \ Live)
    /\ UNCHANGED <<rep, up, clientVars, late, round, excluded, dropped, lates, downs>>

\* run_login(), Phase 1: mint a term over a live quorum; rs is the highest last_append_lsn in it.
LoginBegin ==
    /\ Scheduled /\ login.pc = "idle" /\ term < MaxSessions
    /\ up[Leader] /\ Cardinality(Live) >= Quorum
    /\ term' = term + 1
    /\ login' = [pc |-> "sync", live |-> Live, rs |-> Max({rep[r].last : r \in Live})]
    /\ missed' = missed \cup (Replicas \ Live)
    /\ UNCHANGED <<rep, up, clientVars, late, round, excluded, dropped, lates, downs>>

LoginSync ==
    /\ login.pc = "sync"
    /\ LET sync(s) == cold_apply_sync(s, login.rs) IN OnLive(login.live, sync)
    /\ login' = [login EXCEPT !.pc = "term"]
    /\ UNCHANGED <<up, term, clientVars, late, round, faultVars>>

LoginTerm ==
    /\ login.pc = "term"
    /\ LET enter(s) == cold_apply_login(s, term) IN OnLive(login.live, enter)
    /\ login' = [login EXCEPT !.pc = "truncate"]
    /\ UNCHANGED <<up, term, clientVars, late, round, faultVars>>

\* Phase 4, and the client takes the result: the next dLSN is rs + 1.
LoginTruncate ==
    /\ login.pc = "truncate"
    /\ LET cut(s) == IF s.last > login.rs THEN cold_truncate_above(s, login.rs) ELSE s
       IN  OnLive(login.live, cut)
    /\ EndSession([term |-> term, L |-> login.rs, admitted |-> FALSE])
    /\ login' = NoLogin
    /\ UNCHANGED <<up, term, round, excluded, missed>>

\* One pass of login's probe loop: admitted once a quorum answers and one member has applied L.
Probe ==
    /\ Scheduled /\ sess.term > 0 /\ ~sess.admitted
    /\ LET answering == {r \in Live : rep[r].term = sess.term}
       IN  /\ LET probe(s) == do_keep_alive(s, sess.term, sess.L) IN OnLive(Live, probe)
           /\ sess' = [sess EXCEPT !.admitted = /\ Cardinality(answering) >= Quorum
                                               /\ \E r \in answering : rep'[r].commit >= sess.L]
    /\ UNCHANGED <<up, term, outcome, open, leg, hdr, acked, late, round, login, faultVars>>

Logout ==
    /\ Scheduled /\ sess.term > 0 /\ up[Leader] /\ rep[Leader].term = sess.term
    /\ OnLive(Live, cold_apply_logout)
    /\ EndSession(NoSession)
    /\ UNCHANGED <<up, term, round, login, excluded, missed>>

Next ==
    \/ Write
    \/ \E d \in Slots, r \in Replicas : Deliver(d, r) \/ Drop(d, r) \/ TimeOut(d, r)
    \/ \E m \in late : late_write(m)
    \/ \E d \in Slots : WriteDone(d)
    \/ \E r \in Replicas : KeepAlive(r) \/ GoDown(r) \/ ComeUp(r)
    \/ RoundBegin \/ RoundPeek \/ RoundMark \/ RoundSync \/ RoundReply
    \/ LoginBegin \/ LoginSync \/ LoginTerm \/ LoginTruncate \/ Probe \/ Logout

Spec == Init /\ [][Next]_vars
-----------------------------------------------------------------------------
\* No replica has applied past a slot it lacks: commit_lsn of a later write, a keep_alive or a round's sync
\* stalls at the first hole, as the comment in read_range() relies on, and truncation stops above it.
AppliedIsPresent ==
    \A r \in Replicas : \A d \in Slots : d <= rep[r].commit => Present(rep[r], d)

\* A write acknowledged to its caller, by its own legs or by the round that filled it, stays in the
\* journals of a quorum: no Empty verdict, no truncation and no later session's write replaces it.
AckedHeld ==
    \A a \in acked : Cardinality({r \in Replicas : rep[r].journal[a.slot] = a.term}) >= Quorum

\* While no login deposes it, no replica applies a slot of the session that the client has not resolved:
\* commit_lsn only reaches it from a frontier, or from a round whose verdict is fixed on the live set.
AppliedIsDecided ==
    \A r \in Replicas : \A d \in Slots :
        sess.term = term /\ rep[r].term = term /\ sess.L < d /\ d <= rep[r].commit =>
            outcome[d] \in Resolved \/ (round.pc = "reply" /\ d <= round.upto)

\* Replicas are state machines over one log: those that took part in every round and login agree
\* on every slot two of them have applied, and serve the same block once they have applied equally far.
AppliedAgree ==
    \A r, s \in Replicas \ (excluded \cup missed) :
        /\ \A d \in Slots : d <= rep[r].commit /\ d <= rep[s].commit => rep[r].journal[d] = rep[s].journal[d]
        /\ rep[r].commit = rep[s].commit => rep[r].index = rep[s].index

\* In the current session a member that acknowledged the newest write, or has applied it, answers a read
\* of the block at the client's horizon with that write, and with none of the session's when there is
\* none.
ReadNewest ==
    \A r \in Replicas \ (excluded \cup missed) :
        LET newest == do_read(rep[r], F, Max({F, Ha}))
        IN  Scheduled /\ sess.admitted /\ sess.term = term /\ rep[r].term = term =>
            /\ Ha > sess.L /\ (leg[Ha][r] = "acked" \/ rep[r].commit >= Ha) =>
                  newest = [dlsn |-> Ha, term |-> sess.term]
            /\ Ha = sess.L /\ rep[r].commit >= sess.L => newest.dlsn <= sess.L

\* A slot the client counts as Empty, by its own legs' refusals or by a round, is in no journal of a
\* member that took part in every round and login: a leg that timed out and lands late is refused by the tombstone.
EmptyHasNoCopy ==
    \A d \in Slots : outcome[d] = "empty" =>
        \A r \in Replicas \ (excluded \cup missed) : rep[r].term = sess.term => ~Holds(rep[r], d)

\* A slot the client counts as Empty is "provably absent set-wide": no member of the session has it.
EmptyIsAbsent ==
    \A d \in Slots : outcome[d] = "empty" =>
        \A r \in Replicas : rep[r].term = sess.term => ~Holds(rep[r], d)
=============================================================================
