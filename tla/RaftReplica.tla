----------------------------- MODULE RaftReplica -----------------------------
(***************************************************************************)
(* RAFT-backed replicas (class RaftReplica) behind craft_tcp_server: the   *)
(* four-phase login on the leader's connection thread, the peer verbs it   *)
(* polls and fetches with, the login quiesce and its watchdog timer, the   *)
(* commit worker that applies SyncRSCommitLSN and InternalLogin, and the   *)
(* server-wide session that stamps a term on every IO.                     *)
(*                                                                         *)
(* NuRaft is external: an accepted proposal is in the log and every        *)
(* replica's worker gets to it in log order, in its own time.  The leader  *)
(* does not change.  A journal slot's content is the client that wrote it. *)
(* A step holds mu_ once and makes one peer call; the two proposals of a   *)
(* login are one step.                                                     *)
(***************************************************************************)
EXTENDS MemReplica, Sequences, FiniteSets

CONSTANTS
    N,          \* the members, in the order they were registered
    Leader,
    Clients,    \* client tokens
    SoleWriter, \* a client logs in only once the others have gone for good, and what they sent
                \* reaches a member before its commit of that login or never
    MaxLogins,  \* bound: LOGINs
    MaxFaults   \* bound: peer calls, proposals and waits that fail, timers that expire

Members == 1..N

ASSUME RaftAssumption ==
    /\ N \in Nat \ {0} /\ Leader \in Members /\ IsFiniteSet(Clients) /\ Clients \subseteq Nat \ {0}
    /\ SoleWriter \in BOOLEAN /\ {MaxLogins, MaxFaults} \subseteq Nat

VARIABLES
    rep, token,    \* the replicas' CRAFT state, and the client_token beside its term
    timer,         \* the quiesce timer that is armed, and the one whose callback has started
    srv,           \* next_term_, session_term_ and session_active_ of each server
    log, work,     \* the RAFT log, and each commit worker's position in it
    login, done,   \* the login a connection thread runs for a client, and login_done_
    client, wire,  \* the clients, and their writes on the wire
    acked,         \* writes acknowledged by a quorum (history)
    missed,        \* members a login did not hear from, or not hold until its commit (history)
    faults

vars == <<rep, token, timer, srv, log, work, login, done, client, wire, acked, missed, faults>>

NoTimer  == [term |-> 0, old |-> 0]
NoLogin  == [pc |-> "idle", term |-> 0, peer |-> 0, polled |-> {}, rs |-> -1, missing |-> {},
             resp |-> <<>>, empties |-> {}]
NoClient == [pc |-> "out", term |-> 0, L |-> -1, next |-> 0, bound |-> {}, acks |-> [d \in Slots |-> {}]]

Init ==
    /\ rep = [r \in Members |-> Fresh] /\ token = [r \in Members |-> 0]
    /\ timer = [r \in Members |-> [armed |-> NoTimer, firing |-> NoTimer]]
    /\ srv = [r \in Members |-> [next |-> 0, term |-> 0, active |-> FALSE]]
    /\ log = <<>> /\ work = [r \in Members |-> [at |-> 1, busy |-> FALSE, peer |-> 0, missing |-> {}]]
    /\ login = [c \in Clients |-> NoLogin] /\ done = FALSE
    /\ client = [c \in Clients |-> NoClient] /\ wire = {}
    /\ acked = {} /\ missed = {} /\ faults = 0

Fault == faults < MaxFaults /\ faults' = faults + 1
Majority == N \div 2 + 1
Called(ok) == IF ok THEN UNCHANGED faults ELSE Fault

\* The absent slots above commit_lsn, up to the watermark.
get_missing_slots(s, watermark) == {d \in Slots : s.commit < d /\ d <= watermark /\ ~Present(s, d)}

\* The members of the volume are asked in the order they were registered.
get_volume(r, p) == Min({N + 1} \cup {q \in Members : q > p /\ q # r})
is_leader(r) == r = Leader

\* FetchData: what a peer's journal has of the slots asked for, the omitted ones Missing.  The call brings
\* the answer back, or nothing.
do_fetch(s, lsns) == [d \in lsns |-> s.journal[d]]
on_fetch_data(r, lsns) == do_fetch(rep[r], lsns)
fetch_data(r, lsns) == {<<TRUE, on_fetch_data(r, lsns)>>, <<FALSE, <<>>>>}

\* A fetched slot is installed, or its verdict taken over.
TakeAll(s, got) ==
    LET taken == {d \in DOMAIN got : got[d] # Missing /\ (got[d] = Empty \/ ~Present(s, d))}
    IN  [s EXCEPT !.journal = [d \in Slots |-> IF d \in taken THEN got[d] ELSE @[d]],
                  !.last = Max({@} \cup taken)]
-----------------------------------------------------------------------------
\* A login that fails, or is redirected, leaves its server without a session.
Fail(c) ==
    /\ srv' = [srv EXCEPT ![Leader].active = FALSE]
    /\ login' = [login EXCEPT ![c] = NoLogin] /\ client' = [client EXCEPT ![c] = NoClient]

\* apply_login() begins: only the leader goes on, with its own last_append_lsn.
apply_login(c, r, t) ==
    IF ~is_leader(r) THEN UNCHANGED login
    ELSE login' = [login EXCEPT ![c] = [NoLogin EXCEPT !.pc = "poll", !.term = t, !.peer = get_volume(r, 0),
                                                       !.polled = {r}, !.rs = rep[r].last]]

\* LOGIN mints the server's next term, and session_term_ takes it before anything is established.
on_login(c, r) ==
    /\ client[c].pc = "out" /\ login[c].pc = "idle" /\ \A o \in Clients : o < c => client[o].pc # "out"
    /\ SoleWriter => \A o \in Clients : o < c => client[o].pc = "gone"
    /\ MapThenSumSet(LAMBDA x : srv[x].next, Members) < MaxLogins
    /\ LET t == srv[r].next + 1
       IN  /\ srv' = [srv EXCEPT ![r] = [next |-> t, term |-> t, active |-> is_leader(r) /\ @.active]]
           /\ apply_login(c, r, t)
    /\ UNCHANGED <<rep, token, timer, log, work, done, client, wire, acked, missed, faults>>

\* Mutant: the member keeps its term.
do_get_rs_commit_lsn_NoQuiesce(r, t) == UNCHANGED <<rep, timer>>

\* The watchdog's timers: one is armed, or taken off before it is due.
add_oneshot(r, t, old) == [timer EXCEPT ![r].armed = [term |-> t, old |-> old]]
cancel(r) == [timer EXCEPT ![r].armed = NoTimer]

\* GetRSCommitLSN for a login: the member takes the proposed term, so that older IO is fenced, and arms
\* a timer that gives the old one back.
do_get_rs_commit_lsn(r, t) ==
    /\ rep' = [rep EXCEPT ![r].term = t]
    /\ timer' = add_oneshot(r, t, rep[r].term)
on_get_rs_commit_lsn(r, t) == do_get_rs_commit_lsn(r, t)

\* The call: the member answers, or its answer is lost, or the request is.
get_rs_commit_lsn(r, t, ok) ==
    /\ Called(ok)
    /\ on_get_rs_commit_lsn(r, t) \/ (~ok /\ UNCHANGED <<rep, timer>>)

\* Mutant: the highest commit_lsn, not the highest last_append_lsn.
watermark_Commit(rs, s) == Max({rs, s.commit})

watermark(rs, s) == Max({rs, s.last})

\* Phase 1.2: poll the next member.
Poll(c) ==
    LET l == login[c]
    IN  /\ l.pc = "poll" /\ l.peer \in Members
        /\ \E ok \in BOOLEAN :
             /\ get_rs_commit_lsn(l.peer, l.term, ok)
             /\ login' = [login EXCEPT ![c] = [@ EXCEPT !.peer = get_volume(Leader, @),
                             !.polled = IF ok THEN @ \cup {l.peer} ELSE @,
                             !.rs = IF ok THEN watermark(@, rep[l.peer]) ELSE @]]
        /\ UNCHANGED <<token, srv, log, work, done, client, wire, acked, missed>>

\* The quorum check, and the leader's own gaps below the watermark.
Watermark(c) ==
    LET l == login[c]
        gaps == get_missing_slots(rep[Leader], l.rs)
    IN  /\ l.pc = "poll" /\ l.peer \notin Members
        /\ IF Cardinality(l.polled) <= N \div 2
           THEN Fail(c)
           ELSE /\ login' = [login EXCEPT ![c] = [@ EXCEPT !.pc = IF gaps = {} THEN "propose" ELSE "fetch",
                                                  !.peer = get_volume(Leader, 0), !.missing = gaps]]
                /\ UNCHANGED <<srv, client>>
        /\ UNCHANGED <<rep, token, timer, log, work, done, wire, acked, missed, faults>>

\* resolve_and_apply(), step 1: ask every other member for the missing slots.
Fetch(c) ==
    LET l == login[c]
    IN  /\ l.pc = "fetch" /\ l.peer \in Members
        /\ \E a \in fetch_data(l.peer, l.missing) :
             /\ Called(a[1])
             /\ login' = [login EXCEPT ![c] = [@ EXCEPT !.peer = get_volume(Leader, @),
                                                        !.resp = IF a[1] THEN Append(@, a[2]) ELSE @]]
        /\ UNCHANGED <<rep, token, timer, srv, log, work, done, client, wire, acked, missed>>

\* Step 2: the first response with data gives the slot its content.  The responses before it that omit
\* the slot, or have it as a tombstone, and the leader itself, lack it.
\* Mutant: a slot nobody answered for counts the leader twice.
lacks_count_Twice(resp, d) == Min({Len(resp) + 1} \cup {i \in DOMAIN resp : resp[i][d] > 0}) + 1

FirstData(resp, d) == Min({Len(resp) + 1} \cup {i \in DOMAIN resp : resp[i][d] > 0})
lacks_count(resp, d) == FirstData(resp, d)

resolve_and_apply(c) ==
    LET l       == login[c]
        found   == {d \in l.missing : FirstData(l.resp, d) <= Len(l.resp)}
        empties == {d \in l.missing : lacks_count(l.resp, d) >= Majority}
    IN  /\ l.pc = "fetch" /\ l.peer \notin Members
        /\ rep' = [rep EXCEPT ![Leader] = TakeAll(@, [d \in found |-> l.resp[FirstData(l.resp, d)][d]])]
        /\ IF found \cup empties # l.missing
           THEN Fail(c)
           ELSE /\ login' = [login EXCEPT ![c] = [@ EXCEPT !.pc = "propose", !.missing = {}, !.resp = <<>>,
                                                          !.empties = empties]]
                /\ UNCHANGED <<srv, client>>
        /\ UNCHANGED <<token, timer, log, work, done, wire, acked, missed, faults>>

\* The two RAFT messages as the commit callback decodes them: InternalLogin's JSON has no rs_commit_lsn.
SyncRSCommitLSNMsg(rs, empties) == [op |-> "sync", rs |-> rs, empties |-> empties]
InternalLoginMsg(c, t, rs)      == [op |-> "login", token |-> c, term |-> t, rs |-> -1]

\* An accepted proposal is in the log.
propose(entries, msg) == Append(entries, msg)
sync_rs_commit_lsn(l) == propose(log, SyncRSCommitLSNMsg(l.rs, l.empties))

\* Phases 2 and 3: propose SyncRSCommitLSN, then InternalLogin; a refused proposal ends the login.
Propose(c) ==
    LET l == login[c]
        sync == sync_rs_commit_lsn(l)
    IN  /\ l.pc = "propose"
        /\ \/ /\ log' = propose(sync, InternalLoginMsg(c, l.term, l.rs)) /\ done' = FALSE
              /\ login' = [login EXCEPT ![c] = [NoLogin EXCEPT !.pc = "wait", !.rs = l.rs]]
              /\ missed' = missed \cup (Members \ l.polled)
              /\ UNCHANGED <<srv, client, faults>>
           \/ /\ Fault /\ Fail(c)
              /\ \/ log' = sync /\ done' = FALSE
                 \/ UNCHANGED <<log, done>>
              /\ UNCHANGED missed
        /\ UNCHANGED <<rep, token, timer, work, wire, acked>>

\* The wait for login_done_, and the LOGIN reply, with session_term_ as it is by then.
Established(c) ==
    LET l == login[c]
    IN  /\ l.pc = "wait"
        /\ \/ /\ done
              /\ srv' = [srv EXCEPT ![Leader].active = TRUE]
              /\ client' = [client EXCEPT ![c] = [NoClient EXCEPT !.pc = "live", !.term = srv[Leader].term,
                                                  !.L = l.rs, !.next = l.rs + 1, !.bound = {Leader}]]
              /\ login' = [login EXCEPT ![c] = NoLogin]
              /\ UNCHANGED faults
           \/ ~done /\ Fault /\ Fail(c)
        /\ UNCHANGED <<rep, token, timer, log, work, done, wire, acked, missed>>
-----------------------------------------------------------------------------
\* The commit callback queues one task per entry, in log order; the worker runs one at a time.
commit_cb(r, op) == work[r].at \in DOMAIN log /\ log[work[r].at].op = op
Task(r, op) == ~work[r].busy /\ commit_cb(r, op)

\* The end of apply_sync(): nothing is missing, or nobody is left to ask.
Rest(r, s, w) ==
    IF w.missing = {} \/ w.peer \notin Members
    THEN /\ rep' = [rep EXCEPT ![r] = apply_up_to(s, log[w.at].rs)]
         /\ work' = [work EXCEPT ![r] = [at |-> w.at + 1, busy |-> FALSE, peer |-> 0, missing |-> {}]]
    ELSE rep' = [rep EXCEPT ![r] = s] /\ work' = [work EXCEPT ![r] = w]

\* apply_sync(): take the leader's Empty verdicts, then look for the slots still missing.
apply_sync(r) ==
    /\ Task(r, "sync")
    /\ LET m == log[work[r].at]
           s == TakeAll(rep[r], [d \in m.empties |-> Empty])
       IN  Rest(r, s, [work[r] EXCEPT !.busy = TRUE, !.peer = get_volume(r, 0),
                                      !.missing = get_missing_slots(s, m.rs)])
    /\ UNCHANGED <<token, timer, srv, log, login, done, client, wire, acked, missed, faults>>

\* It asks one peer after the other for them; one that cannot be reached is passed over.
CatchUp(r) ==
    LET w == work[r]
    IN  /\ w.busy
        /\ \E a \in fetch_data(w.peer, w.missing) :
             /\ Called(a[1])
             /\ Rest(r, IF a[1] THEN TakeAll(rep[r], a[2]) ELSE rep[r],
                     [w EXCEPT !.peer = get_volume(r, @),
                               !.missing = IF a[1] THEN {d \in @ : a[2][d] = Missing} ELSE @])
        /\ UNCHANGED <<token, timer, srv, log, login, done, client, wire, acked, missed>>

\* internal_login(): the session is the token's, at its term; the pending timer is cancelled.
internal_login(r) ==
    /\ Task(r, "login")
    /\ LET m == log[work[r].at]
           s == [rep[r] EXCEPT !.term = m.term]
       IN  /\ rep' = [rep EXCEPT ![r] = IF m.rs >= 0 THEN cold_truncate_above(s, m.rs) ELSE s]
           /\ token' = [token EXCEPT ![r] = m.token]
           /\ missed' = IF timer[r].armed.term <= m.term THEN missed ELSE missed \cup {r}
           /\ wire' = IF SoleWriter THEN {x \in wire : x.to = r => x.from = m.token} ELSE wire
    /\ timer' = cancel(r)
    /\ done' = (done \/ r = Leader)
    /\ work' = [work EXCEPT ![r].at = @ + 1]
    /\ UNCHANGED <<srv, log, login, client, acked, faults>>

\* The watchdog thread takes a timer that is due off its heap, then runs the callback, which needs mu_.
Expire(r) ==
    /\ timer[r].armed # NoTimer /\ timer[r].firing = NoTimer /\ Fault
    /\ timer' = [timer EXCEPT ![r] = [armed |-> NoTimer, firing |-> timer[r].armed]]
    /\ UNCHANGED <<rep, token, srv, log, work, login, done, client, wire, acked, missed>>

Restore(r) ==
    LET t == timer[r].firing
    IN  /\ t # NoTimer
        /\ rep' = [rep EXCEPT ![r].term = IF @ = t.term THEN t.old ELSE @]
        /\ timer' = [timer EXCEPT ![r].firing = NoTimer]
        /\ missed' = IF rep'[r] = rep[r] THEN missed ELSE missed \cup {r}
        /\ UNCHANGED <<token, srv, log, work, login, done, client, wire, acked, faults>>
-----------------------------------------------------------------------------
\* The client's frontier: the prefix of its slots that a quorum has acknowledged.
F(c) == Max({client[c].L} \cup {x \in Slots : x > client[c].L /\
               \A d \in Slots : client[c].L < d /\ d <= x => [slot |-> d, by |-> c] \in acked})

\* HELO binds a connection at the term and token the replica already has, and the server takes the term.
on_helo(c, r) ==
    /\ client[c].pc = "live" /\ r \notin client[c].bound
    /\ rep[r].term = client[c].term /\ token[r] = c
    /\ srv' = [srv EXCEPT ![r].term = client[c].term, ![r].active = TRUE]
    /\ client' = [client EXCEPT ![c].bound = @ \cup {r}]
    /\ UNCHANGED <<rep, token, timer, log, work, login, done, wire, acked, missed, faults>>

\* A write goes to every member the client is bound to.
Write(c) ==
    /\ client[c].pc = "live" /\ client[c].next \in Slots
    /\ wire' = wire \cup {[from |-> c, to |-> r, slot |-> client[c].next, commit |-> F(c)] : r \in client[c].bound}
    /\ client' = [client EXCEPT ![c].next = @ + 1]
    /\ UNCHANGED <<rep, token, timer, srv, log, work, login, done, acked, missed, faults>>

\* The server stamps the write with its own session_term_; the replica fences by it.
on_write(m) ==
    LET s == rep[m.to]
        c == m.from
        taken == srv[m.to].active /\ WriteReply(s, srv[m.to].term, m.slot) = "acked"
        acks == client[c].acks[m.slot] \cup {m.to}
    IN  /\ wire' = wire \ {m}
        /\ IF ~taken THEN UNCHANGED <<rep, client, acked>>
           ELSE /\ rep' = [rep EXCEPT ![m.to] =
                      apply_up_to([s EXCEPT !.journal[m.slot] = c, !.last = Max({@, m.slot})], m.commit)]
                /\ IF client[c].pc # "live" THEN UNCHANGED <<client, acked>>
                   ELSE /\ client' = [client EXCEPT ![c].acks[m.slot] = acks]
                        /\ acked' = IF Cardinality(acks) >= Majority
                                    THEN acked \cup {[slot |-> m.slot, by |-> c]} ELSE acked
        /\ UNCHANGED <<token, timer, srv, log, work, login, done, missed, faults>>

\* A keep_alive or a read brings the client's frontier to the replica, if the session's term fits.
Frontier(c, r) ==
    /\ client[c].pc = "live" /\ r \in client[c].bound /\ srv[r].active
    /\ rep' = [rep EXCEPT ![r] = do_keep_alive(@, srv[r].term, F(c))]
    /\ UNCHANGED <<token, timer, srv, log, work, login, done, client, wire, acked, missed, faults>>

on_keep_alive(c, r) == Frontier(c, r)
on_read(c, r)       == Frontier(c, r)

\* LOGOUT at the leader ends whatever session its server has, there and nowhere else.
on_logout(c) ==
    /\ client[c].pc = "live"
    /\ IF srv[Leader].active
       THEN /\ srv' = [srv EXCEPT ![Leader].active = FALSE]
            /\ rep' = [rep EXCEPT ![Leader] = cold_apply_logout(@)]
            /\ token' = [token EXCEPT ![Leader] = 0]
       ELSE UNCHANGED <<srv, rep, token>>
    /\ client' = [client EXCEPT ![c] = [NoClient EXCEPT !.pc = "gone"]]
    /\ UNCHANGED <<timer, log, work, login, done, wire, acked, missed, faults>>

\* A client stops; what it sent may still arrive.
Gone(c) ==
    /\ client[c].pc = "live"
    /\ client' = [client EXCEPT ![c] = [NoClient EXCEPT !.pc = "gone"]]
    /\ UNCHANGED <<rep, token, timer, srv, log, work, login, done, wire, acked, missed, faults>>

Next ==
    \/ \E c \in Clients :
         \/ \E r \in Members : on_login(c, r) \/ on_helo(c, r) \/ on_keep_alive(c, r) \/ on_read(c, r)
         \/ Poll(c) \/ Watermark(c) \/ Fetch(c) \/ resolve_and_apply(c) \/ Propose(c) \/ Established(c)
         \/ Write(c) \/ on_logout(c) \/ Gone(c)
    \/ \E r \in Members :
         apply_sync(r) \/ CatchUp(r) \/ internal_login(r) \/ Expire(r) \/ Restore(r)
    \/ \E m \in wire : on_write(m)

Spec == Init /\ [][Next]_vars
-----------------------------------------------------------------------------
\* A session starts above every write an earlier one had acknowledged: the polled quorum meets the
\* quorum of the write, whatever the poll, the resolution and the proposals lost on the way.
LoginCoversAcked ==
    \A c \in Clients, a \in acked : client[c].pc = "live" /\ a.by # c => a.slot <= client[c].L

\* An acknowledged write stays in the journals of a quorum, through every later resolution and login.
AckedHeld ==
    \A a \in acked : Cardinality({r \in Members : rep[r].journal[a.slot] = a.by}) >= Majority

Agree(R) ==
    \A r, s \in R : \A d \in Slots :
        d <= rep[r].commit /\ d <= rep[s].commit => rep[r].journal[d] = rep[s].journal[d]

\* Members that every login polled and kept quiesced agree on every slot two of them have applied: an Empty verdict
\* reaches all of them, and what one fetches another has.
AppliedAgree == Agree(Members \ missed)

\* All members agree on what they have applied: Phase 4 of a login removes what lies above its watermark
\* on every member, those it did not hear from included.
OneLog == Agree(Members)

\* Once a member has applied a login, only a later login moves its term: the quiesce timer gives back
\* the term from before a login that did not commit.
CommittedTerm(r) == Max({0} \cup {log[i].term : i \in {j \in 1..(work[r].at - 1) : log[j].op = "login"}})
QuiesceRestores == \A r \in Members : token[r] # 0 => rep[r].term >= CommittedTerm(r)

\* A member the login has committed on takes no more writes of an earlier client.
DeposedFenced ==
    [][\A m \in wire : m \notin wire' /\ rep'[m.to].journal # rep[m.to].journal /\ on_write(m)
           => token[m.to] \in {0, m.from}]_vars
=============================================================================
