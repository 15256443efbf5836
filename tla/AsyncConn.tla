----------------------------- MODULE AsyncConn -----------------------------
(***************************************************************************)
(* One on-ring data connection of a TCP replica proxy (craft_async_conn):  *)
(* lazy connect and HELO, the send slot, the table of pending requests,    *)
(* and the receive pump that hands every reply to the request that waits   *)
(* for it.  Everything runs on the ring's one thread, so an action is one  *)
(* completion together with all the coroutines it resumes inline; those    *)
(* are functions of the state st = [c |-> conn, o |-> op].  A message is   *)
(* sent in two chunks, each with a completion of its own.                  *)
(***************************************************************************)
EXTENDS Integers, SequencesExt

CONSTANTS
    Ops,          \* the operations issued on the connection
    LastLegs,     \* those whose failure makes a write sub-quorum, which fires the round
    Round,        \* the resolution leg, an operation too: issued inline, never by the driver
    RidMod,       \* request ids are 1..RidMod, then wrap (2^16 - 1 in the code)
    MaxSockets,   \* bound: connections opened
    SqeExhausted, \* may the ring have no SQE left for the pump's receive?
    DeadSendsFail \* a send on a dead socket fails, and is reaped before a later connect's completion

ASSUME AsyncConnAssumption ==
    /\ Round \in Ops /\ LastLegs \subseteq Ops \ {Round}
    /\ {RidMod, MaxSockets} \subseteq Nat \ {0} /\ {SqeExhausted, DeadSendsFail} \subseteq BOOLEAN

Sockets == 1..MaxSockets
Rids == 1..RidMod
NoOp == "none"
NoFd == 0
NoReply == [status |-> "empty", of |-> NoOp]

VARIABLES
    conn,     \* the members of craft_async_conn
    op,       \* the coroutine frame of each operation
    net,      \* per socket: chunks under way to the server, replies under way back, closed by the server
    applied   \* operations whose request the server has executed

vars == <<conn, op, net, applied>>

Init ==
    /\ conn = [fd |-> NoFd, opened |-> 0, ready |-> FALSE, connecting |-> FALSE, cwait |-> <<>>,
               sending |-> FALSE, swait |-> <<>>, pending |-> [r \in Rids |-> NoOp], next_rid |-> 1,
               pump |-> "none", src |-> NoFd, freed |-> FALSE]
    /\ op = [o \in Ops |-> [pc |-> "idle", msg |-> "none", rid |-> 0, on |-> NoFd, left |-> 0,
                            slot |-> NoReply, res |-> "none"]]
    /\ net = [g \in Sockets |-> [out |-> <<>>, in |-> <<>>, closed |-> FALSE]]
    /\ applied = {}
-----------------------------------------------------------------------------
\* ring_send_all() submits the next chunk, on whatever fd_ is at that moment.
ring_send(st, o) == [st EXCEPT !.o[o].pc = "send", !.o[o].on = st.c.fd]

\* Mutants: the send slot is not waited for; the id is not advanced.
round_trip_NoSlot(st, o, m) ==
    LET rid == st.c.next_rid
    IN  ring_send([st EXCEPT !.c.next_rid = (rid % RidMod) + 1, !.c.pending[rid] = o, !.c.sending = TRUE,
                             !.o[o].msg = m, !.o[o].rid = rid, !.o[o].left = 2, !.o[o].slot = NoReply], o)
round_trip_SameRid(st, o, m) ==
    LET s1 == [st EXCEPT !.c.pending[1] = o, !.c.sending = TRUE,
                         !.o[o].msg = m, !.o[o].rid = 1, !.o[o].left = 2, !.o[o].slot = NoReply]
    IN  IF st.c.sending THEN [s1 EXCEPT !.o[o].pc = "slot", !.c.swait = Append(@, o)]
        ELSE ring_send(s1, o)

\* The top of round_trip(): a fresh id, a landing pad in pending_, then the send slot or its queue.
round_trip(st, o, m) ==
    LET rid == st.c.next_rid
        s1 == [st EXCEPT !.c.next_rid = (rid % RidMod) + 1, !.c.pending[rid] = o, !.c.sending = TRUE,
                         !.o[o].msg = m, !.o[o].rid = rid, !.o[o].left = 2, !.o[o].slot = NoReply]
    IN  IF st.c.sending THEN [s1 EXCEPT !.o[o].pc = "slot", !.c.swait = Append(@, o)]
        ELSE ring_send(s1, o)

\* release_send(): hand the slot to the next in line, or free it.
release_send(st) ==
    IF st.c.swait = <<>> THEN [st EXCEPT !.c.sending = FALSE]
    ELSE ring_send([st EXCEPT !.c.swait = Tail(@)], Head(st.c.swait))

drop_fd(st) == [st EXCEPT !.c.fd = NoFd, !.c.ready = FALSE]

\* ensure_ready() up to its first suspension.  The frame of an old pump is destroyed unseen; that is
\* only harmless when the pump has ended.
CanOpen(st) == st.c.ready \/ st.c.connecting \/ st.c.opened < MaxSockets
ensure_ready(st, o) ==
    IF st.c.ready THEN round_trip(st, o, "io")
    ELSE IF st.c.connecting THEN [st EXCEPT !.o[o].pc = "parked", !.c.cwait = Append(@, o)]
    ELSE [drop_fd(st) EXCEPT !.c.connecting = TRUE, !.c.freed = @ \/ st.c.pump = "recv", !.c.pump = "none",
                             !.c.opened = @ + 1, !.c.fd = st.c.opened + 1, !.o[o].pc = "connect"]

\* Mutant: a lost reply counts as never delivered.
net_to_error_Down(r) == IF r = "ok" THEN "ok" ELSE "REPLICA_DOWN"

\* net_to_error(): what the proxy makes of a network error.
net_to_error(r) == IF r = "closed" THEN "timed_out" ELSE IF r = "ok" THEN "ok" ELSE "REPLICA_DOWN"

\* The operation returns; a write that ends sub-quorum here fires its resolution leg before it returns.
Return(st, o, r) ==
    LET s1 == [st EXCEPT !.o[o].pc = "done", !.o[o].res = net_to_error(r)]
    IN  IF r # "ok" /\ o \in LastLegs /\ st.o[Round].pc = "idle" /\ CanOpen(st)
        THEN ensure_ready(s1, Round) ELSE s1

\* finish(): clear connecting_, resume who parked behind the connect, then go on with its own request.
finish(st, o, r) ==
    LET waiters == st.c.cwait
        Resume(s, w) == IF s.c.ready THEN round_trip(s, w, "io") ELSE Return(s, w, "connect")
        s1 == FoldLeft(Resume, [st EXCEPT !.c.connecting = FALSE, !.c.cwait = <<>>], waiters)
    IN  IF r = "ok" THEN round_trip(s1, o, "io") ELSE Return(s1, o, r)

\* What follows the reply wait: of a request its return, of a HELO the rest of ensure_ready().
Continue(st, o) ==
    LET f == st.o[o]
        s1 == [st EXCEPT !.c.pending[f.rid] = NoOp]
    IN  CASE f.msg = "io"       -> Return(s1, o, IF f.slot.status = "failed" THEN "closed" ELSE "ok")
          [] f.slot.status = "failed"  -> finish(s1, o, "closed")
          [] f.slot.status = "rejected" -> finish(drop_fd(s1), o, "closed")
          [] OTHER              -> finish([s1 EXCEPT !.c.ready = TRUE], o, "ok")

\* Mutant: operations parked for the send slot are forgotten.
fail_all_Strands(st) ==
    LET failed == Range(st.c.pending) \ {NoOp}
        s1 == [st EXCEPT !.c.pending = [r \in Rids |-> NoOp],
                         !.o = [o \in Ops |-> IF o \in failed THEN [@[o] EXCEPT !.slot.status = "failed"] ELSE @[o]]]
        s2 == FoldSet(LAMBDA o, s : Continue(s, o), s1, {o \in failed : st.o[o].pc = "reply"})
    IN  [s2 EXCEPT !.c.sending = FALSE, !.c.swait = <<>>]

\* fail_all(): flag every pending request, resume those that wait for a reply, free the send slot and
\* resume every operation parked for it.
fail_all(st) ==
    LET failed == Range(st.c.pending) \ {NoOp}
        s1 == [st EXCEPT !.c.pending = [r \in Rids |-> NoOp],
                         !.o = [o \in Ops |-> IF o \in failed THEN [@[o] EXCEPT !.slot.status = "failed"] ELSE @[o]]]
        s2 == FoldSet(LAMBDA o, s : Continue(s, o), s1, {o \in failed : st.o[o].pc = "reply"})
    IN  FoldLeft(ring_send, [s2 EXCEPT !.c.sending = FALSE, !.c.swait = <<>>], s2.c.swait)

\* The pump submits its next receive, on whatever fd_ is by then; without an SQE it fails every waiter and ends.
Rearm(st) == {[st EXCEPT !.c.pump = "recv", !.c.src = st.c.fd]}
             \cup (IF SqeExhausted THEN {[fail_all(st) EXCEPT !.c.pump = "ended"]} ELSE {})
-----------------------------------------------------------------------------
St == [c |-> conn, o |-> op]
Becomes(s) == conn' = s.c /\ op' = s.o
Live == ~conn.freed   \* a pump frame destroyed under its receive: nothing is defined from here on

\* A verb of the proxy takes the on-ring path.
Issue(o) ==
    /\ Live /\ op[o].pc = "idle" /\ o # Round /\ CanOpen(St)
    /\ Becomes(ensure_ready(St, o))
    /\ UNCHANGED <<net, applied>>

\* The connect completes: arm the pump and send HELO, or give up.
ConnectCqe(o) ==
    /\ Live /\ op[o].pc = "connect"
    /\ DeadSendsFail => \A p \in Ops : op[p].pc = "send" => op[p].on = conn.fd
    /\ \/ /\ \E s \in Rearm(St) : Becomes(round_trip(s, o, "helo"))
          /\ UNCHANGED net
       \/ /\ Becomes(finish(drop_fd(St), o, "connect"))
          /\ net' = [net EXCEPT ![conn.fd].closed = TRUE]
    /\ UNCHANGED applied

\* A chunk was sent: the next one, or the reply wait (over already if the reply or a fault came first).
SendCqe(o) ==
    /\ Live /\ op[o].pc = "send" /\ op[o].on # NoFd
    /\ DeadSendsFail => ~net[op[o].on].closed
    /\ op[o].on = conn.fd => \A p \in Ops : op[p].pc # "connect"
    /\ net' = [net EXCEPT ![op[o].on].out =
                 IF net[op[o].on].closed THEN @ ELSE Append(@, [o |-> o, msg |-> op[o].msg, rid |-> op[o].rid,
                                                                left |-> op[o].left])]
    /\ LET sent == [St EXCEPT !.o[o].left = @ - 1]
           free == [release_send(sent) EXCEPT !.o[o].pc = "reply"]
       IN  Becomes(IF op[o].left > 1 THEN ring_send(sent, o)
                   ELSE IF op[o].slot = NoReply THEN free ELSE Continue(free, o))
    /\ UNCHANGED applied

\* The send failed: the slot is released, the landing pad withdrawn.
SendFails(o) ==
    /\ Live /\ op[o].pc = "send"
    /\ op[o].on = NoFd \/ net[op[o].on].closed
    /\ LET s == [release_send(St) EXCEPT !.c.pending[op[o].rid] = NoOp]
       IN  Becomes(IF op[o].msg = "helo" THEN finish(s, o, "send") ELSE Return(s, o, "send"))
    /\ UNCHANGED <<net, applied>>

\* The pump received a reply: it goes to whoever is registered under its id, then the pump re-arms.
Demux ==
    /\ Live /\ conn.pump = "recv" /\ conn.src # NoFd /\ net[conn.src].in # <<>>
    /\ LET r == Head(net[conn.src].in)
           w == conn.pending[r.rid]
           s == IF w = NoOp THEN St
                ELSE LET s1 == [St EXCEPT !.c.pending[r.rid] = NoOp, !.o[w].slot = [status |-> r.status, of |-> r.o]]
                     IN  IF op[w].pc = "reply" THEN Continue(s1, w) ELSE s1
       IN  \E s2 \in (IF s.c.freed THEN {s} ELSE Rearm(s)) : Becomes(s2)
    /\ net' = [net EXCEPT ![conn.src].in = Tail(@)]
    /\ UNCHANGED applied

\* Mutant: ready_ survives the fault.
RecvFault_StaysReady ==
    /\ Live /\ conn.pump = "recv"
    /\ IF conn.src = NoFd THEN TRUE ELSE net[conn.src].closed /\ net[conn.src].in = <<>>
    /\ Becomes([fail_all(St) EXCEPT !.c.pump = "ended"])
    /\ UNCHANGED <<net, applied>>

\* The pump saw the end of the stream: every waiter fails and the pump ends.
RecvFault ==
    /\ Live /\ conn.pump = "recv"
    /\ IF conn.src = NoFd THEN TRUE ELSE net[conn.src].closed /\ net[conn.src].in = <<>>
    /\ Becomes([fail_all([St EXCEPT !.c.ready = FALSE]) EXCEPT !.c.pump = "ended"])
    /\ UNCHANGED <<net, applied>>

\* The server's thread for a socket: a whole message is executed and answered, HELO possibly with a
\* rejection; anything else on the stream is malformed and closes it.
Serve(g) ==
    /\ Live /\ ~net[g].closed /\ Len(net[g].out) >= 2
    /\ LET m == net[g].out[1]
           whole == m.left = 2 /\ net[g].out[2] = [m EXCEPT !.left = 1]
       IN  IF whole
           THEN /\ \E status \in {"ok"} \cup (IF m.msg = "helo" THEN {"rejected"} ELSE {}) :
                      net' = [net EXCEPT ![g].out = SubSeq(@, 3, Len(@)),
                                         ![g].in = Append(@, [o |-> m.o, rid |-> m.rid, status |-> status])]
                /\ applied' = IF m.msg = "io" THEN applied \cup {m.o} ELSE applied
           ELSE net' = [net EXCEPT ![g].closed = TRUE] /\ UNCHANGED applied
    /\ UNCHANGED <<conn, op>>

\* The server or the network drops a socket, with or without the replies still under way.
Close(g) ==
    /\ Live /\ g <= conn.opened /\ ~net[g].closed
    /\ \E replies \in {<<>>, net[g].in} : net' = [net EXCEPT ![g].closed = TRUE, ![g].in = replies]
    /\ UNCHANGED <<conn, op, applied>>

Next ==
    \/ \E o \in Ops : Issue(o) \/ ConnectCqe(o) \/ SendCqe(o) \/ SendFails(o)
    \/ Demux \/ RecvFault
    \/ \E g \in Sockets : Serve(g) \/ Close(g)

Spec == Init /\ [][Next]_vars

\* The ring's owner reaps every completion, and the server answers or hangs up on every request.
Fairness ==
    /\ \A o \in Ops : WF_vars(ConnectCqe(o)) /\ WF_vars(SendCqe(o) \/ SendFails(o))
    /\ WF_vars(Demux) /\ WF_vars(RecvFault)
    /\ \A g \in Sockets : WF_vars(Serve(g))
FairSpec == Spec /\ Fairness
-----------------------------------------------------------------------------
\* An operation that succeeds got the reply to its own request, whatever was pipelined, abandoned or
\* reconnected meanwhile: run_pump() demultiplexes by request id only.
OwnReply == \A o \in Ops : op[o].res = "ok" => op[o].slot.of = o

\* An operation reported REPLICA_DOWN was not executed.  The client counts such legs of a write as proof
\* that the slot is empty.
NeverDelivered == \A o \in Ops : op[o].res = "REPLICA_DOWN" => o \notin applied

\* A connection taken as ready has a receive armed; without one its operations would wait for ever.
ReadyIsPumped == conn.ready => conn.pump = "recv"

\* On every socket the messages are contiguous, although each takes several sends: a failing connection
\* resumes the operations parked for the slot, and none of them writes into another's message.
Framed ==
    \A g \in Sockets : \A i \in DOMAIN net[g].out :
        LET m == net[g].out[i]
        IN  IF i % 2 = 1 THEN m.left = 2 ELSE m = [net[g].out[i - 1] EXCEPT !.left = 1]

\* The pump's frame is destroyed only after the pump has ended.
PumpParked == ~conn.freed

\* Every operation returns: replies, faults and failed connects wake whoever is parked, in the connect
\* queue, for the send slot or for a reply.
EveryOpReturns == \A o \in Ops : op[o].pc # "idle" ~> (op[o].pc = "done" \/ conn.freed)
=============================================================================
