----------------------------- MODULE TcpSession -----------------------------
(***************************************************************************)
(* The session over TCP, both ends.  Client side: the proxies of a process *)
(* (CraftTcpReplica) on their blocking path, whose operations hop to the   *)
(* one session-manager thread and run there one at a time, over one        *)
(* connection per proxy (wire_client).  Server side: craft_cluster_server, *)
(* one thread per connection, which keeps the term the connection was      *)
(* bound at.  Requests carry no term.  A request on the wire is known by   *)
(* the id of the operation that sent it, which the server echoes and the   *)
(* blocking client does not look at.  The IO verbs are one to the client,  *)
(* so which of them a request is gets settled when the server takes it.    *)
(***************************************************************************)
EXTENDS Integers, Sequences

CONSTANTS
    Clients,
    Replicas, Leader,  \* the members the clients talk to: no more than a minority is left out
    MaxConns,          \* bound: connections opened
    MaxOps,            \* bound, per client: operations issued
    MaxJobs,           \* bound: jobs queued at a session manager
    MaxFaults          \* bound: faults of the network and of members

ASSUME TcpSessionAssumption ==
    Leader \in Replicas /\ {MaxConns, MaxJobs, MaxFaults} \subseteq Nat /\ MaxOps \in [Clients -> Nat]

Conns == 1..MaxConns
Idle == [kind |-> "idle"]

VARIABLES
    mgr,      \* per process: the session manager's jobs, the running one, where it is, stop_, drain() returned
    proxy,    \* per process and member: the connection (0: not connected_), bound_, bound_term_
    term,     \* the client's session term (0: none)
    wire,     \* per connection: its member, requests and replies under way, the server's conn_term and bound
    srv,      \* sess_active, sess_term, the transport's term_, and each member's own term
    ops,      \* per process: operations issued
    opened,   \* connections opened
    journal,  \* writes a member has taken: the session they were issued in, the term they were stamped with
    crossed,  \* was an operation ever given the reply of another?
    faults

vars == <<mgr, proxy, term, wire, srv, ops, opened, journal, crossed, faults>>
clientVars == <<mgr, proxy, term, crossed>>

Init ==
    /\ mgr = [c \in Clients |-> [jobs |-> <<>>, job |-> Idle, pc |-> "idle", stop |-> FALSE, drained |-> FALSE]]
    /\ proxy = [c \in Clients |-> [r \in Replicas |-> [conn |-> 0, bound |-> FALSE, bterm |-> 0]]]
    /\ term = [c \in Clients |-> 0]
    /\ wire = [k \in Conns |-> [to |-> Leader, req |-> <<>>, rsp |-> <<>>, term |-> 0, bound |-> FALSE]]
    /\ srv = [active |-> FALSE, term |-> 0, next |-> 0, rterm |-> [r \in Replicas |-> 0]]
    /\ ops = [c \in Clients |-> 0] /\ opened = 0 /\ journal = {} /\ crossed = FALSE /\ faults = 0
-----------------------------------------------------------------------------
Faulty(fault) == IF fault THEN faults < MaxFaults /\ faults' = faults + 1 ELSE UNCHANGED faults

\* Client side.  The manager's thread runs the posted jobs one at a time.
post(q, job) == Append(q, job)
Runs(c) == mgr[c].job = Idle /\ mgr[c].jobs # <<>>

\* A verb hops to that thread; the lock it takes orders it against shutdown(), after which no caller is left.
hop(c, kind, r) ==
    /\ ops[c] < MaxOps[c] /\ ops' = [ops EXCEPT ![c] = @ + 1]
    /\ ~mgr[c].stop /\ Len(mgr[c].jobs) < MaxJobs
    /\ kind # "login" => term[c] # 0
    /\ mgr' = [mgr EXCEPT ![c].jobs = post(@, [kind |-> kind, id |-> ops[c] + 1, r |-> r, term |-> term[c]])]
    /\ UNCHANGED <<proxy, term, wire, srv, opened, journal, crossed, faults>>

\* Mutant: the fence is not posted, drain() returns at once.
shutdown_NoFence(c) ==
    /\ \A x \in Clients : ~mgr[x].stop   \* bound: one process leaves
    /\ mgr' = [mgr EXCEPT ![c].stop = TRUE, ![c].drained = TRUE]
    /\ UNCHANGED <<proxy, term, wire, srv, ops, opened, journal, crossed, faults>>

\* shutdown(): set stop_ under the lock hop() takes, then drain(): post a fence and wait for it.
shutdown(c) ==
    /\ \A x \in Clients : ~mgr[x].stop   \* bound: one process leaves
    /\ mgr' = [mgr EXCEPT ![c].stop = TRUE, ![c].jobs = post(@, [kind |-> "fence"])]
    /\ UNCHANGED <<proxy, term, wire, srv, ops, opened, journal, crossed, faults>>

Return(c, j, by) ==
    /\ mgr' = [mgr EXCEPT ![c].job = Idle, ![c].pc = "idle", ![c].jobs = IF mgr[c].pc = "idle" THEN Tail(@) ELSE @]
    /\ crossed' = (crossed \/ by \notin {0, j.id})

\* Mutant: a connection bound at any term will do.
ensure_bound_AnyTerm(c, j) == j.kind \in {"login", "logout"} \/ proxy[c][j.r].bound

\* ensure_bound(): IO needs a HELO unless the connection is bound at the term asked for.
ensure_bound(c, j) ==
    j.kind \in {"login", "logout"} \/ (proxy[c][j.r].bound /\ proxy[c][j.r].bterm = j.term)

\* ensure_connected(): the connection there is, or a new one; that attempt may fail.
ensure_connected(c, r) == IF proxy[c][r].conn # 0 THEN proxy[c][r].conn ELSE opened + 1
ConnectFails(c, r) == proxy[c][r].conn = 0 /\ Faulty(TRUE)

\* The manager's thread takes a job: connect if need be, then send the HELO or the request itself.
run_job(c) ==
    LET j == Head(mgr[c].jobs)
        k == ensure_connected(c, j.r)
        op == IF ensure_bound(c, j) THEN j.kind ELSE "helo"
    IN  /\ Runs(c) /\ j.kind # "fence"
        /\ \/ /\ k \in Conns
              /\ opened' = IF k > opened THEN k ELSE opened
              /\ proxy' = [proxy EXCEPT ![c][j.r].conn = k]
              /\ wire' = [wire EXCEPT ![k].to = j.r, ![k].req = Append(@, [op |-> op, id |-> j.id, term |-> j.term])]
              /\ mgr' = [mgr EXCEPT ![c].jobs = Tail(@), ![c].job = j,
                                    ![c].pc = IF op = "helo" THEN "helo" ELSE "call"]
              /\ UNCHANGED <<crossed, faults>>
           \/ /\ ConnectFails(c, j.r) /\ Return(c, j, 0)
              /\ UNCHANGED <<proxy, wire, opened>>
        /\ UNCHANGED <<term, srv, ops, journal>>

\* The fence's turn: whoever waits in drain() goes on.
run_fence(c) ==
    /\ Runs(c) /\ Head(mgr[c].jobs).kind = "fence"
    /\ mgr' = [mgr EXCEPT ![c].jobs = Tail(@), ![c].drained = TRUE]
    /\ UNCHANGED <<proxy, term, wire, srv, ops, opened, journal, crossed, faults>>

\* A send that fails, a reply that is late, garbled or lost with the socket.
io_fault(c) == mgr[c].pc # "idle" /\ Faulty(TRUE)

\* Mutant: a timed-out connection is kept.
on_net_fault_Keeps(c) ==
    /\ io_fault(c) /\ Return(c, mgr[c].job, 0)
    /\ proxy' = [proxy EXCEPT ![c][mgr[c].job.r].bound = FALSE]
    /\ UNCHANGED <<term, wire, srv, ops, opened, journal>>

\* The connection is poisoned: the next operation opens another.
on_net_fault(c) ==
    /\ io_fault(c) /\ Return(c, mgr[c].job, 0)
    /\ proxy' = [proxy EXCEPT ![c][mgr[c].job.r] = [@ EXCEPT !.conn = 0, !.bound = FALSE]]
    /\ wire' = [wire EXCEPT ![proxy[c][mgr[c].job.r].conn].rsp = <<>>]
    /\ UNCHANGED <<term, srv, ops, opened, journal>>

\* What a verb makes of its reply.  A login that is not redirected binds the connection and opens the
\* client's session; a logout, or the news of being deposed, ends it.
bind(c, r, t) == proxy' = [proxy EXCEPT ![c][r] = [@ EXCEPT !.bound = TRUE, !.bterm = t]]
login(c, j, m) ==
    IF m.term = 0 THEN UNCHANGED <<proxy, term>> ELSE bind(c, j.r, m.term) /\ term' = [term EXCEPT ![c] = m.term]
logout(c, m) ==
    /\ term' = [term EXCEPT ![c] = IF m.status \in {"ok", "stale"} THEN 0 ELSE @]
    /\ UNCHANGED proxy

\* The reply wait ends.  An accepted HELO binds the connection and the request follows; a reply of another
\* kind than the one awaited poisons the connection.
recv(c) ==
    LET j == mgr[c].job
        k == proxy[c][j.r].conn
        m == Head(wire[k].rsp)
        foreign == m.op # IF mgr[c].pc = "helo" THEN "helo" ELSE j.kind
        bound == ~foreign /\ m.op = "helo" /\ m.status = "ok"
    IN  /\ mgr[c].pc \in {"helo", "call"} /\ wire[k].rsp # <<>>
        /\ wire' = [wire EXCEPT ![k].rsp = IF foreign THEN <<>> ELSE Tail(@),
                                ![k].req = IF bound THEN Append(@, [op |-> j.kind, id |-> j.id, term |-> j.term]) ELSE @]
        /\ IF bound
           THEN mgr' = [mgr EXCEPT ![c].pc = "call"] /\ bind(c, j.r, j.term) /\ UNCHANGED <<term, crossed>>
           ELSE /\ Return(c, j, IF foreign THEN 0 ELSE m.id)
                /\ CASE foreign -> /\ proxy' = [proxy EXCEPT ![c][j.r] = [@ EXCEPT !.conn = 0, !.bound = FALSE]]
                                   /\ UNCHANGED term
                     [] ~foreign /\ m.op = "login"  -> login(c, j, m)
                     [] ~foreign /\ m.op = "logout" -> logout(c, m)
                     [] OTHER -> UNCHANGED <<term, proxy>>
        /\ UNCHANGED <<srv, ops, opened, journal, faults>>
-----------------------------------------------------------------------------
\* Server side: serve() on connection k takes a request and answers it.
Reply(k, status, t, bnd, ct) ==
    LET q == Head(wire[k].req)
        read == \E c \in Clients : proxy[c][wire[k].to].conn = k   \* else nobody reads it any more
    IN  wire' = [wire EXCEPT ![k].req = Tail(@), ![k].term = ct, ![k].bound = bnd,
                     ![k].rsp = IF ~read THEN @ ELSE Append(@, [op |-> q.op, id |-> q.id, status |-> status, term |-> t])]
serve(k, op) == wire[k].req # <<>> /\ Head(wire[k].req).op = op /\ UNCHANGED <<clientVars, ops, opened>>

\* The fault knobs may take a member down, or the quorum, between any two requests: each handler may
\* find its member down, and a login finds any live set with the leader in it.
\* LOGIN: the leader opens a session at a new term on the live members; a follower redirects.
on_login(k) ==
    /\ serve(k, "login")
    /\ LET t == srv.next + 1
           same(status) == Reply(k, status, 0, wire[k].bound, wire[k].term) /\ UNCHANGED srv
       IN  \/ same("down") /\ Faulty(TRUE)   \* or no quorum
           \/ wire[k].to # Leader /\ same("ok") /\ Faulty(FALSE)
           \/ /\ wire[k].to = Leader /\ Reply(k, "ok", t, TRUE, t)
              /\ \E live \in SUBSET Replicas :
                   /\ Leader \in live /\ Faulty(live # Replicas)
                   /\ srv' = [active |-> TRUE, term |-> t, next |-> t,
                              rterm |-> [r \in Replicas |-> IF r \in live THEN t ELSE srv.rterm[r]]]
    /\ UNCHANGED journal

\* HELO: join the session, if the term presented is the live one's.
on_helo(k) ==
    /\ serve(k, "helo")
    /\ IF srv.active /\ Head(wire[k].req).term = srv.term
       THEN Reply(k, "ok", 0, TRUE, srv.term) ELSE Reply(k, "stale", 0, wire[k].bound, wire[k].term)
    /\ UNCHANGED <<srv, journal, faults>>

\* What every IO handler answers: its own checks, then the member's fence.
Gate(k) ==
    CASE ~wire[k].bound -> {"stale"}
      [] srv.rterm[wire[k].to] # wire[k].term -> {"down", "stale"}
      [] OTHER -> {"down", "ok"}
Answer(k, st) == Reply(k, st, 0, wire[k].bound, wire[k].term) /\ Faulty(st = "down")
Journal(k, st, stamp) ==
    journal' = IF st = "ok" THEN journal \cup {[asked |-> Head(wire[k].req).term, stamp |-> stamp]} ELSE journal

\* Mutant: the write is stamped with the session's term, not the connection's.
on_write_SessionTerm(k) ==
    /\ serve(k, "io")
    /\ \E st \in IF ~wire[k].bound \/ srv.rterm[wire[k].to] # srv.term THEN {"stale"} ELSE {"down", "ok"} :
         Answer(k, st) /\ Journal(k, st, srv.term)
    /\ UNCHANGED srv

on_write(k) ==
    /\ serve(k, "io")
    /\ \E st \in Gate(k) : Answer(k, st) /\ Journal(k, st, wire[k].term)
    /\ UNCHANGED srv

\* A read and a keep_alive leave the session alone; so does a round, fenced by the transport's own term.
on_read(k) == serve(k, "io") /\ (\E st \in Gate(k) : Answer(k, st)) /\ UNCHANGED <<srv, journal>>
on_keep_alive(k) == serve(k, "io") /\ (\E st \in Gate(k) : Answer(k, st)) /\ UNCHANGED <<srv, journal>>
on_resolve(k) ==
    /\ serve(k, "io")
    /\ \E st \in CASE ~wire[k].bound -> {"stale"}
                   [] wire[k].to # Leader -> {"down", "not_leader"}
                   [] srv.next # wire[k].term -> {"down", "stale"}
                   [] OTHER -> {"down", "ok"} : Answer(k, st)
    /\ UNCHANGED <<srv, journal>>

\* LOGOUT from a bound connection: the leader clears the session on the live members, whatever term
\* the connection was bound at.
on_logout(k) ==
    /\ serve(k, "logout")
    /\ \/ /\ \E st \in IF ~wire[k].bound THEN {"stale"}
                      ELSE IF wire[k].to # Leader THEN {"down", "not_leader"} ELSE {"down"} : Answer(k, st)
          /\ UNCHANGED srv
       \/ /\ wire[k].bound /\ wire[k].to = Leader
          /\ Reply(k, "ok", 0, FALSE, wire[k].term)
          /\ \E live \in SUBSET Replicas :
               /\ Leader \in live /\ Faulty(live # Replicas)
               /\ srv' = [srv EXCEPT !.active = FALSE, !.term = 0,
                                     !.rterm = [r \in Replicas |-> IF r \in live THEN 0 ELSE @[r]]]
    /\ UNCHANGED journal

Kinds == {"login", "logout", "io"}
Next ==
    \/ \E c \in Clients :
         \/ \E kind \in Kinds, r \in Replicas : hop(c, kind, r)
         \/ shutdown(c) \/ run_job(c) \/ run_fence(c) \/ recv(c) \/ on_net_fault(c)
    \/ \E k \in Conns : on_login(k) \/ on_helo(k) \/ on_write(k) \/ on_read(k) \/ on_keep_alive(k) \/ on_resolve(k) \/ on_logout(k)

Spec == Init /\ [][Next]_vars
-----------------------------------------------------------------------------
\* No operation of the blocking client is ever given the reply of another one: wire_client checks the kind of
\* a reply and not its request id, so a reply that comes after its operation gave up must die with the socket.
OwnReply == ~crossed

\* A write is journalled at the term of the session it was issued in: requests carry no term, the server
\* stamps the one the connection was bound at.
StampedAsAsked == \A w \in journal : w.stamp = w.asked

\* When shutdown() has returned from drain(), no job of the proxies is queued or running, and none follows:
\* hop() and shutdown() order themselves by the same lock.
ShutdownQuiet == \A c \in Clients : mgr[c].drained => mgr[c].jobs = <<>> /\ mgr[c].job = Idle

\* An operation issued in the live session is never answered STALE_TERM by a member that is in that session,
\* although the proxy may have bound its connection in an earlier one.
LiveNotFenced ==
    [][\A k \in Conns :
         LET q == Head(wire[k].req)
         IN  Len(wire'[k].rsp) > Len(wire[k].rsp) /\ q.op = "io"
             /\ q.term = srv.term /\ srv.rterm[wire[k].to] = srv.term
             => wire'[k].rsp[Len(wire'[k].rsp)].status # "stale"]_vars

\* Only a connection of the live session ends it.
EndedByHolder ==
    [][\A k \in Conns : srv.active /\ ~srv'.active /\ wire[k].req # wire'[k].req
         => wire[k].term = srv.term]_vars
=============================================================================
