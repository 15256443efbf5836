------------------------ MODULE TcpSessionInvariant -------------------------
(***************************************************************************)
(* The inductive invariant of the session over TCP: a connection of the    *)
(* blocking path carries at most the one message of the job that runs, and *)
(* the term it is bound at is the one both its ends know, or is over.      *)
(***************************************************************************)
EXTENDS TcpSession

Job == [kind : Kinds, id : Nat, r : Replicas, term : Nat]
Fence == [kind |-> "fence"]
Ops == Kinds \cup {"helo"}
Statuses == {"ok", "down", "stale", "not_leader"}
Manager ==
    [jobs : Seq(Job \cup {Fence}), job : Job \cup {Idle}, pc : {"idle", "helo", "call"}, stop : BOOLEAN, drained : BOOLEAN]
Proxy == [conn : Nat, bound : BOOLEAN, bterm : Nat]
Request == [op : Ops, id : Nat, term : Nat]
Response == [op : Ops, id : Nat, status : Statuses, term : Nat]
Connection == [to : Replicas, req : Seq(Request), rsp : Seq(Response), term : Nat, bound : BOOLEAN]

\* Every variable has its type.
TypeOK ==
    /\ mgr \in [Clients -> Manager]
    /\ proxy \in [Clients -> [Replicas -> Proxy]]
    /\ term \in [Clients -> Nat]
    /\ wire \in [Conns -> Connection]
    /\ srv \in [active : BOOLEAN, term : Nat, next : Nat, rterm : [Replicas -> Nat]]
    /\ ops \in [Clients -> Nat] /\ opened \in Nat /\ opened <= MaxConns
    /\ journal \subseteq [asked : Nat, stamp : Nat] /\ crossed \in BOOLEAN /\ faults \in Nat

\* A job was issued in a session that was opened; IO is only issued inside one.
Issued(j) == j.term <= srv.next /\ (j.kind = "io" => j.term > 0)

\* The queue of a session manager: the fence is posted by shutdown(), once, and nothing behind it.
InOrder(m) ==
    /\ \A i \in 1..Len(m.jobs) : IF m.jobs[i] = Fence THEN m.stop /\ i = Len(m.jobs) ELSE Issued(m.jobs[i])
    /\ m.stop /\ ~m.drained => m.jobs # <<>> /\ m.jobs[Len(m.jobs)] = Fence
    /\ m.drained => m.stop /\ m.jobs = <<>> /\ m.job = Idle
    /\ m.pc = "idle" <=> m.job = Idle
    /\ m.pc # "idle" => Issued(m.job)
    /\ m.pc = "helo" => m.job.kind = "io"
Queued == \A c \in Clients : InOrder(mgr[c])

\* A connection belongs to one proxy, which is connected to the member it names.
Owned ==
    /\ \A c \in Clients, r \in Replicas :
         /\ proxy[c][r].conn <= opened
         /\ proxy[c][r].conn # 0 => wire[proxy[c][r].conn].to = r
    /\ \A c, d \in Clients, r, s \in Replicas :
         proxy[c][r].conn # 0 /\ proxy[c][r].conn = proxy[d][s].conn => c = d /\ r = s
    /\ \A c \in Clients : mgr[c].pc # "idle" => proxy[c][mgr[c].job.r].conn # 0

\* What the running job of a process asked for, and whether it waits on the connection to r.
Asked(c) ==
    [op |-> IF mgr[c].pc = "helo" THEN "helo" ELSE mgr[c].job.kind, id |-> mgr[c].job.id, term |-> mgr[c].job.term]
Waits(c, r) == mgr[c].pc # "idle" /\ mgr[c].job.r = r

\* Connection k carries the one message of the running job of c: its request, or the answer to it.
Carries(c, k) ==
    \/ wire[k].req = <<Asked(c)>> /\ wire[k].rsp = <<>>
    \/ /\ wire[k].req = <<>> /\ Len(wire[k].rsp) = 1
       /\ wire[k].rsp[1].op = Asked(c).op /\ wire[k].rsp[1].id = Asked(c).id
Quiet(k) == wire[k].req = <<>> /\ wire[k].rsp = <<>>

\* One message is under way on the connection a running job waits on.  The other connections are quiet, and
\* on one that was given up nothing is left but a request.
Outstanding ==
    /\ \A c \in Clients, r \in Replicas : proxy[c][r].conn # 0 =>
         IF Waits(c, r) THEN Carries(c, proxy[c][r].conn) ELSE Quiet(proxy[c][r].conn)
    /\ \A k \in Conns :
         /\ Len(wire[k].req) <= 1 /\ Len(wire[k].rsp) <= 1
         /\ (\A c \in Clients, r \in Replicas : proxy[c][r].conn # k) => wire[k].rsp = <<>>
         /\ k > opened => wire[k].req = <<>>

\* Both ends of a connection agree on a term t it is bound at, or the server let go of it and t's session is over.
Agreed(k, t) == IF wire[k].bound THEN wire[k].term = t ELSE t # srv.term

\* An answer under way that binds the connection: of a login that was not redirected, or of a HELO.
Binding(k) ==
    wire[k].rsp # <<>> /\ LET m == wire[k].rsp[1]
                         IN  (m.op = "login" /\ m.term # 0) \/ (m.op = "helo" /\ m.status = "ok")

\* The term of a session that was opened.
Opened(t) == t > 0 /\ t <= srv.next

\* A proxy's binding is its server's, unless the news of a new one is under way.
BoundAlike(c, r) ==
    LET k == proxy[c][r].conn
        p == proxy[c][r]
    IN  /\ p.bound => k # 0 /\ Opened(p.bterm)
        /\ k # 0 => IF Binding(k)
                    THEN /\ wire[k].bound /\ Opened(wire[k].term)
                         /\ wire[k].term = IF wire[k].rsp[1].op = "login" THEN wire[k].rsp[1].term ELSE mgr[c].job.term
                    ELSE p.bound => Agreed(k, p.bterm)

\* An IO request travels on a connection bound at the term it was issued in, or that the server let go of since.
TravelsBound(k) ==
    wire[k].req # <<>> /\ wire[k].req[1].op = "io" => Opened(wire[k].req[1].term) /\ Agreed(k, wire[k].req[1].term)

\* The cluster is in the session opened last, or in none.
Current == srv.term \in {0, srv.next} /\ (srv.active => srv.term # 0)

Bound ==
    /\ Current
    /\ \A c \in Clients : term[c] <= srv.next
    /\ \A c \in Clients, r \in Replicas : BoundAlike(c, r)
    /\ \A k \in Conns : TravelsBound(k)

IInv == TypeOK /\ Queued /\ Owned /\ Outstanding /\ Bound /\ OwnReply /\ StampedAsAsked
=============================================================================
