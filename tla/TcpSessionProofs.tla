-------------------------- MODULE TcpSessionProofs --------------------------
(***************************************************************************)
(* What holds of the session over TCP for any number of processes,         *)
(* members, connections, operations and faults.                            *)
(***************************************************************************)
EXTENDS TcpSessionInvariant, TLAPS

\* Queues of at most one message.
LEMMA ShortSeqs ==
    ASSUME NEW S
    PROVE  /\ \A s \in Seq(S) : /\ Len(s) = 0 <=> s = <<>>
                                /\ Len(s) = 1 => s = <<s[1]>> /\ Head(s) = s[1] /\ Tail(s) = <<>> /\ s[1] \in S
           /\ \A x \in S : /\ Append(<<>>, x) = <<x>> /\ Len(<<x>>) = 1 /\ <<x>>[1] = x /\ Head(<<x>>) = x
                           /\ Tail(<<x>>) = <<>> /\ <<x>> # <<>> /\ <<x>> \in Seq(S)
           /\ <<>> \in Seq(S) /\ Len(<<>>) = 0
  <1>1. \A s \in Seq(S) : Len(s) = 0 <=> s = <<>>
    OBVIOUS
  <1>2. ASSUME NEW s \in Seq(S), Len(s) = 1
        PROVE  s = <<s[1]>> /\ Head(s) = s[1] /\ Tail(s) = <<>> /\ s[1] \in S
    <2>1. s[1] \in S /\ Head(s) = s[1]
      BY <1>2
    <2>2. Tail(s) \in Seq(S) /\ Len(Tail(s)) = 0
      BY <1>2
    <2>3. Tail(s) = <<>>
      BY <1>1, <2>2, Zenon
    <2>4. s = <<s[1]>>
      BY <1>2
    <2> QED BY <2>1, <2>3, <2>4, Zenon
  <1>3. ASSUME NEW x \in S
        PROVE  /\ Append(<<>>, x) = <<x>> /\ Len(<<x>>) = 1 /\ <<x>>[1] = x /\ Head(<<x>>) = x
               /\ Tail(<<x>>) = <<>> /\ <<x>> # <<>> /\ <<x>> \in Seq(S)
    OBVIOUS
  <1> QED BY <1>1, <1>2, <1>3

\* A proxy that is connected has a connection that was opened.
LEMMA ConnOf ==
    ASSUME TypeOK, Owned, NEW c \in Clients, NEW r \in Replicas, proxy[c][r].conn # 0
    PROVE  proxy[c][r].conn \in Conns /\ proxy[c][r].conn <= opened
  <1>1. proxy[c][r].conn <= opened
    BY Zenon DEF Owned
  <1>2. proxy \in [Clients -> [Replicas -> Proxy]] /\ opened \in Nat /\ opened <= MaxConns
    BY Zenon DEF TypeOK
  <1>3. proxy[c][r] \in Proxy
    BY <1>2, Zenon
  <1>4. proxy[c][r].conn \in Nat
    BY <1>3, Zenon DEF Proxy
  <1> QED BY <1>1, <1>2, <1>4, TcpSessionAssumption DEF Conns

\* Two proxies never share a connection.
LEMMA OneOwner ==
    ASSUME Owned, NEW c \in Clients, NEW d \in Clients, NEW r \in Replicas, NEW s \in Replicas,
           proxy[c][r].conn # 0, proxy[d][s].conn = proxy[c][r].conn
    PROVE  d = c /\ s = r
  BY DEF Owned

\* One proxy changes.
Sets(c, r, v) ==
    /\ proxy' \in [Clients -> [Replicas -> Proxy]] /\ proxy'[c][r] = v
    /\ \A x \in Clients, s \in Replicas : ~(x = c /\ s = r) => proxy'[x][s] = proxy[x][s]

\* What an assignment to one proxy's fields leaves of the others.
LEMMA OneProxy ==
    ASSUME proxy \in [Clients -> [Replicas -> Proxy]], NEW c \in Clients, NEW r \in Replicas, NEW v \in Proxy,
           proxy' = [proxy EXCEPT ![c][r] = v]
    PROVE  Sets(c, r, v)
  BY Zenon DEF Sets

\* A session ends or is followed by one with a new term: an old term never is the session's again.
Moves == /\ srv'.next \in Nat /\ srv'.next >= srv.next
         /\ srv'.term \in {srv.term, 0} \/ srv'.term > srv.next

\* What a connection carries for a job that goes on waiting.
LEMMA CarriesOn ==
    ASSUME NEW c, NEW k, mgr'[c].pc = mgr[c].pc, mgr'[c].job = mgr[c].job, wire'[k] = wire[k], Carries(c, k)
    PROVE  Carries(c, k)'
  <1>1. Asked(c)' = Asked(c)
    BY Zenon DEF Asked
  <1> QED BY <1>1, Zenon DEF Carries

\* Whoever waits on a connection that nobody touches waits on, and a quiet one stays quiet.
LEMMA HoldsOn ==
    ASSUME NEW c, NEW r, mgr'[c] = mgr[c], proxy'[c][r] = proxy[c][r],
           wire'[proxy[c][r].conn] = wire[proxy[c][r].conn],
           IF Waits(c, r) THEN Carries(c, proxy[c][r].conn) ELSE Quiet(proxy[c][r].conn)
    PROVE  IF Waits(c, r)' THEN Carries(c, proxy[c][r].conn)' ELSE Quiet(proxy[c][r].conn)'
  <1>1. Waits(c, r)' <=> Waits(c, r)
    BY Zenon DEF Waits
  <1>2. ASSUME Waits(c, r) PROVE Carries(c, proxy[c][r].conn)'
    <2>1. PICK n : n = proxy[c][r].conn
      BY Zenon
    <2>2. Carries(c, n)'
      BY <1>2, <2>1, CarriesOn, Zenon
    <2> QED BY <2>1, <2>2, Zenon DEF Carries
  <1>3. ASSUME ~Waits(c, r) PROVE Quiet(proxy[c][r].conn)'
    BY <1>3, Zenon DEF Quiet
  <1> QED BY <1>1, <1>2, <1>3, Zenon

\* A binding that nobody touches holds on, whatever becomes of the session.
LEMMA BoundOn ==
    ASSUME TypeOK, Owned, Moves, NEW c \in Clients, NEW r \in Replicas, proxy'[c][r] = proxy[c][r],
           proxy[c][r].conn # 0 => /\ wire'[proxy[c][r].conn] = wire[proxy[c][r].conn]
                                   /\ Binding(proxy[c][r].conn) => mgr'[c].job = mgr[c].job,
           BoundAlike(c, r)
    PROVE  BoundAlike(c, r)'
  <1> DEFINE k == proxy[c][r].conn
             p == proxy[c][r]
  <1>1. /\ srv.next \in Nat /\ srv.term \in Nat /\ p.bterm \in Nat
        /\ k # 0 /\ Binding(k) => wire[k].term \in Nat
    <2>1. srv.next \in Nat /\ srv.term \in Nat /\ p \in Proxy
      BY Zenon DEF TypeOK
    <2>2. k # 0 => wire[k] \in Connection
      BY ConnOf, Zenon DEF TypeOK
    <2> HIDE DEF p, k
    <2> QED BY <2>1, <2>2, Zenon DEF Proxy, Connection
  <1>2. \A t \in Nat : Opened(t) => Opened(t)' /\ (t # srv.term => t # srv'.term)
    BY <1>1 DEF Opened, Moves
  <1>3. k # 0 => (Binding(k)' <=> Binding(k))
    BY Zenon DEF Binding
  <1>4. k # 0 /\ Opened(p.bterm) /\ Agreed(k, p.bterm) => Agreed(k, p.bterm)'
    BY <1>1, <1>2, Zenon DEF Agreed
  <1>5. p' = p /\ k' = k
    BY Zenon
  <1> QED BY <1>1, <1>2, <1>3, <1>4, <1>5, Zenon DEF BoundAlike

\* An IO request under way on a connection that nobody touches.
LEMMA TravelsOn ==
    ASSUME TypeOK, Moves, NEW k \in Conns, wire'[k] = wire[k], TravelsBound(k), Len(wire[k].req) <= 1
    PROVE  TravelsBound(k)'
  <1> SUFFICES ASSUME wire[k].req # <<>>, wire[k].req[1].op = "io"
               PROVE  Opened(wire[k].req[1].term)' /\ Agreed(k, wire[k].req[1].term)'
    BY Zenon DEF TravelsBound
  <1>1. wire[k].req[1] \in Request /\ srv.next \in Nat /\ srv.term \in Nat
    <2>1. wire[k].req \in Seq(Request) /\ srv.next \in Nat /\ srv.term \in Nat
      BY Zenon DEF TypeOK, Connection
    <2> QED BY <2>1, ShortSeqs
  <1>2. PICK t \in Nat : t = wire[k].req[1].term
    BY <1>1, Zenon DEF Request
  <1>3. Opened(t) /\ Agreed(k, t)
    BY <1>2, Zenon DEF TravelsBound
  <1>4. Opened(t)' /\ (t # srv.term => t # srv'.term)
    BY <1>1, <1>3 DEF Opened, Moves
  <1>5. Agreed(k, t)'
    BY <1>3, <1>4, Zenon DEF Agreed
  <1>6. wire'[k].req[1].term = t
    BY <1>2, Zenon
  <1> QED BY <1>4, <1>5, <1>6, Zenon DEF Opened, Agreed

\* A proxy whose connection nobody touches, of a process that does nothing or does not wait on it.
LEMMA Elsewhere ==
    ASSUME IInv, Moves, NEW c \in Clients, NEW r \in Replicas, proxy'[c][r] = proxy[c][r],
           proxy[c][r].conn # 0 => wire'[proxy[c][r].conn] = wire[proxy[c][r].conn],
           mgr'[c] = mgr[c] \/ (~Waits(c, r) /\ ~Waits(c, r)')
    PROVE  /\ proxy'[c][r].conn # 0 =>
                IF Waits(c, r)' THEN Carries(c, proxy[c][r].conn)' ELSE Quiet(proxy[c][r].conn)'
           /\ BoundAlike(c, r)'
  <1>1. ASSUME proxy'[c][r].conn # 0
        PROVE  IF Waits(c, r)' THEN Carries(c, proxy[c][r].conn)' ELSE Quiet(proxy[c][r].conn)'
    <2>1. proxy[c][r].conn # 0 /\ wire'[proxy[c][r].conn] = wire[proxy[c][r].conn]
      BY <1>1, Zenon
    <2>2. IF Waits(c, r) THEN Carries(c, proxy[c][r].conn) ELSE Quiet(proxy[c][r].conn)
      BY <2>1, Zenon DEF IInv, Outstanding
    <2>3. CASE mgr'[c] = mgr[c]
      BY <2>1, <2>2, <2>3, HoldsOn, Zenon
    <2>4. CASE ~Waits(c, r) /\ ~Waits(c, r)'
      BY <2>1, <2>2, <2>4, Zenon DEF Quiet
    <2> QED BY <2>3, <2>4, Zenon
  <1>2. proxy[c][r].conn # 0 /\ Binding(proxy[c][r].conn) => mgr'[c].job = mgr[c].job
    <2>1. CASE ~Waits(c, r)
      BY <2>1, Zenon DEF IInv, Outstanding, Quiet, Binding
    <2> QED BY <2>1, Zenon
  <1>3. TypeOK /\ Owned /\ BoundAlike(c, r)
    BY Zenon DEF IInv, Bound
  <1>4. BoundAlike(c, r)'
    BY <1>2, <1>3, BoundOn, Zenon
  <1> QED BY <1>1, <1>4, Zenon

\* Only the queue of a session manager moves: what is on the wire, and who waits for it, stays.
LEMMA QueueOnly ==
    ASSUME IInv, TypeOK', Queued', UNCHANGED <<proxy, term, wire, srv, opened, journal, crossed>>,
           \A x \in Clients : mgr'[x].pc = mgr[x].pc /\ mgr'[x].job = mgr[x].job
    PROVE  IInv'
  <1>1. Owned'
    BY DEF IInv, Owned
  <1>2. Outstanding'
    <2>1. \A x \in Clients, r \in Replicas : Waits(x, r)' <=> Waits(x, r)
      BY Zenon DEF Waits
    <2>2. \A x \in Clients : \A k : Carries(x, k) => Carries(x, k)'
      BY CarriesOn, Zenon
    <2>3. \A k : Quiet(k)' <=> Quiet(k)
      BY Zenon DEF Quiet
    <2> QED BY <2>1, <2>2, <2>3, Zenon DEF IInv, Outstanding
  <1>3. Bound'
    <2>1. Moves
      BY DEF Moves, IInv, TypeOK
    <2>2. \A x \in Clients, r \in Replicas : BoundAlike(x, r)'
      BY <2>1, BoundOn, Zenon DEF IInv, Bound
    <2>3. \A k \in Conns : TravelsBound(k)'
      BY <2>1, TravelsOn, Zenon DEF IInv, Bound, Outstanding
    <2> QED BY <2>2, <2>3, Zenon DEF IInv, Bound, Current
  <1> QED BY <1>1, <1>2, <1>3, Zenon DEF IInv, OwnReply, StampedAsAsked

\* What is posted is last, what is taken was first, and the rest keeps its order.
LEMMA QueueEnds ==
    ASSUME NEW S, NEW q \in Seq(S)
    PROVE  /\ \A x \in S : /\ Append(q, x) \in Seq(S) /\ Append(q, x) # <<>>
                           /\ Len(Append(q, x)) = Len(q) + 1 /\ Append(q, x)[Len(q) + 1] = x
                           /\ \A i \in 1..Len(q) : Append(q, x)[i] = q[i]
           /\ q # <<>> => /\ Head(q) = q[1] /\ q[1] \in S /\ Tail(q) \in Seq(S)
                          /\ Len(q) > 0 /\ Len(Tail(q)) = Len(q) - 1
                          /\ \A i \in 1..(Len(q) - 1) : Tail(q)[i] = q[i + 1]
           /\ Len(q) \in Nat /\ (q = <<>> <=> Len(q) = 0)
  <1>1. Len(q) \in Nat /\ (q = <<>> <=> Len(q) = 0)
    OBVIOUS
  <1>2. ASSUME NEW x \in S
        PROVE  /\ Append(q, x) \in Seq(S) /\ Append(q, x) # <<>>
               /\ Len(Append(q, x)) = Len(q) + 1 /\ Append(q, x)[Len(q) + 1] = x
               /\ \A i \in 1..Len(q) : Append(q, x)[i] = q[i]
    OBVIOUS
  <1>3. ASSUME q # <<>>
        PROVE  /\ Head(q) = q[1] /\ q[1] \in S /\ Tail(q) \in Seq(S)
               /\ Len(q) > 0 /\ Len(Tail(q)) = Len(q) - 1
               /\ \A i \in 1..(Len(q) - 1) : Tail(q)[i] = q[i + 1]
    BY <1>3
  <1> QED BY <1>1, <1>2, <1>3, Zenon

\* A manager that does nothing stays in order: the sessions its jobs were issued in stay opened.
LEMMA StaysInOrder ==
    ASSUME TypeOK, Queued, NEW c \in Clients, mgr'[c] = mgr[c], srv'.next \in Nat, srv'.next >= srv.next
    PROVE  InOrder(mgr[c])'
  <1>1. InOrder(mgr[c]) /\ mgr[c] \in Manager /\ srv.next \in Nat
    BY Zenon DEF Queued, TypeOK
  <1>2. \A j \in Job : Issued(j) => Issued(j)'
    BY <1>1 DEF Issued, Job
  <1>3. \A i \in 1..Len(mgr[c].jobs) : mgr[c].jobs[i] \in Job \cup {Fence}
    BY <1>1 DEF Manager
  <1>4. mgr[c].pc # "idle" => mgr[c].job \in Job
    BY <1>1, Zenon DEF Manager, InOrder
  <1> QED BY <1>1, <1>2, <1>3, <1>4, Zenon DEF InOrder

\* A verb is posted only before shutdown(), so never behind the fence.
LEMMA HopStep ==
    ASSUME NEW c \in Clients, NEW kind \in Kinds, NEW r \in Replicas
    PROVE  IInv /\ hop(c, kind, r) => IInv'
  <1> SUFFICES ASSUME IInv, hop(c, kind, r) PROVE IInv'
    BY Zenon
  <1> DEFINE j == [kind |-> kind, id |-> ops[c] + 1, r |-> r, term |-> term[c]]
  <1>1. mgr[c] \in Manager /\ mgr[c].jobs \in Seq(Job \cup {Fence}) /\ j \in Job \cup {Fence}
    BY DEF IInv, TypeOK, Manager, Job
  <1>2. /\ mgr'[c] = [jobs |-> Append(mgr[c].jobs, j), job |-> mgr[c].job, pc |-> mgr[c].pc,
                      stop |-> mgr[c].stop, drained |-> mgr[c].drained]
        /\ \A x \in Clients : x # c => mgr'[x] = mgr[x]
        /\ ~mgr[c].stop
    <2>1. mgr' = [mgr EXCEPT ![c].jobs = Append(@, j)] /\ ~mgr[c].stop
      BY Zenon DEF hop, post
    <2>2. mgr \in [Clients -> Manager]
      BY Zenon DEF IInv, TypeOK
    <2> HIDE DEF j
    <2> QED BY <1>1, <2>1, <2>2, Zenon DEF Manager
  <1>3. j # Fence /\ Issued(j) /\ UNCHANGED srv
    BY DEF IInv, TypeOK, Bound, Issued, Kinds, Fence, hop
  <1>4. TypeOK'
    <2>1. mgr'[c] \in Manager
      BY <1>1, <1>2, QueueEnds DEF Manager
    <2>2. mgr' \in [Clients -> Manager]
      BY <1>2, <2>1, Zenon DEF IInv, TypeOK, hop
    <2>3. ops' \in [Clients -> Nat]
      BY DEF IInv, TypeOK, hop
    <2> QED BY <2>2, <2>3, Zenon DEF IInv, TypeOK, hop
  <1>5. InOrder(mgr[c])
    BY Zenon DEF IInv, Queued
  <1>6. Queued'
    <2> HIDE DEF j
    <2>1. InOrder(mgr[c])'
      BY <1>1, <1>2, <1>3, <1>5, QueueEnds, SMTT(30) DEF InOrder, Issued
    <2>2. \A x \in Clients : x # c => InOrder(mgr[x])'
      BY <1>2, <1>3, StaysInOrder, SMTT(30) DEF IInv, TypeOK
    <2> QED BY <2>1, <2>2, Zenon DEF Queued
  <1>7. \A x \in Clients : mgr'[x].pc = mgr[x].pc /\ mgr'[x].job = mgr[x].job
    <2> HIDE DEF j
    <2> QED BY <1>2
  <1>8. UNCHANGED <<proxy, term, wire, srv, opened, journal, crossed>>
    BY Zenon DEF hop
  <1> QED BY <1>4, <1>6, <1>7, <1>8, QueueOnly, Zenon

\* shutdown() posts the fence behind every job there is.
LEMMA ShutdownStep ==
    ASSUME NEW c \in Clients
    PROVE  IInv /\ shutdown(c) => IInv'
  <1> SUFFICES ASSUME IInv, shutdown(c) PROVE IInv'
    BY Zenon
  <1>1. mgr[c] \in Manager /\ mgr[c].jobs \in Seq(Job \cup {Fence}) /\ Fence \in Job \cup {Fence}
    BY Zenon DEF IInv, TypeOK, Manager
  <1>2. /\ mgr'[c] = [jobs |-> Append(mgr[c].jobs, Fence), job |-> mgr[c].job, pc |-> mgr[c].pc,
                      stop |-> TRUE, drained |-> mgr[c].drained]
        /\ \A x \in Clients : x # c => mgr'[x] = mgr[x]
        /\ ~mgr[c].stop
    <2>1. mgr' = [mgr EXCEPT ![c].stop = TRUE, ![c].jobs = Append(@, Fence)] /\ ~mgr[c].stop
      BY Zenon DEF shutdown, post, Fence
    <2>2. mgr \in [Clients -> Manager]
      BY Zenon DEF IInv, TypeOK
    <2> QED BY <1>1, <2>1, <2>2, Zenon DEF Manager
  <1>3. UNCHANGED <<proxy, term, wire, srv, ops, opened, journal, crossed, faults>> /\ srv.next \in Nat
    BY Zenon DEF IInv, TypeOK, shutdown
  <1>4. TypeOK'
    <2>1. mgr'[c] \in Manager
      BY <1>1, <1>2, QueueEnds DEF Manager
    <2>2. mgr' \in [Clients -> Manager]
      BY <1>2, <2>1, Zenon DEF IInv, TypeOK, shutdown
    <2> QED BY <1>3, <2>2, Zenon DEF IInv, TypeOK
  <1>5. InOrder(mgr[c])
    BY Zenon DEF IInv, Queued
  <1>6. Queued'
    <2>1. InOrder(mgr[c])'
      <3> DEFINE q == mgr[c].jobs
                 f == Append(q, Fence)
      <3>1. /\ Len(q) \in Nat /\ f # <<>> /\ Len(f) = Len(q) + 1 /\ f[Len(f)] = Fence
            /\ \A i \in 1..Len(q) : f[i] = q[i]
        BY <1>1, QueueEnds
      <3>2. ~mgr[c].drained /\ \A i \in 1..Len(q) : q[i] # Fence /\ Issued(q[i])
        BY <1>2, <1>5, Zenon DEF InOrder
      <3>3. \A i \in 1..Len(f) : i = Len(f) \/ i \in 1..Len(q)
        BY <3>1
      <3>4. /\ mgr'[c].jobs = f /\ mgr'[c].job = mgr[c].job /\ mgr'[c].pc = mgr[c].pc /\ mgr'[c].stop
            /\ mgr'[c].drained = mgr[c].drained
        BY <1>2
      <3>5. srv' = srv
        BY <1>3, Zenon
      <3> HIDE DEF q, f
      <3> QED BY <1>5, <3>1, <3>2, <3>3, <3>4, <3>5, ZenonT(30) DEF InOrder, Issued
    <2>2. \A x \in Clients : x # c => InOrder(mgr[x])'
      BY <1>2, <1>3, StaysInOrder DEF IInv
    <2> QED BY <2>1, <2>2, Zenon DEF Queued
  <1>7. \A x \in Clients : mgr'[x].pc = mgr[x].pc /\ mgr'[x].job = mgr[x].job
    BY <1>2
  <1> QED BY <1>3, <1>4, <1>6, <1>7, QueueOnly, Zenon

\* The manager's thread takes the first job: what is behind it stays in order.
LEMMA TakeFirst ==
    ASSUME NEW m \in Manager, InOrder(m), m.jobs # <<>>
    PROVE  /\ Head(m.jobs) \in Job \cup {Fence} /\ Tail(m.jobs) \in Seq(Job \cup {Fence})
           /\ Head(m.jobs) # Fence => Issued(Head(m.jobs)) /\ ~m.drained
           /\ Head(m.jobs) = Fence => m.stop /\ Tail(m.jobs) = <<>>
           /\ \A i \in 1..Len(Tail(m.jobs)) :
                IF Tail(m.jobs)[i] = Fence THEN m.stop /\ i = Len(Tail(m.jobs)) ELSE Issued(Tail(m.jobs)[i])
           /\ m.stop /\ Head(m.jobs) # Fence =>
                Tail(m.jobs) # <<>> /\ Tail(m.jobs)[Len(Tail(m.jobs))] = Fence
  <1>1. m.jobs \in Seq(Job \cup {Fence})
    BY Zenon DEF Manager
  <1>2. /\ Head(m.jobs) = m.jobs[1] /\ m.jobs[1] \in Job \cup {Fence} /\ Tail(m.jobs) \in Seq(Job \cup {Fence})
        /\ Len(m.jobs) \in Nat /\ Len(m.jobs) > 0 /\ Len(Tail(m.jobs)) = Len(m.jobs) - 1
        /\ \A i \in 1..(Len(m.jobs) - 1) : Tail(m.jobs)[i] = m.jobs[i + 1]
        /\ Tail(m.jobs) = <<>> <=> Len(Tail(m.jobs)) = 0
    <2>1. Tail(m.jobs) \in Seq(Job \cup {Fence})
      BY <1>1
    <2>2. Tail(m.jobs) = <<>> <=> Len(Tail(m.jobs)) = 0
      BY <2>1, ShortSeqs, Zenon
    <2> QED BY <1>1, <2>1, <2>2, QueueEnds, ZenonT(30)
  <1>3. /\ \A i \in 1..Len(m.jobs) : IF m.jobs[i] = Fence THEN m.stop /\ i = Len(m.jobs) ELSE Issued(m.jobs[i])
        /\ m.stop /\ ~m.drained => m.jobs[Len(m.jobs)] = Fence
        /\ ~m.drained
    BY Zenon DEF InOrder
  <1> QED BY <1>2, <1>3

\* The fence's turn comes when no job is queued or running.
LEMMA RunFenceStep ==
    ASSUME NEW c \in Clients
    PROVE  IInv /\ run_fence(c) => IInv'
  <1> SUFFICES ASSUME IInv, run_fence(c) PROVE IInv'
    BY Zenon
  <1>1. mgr[c] \in Manager /\ InOrder(mgr[c]) /\ mgr[c].jobs # <<>> /\ mgr[c].job = Idle
    BY Zenon DEF IInv, TypeOK, Queued, run_fence, Runs
  <1>2. Head(mgr[c].jobs) = Fence /\ mgr[c].stop /\ Tail(mgr[c].jobs) = <<>>
    BY <1>1, TakeFirst, Zenon DEF run_fence, Job, Kinds
  <1>3. /\ mgr'[c] = [jobs |-> <<>>, job |-> mgr[c].job, pc |-> mgr[c].pc, stop |-> mgr[c].stop, drained |-> TRUE]
        /\ \A x \in Clients : x # c => mgr'[x] = mgr[x]
    <2>1. mgr' = [mgr EXCEPT ![c].jobs = Tail(@), ![c].drained = TRUE]
      BY Zenon DEF run_fence
    <2>2. mgr \in [Clients -> Manager]
      BY Zenon DEF IInv, TypeOK
    <2> QED BY <1>1, <1>2, <2>1, <2>2, Zenon DEF Manager
  <1>4. UNCHANGED <<proxy, term, wire, srv, ops, opened, journal, crossed, faults>> /\ srv.next \in Nat
    BY Zenon DEF IInv, TypeOK, run_fence
  <1>5. TypeOK'
    <2>1. mgr'[c] \in Manager
      BY <1>1, <1>3 DEF Manager
    <2>2. mgr' \in [Clients -> Manager]
      BY <1>3, <2>1, Zenon DEF IInv, TypeOK, run_fence
    <2> QED BY <1>4, <2>2 DEF IInv, TypeOK
  <1>6. Queued'
    <2>1. InOrder(mgr[c])'
      BY <1>1, <1>2, <1>3, <1>4 DEF InOrder, Issued
    <2>2. \A x \in Clients : x # c => InOrder(mgr[x])'
      BY <1>3, <1>4, StaysInOrder DEF IInv
    <2> QED BY <2>1, <2>2, Zenon DEF Queued
  <1>7. \A x \in Clients : mgr'[x].pc = mgr[x].pc /\ mgr'[x].job = mgr[x].job
    BY <1>3
  <1> QED BY <1>4, <1>5, <1>6, <1>7, QueueOnly, Zenon

\* A job that could not connect leaves the queue and nothing else.
LEMMA ConnectFailsStep ==
    ASSUME NEW c \in Clients, IInv, Runs(c), Head(mgr[c].jobs).kind # "fence",
           Return(c, Head(mgr[c].jobs), 0), UNCHANGED <<proxy, term, wire, srv, ops, opened, journal>>, faults' \in Nat
    PROVE  IInv'
  <1>1. mgr[c] \in Manager /\ InOrder(mgr[c]) /\ mgr[c].jobs # <<>> /\ mgr[c].job = Idle /\ mgr[c].pc = "idle"
    BY Zenon DEF IInv, TypeOK, Queued, InOrder, Runs
  <1> DEFINE t == Tail(mgr[c].jobs)
  <1>2. /\ Head(mgr[c].jobs) # Fence /\ ~mgr[c].drained /\ t \in Seq(Job \cup {Fence})
        /\ \A i \in 1..Len(t) : IF t[i] = Fence THEN mgr[c].stop /\ i = Len(t) ELSE Issued(t[i])
        /\ mgr[c].stop => t # <<>> /\ t[Len(t)] = Fence
    <2>1. Head(mgr[c].jobs) # Fence
      BY DEF Fence
    <2> QED BY <1>1, <2>1, TakeFirst, Zenon
  <1>3. /\ mgr'[c] = [jobs |-> t, job |-> Idle, pc |-> "idle", stop |-> mgr[c].stop, drained |-> mgr[c].drained]
        /\ \A x \in Clients : x # c => mgr'[x] = mgr[x]
    <2>1. mgr' = [mgr EXCEPT ![c].job = Idle, ![c].pc = "idle", ![c].jobs = IF mgr[c].pc = "idle" THEN Tail(@) ELSE @]
      BY Zenon DEF Return
    <2>2. mgr \in [Clients -> Manager]
      BY Zenon DEF IInv, TypeOK
    <2> QED BY <1>1, <2>1, <2>2, Zenon DEF Manager
  <1>4. UNCHANGED crossed /\ srv.next \in Nat
    BY Zenon DEF IInv, TypeOK, Return
  <1>5. TypeOK'
    <2>1. mgr'[c] \in Manager
      BY <1>1, <1>2, <1>3, SMTT(30) DEF Manager
    <2>2. mgr' \in [Clients -> Manager]
      BY <1>3, <2>1, Zenon DEF IInv, TypeOK, Return
    <2> QED BY <1>4, <2>2, Zenon DEF IInv, TypeOK
  <1>6. Queued'
    <2>1. InOrder(mgr[c])'
      <3> HIDE DEF t
      <3> QED BY <1>2, <1>3, <1>4 DEF InOrder, Issued
    <2>2. \A x \in Clients : x # c => InOrder(mgr[x])'
      BY <1>3, <1>4, StaysInOrder DEF IInv
    <2> QED BY <2>1, <2>2, Zenon DEF Queued
  <1>7. \A x \in Clients : mgr'[x].pc = mgr[x].pc /\ mgr'[x].job = mgr[x].job
    BY <1>1, <1>3
  <1> QED BY <1>4, <1>5, <1>6, <1>7, QueueOnly, Zenon

\* A job that is sent goes alone on its connection, a new one or one that was quiet.  IO goes out only on a
\* connection that is bound at its own term, and otherwise its HELO does.
LEMMA RunJobStep ==
    ASSUME NEW c \in Clients
    PROVE  IInv /\ run_job(c) => IInv'
  <1> SUFFICES ASSUME IInv, run_job(c) PROVE IInv'
    BY Zenon
  <1> DEFINE Sent(j, k, op) ==
               /\ j = Head(mgr[c].jobs) /\ k = ensure_connected(c, j.r)
               /\ op = IF ensure_bound(c, j) THEN j.kind ELSE "helo"
               /\ k \in Conns
               /\ opened' = (IF k > opened THEN k ELSE opened)
               /\ proxy' = [proxy EXCEPT ![c][j.r].conn = k]
               /\ wire' = [wire EXCEPT ![k].to = j.r, ![k].req = Append(@, [op |-> op, id |-> j.id, term |-> j.term])]
               /\ mgr' = [mgr EXCEPT ![c].jobs = Tail(@), ![c].job = j,
                                     ![c].pc = IF op = "helo" THEN "helo" ELSE "call"]
               /\ UNCHANGED <<crossed, faults>>
  <1>a. /\ Runs(c) /\ Head(mgr[c].jobs).kind # "fence" /\ UNCHANGED <<term, srv, ops, journal>>
        /\ \/ \E j, k, op : Sent(j, k, op)
           \/ ConnectFails(c, Head(mgr[c].jobs).r) /\ Return(c, Head(mgr[c].jobs), 0) /\ UNCHANGED <<proxy, wire, opened>>
    <2> DEFINE j == Head(mgr[c].jobs)
    <2>1. \/ Sent(j, ensure_connected(c, j.r), IF ensure_bound(c, j) THEN j.kind ELSE "helo")
          \/ ConnectFails(c, j.r) /\ Return(c, j, 0) /\ UNCHANGED <<proxy, wire, opened>>
      BY Zenon DEF run_job
    <2>2. Runs(c) /\ j.kind # "fence" /\ UNCHANGED <<term, srv, ops, journal>>
      BY Zenon DEF run_job
    <2> HIDE DEF Sent
    <2> QED BY <2>1, <2>2, Zenon
  <1>b. CASE ConnectFails(c, Head(mgr[c].jobs).r) /\ Return(c, Head(mgr[c].jobs), 0) /\ UNCHANGED <<proxy, wire, opened>>
    <2>1. faults' \in Nat
      BY <1>b DEF ConnectFails, Faulty, IInv, TypeOK
    <2> QED BY <1>a, <1>b, <2>1, ConnectFailsStep, Zenon
  <1> SUFFICES ASSUME \E j, k, op : Sent(j, k, op) PROVE IInv'
    BY <1>a, <1>b, Zenon
  <1> HIDE DEF Sent
  <1>c. PICK j, k, op : Sent(j, k, op)
    BY Zenon
  <1>d. /\ j = Head(mgr[c].jobs) /\ j.kind # "fence" /\ k = ensure_connected(c, j.r) /\ k \in Conns
        /\ op = (IF ensure_bound(c, j) THEN j.kind ELSE "helo") /\ opened' = (IF k > opened THEN k ELSE opened)
        /\ UNCHANGED <<term, srv, ops, journal, crossed, faults>>
    BY <1>a, <1>c, Zenon DEF Sent
  <1> DEFINE q == [op |-> op, id |-> j.id, term |-> j.term]
             t == Tail(mgr[c].jobs)
             pc == IF op = "helo" THEN "helo" ELSE "call"
             r == j.r
             p == proxy[c][r]
             w == wire[k]
  <1>1. mgr[c] \in Manager /\ InOrder(mgr[c]) /\ mgr[c].jobs # <<>> /\ mgr[c].job = Idle /\ mgr[c].pc = "idle"
    BY <1>a, Zenon DEF IInv, TypeOK, Queued, InOrder, Runs
  <1>2. /\ j \in Job /\ Issued(j) /\ ~mgr[c].drained /\ t \in Seq(Job \cup {Fence})
        /\ \A i \in 1..Len(t) : IF t[i] = Fence THEN mgr[c].stop /\ i = Len(t) ELSE Issued(t[i])
        /\ mgr[c].stop => t # <<>> /\ t[Len(t)] = Fence
    <2>1. j # Fence
      BY <1>d DEF Fence
    <2> QED BY <1>1, <1>d, <2>1, TakeFirst, Zenon
  <1>3. /\ r \in Replicas /\ op \in Ops /\ q \in Request /\ j.kind \in Kinds
        /\ op = "io" => p.bound /\ p.bterm = j.term
        /\ op = "helo" => j.kind = "io"
        /\ op # "helo" => op = j.kind
    <2>1. r \in Replicas /\ j.kind \in Kinds /\ j.id \in Nat /\ j.term \in Nat
      BY <1>2, Zenon DEF Job
    <2>2. op = (IF ensure_bound(c, j) THEN j.kind ELSE "helo") /\ "helo" # "io"
      BY <1>d, Zenon
    <2>3. op \in Ops
      BY <2>1, <2>2, Zenon DEF Ops
    <2>4. op = "io" => p.bound /\ p.bterm = j.term
      <3>1. "io" # "login" /\ "io" # "logout"
        BY Zenon
      <3> QED BY <2>2, <3>1, Zenon DEF ensure_bound
    <2>5. ~ensure_bound(c, j) => j.kind = "io"
      BY <2>1, Zenon DEF ensure_bound, Kinds
    <2>6. "helo" \notin Kinds
      BY Zenon DEF Kinds
    <2>7. q \in Request
      BY <2>1, <2>3, ZenonT(30) DEF Request
    <2> QED BY <2>1, <2>2, <2>3, <2>4, <2>5, <2>6, <2>7, Zenon
  <1>4. /\ p \in Proxy /\ w \in Connection
        /\ opened \in Nat /\ opened <= MaxConns /\ k \in Nat /\ k # 0 /\ k <= MaxConns
        /\ srv.next \in Nat /\ srv.term \in Nat
    BY <1>3, <1>d, TcpSessionAssumption DEF IInv, TypeOK, Conns
  <1>5. \/ k = p.conn /\ k <= opened /\ opened' = opened
        \/ p.conn = 0 /\ k = opened + 1 /\ opened' = k
    <2>1. p.conn <= opened
      BY <1>3, Zenon DEF IInv, Owned
    <2>2. opened' = IF k > opened THEN k ELSE opened
      BY <1>d, Zenon
    <2>3. k = IF p.conn # 0 THEN p.conn ELSE opened + 1
      BY <1>d, Zenon DEF ensure_connected
    <2>4. p.conn \in Nat
      BY <1>4, Zenon DEF Proxy
    <2> HIDE DEF p
    <2> QED BY <1>4, <2>1, <2>2, <2>3, <2>4
  <1>6. /\ w.req = <<>> /\ w.rsp = <<>>
        /\ \A x \in Clients, s \in Replicas : proxy[x][s].conn = k => x = c /\ s = r
    <2>1. CASE k = p.conn /\ k <= opened
      <3>1. ~Waits(c, r)
        BY <1>1, Zenon DEF Waits
      <3>2. Quiet(proxy[c][r].conn)
        BY <1>3, <1>4, <2>1, <3>1, Zenon DEF IInv, Outstanding
      <3>3. \A x \in Clients, s \in Replicas : proxy[x][s].conn = proxy[c][r].conn => x = c /\ s = r
        BY <1>3, <1>4, <2>1, OneOwner DEF IInv
      <3> QED BY <2>1, <3>2, <3>3, Zenon DEF Quiet
    <2>2. CASE p.conn = 0 /\ k = opened + 1
      <3>1. \A x \in Clients, s \in Replicas : proxy[x][s].conn # k
        BY <1>4, <2>2 DEF IInv, Owned, TypeOK
      <3>2. k > opened
        BY <1>4, <2>2
      <3> QED BY <3>1, <3>2, <1>d, Zenon DEF IInv, Outstanding
    <2> QED BY <1>5, <2>1, <2>2, Zenon
  <1>7. /\ mgr'[c] = [jobs |-> t, job |-> j, pc |-> pc, stop |-> mgr[c].stop, drained |-> mgr[c].drained]
        /\ \A x \in Clients : x # c => mgr'[x] = mgr[x]
    <2>1. mgr \in [Clients -> Manager]
      BY Zenon DEF IInv, TypeOK
    <2>2. mgr' = [mgr EXCEPT ![c].jobs = Tail(@), ![c].job = j, ![c].pc = pc]
      BY <1>c, Zenon DEF Sent
    <2>3. \A x \in Clients : x # c => mgr'[x] = mgr[x]
      BY <2>1, <2>2, Zenon
    <2> HIDE DEF pc
    <2> QED BY <1>1, <2>1, <2>2, <2>3, Zenon DEF Manager
  <1>8. /\ wire'[k] = [to |-> r, req |-> <<q>>, rsp |-> <<>>, term |-> w.term, bound |-> w.bound]
        /\ \A x \in Conns : x # k => wire'[x] = wire[x]
    <2>1. wire' = [wire EXCEPT ![k].to = r, ![k].req = Append(@, q)] /\ wire \in [Conns -> Connection]
      BY <1>c, Zenon DEF IInv, TypeOK, Sent
    <2>2. wire[k] \in Connection /\ wire[k].req = <<>> /\ wire[k].rsp = <<>>
      BY <1>4, <1>6, Zenon
    <2> HIDE DEF q, r
    <2>3. wire'[k] = [to |-> r, req |-> Append(wire[k].req, q), rsp |-> wire[k].rsp, term |-> wire[k].term, bound |-> wire[k].bound]
      BY <1>d, <2>1, <2>2, Zenon DEF Connection
    <2>4. Append(<<>>, q) = <<q>>
      BY <1>3, ShortSeqs, Zenon
    <2>5. \A x \in Conns : x # k => wire'[x] = wire[x]
      BY <2>1, Zenon
    <2> QED BY <2>2, <2>3, <2>4, <2>5, Zenon
  <1>9. /\ proxy'[c][r] = [conn |-> k, bound |-> p.bound, bterm |-> p.bterm]
        /\ \A x \in Clients, s \in Replicas : ~(x = c /\ s = r) => proxy'[x][s] = proxy[x][s]
        /\ proxy' \in [Clients -> [Replicas -> Proxy]]
    <2>1. PICK v : v = [p EXCEPT !.conn = k]
      BY Zenon
    <2>2. v = [conn |-> k, bound |-> p.bound, bterm |-> p.bterm]
      BY <1>4, <2>1, Zenon DEF Proxy
    <2>3. proxy' = [proxy EXCEPT ![c][r] = v]
      BY <1>c, <2>1, Zenon DEF Sent
    <2>4. v \in Proxy /\ proxy \in [Clients -> [Replicas -> Proxy]]
      BY <1>4, <2>2, Zenon DEF Proxy, IInv, TypeOK
    <2>5. Sets(c, r, v)
      <3> HIDE DEF r
      <3> QED BY <1>3, <2>3, <2>4, OneProxy, Zenon
    <2> QED BY <2>2, <2>5, Zenon DEF Sets
  <1> HIDE DEF q, t, pc, r, p, w
  <1>10. TypeOK'
    <2>1. mgr' \in [Clients -> Manager]
      <3>1. pc \in {"idle", "helo", "call"}
        BY Zenon DEF pc
      <3>2. mgr'[c] \in Manager
        BY <1>1, <1>2, <1>7, <3>1 DEF Manager
      <3>3. \A x \in Clients : mgr'[x] \in Manager
        BY <1>7, <3>2, Zenon DEF IInv, TypeOK
      <3> QED BY <1>c, <3>3, Zenon DEF Sent, IInv, TypeOK
    <2>2. wire' \in [Conns -> Connection]
      <3>1. wire'[k] \in Connection
        BY <1>3, <1>4, <1>8, ShortSeqs DEF Connection
      <3>2. \A x \in Conns : wire'[x] \in Connection
        BY <1>8, <3>1, Zenon DEF IInv, TypeOK
      <3>3. wire \in [Conns -> Connection] /\ wire' = [x \in Conns |-> wire'[x]]
        <4>1. wire' = [wire EXCEPT ![k].to = j.r, ![k].req = Append(@, [op |-> op, id |-> j.id, term |-> j.term])]
          BY <1>c, Zenon DEF Sent
        <4>2. wire \in [Conns -> Connection]
          BY Zenon DEF IInv, TypeOK
        <4> QED BY <4>1, <4>2, Zenon
      <3> QED BY <3>2, <3>3, Zenon
    <2>4. opened' \in Nat /\ opened' <= MaxConns
      BY <1>4, <1>5, Zenon
    <2> QED BY <1>9, <1>d, <2>1, <2>2, <2>4, Zenon DEF IInv, TypeOK
  <1>11. Queued'
    <2>1. InOrder(mgr[c])'
      BY <1>2, <1>3, <1>7, <1>d, SMTT(30) DEF InOrder, Issued, pc, Idle, Kinds
    <2>2. \A x \in Clients : x # c => InOrder(mgr[x])'
      BY <1>4, <1>7, <1>d, StaysInOrder DEF IInv
    <2> QED BY <2>1, <2>2, ZenonT(30) DEF Queued
  <1>12. \A x \in Clients, s \in Replicas : proxy'[x][s].conn = k <=> x = c /\ s = r
    BY <1>3, <1>6, <1>9
  <1>13. Owned'
    <2>1. \A x \in Clients, s \in Replicas : proxy'[x][s].conn <= opened' /\ (proxy'[x][s].conn # 0 => wire'[proxy'[x][s].conn].to = s)
      <3> SUFFICES ASSUME NEW x \in Clients, NEW s \in Replicas
                   PROVE  proxy'[x][s].conn <= opened' /\ (proxy'[x][s].conn # 0 => wire'[proxy'[x][s].conn].to = s)
        BY Zenon
      <3>1. CASE x = c /\ s = r
        BY <1>4, <1>5, <1>8, <1>9, <3>1
      <3>2. CASE ~(x = c /\ s = r)
        <4>1. proxy'[x][s] = proxy[x][s] /\ proxy[x][s].conn # k /\ proxy[x][s].conn \in Nat
          BY <1>9, <1>12, <3>2 DEF IInv, TypeOK, Proxy
        <4>2. proxy[x][s].conn <= opened /\ (proxy[x][s].conn # 0 => wire[proxy[x][s].conn].to = s /\ proxy[x][s].conn \in Conns)
          BY ConnOf, Zenon DEF IInv, Owned
        <4>3. opened <= opened'
          BY <1>4, <1>5
        <4>4. proxy[x][s].conn <= opened'
          BY <1>4, <1>5, <4>1, <4>2, <4>3
        <4> QED BY <1>8, <4>1, <4>2, <4>4, Zenon
      <3> QED BY <3>1, <3>2, Zenon
    <2>2. \A x, y \in Clients, s, u \in Replicas :
            proxy'[x][s].conn # 0 /\ proxy'[x][s].conn = proxy'[y][u].conn => x = y /\ s = u
      <3> TAKE x, y \in Clients, s, u \in Replicas
      <3> HAVE proxy'[x][s].conn # 0 /\ proxy'[x][s].conn = proxy'[y][u].conn
      <3>1. CASE proxy'[x][s].conn = k
        BY <1>12, <3>1, Zenon
      <3>2. CASE proxy'[x][s].conn # k
        <4>1. proxy'[x][s] = proxy[x][s] /\ proxy'[y][u] = proxy[y][u]
          BY <1>9, <1>12, <3>2, Zenon
        <4> QED BY <4>1, OneOwner DEF IInv
      <3> QED BY <3>1, <3>2, Zenon
    <2>3. \A x \in Clients : mgr'[x].pc # "idle" => proxy'[x][mgr'[x].job.r].conn # 0
      <3> SUFFICES ASSUME NEW x \in Clients, mgr'[x].pc # "idle" PROVE proxy'[x][mgr'[x].job.r].conn # 0
        BY Zenon
      <3>1. CASE x = c
        BY <1>4, <1>7, <1>9, <3>1 DEF r
      <3>2. CASE x # c
        <4>1. mgr'[x] = mgr[x] /\ mgr[x].job.r \in Replicas /\ proxy[x][mgr[x].job.r].conn # 0
          BY <1>7, <3>2 DEF IInv, TypeOK, Queued, InOrder, Manager, Job, Owned
        <4> QED BY <1>9, <3>2, <4>1, Zenon
      <3> QED BY <3>1, <3>2, Zenon
    <2> QED BY <2>1, <2>2, <2>3, Zenon DEF Owned
  <1>14. Asked(c)' = q /\ \A s \in Replicas : Waits(c, s)' <=> s = r
    <2>1. pc = IF op = "helo" THEN "helo" ELSE "call"
      BY Zenon DEF pc
    <2>2. Asked(c)' = [op |-> IF pc = "helo" THEN "helo" ELSE j.kind, id |-> j.id, term |-> j.term]
      BY <1>7 DEF Asked
    <2>3. (IF pc = "helo" THEN "helo" ELSE j.kind) = op
      BY <1>3, <2>1, Zenon
    <2>4. \A s \in Replicas : Waits(c, s)' <=> s = r
      BY <1>7, <2>1 DEF Waits, r
    <2> QED BY <2>2, <2>3, <2>4, Zenon DEF q
  <1>15. \A x \in Clients, s \in Replicas : ~(x = c /\ s = r) /\ proxy[x][s].conn # 0 =>
            /\ proxy'[x][s] = proxy[x][s] /\ proxy[x][s].conn \in Conns
            /\ wire'[proxy[x][s].conn] = wire[proxy[x][s].conn]
    BY <1>6, <1>8, <1>9, ConnOf, Zenon DEF IInv
  <1>m. Moves
    BY <1>4, <1>d DEF Moves
  <1>e. \A x \in Clients, s \in Replicas : ~(x = c /\ s = r) =>
            /\ proxy'[x][s].conn # 0 => IF Waits(x, s)' THEN Carries(x, proxy[x][s].conn)' ELSE Quiet(proxy[x][s].conn)'
            /\ BoundAlike(x, s)'
    <2> SUFFICES ASSUME NEW x \in Clients, NEW s \in Replicas, ~(x = c /\ s = r)
                 PROVE  /\ proxy'[x][s].conn # 0 =>
                             IF Waits(x, s)' THEN Carries(x, proxy[x][s].conn)' ELSE Quiet(proxy[x][s].conn)'
                        /\ BoundAlike(x, s)'
      BY Zenon
    <2>1. mgr'[x] = mgr[x] \/ (~Waits(x, s) /\ ~Waits(x, s)')
      BY <1>1, <1>7, <1>14, Zenon DEF Waits
    <2>2. proxy'[x][s] = proxy[x][s] /\ (proxy[x][s].conn # 0 => wire'[proxy[x][s].conn] = wire[proxy[x][s].conn])
      BY <1>9, <1>15, Zenon
    <2> QED BY <1>m, <2>1, <2>2, Elsewhere, Zenon
  <1>16. Outstanding'
    <2>1. ASSUME NEW x \in Clients, NEW s \in Replicas, proxy'[x][s].conn # 0
          PROVE  IF Waits(x, s)' THEN Carries(x, proxy[x][s].conn)' ELSE Quiet(proxy[x][s].conn)'
      <3>1. CASE x = c /\ s = r
        <4>1. proxy'[x][s].conn = k
          BY <1>12, <3>1, Zenon
        <4>2. Waits(x, s)' /\ Asked(x)' = q
          BY <1>14, <3>1, Zenon
        <4>3. wire'[k].req = <<q>> /\ wire'[k].rsp = <<>>
          BY <1>8
        <4> QED BY <4>1, <4>2, <4>3, Zenon DEF Carries
      <3>2. CASE ~(x = c /\ s = r)
        BY <1>e, <2>1, <3>2, Zenon
      <3> QED BY <3>1, <3>2, Zenon
    <2>2. ASSUME NEW n \in Conns
          PROVE  /\ Len(wire'[n].req) <= 1 /\ Len(wire'[n].rsp) <= 1
                 /\ (\A x \in Clients, s \in Replicas : proxy'[x][s].conn # n) => wire'[n].rsp = <<>>
                 /\ n > opened' => wire'[n].req = <<>>
      <3>1. CASE n = k
        <4>1. ~(n > opened')
          BY <1>4, <1>5, <3>1
        <4>2. wire'[n].req = <<q>> /\ wire'[n].rsp = <<>>
          BY <1>8, <3>1
        <4>3. Len(<<q>>) <= 1 /\ Len(wire'[n].rsp) <= 1
          BY <1>3, <4>2, ShortSeqs
        <4> QED BY <4>1, <4>2, <4>3, Zenon
      <3>2. CASE n # k
        <4>1. n > opened' => n > opened
          BY <1>4, <1>5, <3>2 DEF Conns
        <4>2. (\A x \in Clients, s \in Replicas : proxy'[x][s].conn # n) => \A x \in Clients, s \in Replicas : proxy[x][s].conn # n
          <5>1. proxy[c][r].conn # n
            BY <1>5, <3>2 DEF Conns, p
          <5> QED BY <1>9, <5>1, ZenonT(30)
        <4> QED BY <1>8, <3>2, <4>1, <4>2, Zenon DEF IInv, Outstanding
      <3> QED BY <3>1, <3>2, Zenon
    <2> QED BY <2>1, <2>2, Zenon DEF Outstanding
  <1>17. Bound'
    <2>2. ASSUME NEW x \in Clients, NEW s \in Replicas
          PROVE  BoundAlike(x, s)'
      <3>1. CASE x = c /\ s = r
        <4>1. /\ wire'[k].rsp = <<>> /\ wire'[k].bound = w.bound /\ wire'[k].term = w.term
              /\ proxy'[c][r].conn = k /\ proxy'[c][r].bound = p.bound /\ proxy'[c][r].bterm = p.bterm
          BY <1>8, <1>9
        <4>2. p.bound => k = p.conn /\ Opened(p.bterm) /\ Agreed(k, p.bterm)
          <5> SUFFICES ASSUME p.bound PROVE k = p.conn /\ Opened(p.bterm) /\ Agreed(k, p.bterm)
            BY Zenon
          <5>1. BoundAlike(c, r)
            BY <1>3, Zenon DEF IInv, Bound
          <5>2. p.conn # 0 /\ Opened(p.bterm)
            BY <5>1, Zenon DEF BoundAlike, p
          <5>3. k = p.conn /\ proxy[c][r].conn = k
            BY <1>5, <5>2, Zenon DEF p
          <5>4. ~Binding(k)
            BY <1>6, Zenon DEF Binding, w
          <5> QED BY <5>1, <5>2, <5>3, <5>4, Zenon DEF BoundAlike, p
        <4>3. PICK b : b = p.bterm
          BY Zenon
        <4>4. p.bound => Opened(b)' /\ Agreed(k, b)'
          <5>1. UNCHANGED srv
            BY <1>d, Zenon
          <5> QED BY <4>1, <4>2, <4>3, <5>1, Zenon DEF Opened, Agreed, w
        <4>5. ~Binding(k)'
          BY <4>1, Zenon DEF Binding
        <4>6. /\ proxy'[x][s].conn = k /\ proxy'[x][s].bound = p.bound /\ proxy'[x][s].bterm = b /\ k # 0
          BY <1>4, <3>1, <4>1, <4>3, Zenon
        <4> QED BY <4>4, <4>5, <4>6, Zenon DEF BoundAlike, Binding, Opened, Agreed
      <3>2. CASE ~(x = c /\ s = r)
        BY <1>e, <3>2, Zenon
      <3> QED BY <3>1, <3>2, Zenon
    <2>3. ASSUME NEW n \in Conns
          PROVE  TravelsBound(n)'
      <3>1. CASE n = k
        <4>1. wire'[k].req = <<q>> /\ <<q>>[1] = q /\ q.op = op /\ q.term = j.term /\ wire'[k].bound = w.bound /\ wire'[k].term = w.term
          BY <1>8 DEF q
        <4> SUFFICES ASSUME op = "io" PROVE Opened(j.term)' /\ Agreed(k, j.term)'
          BY <3>1, <4>1, Zenon DEF TravelsBound, Opened, Agreed
        <4>2. BoundAlike(c, r) /\ p.bound /\ p.bterm = j.term
          BY <1>3, Zenon DEF IInv, Bound
        <4>3. p.conn # 0 /\ Opened(j.term)
          BY <4>2, Zenon DEF BoundAlike, p
        <4>4. proxy[c][r].conn = k /\ ~Binding(k)
          BY <1>5, <1>6, <4>3, Zenon DEF p, Binding, w
        <4>5. Agreed(k, j.term)
          BY <1>4, <4>2, <4>4, Zenon DEF BoundAlike, p
        <4>6. UNCHANGED srv
          BY <1>d, Zenon
        <4> QED BY <4>1, <4>3, <4>5, <4>6, Zenon DEF Opened, Agreed, w
      <3>2. CASE n # k
        BY <1>8, <1>m, <3>2, TravelsOn, Zenon DEF IInv, Bound, Outstanding
      <3> QED BY <3>1, <3>2, Zenon
    <2> QED BY <1>d, <2>2, <2>3, Zenon DEF IInv, Bound, Current
  <1> QED BY <1>10, <1>11, <1>13, <1>16, <1>17, <1>d, Zenon DEF IInv, OwnReply, StampedAsAsked

\* A job returns: nothing is left on its connection for a later one to find, except when the connection is
\* given up.  What the proxy then takes for its binding, at term b, is the server's.
Returned(c, r, k, b) ==
    /\ mgr[c].pc # "idle" /\ r = mgr[c].job.r /\ k = proxy[c][r].conn
    /\ mgr'[c] = [jobs |-> mgr[c].jobs, job |-> Idle, pc |-> "idle", stop |-> mgr[c].stop, drained |-> mgr[c].drained]
    /\ \A x \in Clients : x # c => mgr'[x] = mgr[x]
    /\ wire'[k] = [to |-> wire[k].to, req |-> wire[k].req, rsp |-> <<>>, term |-> wire[k].term, bound |-> wire[k].bound]
    /\ \A x \in Conns : x # k => wire'[x] = wire[x]
    /\ \/ proxy'[c][r].conn = k /\ wire[k].req = <<>>
       \/ proxy'[c][r].conn = 0 /\ ~proxy'[c][r].bound
    /\ proxy'[c][r].bterm = b /\ (proxy'[c][r].bound => Opened(b) /\ Agreed(k, b))
    /\ \A x \in Clients, s \in Replicas : ~(x = c /\ s = r) => proxy'[x][s] = proxy[x][s]
    /\ \A x \in Clients : term'[x] <= srv.next
    /\ UNCHANGED <<srv, ops, opened, journal, crossed>>

\* A job that ends, with its reply taken or its connection closed, keeps the invariant.
LEMMA ReturnStep ==
    ASSUME NEW c \in Clients, NEW r \in Replicas, NEW k, NEW b, IInv, TypeOK', Returned(c, r, k, b)
    PROVE  IInv'
  <1>a. /\ mgr[c].pc # "idle" /\ r = mgr[c].job.r /\ k = proxy[c][r].conn
        /\ UNCHANGED <<srv, ops, opened, journal, crossed>>
    BY Zenon DEF Returned
  <1>b. /\ mgr'[c] = [jobs |-> mgr[c].jobs, job |-> Idle, pc |-> "idle", stop |-> mgr[c].stop, drained |-> mgr[c].drained]
        /\ \A x \in Clients : x # c => mgr'[x] = mgr[x]
    BY Zenon DEF Returned
  <1>c. /\ wire'[k] = [to |-> wire[k].to, req |-> wire[k].req, rsp |-> <<>>, term |-> wire[k].term, bound |-> wire[k].bound]
        /\ \A x \in Conns : x # k => wire'[x] = wire[x]
    BY Zenon DEF Returned
  <1>d. /\ \/ proxy'[c][r].conn = k /\ wire[k].req = <<>>
           \/ proxy'[c][r].conn = 0 /\ ~proxy'[c][r].bound
        /\ proxy'[c][r].bterm = b /\ (proxy'[c][r].bound => Opened(b) /\ Agreed(k, b))
        /\ \A x \in Clients, s \in Replicas : ~(x = c /\ s = r) => proxy'[x][s] = proxy[x][s]
    BY Zenon DEF Returned
  <1>e. /\ wire'[k].to = wire[k].to /\ wire'[k].req = wire[k].req /\ wire'[k].rsp = <<>>
        /\ wire'[k].term = wire[k].term /\ wire'[k].bound = wire[k].bound
    BY <1>c
  <1>1. k \in Conns /\ k # 0 /\ k <= opened /\ wire[k].to = r /\ srv.next \in Nat /\ srv.term \in Nat /\ opened \in Nat
    BY <1>a, ConnOf, Zenon DEF IInv, Owned, TypeOK
  <1>2. \A x \in Clients, s \in Replicas : proxy[x][s].conn = k => x = c /\ s = r
    <2>1. Owned /\ k = proxy[c][r].conn /\ k # 0
      BY <1>1, <1>a, Zenon DEF IInv
    <2> QED BY <2>1, OneOwner
  <1>f. UNCHANGED srv /\ srv.next \in Nat /\ srv.term \in Nat
    BY <1>1, <1>a, Zenon
  <1>g. UNCHANGED opened /\ opened \in Nat /\ k <= opened /\ wire'[k].to = r
    BY <1>1, <1>a, <1>e, Zenon
  <1>3. \A x \in Clients, s \in Replicas : ~(x = c /\ s = r) /\ proxy[x][s].conn # 0 =>
            /\ proxy'[x][s] = proxy[x][s] /\ proxy[x][s].conn \in Conns
            /\ wire'[proxy[x][s].conn] = wire[proxy[x][s].conn]
    BY <1>2, <1>c, <1>d, ConnOf, Zenon DEF IInv
  <1>4. Queued'
    <2>1. InOrder(mgr[c])
      BY Zenon DEF IInv, Queued
    <2>2. InOrder(mgr[c])'
      <3>1. ~mgr[c].drained
        BY <1>a, <2>1, Zenon DEF InOrder
      <3>2. /\ mgr'[c].jobs = mgr[c].jobs /\ mgr'[c].job = Idle /\ mgr'[c].pc = "idle"
            /\ mgr'[c].stop = mgr[c].stop /\ mgr'[c].drained = mgr[c].drained
        BY <1>b
      <3>3. UNCHANGED srv
        BY <1>a, Zenon
      <3> QED BY <2>1, <3>1, <3>2, <3>3, Zenon DEF InOrder, Issued
    <2>3. \A x \in Clients : x # c => InOrder(mgr[x])'
      BY <1>b, <1>f, StaysInOrder DEF IInv
    <2> QED BY <2>2, <2>3, Zenon DEF Queued
  <1>5. Owned'
    <2>1. \A x \in Clients, s \in Replicas : proxy'[x][s].conn <= opened' /\ (proxy'[x][s].conn # 0 => wire'[proxy'[x][s].conn].to = s)
      <3> SUFFICES ASSUME NEW x \in Clients, NEW s \in Replicas
                   PROVE  proxy'[x][s].conn <= opened' /\ (proxy'[x][s].conn # 0 => wire'[proxy'[x][s].conn].to = s)
        BY Zenon
      <3>1. CASE x = c /\ s = r
        <4>1. proxy'[x][s].conn \in {k, 0}
          BY <1>d, <3>1, ZenonT(30)
        <4> QED BY <1>g, <3>1, <4>1
      <3>2. CASE ~(x = c /\ s = r)
        <4>1. proxy'[x][s] = proxy[x][s]
          BY <1>d, <3>2, Zenon
        <4>2. proxy[x][s].conn <= opened /\ (proxy[x][s].conn # 0 => wire[proxy[x][s].conn].to = s)
          BY Zenon DEF IInv, Owned
        <4> QED BY <1>3, <1>a, <3>2, <4>1, <4>2
      <3> QED BY <3>1, <3>2, Zenon
    <2>2. \A x, y \in Clients, s, u \in Replicas :
            proxy'[x][s].conn # 0 /\ proxy'[x][s].conn = proxy'[y][u].conn => x = y /\ s = u
      <3>1. \A x \in Clients, s \in Replicas : proxy'[x][s].conn # 0 => proxy'[x][s].conn = proxy[x][s].conn
        BY <1>a, <1>d, Zenon
      <3> QED BY <3>1, OneOwner DEF IInv
    <2>3. \A x \in Clients : mgr'[x].pc # "idle" => proxy'[x][mgr'[x].job.r].conn # 0
      <3> SUFFICES ASSUME NEW x \in Clients, mgr'[x].pc # "idle" PROVE proxy'[x][mgr'[x].job.r].conn # 0
        BY Zenon
      <3>1. x # c /\ mgr'[x] = mgr[x]
        BY <1>b
      <3>2. mgr[x].job.r \in Replicas /\ proxy[x][mgr[x].job.r].conn # 0
        <4>1. mgr[x] \in Manager /\ InOrder(mgr[x]) /\ mgr[x].pc # "idle"
          BY <3>1, Zenon DEF IInv, TypeOK, Queued
        <4>2. mgr[x].job \in Job
          BY <4>1, Zenon DEF Manager, InOrder
        <4> QED BY <4>1, <4>2, Zenon DEF Job, IInv, Owned
      <3> QED BY <1>d, <3>1, <3>2, Zenon
    <2> QED BY <2>1, <2>2, <2>3, Zenon DEF Owned
  <1>i. mgr'[c].pc = "idle"
    BY <1>b
  <1>m. Moves
    BY <1>f DEF Moves
  <1>h. \A x \in Clients, s \in Replicas : ~(x = c /\ s = r) =>
            /\ proxy'[x][s].conn # 0 => IF Waits(x, s)' THEN Carries(x, proxy[x][s].conn)' ELSE Quiet(proxy[x][s].conn)'
            /\ BoundAlike(x, s)'
    <2> SUFFICES ASSUME NEW x \in Clients, NEW s \in Replicas, ~(x = c /\ s = r)
                 PROVE  /\ proxy'[x][s].conn # 0 =>
                             IF Waits(x, s)' THEN Carries(x, proxy[x][s].conn)' ELSE Quiet(proxy[x][s].conn)'
                        /\ BoundAlike(x, s)'
      BY Zenon
    <2>1. mgr'[x] = mgr[x] \/ (~Waits(x, s) /\ ~Waits(x, s)')
      BY <1>a, <1>b, <1>i, Zenon DEF Waits
    <2>2. proxy'[x][s] = proxy[x][s] /\ (proxy[x][s].conn # 0 => wire'[proxy[x][s].conn] = wire[proxy[x][s].conn])
      BY <1>3, <1>d, Zenon
    <2> QED BY <1>m, <2>1, <2>2, Elsewhere, Zenon
  <1>6. Outstanding'
    <2>1. ASSUME NEW x \in Clients, NEW s \in Replicas, proxy'[x][s].conn # 0
          PROVE  IF Waits(x, s)' THEN Carries(x, proxy[x][s].conn)' ELSE Quiet(proxy[x][s].conn)'
      <3>1. CASE x = c /\ s = r
        <4>1. proxy'[x][s].conn = k /\ wire[k].req = <<>>
          BY <1>d, <2>1, <3>1, Zenon
        <4>2. ~Waits(x, s)'
          BY <1>b, <3>1 DEF Waits
        <4> QED BY <1>e, <4>1, <4>2, Zenon DEF Quiet
      <3>2. CASE ~(x = c /\ s = r)
        BY <1>h, <2>1, <3>2, Zenon
      <3> QED BY <3>1, <3>2, Zenon
    <2>2. ASSUME NEW n \in Conns
          PROVE  /\ Len(wire'[n].req) <= 1 /\ Len(wire'[n].rsp) <= 1
                 /\ (\A x \in Clients, s \in Replicas : proxy'[x][s].conn # n) => wire'[n].rsp = <<>>
                 /\ n > opened' => wire'[n].req = <<>>
      <3>1. CASE n = k
        <4>1. Len(wire[n].req) <= 1 /\ (n > opened => wire[n].req = <<>>)
          BY Zenon DEF IInv, Outstanding
        <4>2. Len(wire'[n].rsp) <= 1
          BY <1>e, <3>1
        <4> QED BY <1>a, <1>e, <3>1, <4>1, <4>2, Zenon
      <3>2. CASE n # k
        <4>1. (\A x \in Clients, s \in Replicas : proxy'[x][s].conn # n) => \A x \in Clients, s \in Replicas : proxy[x][s].conn # n
          <5>1. \A x \in Clients, s \in Replicas : proxy'[x][s] = proxy[x][s] \/ proxy[x][s].conn = k
            BY <1>a, <1>d, Zenon
          <5> QED BY <3>2, <5>1, Zenon
        <4> QED BY <1>a, <1>c, <3>2, <4>1, Zenon DEF IInv, Outstanding
      <3> QED BY <3>1, <3>2, Zenon
    <2> QED BY <2>1, <2>2, Zenon DEF Outstanding
  <1>7. Bound'
    <2>2. ASSUME NEW x \in Clients, NEW s \in Replicas
          PROVE  BoundAlike(x, s)'
      <3>1. CASE x = c /\ s = r
        <4>1. ~Binding(k)'
          BY <1>e, Zenon DEF Binding
        <4>2. Agreed(k, b) => Agreed(k, b)'
          BY <1>a, <1>e, Zenon DEF Agreed
        <4>3. Opened(b) => Opened(b)'
          BY <1>a, Zenon DEF Opened
        <4>4. /\ proxy'[x][s].bterm = b
              /\ proxy'[x][s].bound => proxy'[x][s].conn = k /\ Opened(b)' /\ Agreed(k, b)'
              /\ proxy'[x][s].conn # 0 => proxy'[x][s].conn = k
          BY <1>d, <3>1, <4>2, <4>3, Zenon
        <4> QED BY <1>1, <4>1, <4>4, Zenon DEF BoundAlike, Binding, Opened, Agreed
      <3>2. CASE ~(x = c /\ s = r)
        BY <1>h, <3>2, Zenon
      <3> QED BY <3>1, <3>2, Zenon
    <2>3. ASSUME NEW n \in Conns
          PROVE  TravelsBound(n)'
      <3>1. CASE n = k
        <4>1. TravelsBound(k) /\ UNCHANGED srv
          BY <1>1, <1>a, Zenon DEF IInv, Bound
        <4> QED BY <1>e, <3>1, <4>1, Zenon DEF TravelsBound, Opened, Agreed
      <3>2. CASE n # k
        BY <1>c, <1>m, <3>2, TravelsOn, Zenon DEF IInv, Bound, Outstanding
      <3> QED BY <3>1, <3>2, Zenon
    <2>4. Current' /\ \A x \in Clients : term'[x] <= srv'.next
      BY <1>a, Zenon DEF Returned, IInv, Bound, Current
    <2> QED BY <2>2, <2>3, <2>4, Zenon DEF Bound
  <1> QED BY <1>4, <1>5, <1>6, <1>7, <1>a, Zenon DEF IInv, OwnReply, StampedAsAsked

\* What the running job of a process has: a connection, with its request or the answer to it.
LEMMA Running ==
    ASSUME NEW c \in Clients, IInv, mgr[c].pc # "idle"
    PROVE  LET j == mgr[c].job
               k == proxy[c][j.r].conn
           IN  /\ j \in Job /\ j.r \in Replicas /\ Issued(j) /\ k \in Conns /\ k # 0 /\ k <= opened
               /\ wire[k] \in Connection /\ proxy[c][j.r] \in Proxy /\ mgr[c] \in Manager
               /\ Waits(c, j.r) /\ Carries(c, k) /\ BoundAlike(c, j.r)
  <1> DEFINE j == mgr[c].job
             k == proxy[c][j.r].conn
  <1>1. mgr[c] \in Manager /\ InOrder(mgr[c])
    BY Zenon DEF IInv, TypeOK, Queued
  <1>2. j \in Job /\ Issued(j)
    BY <1>1, Zenon DEF Manager, InOrder
  <1>3. j.r \in Replicas /\ k # 0
    BY <1>2, Zenon DEF IInv, Owned, Job
  <1>4. k \in Conns /\ k <= opened
    <2> HIDE DEF j
    <2> QED BY <1>3, ConnOf, Zenon DEF IInv
  <1>5. wire[k] \in Connection /\ proxy[c][j.r] \in Proxy
    BY <1>3, <1>4, Zenon DEF IInv, TypeOK
  <1>6. Waits(c, j.r)
    BY Zenon DEF Waits
  <1>7. Carries(c, k) /\ BoundAlike(c, j.r)
    BY <1>3, <1>6, Zenon DEF IInv, Outstanding, Bound
  <1> QED BY <1>1, <1>2, <1>3, <1>4, <1>5, <1>6, <1>7, Zenon

\* The manager's side of a return.
LEMMA ReturnsIdle ==
    ASSUME NEW c \in Clients, NEW j, NEW by, IInv, mgr[c].pc # "idle", Return(c, j, by)
    PROVE  /\ mgr'[c] = [jobs |-> mgr[c].jobs, job |-> Idle, pc |-> "idle", stop |-> mgr[c].stop, drained |-> mgr[c].drained]
           /\ \A x \in Clients : x # c => mgr'[x] = mgr[x]
           /\ mgr' \in [Clients -> Manager]
           /\ crossed' \in BOOLEAN /\ (by \in {0, j.id} => UNCHANGED crossed)
  <1>1. mgr \in [Clients -> Manager] /\ mgr[c] \in Manager
    BY Zenon DEF IInv, TypeOK
  <1>2. mgr' = [mgr EXCEPT ![c].job = Idle, ![c].pc = "idle", ![c].jobs = IF mgr[c].pc = "idle" THEN Tail(@) ELSE @]
    BY Zenon DEF Return
  <1>3. /\ mgr'[c] = [jobs |-> mgr[c].jobs, job |-> Idle, pc |-> "idle", stop |-> mgr[c].stop, drained |-> mgr[c].drained]
        /\ \A x \in Clients : x # c => mgr'[x] = mgr[x]
    BY <1>1, <1>2, Zenon DEF Manager
  <1>4. mgr'[c] \in Manager
    <2>1. mgr[c].jobs \in Seq(Job \cup {Fence}) /\ mgr[c].stop \in BOOLEAN /\ mgr[c].drained \in BOOLEAN
      BY <1>1, Zenon DEF Manager
    <2> QED BY <1>3, <2>1 DEF Manager
  <1>5. mgr' \in [Clients -> Manager]
    <2>1. mgr' = [x \in Clients |-> mgr'[x]]
      BY <1>1, <1>2, Zenon
    <2>2. \A x \in Clients : mgr'[x] \in Manager
      BY <1>1, <1>3, <1>4, Zenon
    <2> QED BY <2>1, <2>2, Zenon
  <1>6. crossed' \in BOOLEAN /\ (by \in {0, j.id} => UNCHANGED crossed)
    BY Zenon DEF Return, IInv, TypeOK
  <1> QED BY <1>3, <1>5, <1>6, Zenon

\* One connection changes.
LEMMA OneWire ==
    ASSUME wire \in [Conns -> Connection], NEW k \in Conns, wire'[k] \in Connection,
           \A x \in Conns : x # k => wire'[x] = wire[x], wire' = [x \in Conns |-> wire'[x]]
    PROVE  wire' \in [Conns -> Connection]
  <1>1. \A x \in Conns : wire'[x] \in Connection
    BY Zenon
  <1> QED BY <1>1, Zenon

\* A connection whose answers are gone.
LEMMA EmptiedWire ==
    ASSUME NEW k, wire[k] \in Connection,
           wire'[k] = [to |-> wire[k].to, req |-> wire[k].req, rsp |-> <<>>, term |-> wire[k].term, bound |-> wire[k].bound]
    PROVE  wire'[k] \in Connection
  <1>1. /\ wire[k].to \in Replicas /\ wire[k].req \in Seq(Request) /\ wire[k].term \in Nat /\ wire[k].bound \in BOOLEAN
        /\ <<>> \in Seq(Response)
    BY ShortSeqs, Zenon DEF Connection
  <1>2. PICK n : n = [to |-> wire[k].to, req |-> wire[k].req, rsp |-> <<>>, term |-> wire[k].term, bound |-> wire[k].bound]
    BY Zenon
  <1>3. n \in Connection
    BY <1>1, <1>2, Zenon DEF Connection
  <1> QED BY <1>2, <1>3, Zenon

\* A fault takes the connection with it, and whatever answer is on it.
LEMMA NetFaultStep ==
    ASSUME NEW c \in Clients
    PROVE  IInv /\ on_net_fault(c) => IInv'
  <1> SUFFICES ASSUME IInv, on_net_fault(c) PROVE IInv'
    BY Zenon
  <1>a. PICK r, k : r = mgr[c].job.r /\ k = proxy[c][r].conn
    BY Zenon
  <1>1. /\ mgr[c].pc # "idle" /\ Return(c, mgr[c].job, 0)
        /\ proxy' = [proxy EXCEPT ![c][r] = [@ EXCEPT !.conn = 0, !.bound = FALSE]]
        /\ wire' = [wire EXCEPT ![k].rsp = <<>>]
        /\ UNCHANGED <<term, srv, ops, opened, journal>>
    BY <1>a, Zenon DEF on_net_fault, io_fault
  <1>2. /\ r \in Replicas /\ k \in Conns /\ wire[k] \in Connection /\ proxy[c][r] \in Proxy /\ Carries(c, k)
        /\ wire \in [Conns -> Connection] /\ proxy \in [Clients -> [Replicas -> Proxy]]
    BY <1>1, <1>a, Running, Zenon DEF IInv, TypeOK
  <1>3. PICK v : v = [proxy[c][r] EXCEPT !.conn = 0, !.bound = FALSE]
    BY Zenon
  <1>4. v = [conn |-> 0, bound |-> FALSE, bterm |-> proxy[c][r].bterm]
    BY <1>2, <1>3, Zenon DEF Proxy
  <1>5. proxy' = [proxy EXCEPT ![c][r] = v] /\ v \in Proxy
    <2>1. v \in Proxy
      <3>1. proxy[c][r].bterm \in Nat
        BY <1>2, Zenon DEF Proxy
      <3> QED BY <1>4, <3>1, Zenon DEF Proxy
    <2> QED BY <1>1, <1>3, <2>1, Zenon
  <1>6. /\ proxy' \in [Clients -> [Replicas -> Proxy]] /\ proxy'[c][r] = v
        /\ \A x \in Clients, s \in Replicas : ~(x = c /\ s = r) => proxy'[x][s] = proxy[x][s]
    <2>1. Sets(c, r, v)
      BY <1>2, <1>5, OneProxy, Zenon
    <2> QED BY <2>1, Zenon DEF Sets
  <1>7. /\ wire'[k] = [to |-> wire[k].to, req |-> wire[k].req, rsp |-> <<>>, term |-> wire[k].term, bound |-> wire[k].bound]
        /\ \A x \in Conns : x # k => wire'[x] = wire[x]
    BY <1>1, <1>2, Zenon DEF Connection
  <1>8. wire' \in [Conns -> Connection]
    <2>1. wire'[k] \in Connection
      BY <1>2, <1>7, EmptiedWire, Zenon
    <2>2. wire' = [x \in Conns |-> wire'[x]]
      BY <1>1, <1>2, Zenon
    <2> QED BY <1>2, <1>7, <2>1, <2>2, OneWire, Zenon
  <1>9. /\ mgr'[c] = [jobs |-> mgr[c].jobs, job |-> Idle, pc |-> "idle", stop |-> mgr[c].stop, drained |-> mgr[c].drained]
        /\ \A x \in Clients : x # c => mgr'[x] = mgr[x]
        /\ mgr' \in [Clients -> Manager] /\ UNCHANGED crossed
    BY <1>1, ReturnsIdle, Zenon
  <1>10. TypeOK'
    <2>1. faults' \in Nat
      <3>1. faults \in Nat /\ faults' = faults + 1
        BY Zenon DEF on_net_fault, io_fault, Faulty, IInv, TypeOK
      <3> QED BY <3>1
    <2> QED BY <1>1, <1>6, <1>8, <1>9, <2>1, Zenon DEF IInv, TypeOK
  <1>11. PICK b : b = v.bterm
    BY Zenon
  <1>12. Returned(c, r, k, b)
    <2>1. proxy'[c][r].conn = 0 /\ ~proxy'[c][r].bound /\ proxy'[c][r].bterm = b
      <3>1. v.conn = 0 /\ v.bound = FALSE
        BY <1>4, Zenon
      <3> QED BY <1>6, <1>11, <3>1, Zenon
    <2>2. \A x \in Clients : term'[x] <= srv.next
      BY <1>1, Zenon DEF IInv, Bound
    <2> QED BY <1>1, <1>6, <1>7, <1>9, <1>a, <2>1, <2>2, Zenon DEF Returned
  <1> QED BY <1>2, <1>10, <1>12, ReturnStep, Zenon

\* The reply m that ends a wait is the answer to what job j asked: it is never foreign.
Answers(c, j, k, m) ==
    /\ wire[k].req = <<>> /\ Head(wire[k].rsp) = m /\ Tail(wire[k].rsp) = <<>> /\ m \in Response
    /\ m.id = j.id /\ m.op = IF mgr[c].pc = "helo" THEN "helo" ELSE j.kind
    /\ m.op = "helo" <=> mgr[c].pc = "helo"

\* The one response on a proxy's connection answers the job its manager is running.
LEMMA ReplyIsOwn ==
    ASSUME NEW c \in Clients, IInv, mgr[c].pc # "idle", NEW j, j = mgr[c].job, NEW r, r = j.r,
           NEW k, k = proxy[c][r].conn, wire[k].rsp # <<>>, NEW m, m = wire[k].rsp[1]
    PROVE  Answers(c, j, k, m)
  <1>1. /\ Carries(c, k) /\ wire[k] \in Connection /\ j \in Job
    BY Running, Zenon
  <1>2. /\ wire[k].req = <<>> /\ Len(wire[k].rsp) = 1
        /\ wire[k].rsp[1].op = Asked(c).op /\ wire[k].rsp[1].id = Asked(c).id
    BY <1>1, Zenon DEF Carries
  <1>3. Asked(c).op = (IF mgr[c].pc = "helo" THEN "helo" ELSE j.kind) /\ Asked(c).id = j.id
    BY Zenon DEF Asked
  <1>4. \A q \in Seq(Response) : Len(q) = 1 => Head(q) = q[1] /\ Tail(q) = <<>> /\ q[1] \in Response
    BY ShortSeqs, Zenon
  <1>5. Head(wire[k].rsp) = wire[k].rsp[1] /\ Tail(wire[k].rsp) = <<>> /\ wire[k].rsp[1] \in Response
    BY <1>1, <1>2, <1>4, Zenon DEF Connection
  <1>6. j.kind # "helo"
    BY <1>1, Zenon DEF Job, Kinds
  <1> QED BY <1>2, <1>3, <1>5, <1>6, Zenon DEF Answers

\* The server's side and the proxy's after the answer m: what bound the connection binds the proxy.
Settles(c, j, r, k, m) ==
    /\ m.op = "login" /\ m.term # 0 => Opened(m.term) /\ Agreed(k, m.term)
    /\ m.op = "helo" /\ m.status = "ok" => Opened(j.term) /\ Agreed(k, j.term)
    /\ ~(m.op = "login" /\ m.term # 0) /\ ~(m.op = "helo" /\ m.status = "ok") /\ proxy[c][r].bound =>
         Opened(proxy[c][r].bterm) /\ Agreed(k, proxy[c][r].bterm)

\* The reply of a login or a HELO tells the client exactly what the server's connection is bound to.
LEMMA BoundByReply ==
    ASSUME NEW c \in Clients, NEW j, j = mgr[c].job, NEW r \in Replicas, NEW k, k = proxy[c][r].conn, k # 0,
           BoundAlike(c, r), wire[k].rsp # <<>>, NEW m, m = wire[k].rsp[1]
    PROVE  Settles(c, j, r, k, m)
  <1>1. Binding(k) <=> (m.op = "login" /\ m.term # 0) \/ (m.op = "helo" /\ m.status = "ok")
    BY Zenon DEF Binding
  <1>2. CASE Binding(k)
    <2>1. wire[k].bound /\ Opened(wire[k].term) /\ wire[k].term = IF m.op = "login" THEN m.term ELSE j.term
      BY <1>2, Zenon DEF BoundAlike
    <2> QED BY <1>1, <1>2, <2>1, Zenon DEF Agreed, Settles
  <1>3. CASE ~Binding(k)
    BY <1>1, <1>3, Zenon DEF BoundAlike, Settles
  <1> QED BY <1>2, <1>3, Zenon

\* A proxy binds at term t.
Rebound(c, r, t) ==
    /\ proxy' \in [Clients -> [Replicas -> Proxy]]
    /\ proxy'[c][r].conn = proxy[c][r].conn /\ proxy'[c][r].bound = TRUE /\ proxy'[c][r].bterm = t
    /\ \A x \in Clients, s \in Replicas : ~(x = c /\ s = r) => proxy'[x][s] = proxy[x][s]

\* bind changes the binding of one proxy and keeps its connection.
LEMMA BindSets ==
    ASSUME proxy \in [Clients -> [Replicas -> Proxy]], NEW c \in Clients, NEW r \in Replicas, NEW t \in Nat, bind(c, r, t)
    PROVE  Rebound(c, r, t)
  <1>1. PICK v : v = [proxy[c][r] EXCEPT !.bound = TRUE, !.bterm = t]
    BY Zenon
  <1>2. proxy[c][r] \in Proxy
    BY Zenon
  <1>3. v = [conn |-> proxy[c][r].conn, bound |-> TRUE, bterm |-> t]
    BY <1>1, <1>2, Zenon DEF Proxy
  <1>4. v \in Proxy /\ v.conn = proxy[c][r].conn /\ v.bound = TRUE /\ v.bterm = t
    <2>1. proxy[c][r].conn \in Nat
      BY <1>2, Zenon DEF Proxy
    <2> QED BY <1>3, <2>1, Zenon DEF Proxy
  <1>5. proxy' = [proxy EXCEPT ![c][r] = v]
    BY <1>1, Zenon DEF bind
  <1>6. /\ proxy' \in [Clients -> [Replicas -> Proxy]] /\ proxy'[c][r] = v
        /\ \A x \in Clients, s \in Replicas : ~(x = c /\ s = r) => proxy'[x][s] = proxy[x][s]
    <2>1. Sets(c, r, v)
      BY <1>4, <1>5, OneProxy, Zenon
    <2> QED BY <2>1, Zenon DEF Sets
  <1> QED BY <1>4, <1>6, Zenon DEF Rebound

\* A step that moves on connection k only, on behalf of the job that waits on it if there is one, which goes on.
Exchanged(k) ==
    /\ k <= opened /\ wire'[k].to = wire[k].to /\ \A x \in Conns : x # k => wire'[x] = wire[x]
    /\ \A x \in Clients, s \in Replicas :
         /\ proxy'[x][s].conn = proxy[x][s].conn
         /\ proxy[x][s].conn # k => proxy'[x][s] = proxy[x][s]
         /\ proxy[x][s].conn = k => Waits(x, s) /\ Waits(x, s)' /\ Carries(x, k)' /\ BoundAlike(x, s)'
    /\ \A x \in Clients : mgr'[x] = mgr[x] \/ (mgr'[x].job = mgr[x].job /\ \E s \in Replicas : proxy[x][s].conn = k)
    /\ UNCHANGED <<term, opened, crossed>>
    /\ Len(wire'[k].req) <= 1 /\ Len(wire'[k].rsp) <= 1 /\ TravelsBound(k)'
    /\ (\A x \in Clients, s \in Replicas : proxy[x][s].conn # k) => wire'[k].rsp = <<>>

\* A step that touches one connection's messages only keeps the invariant.
LEMMA ExchangeStep ==
    ASSUME IInv, TypeOK', Queued', StampedAsAsked', Moves, Current', NEW k \in Conns, Exchanged(k)
    PROVE  IInv'
  <1>a. k <= opened /\ wire'[k].to = wire[k].to /\ UNCHANGED <<term, opened, crossed>>
    BY Zenon DEF Exchanged
  <1>b. \A x \in Conns : x # k => wire'[x] = wire[x]
    BY Zenon DEF Exchanged
  <1>c. \A x \in Clients, s \in Replicas :
          /\ proxy'[x][s].conn = proxy[x][s].conn
          /\ proxy[x][s].conn # k => proxy'[x][s] = proxy[x][s]
    BY Zenon DEF Exchanged
  <1>d. \A x \in Clients, s \in Replicas : proxy[x][s].conn = k =>
          Waits(x, s) /\ Waits(x, s)' /\ Carries(x, k)' /\ BoundAlike(x, s)'
    BY Zenon DEF Exchanged
  <1>e. \A x \in Clients : mgr'[x] = mgr[x] \/ (mgr'[x].job = mgr[x].job /\ \E s \in Replicas : proxy[x][s].conn = k)
    BY Zenon DEF Exchanged
  <1>f. \A x \in Clients, s \in Replicas : proxy[x][s].conn # 0 => proxy[x][s].conn \in Conns
    BY ConnOf, Zenon DEF IInv
  <1>1. ASSUME NEW x \in Clients, NEW s \in Replicas, proxy[x][s].conn # k
        PROVE  /\ proxy'[x][s].conn # 0 =>
                    IF Waits(x, s)' THEN Carries(x, proxy[x][s].conn)' ELSE Quiet(proxy[x][s].conn)'
               /\ BoundAlike(x, s)'
    <2>1. mgr'[x] = mgr[x] \/ (~Waits(x, s) /\ ~Waits(x, s)')
      <3> SUFFICES ASSUME mgr'[x] # mgr[x] PROVE ~Waits(x, s) /\ ~Waits(x, s)'
        BY Zenon
      <3>1. PICK u \in Replicas : proxy[x][u].conn = k /\ mgr'[x].job = mgr[x].job
        BY <1>e, Zenon
      <3>2. Waits(x, u) /\ u # s
        BY <1>1, <1>d, <3>1, Zenon
      <3> QED BY <3>1, <3>2, Zenon DEF Waits
    <2>2. proxy'[x][s] = proxy[x][s] /\ (proxy[x][s].conn # 0 => wire'[proxy[x][s].conn] = wire[proxy[x][s].conn])
      BY <1>1, <1>b, <1>c, <1>f, Zenon
    <2> QED BY <2>1, <2>2, Elsewhere, Zenon
  <1>2. Owned'
    <2>1. ASSUME NEW x \in Clients, NEW s \in Replicas
          PROVE  proxy'[x][s].conn <= opened' /\ (proxy'[x][s].conn # 0 => wire'[proxy'[x][s].conn].to = s)
      <3>1. proxy[x][s].conn <= opened /\ (proxy[x][s].conn # 0 => wire[proxy[x][s].conn].to = s)
        BY Zenon DEF IInv, Owned
      <3>2. \A n \in Conns : wire'[n].to = wire[n].to
        BY <1>a, <1>b, Zenon
      <3>3. proxy'[x][s].conn = proxy[x][s].conn /\ opened' = opened
        BY <1>a, <1>c, Zenon
      <3>4. proxy[x][s].conn # 0 => wire'[proxy[x][s].conn].to = s
        BY <1>f, <3>1, <3>2, Zenon
      <3> QED BY <3>1, <3>3, <3>4, Zenon
    <2>2. \A x, y \in Clients, s, u \in Replicas :
            proxy'[x][s].conn # 0 /\ proxy'[x][s].conn = proxy'[y][u].conn => x = y /\ s = u
      <3> TAKE x, y \in Clients, s, u \in Replicas
      <3> HAVE proxy'[x][s].conn # 0 /\ proxy'[x][s].conn = proxy'[y][u].conn
      <3>1. proxy[x][s].conn # 0 /\ proxy[y][u].conn = proxy[x][s].conn
        BY <1>c, Zenon
      <3>2. Owned
        BY Zenon DEF IInv
      <3>3. y = x /\ u = s
        BY <3>1, <3>2, OneOwner
      <3> QED BY <3>3, Zenon
    <2>3. ASSUME NEW x \in Clients, mgr'[x].pc # "idle"
          PROVE  proxy'[x][mgr'[x].job.r].conn # 0
      <3>1. CASE mgr'[x] = mgr[x]
        <4>1. mgr[x].job \in Job /\ proxy[x][mgr[x].job.r].conn # 0
          BY <2>3, <3>1, Zenon DEF IInv, TypeOK, Queued, InOrder, Manager, Owned
        <4>2. mgr[x].job.r \in Replicas
          BY <4>1, Zenon DEF Job
        <4> QED BY <1>c, <3>1, <4>1, <4>2, Zenon
      <3>2. ASSUME NEW s \in Replicas, proxy[x][s].conn = k PROVE proxy'[x][mgr'[x].job.r].conn # 0
        <4>1. mgr'[x].job.r = s
          BY <1>d, <3>2, Zenon DEF Waits
        <4>2. k # 0
          BY DEF Conns
        <4> QED BY <1>c, <3>2, <4>1, <4>2, Zenon
      <3> QED BY <1>e, <3>1, <3>2, Zenon
    <2> QED BY <2>1, <2>2, <2>3, Zenon DEF Owned
  <1>3. Outstanding'
    <2>1. ASSUME NEW x \in Clients, NEW s \in Replicas, proxy'[x][s].conn # 0
          PROVE  IF Waits(x, s)' THEN Carries(x, proxy[x][s].conn)' ELSE Quiet(proxy[x][s].conn)'
      <3>1. CASE proxy[x][s].conn = k
        <4>1. Waits(x, s)' /\ Carries(x, k)' /\ proxy'[x][s].conn = k
          BY <1>c, <1>d, <3>1, Zenon
        <4> QED BY <4>1, Zenon DEF Carries
      <3>2. CASE proxy[x][s].conn # k
        BY <1>1, <2>1, <3>2, Zenon
      <3> QED BY <3>1, <3>2, Zenon
    <2>2. ASSUME NEW n \in Conns
          PROVE  /\ Len(wire'[n].req) <= 1 /\ Len(wire'[n].rsp) <= 1
                 /\ (\A x \in Clients, s \in Replicas : proxy'[x][s].conn # n) => wire'[n].rsp = <<>>
                 /\ n > opened' => wire'[n].req = <<>>
      <3>1. CASE n = k
        <4>1. ~(n > opened')
          BY <1>a, <3>1 DEF IInv, TypeOK, Conns
        <4>2. /\ Len(wire'[k].req) <= 1 /\ Len(wire'[k].rsp) <= 1
              /\ (\A x \in Clients, s \in Replicas : proxy[x][s].conn # k) => wire'[k].rsp = <<>>
          BY Zenon DEF Exchanged
        <4> QED BY <1>c, <3>1, <4>1, <4>2, ZenonT(30)
      <3>2. CASE n # k
        <4>1. /\ Len(wire[n].req) <= 1 /\ Len(wire[n].rsp) <= 1
              /\ (\A x \in Clients, s \in Replicas : proxy[x][s].conn # n) => wire[n].rsp = <<>>
              /\ n > opened => wire[n].req = <<>>
          BY Zenon DEF IInv, Outstanding
        <4>2. wire'[n] = wire[n] /\ opened' = opened
          BY <1>a, <1>b, <3>2, Zenon
        <4>3. \A x \in Clients, s \in Replicas : proxy'[x][s].conn = proxy[x][s].conn
          BY <1>c, Zenon
        <4> QED BY <4>1, <4>2, <4>3, Zenon
      <3> QED BY <3>1, <3>2, Zenon
    <2> QED BY <2>1, <2>2, Zenon DEF Outstanding
  <1>4. Bound'
    <2>1. ASSUME NEW x \in Clients, NEW s \in Replicas PROVE BoundAlike(x, s)'
      BY <1>1, <1>d, Zenon
    <2>2. ASSUME NEW n \in Conns PROVE TravelsBound(n)'
      <3>1. CASE n = k
        BY <3>1, Zenon DEF Exchanged
      <3>2. CASE n # k
        BY <1>b, <3>2, TravelsOn, Zenon DEF IInv, Bound, Outstanding
      <3> QED BY <3>1, <3>2, Zenon
    <2>3. \A x \in Clients : term'[x] <= srv'.next
      <3>1. \A x \in Clients : term[x] \in Nat /\ term[x] <= srv.next
        BY Zenon DEF IInv, TypeOK, Bound
      <3>2. srv.next \in Nat /\ srv'.next \in Nat /\ srv'.next >= srv.next
        BY Zenon DEF IInv, TypeOK, Moves
      <3> QED BY <1>a, <3>1, <3>2
    <2> QED BY <2>1, <2>2, <2>3, Zenon DEF Bound
  <1> QED BY <1>2, <1>3, <1>4, <1>a, Zenon DEF IInv, OwnReply

\* A wait ends with the job's own answer, and the job returns or, after its HELO, sends the request itself.
LEMMA RecvStep ==
    ASSUME NEW c \in Clients
    PROVE  IInv /\ recv(c) => IInv'
  <1> SUFFICES ASSUME IInv, recv(c) PROVE IInv'
    BY Zenon
  <1>a. PICK j, r, k, m : j = mgr[c].job /\ r = j.r /\ k = proxy[c][r].conn /\ m = wire[k].rsp[1]
    BY Zenon
  <1>b. mgr[c].pc \in {"helo", "call"} /\ mgr[c].pc # "idle" /\ wire[k].rsp # <<>>
    <2>1. mgr[c].pc \in {"helo", "call"} /\ wire[k].rsp # <<>>
      BY <1>a, Zenon DEF recv
    <2> QED BY <2>1, Zenon
  <1>c. /\ j \in Job /\ r \in Replicas /\ k \in Conns /\ k # 0 /\ Issued(j) /\ k <= opened /\ wire[k] \in Connection
        /\ proxy[c][r] \in Proxy /\ BoundAlike(c, r)
    BY <1>a, <1>b, Running, Zenon
  <1>d. /\ wire[k].req = <<>> /\ Head(wire[k].rsp) = m /\ Tail(wire[k].rsp) = <<>> /\ m \in Response
        /\ m.id = j.id /\ m.op = (IF mgr[c].pc = "helo" THEN "helo" ELSE j.kind) /\ (m.op = "helo" <=> mgr[c].pc = "helo")
    <2>1. Answers(c, j, k, m)
      BY <1>a, <1>b, ReplyIsOwn, Zenon
    <2> QED BY <2>1, Zenon DEF Answers
  <1>e. /\ m.op = "login" /\ m.term # 0 => Opened(m.term) /\ Agreed(k, m.term)
        /\ m.op = "helo" /\ m.status = "ok" => Opened(j.term) /\ Agreed(k, j.term)
        /\ ~(m.op = "login" /\ m.term # 0) /\ ~(m.op = "helo" /\ m.status = "ok") /\ proxy[c][r].bound =>
             Opened(proxy[c][r].bterm) /\ Agreed(k, proxy[c][r].bterm)
    <2>1. Settles(c, j, r, k, m)
      BY <1>a, <1>b, <1>c, BoundByReply, Zenon
    <2> QED BY <2>1, Zenon DEF Settles
  <1>f. /\ wire \in [Conns -> Connection] /\ proxy \in [Clients -> [Replicas -> Proxy]]
        /\ mgr \in [Clients -> Manager] /\ mgr[c] \in Manager /\ term \in [Clients -> Nat]
    BY Zenon DEF IInv, TypeOK
  <1>g. UNCHANGED <<srv, ops, opened, journal, faults>>
    BY Zenon DEF recv
  <1>1. CASE ~(m.op = "helo" /\ m.status = "ok")
    <2>1. /\ wire' = [wire EXCEPT ![k].rsp = Tail(@), ![k].req = @]
          /\ Return(c, j, m.id)
          /\ CASE m.op = "login"  -> login(c, j, m)
               [] m.op = "logout" -> logout(c, m)
               [] OTHER -> UNCHANGED <<term, proxy>>
      BY <1>1, <1>a, <1>d, Zenon DEF recv
    <2>2. /\ wire'[k] = [to |-> wire[k].to, req |-> wire[k].req, rsp |-> <<>>, term |-> wire[k].term, bound |-> wire[k].bound]
          /\ \A x \in Conns : x # k => wire'[x] = wire[x]
      BY <1>c, <1>d, <1>f, <2>1, Zenon DEF Connection
    <2>3. wire' \in [Conns -> Connection]
      <3>1. wire' = [x \in Conns |-> wire'[x]]
        BY <1>f, <2>1, Zenon
      <3> QED BY <1>c, <1>f, <2>2, <3>1, EmptiedWire, OneWire, Zenon
    <2>4. PICK b : b = proxy'[c][r].bterm
      BY Zenon
    <2>5. /\ proxy' \in [Clients -> [Replicas -> Proxy]] /\ term' \in [Clients -> Nat]
          /\ proxy'[c][r].conn = k /\ (proxy'[c][r].bound => Opened(b) /\ Agreed(k, b))
          /\ \A x \in Clients, s \in Replicas : ~(x = c /\ s = r) => proxy'[x][s] = proxy[x][s]
          /\ \A x \in Clients : term'[x] <= srv.next
      <3>1. CASE m.op = "login" /\ m.term # 0
        <4>1. bind(c, r, m.term) /\ term' = [term EXCEPT ![c] = m.term] /\ m.term \in Nat
          BY <1>a, <1>d, <2>1, <3>1, Zenon DEF login, Response
        <4>2. /\ proxy' \in [Clients -> [Replicas -> Proxy]] /\ proxy'[c][r].conn = k /\ b = m.term
              /\ \A x \in Clients, s \in Replicas : ~(x = c /\ s = r) => proxy'[x][s] = proxy[x][s]
          <5>1. Rebound(c, r, m.term)
            BY <1>c, <1>f, <4>1, BindSets, Zenon
          <5> QED BY <1>a, <2>4, <5>1, Zenon DEF Rebound
        <4>3. term' \in [Clients -> Nat] /\ \A x \in Clients : term'[x] = m.term \/ term'[x] = term[x]
          BY <1>f, <4>1, Zenon
        <4>4. m.term <= srv.next /\ \A x \in Clients : term[x] <= srv.next
          BY <1>e, <3>1, Zenon DEF Opened, IInv, Bound
        <4>5. \A x \in Clients : term'[x] <= srv.next
          BY <4>3, <4>4, Zenon
        <4>6. Opened(b) /\ Agreed(k, b)
          BY <1>e, <3>1, <4>2, Zenon
        <4> QED BY <4>2, <4>3, <4>5, <4>6, Zenon
      <3>2. CASE ~(m.op = "login" /\ m.term # 0)
        <4>1. UNCHANGED proxy /\ (UNCHANGED term \/ logout(c, m))
          BY <2>1, <3>2, Zenon DEF login, logout
        <4>2. term' \in [Clients -> Nat] /\ \A x \in Clients : term'[x] = 0 \/ term'[x] = term[x]
          <5>1. CASE UNCHANGED term
            BY <1>f, <5>1, Zenon
          <5>2. CASE logout(c, m)
            BY <1>f, <5>2, Zenon DEF logout
          <5> QED BY <4>1, <5>1, <5>2, Zenon
        <4>3. 0 <= srv.next /\ \A x \in Clients : term[x] <= srv.next
          BY DEF IInv, TypeOK, Bound
        <4>4. \A x \in Clients : term'[x] <= srv.next
          BY <4>2, <4>3, Zenon
        <4>5. b = proxy[c][r].bterm /\ proxy'[c][r].bound = proxy[c][r].bound /\ proxy'[c][r].conn = k
          BY <1>a, <2>4, <4>1, Zenon
        <4>6. proxy'[c][r].bound => Opened(b) /\ Agreed(k, b)
          BY <1>1, <1>e, <3>2, <4>5, Zenon
        <4> QED BY <1>f, <4>1, <4>2, <4>4, <4>5, <4>6, Zenon
      <3> QED BY <3>1, <3>2, Zenon
    <2>6. /\ mgr'[c] = [jobs |-> mgr[c].jobs, job |-> Idle, pc |-> "idle", stop |-> mgr[c].stop, drained |-> mgr[c].drained]
          /\ \A x \in Clients : x # c => mgr'[x] = mgr[x]
          /\ mgr' \in [Clients -> Manager] /\ UNCHANGED crossed
      <3>1. m.id \in {0, j.id}
        BY <1>d, Zenon
      <3> QED BY <1>b, <2>1, <3>1, ReturnsIdle, Zenon
    <2>7. TypeOK'
      BY <1>g, <2>3, <2>5, <2>6, Zenon DEF IInv, TypeOK
    <2>8. Returned(c, r, k, b)
      BY <1>a, <1>b, <1>d, <1>g, <2>2, <2>4, <2>5, <2>6, Zenon DEF Returned
    <2> QED BY <1>c, <2>7, <2>8, ReturnStep, Zenon
  <1>2. CASE m.op = "helo" /\ m.status = "ok"
    <2>1. /\ wire' = [wire EXCEPT ![k].rsp = Tail(@), ![k].req = Append(@, [op |-> j.kind, id |-> j.id, term |-> j.term])]
          /\ mgr' = [mgr EXCEPT ![c].pc = "call"] /\ bind(c, r, j.term) /\ UNCHANGED <<term, crossed>>
      BY <1>2, <1>a, <1>d, Zenon DEF recv
    <2> DEFINE q == [op |-> j.kind, id |-> j.id, term |-> j.term]
    <2>2. q \in Request /\ q.op = j.kind /\ q.term = j.term /\ j.kind \in Ops /\ j.term \in Nat
      BY <1>c, Zenon DEF Job, Request, Ops
    <2> HIDE DEF q
    <2>3. /\ wire'[k] = [to |-> wire[k].to, req |-> <<q>>, rsp |-> <<>>, term |-> wire[k].term, bound |-> wire[k].bound]
          /\ \A x \in Conns : x # k => wire'[x] = wire[x]
      <3>1. wire' = [wire EXCEPT ![k].rsp = Tail(@), ![k].req = Append(@, q)]
        BY <2>1, Zenon DEF q
      <3>2. wire'[k] = [to |-> wire[k].to, req |-> Append(wire[k].req, q), rsp |-> Tail(wire[k].rsp), term |-> wire[k].term, bound |-> wire[k].bound]
        BY <1>c, <1>f, <3>1, Zenon DEF Connection
      <3>3. Append(<<>>, q) = <<q>>
        BY <2>2, ShortSeqs, Zenon
      <3>4. \A x \in Conns : x # k => wire'[x] = wire[x]
        BY <1>f, <3>1, Zenon
      <3> QED BY <1>d, <3>2, <3>3, <3>4, Zenon
    <2>4. /\ wire'[k].to = wire[k].to /\ wire'[k].req = <<q>> /\ wire'[k].rsp = <<>>
          /\ wire'[k].term = wire[k].term /\ wire'[k].bound = wire[k].bound
      BY <2>3
    <2>5. wire' \in [Conns -> Connection]
      <3>1. wire[k].to \in Replicas /\ wire[k].term \in Nat /\ wire[k].bound \in BOOLEAN
        BY <1>c, Zenon DEF Connection
      <3>2. <<q>> \in Seq(Request) /\ <<>> \in Seq(Response)
        BY <2>2, ShortSeqs, Zenon
      <3>3. wire'[k] \in Connection
        <4>1. PICK n : n = [to |-> wire[k].to, req |-> <<q>>, rsp |-> <<>>, term |-> wire[k].term, bound |-> wire[k].bound]
          BY Zenon
        <4>2. n \in Connection
          BY <3>1, <3>2, <4>1, Zenon DEF Connection
        <4> QED BY <2>3, <4>1, <4>2, Zenon
      <3>4. wire' = [x \in Conns |-> wire'[x]]
        BY <1>f, <2>1, Zenon
      <3> QED BY <1>c, <1>f, <2>3, <3>3, <3>4, OneWire, Zenon
    <2>6. /\ proxy' \in [Clients -> [Replicas -> Proxy]]
          /\ proxy'[c][r].conn = k /\ proxy'[c][r].bound = TRUE /\ proxy'[c][r].bterm = j.term
          /\ \A x \in Clients, s \in Replicas : ~(x = c /\ s = r) => proxy'[x][s] = proxy[x][s]
      <3>1. proxy \in [Clients -> [Replicas -> Proxy]] /\ r \in Replicas /\ j.term \in Nat /\ bind(c, r, j.term)
        BY <1>c, <1>f, <2>1, <2>2, Zenon
      <3>2. Rebound(c, r, j.term)
        BY <3>1, BindSets, Zenon
      <3> QED BY <1>a, <3>2, Zenon DEF Rebound
    <2>7. /\ mgr'[c] = [jobs |-> mgr[c].jobs, job |-> mgr[c].job, pc |-> "call", stop |-> mgr[c].stop, drained |-> mgr[c].drained]
          /\ \A x \in Clients : x # c => mgr'[x] = mgr[x]
          /\ mgr' = [x \in Clients |-> mgr'[x]]
      BY <1>f, <2>1, Zenon DEF Manager
    <2>a. mgr'[c].pc = "call" /\ mgr'[c].job = mgr[c].job
      BY <2>7
    <2>8. TypeOK'
      <3>1. mgr'[c] \in Manager
        BY <1>f, <2>7 DEF Manager
      <3>2. \A x \in Clients : mgr'[x] \in Manager
        BY <1>f, <2>7, <3>1, Zenon
      <3>3. mgr' \in [Clients -> Manager]
        BY <2>7, <3>2, Zenon
      <3> QED BY <1>g, <2>1, <2>5, <2>6, <3>3, Zenon DEF IInv, TypeOK
    <2>9. srv.next \in Nat /\ srv.term \in Nat /\ opened \in Nat /\ UNCHANGED srv
      BY <1>g, Zenon DEF IInv, TypeOK
    <2>10. Queued'
      <3>1. InOrder(mgr[c])
        BY Zenon DEF IInv, Queued
      <3>2. mgr[c].job = j /\ j # Idle /\ mgr[c].pc = "helo"
        BY <1>2, <1>a, <1>b, <1>d, <3>1, Zenon DEF InOrder
      <3>3. InOrder(mgr[c])'
        BY <1>c, <2>7, <2>9, <3>1, <3>2 DEF InOrder, Issued
      <3>4. \A x \in Clients : x # c => InOrder(mgr[x])'
        BY <2>7, <2>9, StaysInOrder DEF IInv
      <3> QED BY <3>3, <3>4, Zenon DEF Queued
    <2>11. Moves /\ Current'
      BY <2>9 DEF Moves, IInv, Bound, Current
    <2>12. Opened(j.term)' /\ Agreed(k, j.term)'
      BY <1>2, <1>e, <2>4, <2>9, Zenon DEF Opened, Agreed
    <2>13. Exchanged(k)
      <3>1. \A x \in Clients, s \in Replicas : proxy[x][s].conn = k => x = c /\ s = r
        <4>1. Owned /\ proxy[c][r].conn = k /\ k # 0
          BY <1>a, <1>c, Zenon DEF IInv
        <4> QED BY <1>c, <4>1, OneOwner
      <3>2. Waits(c, r) /\ Waits(c, r)'
        <4>1. "call" # "idle"
          BY Zenon
        <4> QED BY <1>a, <1>b, <2>a, <4>1, Zenon DEF Waits
      <3>3. Carries(c, k)'
        <4>1. mgr'[c].pc = "call" /\ mgr'[c].job = j
          BY <1>a, <2>a, Zenon
        <4>2. Asked(c)' = q
          BY <4>1, Zenon DEF Asked, q
        <4> QED BY <2>4, <4>2, Zenon DEF Carries
      <3>4. BoundAlike(c, r)'
        <4>1. ~Binding(k)'
          BY <2>4, Zenon DEF Binding
        <4> QED BY <1>c, <2>6, <2>12, <4>1, Zenon DEF BoundAlike, Binding, Opened, Agreed
      <3>5. TravelsBound(k)'
        <4>1. <<q>>[1] = q
          BY <2>2, ShortSeqs, Zenon
        <4> QED BY <2>2, <2>4, <2>12, <4>1, Zenon DEF TravelsBound, Opened, Agreed
      <3>6. Len(wire'[k].req) <= 1 /\ Len(wire'[k].rsp) <= 1
        BY <2>2, <2>4, ShortSeqs
      <3>7. \A x \in Clients, s \in Replicas : proxy'[x][s].conn = proxy[x][s].conn /\ (proxy[x][s].conn # k => proxy'[x][s] = proxy[x][s])
        BY <1>a, <2>6, Zenon
      <3>8. \A x \in Clients : mgr'[x] = mgr[x] \/ (mgr'[x].job = mgr[x].job /\ \E s \in Replicas : proxy[x][s].conn = k)
        <4>1. mgr'[c].job = mgr[c].job /\ proxy[c][r].conn = k
          BY <1>a, <2>a, Zenon
        <4> QED BY <1>c, <2>7, <4>1, Zenon
      <3>9. \A x \in Clients, s \in Replicas : proxy[x][s].conn = k => Waits(x, s) /\ Waits(x, s)' /\ Carries(x, k)' /\ BoundAlike(x, s)'
        BY <3>1, <3>2, <3>3, <3>4, Zenon
      <3> QED BY <1>c, <1>g, <2>1, <2>3, <2>4, <3>5, <3>6, <3>7, <3>8, <3>9, Zenon DEF Exchanged
    <2>14. StampedAsAsked'
      BY <1>g, Zenon DEF IInv, StampedAsAsked
    <2> QED BY <1>c, <2>8, <2>10, <2>11, <2>13, <2>14, ExchangeStep, Zenon
  <1> QED BY <1>1, <1>2, Zenon

\* A request that is there is the only one.
LEMMA OnlyOne ==
    ASSUME NEW S, NEW s \in Seq(S), s # <<>>, Len(s) <= 1
    PROVE  Len(s) = 1
  <1>1. Len(s) \in Nat
    OBVIOUS
  <1>2. Len(s) # 0
    BY ShortSeqs, Zenon
  <1> QED BY <1>1, <1>2

\* The server takes the one request of connection k and answers it; whoever sent it gave up or still waits.
Replied(k, q, status, t, bnd, ct) ==
    /\ q \in Request /\ wire[k].req = <<q>> /\ wire[k].rsp = <<>> /\ wire'[k].req = <<>> /\ wire'[k].to = wire[k].to
    /\ wire'[k].term = ct /\ wire'[k].bound = bnd /\ \A x \in Conns : x # k => wire'[x] = wire[x]
    /\ IF \E c \in Clients, r \in Replicas : proxy[c][r].conn = k
       THEN wire'[k].rsp = <<[op |-> q.op, id |-> q.id, status |-> status, term |-> t]>>
       ELSE wire'[k].rsp = <<>>
    /\ UNCHANGED <<mgr, proxy, term, crossed, ops, opened>>

\* What serving one request (serve and its response) does to the wire and to the server.
LEMMA Serves ==
    ASSUME IInv, NEW k \in Conns, wire[k].req # <<>>, NEW status \in Statuses, NEW t \in Nat, NEW bnd \in BOOLEAN, NEW ct \in Nat,
           Reply(k, status, t, bnd, ct), UNCHANGED <<clientVars, ops, opened>>
    PROVE  Replied(k, wire[k].req[1], status, t, bnd, ct) /\ wire' \in [Conns -> Connection] /\ Head(wire[k].req) = wire[k].req[1]
  <1>1. PICK q : q = wire[k].req[1]
    BY Zenon
  <1>2. wire \in [Conns -> Connection] /\ wire[k] \in Connection
    BY Zenon DEF IInv, TypeOK
  <1>3. /\ wire[k].to \in Replicas /\ wire[k].req \in Seq(Request) /\ wire[k].rsp \in Seq(Response)
        /\ Len(wire[k].req) <= 1
    BY <1>2, Zenon DEF Connection, IInv, Outstanding
  <1>4. q \in Request /\ wire[k].req = <<q>> /\ Head(wire[k].req) = q /\ Tail(wire[k].req) = <<>>
    <2>1. Len(wire[k].req) = 1
      BY <1>3, OnlyOne, Zenon
    <2> QED BY <1>1, <1>3, <2>1, ShortSeqs, ZenonT(30)
  <1>5. PICK m : m = [op |-> q.op, id |-> q.id, status |-> status, term |-> t]
    BY Zenon
  <1>6. m \in Response /\ Append(<<>>, m) = <<m>> /\ <<m>> \in Seq(Response) /\ <<>> \in Seq(Response) /\ <<>> \in Seq(Request)
    <2>1. q.op \in Ops /\ q.id \in Nat
      BY <1>4, Zenon DEF Request
    <2>2. m \in Response
      BY <1>5, <2>1, Zenon DEF Response
    <2> QED BY <2>2, ShortSeqs, Zenon
  <1> DEFINE read == \E c \in Clients : proxy[c][wire[k].to].conn = k
  <1>7. read <=> \E c \in Clients, r \in Replicas : proxy[c][r].conn = k
    <2>1. k # 0
      BY DEF Conns
    <2>2. ASSUME NEW c \in Clients, NEW r \in Replicas, proxy[c][r].conn = k PROVE r = wire[k].to
      <3>1. proxy[c][r].conn # 0 => wire[proxy[c][r].conn].to = r
        BY Zenon DEF IInv, Owned
      <3> QED BY <2>1, <2>2, <3>1, Zenon
    <2> QED BY <1>3, <2>2, Zenon
  <1>8. wire[k].rsp = <<>>
    <2>1. ASSUME NEW c \in Clients, NEW r \in Replicas, proxy[c][r].conn = k PROVE wire[k].rsp = <<>>
      <3>1. k # 0
        BY DEF Conns
      <3>2. Carries(c, k) \/ Quiet(k)
        BY <2>1, <3>1, Zenon DEF IInv, Outstanding
      <3> QED BY <3>2, Zenon DEF Carries, Quiet
    <2> QED BY <2>1, Zenon DEF IInv, Outstanding
  <1> HIDE DEF read
  <1>9. wire' = [wire EXCEPT ![k].req = Tail(@), ![k].term = ct, ![k].bound = bnd, ![k].rsp = IF ~read THEN @ ELSE Append(@, m)]
    BY <1>4, <1>5, Zenon DEF Reply, read
  <1>10. /\ wire'[k] = [to |-> wire[k].to, req |-> <<>>, rsp |-> IF ~read THEN <<>> ELSE <<m>>, term |-> ct, bound |-> bnd]
         /\ \A x \in Conns : x # k => wire'[x] = wire[x]
    <2>1. wire'[k] = [to |-> wire[k].to, req |-> Tail(wire[k].req), rsp |-> IF ~read THEN wire[k].rsp ELSE Append(wire[k].rsp, m),
                      term |-> ct, bound |-> bnd]
      BY <1>2, <1>9, Zenon DEF Connection
    <2>2. \A x \in Conns : x # k => wire'[x] = wire[x]
      BY <1>2, <1>9, Zenon
    <2> QED BY <1>4, <1>6, <1>8, <2>1, <2>2, Zenon
  <1>11. /\ wire'[k].to = wire[k].to /\ wire'[k].req = <<>> /\ wire'[k].term = ct /\ wire'[k].bound = bnd
         /\ wire'[k].rsp = IF ~read THEN <<>> ELSE <<m>>
    BY <1>10
  <1>12. wire' \in [Conns -> Connection]
    <2>1. PICK n : n = [to |-> wire[k].to, req |-> <<>>, rsp |-> IF ~read THEN <<>> ELSE <<m>>, term |-> ct, bound |-> bnd]
      BY Zenon
    <2>2. PICK p : p = IF ~read THEN <<>> ELSE <<m>>
      BY Zenon
    <2>3. p \in Seq(Response)
      BY <1>6, <2>2, Zenon
    <2>4. n \in Connection
      BY <1>3, <1>6, <2>1, <2>2, <2>3, Zenon DEF Connection
    <2>5. wire' = [x \in Conns |-> wire'[x]]
      BY <1>2, <1>9, Zenon
    <2> QED BY <1>2, <1>10, <2>1, <2>4, <2>5, OneWire, Zenon
  <1>13. Replied(k, q, status, t, bnd, ct)
    BY <1>4, <1>5, <1>7, <1>8, <1>10, <1>11, Zenon DEF Replied, clientVars
  <1> QED BY <1>1, <1>4, <1>12, <1>13, Zenon

\* What the answer to q makes of the binding: a LOGIN that is granted and a HELO that is accepted bind, at the
\* term they tell; any other leaves the binding as it was, or lets go of it when the session is over.
Rebinds(k, q, status, t, bnd, ct) ==
    IF (q.op = "login" /\ t # 0) \/ (q.op = "helo" /\ status = "ok")
    THEN bnd /\ Opened(ct)' /\ ct = IF q.op = "login" THEN t ELSE q.term
    ELSE (bnd = wire[k].bound /\ ct = wire[k].term) \/ (~bnd /\ srv'.term = 0)

\* A served request keeps the invariant when the server's binding changes as a login, a HELO or a logout changes it.
LEMMA ReplyStep ==
    ASSUME IInv, TypeOK', StampedAsAsked', Moves, Current', NEW k \in Conns, NEW q, NEW status, NEW t, NEW bnd, NEW ct,
           Replied(k, q, status, t, bnd, ct), Rebinds(k, q, status, t, bnd, ct)
    PROVE  IInv'
  <1>a. /\ q \in Request /\ wire[k].req = <<q>> /\ wire[k].rsp = <<>> /\ wire'[k].req = <<>> /\ wire'[k].to = wire[k].to
        /\ wire'[k].term = ct /\ wire'[k].bound = bnd /\ UNCHANGED <<mgr, proxy, term, crossed, opened>>
    BY Zenon DEF Replied
  <1>b. \A x \in Conns : x # k => wire'[x] = wire[x]
    BY Zenon DEF Replied
  <1>1. PICK m : m = [op |-> q.op, id |-> q.id, status |-> status, term |-> t]
    BY Zenon
  <1>2. m.op = q.op /\ m.id = q.id /\ m.status = status /\ m.term = t /\ Len(<<m>>) = 1 /\ <<m>>[1] = m /\ <<m>> # <<>>
    BY <1>1, Zenon
  <1>c. /\ (\E c \in Clients, r \in Replicas : proxy[c][r].conn = k) => wire'[k].rsp = <<m>>
        /\ (\A c \in Clients, r \in Replicas : proxy[c][r].conn # k) => wire'[k].rsp = <<>>
    BY <1>1, Zenon DEF Replied
  <1>d. /\ srv.next \in Nat /\ srv.term \in Nat /\ srv'.next \in Nat /\ srv'.next >= srv.next
        /\ opened \in Nat /\ k \in Nat /\ k # 0
    BY DEF IInv, TypeOK, Moves, Conns
  <1>3. Queued'
    <2>1. \A x \in Clients : InOrder(mgr[x])'
      BY <1>a, <1>d, StaysInOrder, Zenon DEF IInv
    <2> QED BY <2>1, Zenon DEF Queued
  <1>4. k <= opened
    <2>1. <<q>> # <<>>
      BY <1>a, ShortSeqs, Zenon
    <2>2. ~(k > opened)
      BY <1>a, <2>1, Zenon DEF IInv, Outstanding
    <2> QED BY <1>d, <2>2
  <1>5. ASSUME NEW c \in Clients, NEW r \in Replicas, proxy[c][r].conn = k
        PROVE  Waits(c, r) /\ Waits(c, r)' /\ Carries(c, k)' /\ BoundAlike(c, r)'
    <2>1. wire'[k].rsp = <<m>>
      BY <1>5, <1>c, Zenon
    <2>2. Waits(c, r) /\ q = Asked(c)
      <3>1. <<q>> # <<>> /\ <<q>>[1] = q
        BY <1>a, ShortSeqs, Zenon
      <3>2. IF Waits(c, r) THEN Carries(c, k) ELSE Quiet(k)
        BY <1>5, <1>d, Zenon DEF IInv, Outstanding
      <3>3. Waits(c, r) /\ Carries(c, k)
        BY <1>a, <3>1, <3>2, Zenon DEF Quiet
      <3>4. <<q>> = <<Asked(c)>>
        BY <1>a, <3>1, <3>3, Zenon DEF Carries
      <3> QED BY <3>3, <3>4, Zenon
    <2>3. Waits(c, r)' /\ Asked(c)' = Asked(c)
      BY <1>a, <2>2, Zenon DEF Waits, Asked
    <2>4. Carries(c, k)'
      BY <1>2, <1>a, <2>1, <2>2, <2>3, Zenon DEF Carries
    <2>5. BoundAlike(c, r) /\ ~Binding(k) /\ proxy[c][r] \in Proxy
      BY <1>a, Zenon DEF IInv, Bound, Binding, TypeOK
    <2>6. proxy[c][r].bound => Opened(proxy[c][r].bterm) /\ Agreed(k, proxy[c][r].bterm)
      BY <1>5, <1>d, <2>5, Zenon DEF BoundAlike
    <2>7. PICK b : b = proxy[c][r].bterm
      BY Zenon
    <2>8. b \in Nat
      BY <2>5, <2>7, Zenon DEF Proxy
    <2>9. proxy[c][r].bound => Opened(b)' /\ (b # srv.term => b # srv'.term) /\ b # 0
      <3>1. Opened(b) => b # 0 /\ Opened(b)' /\ (b # srv.term => b # srv'.term)
        BY <1>d, <2>8 DEF Opened, Moves
      <3> QED BY <2>6, <2>7, <3>1, Zenon
    <2>10. /\ proxy'[c][r].conn = k /\ proxy'[c][r].bound = proxy[c][r].bound /\ proxy'[c][r].bterm = b /\ mgr'[c].job = mgr[c].job
      BY <1>5, <1>a, <2>7, Zenon
    <2>11. BoundAlike(c, r)'
      <3>1. CASE (q.op = "login" /\ t # 0) \/ (q.op = "helo" /\ status = "ok")
        <4>1. bnd /\ Opened(ct)' /\ ct = IF q.op = "login" THEN t ELSE q.term
          BY <3>1, Zenon DEF Rebinds
        <4>2. q.term = mgr[c].job.term
          <5>1. Asked(c).term = mgr[c].job.term
            BY Zenon DEF Asked
          <5> QED BY <2>2, <5>1, Zenon
        <4>3. wire'[k].rsp[1] = m /\ Binding(k)'
          BY <1>2, <2>1, <3>1, Zenon DEF Binding
        <4>4. wire'[k].bound /\ Opened(wire[k].term)'
          BY <1>a, <4>1, Zenon DEF Opened
        <4>5. wire'[k].term = IF wire'[k].rsp[1].op = "login" THEN wire'[k].rsp[1].term ELSE mgr'[c].job.term
          BY <1>2, <1>a, <2>10, <4>1, <4>2, <4>3, Zenon
        <4>6. proxy'[c][r].bound => Opened(b)'
          BY <2>9, <2>10, Zenon
        <4> QED BY <1>d, <2>10, <4>3, <4>4, <4>5, <4>6, Zenon DEF BoundAlike, Binding, Opened
      <3>2. CASE ~((q.op = "login" /\ t # 0) \/ (q.op = "helo" /\ status = "ok"))
        <4>1. (bnd = wire[k].bound /\ ct = wire[k].term) \/ (~bnd /\ srv'.term = 0)
          BY <3>2, Zenon DEF Rebinds
        <4>2. ~Binding(k)'
          BY <1>2, <2>1, <3>2, Zenon DEF Binding
        <4>3. proxy[c][r].bound => Agreed(k, b)'
          <5>1. proxy[c][r].bound => Agreed(k, b)
            BY <2>6, <2>7, Zenon
          <5> QED BY <1>a, <2>9, <4>1, <5>1, Zenon DEF Agreed
        <4> QED BY <1>d, <2>9, <2>10, <4>2, <4>3, Zenon DEF BoundAlike, Binding, Opened, Agreed
      <3> QED BY <3>1, <3>2, Zenon
    <2> QED BY <2>2, <2>3, <2>4, <2>11, Zenon
  <1>6. Len(wire'[k].req) <= 1 /\ Len(wire'[k].rsp) <= 1
    <2>1. Len(<<>>) <= 1 /\ Len(<<m>>) <= 1
      BY <1>2
    <2> QED BY <1>a, <1>c, <2>1, Zenon
  <1>7. TravelsBound(k)'
    BY <1>a, Zenon DEF TravelsBound
  <1>8. Exchanged(k)
    BY <1>4, <1>5, <1>6, <1>7, <1>a, <1>b, <1>c, Zenon DEF Exchanged
  <1> QED BY <1>3, <1>8, ExchangeStep, Zenon

\* What a step of the server keeps when it is not a login or a logout that is granted.
LEMMA SameSession ==
    ASSUME IInv, UNCHANGED srv
    PROVE  Moves /\ Current' /\ srv' \in [active : BOOLEAN, term : Nat, next : Nat, rterm : [Replicas -> Nat]]
  BY DEF IInv, TypeOK, Bound, Moves, Current

\* A fault is counted.
LEMMA FaultyCounts ==
    ASSUME NEW b \in BOOLEAN, faults \in Nat, Faulty(b)
    PROVE  faults' \in Nat
  BY DEF Faulty

\* A request that is answered without a new binding, by a handler that leaves the session alone.
LEMMA PlainReply ==
    ASSUME IInv, NEW k \in Conns, NEW op, serve(k, op), NEW status \in Statuses,
           Reply(k, status, 0, wire[k].bound, wire[k].term), UNCHANGED srv, faults' \in Nat,
           ~(wire[k].req[1].op = "helo" /\ status = "ok"),
           journal' \subseteq [asked : Nat, stamp : Nat], StampedAsAsked'
    PROVE  IInv'
  <1>1. wire[k].term \in Nat /\ wire[k].bound \in BOOLEAN /\ wire[k].req # <<>> /\ UNCHANGED <<clientVars, ops, opened>>
    BY Zenon DEF IInv, TypeOK, Connection, serve
  <1>2. Replied(k, wire[k].req[1], status, 0, wire[k].bound, wire[k].term) /\ wire' \in [Conns -> Connection]
    <2>1. 0 \in Nat
      BY Zenon
    <2> QED BY <1>1, <2>1, Serves, Zenon
  <1>3. Moves /\ Current' /\ srv' \in [active : BOOLEAN, term : Nat, next : Nat, rterm : [Replicas -> Nat]]
    BY SameSession, Zenon
  <1>4. TypeOK'
    BY <1>1, <1>2, <1>3, Zenon DEF IInv, TypeOK, clientVars
  <1>5. Rebinds(k, wire[k].req[1], status, 0, wire[k].bound, wire[k].term)
    BY Zenon DEF Rebinds
  <1> QED BY <1>2, <1>3, <1>4, <1>5, ReplyStep, Zenon

\* The request connection k serves.
LEMMA Served ==
    ASSUME IInv, NEW k \in Conns, NEW op, serve(k, op)
    PROVE  /\ wire[k].req # <<>> /\ Head(wire[k].req) = wire[k].req[1] /\ wire[k].req[1] \in Request /\ wire[k].req[1].op = op
           /\ wire[k].term \in Nat /\ wire[k].bound \in BOOLEAN /\ faults \in Nat /\ UNCHANGED <<clientVars, ops, opened>>
  <1>1. /\ wire[k].req \in Seq(Request) /\ wire[k].term \in Nat /\ wire[k].bound \in BOOLEAN /\ faults \in Nat
        /\ Len(wire[k].req) <= 1
    BY Zenon DEF IInv, TypeOK, Connection, Outstanding
  <1>2. wire[k].req # <<>> /\ Head(wire[k].req).op = op /\ UNCHANGED <<clientVars, ops, opened>>
    BY Zenon DEF serve
  <1>3. Len(wire[k].req) = 1
    BY <1>1, <1>2, OnlyOne, Zenon
  <1>4. Head(wire[k].req) = wire[k].req[1] /\ wire[k].req[1] \in Request
    BY <1>1, <1>3, ShortSeqs, Zenon
  <1> QED BY <1>1, <1>2, <1>4, Zenon

\* on_login keeps the invariant: the connection is bound at the term just opened.
LEMMA LoginStep ==
    ASSUME NEW k \in Conns
    PROVE  IInv /\ on_login(k) => IInv'
  <1> SUFFICES ASSUME IInv, on_login(k) PROVE IInv'
    BY Zenon
  <1>1. serve(k, "login") /\ UNCHANGED journal
    BY Zenon DEF on_login
  <1>2. /\ wire[k].req # <<>> /\ wire[k].req[1].op = "login" /\ faults \in Nat /\ UNCHANGED <<clientVars, ops, opened>>
    BY <1>1, Served, Zenon
  <1>3. journal' \subseteq [asked : Nat, stamp : Nat] /\ StampedAsAsked'
    BY <1>1, Zenon DEF IInv, TypeOK, StampedAsAsked
  <1>4. ASSUME NEW status \in Statuses, NEW b \in BOOLEAN, Reply(k, status, 0, wire[k].bound, wire[k].term), UNCHANGED srv, Faulty(b)
        PROVE  IInv'
    <2>1. faults' \in Nat
      BY <1>2, <1>4, FaultyCounts, Zenon
    <2>2. "login" # "helo"
      BY Zenon
    <2>3. ~(wire[k].req[1].op = "helo" /\ status = "ok")
      BY <1>2, <2>2, Zenon
    <2> QED BY <1>1, <1>3, <1>4, <2>1, <2>3, PlainReply, Zenon
  <1>t. PICK t : t = srv.next + 1
    BY Zenon
  <1>5. ASSUME Reply(k, "ok", t, TRUE, t), NEW live \in SUBSET Replicas, Faulty(live # Replicas),
               srv' = [active |-> TRUE, term |-> t, next |-> t, rterm |-> [r \in Replicas |-> IF r \in live THEN t ELSE srv.rterm[r]]]
        PROVE  IInv'
    <2>1. srv.next \in Nat /\ srv.term \in Nat /\ srv.rterm \in [Replicas -> Nat]
      BY Zenon DEF IInv, TypeOK
    <2>2. t \in Nat /\ t > srv.next /\ t >= srv.next /\ t # 0 /\ t > 0 /\ t <= t /\ "ok" \in Statuses
      BY <1>t, <2>1 DEF Statuses
    <2>3. faults' \in Nat
      BY <1>2, <1>5, FaultyCounts, Zenon
    <2>4. srv' \in [active : BOOLEAN, term : Nat, next : Nat, rterm : [Replicas -> Nat]]
      <3>1. [r \in Replicas |-> IF r \in live THEN t ELSE srv.rterm[r]] \in [Replicas -> Nat]
        BY <2>1, <2>2, Zenon
      <3> QED BY <1>5, <2>2, <3>1, Zenon
    <2>5. srv'.term = t /\ srv'.next = t
      BY <1>5, Zenon
    <2>6. Moves /\ Current' /\ Opened(t)'
      BY <2>2, <2>5, Zenon DEF Moves, Current, Opened
    <2>7. Replied(k, wire[k].req[1], "ok", t, TRUE, t) /\ wire' \in [Conns -> Connection]
      <3>1. TRUE \in BOOLEAN
        BY Zenon
      <3> QED BY <1>2, <1>5, <2>2, <3>1, Serves, Zenon
    <2>8. TypeOK'
      BY <1>2, <1>3, <2>3, <2>4, <2>7, Zenon DEF IInv, TypeOK, clientVars
    <2>9. Rebinds(k, wire[k].req[1], "ok", t, TRUE, t)
      BY <1>2, <2>2, <2>6, Zenon DEF Rebinds
    <2> QED BY <1>3, <2>6, <2>7, <2>8, <2>9, ReplyStep, Zenon
  <1>6. \/ Reply(k, "down", 0, wire[k].bound, wire[k].term) /\ UNCHANGED srv /\ Faulty(TRUE)
        \/ Reply(k, "ok", 0, wire[k].bound, wire[k].term) /\ UNCHANGED srv /\ Faulty(FALSE)
        \/ /\ Reply(k, "ok", t, TRUE, t)
           /\ \E live \in SUBSET Replicas :
                /\ Faulty(live # Replicas)
                /\ srv' = [active |-> TRUE, term |-> t, next |-> t,
                           rterm |-> [r \in Replicas |-> IF r \in live THEN t ELSE srv.rterm[r]]]
    BY <1>t, Zenon DEF on_login
  <1>7. "down" \in Statuses /\ "ok" \in Statuses /\ TRUE \in BOOLEAN /\ FALSE \in BOOLEAN
    BY Zenon DEF Statuses
  <1> QED BY <1>4, <1>5, <1>6, <1>7, Zenon

\* on_helo keeps the invariant: the connection is bound at the session's term, or not at all.
LEMMA HeloStep ==
    ASSUME NEW k \in Conns
    PROVE  IInv /\ on_helo(k) => IInv'
  <1> SUFFICES ASSUME IInv, on_helo(k) PROVE IInv'
    BY Zenon
  <1>1. serve(k, "helo") /\ UNCHANGED <<srv, journal, faults>>
    BY Zenon DEF on_helo
  <1>2. /\ wire[k].req # <<>> /\ Head(wire[k].req) = wire[k].req[1] /\ wire[k].req[1].op = "helo" /\ faults \in Nat
        /\ UNCHANGED <<clientVars, ops, opened>>
    BY <1>1, Served, Zenon
  <1>3. journal' \subseteq [asked : Nat, stamp : Nat] /\ StampedAsAsked' /\ faults' \in Nat
    BY <1>1, <1>2, Zenon DEF IInv, TypeOK, StampedAsAsked
  <1>4. Moves /\ Current' /\ srv' \in [active : BOOLEAN, term : Nat, next : Nat, rterm : [Replicas -> Nat]]
    BY <1>1, SameSession, Zenon
  <1>5. CASE srv.active /\ wire[k].req[1].term = srv.term
    <2>1. Reply(k, "ok", 0, TRUE, srv.term)
      BY <1>2, <1>5, Zenon DEF on_helo
    <2>2. srv.term \in Nat /\ Opened(srv.term) /\ 0 \in Nat /\ TRUE \in BOOLEAN /\ "ok" \in Statuses
      BY <1>5 DEF IInv, TypeOK, Bound, Current, Opened, Statuses
    <2>3. Replied(k, wire[k].req[1], "ok", 0, TRUE, srv.term) /\ wire' \in [Conns -> Connection]
      BY <1>2, <2>1, <2>2, Serves, Zenon
    <2>4. TypeOK'
      BY <1>2, <1>3, <1>4, <2>3, Zenon DEF IInv, TypeOK, clientVars
    <2>5. PICK ct : ct = srv.term
      BY Zenon
    <2>6. Opened(ct)'
      BY <1>1, <2>2, <2>5, Zenon DEF Opened
    <2>7. "helo" # "login"
      BY Zenon
    <2>8. Rebinds(k, wire[k].req[1], "ok", 0, TRUE, ct)
      BY <1>2, <1>5, <2>5, <2>6, <2>7, Zenon DEF Rebinds
    <2> QED BY <1>3, <1>4, <2>3, <2>4, <2>5, <2>8, ReplyStep, Zenon
  <1>6. CASE ~(srv.active /\ wire[k].req[1].term = srv.term)
    <2>1. Reply(k, "stale", 0, wire[k].bound, wire[k].term)
      BY <1>2, <1>6, Zenon DEF on_helo
    <2>2. "stale" \in Statuses /\ "stale" # "ok"
      BY Zenon DEF Statuses
    <2> QED BY <1>1, <1>3, <2>1, <2>2, PlainReply, Zenon
  <1> QED BY <1>5, <1>6, Zenon

\* What an IO handler answers, whatever it makes of the journal.
LEMMA AnswerStep ==
    ASSUME IInv, NEW k \in Conns, serve(k, "io") \/ serve(k, "logout"), NEW st \in Statuses, Answer(k, st), UNCHANGED srv,
           journal' \subseteq [asked : Nat, stamp : Nat], StampedAsAsked'
    PROVE  IInv'
  <1>1. PICK op : serve(k, op) /\ op # "helo"
    <2>1. "io" # "helo" /\ "logout" # "helo"
      BY Zenon
    <2> QED BY <2>1, Zenon
  <1>2. wire[k].req[1].op = op /\ faults \in Nat
    BY <1>1, Served, Zenon
  <1>3. Reply(k, st, 0, wire[k].bound, wire[k].term) /\ faults' \in Nat
    <2>1. (st = "down") \in BOOLEAN
      BY Zenon
    <2>2. Reply(k, st, 0, wire[k].bound, wire[k].term) /\ Faulty(st = "down")
      BY Zenon DEF Answer
    <2> QED BY <1>2, <2>1, <2>2, FaultyCounts, Zenon
  <1> QED BY <1>1, <1>2, <1>3, PlainReply, Zenon

\* Whatever the gate of a request decides is a status of the protocol.
LEMMA GateAnswers == ASSUME NEW k PROVE Gate(k) \subseteq Statuses
  <1>1. {"stale"} \subseteq Statuses /\ {"down", "stale"} \subseteq Statuses /\ {"down", "ok"} \subseteq Statuses
    BY Zenon DEF Statuses
  <1> QED BY <1>1, Zenon DEF Gate

\* A write is taken on a connection that is bound: at the term the write was issued in.
LEMMA WriteStep ==
    ASSUME NEW k \in Conns
    PROVE  IInv /\ on_write(k) => IInv'
  <1> SUFFICES ASSUME IInv, on_write(k) PROVE IInv'
    BY Zenon
  <1>1. PICK st \in Gate(k) : Answer(k, st) /\ Journal(k, st, wire[k].term)
    BY Zenon DEF on_write
  <1>2. serve(k, "io") /\ UNCHANGED srv
    BY Zenon DEF on_write
  <1>3. /\ wire[k].req # <<>> /\ Head(wire[k].req) = wire[k].req[1] /\ wire[k].req[1] \in Request /\ wire[k].req[1].op = "io"
        /\ wire[k].term \in Nat
    BY <1>2, Served, Zenon
  <1>4. st = "ok" => wire[k].bound
    <2>1. "ok" \notin {"stale"}
      BY Zenon
    <2> QED BY <1>1, <2>1, Zenon DEF Gate
  <1>5. st = "ok" => wire[k].term = wire[k].req[1].term
    BY <1>3, <1>4, Zenon DEF IInv, Bound, TravelsBound, Agreed
  <1>6. PICK w : w = [asked |-> wire[k].req[1].term, stamp |-> wire[k].term]
    BY Zenon
  <1>7. w \in [asked : Nat, stamp : Nat] /\ (st = "ok" => w.stamp = w.asked)
    <2>1. wire[k].req[1].term \in Nat
      BY <1>3, Zenon DEF Request
    <2> QED BY <1>3, <1>5, <1>6, <2>1, Zenon
  <1>8. journal' = IF st = "ok" THEN journal \cup {w} ELSE journal
    BY <1>1, <1>3, <1>6, Zenon DEF Journal
  <1>9. journal' \subseteq [asked : Nat, stamp : Nat] /\ StampedAsAsked'
    <2>1. journal \subseteq [asked : Nat, stamp : Nat] /\ \A x \in journal : x.stamp = x.asked
      BY Zenon DEF IInv, TypeOK, StampedAsAsked
    <2> QED BY <1>7, <1>8, <2>1, Zenon DEF StampedAsAsked
  <1>10. st \in Statuses
    BY <1>1, GateAnswers, Zenon
  <1> QED BY <1>1, <1>2, <1>9, <1>10, AnswerStep, Zenon

\* The other IO handlers leave the session and the journal alone.
LEMMA IoSteps ==
    ASSUME NEW k \in Conns
    PROVE  IInv /\ (on_read(k) \/ on_keep_alive(k) \/ on_resolve(k)) => IInv'
  <1> SUFFICES ASSUME IInv, on_read(k) \/ on_keep_alive(k) \/ on_resolve(k) PROVE IInv'
    BY Zenon
  <1>1. serve(k, "io") /\ UNCHANGED <<srv, journal>>
    BY Zenon DEF on_read, on_keep_alive, on_resolve
  <1>2. PICK st \in Statuses : Answer(k, st)
    <2>1. CASE on_read(k) \/ on_keep_alive(k)
      BY <2>1, GateAnswers, Zenon DEF on_read, on_keep_alive
    <2>2. CASE on_resolve(k)
      <3>1. /\ {"stale"} \subseteq Statuses /\ {"down", "stale"} \subseteq Statuses /\ {"down", "ok"} \subseteq Statuses
            /\ {"down", "not_leader"} \subseteq Statuses
        BY Zenon DEF Statuses
      <3> QED BY <2>2, <3>1, Zenon DEF on_resolve
    <2> QED BY <2>1, <2>2, Zenon
  <1>3. journal' \subseteq [asked : Nat, stamp : Nat] /\ StampedAsAsked'
    BY <1>1, Zenon DEF IInv, TypeOK, StampedAsAsked
  <1> QED BY <1>1, <1>2, <1>3, AnswerStep, Zenon

\* on_logout keeps the invariant: it ends the session, and later frames of its term are stale.
LEMMA LogoutStep ==
    ASSUME NEW k \in Conns
    PROVE  IInv /\ on_logout(k) => IInv'
  <1> SUFFICES ASSUME IInv, on_logout(k) PROVE IInv'
    BY Zenon
  <1>1. serve(k, "logout") /\ UNCHANGED journal
    BY Zenon DEF on_logout
  <1>2. /\ wire[k].req # <<>> /\ wire[k].req[1].op = "logout" /\ faults \in Nat /\ UNCHANGED <<clientVars, ops, opened>>
        /\ wire[k].term \in Nat
    BY <1>1, Served, Zenon
  <1>3. journal' \subseteq [asked : Nat, stamp : Nat] /\ StampedAsAsked'
    BY <1>1, Zenon DEF IInv, TypeOK, StampedAsAsked
  <1>4. ASSUME NEW st \in Statuses, Answer(k, st), UNCHANGED srv PROVE IInv'
    BY <1>1, <1>3, <1>4, AnswerStep, Zenon
  <1>5. ASSUME Reply(k, "ok", 0, FALSE, wire[k].term), NEW live \in SUBSET Replicas, Faulty(live # Replicas),
               srv' = [srv EXCEPT !.active = FALSE, !.term = 0, !.rterm = [r \in Replicas |-> IF r \in live THEN 0 ELSE @[r]]]
        PROVE  IInv'
    <2>1. srv \in [active : BOOLEAN, term : Nat, next : Nat, rterm : [Replicas -> Nat]]
      BY Zenon DEF IInv, TypeOK
    <2>2. srv' = [active |-> FALSE, term |-> 0, next |-> srv.next, rterm |-> [r \in Replicas |-> IF r \in live THEN 0 ELSE srv.rterm[r]]]
      BY <1>5, <2>1, Zenon
    <2>3. srv' \in [active : BOOLEAN, term : Nat, next : Nat, rterm : [Replicas -> Nat]]
      <3>1. srv.rterm \in [Replicas -> Nat] /\ srv.next \in Nat /\ 0 \in Nat
        BY <2>1, Zenon
      <3>2. [r \in Replicas |-> IF r \in live THEN 0 ELSE srv.rterm[r]] \in [Replicas -> Nat]
        BY <3>1, Zenon
      <3> QED BY <2>2, <3>1, <3>2, Zenon
    <2>4. srv'.term = 0 /\ srv'.next = srv.next /\ srv'.active = FALSE
      BY <2>2, Zenon
    <2>5. Moves /\ Current'
      <3>1. srv.next \in Nat
        BY <2>1, Zenon
      <3> QED BY <2>4, <3>1 DEF Moves, Current
    <2>6. faults' \in Nat
      BY <1>2, <1>5, FaultyCounts, Zenon
    <2>7. Replied(k, wire[k].req[1], "ok", 0, FALSE, wire[k].term) /\ wire' \in [Conns -> Connection]
      <3>1. 0 \in Nat /\ FALSE \in BOOLEAN /\ "ok" \in Statuses
        BY Zenon DEF Statuses
      <3> QED BY <1>2, <1>5, <3>1, Serves, Zenon
    <2>8. TypeOK'
      BY <1>2, <1>3, <2>3, <2>6, <2>7, Zenon DEF IInv, TypeOK, clientVars
    <2>9. Rebinds(k, wire[k].req[1], "ok", 0, FALSE, wire[k].term)
      <3>1. "logout" # "helo"
        BY Zenon
      <3> QED BY <1>2, <2>4, <3>1, Zenon DEF Rebinds
    <2> QED BY <1>3, <2>5, <2>7, <2>8, <2>9, ReplyStep, Zenon
  <1>6. \/ UNCHANGED srv /\ \E st \in {"stale"} \cup {"down", "not_leader"} \cup {"down"} : Answer(k, st)
        \/ /\ Reply(k, "ok", 0, FALSE, wire[k].term)
           /\ \E live \in SUBSET Replicas :
                /\ Faulty(live # Replicas)
                /\ srv' = [srv EXCEPT !.active = FALSE, !.term = 0, !.rterm = [r \in Replicas |-> IF r \in live THEN 0 ELSE @[r]]]
    BY Zenon DEF on_logout
  <1>7. {"stale"} \cup {"down", "not_leader"} \cup {"down"} \subseteq Statuses
    BY Zenon DEF Statuses
  <1> QED BY <1>4, <1>5, <1>6, <1>7, Zenon

\* Before any connection is opened the invariant holds.
LEMMA InitIInv == Init => IInv
  <1> SUFFICES ASSUME Init PROVE IInv
    BY Zenon
  <1>1. TypeOK
    <2>1. mgr \in [Clients -> Manager] /\ wire \in [Conns -> Connection]
      BY TcpSessionAssumption DEF Init, Manager, Connection
    <2>2. srv \in [active : BOOLEAN, term : Nat, next : Nat, rterm : [Replicas -> Nat]]
      BY Zenon DEF Init
    <2>3. proxy \in [Clients -> [Replicas -> Proxy]]
      BY Zenon DEF Init, Proxy
    <2>4. opened \in Nat /\ opened <= MaxConns
      BY TcpSessionAssumption DEF Init
    <2> QED BY <2>1, <2>2, <2>3, <2>4, Zenon DEF Init, TypeOK
  <1>2. Queued
    <2> SUFFICES ASSUME NEW c \in Clients PROVE InOrder(mgr[c])
      BY Zenon DEF Queued
    <2>1. /\ mgr[c].jobs = <<>> /\ mgr[c].job = Idle /\ mgr[c].pc = "idle"
          /\ mgr[c].stop = FALSE /\ mgr[c].drained = FALSE
      BY Zenon DEF Init
    <2>2. \A i \in 1..Len(<<>>) : FALSE
      OBVIOUS
    <2> QED BY <2>1, <2>2, Zenon DEF InOrder
  <1>3. Owned
    BY DEF Init, Owned
  <1>4. Outstanding
    BY SMTT(30) DEF Init, Outstanding, Waits, Quiet
  <1>5. Bound
    BY DEF Init, Bound, Current, BoundAlike, TravelsBound
  <1> QED BY <1>1, <1>2, <1>3, <1>4, <1>5, Zenon DEF Init, IInv, OwnReply, StampedAsAsked

\* Every step of the clients, the network and the server keeps the invariant.
LEMMA NextIInv == IInv /\ [Next]_vars => IInv'
  <1> SUFFICES ASSUME IInv, [Next]_vars PROVE IInv'
    BY Zenon
  <1>1. ASSUME NEW c \in Clients,
               (\E kind \in Kinds, r \in Replicas : hop(c, kind, r)) \/ shutdown(c) \/ run_job(c) \/ run_fence(c) \/ recv(c) \/ on_net_fault(c)
        PROVE  IInv'
    BY <1>1, HopStep, ShutdownStep, RunJobStep, RunFenceStep, RecvStep, NetFaultStep, Zenon
  <1>2. ASSUME NEW k \in Conns,
               on_login(k) \/ on_helo(k) \/ on_write(k) \/ on_read(k) \/ on_keep_alive(k) \/ on_resolve(k) \/ on_logout(k)
        PROVE  IInv'
    BY <1>2, LoginStep, HeloStep, WriteStep, IoSteps, LogoutStep, Zenon
  <1>3. CASE UNCHANGED vars
    <2>1. UNCHANGED <<mgr, proxy, term, wire, srv, ops, opened, journal, crossed, faults>>
      BY <1>3, Zenon DEF vars
    <2>2. TypeOK' /\ Queued'
      <3>1. TypeOK'
        BY <2>1, Zenon DEF IInv, TypeOK
      <3>2. srv'.next \in Nat /\ srv'.next >= srv.next
        BY <2>1 DEF IInv, TypeOK
      <3>3. \A c \in Clients : InOrder(mgr[c])'
        BY <2>1, <3>2, StaysInOrder, Zenon DEF IInv
      <3> QED BY <3>1, <3>3, Zenon DEF Queued
    <2> QED BY <2>1, <2>2, QueueOnly, Zenon
  <1> QED BY <1>1, <1>2, <1>3, Zenon DEF Next

\* The invariant that says what is under way between the two ends of every connection holds of every behaviour.
THEOREM Inductive == Spec => []IInv
  BY InitIInv, NextIInv, PTL DEF Spec

\* No job of the blocking client is given the reply of another, although wire_client does not compare request ids:
\* one message at a time is under way on a connection, and one that was given up is never read again.
THEOREM RepliesAreOwn == Spec => []OwnReply
  <1>1. IInv => OwnReply
    BY Zenon DEF IInv
  <1> QED BY <1>1, Inductive, PTL

\* A write that a member journals is stamped with the term of the session it was issued in, although requests
\* carry no term: the connection it travels on is bound at that term by both ends, or refuses it.
THEOREM StampsAreAsked == Spec => []StampedAsAsked
  <1>1. IInv => StampedAsAsked
    BY Zenon DEF IInv
  <1> QED BY <1>1, Inductive, PTL

\* When drain() has returned, the session manager has no job left, and gets none.
THEOREM QuietAfterShutdown == Spec => []ShutdownQuiet
  <1>1. IInv => ShutdownQuiet
    BY Zenon DEF IInv, Queued, InOrder, ShutdownQuiet
  <1> QED BY <1>1, Inductive, PTL

\* Only the server's handlers answer, each on its own connection.
LEMMA AnsweredBy ==
    ASSUME IInv, Next, NEW k \in Conns, wire[k].rsp = <<>>, wire'[k].rsp # <<>>
    PROVE  on_login(k) \/ on_helo(k) \/ on_write(k) \/ on_read(k) \/ on_keep_alive(k) \/ on_resolve(k) \/ on_logout(k)
  <1>1. wire \in [Conns -> Connection] /\ wire[k] \in Connection
    BY Zenon DEF IInv, TypeOK
  <1>2. ASSUME NEW c \in Clients, (\E kind \in Kinds, r \in Replicas : hop(c, kind, r)) \/ shutdown(c) \/ run_fence(c)
        PROVE  FALSE
    BY <1>2, Zenon DEF hop, shutdown, run_fence
  <1>3. ASSUME NEW c \in Clients, run_job(c) PROVE FALSE
    <2>1. PICK j, n, q : /\ j = Head(mgr[c].jobs) /\ n = ensure_connected(c, j.r)
                         /\ q = [op |-> IF ensure_bound(c, j) THEN j.kind ELSE "helo", id |-> j.id, term |-> j.term]
      BY Zenon
    <2>2. UNCHANGED wire \/ wire' = [wire EXCEPT ![n].to = j.r, ![n].req = Append(@, q)]
      BY <1>3, <2>1, Zenon DEF run_job
    <2>3. CASE wire' = [wire EXCEPT ![n].to = j.r, ![n].req = Append(@, q)] /\ n = k
      <3>1. wire'[k] = [to |-> j.r, req |-> Append(wire[k].req, q), rsp |-> wire[k].rsp, term |-> wire[k].term, bound |-> wire[k].bound]
        BY <1>1, <2>3, Zenon DEF Connection
      <3>2. wire'[k].rsp = wire[k].rsp
        BY <3>1
      <3> QED BY <3>2, Zenon
    <2>4. CASE wire' = [wire EXCEPT ![n].to = j.r, ![n].req = Append(@, q)] /\ n # k
      BY <1>1, <2>4, Zenon
    <2> QED BY <2>2, <2>3, <2>4, Zenon
  <1>4. ASSUME NEW c \in Clients, recv(c) PROVE FALSE
    <2>1. PICK n, p, q : wire[n].rsp # <<>> /\ wire' = [wire EXCEPT ![n].rsp = p, ![n].req = q]
      BY <1>4, Zenon DEF recv
    <2>2. n # k
      BY <2>1, Zenon
    <2> QED BY <1>1, <2>1, <2>2, Zenon
  <1>5. ASSUME NEW c \in Clients, on_net_fault(c) PROVE FALSE
    <2>1. PICK n : wire' = [wire EXCEPT ![n].rsp = <<>>]
      BY <1>5, Zenon DEF on_net_fault
    <2> QED BY <1>1, <2>1, Zenon DEF Connection
  <1>6. ASSUME NEW n \in Conns, n # k, NEW status, NEW t, NEW bnd, NEW ct, Reply(n, status, t, bnd, ct) PROVE FALSE
    BY <1>1, <1>6, Zenon DEF Reply
  <1>7. ASSUME NEW n \in Conns, n # k,
               on_login(n) \/ on_helo(n) \/ on_write(n) \/ on_read(n) \/ on_keep_alive(n) \/ on_resolve(n) \/ on_logout(n)
        PROVE  FALSE
    <2>1. \E status, t, bnd, ct : Reply(n, status, t, bnd, ct)
      BY <1>7, Zenon DEF on_login, on_helo, on_write, on_read, on_keep_alive, on_resolve, on_logout, Answer
    <2> QED BY <1>6, <1>7, <2>1, Zenon
  <1> QED BY <1>2, <1>3, <1>4, <1>5, <1>7, Zenon DEF Next

\* An IO request of the live session that meets its member in that session passes the fences.
LEMMA LivePasses ==
    ASSUME IInv, NEW k \in Conns, serve(k, "io"), wire[k].req[1].term = srv.term, srv.rterm[wire[k].to] = srv.term
    PROVE  wire[k].bound /\ wire[k].term = srv.term /\ srv.next = srv.term
  <1>1. wire[k].req # <<>> /\ wire[k].req[1].op = "io"
    BY Served, Zenon
  <1>2. Opened(srv.term) /\ Agreed(k, srv.term)
    BY <1>1, Zenon DEF IInv, Bound, TravelsBound
  <1>3. wire[k].bound /\ wire[k].term = srv.term
    BY <1>2, Zenon DEF Agreed
  <1>4. srv.term # 0
    BY <1>2 DEF Opened, IInv, TypeOK
  <1>5. srv.next = srv.term
    BY <1>4, Zenon DEF IInv, Bound, Current
  <1> QED BY <1>3, <1>5, Zenon

\* A connection's response queue that grew, and holds at most one, was empty.
LEMMA NoneThenOne ==
    ASSUME NEW m \in Nat, NEW n \in Nat, n > m, n <= 1
    PROVE  m = 0 /\ n = 1
  OBVIOUS

\* An IO issued in the running session, on a replica of that session, is never answered as stale.
LEMMA AnsweredLive ==
    ASSUME IInv, IInv', [Next]_vars, NEW k \in Conns, Len(wire'[k].rsp) > Len(wire[k].rsp), Head(wire[k].req).op = "io",
           Head(wire[k].req).term = srv.term, srv.rterm[wire[k].to] = srv.term
    PROVE  wire'[k].rsp[Len(wire'[k].rsp)].status # "stale"
  <1>1. wire[k].rsp \in Seq(Response) /\ wire'[k].rsp \in Seq(Response) /\ Len(wire'[k].rsp) <= 1
    BY Zenon DEF IInv, TypeOK, Connection, Outstanding
  <1>2. wire[k].rsp = <<>> /\ Len(wire'[k].rsp) = 1 /\ wire'[k].rsp # <<>>
    <2>1. Len(wire[k].rsp) \in Nat /\ Len(wire'[k].rsp) \in Nat
      BY <1>1, QueueEnds, Zenon
    <2>2. Len(wire[k].rsp) = 0 /\ Len(wire'[k].rsp) = 1
      BY <1>1, <2>1, NoneThenOne, Zenon
    <2> QED BY <1>1, <2>2, ShortSeqs, Zenon
  <1>3. Next
    BY <1>2, Zenon DEF vars
  <1>4. on_write(k) \/ on_read(k) \/ on_keep_alive(k) \/ on_resolve(k)
    <2>1. "io" # "login" /\ "io" # "helo" /\ "io" # "logout"
      BY Zenon
    <2> QED BY <1>2, <1>3, <2>1, AnsweredBy, Zenon DEF on_login, on_helo, on_logout, serve
  <1>5. serve(k, "io")
    BY <1>4, Zenon DEF on_write, on_read, on_keep_alive, on_resolve
  <1>6. /\ wire[k].req # <<>> /\ Head(wire[k].req) = wire[k].req[1] /\ wire[k].term \in Nat /\ wire[k].bound \in BOOLEAN
        /\ UNCHANGED <<clientVars, ops, opened>>
    BY <1>5, Served, Zenon
  <1>7. wire[k].bound /\ wire[k].term = srv.term /\ srv.next = srv.term
    BY <1>5, <1>6, LivePasses, Zenon
  <1>8. PICK st \in Statuses : Answer(k, st) /\ st # "stale"
    <2>1. /\ {"down", "ok"} \subseteq Statuses /\ {"down", "not_leader"} \subseteq Statuses
          /\ "stale" \notin {"down", "ok"} /\ "stale" \notin {"down", "not_leader"}
      BY Zenon DEF Statuses
    <2>2. Gate(k) = {"down", "ok"}
      BY <1>7, Zenon DEF Gate
    <2>3. CASE on_write(k) \/ on_read(k) \/ on_keep_alive(k)
      BY <2>1, <2>2, <2>3, Zenon DEF on_write, on_read, on_keep_alive
    <2>4. CASE on_resolve(k)
      BY <1>7, <2>1, <2>4, Zenon DEF on_resolve
    <2> QED BY <1>4, <2>3, <2>4, Zenon
  <1>9. Replied(k, wire[k].req[1], st, 0, wire[k].bound, wire[k].term)
    <2>1. Reply(k, st, 0, wire[k].bound, wire[k].term) /\ 0 \in Nat
      BY <1>8, Zenon DEF Answer
    <2> QED BY <1>6, <2>1, Serves, Zenon
  <1>10. PICK m : m = [op |-> wire[k].req[1].op, id |-> wire[k].req[1].id, status |-> st, term |-> 0]
    BY Zenon
  <1>11. wire'[k].rsp = <<m>> /\ m.status = st
    BY <1>2, <1>9, <1>10, Zenon DEF Replied
  <1>12. <<m>>[1] = m
    BY Zenon
  <1> QED BY <1>2, <1>8, <1>11, <1>12, Zenon

\* An IO request issued in the live session is not answered STALE_TERM by a member that is in that session: its
\* connection was bound anew at the live term before the request was sent, whatever session it was bound in before.
THEOREM LiveIsServed == Spec => LiveNotFenced
  <1>1. IInv /\ IInv' /\ [Next]_vars =>
          [\A k \in Conns :
             LET q == Head(wire[k].req)
             IN  Len(wire'[k].rsp) > Len(wire[k].rsp) /\ q.op = "io"
                 /\ q.term = srv.term /\ srv.rterm[wire[k].to] = srv.term
                 => wire'[k].rsp[Len(wire'[k].rsp)].status # "stale"]_vars
    BY AnsweredLive, Zenon
  <1> QED BY <1>1, Inductive, PTL DEF Spec, LiveNotFenced
=============================================================================
