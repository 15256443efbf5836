----------------------------- MODULE WireReply -----------------------------
(***************************************************************************)
(* The way data takes from a replica's journal into a caller's buffer: the *)
(* replica resolves a read block by block into runs of data and holes, the *)
(* server packs the runs into a framed reply, the stream is cut anywhere,  *)
(* the client finds the message boundaries again and scatters the data.    *)
(* A peer that fetches whole journal slots takes the same way.             *)
(*                                                                         *)
(* Sizes are in cells: a message header, an operation header, a descriptor *)
(* is one cell, a block is BlockSize cells of data.  Requests reach the    *)
(* server whole (AsyncConn has their chunks), so issuing and serving one   *)
(* is a step.  A connection is one of these paths:                         *)
(*   leader    on-ring, by a proxy that has logged in                      *)
(*   follower  on-ring, by a proxy that only ever said HELO                *)
(*   client    the blocking wire_client                                    *)
(*   peer      another replica, CraftTcpPeer                               *)
(***************************************************************************)
EXTENDS Integers, SequencesExt

CONSTANTS
    NumBlocks, BlockSize,
    MaxPayload,  \* max_tx: the largest payload of one operation, in cells
    Writes,      \* the journal slots that may be written
    Reads,       \* the ranges that may be read
    MaxSlots,    \* bound: dLSNs 0..MaxSlots - 1
    Ops,         \* bound: operations issued on the connection
    Paths,       \* which of the four paths are tried
    AnyFetch,    \* may a fetch ask for more than its reply can carry?
    Chunk,       \* the most one receive returns
    MaxFaults    \* bound: times the socket breaks

Blocks == 0..(NumBlocks - 1)
Slots  == 0..(MaxSlots - 1)

ASSUME WireReplyAssumption ==
    /\ {NumBlocks, BlockSize, MaxPayload, MaxSlots, Chunk} \subseteq Nat \ {0} /\ MaxFaults \in Nat
    /\ AnyFetch \in BOOLEAN /\ Paths \subseteq {"leader", "follower", "client", "peer"}
    /\ \A w \in Writes : /\ w.kind \in {"data", "blank", "zeros"}
                         /\ w.len > 0 /\ w.lba..(w.lba + w.len - 1) \subseteq Blocks
    /\ \A r \in Reads : r.len > 0 /\ r.lba..(r.lba + r.len - 1) \subseteq Blocks /\ r.len * BlockSize <= MaxPayload

VARIABLES
    journal,  \* the replica's slots; a blank one is data that happens to be zero
    index,    \* per block, the slot whose data was applied to it
    commit,   \* commit_lsn
    path,     \* what kind of connection this is
    up,       \* is it connected?
    net, rx,  \* cells under way to the client, and rx_
    op,       \* the operations on it
    faults

vars == <<journal, index, commit, path, up, net, rx, op, faults>>

None == [kind |-> "none"]
EmptySlot == [kind |-> "empty", lba |-> 0, len |-> 0]
NoCell == -1
Zero == [of |-> "zero"]
Old  == [of |-> "old"]   \* what the caller's buffer held before

Init ==
    /\ journal = [d \in Slots |-> None] /\ index = [x \in Blocks |-> NoCell] /\ commit = -1
    /\ path \in Paths /\ up = FALSE /\ net = <<>> /\ rx = <<>> /\ faults = 0
    /\ op = [o \in Ops |-> [st |-> "idle"]]
-----------------------------------------------------------------------------
\* The replica.  The payload of slot d, and its part for block x.
HasData(d) == journal[d].kind \in {"data", "blank"}
Payload(d) ==
    [i \in 1..(IF HasData(d) THEN journal[d].len * BlockSize ELSE 0) |->
        IF journal[d].kind = "blank" THEN Zero ELSE [of |-> d, at |-> i]]
Page(d, x) == SubSeq(Payload(d), (x - journal[d].lba) * BlockSize + 1, (x - journal[d].lba + 1) * BlockSize)
ZeroPage == [i \in 1..BlockSize |-> Zero]

\* Slot d writes block x; an Empty slot writes none.
Covers(d, x) == journal[d] # None /\ x \in journal[d].lba..(journal[d].lba + journal[d].len - 1)

\* A write reaches the replica on another connection, or a verdict makes the slot Empty.  Nothing that has been
\* sent depends on it, so it need not come between two receives.
do_write(d, w) ==
    /\ journal[d] = None /\ rx = <<>>
    /\ journal' = [journal EXCEPT ![d] = w]
    /\ UNCHANGED <<index, commit, path, up, net, rx, op, faults>>

\* apply_up_to(): in order, up to the first missing slot; data enters the index, a zero write leaves a hole.
Reach(target) == Max({commit} \cup {c \in Slots : c <= target /\ \A d \in (commit + 1)..c : journal[d] # None})
Apply(target) ==
    [x \in Blocks |->
        LET over == {d \in (commit + 1)..Reach(target) : Covers(d, x)}
        IN  IF over = {} THEN index[x] ELSE IF HasData(Max(over)) THEN Max(over) ELSE NoCell]

\* read_range(), one block: the newest slot of the tail up to H, else the index.
ReadPage(x, H, idx, applied) ==
    LET tail == {d \in Slots : applied < d /\ d <= H /\ Covers(d, x)}
        from == IF tail = {} THEN idx[x] ELSE Max(tail)
    IN  IF from = NoCell THEN ZeroPage ELSE IF HasData(from) THEN Page(from, x) ELSE ZeroPage

\* read_range(): the runs of data and of holes, in bytes.  A page of zeros is a hole, whoever wrote it.
Layout(pages, lba, len) ==
    LET hole(x) == pages[x] = ZeroPage
        last == lba + len - 1
        starts == SelectSeq([i \in 1..len |-> lba + i - 1], LAMBDA x : x = lba \/ hole(x) # hole(x - 1))
        end(i) == IF i = Len(starts) THEN last + 1 ELSE starts[i + 1]
    IN  [i \in DOMAIN starts |-> [addr |-> starts[i] * BlockSize, len |-> (end(i) - starts[i]) * BlockSize,
                                  hole |-> hole(starts[i])]]
-----------------------------------------------------------------------------
\* frame_message(): the header says how long the body is; the count is in the operation header.
frame_message(kind, status, o, count, body) ==
    <<[op |-> kind, status |-> status, rid |-> o, body_len |-> Len(body)], [count |-> count]>> \o body

\* The bound a receiver puts on a body: the payload, plus a descriptor per block if it knows the block size.
framed_body_max(payload, lba) == payload + (IF lba = 0 THEN 0 ELSE (payload + lba - 1) \div lba)
BodyMax ==
    CASE path = "leader"   -> framed_body_max(MaxPayload, BlockSize)
      [] path = "follower" -> framed_body_max(MaxPayload, 0)
      [] path = "client"   -> framed_body_max(MaxPayload, 1)
      [] path = "peer"     -> MaxPayload

\* parse_message() on the front of a buffer.
IsHeader(cell) == "body_len" \in DOMAIN cell
parse_message(buf) ==
    IF buf = <<>> THEN "incomplete"
    ELSE IF ~IsHeader(Head(buf)) THEN "malformed"
    ELSE IF Head(buf).body_len > BodyMax THEN "malformed"
    ELSE IF Len(buf) < 2 + Head(buf).body_len THEN "incomplete" ELSE "whole"

\* The ring pipelines; a blocking connection has one operation out at a time.
Outstanding == {o \in Ops : op[o].st = "sent"}
CanIssue(o) == op[o].st = "idle" /\ (path \in {"client", "peer"} => Outstanding = {})

\* The server answers.  A connection that was down is a new one by now, with an empty rx_.
Reply(o, request, msg) ==
    /\ op' = [op EXCEPT ![o] = request]
    /\ up' = TRUE
    /\ net' = net \o msg
    /\ rx' = IF up THEN rx ELSE <<>>
    /\ UNCHANGED <<journal, path, faults>>

\* What the read is to return: of each block the newest write up to H, or zeros.  A replica that has applied
\* writes above H meanwhile has no older version left.
Newest(x, H) == {d \in Slots : d <= H /\ Covers(d, x) /\ \A e \in (d + 1)..H : ~Covers(e, x)}
Expected(lba, len, H) ==
    [k \in 1..(len * BlockSize) |->
        LET x == lba + ((k - 1) \div BlockSize)
            data == {d \in Newest(x, H) : HasData(d)}
        IN  IF data = {} THEN Zero ELSE Page(Max(data), x)[1 + ((k - 1) % BlockSize)]]

\* on_read(): the piggybacked commit, the read, the extent table, then the data of the runs that are not holes.
on_read(o, lba, len, H, c) ==
    /\ path # "peer" /\ CanIssue(o)
    /\ c <= H   \* the client's horizon is never below its frontier
    /\ commit' = Reach(c) /\ index' = Apply(c)
    /\ LET pages == [x \in lba..(lba + len - 1) |-> ReadPage(x, H, index', commit')]
           dest_buf == FlattenSeq([i \in 1..len |-> pages[lba + i - 1]])
           layout == Layout(pages, lba, len)
           data == SelectSeq(layout, LAMBDA e : ~e.hole)
           cut(e) == SubSeq(dest_buf, e.addr - lba * BlockSize + 1, e.addr - lba * BlockSize + e.len)
       IN  Reply(o, [st |-> "sent", lba |-> lba, len |-> len, want |-> Expected(lba, len, IF H > commit THEN H ELSE commit)],
                 frame_message("read", "ok", o, Len(layout), layout \o FlattenSeq([i \in DOMAIN data |-> cut(data[i])])))

\* on_fetch_data(): a descriptor for each slot asked for and present, then the data of those that have any.
Desc(d) == [lsn |-> d, lba |-> journal[d].lba, len |-> journal[d].len, is_empty |-> journal[d].kind = "empty",
            all_zeros |-> journal[d].kind = "zeros", byte_len |-> Len(Payload(d))]
on_fetch_data(o, asked) ==
    LET lsns == SetToSortSeq({d \in asked : journal[d] # None}, <)
        body == [i \in DOMAIN lsns |-> Desc(lsns[i])] \o FlattenSeq([i \in DOMAIN lsns |-> Payload(lsns[i])])
    IN  /\ path = "peer" /\ CanIssue(o) /\ (AnyFetch \/ Len(body) <= MaxPayload)
        /\ Reply(o, [st |-> "sent", want |-> [i \in DOMAIN lsns |-> [slot |-> Desc(lsns[i]), data |-> Payload(lsns[i])]]],
                 frame_message("fetch", "ok", o, Len(lsns), body))
        /\ UNCHANGED <<index, commit>>

\* A request that is not bound to a term, or that the replica refuses, is answered by a status without a body.
Refused == <<[of |-> "refused"]>>
Refuse(o) ==
    /\ CanIssue(o)
    /\ Reply(o, [st |-> "sent", want |-> Refused],
             frame_message(IF path = "peer" THEN "fetch" ELSE "read", "error", o, 0, <<>>))
    /\ UNCHANGED <<index, commit>>
-----------------------------------------------------------------------------
\* The client.  A receive returns some of what is under way; it is posted when rx_ holds no whole message.
Recv(n) ==
    /\ up /\ parse_message(rx) = "incomplete" /\ n <= Len(net)
    /\ rx' = rx \o SubSeq(net, 1, n) /\ net' = SubSeq(net, n + 1, Len(net))
    /\ UNCHANGED <<journal, index, commit, path, up, op, faults>>

\* Where the data of the i-th descriptor starts among the data of the body.
DataBefore(lens, i) == MapThenSumSet(LAMBDA j : lens[j], 1..(i - 1))

\* Mutant: the caller's buffer is not cleared where the reply has a hole.
scatter_KeepsHoles(f, es, packed) ==
    LET lens == [i \in DOMAIN es |-> IF es[i].hole THEN 0 ELSE es[i].len]
        base == f.lba * BlockSize
        at(k) == {i \in DOMAIN es : ~es[i].hole /\ base + k - 1 \in es[i].addr..(es[i].addr + es[i].len - 1)}
    IN  [k \in 1..(f.len * BlockSize) |->
            IF at(k) = {} THEN Old
            ELSE LET i == Max(at(k)) IN packed[DataBefore(lens, i) + base + k - es[i].addr]]

\* wire_client::read(): each run of data goes to its place in the caller's buffer, the holes are cleared.
scatter(f, es, packed) ==
    LET lens == [i \in DOMAIN es |-> IF es[i].hole THEN 0 ELSE es[i].len]
        base == f.lba * BlockSize
        at(k) == {i \in DOMAIN es : base + k - 1 \in es[i].addr..(es[i].addr + es[i].len - 1)}
    IN  [k \in 1..(f.len * BlockSize) |->
            IF at(k) = {} THEN Old
            ELSE LET i == Max(at(k)) IN IF es[i].hole THEN Zero ELSE packed[DataBefore(lens, i) + base + k - es[i].addr]]

\* plan_scatter(): every extent lies in the range asked for; and the body is as long as the extents say.
plan_scatter(f, es, packed) ==
    /\ \A i \in DOMAIN es : es[i].addr >= f.lba * BlockSize /\ es[i].addr + es[i].len <= (f.lba + f.len) * BlockSize
    /\ MapThenSumSet(LAMBDA i : IF es[i].hole THEN 0 ELSE es[i].len, DOMAIN es) <= Len(packed)

\* CraftTcpPeer::fetch_data(): each slot takes its bytes from where the previous one's ended.
Slices(ds, packed) ==
    LET lens == [i \in DOMAIN ds |-> IF ds[i].is_empty \/ ds[i].all_zeros THEN 0 ELSE ds[i].byte_len]
    IN  [i \in DOMAIN ds |-> [slot |-> ds[i], data |-> SubSeq(packed, DataBefore(lens, i) + 1, DataBefore(lens, i) + lens[i])]]

\* What operation f makes of the message it is handed.
Malformed == <<[of |-> "malformed"]>>
Result(f, msg) ==
    LET n == msg[2].count
        ds == SubSeq(msg, 3, 2 + n)
        packed == SubSeq(msg, 3 + n, Len(msg))
    IN  IF Head(msg).status # "ok" THEN Refused
        ELSE IF Head(msg).op = "fetch" THEN Slices(ds, packed)
        ELSE IF plan_scatter(f, ds, packed) THEN scatter(f, ds, packed) ELSE Malformed

\* The message at the front of rx_, when it is whole.
Message == SubSeq(rx, 1, 2 + Head(rx).body_len)

\* Mutant: what was received past the message is dropped with it.
Take_DropsRest ==
    /\ up /\ parse_message(rx) = "whole"
    /\ op' = [op EXCEPT ![Head(rx).rid] = [st |-> "done"]]
    /\ rx' = <<>>
    /\ UNCHANGED <<journal, index, commit, path, up, net, faults>>

\* A whole message is in rx_: it goes to the operation that waits for it, what follows it stays.
Take ==
    /\ up /\ parse_message(rx) = "whole"
    /\ op' = [op EXCEPT ![Head(rx).rid] = [st |-> "done"]]
    /\ rx' = SubSeq(rx, Len(Message) + 1, Len(rx))
    /\ UNCHANGED <<journal, index, commit, path, up, net, faults>>

\* The socket breaks, or the stream makes no sense: every operation out fails.
Fault ==
    /\ up /\ (parse_message(rx) = "malformed" \/ faults < MaxFaults)
    /\ LET st == IF parse_message(rx) = "malformed" THEN "malformed" ELSE "closed"
       IN  op' = [o \in Ops |-> IF o \in Outstanding THEN [st |-> st] ELSE op[o]]
    /\ faults' = IF parse_message(rx) = "malformed" THEN faults ELSE faults + 1
    /\ up' = FALSE /\ net' = <<>>
    /\ UNCHANGED <<journal, index, commit, path, rx>>

Next ==
    \/ \E d \in Slots, w \in Writes \cup {EmptySlot} : do_write(d, w)
    \/ \E o \in Ops, r \in Reads, H \in Slots, c \in {-1} \cup Slots : on_read(o, r.lba, r.len, H, c)
    \/ \E o \in Ops, asked \in (SUBSET Slots) \ {{}} : on_fetch_data(o, asked)
    \/ \E o \in Ops : Refuse(o)
    \/ \E n \in 1..Chunk : Recv(n)
    \/ Take \/ Fault

Spec == Init /\ [][Next]_vars

\* Bytes under way arrive, and what arrived is looked at.
FairSpec == Spec /\ WF_vars(\E n \in 1..Chunk : Recv(n)) /\ WF_vars(Take) /\ WF_vars(Fault /\ faults' = faults)
-----------------------------------------------------------------------------
\* What an operation is about to be handed fills its caller's buffer with the newest write up to the horizon in
\* every block, and zeros where there is none; or, for a fetch, is the slots as the peer has them: however the
\* data was split between index and tail, into runs and holes, and into receives.
ResultIsHeld == up /\ parse_message(rx) = "whole" => Result(op[Head(rx).rid], Message) = op[Head(rx).rid].want

\* Every operation gets its reply unless the socket breaks: no message is left in rx_, lost with the one before
\* it, or refused by the receiver's bound on a body.
EveryReplyTaken == \A o \in Ops : op[o].st = "sent" ~> op[o].st \in {"done", "closed"}
=============================================================================
