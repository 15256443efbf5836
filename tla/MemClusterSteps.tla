-------------------------- MODULE MemClusterSteps ---------------------------
(***************************************************************************)
(* The steps of the replica set keep the invariant.  First those that put  *)
(* no write into a journal: the client's bookkeeping, faults, the round    *)
(* around its verdicts, applying, login and logout.  Then those that       *)
(* change a slot of one: a write that arrives, in time or late, and a      *)
(* round's verdict.                                                        *)
(***************************************************************************)
EXTENDS MemClusterInvariant, TLAPS

\* The dLSNs of the model are naturals.
LEMMA SlotsNat == Slots \subseteq Nat
BY ClusterAssumption DEF Slots

\* On one queue a step that is not part of a round or a login runs between them.
LEMMA Idle == OneQueue /\ Scheduled => round.pc = "idle" /\ login.pc = "idle"
BY Zenon DEF Scheduled

\* A step of the session's own: the three parts of OneWriter, said of the journals after it.
LEMMA OneWriterFrom ==
    ASSUME UNCHANGED <<sess, outcome, term, missed>>,
           \A r \in Current, d \in Slots : sess.term > 0 /\ d > sess.L =>
              rep'[r].journal[d] \in (IF outcome[d] = "none" THEN {Missing} ELSE {Missing, Empty, sess.term}),
           \A r \in Current, m \in late' : m.term = term => rep'[r].journal[m.slot] \in {Missing, Empty, m.term},
           \A r, s \in Current, d \in Slots :
              Holds(rep'[r], d) /\ Holds(rep'[s], d) => rep'[r].journal[d] = rep'[s].journal[d]
    PROVE  OneWriter'
  BY Zenon DEF OneWriter, Current

\* ...and a step that leaves the journals alone.
LEMMA OneWriterKept ==
    ASSUME OneWriter, UNCHANGED <<rep, sess, outcome, term, missed, late>>
    PROVE  OneWriter'
  <1>1. \A r \in Current, d \in Slots : sess.term > 0 /\ d > sess.L =>
          rep'[r].journal[d] \in (IF outcome[d] = "none" THEN {Missing} ELSE {Missing, Empty, sess.term})
    BY Zenon DEF OneWriter
  <1>2. \A r \in Current, m \in late' : m.term = term => rep'[r].journal[m.slot] \in {Missing, Empty, m.term}
    BY Zenon DEF OneWriter
  <1>3. \A r, s \in Current, d \in Slots :
          Holds(rep'[r], d) /\ Holds(rep'[s], d) => rep'[r].journal[d] = rep'[s].journal[d]
    BY Zenon DEF OneWriter
  <1> QED BY <1>1, <1>2, <1>3, OneWriterFrom, Zenon

\* The same for a step that changes no journal, whatever it does to the session and its messages.
LEMMA OneWriterStays ==
    ASSUME OneWriter, \A r \in Replicas : rep'[r].journal = rep[r].journal, missed \subseteq missed',
           \A r \in Current, d \in Slots : sess'.term > 0 /\ d > sess'.L =>
              rep[r].journal[d] \in (IF outcome'[d] = "none" THEN {Missing} ELSE {Missing, Empty, sess'.term}),
           \A r \in Current, m \in late' : m.term = term' => rep[r].journal[m.slot] \in {Missing, Empty, m.term}
    PROVE  OneWriter'
  <1>1. \A r \in Current' : r \in Current /\ rep'[r].journal = rep[r].journal
    BY Zenon DEF Current
  <1>2. \A r \in Current', d \in Slots : sess'.term > 0 /\ d > sess'.L =>
          rep'[r].journal[d] \in (IF outcome'[d] = "none" THEN {Missing} ELSE {Missing, Empty, sess'.term})
    BY <1>1, Zenon
  <1>3. \A r \in Current', m \in late' : m.term = term' => rep'[r].journal[m.slot] \in {Missing, Empty, m.term}
    BY <1>1, Zenon
  <1>4. \A r, s \in Current', d \in Slots :
          Holds(rep'[r], d) /\ Holds(rep'[s], d) => rep'[r].journal[d] = rep'[s].journal[d]
    <2> SUFFICES ASSUME NEW r \in Current', NEW s \in Current', NEW d \in Slots, Holds(rep'[r], d), Holds(rep'[s], d)
                 PROVE  rep'[r].journal[d] = rep'[s].journal[d]
      BY Zenon
    <2>1. /\ r \in Current /\ rep'[r].journal[d] = rep[r].journal[d]
          /\ s \in Current /\ rep'[s].journal[d] = rep[s].journal[d]
      BY <1>1, Zenon
    <2>2. Holds(rep[r], d) /\ Holds(rep[s], d)
      BY <2>1, Zenon DEF Holds
    <2> QED BY <2>1, <2>2, Zenon DEF OneWriter
  <1> QED BY <1>2, <1>3, <1>4, Zenon DEF OneWriter

\* ...and for one that stays in the session: slots may be handed out and resolved, messages may go.
LEMMA OneWriterSame ==
    ASSUME OneWriter, \A r \in Replicas : rep'[r].journal = rep[r].journal, missed \subseteq missed',
           sess'.term = sess.term, sess'.L = sess.L,
           \A d \in Slots : outcome'[d] = "none" => outcome[d] = "none",
           \A m \in late' : m.term = term' => m \in late /\ m.term = term
    PROVE  OneWriter'
  <1>1. \A r \in Current, d \in Slots : sess'.term > 0 /\ d > sess'.L =>
          rep[r].journal[d] \in (IF outcome'[d] = "none" THEN {Missing} ELSE {Missing, Empty, sess'.term})
    <2> SUFFICES ASSUME NEW r \in Current, NEW d \in Slots, sess.term > 0, d > sess.L
                 PROVE  rep[r].journal[d] \in (IF outcome'[d] = "none" THEN {Missing} ELSE {Missing, Empty, sess.term})
      BY Zenon
    <2>1. rep[r].journal[d] \in (IF outcome[d] = "none" THEN {Missing} ELSE {Missing, Empty, sess.term})
      BY Zenon DEF OneWriter
    <2> QED BY <2>1, Zenon
  <1>2. \A r \in Current, m \in late' : m.term = term' => rep[r].journal[m.slot] \in {Missing, Empty, m.term}
    BY Zenon DEF OneWriter
  <1> QED BY <1>1, <1>2, OneWriterStays, Zenon

\* Such a step keeps what is known of undelivered and of refused writes, unless it ends a round.
LEMMA RefusalsSame ==
    ASSUME Refusals, \A r \in Replicas : rep'[r].journal = rep[r].journal, missed \subseteq missed',
           \A d \in Slots : /\ outcome'[d] = "flying" => outcome[d] = "flying"
                            /\ outcome'[d] = "empty" => outcome[d] = "empty",
           \A d \in Slots, r \in Replicas :
              /\ leg'[d][r] \in {"wire", "down"} => leg[d][r] \in {"wire", "down"}
              /\ leg'[d][r] \in {"wire", "timeout"} => leg[d][r] \in {"wire", "timeout"} \/ outcome[d] # "empty",
           round.pc = "idle" \/ round' = round \/ (round'.pc # "idle" /\ round'.upto = round.upto)
    PROVE  Refusals'
  <1>1. \A r \in Current' : r \in Current /\ r \in Replicas /\ rep'[r].journal = rep[r].journal
    BY Zenon DEF Current
  <1>2. \A d \in Slots, r \in Current' :
          leg'[d][r] \in {"wire", "down"} /\ outcome'[d] = "flying" /\ Holds(rep'[r], d) =>
             round'.pc # "idle" /\ d <= round'.upto
    BY <1>1, ZenonT(30) DEF Refusals, Holds
  <1>3. \A d \in Slots : outcome'[d] = "empty" =>
          \/ rep'[Leader].journal[d] = Empty
          \/ \A r \in Current' : ~Holds(rep'[r], d) /\ leg'[d][r] \notin {"wire", "timeout"}
    BY <1>1, ClusterAssumption, ZenonT(30) DEF Refusals, Holds
  <1> QED BY <1>2, <1>3, Zenon DEF Refusals

\* The codes of a journal slot: neither absence nor a tombstone is a write.
LEMMA CellFacts ==
    /\ Missing # Empty /\ Missing \in Cells /\ Empty \in Cells
    /\ \A v : v > 0 => v # Missing /\ v # Empty
    /\ \A v \in Cells : v = Missing \/ v = Empty \/ v > 0
  BY DEF Missing, Empty, Cells

\* What a replica's fields are.
LEMMA ReplicaFacts ==
    ASSUME TypeOK
    PROVE  \A r \in Replicas :
             /\ rep[r] \in Replica /\ rep[r].term \in Nat /\ rep[r].commit \in Int
             /\ \A e \in Slots : rep[r].journal[e] \in Cells
  BY DEF TypeOK, Replica, Marks

\* The order of the watermarks is the integers'.
LEMMA MarkFacts ==
    /\ Marks \subseteq Int /\ Slots \subseteq Int /\ Slots \subseteq Nat /\ Slots \subseteq Marks
    /\ \A a, b, e \in Int : e <= a /\ a <= b => e <= b
    /\ \A a, b \in Int : (a <= b => a = b \/ a < b) /\ (a < b + 1 /\ a # b => a < b) /\ (a <= b \/ a > b)
  BY SlotsNat DEF Marks

\* A write sent before any slot was resolved covers none.
LEMMA NothingCovered == \A e \in Slots : ~(e <= -1)
  BY SlotsNat

\* The slot after a watermark.
LEMMA AfterMark ==
    /\ \A m \in Marks : m + 1 \in Nat \cup {-1} /\ m + 1 \in Int /\ m + 1 >= 0 /\ m \in Int
    /\ \A e, m \in Int : e < m + 1 => e <= m
  BY DEF Marks

\* A replica's watermarks, and what a lower one covers.
LEMMA Covered ==
    /\ \A s \in Replica : s.commit \in Marks /\ s.last \in Marks /\ s.term \in Nat
    /\ \A d \in Slots, c \in Marks, f \in Int : d <= c /\ c <= f => d <= f
    /\ \A d \in Slots, f \in Int : f < d => ~(d <= f)
    /\ \A d, e \in Slots : d <= e => d = e \/ d < e
    /\ \A d, u \in Slots, f \in Int : f > u /\ d <= u => d < f
  BY SlotsNat DEF Replica, Marks

\* A round's cursor is an integer.
LEMMA ScanInt == TypeOK => round.d \in Int
  BY DEF TypeOK

\* A bound that is kept is not exceeded.
LEMMA NotAbove == \A a, b \in Int : a <= b => ~(a > b)
  OBVIOUS

\* A round looks at slots, one after another.
LEMMA ScanFacts ==
    ASSUME TypeOK, round.upto \in Slots, round.d >= 0, round.d <= round.upto
    PROVE  /\ round.d \in Slots /\ round.d \in Int /\ round.upto \in Int /\ round.d + 1 \in Int
           /\ round.d + 1 >= 0 /\ round.d + 1 \in Nat \cup {-1}
  <1>1. round.d \in Int
    BY DEF TypeOK
  <1> QED BY <1>1, ClusterAssumption DEF Slots

\* Terms are naturals; a login mints the next one.
LEMMA TermFacts ==
    /\ \A b \in Nat : 0 <= b /\ b <= b /\ b + 1 \in Nat /\ (b > 0 => 0 < b /\ b # 0)
    /\ \A a, b \in Nat : /\ a <= b => a < b + 1 /\ a <= b + 1 /\ a # b + 1
                         /\ a < b => a # b /\ a <= b /\ b > 0
  OBVIOUS

\* The marks and the index of a replica speak of its journal and its watermarks only.
LEMMA MarkedSame ==
    ASSUME NEW s, NEW t, t.journal = s.journal, t.last = s.last, t.commit = s.commit, t.index = s.index
    PROVE  (Marked(s) => Marked(t)) /\ (Newest(s) => Newest(t))
  BY Zenon DEF Marked, Newest, Present, Holds

\* Above the last slot of a replica it has nothing, and has applied nothing.
LEMMA BeyondLast ==
    ASSUME NEW s \in Replica, NEW rs \in Int, Marked(s), s.last <= rs, NEW d \in Slots, d > rs
    PROVE  s.journal[d] = Missing /\ ~(d <= s.commit)
  BY SlotsNat DEF Replica, Marks, Marked, Present

\* Between logins the session is in the current term, or there is none and it has no slots.
LEMMA SessionTerm ==
    ASSUME TypeOK, Terms, Ordered, login.pc = "idle"
    PROVE  /\ sess.term \in {0, term} /\ term \in Nat /\ sess.term \in Nat
           /\ sess.term > 0 => sess.term = term
           /\ sess.term = 0 => \A e \in Slots : outcome[e] = "none" /\ \A x \in Replicas : leg[e][x] = "none"
           /\ \A e \in Slots : outcome[e] # "none" => e > sess.L /\ sess.term > 0 /\ sess.term = term
  BY DEF TypeOK, Terms, Ordered

\* What the message of a timed-out write holds.
LEMMA LateMessage ==
    ASSUME TypeOK, Headers, NEW m \in late
    PROVE  m.to \in Replicas /\ m.slot \in Slots /\ m.term \in Nat /\ m.commit \in Int /\ m.term > 0
  BY DEF TypeOK, Headers, Marks

\* A member that such a message reaches is current, and takes it in the message's own term only.
LEMMA LateMember ==
    ASSUME TypeOK, Headers, Terms, OneWriter, login.pc = "idle", NEW m \in late, up[m.to]
    PROVE  /\ m.to \in Current /\ (m.term = rep[m.to].term => m.term = term)
           /\ m.term = term => \A x \in Current : rep[x].journal[m.slot] \in {Missing, Empty, m.term}
           /\ \A e \in Slots : sess.term > 0 /\ e <= m.commit /\ sess.L < e /\ m.term = term => outcome[e] \in Resolved
  <1>1. m.to \in Current
    BY LateMessage, Zenon DEF Terms, Current
  <1>2. m.term = rep[m.to].term => m.term = term
    BY <1>1, LateMessage DEF Terms
  <1>3. m.term = term => \A x \in Current : rep[x].journal[m.slot] \in {Missing, Empty, m.term}
    BY Zenon DEF OneWriter
  <1>4. \A e \in Slots : sess.term > 0 /\ e <= m.commit /\ sess.L < e /\ m.term = term => outcome[e] \in Resolved
    BY DEF Headers, Terms
  <1> QED BY <1>1, <1>2, <1>3, <1>4, Zenon

\* A message that goes leaves the commit_lsn of the others covered.
LEMMA FewerLate ==
    ASSUME Ordered, Headers, late' \subseteq late, UNCHANGED <<sess, outcome, open, leg, hdr, acked, term, login>>
    PROVE  Ordered' /\ Headers'
  <1>1. Ordered'
    BY Zenon DEF Ordered
  <1>2. Headers'
    BY Zenon DEF Headers
  <1> QED BY <1>1, <1>2, Zenon

\* A tombstone's quorum is untouched by a step that adds no tombstone and no acknowledgement on one.
LEMMA TombstonesKept ==
    /\ Tombstones /\ Core' \subseteq Core
    /\ \A r \in Replicas, d \in Slots : rep'[r].journal[d] = Empty <=> rep[r].journal[d] = Empty
    /\ \A r \in Replicas, d \in Slots :
         leg'[d][r] = "acked" => leg[d][r] = "acked" \/ rep[r].journal[d] # Empty
    => Tombstones'
  <1> SUFFICES ASSUME Tombstones, Core' \subseteq Core,
                      \A r \in Replicas, d \in Slots : rep'[r].journal[d] = Empty <=> rep[r].journal[d] = Empty,
                      \A r \in Replicas, d \in Slots :
                         leg'[d][r] = "acked" => leg[d][r] = "acked" \/ rep[r].journal[d] # Empty,
                      NEW d \in Slots, NEW x \in Replicas, rep'[x].journal[d] = Empty
               PROVE  /\ \E Q \in SUBSET Replicas :
                           Majority(Q) /\ \A q \in Q : rep'[q].journal[d] = Empty /\ leg'[d][q] # "acked"
                      /\ \A r \in Core' : rep'[r].journal[d] = Empty
    BY Zenon DEF Tombstones, Majority
  <1>1. PICK Q \in SUBSET Replicas : Majority(Q) /\ \A q \in Q : rep[q].journal[d] = Empty /\ leg[d][q] # "acked"
    BY Zenon DEF Tombstones
  <1>2. \A r \in Core : rep[r].journal[d] = Empty
    BY Zenon DEF Tombstones
  <1>3. \A q \in Q : rep'[q].journal[d] = Empty /\ leg'[d][q] # "acked"
    BY <1>1, Zenon
  <1>4. \A r \in Core' : rep'[r].journal[d] = Empty
    BY <1>2, Zenon DEF Core
  <1> QED BY <1>1, <1>3, <1>4, Zenon
-----------------------------------------------------------------------------
\* write(): the new slot is above everything the session wrote, and no current replica has it yet.
LEMMA WriteStep == Contracts /\ OneQueue /\ IInv /\ Write => IInv'
  <1> SUFFICES ASSUME Contracts, OneQueue, Parts, Write PROVE Parts'
    BY Zenon DEF IInv
  <1> USE DEF Parts
  <1>1. round.pc = "idle" /\ login.pc = "idle" /\ sess.term > 0
    BY Idle, Zenon DEF Write, Ordered
  <1>2. PICK d \in Slots :
         /\ d > sess.L /\ outcome[d] = "none" /\ \A e \in Slots : sess.L < e /\ e < d => outcome[e] # "none"
         /\ outcome' = [outcome EXCEPT ![d] = "flying"] /\ open' = open \cup {d}
         /\ leg' = [leg EXCEPT ![d] = [r \in Replicas |-> IF up[r] THEN "wire" ELSE "down"]]
         /\ hdr' = [hdr EXCEPT ![d] = F]
    BY Zenon DEF Write
  <1>3. UNCHANGED <<rep, up, term, sess, acked, late, round, login, excluded, missed>>
    BY Zenon DEF Write, faultVars
  <1>4. TypeOK'
    BY <1>2, <1>3, ZenonT(30) DEF TypeOK, Outcomes, LegStates, Contracts, FrontierContract
  <1>5. AllMarked' /\ Exclusive' /\ Terms' /\ AckedHeld' /\ IndexNewest'
    BY <1>1, <1>3, Zenon DEF AllMarked, Exclusive, Terms, AckedHeld, IndexNewest, Core, Current, Scanning, Majority
  <1>a. \A e \in Slots : /\ outcome'[e] = IF e = d THEN "flying" ELSE outcome[e]
                         /\ leg'[e] = IF e = d THEN [r \in Replicas |-> IF up[r] THEN "wire" ELSE "down"] ELSE leg[e]
                         /\ hdr'[e] = IF e = d THEN F ELSE hdr[e]
    BY <1>2, Zenon DEF TypeOK
  <1>6. Ordered'
    <2>1. \A e \in Slots : outcome'[e] # "none" => e > sess.L /\ sess.term > 0
      BY <1>1, <1>2, <1>a, ZenonT(30) DEF Ordered
    <2>2. \A e \in Slots : outcome'[e] = "none" => e \notin open' /\ \A r \in Replicas : leg'[e][r] = "none"
      <3> SUFFICES ASSUME NEW e \in Slots, outcome'[e] = "none"
                   PROVE  e \notin open' /\ \A r \in Replicas : leg'[e][r] = "none"
        BY Zenon
      <3>1. e # d /\ outcome[e] = "none"
        BY <1>a, Zenon
      <3>2. e \notin open /\ \A r \in Replicas : leg[e][r] = "none"
        BY <3>1, Zenon DEF Ordered
      <3>3. leg'[e] = leg[e]
        BY <1>a, <3>1, Zenon
      <3>4. e \notin open'
        BY <1>2, <3>1, <3>2, Zenon
      <3> QED BY <3>2, <3>3, <3>4, Zenon
    <2>3. \A c, e \in Slots : sess.L < e /\ e < c /\ outcome'[c] # "none" => outcome'[e] # "none"
      <3> SUFFICES ASSUME NEW c \in Slots, NEW e \in Slots, sess.L < e, e < c, outcome'[c] # "none"
                   PROVE  outcome'[e] # "none"
        BY Zenon
      <3>1. outcome[e] # "none"
        <4>1. CASE c = d
          BY <1>2, <4>1, Zenon
        <4>2. CASE c # d
          BY <1>a, <4>2, Zenon DEF Ordered
        <4> QED BY <4>1, <4>2, Zenon
      <3> QED BY <1>a, <3>1, Zenon
    <2>4. \A e \in Slots : outcome'[e] = "acked" => outcome[e] = "acked"
      BY <1>a, Zenon
    <2> QED BY <1>3, <2>1, <2>2, <2>3, <2>4, Zenon DEF Ordered
  <1>7. Headers'
    <2>1. \A m \in late : m.term = sess.term => m.slot # d
      BY <1>2, Zenon DEF TypeOK, Headers, Ordered
    <2>2. \A e \in Slots : sess.L < e /\ e <= F => outcome[e] \in Resolved
      BY Zenon DEF Contracts, FrontierContract
    <2>3. \A e \in Slots : outcome[e] \in Resolved => outcome'[e] \in Resolved
      BY <1>2, <1>a, Zenon DEF Resolved
    <2>4. \A c, e \in Slots : sess.L < e /\ e <= hdr'[c] => outcome'[e] \in Resolved
      BY <1>a, <2>2, <2>3, Zenon DEF Headers
    <2>5. \A m \in late : m.slot \in Slots
      BY Zenon DEF TypeOK
    <2>6. \A m \in late : m.term = sess.term => leg'[m.slot][m.to] = "timeout"
      BY <1>a, <2>1, <2>5, Zenon DEF Headers
    <2> QED BY <1>3, <2>3, <2>4, <2>6, Zenon DEF Headers
  <1>8. OneWriter' /\ LegsTell' /\ Verdicts'
    <2>1. OneWriter'
      BY <1>3, <1>a, OneWriterSame, Zenon
    <2>2. \A e \in Slots, r \in Replicas : leg'[e][r] \in {"acked", "refused"} => leg'[e][r] = leg[e][r]
      BY <1>a, Zenon
    <2>3. LegsTell'
      BY <1>3, <2>2, ZenonT(30) DEF LegsTell
    <2>4. Verdicts'
      BY <1>1, <1>3, Zenon DEF Verdicts, Scanning
    <2> QED BY <2>1, <2>3, <2>4, Zenon
  <1>9. Tombstones'
    BY <1>2, <1>3, TombstonesKept, Zenon DEF TypeOK, Core
  <1>10. AppliedIsDecided'
    BY <1>1, <1>2, <1>3, Zenon DEF TypeOK, AppliedIsDecided, Resolved
  <1>11. Refusals'
    <2>1. \A r \in Current : ~Holds(rep[r], d)
      <3>1. \A r \in Current : rep[r].journal[d] = Missing
        BY <1>1, <1>2, Zenon DEF OneWriter
      <3> QED BY <3>1, CellFacts, Zenon DEF Holds
    <2>2. \A e \in Slots, r \in Current :
            leg'[e][r] \in {"wire", "down"} /\ outcome'[e] = "flying" /\ Holds(rep[r], e) =>
               round.pc # "idle" /\ e <= round.upto
      BY <1>a, <2>1, Zenon DEF Refusals
    <2>3. \A e \in Slots : outcome'[e] = "empty" =>
            \/ rep[Leader].journal[e] = Empty
            \/ \A r \in Current : ~Holds(rep[r], e) /\ leg'[e][r] \notin {"wire", "timeout"}
      BY <1>a, Zenon DEF Refusals
    <2>4. Current' = Current /\ UNCHANGED <<rep, round>>
      BY <1>3, Zenon DEF Current
    <2> QED BY <2>2, <2>3, <2>4, Zenon DEF Refusals
  <1> QED BY <1>4, <1>5, <1>6, <1>7, <1>8, <1>9, <1>10, <1>11, Zenon

\* A dropped leg: the member provably does not get the write.
LEMMA DropStep ==
    ASSUME NEW d \in Slots, NEW r \in Replicas
    PROVE  OneQueue /\ IInv /\ Drop(d, r) => IInv'
  <1> SUFFICES ASSUME OneQueue, Parts, Drop(d, r) PROVE Parts'
    BY Zenon DEF IInv
  <1> USE DEF Parts
  <1>1. /\ round.pc = "idle" /\ login.pc = "idle" /\ leg[d][r] = "wire"
        /\ leg' = [leg EXCEPT ![d][r] = "down"]
        /\ UNCHANGED <<rep, up, term, sess, outcome, open, hdr, acked, late, round, login, excluded, missed>>
    BY Idle, Zenon DEF Drop
  <1>2. TypeOK'
    BY <1>1, Zenon DEF TypeOK, LegStates
  <1>3. /\ AllMarked' /\ Exclusive' /\ Terms' /\ AckedHeld' /\ IndexNewest'
        /\ Verdicts' /\ AppliedIsDecided'
    BY <1>1, Zenon DEF AllMarked, Exclusive, Terms, AckedHeld, IndexNewest, Core, Current, Scanning, Majority,
         Verdicts, AppliedIsDecided
  <1>4. \A e \in Slots, q \in Replicas : leg'[e][q] = IF e = d /\ q = r THEN "down" ELSE leg[e][q]
    BY <1>1, Zenon DEF TypeOK
  <1>5. outcome[d] # "none"
    BY <1>1, Zenon DEF Ordered
  <1>6. Ordered' /\ LegsTell'
    <2>1. \A e \in Slots : outcome[e] = "none" => \A q \in Replicas : leg'[e][q] = "none"
      <3> SUFFICES ASSUME NEW e \in Slots, outcome[e] = "none", NEW q \in Replicas PROVE leg'[e][q] = "none"
        BY Zenon
      <3>1. leg[e][q] = "none" /\ e # d
        BY <1>5, Zenon DEF Ordered
      <3> QED BY <1>4, <3>1, Zenon
    <2>2. \A e \in Slots, q \in Replicas : leg'[e][q] \in {"acked", "refused"} => leg'[e][q] = leg[e][q]
      BY <1>4, Zenon
    <2>3. Ordered'
      BY <1>1, <2>1, Zenon DEF Ordered
    <2>4. LegsTell'
      BY <1>1, <2>2, ZenonT(30) DEF LegsTell
    <2> QED BY <2>3, <2>4, Zenon
  <1>7. Headers'
    <2>1. \A m \in late : m.slot \in Slots /\ m.to \in Replicas
      BY LateMessage, Zenon
    <2>2. \A m \in late : m.term = sess.term => leg'[m.slot][m.to] = "timeout"
      <3> SUFFICES ASSUME NEW m \in late, m.term = sess.term PROVE leg'[m.slot][m.to] = "timeout"
        BY Zenon
      <3>1. leg[m.slot][m.to] = "timeout"
        BY Zenon DEF Headers
      <3>2. ~(m.slot = d /\ m.to = r)
        BY <1>1, <3>1, Zenon
      <3> QED BY <1>4, <2>1, <3>1, <3>2, Zenon
    <2> QED BY <1>1, <2>2, Zenon DEF Headers
  <1>8. OneWriter'
    BY <1>1, OneWriterSame, Zenon
  <1>9. Refusals'
    <2>1. \A e \in Slots, q \in Replicas :
            /\ leg'[e][q] \in {"wire", "down"} => leg[e][q] \in {"wire", "down"}
            /\ leg'[e][q] \in {"wire", "timeout"} => leg[e][q] \in {"wire", "timeout"}
      BY <1>1, <1>4, ZenonT(30)
    <2> QED BY <1>1, <2>1, RefusalsSame, Zenon
  <1>10. Tombstones'
    <2>1. \A e \in Slots, q \in Replicas : leg'[e][q] = "acked" => leg[e][q] = "acked"
      BY <1>4, Zenon
    <2> QED BY <1>1, <2>1, TombstonesKept, Zenon DEF Core
  <1> QED BY <1>2, <1>3, <1>6, <1>7, <1>8, <1>9, <1>10, Zenon

\* A leg past its deadline: its write goes on, with the session's term and the header's commit_lsn.
LEMMA TimeOutStep ==
    ASSUME NEW d \in Slots, NEW r \in Replicas
    PROVE  OneQueue /\ IInv /\ TimeOut(d, r) => IInv'
  <1> SUFFICES ASSUME OneQueue, Parts, TimeOut(d, r) PROVE Parts'
    BY Zenon DEF IInv
  <1> USE DEF Parts
  <1>1. /\ round.pc = "idle" /\ login.pc = "idle" /\ leg[d][r] = "wire"
        /\ leg' = [leg EXCEPT ![d][r] = "timeout"] /\ late' = late \cup {Message(d, r)}
        /\ UNCHANGED <<rep, up, term, sess, outcome, open, hdr, acked, round, login, excluded, missed>>
    BY Idle, Zenon DEF TimeOut
  <1>2. /\ Message(d, r) \in [to : Replicas, slot : Slots, term : Nat, commit : Marks]
        /\ Message(d, r).to = r /\ Message(d, r).slot = d
        /\ Message(d, r).term = sess.term /\ Message(d, r).commit = hdr[d]
    BY Zenon DEF Message, TypeOK
  <1>3. TypeOK'
    BY <1>1, <1>2, Zenon DEF TypeOK, LegStates
  <1>4. /\ AllMarked' /\ Exclusive' /\ Terms' /\ AckedHeld' /\ IndexNewest'
        /\ Verdicts' /\ AppliedIsDecided'
    BY <1>1, Zenon DEF AllMarked, Exclusive, Terms, AckedHeld, IndexNewest, Core, Current, Scanning, Majority,
         Verdicts, AppliedIsDecided
  <1>5. \A e \in Slots, q \in Replicas : leg'[e][q] = IF e = d /\ q = r THEN "timeout" ELSE leg[e][q]
    BY <1>1, Zenon DEF TypeOK
  <1>6. outcome[d] # "none" /\ d > sess.L /\ sess.term > 0 /\ sess.term = term
    <2>1. outcome[d] # "none"
      BY <1>1, Zenon DEF Ordered
    <2> QED BY <1>1, <2>1, SessionTerm, Zenon
  <1>7. Ordered' /\ LegsTell'
    <2>1. \A e \in Slots : outcome[e] = "none" => \A q \in Replicas : leg'[e][q] = "none"
      <3> SUFFICES ASSUME NEW e \in Slots, outcome[e] = "none", NEW q \in Replicas PROVE leg'[e][q] = "none"
        BY Zenon
      <3>1. leg[e][q] = "none" /\ e # d
        BY <1>6, Zenon DEF Ordered
      <3> QED BY <1>5, <3>1, Zenon
    <2>2. \A e \in Slots, q \in Replicas : leg'[e][q] \in {"acked", "refused"} => leg'[e][q] = leg[e][q]
      BY <1>5, Zenon
    <2>3. Ordered'
      BY <1>1, <2>1, Zenon DEF Ordered
    <2>4. LegsTell'
      BY <1>1, <2>2, ZenonT(30) DEF LegsTell
    <2> QED BY <2>3, <2>4, Zenon
  <1>8. Headers'
    <2>1. \A m \in late : m.slot \in Slots /\ m.to \in Replicas
      BY LateMessage, Zenon
    <2>2. \A m \in late' : m \in late \/ m = Message(d, r)
      BY <1>1, Zenon
    <2>3. \A m \in late' : m.term > 0 /\ m.term <= term
      <3>1. sess.term <= term
        BY Zenon DEF Terms
      <3> QED BY <1>2, <1>6, <2>2, <3>1, Zenon DEF Headers
    <2>4. \A m \in late' : m.term = sess.term => leg'[m.slot][m.to] = "timeout"
      <3> SUFFICES ASSUME NEW m \in late', m.term = sess.term PROVE leg'[m.slot][m.to] = "timeout"
        BY Zenon
      <3>1. CASE m \in late
        <4>1. leg[m.slot][m.to] = "timeout"
          BY <3>1, Zenon DEF Headers
        <4> QED BY <1>5, <2>1, <3>1, <4>1, Zenon
      <3>2. CASE m = Message(d, r)
        BY <1>2, <1>5, <3>2, Zenon
      <3> QED BY <2>2, <3>1, <3>2, Zenon
    <2>5. \A m \in late', e \in Slots :
            sess.term = m.term /\ sess.L < e /\ e <= m.commit => outcome[e] \in Resolved
      BY <1>2, <2>2, Zenon DEF Headers
    <2>6. \A c, e \in Slots : sess.L < e /\ e <= hdr[c] => outcome[e] \in Resolved
      BY Zenon DEF Headers
    <2> QED BY <1>1, <2>3, <2>4, <2>5, <2>6, Zenon DEF Headers
  <1>9. OneWriter'
    <2>1. \A x \in Current, e \in Slots : sess.term > 0 /\ e > sess.L =>
            rep[x].journal[e] \in (IF outcome[e] = "none" THEN {Missing} ELSE {Missing, Empty, sess.term})
      BY Zenon DEF OneWriter
    <2>2. \A x \in Current, m \in late' : m.term = term => rep[x].journal[m.slot] \in {Missing, Empty, m.term}
      <3> SUFFICES ASSUME NEW x \in Current, NEW m \in late', m.term = term
                   PROVE  rep[x].journal[m.slot] \in {Missing, Empty, m.term}
        BY Zenon
      <3>1. CASE m \in late
        BY <3>1, Zenon DEF OneWriter
      <3>2. CASE m = Message(d, r)
        BY <1>2, <1>6, <2>1, <3>2, Zenon
      <3> QED BY <1>1, <3>1, <3>2, Zenon
    <2> QED BY <1>1, <2>1, <2>2, OneWriterStays, Zenon
  <1>10. Refusals'
    <2>1. \A e \in Slots, q \in Replicas :
            /\ leg'[e][q] \in {"wire", "down"} => leg[e][q] \in {"wire", "down"}
            /\ leg'[e][q] \in {"wire", "timeout"} => leg[e][q] \in {"wire", "timeout"}
      BY <1>1, <1>5, Zenon
    <2> QED BY <1>1, <2>1, RefusalsSame, Zenon
  <1>11. Tombstones'
    <2>1. \A e \in Slots, q \in Replicas : leg'[e][q] = "acked" => leg[e][q] = "acked"
      BY <1>5, Zenon
    <2> QED BY <1>1, <2>1, TombstonesKept, Zenon DEF Core
  <1> QED BY <1>3, <1>4, <1>7, <1>8, <1>9, <1>10, <1>11, Zenon

\* Replicas that acknowledged a write by its legs hold it, if they are a quorum: a tombstone would be on
\* a quorum that never acknowledged it.
LEMMA AckQuorumHolds ==
    ASSUME NEW d \in Slots
    PROVE  Contracts /\ Parts /\ Cardinality(Acks(d)) >= Quorum
             => Cardinality({r \in Replicas : rep[r].journal[d] = sess.term}) >= Quorum
  <1> SUFFICES ASSUME Contracts, Parts, Cardinality(Acks(d)) >= Quorum
               PROVE  Cardinality({r \in Replicas : rep[r].journal[d] = sess.term}) >= Quorum
    BY Zenon
  <1>1. Majority(Acks(d))
    BY Zenon DEF Majority, Acks
  <1>2. ASSUME NEW x \in Replicas, rep[x].journal[d] = Empty PROVE FALSE
    <2>1. PICK Q \in SUBSET Replicas : Majority(Q) /\ \A q \in Q : leg[d][q] # "acked"
      BY <1>2, Zenon DEF Parts, Tombstones
    <2>2. PICK q \in Replicas : q \in Acks(d) /\ q \in Q
      <3>1. Acks(d) \in SUBSET Replicas
        BY Zenon DEF Acks
      <3> QED BY <1>1, <2>1, <3>1, Zenon DEF Contracts, QuorumContract
    <2> QED BY <2>1, <2>2, Zenon DEF Acks
  <1>3. Acks(d) \subseteq {r \in Replicas : rep[r].journal[d] = sess.term}
    BY <1>2, Zenon DEF Parts, LegsTell, Acks
  <1>4. Majority({r \in Replicas : rep[r].journal[d] = sess.term})
    BY <1>1, <1>3, Zenon DEF Contracts, QuorumContract
  <1> QED BY <1>4, Zenon DEF Majority

\* The end of a write: acknowledged by a quorum of legs, refused by every member, or failed.
LEMMA WriteDoneStep ==
    ASSUME NEW d \in Slots
    PROVE  Contracts /\ OneQueue /\ IInv /\ WriteDone(d) => IInv'
  <1> SUFFICES ASSUME Contracts, OneQueue, Parts, WriteDone(d) PROVE Parts'
    BY Zenon DEF IInv
  <1> USE DEF Parts
  <1>1. /\ round.pc = "idle" /\ login.pc = "idle" /\ d \in open /\ open' = open \ {d}
        /\ UNCHANGED <<rep, up, term, sess, leg, hdr, late, round, login, excluded, missed>>
    BY Idle, Zenon DEF WriteDone, faultVars
  <1>2. outcome[d] # "none" /\ d > sess.L /\ sess.term > 0
    BY <1>1, Zenon DEF Ordered
  <1>3. \E o \in {"acked", "empty", "failed"} :
          /\ outcome' = [outcome EXCEPT ![d] = IF @ = "flying" THEN o ELSE @]
          /\ \/ /\ o = "acked" /\ Cardinality(Acks(d)) >= Quorum
                /\ acked' = acked \cup {[slot |-> d, term |-> sess.term]}
             \/ o = "empty" /\ Refused(d) = Replicas /\ acked' = acked
             \/ o = "failed" /\ acked' = acked
    <2>1. CASE /\ Cardinality(Acks(d)) >= Quorum
               /\ outcome' = [outcome EXCEPT ![d] = IF @ = "flying" THEN "acked" ELSE @]
               /\ acked' = acked \cup {[slot |-> d, term |-> sess.term]}
      BY <2>1, Zenon
    <2>2. CASE /\ outcome' = [outcome EXCEPT ![d] = IF @ # "flying" THEN @
                                               ELSE IF Refused(d) = Replicas THEN "empty" ELSE "failed"]
               /\ acked' = acked
      <3>1. CASE Refused(d) = Replicas
        <4>1. outcome' = [outcome EXCEPT ![d] = IF @ = "flying" THEN "empty" ELSE @]
          BY <2>2, <3>1, Zenon
        <4> QED BY <2>2, <3>1, <4>1, Zenon
      <3>2. CASE Refused(d) # Replicas
        <4>1. outcome' = [outcome EXCEPT ![d] = IF @ = "flying" THEN "failed" ELSE @]
          BY <2>2, <3>2, Zenon
        <4> QED BY <2>2, <3>2, <4>1, Zenon
      <3> QED BY <3>1, <3>2, Zenon
    <2> QED BY <2>1, <2>2, Zenon DEF WriteDone
  <1>4. PICK o \in {"acked", "empty", "failed"} :
          /\ outcome' = [outcome EXCEPT ![d] = IF @ = "flying" THEN o ELSE @]
          /\ \/ /\ o = "acked" /\ Cardinality(Acks(d)) >= Quorum
                /\ acked' = acked \cup {[slot |-> d, term |-> sess.term]}
             \/ o = "empty" /\ Refused(d) = Replicas /\ acked' = acked
             \/ o = "failed" /\ acked' = acked
    BY <1>3, Zenon
  <1>5. \A e \in Slots : outcome'[e] = IF e = d /\ outcome[d] = "flying" THEN o ELSE outcome[e]
    BY <1>4, Zenon DEF TypeOK
  <1>a. \A x \in acked' : x \in acked \/ x = [slot |-> d, term |-> sess.term]
    BY <1>4, Zenon
  <1>6. TypeOK'
    <2>1. outcome' \in [Slots -> Outcomes]
      BY <1>4, Zenon DEF TypeOK, Outcomes
    <2>2. acked' \subseteq [slot : Slots, term : Nat]
      <3>1. acked \subseteq [slot : Slots, term : Nat] /\ [slot |-> d, term |-> sess.term] \in [slot : Slots, term : Nat]
        BY Zenon DEF TypeOK
      <3> QED BY <1>a, <3>1, Zenon
    <2> QED BY <1>1, <2>1, <2>2, Zenon DEF TypeOK
  <1>7. AllMarked' /\ Exclusive' /\ Terms' /\ IndexNewest' /\ LegsTell' /\ Verdicts'
    BY <1>1, Zenon DEF AllMarked, Exclusive, Terms, IndexNewest, Core, Current, Scanning, Majority,
         Verdicts, LegsTell
  <1>8. AckedHeld'
    <2> DEFINE a == [slot |-> d, term |-> sess.term]
    <2>1. acked' = acked \/ (acked' = acked \cup {a} /\ Cardinality(Acks(d)) >= Quorum)
      BY <1>4, Zenon
    <2>2. CASE acked' = acked
      BY <1>1, <2>2, Zenon DEF AckedHeld
    <2>3. CASE acked' = acked \cup {a} /\ Cardinality(Acks(d)) >= Quorum
      <3>1. Cardinality({r \in Replicas : rep[r].journal[d] = sess.term}) >= Quorum
        BY <2>3, AckQuorumHolds, Zenon
      <3>2. a.slot = d /\ a.term = sess.term
        BY Zenon
      <3> HIDE DEF a
      <3>3. Cardinality({r \in Replicas : rep[r].journal[a.slot] = a.term}) >= Quorum
        BY <3>1, <3>2, Zenon
      <3> QED BY <1>1, <2>3, <3>3, Zenon DEF AckedHeld
    <2> QED BY <2>1, <2>2, <2>3, Zenon
  <1>9. Ordered'
    <2>1. \A e \in Slots : outcome'[e] = "none" <=> outcome[e] = "none"
      BY <1>2, <1>5, Zenon
    <2>2. \A e \in Slots : outcome'[e] = "acked" => [slot |-> e, term |-> sess.term] \in acked'
      <3> SUFFICES ASSUME NEW e \in Slots, outcome'[e] = "acked" PROVE [slot |-> e, term |-> sess.term] \in acked'
        BY Zenon
      <3>1. acked \subseteq acked'
        BY <1>4, Zenon
      <3>2. CASE outcome[e] = "acked"
        BY <3>1, <3>2, Zenon DEF Ordered
      <3>3. CASE outcome[e] # "acked"
        <4>1. e = d /\ o = "acked"
          BY <1>5, <3>3, Zenon
        <4> QED BY <1>4, <4>1, Zenon
      <3> QED BY <3>2, <3>3, Zenon
    <2>3. \A x \in acked' : x.term > 0
      <3>1. [slot |-> d, term |-> sess.term].term > 0 /\ \A x \in acked : x.term > 0
        BY <1>2, Zenon DEF Ordered
      <3> QED BY <1>a, <3>1, Zenon
    <2> QED BY <1>1, <2>1, <2>2, <2>3, Zenon DEF Ordered
  <1>10. Headers'
    BY <1>1, <1>5, Zenon DEF Headers, Resolved
  <1>11. OneWriter'
    BY <1>1, <1>2, <1>5, OneWriterSame, Zenon
  <1>12. AppliedIsDecided'
    BY <1>1, <1>5, Zenon DEF AppliedIsDecided, Resolved
  <1>13. Refusals'
    <2>1. \A e \in Slots, r \in Current :
             leg[e][r] \in {"wire", "down"} /\ outcome'[e] = "flying" /\ Holds(rep[r], e) =>
                round.pc # "idle" /\ e <= round.upto
      BY <1>5, Zenon DEF Refusals
    <2>2. o = "empty" => \A r \in Replicas : leg[d][r] \in {"down", "refused"}
      BY <1>4, Zenon DEF Refused
    <2>3. o = "empty" /\ outcome[d] = "flying"
            => \A r \in Current : ~Holds(rep[r], d) /\ leg[d][r] \notin {"wire", "timeout"}
      <3> SUFFICES ASSUME o = "empty", outcome[d] = "flying", NEW r \in Current
                   PROVE  ~Holds(rep[r], d) /\ leg[d][r] \notin {"wire", "timeout"}
        BY Zenon
      <3>1. leg[d][r] \in {"down", "refused"} /\ r \in Replicas
        BY <2>2, Zenon DEF Current
      <3>2. CASE leg[d][r] = "down"
        BY <1>1, <3>2, Zenon DEF Refusals
      <3>3. CASE leg[d][r] = "refused"
        BY <3>1, <3>3, CellFacts, Zenon DEF LegsTell, Holds
      <3> QED BY <3>1, <3>2, <3>3, Zenon
    <2> QED BY <1>1, <1>5, <2>1, <2>3, Zenon DEF Refusals, Current
  <1>14. Tombstones'
    BY <1>1, TombstonesKept, Zenon DEF Core
  <1> QED BY <1>6, <1>7, <1>8, <1>9, <1>10, <1>11, <1>12, <1>13, <1>14, Zenon

\* A replica goes down, or one that missed no login comes back: only reachability changes.
LEMMA UpDownStep ==
    ASSUME NEW r \in Replicas
    PROVE  OneQueue /\ ~StaleReturns /\ IInv /\ (GoDown(r) \/ ComeUp(r)) => IInv'
  <1> SUFFICES ASSUME OneQueue, ~StaleReturns, Parts, GoDown(r) \/ ComeUp(r) PROVE Parts'
    BY Zenon DEF IInv
  <1> USE DEF Parts
  <1>1. /\ round.pc = "idle" /\ login.pc = "idle"
        /\ up' = [up EXCEPT ![r] = FALSE] \/ (r \notin missed /\ up' = [up EXCEPT ![r] = TRUE])
        /\ UNCHANGED <<rep, term, sess, outcome, open, leg, hdr, acked, late, round, login, excluded, missed>>
    BY Idle, Zenon DEF GoDown, ComeUp, clientVars, faultVars
  <1>2. TypeOK' /\ Terms'
    BY <1>1, Zenon DEF TypeOK, Terms, Current
  <1>3. AllMarked' /\ Exclusive' /\ IndexNewest' /\ LegsTell' /\ Verdicts' /\ AckedHeld' /\ AppliedIsDecided'
    BY <1>1, ZenonT(30) DEF AllMarked, Exclusive, IndexNewest, Core, Current, Scanning, Majority,
         Verdicts, LegsTell, AckedHeld, AppliedIsDecided
  <1>4. Ordered' /\ Headers'
    BY <1>1, Zenon DEF Ordered, Headers
  <1>5. OneWriter' /\ Refusals'
    <2>1. OneWriter'
      BY <1>1, OneWriterSame, Zenon
    <2>2. Refusals'
      BY <1>1, RefusalsSame, Zenon
    <2> QED BY <2>1, <2>2, Zenon
  <1>6. Tombstones'
    BY <1>1, TombstonesKept, Zenon DEF Core
  <1> QED BY <1>2, <1>3, <1>4, <1>5, <1>6, Zenon
-----------------------------------------------------------------------------
\* run_resolution() starts: below the lowest applied index of the live set nothing is unresolved,
\* because the leader has applied it.
LEMMA RoundBeginStep == Contracts /\ OneQueue /\ IInv /\ RoundBegin => IInv'
  <1> SUFFICES ASSUME Contracts, OneQueue, Parts, RoundBegin PROVE Parts'
    BY Zenon DEF IInv
  <1> USE DEF Parts
  <1> DEFINE floor == Min({rep[r].commit : r \in Live})
  <1>1. /\ round.pc = "idle" /\ login.pc = "idle" /\ Want >= 0
        /\ up[Leader] /\ rep[Leader].term = sess.term /\ term = sess.term /\ Cardinality(Live) >= Quorum
        /\ excluded' = excluded \cup (Replicas \ Live)
        /\ UNCHANGED <<rep, up, term, sess, outcome, open, leg, hdr, acked, late, login, missed>>
    BY Idle, Zenon DEF RoundBegin, clientVars
  <1>2. round' = [NoRound EXCEPT !.pc = NextScan(floor + 1, Want), !.term = sess.term,
                                 !.upto = Want, !.live = Live, !.d = floor + 1]
    BY Zenon DEF RoundBegin
  <1>3. floor \in Marks /\ \A r \in Live : floor <= rep[r].commit
    BY <1>1, Zenon DEF Contracts, LiveContract
  <1> HIDE DEF floor
  <1>4. /\ Want \in Slots /\ Want \in Marks /\ outcome[Want] = "failed" /\ sess.term > 0
    BY <1>1, Zenon DEF Ordered, Contracts, WantContract
  <1>5. /\ round'.pc = (IF floor + 1 <= Want THEN "peek" ELSE "sync")
        /\ round'.term = sess.term /\ round'.upto = Want /\ round'.live = Live /\ round'.d = floor + 1
        /\ round'.verdict = Missing /\ round'.empties = {}
        /\ round' = [pc |-> round'.pc, term |-> round'.term, upto |-> round'.upto, live |-> round'.live,
                     d |-> round'.d, verdict |-> round'.verdict, empties |-> round'.empties]
    BY <1>2, Zenon DEF NoRound, NextScan
  <1>6. Live \subseteq Replicas /\ Leader \in Live /\ Live \cap missed = {} /\ Majority(Live)
    BY <1>1, ClusterAssumption, Zenon DEF Live, Terms, Majority
  <1>a. floor + 1 \in Nat \cup {-1} /\ floor + 1 \in Int /\ floor + 1 >= 0 /\ floor \in Int
    BY <1>3, AfterMark, Zenon
  <1>7. TypeOK'
    <2>1. floor + 1 \in Nat \cup {-1}
      BY <1>a, Zenon
    <2>2. round' \in [pc : {"idle", "peek", "mark", "sync", "reply"}, term : Nat, upto : Marks,
                  live : SUBSET Replicas, d : Nat \cup {-1}, verdict : Cells, empties : SUBSET Slots]
      BY <1>4, <1>5, <1>6, <2>1, Zenon DEF TypeOK, Cells
    <2> QED BY <1>1, <2>2, Zenon DEF TypeOK
  <1>8. Exclusive'
    <2>1. Core' \subseteq Live /\ Majority(Live)
      BY <1>1, <1>6, Zenon DEF Core
    <2>2. floor + 1 <= Want \/ floor + 1 > Want
      BY <1>4, <1>a, MarkFacts, Zenon
    <2>3. /\ round'.pc # "sync" => round'.d <= round'.upto
          /\ round'.pc = "sync" => round'.d > round'.upto
          /\ round'.pc \in {"peek", "sync"}
      BY <1>5, <2>2, Zenon
    <2> QED BY <1>1, <1>4, <1>5, <1>6, <1>a, <2>1, <2>3, Zenon DEF Exclusive, Scanning, Majority
  <1>9. AllMarked' /\ Terms' /\ AckedHeld' /\ LegsTell'
    BY <1>1, Zenon DEF AllMarked, Terms, AckedHeld, LegsTell, Current
  <1>10. Ordered' /\ Headers'
    BY <1>1, Zenon DEF Ordered, Headers
  <1>11. OneWriter' /\ Refusals'
    <2>1. OneWriter'
      BY <1>1, OneWriterSame, Zenon
    <2>2. Refusals'
      BY <1>1, RefusalsSame, Zenon
    <2> QED BY <2>1, <2>2, Zenon
  <1>12. Tombstones' /\ IndexNewest'
    BY <1>1, TombstonesKept, Zenon DEF IndexNewest, Core
  <1>13. AppliedIsDecided'
    BY <1>1, <1>5, Zenon DEF AppliedIsDecided
  <1>14. Verdicts'
    <2>1. \A e \in Slots : sess.L < e /\ e < floor + 1 => ~Pending(e)
      <3> SUFFICES ASSUME NEW e \in Slots, sess.L < e, e < floor + 1 PROVE ~Pending(e)
        BY Zenon
      <3>1. e <= rep[Leader].commit /\ Leader \in Replicas
        <4>1. Leader \in Replicas /\ floor <= rep[Leader].commit
          BY <1>3, <1>6, Zenon
        <4>2. e \in Int /\ rep[Leader].commit \in Int
          BY <4>1, ReplicaFacts, MarkFacts, Zenon
        <4>3. e <= floor
          BY <1>a, <4>2, AfterMark, Zenon
        <4> HIDE DEF Parts
        <4> QED BY <1>a, <4>1, <4>2, <4>3, MarkFacts, Zenon
      <3>2. outcome[e] \in Resolved
        BY <1>1, <3>1, Zenon DEF AppliedIsDecided
      <3> QED BY <3>2, Zenon DEF Resolved, Pending
    <2> QED BY <1>1, <1>5, <2>1, Zenon DEF Verdicts, Scanning, Pending
  <1> QED BY <1>7, <1>8, <1>9, <1>10, <1>11, <1>12, <1>13, <1>14, Zenon

\* The peek: the verdict is a tombstone some live member has, an absence all of them agree on, or a copy.
LEMMA RoundPeekStep == IInv /\ RoundPeek => IInv'
  <1> SUFFICES ASSUME Parts, RoundPeek PROVE Parts'
    BY Zenon DEF IInv
  <1> USE DEF Parts
  <1> DEFINE seen == {rep[r].journal[round.d] : r \in round.live}
  <1>1. /\ round.pc = "peek"
        /\ UNCHANGED <<rep, up, term, sess, outcome, open, leg, hdr, acked, late, login, missed, excluded>>
    BY Zenon DEF RoundPeek, clientVars, faultVars
  <1>2. /\ round.d \in Slots /\ round.live \subseteq Replicas /\ Leader \in round.live
    <2>1. /\ Majority(round.live) /\ Leader \in round.live /\ round.d >= 0 /\ round.d <= round.upto
          /\ round.upto \in Slots
      BY <1>1, Zenon DEF Exclusive, Scanning
    <2> QED BY <2>1, ScanFacts, Zenon DEF Majority
  <1>3. PICK v : /\ round' = [round EXCEPT !.pc = "mark", !.verdict = v]
                 /\ \/ v = Empty /\ (Empty \in seen \/ seen = {Missing})
                    \/ v \in seen \ {Missing} /\ Empty \notin seen
    <2>1. CASE Empty \in seen \/ seen = {Missing}
      BY <2>1, Zenon DEF RoundPeek
    <2>2. CASE ~(Empty \in seen \/ seen = {Missing})
      BY <2>2, Zenon DEF RoundPeek
    <2> QED BY <2>1, <2>2, Zenon
  <1>4. /\ v \in Cells /\ v # Missing
        /\ IF v = Empty
           THEN \/ \E r \in round.live : rep[r].journal[round.d] = Empty
                \/ \A r \in round.live : rep[r].journal[round.d] = Missing
           ELSE /\ \A r \in round.live : rep[r].journal[round.d] # Empty
                /\ \E r \in round.live : Holds(rep[r], round.d) /\ rep[r].journal[round.d] = v
    <2>1. \A r \in round.live : rep[r].journal[round.d] \in Cells
      BY <1>2, ReplicaFacts, Zenon
    <2>2. CASE v = Empty /\ (Empty \in seen \/ seen = {Missing})
      <3>1. seen = {Missing} => \A r \in round.live : rep[r].journal[round.d] = Missing
        BY Zenon
      <3>2. Empty \in seen => \E r \in round.live : rep[r].journal[round.d] = Empty
        BY Zenon
      <3>3. Empty \in Cells /\ Empty # Missing
        BY CellFacts, Zenon
      <3> QED BY <2>2, <3>1, <3>2, <3>3, Zenon
    <2>3. CASE v \in seen \ {Missing} /\ Empty \notin seen
      <3>1. PICK r \in round.live : rep[r].journal[round.d] = v
        BY <2>3, Zenon
      <3>2. v \in Cells /\ v # Missing /\ v # Empty /\ v > 0
        <4>1. v \in Cells /\ v # Missing /\ v # Empty
          BY <2>1, <2>3, <3>1, Zenon
        <4> QED BY <4>1, CellFacts, Zenon
      <3> QED BY <2>3, <3>1, <3>2, Zenon DEF Holds
    <2> QED BY <1>3, <2>2, <2>3, Zenon
  <1>5. /\ round'.pc = "mark" /\ round'.verdict = v
        /\ round'.term = round.term /\ round'.upto = round.upto /\ round'.live = round.live
        /\ round'.d = round.d /\ round'.empties = round.empties
    BY <1>3, Zenon DEF TypeOK
  <1>6. TypeOK'
    BY <1>1, <1>3, <1>4, Zenon DEF TypeOK
  <1>7. Exclusive'
    BY <1>1, <1>5, Zenon DEF Exclusive, Scanning, Core, Current, Majority
  <1>8. AllMarked' /\ Terms' /\ AckedHeld' /\ LegsTell' /\ IndexNewest'
    BY <1>1, Zenon DEF AllMarked, Terms, AckedHeld, LegsTell, Current, IndexNewest, Core
  <1>9. Ordered' /\ Headers'
    BY <1>1, Zenon DEF Ordered, Headers
  <1>10. OneWriter' /\ Refusals'
    <2>1. OneWriter'
      BY <1>1, OneWriterSame, Zenon
    <2>2. round'.pc # "idle" /\ round'.upto = round.upto
      BY <1>5, Zenon
    <2>3. Refusals'
      BY <1>1, <2>2, RefusalsSame, Zenon
    <2> QED BY <2>1, <2>3, Zenon
  <1>11. Tombstones' /\ AppliedIsDecided'
    BY <1>1, <1>5, TombstonesKept, Zenon DEF Core, AppliedIsDecided
  <1>12. Verdicts'
    BY <1>1, <1>4, <1>5, ZenonT(30) DEF Verdicts, Scanning, Pending
  <1> QED BY <1>6, <1>7, <1>8, <1>9, <1>10, <1>11, <1>12, Zenon

\* retire_upto(): every unresolved slot up to the want takes the round's verdict, and a filled slot is
\* on a quorum.
LEMMA RoundReplyStep == IInv /\ RoundReply => IInv'
  <1> SUFFICES ASSUME Parts, RoundReply PROVE Parts'
    BY Zenon DEF IInv
  <1> USE DEF Parts
  <1> DEFINE pending == {d \in Slots : /\ d <= round.upto /\ round.term = sess.term
                                       /\ outcome[d] \in {"flying", "failed"}}
             filled == pending \ round.empties
  <1>1. /\ round.pc = "reply" /\ login.pc = "idle" /\ round' = NoRound
        /\ round.term = sess.term /\ sess.term = term /\ sess.term > 0 /\ round.upto \in Slots
        /\ outcome[round.upto] = "failed"
        /\ UNCHANGED <<rep, up, term, sess, open, leg, hdr, late, login, missed, excluded>>
    BY Zenon DEF RoundReply, faultVars, Exclusive
  <1>2. /\ outcome' = [d \in Slots |-> IF d \in filled THEN "acked"
                                       ELSE IF d \in pending THEN "empty" ELSE outcome[d]]
        /\ acked' = acked \cup {[slot |-> d, term |-> sess.term] : d \in filled}
    BY Zenon DEF RoundReply
  <1>3. \A d \in Slots : d \in pending <=> d <= round.upto /\ Pending(d)
    BY <1>1, Zenon DEF Pending
  <1>4. pending \subseteq Slots /\ filled \subseteq pending
        /\ \A d \in pending : d \notin filled <=> d \in round.empties
    BY Zenon
  <1>5. \A d \in Slots : outcome'[d] = IF d \in filled THEN "acked"
                                       ELSE IF d \in pending THEN "empty" ELSE outcome[d]
    BY <1>2, Zenon
  <1> HIDE DEF filled, pending
  <1>6. \A d \in pending : outcome[d] # "none" /\ d > sess.L /\ d <= round.upto /\ Pending(d)
    BY <1>3, <1>4, Zenon DEF Ordered, Pending
  <1>7. TypeOK'
    <2>1. outcome' \in [Slots -> Outcomes]
      BY <1>2, Zenon DEF TypeOK, Outcomes
    <2>2. acked' \subseteq [slot : Slots, term : Nat]
      <3>1. \A d \in filled : [slot |-> d, term |-> sess.term] \in [slot : Slots, term : Nat]
        BY <1>4, Zenon DEF TypeOK
      <3>2. acked \subseteq [slot : Slots, term : Nat]
        BY Zenon DEF TypeOK
      <3> QED BY <1>2, <3>1, <3>2, Zenon
    <2>3. round' \in [pc : {"idle", "peek", "mark", "sync", "reply"}, term : Nat, upto : Marks,
                  live : SUBSET Replicas, d : Nat \cup {-1}, verdict : Cells, empties : SUBSET Slots]
      BY <1>1, Zenon DEF NoRound, Marks, Cells
    <2> QED BY <1>1, <2>1, <2>2, <2>3, Zenon DEF TypeOK
  <1>8. Exclusive' /\ Verdicts'
    BY <1>1, Zenon DEF Exclusive, Verdicts, Scanning, NoRound
  <1>9. AllMarked' /\ Terms' /\ LegsTell' /\ IndexNewest'
    BY <1>1, Zenon DEF AllMarked, Terms, LegsTell, Current, IndexNewest, Core
  <1>10. Tombstones'
    BY <1>1, TombstonesKept, Zenon DEF Core
  <1>11. \A d \in pending : IF d \in round.empties THEN rep[Leader].journal[d] = Empty
                            ELSE Cardinality({r \in Replicas : rep[r].journal[d] = sess.term}) >= Quorum
    BY <1>1, <1>4, <1>6, Zenon DEF Verdicts
  <1>12. AckedHeld'
    <2> SUFFICES ASSUME NEW a \in acked'
                 PROVE  Cardinality({r \in Replicas : rep[r].journal[a.slot] = a.term}) >= Quorum
      BY <1>1, Zenon DEF AckedHeld
    <2>1. CASE a \in acked
      BY <2>1, Zenon DEF AckedHeld
    <2>2. CASE \E d \in filled : a = [slot |-> d, term |-> sess.term]
      <3>1. PICK d \in filled : a = [slot |-> d, term |-> sess.term]
        BY <2>2, Zenon
      <3>2. a.slot = d /\ a.term = sess.term
        BY <3>1, Zenon
      <3>3. Cardinality({r \in Replicas : rep[r].journal[d] = sess.term}) >= Quorum
        BY <1>4, <1>11, Zenon
      <3> QED BY <3>2, <3>3, Zenon
    <2> QED BY <1>2, <2>1, <2>2, Zenon
  <1>13. Ordered'
    <2>1. \A d \in filled : [slot |-> d, term |-> sess.term] \in acked'
      BY <1>2, Zenon
    <2>2. \A d \in Slots : outcome'[d] = "none" <=> outcome[d] = "none"
      BY <1>4, <1>5, <1>6, Zenon
    <2>3. \A d \in Slots : outcome'[d] = "acked" => outcome[d] = "acked" \/ d \in filled
      BY <1>5, Zenon
    <2>4. acked \subseteq acked'
      BY <1>2, Zenon
    <2>5. \A a \in acked' : a.term > 0
      <3>1. \A d \in filled : [slot |-> d, term |-> sess.term].term > 0
        BY <1>1, Zenon
      <3>2. \A a \in acked : a.term > 0
        BY Zenon DEF Ordered
      <3> QED BY <1>2, <3>1, <3>2, Zenon
    <2> QED BY <1>1, <2>1, <2>2, <2>3, <2>4, <2>5, Zenon DEF Ordered
  <1>14. \A d \in Slots : outcome[d] \in Resolved => outcome'[d] \in Resolved
    BY <1>5, Zenon DEF Resolved
  <1>15. Headers'
    BY <1>1, <1>14, ZenonT(30) DEF Headers, TypeOK
  <1>16. OneWriter'
    <2>1. \A d \in Slots : outcome'[d] = "none" <=> outcome[d] = "none"
      BY <1>4, <1>5, <1>6, Zenon
    <2> QED BY <1>1, <2>1, OneWriterSame, Zenon
  <1>17. AppliedIsDecided'
    <2> SUFFICES ASSUME NEW r \in Replicas, NEW d \in Slots, rep[r].term = term, sess.L < d, d <= rep[r].commit
                 PROVE  outcome'[d] \in Resolved
      BY <1>1, Zenon DEF AppliedIsDecided
    <2>1. CASE outcome[d] \in Resolved
      BY <1>14, <2>1, Zenon
    <2>2. CASE d <= round.upto
      <3>1. outcome[d] # "none"
        <4>1. d = round.upto \/ d < round.upto
          BY <1>1, <2>2, Covered, Zenon
        <4> QED BY <1>1, <4>1, Zenon DEF Ordered
      <3>2. outcome[d] \in Resolved \/ d \in pending
        BY <1>3, <2>2, <3>1, Zenon DEF TypeOK, Outcomes, Resolved, Pending
      <3> QED BY <1>5, <1>14, <3>2, Zenon DEF Resolved
    <2> QED BY <1>1, <2>1, <2>2, Zenon DEF AppliedIsDecided
  <1>18. Refusals'
    <2>1. \A d \in Slots : outcome'[d] = "flying" => outcome[d] = "flying" /\ ~(d <= round.upto)
      BY <1>3, <1>5, Zenon DEF Pending
    <2>2. \A d \in Slots : outcome'[d] = "empty" => outcome[d] = "empty" \/ rep[Leader].journal[d] = Empty
      BY <1>4, <1>5, <1>11, Zenon
    <2> QED BY <1>1, <2>1, <2>2, Zenon DEF Refusals, Current
  <1> QED BY <1>7, <1>8, <1>9, <1>10, <1>12, <1>13, <1>15, <1>16, <1>17, <1>18, Zenon
-----------------------------------------------------------------------------
\* run_login(), Phase 1: the replicas that are not live are the ones that miss the new term.
LEMMA LoginBeginStep == Contracts /\ OneQueue /\ IInv /\ LoginBegin => IInv'
  <1> SUFFICES ASSUME Contracts, OneQueue, Parts, LoginBegin PROVE Parts'
    BY Zenon DEF IInv
  <1> USE DEF Parts
  <1> DEFINE rs == Max({rep[r].last : r \in Live})
  <1>1. /\ round.pc = "idle" /\ login.pc = "idle" /\ up[Leader] /\ Cardinality(Live) >= Quorum
        /\ term' = term + 1 /\ missed' = missed \cup (Replicas \ Live)
        /\ login' = [pc |-> "sync", live |-> Live, rs |-> rs]
        /\ UNCHANGED <<rep, up, sess, outcome, open, leg, hdr, acked, late, round, excluded>>
    BY Idle, Zenon DEF LoginBegin, clientVars
  <1>2. rs \in Marks /\ \A r \in Live : rep[r].last <= rs
    BY <1>1, Zenon DEF Contracts, LiveContract
  <1> HIDE DEF rs
  <1>3. Live \subseteq Replicas /\ Current' = Live /\ Live \subseteq Current /\ Core' \subseteq Core
    BY <1>1, Zenon DEF Live, Current, Core, Terms
  <1>4. TypeOK'
    <2>1. login' \in [pc : {"idle", "sync", "term", "truncate"}, live : SUBSET Replicas, rs : Marks]
      BY <1>1, <1>2, <1>3, Zenon
    <2>2. term' \in Nat /\ missed' \subseteq Replicas
      BY <1>1, TermFacts, Zenon DEF TypeOK
    <2> QED BY <1>1, <2>1, <2>2, Zenon DEF TypeOK
  <1>5. term \in Nat /\ sess.term \in Nat /\ sess.term <= term
    BY Zenon DEF TypeOK, Terms
  <1>6. Exclusive'
    <2>1. login'.pc = "sync" /\ login'.live = Live /\ login'.rs = rs /\ round'.pc = "idle"
      BY <1>1, Zenon
    <2>2. sess'.term < term'
      BY <1>1, <1>5, TermFacts, Zenon
    <2>3. Majority(Live)' /\ Live' = Live
      BY <1>1, <1>3, Zenon DEF Majority, Live
    <2> QED BY <1>1, <1>2, <1>3, <2>1, <2>2, <2>3, Zenon DEF Exclusive, Scanning, Majority
  <1>7. Terms'
    <2>1. \A r \in Replicas : rep[r].term \in Nat /\ rep[r].term <= term
      BY ReplicaFacts, Zenon DEF Terms
    <2>2. \A r \in Replicas : rep[r].term <= term + 1 /\ rep[r].term < term + 1
      BY <1>5, <2>1, TermFacts, Zenon
    <2>3. \A r \in missed' : r \in Replicas /\ ~up[r]
      BY <1>1, Zenon DEF Terms, Live, TypeOK
    <2>4. sess.term <= term + 1
      BY <1>5, TermFacts, Zenon
    <2>5. login'.pc # "idle"
      BY <1>1, Zenon
    <2> QED BY <1>1, <2>2, <2>3, <2>4, <2>5, Zenon DEF Terms
  <1>8. AllMarked' /\ LegsTell' /\ AckedHeld' /\ Verdicts'
    BY <1>1, Zenon DEF AllMarked, LegsTell, AckedHeld, Verdicts, Scanning
  <1>9. Tombstones'
    BY <1>1, <1>3, TombstonesKept, Zenon
  <1>10. Ordered'
    BY <1>1, Zenon DEF Ordered
  <1>11. Headers'
    <2>1. \A m \in late : m.term \in Nat /\ m.term > 0 /\ m.term <= term
      BY LateMessage, Zenon DEF Headers
    <2>2. \A m \in late : m.term > 0 /\ m.term <= term + 1 /\ m.term < term + 1
      BY <1>5, <2>1, TermFacts, Zenon
    <2> QED BY <1>1, <2>2, Zenon DEF Headers
  <1>12. OneWriter'
    <2>1. \A m \in late : m.term # term'
      <3>1. \A m \in late : m.term \in Nat /\ m.term <= term
        BY LateMessage, Zenon DEF Headers
      <3> QED BY <1>1, <1>5, <3>1, TermFacts, Zenon
    <2> QED BY <1>1, <2>1, OneWriterSame, Zenon
  <1>13. AppliedIsDecided' /\ Refusals'
    <2>1. sess.term # term + 1
      BY <1>5, TermFacts, Zenon
    <2>2. AppliedIsDecided'
      BY <1>1, <2>1, Zenon DEF AppliedIsDecided
    <2>3. Refusals'
      BY <1>1, RefusalsSame, Zenon
    <2> QED BY <2>2, <2>3, Zenon
  <1>14. IndexNewest'
    BY <1>1, <1>3, Zenon DEF IndexNewest
  <1> QED BY <1>4, <1>6, <1>7, <1>8, <1>9, <1>10, <1>11, <1>12, <1>13, <1>14, Zenon
-----------------------------------------------------------------------------
\* Such a step keeps every conjunct that speaks of journals, slots and legs only.
LEMMA Frame ==
    Parts /\ JournalsKept /\ (sess'.admitted => sess'.term > 0)
      => Ordered' /\ Headers' /\ OneWriter' /\ Tombstones' /\ LegsTell' /\ AckedHeld' /\ Refusals'
  <1> SUFFICES ASSUME Parts, JournalsKept, sess'.admitted => sess'.term > 0
               PROVE  Ordered' /\ Headers' /\ OneWriter' /\ Tombstones' /\ LegsTell' /\ AckedHeld' /\ Refusals'
    BY Zenon
  <1> USE DEF Parts
  <1>1. Ordered' /\ Headers'
    BY ZenonT(30) DEF JournalsKept, Ordered, Headers
  <1>2. OneWriter'
    BY OneWriterSame, Zenon DEF JournalsKept
  <1>3. Tombstones'
    BY TombstonesKept, Zenon DEF JournalsKept, Core
  <1>4. LegsTell'
    BY Zenon DEF JournalsKept, LegsTell
  <1>5. AckedHeld'
    <2> SUFFICES ASSUME NEW a \in acked
                 PROVE  Cardinality({r \in Replicas : rep'[r].journal[a.slot] = a.term}) >= Quorum
      BY Zenon DEF JournalsKept, AckedHeld
    <2>1. {r \in Replicas : rep'[r].journal[a.slot] = a.term} = {r \in Replicas : rep[r].journal[a.slot] = a.term}
      BY Zenon DEF JournalsKept
    <2> QED BY <2>1, Zenon DEF AckedHeld
  <1>6. Refusals'
    BY RefusalsSame, Zenon DEF JournalsKept
  <1> QED BY <1>1, <1>2, <1>3, <1>4, <1>5, <1>6, Zenon

\* The commit frontier reaches a member: it applies resolved slots only.
LEMMA KeepAliveStep ==
    ASSUME NEW r \in Replicas
    PROVE  Contracts /\ OneQueue /\ IInv /\ KeepAlive(r) => IInv'
  <1> SUFFICES ASSUME Contracts, OneQueue, Parts, KeepAlive(r) PROVE Parts'
    BY Zenon DEF IInv
  <1> USE DEF Parts
  <1> DEFINE t == do_keep_alive(rep[r], sess.term, F)
  <1>1. /\ round.pc = "idle" /\ login.pc = "idle" /\ rep' = [rep EXCEPT ![r] = t]
        /\ UNCHANGED <<up, term, sess, outcome, open, leg, hdr, acked, late, round, login, missed, excluded>>
    BY Idle, Zenon DEF KeepAlive, clientVars, faultVars
  <1>2. rep[r] \in Replica /\ sess.term \in Nat /\ F \in Int
    <2>1. rep[r] \in Replica /\ sess.term \in Nat
      BY Zenon DEF TypeOK
    <2>2. F \in Marks
      BY Zenon DEF Contracts, FrontierContract
    <2> QED BY <2>1, <2>2, MarkFacts, Zenon
  <1>3. /\ t \in Replica /\ t.journal = rep[r].journal /\ t.last = rep[r].last /\ t.term = rep[r].term
        /\ rep[r].commit <= t.commit /\ (t.commit = rep[r].commit \/ t.commit <= F)
        /\ Marked(rep[r]) => Marked(t)
        /\ Newest(rep[r]) => Newest(t)
    <2> DEFINE c == F
    <2>1. c \in Int
      BY <1>2, Zenon
    <2> HIDE DEF c
    <2>2. LET k == do_keep_alive(rep[r], sess.term, c)
          IN  /\ k \in Replica /\ k.journal = rep[r].journal /\ k.last = rep[r].last /\ k.term = rep[r].term
              /\ rep[r].commit <= k.commit /\ (k.commit = rep[r].commit \/ k.commit <= c)
              /\ Marked(rep[r]) => Marked(k)
              /\ Newest(rep[r]) => Newest(k)
      BY <1>2, <2>1, ZenonT(30) DEF Contracts, KeepAliveContract
    <2> QED BY <2>2, Zenon DEF c
  <1> HIDE DEF t
  <1>4. rep'[r] = t /\ \A q \in Replicas \ {r} : rep'[q] = rep[q]
    BY <1>1, Zenon DEF TypeOK
  <1>5. JournalsKept /\ (sess'.admitted => sess'.term > 0)
    BY <1>1, <1>3, <1>4, Zenon DEF JournalsKept, Ordered
  <1>6. TypeOK'
    BY <1>1, <1>3, Zenon DEF TypeOK
  <1>7. AllMarked' /\ IndexNewest'
    BY <1>1, <1>3, <1>4, Zenon DEF AllMarked, IndexNewest, Core
  <1>8. Exclusive' /\ Verdicts'
    BY <1>1, Zenon DEF Exclusive, Verdicts, Scanning
  <1>9. Terms'
    <2>1. \A q \in Replicas : rep'[q].term = rep[q].term
      BY <1>3, <1>4, Zenon
    <2> QED BY <1>1, <2>1, Zenon DEF Terms, Current, TypeOK
  <1>10. AppliedIsDecided'
    <2> SUFFICES ASSUME sess.term = term, NEW q \in Replicas, NEW d \in Slots,
                        rep'[q].term = term, sess.L < d, d <= rep'[q].commit
                 PROVE  outcome[d] \in Resolved
      BY <1>1, Zenon DEF AppliedIsDecided
    <2>0. F \in Int /\ t.commit \in Marks
      BY <1>2, <1>3, Covered, Zenon
    <2>1. d <= rep[q].commit \/ d <= F
      BY <1>3, <1>4, <2>0, Covered, Zenon
    <2>2. rep[q].term = term
      BY <1>3, <1>4, Zenon
    <2> QED BY <1>1, <2>1, <2>2, Zenon DEF AppliedIsDecided, Contracts, FrontierContract
  <1> QED BY <1>5, <1>6, <1>7, <1>8, <1>9, <1>10, Frame, Zenon

\* login's probe: the login dLSN reaches every live member.
LEMMA ProbeStep == Contracts /\ OneQueue /\ IInv /\ Probe => IInv'
  <1> SUFFICES ASSUME Contracts, OneQueue, Parts, Probe PROVE Parts'
    BY Zenon DEF IInv
  <1> USE DEF Parts
  <1> DEFINE t(r) == do_keep_alive(rep[r], sess.term, sess.L)
  <1>1. /\ round.pc = "idle" /\ login.pc = "idle" /\ sess.term > 0
        /\ rep' = [r \in Replicas |-> IF r \in Live THEN t(r) ELSE rep[r]]
        /\ \E b \in BOOLEAN : sess' = [sess EXCEPT !.admitted = b]
        /\ UNCHANGED <<up, term, outcome, open, leg, hdr, acked, late, round, login, missed, excluded>>
    <2> DEFINE answering == {r \in Live : rep[r].term = sess.term}
               admit == /\ Cardinality(answering) >= Quorum
                        /\ \E r \in answering : rep'[r].commit >= sess.L
    <2>0. admit \in BOOLEAN
      BY Zenon
    <2>1. sess' = [sess EXCEPT !.admitted = admit]
      BY Zenon DEF Probe, OnLive
    <2>2. \E b \in BOOLEAN : sess' = [sess EXCEPT !.admitted = b]
      <3> HIDE DEF admit
      <3> QED BY <2>0, <2>1, Zenon
    <2>3. rep' = [r \in Replicas |-> IF r \in Live THEN t(r) ELSE rep[r]]
      BY Zenon DEF Probe, OnLive
    <2>4. /\ Scheduled /\ sess.term > 0
          /\ UNCHANGED <<up, term, outcome, open, leg, hdr, acked, late, round, login, missed, excluded>>
      BY Zenon DEF Probe, OnLive, faultVars, TypeOK
    <2> QED BY <2>2, <2>3, <2>4, Idle, Zenon
  <1>2. sess.term \in Nat /\ sess.L \in Int /\ sess'.term = sess.term /\ sess'.L = sess.L
        /\ sess' \in [term : Nat, L : Marks, admitted : BOOLEAN]
    <2>1. sess \in [term : Nat, L : Marks, admitted : BOOLEAN]
      BY Zenon DEF TypeOK
    <2>2. sess.term \in Nat /\ sess.L \in Marks
      BY <2>1, Zenon
    <2>3. sess' = [sess EXCEPT !.admitted = TRUE] \/ sess' = [sess EXCEPT !.admitted = FALSE]
      BY <1>1, Zenon
    <2> QED BY <2>1, <2>2, <2>3, MarkFacts, Zenon
  <1>3. \A r \in Replicas :
          /\ t(r) \in Replica /\ t(r).journal = rep[r].journal /\ t(r).last = rep[r].last
          /\ t(r).term = rep[r].term
          /\ rep[r].commit <= t(r).commit /\ (t(r).commit = rep[r].commit \/ t(r).commit <= sess.L)
          /\ Marked(rep[r]) => Marked(t(r))
          /\ Newest(rep[r]) => Newest(t(r))
    <2>1. \A r \in Replicas : rep[r] \in Replica
      BY Zenon DEF TypeOK
    <2> QED BY <1>2, <2>1, Zenon DEF Contracts, KeepAliveContract
  <1> HIDE DEF t
  <1>4. \A r \in Replicas : rep'[r] = t(r) \/ rep'[r] = rep[r]
    BY <1>1, Zenon
  <1>5. JournalsKept /\ (sess'.admitted => sess'.term > 0)
    BY <1>1, <1>2, <1>3, <1>4, Zenon DEF JournalsKept
  <1>6. TypeOK'
    BY <1>1, <1>2, <1>3, Zenon DEF TypeOK
  <1>7. AllMarked' /\ IndexNewest'
    BY <1>1, <1>3, <1>4, Zenon DEF AllMarked, IndexNewest, Core
  <1>8. Exclusive' /\ Verdicts'
    BY <1>1, Zenon DEF Exclusive, Verdicts, Scanning
  <1>9. Terms'
    <2>1. \A r \in Replicas : rep'[r].term = rep[r].term
      BY <1>3, <1>4, Zenon
    <2> QED BY <1>1, <1>2, <2>1, Zenon DEF Terms, Current, TypeOK
  <1>10. AppliedIsDecided'
    <2> SUFFICES ASSUME sess.term = term, NEW q \in Replicas, NEW d \in Slots,
                        rep'[q].term = term, sess.L < d, d <= rep'[q].commit
                 PROVE  outcome[d] \in Resolved
      BY <1>1, <1>2, Zenon DEF AppliedIsDecided
    <2>0. t(q).commit \in Marks
      BY <1>3, Covered, Zenon
    <2>1. d <= rep[q].commit
      <3>1. ~(d <= sess.L)
        BY <1>2, Covered, Zenon
      <3>2. t(q).commit = rep[q].commit \/ t(q).commit <= sess.L
        BY <1>3, Zenon
      <3>3. d <= t(q).commit \/ d <= rep[q].commit
        BY <1>4, Zenon
      <3> QED BY <1>2, <2>0, <3>1, <3>2, <3>3, Covered, Zenon
    <2>2. rep[q].term = term
      BY <1>3, <1>4, Zenon
    <2> QED BY <1>1, <2>1, <2>2, Zenon DEF AppliedIsDecided
  <1> QED BY <1>5, <1>6, <1>7, <1>8, <1>9, <1>10, Frame, Zenon
-----------------------------------------------------------------------------
\* The end of a round: the live set applies up to the want, and the leader's tombstones are the verdicts
\* that went to Empty.
LEMMA RoundSyncStep == Contracts /\ IInv /\ RoundSync => IInv'
  <1> SUFFICES ASSUME Contracts, Parts, RoundSync PROVE Parts'
    BY Zenon DEF IInv
  <1> USE DEF Parts
  <1> DEFINE t(r) == apply_up_to(rep[r], round.upto)
             E == peek_empties(rep[Leader], round.upto)
  <1>1. /\ round.pc = "sync" /\ login.pc = "idle"
        /\ rep' = [r \in Replicas |-> IF r \in round.live THEN t(r) ELSE rep[r]]
        /\ UNCHANGED <<up, term, sess, outcome, open, leg, hdr, acked, late, login, missed, excluded>>
    BY Zenon DEF RoundSync, OnLive, cold_apply_sync, clientVars, faultVars, Exclusive
  <1>2. /\ round'.pc = "reply" /\ round'.term = round.term /\ round'.upto = round.upto
        /\ round'.empties = E
        /\ round' \in [pc : {"idle", "peek", "mark", "sync", "reply"}, term : Nat, upto : Marks,
                  live : SUBSET Replicas, d : Nat \cup {-1}, verdict : Cells, empties : SUBSET Slots]
    <2>1. E \in SUBSET Slots
      BY Zenon DEF peek_empties
    <2>2. round' = [round EXCEPT !.pc = "reply", !.live = {}, !.d = -1, !.empties = E]
      BY Zenon DEF RoundSync
    <2>3. round \in [pc : {"idle", "peek", "mark", "sync", "reply"}, term : Nat, upto : Marks,
                  live : SUBSET Replicas, d : Nat \cup {-1}, verdict : Cells, empties : SUBSET Slots]
      BY Zenon DEF TypeOK
    <2> HIDE DEF E
    <2>4. round' = [pc |-> "reply", term |-> round.term, upto |-> round.upto, live |-> {}, d |-> -1,
                    verdict |-> round.verdict, empties |-> E]
      BY <2>2, <2>3, Zenon
    <2> QED BY <2>1, <2>3, <2>4, Zenon
  <1>3. /\ Majority(round.live) /\ round.live \subseteq Replicas /\ Leader \in round.live
        /\ round.d > round.upto /\ round.d \in Int /\ round.upto \in Slots /\ round.upto \in Int
        /\ sess.term = term /\ sess.term > 0 /\ round.term = sess.term /\ outcome[round.upto] = "failed"
    <2>1. round.pc = "sync" /\ round.d \in Int
      BY <1>1, ScanInt, Zenon
    <2>2. /\ Majority(round.live) /\ Leader \in round.live /\ round.d > round.upto
      BY <2>1, Zenon DEF Exclusive, Scanning
    <2>3. /\ round.upto \in Slots /\ sess.term = term /\ sess.term > 0 /\ round.term = sess.term
          /\ outcome[round.upto] = "failed"
      BY <2>1, Zenon DEF Exclusive
    <2>4. round.live \subseteq Replicas
      BY <2>2, Zenon DEF Majority
    <2>5. round.upto \in Int
      BY <2>3, MarkFacts, Zenon
    <2> QED BY <2>1, <2>2, <2>3, <2>4, <2>5, Zenon
  <1>4. \A r \in Replicas :
          /\ t(r) \in Replica /\ t(r).journal = rep[r].journal /\ t(r).last = rep[r].last
          /\ t(r).term = rep[r].term
          /\ rep[r].commit <= t(r).commit /\ (t(r).commit = rep[r].commit \/ t(r).commit <= round.upto)
          /\ Marked(rep[r]) => Marked(t(r))
          /\ Newest(rep[r]) => Newest(t(r))
    <2>1. \A r \in Replicas : rep[r] \in Replica
      BY Zenon DEF TypeOK
    <2> QED BY <1>3, <2>1, ZenonT(30) DEF Contracts, ApplyContract
  <1> HIDE DEF t
  <1>5. \A r \in Replicas : rep'[r] = t(r) \/ rep'[r] = rep[r]
    BY <1>1, Zenon
  <1>6. \A r \in Replicas : rep'[r].journal = rep[r].journal /\ rep'[r].last = rep[r].last /\ rep'[r].term = rep[r].term
    BY <1>4, <1>5, Zenon
  <1>7. JournalsKept /\ (sess'.admitted => sess'.term > 0)
    BY <1>1, <1>2, <1>6, Zenon DEF JournalsKept, Ordered
  <1>8. TypeOK'
    BY <1>1, <1>2, <1>4, Zenon DEF TypeOK
  <1>9. AllMarked' /\ IndexNewest'
    BY <1>1, <1>4, <1>5, Zenon DEF AllMarked, IndexNewest, Core
  <1>10. Exclusive' /\ Terms'
    <2>1. Exclusive'
      BY <1>1, <1>2, <1>3, Zenon DEF Exclusive, Scanning
    <2>2. Terms'
      BY <1>1, <1>6, Zenon DEF Terms, Current, TypeOK
    <2> QED BY <2>1, <2>2, Zenon
  <1>11. Verdicts'
    <2> SUFFICES ASSUME NEW e \in Slots, sess.L < e, e <= round.upto, Pending(e)
                 PROVE  IF e \in E THEN rep'[Leader].journal[e] = Empty
                        ELSE Cardinality({r \in Replicas : rep'[r].journal[e] = sess.term}) >= Quorum
      <3>1. /\ round'.pc = "reply" /\ round'.empties = E /\ round'.upto = round.upto
            /\ sess' = sess /\ outcome' = outcome
        BY <1>1, <1>2, Zenon
      <3> HIDE DEF E
      <3> QED BY <3>1, Zenon DEF Verdicts, Scanning, Pending
    <2>1. \/ \A r \in round.live : rep[r].journal[e] = Empty
          \/ \A r \in round.live : rep[r].journal[e] = sess.term
      <3>1. e < round.d
        BY <1>3, Covered, Zenon
      <3> QED BY <1>1, <3>1, Zenon DEF Verdicts, Scanning
    <2>2. rep'[Leader].journal = rep[Leader].journal
      BY <1>6, ClusterAssumption, Zenon
    <2>3. e \in E <=> rep[Leader].journal[e] = Empty
      BY Zenon DEF peek_empties
    <2>4. ASSUME \A r \in round.live : rep[r].journal[e] = sess.term
          PROVE  Cardinality({r \in Replicas : rep'[r].journal[e] = sess.term}) >= Quorum
      <3>1. round.live \subseteq {r \in Replicas : rep'[r].journal[e] = sess.term}
        BY <1>3, <1>6, <2>4, Zenon
      <3> QED BY <1>3, <3>1, Zenon DEF Majority, Contracts, QuorumContract
    <2>5. sess.term # Empty
      BY <1>3, CellFacts, Zenon
    <2> QED BY <1>3, <2>1, <2>2, <2>3, <2>4, <2>5, Zenon
  <1>12. AppliedIsDecided'
    <2> SUFFICES ASSUME NEW q \in Replicas, NEW d \in Slots,
                        rep'[q].term = term, sess.L < d, d <= rep'[q].commit
                 PROVE  outcome[d] \in Resolved \/ d <= round.upto
      BY <1>1, <1>2, Zenon DEF AppliedIsDecided
    <2>1. t(q).commit \in Marks
      BY <1>4, Covered, Zenon
    <2>2. d <= rep[q].commit \/ d <= round.upto
      <3>1. t(q).commit = rep[q].commit \/ t(q).commit <= round.upto
        BY <1>4, Zenon
      <3>2. d <= t(q).commit \/ d <= rep[q].commit
        BY <1>5, Zenon
      <3> QED BY <1>3, <2>1, <3>1, <3>2, Covered, Zenon
    <2> QED BY <1>1, <1>3, <1>6, <2>2, Zenon DEF AppliedIsDecided
  <1> QED BY <1>7, <1>8, <1>9, <1>10, <1>11, <1>12, Frame, Zenon

\* Phase 2 of a login: the live set applies up to rs; the session it deposes has no say any more.
LEMMA LoginSyncStep == Contracts /\ IInv /\ LoginSync => IInv'
  <1> SUFFICES ASSUME Contracts, Parts, LoginSync PROVE Parts'
    BY Zenon DEF IInv
  <1> USE DEF Parts
  <1> DEFINE t(r) == apply_up_to(rep[r], login.rs)
  <1>1. /\ login.pc = "sync" /\ round.pc = "idle"
        /\ rep' = [r \in Replicas |-> IF r \in login.live THEN t(r) ELSE rep[r]]
        /\ login' = [login EXCEPT !.pc = "term"]
        /\ UNCHANGED <<up, term, sess, outcome, open, leg, hdr, acked, late, round, missed, excluded>>
    BY Zenon DEF LoginSync, OnLive, cold_apply_sync, clientVars, faultVars, Exclusive
  <1>2. /\ login'.pc = "term" /\ login'.live = login.live /\ login'.rs = login.rs /\ login.rs \in Int
        /\ login' \in [pc : {"idle", "sync", "term", "truncate"}, live : SUBSET Replicas, rs : Marks]
    <2>1. login \in [pc : {"idle", "sync", "term", "truncate"}, live : SUBSET Replicas, rs : Marks]
      BY Zenon DEF TypeOK
    <2>2. login' = [login EXCEPT !.pc = "term"]
      BY <1>1, Zenon
    <2> QED BY <2>1, <2>2, MarkFacts, Zenon
  <1>3. /\ Majority(login.live) /\ login.live = Current /\ sess.term < term
        /\ \A r \in login.live : rep[r].last <= login.rs
    BY <1>1, Zenon DEF Exclusive
  <1>4. \A r \in Replicas :
          /\ t(r) \in Replica /\ t(r).journal = rep[r].journal /\ t(r).last = rep[r].last
          /\ t(r).term = rep[r].term
          /\ Marked(rep[r]) => Marked(t(r))
          /\ Newest(rep[r]) => Newest(t(r))
    <2>1. \A r \in Replicas : rep[r] \in Replica
      BY Zenon DEF TypeOK
    <2> QED BY <1>2, <2>1, Zenon DEF Contracts, ApplyContract
  <1> HIDE DEF t
  <1>5. \A r \in Replicas : rep'[r] = t(r) \/ rep'[r] = rep[r]
    BY <1>1, Zenon
  <1>6. \A r \in Replicas : rep'[r].journal = rep[r].journal /\ rep'[r].last = rep[r].last /\ rep'[r].term = rep[r].term
    BY <1>4, <1>5, Zenon
  <1>7. JournalsKept /\ (sess'.admitted => sess'.term > 0)
    BY <1>1, <1>6, Zenon DEF JournalsKept, Ordered
  <1>8. TypeOK'
    BY <1>1, <1>2, <1>4, Zenon DEF TypeOK
  <1>9. AllMarked' /\ IndexNewest'
    BY <1>1, <1>4, <1>5, Zenon DEF AllMarked, IndexNewest, Core
  <1>10. Exclusive' /\ Terms'
    <2>0. /\ round' = round /\ sess' = sess /\ term' = term /\ missed' = missed /\ round.pc = "idle"
          /\ login.live \subseteq Replicas /\ outcome' = outcome
      BY <1>1, <1>3, Zenon DEF Current
    <2>1. Exclusive'
      BY <1>2, <1>3, <1>6, <2>0, Zenon DEF Exclusive, Scanning, Current, Majority
    <2>2. Terms'
      BY <1>1, <1>2, <1>6, Zenon DEF Terms, Current, TypeOK
    <2> QED BY <2>1, <2>2, Zenon
  <1>11. Verdicts' /\ AppliedIsDecided'
    <2>1. sess.term # term
      <3>1. sess.term \in Nat /\ term \in Nat
        BY Zenon DEF TypeOK
      <3> QED BY <1>3, <3>1, TermFacts, Zenon
    <2>2. Verdicts'
      BY <1>1, Zenon DEF Verdicts, Scanning
    <2>3. AppliedIsDecided'
      BY <1>1, <2>1, Zenon DEF AppliedIsDecided
    <2> QED BY <2>2, <2>3, Zenon
  <1> QED BY <1>7, <1>8, <1>9, <1>10, <1>11, Frame, Zenon

\* Phase 3: every live member, and no other, enters the new term.
LEMMA LoginTermStep == IInv /\ LoginTerm => IInv'
  <1> SUFFICES ASSUME Parts, LoginTerm PROVE Parts'
    BY Zenon DEF IInv
  <1> USE DEF Parts
  <1> DEFINE t(r) == [rep[r] EXCEPT !.term = term]
  <1>1. /\ login.pc = "term" /\ round.pc = "idle"
        /\ rep' = [r \in Replicas |-> IF r \in login.live THEN t(r) ELSE rep[r]]
        /\ login' = [login EXCEPT !.pc = "truncate"]
        /\ UNCHANGED <<up, term, sess, outcome, open, leg, hdr, acked, late, round, missed, excluded>>
    BY Zenon DEF LoginTerm, OnLive, cold_apply_login, clientVars, faultVars, Exclusive, TypeOK, Replica
  <1>2. /\ login'.pc = "truncate" /\ login'.live = login.live /\ login'.rs = login.rs
        /\ login' \in [pc : {"idle", "sync", "term", "truncate"}, live : SUBSET Replicas, rs : Marks]
    BY <1>1, Zenon DEF TypeOK
  <1>3. /\ Majority(login.live) /\ login.live = Current /\ sess.term < term
        /\ \A r \in login.live : rep[r].last <= login.rs
    BY <1>1, Zenon DEF Exclusive
  <1>4. /\ \A r \in Replicas :
             /\ rep'[r] \in Replica /\ rep'[r].journal = rep[r].journal /\ rep'[r].last = rep[r].last
             /\ rep'[r].commit = rep[r].commit /\ rep'[r].index = rep[r].index
        /\ \A r \in Current : rep'[r].term = term
        /\ \A r \in missed : rep'[r].term = rep[r].term
    <2>1. /\ rep \in [Replicas -> Replica] /\ term \in Nat
          /\ \A r \in Replicas : rep[r] \in Replica
      BY Zenon DEF TypeOK
    <2>2. \A r \in Replicas :
             /\ t(r) \in Replica /\ t(r).journal = rep[r].journal /\ t(r).last = rep[r].last
             /\ t(r).commit = rep[r].commit /\ t(r).index = rep[r].index /\ t(r).term = term
      BY <2>1, Zenon DEF Replica
    <2> HIDE DEF t
    <2>3. \A r \in Replicas : r \in missed => rep'[r] = rep[r]
      BY <1>1, <1>3, Zenon DEF Current
    <2>4. \A r \in missed : r \in Replicas
      BY Zenon DEF TypeOK
    <2>5. \A r \in Current :
             /\ rep'[r] \in Replica /\ rep'[r].journal = rep[r].journal /\ rep'[r].last = rep[r].last
             /\ rep'[r].commit = rep[r].commit /\ rep'[r].index = rep[r].index /\ rep'[r].term = term
      BY <1>1, <1>3, <2>2, Zenon DEF Current
    <2> QED BY <2>1, <2>3, <2>4, <2>5, Zenon DEF Current
  <1> HIDE DEF t
  <1>5. JournalsKept /\ (sess'.admitted => sess'.term > 0)
    BY <1>1, <1>4, Zenon DEF JournalsKept, Ordered
  <1>6. TypeOK'
    BY <1>1, <1>2, <1>4, Zenon DEF TypeOK
  <1>7. AllMarked' /\ IndexNewest'
    <2>1. \A r \in Replicas : (Marked(rep[r]) => Marked(rep'[r])) /\ (Newest(rep[r]) => Newest(rep'[r]))
      BY <1>4, MarkedSame, Zenon
    <2> QED BY <1>1, <2>1, Zenon DEF AllMarked, IndexNewest, Core
  <1>8. Exclusive' /\ Terms'
    <2>0. /\ round' = round /\ sess' = sess /\ term' = term /\ missed' = missed /\ round.pc = "idle"
          /\ login.live \subseteq Replicas /\ outcome' = outcome
      BY <1>1, <1>3, Zenon DEF Current
    <2>1. Exclusive'
      BY <1>2, <1>3, <1>4, <2>0, Zenon DEF Exclusive, Scanning, Current, Majority
    <2>2. term \in Nat /\ \A r \in missed : r \in Replicas
      BY Zenon DEF TypeOK
    <2>3. \A r \in Replicas : rep'[r].term <= term
      <3>1. \A r \in Replicas : r \in Current \/ r \in missed
        BY Zenon DEF Current
      <3> QED BY <1>4, <2>2, <3>1, TermFacts, Zenon DEF Terms
    <2>4. Terms'
      BY <1>1, <1>2, <1>4, <2>2, <2>3, Zenon DEF Terms, Current
    <2> QED BY <2>1, <2>4, Zenon
  <1>9. Verdicts' /\ AppliedIsDecided'
    <2>1. sess.term # term
      <3>1. sess.term \in Nat /\ term \in Nat
        BY Zenon DEF TypeOK
      <3> QED BY <1>3, <3>1, TermFacts, Zenon
    <2>2. Verdicts'
      BY <1>1, Zenon DEF Verdicts, Scanning
    <2>3. AppliedIsDecided'
      BY <1>1, <2>1, Zenon DEF AppliedIsDecided
    <2> QED BY <2>2, <2>3, Zenon
  <1> QED BY <1>5, <1>6, <1>7, <1>8, <1>9, Frame, Zenon
-----------------------------------------------------------------------------
\* The end of a session: the new client object has issued nothing, and what the old one left on the wire
\* carries the old term, for slots the old session wrote.
LEMMA EndSessionFacts ==
    ASSUME NEW new, Parts, EndSession(new)
    PROVE  /\ sess' = new /\ acked' = acked
           /\ outcome' \in [Slots -> Outcomes] /\ open' = {} /\ hdr' \in [Slots -> Marks]
           /\ leg' \in [Slots -> [Replicas -> LegStates]]
           /\ \A d \in Slots : outcome'[d] = "none" /\ hdr'[d] = -1 /\ \A r \in Replicas : leg'[d][r] = "none"
           /\ late' \subseteq [to : Replicas, slot : Slots, term : Nat, commit : Marks]
           /\ \A m \in late' : m \in late \/ (/\ m.term = sess.term /\ sess.term > 0
                                              /\ m.slot > sess.L /\ outcome[m.slot] # "none")
  <1> USE DEF Parts
  <1>1. PICK left \in SUBSET OnWire : late' = late \cup left
    BY Zenon DEF EndSession
  <1>2. /\ sess' = new /\ acked' = acked /\ open' = {}
        /\ outcome' = [d \in Slots |-> "none"] /\ hdr' = [d \in Slots |-> -1]
        /\ leg' = [d \in Slots |-> [r \in Replicas |-> "none"]]
    BY Zenon DEF EndSession
  <1>3. ASSUME NEW m \in left
        PROVE  /\ m \in [to : Replicas, slot : Slots, term : Nat, commit : Marks]
               /\ m.term = sess.term /\ sess.term > 0 /\ m.slot > sess.L /\ outcome[m.slot] # "none"
    <2>1. PICK d \in Slots, r \in Replicas : m = Message(d, r) /\ leg[d][r] = "wire"
      BY Zenon DEF OnWire
    <2>2. outcome[d] # "none" /\ d > sess.L /\ sess.term > 0
      BY <2>1, Zenon DEF Ordered
    <2>3. hdr[d] \in Marks /\ sess.term \in Nat
      BY Zenon DEF TypeOK
    <2>4. m = [to |-> r, slot |-> d, term |-> sess.term, commit |-> hdr[d]]
      BY <2>1, Zenon DEF Message
    <2> QED BY <2>2, <2>3, <2>4, Zenon
  <1>4. late \subseteq [to : Replicas, slot : Slots, term : Nat, commit : Marks]
    BY Zenon DEF TypeOK
  <1>5. outcome' \in [Slots -> Outcomes] /\ hdr' \in [Slots -> Marks] /\ leg' \in [Slots -> [Replicas -> LegStates]]
    BY <1>2, Zenon DEF Outcomes, Marks, LegStates
  <1>6. \A d \in Slots : outcome'[d] = "none" /\ hdr'[d] = -1 /\ \A r \in Replicas : leg'[d][r] = "none"
    BY <1>2, Zenon
  <1> QED BY <1>1, <1>2, <1>3, <1>4, <1>5, <1>6, Zenon

\* Phase 4 and the new session: nothing in the live set is above rs, so its slots are fresh.
LEMMA LoginTruncateStep == IInv /\ LoginTruncate => IInv'
  <1> SUFFICES ASSUME Parts, LoginTruncate PROVE Parts'
    BY Zenon DEF IInv
  <1> USE DEF Parts
  <1> DEFINE new == [term |-> term, L |-> login.rs, admitted |-> FALSE]
  <1>1. /\ login.pc = "truncate" /\ login' = NoLogin /\ round.pc = "idle" /\ EndSession(new)
        /\ UNCHANGED <<up, term, round, excluded, missed>>
    BY Zenon DEF LoginTruncate, Exclusive
  <1>2. /\ Majority(login.live) /\ login.live = Current /\ sess.term < term
        /\ \A r \in Current : rep[r].last <= login.rs /\ rep[r].term = term
    BY <1>1, Zenon DEF Exclusive
  <1>3. login.rs \in Int /\ login.rs \in Marks /\ term \in Nat /\ term > 0 /\ sess.term \in Nat
    <2>1. login.rs \in Marks /\ term \in Nat /\ sess.term \in Nat
      BY Zenon DEF TypeOK
    <2> QED BY <1>2, <2>1, MarkFacts, TermFacts, Zenon
  <1>4. rep' = rep
    <2> DEFINE cut(s) == IF s.last > login.rs THEN cold_truncate_above(s, login.rs) ELSE s
    <2>1. rep' = [r \in Replicas |-> IF r \in login.live THEN cut(rep[r]) ELSE rep[r]]
      BY Zenon DEF LoginTruncate, OnLive
    <2>2. \A r \in Replicas : rep[r].last \in Int
      BY ReplicaFacts, Covered, MarkFacts, Zenon
    <2>3. \A r \in login.live : cut(rep[r]) = rep[r]
      <3>1. \A r \in login.live : r \in Replicas /\ rep[r].last <= login.rs
        BY <1>2, Zenon DEF Current
      <3>2. \A r \in login.live : ~(rep[r].last > login.rs)
        BY <1>3, <2>2, <3>1, NotAbove, Zenon
      <3> QED BY <3>2, Zenon
    <2> HIDE DEF cut
    <2>4. rep' = [r \in Replicas |-> rep[r]]
      BY <2>1, <2>3, Zenon
    <2> QED BY <2>4, Zenon DEF TypeOK
  <1>5. /\ sess' = new /\ acked' = acked
        /\ outcome' \in [Slots -> Outcomes] /\ open' = {} /\ hdr' \in [Slots -> Marks]
        /\ leg' \in [Slots -> [Replicas -> LegStates]]
        /\ \A d \in Slots : outcome'[d] = "none" /\ hdr'[d] = -1 /\ \A r \in Replicas : leg'[d][r] = "none"
        /\ late' \subseteq [to : Replicas, slot : Slots, term : Nat, commit : Marks]
        /\ \A m \in late' : m \in late \/ (m.term = sess.term /\ sess.term > 0)
    <2> HIDE DEF new
    <2> QED BY <1>1, EndSessionFacts, Zenon
  <1>6. sess'.term = term /\ sess'.L = login.rs /\ sess'.admitted = FALSE
        /\ sess' \in [term : Nat, L : Marks, admitted : BOOLEAN]
    BY <1>3, <1>5, Zenon
  <1>7. /\ login'.pc = "idle"
        /\ login' \in [pc : {"idle", "sync", "term", "truncate"}, live : SUBSET Replicas, rs : Marks]
    BY <1>1, Zenon DEF NoLogin, Marks
  <1> HIDE DEF new
  <1>8. TypeOK'
    BY <1>1, <1>4, <1>5, <1>6, <1>7, Zenon DEF TypeOK
  <1>9. AllMarked' /\ IndexNewest' /\ AckedHeld'
    BY <1>1, <1>4, <1>5, Zenon DEF AllMarked, IndexNewest, Core, AckedHeld
  <1>10. Exclusive' /\ Verdicts'
    BY <1>1, <1>7, Zenon DEF Exclusive, Scanning, Verdicts
  <1>11. Terms'
    <2>1. term <= term /\ sess'.term = term
      BY <1>3, <1>6, TermFacts, Zenon
    <2> QED BY <1>1, <1>2, <1>4, <2>1, Zenon DEF Terms, Current
  <1>12. Ordered' /\ LegsTell'
    BY <1>5, <1>6, Zenon DEF Ordered, LegsTell
  <1>13. \A m \in late' : m.term > 0 /\ m.term < term
    BY <1>1, <1>2, <1>3, <1>5, Zenon DEF Headers
  <1>14. Headers'
    <2>1. \A m \in late' : m.term \in Nat
      BY <1>5, Zenon
    <2>2. \A m \in late' : m.term # sess'.term
      BY <1>3, <1>6, <1>13, <2>1, TermFacts, Zenon
    <2>3. \A d, e \in Slots : ~(e <= hdr'[d])
      BY <1>5, NothingCovered, Zenon
    <2>4. \A m \in late' : m.term > 0 /\ m.term <= term
      BY <1>3, <1>13, <2>1, TermFacts, Zenon
    <2> QED BY <1>1, <1>7, <2>2, <2>3, <2>4, Zenon DEF Headers
  <1>15. \A r \in Current, d \in Slots : d > login.rs => rep[r].journal[d] = Missing /\ ~(d <= rep[r].commit)
    <2> SUFFICES ASSUME NEW r \in Current, NEW d \in Slots, d > login.rs
                 PROVE  rep[r].journal[d] = Missing /\ ~(d <= rep[r].commit)
      BY Zenon
    <2>1. r \in Replicas /\ rep[r] \in Replica
      BY ReplicaFacts, Zenon DEF Current
    <2>2. Marked(rep[r]) /\ rep[r].last <= login.rs
      BY <1>2, <2>1, Zenon DEF AllMarked
    <2> QED BY <1>3, <2>1, <2>2, BeyondLast, Zenon
  <1>16. OneWriter'
    <2>1. \A m \in late' : m.term # term
      <3>1. \A m \in late' : m.term \in Nat
        BY <1>5, Zenon
      <3> QED BY <1>3, <1>13, <3>1, TermFacts, Zenon
    <2>2. \A r \in Current, d \in Slots : sess'.term > 0 /\ d > sess'.L =>
            rep[r].journal[d] \in (IF outcome'[d] = "none" THEN {Missing} ELSE {Missing, Empty, sess'.term})
      BY <1>5, <1>6, <1>15, Zenon
    <2> QED BY <1>1, <1>4, <2>1, <2>2, OneWriterStays, Zenon
  <1>17. Tombstones'
    BY <1>1, <1>4, <1>5, TombstonesKept, Zenon DEF Core
  <1>18. AppliedIsDecided'
    <2>1. \A r \in Replicas : rep[r].term = term => r \in Current
      <3>1. \A r \in missed : r \in Replicas /\ rep[r].term < term
        BY Zenon DEF Terms, TypeOK
      <3>2. \A r \in missed : rep[r].term # term
        BY <1>3, <3>1, ReplicaFacts, TermFacts, Zenon
      <3> QED BY <3>2, Zenon DEF Current
    <2> QED BY <1>1, <1>4, <1>6, <1>15, <2>1, Zenon DEF AppliedIsDecided
  <1>19. Refusals'
    BY <1>5, Zenon DEF Refusals
  <1> QED BY <1>8, <1>9, <1>10, <1>11, <1>12, <1>14, <1>16, <1>17, <1>18, <1>19, Zenon

\* A logout leaves the journals as they are; what is still on the wire is a write of the last term.
LEMMA LogoutStep == OneQueue /\ IInv /\ Logout => IInv'
  <1> SUFFICES ASSUME OneQueue, Parts, Logout PROVE Parts'
    BY Zenon DEF IInv
  <1> USE DEF Parts
  <1> DEFINE t(r) == [rep[r] EXCEPT !.term = 0]
             new == NoSession
  <1>1. /\ login.pc = "idle" /\ round.pc = "idle" /\ EndSession(new) /\ sess.term > 0
        /\ rep' = [r \in Replicas |-> IF r \in Live THEN t(r) ELSE rep[r]]
        /\ UNCHANGED <<up, term, round, login, excluded, missed>>
    BY Idle, Zenon DEF Logout, OnLive, cold_apply_logout
  <1>2. \A r \in Replicas :
             /\ rep'[r] \in Replica /\ rep'[r].journal = rep[r].journal /\ rep'[r].last = rep[r].last
             /\ rep'[r].commit = rep[r].commit /\ rep'[r].index = rep[r].index
             /\ rep'[r].term \in {0, rep[r].term}
    <2>1. \A r \in Replicas : rep[r] \in Replica
      BY Zenon DEF TypeOK
    <2>2. \A r \in Replicas :
             /\ t(r) \in Replica /\ t(r).journal = rep[r].journal /\ t(r).last = rep[r].last
             /\ t(r).commit = rep[r].commit /\ t(r).index = rep[r].index /\ t(r).term = 0
      BY <2>1, Zenon DEF Replica
    <2> HIDE DEF t
    <2>3. \A r \in Replicas : rep'[r] = t(r) \/ rep'[r] = rep[r]
      BY <1>1, Zenon
    <2> QED BY <2>1, <2>2, <2>3, Zenon
  <1>3. rep' \in [Replicas -> Replica]
    <2> HIDE DEF t
    <2>1. rep' = [r \in Replicas |-> rep'[r]]
      BY <1>1, Zenon
    <2> QED BY <1>2, <2>1, Zenon
  <1>4. /\ sess' = new /\ acked' = acked
        /\ outcome' \in [Slots -> Outcomes] /\ open' = {} /\ hdr' \in [Slots -> Marks]
        /\ leg' \in [Slots -> [Replicas -> LegStates]]
        /\ \A d \in Slots : outcome'[d] = "none" /\ hdr'[d] = -1 /\ \A r \in Replicas : leg'[d][r] = "none"
        /\ late' \subseteq [to : Replicas, slot : Slots, term : Nat, commit : Marks]
        /\ \A m \in late' : m \in late \/ (/\ m.term = sess.term /\ sess.term > 0
                                           /\ m.slot > sess.L /\ outcome[m.slot] # "none")
    <2> HIDE DEF new
    <2> QED BY <1>1, EndSessionFacts, Zenon
  <1>5. /\ login.pc = "idle" /\ round.pc = "idle" /\ sess.term > 0
        /\ UNCHANGED <<up, term, round, login, excluded, missed>>
    BY <1>1, Zenon
  <1>6. sess'.term = 0 /\ sess'.L = -1 /\ sess'.admitted = FALSE
        /\ sess' \in [term : Nat, L : Marks, admitted : BOOLEAN]
    BY <1>4, Zenon DEF NoSession, Marks
  <1> HIDE DEF new
  <1>7. sess.term = term /\ term \in Nat /\ term > 0
    BY <1>5, SessionTerm, Zenon
  <1>8. TypeOK'
    BY <1>3, <1>4, <1>5, <1>6, Zenon DEF TypeOK
  <1>9. AllMarked' /\ IndexNewest'
    <2>1. \A r \in Replicas : (Marked(rep[r]) => Marked(rep'[r])) /\ (Newest(rep[r]) => Newest(rep'[r]))
      BY <1>2, MarkedSame, Zenon
    <2> QED BY <1>5, <2>1, Zenon DEF AllMarked, IndexNewest, Core
  <1>10. AckedHeld'
    <2> SUFFICES ASSUME NEW a \in acked
                 PROVE  Cardinality({r \in Replicas : rep'[r].journal[a.slot] = a.term}) >= Quorum
      BY <1>4, Zenon DEF AckedHeld
    <2>1. {r \in Replicas : rep'[r].journal[a.slot] = a.term} = {r \in Replicas : rep[r].journal[a.slot] = a.term}
      BY <1>2, Zenon
    <2> QED BY <2>1, Zenon DEF AckedHeld
  <1>11. Exclusive' /\ Verdicts'
    BY <1>5, Zenon DEF Exclusive, Scanning, Verdicts
  <1>12. Terms'
    <2>1. \A r \in Replicas : rep[r].term \in Nat
      BY Zenon DEF TypeOK, Replica
    <2>2. \A r \in missed : r \in Replicas
      BY Zenon DEF TypeOK
    <2>3. 0 <= term /\ 0 < term
      BY <1>7, TermFacts, Zenon
    <2>4. \A r \in Replicas : rep'[r].term <= term
      BY <1>2, <2>3, Zenon DEF Terms
    <2>5. \A r \in missed : ~up[r] /\ rep'[r].term < term
      BY <1>2, <2>2, <2>3, Zenon DEF Terms
    <2>6. \A r \in Current : rep'[r].term \in {0, term}
      <3>1. \A r \in Current : r \in Replicas /\ rep[r].term \in {0, term}
        BY <1>5, Zenon DEF Terms, Current
      <3> QED BY <1>2, <3>1, Zenon
    <2> QED BY <1>5, <1>6, <2>3, <2>4, <2>5, <2>6, Zenon DEF Terms, Current
  <1>13. Ordered' /\ LegsTell'
    BY <1>4, <1>6, Zenon DEF Ordered, LegsTell
  <1>14. \A m \in late' : m.term > 0 /\ m.term <= term
    <2>1. \A m \in late : m.term > 0 /\ m.term <= term
      BY Zenon DEF Headers
    <2> HIDE DEF Parts
    <2>2. sess.term > 0 /\ sess.term <= term
      BY <1>7, TermFacts, Zenon
    <2> QED BY <1>4, <2>1, <2>2, Zenon
  <1>15. Headers'
    <2>1. \A m \in late' : m.term # sess'.term
      <3>1. \A m \in late' : m.term \in Nat
        BY <1>4, Zenon
      <3> QED BY <1>6, <1>14, <3>1, TermFacts, Zenon
    <2>2. \A d, e \in Slots : ~(e <= hdr'[d])
      BY <1>4, NothingCovered, Zenon
    <2> QED BY <1>5, <1>14, <2>1, <2>2, Zenon DEF Headers
  <1>16. OneWriter'
    <2>1. \A r \in Current, m \in late' : m.term = term => rep[r].journal[m.slot] \in {Missing, Empty, m.term}
      <3> SUFFICES ASSUME NEW r \in Current, NEW m \in late', m.term = term
                   PROVE  rep[r].journal[m.slot] \in {Missing, Empty, m.term}
        BY Zenon
      <3>1. CASE m \in late
        BY <3>1, Zenon DEF OneWriter
      <3>2. CASE m.slot > sess.L /\ outcome[m.slot] # "none"
        <4>1. m.slot \in Slots
          BY <1>4, Zenon
        <4> QED BY <1>5, <1>7, <3>2, <4>1, Zenon DEF OneWriter
      <3> QED BY <1>4, <3>1, <3>2, Zenon
    <2>2. ~(sess'.term > 0)
      BY <1>6, TermFacts, Zenon
    <2> QED BY <1>2, <1>5, <2>1, <2>2, OneWriterStays, Zenon
  <1>17. Tombstones'
    BY <1>2, <1>4, <1>5, TombstonesKept, Zenon DEF Core
  <1>18. AppliedIsDecided' /\ Refusals'
    <2>1. sess'.term # term
      BY <1>6, <1>7, TermFacts, Zenon
    <2>2. AppliedIsDecided'
      BY <1>5, <2>1, Zenon DEF AppliedIsDecided
    <2>3. Refusals'
      BY <1>4, Zenon DEF Refusals
    <2> QED BY <2>2, <2>3, Zenon
  <1> QED BY <1>8, <1>9, <1>10, <1>11, <1>12, <1>13, <1>15, <1>16, <1>17, <1>18, Zenon

\* A step that changes nothing.
LEMMA StutterStep == IInv /\ UNCHANGED vars => IInv'
  <1> SUFFICES ASSUME Parts, UNCHANGED vars PROVE Parts'
    BY Zenon DEF IInv
  <1>1. UNCHANGED <<rep, up, term, sess, outcome, open, leg, hdr, acked, late, round, login, excluded, missed>>
    BY Zenon DEF vars, clientVars, faultVars
  <1> USE DEF Parts
  <1>2. TypeOK'
    BY <1>1, Zenon DEF TypeOK
  <1>3. AllMarked' /\ IndexNewest' /\ AckedHeld' /\ LegsTell'
    BY <1>1, Zenon DEF AllMarked, IndexNewest, Core, AckedHeld, LegsTell
  <1>4. Exclusive' /\ Terms'
    BY <1>1, Zenon DEF Exclusive, Scanning, Core, Current, Majority, Terms
  <1>5. Ordered' /\ Headers'
    BY <1>1, Zenon DEF Ordered, Headers
  <1>6. OneWriter' /\ Refusals'
    <2>1. OneWriter'
      BY <1>1, OneWriterKept, Zenon
    <2>2. Refusals'
      BY <1>1, RefusalsSame, Zenon
    <2> QED BY <2>1, <2>2, Zenon
  <1>7. Tombstones' /\ AppliedIsDecided'
    BY <1>1, TombstonesKept, Zenon DEF Core, AppliedIsDecided
  <1>8. Verdicts'
    BY <1>1, Zenon DEF Verdicts, Scanning, Pending
  <1> QED BY <1>2, <1>3, <1>4, <1>5, <1>6, <1>7, <1>8, Zenon
-----------------------------------------------------------------------------
\* What do_write at one member, in time or late, does to the set: it fills at most one slot of that member,
\* never one that is a tombstone or holds another session's write.
LEMMA Lands ==
    ASSUME NEW q \in Replicas, NEW d \in Slots, NEW w \in Nat, NEW c \in Int
    PROVE  Contracts /\ Parts /\ Landing(q, d, w, c) => Landed(q, d, w, c)
  <1> SUFFICES ASSUME Contracts, Parts, Landing(q, d, w, c) PROVE Landed(q, d, w, c)
    BY Zenon
  <1> USE DEF Parts, Landing
  <1> DEFINE t == do_write(rep[q], w, d, c)
  <1>1. rep[q] \in Replica /\ Marked(rep[q])
    BY Zenon DEF TypeOK, AllMarked
  <1>2. /\ t \in Replica /\ t.term = rep[q].term
        /\ rep[q].commit <= t.commit /\ (t.commit = rep[q].commit \/ t.commit <= c)
        /\ \A e \in Slots \ {d} : t.journal[e] = rep[q].journal[e]
        /\ t.commit # rep[q].commit => w = rep[q].term
        /\ \/ /\ w = rep[q].term /\ rep[q].journal[d] # Empty /\ t.journal[d] = w
              /\ WriteReply(rep[q], w, d) = "acked"
           \/ /\ w # rep[q].term /\ t = rep[q] /\ WriteReply(rep[q], w, d) = "stale"
           \/ /\ rep[q].journal[d] = Empty /\ t = rep[q] /\ WriteReply(rep[q], w, d) = "refused"
        /\ w > 0 /\ Marked(rep[q]) => Marked(t)
        /\ w > 0 /\ Marked(rep[q]) /\ Newest(rep[q]) /\ rep[q].journal[d] \in {Missing, Empty, w} => Newest(t)
    <2> HIDE DEF Parts, Landing
    <2> QED BY <1>1, Zenon DEF Contracts, WriteContract
  <1>3. rep' = [rep EXCEPT ![q] = t]
    BY Zenon
  <1> HIDE DEF t
  <1>4. rep'[q] = t /\ \A x \in Replicas \ {q} : rep'[x] = rep[x]
    BY <1>3, Zenon DEF TypeOK
  <1>5. rep' \in [Replicas -> Replica]
    BY <1>2, <1>3, Zenon DEF TypeOK
  <1>6. \A x \in Replicas, e \in Slots :
          \/ rep'[x].journal[e] = rep[x].journal[e]
          \/ x = q /\ e = d /\ w = rep[q].term /\ rep'[x].journal[e] = w /\ rep[x].journal[e] = Missing
    BY <1>2, <1>4, Zenon
  <1>7. \A x \in Replicas, e \in Slots : rep'[x].journal[e] = Empty <=> rep[x].journal[e] = Empty
    BY <1>6, CellFacts, Zenon
  <1>8. AllMarked'
    BY <1>1, <1>2, <1>4, Zenon DEF AllMarked
  <1>9. IndexNewest'
    <2> SUFFICES ASSUME NEW x \in Core PROVE Newest(rep'[x])
      BY Zenon DEF IndexNewest, Core
    <2>1. Newest(rep[x]) /\ x \in Replicas
      BY Zenon DEF IndexNewest, Core
    <2>2. CASE x # q
      BY <1>4, <2>1, <2>2, Zenon
    <2>3. CASE x = q /\ w = rep[q].term
      BY <1>1, <1>2, <1>4, <2>1, <2>3, Zenon
    <2>4. CASE x = q /\ w # rep[q].term
      <3>1. t = rep[q]
        BY <1>2, <2>4, Zenon
      <3> QED BY <1>4, <2>1, <2>4, <3>1, Zenon
    <2> QED BY <2>2, <2>3, <2>4, Zenon
  <1>10. \A x \in Replicas : /\ rep'[x].term = rep[x].term
                             /\ \/ rep'[x].commit = rep[x].commit
                                \/ x = q /\ w = rep[q].term /\ rep'[x].commit <= c
    BY <1>2, <1>4, Zenon
  <1>11. Terms'
    BY <1>10, Zenon DEF Terms, Current, TypeOK
  <1>12. AckedHeld'
    <2> SUFFICES ASSUME NEW a \in acked
                 PROVE  Cardinality({x \in Replicas : rep'[x].journal[a.slot] = a.term}) >= Quorum
      BY Zenon DEF AckedHeld
    <2>1. a.slot \in Slots /\ a.term # Missing
      BY CellFacts, Zenon DEF TypeOK, Ordered
    <2>2. {x \in Replicas : rep[x].journal[a.slot] = a.term} \subseteq {x \in Replicas : rep'[x].journal[a.slot] = a.term}
      BY <1>6, <2>1, Zenon
    <2>3. Majority({x \in Replicas : rep[x].journal[a.slot] = a.term})
      BY Zenon DEF AckedHeld, Majority
    <2>4. Majority({x \in Replicas : rep'[x].journal[a.slot] = a.term})
      BY <2>2, <2>3, Zenon DEF Contracts, QuorumContract
    <2> QED BY <2>4, Zenon DEF Majority
  <1>13. /\ WriteReply(rep[q], w, d) \in {"acked", "stale", "refused"}
         /\ WriteReply(rep[q], w, d) = "acked" => w = rep[q].term /\ rep[q].journal[d] # Empty /\ rep'[q].journal[d] = w
         /\ WriteReply(rep[q], w, d) = "refused" => rep'[q].journal[d] = Empty
    BY <1>2, <1>4, Zenon
  <1> QED BY <1>5, <1>6, <1>7, <1>8, <1>9, <1>10, <1>11, <1>12, <1>13, Zenon DEF Landed

\* The request arrives at a reachable member, or finds it down.
LEMMA DeliverStep ==
    ASSUME NEW d \in Slots, NEW r \in Replicas
    PROVE  Contracts /\ OneQueue /\ IInv /\ Deliver(d, r) => IInv'
  <1> SUFFICES ASSUME Contracts, OneQueue, Parts, Deliver(d, r) PROVE Parts'
    BY Zenon DEF IInv
  <1> USE DEF Parts
  <1>1. /\ round.pc = "idle" /\ login.pc = "idle" /\ leg[d][r] = "wire"
        /\ UNCHANGED <<up, term, sess, outcome, open, hdr, acked, late, round, login, excluded, missed>>
    BY Idle, Zenon DEF Deliver, faultVars
  <1>2. /\ outcome[d] # "none" /\ d > sess.L /\ sess.term > 0 /\ sess.term = term /\ sess.term \in Nat
        /\ hdr[d] \in Int
    BY <1>1, SessionTerm, MarkFacts, Zenon DEF Ordered, TypeOK
  <1>3. CASE ~up[r]
    <2>1. leg' = [leg EXCEPT ![d][r] = "down"] /\ rep' = rep
      BY <1>3, Zenon DEF Deliver
    <2>2. TypeOK'
      BY <1>1, <2>1, Zenon DEF TypeOK, LegStates
    <2>3. /\ AllMarked' /\ Exclusive' /\ Terms' /\ AckedHeld' /\ IndexNewest'
          /\ OneWriter' /\ Verdicts' /\ AppliedIsDecided'
      <3>1. AllMarked' /\ IndexNewest' /\ AckedHeld'
        BY <1>1, <2>1, Zenon DEF AllMarked, IndexNewest, Core, AckedHeld
      <3>2. Exclusive'
        BY <1>1, <2>1, Zenon DEF Exclusive, Scanning, Majority, Core, Current
      <3>3. Terms' /\ OneWriter'
        <4>1. Terms'
          BY <1>1, <2>1, Zenon DEF Terms, Current
        <4>2. OneWriter'
          BY <1>1, <2>1, OneWriterKept, Zenon
        <4> QED BY <4>1, <4>2, Zenon
      <3>4. Verdicts' /\ AppliedIsDecided'
        BY <1>1, <2>1, Zenon DEF Verdicts, Scanning, AppliedIsDecided
      <3> QED BY <3>1, <3>2, <3>3, <3>4, Zenon
    <2>4. \A e \in Slots, q \in Replicas : leg'[e][q] = IF e = d /\ q = r THEN "down" ELSE leg[e][q]
      BY <2>1, Zenon DEF TypeOK
    <2>5. Ordered' /\ LegsTell'
      <3>1. ASSUME NEW e \in Slots, outcome[e] = "none", NEW q \in Replicas PROVE leg'[e][q] = "none"
        <4>1. e # d
          BY <1>2, <3>1, Zenon
        <4>2. leg'[e][q] = leg[e][q]
          BY <2>4, <4>1, Zenon
        <4> QED BY <3>1, <4>2, Zenon DEF Ordered
      <3>2. Ordered'
        BY <1>1, <3>1, Zenon DEF Ordered
      <3>3. \A e \in Slots, q \in Replicas : leg'[e][q] \in {"acked", "refused"} => leg'[e][q] = leg[e][q]
        BY <2>4, Zenon
      <3>4. LegsTell'
        BY <1>1, <2>1, <3>3, ZenonT(30) DEF LegsTell
      <3> QED BY <3>2, <3>4, Zenon
    <2>7. Headers'
      <3>1. \A m \in late : m.slot \in Slots /\ m.to \in Replicas
        BY Zenon DEF TypeOK
      <3>2. \A m \in late : m.term = sess.term => leg'[m.slot][m.to] = "timeout"
        BY <1>1, <2>4, <3>1, Zenon DEF Headers
      <3> QED BY <1>1, <3>2, Zenon DEF Headers
    <2>8. Refusals'
      <3>1. \A e \in Slots, q \in Current : leg'[e][q] \in {"wire", "down"} => leg[e][q] \in {"wire", "down"}
        BY <1>1, <2>4, Zenon DEF Current
      <3>2. \A e \in Slots, q \in Current :
              leg[e][q] \notin {"wire", "timeout"} => leg'[e][q] \notin {"wire", "timeout"}
        BY <2>4, Zenon DEF Current
      <3> QED BY <1>1, <2>1, <3>1, <3>2, Zenon DEF Refusals, Current
    <2>6. Tombstones'
      <3>1. \A q \in Replicas, e \in Slots : leg'[e][q] = "acked" => leg[e][q] = "acked"
        BY <2>4, Zenon
      <3>2. \A q \in Replicas, e \in Slots : rep'[q].journal[e] = Empty <=> rep[q].journal[e] = Empty
        BY <2>1, Zenon
      <3>3. Core' = Core
        BY <1>1, Zenon DEF Core
      <3> QED BY <3>1, <3>2, <3>3, TombstonesKept, Zenon
    <2> QED BY <2>2, <2>3, <2>5, <2>6, <2>7, <2>8, Zenon
  <1>4. CASE up[r]
    <2> DEFINE reply == WriteReply(rep[r], sess.term, d)
    <2>1. rep' = [rep EXCEPT ![r] = do_write(rep[r], sess.term, d, hdr[d])] /\ leg' = [leg EXCEPT ![d][r] = reply]
      BY <1>4, Zenon DEF Deliver
    <2>2. r \in Current /\ rep[r].journal[d] \in {Missing, Empty, sess.term}
      BY <1>2, <1>4, Zenon DEF Terms, Current, OneWriter
    <2>3. /\ rep' \in [Replicas -> Replica] /\ AllMarked' /\ IndexNewest' /\ Terms' /\ AckedHeld'
          /\ \A x \in Replicas, e \in Slots : rep'[x].journal[e] = Empty <=> rep[x].journal[e] = Empty
          /\ \A x \in Replicas, e \in Slots :
               \/ rep'[x].journal[e] = rep[x].journal[e]
               \/ x = r /\ e = d /\ rep'[x].journal[e] = sess.term /\ rep[x].journal[e] = Missing
          /\ \A x \in Replicas : /\ rep'[x].term = rep[x].term
                                 /\ rep'[x].commit = rep[x].commit \/ rep'[x].commit <= hdr[d]
          /\ reply \in {"acked", "stale", "refused"}
          /\ reply = "acked" => rep[r].journal[d] # Empty /\ rep'[r].journal[d] = sess.term
          /\ reply = "refused" => rep'[r].journal[d] = Empty
      <3>1. Landing(r, d, sess.term, hdr[d])
        BY <1>1, <1>2, <2>1, <2>2, Zenon DEF Landing
      <3>2. Landed(r, d, sess.term, hdr[d])
        <4> HIDE DEF Parts
        <4> QED BY <1>2, <3>1, Lands, Zenon
      <3> QED BY <3>2, Zenon DEF Landed
    <2> HIDE DEF reply
    <2>4. \A e \in Slots, q \in Replicas : leg'[e][q] = IF e = d /\ q = r THEN reply ELSE leg[e][q]
      BY <2>1, Zenon DEF TypeOK
    <2>5. TypeOK'
      <3>1. leg' \in [Slots -> [Replicas -> LegStates]]
        BY <2>1, <2>3, Zenon DEF TypeOK, LegStates
      <3> QED BY <1>1, <2>3, <3>1, Zenon DEF TypeOK
    <2>6. Exclusive' /\ Verdicts'
      <3>1. Exclusive'
        BY <1>1, Zenon DEF Exclusive, Scanning
      <3>2. Verdicts'
        BY <1>1, Zenon DEF Verdicts, Scanning
      <3> QED BY <3>1, <3>2, Zenon
    <2>7. Ordered'
      <3>1. ASSUME NEW e \in Slots, outcome[e] = "none", NEW q \in Replicas PROVE leg'[e][q] = "none"
        <4>1. e # d
          BY <1>2, <3>1, Zenon
        <4>2. leg'[e][q] = leg[e][q]
          BY <2>4, <4>1, Zenon
        <4> QED BY <3>1, <4>2, Zenon DEF Ordered
      <3> QED BY <1>1, <3>1, Zenon DEF Ordered
    <2>8. Headers'
      <3>1. \A m \in late : m.slot \in Slots /\ m.to \in Replicas
        BY Zenon DEF TypeOK
      <3>2. \A m \in late : m.term = sess.term => leg'[m.slot][m.to] = "timeout"
        BY <1>1, <2>4, <3>1, Zenon DEF Headers
      <3> QED BY <1>1, <3>2, Zenon DEF Headers
    <2>9. LegsTell'
      <3> SUFFICES ASSUME NEW e \in Slots, NEW q \in Replicas
                   PROVE  /\ leg'[e][q] = "acked" => rep'[q].journal[e] \in {sess.term, Empty}
                          /\ leg'[e][q] = "refused" => rep'[q].journal[e] = Empty
        BY <1>1, Zenon DEF LegsTell
      <3>1. CASE e = d /\ q = r
        BY <2>3, <2>4, <3>1, Zenon
      <3>2. CASE ~(e = d /\ q = r)
        <4>1. leg'[e][q] = leg[e][q] /\ rep'[q].journal[e] = rep[q].journal[e]
          BY <2>3, <2>4, <3>2, Zenon
        <4> QED BY <4>1, Zenon DEF LegsTell
      <3> QED BY <3>1, <3>2, Zenon
    <2>10. Tombstones'
      BY <1>1, <2>3, <2>4, TombstonesKept, Zenon DEF Core
    <2>11. OneWriter'
      <3>1. \A q \in Current : q \in Replicas
        BY Zenon DEF Current
      <3>2. \A q \in Current, e \in Slots : e > sess.L =>
              rep'[q].journal[e] \in (IF outcome[e] = "none" THEN {Missing} ELSE {Missing, Empty, sess.term})
        <4> SUFFICES ASSUME NEW q \in Current, NEW e \in Slots, e > sess.L
                     PROVE  rep'[q].journal[e] \in (IF outcome[e] = "none" THEN {Missing} ELSE {Missing, Empty, sess.term})
          BY Zenon
        <4>1. rep[q].journal[e] \in (IF outcome[e] = "none" THEN {Missing} ELSE {Missing, Empty, sess.term})
          BY <1>2, Zenon DEF OneWriter
        <4>2. rep'[q].journal[e] = rep[q].journal[e] \/ (e = d /\ rep'[q].journal[e] = sess.term)
          BY <2>3, <3>1, Zenon
        <4> HIDE DEF Parts
        <4> QED BY <1>2, <4>1, <4>2, Zenon
      <3>3. \A q \in Current, m \in late : m.term = term => rep'[q].journal[m.slot] \in {Missing, Empty, m.term}
        <4> SUFFICES ASSUME NEW q \in Current, NEW m \in late, m.term = term
                     PROVE  rep'[q].journal[m.slot] \in {Missing, Empty, m.term}
          BY Zenon
        <4>1. m.slot \in Slots
          BY Zenon DEF TypeOK
        <4>2. rep[q].journal[m.slot] \in {Missing, Empty, m.term}
          BY Zenon DEF OneWriter
        <4>3. rep'[q].journal[m.slot] \in {rep[q].journal[m.slot], m.term}
          BY <1>2, <2>3, <3>1, <4>1, Zenon
        <4> QED BY <4>2, <4>3, Zenon
      <3>4. \A q, x \in Current, e \in Slots :
              Holds(rep'[q], e) /\ Holds(rep'[x], e) => rep'[q].journal[e] = rep'[x].journal[e]
        <4> SUFFICES ASSUME NEW q \in Current, NEW x \in Current, NEW e \in Slots, Holds(rep'[q], e), Holds(rep'[x], e)
                     PROVE  rep'[q].journal[e] = rep'[x].journal[e]
          BY ZenonT(30)
        <4>1. CASE e = d
          <5> HIDE DEF Parts
          <5> QED BY <1>2, <3>2, <4>1, CellFacts, Zenon DEF Holds
        <4>2. CASE e # d
          <5>1. rep'[q].journal[e] = rep[q].journal[e] /\ rep'[x].journal[e] = rep[x].journal[e]
            BY <2>3, <3>1, <4>2, Zenon
          <5>2. Holds(rep[q], e) /\ Holds(rep[x], e)
            BY <5>1, Zenon DEF Holds
          <5> QED BY <5>1, <5>2, Zenon DEF OneWriter
        <4> QED BY <4>1, <4>2, Zenon
      <3> HIDE DEF Parts
      <3> QED BY <1>1, <3>2, <3>3, <3>4, OneWriterFrom, Zenon
    <2>12. AppliedIsDecided'
      <3> SUFFICES ASSUME NEW q \in Replicas, NEW e \in Slots,
                          rep'[q].term = term, sess.L < e, e <= rep'[q].commit
                   PROVE  outcome[e] \in Resolved
        BY <1>1, Zenon DEF AppliedIsDecided
      <3>1. rep'[q].commit \in Int /\ e \in Int
        <4>1. rep'[q].commit \in Marks
          BY <2>3, Zenon DEF Replica
        <4> HIDE DEF Parts
        <4> QED BY <4>1, MarkFacts, Zenon
      <3>2. e <= rep[q].commit \/ e <= hdr[d]
        BY <1>2, <2>3, <3>1, MarkFacts, Zenon
      <3> QED BY <1>1, <1>2, <2>3, <3>2, Zenon DEF AppliedIsDecided, Headers
    <2>13. Refusals'
      <3>1. \A q \in Current : q \in Replicas
        BY Zenon DEF Current
      <3>2. \A e \in Slots, q \in Current :
              leg'[e][q] \in {"wire", "down"} /\ Holds(rep'[q], e) =>
                 leg[e][q] \in {"wire", "down"} /\ Holds(rep[q], e)
        BY <2>3, <2>4, <3>1 DEF Holds
      <3>3. ASSUME NEW e \in Slots, outcome[e] = "empty"
            PROVE  \/ rep'[Leader].journal[e] = Empty
                   \/ \A q \in Current : ~Holds(rep'[q], e) /\ leg'[e][q] \notin {"wire", "timeout"}
        <4>1. CASE rep[Leader].journal[e] = Empty
          BY <2>3, <4>1, ClusterAssumption, Zenon
        <4>2. CASE \A q \in Current : ~Holds(rep[q], e) /\ leg[e][q] \notin {"wire", "timeout"}
          <5>1. e # d
            BY <1>1, <2>2, <4>2, Zenon
          <5> QED BY <2>3, <2>4, <3>1, <4>2, <5>1, ZenonT(30) DEF Holds
        <4> QED BY <3>3, <4>1, <4>2, Zenon DEF Refusals
      <3> QED BY <1>1, <3>2, <3>3, Zenon DEF Refusals, Current
    <2> QED BY <2>3, <2>5, <2>6, <2>7, <2>8, <2>9, <2>10, <2>11, <2>12, <2>13, Zenon
  <1> QED BY <1>3, <1>4, Zenon

\* A timed-out write lands late: only in its own term, and only where no tombstone stands.
LEMMA LateWriteStep ==
    ASSUME NEW m \in late
    PROVE  Contracts /\ OneQueue /\ IInv /\ late_write(m) => IInv'
  <1> SUFFICES ASSUME Contracts, OneQueue, Parts, late_write(m) PROVE Parts'
    BY Zenon DEF IInv
  <1> USE DEF Parts
  <1> DEFINE q == m.to
             d == m.slot
             w == m.term
             c == m.commit
  <1>1. /\ round.pc = "idle" /\ login.pc = "idle" /\ up[q] /\ late' = late \ {m}
        /\ UNCHANGED <<up, term, sess, outcome, open, leg, hdr, acked, round, login, excluded, missed>>
    BY Idle, Zenon DEF late_write, clientVars, faultVars
  <1>2. q \in Replicas /\ d \in Slots /\ w \in Nat /\ c \in Int /\ w > 0
    BY LateMessage, Zenon
  <1>3. /\ q \in Current /\ (w = rep[q].term => w = term)
        /\ w = term => \A x \in Current : rep[x].journal[d] \in {Missing, Empty, w}
    BY <1>1, LateMember, Zenon
  <1>4. sess.term = w => leg[d][q] = "timeout" /\ outcome[d] # "none"
    BY <1>2, Zenon DEF Headers, Ordered
  <1>5. rep' = [rep EXCEPT ![q] = do_write(rep[q], w, d, c)]
    BY Zenon DEF late_write
  <1>6. Landing(q, d, w, c)
    <2> HIDE DEF q, d, w, c
    <2> QED BY <1>1, <1>2, <1>3, <1>5, Zenon DEF Landing
  <1>7. \A e \in Slots : sess.term > 0 /\ e <= c /\ sess.L < e /\ w = term => outcome[e] \in Resolved
    BY <1>1, LateMember, Zenon
  <1> HIDE DEF q, d, w, c
  <1>8. Landed(q, d, w, c)
    <2> HIDE DEF Parts
    <2> QED BY <1>2, <1>6, Lands, Zenon
  <1>9. /\ rep' \in [Replicas -> Replica] /\ AllMarked' /\ IndexNewest' /\ Terms' /\ AckedHeld'
        /\ \A x \in Replicas, e \in Slots : rep'[x].journal[e] = Empty <=> rep[x].journal[e] = Empty
        /\ \A x \in Replicas, e \in Slots :
             \/ rep'[x].journal[e] = rep[x].journal[e]
             \/ x = q /\ e = d /\ w = term /\ rep'[x].journal[e] = w /\ rep[x].journal[e] = Missing
        /\ \A x \in Replicas : /\ rep'[x].term = rep[x].term
                               /\ \/ rep'[x].commit = rep[x].commit
                                  \/ w = term /\ rep'[x].commit <= c
    BY <1>3, <1>8, Zenon DEF Landed
  <1>10. /\ late' \subseteq late /\ sess.term \in {0, term} /\ term \in Nat /\ (sess.term > 0 => sess.term = term)
         /\ sess.term = 0 => \A e \in Slots : outcome[e] = "none" /\ \A x \in Replicas : leg[e][x] = "none"
    BY <1>1, SessionTerm, Zenon
  <1>11. w = term => leg[d][q] \in {"none", "timeout"} /\ (sess.term > 0 => outcome[d] # "none")
    BY <1>2, <1>4, <1>10, Zenon
  <1>12. TypeOK'
    BY <1>1, <1>9, <1>10, Zenon DEF TypeOK
  <1>13. Exclusive'
    BY <1>1, Zenon DEF Exclusive, Scanning
  <1>14. Verdicts'
    BY <1>1, Zenon DEF Verdicts, Scanning
  <1>15. Ordered' /\ Headers'
    BY <1>1, <1>10, FewerLate, Zenon
  <1>16. LegsTell'
    BY <1>1, <1>9, <1>11, ZenonT(30) DEF LegsTell
  <1>17. Tombstones'
    BY <1>1, <1>9, TombstonesKept, Zenon DEF Core
  <1>18. OneWriter'
    <2>1. \A x \in Current : x \in Replicas
      BY Zenon DEF Current
    <2>2. \A x \in Current, e \in Slots : sess.term > 0 /\ e > sess.L =>
            rep'[x].journal[e] \in (IF outcome[e] = "none" THEN {Missing} ELSE {Missing, Empty, sess.term})
      <3> SUFFICES ASSUME NEW x \in Current, NEW e \in Slots, sess.term > 0, e > sess.L
                   PROVE  rep'[x].journal[e] \in (IF outcome[e] = "none" THEN {Missing} ELSE {Missing, Empty, sess.term})
        BY Zenon
      <3>1. rep[x].journal[e] \in (IF outcome[e] = "none" THEN {Missing} ELSE {Missing, Empty, sess.term})
        BY Zenon DEF OneWriter
      <3>2. rep'[x].journal[e] = rep[x].journal[e] \/ (e = d /\ w = term /\ rep'[x].journal[e] = w)
        BY <1>9, <2>1, Zenon
      <3> HIDE DEF Parts
      <3>3. sess.term = term
        BY <1>10, Zenon
      <3> QED BY <1>11, <3>1, <3>2, <3>3, Zenon
    <2>3. \A x \in Current, n \in late' : n.term = term => rep'[x].journal[n.slot] \in {Missing, Empty, n.term}
      <3> SUFFICES ASSUME NEW x \in Current, NEW n \in late', n.term = term
                   PROVE  rep'[x].journal[n.slot] \in {Missing, Empty, n.term}
        BY Zenon
      <3>1. x \in Replicas /\ n \in late /\ n.slot \in Slots
        BY <1>10, <2>1, LateMessage, Zenon
      <3>2. rep[x].journal[n.slot] \in {Missing, Empty, n.term}
        BY <3>1, Zenon DEF OneWriter
      <3>3. rep'[x].journal[n.slot] \in {rep[x].journal[n.slot], n.term}
        BY <1>9, <3>1, Zenon
      <3> QED BY <3>2, <3>3, Zenon
    <2>4. \A x, y \in Current, e \in Slots :
            Holds(rep'[x], e) /\ Holds(rep'[y], e) => rep'[x].journal[e] = rep'[y].journal[e]
      <3> SUFFICES ASSUME NEW x \in Current, NEW y \in Current, NEW e \in Slots, Holds(rep'[x], e), Holds(rep'[y], e)
                   PROVE  rep'[x].journal[e] = rep'[y].journal[e]
        BY ZenonT(30)
      <3>1. CASE e = d /\ w = term
        <4>1. rep'[x].journal[e] \in {Missing, Empty, w} /\ rep'[y].journal[e] \in {Missing, Empty, w}
          BY <1>3, <1>9, <2>1, <3>1, ZenonT(30)
        <4> QED BY <4>1, CellFacts, Zenon DEF Holds
      <3>2. CASE ~(e = d /\ w = term)
        <4>1. rep'[x].journal[e] = rep[x].journal[e] /\ rep'[y].journal[e] = rep[y].journal[e]
          BY <1>9, <2>1, <3>2, Zenon
        <4>2. Holds(rep[x], e) /\ Holds(rep[y], e)
          BY <4>1, Zenon DEF Holds
        <4> QED BY <4>1, <4>2, Zenon DEF OneWriter
      <3> QED BY <3>1, <3>2, Zenon
    <2> HIDE DEF Parts
    <2> QED BY <1>1, <2>2, <2>3, <2>4, OneWriterFrom, Zenon
  <1>19. AppliedIsDecided'
    <2> SUFFICES ASSUME sess.term = term, NEW x \in Replicas, NEW e \in Slots,
                        rep'[x].term = term, sess.L < e, e <= rep'[x].commit
                 PROVE  outcome[e] \in Resolved
      BY <1>1, Zenon DEF AppliedIsDecided
    <2>1. rep'[x].commit \in Int /\ e \in Int
      <3>1. rep'[x].commit \in Marks
        BY <1>9, Zenon DEF Replica
      <3> HIDE DEF Parts
      <3> QED BY <3>1, MarkFacts, Zenon
    <2>2. e <= rep[x].commit \/ (w = term /\ e <= c)
      BY <1>2, <1>9, <2>1, MarkFacts, Zenon
    <2>3. CASE e <= rep[x].commit
      BY <1>1, <1>9, <2>3, Zenon DEF AppliedIsDecided
    <2>4. CASE w = term /\ e <= c
      BY <1>2, <1>7, <2>4, Zenon
    <2> QED BY <2>2, <2>3, <2>4, Zenon
  <1>20. Refusals'
    <2>1. \A x \in Current : x \in Replicas
      BY Zenon DEF Current
    <2>2. \A e \in Slots, x \in Current :
            leg[e][x] \in {"wire", "down"} /\ Holds(rep'[x], e) => Holds(rep[x], e)
      BY <1>9, <1>11, <2>1, Zenon DEF Holds
    <2>3. ASSUME NEW e \in Slots, outcome[e] = "empty"
          PROVE  \/ rep'[Leader].journal[e] = Empty
                 \/ \A x \in Current : ~Holds(rep'[x], e) /\ leg[e][x] \notin {"wire", "timeout"}
      <3>1. CASE rep[Leader].journal[e] = Empty
        BY <1>9, <3>1, ClusterAssumption, Zenon
      <3>2. CASE \A x \in Current : ~Holds(rep[x], e) /\ leg[e][x] \notin {"wire", "timeout"}
        <4>1. sess.term > 0 /\ sess.term = term
          BY <1>10, <2>3, Zenon DEF Ordered
        <4>2. e = d => w # term
          BY <1>3, <1>4, <3>2, <4>1, Zenon
        <4> QED BY <1>9, <2>1, <3>2, <4>2, Zenon DEF Holds
      <3> QED BY <2>3, <3>1, <3>2, Zenon DEF Refusals
    <2> QED BY <1>1, <2>2, <2>3, Zenon DEF Refusals, Current
  <1> QED BY <1>9, <1>12, <1>13, <1>14, <1>15, <1>16, <1>17, <1>18, <1>19, <1>20, Zenon
-----------------------------------------------------------------------------
\* The verdict reaches the live set.  A tombstone never meets an acknowledged write, because some quorum
\* does not have it; a copy never meets a tombstone, because a tombstone would be on a quorum.
LEMMA RoundMarkStep == Contracts /\ IInv /\ RoundMark => IInv'
  <1> SUFFICES ASSUME Contracts, Parts, RoundMark PROVE Parts'
    BY Zenon DEF IInv
  <1> USE DEF Parts
  <1> DEFINE d == round.d
             v == round.verdict
             live == round.live
             t(r) == Decide(rep[r], d, v)
  <1>1. /\ round.pc = "mark" /\ login.pc = "idle"
        /\ rep' = [r \in Replicas |-> IF r \in live THEN t(r) ELSE rep[r]]
        /\ UNCHANGED <<up, term, sess, outcome, open, leg, hdr, acked, late, login, missed, excluded>>
    BY Zenon DEF RoundMark, OnLive, Decide, clientVars, faultVars, Exclusive
  <1>2. /\ round'.pc = NextScan(d + 1, round.upto) /\ round'.term = round.term /\ round'.upto = round.upto
        /\ round'.live = live /\ round'.d = d + 1
        /\ round' \in [pc : {"idle", "peek", "mark", "sync", "reply"}, term : Nat, upto : Marks,
                  live : SUBSET Replicas, d : Nat \cup {-1}, verdict : Cells, empties : SUBSET Slots]
    <2>1. round \in [pc : {"idle", "peek", "mark", "sync", "reply"}, term : Nat, upto : Marks,
                  live : SUBSET Replicas, d : Nat \cup {-1}, verdict : Cells, empties : SUBSET Slots]
      BY Zenon DEF TypeOK
    <2>2. round' = [round EXCEPT !.pc = NextScan(d + 1, round.upto), !.d = d + 1, !.verdict = Missing]
      BY Zenon DEF RoundMark, OnLive
    <2>3. round' = [pc |-> NextScan(d + 1, round.upto), term |-> round.term, upto |-> round.upto,
                    live |-> round.live, d |-> d + 1, verdict |-> Missing, empties |-> round.empties]
      BY <2>1, <2>2, Zenon
    <2>4. d + 1 \in Nat \cup {-1} /\ NextScan(d + 1, round.upto) \in {"idle", "peek", "mark", "sync", "reply"}
      BY <1>1, ScanFacts, Zenon DEF Exclusive, Scanning, NextScan
    <2>5. Missing \in Cells
      BY Zenon DEF Cells
    <2> HIDE DEF d
    <2> QED BY <2>1, <2>3, <2>4, <2>5, Zenon
  <1>3. /\ Majority(live) /\ live \subseteq Replicas /\ Leader \in live /\ live \subseteq Current /\ Core \subseteq live
        /\ d \in Slots /\ d <= round.upto
    <2>1. Majority(live) /\ Leader \in live /\ live \cap missed = {} /\ Core \subseteq live /\ d >= 0 /\ d <= round.upto
      BY <1>1, Zenon DEF Exclusive, Scanning
    <2>2. live \subseteq Replicas
      BY <2>1, Zenon DEF Majority
    <2>3. round.upto \in Slots
      BY <1>1, Zenon DEF Exclusive
    <2>4. d \in Slots
      BY <2>1, <2>3, ScanFacts, Zenon
    <2> QED BY <2>1, <2>2, <2>4, Zenon DEF Current
  <1>4. /\ sess.term = term /\ sess.term > 0 /\ round.term = sess.term
        /\ round.upto \in Slots /\ outcome[round.upto] = "failed"
    BY <1>1, Zenon DEF Exclusive
  <1>5. /\ v = Empty => \/ \E r \in live : rep[r].journal[d] = Empty
                        \/ \A r \in live : rep[r].journal[d] = Missing
        /\ v # Empty => /\ \A r \in live : rep[r].journal[d] # Empty
                        /\ \E r \in live : Holds(rep[r], d) /\ rep[r].journal[d] = v
    BY <1>1, Zenon DEF Verdicts
  <1>6. v \in Cells /\ v # Missing
    <2>1. v \in Cells
      BY Zenon DEF TypeOK
    <2>2. v = Empty \/ v > 0
      BY <1>5, Zenon DEF Holds
    <2> QED BY <2>1, <2>2, CellFacts, Zenon
  <1>7. \A r \in Replicas :
          /\ t(r) \in Replica /\ t(r).term = rep[r].term /\ t(r).commit = rep[r].commit /\ t(r).index = rep[r].index
          /\ \A e \in Slots \ {d} : t(r).journal[e] = rep[r].journal[e]
          /\ t(r).journal[d] = IF v # Empty /\ Present(rep[r], d) THEN rep[r].journal[d] ELSE v
          /\ Marked(rep[r]) => Marked(t(r))
          /\ Newest(rep[r]) /\ Marked(rep[r]) /\ (v = Empty => ~Holds(rep[r], d)) => Newest(t(r))
    <2>1. \A r \in Replicas : rep[r] \in Replica
      BY Zenon DEF TypeOK
    <2> HIDE DEF Parts, d, v
    <2> QED BY <1>3, <1>6, <2>1, Zenon DEF Contracts, DecideContract
  <1>20. /\ \A e \in Slots : sess.L < e /\ e < d /\ e <= round.upto /\ Pending(e) =>
               \/ \A r \in live : rep[r].journal[e] = Empty
               \/ \A r \in live : rep[r].journal[e] = sess.term
    BY <1>1, Zenon DEF Verdicts, Scanning
  <1>21. d \in Int /\ round.upto \in Int /\ d + 1 >= 0
    BY <1>3, <1>4, <1>1, ScanFacts, Zenon DEF Exclusive, Scanning
  <1> HIDE DEF t, d, v, live
  <1>8. \A r \in Replicas : rep'[r] = IF r \in live THEN t(r) ELSE rep[r]
    BY <1>1, Zenon
  <1>9. /\ rep' \in [Replicas -> Replica]
        /\ \A r \in Replicas : rep'[r].term = rep[r].term /\ rep'[r].commit = rep[r].commit
        /\ \A r \in Replicas, e \in Slots : e # d => rep'[r].journal[e] = rep[r].journal[e]
        /\ \A r \in Replicas : r \notin live => rep'[r] = rep[r]
    BY <1>1, <1>7, <1>8, ZenonT(30) DEF TypeOK
  <1>10. d > sess.L => outcome[d] # "none"
    <2>1. d = round.upto \/ d < round.upto
      BY <1>3, <1>21, MarkFacts, Zenon
    <2> QED BY <1>3, <1>4, <2>1, Zenon DEF Ordered
  \* The slot after the verdict: a tombstone on the whole live set, or the same copy on it.
  <1>11. ASSUME v = Empty
         PROVE  /\ IndexNewest' /\ OneWriter' /\ Tombstones' /\ LegsTell' /\ AckedHeld' /\ Refusals'
                /\ \A r \in live : rep'[r].journal[d] = Empty
    <2>1. \A r \in live : rep'[r].journal[d] = Empty
      BY <1>3, <1>7, <1>8, <1>11, Zenon
    <2>2. \E Q \in SUBSET Replicas :
            /\ Majority(Q)
            /\ \A q \in Q : /\ rep[q].journal[d] \in {Missing, Empty} /\ rep'[q].journal[d] = Empty
                            /\ leg[d][q] # "acked"
      <3>1. CASE \E r \in live : rep[r].journal[d] = Empty
        <4>1. PICK Q \in SUBSET Replicas :
                Majority(Q) /\ \A q \in Q : rep[q].journal[d] = Empty /\ leg[d][q] # "acked"
          BY <1>3, <3>1, Zenon DEF Tombstones
        <4>2. \A q \in Q : rep'[q].journal[d] = Empty
          BY <1>9, <2>1, <4>1, Zenon
        <4> QED BY <4>1, <4>2, Zenon
      <3>2. CASE \A r \in live : rep[r].journal[d] = Missing
        <4>1. \A q \in live : leg[d][q] # "acked"
          BY <1>3, <1>4, <3>2, CellFacts, Zenon DEF LegsTell
        <4> QED BY <1>3, <2>1, <3>2, <4>1, Zenon
      <3> QED BY <1>5, <1>11, <3>1, <3>2, Zenon
    <2>3. \A r \in Core : ~Holds(rep[r], d)
      <3>1. CASE \E r \in live : rep[r].journal[d] = Empty
        <4>1. \A r \in Core : rep[r].journal[d] = Empty
          BY <1>3, <3>1, Zenon DEF Tombstones
        <4> QED BY <4>1, CellFacts, Zenon DEF Holds
      <3>2. CASE \A r \in live : rep[r].journal[d] = Missing
        BY <1>3, <3>2, CellFacts, Zenon DEF Holds
      <3> QED BY <1>5, <1>11, <3>1, <3>2, Zenon
    <2>4. IndexNewest'
      BY <1>1, <1>3, <1>7, <1>8, <1>11, <2>3, Zenon DEF IndexNewest, AllMarked, Core
    <2>5. OneWriter'
      <3>1. \A r \in Current : r \in Replicas
        BY Zenon DEF Current
      <3>2. \A r \in Current, e \in Slots :
              rep'[r].journal[e] = rep[r].journal[e] \/ (e = d /\ rep'[r].journal[e] = Empty)
        BY <1>9, <2>1, <3>1, Zenon
      <3>3. \A r \in Current, e \in Slots : e > sess.L =>
              rep'[r].journal[e] \in (IF outcome[e] = "none" THEN {Missing} ELSE {Missing, Empty, sess.term})
        BY <1>4, <1>10, <3>2, Zenon DEF OneWriter
      <3>4. \A r \in Current, m \in late : m.term = term => rep'[r].journal[m.slot] \in {Missing, Empty, m.term}
        <4> SUFFICES ASSUME NEW r \in Current, NEW m \in late, m.term = term
                     PROVE  rep'[r].journal[m.slot] \in {Missing, Empty, m.term}
          BY Zenon
        <4>1. m.slot \in Slots
          BY Zenon DEF TypeOK
        <4>2. rep[r].journal[m.slot] \in {Missing, Empty, m.term}
          BY Zenon DEF OneWriter
        <4>3. rep'[r].journal[m.slot] \in {rep[r].journal[m.slot], Empty}
          BY <3>2, <4>1, Zenon
        <4> QED BY <4>2, <4>3, Zenon
      <3>5. \A r \in Current, e \in Slots : Holds(rep'[r], e) => rep'[r].journal[e] = rep[r].journal[e]
        BY <3>2, CellFacts, Zenon DEF Holds
      <3>6. \A r, s \in Current, e \in Slots :
              Holds(rep'[r], e) /\ Holds(rep'[s], e) => rep'[r].journal[e] = rep'[s].journal[e]
        <4> SUFFICES ASSUME NEW r \in Current, NEW s \in Current, NEW e \in Slots, Holds(rep'[r], e), Holds(rep'[s], e)
                     PROVE  rep'[r].journal[e] = rep'[s].journal[e]
          BY Zenon
        <4>1. rep'[r].journal[e] = rep[r].journal[e] /\ rep'[s].journal[e] = rep[s].journal[e]
          BY <3>5, Zenon
        <4>2. Holds(rep[r], e) /\ Holds(rep[s], e)
          BY <4>1, Zenon DEF Holds
        <4> QED BY <4>1, <4>2, Zenon DEF OneWriter
      <3> HIDE DEF Parts
      <3> QED BY <1>1, <3>3, <3>4, <3>6, OneWriterFrom, Zenon
    <2>6. Tombstones'
      <3> SUFFICES ASSUME NEW e \in Slots, NEW x \in Replicas, rep'[x].journal[e] = Empty
                   PROVE  /\ \E Q \in SUBSET Replicas :
                               Majority(Q) /\ \A q \in Q : rep'[q].journal[e] = Empty /\ leg[e][q] # "acked"
                          /\ \A r \in Core : rep'[r].journal[e] = Empty
        BY <1>1, Zenon DEF Tombstones, Majority, Core
      <3>1. CASE e = d
        BY <1>3, <2>1, <2>2, <3>1, Zenon
      <3>2. CASE e # d
        <4>1. \A r \in Core : r \in Replicas
          BY Zenon DEF Core
        <4>2. PICK Q \in SUBSET Replicas :
                Majority(Q) /\ \A q \in Q : rep[q].journal[e] = Empty /\ leg[e][q] # "acked"
          BY <1>9, <3>2, Zenon DEF Tombstones
        <4>3. \A r \in Core : rep[r].journal[e] = Empty
          BY <1>9, <3>2, Zenon DEF Tombstones
        <4>4. \A q \in Q : rep'[q].journal[e] = Empty
          BY <1>9, <3>2, <4>2, Zenon
        <4>5. \A r \in Core : rep'[r].journal[e] = Empty
          BY <1>9, <3>2, <4>1, <4>3, Zenon
        <4> QED BY <4>2, <4>4, <4>5, Zenon
      <3> QED BY <3>1, <3>2, Zenon
    <2>7. LegsTell'
      <3>1. \A r \in Replicas, e \in Slots :
              rep'[r].journal[e] = rep[r].journal[e] \/ rep'[r].journal[e] = Empty
        BY <1>9, <2>1, Zenon
      <3> QED BY <1>1, <3>1, Zenon DEF LegsTell
    <2>8. AckedHeld'
      <3> SUFFICES ASSUME NEW a \in acked
                   PROVE  Cardinality({x \in Replicas : rep'[x].journal[a.slot] = a.term}) >= Quorum
        BY <1>1, Zenon DEF AckedHeld
      <3> DEFINE H == {x \in Replicas : rep[x].journal[a.slot] = a.term}
      <3>1. a.slot \in Slots /\ a.term > 0 /\ a.term \in Nat
        BY Zenon DEF TypeOK, Ordered
      <3>2. Majority(H)
        BY Zenon DEF AckedHeld, Majority
      <3>3. a.slot # d
        <4> SUFFICES ASSUME a.slot = d PROVE FALSE
          BY Zenon
        <4>1. PICK Q \in SUBSET Replicas : Majority(Q) /\ \A q \in Q : rep[q].journal[d] \in {Missing, Empty}
          BY <2>2, Zenon
        <4>2. PICK x \in Replicas : x \in H /\ x \in Q
          <5>1. H \in SUBSET Replicas
            BY Zenon
          <5> HIDE DEF H
          <5> QED BY <3>2, <4>1, <5>1, Zenon DEF Contracts, QuorumContract
        <4> QED BY <3>1, <4>1, <4>2, CellFacts, Zenon
      <3>4. H \subseteq {x \in Replicas : rep'[x].journal[a.slot] = a.term}
        BY <1>9, <3>1, <3>3, Zenon
      <3>5. Majority({x \in Replicas : rep'[x].journal[a.slot] = a.term})
        BY <3>2, <3>4, Zenon DEF Contracts, QuorumContract
      <3> QED BY <3>5, Zenon DEF Majority
    <2>9. Refusals'
      <3>1. \A r \in Current : r \in Replicas
        BY Zenon DEF Current
      <3>2. \A r \in Current, e \in Slots : Holds(rep'[r], e) => Holds(rep[r], e)
        BY <1>9, <2>1, <3>1, CellFacts, Zenon DEF Holds
      <3>3. \A e \in Slots : rep[Leader].journal[e] = Empty => rep'[Leader].journal[e] = Empty
        BY <1>9, <2>1, ClusterAssumption, Zenon
      <3>4. round'.pc # "idle" /\ round'.upto = round.upto
        BY <1>2, Zenon DEF NextScan
      <3> QED BY <1>1, <3>2, <3>3, <3>4, Zenon DEF Refusals, Current
    <2> QED BY <2>1, <2>4, <2>5, <2>6, <2>7, <2>8, <2>9, Zenon
  <1>12. ASSUME v # Empty
         PROVE  /\ IndexNewest' /\ OneWriter' /\ Tombstones' /\ LegsTell' /\ AckedHeld' /\ Refusals'
                /\ d > sess.L => \A r \in live : rep'[r].journal[d] = sess.term
    <2>1. PICK x \in live : Holds(rep[x], d) /\ rep[x].journal[d] = v
      BY <1>5, <1>12, Zenon
    <2>2. x \in Current /\ v > 0
      BY <1>3, <2>1, Zenon DEF Holds
    <2>3. \A r \in Current : Holds(rep[r], d) => rep[r].journal[d] = v
      BY <1>3, <2>1, <2>2, Zenon DEF OneWriter
    <2>4. \A r \in live : (rep[r].journal[d] = v \/ rep[r].journal[d] = Missing) /\ rep'[r].journal[d] = v
      <3> SUFFICES ASSUME NEW r \in live
                   PROVE  (rep[r].journal[d] = v \/ rep[r].journal[d] = Missing) /\ rep'[r].journal[d] = v
        BY Zenon
      <3>1. r \in Replicas /\ r \in Current /\ rep[r].journal[d] \in Cells /\ rep[r].journal[d] # Empty
        <4>1. r \in Replicas /\ r \in Current
          BY <1>3, Zenon
        <4>2. rep[r].journal[d] \in Cells
          BY <1>3, <4>1, ReplicaFacts, Zenon
        <4> QED BY <1>5, <1>12, <4>1, <4>2, Zenon
      <3>2. rep[r].journal[d] = Missing \/ Holds(rep[r], d)
        BY <3>1, CellFacts, Zenon DEF Holds
      <3>3. rep'[r].journal[d] = IF Present(rep[r], d) THEN rep[r].journal[d] ELSE v
        BY <1>7, <1>8, <1>12, <3>1, Zenon
      <3> QED BY <2>3, <3>1, <3>2, <3>3, Zenon DEF Present
    <2>5. \A r \in Replicas, e \in Slots :
            \/ rep'[r].journal[e] = rep[r].journal[e]
            \/ r \in live /\ e = d /\ rep[r].journal[e] = Missing /\ rep'[r].journal[e] = v
      <3> SUFFICES ASSUME NEW r \in Replicas, NEW e \in Slots
                   PROVE  \/ rep'[r].journal[e] = rep[r].journal[e]
                          \/ r \in live /\ e = d /\ rep[r].journal[e] = Missing /\ rep'[r].journal[e] = v
        BY Zenon
      <3>1. CASE e = d /\ r \in live
        BY <2>4, <3>1, Zenon
      <3>2. CASE e # d \/ r \notin live
        BY <1>9, <3>2, Zenon
      <3> QED BY <3>1, <3>2, Zenon
    <2>6. \A r \in Replicas, e \in Slots : rep'[r].journal[e] = Empty <=> rep[r].journal[e] = Empty
      BY <2>2, <2>5, CellFacts, Zenon
    <2>7. IndexNewest'
      BY <1>1, <1>3, <1>7, <1>8, <1>12, Zenon DEF IndexNewest, AllMarked, Core
    <2>8. d > sess.L => v = sess.term
      <3>1. d > sess.L => rep[x].journal[d] \in (IF outcome[d] = "none" THEN {Missing} ELSE {Missing, Empty, sess.term})
        BY <1>3, <1>4, <2>2, Zenon DEF OneWriter
      <3>2. rep[x].journal[d] = v /\ v # Missing /\ v # Empty
        BY <2>1, <2>2, CellFacts, Zenon
      <3> HIDE DEF Parts
      <3> QED BY <3>1, <3>2, Zenon
    <2>9. OneWriter'
      <3>1. \A r \in Current : r \in Replicas
        BY Zenon DEF Current
      <3>2. \A r \in Current, e \in Slots : e > sess.L =>
              rep'[r].journal[e] \in (IF outcome[e] = "none" THEN {Missing} ELSE {Missing, Empty, sess.term})
        <4> SUFFICES ASSUME NEW r \in Current, NEW e \in Slots, e > sess.L
                     PROVE  rep'[r].journal[e] \in (IF outcome[e] = "none" THEN {Missing} ELSE {Missing, Empty, sess.term})
          BY Zenon
        <4>1. rep[r].journal[e] \in (IF outcome[e] = "none" THEN {Missing} ELSE {Missing, Empty, sess.term})
          BY <1>4, Zenon DEF OneWriter
        <4>2. rep'[r].journal[e] = rep[r].journal[e] \/ (e = d /\ rep'[r].journal[e] = v)
          BY <2>5, <3>1, Zenon
        <4> HIDE DEF Parts
        <4> QED BY <1>10, <2>8, <4>1, <4>2, Zenon
      <3>3. \A m \in late : m.term = term /\ m.slot = d => v = m.term
        <4> SUFFICES ASSUME NEW m \in late, m.term = term, m.slot = d PROVE v = m.term
          BY Zenon
        <4>1. rep[x].journal[m.slot] \in {Missing, Empty, m.term}
          BY <2>2, Zenon DEF OneWriter
        <4>2. rep[x].journal[m.slot] = v /\ v # Missing /\ v # Empty
          BY <2>1, <2>2, CellFacts, Zenon
        <4> QED BY <4>1, <4>2, Zenon
      <3>4. \A r \in Current, m \in late : m.term = term => rep'[r].journal[m.slot] \in {Missing, Empty, m.term}
        <4> SUFFICES ASSUME NEW r \in Current, NEW m \in late, m.term = term
                     PROVE  rep'[r].journal[m.slot] \in {Missing, Empty, m.term}
          BY Zenon
        <4>1. m.slot \in Slots
          BY Zenon DEF TypeOK
        <4>2. rep[r].journal[m.slot] \in {Missing, Empty, m.term}
          BY Zenon DEF OneWriter
        <4>3. rep'[r].journal[m.slot] \in {rep[r].journal[m.slot], m.term}
          BY <2>5, <3>1, <3>3, <4>1, Zenon
        <4> QED BY <4>2, <4>3, Zenon
      <3>5. \A r, s \in Current, e \in Slots :
              Holds(rep'[r], e) /\ Holds(rep'[s], e) => rep'[r].journal[e] = rep'[s].journal[e]
        <4> SUFFICES ASSUME NEW r \in Current, NEW s \in Current, NEW e \in Slots, Holds(rep'[r], e), Holds(rep'[s], e)
                     PROVE  rep'[r].journal[e] = rep'[s].journal[e]
          BY Zenon
        <4>1. CASE e = d
          <5>1. rep'[r].journal[d] = v
            BY <2>3, <2>5, <3>1, <4>1, Zenon DEF Holds
          <5>2. rep'[s].journal[d] = v
            BY <2>3, <2>5, <3>1, <4>1, Zenon DEF Holds
          <5> QED BY <4>1, <5>1, <5>2, Zenon
        <4>2. CASE e # d
          <5>1. rep'[r].journal[e] = rep[r].journal[e] /\ rep'[s].journal[e] = rep[s].journal[e]
            BY <1>9, <3>1, <4>2, Zenon
          <5>2. Holds(rep[r], e) /\ Holds(rep[s], e)
            BY <5>1, Zenon DEF Holds
          <5> QED BY <5>1, <5>2, Zenon DEF OneWriter
        <4> QED BY <4>1, <4>2, Zenon
      <3> HIDE DEF Parts
      <3> QED BY <1>1, <3>2, <3>4, <3>5, OneWriterFrom, ZenonT(30)
    <2>10. Tombstones'
      BY <1>1, <2>6, TombstonesKept, Zenon DEF Core
    <2>11. LegsTell'
      <3>1. Missing # sess.term /\ Missing # Empty
        BY <1>4, CellFacts, Zenon
      <3> QED BY <1>1, <2>5, <3>1, Zenon DEF LegsTell
    <2>12. AckedHeld'
      <3> SUFFICES ASSUME NEW a \in acked
                   PROVE  Cardinality({y \in Replicas : rep'[y].journal[a.slot] = a.term}) >= Quorum
        BY <1>1, Zenon DEF AckedHeld
      <3>1. a.slot \in Slots /\ a.term # Missing
        <4>1. a.slot \in Slots /\ a.term > 0
          BY Zenon DEF TypeOK, Ordered
        <4> QED BY <4>1, CellFacts, Zenon
      <3>2. {y \in Replicas : rep[y].journal[a.slot] = a.term} \subseteq {y \in Replicas : rep'[y].journal[a.slot] = a.term}
        BY <2>5, <3>1, Zenon
      <3>3. Majority({y \in Replicas : rep[y].journal[a.slot] = a.term})
        BY Zenon DEF AckedHeld, Majority
      <3>4. Majority({y \in Replicas : rep'[y].journal[a.slot] = a.term})
        BY <3>2, <3>3, Zenon DEF Contracts, QuorumContract
      <3> QED BY <3>4, Zenon DEF Majority
    <2>13. Refusals'
      <3>1. \A r \in Current : r \in Replicas
        BY Zenon DEF Current
      <3>2. round'.pc # "idle" /\ round'.upto = round.upto /\ round.pc # "idle"
        BY <1>1, <1>2, Zenon DEF NextScan
      <3>3. \A r \in Current, e \in Slots : Holds(rep'[r], e) => Holds(rep[r], e) \/ e = d
        BY <1>9, <3>1, Zenon DEF Holds
      <3>4. \A e \in Slots : rep'[Leader].journal[e] = Empty <=> rep[Leader].journal[e] = Empty
        BY <2>6, ClusterAssumption, Zenon
      <3>5. outcome[d] = "empty" => rep[Leader].journal[d] = Empty
        BY <1>3, <2>1, <2>2, Zenon DEF Refusals
      <3> QED BY <1>1, <1>3, <3>2, <3>3, <3>4, <3>5, Zenon DEF Refusals, Current
    <2> QED BY <2>4, <2>7, <2>8, <2>9, <2>10, <2>11, <2>12, <2>13, Zenon
  <1>13. TypeOK'
    BY <1>1, <1>2, <1>9, Zenon DEF TypeOK
  <1>14. AllMarked'
    BY <1>7, <1>8, Zenon DEF AllMarked
  <1>15. Exclusive'
    <2>1. \/ round'.pc = "peek" /\ d + 1 <= round.upto
          \/ round'.pc = "sync" /\ d + 1 > round.upto
      <3>1. d + 1 \in Int
        BY <1>1, ScanFacts, Zenon DEF Exclusive, Scanning, d
      <3> QED BY <1>2, <1>21, <3>1, MarkFacts, Zenon DEF NextScan
    <2>2. live \cap missed = {} /\ Core' = Core
      BY <1>1, <1>3, Zenon DEF Current, Core
    <2>3. /\ login'.pc = "idle" /\ sess' = sess /\ term' = term /\ missed' = missed /\ outcome' = outcome
          /\ round'.term = round.term /\ round'.upto = round.upto /\ round'.live = live /\ round'.d = d + 1
      BY <1>1, <1>2, Zenon
    <2>4. Majority(live)'
      BY <1>3, <2>3, Zenon DEF Majority, live
    <2> QED BY <1>3, <1>4, <1>21, <2>1, <2>2, <2>3, <2>4, Zenon DEF Exclusive, Scanning, Majority
  <1>16. Terms'
    BY <1>1, <1>9, Zenon DEF Terms, Current, TypeOK
  <1>17. Ordered' /\ Headers'
    BY <1>1, Zenon DEF Ordered, Headers
  <1>18. AppliedIsDecided'
    <2>1. round'.pc # "reply" /\ round.pc # "reply"
      BY <1>1, <1>2, Zenon DEF NextScan
    <2>2. sess' = sess /\ term' = term /\ outcome' = outcome
      BY <1>1, Zenon
    <2> QED BY <1>9, <2>1, <2>2, Zenon DEF AppliedIsDecided
  <1>19. Verdicts'
    <2>1. round'.pc \in {"peek", "sync"}
      BY <1>2, Zenon DEF NextScan
    <2> SUFFICES ASSUME NEW e \in Slots, sess.L < e, e < d + 1, e <= round.upto, Pending(e)
                 PROVE  \/ \A r \in live : rep'[r].journal[e] = Empty
                        \/ \A r \in live : rep'[r].journal[e] = sess.term
      <3>1. round'.upto = round.upto /\ round'.live = live /\ round'.d = d + 1 /\ sess' = sess /\ outcome' = outcome
        BY <1>1, <1>2, Zenon
      <3> QED BY <2>1, <3>1, Zenon DEF Verdicts, Pending
    <2>2. CASE e = d
      BY <1>11, <1>12, <2>2, Zenon
    <2>3. CASE e # d
      <3>1. e < d
        BY <1>21, <2>3, MarkFacts, Zenon
      <3>2. \/ \A r \in live : rep[r].journal[e] = Empty
            \/ \A r \in live : rep[r].journal[e] = sess.term
        BY <1>20, <3>1, Zenon
      <3> QED BY <1>3, <1>9, <2>3, <3>2, Zenon
    <2> QED BY <2>2, <2>3, Zenon
  <1> QED BY <1>11, <1>12, <1>13, <1>14, <1>15, <1>16, <1>17, <1>18, <1>19, Zenon
=============================================================================
