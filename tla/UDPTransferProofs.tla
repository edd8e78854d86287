--------------------------- MODULE UDPTransferProofs ---------------------------
(***************************************************************************)
(* Proofs about UDPTransfer for every number of messages, slots and        *)
(* segments, every window and every kind of fault.                         *)
(***************************************************************************)
EXTENDS UDPTransfer, NaturalsInduction, WellFoundedInduction, TLAPS

-------------------------------------------------------------------------------
\* Reassembly.

\* A non-empty set of natural numbers has a least element.
LEMMA LeastNat ==
  ASSUME NEW S \in SUBSET Nat, S # {}
  PROVE  \E k \in S : \A j \in S : k <= j
<1>1. IsWellFoundedOn(OpToRel(<, Nat), Nat)
  BY NatLessThanWellFounded
<1>2. PICK k \in S : \A j \in S : ~(<<j, k>> \in OpToRel(<, Nat))
  BY <1>1, WFMin
<1>3. \A j \in S : ~(j < k)
  BY <1>2 DEF OpToRel
<1> QED
  BY <1>3

\* The loop that advances nextID stops at an order id that is not held, all
\* those before it being held.
LEMMA NextGapSpec ==
  ASSUME NEW D \in SUBSET OrderIDs, NEW n \in OrderIDs
  PROVE  /\ NextGap(n, D) \in (n + 1) .. MaxSegments
         /\ NextGap(n, D) \notin D
         /\ \A j \in (n + 1) .. (NextGap(n, D) - 1) : j \in D
<1> DEFINE S == {k \in (n + 1) .. MaxSegments : k \notin D}
<1>1. n + 1 \in 1 .. MaxSegments /\ MaxSegments \in Nat
  BY CountAssumption DEF OrderIDs
<1>2. MaxSegments \in S /\ S \in SUBSET Nat
  BY <1>1 DEF OrderIDs
<1>3. PICK k \in S : \A j \in S : k <= j
  BY <1>2, LeastNat
<1>4. \A j \in (n + 1) .. (k - 1) : j \in D
  BY <1>1, <1>3
<1>5. k \in (n + 1) .. MaxSegments /\ k \notin D
  BY <1>3
<1> HIDE DEF S
<1> QED
  BY <1>4, <1>5 DEF NextGap

LEMMA BodyLenType ==
  ASSUME NEW s \in Segments
  PROVE  BodyLen(s) \in Int
<1>1. s.oid \in Int /\ s.msg \in Messages
  BY CountAssumption DEF Segments, OrderIDs
<1>2. Need[s.msg] \in Int /\ SegSize \in Int
  BY <1>1, NeedAssumption, SegSizeAssumption
<1>3. (s.oid + 1) * SegSize \in Int /\ s.oid * SegSize \in Int
  BY <1>1, <1>2
<1> QED
  BY <1>2, <1>3 DEF BodyLen

\* What a slot of the receiving list holds besides its type: readBuf has been
\* filled up to the first gap, and largestOrderID is the largest order id held.
RecvingOK(r) ==
  /\ r.next \notin DOMAIN r.body
  /\ \A i \in OrderIDs : i < r.next => i \in DOMAIN r.body
  /\ \A i \in DOMAIN r.body : i <= r.largest
  /\ IF DOMAIN r.body = {} THEN r.largest = 0 ELSE r.largest \in DOMAIN r.body

LEMMA NewRecvingOK == NewRecving \in Recvings /\ RecvingOK(NewRecving)
<1>1. [i \in {} |-> i] \in Bodies
  BY DEF Bodies
<1>2. 0 \in OrderIDs \cup {MaxSegments}
  BY CountAssumption DEF OrderIDs
<1> QED
  BY <1>1, <1>2, CountAssumption DEF NewRecving, Recvings, RecvingOK, OrderIDs

\* Save keeps both.
LEMMA SaveOK ==
  ASSUME NEW r \in Recvings, RecvingOK(r), NEW s \in Segments, ~Duplicate(r, s)
  PROVE  /\ SaveFresh(r, s) \in Recvings
         /\ RecvingOK(SaveFresh(r, s))
         /\ s.oid \in DOMAIN SaveFresh(r, s).body
<1> DEFINE D == DOMAIN r.body
           n == SaveFresh(r, s)
           g == NextGap(r.next, D)
<1>1. PICK E \in SUBSET OrderIDs : r.body \in [E -> Segments]
  BY DEF Recvings, Bodies
<1>2. /\ s.oid \in OrderIDs /\ s.msg \in Messages
      /\ r.next \in OrderIDs \cup {MaxSegments} /\ r.largest \in OrderIDs \cup {0}
      /\ r.need \in Nat /\ r.read \in Int /\ r.completed \in BOOLEAN
      /\ Need[s.msg] \in Nat /\ MaxSegments \in Nat
      /\ D \in SUBSET OrderIDs /\ OrderIDs \subseteq Nat
  <2>1. s.oid \in OrderIDs /\ s.msg \in Messages
    BY DEF Segments
  <2>2. /\ r.next \in OrderIDs \cup {MaxSegments} /\ r.largest \in OrderIDs \cup {0}
        /\ r.need \in Nat /\ r.read \in Int /\ r.completed \in BOOLEAN
    BY DEF Recvings
  <2>3. D \in SUBSET OrderIDs
    BY <1>1
  <2>4. OrderIDs \subseteq Nat
    BY CountAssumption DEF OrderIDs
  <2> QED
    BY <2>1, <2>2, <2>3, <2>4, NeedAssumption, CountAssumption
<1>3. s.oid \notin D /\ s.oid >= r.next
  BY <1>2 DEF Duplicate, OrderIDs
<1>4. n.body = [i \in D \cup {s.oid} |-> IF i = s.oid THEN s ELSE r.body[i]]
  BY DEF SaveFresh
<1>5. DOMAIN n.body = D \cup {s.oid}
  BY <1>4
<1>6. n.body \in Bodies
  <2>1. n.body \in [D \cup {s.oid} -> Segments]
    BY <1>1, <1>4
  <2>2. D \cup {s.oid} \in SUBSET OrderIDs
    BY <1>2
  <2> QED
    BY <2>1, <2>2 DEF Bodies
<1>7. s.oid = r.next => /\ g \in (r.next + 1) .. MaxSegments
                        /\ g \notin D
                        /\ \A j \in (r.next + 1) .. (g - 1) : j \in D
  BY <1>2, NextGapSpec
<1>8. n.next = IF s.oid = r.next THEN g ELSE r.next
  BY DEF SaveFresh
<1>9. n.next \in OrderIDs \cup {MaxSegments}
  BY <1>2, <1>7, <1>8 DEF OrderIDs
<1>10. n.largest = IF r.largest < s.oid THEN s.oid ELSE r.largest
  BY DEF SaveFresh, Largest
<1>11. n \in Recvings
  <2>1. BodyLen(s) \in Int
    BY BodyLenType
  <2>2. Enough(n.need, n.read) \in BOOLEAN
    BY DEF Enough
  <2>3. n.completed \in BOOLEAN
    BY <2>2, <1>2 DEF SaveFresh, Enough
  <2>4. n.need \in Nat /\ n.read \in Int
    BY <2>1, <1>2 DEF SaveFresh
  <2>5. n.largest \in OrderIDs \cup {0}
    BY <1>2, <1>10
  <2>6. n = [body |-> n.body, need |-> n.need, read |-> n.read, next |-> n.next,
             largest |-> n.largest, completed |-> n.completed]
    BY DEF SaveFresh
  <2> HIDE DEF n
  <2> QED
    BY <1>6, <1>9, <2>3, <2>4, <2>5, <2>6 DEF Recvings
<1>12. RecvingOK(n)
  <2>1. n.next \notin DOMAIN n.body
    BY <1>2, <1>3, <1>5, <1>7, <1>8 DEF RecvingOK, OrderIDs
  <2>2. \A i \in OrderIDs : i < n.next => i \in DOMAIN n.body
    BY <1>2, <1>3, <1>5, <1>7, <1>8 DEF RecvingOK, OrderIDs
  <2>3. \A i \in DOMAIN n.body : i <= n.largest
    BY <1>2, <1>5, <1>10 DEF RecvingOK, OrderIDs
  <2>4. n.largest \in DOMAIN n.body
    BY <1>2, <1>5, <1>10 DEF RecvingOK, OrderIDs
  <2> QED
    BY <2>1, <2>2, <2>3, <2>4 DEF RecvingOK
<1> QED
  BY <1>5, <1>11, <1>12

-------------------------------------------------------------------------------
\* Datagrams.

LEMMA DatagramFields ==
  ASSUME NEW d \in Datagrams
  PROVE  /\ d.trans \in TransIDs
         /\ d.type = "trans" => d.seg \in Segments
         /\ d.type = "req" => d.id \in Messages
         /\ d.type = "rep" => /\ d.id \in Messages /\ d.status \in Status
                             /\ d.largest \in OrderIDs \cup {0}
                             /\ d.missing \in SUBSET OrderIDs
  BY DEF Datagrams

LEMMA DatagramTypes ==
  ASSUME NEW t \in TransIDs
  PROVE  /\ \A s \in Segments : TransDatagram(t, s) \in Datagrams
         /\ ReceivedDatagram(t) \in Datagrams
         /\ \A m \in Messages : ReqDatagram(t, m) \in Datagrams
         /\ \A m \in Messages, st \in Status, lg \in OrderIDs \cup {0}, ms \in SUBSET OrderIDs :
              RepDatagram(t, m, st, lg, ms) \in Datagrams
  BY DEF Datagrams, TransDatagram, ReceivedDatagram, ReqDatagram, RepDatagram

\* The order ids of a message are order ids.
LEMMA MessageOrderIDs ==
  ASSUME NEW m \in Messages
  PROVE  MaxOrderID(m) \in Int /\ 0 .. MaxOrderID(m) \subseteq OrderIDs
<1>1. SegmentCount(m) \in Int
  <2>1. Need[m] \in Int /\ SegSize \in Int /\ SegSize > 0
    BY NeedAssumption, SegSizeAssumption
  <2>2. Need[m] \div SegSize \in Int
    BY <2>1
  <2> QED
    BY <2>2 DEF SegmentCount
<1>2. SegmentCount(m) <= MaxSegments /\ MaxSegments \in Int
  BY CountAssumption
<1> QED
  BY <1>1, <1>2 DEF MaxOrderID, OrderIDs

LEMMA SegsType ==
  ASSUME NEW m \in Messages, slotOf[m] \in TransIDs, NEW ids \in SUBSET OrderIDs
  PROVE  Segs(m, ids) \subseteq Datagrams
<1>1. \A i \in ids : Segment(m, i) \in Segments
  BY DEF Segment, Segments
<1> QED
  BY <1>1, DatagramTypes DEF Segs

-------------------------------------------------------------------------------
\* Type correctness.

LEMMA SenderType ==
  ASSUME TypeOK, [Next]_vars
  PROVE  SenderTypeOK'
<1> USE DEF TypeOK, SenderTypeOK, Return
<1>1. ASSUME NEW m \in Messages, Claim(m) PROVE SenderTypeOK'
  BY <1>1 DEF Claim, FreeSlots
<1>2. ASSUME NEW m \in Messages, Register(m) PROVE SenderTypeOK'
  BY <1>2 DEF Register
<1>3. ASSUME NEW m \in Messages, SendFull(m) PROVE SenderTypeOK'
  BY <1>3 DEF SendFull, AfterBurst
<1>4. ASSUME NEW m \in Messages, SendFullFails(m) PROVE SenderTypeOK'
  BY <1>4 DEF SendFullFails
<1>5. ASSUME NEW m \in Messages, Query(m) PROVE SenderTypeOK'
  BY <1>5, BoundAssumption DEF Query
<1>6. ASSUME NEW m \in Messages, QueryFails(m) PROVE SenderTypeOK'
  BY <1>6 DEF QueryFails
<1>7. ASSUME NEW m \in Messages, QueryRetry(m) PROVE SenderTypeOK'
  BY <1>7 DEF QueryRetry
<1>8. ASSUME NEW m \in Messages, QueryGiveUp(m) PROVE SenderTypeOK'
  BY <1>8 DEF QueryGiveUp
<1>9. ASSUME NEW m \in Messages, QueryExpire(m) PROVE SenderTypeOK'
  BY <1>9 DEF QueryExpire
<1>10. ASSUME NEW m \in Messages, QueryExpired(m) PROVE SenderTypeOK'
  BY <1>10 DEF QueryExpired, DeleteRequest
<1>11. ASSUME NEW m \in Messages, QueryShutdown(m) PROVE SenderTypeOK'
  BY <1>11 DEF QueryShutdown
<1>12. ASSUME NEW m \in Messages, WaitReceived(m) PROVE SenderTypeOK'
  BY <1>12 DEF WaitReceived
<1>13. ASSUME NEW m \in Messages, WaitTimeout(m) PROVE SenderTypeOK'
  BY <1>13 DEF WaitTimeout
<1>14. ASSUME NEW m \in Messages, WaitShutdown(m) PROVE SenderTypeOK'
  BY <1>14 DEF WaitShutdown
<1>15. ASSUME NEW d \in net, HandleReceived(d) PROVE SenderTypeOK'
  <2>1. d.trans \in TransIDs
    BY DatagramFields DEF NetTypeOK
  <2> QED
    BY <1>15, <2>1 DEF HandleReceived, Told
<1>16. ASSUME NEW d \in net, HandleRep(d) PROVE SenderTypeOK'
  <2>1. d.id \in Messages
    BY <1>16, DatagramFields DEF NetTypeOK, HandleRep
  <2>2. CASE pc[d.id] # "asking" /\ blocked' = d.id
    BY <1>16, <2>1, <2>2 DEF HandleRep
  <2>3. CASE \E rest : Resume(d.id, d, rest) /\ UNCHANGED blocked
    BY <1>16, <2>1, <2>3 DEF HandleRep, Resume, AfterBurst, DeleteRequest
  <2> QED
    BY <1>16, <2>2, <2>3 DEF HandleRep
<1>17. CASE UNCHANGED senderVars
  BY <1>17 DEF senderVars
<1>18. CASE Close
  BY <1>18 DEF Close
<1> QED
  BY <1>1, <1>2, <1>3, <1>4, <1>5, <1>6, <1>7, <1>8, <1>9, <1>10, <1>11, <1>12, <1>13,
     <1>14, <1>15, <1>16, <1>17, <1>18
  DEF Next, Sending, Handling, Application, vars, HandleTrans, HandleReq, HandOver,
      RecvMsg, Lose

\* What every slot of the receiving list holds is filled up to the first gap
\* and has a segment.
Reassembly ==
  \A t \in TransIDs : rl[t] # <<>> =>
    RecvingOK(rl[t][1]) /\ DOMAIN rl[t][1].body # {}

LEMMA FirstNSubset == ASSUME NEW S, NEW n PROVE FirstN(S, n) \subseteq S
  BY DEF FirstN

LEMMA RecvingType ==
  ASSUME ReceiverTypeOK, Reassembly, NEW t \in TransIDs
  PROVE  /\ Recving(t) \in Recvings /\ RecvingOK(Recving(t))
         /\ \A s \in Segments : Duplicate(Recving(t), s) => DOMAIN Recving(t).body # {}
<1>1. \A s \in Segments : ~Duplicate(NewRecving, s)
  BY CountAssumption DEF Duplicate, NewRecving, Segments, OrderIDs
<1>2. CASE Recving(t) = NewRecving
  BY <1>1, <1>2, NewRecvingOK
<1>3. CASE rl[t] # <<>> /\ Recving(t) = rl[t][1]
  BY <1>3 DEF ReceiverTypeOK, Reassembly
<1> QED
  BY <1>2, <1>3 DEF Recving

LEMMA AnswerType ==
  ASSUME ReceiverTypeOK, NEW t \in TransIDs, NEW m \in Messages
  PROVE  Answer(t, m) \in Datagrams
<1>1. CASE AnswerStatus(t) = "notCompleted"
  <2>1. rl[t] # <<>>
    BY <1>1 DEF AnswerStatus
  <2>2. rl[t][1] \in Recvings
    BY <2>1 DEF ReceiverTypeOK
  <2>3. rl[t][1].largest \in OrderIDs \cup {0}
    BY <2>2 DEF Recvings
  <2>4. FirstN(GetMissing(rl[t][1]), SWS) \in SUBSET OrderIDs
    BY FirstNSubset DEF GetMissing
  <2> QED
    BY <1>1, <2>3, <2>4, DatagramTypes DEF Answer, Status
<1>2. CASE AnswerStatus(t) # "notCompleted"
  <2>1. AnswerStatus(t) \in Status
    BY DEF AnswerStatus, Status
  <2> QED
    BY <1>2, <2>1, DatagramTypes DEF Answer
<1> QED
  BY <1>1, <1>2

LEMMA NetType ==
  ASSUME TypeOK, [Next]_vars
  PROVE  NetTypeOK'
<1> USE DEF TypeOK, NetTypeOK
<1>1. \A m \in Messages : pc[m] # "idle" => slotOf[m] \in TransIDs
  BY DEF SenderTypeOK
<1>2. ASSUME NEW m \in Messages, SendFull(m) PROVE NetTypeOK'
  <2>1. FirstN(0 .. MaxOrderID(m), SWS) \in SUBSET OrderIDs
    BY MessageOrderIDs, FirstNSubset
  <2>2. Segs(m, FirstN(0 .. MaxOrderID(m), SWS)) \subseteq Datagrams
    BY <1>1, <1>2, <2>1, SegsType DEF SendFull
  <2> QED
    BY <1>2, <2>2 DEF SendFull
<1>3. ASSUME NEW m \in Messages, SendFullFails(m) PROVE NetTypeOK'
  <2> DEFINE W == FirstN(0 .. MaxOrderID(m), SWS)
  <2>1. PICK k \in W : net' = net \cup Segs(m, {i \in W : i < k})
    BY <1>3 DEF SendFullFails
  <2>2. {i \in W : i < k} \in SUBSET OrderIDs
    BY MessageOrderIDs, FirstNSubset
  <2>3. Segs(m, {i \in W : i < k}) \subseteq Datagrams
    BY <1>1, <1>3, <2>2, SegsType DEF SendFullFails
  <2> QED
    BY <1>3, <2>1, <2>3 DEF SendFullFails
<1>4. ASSUME NEW m \in Messages, Query(m) \/ QueryRetry(m) PROVE NetTypeOK'
  <2>1. ReqDatagram(slotOf[m], m) \in Datagrams
    BY <1>1, <1>4, DatagramTypes DEF Query, QueryRetry
  <2> QED
    BY <1>4, <2>1 DEF Query, QueryRetry
<1>5. ASSUME NEW m \in Messages, QueryExpired(m) PROVE NetTypeOK'
  BY <1>5 DEF QueryExpired
<1>6. ASSUME NEW d \in net, HandleReceived(d) PROVE NetTypeOK'
  BY <1>6 DEF HandleReceived, TakenFrom
<1>7. ASSUME NEW d \in net, HandleRep(d) PROVE NetTypeOK'
  <2>1. d.id \in Messages
    BY <1>7, DatagramFields DEF HandleRep
  <2>2. CASE pc[d.id] # "asking" /\ \E rest \in {net \ {d}, net} : TakenFrom(d, rest) /\ net' = rest
    BY <2>2 DEF TakenFrom
  <2>3. ASSUME pc[d.id] = "asking",
               NEW rest \in {net \ {d}, net}, TakenFrom(d, rest),
               Resume(d.id, d, rest \ Forgotten(d.id, rest))
        PROVE  NetTypeOK'
    <3> DEFINE left == rest \ Forgotten(d.id, rest)
               W    == FirstN(Unsent(d.id, d), SWS)
               fits == {i \in W : i <= MaxOrderID(d.id)}
    <3>1. left \subseteq Datagrams /\ dups' \in Nat
      BY <2>3 DEF TakenFrom
    <3>2. net' = left \/ (d.status = "notCompleted" /\ net' = left \cup Segs(d.id, fits))
      BY <2>3 DEF Resume
    <3>3. fits \in SUBSET OrderIDs
      BY <1>7, FirstNSubset, DatagramFields DEF Unsent, HandleRep
    <3>4. Segs(d.id, fits) \subseteq Datagrams
      BY <1>1, <2>1, <2>3, <3>3, SegsType
    <3> QED
      BY <3>1, <3>2, <3>4
  <2> QED
    BY <1>7, <2>2, <2>3 DEF HandleRep
<1>8. ASSUME NEW d \in net, HandleTrans(d) PROVE NetTypeOK'
  <2>1. ReceivedDatagram(d.trans) \in Datagrams
    BY DatagramFields, DatagramTypes
  <2> QED
    BY <1>8, <2>1 DEF HandleTrans, TakenFrom
<1>9. ASSUME NEW d \in net, HandleReq(d) PROVE NetTypeOK'
  <2>1. Answer(d.trans, d.id) \in Datagrams
    BY <1>9, AnswerType, DatagramFields DEF HandleReq
  <2> QED
    BY <1>9, <2>1 DEF HandleReq, TakenFrom
<1>10. ASSUME NEW d \in net, Lose(d) PROVE NetTypeOK'
  BY <1>10 DEF Lose
<1>11. CASE UNCHANGED netVars
  BY <1>11 DEF netVars
<1>12. ASSUME NEW m \in Messages,
              Sending(m), ~SendFull(m), ~SendFullFails(m), ~Query(m), ~QueryRetry(m),
              ~QueryExpired(m)
       PROVE  UNCHANGED netVars
  BY <1>12 DEF Sending, Claim, Register, QueryFails, QueryGiveUp, QueryExpire,
               QueryShutdown, WaitReceived, WaitTimeout, WaitShutdown
<1>13. Application \/ Close => UNCHANGED netVars
  BY DEF Application, Close, HandOver, RecvMsg
<1> QED
  BY <1>2, <1>3, <1>4, <1>5, <1>6, <1>7, <1>8, <1>9, <1>10, <1>11, <1>12, <1>13
  DEF Next, Handling, vars

LEMMA SeqMonotone ==
  ASSUME NEW S, NEW T, S \subseteq T, NEW q \in Seq(S)
  PROVE  q \in Seq(T)
  OBVIOUS

LEMMA ReceiverType ==
  ASSUME TypeOK, Reassembly, [Next]_vars
  PROVE  ReceiverTypeOK' /\ Reassembly'
<1> USE DEF TypeOK, ReceiverTypeOK
<1>1. ASSUME NEW d \in net, HandleTrans(d) PROVE ReceiverTypeOK' /\ Reassembly'
  <2> DEFINE t   == d.trans
             r   == Recving(t)
             new == Save(r, d.seg)
  <2>1. t \in TransIDs /\ d.seg \in Segments
    BY <1>1, DatagramFields DEF NetTypeOK, HandleTrans
  <2>2. r \in Recvings /\ RecvingOK(r) /\ (Duplicate(r, d.seg) => DOMAIN r.body # {})
    BY <2>1, RecvingType
  <2>3. new \in Recvings /\ RecvingOK(new) /\ DOMAIN new.body # {}
    <3>1. CASE Duplicate(r, d.seg)
      BY <2>2, <3>1 DEF Save
    <3>2. CASE ~Duplicate(r, d.seg)
      BY <2>1, <2>2, <3>2, SaveOK DEF Save
    <3> QED
      BY <3>1, <3>2
  <2> HIDE DEF new
  <2>4. rl' = [rl EXCEPT ![t] = <<new>>]
    BY <1>1 DEF HandleTrans, new
  <2>5. /\ DOMAIN rl' = TransIDs
        /\ \A u \in TransIDs : rl'[u] # <<>> => /\ rl'[u] = <<rl'[u][1]>>
                                                /\ rl'[u][1] \in Recvings
                                                /\ RecvingOK(rl'[u][1])
                                                /\ DOMAIN rl'[u][1].body # {}
    <3>1. DOMAIN rl' = TransIDs
      BY <2>4
    <3>2. ASSUME NEW u \in TransIDs, u # t, rl'[u] # <<>>
          PROVE  /\ rl'[u] = <<rl'[u][1]>> /\ rl'[u][1] \in Recvings
                 /\ RecvingOK(rl'[u][1]) /\ DOMAIN rl'[u][1].body # {}
      <4>1. rl'[u] = rl[u]
        BY <2>4, <3>2
      <4> QED
        BY <3>2, <4>1 DEF Reassembly
    <3>3. rl'[t] = <<new>> /\ <<new>>[1] = new
      BY <2>1, <2>4
    <3> QED
      BY <2>3, <3>1, <3>2, <3>3
  <2>6. CASE UNCHANGED <<log, handoff>>
    BY <1>1, <2>5, <2>6 DEF HandleTrans, Reassembly
  <2>7. CASE /\ log' = Append(log, [trans |-> t, body |-> new.body])
             /\ handoff' = handoff \cup {Len(log) + 1}
    <3>1. [trans |-> t, body |-> new.body] \in [trans : TransIDs, body : Bodies]
      BY <2>1, <2>3 DEF Recvings
    <3>2. log' \in Seq([trans : TransIDs, body : Bodies]) /\ Len(log') = Len(log) + 1
      BY <2>7, <3>1
    <3>3. Len(log) \in Nat
      OBVIOUS
    <3>4. handoff' \subseteq 1 .. Len(log') /\ inbound' \in 0 .. Len(log')
      <4>1. \A i \in handoff : i \in 1 .. Len(log)
        OBVIOUS
      <4>2. \A i \in handoff' : i \in 1 .. Len(log) \/ i = Len(log) + 1
        BY <2>7, <4>1
      <4>3. inbound' \in 0 .. Len(log)
        BY <1>1 DEF HandleTrans
      <4> QED
        BY <3>2, <3>3, <4>2, <4>3
    <3>5. got' \in Seq(1 .. Len(log'))
      <4>1. 1 .. Len(log) \subseteq 1 .. Len(log')
        BY <3>2, <3>3
      <4>2. got' = got
        BY <1>1 DEF HandleTrans
      <4> QED
        BY <4>1, <4>2, SeqMonotone
    <3> QED
      BY <2>5, <3>2, <3>4, <3>5 DEF Reassembly
  <2> QED
    BY <1>1, <2>6, <2>7 DEF HandleTrans, new
<1>2. ASSUME NEW i \in handoff, HandOver(i) PROVE ReceiverTypeOK' /\ Reassembly'
  BY <1>2 DEF HandOver, Reassembly
<1>3. CASE RecvMsg
  BY <1>3 DEF RecvMsg, Reassembly
<1>4. CASE UNCHANGED recvVars
  BY <1>4 DEF recvVars, Reassembly
<1>5. ASSUME NEW m \in Messages, Sending(m) PROVE UNCHANGED recvVars
  BY <1>5 DEF Sending, Claim, Register, SendFull, SendFullFails, Query, QueryFails,
              QueryRetry, QueryGiveUp, QueryExpire, QueryExpired, QueryShutdown,
              WaitReceived, WaitTimeout, WaitShutdown, recvVars
<1>6. ASSUME NEW d \in net, HandleReceived(d) \/ HandleRep(d) \/ HandleReq(d) \/ Lose(d)
      PROVE  UNCHANGED recvVars
  BY <1>6 DEF HandleReceived, HandleRep, HandleReq, Lose, recvVars
<1>7. Close => UNCHANGED recvVars
  BY DEF Close
<1> QED
  BY <1>1, <1>2, <1>3, <1>4, <1>5, <1>6, <1>7 DEF Next, Handling, Application, vars

\* The state of both ends, and what is in flight, always has its type, and every
\* message being put together is filled up to its first gap.
LEMMA TypeAndReassembly == Spec => [](TypeOK /\ Reassembly)
<1>1. Init => TypeOK /\ Reassembly
  <2> SUFFICES ASSUME Init PROVE TypeOK /\ Reassembly
    OBVIOUS
  <2>1. SenderTypeOK
    BY DEF Init, SenderTypeOK
  <2>2. NetTypeOK
    BY DEF Init, NetTypeOK
  <2>3. ReceiverTypeOK /\ Reassembly
    BY DEF Init, ReceiverTypeOK, Reassembly
  <2> QED
    BY <2>1, <2>2, <2>3 DEF TypeOK
<1>2. TypeOK /\ Reassembly /\ [Next]_vars => (TypeOK /\ Reassembly)'
  BY SenderType, NetType, ReceiverType DEF TypeOK
<1> QED
  BY <1>1, <1>2, PTL DEF Spec

\* Type correctness of both ends and of the network (the fields of Conn in
\* udp.go:233-272 and the datagrams of segment.go).
THEOREM TypeCorrect == Spec => []TypeOK
  BY TypeAndReassembly, PTL

-------------------------------------------------------------------------------
\* Retransmission.

\* RetransmissionComplete follows from how far each message is put together.
LEMMA CompleteReply == TypeOK /\ Reassembly => RetransmissionComplete
<1> SUFFICES ASSUME TypeOK, Reassembly, NEW t \in TransIDs,
                    rl[t] # <<>>, ~rl[t][1].completed
             PROVE  GetMissing(rl[t][1]) \cup {i \in OrderIDs : i > rl[t][1].largest}
                      = OrderIDs \ DOMAIN rl[t][1].body
  BY DEF RetransmissionComplete
<1> DEFINE r == rl[t][1]
<1>1. r \in Recvings /\ RecvingOK(r) /\ DOMAIN r.body # {}
  BY DEF TypeOK, ReceiverTypeOK, Reassembly
<1>2. OrderIDs \subseteq Nat /\ MaxSegments \in Nat
  BY CountAssumption DEF OrderIDs
<1>3. r.largest \in Nat /\ r.next \in Nat /\ DOMAIN r.body \subseteq Nat
  <2> HIDE DEF r
  <2>1. /\ r.largest \in OrderIDs \cup {0} /\ r.next \in OrderIDs \cup {MaxSegments}
        /\ r.body \in Bodies
    BY <1>1 DEF Recvings
  <2>2. DOMAIN r.body \subseteq OrderIDs
    BY <2>1 DEF Bodies
  <2>3. r.largest \in Nat
    BY <1>2, <2>1 DEF OrderIDs
  <2>4. r.next \in Nat
    BY <1>2, <2>1 DEF OrderIDs
  <2> QED
    BY <1>2, <2>2, <2>3, <2>4
<1>4. \A i \in OrderIDs : i \notin DOMAIN r.body =>
        i >= r.next /\ (i < r.largest \/ i > r.largest)
  <2>1. r.largest \in DOMAIN r.body
    BY <1>1 DEF RecvingOK
  <2>2. \A i \in OrderIDs : i < r.next => i \in DOMAIN r.body
    BY <1>1 DEF RecvingOK
  <2> QED
    BY <1>2, <1>3, <2>1, <2>2
<1>5. \A i \in DOMAIN r.body : ~(i > r.largest)
  BY <1>1, <1>3 DEF RecvingOK
<1> QED
  BY <1>4, <1>5 DEF GetMissing

\* A "not completed" reply and the order ids after its largest name exactly the
\* segments the receiver lacks (handleReqQueryReceive, GetMissing and SendMsg).
THEOREM RetransmissionIsComplete == Spec => []RetransmissionComplete
  BY TypeAndReassembly, CompleteReply, PTL

-------------------------------------------------------------------------------
\* Slots.

LEMMA SlotStep ==
  ASSUME TypeOK, SlotExclusive, [Next]_vars
  PROVE  SlotExclusive'
<1> USE NoMsgAssumption DEF TypeOK, SenderTypeOK, SlotExclusive, Active, Return
<1>1. ASSUME NEW n \in Messages, Claim(n) PROVE SlotExclusive'
  BY <1>1 DEF Claim, FreeSlots
<1>2. ASSUME NEW n \in Messages, Register(n) PROVE SlotExclusive'
  BY <1>2 DEF Register
<1>3. ASSUME NEW n \in Messages, SendFull(n) PROVE SlotExclusive'
  BY <1>3 DEF SendFull, AfterBurst
<1>4. ASSUME NEW n \in Messages, SendFullFails(n) PROVE SlotExclusive'
  BY <1>4 DEF SendFullFails
<1>5. ASSUME NEW n \in Messages, Query(n) PROVE SlotExclusive'
  BY <1>5 DEF Query
<1>6. ASSUME NEW n \in Messages, QueryFails(n) PROVE SlotExclusive'
  BY <1>6 DEF QueryFails
<1>7. ASSUME NEW n \in Messages, QueryRetry(n) PROVE SlotExclusive'
  BY <1>7 DEF QueryRetry
<1>8. ASSUME NEW n \in Messages, QueryGiveUp(n) PROVE SlotExclusive'
  BY <1>8 DEF QueryGiveUp
<1>9. ASSUME NEW n \in Messages, QueryExpire(n) PROVE SlotExclusive'
  BY <1>9 DEF QueryExpire
<1>10. ASSUME NEW n \in Messages, QueryExpired(n) PROVE SlotExclusive'
  BY <1>10 DEF QueryExpired, DeleteRequest
<1>11. ASSUME NEW n \in Messages, QueryShutdown(n) PROVE SlotExclusive'
  BY <1>11 DEF QueryShutdown
<1>12. ASSUME NEW n \in Messages, WaitReceived(n) PROVE SlotExclusive'
  BY <1>12 DEF WaitReceived
<1>13. ASSUME NEW n \in Messages, WaitTimeout(n) PROVE SlotExclusive'
  BY <1>13 DEF WaitTimeout
<1>14. ASSUME NEW n \in Messages, WaitShutdown(n) PROVE SlotExclusive'
  BY <1>14 DEF WaitShutdown
<1>15. ASSUME NEW d \in net, HandleReceived(d) PROVE SlotExclusive'
  <2>1. d.trans \in TransIDs
    BY DatagramFields DEF TypeOK, NetTypeOK
  <2> QED
    BY <1>15, <2>1 DEF HandleReceived, Told
<1>16. ASSUME NEW d \in net, HandleRep(d) PROVE SlotExclusive'
  <2>1. d.id \in Messages
    BY <1>16, DatagramFields DEF TypeOK, NetTypeOK, HandleRep
  <2>2. CASE pc[d.id] # "asking" /\ blocked' = d.id
    BY <1>16, <2>1, <2>2 DEF HandleRep
  <2>3. CASE pc[d.id] = "asking" /\ UNCHANGED blocked /\ \E rest : Resume(d.id, d, rest)
    BY <1>16, <2>1, <2>3 DEF HandleRep, Resume, AfterBurst, DeleteRequest
  <2> QED
    BY <1>16, <2>2, <2>3 DEF HandleRep
<1>17. CASE Close
  BY <1>17 DEF Close
<1>18. CASE UNCHANGED senderVars
  BY <1>18 DEF senderVars
<1> QED
  BY <1>1, <1>2, <1>3, <1>4, <1>5, <1>6, <1>7, <1>8, <1>9, <1>10, <1>11, <1>12, <1>13, <1>14, <1>15, <1>16, <1>17, <1>18
  DEF Next, Sending, Handling, Application, vars, HandleTrans, HandleReq, HandOver,
      RecvMsg, Lose

LEMMA RegistrationStep ==
  ASSUME TypeOK, SlotExclusive, NoLostRegistration, [Next]_vars
  PROVE  NoLostRegistration'
<1> USE NoMsgAssumption DEF TypeOK, SenderTypeOK, SlotExclusive, NoLostRegistration, Active, Return
<1>1. ASSUME NEW n \in Messages, Claim(n) PROVE NoLostRegistration'
  BY <1>1 DEF Claim, FreeSlots
<1>2. ASSUME NEW n \in Messages, Register(n) PROVE NoLostRegistration'
  BY <1>2 DEF Register
<1>3. ASSUME NEW n \in Messages, SendFull(n) PROVE NoLostRegistration'
  BY <1>3 DEF SendFull, AfterBurst
<1>4. ASSUME NEW n \in Messages, SendFullFails(n) PROVE NoLostRegistration'
  BY <1>4 DEF SendFullFails
<1>5. ASSUME NEW n \in Messages, Query(n) PROVE NoLostRegistration'
  BY <1>5 DEF Query
<1>6. ASSUME NEW n \in Messages, QueryFails(n) PROVE NoLostRegistration'
  BY <1>6 DEF QueryFails
<1>7. ASSUME NEW n \in Messages, QueryRetry(n) PROVE NoLostRegistration'
  BY <1>7 DEF QueryRetry
<1>8. ASSUME NEW n \in Messages, QueryGiveUp(n) PROVE NoLostRegistration'
  BY <1>8 DEF QueryGiveUp
<1>9. ASSUME NEW n \in Messages, QueryExpire(n) PROVE NoLostRegistration'
  BY <1>9 DEF QueryExpire
<1>10. ASSUME NEW n \in Messages, QueryExpired(n) PROVE NoLostRegistration'
  BY <1>10 DEF QueryExpired, DeleteRequest
<1>11. ASSUME NEW n \in Messages, QueryShutdown(n) PROVE NoLostRegistration'
  BY <1>11 DEF QueryShutdown
<1>12. ASSUME NEW n \in Messages, WaitReceived(n) PROVE NoLostRegistration'
  BY <1>12 DEF WaitReceived
<1>13. ASSUME NEW n \in Messages, WaitTimeout(n) PROVE NoLostRegistration'
  BY <1>13 DEF WaitTimeout
<1>14. ASSUME NEW n \in Messages, WaitShutdown(n) PROVE NoLostRegistration'
  BY <1>14 DEF WaitShutdown
<1>15. ASSUME NEW d \in net, HandleReceived(d) PROVE NoLostRegistration'
  <2>1. d.trans \in TransIDs
    BY DatagramFields DEF TypeOK, NetTypeOK
  <2> QED
    BY <1>15, <2>1 DEF HandleReceived, Told
<1>16. ASSUME NEW d \in net, HandleRep(d) PROVE NoLostRegistration'
  <2>1. d.id \in Messages
    BY <1>16, DatagramFields DEF TypeOK, NetTypeOK, HandleRep
  <2>2. CASE pc[d.id] # "asking" /\ blocked' = d.id
    BY <1>16, <2>1, <2>2 DEF HandleRep
  <2>3. CASE pc[d.id] = "asking" /\ UNCHANGED blocked /\ \E rest : Resume(d.id, d, rest)
    BY <1>16, <2>1, <2>3 DEF HandleRep, Resume, AfterBurst, DeleteRequest
  <2> QED
    BY <1>16, <2>2, <2>3 DEF HandleRep
<1>17. CASE Close
  BY <1>17 DEF Close
<1>18. CASE UNCHANGED senderVars
  BY <1>18 DEF senderVars
<1> QED
  BY <1>1, <1>2, <1>3, <1>4, <1>5, <1>6, <1>7, <1>8, <1>9, <1>10, <1>11, <1>12, <1>13,
     <1>14, <1>15, <1>16, <1>17, <1>18
  DEF Next, Sending, Handling, Application, vars, HandleTrans, HandleReq, HandOver,
      RecvMsg, Lose

LEMMA QueryStep ==
  ASSUME TypeOK, AbandonedQuery, [Next]_vars
  PROVE  AbandonedQuery'
<1> USE NoMsgAssumption DEF TypeOK, SenderTypeOK, AbandonedQuery, Return
<1>1. ASSUME NEW n \in Messages, Claim(n) PROVE AbandonedQuery'
  BY <1>1 DEF Claim, FreeSlots
<1>2. ASSUME NEW n \in Messages, Register(n) PROVE AbandonedQuery'
  BY <1>2 DEF Register
<1>3. ASSUME NEW n \in Messages, SendFull(n) PROVE AbandonedQuery'
  BY <1>3 DEF SendFull, AfterBurst
<1>4. ASSUME NEW n \in Messages, SendFullFails(n) PROVE AbandonedQuery'
  BY <1>4 DEF SendFullFails
<1>5. ASSUME NEW n \in Messages, Query(n) PROVE AbandonedQuery'
  BY <1>5 DEF Query
<1>6. ASSUME NEW n \in Messages, QueryFails(n) PROVE AbandonedQuery'
  BY <1>6 DEF QueryFails
<1>7. ASSUME NEW n \in Messages, QueryRetry(n) PROVE AbandonedQuery'
  BY <1>7 DEF QueryRetry
<1>8. ASSUME NEW n \in Messages, QueryGiveUp(n) PROVE AbandonedQuery'
  BY <1>8 DEF QueryGiveUp
<1>9. ASSUME NEW n \in Messages, QueryExpire(n) PROVE AbandonedQuery'
  BY <1>9 DEF QueryExpire
<1>10. ASSUME NEW n \in Messages, QueryExpired(n) PROVE AbandonedQuery'
  BY <1>10 DEF QueryExpired, DeleteRequest
<1>11. ASSUME NEW n \in Messages, QueryShutdown(n) PROVE AbandonedQuery'
  BY <1>11 DEF QueryShutdown
<1>12. ASSUME NEW n \in Messages, WaitReceived(n) PROVE AbandonedQuery'
  BY <1>12 DEF WaitReceived
<1>13. ASSUME NEW n \in Messages, WaitTimeout(n) PROVE AbandonedQuery'
  BY <1>13 DEF WaitTimeout
<1>14. ASSUME NEW n \in Messages, WaitShutdown(n) PROVE AbandonedQuery'
  BY <1>14 DEF WaitShutdown
<1>15. ASSUME NEW d \in net, HandleReceived(d) PROVE AbandonedQuery'
  <2>1. d.trans \in TransIDs
    BY DatagramFields DEF TypeOK, NetTypeOK
  <2> QED
    BY <1>15, <2>1 DEF HandleReceived, Told
<1>16. ASSUME NEW d \in net, HandleRep(d) PROVE AbandonedQuery'
  <2>1. d.id \in Messages
    BY <1>16, DatagramFields DEF TypeOK, NetTypeOK, HandleRep
  <2>2. CASE pc[d.id] # "asking" /\ blocked' = d.id
    BY <1>16, <2>1, <2>2 DEF HandleRep
  <2>3. CASE pc[d.id] = "asking" /\ UNCHANGED blocked /\ \E rest : Resume(d.id, d, rest)
    BY <1>16, <2>1, <2>3 DEF HandleRep, Resume, AfterBurst, DeleteRequest
  <2> QED
    BY <1>16, <2>2, <2>3 DEF HandleRep
<1>17. CASE Close
  BY <1>17 DEF Close
<1>18. CASE UNCHANGED senderVars
  BY <1>18 DEF senderVars
<1> QED
  BY <1>1, <1>2, <1>3, <1>4, <1>5, <1>6, <1>7, <1>8, <1>9, <1>10, <1>11, <1>12, <1>13,
     <1>14, <1>15, <1>16, <1>17, <1>18
  DEF Next, Sending, Handling, Application, vars, HandleTrans, HandleReq, HandOver,
      RecvMsg, Lose

LEMMA SlotsAndQueries == Spec => [](SlotExclusive /\ NoLostRegistration /\ AbandonedQuery)
<1>1. Init => SlotExclusive /\ NoLostRegistration /\ AbandonedQuery
  BY NoMsgAssumption
  DEF Init, SlotExclusive, NoLostRegistration, AbandonedQuery, Active
<1>2. /\ TypeOK /\ SlotExclusive /\ NoLostRegistration /\ AbandonedQuery
      /\ [Next]_vars
      => (SlotExclusive /\ NoLostRegistration /\ AbandonedQuery)'
  BY SlotStep, RegistrationStep, QueryStep
<1> QED
  BY <1>1, <1>2, TypeCorrect, PTL DEF Spec

\* Two calls of SendMsg never hold the same slot, although the deferred function
\* gives it back without slMutex (udp.go:545).
THEOREM SlotsAreExclusive == Spec => []SlotExclusive
  BY SlotsAndQueries, PTL

\* No call that may still wait has lost its entry of slWait while its channel is
\* open, whatever earlier calls left behind (udp.go:557-560, 468-478, 628-630).
THEOREM RegistrationIsKept == Spec => []NoLostRegistration
  BY SlotsAndQueries, PTL

\* handleRep blocks for good only on the query of a call that failed or whose 12s
\* timer fired (udp.go:453-466, 671-718).
THEOREM OnlyAbandonedQueriesBlock == Spec => []AbandonedQuery
  BY SlotsAndQueries, PTL

-------------------------------------------------------------------------------
\* Success.

\* Registrations and queries name the slot of their call.
Unstarted ==
  \A m \in Messages : pc[m] = "idle" => m \notin closed /\ result[m] = "none"

Registered ==
  \A t \in TransIDs :
    slWait[t] # NoMsg => pc[slWait[t]] # "idle" /\ slotOf[slWait[t]] = t

QueriesNamed ==
  \A d \in net : d.type \in {"req", "rep"} => pc[d.id] # "idle" /\ slotOf[d.id] = d.trans

Tracking == Unstarted /\ Registered /\ QueriesNamed

\* Whatever tells a call that its message was received was sent after the
\* receiver had completed a message on the slot.
Backed ==
  /\ \A t \in TransIDs : rl[t] # <<>> /\ rl[t][1].completed => Completed(t) # {}
  /\ \A d \in net :
       d.type = "received" \/ (d.type = "rep" /\ d.status = "completed")
         => Completed(d.trans) # {}
  /\ \A m \in closed : Completed(slotOf[m]) # {}

\* log only grows.
LEMMA CompletedGrows ==
  ASSUME TypeOK, [Next]_vars
  PROVE  \A t \in TransIDs : Completed(t) # {} => Completed(t)' # {}
<1>1. CASE log' = log
  BY <1>1 DEF Completed
<1>2. CASE \E e : log' = Append(log, e)
  <2> SUFFICES ASSUME NEW t \in TransIDs, NEW i \in Completed(t)
               PROVE  i \in Completed(t)'
    OBVIOUS
  <2>1. PICK e : log' = Append(log, e)
    BY <1>2
  <2>2. i \in DOMAIN log /\ log[i].trans = t
    BY DEF Completed
  <2>3. i \in DOMAIN log' /\ log'[i] = log[i]
    BY <2>1, <2>2 DEF TypeOK, ReceiverTypeOK
  <2> QED
    BY <2>2, <2>3 DEF Completed
<1>3. log' = log \/ \E e : log' = Append(log, e)
  BY DEF Next, vars, recvVars, Sending, Handling, Application, Claim, Register, SendFull,
         SendFullFails, Query, QueryFails, QueryRetry, QueryGiveUp, QueryExpire,
         QueryExpired, QueryShutdown, WaitReceived, WaitTimeout, WaitShutdown, Close,
         HandleReceived, HandleRep, HandleTrans, HandleReq, HandOver, RecvMsg, Lose
<1> QED
  BY <1>1, <1>2, <1>3

LEMMA SegsAreData ==
  ASSUME NEW m, NEW ids, NEW d \in Segs(m, ids)
  PROVE  d.type = "trans"
  BY DEF Segs, TransDatagram

\* A call keeps its slot once it has one.
LEMMA SlotIsKept ==
  ASSUME TypeOK, [Next]_vars
  PROVE  \A m \in Messages :
               pc[m] # "idle" => pc'[m] # "idle" /\ slotOf'[m] = slotOf[m]
<1> DEFINE Kept ==
             \A m \in Messages :
               pc[m] # "idle" => pc'[m] # "idle" /\ slotOf'[m] = slotOf[m]
<1> USE NoMsgAssumption DEF TypeOK, SenderTypeOK, Return
<1>1. ASSUME NEW n \in Messages, Claim(n) PROVE Kept
  BY <1>1 DEF Claim, FreeSlots
<1>2. ASSUME NEW n \in Messages, Register(n) PROVE Kept
  BY <1>2 DEF Register
<1>3. ASSUME NEW n \in Messages, SendFull(n) PROVE Kept
  BY <1>3 DEF SendFull, AfterBurst
<1>4. ASSUME NEW n \in Messages, SendFullFails(n) PROVE Kept
  BY <1>4 DEF SendFullFails
<1>5. ASSUME NEW n \in Messages, Query(n) PROVE Kept
  BY <1>5 DEF Query
<1>6. ASSUME NEW n \in Messages, QueryFails(n) PROVE Kept
  BY <1>6 DEF QueryFails
<1>7. ASSUME NEW n \in Messages, QueryRetry(n) PROVE Kept
  BY <1>7 DEF QueryRetry
<1>8. ASSUME NEW n \in Messages, QueryGiveUp(n) PROVE Kept
  BY <1>8 DEF QueryGiveUp
<1>9. ASSUME NEW n \in Messages, QueryExpire(n) PROVE Kept
  BY <1>9 DEF QueryExpire
<1>10. ASSUME NEW n \in Messages, QueryExpired(n) PROVE Kept
  BY <1>10 DEF QueryExpired, DeleteRequest
<1>11. ASSUME NEW n \in Messages, QueryShutdown(n) PROVE Kept
  BY <1>11 DEF QueryShutdown
<1>12. ASSUME NEW n \in Messages, WaitReceived(n) PROVE Kept
  BY <1>12 DEF WaitReceived
<1>13. ASSUME NEW n \in Messages, WaitTimeout(n) PROVE Kept
  BY <1>13 DEF WaitTimeout
<1>14. ASSUME NEW n \in Messages, WaitShutdown(n) PROVE Kept
  BY <1>14 DEF WaitShutdown
<1>15. ASSUME NEW d \in net, HandleReceived(d) PROVE Kept
  <2>1. d.trans \in TransIDs
    BY DatagramFields DEF TypeOK, NetTypeOK
  <2> QED
    BY <1>15, <2>1 DEF HandleReceived, Told
<1>16. ASSUME NEW d \in net, HandleRep(d) PROVE Kept
  <2>1. d.id \in Messages
    BY <1>16, DatagramFields DEF TypeOK, NetTypeOK, HandleRep
  <2>2. CASE pc[d.id] # "asking" /\ blocked' = d.id
    BY <1>16, <2>1, <2>2 DEF HandleRep
  <2>3. CASE pc[d.id] = "asking" /\ UNCHANGED blocked /\ \E rest : Resume(d.id, d, rest)
    BY <1>16, <2>1, <2>3 DEF HandleRep, Resume, AfterBurst, DeleteRequest
  <2> QED
    BY <1>16, <2>2, <2>3 DEF HandleRep
<1>17. CASE Close
  BY <1>17 DEF Close
<1>18. CASE UNCHANGED senderVars
  BY <1>18 DEF senderVars
<1> QED
  BY <1>1, <1>2, <1>3, <1>4, <1>5, <1>6, <1>7, <1>8, <1>9, <1>10, <1>11, <1>12, <1>13,
     <1>14, <1>15, <1>16, <1>17, <1>18
  DEF Next, Sending, Handling, Application, vars, HandleTrans, HandleReq, HandOver,
      RecvMsg, Lose

LEMMA UnstartedStep ==
  ASSUME TypeOK, Unstarted, Registered, [Next]_vars
  PROVE  Unstarted'
<1> USE NoMsgAssumption DEF TypeOK, SenderTypeOK, Unstarted, Registered, Return
<1>1. ASSUME NEW n \in Messages, Claim(n) PROVE Unstarted'
  BY <1>1 DEF Claim, FreeSlots
<1>2. ASSUME NEW n \in Messages, Register(n) PROVE Unstarted'
  BY <1>2 DEF Register
<1>3. ASSUME NEW n \in Messages, SendFull(n) PROVE Unstarted'
  BY <1>3 DEF SendFull, AfterBurst
<1>4. ASSUME NEW n \in Messages, SendFullFails(n) PROVE Unstarted'
  BY <1>4 DEF SendFullFails
<1>5. ASSUME NEW n \in Messages, Query(n) PROVE Unstarted'
  BY <1>5 DEF Query
<1>6. ASSUME NEW n \in Messages, QueryFails(n) PROVE Unstarted'
  BY <1>6 DEF QueryFails
<1>7. ASSUME NEW n \in Messages, QueryRetry(n) PROVE Unstarted'
  BY <1>7 DEF QueryRetry
<1>8. ASSUME NEW n \in Messages, QueryGiveUp(n) PROVE Unstarted'
  BY <1>8 DEF QueryGiveUp
<1>9. ASSUME NEW n \in Messages, QueryExpire(n) PROVE Unstarted'
  BY <1>9 DEF QueryExpire
<1>10. ASSUME NEW n \in Messages, QueryExpired(n) PROVE Unstarted'
  BY <1>10 DEF QueryExpired, DeleteRequest
<1>11. ASSUME NEW n \in Messages, QueryShutdown(n) PROVE Unstarted'
  BY <1>11 DEF QueryShutdown
<1>12. ASSUME NEW n \in Messages, WaitReceived(n) PROVE Unstarted'
  BY <1>12 DEF WaitReceived
<1>13. ASSUME NEW n \in Messages, WaitTimeout(n) PROVE Unstarted'
  BY <1>13 DEF WaitTimeout
<1>14. ASSUME NEW n \in Messages, WaitShutdown(n) PROVE Unstarted'
  BY <1>14 DEF WaitShutdown
<1>15. ASSUME NEW d \in net, HandleReceived(d) PROVE Unstarted'
  <2>1. d.trans \in TransIDs
    BY DatagramFields DEF TypeOK, NetTypeOK
  <2> QED
    BY <1>15, <2>1 DEF HandleReceived, Told
<1>16. ASSUME NEW d \in net, HandleRep(d) PROVE Unstarted'
  <2>1. d.id \in Messages
    BY <1>16, DatagramFields DEF TypeOK, NetTypeOK, HandleRep
  <2>2. CASE pc[d.id] # "asking" /\ blocked' = d.id
    BY <1>16, <2>1, <2>2 DEF HandleRep
  <2>3. CASE pc[d.id] = "asking" /\ UNCHANGED blocked /\ \E rest : Resume(d.id, d, rest)
    BY <1>16, <2>1, <2>3 DEF HandleRep, Resume, AfterBurst, DeleteRequest
  <2> QED
    BY <1>16, <2>2, <2>3 DEF HandleRep
<1>17. CASE Close
  BY <1>17 DEF Close
<1>18. CASE UNCHANGED senderVars
  BY <1>18 DEF senderVars
<1> QED
  BY <1>1, <1>2, <1>3, <1>4, <1>5, <1>6, <1>7, <1>8, <1>9, <1>10, <1>11, <1>12, <1>13,
     <1>14, <1>15, <1>16, <1>17, <1>18
  DEF Next, Sending, Handling, Application, vars, HandleTrans, HandleReq, HandOver,
      RecvMsg, Lose

LEMMA RegisteredStep ==
  ASSUME TypeOK, Registered, [Next]_vars
  PROVE  Registered'
<1> USE NoMsgAssumption DEF TypeOK, SenderTypeOK, Registered, Return
<1>1. ASSUME NEW n \in Messages, Claim(n) PROVE Registered'
  BY <1>1 DEF Claim, FreeSlots
<1>2. ASSUME NEW n \in Messages, Register(n) PROVE Registered'
  BY <1>2 DEF Register
<1>3. ASSUME NEW n \in Messages, SendFull(n) PROVE Registered'
  BY <1>3 DEF SendFull, AfterBurst
<1>4. ASSUME NEW n \in Messages, SendFullFails(n) PROVE Registered'
  BY <1>4 DEF SendFullFails
<1>5. ASSUME NEW n \in Messages, Query(n) PROVE Registered'
  BY <1>5 DEF Query
<1>6. ASSUME NEW n \in Messages, QueryFails(n) PROVE Registered'
  BY <1>6 DEF QueryFails
<1>7. ASSUME NEW n \in Messages, QueryRetry(n) PROVE Registered'
  BY <1>7 DEF QueryRetry
<1>8. ASSUME NEW n \in Messages, QueryGiveUp(n) PROVE Registered'
  BY <1>8 DEF QueryGiveUp
<1>9. ASSUME NEW n \in Messages, QueryExpire(n) PROVE Registered'
  BY <1>9 DEF QueryExpire
<1>10. ASSUME NEW n \in Messages, QueryExpired(n) PROVE Registered'
  BY <1>10 DEF QueryExpired, DeleteRequest
<1>11. ASSUME NEW n \in Messages, QueryShutdown(n) PROVE Registered'
  BY <1>11 DEF QueryShutdown
<1>12. ASSUME NEW n \in Messages, WaitReceived(n) PROVE Registered'
  BY <1>12 DEF WaitReceived
<1>13. ASSUME NEW n \in Messages, WaitTimeout(n) PROVE Registered'
  BY <1>13 DEF WaitTimeout
<1>14. ASSUME NEW n \in Messages, WaitShutdown(n) PROVE Registered'
  BY <1>14 DEF WaitShutdown
<1>15. ASSUME NEW d \in net, HandleReceived(d) PROVE Registered'
  <2>1. d.trans \in TransIDs
    BY DatagramFields DEF TypeOK, NetTypeOK
  <2> QED
    BY <1>15, <2>1 DEF HandleReceived, Told
<1>16. ASSUME NEW d \in net, HandleRep(d) PROVE Registered'
  <2>1. d.id \in Messages
    BY <1>16, DatagramFields DEF TypeOK, NetTypeOK, HandleRep
  <2>2. CASE pc[d.id] # "asking" /\ blocked' = d.id
    BY <1>16, <2>1, <2>2 DEF HandleRep
  <2>3. CASE pc[d.id] = "asking" /\ UNCHANGED blocked /\ \E rest : Resume(d.id, d, rest)
    BY <1>16, <2>1, <2>3 DEF HandleRep, Resume, AfterBurst, DeleteRequest
  <2> QED
    BY <1>16, <2>2, <2>3 DEF HandleRep
<1>17. CASE Close
  BY <1>17 DEF Close
<1>18. CASE UNCHANGED senderVars
  BY <1>18 DEF senderVars
<1> QED
  BY <1>1, <1>2, <1>3, <1>4, <1>5, <1>6, <1>7, <1>8, <1>9, <1>10, <1>11, <1>12, <1>13,
     <1>14, <1>15, <1>16, <1>17, <1>18
  DEF Next, Sending, Handling, Application, vars, HandleTrans, HandleReq, HandOver,
      RecvMsg, Lose

\* Where the datagrams that a step adds come from.
LEMMA NewDatagram ==
  ASSUME [Next]_vars, NEW d \in net', d \notin net
  PROVE  \/ d.type = "trans"
         \/ \E e \in net : /\ HandleTrans(e) /\ d = ReceivedDatagram(e.trans)
                          /\ \E b : log' = Append(log, [trans |-> e.trans, body |-> b])
         \/ \E m \in Messages : (Query(m) \/ QueryRetry(m)) /\ d = ReqDatagram(slotOf[m], m)
         \/ \E e \in net : HandleReq(e) /\ d = Answer(e.trans, e.id)
<1>1. ASSUME NEW m \in Messages, Sending(m), ~Query(m), ~QueryRetry(m)
      PROVE  d.type = "trans"
  <2>1. \/ net' \subseteq net
        \/ \E ids : net' = net \cup Segs(m, ids)
    BY <1>1 DEF Sending, Claim, Register, SendFull, SendFullFails, QueryFails,
                QueryGiveUp, QueryExpire, QueryExpired, QueryShutdown, WaitReceived,
                WaitTimeout, WaitShutdown, netVars
  <2> QED
    BY <2>1, SegsAreData
<1>2. ASSUME NEW m \in Messages, Query(m) \/ QueryRetry(m)
      PROVE  d = ReqDatagram(slotOf[m], m)
  BY <1>2 DEF Query, QueryRetry
<1>3. ASSUME NEW e \in net, HandleReceived(e) \/ Lose(e)
      PROVE  FALSE
  BY <1>3 DEF HandleReceived, Lose
<1>4. ASSUME NEW e \in net, HandleRep(e)
      PROVE  d.type = "trans"
  <2>1. CASE pc[e.id] # "asking" /\ \E rest \in {net \ {e}, net} : net' = rest
    BY <2>1
  <2>2. CASE \E rest \in {net \ {e}, net} : Resume(e.id, e, rest \ Forgotten(e.id, rest))
    <3>1. PICK rest \in {net \ {e}, net} : Resume(e.id, e, rest \ Forgotten(e.id, rest))
      BY <2>2
    <3>2. net' \subseteq net \/ \E ids : net' \subseteq net \cup Segs(e.id, ids)
      BY <3>1 DEF Resume
    <3> QED
      BY <3>2, SegsAreData
  <2> QED
    BY <1>4, <2>1, <2>2 DEF HandleRep
<1>5. ASSUME NEW e \in net, HandleTrans(e)
      PROVE  /\ d = ReceivedDatagram(e.trans)
             /\ \E b : log' = Append(log, [trans |-> e.trans, body |-> b])
  BY <1>5 DEF HandleTrans
<1>6. ASSUME NEW e \in net, HandleReq(e)
      PROVE  d = Answer(e.trans, e.id)
  BY <1>6 DEF HandleReq
<1>7. Application \/ Close \/ UNCHANGED vars => FALSE
  BY DEF Application, HandOver, RecvMsg, Close, vars, netVars
<1> QED
  BY <1>1, <1>2, <1>3, <1>4, <1>5, <1>6, <1>7 DEF Next, Handling

LEMMA QueriesNamedStep ==
  ASSUME TypeOK, Tracking, [Next]_vars
  PROVE  QueriesNamed'
<1> SUFFICES ASSUME NEW d \in net', d.type \in {"req", "rep"}
             PROVE  pc'[d.id] # "idle" /\ slotOf'[d.id] = d.trans
  BY DEF QueriesNamed
<1>1. ASSUME d \in Datagrams, pc[d.id] # "idle" /\ slotOf[d.id] = d.trans
      PROVE  pc'[d.id] # "idle" /\ slotOf'[d.id] = d.trans
  BY <1>1, DatagramFields, SlotIsKept
<1>2. d \in Datagrams
  BY NetType DEF NetTypeOK
<1>3. CASE d \in net
  BY <1>1, <1>2, <1>3 DEF Tracking, QueriesNamed
<1>4. ASSUME NEW m \in Messages, Query(m) \/ QueryRetry(m), d = ReqDatagram(slotOf[m], m)
      PROVE  pc[d.id] # "idle" /\ slotOf[d.id] = d.trans
  BY <1>4 DEF Query, QueryRetry, ReqDatagram
<1>5. ASSUME NEW e \in net, HandleReq(e), d = Answer(e.trans, e.id)
      PROVE  pc[d.id] # "idle" /\ slotOf[d.id] = d.trans
  <2>1. d.id = e.id /\ d.trans = e.trans
    BY <1>5 DEF Answer, RepDatagram
  <2> QED
    BY <1>5, <2>1 DEF HandleReq, Tracking, QueriesNamed
<1>6. \A t : ReceivedDatagram(t).type = "received"
  BY DEF ReceivedDatagram
<1> QED
  BY <1>1, <1>2, <1>3, <1>4, <1>5, <1>6, NewDatagram

LEMMA BackedStep ==
  ASSUME TypeOK, Tracking, Backed, [Next]_vars
  PROVE  Backed'
<1>1. \A t \in TransIDs : Completed(t) # {} => Completed(t)' # {}
  BY CompletedGrows
<1>2. ASSUME NEW t \in TransIDs, NEW b,
             log' = Append(log, [trans |-> t, body |-> b])
      PROVE  Completed(t)' # {}
  <2>1. Len(log) + 1 \in DOMAIN log' /\ log'[Len(log) + 1].trans = t
    BY <1>2 DEF TypeOK, ReceiverTypeOK
  <2> QED
    BY <2>1 DEF Completed
<1>3. ASSUME NEW t \in TransIDs, rl'[t] # <<>>, rl'[t][1].completed
      PROVE  Completed(t)' # {}
  <2>1. CASE rl'[t] = rl[t]
    BY <1>1, <1>3, <2>1 DEF Backed
  <2>2. ASSUME NEW d \in net, HandleTrans(d), d.trans = t, rl'[t] # rl[t]
        PROVE  Completed(t)' # {}
    <3> DEFINE r   == Recving(t)
               new == Save(r, d.seg)
    <3>1. rl'[t] = <<new>>
      BY <2>2 DEF HandleTrans, TypeOK, ReceiverTypeOK
    <3>2. new.completed
      BY <1>3, <3>1
    <3>3. CASE Duplicate(r, d.seg)
      <4>1. new = r
        BY <3>3 DEF Save
      <4>2. ~NewRecving.completed
        BY DEF NewRecving
      <4> QED
        BY <3>2, <4>1, <4>2 DEF Recving
    <3>4. CASE ~Duplicate(r, d.seg)
      <4>1. log' = Append(log, [trans |-> t, body |-> new.body])
        BY <2>2, <3>2, <3>4 DEF HandleTrans
      <4> QED
        BY <1>2, <4>1
    <3> QED
      BY <3>3, <3>4
  <2>3. UNCHANGED rl \/ \E d \in net : HandleTrans(d)
    BY DEF Next, vars, recvVars, Sending, Handling, Application, Claim, Register, SendFull,
           SendFullFails, Query, QueryFails, QueryRetry, QueryGiveUp, QueryExpire,
           QueryExpired, QueryShutdown, WaitReceived, WaitTimeout, WaitShutdown, Close,
           HandleReceived, HandleRep, HandleReq, HandOver, RecvMsg, Lose
  <2>4. ASSUME NEW d \in net, HandleTrans(d), d.trans # t
        PROVE  rl'[t] = rl[t]
    BY <2>4 DEF HandleTrans, TypeOK, ReceiverTypeOK
  <2> QED
    BY <2>1, <2>2, <2>3, <2>4
<1>4. ASSUME NEW d \in net',
             d.type = "received" \/ (d.type = "rep" /\ d.status = "completed")
      PROVE  Completed(d.trans)' # {}
  <2>1. d.trans \in TransIDs
    BY NetType, DatagramFields DEF NetTypeOK
  <2>2. CASE d \in net
    BY <1>1, <1>4, <2>1, <2>2 DEF Backed
  <2>3. ASSUME NEW e \in net, d = ReceivedDatagram(e.trans),
               \E b : log' = Append(log, [trans |-> e.trans, body |-> b])
        PROVE  Completed(d.trans)' # {}
    <3>1. d.trans = e.trans
      BY <2>3 DEF ReceivedDatagram
    <3> QED
      BY <1>2, <2>1, <2>3, <3>1
  <2>4. ASSUME NEW e \in net, HandleReq(e), d = Answer(e.trans, e.id)
        PROVE  Completed(d.trans)' # {}
    <3>1. d.trans = e.trans /\ d.type = "rep" /\ d.status = AnswerStatus(e.trans)
      BY <2>4 DEF Answer, RepDatagram
    <3>2. rl[e.trans] # <<>> /\ rl[e.trans][1].completed
      BY <1>4, <3>1 DEF AnswerStatus
    <3> QED
      BY <1>1, <2>1, <3>1, <3>2 DEF Backed
  <2>5. \A m \in Messages : ReqDatagram(slotOf[m], m).type = "req"
    BY DEF ReqDatagram
  <2> QED
    BY <1>4, <2>2, <2>3, <2>4, <2>5, NewDatagram
<1>5. ASSUME NEW m \in closed' PROVE (Completed(slotOf[m]) # {})'
  <2>1. CASE m \in closed
    <3>1. m \in Messages /\ pc[m] # "idle"
      BY <2>1 DEF TypeOK, SenderTypeOK, Tracking, Unstarted
    <3>2. slotOf'[m] = slotOf[m] /\ slotOf[m] \in TransIDs
      BY <3>1, SlotIsKept DEF TypeOK, SenderTypeOK
    <3>3. Completed(slotOf[m]) # {}
      BY <2>1 DEF Backed
    <3>4. Completed(slotOf[m])' # {}
      BY <1>1, <3>2, <3>3 DEF Completed
    <3> QED
      BY <3>4
  <2>2. ASSUME NEW d \in net, HandleReceived(d), m = slWait[d.trans], m # NoMsg
        PROVE  (Completed(slotOf[m]) # {})'
    <3>1. d.trans \in TransIDs
      BY DatagramFields DEF TypeOK, NetTypeOK
    <3>2. slotOf[m] = d.trans /\ UNCHANGED <<slotOf, log>>
      BY <2>2, <3>1 DEF Tracking, Registered, HandleReceived, recvVars
    <3>3. Completed(d.trans) # {}
      BY <2>2 DEF Backed, HandleReceived
    <3> QED
      BY <3>2, <3>3 DEF Completed
  <2>3. \/ closed' = closed
        \/ \E d \in net : /\ HandleReceived(d)
                          /\ closed' = closed \cup ({slWait[d.trans]} \ {NoMsg})
    BY DEF Next, vars, senderVars, Sending, Handling, Application, Claim, Register,
           SendFull, SendFullFails, Query, QueryFails, QueryRetry, QueryGiveUp,
           QueryExpire, QueryExpired, QueryShutdown, WaitReceived, WaitTimeout,
           WaitShutdown, Close, HandleReceived, Told, HandleRep, HandleTrans, HandleReq,
           HandOver, RecvMsg, Lose
  <2> QED
    BY <2>1, <2>2, <2>3
<1> QED
  BY <1>3, <1>4, <1>5 DEF Backed

\* Who returns success: a call whose channel is closed, or whose query is answered
\* "completed".
LEMMA SuccessStep ==
  ASSUME TypeOK, Tracking, Backed, SuccessBacked, [Next]_vars
  PROVE  SuccessBacked'
<1> SUFFICES ASSUME NEW m \in Messages, result'[m] = "ok"
             PROVE  Completed(slotOf[m])' # {}
  BY DEF SuccessBacked
<1>1. ASSUME pc[m] # "idle", Completed(slotOf[m]) # {}
      PROVE  Completed(slotOf[m])' # {}
  <2>1. slotOf'[m] = slotOf[m] /\ slotOf[m] \in TransIDs
    BY <1>1, SlotIsKept DEF TypeOK, SenderTypeOK
  <2> QED
    BY <1>1, <2>1, CompletedGrows DEF Completed
<1>2. CASE result[m] = "ok"
  <2>1. pc[m] # "idle"
    BY <1>2 DEF Tracking, Unstarted
  <2> QED
    BY <1>1, <1>2, <2>1 DEF SuccessBacked
<1>3. CASE WaitReceived(m)
  BY <1>1, <1>3 DEF WaitReceived, Backed
<1>4. ASSUME NEW d \in net, HandleRep(d), d.status = "completed", d.id = m
      PROVE  Completed(slotOf[m])' # {}
  BY <1>1, <1>4 DEF HandleRep, Tracking, QueriesNamed, Backed
<1>5. \/ result'[m] = result[m] \/ WaitReceived(m)
      \/ \E d \in net : HandleRep(d) /\ d.status = "completed" /\ d.id = m
      \/ result'[m] # "ok"
  <2> USE DEF TypeOK, SenderTypeOK, Return
  <2>1. ASSUME NEW n \in Messages, Sending(n), ~WaitReceived(m)
        PROVE  result'[m] = result[m] \/ result'[m] # "ok"
    BY <2>1 DEF Sending, Claim, Register, SendFull, SendFullFails, Query, QueryFails,
                QueryRetry, QueryGiveUp, QueryExpire, QueryExpired, QueryShutdown, WaitShutdown, WaitTimeout, WaitReceived
  <2>2. ASSUME NEW d \in net, HandleRep(d), ~(d.status = "completed" /\ d.id = m)
        PROVE  result'[m] = result[m] \/ result'[m] # "ok"
    <3>1. d.id \in Messages
      BY <2>2, DatagramFields DEF NetTypeOK, HandleRep
    <3>2. CASE UNCHANGED result
      BY <3>2
    <3>3. CASE \E rest : Resume(d.id, d, rest)
      BY <2>2, <3>1, <3>3 DEF Resume
    <3> QED
      BY <2>2, <3>2, <3>3 DEF HandleRep
  <2>3. ASSUME NEW d \in net, HandleReceived(d) \/ HandleTrans(d) \/ HandleReq(d) \/ Lose(d)
        PROVE  result' = result
    BY <2>3 DEF HandleReceived, HandleTrans, HandleReq, Lose, senderVars
  <2>4. Application \/ Close \/ UNCHANGED vars => result' = result
    BY DEF Application, HandOver, RecvMsg, Close, vars, senderVars
  <2> QED
    BY <2>1, <2>2, <2>3, <2>4 DEF Next, Handling
<1> QED
  BY <1>2, <1>3, <1>4, <1>5

LEMMA SuccessInvariant == Spec => [](Tracking /\ Backed /\ SuccessBacked)
<1>1. Init => Tracking /\ Backed /\ SuccessBacked
  BY DEF Init, Tracking, Unstarted, Registered, QueriesNamed, Backed, SuccessBacked
<1>2. TypeOK /\ Tracking /\ Backed /\ SuccessBacked /\ [Next]_vars
      => (Tracking /\ Backed /\ SuccessBacked)'
  BY UnstartedStep, RegisteredStep, QueriesNamedStep, BackedStep, SuccessStep DEF Tracking
<1> QED
  BY <1>1, <1>2, TypeCorrect, PTL DEF Spec

\* SendMsg returns nil only after the other end has completed a message on its
\* slot (udp.go:574-576, 617-619).
THEOREM SuccessIsBacked == Spec => []SuccessBacked
  BY SuccessInvariant, PTL
===============================================================================
