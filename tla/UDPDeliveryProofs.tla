-------------------------- MODULE UDPDeliveryProofs --------------------------
(***************************************************************************)
(* Proofs about what UDPTransfer delivers, for every number of messages,   *)
(* slots and segments and every window: what a slot is used for once       *)
(* arrives whole under every kind of fault, and without faults the         *)
(* transport is a reliable channel.                                        *)
(***************************************************************************)
EXTENDS UDPTransferProofs, FiniteSetTheorems

-------------------------------------------------------------------------------
\* Lengths.

\* Order ids of a message.
IDs(m) == 0 .. MaxOrderID(m)

LEMMA Division ==
  ASSUME NEW a \in Int, NEW b \in Int, b > 0
  PROVE  /\ a \div b \in Int /\ a % b \in Int
         /\ 0 <= a % b /\ a % b < b
         /\ a = b * (a \div b) + (a % b)
  BY Z3

\* All bodies but the last are full, and the last is not empty.
LEMMA Cutting ==
  ASSUME NEW m \in Messages
  PROVE  /\ MaxOrderID(m) \in Nat /\ SegSize \in Nat /\ Need[m] \in Nat /\ Need[m] > 0
         /\ MaxOrderID(m) * SegSize < Need[m] /\ Need[m] <= (MaxOrderID(m) + 1) * SegSize
<1> DEFINE n == Need[m]
           q == n \div SegSize
           r == n % SegSize
<1>1. SegSize \in Nat /\ SegSize > 4 /\ n \in Nat /\ n > 4
  BY SegSizeAssumption, NeedAssumption
<1>2. q \in Int /\ r \in Int /\ 0 <= r /\ r < SegSize /\ n = SegSize * q + r
  BY <1>1, SegSize > 0, Division
<1>3. SegmentCount(m) = q + (IF r = 0 THEN 0 ELSE 1)
  BY DEF SegmentCount
<1>4. q >= 0
  <2> HIDE DEF q, r, n
  <2>1. ASSUME q <= -1 PROVE FALSE
    <3>1. SegSize * q <= -SegSize
      BY <1>1, <1>2, <2>1, Z3
    <3> QED
      BY <1>1, <1>2, <2>1, <3>1
  <2> QED
    BY <1>2, <2>1
<1>5. CASE r = 0
  <2>1. MaxOrderID(m) = q - 1
    BY <1>2, <1>3, <1>5 DEF MaxOrderID
  <2> HIDE DEF q, r, n
  <2>2. q # 0
    BY <1>1, <1>2, <1>5
  <2>3. (q - 1) * SegSize = SegSize * q - SegSize /\ (q - 1 + 1) * SegSize = SegSize * q
    BY <1>1, <1>2, Z3
  <2> QED
    BY <1>1, <1>2, <1>4, <1>5, <2>1, <2>2, <2>3 DEF n
<1>6. CASE r # 0
  <2>1. MaxOrderID(m) = q
    BY <1>2, <1>3, <1>6 DEF MaxOrderID
  <2> HIDE DEF q, r, n
  <2>2. q * SegSize = SegSize * q /\ (q + 1) * SegSize = SegSize * q + SegSize
    BY <1>1, <1>2, Z3
  <2> QED
    BY <1>1, <1>2, <1>4, <1>6, <2>1, <2>2 DEF n
<1> QED
  BY <1>5, <1>6

LEMMA Multiples ==
  ASSUME NEW a \in Int, NEW b \in Int, a <= b, NEW s \in Nat
  PROVE  a * s \in Int /\ b * s \in Int /\ a * s <= b * s /\ (a + 1) * s = a * s + s
  BY Z3

LEMMA SegmentLength ==
  ASSUME NEW m \in Messages, NEW i \in IDs(m)
  PROVE  BodyLen(Segment(m, i)) = IF i = MaxOrderID(m) THEN Need[m] - MaxOrderID(m) * SegSize
                                                       ELSE SegSize
<1> DEFINE x == MaxOrderID(m)
<1>1. /\ x \in Nat /\ SegSize \in Nat /\ Need[m] \in Nat
      /\ x * SegSize < Need[m] /\ Need[m] <= (x + 1) * SegSize
  BY Cutting
<1>2. BodyLen(Segment(m, i)) = IF (i + 1) * SegSize > Need[m] THEN Need[m] - i * SegSize ELSE SegSize
  BY DEF BodyLen, Segment
<1> HIDE DEF x
<1>3. i \in 0 .. x
  BY DEF IDs, x
<1>4. CASE i = x
  <2>1. (x + 1) * SegSize = x * SegSize + SegSize /\ x * SegSize \in Int
    BY <1>1, Multiples
  <2> QED
    BY <1>1, <1>2, <1>4, <2>1 DEF x
<1>5. CASE i # x
  <2>1. (i + 1) * SegSize <= x * SegSize /\ (i + 1) * SegSize \in Int /\ x * SegSize \in Int
    <3>1. i + 1 \in Int /\ x \in Int /\ i + 1 <= x
      BY <1>1, <1>3, <1>5
    <3> QED
      BY <1>1, <3>1, Multiples
  <2>2. ~((i + 1) * SegSize > Need[m])
    BY <1>1, <2>1
  <2> QED
    BY <1>2, <1>5, <2>2 DEF x
<1> QED
  BY <1>4, <1>5

\* What the lengths of the segments D of m add up to.
ReadOf(m, D) ==
  IF MaxOrderID(m) \in D
  THEN (Cardinality(D) - 1) * SegSize + (Need[m] - MaxOrderID(m) * SegSize)
  ELSE Cardinality(D) * SegSize

LEMMA IDsFinite ==
  ASSUME NEW m \in Messages, NEW D \in SUBSET IDs(m)
  PROVE  /\ IsFiniteSet(D) /\ Cardinality(D) \in Nat /\ Cardinality(D) <= MaxOrderID(m) + 1
         /\ Cardinality(D) = MaxOrderID(m) + 1 => D = IDs(m)
         /\ Cardinality(IDs(m)) = MaxOrderID(m) + 1
<1>1. MaxOrderID(m) \in Nat
  BY Cutting
<1>2. IsFiniteSet(IDs(m)) /\ Cardinality(IDs(m)) = MaxOrderID(m) + 1
  <2>1. 0 \in Int /\ MaxOrderID(m) \in Int /\ ~(0 > MaxOrderID(m))
    BY <1>1
  <2>2. IsFiniteSet(0 .. MaxOrderID(m)) /\ Cardinality(0 .. MaxOrderID(m)) = MaxOrderID(m) - 0 + 1
    BY <2>1, FS_Interval
  <2> QED
    BY <1>1, <2>2 DEF IDs
<1>3. IsFiniteSet(D) /\ Cardinality(D) <= Cardinality(IDs(m)) /\ (Cardinality(IDs(m)) = Cardinality(D) => IDs(m) = D)
  BY <1>2, FS_Subset
<1>4. Cardinality(D) \in Nat
  BY <1>3, FS_CardinalityType
<1> QED
  BY <1>2, <1>3, <1>4

LEMMA ReadGrows ==
  ASSUME NEW m \in Messages, NEW D \in SUBSET IDs(m), NEW i \in IDs(m), i \notin D
  PROVE  ReadOf(m, D \cup {i}) = ReadOf(m, D) + BodyLen(Segment(m, i))
<1> DEFINE x == MaxOrderID(m)
           c == Cardinality(D)
<1>1. x \in Nat /\ SegSize \in Nat /\ Need[m] \in Nat
  BY Cutting
<1>2. c \in Nat /\ Cardinality(D \cup {i}) = c + 1
  BY IDsFinite, FS_AddElement
<1>3. BodyLen(Segment(m, i)) = IF i = x THEN Need[m] - x * SegSize ELSE SegSize
  BY SegmentLength
<1>4. ReadOf(m, D) = IF x \in D THEN (c - 1) * SegSize + (Need[m] - x * SegSize) ELSE c * SegSize
  BY DEF ReadOf
<1>5. ReadOf(m, D \cup {i}) = IF x \in D \cup {i} THEN (c + 1 - 1) * SegSize + (Need[m] - x * SegSize)
                                                  ELSE (c + 1) * SegSize
  BY <1>2 DEF ReadOf
<1> HIDE DEF x, c
<1>6. /\ (c + 1) * SegSize = c * SegSize + SegSize /\ (c - 1 + 1) * SegSize = (c - 1) * SegSize + SegSize
      /\ c * SegSize \in Int /\ (c - 1) * SegSize \in Int /\ x * SegSize \in Int
      /\ c - 1 + 1 = c /\ c + 1 - 1 = c
  <2>1. c \in Int /\ c - 1 \in Int /\ c <= c /\ c - 1 <= c - 1 /\ x \in Int /\ x <= x
    BY <1>1, <1>2
  <2>2. (c + 1) * SegSize = c * SegSize + SegSize /\ c * SegSize \in Int
    BY <1>1, <2>1, Multiples
  <2>3. (c - 1 + 1) * SegSize = (c - 1) * SegSize + SegSize /\ (c - 1) * SegSize \in Int
    BY <1>1, <2>1, Multiples
  <2>4. x * SegSize \in Int
    BY <1>1, <2>1, Multiples
  <2> QED
    BY <1>2, <2>2, <2>3, <2>4
<1> QED
  BY <1>1, <1>3, <1>4, <1>5, <1>6

\* The lengths add up to the length of the message when all segments are there, and not before.
LEMMA ReadWhole ==
  ASSUME NEW m \in Messages, NEW D \in SUBSET IDs(m)
  PROVE  ReadOf(m, D) \in Int /\ (Need[m] <= ReadOf(m, D) <=> D = IDs(m))
<1> DEFINE x == MaxOrderID(m)
           c == Cardinality(D)
<1>1. x \in Nat /\ SegSize \in Nat /\ Need[m] \in Nat /\ x * SegSize < Need[m]
  BY Cutting
<1>2. c \in Nat /\ c <= x + 1 /\ (c = x + 1 => D = IDs(m)) /\ Cardinality(IDs(m)) = x + 1
  BY IDsFinite
<1>3. ReadOf(m, D) = IF x \in D THEN (c - 1) * SegSize + (Need[m] - x * SegSize) ELSE c * SegSize
  BY DEF ReadOf
<1>4. x \in IDs(m)
  BY <1>1 DEF IDs
<1>5. D = IDs(m) <=> c = x + 1
  BY <1>2
<1> HIDE DEF x, c
<1>6. CASE x \notin D
  <2>1. c \in Int /\ x \in Int /\ c <= x
    BY <1>1, <1>2, <1>4, <1>5, <1>6
  <2>2. c * SegSize <= x * SegSize /\ c * SegSize \in Int /\ x * SegSize \in Int
    BY <1>1, <2>1, Multiples
  <2> QED
    BY <1>1, <1>3, <1>4, <1>6, <2>2
<1>7. CASE x \in D
  <2>1. c - 1 \in Int /\ x \in Int /\ c - 1 <= x
    BY <1>1, <1>2
  <2>2. x * SegSize \in Int /\ (c - 1) * SegSize \in Int
    BY <1>1, <2>1, Multiples
  <2>3. CASE c = x + 1
    <3>1. c - 1 = x
      BY <1>1, <2>3
    <3> QED
      BY <1>1, <1>3, <1>5, <1>7, <2>2, <2>3, <3>1
  <2>4. CASE c # x + 1
    <3>1. c - 1 + 1 <= x /\ c - 1 + 1 \in Int
      BY <1>1, <1>2, <2>4
    <3>2. (c - 1 + 1) * SegSize <= x * SegSize
      BY <1>1, <2>1, <3>1, Multiples
    <3>3. (c - 1 + 1) * SegSize = (c - 1) * SegSize + SegSize
      BY <1>1, <2>1, Multiples
    <3>4. SegSize > 0
      BY SegSizeAssumption
    <3> QED
      BY <1>1, <1>3, <1>5, <1>7, <2>2, <2>4, <3>2, <3>3, <3>4
  <2> QED
    BY <2>3, <2>4
<1> QED
  BY <1>6, <1>7

-------------------------------------------------------------------------------
\* Records that hold segments of one message only.

PartOf(r, m) ==
  /\ DOMAIN r.body \subseteq IDs(m)
  /\ \A i \in DOMAIN r.body : r.body[i] = Segment(m, i)
  /\ r.need = IF 0 \in DOMAIN r.body THEN Need[m] ELSE 0
  /\ r.read = ReadOf(m, DOMAIN r.body)
  /\ r.completed <=> DOMAIN r.body = IDs(m)

LEMMA NewIsPart == ASSUME NEW m \in Messages PROVE PartOf(NewRecving, m)
<1>1. DOMAIN NewRecving.body = {} /\ NewRecving.need = 0 /\ NewRecving.read = 0 /\ NewRecving.completed = FALSE
  BY DEF NewRecving
<1>2. MaxOrderID(m) \in Nat /\ SegSize \in Nat
  BY Cutting
<1>3. 0 \in IDs(m)
  BY <1>2 DEF IDs
<1>4. Cardinality({}) = 0 /\ 0 * SegSize = 0
  BY FS_EmptySet, <1>2
<1>5. ReadOf(m, {}) = 0
  BY <1>4 DEF ReadOf
<1> QED
  BY <1>1, <1>3, <1>5 DEF PartOf

\* Save keeps a record one of m.
LEMMA PartSaved ==
  ASSUME NEW m \in Messages, NEW r \in Recvings, RecvingOK(r), PartOf(r, m), ~r.completed,
         NEW i \in IDs(m), ~Duplicate(r, Segment(m, i))
  PROVE  /\ PartOf(SaveFresh(r, Segment(m, i)), m)
         /\ DOMAIN SaveFresh(r, Segment(m, i)).body = DOMAIN r.body \cup {i} /\ i \notin DOMAIN r.body
<1> DEFINE s == Segment(m, i)
           D == DOMAIN r.body
           n == SaveFresh(r, s)
<1>1. s.oid = i /\ s.msg = m
  BY DEF Segment
<1>2. i \notin D
  BY <1>1 DEF Duplicate
<1>3. D \in SUBSET IDs(m)
  BY DEF PartOf
<1>4. n.body = [j \in D \cup {i} |-> IF j = i THEN s ELSE r.body[j]]
  BY <1>1 DEF SaveFresh
<1>5. n.need = IF i = 0 /\ r.next = 0 THEN Need[m] ELSE r.need
  BY <1>1 DEF SaveFresh
<1>6. n.read = r.read + BodyLen(s)
  BY DEF SaveFresh
<1>7. n.completed <=> Enough(n.need, n.read)
  BY DEF SaveFresh
<1> HIDE DEF n
<1>8. DOMAIN n.body = D \cup {i} /\ \A j \in D \cup {i} : n.body[j] = Segment(m, j)
  BY <1>4 DEF PartOf
<1>9. n.read = ReadOf(m, D \cup {i})
  BY <1>2, <1>3, <1>6, ReadGrows DEF PartOf
<1>10. n.need = IF 0 \in D \cup {i} THEN Need[m] ELSE 0
  <2>1. r.next \in Nat /\ 0 \in OrderIDs
    <3>1. MaxOrderID(m) \in Int /\ 0 .. MaxOrderID(m) \subseteq OrderIDs
      BY MessageOrderIDs
    <3>2. MaxOrderID(m) \in Nat
      BY Cutting
    <3>3. r.next \in OrderIDs \cup {MaxSegments}
      BY DEF Recvings
    <3> QED
      BY <3>1, <3>2, <3>3, CountAssumption DEF OrderIDs
  <2>2. 0 \notin D => r.next = 0
    BY <2>1 DEF RecvingOK
  <2> QED
    BY <1>2, <1>5, <2>2 DEF PartOf
<1>11. n.completed <=> D \cup {i} = IDs(m)
  <2>1. D \cup {i} \in SUBSET IDs(m) /\ MaxOrderID(m) \in Nat /\ Need[m] \in Nat /\ Need[m] > 0
    BY <1>3, Cutting
  <2>2. 0 \in IDs(m)
    BY <2>1 DEF IDs
  <2>3. Need[m] <= ReadOf(m, D \cup {i}) <=> D \cup {i} = IDs(m)
    BY <2>1, ReadWhole
  <2>4. CASE 0 \in D \cup {i}
    BY <1>7, <1>9, <1>10, <2>1, <2>3, <2>4 DEF Enough
  <2>5. CASE 0 \notin D \cup {i}
    BY <1>7, <1>10, <2>2, <2>5 DEF Enough
  <2> QED
    BY <2>4, <2>5
<1> QED
  BY <1>2, <1>3, <1>8, <1>9, <1>10, <1>11 DEF PartOf, n

LEMMA PartWhole ==
  ASSUME NEW m \in Messages, NEW r \in Recvings, PartOf(r, m), r.completed
  PROVE  r.body = Whole(m)
<1>1. PICK E \in SUBSET OrderIDs : r.body \in [E -> Segments]
  BY DEF Recvings, Bodies
<1>2. r.body = [i \in IDs(m) |-> Segment(m, i)]
  BY <1>1 DEF PartOf
<1> QED
  BY <1>2 DEF Whole, IDs

-------------------------------------------------------------------------------
\* What a step does to slots, data in flight and receiving records.

LEMMA SlotsMove ==
  ASSUME [Next]_vars
  PROVE  slotOf' = slotOf \/ \E m \in Messages : Claim(m)
<1>1. ASSUME NEW m \in Messages, Sending(m), ~Claim(m) PROVE slotOf' = slotOf
  BY <1>1 DEF Sending, Register, SendFull, SendFullFails, Query, QueryFails, QueryRetry, QueryGiveUp,
              QueryExpire, QueryExpired, QueryShutdown, WaitReceived, WaitTimeout, WaitShutdown
<1>2. Handling => slotOf' = slotOf
  BY DEF Handling, HandleReceived, HandleRep, HandleTrans, HandleReq, senderVars
<1>3. Application \/ Close \/ UNCHANGED vars \/ (\E d \in net : Lose(d)) => slotOf' = slotOf
  BY DEF Application, HandOver, RecvMsg, Close, Lose, vars, senderVars
<1> QED
  BY <1>1, <1>2, <1>3 DEF Next

\* Only a segment that arrives changes a record or completes a message.
LEMMA RecordsMove ==
  ASSUME [Next]_vars
  PROVE  UNCHANGED <<rl, log>> \/ \E d \in net : HandleTrans(d)
<1>1. ASSUME NEW m \in Messages, Sending(m) PROVE UNCHANGED <<rl, log>>
  BY <1>1 DEF Sending, Claim, Register, SendFull, SendFullFails, Query, QueryFails, QueryRetry, QueryGiveUp,
              QueryExpire, QueryExpired, QueryShutdown, WaitReceived, WaitTimeout, WaitShutdown, recvVars
<1>2. ASSUME NEW d \in net, HandleReceived(d) \/ HandleRep(d) \/ HandleReq(d) \/ Lose(d)
      PROVE  UNCHANGED <<rl, log>>
  BY <1>2 DEF HandleReceived, HandleRep, HandleReq, Lose, recvVars
<1>3. Application \/ Close \/ UNCHANGED vars => UNCHANGED <<rl, log>>
  BY DEF Application, HandOver, RecvMsg, Close, vars, recvVars
<1> QED
  BY <1>1, <1>2, <1>3 DEF Next, Handling

\* A segment that is written belongs to the call that writes it.
LEMMA NewData ==
  ASSUME TypeOK, [Next]_vars, NEW d \in net', d \notin net, d.type = "trans"
  PROVE  \E m \in Messages : \E i \in IDs(m) :
           /\ d = TransDatagram(slotOf[m], Segment(m, i)) /\ pc[m] # "idle"
           /\ pc[m] = "full" \/ \E e \in net : HandleRep(e) /\ e.id = m
<1>1. ASSUME NEW m \in Messages, NEW W \in SUBSET IDs(m), d \in Segs(m, W)
      PROVE  \E i \in IDs(m) : d = TransDatagram(slotOf[m], Segment(m, i))
  BY <1>1 DEF Segs
<1>2. ASSUME NEW m \in Messages, SendFull(m)
      PROVE  pc[m] = "full" /\ \E i \in IDs(m) : d = TransDatagram(slotOf[m], Segment(m, i))
  <2>1. FirstN(0 .. MaxOrderID(m), SWS) \in SUBSET IDs(m)
    BY FirstNSubset DEF IDs
  <2>2. pc[m] = "full" /\ d \in Segs(m, FirstN(0 .. MaxOrderID(m), SWS))
    BY <1>2 DEF SendFull
  <2> QED
    BY <1>1, <2>1, <2>2
<1>3. ASSUME NEW m \in Messages, SendFullFails(m)
      PROVE  pc[m] = "full" /\ \E i \in IDs(m) : d = TransDatagram(slotOf[m], Segment(m, i))
  <2> DEFINE W == FirstN(0 .. MaxOrderID(m), SWS)
  <2>1. W \in SUBSET IDs(m)
    BY FirstNSubset DEF IDs
  <2> HIDE DEF W
  <2>2. PICK k \in W : net' = net \cup Segs(m, {i \in W : i < k})
    BY <1>3 DEF SendFullFails, W
  <2>3. {i \in W : i < k} \in SUBSET IDs(m)
    BY <2>1
  <2>4. d \in Segs(m, {i \in W : i < k})
    BY <2>2
  <2>5. pc[m] = "full"
    BY <1>3 DEF SendFullFails
  <2> QED
    BY <1>1, <2>3, <2>4, <2>5
<1>4. ASSUME NEW e \in net, HandleRep(e)
      PROVE  /\ e.id \in Messages /\ pc[e.id] # "idle"
             /\ \E i \in IDs(e.id) : d = TransDatagram(slotOf[e.id], Segment(e.id, i))
  <2>1. e.id \in Messages
    BY <1>4, DatagramFields DEF TypeOK, NetTypeOK, HandleRep
  <2>2. CASE pc[e.id] # "asking" /\ \E rest \in {net \ {e}, net} : net' = rest
    BY <2>2
  <2>3. ASSUME pc[e.id] = "asking", NEW rest \in {net \ {e}, net}, Resume(e.id, e, rest \ Forgotten(e.id, rest))
        PROVE  pc[e.id] # "idle" /\ \E i \in IDs(e.id) : d = TransDatagram(slotOf[e.id], Segment(e.id, i))
    <3> DEFINE W == {i \in FirstN(Unsent(e.id, e), SWS) : i <= MaxOrderID(e.id)}
    <3>1. net' \subseteq net \/ (e.status = "notCompleted" /\ net' \subseteq net \cup Segs(e.id, W))
      BY <2>3 DEF Resume
    <3>2. W \subseteq OrderIDs
      BY <1>4, FirstNSubset, DatagramFields DEF Unsent, HandleRep, TypeOK, NetTypeOK
    <3>3. \A i \in W : i <= MaxOrderID(e.id)
      OBVIOUS
    <3> HIDE DEF W
    <3>4. W \in SUBSET IDs(e.id)
      BY <2>1, <3>2, <3>3, Cutting, CountAssumption DEF IDs, OrderIDs
    <3>5. d \in Segs(e.id, W)
      BY <3>1
    <3> QED
      BY <1>1, <2>1, <2>3, <3>4, <3>5
  <2> QED
    BY <1>4, <2>1, <2>2, <2>3 DEF HandleRep
<1>5. ASSUME NEW m \in Messages, Sending(m), ~SendFull(m), ~SendFullFails(m)
      PROVE  FALSE
  <2>1. net' \subseteq net \cup {ReqDatagram(slotOf[m], m)}
    BY <1>5 DEF Sending, Claim, Register, Query, QueryFails, QueryRetry, QueryGiveUp,
                QueryExpire, QueryExpired, QueryShutdown, WaitReceived, WaitTimeout, WaitShutdown, netVars
  <2> QED
    BY <2>1 DEF ReqDatagram
<1>6. ASSUME NEW e \in net, HandleReceived(e) \/ Lose(e) \/ HandleTrans(e) \/ HandleReq(e)
      PROVE  FALSE
  <2>1. net' \subseteq net \cup {ReceivedDatagram(e.trans), Answer(e.trans, e.id)}
    BY <1>6 DEF HandleReceived, Lose, HandleTrans, HandleReq
  <2> QED
    BY <2>1 DEF ReceivedDatagram, Answer, RepDatagram
<1>7. Application \/ Close \/ UNCHANGED vars => FALSE
  BY DEF Application, HandOver, RecvMsg, Close, vars, netVars
<1>8. \A m \in Messages : pc[m] = "full" => pc[m] # "idle"
  OBVIOUS
<1> QED
  BY <1>2, <1>3, <1>4, <1>5, <1>6, <1>7, <1>8 DEF Next, Handling

LEMMA LogAppended ==
  ASSUME TypeOK, NEW e, log' = Append(log, e)
  PROVE  /\ DOMAIN log \subseteq DOMAIN log' /\ \A i \in DOMAIN log : log'[i] = log[i]
         /\ \A i \in DOMAIN log' : (i \in DOMAIN log /\ log'[i] = log[i]) \/ log'[i] = e
         /\ Len(log) + 1 \in DOMAIN log' /\ log'[Len(log) + 1] = e
         /\ Len(log') = Len(log) + 1 /\ Len(log) \in Nat
<1>1. PICK S : log \in Seq(S)
  BY DEF TypeOK, ReceiverTypeOK
<1>2. /\ DOMAIN log = 1 .. Len(log) /\ Len(log) \in Nat
      /\ DOMAIN log' = 1 .. (Len(log) + 1) /\ Len(log') = Len(log) + 1
      /\ \A i \in 1 .. Len(log) : log'[i] = log[i]
      /\ log'[Len(log) + 1] = e
  BY <1>1
<1> QED
  BY <1>2

LEMMA LogMoves ==
  ASSUME TypeOK, NEW d, HandleTrans(d)
  PROVE  \A i \in DOMAIN log' : (i \in DOMAIN log /\ log'[i] = log[i]) \/ log'[i].trans = d.trans
<1>1. CASE log' = log
  BY <1>1
<1>2. ASSUME log' = Append(log, [trans |-> d.trans, body |-> Save(Recving(d.trans), d.seg).body])
      PROVE  \A i \in DOMAIN log' : (i \in DOMAIN log /\ log'[i] = log[i]) \/ log'[i].trans = d.trans
  <2>1. PICK e : log' = Append(log, e) /\ e.trans = d.trans
    BY <1>2
  <2> QED
    BY <2>1, LogAppended
<1> QED
  BY <1>1, <1>2 DEF HandleTrans

\* What an arriving segment does to its slot.
LEMMA ArrivalFacts ==
  ASSUME TypeOK, Reassembly, NEW d \in net, HandleTrans(d)
  PROVE  LET t == d.trans
             r == Recving(t)
             new == Save(r, d.seg)
         IN  /\ t \in TransIDs /\ d.seg \in Segments
             /\ r \in Recvings /\ RecvingOK(r) /\ ~r.completed
             /\ new \in Recvings /\ RecvingOK(new)
             /\ rl'[t] = <<new>> /\ rl'[t][1] = new /\ rl'[t] # <<>>
             /\ \A u \in TransIDs \ {t} : rl'[u] = rl[u]
             /\ \/ new.completed /\ ~Duplicate(r, d.seg) /\ log' = Append(log, [trans |-> t, body |-> new.body])
                \/ (Duplicate(r, d.seg) \/ ~new.completed) /\ log' = log
<1> DEFINE t == d.trans
           r == Recving(t)
           new == Save(r, d.seg)
<1>1. d.type = "trans" /\ t \in TransIDs /\ d.seg \in Segments
  BY DatagramFields DEF TypeOK, NetTypeOK, HandleTrans
<1>2. r \in Recvings /\ RecvingOK(r)
  BY <1>1, RecvingType DEF TypeOK
<1>3. ~r.completed
  BY DEF Recving, NewRecving
<1>4. new \in Recvings /\ RecvingOK(new)
  BY <1>1, <1>2, SaveOK DEF Save
<1>5. DOMAIN rl = TransIDs
  BY DEF TypeOK, ReceiverTypeOK
<1>6. /\ rl' = [rl EXCEPT ![t] = <<new>>]
      /\ \/ new.completed /\ ~Duplicate(r, d.seg) /\ log' = Append(log, [trans |-> t, body |-> new.body])
         \/ (Duplicate(r, d.seg) \/ ~new.completed) /\ log' = log
  BY DEF HandleTrans
<1> HIDE DEF new, r, t
<1>7. rl'[t] = <<new>> /\ \A u \in TransIDs \ {t} : rl'[u] = rl[u]
  BY <1>1, <1>5, <1>6
<1>8. rl'[t][1] = new /\ rl'[t] # <<>>
  BY <1>7
<1> QED
  BY <1>1, <1>2, <1>3, <1>4, <1>6, <1>7, <1>8 DEF new, r, t

-------------------------------------------------------------------------------
\* A slot that one call only has used.

\* A call has no slot before it starts.
Unclaimed == \A m \in Messages : pc[m] = "idle" => slotOf[m] = NTrans

\* A segment in flight carries the slot of its message.
Owned(d) ==
  /\ pc[d.seg.msg] # "idle" /\ slotOf[d.seg.msg] = d.trans
  /\ d.seg.oid \in IDs(d.seg.msg) /\ d.seg = Segment(d.seg.msg, d.seg.oid)

DataNamed == \A d \in net : d.type = "trans" => Owned(d)

\* Nothing has arrived on a slot that nobody has used.
Used(t)   == \E m \in Messages : slotOf[m] = t
Arrivals  == \A t \in TransIDs : rl[t] # <<>> \/ Completed(t) # {} => Used(t)

\* The only call that has used its slot.
Sole(m)   == slotOf[m] \in TransIDs /\ \A n \in Messages \ {m} : slotOf[n] # slotOf[m]
SoleParts ==
  \A m \in Messages : Sole(m) =>
    /\ rl[slotOf[m]] # <<>> => PartOf(rl[slotOf[m]][1], m)
    /\ \A i \in Completed(slotOf[m]) : log[i].body = Whole(m)

Intact == Unclaimed /\ DataNamed /\ Arrivals /\ SoleParts

LEMMA UnclaimedStep ==
  ASSUME TypeOK, Unclaimed, [Next]_vars
  PROVE  Unclaimed'
<1> SUFFICES ASSUME NEW m \in Messages, pc'[m] = "idle" PROVE slotOf'[m] = NTrans
  BY DEF Unclaimed
<1>1. pc[m] = "idle"
  BY SlotIsKept
<1>2. ASSUME NEW n \in Messages, Claim(n) PROVE slotOf'[m] = slotOf[m]
  BY <1>2 DEF Claim, TypeOK, SenderTypeOK
<1> QED
  BY <1>1, <1>2, SlotsMove DEF Unclaimed

LEMMA DataNamedStep ==
  ASSUME TypeOK, DataNamed, [Next]_vars
  PROVE  DataNamed'
<1> SUFFICES ASSUME NEW d \in net', d.type = "trans" PROVE Owned(d)'
  BY DEF DataNamed
<1>1. ASSUME d.seg.msg \in Messages, Owned(d) PROVE Owned(d)'
  BY <1>1, SlotIsKept DEF Owned
<1>2. CASE d \in net
  <2>1. d.seg.msg \in Messages
    BY <1>2, DatagramFields DEF TypeOK, NetTypeOK, Segments
  <2> QED
    BY <1>1, <1>2, <2>1 DEF DataNamed
<1>3. CASE d \notin net
  <2>1. PICK m \in Messages : \E i \in IDs(m) :
          d = TransDatagram(slotOf[m], Segment(m, i)) /\ pc[m] # "idle"
    BY <1>3, NewData
  <2>2. PICK i \in IDs(m) : d = TransDatagram(slotOf[m], Segment(m, i)) /\ pc[m] # "idle"
    BY <2>1
  <2>3. d.seg = Segment(m, i) /\ d.trans = slotOf[m] /\ d.seg.msg = m /\ d.seg.oid = i
    BY <2>2 DEF TransDatagram, Segment
  <2> QED
    BY <1>1, <2>2, <2>3 DEF Owned
<1> QED
  BY <1>2, <1>3

LEMMA UsedStays ==
  ASSUME TypeOK, Unclaimed, [Next]_vars, NEW t \in TransIDs, Used(t)
  PROVE  Used(t)'
<1>1. PICK m \in Messages : slotOf[m] = t
  BY DEF Used
<1>2. NTrans \notin TransIDs
  BY SlotAssumption DEF TransIDs
<1>3. slotOf'[m] = t
  BY <1>1, <1>2, SlotIsKept DEF Unclaimed
<1> QED
  BY <1>3 DEF Used

LEMMA ArrivalsStep ==
  ASSUME TypeOK, Reassembly, Unclaimed, DataNamed, Arrivals, [Next]_vars
  PROVE  Arrivals'
<1> SUFFICES ASSUME NEW t \in TransIDs, rl'[t] # <<>> \/ Completed(t)' # {} PROVE Used(t)'
  BY DEF Arrivals
<1>1. CASE UNCHANGED <<rl, log>>
  <2>1. Used(t)
    BY <1>1 DEF Arrivals, Completed
  <2> QED
    BY <2>1, UsedStays
<1>2. ASSUME NEW d \in net, HandleTrans(d) PROVE Used(t)'
  <2>1. CASE d.trans = t
    <3>1. d.type = "trans" /\ d.seg.msg \in Messages
      BY <1>2, DatagramFields DEF TypeOK, NetTypeOK, Segments, HandleTrans
    <3>2. slotOf[d.seg.msg] = t
      BY <2>1, <3>1 DEF DataNamed, Owned
    <3>3. Used(t)
      BY <3>1, <3>2 DEF Used
    <3> QED
      BY <3>3, UsedStays
  <2>2. CASE d.trans # t
    <3>1. rl'[t] = rl[t]
      BY <1>2, <2>2, ArrivalFacts
    <3>2. Completed(t)' # {} => Completed(t) # {}
      BY <1>2, <2>2, LogMoves DEF Completed
    <3>3. Used(t)
      BY <3>1, <3>2 DEF Arrivals
    <3> QED
      BY <3>3, UsedStays
  <2> QED
    BY <2>1, <2>2
<1> QED
  BY <1>1, <1>2, RecordsMove

\* Who is the only user of a slot was it before, or has just claimed a slot nobody has used.
LEMMA SoleBefore ==
  ASSUME TypeOK, Unclaimed, [Next]_vars, NEW m \in Messages, Sole(m)'
  PROVE  \/ Sole(m) /\ slotOf'[m] = slotOf[m]
         \/ Claim(m) /\ ~Used(slotOf'[m])
<1>1. NTrans \notin TransIDs /\ slotOf'[m] \in TransIDs
  BY SlotAssumption DEF TransIDs, Sole
<1>2. \A n \in Messages : slotOf[n] \in TransIDs => slotOf'[n] = slotOf[n]
  BY <1>1, SlotIsKept DEF Unclaimed
<1>3. \A n \in Messages \ {m} : slotOf[n] # slotOf'[m]
  BY <1>1, <1>2 DEF Sole
<1>4. CASE slotOf'[m] = slotOf[m]
  BY <1>1, <1>3, <1>4 DEF Sole
<1>5. CASE slotOf'[m] # slotOf[m]
  <2>1. Claim(m)
    <3>1. ASSUME NEW n \in Messages, Claim(n), n # m PROVE slotOf'[m] = slotOf[m]
      BY <3>1 DEF Claim, TypeOK, SenderTypeOK
    <3> QED
      BY <1>5, <3>1, SlotsMove
  <2> QED
    BY <1>3, <1>5, <2>1 DEF Used
<1> QED
  BY <1>4, <1>5

LEMMA SolePartsStep ==
  ASSUME TypeOK, Reassembly, Unclaimed, DataNamed, Arrivals, SoleParts, [Next]_vars
  PROVE  SoleParts'
<1> SUFFICES ASSUME NEW m \in Messages, Sole(m)'
             PROVE  /\ rl'[slotOf'[m]] # <<>> => PartOf(rl'[slotOf'[m]][1], m)
                    /\ \A i \in Completed(slotOf[m])' : log'[i].body = Whole(m)
  BY DEF SoleParts, PartOf
<1>1. PICK t \in TransIDs : t = slotOf'[m]
  BY DEF Sole
<1>2. CASE Claim(m) /\ ~Used(t)
  <2>1. rl[t] = <<>> /\ Completed(t) = {}
    BY <1>2 DEF Arrivals
  <2>2. UNCHANGED <<rl, log>>
    BY <1>2 DEF Claim, recvVars
  <2>3. rl'[t] = <<>> /\ Completed(t)' = {}
    BY <2>1, <2>2 DEF Completed
  <2>4. Completed(slotOf[m])' = {}
    BY <1>1, <2>3 DEF Completed
  <2> QED
    BY <1>1, <2>3, <2>4
<1>3. ASSUME Sole(m), slotOf[m] = t
      PROVE  /\ rl'[t] # <<>> => PartOf(rl'[t][1], m)
             /\ \A i \in DOMAIN log' : log'[i].trans = t => log'[i].body = Whole(m)
  <2>1. /\ rl[t] # <<>> => PartOf(rl[t][1], m)
        /\ \A i \in DOMAIN log : log[i].trans = t => log[i].body = Whole(m)
    BY <1>3 DEF SoleParts, Completed
  <2>2. CASE UNCHANGED <<rl, log>>
    BY <2>1, <2>2
  <2>3. ASSUME NEW d \in net, HandleTrans(d), d.trans # t
        PROVE  /\ rl'[t] # <<>> => PartOf(rl'[t][1], m)
               /\ \A i \in DOMAIN log' : log'[i].trans = t => log'[i].body = Whole(m)
    <3>1. rl'[t] = rl[t]
      BY <2>3, ArrivalFacts
    <3>2. \A i \in DOMAIN log' : log'[i].trans = t => log'[i].body = Whole(m)
      BY <2>1, <2>3, LogMoves
    <3> QED
      BY <2>1, <3>1, <3>2
  <2>4. ASSUME NEW d \in net, HandleTrans(d), d.trans = t
        PROVE  /\ rl'[t] # <<>> => PartOf(rl'[t][1], m)
               /\ \A i \in DOMAIN log' : log'[i].trans = t => log'[i].body = Whole(m)
    <3> DEFINE r == Recving(t)
               new == Save(r, d.seg)
    <3>1. /\ r \in Recvings /\ RecvingOK(r) /\ ~r.completed /\ new \in Recvings
          /\ rl'[t][1] = new
          /\ \/ new.completed /\ log' = Append(log, [trans |-> t, body |-> new.body])
             \/ log' = log
      BY <2>4, ArrivalFacts
    <3>2. PICK i \in IDs(m) : d.seg = Segment(m, i)
      <4>1. d.type = "trans" /\ d.seg.msg \in Messages
        BY <2>4, DatagramFields DEF TypeOK, NetTypeOK, Segments, HandleTrans
      <4>2. Owned(d)
        BY <4>1 DEF DataNamed
      <4>3. d.seg.msg = m
        BY <1>3, <2>4, <4>1, <4>2 DEF Owned, Sole
      <4> QED
        BY <4>2, <4>3 DEF Owned
    <3>3. PartOf(r, m)
      BY <2>1, NewIsPart DEF Recving
    <3>4. PartOf(new, m)
      <4>1. CASE Duplicate(r, d.seg)
        BY <3>3, <4>1 DEF Save
      <4>2. CASE ~Duplicate(r, d.seg)
        <5>1. new = SaveFresh(r, Segment(m, i)) /\ ~Duplicate(r, Segment(m, i))
          BY <3>2, <4>2 DEF Save
        <5> HIDE DEF new, r
        <5>2. PartOf(SaveFresh(r, Segment(m, i)), m)
          BY <3>1, <3>3, <5>1, PartSaved
        <5> QED
          BY <5>1, <5>2
      <4> QED
        BY <4>1, <4>2
    <3> HIDE DEF new, r
    <3>5. new.completed => new.body = Whole(m)
      BY <3>1, <3>4, PartWhole
    <3>6. \A j \in DOMAIN log' : log'[j].trans = t => log'[j].body = Whole(m)
      BY <2>1, <3>1, <3>5, LogAppended
    <3> QED
      BY <3>1, <3>4, <3>6
  <2> QED
    BY <2>2, <2>3, <2>4, RecordsMove
<1>4. Sole(m) /\ slotOf[m] = t => /\ rl'[slotOf'[m]] # <<>> => PartOf(rl'[slotOf'[m]][1], m)
                                  /\ \A i \in Completed(slotOf[m])' : log'[i].body = Whole(m)
  BY <1>1, <1>3 DEF Completed
<1> QED
  BY <1>1, <1>2, <1>4, SoleBefore

LEMMA IntactInvariant == Spec => []Intact
<1>1. Init => Intact
  <2> SUFFICES ASSUME Init PROVE Intact
    OBVIOUS
  <2>1. Unclaimed /\ DataNamed
    BY DEF Init, Unclaimed, DataNamed
  <2>2. \A t \in TransIDs : rl[t] = <<>> /\ Completed(t) = {}
    BY DEF Init, Completed
  <2>3. Arrivals /\ SoleParts
    BY <2>2 DEF Arrivals, SoleParts, Sole
  <2> QED
    BY <2>1, <2>3 DEF Intact
<1>2. TypeOK /\ Reassembly /\ Intact /\ [Next]_vars => Intact'
  BY UnclaimedStep, DataNamedStep, ArrivalsStep, SolePartsStep DEF Intact
<1> QED
  BY <1>1, <1>2, TypeAndReassembly, PTL DEF Spec

LEMMA IntactIsFresh == TypeOK /\ Intact => FreshSlotIntact
<1> SUFFICES ASSUME TypeOK, Intact, NEW m \in Messages, \A n \in Messages \ {m} : slotOf[n] # slotOf[m],
                    NEW i \in Completed(slotOf[m])
             PROVE  log[i].body = Whole(m)
  BY DEF FreshSlotIntact
<1>1. slotOf[m] \in TransIDs
  <2>1. i \in DOMAIN log /\ log[i].trans = slotOf[m]
    BY DEF Completed
  <2>2. \A S : log \in Seq(S) => log[i] \in S
    BY <2>1
  <2>3. log[i] \in [trans : TransIDs, body : Bodies]
    BY <2>2 DEF TypeOK, ReceiverTypeOK
  <2> QED
    BY <2>1, <2>3
<1> QED
  BY <1>1 DEF Intact, SoleParts, Sole

\* While one call only has used a slot, what Save completes on it is the message of that
\* call, whole and in order, although segments are lost, repeated and reordered and
\* completion is decided by a sum of lengths (udp.go:103-162).
THEOREM FreshSlotsIntact == Spec => []FreshSlotIntact
  BY IntactInvariant, IntactIsFresh, TypeCorrect, PTL

-------------------------------------------------------------------------------
\* Without faults.  What follows is about a network that neither loses nor repeats anything
\* and keeps the order a call can observe, and an application that does not close; the
\* timers of a retry may fire at any time.

OnSlot(t)     == {d \in net : d.trans = t}
Reusable(t)   == rl[t] = <<>> \/ rl[t][1].completed
Quiet(t)      == OnSlot(t) = {} /\ Reusable(t)
HasArrived(m) == \E i \in DOMAIN log : log[i].body = Whole(m)

\* In what follows the call of m has written the first k segments on slot t, and those in D
\* have arrived.
FlightOK(m, t, k, D) ==
  /\ \A d \in OnSlot(t) : d.type = "trans" => d.seg.msg = m /\ d.seg.oid \in (0 .. k - 1) \ D
  /\ \A i \in 0 .. k - 1 : i \in D \/ TransDatagram(t, Segment(m, i)) \in OnSlot(t)

RecordOK(m, t, D) ==
  IF D = {} THEN Reusable(t)
            ELSE rl[t] # <<>> /\ PartOf(rl[t][1], m) /\ DOMAIN rl[t][1].body = D

PhaseOK(m, k) ==
  \/ pc[m] \in {"register", "full"} /\ k = 0
  \/ pc[m] \in {"query", "asking"} /\ k > 0
  \/ pc[m] = "wait" /\ k = MaxOrderID(m) + 1

IsQuery(d) == d.type \in {"req", "rep"}

\* There is a query on the slot as long as the call waits for its answer.
QueryOK(m, t) ==
  /\ \A d \in OnSlot(t) : IsQuery(d) => d.id = m /\ pc[m] = "asking"
  /\ pc[m] = "asking" => \E d \in OnSlot(t) : IsQuery(d)

\* A reply is what the receiver would answer now.
ReplyOK(m, t, k, D) ==
  \A d \in OnSlot(t) : d.type = "rep" => D = 0 .. k - 1 /\ d = Answer(t, m)

\* A notice is about the message of the call.
NoticeOK(m, t, D) ==
  /\ \A d \in OnSlot(t) : d.type = "received" => D = IDs(m) /\ m \notin closed
  /\ m \in closed => D = IDs(m)

WorkOf(m, t, k, D) ==
  /\ k <= MaxOrderID(m) + 1 /\ D \subseteq 0 .. k - 1
  /\ FlightOK(m, t, k, D) /\ RecordOK(m, t, D) /\ PhaseOK(m, k)
  /\ QueryOK(m, t) /\ ReplyOK(m, t, k, D) /\ NoticeOK(m, t, D)
  /\ HasArrived(m) <=> D = IDs(m)

Working(m, t) == \E k \in Nat, D \in SUBSET IDs(m) : WorkOf(m, t, k, D)

SlotOK(t) ==
  /\ sl[t] = NoMsg => Quiet(t)
  /\ \A m \in Messages : sl[t] = m => Working(m, t)

Reliable ==
  /\ ~shut
  /\ \A t \in TransIDs : SlotOK(t)
  /\ \A m \in Messages : pc[m] = "idle" => ~HasArrived(m)

\* What is known from the proofs above.
Known == TypeOK /\ Reassembly /\ SlotExclusive /\ Tracking /\ Intact

\* A message is known from its segments.
LEMMA WholeOnce ==
  ASSUME NEW m \in Messages, NEW n \in Messages, Whole(m) = Whole(n)
  PROVE  m = n
<1>1. 0 \in 0 .. MaxOrderID(m) /\ 0 \in 0 .. MaxOrderID(n)
  BY Cutting
<1>2. Whole(m)[0] = Segment(m, 0) /\ Whole(n)[0] = Segment(n, 0)
  BY <1>1 DEF Whole
<1>3. Segment(m, 0).msg = m /\ Segment(n, 0).msg = n
  BY DEF Segment
<1> QED
  BY <1>2, <1>3

LEMMA OwnerOf ==
  ASSUME Known, Reliable, NEW d \in net
  PROVE  /\ d.trans \in TransIDs
         /\ \E m \in Messages : /\ sl[d.trans] = m /\ slotOf[m] = d.trans /\ Active(m)
                                /\ Working(m, d.trans)
<1>1. d.trans \in TransIDs
  BY DatagramFields DEF Known, TypeOK, NetTypeOK
<1>2. sl[d.trans] # NoMsg
  BY <1>1 DEF Reliable, SlotOK, Quiet, OnSlot
<1>3. PICK m \in Messages : sl[d.trans] = m
  BY <1>1, <1>2 DEF Known, TypeOK, SenderTypeOK
<1> QED
  BY <1>1, <1>3 DEF Known, SlotExclusive, Reliable, SlotOK

\* A slot on which nothing happens.
LEMMA SlotSame ==
  ASSUME NEW t \in TransIDs, SlotOK(t), sl'[t] = sl[t], OnSlot(t)' = OnSlot(t), rl'[t] = rl[t],
         \A m \in Messages : sl[t] = m => /\ pc'[m] = pc[m] /\ (m \in closed' <=> m \in closed)
                                          /\ (HasArrived(m)' <=> HasArrived(m))
  PROVE  SlotOK(t)'
<1>1. Reusable(t)' <=> Reusable(t)
  BY DEF Reusable
<1>2. sl'[t] = NoMsg => Quiet(t)'
  BY <1>1 DEF SlotOK, Quiet
<1>3. ASSUME NEW m \in Messages, sl'[t] = m PROVE Working(m, t)'
  <2>1. PICK k \in Nat, D \in SUBSET IDs(m) : WorkOf(m, t, k, D)
    BY <1>3 DEF SlotOK, Working
  <2>2. FlightOK(m, t, k, D)' /\ RecordOK(m, t, D)' /\ PhaseOK(m, k)'
    BY <1>1, <1>3, <2>1 DEF WorkOf, FlightOK, RecordOK, PhaseOK
  <2>3. QueryOK(m, t)'
    BY <1>3, <2>1 DEF WorkOf, QueryOK
  <2>4. Answer(t, m)' = Answer(t, m)
    BY DEF Answer, AnswerStatus
  <2>5. ReplyOK(m, t, k, D)' /\ NoticeOK(m, t, D)'
    BY <1>3, <2>1, <2>4 DEF WorkOf, ReplyOK, NoticeOK
  <2>6. HasArrived(m)' <=> D = IDs(m)
    BY <1>3, <2>1 DEF WorkOf
  <2>7. WorkOf(m, t, k, D)'
    BY <2>1, <2>2, <2>3, <2>5, <2>6 DEF WorkOf
  <2> QED
    BY <2>7 DEF Working
<1> QED
  BY <1>2, <1>3 DEF SlotOK

\* A step of the call of m: it touches slot t only.
OnlyPC(m)   == \A n \in Messages \ {m} : pc'[n] = pc[n]
OnlySlot(t) == \A u \in TransIDs \ {t} : sl'[u] = sl[u] /\ OnSlot(u)' = OnSlot(u)

LEMMA CallStep ==
  ASSUME Known, Reliable, NEW m \in Messages, NEW t \in TransIDs, OnlyPC(m), OnlySlot(t),
         pc[m] = "idle" \/ slotOf[m] = t, pc'[m] # "idle",
         UNCHANGED <<rl, log, closed, shut>>, SlotOK(t)'
  PROVE  Reliable'
<1>1. \A n \in Messages : HasArrived(n)' <=> HasArrived(n)
  BY DEF HasArrived
<1>2. ASSUME NEW u \in TransIDs \ {t} PROVE SlotOK(u)'
  <2>1. SlotOK(u) /\ sl'[u] = sl[u] /\ OnSlot(u)' = OnSlot(u) /\ rl'[u] = rl[u]
    BY DEF Reliable, OnlySlot
  <2>2. \A n \in Messages : sl[u] = n => n # m
    BY DEF Known, SlotExclusive, Active
  <2>3. \A n \in Messages : sl[u] = n => /\ pc'[n] = pc[n] /\ (n \in closed' <=> n \in closed)
                                         /\ (HasArrived(n)' <=> HasArrived(n))
    BY <1>1, <2>2 DEF OnlyPC
  <2> QED
    BY <2>1, <2>3, SlotSame
<1>3. \A n \in Messages : pc'[n] = "idle" => ~HasArrived(n)'
  BY <1>1 DEF Reliable, OnlyPC
<1> QED
  BY <1>2, <1>3 DEF Reliable

-------------------------------------------------------------------------------
\* The steps of a call without faults.

\* What the assumption on the network says.
Faultless == Faults \subseteq {"early"}

LEMMA Untouched ==
  ASSUME Faultless
  PROVE  /\ \A m \in Messages : /\ ~SendFullFails(m) /\ ~QueryFails(m) /\ ~QueryExpire(m)
                                /\ MayFire(m, "impatient") => OnSlot(slotOf[m]) = {}
         /\ ~Close /\ \A d : ~Lose(d)
         /\ \A d, rest : TakenFrom(d, rest) => rest = net \ {d}
         /\ \A d : Deliverable(d) => \A e \in net : ~Ahead(e, d)
<1>1. \A f \in {"loss", "dup", "overtake", "impatient", "write", "close"} : f \notin Faults
  BY DEF Faultless
<1>2. ~Close /\ \A d : ~Lose(d)
  BY <1>1 DEF Close, Lose
<1>3. \A m \in Messages : ~SendFullFails(m) /\ ~QueryFails(m) /\ ~QueryExpire(m)
  BY <1>1 DEF SendFullFails, QueryFails, QueryExpire
<1>4. \A m \in Messages : MayFire(m, "impatient") => OnSlot(slotOf[m]) = {}
  BY <1>1 DEF MayFire, OnSlot
<1>5. \A d, rest : TakenFrom(d, rest) => rest = net \ {d}
  BY <1>1 DEF TakenFrom
<1>6. \A d : Deliverable(d) => \A e \in net : ~Ahead(e, d)
  BY <1>1 DEF Deliverable
<1> QED
  BY <1>2, <1>3, <1>4, <1>5, <1>6

LEMMA FirstOf ==
  ASSUME NEW a \in Nat, NEW b \in Int, a <= b + 1
  PROVE  /\ FirstN(a .. b, SWS) = {i \in a .. b : i < a + SWS}
         /\ Cardinality(a .. b) = b - a + 1
<1>1. SWS \in Nat /\ SWS > 0
  BY SWSAssumption
<1>2. \A x \in Int, y \in Int : x <= y + 1 => Cardinality(x .. y) = y - x + 1
  <2> SUFFICES ASSUME NEW x \in Int, NEW y \in Int, x <= y + 1
               PROVE  Cardinality(x .. y) = y - x + 1
    OBVIOUS
  <2>1. Cardinality(x .. y) = IF x > y THEN 0 ELSE y - x + 1
    BY FS_Interval
  <2> QED
    BY <2>1
<1>3. ASSUME NEW i \in a .. b PROVE Cardinality({j \in a .. b : j < i}) < SWS <=> i < a + SWS
  <2>1. {j \in a .. b : j < i} = a .. (i - 1)
    OBVIOUS
  <2>2. i - 1 \in Int /\ a \in Int /\ a <= i - 1 + 1
    OBVIOUS
  <2>3. Cardinality(a .. (i - 1)) = i - 1 - a + 1
    BY <1>2, <2>2
  <2>4. i - 1 - a + 1 < SWS <=> i < a + SWS
    BY <1>1
  <2> QED
    BY <2>1, <2>3, <2>4
<1>4. Cardinality(a .. b) = b - a + 1
  BY <1>2
<1> QED
  BY <1>3, <1>4 DEF FirstN

\* One burst writes the segments from k to the one before k2.
LEMMA Burst ==
  ASSUME NEW m \in Messages, NEW k \in Nat, k <= MaxOrderID(m) + 1
  PROVE  \E k2 \in Nat :
           /\ k <= k2 /\ k2 <= MaxOrderID(m) + 1
           /\ FirstN(k .. MaxOrderID(m), SWS) = k .. (k2 - 1)
           /\ \/ AfterBurst(k .. MaxOrderID(m)) = "query" /\ k2 > 0
              \/ AfterBurst(k .. MaxOrderID(m)) = "wait" /\ k2 = MaxOrderID(m) + 1
<1>1. PICK x \in Nat : x = MaxOrderID(m)
  BY Cutting
<1>2. SWS \in Nat /\ SWS > 0
  BY SWSAssumption
<1>3. FirstN(k .. x, SWS) = {i \in k .. x : i < k + SWS} /\ Cardinality(k .. x) = x - k + 1
  <2>1. x \in Int /\ k <= x + 1
    BY <1>1
  <2> QED
    BY <2>1, FirstOf
<1>4. CASE x - k + 1 > SWS
  <2>0. PICK k2 \in Nat : k2 = k + SWS
    BY <1>2
  <2>1. {i \in k .. x : i < k2} = k .. (k2 - 1)
    BY <1>1, <1>2, <1>4, <2>0
  <2>2. k + SWS \in Nat /\ k <= k + SWS /\ k + SWS <= x + 1 /\ k + SWS > 0
    BY <1>1, <1>2, <1>4
  <2>3. AfterBurst(k .. x) = "query"
    BY <1>3, <1>4 DEF AfterBurst
  <2>4. FirstN(k .. x, SWS) = k .. (k2 - 1)
    BY <1>3, <2>0, <2>1
  <2>5. k <= k2 /\ k2 <= x + 1 /\ k2 > 0 /\ FirstN(k .. x, SWS) = k .. (k2 - 1)
    BY <2>0, <2>2, <2>4
  <2>6. /\ k2 <= MaxOrderID(m) + 1 /\ FirstN(k .. MaxOrderID(m), SWS) = k .. (k2 - 1)
        /\ AfterBurst(k .. MaxOrderID(m)) = "query"
    BY <1>1, <2>3, <2>5
  <2> QED
    BY <2>5, <2>6
<1>5. CASE ~(x - k + 1 > SWS)
  <2>0. PICK k2 \in Nat : k2 = x + 1
    BY <1>1
  <2>1. {i \in k .. x : i < k + SWS} = k .. (k2 - 1)
    BY <1>1, <1>2, <1>5, <2>0
  <2>2. x + 1 \in Nat /\ k <= x + 1
    BY <1>1
  <2>3. AfterBurst(k .. x) = "wait"
    BY <1>3, <1>5 DEF AfterBurst
  <2>4. FirstN(k .. x, SWS) = k .. (k2 - 1)
    BY <1>3, <2>1
  <2>5. k <= k2 /\ k2 <= x + 1 /\ FirstN(k .. x, SWS) = k .. (k2 - 1)
    BY <1>1, <2>0, <2>2, <2>4
  <2>6. /\ k2 <= MaxOrderID(m) + 1 /\ FirstN(k .. MaxOrderID(m), SWS) = k .. (k2 - 1)
        /\ AfterBurst(k .. MaxOrderID(m)) = "wait" /\ k2 = MaxOrderID(m) + 1
    BY <1>1, <2>0, <2>3, <2>5
  <2> QED
    BY <2>5, <2>6
<1> QED
  BY <1>4, <1>5

\* The call goes on: it may write the segments from k to k2 - 1, or a query, and the queries
\* of its slot may be gone.
LEMMA WorkKept ==
  ASSUME NEW m \in Messages, NEW t \in TransIDs, NEW k \in Nat, NEW D \in SUBSET IDs(m),
         WorkOf(m, t, k, D), UNCHANGED <<rl, log, closed>>,
         NEW k2 \in Nat, k <= k2, k2 <= MaxOrderID(m) + 1, PhaseOK(m, k2)',
         pc'[m] = "asking" => k2 = k /\ \E e \in OnSlot(t)' : IsQuery(e),
         \A e \in OnSlot(t)' :
           \/ e \in OnSlot(t) /\ (IsQuery(e) => pc'[m] = "asking")
           \/ e = ReqDatagram(t, m) /\ pc'[m] = "asking"
           \/ \E i \in k .. (k2 - 1) : e = TransDatagram(t, Segment(m, i)),
         \A e \in OnSlot(t) : e \in OnSlot(t)' \/ IsQuery(e),
         \A i \in k .. (k2 - 1) : TransDatagram(t, Segment(m, i)) \in OnSlot(t)'
  PROVE  WorkOf(m, t, k2, D)'
<1>1. \A i \in D : i \in 0 .. k - 1
  BY DEF WorkOf
<1>2. D \subseteq 0 .. k2 - 1
  BY <1>1
<1>3. ASSUME NEW e \in OnSlot(t)', e.type = "trans"
      PROVE  e.seg.msg = m /\ e.seg.oid \in (0 .. k2 - 1) \ D
  <2>1. CASE e \in OnSlot(t)
    <3>1. e.seg.msg = m /\ e.seg.oid \in (0 .. k - 1) \ D
      BY <1>3, <2>1 DEF WorkOf, FlightOK
    <3> QED
      BY <3>1
  <2>2. CASE \E i \in k .. (k2 - 1) : e = TransDatagram(t, Segment(m, i))
    BY <1>1, <2>2 DEF TransDatagram, Segment
  <2> QED
    BY <1>3, <2>1, <2>2 DEF ReqDatagram
<1>4. ASSUME NEW i \in 0 .. k2 - 1 PROVE i \in D \/ TransDatagram(t, Segment(m, i)) \in OnSlot(t)'
  <2>1. CASE i \in 0 .. k - 1
    <3>1. i \in D \/ TransDatagram(t, Segment(m, i)) \in OnSlot(t)
      BY <2>1 DEF WorkOf, FlightOK
    <3>2. ~IsQuery(TransDatagram(t, Segment(m, i)))
      BY DEF IsQuery, TransDatagram
    <3> QED
      BY <3>1, <3>2
  <2>2. CASE i \in k .. (k2 - 1)
    BY <2>2
  <2> QED
    BY <2>1, <2>2
<1>5. FlightOK(m, t, k2, D)'
  BY <1>3, <1>4 DEF FlightOK
<1>6. RecordOK(m, t, D)'
  BY DEF WorkOf, RecordOK, Reusable
<1>7. QueryOK(m, t)'
  <2>1. ASSUME NEW e \in OnSlot(t)', IsQuery(e) PROVE e.id = m /\ pc'[m] = "asking"
    <3>1. CASE e \in OnSlot(t)
      BY <2>1, <3>1 DEF WorkOf, QueryOK, IsQuery, ReqDatagram, TransDatagram
    <3>2. CASE e = ReqDatagram(t, m) /\ pc'[m] = "asking"
      BY <3>2 DEF ReqDatagram
    <3> QED
      BY <2>1, <3>1, <3>2 DEF IsQuery, TransDatagram
  <2> QED
    BY <2>1 DEF QueryOK
<1>8. ReplyOK(m, t, k2, D)'
  <2> SUFFICES ASSUME NEW e \in OnSlot(t)', e.type = "rep"
               PROVE  D = 0 .. k2 - 1 /\ e = Answer(t, m)'
    BY DEF ReplyOK
  <2>1. e \in OnSlot(t) /\ pc'[m] = "asking"
    BY DEF ReqDatagram, TransDatagram, IsQuery
  <2>2. D = 0 .. k - 1 /\ e = Answer(t, m) /\ k2 = k
    BY <2>1 DEF WorkOf, ReplyOK
  <2>3. Answer(t, m)' = Answer(t, m)
    BY DEF Answer, AnswerStatus
  <2> QED
    BY <2>2, <2>3
<1>9. NoticeOK(m, t, D)'
  <2>1. ASSUME NEW e \in OnSlot(t)', e.type = "received" PROVE D = IDs(m) /\ m \notin closed
    <3>1. e \in OnSlot(t)
      BY <2>1 DEF ReqDatagram, TransDatagram
    <3> QED
      BY <2>1, <3>1 DEF WorkOf, NoticeOK
  <2> QED
    BY <2>1 DEF WorkOf, NoticeOK
<1>10. HasArrived(m)' <=> D = IDs(m)
  BY DEF WorkOf, HasArrived
<1> QED
  BY <1>2, <1>5, <1>6, <1>7, <1>8, <1>9, <1>10 DEF WorkOf

LEMMA SlotHeld ==
  ASSUME NEW t \in TransIDs, NEW m \in Messages, sl'[t] = m, Working(m, t)'
  PROVE  SlotOK(t)'
  BY NoMsgAssumption DEF SlotOK

LEMMA SlotFreed ==
  ASSUME NEW t \in TransIDs, sl'[t] = NoMsg, Quiet(t)'
  PROVE  SlotOK(t)'
  BY NoMsgAssumption DEF SlotOK

LEMMA WorkOfCall ==
  ASSUME Known, Reliable, NEW m \in Messages, Active(m)
  PROVE  slotOf[m] \in TransIDs /\ sl[slotOf[m]] = m /\ Working(m, slotOf[m])
<1>1. slotOf[m] \in TransIDs
  BY DEF Known, TypeOK, SenderTypeOK, Active
<1>2. sl[slotOf[m]] = m
  BY <1>1 DEF Known, SlotExclusive
<1> QED
  BY <1>1, <1>2 DEF Reliable, SlotOK

\* A call that goes on without touching a datagram or a record.
LEMMA GoesOn ==
  ASSUME Known, Reliable, NEW m \in Messages, pc[m] \notin {"idle", "asking", "done"},
         pc'[m] \notin {"idle", "asking"}, OnlyPC(m), UNCHANGED <<net, sl, rl, log, closed, shut>>,
         \A k \in Nat : PhaseOK(m, k) => PhaseOK(m, k)'
  PROVE  Reliable'
<1>1. PICK t \in TransIDs : slotOf[m] = t /\ sl[t] = m /\ Working(m, t)
  BY WorkOfCall DEF Active
<1>2. PICK k \in Nat, D \in SUBSET IDs(m) : WorkOf(m, t, k, D)
  BY <1>1 DEF Working
<1>3. OnSlot(t)' = OnSlot(t) /\ PhaseOK(m, k)' /\ k <= MaxOrderID(m) + 1 /\ k .. (k - 1) = {}
  BY <1>2 DEF OnSlot, WorkOf
<1>4. \A e \in OnSlot(t)' : e \in OnSlot(t) /\ (IsQuery(e) => pc'[m] = "asking")
  BY <1>2, <1>3 DEF WorkOf, QueryOK
<1>5. WorkOf(m, t, k, D)'
  BY <1>2, <1>3, <1>4, WorkKept
<1>6. SlotOK(t)'
  BY <1>1, <1>5, SlotHeld DEF Working
<1> QED
  BY <1>1, <1>6, CallStep DEF OnlySlot, OnSlot

LEMMA ClaimReliable ==
  ASSUME Known, Reliable, NEW m \in Messages, Claim(m)
  PROVE  Reliable'
<1>1. PICK t \in TransIDs : sl[t] = NoMsg /\ sl' = [sl EXCEPT ![t] = m] /\ slotOf' = [slotOf EXCEPT ![m] = t]
  BY DEF Claim, FreeSlots
<1>2. /\ pc[m] = "idle" /\ pc' = [pc EXCEPT ![m] = "register"]
      /\ UNCHANGED <<net, rl, log, closed, shut>>
  BY DEF Claim, netVars, recvVars
<1>3. /\ sl'[t] = m /\ pc'[m] = "register" /\ OnlyPC(m)
      /\ \A u \in TransIDs \ {t} : sl'[u] = sl[u]
  BY <1>1, <1>2 DEF Known, TypeOK, SenderTypeOK, OnlyPC
<1>4. OnSlot(t)' = {} /\ Reusable(t)'
  BY <1>1, <1>2 DEF Reliable, SlotOK, Quiet, OnSlot, Reusable
<1>5. m \notin closed' /\ ~HasArrived(m)'
  BY <1>2 DEF Known, Tracking, Unstarted, Reliable, HasArrived
<1>6. {} # IDs(m) /\ 0 <= MaxOrderID(m) + 1 /\ {} \in SUBSET IDs(m) /\ 0 .. (0 - 1) = {}
  BY Cutting DEF IDs
<1>7. WorkOf(m, t, 0, {})'
  BY <1>3, <1>4, <1>5, <1>6
  DEF WorkOf, FlightOK, RecordOK, PhaseOK, QueryOK, ReplyOK, NoticeOK
<1>8. SlotOK(t)'
  BY <1>3, <1>6, <1>7, SlotHeld DEF Working
<1>9. OnlySlot(t)
  BY <1>2, <1>3 DEF OnlySlot, OnSlot
<1> QED
  BY <1>2, <1>3, <1>8, <1>9, CallStep

LEMMA RegisterReliable ==
  ASSUME Known, Reliable, NEW m \in Messages, Register(m)
  PROVE  Reliable'
<1>1. pc[m] = "register" /\ pc'[m] = "full" /\ OnlyPC(m) /\ UNCHANGED <<net, sl, rl, log, closed, shut>>
  BY DEF Register, netVars, recvVars, Known, TypeOK, SenderTypeOK, OnlyPC
<1> QED
  BY <1>1, GoesOn DEF PhaseOK

\* A call writes one burst: the segments that follow the first k.
LEMMA BurstReliable ==
  ASSUME Known, Reliable, NEW m \in Messages, NEW t \in TransIDs, slotOf[m] = t, sl[t] = m, sl' = sl,
         NEW k \in Nat, NEW D \in SUBSET IDs(m), WorkOf(m, t, k, D), pc[m] # "idle",
         UNCHANGED <<rl, log, closed, shut>>, OnlyPC(m), pc'[m] = AfterBurst(k .. MaxOrderID(m)),
         NEW Q, \A e \in Q : IsQuery(e) /\ e.trans = t,
         \A e \in net \ Q : e.trans = t => ~IsQuery(e),
         net' = (net \ Q) \cup Segs(m, FirstN(k .. MaxOrderID(m), SWS))
  PROVE  Reliable'
<1>1. k <= MaxOrderID(m) + 1
  BY DEF WorkOf
<1>2. PICK k2 \in Nat :
           /\ k <= k2 /\ k2 <= MaxOrderID(m) + 1
           /\ FirstN(k .. MaxOrderID(m), SWS) = k .. (k2 - 1)
           /\ \/ AfterBurst(k .. MaxOrderID(m)) = "query" /\ k2 > 0
              \/ AfterBurst(k .. MaxOrderID(m)) = "wait" /\ k2 = MaxOrderID(m) + 1
  BY <1>1, Burst
<1>3. PhaseOK(m, k2)' /\ pc'[m] \notin {"idle", "asking"}
  BY <1>2 DEF PhaseOK
<1>4. Segs(m, k .. (k2 - 1)) = {TransDatagram(t, Segment(m, i)) : i \in k .. (k2 - 1)}
  BY DEF Segs
<1>5. \A e \in Segs(m, k .. (k2 - 1)) : e.trans = t
  BY <1>4 DEF TransDatagram
<1>6. OnSlot(t)' = {e \in net \ Q : e.trans = t} \cup Segs(m, k .. (k2 - 1))
  BY <1>2, <1>5 DEF OnSlot
<1>7. \A e \in OnSlot(t)' :
           \/ e \in OnSlot(t) /\ (IsQuery(e) => pc'[m] = "asking")
           \/ \E i \in k .. (k2 - 1) : e = TransDatagram(t, Segment(m, i))
  BY <1>4, <1>6 DEF OnSlot
<1>8. \A e \in OnSlot(t) : e \in OnSlot(t)' \/ IsQuery(e)
  BY <1>6 DEF OnSlot
<1>9. \A i \in k .. (k2 - 1) : TransDatagram(t, Segment(m, i)) \in OnSlot(t)'
  BY <1>4, <1>6
<1>10. WorkOf(m, t, k2, D)'
  BY <1>2, <1>3, <1>7, <1>8, <1>9, WorkKept
<1>11. SlotOK(t)'
  BY <1>10, SlotHeld DEF Working
<1>12. OnlySlot(t)
  BY <1>2, <1>5 DEF OnlySlot, OnSlot
<1> QED
  BY <1>3, <1>11, <1>12, CallStep

LEMMA SendFullReliable ==
  ASSUME Known, Reliable, NEW m \in Messages, SendFull(m)
  PROVE  Reliable'
<1>1. /\ pc[m] = "full" /\ pc'[m] = AfterBurst(0 .. MaxOrderID(m)) /\ OnlyPC(m)
      /\ UNCHANGED <<sl, rl, log, closed, shut>>
      /\ net' = net \cup Segs(m, FirstN(0 .. MaxOrderID(m), SWS))
  BY DEF SendFull, recvVars, Known, TypeOK, SenderTypeOK, OnlyPC
<1>2. PICK t \in TransIDs : slotOf[m] = t /\ sl[t] = m /\ Working(m, t)
  BY <1>1, WorkOfCall DEF Active
<1>3. PICK k \in Nat, D \in SUBSET IDs(m) : WorkOf(m, t, k, D)
  BY <1>2 DEF Working
<1>4. k = 0
  BY <1>1, <1>3 DEF WorkOf, PhaseOK
<1>5. PICK Q : Q = {}
  OBVIOUS
<1>6. /\ pc[m] # "idle" /\ \A e \in Q : IsQuery(e) /\ e.trans = t
      /\ \A e \in net \ Q : e.trans = t => ~IsQuery(e)
  BY <1>1, <1>3, <1>5 DEF WorkOf, QueryOK, OnSlot
<1>7. net' = (net \ Q) \cup Segs(m, FirstN(k .. MaxOrderID(m), SWS)) /\ pc'[m] = AfterBurst(k .. MaxOrderID(m))
  BY <1>1, <1>4, <1>5
<1> QED
  BY <1>1, <1>2, <1>3, <1>6, <1>7, BurstReliable

\* Asking, and asking again.
LEMMA AskReliable ==
  ASSUME Known, Reliable, NEW m \in Messages, Query(m) \/ QueryRetry(m)
  PROVE  Reliable'
<1>1. /\ pc[m] \in {"query", "asking"} /\ pc'[m] = "asking" /\ OnlyPC(m)
      /\ UNCHANGED <<sl, rl, log, closed, shut>>
      /\ net' = net \cup {ReqDatagram(slotOf[m], m)}
  BY DEF Query, QueryRetry, recvVars, Known, TypeOK, SenderTypeOK, OnlyPC
<1>2. PICK t \in TransIDs : slotOf[m] = t /\ sl[t] = m /\ Working(m, t)
  BY <1>1, WorkOfCall DEF Active
<1>3. PICK k \in Nat, D \in SUBSET IDs(m) : WorkOf(m, t, k, D)
  BY <1>2 DEF Working
<1>4. PhaseOK(m, k)' /\ k <= MaxOrderID(m) + 1 /\ k .. (k - 1) = {} /\ k <= k
  BY <1>1, <1>3 DEF WorkOf, PhaseOK
<1>5. OnSlot(t)' = OnSlot(t) \cup {ReqDatagram(t, m)}
  BY <1>1, <1>2 DEF OnSlot, ReqDatagram
<1>6. IsQuery(ReqDatagram(t, m))
  BY DEF IsQuery, ReqDatagram
<1>7. WorkOf(m, t, k, D)'
  <2>1. \A e \in OnSlot(t)' :
           \/ e \in OnSlot(t) /\ (IsQuery(e) => pc'[m] = "asking")
           \/ e = ReqDatagram(t, m) /\ pc'[m] = "asking"
           \/ \E i \in k .. (k - 1) : e = TransDatagram(t, Segment(m, i))
    BY <1>1, <1>5
  <2>2. /\ \A e \in OnSlot(t) : e \in OnSlot(t)' \/ IsQuery(e)
        /\ \A i \in k .. (k - 1) : TransDatagram(t, Segment(m, i)) \in OnSlot(t)'
        /\ \E e \in OnSlot(t)' : IsQuery(e)
    BY <1>4, <1>5, <1>6
  <2> QED
    BY <1>1, <1>3, <1>4, <2>1, <2>2, WorkKept
<1>8. SlotOK(t)'
  BY <1>1, <1>2, <1>7, SlotHeld DEF Working
<1>9. OnlySlot(t)
  BY <1>1, <1>2 DEF OnlySlot, OnSlot, ReqDatagram
<1> QED
  BY <1>1, <1>2, <1>8, <1>9, CallStep

\* A call that returns leaves its slot quiet.
LEMMA ReturnReliable ==
  ASSUME Known, Reliable, NEW m \in Messages, Active(m), NEW res, Return(m, res),
         UNCHANGED <<rl, log, closed, shut>>, NEW t \in TransIDs, slotOf[m] = t, Reusable(t),
         OnSlot(t)' = {}, \A u \in TransIDs \ {t} : OnSlot(u)' = OnSlot(u)
  PROVE  Reliable'
<1>1. sl[t] = m
  BY WorkOfCall
<1>2. /\ pc'[m] = "done" /\ OnlyPC(m) /\ sl'[t] = NoMsg
      /\ \A u \in TransIDs \ {t} : sl'[u] = sl[u]
  BY <1>1 DEF Return, Known, TypeOK, SenderTypeOK, OnlyPC
<1>3. Quiet(t)'
  BY <1>1 DEF Quiet, Reusable
<1>4. SlotOK(t)'
  BY <1>2, <1>3, SlotFreed
<1>5. OnlySlot(t)
  BY <1>1, <1>2 DEF OnlySlot
<1> QED
  BY <1>1, <1>2, <1>4, <1>5, CallStep

LEMMA WholeRecord ==
  ASSUME NEW m \in Messages, NEW t \in TransIDs, RecordOK(m, t, IDs(m))
  PROVE  Reusable(t) /\ rl[t] # <<>> /\ rl[t][1].completed
<1>1. 0 \in IDs(m)
  BY Cutting DEF IDs
<1> QED
  BY <1>1 DEF RecordOK, PartOf, Reusable

LEMMA TypesOf ==
  ASSUME TypeOK, NEW d \in net
  PROVE  d.type = "trans" \/ d.type = "received" \/ IsQuery(d)
  BY DEF TypeOK, NetTypeOK, Datagrams, IsQuery

LEMMA WaitReceivedReliable ==
  ASSUME Known, Reliable, NEW m \in Messages, WaitReceived(m)
  PROVE  Reliable' /\ HasArrived(m)
<1>1. pc[m] = "wait" /\ m \in closed /\ Return(m, "ok") /\ UNCHANGED <<net, rl, log, closed, shut>>
  BY DEF WaitReceived, netVars, recvVars
<1>2. PICK t \in TransIDs : slotOf[m] = t /\ sl[t] = m /\ Working(m, t)
  BY <1>1, WorkOfCall DEF Active
<1>3. PICK k \in Nat, D \in SUBSET IDs(m) : WorkOf(m, t, k, D)
  BY <1>2 DEF Working
<1>4. D = IDs(m) /\ HasArrived(m)
  BY <1>1, <1>3 DEF WorkOf, NoticeOK
<1>5. \A d \in OnSlot(t) : d.type # "trans"
  <2> SUFFICES ASSUME NEW d \in OnSlot(t), d.type = "trans" PROVE FALSE
    OBVIOUS
  <2>1. d.seg.oid \in (0 .. k - 1) \ IDs(m) /\ k <= MaxOrderID(m) + 1
    BY <1>3, <1>4 DEF WorkOf, FlightOK
  <2>2. MaxOrderID(m) \in Nat
    BY Cutting
  <2> QED
    BY <2>1, <2>2 DEF IDs
<1>6. \A d \in OnSlot(t) : d.type # "received" /\ ~IsQuery(d)
  BY <1>1, <1>3 DEF WorkOf, NoticeOK, QueryOK
<1>7. OnSlot(t) = {}
  <2>1. \A d \in OnSlot(t) : d.type = "trans" \/ d.type = "received" \/ IsQuery(d)
    BY TypesOf DEF OnSlot, Known
  <2> QED
    BY <1>5, <1>6, <2>1
<1>8. Reusable(t)
  BY <1>3, <1>4, WholeRecord DEF WorkOf
<1>9. Active(m) /\ OnSlot(t)' = {} /\ \A u \in TransIDs \ {t} : OnSlot(u)' = OnSlot(u)
  BY <1>1, <1>7 DEF Active, OnSlot
<1>10. Reliable'
  BY <1>1, <1>2, <1>8, <1>9, ReturnReliable
<1> QED
  BY <1>4, <1>10

LEMMA WaitTimeoutReliable ==
  ASSUME Faultless, Known, Reliable, NEW m \in Messages, WaitTimeout(m)
  PROVE  Reliable'
<1>1. pc[m] = "wait" /\ UNCHANGED <<net, rl, log, closed, shut>>
  BY DEF WaitTimeout, netVars, recvVars
<1>2. CASE pc' = [pc EXCEPT ![m] = "query"] /\ UNCHANGED <<result, sl, slWait>>
  <2>1. pc'[m] = "query" /\ OnlyPC(m)
    BY <1>2 DEF Known, TypeOK, SenderTypeOK, OnlyPC
  <2>2. MaxOrderID(m) + 1 > 0
    BY Cutting
  <2>3. \A k \in Nat : PhaseOK(m, k) => PhaseOK(m, k)'
    BY <1>1, <2>1, <2>2 DEF PhaseOK
  <2> QED
    BY <1>1, <1>2, <2>1, <2>3, GoesOn
<1>3. CASE MayFire(m, "impatient") /\ Return(m, "timeout")
  <2>1. PICK t \in TransIDs : slotOf[m] = t /\ sl[t] = m /\ Working(m, t)
    BY <1>1, WorkOfCall DEF Active
  <2>2. PICK k \in Nat, D \in SUBSET IDs(m) : WorkOf(m, t, k, D)
    BY <2>1 DEF Working
  <2>3. OnSlot(t) = {}
    BY <1>3, <2>1, Untouched
  <2>4. D = 0 .. k - 1
    <3>1. D \subseteq 0 .. k - 1
      BY <2>2 DEF WorkOf
    <3>2. \A i \in 0 .. k - 1 : i \in D
      BY <2>2, <2>3 DEF WorkOf, FlightOK
    <3> QED
      BY <3>1, <3>2
  <2>5. k = MaxOrderID(m) + 1
    BY <1>1, <2>2 DEF WorkOf, PhaseOK
  <2>6. D = IDs(m)
    BY <2>4, <2>5, Cutting DEF IDs
  <2>7. Reusable(t)
    BY <2>2, <2>6, WholeRecord DEF WorkOf
  <2>8. Active(m) /\ OnSlot(t)' = {} /\ \A u \in TransIDs \ {t} : OnSlot(u)' = OnSlot(u)
    BY <1>1, <2>3 DEF Active, OnSlot
  <2> QED
    BY <1>1, <1>3, <2>1, <2>7, <2>8, ReturnReliable
<1> QED
  BY <1>2, <1>3 DEF WaitTimeout

\* While nothing is lost a query is on its way as long as it is waited for.
LEMMA NoWaitInVain ==
  ASSUME Faultless, Known, Reliable, NEW m \in Messages
  PROVE  ~QueryGiveUp(m) /\ ~QueryExpired(m) /\ ~QueryShutdown(m) /\ ~WaitShutdown(m)
<1>1. ~shut
  BY DEF Reliable
<1>2. Active(m) => pc[m] # "expire"
  BY WorkOfCall DEF Working, WorkOf, PhaseOK
<1>3. pc[m] = "asking" => OnSlot(slotOf[m]) # {}
  BY WorkOfCall DEF Working, WorkOf, QueryOK, Active
<1>4. ~QueryGiveUp(m)
  <2>1. "write" \notin Faults
    BY DEF Faultless
  <2> QED
    BY <1>3, <2>1, Untouched DEF QueryGiveUp
<1> QED
  BY <1>1, <1>2, <1>4 DEF QueryExpired, QueryShutdown, WaitShutdown, Active

-------------------------------------------------------------------------------
\* The datagrams without faults.

\* When the first k segments have arrived and no other, an answer asks for those that follow.
LEMMA AsksForRest ==
  ASSUME TypeOK, Reassembly, NEW m \in Messages, NEW t \in TransIDs,
         NEW k \in Nat, k > 0, k <= MaxOrderID(m) + 1, RecordOK(m, t, 0 .. k - 1)
  PROVE  /\ AnswerStatus(t) # "notExist"
         /\ AnswerStatus(t) = "completed" => k = MaxOrderID(m) + 1
         /\ AnswerStatus(t) = "notCompleted" => Unsent(m, Answer(t, m)) = k .. MaxOrderID(m)
<1>1. PICK x \in Nat : x = MaxOrderID(m)
  BY Cutting
<1>2. 0 .. x \subseteq OrderIDs
  BY <1>1, MessageOrderIDs
<1>3. PICK r \in Recvings : r = rl[t][1]
  <2>1. rl[t] # <<>>
    BY DEF RecordOK
  <2> QED
    BY <2>1 DEF TypeOK, ReceiverTypeOK
<1>4. rl[t] # <<>> /\ PartOf(r, m) /\ DOMAIN r.body = 0 .. k - 1 /\ RecvingOK(r)
  <2>1. 0 \in 0 .. k - 1
    OBVIOUS
  <2> QED
    BY <1>3, <2>1 DEF RecordOK, Reassembly
<1>5. AnswerStatus(t) = IF r.completed THEN "completed" ELSE "notCompleted"
  BY <1>3, <1>4 DEF AnswerStatus
<1>6. r.completed => k = x + 1
  <2>1. r.completed => 0 .. k - 1 = 0 .. x
    BY <1>1, <1>4 DEF PartOf, IDs
  <2>2. 0 .. k - 1 = 0 .. x => k = x + 1
    <3>1. x \in 0 .. x /\ (k - 1 \in 0 .. k - 1)
      BY <1>1
    <3> QED
      BY <1>1, <3>1
  <2> QED
    BY <2>1, <2>2
<1>7. ASSUME ~r.completed PROVE Unsent(m, Answer(t, m)) = k .. x
  <2>1. r.largest = k - 1
    <3>1. r.largest \in 0 .. k - 1 /\ \A i \in 0 .. k - 1 : i <= r.largest
      BY <1>4 DEF RecvingOK
    <3>2. k - 1 \in 0 .. k - 1
      OBVIOUS
    <3> QED
      BY <3>1, <3>2
  <2>2. GetMissing(r) = {}
    <3> SUFFICES ASSUME NEW i \in GetMissing(r) PROVE FALSE
      OBVIOUS
    <3>1. i \in OrderIDs /\ i < r.largest /\ i \notin 0 .. k - 1
      BY <1>4, <1>7 DEF GetMissing
    <3> QED
      BY <2>1, <3>1, CountAssumption DEF OrderIDs
  <2>3. FirstN({}, SWS) = {}
    BY FirstNSubset
  <2>4. Answer(t, m) = RepDatagram(t, m, "notCompleted", k - 1, {})
    BY <1>3, <1>5, <1>7, <2>1, <2>2, <2>3 DEF Answer
  <2>5. Answer(t, m).largest = k - 1 /\ Answer(t, m).missing = {}
    BY <2>4 DEF RepDatagram
  <2>6. Unsent(m, Answer(t, m)) = {i \in OrderIDs : k - 1 < i /\ i <= x}
    BY <1>1, <2>5 DEF Unsent
  <2>7. {i \in OrderIDs : k - 1 < i /\ i <= x} = k .. x
    BY <1>2, CountAssumption DEF OrderIDs
  <2> QED
    BY <2>6, <2>7
<1> QED
  BY <1>1, <1>5, <1>6, <1>7

\* A query that is answered, or asked, finds all that has been written at the receiver.
LEMMA AllArrived ==
  ASSUME NEW m \in Messages, NEW t \in TransIDs, NEW k \in Nat, NEW D \in SUBSET IDs(m),
         WorkOf(m, t, k, D)
  PROVE  (\A e \in OnSlot(t) : e.type # "trans") <=> D = 0 .. k - 1
<1>1. D \subseteq 0 .. k - 1
  BY DEF WorkOf
<1>2. ASSUME \A e \in OnSlot(t) : e.type # "trans" PROVE D = 0 .. k - 1
  <2>1. \A i \in 0 .. k - 1 : TransDatagram(t, Segment(m, i)).type = "trans"
    BY DEF TransDatagram
  <2>2. \A i \in 0 .. k - 1 : i \in D
    BY <1>2, <2>1 DEF WorkOf, FlightOK
  <2> QED
    BY <1>1, <2>2
<1>3. ASSUME D = 0 .. k - 1 PROVE \A e \in OnSlot(t) : e.type # "trans"
  BY <1>3 DEF WorkOf, FlightOK
<1> QED
  BY <1>2, <1>3

LEMMA ReplyReliable ==
  ASSUME Faultless, Known, Reliable, NEW d \in net, HandleRep(d)
  PROVE  /\ Reliable' /\ d.id \in Messages /\ Active(d.id)
         /\ \/ Return(d.id, "ok") /\ HasArrived(d.id)
            \/ pc'[d.id] \notin {"idle", "done"} /\ OnlyPC(d.id) /\ result' = result
         /\ log' = log
<1>1. d.type = "rep" /\ Deliverable(d) /\ IsQuery(d)
  BY DEF HandleRep, IsQuery
<1>2. PICK t \in TransIDs : d.trans = t
  BY OwnerOf
<1>3. PICK m \in Messages : sl[t] = m /\ slotOf[m] = t /\ Active(m) /\ Working(m, t)
  BY <1>2, OwnerOf
<1>4. PICK k \in Nat, D \in SUBSET IDs(m) : WorkOf(m, t, k, D)
  BY <1>3 DEF Working
<1>5. d \in OnSlot(t)
  BY <1>2 DEF OnSlot
<1>6. d.id = m /\ pc[m] = "asking"
  BY <1>1, <1>4, <1>5 DEF WorkOf, QueryOK
<1>7. D = 0 .. k - 1 /\ d = Answer(t, m)
  BY <1>1, <1>4, <1>5 DEF WorkOf, ReplyOK
<1>8. k > 0 /\ k <= MaxOrderID(m) + 1 /\ RecordOK(m, t, D) /\ (HasArrived(m) <=> D = IDs(m))
  BY <1>4, <1>6 DEF WorkOf, PhaseOK
<1>9. /\ AnswerStatus(t) # "notExist"
      /\ AnswerStatus(t) = "completed" => k = MaxOrderID(m) + 1
      /\ AnswerStatus(t) = "notCompleted" => Unsent(m, d) = k .. MaxOrderID(m)
  BY <1>7, <1>8, AsksForRest DEF Known
<1>10. d.status = AnswerStatus(t)
  BY <1>7 DEF Answer, RepDatagram
<1> DEFINE Q == {d} \cup Forgotten(m, net \ {d})
<1>11. Resume(m, d, net \ Q) /\ UNCHANGED <<rl, log, closed, shut>>
  <2>1. \E rest \in {net \ {d}, net} : TakenFrom(d, rest) /\ Resume(m, d, rest \ Forgotten(m, rest))
    BY <1>6 DEF HandleRep
  <2>2. Resume(m, d, (net \ {d}) \ Forgotten(m, net \ {d}))
    BY <2>1, Untouched
  <2>3. (net \ {d}) \ Forgotten(m, net \ {d}) = net \ Q
    OBVIOUS
  <2> QED
    BY <2>2, <2>3 DEF HandleRep, recvVars
<1>12. \A e \in Q : IsQuery(e) /\ e.trans = t
  BY <1>1, <1>2, <1>3 DEF Forgotten, IsQuery, Known, Tracking, QueriesNamed
<1>13. \A e \in net \ Q : e.trans = t => ~IsQuery(e)
  <2> SUFFICES ASSUME NEW e \in net, e.trans = t, IsQuery(e) PROVE e \in Q
    OBVIOUS
  <2>1. e.id = m
    BY <1>4 DEF WorkOf, QueryOK, OnSlot
  <2> QED
    BY <2>1 DEF Forgotten, IsQuery
<1> HIDE DEF Q
<1>14. CASE d.status = "completed"
  <2>1. net' = net \ Q /\ Return(m, "ok")
    BY <1>11, <1>14 DEF Resume
  <2>2. D = IDs(m)
    BY <1>7, <1>9, <1>10, <1>14, Cutting DEF IDs
  <2>3. Reusable(t) /\ HasArrived(m)
    BY <1>8, <2>2, WholeRecord
  <2>4. OnSlot(t)' = {}
    <3> SUFFICES ASSUME NEW e \in net \ Q, e.trans = t PROVE FALSE
      BY <2>1 DEF OnSlot
    <3>1. e.type # "trans"
      BY <1>4, <1>7, AllArrived DEF OnSlot
    <3>2. e.type # "received"
      BY <1>1, <1>2, Untouched DEF Ahead
    <3>3. ~IsQuery(e)
      BY <1>13
    <3> QED
      BY <3>1, <3>2, <3>3, TypesOf DEF Known
  <2>5. \A u \in TransIDs \ {t} : OnSlot(u)' = OnSlot(u)
    BY <1>12, <2>1 DEF OnSlot
  <2>6. Reliable'
    BY <1>3, <1>11, <2>1, <2>3, <2>4, <2>5, ReturnReliable
  <2> QED
    BY <1>3, <1>6, <1>11, <2>1, <2>3, <2>6
<1>15. CASE d.status = "notCompleted"
  <2>1. Unsent(m, d) = k .. MaxOrderID(m)
    BY <1>9, <1>10, <1>15
  <2>2. PICK B : B = FirstN(k .. MaxOrderID(m), SWS)
    OBVIOUS
  <2>3. {i \in B : i <= MaxOrderID(m)} = B
    BY <2>2, FirstNSubset, Cutting
  <2>4. /\ net' = (net \ Q) \cup Segs(m, B)
        /\ pc' = [pc EXCEPT ![m] = AfterBurst(k .. MaxOrderID(m))] /\ UNCHANGED <<result, sl>>
    BY <1>11, <1>15, <2>1, <2>2, <2>3 DEF Resume
  <2>5. pc'[m] = AfterBurst(k .. MaxOrderID(m)) /\ OnlyPC(m) /\ pc[m] # "idle"
    BY <1>6, <2>4 DEF Known, TypeOK, SenderTypeOK, OnlyPC
  <2>6. Reliable'
    BY <1>3, <1>4, <1>11, <1>12, <1>13, <2>2, <2>4, <2>5, BurstReliable
  <2>7. pc'[m] \notin {"idle", "done"}
    BY <2>5 DEF AfterBurst
  <2> QED
    BY <1>3, <1>6, <1>11, <2>4, <2>5, <2>6, <2>7
<1>16. d.status \in {"completed", "notCompleted"}
  BY <1>9, <1>10 DEF AnswerStatus
<1> QED
  BY <1>14, <1>15, <1>16

LEMMA RequestReliable ==
  ASSUME Faultless, Known, Reliable, NEW d \in net, HandleReq(d)
  PROVE  Reliable'
<1>1. d.type = "req" /\ Deliverable(d) /\ UNCHANGED <<pc, slotOf, sl, rl, log, closed, shut>>
  BY DEF HandleReq, senderVars, recvVars
<1>2. PICK t \in TransIDs : d.trans = t
  BY OwnerOf
<1>3. PICK m \in Messages : sl[t] = m /\ slotOf[m] = t /\ Active(m) /\ Working(m, t)
  BY <1>2, OwnerOf
<1>4. PICK k \in Nat, D \in SUBSET IDs(m) : WorkOf(m, t, k, D)
  BY <1>3 DEF Working
<1>5. d.id = m /\ pc[m] = "asking"
  BY <1>1, <1>2, <1>4 DEF WorkOf, QueryOK, IsQuery, OnSlot
<1>6. PICK a : a = Answer(t, m) /\ a.type = "rep" /\ a.trans = t /\ a.id = m
  <2>1. Answer(t, m).type = "rep" /\ Answer(t, m).trans = t /\ Answer(t, m).id = m
    BY DEF Answer, RepDatagram
  <2> QED
    BY <2>1
<1>7. net' = (net \ {d}) \cup {a}
  BY <1>2, <1>5, <1>6, Untouched DEF HandleReq
<1>8. D = 0 .. k - 1
  <2>1. \A e \in OnSlot(t) : e.type # "trans"
    BY <1>1, <1>2, Untouched DEF Ahead, OnSlot
  <2> QED
    BY <1>4, <2>1, AllArrived
<1>9. OnSlot(t)' = (OnSlot(t) \ {d}) \cup {a}
  BY <1>6, <1>7 DEF OnSlot
<1>10. OnlySlot(t) /\ OnlyPC(m)
  BY <1>1, <1>2, <1>6, <1>7 DEF OnlySlot, OnSlot, OnlyPC
<1>11. Answer(t, m)' = Answer(t, m)
  BY <1>1 DEF Answer, AnswerStatus
<1>12. FlightOK(m, t, k, D)'
  <2>1. \A e \in OnSlot(t)' : e.type # "trans"
    BY <1>4, <1>6, <1>8, <1>9, AllArrived
  <2> QED
    BY <1>8, <2>1 DEF FlightOK
<1>13. RecordOK(m, t, D)' /\ PhaseOK(m, k)'
  BY <1>1, <1>4 DEF WorkOf, RecordOK, PhaseOK, Reusable
<1>14. QueryOK(m, t)'
  BY <1>1, <1>4, <1>5, <1>6, <1>9 DEF WorkOf, QueryOK, IsQuery
<1>15. ReplyOK(m, t, k, D)'
  BY <1>4, <1>6, <1>8, <1>9, <1>11 DEF WorkOf, ReplyOK
<1>16. NoticeOK(m, t, D)'
  BY <1>1, <1>4, <1>6, <1>9 DEF WorkOf, NoticeOK
<1>17. WorkOf(m, t, k, D)'
  BY <1>1, <1>4, <1>12, <1>13, <1>14, <1>15, <1>16 DEF WorkOf, HasArrived
<1>18. SlotOK(t)'
  BY <1>1, <1>3, <1>17, SlotHeld DEF Working
<1> QED
  BY <1>1, <1>3, <1>5, <1>10, <1>18, CallStep

LEMMA NoticeReliable ==
  ASSUME Faultless, Known, Reliable, NEW d \in net, HandleReceived(d)
  PROVE  Reliable'
<1>1. /\ d.type = "received" /\ UNCHANGED <<pc, slotOf, sl, rl, log, shut>>
      /\ closed' = closed \cup Told(d.trans)
  BY DEF HandleReceived, recvVars
<1>2. PICK t \in TransIDs : d.trans = t
  BY OwnerOf
<1>3. PICK m \in Messages : sl[t] = m /\ slotOf[m] = t /\ Active(m) /\ Working(m, t)
  BY <1>2, OwnerOf
<1>4. PICK k \in Nat, D \in SUBSET IDs(m) : WorkOf(m, t, k, D)
  BY <1>3 DEF Working
<1>5. net' = net \ {d}
  BY Untouched DEF HandleReceived
<1>6. D = IDs(m)
  BY <1>1, <1>2, <1>4 DEF WorkOf, NoticeOK, OnSlot
<1>7. \A n \in Messages : HasArrived(n)' <=> HasArrived(n)
  BY <1>1 DEF HasArrived
<1>8. ASSUME NEW u \in TransIDs \ {t} PROVE SlotOK(u)'
  <2>1. SlotOK(u) /\ sl'[u] = sl[u] /\ OnSlot(u)' = OnSlot(u) /\ rl'[u] = rl[u]
    BY <1>1, <1>2, <1>5 DEF Reliable, OnSlot
  <2>2. \A n \in Messages : sl[u] = n => n \notin Told(t)
    BY DEF Known, SlotExclusive, Tracking, Registered, Told
  <2>3. \A n \in Messages : sl[u] = n => /\ pc'[n] = pc[n] /\ (n \in closed' <=> n \in closed)
                                         /\ (HasArrived(n)' <=> HasArrived(n))
    BY <1>1, <1>2, <1>7, <2>2
  <2> QED
    BY <2>1, <2>3, SlotSame
<1>9. OnSlot(t)' = OnSlot(t) \ {d}
  BY <1>5 DEF OnSlot
<1>10. \A e \in OnSlot(t)' : e.type # "received"
  <2>1. \A e \in net : e.type = "received" /\ e.trans = t => e = ReceivedDatagram(t)
    BY DEF Known, TypeOK, NetTypeOK, Datagrams, ReceivedDatagram
  <2> QED
    BY <1>1, <1>2, <1>9, <2>1 DEF OnSlot
<1>11. FlightOK(m, t, k, D)'
  <2>1. \A i \in 0 .. k - 1 : TransDatagram(t, Segment(m, i)) # d
    BY <1>1 DEF TransDatagram
  <2> QED
    BY <1>4, <1>9, <2>1 DEF WorkOf, FlightOK
<1>12. RecordOK(m, t, D)' /\ PhaseOK(m, k)'
  BY <1>1, <1>4 DEF WorkOf, RecordOK, PhaseOK, Reusable
<1>13. QueryOK(m, t)'
  <2>1. ~IsQuery(d)
    BY <1>1 DEF IsQuery
  <2> QED
    BY <1>1, <1>4, <1>9, <2>1 DEF WorkOf, QueryOK
<1>14. ReplyOK(m, t, k, D)'
  <2>1. Answer(t, m)' = Answer(t, m)
    BY <1>1 DEF Answer, AnswerStatus
  <2> QED
    BY <1>4, <1>9, <2>1 DEF WorkOf, ReplyOK
<1>15. NoticeOK(m, t, D)'
  BY <1>6, <1>10 DEF NoticeOK
<1>16. WorkOf(m, t, k, D)'
  BY <1>4, <1>7, <1>11, <1>12, <1>13, <1>14, <1>15 DEF WorkOf
<1>17. SlotOK(t)'
  BY <1>1, <1>3, <1>16, SlotHeld DEF Working
<1> QED
  BY <1>1, <1>7, <1>8, <1>17 DEF Reliable

\* A segment arrives: it is one of the call that holds the slot, and was not there.
LEMMA NextPart ==
  ASSUME Known, NEW d \in net, d.type = "trans", NEW m \in Messages, NEW t \in TransIDs,
         d.trans = t, NEW k \in Nat, NEW D \in SUBSET IDs(m), WorkOf(m, t, k, D)
  PROVE  /\ d = TransDatagram(t, Segment(m, d.seg.oid))
         /\ d.seg.oid \in 0 .. k - 1 /\ d.seg.oid \in IDs(m) /\ d.seg.oid \notin D
         /\ PartOf(Recving(t), m) /\ DOMAIN Recving(t).body = D
         /\ ~Duplicate(Recving(t), Segment(m, d.seg.oid))
         /\ d.seg = Segment(m, d.seg.oid)
<1>1. d.seg.msg = m /\ d.seg.oid \in (0 .. k - 1) \ D
  BY DEF WorkOf, FlightOK, OnSlot
<1>2. d.seg.oid \in IDs(m) /\ d.seg = Segment(m, d.seg.oid)
  BY <1>1 DEF Known, Intact, DataNamed, Owned
<1>3. d = TransDatagram(t, d.seg)
  BY DEF Known, TypeOK, NetTypeOK, Datagrams, TransDatagram
<1>4. PartOf(Recving(t), m) /\ DOMAIN Recving(t).body = D
  <2>1. CASE D = {}
    <3>1. Recving(t) = NewRecving
      BY <2>1 DEF WorkOf, RecordOK, Reusable, Recving
    <3>2. DOMAIN NewRecving.body = {}
      BY DEF NewRecving
    <3> QED
      BY <2>1, <3>1, <3>2, NewIsPart
  <2>2. CASE D # {}
    <3>1. rl[t] # <<>> /\ PartOf(rl[t][1], m) /\ DOMAIN rl[t][1].body = D
      BY <2>2 DEF WorkOf, RecordOK
    <3>2. ~rl[t][1].completed
      BY <1>1, <1>2, <3>1 DEF PartOf
    <3> QED
      BY <3>1, <3>2 DEF Recving
  <2> QED
    BY <2>1, <2>2
<1>5. ~Duplicate(Recving(t), Segment(m, d.seg.oid))
  <2>1. RecvingOK(Recving(t)) /\ d.seg.oid \in OrderIDs
    BY <1>2, RecvingType, MessageOrderIDs DEF Known, TypeOK, IDs
  <2>2. Segment(m, d.seg.oid).oid = d.seg.oid
    BY DEF Segment
  <2> QED
    BY <1>1, <1>4, <2>1, <2>2 DEF RecvingOK, Duplicate
<1> QED
  BY <1>1, <1>2, <1>3, <1>4, <1>5

\* What is completed is the message of the call, for the first time.
Deliveries(m, t) ==
  /\ ~HasArrived(m) /\ pc[m] # "idle"
  /\ log' = Append(log, [trans |-> t, body |-> Whole(m)])

LEMMA ArrivalStep ==
  ASSUME Known, NEW d \in net, HandleTrans(d), NEW m \in Messages, NEW t \in TransIDs,
         d.trans = t, NEW k \in Nat, NEW D \in SUBSET IDs(m), WorkOf(m, t, k, D), pc[m] # "idle"
  PROVE  \E i \in IDs(m) :
           /\ d = TransDatagram(t, Segment(m, i)) /\ i \in (0 .. k - 1) \ D
           /\ rl'[t] # <<>> /\ PartOf(rl'[t][1], m) /\ DOMAIN rl'[t][1].body = D \cup {i}
           /\ \/ D \cup {i} = IDs(m) /\ Deliveries(m, t)
              \/ D \cup {i} # IDs(m) /\ log' = log
<1>1. d.type = "trans"
  BY DEF HandleTrans
<1>2. PICK i : i = d.seg.oid
  OBVIOUS
<1>3. /\ d = TransDatagram(t, Segment(m, i)) /\ i \in 0 .. k - 1 /\ i \in IDs(m) /\ i \notin D
      /\ PartOf(Recving(t), m) /\ DOMAIN Recving(t).body = D
      /\ ~Duplicate(Recving(t), Segment(m, i)) /\ d.seg = Segment(m, i)
  BY <1>1, <1>2, NextPart
<1>4. PICK r : r = Recving(t)
  OBVIOUS
<1>5. PICK new : new = SaveFresh(r, Segment(m, i))
  OBVIOUS
<1>6. Save(r, d.seg) = new /\ ~Duplicate(r, d.seg)
  BY <1>3, <1>4, <1>5 DEF Save
<1>7. /\ r \in Recvings /\ RecvingOK(r) /\ ~r.completed /\ new \in Recvings
      /\ rl'[t][1] = new /\ rl'[t] # <<>>
      /\ \/ new.completed /\ log' = Append(log, [trans |-> t, body |-> new.body])
         \/ ~new.completed /\ log' = log
  BY <1>4, <1>6, ArrivalFacts DEF Known
<1>8. PartOf(new, m) /\ DOMAIN new.body = D \cup {i}
  BY <1>3, <1>4, <1>5, <1>7, PartSaved
<1>9. new.completed <=> D \cup {i} = IDs(m)
  BY <1>8 DEF PartOf
<1>10. new.completed => new.body = Whole(m)
  BY <1>7, <1>8, PartWhole
<1>11. ~HasArrived(m)
  BY <1>3 DEF WorkOf
<1> QED
  BY <1>3, <1>7, <1>8, <1>9, <1>10, <1>11 DEF Deliveries

\* A delivery is one of that message only.
LEMMA DeliveryFacts ==
  ASSUME TypeOK, NEW m \in Messages, NEW t, Deliveries(m, t)
  PROVE  HasArrived(m)' /\ \A n \in Messages \ {m} : HasArrived(n)' <=> HasArrived(n)
<1>1. PICK e : e = [trans |-> t, body |-> Whole(m)]
  OBVIOUS
<1>2. log' = Append(log, e) /\ e.body = Whole(m)
  BY <1>1 DEF Deliveries
<1>3. /\ DOMAIN log \subseteq DOMAIN log' /\ \A i \in DOMAIN log : log'[i] = log[i]
      /\ \A i \in DOMAIN log' : (i \in DOMAIN log /\ log'[i] = log[i]) \/ log'[i] = e
      /\ Len(log) + 1 \in DOMAIN log' /\ log'[Len(log) + 1] = e
  BY <1>2, LogAppended
<1>4. HasArrived(m)'
  BY <1>2, <1>3 DEF HasArrived
<1>5. ASSUME NEW n \in Messages \ {m} PROVE HasArrived(n)' <=> HasArrived(n)
  <2>1. Whole(n) # Whole(m)
    BY WholeOnce
  <2> QED
    BY <1>2, <1>3, <2>1 DEF HasArrived
<1> QED
  BY <1>4, <1>5

LEMMA DataReliable ==
  ASSUME Faultless, Known, Reliable, NEW d \in net, HandleTrans(d)
  PROVE  Reliable' /\ (log' = log \/ \E m \in Messages : \E t \in TransIDs : Deliveries(m, t))
<1>1. d.type = "trans" /\ UNCHANGED <<pc, slotOf, sl, closed, shut>>
  BY DEF HandleTrans, senderVars
<1>2. PICK t \in TransIDs : d.trans = t
  BY OwnerOf
<1>3. PICK m \in Messages : sl[t] = m /\ slotOf[m] = t /\ Active(m) /\ Working(m, t)
  BY <1>2, OwnerOf
<1>4. PICK k \in Nat, D \in SUBSET IDs(m) : WorkOf(m, t, k, D)
  BY <1>3 DEF Working
<1>5. pc[m] # "idle"
  BY <1>3 DEF Active
<1>6. PICK i \in IDs(m) :
        /\ d = TransDatagram(t, Segment(m, i)) /\ i \in (0 .. k - 1) \ D
        /\ rl'[t] # <<>> /\ PartOf(rl'[t][1], m) /\ DOMAIN rl'[t][1].body = D \cup {i}
        /\ \/ D \cup {i} = IDs(m) /\ Deliveries(m, t)
           \/ D \cup {i} # IDs(m) /\ log' = log
  BY <1>2, <1>4, <1>5, ArrivalStep
<1>7. PICK E \in SUBSET IDs(m) : E = D \cup {i}
  BY <1>6
<1>8. D # IDs(m) /\ ~HasArrived(m)
  BY <1>4, <1>6 DEF WorkOf
<1>9. HasArrived(m)' <=> E = IDs(m)
  <2>1. CASE E = IDs(m)
    BY <1>6, <1>7, <2>1, DeliveryFacts DEF Known
  <2>2. CASE E # IDs(m)
    BY <1>6, <1>7, <1>8, <2>2 DEF HasArrived
  <2> QED
    BY <2>1, <2>2
<1>10. \A n \in Messages \ {m} : HasArrived(n)' <=> HasArrived(n)
  <2>1. CASE log' = log
    BY <2>1 DEF HasArrived
  <2> QED
    BY <1>6, <2>1, DeliveryFacts DEF Known
<1>11. \/ net' = net \ {d}
       \/ E = IDs(m) /\ net' = (net \ {d}) \cup {ReceivedDatagram(t)}
  <2>1. PICK rest \in {net \ {d}, net} :
          /\ TakenFrom(d, rest)
          /\ \/ net' = rest \cup {ReceivedDatagram(t)} /\ \E e : log' = Append(log, e)
             \/ net' = rest
    BY <1>2 DEF HandleTrans
  <2>2. rest = net \ {d}
    BY <2>1, Untouched
  <2>3. ASSUME NEW e, log' = Append(log, e) PROVE log' # log
    <3>1. Len(log') = Len(log) + 1 /\ Len(log) \in Nat
      BY <2>3, LogAppended DEF Known
    <3> QED
      BY <3>1
  <2> QED
    BY <1>6, <1>7, <2>1, <2>2, <2>3
<1>12. OnSlot(t)' \subseteq (OnSlot(t) \ {d}) \cup {ReceivedDatagram(t)} /\ OnSlot(t) \ {d} \subseteq OnSlot(t)'
  BY <1>11 DEF OnSlot
<1>13. ReceivedDatagram(t).type = "received" /\ ~IsQuery(ReceivedDatagram(t)) /\ ~IsQuery(d)
  BY <1>1 DEF ReceivedDatagram, IsQuery
<1>14. FlightOK(m, t, k, E)'
  <2>1. ASSUME NEW e \in OnSlot(t)', e.type = "trans"
        PROVE  e.seg.msg = m /\ e.seg.oid \in (0 .. k - 1) \ E
    <3>1. e \in OnSlot(t) /\ e # d
      BY <1>12, <1>13, <2>1
    <3>2. e.seg.msg = m /\ e.seg.oid \in (0 .. k - 1) \ D
      BY <1>4, <2>1, <3>1 DEF WorkOf, FlightOK
    <3>3. e = TransDatagram(t, Segment(m, e.seg.oid))
      BY <1>4, <2>1, <3>1, NextPart DEF OnSlot
    <3> QED
      BY <1>6, <1>7, <3>1, <3>2, <3>3
  <2>2. ASSUME NEW j \in 0 .. k - 1 PROVE j \in E \/ TransDatagram(t, Segment(m, j)) \in OnSlot(t)'
    <3>1. CASE j = i
      BY <1>7, <3>1
    <3>2. CASE j # i
      <4>1. j \in D \/ TransDatagram(t, Segment(m, j)) \in OnSlot(t)
        BY <1>4 DEF WorkOf, FlightOK
      <4>2. TransDatagram(t, Segment(m, j)) # d
        BY <1>6, <3>2 DEF TransDatagram, Segment
      <4> QED
        BY <1>7, <1>12, <4>1, <4>2
    <3> QED
      BY <3>1, <3>2
  <2> QED
    BY <2>1, <2>2 DEF FlightOK
<1>15. RecordOK(m, t, E)'
  BY <1>6, <1>7 DEF RecordOK, PartOf
<1>16. PhaseOK(m, k)' /\ QueryOK(m, t)'
  <2>1. PhaseOK(m, k)'
    BY <1>1, <1>4 DEF WorkOf, PhaseOK
  <2>2. QueryOK(m, t)'
    BY <1>1, <1>4, <1>12, <1>13 DEF WorkOf, QueryOK
  <2> QED
    BY <2>1, <2>2
<1>17. ReplyOK(m, t, k, E)'
  <2> SUFFICES ASSUME NEW e \in OnSlot(t)', e.type = "rep" PROVE FALSE
    BY DEF ReplyOK
  <2>1. e \in OnSlot(t)
    BY <1>12, <1>13
  <2>2. D = 0 .. k - 1
    BY <1>4, <2>1 DEF WorkOf, ReplyOK
  <2> QED
    BY <1>6, <2>2
<1>18. NoticeOK(m, t, E)'
  <2>1. m \notin closed
    BY <1>4, <1>8 DEF WorkOf, NoticeOK
  <2>2. ASSUME NEW e \in OnSlot(t)', e.type = "received" PROVE E = IDs(m)
    <3>1. e \notin OnSlot(t)
      BY <1>4, <1>8, <2>2 DEF WorkOf, NoticeOK
    <3>2. e \notin net
      BY <3>1 DEF OnSlot
    <3> QED
      BY <1>11, <3>2 DEF OnSlot
  <2> QED
    BY <1>1, <2>1, <2>2 DEF NoticeOK
<1>19. WorkOf(m, t, k, E)'
  <2>1. E \subseteq 0 .. k - 1 /\ k <= MaxOrderID(m) + 1
    BY <1>4, <1>6, <1>7 DEF WorkOf
  <2> QED
    BY <1>9, <1>14, <1>15, <1>16, <1>17, <1>18, <2>1 DEF WorkOf
<1>20. SlotOK(t)'
  BY <1>1, <1>3, <1>19, SlotHeld DEF Working
<1>21. ASSUME NEW u \in TransIDs \ {t} PROVE SlotOK(u)'
  <2>1. rl'[u] = rl[u]
    BY <1>2, ArrivalFacts DEF Known
  <2>2. SlotOK(u) /\ sl'[u] = sl[u] /\ OnSlot(u)' = OnSlot(u)
    <3>1. ReceivedDatagram(t).trans = t
      BY DEF ReceivedDatagram
    <3> QED
      BY <1>1, <1>2, <1>11, <3>1 DEF Reliable, OnSlot
  <2>3. \A n \in Messages : sl[u] = n => n # m
    BY <1>3 DEF Known, SlotExclusive
  <2>4. \A n \in Messages : sl[u] = n => /\ pc'[n] = pc[n] /\ (n \in closed' <=> n \in closed)
                                         /\ (HasArrived(n)' <=> HasArrived(n))
    BY <1>1, <1>10, <2>3
  <2> QED
    BY <2>1, <2>2, <2>4, SlotSame
<1>22. \A n \in Messages : pc'[n] = "idle" => ~HasArrived(n)'
  BY <1>1, <1>5, <1>10 DEF Reliable
<1>23. Reliable'
  BY <1>1, <1>20, <1>21, <1>22 DEF Reliable
<1> QED
  BY <1>6, <1>23

-------------------------------------------------------------------------------
\* Reliable is an invariant.

LEMMA IdleReliable ==
  ASSUME Reliable, UNCHANGED <<pc, sl, closed, shut, net, rl, log>>
  PROVE  Reliable'
<1>1. \A t \in TransIDs : SlotOK(t)'
  BY SlotSame DEF Reliable, OnSlot, HasArrived
<1> QED
  BY <1>1 DEF Reliable, HasArrived

LEMMA ReliableStep ==
  ASSUME Faultless, Known, Reliable, [Next]_vars
  PROVE  Reliable'
<1>1. ASSUME NEW m \in Messages, Sending(m) PROVE Reliable'
  BY <1>1, Untouched, NoWaitInVain, ClaimReliable, RegisterReliable, SendFullReliable, AskReliable,
     WaitReceivedReliable, WaitTimeoutReliable DEF Sending
<1>2. Handling => Reliable'
  BY NoticeReliable, ReplyReliable, DataReliable, RequestReliable DEF Handling
<1>3. Application \/ UNCHANGED vars => Reliable'
  <2>1. Application \/ UNCHANGED vars => UNCHANGED <<pc, sl, closed, shut, net, rl, log>>
    BY DEF Application, HandOver, RecvMsg, vars, senderVars, netVars, recvVars
  <2> QED
    BY <2>1, IdleReliable
<1> QED
  BY <1>1, <1>2, <1>3, Untouched DEF Next

LEMMA KnownInvariant == Spec => []Known
<1>1. TypeOK /\ Reassembly /\ SlotExclusive /\ Tracking /\ Intact => Known
  BY DEF Known
<1> QED
  BY <1>1, TypeAndReassembly, SlotsAndQueries, SuccessInvariant, IntactInvariant, PTL

LEMMA ReliableInvariant ==
  ASSUME Faultless
  PROVE  Spec => []Reliable
<1>1. Init => Reliable
  <2> SUFFICES ASSUME Init PROVE Reliable
    OBVIOUS
  <2>1. \A t \in TransIDs : Quiet(t) /\ sl[t] = NoMsg
    BY DEF Init, Quiet, OnSlot, Reusable
  <2>2. \A t \in TransIDs : SlotOK(t)
    BY <2>1, NoMsgAssumption DEF SlotOK
  <2>3. ~shut /\ \A m \in Messages : ~HasArrived(m)
    BY DEF Init, HasArrived
  <2> QED
    BY <2>2, <2>3 DEF Reliable
<1>2. Known /\ Reliable /\ [Next]_vars => Reliable'
  BY ReliableStep
<1> QED
  BY <1>1, <1>2, KnownInvariant, PTL DEF Spec

-------------------------------------------------------------------------------
\* Each step is one of the reliable channel, or none.

\* The state of the channel, as UDPTransfer maps it.
Call == [m \in Messages |-> CASE pc[m] = "idle" -> "new"
                              [] pc[m] = "done" -> IF result[m] = "ok" THEN "ok"
                                                                       ELSE "failed"
                              [] OTHER          -> "sending"]
Delivered == [i \in DOMAIN log |-> MessageOf(log[i].body)]

LEMMA MessageOfWhole ==
  ASSUME NEW m \in Messages, NEW b
  PROVE  MessageOf(b) = m <=> b = Whole(m)
<1>1. CASE \E n \in Messages : b = Whole(n)
  <2>1. MessageOf(b) \in Messages /\ b = Whole(MessageOf(b))
    BY <1>1 DEF MessageOf
  <2> QED
    BY <2>1, WholeOnce
<1>2. CASE ~\E n \in Messages : b = Whole(n)
  BY <1>2, NoMsgAssumption DEF MessageOf
<1> QED
  BY <1>1, <1>2

LEMMA ArrivedMeansArrived ==
  ASSUME NEW m \in Messages
  PROVE  (\E i \in DOMAIN Delivered : Delivered[i] = m) <=> HasArrived(m)
<1>1. DOMAIN Delivered = DOMAIN log /\ \A i \in DOMAIN log : Delivered[i] = MessageOf(log[i].body)
  BY DEF Delivered
<1> QED
  BY <1>1, MessageOfWhole DEF HasArrived

LEMMA DeliveredAppended ==
  ASSUME TypeOK, NEW m \in Messages, NEW t, Deliveries(m, t)
  PROVE  Delivered' = Append(Delivered, m)
<1>1. PICK e : e = [trans |-> t, body |-> Whole(m)]
  OBVIOUS
<1>2. log' = Append(log, e) /\ e.body = Whole(m)
  BY <1>1 DEF Deliveries
<1>3. PICK n \in Nat : n = Len(log) /\ DOMAIN log = 1 .. n
  BY DEF TypeOK, ReceiverTypeOK
<1>4. DOMAIN log' = 1 .. (n + 1) /\ (\A i \in 1 .. n : log'[i] = log[i]) /\ log'[n + 1] = e
  <2>1. PICK S : log \in Seq(S)
    BY DEF TypeOK, ReceiverTypeOK
  <2> QED
    BY <1>2, <1>3, <2>1
<1>5. Delivered = [i \in 1 .. n |-> MessageOf(log[i].body)]
  BY <1>3 DEF Delivered
<1>6. Delivered' = [i \in 1 .. (n + 1) |-> MessageOf(log'[i].body)]
  BY <1>4 DEF Delivered, MessageOf
<1>7. MessageOf(log'[n + 1].body) = m
  BY <1>2, <1>4, MessageOfWhole
<1>8. Delivered' = [i \in 1 .. (n + 1) |-> IF i = n + 1 THEN m ELSE Delivered[i]]
  <2>1. \A i \in 1 .. (n + 1) : MessageOf(log'[i].body) = IF i = n + 1 THEN m ELSE Delivered[i]
    BY <1>4, <1>5, <1>7
  <2> QED
    BY <1>6, <2>1
<1>9. PICK S : Delivered \in Seq(S)
  <2>1. Delivered \in Seq({MessageOf(log[i].body) : i \in 1 .. n})
    BY <1>5
  <2> QED
    BY <2>1
<1>10. PICK a : a = Append(Delivered, m)
  OBVIOUS
<1>11. Len(Delivered) = n
  BY <1>5
<1>12. a \in Seq(S \cup {m}) /\ Len(a) = n + 1 /\ \A i \in 1 .. (n + 1) : a[i] = IF i = n + 1 THEN m ELSE Delivered[i]
  BY <1>9, <1>10, <1>11
<1>13. a = [i \in 1 .. (n + 1) |-> IF i = n + 1 THEN m ELSE Delivered[i]]
  BY <1>12
<1> QED
  BY <1>8, <1>10, <1>13

\* A call that neither starts nor returns is still the same call.
LEMMA CallSame ==
  ASSUME \A m \in Messages : /\ pc'[m] = "idle" <=> pc[m] = "idle"
                             /\ pc'[m] = "done" <=> pc[m] = "done",
         result' = result
  PROVE  Call' = Call
<1> DEFINE S(p, r) == CASE p = "idle" -> "new"
                        [] p = "done" -> IF r = "ok" THEN "ok" ELSE "failed"
                        [] OTHER      -> "sending"
<1>1. ASSUME NEW m \in Messages PROVE S(pc'[m], result'[m]) = S(pc[m], result[m])
  <2>1. CASE pc[m] = "idle"
    BY <2>1
  <2>2. CASE pc[m] = "done"
    BY <2>2
  <2>3. CASE pc[m] \notin {"idle", "done"}
    BY <2>3
  <2> QED
    BY <2>1, <2>2, <2>3
<1>2. Call = [m \in Messages |-> S(pc[m], result[m])] /\ Call' = [m \in Messages |-> S(pc'[m], result'[m])]
  BY DEF Call
<1> HIDE DEF S
<1> QED
  BY <1>1, <1>2

\* One call changes.
LEMMA CallChanges ==
  ASSUME NEW m \in Messages,
         \A n \in Messages \ {m} : pc'[n] = pc[n] /\ result'[n] = result[n]
  PROVE  Call' = [Call EXCEPT ![m] = Call'[m]]
<1>1. \A n \in Messages \ {m} : Call'[n] = Call[n]
  BY DEF Call
<1>2. Call = [n \in Messages |-> Call[n]] /\ Call' = [n \in Messages |-> Call'[n]]
  BY DEF Call
<1> QED
  BY <1>1, <1>2

LEMMA DeliveredSame == ASSUME log' = log PROVE Delivered' = Delivered
  BY DEF Delivered, MessageOf

ChannelStep == [RC!Step]_<<Call, Delivered>>

\* A call returns.
LEMMA ReturnRefines ==
  ASSUME Known, NEW m \in Messages, Active(m), NEW res, Return(m, res), log' = log,
         res = "ok" => HasArrived(m)
  PROVE  ChannelStep
<1>1. /\ pc'[m] = "done" /\ result'[m] = res
      /\ \A n \in Messages \ {m} : pc'[n] = pc[n] /\ result'[n] = result[n]
  BY DEF Return, Known, TypeOK, SenderTypeOK
<1>2. Call[m] = "sending"
  BY DEF Call, Active
<1>3. Call'[m] = IF res = "ok" THEN "ok" ELSE "failed"
  BY <1>1 DEF Call
<1>4. Call' = [Call EXCEPT ![m] = IF res = "ok" THEN "ok" ELSE "failed"]
  BY <1>1, <1>3, CallChanges
<1>5. Delivered' = Delivered
  BY DeliveredSame
<1>6. CASE res = "ok"
  <2>1. RC!Arrived(m)
    BY <1>6, ArrivedMeansArrived DEF RC!Arrived, Delivered
  <2>2. RC!Succeed(m)
    BY <1>2, <1>4, <1>5, <1>6, <2>1 DEF RC!Succeed, Call, Delivered
  <2> QED
    BY <2>2 DEF ChannelStep, RC!Step
<1>7. CASE res # "ok"
  <2>1. RC!Fail(m)
    BY <1>2, <1>4, <1>5, <1>7 DEF RC!Fail, Call, Delivered
  <2> QED
    BY <2>1 DEF ChannelStep, RC!Step
<1> QED
  BY <1>6, <1>7

LEMMA ClaimRefines ==
  ASSUME Known, NEW m \in Messages, Claim(m)
  PROVE  ChannelStep
<1>1. /\ pc[m] = "idle" /\ pc'[m] = "register" /\ log' = log
      /\ \A n \in Messages \ {m} : pc'[n] = pc[n] /\ result'[n] = result[n]
  BY DEF Claim, recvVars, Known, TypeOK, SenderTypeOK
<1>2. Call[m] = "new" /\ Call'[m] = "sending"
  BY <1>1 DEF Call
<1>3. Call' = [Call EXCEPT ![m] = "sending"]
  BY <1>1, <1>2, CallChanges
<1>4. Delivered' = Delivered
  BY <1>1, DeliveredSame
<1>5. RC!Submit(m)
  BY <1>2, <1>3, <1>4 DEF RC!Submit, Call, Delivered
<1> QED
  BY <1>5 DEF ChannelStep, RC!Step

LEMMA DeliveryRefines ==
  ASSUME Known, NEW m \in Messages, NEW t, Deliveries(m, t), UNCHANGED <<pc, result>>
  PROVE  ChannelStep
<1>1. Call' = Call
  BY CallSame
<1>2. Delivered' = Append(Delivered, m)
  BY DeliveredAppended DEF Known
<1>3. Call[m] # "new"
  BY DEF Call, Deliveries
<1>4. ~RC!Arrived(m)
  BY ArrivedMeansArrived DEF RC!Arrived, Delivered, Deliveries
<1>5. RC!Deliver(m)
  BY <1>1, <1>2, <1>3, <1>4 DEF RC!Deliver, Call, Delivered
<1> QED
  BY <1>5 DEF ChannelStep, RC!Step

\* A call that goes on, and a step that no call sees.
LEMMA OtherwiseSame ==
  ASSUME \A m \in Messages : /\ pc'[m] = "idle" <=> pc[m] = "idle"
                             /\ pc'[m] = "done" <=> pc[m] = "done",
         result' = result, log' = log
  PROVE  ChannelStep
  BY CallSame, DeliveredSame DEF ChannelStep

LEMMA SendingRefines ==
  ASSUME Faultless, Known, Reliable, NEW m \in Messages, Sending(m)
  PROVE  ChannelStep
<1>1. log' = log
  BY DEF Sending, Claim, Register, SendFull, SendFullFails, Query, QueryFails, QueryRetry, QueryGiveUp,
         QueryExpire, QueryExpired, QueryShutdown, WaitReceived, WaitTimeout, WaitShutdown, recvVars
<1>2. ASSUME pc[m] \notin {"idle", "done"}, pc'[m] \notin {"idle", "done"}, OnlyPC(m), result' = result
      PROVE  ChannelStep
  <2>1. \A n \in Messages : /\ pc'[n] = "idle" <=> pc[n] = "idle"
                            /\ pc'[n] = "done" <=> pc[n] = "done"
    BY <1>2 DEF OnlyPC
  <2> QED
    BY <1>1, <1>2, <2>1, OtherwiseSame
<1>3. CASE Register(m) \/ SendFull(m) \/ Query(m) \/ QueryRetry(m)
  <2>1. pc[m] \notin {"idle", "done"} /\ pc'[m] \notin {"idle", "done"} /\ OnlyPC(m) /\ result' = result
    BY <1>3 DEF Register, SendFull, Query, QueryRetry, AfterBurst, Known, TypeOK, SenderTypeOK, OnlyPC
  <2> QED
    BY <1>2, <2>1
<1>4. CASE WaitReceived(m)
  <2>1. Return(m, "ok") /\ Active(m) /\ HasArrived(m)
    BY <1>4, WaitReceivedReliable DEF WaitReceived, Active
  <2> QED
    BY <1>1, <2>1, ReturnRefines
<1>5. CASE WaitTimeout(m)
  <2>1. Active(m)
    BY <1>5 DEF WaitTimeout, Active
  <2>2. CASE Return(m, "timeout")
    BY <1>1, <2>1, <2>2, ReturnRefines
  <2>3. CASE pc' = [pc EXCEPT ![m] = "query"] /\ result' = result
    <3>1. pc[m] \notin {"idle", "done"} /\ pc'[m] \notin {"idle", "done"} /\ OnlyPC(m)
      BY <2>1, <2>3 DEF Known, TypeOK, SenderTypeOK, OnlyPC, Active
    <3> QED
      BY <1>2, <2>3, <3>1
  <2> QED
    BY <1>5, <2>2, <2>3 DEF WaitTimeout
<1> QED
  BY <1>3, <1>4, <1>5, Untouched, NoWaitInVain, ClaimRefines DEF Sending

LEMMA HandlingRefines ==
  ASSUME Faultless, Known, Reliable, Handling
  PROVE  ChannelStep
<1>1. ASSUME NEW d \in net, HandleReceived(d) \/ HandleReq(d) PROVE ChannelStep
  <2>1. UNCHANGED <<pc, result, log>>
    BY <1>1 DEF HandleReceived, HandleReq, senderVars, recvVars
  <2> QED
    BY <2>1, OtherwiseSame
<1>2. ASSUME NEW d \in net, HandleTrans(d) PROVE ChannelStep
  <2>1. UNCHANGED <<pc, result>>
    BY <1>2 DEF HandleTrans, senderVars
  <2>2. CASE log' = log
    BY <2>1, <2>2, OtherwiseSame
  <2>3. ASSUME NEW m \in Messages, NEW t \in TransIDs, Deliveries(m, t) PROVE ChannelStep
    BY <2>1, <2>3, DeliveryRefines
  <2> QED
    BY <1>2, <2>2, <2>3, DataReliable
<1>3. ASSUME NEW d \in net, HandleRep(d) PROVE ChannelStep
  <2>1. PICK m \in Messages : m = d.id
    BY <1>3, ReplyReliable
  <2>2. /\ Active(m) /\ log' = log
        /\ \/ Return(m, "ok") /\ HasArrived(m)
           \/ pc'[m] \notin {"idle", "done"} /\ OnlyPC(m) /\ result' = result
    BY <1>3, <2>1, ReplyReliable
  <2>3. CASE Return(m, "ok") /\ HasArrived(m)
    BY <2>2, <2>3, ReturnRefines
  <2>4. CASE pc'[m] \notin {"idle", "done"} /\ OnlyPC(m) /\ result' = result
    <3>1. \A n \in Messages : /\ pc'[n] = "idle" <=> pc[n] = "idle"
                              /\ pc'[n] = "done" <=> pc[n] = "done"
      BY <2>2, <2>4 DEF OnlyPC, Active
    <3> QED
      BY <2>2, <2>4, <3>1, OtherwiseSame
  <2> QED
    BY <2>2, <2>3, <2>4
<1> QED
  BY <1>1, <1>2, <1>3 DEF Handling

LEMMA StepRefines ==
  ASSUME Faultless, Known, Reliable, [Next]_vars
  PROVE  ChannelStep
<1>1. CASE Application \/ UNCHANGED vars
  <2>1. UNCHANGED <<pc, result, log>>
    BY <1>1 DEF Application, HandOver, RecvMsg, vars, senderVars, netVars, recvVars
  <2> QED
    BY <2>1, OtherwiseSame
<1> QED
  BY <1>1, SendingRefines, HandlingRefines, Untouched DEF Next

\* While the network neither loses nor repeats a datagram and keeps the order a call can
\* observe, the transport is a reliable channel, for every window, any number of slots that
\* are used again and again and timers of retries that fire too early: a message is handed
\* over at most once and whole, and SendMsg returns nil only after its own message has been
\* (udp.go:516-635, 103-162, 399-487).
THEOREM TransportIsReliable ==
  ASSUME Faults \subseteq {"early"}
  PROVE  Spec => ImplementsChannel
<1>1. Faultless
  BY DEF Faultless
<1>2. Init => RC!Start
  <2> SUFFICES ASSUME Init PROVE RC!Start
    OBVIOUS
  <2>1. Call = [m \in Messages |-> "new"]
    BY DEF Init, Call
  <2>2. Delivered = <<>>
    BY DEF Init, Delivered
  <2> QED
    BY <2>1, <2>2 DEF RC!Start, Call, Delivered
<1>3. Known /\ Reliable /\ [Next]_vars => ChannelStep
  BY <1>1, StepRefines
<1>4. Spec => []Reliable
  BY <1>1, ReliableInvariant
<1> QED
  BY <1>2, <1>3, <1>4, KnownInvariant, PTL
  DEF Spec, ChannelStep, ImplementsChannel, RC!Channel, Call, Delivered

===============================================================================
