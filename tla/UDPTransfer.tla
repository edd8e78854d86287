------------------------------ MODULE UDPTransfer ------------------------------
(***************************************************************************)
(* Message transfer over one udp.Conn in one direction (proto/udp/udp.go): *)
(* the goroutines that call SendMsg at one end, the receive loop and the   *)
(* application of the other end, and the datagrams between them.           *)
(*                                                                         *)
(* The network is the set of datagrams in flight.  What it and the clocks  *)
(* may do is the constant Faults:                                          *)
(*   loss      a datagram disappears                                       *)
(*   dup       a datagram is delivered and stays in flight                 *)
(*   overtake  a query overtakes the segments of its slot, a reply the     *)
(*             "received" notice of its slot                               *)
(*   early     a timer of one retry fires while datagrams of its slot are  *)
(*             in flight                                                   *)
(*   impatient a call gives up while datagrams of its slot are in flight   *)
(*   write     WriteToUDP returns an error                                 *)
(*   close     the application closes the connection                       *)
(***************************************************************************)
EXTENDS MsgRecving, Sequences

CONSTANTS
  NTrans,         \* defaultConnTranSize: how many slots (transIDs) there are
  SWS,            \* Conn.sws: how many segments are sent before a query
  MaxTimes,       \* sendMsgMaxTimes: waiting rounds of one SendMsg
  MaxTries,       \* attempts of one queryMsgReceive (999)
  Faults,         \* what the network and the clocks may do, see above
  NoMsg,          \* the nil of sl, slWait and the blocked handler
  MaxDups,        \* bound: datagrams the network duplicates
  MaxLog          \* bound: messages the receiving end completes

FaultKinds == {"loss", "dup", "overtake", "early", "impatient", "write", "close"}

ASSUME SlotAssumption  == NTrans \in Nat /\ NTrans > 0
ASSUME SWSAssumption   == SWS \in Nat /\ SWS > 0
ASSUME NoMsgAssumption == NoMsg \notin Messages
ASSUME FaultAssumption == Faults \subseteq FaultKinds
ASSUME BoundAssumption == /\ MaxTimes \in Nat  /\ MaxTimes > 0
                          /\ MaxTries \in Nat  /\ MaxTries > 0
                          /\ MaxDups \in Nat  /\ MaxLog \in Nat

TransIDs == 0 .. NTrans - 1

VARIABLES
  \* the sending end
  pc,         \* where each SendMsg call is
  result,     \* what each SendMsg call returned
  slotOf,     \* sending.transID of each call (kept after the call returns)
  sl,         \* Conn.sl, the sending list
  slWait,     \* Conn.slWait: the call whose channel is registered for a slot
  closed,     \* the calls whose wait channel has been closed
  round,      \* the loop counter i of each SendMsg; it stays at MaxTimes, no
              \* test distinguishes larger values
  tries,      \* the loop counter of each queryMsgReceive
  requests,   \* Conn.requests: the calls whose query is pending
  blocked,    \* the call on whose request channel handleRep is blocked for good
  shut,       \* shutdownCh of the sending end is closed
  \* the network
  net,        \* datagrams in flight
  dups,       \* how many have been duplicated
  \* the receiving end
  rl,         \* Conn.rl, the receiving list
  log,        \* history: the messages completed, in order of completion
  handoff,    \* completed messages (positions in log) whose goroutine still
              \* waits to put them into inbound
  inbound,    \* Conn.inbound, a channel of one message (0: empty)
  got         \* what RecvMsg has returned so far

senderVars == <<pc, result, slotOf, sl, slWait, closed, round, tries, requests, blocked, shut>>
netVars    == <<net, dups>>
recvVars   == <<rl, log, handoff, inbound, got>>
vars       == <<senderVars, netVars, recvVars>>

Status == {"notExist", "completed", "notCompleted"}

TransDatagram(t, s)  == [type |-> "trans", trans |-> t, seg |-> s]
ReceivedDatagram(t)  == [type |-> "received", trans |-> t]
ReqDatagram(t, m)    == [type |-> "req", trans |-> t, id |-> m]
RepDatagram(t, m, st, lg, ms) ==
  [type |-> "rep", trans |-> t, id |-> m, status |-> st, largest |-> lg, missing |-> ms]

Datagrams ==
  [type : {"trans"}, trans : TransIDs, seg : Segments]
  \cup [type : {"received"}, trans : TransIDs]
  \cup [type : {"req"}, trans : TransIDs, id : Messages]
  \cup [type : {"rep"}, trans : TransIDs, id : Messages, status : Status,
        largest : OrderIDs \cup {0}, missing : SUBSET OrderIDs]

-------------------------------------------------------------------------------
\* The network.

\* Data ahead of a query, or a notice ahead of a reply, on the same slot.
Ahead(e, d) ==
  /\ e.trans = d.trans
  /\ \/ e.type = "trans" /\ d.type = "req"
     \/ e.type = "received" /\ d.type = "rep"

Deliverable(d) ==
  /\ d \in net
  /\ "overtake" \in Faults \/ \A e \in net : ~Ahead(e, d)

\* The datagrams left when d has been taken by a handler: all but d, or all
\* of them when the network duplicates d.
TakenFrom(d, rest) ==
  \/ /\ rest = net \ {d}
     /\ UNCHANGED dups
  \/ /\ "dup" \in Faults /\ dups < MaxDups
     /\ rest = net
     /\ dups' = dups + 1

Lose(d) ==
  /\ "loss" \in Faults /\ d \in net
  /\ net' = net \ {d}
  /\ UNCHANGED <<senderVars, dups, recvVars>>

\* The query datagrams of a request that is no longer in c.requests: its
\* reply is dropped by handleRep without effect, so they leave the model.
Forgotten(m, ds) == {d \in ds : d.type \in {"req", "rep"} /\ d.id = m}

\* A timer that is far longer than a datagram lives fires when the slot of the
\* call is quiet; with the fault named it may fire at any time.
MayFire(m, fault) ==
  fault \in Faults \/ \A d \in net : d.trans # slotOf[m]

-------------------------------------------------------------------------------
\* SendMsg.

Segs(m, ids) == {TransDatagram(slotOf[m], Segment(m, i)) : i \in ids}

\* The call returns: the deferred function gives the slot back.  The entry of
\* slWait, if there is one, stays.
Return(m, res) ==
  /\ pc' = [pc EXCEPT ![m] = "done"]
  /\ result' = [result EXCEPT ![m] = res]
  /\ sl' = [sl EXCEPT ![slotOf[m]] = NoMsg]

FreeSlotsAll == TransIDs                    \* mistake: no test of v == nil

FreeSlots == {t \in TransIDs : sl[t] = NoMsg}

\* for { lock; first free slot; unlock }
Claim(m) ==
  /\ pc[m] = "idle"
  /\ \E t \in FreeSlots :
       /\ \A u \in FreeSlots : t <= u
       /\ sl' = [sl EXCEPT ![t] = m]
       /\ slotOf' = [slotOf EXCEPT ![m] = t]
  /\ pc' = [pc EXCEPT ![m] = "register"]
  /\ UNCHANGED <<result, slWait, closed, round, tries, requests, blocked, shut,
                 netVars, recvVars>>

\* c.slWait[transID] = ch, then i++ of the first round, which sends everything.
Register(m) ==
  /\ pc[m] = "register"
  /\ slWait' = [slWait EXCEPT ![slotOf[m]] = m]
  /\ round' = [round EXCEPT ![m] = 1]
  /\ pc' = [pc EXCEPT ![m] = "full"]
  /\ UNCHANGED <<result, slotOf, sl, closed, tries, requests, blocked, shut,
                 netVars, recvVars>>

\* Where the sending loop goes when it has run through the order ids W, or
\* through the first SWS of them: `goto QUERY' or WAIT.
AfterBurst(W) == IF Cardinality(W) > SWS THEN "query" ELSE "wait"

\* `sending full message'
SendFull(m) ==
  LET W == 0 .. MaxOrderID(m)
  IN  /\ pc[m] = "full"
      /\ net' = net \cup Segs(m, FirstN(W, SWS))
      /\ pc' = [pc EXCEPT ![m] = AfterBurst(W)]
      /\ UNCHANGED <<result, slotOf, sl, slWait, closed, round, tries, requests,
                     blocked, shut, dups, recvVars>>

\* The same, when a write fails: SendMsg returns after a proper prefix.
SendFullFails(m) ==
  LET W == FirstN(0 .. MaxOrderID(m), SWS)
  IN  /\ pc[m] = "full" /\ "write" \in Faults
      /\ \E k \in W : net' = net \cup Segs(m, {i \in W : i < k})
      /\ Return(m, "error")
      /\ UNCHANGED <<slotOf, slWait, closed, round, tries, requests, blocked, shut,
                     dups, recvVars>>

DeleteRequestForgotten(m) == requests       \* mistake: the entry stays

\* delete(c.requests, id)
DeleteRequest(m) == requests \ {m}

\* QUERY: i++, then queryMsgReceive registers a request and writes it.  The
\* registration takes requestMutex, which a blocked handleRep holds.
Query(m) ==
  /\ pc[m] = "query" /\ blocked = NoMsg
  /\ round' = [round EXCEPT ![m] = IF @ < MaxTimes THEN @ + 1 ELSE @]
  /\ tries' = [tries EXCEPT ![m] = 1]
  /\ requests' = requests \cup {m}
  /\ net' = net \cup {ReqDatagram(slotOf[m], m)}
  /\ pc' = [pc EXCEPT ![m] = "asking"]
  /\ UNCHANGED <<result, slotOf, sl, slWait, closed, blocked, shut, dups, recvVars>>

\* <-time.After(1000 * time.Millisecond): the request is written again.
QueryRetry(m) ==
  /\ pc[m] = "asking" /\ tries[m] < MaxTries
  /\ MayFire(m, "early")
  /\ tries' = [tries EXCEPT ![m] = @ + 1]
  /\ net' = net \cup {ReqDatagram(slotOf[m], m)}
  /\ UNCHANGED <<pc, result, slotOf, sl, slWait, closed, round, requests, blocked,
                 shut, dups, recvVars>>

\* The first write of the request fails: the entry of c.requests stays behind.
QueryFails(m) ==
  /\ pc[m] = "query" /\ blocked = NoMsg /\ "write" \in Faults
  /\ requests' = requests \cup {m}
  /\ Return(m, "error")
  /\ UNCHANGED <<slotOf, slWait, closed, round, tries, blocked, shut, netVars, recvVars>>

\* The timer fires after the last attempt ("query try many times"), or writing
\* the request again fails: the entry of c.requests stays behind.
QueryGiveUp(m) ==
  /\ pc[m] = "asking"
  /\ \/ tries[m] = MaxTries /\ MayFire(m, "impatient")
     \/ "write" \in Faults /\ MayFire(m, "early")
  /\ Return(m, "error")
  /\ UNCHANGED <<slotOf, slWait, closed, round, tries, requests, blocked, shut,
                 netVars, recvVars>>

\* <-time.After(defaultRequestTimeout).  It is set together with the timer of
\* one second and wins only when the goroutine did not run for all that time.
QueryExpire(m) ==
  /\ pc[m] = "asking" /\ "impatient" \in Faults
  /\ pc' = [pc EXCEPT ![m] = "expire"]
  /\ UNCHANGED <<result, slotOf, sl, slWait, closed, round, tries, requests, blocked,
                 shut, netVars, recvVars>>

\* ... and its body: lock requestMutex, delete, unlock, close(ch), ErrTimeout.
QueryExpired(m) ==
  /\ pc[m] = "expire" /\ blocked = NoMsg
  /\ requests' = DeleteRequest(m)
  /\ net' = net \ Forgotten(m, net)
  /\ Return(m, "timeout")
  /\ UNCHANGED <<slotOf, slWait, closed, round, tries, blocked, shut, dups, recvVars>>

\* <-c.shutdownCh while a query waits: the entry of c.requests stays behind.
QueryShutdown(m) ==
  /\ pc[m] = "asking" /\ shut
  /\ Return(m, "shutdown")
  /\ UNCHANGED <<slotOf, slWait, closed, round, tries, requests, blocked, shut,
                 netVars, recvVars>>

\* WAIT: <-ch
WaitReceived(m) ==
  /\ pc[m] = "wait" /\ m \in closed
  /\ Return(m, "ok")
  /\ UNCHANGED <<slotOf, slWait, closed, round, tries, requests, blocked, shut,
                 netVars, recvVars>>

\* WAIT: <-time.After(defaultSendingTimeout), then the test of the for loop.
WaitTimeout(m) ==
  /\ pc[m] = "wait"
  /\ \/ /\ round[m] < MaxTimes
        /\ MayFire(m, "early")
        /\ m \in closed => "early" \in Faults
        /\ pc' = [pc EXCEPT ![m] = "query"]
        /\ UNCHANGED <<result, sl, slWait>>
     \/ /\ round[m] >= MaxTimes
        /\ MayFire(m, "impatient")
        /\ m \in closed => "impatient" \in Faults
        /\ slWait' = [slWait EXCEPT ![slotOf[m]] = NoMsg]
        /\ Return(m, "timeout")
  /\ UNCHANGED <<slotOf, closed, round, tries, requests, blocked, shut, netVars, recvVars>>

\* WAIT: <-c.shutdownCh
WaitShutdown(m) ==
  /\ pc[m] = "wait" /\ shut
  /\ Return(m, "shutdown")
  /\ UNCHANGED <<slotOf, slWait, closed, round, tries, requests, blocked, shut,
                 netVars, recvVars>>

\* Conn.Close: close(c.shutdownCh), once.
Close ==
  /\ "close" \in Faults /\ ~shut
  /\ shut' = TRUE
  /\ UNCHANGED <<pc, result, slotOf, sl, slWait, closed, round, tries, requests,
                 blocked, netVars, recvVars>>

-------------------------------------------------------------------------------
\* The receive loop of the sending end.

ToldNobody(t) == {}                         \* mistake: no close(ch)

\* The call whose channel is in slWait, if there is one.
Told(t) == {slWait[t]} \ {NoMsg}

\* handleReceived: whoever is registered for the slot is told.
HandleReceived(d) ==
  /\ Deliverable(d) /\ d.type = "received" /\ blocked = NoMsg
  /\ \E rest \in {net \ {d}, net} : TakenFrom(d, rest) /\ net' = rest
  /\ closed'  = closed \cup Told(d.trans)
  /\ slWait' = [slWait EXCEPT ![d.trans] = NoMsg]
  /\ UNCHANGED <<pc, result, slotOf, sl, round, tries, requests, blocked, shut, recvVars>>

UnsentAll(m, d) == 0 .. MaxOrderID(m)       \* mistake: the answer is ignored

\* The order ids a "not completed" answer leaves to be written.
Unsent(m, d) == d.missing \cup {i \in OrderIDs : d.largest < i /\ i <= MaxOrderID(m)}

\* What SendMsg does with the answer to its query: the order ids it writes,
\* and where it goes on or what it returns.
Resume(m, d, rest) ==
  \/ /\ d.status = "completed"
     /\ net' = rest
     /\ Return(m, "ok")
  \/ /\ d.status = "notExist"
     /\ net' = rest
     /\ pc' = [pc EXCEPT ![m] = "full"]
     /\ UNCHANGED <<result, sl>>
  \/ LET W     == Unsent(m, d)
         burst == FirstN(W, SWS)
         fits  == {i \in burst : i <= MaxOrderID(m)}
     IN  /\ d.status = "notCompleted"
         /\ net' = rest \cup Segs(m, fits)
         /\ \/ /\ fits = burst
               /\ pc' = [pc EXCEPT ![m] = AfterBurst(W)]
               /\ UNCHANGED <<result, sl>>
            \/ /\ fits # burst       \* "orderID is too large"
               /\ Return(m, "error")

\* handleRep, under requestMutex: send on the channel of the request, delete
\* the entry.  The channel is not buffered: the handler and a SendMsg that
\* waits in queryMsgReceive go on together; when that SendMsg has left its
\* select, the handler blocks with the mutex held.
HandleRep(d) ==
  /\ Deliverable(d) /\ d.type = "rep" /\ blocked = NoMsg
  /\ d.id \in requests
  /\ \/ /\ pc[d.id] = "asking"
        /\ requests' = DeleteRequest(d.id)
        /\ \E rest \in {net \ {d}, net} :
             TakenFrom(d, rest) /\ Resume(d.id, d, rest \ Forgotten(d.id, rest))
        /\ UNCHANGED blocked
     \/ /\ pc[d.id] # "asking"
        /\ blocked' = d.id
        /\ \E rest \in {net \ {d}, net} : TakenFrom(d, rest) /\ net' = rest
        /\ UNCHANGED <<pc, result, sl, requests>>
  /\ UNCHANGED <<slotOf, slWait, closed, round, tries, shut, recvVars>>

-------------------------------------------------------------------------------
\* The receiving end.

RecvingKept(t) == IF rl[t] = <<>> THEN NewRecving ELSE rl[t][1]  \* mistake: ... if completed

\* The msgRecving a segment of slot t is saved in.
Recving(t) == IF rl[t] = <<>> \/ rl[t][1].completed THEN NewRecving ELSE rl[t][1]

\* handleTrans: a slot that is empty or completed gets a new msgRecving; a
\* segment that completes its message starts the goroutine that hands it over
\* and is answered with a "received" notice.
HandleTrans(d) ==
  LET r   == Recving(d.trans)
      new == Save(r, d.seg)
  IN  /\ Deliverable(d) /\ d.type = "trans"
      /\ rl' = [rl EXCEPT ![d.trans] = <<new>>]
      /\ \E rest \in {net \ {d}, net} :
           /\ TakenFrom(d, rest)
           /\ IF ~Duplicate(r, d.seg) /\ new.completed
              THEN /\ Len(log) < MaxLog
                   /\ log' = Append(log, [trans |-> d.trans, body |-> new.body])
                   /\ handoff' = handoff \cup {Len(log) + 1}
                   /\ net' = rest \cup {ReceivedDatagram(d.trans)}
              ELSE /\ net' = rest
                   /\ UNCHANGED <<log, handoff>>
      /\ UNCHANGED <<senderVars, inbound, got>>

\* mistake: completed when no segment is missing
AnswerStatusGapless(t) ==
  IF rl[t] = <<>> THEN "notExist"
  ELSE IF GetMissing(rl[t][1]) = {} THEN "completed" ELSE "notCompleted"

AnswerStatus(t) ==
  IF rl[t] = <<>> THEN "notExist"
  ELSE IF rl[t][1].completed THEN "completed" ELSE "notCompleted"

\* handleReqQueryReceive; the reply lists at most c.sws missing order ids.
Answer(t, m) ==
  IF AnswerStatus(t) = "notCompleted"
  THEN RepDatagram(t, m, "notCompleted", rl[t][1].largest,
                   FirstN(GetMissing(rl[t][1]), SWS))
  ELSE RepDatagram(t, m, AnswerStatus(t), 0, {})

HandleReq(d) ==
  /\ Deliverable(d) /\ d.type = "req"
  /\ \E rest \in {net \ {d}, net} :
       TakenFrom(d, rest) /\ net' = rest \cup {Answer(d.trans, d.id)}
  /\ UNCHANGED <<senderVars, recvVars>>

\* go func() { c.inbound <- msg }()
HandOver(i) ==
  /\ i \in handoff /\ inbound = 0
  /\ inbound' = i
  /\ handoff' = handoff \ {i}
  /\ UNCHANGED <<senderVars, netVars, rl, log, got>>

\* RecvMsg: msg := <-c.inbound
RecvMsg ==
  /\ inbound # 0
  /\ got' = Append(got, inbound)
  /\ inbound' = 0
  /\ UNCHANGED <<senderVars, netVars, rl, log, handoff>>

-------------------------------------------------------------------------------
Init ==
  /\ pc = [m \in Messages |-> "idle"]
  /\ result = [m \in Messages |-> "none"]
  /\ slotOf = [m \in Messages |-> NTrans]       \* no slot yet
  /\ sl = [t \in TransIDs |-> NoMsg]
  /\ slWait = [t \in TransIDs |-> NoMsg]
  /\ closed = {} /\ requests = {} /\ blocked = NoMsg /\ shut = FALSE
  /\ round = [m \in Messages |-> 0]
  /\ tries = [m \in Messages |-> 0]
  /\ net = {} /\ dups = 0
  /\ rl = [t \in TransIDs |-> <<>>]             \* <<>>: nil, <<r>>: a msgRecving
  /\ log = <<>> /\ handoff = {} /\ inbound = 0 /\ got = <<>>

Sending(m) ==
  \/ Claim(m) \/ Register(m) \/ SendFull(m) \/ SendFullFails(m)
  \/ Query(m) \/ QueryFails(m) \/ QueryRetry(m) \/ QueryGiveUp(m)
  \/ QueryExpire(m) \/ QueryExpired(m) \/ QueryShutdown(m)
  \/ WaitReceived(m) \/ WaitTimeout(m) \/ WaitShutdown(m)

Handling == \E d \in net :
  HandleReceived(d) \/ HandleRep(d) \/ HandleTrans(d) \/ HandleReq(d)

Application == RecvMsg \/ \E i \in handoff : HandOver(i)

Next ==
  \/ \E m \in Messages : Sending(m)
  \/ Handling
  \/ Application
  \/ Close
  \/ \E d \in net : Lose(d)

Spec == Init /\ [][Next]_vars

\* Every goroutine that can go on does (a SendMsg call, the receive loops, the
\* goroutines that fill inbound and the reader), and a segment that is written
\* again and again arrives at last.
Fairness ==
  /\ \A m \in Messages : WF_vars(Sending(m))
  /\ WF_vars(Handling)
  /\ WF_vars(Application)
  /\ \A t \in TransIDs, m \in Messages : \A i \in 0 .. MaxOrderID(m) :
       SF_vars(HandleTrans(TransDatagram(t, Segment(m, i))))

FairSpec == Spec /\ Fairness

-------------------------------------------------------------------------------
\* Properties.

SenderTypeOK ==
  /\ pc \in [Messages -> {"idle", "register", "full", "query", "asking", "expire",
                          "wait", "done"}]
  /\ result \in [Messages -> {"none", "ok", "timeout", "error", "shutdown"}]
  /\ slotOf \in [Messages -> TransIDs \cup {NTrans}]
  /\ sl \in [TransIDs -> Messages \cup {NoMsg}]
  /\ slWait \in [TransIDs -> Messages \cup {NoMsg}]
  /\ closed \subseteq Messages /\ requests \subseteq Messages
  /\ blocked \in Messages \cup {NoMsg} /\ shut \in BOOLEAN
  /\ round \in [Messages -> Nat] /\ tries \in [Messages -> Nat]
  /\ \A m \in Messages : pc[m] # "idle" => slotOf[m] \in TransIDs

NetTypeOK == net \subseteq Datagrams /\ dups \in Nat

ReceiverTypeOK ==
  /\ DOMAIN rl = TransIDs
  /\ \A t \in TransIDs : rl[t] # <<>> => rl[t] = <<rl[t][1]>> /\ rl[t][1] \in Recvings
  /\ log \in Seq([trans : TransIDs, body : Bodies])
  /\ handoff \subseteq 1 .. Len(log)
  /\ inbound \in 0 .. Len(log)
  /\ got \in Seq(1 .. Len(log))

\* Type correctness of both ends and of the network; a call that has started
\* has a slot.
TypeOK == SenderTypeOK /\ NetTypeOK /\ ReceiverTypeOK

Active(m) == pc[m] \notin {"idle", "done"}

\* A slot belongs to at most one call of SendMsg, from the moment the call takes
\* it to the moment its deferred function gives it back without slMutex: no call
\* frees the slot of another.
SlotExclusive ==
  \A t \in TransIDs, m \in Messages : sl[t] = m <=> Active(m) /\ slotOf[m] = t

\* A call that may come to WAIT can still be told: its channel is closed already
\* or it is the one registered for its slot, whatever earlier calls on the slot
\* left behind in slWait and whatever stale "received" notices arrive.
NoLostRegistration ==
  \A m \in Messages :
    pc[m] \in {"full", "query", "asking", "expire", "wait"} =>
      m \in closed \/ slWait[slotOf[m]] = m

\* An entry of c.requests is of a query that is waited for, or of one that was
\* abandoned by a call that then failed; handleRep can only block on the latter.
AbandonedQuery ==
  \A m \in Messages :
    m \in requests \/ blocked = m =>
      \/ pc[m] = "asking" /\ blocked # m
      \/ pc[m] = "expire"
      \/ pc[m] = "done" /\ result[m] \in {"error", "shutdown"}

Completed(t) == {i \in DOMAIN log : log[i].trans = t}

\* A call returns success only after the other end has completed a message on
\* the slot of the call (not always the message of that call, see
\* SuccessMeansDelivered).
SuccessBacked ==
  \A m \in Messages : result[m] = "ok" => Completed(slotOf[m]) # {}

\* While one call only has used a slot, whatever is completed on the slot is the
\* message of that call, whole, in order and with nothing added: the test
\* `needLength <= readLength' of Save is enough then, under loss, duplication
\* and reordering.
FreshSlotIntact ==
  \A m \in Messages :
    (\A n \in Messages \ {m} : slotOf[n] # slotOf[m]) =>
      \A i \in Completed(slotOf[m]) : log[i].body = Whole(m)

\* What a "not completed" reply tells the sender to write again (the missing
\* order ids, and all those after the largest) is what the receiver lacks,
\* neither less nor more.
RetransmissionComplete ==
  \A t \in TransIDs :
    rl[t] # <<>> /\ ~rl[t][1].completed =>
      GetMissing(rl[t][1]) \cup {i \in OrderIDs : i > rl[t][1].largest}
        = OrderIDs \ DOMAIN rl[t][1].body

\* Every call of SendMsg returns, however often segments are lost and whether or
\* not the connection is closed, unless the receive loop hangs in handleRep.
SendReturns == \A m \in Messages : <>(pc[m] = "done" \/ blocked # NoMsg)

\* The message of which the receiver has put together exactly the bytes.
MessageOf(body) ==
  IF \E m \in Messages : body = Whole(m)
  THEN CHOOSE m \in Messages : body = Whole(m)
  ELSE NoMsg

RC == INSTANCE ReliableChannel WITH
  call <- [m \in Messages |-> CASE pc[m] = "idle" -> "new"
                                 [] pc[m] = "done" -> IF result[m] = "ok" THEN "ok"
                                                                          ELSE "failed"
                                 [] OTHER          -> "sending"],
  delivered <- [i \in DOMAIN log |-> MessageOf(log[i].body)]

\* Without loss, duplication or reordering the transport is a reliable channel,
\* although slots are used again and again and retries come too early.
ImplementsChannel == RC!Channel

-------------------------------------------------------------------------------
\* Statements of the repository that the code does not keep.

\* "waiting message received success" (udp.go:616): a nil error says that the
\* message of the call was received.
SuccessMeansDelivered ==
  \A m \in Messages : result[m] = "ok" => \E i \in DOMAIN log : log[i].body = Whole(m)

\* What RecvMsg returns is a message somebody sent ("msg is mismatch",
\* udp_test.go:124).
OnlySentMessages ==
  \A i \in DOMAIN log : \E m \in Messages : log[i].body = Whole(m)

\* The messages of one slot, each sent after the one before has returned, are
\* read in the order they were sent (udp_test.go:210 compares the digest of what
\* one Write wrote as several messages and of what the Reads returned).
ReadInOrder ==
  \A i, j \in DOMAIN got :
    i < j /\ log[got[i]].trans = log[got[j]].trans => got[i] < got[j]
===============================================================================
