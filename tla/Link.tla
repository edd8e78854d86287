--------------------------------- MODULE Link ---------------------------------
(***************************************************************************)
(* The life of one Link: link/link.go.                                     *)
(*                                                                         *)
(* Four kinds of goroutines share a link: the owner, who binds it to a     *)
(* connection, waits until the binding is over, and binds it again or      *)
(* closes it; the receive loop and the send loop of each binding; and      *)
(* keepalive, which newLink starts.  They meet in the outbound channel     *)
(* (one message), in stopCh and wg, which Bind makes and Wait sets to nil, *)
(* in shutdownCh, and in the table of pings.  A panic in any of them ends  *)
(* the process.                                                            *)
(*                                                                         *)
(* The other end answers ping requests, sends requests of its own, may     *)
(* fall silent and may break the connection.  Messages of sessions and     *)
(* tunnels are left to the modules of those; one the managers refuse       *)
(* appears here as "bad".  Panics inside the managers, and those a         *)
(* sync.WaitGroup that is used wrongly raises of itself, are left out.     *)
(***************************************************************************)
EXTENDS Integers, Sequences, FiniteSets

CONSTANTS
  MaxBinds,   \* bound: how often the link is bound
  ConnCap,    \* messages a connection buffers in each direction
  MaxID,      \* bound: ping ids in use at the same time
  Faults      \* what may go wrong: "silent" the other end neither reads nor writes
              \* any more, "broken" the connection fails, "bad" a message is refused,
              \* "empty" a message has no bytes

ASSUME BindsAssumption == MaxBinds \in Nat \ {0}
ASSUME ConnAssumption  == ConnCap \in Nat \ {0}
ASSUME IDAssumption    == MaxID \in Nat \ {0}
ASSUME FaultAssumption == Faults \subseteq {"silent", "broken", "bad", "empty"}

Bindings  == 1 .. MaxBinds
IDs       == 1 .. MaxID
Owner     == <<"owner", 0>>
Keepalive == <<"keepalive", 0>>
Recv(b)   == <<"recv", b>>
Send(b)   == <<"send", b>>
Pingers   == {Owner, Keepalive}
Loops     == {Recv(b) : b \in Bindings} \cup {Send(b) : b \in Bindings}

VARIABLES
  pc,         \* where each goroutine is
  held,       \* the message each send loop has taken from outbound
  conn,       \* the connection of each binding: state, messages to and from the other end
  outbound,   \* Link.outbound
  closing,    \* how far Close is: 1 shutdownCh is closed, 2 outbound too
  stopCh,     \* Link.stopCh: the binding that made it, 0: nil
  stopper,    \* who closed the stopCh of each binding
  wg,         \* Link.wg: the binding that made it, 0: nil
  count,      \* the counter of each WaitGroup
  left,       \* bindings whose Wait returned: "quiet", or "early" when a loop of
              \* the binding had not been started by then
  ping,       \* the Ping the owner and keepalive are in: its id, whether its channel
              \* is closed, whether the other end has answered it
  pings,      \* Link.pings: the ids in the table
  crashed     \* the panic that ended the process

stops == <<stopCh, stopper>>
waits == <<wg, count, left>>
table == <<ping, pings>>
vars  == <<pc, held, conn, outbound, closing, stops, waits, table, crashed>>

Request(i)  == [type |-> "request", id |-> i]
Response(i) == [type |-> "response", id |-> i]
PeerID      == 0                       \* the id of a request of the other end
Nothing     == [type |-> "none", id |-> 0]
NoPing      == [id |-> 0, told |-> FALSE, answered |-> FALSE]
NoCrash     == [what |-> "no", who |-> "nobody"]

Goto(p, l)     == pc' = [pc EXCEPT ![p] = l]
Panic(what, p) == crashed' = [what |-> what, who |-> p[1]]
Alive          == crashed = NoCrash
Bound          == Cardinality({b \in Bindings : conn[b].state # "none"})

-------------------------------------------------------------------------------
\* Stop: the test and the close are two steps, both of the stopCh of their time.

IsStopped == stopCh # 0 /\ stopper[stopCh] # "nobody"

AfterStop(p) == CASE p = Owner -> "forget" [] p = Keepalive -> "sleep" [] OTHER -> "finish"

CloseStopCh(p) ==
  IF stopCh = 0 \/ IsStopped
  THEN /\ Panic(IF stopCh = 0 THEN "close of nil" ELSE "close of closed", p)
       /\ UNCHANGED stops
  ELSE stopper' = [stopper EXCEPT ![stopCh] = p[1]] /\ UNCHANGED <<stopCh, crashed>>

StopUntested(p) ==                     \* mistake: no test
  /\ pc[p] = "stop"
  /\ CloseStopCh(p)
  /\ Goto(p, AfterStop(p))
  /\ UNCHANGED <<held, conn, outbound, closing, waits, table>>

Stop(p) ==
  /\ \/ /\ pc[p] = "stop"
        /\ Goto(p, IF IsStopped THEN AfterStop(p) ELSE "close")
        /\ UNCHANGED <<stops, crashed>>
     \/ /\ pc[p] = "close"
        /\ CloseStopCh(p)
        /\ Goto(p, AfterStop(p))
  /\ UNCHANGED <<held, conn, outbound, closing, waits, table>>

-------------------------------------------------------------------------------
\* Ping.

IdsOf(s) == {s[i].id : i \in DOMAIN s}
InFlight == IdsOf(outbound) \cup {held[b].id : b \in Bindings}
            \cup UNION {IdsOf(conn[b].out) \cup IdsOf(conn[b].in) : b \in Bindings}

FreshForgetful == IDs \ pings       \* mistake: pingID is only compared with the table

\* pingID grows, so an id is new: here one that is used nowhere any more.
Fresh == IDs \ (pings \cup InFlight \cup {ping[p].id : p \in Pingers})
NewID == CHOOSE i \in Fresh : TRUE

\* id := l.pingID; l.pingID++; l.pings[id] = ch
Register(p) ==
  /\ Fresh # {}
  /\ ping' = [ping EXCEPT ![p] = [NoPing EXCEPT !.id = NewID]]
  /\ pings' = pings \cup {NewID}

\* Where the goroutine goes on after its Ping: Bind returns; keepalive, after a Ping
\* that failed, ends a link that was idle for too long when it looked before the Ping.
AfterPing(p, ok) == CASE p = Owner       -> {"bound"}
                 [] p = Keepalive -> IF ok THEN {"sleep"} ELSE {"sleep", "stop"}

Return(p, ok) ==
  /\ ping' = [ping EXCEPT ![p] = NoPing]
  /\ \E l \in AfterPing(p, ok) : Goto(p, l)

\* l.outbound <- request, outside of the select
PutRequest(p) ==
  /\ pc[p] = "put"
  /\ IF closing = 2
     THEN Panic("send on closed", p) /\ UNCHANGED outbound
     ELSE outbound = <<>> /\ outbound' = <<Request(ping[p].id)>> /\ UNCHANGED crashed
  /\ Goto(p, "wait")
  /\ UNCHANGED <<held, conn, closing, stops, waits, table>>

\* <-ch, or <-l.shutdownCh, which leaves the entry in the table
PingWoken(p) ==
  /\ pc[p] = "wait"
  /\ \/ ping[p].told /\ Return(p, TRUE)
     \/ closing > 0 /\ Return(p, FALSE)
  /\ UNCHANGED <<held, conn, outbound, closing, stops, waits, pings, crashed>>

PingPatient(p) == FALSE                \* mistake: no timeout

\* mistake: the entry stays in the table
PingTimeoutLeaks(p) ==
  /\ pc[p] = "wait" /\ Return(p, FALSE)
  /\ UNCHANGED <<held, conn, outbound, closing, stops, waits, pings, crashed>>

\* time.After(ConnectionWriteTimeout): delete(l.pings, id)
PingTimeout(p) ==
  /\ pc[p] = "wait" /\ Return(p, FALSE)
  /\ pings' = pings \ {ping[p].id}
  /\ UNCHANGED <<held, conn, outbound, closing, stops, waits, crashed>>

-------------------------------------------------------------------------------
\* The owner: Bind; Wait; Bind or Close (test/common.go), or Bind; Close (example/tcp).

\* Makes wg and stopCh, starts both loops and registers the first Ping.  Bound: the
\* link is not bound again when Wait returned before a loop was started.
Bind ==
  /\ pc[Owner] = "unbound" /\ Bound < MaxBinds
  /\ \A b \in Bindings : left[b] # "early"
  /\ LET b == Bound + 1
     IN  /\ wg' = b /\ stopCh' = b
         /\ conn' = [conn EXCEPT ![b].state = "live"]
         /\ pc' = [pc EXCEPT ![Owner] = "put", ![Recv(b)] = "start", ![Send(b)] = "start"]
  /\ Register(Owner)
  /\ UNCHANGED <<held, outbound, closing, stopper, count, left, crashed>>

\* l.wg.Wait(); l.wg = nil; then Stop
Wait ==
  /\ pc[Owner] = "bound" /\ count[wg] = 0
  /\ wg' = 0
  /\ left' = [left EXCEPT ![wg] =
                IF "start" \in {pc[Recv(wg)], pc[Send(wg)]} THEN "early" ELSE "quiet"]
  /\ Goto(Owner, "stop")
  /\ UNCHANGED <<held, conn, outbound, closing, stops, count, table, crashed>>

\* l.stopCh = nil
Forget ==
  /\ pc[Owner] = "forget"
  /\ stopCh' = 0
  /\ Goto(Owner, "unbound")
  /\ UNCHANGED <<held, conn, outbound, closing, stopper, waits, table, crashed>>

\* close(l.shutdownCh), then close(l.outbound); the managers have their own modules
Close ==
  /\ \/ /\ pc[Owner] = "unbound" \/ (pc[Owner] = "bound" /\ Bound = 1)
        /\ closing = 0 /\ Goto(Owner, "closing")
     \/ pc[Owner] = "closing" /\ Goto(Owner, "closed")
  /\ closing' = closing + 1
  /\ UNCHANGED <<held, conn, outbound, stops, waits, table, crashed>>

-------------------------------------------------------------------------------
\* keepalive.

\* The timer fires and idle is larger than KeepaliveInterval: Ping.  Time passes at
\* any rate between two steps, so the two limits of idle are left open.
KeepaliveWake ==
  /\ pc[Keepalive] = "sleep"
  /\ Register(Keepalive)
  /\ Goto(Keepalive, "put")
  /\ UNCHANGED <<held, conn, outbound, closing, stops, waits, crashed>>

\* <-l.shutdownCh
KeepaliveExit ==
  /\ pc[Keepalive] = "sleep" /\ closing > 0
  /\ Goto(Keepalive, "exit")
  /\ UNCHANGED <<held, conn, outbound, closing, stops, waits, table, crashed>>

-------------------------------------------------------------------------------
\* Both loops: wg is read when the goroutine runs, not when Bind made it.

Count(p, n) ==
  IF wg = 0 THEN Panic("nil wg", p) /\ UNCHANGED count
  ELSE count' = [count EXCEPT ![wg] = @ + n] /\ UNCHANGED crashed

\* mistake: wg.Add is missing
StartUncounted(p) ==
  /\ pc[p] = "start"
  /\ Goto(p, IF p[1] = "recv" THEN "read" ELSE "select")
  /\ UNCHANGED <<held, conn, outbound, closing, stops, waits, table, crashed>>

\* l.wg.Add(1)
Start(p) ==
  /\ pc[p] = "start"
  /\ Count(p, 1)
  /\ Goto(p, IF p[1] = "recv" THEN "read" ELSE "select")
  /\ UNCHANGED <<held, conn, outbound, closing, stops, wg, left, table>>

\* l.wg.Done()
Finish(p) ==
  /\ pc[p] = "finish"
  /\ Count(p, -1)
  /\ Goto(p, "done")
  /\ UNCHANGED <<held, conn, outbound, closing, stops, wg, left, table>>

-------------------------------------------------------------------------------
\* The receive loop of binding b.

\* mistake: whoever waits is told
HandlePingAnyID(i) ==
  /\ pings' = {}
  /\ ping' = [p \in Pingers |-> [ping[p] EXCEPT !.told = ping[p].id # 0]]

\* handlePing: who waits for this id is told, once; other ids are ignored.
HandlePing(i) ==
  /\ pings' = pings \ {i}
  /\ ping' = [p \in Pingers |->
                [ping[p] EXCEPT !.told = @ \/ (i \in pings /\ ping[p].id = i)]]

\* conn.Recv returns a response: handlePing.
ReceiveResponse(b) ==
  /\ pc[Recv(b)] = "read" /\ conn[b].in # <<>>
  /\ HandlePing(Head(conn[b].in).id)
  /\ conn' = [conn EXCEPT ![b].in = Tail(@)]
  /\ UNCHANGED <<pc, held, outbound, closing, stops, waits, crashed>>

\* conn.Recv returns a message the other end sends of its own accord: a request,
\* which is answered, a message that is refused, which ends the loop, or one without
\* a byte, for which m[0] panics (conn.Send makes it of one of k * 2^16 bytes).
ReceiveOther(b) ==
  /\ pc[Recv(b)] = "read" /\ conn[b].state = "live"
  /\ \/ Goto(Recv(b), "reply") /\ UNCHANGED crashed
     \/ "bad" \in Faults /\ Goto(Recv(b), "stop") /\ UNCHANGED crashed
     \/ "empty" \in Faults /\ Panic("empty message", Recv(b)) /\ UNCHANGED pc
  /\ UNCHANGED <<held, conn, outbound, closing, stops, waits, table>>

NotStopped == "finish"              \* mistake: the send loop is not told

\* notice send
NoticeSend == "stop"

\* conn.Recv returns an error.
RecvError(b) ==
  /\ pc[Recv(b)] = "read" /\ conn[b].state \in {"broken", "closed"}
  /\ Goto(Recv(b), NoticeSend)
  /\ UNCHANGED <<held, conn, outbound, closing, stops, waits, table, crashed>>

\* l.outbound <- response
Reply(b) ==
  /\ pc[Recv(b)] = "reply"
  /\ IF closing = 2
     THEN Panic("send on closed", Recv(b)) /\ UNCHANGED outbound
     ELSE outbound = <<>> /\ outbound' = <<Response(PeerID)>> /\ UNCHANGED crashed
  /\ Goto(Recv(b), "read")
  /\ UNCHANGED <<held, conn, closing, stops, waits, table>>

-------------------------------------------------------------------------------
\* The send loop of binding b.

\* The receive loop of the other end takes m, and answers a request.
CanTake(c, m) == m.type = "request" => Len(c.in) < ConnCap

Taken(b, c, m) ==
  IF m.type = "request"
  THEN /\ conn' = [conn EXCEPT ![b] = [c EXCEPT !.in = Append(@, Response(m.id))]]
       /\ ping' = [p \in Pingers |-> [ping[p] EXCEPT !.answered = @ \/ ping[p].id = m.id]]
  ELSE conn' = [conn EXCEPT ![b] = c] /\ UNCHANGED ping

HasRoom(b) == Len(conn[b].out) < ConnCap
Seen(b, m) == IF conn[b].state = "live" THEN m ELSE Nothing

\* conn.Send(m): fails when the connection does.  A message for a live end that
\* has read everything before it is taken and answered at once.
ConnSend(b, m) ==
  \/ /\ conn[b].state \in {"live", "silent"} /\ HasRoom(b)
     /\ IF conn[b].state = "live" /\ conn[b].out = <<>> /\ CanTake(conn[b], m)
        THEN Taken(b, conn[b], m)
        ELSE conn' = [conn EXCEPT ![b].out = Append(@, Seen(b, m))] /\ UNCHANGED ping
     /\ Goto(Send(b), "select")
  \/ /\ conn[b].state = "broken"
     /\ Goto(Send(b), "quit")
     /\ UNCHANGED <<conn, ping>>

\* m := <-l.outbound; a closed outbound is drained and then yields nil.
TakeOutbound(b) ==
  /\ pc[Send(b)] = "select"
  /\ \/ /\ outbound # <<>>
        /\ \/ ConnSend(b, Head(outbound)) /\ UNCHANGED held
           \/ /\ conn[b].state \in {"live", "silent"} /\ ~HasRoom(b)
              /\ held' = [held EXCEPT ![b] = Seen(b, Head(outbound))]
              /\ Goto(Send(b), "write")
              /\ UNCHANGED <<conn, ping>>
        /\ outbound' = <<>>
     \/ /\ outbound = <<>> /\ closing = 2
        /\ Goto(Send(b), "quit")
        /\ UNCHANGED <<held, outbound, conn, ping>>
  /\ UNCHANGED <<closing, stops, waits, pings, crashed>>

\* conn.Send waits for room.
WriteConn(b) ==
  /\ pc[Send(b)] = "write"
  /\ ConnSend(b, held[b])
  /\ held' = [held EXCEPT ![b] = Nothing]
  /\ UNCHANGED <<outbound, closing, stops, waits, pings, crashed>>

\* <-l.stopCh, <-l.shutdownCh
HearStop(b) ==
  /\ pc[Send(b)] = "select" /\ (IsStopped \/ closing > 0)
  /\ Goto(Send(b), "quit")
  /\ UNCHANGED <<held, conn, outbound, closing, stops, waits, table, crashed>>

\* mistake: the connection stays open
QuitOnly(b) ==
  /\ pc[Send(b)] = "quit"
  /\ Goto(Send(b), "finish")
  /\ UNCHANGED <<held, conn, outbound, closing, stops, waits, table, crashed>>

\* conn.Close()
CloseConn(b) ==
  /\ pc[Send(b)] = "quit"
  /\ conn' = [conn EXCEPT ![b] = [state |-> "closed", out |-> <<>>, in |-> <<>>]]
  /\ Goto(Send(b), "finish")
  /\ UNCHANGED <<held, outbound, closing, stops, waits, table, crashed>>

-------------------------------------------------------------------------------
\* The other end and the connection.

PeerTakes(b) ==
  /\ conn[b].state = "live" /\ conn[b].out # <<>>
  /\ LET m == Head(conn[b].out)
         c == [conn[b] EXCEPT !.out = Tail(@)]
     IN  CanTake(c, m) /\ Taken(b, c, m)
  /\ UNCHANGED <<pc, held, outbound, closing, stops, waits, pings, crashed>>

\* What is on its way when the connection fails is lost; what a silent end has not
\* read is not told apart.
Fail(b, how) ==
  /\ how \in Faults
  /\ conn[b].state = "live" \/ (conn[b].state = "silent" /\ how = "broken")
  /\ conn' = [conn EXCEPT ![b] =
       IF how = "broken" THEN [state |-> how, out |-> <<>>, in |-> <<>>]
       ELSE [state |-> how, out |-> [i \in DOMAIN conn[b].out |-> Nothing], in |-> conn[b].in]]
  /\ held' = [held EXCEPT ![b] = Nothing]
  /\ UNCHANGED <<pc, outbound, closing, stops, waits, table, crashed>>

-------------------------------------------------------------------------------
Init ==
  /\ pc = [p \in Pingers \cup Loops |->
             CASE p = Owner -> "unbound" [] p = Keepalive -> "sleep" [] OTHER -> "none"]
  /\ held = [b \in Bindings |-> Nothing]
  /\ conn = [b \in Bindings |-> [state |-> "none", out |-> <<>>, in |-> <<>>]]
  /\ outbound = <<>> /\ closing = 0
  /\ stopCh = 0 /\ stopper = [b \in Bindings |-> "nobody"]
  /\ wg = 0 /\ count = [b \in Bindings |-> 0] /\ left = [b \in Bindings |-> "no"]
  /\ ping = [p \in Pingers |-> NoPing] /\ pings = {}
  /\ crashed = NoCrash

RecvLoop(b) == Start(Recv(b)) \/ ReceiveResponse(b) \/ ReceiveOther(b) \/ RecvError(b) \/ Reply(b) \/ Stop(Recv(b)) \/ Finish(Recv(b))
SendLoop(b) == Start(Send(b)) \/ TakeOutbound(b) \/ WriteConn(b) \/ HearStop(b) \/ CloseConn(b) \/ Finish(Send(b))
Ping(p)     == PutRequest(p) \/ PingWoken(p) \/ PingTimeout(p)
Waiting     == Wait \/ Stop(Owner) \/ Forget
KeepAlive   == KeepaliveWake \/ Stop(Keepalive) \/ KeepaliveExit

Next ==
  /\ Alive
  /\ \/ Bind \/ Waiting \/ Close \/ KeepAlive
     \/ \E p \in Pingers : Ping(p)
     \/ \E b \in Bindings :
          \/ RecvLoop(b) \/ SendLoop(b) \/ PeerTakes(b)
          \/ \E how \in {"silent", "broken"} : Fail(b, how)

Spec == Init /\ [][Next]_vars

Silence == \E b \in Bindings : conn[b].state = "silent"

\* What is runnable runs and timers fire.  Senders that wait for a channel are
\* served in turn.  A select that finds stopCh closed again and again takes it once,
\* since it chooses at random.  While the other end is silent idle exceeds first
\* KeepaliveInterval, then maxLinkIdle.  Nobody has to bind, to close or to break
\* anything.
FairSpec ==
  /\ Spec
  /\ WF_vars(Alive /\ (Waiting \/ Ping(Owner)))
  /\ WF_vars(Alive /\ (Stop(Keepalive) \/ KeepaliveExit \/ Ping(Keepalive)))
  /\ WF_vars(Alive /\ KeepaliveWake /\ Silence)
  /\ SF_vars(Alive /\ PingTimeout(Keepalive) /\ pc'[Keepalive] = "stop" /\ Silence)
  /\ SF_vars(Alive /\ PutRequest(Owner))
  /\ \A b \in Bindings : /\ WF_vars(Alive /\ RecvLoop(b)) /\ WF_vars(Alive /\ SendLoop(b))
                         /\ WF_vars(Alive /\ PeerTakes(b)) /\ SF_vars(Alive /\ HearStop(b))

-------------------------------------------------------------------------------
\* Properties.

Labels == {"none", "start", "unbound", "put", "wait", "bound", "stop", "close", "forget", "closing",
           "closed", "sleep", "exit", "read", "reply", "select", "write", "quit", "finish", "done"}
Messages == [type : {"request", "response"}, id : IDs \cup {0}]

\* Type correctness; no queue exceeds its capacity, no WaitGroup goes below zero.
TypeOK ==
  /\ pc \in [Pingers \cup Loops -> Labels]
  /\ held \in [Bindings -> Messages \cup {Nothing}]
  /\ conn \in [Bindings -> [state : {"none", "live", "silent", "broken", "closed"},
                           out : Seq(Messages \cup {Nothing}), in : Seq(Messages)]]
  /\ \A b \in Bindings : Len(conn[b].out) <= ConnCap /\ Len(conn[b].in) <= ConnCap
  /\ outbound \in Seq(Messages) /\ Len(outbound) <= 1 /\ closing \in 0 .. 2
  /\ stopCh \in Bindings \cup {0} /\ wg \in Bindings \cup {0}
  /\ stopper \in [Bindings -> {"nobody", "owner", "keepalive", "recv"}]
  /\ count \in [Bindings -> 0 .. 2 * MaxBinds]
  /\ left \in [Bindings -> {"no", "quiet", "early"}]
  /\ ping \in [Pingers -> [id : IDs \cup {0}, told : BOOLEAN, answered : BOOLEAN]]
  /\ pings \subseteq IDs
  /\ crashed \in [what : {"no", "close of nil", "close of closed", "send on closed", "nil wg",
                          "empty message"},
                  who : {"nobody", "owner", "keepalive", "recv", "send"}]

Early == \E b \in Bindings : left[b] = "early"

\* The panics the lifecycle can end in, and who has to be in them: stopCh is only
\* closed twice when keepalive is one of the two, and it is keepalive that closes
\* a nil stopCh, while the link is not bound; a message is only sent on a closed
\* outbound by keepalive, or by a receive loop the owner has not waited for; wg is
\* only nil for a loop that Wait did not know of; and a receive loop whose binding is
\* not over panics on an empty message, if there are any.  Loops that start after Wait
\* (Early) may run into all of them.  (Of the panics in link.go itself: those of the
\* managers and the ones sync.WaitGroup raises when Add meets Wait are not modelled.)
OnlyTheseRacesPanic ==
  LET keepalive == crashed.who = "keepalive"
      what      == crashed.what
  IN  \/ Early
      \/ what = "no"
      \/ what = "close of closed" /\ (keepalive \/ stopper[stopCh] = "keepalive")
      \/ what = "close of nil" /\ keepalive /\ wg = 0
      \/ what = "send on closed" /\ (keepalive \/ (crashed.who = "recv" /\ left[Bound] = "no"))
      \/ what = "empty message" /\ crashed.who = "recv" /\ left[Bound] = "no" /\ "empty" \in Faults

\* When Wait has returned, both loops of the binding are at their end and its
\* connection is closed, whatever ended the binding; so a later binding never
\* shares the link with a loop of an earlier one.  The exception is a loop that
\* had not been started when Wait looked (wg.Add runs inside the goroutine).
WaitMeansQuiet ==
  \A b \in Bindings : left[b] = "quiet" =>
    pc[Recv(b)] = "done" /\ pc[Send(b)] = "done" /\ conn[b].state = "closed"

\* A Ping succeeds only when the other end has answered its own request: neither
\* the late answer to a Ping that timed out nor a request that waited in outbound
\* for the next binding completes another Ping.
PingIsOwn == \A p \in Pingers : ping[p].told => ping[p].answered

\* The table and the Pings agree: who waits can be told, two Pings have two ids,
\* and until the link is closed nothing is in the table that nobody waits for.
PingTable ==
  /\ \A p \in Pingers : ping[p].id # 0 /\ ~ping[p].told => ping[p].id \in pings
  /\ ping[Owner].id # 0 => ping[Owner].id # ping[Keepalive].id
  /\ closing = 0 => pings \subseteq {ping[p].id : p \in Pingers}

Ended(b) == pc[Recv(b)] = "done" /\ pc[Send(b)] = "done"

\* The send loop hangs in conn.Send: the other end does not read, be it silent or
\* be it that it cannot write because this end does not read either.
SendStuck(b) == pc[Send(b)] = "write" /\ (conn[b].state = "silent" \/ pc[Recv(b)] # "read")

\* The receive loop waits for room in outbound and the send loop is gone.
RecvStuck(b) == pc[Recv(b)] = "reply" /\ outbound # <<>> /\ pc[Send(b)] = "done"

\* A binding that was stopped, whose connection failed or has fallen silent, or whose
\* link was closed; it stays so.
Ending(b) ==
  \/ stopper[b] # "nobody"
  \/ conn[b].state \in {"silent", "broken", "closed"}
  \/ closing > 0 /\ b = Bound

\* A binding that is Ending comes to its end: each loop ends the other, and keepalive
\* notices a silence.  It does not when a loop hangs as SendStuck and RecvStuck say: no
\* timeout covers conn.Send, and keepalive itself then waits for outbound.
BindingEnds ==
  []<>(\A b \in Bindings :
         Ending(b) => Ended(b) \/ SendStuck(b) \/ RecvStuck(b) \/ ~Alive \/ Early)

\* Bind, which waits for its first Ping, returns: again and again the owner is not in it,
\* unless its request finds outbound full and the send loop hanging or gone.
BindReturns ==
  []<>(pc[Owner] \in {"put", "wait"} =>
         \/ ~Alive \/ Early
         \/ \E b \in Bindings :
              b = Bound /\ (SendStuck(b) \/ (outbound # <<>> /\ pc[Send(b)] = "done")))
===============================================================================
