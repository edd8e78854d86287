------------------------------- MODULE LinkProofs -------------------------------
(***************************************************************************)
(* Proofs about Link for any number of bindings and of ping ids, any       *)
(* capacity of the connections and every kind of fault.                    *)
(***************************************************************************)
EXTENDS Link, FiniteSetTheorems, SequenceTheorems, TLAPS

-------------------------------------------------------------------------------
\* The inductive invariant.

\* Who is in a Ping has an id, an entry that has been told is not in the table any
\* more, and whoever has the id of a response on its way has been answered.
PingOK ==
  /\ \A p \in Pingers : /\ ping[p].id # 0 <=> pc[p] \in {"put", "wait"}
                        /\ ping[p].told => ping[p].id \notin pings
  /\ \A b \in Bindings : \A k \in DOMAIN conn[b].in : \A p \in Pingers :
       ping[p].id # 0 /\ ping[p].id = conn[b].in[k].id => ping[p].answered
  /\ PingIsOwn /\ PingTable

Active(l)  == IF l \in {"none", "start", "done"} THEN 0 ELSE 1
Runs(b)    == pc[Recv(b)] \notin {"none", "done"} \/ pc[Send(b)] \notin {"none", "done"}

\* What is known of binding b: its WaitGroup counts its loops that run, they run on
\* the wg and the stopCh of their binding unless Wait did not know of them, the send
\* loop closes the connection, and nobody but keepalive closes the stopCh before a
\* receive loop that is about to.
BindingOK(b) ==
  LET recv == pc[Recv(b)]
      send == pc[Send(b)]
  IN  /\ recv \in {"none", "start", "read", "reply", "stop", "close", "finish", "done"}
      /\ send \in {"none", "start", "select", "write", "quit", "finish", "done"}
      /\ conn[b].state = "none" <=> Bound < b
      /\ recv = "none" <=> Bound < b
      /\ send = "none" <=> Bound < b
      /\ send \in {"finish", "done"} => conn[b].state = "closed"
      /\ count[b] = Active(recv) + Active(send)
      /\ Runs(b) => wg = b \/ left[b] = "early"
      /\ left[b] = "no" <=> (Bound < b \/ wg = b)
      /\ left[b] = "early" => b = Bound
      /\ left[b] = "quiet" => recv = "done" /\ send = "done"
      /\ recv = "close" => stopper[b] \in {"nobody", "keepalive"} \/ left[b] = "early"

\* Where the owner is, and what wg, stopCh and closing are then.
OwnerOK ==
  LET owner == pc[Owner]
  IN  /\ owner \in {"unbound", "put", "wait", "bound", "stop", "close", "forget", "closing", "closed"}
      /\ wg \in {0, Bound} /\ stopCh \in {0, Bound}
      /\ owner = "unbound" => wg = 0 /\ stopCh = 0
      /\ owner \in {"put", "wait", "bound"} => wg = Bound /\ stopCh = Bound /\ Bound # 0
      /\ owner \in {"stop", "close", "forget"} => wg = 0 /\ stopCh = Bound /\ Bound # 0
      /\ owner \in {"closing", "closed"} => wg = stopCh
      /\ owner = "close" => stopper[stopCh] \in {"nobody", "keepalive"} \/ Early
      /\ closing = CASE owner = "closing" -> 1 [] owner = "closed" -> 2 [] OTHER -> 0

LifeOK ==
  /\ Bound \in 0 .. MaxBinds
  /\ \A b \in Bindings : BindingOK(b)
  /\ OwnerOK
  /\ pc[Keepalive] \in {"sleep", "put", "wait", "stop", "close", "exit"}

IInv ==
  TypeOK /\ PingOK /\ WaitMeansQuiet /\ OnlyTheseRacesPanic /\ (Alive => LifeOK)

-------------------------------------------------------------------------------
\* Goroutines and labels.

Goroutines == Pingers \cup Loops

LEMMA Goroutine ==
  /\ Owner \in Goroutines /\ Keepalive \in Goroutines /\ Owner # Keepalive
  /\ Pingers = {Owner, Keepalive} /\ Owner[1] = "owner" /\ Keepalive[1] = "keepalive"
  /\ \A b \in Bindings :
       /\ Recv(b) \in Goroutines /\ Send(b) \in Goroutines
       /\ Recv(b)[1] = "recv" /\ Send(b)[1] = "send"
       /\ Recv(b) \notin Pingers /\ Send(b) \notin Pingers
       /\ \A c \in Bindings : /\ Recv(b) # Send(c)
                              /\ b # c => Recv(b) # Recv(c) /\ Send(b) # Send(c)
  BY DEF Goroutines, Owner, Keepalive, Pingers, Loops, Recv, Send

LEMMA GotoOK ==
  ASSUME TypeOK, NEW p \in Goroutines, NEW l \in Labels, Goto(p, l)
  PROVE  /\ pc' \in [Goroutines -> Labels] /\ pc'[p] = l
         /\ \A q \in Goroutines \ {p} : pc'[q] = pc[q]
  BY DEF TypeOK, Goto, Goroutines

LEMMA BoundSame ==
  ASSUME \A b \in Bindings : conn'[b].state = "none" <=> conn[b].state = "none"
  PROVE  Bound' = Bound
<1>1. {b \in Bindings : conn'[b].state # "none"} = {b \in Bindings : conn[b].state # "none"}
  OBVIOUS
<1> QED
  BY <1>1 DEF Bound

\* One binding after the other has a connection.
LEMMA BoundMore ==
  ASSUME Bound \in 0 .. MaxBinds, Bound < MaxBinds,
         \A b \in Bindings : conn[b].state = "none" <=> Bound < b,
         \A b \in Bindings : conn'[b].state = "none" <=> Bound + 1 < b
  PROVE  Bound' = Bound + 1
<1>1. {b \in Bindings : conn'[b].state # "none"} = 1 .. Bound + 1
  BY BindsAssumption DEF Bindings
<1>2. Cardinality(1 .. Bound + 1) = Bound + 1
  BY FS_Interval
<1> QED
  BY <1>1, <1>2 DEF Bound

\* A step that leaves everything BindingOK(b) speaks of alone.
SameAt(b) ==
  /\ pc'[Recv(b)] = pc[Recv(b)] /\ pc'[Send(b)] = pc[Send(b)]
  /\ conn'[b].state = conn[b].state /\ count'[b] = count[b] /\ left'[b] = left[b]
  /\ stopper'[b] = stopper[b]

LEMMA Elsewhere ==
  ASSUME NEW b \in Bindings, BindingOK(b), SameAt(b), wg' = wg, Bound' = Bound
  PROVE  BindingOK(b)'
  BY DEF BindingOK, SameAt, Runs, Active

LEMMA EarlySame == left' = left => (Early' <=> Early)
  BY DEF Early

\* A step that does not touch what the invariant says of a whole part.
LEMMA OwnerSame ==
  ASSUME OwnerOK, pc'[Owner] = pc[Owner], wg' = wg, stopCh' = stopCh, stopper' = stopper,
         closing' = closing, left' = left, Bound' = Bound
  PROVE  OwnerOK'
  BY EarlySame DEF OwnerOK

LEMMA PingSame ==
  ASSUME PingOK, \A p \in Pingers : pc'[p] \in {"put", "wait"} <=> pc[p] \in {"put", "wait"},
         ping' = ping, pings' = pings, closing = 0 \/ closing' # 0,
         \A b \in Bindings : conn'[b].in = conn[b].in
  PROVE  PingOK'
  BY DEF PingOK, PingIsOwn, PingTable

LEMMA Quiet ==
  ASSUME WaitMeansQuiet, left' = left,
         \A b \in Bindings : left[b] = "quiet" =>
           pc'[Recv(b)] = "done" /\ pc'[Send(b)] = "done" /\ conn'[b].state = "closed"
  PROVE  WaitMeansQuiet'
  BY DEF WaitMeansQuiet

LEMMA NoRace == Alive /\ crashed' = crashed => OnlyTheseRacesPanic'
  BY DEF Alive, NoCrash, OnlyTheseRacesPanic

-------------------------------------------------------------------------------
\* Steps of a loop that only move it.

\* The loop p of binding b moves on to l, and the rest stays.
LEMMA LoopMoves ==
  ASSUME IInv, Alive, NEW b \in Bindings, NEW p \in {Recv(b), Send(b)}, NEW l \in Labels,
         Goto(p, l), pc[p] \notin {"none", "start", "done"},
         IF p = Recv(b) THEN l \in {"read", "reply", "stop", "finish"}
                        ELSE l \in {"select", "write", "quit"}
  PROVE  /\ pc' \in [Goroutines -> Labels]
         /\ \A q \in Pingers : pc'[q] = pc[q]
         /\ \A c \in Bindings \ {b} : pc'[Recv(c)] = pc[Recv(c)] /\ pc'[Send(c)] = pc[Send(c)]
         /\ p = Recv(b) => pc'[Recv(b)] = l /\ pc'[Send(b)] = pc[Send(b)]
         /\ p = Send(b) => pc'[Send(b)] = l /\ pc'[Recv(b)] = pc[Recv(b)]
         /\ left[b] # "quiet"
         /\ \A c \in Bindings : left[c] = "quiet" => pc'[Recv(c)] = "done" /\ pc'[Send(c)] = "done"
         /\ (conn'[b].state = conn[b].state /\ count' = count /\ left' = left /\ wg' = wg
              /\ stopper' = stopper /\ Bound' = Bound) => BindingOK(b)'
<1>0. TypeOK /\ BindingOK(b) /\ \A c \in Bindings : BindingOK(c)
  BY DEF IInv, LifeOK
<1>1. p \in Goroutines
  BY Goroutine
<1>2. /\ pc' \in [Goroutines -> Labels] /\ pc'[p] = l
      /\ \A q \in Goroutines \ {p} : pc'[q] = pc[q]
  BY <1>0, <1>1, GotoOK
<1>3. /\ \A q \in Pingers : pc'[q] = pc[q]
      /\ \A c \in Bindings \ {b} : pc'[Recv(c)] = pc[Recv(c)] /\ pc'[Send(c)] = pc[Send(c)]
      /\ p = Recv(b) => pc'[Recv(b)] = l /\ pc'[Send(b)] = pc[Send(b)]
      /\ p = Send(b) => pc'[Send(b)] = l /\ pc'[Recv(b)] = pc[Recv(b)]
  BY <1>2, Goroutine
<1>4. left[b] # "quiet"
  BY <1>0 DEF BindingOK
<1>5. \A c \in Bindings : left[c] = "quiet" => pc'[Recv(c)] = "done" /\ pc'[Send(c)] = "done"
  BY <1>0, <1>3, <1>4 DEF BindingOK
<1>6. ASSUME conn'[b].state = conn[b].state, count' = count, left' = left, wg' = wg,
             stopper' = stopper, Bound' = Bound
      PROVE  BindingOK(b)'
  <2>1. CASE p = Recv(b)
    BY <1>0, <1>3, <1>6, <2>1 DEF BindingOK, Runs, Active
  <2>2. CASE p = Send(b) /\ p # Recv(b)
    BY <1>0, <1>3, <1>6, <2>2 DEF BindingOK, Runs, Active
  <2> QED
    BY <2>1, <2>2
<1> QED
  BY <1>2, <1>3, <1>4, <1>5, <1>6

LEMMA LifeAt ==
  ASSUME LifeOK, NEW b \in Bindings, BindingOK(b)', \A c \in Bindings \ {b} : SameAt(c),
         \A q \in Pingers : pc'[q] = pc[q], wg' = wg, stopCh' = stopCh, stopper' = stopper,
         closing' = closing, left' = left, Bound' = Bound
  PROVE  LifeOK'
<1>1. \A c \in Bindings : BindingOK(c)'
  BY Elsewhere DEF LifeOK
<1>2. OwnerOK'
  BY OwnerSame, Goroutine DEF LifeOK
<1> QED
  BY <1>1, <1>2, Goroutine DEF LifeOK

LEMMA OnlyMoves ==
  ASSUME IInv, Alive, NEW b \in Bindings, NEW p \in {Recv(b), Send(b)}, NEW l \in Labels,
         Goto(p, l), pc[p] \notin {"none", "start", "done"},
         IF p = Recv(b) THEN l \in {"read", "reply", "stop", "finish"}
                        ELSE l \in {"select", "write", "quit"},
         UNCHANGED <<held, conn, outbound, closing, stops, waits, table, crashed>>
  PROVE  IInv'
<1>0. TypeOK /\ PingOK /\ WaitMeansQuiet /\ LifeOK
  BY DEF IInv
<1>1. /\ UNCHANGED <<held, conn, outbound, closing, stopCh, stopper, wg, count, left, ping, pings, crashed>>
      /\ Bound' = Bound
  BY BoundSame DEF stops, waits, table
<1>2. /\ pc' \in [Goroutines -> Labels] /\ \A q \in Pingers : pc'[q] = pc[q]
      /\ \A c \in Bindings \ {b} : pc'[Recv(c)] = pc[Recv(c)] /\ pc'[Send(c)] = pc[Send(c)]
      /\ \A c \in Bindings : left[c] = "quiet" => pc'[Recv(c)] = "done" /\ pc'[Send(c)] = "done"
      /\ BindingOK(b)'
  BY <1>1, LoopMoves
<1>3. TypeOK'
  BY <1>0, <1>1, <1>2 DEF TypeOK, Goroutines
<1>4. PingOK'
  BY <1>0, <1>1, <1>2, PingSame
<1>5. WaitMeansQuiet'
  BY <1>0, <1>1, <1>2, Quiet DEF WaitMeansQuiet
<1>6. OnlyTheseRacesPanic'
  BY <1>1, NoRace
<1>7. LifeOK'
  BY <1>0, <1>1, <1>2, LifeAt DEF SameAt
<1> QED
  BY <1>3, <1>4, <1>5, <1>6, <1>7 DEF IInv

LEMMA RecvErrorOK ==
  ASSUME IInv, Alive, NEW b \in Bindings, RecvError(b)
  PROVE  IInv'
<1>1. "stop" \in Labels
  BY DEF Labels
<1> QED
  BY <1>1, OnlyMoves DEF RecvError, NoticeSend

LEMMA HearStopOK ==
  ASSUME IInv, Alive, NEW b \in Bindings, HearStop(b)
  PROVE  IInv'
<1>1. "quit" \in Labels /\ Send(b) # Recv(b)
  BY Goroutine DEF Labels
<1> QED
  BY <1>1, OnlyMoves DEF HearStop

-------------------------------------------------------------------------------
\* The connection.

LEMMA MessagesOK ==
  /\ Nothing \notin Messages
  /\ \A i \in IDs \cup {0} : Request(i) \in Messages /\ Response(i) \in Messages
  /\ \A i \in IDs \cup {0} : Response(i).id = i
  /\ \A m \in Messages : m.id \in IDs \cup {0}
  BY DEF Nothing, Messages, Request, Response

ConnState == [state : {"none", "live", "silent", "broken", "closed"},
              out : Seq(Messages \cup {Nothing}), in : Seq(Messages)]
PingState == [id : IDs \cup {0}, told : BOOLEAN, answered : BOOLEAN]

\* A step in which messages are sent and answered: types are kept, and whoever has the
\* id of a response on its way has been answered.
Exchanged ==
  /\ conn' \in [Bindings -> ConnState]
  /\ \A d \in Bindings : Len(conn'[d].out) <= ConnCap /\ Len(conn'[d].in) <= ConnCap
  /\ \A d \in Bindings : conn'[d].state = conn[d].state
  /\ ping' \in [Pingers -> PingState]
  /\ \A p \in Pingers : /\ ping'[p].id = ping[p].id /\ ping'[p].told = ping[p].told
                        /\ ping[p].answered => ping'[p].answered
  /\ \A d \in Bindings : \A k \in DOMAIN conn'[d].in : \A p \in Pingers :
       ping'[p].id # 0 /\ ping'[p].id = conn'[d].in[k].id => ping'[p].answered

LEMMA ConnTypes ==
  ASSUME TypeOK
  PROVE  /\ conn \in [Bindings -> ConnState] /\ ConnCap \in Nat \ {0}
         /\ \A d \in Bindings : Len(conn[d].out) <= ConnCap /\ Len(conn[d].in) <= ConnCap
         /\ ping \in [Pingers -> PingState]
  BY ConnAssumption DEF TypeOK, ConnState, PingState

\* The other end of binding b takes m.
LEMMA TakenOK ==
  ASSUME TypeOK, PingOK, NEW b \in Bindings, NEW m \in Messages \cup {Nothing},
         NEW c \in ConnState, c.state = "live", c.in = conn[b].in,
         conn[b].state = "live", Len(c.out) <= ConnCap, CanTake(c, m), Taken(b, c, m)
  PROVE  Exchanged
<1>0. /\ conn \in [Bindings -> ConnState] /\ ConnCap \in Nat
      /\ \A d \in Bindings : Len(conn[d].out) <= ConnCap /\ Len(conn[d].in) <= ConnCap
      /\ ping \in [Pingers -> PingState]
      /\ c \in ConnState /\ c.in = conn[b].in /\ c.state = "live" /\ c.in \in Seq(Messages)
  BY ConnTypes DEF ConnState
<1>1. CASE m.type = "request"
  <2> DEFINE new == Append(c.in, Response(m.id))
  <2>1. /\ conn' = [conn EXCEPT ![b] = [c EXCEPT !.in = new]]
        /\ ping' = [p \in Pingers |-> [ping[p] EXCEPT !.answered =
                      ping[p].answered \/ ping[p].id = m.id]]
        /\ Len(c.in) < ConnCap
    BY <1>1 DEF Taken, CanTake
  <2>2. /\ new \in Seq(Messages) /\ Len(new) <= ConnCap /\ DOMAIN new = 1 .. Len(c.in) + 1
        /\ \A k \in 1 .. Len(c.in) : new[k] = c.in[k]
        /\ new[Len(c.in) + 1].id = m.id /\ Len(c.in) \in Nat
    <3>1. m \in Messages
      BY <1>1 DEF Nothing
    <3>2. Response(m.id) \in Messages /\ Response(m.id).id = m.id
      BY <3>1, MessagesOK
    <3> QED
      BY <1>0, <2>1, <3>2
  <2> HIDE DEF new
  <2>3. /\ [c EXCEPT !.in = new] \in ConnState /\ [c EXCEPT !.in = new].in = new
        /\ [c EXCEPT !.in = new].out = c.out /\ [c EXCEPT !.in = new].state = "live"
    BY <1>0, <2>2 DEF ConnState
  <2>4. /\ conn' \in [Bindings -> ConnState] /\ conn'[b] = [c EXCEPT !.in = new]
        /\ \A d \in Bindings \ {b} : conn'[d] = conn[d]
    BY <1>0, <2>1, <2>3
  <2>10. conn'[b].in = new
    BY <2>3, <2>4
  <2>5. \A p \in Pingers :
          /\ ping'[p].id = ping[p].id /\ ping'[p].told = ping[p].told
          /\ ping'[p].answered <=> (ping[p].answered \/ ping[p].id = m.id)
          /\ ping'[p] \in PingState
    BY <1>0, <2>1 DEF PingState
  <2>6. ping' \in [Pingers -> PingState]
    BY <2>1, <2>5
  <2>7. \A d \in Bindings : \A k \in DOMAIN conn'[d].in : \A p \in Pingers :
          ping'[p].id # 0 /\ ping'[p].id = conn'[d].in[k].id => ping'[p].answered
    <3>1. SUFFICES ASSUME NEW d \in Bindings, NEW k \in DOMAIN conn'[d].in, NEW p \in Pingers,
                          ping'[p].id # 0, ping'[p].id = conn'[d].in[k].id
                   PROVE  ping'[p].answered
      OBVIOUS
    <3>2. CASE d = b /\ k = Len(c.in) + 1
      <4>1. conn'[d].in[k].id = m.id
        BY <2>10, <2>2, <3>2
      <4> QED
        BY <2>5, <3>1, <4>1
    <3>3. CASE ~(d = b /\ k = Len(c.in) + 1)
      <4>1. k \in DOMAIN conn[d].in /\ conn'[d].in[k] = conn[d].in[k]
        <5>1. CASE d = b
          <6>1. conn'[d].in = new /\ k \in 1 .. Len(c.in)
            BY <2>10, <2>2, <3>1, <3>3, <5>1
          <6> QED
            BY <1>0, <2>2, <5>1, <6>1
        <5>2. CASE d # b
          BY <2>4, <3>1, <5>2
        <5> QED
          BY <5>1, <5>2
      <4> QED
        BY <2>5, <3>1, <4>1 DEF PingOK
    <3> QED
      BY <3>2, <3>3
  <2>8. \A d \in Bindings : Len(conn'[d].out) <= ConnCap /\ Len(conn'[d].in) <= ConnCap
    BY <1>0, <2>2, <2>3, <2>4
  <2>9. \A d \in Bindings : conn'[d].state = conn[d].state
    BY <2>3, <2>4
  <2> QED
    BY <2>4, <2>5, <2>6, <2>7, <2>8, <2>9 DEF Exchanged
<1>2. CASE m.type # "request"
  <2>1. conn' = [conn EXCEPT ![b] = c] /\ ping' = ping
    BY <1>2 DEF Taken
  <2>2. /\ conn' \in [Bindings -> ConnState] /\ conn'[b] = c
        /\ \A d \in Bindings \ {b} : conn'[d] = conn[d]
        /\ \A d \in Bindings : conn'[d].in = conn[d].in
    BY <1>0, <2>1
  <2>3. \A d \in Bindings : Len(conn'[d].out) <= ConnCap /\ Len(conn'[d].in) <= ConnCap
    BY <1>0, <2>2
  <2>4. \A d \in Bindings : conn'[d].state = conn[d].state
    BY <1>0, <2>2
  <2>5. \A d \in Bindings : \A k \in DOMAIN conn'[d].in : \A p \in Pingers :
          ping'[p].id # 0 /\ ping'[p].id = conn'[d].in[k].id => ping'[p].answered
    BY <2>1, <2>2 DEF PingOK
  <2> QED
    BY <1>0, <2>1, <2>2, <2>3, <2>4, <2>5 DEF Exchanged
<1> QED
  BY <1>1, <1>2

\* conn.Send(m) moves the send loop on.
LEMMA ConnSendOK ==
  ASSUME TypeOK, PingOK, NEW b \in Bindings, NEW m \in Messages \cup {Nothing}, ConnSend(b, m)
  PROVE  /\ \E l \in {"select", "quit"} : Goto(Send(b), l)
         /\ Exchanged
<1>0. /\ conn \in [Bindings -> ConnState] /\ ConnCap \in Nat
      /\ \A d \in Bindings : Len(conn[d].out) <= ConnCap /\ Len(conn[d].in) <= ConnCap
      /\ ping \in [Pingers -> PingState]
      /\ conn[b] \in ConnState /\ conn[b].out \in Seq(Messages \cup {Nothing})
  BY ConnTypes DEF ConnState
<1>1. CASE /\ HasRoom(b) /\ Goto(Send(b), "select")
           /\ conn[b].state = "live" /\ CanTake(conn[b], m) /\ Taken(b, conn[b], m)
  BY <1>0, <1>1, TakenOK
<1>2. CASE /\ HasRoom(b) /\ Goto(Send(b), "select")
           /\ conn' = [conn EXCEPT ![b].out = Append(conn[b].out, Seen(b, m))] /\ UNCHANGED ping
  <2> DEFINE new == Append(conn[b].out, Seen(b, m))
  <2>1. new \in Seq(Messages \cup {Nothing}) /\ Len(new) <= ConnCap
    <3>1. Seen(b, m) \in Messages \cup {Nothing}
      BY DEF Seen
    <3> QED
      BY <1>0, <1>2, <3>1 DEF HasRoom
  <2>2. conn' = [conn EXCEPT ![b] = [conn[b] EXCEPT !.out = new]]
    BY <1>2
  <2> HIDE DEF new
  <2>3. /\ [conn[b] EXCEPT !.out = new] \in ConnState /\ [conn[b] EXCEPT !.out = new].out = new
        /\ [conn[b] EXCEPT !.out = new].in = conn[b].in
        /\ [conn[b] EXCEPT !.out = new].state = conn[b].state
    BY <1>0, <2>1 DEF ConnState
  <2>4. /\ conn' \in [Bindings -> ConnState]
        /\ \A d \in Bindings : conn'[d].in = conn[d].in /\ conn'[d].state = conn[d].state
        /\ conn'[b].out = new /\ \A d \in Bindings \ {b} : conn'[d].out = conn[d].out
    BY <1>0, <2>2, <2>3
  <2>5. \A d \in Bindings : Len(conn'[d].out) <= ConnCap /\ Len(conn'[d].in) <= ConnCap
    BY <1>0, <2>1, <2>4
  <2>6. \A d \in Bindings : \A k \in DOMAIN conn'[d].in : \A p \in Pingers :
          ping'[p].id # 0 /\ ping'[p].id = conn'[d].in[k].id => ping'[p].answered
    BY <1>2, <2>4 DEF PingOK
  <2> QED
    BY <1>0, <1>2, <2>4, <2>5, <2>6 DEF Exchanged
<1>3. CASE Goto(Send(b), "quit") /\ UNCHANGED <<conn, ping>>
  BY <1>0, <1>3 DEF Exchanged, PingOK
<1> QED
  BY <1>1, <1>2, <1>3 DEF ConnSend

LEMMA PingExchanged ==
  ASSUME PingOK, Exchanged, \A p \in Pingers : pc'[p] = pc[p], pings' = pings, closing' = closing
  PROVE  PingOK'
<1>1. \A p \in Pingers : /\ ping'[p].id = ping[p].id /\ ping'[p].told = ping[p].told
                         /\ ping[p].answered => ping'[p].answered
  BY DEF Exchanged
<1>2. PingTable'
  BY <1>1, Goroutine DEF PingOK, PingTable
<1>3. PingIsOwn'
  BY <1>1 DEF PingOK, PingIsOwn
<1>4. \A p \in Pingers : /\ ping'[p].id # 0 <=> pc'[p] \in {"put", "wait"}
                         /\ ping'[p].told => ping'[p].id \notin pings'
  BY <1>1 DEF PingOK
<1> QED
  BY <1>2, <1>3, <1>4 DEF PingOK, Exchanged

\* A loop of b exchanges messages and moves on.
LEMMA LoopExchanges ==
  ASSUME IInv, Alive, NEW b \in Bindings, NEW p \in {Recv(b), Send(b)}, NEW l \in Labels,
         Goto(p, l), pc[p] \notin {"none", "start", "done"}, Exchanged,
         IF p = Recv(b) THEN l \in {"read", "reply", "stop", "finish"}
                        ELSE l \in {"select", "write", "quit"},
         held' \in [Bindings -> Messages \cup {Nothing}],
         outbound' \in Seq(Messages), Len(outbound') <= 1,
         UNCHANGED <<closing, stops, waits, pings, crashed>>
  PROVE  IInv'
<1>0. TypeOK /\ PingOK /\ WaitMeansQuiet /\ LifeOK
  BY DEF IInv
<1>1. /\ UNCHANGED <<closing, stopCh, stopper, wg, count, left, pings, crashed>>
      /\ \A d \in Bindings : conn'[d].state = conn[d].state
  BY DEF stops, waits, Exchanged
<1>2. Bound' = Bound
  BY <1>1, BoundSame
<1>4. /\ pc' \in [Goroutines -> Labels] /\ \A q \in Pingers : pc'[q] = pc[q]
      /\ \A c \in Bindings \ {b} : pc'[Recv(c)] = pc[Recv(c)] /\ pc'[Send(c)] = pc[Send(c)]
      /\ \A c \in Bindings : left[c] = "quiet" => pc'[Recv(c)] = "done" /\ pc'[Send(c)] = "done"
      /\ BindingOK(b)'
  BY <1>1, <1>2, LoopMoves
<1>5. TypeOK'
  <2>1. conn' \in [Bindings -> [state : {"none", "live", "silent", "broken", "closed"},
                               out : Seq(Messages \cup {Nothing}), in : Seq(Messages)]]
        /\ ping' \in [Pingers -> [id : IDs \cup {0}, told : BOOLEAN, answered : BOOLEAN]]
    BY DEF Exchanged, ConnState, PingState
  <2>2. \A d \in Bindings : Len(conn'[d].out) <= ConnCap /\ Len(conn'[d].in) <= ConnCap
    BY DEF Exchanged
  <2> QED
    BY <1>0, <1>1, <1>4, <2>1, <2>2 DEF TypeOK, Goroutines
<1>6. PingOK'
  BY <1>0, <1>1, <1>4, PingExchanged
<1>7. WaitMeansQuiet'
  BY <1>0, <1>1, <1>4, Quiet DEF WaitMeansQuiet
<1>8. OnlyTheseRacesPanic'
  BY <1>1, NoRace
<1>9. LifeOK'
  BY <1>0, <1>1, <1>2, <1>4, LifeAt DEF SameAt
<1> QED
  BY <1>5, <1>6, <1>7, <1>8, <1>9 DEF IInv

\* The send loop of b exchanges messages and moves on.
LEMMA SendMoves ==
  ASSUME IInv, Alive, NEW b \in Bindings, NEW l \in {"select", "write", "quit"},
         Goto(Send(b), l), pc[Send(b)] \notin {"none", "start", "done"}, Exchanged,
         held' \in [Bindings -> Messages \cup {Nothing}],
         outbound' \in Seq(Messages), Len(outbound') <= 1,
         UNCHANGED <<closing, stops, waits, pings, crashed>>
  PROVE  IInv'
<1>1. l \in Labels /\ Send(b) # Recv(b)
  BY Goroutine DEF Labels
<1> QED
  BY <1>1, LoopExchanges

LEMMA TakeOutboundOK ==
  ASSUME IInv, Alive, NEW b \in Bindings, TakeOutbound(b)
  PROVE  IInv'
<1>0. /\ TypeOK /\ PingOK /\ outbound \in Seq(Messages) /\ Len(outbound) <= 1
      /\ held \in [Bindings -> Messages \cup {Nothing}] /\ pc[Send(b)] = "select"
      /\ conn \in [Bindings -> ConnState] /\ ping \in [Pingers -> PingState]
      /\ UNCHANGED <<closing, stops, waits, pings, crashed>>
  BY ConnTypes DEF IInv, TypeOK, TakeOutbound
<1>1. CASE outbound # <<>> /\ ConnSend(b, Head(outbound)) /\ held' = held /\ outbound' = <<>>
  <2>1. Head(outbound) \in Messages
    BY <1>0, <1>1
  <2>2. PICK l \in {"select", "quit"} : Goto(Send(b), l) /\ Exchanged
    BY <1>0, <1>1, <2>1, ConnSendOK
  <2>3. outbound' \in Seq(Messages) /\ Len(outbound') <= 1
    BY <1>1
  <2> QED
    BY <1>0, <1>1, <2>2, <2>3, SendMoves
<1>2. CASE /\ outbound # <<>> /\ held' = [held EXCEPT ![b] = Seen(b, Head(outbound))]
           /\ Goto(Send(b), "write") /\ UNCHANGED <<conn, ping>> /\ outbound' = <<>>
  <2>1. held' \in [Bindings -> Messages \cup {Nothing}]
    <3>1. Seen(b, Head(outbound)) \in Messages \cup {Nothing}
      BY <1>0, <1>2 DEF Seen
    <3> QED
      BY <1>0, <1>2, <3>1
  <2>2. Exchanged
    BY <1>0, <1>2, ConnTypes DEF Exchanged, PingOK
  <2>3. outbound' \in Seq(Messages) /\ Len(outbound') <= 1
    BY <1>2
  <2> QED
    BY <1>0, <1>2, <2>1, <2>2, <2>3, SendMoves
<1>3. CASE Goto(Send(b), "quit") /\ UNCHANGED <<held, outbound, conn, ping>>
  <2>1. Exchanged
    BY <1>0, <1>3, ConnTypes DEF Exchanged, PingOK
  <2> QED
    BY <1>0, <1>3, <2>1, SendMoves
<1> QED
  BY <1>1, <1>2, <1>3 DEF TakeOutbound

LEMMA WriteConnOK ==
  ASSUME IInv, Alive, NEW b \in Bindings, WriteConn(b)
  PROVE  IInv'
<1>0. /\ TypeOK /\ PingOK /\ outbound \in Seq(Messages) /\ Len(outbound) <= 1
      /\ held \in [Bindings -> Messages \cup {Nothing}] /\ pc[Send(b)] = "write"
      /\ ConnSend(b, held[b]) /\ held' = [held EXCEPT ![b] = Nothing]
      /\ UNCHANGED <<outbound, closing, stops, waits, pings, crashed>>
  BY DEF IInv, TypeOK, WriteConn
<1>1. PICK l \in {"select", "quit"} : Goto(Send(b), l) /\ Exchanged
  BY <1>0, ConnSendOK
<1>2. held' \in [Bindings -> Messages \cup {Nothing}] /\ outbound' = outbound
  BY <1>0
<1> QED
  BY <1>0, <1>1, <1>2, SendMoves

-------------------------------------------------------------------------------
\* Steps in which no goroutine moves on.

LEMMA LifeStays ==
  ASSUME LifeOK, WaitMeansQuiet, UNCHANGED <<pc, closing, stopCh, stopper, wg, count, left>>,
         \A d \in Bindings : /\ conn'[d].state = "none" <=> conn[d].state = "none"
                             /\ conn[d].state = "closed" => conn'[d].state = "closed"
  PROVE  LifeOK' /\ WaitMeansQuiet'
<1>1. Bound' = Bound
  BY BoundSame
<1>2. \A b \in Bindings : BindingOK(b)'
  BY <1>1 DEF LifeOK, BindingOK, Runs, Active
<1>3. OwnerOK'
  BY <1>1, OwnerSame DEF LifeOK
<1>4. WaitMeansQuiet'
  BY Quiet DEF WaitMeansQuiet
<1> QED
  BY <1>1, <1>2, <1>3, <1>4 DEF LifeOK

LEMMA PeerTakesOK ==
  ASSUME IInv, Alive, NEW b \in Bindings, PeerTakes(b)
  PROVE  IInv'
<1> DEFINE m == Head(conn[b].out)
           c == [conn[b] EXCEPT !.out = Tail(conn[b].out)]
<1>0. /\ TypeOK /\ PingOK /\ WaitMeansQuiet /\ LifeOK
      /\ conn[b] \in ConnState /\ conn[b].out \in Seq(Messages \cup {Nothing})
      /\ conn[b].state = "live" /\ conn[b].out # <<>> /\ Len(conn[b].out) <= ConnCap
      /\ CanTake(c, m) /\ Taken(b, c, m) /\ ConnCap \in Nat
      /\ UNCHANGED <<pc, held, outbound, closing, stopCh, stopper, wg, count, left, pings, crashed>>
  BY ConnTypes DEF IInv, PeerTakes, ConnState, stops, waits
<1>1. /\ m \in Messages \cup {Nothing} /\ Tail(conn[b].out) \in Seq(Messages \cup {Nothing})
      /\ Len(Tail(conn[b].out)) <= ConnCap
  BY <1>0
<1>2. c \in ConnState /\ c.state = "live" /\ c.in = conn[b].in /\ Len(c.out) <= ConnCap
  BY <1>0, <1>1 DEF ConnState
<1> HIDE DEF m, c
<1>3. Exchanged
  BY <1>0, <1>1, <1>2, TakenOK
<1>4. \A d \in Bindings : conn'[d].state = conn[d].state
  BY <1>3 DEF Exchanged
<1>5. TypeOK'
  <2>1. conn' \in [Bindings -> [state : {"none", "live", "silent", "broken", "closed"},
                               out : Seq(Messages \cup {Nothing}), in : Seq(Messages)]]
        /\ ping' \in [Pingers -> [id : IDs \cup {0}, told : BOOLEAN, answered : BOOLEAN]]
    BY <1>3 DEF Exchanged, ConnState, PingState
  <2>2. \A d \in Bindings : Len(conn'[d].out) <= ConnCap /\ Len(conn'[d].in) <= ConnCap
    BY <1>3 DEF Exchanged
  <2> QED
    BY <1>0, <2>1, <2>2 DEF TypeOK
<1>6. PingOK'
  BY <1>0, <1>3, PingExchanged
<1>7. LifeOK' /\ WaitMeansQuiet'
  BY <1>0, <1>4, LifeStays
<1>8. OnlyTheseRacesPanic'
  BY <1>0, NoRace
<1> QED
  BY <1>5, <1>6, <1>7, <1>8 DEF IInv

\* A step that only takes messages out of connections, or marks them as lost.
LEMMA LosesOK ==
  ASSUME IInv, Alive, NEW b \in Bindings, NEW c \in ConnState,
         conn' = [conn EXCEPT ![b] = c], conn[b].state \notin {"none", "closed"},
         c.state # "none", Len(c.out) <= ConnCap, c.in \in {<<>>, conn[b].in},
         held' \in [Bindings -> Messages \cup {Nothing}],
         UNCHANGED <<pc, outbound, closing, stops, waits, table, crashed>>
  PROVE  IInv'
<1>0. /\ TypeOK /\ PingOK /\ WaitMeansQuiet /\ LifeOK /\ conn \in [Bindings -> ConnState]
      /\ \A d \in Bindings : Len(conn[d].out) <= ConnCap /\ Len(conn[d].in) <= ConnCap
      /\ UNCHANGED <<pc, outbound, closing, stopCh, stopper, wg, count, left, ping, pings, crashed>>
      /\ ConnCap \in Nat
  BY ConnTypes DEF IInv, stops, waits, table
<1>1. /\ conn' \in [Bindings -> ConnState] /\ conn'[b] = c
      /\ \A d \in Bindings \ {b} : conn'[d] = conn[d]
  BY <1>0
<1>2. \A d \in Bindings : Len(conn'[d].out) <= ConnCap /\ Len(conn'[d].in) <= ConnCap
  <2>1. Len(c.in) <= ConnCap
    BY <1>0
  <2> QED
    BY <1>0, <1>1, <2>1
<1>3. TypeOK'
  <2>1. conn' \in [Bindings -> [state : {"none", "live", "silent", "broken", "closed"},
                               out : Seq(Messages \cup {Nothing}), in : Seq(Messages)]]
    BY <1>1 DEF ConnState
  <2> QED
    BY <1>0, <1>2, <2>1 DEF TypeOK
<1>4. PingOK'
  <2>1. \A d \in Bindings : \A k \in DOMAIN conn'[d].in : conn'[d].in = conn[d].in
    BY <1>1
  <2> QED
    BY <1>0, <2>1 DEF PingOK, PingIsOwn, PingTable
<1>5. LifeOK' /\ WaitMeansQuiet'
  BY <1>0, <1>1, LifeStays
<1>6. OnlyTheseRacesPanic'
  BY <1>0, NoRace
<1> QED
  BY <1>3, <1>4, <1>5, <1>6 DEF IInv

LEMMA FailOK ==
  ASSUME IInv, Alive, NEW b \in Bindings, NEW how \in {"silent", "broken"}, Fail(b, how)
  PROVE  IInv'
<1>0. /\ TypeOK /\ conn \in [Bindings -> ConnState] /\ conn[b] \in ConnState
      /\ held \in [Bindings -> Messages \cup {Nothing}] /\ Len(conn[b].out) <= ConnCap
      /\ held' = [held EXCEPT ![b] = Nothing] /\ conn[b].state \notin {"none", "closed"}
      /\ UNCHANGED <<pc, outbound, closing, stops, waits, table, crashed>> /\ ConnCap \in Nat
  BY ConnTypes DEF IInv, TypeOK, Fail
<1>1. held' \in [Bindings -> Messages \cup {Nothing}]
  BY <1>0
<1>2. CASE how = "broken"
  <2> DEFINE c == [state |-> "broken", out |-> <<>>, in |-> <<>>]
  <2>1. conn' = [conn EXCEPT ![b] = c]
    BY <1>2 DEF Fail
  <2>2. c \in ConnState /\ c.state = "broken" /\ c.out = <<>> /\ c.in = <<>>
    BY DEF ConnState
  <2>3. Len(c.out) <= ConnCap
    BY <1>0, <2>2
  <2> HIDE DEF c
  <2> QED
    BY <1>0, <1>1, <2>1, <2>2, <2>3, LosesOK
<1>3. CASE how = "silent"
  <2> DEFINE lost == [i \in DOMAIN conn[b].out |-> Nothing]
             c == [state |-> "silent", out |-> lost, in |-> conn[b].in]
  <2>1. conn' = [conn EXCEPT ![b] = c]
    BY <1>3 DEF Fail
  <2>2. lost \in Seq(Messages \cup {Nothing}) /\ Len(lost) <= ConnCap
    BY <1>0 DEF ConnState
  <2> HIDE DEF lost
  <2>3. c \in ConnState /\ c.state = "silent" /\ c.out = lost /\ c.in = conn[b].in
    BY <1>0, <2>2 DEF ConnState
  <2> HIDE DEF c
  <2> QED
    BY <1>0, <1>1, <2>1, <2>2, <2>3, LosesOK
<1> QED
  BY <1>2, <1>3

LEMMA ReceiveResponseOK ==
  ASSUME IInv, Alive, NEW b \in Bindings, ReceiveResponse(b)
  PROVE  IInv'
<1> DEFINE i == Head(conn[b].in).id
<1>0. /\ TypeOK /\ PingOK /\ WaitMeansQuiet /\ LifeOK /\ conn \in [Bindings -> ConnState]
      /\ \A d \in Bindings : Len(conn[d].out) <= ConnCap /\ Len(conn[d].in) <= ConnCap
      /\ UNCHANGED <<pc, held, outbound, closing, stopCh, stopper, wg, count, left, crashed>>
      /\ ConnCap \in Nat /\ conn[b] \in ConnState /\ conn[b].in \in Seq(Messages)
      /\ conn[b].in # <<>> /\ ping \in [Pingers -> PingState] /\ pings \subseteq IDs
      /\ Len(conn[b].in) <= ConnCap
  BY ConnTypes DEF IInv, stops, waits, TypeOK, ConnState, ReceiveResponse
<1>1. /\ conn' = [conn EXCEPT ![b] = [conn[b] EXCEPT !.in = Tail(conn[b].in)]]
      /\ pings' = pings \ {i}
      /\ ping' = [p \in Pingers |-> [ping[p] EXCEPT !.told =
                    ping[p].told \/ (i \in pings /\ ping[p].id = i)]]
  BY DEF ReceiveResponse, HandlePing
<1> DEFINE rest == Tail(conn[b].in)
           c == [conn[b] EXCEPT !.in = rest]
<1>2. /\ rest \in Seq(Messages) /\ Len(rest) <= ConnCap
      /\ \A k \in DOMAIN rest : k + 1 \in DOMAIN conn[b].in /\ rest[k] = conn[b].in[k + 1]
      /\ 1 \in DOMAIN conn[b].in /\ conn[b].in[1].id = i
  BY <1>0
<1> HIDE DEF rest, i
<1>3. /\ c \in ConnState /\ c.in = rest /\ c.out = conn[b].out /\ c.state = conn[b].state
      /\ conn' = [conn EXCEPT ![b] = c]
  BY <1>0, <1>1, <1>2 DEF ConnState, rest
<1> HIDE DEF c
<1>4. /\ conn' \in [Bindings -> ConnState] /\ conn'[b] = c
      /\ \A d \in Bindings \ {b} : conn'[d] = conn[d]
  BY <1>0, <1>3
<1>5. \A p \in Pingers :
        /\ ping'[p].id = ping[p].id /\ ping'[p].answered = ping[p].answered
        /\ ping'[p].told <=> (ping[p].told \/ (i \in pings /\ ping[p].id = i))
        /\ ping'[p] \in PingState
  BY <1>0, <1>1 DEF PingState
<1>6. TypeOK'
  <2>1. conn' \in [Bindings -> [state : {"none", "live", "silent", "broken", "closed"},
                               out : Seq(Messages \cup {Nothing}), in : Seq(Messages)]]
    BY <1>4 DEF ConnState
  <2>2. \A d \in Bindings : Len(conn'[d].out) <= ConnCap /\ Len(conn'[d].in) <= ConnCap
    BY <1>0, <1>2, <1>3, <1>4
  <2>3. ping' \in [Pingers -> [id : IDs \cup {0}, told : BOOLEAN, answered : BOOLEAN]]
    BY <1>1, <1>5 DEF PingState
  <2> QED
    BY <1>0, <1>1, <2>1, <2>2, <2>3 DEF TypeOK
<1>7. PingOK'
  <2>1. \A p \in Pingers : /\ ping'[p].id # 0 <=> pc'[p] \in {"put", "wait"}
                           /\ ping'[p].told => ping'[p].id \notin pings'
    <3>1. SUFFICES ASSUME NEW p \in Pingers
                   PROVE  /\ ping'[p].id # 0 <=> pc'[p] \in {"put", "wait"}
                          /\ ping'[p].told => ping'[p].id \notin pings'
      OBVIOUS
    <3>2. ping'[p].id # 0 <=> pc'[p] \in {"put", "wait"}
      BY <1>0, <1>5 DEF PingOK
    <3>3. ping[p].told => ping[p].id \notin pings
      BY <1>0 DEF PingOK
    <3>4. ping'[p].told => ping'[p].id \notin pings'
      BY <1>1, <1>5, <3>3
    <3> QED
      BY <3>2, <3>4
  <2>2. \A d \in Bindings : \A k \in DOMAIN conn'[d].in : \A p \in Pingers :
          ping'[p].id # 0 /\ ping'[p].id = conn'[d].in[k].id => ping'[p].answered
    <3>1. SUFFICES ASSUME NEW d \in Bindings, NEW k \in DOMAIN conn'[d].in, NEW p \in Pingers,
                          ping'[p].id # 0, ping'[p].id = conn'[d].in[k].id
                   PROVE  ping'[p].answered
      OBVIOUS
    <3>2. \E j \in DOMAIN conn[d].in : conn'[d].in[k] = conn[d].in[j]
      <4>1. CASE d = b
        <5>1. conn'[b].in = rest
          BY <1>3, <1>4
        <5> QED
          BY <1>2, <3>1, <4>1, <5>1
      <4>2. CASE d # b
        BY <1>4, <3>1, <4>2
      <4> QED
        BY <4>1, <4>2
    <3>3. PICK j \in DOMAIN conn[d].in : ping[p].id = conn[d].in[j].id
      BY <1>5, <3>1, <3>2
    <3>4. ping[p].answered
      BY <1>0, <1>5, <3>1, <3>3 DEF PingOK
    <3> QED
      BY <1>5, <3>4
  <2>3. PingIsOwn'
    <3>1. SUFFICES ASSUME NEW p \in Pingers, ping'[p].told
                   PROVE  ping'[p].answered
      BY DEF PingIsOwn
    <3>2. CASE ping[p].told
      BY <1>0, <1>5, <3>2 DEF PingOK, PingIsOwn
    <3>3. CASE i \in pings /\ ping[p].id = i
      <4>1. i # 0
        BY <1>0, <3>3 DEF IDs
      <4> QED
        BY <1>0, <1>2, <1>5, <3>3, <4>1 DEF PingOK
    <3> QED
      BY <1>5, <3>1, <3>2, <3>3
  <2>4. PingTable'
    BY <1>0, <1>1, <1>5, Goroutine DEF PingOK, PingTable
  <2> QED
    BY <2>1, <2>2, <2>3, <2>4 DEF PingOK
<1>8. LifeOK' /\ WaitMeansQuiet'
  BY <1>0, <1>3, <1>4, LifeStays
<1>9. OnlyTheseRacesPanic'
  BY <1>0, NoRace
<1> QED
  BY <1>6, <1>7, <1>8, <1>9 DEF IInv

LEMMA ReplySentOK ==
  ASSUME IInv, Alive, NEW b \in Bindings, Reply(b), closing # 2
  PROVE  IInv'
<1>0. /\ TypeOK /\ PingOK /\ held \in [Bindings -> Messages \cup {Nothing}]
      /\ outbound' = <<Response(PeerID)>> /\ pc[Recv(b)] = "reply" /\ Goto(Recv(b), "read")
      /\ UNCHANGED <<held, conn, closing, stops, waits, pings, ping, crashed>>
  BY DEF IInv, TypeOK, Reply, table
<1>1. Exchanged
  BY <1>0, ConnTypes DEF Exchanged, PingOK
<1>2. outbound' \in Seq(Messages) /\ Len(outbound') <= 1
  BY <1>0, MessagesOK DEF PeerID
<1>3. "read" \in Labels
  BY DEF Labels
<1> QED
  BY <1>0, <1>1, <1>2, <1>3, LoopExchanges

-------------------------------------------------------------------------------
\* Panics.

Panics == {"close of nil", "close of closed", "send on closed", "nil wg", "empty message"}

\* A step that ends in a panic changes nothing else than the place of its goroutine.
LEMMA PanicOK ==
  ASSUME IInv, NEW p \in Goroutines, NEW l \in Labels, NEW what \in Panics,
         Panic(what, p), Goto(p, l), p[1] \in {"owner", "keepalive", "recv", "send"},
         UNCHANGED <<held, conn, outbound, closing, stops, waits, table>>,
         p \in Pingers => (l \in {"put", "wait"} <=> pc[p] \in {"put", "wait"}),
         \A b \in Bindings : left[b] = "quiet" => p # Recv(b) /\ p # Send(b),
         OnlyTheseRacesPanic'
  PROVE  IInv'
<1>0. /\ TypeOK /\ PingOK /\ WaitMeansQuiet
      /\ UNCHANGED <<held, conn, outbound, closing, stopCh, stopper, wg, count, left, ping, pings>>
      /\ crashed' = [what |-> what, who |-> p[1]]
  BY DEF IInv, stops, waits, table, Panic
<1>1. /\ pc' \in [Goroutines -> Labels] /\ pc'[p] = l
      /\ \A q \in Goroutines \ {p} : pc'[q] = pc[q]
  BY <1>0, GotoOK
<1>2. TypeOK'
  BY <1>0, <1>1 DEF TypeOK, Goroutines, Panics
<1>3. PingOK'
  <2>1. \A q \in Pingers : pc'[q] \in {"put", "wait"} <=> pc[q] \in {"put", "wait"}
    BY <1>1, Goroutine
  <2> QED
    BY <1>0, <2>1, PingSame
<1>4. WaitMeansQuiet'
  <2>1. \A b \in Bindings : left[b] = "quiet" =>
          pc'[Recv(b)] = pc[Recv(b)] /\ pc'[Send(b)] = pc[Send(b)]
    BY <1>1, Goroutine
  <2> QED
    BY <1>0, <2>1, Quiet DEF WaitMeansQuiet
<1>5. ~Alive'
  BY <1>0 DEF Alive, NoCrash, Panics
<1> QED
  BY <1>2, <1>3, <1>4, <1>5 DEF IInv

\* While a loop of b runs it is b's own wg and stopCh that are set, or Wait did not
\* know of the loop and b is the last binding.
LEMMA RunsOnItsOwn ==
  ASSUME TypeOK, LifeOK, NEW b \in Bindings, Runs(b)
  PROVE  /\ b = Bound /\ left[b] # "quiet"
         /\ left[b] = "early" \/ (wg = b /\ stopCh = b /\ left[b] = "no")
<1>1. /\ left[b] # "quiet" /\ left[b] \in {"no", "quiet", "early"}
      /\ wg = b \/ left[b] = "early"
      /\ left[b] = "early" => b = Bound
      /\ wg \in {0, Bound}
  BY DEF TypeOK, LifeOK, BindingOK, OwnerOK, Runs
<1>2. CASE wg = b
  <2>1. b # 0
    BY DEF Bindings
  <2>2. wg = stopCh
    BY <1>2, <2>1 DEF TypeOK, LifeOK, OwnerOK
  <2>3. left[b] = "no"
    BY <1>2 DEF LifeOK, BindingOK
  <2> QED
    BY <1>1, <1>2, <2>1, <2>2, <2>3
<1> QED
  BY <1>1, <1>2

LEMMA ReplyOK ==
  ASSUME IInv, Alive, NEW b \in Bindings, Reply(b)
  PROVE  IInv'
<1>1. CASE closing = 2
  <2>0. /\ TypeOK /\ LifeOK /\ pc[Recv(b)] = "reply" /\ Panic("send on closed", Recv(b))
        /\ UNCHANGED <<held, conn, outbound, closing, stops, waits, table>>
        /\ Goto(Recv(b), "read") /\ left' = left /\ Bound' = Bound
    BY <1>1, BoundSame DEF IInv, Reply, waits
  <2>1. Recv(b) \in Goroutines \ Pingers /\ Recv(b)[1] = "recv" /\ "read" \in Labels
    BY Goroutine DEF Labels
  <2>2. b = Bound /\ (left[b] = "early" \/ left[b] = "no")
    BY <2>0, RunsOnItsOwn DEF Runs
  <2>3. OnlyTheseRacesPanic'
    BY <2>0, <2>1, <2>2 DEF OnlyTheseRacesPanic, Panic, Early
  <2>4. \A c \in Bindings : left[c] = "quiet" => Recv(b) # Recv(c) /\ Recv(b) # Send(c)
    BY <2>2, Goroutine
  <2> QED
    BY <2>0, <2>1, <2>3, <2>4, PanicOK DEF Panics
<1> QED
  BY <1>1, ReplySentOK

LEMMA ReceiveOtherOK ==
  ASSUME IInv, Alive, NEW b \in Bindings, ReceiveOther(b)
  PROVE  IInv'
<1>0. /\ TypeOK /\ LifeOK /\ pc[Recv(b)] = "read"
      /\ UNCHANGED <<held, conn, outbound, closing, stops, waits, table>>
  BY DEF IInv, ReceiveOther
<1>1. ASSUME NEW l \in {"reply", "stop"}, Goto(Recv(b), l), crashed' = crashed
      PROVE  IInv'
  <2>1. l \in Labels
    BY DEF Labels
  <2> QED
    BY <1>0, <1>1, <2>1, OnlyMoves
<1>2. CASE Panic("empty message", Recv(b)) /\ "empty" \in Faults /\ pc' = pc
  <2>1. Recv(b) \in Goroutines \ Pingers /\ Recv(b)[1] = "recv" /\ "read" \in Labels
    BY Goroutine DEF Labels
  <2>2. b = Bound /\ (left[b] = "early" \/ left[b] = "no")
    BY <1>0, RunsOnItsOwn DEF Runs
  <2>3. left' = left /\ Bound' = Bound
    BY <1>0, BoundSame DEF waits
  <2>4. OnlyTheseRacesPanic'
    BY <1>2, <2>1, <2>2, <2>3 DEF OnlyTheseRacesPanic, Panic, Early
  <2>5. Goto(Recv(b), "read")
    BY <1>0, <1>2, <2>1 DEF TypeOK, Goto, Goroutines
  <2>6. \A c \in Bindings : left[c] = "quiet" => Recv(b) # Recv(c) /\ Recv(b) # Send(c)
    BY <2>2, Goroutine
  <2> QED
    BY <1>0, <1>2, <2>1, <2>4, <2>5, <2>6, PanicOK DEF Panics
<1> QED
  BY <1>1, <1>2 DEF ReceiveOther

\* A loop counts itself in and out.
LEMMA CountOK ==
  ASSUME IInv, Alive, NEW b \in Bindings, NEW p \in {Recv(b), Send(b)},
         NEW l \in Labels, NEW n \in {1, -1}, Goto(p, l), Count(p, n),
         \/ /\ pc[p] = "start" /\ n = 1
            /\ l = IF p = Recv(b) THEN "read" ELSE "select"
         \/ pc[p] = "finish" /\ n = -1 /\ l = "done",
         UNCHANGED <<held, conn, outbound, closing, stops, wg, left, table>>
  PROVE  IInv'
<1>0. /\ TypeOK /\ PingOK /\ WaitMeansQuiet /\ LifeOK /\ BindingOK(b)
      /\ UNCHANGED <<held, conn, outbound, closing, stopCh, stopper, wg, left, ping, pings>>
      /\ Bound' = Bound
  BY BoundSame DEF IInv, stops, table, LifeOK
<1>1. p \in Goroutines \ Pingers /\ p[1] \in {"recv", "send"}
  BY Goroutine
<1>2. Runs(b)
  BY DEF Runs
<1>3. /\ b = Bound /\ left[b] # "quiet"
      /\ left[b] = "early" \/ (wg = b /\ stopCh = b /\ left[b] = "no")
  BY <1>0, <1>2, RunsOnItsOwn
<1>4. \A c \in Bindings : left[c] = "quiet" => p # Recv(c) /\ p # Send(c)
  BY <1>3, Goroutine
<1>5. CASE wg = 0
  <2>1. Panic("nil wg", p) /\ count' = count
    BY <1>5 DEF Count
  <2>2. left[b] = "early"
    BY <1>3, <1>5 DEF Bindings
  <2>3. OnlyTheseRacesPanic'
    BY <1>0, <2>2 DEF OnlyTheseRacesPanic, Early
  <2>4. UNCHANGED waits
    BY <1>0, <2>1 DEF waits
  <2> QED
    BY <1>0, <1>1, <1>4, <2>1, <2>3, <2>4, PanicOK DEF Panics
<1>6. CASE wg # 0
  <2>1. count' = [count EXCEPT ![wg] = count[wg] + n] /\ crashed' = crashed
    BY <1>6 DEF Count
  <2>2. wg = b /\ left[b] = "no"
    <3>1. wg = Bound
      BY <1>0, <1>6 DEF LifeOK, OwnerOK
    <3> QED
      BY <1>0, <1>3, <3>1 DEF BindingOK
  <2>3. /\ pc' \in [Goroutines -> Labels] /\ pc'[p] = l
        /\ \A q \in Goroutines \ {p} : pc'[q] = pc[q]
    BY <1>0, <1>1, GotoOK
  <2>4. /\ \A q \in Pingers : pc'[q] = pc[q]
        /\ \A c \in Bindings \ {b} : pc'[Recv(c)] = pc[Recv(c)] /\ pc'[Send(c)] = pc[Send(c)]
        /\ p = Recv(b) => pc'[Recv(b)] = l /\ pc'[Send(b)] = pc[Send(b)]
        /\ p = Send(b) => pc'[Send(b)] = l /\ pc'[Recv(b)] = pc[Recv(b)]
    BY <2>3, Goroutine
  <2>5. /\ count \in [Bindings -> 0 .. 2 * MaxBinds] /\ count'[b] = count[b] + n
        /\ \A c \in Bindings \ {b} : count'[c] = count[c]
    BY <1>0, <2>1, <2>2 DEF TypeOK
  <2>6. Recv(b) # Send(b)
    BY Goroutine
  <2>7. BindingOK(b)'
    <3>1. CASE p = Recv(b)
      BY <1>0, <2>2, <2>4, <2>5, <2>6, <3>1 DEF BindingOK, Runs, Active
    <3>2. CASE p = Send(b)
      BY <1>0, <2>2, <2>4, <2>5, <2>6, <3>2 DEF BindingOK, Runs, Active
    <3> QED
      BY <3>1, <3>2
  <2>8. TypeOK'
    <3>1. count'[b] \in 0 .. 2 * MaxBinds
      <4>1. count'[b] \in 0 .. 2
        BY <2>7 DEF BindingOK, Active
      <4> QED
        BY <4>1, BindsAssumption
    <3>2. count' \in [Bindings -> 0 .. 2 * MaxBinds]
      BY <2>1, <2>2, <2>5, <3>1
    <3> QED
      BY <1>0, <2>1, <2>3, <3>2 DEF TypeOK, Goroutines
  <2>9. PingOK'
    BY <1>0, <2>4, PingSame
  <2>10. WaitMeansQuiet'
    <3>1. \A c \in Bindings : left[c] = "quiet" => c # b
      BY <2>2
    <3> QED
      BY <1>0, <2>4, <3>1, Quiet DEF WaitMeansQuiet
  <2>11. OnlyTheseRacesPanic'
    BY <2>1, NoRace
  <2>12. LifeOK'
    BY <1>0, <2>4, <2>5, <2>7, LifeAt DEF SameAt
  <2> QED
    BY <2>8, <2>9, <2>10, <2>11, <2>12 DEF IInv
<1> QED
  BY <1>5, <1>6

LEMMA StartOK ==
  ASSUME IInv, Alive, NEW b \in Bindings, NEW p \in {Recv(b), Send(b)}, Start(p)
  PROVE  IInv'
<1> DEFINE l == IF p[1] = "recv" THEN "read" ELSE "select"
<1>1. l \in Labels /\ l = IF p = Recv(b) THEN "read" ELSE "select"
  BY Goroutine DEF Labels
<1>2. /\ pc[p] = "start" /\ Count(p, 1) /\ Goto(p, l)
      /\ UNCHANGED <<held, conn, outbound, closing, stops, wg, left, table>>
  BY DEF Start
<1> HIDE DEF l
<1> QED
  BY <1>1, <1>2, CountOK

LEMMA FinishOK ==
  ASSUME IInv, Alive, NEW b \in Bindings, NEW p \in {Recv(b), Send(b)}, Finish(p)
  PROVE  IInv'
<1>1. "done" \in Labels
  BY DEF Labels
<1> QED
  BY <1>1, CountOK DEF Finish

LEMMA CloseConnOK ==
  ASSUME IInv, Alive, NEW b \in Bindings, CloseConn(b)
  PROVE  IInv'
<1> DEFINE c == [state |-> "closed", out |-> <<>>, in |-> <<>>]
<1>0. /\ TypeOK /\ PingOK /\ WaitMeansQuiet /\ LifeOK /\ BindingOK(b)
      /\ conn \in [Bindings -> ConnState] /\ conn' = [conn EXCEPT ![b] = c]
      /\ \A d \in Bindings : Len(conn[d].out) <= ConnCap /\ Len(conn[d].in) <= ConnCap
      /\ ConnCap \in Nat /\ pc[Send(b)] = "quit" /\ Goto(Send(b), "finish")
      /\ UNCHANGED <<held, outbound, closing, stopCh, stopper, wg, count, left, ping, pings, crashed>>
  BY ConnTypes DEF IInv, LifeOK, CloseConn, stops, waits, table
<1>1. /\ conn' \in [Bindings -> ConnState] /\ conn'[b].state = "closed"
      /\ conn'[b].in = <<>> /\ conn'[b].out = <<>>
      /\ \A d \in Bindings \ {b} : conn'[d] = conn[d]
  BY <1>0 DEF ConnState
<1>2. Bound' = Bound
  <2>1. conn[b].state # "none"
    BY <1>0 DEF BindingOK
  <2> QED
    BY <1>1, <2>1, BoundSame
<1>3. /\ pc' \in [Goroutines -> Labels] /\ pc'[Send(b)] = "finish" /\ pc'[Recv(b)] = pc[Recv(b)]
      /\ \A q \in Pingers : pc'[q] = pc[q]
      /\ \A d \in Bindings \ {b} : pc'[Recv(d)] = pc[Recv(d)] /\ pc'[Send(d)] = pc[Send(d)]
  <2>1. Send(b) \in Goroutines /\ "finish" \in Labels
    BY Goroutine DEF Labels
  <2>2. /\ pc' \in [Goroutines -> Labels] /\ pc'[Send(b)] = "finish"
        /\ \A q \in Goroutines \ {Send(b)} : pc'[q] = pc[q]
    BY <1>0, <2>1, GotoOK
  <2> QED
    BY <2>2, Goroutine
<1>4. BindingOK(b)'
  BY <1>0, <1>1, <1>2, <1>3 DEF BindingOK, Runs, Active
<1>5. TypeOK'
  <2>1. conn' \in [Bindings -> [state : {"none", "live", "silent", "broken", "closed"},
                               out : Seq(Messages \cup {Nothing}), in : Seq(Messages)]]
    BY <1>1 DEF ConnState
  <2>2. \A d \in Bindings : Len(conn'[d].out) <= ConnCap /\ Len(conn'[d].in) <= ConnCap
    BY <1>0, <1>1
  <2> QED
    BY <1>0, <1>3, <2>1, <2>2 DEF TypeOK, Goroutines
<1>6. PingOK'
  <2>1. \A d \in Bindings : \A k \in DOMAIN conn'[d].in : conn'[d].in = conn[d].in
    BY <1>1
  <2> QED
    BY <1>0, <1>3, <2>1 DEF PingOK, PingIsOwn, PingTable
<1>7. WaitMeansQuiet'
  <2>1. left[b] # "quiet"
    BY <1>0 DEF BindingOK
  <2> QED
    BY <1>0, <1>1, <1>3, <2>1, Quiet DEF WaitMeansQuiet
<1>8. OnlyTheseRacesPanic'
  BY <1>0, NoRace
<1>9. LifeOK'
  BY <1>0, <1>1, <1>2, <1>3, <1>4, LifeAt DEF SameAt
<1> QED
  BY <1>5, <1>6, <1>7, <1>8, <1>9 DEF IInv

-------------------------------------------------------------------------------
\* Steps of the owner and of keepalive.

LEMMA PingerMoves ==
  ASSUME TypeOK, NEW p \in Pingers, NEW l \in Labels, Goto(p, l)
  PROVE  /\ pc' \in [Goroutines -> Labels] /\ pc'[p] = l
         /\ \A q \in Pingers \ {p} : pc'[q] = pc[q]
         /\ \A b \in Bindings : pc'[Recv(b)] = pc[Recv(b)] /\ pc'[Send(b)] = pc[Send(b)]
<1>1. p \in Goroutines
  BY DEF Goroutines
<1> QED
  BY <1>1, GotoOK, Goroutine

\* A step that leaves the loops, the connections, wg and stopper alone.
LEMMA LoopsStay ==
  ASSUME WaitMeansQuiet, \A b \in Bindings : BindingOK(b),
         UNCHANGED <<conn, stopper, wg, count, left>>,
         \A b \in Bindings : pc'[Recv(b)] = pc[Recv(b)] /\ pc'[Send(b)] = pc[Send(b)]
  PROVE  Bound' = Bound /\ WaitMeansQuiet' /\ \A b \in Bindings : BindingOK(b)'
<1>1. Bound' = Bound
  BY BoundSame
<1>2. \A b \in Bindings : BindingOK(b)'
  BY <1>1, Elsewhere DEF SameAt
<1>3. WaitMeansQuiet'
  BY Quiet DEF WaitMeansQuiet
<1> QED
  BY <1>1, <1>2, <1>3

\* p goes from l to m, with effect on the owner only as OwnerOK allows.
LEMMA PingerStep ==
  ASSUME IInv, Alive, NEW p \in Pingers, NEW l \in Labels, Goto(p, l),
         UNCHANGED <<conn, stopper, wg, count, left, held, crashed>>,
         outbound' \in Seq(Messages), Len(outbound') <= 1, closing' \in 0 .. 2,
         stopCh' \in Bindings \cup {0}, ping' \in [Pingers -> PingState], pings' \subseteq IDs,
         PingOK', Bound' = Bound => OwnerOK',
         p = Keepalive => l \in {"sleep", "put", "wait", "stop", "close", "exit"}
  PROVE  IInv'
<1>0. /\ TypeOK /\ WaitMeansQuiet /\ LifeOK
  BY DEF IInv
<1>1. /\ pc' \in [Goroutines -> Labels] /\ pc'[p] = l
      /\ \A q \in Pingers \ {p} : pc'[q] = pc[q]
      /\ \A b \in Bindings : pc'[Recv(b)] = pc[Recv(b)] /\ pc'[Send(b)] = pc[Send(b)]
  BY <1>0, PingerMoves
<1>2. TypeOK'
  BY <1>0, <1>1 DEF TypeOK, Goroutines, PingState
<1>3. Bound' = Bound /\ WaitMeansQuiet' /\ \A b \in Bindings : BindingOK(b)'
  BY <1>0, <1>1, LoopsStay DEF LifeOK
<1>4. OnlyTheseRacesPanic'
  BY NoRace
<1>5. pc'[Keepalive] \in {"sleep", "put", "wait", "stop", "close", "exit"}
  BY <1>0, <1>1, Goroutine DEF LifeOK
<1>6. LifeOK'
  BY <1>0, <1>3, <1>5 DEF LifeOK
<1> QED
  BY <1>2, <1>3, <1>4, <1>6 DEF IInv

\* What PingerStep asks of OwnerOK when keepalive moves.
LEMMA KeepaliveMoves ==
  ASSUME IInv, Alive, NEW l \in Labels, Goto(Keepalive, l), UNCHANGED <<stopper, wg, stopCh, closing, left>>
  PROVE  Bound' = Bound => OwnerOK'
<1>1. pc'[Owner] = pc[Owner]
  BY PingerMoves, Goroutine DEF IInv
<1> QED
  BY <1>1, OwnerSame DEF IInv, LifeOK

\* What PingerStep asks of OwnerOK when the owner moves within or out of a Ping.
LEMMA OwnerPings ==
  ASSUME IInv, Alive, NEW l \in {"wait", "bound"}, Goto(Owner, l), pc[Owner] \in {"put", "wait"},
         UNCHANGED <<stopper, wg, stopCh, closing, left>>
  PROVE  Bound' = Bound => OwnerOK'
<1>1. pc'[Owner] = l
  BY PingerMoves, Goroutine DEF IInv, Labels
<1> QED
  BY <1>1 DEF IInv, LifeOK, OwnerOK

LEMMA PutRequestOK ==
  ASSUME IInv, Alive, NEW p \in Pingers, PutRequest(p)
  PROVE  IInv'
<1>0. /\ TypeOK /\ PingOK /\ LifeOK /\ pc[p] = "put" /\ Goto(p, "wait") /\ "wait" \in Labels
      /\ UNCHANGED <<held, conn, closing, stops, waits, table>>
      /\ ping \in [Pingers -> PingState]
  BY ConnTypes DEF IInv, PutRequest, Labels
<1>1. CASE closing = 2
  <2>1. Panic("send on closed", p) /\ outbound' = outbound
    BY <1>1 DEF PutRequest
  <2>2. p = Keepalive
    BY <1>0, <1>1, Goroutine DEF LifeOK, OwnerOK
  <2>3. OnlyTheseRacesPanic'
    BY <2>1, <2>2, Goroutine DEF OnlyTheseRacesPanic, Panic
  <2>4. p \in Goroutines /\ p[1] = "keepalive"
        /\ \A b \in Bindings : p # Recv(b) /\ p # Send(b)
    BY <2>2, Goroutine
  <2> QED
    BY <1>0, <2>1, <2>3, <2>4, PanicOK DEF Panics
<1>2. CASE closing # 2
  <2>1. outbound' = <<Request(ping[p].id)>> /\ crashed' = crashed
    BY <1>2 DEF PutRequest
  <2>2. ping[p].id \in IDs \cup {0}
    BY <1>0 DEF PingState
  <2>3. outbound' \in Seq(Messages) /\ Len(outbound') <= 1
    BY <2>1, <2>2, MessagesOK
  <2>4. PingOK'
    <3>1. \A q \in Pingers : pc'[q] \in {"put", "wait"} <=> pc[q] \in {"put", "wait"}
      BY <1>0, PingerMoves
    <3> QED
      BY <1>0, <3>1, PingSame DEF table
  <2>5. /\ UNCHANGED <<conn, stopper, wg, count, left, held, crashed, stopCh, closing, ping, pings>>
        /\ closing \in 0 .. 2 /\ stopCh \in Bindings \cup {0} /\ pings \subseteq IDs
    BY <1>0, <2>1 DEF stops, waits, table, TypeOK
  <2>6. Bound' = Bound => OwnerOK'
    BY <1>0, <2>5, KeepaliveMoves, OwnerPings, Goroutine
  <2> QED
    BY <1>0, <2>3, <2>4, <2>5, <2>6, PingerStep
<1> QED
  BY <1>1, <1>2

\* The end of a Ping.
LEMMA ReturnOK ==
  ASSUME IInv, Alive, NEW p \in Pingers, NEW ok \in BOOLEAN, pc[p] = "wait", Return(p, ok),
         \/ pings' = pings /\ (ping[p].told \/ closing > 0)
         \/ pings' = pings \ {ping[p].id},
         UNCHANGED <<held, conn, outbound, closing, stops, waits, crashed>>
  PROVE  IInv'
<1>0. /\ TypeOK /\ PingOK /\ LifeOK /\ ping \in [Pingers -> PingState]
      /\ UNCHANGED <<held, conn, outbound, closing, stopCh, stopper, wg, count, left, crashed>>
      /\ ping' = [ping EXCEPT ![p] = NoPing] /\ pings \subseteq IDs
      /\ outbound \in Seq(Messages) /\ Len(outbound) <= 1
      /\ closing \in 0 .. 2 /\ stopCh \in Bindings \cup {0}
  BY ConnTypes DEF IInv, Return, stops, waits, TypeOK
<1>1. PICK l \in AfterPing(p, ok) : Goto(p, l)
  BY DEF Return
<1>2. /\ p = Owner => l = "bound"
      /\ p = Keepalive => l \in {"sleep", "stop"}
      /\ l \in Labels /\ l \notin {"put", "wait"}
  BY <1>1, Goroutine DEF AfterPing, Labels
<1>3. /\ NoPing \in PingState /\ NoPing.id = 0 /\ NoPing.told = FALSE
  BY DEF NoPing, PingState
<1>4. /\ ping' \in [Pingers -> PingState] /\ ping'[p] = NoPing
      /\ \A q \in Pingers \ {p} : ping'[q] = ping[q]
      /\ pings' \subseteq pings
  BY <1>0, <1>3
<1>5. /\ pc'[p] = l /\ \A q \in Pingers \ {p} : pc'[q] = pc[q]
  BY <1>0, <1>1, <1>2, PingerMoves
<1>6. PingOK'
  <2>1. \A q \in Pingers : /\ ping'[q].id # 0 <=> pc'[q] \in {"put", "wait"}
                           /\ ping'[q].told => ping'[q].id \notin pings'
    BY <1>0, <1>2, <1>3, <1>4, <1>5 DEF PingOK
  <2>2. \A d \in Bindings : \A k \in DOMAIN conn'[d].in : \A q \in Pingers :
          ping'[q].id # 0 /\ ping'[q].id = conn'[d].in[k].id => ping'[q].answered
    BY <1>0, <1>3, <1>4 DEF PingOK
  <2>3. PingIsOwn'
    BY <1>0, <1>3, <1>4 DEF PingOK, PingIsOwn
  <2>4. PingTable'
    <3>1. ping[Owner].id # 0 => ping[Owner].id # ping[Keepalive].id
      BY <1>0 DEF PingOK, PingTable
    <3>2. \A q \in Pingers : ping'[q].id # 0 /\ ~ping'[q].told => ping'[q].id \in pings'
      <4>1. SUFFICES ASSUME NEW q \in Pingers, ping'[q].id # 0, ~ping'[q].told
                     PROVE  ping'[q].id \in pings'
        OBVIOUS
      <4>2. q # p /\ ping'[q] = ping[q]
        BY <1>3, <1>4, <4>1
      <4>3. ping[q].id \in pings /\ ping[q].id # ping[p].id
        BY <1>0, <3>1, <4>1, <4>2, Goroutine DEF PingOK, PingTable
      <4> QED
        BY <4>2, <4>3
    <3>3. ping'[Owner].id # 0 => ping'[Owner].id # ping'[Keepalive].id
      BY <1>3, <1>4, <3>1, Goroutine
    <3>4. closing = 0 => ping[p].id \notin pings'
      BY <1>0 DEF PingOK
    <3>5. closing' = 0 => pings' \subseteq {ping'[q].id : q \in Pingers}
      <4>1. SUFFICES ASSUME closing = 0, NEW i \in pings'
                     PROVE  \E q \in Pingers : ping'[q].id = i
        BY <1>0
      <4>2. PICK q \in Pingers : ping[q].id = i
        BY <1>0, <1>4, <4>1 DEF PingOK, PingTable
      <4>3. q # p
        BY <3>4, <4>1, <4>2
      <4> QED
        BY <1>4, <4>2, <4>3
    <3> QED
      BY <3>2, <3>3, <3>5 DEF PingTable
  <2> QED
    BY <2>1, <2>2, <2>3, <2>4 DEF PingOK
<1>7. Bound' = Bound => OwnerOK'
  BY <1>0, <1>1, <1>2, KeepaliveMoves, OwnerPings, Goroutine
<1> QED
  BY <1>0, <1>1, <1>2, <1>4, <1>6, <1>7, PingerStep

LEMMA PingWokenOK ==
  ASSUME IInv, Alive, NEW p \in Pingers, PingWoken(p)
  PROVE  IInv'
  BY ReturnOK DEF PingWoken

LEMMA PingTimeoutOK ==
  ASSUME IInv, Alive, NEW p \in Pingers, PingTimeout(p)
  PROVE  IInv'
  BY ReturnOK DEF PingTimeout

\* A new id: in no table, on no way, in no Ping.
LEMMA NewIDOK ==
  ASSUME Fresh # {}
  PROVE  /\ NewID \in IDs /\ NewID # 0 /\ NewID \notin pings
         /\ \A q \in Pingers : NewID # ping[q].id
         /\ \A d \in Bindings : \A k \in DOMAIN conn[d].in : NewID # conn[d].in[k].id
<1>1. NewID \in Fresh
  BY DEF NewID
<1>2. NewID \in IDs /\ NewID \notin pings /\ NewID \notin InFlight
      /\ NewID \notin {ping[q].id : q \in Pingers}
  BY <1>1 DEF Fresh
<1>3. \A d \in Bindings : \A k \in DOMAIN conn[d].in : conn[d].in[k].id \in InFlight
  <2>1. SUFFICES ASSUME NEW d \in Bindings, NEW k \in DOMAIN conn[d].in
                 PROVE  conn[d].in[k].id \in InFlight
    OBVIOUS
  <2>2. conn[d].in[k].id \in IdsOf(conn[d].out) \cup IdsOf(conn[d].in)
    BY DEF IdsOf
  <2> QED
    BY <2>2 DEF InFlight
<1> QED
  BY <1>2, <1>3 DEF IDs

LEMMA RegisterOK ==
  ASSUME TypeOK, PingOK, NEW p \in Pingers, pc[p] \notin {"put", "wait"}, Register(p),
         pc'[p] = "put", \A q \in Pingers \ {p} : pc'[q] = pc[q],
         \A d \in Bindings : conn'[d].in = conn[d].in, closing' = closing
  PROVE  PingOK' /\ ping' \in [Pingers -> PingState] /\ pings' \subseteq IDs
<1> DEFINE new == [NoPing EXCEPT !.id = NewID]
<1>0. /\ ping \in [Pingers -> PingState] /\ pings \subseteq IDs
      /\ ping' = [ping EXCEPT ![p] = new] /\ pings' = pings \cup {NewID}
  BY ConnTypes DEF TypeOK, Register
<1>1. /\ NewID \in IDs /\ NewID # 0 /\ NewID \notin pings
      /\ \A q \in Pingers : NewID # ping[q].id
      /\ \A d \in Bindings : \A k \in DOMAIN conn[d].in : NewID # conn[d].in[k].id
  BY NewIDOK DEF Register
<1>2. new \in PingState /\ new.id = NewID /\ new.told = FALSE
  BY <1>1 DEF NoPing, PingState
<1> HIDE DEF new
<1>3. /\ ping' \in [Pingers -> PingState] /\ ping'[p] = new
      /\ \A q \in Pingers \ {p} : ping'[q] = ping[q]
  BY <1>0, <1>2
<1>4. \A q \in Pingers : /\ ping'[q].id # 0 <=> pc'[q] \in {"put", "wait"}
                         /\ ping'[q].told => ping'[q].id \notin pings'
  BY <1>0, <1>1, <1>2, <1>3 DEF PingOK
<1>5. \A d \in Bindings : \A k \in DOMAIN conn'[d].in : \A q \in Pingers :
        ping'[q].id # 0 /\ ping'[q].id = conn'[d].in[k].id => ping'[q].answered
  BY <1>1, <1>2, <1>3 DEF PingOK
<1>6. PingIsOwn'
  BY <1>2, <1>3 DEF PingOK, PingIsOwn
<1>7. PingTable'
  <2>1. \A q \in Pingers : ping'[q].id # 0 /\ ~ping'[q].told => ping'[q].id \in pings'
    BY <1>0, <1>2, <1>3 DEF PingOK, PingTable
  <2>2. ping'[Owner].id # 0 => ping'[Owner].id # ping'[Keepalive].id
    <3>1. ping[Owner].id # 0 => ping[Owner].id # ping[Keepalive].id
      BY DEF PingOK, PingTable
    <3> QED
      BY <1>1, <1>2, <1>3, <3>1, Goroutine
  <2>3. closing' = 0 => pings' \subseteq {ping'[q].id : q \in Pingers}
    <3>1. SUFFICES ASSUME closing = 0, NEW i \in pings'
                   PROVE  \E q \in Pingers : ping'[q].id = i
      OBVIOUS
    <3>2. CASE i = NewID
      BY <1>2, <1>3, <3>2
    <3>3. CASE i \in pings
      <4>1. PICK q \in Pingers : ping[q].id = i
        BY <3>1, <3>3 DEF PingOK, PingTable
      <4>2. i \in IDs /\ i # 0
        BY <1>0, <3>3 DEF IDs
      <4>3. q # p
        BY <4>1, <4>2 DEF PingOK
      <4> QED
        BY <1>3, <4>1, <4>3
    <3> QED
      BY <1>0, <3>1, <3>2, <3>3
  <2> QED
    BY <2>1, <2>2, <2>3 DEF PingTable
<1> QED
  BY <1>0, <1>1, <1>3, <1>4, <1>5, <1>6, <1>7 DEF PingOK

LEMMA KeepaliveWakeOK ==
  ASSUME IInv, Alive, KeepaliveWake
  PROVE  IInv'
<1>0. /\ TypeOK /\ PingOK /\ LifeOK /\ Goto(Keepalive, "put") /\ "put" \in Labels
      /\ UNCHANGED <<held, conn, outbound, closing, stopCh, stopper, wg, count, left, crashed>>
      /\ pc[Keepalive] = "sleep" /\ Register(Keepalive) /\ Keepalive \in Pingers
      /\ outbound \in Seq(Messages) /\ Len(outbound) <= 1
      /\ closing \in 0 .. 2 /\ stopCh \in Bindings \cup {0}
  BY Goroutine DEF IInv, KeepaliveWake, Labels, stops, waits, TypeOK
<1>1. pc'[Keepalive] = "put" /\ \A q \in Pingers \ {Keepalive} : pc'[q] = pc[q]
  BY <1>0, PingerMoves
<1>2. PingOK' /\ ping' \in [Pingers -> PingState] /\ pings' \subseteq IDs
  BY <1>0, <1>1, RegisterOK
<1>3. Bound' = Bound => OwnerOK'
  BY <1>0, KeepaliveMoves
<1> QED
  BY <1>0, <1>2, <1>3, PingerStep

\* A step of a pinger outside of a Ping.
LEMMA OutsidePing ==
  ASSUME IInv, Alive, NEW p \in Pingers, NEW l \in Labels \ {"put", "wait"}, Goto(p, l),
         pc[p] \notin {"put", "wait"},
         UNCHANGED <<conn, stopper, wg, count, left, held, crashed, outbound, table>>,
         stopCh' \in Bindings \cup {0}, closing' \in 0 .. 2, closing = 0 \/ closing' # 0,
         Bound' = Bound => OwnerOK',
         p = Keepalive => l \in {"sleep", "stop", "close", "exit"}
  PROVE  IInv'
<1>0. /\ TypeOK /\ PingOK /\ ping' = ping /\ pings' = pings
      /\ ping \in [Pingers -> PingState] /\ pings \subseteq IDs
      /\ outbound \in Seq(Messages) /\ Len(outbound) <= 1
  BY ConnTypes DEF IInv, TypeOK, table
<1>1. PingOK'
  <2>1. \A q \in Pingers : pc'[q] \in {"put", "wait"} <=> pc[q] \in {"put", "wait"}
    BY <1>0, PingerMoves
  <2> QED
    BY <1>0, <2>1, PingSame
<1> QED
  BY <1>0, <1>1, PingerStep

LEMMA KeepaliveExitOK ==
  ASSUME IInv, Alive, KeepaliveExit
  PROVE  IInv'
<1>0. /\ UNCHANGED <<conn, stopCh, stopper, wg, count, left, held, crashed, outbound, closing, table>>
      /\ Goto(Keepalive, "exit") /\ pc[Keepalive] = "sleep" /\ "exit" \in Labels
      /\ closing \in 0 .. 2 /\ stopCh \in Bindings \cup {0} /\ Keepalive \in Pingers
  BY Goroutine DEF IInv, KeepaliveExit, stops, waits, TypeOK, Labels
<1>1. Bound' = Bound => OwnerOK'
  BY <1>0, KeepaliveMoves
<1>2. "exit" \in Labels \ {"put", "wait"} /\ (closing = 0 \/ closing' # 0)
  BY <1>0
<1> QED
  BY <1>0, <1>1, <1>2, OutsidePing

LEMMA ForgetOK ==
  ASSUME IInv, Alive, Forget
  PROVE  IInv'
<1>0. /\ UNCHANGED <<conn, stopper, wg, count, left, held, crashed, outbound, closing, table>>
      /\ Goto(Owner, "unbound") /\ pc[Owner] = "forget" /\ stopCh' = 0
      /\ closing \in 0 .. 2 /\ Owner \in Pingers /\ Owner # Keepalive
      /\ "unbound" \in Labels \ {"put", "wait"}
  BY Goroutine DEF IInv, Forget, waits, TypeOK, Labels
<1>1. pc'[Owner] = "unbound"
  BY <1>0, PingerMoves DEF IInv
<1>2. Bound' = Bound => OwnerOK'
  BY <1>0, <1>1 DEF IInv, LifeOK, OwnerOK
<1> QED
  BY <1>0, <1>2, OutsidePing

LEMMA CloseOK ==
  ASSUME IInv, Alive, Close
  PROVE  IInv'
<1>0. /\ TypeOK /\ LifeOK /\ closing \in 0 .. 2 /\ stopCh \in Bindings \cup {0}
      /\ UNCHANGED <<conn, stopCh, stopper, wg, count, left, held, crashed, outbound, table>>
      /\ Owner \in Pingers /\ Owner # Keepalive /\ closing' = closing + 1
  BY Goroutine DEF IInv, Close, waits, stops, TypeOK
<1>1. PICK l \in {"closing", "closed"} :
        /\ Goto(Owner, l) /\ pc[Owner] \in {"unbound", "bound", "closing"}
        /\ IF l = "closing" THEN closing = 0 ELSE pc[Owner] = "closing"
  BY DEF Close
<1>2. l \in Labels \ {"put", "wait"}
  BY DEF Labels
<1>3. pc'[Owner] = l
  BY <1>0, <1>1, <1>2, PingerMoves
<1>4. closing' = IF l = "closing" THEN 1 ELSE 2
  BY <1>0, <1>1 DEF LifeOK, OwnerOK
<1>5. Bound' = Bound => OwnerOK'
  <2>1. CASE l = "closing"
    BY <1>0, <1>1, <1>3, <1>4, <2>1 DEF LifeOK, OwnerOK
  <2>2. CASE l = "closed"
    BY <1>0, <1>1, <1>3, <1>4, <2>2 DEF LifeOK, OwnerOK
  <2> QED
    BY <2>1, <2>2
<1>6. closing' \in 0 .. 2 /\ (closing = 0 \/ closing' # 0)
  BY <1>4
<1> QED
  BY <1>0, <1>1, <1>2, <1>5, <1>6, OutsidePing

-------------------------------------------------------------------------------
\* Stop.

\* A receive loop in Stop moves on, or closes stopCh and moves on.
LEMMA RecvStops ==
  ASSUME IInv, Alive, NEW b \in Bindings, NEW l \in {"finish", "close"},
         Goto(Recv(b), l), pc[Recv(b)] \in {"stop", "close"},
         UNCHANGED <<held, conn, outbound, closing, stopCh, waits, table, crashed>>,
         stopper' \in [Bindings -> {"nobody", "owner", "keepalive", "recv"}],
         \A c \in Bindings \ {b} : stopper'[c] = stopper[c],
         l = "close" => stopper'[b] \in {"nobody", "keepalive"} \/ left[b] = "early"
  PROVE  IInv'
<1>0. /\ TypeOK /\ PingOK /\ WaitMeansQuiet /\ LifeOK /\ BindingOK(b)
      /\ UNCHANGED <<held, conn, outbound, closing, stopCh, wg, count, left, ping, pings, crashed>>
      /\ Bound' = Bound
  BY BoundSame DEF IInv, waits, table, LifeOK
<1>1. /\ pc' \in [Goroutines -> Labels] /\ pc'[Recv(b)] = l /\ pc'[Send(b)] = pc[Send(b)]
      /\ \A q \in Pingers : pc'[q] = pc[q]
      /\ \A c \in Bindings \ {b} : pc'[Recv(c)] = pc[Recv(c)] /\ pc'[Send(c)] = pc[Send(c)]
  <2>1. Recv(b) \in Goroutines /\ l \in Labels
    BY Goroutine DEF Labels
  <2>2. /\ pc' \in [Goroutines -> Labels] /\ pc'[Recv(b)] = l
        /\ \A q \in Goroutines \ {Recv(b)} : pc'[q] = pc[q]
    BY <1>0, <2>1, GotoOK
  <2> QED
    BY <2>2, Goroutine
<1>2. /\ b = Bound /\ left[b] # "quiet"
      /\ left[b] = "early" \/ (wg = b /\ stopCh = b /\ left[b] = "no")
  <2>1. Runs(b)
    BY DEF Runs
  <2> QED
    BY <1>0, <2>1, RunsOnItsOwn
<1>3. TypeOK'
  BY <1>0, <1>1 DEF TypeOK, Goroutines
<1>4. PingOK'
  BY <1>0, <1>1, PingSame
<1>5. WaitMeansQuiet'
  BY <1>0, <1>1, <1>2, Quiet DEF WaitMeansQuiet
<1>6. OnlyTheseRacesPanic'
  BY <1>0, NoRace
<1>7. LifeOK'
  <2>1. BindingOK(b)'
    BY <1>0, <1>1 DEF BindingOK, Runs, Active
  <2>2. \A c \in Bindings \ {b} : BindingOK(c)'
    BY <1>0, <1>1, Elsewhere DEF LifeOK, SameAt
  <2>3. OwnerOK'
    <3>1. CASE left[b] = "early"
      <4>1. Early'
        BY <1>0, <3>1 DEF Early
      <4> QED
        BY <1>0, <1>1, <4>1, Goroutine DEF LifeOK, OwnerOK
    <3>2. CASE wg = b
      <4>1. wg # 0
        BY <3>2 DEF Bindings
      <4>2. pc[Owner] # "close"
        BY <1>0, <4>1 DEF LifeOK, OwnerOK
      <4> QED
        BY <1>0, <1>1, <4>2, Goroutine DEF LifeOK, OwnerOK
    <3> QED
      BY <1>2, <3>1, <3>2
  <2> QED
    BY <1>0, <1>1, <2>1, <2>2, <2>3, Goroutine DEF LifeOK
<1> QED
  BY <1>3, <1>4, <1>5, <1>6, <1>7 DEF IInv

LEMMA RecvStopOK ==
  ASSUME IInv, Alive, NEW b \in Bindings, Stop(Recv(b))
  PROVE  IInv'
<1>0. /\ TypeOK /\ LifeOK /\ UNCHANGED <<held, conn, outbound, closing, waits, table>>
      /\ stopper \in [Bindings -> {"nobody", "owner", "keepalive", "recv"}]
      /\ stopCh \in Bindings \cup {0} /\ AfterStop(Recv(b)) = "finish"
      /\ Recv(b) \in Goroutines \ Pingers /\ Recv(b)[1] = "recv"
  BY Goroutine DEF IInv, Stop, TypeOK, AfterStop, Pingers
<1>1. ASSUME Runs(b)
      PROVE  /\ b = Bound /\ left[b] # "quiet" /\ stopCh \in {0, b}
             /\ left[b] = "early" \/ (stopCh = b /\ left[b] = "no")
  BY <1>0, <1>1, RunsOnItsOwn DEF LifeOK, OwnerOK
<1>4. b # 0
  BY DEF Bindings
<1>2. CASE /\ pc[Recv(b)] = "stop" /\ UNCHANGED <<stops, crashed>>
           /\ Goto(Recv(b), IF IsStopped THEN AfterStop(Recv(b)) ELSE "close")
  <2>1. Runs(b)
    BY <1>2 DEF Runs
  <2>2. ~IsStopped => stopper[b] = "nobody" \/ left[b] = "early"
    BY <1>1, <2>1 DEF IsStopped, Bindings
  <2>3. stopCh' = stopCh /\ stopper' = stopper
    BY <1>2 DEF stops
  <2>4. CASE IsStopped
    BY <1>0, <1>2, <2>3, <2>4, RecvStops
  <2>5. CASE ~IsStopped
    BY <1>0, <1>2, <2>2, <2>3, <2>5, RecvStops
  <2> QED
    BY <2>4, <2>5
<1>3. CASE /\ pc[Recv(b)] = "close" /\ CloseStopCh(Recv(b)) /\ Goto(Recv(b), "finish")
  <2>1. Runs(b)
    BY <1>3 DEF Runs
  <2>2. CASE stopCh = 0 \/ IsStopped
    <3>1. PICK what \in {"close of nil", "close of closed"} :
            /\ Panic(what, Recv(b)) /\ UNCHANGED stops
            /\ IF stopCh = 0 THEN what = "close of nil" ELSE what = "close of closed"
      BY <1>3, <2>2 DEF CloseStopCh
    <3>2. left' = left /\ stopper' = stopper /\ stopCh' = stopCh
      BY <1>0, <3>1 DEF waits, stops
    <3>3. OnlyTheseRacesPanic'
      <4>1. CASE left[b] = "early"
        BY <3>2, <4>1 DEF OnlyTheseRacesPanic, Early
      <4>2. CASE stopCh = b /\ left[b] = "no"
        <5>0. stopCh # 0
          BY <1>4, <4>2
        <5>1. stopper[b] = "keepalive"
          <6>1. stopper[b] # "nobody"
            BY <2>2, <4>2, <5>0 DEF IsStopped
          <6>2. stopper[b] \in {"nobody", "keepalive"}
            BY <1>0, <1>3, <4>2 DEF LifeOK, BindingOK
          <6> QED
            BY <6>1, <6>2
        <5>2. what = "close of closed"
          BY <3>1, <5>0
        <5> QED
          BY <3>1, <3>2, <4>2, <5>1, <5>2 DEF OnlyTheseRacesPanic, Panic
      <4> QED
        BY <1>1, <2>1, <4>1, <4>2
    <3>4. \A c \in Bindings : left[c] = "quiet" => Recv(b) # Recv(c) /\ Recv(b) # Send(c)
      BY <1>1, <2>1, Goroutine
    <3>5. "finish" \in Labels
      BY DEF Labels
    <3> QED
      BY <1>0, <1>3, <3>1, <3>3, <3>4, <3>5, PanicOK DEF Panics
  <2>3. CASE ~(stopCh = 0 \/ IsStopped)
    <3>1. stopper' = [stopper EXCEPT ![b] = "recv"] /\ UNCHANGED <<stopCh, crashed>>
      BY <1>0, <1>1, <1>3, <2>1, <2>3 DEF CloseStopCh
    <3> QED
      BY <1>0, <1>3, <3>1, RecvStops
  <2> QED
    BY <2>2, <2>3
<1> QED
  BY <1>0, <1>2, <1>3 DEF Stop

\* The owner or keepalive closes stopCh.
LEMMA PingerCloses ==
  ASSUME IInv, Alive, NEW p \in Pingers, NEW l \in {"sleep", "forget"}, Goto(p, l),
         l = IF p = Owner THEN "forget" ELSE "sleep",
         pc[p] = "close", stopCh # 0, stopper' = [stopper EXCEPT ![stopCh] = p[1]],
         UNCHANGED <<held, conn, outbound, closing, stopCh, waits, table, crashed>>
  PROVE  IInv'
<1>0. /\ TypeOK /\ PingOK /\ WaitMeansQuiet /\ LifeOK
      /\ UNCHANGED <<held, conn, outbound, closing, stopCh, wg, count, left, ping, pings, crashed>>
      /\ Bound' = Bound /\ stopCh \in Bindings /\ p[1] \in {"owner", "keepalive"}
      /\ stopper \in [Bindings -> {"nobody", "owner", "keepalive", "recv"}]
  BY BoundSame, Goroutine DEF IInv, waits, table, TypeOK
<1>1. /\ pc' \in [Goroutines -> Labels] /\ pc'[p] = l
      /\ \A q \in Pingers \ {p} : pc'[q] = pc[q]
      /\ \A c \in Bindings : pc'[Recv(c)] = pc[Recv(c)] /\ pc'[Send(c)] = pc[Send(c)]
  <2>1. l \in Labels
    BY DEF Labels
  <2> QED
    BY <1>0, <2>1, PingerMoves
<1>2. /\ stopper' \in [Bindings -> {"nobody", "owner", "keepalive", "recv"}]
      /\ stopper'[stopCh] = p[1] /\ \A c \in Bindings \ {stopCh} : stopper'[c] = stopper[c]
  BY <1>0
<1>3. TypeOK'
  BY <1>0, <1>1, <1>2, ZenonT(40) DEF TypeOK, Goroutines
<1>4. PingOK'
  <2>1. \A q \in Pingers : pc'[q] \in {"put", "wait"} <=> pc[q] \in {"put", "wait"}
    BY <1>1
  <2> QED
    BY <1>0, <2>1, PingSame
<1>5. WaitMeansQuiet'
  BY <1>0, <1>1, Quiet DEF WaitMeansQuiet
<1>6. OnlyTheseRacesPanic'
  BY <1>0, NoRace
<1>7. \A c \in Bindings : BindingOK(c)'
  <2>1. SUFFICES ASSUME NEW c \in Bindings
                 PROVE  BindingOK(c)'
    OBVIOUS
  <2>2. BindingOK(c)
    BY <1>0 DEF LifeOK
  <2>3. CASE c # stopCh
    BY <1>0, <1>1, <1>2, <2>2, <2>3, Elsewhere DEF SameAt
  <2>4. CASE c = stopCh
    <3>1. pc[Recv(c)] = "close" => stopper'[c] = "keepalive" \/ left[c] = "early"
      <4>1. CASE p = Keepalive
        BY <1>2, <2>4, <4>1, Goroutine
      <4>2. CASE p = Owner
        <5>1. wg = 0
          BY <1>0, <4>2 DEF LifeOK, OwnerOK
        <5>2. c # 0
          BY DEF Bindings
        <5> QED
          BY <2>2, <5>1, <5>2 DEF BindingOK, Runs
      <4> QED
        BY <4>1, <4>2, Goroutine
    <3> QED
      BY <1>0, <1>1, <2>2, <3>1 DEF BindingOK, Runs, Active
  <2> QED
    BY <2>3, <2>4
<1>8. OwnerOK'
  <2>1. Early' <=> Early
    BY <1>0, EarlySame
  <2>2. CASE p = Keepalive
    BY <1>0, <1>1, <1>2, <2>2, <2>1, Goroutine DEF LifeOK, OwnerOK
  <2>3. CASE p = Owner
    BY <1>0, <1>1, <1>2, <2>3, <2>1, Goroutine DEF LifeOK, OwnerOK
  <2> QED
    BY <2>2, <2>3, Goroutine
<1>9. pc'[Keepalive] \in {"sleep", "put", "wait", "stop", "close", "exit"}
  BY <1>0, <1>1, Goroutine DEF LifeOK
<1> QED
  BY <1>0, <1>3, <1>4, <1>5, <1>6, <1>7, <1>8, <1>9 DEF IInv, LifeOK

LEMMA PingerStopOK ==
  ASSUME IInv, Alive, NEW p \in Pingers, Stop(p)
  PROVE  IInv'
<1> DEFINE after == IF p = Owner THEN "forget" ELSE "sleep"
<1>0. /\ TypeOK /\ LifeOK /\ UNCHANGED <<held, conn, outbound, closing, waits, table>>
      /\ stopCh \in Bindings \cup {0} /\ closing \in 0 .. 2
      /\ AfterStop(p) = after /\ after \in Labels \ {"put", "wait"}
      /\ "close" \in Labels \ {"put", "wait"} /\ Owner # Keepalive /\ Pingers = {Owner, Keepalive}
      /\ UNCHANGED <<held, conn, outbound, closing, wg, count, left, table>>
  BY Goroutine DEF IInv, Stop, TypeOK, AfterStop, Labels, waits
<1> HIDE DEF after
<1>1. CASE pc[p] = "stop" /\ UNCHANGED <<stops, crashed>>
           /\ Goto(p, IF IsStopped THEN AfterStop(p) ELSE "close")
  <2>1. PICK l \in {after, "close"} : Goto(p, l) /\ (l = "close" => ~IsStopped)
    BY <1>0, <1>1 DEF after
  <2>2. stopCh' = stopCh /\ stopper' = stopper
    BY <1>1 DEF stops
  <2>3. l \in Labels \ {"put", "wait"}
    BY <1>0
  <2>4. Bound' = Bound => OwnerOK'
    <3>1. CASE p = Keepalive
      BY <1>0, <2>1, <2>2, <2>3, <3>1, KeepaliveMoves
    <3>2. CASE p = Owner
      <4>1. pc'[Owner] = l
        BY <1>0, <2>1, <2>3, <3>2, PingerMoves
      <4>2. l = "forget" \/ (l = "close" /\ ~IsStopped)
        BY <2>1, <3>2 DEF after
      <4>3. ~IsStopped => stopper[stopCh] = "nobody" \/ stopCh = 0
        BY DEF IsStopped
      <4>4. pc[Owner] = "stop"
        BY <1>1, <3>2
      <4>5. wg = 0 /\ stopCh = Bound /\ Bound # 0 /\ closing = 0
        BY <1>0, <4>4 DEF LifeOK, OwnerOK
      <4> QED
        BY <1>0, <2>2, <4>1, <4>2, <4>3, <4>5 DEF OwnerOK
    <3> QED
      BY <1>0, <3>1, <3>2
  <2>5. p = Keepalive => l \in {"sleep", "stop", "close", "exit"}
    BY <1>0, <2>1 DEF after
  <2> QED
    BY <1>0, <1>1, <2>1, <2>2, <2>3, <2>4, <2>5, OutsidePing
<1>2. CASE pc[p] = "close" /\ CloseStopCh(p) /\ Goto(p, after)
  <2>1. CASE stopCh = 0 \/ IsStopped
    <3>1. PICK what \in {"close of nil", "close of closed"} :
            /\ Panic(what, p) /\ UNCHANGED stops
            /\ IF stopCh = 0 THEN what = "close of nil" ELSE what = "close of closed"
      BY <1>2, <2>1 DEF CloseStopCh
    <3>2. UNCHANGED <<left, wg, stopper, stopCh>>
      BY <1>0, <3>1 DEF stops
    <3>3. OnlyTheseRacesPanic'
      <4>1. CASE p = Keepalive
        <5>1. stopCh = 0 => wg = 0
          BY <1>0 DEF LifeOK, OwnerOK
        <5> QED
          BY <3>1, <3>2, <4>1, <5>1, Goroutine DEF OnlyTheseRacesPanic, Panic
      <4>2. CASE p = Owner
        <5>1. stopCh # 0 /\ (stopper[stopCh] \in {"nobody", "keepalive"} \/ Early)
          BY <1>0, <1>2, <4>2 DEF LifeOK, OwnerOK
        <5>2. stopper[stopCh] # "nobody" /\ what = "close of closed"
          BY <2>1, <3>1, <5>1 DEF IsStopped
        <5>3. Early => Early'
          BY <3>2, EarlySame
        <5> QED
          BY <3>1, <3>2, <5>1, <5>2, <5>3 DEF OnlyTheseRacesPanic, Panic
      <4> QED
        BY <1>0, <4>1, <4>2
    <3>4. /\ p \in Goroutines /\ p[1] \in {"owner", "keepalive"}
          /\ \A c \in Bindings : p # Recv(c) /\ p # Send(c)
      BY Goroutine
    <3> QED
      BY <1>0, <1>2, <3>1, <3>3, <3>4, PanicOK DEF Panics
  <2>2. CASE ~(stopCh = 0 \/ IsStopped)
    <3>1. stopper' = [stopper EXCEPT ![stopCh] = p[1]] /\ UNCHANGED <<stopCh, crashed>> /\ stopCh # 0
      BY <1>2, <2>2 DEF CloseStopCh
    <3> QED
      BY <1>0, <1>2, <3>1, PingerCloses DEF after
  <2> QED
    BY <2>1, <2>2
<1> QED
  BY <1>0, <1>1, <1>2 DEF Stop

-------------------------------------------------------------------------------
\* Bind and Wait.

LEMMA BindOK ==
  ASSUME IInv, Alive, Bind
  PROVE  IInv'
<1> DEFINE b == Bound + 1
           c == [conn[b] EXCEPT !.state = "live"]
<1>0. /\ TypeOK /\ PingOK /\ WaitMeansQuiet /\ LifeOK /\ OwnerOK /\ pc[Owner] = "unbound"
      /\ wg = 0 /\ stopCh = 0 /\ closing = 0
      /\ Bound \in 0 .. MaxBinds /\ Bound < MaxBinds /\ b \in Bindings
      /\ conn \in [Bindings -> ConnState] /\ ConnCap \in Nat
      /\ \A d \in Bindings : Len(conn[d].out) <= ConnCap /\ Len(conn[d].in) <= ConnCap
  BY ConnTypes, BindsAssumption DEF IInv, LifeOK, OwnerOK, Bind, Bindings
<1>1. /\ \A d \in Bindings : left[d] # "early"
      /\ wg' = b /\ stopCh' = b /\ conn' = [conn EXCEPT ![b] = c]
      /\ pc' = [pc EXCEPT ![Owner] = "put", ![Recv(b)] = "start", ![Send(b)] = "start"]
      /\ Register(Owner)
      /\ UNCHANGED <<held, outbound, closing, stopper, count, left, crashed>>
  BY DEF Bind
<1> HIDE DEF b
<1>2. c \in ConnState /\ c.state = "live" /\ c.in = conn[b].in /\ c.out = conn[b].out
  BY <1>0 DEF ConnState
<1> HIDE DEF c
<1>3. /\ conn' \in [Bindings -> ConnState] /\ conn'[b] = c
      /\ \A d \in Bindings \ {b} : conn'[d] = conn[d]
      /\ \A d \in Bindings : conn'[d].in = conn[d].in /\ conn'[d].out = conn[d].out
  BY <1>0, <1>1, <1>2
<1>4. /\ pc' \in [Goroutines -> Labels] /\ pc'[Owner] = "put" /\ pc'[Keepalive] = pc[Keepalive]
      /\ pc'[Recv(b)] = "start" /\ pc'[Send(b)] = "start"
      /\ \A d \in Bindings \ {b} : pc'[Recv(d)] = pc[Recv(d)] /\ pc'[Send(d)] = pc[Send(d)]
  <2>1. pc \in [Goroutines -> Labels] /\ {"put", "start"} \subseteq Labels
    BY <1>0 DEF TypeOK, Goroutines, Labels
  <2> QED
    BY <1>0, <1>1, <2>1, Goroutine
<1>5. \A d \in Bindings : conn[d].state = "none" <=> Bound < d
  BY <1>0 DEF LifeOK, BindingOK
<1>6. Bound' = Bound + 1
  <2>1. \A d \in Bindings : conn'[d].state = "none" <=> Bound + 1 < d
    <3>1. SUFFICES ASSUME NEW d \in Bindings
                   PROVE  conn'[d].state = "none" <=> Bound + 1 < d
      OBVIOUS
    <3>2. CASE d = b
      BY <1>0, <1>2, <1>3, <3>2 DEF b
    <3>3. CASE d # b
      BY <1>0, <1>3, <1>5, <3>3 DEF b, Bindings
    <3> QED
      BY <3>2, <3>3
  <2> QED
    BY <1>0, <1>5, <2>1, BoundMore
<1>7. PingOK'
  <2>1. /\ Owner \in Pingers /\ \A q \in Pingers \ {Owner} : pc'[q] = pc[q]
    BY <1>4, Goroutine
  <2> QED
    BY <1>0, <1>1, <1>3, <1>4, <2>1, RegisterOK
<1>8. TypeOK'
  <2>1. ping' \in [Pingers -> [id : IDs \cup {0}, told : BOOLEAN, answered : BOOLEAN]]
        /\ pings' \subseteq IDs
    <3>1. /\ Owner \in Pingers /\ \A q \in Pingers \ {Owner} : pc'[q] = pc[q]
      BY <1>4, Goroutine
    <3> QED
      BY <1>0, <1>1, <1>3, <1>4, <3>1, RegisterOK DEF PingState
  <2>2. conn' \in [Bindings -> [state : {"none", "live", "silent", "broken", "closed"},
                               out : Seq(Messages \cup {Nothing}), in : Seq(Messages)]]
    BY <1>3 DEF ConnState
  <2>3. \A d \in Bindings : Len(conn'[d].out) <= ConnCap /\ Len(conn'[d].in) <= ConnCap
    BY <1>0, <1>3
  <2> QED
    BY <1>0, <1>1, <1>4, <2>1, <2>2, <2>3 DEF TypeOK, Goroutines
<1>9. left[b] = "no"
  BY <1>0 DEF LifeOK, BindingOK, b
<1>10. WaitMeansQuiet'
  <2>1. \A d \in Bindings : left[d] = "quiet" => d # b
    BY <1>9
  <2>2. \A d \in Bindings : left[d] = "quiet" =>
          pc[Recv(d)] = "done" /\ pc[Send(d)] = "done" /\ conn[d].state = "closed"
    BY <1>0 DEF WaitMeansQuiet
  <2>3. \A d \in Bindings : left[d] = "quiet" =>
          pc'[Recv(d)] = "done" /\ pc'[Send(d)] = "done" /\ conn'[d].state = "closed"
    BY <1>3, <1>4, <2>1, <2>2
  <2>4. WaitMeansQuiet /\ left' = left
    BY <1>0, <1>1
  <2> QED
    BY <2>3, <2>4, Quiet
<1>11. OnlyTheseRacesPanic'
  BY <1>1, NoRace
<1>12. \A d \in Bindings : BindingOK(d)'
  <2>1. SUFFICES ASSUME NEW d \in Bindings
                 PROVE  BindingOK(d)'
    OBVIOUS
  <2>2. BindingOK(d)
    BY <1>0 DEF LifeOK
  <2>3. CASE d = b
    <3>1. Bound < d /\ ~(Bound' < d) /\ wg' = d /\ left'[d] = "no"
      BY <1>0, <1>1, <1>6, <1>9, <2>3 DEF b
    <3>2. count[d] = 0
      BY <2>2, <3>1 DEF BindingOK, Active
    <3>3. pc'[Recv(d)] = "start" /\ pc'[Send(d)] = "start" /\ conn'[d].state = "live" /\ count'[d] = 0
      BY <1>1, <1>2, <1>3, <1>4, <2>3, <3>2
    <3> QED
      BY <3>1, <3>3 DEF BindingOK, Runs, Active
  <2>4. CASE d # b
    <3>1. (Bound' < d <=> Bound < d) /\ wg' # d /\ d # 0
      BY <1>0, <1>1, <1>6, <2>4 DEF b, Bindings
    <3>2. /\ pc'[Recv(d)] = pc[Recv(d)] /\ pc'[Send(d)] = pc[Send(d)]
          /\ conn'[d] = conn[d] /\ count' = count /\ left' = left /\ stopper' = stopper
          /\ left[d] # "early" /\ wg = 0
      BY <1>0, <1>1, <1>3, <1>4, <2>4
    <3> QED
      BY <2>2, <3>1, <3>2 DEF BindingOK, Runs, Active
  <2> QED
    BY <2>3, <2>4
<1>13. OwnerOK'
  BY <1>0, <1>1, <1>4, <1>6 DEF OwnerOK, b
<1>14. LifeOK'
  <2>1. Bound' \in 0 .. MaxBinds
    BY <1>0, <1>6, BindsAssumption
  <2>2. pc'[Keepalive] \in {"sleep", "put", "wait", "stop", "close", "exit"}
    BY <1>0, <1>4 DEF LifeOK
  <2> QED
    BY <1>12, <1>13, <2>1, <2>2 DEF LifeOK
<1> QED
  BY <1>7, <1>8, <1>10, <1>11, <1>14 DEF IInv

LEMMA WaitOK ==
  ASSUME IInv, Alive, Wait
  PROVE  IInv'
<1> DEFINE how == IF "start" \in {pc[Recv(wg)], pc[Send(wg)]} THEN "early" ELSE "quiet"
<1>0. /\ TypeOK /\ PingOK /\ WaitMeansQuiet /\ LifeOK /\ OwnerOK
      /\ pc[Owner] = "bound" /\ count[wg] = 0 /\ wg' = 0
      /\ left' = [left EXCEPT ![wg] = how] /\ Goto(Owner, "stop")
      /\ UNCHANGED <<held, conn, outbound, closing, stopCh, stopper, count, ping, pings, crashed>>
      /\ Bound' = Bound /\ left \in [Bindings -> {"no", "quiet", "early"}]
  BY BoundSame DEF IInv, LifeOK, Wait, stops, table, TypeOK
<1>1. wg = Bound /\ stopCh = Bound /\ Bound # 0 /\ wg \in Bindings /\ closing = 0
  BY <1>0 DEF OwnerOK, LifeOK, Bindings
<1>2. /\ left' \in [Bindings -> {"no", "quiet", "early"}] /\ left'[wg] = how
      /\ how \in {"quiet", "early"} /\ \A d \in Bindings \ {wg} : left'[d] = left[d]
  BY <1>0, <1>1
<1>3. /\ pc' \in [Goroutines -> Labels] /\ pc'[Owner] = "stop"
      /\ \A q \in Pingers \ {Owner} : pc'[q] = pc[q]
      /\ \A d \in Bindings : pc'[Recv(d)] = pc[Recv(d)] /\ pc'[Send(d)] = pc[Send(d)]
  <2>1. Owner \in Pingers /\ "stop" \in Labels
    BY Goroutine DEF Labels
  <2> QED
    BY <1>0, <2>1, PingerMoves
<1>4. BindingOK(wg)
  BY <1>0, <1>1 DEF LifeOK
<1>5. pc[Recv(wg)] \in {"start", "done"} /\ pc[Send(wg)] \in {"start", "done"}
  <2>1. ~(Bound < wg)
    BY <1>0, <1>1 DEF LifeOK
  <2>2. Active(pc[Recv(wg)]) = 0 /\ Active(pc[Send(wg)]) = 0
    BY <1>0, <1>4 DEF BindingOK, Active
  <2> QED
    BY <1>4, <2>1, <2>2 DEF BindingOK, Active
<1>6. how = "quiet" =>
        pc[Recv(wg)] = "done" /\ pc[Send(wg)] = "done" /\ conn[wg].state = "closed"
  BY <1>4, <1>5 DEF BindingOK
<1> HIDE DEF how
<1>7. TypeOK'
  BY <1>0, <1>2, <1>3 DEF TypeOK, Goroutines
<1>8. PingOK'
  <2>1. \A q \in Pingers : pc'[q] \in {"put", "wait"} <=> pc[q] \in {"put", "wait"}
    BY <1>0, <1>3
  <2> QED
    BY <1>0, <2>1, PingSame
<1>9. WaitMeansQuiet'
  <2>1. SUFFICES ASSUME NEW d \in Bindings, left'[d] = "quiet"
                 PROVE  pc[Recv(d)] = "done" /\ pc[Send(d)] = "done" /\ conn[d].state = "closed"
    BY <1>0, <1>3 DEF WaitMeansQuiet
  <2>2. CASE d = wg
    BY <1>2, <1>6, <2>1, <2>2
  <2>3. CASE d # wg
    BY <1>0, <1>2, <2>1, <2>3 DEF WaitMeansQuiet
  <2> QED
    BY <2>2, <2>3
<1>10. OnlyTheseRacesPanic'
  BY <1>0, NoRace
<1>11. \A d \in Bindings : BindingOK(d)'
  <2>1. SUFFICES ASSUME NEW d \in Bindings
                 PROVE  BindingOK(d)'
    OBVIOUS
  <2>2. BindingOK(d) /\ d # 0
    BY <1>0 DEF LifeOK, Bindings
  <2>3. CASE d = wg
    <3>1. ~(Bound' < d) /\ d = Bound' /\ wg' # d /\ left'[d] = how
      BY <1>0, <1>1, <1>2, <2>2, <2>3 DEF LifeOK
    <3>2. /\ pc'[Recv(d)] = pc[Recv(d)] /\ pc'[Send(d)] = pc[Send(d)]
          /\ pc[Recv(d)] \in {"start", "done"} /\ pc[Send(d)] \in {"start", "done"}
          /\ conn' = conn /\ count' = count /\ stopper' = stopper
          /\ how = "quiet" => pc[Recv(d)] = "done" /\ pc[Send(d)] = "done"
      BY <1>0, <1>3, <1>5, <1>6, <2>3
    <3> QED
      BY <1>0, <1>2, <2>2, <3>1, <3>2 DEF BindingOK, Runs, Active
  <2>4. CASE d # wg
    <3>1. left'[d] = left[d] /\ left[d] # "early"
      BY <1>1, <1>2, <2>2, <2>4 DEF BindingOK
    <3>2. /\ pc'[Recv(d)] = pc[Recv(d)] /\ pc'[Send(d)] = pc[Send(d)]
          /\ conn' = conn /\ count' = count /\ stopper' = stopper /\ wg' = 0
      BY <1>0, <1>3
    <3> QED
      BY <1>0, <2>2, <2>4, <3>1, <3>2 DEF BindingOK, Runs, Active
  <2> QED
    BY <2>3, <2>4
<1>12. OwnerOK'
  BY <1>0, <1>1, <1>3 DEF OwnerOK
<1>13. LifeOK'
  BY <1>0, <1>3, <1>11, <1>12, Goroutine DEF LifeOK
<1> QED
  BY <1>7, <1>8, <1>9, <1>10, <1>13 DEF IInv

-------------------------------------------------------------------------------
\* Every step, and the theorems.

LEMMA InitOK ==
  ASSUME Init
  PROVE  IInv
<1>1. Bound = 0
  <2>1. {b \in Bindings : conn[b].state # "none"} = {}
    BY DEF Init
  <2> QED
    BY <2>1, FS_EmptySet DEF Bound
<1>2. /\ pc \in [Goroutines -> Labels] /\ pc[Owner] = "unbound" /\ pc[Keepalive] = "sleep"
      /\ \A b \in Bindings : pc[Recv(b)] = "none" /\ pc[Send(b)] = "none"
  <2>1. \A p \in Goroutines : pc[p] = CASE p = Owner -> "unbound"
                                      [] p = Keepalive -> "sleep" [] OTHER -> "none"
    BY DEF Init, Goroutines
  <2>2. pc[Owner] = "unbound" /\ pc[Keepalive] = "sleep"
    BY <2>1, Goroutine
  <2>3. \A b \in Bindings : pc[Recv(b)] = "none" /\ pc[Send(b)] = "none"
    BY <2>1, Goroutine DEF Pingers
  <2>4. pc \in [Goroutines -> Labels]
    BY Goroutine DEF Init, Goroutines, Labels
  <2> QED
    BY <2>2, <2>3, <2>4
<1>3. /\ held = [b \in Bindings |-> Nothing]
      /\ conn = [b \in Bindings |-> [state |-> "none", out |-> <<>>, in |-> <<>>]]
      /\ outbound = <<>> /\ closing = 0 /\ stopCh = 0 /\ wg = 0 /\ pings = {}
      /\ stopper = [b \in Bindings |-> "nobody"]
      /\ count = [b \in Bindings |-> 0] /\ left = [b \in Bindings |-> "no"]
      /\ ping = [p \in Pingers |-> NoPing] /\ crashed = NoCrash
  BY DEF Init
<1>4. /\ NoPing \in PingState /\ NoPing.id = 0 /\ NoPing.told = FALSE /\ NoPing.answered = FALSE
  BY DEF NoPing, PingState
<1>5. ping \in [Pingers -> PingState] /\ \A p \in Pingers : ping[p] = NoPing
  BY <1>3, <1>4
<1>6. /\ conn \in [Bindings -> ConnState]
      /\ \A b \in Bindings : conn[b].state = "none" /\ conn[b].out = <<>> /\ conn[b].in = <<>>
  BY <1>3 DEF ConnState
<1>7. TypeOK
  <2>1. \A b \in Bindings : Len(conn[b].out) <= ConnCap /\ Len(conn[b].in) <= ConnCap
    BY <1>6, ConnAssumption
  <2>2. conn \in [Bindings -> [state : {"none", "live", "silent", "broken", "closed"},
                              out : Seq(Messages \cup {Nothing}), in : Seq(Messages)]]
    BY <1>6 DEF ConnState
  <2>3. ping \in [Pingers -> [id : IDs \cup {0}, told : BOOLEAN, answered : BOOLEAN]]
    BY <1>5 DEF PingState
  <2>4. outbound \in Seq(Messages) /\ Len(outbound) <= 1
    BY <1>3
  <2>5. crashed \in [what : {"no", "close of nil", "close of closed", "send on closed", "nil wg",
                            "empty message"},
                    who : {"nobody", "owner", "keepalive", "recv", "send"}]
    BY <1>3 DEF NoCrash
  <2>6. /\ held \in [Bindings -> Messages \cup {Nothing}]
        /\ stopper \in [Bindings -> {"nobody", "owner", "keepalive", "recv"}]
        /\ left \in [Bindings -> {"no", "quiet", "early"}]
    BY <1>3
  <2>7. count \in [Bindings -> 0 .. 2 * MaxBinds]
    <3>1. 0 \in 0 .. 2 * MaxBinds
      BY BindsAssumption
    <3> QED
      BY <1>3, <3>1
  <2>8. /\ closing \in 0 .. 2 /\ stopCh \in Bindings \cup {0} /\ wg \in Bindings \cup {0}
        /\ pings \subseteq IDs
    BY <1>3
  <2> QED
    BY <1>2, <2>1, <2>2, <2>3, <2>4, <2>5, <2>6, <2>7, <2>8 DEF TypeOK, Goroutines
<1>8. PingOK
  <2>1. \A p \in Pingers : pc[p] \notin {"put", "wait"}
    BY <1>2 DEF Pingers
  <2>2. \A b \in Bindings : DOMAIN conn[b].in = {}
    BY <1>6
  <2> QED
    BY <1>3, <1>4, <1>5, <2>1, <2>2, Goroutine DEF PingOK, PingIsOwn, PingTable
<1>9. WaitMeansQuiet
  BY <1>3 DEF WaitMeansQuiet
<1>10. OnlyTheseRacesPanic
  BY <1>3 DEF OnlyTheseRacesPanic, NoCrash
<1>11. LifeOK
  <2>1. \A b \in Bindings : BindingOK(b)
    BY <1>1, <1>2, <1>3, <1>6 DEF BindingOK, Runs, Active, Bindings
  <2>2. OwnerOK
    BY <1>1, <1>2, <1>3 DEF OwnerOK
  <2> QED
    BY <1>1, <1>2, <2>1, <2>2, BindsAssumption DEF LifeOK
<1> QED
  BY <1>7, <1>8, <1>9, <1>10, <1>11 DEF IInv

LEMMA NextOK ==
  ASSUME IInv, Next
  PROVE  IInv'
<1>0. Alive
  BY DEF Next
<1>1. CASE Bind
  BY <1>0, <1>1, BindOK
<1>2. CASE Waiting
  BY <1>0, <1>2, WaitOK, PingerStopOK, ForgetOK, Goroutine DEF Waiting
<1>3. CASE Close
  BY <1>0, <1>3, CloseOK
<1>4. CASE KeepAlive
  BY <1>0, <1>4, KeepaliveWakeOK, PingerStopOK, KeepaliveExitOK, Goroutine DEF KeepAlive
<1>5. ASSUME NEW p \in Pingers, Ping(p)
      PROVE  IInv'
  BY <1>0, <1>5, PutRequestOK, PingWokenOK, PingTimeoutOK DEF Ping
<1>6. ASSUME NEW b \in Bindings, RecvLoop(b)
      PROVE  IInv'
  BY <1>0, <1>6, StartOK, ReceiveResponseOK, ReceiveOtherOK, RecvErrorOK, ReplyOK, RecvStopOK,
     FinishOK DEF RecvLoop
<1>7. ASSUME NEW b \in Bindings, SendLoop(b)
      PROVE  IInv'
  BY <1>0, <1>7, StartOK, TakeOutboundOK, WriteConnOK, HearStopOK, CloseConnOK, FinishOK
     DEF SendLoop
<1>8. ASSUME NEW b \in Bindings, PeerTakes(b)
      PROVE  IInv'
  BY <1>0, <1>8, PeerTakesOK
<1>9. ASSUME NEW b \in Bindings, NEW how \in {"silent", "broken"}, Fail(b, how)
      PROVE  IInv'
  BY <1>0, <1>9, FailOK
<1> QED
  BY <1>1, <1>2, <1>3, <1>4, <1>5, <1>6, <1>7, <1>8, <1>9 DEF Next

LEMMA StutterOK ==
  ASSUME IInv, UNCHANGED vars
  PROVE  IInv'
<1>1. UNCHANGED <<pc, held, conn, outbound, closing, stopCh, stopper, wg, count, left, ping, pings, crashed>>
  BY DEF vars, stops, waits, table
<1>2. Bound' = Bound
  BY <1>1, BoundSame
<1>3. TypeOK' /\ WaitMeansQuiet' /\ OnlyTheseRacesPanic'
  <2>1. TypeOK'
    BY <1>1 DEF IInv, TypeOK
  <2>2. WaitMeansQuiet'
    BY <1>1 DEF IInv, WaitMeansQuiet
  <2>3. OnlyTheseRacesPanic'
    BY <1>1, <1>2, EarlySame DEF IInv, OnlyTheseRacesPanic
  <2> QED
    BY <2>1, <2>2, <2>3
<1>4. PingOK'
  BY <1>1 DEF IInv, PingOK, PingIsOwn, PingTable
<1>5. Alive' => LifeOK'
  <2>1. SUFFICES ASSUME Alive'
                 PROVE  LifeOK'
    OBVIOUS
  <2>2. LifeOK /\ WaitMeansQuiet
    BY <1>1, <2>1 DEF IInv, Alive
  <2> QED
    BY <1>1, <2>2, LifeStays
<1> QED
  BY <1>3, <1>4, <1>5 DEF IInv

\* The parts of the invariant hold together of every reachable state of link.go.
THEOREM Invariance == Spec => []IInv
<1>1. Init => IInv
  BY InitOK
<1>2. IInv /\ [Next]_vars => IInv'
  BY NextOK, StutterOK
<1> QED
  BY <1>1, <1>2, PTL DEF Spec

\* No queue overflows, no WaitGroup goes below zero, and every goroutine is at a place it has.
THEOREM TypeCorrect == Spec => []TypeOK
<1>1. IInv => TypeOK
  BY DEF IInv
<1> QED
  BY <1>1, Invariance, PTL

\* Ping returns nil only for an answer to its own request, whatever arrives late.
THEOREM PingsAreOwn == Spec => []PingIsOwn
<1>1. IInv => PingIsOwn
  BY DEF IInv, PingOK
<1> QED
  BY <1>1, Invariance, PTL

\* Link.pings holds exactly those who can still be told, until Close.
THEOREM TableAgrees == Spec => []PingTable
<1>1. IInv => PingTable
  BY DEF IInv, PingOK
<1> QED
  BY <1>1, Invariance, PTL

\* Link.Wait leaves neither a loop nor an open connection of its binding behind.
THEOREM WaitIsQuiet == Spec => []WaitMeansQuiet
<1>1. IInv => WaitMeansQuiet
  BY DEF IInv
<1> QED
  BY <1>1, Invariance, PTL

\* The panics of link.go the life of a link can end in, and who races in them, are the
\* listed ones; a receive loop panics on an empty message only if there are any.
THEOREM OnlyListedPanics == Spec => []OnlyTheseRacesPanic
<1>1. IInv => OnlyTheseRacesPanic
  BY DEF IInv
<1> QED
  BY <1>1, Invariance, PTL
===============================================================================
