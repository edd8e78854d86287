------------------------------- MODULE UDPSocket -------------------------------
(***************************************************************************)
(* Sockets of proto/udp/udp.go: how Conns come and go.                     *)
(*                                                                         *)
(* Each socket has a receive loop, which looks up the Conn of the sender   *)
(* of a datagram in connPool, makes one for an unknown sender and offers   *)
(* it to Accept over clientCh (one Conn), and a garbage collection, which  *)
(* closes and forgets Conns that were idle for defaultConnTimeout.  The    *)
(* same code runs at the server and, once its handshake is over, at each   *)
(* client; a client moreover pings the server for ever.                    *)
(*                                                                         *)
(* Time is left open: a Conn may be idle long enough whenever the garbage  *)
(* collection looks.  What a Ping returns is ignored by its only caller,   *)
(* so answer, timeout and shutdown of a Ping are one, and ids of pings are *)
(* left out.  Messages over a Conn are the subject of UDPTransfer.         *)
(***************************************************************************)
EXTENDS Integers, Sequences, FiniteSets

CONSTANTS
  Clients,    \* the addresses of the clients
  Server,     \* the address of the server
  MaxConns,   \* bound: Conns a socket makes for one address
  MaxStarts,  \* bound: how often the process of a client is started
  Faults      \* what may happen at each socket: "lose" datagrams from and to it get
              \* lost, "idle" its Conns may expire, "close" its application closes
              \* Conns, "stop" its net.UDPConn is closed, "restart" (client) its
              \* process ends and another one takes its address

Sockets  == Clients \cup {Server}
Peers(s) == IF s = Server THEN Clients ELSE {Server}

ASSUME ServerAssumption == Server \notin Clients
ASSUME BoundAssumption  == MaxConns \in [Sockets -> Nat \ {0}] /\ MaxStarts \in Nat \ {0}
ASSUME FaultAssumption  ==
  Faults \in [Sockets -> SUBSET {"lose", "idle", "close", "stop", "restart"}]

VARIABLES
  net,        \* the datagrams in flight
  phase,      \* where NewClientSocket of each client is
  starts,     \* processes each client has had
  stopped,    \* sockets whose net.UDPConn is closed
  conns,      \* the Conns each socket made for each address, in order: "open", "closed"
              \* by the application, "gone": closed and forgotten by garbageCollection
  pool,       \* connPool.addrConnMap: which of them, 0: none
  loop,       \* the receive loop: where it is, the datagram and the Conn it is at
  clientCh,   \* udpserver.clientCh
  idle,       \* the addresses garbageCollection has collected
  lost,       \* history: the clients whose SYN or the ACK to it got lost
  accepted,   \* history: the Conns Accept returned to the application of the server
  crashed     \* the panic that ended a process: "gc" or "app" closes a Conn the other one
              \* has closed, or "nil": garbageCollection misses an entry

ends == <<phase, starts, stopped, lost>>
vars == <<net, ends, conns, pool, loop, clientCh, idle, accepted, crashed>>

Datagram(from, to, type) == [from |-> from, to |-> to, type |-> type]
At(pc, d, n)    == [pc |-> pc, d |-> d, n |-> n]
NoDatagram      == Datagram(Server, Server, "none")
Loop(s, l)      == loop' = [loop EXCEPT ![s] = l]
NotRunning      == At("off", NoDatagram, 0)
Reading         == At("read", NoDatagram, 0)
NoPanic         == [who |-> Server, what |-> "no"]
Alive           == crashed = NoPanic

-------------------------------------------------------------------------------
\* connPool.

Made(s, a) == Len(conns[s][a])

\* connPool.New, put into the pool
Insert(s, a) ==
  /\ conns' = [conns EXCEPT ![s][a] = Append(@, "open")]
  /\ pool' = [pool EXCEPT ![s][a] = Made(s, a) + 1]

\* mistake: a Conn the application has closed is left alone
CandidatesOpen(s) == {a \in Peers(s) : pool[s][a] # 0 /\ conns[s][a][pool[s][a]] = "open"}

\* for addr, conn := range p.addrConnMap
Candidates(s) == {a \in Peers(s) : pool[s][a] # 0}

\* First lock of GarbageCollection.  Bound: what is collected can be made again, or
\* its end is stopped.
Collect(s) ==
  /\ "idle" \in Faults[s] /\ idle[s] = {} /\ phase[s] = "up"
  /\ \E expired \in SUBSET Candidates(s) \ {{}} :
       /\ \A a \in expired : a \in stopped \/ pool[s][a] < MaxConns[s]
       /\ idle' = [idle EXCEPT ![s] = expired]
  /\ UNCHANGED <<net, ends, conns, pool, loop, clientCh, accepted, crashed>>

Without(s, A) == pool' = [pool EXCEPT ![s] = [a \in Peers(s) |-> IF a \in A THEN 0 ELSE @[a]]]

\* mistake: the Conn is forgotten and not closed
CloseNone(s) == UNCHANGED conns

\* p.addrConnMap[addr].Close(), for each address that was collected
CloseIdle(s) ==
  conns' = [conns EXCEPT ![s] = [a \in Peers(s) |->
              IF a \in idle[s] THEN [@[a] EXCEPT ![pool[s][a]] = "gone"] ELSE @[a]]]

\* Second lock of GarbageCollection: what was collected is closed and deleted, whatever
\* has been received meanwhile.
Sweep(s) ==
  /\ idle[s] # {}
  /\ IF \A a \in idle[s] : pool[s][a] # 0 /\ conns[s][a][pool[s][a]] = "open"
     THEN CloseIdle(s) /\ Without(s, idle[s]) /\ UNCHANGED crashed
     ELSE /\ crashed' = [who |-> s, what |-> IF \E a \in idle[s] : pool[s][a] = 0
                                             THEN "nil" ELSE "gc"]
          /\ UNCHANGED <<conns, pool>>
  /\ idle' = [idle EXCEPT ![s] = {}]
  /\ UNCHANGED <<net, ends, loop, clientCh, accepted>>

-------------------------------------------------------------------------------
\* recv.

\* ReadFromUDP and connPool.Get.  Bound: see MaxConns.
Receive(s, a) ==
  /\ loop[s].pc = "read" /\ s \notin stopped
  /\ \E d \in net :
       /\ d.to = s /\ d.from = a
       /\ pool[s][a] = 0 => Made(s, a) < MaxConns[s]
       /\ net' = net \ {d}
       /\ Loop(s, At(IF pool[s][a] = 0 THEN "new" ELSE "handle", d, pool[s][a]))
  /\ UNCHANGED <<ends, conns, pool, clientCh, idle, accepted, crashed>>

\* connPool.New; its test for the address never succeeds after Get: nobody else inserts.
New(s) ==
  /\ loop[s].pc = "new"
  /\ Insert(s, loop[s].d.from)
  /\ Loop(s, At("offer", loop[s].d, Made(s, loop[s].d.from) + 1))
  /\ UNCHANGED <<net, ends, clientCh, idle, accepted, crashed>>

\* mistake: a Conn that finds clientCh full is not offered
OfferOrSkip(s) ==
  /\ loop[s].pc = "offer"
  /\ clientCh' = [clientCh EXCEPT ![s] = IF @ = <<>> THEN <<<<loop[s].d.from, loop[s].n>>>> ELSE @]
  /\ Loop(s, [loop[s] EXCEPT !.pc = "handle"])
  /\ UNCHANGED <<net, ends, conns, pool, idle, accepted, crashed>>

\* mistake: clientCh is not bounded
OfferAtOnce(s) ==
  /\ loop[s].pc = "offer"
  /\ clientCh' = [clientCh EXCEPT ![s] = Append(@, <<loop[s].d.from, loop[s].n>>)]
  /\ Loop(s, [loop[s] EXCEPT !.pc = "handle"])
  /\ UNCHANGED <<net, ends, conns, pool, idle, accepted, crashed>>

\* p.clientCh <- conn
Offer(s) ==
  /\ loop[s].pc = "offer" /\ clientCh[s] = <<>>
  /\ clientCh' = [clientCh EXCEPT ![s] = <<<<loop[s].d.from, loop[s].n>>>>]
  /\ Loop(s, [loop[s] EXCEPT !.pc = "handle"])
  /\ UNCHANGED <<net, ends, conns, pool, idle, accepted, crashed>>

\* mistake: a SYN of a Conn that has been accepted is not answered
AnswersOnce(s, l) ==
  CASE l.d.type = "SYN" /\ <<l.d.from, l.n>> \notin {accepted[i] : i \in DOMAIN accepted} ->
         {Datagram(s, l.d.from, "ACK")}
    [] l.d.type = "PingReq" -> {Datagram(s, l.d.from, "PingRep")}
    [] OTHER -> {}

\* handlePingSYN, handlePingReq; an ACK is an unknown type by now, and a PingRep
\* ends a Ping.
Answers(s, l) ==
  CASE l.d.type = "SYN"     -> {Datagram(s, l.d.from, "ACK")}
    [] l.d.type = "PingReq" -> {Datagram(s, l.d.from, "PingRep")}
    [] OTHER                -> {}

\* conn.handle, also of a Conn that is closed by now
Handle(s) ==
  /\ loop[s].pc = "handle"
  /\ net' = net \cup (IF s \in stopped THEN {} ELSE Answers(s, loop[s]))
  /\ Loop(s, Reading)
  /\ UNCHANGED <<ends, conns, pool, clientCh, idle, accepted, crashed>>

-------------------------------------------------------------------------------
\* The applications.

\* Accept, in a loop, at the server; nobody calls it at a client.
Accept ==
  /\ clientCh[Server] # <<>>
  /\ accepted' = accepted \o clientCh[Server]
  /\ clientCh' = [clientCh EXCEPT ![Server] = <<>>]
  /\ UNCHANGED <<net, ends, conns, pool, loop, idle, crashed>>

\* The Conns the application of s has.
Has(s) == IF s # Server THEN {<<Server, 1>>}
          ELSE {accepted[i] : i \in DOMAIN accepted}

\* mistake: the Conn is taken out of the pool as well
CloseAndDelete(s) ==
  /\ "close" \in Faults[s] /\ phase[s] = "up"
  /\ \E h \in Has(s) :
       /\ conns[s][h[1]][h[2]] = "open"
       /\ conns' = [conns EXCEPT ![s][h[1]][h[2]] = "gone"]
       /\ pool' = [pool EXCEPT ![s][h[1]] = 0]
  /\ UNCHANGED <<net, ends, loop, clientCh, idle, accepted, crashed>>

\* Conn.Close, once for each Conn: close(c.shutdownCh).  The Conn stays in the pool.
Close(s) ==
  /\ "close" \in Faults[s] /\ phase[s] = "up"
  /\ \E h \in Has(s) :
       \/ /\ conns[s][h[1]][h[2]] = "open"
          /\ conns' = [conns EXCEPT ![s][h[1]][h[2]] = "closed"]
          /\ UNCHANGED crashed
       \/ /\ conns[s][h[1]][h[2]] = "gone"
          /\ crashed' = [who |-> s, what |-> "app"]
          /\ UNCHANGED conns
  /\ UNCHANGED <<net, ends, pool, loop, clientCh, idle, accepted>>

\* net.UDPConn.Close: recv ends at its next read, writes fail; the rest goes on.
Stop(s) ==
  /\ "stop" \in Faults[s] /\ phase[s] = "up" /\ s \notin stopped
  /\ stopped' = stopped \cup {s}
  /\ UNCHANGED <<net, phase, starts, lost, conns, pool, loop, clientCh, idle, accepted, crashed>>

-------------------------------------------------------------------------------
\* A client.

\* _handshake, up to the write
SendSYN(c) ==
  /\ phase[c] = "start"
  /\ phase' = [phase EXCEPT ![c] = "read"]
  /\ net' = net \cup {Datagram(c, Server, "SYN")} /\ lost' = lost \ {c}
  /\ UNCHANGED <<starts, stopped, conns, pool, loop, clientCh, idle, accepted, crashed>>

\* mistake: the Conn is made, but not put into the pool
HandshakeConnOnly(c) ==
  /\ conns' = [conns EXCEPT ![c][Server] = Append(@, "open")]
  /\ UNCHANGED pool

\* p.connPool.New(p.c, p.raddr, ...)
HandshakeConn(c) == Insert(c, Server)

\* _handshake, from the read: waits for any datagram, without a deadline.  An ACK makes
\* the Conn and starts recv and pingLoop; anything else starts over after 6 seconds.
ReadACK(c) ==
  /\ phase[c] = "read"
  /\ \E d \in net :
       /\ d.to = c /\ net' = net \ {d}
       /\ \/ /\ d.type = "ACK"
             /\ HandshakeConn(c)
             /\ phase' = [phase EXCEPT ![c] = "up"] /\ Loop(c, Reading)
          \/ /\ d.type # "ACK"
             /\ phase' = [phase EXCEPT ![c] = "start"]
             /\ UNCHANGED <<conns, pool, loop>>
  /\ UNCHANGED <<starts, stopped, lost, clientCh, idle, accepted, crashed>>

\* pingLoop: whatever became of the Conn, for ever.  Bound: one PingReq in flight.
Ping(c) ==
  /\ c \in Clients /\ phase[c] = "up" /\ c \notin stopped
  /\ net' = net \cup {Datagram(c, Server, "PingReq")}
  /\ UNCHANGED <<ends, conns, pool, loop, clientCh, idle, accepted, crashed>>

\* The process ends and is started anew at the same address.  Bound: a client that is
\* stopped stays so.
Restart(c) ==
  /\ "restart" \in Faults[c] /\ starts[c] < MaxStarts /\ c \notin stopped
  /\ phase' = [phase EXCEPT ![c] = "start"] /\ starts' = [starts EXCEPT ![c] = @ + 1]
  /\ conns' = [conns EXCEPT ![c] = [a \in Peers(c) |-> <<>>]]
  /\ pool' = [pool EXCEPT ![c] = [a \in Peers(c) |-> 0]]
  /\ Loop(c, NotRunning)
  /\ clientCh' = [clientCh EXCEPT ![c] = <<>>] /\ idle' = [idle EXCEPT ![c] = {}]
  /\ UNCHANGED <<net, stopped, lost, accepted, crashed>>

Lose(c) ==
  /\ "lose" \in Faults[c]
  /\ \E d \in net : /\ c \in {d.from, d.to} /\ net' = net \ {d}
                   /\ lost' = lost \cup (IF d.type \in {"SYN", "ACK"} THEN {c} ELSE {})
  /\ UNCHANGED <<phase, starts, stopped, conns, pool, loop, clientCh, idle, accepted, crashed>>

-------------------------------------------------------------------------------
Init ==
  /\ net = {} /\ lost = {} /\ stopped = {} /\ accepted = <<>> /\ crashed = NoPanic
  /\ phase = [s \in Sockets |-> IF s = Server THEN "up" ELSE "start"]
  /\ starts = [c \in Clients |-> 1]
  /\ conns = [s \in Sockets |-> [a \in Peers(s) |-> <<>>]]
  /\ pool = [s \in Sockets |-> [a \in Peers(s) |-> 0]]
  /\ loop = [s \in Sockets |-> IF s = Server THEN Reading ELSE NotRunning]
  /\ clientCh = [s \in Sockets |-> <<>>]
  /\ idle = [s \in Sockets |-> {}]

RecvLoop(s) == (\E a \in Peers(s) : Receive(s, a)) \/ New(s) \/ Offer(s) \/ Handle(s)

Next ==
  /\ Alive
  /\ \/ Accept
     \/ \E s \in Sockets : RecvLoop(s) \/ Collect(s) \/ Sweep(s) \/ Close(s) \/ Stop(s)
     \/ \E c \in Clients : SendSYN(c) \/ ReadACK(c) \/ Ping(c) \/ Restart(c) \/ Lose(c)

Spec == Init /\ [][Next]_vars

\* Goroutines that can run do, the server calls Accept in a loop, a datagram that is
\* sent again and again gets through, and a Conn whose other end is stopped expires.
FairSpec ==
  /\ Spec
  /\ WF_vars(Alive /\ Accept)
  /\ \A s \in Sockets : /\ WF_vars(Alive /\ (New(s) \/ Offer(s) \/ Handle(s)))
                        /\ WF_vars(Alive /\ Sweep(s))
                        /\ \A a \in Peers(s) : WF_vars(Alive /\ a \in stopped /\ Collect(s) /\ a \in idle'[s])
  /\ \A c \in Clients : /\ SF_vars(Alive /\ Receive(Server, c))
                        /\ WF_vars(Alive /\ SendSYN(c)) /\ WF_vars(Alive /\ ReadACK(c))
                        /\ WF_vars(Alive /\ Ping(c))

-------------------------------------------------------------------------------
\* Properties.

Datagrams == [from : Sockets, to : Sockets, type : {"SYN", "ACK", "PingReq", "PingRep"}]

LoopStates == {"off", "read", "new", "offer", "handle"}

SocketTypeOK(s) ==
  /\ conns[s] \in [Peers(s) -> Seq({"open", "closed", "gone"})]
  /\ pool[s] \in [Peers(s) -> Nat]
  /\ \A a \in Peers(s) : Made(s, a) <= MaxConns[s] /\ pool[s][a] <= Made(s, a)
  /\ loop[s] \in [pc : LoopStates, d : Datagrams \cup {NoDatagram}, n : 0 .. MaxConns[s]]
  /\ clientCh[s] \in Seq(Peers(s) \X Nat) /\ Len(clientCh[s]) <= 1
  /\ idle[s] \subseteq Peers(s)

\* Type correctness; a datagram of a handshake or a ping goes the right way.
TypeOK ==
  /\ net \subseteq Datagrams
  /\ \A d \in net : d.to = Server <=> d.type \in {"SYN", "PingReq"}
  /\ phase \in [Sockets -> {"start", "read", "up"}]
  /\ starts \in [Clients -> 1 .. MaxStarts] /\ stopped \subseteq Sockets /\ lost \subseteq Clients
  /\ DOMAIN conns = Sockets /\ DOMAIN pool = Sockets /\ DOMAIN loop = Sockets
  /\ DOMAIN clientCh = Sockets /\ DOMAIN idle = Sockets
  /\ \A s \in Sockets : SocketTypeOK(s)
  /\ accepted \in Seq(Clients \X Nat)
  /\ crashed \in [who : Sockets, what : {"no", "nil", "gc", "app"}]

\* No Conn is forgotten open and none is kept that is gone: an address has at most one
\* Conn that garbageCollection has not closed, it is the one datagrams from there are
\* handled by, and at a client it is the one NewClientSocket returned unless that
\* one has been closed for idleness.
OneConnPerAddress ==
  \A s \in Sockets : \A a \in Peers(s) :
    \A n \in 1 .. Made(s, a) : pool[s][a] = n <=> conns[s][a][n] # "gone"

\* The Conns on their way from the receive loop of the server to the application.
InHand  == IF loop[Server].pc = "offer" THEN <<<<loop[Server].d.from, loop[Server].n>>>> ELSE <<>>
Offered == accepted \o clientCh[Server] \o InHand

\* Every Conn the server makes is returned by Accept, once and in the order they were
\* made, however long nobody calls Accept, and even when it has been closed for
\* idleness by then.
AcceptedOnce ==
  /\ {Offered[i] : i \in DOMAIN Offered} =
       UNION {{<<c, n>> : n \in 1 .. Made(Server, c)} : c \in Clients}
  /\ \A i, j \in DOMAIN Offered :
       i < j /\ Offered[i][1] = Offered[j][1] => Offered[i][2] < Offered[j][2]

\* garbageCollection finds what it collected: the entry of an address is still there
\* under its second lock, and its Conn is open unless the application has closed it,
\* so the only panic of a socket is a Conn that both of them close.
OnlyDoubleClosePanics ==
  /\ crashed.what # "nil"
  /\ crashed.what = "gc" =>
       \E a \in Peers(crashed.who) : LET n == pool[crashed.who][a]
                                     IN  n # 0 /\ conns[crashed.who][a][n] = "closed"

\* A client, where nobody calls Accept, only comes to block on clientCh after
\* garbageCollection has closed two of its Conns.
ClientBlocksLate ==
  \A c \in Clients : loop[c].pc = "offer" /\ clientCh[c] # <<>> =>
    \E m, n \in 1 .. Made(c, Server) :
      m # n /\ conns[c][Server][m] = "gone" /\ conns[c][Server][n] = "gone"

\* NewClientSocket returns, after each start of the client: unless the SYN or the ACK is
\* lost, when it waits for ever, and unless the server stops.  The late answer to a ping of an earlier process only
\* delays it, and one that the server knows already is answered as well.
Connects ==
  \A c \in Clients :
    []<>(phase[c] = "up" \/ c \in lost \/ Server \in stopped \/ ~Alive)

\* A client that runs has a Conn at the server that the server has accepted, again and
\* again: when garbageCollection of the server has dropped one, the next ping makes
\* another.
ServerKeepsUp ==
  \A c \in Clients :
    []<>(\/ \E i \in DOMAIN accepted : accepted[i] = <<c, pool[Server][c]>>
         \/ phase[c] # "up" \/ {c, Server} \cap stopped # {} \/ ~Alive)

\* A Conn whose other end is stopped is closed and forgotten in the end.
SilenceIsNoticed ==
  []<>(\A s \in Sockets : \A a \in Peers(s) :
         a \in stopped => pool[s][a] = 0 \/ ~Alive)
===============================================================================
