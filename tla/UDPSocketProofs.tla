---------------------------- MODULE UDPSocketProofs ----------------------------
(***************************************************************************)
(* Proofs about UDPSocket for any set of clients, every bound and every    *)
(* kind of fault.                                                          *)
(***************************************************************************)
EXTENDS UDPSocket, SequenceTheorems, TLAPS

\* What the receive loop of s knows about the datagram it is at.
LoopOK(s) ==
  LET l == loop[s]
  IN  /\ l.pc \in {"new", "offer", "handle"} =>
           /\ l.d.to = s /\ l.d.from \in Peers(s)
           /\ s = Server <=> l.d.type \in {"SYN", "PingReq"}
      /\ l.pc = "new" => pool[s][l.d.from] = 0 /\ Made(s, l.d.from) < MaxConns[s]
      /\ l.pc = "offer" => l.n = Made(s, l.d.from)

\* The Conn of an address is the last one that was made, the others are gone, and
\* what garbageCollection has collected is still there.
PoolOK(s) ==
  /\ \A a \in Peers(s) :
       /\ pool[s][a] \in {0, Made(s, a)}
       /\ \A n \in 1 .. Made(s, a) : pool[s][a] = n <=> conns[s][a][n] # "gone"
  /\ \A a \in idle[s] : pool[s][a] # 0

\* A client has one Conn from its handshake; those that recv makes come after it.
ClientOK(c) ==
  /\ phase[c] # "up" => /\ Made(c, Server) = 0 /\ loop[c] = NotRunning
                        /\ clientCh[c] = <<>> /\ idle[c] = {}
  /\ phase[c] = "up" => Made(c, Server) >= 1 /\ loop[c].pc # "off"
  /\ loop[c].pc = "offer" => Made(c, Server) >= 2
  /\ clientCh[c] # <<>> => /\ clientCh[c][1][2] \in 2 .. Made(c, Server)
                           /\ loop[c].pc = "offer" => clientCh[c][1][2] # Made(c, Server)

SocketOK(s) ==
  SocketTypeOK(s) /\ LoopOK(s) /\ PoolOK(s) /\ (s \in Clients => ClientOK(s))

IInv ==
  TypeOK /\ (\A s \in Sockets : SocketOK(s)) /\ AcceptedOnce /\ OnlyDoubleClosePanics

-------------------------------------------------------------------------------
\* The addresses.

LEMMA Addresses ==
  /\ Server \in Sockets /\ Peers(Server) = Clients
  /\ \A c \in Clients : c \in Sockets /\ c # Server /\ Peers(c) = {Server}
  /\ \A s \in Sockets : Peers(s) \subseteq Sockets /\ MaxConns[s] \in Nat \ {0}
  BY ServerAssumption, BoundAssumption DEF Sockets, Peers

\* What is in hand at a socket does not depend on the others.
LEMMA Untouched ==
  ASSUME NEW s \in Sockets, SocketOK(s),
         conns'[s] = conns[s], pool'[s] = pool[s], loop'[s] = loop[s],
         clientCh'[s] = clientCh[s], idle'[s] = idle[s], phase'[s] = phase[s]
  PROVE  SocketOK(s)'
  BY DEF SocketOK, SocketTypeOK, LoopOK, PoolOK, ClientOK, Made

\* The Conns that socket s made for a after one more has been inserted.
LEMMA InsertOK ==
  ASSUME NEW s \in Sockets, NEW a \in Peers(s), DOMAIN conns = Sockets, DOMAIN pool = Sockets,
         SocketTypeOK(s), PoolOK(s), pool[s][a] = 0, Made(s, a) < MaxConns[s],
         Insert(s, a), idle' = idle
  PROVE  /\ DOMAIN conns' = Sockets /\ DOMAIN pool' = Sockets
         /\ \A t \in Sockets \ {s} : conns'[t] = conns[t] /\ pool'[t] = pool[t]
         /\ conns'[s] \in [Peers(s) -> Seq({"open", "closed", "gone"})]
         /\ pool'[s] \in [Peers(s) -> Nat]
         /\ \A b \in Peers(s) : Made(s, b)' = IF b = a THEN Made(s, b) + 1 ELSE Made(s, b)
         /\ \A b \in Peers(s) : Made(s, b)' <= MaxConns[s] /\ pool'[s][b] <= Made(s, b)'
         /\ PoolOK(s)'
<1> DEFINE new == Append(conns[s][a], "open")
           m == Made(s, a)
<1>1. /\ conns' = [conns EXCEPT ![s] = [conns[s] EXCEPT ![a] = new]]
      /\ pool' = [pool EXCEPT ![s] = [pool[s] EXCEPT ![a] = m + 1]]
  BY DEF Insert
<1>2. /\ conns[s] \in [Peers(s) -> Seq({"open", "closed", "gone"})]
      /\ pool[s] \in [Peers(s) -> Nat] /\ MaxConns[s] \in Nat
  BY Addresses DEF SocketTypeOK
<1>3. /\ conns[s][a] \in Seq({"open", "closed", "gone"}) /\ m \in Nat
      /\ new \in Seq({"open", "closed", "gone"}) /\ Len(new) = m + 1
      /\ new[m + 1] = "open" /\ \A n \in 1 .. m : new[n] = conns[s][a][n]
  BY <1>2 DEF Made
<1>4. /\ \A t \in Sockets \ {s} : conns'[t] = conns[t] /\ pool'[t] = pool[t]
      /\ conns'[s] = [conns[s] EXCEPT ![a] = new]
      /\ pool'[s] = [pool[s] EXCEPT ![a] = m + 1]
      /\ DOMAIN conns' = Sockets /\ DOMAIN pool' = Sockets
  BY <1>1
<1> HIDE DEF new, m
<1>5. /\ conns'[s] \in [Peers(s) -> Seq({"open", "closed", "gone"})]
      /\ pool'[s] \in [Peers(s) -> Nat]
      /\ conns'[s][a] = new /\ pool'[s][a] = m + 1
      /\ \A b \in Peers(s) \ {a} : conns'[s][b] = conns[s][b] /\ pool'[s][b] = pool[s][b]
  BY <1>2, <1>3, <1>4
<1>6. \A b \in Peers(s) : Made(s, b)' = IF b = a THEN Made(s, b) + 1 ELSE Made(s, b)
  BY <1>3, <1>5 DEF Made, m
<1>7. \A b \in Peers(s) : Made(s, b) \in Nat
  BY <1>2 DEF Made
<1>8. \A b \in Peers(s) : Made(s, b)' <= MaxConns[s] /\ pool'[s][b] <= Made(s, b)'
  BY <1>2, <1>3, <1>5, <1>6, <1>7 DEF SocketTypeOK, m
<1>9. PoolOK(s)'
  <2>1. \A b \in Peers(s) : pool'[s][b] \in {0, Made(s, b)'}
    BY <1>5, <1>6 DEF PoolOK, m
  <2>2. \A n \in 1 .. m : conns[s][a][n] = "gone"
    BY <1>3 DEF PoolOK, m
  <2>3. \A n \in 1 .. Made(s, a)' : pool'[s][a] = n <=> conns'[s][a][n] # "gone"
    BY <1>3, <1>5, <1>6, <2>2 DEF m
  <2>4. \A b \in Peers(s) \ {a} : \A n \in 1 .. Made(s, b)' :
          pool'[s][b] = n <=> conns'[s][b][n] # "gone"
    BY <1>5, <1>6 DEF PoolOK
  <2>5. \A b \in idle'[s] : pool'[s][b] # 0
    BY <1>3, <1>5 DEF PoolOK, SocketTypeOK
  <2> QED
    BY <2>1, <2>3, <2>4, <2>5 DEF PoolOK
<1> QED
  BY <1>4, <1>5, <1>6, <1>8, <1>9

-------------------------------------------------------------------------------
\* What the steps have in common.

\* TypeOK without what SocketOK says of each socket
GlobalOK ==
  /\ net \subseteq Datagrams
  /\ \A d \in net : d.to = Server <=> d.type \in {"SYN", "PingReq"}
  /\ phase \in [Sockets -> {"start", "read", "up"}]
  /\ starts \in [Clients -> 1 .. MaxStarts] /\ stopped \subseteq Sockets /\ lost \subseteq Clients
  /\ DOMAIN conns = Sockets /\ DOMAIN pool = Sockets /\ DOMAIN loop = Sockets
  /\ DOMAIN clientCh = Sockets /\ DOMAIN idle = Sockets
  /\ accepted \in Seq(Clients \X Nat)
  /\ crashed \in [who : Sockets, what : {"no", "nil", "gc", "app"}]

LEMMA Parts ==
  ASSUME IInv
  PROVE  GlobalOK /\ (\A s \in Sockets : SocketOK(s)) /\ AcceptedOnce /\ OnlyDoubleClosePanics
  BY DEF IInv, TypeOK, GlobalOK, SocketOK

LEMMA PartsPrime ==
  ASSUME GlobalOK', \A s \in Sockets : SocketOK(s)', AcceptedOnce', OnlyDoubleClosePanics'
  PROVE  IInv'
  BY DEF IInv, TypeOK, GlobalOK, SocketOK

\* A step of socket s leaves the others alone.
OnlyAt(s) ==
  \A t \in Sockets \ {s} :
    /\ conns'[t] = conns[t] /\ pool'[t] = pool[t] /\ loop'[t] = loop[t]
    /\ clientCh'[t] = clientCh[t] /\ idle'[t] = idle[t] /\ phase'[t] = phase[t]

LEMMA OneSocket ==
  ASSUME IInv, NEW s \in Sockets, OnlyAt(s), SocketOK(s)'
  PROVE  \A t \in Sockets : SocketOK(t)'
<1>1. \A t \in Sockets \ {s} : SocketOK(t)'
  <2>1. SUFFICES ASSUME NEW t \in Sockets \ {s} PROVE SocketOK(t)'
    OBVIOUS
  <2>2. SocketOK(t)
    BY DEF IInv
  <2> QED
    BY <2>2, Untouched DEF OnlyAt
<1> QED
  BY <1>1

\* Nothing is on its way to the application that was not before.
LEMMA NothingOffered ==
  ASSUME AcceptedOnce, Offered' = Offered,
         \A c \in Clients : Made(Server, c)' = Made(Server, c)
  PROVE  AcceptedOnce'
<1>1. UNION {{<<c, n>> : n \in 1 .. Made(Server, c)'} : c \in Clients}
        = UNION {{<<c, n>> : n \in 1 .. Made(Server, c)} : c \in Clients}
  OBVIOUS
<1> QED
  BY <1>1 DEF AcceptedOnce

LEMMA AtClient ==
  ASSUME IInv, NEW c \in Clients, OnlyAt(c), accepted' = accepted
  PROVE  AcceptedOnce'
<1>1. /\ conns'[Server] = conns[Server] /\ loop'[Server] = loop[Server]
      /\ clientCh'[Server] = clientCh[Server]
  BY Addresses DEF OnlyAt
<1>2. Offered' = Offered
  BY <1>1 DEF Offered, InHand
<1>3. \A d \in Clients : Made(Server, d)' = Made(Server, d)
  BY <1>1 DEF Made
<1> QED
  BY <1>2, <1>3, NothingOffered DEF IInv

LEMMA NoPanicHere ==
  ASSUME Alive
  PROVE  UNCHANGED crashed => OnlyDoubleClosePanics'
  BY DEF Alive, NoPanic, OnlyDoubleClosePanics

-------------------------------------------------------------------------------
\* connPool.

LEMMA CollectOK ==
  ASSUME IInv, Alive, NEW s \in Sockets, Collect(s)
  PROVE  IInv'
<1>0. GlobalOK /\ SocketOK(s) /\ AcceptedOnce
  BY Parts
<1>1. PICK expired \in SUBSET Candidates(s) : idle' = [idle EXCEPT ![s] = expired]
  BY DEF Collect
<1>2. /\ UNCHANGED <<net, phase, starts, stopped, lost, conns, pool, loop, clientCh, accepted, crashed>>
      /\ phase[s] = "up"
  BY DEF Collect, ends
<1>3. /\ idle'[s] = expired /\ DOMAIN idle' = Sockets
      /\ \A t \in Sockets \ {s} : idle'[t] = idle[t]
  BY <1>0, <1>1 DEF GlobalOK
<1>4. GlobalOK'
  BY <1>0, <1>2, <1>3 DEF GlobalOK
<1>5. OnlyAt(s)
  BY <1>2, <1>3 DEF OnlyAt
<1>6. SocketOK(s)'
  <2>1. SocketOK(s)
    BY <1>0
  <2>2. SocketTypeOK(s)' /\ LoopOK(s)'
    BY <1>2, <1>3, <2>1 DEF SocketOK, SocketTypeOK, LoopOK, Made, Candidates
  <2>3. PoolOK(s)'
    BY <1>2, <1>3, <2>1 DEF SocketOK, PoolOK, Made, Candidates
  <2>4. s \in Clients => ClientOK(s)'
    BY <1>2, <2>1 DEF SocketOK, ClientOK, Made
  <2> QED
    BY <2>2, <2>3, <2>4 DEF SocketOK
<1>7. AcceptedOnce'
  BY <1>0, <1>2, NothingOffered DEF Offered, InHand, Made
<1> QED
  BY <1>2, <1>4, <1>5, <1>6, <1>7, OneSocket, NoPanicHere, PartsPrime

LEMMA SweepOK ==
  ASSUME IInv, Alive, NEW s \in Sockets, Sweep(s)
  PROVE  IInv'
<1>0. GlobalOK /\ SocketOK(s) /\ AcceptedOnce
  BY Parts
<1> DEFINE safe == \A a \in idle[s] : pool[s][a] # 0 /\ conns[s][a][pool[s][a]] = "open"
<1>1. /\ UNCHANGED <<net, phase, starts, stopped, lost, loop, clientCh, accepted>>
      /\ idle' = [idle EXCEPT ![s] = {}]
  BY DEF Sweep, ends
<1>2. /\ idle'[s] = {} /\ DOMAIN idle' = Sockets
      /\ \A t \in Sockets \ {s} : idle'[t] = idle[t]
  BY <1>0, <1>1 DEF GlobalOK
<1>3. SocketOK(s)
  BY <1>0
<1>4. CASE safe
  <2>1. /\ conns' = [conns EXCEPT ![s] = [a \in Peers(s) |->
              IF a \in idle[s] THEN [conns[s][a] EXCEPT ![pool[s][a]] = "gone"] ELSE conns[s][a]]]
        /\ pool' = [pool EXCEPT ![s] = [a \in Peers(s) |-> IF a \in idle[s] THEN 0 ELSE pool[s][a]]]
        /\ crashed' = crashed
    BY <1>4 DEF Sweep, CloseIdle, Without
  <2>2. /\ \A t \in Sockets \ {s} : conns'[t] = conns[t] /\ pool'[t] = pool[t]
        /\ DOMAIN conns' = Sockets /\ DOMAIN pool' = Sockets
        /\ conns'[s] = [a \in Peers(s) |->
              IF a \in idle[s] THEN [conns[s][a] EXCEPT ![pool[s][a]] = "gone"] ELSE conns[s][a]]
        /\ pool'[s] = [a \in Peers(s) |-> IF a \in idle[s] THEN 0 ELSE pool[s][a]]
    BY <1>0, <2>1 DEF GlobalOK
  <2>3. \A a \in Peers(s) :
          /\ conns[s][a] \in Seq({"open", "closed", "gone"}) /\ Made(s, a) \in Nat
          /\ pool[s][a] \in Nat /\ pool[s][a] <= Made(s, a)
    BY <1>3 DEF SocketOK, SocketTypeOK, Made
  <2>4. \A a \in Peers(s) :
          /\ conns'[s][a] \in Seq({"open", "closed", "gone"})
          /\ Made(s, a)' = Made(s, a)
          /\ \A n \in 1 .. Made(s, a) :
               conns'[s][a][n] = IF a \in idle[s] /\ n = pool[s][a] THEN "gone" ELSE conns[s][a][n]
    <3>1. SUFFICES ASSUME NEW a \in Peers(s)
                   PROVE  /\ conns'[s][a] \in Seq({"open", "closed", "gone"})
                          /\ Made(s, a)' = Made(s, a)
                          /\ \A n \in 1 .. Made(s, a) :
                               conns'[s][a][n] = IF a \in idle[s] /\ n = pool[s][a]
                                                 THEN "gone" ELSE conns[s][a][n]
      OBVIOUS
    <3>2. CASE a \in idle[s]
      <4>1. pool[s][a] \in 1 .. Len(conns[s][a])
        BY <1>3, <2>3, <3>2 DEF SocketOK, PoolOK, Made
      <4>2. conns'[s][a] = [conns[s][a] EXCEPT ![pool[s][a]] = "gone"]
        BY <2>2, <3>2
      <4>3. /\ conns'[s][a] \in Seq({"open", "closed", "gone"})
            /\ Len(conns'[s][a]) = Len(conns[s][a])
            /\ \A n \in 1 .. Len(conns[s][a]) :
                 conns'[s][a][n] = IF n = pool[s][a] THEN "gone" ELSE conns[s][a][n]
        BY <2>3, <4>1, <4>2, ExceptSeq
      <4> QED
        BY <3>2, <4>3 DEF Made
    <3>3. CASE a \notin idle[s]
      BY <2>2, <2>3, <3>3 DEF Made
    <3> QED
      BY <3>2, <3>3
  <2>5. GlobalOK'
    BY <1>0, <1>1, <1>2, <2>1, <2>2 DEF GlobalOK
  <2>6. OnlyAt(s)
    BY <1>1, <1>2, <2>2 DEF OnlyAt
  <2>7. SocketOK(s)'
    <3>1. SocketTypeOK(s)'
      <4>1. conns'[s] \in [Peers(s) -> Seq({"open", "closed", "gone"})]
        BY <2>2, <2>4
      <4>2. pool'[s] \in [Peers(s) -> Nat]
        BY <2>2, <2>3
      <4>3. \A a \in Peers(s) : Made(s, a)' <= MaxConns[s] /\ pool'[s][a] <= Made(s, a)'
        <5>1. SUFFICES ASSUME NEW a \in Peers(s)
                       PROVE  Made(s, a)' <= MaxConns[s] /\ pool'[s][a] <= Made(s, a)'
          OBVIOUS
        <5>2. Made(s, a)' = Made(s, a) /\ Made(s, a) <= MaxConns[s]
          BY <1>3, <2>4 DEF SocketOK, SocketTypeOK
        <5>3. pool'[s][a] \in {0, pool[s][a]}
          BY <2>2
        <5> QED
          BY <2>3, <5>2, <5>3
      <4> QED
        BY <1>1, <1>2, <1>3, <4>1, <4>2, <4>3 DEF SocketOK, SocketTypeOK
    <3>2. LoopOK(s)'
      BY <1>1, <1>3, <2>2, <2>4 DEF SocketOK, LoopOK, Made
    <3>3. PoolOK(s)'
      <4>1. \A a \in Peers(s) : pool'[s][a] \in {0, Made(s, a)'}
        BY <1>3, <2>2, <2>4 DEF SocketOK, PoolOK, Made
      <4>2. \A a \in Peers(s) : \A n \in 1 .. Made(s, a)' :
              pool'[s][a] = n <=> conns'[s][a][n] # "gone"
        BY <1>3, <2>2, <2>3, <2>4 DEF SocketOK, PoolOK, Made
      <4> QED
        BY <1>2, <4>1, <4>2 DEF PoolOK
    <3>4. s \in Clients => ClientOK(s)'
      BY <1>1, <1>2, <1>3, <2>4, Addresses DEF SocketOK, ClientOK
    <3> QED
      BY <3>1, <3>2, <3>3, <3>4 DEF SocketOK
  <2>8. AcceptedOnce'
    <3>1. \A c \in Clients : Made(Server, c)' = Made(Server, c)
      BY <2>2, <2>4, Addresses DEF Made
    <3> QED
      BY <1>0, <1>1, <3>1, NothingOffered DEF Offered, InHand
  <2> QED
    BY <2>1, <2>5, <2>6, <2>7, <2>8, OneSocket, NoPanicHere, PartsPrime
<1>5. CASE ~safe
  <2>1. /\ crashed' = [who |-> s, what |-> IF \E a \in idle[s] : pool[s][a] = 0 THEN "nil" ELSE "gc"]
        /\ UNCHANGED <<conns, pool>>
    BY <1>5 DEF Sweep
  <2>2. crashed' = [who |-> s, what |-> "gc"]
    BY <1>3, <2>1 DEF SocketOK, PoolOK
  <2>3. PICK a \in idle[s] : pool[s][a] # 0 /\ conns[s][a][pool[s][a]] # "open"
    BY <1>3, <1>5 DEF SocketOK, PoolOK
  <2>4. a \in Peers(s) /\ conns[s][a][pool[s][a]] = "closed"
    <3>1. a \in Peers(s) /\ conns[s][a] \in Seq({"open", "closed", "gone"})
      BY <1>3 DEF SocketOK, SocketTypeOK
    <3>2. pool[s][a] \in 1 .. Len(conns[s][a])
      BY <1>3, <2>3, <3>1 DEF SocketOK, SocketTypeOK, Made
    <3>3. conns[s][a][pool[s][a]] # "gone"
      BY <1>3, <3>1, <3>2 DEF SocketOK, PoolOK, Made
    <3> QED
      BY <2>3, <3>1, <3>2, <3>3
  <2>5. OnlyDoubleClosePanics'
    BY <2>1, <2>2, <2>3, <2>4 DEF OnlyDoubleClosePanics
  <2>6. GlobalOK'
    BY <1>0, <1>1, <1>2, <2>1, <2>2 DEF GlobalOK
  <2>7. OnlyAt(s)
    BY <1>1, <1>2, <2>1 DEF OnlyAt
  <2>8. SocketOK(s)'
    BY <1>1, <1>2, <1>3, <2>1 DEF SocketOK, SocketTypeOK, LoopOK, PoolOK, ClientOK, Made
  <2>9. AcceptedOnce'
    BY <1>0, <1>1, <2>1, NothingOffered DEF Offered, InHand, Made
  <2> QED
    BY <2>5, <2>6, <2>7, <2>8, <2>9, OneSocket, PartsPrime
<1> QED
  BY <1>4, <1>5

-------------------------------------------------------------------------------
\* The receive loop.

LEMMA ReceiveOK ==
  ASSUME IInv, Alive, NEW s \in Sockets, NEW a \in Peers(s), Receive(s, a)
  PROVE  IInv'
<1>0. GlobalOK /\ SocketOK(s) /\ AcceptedOnce
  BY Parts
<1> DEFINE now(d) == At(IF pool[s][a] = 0 THEN "new" ELSE "handle", d, pool[s][a])
<1>1. PICK d \in net : /\ d.to = s /\ d.from = a
                       /\ pool[s][a] = 0 => Made(s, a) < MaxConns[s]
                       /\ net' = net \ {d}
                       /\ loop' = [loop EXCEPT ![s] = now(d)]
  BY DEF Receive, Loop
<1>2. /\ UNCHANGED <<phase, starts, stopped, lost, conns, pool, clientCh, idle, accepted, crashed>>
      /\ loop[s].pc = "read"
  BY DEF Receive, ends
<1>3. /\ loop'[s] = now(d)
      /\ DOMAIN loop' = Sockets /\ \A t \in Sockets \ {s} : loop'[t] = loop[t]
  <2> HIDE DEF now
  <2>1. loop' = [loop EXCEPT ![s] = now(d)] /\ DOMAIN loop = Sockets
    BY <1>0, <1>1 DEF GlobalOK
  <2> QED
    BY <2>1
<1>4. /\ loop'[s].d = d /\ loop'[s].n = pool[s][a]
      /\ loop'[s].pc = IF pool[s][a] = 0 THEN "new" ELSE "handle"
  BY <1>3 DEF At
<1>5. GlobalOK'
  <2>1. net' \subseteq net
    BY <1>1
  <2> QED
    BY <1>0, <2>1, <1>2, <1>3 DEF GlobalOK
<1>6. OnlyAt(s)
  BY <1>2, <1>3 DEF OnlyAt
<1>7. SocketOK(s)'
  <2>1. SocketTypeOK(s)'
    <3>1. pool[s][a] \in 0 .. MaxConns[s]
      BY <1>0, Addresses DEF SocketOK, SocketTypeOK, Made
    <3>2. loop'[s] \in [pc : LoopStates, d : Datagrams \cup {NoDatagram}, n : 0 .. MaxConns[s]]
      BY <1>0, <1>1, <1>3, <3>1 DEF GlobalOK, At, LoopStates
    <3> QED
      BY <1>0, <1>2, <3>2 DEF SocketOK, SocketTypeOK, Made
  <2>2. LoopOK(s)'
    <3>1. d.to = s /\ d.from = a /\ (s = Server <=> d.type \in {"SYN", "PingReq"})
      BY <1>0, <1>1 DEF GlobalOK
    <3>2. pool[s][a] = 0 => Made(s, a) < MaxConns[s]
      BY <1>1
    <3> QED
      BY <1>2, <1>4, <3>1, <3>2 DEF LoopOK, Made
  <2>3. PoolOK(s)'
    BY <1>0, <1>2 DEF SocketOK, PoolOK, Made
  <2>4. s \in Clients => ClientOK(s)'
    BY <1>0, <1>2, <1>4 DEF SocketOK, ClientOK, Made, NotRunning, At
  <2> QED
    BY <2>1, <2>2, <2>3, <2>4 DEF SocketOK
<1>8. AcceptedOnce'
  <2>1. Offered' = Offered
    BY <1>2, <1>3, <1>4, Addresses DEF Offered, InHand
  <2> QED
    BY <1>0, <1>2, <2>1, NothingOffered DEF Made
<1> QED
  BY <1>2, <1>5, <1>6, <1>7, <1>8, OneSocket, NoPanicHere, PartsPrime

\* One more Conn at the end of the sequence: the next of its address.
LEMMA OneMoreOffered ==
  ASSUME AcceptedOnce, Offered \in Seq(Clients \X Nat), NEW c \in Clients,
         \A d \in Clients : Made(Server, d) \in Nat,
         \A d \in Clients : Made(Server, d)' = IF d = c THEN Made(Server, d) + 1 ELSE Made(Server, d),
         Offered' = Offered \o <<<<c, Made(Server, c) + 1>>>>
  PROVE  AcceptedOnce'
<1> DEFINE new == <<c, Made(Server, c) + 1>>
           made(d) == {<<d, n>> : n \in 1 .. Made(Server, d)}
           made2(d) == {<<d, n>> : n \in 1 .. Made(Server, d)'}
<1>1. /\ DOMAIN Offered = 1 .. Len(Offered) /\ Len(Offered) \in Nat
      /\ DOMAIN Offered' = 1 .. Len(Offered) + 1
      /\ \A i \in 1 .. Len(Offered) : Offered'[i] = Offered[i]
      /\ Offered'[Len(Offered) + 1] = new
  <2>1. new \in Clients \X Nat
    OBVIOUS
  <2>2. <<new>> \in Seq(Clients \X Nat) /\ Len(<<new>>) = 1 /\ <<new>>[1] = new
    BY <2>1
  <2> HIDE DEF new
  <2> QED
    BY <2>2, ConcatProperties, LenProperties DEF new
<1>2. \A i \in 1 .. Len(Offered) : Offered[i][1] = c => Offered[i][2] < Made(Server, c) + 1
  <2>1. SUFFICES ASSUME NEW i \in 1 .. Len(Offered), Offered[i][1] = c
                 PROVE  Offered[i][2] < Made(Server, c) + 1
    OBVIOUS
  <2>2. Offered[i] \in UNION {made(d) : d \in Clients}
    BY <1>1 DEF AcceptedOnce
  <2>3. PICK d \in Clients : \E n \in 1 .. Made(Server, d) : Offered[i] = <<d, n>>
    BY <2>2
  <2> QED
    BY <2>1, <2>3
<1>3. \A i, j \in DOMAIN Offered' :
        i < j /\ Offered'[i][1] = Offered'[j][1] => Offered'[i][2] < Offered'[j][2]
  <2>1. SUFFICES ASSUME NEW i \in 1 .. Len(Offered) + 1, NEW j \in 1 .. Len(Offered) + 1,
                        i < j, Offered'[i][1] = Offered'[j][1]
                 PROVE  Offered'[i][2] < Offered'[j][2]
    BY <1>1
  <2>2. i \in 1 .. Len(Offered)
    BY <1>1, <2>1
  <2>3. CASE j = Len(Offered) + 1
    BY <1>1, <1>2, <2>1, <2>2, <2>3
  <2>4. CASE j \in 1 .. Len(Offered)
    BY <1>1, <2>1, <2>2, <2>4 DEF AcceptedOnce
  <2> QED
    BY <1>1, <2>3, <2>4
<1>4. {Offered'[i] : i \in DOMAIN Offered'} = {Offered[i] : i \in DOMAIN Offered} \cup {new}
  <2> HIDE DEF new
  <2>1. DOMAIN Offered' = DOMAIN Offered \cup {Len(Offered) + 1}
    BY <1>1
  <2>2. \A i \in DOMAIN Offered : Offered'[i] = Offered[i]
    BY <1>1
  <2>3. Offered'[Len(Offered) + 1] = new
    BY <1>1
  <2>4. \A x : (\E i \in DOMAIN Offered' : x = Offered'[i])
               <=> (\E i \in DOMAIN Offered : x = Offered[i]) \/ x = new
    BY <2>1, <2>2, <2>3
  <2> QED
    BY <2>4, Zenon
<1>5. UNION {made2(d) : d \in Clients} = (UNION {made(d) : d \in Clients}) \cup {new}
  <2>1. \A d \in Clients : made2(d) = IF d = c THEN made(d) \cup {new} ELSE made(d)
    <3>1. SUFFICES ASSUME NEW d \in Clients
                   PROVE  made2(d) = IF d = c THEN made(d) \cup {new} ELSE made(d)
      OBVIOUS
    <3>2. CASE d = c
      <4>1. 1 .. Made(Server, d)' = (1 .. Made(Server, d)) \cup {Made(Server, d) + 1}
        BY <3>2
      <4> QED
        BY <3>2, <4>1
    <3>3. CASE d # c
      BY <3>3
    <3> QED
      BY <3>2, <3>3
  <2> HIDE DEF made, made2, new
  <2> QED
    BY <2>1
<1>6. {Offered'[i] : i \in DOMAIN Offered'} = UNION {made2(d) : d \in Clients}
  <2> HIDE DEF made2, new
  <2> QED
    BY <1>4, <1>5 DEF AcceptedOnce
<1> QED
  BY <1>3, <1>6 DEF AcceptedOnce

LEMMA OfferedType ==
  ASSUME IInv
  PROVE  /\ accepted \in Seq(Clients \X Nat) /\ clientCh[Server] \in Seq(Clients \X Nat)
         /\ InHand \in Seq(Clients \X Nat) /\ Offered \in Seq(Clients \X Nat)
<1>1. /\ accepted \in Seq(Clients \X Nat) /\ clientCh[Server] \in Seq(Clients \X Nat)
      /\ SocketTypeOK(Server) /\ LoopOK(Server)
  BY Parts, Addresses DEF GlobalOK, SocketOK, SocketTypeOK
<1>2. loop[Server].pc = "offer" => <<loop[Server].d.from, loop[Server].n>> \in Clients \X Nat
  BY <1>1, Addresses DEF SocketTypeOK, LoopOK
<1>3. InHand \in Seq(Clients \X Nat)
  BY <1>2 DEF InHand
<1> QED
  BY <1>1, <1>3, ConcatProperties DEF Offered

LEMMA NewOK ==
  ASSUME IInv, Alive, NEW s \in Sockets, New(s)
  PROVE  IInv'
<1> DEFINE a == loop[s].d.from
           n == Made(s, a) + 1
<1>0. GlobalOK /\ SocketOK(s) /\ AcceptedOnce /\ SocketTypeOK(s) /\ PoolOK(s) /\ LoopOK(s)
  BY Parts DEF SocketOK
<1>1. /\ UNCHANGED <<net, phase, starts, stopped, lost, clientCh, idle, accepted, crashed>>
      /\ loop[s].pc = "new" /\ Insert(s, a)
      /\ loop' = [loop EXCEPT ![s] = At("offer", loop[s].d, n)]
  BY DEF New, Loop, ends
<1>2. a \in Peers(s) /\ pool[s][a] = 0 /\ Made(s, a) < MaxConns[s] /\ a = loop[s].d.from
  BY <1>0, <1>1 DEF LoopOK
<1> HIDE DEF a
<1>3. /\ loop'[s] = At("offer", loop[s].d, n)
      /\ DOMAIN loop' = Sockets /\ \A t \in Sockets \ {s} : loop'[t] = loop[t]
  BY <1>0, <1>1 DEF GlobalOK
<1>4. loop'[s].d = loop[s].d /\ loop'[s].n = n /\ loop'[s].pc = "offer"
  BY <1>3 DEF At
<1>5. /\ DOMAIN conns' = Sockets /\ DOMAIN pool' = Sockets
      /\ \A t \in Sockets \ {s} : conns'[t] = conns[t] /\ pool'[t] = pool[t]
      /\ conns'[s] \in [Peers(s) -> Seq({"open", "closed", "gone"})]
      /\ pool'[s] \in [Peers(s) -> Nat]
      /\ \A b \in Peers(s) : Made(s, b)' = IF b = a THEN Made(s, b) + 1 ELSE Made(s, b)
      /\ \A b \in Peers(s) : Made(s, b)' <= MaxConns[s] /\ pool'[s][b] <= Made(s, b)'
      /\ PoolOK(s)'
  <2>1. DOMAIN conns = Sockets /\ DOMAIN pool = Sockets
    BY <1>0 DEF GlobalOK
  <2> QED
    BY <1>0, <1>1, <1>2, <2>1, InsertOK
<1>6. \A b \in Peers(s) : Made(s, b) \in Nat
  BY <1>0 DEF SocketTypeOK, Made
<1>7. GlobalOK'
  BY <1>0, <1>1, <1>3, <1>5 DEF GlobalOK
<1>8. OnlyAt(s)
  BY <1>1, <1>3, <1>5 DEF OnlyAt
<1>9. SocketOK(s)'
  <2>1. SocketTypeOK(s)'
    <3>1. n \in 0 .. MaxConns[s]
      BY <1>2, <1>6, Addresses
    <3>2. loop'[s] \in [pc : LoopStates, d : Datagrams \cup {NoDatagram}, n : 0 .. MaxConns[s]]
      BY <1>0, <1>3, <3>1 DEF SocketTypeOK, At, LoopStates
    <3> QED
      BY <1>0, <1>1, <1>5, <3>2 DEF SocketTypeOK
  <2>2. LoopOK(s)'
    BY <1>0, <1>1, <1>2, <1>4, <1>5 DEF LoopOK, Made
  <2>3. s \in Clients => ClientOK(s)'
    <3>1. SUFFICES ASSUME s \in Clients PROVE ClientOK(s)'
      OBVIOUS
    <3>2. a = Server /\ Made(s, Server) \in Nat /\ Made(s, Server)' = Made(s, Server) + 1
      BY <1>2, <1>5, <1>6, <3>1, Addresses
    <3>3. ClientOK(s)
      BY <1>0, <3>1 DEF SocketOK
    <3>4. phase[s] = "up" /\ Made(s, Server) >= 1
      BY <1>1, <3>3 DEF ClientOK, NotRunning, At
    <3>5. clientCh[s] # <<>> => clientCh[s][1][2] \in 2 .. Made(s, Server)
      BY <3>3 DEF ClientOK
    <3> QED
      BY <1>1, <1>4, <3>2, <3>4, <3>5 DEF ClientOK
  <2> QED
    BY <1>5, <2>1, <2>2, <2>3 DEF SocketOK
<1>10. AcceptedOnce'
  <2>1. CASE s = Server
    <3>1. a \in Clients /\ \A c \in Clients : Made(Server, c) \in Nat
      BY <1>2, <1>6, <2>1, Addresses
    <3>2. \A c \in Clients : Made(Server, c)' = IF c = a THEN Made(Server, c) + 1 ELSE Made(Server, c)
      BY <1>5, <2>1, Addresses
    <3>3. InHand = <<>> /\ InHand' = <<<<a, n>>>>
      BY <1>1, <1>2, <1>4, <2>1 DEF InHand
    <3>4. Offered \in Seq(Clients \X Nat) /\ Offered = accepted \o clientCh[Server]
      <4>1. /\ accepted \in Seq(Clients \X Nat) /\ clientCh[Server] \in Seq(Clients \X Nat)
        BY <1>0, <2>1, Addresses DEF GlobalOK, SocketTypeOK
      <4> QED
        BY <3>3, <4>1, ConcatProperties, ConcatEmptySeq DEF Offered
    <3>5. Offered' = Offered \o <<<<a, Made(Server, a) + 1>>>>
      BY <1>1, <2>1, <3>3, <3>4 DEF Offered
    <3> QED
      BY <1>0, <3>1, <3>2, <3>4, <3>5, OneMoreOffered
  <2>2. CASE s \in Clients
    BY <1>1, <1>8, <2>2, AtClient
  <2> QED
    BY <2>1, <2>2 DEF Sockets
<1> QED
  BY <1>1, <1>7, <1>8, <1>9, <1>10, OneSocket, NoPanicHere, PartsPrime

LEMMA OfferOK ==
  ASSUME IInv, Alive, NEW s \in Sockets, Offer(s)
  PROVE  IInv'
<1> DEFINE h == <<loop[s].d.from, loop[s].n>>
<1>0. /\ GlobalOK /\ SocketOK(s) /\ AcceptedOnce
      /\ SocketTypeOK(s) /\ PoolOK(s) /\ LoopOK(s)
  BY Parts DEF SocketOK
<1>1. /\ UNCHANGED <<net, phase, starts, stopped, lost, conns, pool, idle, accepted, crashed>>
      /\ loop[s].pc = "offer" /\ clientCh[s] = <<>>
      /\ clientCh' = [clientCh EXCEPT ![s] = <<h>>]
      /\ loop' = [loop EXCEPT ![s] = [loop[s] EXCEPT !.pc = "handle"]]
  BY DEF Offer, Loop, ends
<1>2. h \in Peers(s) \X Nat /\ h[1] = loop[s].d.from /\ h[2] = loop[s].n
  BY <1>0, <1>1, Addresses DEF SocketTypeOK, LoopOK
<1> HIDE DEF h
<1>3. /\ loop'[s] = [loop[s] EXCEPT !.pc = "handle"] /\ clientCh'[s] = <<h>>
      /\ DOMAIN loop' = Sockets /\ \A t \in Sockets \ {s} : loop'[t] = loop[t]
      /\ DOMAIN clientCh' = Sockets /\ \A t \in Sockets \ {s} : clientCh'[t] = clientCh[t]
  BY <1>0, <1>1 DEF GlobalOK
<1>4. loop'[s].d = loop[s].d /\ loop'[s].n = loop[s].n /\ loop'[s].pc = "handle"
  BY <1>0, <1>3 DEF SocketTypeOK
<1>5. GlobalOK'
  BY <1>0, <1>1, <1>3 DEF GlobalOK
<1>6. OnlyAt(s)
  BY <1>1, <1>3 DEF OnlyAt
<1>7. SocketOK(s)'
  <2>1. SocketTypeOK(s)'
    <3>1. loop'[s] \in [pc : LoopStates, d : Datagrams \cup {NoDatagram}, n : 0 .. MaxConns[s]]
      BY <1>0, <1>3 DEF SocketTypeOK, LoopStates
    <3>2. clientCh'[s] \in Seq(Peers(s) \X Nat) /\ Len(clientCh'[s]) = 1
      BY <1>2, <1>3
    <3> QED
      BY <1>0, <1>1, <3>1, <3>2 DEF SocketTypeOK, Made
  <2>2. LoopOK(s)'
    BY <1>0, <1>1, <1>4 DEF LoopOK, Made
  <2>3. PoolOK(s)'
    BY <1>0, <1>1 DEF PoolOK, Made
  <2>4. s \in Clients => ClientOK(s)'
    <3>1. SUFFICES ASSUME s \in Clients PROVE ClientOK(s)'
      OBVIOUS
    <3>2. ClientOK(s) /\ loop[s].d.from = Server /\ loop[s].n = Made(s, Server)
      BY <1>0, <1>1, <3>1, Addresses DEF SocketOK, LoopOK
    <3>3. phase[s] = "up"
      BY <1>1, <3>2 DEF ClientOK, NotRunning, At
    <3>4. clientCh'[s][1][2] = Made(s, Server) /\ Made(s, Server) >= 2 /\ Made(s, Server) \in Nat
      BY <1>0, <1>1, <1>2, <1>3, <3>1, <3>2, Addresses DEF ClientOK, SocketTypeOK, Made
    <3>5. Made(s, Server)' = Made(s, Server)
      BY <1>1 DEF Made
    <3> QED
      BY <1>1, <1>4, <3>3, <3>4, <3>5 DEF ClientOK
  <2> QED
    BY <2>1, <2>2, <2>3, <2>4 DEF SocketOK
<1>8. AcceptedOnce'
  <2>1. CASE s = Server
    <3>1. InHand = <<h>> /\ InHand' = <<>>
      BY <1>1, <1>4, <2>1 DEF InHand, h
    <3>2. accepted \in Seq(Clients \X Nat) /\ <<h>> \in Seq(Clients \X Nat)
      BY <1>0, <1>2, <2>1, Addresses DEF GlobalOK
    <3>3. Offered' = Offered
      BY <1>1, <1>3, <2>1, <3>1, <3>2, ConcatProperties, ConcatEmptySeq DEF Offered
    <3> QED
      BY <1>0, <1>1, <3>3, NothingOffered DEF Made
  <2>2. CASE s \in Clients
    BY <1>1, <1>6, <2>2, AtClient
  <2> QED
    BY <2>1, <2>2 DEF Sockets
<1> QED
  BY <1>1, <1>5, <1>6, <1>7, <1>8, OneSocket, NoPanicHere, PartsPrime

LEMMA HandleOK ==
  ASSUME IInv, Alive, NEW s \in Sockets, Handle(s)
  PROVE  IInv'
<1>0. /\ GlobalOK /\ SocketOK(s) /\ AcceptedOnce
      /\ SocketTypeOK(s) /\ PoolOK(s) /\ LoopOK(s)
  BY Parts DEF SocketOK
<1>1. /\ UNCHANGED <<phase, starts, stopped, lost, conns, pool, clientCh, idle, accepted, crashed>>
      /\ loop[s].pc = "handle"
      /\ loop' = [loop EXCEPT ![s] = Reading]
      /\ net' \subseteq net \cup Answers(s, loop[s])
  BY DEF Handle, Loop, ends
<1>2. /\ loop'[s] = Reading
      /\ DOMAIN loop' = Sockets /\ \A t \in Sockets \ {s} : loop'[t] = loop[t]
  BY <1>0, <1>1 DEF GlobalOK
<1>3. loop'[s].pc = "read" /\ Reading.pc = "read"
  BY <1>2 DEF Reading, At
<1>4. GlobalOK'
  <2>1. /\ loop[s].d.from \in Peers(s) /\ loop[s].d.from \in Sockets
        /\ s = Server <=> loop[s].d.type \in {"SYN", "PingReq"}
    BY <1>0, <1>1, Addresses DEF LoopOK
  <2>2. \A d \in Answers(s, loop[s]) :
          d \in Datagrams /\ d.to # Server /\ d.type \in {"ACK", "PingRep"}
    <3>1. CASE s = Server
      <4>1. loop[s].d.from # Server
        BY <2>1, <3>1, Addresses
      <4>2. Answers(s, loop[s]) \subseteq {Datagram(s, loop[s].d.from, "ACK"), Datagram(s, loop[s].d.from, "PingRep")}
        BY DEF Answers
      <4> QED
        BY <2>1, <4>1, <4>2 DEF Datagram, Datagrams
    <3>2. CASE s # Server
      BY <2>1, <3>2 DEF Answers
    <3> QED
      BY <3>1, <3>2
  <2>3. /\ net' \subseteq Datagrams
        /\ \A d \in net' : d.to = Server <=> d.type \in {"SYN", "PingReq"}
    <3>1. /\ net \subseteq Datagrams
          /\ \A d \in net : d.to = Server <=> d.type \in {"SYN", "PingReq"}
      BY <1>0 DEF GlobalOK
    <3> QED
      BY <1>1, <2>2, <3>1
  <2> QED
    BY <1>0, <1>1, <1>2, <2>3 DEF GlobalOK
<1>5. OnlyAt(s)
  BY <1>1, <1>2 DEF OnlyAt
<1>6. SocketOK(s)'
  <2>1. SocketTypeOK(s)'
    <3>1. loop'[s] \in [pc : LoopStates, d : Datagrams \cup {NoDatagram}, n : 0 .. MaxConns[s]]
      BY <1>0, <1>2, Addresses DEF Reading, At, LoopStates
    <3> QED
      BY <1>0, <1>1, <3>1 DEF SocketTypeOK, Made
  <2>2. LoopOK(s)'
    BY <1>3 DEF LoopOK
  <2>3. PoolOK(s)'
    BY <1>0, <1>1 DEF PoolOK, Made
  <2>4. s \in Clients => ClientOK(s)'
    BY <1>0, <1>1, <1>3 DEF SocketOK, ClientOK, Made, NotRunning, At
  <2> QED
    BY <2>1, <2>2, <2>3, <2>4 DEF SocketOK
<1>7. AcceptedOnce'
  <2>1. CASE s = Server
    <3>1. Offered' = Offered
      BY <1>1, <1>2, <1>3, <2>1 DEF Offered, InHand
    <3> QED
      BY <1>0, <1>1, <3>1, NothingOffered DEF Made
  <2>2. CASE s \in Clients
    BY <1>1, <1>5, <2>2, AtClient
  <2> QED
    BY <2>1, <2>2 DEF Sockets
<1> QED
  BY <1>1, <1>4, <1>5, <1>6, <1>7, OneSocket, NoPanicHere, PartsPrime

-------------------------------------------------------------------------------
\* The applications.

LEMMA AcceptOK ==
  ASSUME IInv, Alive, Accept
  PROVE  IInv'
<1>0. /\ GlobalOK /\ SocketOK(Server) /\ AcceptedOnce
      /\ SocketTypeOK(Server) /\ LoopOK(Server)
  BY Parts, Addresses DEF SocketOK
<1>1. /\ UNCHANGED <<net, phase, starts, stopped, lost, conns, pool, loop, idle, crashed>>
      /\ accepted' = accepted \o clientCh[Server]
      /\ clientCh' = [clientCh EXCEPT ![Server] = <<>>]
  BY DEF Accept, ends
<1>2. /\ clientCh'[Server] = <<>>
      /\ DOMAIN clientCh' = Sockets /\ \A t \in Sockets \ {Server} : clientCh'[t] = clientCh[t]
  BY <1>0, <1>1, Addresses DEF GlobalOK
<1>3. accepted \in Seq(Clients \X Nat) /\ clientCh[Server] \in Seq(Clients \X Nat)
  BY <1>0, Addresses DEF GlobalOK, SocketTypeOK
<1>4. accepted' \in Seq(Clients \X Nat)
  BY <1>1, <1>3, ConcatProperties
<1>5. GlobalOK'
  BY <1>0, <1>1, <1>2, <1>4 DEF GlobalOK
<1>6. OnlyAt(Server)
  BY <1>1, <1>2 DEF OnlyAt
<1>7. SocketOK(Server)'
  BY <1>0, <1>1, <1>2, Addresses DEF SocketOK, SocketTypeOK, LoopOK, PoolOK, Made
<1>8. AcceptedOnce'
  <2>1. InHand' = InHand
    BY <1>1 DEF InHand
  <2>2. Offered' = Offered
    BY <1>1, <1>2, <1>3, <1>4, <2>1, ConcatEmptySeq DEF Offered
  <2> QED
    BY <1>0, <1>1, <2>2, NothingOffered DEF Made
<1> QED
  BY <1>1, <1>5, <1>6, <1>7, <1>8, OneSocket, Addresses, NoPanicHere, PartsPrime

\* What an application has, its socket has made.
LEMMA HasMade ==
  ASSUME IInv, NEW s \in Sockets, phase[s] = "up", NEW h \in Has(s)
  PROVE  h[1] \in Peers(s) /\ h[2] \in 1 .. Made(s, h[1])
<1>0. SocketOK(s) /\ AcceptedOnce /\ accepted \in Seq(Clients \X Nat)
  BY Parts DEF GlobalOK
<1>1. CASE s = Server
  <2>1. PICK i \in DOMAIN accepted : h = accepted[i]
    BY <1>1 DEF Has
  <2> DEFINE two == accepted \o clientCh[Server]
  <2>2. /\ two \in Seq(Clients \X Nat) /\ Len(two) >= Len(accepted) /\ Len(two) \in Nat
        /\ i \in 1 .. Len(two) /\ two[i] = h
    BY <2>1, OfferedType, ConcatProperties, LenProperties
  <2>3. i \in 1 .. Len(Offered) /\ Offered[i] = h
    <3>1. Offered = two \o InHand
      BY DEF Offered
    <3> HIDE DEF two
    <3> QED
      BY <2>2, <3>1, OfferedType, ConcatProperties, LenProperties
  <2>4. h \in UNION {{<<c, n>> : n \in 1 .. Made(Server, c)} : c \in Clients}
    <3>1. i \in DOMAIN Offered
      BY <2>3, OfferedType, LenProperties
    <3> QED
      BY <1>0, <2>3, <3>1 DEF AcceptedOnce
  <2>5. PICK c \in Clients : h \in {<<c, n>> : n \in 1 .. Made(Server, c)}
    BY <2>4
  <2> QED
    BY <1>1, <2>5, Addresses
<1>2. CASE s # Server
  <2>1. s \in Clients /\ h = <<Server, 1>>
    BY <1>2 DEF Has, Sockets
  <2>2. Made(s, Server) >= 1 /\ Made(s, Server) \in Nat
    BY <1>0, <2>1, Addresses DEF SocketOK, SocketTypeOK, ClientOK, Made
  <2> QED
    BY <2>1, <2>2, Addresses
<1> QED
  BY <1>1, <1>2

LEMMA CloseOK ==
  ASSUME IInv, Alive, NEW s \in Sockets, Close(s)
  PROVE  IInv'
<1>0. /\ GlobalOK /\ SocketOK(s) /\ AcceptedOnce
      /\ SocketTypeOK(s) /\ PoolOK(s) /\ LoopOK(s)
  BY Parts DEF SocketOK
<1>1. /\ UNCHANGED <<net, phase, starts, stopped, lost, pool, loop, clientCh, idle, accepted>>
      /\ phase[s] = "up"
  BY DEF Close, ends
<1>2. PICK h \in Has(s) :
        \/ /\ conns[s][h[1]][h[2]] = "open"
           /\ conns' = [conns EXCEPT ![s] = [conns[s] EXCEPT ![h[1]] =
                          [conns[s][h[1]] EXCEPT ![h[2]] = "closed"]]]
           /\ crashed' = crashed
        \/ /\ crashed' = [who |-> s, what |-> "app"]
           /\ conns' = conns
  BY DEF Close
<1> DEFINE a == h[1]
           n == h[2]
<1>3. a \in Peers(s) /\ n \in 1 .. Made(s, a) /\ a = h[1] /\ n = h[2]
  BY <1>1, HasMade
<1> HIDE DEF a, n
<1>4. CASE crashed' = [who |-> s, what |-> "app"] /\ conns' = conns
  <2>1. GlobalOK' /\ OnlyDoubleClosePanics'
    BY <1>0, <1>1, <1>4 DEF GlobalOK, OnlyDoubleClosePanics
  <2>2. OnlyAt(s)
    BY <1>1, <1>4 DEF OnlyAt
  <2>3. SocketOK(s)'
    BY <1>0, <1>1, <1>4, Untouched
  <2>4. AcceptedOnce'
    BY <1>0, <1>1, <1>4, NothingOffered DEF Offered, InHand, Made
  <2> QED
    BY <2>1, <2>2, <2>3, <2>4, OneSocket, PartsPrime
<1>5. CASE /\ conns[s][a][n] = "open"
           /\ conns' = [conns EXCEPT ![s] = [conns[s] EXCEPT ![a] = [conns[s][a] EXCEPT ![n] = "closed"]]]
           /\ crashed' = crashed
  <2> DEFINE new == [conns[s][a] EXCEPT ![n] = "closed"]
  <2>1. /\ new \in Seq({"open", "closed", "gone"}) /\ Len(new) = Made(s, a)
        /\ \A i \in 1 .. Made(s, a) : new[i] = IF i = n THEN "closed" ELSE conns[s][a][i]
    <3>1. conns[s][a] \in Seq({"open", "closed", "gone"})
      BY <1>0, <1>3 DEF SocketTypeOK
    <3> QED
      BY <1>3, <3>1, ExceptSeq DEF Made
  <2>2. conns' = [conns EXCEPT ![s] = [conns[s] EXCEPT ![a] = new]]
    BY <1>5
  <2> HIDE DEF new
  <2>3. /\ \A t \in Sockets \ {s} : conns'[t] = conns[t]
        /\ DOMAIN conns' = Sockets /\ conns'[s] = [conns[s] EXCEPT ![a] = new]
    BY <1>0, <2>2 DEF GlobalOK
  <2>4. /\ conns'[s] \in [Peers(s) -> Seq({"open", "closed", "gone"})]
        /\ conns'[s][a] = new /\ \A b \in Peers(s) \ {a} : conns'[s][b] = conns[s][b]
    BY <1>0, <1>3, <2>1, <2>3 DEF SocketTypeOK
  <2>5. \A b \in Peers(s) : Made(s, b)' = Made(s, b)
    BY <2>1, <2>4 DEF Made
  <2>6. \A b \in Peers(s) : \A i \in 1 .. Made(s, b) :
          conns'[s][b][i] # "gone" <=> conns[s][b][i] # "gone"
    BY <1>5, <2>1, <2>4
  <2>7. GlobalOK'
    BY <1>0, <1>1, <1>5, <2>3 DEF GlobalOK
  <2>8. OnlyAt(s)
    BY <1>1, <2>3 DEF OnlyAt
  <2>9. SocketOK(s)'
    <3>1. SocketTypeOK(s)'
      BY <1>0, <1>1, <2>4, <2>5 DEF SocketTypeOK
    <3>2. LoopOK(s)'
      BY <1>0, <1>1, <2>5 DEF LoopOK, Made
    <3>3. PoolOK(s)'
      BY <1>0, <1>1, <2>5, <2>6 DEF PoolOK
    <3>4. s \in Clients => ClientOK(s)'
      BY <1>0, <1>1, <2>5, Addresses DEF SocketOK, ClientOK
    <3> QED
      BY <3>1, <3>2, <3>3, <3>4 DEF SocketOK
  <2>10. AcceptedOnce'
    <3>1. \A c \in Clients : Made(Server, c)' = Made(Server, c)
      BY <2>3, <2>5, Addresses DEF Made
    <3> QED
      BY <1>0, <1>1, <3>1, NothingOffered DEF Offered, InHand
  <2> QED
    BY <1>5, <2>7, <2>8, <2>9, <2>10, OneSocket, NoPanicHere, PartsPrime
<1> QED
  BY <1>2, <1>3, <1>4, <1>5

LEMMA StopOK ==
  ASSUME IInv, Alive, NEW s \in Sockets, Stop(s)
  PROVE  IInv'
<1>0. GlobalOK /\ SocketOK(s) /\ AcceptedOnce
  BY Parts
<1>1. /\ UNCHANGED <<net, phase, starts, lost, conns, pool, loop, clientCh, idle, accepted, crashed>>
      /\ stopped' = stopped \cup {s}
  BY DEF Stop
<1>2. GlobalOK'
  BY <1>0, <1>1 DEF GlobalOK
<1>3. OnlyAt(s)
  BY <1>1 DEF OnlyAt
<1>4. SocketOK(s)'
  BY <1>0, <1>1, Untouched
<1>5. AcceptedOnce'
  BY <1>0, <1>1, NothingOffered DEF Offered, InHand, Made
<1> QED
  BY <1>1, <1>2, <1>3, <1>4, <1>5, OneSocket, NoPanicHere, PartsPrime

-------------------------------------------------------------------------------
\* A client.

\* A client whose process has just been started
LEMMA NewSocketOK ==
  ASSUME NEW c \in Clients, phase'[c] = "start",
         conns'[c] = [a \in Peers(c) |-> <<>>], pool'[c] = [a \in Peers(c) |-> 0],
         loop'[c] = NotRunning, clientCh'[c] = <<>>, idle'[c] = {}
  PROVE  SocketOK(c)'
<1>1. Peers(c) = {Server} /\ MaxConns[c] \in Nat \ {0}
  BY Addresses
<1>2. /\ conns'[c][Server] = <<>> /\ pool'[c][Server] = 0 /\ Made(c, Server)' = 0
      /\ conns'[c] \in [Peers(c) -> Seq({"open", "closed", "gone"})] /\ pool'[c] \in [Peers(c) -> Nat]
  BY <1>1 DEF Made
<1>3. NotRunning.pc = "off"
  BY DEF NotRunning, At
<1>4. SocketTypeOK(c)'
  <2>1. NotRunning \in [pc : LoopStates, d : Datagrams \cup {NoDatagram}, n : 0 .. MaxConns[c]]
    BY <1>1 DEF NotRunning, At, LoopStates
  <2>2. clientCh'[c] \in Seq(Peers(c) \X Nat) /\ Len(clientCh'[c]) = 0
    OBVIOUS
  <2> QED
    BY <1>1, <1>2, <2>1, <2>2 DEF SocketTypeOK
<1>5. LoopOK(c)'
  BY <1>3 DEF LoopOK
<1>6. PoolOK(c)'
  BY <1>1, <1>2 DEF PoolOK
<1>7. ClientOK(c)'
  BY <1>2, <1>3 DEF ClientOK
<1> QED
  BY <1>4, <1>5, <1>6, <1>7 DEF SocketOK

\* A datagram of a client is one for the server.
LEMMA ClientDatagram ==
  ASSUME GlobalOK, NEW c \in Clients, NEW type \in {"SYN", "PingReq"},
         net' = net \cup {Datagram(c, Server, type)}
  PROVE  /\ net' \subseteq Datagrams
         /\ \A d \in net' : d.to = Server <=> d.type \in {"SYN", "PingReq"}
<1>1. Datagram(c, Server, type) \in Datagrams
  BY Addresses DEF Datagram, Datagrams
<1>2. Datagram(c, Server, type).to = Server /\ Datagram(c, Server, type).type = type
  BY DEF Datagram
<1> QED
  BY <1>1, <1>2 DEF GlobalOK

LEMMA SendSYNOK ==
  ASSUME IInv, Alive, NEW c \in Clients, SendSYN(c)
  PROVE  IInv'
<1>0. GlobalOK /\ SocketOK(c) /\ c \in Sockets
  BY Parts, Addresses
<1>1. /\ UNCHANGED <<starts, stopped, conns, pool, loop, clientCh, idle, accepted, crashed>>
      /\ phase[c] = "start" /\ phase' = [phase EXCEPT ![c] = "read"]
      /\ net' = net \cup {Datagram(c, Server, "SYN")} /\ lost' = lost \ {c}
  BY DEF SendSYN
<1>2. /\ phase'[c] = "read" /\ \A t \in Sockets \ {c} : phase'[t] = phase[t]
      /\ phase' \in [Sockets -> {"start", "read", "up"}]
  BY <1>0, <1>1 DEF GlobalOK
<1>3. GlobalOK'
  <2>1. /\ net' \subseteq Datagrams
        /\ \A d \in net' : d.to = Server <=> d.type \in {"SYN", "PingReq"}
    BY <1>0, <1>1, ClientDatagram
  <2> QED
    BY <1>0, <1>1, <1>2, <2>1 DEF GlobalOK
<1>4. OnlyAt(c)
  BY <1>1, <1>2 DEF OnlyAt
<1>5. SocketOK(c)'
  BY <1>0, <1>1, <1>2 DEF SocketOK, SocketTypeOK, LoopOK, PoolOK, ClientOK, Made
<1> QED
  BY <1>0, <1>1, <1>3, <1>4, <1>5, OneSocket, AtClient, NoPanicHere, PartsPrime

LEMMA ReadACKOK ==
  ASSUME IInv, Alive, NEW c \in Clients, ReadACK(c)
  PROVE  IInv'
<1>0. /\ GlobalOK /\ SocketOK(c) /\ c \in Sockets
      /\ SocketTypeOK(c) /\ PoolOK(c) /\ LoopOK(c) /\ ClientOK(c)
  BY Parts, Addresses DEF SocketOK
<1>1. /\ UNCHANGED <<starts, stopped, lost, clientCh, idle, accepted, crashed>>
      /\ phase[c] = "read" /\ net' \subseteq net
  BY DEF ReadACK
<1>2. CASE /\ HandshakeConn(c)
           /\ phase' = [phase EXCEPT ![c] = "up"] /\ Loop(c, Reading)
  <2>1. /\ phase'[c] = "up" /\ loop'[c] = Reading /\ DOMAIN loop' = Sockets
        /\ \A t \in Sockets \ {c} : phase'[t] = phase[t] /\ loop'[t] = loop[t]
        /\ phase' \in [Sockets -> {"start", "read", "up"}]
    BY <1>0, <1>2 DEF GlobalOK, Loop
  <2>2. loop'[c].pc = "read"
    BY <2>1 DEF Reading, At
  <2>3. /\ Peers(c) = {Server} /\ Made(c, Server) = 0 /\ pool[c][Server] = 0
        /\ Made(c, Server) < MaxConns[c] /\ clientCh[c] = <<>>
    BY <1>0, <1>1, Addresses DEF ClientOK, PoolOK
  <2>4. /\ DOMAIN conns' = Sockets /\ DOMAIN pool' = Sockets
        /\ \A t \in Sockets \ {c} : conns'[t] = conns[t] /\ pool'[t] = pool[t]
        /\ conns'[c] \in [Peers(c) -> Seq({"open", "closed", "gone"})]
        /\ pool'[c] \in [Peers(c) -> Nat]
        /\ \A b \in Peers(c) : Made(c, b)' = IF b = Server THEN Made(c, b) + 1 ELSE Made(c, b)
        /\ \A b \in Peers(c) : Made(c, b)' <= MaxConns[c] /\ pool'[c][b] <= Made(c, b)'
        /\ PoolOK(c)'
    <3>1. DOMAIN conns = Sockets /\ DOMAIN pool = Sockets
      BY <1>0 DEF GlobalOK
    <3> QED
      BY <1>0, <1>1, <1>2, <2>3, <3>1, InsertOK DEF HandshakeConn
  <2>5. GlobalOK'
    BY <1>0, <1>1, <2>1, <2>4 DEF GlobalOK
  <2>6. OnlyAt(c)
    BY <1>1, <2>1, <2>4 DEF OnlyAt
  <2>7. SocketOK(c)'
    <3>1. loop'[c] \in [pc : LoopStates, d : Datagrams \cup {NoDatagram}, n : 0 .. MaxConns[c]]
      BY <1>0, <2>1, Addresses DEF Reading, At, LoopStates
    <3>2. SocketTypeOK(c)'
      BY <1>0, <1>1, <2>4, <3>1 DEF SocketTypeOK
    <3>3. LoopOK(c)'
      BY <2>2 DEF LoopOK
    <3>4. Made(c, Server)' = 1
      BY <2>3, <2>4
    <3>5. ClientOK(c)'
      BY <1>1, <2>1, <2>2, <2>3, <3>4 DEF ClientOK
    <3> QED
      BY <2>4, <3>2, <3>3, <3>5 DEF SocketOK
  <2> QED
    BY <1>0, <1>1, <2>5, <2>6, <2>7, OneSocket, AtClient, NoPanicHere, PartsPrime
<1>3. CASE phase' = [phase EXCEPT ![c] = "start"] /\ UNCHANGED <<conns, pool, loop>>
  <2>1. /\ phase'[c] = "start" /\ \A t \in Sockets \ {c} : phase'[t] = phase[t]
        /\ phase' \in [Sockets -> {"start", "read", "up"}]
    BY <1>0, <1>3 DEF GlobalOK
  <2>2. GlobalOK'
    BY <1>0, <1>1, <1>3, <2>1 DEF GlobalOK
  <2>3. OnlyAt(c)
    BY <1>1, <1>3, <2>1 DEF OnlyAt
  <2>4. SocketOK(c)'
    BY <1>0, <1>1, <1>3, <2>1 DEF SocketOK, SocketTypeOK, LoopOK, PoolOK, ClientOK, Made
  <2> QED
    BY <1>0, <1>1, <2>2, <2>3, <2>4, OneSocket, AtClient, NoPanicHere, PartsPrime
<1> QED
  BY <1>2, <1>3 DEF ReadACK

LEMMA PingOK ==
  ASSUME IInv, Alive, NEW c \in Clients, Ping(c)
  PROVE  IInv'
<1>0. GlobalOK /\ SocketOK(c) /\ c \in Sockets
  BY Parts, Addresses
<1>1. /\ UNCHANGED <<phase, starts, stopped, lost, conns, pool, loop, clientCh, idle, accepted, crashed>>
      /\ net' = net \cup {Datagram(c, Server, "PingReq")}
  BY DEF Ping, ends
<1>2. GlobalOK'
  <2>1. /\ net' \subseteq Datagrams
        /\ \A d \in net' : d.to = Server <=> d.type \in {"SYN", "PingReq"}
    BY <1>0, <1>1, ClientDatagram
  <2> QED
    BY <1>0, <1>1, <2>1 DEF GlobalOK
<1>3. OnlyAt(c)
  BY <1>1 DEF OnlyAt
<1>4. SocketOK(c)'
  BY <1>0, <1>1, Untouched
<1> QED
  BY <1>0, <1>1, <1>2, <1>3, <1>4, OneSocket, AtClient, NoPanicHere, PartsPrime

LEMMA RestartOK ==
  ASSUME IInv, Alive, NEW c \in Clients, Restart(c)
  PROVE  IInv'
<1>0. GlobalOK /\ SocketOK(c) /\ c \in Sockets
  BY Parts, Addresses
<1>1. /\ UNCHANGED <<net, stopped, lost, accepted, crashed>> /\ starts[c] < MaxStarts
      /\ phase' = [phase EXCEPT ![c] = "start"] /\ starts' = [starts EXCEPT ![c] = starts[c] + 1]
      /\ conns' = [conns EXCEPT ![c] = [a \in Peers(c) |-> <<>>]]
      /\ pool' = [pool EXCEPT ![c] = [a \in Peers(c) |-> 0]]
      /\ loop' = [loop EXCEPT ![c] = NotRunning]
      /\ clientCh' = [clientCh EXCEPT ![c] = <<>>] /\ idle' = [idle EXCEPT ![c] = {}]
  BY DEF Restart, Loop
<1>2. /\ phase'[c] = "start" /\ \A t \in Sockets \ {c} : phase'[t] = phase[t]
      /\ phase' \in [Sockets -> {"start", "read", "up"}]
  BY <1>0, <1>1 DEF GlobalOK
<1>3. starts' \in [Clients -> 1 .. MaxStarts]
  <2>1. starts \in [Clients -> 1 .. MaxStarts] /\ MaxStarts \in Nat
    BY <1>0, BoundAssumption DEF GlobalOK
  <2>2. starts[c] + 1 \in 1 .. MaxStarts
    BY <1>1, <2>1
  <2> QED
    BY <1>1, <2>1, <2>2
<1>4. /\ conns'[c] = [a \in Peers(c) |-> <<>>] /\ pool'[c] = [a \in Peers(c) |-> 0]
      /\ loop'[c] = NotRunning /\ clientCh'[c] = <<>> /\ idle'[c] = {}
      /\ DOMAIN conns' = Sockets /\ DOMAIN pool' = Sockets /\ DOMAIN loop' = Sockets
      /\ DOMAIN clientCh' = Sockets /\ DOMAIN idle' = Sockets
      /\ \A t \in Sockets \ {c} : /\ conns'[t] = conns[t] /\ pool'[t] = pool[t] /\ loop'[t] = loop[t]
                                 /\ clientCh'[t] = clientCh[t] /\ idle'[t] = idle[t]
  <2>1. /\ DOMAIN conns = Sockets /\ DOMAIN pool = Sockets /\ DOMAIN loop = Sockets
        /\ DOMAIN clientCh = Sockets /\ DOMAIN idle = Sockets
    BY <1>0 DEF GlobalOK
  <2> QED
    BY <1>0, <1>1, <2>1
<1>5. GlobalOK'
  BY <1>0, <1>1, <1>2, <1>3, <1>4 DEF GlobalOK
<1>6. OnlyAt(c)
  BY <1>2, <1>4 DEF OnlyAt
<1>7. SocketOK(c)'
  BY <1>2, <1>4, NewSocketOK
<1> QED
  BY <1>0, <1>1, <1>5, <1>6, <1>7, OneSocket, AtClient, NoPanicHere, PartsPrime

LEMMA LoseOK ==
  ASSUME IInv, Alive, NEW c \in Clients, Lose(c)
  PROVE  IInv'
<1>0. GlobalOK /\ SocketOK(c) /\ c \in Sockets
  BY Parts, Addresses
<1>1. /\ UNCHANGED <<phase, starts, stopped, conns, pool, loop, clientCh, idle, accepted, crashed>>
      /\ net' \subseteq net /\ lost' \subseteq lost \cup {c}
  BY DEF Lose
<1>2. GlobalOK'
  BY <1>0, <1>1 DEF GlobalOK
<1>3. OnlyAt(c)
  BY <1>1 DEF OnlyAt
<1>4. SocketOK(c)'
  BY <1>0, <1>1, Untouched
<1> QED
  BY <1>0, <1>1, <1>2, <1>3, <1>4, OneSocket, AtClient, NoPanicHere, PartsPrime

-------------------------------------------------------------------------------
\* The specification.

LEMMA InitOK == Init => IInv
<1> SUFFICES ASSUME Init PROVE IInv
  OBVIOUS
<1>1. \A s \in Sockets : \A a \in Peers(s) : conns[s][a] = <<>> /\ pool[s][a] = 0 /\ Made(s, a) = 0
  BY DEF Init, Made
<1>2. \A s \in Sockets : SocketOK(s)
  <2>1. SUFFICES ASSUME NEW s \in Sockets PROVE SocketOK(s)
    OBVIOUS
  <2>2. /\ loop[s] \in {Reading, NotRunning} /\ loop[s].pc \in {"read", "off"}
        /\ clientCh[s] = <<>> /\ idle[s] = {}
        /\ s \in Clients => loop[s] = NotRunning /\ phase[s] = "start"
    BY Addresses DEF Init, Reading, NotRunning, At
  <2>3. SocketTypeOK(s)
    <3>1. conns[s] \in [Peers(s) -> Seq({"open", "closed", "gone"})] /\ pool[s] \in [Peers(s) -> Nat]
      BY DEF Init
    <3>2. loop[s] \in [pc : LoopStates, d : Datagrams \cup {NoDatagram}, n : 0 .. MaxConns[s]]
      BY <2>2, Addresses DEF Reading, NotRunning, At, LoopStates
    <3>3. clientCh[s] \in Seq(Peers(s) \X Nat) /\ Len(clientCh[s]) = 0
      BY <2>2
    <3> QED
      BY <1>1, <2>2, <3>1, <3>2, <3>3, Addresses DEF SocketTypeOK
  <2>4. LoopOK(s)
    BY <2>2 DEF LoopOK
  <2>5. PoolOK(s)
    BY <1>1, <2>2 DEF PoolOK
  <2>6. s \in Clients => ClientOK(s)
    BY <1>1, <2>2, Addresses DEF ClientOK, NotRunning, At
  <2> QED
    BY <2>3, <2>4, <2>5, <2>6 DEF SocketOK
<1>3. TypeOK
  <2>1. /\ DOMAIN conns = Sockets /\ DOMAIN pool = Sockets /\ DOMAIN loop = Sockets
        /\ DOMAIN clientCh = Sockets /\ DOMAIN idle = Sockets
    BY DEF Init
  <2>2. phase \in [Sockets -> {"start", "read", "up"}]
    BY DEF Init
  <2>3. starts \in [Clients -> 1 .. MaxStarts]
    BY BoundAssumption DEF Init
  <2>4. crashed \in [who : Sockets, what : {"no", "nil", "gc", "app"}] /\ accepted = <<>>
    BY Addresses DEF Init, NoPanic
  <2>5. net = {} /\ lost = {} /\ stopped = {}
    BY DEF Init
  <2> QED
    BY <1>2, <2>1, <2>2, <2>3, <2>4, <2>5 DEF TypeOK, SocketOK
<1>4. AcceptedOnce
  <2>1. Offered = <<>>
    BY Addresses DEF Init, Offered, InHand, Reading, At
  <2>2. \A c \in Clients : 1 .. Made(Server, c) = {}
    BY <1>1, Addresses
  <2> QED
    BY <2>1, <2>2 DEF AcceptedOnce
<1>5. OnlyDoubleClosePanics
  BY DEF Init, NoPanic, OnlyDoubleClosePanics
<1> QED
  BY <1>2, <1>3, <1>4, <1>5 DEF IInv

LEMMA NextOK == IInv /\ [Next]_vars => IInv'
<1> SUFFICES ASSUME IInv, [Next]_vars PROVE IInv'
  OBVIOUS
<1>1. CASE UNCHANGED vars
  <2>1. UNCHANGED <<net, phase, starts, stopped, lost, conns, pool, loop, clientCh, idle, accepted, crashed>>
    BY <1>1 DEF vars, ends
  <2>2. GlobalOK'
    BY <2>1, Parts DEF GlobalOK
  <2>3. \A s \in Sockets : SocketOK(s)'
    BY <2>1, Parts, Untouched
  <2>4. AcceptedOnce'
    BY <2>1, Parts, NothingOffered DEF Offered, InHand, Made
  <2>5. OnlyDoubleClosePanics'
    BY <2>1, Parts DEF OnlyDoubleClosePanics
  <2> QED
    BY <2>2, <2>3, <2>4, <2>5, PartsPrime
<1>2. CASE Next
  <2>1. Alive
    BY <1>2 DEF Next
  <2>2. CASE Accept
    BY <2>1, <2>2, AcceptOK
  <2>3. ASSUME NEW s \in Sockets,
               RecvLoop(s) \/ Collect(s) \/ Sweep(s) \/ Close(s) \/ Stop(s)
        PROVE  IInv'
    <3>1. CASE RecvLoop(s)
      BY <2>1, <3>1, ReceiveOK, NewOK, OfferOK, HandleOK DEF RecvLoop
    <3> QED
      BY <2>1, <2>3, <3>1, CollectOK, SweepOK, CloseOK, StopOK
  <2>4. ASSUME NEW c \in Clients,
               SendSYN(c) \/ ReadACK(c) \/ Ping(c) \/ Restart(c) \/ Lose(c)
        PROVE  IInv'
    BY <2>1, <2>4, SendSYNOK, ReadACKOK, PingOK, RestartOK, LoseOK
  <2> QED
    BY <1>2, <2>2, <2>3, <2>4 DEF Next
<1> QED
  BY <1>1, <1>2

\* The inductive invariant holds throughout.
THEOREM Invariance == Spec => []IInv
  BY InitOK, NextOK, PTL DEF Spec

\* Type correctness of every socket and of the network: clientCh never holds more than
\* one Conn, and datagrams go the right way.
THEOREM TypeCorrect == Spec => []TypeOK
<1>1. IInv => TypeOK
  BY DEF IInv
<1> QED
  BY <1>1, Invariance, PTL

\* connPool and the Conns it made agree, whatever garbageCollection, Close and the
\* receive loop do in between.
THEOREM OneConnIsKept == Spec => []OneConnPerAddress
<1>1. IInv => OneConnPerAddress
  BY DEF IInv, SocketOK, PoolOK, OneConnPerAddress
<1> QED
  BY <1>1, Invariance, PTL

\* Accept returns every Conn of the server once and in order, for any number of
\* clients that share clientCh.
THEOREM EachIsAcceptedOnce == Spec => []AcceptedOnce
<1>1. IInv => AcceptedOnce
  BY DEF IInv
<1> QED
  BY <1>1, Invariance, PTL

\* garbageCollection finds under its second lock what it collected under the first.
THEOREM OnlyDoubleCloses == Spec => []OnlyDoubleClosePanics
<1>1. IInv => OnlyDoubleClosePanics
  BY DEF IInv
<1> QED
  BY <1>1, Invariance, PTL

\* The receive loop of a client only blocks on clientCh after two garbage collections.
THEOREM BlocksLate == Spec => []ClientBlocksLate
<1>1. ASSUME IInv, NEW c \in Clients, loop[c].pc = "offer", clientCh[c] # <<>>
      PROVE  \E m, n \in 1 .. Made(c, Server) :
               m # n /\ conns[c][Server][m] = "gone" /\ conns[c][Server][n] = "gone"
  <2>1. /\ SocketTypeOK(c) /\ PoolOK(c) /\ ClientOK(c) /\ Server \in Peers(c)
    BY <1>1, Parts, Addresses DEF SocketOK
  <2>2. Made(c, Server) \in Nat
    BY <2>1 DEF SocketTypeOK, Made
  <2>3. Made(c, Server) >= 3
    BY <1>1, <2>1, <2>2 DEF ClientOK
  <2>4. pool[c][Server] # 1 /\ pool[c][Server] # 2
    BY <2>1, <2>2, <2>3 DEF PoolOK
  <2>5. conns[c][Server][1] = "gone" /\ conns[c][Server][2] = "gone"
    BY <2>1, <2>2, <2>3, <2>4 DEF PoolOK
  <2> QED
    BY <2>2, <2>3, <2>5
<1>2. IInv => ClientBlocksLate
  BY <1>1 DEF ClientBlocksLate
<1> QED
  BY <1>2, Invariance, PTL
===============================================================================
