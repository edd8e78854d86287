-------------------------------- MODULE Tunnel --------------------------------
(***************************************************************************)
(* One tunnel over one link: tunnel/tunnel.go, tunnel/channel/tcp.go and   *)
(* pool.go, the dispatch of tunnel/manager.go and the receive loop of      *)
(* link/link.go.                                                           *)
(*                                                                         *)
(* End "F" is the forward end: it listens, and each client it accepts is a *)
(* channel.  End "R" is the reverse end: it dials the server when data of  *)
(* a channel it does not know arrives, so a channel id may have several    *)
(* generations there.  A tcpChannel is the triple of its end, its channel  *)
(* id and its generation; it is served by a goroutine (ServeChannel) and   *)
(* written to by the receive loop of the link of its end.                  *)
(*                                                                         *)
(* The data of a connection is a stream of chunks, numbered; one Read      *)
(* returns one chunk.  The outbound channel of a link, what its send loop  *)
(* holds and what the connection buffers are one queue: the send loop      *)
(* moves messages in order and drops none while the link is up.            *)
(*                                                                         *)
(* The keepalive of a link is here for what it does to a link whose        *)
(* receive loop hangs: its pings, and the answers the receive loops give,  *)
(* take room in the same queues.  A Ping that waits for room is one that   *)
(* has not been taken yet.                                                 *)
(***************************************************************************)
EXTENDS Integers, Sequences, FiniteSets

CONSTANTS
  Channels,     \* clients that connect to the listener, one channel id each
  NUp,          \* NUp[c]: chunks client c sends at most
  NDown,        \* NDown[c]: chunks a server connection of channel c sends at most
  Cap,          \* capacity of the queue from one end to the other, outbound's place included
  DialFails,    \* whether the server may be out of reach
  MaxLeaves,    \* how many applications close their connection
  MaxStalls,    \* how many applications stop reading, so that Writes to them block
  MaxPings      \* how often each keepalive pings although no receive loop hangs

ASSUME UpAssumption      == NUp \in [Channels -> Nat \ {0}]
ASSUME DownAssumption    == NDown \in [Channels -> Nat]
ASSUME CapAssumption     == Cap \in Nat /\ Cap > 0
ASSUME LimitAssumption   == MaxLeaves \in Nat /\ MaxStalls \in Nat /\ MaxPings \in Nat
ASSUME DialAssumption    == DialFails \in BOOLEAN

Ends     == {"F", "R"}
Other(e) == IF e = "F" THEN "R" ELSE "F"

\* Every generation but the first is opened by a chunk of its own.
Gens(e, c) == IF e = "F" THEN {1} ELSE 1 .. NUp[c]

Tcp(e, c, g) == [end |-> e, ch |-> c, gen |-> g]
Objects      == UNION {{Tcp(e, c, g) : g \in Gens(e, c)} : e \in Ends, c \in Channels}
Limit(o)     == IF o.end = "F" THEN NUp[o.ch] ELSE NDown[o.ch]

VARIABLES
  phase,      \* where the goroutine of each tcpChannel is
  closed,     \* tcpChannel.closed: Close() was called on these
  byRemote,   \* tcpChannel.closedByRemote
  gone,       \* tcpChannels whose application has closed its connection
  stuck,      \* tcpChannels whose application has stopped reading
  nread,      \* how many chunks Serve has read from each connection
  written,    \* what HandleIn has written to each connection
  pool,       \* Tunnel.cpool of each end: the generation that is in it, 0: none
  queue,      \* queue[e]: messages from end e to the other end
  rx,         \* what the receive loop of each end is doing
  replying,   \* ends whose receive loop has a ping to answer
  pinging,    \* ends whose keepalive waits for the answer to its Ping
  pings,      \* how often the keepalive of each end has pinged an idle link
  up,         \* ends whose receive loop runs
  shut        \* ends whose link has been closed (outbound is closed)

beats == <<replying, pinging, pings>>
vars  == <<phase, closed, byRemote, gone, stuck, nread, written, pool, queue, rx, beats, up, shut>>

Forward(c, from, k) == [type |-> "forward", ch |-> c, data |-> <<from.gen, k>>]
ChannelClose(c)     == [type |-> "close", ch |-> c]
PingRequest         == [type |-> "ping"]
PingResponse        == [type |-> "pong"]

Idle           == [at |-> "idle"]
Writing(o, d)  == [at |-> "write", obj |-> o, data |-> d]
Closing(at, o) == [at |-> at, obj |-> o]

-------------------------------------------------------------------------------
\* The goroutine of a channel: ServeChannel and Serve.

Goto(o, p) == phase' = [phase EXCEPT ![o] = p]

\* l.Accept, cpool.New with an id not used before, go t.ServeChannel(c)
Accept(c) ==
  LET o == Tcp("F", c, 1)
  IN  /\ phase[o] = "none" /\ "F" \notin shut
      /\ pool' = [pool EXCEPT !["F"][c] = 1]
      /\ Goto(o, "read")
      /\ UNCHANGED <<closed, byRemote, gone, stuck, nread, written, queue, rx, beats, up, shut>>

\* c.conn.Read returns a chunk.
ReadChunk(o) ==
  /\ phase[o] = "read" /\ o \notin closed \cup gone /\ nread[o] < Limit(o)
  /\ nread' = [nread EXCEPT ![o] = @ + 1]
  /\ Goto(o, "send")
  /\ UNCHANGED <<closed, byRemote, gone, stuck, written, pool, queue, rx, beats, up, shut>>

\* mistake: the error is returned whoever has closed the channel
ReadErrorTold(o) ==
  /\ phase[o] = "read" /\ o \in closed \cup gone
  /\ Goto(o, "defer")
  /\ UNCHANGED <<closed, byRemote, gone, stuck, nread, written, pool, queue, rx, beats, up, shut>>

\* c.conn.Read returns an error: Serve returns nil when the channel is closed
\* already, and the error (io.EOF) otherwise, after its deferred Close.
ReadError(o) ==
  /\ phase[o] = "read"
  /\ \/ o \in closed /\ Goto(o, "exist")
     \/ o \in gone \ closed /\ Goto(o, "defer")
  /\ UNCHANGED <<closed, byRemote, gone, stuck, nread, written, pool, queue, rx, beats, up, shut>>

\* outbound <- m
Put(e, m) ==
  /\ Len(queue[e]) < Cap
  /\ queue' = [queue EXCEPT ![e] = Append(@, m)]

\* c.outbound <- message; a panic when outbound has been closed.
SendChunk(o) ==
  /\ phase[o] = "send"
  /\ IF o.end \in shut
     THEN Goto(o, "panic") /\ UNCHANGED queue
     ELSE Goto(o, "read") /\ Put(o.end, Forward(o.ch, o, nread[o]))
  /\ UNCHANGED <<closed, byRemote, gone, stuck, nread, written, pool, rx, beats, up, shut>>

\* The deferred function of Serve: `if !c.closed { c.Close() }'.  After a panic
\* Serve returns nil.
DeferredClose(o) ==
  /\ phase[o] \in {"defer", "panic"}
  /\ closed' = closed \cup {o}
  /\ Goto(o, IF phase[o] = "defer" THEN "check" ELSE "exist")
  /\ UNCHANGED <<byRemote, gone, stuck, nread, written, pool, queue, rx, beats, up, shut>>

NextInverted(o) == IF o \in byRemote THEN "notify" ELSE "exist"    \* mistake

\* `if !c.IsClosedByRemote()'
AfterServe(o) == IF o \in byRemote THEN "exist" ELSE "notify"

\* mistake: the entry is deleted before the other end is told
CheckAndDelete(o) ==
  /\ phase[o] = "check"
  /\ Goto(o, AfterServe(o))
  /\ pool' = [pool EXCEPT ![o.end][o.ch] = 0]
  /\ UNCHANGED <<closed, byRemote, gone, stuck, nread, written, queue, rx, beats, up, shut>>

Check(o) ==
  /\ phase[o] = "check"
  /\ Goto(o, AfterServe(o))
  /\ UNCHANGED <<closed, byRemote, gone, stuck, nread, written, pool, queue, rx, beats, up, shut>>

\* closeRemoteChannel; the panic of a closed outbound is recovered.
Notify(o) ==
  /\ phase[o] = "notify"
  /\ IF o.end \in shut THEN UNCHANGED queue ELSE Put(o.end, ChannelClose(o.ch))
  /\ Goto(o, "exist")
  /\ UNCHANGED <<closed, byRemote, gone, stuck, nread, written, pool, rx, beats, up, shut>>

\* `if t.cpool.Exist(c.ID())'
Exist(o) ==
  /\ phase[o] = "exist"
  /\ Goto(o, IF pool[o.end][o.ch] = 0 THEN "done" ELSE "delete")
  /\ UNCHANGED <<closed, byRemote, gone, stuck, nread, written, pool, queue, rx, beats, up, shut>>

\* t.cpool.Delete(c), under another lock than the test: whatever has the id goes.
DeleteSelf(o) ==
  /\ phase[o] = "delete"
  /\ pool' = [pool EXCEPT ![o.end][o.ch] = 0]
  /\ Goto(o, "done")
  /\ UNCHANGED <<closed, byRemote, gone, stuck, nread, written, queue, rx, beats, up, shut>>

-------------------------------------------------------------------------------
\* The receive loop of a link, for the messages of the tunnel.

\* The generation NewByID creates for a channel id at the reverse end.
Opened(c) == Cardinality({g \in Gens("R", c) : phase[Tcp("R", c, g)] # "none"}) + 1

NotServed(o) == UNCHANGED phase             \* mistake: not served

\* go t.ServeChannel(c)
Served(o) == Goto(o, "read")

\* c.HandleIn(m), which goes on in WriteChunk.
HandleIn(o, d) == rx' = [rx EXCEPT ![o.end] = Writing(o, d)]

NotWritten(o, d) == UNCHANGED rx            \* mistake: the chunk only opens the channel

\* The chunk that opens a channel is written to it.
FirstWrite(o, d) == HandleIn(o, d)

\* Data of a channel the end does not know: the reverse end dials; the forward
\* end, and the reverse end when the dial fails, return an error, which ends
\* the receive loop.
ReceiveUnknown(e, m) ==
  /\ m.type = "forward" /\ pool[e][m.ch] = 0
  /\ \/ /\ e = "R"
        /\ pool' = [pool EXCEPT ![e][m.ch] = Opened(m.ch)]
        /\ Served(Tcp(e, m.ch, Opened(m.ch)))
        /\ FirstWrite(Tcp(e, m.ch, Opened(m.ch)), m.data)
        /\ UNCHANGED up
     \/ /\ e = "F" \/ DialFails
        /\ up' = up \ {e}
        /\ UNCHANGED <<phase, pool, rx>>
  /\ UNCHANGED beats

ReceiveKnown(e, m) ==
  /\ m.type = "forward" /\ pool[e][m.ch] # 0
  /\ HandleIn(Tcp(e, m.ch, pool[e][m.ch]), m.data)
  /\ UNCHANGED <<phase, pool, beats, up>>

\* A close of an unknown channel is ignored by Manager.HandleIn.
ReceiveClose(e, m) ==
  /\ m.type = "close"
  /\ rx' = IF pool[e][m.ch] = 0 THEN rx
           ELSE [rx EXCEPT ![e] = Closing("close", Tcp(e, m.ch, pool[e][m.ch]))]
  /\ UNCHANGED <<phase, pool, beats, up>>

\* A ping is answered (see Reply); the answer to a Ping ends it, one that comes after
\* its timeout is ignored.
ReceivePing(e, m) ==
  /\ \/ m = PingRequest /\ replying' = replying \cup {e} /\ UNCHANGED pinging
     \/ m = PingResponse /\ pinging' \in {pinging, pinging \ {e}} /\ UNCHANGED replying
  /\ UNCHANGED <<phase, pool, rx, pings, up>>

\* conn.Recv and the dispatch to Tunnel.HandleIn, HandleChannelClose or handlePing.
Receive(e) ==
  /\ e \in up /\ rx[e] = Idle /\ e \notin replying /\ queue[Other(e)] # <<>>
  /\ LET m == Head(queue[Other(e)])
     IN  ReceiveUnknown(e, m) \/ ReceiveKnown(e, m) \/ ReceiveClose(e, m) \/ ReceivePing(e, m)
  /\ queue' = [queue EXCEPT ![Other(e)] = Tail(@)]
  /\ UNCHANGED <<closed, byRemote, gone, stuck, nread, written, shut>>

CanWrite(o) == o \in closed \cup gone \/ o \notin stuck

\* tcpChannel.HandleIn: conn.Write in the receive loop.  It fails when the
\* channel was closed meanwhile, may fail when the application is gone, and
\* ends the receive loop when it fails.
WriteChunk(e) ==
  /\ e \in up /\ rx[e].at = "write"
  /\ LET o == rx[e].obj
     IN  /\ CanWrite(o)
         /\ \/ /\ o \notin closed
               /\ written' = [written EXCEPT ![o] = Append(@, rx[e].data)]
               /\ UNCHANGED up
            \/ /\ o \in closed \cup gone
               /\ up' = up \ {e}
               /\ UNCHANGED written
  /\ rx' = [rx EXCEPT ![e] = Idle]
  /\ UNCHANGED <<phase, closed, byRemote, gone, stuck, nread, pool, queue, beats, shut>>

\* HandleChannelClose: c.Close(), c.SetClosedByRemote(), t.cpool.Delete(c)
HandleChannelClose(e) ==
  /\ e \in up
  /\ \/ /\ rx[e].at = "close"
        /\ closed' = closed \cup {rx[e].obj}
        /\ rx' = [rx EXCEPT ![e] = Closing("mark", rx[e].obj)]
        /\ UNCHANGED <<byRemote, pool>>
     \/ /\ rx[e].at = "mark"
        /\ byRemote' = byRemote \cup {rx[e].obj}
        /\ rx' = [rx EXCEPT ![e] = Closing("delete", rx[e].obj)]
        /\ UNCHANGED <<closed, pool>>
     \/ /\ rx[e].at = "delete"
        /\ pool' = [pool EXCEPT ![e][rx[e].obj.ch] = 0]
        /\ rx' = [rx EXCEPT ![e] = Idle]
        /\ UNCHANGED <<closed, byRemote>>
  /\ UNCHANGED <<phase, gone, stuck, nread, written, queue, beats, up, shut>>

\* outbound <- response, in the receive loop: it waits for room.
Reply(e) ==
  /\ e \in up \cap replying
  /\ Put(e, PingResponse)
  /\ replying' = replying \ {e}
  /\ UNCHANGED <<phase, closed, byRemote, gone, stuck, nread, written, pool, rx, pinging, pings, up, shut>>

\* The other end has stopped: conn.Recv returns an error.
PeerLost(e) ==
  /\ e \in up /\ rx[e] = Idle /\ e \notin replying /\ Other(e) \notin up
  /\ up' = up \ {e}
  /\ UNCHANGED <<phase, closed, byRemote, gone, stuck, nread, written, pool, queue, rx, beats, shut>>

-------------------------------------------------------------------------------
\* keepalive.

\* The receive loop of e hangs: in the Write to an application that does not read, or
\* because it has a ping to answer and finds no room.
WriteHangs(e) == e \in up /\ rx[e].at = "write" /\ ~CanWrite(rx[e].obj)
Hangs(e)      == WriteHangs(e) \/ (e \in up \cap replying /\ Len(queue[e]) = Cap)

\* The timer fires and nothing was received for KeepaliveInterval: Ping, which puts its
\* request into outbound and waits for room there, outside of its select.  Nothing is
\* received while a receive loop hangs; other silences of a link are limited in number.
Ping(e) ==
  /\ e \in up \ pinging
  /\ \/ \E x \in Ends : WriteHangs(x) /\ UNCHANGED pings
     \/ pings[e] < MaxPings /\ pings' = [pings EXCEPT ![e] = @ + 1]
  /\ Put(e, PingRequest)
  /\ pinging' = pinging \cup {e}
  /\ UNCHANGED <<phase, closed, byRemote, gone, stuck, nread, written, pool, rx, replying, up, shut>>

\* The answer did not come in time.
PingFails(e) ==
  /\ e \in pinging
  /\ pinging' = pinging \ {e}
  /\ UNCHANGED <<phase, closed, byRemote, gone, stuck, nread, written, pool, queue, rx, replying, pings, shut>>

\* `continue'
KeepaliveAgain(e) == PingFails(e) /\ UNCHANGED up

\* The send loop waits in conn.Send when all places but outbound's are taken.
SendWaits(e) == queue[e] # <<>> /\ Len(queue[e]) >= Cap - 1

\* Nothing had been received for maxLinkIdle before the Ping: l.Stop().  It ends the link
\* when the send loop takes notice, which it does not do in conn.Send.  A Write that hangs
\* then is not followed further.
KeepaliveStop(e) ==
  /\ PingFails(e)
  /\ (\E x \in Ends : Hangs(x)) /\ ~SendWaits(e)
  /\ up' = up \ {e}

-------------------------------------------------------------------------------
\* Link.Close after Link.Wait: close(l.outbound)
CloseLink(e) ==
  /\ e \notin up \cup shut
  /\ shut' = shut \cup {e}
  /\ UNCHANGED <<phase, closed, byRemote, gone, stuck, nread, written, pool, queue, rx, beats, up>>

\* A client or a server closes its connection.
Leave(o) ==
  /\ Cardinality(gone) < MaxLeaves /\ phase[o] # "none" /\ o \notin gone
  /\ gone' = gone \cup {o}
  /\ UNCHANGED <<phase, closed, byRemote, stuck, nread, written, pool, queue, rx, beats, up, shut>>

\* A client or a server stops reading, which shows in the Write that waits for it.
Stall(o) ==
  /\ Cardinality(stuck) < MaxStalls /\ o \notin stuck /\ rx[o.end].at = "write" /\ rx[o.end].obj = o
  /\ stuck' = stuck \cup {o}
  /\ UNCHANGED <<phase, closed, byRemote, gone, nread, written, pool, queue, rx, beats, up, shut>>

-------------------------------------------------------------------------------
Init ==
  /\ phase = [o \in Objects |-> "none"]
  /\ closed = {} /\ byRemote = {} /\ gone = {} /\ stuck = {}
  /\ nread = [o \in Objects |-> 0]
  /\ written = [o \in Objects |-> <<>>]
  /\ pool = [e \in Ends |-> [c \in Channels |-> 0]]
  /\ queue = [e \in Ends |-> <<>>]
  /\ rx = [e \in Ends |-> Idle]
  /\ replying = {} /\ pinging = {} /\ pings = [e \in Ends |-> 0]
  /\ up = Ends /\ shut = {}

ServeChannel(o) ==
  \/ ReadError(o) \/ SendChunk(o) \/ DeferredClose(o)
  \/ Check(o) \/ Notify(o) \/ Exist(o) \/ DeleteSelf(o)

Recv(e)      == Receive(e) \/ WriteChunk(e) \/ HandleChannelClose(e)
Keepalive(e) == Ping(e) \/ KeepaliveAgain(e) \/ KeepaliveStop(e)

Next ==
  \/ \E c \in Channels : Accept(c)
  \/ \E o \in Objects : ReadChunk(o) \/ ServeChannel(o) \/ Leave(o) \/ Stall(o)
  \/ \E e \in Ends : Recv(e) \/ Reply(e) \/ Keepalive(e) \/ PeerLost(e) \/ CloseLink(e)

Spec == Init /\ [][Next]_vars

\* Goroutines that can go on do.  Who waits for room in outbound gets it when there is
\* room for good.  While the receive loop hangs nothing is received: keepalive then pings
\* as long as there is room, and a Ping that fails finds maxLinkIdle exceeded in the end.
\* Applications may stay silent.
FairSpec ==
  /\ Spec
  /\ \A o \in Objects : WF_vars(ServeChannel(o))
  /\ \A e \in Ends : /\ WF_vars(Recv(e) \/ Reply(e))
                     /\ WF_vars(Ping(e) /\ WriteHangs(e))
                     /\ WF_vars(KeepaliveAgain(e) \/ KeepaliveStop(e))
                     /\ SF_vars(KeepaliveStop(e) /\ WriteHangs(e))

-------------------------------------------------------------------------------
\* Properties.

Data == UNION {{<<g, k>> : g \in 1 .. NUp[c], k \in 1 .. NUp[c] + NDown[c]} : c \in Channels}

\* Type correctness; a channel that is in a pool is being served or was.
TypeOK ==
  /\ phase \in [Objects -> {"none", "read", "send", "defer", "panic", "check", "notify",
                            "exist", "delete", "done"}]
  /\ closed \subseteq Objects /\ byRemote \subseteq closed /\ gone \cup stuck \subseteq Objects
  /\ \A o \in Objects : nread[o] \in 0 .. Limit(o) /\ written[o] \in Seq(Data)
  /\ \A e \in Ends, c \in Channels :
       pool[e][c] # 0 => pool[e][c] \in Gens(e, c) /\ phase[Tcp(e, c, pool[e][c])] # "none"
  /\ \A e \in Ends : /\ Len(queue[e]) <= Cap
                     /\ rx[e].at \in {"idle", "write", "close", "mark", "delete"}
  /\ replying \cup pinging \subseteq Ends /\ \A e \in replying : rx[e] = Idle
  /\ pings \in [Ends -> 0 .. MaxPings]
  /\ up \subseteq Ends /\ shut \subseteq Ends \ up

\* What the server connections of channel c were given, one after the other.
Upstream(c) ==
  LET cat[g \in 0 .. NUp[c]] ==
        IF g = 0 THEN <<>> ELSE cat[g - 1] \o written[Tcp("R", c, g)]
  IN  cat[NUp[c]]

\* The servers get the stream of the client in order, without a gap and without
\* a repetition, although an id that was closed is opened again by data that was
\* on its way and another connection gets the rest.
StreamInOrder ==
  \A c \in Channels :
    /\ Len(Upstream(c)) <= nread[Tcp("F", c, 1)]
    /\ \A k \in DOMAIN Upstream(c) : Upstream(c)[k] = <<1, k>>

\* A client is only ever given data of one server connection, the first of its
\* channel, and a prefix of it: when data that was on its way opens the id again,
\* the answer of the second server never reaches the client, because the close
\* notice is put into outbound before the id is free.
NoSplice ==
  \A c \in Channels : LET w == written[Tcp("F", c, 1)] IN
    /\ \A k \in DOMAIN w : w[k] = <<1, k>>
    /\ Len(w) <= nread[Tcp("R", c, 1)]

Announced(e, c) == \E i \in DOMAIN queue[e] : queue[e][i] = ChannelClose(c)

\* The close of channel c is on its way out of the pool of end e.
Leaving(e, c) ==
  LET o == Tcp(e, c, pool[e][c]) IN
    \/ phase[o] \in {"check", "notify", "exist", "delete"}
    \/ rx[e].at \in {"close", "mark", "delete"} /\ rx[e].obj = o

\* A channel that one end has deleted does not stay half-open at the other: the
\* notice is on its way or is being handled, or a link is down.  The exception
\* is a server connection that data on its way has opened again: nobody tells the
\* reverse end to close it.
CloseAnnounced ==
  up = Ends =>
    \A c \in Channels :
      /\ pool["R"][c] = 1 /\ pool["F"][c] = 0 => Announced("F", c) \/ Leaving("R", c)
      /\ (/\ pool["F"][c] = 1 /\ pool["R"][c] = 0
          /\ phase[Tcp("R", c, 1)] # "none") => Announced("R", c) \/ Leaving("F", c)

\* While the link is up a connection is only closed because an application has closed its
\* own: the one of the connection, or one at the other end of its channel.  No close notice
\* is answered with another one, which would close the next connection under the id.
ClosesHaveCause ==
  up = Ends =>
    \A o \in closed : \E p \in gone : p = o \/ (p.ch = o.ch /\ p.end # o.end)

\* A pool entry is only replaced when nobody is left who would delete it by its
\* id: the goroutines of the generations before are at their end, and no close
\* of one of them is being handled.
EntryIsOwn ==
  \A e \in Ends, c \in Channels : pool[e][c] # 0 =>
    \A g \in 1 .. pool[e][c] - 1 :
      /\ phase[Tcp(e, c, g)] = "done"
      /\ rx[e].at # "idle" => rx[e].obj # Tcp(e, c, g)

LinkDown == up # Ends

\* Both receive loops hang and both queues are full: nobody moves any more, keepalive,
\* which waits for outbound like the others, included.
Jammed == \A e \in Ends : Hangs(e) /\ Len(queue[e]) = Cap

Arrived(o, d) == \E k \in DOMAIN written[o] : written[o][k] = d

\* Every chunk read from a client comes to a server connection, unless the link
\* goes down: no chunk is forgotten in a queue, in a closed channel or in a
\* receive loop that hangs.  (What was read and what arrived stays so.)
EveryChannelFlows ==
  []<>(\A c \in Channels : \A k \in 1 .. nread[Tcp("F", c, 1)] :
         LinkDown \/ Jammed \/ \E g \in Gens("R", c) : Arrived(Tcp("R", c, g), <<1, k>>))

\* "a slow channel must not affect other channels" (TODO.md:23; a slow message flow
\* must not hold up all message flows, docs/zh_CN, "design", line 15): what a client
\* sends comes to its own server as long as that server reads.
SlowChannelAlone ==
  \A c \in Channels : \A k \in 1 .. NUp[c] :
    nread[Tcp("F", c, 1)] = k ~>
      \E g \in Gens("R", c) : Arrived(Tcp("R", c, g), <<1, k>>) \/ Tcp("R", c, g) \in stuck

\* When an application closes its connection, the connection of the same channel
\* at the other end, if there is one, is closed for good, unless the link goes
\* down: from the server to the client, and from the client to the first server.
\* (In the end it is so for good: who is gone stays gone, and a link down stays down.)
CloseArrives ==
  <>[](\A c \in Channels :
         LET client == Tcp("F", c, 1)
             server == Tcp("R", c, 1)
         IN  /\ server \in gone => LinkDown \/ Jammed \/ client \in closed
             /\ client \in gone => LinkDown \/ Jammed \/ phase[server] = "none" \/ server \in closed)
===============================================================================
