------------------------------ MODULE OpenTunnel ------------------------------
(***************************************************************************)
(* Opening tunnels over a link: OpenTunnel (link/request.go), the session  *)
(* it asks the other end with (session/), the handler that answers there   *)
(* (link/handler.go) and the tunnel and listen pools of both ends          *)
(* (tunnel/manager.go, tunnel_pool.go, listen_pool.go).                    *)
(*                                                                         *)
(* Each call of OpenTunnel runs in a goroutine of its own; requests and    *)
(* responses are handled by the receive loop of the link, one at a time.   *)
(* The configuration of a tunnel is the call that asked for it: the two    *)
(* ends of one call have mirrored configurations (RemoteConfig).           *)
(***************************************************************************)
EXTENDS Integers, Sequences, FiniteSets

CONSTANTS
  Calls,        \* calls of OpenTunnel
  Owner,        \* Owner[k]: the end that makes the call
  Reverse,      \* Reverse[k]: the tunnel is reverse at the owner
  Addr,         \* Addr[k]: the address that is listened on
  Addrs,
  ServerSide,   \* the end whose LinkConfig says IsServerSide
  Shared,       \* the ends whose process has another link, which may be closed too
  Cap,          \* capacity of the queue from one end to the other
  Faults,       \* "busy" an address is taken by another program, "down" the
                \* connection under the link breaks
  NoCall

Ends     == {"A", "B"}
Other(e) == IF e = "A" THEN "B" ELSE "A"

ASSUME CallAssumption  == /\ Owner \in [Calls -> Ends] /\ Reverse \in [Calls -> BOOLEAN]
                          /\ Addr \in [Calls -> Addrs] /\ NoCall \notin Calls
ASSUME FiniteAssumption == IsFiniteSet(Calls) /\ IsFiniteSet(Addrs)
ASSUME SideAssumption  == ServerSide \in Ends /\ Shared \subseteq Ends
ASSUME CapAssumption   == Cap \in Nat /\ Cap > 0
ASSUME FaultAssumption == Faults \subseteq {"busy", "down"}

\* The end of the tunnel of call k that is not reverse.
ListenEnd(k) == IF Reverse[k] THEN Other(Owner[k]) ELSE Owner[k]

MaxID == 2 + 2 * Cardinality(Calls)
IDs   == 1 .. MaxID

VARIABLES
  pc,         \* where each call of OpenTunnel is
  result,     \* what it returned
  sid,        \* the id of its session
  tid,        \* the tunnel id the other end has answered with
  inbound,    \* Session.inbound of each call: <<>> or its one message
  curSession, \* session.Pool.curID of each end
  sessions,   \* session.Pool.pool: the call whose session has an id
  curTunnel,  \* tunnel.Pool.curID of each end
  tunnels,    \* tunnel.Pool.pool: the call whose tunnel has an id
  listening,  \* globalListenPool: the call that listens on an address
  sweep,      \* tunnel.Manager.Close of this link and of another link of each end
  robbed,     \* history: the calls whose listener another link has closed
  queue,      \* queue[e]: messages from end e to the other end
  rx,         \* what the receive loop of each end is doing
  up,         \* the connection is up
  shut        \* how far Link.Close is at each end

callVars == <<pc, result, sid, tid>>
poolVars == <<listening, sweep, robbed>>
vars == <<callVars, inbound, curSession, sessions, curTunnel, tunnels, poolVars,
          queue, rx, up, shut>>

Request(s, k)      == [type |-> "request", session |-> s, call |-> k]
Response(s, st, t) == [type |-> "response", session |-> s, status |-> st, tunnel |-> t]
Nil                == [type |-> "nil"]      \* what a closed channel yields

\* The links of a process: the one of this module, and another one.
Links     == {"own", "other"}
NotSwept  == [at |-> "no", size |-> 0, todo |-> {}]

Idle                 == [at |-> "idle"]
Handling(at, m, t)   == [at |-> at, msg |-> m, tunnel |-> t]
Answering(m, st, t)  == [at |-> "answer", msg |-> Response(m.session, st, t)]

FirstIDSame(e) == 2                         \* mistake: IsServerSide is ignored

\* newPool, NewPool: `ID need to be started differently'
FirstID(e) == IF e = ServerSide THEN 1 ELSE 2

Goto(k, p) == pc' = [pc EXCEPT ![k] = p]

Finish(k, res) ==
  /\ Goto(k, "done")
  /\ result' = [result EXCEPT ![k] = res]

-------------------------------------------------------------------------------
\* OpenTunnel, at the end that calls it.

NextSessionIDStale(e) == FirstID(e) + 2     \* mistake: curID does not advance

\* p.curID += 2.  The counter only grows, so no session has the id yet.
NextSessionID(e) == curSession[e] + 2

\* p.newID(), under idMutex.
NewSessionID(k) ==
  LET e == Owner[k]
  IN  /\ pc[k] = "idle"
      /\ curSession' = [curSession EXCEPT ![e] = NextSessionID(e)]
      /\ sid' = [sid EXCEPT ![k] = NextSessionID(e)]
      /\ Goto(k, "session")
      /\ UNCHANGED <<result, tid, inbound, sessions, curTunnel, tunnels, poolVars,
                     queue, rx, up, shut>>

\* p.pool[id] = session, under poolMutex.
NewSession(k) ==
  /\ pc[k] = "session"
  /\ sessions' = [sessions EXCEPT ![Owner[k]][sid[k]] = k]
  /\ Goto(k, "send")
  /\ UNCHANGED <<result, sid, tid, inbound, curSession, curTunnel, tunnels, poolVars,
                 queue, rx, up, shut>>

\* session.outbound <- request: a panic, which nobody recovers from, when the
\* link has been closed.
SendRequest(k) ==
  LET e == Owner[k]
  IN  /\ pc[k] = "send"
      /\ IF shut[e] # "open"
         THEN Goto(k, "panic") /\ UNCHANGED queue
         ELSE /\ Len(queue[e]) < Cap
              /\ queue' = [queue EXCEPT ![e] = Append(@, Request(sid[k], k))]
              /\ Goto(k, "wait")
      /\ UNCHANGED <<result, sid, tid, inbound, curSession, sessions, curTunnel, tunnels,
                     poolVars, rx, up, shut>>

\* mistake: resp.Status is not looked at
GoOnAnyway(k, m) ==
  IF m = Nil THEN Finish(k, "error") ELSE Goto(k, "exist") /\ UNCHANGED result

\* After SendAndWait: nil cannot be unmarshalled, and only "success" goes on.
GoOn(k, m) ==
  IF m # Nil /\ m.status = "success"
  THEN Goto(k, "exist") /\ UNCHANGED result
  ELSE Finish(k, "error")

\* respPayload = <-session.inbound, without a timeout.
Await(k) ==
  /\ pc[k] = "wait" /\ inbound[k] # <<>>
  /\ LET m == inbound[k][1]
     IN  /\ GoOn(k, m)
         /\ tid' = IF m = Nil THEN tid ELSE [tid EXCEPT ![k] = m.tunnel]
         /\ inbound' = IF m = Nil THEN inbound ELSE [inbound EXCEPT ![k] = <<>>]
  /\ UNCHANGED <<sid, curSession, sessions, curTunnel, tunnels, poolVars, queue, rx, up, shut>>

\* Pool.New of the tunnels with a given id: first Exist ...
LocalExist(k) ==
  /\ pc[k] = "exist"
  /\ IF tunnels[Owner[k]][tid[k]] # NoCall
     THEN Finish(k, "existed")
     ELSE Goto(k, "insert") /\ UNCHANGED result
  /\ UNCHANGED <<sid, tid, inbound, curSession, sessions, curTunnel, tunnels, poolVars,
                 queue, rx, up, shut>>

\* ... then, under another lock, the insertion.
LocalInsert(k) ==
  /\ pc[k] = "insert"
  /\ tunnels' = [tunnels EXCEPT ![Owner[k]][tid[k]] = k]
  /\ Goto(k, "listen")
  /\ UNCHANGED <<result, sid, tid, inbound, curSession, sessions, curTunnel, poolVars,
                 queue, rx, up, shut>>

\* poolMutex of globalListenPool is held for good.
Locked(e) == \E w \in Links : sweep[e][w].at = "stuck"

\* lpool.Exist(key) and net.ListenTCP: the system lets one program listen.
CanListen(e, k) == listening[e][Addr[k]] = NoCall

\* Tunnel.Listen: nothing for the reverse end, and an error when the address is
\* taken, by this program or (Faults) by another one.
Listen(e, k, listens) ==
  \/ /\ ListenEnd(k) # e
     /\ listens = "none" /\ UNCHANGED listening
  \/ /\ ListenEnd(k) = e /\ ~Locked(e) /\ CanListen(e, k)
     /\ listens = "ok" /\ listening' = [listening EXCEPT ![e][Addr[k]] = k]
  \/ /\ ListenEnd(k) = e /\ ~Locked(e)
     /\ ~CanListen(e, k) \/ "busy" \in Faults
     /\ listens = "error" /\ UNCHANGED listening

LocalListen(k) ==
  /\ pc[k] = "listen"
  /\ \E listens \in {"none", "ok", "error"} :
       /\ Listen(Owner[k], k, listens)
       /\ IF listens = "error"
          THEN Goto(k, "undo") /\ UNCHANGED result
          ELSE Finish(k, "ok")
  /\ UNCHANGED <<sid, tid, inbound, curSession, sessions, curTunnel, tunnels, sweep, robbed,
                 queue, rx, up, shut>>

UndoNothing(e, id) == UNCHANGED tunnels     \* mistake: the tunnel stays

\* manager.pool.Delete(t)
Undo(e, id) == tunnels' = [tunnels EXCEPT ![e][id] = NoCall]

\* The error goes to the caller; the tunnel at the other end stays.
LocalUndo(k) ==
  /\ pc[k] = "undo"
  /\ Undo(Owner[k], tid[k])
  /\ Finish(k, "error")
  /\ UNCHANGED <<sid, tid, inbound, curSession, sessions, curTunnel, poolVars, queue,
                 rx, up, shut>>

-------------------------------------------------------------------------------
\* The receive loop of the link, for session messages.

NextTunnelIDAny(e) ==                       \* mistake: += 1, the parity is lost
  LET free == {i \in IDs : i > curTunnel[e] /\ tunnels[e][i] = NoCall}
  IN  CHOOSE i \in free : \A j \in free : i <= j


\* p.curID += 2 until no tunnel has the id.
NextTunnelID(e) ==
  LET free == {i \in IDs : /\ i > curTunnel[e] /\ (i - curTunnel[e]) % 2 = 0
                           /\ tunnels[e][i] = NoCall}
  IN  CHOOSE i \in free : \A j \in free : i <= j

\* conn.Recv; session.Manager.HandleIn.  A response always finds the session of
\* its request, and room in its channel (see ResponseExpected).
Receive(e) ==
  /\ up /\ rx[e] = Idle /\ queue[Other(e)] # <<>>
  /\ LET m == Head(queue[Other(e)])
     IN  \/ /\ m.type = "request"       \* Handle, TunnelCreate, p.newID()
            /\ curTunnel' = [curTunnel EXCEPT ![e] = NextTunnelID(e)]
            /\ rx' = [rx EXCEPT ![e] = Handling("insert", m, NextTunnelID(e))]
            /\ UNCHANGED inbound
         \/ /\ m.type = "response"      \* HandleResponse: session.inbound <- payload
            /\ LET k == sessions[e][m.session]
               IN  /\ k # NoCall /\ inbound[k] = <<>>
                   /\ inbound' = [inbound EXCEPT ![k] = <<m>>]
            /\ UNCHANGED <<curTunnel, rx>>
  /\ queue' = [queue EXCEPT ![Other(e)] = Tail(@)]
  /\ UNCHANGED <<callVars, curSession, sessions, tunnels, poolVars, up, shut>>

\* TunnelCreate: p.pool[cfg.ID] = t
RemoteInsert(e) ==
  /\ rx[e].at = "insert"
  /\ LET m == rx[e].msg IN
       /\ tunnels' = [tunnels EXCEPT ![e][rx[e].tunnel] = m.call]
       /\ rx' = [rx EXCEPT ![e] = Handling("listen", m, @.tunnel)]
  /\ UNCHANGED <<callVars, inbound, curSession, sessions, curTunnel, poolVars, queue, up, shut>>

\* TunnelCreate: t.Listen()
RemoteListen(e) ==
  /\ rx[e].at = "listen"
  /\ LET m == rx[e].msg IN
       \E listens \in {"none", "ok", "error"} :
         /\ Listen(e, m.call, listens)
         /\ rx' = [rx EXCEPT ![e] = IF listens = "error"
                                    THEN Handling("undo", m, @.tunnel)
                                    ELSE Answering(m, "success", @.tunnel)]
  /\ UNCHANGED <<callVars, inbound, curSession, sessions, curTunnel, tunnels, sweep, robbed,
                 queue, up, shut>>

RemoteUndo(e) ==
  /\ rx[e].at = "undo"
  /\ Undo(e, rx[e].tunnel)
  /\ rx' = [rx EXCEPT ![e] = Answering(@.msg, "create-tunnel-failed", @.tunnel)]
  /\ UNCHANGED <<callVars, inbound, curSession, sessions, curTunnel, poolVars, queue, up, shut>>

\* manager.outbound <- response: the receive loop waits for room.
Answer(e) ==
  /\ rx[e].at = "answer" /\ shut[e] = "open" /\ Len(queue[e]) < Cap
  /\ queue' = [queue EXCEPT ![e] = Append(@, rx[e].msg)]
  /\ rx' = [rx EXCEPT ![e] = Idle]
  /\ UNCHANGED <<callVars, inbound, curSession, sessions, curTunnel, tunnels, poolVars, up, shut>>

-------------------------------------------------------------------------------
\* The link.

\* The connection breaks: both receive loops return when they read again.
Break ==
  /\ "down" \in Faults /\ up /\ \A e \in Ends : sweep[e]["other"] = NotSwept
  /\ up' = FALSE
  /\ UNCHANGED <<callVars, inbound, curSession, sessions, curTunnel, tunnels, poolVars,
                 queue, rx, shut>>

Listening(e) == {a \in Addrs : listening[e][a] # NoCall}

\* IterBuffered, first step: make(chan listenPoolTuple, len(p.pool)), without the lock
Sized(e, w) == sweep' = [sweep EXCEPT ![e][w] = [NotSwept EXCEPT !.at = "sized",
                                                                  !.size = Cardinality(Listening(e))]]

\* Link.Close after Link.Wait: close(l.outbound), and tunnelManager.Close begins.
CloseOutbound(e) ==
  /\ ~up /\ rx[e] = Idle /\ shut[e] = "open"
  /\ shut' = [shut EXCEPT ![e] = "closing"]
  /\ Sized(e, "own")
  /\ UNCHANGED <<callVars, inbound, curSession, sessions, curTunnel, tunnels, listening, robbed,
                 queue, rx, up>>

\* Close of the other link.  Bound: either the other link is closed, once, or the connection
\* of this one breaks.
CloseOther(e) ==
  /\ e \in Shared /\ up /\ sweep[e]["other"] = NotSwept
  /\ Sized(e, "other")
  /\ UNCHANGED <<callVars, inbound, curSession, sessions, curTunnel, tunnels, listening, robbed,
                 queue, rx, up, shut>>

\* IterBuffered under the lock: every listener of the process goes into the channel.  The
\* reader takes one and then waits for the lock in Delete, so that two listeners
\* more than the channel has room for are one too many.
Collect(e, w) ==
  /\ sweep[e][w].at = "sized" /\ ~Locked(e)
  /\ sweep' = [sweep EXCEPT ![e][w] =
       IF Cardinality(Listening(e)) > @.size + 1 THEN [NotSwept EXCEPT !.at = "stuck"]
       ELSE [NotSwept EXCEPT !.at = "delete", !.todo = Listening(e)]]
  /\ UNCHANGED <<callVars, inbound, curSession, sessions, curTunnel, tunnels, listening, robbed,
                 queue, rx, up, shut>>

\* lpool.Delete(item.Key): closes the listener there is now, if there is one.
DeleteListener(e, w) ==
  /\ sweep[e][w].at = "delete" /\ ~Locked(e)
  /\ \E a \in sweep[e][w].todo :
       /\ sweep' = [sweep EXCEPT ![e][w].todo = @ \ {a}]
       /\ listening' = [listening EXCEPT ![e][a] = NoCall]
       /\ robbed' = robbed \cup (IF w = "other" THEN {listening[e][a]} \ {NoCall} ELSE {})
  /\ UNCHANGED <<callVars, inbound, curSession, sessions, curTunnel, tunnels, queue, rx, up, shut>>

WakeNobody(e) == {}                         \* mistake: inbound is not closed

\* The sessions that sessionManager.Close finds in the pool.
Woken(e) == {sessions[e][i] : i \in IDs} \ {NoCall}

\* sessionManager.Close: close(session.inbound) of every session, and delete it.
\* A response that is in the channel is still read first.
CloseSessions(e) ==
  /\ shut[e] = "closing" /\ sweep[e]["own"].at = "delete" /\ sweep[e]["own"].todo = {}
  /\ shut' = [shut EXCEPT ![e] = "closed"]
  /\ inbound' = [k \in Calls |-> IF k \in Woken(e) THEN Append(inbound[k], Nil)
                                                   ELSE inbound[k]]
  /\ sessions' = [sessions EXCEPT ![e] = [i \in IDs |-> NoCall]]
  /\ UNCHANGED <<callVars, curSession, curTunnel, tunnels, poolVars, queue, rx, up>>

-------------------------------------------------------------------------------
Init ==
  /\ pc = [k \in Calls |-> "idle"] /\ result = [k \in Calls |-> "none"]
  /\ sid = [k \in Calls |-> 0] /\ tid = [k \in Calls |-> 0]
  /\ inbound = [k \in Calls |-> <<>>]
  /\ curSession = [e \in Ends |-> FirstID(e)] /\ curTunnel = [e \in Ends |-> FirstID(e)]
  /\ sessions = [e \in Ends |-> [i \in IDs |-> NoCall]]
  /\ tunnels = [e \in Ends |-> [i \in IDs |-> NoCall]]
  /\ listening = [e \in Ends |-> [a \in Addrs |-> NoCall]]
  /\ sweep = [e \in Ends |-> [w \in Links |-> NotSwept]] /\ robbed = {}
  /\ queue = [e \in Ends |-> <<>>] /\ rx = [e \in Ends |-> Idle]
  /\ up = TRUE /\ shut = [e \in Ends |-> "open"]

\* A panic ends the program of an end.
Alive(e) == \A k \in Calls : Owner[k] = e => pc[k] # "panic"

OpenTunnel(k) ==
  /\ Alive(Owner[k])
  /\ \/ NewSession(k) \/ SendRequest(k) \/ Await(k)
     \/ LocalExist(k) \/ LocalInsert(k) \/ LocalListen(k) \/ LocalUndo(k)

Recv(e) ==
  /\ Alive(e)
  /\ Receive(e) \/ RemoteInsert(e) \/ RemoteListen(e) \/ RemoteUndo(e) \/ Answer(e)

Sweep(e) == \E w \in Links : Collect(e, w) \/ DeleteListener(e, w)
Close(e) == Alive(e) /\ (CloseOutbound(e) \/ Sweep(e) \/ CloseSessions(e))

Next ==
  \/ \E k \in Calls : (Alive(Owner[k]) /\ NewSessionID(k)) \/ OpenTunnel(k)
  \/ \E e \in Ends : Recv(e) \/ Close(e) \/ (Alive(e) /\ CloseOther(e))
  \/ Break

Spec == Init /\ [][Next]_vars

\* The process does not stop while a call, a receive loop or a Close can go on.  (None of
\* them takes steps for ever, so each of them goes on.)  Nobody has to call OpenTunnel,
\* to break the connection or to close the other link.
FairSpec == Spec /\ WF_vars((\E k \in Calls : OpenTunnel(k)) \/ \E e \in Ends : Recv(e) \/ Close(e))

-------------------------------------------------------------------------------
\* Properties.

\* Type correctness; the two ends give tunnel ids of different parity, and a call
\* inserts its tunnel under the id that the other end has answered with.
TypeOK ==
  /\ pc \in [Calls -> {"idle", "session", "send", "wait", "exist", "insert", "listen",
                        "undo", "done", "panic"}]
  /\ result \in [Calls -> {"none", "ok", "error", "existed"}]
  /\ sid \in [Calls -> IDs \cup {0}] /\ tid \in [Calls -> IDs \cup {0}]
  /\ \A k \in Calls : Len(inbound[k]) <= 2
  /\ \A e \in Ends :
       /\ curSession[e] \in IDs /\ curTunnel[e] \in IDs
       /\ curTunnel[e] % 2 = IF e = ServerSide THEN 1 ELSE 0
       /\ sessions[e] \in [IDs -> Calls \cup {NoCall}]
       /\ tunnels[e] \in [IDs -> Calls \cup {NoCall}]
       /\ listening[e] \in [Addrs -> Calls \cup {NoCall}]
       /\ sweep[e] \in [Links -> [at : {"no", "sized", "stuck", "delete"}, size : 0 .. Cardinality(Addrs),
                                   todo : SUBSET Addrs]]
       /\ Len(queue[e]) <= Cap
       /\ rx[e].at \in {"idle", "insert", "listen", "undo", "answer"}
  /\ robbed \subseteq Calls
  /\ up \in BOOLEAN /\ shut \in [Ends -> {"open", "closing", "closed"}]
  /\ \A k \in Calls, i \in IDs :
       tunnels[Owner[k]][i] = k => tid[k] = i

\* Tunnels with the same id at the two ends belong to each other, although both
\* ends give ids without asking and a call inserts its tunnel in a critical
\* section after the one that has found the id free.  Otherwise the data of one
\* tunnel would go into another.
Mirrored ==
  \A i \in IDs : tunnels["A"][i] # NoCall /\ tunnels["B"][i] # NoCall
                    => tunnels["A"][i] = tunnels["B"][i]

\* The id a tunnel is about to be entered under is free: that Exist found it free, or
\* newID, still holds at the insertion, which comes under another lock and would replace
\* the tunnel of somebody else.
IdIsFree ==
  /\ \A k \in Calls : pc[k] \in {"exist", "insert"} => tunnels[Owner[k]][tid[k]] = NoCall
  /\ \A e \in Ends : rx[e].at = "insert" => tunnels[e][rx[e].tunnel] = NoCall

\* When OpenTunnel has returned nil both ends have the tunnel, under one id, and
\* the end that is not reverse listens until its link is closed, or another link of
\* its process, which takes the listeners of all links away.
OpenedBothEnds ==
  \A k \in Calls : result[k] = "ok" =>
    /\ \A e \in Ends : tunnels[e][tid[k]] = k
    /\ shut[ListenEnd(k)] = "open" => k \in robbed \/ listening[ListenEnd(k)][Addr[k]] = k

\* The tunnel of call k is being created at end e.
Creating(e, k) ==
  \/ e = Owner[k] /\ pc[k] \in {"listen", "undo"}
  \/ e # Owner[k] /\ rx[e].at \in {"listen", "undo"} /\ rx[e].msg.call = k

\* Of the tunnels that are not reverse an end keeps those whose listener it has
\* got, unless a link of its process was closed since, and there is no listener
\* without its tunnel: a client would be accepted and what the other end sends it
\* would end the link.
ListenersMatchTunnels ==
  \A e \in Ends, k \in Calls : ListenEnd(k) = e =>
    LET created == (\E i \in IDs : tunnels[e][i] = k) /\ ~Creating(e, k)
        listens == listening[e][Addr[k]] = k
    IN  /\ listens => created
        /\ created => listens \/ k \in robbed \/ shut[e] # "open"

Responses(e) == {queue[Other(e)][i] : i \in DOMAIN queue[Other(e)]}

\* Every response on its way is for the session of a call that waits for it with
\* an empty channel, and answers the request of that call: neither the lookup of
\* the session nor the send in HandleResponse, both in the receive loop, can fail
\* or block.
ResponseExpected ==
  \A e \in Ends : \A m \in Responses(e) : m.type = "response" /\ up =>
    LET k == sessions[e][m.session] IN
      /\ k # NoCall /\ pc[k] = "wait" /\ inbound[k] = <<>>
      /\ m.status = "success" => tunnels[Other(e)][m.tunnel] = k

\* The receive loop waits for room in the outbound of a link whose send loop has
\* stopped: Link.Wait does not return and Link.Close is never called.
Hung(e) == ~up /\ rx[e].at = "answer" /\ Len(queue[e]) = Cap

\* A call that has started returns, or its program panics, although it waits
\* without a timeout: when the connection breaks, the close of the session wakes
\* it, unless the receive loop hangs.  Neither it nor the other end goes on when two
\* tunnels began to listen while a link of its process was being closed: then
\* the lock of the listen pool is never given back.  (Said of all calls at once: a call
\* that has started stays so, and in the end none of them is still on its way.)
OpenReturns ==
  []<>(\A k \in Calls : pc[k] # "idle" =>
         pc[k] = "done" \/ ~Alive(Owner[k]) \/ Hung(Owner[k]) \/ \E e \in Ends : Locked(e))

\* The request of call k has not been dealt with: it has not been sent, is in the queue,
\* or the receive loop of the other end is about to insert the tunnel.
Pending(k) ==
  \/ pc[k] \in {"idle", "session", "send", "panic"}
  \/ \E n \in DOMAIN queue[Owner[k]] :
       queue[Owner[k]][n].type = "request" /\ queue[Owner[k]][n].call = k
  \/ LET e == Other(Owner[k]) IN rx[e].at = "insert" /\ rx[e].msg.call = k

TP == INSTANCE TunnelPairing WITH
  call  <- [k \in Calls |-> CASE pc[k] = "idle"  -> "new"
                              [] pc[k] = "panic" -> "failed"
                              [] pc[k] = "done"  -> IF result[k] = "ok" THEN "opened" ELSE "failed"
                              [] OTHER           -> "opening"],
  asked <- [k \in Calls |-> ~Pending(k)],
  near  <- [k \in Calls |-> {i \in IDs : tunnels[Owner[k]][i] = k}],
  far   <- [k \in Calls |-> {i \in IDs : tunnels[Other(Owner[k])][i] = k}]

\* The calls of both ends, whose requests, responses and insertions come in any order and
\* may fail at every step or break off with the connection, pair their tunnels: a request
\* is done at most once, and no step makes or leaves half a tunnel where its caller could
\* take it for a whole one.
PairsTunnels == TP!Pairing
===============================================================================
