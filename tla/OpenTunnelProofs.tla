---------------------------- MODULE OpenTunnelProofs ----------------------------
(***************************************************************************)
(* Proofs about OpenTunnel for any number of calls at either end, any      *)
(* addresses, any capacity of the queues and every kind of fault, with and *)
(* without another link in the processes of the two ends.                  *)
(***************************************************************************)
EXTENDS OpenTunnel, FiniteSetTheorems, SequenceTheorems, TLAPS

-------------------------------------------------------------------------------
\* The inductive invariant.

Peer(k)   == Other(Owner[k])
Closed(k) == shut[Owner[k]] = "closed"

Requests  == [type : {"request"}, session : IDs, call : Calls]
Replies   == [type : {"response"}, session : IDs,
              status : {"success", "create-tunnel-failed"}, tunnel : IDs]
Creations == [at : {"insert", "listen", "undo"}, msg : Requests, tunnel : IDs]
Answers   == [at : {"answer"}, msg : Replies]

Types ==
  /\ pc \in [Calls -> {"idle", "session", "send", "wait", "exist", "insert", "listen", "undo",
                        "done", "panic"}]
  /\ result \in [Calls -> {"none", "ok", "error", "existed"}]
  /\ sid \in [Calls -> IDs \cup {0}] /\ tid \in [Calls -> IDs \cup {0}]
  /\ inbound \in [Calls -> Seq(Replies \cup {Nil})]
  /\ curSession \in [Ends -> IDs] /\ curTunnel \in [Ends -> IDs]
  /\ sessions \in [Ends -> [IDs -> Calls \cup {NoCall}]]
  /\ tunnels \in [Ends -> [IDs -> Calls \cup {NoCall}]]
  /\ listening \in [Ends -> [Addrs -> Calls \cup {NoCall}]]
  /\ sweep \in [Ends -> [Links -> [at : {"no", "sized", "stuck", "delete"},
                                   size : 0 .. Cardinality(Addrs), todo : SUBSET Addrs]]]
  /\ queue \in [Ends -> Seq(Requests \cup Replies)]
  /\ \A e \in Ends : Len(queue[e]) <= Cap
  /\ rx \in [Ends -> {Idle} \cup Creations \cup Answers]
  /\ robbed \subseteq Calls
  /\ up \in BOOLEAN /\ shut \in [Ends -> {"open", "closing", "closed"}]

\* Where the request of a call, or what became of it, is: not sent, in the queue, being
\* handled, about to be answered, answered in the queue, in the channel of the session,
\* or read by the call.
Places   == {"unsent", "request", "handled", "answer", "response", "arrived", "read"}
UnderWay == {"request", "handled", "answer", "response"}

\* In what follows place[k] is the one place of call k and id[k] the tunnel id it has
\* been given by the other end, 0 before that.

\* m answers the request of k, and truly.
IsAnswer(k, m, id) ==
  /\ m.session = sid[k] /\ m.tunnel = id[k] /\ id[k] \in IDs
  /\ m.status = "success" => tunnels[Peer(k)][id[k]] = k

\* The channel of the session: empty but for the answer, until the link of the call
\* is closed, which wakes the call.
InboundOK(k, id, place) ==
  IF place[k] = "arrived"
  THEN \E m \in Replies : /\ IsAnswer(k, m, id)
                          /\ inbound[k] = <<m>> \/ (Closed(k) /\ inbound[k] = <<m, Nil>>)
  ELSE inbound[k] = <<>> \/ (Closed(k) /\ inbound[k] = <<Nil>>)

CallOK(k, id, place) ==
  /\ place[k] = "unsent" <=> pc[k] \in {"idle", "session", "send", "panic"}
  /\ place[k] \in UnderWay =>
       pc[k] = "wait" \/ (pc[k] = "done" /\ result[k] = "error" /\ Closed(k))
  /\ place[k] = "arrived" => pc[k] = "wait"
  /\ place[k] = "read" => pc[k] \in {"exist", "insert", "listen", "undo", "done"}
  /\ id[k] = 0 <=> place[k] \in {"unsent", "request"}
  /\ tid[k] = IF place[k] = "read" THEN id[k] ELSE 0
  /\ sid[k] = 0 <=> pc[k] = "idle"
  /\ result[k] = "ok" => pc[k] = "done" /\ place[k] = "read"
  /\ InboundOK(k, id, place)

\* The ids of the sessions of an end are its own, and a session that has been entered
\* into the pool stays there until the link is closed.
SessionsOK ==
  /\ \A k \in Calls : sid[k] <= curSession[Owner[k]]
  /\ \A j, k \in Calls : Owner[j] = Owner[k] /\ sid[j] = sid[k] /\ sid[k] # 0 => j = k
  /\ \A e \in Ends : \A i \in IDs : \A k \in Calls :
       sessions[e][i] = k => Owner[k] = e /\ sid[k] = i
  /\ \A k \in Calls : pc[k] \notin {"idle", "session"} /\ ~Closed(k)
                        => sessions[Owner[k]][sid[k]] = k

\* Neither counter passes MaxID: it moves once for every call.
CountersOK(id) ==
  \A e \in Ends :
    /\ curSession[e] = FirstID(e) + 2 * Cardinality({k \in Calls : Owner[k] = e /\ pc[k] # "idle"})
    /\ curTunnel[e] = FirstID(e) + 2 * Cardinality({k \in Calls : Owner[k] # e /\ id[k] # 0})

\* An end gives every id once, and only ids of its own parity.
IdsOK(id) ==
  /\ \A k \in Calls : id[k] # 0 => /\ id[k] <= curTunnel[Peer(k)]
                                   /\ id[k] % 2 = FirstID(Peer(k)) % 2
  /\ \A j, k \in Calls : Owner[j] = Owner[k] /\ id[j] = id[k] /\ id[k] # 0 => j = k

\* A call has its tunnels under its id: its own while it listens and when it has
\* succeeded, and the other one from a response with success on.
Going(k)   == pc[k] \in {"exist", "insert", "listen", "undo"} \/ result[k] = "ok"
Holding(k) == pc[k] \in {"listen", "undo"} \/ result[k] = "ok"

TunnelsOK(id) ==
  /\ \A e \in Ends : \A i \in IDs : \A k \in Calls : tunnels[e][i] = k => id[k] = i
  /\ \A k \in Calls : \A i \in IDs : tunnels[Owner[k]][i] = k => Holding(k)
  /\ \A k \in Calls : Holding(k) => tunnels[Owner[k]][id[k]] = k
  /\ \A k \in Calls : Going(k) => tunnels[Peer(k)][id[k]] = k

MessageOK(e, m, id, place) ==
  /\ m.type = "request" => /\ Owner[m.call] = e /\ place[m.call] = "request"
                           /\ m.session = sid[m.call]
  /\ m.type = "response" =>
       \E k \in Calls : Peer(k) = e /\ place[k] = "response" /\ IsAnswer(k, m, id)

\* There is one request and one response of a call.
QueueOK(e, id, place) ==
  /\ \A n \in DOMAIN queue[e] : MessageOK(e, queue[e][n], id, place)
  /\ \A n1, n2 \in DOMAIN queue[e] : n1 # n2 /\ queue[e][n1].type = queue[e][n2].type
                                       => queue[e][n1].session # queue[e][n2].session

CreationOK(e, k, id, place) ==
  /\ Peer(k) = e /\ place[k] = "handled"
  /\ rx[e].tunnel = id[k] /\ id[k] \in IDs /\ rx[e].msg.session = sid[k]
  /\ IF rx[e].at = "insert" THEN \A i \in IDs : tunnels[e][i] # k
                            ELSE tunnels[e][id[k]] = k

RxOK(e, id, place) ==
  /\ rx[e].at \in {"insert", "listen", "undo"} => CreationOK(e, rx[e].msg.call, id, place)
  /\ rx[e].at = "answer" =>
       \E k \in Calls : Peer(k) = e /\ place[k] = "answer" /\ IsAnswer(k, rx[e].msg, id)

\* Link.Close comes after the receive loop.
LinkOK ==
  \A e \in Ends : /\ shut[e] # "open" => ~up /\ rx[e] = Idle
                  /\ sweep[e]["own"].at # "no" => shut[e] # "open"

\* ListenersMatchTunnels, of one call.
Created(e, k) == (\E i \in IDs : tunnels[e][i] = k) /\ ~Creating(e, k)

ListenerOK(e, k) ==
  /\ listening[e][Addr[k]] = k => Created(e, k)
  /\ Created(e, k) => listening[e][Addr[k]] = k \/ k \in robbed \/ shut[e] # "open"

IInvOf(id, place) ==
  /\ Types /\ CountersOK(id) /\ SessionsOK /\ IdsOK(id) /\ TunnelsOK(id)
  /\ \A k \in Calls : CallOK(k, id, place) /\ ListenerOK(ListenEnd(k), k)
  /\ \A e \in Ends : QueueOK(e, id, place) /\ RxOK(e, id, place)
  /\ LinkOK

IInv == \E id \in [Calls -> IDs \cup {0}], place \in [Calls -> Places] : IInvOf(id, place)

-------------------------------------------------------------------------------
\* Ends and ids.

LEMMA EndFacts ==
  /\ \A e \in Ends : Other(e) \in Ends /\ Other(e) # e /\ Other(Other(e)) = e
                     /\ FirstID(e) \in {1, 2} /\ FirstID(Other(e)) # FirstID(e)
  /\ \A k \in Calls : /\ Owner[k] \in Ends /\ Peer(k) \in Ends /\ ListenEnd(k) \in Ends
                      /\ Owner[k] # Peer(k) /\ Other(Peer(k)) = Owner[k]
                      /\ \A e \in Ends : e = Owner[k] \/ e = Peer(k)
  BY CallAssumption, SideAssumption DEF Ends, Other, Peer, ListenEnd, FirstID

LEMMA IDFacts ==
  /\ Cardinality(Calls) \in Nat /\ MaxID \in Nat /\ MaxID = 2 + 2 * Cardinality(Calls)
  /\ IDs \subseteq Nat /\ 0 \notin IDs
  /\ \A i \in Nat : i \in IDs <=> 1 <= i /\ i <= MaxID
<1>1. Cardinality(Calls) \in Nat
  BY FiniteAssumption, FS_CardinalityType
<1> QED
  BY <1>1 DEF MaxID, IDs

\* A step that counts one more call.
LEMMA OneMore ==
  ASSUME NEW S, NEW T, NEW k \in Calls, T \subseteq Calls, k \notin S, T = S \cup {k}
  PROVE  /\ IsFiniteSet(S) /\ Cardinality(S) \in Nat
         /\ Cardinality(T) = Cardinality(S) + 1 /\ Cardinality(T) <= Cardinality(Calls)
<1>1. IsFiniteSet(T) /\ Cardinality(T) <= Cardinality(Calls)
  BY FiniteAssumption, FS_Subset
<1>2. IsFiniteSet(S)
  BY <1>1, FS_Subset
<1> QED
  BY <1>1, <1>2, FS_AddElement, FS_CardinalityType

LEMMA TypeFacts ==
  ASSUME Types
  PROVE  /\ \A k \in Calls : sid[k] \in Nat /\ tid[k] \in Nat /\ sid[k] \in IDs \cup {0}
         /\ \A e \in Ends : /\ curSession[e] \in Nat /\ curTunnel[e] \in Nat
                            /\ curSession[e] \in IDs /\ curTunnel[e] \in IDs
         /\ DOMAIN curSession = Ends /\ DOMAIN curTunnel = Ends /\ DOMAIN sid = Calls
         /\ DOMAIN pc = Calls
<1>1. /\ sid \in [Calls -> IDs \cup {0}] /\ tid \in [Calls -> IDs \cup {0}]
      /\ curSession \in [Ends -> IDs] /\ curTunnel \in [Ends -> IDs]
      /\ DOMAIN pc = Calls
  BY DEF Types
<1>2. \A i \in IDs \cup {0} : i \in Nat
  BY IDFacts
<1> QED
  BY <1>1, <1>2

\* What the receive loop is doing, by its label.
LEMMA RxFacts ==
  ASSUME Types, NEW e \in Ends
  PROVE  /\ rx[e].at \in {"idle", "insert", "listen", "undo", "answer"}
         /\ rx[e].at = "idle" <=> rx[e] = Idle
         /\ rx[e].at \in {"insert", "listen", "undo"} =>
              /\ rx[e] = Handling(rx[e].at, rx[e].msg, rx[e].tunnel)
              /\ rx[e].msg \in Requests /\ rx[e].msg.call \in Calls /\ rx[e].tunnel \in IDs
         /\ rx[e].at = "answer" => rx[e].msg \in Replies
<1>1. rx[e] \in {Idle} \cup Creations \cup Answers
  BY DEF Types
<1>2. \A m \in Requests : m.call \in Calls
  BY DEF Requests
<1>3. CASE rx[e] = Idle
  BY <1>3 DEF Idle
<1>4. CASE rx[e] \in Creations
  BY <1>4, <1>2 DEF Idle, Creations, Handling
<1>5. CASE rx[e] \in Answers
  BY <1>5 DEF Idle, Answers
<1> QED
  BY <1>1, <1>3, <1>4, <1>5

\* The id NewSessionID takes is in the bounds of the model.
LEMMA NextSession ==
  ASSUME NEW id, CountersOK(id), NEW k \in Calls, pc[k] = "idle"
  PROVE  NextSessionID(Owner[k]) \in IDs
<1> DEFINE e == Owner[k]
           S == {j \in Calls : Owner[j] = e /\ pc[j] # "idle"}
<1>1. Cardinality(S) \in Nat /\ Cardinality(S) + 1 <= Cardinality(Calls)
  BY OneMore, S \cup {k} \subseteq Calls, k \notin S
<1>2. curSession[e] = FirstID(e) + 2 * Cardinality(S) /\ FirstID(e) \in {1, 2}
  BY EndFacts DEF CountersOK
<1> HIDE DEF S, e
<1>3. NextSessionID(e) \in IDs
  BY <1>1, <1>2, IDFacts DEF NextSessionID
<1> QED
  BY <1>3 DEF e

\* The loop that looks for a tunnel id that no tunnel has ends at once: the ids above
\* curID that are taken have been given by the other end and are of its parity.
LEMMA NextTunnel ==
  ASSUME NEW id \in [Calls -> IDs \cup {0}], Types, CountersOK(id), IdsOK(id), TunnelsOK(id),
         NEW k \in Calls, id[k] = 0
  PROVE  /\ NextTunnelID(Peer(k)) = curTunnel[Peer(k)] + 2 /\ NextTunnelID(Peer(k)) \in IDs
         /\ tunnels[Peer(k)][NextTunnelID(Peer(k))] = NoCall
         /\ NextTunnelID(Peer(k)) % 2 = FirstID(Peer(k)) % 2
<1> DEFINE e == Peer(k)
           S == {j \in Calls : Owner[j] # e /\ id[j] # 0}
           n == curTunnel[e] + 2
           free == {i \in IDs : /\ i > curTunnel[e] /\ (i - curTunnel[e]) % 2 = 0
                                /\ tunnels[e][i] = NoCall}
<1>0. e \in Ends /\ FirstID(e) \in {1, 2}
  BY EndFacts
<1>1. Cardinality(S) \in Nat /\ Cardinality(S) + 1 <= Cardinality(Calls)
  BY OneMore, ZenonT(40), S \cup {k} \subseteq Calls, k \notin S
<1>2. curTunnel[e] = FirstID(e) + 2 * Cardinality(S)
  BY <1>0 DEF CountersOK
<1>3. /\ n \in IDs /\ curTunnel[e] \in IDs /\ n \in Nat /\ curTunnel[e] \in Nat
      /\ n # 0 /\ n > curTunnel[e] /\ n % 2 = FirstID(e) % 2
  <2> HIDE DEF S, e
  <2>1. n \in IDs /\ curTunnel[e] \in IDs
    BY <1>0, <1>1, <1>2, IDFacts
  <2> QED
    BY <2>1, <1>0, <1>1, <1>2, IDFacts
<1>4. tunnels[e][n] = NoCall
  <2> SUFFICES ASSUME tunnels[e][n] # NoCall PROVE FALSE
    OBVIOUS
  <2>1. PICK j \in Calls : tunnels[e][n] = j
    BY <1>0, <1>3 DEF Types
  <2>2. id[j] = n
    BY <1>0, <1>3, <2>1 DEF TunnelsOK
  <2>3. Peer(j) # e
    <3> SUFFICES ASSUME Peer(j) = e PROVE FALSE
      OBVIOUS
    <3>1. n <= curTunnel[e]
      BY <2>2, <1>3 DEF IdsOK
    <3> HIDE DEF n, e
    <3> QED
      BY <3>1, <1>3
  <2>4. Peer(j) = Other(e)
    BY <2>3, <1>0, EndFacts
  <2>5. id[j] % 2 = FirstID(Other(e)) % 2
    BY <2>2, <1>3, <2>4 DEF IdsOK
  <2> QED
    BY <2>2, <2>5, <1>0, <1>3, EndFacts
<1>5. n \in free
  BY <1>3, <1>4
<1>6. \A i \in free : n <= i
  <2> TAKE i \in free
  <2>1. i \in Nat /\ i > curTunnel[e] /\ (i - curTunnel[e]) % 2 = 0
    BY IDFacts
  <2> HIDE DEF e
  <2> QED
    BY <2>1, <1>3
<1>7. \A i \in free : (\A j \in free : i <= j) => i = n
  <2> TAKE i \in free
  <2> HAVE \A j \in free : i <= j
  <2>1. i <= n /\ n <= i /\ i \in Nat
    BY <1>5, <1>6, IDFacts
  <2> HIDE DEF n, free
  <2> QED
    BY <2>1, <1>3
<1>8. NextTunnelID(e) = n
  BY <1>5, <1>6, <1>7 DEF NextTunnelID
<1> QED
  BY <1>3, <1>4, <1>8 DEF e

-------------------------------------------------------------------------------
\* Steps that leave what a part of the invariant speaks of alone.

\* The tunnel a response speaks of is still there.
Kept(k, id) ==
  id[k] \in IDs /\ tunnels[Peer(k)][id[k]] = k => tunnels'[Peer(k)][id[k]] = k

LEMMA CallSame ==
  ASSUME NEW id, NEW place, NEW id2, NEW place2, NEW k \in Calls, CallOK(k, id, place),
         pc'[k] = pc[k], result'[k] = result[k], sid'[k] = sid[k], tid'[k] = tid[k],
         inbound'[k] = inbound[k], id2[k] = id[k], place2[k] = place[k],
         Closed(k) => Closed(k)', Kept(k, id)
  PROVE  CallOK(k, id2, place2)'
  BY DEF CallOK, InboundOK, IsAnswer, Closed, Kept, Peer

LEMMA SessionsSame ==
  ASSUME SessionsOK, sid' = sid, curSession' = curSession, sessions' = sessions,
         \A k \in Calls : pc'[k] \notin {"idle", "session"} => pc[k] \notin {"idle", "session"},
         \A k \in Calls : Closed(k) => Closed(k)'
  PROVE  SessionsOK'
  BY DEF SessionsOK, Closed

LEMMA CountersSame ==
  ASSUME NEW id, NEW id2, CountersOK(id), curSession' = curSession, curTunnel' = curTunnel,
         \A k \in Calls : (pc'[k] = "idle" <=> pc[k] = "idle") /\ (id2[k] = 0 <=> id[k] = 0)
  PROVE  CountersOK(id2)'
<1> SUFFICES ASSUME NEW e \in Ends
             PROVE  /\ {k \in Calls : Owner[k] = e /\ pc'[k] # "idle"}
                         = {k \in Calls : Owner[k] = e /\ pc[k] # "idle"}
                    /\ {k \in Calls : Owner[k] # e /\ id2[k] # 0}
                         = {k \in Calls : Owner[k] # e /\ id[k] # 0}
  BY DEF CountersOK, FirstID
<1> QED
  OBVIOUS

LEMMA TunnelsSame ==
  ASSUME NEW id, NEW id2, TunnelsOK(id), tunnels' = tunnels,
         \A k \in Calls : /\ id2[k] = id[k] \/ \A e \in Ends, i \in IDs : tunnels[e][i] # k
                          /\ Holding(k)' <=> Holding(k)
                          /\ Going(k)' => Going(k) /\ id2[k] = id[k]
  PROVE  TunnelsOK(id2)'
<1>1. \A k \in Calls : Holding(k)' => Going(k)'
  BY DEF Holding, Going
<1> QED
  BY <1>1, EndFacts DEF TunnelsOK, Peer, Holding, Going

\* A message of call k is in the queue of end e.
Queued(e, k, place) == \/ place[k] = "request" /\ Owner[k] = e
                       \/ place[k] = "response" /\ Peer(k) = e

LEMMA QueueSame ==
  ASSUME NEW e \in Ends, NEW id, NEW place, NEW id2, NEW place2, Types, QueueOK(e, id, place),
         queue'[e] = queue[e],
         \A k \in Calls : Queued(e, k, place) =>
           place2[k] = place[k] /\ id2[k] = id[k] /\ sid'[k] = sid[k] /\ Kept(k, id)
  PROVE  QueueOK(e, id2, place2)'
<1>1. \A n \in DOMAIN queue[e] : queue[e][n] \in Requests \cup Replies
  BY DEF Types
<1>2. \A n \in DOMAIN queue[e] : MessageOK(e, queue[e][n], id2, place2)'
  <2> TAKE n \in DOMAIN queue[e]
  <2>1. queue[e][n].type = "request" => queue[e][n].call \in Calls
    BY <1>1 DEF Requests, Replies
  <2>2. MessageOK(e, queue[e][n], id, place)
    BY DEF QueueOK
  <2> QED
    BY <2>1, <2>2 DEF MessageOK, IsAnswer, Kept, Peer, Queued
<1> QED
  BY <1>2 DEF QueueOK, MessageOK, IsAnswer, Peer

LEMMA RxSame ==
  ASSUME NEW e \in Ends, NEW id, NEW place, NEW id2, NEW place2, Types, RxOK(e, id, place),
         rx'[e] = rx[e],
         \A k \in Calls : Peer(k) = e /\ place[k] \in {"handled", "answer"} =>
           /\ place2[k] = place[k] /\ id2[k] = id[k] /\ sid'[k] = sid[k] /\ Kept(k, id)
           /\ \A i \in IDs : tunnels'[e][i] = k => tunnels[e][i] = k
  PROVE  RxOK(e, id2, place2)'
<1>1. rx[e].at \in {"insert", "listen", "undo"} => rx[e].msg.call \in Calls
  BY RxFacts
<1>2. rx[e].at \in {"insert", "listen", "undo"} => CreationOK(e, rx[e].msg.call, id2, place2)'
  BY <1>1 DEF RxOK, CreationOK, Kept, Peer
<1> QED
  BY <1>2 DEF RxOK, CreationOK, IsAnswer, Kept, Peer

LEMMA ListenerSame ==
  ASSUME NEW e \in Ends, NEW k \in Calls, ListenerOK(e, k), listening'[e][Addr[k]] = listening[e][Addr[k]],
         \A i \in IDs : tunnels'[e][i] = k <=> tunnels[e][i] = k, Creating(e, k)' <=> Creating(e, k),
         k \in robbed => k \in robbed', shut[e] # "open" => shut'[e] # "open"
  PROVE  ListenerOK(e, k)'
  BY DEF ListenerOK, Created

\* A step of a call that leaves the pools and the receive loop alone.
LEMMA ListenersSame ==
  ASSUME \A k \in Calls : ListenerOK(ListenEnd(k), k), UNCHANGED <<listening, tunnels, robbed, shut, rx>>,
         \A k \in Calls : pc'[k] \in {"listen", "undo"} <=> pc[k] \in {"listen", "undo"}
  PROVE  \A k \in Calls : ListenerOK(ListenEnd(k), k)'
  BY EndFacts, ListenerSame DEF Creating, ListenEnd

LEMMA LinkSame ==
  ASSUME LinkOK, UNCHANGED <<shut, up, rx, sweep>>
  PROVE  LinkOK'
  BY DEF LinkOK

-------------------------------------------------------------------------------
\* Init.

LEMMA InitOK == Init => IInv
<1> SUFFICES ASSUME Init PROVE IInv
  OBVIOUS
<1> DEFINE id == [k \in Calls |-> 0]
           place == [k \in Calls |-> "unsent"]
<1>1. Types
  <2>1. \A e \in Ends : FirstID(e) \in IDs
    BY IDFacts, EndFacts
  <2>2. NotSwept \in [at : {"no", "sized", "stuck", "delete"}, size : 0 .. Cardinality(Addrs), todo : SUBSET Addrs]
    BY FiniteAssumption, FS_CardinalityType DEF NotSwept
  <2> QED
    BY <2>1, <2>2, CapAssumption DEF Types, Init, Idle
<1>2. CountersOK(id)
  <2>1. \A e \in Ends : {k \in Calls : Owner[k] = e /\ pc[k] # "idle"} = {}
                        /\ {k \in Calls : Owner[k] # e /\ id[k] # 0} = {}
    BY DEF Init
  <2>2. \A e \in Ends : FirstID(e) + 2 * 0 = FirstID(e)
    BY EndFacts
  <2> QED
    BY <2>1, <2>2, FS_EmptySet DEF Init, CountersOK
<1>3. SessionsOK
  BY EndFacts, IDFacts, CallAssumption DEF Init, SessionsOK, FirstID
<1>4. IdsOK(id) /\ TunnelsOK(id)
  BY CallAssumption DEF Init, IdsOK, TunnelsOK, Holding, Going
<1>5. ASSUME NEW k \in Calls PROVE CallOK(k, id, place) /\ ListenerOK(ListenEnd(k), k)
  BY CallAssumption, EndFacts DEF Init, CallOK, InboundOK, UnderWay, ListenerOK, Created
<1>6. ASSUME NEW e \in Ends PROVE QueueOK(e, id, place) /\ RxOK(e, id, place)
  BY DEF Init, QueueOK, RxOK, Idle
<1>7. LinkOK
  BY DEF Init, LinkOK, NotSwept, Links
<1>8. id \in [Calls -> IDs \cup {0}] /\ place \in [Calls -> Places]
  BY DEF Places
<1>9. IInvOf(id, place)
  <2> HIDE DEF id, place
  <2> QED
    BY <1>1, <1>2, <1>3, <1>4, <1>5, <1>6, <1>7 DEF IInvOf
<1> HIDE DEF id, place
<1> QED
  BY <1>8, <1>9 DEF IInv

-------------------------------------------------------------------------------
\* The steps of a call.

LEMMA NewSessionIDOK ==
  ASSUME NEW id \in [Calls -> IDs \cup {0}], NEW place \in [Calls -> Places], IInvOf(id, place),
         NEW k \in Calls, NewSessionID(k)
  PROVE  IInvOf(id, place)'
<1> USE DEF IInvOf
<1> DEFINE e == Owner[k]
           n == NextSessionID(e)
<1>1. e \in Ends /\ n \in IDs /\ n \in Nat /\ n = curSession[e] + 2 /\ curSession[e] \in Nat
  BY NextSession, EndFacts, TypeFacts DEF NextSessionID, NewSessionID
<1>2. /\ curSession' = [curSession EXCEPT ![e] = n] /\ sid' = [sid EXCEPT ![k] = n]
      /\ pc' = [pc EXCEPT ![k] = "session"] /\ pc[k] = "idle"
      /\ UNCHANGED <<result, tid, inbound, sessions, curTunnel, tunnels, poolVars, queue, rx, up, shut>>
  BY DEF NewSessionID, Goto
<1> HIDE DEF n, e
<1>3. pc'[k] = "session" /\ sid'[k] = n /\ sid[k] = 0 /\ place[k] = "unsent"
      /\ \A j \in Calls \ {k} : pc'[j] = pc[j] /\ sid'[j] = sid[j]
  BY <1>2 DEF Types, CallOK
<1>4. Types'
  BY <1>1, <1>2 DEF Types, poolVars
<1>5. CountersOK(id)'
  <2>1. ASSUME NEW f \in Ends
        PROVE  /\ curSession'[f] = FirstID(f) + 2 * Cardinality({j \in Calls : Owner[j] = f /\ pc'[j] # "idle"})
               /\ curTunnel'[f] = FirstID(f) + 2 * Cardinality({j \in Calls : Owner[j] # f /\ id[j] # 0})
    <3> DEFINE S == {j \in Calls : Owner[j] = f /\ pc[j] # "idle"}
               T == {j \in Calls : Owner[j] = f /\ pc'[j] # "idle"}
    <3>1. CASE f = e
      <4>1. k \notin S /\ T = S \cup {k}
        BY <1>2, <1>3, <3>1 DEF e
      <4>2. Cardinality(S) \in Nat /\ Cardinality(T) = Cardinality(S) + 1
        BY <4>1, OneMore
      <4>3. curSession[f] = FirstID(f) + 2 * Cardinality(S)
        BY DEF CountersOK
      <4>5. FirstID(f) \in {1, 2}
        BY EndFacts
      <4>4. curSession'[f] = n
        BY <1>1, <1>2, <3>1 DEF Types
      <4> HIDE DEF S, T
      <4>6. curSession'[f] = FirstID(f) + 2 * Cardinality(T)
        BY <4>2, <4>3, <4>4, <4>5, <1>1, <3>1
      <4> QED
        BY <4>6, <1>2 DEF CountersOK, T
    <3>2. CASE f # e
      <4>1. T = S
        BY <1>2, <1>3, <3>2 DEF e
      <4> QED
        BY <4>1, <1>2, <3>2 DEF CountersOK, Types
    <3> QED
      BY <3>1, <3>2
  <2> QED
    BY <2>1 DEF CountersOK, FirstID
<1>6. SessionsOK'
  <2>1. \A j \in Calls : sid[j] \in Nat /\ curSession[Owner[j]] \in Nat /\ sid[j] <= curSession[Owner[j]]
    BY EndFacts, TypeFacts DEF SessionsOK
  <2>2. \A f \in Ends : curSession'[f] = IF f = e THEN n ELSE curSession[f]
    BY <1>2 DEF Types
  <2>3. \A j \in Calls : sid'[j] <= curSession'[Owner[j]]
    BY <1>1, <1>3, <2>1, <2>2, EndFacts DEF e
  <2>4. \A j \in Calls \ {k} : Owner[j] = e => sid[j] # n
    BY <1>1, <2>1
  <2>5. \A i, j \in Calls : Owner[i] = Owner[j] /\ sid'[i] = sid'[j] /\ sid'[j] # 0 => i = j
    BY <1>3, <2>4 DEF SessionsOK, e
  <2>6. \A f \in Ends : \A i \in IDs : \A j \in Calls :
          sessions'[f][i] = j => Owner[j] = f /\ sid'[j] = i
    BY <1>2, <1>3, IDFacts DEF SessionsOK
  <2>7. \A j \in Calls : pc'[j] \notin {"idle", "session"} /\ ~Closed(j)'
                           => sessions'[Owner[j]][sid'[j]] = j
    BY <1>2, <1>3 DEF SessionsOK, Closed
  <2> QED
    BY <2>3, <2>5, <2>6, <2>7 DEF SessionsOK
<1>7. IdsOK(id)' /\ TunnelsOK(id)' /\ LinkOK'
  BY <1>2, <1>3, TunnelsSame, LinkSame DEF IdsOK, Holding, Going, poolVars, FirstID
<1>8. ASSUME NEW j \in Calls PROVE CallOK(j, id, place)'
  <2>1. CASE j = k
    BY <1>1, <1>2, <1>3, <2>1, IDFacts DEF CallOK, InboundOK, Closed, UnderWay
  <2>2. CASE j # k
    BY <1>2, <1>3, <2>2, CallSame DEF Kept, Closed
  <2> QED
    BY <2>1, <2>2
<1>9. \A j \in Calls : ListenerOK(ListenEnd(j), j)'
  BY <1>2, <1>3, ListenersSame DEF poolVars
<1>10. ASSUME NEW f \in Ends PROVE QueueOK(f, id, place)' /\ RxOK(f, id, place)'
  <2>1. \A j \in Calls : place[j] # "unsent" => sid'[j] = sid[j] /\ Kept(j, id)
    BY <1>2, <1>3 DEF Kept
  <2> QED
    BY <1>2, <1>3, <2>1, QueueSame, RxSame DEF Queued
<1> QED
  BY <1>4, <1>5, <1>6, <1>7, <1>8, <1>9, <1>10

LEMMA NewSessionOK ==
  ASSUME NEW id \in [Calls -> IDs \cup {0}], NEW place \in [Calls -> Places], IInvOf(id, place),
         NEW k \in Calls, NewSession(k)
  PROVE  IInvOf(id, place)'
<1> USE DEF IInvOf
<1> DEFINE e == Owner[k]
<1>1. e \in Ends /\ pc[k] = "session" /\ pc' = [pc EXCEPT ![k] = "send"]
      /\ sessions' = [sessions EXCEPT ![e][sid[k]] = k]
      /\ UNCHANGED <<result, sid, tid, inbound, curSession, curTunnel, tunnels, poolVars, queue, rx, up, shut>>
  BY EndFacts DEF NewSession, Goto
<1> HIDE DEF e
<1>2. pc'[k] = "send" /\ place[k] = "unsent" /\ sid[k] \in IDs
      /\ \A j \in Calls \ {k} : pc'[j] = pc[j]
  BY <1>1, TypeFacts DEF Types, CallOK
<1>3. sessions' \in [Ends -> [IDs -> Calls \cup {NoCall}]]
      /\ \A f \in Ends : \A i \in IDs :
           sessions'[f][i] = IF f = e /\ i = sid[k] THEN k ELSE sessions[f][i]
  BY <1>1, <1>2 DEF Types
<1>4. Types'
  BY <1>1, <1>3 DEF Types, poolVars
<1>5. CountersOK(id)'
  BY <1>1, <1>2, CountersSame
<1>6. SessionsOK'
  <2>1. \A f \in Ends : \A i \in IDs : \A j \in Calls :
          sessions'[f][i] = j => Owner[j] = f /\ sid'[j] = i
    BY <1>1, <1>3 DEF SessionsOK, e
  <2>2. \A j \in Calls : pc'[j] \notin {"idle", "session"} /\ ~Closed(j)'
                           => sessions'[Owner[j]][sid'[j]] = j
    <3> SUFFICES ASSUME NEW j \in Calls, pc'[j] \notin {"idle", "session"}, ~Closed(j)'
                 PROVE  sessions'[Owner[j]][sid'[j]] = j
      OBVIOUS
    <3>1. CASE j = k
      BY <1>1, <1>2, <1>3, <3>1 DEF e
    <3>2. CASE j # k
      <4>1. sessions[Owner[j]][sid[j]] = j /\ sid[j] \in IDs
        BY <1>1, <1>2, <3>2, TypeFacts DEF SessionsOK, Closed, CallOK
      <4>2. ~(Owner[j] = e /\ sid[j] = sid[k])
        BY <1>2, <3>2, IDFacts DEF SessionsOK, e
      <4> QED
        BY <1>1, <1>3, <4>1, <4>2, EndFacts
    <3> QED
      BY <3>1, <3>2
  <2> QED
    BY <1>1, <2>1, <2>2 DEF SessionsOK
<1>7. IdsOK(id)' /\ TunnelsOK(id)' /\ LinkOK'
  BY <1>1, <1>2, TunnelsSame, LinkSame DEF IdsOK, Holding, Going, poolVars, FirstID
<1>8. ASSUME NEW j \in Calls PROVE CallOK(j, id, place)'
  <2>1. CASE j = k
    BY <1>1, <1>2, <2>1 DEF CallOK, InboundOK, Closed, UnderWay
  <2>2. CASE j # k
    BY <1>1, <1>2, <2>2, CallSame DEF Kept, Closed
  <2> QED
    BY <2>1, <2>2
<1>9. \A j \in Calls : ListenerOK(ListenEnd(j), j)'
  BY <1>1, <1>2, ListenersSame DEF poolVars
<1>10. ASSUME NEW f \in Ends PROVE QueueOK(f, id, place)' /\ RxOK(f, id, place)'
  BY <1>1, QueueSame, RxSame DEF Kept
<1> QED
  BY <1>4, <1>5, <1>6, <1>7, <1>8, <1>9, <1>10

\* What becomes of a queue when a message is put into it, and when one is taken out.

LEMMA QueueAppended ==
  ASSUME NEW e \in Ends, NEW id, NEW place, NEW id2, NEW place2, Types, QueueOK(e, id, place),
         NEW m \in Requests \cup Replies, queue'[e] = Append(queue[e], m),
         MessageOK(e, m, id2, place2)',
         \A n \in DOMAIN queue[e] : queue[e][n].type = m.type => queue[e][n].session # m.session,
         \A k \in Calls : Queued(e, k, place) =>
           place2[k] = place[k] /\ id2[k] = id[k] /\ sid'[k] = sid[k] /\ Kept(k, id)
  PROVE  QueueOK(e, id2, place2)'
<1>1. queue[e] \in Seq(Requests \cup Replies) /\ Len(queue[e]) \in Nat
  BY DEF Types
<1>2. /\ DOMAIN queue'[e] = DOMAIN queue[e] \cup {Len(queue[e]) + 1}
      /\ Len(queue[e]) + 1 \notin DOMAIN queue[e]
      /\ \A n \in DOMAIN queue[e] : queue'[e][n] = queue[e][n]
      /\ queue'[e][Len(queue[e]) + 1] = m
  BY <1>1
<1>3. ASSUME NEW n \in DOMAIN queue[e], NEW x, x = queue'[e][n] PROVE MessageOK(e, x, id2, place2)'
  <2>1. queue[e][n] \in Requests \cup Replies
    BY <1>1
  <2>2. queue[e][n].type = "request" => queue[e][n].call \in Calls
    BY <2>1 DEF Requests, Replies
  <2>3. MessageOK(e, queue[e][n], id, place)
    BY DEF QueueOK
  <2>4. x = queue[e][n]
    BY <1>2, <1>3
  <2> QED
    BY <2>2, <2>3, <2>4 DEF MessageOK, IsAnswer, Kept, Peer, Queued
<1>4. \A n \in DOMAIN queue'[e] : \A x : x = queue'[e][n] => MessageOK(e, x, id2, place2)'
  BY <1>2, <1>3
<1>5. \A n1, n2 \in DOMAIN queue'[e] : n1 # n2 /\ queue'[e][n1].type = queue'[e][n2].type
                                         => queue'[e][n1].session # queue'[e][n2].session
  BY <1>2 DEF QueueOK
<1> QED
  BY <1>4, <1>5 DEF QueueOK, MessageOK, IsAnswer, Peer

LEMMA QueueTaken ==
  ASSUME NEW e \in Ends, NEW id, NEW place, NEW id2, NEW place2, Types, QueueOK(e, id, place),
         queue[e] # <<>>, queue'[e] = Tail(queue[e]),
         \A k \in Calls : Queued(e, k, place) =>
           \/ place2[k] = place[k] /\ id2[k] = id[k] /\ sid'[k] = sid[k] /\ Kept(k, id)
           \/ Head(queue[e]).type = place[k] /\ Head(queue[e]).session = sid[k]
  PROVE  QueueOK(e, id2, place2)'
<1>1. queue[e] \in Seq(Requests \cup Replies) /\ Len(queue[e]) \in Nat /\ Len(queue[e]) > 0
  BY DEF Types
<1>2. /\ Head(queue[e]) = queue[e][1] /\ 1 \in DOMAIN queue[e]
      /\ \A n \in DOMAIN queue'[e] : /\ n + 1 \in DOMAIN queue[e] /\ n + 1 # 1 /\ n \in Nat
                                     /\ queue'[e][n] = queue[e][n + 1]
  BY <1>1
<1>3. ASSUME NEW n \in DOMAIN queue'[e], NEW x, x = queue'[e][n] PROVE MessageOK(e, x, id2, place2)'
  <2>1. x = queue[e][n + 1] /\ x \in Requests \cup Replies
    BY <1>1, <1>2, <1>3
  <2>2. x.type = "request" => x.call \in Calls
    BY <2>1 DEF Requests, Replies
  <2>3. MessageOK(e, x, id, place)
    BY <2>1, <1>2 DEF QueueOK
  <2>4. x.type = Head(queue[e]).type => x.session # Head(queue[e]).session
    BY <2>1, <1>2 DEF QueueOK
  <2> QED
    BY <2>2, <2>3, <2>4 DEF MessageOK, IsAnswer, Kept, Peer, Queued
<1>4. \A n \in DOMAIN queue'[e] : \A x : x = queue'[e][n] => MessageOK(e, x, id2, place2)'
  BY <1>3
<1>5. \A n1, n2 \in DOMAIN queue'[e] : n1 # n2 /\ queue'[e][n1].type = queue'[e][n2].type
                                         => queue'[e][n1].session # queue'[e][n2].session
  <2> TAKE n1, n2 \in DOMAIN queue'[e]
  <2>1. n1 # n2 => n1 + 1 # n2 + 1
    BY <1>2
  <2> QED
    BY <1>2, <2>1 DEF QueueOK
<1> QED
  BY <1>4, <1>5 DEF QueueOK, MessageOK, IsAnswer, Peer

LEMMA SendRequestOK ==
  ASSUME NEW id \in [Calls -> IDs \cup {0}], NEW place \in [Calls -> Places], IInvOf(id, place),
         NEW k \in Calls, SendRequest(k)
  PROVE  \E place2 \in [Calls -> Places] : IInvOf(id, place2)'
<1> USE DEF IInvOf
<1> DEFINE e == Owner[k]
           m == Request(sid[k], k)
<1>1. e \in Ends /\ pc[k] = "send"
      /\ UNCHANGED <<result, sid, tid, inbound, curSession, sessions, curTunnel, tunnels, poolVars, rx, up, shut>>
  BY EndFacts DEF SendRequest
<1>2. place[k] = "unsent" /\ sid[k] \in IDs /\ sid[k] # 0
  BY <1>1, TypeFacts DEF Types, CallOK
<1>3. CASE shut[e] # "open"
  <2>1. pc' = [pc EXCEPT ![k] = "panic"] /\ queue' = queue
    BY <1>3 DEF SendRequest, Goto
  <2>2. pc'[k] = "panic" /\ \A j \in Calls \ {k} : pc'[j] = pc[j]
    BY <2>1 DEF Types
  <2>3. Types' /\ CountersOK(id)' /\ SessionsOK'
    BY <1>1, <2>1, <2>2, CountersSame, SessionsSame DEF Types, poolVars, Closed
  <2>4. IdsOK(id)' /\ TunnelsOK(id)' /\ LinkOK'
    BY <1>1, <2>2, TunnelsSame, LinkSame DEF IdsOK, Holding, Going, poolVars, FirstID
  <2>5. ASSUME NEW j \in Calls PROVE CallOK(j, id, place)'
    <3>1. CASE j = k
      BY <1>1, <1>2, <2>2, <3>1 DEF CallOK, InboundOK, Closed, UnderWay
    <3>2. CASE j # k
      BY <1>1, <2>2, <3>2, CallSame DEF Kept, Closed
    <3> QED
      BY <3>1, <3>2
  <2>6. \A j \in Calls : ListenerOK(ListenEnd(j), j)'
    BY <1>1, <2>2, ListenersSame DEF poolVars
  <2>7. ASSUME NEW f \in Ends PROVE QueueOK(f, id, place)' /\ RxOK(f, id, place)'
    BY <1>1, <2>1, QueueSame, RxSame DEF Kept
  <2>8. IInvOf(id, place)'
    BY <2>3, <2>4, <2>5, <2>6, <2>7
  <2> QED
    BY <2>8
<1>4. CASE shut[e] = "open"
  <2>1. /\ Len(queue[e]) < Cap /\ queue' = [queue EXCEPT ![e] = Append(queue[e], m)]
        /\ pc' = [pc EXCEPT ![k] = "wait"]
    BY <1>4 DEF SendRequest, Goto
  <2>2. pc'[k] = "wait" /\ \A j \in Calls \ {k} : pc'[j] = pc[j]
    BY <2>1 DEF Types
  <2>3. PICK place2 \in [Calls -> Places] : place2 = [place EXCEPT ![k] = "request"]
    BY DEF Places
  <2>4. place2[k] = "request" /\ \A j \in Calls \ {k} : place2[j] = place[j]
    BY <2>3
  <2>5. m \in Requests /\ m.type = "request" /\ m.session = sid[k] /\ m.call = k
    BY <1>2 DEF Requests, Request
  <2> HIDE DEF m
  <2>6. Types'
    <3>1. queue[e] \in Seq(Requests \cup Replies) /\ Append(queue[e], m) \in Seq(Requests \cup Replies)
          /\ Len(Append(queue[e], m)) <= Cap
      BY <1>1, <2>1, <2>5, CapAssumption DEF Types
    <3>2. queue' \in [Ends -> Seq(Requests \cup Replies)] /\ \A f \in Ends : Len(queue'[f]) <= Cap
      BY <1>1, <2>1, <3>1 DEF Types
    <3> QED
      BY <1>1, <2>1, <3>2 DEF Types, poolVars
  <2>7. CountersOK(id)' /\ SessionsOK'
    BY <1>1, <2>1, <2>2, CountersSame, SessionsSame DEF Closed
  <2>8. IdsOK(id)' /\ TunnelsOK(id)' /\ LinkOK'
    BY <1>1, <2>2, TunnelsSame, LinkSame DEF IdsOK, Holding, Going, poolVars, FirstID
  <2>9. ASSUME NEW j \in Calls PROVE CallOK(j, id, place2)'
    <3>1. CASE j = k
      BY <1>1, <1>2, <1>4, <2>2, <2>4, <3>1 DEF CallOK, InboundOK, Closed, UnderWay
    <3>2. CASE j # k
      BY <1>1, <2>2, <2>4, <3>2, CallSame DEF Kept, Closed
    <3> QED
      BY <3>1, <3>2
  <2>10. \A j \in Calls : ListenerOK(ListenEnd(j), j)'
    BY <1>1, <2>2, ListenersSame DEF poolVars
  <2>11. ASSUME NEW f \in Ends PROVE QueueOK(f, id, place2)' /\ RxOK(f, id, place2)'
    <3>1. RxOK(f, id, place2)'
      BY <1>1, <1>2, <2>4, RxSame DEF Kept
    <3>2. \A j \in Calls : Queued(f, j, place) => place2[j] = place[j] /\ sid'[j] = sid[j] /\ Kept(j, id)
      BY <1>1, <1>2, <2>4 DEF Queued, Kept
    <3>3. CASE f # e
      BY <1>1, <2>1, <3>1, <3>2, <3>3, QueueSame DEF Types
    <3>4. CASE f = e
      <4>1. ASSUME NEW n \in DOMAIN queue[e], queue[e][n].type = m.type, queue[e][n].session = m.session
            PROVE  FALSE
        <5>1. queue[e][n] \in Requests \cup Replies /\ MessageOK(e, queue[e][n], id, place)
          BY <1>1 DEF Types, QueueOK
        <5>2. queue[e][n].call \in Calls /\ Owner[queue[e][n].call] = e
              /\ place[queue[e][n].call] = "request" /\ sid[queue[e][n].call] = sid[k]
          BY <2>5, <4>1, <5>1 DEF Requests, Replies, MessageOK
        <5> QED
          BY <1>2, <5>2 DEF SessionsOK, e
      <4>2. \A x : x = m => MessageOK(e, x, id, place2)'
        BY <1>1, <2>4, <2>5 DEF MessageOK, e
      <4>3. queue'[e] = Append(queue[e], m)
        BY <1>1, <2>1 DEF Types
      <4>4. PICK x : x = m
        OBVIOUS
      <4> QED
        BY <1>1, <2>5, <3>1, <3>2, <3>4, <4>1, <4>2, <4>3, <4>4, QueueAppended
    <3> QED
      BY <3>1, <3>3, <3>4
  <2>12. IInvOf(id, place2)'
    BY <2>6, <2>7, <2>8, <2>9, <2>10, <2>11
  <2> QED
    BY <2>12
<1> QED
  BY <1>3, <1>4

LEMMA AwaitOK ==
  ASSUME NEW id \in [Calls -> IDs \cup {0}], NEW place \in [Calls -> Places], IInvOf(id, place),
         NEW k \in Calls, Await(k)
  PROVE  \E place2 \in [Calls -> Places] : IInvOf(id, place2)'
<1> USE DEF IInvOf
<1>1. /\ pc[k] = "wait" /\ inbound[k] # <<>> /\ GoOn(k, inbound[k][1])
      /\ tid' = IF inbound[k][1] = Nil THEN tid ELSE [tid EXCEPT ![k] = inbound[k][1].tunnel]
      /\ inbound' = IF inbound[k][1] = Nil THEN inbound ELSE [inbound EXCEPT ![k] = <<>>]
      /\ UNCHANGED <<sid, curSession, sessions, curTunnel, tunnels, poolVars, queue, rx, up, shut>>
  BY DEF Await
<1>2. result[k] # "ok" /\ place[k] \in UnderWay \cup {"arrived"} /\ place[k] # "unsent"
  BY <1>1 DEF CallOK, Places, UnderWay
<1>3. CASE place[k] # "arrived"
  <2>1. inbound[k] = <<Nil>> /\ Closed(k) /\ inbound[k][1] = Nil
    BY <1>1, <1>3 DEF CallOK, InboundOK
  <2>2. /\ pc' = [pc EXCEPT ![k] = "done"] /\ result' = [result EXCEPT ![k] = "error"]
        /\ tid' = tid /\ inbound' = inbound
    BY <1>1, <2>1 DEF GoOn, Finish, Goto
  <2>3. /\ pc'[k] = "done" /\ result'[k] = "error"
        /\ \A j \in Calls \ {k} : pc'[j] = pc[j] /\ result'[j] = result[j]
    BY <2>2 DEF Types
  <2>4. Types' /\ CountersOK(id)' /\ SessionsOK'
    BY <1>1, <2>2, <2>3, CountersSame, SessionsSame DEF Types, poolVars, Closed
  <2>5. IdsOK(id)' /\ TunnelsOK(id)' /\ LinkOK'
    BY <1>1, <1>2, <2>3, TunnelsSame, LinkSame DEF IdsOK, Holding, Going, poolVars, FirstID
  <2>6. ASSUME NEW j \in Calls PROVE CallOK(j, id, place)'
    <3>1. CASE j = k
      BY <1>1, <1>2, <1>3, <2>1, <2>2, <2>3, <3>1 DEF CallOK, InboundOK, Closed, UnderWay
    <3>2. CASE j # k
      BY <1>1, <2>2, <2>3, <3>2, CallSame DEF Kept, Closed
    <3> QED
      BY <3>1, <3>2
  <2>7. \A j \in Calls : ListenerOK(ListenEnd(j), j)'
    BY <1>1, <2>3, ListenersSame DEF poolVars
  <2>8. ASSUME NEW f \in Ends PROVE QueueOK(f, id, place)' /\ RxOK(f, id, place)'
    BY <1>1, QueueSame, RxSame DEF Kept
  <2>9. IInvOf(id, place)'
    BY <2>4, <2>5, <2>6, <2>7, <2>8
  <2> QED
    BY <2>9
<1>4. CASE place[k] = "arrived"
  <2>1. PICK m \in Replies : inbound[k][1] = m /\ IsAnswer(k, m, id)
    BY <1>4 DEF CallOK, InboundOK
  <2>2. m # Nil /\ m.tunnel = id[k] /\ id[k] \in IDs /\ id[k] # 0
    BY <2>1, <1>4, IDFacts DEF Replies, Nil, IsAnswer, CallOK
  <2>3. /\ tid' = [tid EXCEPT ![k] = id[k]] /\ inbound' = [inbound EXCEPT ![k] = <<>>]
        /\ GoOn(k, m)
    BY <1>1, <2>1, <2>2
  <2>4. /\ tid'[k] = id[k] /\ inbound'[k] = <<>>
        /\ \A j \in Calls \ {k} : tid'[j] = tid[j] /\ inbound'[j] = inbound[j]
    BY <2>3 DEF Types
  <2>5. /\ \/ pc'[k] = "exist" /\ result' = result /\ m.status = "success"
           \/ pc'[k] = "done" /\ result'[k] = "error"
        /\ pc' \in [Calls -> {"idle", "session", "send", "wait", "exist", "insert", "listen", "undo",
                              "done", "panic"}]
        /\ result' \in [Calls -> {"none", "ok", "error", "existed"}]
        /\ \A j \in Calls \ {k} : pc'[j] = pc[j] /\ result'[j] = result[j]
    <3>1. \/ pc' = [pc EXCEPT ![k] = "exist"] /\ result' = result /\ m.status = "success"
          \/ pc' = [pc EXCEPT ![k] = "done"] /\ result' = [result EXCEPT ![k] = "error"]
      BY <2>2, <2>3 DEF GoOn, Finish, Goto
    <3>2. /\ pc \in [Calls -> {"idle", "session", "send", "wait", "exist", "insert", "listen", "undo",
                                "done", "panic"}]
          /\ result \in [Calls -> {"none", "ok", "error", "existed"}]
      BY DEF Types
    <3>3. CASE pc' = [pc EXCEPT ![k] = "exist"] /\ result' = result /\ m.status = "success"
      BY <3>2, <3>3
    <3>4. CASE pc' = [pc EXCEPT ![k] = "done"] /\ result' = [result EXCEPT ![k] = "error"]
      BY <3>2, <3>4
    <3> QED
      BY <3>1, <3>3, <3>4
  <2>6. PICK place2 \in [Calls -> Places] : place2 = [place EXCEPT ![k] = "read"]
    BY DEF Places
  <2>7. place2[k] = "read" /\ \A j \in Calls \ {k} : place2[j] = place[j]
    BY <2>6
  <2>8. Types'
    <3>1. tid' \in [Calls -> IDs \cup {0}] /\ inbound' \in [Calls -> Seq(Replies \cup {Nil})]
      BY <2>2, <2>3 DEF Types
    <3> QED
      BY <1>1, <2>5, <3>1 DEF Types, poolVars
  <2>9. CountersOK(id)' /\ SessionsOK'
    BY <1>1, <2>5, CountersSame, SessionsSame DEF Closed
  <2>10. IdsOK(id)' /\ LinkOK'
    BY <1>1, LinkSame DEF IdsOK, poolVars, FirstID
  <2>11. TunnelsOK(id)'
    <3>1. \A j \in Calls : Holding(j)' <=> Holding(j)
      BY <1>1, <1>2, <2>5 DEF Holding
    <3>2. ASSUME NEW j \in Calls, Going(j)' PROVE tunnels[Peer(j)][id[j]] = j
      <4>1. CASE j = k
        BY <2>1, <2>5, <3>2, <4>1, <1>2 DEF IsAnswer, Going
      <4>2. CASE j # k
        BY <2>5, <3>2, <4>2 DEF Going, TunnelsOK
      <4> QED
        BY <4>1, <4>2
    <3> QED
      BY <1>1, <3>1, <3>2 DEF TunnelsOK, Peer
  <2>12. ASSUME NEW j \in Calls PROVE CallOK(j, id, place2)'
    <3>1. CASE j = k
      BY <1>1, <1>2, <1>4, <2>2, <2>4, <2>5, <2>7, <3>1 DEF CallOK, InboundOK, Closed, UnderWay
    <3>2. CASE j # k
      BY <1>1, <2>4, <2>5, <2>7, <3>2, CallSame DEF Kept, Closed
    <3> QED
      BY <3>1, <3>2
  <2>13. \A j \in Calls : ListenerOK(ListenEnd(j), j)'
    BY <1>1, <2>5, ListenersSame DEF poolVars
  <2>14. ASSUME NEW f \in Ends PROVE QueueOK(f, id, place2)' /\ RxOK(f, id, place2)'
    BY <1>1, <1>4, <2>7, QueueSame, RxSame DEF Kept, Queued
  <2>15. IInvOf(id, place2)'
    BY <2>8, <2>9, <2>10, <2>11, <2>12, <2>13, <2>14
  <2> QED
    BY <2>15
<1> QED
  BY <1>3, <1>4

\* No tunnel has an id but the two of the call it was given to.
LEMMA IdFree ==
  ASSUME NEW id \in [Calls -> IDs \cup {0}], Types, IdsOK(id), TunnelsOK(id), NEW k \in Calls,
         id[k] # 0, NEW e \in Ends, \A i \in IDs : tunnels[e][i] # k
  PROVE  tunnels[e][id[k]] = NoCall
<1> SUFFICES ASSUME tunnels[e][id[k]] # NoCall PROVE FALSE
  OBVIOUS
<1>1. PICK j \in Calls : tunnels[e][id[k]] = j
  BY DEF Types
<1>2. id[j] = id[k] /\ j # k
  BY <1>1 DEF TunnelsOK
<1>3. Owner[j] # Owner[k]
  BY <1>2 DEF IdsOK
<1>4. Peer(j) = Other(Peer(k)) /\ Peer(k) \in Ends
  BY <1>3, EndFacts
<1>5. FirstID(Peer(j)) % 2 = FirstID(Peer(k)) % 2
  BY <1>2 DEF IdsOK
<1> QED
  BY <1>4, <1>5, EndFacts

\* A call that goes on has read its id.
LEMMA Placed ==
  ASSUME NEW id \in [Calls -> IDs \cup {0}], NEW place \in [Calls -> Places],
         NEW k \in Calls, CallOK(k, id, place), Going(k)
  PROVE  place[k] = "read" /\ id[k] \in IDs /\ tid[k] = id[k]
  BY DEF CallOK, Going, Places, UnderWay

LEMMA LocalExistOK ==
  ASSUME NEW id \in [Calls -> IDs \cup {0}], NEW place \in [Calls -> Places], IInvOf(id, place),
         NEW k \in Calls, LocalExist(k)
  PROVE  IInvOf(id, place)'
<1> USE DEF IInvOf
<1>1. /\ pc[k] = "exist"
      /\ UNCHANGED <<sid, tid, inbound, curSession, sessions, curTunnel, tunnels, poolVars, queue, rx, up, shut>>
  BY DEF LocalExist
<1>2. /\ \/ pc'[k] = "insert" /\ result'[k] = result[k]
         \/ pc'[k] = "done" /\ result'[k] = "existed"
      /\ pc' \in [Calls -> {"idle", "session", "send", "wait", "exist", "insert", "listen", "undo",
                            "done", "panic"}]
      /\ result' \in [Calls -> {"none", "ok", "error", "existed"}]
      /\ \A j \in Calls \ {k} : pc'[j] = pc[j] /\ result'[j] = result[j]
  BY DEF LocalExist, Finish, Goto, Types
<1>3. place[k] = "read" /\ result[k] # "ok"
  BY <1>1 DEF CallOK, Places, UnderWay
<1>4. Types' /\ CountersOK(id)' /\ SessionsOK'
  BY <1>1, <1>2, CountersSame, SessionsSame DEF Types, poolVars, Closed
<1>5. IdsOK(id)' /\ TunnelsOK(id)' /\ LinkOK'
  BY <1>1, <1>2, <1>3, TunnelsSame, LinkSame DEF IdsOK, Holding, Going, poolVars, FirstID
<1>6. ASSUME NEW j \in Calls PROVE CallOK(j, id, place)'
  <2>1. CASE j = k
    BY <1>1, <1>2, <1>3, <2>1 DEF CallOK, InboundOK, Closed, UnderWay
  <2>2. CASE j # k
    BY <1>1, <1>2, <2>2, CallSame DEF Kept, Closed
  <2> QED
    BY <2>1, <2>2
<1>7. \A j \in Calls : ListenerOK(ListenEnd(j), j)'
  BY <1>1, <1>2, ListenersSame DEF poolVars
<1>8. ASSUME NEW f \in Ends PROVE QueueOK(f, id, place)' /\ RxOK(f, id, place)'
  BY <1>1, QueueSame, RxSame DEF Kept
<1> QED
  BY <1>4, <1>5, <1>6, <1>7, <1>8

LEMMA LocalInsertOK ==
  ASSUME NEW id \in [Calls -> IDs \cup {0}], NEW place \in [Calls -> Places], IInvOf(id, place),
         NEW k \in Calls, LocalInsert(k)
  PROVE  IInvOf(id, place)'
<1> USE DEF IInvOf
<1> DEFINE e == Owner[k]
<1>1. /\ pc[k] = "insert" /\ pc' = [pc EXCEPT ![k] = "listen"] /\ e \in Ends
      /\ tunnels' = [tunnels EXCEPT ![e][tid[k]] = k]
      /\ UNCHANGED <<result, sid, tid, inbound, curSession, sessions, curTunnel, poolVars, queue, rx, up, shut>>
  BY EndFacts DEF LocalInsert, Goto
<1>2. place[k] = "read" /\ result[k] # "ok" /\ tid[k] = id[k] /\ id[k] # 0 /\ id[k] \in IDs
  BY <1>1 DEF CallOK, Places, UnderWay
<1>3. pc'[k] = "listen" /\ \A j \in Calls \ {k} : pc'[j] = pc[j]
  BY <1>1 DEF Types
<1>4. \A i \in IDs : tunnels[e][i] # k
  BY <1>1, <1>2 DEF TunnelsOK, Holding
<1>5. tunnels[e][id[k]] = NoCall
  BY <1>1, <1>2, <1>4, IdFree
<1> HIDE DEF e
<1>6. /\ tunnels' \in [Ends -> [IDs -> Calls \cup {NoCall}]]
      /\ \A f \in Ends : \A i \in IDs :
           tunnels'[f][i] = IF f = e /\ i = id[k] THEN k ELSE tunnels[f][i]
  BY <1>1, <1>2 DEF Types
<1>7. \A j \in Calls : Kept(j, id)
  <2> SUFFICES ASSUME NEW j \in Calls, id[j] \in IDs, tunnels[Peer(j)][id[j]] = j
               PROVE  tunnels'[Peer(j)][id[j]] = j
    BY DEF Kept
  <2>1. Peer(j) \in Ends /\ j # NoCall
    BY EndFacts, CallAssumption
  <2> QED
    BY <1>5, <1>6, <2>1
<1>8. Types' /\ CountersOK(id)' /\ SessionsOK'
  BY <1>1, <1>3, <1>6, CountersSame, SessionsSame DEF Types, poolVars, Closed
<1>9. IdsOK(id)' /\ LinkOK'
  BY <1>1, LinkSame DEF IdsOK, poolVars, FirstID
<1>10. TunnelsOK(id)'
  <2>1. \A f \in Ends : \A i \in IDs : \A j \in Calls : tunnels'[f][i] = j => id[j] = i
    BY <1>6 DEF TunnelsOK
  <2>2. \A j \in Calls : \A i \in IDs : tunnels'[Owner[j]][i] = j => Holding(j)'
    BY <1>1, <1>3, <1>6, EndFacts DEF TunnelsOK, Holding
  <2>3. \A j \in Calls : Holding(j)' => tunnels'[Owner[j]][id[j]] = j
    <3> SUFFICES ASSUME NEW j \in Calls, Holding(j)' PROVE tunnels'[Owner[j]][id[j]] = j
      OBVIOUS
    <3>1. CASE j = k
      BY <1>1, <1>2, <1>6, <3>1 DEF e
    <3>2. CASE j # k
      <4>1. tunnels[Owner[j]][id[j]] = j /\ id[j] # 0 /\ id[j] \in IDs
        BY <1>1, <1>3, <3>2, Placed, IDFacts DEF TunnelsOK, Holding, Going
      <4> QED
        BY <1>5, <1>6, <4>1, EndFacts, CallAssumption
    <3> QED
      BY <3>1, <3>2
  <2>4. \A j \in Calls : Going(j)' => tunnels'[Peer(j)][id[j]] = j
    <3> SUFFICES ASSUME NEW j \in Calls, Going(j)' PROVE tunnels'[Peer(j)][id[j]] = j
      OBVIOUS
    <3>1. Going(j)
      BY <1>1, <1>3 DEF Going
    <3>2. tunnels[Peer(j)][id[j]] = j /\ id[j] \in IDs
      BY <3>1, Placed DEF TunnelsOK
    <3> QED
      BY <1>7, <3>2 DEF Kept
  <2> QED
    BY <2>1, <2>2, <2>3, <2>4 DEF TunnelsOK, Peer
<1>11. ASSUME NEW j \in Calls PROVE CallOK(j, id, place)'
  <2>1. CASE j = k
    BY <1>1, <1>2, <1>3, <2>1 DEF CallOK, InboundOK, Closed, UnderWay
  <2>2. CASE j # k
    BY <1>1, <1>3, <1>7, <2>2, CallSame DEF Closed
  <2> QED
    BY <2>1, <2>2
<1>12. ASSUME NEW j \in Calls PROVE ListenerOK(ListenEnd(j), j)'
  <2> DEFINE f == ListenEnd(j)
  <2>1. f \in Ends
    BY EndFacts
  <2> HIDE DEF f
  <2>2. ListenerOK(f, j)
    BY DEF f
  <2>3. CASE j = k /\ f = e
    <3>1. ~Created(f, j) /\ listening[f][Addr[j]] # j
      BY <1>4, <2>2, <2>3 DEF Created, ListenerOK
    <3>2. ~Created(f, j)'
      BY <1>1, <1>3, <2>3 DEF Created, Creating, e
    <3> QED
      BY <1>1, <3>1, <3>2 DEF ListenerOK, poolVars, f, ListenEnd
  <2>4. CASE ~(j = k /\ f = e)
    <3>1. \A i \in IDs : tunnels'[f][i] = j <=> tunnels[f][i] = j
      BY <1>5, <1>6, <2>1, <2>4, CallAssumption
    <3>2. Creating(f, j)' <=> Creating(f, j)
      BY <1>1, <1>3, <2>4 DEF Creating, e
    <3>3. ListenerOK(f, j)'
      BY <1>1, <2>1, <2>2, <3>1, <3>2, ListenerSame DEF poolVars
    <3> QED
      BY <3>3 DEF f, ListenEnd
  <2> QED
    BY <2>3, <2>4
<1>13. ASSUME NEW f \in Ends PROVE QueueOK(f, id, place)' /\ RxOK(f, id, place)'
  <2>1. \A j \in Calls : place[j] \in {"handled", "answer"} => \A i \in IDs : tunnels'[f][i] = j => tunnels[f][i] = j
    BY <1>2, <1>6
  <2> QED
    BY <1>1, <1>7, <2>1, QueueSame, RxSame
<1> QED
  BY <1>8, <1>9, <1>10, <1>11, <1>12, <1>13

\* What Tunnel.Listen of call k at end e does to the listeners of a process.
LEMMA ListenFacts ==
  ASSUME Types, NEW e \in Ends, NEW k \in Calls, NEW listens, Listen(e, k, listens)
  PROVE  /\ listening' \in [Ends -> [Addrs -> Calls \cup {NoCall}]]
         /\ listens = "ok" => /\ ListenEnd(k) = e /\ listening[e][Addr[k]] = NoCall
                              /\ listening'[e][Addr[k]] = k
                              /\ \A f \in Ends : \A a \in Addrs :
                                   f # e \/ a # Addr[k] => listening'[f][a] = listening[f][a]
         /\ listens # "ok" => listening' = listening
         /\ listens = "none" <=> ListenEnd(k) # e
<1>1. Addr[k] \in Addrs /\ listening \in [Ends -> [Addrs -> Calls \cup {NoCall}]]
  BY CallAssumption DEF Types
<1>2. \/ listens = "none" /\ ListenEnd(k) # e /\ listening' = listening
      \/ listens = "error" /\ ListenEnd(k) = e /\ listening' = listening
      \/ /\ listens = "ok" /\ ListenEnd(k) = e /\ listening[e][Addr[k]] = NoCall
         /\ listening' = [listening EXCEPT ![e][Addr[k]] = k]
  BY DEF Listen, CanListen
<1> QED
  BY <1>1, <1>2

LEMMA LocalListenOK ==
  ASSUME NEW id \in [Calls -> IDs \cup {0}], NEW place \in [Calls -> Places], IInvOf(id, place),
         NEW k \in Calls, LocalListen(k)
  PROVE  IInvOf(id, place)'
<1> USE DEF IInvOf
<1> DEFINE e == Owner[k]
<1>1. PICK listens \in {"none", "ok", "error"} :
        /\ Listen(e, k, listens)
        /\ IF listens = "error" THEN Goto(k, "undo") /\ UNCHANGED result ELSE Finish(k, "ok")
  BY DEF LocalListen
<1>2. /\ pc[k] = "listen" /\ e \in Ends /\ Holding(k) /\ Going(k)
      /\ UNCHANGED <<sid, tid, inbound, curSession, sessions, curTunnel, tunnels, sweep, robbed, queue, rx, up, shut>>
  BY EndFacts DEF LocalListen, Holding, Going
<1>3. place[k] = "read" /\ id[k] \in IDs /\ result[k] # "ok" /\ tunnels[e][id[k]] = k
  BY <1>2, Placed DEF CallOK, TunnelsOK
<1>4. /\ IF listens = "error" THEN pc'[k] = "undo" /\ result'[k] = result[k]
                              ELSE pc'[k] = "done" /\ result'[k] = "ok"
      /\ pc' \in [Calls -> {"idle", "session", "send", "wait", "exist", "insert", "listen", "undo",
                            "done", "panic"}]
      /\ result' \in [Calls -> {"none", "ok", "error", "existed"}]
      /\ \A j \in Calls \ {k} : pc'[j] = pc[j] /\ result'[j] = result[j]
  BY <1>1 DEF Finish, Goto, Types
<1>5. /\ listening' \in [Ends -> [Addrs -> Calls \cup {NoCall}]]
      /\ listens = "ok" => /\ ListenEnd(k) = e /\ listening[e][Addr[k]] = NoCall
                           /\ listening'[e][Addr[k]] = k
                           /\ \A f \in Ends : \A a \in Addrs :
                                f # e \/ a # Addr[k] => listening'[f][a] = listening[f][a]
      /\ listens # "ok" => listening' = listening
      /\ listens = "none" <=> ListenEnd(k) # e
  BY <1>1, <1>2, ListenFacts
<1> HIDE DEF e
<1>6. Types' /\ CountersOK(id)' /\ SessionsOK'
  BY <1>2, <1>4, <1>5, CountersSame, SessionsSame DEF Types, Closed
<1>7. IdsOK(id)' /\ TunnelsOK(id)' /\ LinkOK'
  BY <1>2, <1>4, TunnelsSame, LinkSame DEF IdsOK, Holding, Going, FirstID
<1>8. ASSUME NEW j \in Calls PROVE CallOK(j, id, place)'
  <2>1. CASE j = k
    BY <1>2, <1>3, <1>4, <2>1 DEF CallOK, InboundOK, Closed, UnderWay
  <2>2. CASE j # k
    BY <1>2, <1>4, <2>2, CallSame DEF Kept, Closed
  <2> QED
    BY <2>1, <2>2
<1>9. ASSUME NEW j \in Calls PROVE ListenerOK(ListenEnd(j), j)'
  <2> DEFINE f == ListenEnd(j)
  <2>1. f \in Ends /\ Addr[j] \in Addrs
    BY EndFacts, CallAssumption
  <2> HIDE DEF f
  <2>2. ListenerOK(f, j)
    BY DEF f
  <2>3. CASE j = k /\ f = e
    <3>1. listening[f][Addr[j]] # j
      BY <1>2, <2>2, <2>3 DEF ListenerOK, Created, Creating, e
    <3>2. CASE listens = "ok"
      <4>1. Created(f, j)' /\ listening'[f][Addr[j]] = j
        BY <1>2, <1>3, <1>4, <1>5, <2>3, <3>2 DEF Created, Creating, e
      <4> QED
        BY <4>1 DEF ListenerOK, f, ListenEnd
    <3>3. CASE listens # "ok"
      <4>1. pc'[k] = "undo" /\ listening' = listening
        BY <1>1, <1>4, <1>5, <2>3, <3>3 DEF f
      <4>2. ~Created(f, j)'
        BY <4>1, <2>3 DEF Created, Creating, e
      <4> QED
        BY <3>1, <4>1, <4>2 DEF ListenerOK, f, ListenEnd
    <3> QED
      BY <3>2, <3>3
  <2>4. CASE ~(j = k /\ f = e)
    <3>1. Creating(f, j)' <=> Creating(f, j)
      BY <1>2, <1>4, <2>4 DEF Creating, e
    <3>2. CASE listening'[f][Addr[j]] = listening[f][Addr[j]]
      <4>1. ListenerOK(f, j)'
        BY <1>2, <2>1, <2>2, <3>1, <3>2, ListenerSame
      <4> QED
        BY <4>1 DEF f, ListenEnd
    <3>3. CASE listening'[f][Addr[j]] # listening[f][Addr[j]]
      <4>1. f = e /\ listening[f][Addr[j]] = NoCall /\ listening'[f][Addr[j]] = k /\ j # k
        BY <1>5, <2>1, <2>4, <3>3
      <4>2. Created(f, j)' => Created(f, j)
        BY <1>2, <3>1 DEF Created
      <4> QED
        BY <1>2, <2>2, <4>1, <4>2, CallAssumption DEF ListenerOK, f, ListenEnd
    <3> QED
      BY <3>2, <3>3
  <2> QED
    BY <2>3, <2>4
<1>10. ASSUME NEW f \in Ends PROVE QueueOK(f, id, place)' /\ RxOK(f, id, place)'
  BY <1>2, QueueSame, RxSame DEF Kept
<1> QED
  BY <1>6, <1>7, <1>8, <1>9, <1>10

LEMMA LocalUndoOK ==
  ASSUME NEW id \in [Calls -> IDs \cup {0}], NEW place \in [Calls -> Places], IInvOf(id, place),
         NEW k \in Calls, LocalUndo(k)
  PROVE  IInvOf(id, place)'
<1> USE DEF IInvOf
<1> DEFINE e == Owner[k]
<1>1. /\ pc[k] = "undo" /\ pc' = [pc EXCEPT ![k] = "done"] /\ result' = [result EXCEPT ![k] = "error"]
      /\ tunnels' = [tunnels EXCEPT ![e][tid[k]] = NoCall]
      /\ e \in Ends /\ Holding(k) /\ Going(k)
      /\ UNCHANGED <<sid, tid, inbound, curSession, sessions, curTunnel, poolVars, queue, rx, up, shut>>
  BY EndFacts DEF LocalUndo, Undo, Finish, Goto, Holding, Going
<1>2. place[k] = "read" /\ tid[k] = id[k] /\ id[k] \in IDs /\ tunnels[e][id[k]] = k
  BY <1>1, Placed DEF TunnelsOK
<1>3. /\ pc'[k] = "done" /\ result'[k] = "error"
      /\ \A j \in Calls \ {k} : pc'[j] = pc[j] /\ result'[j] = result[j]
  BY <1>1 DEF Types
<1> HIDE DEF e
<1>4. /\ tunnels' \in [Ends -> [IDs -> Calls \cup {NoCall}]]
      /\ \A f \in Ends : \A i \in IDs :
           tunnels'[f][i] = IF f = e /\ i = id[k] THEN NoCall ELSE tunnels[f][i]
  BY <1>1, <1>2 DEF Types
<1>5. \A f \in Ends : \A i \in IDs : \A j \in Calls :
        tunnels'[f][i] = j <=> tunnels[f][i] = j /\ ~(j = k /\ f = e)
  BY <1>2, <1>4, CallAssumption DEF TunnelsOK
<1>6. \A j \in Calls : Kept(j, id)
  BY <1>5, EndFacts DEF Kept, e
<1>7. Types' /\ CountersOK(id)' /\ SessionsOK'
  BY <1>1, <1>3, <1>4, CountersSame, SessionsSame DEF Types, poolVars, Closed
<1>8. IdsOK(id)' /\ LinkOK'
  BY <1>1, LinkSame DEF IdsOK, poolVars, FirstID
<1>9. TunnelsOK(id)'
  <2>1. ASSUME NEW j \in Calls PROVE (Holding(j)' => Holding(j) /\ j # k) /\ (Going(j)' => Going(j))
                                     /\ (Holding(j) /\ j # k => Holding(j)')
    BY <1>1, <1>3 DEF Holding, Going
  <2>2. \A f \in Ends : \A i \in IDs : \A j \in Calls : tunnels'[f][i] = j => id[j] = i
    BY <1>5 DEF TunnelsOK
  <2>3. \A j \in Calls : \A i \in IDs : tunnels'[Owner[j]][i] = j => Holding(j)'
    BY <1>5, <2>1, EndFacts DEF TunnelsOK, e
  <2>4. \A j \in Calls : Holding(j)' => tunnels'[Owner[j]][id[j]] = j
    <3> SUFFICES ASSUME NEW j \in Calls, Holding(j)' PROVE tunnels'[Owner[j]][id[j]] = j
      OBVIOUS
    <3>1. Holding(j) /\ j # k /\ Going(j)
      BY <2>1 DEF Holding, Going
    <3>2. tunnels[Owner[j]][id[j]] = j /\ id[j] \in IDs
      BY <3>1, Placed DEF TunnelsOK
    <3> QED
      BY <1>5, <3>1, <3>2, EndFacts
  <2>5. \A j \in Calls : Going(j)' => tunnels'[Peer(j)][id[j]] = j
    <3> SUFFICES ASSUME NEW j \in Calls, Going(j)' PROVE tunnels'[Peer(j)][id[j]] = j
      OBVIOUS
    <3>1. tunnels[Peer(j)][id[j]] = j /\ id[j] \in IDs
      BY <2>1, Placed DEF TunnelsOK
    <3> QED
      BY <1>6, <3>1 DEF Kept
  <2> QED
    BY <2>2, <2>3, <2>4, <2>5 DEF TunnelsOK, Peer
<1>10. ASSUME NEW j \in Calls PROVE CallOK(j, id, place)'
  <2>1. CASE j = k
    BY <1>1, <1>2, <1>3, <2>1 DEF CallOK, InboundOK, Closed, UnderWay
  <2>2. CASE j # k
    BY <1>1, <1>3, <1>6, <2>2, CallSame DEF Closed
  <2> QED
    BY <2>1, <2>2
<1>11. ASSUME NEW j \in Calls PROVE ListenerOK(ListenEnd(j), j)'
  <2> DEFINE f == ListenEnd(j)
  <2>1. f \in Ends
    BY EndFacts
  <2> HIDE DEF f
  <2>2. ListenerOK(f, j)
    BY DEF f
  <2>3. CASE j = k /\ f = e
    <3>1. listening[f][Addr[j]] # j
      BY <1>1, <2>2, <2>3 DEF Created, Creating, ListenerOK, e
    <3>2. ~Created(f, j)'
      BY <1>5, <2>1, <2>3 DEF Created
    <3> QED
      BY <1>1, <3>1, <3>2 DEF ListenerOK, poolVars, f, ListenEnd
  <2>4. CASE ~(j = k /\ f = e)
    <3>1. \A i \in IDs : tunnels'[f][i] = j <=> tunnels[f][i] = j
      BY <1>5, <2>1, <2>4
    <3>2. Creating(f, j)' <=> Creating(f, j)
      BY <1>1, <1>3, <2>4 DEF Creating, e
    <3>3. ListenerOK(f, j)'
      BY <1>1, <2>1, <2>2, <3>1, <3>2, ListenerSame DEF poolVars
    <3> QED
      BY <3>3 DEF f, ListenEnd
  <2> QED
    BY <2>3, <2>4
<1>12. ASSUME NEW f \in Ends PROVE QueueOK(f, id, place)' /\ RxOK(f, id, place)'
  <2>1. \A j \in Calls : \A i \in IDs : tunnels'[f][i] = j => tunnels[f][i] = j
    BY <1>5
  <2> QED
    BY <1>1, <1>6, <2>1, QueueSame, RxSame
<1> QED
  BY <1>7, <1>8, <1>9, <1>10, <1>11, <1>12

-------------------------------------------------------------------------------
\* The steps of the receive loop.

LEMMA ReceiveRequestOK ==
  ASSUME NEW id \in [Calls -> IDs \cup {0}], NEW place \in [Calls -> Places], IInvOf(id, place),
         NEW e \in Ends, Receive(e), Head(queue[Other(e)]).type = "request"
  PROVE  \E id2 \in [Calls -> IDs \cup {0}], place2 \in [Calls -> Places] : IInvOf(id2, place2)'
<1> USE DEF IInvOf
<1> DEFINE o == Other(e)
           m == Head(queue[o])
           k == m.call
           n == NextTunnelID(e)
<1>1. /\ up /\ rx[e] = Idle /\ queue[o] # <<>>
      /\ curTunnel' = [curTunnel EXCEPT ![e] = n]
      /\ rx' = [rx EXCEPT ![e] = Handling("insert", m, n)]
      /\ inbound' = inbound
      /\ queue' = [queue EXCEPT ![o] = Tail(queue[o])]
      /\ UNCHANGED <<pc, result, sid, tid, curSession, sessions, tunnels, poolVars, up, shut>>
  BY DEF Receive, callVars
<1>2. o \in Ends /\ o # e /\ \A f \in Ends : f = e \/ f = o
  BY DEF Ends, Other
<1>3. /\ queue[o] \in Seq(Requests \cup Replies) /\ m = queue[o][1] /\ 1 \in DOMAIN queue[o]
      /\ Tail(queue[o]) \in Seq(Requests \cup Replies) /\ Len(Tail(queue[o])) <= Len(queue[o])
      /\ Len(queue[o]) \in Nat /\ Len(Tail(queue[o])) \in Nat
  <2>1. queue[o] \in Seq(Requests \cup Replies)
    BY <1>2 DEF Types
  <2> QED
    BY <2>1, <1>1
<1>4. m \in Requests /\ k \in Calls
  <2>1. m \in Requests \cup Replies
    BY <1>3
  <2> QED
    BY <2>1 DEF Requests, Replies
<1>5. Owner[k] = o /\ place[k] = "request" /\ m.session = sid[k]
  BY <1>2, <1>3 DEF QueueOK, MessageOK
<1>6. id[k] = 0 /\ Peer(k) = e /\ \A i \in IDs : \A f \in Ends : tunnels[f][i] # k
  BY <1>2, <1>4, <1>5, EndFacts, IDFacts DEF CallOK, TunnelsOK
<1>7. n = curTunnel[e] + 2 /\ n \in IDs /\ n % 2 = FirstID(e) % 2
  BY <1>4, <1>6, NextTunnel
<1>8. curTunnel[e] \in Nat /\ n \in Nat /\ n # 0 /\ curTunnel'[e] = n
      /\ \A f \in Ends \ {e} : curTunnel'[f] = curTunnel[f]
  BY <1>1, <1>7, TypeFacts, IDFacts
<1>9. shut[e] = "open"
  BY <1>1 DEF LinkOK, Types
<1>10. /\ rx'[e] = Handling("insert", m, n) /\ \A f \in Ends \ {e} : rx'[f] = rx[f]
       /\ queue'[o] = Tail(queue[o]) /\ queue'[e] = queue[e]
  BY <1>1, <1>2 DEF Types
<1>11. m.type = "request"
  OBVIOUS
<1> HIDE DEF o, m, n, k
<1>12. PICK id2 \in [Calls -> IDs \cup {0}] : id2 = [id EXCEPT ![k] = n]
  BY <1>7
<1>13. PICK place2 \in [Calls -> Places] : place2 = [place EXCEPT ![k] = "handled"]
  BY DEF Places
<1>14. /\ id2[k] = n /\ \A j \in Calls \ {k} : id2[j] = id[j]
       /\ place2[k] = "handled" /\ \A j \in Calls \ {k} : place2[j] = place[j]
  BY <1>4, <1>12, <1>13
<1>15. Types'
  <2>1. Handling("insert", m, n) \in Creations
    BY <1>4, <1>7 DEF Handling, Creations
  <2>2. rx' \in [Ends -> {Idle} \cup Creations \cup Answers] /\ curTunnel' \in [Ends -> IDs]
    BY <1>1, <1>7, <2>1 DEF Types
  <2>3. /\ queue' \in [Ends -> Seq(Requests \cup Replies)]
        /\ \A f \in Ends : Len(queue'[f]) <= Cap
    <3>1. queue' \in [Ends -> Seq(Requests \cup Replies)]
      BY <1>1, <1>3 DEF Types
    <3>2. Len(queue'[o]) <= Cap /\ Len(queue'[e]) <= Cap
      BY <1>2, <1>3, <1>10, CapAssumption DEF Types
    <3> QED
      BY <1>2, <3>1, <3>2
  <2> QED
    BY <1>1, <2>2, <2>3 DEF Types, poolVars
<1>16. CountersOK(id2)'
  <2> DEFINE S(f) == {j \in Calls : Owner[j] # f /\ id[j] # 0}
             T(f) == {j \in Calls : Owner[j] # f /\ id2[j] # 0}
  <2>1. curTunnel'[e] = FirstID(e) + 2 * Cardinality(T(e))
    <3>1. k \notin S(e) /\ T(e) = S(e) \cup {k}
      BY <1>2, <1>4, <1>5, <1>6, <1>8, <1>14
    <3>2. Cardinality(S(e)) \in Nat /\ Cardinality(T(e)) = Cardinality(S(e)) + 1
      BY <1>4, <3>1, OneMore
    <3>3. curTunnel[e] = FirstID(e) + 2 * Cardinality(S(e)) /\ FirstID(e) \in {1, 2}
      BY EndFacts DEF CountersOK
    <3> HIDE DEF S, T
    <3> QED
      BY <1>7, <1>8, <3>2, <3>3
  <2>2. curTunnel'[o] = FirstID(o) + 2 * Cardinality(T(o))
    <3>1. T(o) = S(o)
      BY <1>4, <1>5, <1>14
    <3> QED
      BY <1>2, <1>8, <3>1 DEF CountersOK
  <2>3. ASSUME NEW f \in Ends
        PROVE  /\ curSession'[f] = FirstID(f) + 2 * Cardinality({j \in Calls : Owner[j] = f /\ pc'[j] # "idle"})
               /\ curTunnel'[f] = FirstID(f) + 2 * Cardinality({j \in Calls : Owner[j] # f /\ id2[j] # 0})
    BY <1>1, <1>2, <2>1, <2>2 DEF CountersOK
  <2> HIDE DEF S, T
  <2> QED
    BY <2>3 DEF CountersOK, FirstID
<1>17. SessionsOK'
  BY <1>1, SessionsSame DEF Closed
<1>18. IdsOK(id2)'
  <2>1. ASSUME NEW j \in Calls, j # k, id[j] # 0, Owner[j] = Owner[k] PROVE id2[j] = id[j] /\ id[j] < n
    <3>1. Peer(j) = e
      BY <1>6, <2>1 DEF Peer
    <3>2. id[j] <= curTunnel[e] /\ id[j] \in Nat
      BY <2>1, <3>1, IDFacts DEF IdsOK
    <3> QED
      BY <1>7, <1>8, <1>14, <2>1, <3>2
  <2>2. ASSUME NEW j \in Calls, id2[j] # 0
        PROVE  id2[j] <= curTunnel'[Peer(j)] /\ id2[j] % 2 = FirstID(Peer(j)) % 2
    <3>1. CASE j = k
      BY <1>6, <1>7, <1>8, <1>14, <3>1
    <3>2. CASE j # k /\ Owner[j] = Owner[k]
      <4>1. Peer(j) = e
        BY <1>6, <3>2 DEF Peer
      <4>2. id[j] < n /\ id[j] % 2 = FirstID(Peer(j)) % 2 /\ id[j] \in Nat /\ id2[j] = id[j]
        BY <1>14, <2>1, <2>2, <3>2, IDFacts DEF IdsOK
      <4> QED
        BY <1>8, <4>1, <4>2
    <3>3. CASE j # k /\ Owner[j] # Owner[k]
      BY <1>2, <1>5, <1>6, <1>8, <1>14, <2>2, <3>3, <1>4, EndFacts DEF IdsOK
    <3> QED
      BY <3>1, <3>2, <3>3
  <2>3. ASSUME NEW i \in Calls, NEW j \in Calls, Owner[i] = Owner[j], id2[i] = id2[j], id2[j] # 0
        PROVE  i = j
    <3>1. CASE i # k /\ j # k
      BY <1>14, <2>3, <3>1 DEF IdsOK
    <3>2. CASE i = k /\ j # k
      BY <1>8, <1>14, <2>1, <2>3, <3>2
    <3>3. CASE i # k /\ j = k
      BY <1>8, <1>14, <2>1, <2>3, <3>3
    <3> QED
      BY <3>1, <3>2, <3>3
  <2> QED
    BY <2>2, <2>3 DEF IdsOK, FirstID, Peer
<1>19. TunnelsOK(id2)'
  <2>1. ~Going(k)
    BY <1>4, <1>5, Placed
  <2> QED
    BY <1>1, <1>6, <1>14, <2>1, TunnelsSame DEF Holding, Going
<1>20. ASSUME NEW j \in Calls PROVE CallOK(j, id2, place2)'
  <2>1. CASE j = k
    BY <1>1, <1>5, <1>6, <1>8, <1>14, <2>1 DEF CallOK, InboundOK, Closed, UnderWay
  <2>2. CASE j # k
    BY <1>1, <1>14, <2>2, CallSame DEF Kept, Closed
  <2> QED
    BY <2>1, <2>2
<1>21. ASSUME NEW j \in Calls PROVE ListenerOK(ListenEnd(j), j)'
  <2>1. \A f \in Ends : Creating(f, j)' <=> Creating(f, j)
    BY <1>1, <1>10 DEF Creating, Handling, Idle
  <2> QED
    BY <1>1, <2>1, EndFacts, ListenerSame DEF poolVars, ListenEnd
<1>22. QueueOK(o, id2, place2)' /\ QueueOK(e, id2, place2)'
  <2>1. \A j \in Calls \ {k} : place2[j] = place[j] /\ id2[j] = id[j] /\ sid'[j] = sid[j] /\ Kept(j, id)
    BY <1>1, <1>14 DEF Kept
  <2>2. Head(queue[o]).type = place[k] /\ Head(queue[o]).session = sid[k]
    BY <1>5, <1>11 DEF m
  <2>3. QueueOK(o, id2, place2)'
    BY <1>1, <1>2, <1>10, <2>1, <2>2, QueueTaken
  <2>4. ~Queued(e, k, place)
    BY <1>2, <1>5 DEF Queued
  <2> QED
    BY <1>2, <1>10, <2>1, <2>3, <2>4, QueueSame
<1>23. RxOK(o, id2, place2)' /\ RxOK(e, id2, place2)'
  <2>1. RxOK(o, id2, place2)'
    BY <1>1, <1>2, <1>5, <1>10, <1>14, RxSame DEF Kept
  <2>2. rx'[e].at = "insert" /\ rx'[e].msg = m /\ rx'[e].tunnel = n
    BY <1>10 DEF Handling
  <2>3. RxOK(e, id2, place2)'
    BY <1>1, <1>4, <1>5, <1>6, <1>7, <1>14, <2>2 DEF RxOK, CreationOK, Peer, k
  <2> QED
    BY <2>1, <2>3
<1>24. LinkOK'
  BY <1>1, <1>9, <1>10 DEF LinkOK, poolVars
<1>25. IInvOf(id2, place2)'
  <2>1. \A f \in Ends : QueueOK(f, id2, place2)' /\ RxOK(f, id2, place2)'
    BY <1>2, <1>22, <1>23
  <2> QED
    BY <1>15, <1>16, <1>17, <1>18, <1>19, <1>20, <1>21, <2>1, <1>24
<1> QED
  BY <1>25

LEMMA ReceiveResponseOK ==
  ASSUME NEW id \in [Calls -> IDs \cup {0}], NEW place \in [Calls -> Places], IInvOf(id, place),
         NEW e \in Ends, Receive(e), Head(queue[Other(e)]).type = "response"
  PROVE  \E place2 \in [Calls -> Places] : IInvOf(id, place2)'
<1> USE DEF IInvOf
<1> DEFINE o == Other(e)
           m == Head(queue[o])
           k == sessions[e][m.session]
<1>1. /\ up /\ rx[e] = Idle /\ queue[o] # <<>> /\ k # NoCall /\ inbound[k] = <<>>
      /\ inbound' = [inbound EXCEPT ![k] = <<m>>]
      /\ queue' = [queue EXCEPT ![o] = Tail(queue[o])]
      /\ UNCHANGED <<pc, result, sid, tid, curSession, sessions, curTunnel, tunnels, poolVars, rx, up, shut>>
  BY DEF Receive, callVars
<1>2. o \in Ends /\ o # e /\ \A f \in Ends : f = e \/ f = o
  BY DEF Ends, Other
<1>3. /\ queue[o] \in Seq(Requests \cup Replies) /\ m = queue[o][1] /\ 1 \in DOMAIN queue[o]
      /\ Tail(queue[o]) \in Seq(Requests \cup Replies) /\ Len(Tail(queue[o])) <= Len(queue[o])
      /\ Len(queue[o]) \in Nat /\ Len(Tail(queue[o])) \in Nat
  <2>1. queue[o] \in Seq(Requests \cup Replies)
    BY <1>2 DEF Types
  <2> QED
    BY <2>1, <1>1
<1>4. m \in Replies /\ m.session \in IDs /\ m.session # 0 /\ m.type = "response"
  <2>1. m \in Requests \cup Replies
    BY <1>3
  <2> QED
    BY <2>1, IDFacts DEF Requests, Replies
<1>5. k \in Calls /\ Owner[k] = e /\ sid[k] = m.session
  <2>1. k \in Calls
    BY <1>1, <1>4 DEF Types
  <2>2. \A j \in Calls : sessions[e][m.session] = j => Owner[j] = e /\ sid[j] = m.session
    BY <1>4 DEF SessionsOK
  <2> QED
    BY <2>1, <2>2
<1>6. place[k] = "response" /\ IsAnswer(k, m, id) /\ Peer(k) = o
  <2>1. PICK j \in Calls : Peer(j) = o /\ place[j] = "response" /\ IsAnswer(j, m, id)
    BY <1>2, <1>3 DEF QueueOK, MessageOK
  <2>2. Owner[j] = e /\ sid[j] = sid[k]
    BY <1>2, <1>5, <2>1, EndFacts DEF IsAnswer
  <2>3. j = k
    BY <1>4, <1>5, <2>2 DEF SessionsOK
  <2> QED
    BY <2>1, <2>3
<1>7. shut[e] = "open" /\ ~Closed(k) /\ pc[k] = "wait"
  <2>1. shut[e] = "open"
    BY <1>1 DEF LinkOK, Types
  <2> QED
    BY <1>5, <1>6, <2>1 DEF Closed, CallOK, UnderWay
<1>8. /\ queue'[o] = Tail(queue[o]) /\ queue'[e] = queue[e]
      /\ inbound'[k] = <<m>> /\ \A j \in Calls \ {k} : inbound'[j] = inbound[j]
  BY <1>1, <1>2, <1>5 DEF Types
<1> HIDE DEF o, m, k
<1>10. PICK place2 \in [Calls -> Places] : place2 = [place EXCEPT ![k] = "arrived"]
  BY DEF Places
<1>11. place2[k] = "arrived" /\ \A j \in Calls \ {k} : place2[j] = place[j]
  BY <1>5, <1>10
<1>12. Types'
  <2>1. inbound' \in [Calls -> Seq(Replies \cup {Nil})]
    <3>1. <<m>> \in Seq(Replies \cup {Nil})
      BY <1>4
    <3> QED
      BY <1>1, <3>1 DEF Types
  <2>2. /\ queue' \in [Ends -> Seq(Requests \cup Replies)]
        /\ \A f \in Ends : Len(queue'[f]) <= Cap
    <3>1. queue' \in [Ends -> Seq(Requests \cup Replies)]
      BY <1>1, <1>3 DEF Types
    <3>2. Len(queue'[o]) <= Cap /\ Len(queue'[e]) <= Cap
      BY <1>2, <1>3, <1>8, CapAssumption DEF Types
    <3> QED
      BY <1>2, <3>1, <3>2
  <2> QED
    BY <1>1, <2>1, <2>2 DEF Types, poolVars
<1>13. CountersOK(id)' /\ SessionsOK'
  BY <1>1, CountersSame, SessionsSame DEF Closed
<1>14. IdsOK(id)' /\ TunnelsOK(id)' /\ LinkOK'
  BY <1>1, TunnelsSame, LinkSame DEF IdsOK, Holding, Going, poolVars, FirstID
<1>15. ASSUME NEW j \in Calls PROVE CallOK(j, id, place2)'
  <2>1. CASE j = k
    <3>1. IsAnswer(j, m, id)
      BY <1>6, <2>1
    <3>2. PICK x \in Replies : x = m
      BY <1>4
    <3>3. IsAnswer(j, x, id)' /\ inbound'[j] = <<x>> /\ place2[j] = "arrived"
      BY <1>1, <1>8, <1>11, <2>1, <3>1, <3>2 DEF IsAnswer, Peer
    <3>4. InboundOK(j, id, place2)'
      BY <3>3 DEF InboundOK
    <3> QED
      BY <1>1, <1>4, <1>5, <1>6, <1>7, <1>11, <2>1, <3>4 DEF CallOK, UnderWay
  <2>2. CASE j # k
    BY <1>1, <1>8, <1>11, <2>2, CallSame DEF Kept, Closed
  <2> QED
    BY <2>1, <2>2
<1>16. \A j \in Calls : ListenerOK(ListenEnd(j), j)'
  BY <1>1, ListenersSame DEF poolVars
<1>17. QueueOK(o, id, place2)' /\ QueueOK(e, id, place2)'
  <2>1. \A j \in Calls \ {k} : place2[j] = place[j] /\ sid'[j] = sid[j] /\ Kept(j, id)
    BY <1>1, <1>11 DEF Kept
  <2>2. Head(queue[o]).type = place[k] /\ Head(queue[o]).session = sid[k]
    BY <1>4, <1>5, <1>6 DEF m
  <2>3. QueueOK(o, id, place2)'
    BY <1>1, <1>2, <1>8, <2>1, <2>2, QueueTaken
  <2>4. ~Queued(e, k, place)
    BY <1>2, <1>6 DEF Queued
  <2> QED
    BY <1>2, <1>8, <2>1, <2>3, <2>4, QueueSame
<1>18. \A f \in Ends : RxOK(f, id, place2)'
  BY <1>1, <1>6, <1>11, RxSame DEF Kept
<1>19. IInvOf(id, place2)'
  <2>1. \A f \in Ends : QueueOK(f, id, place2)' /\ RxOK(f, id, place2)'
    BY <1>2, <1>17, <1>18
  <2> QED
    BY <1>12, <1>13, <1>14, <1>15, <1>16, <2>1
<1> QED
  BY <1>19

LEMMA AnswerOK ==
  ASSUME NEW id \in [Calls -> IDs \cup {0}], NEW place \in [Calls -> Places], IInvOf(id, place),
         NEW e \in Ends, Answer(e)
  PROVE  \E place2 \in [Calls -> Places] : IInvOf(id, place2)'
<1> USE DEF IInvOf
<1>1. /\ rx[e].at = "answer" /\ shut[e] = "open" /\ Len(queue[e]) < Cap
      /\ queue' = [queue EXCEPT ![e] = Append(queue[e], rx[e].msg)]
      /\ rx' = [rx EXCEPT ![e] = Idle]
      /\ UNCHANGED <<pc, result, sid, tid, inbound, curSession, sessions, curTunnel, tunnels, poolVars, up, shut>>
  BY DEF Answer, callVars
<1>2. PICK k \in Calls : Peer(k) = e /\ place[k] = "answer" /\ IsAnswer(k, rx[e].msg, id)
  BY <1>1 DEF RxOK
<1>3. PICK m \in Replies : m = rx[e].msg
  BY <1>1, RxFacts
<1>4. /\ m.type = "response" /\ m.session = sid[k] /\ sid[k] # 0 /\ IsAnswer(k, m, id)
  BY <1>2, <1>3, IDFacts DEF Replies, IsAnswer
<1>5. PICK place2 \in [Calls -> Places] : place2 = [place EXCEPT ![k] = "response"]
  BY DEF Places
<1>6. place2[k] = "response" /\ \A j \in Calls \ {k} : place2[j] = place[j]
  BY <1>5
<1>7. /\ queue'[e] = Append(queue[e], m) /\ rx'[e] = Idle
      /\ \A f \in Ends \ {e} : queue'[f] = queue[f] /\ rx'[f] = rx[f]
  BY <1>1, <1>3 DEF Types
<1>8. Types'
  <2>1. queue[e] \in Seq(Requests \cup Replies) /\ Append(queue[e], m) \in Seq(Requests \cup Replies)
        /\ Len(Append(queue[e], m)) <= Cap
    BY <1>1, CapAssumption DEF Types
  <2>2. queue' \in [Ends -> Seq(Requests \cup Replies)] /\ \A f \in Ends : Len(queue'[f]) <= Cap
    BY <1>1, <1>3, <1>7, <2>1 DEF Types
  <2>3. rx' \in [Ends -> {Idle} \cup Creations \cup Answers]
    BY <1>1 DEF Types
  <2> QED
    BY <1>1, <2>2, <2>3 DEF Types, poolVars
<1>9. CountersOK(id)' /\ SessionsOK'
  BY <1>1, CountersSame, SessionsSame DEF Closed
<1>10. IdsOK(id)' /\ TunnelsOK(id)' /\ LinkOK'
  BY <1>1, <1>7, TunnelsSame DEF IdsOK, Holding, Going, poolVars, FirstID, LinkOK
<1>11. ASSUME NEW j \in Calls PROVE CallOK(j, id, place2)'
  <2>1. CASE j = k
    BY <1>1, <1>2, <1>6, <2>1 DEF CallOK, InboundOK, Closed, UnderWay
  <2>2. CASE j # k
    BY <1>1, <1>6, <2>2, CallSame DEF Kept, Closed
  <2> QED
    BY <2>1, <2>2
<1>12. ASSUME NEW j \in Calls PROVE ListenerOK(ListenEnd(j), j)'
  <2>1. \A f \in Ends : Creating(f, j)' <=> Creating(f, j)
    BY <1>1, <1>7 DEF Creating, Idle
  <2> QED
    BY <1>1, <2>1, EndFacts, ListenerSame DEF poolVars, ListenEnd
<1>13. ASSUME NEW f \in Ends PROVE QueueOK(f, id, place2)'
  <2>1. \A j \in Calls : Queued(f, j, place) => place2[j] = place[j] /\ sid'[j] = sid[j] /\ Kept(j, id)
    BY <1>1, <1>2, <1>6 DEF Queued, Kept
  <2>2. CASE f # e
    BY <1>7, <2>1, <2>2, QueueSame
  <2>3. CASE f = e
    <3>1. ASSUME NEW n \in DOMAIN queue[e], queue[e][n].type = m.type, queue[e][n].session = m.session
          PROVE  FALSE
      <4>1. PICK j \in Calls : Peer(j) = e /\ place[j] = "response" /\ IsAnswer(j, queue[e][n], id)
        BY <1>4, <3>1 DEF QueueOK, MessageOK
      <4>2. Owner[j] = Owner[k] /\ sid[j] = sid[k]
        BY <1>2, <1>4, <3>1, <4>1, EndFacts DEF IsAnswer
      <4> QED
        BY <1>2, <1>4, <4>1, <4>2 DEF SessionsOK
    <3>2. MessageOK(e, m, id, place2)'
      BY <1>1, <1>2, <1>4, <1>6 DEF MessageOK, IsAnswer, Peer
    <3> QED
      BY <1>7, <2>1, <2>3, <3>1, <3>2, QueueAppended
  <2> QED
    BY <2>2, <2>3
<1>14. ASSUME NEW f \in Ends PROVE RxOK(f, id, place2)'
  <2>1. CASE f = e
    BY <1>7, <2>1 DEF RxOK, Idle
  <2>2. CASE f # e
    BY <1>1, <1>2, <1>6, <1>7, <2>2, RxSame DEF Kept
  <2> QED
    BY <2>1, <2>2
<1>15. IInvOf(id, place2)'
  BY <1>8, <1>9, <1>10, <1>11, <1>12, <1>13, <1>14
<1> QED
  BY <1>15

\* What the receive loop knows while it creates the tunnel of a call.
LEMMA CreationFacts ==
  ASSUME NEW id \in [Calls -> IDs \cup {0}], NEW place \in [Calls -> Places], IInvOf(id, place),
         NEW e \in Ends, rx[e].at \in {"insert", "listen", "undo"}
  PROVE  \E k \in Calls, m \in Requests :
           /\ rx[e] = Handling(rx[e].at, m, id[k]) /\ m.call = k /\ m.session = sid[k]
           /\ rx[e].msg = m /\ rx[e].tunnel = id[k]
           /\ sid[k] \in IDs /\ id[k] \in IDs /\ id[k] # 0 /\ Peer(k) = e /\ Owner[k] # e
           /\ place[k] = "handled" /\ ~Going(k) /\ ~Holding(k)
           /\ IF rx[e].at = "insert" THEN \A i \in IDs : tunnels[e][i] # k
                                     ELSE tunnels[e][id[k]] = k
<1> USE DEF IInvOf
<1>1. /\ rx[e] = Handling(rx[e].at, rx[e].msg, rx[e].tunnel)
      /\ rx[e].msg \in Requests /\ rx[e].msg.call \in Calls
  BY RxFacts
<1>2. PICK k \in Calls : k = rx[e].msg.call
  BY <1>1
<1>3. CreationOK(e, k, id, place)
  BY <1>2 DEF RxOK
<1>4. ~Going(k) /\ ~Holding(k)
  BY <1>3, Placed DEF CreationOK, Holding, Going
<1>5. sid[k] \in IDs
  BY <1>1, <1>3 DEF CreationOK, Requests
<1> QED
  BY <1>1, <1>2, <1>3, <1>4, <1>5, EndFacts, IDFacts DEF CreationOK

LEMMA RemoteInsertOK ==
  ASSUME NEW id \in [Calls -> IDs \cup {0}], NEW place \in [Calls -> Places], IInvOf(id, place),
         NEW e \in Ends, RemoteInsert(e)
  PROVE  IInvOf(id, place)'
<1> USE DEF IInvOf
<1>1. /\ rx[e].at = "insert"
      /\ tunnels' = [tunnels EXCEPT ![e][rx[e].tunnel] = rx[e].msg.call]
      /\ rx' = [rx EXCEPT ![e] = Handling("listen", rx[e].msg, rx[e].tunnel)]
      /\ UNCHANGED <<pc, result, sid, tid, inbound, curSession, sessions, curTunnel, poolVars, queue, up, shut>>
  BY DEF RemoteInsert, callVars
<1>2. PICK k \in Calls, m \in Requests :
        /\ m.call = k /\ m.session = sid[k] /\ rx[e].msg = m /\ rx[e].tunnel = id[k]
        /\ id[k] \in IDs /\ id[k] # 0 /\ Peer(k) = e /\ Owner[k] # e
        /\ place[k] = "handled" /\ ~Going(k) /\ ~Holding(k)
        /\ \A i \in IDs : tunnels[e][i] # k
  BY <1>1, CreationFacts
<1>3. tunnels[e][id[k]] = NoCall
  BY <1>2, IdFree
<1>4. /\ tunnels' \in [Ends -> [IDs -> Calls \cup {NoCall}]]
      /\ \A f \in Ends : \A i \in IDs :
           tunnels'[f][i] = IF f = e /\ i = id[k] THEN k ELSE tunnels[f][i]
  BY <1>1, <1>2 DEF Types
<1>5. /\ rx'[e] = Handling("listen", m, id[k])
      /\ \A f \in Ends \ {e} : rx'[f] = rx[f]
  BY <1>1, <1>2 DEF Types
<1>6. \A j \in Calls : Kept(j, id)
  <2> SUFFICES ASSUME NEW j \in Calls, id[j] \in IDs, tunnels[Peer(j)][id[j]] = j
               PROVE  tunnels'[Peer(j)][id[j]] = j
    BY DEF Kept
  <2>1. Peer(j) \in Ends /\ j # NoCall
    BY EndFacts, CallAssumption
  <2> QED
    BY <1>3, <1>4, <2>1
<1>7. Types'
  <2>1. Handling("listen", m, id[k]) \in Creations
    BY <1>2 DEF Handling, Creations
  <2>2. rx' \in [Ends -> {Idle} \cup Creations \cup Answers]
    BY <1>1, <1>2, <2>1 DEF Types
  <2> QED
    BY <1>1, <1>4, <2>2 DEF Types, poolVars
<1>8. CountersOK(id)' /\ SessionsOK' /\ IdsOK(id)'
  BY <1>1, CountersSame, SessionsSame DEF Closed, IdsOK, FirstID
<1>9. LinkOK'
  <2>1. shut[e] = "open"
    BY <1>1, RxFacts DEF LinkOK, Types, Idle
  <2> QED
    BY <1>1, <1>5, <2>1 DEF LinkOK, poolVars
<1>10. TunnelsOK(id)'
  <2>1. \A j \in Calls : (Holding(j)' <=> Holding(j)) /\ (Going(j)' <=> Going(j)) /\ (Holding(j) => Going(j))
    BY <1>1 DEF Holding, Going
  <2>2. \A f \in Ends : \A i \in IDs : \A j \in Calls : tunnels'[f][i] = j => id[j] = i
    BY <1>4 DEF TunnelsOK
  <2>3. \A j \in Calls : \A i \in IDs : tunnels'[Owner[j]][i] = j => Holding(j)'
    BY <1>2, <1>4, <2>1, EndFacts DEF TunnelsOK
  <2>4. ASSUME NEW j \in Calls, Holding(j)' PROVE tunnels'[Owner[j]][id[j]] = j
    <3>1. tunnels[Owner[j]][id[j]] = j /\ id[j] \in IDs /\ j # NoCall
      BY <2>1, <2>4, Placed, CallAssumption DEF TunnelsOK
    <3> QED
      BY <1>3, <1>4, <3>1, EndFacts
  <2>5. ASSUME NEW j \in Calls, Going(j)' PROVE tunnels'[Peer(j)][id[j]] = j
    <3>1. tunnels[Peer(j)][id[j]] = j /\ id[j] \in IDs
      BY <2>1, <2>5, Placed DEF TunnelsOK
    <3> QED
      BY <1>6, <3>1 DEF Kept
  <2> QED
    BY <2>2, <2>3, <2>4, <2>5 DEF TunnelsOK, Peer
<1>11. ASSUME NEW j \in Calls PROVE CallOK(j, id, place)'
  BY <1>1, <1>6, CallSame DEF Closed
<1>12. ASSUME NEW j \in Calls PROVE ListenerOK(ListenEnd(j), j)'
  <2> DEFINE f == ListenEnd(j)
  <2>1. f \in Ends
    BY EndFacts
  <2> HIDE DEF f
  <2>2. ListenerOK(f, j)
    BY DEF f
  <2>3. CASE j = k /\ f = e
    <3>1. listening[f][Addr[j]] # j
      BY <1>2, <2>2, <2>3 DEF Created, ListenerOK
    <3>2. ~Created(f, j)'
      BY <1>2, <1>5, <2>3 DEF Created, Creating, Handling
    <3> QED
      BY <1>1, <3>1, <3>2 DEF ListenerOK, poolVars, f, ListenEnd
  <2>4. CASE ~(j = k /\ f = e)
    <3>1. \A i \in IDs : tunnels'[f][i] = j <=> tunnels[f][i] = j
      BY <1>3, <1>4, <2>1, <2>4, CallAssumption
    <3>2. Creating(f, j)' <=> Creating(f, j)
      BY <1>1, <1>2, <1>5, <2>1, <2>4 DEF Creating, Handling
    <3>3. ListenerOK(f, j)'
      BY <1>1, <2>1, <2>2, <3>1, <3>2, ListenerSame DEF poolVars
    <3> QED
      BY <3>3 DEF f, ListenEnd
  <2> QED
    BY <2>3, <2>4
<1>13. ASSUME NEW f \in Ends PROVE QueueOK(f, id, place)'
  BY <1>1, <1>6, QueueSame
<1>14. ASSUME NEW f \in Ends PROVE RxOK(f, id, place)'
  <2>1. CASE f = e
    <3>1. /\ rx'[e].at = "listen" /\ rx'[e].msg = m /\ rx'[e].tunnel = id[k]
          /\ tunnels'[e][id[k]] = k
      BY <1>2, <1>4, <1>5 DEF Handling
    <3> QED
      BY <1>1, <1>2, <2>1, <3>1 DEF RxOK, CreationOK, Peer
  <2>2. CASE f # e
    BY <1>1, <1>4, <1>5, <1>6, <2>2, RxSame
  <2> QED
    BY <2>1, <2>2
<1> QED
  BY <1>7, <1>8, <1>9, <1>10, <1>11, <1>12, <1>13, <1>14

LEMMA RemoteListenOK ==
  ASSUME NEW id \in [Calls -> IDs \cup {0}], NEW place \in [Calls -> Places], IInvOf(id, place),
         NEW e \in Ends, RemoteListen(e)
  PROVE  \E place2 \in [Calls -> Places] : IInvOf(id, place2)'
<1> USE DEF IInvOf
<1>1. /\ rx[e].at = "listen"
      /\ UNCHANGED <<pc, result, sid, tid, inbound, curSession, sessions, curTunnel, tunnels, sweep, robbed, queue, up, shut>>
  BY DEF RemoteListen, callVars
<1>2. PICK k \in Calls, m \in Requests :
        /\ m.call = k /\ m.session = sid[k] /\ rx[e].msg = m /\ rx[e].tunnel = id[k]
        /\ sid[k] \in IDs /\ id[k] \in IDs /\ id[k] # 0 /\ Peer(k) = e /\ Owner[k] # e
        /\ place[k] = "handled" /\ ~Going(k) /\ ~Holding(k)
        /\ tunnels[e][id[k]] = k
  BY <1>1, CreationFacts
<1>3. PICK listens \in {"none", "ok", "error"} :
        /\ Listen(e, k, listens)
        /\ rx' = [rx EXCEPT ![e] = IF listens = "error" THEN Handling("undo", m, id[k])
                                   ELSE Answering(m, "success", id[k])]
  BY <1>2 DEF RemoteListen
<1>4. /\ rx'[e] = IF listens = "error" THEN Handling("undo", m, id[k])
                  ELSE Answering(m, "success", id[k])
      /\ \A f \in Ends \ {e} : rx'[f] = rx[f]
  BY <1>3 DEF Types
<1>5. /\ listening' \in [Ends -> [Addrs -> Calls \cup {NoCall}]]
      /\ listens = "ok" => /\ ListenEnd(k) = e /\ listening[e][Addr[k]] = NoCall
                           /\ listening'[e][Addr[k]] = k
                           /\ \A f \in Ends : \A a \in Addrs :
                                f # e \/ a # Addr[k] => listening'[f][a] = listening[f][a]
      /\ listens # "ok" => listening' = listening
      /\ listens = "none" <=> ListenEnd(k) # e
  BY <1>3, ListenFacts
<1>6. PICK place2 \in [Calls -> Places] :
        place2 = IF listens = "error" THEN place ELSE [place EXCEPT ![k] = "answer"]
  BY DEF Places
<1>7. /\ place2[k] = IF listens = "error" THEN "handled" ELSE "answer"
      /\ \A j \in Calls \ {k} : place2[j] = place[j]
  BY <1>2, <1>6
<1>8. Types'
  <2>1. Handling("undo", m, id[k]) \in Creations
    BY <1>2 DEF Handling, Creations
  <2>2. Answering(m, "success", id[k]) \in Answers
    BY <1>2 DEF Answering, Answers, Response, Replies
  <2>3. rx' \in [Ends -> {Idle} \cup Creations \cup Answers]
    BY <1>3, <2>1, <2>2 DEF Types
  <2> QED
    BY <1>1, <1>5, <2>3 DEF Types
<1>9. CountersOK(id)' /\ SessionsOK' /\ IdsOK(id)' /\ TunnelsOK(id)'
  BY <1>1, CountersSame, SessionsSame, TunnelsSame DEF Closed, IdsOK, FirstID, Holding, Going
<1>10. LinkOK'
  <2>1. shut[e] = "open"
    BY <1>1, RxFacts DEF LinkOK, Types, Idle
  <2> QED
    BY <1>1, <1>4, <2>1 DEF LinkOK
<1>11. ASSUME NEW j \in Calls PROVE CallOK(j, id, place2)'
  <2>1. CASE j = k
    BY <1>1, <1>2, <1>7, <2>1 DEF CallOK, InboundOK, Closed, UnderWay
  <2>2. CASE j # k
    BY <1>1, <1>7, <2>2, CallSame DEF Kept, Closed
  <2> QED
    BY <2>1, <2>2
<1>12. ASSUME NEW j \in Calls PROVE ListenerOK(ListenEnd(j), j)'
  <2> DEFINE f == ListenEnd(j)
  <2>1. f \in Ends /\ Addr[j] \in Addrs
    BY EndFacts, CallAssumption
  <2> HIDE DEF f
  <2>2. ListenerOK(f, j)
    BY DEF f
  <2>3. CASE j = k /\ f = e
    <3>1. listening[f][Addr[j]] # j
      BY <1>1, <1>2, <2>2, <2>3 DEF ListenerOK, Created, Creating
    <3>2. CASE listens = "ok"
      <4>1. Created(f, j)' /\ listening'[f][Addr[j]] = j
        BY <1>1, <1>2, <1>4, <1>5, <2>3, <3>2 DEF Created, Creating, Answering
      <4> QED
        BY <4>1 DEF ListenerOK, f, ListenEnd
    <3>3. CASE listens # "ok"
      <4>1. listens = "error" /\ listening' = listening
        BY <1>3, <1>5, <2>3, <3>3 DEF f
      <4>2. ~Created(f, j)'
        BY <1>2, <1>4, <4>1, <2>3 DEF Created, Creating, Handling
      <4> QED
        BY <3>1, <4>1, <4>2 DEF ListenerOK, f, ListenEnd
    <3> QED
      BY <3>2, <3>3
  <2>4. CASE ~(j = k /\ f = e)
    <3>1. Creating(f, j)' <=> Creating(f, j)
      BY <1>1, <1>2, <1>4, <2>1, <2>4 DEF Creating, Handling, Answering
    <3>2. CASE listening'[f][Addr[j]] = listening[f][Addr[j]]
      <4>1. ListenerOK(f, j)'
        BY <1>1, <2>1, <2>2, <3>1, <3>2, ListenerSame
      <4> QED
        BY <4>1 DEF f, ListenEnd
    <3>3. CASE listening'[f][Addr[j]] # listening[f][Addr[j]]
      <4>1. f = e /\ listening[f][Addr[j]] = NoCall /\ listening'[f][Addr[j]] = k /\ j # k
        BY <1>5, <2>1, <2>4, <3>3
      <4>2. Created(f, j)' => Created(f, j)
        BY <1>1, <3>1 DEF Created
      <4> QED
        BY <1>1, <2>2, <4>1, <4>2, CallAssumption DEF ListenerOK, f, ListenEnd
    <3> QED
      BY <3>2, <3>3
  <2> QED
    BY <2>3, <2>4
<1>13. ASSUME NEW f \in Ends PROVE QueueOK(f, id, place2)'
  BY <1>1, <1>2, <1>7, QueueSame DEF Queued, Kept
<1>14. ASSUME NEW f \in Ends PROVE RxOK(f, id, place2)'
  <2>1. CASE f = e /\ listens = "error"
    <3>1. rx'[e].at = "undo" /\ rx'[e].msg = m /\ rx'[e].tunnel = id[k]
      BY <1>4, <2>1 DEF Handling
    <3> QED
      BY <1>1, <1>2, <1>7, <2>1, <3>1 DEF RxOK, CreationOK, Peer
  <2>2. CASE f = e /\ listens # "error"
    <3>1. /\ rx'[e].at = "answer" /\ rx'[e].msg.session = sid[k]
          /\ rx'[e].msg.tunnel = id[k]
      BY <1>2, <1>4, <2>2 DEF Answering, Response
    <3> QED
      BY <1>1, <1>2, <1>7, <2>2, <3>1 DEF RxOK, IsAnswer, Peer
  <2>3. CASE f # e
    BY <1>1, <1>2, <1>4, <1>7, <2>3, RxSame DEF Kept
  <2> QED
    BY <2>1, <2>2, <2>3
<1>15. IInvOf(id, place2)'
  BY <1>8, <1>9, <1>10, <1>11, <1>12, <1>13, <1>14
<1> QED
  BY <1>15

LEMMA RemoteUndoOK ==
  ASSUME NEW id \in [Calls -> IDs \cup {0}], NEW place \in [Calls -> Places], IInvOf(id, place),
         NEW e \in Ends, RemoteUndo(e)
  PROVE  \E place2 \in [Calls -> Places] : IInvOf(id, place2)'
<1> USE DEF IInvOf
<1>1. /\ rx[e].at = "undo"
      /\ tunnels' = [tunnels EXCEPT ![e][rx[e].tunnel] = NoCall]
      /\ UNCHANGED <<pc, result, sid, tid, inbound, curSession, sessions, curTunnel, poolVars, queue, up, shut>>
  BY DEF RemoteUndo, Undo, callVars
<1>2. PICK k \in Calls, m \in Requests :
        /\ m.call = k /\ m.session = sid[k] /\ rx[e].msg = m /\ rx[e].tunnel = id[k]
        /\ sid[k] \in IDs /\ id[k] \in IDs /\ id[k] # 0 /\ Peer(k) = e /\ Owner[k] # e
        /\ place[k] = "handled" /\ ~Going(k) /\ ~Holding(k)
        /\ tunnels[e][id[k]] = k
  BY <1>1, CreationFacts
<1>3. /\ rx' = [rx EXCEPT ![e] = Answering(m, "create-tunnel-failed", id[k])]
      /\ rx'[e] = Answering(m, "create-tunnel-failed", id[k])
      /\ \A f \in Ends \ {e} : rx'[f] = rx[f]
  BY <1>2 DEF RemoteUndo, Types
<1>4. /\ tunnels' \in [Ends -> [IDs -> Calls \cup {NoCall}]]
      /\ \A f \in Ends : \A i \in IDs :
           tunnels'[f][i] = IF f = e /\ i = id[k] THEN NoCall ELSE tunnels[f][i]
  BY <1>1, <1>2 DEF Types
<1>5. \A f \in Ends : \A i \in IDs : \A j \in Calls :
        tunnels'[f][i] = j <=> tunnels[f][i] = j /\ ~(j = k /\ f = e)
  BY <1>2, <1>4, CallAssumption DEF TunnelsOK
<1>6. \A j \in Calls \ {k} : Kept(j, id)
  BY <1>5, EndFacts DEF Kept
<1>7. PICK place2 \in [Calls -> Places] : place2 = [place EXCEPT ![k] = "answer"]
  BY DEF Places
<1>8. place2[k] = "answer" /\ \A j \in Calls \ {k} : place2[j] = place[j]
  BY <1>7
<1>9. Types'
  <2>1. Answering(m, "create-tunnel-failed", id[k]) \in Answers
    BY <1>2 DEF Answering, Answers, Response, Replies
  <2>2. rx' \in [Ends -> {Idle} \cup Creations \cup Answers]
    BY <1>3, <2>1 DEF Types
  <2> QED
    BY <1>1, <1>4, <2>2 DEF Types, poolVars
<1>10. CountersOK(id)' /\ SessionsOK' /\ IdsOK(id)'
  BY <1>1, CountersSame, SessionsSame DEF Closed, IdsOK, FirstID
<1>11. LinkOK'
  <2>1. shut[e] = "open"
    BY <1>1, RxFacts DEF LinkOK, Types, Idle
  <2> QED
    BY <1>1, <1>3, <2>1 DEF LinkOK, poolVars
<1>12. TunnelsOK(id)'
  <2>1. \A j \in Calls : (Holding(j)' <=> Holding(j)) /\ (Going(j)' <=> Going(j)) /\ (Holding(j) => Going(j))
    BY <1>1 DEF Holding, Going
  <2>2. \A f \in Ends : \A i \in IDs : \A j \in Calls : tunnels'[f][i] = j => id[j] = i
    BY <1>5 DEF TunnelsOK
  <2>3. \A j \in Calls : \A i \in IDs : tunnels'[Owner[j]][i] = j => Holding(j)'
    BY <1>5, <2>1, EndFacts DEF TunnelsOK
  <2>4. ASSUME NEW j \in Calls, Holding(j)' PROVE tunnels'[Owner[j]][id[j]] = j
    <3>1. tunnels[Owner[j]][id[j]] = j /\ id[j] \in IDs
      BY <2>1, <2>4, Placed DEF TunnelsOK
    <3> QED
      BY <1>2, <1>5, <3>1, EndFacts
  <2>5. ASSUME NEW j \in Calls, Going(j)' PROVE tunnels'[Peer(j)][id[j]] = j
    <3>1. tunnels[Peer(j)][id[j]] = j /\ id[j] \in IDs /\ j # k
      BY <1>2, <2>1, <2>5, Placed DEF TunnelsOK
    <3> QED
      BY <1>6, <3>1 DEF Kept
  <2> QED
    BY <2>2, <2>3, <2>4, <2>5 DEF TunnelsOK, Peer
<1>13. ASSUME NEW j \in Calls PROVE CallOK(j, id, place2)'
  <2>1. CASE j = k
    BY <1>1, <1>2, <1>8, <2>1 DEF CallOK, InboundOK, Closed, UnderWay
  <2>2. CASE j # k
    BY <1>1, <1>6, <1>8, <2>2, CallSame DEF Closed
  <2> QED
    BY <2>1, <2>2
<1>14. ASSUME NEW j \in Calls PROVE ListenerOK(ListenEnd(j), j)'
  <2> DEFINE f == ListenEnd(j)
  <2>1. f \in Ends
    BY EndFacts
  <2> HIDE DEF f
  <2>2. ListenerOK(f, j)
    BY DEF f
  <2>3. CASE j = k /\ f = e
    <3>1. listening[f][Addr[j]] # j
      BY <1>1, <1>2, <2>2, <2>3 DEF Created, Creating, ListenerOK
    <3>2. ~Created(f, j)'
      BY <1>5, <2>1, <2>3 DEF Created
    <3> QED
      BY <1>1, <3>1, <3>2 DEF ListenerOK, poolVars, f, ListenEnd
  <2>4. CASE ~(j = k /\ f = e)
    <3>1. \A i \in IDs : tunnels'[f][i] = j <=> tunnels[f][i] = j
      BY <1>5, <2>1, <2>4
    <3>2. Creating(f, j)' <=> Creating(f, j)
      BY <1>1, <1>2, <1>3, <2>1, <2>4 DEF Creating, Answering
    <3>3. ListenerOK(f, j)'
      BY <1>1, <2>1, <2>2, <3>1, <3>2, ListenerSame DEF poolVars
    <3> QED
      BY <3>3 DEF f, ListenEnd
  <2> QED
    BY <2>3, <2>4
<1>15. ASSUME NEW f \in Ends PROVE QueueOK(f, id, place2)'
  BY <1>1, <1>2, <1>6, <1>8, QueueSame DEF Queued
<1>16. ASSUME NEW f \in Ends PROVE RxOK(f, id, place2)'
  <2>1. CASE f = e
    <3>1. /\ rx'[e].at = "answer" /\ rx'[e].msg.session = sid[k] /\ rx'[e].msg.tunnel = id[k]
          /\ rx'[e].msg.status = "create-tunnel-failed"
      BY <1>2, <1>3 DEF Answering, Response
    <3> QED
      BY <1>1, <1>2, <1>8, <2>1, <3>1 DEF RxOK, IsAnswer, Peer
  <2>2. CASE f # e
    <3>1. \A j \in Calls : \A i \in IDs : tunnels'[f][i] = j => tunnels[f][i] = j
      BY <1>5
    <3> QED
      BY <1>1, <1>2, <1>3, <1>6, <1>8, <2>2, <3>1, RxSame
  <2> QED
    BY <2>1, <2>2
<1>17. IInvOf(id, place2)'
  BY <1>9, <1>10, <1>11, <1>12, <1>13, <1>14, <1>15, <1>16
<1> QED
  BY <1>17

-------------------------------------------------------------------------------
\* The steps of the link.

\* A step that leaves the calls, the tunnels and the messages alone.
LEMMA LinkStepSame ==
  ASSUME NEW id \in [Calls -> IDs \cup {0}], NEW place \in [Calls -> Places], IInvOf(id, place),
         UNCHANGED <<callVars, inbound, curSession, sessions, curTunnel, tunnels, queue, rx>>,
         \A k \in Calls : Closed(k)' <=> Closed(k)
  PROVE  /\ CountersOK(id)' /\ SessionsOK' /\ IdsOK(id)' /\ TunnelsOK(id)'
         /\ \A k \in Calls : CallOK(k, id, place)' /\ (\A e \in Ends : Creating(e, k)' <=> Creating(e, k))
         /\ \A e \in Ends : QueueOK(e, id, place)' /\ RxOK(e, id, place)'
<1> USE DEF IInvOf
<1>1. UNCHANGED <<pc, result, sid, tid>>
  BY DEF callVars
<1>2. CountersOK(id)' /\ SessionsOK' /\ IdsOK(id)' /\ TunnelsOK(id)'
  BY <1>1, CountersSame, SessionsSame, TunnelsSame DEF IdsOK, FirstID, Holding, Going
<1>3. ASSUME NEW k \in Calls
      PROVE  CallOK(k, id, place)' /\ (\A e \in Ends : Creating(e, k)' <=> Creating(e, k))
  BY <1>1, CallSame DEF Kept, Creating
<1>4. ASSUME NEW e \in Ends PROVE QueueOK(e, id, place)' /\ RxOK(e, id, place)'
  BY <1>1, QueueSame, RxSame DEF Kept
<1> QED
  BY <1>2, <1>3, <1>4

LEMMA SizedFacts ==
  ASSUME Types, NEW e \in Ends
  PROVE  /\ Listening(e) \in SUBSET Addrs
         /\ Cardinality(Listening(e)) \in 0 .. Cardinality(Addrs)
<1>1. Listening(e) \subseteq Addrs
  BY DEF Listening
<1>2. /\ Cardinality(Listening(e)) \in Nat /\ Cardinality(Addrs) \in Nat
      /\ Cardinality(Listening(e)) <= Cardinality(Addrs)
  BY <1>1, FiniteAssumption, FS_Subset, FS_CardinalityType
<1> QED
  BY <1>1, <1>2

LEMMA BreakOK ==
  ASSUME NEW id \in [Calls -> IDs \cup {0}], NEW place \in [Calls -> Places], IInvOf(id, place), Break
  PROVE  IInvOf(id, place)'
<1> USE DEF IInvOf
<1>1. /\ up /\ up' = FALSE
      /\ UNCHANGED <<callVars, inbound, curSession, sessions, curTunnel, tunnels, poolVars, queue, rx, shut>>
  BY DEF Break
<1>2. Types' /\ LinkOK'
  BY <1>1 DEF Types, LinkOK, callVars, poolVars
<1>3. ASSUME NEW k \in Calls PROVE ListenerOK(ListenEnd(k), k)'
  BY <1>1, LinkStepSame, ListenerSame, EndFacts DEF poolVars, Closed, ListenEnd
<1> QED
  BY <1>1, <1>2, <1>3, LinkStepSame DEF Closed

LEMMA CloseOutboundOK ==
  ASSUME NEW id \in [Calls -> IDs \cup {0}], NEW place \in [Calls -> Places], IInvOf(id, place),
         NEW e \in Ends, CloseOutbound(e)
  PROVE  IInvOf(id, place)'
<1> USE DEF IInvOf
<1>1. /\ ~up /\ rx[e] = Idle /\ shut[e] = "open"
      /\ shut' = [shut EXCEPT ![e] = "closing"]
      /\ sweep' = [sweep EXCEPT ![e]["own"] = [NotSwept EXCEPT !.at = "sized",
                                                               !.size = Cardinality(Listening(e))]]
      /\ UNCHANGED <<callVars, inbound, curSession, sessions, curTunnel, tunnels, listening, robbed, queue, rx, up>>
  BY DEF CloseOutbound, Sized
<1>2. /\ shut' \in [Ends -> {"open", "closing", "closed"}]
      /\ shut'[e] = "closing" /\ \A f \in Ends \ {e} : shut'[f] = shut[f] /\ sweep'[f] = sweep[f]
  BY <1>1 DEF Types
<1>3. sweep' \in [Ends -> [Links -> [at : {"no", "sized", "stuck", "delete"},
                                     size : 0 .. Cardinality(Addrs), todo : SUBSET Addrs]]]
  BY <1>1, SizedFacts DEF Types, NotSwept
<1>4. Types'
  BY <1>1, <1>2, <1>3 DEF Types, callVars
<1>5. LinkOK'
  BY <1>1, <1>2 DEF LinkOK
<1>6. \A k \in Calls : Closed(k)' <=> Closed(k)
  BY <1>1, <1>2, EndFacts DEF Closed
<1>7. ASSUME NEW k \in Calls PROVE ListenerOK(ListenEnd(k), k)'
  <2>1. \A f \in Ends : shut[f] # "open" => shut'[f] # "open"
    BY <1>2
  <2> QED
    BY <1>1, <1>6, <2>1, LinkStepSame, ListenerSame, EndFacts DEF ListenEnd
<1> QED
  BY <1>1, <1>4, <1>5, <1>6, <1>7, LinkStepSame

Sweeps == [Ends -> [Links -> [at : {"no", "sized", "stuck", "delete"},
                              size : 0 .. Cardinality(Addrs), todo : SUBSET Addrs]]]

\* A step of the close of a link that has not taken a listener away.
LEMMA SweepOnlyOK ==
  ASSUME NEW id \in [Calls -> IDs \cup {0}], NEW place \in [Calls -> Places], IInvOf(id, place),
         UNCHANGED <<callVars, inbound, curSession, sessions, curTunnel, tunnels, listening, robbed,
                     queue, rx, up, shut>>,
         sweep' \in Sweeps,
         \A e \in Ends : sweep[e]["own"].at = "no" => sweep'[e]["own"].at = "no"
  PROVE  IInvOf(id, place)'
<1> USE DEF IInvOf
<1>1. Types' /\ LinkOK'
  BY DEF Types, LinkOK, callVars, Sweeps
<1>2. ASSUME NEW k \in Calls PROVE ListenerOK(ListenEnd(k), k)'
  BY LinkStepSame, ListenerSame, EndFacts DEF Closed, ListenEnd
<1> QED
  BY <1>1, <1>2, LinkStepSame DEF Closed

LEMMA CloseOtherOK ==
  ASSUME NEW id \in [Calls -> IDs \cup {0}], NEW place \in [Calls -> Places], IInvOf(id, place),
         NEW e \in Ends, CloseOther(e)
  PROVE  IInvOf(id, place)'
<1>1. sweep \in Sweeps
  BY DEF IInvOf, Types, Sweeps
<1>2. sweep' = [sweep EXCEPT ![e]["other"] = [NotSwept EXCEPT !.at = "sized",
                                                              !.size = Cardinality(Listening(e))]]
  BY DEF CloseOther, Sized
<1>3. sweep' \in Sweeps
  BY <1>1, <1>2, SizedFacts DEF Sweeps, NotSwept, IInvOf
<1>4. \A f \in Ends : sweep'[f]["own"] = sweep[f]["own"]
  BY <1>1, <1>2 DEF Sweeps, Links
<1> QED
  BY <1>3, <1>4, SweepOnlyOK DEF CloseOther

LEMMA CollectOK ==
  ASSUME NEW id \in [Calls -> IDs \cup {0}], NEW place \in [Calls -> Places], IInvOf(id, place),
         NEW e \in Ends, NEW w \in Links, Collect(e, w)
  PROVE  IInvOf(id, place)'
<1>1. sweep \in Sweeps
  BY DEF IInvOf, Types, Sweeps
<1>2. PICK s \in [at : {"stuck", "delete"}, size : {0}, todo : SUBSET Addrs] :
        sweep' = [sweep EXCEPT ![e][w] = s]
  <2>1. CASE Cardinality(Listening(e)) > sweep[e][w].size + 1
    <3>1. sweep' = [sweep EXCEPT ![e][w] = [NotSwept EXCEPT !.at = "stuck"]]
      BY <1>1, <2>1 DEF Collect, Sweeps
    <3> QED
      BY <3>1 DEF NotSwept
  <2>2. CASE ~(Cardinality(Listening(e)) > sweep[e][w].size + 1)
    <3>1. sweep' = [sweep EXCEPT ![e][w] = [NotSwept EXCEPT !.at = "delete", !.todo = Listening(e)]]
      BY <1>1, <2>2 DEF Collect, Sweeps
    <3> QED
      BY <3>1, SizedFacts DEF NotSwept, IInvOf
  <2> QED
    BY <2>1, <2>2
<1>3. s \in [at : {"no", "sized", "stuck", "delete"}, size : 0 .. Cardinality(Addrs), todo : SUBSET Addrs]
  BY FiniteAssumption, FS_CardinalityType
<1>4. sweep' \in Sweeps
  BY <1>1, <1>2, <1>3 DEF Sweeps
<1>5. \A f \in Ends : sweep[f]["own"].at = "no" => sweep'[f]["own"].at = "no"
  BY <1>1, <1>2 DEF Sweeps, Links, Collect
<1> QED
  BY <1>4, <1>5, SweepOnlyOK DEF Collect

\* Another link takes the listener of a call away, and robs it; or the link itself does,
\* which is being closed.
LEMMA DeleteListenerOK ==
  ASSUME NEW id \in [Calls -> IDs \cup {0}], NEW place \in [Calls -> Places], IInvOf(id, place),
         NEW e \in Ends, NEW w \in Links, DeleteListener(e, w)
  PROVE  IInvOf(id, place)'
<1> USE DEF IInvOf
<1>1. /\ sweep[e][w].at = "delete"
      /\ UNCHANGED <<callVars, inbound, curSession, sessions, curTunnel, tunnels, queue, rx, up, shut>>
  BY DEF DeleteListener
<1>2. PICK a \in sweep[e][w].todo :
        /\ sweep' = [sweep EXCEPT ![e][w].todo = @ \ {a}]
        /\ listening' = [listening EXCEPT ![e][a] = NoCall]
        /\ robbed' = robbed \cup (IF w = "other" THEN {listening[e][a]} \ {NoCall} ELSE {})
  BY DEF DeleteListener
<1>3. sweep \in Sweeps /\ a \in Addrs
  BY <1>2 DEF Types, Sweeps
<1>4. sweep' \in Sweeps /\ \A f \in Ends : sweep'[f]["own"].at = sweep[f]["own"].at
  BY <1>2, <1>3 DEF Sweeps, Links
<1>5. /\ listening' \in [Ends -> [Addrs -> Calls \cup {NoCall}]]
      /\ \A f \in Ends : \A b \in Addrs :
           listening'[f][b] = IF f = e /\ b = a THEN NoCall ELSE listening[f][b]
  BY <1>2, <1>3 DEF Types
<1>6. robbed' \subseteq Calls /\ robbed \subseteq robbed'
  BY <1>2, <1>3 DEF Types
<1>7. Types' /\ LinkOK'
  <2>1. Types'
    BY <1>1, <1>4, <1>5, <1>6 DEF Types, callVars, Sweeps
  <2>2. LinkOK'
    BY <1>1, <1>4 DEF LinkOK
  <2> QED
    BY <2>1, <2>2
<1>8. ASSUME NEW k \in Calls PROVE ListenerOK(ListenEnd(k), k)'
  <2> DEFINE f == ListenEnd(k)
  <2>1. f \in Ends /\ Addr[k] \in Addrs
    BY EndFacts, CallAssumption
  <2>2. Creating(f, k)' <=> Creating(f, k)
    BY <1>1, <2>1, LinkStepSame DEF Closed
  <2> HIDE DEF f
  <2>3. ListenerOK(f, k)
    BY DEF f
  <2>4. ListenerOK(f, k)'
    <3>1. CASE f = e /\ Addr[k] = a /\ listening[e][a] = k
      <4>1. k \in robbed' \/ shut'[e] # "open"
        BY <1>1, <1>2, <3>1, CallAssumption DEF LinkOK, Links
      <4>2. listening'[f][Addr[k]] # k
        BY <1>5, <2>1, <3>1, CallAssumption
      <4> QED
        BY <3>1, <4>1, <4>2 DEF ListenerOK
    <3>2. CASE f = e /\ Addr[k] = a /\ listening[e][a] # k
      <4>1. listening'[f][Addr[k]] # k /\ listening[f][Addr[k]] # k
        BY <1>5, <2>1, <3>2, CallAssumption
      <4>2. Created(f, k)' <=> Created(f, k)
        BY <1>1, <2>2 DEF Created
      <4> QED
        BY <1>1, <1>6, <2>3, <4>1, <4>2 DEF ListenerOK
    <3>3. CASE ~(f = e /\ Addr[k] = a)
      <4>1. listening'[f][Addr[k]] = listening[f][Addr[k]]
        BY <1>5, <2>1, <3>3
      <4> QED
        BY <1>1, <1>6, <2>1, <2>2, <2>3, <4>1, ListenerSame
    <3> QED
      BY <3>1, <3>2, <3>3
  <2> QED
    BY <2>4 DEF f, ListenEnd
<1> QED
  BY <1>1, <1>7, <1>8, LinkStepSame DEF Closed

LEMMA AppendToOne == ASSUME NEW a, NEW b PROVE Append(<<a>>, b) = <<a, b>>
<1>1. <<a>> \in Seq({a, b}) /\ <<a, b>> \in Seq({a, b}) /\ Len(<<a>>) = 1 /\ Len(<<a, b>>) = 2
  OBVIOUS
<1>2. /\ Append(<<a>>, b) \in Seq({a, b}) /\ Len(Append(<<a>>, b)) = 2
      /\ Append(<<a>>, b)[1] = a /\ Append(<<a>>, b)[2] = b
  BY <1>1, AppendProperties
<1>3. \A i \in 1 .. Len(<<a, b>>) : Append(<<a>>, b)[i] = <<a, b>>[i]
  BY <1>1, <1>2
<1> DEFINE s == Append(<<a>>, b)
           t == <<a, b>>
<1>4. s \in Seq({a, b}) /\ t \in Seq({a, b}) /\ Len(s) = Len(t) /\ \A i \in 1 .. Len(s) : s[i] = t[i]
  BY <1>1, <1>2, <1>3
<1> HIDE DEF s, t
<1>5. s = t
  BY <1>4, SeqEqual
<1> QED
  BY <1>5 DEF s, t

\* The calls that are woken have an open channel until then, and only theirs is closed.
LEMMA CloseSessionsOK ==
  ASSUME NEW id \in [Calls -> IDs \cup {0}], NEW place \in [Calls -> Places], IInvOf(id, place),
         NEW e \in Ends, CloseSessions(e)
  PROVE  IInvOf(id, place)'
<1> USE DEF IInvOf
<1>1. /\ shut[e] = "closing"
      /\ shut' = [shut EXCEPT ![e] = "closed"]
      /\ inbound' = [k \in Calls |-> IF k \in Woken(e) THEN Append(inbound[k], Nil) ELSE inbound[k]]
      /\ sessions' = [sessions EXCEPT ![e] = [i \in IDs |-> NoCall]]
      /\ UNCHANGED <<pc, result, sid, tid, curSession, curTunnel, tunnels, poolVars, queue, rx, up>>
  BY DEF CloseSessions, callVars
<1>2. /\ shut' \in [Ends -> {"open", "closing", "closed"}]
      /\ shut'[e] = "closed" /\ \A f \in Ends \ {e} : shut'[f] = shut[f]
  BY <1>1 DEF Types
<1>3. /\ sessions' \in [Ends -> [IDs -> Calls \cup {NoCall}]]
      /\ \A i \in IDs : sessions'[e][i] = NoCall
      /\ \A f \in Ends \ {e} : sessions'[f] = sessions[f]
  BY <1>1 DEF Types
<1>4. \A k \in Calls : /\ k \in Woken(e) => Owner[k] = e
                       /\ Owner[k] = e => ~Closed(k) /\ Closed(k)'
                       /\ Owner[k] # e => (Closed(k)' <=> Closed(k))
  BY <1>1, <1>2, EndFacts DEF Woken, SessionsOK, Closed
<1>5. \A k \in Calls : /\ k \in Woken(e) => inbound'[k] = Append(inbound[k], Nil)
                       /\ k \notin Woken(e) => inbound'[k] = inbound[k]
  BY <1>1
<1>6. inbound' \in [Calls -> Seq(Replies \cup {Nil})]
  <2>1. \A k \in Calls : inbound[k] \in Seq(Replies \cup {Nil}) /\ Append(inbound[k], Nil) \in Seq(Replies \cup {Nil})
    BY DEF Types
  <2> QED
    BY <1>1, <2>1
<1>7. Types'
  BY <1>1, <1>2, <1>3, <1>6 DEF Types, poolVars
<1>8. LinkOK'
  BY <1>1, <1>2 DEF LinkOK, poolVars
<1>9. CountersOK(id)' /\ IdsOK(id)' /\ TunnelsOK(id)'
  BY <1>1, CountersSame, TunnelsSame DEF IdsOK, FirstID, Holding, Going
<1>10. SessionsOK'
  <2>1. \A f \in Ends : \A i \in IDs : \A k \in Calls : sessions'[f][i] = k => sessions[f][i] = k
    BY <1>3, CallAssumption
  <2>2. \A k \in Calls : ~Closed(k)' => ~Closed(k) /\ sessions'[Owner[k]] = sessions[Owner[k]]
    BY <1>3, <1>4, EndFacts
  <2> QED
    BY <1>1, <2>1, <2>2 DEF SessionsOK
<1>11. ASSUME NEW k \in Calls PROVE CallOK(k, id, place)'
  <2>1. CASE k \in Woken(e)
    <3>1. ~Closed(k) /\ Closed(k)' /\ inbound'[k] = Append(inbound[k], Nil)
      BY <1>4, <1>5, <2>1
    <3>2. ASSUME place[k] = "arrived"
          PROVE  \E m \in Replies : IsAnswer(k, m, id)' /\ inbound'[k] = <<m, Nil>>
      <4>1. PICK m \in Replies : IsAnswer(k, m, id) /\ inbound[k] = <<m>>
        BY <3>1, <3>2 DEF CallOK, InboundOK
      <4>2. inbound'[k] = <<m, Nil>>
        BY <3>1, <4>1, AppendToOne
      <4>3. IsAnswer(k, m, id)'
        BY <1>1, <4>1 DEF IsAnswer, Peer
      <4> QED
        BY <4>2, <4>3
    <3>3. ASSUME place[k] # "arrived" PROVE inbound'[k] = <<Nil>>
      <4>1. inbound[k] = <<>>
        BY <3>1, <3>3 DEF CallOK, InboundOK
      <4> QED
        BY <3>1, <4>1
    <3>4. InboundOK(k, id, place)'
      BY <3>1, <3>2, <3>3 DEF InboundOK
    <3> QED
      BY <1>1, <3>1, <3>4 DEF CallOK
  <2>2. CASE k \notin Woken(e)
    BY <1>1, <1>4, <1>5, <2>2, CallSame DEF Kept
  <2> QED
    BY <2>1, <2>2
<1>12. ASSUME NEW k \in Calls PROVE ListenerOK(ListenEnd(k), k)'
  <2>1. \A f \in Ends : shut[f] # "open" => shut'[f] # "open"
    BY <1>2
  <2>2. \A f \in Ends : Creating(f, k)' <=> Creating(f, k)
    BY <1>1 DEF Creating
  <2> QED
    BY <1>1, <2>1, <2>2, ListenerSame, EndFacts DEF ListenEnd, poolVars
<1>13. ASSUME NEW f \in Ends PROVE QueueOK(f, id, place)' /\ RxOK(f, id, place)'
  BY <1>1, QueueSame, RxSame DEF Kept
<1> QED
  BY <1>7, <1>8, <1>9, <1>10, <1>11, <1>12, <1>13

\* Nothing happens.
LEMMA StutterOK ==
  ASSUME NEW id \in [Calls -> IDs \cup {0}], NEW place \in [Calls -> Places], IInvOf(id, place),
         UNCHANGED vars
  PROVE  IInvOf(id, place)'
<1> USE DEF IInvOf
<1>1. UNCHANGED <<callVars, inbound, curSession, sessions, curTunnel, tunnels, listening, sweep, robbed,
                  queue, rx, up, shut>>
  BY DEF vars, poolVars
<1>2. sweep' \in Sweeps
  BY <1>1 DEF Types, Sweeps
<1> QED
  BY <1>1, <1>2, SweepOnlyOK

-------------------------------------------------------------------------------
\* Every step.

LEMMA ReceiveOK ==
  ASSUME NEW id \in [Calls -> IDs \cup {0}], NEW place \in [Calls -> Places], IInvOf(id, place),
         NEW e \in Ends, Recv(e)
  PROVE  \E id2 \in [Calls -> IDs \cup {0}], place2 \in [Calls -> Places] : IInvOf(id2, place2)'
<1>1. CASE Receive(e)
  <2>1. Head(queue[Other(e)]).type \in {"request", "response"}
    BY <1>1 DEF Receive
  <2> QED
    BY <1>1, <2>1, ReceiveRequestOK, ReceiveResponseOK
<1>2. CASE RemoteInsert(e)
  BY <1>2, RemoteInsertOK
<1>3. CASE RemoteListen(e)
  BY <1>3, RemoteListenOK
<1>4. CASE RemoteUndo(e)
  BY <1>4, RemoteUndoOK
<1>5. CASE Answer(e)
  BY <1>5, AnswerOK
<1> QED
  BY <1>1, <1>2, <1>3, <1>4, <1>5 DEF Recv

LEMMA OpenTunnelOK ==
  ASSUME NEW id \in [Calls -> IDs \cup {0}], NEW place \in [Calls -> Places], IInvOf(id, place),
         NEW k \in Calls, OpenTunnel(k) \/ NewSessionID(k)
  PROVE  \E place2 \in [Calls -> Places] : IInvOf(id, place2)'
<1>1. CASE NewSessionID(k)
  BY <1>1, NewSessionIDOK
<1>2. CASE NewSession(k)
  BY <1>2, NewSessionOK
<1>3. CASE SendRequest(k)
  BY <1>3, SendRequestOK
<1>4. CASE Await(k)
  BY <1>4, AwaitOK
<1>5. CASE LocalExist(k)
  BY <1>5, LocalExistOK
<1>6. CASE LocalInsert(k)
  BY <1>6, LocalInsertOK
<1>7. CASE LocalListen(k)
  BY <1>7, LocalListenOK
<1>8. CASE LocalUndo(k)
  BY <1>8, LocalUndoOK
<1> QED
  BY <1>1, <1>2, <1>3, <1>4, <1>5, <1>6, <1>7, <1>8 DEF OpenTunnel

LEMMA CloseOK ==
  ASSUME NEW id \in [Calls -> IDs \cup {0}], NEW place \in [Calls -> Places], IInvOf(id, place),
         NEW e \in Ends, Close(e) \/ CloseOther(e)
  PROVE  IInvOf(id, place)'
<1>1. CASE CloseOutbound(e)
  BY <1>1, CloseOutboundOK
<1>2. CASE Sweep(e)
  BY <1>2, CollectOK, DeleteListenerOK DEF Sweep
<1>3. CASE CloseSessions(e)
  BY <1>3, CloseSessionsOK
<1>4. CASE CloseOther(e)
  BY <1>4, CloseOtherOK
<1> QED
  BY <1>1, <1>2, <1>3, <1>4 DEF Close

LEMMA NextOK == IInv /\ [Next]_vars => IInv'
<1> SUFFICES ASSUME NEW id \in [Calls -> IDs \cup {0}], NEW place \in [Calls -> Places],
                    IInvOf(id, place), [Next]_vars
             PROVE  \E id2 \in [Calls -> IDs \cup {0}], place2 \in [Calls -> Places] : IInvOf(id2, place2)'
  BY DEF IInv
<1>1. CASE \E k \in Calls : OpenTunnel(k) \/ NewSessionID(k)
  BY <1>1, OpenTunnelOK
<1>2. CASE \E e \in Ends : Recv(e)
  BY <1>2, ReceiveOK
<1>3. CASE \E e \in Ends : Close(e) \/ CloseOther(e)
  BY <1>3, CloseOK
<1>4. CASE Break
  BY <1>4, BreakOK
<1>5. CASE UNCHANGED vars
  BY <1>5, StutterOK
<1> QED
  BY <1>1, <1>2, <1>3, <1>4, <1>5 DEF Next

-------------------------------------------------------------------------------
\* What the invariant implies.

LEMMA TypesImply ==
  ASSUME NEW id \in [Calls -> IDs \cup {0}], NEW place \in [Calls -> Places], IInvOf(id, place)
  PROVE  TypeOK
<1> USE DEF IInvOf
<1>1. ASSUME NEW k \in Calls PROVE Len(inbound[k]) <= 2
  <2>1. CASE place[k] = "arrived"
    <3>1. PICK m \in Replies : inbound[k] = <<m>> \/ inbound[k] = <<m, Nil>>
      BY <2>1 DEF CallOK, InboundOK
    <3>2. Len(<<m>>) <= 2 /\ Len(<<m, Nil>>) <= 2
      OBVIOUS
    <3> QED
      BY <3>1, <3>2
  <2>2. CASE place[k] # "arrived"
    <3>1. inbound[k] = <<>> \/ inbound[k] = <<Nil>>
      BY <2>2 DEF CallOK, InboundOK
    <3>2. Len(<<>>) <= 2 /\ Len(<<Nil>>) <= 2
      OBVIOUS
    <3> QED
      BY <3>1, <3>2
  <2> QED
    BY <2>1, <2>2
<1>2. ASSUME NEW e \in Ends PROVE curTunnel[e] % 2 = IF e = ServerSide THEN 1 ELSE 0
  <2> DEFINE c == Cardinality({k \in Calls : Owner[k] # e /\ id[k] # 0})
  <2>1. c \in Nat
    BY FiniteAssumption, FS_Subset, FS_CardinalityType
  <2>2. curTunnel[e] = FirstID(e) + 2 * c
    BY DEF CountersOK
  <2> HIDE DEF c
  <2> QED
    BY <2>1, <2>2 DEF FirstID
<1>3. ASSUME NEW k \in Calls, NEW i \in IDs, tunnels[Owner[k]][i] = k PROVE tid[k] = i
  <2>1. id[k] = i /\ Holding(k)
    BY <1>3, EndFacts DEF TunnelsOK
  <2> QED
    BY <2>1, Placed DEF Holding, Going
<1>4. \A e \in Ends : rx[e].at \in {"idle", "insert", "listen", "undo", "answer"}
  BY RxFacts
<1> QED
  BY <1>1, <1>2, <1>3, <1>4 DEF Types, TypeOK

\* Two tunnels with one id would have been given it by different ends, whose ids have
\* different parity.
LEMMA IdsImplyMirrored ==
  ASSUME NEW id \in [Calls -> IDs \cup {0}], NEW place \in [Calls -> Places], IInvOf(id, place)
  PROVE  Mirrored
<1> SUFFICES ASSUME NEW i \in IDs, NEW j \in Calls, NEW k \in Calls,
                    tunnels["A"][i] = j, tunnels["B"][i] = k
             PROVE  j = k
  <2>1. \A e \in {"A", "B"} : \A i \in IDs : tunnels[e][i] \in Calls \cup {NoCall}
    BY DEF IInvOf, Types, Ends
  <2> QED
    BY <2>1 DEF Mirrored
<1>1. id[j] = i /\ id[k] = i /\ i # 0
  BY IDFacts DEF IInvOf, TunnelsOK, Ends
<1>2. CASE Owner[j] = Owner[k]
  BY <1>1, <1>2 DEF IInvOf, IdsOK
<1>3. CASE Owner[j] # Owner[k]
  <2>1. Peer(j) = Other(Peer(k)) /\ Peer(k) \in Ends
    BY <1>3, EndFacts
  <2>2. FirstID(Peer(j)) % 2 = FirstID(Peer(k)) % 2
    BY <1>1 DEF IInvOf, IdsOK
  <2> QED
    BY <2>1, <2>2, EndFacts
<1> QED
  BY <1>2, <1>3

LEMMA HoldingImpliesOpened ==
  ASSUME NEW id \in [Calls -> IDs \cup {0}], NEW place \in [Calls -> Places], IInvOf(id, place)
  PROVE  OpenedBothEnds
<1> SUFFICES ASSUME NEW k \in Calls, result[k] = "ok"
             PROVE  /\ \A e \in Ends : tunnels[e][tid[k]] = k
                    /\ shut[ListenEnd(k)] = "open" =>
                         k \in robbed \/ listening[ListenEnd(k)][Addr[k]] = k
  BY DEF OpenedBothEnds
<1>1. Holding(k) /\ Going(k)
  BY DEF Holding, Going
<1>2. place[k] = "read" /\ id[k] \in IDs /\ tid[k] = id[k] /\ pc[k] = "done"
  BY <1>1, Placed DEF IInvOf, CallOK
<1>3. \A e \in Ends : tunnels[e][tid[k]] = k
  BY <1>1, <1>2, EndFacts DEF IInvOf, TunnelsOK
<1>4. ASSUME NEW e \in Ends PROVE ~Creating(e, k)
  <2>1. rx[e].at \in {"listen", "undo"} => rx[e].msg.call # k
    BY <1>2 DEF IInvOf, RxOK, CreationOK
  <2> QED
    BY <1>2, <2>1 DEF Creating
<1>5. Created(ListenEnd(k), k)
  BY <1>2, <1>3, <1>4, EndFacts DEF Created
<1> QED
  BY <1>3, <1>5 DEF IInvOf, ListenerOK

LEMMA QueueImpliesExpected ==
  ASSUME NEW id \in [Calls -> IDs \cup {0}], NEW place \in [Calls -> Places], IInvOf(id, place)
  PROVE  ResponseExpected
<1> SUFFICES ASSUME NEW e \in Ends, NEW n \in DOMAIN queue[Other(e)],
                    queue[Other(e)][n].type = "response", up
             PROVE  LET m == queue[Other(e)][n]
                        k == sessions[e][m.session]
                    IN  /\ k # NoCall /\ pc[k] = "wait" /\ inbound[k] = <<>>
                        /\ m.status = "success" => tunnels[Other(e)][m.tunnel] = k
  BY DEF ResponseExpected, Responses
<1> DEFINE m == queue[Other(e)][n]
<1>1. PICK k \in Calls : Peer(k) = Other(e) /\ place[k] = "response" /\ IsAnswer(k, m, id)
  BY EndFacts DEF IInvOf, QueueOK, MessageOK
<1>2. Owner[k] = e /\ ~Closed(k)
  BY <1>1, EndFacts DEF IInvOf, LinkOK, Closed
<1>3. pc[k] = "wait" /\ inbound[k] = <<>>
  BY <1>1, <1>2 DEF IInvOf, CallOK, InboundOK, UnderWay
<1>4. sessions[e][sid[k]] = k /\ m.session = sid[k]
  BY <1>1, <1>2, <1>3 DEF IInvOf, SessionsOK, IsAnswer
<1>5. m.status = "success" => tunnels[Other(e)][m.tunnel] = k
  BY <1>1 DEF IsAnswer
<1> QED
  BY <1>3, <1>4, <1>5, CallAssumption

\* Only the other call it was given to could have the id.
LEMMA GivenImpliesFree ==
  ASSUME NEW id \in [Calls -> IDs \cup {0}], NEW place \in [Calls -> Places], IInvOf(id, place)
  PROVE  IdIsFree
<1> USE DEF IInvOf
<1>1. ASSUME NEW k \in Calls, pc[k] \in {"exist", "insert"} PROVE tunnels[Owner[k]][tid[k]] = NoCall
  <2>1. id[k] # 0 /\ tid[k] = id[k] /\ ~Holding(k)
    BY <1>1, Placed, IDFacts DEF Holding, Going, CallOK
  <2>2. Owner[k] \in Ends /\ \A i \in IDs : tunnels[Owner[k]][i] # k
    BY <2>1, EndFacts DEF TunnelsOK
  <2> QED
    BY <2>1, <2>2, IdFree
<1>2. ASSUME NEW e \in Ends, rx[e].at = "insert" PROVE tunnels[e][rx[e].tunnel] = NoCall
  <2>1. PICK k \in Calls : /\ rx[e].tunnel = id[k] /\ id[k] # 0
                           /\ \A i \in IDs : tunnels[e][i] # k
    BY <1>2, CreationFacts
  <2> QED
    BY <2>1, IdFree
<1> QED
  BY <1>1, <1>2 DEF IdIsFree

-------------------------------------------------------------------------------
\* The theorems.

\* Every message and every id is accounted for: the inductive invariant.
THEOREM Invariance == Spec => []IInv
<1>1. Init => IInv
  BY InitOK
<1>2. IInv /\ [Next]_vars => IInv'
  BY NextOK
<1> QED
  BY <1>1, <1>2, PTL DEF Spec

\* Every variable of the link, of its pools and of the calls has the values the code gives it:
\* the counters of both ends stay within two ids for each call, the ids of one end have one
\* parity, no queue is longer than its channel, and a call that has entered its tunnel
\* into the pool did so under the id that the other end has answered with.
THEOREM TypeCorrect == Spec => []TypeOK
<1>1. IInv => TypeOK
  BY TypesImply DEF IInv
<1> QED
  BY <1>1, Invariance, PTL

\* Two tunnels with one id at the two ends of the link are the two ends of one tunnel.
THEOREM TunnelsAreMirrored == Spec => []Mirrored
<1>1. IInv => Mirrored
  BY IdsImplyMirrored DEF IInv
<1> QED
  BY <1>1, Invariance, PTL

\* The id that a call or the receive loop is about to enter a tunnel under is free, from
\* the look at the pool (Exist, newID) until the insertion under another lock.
THEOREM IdsAreFree == Spec => []IdIsFree
<1>1. IInv => IdIsFree
  BY GivenImpliesFree DEF IInv
<1> QED
  BY <1>1, Invariance, PTL

\* When OpenTunnel has returned nil both ends have the tunnel under the id the call knows,
\* and it is listened for unless a link of that process was closed.
THEOREM OpenedAtBothEnds == Spec => []OpenedBothEnds
<1>1. IInv => OpenedBothEnds
  BY HoldingImpliesOpened DEF IInv
<1> QED
  BY <1>1, Invariance, PTL

\* A listener has its tunnel, and a tunnel that is not reverse its listener, outside of the
\* creation itself and of the close of a link.
THEOREM ListenersAreMatched == Spec => []ListenersMatchTunnels
<1>1. IInv => ListenersMatchTunnels
  BY DEF IInv, IInvOf, ListenersMatchTunnels, ListenerOK, Created
<1> QED
  BY <1>1, Invariance, PTL

\* While the connection is up HandleResponse finds the session of every response, whose call
\* waits with an empty channel: the receive loop neither fails nor blocks in it.
THEOREM ResponsesAreExpected == Spec => []ResponseExpected
<1>1. IInv => ResponseExpected
  BY QueueImpliesExpected DEF IInv
<1> QED
  BY <1>1, Invariance, PTL
================================================================================
