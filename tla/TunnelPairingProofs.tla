-------------------------- MODULE TunnelPairingProofs --------------------------
(***************************************************************************)
(* OpenTunnel implements TunnelPairing, for any number of calls at either  *)
(* end, any addresses, capacity and faults: each step of the calls, the    *)
(* receive loops and the links maps to a step of TunnelPairing or to a     *)
(* stutter, in every state of the inductive invariant of OpenTunnelProofs. *)
(***************************************************************************)
EXTENDS OpenTunnelProofs

-------------------------------------------------------------------------------
\* The mapped state.

CallState == [k \in Calls |-> CASE pc[k] = "idle"  -> "new"
                                [] pc[k] = "panic" -> "failed"
                                [] pc[k] = "done"  -> IF result[k] = "ok" THEN "opened" ELSE "failed"
                                [] OTHER           -> "opening"]
Asked == [k \in Calls |-> ~Pending(k)]
Near  == [k \in Calls |-> {i \in IDs : tunnels[Owner[k]][i] = k}]
Far   == [k \in Calls |-> {i \in IDs : tunnels[Other(Owner[k])][i] = k}]

PairStep == [TP!Step]_<<CallState, Asked, Near, Far>>

LEMMA CallStateIs ==
  ASSUME NEW k \in Calls
  PROVE  /\ pc[k] = "idle" => CallState[k] = "new"
         /\ pc[k] = "panic" => CallState[k] = "failed"
         /\ pc[k] = "done" /\ result[k] = "ok" => CallState[k] = "opened"
         /\ pc[k] = "done" /\ result[k] # "ok" => CallState[k] = "failed"
         /\ pc[k] \notin {"idle", "panic", "done"} => CallState[k] = "opening"
  BY DEF CallState

LEMMA CallStateBecomes ==
  ASSUME NEW k \in Calls
  PROVE  /\ pc'[k] = "idle" => CallState'[k] = "new"
         /\ pc'[k] = "panic" => CallState'[k] = "failed"
         /\ pc'[k] = "done" /\ result'[k] = "ok" => CallState'[k] = "opened"
         /\ pc'[k] = "done" /\ result'[k] # "ok" => CallState'[k] = "failed"
         /\ pc'[k] \notin {"idle", "panic", "done"} => CallState'[k] = "opening"
  BY DEF CallState

\* One call changes, or none.
LEMMA CallStateChanges ==
  ASSUME NEW k \in Calls,
         \A j \in Calls \ {k} : pc'[j] = pc[j] /\ result'[j] = result[j]
  PROVE  CallState' = [CallState EXCEPT ![k] = CallState'[k]]
<1>1. \A j \in Calls \ {k} : CallState'[j] = CallState[j]
  BY DEF CallState
<1>2. CallState = [j \in Calls |-> CallState[j]] /\ CallState' = [j \in Calls |-> CallState'[j]]
  BY DEF CallState
<1> QED
  BY <1>1, <1>2

Ended == {"idle", "panic", "done"}

LEMMA CallStateSame ==
  ASSUME \A k \in Calls : \/ pc'[k] = pc[k] /\ result'[k] = result[k]
                          \/ pc[k] \notin Ended /\ pc'[k] \notin Ended
  PROVE  CallState' = CallState
<1>1. ASSUME NEW k \in Calls PROVE CallState'[k] = CallState[k]
  <2>1. CASE pc'[k] = pc[k] /\ result'[k] = result[k]
    BY <2>1 DEF CallState
  <2>2. CASE pc[k] \notin Ended /\ pc'[k] \notin Ended
    BY <2>2, CallStateIs, CallStateBecomes DEF Ended
  <2> QED
    BY <2>1, <2>2
<1>2. CallState = [j \in Calls |-> CallState[j]] /\ CallState' = [j \in Calls |-> CallState'[j]]
  BY DEF CallState
<1> QED
  BY <1>1, <1>2

LEMMA AskedSame ==
  ASSUME \A k \in Calls : Pending(k)' <=> Pending(k)
  PROVE  Asked' = Asked
<1>1. \A k \in Calls : (~Pending(k))' = ~Pending(k)
  OBVIOUS
<1>2. Asked = [k \in Calls |-> ~Pending(k)] /\ Asked' = [k \in Calls |-> (~Pending(k))']
  BY DEF Asked
<1> QED
  BY <1>1, <1>2

LEMMA AskedChanges ==
  ASSUME NEW k \in Calls, ~Pending(k)', \A j \in Calls \ {k} : Pending(j)' <=> Pending(j)
  PROVE  Asked' = [Asked EXCEPT ![k] = TRUE]
<1>1. \A j \in Calls : (~Pending(j))' = IF j = k THEN TRUE ELSE ~Pending(j)
  OBVIOUS
<1>2. Asked = [j \in Calls |-> ~Pending(j)] /\ Asked' = [j \in Calls |-> (~Pending(j))']
  BY DEF Asked
<1> QED
  BY <1>1, <1>2

LEMMA AskedIs == \A k \in Calls : Asked[k] <=> ~Pending(k)
  BY DEF Asked

LEMMA TunnelsAre ==
  /\ \A k \in Calls : Near[k] = {i \in IDs : tunnels[Owner[k]][i] = k}
                      /\ Far[k] = {i \in IDs : tunnels[Peer(k)][i] = k}
  /\ Near = [k \in Calls |-> Near[k]] /\ Far = [k \in Calls |-> Far[k]]
  /\ \A k \in Calls : Near'[k] = {i \in IDs : tunnels'[Owner[k]][i] = k}
                      /\ Far'[k] = {i \in IDs : tunnels'[Peer(k)][i] = k}
  /\ Near' = [k \in Calls |-> Near'[k]] /\ Far' = [k \in Calls |-> Far'[k]]
  BY DEF Near, Far, Peer

LEMMA TunnelsUntouched == ASSUME tunnels' = tunnels PROVE Near' = Near /\ Far' = Far
  BY DEF Near, Far

-------------------------------------------------------------------------------
\* A tunnel is entered into the pool of an end under a free id, and taken out of it.

LEMMA PoolFacts ==
  ASSUME Types, NEW e \in Ends, NEW i \in IDs, NEW v
  PROVE  LET t == [tunnels EXCEPT ![e][i] = v]
         IN  /\ t[e][i] = v
             /\ \A d \in Ends, j \in IDs : d # e \/ j # i => t[d][j] = tunnels[d][j]
  BY DEF Types

LEMMA Entered ==
  ASSUME Types, NEW k \in Calls, NEW e \in Ends, NEW i \in IDs, tunnels[e][i] = NoCall,
         tunnels' = [tunnels EXCEPT ![e][i] = k]
  PROVE  /\ e = Owner[k] => Far' = Far /\ Near' = [Near EXCEPT ![k] = Near[k] \cup {i}]
         /\ e = Peer(k) => Near' = Near /\ Far' = [Far EXCEPT ![k] = Far[k] \cup {i}]
<1>1. /\ tunnels'[e][i] = k
      /\ \A d \in Ends, j \in IDs : d # e \/ j # i => tunnels'[d][j] = tunnels[d][j]
  BY PoolFacts
<1>2. \A d \in Ends, c \in Calls : d # e \/ c # k =>
        {j \in IDs : tunnels'[d][j] = c} = {j \in IDs : tunnels[d][j] = c}
  BY <1>1, CallAssumption
<1>3. \A d \in Ends, c \in Calls : d = e /\ c = k =>
        {j \in IDs : tunnels'[d][j] = c} = {j \in IDs : tunnels[d][j] = c} \cup {i}
  BY <1>1
<1>4. CASE e = Owner[k]
  <2>1. ASSUME NEW c \in Calls
        PROVE  Far'[c] = Far[c] /\ Near'[c] = IF c = k THEN Near[k] \cup {i} ELSE Near[c]
    <3>1. Owner[c] \in Ends /\ Peer(c) \in Ends /\ (c = k => Peer(c) # e)
      BY <1>4, EndFacts
    <3>2. {j \in IDs : tunnels'[Peer(c)][j] = c} = {j \in IDs : tunnels[Peer(c)][j] = c}
      BY <3>1, <1>2
    <3>3. c # k => {j \in IDs : tunnels'[Owner[c]][j] = c} = {j \in IDs : tunnels[Owner[c]][j] = c}
      BY <3>1, <1>2
    <3>4. c = k => {j \in IDs : tunnels'[Owner[c]][j] = c} = {j \in IDs : tunnels[Owner[c]][j] = c} \cup {i}
      BY <3>1, <1>3, <1>4
    <3>5. /\ Near[c] = {j \in IDs : tunnels[Owner[c]][j] = c} /\ Far[c] = {j \in IDs : tunnels[Peer(c)][j] = c}
          /\ Near'[c] = {j \in IDs : tunnels'[Owner[c]][j] = c}
          /\ Far'[c] = {j \in IDs : tunnels'[Peer(c)][j] = c}
      BY TunnelsAre
    <3> QED
      BY <3>2, <3>3, <3>4, <3>5
  <2>2. Near = [c \in Calls |-> Near[c]] /\ Near' = [c \in Calls |-> Near'[c]]
    BY TunnelsAre
  <2>3. Far = [c \in Calls |-> Far[c]] /\ Far' = [c \in Calls |-> Far'[c]]
    BY TunnelsAre
  <2> QED
    BY <2>1, <2>2, <2>3, <1>4, EndFacts
<1>5. CASE e = Peer(k)
  <2>1. ASSUME NEW c \in Calls
        PROVE  Near'[c] = Near[c] /\ Far'[c] = IF c = k THEN Far[k] \cup {i} ELSE Far[c]
    <3>1. Owner[c] \in Ends /\ Peer(c) \in Ends /\ (c = k => Owner[c] # e)
      BY <1>5, EndFacts
    <3>2. {j \in IDs : tunnels'[Owner[c]][j] = c} = {j \in IDs : tunnels[Owner[c]][j] = c}
      BY <3>1, <1>2
    <3>3. c # k => {j \in IDs : tunnels'[Peer(c)][j] = c} = {j \in IDs : tunnels[Peer(c)][j] = c}
      BY <3>1, <1>2
    <3>4. c = k => {j \in IDs : tunnels'[Peer(c)][j] = c} = {j \in IDs : tunnels[Peer(c)][j] = c} \cup {i}
      BY <3>1, <1>3, <1>5
    <3>5. /\ Near[c] = {j \in IDs : tunnels[Owner[c]][j] = c} /\ Far[c] = {j \in IDs : tunnels[Peer(c)][j] = c}
          /\ Near'[c] = {j \in IDs : tunnels'[Owner[c]][j] = c}
          /\ Far'[c] = {j \in IDs : tunnels'[Peer(c)][j] = c}
      BY TunnelsAre
    <3> QED
      BY <3>2, <3>3, <3>4, <3>5
  <2>2. Near = [c \in Calls |-> Near[c]] /\ Near' = [c \in Calls |-> Near'[c]]
    BY TunnelsAre
  <2>3. Far = [c \in Calls |-> Far[c]] /\ Far' = [c \in Calls |-> Far'[c]]
    BY TunnelsAre
  <2> QED
    BY <2>1, <2>2, <2>3, <1>5, EndFacts
<1> QED
  BY <1>4, <1>5

LEMMA TakenOut ==
  ASSUME Types, NEW k \in Calls, NEW e \in Ends, NEW i \in IDs, tunnels[e][i] = k,
         tunnels' = [tunnels EXCEPT ![e][i] = NoCall]
  PROVE  /\ e = Owner[k] => Far' = Far /\ Near' = [Near EXCEPT ![k] = Near[k] \ {i}]
         /\ e = Peer(k) => Near' = Near /\ Far' = [Far EXCEPT ![k] = Far[k] \ {i}]
<1>1. /\ tunnels'[e][i] = NoCall
      /\ \A d \in Ends, j \in IDs : d # e \/ j # i => tunnels'[d][j] = tunnels[d][j]
  BY PoolFacts
<1>2. \A d \in Ends, c \in Calls : d # e \/ c # k =>
        {j \in IDs : tunnels'[d][j] = c} = {j \in IDs : tunnels[d][j] = c}
  BY <1>1, CallAssumption
<1>3. \A d \in Ends, c \in Calls : d = e /\ c = k =>
        {j \in IDs : tunnels'[d][j] = c} = {j \in IDs : tunnels[d][j] = c} \ {i}
  BY <1>1, CallAssumption
<1>4. CASE e = Owner[k]
  <2>1. ASSUME NEW c \in Calls
        PROVE  Far'[c] = Far[c] /\ Near'[c] = IF c = k THEN Near[k] \ {i} ELSE Near[c]
    <3>1. Owner[c] \in Ends /\ Peer(c) \in Ends /\ (c = k => Peer(c) # e)
      BY <1>4, EndFacts
    <3>2. {j \in IDs : tunnels'[Peer(c)][j] = c} = {j \in IDs : tunnels[Peer(c)][j] = c}
      BY <3>1, <1>2
    <3>3. c # k => {j \in IDs : tunnels'[Owner[c]][j] = c} = {j \in IDs : tunnels[Owner[c]][j] = c}
      BY <3>1, <1>2
    <3>4. c = k => {j \in IDs : tunnels'[Owner[c]][j] = c} = {j \in IDs : tunnels[Owner[c]][j] = c} \ {i}
      BY <3>1, <1>3, <1>4
    <3>5. /\ Near[c] = {j \in IDs : tunnels[Owner[c]][j] = c} /\ Far[c] = {j \in IDs : tunnels[Peer(c)][j] = c}
          /\ Near'[c] = {j \in IDs : tunnels'[Owner[c]][j] = c}
          /\ Far'[c] = {j \in IDs : tunnels'[Peer(c)][j] = c}
      BY TunnelsAre
    <3> QED
      BY <3>2, <3>3, <3>4, <3>5
  <2>2. Near = [c \in Calls |-> Near[c]] /\ Near' = [c \in Calls |-> Near'[c]]
    BY TunnelsAre
  <2>3. Far = [c \in Calls |-> Far[c]] /\ Far' = [c \in Calls |-> Far'[c]]
    BY TunnelsAre
  <2> QED
    BY <2>1, <2>2, <2>3, <1>4, EndFacts
<1>5. CASE e = Peer(k)
  <2>1. ASSUME NEW c \in Calls
        PROVE  Near'[c] = Near[c] /\ Far'[c] = IF c = k THEN Far[k] \ {i} ELSE Far[c]
    <3>1. Owner[c] \in Ends /\ Peer(c) \in Ends /\ (c = k => Owner[c] # e)
      BY <1>5, EndFacts
    <3>2. {j \in IDs : tunnels'[Owner[c]][j] = c} = {j \in IDs : tunnels[Owner[c]][j] = c}
      BY <3>1, <1>2
    <3>3. c # k => {j \in IDs : tunnels'[Peer(c)][j] = c} = {j \in IDs : tunnels[Peer(c)][j] = c}
      BY <3>1, <1>2
    <3>4. c = k => {j \in IDs : tunnels'[Peer(c)][j] = c} = {j \in IDs : tunnels[Peer(c)][j] = c} \ {i}
      BY <3>1, <1>3, <1>5
    <3>5. /\ Near[c] = {j \in IDs : tunnels[Owner[c]][j] = c} /\ Far[c] = {j \in IDs : tunnels[Peer(c)][j] = c}
          /\ Near'[c] = {j \in IDs : tunnels'[Owner[c]][j] = c}
          /\ Far'[c] = {j \in IDs : tunnels'[Peer(c)][j] = c}
      BY TunnelsAre
    <3> QED
      BY <3>2, <3>3, <3>4, <3>5
  <2>2. Near = [c \in Calls |-> Near[c]] /\ Near' = [c \in Calls |-> Near'[c]]
    BY TunnelsAre
  <2>3. Far = [c \in Calls |-> Far[c]] /\ Far' = [c \in Calls |-> Far'[c]]
    BY TunnelsAre
  <2> QED
    BY <2>1, <2>2, <2>3, <1>5, EndFacts
<1> QED
  BY <1>4, <1>5

\* What the invariant says of the ids of a call.
LEMMA TunnelsOf ==
  ASSUME NEW id \in [Calls -> IDs \cup {0}], NEW place \in [Calls -> Places], IInvOf(id, place),
         NEW k \in Calls
  PROVE  /\ Near[k] \subseteq {id[k]} /\ Far[k] \subseteq {id[k]}
         /\ ~Holding(k) => Near[k] = {}
         /\ Holding(k) => Near[k] = {id[k]} /\ id[k] \in IDs
         /\ Going(k) => Far[k] = {id[k]} /\ id[k] \in IDs
<1> USE DEF IInvOf
<1>1. /\ Near[k] = {i \in IDs : tunnels[Owner[k]][i] = k}
      /\ Far[k] = {i \in IDs : tunnels[Peer(k)][i] = k}
      /\ Owner[k] \in Ends /\ Peer(k) \in Ends
  BY TunnelsAre, EndFacts
<1>2. Near[k] \subseteq {id[k]} /\ Far[k] \subseteq {id[k]} /\ (~Holding(k) => Near[k] = {})
  BY <1>1 DEF TunnelsOK
<1>3. Holding(k) => Going(k)
  BY DEF Holding, Going
<1>4. Going(k) => id[k] \in IDs
  BY Placed
<1>5. Holding(k) => id[k] \in Near[k]
  BY <1>1, <1>3, <1>4 DEF TunnelsOK
<1>6. Going(k) => id[k] \in Far[k]
  BY <1>1, <1>4 DEF TunnelsOK
<1> QED
  BY <1>2, <1>3, <1>4, <1>5, <1>6

-------------------------------------------------------------------------------
\* Which requests are pending.

IsRequest(m, k) == m.type = "request" /\ m.call = k
InQueue(k)      == \E n \in DOMAIN queue[Owner[k]] : IsRequest(queue[Owner[k]][n], k)
InHand(k)       == rx[Peer(k)].at = "insert" /\ rx[Peer(k)].msg.call = k
Unsent(k)       == pc[k] \in {"idle", "session", "send", "panic"}

LEMMA PendingIs ==
  ASSUME NEW k
  PROVE  /\ Pending(k) <=> Unsent(k) \/ InQueue(k) \/ InHand(k)
         /\ Pending(k)' <=> Unsent(k)' \/ InQueue(k)' \/ InHand(k)'
  BY DEF Pending, Unsent, InQueue, InHand, IsRequest, Peer

\* A step that neither puts nor takes a request leaves it at that.
LEMMA PendingSame ==
  ASSUME \A k \in Calls : (Unsent(k)' <=> Unsent(k)) /\ (InQueue(k)' <=> InQueue(k))
                          /\ (InHand(k)' <=> InHand(k))
  PROVE  Asked' = Asked
  BY PendingIs, AskedSame

\* Of a queue a message is appended to.
LEMMA InQueueAppended ==
  ASSUME Types, NEW e \in Ends, NEW m, queue' = [queue EXCEPT ![e] = Append(@, m)], NEW k \in Calls
  PROVE  InQueue(k)' <=> InQueue(k) \/ (Owner[k] = e /\ IsRequest(m, k))
<1>1. CASE Owner[k] # e
  BY <1>1, EndFacts DEF InQueue, Types
<1>2. CASE Owner[k] = e
  <2>1. /\ queue[e] \in Seq(Requests \cup Replies) /\ Len(queue[e]) \in Nat
        /\ queue'[e] = Append(queue[e], m)
    BY DEF Types
  <2>2. /\ DOMAIN queue'[e] = DOMAIN queue[e] \cup {Len(queue[e]) + 1}
        /\ Len(queue[e]) + 1 \notin DOMAIN queue[e]
        /\ \A n \in DOMAIN queue[e] : queue'[e][n] = queue[e][n]
        /\ queue'[e][Len(queue[e]) + 1] = m
    BY <2>1
  <2> QED
    BY <1>2, <2>2 DEF InQueue, IsRequest
<1> QED
  BY <1>1, <1>2

LEMMA TailFacts ==
  ASSUME NEW S, NEW s \in Seq(S), s # <<>>
  PROVE  /\ Len(s) \in Nat /\ Len(s) > 0 /\ DOMAIN s = 1 .. Len(s) /\ 1 \in DOMAIN s
         /\ Head(s) = s[1] /\ DOMAIN Tail(s) = 1 .. (Len(s) - 1)
         /\ \A n \in 1 .. (Len(s) - 1) : Tail(s)[n] = s[n + 1]
<1>1. Len(s) \in Nat /\ Len(s) > 0 /\ DOMAIN s = 1 .. Len(s) /\ 1 \in DOMAIN s
  OBVIOUS
<1>2. Head(s) = s[1] /\ Len(Tail(s)) = Len(s) - 1 /\ Tail(s) \in Seq(S)
  OBVIOUS
<1>3. DOMAIN Tail(s) = 1 .. (Len(s) - 1)
  BY <1>2
<1>4. \A n \in 1 .. (Len(s) - 1) : Tail(s)[n] = s[n + 1]
  BY <1>1
<1> QED
  BY <1>1, <1>2, <1>3, <1>4

LEMMA InQueueTaken ==
  ASSUME Types, NEW e \in Ends, queue[e] # <<>>, queue' = [queue EXCEPT ![e] = Tail(@)], NEW k \in Calls
  PROVE  /\ InQueue(k)' => InQueue(k)
         /\ InQueue(k) => InQueue(k)' \/ (Owner[k] = e /\ IsRequest(Head(queue[e]), k))
         /\ Owner[k] = e /\ IsRequest(Head(queue[e]), k) => InQueue(k)
<1>1. CASE Owner[k] # e
  BY <1>1, EndFacts DEF InQueue, Types
<1>2. CASE Owner[k] = e
  <2>1. /\ queue[e] \in Seq(Requests \cup Replies) /\ Len(queue[e]) \in Nat /\ Len(queue[e]) > 0
        /\ queue'[e] = Tail(queue[e])
    BY DEF Types
  <2>2. /\ Head(queue[e]) = queue[e][1] /\ 1 \in DOMAIN queue[e]
        /\ DOMAIN queue[e] = 1 .. Len(queue[e]) /\ DOMAIN queue'[e] = 1 .. (Len(queue[e]) - 1)
        /\ \A n \in 1 .. (Len(queue[e]) - 1) : queue'[e][n] = queue[e][n + 1]
    BY <2>1, TailFacts
  <2>3. ASSUME NEW n \in DOMAIN queue'[e]
        PROVE  \E i \in DOMAIN queue[e] : queue'[e][n] = queue[e][i]
    <3>1. n + 1 \in DOMAIN queue[e]
      BY <2>1, <2>2
    <3> QED
      BY <3>1, <2>2
  <2>4. ASSUME NEW n \in DOMAIN queue[e]
        PROVE  \/ queue[e][n] = Head(queue[e])
               \/ \E i \in DOMAIN queue'[e] : queue[e][n] = queue'[e][i]
    <3>1. CASE n = 1
      BY <3>1, <2>2
    <3>2. CASE n # 1
      <4>1. n - 1 \in DOMAIN queue'[e] /\ (n - 1) + 1 = n
        BY <2>1, <2>2, <3>2
      <4>2. queue'[e][n - 1] = queue[e][(n - 1) + 1]
        BY <4>1, <2>2
      <4> QED
        BY <4>1, <4>2
    <3> QED
      BY <3>1, <3>2
  <2>5. InQueue(k)' <=> \E n \in DOMAIN queue'[e] : IsRequest(queue'[e][n], k)
    BY <1>2 DEF InQueue, IsRequest
  <2>6. InQueue(k) <=> \E n \in DOMAIN queue[e] : IsRequest(queue[e][n], k)
    BY <1>2 DEF InQueue
  <2> QED
    BY <1>2, <2>2, <2>3, <2>4, <2>5, <2>6
<1> QED
  BY <1>1, <1>2

-------------------------------------------------------------------------------
\* The steps.

LEMMA BeginStep ==
  ASSUME NEW k \in Calls, pc[k] = "idle", pc'[k] \notin Ended,
         \A j \in Calls \ {k} : pc'[j] = pc[j] /\ result'[j] = result[j],
         Asked' = Asked, tunnels' = tunnels
  PROVE  PairStep
<1>1. CallState[k] = "new" /\ CallState'[k] = "opening"
  BY CallStateIs, CallStateBecomes DEF Ended
<1>2. CallState' = [CallState EXCEPT ![k] = "opening"]
  BY <1>1, CallStateChanges
<1>3. Near' = Near /\ Far' = Far
  BY TunnelsUntouched
<1>4. TP!Begin(k)
  BY <1>1, <1>2, <1>3 DEF TP!Begin, CallState, Asked, Near, Far
<1> QED
  BY <1>4 DEF PairStep, TP!Step

LEMMA FailStep ==
  ASSUME NEW k \in Calls, pc[k] \notin Ended,
         pc'[k] = "panic" \/ (pc'[k] = "done" /\ result'[k] # "ok"),
         \A j \in Calls \ {k} : pc'[j] = pc[j] /\ result'[j] = result[j],
         Asked' = Asked, Far' = Far, Near' = [Near EXCEPT ![k] = {}]
  PROVE  PairStep
<1>1. CallState[k] = "opening" /\ CallState'[k] = "failed"
  BY CallStateIs, CallStateBecomes DEF Ended
<1>2. CallState' = [CallState EXCEPT ![k] = "failed"]
  BY <1>1, CallStateChanges
<1>3. TP!Fail(k)
  BY <1>1, <1>2 DEF TP!Fail, CallState, Asked, Near, Far
<1> QED
  BY <1>3 DEF PairStep, TP!Step

\* A call fails that has not entered its tunnel.
LEMMA FailEmpty ==
  ASSUME NEW k \in Calls, pc[k] \notin Ended, Near[k] = {},
         pc'[k] = "panic" \/ (pc'[k] = "done" /\ result'[k] # "ok"),
         \A j \in Calls \ {k} : pc'[j] = pc[j] /\ result'[j] = result[j],
         Asked' = Asked, tunnels' = tunnels
  PROVE  PairStep
<1>1. Near' = Near /\ Far' = Far /\ Near = [Near EXCEPT ![k] = {}]
  BY TunnelsUntouched, TunnelsAre
<1> QED
  BY <1>1, FailStep

LEMMA OpenStep ==
  ASSUME NEW k \in Calls, pc[k] \notin Ended, pc'[k] = "done", result'[k] = "ok",
         Near[k] = Far[k], Far[k] # {},
         \A j \in Calls \ {k} : pc'[j] = pc[j] /\ result'[j] = result[j],
         Asked' = Asked, tunnels' = tunnels
  PROVE  PairStep
<1>1. CallState[k] = "opening" /\ CallState'[k] = "opened"
  BY CallStateIs, CallStateBecomes DEF Ended
<1>2. CallState' = [CallState EXCEPT ![k] = "opened"]
  BY <1>1, CallStateChanges
<1>3. Near' = Near /\ Far' = Far
  BY TunnelsUntouched
<1>4. TP!Open(k)
  BY <1>1, <1>2, <1>3 DEF TP!Open, CallState, Asked, Near, Far
<1> QED
  BY <1>4 DEF PairStep, TP!Step

LEMMA EnterStep ==
  ASSUME NEW k \in Calls, pc[k] \notin Ended, Near[k] = {}, Far[k] # {},
         CallState' = CallState, Asked' = Asked, Far' = Far, Near' = [Near EXCEPT ![k] = Far[k]]
  PROVE  PairStep
<1>1. CallState[k] = "opening"
  BY CallStateIs DEF Ended
<1>2. TP!Enter(k)
  BY <1>1 DEF TP!Enter, CallState, Asked, Near, Far
<1> QED
  BY <1>2 DEF PairStep, TP!Step

LEMMA WithdrawStep ==
  ASSUME NEW k \in Calls, CallState[k] # "opened", Near[k] = {},
         CallState' = CallState, Asked' = Asked, Near' = Near, Far' = [Far EXCEPT ![k] = {}]
  PROVE  PairStep
<1>1. TP!Withdraw(k)
  BY DEF TP!Withdraw, CallState, Asked, Near, Far
<1> QED
  BY <1>1 DEF PairStep, TP!Step

LEMMA CreateStep ==
  ASSUME NEW k \in Calls, NEW i \in IDs, CallState[k] # "new", Pending(k),
         \A j \in Calls : i \notin Near[j] /\ i \notin Far[j],
         CallState' = CallState, Asked' = [Asked EXCEPT ![k] = TRUE],
         Near' = Near, Far' = [Far EXCEPT ![k] = {i}]
  PROVE  PairStep
<1>1. ~Asked[k]
  BY AskedIs
<1>2. i \notin TP!Taken
  BY DEF TP!Taken, Near, Far
<1>3. TP!Create(k, i)
  BY <1>1, <1>2 DEF TP!Create, CallState, Asked, Near, Far
<1> QED
  BY <1>3 DEF PairStep, TP!Step

\* A step that no caller sees.
LEMMA QuietStep ==
  ASSUME \A k \in Calls : \/ pc'[k] = pc[k] /\ result'[k] = result[k]
                          \/ pc[k] \notin Ended /\ pc'[k] \notin Ended,
         Asked' = Asked, tunnels' = tunnels
  PROVE  PairStep
  BY CallStateSame, TunnelsUntouched DEF PairStep

-------------------------------------------------------------------------------
\* The steps of a call.

\* What a step of call k does to the requests: nothing but for SendRequest.
LEMMA AskedKept ==
  ASSUME UNCHANGED <<queue, rx>>, \A k \in Calls : Unsent(k)' <=> Unsent(k)
  PROVE  Asked' = Asked
<1>1. \A k \in Calls : (InQueue(k)' <=> InQueue(k)) /\ (InHand(k)' <=> InHand(k))
  BY DEF InQueue, InHand
<1> QED
  BY <1>1, PendingSame

LEMMA OneCall ==
  ASSUME Types, NEW k \in Calls, NEW p, pc' = [pc EXCEPT ![k] = p],
         result' = result \/ \E r : result' = [result EXCEPT ![k] = r]
  PROVE  /\ pc'[k] = p
         /\ \A j \in Calls \ {k} : pc'[j] = pc[j] /\ result'[j] = result[j]
  BY DEF Types

LEMMA Finished ==
  ASSUME Types, NEW k \in Calls, NEW r, Finish(k, r)
  PROVE  /\ pc'[k] = "done" /\ result'[k] = r
         /\ \A j \in Calls \ {k} : pc'[j] = pc[j] /\ result'[j] = result[j]
  BY DEF Types, Finish, Goto

\* A call goes on after its request has been sent, or fails without a tunnel of its own.
LEMMA GoesOn ==
  ASSUME Types, NEW k \in Calls, NEW p, Goto(k, p), UNCHANGED <<result, rx, queue, tunnels>>,
         {pc[k], p} \subseteq {"wait", "exist", "insert", "listen", "undo"}
  PROVE  PairStep
<1>1. pc'[k] = p /\ \A j \in Calls \ {k} : pc'[j] = pc[j] /\ result'[j] = result[j]
  BY OneCall DEF Goto
<1>2. pc[k] \notin {"idle", "session", "send", "panic"} /\ p \notin {"idle", "session", "send", "panic"}
  OBVIOUS
<1>3. Asked' = Asked
  BY <1>1, <1>2, AskedKept DEF Unsent
<1>4. pc[k] \notin Ended /\ p \notin Ended
  BY DEF Ended
<1> QED
  BY <1>1, <1>3, <1>4, QuietStep

LEMMA FailsWithout ==
  ASSUME Types, NEW k \in Calls, NEW r, Finish(k, r), r # "ok", UNCHANGED <<rx, queue, tunnels>>,
         pc[k] \in {"wait", "exist"}, Near[k] = {}
  PROVE  PairStep
<1>1. /\ pc'[k] = "done" /\ result'[k] # "ok"
      /\ \A j \in Calls \ {k} : pc'[j] = pc[j] /\ result'[j] = result[j]
  BY Finished
<1>2. Asked' = Asked
  BY <1>1, AskedKept DEF Unsent
<1> QED
  BY <1>1, <1>2, FailEmpty DEF Ended

LEMMA NewSessionIDPairs ==
  ASSUME Types, NEW k \in Calls, NewSessionID(k)
  PROVE  PairStep
<1>1. /\ pc[k] = "idle" /\ pc'[k] = "session" /\ UNCHANGED <<queue, rx, tunnels>>
      /\ \A j \in Calls \ {k} : pc'[j] = pc[j] /\ result'[j] = result[j]
  BY OneCall DEF NewSessionID, Goto
<1>2. Asked' = Asked
  BY <1>1, AskedKept DEF Unsent
<1> QED
  BY <1>1, <1>2, BeginStep DEF Ended

LEMMA NewSessionPairs ==
  ASSUME Types, NEW k \in Calls, NewSession(k)
  PROVE  PairStep
<1>1. /\ pc[k] = "session" /\ pc'[k] = "send" /\ UNCHANGED <<queue, rx, tunnels>>
      /\ \A j \in Calls \ {k} : pc'[j] = pc[j] /\ result'[j] = result[j]
  BY OneCall DEF NewSession, Goto
<1>2. Asked' = Asked
  BY <1>1, AskedKept DEF Unsent
<1> QED
  BY <1>1, <1>2, QuietStep DEF Ended

LEMMA SendRequestPairs ==
  ASSUME NEW id \in [Calls -> IDs \cup {0}], NEW place \in [Calls -> Places], IInvOf(id, place),
         NEW k \in Calls, SendRequest(k)
  PROVE  PairStep
<1> USE DEF IInvOf
<1> DEFINE e == Owner[k]
<1>1. pc[k] = "send" /\ UNCHANGED <<rx, tunnels, result>> /\ e \in Ends
  BY EndFacts DEF SendRequest
<1>2. Near[k] = {}
  BY <1>1, TunnelsOf DEF Holding, CallOK
<1>3. CASE shut[e] # "open"
  <2>1. /\ pc'[k] = "panic" /\ queue' = queue
        /\ \A j \in Calls \ {k} : pc'[j] = pc[j] /\ result'[j] = result[j]
    BY <1>1, <1>3, OneCall DEF SendRequest, Goto
  <2>2. Asked' = Asked
    BY <1>1, <2>1, AskedKept DEF Unsent
  <2> QED
    BY <1>1, <1>2, <2>1, <2>2, FailEmpty DEF Ended
<1>4. CASE shut[e] = "open"
  <2>1. /\ pc'[k] = "wait" /\ queue' = [queue EXCEPT ![e] = Append(@, Request(sid[k], k))]
        /\ \A j \in Calls \ {k} : pc'[j] = pc[j] /\ result'[j] = result[j]
    BY <1>1, <1>4, OneCall DEF SendRequest, Goto
  <2>2. ASSUME NEW j \in Calls PROVE Pending(j)' <=> Pending(j)
    <3>1. InQueue(j)' <=> InQueue(j) \/ (Owner[j] = e /\ IsRequest(Request(sid[k], k), j))
      BY <1>1, <2>1, InQueueAppended
    <3>2. IsRequest(Request(sid[k], k), j) <=> j = k
      BY DEF IsRequest, Request
    <3>3. InHand(j)' <=> InHand(j)
      BY <1>1 DEF InHand
    <3>4. j # k => (Unsent(j)' <=> Unsent(j))
      BY <2>1 DEF Unsent
    <3>5. j = k => Unsent(j)
      BY <1>1 DEF Unsent
    <3> QED
      BY <3>1, <3>2, <3>3, <3>4, <3>5, PendingIs
  <2> QED
    BY <1>1, <2>1, <2>2, AskedSame, QuietStep DEF Ended
<1> QED
  BY <1>3, <1>4

LEMMA AwaitPairs ==
  ASSUME NEW id \in [Calls -> IDs \cup {0}], NEW place \in [Calls -> Places], IInvOf(id, place),
         NEW k \in Calls, Await(k)
  PROVE  PairStep
<1> USE DEF IInvOf
<1>1. pc[k] = "wait" /\ UNCHANGED <<rx, tunnels, queue>> /\ GoOn(k, inbound[k][1])
  BY DEF Await
<1>2. Near[k] = {}
  BY <1>1, TunnelsOf DEF Holding, CallOK
<1>3. CASE Goto(k, "exist") /\ result' = result
  BY <1>1, <1>3, GoesOn
<1>4. CASE Finish(k, "error")
  BY <1>1, <1>2, <1>4, FailsWithout
<1> QED
  BY <1>1, <1>3, <1>4 DEF GoOn

LEMMA LocalExistPairs ==
  ASSUME NEW id \in [Calls -> IDs \cup {0}], NEW place \in [Calls -> Places], IInvOf(id, place),
         NEW k \in Calls, LocalExist(k)
  PROVE  PairStep
<1> USE DEF IInvOf
<1>1. pc[k] = "exist" /\ UNCHANGED <<rx, tunnels, queue>>
  BY DEF LocalExist
<1>2. Near[k] = {}
  BY <1>1, TunnelsOf DEF Holding, CallOK
<1>3. CASE Goto(k, "insert") /\ result' = result
  BY <1>1, <1>3, GoesOn
<1>4. CASE Finish(k, "existed")
  BY <1>1, <1>2, <1>4, FailsWithout
<1> QED
  BY <1>3, <1>4 DEF LocalExist

LEMMA LocalInsertPairs ==
  ASSUME NEW id \in [Calls -> IDs \cup {0}], NEW place \in [Calls -> Places], IInvOf(id, place),
         NEW k \in Calls, LocalInsert(k)
  PROVE  PairStep
<1> USE DEF IInvOf
<1>1. /\ pc[k] = "insert" /\ pc'[k] = "listen" /\ UNCHANGED <<rx, queue>>
      /\ tunnels' = [tunnels EXCEPT ![Owner[k]][tid[k]] = k]
      /\ \A j \in Calls \ {k} : pc'[j] = pc[j] /\ result'[j] = result[j]
  BY OneCall DEF LocalInsert, Goto
<1>2. Going(k) /\ ~Holding(k)
  BY <1>1 DEF Going, Holding, CallOK
<1>3. Near[k] = {} /\ Far[k] = {id[k]} /\ tid[k] = id[k] /\ id[k] \in IDs /\ Owner[k] \in Ends
  BY <1>2, TunnelsOf, Placed, EndFacts
<1>4. tunnels[Owner[k]][id[k]] = NoCall
  BY <1>1, <1>3, GivenImpliesFree DEF IdIsFree
<1>5. Far' = Far /\ Near' = [Near EXCEPT ![k] = Near[k] \cup {id[k]}]
  <2>1. tunnels' = [tunnels EXCEPT ![Owner[k]][id[k]] = k]
    BY <1>1, <1>3
  <2> QED
    BY <2>1, <1>3, <1>4, Entered
<1>6. Near' = [Near EXCEPT ![k] = Far[k]]
  BY <1>3, <1>5
<1>7. Asked' = Asked
  BY <1>1, AskedKept DEF Unsent
<1>8. CallState' = CallState
  BY <1>1, CallStateSame DEF Ended
<1> QED
  BY <1>1, <1>3, <1>5, <1>6, <1>7, <1>8, EnterStep DEF Ended

LEMMA LocalListenPairs ==
  ASSUME NEW id \in [Calls -> IDs \cup {0}], NEW place \in [Calls -> Places], IInvOf(id, place),
         NEW k \in Calls, LocalListen(k)
  PROVE  PairStep
<1> USE DEF IInvOf
<1>1. pc[k] = "listen" /\ UNCHANGED <<rx, tunnels, queue>>
  BY DEF LocalListen
<1>2. Near[k] = {id[k]} /\ Far[k] = {id[k]}
  BY <1>1, TunnelsOf DEF Going, Holding
<1>3. CASE Goto(k, "undo") /\ result' = result
  BY <1>1, <1>3, GoesOn
<1>4. CASE Finish(k, "ok")
  <2>1. /\ pc'[k] = "done" /\ result'[k] = "ok"
        /\ \A j \in Calls \ {k} : pc'[j] = pc[j] /\ result'[j] = result[j]
    BY <1>4, Finished
  <2>2. Asked' = Asked
    BY <1>1, <2>1, AskedKept DEF Unsent
  <2>3. pc[k] \notin Ended /\ Near[k] = Far[k] /\ Far[k] # {}
    BY <1>1, <1>2 DEF Ended
  <2> QED
    BY <1>1, <2>1, <2>2, <2>3, OpenStep
<1> QED
  BY <1>3, <1>4 DEF LocalListen

LEMMA LocalUndoPairs ==
  ASSUME NEW id \in [Calls -> IDs \cup {0}], NEW place \in [Calls -> Places], IInvOf(id, place),
         NEW k \in Calls, LocalUndo(k)
  PROVE  PairStep
<1> USE DEF IInvOf
<1>1. /\ pc[k] = "undo" /\ pc'[k] = "done" /\ result'[k] = "error" /\ UNCHANGED <<rx, queue>>
      /\ tunnels' = [tunnels EXCEPT ![Owner[k]][tid[k]] = NoCall]
      /\ \A j \in Calls \ {k} : pc'[j] = pc[j] /\ result'[j] = result[j]
  BY Finished DEF LocalUndo, Undo
<1>2. Going(k) /\ Holding(k)
  BY <1>1 DEF Going, Holding
<1>3. Near[k] = {id[k]} /\ tid[k] = id[k] /\ id[k] \in IDs /\ Owner[k] \in Ends
  BY <1>2, TunnelsOf, Placed, EndFacts
<1>4. tunnels[Owner[k]][id[k]] = k
  BY <1>2 DEF TunnelsOK
<1>5. Far' = Far /\ Near' = [Near EXCEPT ![k] = Near[k] \ {id[k]}]
  <2>1. tunnels' = [tunnels EXCEPT ![Owner[k]][id[k]] = NoCall]
    BY <1>1, <1>3
  <2> QED
    BY <2>1, <1>3, <1>4, TakenOut
<1>6. Near' = [Near EXCEPT ![k] = {}]
  BY <1>3, <1>5
<1>7. Asked' = Asked
  BY <1>1, AskedKept DEF Unsent
<1> QED
  BY <1>1, <1>5, <1>6, <1>7, FailStep DEF Ended

-------------------------------------------------------------------------------
\* The steps of the receive loop and of the link.

LEMMA ReceivePairs ==
  ASSUME NEW id \in [Calls -> IDs \cup {0}], NEW place \in [Calls -> Places], IInvOf(id, place),
         NEW e \in Ends, Receive(e)
  PROVE  PairStep
<1> USE DEF IInvOf
<1> DEFINE d == Other(e)
           m == Head(queue[d])
<1>1. /\ rx[e] = Idle /\ queue[d] # <<>> /\ queue' = [queue EXCEPT ![d] = Tail(@)]
      /\ UNCHANGED <<pc, result, tunnels>> /\ d \in Ends /\ Other(d) = e
  BY EndFacts DEF Receive, callVars
<1>2. \/ m.type = "request" /\ rx' = [rx EXCEPT ![e] = Handling("insert", m, NextTunnelID(e))]
      \/ m.type = "response" /\ rx' = rx
  BY DEF Receive
<1>3. rx \in [Ends -> {Idle} \cup Creations \cup Answers]
  BY DEF Types
<1>4. m.type = "request" => Owner[m.call] = d
  <2>1. queue[d] \in Seq(Requests \cup Replies)
    BY <1>1 DEF Types
  <2>2. 1 \in DOMAIN queue[d] /\ m = queue[d][1]
    BY <2>1, <1>1, TailFacts
  <2>3. MessageOK(d, queue[d][1], id, place)
    BY <2>2, <1>1 DEF QueueOK
  <2>4. MessageOK(d, m, id, place)
    BY <2>2, <2>3
  <2> QED
    BY <2>4 DEF MessageOK
<1>5. ASSUME NEW j \in Calls PROVE Pending(j)' <=> Pending(j)
  <2>1. /\ InQueue(j)' => InQueue(j)
        /\ InQueue(j) => InQueue(j)' \/ (Owner[j] = d /\ IsRequest(m, j))
        /\ Owner[j] = d /\ IsRequest(m, j) => InQueue(j)
    BY <1>1, InQueueTaken
  <2>2. Unsent(j)' <=> Unsent(j)
    BY <1>1 DEF Unsent
  <2>3. CASE m.type = "response" /\ rx' = rx
    <3>1. ~IsRequest(m, j)
      BY <2>3 DEF IsRequest
    <3>2. InHand(j)' <=> InHand(j)
      BY <2>3 DEF InHand
    <3> QED
      BY <2>1, <2>2, <3>1, <3>2, PendingIs
  <2>4. CASE m.type = "request" /\ rx' = [rx EXCEPT ![e] = Handling("insert", m, NextTunnelID(e))]
    <3>1. Peer(j) # e => (InHand(j)' <=> InHand(j))
      BY <2>4, <1>3, EndFacts DEF InHand
    <3>2. Peer(j) = e => ~InHand(j) /\ (InHand(j)' <=> m.call = j)
      BY <2>4, <1>1, <1>3 DEF InHand, Idle, Handling
    <3>3. Peer(j) = e <=> Owner[j] = d
      BY <1>1, EndFacts DEF Peer
    <3>4. IsRequest(m, j) <=> m.call = j
      BY <2>4 DEF IsRequest
    <3>5. m.call = j => Owner[j] = d
      BY <2>4, <1>4
    <3> HIDE DEF d, m
    <3> QED
      BY <2>1, <2>2, <3>1, <3>2, <3>3, <3>4, <3>5, PendingIs
  <2> QED
    BY <1>2, <2>3, <2>4
<1> QED
  BY <1>1, <1>5, AskedSame, QuietStep

\* A step of the receive loop after it has inserted the tunnel.
LEMMA AskedAfter ==
  ASSUME Types, NEW e \in Ends, rx[e].at # "insert", NEW x, x.at # "insert",
         rx' = [rx EXCEPT ![e] = x], pc' = pc,
         \A k \in Calls : InQueue(k)' <=> InQueue(k)
  PROVE  Asked' = Asked
<1>1. rx'[e] = x /\ \A d \in Ends \ {e} : rx'[d] = rx[d]
  BY DEF Types
<1>2. \A k \in Calls : (InHand(k)' <=> InHand(k)) /\ (Unsent(k)' <=> Unsent(k))
  BY <1>1, EndFacts DEF InHand, Unsent
<1> QED
  BY <1>2, PendingSame

LEMMA RemoteInsertPairs ==
  ASSUME NEW id \in [Calls -> IDs \cup {0}], NEW place \in [Calls -> Places], IInvOf(id, place),
         NEW e \in Ends, RemoteInsert(e)
  PROVE  PairStep
<1> USE DEF IInvOf
<1>1. PICK k \in Calls, m \in Requests :
        /\ rx[e].msg = m /\ m.call = k /\ rx[e].tunnel = id[k] /\ id[k] \in IDs /\ id[k] # 0
        /\ Peer(k) = e /\ place[k] = "handled" /\ ~Going(k) /\ ~Holding(k)
        /\ \A i \in IDs : tunnels[e][i] # k
  BY CreationFacts DEF RemoteInsert
<1>2. PICK i \in IDs : i = id[k]
  BY <1>1
<1>3. /\ rx[e].at = "insert" /\ tunnels' = [tunnels EXCEPT ![e][i] = k]
      /\ rx' = [rx EXCEPT ![e] = Handling("listen", m, i)] /\ UNCHANGED <<pc, result, queue>>
  BY <1>1, <1>2 DEF RemoteInsert, callVars
<1>4. tunnels[e][i] = NoCall
  BY <1>1, <1>2, IdFree
<1>5. Far[k] = {} /\ Near[k] = {}
  BY <1>1, TunnelsAre, TunnelsOf
<1>6. Near' = Near /\ Far' = [Far EXCEPT ![k] = {i}]
  <2>1. Near' = Near /\ Far' = [Far EXCEPT ![k] = Far[k] \cup {i}]
    <3>1. Types /\ e = Peer(k)
      BY <1>1
    <3> QED
      BY <3>1, <1>3, <1>4, Entered
  <2> QED
    BY <1>5, <2>1
<1>7. ASSUME NEW j \in Calls PROVE i \notin Near[j] /\ i \notin Far[j]
  <2>1. tunnels[Owner[k]][i] = NoCall
    BY <1>1, <1>2, IdFree, EndFacts DEF TunnelsOK
  <2>2. tunnels[Owner[j]][i] = NoCall /\ tunnels[Peer(j)][i] = NoCall
    BY <1>1, <1>4, <2>1, EndFacts
  <2> QED
    BY <2>2, CallAssumption, TunnelsAre
<1>8. pc[k] \notin {"idle", "session", "send", "panic"}
  BY <1>1 DEF CallOK
<1>9. ~Pending(k)' /\ Pending(k)
  <2>1. ~InQueue(k)
    BY <1>1, EndFacts DEF InQueue, QueueOK, MessageOK, IsRequest
  <2>2. ~InQueue(k)'
    BY <1>3, <2>1 DEF InQueue
  <2>3. ~InHand(k)'
    BY <1>1, <1>3 DEF InHand, Handling, Types
  <2>4. InHand(k)
    BY <1>1, <1>3 DEF InHand
  <2>5. ~Unsent(k)'
    BY <1>3, <1>8 DEF Unsent
  <2> QED
    BY <2>2, <2>3, <2>4, <2>5, PendingIs
<1>10. ASSUME NEW j \in Calls \ {k} PROVE Pending(j)' <=> Pending(j)
  <2>1. (InQueue(j)' <=> InQueue(j)) /\ (Unsent(j)' <=> Unsent(j))
    BY <1>3 DEF InQueue, Unsent
  <2>2. rx'[e].at = "listen" /\ \A d \in Ends \ {e} : rx'[d] = rx[d]
    BY <1>3 DEF Handling, Types
  <2>3. InHand(j)' <=> InHand(j)
    BY <1>1, <2>2, EndFacts DEF InHand
  <2> QED
    BY <2>1, <2>3, PendingIs
<1>11. Asked' = [Asked EXCEPT ![k] = TRUE]
  BY <1>9, <1>10, AskedChanges
<1>12. CallState' = CallState
  BY <1>3, CallStateSame
<1>13. CallState[k] # "new"
  BY <1>8, CallStateIs
<1> QED
  BY <1>6, <1>7, <1>9, <1>11, <1>12, <1>13, CreateStep

LEMMA RemoteUndoPairs ==
  ASSUME NEW id \in [Calls -> IDs \cup {0}], NEW place \in [Calls -> Places], IInvOf(id, place),
         NEW e \in Ends, RemoteUndo(e)
  PROVE  PairStep
<1> USE DEF IInvOf
<1>1. rx[e].at = "undo"
  BY DEF RemoteUndo
<1>2. PICK k \in Calls, m \in Requests :
        /\ rx[e].msg = m /\ m.call = k /\ rx[e].tunnel = id[k] /\ id[k] \in IDs
        /\ Peer(k) = e /\ place[k] = "handled" /\ ~Going(k) /\ ~Holding(k)
        /\ tunnels[e][id[k]] = k
  BY <1>1, CreationFacts
<1>3. PICK i \in IDs : i = id[k]
  BY <1>2
<1>4. /\ tunnels' = [tunnels EXCEPT ![e][i] = NoCall]
      /\ rx' = [rx EXCEPT ![e] = Answering(@.msg, "create-tunnel-failed", @.tunnel)]
      /\ UNCHANGED <<pc, result, queue>>
  BY <1>2, <1>3 DEF RemoteUndo, Undo, callVars
<1>5. Near[k] = {} /\ Far[k] \subseteq {i}
  BY <1>2, <1>3, TunnelsOf
<1>6. Near' = Near /\ Far' = [Far EXCEPT ![k] = {}]
  <2>1. Near' = Near /\ Far' = [Far EXCEPT ![k] = Far[k] \ {i}]
    <3>1. Types /\ e = Peer(k) /\ tunnels[e][i] = k
      BY <1>2, <1>3
    <3> QED
      BY <3>1, <1>4, TakenOut
  <2>2. Far[k] \ {i} = {}
    BY <1>5
  <2> QED
    BY <2>1, <2>2
<1>7. Asked' = Asked
  <2>1. Answering(rx[e].msg, "create-tunnel-failed", rx[e].tunnel).at = "answer"
    BY DEF Answering
  <2>2. \A j \in Calls : InQueue(j)' <=> InQueue(j)
    BY <1>4 DEF InQueue
  <2> QED
    BY <1>1, <1>4, <2>1, <2>2, AskedAfter
<1>8. CallState' = CallState
  BY <1>4, CallStateSame
<1>9. CallState[k] # "opened"
  BY <1>2, CallStateIs DEF CallState, Holding
<1> QED
  BY <1>5, <1>6, <1>7, <1>8, <1>9, WithdrawStep

LEMMA RemoteListenPairs ==
  ASSUME Types, NEW e \in Ends, RemoteListen(e)
  PROVE  PairStep
<1>1. PICK x : /\ rx' = [rx EXCEPT ![e] = x] /\ x.at # "insert"
               /\ UNCHANGED <<pc, result, queue, tunnels>> /\ rx[e].at = "listen"
  BY DEF RemoteListen, Handling, Answering, callVars
<1>2. \A j \in Calls : InQueue(j)' <=> InQueue(j)
  BY <1>1 DEF InQueue
<1>3. Asked' = Asked
  BY <1>1, <1>2, AskedAfter
<1> QED
  BY <1>1, <1>3, QuietStep

LEMMA AnswerPairs ==
  ASSUME Types, NEW e \in Ends, Answer(e)
  PROVE  PairStep
<1>1. /\ rx' = [rx EXCEPT ![e] = Idle] /\ Idle.at # "insert" /\ rx[e].at = "answer"
      /\ queue' = [queue EXCEPT ![e] = Append(@, rx[e].msg)]
      /\ UNCHANGED <<pc, result, tunnels>>
  BY DEF Answer, Idle, callVars
<1>2. rx[e].msg.type = "response"
  BY <1>1, RxFacts DEF Replies
<1>3. \A j \in Calls : InQueue(j)' <=> InQueue(j)
  BY <1>1, <1>2, InQueueAppended DEF IsRequest
<1>4. Asked' = Asked
  BY <1>1, <1>3, AskedAfter
<1> QED
  BY <1>1, <1>4, QuietStep

LEMMA LinkPairs ==
  ASSUME UNCHANGED <<pc, result, tunnels, queue, rx>>
  PROVE  PairStep
<1>1. Asked' = Asked
  BY AskedKept DEF Unsent
<1> QED
  BY <1>1, QuietStep

-------------------------------------------------------------------------------
\* Every step.

LEMMA StepPairs == IInv /\ [Next]_vars => PairStep
<1> SUFFICES ASSUME NEW id \in [Calls -> IDs \cup {0}], NEW place \in [Calls -> Places],
                    IInvOf(id, place), [Next]_vars
             PROVE  PairStep
  BY DEF IInv
<1>1. Types
  BY DEF IInvOf
<1>2. ASSUME NEW k \in Calls, OpenTunnel(k) \/ NewSessionID(k) PROVE PairStep
  BY <1>1, <1>2, NewSessionIDPairs, NewSessionPairs, SendRequestPairs, AwaitPairs, LocalExistPairs,
     LocalInsertPairs, LocalListenPairs, LocalUndoPairs DEF OpenTunnel
<1>3. ASSUME NEW e \in Ends, Recv(e) PROVE PairStep
  BY <1>1, <1>3, ReceivePairs, RemoteInsertPairs, RemoteListenPairs, RemoteUndoPairs, AnswerPairs DEF Recv
<1>4. ASSUME NEW e \in Ends, Close(e) \/ CloseOther(e) PROVE PairStep
  <2>1. UNCHANGED <<pc, result, tunnels, queue, rx>>
    BY <1>4 DEF Close, CloseOutbound, Sweep, Collect, DeleteListener, CloseSessions, CloseOther, callVars
  <2> QED
    BY <2>1, LinkPairs
<1>5. CASE Break \/ UNCHANGED vars
  <2>1. UNCHANGED <<pc, result, tunnels, queue, rx>>
    BY <1>5 DEF Break, vars, callVars
  <2> QED
    BY <2>1, LinkPairs
<1> QED
  BY <1>2, <1>3, <1>4, <1>5 DEF Next

LEMMA StartPairs == Init => TP!Start
<1> SUFFICES ASSUME Init PROVE TP!Start
  OBVIOUS
<1>1. CallState = [k \in Calls |-> "new"]
  BY DEF CallState, Init
<1>2. Asked = [k \in Calls |-> FALSE]
  <2>1. \A k \in Calls : (~Pending(k)) = FALSE
    BY PendingIs DEF Init, Unsent
  <2> QED
    BY <2>1 DEF Asked
<1>3. Near = [k \in Calls |-> {}] /\ Far = [k \in Calls |-> {}]
  BY EndFacts, CallAssumption DEF Init, Near, Far, Peer
<1> QED
  BY <1>1, <1>2, <1>3 DEF TP!Start, CallState, Asked, Near, Far

\* Opening a tunnel is what TunnelPairing says of it, whatever the order of the requests and
\* the responses and of the steps of both ends, and wherever an attempt fails or the link
\* ends: the other end does what is asked once, under an id that is nobody else's, the
\* caller has its end only while the other end has its own, and the call returns nil only
\* when both have (link/request.go:13-65, link/handler.go:59-88, tunnel/manager.go:64-80).
THEOREM TunnelsArePaired == Spec => PairsTunnels
<1>1. Init => TP!Start
  BY StartPairs
<1>2. IInv /\ [Next]_vars => PairStep
  BY StepPairs
<1> QED
  BY <1>1, <1>2, Invariance, PTL
  DEF Spec, PairStep, PairsTunnels, TP!Pairing, CallState, Asked, Near, Far
================================================================================
