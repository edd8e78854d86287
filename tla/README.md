# ooclab/es: TLA+ models, model checking and proofs

`es` multiplexes many streams over one connection.  A **link** (`link/`) runs over any message
connection (`conn.go`).  Over the link two ends talk in **sessions** (`session/`, request and
response) and forward TCP connections through **tunnels** (`tunnel/`), one **channel**
(`tunnel/channel/`) per forwarded connection.  Independently, `proto/udp/` is a reliable message
transport over UDP that can carry a link.

This directory holds TLA+ modules of these parts, the TLC configurations that check them on
small instances, and proofs checked by TLAPS.  All paths below are relative to the repository's
root.

## 1. Inventory

| component | state | operations | talks to |
|---|---|---|---|
| UDP segmentation and reassembly, `proto/udp/udp.go` 65-231 | `msgRecving`: readBuf, saved, nextID, largestOrderID, needLength, readLength, completed | `segmentCount`, `IterBufferd`, `GetSegmentByOrderID`; `Save`, `GetMissing` | used by `Conn` |
| UDP message transfer, `udp.Conn` | sending list `sl`, `slWait`, pending `requests`, receiving list `rl`, `inbound`, `shutdownCh` | `SendMsg`, `queryMsgReceive`, `RecvMsg`, `Close`; handlers of trans, received, req and rep segments | datagrams; one receive loop per socket calls all handlers |
| UDP sockets, `proto/udp/udp.go` 801-1081 | `connPool` (Conns by address), `clientPool`, `clientCh` (one Conn) | `recv`, `Accept`, `GarbageCollection`, `handshake`, `pingLoop`, `Conn.Close` | create `Conn`s and hand them to `Accept` |
| channels and their pool, `tunnel/channel/` | `closed`, `closedByRemote` per channel; the pool by id | `Serve`, `HandleIn`, `Close`, `SetClosedByRemote`; pool `New`, `NewByID`, `Get`, `Exist`, `Delete` | the application's connection; `outbound` of the link |
| tunnel | configuration, channel pool | `HandleIn`, `ServeChannel`, `HandleChannelClose`, `closeRemoteChannel`, `Listen` | called by the receive loop and by a goroutine per channel |
| tunnel manager, tunnel pool, listen pool | tunnels by id, `curID`; listeners by address (one pool per process) | `TunnelCreate`, `HandleIn`, `Close` | called by callers of `OpenTunnel` and by the receive loop |
| session | sessions by id, `curID`; `inbound` of each session | `New`, `SendAndWait`, `HandleIn`, `Close` | `outbound` of the link; request handler |
| tunnel request, `link/request.go`, `link/handler.go` | none of its own | `OpenTunnel` at one end, the `/tunnel` handler at the other | session and tunnel managers |
| link, `link/link.go` | `outbound` (one message), `stopCh`, `shutdownCh`, `pings`, time of the last message | `Bind`, `Wait`, `Stop`, `Close`, `recv`, `send`, `Ping`, `keepalive` | connection; dispatches to both managers |
| framing, `conn.go` | none | `Recv`, `Send`, `mustRecv` | byte stream |
| encryption, router, encodings, UDP channels, examples | - | - | not modelled, see section 8 |

What is hard, and the property each component has to have:

* **UDP transfer.**  Slots (`transID`) are reused message after message and segments do not say
  which message they belong to; notices, replies and segments are lost, repeated and overtake
  each other; timers race late answers; three mutexes guard three maps that have to agree.
  *Correct* means: one call per slot; a waiting call can be told; a query tells exactly what is
  missing; every call returns; what is received is what was sent, once.
* **Tunnel and channels.**  A close travels in one direction while data travels in the other; a
  channel's goroutine and the receive loop close, mark and delete the same entry in several
  critical sections; an id is opened again by data that was on its way; the receive loop blocks
  in `conn.Write`; the link may fail at any point.  *Correct* means: streams in order and not
  mixed, closes told exactly to those who need them, nothing forgotten, no loop waiting for
  itself.
* **Opening a tunnel.**  Both ends give ids without asking, insert in two critical sections, and
  listen after inserting; the request blocks without a timeout; the response is delivered inside
  the receive loop; the link may close in between.  *Correct* means: the same id is the same
  tunnel at both ends, a returned success is true at both ends, listeners and tunnels agree, and
  every call returns.
* **Link lifecycle.**  `Stop` tests and closes in two steps and three goroutines call it; `Bind` and `Wait`
  replace `stopCh` and `wg` under goroutines that use them; `Close` closes a channel others send on;
  `Ping` waits for room without its timeout.  *Correct* means: a binding that has ended ends both
  loops and closes the connection; `Wait` leaves nothing behind; `Bind` returns; an answer completes
  its own ping; no panic.  The last one does not hold, so the property says which panics of `link.go` there are
  and which goroutines have to race in them: closing `stopCh` twice or nil, sending on the closed
  `outbound`, `wg` nil, and `m[0]` of an empty message (`link.go:274`).  Not among them are panics inside the
  managers, which have modules of their own, and those `sync.WaitGroup` raises of itself when `Add` races
  `Wait`, in the state `Early` of the model.
* **UDP sockets.**  The receive loop looks up, tests and inserts under three locks, the garbage
  collection collects and closes under two, the application closes without the pool, and a client
  may come back at the same address.  *Correct* means: one live Conn per address and no open Conn
  forgotten; every Conn of a server is accepted once; both ends learn of each other and, after a
  stop, forget each other.
* **Framing.**  Whatever the stream does to the boundaries, messages are received as they were sent.

`PROJECT.json` lists every hazard with its line and the properties that cover it.

## 2. Plan

| step | module | state |
|---|---|---|
| 1 | `MsgRecving` - pure operators of reassembly | done |
| 2 | `UDPTransfer` (extends 1), abstract specification `ReliableChannel` | done |
| 3 | `UDPTransferProofs` - type correctness, retransmission, bookkeeping, success | done |
| 4 | `Tunnel` - channels of one tunnel over one link | done |
| 5 | `OpenTunnel` - sessions, tunnel ids, listeners | done |
| 6 | `Link` - Bind, recv/send loops, Stop, Wait, Ping, keepalive, Close, a link bound again; `Framing` - the connection under it | done |
| 7 | `UDPSocket` - pool, garbage collection, Accept, handshake, ping loop, Close, at both ends | done |
| 8 | `UDPSocketProofs`, `LinkProofs` - every safety property of their modules | done |
| 9 | `OpenTunnel`: several links of one process over the one listen pool | done |
| 10 | `OpenTunnelProofs` - every safety property of `OpenTunnel` | done |
| 11 | `TunnelProofs` - every safety property of `Tunnel`, from one invariant on where a channel's messages are | done |
| 12 | `UDPDeliveryProofs` - `FreshSlotIntact`; that a step of `UDPTransfer` without faults is a step or a stutter of `ReliableChannel` | done |
| 13 | `FramingProofs` - that Recv returns what Send was given however the stream is cut | done |
| 14 | `TunnelPairing`, an abstract specification of opening a tunnel; `TunnelPairingProofs` - `OpenTunnel` implements it | done |

`UDPTransfer` composes `MsgRecving`.  `Tunnel` and `OpenTunnel` describe two layers over the same
link: one takes the tunnel as given and looks at its channels, the other creates tunnels and has
no channels.  Composed in one module they would only multiply their states: they share the
receive loop and the queue, and each module has both.  `Link` is the layer below: it has the
connections, the loops and the shutdown in full and, of what the loops carry, only what decides
about them: pings, and messages that a manager refuses.  `MCLink` composes it with `Framing`, which
is what makes a queue of messages out of a byte stream.

## 3. Modules

### `MsgRecving` - segmentation and reassembly
A segment is a pair of the message it was cut from and its order id.  `body` stands for readBuf and
`saved` together: the code concatenates in increasing order id.  Lengths are kept, since `Save`
decides on completion by `needLength <= readLength`, a sum that includes segments parked behind a
gap.  `Save`, `GetMissing` and `SegmentCount` are the functions of the same names.

### `UDPTransfer` - one direction of one `udp.Conn`
Each message is one call of `SendMsg`, a goroutine with a program counter:
`idle -> register -> full -> wait/query -> asking -> ... -> done`.  `sl`, `slWait`, `requests`, `rl`
and `inbound` are the fields of `Conn`; `closed` is the set of closed wait channels; `blocked` is
the call on whose channel `handleRep` hangs with `requestMutex` held.  A burst of segments is
one step: `WriteToUDP` does not block, and the network may deliver the segments in any order
anyway.  Datagrams in flight are a set (two equal datagrams count as one, which repetition by the
network makes up for).  `Faults` names what the network and the clocks may do, so that each run
says under which assumptions its properties hold.  `log` is a history variable.

### `ReliableChannel` - what a caller counts on
At most once, unchanged, and success only after arrival.  `UDPTransfer` refines it (`RC`, by the
mapping of `pc`, `result` and `log`) as long as the network does not lose, repeat or reorder.

### `Tunnel` - the channels of one tunnel
End `F` listens, end `R` dials.  A `tcpChannel` object is (end, channel id, generation): the
reverse end makes a new object when data of an unknown id arrives.  Per object: the goroutine
`ServeChannel`/`Serve` (`phase`), `closed`, `closedByRemote`; per end: the pool, the receive loop
(`rx`, which is in the middle of a Write or of the three steps of `HandleChannelClose`), and whether
the link is up or closed.  Applications send, leave or stop reading whenever they like.  One queue
stands for `outbound`, the message the send loop holds and the connection's buffers.

Keepalive is here because it decides what becomes of a link whose receive loop hangs.  `Ping` puts its
request into the queue and waits for room there, outside of its select (`link.go:202`), and the receive
loop of the other end puts its answer into its own queue (`Reply`).  Only a Ping that was sent and then failed
can stop the link (`KeepaliveStop`), and only a send loop that is not in `conn.Send` takes notice (`SendWaits`).
So there is a state nobody leaves, `Jammed`: both receive loops hang, in a Write to an application that does
not read or with an answer there is no room for, and both queues are full, so that neither keepalive
gets its ping out.  It needs two stalled applications, or fewer where answers to
pings take their place.

### `OpenTunnel` - from a call to two tunnels
Per call: the steps of `defaultOpenTunnel` with the two critical sections of `session.Pool.New` and
of `tunnel.Pool.New`.  Per end: session ids, sessions, tunnel ids, tunnels, listeners, the receive
loop (with the steps of `TunnelCreate` inside the handler) and the steps of `Link.Close`.
`globalListenPool` belongs to the process: at the ends in `Shared` there is another link, whose
`Close` sweeps the same pool (`sweep`).  A sweep is `IterBuffered` - the channel is sized without the
lock, then filled under it - followed by one `Delete` per address.  When two tunnels have begun to
listen since the channel was sized, it is filled with the lock held and stays so (`Locked`).
`robbed` is a history variable: the calls whose listener another link took.

### `TunnelPairing` - what a caller of OpenTunnel counts on
Per call: how far it is, whether the other end has been asked, and the ids (none or one) under which
its tunnel stands at the near and at the far end.  The other end creates the tunnel at most once,
under an id that no other tunnel of the link has at either end; the near end enters it only while the far end
has it and under the same id; the call opens only when both have it, and a call that fails leaves
nothing at its own end, while at the other end the tunnel may stay or come later.  Sessions, queues,
ids to be given and listeners are not part of it.  `OpenTunnel` refines it (`TP`, a mapping of `pc`, `result`,
`tunnels` and of where the request is, `Pending`): `PairsTunnels`.

### `Link` - the life of one link
`pc` holds the place of each goroutine: the owner, who binds, waits, binds again or closes as
`test/common.go` and the examples do; keepalive; and a receive and a send loop per binding.  `wg`
and `stopCh` name the binding that made them (0: nil), because the loops and keepalive read the
fields at the time they use them, not at the time they were started.  `Stop` is two steps, test and
close.  `Start` and `Finish` are the `wg.Add(1)` and `wg.Done()` inside the goroutines.  A `Ping` is
registering, putting the request into `outbound`, and the select.  The other end (`conn`) answers
requests, sends requests of its own, falls silent, breaks the connection, sends what is refused or a
message without a byte, which `conn.Send` makes of one of 65536 (`conn.go:52`) and which panics at `m[0]`.
A panic ends the process and is recorded with its goroutine in `crashed`.

What the model shows besides the properties, worth knowing when reading `link.go`: a link that
nobody binds is stopped by keepalive with `stopCh` nil, which panics, and the same happens after
`Wait`; keepalive may stop a second binding for the silence of the first; keepalive cannot stop a
link whose send loop hangs in `conn.Send`, since its own ping waits for `outbound` first, although
the comment at `ConnectionWriteTimeout` (`link.go:42-45`) wants a write to be bounded; entries of
pings that ended by shutdown stay in the table.

### `Framing` - two length bytes and a body
`Field`, `Frame`, `MustRecv` and `Recved` are functions on sequences of bytes of `Base` values; `Recved` takes
the stream in whatever chunks it comes.  The test against `maxMessageLength` looks at a number that
has been cut to 16 bits already, so nothing is ever refused.

### `UDPSocket` - how `Conn`s come and go
One module for the server and the clients, since the same receive loop and garbage collection run
in both.  `conns[s][a]` lists the Conns socket s has made for address a with what became of them;
`pool[s][a]` is the one in `addrConnMap`; `loop[s]` is where the receive loop is between `Get`, `New`, the offer
on `clientCh` and the handling, with the datagram and the Conn in hand; `idle[s]` is what
`GarbageCollection` has collected under its first lock.  `phase` is where `NewClientSocket` is.

### MC modules
`MCUDPTransfer`, `MCTunnel`, `MCOpenTunnel` and `MCUDPSocket` give the function-valued constants their
values; `MCLink` joins `Link` and `Framing`.

## 4. Runs

| run | expects | what it asks |
|---|---|---|
| `udp_hostile` | pass | every fault at once: `TypeOK`, `SlotExclusive`, `NoLostRegistration`, `AbandonedQuery`, `SuccessBacked`, `FreshSlotIntact` |
| `udp_recover` | pass | loss and close: `RetransmissionComplete`, and `SendReturns` (liveness) |
| `udp_reuse` | pass | early retries and slot reuse: `ImplementsChannel` (refinement) |
| `udp_success` | violation | `SuccessMeansDelivered` |
| `udp_mixed` | violation | `OnlySentMessages` |
| `udp_order` | violation | `ReadInOrder` |
| `tunnel_channel` | pass | client and server leave, dials fail, ends ping: `TypeOK`, `StreamInOrder`, `NoSplice`, `CloseAnnounced`, `ClosesHaveCause`, `EntryIsOwn` |
| `tunnel_flows` | pass | client and server stop reading or leave: `EveryChannelFlows`, `CloseArrives` (liveness) |
| `tunnel_slow` | violation | two channels, an application stops reading: `SlowChannelAlone` (liveness) |
| `open_tunnel` | pass | `TypeOK`, `OpenedBothEnds`, `ListenersMatchTunnels`, `ResponseExpected`, `OpenReturns` (liveness), `PairsTunnels` (refinement) |
| `link_life` | pass | every fault at once: `TypeOK`, `OnlyTheseRacesPanic`, `WaitMeansQuiet`, `PingIsOwn`, `PingTable`, and `BindingEnds`, `BindReturns` (liveness); `FramesSurvive` of the framing |
| `udp_sockets` | pass | every fault at once: `TypeOK`, `OneConnPerAddress`, `AcceptedOnce`, `OnlyDoubleClosePanics`, `ClientBlocksLate`, and `Connects`, `ServerKeepsUp`, `SilenceIsNoticed` (liveness) |

**Bounds.**  *udp_hostile*: two messages of two segments, two slots, a window of one segment: the
second call can take the slot the first has left or the other one; `goto QUERY` happens; MaxTimes 2
and MaxTries 1 make a call run into each of its ends; one repeated datagram; three completions are
one more than there are messages.  Thus the run has two calls at the same time, a slot used twice with stale segments,
notices, replies and registrations of the first use, and a receive loop blocked by an
abandoned query.  *udp_recover*: a message of three segments with a window of two, so that the
missing list and the segments beyond the largest both occur, and a second one of one segment.
*udp_reuse*: three messages over two slots, so that a slot is used again while the other is busy.
*tunnel_channel*: two chunks up, so that one can open the channel (or open it again) and one follow;
one chunk down; queues of two messages, so that a close can wait behind data.  A channel id can
have two generations; two applications leave, one at each end or both at the same, and each end pings once
although nothing hangs, so that pings and their answers stand between data and closes.  *tunnel_flows*: the
same streams and queues; two applications may stop reading, which is all that can hang a receive loop at each
end, so both loops hang at once, the queues fill and keepalive finds no room; one may leave, before it stalls,
after it, or instead.  Pings are not bounded while a loop hangs (`MaxPings` 0 only excludes
others).  *tunnel_slow*: the least that has a slow channel and another one: two channels, queues of one message.
More than one channel in the passing runs would only multiply the states, since channels share nothing but queue and
receive loop; the proofs cover any number.  *open_tunnel*: two calls at one end and one at the other, so that
both ends give ids at the same time; all three tunnels listen at end B, two of them (one from each
end) at the same address, so that a listener can be refused, and two listeners can appear while a
sweep is between its two steps; B's process has the other link; queues of one message.  *link_life*:
two bindings, the least for which something of the first can reach the second; connections that
buffer one message and `outbound` of one, so that both loops can wait for room; two ping ids at a
time, one for each goroutine that pings (a third would only be needed by an answer on its way,
and then the ping is delayed until an id is free).  Bytes of two values: a length field then holds up
to 3, and messages of 0 to 5 bytes lie on both sides of it, cut in every way into at most four
chunks or into single bytes.  *udp_sockets*: a server that makes at most two Conns for the client, a client process started
twice, which makes at most three of its own: the third is needed for `ClientBlocksLate`.  A second
client would multiply the states beyond what TLC reaches in minutes; the proofs cover any number of
clients, and liveness of one client depends on others only through `clientCh`, which `Accept` empties.

`CHECK_DEADLOCK FALSE` in every configuration: all workloads are finite, so the systems stop when
the calls are done and the applications are silent.  That they do not stop too early is what the
liveness properties say.

**Liveness.**  Where what has to happen follows from something that stays true once it is (a chunk was
read, a call has started, a connection was stopped), "it leads to Q" is stated as `[]<>(P => Q)`, and as
`<>[](P => Q)` when Q stays true as well, of all calls, bindings or channels at once: always again, none of
them is waiting.  This is at least as strong as one `P ~> Q` for each of them, and TLC checks it without a
tableau.  `Connects`, `ServerKeepsUp` and `BindReturns` have no such P; there `[]<>` says that a client
outside of `NewClientSocket`, an accepted Conn, an owner outside of `Bind` comes again and again, so that
a call that never returned would violate it.

**Fairness.**  Weak fairness of every goroutine that can go on (calls, channel goroutines, receive
loops, hand-over goroutines): the Go scheduler runs what is runnable.  In `OpenTunnel`, where no
goroutine takes steps for ever, it is enough that the process does not stop while a call, a receive loop or
the steps of `Link.Close` can go on.
In `Tunnel` keepalive pings while a receive loop hangs and the queue has room (`Ping`), its Ping ends by its timeout,
and a Ping that fails again and again while the loop of its own end hangs in a Write finds `maxLinkIdle` exceeded
once and stops the link, if its send loop is free again and again to take notice (strong fairness of
`KeepaliveStop`).  Nothing is assumed of a keepalive that waits for room: where nobody makes room the
link is not stopped.  In `Link` the owner is fair only inside the calls
it has made, keepalive's timer fires while the other end is silent, and a silent end is found idle
for longer than `maxLinkIdle` in the end (time passes).  Strong fairness stands where a goroutine waits
in a select or for a channel: among the waiting senders of `outbound` each gets its turn, and a
select that finds `stopCh` closed again and again takes it once.  In `UDPSocket` a server calls
`Accept` again and again, as `udp_test.go` and the example do, and a datagram that is sent for ever
is received once; a Conn whose other end is stopped expires.  Applications are not fair: nobody has to
send, leave or call anything.  Strong fairness of the arrival of a segment in `udp_recover`: a
segment that is written again and again arrives once; without it no retransmission protocol
returns before its bound, and the burst loop `goto QUERY` has none.  Replies and notices need no
such assumption since a call ends without them.

## 5. Findings

Four statements of the repository's comments, tests and documents are not kept by the code; each
has a run whose counterexample shows it.

1. `udp_success`: `SendMsg` returns nil for a message that is lost completely when the slot's last
   message was received (`proto/udp/udp.go:573`): the query's answer is about the slot.
2. `udp_mixed`: a segment that arrives once more after its message was completed is mixed into the
   next message on its slot (`proto/udp/udp.go:493`).
3. `udp_order`: a goroutine per message hands messages to the reader, in any order
   (`proto/udp/udp.go:503`), while `Write` and `Read` use the connection as a stream.
4. `tunnel_slow`: one application that does not read stops all channels of the link
   (`tunnel/channel/tcp.go:72`), against `TODO.md:23` and the design document.

What remains true is stated and checked beside them: `SuccessBacked` (a success is backed by a
completion on the slot), `FreshSlotIntact` (a slot used once delivers exactly its message under
every fault), `ImplementsChannel` (without faults of the network everything is as expected) and
`EveryChannelFlows` (chunks arrive, or the link goes down, or nobody moves any more).

Some exceptions stand in the properties themselves because the code has them: a call may hang in
a receive loop blocked for good by an abandoned query (`SendReturns`); both receive loops may hang with
both queues full, so that keepalive does not end the link (`Jammed` in `EveryChannelFlows`, `CloseArrives`);
nobody tells the reverse end to close a connection that late data has opened again (`CloseAnnounced`, `CloseArrives`); a receive
loop may wait for room in the outbound of a link whose send loop has gone, so that `Link.Wait` never
returns (`Hung` in `OpenReturns`, `RecvStuck` in `BindingEnds`); the listen pool may be locked for good
(`Locked` in `OpenReturns`); a send loop may hang in `conn.Send` for good (`SendStuck`); `Wait` right after
`Bind` may not know of the loops (`Early`); the panics of `OnlyTheseRacesPanic` and `OnlyDoubleClosePanics`
are real ones (an empty message among them); `NewClientSocket` waits for ever when its SYN or the answer
is lost (`Connects`); a message of more than 65535 bytes is sent with a wrong length (`FramesSurvive`).  None of them contradicts a
comment, document or test closely enough to be listed as a finding.

## 6. Proofs

`UDPTransferProofs` (T), `UDPDeliveryProofs` (D, on top of T), `UDPSocketProofs` (S), `LinkProofs` (L),
`OpenTunnelProofs` (O), `TunnelPairingProofs` (P, on top of O), `TunnelProofs` (C) and `FramingProofs` (F) prove their theorems for all values of the constants -
messages, lengths, segment and window sizes, slots; clients; bindings, ping ids; calls, addresses; channels, chunks; capacities,
bounds, numbers of closes, stalls and pings, and sets of faults - that satisfy the assumptions of the modules:

| | theorem | property |
|---|---|---|
| T | `TypeCorrect` | `TypeOK` |
| T | `RetransmissionIsComplete` | `RetransmissionComplete` |
| T | `SlotsAreExclusive` | `SlotExclusive` |
| T | `RegistrationIsKept` | `NoLostRegistration` |
| T | `OnlyAbandonedQueriesBlock` | `AbandonedQuery` |
| T | `SuccessIsBacked` | `SuccessBacked` |
| D | `FreshSlotsIntact` | `FreshSlotIntact` |
| D | `TransportIsReliable` | `ImplementsChannel`, for `Faults \subseteq {"early"}` |
| S | `TypeCorrect` | `TypeOK` |
| S | `OneConnIsKept` | `OneConnPerAddress` |
| S | `EachIsAcceptedOnce` | `AcceptedOnce` |
| S | `OnlyDoubleCloses` | `OnlyDoubleClosePanics` |
| S | `BlocksLate` | `ClientBlocksLate` |
| L | `TypeCorrect` | `TypeOK` |
| L | `PingsAreOwn` | `PingIsOwn` |
| L | `TableAgrees` | `PingTable` |
| L | `WaitIsQuiet` | `WaitMeansQuiet` |
| L | `OnlyListedPanics` | `OnlyTheseRacesPanic` |
| O | `TypeCorrect` | `TypeOK` |
| O | `TunnelsAreMirrored` | `Mirrored`: the run has it as a part of `PairsTunnels` |
| O | `IdsAreFree` | `IdIsFree`: so has it, but that `Exist` never refuses |
| O | `OpenedAtBothEnds` | `OpenedBothEnds` |
| O | `ListenersAreMatched` | `ListenersMatchTunnels` |
| O | `ResponsesAreExpected` | `ResponseExpected` |
| C | `TypeCorrect` | `TypeOK` |
| C | `StreamsInOrder` | `StreamInOrder` |
| C | `ClientNeverSpliced` | `NoSplice` |
| C | `ClosesAreAnnounced` | `CloseAnnounced` |
| C | `ClosesAreCaused` | `ClosesHaveCause` |
| C | `EntriesAreOwn` | `EntryIsOwn` |
| P | `TunnelsArePaired` | `PairsTunnels` |
| F | `FramesAlwaysSurvive` | `FramesSurvive` |
| F | `MustRecvTakes`, `RecvGivesMessage`, `RecvCutsOff`, `RecvNeedsAll` | any message and any cut of the stream |

### UDP transfer
The assumptions: a segment body is longer than the 4-byte prefix (`SegSizeAssumption`), messages are
not empty (`NeedAssumption`), no message needs more than `MaxSegments` segments
(`CountAssumption`; the code's uint16 wraps beyond that), positive bounds.

*Retransmission.*  `RetransmissionComplete` is not inductive: that nothing at or below `next` is
missing has to be known.  `RecvingOK` says of a record that every order id below `next` is held, `next`
is not, `largest` bounds what is held and is held itself.  `SaveOK` proves that `Save` keeps it
(`NextGapSpec`, from the least element of a set of numbers), `Reassembly` is `RecvingOK` of every
slot, and `TypeOK /\ Reassembly` is inductive.  `CompleteReply` derives the property.

*Bookkeeping.*  With `TypeOK`, each of `SlotExclusive`, `NoLostRegistration` and `AbandonedQuery` is
preserved, given `SlotExclusive` (a call can only lose its registration to a call with its slot).
One lemma per property (`SlotStep`, `RegistrationStep`, `QueryStep`), one step per action.

*Success.*  A call succeeds on a closed channel or on a reply "completed".  `Backed` says that every
notice in flight, every such reply, every completed record and every closed channel of a call stems
from a completion on its slot; `Tracking` says that a reply carries the slot of the call it names,
that what is in `slWait[t]` is a call of slot t, and that a call that has not started has left
nothing.  `Tracking /\ Backed /\ SuccessBacked` is inductive over the above.

*A slot used once* (`FreshSlotIntact`, under every fault).  `Intact`: a segment in flight carries the
slot of its own call (`DataNamed`), nothing has arrived on a slot nobody has used (`Arrivals`), and the
record of a slot with a sole user holds segments of that message only (`SoleParts`, `PartOf`).  What is left is
arithmetic: `ReadOf(m, D)` is the length of the segments D of m in closed form, `ReadGrows` adds one
segment to it, `ReadWhole` shows that it reaches the declared length exactly when D is all of m
(all bodies but the last are full: `Cutting`).  So the sum of lengths decides rightly there.

*A reliable channel* (`ImplementsChannel`, when the network does nothing but deliver and nobody closes;
retries may come too early, slots are used again).  `Reliable` describes each slot: nobody holds it, nothing is
in flight on it and its record is absent or completed (`Quiet`); or a call holds it, has written its
first k segments, and those in D have arrived (`WorkOf`).  The segments in flight are then those
of 0 .. k - 1 that are not in D, the record holds D, a query is in flight exactly while the call asks,
a reply is what the receiver would answer now and implies D = 0 .. k - 1, a notice implies that D is all
of the message, and the message is in `log` exactly when D is all of it.  Each action has a lemma that names
the new k and D.  It follows that no call gives up while its slot is busy (`NoWaitInVain`), that a
"not completed" reply asks for k .. MaxOrderID (`AsksForRest`), and that a slot is quiet when its call
returns (`ReturnReliable`).  `StepRefines` maps `Claim` to Submit, the segment that completes the message
to Deliver, a return to Succeed or Fail and every other step to a stutter.  TLC has checked
`Reliable` as an invariant under the constants of `udp_reuse`.

### UDP sockets
`IInv` adds to `TypeOK` what each receive loop has in hand (`LoopOK`: about to insert means the pool
has no entry, since nobody else inserts; a Conn that is offered or handled was made), that
`addrConnMap` and the Conns agree (`PoolOK`: a Conn is in the pool exactly as long as it is not gone, what
the garbage collection has collected is in the pool until it sweeps, since nobody else deletes), and
for a client that its first Conn was put into the pool by `_handshake` and only later ones by the
receive loop (`ClientOK`).  At the server `AcceptedOnce` is itself a conjunct: inserting appends to
what is offered, `Accept` only moves the border between `clientCh` and `accepted`.

### Link
A panic ends everything, so `LifeOK` is claimed only while there was none.  `BindingOK` says of each
binding that its WaitGroup counts its running loops, that these run on their own `wg` unless `Wait`
returned before they started, that the send loop has closed the connection before it finishes, and who may
have closed `stopCh` when the receive loop is between test and close.  `OwnerOK` ties `wg`, `stopCh` and
`closing` to the place of the owner.  From both follows `RunsOnItsOwn`: a loop that runs meets the
`wg` and the `stopCh` of its own binding, which is what rules out every panic that
`OnlyTheseRacesPanic` does not list.  `PingOK` is about pings alone: whoever waits has an id that is in
the table unless it was told, and whoever has the id of an answer on its way was answered;
`NewIDOK` (a new id is nowhere) makes it inductive.  The steps of a loop share `LoopMoves` and `LifeAt`,
those of owner and keepalive `PingerStep` and `OutsidePing`, and panics `PanicOK`.

### Opening a tunnel
Calls and addresses are finite (`FiniteAssumption`), without a bound: only finitely many calls have
been made at any time, and `MaxID` leaves room for an id of each.  The invariant says that there is
a function `place`, the one place where the request of a call or what became of it is (unsent, in
the queue, being handled, about to be answered, answered, in the channel of the session, read), and
a function `id`, the tunnel id the other end has given the call.  Each step moves one call from one
place to the next.  `CountersOK` counts: each counter has moved once per call that has an id, so it
stays below `MaxID` and `NextTunnelID` always finds an id.  `IdsOK` has the reason for `Mirrored` and
`IdIsFree`: no end gives an id twice, and the two ends give ids of different parity, so an id under
which a tunnel stands belongs to one call.  `TunnelsOK` follows a call's entries at both
ends (`OpenedBothEnds`), `QueueOK` and `RxOK` say that each request and each answer there is belongs to the
call that is at that place (`ResponseExpected`: only one answer per session, and only while the call
waits or its link is closed), `LinkOK` orders the receive loop before `Link.Close`.  A sweep of the
listen pool is a step of the other invariants only through `listening` and `robbed`.

*Pairing* (`PairsTunnels`, for every kind of fault and shared pools).  `TunnelPairingProofs` maps each step in
the states of the invariant.  A call is *asked* once its request is neither unsent nor in the queue nor in the
hand of the handler.  The insertion by the handler maps to Create: that the id is nobody else's
follows from `IdsOK`.  Its undoing, when listening fails, maps to Withdraw: the near end has not heard
of the tunnel then, because the answer comes after it.  The insertion at the caller maps to Enter,
its deletion and every other error to Fail, the return of nil to Open: the tunnel at the other end is
still there by `TunnelsOK`.  Sessions, answers, sweeps and the steps of `Link.Close` map to a stutter.

### Channels of a tunnel
No two channels meet except in the queue, so the invariant is `Types`, what is true of every object and
loop (`EachOK`), and `ChannelOK(c)` of every channel by itself.  `ChannelOK` says that there are numbers
that explain the state: `n`, the generations the channel has had at the reverse end; `sent` and `back`,
the chunks each side has put into outbound; and `base`, where `base[g]` is the number of chunks of
the client that were written to the generations before g.

* *Data.*  `StreamOK`: generation g has got the chunks that follow `base[g]`, one by one.  `OnWay` and `Flow`:
  the chunks between what was written and what was sent are on their way, every one of them and in
  order, the first perhaps in the hand of the receive loop.  `SentOK`: `sent` is what `Serve` has read,
  but for the chunk in its hand.  So what arrives is always the next chunk, whatever object gets it.
* *Closes.*  `Quiet(c)`: the goroutine of the client has left and no data of it is in the queue; a close
  is the last message of a channel (`CloseIsLast`), so an object the receive loop has closed was closed
  in quiet (`FromClientOK`).  Hence an entry of the pool that is gone while data is on its way has been deleted
  by its own goroutine, which is at its end: the generations before the last are done (`GensOK`,
  `EntryIsOwn`).
* *The way back.*  A generation that has left has put a close into outbound before its entry was
  deleted.  `Told(c)`: that close is in the queue, is being handled, or the client's entry is gone.  Every
  later generation came after this, so its data has the close before it (`Covered`), and `FromServerOK`
  yields `NoSplice`.  `ForgetOK` follows how each end forgets the channel and yields `CloseAnnounced`.

`StreamInOrder` compares with `Upstream`, a function defined by recursion on generations.  That it exists
and what it computes is proved by least counterexample: `JoinExists` and `JoinedStream` take the
first generation at which the claim fails (the order on numbers is well-founded, `WFMin`).

*Causes* (`ClosesHaveCause`).  A small invariant over the one above, `CauseOK`: while the link is up, what
carries a close - a closed object, a goroutine between the error of its Read and its notice, a notice in
a queue, the receive loop that has taken it - leads back to an application that has left (`Traced`).
One lemma says for each of the four what can have made it (`CloseCause`, `PhaseCause`, `NoticeCause`,
`HandledCause`); the rest is that applications do not come back and that a panic of a send needs a
link that is shut.  The step that matters is `ReadError`: a goroutine whose connection was closed by the
receive loop skips the notice.

### Framing
The stream is a sequence of chunks, some perhaps empty, that together are a given sequence of bytes
(`Delivers`).  `MustRecv` is a function defined by recursion on the bytes wanted and the chunks left; after
a Read either nothing is wanted any more or a chunk is used up (`Level`), so that it exists and what it returns
is proved for the least level at which the claim would fail.  `Fetched` is the claim: the first n bytes, with the rest
delivering what follows, or an error when there are fewer.  `Recved` then is two such reads, the first of
which gives the length field; `Decoded(n)`, n modulo `Base * Base`, is what comes out of a field that was
made for n.  `RecvGivesMessage` hands on a rest to which it can be applied again, so a whole
connection of messages is received one by one.

### Model-checked only
Liveness (`SendReturns`, `EveryChannelFlows`, `CloseArrives`, `SlowChannelAlone`, `OpenReturns`,
`BindingEnds`, `BindReturns`, `Connects`, `ServerKeepsUp`, `SilenceIsNoticed`: temporal reasoning under fairness
is beyond TLAPS here).  Every other property of a passing run, invariant or refinement, is stated by a theorem.
`TransportIsReliable` and `TunnelsArePaired` are about safety: that every call returns is left to `SendReturns`
and `OpenReturns`.

## 7. Abstractions to know when reading

* The outbound channel, the send loop and the connection's buffers are one FIFO.  After a link end
  has gone down its messages may still be received by the other: more behaviours than the code has.
* In `Tunnel` and `OpenTunnel` a link is bound once.  `Bind` after `Wait` is in `Link`.
* Keepalive appears only where it decides something.  In `Tunnel` it may end a link whose receive loop hangs,
  as long as its ping finds room in the queue; a loop that hangs in a Write when the link is stopped is not
  followed further.  In `OpenTunnel` there is none.
* `OpenTunnel` is about two ends that differ in `IsServerSide`, as `link.go:36` asks ("ID need to be started
  differently").  `test/common.go` and the examples pass nil for both configurations: both ends then give the
  same ids, and what `OpenTunnel` and `TunnelPairing` say need not hold for them when both ends open tunnels;
  the mutant `FirstIDSame` of `PairsTunnels` is that program.
* `tcpChannel.Serve` tests `c.closed` without the lock; the model makes both outcomes possible.
* `Tunnel.Listen` is one step: of two listeners on one address `net.ListenTCP` refuses the second,
  whatever the listen pool says.
* In `UDPTransfer` a loop counter stays at its bound, `round` at `MaxTimes`, as no test of the code
  distinguishes larger values; queries whose request is over leave the network, as `handleRep` drops
  their replies.
* Ids (sessions, tunnels, requests, pings) do not wrap.  `Link` renames ping ids: a new one is any that
  is used nowhere any more.
* In `Link` a live end that has read everything answers a request at once when there is room; its own
  requests arrive and are received in one step; what is on its way when the connection fails is lost;
  the messages a silent end has not read are not told apart.  How long something was idle is left
  open: keepalive may ping at any time and, when the ping fails, stop or go on.
* In `Link` one goroutine calls `Bind`, `Wait` and `Close`.  A link whose `Wait` returned early is not
  bound again.
* In `UDPSocket` a Conn may expire whenever the garbage collection looks; datagrams in flight are a set;
  what `Ping` returns is left out, since `pingLoop` ignores it; `connPool.New` never finds an entry that
  `Get` did not, since one goroutine inserts; a client whose socket was closed is not started again.
* In `OpenTunnel` the iteration over the sessions is one step: it comes after `close(outbound)`, when a new
  call panics before it adds a session.

## 8. Not modelled

* `request` of `udp.Conn`, which nothing calls; the splitting of `Read` and `Write` (`Write` returns the never
  assigned `read`); `Conn.Close` at the receiving end while messages are under way; messages of more than
  65535 segments.
* Panics inside the session and tunnel managers (what `OpenTunnel` has of them are exceptions of its properties), and
  those of a `sync.WaitGroup` that is used again before its `Wait` has returned.
* UDP tunnels: `listenUDP` passes the network "tcp" to `net.ListenUDP`, which always fails, and
  `udpChannel` is never created.
* Message encodings, the router's regular expressions, encryption: data without control.
* Examples, test helpers, scripts; they are read for how the library is used.
