------------------------------ MODULE TunnelProofs ------------------------------
(***************************************************************************)
(* Proofs about Tunnel for any number of channels, any number of chunks in *)
(* both directions, any capacity of the queues, and any number of closes,  *)
(* stalls and pings, whether or not a dial may fail.                       *)
(***************************************************************************)
EXTENDS Tunnel, FiniteSetTheorems, SequenceTheorems, WellFoundedInduction, TLAPS

-------------------------------------------------------------------------------
\* The inductive invariant.

\* The channel of client c, and the one of the g-th server connection of channel c.
Cl(c)    == Tcp("F", c, 1)
Sv(c, g) == Tcp("R", c, g)

Phases   == {"none", "read", "send", "defer", "panic", "check", "notify", "exist", "delete", "done"}
Chunks   == Nat \X Nat
Forwards == [type : {"forward"}, ch : Channels, data : Chunks]
Closes   == [type : {"close"}, ch : Channels]
Beats    == {PingRequest, PingResponse}
Messages == Forwards \cup Closes \cup Beats
Writings == [at : {"write"}, obj : Objects, data : Chunks]
Closings == [at : {"close", "mark", "delete"}, obj : Objects]

Types ==
  /\ phase \in [Objects -> Phases]
  /\ closed \subseteq Objects /\ byRemote \subseteq closed /\ gone \subseteq Objects /\ stuck \subseteq Objects
  /\ nread \in [Objects -> Nat] /\ \A o \in Objects : nread[o] <= Limit(o)
  /\ written \in [Objects -> Seq(Chunks)]
  /\ pool \in [Ends -> [Channels -> Nat]]
  /\ queue \in [Ends -> Seq(Messages)] /\ \A e \in Ends : Len(queue[e]) <= Cap
  /\ rx \in [Ends -> {Idle} \cup Writings \cup Closings]
  /\ up \subseteq Ends /\ shut \subseteq Ends \ up

\* What is true of every tcpChannel and of every receive loop.
EachOK ==
  /\ \A o \in Objects : phase[o] = "panic" => o.end \in shut
  /\ \A o \in closed : phase[o] # "none"
  /\ \A o \in Objects : phase[o] = "none" => nread[o] = 0
  /\ \A e \in Ends : /\ rx[e].at # "idle" => rx[e].obj.end = e
                     /\ rx[e].at \in {"mark", "delete"} => rx[e].obj \in closed
                     /\ rx[e].at = "delete" => rx[e].obj \in byRemote

\* What is in a queue.  Data of generation g of channel c: the chunks after low up to hi,
\* each of them, in order.
IsData(m, c) == m.type = "forward" /\ m.ch = c
Of(m, c, g)  == IsData(m, c) /\ m.data[1] = g

Flow(s, c, g, low, hi) ==
  /\ \A i \in DOMAIN s : Of(s[i], c, g) => low < s[i].data[2] /\ s[i].data[2] <= hi
  /\ \A i, j \in DOMAIN s : i < j /\ Of(s[i], c, g) /\ Of(s[j], c, g) => s[i].data[2] < s[j].data[2]
  /\ \A k \in Nat : low < k /\ k <= hi => \E i \in DOMAIN s : Of(s[i], c, g) /\ s[i].data[2] = k

Has(s, c)         == \E i \in DOMAIN s : s[i] = ChannelClose(c)
NoData(s, c)      == \A i \in DOMAIN s : ~IsData(s[i], c)
CloseIsLast(s, c) == \A i, j \in DOMAIN s : i < j /\ s[i] = ChannelClose(c) => ~IsData(s[j], c)
FirstOnly(s, c)   == \A i \in DOMAIN s : IsData(s[i], c) => s[i].data[1] = 1
\* Data of a later generation has a close before it.
Covered(s, c)     == \A i \in DOMAIN s : IsData(s[i], c) /\ s[i].data[1] # 1 =>
                       \E j \in DOMAIN s : j < i /\ s[j] = ChannelClose(c)

\* What the receive loop of end e is doing for channel c.
Serving(e, c)  == rx[e].at # "idle" /\ rx[e].obj.ch = c
InWrite(e, c)  == rx[e].at = "write" /\ rx[e].obj.ch = c
Handling(e, c) == rx[e].at \in {"close", "mark", "delete"} /\ rx[e].obj.ch = c
InHand(e, c)   == IF InWrite(e, c) THEN 1 ELSE 0
\* The chunk Serve has read and not yet sent.
Unsent(o)      == IF phase[o] = "send" THEN 1 ELSE 0

\* In what follows n is the number of generations of channel c there were at the reverse
\* end.  Those before the last are over, and the last is the one in the pool.
GensOK(c, n) ==
  /\ n <= NUp[c]
  /\ \A g \in Gens("R", c) : phase[Sv(c, g)] # "none" <=> g <= n
  /\ \A g \in 1 .. n - 1 : phase[Sv(c, g)] = "done"
  /\ pool["R"][c] \in {0, n} /\ pool["F"][c] \in {0, 1}
  /\ n > 0 => phase[Cl(c)] # "none"
  /\ pool["F"][c] = 1 => phase[Cl(c)] # "none"
  /\ n > 0 /\ phase[Sv(c, n)] = "done" => pool["R"][c] = 0
  /\ phase[Cl(c)] = "done" => pool["F"][c] = 0
  /\ Serving("R", c) => n > 0 /\ rx["R"].obj = Sv(c, n)
  /\ Serving("F", c) => phase[Cl(c)] # "none"

\* sent chunks of the client were put into outbound; the first base[g] of them were written
\* to the generations before g, and base[NUp[c] + 1] to all.
Total(c, base) == base[NUp[c] + 1]

StreamOK(c, n, base) ==
  /\ base[1] = 0
  /\ \A g \in Gens("R", c) :
       /\ base[g + 1] = base[g] + Len(written[Sv(c, g)]) /\ base[g + 1] <= Total(c, base)
       /\ \A k \in DOMAIN written[Sv(c, g)] : written[Sv(c, g)][k] = <<1, base[g] + k>>
       /\ g > n => written[Sv(c, g)] = <<>> /\ base[g] = Total(c, base)

\* Of what was read from connection o, the first hi chunks were put into outbound: all but
\* the one Serve has in hand, as long as outbound is open.
SentOK(o, hi) ==
  /\ hi <= nread[o]
  /\ o.end \notin shut => hi = nread[o] - Unsent(o)

\* Chunks low + 1 to hi are on their way to the receive loop of e: the first may be in its
\* hand.
OnWay(e, c, low, hi) ==
  /\ InWrite(e, c) => rx[e].data = <<1, low + 1>> /\ low + 1 <= hi
  /\ Flow(queue[Other(e)], c, 1, low + InHand(e, c), hi)

\* sent chunks of the client were put into outbound; each generation but the first was
\* opened by a chunk of its own.
UpOK(c, n, sent, base) ==
  /\ StreamOK(c, n, base)
  /\ Total(c, base) <= sent /\ SentOK(Cl(c), sent)
  /\ FirstOnly(queue["F"], c)
  /\ "R" \in up => n <= Total(c, base) + InHand("R", c) /\ OnWay("R", c, Total(c, base), sent)

\* back chunks of the first server connection were put into outbound.
Given(c) == Len(written[Cl(c)])

DownOK(c, back) ==
  /\ \A k \in DOMAIN written[Cl(c)] : written[Cl(c)][k] = <<1, k>>
  /\ Given(c) <= back /\ SentOK(Sv(c, 1), back)
  /\ "F" \in up => OnWay("F", c, Given(c), back)

\* A goroutine that has told the other end, or knows that it need not.
Left(o) == phase[o] \in {"exist", "delete", "done"}
\* The receive loop has closed it before its goroutine has.
ClosedByLoop(o) == o \in byRemote \/ (o \in closed /\ phase[o] \in {"read", "send", "defer"})

\* No data of channel c will come to the reverse end.
Quiet(c) == Left(Cl(c)) /\ NoData(queue["F"], c)
\* The forward end has forgotten channel c.
Forgotten(c) == pool["F"][c] = 0 /\ phase[Cl(c)] # "none"
\* The forward end has forgotten channel c or will before it looks at what comes next.
Told(c) == Has(queue["R"], c) \/ Handling("F", c) \/ Forgotten(c)

FromClientOK(c, n) ==
  /\ CloseIsLast(queue["F"], c)
  /\ Has(queue["F"], c) => Left(Cl(c))
  /\ Handling("R", c) => Quiet(c)
  /\ \A g \in Gens("R", c) : ClosedByLoop(Sv(c, g)) => Quiet(c)
  /\ n > 0 /\ pool["R"][c] = 0 => Quiet(c) \/ phase[Sv(c, n)] = "done"

FromServerOK(c, n) ==
  /\ n > 0 /\ Left(Sv(c, 1)) => Quiet(c) \/ "R" \in shut \/ Told(c)
  /\ n > 1 => Told(c)
  /\ Covered(queue["R"], c) \/ Handling("F", c) \/ Forgotten(c)
  /\ Has(queue["R"], c) \/ Handling("F", c) \/ ClosedByLoop(Cl(c)) =>
       \E g \in Gens("R", c) : Left(Sv(c, g))

\* How the two ends forget a channel.
ForgetOK(c) ==
  /\ Left(Cl(c)) => \/ \E g \in Gens("R", c) : Left(Sv(c, g))
                    \/ Has(queue["F"], c) \/ Handling("R", c) \/ "F" \in shut
                    \/ pool["R"][c] = 0 /\ Quiet(c)
  /\ Forgotten(c) => phase[Cl(c)] = "done" \/ Cl(c) \in byRemote

ChannelOf(c, n, sent, back, base) ==
  /\ GensOK(c, n) /\ UpOK(c, n, sent, base) /\ DownOK(c, back)
  /\ FromClientOK(c, n) /\ FromServerOK(c, n) /\ ForgetOK(c)

ChannelOK(c) == \E n, sent, back \in Nat, base \in [Nat -> Nat] : ChannelOf(c, n, sent, back, base)

IInv == Types /\ EachOK /\ \A c \in Channels : ChannelOK(c)

-------------------------------------------------------------------------------
\* Channels and ends.

LEMMA EndFacts ==
  /\ "F" \in Ends /\ "R" \in Ends /\ Ends = {"F", "R"}
  /\ \A e \in Ends : Other(e) \in Ends /\ Other(e) # e /\ Other(Other(e)) = e
  /\ Other("F") = "R" /\ Other("R") = "F"
  BY DEF Ends, Other

LEMMA ObjectFacts ==
  /\ \A c \in Channels : /\ NUp[c] \in Nat /\ NUp[c] > 0 /\ NDown[c] \in Nat
                         /\ Gens("R", c) = 1 .. NUp[c] /\ 1 \in Gens("R", c) /\ Gens("F", c) = {1}
                         /\ Cl(c) \in Objects /\ \A g \in Gens("R", c) : Sv(c, g) \in Objects
  /\ \A c, g : /\ Cl(c).end = "F" /\ Cl(c).ch = c /\ Cl(c).gen = 1
               /\ Sv(c, g).end = "R" /\ Sv(c, g).ch = c /\ Sv(c, g).gen = g
  /\ \A o \in Objects :
       /\ o.ch \in Channels /\ o.end \in Ends /\ o.gen \in Gens(o.end, o.ch)
       /\ o = Tcp(o.end, o.ch, o.gen)
       /\ o.end = "F" => o = Cl(o.ch)
       /\ o.end = "R" => o = Sv(o.ch, o.gen) /\ o.gen \in Gens("R", o.ch)
<1>1. ASSUME NEW c \in Channels
      PROVE  /\ NUp[c] \in Nat /\ NUp[c] > 0 /\ NDown[c] \in Nat
             /\ Gens("R", c) = 1 .. NUp[c] /\ 1 \in Gens("R", c) /\ Gens("F", c) = {1}
  BY UpAssumption, DownAssumption DEF Gens
<1>2. ASSUME NEW c \in Channels, NEW e \in Ends, NEW g \in Gens(e, c) PROVE Tcp(e, c, g) \in Objects
  <2> DEFINE All == {{Tcp(d, b, h) : h \in Gens(d, b)} : d \in Ends, b \in Channels}
  <2>1. PICK S : S = {Tcp(e, c, h) : h \in Gens(e, c)}
    OBVIOUS
  <2>2. Tcp(e, c, g) \in S /\ S \in All
    BY <2>1
  <2>3. Objects = UNION All
    BY DEF Objects
  <2> HIDE DEF All
  <2> QED
    BY <2>2, <2>3
<1>3. ASSUME NEW c \in Channels
      PROVE  Cl(c) \in Objects /\ \A g \in Gens("R", c) : Sv(c, g) \in Objects
  BY <1>1, <1>2 DEF Cl, Sv, Ends
<1>4. \A c, g : /\ Cl(c).end = "F" /\ Cl(c).ch = c /\ Cl(c).gen = 1
                /\ Sv(c, g).end = "R" /\ Sv(c, g).ch = c /\ Sv(c, g).gen = g
  BY DEF Cl, Sv, Tcp
<1>5. ASSUME NEW o \in Objects
      PROVE  /\ o.ch \in Channels /\ o.end \in Ends /\ o.gen \in Gens(o.end, o.ch)
             /\ o = Tcp(o.end, o.ch, o.gen)
             /\ o.end = "F" => o = Cl(o.ch)
             /\ o.end = "R" => o = Sv(o.ch, o.gen) /\ o.gen \in Gens("R", o.ch)
  <2>1. PICK e \in Ends, c \in Channels : o \in {Tcp(e, c, g) : g \in Gens(e, c)}
    BY DEF Objects
  <2>2. PICK g \in Gens(e, c) : o = Tcp(e, c, g)
    BY <2>1
  <2>3. o.end = e /\ o.ch = c /\ o.gen = g
    BY <2>2 DEF Tcp
  <2>4. e = "F" => g = 1
    BY <1>1
  <2> QED
    BY <2>2, <2>3, <2>4 DEF Cl, Sv
<1> QED
  BY <1>1, <1>3, <1>4, <1>5

LEMMA GenFacts == \A o \in Objects : o.gen \in Nat
<1> TAKE o \in Objects
<1>1. o.gen \in Gens(o.end, o.ch) /\ o.end \in {"F", "R"} /\ o.ch \in Channels
  BY ObjectFacts, EndFacts
<1>2. Gens("F", o.ch) = {1} /\ Gens("R", o.ch) = 1 .. NUp[o.ch] /\ NUp[o.ch] \in Nat
  BY <1>1, ObjectFacts
<1> QED
  BY <1>1, <1>2

-------------------------------------------------------------------------------
\* Queues.

LEMMA MessageFacts ==
  /\ \A m \in Messages : /\ m.type \in {"forward", "close", "ping", "pong"}
                         /\ m.type \in {"forward", "close"} => m.ch \in Channels
                         /\ m.type = "close" => m = ChannelClose(m.ch)
                         /\ m.type = "forward" =>
                              m.data \in Chunks /\ m.data[1] \in Nat /\ m.data[2] \in Nat
                              /\ m.data = <<m.data[1], m.data[2]>>
  /\ \A c : ChannelClose(c).type = "close" /\ ChannelClose(c).ch = c
  /\ \A c \in Channels : ChannelClose(c) \in Messages
<1>1. \A m \in Forwards : /\ m.type = "forward" /\ m.ch \in Channels
                          /\ m.data \in Chunks /\ m.data[1] \in Nat /\ m.data[2] \in Nat
                          /\ m.data = <<m.data[1], m.data[2]>>
  BY DEF Forwards, Chunks
<1>2. \A m \in Closes : m.type = "close" /\ m.ch \in Channels /\ m = ChannelClose(m.ch)
  BY DEF Closes, ChannelClose
<1>3. \A m \in Beats : m.type \in {"ping", "pong"}
  BY DEF Beats, PingRequest, PingResponse
<1>4. \A c : ChannelClose(c).type = "close" /\ ChannelClose(c).ch = c /\ (c \in Channels => ChannelClose(c) \in Closes)
  BY DEF Closes, ChannelClose
<1> QED
  BY <1>1, <1>2, <1>3, <1>4 DEF Messages

\* What a step does to a queue when it neither puts into it nor takes from it data of the
\* first generation of channel c.
NoDataMoved(s, t, c) ==
  \/ t = s
  \/ \E m \in Messages : ~Of(m, c, 1) /\ t = Append(s, m)
  \/ s # <<>> /\ ~Of(Head(s), c, 1) /\ t = Tail(s)

LEMMA FlowSame ==
  ASSUME NEW s \in Seq(Messages), NEW t, NEW c, NEW low \in Nat, NEW hi \in Nat,
         Flow(s, c, 1, low, hi), NoDataMoved(s, t, c)
  PROVE  Flow(t, c, 1, low, hi)
<1>1. ASSUME NEW m \in Messages, ~Of(m, c, 1), t = Append(s, m) PROVE Flow(t, c, 1, low, hi)
  <2>1. /\ DOMAIN t = 1 .. (Len(s) + 1) /\ DOMAIN s = 1 .. Len(s) /\ Len(s) \in Nat
        /\ \A i \in 1 .. Len(s) : t[i] = s[i]
        /\ ~Of(t[Len(s) + 1], c, 1)
    BY <1>1
  <2>2. \A i \in DOMAIN t : Of(t[i], c, 1) => i \in DOMAIN s /\ t[i] = s[i]
    BY <2>1
  <2>3. \A i \in DOMAIN s : i \in DOMAIN t /\ t[i] = s[i]
    BY <2>1
  <2> QED
    BY <2>2, <2>3 DEF Flow
<1>2. ASSUME s # <<>>, ~Of(Head(s), c, 1), t = Tail(s) PROVE Flow(t, c, 1, low, hi)
  <2>1. /\ DOMAIN t = 1 .. (Len(s) - 1) /\ DOMAIN s = 1 .. Len(s) /\ Len(s) \in Nat /\ Len(s) > 0
        /\ \A i \in 1 .. (Len(s) - 1) : t[i] = s[i + 1]
        /\ ~Of(s[1], c, 1)
    BY <1>2
  <2>2. \A i \in DOMAIN t : Of(t[i], c, 1) => low < t[i].data[2] /\ t[i].data[2] <= hi
    BY <2>1 DEF Flow
  <2>3. ASSUME NEW i \in DOMAIN t, NEW j \in DOMAIN t, i < j, Of(t[i], c, 1), Of(t[j], c, 1)
        PROVE  t[i].data[2] < t[j].data[2]
    <3>1. i + 1 \in DOMAIN s /\ j + 1 \in DOMAIN s /\ i + 1 < j + 1 /\ t[i] = s[i + 1] /\ t[j] = s[j + 1]
      BY <2>1, <2>3
    <3> QED
      BY <2>3, <3>1 DEF Flow
  <2>4. ASSUME NEW k \in Nat, low < k, k <= hi PROVE \E i \in DOMAIN t : Of(t[i], c, 1) /\ t[i].data[2] = k
    <3>1. PICK j \in DOMAIN s : Of(s[j], c, 1) /\ s[j].data[2] = k
      BY <2>4 DEF Flow
    <3>2. j - 1 \in DOMAIN t /\ t[j - 1] = s[j]
      BY <2>1, <3>1
    <3> QED
      BY <3>1, <3>2
  <2> QED
    BY <2>2, <2>3, <2>4 DEF Flow
<1> QED
  BY <1>1, <1>2 DEF NoDataMoved

LEMMA FlowAppended ==
  ASSUME NEW s \in Seq(Messages), NEW m \in Messages, NEW c, NEW g, NEW low \in Nat, NEW hi \in Nat,
         Flow(s, c, g, low, hi), low <= hi, Of(m, c, g), m.data[2] = hi + 1
  PROVE  Flow(Append(s, m), c, g, low, hi + 1)
<1> DEFINE t == Append(s, m)
<1>1. /\ DOMAIN t = 1 .. (Len(s) + 1) /\ DOMAIN s = 1 .. Len(s) /\ Len(s) \in Nat
      /\ \A i \in 1 .. Len(s) : t[i] = s[i]
      /\ t[Len(s) + 1] = m
  OBVIOUS
<1>2. \A i \in DOMAIN s : s[i] \in Messages
  OBVIOUS
<1>3. \A i \in DOMAIN s : Of(s[i], c, g) => s[i].data[2] \in Nat
  BY <1>2, MessageFacts DEF Of, IsData
<1> HIDE DEF t
<1>4. \A i \in DOMAIN t : Of(t[i], c, g) => low < t[i].data[2] /\ t[i].data[2] <= hi + 1
  BY <1>1, <1>3 DEF Flow
<1>5. ASSUME NEW i \in DOMAIN t, NEW j \in DOMAIN t, i < j, Of(t[i], c, g), Of(t[j], c, g)
      PROVE  t[i].data[2] < t[j].data[2]
  <2>1. i \in DOMAIN s /\ t[i] = s[i]
    BY <1>1, <1>5
  <2>2. CASE j \in DOMAIN s
    BY <1>1, <1>5, <2>1, <2>2 DEF Flow
  <2>3. CASE j \notin DOMAIN s
    <3>1. t[j] = m
      BY <1>1, <2>3
    <3>2. s[i].data[2] <= hi /\ s[i].data[2] \in Nat
      BY <1>3, <1>5, <2>1 DEF Flow
    <3> QED
      BY <2>1, <3>1, <3>2
  <2> QED
    BY <2>2, <2>3
<1>6. ASSUME NEW k \in Nat, low < k, k <= hi + 1 PROVE \E i \in DOMAIN t : Of(t[i], c, g) /\ t[i].data[2] = k
  BY <1>1, <1>6 DEF Flow
<1> QED
  BY <1>4, <1>5, <1>6 DEF Flow, t

LEMMA FlowTaken ==
  ASSUME NEW s \in Seq(Messages), s # <<>>, NEW c, NEW g, NEW low \in Nat, NEW hi \in Nat,
         Flow(s, c, g, low, hi), Of(Head(s), c, g)
  PROVE  /\ Head(s).data[2] = low + 1 /\ low + 1 <= hi
         /\ Flow(Tail(s), c, g, low + 1, hi)
<1> DEFINE t == Tail(s)
<1>1. /\ DOMAIN t = 1 .. (Len(s) - 1) /\ DOMAIN s = 1 .. Len(s) /\ Len(s) \in Nat /\ Len(s) > 0
      /\ \A i \in 1 .. (Len(s) - 1) : t[i] = s[i + 1]
      /\ Head(s) = s[1]
  OBVIOUS
<1>2. \A i \in DOMAIN s : s[i] \in Messages
  OBVIOUS
<1>3. \A i \in DOMAIN s : Of(s[i], c, g) => s[i].data[2] \in Nat
  BY <1>2, MessageFacts DEF Of, IsData
<1> HIDE DEF t
<1>4. s[1].data[2] = low + 1 /\ low + 1 <= hi
  <2>1. low < s[1].data[2] /\ s[1].data[2] <= hi /\ s[1].data[2] \in Nat
    BY <1>1, <1>3 DEF Flow
  <2>2. PICK i \in DOMAIN s : Of(s[i], c, g) /\ s[i].data[2] = low + 1
    BY <2>1 DEF Flow
  <2>3. 1 < i => s[1].data[2] < s[i].data[2]
    BY <1>1, <2>2 DEF Flow
  <2> QED
    BY <1>1, <2>1, <2>2, <2>3
<1>5. \A i \in DOMAIN t : Of(t[i], c, g) => low + 1 < t[i].data[2] /\ t[i].data[2] <= hi
  <2> TAKE i \in DOMAIN t
  <2> HAVE Of(t[i], c, g)
  <2>1. i + 1 \in DOMAIN s /\ 1 \in DOMAIN s /\ 1 < i + 1 /\ t[i] = s[i + 1]
    BY <1>1
  <2>2. s[1].data[2] < s[i + 1].data[2] /\ s[i + 1].data[2] <= hi
    BY <1>1, <2>1 DEF Flow
  <2> QED
    BY <1>4, <2>1, <2>2
<1>6. ASSUME NEW i \in DOMAIN t, NEW j \in DOMAIN t, i < j, Of(t[i], c, g), Of(t[j], c, g)
      PROVE  t[i].data[2] < t[j].data[2]
  <2>1. i + 1 \in DOMAIN s /\ j + 1 \in DOMAIN s /\ i + 1 < j + 1 /\ t[i] = s[i + 1] /\ t[j] = s[j + 1]
    BY <1>1, <1>6
  <2> QED
    BY <1>6, <2>1 DEF Flow
<1>7. ASSUME NEW k \in Nat, low + 1 < k, k <= hi PROVE \E i \in DOMAIN t : Of(t[i], c, g) /\ t[i].data[2] = k
  <2>1. PICK j \in DOMAIN s : Of(s[j], c, g) /\ s[j].data[2] = k
    BY <1>7 DEF Flow
  <2>2. j - 1 \in DOMAIN t /\ t[j - 1] = s[j]
    BY <1>1, <1>4, <1>7, <2>1
  <2> QED
    BY <2>1, <2>2
<1> QED
  BY <1>1, <1>4, <1>5, <1>6, <1>7 DEF Flow, t

LEMMA MarksAppended ==
  ASSUME NEW s \in Seq(Messages), NEW m \in Messages, NEW c
  PROVE  /\ Has(Append(s, m), c) <=> Has(s, c) \/ m = ChannelClose(c)
         /\ NoData(Append(s, m), c) <=> NoData(s, c) /\ ~IsData(m, c)
         /\ CloseIsLast(s, c) /\ (IsData(m, c) => ~Has(s, c)) => CloseIsLast(Append(s, m), c)
         /\ FirstOnly(s, c) /\ (IsData(m, c) => m.data[1] = 1) => FirstOnly(Append(s, m), c)
         /\ Covered(s, c) /\ (IsData(m, c) /\ m.data[1] # 1 => Has(s, c)) => Covered(Append(s, m), c)
<1> DEFINE t == Append(s, m)
           n == Len(s) + 1
<1>1. /\ DOMAIN t = 1 .. n /\ DOMAIN s = 1 .. Len(s) /\ Len(s) \in Nat
      /\ \A i \in DOMAIN s : i \in DOMAIN t /\ t[i] = s[i] /\ i < n
      /\ \A i \in DOMAIN t : i = n \/ (i \in DOMAIN s /\ t[i] = s[i])
      /\ n \in DOMAIN t /\ t[n] = m
      /\ \A i \in DOMAIN t : ~(n < i)
  OBVIOUS
<1> HIDE DEF t, n
<1>2. Has(t, c) <=> Has(s, c) \/ m = ChannelClose(c)
  BY <1>1 DEF Has
<1>3. NoData(t, c) <=> NoData(s, c) /\ ~IsData(m, c)
  BY <1>1 DEF NoData
<1>4. CloseIsLast(s, c) /\ (IsData(m, c) => ~Has(s, c)) => CloseIsLast(t, c)
  BY <1>1 DEF CloseIsLast, Has
<1>5. FirstOnly(s, c) /\ (IsData(m, c) => m.data[1] = 1) => FirstOnly(t, c)
  BY <1>1 DEF FirstOnly
<1>6. Covered(s, c) /\ (IsData(m, c) /\ m.data[1] # 1 => Has(s, c)) => Covered(t, c)
  BY <1>1 DEF Covered, Has
<1> QED
  BY <1>2, <1>3, <1>4, <1>5, <1>6 DEF t

LEMMA MarksTaken ==
  ASSUME NEW s \in Seq(Messages), s # <<>>, NEW c
  PROVE  /\ Has(s, c) <=> Has(Tail(s), c) \/ Head(s) = ChannelClose(c)
         /\ NoData(s, c) <=> NoData(Tail(s), c) /\ ~IsData(Head(s), c)
         /\ CloseIsLast(s, c) => /\ CloseIsLast(Tail(s), c)
                                 /\ Head(s) = ChannelClose(c) => NoData(Tail(s), c)
         /\ FirstOnly(s, c) => FirstOnly(Tail(s), c) /\ (IsData(Head(s), c) => Head(s).data[1] = 1)
         /\ Covered(s, c) => /\ Head(s) # ChannelClose(c) => Covered(Tail(s), c)
                             /\ IsData(Head(s), c) => Head(s).data[1] = 1
<1> DEFINE t == Tail(s)
           m == Head(s)
<1>1. /\ DOMAIN t = 1 .. (Len(s) - 1) /\ DOMAIN s = 1 .. Len(s) /\ Len(s) \in Nat /\ Len(s) > 0
      /\ \A i \in DOMAIN t : t[i] = s[i + 1] /\ i + 1 \in DOMAIN s /\ 1 < i + 1
      /\ \A i \in DOMAIN s : i = 1 \/ (i - 1 \in DOMAIN t /\ s[i] = t[i - 1])
      /\ 1 \in DOMAIN s /\ m = s[1]
  OBVIOUS
<1> HIDE DEF t, m
<1>2. Has(s, c) <=> Has(t, c) \/ m = ChannelClose(c)
  BY <1>1 DEF Has
<1>3. NoData(s, c) <=> NoData(t, c) /\ ~IsData(m, c)
  BY <1>1 DEF NoData
<1>4. ASSUME CloseIsLast(s, c) PROVE CloseIsLast(t, c)
  <2> SUFFICES ASSUME NEW i \in DOMAIN t, NEW j \in DOMAIN t, i < j, t[i] = ChannelClose(c)
               PROVE  ~IsData(t[j], c)
    BY DEF CloseIsLast
  <2>1. i + 1 \in DOMAIN s /\ j + 1 \in DOMAIN s /\ i + 1 < j + 1 /\ t[i] = s[i + 1] /\ t[j] = s[j + 1]
    BY <1>1
  <2> QED
    BY <1>4, <2>1 DEF CloseIsLast
<1>5. ASSUME CloseIsLast(s, c), m = ChannelClose(c) PROVE NoData(t, c)
  <2> SUFFICES ASSUME NEW i \in DOMAIN t PROVE ~IsData(t[i], c)
    BY DEF NoData
  <2>1. 1 \in DOMAIN s /\ i + 1 \in DOMAIN s /\ 1 < i + 1 /\ s[1] = ChannelClose(c) /\ t[i] = s[i + 1]
    BY <1>1, <1>5
  <2> QED
    BY <1>5, <2>1 DEF CloseIsLast
<1>6. ASSUME FirstOnly(s, c) PROVE FirstOnly(t, c) /\ (IsData(m, c) => m.data[1] = 1)
  BY <1>1, <1>6 DEF FirstOnly
<1>7. ASSUME Covered(s, c), m # ChannelClose(c) PROVE Covered(t, c)
  <2> SUFFICES ASSUME NEW i \in DOMAIN t, IsData(t[i], c), t[i].data[1] # 1
               PROVE  \E j \in DOMAIN t : j < i /\ t[j] = ChannelClose(c)
    BY DEF Covered
  <2>1. PICK j \in DOMAIN s : j < i + 1 /\ s[j] = ChannelClose(c)
    BY <1>1, <1>7 DEF Covered
  <2>2. j - 1 \in DOMAIN t /\ t[j - 1] = s[j] /\ j - 1 < i
    BY <1>1, <1>7, <2>1
  <2> QED
    BY <2>1, <2>2
<1>8. ASSUME Covered(s, c), IsData(m, c) PROVE m.data[1] = 1
  <2>1. \A j \in DOMAIN s : ~(j < 1)
    BY <1>1
  <2> QED
    BY <1>1, <1>8, <2>1 DEF Covered
<1> QED
  BY <1>2, <1>3, <1>4, <1>5, <1>6, <1>7, <1>8 DEF t, m

Concerns(m, c) == m.type \in {"forward", "close"} /\ m.ch = c

\* What a step that has nothing to do with channel c does to a queue.
Unrelated(s, t, c) ==
  \/ t = s
  \/ \E m \in Messages : ~Concerns(m, c) /\ t = Append(s, m)
  \/ s # <<>> /\ ~Concerns(Head(s), c) /\ t = Tail(s)

LEMMA MarksSame ==
  ASSUME NEW s \in Seq(Messages), NEW t, NEW c, Unrelated(s, t, c)
  PROVE  /\ Has(t, c) <=> Has(s, c)
         /\ NoData(t, c) <=> NoData(s, c)
         /\ CloseIsLast(s, c) => CloseIsLast(t, c)
         /\ FirstOnly(s, c) => FirstOnly(t, c)
         /\ Covered(s, c) => Covered(t, c)
         /\ NoDataMoved(s, t, c)
<1>1. CASE t = s
  BY <1>1 DEF NoDataMoved
<1>2. ASSUME NEW m \in Messages, ~Concerns(m, c), t = Append(s, m)
      PROVE  /\ Has(t, c) <=> Has(s, c)
             /\ NoData(t, c) <=> NoData(s, c)
             /\ CloseIsLast(s, c) => CloseIsLast(t, c)
             /\ FirstOnly(s, c) => FirstOnly(t, c)
             /\ Covered(s, c) => Covered(t, c)
             /\ NoDataMoved(s, t, c)
  <2>1. ~IsData(m, c) /\ m # ChannelClose(c)
    BY <1>2, MessageFacts DEF IsData, Concerns
  <2> QED
    BY <1>2, <2>1, MarksAppended DEF NoDataMoved, Of
<1>3. CASE s # <<>> /\ ~Concerns(Head(s), c) /\ t = Tail(s)
  <2>1. ~IsData(Head(s), c) /\ Head(s) # ChannelClose(c)
    BY <1>3, MessageFacts DEF IsData, Concerns
  <2> QED
    BY <1>3, <2>1, MarksTaken DEF NoDataMoved, Of
<1> QED
  BY <1>1, <1>2, <1>3 DEF Unrelated

-------------------------------------------------------------------------------
\* What the types say, a point at a time.

LEMMA TypeFacts ==
  ASSUME Types
  PROVE  /\ \A o \in Objects : /\ phase[o] \in Phases /\ nread[o] \in Nat /\ written[o] \in Seq(Chunks)
                               /\ Len(written[o]) \in Nat
         /\ \A e \in Ends : /\ queue[e] \in Seq(Messages) /\ Len(queue[e]) \in Nat
                            /\ \A c \in Channels : pool[e][c] \in Nat
         /\ DOMAIN phase = Objects /\ DOMAIN nread = Objects /\ DOMAIN written = Objects
<1>1. /\ phase \in [Objects -> Phases] /\ nread \in [Objects -> Nat] /\ written \in [Objects -> Seq(Chunks)]
      /\ queue \in [Ends -> Seq(Messages)] /\ pool \in [Ends -> [Channels -> Nat]]
  BY DEF Types
<1> QED
  BY <1>1

LEMMA RxFacts ==
  ASSUME Types, NEW e \in Ends
  PROVE  /\ rx[e].at \in {"idle", "write", "close", "mark", "delete"}
         /\ rx[e].at = "idle" <=> rx[e] = Idle
         /\ rx[e].at # "idle" => rx[e].obj \in Objects /\ rx[e].obj.ch \in Channels
         /\ rx[e].at = "write" => rx[e] = Writing(rx[e].obj, rx[e].data) /\ rx[e].data \in Chunks
         /\ rx[e].at \in {"close", "mark", "delete"} => rx[e] = Closing(rx[e].at, rx[e].obj)
         /\ DOMAIN rx = Ends
<1>1. rx[e] \in {Idle} \cup Writings \cup Closings /\ DOMAIN rx = Ends
  BY DEF Types
<1>2. CASE rx[e] = Idle
  BY <1>1, <1>2 DEF Idle
<1>3. CASE rx[e] \in Writings
  BY <1>1, <1>3, ObjectFacts DEF Idle, Writings, Writing
<1>4. CASE rx[e] \in Closings
  BY <1>1, <1>4, ObjectFacts DEF Idle, Closings, Closing
<1> QED
  BY <1>1, <1>2, <1>3, <1>4

LEMMA InHandFacts == \A e, c : InHand(e, c) \in {0, 1} /\ InHand(e, c) \in Nat
  BY DEF InHand

-------------------------------------------------------------------------------
\* Steps that leave what a part of the invariant speaks of alone.

\* The receive loop of end e goes on with channel c, if it does anything for it.
RxKept(e, c) == rx'[e] = rx[e] \/ (~Serving(e, c) /\ ~Serving(e, c)')

LEMMA RxKeptFacts ==
  ASSUME NEW e, NEW c, RxKept(e, c)
  PROVE  /\ Serving(e, c)' <=> Serving(e, c)
         /\ InWrite(e, c)' <=> InWrite(e, c)
         /\ Handling(e, c)' <=> Handling(e, c)
         /\ InHand(e, c)' = InHand(e, c)
         /\ Serving(e, c) => rx'[e] = rx[e]
         /\ InWrite(e, c) => rx'[e] = rx[e]
<1>1. CASE rx'[e] = rx[e]
  BY <1>1 DEF Serving, InWrite, Handling, InHand
<1>2. CASE ~Serving(e, c) /\ ~Serving(e, c)'
  BY <1>2 DEF Serving, InWrite, Handling, InHand
<1> QED
  BY <1>1, <1>2 DEF RxKept

LEMMA GensMoved ==
  ASSUME NEW c \in Channels, NEW n \in Nat, GensOK(c, n), \A e \in Ends : RxKept(e, c),
         \A o \in Objects : o.ch = c => /\ phase'[o] = "none" <=> phase[o] = "none"
                                        /\ phase[o] = "done" => phase'[o] = "done"
                                        /\ phase'[o] = "done" => phase[o] = "done" \/ pool'[o.end][c] = 0,
         \A e \in Ends : pool'[e][c] \in {pool[e][c], 0}
  PROVE  GensOK(c, n)'
<1>1. \A g \in Gens("R", c) : /\ phase'[Sv(c, g)] = "none" <=> phase[Sv(c, g)] = "none"
                              /\ phase[Sv(c, g)] = "done" => phase'[Sv(c, g)] = "done"
                              /\ phase'[Sv(c, g)] = "done" => phase[Sv(c, g)] = "done" \/ pool'["R"][c] = 0
  BY ObjectFacts
<1>2. /\ phase'[Cl(c)] = "none" <=> phase[Cl(c)] = "none"
      /\ phase'[Cl(c)] = "done" => phase[Cl(c)] = "done" \/ pool'["F"][c] = 0
  BY ObjectFacts
<1>3. \A g \in Nat : 0 < g /\ g <= n => g \in Gens("R", c)
  BY ObjectFacts DEF GensOK
<1>4. \A e \in Ends : (Serving(e, c)' <=> Serving(e, c)) /\ (Serving(e, c) => rx'[e] = rx[e])
  BY RxKeptFacts
<1> QED
  BY <1>1, <1>2, <1>3, <1>4, EndFacts DEF GensOK, Sv, Cl, Tcp, Gens

LEMMA OnWaySame ==
  ASSUME Types, NEW e \in Ends, NEW c, NEW low \in Nat, NEW hi \in Nat, OnWay(e, c, low, hi),
         NoDataMoved(queue[Other(e)], queue'[Other(e)], c),
         InWrite(e, c)' <=> InWrite(e, c), InWrite(e, c) => rx'[e] = rx[e]
  PROVE  OnWay(e, c, low, hi)'
<1>1. low + InHand(e, c) \in Nat /\ queue[Other(e)] \in Seq(Messages)
  BY TypeFacts, EndFacts, InHandFacts
<1>2. InHand(e, c)' = InHand(e, c)
  BY DEF InHand
<1>3. Flow(queue'[Other(e)], c, 1, low + InHand(e, c), hi)
  BY <1>1, FlowSame DEF OnWay
<1> QED
  BY <1>2, <1>3 DEF OnWay

\* Serve hands over a chunk.
LEMMA OnWaySent ==
  ASSUME Types, NEW e \in Ends, NEW c, NEW low \in Nat, NEW hi \in Nat, OnWay(e, c, low, hi), low <= hi,
         NEW m \in Messages, Of(m, c, 1), m.data[2] = hi + 1,
         queue'[Other(e)] = Append(queue[Other(e)], m), rx'[e] = rx[e]
  PROVE  OnWay(e, c, low, hi + 1)'
<1>1. low + InHand(e, c) \in Nat /\ queue[Other(e)] \in Seq(Messages)
  BY TypeFacts, EndFacts, InHandFacts
<1>2. InHand(e, c)' = InHand(e, c) /\ (InWrite(e, c)' <=> InWrite(e, c))
  BY DEF InHand, InWrite
<1>3. low + InHand(e, c) <= hi
  BY DEF OnWay, InHand
<1>4. Flow(queue'[Other(e)], c, 1, low + InHand(e, c), hi + 1)
  BY <1>1, <1>3, FlowAppended DEF OnWay
<1> QED
  BY <1>2, <1>4 DEF OnWay

\* The receive loop takes a chunk.
LEMMA OnWayReceived ==
  ASSUME Types, NEW e \in Ends, NEW c, NEW low \in Nat, NEW hi \in Nat, OnWay(e, c, low, hi),
         rx[e] = Idle, queue[Other(e)] # <<>>, Of(Head(queue[Other(e)]), c, 1),
         NEW o \in Objects, o.ch = c, rx'[e] = Writing(o, Head(queue[Other(e)]).data),
         queue'[Other(e)] = Tail(queue[Other(e)])
  PROVE  OnWay(e, c, low, hi)' /\ low + 1 <= hi /\ InHand(e, c)' = 1 /\ InHand(e, c) = 0
<1>1. queue[Other(e)] \in Seq(Messages) /\ Head(queue[Other(e)]) \in Messages
  BY TypeFacts, EndFacts
<1>2. InHand(e, c) = 0 /\ InHand(e, c)' = 1 /\ InWrite(e, c)'
  BY DEF InHand, InWrite, Idle, Writing
<1>3. Flow(queue[Other(e)], c, 1, low, hi)
  BY <1>2 DEF OnWay
<1>4. /\ Head(queue[Other(e)]).data[2] = low + 1 /\ low + 1 <= hi
      /\ Flow(queue'[Other(e)], c, 1, low + 1, hi)
  BY <1>1, <1>3, FlowTaken
<1>5. rx'[e].data = <<1, low + 1>>
  BY <1>1, <1>4, MessageFacts DEF Writing, Of, IsData
<1> QED
  BY <1>2, <1>4, <1>5 DEF OnWay

\* The receive loop has written it.
LEMMA OnWayWritten ==
  ASSUME NEW e \in Ends, NEW c, NEW low \in Nat, NEW hi \in Nat, OnWay(e, c, low, hi),
         InWrite(e, c), rx'[e] = Idle, queue' = queue
  PROVE  OnWay(e, c, low + 1, hi)' /\ low + 1 <= hi /\ InHand(e, c) = 1 /\ InHand(e, c)' = 0
<1>1. InHand(e, c) = 1 /\ InHand(e, c)' = 0 /\ ~InWrite(e, c)'
  BY DEF InHand, InWrite, Idle
<1> QED
  BY <1>1 DEF OnWay

LEMMA SentSame ==
  ASSUME NEW o \in Objects, NEW hi \in Nat, SentOK(o, hi), nread[o] \in Nat, nread'[o] \in Nat,
         nread'[o] - Unsent(o)' = nread[o] - Unsent(o), nread'[o] >= nread[o], shut \subseteq shut'
  PROVE  SentOK(o, hi)'
<1>1. hi <= nread'[o]
  BY DEF SentOK
<1>2. o.end \notin shut' => hi = nread'[o] - Unsent(o)'
  BY DEF SentOK
<1> QED
  BY <1>1, <1>2 DEF SentOK

LEMMA StreamSame ==
  ASSUME NEW c, NEW n, NEW base, StreamOK(c, n, base),
         \A g \in Gens("R", c) : written'[Sv(c, g)] = written[Sv(c, g)]
  PROVE  StreamOK(c, n, base)'
  BY DEF StreamOK, Sv, Tcp, Gens, Total

LEMMA TotalFacts ==
  ASSUME NEW c \in Channels, NEW base \in [Nat -> Nat]
  PROVE  Total(c, base) \in Nat
<1>1. NUp[c] + 1 \in Nat
  BY ObjectFacts
<1> QED
  BY <1>1 DEF Total

\* The receive loop of end e still has the chunk of channel c that it had, or has none.
WriteKept(e, c) ==
  /\ InWrite(e, c)' <=> InWrite(e, c)
  /\ InWrite(e, c) => rx'[e] = rx[e]

LEMMA WriteKeptFacts ==
  ASSUME NEW e, NEW c, WriteKept(e, c)
  PROVE  InHand(e, c)' = InHand(e, c)
  BY DEF WriteKept, InHand

LEMMA UpKept ==
  ASSUME NEW c \in Channels, NEW n \in Nat, NEW sent \in Nat, NEW base \in [Nat -> Nat],
         Types, UpOK(c, n, sent, base),
         \A g \in Gens("R", c) : written'[Sv(c, g)] = written[Sv(c, g)],
         SentOK(Cl(c), sent)', FirstOnly(queue'["F"], c),
         NoDataMoved(queue["F"], queue'["F"], c), WriteKept("R", c), up' \subseteq up
  PROVE  UpOK(c, n, sent, base)'
<1>1. Total(c, base) \in Nat
  BY TotalFacts
<1>2. StreamOK(c, n, base)'
  BY StreamSame DEF UpOK
<1>3. InHand("R", c)' = InHand("R", c) /\ (InWrite("R", c)' <=> InWrite("R", c))
      /\ (InWrite("R", c) => rx'["R"] = rx["R"])
  BY WriteKeptFacts DEF WriteKept
<1>4. ASSUME "R" \in up' PROVE OnWay("R", c, Total(c, base), sent)'
  <2>1. OnWay("R", c, Total(c, base), sent) /\ queue[Other("R")] = queue["F"]
    BY <1>4, EndFacts DEF UpOK
  <2>2. NoDataMoved(queue[Other("R")], queue'[Other("R")], c)
    BY EndFacts
  <2> HIDE DEF Total
  <2>3. \A low \in Nat : OnWay("R", c, low, sent) => OnWay("R", c, low, sent)'
    BY <1>3, <2>2, OnWaySame, EndFacts
  <2> QED
    BY <1>1, <2>1, <2>3 DEF Total
<1> QED
  BY <1>2, <1>3, <1>4 DEF UpOK, Total

LEMMA UpSame ==
  ASSUME NEW c \in Channels, NEW n \in Nat, NEW sent \in Nat, NEW base \in [Nat -> Nat],
         Types, UpOK(c, n, sent, base),
         \A g \in Gens("R", c) : written'[Sv(c, g)] = written[Sv(c, g)],
         SentOK(Cl(c), sent)', FirstOnly(queue'["F"], c),
         NoDataMoved(queue["F"], queue'["F"], c), RxKept("R", c), up' \subseteq up
  PROVE  UpOK(c, n, sent, base)'
<1>1. WriteKept("R", c)
  BY RxKeptFacts, EndFacts DEF WriteKept
<1> QED
  BY <1>1, UpKept

LEMMA DownKept ==
  ASSUME NEW c \in Channels, NEW back \in Nat, Types, DownOK(c, back),
         written'[Cl(c)] = written[Cl(c)], SentOK(Sv(c, 1), back)',
         NoDataMoved(queue["R"], queue'["R"], c), WriteKept("F", c), up' \subseteq up
  PROVE  DownOK(c, back)'
<1>1. Given(c) \in Nat /\ Given(c)' = Given(c)
  BY TypeFacts, ObjectFacts DEF Given, Cl, Tcp
<1>2. InHand("F", c)' = InHand("F", c) /\ (InWrite("F", c)' <=> InWrite("F", c))
      /\ (InWrite("F", c) => rx'["F"] = rx["F"])
  BY WriteKeptFacts DEF WriteKept
<1>3. NoDataMoved(queue[Other("F")], queue'[Other("F")], c)
  BY EndFacts
<1>4. PICK low \in Nat : low = Given(c) /\ low = Given(c)'
  BY <1>1
<1>5. OnWay("F", c, low, back) => OnWay("F", c, low, back)'
  BY <1>2, <1>3, OnWaySame, EndFacts
<1>6. "F" \in up' => OnWay("F", c, low, back)'
  BY <1>4, <1>5 DEF DownOK
<1>7. "F" \in up' => OnWay("F", c, Given(c), back)'
  BY <1>4, <1>6 DEF OnWay
<1> QED
  BY <1>1, <1>7 DEF DownOK, Cl, Tcp

LEMMA DownSame ==
  ASSUME NEW c \in Channels, NEW back \in Nat, Types, DownOK(c, back),
         written'[Cl(c)] = written[Cl(c)], SentOK(Sv(c, 1), back)',
         NoDataMoved(queue["R"], queue'["R"], c), RxKept("F", c), up' \subseteq up
  PROVE  DownOK(c, back)'
<1>1. WriteKept("F", c)
  BY RxKeptFacts, EndFacts DEF WriteKept
<1> QED
  BY <1>1, DownKept

\* What the two ends have told each other, and what they know.
TalkOK(c, n) == FromClientOK(c, n) /\ FromServerOK(c, n) /\ ForgetOK(c)

\* The marks of channel c in the two queues.
MarksKept(c) ==
  /\ Has(queue'["F"], c) <=> Has(queue["F"], c)
  /\ CloseIsLast(queue["F"], c) => CloseIsLast(queue'["F"], c)
  /\ Has(queue'["R"], c) <=> Has(queue["R"], c)

\* Nobody of channel c leaves, and no channel is closed before its goroutine knows.
NoneLeaves(c) ==
  \A o \in Objects : o.ch = c => /\ Left(o)' <=> Left(o)
                                 /\ ClosedByLoop(o)' => ClosedByLoop(o)
                                 /\ phase[o] = "done" => phase'[o] = "done"

LEMMA TalkSame ==
  ASSUME NEW c \in Channels, NEW n \in Nat, GensOK(c, n), TalkOK(c, n),
         NoneLeaves(c), MarksKept(c), shut \subseteq shut', Quiet(c) => Quiet(c)',
         Covered(queue'["R"], c) \/ Handling("F", c) \/ Forgotten(c),
         Forgotten(c)' <=> Forgotten(c), pool'["R"][c] = pool["R"][c],
         Cl(c) \in byRemote => Cl(c) \in byRemote',
         \A e \in Ends : Handling(e, c)' <=> Handling(e, c)
  PROVE  TalkOK(c, n)'
<1>1. /\ Left(Cl(c))' <=> Left(Cl(c))
      /\ ClosedByLoop(Cl(c))' => ClosedByLoop(Cl(c))
      /\ phase[Cl(c)] = "done" => phase'[Cl(c)] = "done"
  BY ObjectFacts DEF NoneLeaves
<1>2. \A g \in Gens("R", c) : /\ Left(Sv(c, g))' <=> Left(Sv(c, g))
                              /\ ClosedByLoop(Sv(c, g))' => ClosedByLoop(Sv(c, g))
                              /\ phase[Sv(c, g)] = "done" => phase'[Sv(c, g)] = "done"
  BY ObjectFacts DEF NoneLeaves
<1>3. 1 \in Gens("R", c) /\ (n > 0 => n \in Gens("R", c))
  BY ObjectFacts DEF GensOK
<1>4. /\ Handling("R", c)' <=> Handling("R", c)
      /\ Handling("F", c)' <=> Handling("F", c)
  BY EndFacts
<1>5. Quiet(c) => Quiet(c)'
  OBVIOUS
<1>6. Told(c)' <=> Told(c)
  BY <1>4 DEF Told, MarksKept
<1>7. FromClientOK(c, n)'
  <2>1. CloseIsLast(queue["F"], c)' /\ (Has(queue["F"], c)' => Left(Cl(c))')
    BY <1>1 DEF TalkOK, FromClientOK, MarksKept
  <2>2. Handling("R", c)' => Quiet(c)'
    BY <1>4, <1>5 DEF TalkOK, FromClientOK
  <2>3. \A g \in Gens("R", c) : ClosedByLoop(Sv(c, g))' => Quiet(c)'
    BY <1>2, <1>5 DEF TalkOK, FromClientOK
  <2>4. n > 0 /\ pool'["R"][c] = 0 => Quiet(c)' \/ phase'[Sv(c, n)] = "done"
    BY <1>2, <1>3, <1>5 DEF TalkOK, FromClientOK
  <2> QED
    BY <2>1, <2>2, <2>3, <2>4 DEF FromClientOK, Sv, Tcp, Gens
<1>8. FromServerOK(c, n)'
  <2>1. n > 0 /\ Left(Sv(c, 1))' => Quiet(c)' \/ "R" \in shut' \/ Told(c)'
    BY <1>2, <1>3, <1>5, <1>6 DEF TalkOK, FromServerOK
  <2>2. n > 1 => Told(c)'
    BY <1>6 DEF TalkOK, FromServerOK
  <2>3. Covered(queue["R"], c)' \/ Handling("F", c)' \/ Forgotten(c)'
    BY <1>4
  <2>4. Has(queue["R"], c)' \/ Handling("F", c)' \/ ClosedByLoop(Cl(c))' =>
          \E g \in Gens("R", c) : Left(Sv(c, g))'
    BY <1>1, <1>2, <1>4 DEF TalkOK, FromServerOK, MarksKept
  <2> QED
    BY <2>1, <2>2, <2>3, <2>4 DEF FromServerOK, Gens
<1>9. ForgetOK(c)'
  <2>1. Left(Cl(c))' => \/ \E g \in Gens("R", c) : Left(Sv(c, g))'
                        \/ Has(queue["F"], c)' \/ Handling("R", c)' \/ "F" \in shut'
                        \/ pool'["R"][c] = 0 /\ Quiet(c)'
    BY <1>1, <1>2, <1>4, <1>5 DEF TalkOK, ForgetOK, MarksKept
  <2>2. Forgotten(c)' => phase'[Cl(c)] = "done" \/ Cl(c) \in byRemote'
    BY <1>1 DEF TalkOK, ForgetOK
  <2> QED
    BY <2>1, <2>2 DEF ForgetOK, Gens, Cl, Tcp
<1> QED
  BY <1>7, <1>8, <1>9 DEF TalkOK

\* A step that has nothing to do with channel c.
Untouched(c) ==
  /\ \A o \in Objects : o.ch = c => /\ phase'[o] = phase[o] /\ nread'[o] = nread[o]
                                    /\ written'[o] = written[o]
                                    /\ o \in closed' <=> o \in closed
                                    /\ o \in byRemote' <=> o \in byRemote
  /\ \A e \in Ends : pool'[e][c] = pool[e][c] /\ Unrelated(queue[e], queue'[e], c) /\ RxKept(e, c)
  /\ up' \subseteq up /\ shut \subseteq shut'

LEMMA MarksUnrelated ==
  ASSUME Types, NEW c, \A e \in Ends : Unrelated(queue[e], queue'[e], c)
  PROVE  /\ MarksKept(c) /\ (FirstOnly(queue["F"], c) => FirstOnly(queue'["F"], c))
         /\ NoData(queue'["F"], c) <=> NoData(queue["F"], c)
         /\ Covered(queue["R"], c) => Covered(queue'["R"], c)
         /\ NoDataMoved(queue["F"], queue'["F"], c) /\ NoDataMoved(queue["R"], queue'["R"], c)
<1>1. \A e \in Ends : /\ Has(queue'[e], c) <=> Has(queue[e], c)
                      /\ NoData(queue'[e], c) <=> NoData(queue[e], c)
                      /\ CloseIsLast(queue[e], c) => CloseIsLast(queue'[e], c)
                      /\ FirstOnly(queue[e], c) => FirstOnly(queue'[e], c)
                      /\ Covered(queue[e], c) => Covered(queue'[e], c)
                      /\ NoDataMoved(queue[e], queue'[e], c)
  BY TypeFacts, MarksSame
<1> QED
  BY <1>1, EndFacts DEF MarksKept

LEMMA UntouchedOK ==
  ASSUME Types, NEW c \in Channels, ChannelOK(c), Untouched(c)
  PROVE  ChannelOK(c)'
<1>1. PICK n \in Nat, sent \in Nat, back \in Nat, base \in [Nat -> Nat] : ChannelOf(c, n, sent, back, base)
  BY DEF ChannelOK
<1>2. \A o \in Objects : o.ch = c => /\ phase'[o] = phase[o] /\ nread'[o] = nread[o]
                                     /\ written'[o] = written[o]
                                     /\ o \in closed' <=> o \in closed
                                     /\ o \in byRemote' <=> o \in byRemote
  BY DEF Untouched
<1>3. \A e \in Ends : pool'[e][c] = pool[e][c] /\ RxKept(e, c)
  BY DEF Untouched
<1>4. \A e \in Ends : Unrelated(queue[e], queue'[e], c)
  BY DEF Untouched
<1>5. up' \subseteq up /\ shut \subseteq shut'
  BY DEF Untouched
<1>6. /\ phase'[Cl(c)] = phase[Cl(c)] /\ nread'[Cl(c)] = nread[Cl(c)] /\ written'[Cl(c)] = written[Cl(c)]
      /\ Cl(c) \in byRemote' <=> Cl(c) \in byRemote
  BY <1>2, ObjectFacts
<1>7. \A g \in Gens("R", c) : /\ phase'[Sv(c, g)] = phase[Sv(c, g)] /\ nread'[Sv(c, g)] = nread[Sv(c, g)]
                              /\ written'[Sv(c, g)] = written[Sv(c, g)]
  BY <1>2, ObjectFacts
<1>8. MarksKept(c) /\ (FirstOnly(queue["F"], c) => FirstOnly(queue'["F"], c))
      /\ (NoData(queue'["F"], c) <=> NoData(queue["F"], c))
      /\ (Covered(queue["R"], c) => Covered(queue'["R"], c))
      /\ NoDataMoved(queue["F"], queue'["F"], c) /\ NoDataMoved(queue["R"], queue'["R"], c)
  BY <1>4, MarksUnrelated
<1>9. /\ nread[Cl(c)] \in Nat /\ nread[Sv(c, 1)] \in Nat
      /\ Cl(c) \in Objects /\ Sv(c, 1) \in Objects /\ 1 \in Gens("R", c)
  BY ObjectFacts, TypeFacts
<1>10. Unsent(Cl(c))' = Unsent(Cl(c)) /\ Unsent(Sv(c, 1))' = Unsent(Sv(c, 1))
  BY <1>6, <1>7, <1>9 DEF Unsent, Cl, Sv, Tcp
<1>11. GensOK(c, n)'
  BY <1>1, <1>2, <1>3, GensMoved DEF ChannelOf
<1>12. UpOK(c, n, sent, base)'
  <2>1. SentOK(Cl(c), sent)'
    BY <1>1, <1>5, <1>6, <1>9, <1>10 DEF ChannelOf, UpOK, SentOK, Cl, Tcp
  <2> QED
    BY <1>1, <1>3, <1>5, <1>7, <1>8, <2>1, EndFacts, UpSame DEF ChannelOf, UpOK
<1>13. DownOK(c, back)'
  <2>1. SentOK(Sv(c, 1), back)'
    BY <1>1, <1>5, <1>7, <1>9, <1>10 DEF ChannelOf, DownOK, SentOK, Sv, Tcp
  <2> QED
    BY <1>1, <1>3, <1>5, <1>6, <1>8, <2>1, EndFacts, DownSame DEF ChannelOf
<1>14. TalkOK(c, n)'
  <2>1. NoneLeaves(c)
    BY <1>2 DEF NoneLeaves, Left, ClosedByLoop
  <2>2. Forgotten(c)' <=> Forgotten(c)
    BY <1>3, <1>6, EndFacts DEF Forgotten, Cl, Tcp
  <2>3. \A e \in Ends : Handling(e, c)' <=> Handling(e, c)
    BY <1>3, RxKeptFacts
  <2>4. Quiet(c)' <=> Quiet(c)
    BY <1>6, <1>8, <1>9 DEF Quiet, Left, Cl, Tcp
  <2>5. Covered(queue'["R"], c) \/ Handling("F", c) \/ Forgotten(c)
    BY <1>1, <1>8 DEF ChannelOf, FromServerOK
  <2> QED
    BY <1>1, <1>3, <1>5, <1>6, <1>8, <2>1, <2>2, <2>3, <2>4, <2>5, EndFacts, TalkSame DEF ChannelOf, TalkOK
<1> QED
  BY <1>11, <1>12, <1>13, <1>14 DEF ChannelOK, ChannelOf, TalkOK

-------------------------------------------------------------------------------
\* The steps of the goroutine of a channel.

\* Goroutine o goes to p, and does nothing to other channels.
MovesTo(o, p) ==
  /\ phase[o] # "none" /\ p # "none" /\ phase[o] # "done"
  /\ Goto(o, p)
  /\ UNCHANGED <<byRemote, written, rx, up, shut>>
  /\ closed \subseteq closed' /\ closed' \subseteq closed \cup {o}
  /\ \A q \in Objects : q # o => nread'[q] = nread[q]
  /\ pool' = pool \/ pool' = [pool EXCEPT ![o.end][o.ch] = 0]
  /\ \/ queue' = queue
     \/ \E m \in Messages : m.ch = o.ch /\ queue' = [queue EXCEPT ![o.end] = Append(@, m)]

LEMMA GotoFacts ==
  ASSUME Types, NEW o \in Objects, NEW p, Goto(o, p)
  PROVE  phase'[o] = p /\ \A q \in Objects : q # o => phase'[q] = phase[q]
  BY TypeFacts DEF Goto

LEMMA QueueFacts ==
  ASSUME Types, NEW e \in Ends, NEW m, queue' = [queue EXCEPT ![e] = Append(@, m)]
  PROVE  queue'[e] = Append(queue[e], m) /\ \A d \in Ends : d # e => queue'[d] = queue[d]
<1>1. queue \in [Ends -> Seq(Messages)]
  BY DEF Types
<1> QED
  BY <1>1

LEMMA PoolFacts ==
  ASSUME Types, NEW e \in Ends, NEW c \in Channels, NEW g, pool' = [pool EXCEPT ![e][c] = g]
  PROVE  /\ pool'[e][c] = g
         /\ \A d \in Ends, b \in Channels : d # e \/ b # c => pool'[d][b] = pool[d][b]
<1>1. pool \in [Ends -> [Channels -> Nat]]
  BY DEF Types
<1> QED
  BY <1>1

LEMMA PoolMoves ==
  ASSUME Types, NEW o \in Objects, NEW p, MovesTo(o, p)
  PROVE  /\ \A e \in Ends : pool'[e][o.ch] \in {pool[e][o.ch], 0}
         /\ \A e \in Ends, b \in Channels : b # o.ch => pool'[e][b] = pool[e][b]
<1>1. o.ch \in Channels /\ o.end \in Ends
  BY ObjectFacts
<1>2. CASE pool' = pool
  BY <1>2
<1>3. CASE pool' = [pool EXCEPT ![o.end][o.ch] = 0]
  <2>1. pool'[o.end][o.ch] = 0 /\ \A d \in Ends, b \in Channels : d # o.end \/ b # o.ch => pool'[d][b] = pool[d][b]
    <3>1. pool \in [Ends -> [Channels -> Nat]]
      BY DEF Types
    <3> QED
      BY <1>1, <1>3, <3>1
  <2>2. \A e \in Ends : pool'[e][o.ch] \in {pool[e][o.ch], 0}
    <3> TAKE e \in Ends
    <3>1. e = o.end \/ pool'[e][o.ch] = pool[e][o.ch]
      BY <1>1, <2>1
    <3> QED
      BY <2>1, <3>1
  <2> QED
    BY <2>1, <2>2
<1> QED
  BY <1>2, <1>3 DEF MovesTo

LEMMA MovesOthers ==
  ASSUME Types, NEW o \in Objects, NEW p, MovesTo(o, p), NEW b \in Channels, b # o.ch
  PROVE  Untouched(b)
<1>1. \A q \in Objects : q.ch = b => /\ q # o /\ phase'[q] = phase[q] /\ nread'[q] = nread[q]
                                     /\ written'[q] = written[q]
                                     /\ q \in closed' <=> q \in closed
                                     /\ q \in byRemote' <=> q \in byRemote
  BY GotoFacts DEF MovesTo
<1>2. \A e \in Ends : pool'[e][b] = pool[e][b]
  BY PoolMoves
<1>3. \A e \in Ends : Unrelated(queue[e], queue'[e], b)
  <2>1. CASE queue' = queue
    BY <2>1 DEF Unrelated
  <2>2. ASSUME NEW m \in Messages, m.ch = o.ch, queue' = [queue EXCEPT ![o.end] = Append(@, m)]
        PROVE  \A e \in Ends : Unrelated(queue[e], queue'[e], b)
    BY <2>2, QueueFacts, ObjectFacts DEF Unrelated, Concerns
  <2> QED
    BY <2>1, <2>2 DEF MovesTo
<1> QED
  BY <1>1, <1>2, <1>3 DEF Untouched, MovesTo, RxKept

\* The generations and the stream of a channel do not care where its goroutines are.
LEMMA MovesGens ==
  ASSUME Types, NEW o \in Objects, NEW p, MovesTo(o, p), NEW n \in Nat, GensOK(o.ch, n),
         p = "done" => pool'[o.end][o.ch] = 0
  PROVE  GensOK(o.ch, n)'
<1>1. o.ch \in Channels /\ o.end \in Ends
  BY ObjectFacts
<1>2. \A q \in Objects : /\ phase'[q] = "none" <=> phase[q] = "none"
                         /\ phase[q] = "done" => phase'[q] = "done"
                         /\ phase'[q] = "done" => phase[q] = "done" \/ q = o
  BY GotoFacts DEF MovesTo
<1>3. \A q \in Objects : phase'[q] = "done" => phase[q] = "done" \/ pool'[q.end][o.ch] = 0
  BY <1>2, GotoFacts DEF MovesTo
<1>4. \A e \in Ends : pool'[e][o.ch] \in {pool[e][o.ch], 0}
  BY <1>1, PoolMoves
<1>5. \A e \in Ends : RxKept(e, o.ch)
  BY DEF MovesTo, RxKept
<1> QED
  BY <1>1, <1>2, <1>3, <1>4, <1>5, GensMoved

\* What Serve has read stays what it has handed over and what it has in hand.
LEMMA MovesSent ==
  ASSUME Types, NEW o \in Objects, NEW p, MovesTo(o, p), NEW q \in Objects, NEW hi \in Nat, SentOK(q, hi),
         nread'[o] \in Nat, nread'[o] >= nread[o],
         o.end \in shut \/ nread'[o] - Unsent(o)' = nread[o] - Unsent(o)
  PROVE  SentOK(q, hi)'
<1>1. shut' = shut /\ nread[q] \in Nat
  BY TypeFacts DEF MovesTo
<1>2. CASE q # o
  <2>1. nread'[q] = nread[q] /\ phase'[q] = phase[q]
    BY <1>2, GotoFacts DEF MovesTo
  <2> QED
    BY <1>1, <2>1 DEF SentOK, Unsent
<1>3. CASE q = o
  BY <1>1, <1>3 DEF SentOK
<1> QED
  BY <1>2, <1>3

LEMMA MovesStreams ==
  ASSUME Types, NEW o \in Objects, NEW p, MovesTo(o, p),
         nread'[o] \in Nat, nread'[o] >= nread[o],
         o.end \in shut \/ nread'[o] - Unsent(o)' = nread[o] - Unsent(o),
         queue' = queue \/ \E m \in Messages : ~IsData(m, o.ch) /\ queue' = [queue EXCEPT ![o.end] = Append(@, m)],
         NEW n \in Nat, NEW sent \in Nat, NEW back \in Nat, NEW base \in [Nat -> Nat],
         UpOK(o.ch, n, sent, base), DownOK(o.ch, back)
  PROVE  UpOK(o.ch, n, sent, base)' /\ DownOK(o.ch, back)'
<1> DEFINE c == o.ch
<1>1. c \in Channels /\ o.end \in Ends /\ Cl(c) \in Objects /\ Sv(c, 1) \in Objects
  BY ObjectFacts
<1>2. SentOK(Cl(c), sent)' /\ SentOK(Sv(c, 1), back)'
  BY <1>1, MovesSent DEF UpOK, DownOK
<1>3. \A e \in Ends : RxKept(e, c)
  BY DEF MovesTo, RxKept
<1>4. up' \subseteq up /\ written' = written
  BY DEF MovesTo
<1>5. \A e \in Ends : NoDataMoved(queue[e], queue'[e], c)
  BY <1>1, QueueFacts DEF NoDataMoved, Of
<1>6. FirstOnly(queue["F"], c) => FirstOnly(queue'["F"], c)
  <2>1. queue["F"] \in Seq(Messages)
    BY TypeFacts, EndFacts
  <2>2. ASSUME NEW m \in Messages, ~IsData(m, c), queue' = [queue EXCEPT ![o.end] = Append(@, m)]
        PROVE  FirstOnly(queue["F"], c) => FirstOnly(queue'["F"], c)
    <3>1. queue'["F"] = queue["F"] \/ queue'["F"] = Append(queue["F"], m)
      BY <1>1, <2>2, QueueFacts, EndFacts
    <3> HIDE DEF c
    <3>2. FirstOnly(queue["F"], c) => FirstOnly(Append(queue["F"], m), c)
      BY <2>1, <2>2, MarksAppended
    <3> QED
      BY <3>1, <3>2
  <2> QED
    BY <2>2
<1> HIDE DEF c
<1>7. UpOK(c, n, sent, base)'
  <2>1. UpOK(c, n, sent, base)
    BY DEF c
  <2>2. FirstOnly(queue'["F"], c)
    BY <1>6, <2>1 DEF UpOK
  <2> QED
    BY <1>1, <1>2, <1>3, <1>4, <1>5, <2>1, <2>2, EndFacts, UpSame
<1>8. DownOK(c, back)'
  <2>1. DownOK(c, back)
    BY DEF c
  <2> QED
    BY <1>1, <1>2, <1>3, <1>4, <1>5, <2>1, EndFacts, DownSame
<1> QED
  BY <1>7, <1>8 DEF c

\* A step that says nothing to the other end.
LEMMA StaysOK ==
  ASSUME Types, NEW o \in Objects, ChannelOK(o.ch), NEW p, MovesTo(o, p),
         queue' = queue, pool' = pool, p = "done" => pool[o.end][o.ch] = 0,
         Left(o)' <=> Left(o), ClosedByLoop(o)' => ClosedByLoop(o),
         nread'[o] \in Nat, nread'[o] >= nread[o],
         o.end \in shut \/ nread'[o] - Unsent(o)' = nread[o] - Unsent(o)
  PROVE  ChannelOK(o.ch)'
<1>1. PICK n \in Nat, sent \in Nat, back \in Nat, base \in [Nat -> Nat] : ChannelOf(o.ch, n, sent, back, base)
  BY DEF ChannelOK
<1>2. GensOK(o.ch, n)'
  BY <1>1, MovesGens DEF ChannelOf
<1>3. UpOK(o.ch, n, sent, base)' /\ DownOK(o.ch, back)'
  BY <1>1, MovesStreams DEF ChannelOf
<1>4. TalkOK(o.ch, n)'
  <2>1. o.ch \in Channels /\ o.end \in Ends /\ Cl(o.ch) \in Objects
    BY ObjectFacts
  <2>2. NoneLeaves(o.ch)
    <3>1. \A q \in Objects : q # o => phase'[q] = phase[q] /\ (q \in closed' => q \in closed)
                                      /\ byRemote' = byRemote
      BY GotoFacts DEF MovesTo
    <3>2. \A q \in Objects : q # o => /\ Left(q)' <=> Left(q)
                                      /\ ClosedByLoop(q)' => ClosedByLoop(q)
                                      /\ phase[q] = "done" => phase'[q] = "done"
      BY <3>1 DEF Left, ClosedByLoop
    <3>3. phase[o] # "done"
      BY DEF MovesTo
    <3> QED
      BY <3>2, <3>3 DEF NoneLeaves
  <2>3. MarksKept(o.ch)
    BY DEF MarksKept
  <2>4. Forgotten(o.ch)' <=> Forgotten(o.ch)
    BY <2>1, GotoFacts DEF Forgotten, MovesTo, Cl, Tcp
  <2>5. \A e \in Ends : Handling(e, o.ch)' <=> Handling(e, o.ch)
    BY DEF Handling, MovesTo
  <2>6. Quiet(o.ch)' <=> Quiet(o.ch)
    BY <2>1, <2>2, ObjectFacts DEF Quiet, NoneLeaves
  <2>7. Covered(queue'["R"], o.ch) \/ Handling("F", o.ch) \/ Forgotten(o.ch)
    BY <1>1 DEF ChannelOf, FromServerOK
  <2> QED
    BY <1>1, <2>1, <2>2, <2>3, <2>4, <2>5, <2>6, <2>7, TalkSame DEF ChannelOf, TalkOK, MovesTo
<1> QED
  BY <1>2, <1>3, <1>4 DEF ChannelOK, ChannelOf, TalkOK

LEMMA LastIsGen ==
  ASSUME NEW c \in Channels, NEW n \in Nat, GensOK(c, n), n > 0
  PROVE  n \in Gens("R", c) /\ Sv(c, n) \in Objects
<1>1. n <= NUp[c]
  BY DEF GensOK
<1>2. Gens("R", c) = 1 .. NUp[c] /\ NUp[c] \in Nat
  BY ObjectFacts
<1>3. n \in Gens("R", c)
  BY <1>1, <1>2
<1> QED
  BY <1>3, ObjectFacts

\* The server connection whose goroutine runs is the last one.
LEMMA LastRuns ==
  ASSUME NEW o \in Objects, o.end = "R", NEW n \in Nat, GensOK(o.ch, n),
         phase[o] # "none", phase[o] # "done"
  PROVE  o = Sv(o.ch, n) /\ n > 0 /\ n \in Gens("R", o.ch)
<1>1. o = Sv(o.ch, o.gen) /\ o.gen \in 1 .. NUp[o.ch] /\ Gens("R", o.ch) = 1 .. NUp[o.ch] /\ NUp[o.ch] \in Nat
  BY ObjectFacts
<1>2. o.gen <= n
  BY <1>1 DEF GensOK
<1>3. o.gen \notin 1 .. n - 1
  BY <1>1 DEF GensOK
<1> QED
  BY <1>1, <1>2, <1>3

\* The marks of channel c when end e has sent its close notice.
LEMMA CloseSent ==
  ASSUME Types, NEW c \in Channels, NEW e \in Ends, queue' = [queue EXCEPT ![e] = Append(@, ChannelClose(c))]
  PROVE  /\ Has(queue'[e], c)
         /\ \A d \in Ends : /\ NoData(queue'[d], c) <=> NoData(queue[d], c)
                            /\ CloseIsLast(queue[d], c) => CloseIsLast(queue'[d], c)
                            /\ Covered(queue[d], c) => Covered(queue'[d], c)
                            /\ Has(queue[d], c) => Has(queue'[d], c)
                            /\ d # e => (Has(queue'[d], c) <=> Has(queue[d], c))
<1>1. ChannelClose(c) \in Messages /\ ~IsData(ChannelClose(c), c)
  BY MessageFacts DEF IsData
<1>2. /\ queue'[e] = Append(queue[e], ChannelClose(c)) /\ queue[e] \in Seq(Messages)
      /\ \A d \in Ends : d # e => queue'[d] = queue[d]
  BY QueueFacts, TypeFacts
<1>3. /\ Has(queue'[e], c)
      /\ NoData(queue'[e], c) <=> NoData(queue[e], c)
      /\ CloseIsLast(queue[e], c) => CloseIsLast(queue'[e], c)
      /\ Covered(queue[e], c) => Covered(queue'[e], c)
  BY <1>1, <1>2, MarksAppended
<1> QED
  BY <1>2, <1>3

\* A goroutine that tells the other end, or need not.
LEMMA LeavesOK ==
  ASSUME Types, NEW o \in Objects, ChannelOK(o.ch), NEW p, MovesTo(o, p),
         p = "exist", pool' = pool, ~Left(o),
         nread'[o] = nread[o], o.end \in shut \/ Unsent(o) = 0,
         \/ queue' = queue /\ (ClosedByLoop(o) \/ o.end \in shut)
         \/ queue' = [queue EXCEPT ![o.end] = Append(@, ChannelClose(o.ch))]
  PROVE  ChannelOK(o.ch)'
<1>1. PICK n \in Nat, sent \in Nat, back \in Nat, base \in [Nat -> Nat] : ChannelOf(o.ch, n, sent, back, base)
  BY DEF ChannelOK
<1>2. /\ o.ch \in Channels /\ o.end \in Ends /\ Cl(o.ch) \in Objects /\ nread[o] \in Nat
      /\ 1 \in Gens("R", o.ch) /\ \A g \in Gens("R", o.ch) : Sv(o.ch, g) \in Objects /\ Sv(o.ch, g).end = "R"
  <2>1. o.ch \in Channels /\ o.end \in Ends
    BY ObjectFacts
  <2>2. Cl(o.ch) \in Objects /\ 1 \in Gens("R", o.ch)
    BY <2>1, ObjectFacts
  <2>3. \A g \in Gens("R", o.ch) : Sv(o.ch, g) \in Objects /\ Sv(o.ch, g).end = "R"
    BY <2>1, ObjectFacts
  <2>4. nread[o] \in Nat
    BY TypeFacts
  <2> QED
    BY <2>1, <2>2, <2>3, <2>4
<1>3. phase'[o] = "exist" /\ \A q \in Objects : q # o => phase'[q] = phase[q]
  BY GotoFacts DEF MovesTo
<1>4. GensOK(o.ch, n)'
  <2>1. GensOK(o.ch, n)
    BY <1>1 DEF ChannelOf
  <2>2. p = "done" => pool'[o.end][o.ch] = 0
    OBVIOUS
  <2> QED
    BY <2>1, <2>2, MovesGens, Zenon
<1>5. UpOK(o.ch, n, sent, base)' /\ DownOK(o.ch, back)'
  <2>1. ChannelClose(o.ch) \in Messages /\ ~IsData(ChannelClose(o.ch), o.ch)
    BY <1>2, MessageFacts DEF IsData
  <2>2. o.end \in shut \/ Unsent(o)' = Unsent(o)
    BY <1>3 DEF Unsent
  <2>3. o.end \in shut \/ nread'[o] - Unsent(o)' = nread[o] - Unsent(o)
    BY <2>2
  <2>4. nread'[o] \in Nat /\ nread'[o] >= nread[o]
    BY <1>2
  <2>5. queue' = queue \/ \E m \in Messages : ~IsData(m, o.ch) /\ queue' = [queue EXCEPT ![o.end] = Append(@, m)]
    BY <2>1
  <2>6. UpOK(o.ch, n, sent, base) /\ DownOK(o.ch, back)
    BY <1>1 DEF ChannelOf
  <2> QED
    BY <2>3, <2>4, <2>5, <2>6, MovesStreams
<1>6. Left(o)' /\ \A q \in Objects : (Left(q) => Left(q)') /\ (q # o => (Left(q)' <=> Left(q)))
  BY <1>3 DEF Left
<1>7. \A q \in Objects : ClosedByLoop(q)' => ClosedByLoop(q)
  BY <1>3 DEF ClosedByLoop, MovesTo
<1>8. byRemote' = byRemote /\ rx' = rx /\ shut' = shut
  BY DEF MovesTo
<1>9. /\ Handling("R", o.ch)' <=> Handling("R", o.ch)
      /\ Handling("F", o.ch)' <=> Handling("F", o.ch)
  BY <1>8 DEF Handling
<1>10. Forgotten(o.ch)' <=> Forgotten(o.ch)
  BY <1>2, <1>3 DEF Forgotten, MovesTo, Cl, Tcp
<1>11. /\ \A e \in Ends : /\ NoData(queue'[e], o.ch) <=> NoData(queue[e], o.ch)
                          /\ CloseIsLast(queue[e], o.ch) => CloseIsLast(queue'[e], o.ch)
                          /\ Covered(queue[e], o.ch) => Covered(queue'[e], o.ch)
                          /\ Has(queue[e], o.ch) => Has(queue'[e], o.ch)
                          /\ e # o.end => (Has(queue'[e], o.ch) <=> Has(queue[e], o.ch))
       /\ Has(queue'[o.end], o.ch) \/ (ClosedByLoop(o) \/ o.end \in shut)
  <2>1. CASE queue' = queue /\ (ClosedByLoop(o) \/ o.end \in shut)
    BY <2>1
  <2>2. CASE queue' = [queue EXCEPT ![o.end] = Append(@, ChannelClose(o.ch))]
    BY <1>2, <2>2, CloseSent
  <2> QED
    BY <2>1, <2>2
<1>12. /\ NoData(queue'["F"], o.ch) <=> NoData(queue["F"], o.ch)
       /\ CloseIsLast(queue["F"], o.ch) => CloseIsLast(queue'["F"], o.ch)
       /\ Has(queue["F"], o.ch) => Has(queue'["F"], o.ch)
       /\ Covered(queue["R"], o.ch) => Covered(queue'["R"], o.ch)
       /\ Has(queue["R"], o.ch) => Has(queue'["R"], o.ch)
  BY <1>11, EndFacts
<1>13. /\ Left(Cl(o.ch)) => Left(Cl(o.ch))'
       /\ \A g \in Gens("R", o.ch) : Left(Sv(o.ch, g)) => Left(Sv(o.ch, g))'
       /\ \A g \in Gens("R", o.ch) : ClosedByLoop(Sv(o.ch, g))' => ClosedByLoop(Sv(o.ch, g))
       /\ ClosedByLoop(Cl(o.ch))' => ClosedByLoop(Cl(o.ch))
  BY <1>2, <1>6, <1>7
<1>14. (Quiet(o.ch) => Quiet(o.ch)') /\ (Told(o.ch) => Told(o.ch)')
  BY <1>9, <1>10, <1>12, <1>13 DEF Quiet, Told
<1>15. n > 0 /\ pool'["R"][o.ch] = 0 => Quiet(o.ch)' \/ phase'[Sv(o.ch, n)] = "done"
  <2>1. n > 0 => n \in Gens("R", o.ch)
    BY <1>1, <1>2, LastIsGen DEF ChannelOf
  <2>2. n > 0 /\ phase[Sv(o.ch, n)] = "done" => phase'[Sv(o.ch, n)] = "done"
    BY <1>2, <1>3, <2>1 DEF MovesTo
  <2> QED
    BY <1>1, <1>14, <2>2 DEF ChannelOf, FromClientOK
<1>16. CASE o.end = "F"
  <2>1. o = Cl(o.ch) /\ \A g \in Gens("R", o.ch) : Sv(o.ch, g) # o
    BY <1>2, <1>16, ObjectFacts
  <2>2. /\ Has(queue'["R"], o.ch) <=> Has(queue["R"], o.ch)
        /\ Has(queue'["F"], o.ch) \/ ClosedByLoop(o) \/ "F" \in shut
    BY <1>11, <1>16, EndFacts
  <2>3. \A g \in Gens("R", o.ch) : Left(Sv(o.ch, g))' <=> Left(Sv(o.ch, g))
    BY <1>2, <1>6, <2>1
  <2>4. FromClientOK(o.ch, n)'
    BY <1>1, <1>2, <1>6, <1>9, <1>12, <1>13, <1>14, <1>15, <2>1 DEF ChannelOf, FromClientOK, Sv, Tcp, Gens
  <2>5. FromServerOK(o.ch, n)'
    <3>1. n > 0 /\ Left(Sv(o.ch, 1))' => Quiet(o.ch)' \/ "R" \in shut' \/ Told(o.ch)'
      BY <1>1, <1>2, <1>8, <1>14, <2>3 DEF ChannelOf, FromServerOK
    <3>2. n > 1 => Told(o.ch)'
      BY <1>1, <1>14 DEF ChannelOf, FromServerOK
    <3>3. Covered(queue["R"], o.ch)' \/ Handling("F", o.ch)' \/ Forgotten(o.ch)'
      BY <1>1, <1>9, <1>10, <1>12 DEF ChannelOf, FromServerOK
    <3>4. Has(queue["R"], o.ch)' \/ Handling("F", o.ch)' \/ ClosedByLoop(Cl(o.ch))' =>
            \E g \in Gens("R", o.ch) : Left(Sv(o.ch, g))'
      BY <1>1, <1>9, <1>13, <2>2, <2>3 DEF ChannelOf, FromServerOK
    <3> QED
      BY <3>1, <3>2, <3>3, <3>4 DEF FromServerOK, Gens
  <2>6. ForgetOK(o.ch)'
    <3>1. Has(queue'["F"], o.ch) \/ "F" \in shut' \/ \E g \in Gens("R", o.ch) : Left(Sv(o.ch, g))'
      BY <1>1, <1>8, <2>1, <2>2, <2>3 DEF ChannelOf, FromServerOK
    <3>2. Forgotten(o.ch)' => Cl(o.ch) \in byRemote'
      BY <1>1, <1>8, <1>10, <2>1 DEF ChannelOf, ForgetOK, MovesTo
    <3> QED
      BY <3>1, <3>2 DEF ForgetOK, Gens, Cl, Tcp
  <2> QED
    BY <1>4, <1>5, <2>4, <2>5, <2>6 DEF ChannelOK, ChannelOf
<1>17. CASE o.end = "R"
  <2>1. o = Sv(o.ch, n) /\ n > 0 /\ n \in Gens("R", o.ch) /\ Cl(o.ch) # o
    BY <1>1, <1>2, <1>17, LastRuns, ObjectFacts DEF ChannelOf, MovesTo
  <2>2. /\ Has(queue'["F"], o.ch) <=> Has(queue["F"], o.ch)
        /\ Has(queue'["R"], o.ch) \/ ClosedByLoop(o) \/ "R" \in shut
    BY <1>11, <1>17, EndFacts
  <2>3. (Left(Cl(o.ch))' <=> Left(Cl(o.ch))) /\ phase'[Cl(o.ch)] = phase[Cl(o.ch)]
    BY <1>2, <1>3, <1>6, <2>1
  <2>4. FromClientOK(o.ch, n)'
    BY <1>1, <1>2, <1>9, <1>12, <1>13, <1>14, <1>15, <2>2, <2>3 DEF ChannelOf, FromClientOK, Sv, Tcp, Gens
  <2>5. FromServerOK(o.ch, n)'
    <3>1. n > 0 /\ Left(Sv(o.ch, 1))' => Quiet(o.ch)' \/ "R" \in shut' \/ Told(o.ch)'
      <4>1. ClosedByLoop(o) => Quiet(o.ch)
        BY <1>1, <2>1 DEF ChannelOf, FromClientOK
      <4>2. Has(queue'["R"], o.ch) => Told(o.ch)'
        BY DEF Told
      <4> QED
        BY <1>8, <1>14, <2>2, <4>1, <4>2
    <3>2. n > 1 => Told(o.ch)'
      BY <1>1, <1>14 DEF ChannelOf, FromServerOK
    <3>3. Covered(queue["R"], o.ch)' \/ Handling("F", o.ch)' \/ Forgotten(o.ch)'
      BY <1>1, <1>9, <1>10, <1>12 DEF ChannelOf, FromServerOK
    <3>4. \E g \in Gens("R", o.ch) : Left(Sv(o.ch, g))'
      BY <1>6, <2>1
    <3> QED
      BY <3>1, <3>2, <3>3, <3>4 DEF FromServerOK, Gens
  <2>6. ForgetOK(o.ch)'
    <3>1. \E g \in Gens("R", o.ch) : Left(Sv(o.ch, g))'
      BY <1>6, <2>1
    <3>2. Forgotten(o.ch)' => phase'[Cl(o.ch)] = "done" \/ Cl(o.ch) \in byRemote'
      BY <1>1, <1>8, <1>10, <2>3 DEF ChannelOf, ForgetOK
    <3> QED
      BY <3>1, <3>2 DEF ForgetOK, Gens, Cl, Tcp
  <2> QED
    BY <1>4, <1>5, <2>4, <2>5, <2>6 DEF ChannelOK, ChannelOf
<1> QED
  BY <1>2, <1>16, <1>17, EndFacts

\* t.cpool.Delete(c)
LEMMA DeletesOK ==
  ASSUME Types, NEW o \in Objects, ChannelOK(o.ch), MovesTo(o, "done"), phase[o] = "delete",
         pool' = [pool EXCEPT ![o.end][o.ch] = 0], queue' = queue, nread'[o] = nread[o]
  PROVE  ChannelOK(o.ch)'
<1>1. PICK n \in Nat, sent \in Nat, back \in Nat, base \in [Nat -> Nat] : ChannelOf(o.ch, n, sent, back, base)
  BY DEF ChannelOK
<1>2. /\ o.ch \in Channels /\ o.end \in Ends /\ Cl(o.ch) \in Objects /\ nread[o] \in Nat
      /\ 1 \in Gens("R", o.ch) /\ \A g \in Gens("R", o.ch) : Sv(o.ch, g) \in Objects /\ Sv(o.ch, g).end = "R"
  <2>1. o.ch \in Channels /\ o.end \in Ends
    BY ObjectFacts
  <2>2. Cl(o.ch) \in Objects /\ 1 \in Gens("R", o.ch)
    BY <2>1, ObjectFacts
  <2>3. \A g \in Gens("R", o.ch) : Sv(o.ch, g) \in Objects /\ Sv(o.ch, g).end = "R"
    BY <2>1, ObjectFacts
  <2>4. nread[o] \in Nat
    BY TypeFacts
  <2> QED
    BY <2>1, <2>2, <2>3, <2>4
<1>3. phase'[o] = "done" /\ \A q \in Objects : q # o => phase'[q] = phase[q]
  BY GotoFacts DEF MovesTo
<1>4. pool'[o.end][o.ch] = 0 /\ \A e \in Ends : e # o.end => pool'[e][o.ch] = pool[e][o.ch]
  <2>1. pool \in [Ends -> [Channels -> Nat]]
    BY DEF Types
  <2> QED
    BY <1>2, <2>1
<1>5. GensOK(o.ch, n)'
  BY <1>1, <1>4, MovesGens DEF ChannelOf
<1>6. UpOK(o.ch, n, sent, base)' /\ DownOK(o.ch, back)'
  <2>1. Unsent(o)' = Unsent(o)
    BY <1>3 DEF Unsent
  <2>2. nread'[o] - Unsent(o)' = nread[o] - Unsent(o) /\ nread'[o] \in Nat /\ nread'[o] >= nread[o]
    BY <1>2, <2>1
  <2> QED
    BY <1>1, <2>2, MovesStreams DEF ChannelOf
<1>7. \A q \in Objects : Left(q)' <=> Left(q)
  BY <1>3 DEF Left
<1>8. \A q \in Objects : ClosedByLoop(q)' => ClosedByLoop(q)
  BY <1>3 DEF ClosedByLoop, MovesTo
<1>9. byRemote' = byRemote /\ rx' = rx /\ shut' = shut
  BY DEF MovesTo
<1>10. /\ Handling("R", o.ch)' <=> Handling("R", o.ch)
       /\ Handling("F", o.ch)' <=> Handling("F", o.ch)
  BY <1>9 DEF Handling
<1>11. /\ Left(Cl(o.ch))' <=> Left(Cl(o.ch))
       /\ \A g \in Gens("R", o.ch) : Left(Sv(o.ch, g))' <=> Left(Sv(o.ch, g))
       /\ \A g \in Gens("R", o.ch) : ClosedByLoop(Sv(o.ch, g))' => ClosedByLoop(Sv(o.ch, g))
       /\ ClosedByLoop(Cl(o.ch))' => ClosedByLoop(Cl(o.ch))
       /\ phase[Cl(o.ch)] = "done" => phase'[Cl(o.ch)] = "done"
       /\ phase[Cl(o.ch)] = "none" <=> phase'[Cl(o.ch)] = "none"
  BY <1>2, <1>3, <1>7, <1>8 DEF MovesTo
<1>12. Forgotten(o.ch) => Forgotten(o.ch)'
  BY <1>4, <1>11, EndFacts DEF Forgotten, Cl, Tcp
<1>13. (Quiet(o.ch)' <=> Quiet(o.ch)) /\ (Told(o.ch) => Told(o.ch)')
  BY <1>10, <1>11, <1>12 DEF Quiet, Told
<1>14. n > 0 /\ pool'["R"][o.ch] = 0 => Quiet(o.ch)' \/ phase'[Sv(o.ch, n)] = "done"
  <2>1. n > 0 => n \in Gens("R", o.ch)
    BY <1>1, <1>2, LastIsGen DEF ChannelOf
  <2>2. n > 0 /\ phase[Sv(o.ch, n)] = "done" => phase'[Sv(o.ch, n)] = "done"
    BY <1>2, <1>3, <2>1
  <2>3. CASE o.end = "R"
    BY <1>1, <1>3, <2>3, LastRuns DEF ChannelOf, MovesTo
  <2>4. CASE o.end # "R"
    <3>1. pool'["R"][o.ch] = pool["R"][o.ch]
      BY <1>4, <2>4, EndFacts
    <3>2. n > 0 /\ pool["R"][o.ch] = 0 => Quiet(o.ch) \/ phase[Sv(o.ch, n)] = "done"
      BY <1>1 DEF ChannelOf, FromClientOK
    <3> QED
      BY <1>13, <2>2, <3>1, <3>2
  <2> QED
    BY <2>3, <2>4
<1>15. FromClientOK(o.ch, n)'
  BY <1>1, <1>10, <1>11, <1>13, <1>14 DEF ChannelOf, FromClientOK, Sv, Tcp, Gens
<1>16. FromServerOK(o.ch, n)'
  <2>1. n > 0 /\ Left(Sv(o.ch, 1))' => Quiet(o.ch)' \/ "R" \in shut' \/ Told(o.ch)'
    BY <1>1, <1>2, <1>9, <1>11, <1>13 DEF ChannelOf, FromServerOK
  <2>2. n > 1 => Told(o.ch)'
    BY <1>1, <1>13 DEF ChannelOf, FromServerOK
  <2>3. Covered(queue["R"], o.ch)' \/ Handling("F", o.ch)' \/ Forgotten(o.ch)'
    BY <1>1, <1>10, <1>12 DEF ChannelOf, FromServerOK
  <2>4. Has(queue["R"], o.ch)' \/ Handling("F", o.ch)' \/ ClosedByLoop(Cl(o.ch))' =>
          \E g \in Gens("R", o.ch) : Left(Sv(o.ch, g))'
    BY <1>1, <1>10, <1>11 DEF ChannelOf, FromServerOK
  <2> QED
    BY <2>1, <2>2, <2>3, <2>4 DEF FromServerOK, Gens
<1>17. ForgetOK(o.ch)'
  <2>1. pool["R"][o.ch] = 0 => pool'["R"][o.ch] = 0
    BY <1>4, EndFacts
  <2>2. Left(Cl(o.ch))' => \/ \E g \in Gens("R", o.ch) : Left(Sv(o.ch, g))'
                           \/ Has(queue'["F"], o.ch) \/ Handling("R", o.ch)' \/ "F" \in shut'
                           \/ pool'["R"][o.ch] = 0 /\ Quiet(o.ch)'
    BY <1>1, <1>9, <1>10, <1>11, <1>13, <2>1 DEF ChannelOf, ForgetOK
  <2>3. Forgotten(o.ch)' => phase'[Cl(o.ch)] = "done" \/ Cl(o.ch) \in byRemote'
    <3>1. CASE o.end = "F"
      BY <1>3, <3>1, ObjectFacts
    <3>2. CASE o.end # "F"
      <4>1. Forgotten(o.ch)' => Forgotten(o.ch)
        BY <1>4, <1>11, <3>2, EndFacts DEF Forgotten, Cl, Tcp
      <4> QED
        BY <1>1, <1>9, <1>11, <4>1 DEF ChannelOf, ForgetOK
    <3> QED
      BY <3>1, <3>2
  <2> QED
    BY <2>2, <2>3 DEF ForgetOK, Gens, Cl, Tcp
<1> QED
  BY <1>5, <1>6, <1>15, <1>16, <1>17 DEF ChannelOK, ChannelOf

\* What has been sent when Serve has nothing in hand.
LEMMA AllSent ==
  ASSUME NEW o, NEW k \in Nat, nread'[o] = k, Unsent(o)' = 0
  PROVE  SentOK(o, k)'
<1>1. nread'[o] - Unsent(o)' = k
  OBVIOUS
<1> QED
  BY <1>1 DEF SentOK

\* Serve hands a chunk over: c.outbound <- message
LEMMA SendsOK ==
  ASSUME Types, NEW o \in Objects, ChannelOK(o.ch), phase[o] = "send", o.end \notin shut,
         MovesTo(o, "read"), nread' = nread, pool' = pool, closed' = closed,
         queue' = [queue EXCEPT ![o.end] = Append(@, Forward(o.ch, o, nread[o]))]
  PROVE  ChannelOK(o.ch)'
<1>1. PICK n \in Nat, sent \in Nat, back \in Nat, base \in [Nat -> Nat] : ChannelOf(o.ch, n, sent, back, base)
  BY DEF ChannelOK
<1>2. PICK c \in Channels : c = o.ch
  BY ObjectFacts
<1>3. PICK m : m = Forward(c, o, nread[o])
  OBVIOUS
<1>4. /\ o.end \in Ends /\ Cl(c) \in Objects /\ nread[o] \in Nat /\ o.gen \in Nat
      /\ 1 \in Gens("R", c) /\ Sv(c, 1) \in Objects
      /\ \A g \in Gens("R", c) : Sv(c, g) \in Objects /\ Sv(c, g).end = "R"
  <2>1. nread[o] \in Nat /\ o.gen \in Nat
    BY TypeFacts, GenFacts
  <2>2. o.end \in Ends /\ Cl(c) \in Objects /\ 1 \in Gens("R", c)
    BY ObjectFacts
  <2>3. \A g \in Gens("R", c) : Sv(c, g) \in Objects /\ Sv(c, g).end = "R"
    BY ObjectFacts
  <2> QED
    BY <2>1, <2>2, <2>3
<1>5. m \in Messages /\ IsData(m, c) /\ m.ch = c /\ m.data[1] = o.gen /\ m.data[2] = nread[o]
      /\ m # ChannelClose(c)
  BY <1>2, <1>3, <1>4 DEF Messages, Forwards, Chunks, Forward, IsData, ChannelClose
<1>6. queue'[o.end] = Append(queue[o.end], m) /\ \A e \in Ends : e # o.end => queue'[e] = queue[e]
  BY <1>2, <1>3, <1>4, QueueFacts
<1>7. queue["F"] \in Seq(Messages) /\ queue["R"] \in Seq(Messages)
  BY TypeFacts, EndFacts
<1>8. phase'[o] = "read" /\ \A q \in Objects : q # o => phase'[q] = phase[q]
  BY GotoFacts DEF MovesTo
<1>9. /\ \A q \in Objects : /\ Left(q)' <=> Left(q)
                            /\ ClosedByLoop(q)' => ClosedByLoop(q)
                            /\ phase[q] = "done" => phase'[q] = "done"
      /\ ~Left(o)
  BY <1>8 DEF Left, ClosedByLoop, MovesTo
<1>10. byRemote' = byRemote /\ rx' = rx /\ shut' = shut /\ up' = up /\ written' = written
  BY DEF MovesTo
<1>11. \A e \in Ends : RxKept(e, c) /\ (Handling(e, c)' <=> Handling(e, c))
  BY <1>10 DEF RxKept, Handling
<1>12. GensOK(c, n)'
  BY <1>1, <1>2, MovesGens DEF ChannelOf
<1>13. Forgotten(c)' <=> Forgotten(c)
  BY <1>4, <1>8 DEF Forgotten, Cl, Tcp
<1>14. ASSUME MarksKept(c), Quiet(c)' <=> Quiet(c), Covered(queue'["R"], c) \/ Handling("F", c) \/ Forgotten(c)
       PROVE  TalkOK(c, n)'
  <2>1. NoneLeaves(c)
    BY <1>9 DEF NoneLeaves
  <2> QED
    BY <1>1, <1>2, <1>10, <1>11, <1>13, <1>14, <2>1, TalkSame DEF ChannelOf, TalkOK
<1>15. CASE o.end = "F"
  <2>1. o = Cl(c) /\ o.gen = 1 /\ o # Sv(c, 1)
    BY <1>2, <1>15, ObjectFacts
  <2>2. sent = nread[Cl(c)] - 1 /\ Total(c, base) <= sent /\ Total(c, base) \in Nat
    BY <1>1, <1>2, <1>15, <2>1, TotalFacts DEF ChannelOf, UpOK, SentOK, Unsent
  <2>3. queue'["F"] = Append(queue["F"], m) /\ queue'["R"] = queue["R"]
    BY <1>6, <1>15, EndFacts
  <2>4. nread[o] = sent + 1 /\ m.data[2] = sent + 1 /\ Of(m, c, 1) /\ sent + 1 \in Nat /\ m.data[1] = 1
    <3>1. PICK k \in Nat : k = nread[o]
      BY <1>4
    <3>2. sent = k - 1
      BY <2>1, <2>2, <3>1
    <3>3. nread[o] = sent + 1
      BY <3>1, <3>2
    <3> QED
      BY <1>5, <2>1, <3>3 DEF Of
  <2>5. SentOK(Cl(c), sent + 1)' /\ SentOK(Sv(c, 1), back)'
    <3>1. nread'[Cl(c)] = sent + 1 /\ Unsent(Cl(c))' = 0
      BY <1>8, <2>1, <2>4 DEF Unsent, Cl, Tcp
    <3>2. Unsent(Sv(c, 1))' = Unsent(Sv(c, 1))
      BY <1>4, <1>8, <2>1 DEF Unsent
    <3>3. SentOK(Sv(c, 1), back)
      BY <1>1, <1>2 DEF ChannelOf, DownOK
    <3>4. SentOK(Sv(c, 1), back)'
      BY <1>10, <3>2, <3>3 DEF SentOK
    <3>5. SentOK(Cl(c), sent + 1)'
      BY <2>4, <3>1, AllSent
    <3> QED
      BY <3>4, <3>5
  <2>6. /\ Has(queue'["F"], c) <=> Has(queue["F"], c)
        /\ FirstOnly(queue["F"], c) => FirstOnly(queue'["F"], c)
        /\ CloseIsLast(queue["F"], c) /\ ~Has(queue["F"], c) => CloseIsLast(queue'["F"], c)
    <3>1. /\ Has(Append(queue["F"], m), c) <=> Has(queue["F"], c)
          /\ FirstOnly(queue["F"], c) => FirstOnly(Append(queue["F"], m), c)
          /\ CloseIsLast(queue["F"], c) /\ ~Has(queue["F"], c) => CloseIsLast(Append(queue["F"], m), c)
      BY <1>5, <1>7, <2>4, MarksAppended
    <3> QED
      BY <2>3, <3>1
  <2>7. UpOK(c, n, sent + 1, base)'
    <3>1. StreamOK(c, n, base)'
      BY <1>1, <1>2, <1>10, StreamSame DEF ChannelOf, UpOK
    <3>2. FirstOnly(queue'["F"], c)
      BY <1>1, <1>2, <2>6 DEF ChannelOf, UpOK
    <3>3. ASSUME "R" \in up' PROVE n <= Total(c, base) + InHand("R", c)' /\ OnWay("R", c, Total(c, base), sent + 1)'
      <4>1. PICK low \in Nat : low = Total(c, base)
        BY <2>2
      <4>2. n <= low + InHand("R", c) /\ OnWay("R", c, low, sent)
        BY <1>1, <1>2, <1>10, <3>3, <4>1 DEF ChannelOf, UpOK
      <4>3. queue'[Other("R")] = Append(queue[Other("R")], m)
        BY <2>3, EndFacts
      <4>4. OnWay("R", c, low, sent + 1)'
        BY <1>5, <1>10, <2>2, <2>4, <4>1, <4>2, <4>3, OnWaySent, EndFacts
      <4>5. InHand("R", c)' = InHand("R", c)
        BY <1>10 DEF InHand, InWrite
      <4> QED
        BY <4>1, <4>2, <4>4, <4>5 DEF Total
    <3>4. Total(c, base) <= sent + 1
      BY <2>2
    <3> QED
      BY <2>5, <3>1, <3>2, <3>3, <3>4 DEF UpOK, Total
  <2>8. DownOK(c, back)'
    <3>1. NoDataMoved(queue["R"], queue'["R"], c)
      BY <2>3 DEF NoDataMoved
    <3> QED
      BY <1>1, <1>2, <1>10, <1>11, <2>5, <3>1, DownSame, EndFacts DEF ChannelOf
  <2>9. TalkOK(c, n)'
    <3>1. ~Left(Cl(c)) /\ ~Left(Cl(c))'
      BY <1>4, <1>9, <2>1
    <3>2. MarksKept(c)
      BY <1>1, <1>2, <2>3, <2>6, <3>1 DEF MarksKept, ChannelOf, FromClientOK
    <3>3. Quiet(c)' <=> Quiet(c)
      BY <3>1 DEF Quiet
    <3>4. Covered(queue'["R"], c) \/ Handling("F", c) \/ Forgotten(c)
      BY <1>1, <1>2, <2>3 DEF ChannelOf, FromServerOK
    <3> QED
      BY <1>14, <3>2, <3>3, <3>4
  <2>10. ChannelOf(c, n, sent + 1, back, base)'
    BY <1>12, <2>7, <2>8, <2>9 DEF ChannelOf, TalkOK
  <2> QED
    BY <1>2, <2>4, <2>10 DEF ChannelOK
<1>16. CASE o.end = "R"
  <2>1. n > 0 /\ o = Sv(c, n) /\ o.gen = n /\ o # Cl(c)
    <3>1. o = Sv(o.ch, n) /\ n > 0
      BY <1>1, <1>16, LastRuns DEF ChannelOf, MovesTo
    <3> QED
      BY <1>2, <1>16, <3>1, ObjectFacts
  <2>2. queue'["R"] = Append(queue["R"], m) /\ queue'["F"] = queue["F"]
    BY <1>6, <1>16, EndFacts
  <2>3. UpOK(c, n, sent, base)'
    <3>1. SentOK(Cl(c), sent)
      BY <1>1, <1>2 DEF ChannelOf, UpOK
    <3>2. Unsent(Cl(c))' = Unsent(Cl(c))
      BY <1>4, <1>8, <2>1 DEF Unsent
    <3>3. SentOK(Cl(c), sent)'
      BY <1>10, <3>1, <3>2 DEF SentOK
    <3>4. NoDataMoved(queue["F"], queue'["F"], c) /\ (FirstOnly(queue["F"], c) => FirstOnly(queue'["F"], c))
      BY <2>2 DEF NoDataMoved
    <3> QED
      BY <1>1, <1>2, <1>10, <1>11, <3>3, <3>4, UpSame, EndFacts DEF ChannelOf, UpOK
  <2>4. /\ Has(queue'["R"], c) <=> Has(queue["R"], c)
        /\ Covered(queue["R"], c) /\ (n # 1 => Has(queue["R"], c)) => Covered(queue'["R"], c)
    <3>1. IsData(m, c) /\ m.data[1] # 1 => n # 1
      BY <1>5, <2>1
    <3>2. /\ Has(Append(queue["R"], m), c) <=> Has(queue["R"], c)
          /\ Covered(queue["R"], c) /\ (n # 1 => Has(queue["R"], c)) => Covered(Append(queue["R"], m), c)
      BY <1>5, <1>7, <3>1, MarksAppended
    <3> QED
      BY <2>2, <3>2
  <2>5. TalkOK(c, n)'
    <3>1. MarksKept(c)
      BY <2>2, <2>4 DEF MarksKept
    <3>2. Quiet(c)' <=> Quiet(c)
      BY <1>4, <1>9, <2>2 DEF Quiet
    <3>3. n # 1 => Has(queue["R"], c) \/ Handling("F", c) \/ Forgotten(c)
      BY <1>1, <1>2, <2>1 DEF ChannelOf, FromServerOK, Told
    <3>4. Covered(queue'["R"], c) \/ Handling("F", c) \/ Forgotten(c)
      BY <1>1, <1>2, <2>4, <3>3 DEF ChannelOf, FromServerOK
    <3> QED
      BY <1>14, <3>1, <3>2, <3>4
  <2>6. CASE n # 1
    <3>1. ~Of(m, c, 1) /\ o # Sv(c, 1)
      BY <1>4, <1>5, <2>1, <2>6, ObjectFacts DEF Of
    <3>2. NoDataMoved(queue["R"], queue'["R"], c)
      BY <1>5, <2>2, <3>1 DEF NoDataMoved
    <3>3. Unsent(Sv(c, 1))' = Unsent(Sv(c, 1)) /\ SentOK(Sv(c, 1), back)
      BY <1>1, <1>2, <1>4, <1>8, <3>1 DEF Unsent, ChannelOf, DownOK
    <3>4. SentOK(Sv(c, 1), back)'
      BY <1>10, <3>3 DEF SentOK
    <3>5. DownOK(c, back)'
      BY <1>1, <1>2, <1>10, <1>11, <3>2, <3>4, DownSame, EndFacts DEF ChannelOf
    <3>6. ChannelOf(c, n, sent, back, base)'
      BY <1>12, <2>3, <2>5, <3>5 DEF ChannelOf, TalkOK
    <3> QED
      BY <1>2, <3>6 DEF ChannelOK
  <2>7. CASE n = 1
    <3>1. back = nread[Sv(c, 1)] - 1 /\ Given(c) <= back /\ Given(c) \in Nat
      BY <1>1, <1>2, <1>4, <1>16, <2>1, <2>7, TypeFacts DEF ChannelOf, DownOK, SentOK, Unsent, Given
    <3>2. nread[o] = back + 1 /\ m.data[2] = back + 1 /\ Of(m, c, 1) /\ back + 1 \in Nat
      <4>1. PICK k \in Nat : k = nread[o]
        BY <1>4
      <4>2. back = k - 1
        BY <2>1, <2>7, <3>1, <4>1
      <4>3. nread[o] = back + 1
        BY <4>1, <4>2
      <4>4. m.data[2] = nread[o] /\ Of(m, c, 1)
        BY <1>5, <2>1, <2>7 DEF Of
      <4>5. back + 1 \in Nat
        BY <4>1, <4>3
      <4> QED
        BY <4>3, <4>4, <4>5
    <3>3. SentOK(Sv(c, 1), back + 1)'
      <4>1. nread'[Sv(c, 1)] = back + 1 /\ Unsent(Sv(c, 1))' = 0
        BY <1>8, <2>1, <2>7, <3>2 DEF Unsent, Sv, Tcp
      <4> QED
        BY <3>2, <4>1, AllSent
    <3>4. Given(c)' = Given(c)
      BY <1>10 DEF Given, Cl, Tcp
    <3>5. ASSUME "F" \in up' PROVE OnWay("F", c, Given(c), back + 1)'
      <4>1. PICK low \in Nat : low = Given(c) /\ low = Given(c)'
        BY <3>1, <3>4
      <4>2. OnWay("F", c, low, back)
        BY <1>1, <1>2, <1>10, <3>5, <4>1 DEF ChannelOf, DownOK
      <4>3. queue'[Other("F")] = Append(queue[Other("F")], m)
        BY <2>2, EndFacts
      <4>4. OnWay("F", c, low, back + 1)'
        BY <1>5, <1>10, <3>1, <3>2, <4>1, <4>2, <4>3, OnWaySent, EndFacts
      <4> QED
        BY <4>1, <4>4 DEF OnWay
    <3>6. DownOK(c, back + 1)'
      <4>1. Given(c)' <= back + 1
        BY <3>1, <3>4
      <4>2. \A k \in DOMAIN written[Cl(c)] : written[Cl(c)][k] = <<1, k>>
        BY <1>1, <1>2 DEF ChannelOf, DownOK
      <4> QED
        BY <1>10, <3>3, <3>5, <4>1, <4>2 DEF DownOK, Cl, Tcp
    <3>7. ChannelOf(c, n, sent, back + 1, base)'
      BY <1>12, <2>3, <2>5, <3>6 DEF ChannelOf, TalkOK
    <3> QED
      BY <1>2, <3>2, <3>7 DEF ChannelOK
  <2> QED
    BY <2>6, <2>7
<1> QED
  BY <1>4, <1>15, <1>16, EndFacts

LEMMA MovesTypes ==
  ASSUME Types, EachOK, NEW o \in Objects, NEW p \in Phases, MovesTo(o, p), UNCHANGED <<gone, stuck>>,
         nread' \in [Objects -> Nat], \A q \in Objects : nread'[q] <= Limit(q),
         \A e \in Ends : Len(queue'[e]) <= Cap, p = "panic" => o.end \in shut
  PROVE  Types' /\ EachOK'
<1>1. o.end \in Ends /\ o.ch \in Channels
  BY ObjectFacts
<1>2. phase' \in [Objects -> Phases]
  BY DEF MovesTo, Goto, Types
<1>3. pool' \in [Ends -> [Channels -> Nat]]
  <2>1. pool \in [Ends -> [Channels -> Nat]]
    BY DEF Types
  <2>2. pool' = pool \/ pool' = [pool EXCEPT ![o.end][o.ch] = 0]
    BY DEF MovesTo
  <2>3. CASE pool' = [pool EXCEPT ![o.end][o.ch] = 0]
    <3>1. [pool[o.end] EXCEPT ![o.ch] = 0] \in [Channels -> Nat]
      BY <1>1, <2>1
    <3> QED
      BY <1>1, <2>1, <2>3, <3>1
  <2> QED
    BY <2>1, <2>2, <2>3
<1>4. queue' \in [Ends -> Seq(Messages)]
  <2>1. queue \in [Ends -> Seq(Messages)]
    BY DEF Types
  <2>2. ASSUME NEW m \in Messages, queue' = [queue EXCEPT ![o.end] = Append(@, m)]
        PROVE  queue' \in [Ends -> Seq(Messages)]
    <3>1. Append(queue[o.end], m) \in Seq(Messages)
      BY <1>1, <2>1
    <3> QED
      BY <1>1, <2>1, <2>2, <3>1
  <2> QED
    BY <2>1, <2>2 DEF MovesTo
<1>5. Types'
  BY <1>2, <1>3, <1>4 DEF Types, MovesTo
<1>6. phase'[o] = p /\ p # "none" /\ \A q \in Objects : q # o => phase'[q] = phase[q]
  BY GotoFacts DEF MovesTo
<1>7. /\ \A q \in Objects : phase'[q] = "panic" => q.end \in shut'
      /\ \A q \in closed' : phase'[q] # "none"
      /\ \A q \in Objects : phase'[q] = "none" => nread'[q] = 0
  BY <1>6 DEF EachOK, MovesTo, Types
<1>8. \A e \in Ends : /\ rx'[e].at # "idle" => rx'[e].obj.end = e
                      /\ rx'[e].at \in {"mark", "delete"} => rx'[e].obj \in closed'
                      /\ rx'[e].at = "delete" => rx'[e].obj \in byRemote'
  BY DEF EachOK, MovesTo
<1> QED
  BY <1>5, <1>7, <1>8 DEF EachOK

\* All of the invariant but one channel.
LEMMA Assemble ==
  ASSUME IInv, NEW c \in Channels, Types', EachOK', ChannelOK(c)',
         \A b \in Channels : b # c => Untouched(b)
  PROVE  IInv'
<1>1. \A b \in Channels : b # c => ChannelOK(b)'
  BY UntouchedOK DEF IInv
<1> QED
  BY <1>1 DEF IInv

LEMMA MovesAll ==
  ASSUME IInv, NEW o \in Objects, NEW p \in Phases, MovesTo(o, p), UNCHANGED <<gone, stuck>>,
         nread' \in [Objects -> Nat], \A q \in Objects : nread'[q] <= Limit(q),
         \A e \in Ends : Len(queue'[e]) <= Cap, p = "panic" => o.end \in shut,
         ChannelOK(o.ch)'
  PROVE  IInv'
<1>1. Types' /\ EachOK'
  BY MovesTypes DEF IInv
<1>2. o.ch \in Channels /\ \A b \in Channels : b # o.ch => Untouched(b)
  BY MovesOthers, ObjectFacts DEF IInv
<1> QED
  BY <1>1, <1>2, Assemble

LEMMA ReadFacts ==
  ASSUME Types
  PROVE  /\ nread \in [Objects -> Nat] /\ \A q \in Objects : nread[q] <= Limit(q)
         /\ \A e \in Ends : Len(queue[e]) <= Cap
         /\ \A q \in Objects : Limit(q) \in Nat
<1>1. \A q \in Objects : Limit(q) \in Nat
  BY ObjectFacts DEF Limit
<1> QED
  BY <1>1 DEF Types

LEMMA ReadChunkStep ==
  ASSUME IInv, NEW o \in Objects, ReadChunk(o)
  PROVE  IInv'
<1>1. Types /\ ChannelOK(o.ch)
  BY ObjectFacts DEF IInv
<1>2. MovesTo(o, "send")
  BY DEF ReadChunk, MovesTo
<1>3. nread[o] \in Nat /\ nread'[o] = nread[o] + 1 /\ nread[o] < Limit(o)
  BY <1>1, TypeFacts DEF ReadChunk
<1>4. nread' \in [Objects -> Nat] /\ \A q \in Objects : nread'[q] <= Limit(q)
  BY <1>1, <1>3, ReadFacts DEF ReadChunk
<1>5. phase[o] = "read" /\ phase'[o] = "send"
  BY <1>1, GotoFacts DEF ReadChunk
<1>6. /\ Left(o)' <=> Left(o)
      /\ ClosedByLoop(o)' => ClosedByLoop(o)
      /\ Unsent(o) = 0 /\ Unsent(o)' = 1
  BY <1>5 DEF Left, ClosedByLoop, Unsent, ReadChunk
<1>7. nread'[o] \in Nat /\ nread'[o] >= nread[o] /\ nread'[o] - Unsent(o)' = nread[o] - Unsent(o)
  BY <1>3, <1>6
<1>8. queue' = queue /\ pool' = pool /\ UNCHANGED <<gone, stuck>>
  BY DEF ReadChunk
<1>9. ChannelOK(o.ch)'
  BY <1>1, <1>2, <1>6, <1>7, <1>8, StaysOK
<1> QED
  BY <1>1, <1>2, <1>4, <1>8, <1>9, MovesAll, ReadFacts DEF Phases

\* Steps that read nothing and say nothing.
LEMMA SilentStep ==
  ASSUME IInv, NEW o \in Objects, NEW p \in Phases, MovesTo(o, p), UNCHANGED <<gone, stuck, nread, queue, pool>>,
         p = "done" => pool[o.end][o.ch] = 0, p = "panic" => o.end \in shut,
         Left(o)' <=> Left(o), ClosedByLoop(o)' => ClosedByLoop(o),
         o.end \in shut \/ Unsent(o)' = Unsent(o)
  PROVE  IInv'
<1>1. Types /\ ChannelOK(o.ch) /\ nread[o] \in Nat
  BY ObjectFacts, TypeFacts DEF IInv
<1>2. nread'[o] \in Nat /\ nread'[o] >= nread[o] /\ (o.end \in shut \/ nread'[o] - Unsent(o)' = nread[o] - Unsent(o))
  BY <1>1
<1>3. ChannelOK(o.ch)'
  BY <1>1, <1>2, StaysOK
<1> QED
  BY <1>1, <1>3, MovesAll, ReadFacts

\* Steps after which the goroutine has told the other end, or need not.
LEMMA LeavingStep ==
  ASSUME IInv, NEW o \in Objects, MovesTo(o, "exist"), UNCHANGED <<gone, stuck, nread, pool>>,
         ~Left(o), o.end \in shut \/ Unsent(o) = 0,
         \/ queue' = queue /\ (ClosedByLoop(o) \/ o.end \in shut)
         \/ queue' = [queue EXCEPT ![o.end] = Append(@, ChannelClose(o.ch))] /\ Len(queue[o.end]) < Cap
  PROVE  IInv'
<1>1. Types /\ ChannelOK(o.ch) /\ o.end \in Ends
  BY ObjectFacts DEF IInv
<1>2. ChannelOK(o.ch)'
  BY <1>1, LeavesOK
<1>3. \A e \in Ends : Len(queue'[e]) <= Cap
  <2>1. CASE queue' = queue
    BY <1>1, <2>1, ReadFacts
  <2>2. CASE queue' = [queue EXCEPT ![o.end] = Append(@, ChannelClose(o.ch))] /\ Len(queue[o.end]) < Cap
    <3>1. queue'[o.end] = Append(queue[o.end], ChannelClose(o.ch)) /\ \A e \in Ends : e # o.end => queue'[e] = queue[e]
      BY <1>1, <2>2, QueueFacts
    <3>2. Len(queue'[o.end]) = Len(queue[o.end]) + 1
      BY <1>1, <3>1, TypeFacts
    <3>3. Len(queue'[o.end]) <= Cap
      BY <1>1, <2>2, <3>2, TypeFacts, CapAssumption
    <3> QED
      BY <1>1, <3>1, <3>3, ReadFacts
  <2> QED
    BY <2>1, <2>2
<1> QED
  BY <1>1, <1>2, <1>3, MovesAll, ReadFacts DEF Phases

LEMMA ReadErrorStep ==
  ASSUME IInv, NEW o \in Objects, ReadError(o)
  PROVE  IInv'
<1>1. Types /\ phase[o] = "read"
  BY DEF IInv, ReadError
<1>2. CASE o \in closed /\ Goto(o, "exist")
  <2>1. MovesTo(o, "exist") /\ UNCHANGED <<gone, stuck, nread, pool>> /\ queue' = queue
    BY <1>1, <1>2 DEF ReadError, MovesTo
  <2>2. ~Left(o) /\ ClosedByLoop(o) /\ Unsent(o) = 0
    BY <1>1, <1>2 DEF Left, ClosedByLoop, Unsent
  <2> QED
    BY <2>1, <2>2, LeavingStep
<1>3. CASE o \in gone \ closed /\ Goto(o, "defer")
  <2>1. MovesTo(o, "defer") /\ UNCHANGED <<gone, stuck, nread, queue, pool>>
    BY <1>1, <1>3 DEF ReadError, MovesTo
  <2>2. phase'[o] = "defer" /\ closed' = closed /\ byRemote' = byRemote
    BY <1>1, <1>3, GotoFacts DEF ReadError
  <2>3. (Left(o)' <=> Left(o)) /\ (ClosedByLoop(o)' => ClosedByLoop(o)) /\ Unsent(o)' = Unsent(o)
    BY <1>1, <2>2 DEF Left, ClosedByLoop, Unsent
  <2> QED
    BY <2>1, <2>3, SilentStep DEF Phases
<1> QED
  BY <1>2, <1>3 DEF ReadError

LEMMA SendChunkStep ==
  ASSUME IInv, NEW o \in Objects, SendChunk(o)
  PROVE  IInv'
<1>1. Types /\ phase[o] = "send" /\ ChannelOK(o.ch) /\ o.end \in Ends /\ o.ch \in Channels
  BY ObjectFacts DEF IInv, SendChunk
<1>2. CASE o.end \in shut
  <2>1. MovesTo(o, "panic") /\ UNCHANGED <<gone, stuck, nread, queue, pool>>
    BY <1>1, <1>2 DEF SendChunk, MovesTo
  <2>2. phase'[o] = "panic" /\ closed' = closed /\ byRemote' = byRemote
    BY <1>1, <1>2, GotoFacts DEF SendChunk
  <2>3. (Left(o)' <=> Left(o)) /\ (ClosedByLoop(o)' => ClosedByLoop(o))
    BY <1>1, <2>2 DEF Left, ClosedByLoop
  <2> QED
    BY <1>2, <2>1, <2>3, SilentStep DEF Phases
<1>3. CASE o.end \notin shut
  <2>1. /\ Goto(o, "read") /\ Len(queue[o.end]) < Cap
        /\ queue' = [queue EXCEPT ![o.end] = Append(@, Forward(o.ch, o, nread[o]))]
        /\ UNCHANGED <<closed, byRemote, gone, stuck, nread, written, pool, rx, up, shut>>
    BY <1>3 DEF SendChunk, Put
  <2>2. Forward(o.ch, o, nread[o]) \in Messages /\ Forward(o.ch, o, nread[o]).ch = o.ch
    BY <1>1, TypeFacts, GenFacts DEF Messages, Forwards, Chunks, Forward
  <2>3. MovesTo(o, "read")
    BY <1>1, <2>1, <2>2 DEF MovesTo
  <2>4. ChannelOK(o.ch)'
    BY <1>1, <1>3, <2>1, <2>3, SendsOK
  <2>5. \A e \in Ends : Len(queue'[e]) <= Cap
    <3>1. queue'[o.end] = Append(queue[o.end], Forward(o.ch, o, nread[o]))
          /\ \A e \in Ends : e # o.end => queue'[e] = queue[e]
      BY <1>1, <2>1, QueueFacts
    <3>2. Len(queue'[o.end]) = Len(queue[o.end]) + 1
      BY <1>1, <2>2, <3>1, TypeFacts
    <3>3. Len(queue'[o.end]) <= Cap
      BY <1>1, <2>1, <3>2, TypeFacts, CapAssumption
    <3> QED
      BY <1>1, <3>1, <3>3, ReadFacts
  <2> QED
    BY <1>1, <2>1, <2>3, <2>4, <2>5, MovesAll, ReadFacts DEF Phases
<1> QED
  BY <1>2, <1>3

LEMMA DeferredCloseStep ==
  ASSUME IInv, NEW o \in Objects, DeferredClose(o)
  PROVE  IInv'
<1>1. Types /\ closed' = closed \cup {o} /\ UNCHANGED <<byRemote, gone, stuck, nread, written, pool, queue, rx, up, shut>>
  BY DEF IInv, DeferredClose
<1>2. CASE phase[o] = "defer"
  <2>1. Goto(o, "check") /\ MovesTo(o, "check")
    BY <1>1, <1>2 DEF DeferredClose, MovesTo
  <2>2. phase'[o] = "check"
    BY <1>1, <2>1, GotoFacts
  <2>3. (Left(o)' <=> Left(o)) /\ (ClosedByLoop(o)' => ClosedByLoop(o)) /\ Unsent(o)' = Unsent(o)
    BY <1>1, <1>2, <2>2 DEF Left, ClosedByLoop, Unsent
  <2> QED
    BY <1>1, <2>1, <2>3, SilentStep DEF Phases
<1>3. CASE phase[o] = "panic"
  <2>1. Goto(o, "exist") /\ MovesTo(o, "exist")
    BY <1>1, <1>3 DEF DeferredClose, MovesTo
  <2>2. o.end \in shut /\ ~Left(o)
    BY <1>3 DEF IInv, EachOK, Left
  <2> QED
    BY <1>1, <2>1, <2>2, LeavingStep
<1> QED
  BY <1>2, <1>3 DEF DeferredClose

LEMMA CheckStep ==
  ASSUME IInv, NEW o \in Objects, Check(o)
  PROVE  IInv'
<1>1. /\ Types /\ phase[o] = "check" /\ Goto(o, AfterServe(o))
      /\ UNCHANGED <<closed, byRemote, gone, stuck, nread, written, pool, queue, rx, up, shut>>
  BY DEF IInv, Check
<1>2. CASE o \in byRemote
  <2>1. MovesTo(o, "exist")
    BY <1>1, <1>2 DEF AfterServe, MovesTo
  <2>2. ~Left(o) /\ ClosedByLoop(o) /\ Unsent(o) = 0
    BY <1>1, <1>2 DEF Left, ClosedByLoop, Unsent
  <2> QED
    BY <1>1, <2>1, <2>2, LeavingStep
<1>3. CASE o \notin byRemote
  <2>1. MovesTo(o, "notify") /\ Goto(o, "notify")
    BY <1>1, <1>3 DEF AfterServe, MovesTo
  <2>2. phase'[o] = "notify"
    BY <1>1, <2>1, GotoFacts
  <2>3. (Left(o)' <=> Left(o)) /\ (ClosedByLoop(o)' => ClosedByLoop(o)) /\ Unsent(o)' = Unsent(o)
    BY <1>1, <2>2 DEF Left, ClosedByLoop, Unsent
  <2> QED
    BY <1>1, <2>1, <2>3, SilentStep DEF Phases
<1> QED
  BY <1>2, <1>3

LEMMA NotifyStep ==
  ASSUME IInv, NEW o \in Objects, Notify(o)
  PROVE  IInv'
<1>1. /\ Types /\ phase[o] = "notify" /\ Goto(o, "exist") /\ o.ch \in Channels
      /\ UNCHANGED <<closed, byRemote, gone, stuck, nread, written, pool, rx, up, shut>>
  BY ObjectFacts DEF IInv, Notify
<1>2. ~Left(o) /\ Unsent(o) = 0
  BY <1>1 DEF Left, Unsent
<1>3. \/ queue' = queue /\ o.end \in shut
      \/ queue' = [queue EXCEPT ![o.end] = Append(@, ChannelClose(o.ch))] /\ Len(queue[o.end]) < Cap
  BY DEF Notify, Put
<1>4. ChannelClose(o.ch) \in Messages /\ ChannelClose(o.ch).ch = o.ch
  BY <1>1, MessageFacts
<1>5. MovesTo(o, "exist")
  BY <1>1, <1>3, <1>4 DEF MovesTo
<1> QED
  BY <1>1, <1>2, <1>3, <1>5, LeavingStep

LEMMA ExistStep ==
  ASSUME IInv, NEW o \in Objects, Exist(o)
  PROVE  IInv'
<1>1. PICK p \in {"done", "delete"} : Goto(o, p) /\ (p = "done" => pool[o.end][o.ch] = 0)
  BY DEF Exist
<1>2. /\ Types /\ phase[o] = "exist" /\ phase'[o] = p
      /\ UNCHANGED <<closed, byRemote, gone, stuck, nread, written, pool, queue, rx, up, shut>>
  BY <1>1, GotoFacts DEF IInv, Exist
<1>3. MovesTo(o, p)
  BY <1>1, <1>2 DEF MovesTo
<1>4. (Left(o)' <=> Left(o)) /\ (ClosedByLoop(o)' => ClosedByLoop(o)) /\ Unsent(o)' = Unsent(o)
  BY <1>1, <1>2 DEF Left, ClosedByLoop, Unsent
<1> QED
  BY <1>1, <1>2, <1>3, <1>4, SilentStep DEF Phases

LEMMA DeleteSelfStep ==
  ASSUME IInv, NEW o \in Objects, DeleteSelf(o)
  PROVE  IInv'
<1>1. /\ Types /\ ChannelOK(o.ch) /\ phase[o] = "delete"
      /\ pool' = [pool EXCEPT ![o.end][o.ch] = 0]
      /\ UNCHANGED <<closed, byRemote, gone, stuck, nread, written, queue, rx, up, shut>>
  BY ObjectFacts DEF IInv, DeleteSelf
<1>2. MovesTo(o, "done")
  BY <1>1 DEF MovesTo, DeleteSelf
<1>3. ChannelOK(o.ch)'
  BY <1>1, <1>2, DeletesOK
<1> QED
  BY <1>1, <1>2, <1>3, MovesAll, ReadFacts DEF Phases

-------------------------------------------------------------------------------
\* A new client, applications that leave or stall, and links that go down.

LEMMA OutsideStep ==
  ASSUME IInv, UNCHANGED <<phase, closed, byRemote, nread, written, pool, queue, rx>>,
         gone' \subseteq Objects, stuck' \subseteq Objects,
         up' \subseteq up, shut \subseteq shut', shut' \subseteq Ends \ up'
  PROVE  IInv'
<1>1. Types'
  BY DEF IInv, Types
<1>2. EachOK'
  BY DEF IInv, EachOK
<1>3. \A b \in Channels : Untouched(b)
  BY DEF Untouched, Unrelated, RxKept
<1>4. \A b \in Channels : ChannelOK(b)'
  BY <1>3, UntouchedOK DEF IInv
<1> QED
  BY <1>1, <1>2, <1>4 DEF IInv

LEMMA LeaveStep ==
  ASSUME IInv, NEW o \in Objects, Leave(o) \/ Stall(o)
  PROVE  IInv'
<1>1. /\ UNCHANGED <<phase, closed, byRemote, nread, written, pool, queue, rx, up, shut>>
      /\ gone' \subseteq gone \cup {o} /\ stuck' \subseteq stuck \cup {o}
  BY DEF Leave, Stall
<1>2. gone \subseteq Objects /\ stuck \subseteq Objects /\ shut \subseteq Ends \ up
  BY DEF IInv, Types
<1> QED
  BY <1>1, <1>2, OutsideStep

LEMMA DownStep ==
  ASSUME IInv, NEW e \in Ends, PeerLost(e) \/ CloseLink(e)
  PROVE  IInv'
<1>1. /\ UNCHANGED <<phase, closed, byRemote, gone, stuck, nread, written, pool, queue, rx>>
      /\ up' \subseteq up /\ shut \subseteq shut'
      /\ shut' = shut \/ (shut' = shut \cup {e} /\ e \notin up)
  BY DEF PeerLost, CloseLink
<1>2. gone \subseteq Objects /\ stuck \subseteq Objects /\ shut \subseteq Ends \ up
  BY DEF IInv, Types
<1> QED
  BY <1>1, <1>2, OutsideStep

\* What the answers to pings and keepalive leave alone.
LEMMA BeatFacts ==
  ASSUME NEW e \in Ends, Reply(e) \/ Keepalive(e)
  PROVE  /\ UNCHANGED <<phase, closed, byRemote, gone, stuck, nread, written, pool, rx, shut>>
         /\ up' \subseteq up
         /\ UNCHANGED queue \/ \E m \in Beats : Put(e, m)
<1>1. CASE Reply(e)
  BY <1>1 DEF Reply, Beats
<1>2. CASE Ping(e)
  BY <1>2 DEF Ping, Beats
<1>3. CASE KeepaliveAgain(e)
  BY <1>3 DEF KeepaliveAgain, PingFails
<1>4. CASE KeepaliveStop(e)
  BY <1>4 DEF KeepaliveStop, PingFails
<1> QED
  BY <1>1, <1>2, <1>3, <1>4 DEF Keepalive

\* A message that concerns no channel is put into a queue.
LEMMA BeatStep ==
  ASSUME IInv, NEW e \in Ends, Reply(e) \/ Keepalive(e)
  PROVE  IInv'
<1>1. /\ Types /\ queue \in [Ends -> Seq(Messages)] /\ gone \subseteq Objects /\ stuck \subseteq Objects
      /\ shut \subseteq Ends \ up
  BY DEF IInv, Types
<1>2. /\ UNCHANGED <<phase, closed, byRemote, gone, stuck, nread, written, pool, rx, shut>> /\ up' \subseteq up
      /\ UNCHANGED queue \/ \E m \in Beats : Put(e, m)
  BY BeatFacts
<1>3. CASE UNCHANGED queue
  BY <1>1, <1>2, <1>3, OutsideStep
<1>4. ASSUME NEW m \in Beats, Put(e, m) PROVE IInv'
  <2>1. m \in Messages /\ \A b : ~Concerns(m, b)
    BY DEF Messages, Beats, Concerns, PingRequest, PingResponse
  <2>2. Len(queue[e]) < Cap /\ queue' = [queue EXCEPT ![e] = Append(queue[e], m)]
    BY <1>4 DEF Put
  <2>3. \A d \in Ends : queue'[d] = queue[d] \/ (d = e /\ queue'[d] = Append(queue[d], m))
    BY <1>1, <2>2
  <2>4. Types'
    <3>1. queue' \in [Ends -> Seq(Messages)]
      BY <1>1, <2>1, <2>2
    <3>2. \A d \in Ends : Len(queue[d]) \in Nat /\ Len(queue[d]) <= Cap
      BY <1>1, TypeFacts DEF Types
    <3>3. Len(Append(queue[e], m)) = Len(queue[e]) + 1
      BY <1>1
    <3>4. Len(queue[e]) + 1 <= Cap
      BY <2>2, <3>2, CapAssumption
    <3>5. \A d \in Ends : Len(queue'[d]) <= Cap
      BY <2>3, <3>2, <3>3, <3>4
    <3>6. up' \subseteq Ends /\ shut' \subseteq Ends \ up'
      BY <1>1, <1>2 DEF Types
    <3> QED
      BY <1>1, <1>2, <3>1, <3>5, <3>6 DEF Types
  <2>5. EachOK'
    BY <1>2 DEF IInv, EachOK
  <2>6. ASSUME NEW b \in Channels PROVE ChannelOK(b)'
    <3>1. \A d \in Ends : Unrelated(queue[d], queue'[d], b)
      BY <2>1, <2>3 DEF Unrelated
    <3>2. Untouched(b)
      BY <1>2, <3>1 DEF Untouched, RxKept
    <3> QED
      BY <1>1, <3>2, UntouchedOK DEF IInv
  <2> QED
    BY <2>4, <2>5, <2>6 DEF IInv
<1> QED
  BY <1>2, <1>3, <1>4

LEMMA AcceptStep ==
  ASSUME IInv, NEW c \in Channels, Accept(c)
  PROVE  IInv'
<1>1. /\ Types /\ EachOK /\ ChannelOK(c) /\ phase[Cl(c)] = "none" /\ Goto(Cl(c), "read")
      /\ pool' = [pool EXCEPT !["F"][c] = 1]
      /\ UNCHANGED <<closed, byRemote, gone, stuck, nread, written, queue, rx, up, shut>>
  BY DEF IInv, Accept, Cl
<1>2. PICK n \in Nat, sent \in Nat, back \in Nat, base \in [Nat -> Nat] : ChannelOf(c, n, sent, back, base)
  BY <1>1 DEF ChannelOK
<1>3. /\ Cl(c) \in Objects /\ 1 \in Gens("R", c)
      /\ \A g \in Gens("R", c) : Sv(c, g) \in Objects /\ Sv(c, g) # Cl(c)
      /\ \A q \in Objects : q.ch # c => q # Cl(c)
  BY ObjectFacts
<1>4. phase'[Cl(c)] = "read" /\ \A q \in Objects : q # Cl(c) => phase'[q] = phase[q]
  BY <1>1, <1>3, GotoFacts
<1>5. /\ pool'["F"][c] = 1 /\ pool'["R"][c] = pool["R"][c] /\ pool' \in [Ends -> [Channels -> Nat]]
      /\ \A e \in Ends, b \in Channels : b # c => pool'[e][b] = pool[e][b]
  <2>1. pool \in [Ends -> [Channels -> Nat]] /\ 1 \in Nat
    BY <1>1 DEF Types
  <2>2. [pool["F"] EXCEPT ![c] = 1] \in [Channels -> Nat]
    BY <2>1, EndFacts
  <2> QED
    BY <1>1, <2>1, <2>2, EndFacts
<1>6. Cl(c) \notin closed /\ Cl(c) \notin byRemote
  BY <1>1 DEF EachOK, Types
<1>7. n = 0 /\ ~Serving("F", c) /\ pool["F"][c] = 0
  BY <1>1, <1>2 DEF ChannelOf, GensOK
<1>8. Types'
  <2>1. phase' \in [Objects -> Phases]
    BY <1>1, <1>3 DEF Types, Goto, Phases
  <2> QED
    BY <1>1, <1>5, <2>1 DEF Types
<1>9. EachOK'
  <2>1. \A q \in Objects : phase'[q] = "panic" => q.end \in shut
    BY <1>1, <1>3, <1>4 DEF EachOK
  <2>2. \A q \in closed : phase'[q] # "none"
    BY <1>1, <1>4 DEF EachOK, Types
  <2>3. \A q \in Objects : phase'[q] = "none" => nread'[q] = 0
    BY <1>1, <1>3, <1>4 DEF EachOK
  <2> QED
    BY <1>1, <2>1, <2>2, <2>3 DEF EachOK
<1>10. \A b \in Channels : b # c => Untouched(b)
  <2> TAKE b \in Channels
  <2> HAVE b # c
  <2>1. \A q \in Objects : q.ch = b => phase'[q] = phase[q]
    BY <1>3, <1>4
  <2> QED
    BY <1>1, <1>5, <2>1 DEF Untouched, Unrelated, RxKept
<1>11. ChannelOK(c)'
  <2>1. \A e \in Ends : RxKept(e, c) /\ (Handling(e, c)' <=> Handling(e, c))
    BY <1>1 DEF RxKept, Handling
  <2>2. GensOK(c, n)'
    <3>1. \A g \in Gens("R", c) : phase'[Sv(c, g)] = phase[Sv(c, g)]
      BY <1>3, <1>4
    <3>2. (Serving("R", c)' <=> Serving("R", c)) /\ (Serving("F", c)' <=> Serving("F", c))
      BY <1>1 DEF Serving
    <3> QED
      BY <1>2, <1>4, <1>5, <1>7, <3>1, <3>2 DEF ChannelOf, GensOK, Cl, Sv, Tcp, Gens
  <2>3. \A e \in Ends : NoDataMoved(queue[e], queue'[e], c)
    BY <1>1 DEF NoDataMoved
  <2>4. UpOK(c, n, sent, base)'
    <3>1. Unsent(Cl(c))' = Unsent(Cl(c))
      BY <1>1, <1>4 DEF Unsent, Cl, Tcp
    <3>2. SentOK(Cl(c), sent)
      BY <1>2 DEF ChannelOf, UpOK
    <3>3. SentOK(Cl(c), sent)'
      BY <1>1, <3>1, <3>2 DEF SentOK
    <3> QED
      BY <1>1, <1>2, <2>1, <2>3, <3>3, EndFacts, UpSame DEF ChannelOf, UpOK
  <2>5. DownOK(c, back)'
    <3>1. Unsent(Sv(c, 1))' = Unsent(Sv(c, 1))
      BY <1>3, <1>4 DEF Unsent, Sv, Tcp
    <3>2. SentOK(Sv(c, 1), back)
      BY <1>2 DEF ChannelOf, DownOK
    <3>3. SentOK(Sv(c, 1), back)'
      BY <1>1, <3>1, <3>2 DEF SentOK
    <3> QED
      BY <1>1, <1>2, <2>1, <2>3, <3>3, EndFacts, DownSame DEF ChannelOf
  <2>6. TalkOK(c, n)'
    <3>1. \A q \in Objects : /\ Left(q)' <=> Left(q)
                             /\ ClosedByLoop(q)' => ClosedByLoop(q)
                             /\ phase[q] = "done" => phase'[q] = "done"
      BY <1>1, <1>3, <1>4, <1>6 DEF Left, ClosedByLoop
    <3>2. NoneLeaves(c)
      BY <3>1 DEF NoneLeaves
    <3>3. ~Forgotten(c) /\ ~Forgotten(c)'
      BY <1>1, <1>5 DEF Forgotten
    <3>4. MarksKept(c)
      BY <1>1 DEF MarksKept
    <3>5. Quiet(c)' <=> Quiet(c)
      BY <1>1, <1>3, <3>1 DEF Quiet
    <3>6. Covered(queue'["R"], c) \/ Handling("F", c) \/ Forgotten(c)
      BY <1>1, <1>2 DEF ChannelOf, FromServerOK
    <3> QED
      BY <1>1, <1>2, <1>5, <2>1, <3>2, <3>3, <3>4, <3>5, <3>6, TalkSame DEF ChannelOf, TalkOK
  <2> QED
    BY <2>2, <2>4, <2>5, <2>6 DEF ChannelOK, ChannelOf, TalkOK
<1> QED
  BY <1>8, <1>9, <1>10, <1>11, Assemble

-------------------------------------------------------------------------------
\* The steps of a receive loop.

\* The receive loop of end e does something for channel c, and nothing for another.
Serves(e, c) ==
  /\ rx[e] = Idle \/ rx[e].obj.ch = c
  /\ rx'[e] = Idle \/ rx'[e].obj.ch = c
  /\ \A d \in Ends : d # e => rx'[d] = rx[d]
  /\ \A o \in Objects : o.ch # c => /\ phase'[o] = phase[o] /\ written'[o] = written[o]
                                    /\ o \in closed' <=> o \in closed
                                    /\ o \in byRemote' <=> o \in byRemote
  /\ \A d \in Ends, b \in Channels : d # e \/ b # c => pool'[d][b] = pool[d][b]
  /\ \/ queue' = queue
     \/ /\ queue[Other(e)] # <<>> /\ Head(queue[Other(e)]).ch = c
        /\ queue' = [queue EXCEPT ![Other(e)] = Tail(@)]
  /\ UNCHANGED <<gone, stuck, nread, shut>> /\ up' \subseteq up

LEMMA TakenFacts ==
  ASSUME Types, NEW e \in Ends, queue' = [queue EXCEPT ![Other(e)] = Tail(@)]
  PROVE  queue'[Other(e)] = Tail(queue[Other(e)]) /\ queue'[e] = queue[e]
<1>1. queue \in [Ends -> Seq(Messages)] /\ Other(e) \in Ends /\ Other(e) # e
  BY EndFacts DEF Types
<1> QED
  BY <1>1

LEMMA ServesOthers ==
  ASSUME Types, NEW e \in Ends, NEW c \in Channels, Serves(e, c), NEW b \in Channels, b # c
  PROVE  Untouched(b)
<1>1. \A q \in Objects : q.ch = b => /\ phase'[q] = phase[q] /\ nread'[q] = nread[q]
                                     /\ written'[q] = written[q]
                                     /\ q \in closed' <=> q \in closed
                                     /\ q \in byRemote' <=> q \in byRemote
  BY DEF Serves
<1>2. \A d \in Ends : pool'[d][b] = pool[d][b]
  BY DEF Serves
<1>3. \A d \in Ends : Unrelated(queue[d], queue'[d], b)
  <2>1. CASE queue' = queue
    BY <2>1 DEF Unrelated
  <2>2. CASE /\ queue[Other(e)] # <<>> /\ Head(queue[Other(e)]).ch = c
             /\ queue' = [queue EXCEPT ![Other(e)] = Tail(@)]
    <3>1. queue'[Other(e)] = Tail(queue[Other(e)]) /\ queue'[e] = queue[e]
      BY <2>2, TakenFacts
    <3>2. \A d \in Ends : d = e \/ d = Other(e)
      BY EndFacts
    <3> QED
      BY <2>2, <3>1, <3>2 DEF Unrelated, Concerns
  <2> QED
    BY <2>1, <2>2 DEF Serves
<1>4. \A d \in Ends : RxKept(d, b)
  <2>1. ~Serving(e, b) /\ ~Serving(e, b)'
    BY DEF Serves, Serving, Idle
  <2> QED
    BY <2>1 DEF Serves, RxKept
<1> QED
  BY <1>1, <1>2, <1>3, <1>4 DEF Untouched, Serves

LEMMA ServesTypes ==
  ASSUME IInv, NEW e \in Ends, NEW c \in Channels, Serves(e, c),
         phase' \in [Objects -> Phases], pool' \in [Ends -> [Channels -> Nat]],
         written' \in [Objects -> Seq(Chunks)],
         rx' \in [Ends -> {Idle} \cup Writings \cup Closings],
         closed' \subseteq Objects, byRemote' \subseteq closed', closed \subseteq closed', byRemote \subseteq byRemote',
         \A o \in Objects : phase'[o] = phase[o] \/ phase'[o] = "read",
         \A o \in closed' : phase'[o] # "none",
         rx'[e].at # "idle" => rx'[e].obj.end = e,
         rx'[e].at \in {"mark", "delete"} => rx'[e].obj \in closed',
         rx'[e].at = "delete" => rx'[e].obj \in byRemote',
         ChannelOK(c)'
  PROVE  IInv'
<1>1. Types /\ EachOK /\ Other(e) \in Ends
  BY EndFacts DEF IInv
<1>2. queue' \in [Ends -> Seq(Messages)] /\ \A d \in Ends : Len(queue'[d]) <= Cap
  <2>1. queue \in [Ends -> Seq(Messages)] /\ (\A d \in Ends : Len(queue[d]) <= Cap) /\ Cap \in Nat
    BY <1>1, CapAssumption DEF Types
  <2>2. CASE queue[Other(e)] # <<>> /\ queue' = [queue EXCEPT ![Other(e)] = Tail(@)]
    <3>1. queue'[Other(e)] = Tail(queue[Other(e)]) /\ \A d \in Ends : d # Other(e) => queue'[d] = queue[d]
      BY <1>1, <2>1, <2>2
    <3>2. Tail(queue[Other(e)]) \in Seq(Messages) /\ Len(Tail(queue[Other(e)])) <= Cap
      BY <1>1, <2>1, <2>2
    <3> QED
      BY <1>1, <2>1, <2>2, <3>1, <3>2
  <2> QED
    BY <2>1, <2>2 DEF Serves
<1>3. Types'
  BY <1>1, <1>2 DEF Types, Serves
<1>4. \A o \in Objects : /\ phase'[o] = "panic" => o.end \in shut'
                         /\ phase'[o] = "none" => nread'[o] = 0
  BY <1>1 DEF EachOK, Serves
<1>5. \A d \in Ends : /\ rx'[d].at # "idle" => rx'[d].obj.end = d
                      /\ rx'[d].at \in {"mark", "delete"} => rx'[d].obj \in closed'
                      /\ rx'[d].at = "delete" => rx'[d].obj \in byRemote'
  BY <1>1 DEF EachOK, Serves
<1>6. EachOK'
  BY <1>4, <1>5 DEF EachOK
<1>7. \A b \in Channels : b # c => Untouched(b)
  BY <1>1, ServesOthers
<1> QED
  BY <1>3, <1>6, <1>7, Assemble

\* The queue to end e loses its first message.
Taken(e) == queue[Other(e)] # <<>> /\ queue' = [queue EXCEPT ![Other(e)] = Tail(@)]

LEMMA GensServed ==
  ASSUME NEW e \in Ends, NEW c \in Channels, NEW n \in Nat, GensOK(c, n), phase' = phase, pool' = pool,
         \A d \in Ends : d # e => rx'[d] = rx[d],
         Serving(e, c)' => pool[e][c] # 0 /\ rx'[e].obj = Tcp(e, c, pool[e][c])
  PROVE  GensOK(c, n)'
<1>1. CASE e = "R"
  <2>1. rx'["F"] = rx["F"]
    BY <1>1, EndFacts
  <2>2. Serving("R", c)' => n > 0 /\ rx'["R"].obj = Sv(c, n)
    <3>1. pool["R"][c] # 0 => n > 0 /\ pool["R"][c] = n
      BY DEF GensOK
    <3> QED
      BY <1>1, <3>1 DEF Sv
  <2> QED
    BY <2>1, <2>2 DEF GensOK, Serving, Cl, Sv, Tcp, Gens
<1>2. CASE e = "F"
  <2>1. rx'["R"] = rx["R"]
    BY <1>2, EndFacts
  <2>2. Serving("F", c)' => phase[Cl(c)] # "none"
    BY <1>2 DEF GensOK
  <2> QED
    BY <2>1, <2>2 DEF GensOK, Serving, Cl, Sv, Tcp, Gens
<1> QED
  BY <1>1, <1>2, EndFacts

\* Nothing but the queue to end e and its receive loop changes, and no chunk is in hand.
LEMMA StreamsServed ==
  ASSUME Types, NEW e \in Ends, NEW c \in Channels, Taken(e), ~IsData(Head(queue[Other(e)]), c),
         UNCHANGED <<phase, nread, written, shut>>, up' \subseteq up,
         \A d \in Ends : WriteKept(d, c),
         NEW n \in Nat, NEW sent \in Nat, NEW back \in Nat, NEW base \in [Nat -> Nat],
         UpOK(c, n, sent, base), DownOK(c, back)
  PROVE  UpOK(c, n, sent, base)' /\ DownOK(c, back)'
<1>1. queue'[Other(e)] = Tail(queue[Other(e)]) /\ queue'[e] = queue[e]
  BY TakenFacts DEF Taken
<1>2. ~Of(Head(queue[Other(e)]), c, 1) /\ \A d \in Ends : d = e \/ d = Other(e)
  BY EndFacts DEF Of
<1>3. \A d \in Ends : NoDataMoved(queue[d], queue'[d], c)
  BY <1>1, <1>2 DEF NoDataMoved, Taken
<1>4. FirstOnly(queue'["F"], c)
  <2>1. queue["F"] \in Seq(Messages) /\ FirstOnly(queue["F"], c)
    BY TypeFacts, EndFacts DEF UpOK
  <2>2. queue'["F"] = queue["F"] \/ (queue["F"] # <<>> /\ queue'["F"] = Tail(queue["F"]))
    BY <1>1, <1>2, EndFacts DEF Taken
  <2> QED
    BY <2>1, <2>2, MarksTaken
<1>5. SentOK(Cl(c), sent)' /\ SentOK(Sv(c, 1), back)'
  BY DEF UpOK, DownOK, SentOK, Unsent, Cl, Sv, Tcp
<1>6. UpOK(c, n, sent, base)'
  BY <1>3, <1>4, <1>5, UpKept, EndFacts
<1>7. DownOK(c, back)'
  <2>1. written'[Cl(c)] = written[Cl(c)]
    OBVIOUS
  <2> QED
    BY <1>3, <1>5, <2>1, DownKept, EndFacts
<1> QED
  BY <1>6, <1>7

\* A close notice, whether the end still knows the channel or not.
LEMMA CloseReceived ==
  ASSUME Types, NEW e \in Ends, NEW c \in Channels, ChannelOK(c), rx[e] = Idle, Taken(e),
         Head(queue[Other(e)]) = ChannelClose(c),
         rx' = IF pool[e][c] = 0 THEN rx ELSE [rx EXCEPT ![e] = Closing("close", Tcp(e, c, pool[e][c]))],
         UNCHANGED <<phase, closed, byRemote, nread, written, pool, shut, up>>
  PROVE  ChannelOK(c)'
<1>1. PICK n \in Nat, sent \in Nat, back \in Nat, base \in [Nat -> Nat] : ChannelOf(c, n, sent, back, base)
  BY DEF ChannelOK
<1>2. /\ \A d \in Ends : d # e => rx'[d] = rx[d]
      /\ IF pool[e][c] = 0 THEN rx'[e] = Idle ELSE rx'[e] = Closing("close", Tcp(e, c, pool[e][c]))
  BY RxFacts DEF Types
<1>3. /\ ~Serving(e, c) /\ (Handling(e, c)' <=> pool[e][c] # 0) /\ ~InWrite(e, c) /\ ~InWrite(e, c)'
      /\ Serving(e, c)' => pool[e][c] # 0 /\ rx'[e].obj = Tcp(e, c, pool[e][c])
  BY <1>2 DEF Serving, Handling, InWrite, Idle, Closing, Tcp
<1>4. \A d \in Ends : WriteKept(d, c) /\ (d # e => (Handling(d, c)' <=> Handling(d, c)))
  BY <1>2, <1>3 DEF WriteKept, InWrite, Handling
<1>5. ~IsData(Head(queue[Other(e)]), c)
  BY MessageFacts DEF IsData
<1>6. GensOK(c, n)'
  BY <1>1, <1>2, <1>3, GensServed DEF ChannelOf
<1>7. UpOK(c, n, sent, base)' /\ DownOK(c, back)'
  BY <1>1, <1>4, <1>5, StreamsServed DEF ChannelOf
<1>8. /\ queue'[Other(e)] = Tail(queue[Other(e)]) /\ queue'[e] = queue[e]
      /\ queue[Other(e)] \in Seq(Messages) /\ queue[Other(e)] # <<>>
  BY TakenFacts, TypeFacts, EndFacts DEF Taken
<1>9. /\ Has(queue[Other(e)], c)
      /\ NoData(queue[Other(e)], c) <=> NoData(queue'[Other(e)], c)
      /\ CloseIsLast(queue[Other(e)], c) => CloseIsLast(queue'[Other(e)], c) /\ NoData(queue'[Other(e)], c)
  BY <1>5, <1>8, MarksTaken
<1>10. \A q : (Left(q)' <=> Left(q)) /\ (ClosedByLoop(q)' <=> ClosedByLoop(q))
  BY DEF Left, ClosedByLoop
<1>11. Forgotten(c)' <=> Forgotten(c)
  BY DEF Forgotten, Cl, Tcp
<1>12. CASE e = "R"
  <2>1. /\ Has(queue["F"], c) /\ NoData(queue'["F"], c) /\ CloseIsLast(queue'["F"], c)
        /\ queue'["R"] = queue["R"] /\ (Handling("F", c)' <=> Handling("F", c))
    BY <1>1, <1>4, <1>8, <1>9, <1>12, EndFacts DEF ChannelOf, FromClientOK
  <2>2. Left(Cl(c))' /\ Quiet(c)'
    BY <1>1, <1>10, <2>1 DEF ChannelOf, FromClientOK, Quiet
  <2>3. FromClientOK(c, n)'
    BY <2>1, <2>2 DEF FromClientOK
  <2>4. FromServerOK(c, n)'
    <3>1. Told(c)' <=> Told(c)
      BY <1>11, <2>1 DEF Told
    <3>2. n > 1 => Told(c)'
      BY <1>1, <3>1 DEF ChannelOf, FromServerOK
    <3>3. Covered(queue["R"], c)' \/ Handling("F", c)' \/ Forgotten(c)'
      BY <1>1, <1>11, <2>1 DEF ChannelOf, FromServerOK
    <3>4. Has(queue["R"], c)' \/ Handling("F", c)' \/ ClosedByLoop(Cl(c))' =>
            \E g \in Gens("R", c) : Left(Sv(c, g))'
      BY <1>1, <1>10, <2>1 DEF ChannelOf, FromServerOK, Cl, Sv, Tcp, ClosedByLoop, Left
    <3> QED
      BY <2>2, <3>2, <3>3, <3>4 DEF FromServerOK, Gens
  <2>5. ForgetOK(c)'
    <3>1. Handling("R", c)' \/ (pool'["R"][c] = 0 /\ Quiet(c)')
      BY <1>3, <1>12, <2>2
    <3>2. Forgotten(c)' => phase'[Cl(c)] = "done" \/ Cl(c) \in byRemote'
      BY <1>1, <1>11 DEF ChannelOf, ForgetOK
    <3> QED
      BY <3>1, <3>2 DEF ForgetOK, Cl, Tcp
  <2> QED
    BY <1>6, <1>7, <2>3, <2>4, <2>5 DEF ChannelOK, ChannelOf
<1>13. CASE e = "F"
  <2>1. /\ Has(queue["R"], c) /\ queue'["F"] = queue["F"]
        /\ (Handling("R", c)' <=> Handling("R", c))
        /\ Handling("F", c)' <=> pool["F"][c] # 0
    BY <1>3, <1>4, <1>8, <1>9, <1>13, EndFacts
  <2>2. Quiet(c)' <=> Quiet(c)
    BY <2>1 DEF Quiet, Left, Cl, Tcp
  <2>3. PICK g \in Gens("R", c) : Left(Sv(c, g)) /\ g <= n
    <3>1. PICK g \in Gens("R", c) : Left(Sv(c, g))
      BY <1>1, <2>1 DEF ChannelOf, FromServerOK
    <3>2. phase[Sv(c, g)] # "none"
      BY <3>1 DEF Left
    <3> QED
      BY <1>1, <3>1, <3>2 DEF ChannelOf, GensOK
  <2>4. Handling("F", c)' \/ Forgotten(c)'
    <3>1. n > 0
      BY <2>3, ObjectFacts
    <3>2. phase[Cl(c)] # "none"
      BY <1>1, <3>1 DEF ChannelOf, GensOK
    <3> QED
      BY <1>11, <2>1, <3>2 DEF Forgotten
  <2>5. FromClientOK(c, n)'
    BY <1>1, <2>1, <2>2 DEF ChannelOf, FromClientOK, Left, ClosedByLoop, Cl, Sv, Tcp, Gens
  <2>6. FromServerOK(c, n)'
    <3>1. Told(c)'
      BY <2>4 DEF Told
    <3>2. \E h \in Gens("R", c) : Left(Sv(c, h))'
      BY <2>3 DEF Left, Sv, Tcp
    <3> QED
      BY <2>4, <3>1, <3>2 DEF FromServerOK, Gens
  <2>7. ForgetOK(c)'
    <3>1. \E h \in Gens("R", c) : Left(Sv(c, h))'
      BY <2>3 DEF Left, Sv, Tcp
    <3>2. Forgotten(c)' => phase'[Cl(c)] = "done" \/ Cl(c) \in byRemote'
      BY <1>1, <1>11 DEF ChannelOf, ForgetOK
    <3> QED
      BY <3>1, <3>2 DEF ForgetOK, Gens, Cl, Tcp
  <2> QED
    BY <1>6, <1>7, <2>5, <2>6, <2>7 DEF ChannelOK, ChannelOf
<1> QED
  BY <1>12, <1>13, EndFacts

\* Data of channel c is taken: what the ends have told each other is as before.
LEMMA TalkReceived ==
  ASSUME Types, NEW e \in Ends, NEW c \in Channels, NEW n \in Nat, GensOK(c, n), TalkOK(c, n), Taken(e),
         IsData(Head(queue[Other(e)]), c), UNCHANGED <<phase, closed, byRemote, pool, shut>>,
         \A d \in Ends : Handling(d, c)' <=> Handling(d, c)
  PROVE  TalkOK(c, n)'
<1>1. /\ queue'[Other(e)] = Tail(queue[Other(e)]) /\ queue'[e] = queue[e]
      /\ queue[Other(e)] \in Seq(Messages) /\ queue[Other(e)] # <<>>
  BY TakenFacts, TypeFacts, EndFacts DEF Taken
<1>2. Head(queue[Other(e)]) # ChannelClose(c)
  BY MessageFacts DEF IsData
<1>3. /\ Has(queue'[Other(e)], c) <=> Has(queue[Other(e)], c)
      /\ ~NoData(queue[Other(e)], c)
      /\ CloseIsLast(queue[Other(e)], c) => CloseIsLast(queue'[Other(e)], c)
      /\ Covered(queue[Other(e)], c) => Covered(queue'[Other(e)], c)
  BY <1>1, <1>2, MarksTaken
<1>4. /\ \A d \in Ends : /\ Has(queue'[d], c) <=> Has(queue[d], c)
                         /\ CloseIsLast(queue[d], c) => CloseIsLast(queue'[d], c)
                         /\ Covered(queue[d], c) => Covered(queue'[d], c)
                         /\ NoData(queue[d], c) => NoData(queue'[d], c)
  BY <1>1, <1>3, EndFacts
<1>5. NoneLeaves(c)
  BY DEF NoneLeaves, Left, ClosedByLoop
<1>6. MarksKept(c)
  BY <1>4, EndFacts DEF MarksKept
<1>7. Quiet(c) => Quiet(c)'
  BY <1>4, EndFacts DEF Quiet, Left, Cl, Tcp
<1>8. Covered(queue'["R"], c) \/ Handling("F", c) \/ Forgotten(c)
  BY <1>4, EndFacts DEF TalkOK, FromServerOK
<1>9. Forgotten(c)' <=> Forgotten(c)
  BY DEF Forgotten, Cl, Tcp
<1> QED
  BY <1>5, <1>6, <1>7, <1>8, <1>9, TalkSame

\* Data of a channel the end knows: it will be written.
LEMMA DataReceivedF ==
  ASSUME Types, NEW c \in Channels, ChannelOK(c), rx["F"] = Idle, Taken("F"), IsData(Head(queue["R"]), c),
         "F" \in up, pool["F"][c] # 0,
         rx' = [rx EXCEPT !["F"] = Writing(Tcp("F", c, pool["F"][c]), Head(queue["R"]).data)],
         UNCHANGED <<phase, closed, byRemote, nread, written, pool, shut, up>>
  PROVE  ChannelOK(c)' /\ Tcp("F", c, pool["F"][c]) \in Objects
<1>1. PICK n \in Nat, sent \in Nat, back \in Nat, base \in [Nat -> Nat] : ChannelOf(c, n, sent, back, base)
  BY DEF ChannelOK
<1>2. Tcp("F", c, pool["F"][c]) = Cl(c) /\ Cl(c) \in Objects /\ Cl(c).ch = c
  BY <1>1, ObjectFacts DEF ChannelOf, GensOK, Cl
<1>3. rx'["F"] = Writing(Cl(c), Head(queue["R"]).data) /\ rx'["R"] = rx["R"]
  BY <1>2, EndFacts DEF Types
<1>4. /\ queue'["R"] = Tail(queue["R"]) /\ queue'["F"] = queue["F"]
      /\ queue["R"] \in Seq(Messages) /\ queue["R"] # <<>>
  BY TakenFacts, TypeFacts, EndFacts DEF Taken
<1>5. ~Handling("F", c) /\ ~Forgotten(c) /\ ~InWrite("F", c)
  BY DEF Handling, Forgotten, InWrite, Idle
<1>6. Of(Head(queue["R"]), c, 1)
  <2>1. Covered(queue["R"], c)
    BY <1>1, <1>5 DEF ChannelOf, FromServerOK
  <2> QED
    BY <1>4, <2>1, MarksTaken DEF Of
<1>7. GensOK(c, n)'
  <2>1. \A d \in Ends : d # "F" => rx'[d] = rx[d]
    BY <1>3, EndFacts
  <2>2. rx'["F"].obj = Tcp("F", c, pool["F"][c])
    BY <1>2, <1>3 DEF Writing
  <2> QED
    BY <1>1, <2>1, <2>2, GensServed, EndFacts DEF ChannelOf
<1>8. UpOK(c, n, sent, base)'
  <2>1. SentOK(Cl(c), sent)'
    BY <1>1 DEF ChannelOf, UpOK, SentOK, Unsent, Cl, Tcp
  <2>2. WriteKept("R", c) /\ NoDataMoved(queue["F"], queue'["F"], c) /\ FirstOnly(queue'["F"], c)
    BY <1>1, <1>3, <1>4 DEF WriteKept, InWrite, NoDataMoved, ChannelOf, UpOK
  <2> QED
    BY <1>1, <2>1, <2>2, UpKept DEF ChannelOf
<1>9. DownOK(c, back)'
  <2>1. PICK low \in Nat : low = Given(c) /\ low = Given(c)'
    BY <1>2, TypeFacts DEF Given, Cl, Tcp
  <2>2. OnWay("F", c, low, back)
    BY <1>1, <2>1 DEF ChannelOf, DownOK
  <2>3. OnWay("F", c, low, back)'
    BY <1>2, <1>3, <1>4, <1>6, <2>2, OnWayReceived, EndFacts
  <2>4. OnWay("F", c, Given(c), back)'
    BY <2>1, <2>3 DEF OnWay
  <2>5. SentOK(Sv(c, 1), back)'
    BY <1>1 DEF ChannelOf, DownOK, SentOK, Unsent, Sv, Tcp
  <2> QED
    BY <1>1, <2>1, <2>4, <2>5 DEF ChannelOf, DownOK, Cl, Tcp
<1>10. TalkOK(c, n)'
  <2>1. \A d \in Ends : Handling(d, c)' <=> Handling(d, c)
    BY <1>3, <1>5, EndFacts DEF Handling, Writing
  <2> QED
    BY <1>1, <2>1, TalkReceived, EndFacts DEF ChannelOf, TalkOK
<1> QED
  BY <1>1, <1>2, <1>7, <1>8, <1>9, <1>10 DEF ChannelOK, ChannelOf, TalkOK

LEMMA UpReceived ==
  ASSUME Types, NEW c \in Channels, rx["R"] = Idle, Taken("R"), IsData(Head(queue["F"]), c), "R" \in up,
         NEW o \in Objects, o.ch = c, rx'["R"] = Writing(o, Head(queue["F"]).data),
         NEW n \in Nat, NEW m \in Nat, m <= n + 1, NEW sent \in Nat, NEW base \in [Nat -> Nat],
         UpOK(c, n, sent, base), SentOK(Cl(c), sent)', StreamOK(c, m, base)'
  PROVE  UpOK(c, m, sent, base)' /\ Total(c, base) + 1 <= sent /\ n <= Total(c, base)
<1>1. /\ queue'["F"] = Tail(queue["F"]) /\ queue["F"] \in Seq(Messages) /\ queue["F"] # <<>>
  BY TakenFacts, TypeFacts, EndFacts DEF Taken
<1>2. PICK low \in Nat : low = Total(c, base)
  BY TotalFacts
<1>3. OnWay("R", c, low, sent) /\ n <= low + InHand("R", c) /\ low <= sent /\ FirstOnly(queue["F"], c)
  BY <1>2 DEF UpOK
<1>4. FirstOnly(queue'["F"], c) /\ Of(Head(queue["F"]), c, 1)
  BY <1>1, <1>3, MarksTaken DEF Of
<1>5. OnWay("R", c, low, sent)' /\ low + 1 <= sent /\ InHand("R", c)' = 1 /\ InHand("R", c) = 0
  BY <1>1, <1>3, <1>4, OnWayReceived, EndFacts DEF Taken
<1>6. m <= low + InHand("R", c)'
  BY <1>3, <1>5
<1>7. Total(c, base)' = low
  BY <1>2 DEF Total
<1> QED
  BY <1>2, <1>3, <1>4, <1>5, <1>6, <1>7 DEF UpOK, Total

LEMMA DataReceivedR ==
  ASSUME Types, NEW c \in Channels, ChannelOK(c), rx["R"] = Idle, Taken("R"), IsData(Head(queue["F"]), c),
         "R" \in up, pool["R"][c] # 0,
         rx' = [rx EXCEPT !["R"] = Writing(Tcp("R", c, pool["R"][c]), Head(queue["F"]).data)],
         UNCHANGED <<phase, closed, byRemote, nread, written, pool, shut, up>>
  PROVE  ChannelOK(c)' /\ Tcp("R", c, pool["R"][c]) \in Objects
<1>1. PICK n \in Nat, sent \in Nat, back \in Nat, base \in [Nat -> Nat] : ChannelOf(c, n, sent, back, base)
  BY DEF ChannelOK
<1>2. Tcp("R", c, pool["R"][c]) = Sv(c, n) /\ n > 0 /\ Sv(c, n) \in Objects /\ Sv(c, n).ch = c
  <2>1. pool["R"][c] = n /\ n > 0
    BY <1>1 DEF ChannelOf, GensOK
  <2> QED
    BY <1>1, <2>1, LastIsGen, ObjectFacts DEF ChannelOf, Sv
<1>3. rx'["R"] = Writing(Sv(c, n), Head(queue["F"]).data) /\ rx'["F"] = rx["F"]
  BY <1>2, EndFacts DEF Types
<1>4. queue'["F"] = Tail(queue["F"]) /\ queue'["R"] = queue["R"]
  BY TakenFacts, EndFacts DEF Taken
<1>5. GensOK(c, n)'
  <2>1. \A d \in Ends : d # "R" => rx'[d] = rx[d]
    BY <1>3, EndFacts
  <2>2. rx'["R"].obj = Tcp("R", c, pool["R"][c])
    BY <1>2, <1>3 DEF Writing
  <2> QED
    BY <1>1, <2>1, <2>2, GensServed, EndFacts DEF ChannelOf
<1>6. UpOK(c, n, sent, base)'
  <2>1. SentOK(Cl(c), sent)'
    BY <1>1 DEF ChannelOf, UpOK, SentOK, Unsent, Cl, Tcp
  <2>2. StreamOK(c, n, base)'
    BY <1>1, StreamSame DEF ChannelOf, UpOK
  <2>3. n <= n + 1 /\ UpOK(c, n, sent, base)
    BY <1>1 DEF ChannelOf
  <2> QED
    BY <1>2, <1>3, <2>1, <2>2, <2>3, UpReceived
<1>7. DownOK(c, back)'
  <2>1. SentOK(Sv(c, 1), back)'
    BY <1>1 DEF ChannelOf, DownOK, SentOK, Unsent, Sv, Tcp
  <2>2. WriteKept("F", c) /\ NoDataMoved(queue["R"], queue'["R"], c)
    BY <1>3, <1>4 DEF WriteKept, InWrite, NoDataMoved
  <2> QED
    BY <1>1, <2>1, <2>2, DownKept DEF ChannelOf
<1>8. TalkOK(c, n)'
  <2>1. \A d \in Ends : Handling(d, c)' <=> Handling(d, c)
    BY <1>3, EndFacts DEF Handling, Writing, Idle
  <2> QED
    BY <1>1, <2>1, TalkReceived, EndFacts DEF ChannelOf, TalkOK
<1> QED
  BY <1>1, <1>2, <1>5, <1>6, <1>7, <1>8 DEF ChannelOK, ChannelOf, TalkOK

\* Data of a channel the end does not know ends its receive loop.
LEMMA DataLost ==
  ASSUME Types, NEW e \in Ends, NEW c \in Channels, ChannelOK(c), rx[e] = Idle, Taken(e),
         IsData(Head(queue[Other(e)]), c), up' = up \ {e}, rx' = rx,
         UNCHANGED <<phase, closed, byRemote, nread, written, pool, shut>>
  PROVE  ChannelOK(c)'
<1>1. PICK n \in Nat, sent \in Nat, back \in Nat, base \in [Nat -> Nat] : ChannelOf(c, n, sent, back, base)
  BY DEF ChannelOK
<1>2. /\ queue'[Other(e)] = Tail(queue[Other(e)]) /\ queue'[e] = queue[e]
      /\ queue[Other(e)] \in Seq(Messages) /\ queue[Other(e)] # <<>>
  BY TakenFacts, TypeFacts, EndFacts DEF Taken
<1>3. GensOK(c, n)'
  BY <1>1 DEF ChannelOf, GensOK, Serving, Cl, Sv, Tcp, Gens
<1>4. SentOK(Cl(c), sent)' /\ SentOK(Sv(c, 1), back)' /\ StreamOK(c, n, base)'
  BY <1>1, StreamSame DEF ChannelOf, UpOK, DownOK, SentOK, Unsent, Cl, Sv, Tcp
<1>5. \A d \in Ends : WriteKept(d, c)
  BY DEF WriteKept, InWrite
<1>6. UpOK(c, n, sent, base)'
  <2>1. CASE e = "R"
    <3>1. FirstOnly(queue'["F"], c)
      BY <1>1, <1>2, <2>1, MarksTaken, EndFacts DEF ChannelOf, UpOK
    <3> QED
      BY <1>1, <1>4, <2>1, <3>1 DEF ChannelOf, UpOK, Total
  <2>2. CASE e = "F"
    <3>1. NoDataMoved(queue["F"], queue'["F"], c) /\ FirstOnly(queue'["F"], c)
      BY <1>1, <1>2, <2>2 DEF NoDataMoved, ChannelOf, UpOK
    <3> QED
      BY <1>1, <1>4, <1>5, <3>1, UpKept, EndFacts DEF ChannelOf
  <2> QED
    BY <2>1, <2>2, EndFacts
<1>7. DownOK(c, back)'
  <2>1. CASE e = "F"
    BY <1>1, <1>4, <2>1 DEF ChannelOf, DownOK, Given, Cl, Tcp
  <2>2. CASE e = "R"
    <3>1. NoDataMoved(queue["R"], queue'["R"], c) /\ written'[Cl(c)] = written[Cl(c)]
      BY <1>2, <2>2 DEF NoDataMoved
    <3> QED
      BY <1>1, <1>4, <1>5, <3>1, DownKept, EndFacts DEF ChannelOf
  <2> QED
    BY <2>1, <2>2, EndFacts
<1>8. TalkOK(c, n)'
  <2>1. \A d \in Ends : Handling(d, c)' <=> Handling(d, c)
    BY DEF Handling
  <2> QED
    BY <1>1, <2>1, TalkReceived DEF ChannelOf, TalkOK
<1> QED
  BY <1>3, <1>6, <1>7, <1>8 DEF ChannelOK, ChannelOf, TalkOK

LEMMA OpenedFacts ==
  ASSUME NEW c \in Channels, NEW n \in Nat, GensOK(c, n)
  PROVE  Opened(c) = n + 1
<1>1. {g \in Gens("R", c) : phase[Tcp("R", c, g)] # "none"} = 1 .. n
  <2>1. \A g \in Gens("R", c) : phase[Tcp("R", c, g)] # "none" <=> g <= n
    BY DEF GensOK, Sv
  <2>2. n <= NUp[c] /\ NUp[c] \in Nat /\ Gens("R", c) = 1 .. NUp[c]
    BY ObjectFacts DEF GensOK
  <2> QED
    BY <2>1, <2>2
<1>2. Cardinality(1 .. n) = n
  BY FS_Interval
<1> QED
  BY <1>1, <1>2 DEF Opened

LEMMA GenIsNamed ==
  /\ \A c \in Channels, g \in Nat : 0 < g /\ g <= NUp[c] => g \in Gens("R", c)
  /\ \A c, g, h : g # h => Sv(c, g) # Sv(c, h)
<1>1. \A c \in Channels, g \in Nat : 0 < g /\ g <= NUp[c] => g \in Gens("R", c)
  BY UpAssumption DEF Gens
<1>2. \A c, g : Sv(c, g).gen = g
  BY ObjectFacts
<1> QED
  BY <1>1, <1>2

\* Data of a channel the reverse end does not know, or no longer: a new generation.
LEMMA DataOpens ==
  ASSUME Types, EachOK, NEW c \in Channels, ChannelOK(c), rx["R"] = Idle, Taken("R"),
         IsData(Head(queue["F"]), c), "R" \in up, pool["R"][c] = 0,
         NEW o, o = Tcp("R", c, Opened(c)), Goto(o, "read"),
         pool' = [pool EXCEPT !["R"][c] = Opened(c)],
         rx' = [rx EXCEPT !["R"] = Writing(o, Head(queue["F"]).data)],
         UNCHANGED <<closed, byRemote, nread, written, shut, up>>
  PROVE  ChannelOK(c)' /\ o \in Objects /\ Opened(c) \in Nat
<1>1. PICK n \in Nat, sent \in Nat, back \in Nat, base \in [Nat -> Nat] : ChannelOf(c, n, sent, back, base)
  BY DEF ChannelOK
<1>2. PICK m \in Nat : m = n + 1 /\ Opened(c) = m /\ o = Sv(c, m) /\ m > 0
  BY <1>1, OpenedFacts DEF ChannelOf, Sv
\* A chunk that is on its way, and with it the chunks before it, are for the new generation.
<1>3. m <= NUp[c] /\ NUp[c] \in Nat /\ phase[Cl(c)] # "none"
  <2>1. Total(c, base) + 1 <= sent /\ n <= Total(c, base) /\ Total(c, base) \in Nat
    <3>1. PICK low \in Nat : low = Total(c, base)
      BY TotalFacts
    <3>2. OnWay("R", c, low, sent) /\ n <= low + InHand("R", c) /\ FirstOnly(queue["F"], c)
      BY <1>1, <3>1 DEF ChannelOf, UpOK
    <3>3. InHand("R", c) = 0
      BY DEF InHand, InWrite, Idle
    <3>4. queue["F"] \in Seq(Messages) /\ queue["F"] # <<>> /\ Other("R") = "F"
      BY TypeFacts, EndFacts DEF Taken
    <3>5. Of(Head(queue["F"]), c, 1)
      BY <3>2, <3>4, MarksTaken DEF Of
    <3>6. Flow(queue["F"], c, 1, low, sent)
      BY <3>2, <3>3, <3>4 DEF OnWay
    <3>7. low + 1 <= sent
      BY <3>4, <3>5, <3>6, FlowTaken
    <3> QED
      BY <3>1, <3>2, <3>3, <3>7
  <2>2. sent <= nread[Cl(c)] /\ nread[Cl(c)] <= Limit(Cl(c)) /\ nread[Cl(c)] \in Nat
    BY <1>1, ReadFacts, TypeFacts, ObjectFacts DEF ChannelOf, UpOK, SentOK
  <2>3. Limit(Cl(c)) = NUp[c] /\ NUp[c] \in Nat
    BY ObjectFacts DEF Limit
  <2>4. nread[Cl(c)] # 0
    BY <2>1, <2>2
  <2>5. phase[Cl(c)] # "none"
    BY <2>4, ObjectFacts DEF EachOK
  <2> QED
    BY <1>2, <2>1, <2>2, <2>3, <2>5
<1>4. m \in Gens("R", c) /\ o \in Objects /\ o.ch = c /\ o # Cl(c) /\ Cl(c) \in Objects
  <2>1. m > 0 /\ m <= NUp[c] /\ NUp[c] \in Nat /\ Gens("R", c) = 1 .. NUp[c]
    <3>1. m > 0
      BY <1>2
    <3>2. m <= NUp[c] /\ NUp[c] \in Nat
      BY <1>3
    <3> QED
      BY <3>1, <3>2, ObjectFacts
  <2>2. m \in Gens("R", c)
    BY <2>1, GenIsNamed
  <2>3. Sv(c, m) \in Objects /\ Cl(c) \in Objects /\ Sv(c, m).ch = c /\ Sv(c, m).end = "R" /\ Cl(c).end = "F"
    <3>1. Sv(c, m) \in Objects /\ Cl(c) \in Objects
      BY <2>2, ObjectFacts
    <3>2. Sv(c, m).ch = c /\ Sv(c, m).end = "R" /\ Cl(c).end = "F"
      BY DEF Sv, Cl, Tcp
    <3> QED
      BY <3>1, <3>2
  <2>4. o = Sv(c, m)
    BY <1>2
  <2> QED
    BY <2>2, <2>3, <2>4
<1>5. phase[o] = "none"
  <2>1. ~(m <= n)
    BY <1>2
  <2> QED
    BY <1>1, <1>2, <1>4, <2>1 DEF ChannelOf, GensOK
<1>6. phase'[o] = "read" /\ \A q \in Objects : q # o => phase'[q] = phase[q]
  BY <1>4, GotoFacts
<1>7. /\ queue'["F"] = Tail(queue["F"]) /\ queue'["R"] = queue["R"]
      /\ queue["F"] \in Seq(Messages) /\ queue["F"] # <<>>
  BY TakenFacts, TypeFacts, EndFacts DEF Taken
<1>8. rx'["R"] = Writing(o, Head(queue["F"]).data) /\ rx'["F"] = rx["F"]
  BY EndFacts DEF Types
<1>9. pool'["R"][c] = m /\ pool'["F"][c] = pool["F"][c]
  <2>1. pool \in [Ends -> [Channels -> Nat]]
    BY DEF Types
  <2> QED
    BY <1>2, <2>1, EndFacts
<1>10. \A g \in Gens("R", c) : Sv(c, g) \in Objects /\ (g # m => Sv(c, g) # o)
  <2>1. \A g \in Gens("R", c) : Sv(c, g) \in Objects
    BY ObjectFacts
  <2>2. o = Sv(c, m)
    BY <1>2
  <2> QED
    BY <2>1, <2>2, GenIsNamed
<1>11. phase'[Cl(c)] = phase[Cl(c)] /\ \A g \in Gens("R", c) : g # m => phase'[Sv(c, g)] = phase[Sv(c, g)]
  BY <1>4, <1>6, <1>10
<1>12. /\ queue["F"] \in Seq(Messages)
       /\ ~Quiet(c) /\ Head(queue["F"]) # ChannelClose(c)
       /\ CloseIsLast(queue["F"], c) => CloseIsLast(queue'["F"], c)
       /\ Has(queue'["F"], c) <=> Has(queue["F"], c)
  <2>1. Head(queue["F"]) # ChannelClose(c)
    BY MessageFacts DEF IsData
  <2> QED
    BY <1>7, <2>1, MarksTaken DEF Quiet
\* The generation before is over.
<1>13. n > 0 => n \in Gens("R", c) /\ phase[Sv(c, n)] = "done"
  BY <1>1, <1>12, LastIsGen DEF ChannelOf, FromClientOK
<1>14. GensOK(c, m)'
  <2>1. \A g \in Gens("R", c) : phase'[Sv(c, g)] # "none" <=> g <= m
    <3> TAKE g \in Gens("R", c)
    <3>1. CASE g = m
      BY <1>2, <1>6, <3>1
    <3>2. CASE g # m
      <4>1. phase'[Sv(c, g)] # "none" <=> g <= n
        BY <1>1, <1>11, <3>2 DEF ChannelOf, GensOK
      <4>2. g \in 1 .. NUp[c] /\ NUp[c] \in Nat
        BY ObjectFacts
      <4>3. g <= n <=> g <= m
        BY <3>2, <4>2, <1>2
      <4> QED
        BY <4>1, <4>3
    <3> QED
      BY <3>1, <3>2
  <2>2. \A g \in 1 .. m - 1 : phase'[Sv(c, g)] = "done"
    <3> TAKE g \in 1 .. m - 1
    <3>1. g \in 1 .. n /\ g \in Gens("R", c) /\ g # m
      <4>1. m = n + 1
        BY <1>2
      <4>2. m <= NUp[c] /\ NUp[c] \in Nat
        BY <1>3
      <4>3. Gens("R", c) = 1 .. NUp[c]
        BY ObjectFacts
      <4>4. g \in 1 .. n /\ g # m /\ g \in 1 .. NUp[c]
        BY <4>1, <4>2
      <4> QED
        BY <4>3, <4>4
    <3>2. phase[Sv(c, g)] = "done"
      <4>1. CASE g = n
        BY <1>13, <3>1, <4>1
      <4>2. CASE g # n
        <5>1. g \in 1 .. n - 1
          BY <3>1, <4>2
        <5> QED
          BY <1>1, <5>1 DEF ChannelOf, GensOK
      <4> QED
        BY <4>1, <4>2
    <3> QED
      BY <1>11, <3>1, <3>2
  <2>3. phase'[Cl(c)] # "none" /\ phase'[Sv(c, m)] # "done"
    BY <1>2, <1>3, <1>6, <1>11
  <2>4. pool'["R"][c] = m /\ pool'["F"][c] \in {0, 1}
        /\ (phase'[Cl(c)] = "done" => pool'["F"][c] = 0)
    BY <1>1, <1>9, <1>11 DEF ChannelOf, GensOK
  <2>5. rx'["R"].obj = Sv(c, m)
    BY <1>2, <1>8 DEF Writing
  <2> QED
    BY <1>2, <1>3, <2>1, <2>2, <2>3, <2>4, <2>5 DEF GensOK, Serving, Cl, Sv, Tcp, Gens
<1>15. UpOK(c, m, sent, base)'
  <2>1. SentOK(Cl(c), sent)'
    BY <1>1, <1>11 DEF ChannelOf, UpOK, SentOK, Unsent, Cl, Tcp
  <2>2. StreamOK(c, m, base)'
    <3>1. StreamOK(c, n, base) /\ \A g \in Gens("R", c) : g > m => g > n
      <4>1. \A g \in 1 .. NUp[c] : g > m => g > n
        BY <1>2, <1>3
      <4>2. Gens("R", c) = 1 .. NUp[c]
        BY ObjectFacts
      <4> QED
        BY <1>1, <4>1, <4>2 DEF ChannelOf, UpOK
    <3>2. StreamOK(c, m, base)
      BY <3>1 DEF StreamOK
    <3> QED
      BY <3>2, StreamSame
  <2>3. m <= n + 1 /\ UpOK(c, n, sent, base)
    BY <1>1, <1>2 DEF ChannelOf
  <2> QED
    BY <1>4, <1>8, <2>1, <2>2, <2>3, UpReceived
<1>16. DownOK(c, back)'
  <2>1. Unsent(Sv(c, 1))' = Unsent(Sv(c, 1))
    <3>1. CASE m = 1
      BY <1>2, <1>5, <1>6, <3>1 DEF Unsent, Sv, Tcp
    <3>2. CASE m # 1
      BY <1>11, <3>2, ObjectFacts DEF Unsent, Sv, Tcp
    <3> QED
      BY <3>1, <3>2
  <2>2. SentOK(Sv(c, 1), back)
    BY <1>1 DEF ChannelOf, DownOK
  <2>3. SentOK(Sv(c, 1), back)'
    BY <2>1, <2>2 DEF SentOK
  <2>4. WriteKept("F", c) /\ NoDataMoved(queue["R"], queue'["R"], c)
    BY <1>7, <1>8 DEF WriteKept, InWrite, NoDataMoved
  <2> QED
    BY <1>1, <2>3, <2>4, DownKept DEF ChannelOf
<1>17. /\ Left(Cl(c))' <=> Left(Cl(c))
       /\ ClosedByLoop(Cl(c))' <=> ClosedByLoop(Cl(c))
       /\ \A g \in Gens("R", c) : /\ Left(Sv(c, g))' <=> Left(Sv(c, g))
                                  /\ ClosedByLoop(Sv(c, g))' => ClosedByLoop(Sv(c, g))
  <2>1. o \notin closed /\ o \notin byRemote
    BY <1>5 DEF EachOK, Types
  <2>2. \A q \in Objects : (Left(q)' <=> Left(q)) /\ (ClosedByLoop(q)' <=> ClosedByLoop(q))
    BY <1>5, <1>6, <2>1 DEF Left, ClosedByLoop
  <2> QED
    BY <1>4, <1>10, <2>2
<1>18. /\ ~Handling("R", c) /\ ~Handling("R", c)' /\ (Handling("F", c)' <=> Handling("F", c))
       /\ Forgotten(c)' <=> Forgotten(c)
  BY <1>3, <1>8, <1>9, <1>11 DEF Handling, Forgotten, Idle, Writing, Cl, Tcp
<1>19. Told(c)' <=> Told(c)
  BY <1>7, <1>18 DEF Told
<1>20. FromClientOK(c, m)'
  <2>1. \A g \in Gens("R", c) : ~ClosedByLoop(Sv(c, g))'
    BY <1>1, <1>12, <1>17 DEF ChannelOf, FromClientOK
  <2>2. CloseIsLast(queue'["F"], c) /\ (Has(queue'["F"], c) => Left(Cl(c))')
    BY <1>1, <1>12, <1>17 DEF ChannelOf, FromClientOK
  <2> QED
    BY <1>2, <1>9, <1>18, <2>1, <2>2 DEF FromClientOK, Gens
<1>21. FromServerOK(c, m)'
  <2>1. m > 1 => Told(c)'
    <3>1. CASE n = 0
      BY <1>2, <3>1
    <3>2. CASE n > 1
      BY <1>1, <1>19, <3>2 DEF ChannelOf, FromServerOK
    <3>3. CASE n = 1
      <4>1. Left(Sv(c, 1))
        BY <1>13, <3>3 DEF Left
      <4>2. "R" \notin shut
        BY DEF Types
      <4> QED
        BY <1>1, <1>12, <1>19, <3>3, <4>1, <4>2 DEF ChannelOf, FromServerOK
    <3> QED
      BY <3>1, <3>2, <3>3
  <2>2. m = 1 => ~Left(Sv(c, 1))'
    BY <1>2, <1>6 DEF Left, Sv, Tcp
  <2>3. Covered(queue["R"], c)' \/ Handling("F", c)' \/ Forgotten(c)'
    BY <1>1, <1>7, <1>18 DEF ChannelOf, FromServerOK
  <2>4. Has(queue["R"], c)' \/ Handling("F", c)' \/ ClosedByLoop(Cl(c))' =>
          \E g \in Gens("R", c) : Left(Sv(c, g))'
    BY <1>1, <1>7, <1>17, <1>18 DEF ChannelOf, FromServerOK
  <2> QED
    BY <1>2, <2>1, <2>2, <2>3, <2>4 DEF FromServerOK, Gens
<1>22. ForgetOK(c)'
  <2>1. Left(Cl(c)) => \/ \E g \in Gens("R", c) : Left(Sv(c, g))
                       \/ Has(queue["F"], c) \/ "F" \in shut
    BY <1>1, <1>12, <1>18 DEF ChannelOf, ForgetOK
  <2>2. Left(Cl(c))' => \/ \E g \in Gens("R", c) : Left(Sv(c, g))'
                        \/ Has(queue'["F"], c) \/ "F" \in shut'
    BY <1>12, <1>17, <2>1
  <2>3. Forgotten(c)' => phase'[Cl(c)] = "done" \/ Cl(c) \in byRemote'
    BY <1>1, <1>11, <1>18 DEF ChannelOf, ForgetOK
  <2> QED
    BY <2>2, <2>3 DEF ForgetOK, Gens, Cl, Tcp
<1> QED
  BY <1>2, <1>4, <1>14, <1>15, <1>16, <1>20, <1>21, <1>22 DEF ChannelOK, ChannelOf

LEMMA HeadFacts ==
  ASSUME Types, NEW e \in Ends, queue[Other(e)] # <<>>
  PROVE  /\ Head(queue[Other(e)]) \in Messages
         /\ Head(queue[Other(e)]).type \in {"forward", "close"} => Head(queue[Other(e)]).ch \in Channels
<1>1. queue[Other(e)] \in Seq(Messages)
  BY TypeFacts, EndFacts
<1> QED
  BY <1>1, MessageFacts

\* The receive loop of end e hands a chunk to tcpChannel o.
LEMMA HandsOver ==
  ASSUME Types, EachOK, NEW e \in Ends, NEW o \in Objects, o.end = e, Taken(e), Head(queue[Other(e)]).type = "forward",
         rx' = [rx EXCEPT ![e] = Writing(o, Head(queue[Other(e)]).data)]
  PROVE  /\ rx' \in [Ends -> {Idle} \cup Writings \cup Closings]
         /\ rx'[e] = Writing(o, Head(queue[Other(e)]).data) /\ \A d \in Ends : d # e => rx'[d] = rx[d]
         /\ rx'[e].at = "write" /\ rx'[e].obj = o
<1>1. Head(queue[Other(e)]).data \in Chunks
  BY HeadFacts, MessageFacts DEF Taken
<1>2. Writing(o, Head(queue[Other(e)]).data) \in Writings
  BY <1>1 DEF Writing, Writings
<1>3. rx'[e] = Writing(o, Head(queue[Other(e)]).data) /\ \A d \in Ends : d # e => rx'[d] = rx[d]
  BY DEF Types
<1>4. rx' \in [Ends -> {Idle} \cup Writings \cup Closings]
  BY <1>2 DEF Types
<1> QED
  BY <1>3, <1>4 DEF Writing

LEMMA UnknownStep ==
  ASSUME IInv, NEW e \in Ends, e \in up, rx[e] = Idle, Taken(e), ReceiveUnknown(e, Head(queue[Other(e)])),
         UNCHANGED <<closed, byRemote, gone, stuck, nread, written, shut>>
  PROVE  IInv'
<1>1. Types /\ EachOK /\ Other(e) \in Ends /\ Other(e) # e
  BY EndFacts DEF IInv
<1>2. PICK c \in Channels : c = Head(queue[Other(e)]).ch
  BY <1>1, HeadFacts DEF Taken, ReceiveUnknown
<1>3. ChannelOK(c) /\ IsData(Head(queue[Other(e)]), c)
  BY <1>2 DEF IInv, ReceiveUnknown, IsData
<1>4. CASE /\ e = "R"
           /\ pool' = [pool EXCEPT !["R"][c] = Opened(c)]
           /\ Goto(Tcp("R", c, Opened(c)), "read")
           /\ rx' = [rx EXCEPT !["R"] = Writing(Tcp("R", c, Opened(c)), Head(queue["F"]).data)]
           /\ UNCHANGED up
  <2>1. PICK o : o = Tcp("R", c, Opened(c))
    OBVIOUS
  <2>2. Other(e) = "F" /\ pool["R"][c] = 0 /\ Head(queue["F"]).type = "forward"
    BY <1>2, <1>4, EndFacts DEF ReceiveUnknown
  <2>3. ChannelOK(c)' /\ o \in Objects /\ Opened(c) \in Nat
    BY <1>1, <1>3, <1>4, <2>1, <2>2, DataOpens
  <2>4. o.end = "R" /\ o.ch = c
    BY <2>1 DEF Tcp
  <2>5. phase' \in [Objects -> Phases] /\ phase'[o] = "read" /\ \A q \in Objects : q # o => phase'[q] = phase[q]
    BY <1>1, <1>4, <2>1, <2>3 DEF Goto, Types, Phases
  <2>6. pool' \in [Ends -> [Channels -> Nat]] /\ \A d \in Ends, b \in Channels : d # "R" \/ b # c => pool'[d][b] = pool[d][b]
    <3>1. pool \in [Ends -> [Channels -> Nat]]
      BY <1>1 DEF Types
    <3>2. pool' \in [Ends -> [Channels -> Nat]]
      BY <1>4, <2>3, <3>1
    <3> QED
      BY <1>1, <1>4, <3>2, PoolFacts
  <2>7. /\ rx' \in [Ends -> {Idle} \cup Writings \cup Closings] /\ \A d \in Ends : d # e => rx'[d] = rx[d]
        /\ rx'[e].at = "write" /\ rx'[e].obj = o
    <3>1. rx' = [rx EXCEPT ![e] = Writing(o, Head(queue[Other(e)]).data)] /\ o.end = e
      BY <1>4, <2>1, <2>2, <2>4
    <3>2. Head(queue[Other(e)]).type = "forward" /\ o \in Objects
      BY <1>4, <2>2, <2>3
    <3> QED
      BY <1>1, <3>1, <3>2, HandsOver
  <2>8. Serves(e, c)
    BY <1>2, <1>4, <2>2, <2>4, <2>5, <2>6, <2>7 DEF Serves, Taken
  <2>9. \A q \in closed : phase'[q] # "none"
    BY <1>1, <2>5 DEF EachOK, Types
  <2>10. /\ written' \in [Objects -> Seq(Chunks)] /\ closed' \subseteq Objects /\ byRemote' \subseteq closed'
         /\ closed \subseteq closed' /\ byRemote \subseteq byRemote'
    BY <1>1 DEF Types
  <2>11. /\ \A q \in Objects : phase'[q] = phase[q] \/ phase'[q] = "read"
         /\ \A q \in closed' : phase'[q] # "none"
    BY <2>5, <2>9
  <2>12. /\ rx'[e].at # "idle" => rx'[e].obj.end = e
         /\ rx'[e].at \in {"mark", "delete"} => rx'[e].obj \in closed'
         /\ rx'[e].at = "delete" => rx'[e].obj \in byRemote'
    BY <1>4, <2>4, <2>7
  <2> QED
    BY <2>3, <2>5, <2>6, <2>7, <2>8, <2>10, <2>11, <2>12, ServesTypes
<1>5. CASE up' = up \ {e} /\ UNCHANGED <<phase, pool, rx>>
  <2>1. ChannelOK(c)'
    BY <1>1, <1>3, <1>5, DataLost
  <2>2. Serves(e, c)
    BY <1>2, <1>5 DEF Serves, Taken
  <2>3. rx'[e].at = "idle"
    BY <1>5 DEF Idle
  <2>4. /\ phase' \in [Objects -> Phases] /\ pool' \in [Ends -> [Channels -> Nat]]
        /\ rx' \in [Ends -> {Idle} \cup Writings \cup Closings]
        /\ written' \in [Objects -> Seq(Chunks)] /\ closed' \subseteq Objects /\ byRemote' \subseteq closed'
        /\ closed \subseteq closed' /\ byRemote \subseteq byRemote'
    BY <1>1, <1>5 DEF Types
  <2>5. \A q \in closed' : phase'[q] # "none"
    BY <1>1, <1>5 DEF EachOK
  <2> QED
    BY <1>5, <2>1, <2>2, <2>3, <2>4, <2>5, ServesTypes
<1> QED
  BY <1>2, <1>4, <1>5, EndFacts DEF ReceiveUnknown, Served, FirstWrite, HandleIn, Tcp

LEMMA KnownStep ==
  ASSUME IInv, NEW e \in Ends, e \in up, rx[e] = Idle, Taken(e), ReceiveKnown(e, Head(queue[Other(e)])),
         UNCHANGED <<closed, byRemote, gone, stuck, nread, written, shut>>
  PROVE  IInv'
<1>1. Types /\ EachOK /\ Other(e) \in Ends /\ Other(e) # e
  BY EndFacts DEF IInv
<1>2. PICK c \in Channels : c = Head(queue[Other(e)]).ch
  BY <1>1, HeadFacts DEF Taken, ReceiveKnown
<1>3. ChannelOK(c) /\ IsData(Head(queue[Other(e)]), c)
  BY <1>2 DEF IInv, ReceiveKnown, IsData
<1>4. PICK o : o = Tcp(e, c, pool[e][c])
  OBVIOUS
<1>5. /\ pool[e][c] # 0 /\ rx' = [rx EXCEPT ![e] = Writing(o, Head(queue[Other(e)]).data)]
      /\ UNCHANGED <<phase, pool, up>> /\ o.end = e /\ o.ch = c
  BY <1>2, <1>4 DEF ReceiveKnown, HandleIn, Tcp
<1>6. ChannelOK(c)' /\ o \in Objects
  <2>1. CASE e = "F"
    BY <1>1, <1>3, <1>4, <1>5, <2>1, DataReceivedF, EndFacts
  <2>2. CASE e = "R"
    BY <1>1, <1>3, <1>4, <1>5, <2>2, DataReceivedR, EndFacts
  <2> QED
    BY <2>1, <2>2, EndFacts
<1>7. /\ rx' \in [Ends -> {Idle} \cup Writings \cup Closings] /\ \A d \in Ends : d # e => rx'[d] = rx[d]
      /\ rx'[e].at = "write" /\ rx'[e].obj = o
  <2>1. Head(queue[Other(e)]).type = "forward"
    BY DEF ReceiveKnown
  <2> QED
    BY <1>1, <1>5, <1>6, <2>1, HandsOver
<1>8. Serves(e, c)
  BY <1>2, <1>5, <1>7 DEF Serves, Taken
<1>9. /\ phase' \in [Objects -> Phases] /\ pool' \in [Ends -> [Channels -> Nat]]
      /\ written' \in [Objects -> Seq(Chunks)] /\ closed' \subseteq Objects /\ byRemote' \subseteq closed'
      /\ closed \subseteq closed' /\ byRemote \subseteq byRemote'
  BY <1>1, <1>5 DEF Types
<1>10. \A q \in closed' : phase'[q] # "none"
  BY <1>1, <1>5 DEF EachOK
<1> QED
  BY <1>5, <1>6, <1>7, <1>8, <1>9, <1>10, ServesTypes

LEMMA ClosedStep ==
  ASSUME IInv, NEW e \in Ends, e \in up, rx[e] = Idle, Taken(e), ReceiveClose(e, Head(queue[Other(e)])),
         UNCHANGED <<closed, byRemote, gone, stuck, nread, written, shut>>
  PROVE  IInv'
<1>1. Types /\ EachOK /\ Other(e) \in Ends /\ Other(e) # e
  BY EndFacts DEF IInv
<1>2. PICK c \in Channels : c = Head(queue[Other(e)]).ch
  BY <1>1, HeadFacts DEF Taken, ReceiveClose
<1>3. ChannelOK(c) /\ Head(queue[Other(e)]) = ChannelClose(c)
  BY <1>1, <1>2, HeadFacts, MessageFacts DEF IInv, ReceiveClose, Taken
<1>4. PICK o : o = Tcp(e, c, pool[e][c]) /\ o.end = e /\ o.ch = c
  <2>1. Tcp(e, c, pool[e][c]).end = e /\ Tcp(e, c, pool[e][c]).ch = c
    BY DEF Tcp
  <2> QED
    BY <2>1
<1>5. /\ rx' = IF pool[e][c] = 0 THEN rx ELSE [rx EXCEPT ![e] = Closing("close", o)]
      /\ UNCHANGED <<phase, pool, up>>
  BY <1>2, <1>4 DEF ReceiveClose
<1>6. ChannelOK(c)'
  BY <1>1, <1>3, <1>4, <1>5, CloseReceived
<1>7. pool[e][c] # 0 => o \in Objects
  <2>1. PICK n \in Nat : GensOK(c, n)
    BY <1>3 DEF ChannelOK, ChannelOf
  <2>2. CASE e = "F" /\ pool[e][c] # 0
    <3>1. o = Cl(c)
      BY <1>4, <2>1, <2>2 DEF GensOK, Cl
    <3> QED
      BY <3>1, ObjectFacts
  <2>3. CASE e = "R" /\ pool[e][c] # 0
    <3>1. o = Sv(c, n) /\ n > 0
      BY <1>4, <2>1, <2>3 DEF GensOK, Sv
    <3> QED
      BY <2>1, <3>1, LastIsGen
  <2> QED
    BY <2>2, <2>3, EndFacts
<1>8. /\ rx' \in [Ends -> {Idle} \cup Writings \cup Closings] /\ \A d \in Ends : d # e => rx'[d] = rx[d]
      /\ rx'[e] = Idle \/ (rx'[e].at = "close" /\ rx'[e].obj = o)
  <2>1. CASE pool[e][c] = 0
    BY <1>1, <1>5, <2>1 DEF Types
  <2>2. CASE pool[e][c] # 0
    <3>1. Closing("close", o) \in Closings
      BY <1>7, <2>2 DEF Closing, Closings
    <3>2. rx' = [rx EXCEPT ![e] = Closing("close", o)]
      BY <1>5, <2>2
    <3> QED
      BY <1>1, <3>1, <3>2 DEF Types, Closing
  <2> QED
    BY <2>1, <2>2
<1>9. Serves(e, c)
  BY <1>2, <1>4, <1>5, <1>8 DEF Serves, Taken
<1>10. /\ phase' \in [Objects -> Phases] /\ pool' \in [Ends -> [Channels -> Nat]]
       /\ written' \in [Objects -> Seq(Chunks)] /\ closed' \subseteq Objects /\ byRemote' \subseteq closed'
       /\ closed \subseteq closed' /\ byRemote \subseteq byRemote'
  BY <1>1, <1>5 DEF Types
<1>11. \A q \in closed' : phase'[q] # "none"
  BY <1>1, <1>5 DEF EachOK
<1>12. (rx'[e].at # "idle" => rx'[e].obj.end = e) /\ rx'[e].at \notin {"mark", "delete"}
  BY <1>4, <1>8 DEF Idle
<1> QED
  BY <1>5, <1>6, <1>8, <1>9, <1>10, <1>11, <1>12, ServesTypes

\* A message that concerns no channel is taken from a queue.
LEMMA PingStep ==
  ASSUME IInv, NEW e \in Ends, Taken(e), ReceivePing(e, Head(queue[Other(e)])),
         UNCHANGED <<closed, byRemote, gone, stuck, nread, written, shut>>
  PROVE  IInv'
<1>1. /\ Types /\ queue \in [Ends -> Seq(Messages)] /\ Other(e) \in Ends
      /\ queue[Other(e)] # <<>> /\ queue' = [queue EXCEPT ![Other(e)] = Tail(@)]
  BY EndFacts DEF IInv, Types, Taken
<1>2. UNCHANGED <<phase, pool, rx, up>> /\ Head(queue[Other(e)]).type \notin {"forward", "close"}
  BY DEF ReceivePing, PingRequest, PingResponse
<1>3. \A d \in Ends : \/ queue'[d] = queue[d]
                     \/ /\ queue[d] # <<>> /\ queue'[d] = Tail(queue[d])
                        /\ Head(queue[d]).type \notin {"forward", "close"}
  BY <1>1, <1>2
<1>4. Types'
  <2>1. queue' \in [Ends -> Seq(Messages)]
    BY <1>1
  <2>2. ASSUME NEW d \in Ends PROVE Len(queue'[d]) <= Cap
    <3>1. queue[d] \in Seq(Messages) /\ Len(queue[d]) \in Nat /\ Len(queue[d]) <= Cap
      BY <1>1, TypeFacts DEF Types
    <3>2. queue[d] # <<>> => Len(Tail(queue[d])) = Len(queue[d]) - 1
      BY <3>1
    <3>3. CASE queue'[d] = queue[d]
      BY <3>1, <3>3
    <3>4. CASE queue[d] # <<>> /\ queue'[d] = Tail(queue[d])
      <4>1. PICK n \in Nat : n = Len(queue[d]) /\ n <= Cap
        BY <3>1
      <4>2. Len(queue'[d]) = n - 1
        BY <3>2, <3>4, <4>1
      <4> QED
        BY <4>1, <4>2, CapAssumption
    <3> QED
      BY <1>3, <3>3, <3>4
  <2> QED
    BY <1>1, <1>2, <2>1, <2>2 DEF Types
<1>5. EachOK'
  BY <1>2 DEF IInv, EachOK
<1>6. ASSUME NEW b \in Channels PROVE ChannelOK(b)'
  <2>1. \A d \in Ends : Unrelated(queue[d], queue'[d], b)
    BY <1>3 DEF Unrelated, Concerns
  <2>2. Untouched(b)
    BY <1>2, <2>1 DEF Untouched, RxKept
  <2> QED
    BY <1>1, <2>2, UntouchedOK DEF IInv
<1> QED
  BY <1>4, <1>5, <1>6 DEF IInv

LEMMA ReceiveStep ==
  ASSUME IInv, NEW e \in Ends, Receive(e)
  PROVE  IInv'
<1>1. /\ e \in up /\ rx[e] = Idle /\ Taken(e)
      /\ UNCHANGED <<closed, byRemote, gone, stuck, nread, written, shut>>
  BY DEF Receive, Taken
<1>2. \/ ReceiveUnknown(e, Head(queue[Other(e)])) \/ ReceiveKnown(e, Head(queue[Other(e)]))
      \/ ReceiveClose(e, Head(queue[Other(e)])) \/ ReceivePing(e, Head(queue[Other(e)]))
  BY DEF Receive
<1> QED
  BY <1>1, <1>2, UnknownStep, KnownStep, ClosedStep, PingStep

-------------------------------------------------------------------------------
\* WriteChunk and HandleChannelClose.

LEMMA GensLoop ==
  ASSUME NEW c \in Channels, NEW n \in Nat, GensOK(c, n), phase' = phase,
         \A d \in Ends : /\ pool'[d][c] \in {pool[d][c], 0}
                         /\ Serving(d, c)' => Serving(d, c) /\ rx'[d].obj = rx[d].obj
  PROVE  GensOK(c, n)'
<1>1. /\ pool'["R"][c] \in {pool["R"][c], 0} /\ pool'["F"][c] \in {pool["F"][c], 0}
      /\ Serving("R", c)' => Serving("R", c) /\ rx'["R"].obj = rx["R"].obj
      /\ Serving("F", c)' => Serving("F", c)
  BY EndFacts
<1>2. \A g \in Gens("R", c) : phase'[Sv(c, g)] = phase[Sv(c, g)]
  OBVIOUS
<1> QED
  BY <1>1, <1>2 DEF GensOK, Cl, Sv, Tcp, Gens

\* What the loop is serving.
LEMMA LoopFacts ==
  ASSUME Types, EachOK, NEW e \in Ends, rx[e].at # "idle"
  PROVE  \E c \in Channels, o \in Objects :
           /\ o = rx[e].obj /\ o.end = e /\ o.ch = c /\ Serving(e, c)
           /\ e = "F" => o = Cl(c)
<1>1. rx[e].obj \in Objects /\ rx[e].obj.ch \in Channels /\ rx[e].obj.end = e
  BY RxFacts DEF EachOK
<1>2. e = "F" => rx[e].obj = Cl(rx[e].obj.ch)
  BY <1>1, ObjectFacts
<1> QED
  BY <1>1, <1>2 DEF Serving

\* A chunk leaves the hand of the receive loop: whoever reads the queues sees no change.
LEMMA TalkWritten ==
  ASSUME Types, NEW e \in Ends, NEW c \in Channels, NEW n \in Nat, GensOK(c, n), TalkOK(c, n), InWrite(e, c),
         rx'[e] = Idle, \A d \in Ends : d # e => rx'[d] = rx[d],
         UNCHANGED <<phase, closed, byRemote, pool, queue, shut>>
  PROVE  TalkOK(c, n)'
<1>1. \A d \in Ends : Handling(d, c)' <=> Handling(d, c)
  BY DEF Handling, InWrite, Idle
<1>2. NoneLeaves(c) /\ MarksKept(c) /\ (Quiet(c) => Quiet(c)')
  BY DEF NoneLeaves, MarksKept, Quiet, Left, ClosedByLoop, Cl, Tcp
<1>3. Covered(queue'["R"], c) \/ Handling("F", c) \/ Forgotten(c)
  BY DEF TalkOK, FromServerOK
<1>4. Forgotten(c)' <=> Forgotten(c)
  BY DEF Forgotten, Cl, Tcp
<1> QED
  BY <1>1, <1>2, <1>3, <1>4, TalkSame

\* The Write fails.
LEMMA WriteFails ==
  ASSUME Types, NEW e \in Ends, NEW c \in Channels, ChannelOK(c), InWrite(e, c),
         rx'[e] = Idle, \A d \in Ends : d # e => rx'[d] = rx[d], up' = up \ {e},
         UNCHANGED <<phase, closed, byRemote, nread, written, pool, queue, shut>>
  PROVE  ChannelOK(c)'
<1>1. PICK n \in Nat, sent \in Nat, back \in Nat, base \in [Nat -> Nat] : ChannelOf(c, n, sent, back, base)
  BY DEF ChannelOK
<1>2. GensOK(c, n)'
  <2>1. \A d \in Ends : Serving(d, c)' => Serving(d, c) /\ rx'[d].obj = rx[d].obj
    BY DEF Serving, Idle
  <2> QED
    BY <1>1, <2>1, GensLoop DEF ChannelOf
<1>3. SentOK(Cl(c), sent)' /\ SentOK(Sv(c, 1), back)' /\ StreamOK(c, n, base)'
  BY <1>1, StreamSame DEF ChannelOf, UpOK, DownOK, SentOK, Unsent, Cl, Sv, Tcp
<1>4. /\ FirstOnly(queue'["F"], c)
      /\ NoDataMoved(queue["F"], queue'["F"], c) /\ NoDataMoved(queue["R"], queue'["R"], c)
  BY <1>1 DEF ChannelOf, UpOK, NoDataMoved
<1>5. UpOK(c, n, sent, base)'
  <2>1. CASE e = "R"
    BY <1>1, <1>3, <1>4, <2>1 DEF ChannelOf, UpOK, Total
  <2>2. CASE e = "F"
    <3>1. WriteKept("R", c)
      BY <2>2, EndFacts DEF WriteKept, InWrite
    <3> QED
      BY <1>1, <1>3, <1>4, <3>1, UpKept DEF ChannelOf
  <2> QED
    BY <2>1, <2>2, EndFacts
<1>6. DownOK(c, back)'
  <2>1. CASE e = "F"
    BY <1>1, <1>3, <2>1 DEF ChannelOf, DownOK, Given, Cl, Tcp
  <2>2. CASE e = "R"
    <3>1. WriteKept("F", c) /\ written'[Cl(c)] = written[Cl(c)]
      BY <2>2, EndFacts DEF WriteKept, InWrite
    <3> QED
      BY <1>1, <1>3, <1>4, <3>1, DownKept DEF ChannelOf
  <2> QED
    BY <2>1, <2>2, EndFacts
<1>7. TalkOK(c, n)'
  BY <1>1, TalkWritten DEF ChannelOf, TalkOK
<1> QED
  BY <1>2, <1>5, <1>6, <1>7 DEF ChannelOK, ChannelOf, TalkOK

LEMMA AppendFacts ==
  ASSUME NEW S, NEW w \in Seq(S), NEW x \in S
  PROVE  /\ Append(w, x) \in Seq(S) /\ Len(w) \in Nat /\ Len(Append(w, x)) = Len(w) + 1
         /\ DOMAIN w = 1 .. Len(w) /\ DOMAIN Append(w, x) = 1 .. Len(w) + 1
         /\ Append(w, x)[Len(w) + 1] = x /\ \A k \in 1 .. Len(w) : Append(w, x)[k] = w[k]
  OBVIOUS

\* Chunks l + 1 to l + Len(w) of a client, and the next.
LEMMA NextChunk ==
  ASSUME NEW w \in Seq(Chunks), NEW l \in Nat, NEW x \in Chunks, x = <<1, l + Len(w) + 1>>,
         \A k \in DOMAIN w : w[k] = <<1, l + k>>
  PROVE  \A k \in DOMAIN Append(w, x) : Append(w, x)[k] = <<1, l + k>>
<1>1. PICK t : t = Append(w, x)
  OBVIOUS
<1>2. /\ Len(w) \in Nat /\ DOMAIN w = 1 .. Len(w) /\ DOMAIN t = 1 .. Len(w) + 1
      /\ t[Len(w) + 1] = x /\ \A k \in 1 .. Len(w) : t[k] = w[k]
  BY <1>1, AppendFacts
<1>3. ASSUME NEW k \in DOMAIN t PROVE t[k] = <<1, l + k>>
  <2>1. CASE k = Len(w) + 1
    <3>1. l + k = l + Len(w) + 1
      BY <1>2, <2>1
    <3> QED
      BY <1>2, <2>1, <3>1
  <2>2. CASE k # Len(w) + 1
    <3>1. k \in DOMAIN w /\ t[k] = w[k]
      BY <1>2, <1>3, <2>2
    <3> QED
      BY <3>1
  <2> QED
    BY <2>1, <2>2
<1> QED
  BY <1>1, <1>3

\* A chunk is written to the client.
LEMMA WrittenF ==
  ASSUME Types, NEW c \in Channels, ChannelOK(c), InWrite("F", c), rx["F"].obj = Cl(c), "F" \in up,
         rx'["F"] = Idle, rx'["R"] = rx["R"],
         written' = [written EXCEPT ![Cl(c)] = Append(@, rx["F"].data)],
         UNCHANGED <<phase, closed, byRemote, nread, pool, queue, shut, up>>
  PROVE  ChannelOK(c)'
<1>1. PICK n \in Nat, sent \in Nat, back \in Nat, base \in [Nat -> Nat] : ChannelOf(c, n, sent, back, base)
  BY DEF ChannelOK
<1>x. PICK x : x = rx["F"].data
  OBVIOUS
<1>2. PICK w \in Seq(Chunks), low \in Nat : w = written[Cl(c)] /\ low = Len(w) /\ low = Given(c)
  BY ObjectFacts, TypeFacts DEF Given
<1>3. OnWay("F", c, low, back) /\ low <= back
  BY <1>1, <1>2 DEF ChannelOf, DownOK
<1>4. OnWay("F", c, low + 1, back)' /\ low + 1 <= back
  BY <1>3, OnWayWritten, EndFacts
<1>5. x = <<1, low + 1>> /\ x \in Chunks
  <2>1. x = <<1, low + 1>>
    BY <1>x, <1>3 DEF OnWay
  <2> QED
    BY <1>x, <2>1, RxFacts, EndFacts DEF InWrite
<1>6. /\ written'[Cl(c)] = Append(w, x)
      /\ \A g \in Gens("R", c) : written'[Sv(c, g)] = written[Sv(c, g)]
  <2>1. written \in [Objects -> Seq(Chunks)] /\ Cl(c) \in Objects
    BY ObjectFacts DEF Types
  <2>2. \A g \in Gens("R", c) : Sv(c, g) \in Objects /\ Sv(c, g).end = "R" /\ Cl(c).end = "F"
    BY ObjectFacts
  <2> QED
    BY <1>x, <1>2, <2>1, <2>2
<1>7. DownOK(c, back)'
  <2>1. SentOK(Sv(c, 1), back)'
    BY <1>1 DEF ChannelOf, DownOK, SentOK, Unsent, Sv, Tcp
  <2>2. Given(c)' = low + 1
    BY <1>2, <1>5, <1>6, AppendFacts DEF Given, Cl, Tcp
  <2>3. \A k \in DOMAIN written'[Cl(c)] : written'[Cl(c)][k] = <<1, k>>
    <3>1. x = <<1, 0 + Len(w) + 1>>
      <4>1. low + 1 = 0 + Len(w) + 1
        BY <1>2
      <4> QED
        BY <1>5, <4>1
    <3>2. \A k \in DOMAIN w : w[k] = <<1, k>> /\ k \in Int
      <4>1. \A k \in DOMAIN w : w[k] = <<1, k>>
        BY <1>1, <1>2 DEF ChannelOf, DownOK
      <4>2. \A k \in DOMAIN w : k \in Int
        OBVIOUS
      <4> QED
        BY <4>1, <4>2
    <3>3. \A k \in DOMAIN w : w[k] = <<1, 0 + k>>
      <4>1. \A k \in Int : 0 + k = k
        OBVIOUS
      <4> QED
        BY <3>2, <4>1
    <3>4. \A k \in DOMAIN Append(w, x) : Append(w, x)[k] = <<1, 0 + k>>
      BY <1>5, <3>1, <3>3, NextChunk
    <3>5. \A k \in DOMAIN Append(w, x) : k \in Int
      BY <1>5, AppendFacts
    <3>6. \A k \in DOMAIN Append(w, x) : Append(w, x)[k] = <<1, k>>
      <4>1. \A k \in Int : 0 + k = k
        OBVIOUS
      <4> QED
        BY <3>4, <3>5, <4>1
    <3> QED
      BY <1>6, <3>6
  <2>4. OnWay("F", c, Given(c), back)'
    BY <1>4, <2>2
  <2> QED
    BY <1>4, <2>1, <2>2, <2>3, <2>4 DEF DownOK, Cl, Tcp
<1>8. UpOK(c, n, sent, base)'
  <2>1. SentOK(Cl(c), sent)' /\ FirstOnly(queue'["F"], c) /\ NoDataMoved(queue["F"], queue'["F"], c)
    BY <1>1 DEF ChannelOf, UpOK, SentOK, Unsent, NoDataMoved, Cl, Tcp
  <2>2. WriteKept("R", c)
    BY DEF WriteKept, InWrite
  <2> QED
    BY <1>1, <1>6, <2>1, <2>2, UpKept DEF ChannelOf
<1>9. GensOK(c, n)'
  <2>1. \A d \in Ends : Serving(d, c)' => Serving(d, c) /\ rx'[d].obj = rx[d].obj
    BY EndFacts DEF Serving, Idle
  <2> QED
    BY <1>1, <2>1, GensLoop DEF ChannelOf
<1>10. TalkOK(c, n)'
  <2>1. \A d \in Ends : d # "F" => rx'[d] = rx[d]
    BY EndFacts
  <2> QED
    BY <1>1, <2>1, TalkWritten, EndFacts DEF ChannelOf, TalkOK
<1> QED
  BY <1>7, <1>8, <1>9, <1>10 DEF ChannelOK, ChannelOf, TalkOK

\* Where the streams of the generations begin when generation n has got a chunk more.
MovedOn(base, n) == [g \in Nat |-> IF g > n THEN base[g] + 1 ELSE base[g]]

LEMMA MovedFacts ==
  ASSUME NEW base \in [Nat -> Nat], NEW n \in Nat
  PROVE  /\ MovedOn(base, n) \in [Nat -> Nat]
         /\ \A g \in Nat : /\ g > n => MovedOn(base, n)[g] = base[g] + 1
                           /\ ~(g > n) => MovedOn(base, n)[g] = base[g]
<1>1. \A g \in Nat : base[g] \in Nat /\ base[g] + 1 \in Nat
  OBVIOUS
<1> QED
  BY <1>1 DEF MovedOn

LEMMA GenBounds ==
  ASSUME NEW c \in Channels, NEW g \in Gens("R", c)
  PROVE  g \in Nat /\ g + 1 \in Nat /\ 0 < g /\ g <= NUp[c] /\ NUp[c] \in Nat
<1>1. Gens("R", c) = 1 .. NUp[c] /\ NUp[c] \in Nat
  BY ObjectFacts
<1> QED
  BY <1>1

LEMMA StreamWritten ==
  ASSUME Types, NEW c \in Channels, NEW n \in Nat, n \in Gens("R", c), NEW base \in [Nat -> Nat],
         StreamOK(c, n, base), NEW x \in Chunks, x = <<1, Total(c, base) + 1>>,
         written' = [written EXCEPT ![Sv(c, n)] = Append(@, x)]
  PROVE  /\ MovedOn(base, n) \in [Nat -> Nat] /\ Total(c, MovedOn(base, n)) = Total(c, base) + 1
         /\ StreamOK(c, n, MovedOn(base, n))'
<1>1. PICK next : next = MovedOn(base, n)
  OBVIOUS
<1>2. /\ next \in [Nat -> Nat]
      /\ \A g \in Nat : (g > n => next[g] = base[g] + 1) /\ (~(g > n) => next[g] = base[g])
  BY <1>1, MovedFacts
<1>3. n > 0 /\ n <= NUp[c] /\ NUp[c] \in Nat /\ NUp[c] + 1 \in Nat /\ NUp[c] + 1 > n
  <2>1. PICK last : last = NUp[c]
    OBVIOUS
  <2>2. n \in Nat /\ 0 < n /\ n <= last /\ last \in Nat
    BY <2>1, GenBounds
  <2>3. last + 1 \in Nat /\ last + 1 > n /\ n > 0
    BY <2>2
  <2> QED
    BY <2>1, <2>2, <2>3
<1>4. Total(c, base) \in Nat /\ Total(c, next) = Total(c, base) + 1
  BY <1>2, <1>3, TotalFacts DEF Total
<1>5. \A g \in Gens("R", c) : Sv(c, g) \in Objects /\ (g # n => Sv(c, g) # Sv(c, n))
  BY ObjectFacts, GenIsNamed
<1>6. /\ written'[Sv(c, n)] = Append(written[Sv(c, n)], x)
      /\ \A g \in Gens("R", c) : g # n => written'[Sv(c, g)] = written[Sv(c, g)]
  <2>1. written \in [Objects -> Seq(Chunks)]
    BY DEF Types
  <2> QED
    BY <1>5, <2>1
<1>7. PICK w \in Seq(Chunks), l \in Nat : w = written[Sv(c, n)] /\ l = base[n]
  BY <1>5, TypeFacts
<1>8. base[n + 1] = l + Len(w) /\ \A k \in DOMAIN w : w[k] = <<1, l + k>>
  BY <1>7 DEF StreamOK
\* The generations after n have nothing.
<1>9. base[n + 1] = Total(c, base)
  <2>1. CASE n = NUp[c]
    BY <2>1 DEF Total
  <2>2. CASE n # NUp[c]
    <3>1. n + 1 \in Nat /\ 0 < n + 1 /\ n + 1 <= NUp[c] /\ n + 1 > n
      <4>1. PICK last \in Nat : last = NUp[c]
        BY <1>3
      <4>2. n <= last /\ n # last
        BY <1>3, <2>2, <4>1
      <4>3. n + 1 \in Nat /\ 0 < n + 1 /\ n + 1 <= last /\ n + 1 > n
        BY <4>2
      <4> QED
        BY <4>1, <4>3
    <3>2. n + 1 \in Gens("R", c)
      BY <3>1, GenIsNamed
    <3> QED
      BY <3>1, <3>2 DEF StreamOK
  <2> QED
    BY <2>1, <2>2
<1>10. \A k \in DOMAIN Append(w, x) : Append(w, x)[k] = <<1, l + k>>
  <2>1. Total(c, base) + 1 = l + Len(w) + 1
    BY <1>8, <1>9
  <2>2. x = <<1, l + Len(w) + 1>>
    BY <2>1
  <2> QED
    BY <1>8, <2>2, NextChunk
<1>11. Len(Append(w, x)) = Len(w) + 1 /\ Len(w) \in Nat
  BY AppendFacts
<1>12. next[1] = 0
  <2>1. ~(1 > n) /\ 1 \in Nat
    BY <1>3
  <2> QED
    BY <1>2, <2>1 DEF StreamOK
<1>13. ASSUME NEW g \in Gens("R", c)
       PROVE  /\ next[g + 1] = next[g] + Len(written'[Sv(c, g)]) /\ next[g + 1] <= Total(c, next)
              /\ \A k \in DOMAIN written'[Sv(c, g)] : written'[Sv(c, g)][k] = <<1, next[g] + k>>
              /\ g > n => written'[Sv(c, g)] = <<>> /\ next[g] = Total(c, next)
  <2>1. g \in Nat /\ g + 1 \in Nat
    BY GenBounds
  <2>2. /\ base[g + 1] = base[g] + Len(written[Sv(c, g)]) /\ base[g + 1] <= Total(c, base)
        /\ \A k \in DOMAIN written[Sv(c, g)] : written[Sv(c, g)][k] = <<1, base[g] + k>>
        /\ g > n => written[Sv(c, g)] = <<>> /\ base[g] = Total(c, base)
    BY DEF StreamOK
  <2>3. base[g] \in Nat /\ base[g + 1] \in Nat /\ Len(written[Sv(c, g)]) \in Nat
    BY <1>5, <2>1, TypeFacts
  <2>8. next[g + 1] <= Total(c, next)
    <3>1. next[g + 1] = base[g + 1] + 1 \/ next[g + 1] = base[g + 1]
      BY <1>2, <2>1
    <3>2. PICK b \in Nat, t \in Nat : b = base[g + 1] /\ t = Total(c, base)
      BY <1>4, <2>3
    <3>3. b <= t /\ Total(c, next) = t + 1
      BY <1>4, <2>2, <3>2
    <3>4. b + 1 <= t + 1 /\ b <= t + 1
      BY <3>3
    <3> QED
      BY <3>1, <3>2, <3>3, <3>4
  <2>4. CASE g = n
    <3>1. next[g] = l /\ next[g + 1] = l + Len(w) + 1
      <4>1. ~(g > n) /\ g + 1 > n
        BY <2>1, <2>4
      <4> QED
        BY <1>2, <1>7, <1>8, <2>1, <2>4, <4>1
    <3>2. next[g + 1] = next[g] + Len(Append(w, x))
      BY <1>11, <3>1
    <3>3. written'[Sv(c, g)] = Append(w, x)
      BY <1>6, <1>7, <2>4
    <3>4. ~(g > n)
      BY <2>1, <2>4
    <3> QED
      BY <1>10, <2>8, <3>1, <3>2, <3>3, <3>4
  <2>5. CASE g < n
    <3>1. next[g] = base[g] /\ next[g + 1] = base[g + 1]
      BY <1>2, <2>1, <2>5
    <3>2. g # n /\ ~(g > n)
      BY <2>1, <2>5
    <3> QED
      BY <1>6, <2>2, <2>8, <3>1, <3>2
  <2>6. CASE g > n
    <3>1. next[g] = base[g] + 1 /\ next[g + 1] = base[g + 1] + 1
      BY <1>2, <2>1, <2>6
    <3>2. g # n
      BY <2>1, <2>6
    <3>3. written'[Sv(c, g)] = <<>> /\ base[g + 1] = base[g] + 0 /\ base[g] = Total(c, base)
      BY <1>6, <2>2, <2>6, <3>2
    <3>4. next[g] = Total(c, next)
      BY <1>4, <3>1, <3>3
    <3>5. next[g + 1] = next[g] + Len(<<>>)
      BY <2>3, <3>1, <3>3
    <3>6. next[g + 1] = next[g] + Len(written'[Sv(c, g)])
      BY <3>3, <3>5
    <3>7. DOMAIN written'[Sv(c, g)] = {}
      <4>1. DOMAIN (<<>>) = {}
        OBVIOUS
      <4> QED
        BY <3>3, <4>1
    <3> QED
      BY <2>8, <3>3, <3>4, <3>6, <3>7
  <2>7. g = n \/ g < n \/ g > n
    BY <2>1
  <2> QED
    BY <2>4, <2>5, <2>6, <2>7
<1>14. StreamOK(c, n, next)'
  <2>1. Total(c, next)' = Total(c, next)
    BY DEF Total
  <2> QED
    BY <1>12, <1>13, <2>1 DEF StreamOK, Sv, Tcp, Gens, Total
<1> QED
  BY <1>1, <1>2, <1>4, <1>14

\* A chunk is written to a server connection.
LEMMA WrittenR ==
  ASSUME Types, NEW c \in Channels, ChannelOK(c), InWrite("R", c), "R" \in up,
         rx'["R"] = Idle, rx'["F"] = rx["F"],
         written' = [written EXCEPT ![rx["R"].obj] = Append(@, rx["R"].data)],
         UNCHANGED <<phase, closed, byRemote, nread, pool, queue, shut, up>>
  PROVE  ChannelOK(c)'
<1>1. PICK n \in Nat, sent \in Nat, back \in Nat, base \in [Nat -> Nat] : ChannelOf(c, n, sent, back, base)
  BY DEF ChannelOK
<1>x. PICK x : x = rx["R"].data
  OBVIOUS
<1>2. rx["R"].obj = Sv(c, n) /\ n \in Gens("R", c) /\ n > 0
  <2>1. GensOK(c, n) /\ Serving("R", c)
    BY <1>1 DEF ChannelOf, InWrite, Serving
  <2>2. n > 0 /\ rx["R"].obj = Sv(c, n)
    BY <2>1 DEF GensOK
  <2> QED
    BY <2>1, <2>2, LastIsGen
<1>3. PICK low \in Nat : low = Total(c, base)
  BY TotalFacts
<1>4. OnWay("R", c, low, sent) /\ n <= low + InHand("R", c) /\ low <= sent /\ StreamOK(c, n, base)
  BY <1>1, <1>3 DEF ChannelOf, UpOK
<1>5. OnWay("R", c, low + 1, sent)' /\ low + 1 <= sent /\ InHand("R", c) = 1 /\ InHand("R", c)' = 0
  BY <1>4, OnWayWritten, EndFacts
<1>6. x = <<1, low + 1>> /\ x \in Chunks
  <2>1. x = <<1, low + 1>>
    BY <1>x, <1>4 DEF OnWay
  <2> QED
    BY <1>x, <2>1, RxFacts, EndFacts DEF InWrite
<1>7. PICK next \in [Nat -> Nat] : Total(c, next) = low + 1 /\ StreamOK(c, n, next)'
  <2>1. written' = [written EXCEPT ![Sv(c, n)] = Append(@, x)]
    BY <1>2, <1>x
  <2>2. x = <<1, Total(c, base) + 1>>
    BY <1>3, <1>6
  <2>3. /\ MovedOn(base, n) \in [Nat -> Nat] /\ Total(c, MovedOn(base, n)) = Total(c, base) + 1
        /\ StreamOK(c, n, MovedOn(base, n))'
    BY <1>2, <1>4, <1>6, <2>1, <2>2, StreamWritten
  <2>4. PICK next : next = MovedOn(base, n)
    OBVIOUS
  <2>5. StreamOK(c, n, next)'
    BY <2>3, <2>4 DEF MovedOn
  <2> QED
    BY <1>3, <2>3, <2>4, <2>5
<1>8. UpOK(c, n, sent, next)'
  <2>1. SentOK(Cl(c), sent)' /\ FirstOnly(queue'["F"], c)
    BY <1>1 DEF ChannelOf, UpOK, SentOK, Unsent, Cl, Tcp
  <2>2. Total(c, next)' = low + 1
    BY <1>7 DEF Total
  <2>3. n <= low + 1 + InHand("R", c)'
    BY <1>4, <1>5
  <2>4. OnWay("R", c, Total(c, next), sent)'
    BY <1>5, <2>2
  <2> QED
    BY <1>5, <1>7, <2>1, <2>2, <2>3, <2>4 DEF UpOK
<1>9. written'[Cl(c)] = written[Cl(c)]
  <2>1. Cl(c) # Sv(c, n) /\ Cl(c) \in Objects
    <3>1. Cl(c).end = "F" /\ Sv(c, n).end = "R" /\ Cl(c) \in Objects
      BY ObjectFacts
    <3> QED
      BY <3>1
  <2> QED
    BY <1>2, <2>1, TypeFacts
<1>10. DownOK(c, back)'
  <2>1. SentOK(Sv(c, 1), back)' /\ NoDataMoved(queue["R"], queue'["R"], c)
    BY <1>1 DEF ChannelOf, DownOK, SentOK, Unsent, NoDataMoved, Sv, Tcp
  <2>2. WriteKept("F", c)
    BY DEF WriteKept, InWrite
  <2> QED
    BY <1>1, <1>9, <2>1, <2>2, DownKept DEF ChannelOf
<1>11. GensOK(c, n)'
  <2>1. \A d \in Ends : Serving(d, c)' => Serving(d, c) /\ rx'[d].obj = rx[d].obj
    BY EndFacts DEF Serving, Idle
  <2> QED
    BY <1>1, <2>1, GensLoop DEF ChannelOf
<1>12. TalkOK(c, n)'
  <2>1. \A d \in Ends : d # "R" => rx'[d] = rx[d]
    BY EndFacts
  <2> QED
    BY <1>1, <2>1, TalkWritten, EndFacts DEF ChannelOf, TalkOK
<1> QED
  BY <1>8, <1>10, <1>11, <1>12 DEF ChannelOK, ChannelOf, TalkOK

LEMMA WriteChunkStep ==
  ASSUME IInv, NEW e \in Ends, WriteChunk(e)
  PROVE  IInv'
<1>1. Types /\ EachOK /\ rx[e].at = "write"
  BY DEF IInv, WriteChunk
<1>2. PICK c \in Channels, o \in Objects :
        /\ o = rx[e].obj /\ o.end = e /\ o.ch = c /\ Serving(e, c)
        /\ e = "F" => o = Cl(c)
  BY <1>1, LoopFacts
<1>3. ChannelOK(c) /\ InWrite(e, c)
  BY <1>1, <1>2 DEF IInv, InWrite
<1>4. /\ rx' = [rx EXCEPT ![e] = Idle] /\ e \in up
      /\ UNCHANGED <<phase, closed, byRemote, gone, stuck, nread, pool, queue, shut>>
  BY DEF WriteChunk
<1>5. /\ rx'[e] = Idle /\ \A d \in Ends : d # e => rx'[d] = rx[d]
      /\ rx' \in [Ends -> {Idle} \cup Writings \cup Closings]
  BY <1>1, <1>4 DEF Types
<1>6. \/ /\ written' = [written EXCEPT ![o] = Append(@, rx[e].data)]
         /\ UNCHANGED up
      \/ /\ up' = up \ {e}
         /\ UNCHANGED written
  BY <1>2 DEF WriteChunk
<1>7. ChannelOK(c)'
  <2>1. CASE UNCHANGED written /\ up' = up \ {e}
    BY <1>1, <1>3, <1>4, <1>5, <2>1, WriteFails
  <2>2. CASE written' = [written EXCEPT ![o] = Append(@, rx[e].data)] /\ UNCHANGED up
    <3>1. CASE e = "F"
      BY <1>1, <1>2, <1>3, <1>4, <1>5, <2>2, <3>1, WrittenF, EndFacts
    <3>2. CASE e = "R"
      BY <1>1, <1>2, <1>3, <1>4, <1>5, <2>2, <3>2, WrittenR, EndFacts
    <3> QED
      BY <3>1, <3>2, EndFacts
  <2> QED
    BY <1>6, <2>1, <2>2
<1>8. written' \in [Objects -> Seq(Chunks)] /\ \A q \in Objects : q # o => written'[q] = written[q]
  <2>1. written \in [Objects -> Seq(Chunks)] /\ rx[e].data \in Chunks
    BY <1>1, RxFacts DEF Types
  <2>2. Append(written[o], rx[e].data) \in Seq(Chunks)
    BY <1>2, <2>1, AppendFacts
  <2> QED
    BY <1>6, <2>1, <2>2
<1>9. Serves(e, c)
  BY <1>2, <1>4, <1>5, <1>6, <1>8 DEF Serves
<1>10. /\ phase' \in [Objects -> Phases] /\ pool' \in [Ends -> [Channels -> Nat]]
       /\ closed' \subseteq Objects /\ byRemote' \subseteq closed'
       /\ closed \subseteq closed' /\ byRemote \subseteq byRemote'
  BY <1>1, <1>4 DEF Types
<1>11. \A q \in closed' : phase'[q] # "none"
  BY <1>1, <1>4 DEF EachOK
<1>12. rx'[e].at = "idle"
  BY <1>5 DEF Idle
<1> QED
  BY <1>4, <1>5, <1>7, <1>8, <1>9, <1>10, <1>11, <1>12, ServesTypes

\* One of the three steps of HandleChannelClose.
LEMMA LoopCloses ==
  ASSUME Types, EachOK, NEW e \in Ends, NEW c \in Channels, ChannelOK(c), Handling(e, c),
         \A d \in Ends : d # e => rx'[d] = rx[d],
         \/ pool' = pool /\ Handling(e, c)' /\ rx'[e].obj = rx[e].obj
         \/ pool' = [pool EXCEPT ![e][c] = 0] /\ rx'[e] = Idle /\ rx[e].at = "delete",
         closed' \subseteq closed \cup {rx[e].obj}, byRemote' \subseteq byRemote \cup {rx[e].obj},
         byRemote \subseteq byRemote',
         UNCHANGED <<phase, nread, written, queue, shut, up>>
  PROVE  ChannelOK(c)'
<1>1. PICK n \in Nat, sent \in Nat, back \in Nat, base \in [Nat -> Nat] : ChannelOf(c, n, sent, back, base)
  BY DEF ChannelOK
<1>2. Serving(e, c) /\ ~InWrite(e, c) /\ ~InWrite(e, c)'
  BY RxFacts DEF Handling, Serving, InWrite, Idle
<1>3. /\ pool'[e][c] \in {pool[e][c], 0}
      /\ \A d \in Ends : d # e => pool'[d][c] = pool[d][c]
      /\ ~Handling(e, c)' => pool'[e][c] = 0 /\ rx[e].at = "delete"
      /\ pool'[e][c] # pool[e][c] => ~Handling(e, c)'
  <2>1. CASE pool' = pool /\ Handling(e, c)'
    BY <2>1
  <2>2. CASE pool' = [pool EXCEPT ![e][c] = 0] /\ rx'[e] = Idle /\ rx[e].at = "delete"
    <3>1. pool'[e][c] = 0 /\ \A d \in Ends : d # e => pool'[d][c] = pool[d][c]
      <4>1. pool \in [Ends -> [Channels -> Nat]]
        BY DEF Types
      <4> QED
        BY <2>2, <4>1
    <3>2. ~Handling(e, c)'
      BY <2>2 DEF Handling, Idle
    <3> QED
      BY <2>2, <3>1, <3>2
  <2> QED
    BY <2>1, <2>2
<1>4. GensOK(c, n)'
  <2>1. \A d \in Ends : Serving(d, c)' => Serving(d, c) /\ rx'[d].obj = rx[d].obj
    BY <1>2 DEF Serving, Idle
  <2>2. \A d \in Ends : pool'[d][c] \in {pool[d][c], 0}
    BY <1>3
  <2> QED
    BY <1>1, <2>1, <2>2, GensLoop DEF ChannelOf
<1>5. \A d \in Ends : WriteKept(d, c)
  BY <1>2 DEF WriteKept, InWrite
<1>6. UpOK(c, n, sent, base)' /\ DownOK(c, back)'
  <2>1. /\ SentOK(Cl(c), sent)' /\ SentOK(Sv(c, 1), back)' /\ FirstOnly(queue'["F"], c)
        /\ NoDataMoved(queue["F"], queue'["F"], c) /\ NoDataMoved(queue["R"], queue'["R"], c)
    BY <1>1 DEF ChannelOf, UpOK, DownOK, SentOK, Unsent, NoDataMoved, Cl, Sv, Tcp
  <2> QED
    BY <1>1, <1>5, <2>1, UpKept, DownKept, EndFacts DEF ChannelOf
<1>7. \A o : Left(o)' <=> Left(o)
  BY DEF Left
<1>8. Quiet(c)' <=> Quiet(c)
  BY DEF Quiet, Left, Cl, Tcp
\* Only what the loop is closing becomes closed.
<1>9. \A o : ClosedByLoop(o)' => ClosedByLoop(o) \/ o = rx[e].obj
  BY DEF ClosedByLoop
<1>10. CASE e = "R"
  <2>1. Quiet(c) /\ Quiet(c)'
    BY <1>1, <1>8, <1>10 DEF ChannelOf, FromClientOK
  <2>2. (Handling("F", c)' <=> Handling("F", c)) /\ (Forgotten(c)' <=> Forgotten(c)) /\ (Told(c)' <=> Told(c))
    BY <1>3, <1>10, EndFacts DEF Handling, Forgotten, Told, Cl, Tcp
  <2>3. ~ClosedByLoop(Cl(c)) => ~ClosedByLoop(Cl(c))'
    <3>1. rx[e].obj # Cl(c)
      <4>1. rx[e].obj.end = "R" /\ Cl(c).end = "F"
        BY <1>10, ObjectFacts DEF EachOK, Handling
      <4> QED
        BY <4>1
    <3>2. ClosedByLoop(Cl(c))' => ClosedByLoop(Cl(c)) \/ Cl(c) = rx[e].obj
      BY DEF ClosedByLoop, Cl, Tcp
    <3> QED
      BY <3>1, <3>2
  <2>4. FromClientOK(c, n)'
    BY <1>1, <2>1, <1>7 DEF ChannelOf, FromClientOK, Left, Cl, Tcp
  <2>5. FromServerOK(c, n)'
    BY <1>1, <2>1, <2>2, <2>3 DEF ChannelOf, FromServerOK, Left, Sv, Tcp, Gens
  <2>6. ForgetOK(c)'
    <3>1. Forgotten(c)' => phase'[Cl(c)] = "done" \/ Cl(c) \in byRemote'
      BY <1>1, <2>2 DEF ChannelOf, ForgetOK
    <3>2. Handling("R", c)' \/ (pool'["R"][c] = 0 /\ Quiet(c)')
      BY <1>3, <1>10, <2>1
    <3> QED
      BY <3>1, <3>2 DEF ForgetOK, Cl, Tcp
  <2> QED
    BY <1>4, <1>6, <2>4, <2>5, <2>6 DEF ChannelOK, ChannelOf
<1>11. CASE e = "F"
  <2>1. rx[e].obj = Cl(c) /\ phase[Cl(c)] # "none"
    <3>1. rx[e].obj \in Objects /\ rx[e].obj.end = "F" /\ rx[e].obj.ch = c
      BY <1>2, <1>11, RxFacts DEF EachOK, Serving
    <3>2. rx[e].obj = Cl(c)
      BY <3>1, ObjectFacts
    <3>3. Serving("F", c)
      BY <1>2, <1>11
    <3>4. phase[Cl(c)] # "none"
      BY <1>1, <3>3 DEF ChannelOf, GensOK
    <3> QED
      BY <3>2, <3>4
  <2>2. /\ Handling("R", c)' <=> Handling("R", c)
        /\ pool'["R"][c] = pool["R"][c]
    BY <1>3, <1>11, EndFacts DEF Handling
  <2>3. Handling("F", c)' \/ Forgotten(c)'
    <3>1. Forgotten(c)' <=> pool'["F"][c] = 0
      BY <2>1 DEF Forgotten, Cl, Tcp
    <3> QED
      BY <1>3, <1>11, <3>1
  <2>4. Told(c)'
    BY <2>3 DEF Told
  <2>5. \A g \in Gens("R", c) : ClosedByLoop(Sv(c, g))' => ClosedByLoop(Sv(c, g))
    <3> TAKE g \in Gens("R", c)
    <3>1. Sv(c, g) # rx[e].obj
      <4>1. Sv(c, g).end = "R" /\ Cl(c).end = "F"
        BY ObjectFacts
      <4> QED
        BY <2>1, <4>1
    <3>2. ClosedByLoop(Sv(c, g))' => ClosedByLoop(Sv(c, g)) \/ Sv(c, g) = rx[e].obj
      BY DEF ClosedByLoop, Sv, Tcp
    <3> QED
      BY <3>1, <3>2
  <2>6. FromClientOK(c, n)'
    <3>1. CloseIsLast(queue'["F"], c) /\ (Has(queue'["F"], c) => Left(Cl(c))')
      BY <1>1, <1>7 DEF ChannelOf, FromClientOK, Left, Cl, Tcp
    <3>2. Handling("R", c)' => Quiet(c)'
      BY <1>1, <1>8, <2>2 DEF ChannelOf, FromClientOK
    <3>3. \A g \in Gens("R", c) : ClosedByLoop(Sv(c, g))' => Quiet(c)'
      BY <1>1, <1>8, <2>5 DEF ChannelOf, FromClientOK
    <3>4. n > 0 /\ pool'["R"][c] = 0 => Quiet(c)' \/ phase'[Sv(c, n)] = "done"
      BY <1>1, <1>8, <2>2 DEF ChannelOf, FromClientOK
    <3> QED
      BY <3>1, <3>2, <3>3, <3>4 DEF FromClientOK, Sv, Tcp, Gens
  <2>7. FromServerOK(c, n)'
    <3>1. \E g \in Gens("R", c) : Left(Sv(c, g))
      BY <1>1, <1>11 DEF ChannelOf, FromServerOK
    <3>2. \E g \in Gens("R", c) : Left(Sv(c, g))'
      BY <3>1 DEF Left, Sv, Tcp
    <3> QED
      BY <2>3, <2>4, <3>2 DEF FromServerOK, Gens
  <2>8. ForgetOK(c)'
    <3>1. Forgotten(c)' => phase'[Cl(c)] = "done" \/ Cl(c) \in byRemote'
      <4>1. CASE Forgotten(c)
        BY <1>1, <4>1 DEF ChannelOf, ForgetOK
      <4>2. CASE ~Forgotten(c) /\ Forgotten(c)'
        <5>1. pool'["F"][c] # pool["F"][c]
          BY <4>2 DEF Forgotten, Cl, Tcp
        <5>2. rx[e].at = "delete"
          BY <1>3, <1>11, <5>1
        <5> QED
          BY <2>1, <5>2 DEF EachOK
      <4> QED
        BY <4>1, <4>2
    <3>2. Left(Cl(c))' => \/ \E g \in Gens("R", c) : Left(Sv(c, g))'
                          \/ Has(queue'["F"], c) \/ Handling("R", c)' \/ "F" \in shut'
                          \/ pool'["R"][c] = 0 /\ Quiet(c)'
      BY <1>1, <1>8, <2>2 DEF ChannelOf, ForgetOK, Left, Cl, Sv, Tcp
    <3> QED
      BY <3>1, <3>2 DEF ForgetOK, Gens, Cl, Tcp
  <2> QED
    BY <1>4, <1>6, <2>6, <2>7, <2>8 DEF ChannelOK, ChannelOf
<1> QED
  BY <1>10, <1>11, EndFacts

LEMMA HandleCloseStep ==
  ASSUME IInv, NEW e \in Ends, HandleChannelClose(e)
  PROVE  IInv'
<1>1. Types /\ EachOK /\ rx[e].at \in {"close", "mark", "delete"}
  BY DEF IInv, HandleChannelClose
<1>2. PICK c \in Channels, o \in Objects :
        /\ o = rx[e].obj /\ o.end = e /\ o.ch = c /\ Serving(e, c)
        /\ e = "F" => o = Cl(c)
  BY <1>1, LoopFacts
<1>3. ChannelOK(c) /\ Handling(e, c) /\ phase[o] # "none"
  <2>1. ChannelOK(c) /\ Handling(e, c)
    BY <1>1, <1>2 DEF IInv, Handling
  <2>2. PICK n \in Nat : GensOK(c, n)
    BY <2>1 DEF ChannelOK, ChannelOf
  <2>3. CASE e = "F"
    <3>1. Serving("F", c) /\ o = Cl(c)
      BY <1>2, <2>3
    <3>2. phase[Cl(c)] # "none"
      BY <2>2, <3>1 DEF GensOK
    <3> QED
      BY <2>1, <3>1, <3>2
  <2>4. CASE e = "R"
    <3>1. n > 0 /\ o = Sv(c, n) /\ n \in Gens("R", c)
      BY <1>2, <2>2, <2>4, LastIsGen DEF GensOK
    <3>2. n <= n
      OBVIOUS
    <3>3. phase[Sv(c, n)] # "none"
      BY <2>2, <3>1, <3>2 DEF GensOK
    <3> QED
      BY <2>1, <3>1, <3>3
  <2> QED
    BY <2>3, <2>4, EndFacts
<1>4. e \in up /\ UNCHANGED <<phase, gone, stuck, nread, written, queue, up, shut>>
  BY DEF HandleChannelClose
<1>5. PICK next \in {Idle} \cup Closings : rx' = [rx EXCEPT ![e] = next] /\ (next = Idle \/ next.obj = o)
  <2>1. Closing("mark", o) \in Closings /\ Closing("delete", o) \in Closings
        /\ Closing("mark", o).obj = o /\ Closing("delete", o).obj = o
    BY DEF Closing, Closings
  <2> QED
    BY <1>2, <2>1 DEF HandleChannelClose
<1>6. /\ rx'[e] = next /\ \A d \in Ends : d # e => rx'[d] = rx[d]
      /\ rx' \in [Ends -> {Idle} \cup Writings \cup Closings]
  BY <1>1, <1>5 DEF Types
\* The three steps.
<1>7. /\ closed \subseteq closed' /\ closed' \subseteq closed \cup {o}
      /\ byRemote \subseteq byRemote' /\ byRemote' \subseteq byRemote \cup {o} /\ byRemote' \subseteq closed'
      /\ \/ pool' = pool /\ rx'[e].at \in {"mark", "delete"} /\ rx'[e].obj = o
         \/ pool' = [pool EXCEPT ![e][c] = 0] /\ rx'[e] = Idle /\ rx[e].at = "delete"
      /\ rx'[e].at \in {"mark", "delete"} => o \in closed'
      /\ rx'[e].at = "delete" => o \in byRemote'
  <2>1. CASE /\ rx[e].at = "close"
             /\ closed' = closed \cup {o}
             /\ rx' = [rx EXCEPT ![e] = Closing("mark", o)]
             /\ UNCHANGED <<byRemote, pool>>
    <3>1. rx'[e] = Closing("mark", o)
      BY <1>1, <2>1 DEF Types
    <3>2. rx'[e].at = "mark" /\ rx'[e].obj = o
      BY <3>1 DEF Closing
    <3> QED
      BY <1>1, <2>1, <3>2 DEF Types
  <2>2. CASE /\ rx[e].at = "mark"
             /\ byRemote' = byRemote \cup {o}
             /\ rx' = [rx EXCEPT ![e] = Closing("delete", o)]
             /\ UNCHANGED <<closed, pool>>
    <3>1. rx'[e] = Closing("delete", o)
      BY <1>1, <2>2 DEF Types
    <3>2. rx'[e].at = "delete" /\ rx'[e].obj = o
      BY <3>1 DEF Closing
    <3>3. o \in closed
      BY <1>1, <1>2, <2>2 DEF EachOK
    <3> QED
      BY <1>1, <2>2, <3>2, <3>3 DEF Types
  <2>3. CASE /\ rx[e].at = "delete"
             /\ pool' = [pool EXCEPT ![e][o.ch] = 0]
             /\ rx' = [rx EXCEPT ![e] = Idle]
             /\ UNCHANGED <<closed, byRemote>>
    <3>1. rx'[e] = Idle
      BY <1>1, <2>3 DEF Types
    <3>2. rx'[e].at = "idle"
      BY <3>1 DEF Idle
    <3> QED
      BY <1>1, <1>2, <2>3, <3>1, <3>2 DEF Types
  <2> QED
    BY <1>2, <2>1, <2>2, <2>3 DEF HandleChannelClose
<1>8. ChannelOK(c)'
  <2>1. \/ pool' = pool /\ Handling(e, c)' /\ rx'[e].obj = rx[e].obj
        \/ pool' = [pool EXCEPT ![e][c] = 0] /\ rx'[e] = Idle /\ rx[e].at = "delete"
    BY <1>2, <1>7 DEF Handling
  <2> QED
    BY <1>1, <1>2, <1>3, <1>4, <1>6, <1>7, <2>1, LoopCloses
<1>9. pool' \in [Ends -> [Channels -> Nat]] /\ \A d \in Ends, b \in Channels : d # e \/ b # c => pool'[d][b] = pool[d][b]
  <2>1. pool \in [Ends -> [Channels -> Nat]]
    BY <1>1 DEF Types
  <2>2. CASE pool' = [pool EXCEPT ![e][c] = 0]
    <3>1. pool' \in [Ends -> [Channels -> Nat]]
      BY <2>1, <2>2
    <3> QED
      BY <1>1, <2>2, <3>1, PoolFacts
  <2> QED
    BY <1>7, <2>1, <2>2
<1>10. Serves(e, c)
  BY <1>2, <1>4, <1>5, <1>6, <1>7, <1>9 DEF Serves
<1>11. /\ phase' \in [Objects -> Phases] /\ written' \in [Objects -> Seq(Chunks)] /\ closed' \subseteq Objects
  BY <1>1, <1>2, <1>4, <1>7 DEF Types
<1>12. \A q \in closed' : phase'[q] # "none"
  BY <1>1, <1>3, <1>4, <1>7 DEF EachOK
<1>13. /\ rx'[e].at # "idle" => rx'[e].obj.end = e
       /\ rx'[e].at \in {"mark", "delete"} => rx'[e].obj \in closed'
       /\ rx'[e].at = "delete" => rx'[e].obj \in byRemote'
  BY <1>2, <1>7 DEF Idle
<1>14. \A q \in Objects : phase'[q] = phase[q] \/ phase'[q] = "read"
  BY <1>4
<1> QED
  BY <1>6, <1>7, <1>8, <1>9, <1>10, <1>11, <1>12, <1>13, <1>14, ServesTypes

-------------------------------------------------------------------------------
\* The invariant.

LEMMA InitOK ==
  ASSUME Init
  PROVE  IInv
<1>1. \A o \in Objects : phase[o] = "none" /\ nread[o] = 0 /\ written[o] = <<>> /\ ~Left(o) /\ ~ClosedByLoop(o)
  BY DEF Init, Left, ClosedByLoop
<1>2. \A e \in Ends : /\ queue[e] = <<>> /\ rx[e] = Idle /\ \A c \in Channels : pool[e][c] = 0
                      /\ \A c : ~Serving(e, c) /\ ~Handling(e, c) /\ ~InWrite(e, c) /\ InHand(e, c) = 0
  BY DEF Init, Serving, Handling, InWrite, InHand, Idle
<1>3. Types
  <2>1. \A o \in Objects : Limit(o) \in Nat
    BY ObjectFacts DEF Limit
  <2>2. nread \in [Objects -> Nat] /\ \A o \in Objects : nread[o] <= Limit(o)
    BY <1>1, <2>1 DEF Init
  <2>3. queue \in [Ends -> Seq(Messages)] /\ \A e \in Ends : Len(queue[e]) <= Cap
    <3>1. queue \in [Ends -> Seq(Messages)]
      BY DEF Init
    <3>2. Len(<<>>) <= Cap
      BY CapAssumption
    <3> QED
      BY <1>2, <3>1, <3>2
  <2>4. written \in [Objects -> Seq(Chunks)] /\ pool \in [Ends -> [Channels -> Nat]]
    BY DEF Init
  <2>5. rx \in [Ends -> {Idle} \cup Writings \cup Closings]
    BY DEF Init
  <2>6. phase \in [Objects -> Phases]
    BY DEF Init, Phases
  <2> QED
    BY <2>2, <2>3, <2>4, <2>5, <2>6 DEF Types, Init
<1>4. EachOK
  <2>1. closed = {}
    BY DEF Init
  <2> QED
    BY <1>1, <1>2, <2>1 DEF EachOK, Idle
<1>5. ASSUME NEW c \in Channels PROVE ChannelOK(c)
  <2>1. PICK base \in [Nat -> Nat] : base = [g \in Nat |-> 0]
    OBVIOUS
  <2>2. \A g \in Nat : base[g] = 0
    BY <2>1
  <2>3. /\ Cl(c) \in Objects /\ 1 \in Gens("R", c) /\ NUp[c] \in Nat
        /\ \A g \in Gens("R", c) : Sv(c, g) \in Objects /\ g \in Nat /\ 0 < g /\ g + 1 \in Nat
    BY ObjectFacts, GenBounds
  <2>4. Total(c, base) = 0
    <3>1. NUp[c] + 1 \in Nat
      BY <2>3
    <3> QED
      BY <2>2, <3>1 DEF Total
  <2>5. \A e \in Ends : Flow(queue[e], c, 1, 0, 0)
    <3>1. \A k \in Nat : ~(0 < k /\ k <= 0)
      OBVIOUS
    <3>2. DOMAIN (<<>>) = {}
      OBVIOUS
    <3> QED
      BY <1>2, <3>1, <3>2 DEF Flow
  <2>6. \A e \in Ends : /\ ~Has(queue[e], c) /\ NoData(queue[e], c) /\ CloseIsLast(queue[e], c)
                        /\ FirstOnly(queue[e], c) /\ Covered(queue[e], c)
    <3>1. DOMAIN (<<>>) = {}
      OBVIOUS
    <3> QED
      BY <1>2, <3>1 DEF Has, NoData, CloseIsLast, FirstOnly, Covered
  <2>7. GensOK(c, 0)
    <3>1. \A g \in Gens("R", c) : ~(g <= 0) /\ phase[Sv(c, g)] = "none"
      BY <1>1, <2>3
    <3>2. 0 <= NUp[c] /\ 1 .. 0 - 1 = {} /\ ~(0 > 0)
      BY <2>3
    <3>3. /\ pool["R"][c] = 0 /\ pool["F"][c] = 0 /\ phase[Cl(c)] = "none"
          /\ ~Serving("R", c) /\ ~Serving("F", c)
      BY <1>1, <1>2, <2>3, EndFacts
    <3> QED
      BY <3>1, <3>2, <3>3 DEF GensOK
  <2>8. SentOK(Cl(c), 0) /\ SentOK(Sv(c, 1), 0)
    <3>1. Unsent(Cl(c)) = 0 /\ Unsent(Sv(c, 1)) = 0
      BY <1>1, <2>3 DEF Unsent
    <3>2. nread[Cl(c)] = 0 /\ nread[Sv(c, 1)] = 0
      BY <1>1, <2>3
    <3>3. 0 <= 0 /\ 0 = 0 - 0
      OBVIOUS
    <3> QED
      BY <3>1, <3>2, <3>3 DEF SentOK
  <2>9. StreamOK(c, 0, base)
    <3>1. base[1] = 0
      BY <2>2
    <3>2. Len(<<>>) = 0 /\ DOMAIN (<<>>) = {} /\ 0 + 0 = 0 /\ 0 <= 0
      OBVIOUS
    <3> QED
      BY <1>1, <2>2, <2>3, <2>4, <3>1, <3>2 DEF StreamOK
  <2>10. \A e \in Ends : OnWay(e, c, 0, 0)
    <3>1. 0 + 0 = 0
      OBVIOUS
    <3> QED
      BY <1>2, <2>5, <3>1, EndFacts DEF OnWay
  <2>11. UpOK(c, 0, 0, base)
    <3>1. 0 <= 0 + 0
      OBVIOUS
    <3> QED
      BY <1>2, <2>4, <2>6, <2>8, <2>9, <2>10, <3>1, EndFacts DEF UpOK
  <2>12. DownOK(c, 0)
    <3>1. Given(c) = 0 /\ DOMAIN written[Cl(c)] = {}
      <4>1. Len(<<>>) = 0 /\ DOMAIN (<<>>) = {}
        OBVIOUS
      <4> QED
        BY <1>1, <2>3, <4>1 DEF Given
    <3>2. 0 <= 0
      OBVIOUS
    <3> QED
      BY <2>8, <2>10, <3>1, <3>2, EndFacts DEF DownOK
  <2>13. FromClientOK(c, 0) /\ FromServerOK(c, 0) /\ ForgetOK(c)
    <3>1. ~(0 > 0) /\ ~(0 > 1)
      OBVIOUS
    <3> QED
      BY <1>1, <1>2, <2>3, <2>6, <3>1, EndFacts DEF FromClientOK, FromServerOK, ForgetOK, Forgotten
  <2> QED
    BY <2>7, <2>11, <2>12, <2>13 DEF ChannelOK, ChannelOf
<1> QED
  BY <1>3, <1>4, <1>5 DEF IInv

LEMMA StepOK ==
  ASSUME IInv, [Next]_vars
  PROVE  IInv'
<1>1. CASE UNCHANGED vars
  BY <1>1, OutsideStep DEF vars, IInv, Types
<1>2. CASE Next
  <2>1. ASSUME NEW c \in Channels, Accept(c) PROVE IInv'
    BY <2>1, AcceptStep
  <2>2. ASSUME NEW o \in Objects, ReadChunk(o) \/ ServeChannel(o) \/ Leave(o) \/ Stall(o) PROVE IInv'
    BY <2>2, ReadChunkStep, ReadErrorStep, SendChunkStep, DeferredCloseStep, CheckStep, NotifyStep,
       ExistStep, DeleteSelfStep, LeaveStep DEF ServeChannel
  <2>3. ASSUME NEW e \in Ends, Recv(e) \/ PeerLost(e) \/ CloseLink(e) PROVE IInv'
    BY <2>3, ReceiveStep, WriteChunkStep, HandleCloseStep, DownStep DEF Recv
  <2>4. ASSUME NEW e \in Ends, Reply(e) \/ Keepalive(e) PROVE IInv'
    BY <2>4, BeatStep
  <2> QED
    BY <1>2, <2>1, <2>2, <2>3, <2>4 DEF Next
<1> QED
  BY <1>1, <1>2

\* IInv is an invariant: it holds of what the code starts with, and each step of a
\* goroutine, of a receive loop and of an application keeps it.
THEOREM Invariance == Spec => []IInv
<1>1. Init => IInv
  BY InitOK
<1>2. IInv /\ [Next]_vars => IInv'
  BY StepOK
<1> QED
  BY <1>1, <1>2, PTL DEF Spec

-------------------------------------------------------------------------------
\* The properties.

\* What the invariant says of what has been written.
LEMMA WrittenFacts ==
  ASSUME IInv, NEW c \in Channels
  PROVE  /\ \A k \in DOMAIN written[Cl(c)] : written[Cl(c)][k] = <<1, k>>
         /\ Len(written[Cl(c)]) <= nread[Sv(c, 1)]
         /\ \E base \in [Nat -> Nat] :
              /\ base[1] = 0 /\ base[NUp[c] + 1] <= nread[Cl(c)]
              /\ \A g \in Gens("R", c) :
                   /\ base[g + 1] = base[g] + Len(written[Sv(c, g)]) /\ base[g + 1] <= base[NUp[c] + 1]
                   /\ \A k \in DOMAIN written[Sv(c, g)] : written[Sv(c, g)][k] = <<1, base[g] + k>>
<1>1. Types /\ ChannelOK(c)
  BY DEF IInv
<1>2. PICK n \in Nat, sent \in Nat, back \in Nat, base \in [Nat -> Nat] : ChannelOf(c, n, sent, back, base)
  BY <1>1 DEF ChannelOK
<1>3. /\ nread[Sv(c, 1)] \in Nat /\ nread[Cl(c)] \in Nat /\ Len(written[Cl(c)]) \in Nat
      /\ Total(c, base) \in Nat
  BY <1>1, TypeFacts, ObjectFacts, TotalFacts
<1>4. /\ \A k \in DOMAIN written[Cl(c)] : written[Cl(c)][k] = <<1, k>>
      /\ Len(written[Cl(c)]) <= back /\ back <= nread[Sv(c, 1)]
  BY <1>2 DEF ChannelOf, DownOK, SentOK, Given
<1>5. Total(c, base) <= sent /\ sent <= nread[Cl(c)] /\ StreamOK(c, n, base)
  BY <1>2 DEF ChannelOf, UpOK, SentOK
<1>6. Len(written[Cl(c)]) <= nread[Sv(c, 1)] /\ Total(c, base) <= nread[Cl(c)]
  <2>1. PICK l \in Nat, u \in Nat, v \in Nat, w \in Nat :
          l = Len(written[Cl(c)]) /\ u = nread[Sv(c, 1)] /\ v = nread[Cl(c)] /\ w = Total(c, base)
    BY <1>3
  <2>2. l <= back /\ back <= u /\ w <= sent /\ sent <= v
    BY <1>4, <1>5, <2>1
  <2>3. l <= u /\ w <= v
    BY <2>2
  <2> QED
    BY <2>1, <2>3
<1>7. base[1] = 0 /\ base[NUp[c] + 1] <= nread[Cl(c)]
  BY <1>5, <1>6 DEF StreamOK, Total
<1>8. \A g \in Gens("R", c) :
        /\ base[g + 1] = base[g] + Len(written[Sv(c, g)]) /\ base[g + 1] <= base[NUp[c] + 1]
        /\ \A k \in DOMAIN written[Sv(c, g)] : written[Sv(c, g)][k] = <<1, base[g] + k>>
  BY <1>5 DEF StreamOK, Total
<1> QED
  BY <1>4, <1>6, <1>7, <1>8

\* No splice: the client of a channel is given a prefix of what its first server sends,
\* whatever is opened under its id again.
THEOREM ClientNeverSpliced == Spec => []NoSplice
<1>1. IInv => NoSplice
  <2> SUFFICES ASSUME IInv, NEW c \in Channels
               PROVE  /\ \A k \in DOMAIN written[Cl(c)] : written[Cl(c)][k] = <<1, k>>
                      /\ Len(written[Cl(c)]) <= nread[Sv(c, 1)]
    BY DEF NoSplice, Cl, Sv
  <2> QED
    BY WrittenFacts
<1> QED
  BY <1>1, Invariance, PTL

\* An entry of a pool belongs to the last generation: the goroutines of those before have
\* ended, and the receive loop handles none of them.
THEOREM EntriesAreOwn == Spec => []EntryIsOwn
<1>1. IInv => EntryIsOwn
  <2> SUFFICES ASSUME IInv, NEW e \in Ends, NEW c \in Channels, pool[e][c] # 0, NEW g \in 1 .. pool[e][c] - 1
               PROVE  /\ phase[Tcp(e, c, g)] = "done"
                      /\ rx[e].at # "idle" => rx[e].obj # Tcp(e, c, g)
    BY DEF EntryIsOwn
  <2>1. PICK n \in Nat : GensOK(c, n)
    BY DEF IInv, ChannelOK, ChannelOf
  <2>2. e = "R" /\ pool[e][c] = n
    <3>1. e = "F" => pool[e][c] = 1
      BY <2>1 DEF GensOK
    <3>2. e = "R" => pool[e][c] = n
      BY <2>1 DEF GensOK
    <3>3. e # "F"
      BY <3>1
    <3> QED
      BY <3>2, <3>3, EndFacts
  <2>3. g \in 1 .. n - 1 /\ g # n
    BY <2>2
  <2>4. phase[Sv(c, g)] = "done"
    BY <2>1, <2>3 DEF GensOK
  <2>5. rx["R"].at # "idle" => rx["R"].obj # Sv(c, g)
    <3>1. Serving("R", c) => rx["R"].obj = Sv(c, n)
      BY <2>1 DEF GensOK
    <3>2. Sv(c, g) # Sv(c, n) /\ Sv(c, g).ch = c
      BY <2>3, GenIsNamed, ObjectFacts
    <3> QED
      BY <3>1, <3>2 DEF Serving
  <2> QED
    BY <2>2, <2>4, <2>5 DEF Sv
<1> QED
  BY <1>1, Invariance, PTL

\* A channel that one end has deleted does not stay open at the other, unless it is one
\* that data on its way has opened again.
THEOREM ClosesAreAnnounced == Spec => []CloseAnnounced
<1>1. IInv => CloseAnnounced
  <2> SUFFICES ASSUME IInv, up = Ends, NEW c \in Channels
               PROVE  /\ pool["R"][c] = 1 /\ pool["F"][c] = 0 => Announced("F", c) \/ Leaving("R", c)
                      /\ (/\ pool["F"][c] = 1 /\ pool["R"][c] = 0
                          /\ phase[Tcp("R", c, 1)] # "none") => Announced("R", c) \/ Leaving("F", c)
    BY DEF CloseAnnounced
  <2>1. PICK n \in Nat, sent \in Nat, back \in Nat, base \in [Nat -> Nat] : ChannelOf(c, n, sent, back, base)
    BY DEF IInv, ChannelOK
  <2>2. GensOK(c, n) /\ FromClientOK(c, n) /\ FromServerOK(c, n) /\ ForgetOK(c)
    BY <2>1 DEF ChannelOf
  <2>3. "F" \notin shut /\ "R" \notin shut
    BY EndFacts DEF IInv, Types
  <2>4. 1 \in Gens("R", c) /\ \A g \in Gens("R", c) : g \in Nat /\ 0 < g
    BY ObjectFacts, GenBounds
  <2>5. ASSUME pool["R"][c] = 1, pool["F"][c] = 0 PROVE Announced("F", c) \/ Leaving("R", c)
    <3>1. n = 1
      BY <2>2, <2>5 DEF GensOK
    <3>2. Forgotten(c) /\ phase[Sv(c, 1)] # "done"
      BY <2>2, <2>5, <3>1 DEF GensOK, Forgotten
    <3>3. \/ \E g \in Gens("R", c) : Left(Sv(c, g))
          \/ Has(queue["F"], c) \/ Handling("R", c)
      <4>1. CASE phase[Cl(c)] = "done"
        BY <2>2, <2>3, <2>5, <4>1 DEF ForgetOK, Left
      <4>2. CASE Cl(c) \in byRemote
        BY <2>2, <4>2 DEF FromServerOK, ClosedByLoop
      <4> QED
        BY <2>2, <3>2, <4>1, <4>2 DEF ForgetOK
    <3>4. CASE \E g \in Gens("R", c) : Left(Sv(c, g))
      <4>1. PICK g \in Gens("R", c) : Left(Sv(c, g))
        BY <3>4
      <4>2. phase[Sv(c, g)] # "none"
        BY <4>1 DEF Left
      <4>3. g <= 1
        BY <2>2, <3>1, <4>2 DEF GensOK
      <4>4. g = 1
        BY <2>4, <4>3
      <4>5. phase[Sv(c, 1)] \in {"exist", "delete"}
        BY <3>2, <4>1, <4>4 DEF Left
      <4> QED
        BY <2>5, <4>5 DEF Leaving, Sv
    <3>5. CASE Has(queue["F"], c)
      BY <3>5 DEF Has, Announced
    <3>6. CASE Handling("R", c)
      <4>1. rx["R"].obj = Sv(c, 1)
        BY <2>2, <3>1, <3>6 DEF GensOK, Handling, Serving
      <4> QED
        BY <2>5, <3>6, <4>1 DEF Leaving, Handling, Sv
    <3> QED
      BY <3>3, <3>4, <3>5, <3>6
  <2>6. ASSUME pool["F"][c] = 1, pool["R"][c] = 0, phase[Sv(c, 1)] # "none"
        PROVE  Announced("R", c) \/ Leaving("F", c)
    <3>1. 1 <= n
      BY <2>2, <2>4, <2>6 DEF GensOK
    <3>2. ~Forgotten(c) /\ phase[Cl(c)] # "done"
      BY <2>2, <2>6 DEF Forgotten, GensOK
    <3>3. Told(c) \/ Quiet(c)
      <4>1. CASE n > 1
        BY <2>2, <4>1 DEF FromServerOK
      <4>2. CASE n = 1
        <5>1. n > 0
          BY <4>2
        <5>2. Quiet(c) \/ phase[Sv(c, 1)] = "done"
          BY <2>2, <2>6, <4>2, <5>1 DEF FromClientOK
        <5>3. phase[Sv(c, 1)] = "done" => Left(Sv(c, 1))
          BY DEF Left
        <5> QED
          BY <2>2, <2>3, <5>1, <5>2, <5>3 DEF FromServerOK
      <4> QED
        BY <3>1, <4>1, <4>2
    <3>4. CASE Quiet(c)
      <4>1. phase[Cl(c)] \in {"exist", "delete"}
        BY <3>2, <3>4 DEF Quiet, Left
      <4> QED
        BY <2>6, <4>1 DEF Leaving, Cl
    <3>5. CASE Has(queue["R"], c)
      BY <3>5 DEF Has, Announced
    <3>6. CASE Handling("F", c)
      <4>1. rx["F"].obj = Cl(c)
        <5>1. rx["F"].at # "idle" /\ rx["F"].obj.ch = c
          BY <3>6 DEF Handling
        <5>2. rx["F"].obj \in Objects /\ rx["F"].obj.end = "F"
          BY <5>1, RxFacts, EndFacts DEF IInv, EachOK
        <5> QED
          BY <5>1, <5>2, ObjectFacts
      <4> QED
        BY <2>6, <3>6, <4>1 DEF Leaving, Handling, Cl
    <3> QED
      BY <3>2, <3>3, <3>4, <3>5, <3>6 DEF Told
  <2> QED
    BY <2>5, <2>6 DEF Sv
<1> QED
  BY <1>1, Invariance, PTL

LEMMA LowestNat ==
  ASSUME NEW S \in SUBSET Nat, S # {}
  PROVE  \E k \in S : \A j \in S : k <= j
<1>1. IsWellFoundedOn(OpToRel(<, Nat), Nat)
  BY NatLessThanWellFounded
<1>2. PICK k \in S : \A j \in S : ~(<<j, k>> \in OpToRel(<, Nat))
  BY <1>1, WFMin
<1>3. \A j \in S : ~(j < k)
  BY <1>2 DEF OpToRel
<1> QED
  BY <1>3

\* cat is the sequences s[1], ..., s[m], one after the other, for each m up to last.
Joins(cat, s, last) ==
  cat = [g \in 0 .. last |-> IF g = 0 THEN <<>> ELSE cat[g - 1] \o s[g]]

LEMMA JoinExists ==
  ASSUME NEW last \in Nat, NEW S, NEW s \in [1 .. last -> Seq(S)]
  PROVE  \E cat \in [0 .. last -> Seq(S)] : Joins(cat, s, last)
<1> DEFINE Good(m) == \E cat \in [0 .. m -> Seq(S)] : Joins(cat, s, m)
<1> DEFINE Bad == {m \in 0 .. last : ~Good(m)}
<1>1. SUFFICES ASSUME Bad # {} PROVE FALSE
  <2>1. last \in 0 .. last
    OBVIOUS
  <2> QED
    BY <1>1, <2>1
<1>2. PICK m \in Bad : \A j \in Bad : m <= j
  <2>1. Bad \in SUBSET Nat
    OBVIOUS
  <2> HIDE DEF Bad
  <2> QED
    BY <1>1, <2>1, LowestNat
<1>3. m \in 0 .. last /\ ~Good(m)
  BY <1>2
<1>4. CASE m = 0
  <2> DEFINE cat == [g \in 0 .. 0 |-> <<>>]
  <2>1. cat \in [0 .. 0 -> Seq(S)]
    OBVIOUS
  <2>2. Joins(cat, s, 0)
    BY DEF Joins
  <2> QED
    BY <1>3, <1>4, <2>1, <2>2
<1>5. CASE m # 0
  <2>1. m - 1 \in 0 .. last /\ ~(m <= m - 1) /\ m \in 1 .. last /\ m \in Nat
    BY <1>3, <1>5
  <2>2. Good(m - 1)
    BY <1>2, <2>1
  <2>3. PICK f \in [0 .. m - 1 -> Seq(S)] : Joins(f, s, m - 1)
    BY <2>2
  <2>4. f[m - 1] \in Seq(S) /\ s[m] \in Seq(S)
    BY <2>1
  <2>5. PICK t \in Seq(S) : t = f[m - 1] \o s[m]
    <3>1. f[m - 1] \o s[m] \in Seq(S)
      BY <2>4, ConcatProperties
    <3> QED
      BY <3>1
  <2> DEFINE cat == [g \in 0 .. m |-> IF g = m THEN t ELSE f[g]]
  <2>6. cat \in [0 .. m -> Seq(S)]
    BY <2>1
  <2>7. ASSUME NEW g \in 0 .. m PROVE cat[g] = IF g = 0 THEN <<>> ELSE cat[g - 1] \o s[g]
    <3>1. CASE g = m
      <4>1. m - 1 \in 0 .. m /\ m - 1 # m
        BY <2>1
      <4>2. cat[m - 1] = f[m - 1] /\ cat[m] = t
        BY <2>1, <4>1
      <4> QED
        BY <1>5, <2>5, <3>1, <4>2
    <3>2. CASE g # m /\ g # 0
      <4>1. g \in 0 .. m - 1 /\ g - 1 \in 0 .. m /\ g - 1 # m
        BY <2>1, <2>7, <3>2
      <4>2. f[g] = f[g - 1] \o s[g]
        BY <2>3, <3>2, <4>1 DEF Joins
      <4> QED
        BY <2>7, <3>2, <4>1, <4>2
    <3>3. CASE g # m /\ g = 0
      <4>1. 0 \in 0 .. m - 1
        BY <2>1
      <4>2. f[0] = <<>>
        BY <2>3, <4>1 DEF Joins
      <4> QED
        BY <2>7, <3>3, <4>2
    <3> QED
      BY <3>1, <3>2, <3>3
  <2>8. Joins(cat, s, m)
    BY <2>7 DEF Joins
  <2> HIDE DEF cat
  <2> QED
    BY <1>3, <2>6, <2>8
<1> QED
  BY <1>4, <1>5

\* The sequences are the pieces of one stream: s[g] is what follows the first base[g].
Pieces(s, base, last) ==
  /\ base[1] = 0
  /\ \A g \in 1 .. last : /\ base[g + 1] = base[g] + Len(s[g])
                          /\ \A k \in DOMAIN s[g] : s[g][k] = <<1, base[g] + k>>

\* The stream from its beginning.
Stream(q) == \A k \in DOMAIN q : q[k] = <<1, k>>

\* What the pieces are joined to is the stream.
LEMMA JoinedStream ==
  ASSUME NEW last \in Nat, NEW s \in [1 .. last -> Seq(Chunks)],
         NEW cat, Joins(cat, s, last),
         NEW base \in [Nat -> Nat], Pieces(s, base, last),
         NEW m \in 0 .. last
  PROVE  Len(cat[m]) = base[m + 1] /\ Stream(cat[m])
<1> DEFINE Good(g) == cat[g] \in Seq(Chunks) /\ Len(cat[g]) = base[g + 1] /\ Stream(cat[g])
<1> DEFINE Bad == {g \in 0 .. last : ~Good(g)}
<1>1. SUFFICES ASSUME Bad # {} PROVE FALSE
  BY <1>1
<1>2. PICK b \in Bad : \A j \in Bad : b <= j
  <2>1. Bad \in SUBSET Nat
    OBVIOUS
  <2> HIDE DEF Bad
  <2> QED
    BY <1>1, <2>1, LowestNat
<1>3. b \in 0 .. last /\ ~Good(b)
  BY <1>2
<1>4. CASE b = 0
  <2>1. cat[0] = <<>>
    BY DEF Joins
  <2>2. <<>> \in Seq(Chunks) /\ Len(<<>>) = 0 /\ DOMAIN (<<>>) = {} /\ 0 + 1 = 1
    OBVIOUS
  <2>3. base[1] = 0
    BY DEF Pieces
  <2> QED
    BY <1>3, <1>4, <2>1, <2>2, <2>3 DEF Stream
<1>5. CASE b # 0
  <2>1. /\ b \in Nat /\ b - 1 \in 0 .. last /\ ~(b <= b - 1) /\ b \in 1 .. last
        /\ (b - 1) + 1 = b /\ b + 1 \in Nat
    BY <1>3, <1>5
  <2>2. Good(b - 1)
    BY <1>2, <2>1
  <2>3. PICK p \in Seq(Chunks), q \in Seq(Chunks) : p = cat[b - 1] /\ q = s[b]
    BY <2>1, <2>2
  <2>4. cat[b] = p \o q
    BY <1>3, <1>5, <2>3 DEF Joins
  <2>5. PICK l \in Nat : l = base[b]
    BY <2>1
  <2>6. Len(p) = l /\ \A k \in DOMAIN p : p[k] = <<1, k>>
    BY <2>1, <2>2, <2>3, <2>5 DEF Stream
  <2>7. base[b + 1] = l + Len(q) /\ \A k \in DOMAIN q : q[k] = <<1, l + k>>
    BY <2>1, <2>3, <2>5 DEF Pieces
  <2>8. /\ Len(p \o q) = Len(p) + Len(q) /\ Len(p) \in Nat /\ Len(q) \in Nat
        /\ DOMAIN (p \o q) = 1 .. Len(p) + Len(q) /\ DOMAIN p = 1 .. Len(p) /\ DOMAIN q = 1 .. Len(q)
        /\ \A k \in 1 .. Len(p) + Len(q) : (p \o q)[k] = IF k <= Len(p) THEN p[k] ELSE q[k - Len(p)]
    <3>1. PICK t \in Seq(Chunks) : t = p \o q
      BY ConcatProperties
    <3>2. DOMAIN t = 1 .. Len(t) /\ DOMAIN p = 1 .. Len(p) /\ DOMAIN q = 1 .. Len(q)
      OBVIOUS
    <3>3. /\ Len(p \o q) = Len(p) + Len(q)
          /\ \A k \in 1 .. Len(p) + Len(q) : (p \o q)[k] = IF k <= Len(p) THEN p[k] ELSE q[k - Len(p)]
      BY ConcatProperties
    <3>4. DOMAIN (p \o q) = 1 .. Len(p) + Len(q)
      BY <3>1, <3>2, <3>3
    <3>5. Len(p) \in Nat /\ Len(q) \in Nat
      BY LenProperties
    <3> QED
      BY <3>2, <3>3, <3>4, <3>5
  <2>9. ASSUME NEW k \in DOMAIN (p \o q) PROVE (p \o q)[k] = <<1, k>>
    <3>1. CASE k <= Len(p)
      <4>1. k \in DOMAIN p /\ (p \o q)[k] = p[k]
        BY <2>8, <2>9, <3>1
      <4> QED
        BY <2>6, <4>1
    <3>2. CASE ~(k <= Len(p))
      <4>1. k - Len(p) \in DOMAIN q /\ (p \o q)[k] = q[k - Len(p)] /\ l + (k - Len(p)) = k
        <5>1. k \in 1 .. Len(p) + Len(q) /\ k \in Int
          BY <2>8, <2>9
        <5>2. k - Len(p) \in 1 .. Len(q) /\ l + (k - Len(p)) = k
          BY <2>6, <2>8, <3>2, <5>1
        <5> QED
          BY <2>8, <3>2, <5>1, <5>2
      <4>2. PICK h : h = k - Len(p)
        OBVIOUS
      <4>3. q[h] = <<1, l + h>> /\ l + h = k
        BY <2>7, <4>1, <4>2
      <4> QED
        BY <4>1, <4>2, <4>3
    <3> QED
      BY <3>1, <3>2
  <2>10. Len(p \o q) = base[b + 1]
    BY <2>6, <2>7, <2>8
  <2>11. p \o q \in Seq(Chunks)
    BY ConcatProperties
  <2> QED
    BY <1>3, <2>4, <2>9, <2>10, <2>11 DEF Stream
<1> QED
  BY <1>4, <1>5

LEMMA UpstreamOK ==
  ASSUME IInv, NEW c \in Channels
  PROVE  /\ Len(Upstream(c)) <= nread[Cl(c)]
         /\ \A k \in DOMAIN Upstream(c) : Upstream(c)[k] = <<1, k>>
<1>1. Types
  BY DEF IInv
<1>2. PICK last \in Nat : last = NUp[c] /\ Gens("R", c) = 1 .. last
  BY ObjectFacts
<1>3. PICK s \in [1 .. last -> Seq(Chunks)] : \A g \in 1 .. last : s[g] = written[Sv(c, g)]
  <2>1. \A g \in 1 .. last : written[Sv(c, g)] \in Seq(Chunks)
    BY <1>1, <1>2, TypeFacts, ObjectFacts
  <2>2. [g \in 1 .. last |-> written[Sv(c, g)]] \in [1 .. last -> Seq(Chunks)]
    BY <2>1
  <2> QED
    BY <2>2
<1>4. PICK base \in [Nat -> Nat] :
        Pieces(s, base, last) /\ base[last + 1] <= nread[Cl(c)]
  <2>1. PICK base \in [Nat -> Nat] :
          /\ base[1] = 0 /\ base[NUp[c] + 1] <= nread[Cl(c)]
          /\ \A g \in Gens("R", c) :
               /\ base[g + 1] = base[g] + Len(written[Sv(c, g)]) /\ base[g + 1] <= base[NUp[c] + 1]
               /\ \A k \in DOMAIN written[Sv(c, g)] : written[Sv(c, g)][k] = <<1, base[g] + k>>
    BY WrittenFacts
  <2>2. base[last + 1] <= nread[Cl(c)]
    BY <1>2, <2>1
  <2>3. \A g \in 1 .. last : /\ base[g + 1] = base[g] + Len(s[g])
                             /\ \A k \in DOMAIN s[g] : s[g][k] = <<1, base[g] + k>>
    <3> TAKE g \in 1 .. last
    <3>1. g \in Gens("R", c) /\ s[g] = written[Sv(c, g)]
      BY <1>2, <1>3
    <3> QED
      BY <2>1, <3>1
  <2> QED
    BY <2>1, <2>2, <2>3 DEF Pieces
\* The function that Upstream is defined with is one that joins the sequences.
<1>5. \A cat : Joins(cat, s, last) <=>
                 cat = [g \in 0 .. NUp[c] |-> IF g = 0 THEN <<>> ELSE cat[g - 1] \o written[Tcp("R", c, g)]]
  <2> TAKE cat
  <2>1. \A g \in 0 .. last : g # 0 => s[g] = written[Tcp("R", c, g)]
    <3>1. \A g \in 0 .. last : g # 0 => g \in 1 .. last
      OBVIOUS
    <3>2. \A g \in 1 .. last : s[g] = written[Tcp("R", c, g)]
      BY <1>3 DEF Sv
    <3> QED
      BY <3>1, <3>2
  <2>2. [g \in 0 .. last |-> IF g = 0 THEN <<>> ELSE cat[g - 1] \o s[g]] =
        [g \in 0 .. NUp[c] |-> IF g = 0 THEN <<>> ELSE cat[g - 1] \o written[Tcp("R", c, g)]]
    BY <1>2, <2>1
  <2> QED
    BY <2>2 DEF Joins
<1>6. PICK joined \in [0 .. last -> Seq(Chunks)] : Joins(joined, s, last)
  BY JoinExists
<1>7. PICK cat : Joins(cat, s, last) /\ Upstream(c) = cat[last]
  <2> DEFINE up1 == CHOOSE f : f = [g \in 0 .. NUp[c] |-> IF g = 0 THEN <<>> ELSE f[g - 1] \o written[Tcp("R", c, g)]]
  <2>1. Upstream(c) = up1[NUp[c]]
    BY DEF Upstream
  <2>2. Joins(up1, s, last)
    <3>1. \E f : f = [g \in 0 .. NUp[c] |-> IF g = 0 THEN <<>> ELSE f[g - 1] \o written[Tcp("R", c, g)]]
      BY <1>5, <1>6
    <3>2. up1 = [g \in 0 .. NUp[c] |-> IF g = 0 THEN <<>> ELSE up1[g - 1] \o written[Tcp("R", c, g)]]
      BY <3>1
    <3> QED
      BY <1>5, <3>2
  <2> QED
    BY <1>2, <2>1, <2>2
<1>8. last \in 0 .. last
  OBVIOUS
<1>9. Len(cat[last]) = base[last + 1] /\ Stream(cat[last])
  BY <1>4, <1>7, <1>8, JoinedStream
<1>10. Len(Upstream(c)) <= nread[Cl(c)] /\ Stream(Upstream(c))
  BY <1>4, <1>7, <1>9
<1> QED
  BY <1>10 DEF Stream

\* The servers are given the stream of the client, in order, without a gap or a
\* repetition, over all the connections that were opened for its channel.
THEOREM StreamsInOrder == Spec => []StreamInOrder
<1>1. IInv => StreamInOrder
  <2> SUFFICES ASSUME IInv, NEW c \in Channels
               PROVE  /\ Len(Upstream(c)) <= nread[Cl(c)]
                      /\ \A k \in DOMAIN Upstream(c) : Upstream(c)[k] = <<1, k>>
    BY DEF StreamInOrder, Cl
  <2> QED
    BY UpstreamOK
<1> QED
  BY <1>1, Invariance, PTL

\* The variables of keepalive: a receive loop that has a ping to answer does nothing else.
BeatsOK ==
  /\ replying \subseteq Ends /\ pinging \subseteq Ends /\ pings \in [Ends -> 0 .. MaxPings]
  /\ \A e \in replying : rx[e] = Idle

LEMMA BeatsTyped ==
  ASSUME Types, BeatsOK, Next
  PROVE  BeatsOK'
<1>1. DOMAIN rx = Ends /\ \A d, x : rx' = [rx EXCEPT ![d] = x] => \A e \in Ends : e # d => rx'[e] = rx[e]
  BY RxFacts, EndFacts DEF Types
<1>2. ASSUME UNCHANGED <<rx, beats>> PROVE BeatsOK'
  BY <1>2 DEF BeatsOK, beats
<1>3. ASSUME NEW d \in Ends, d \notin replying, UNCHANGED beats, \A e \in Ends : e # d => rx'[e] = rx[e]
      PROVE  BeatsOK'
  BY <1>3 DEF BeatsOK, beats
<1>4. ASSUME NEW c \in Channels, Accept(c) PROVE BeatsOK'
  BY <1>2, <1>4 DEF Accept
<1>5. ASSUME NEW o \in Objects, ReadChunk(o) \/ ServeChannel(o) \/ Leave(o) \/ Stall(o) PROVE BeatsOK'
  <2>1. UNCHANGED <<rx, beats>>
    BY <1>5 DEF ReadChunk, ServeChannel, ReadError, SendChunk, DeferredClose, Check, Notify, Exist,
       DeleteSelf, Leave, Stall
  <2> QED
    BY <1>2, <2>1
<1>6. ASSUME NEW d \in Ends, Receive(d) PROVE BeatsOK'
  <2>1. PICK m : ReceiveUnknown(d, m) \/ ReceiveKnown(d, m) \/ ReceiveClose(d, m) \/ ReceivePing(d, m)
    BY <1>6 DEF Receive
  <2>2. d \notin replying /\ rx[d] = Idle
    BY <1>6 DEF Receive
  <2>3. CASE ReceiveUnknown(d, m) \/ ReceiveKnown(d, m)
    <3>1. UNCHANGED beats /\ (UNCHANGED rx \/ \E g, x : rx' = [rx EXCEPT ![d] = Writing(Tcp(d, m.ch, g), x)])
      <4>1. \A g : Tcp(d, m.ch, g).end = d
        BY DEF Tcp
      <4> QED
        BY <2>3, <4>1 DEF ReceiveUnknown, ReceiveKnown, FirstWrite, HandleIn
    <3> QED
      BY <1>1, <1>3, <2>2, <3>1
  <2>4. CASE ReceiveClose(d, m)
    <3>1. UNCHANGED beats
          /\ (UNCHANGED rx \/ rx' = [rx EXCEPT ![d] = Closing("close", Tcp(d, m.ch, pool[d][m.ch]))])
      BY <2>4 DEF ReceiveClose
    <3> QED
      BY <1>1, <1>3, <2>2, <3>1
  <2>5. CASE ReceivePing(d, m)
    BY <2>2, <2>5 DEF ReceivePing, BeatsOK
  <2> QED
    BY <2>1, <2>3, <2>4, <2>5
<1>7. ASSUME NEW d \in Ends, WriteChunk(d) \/ HandleChannelClose(d) PROVE BeatsOK'
  <2>1. rx[d].at # "idle" /\ UNCHANGED beats /\ \E x : rx' = [rx EXCEPT ![d] = x]
    BY <1>7 DEF WriteChunk, HandleChannelClose
  <2>2. d \notin replying
    BY <2>1 DEF BeatsOK, Idle
  <2> QED
    BY <1>1, <1>3, <2>1, <2>2
<1>8. ASSUME NEW d \in Ends, PeerLost(d) \/ CloseLink(d) PROVE BeatsOK'
  BY <1>2, <1>8 DEF PeerLost, CloseLink
<1>9. ASSUME NEW d \in Ends, Reply(d) PROVE BeatsOK'
  BY <1>9 DEF Reply, BeatsOK
<1>10. ASSUME NEW d \in Ends, Ping(d) PROVE BeatsOK'
  <2>1. pings' \in [Ends -> 0 .. MaxPings]
    <3>1. pings \in [Ends -> 0 .. MaxPings] /\ MaxPings \in Nat
      BY LimitAssumption DEF BeatsOK
    <3>2. CASE pings[d] < MaxPings /\ pings' = [pings EXCEPT ![d] = @ + 1]
      <4>1. pings[d] + 1 \in 0 .. MaxPings
        BY <3>1, <3>2
      <4> QED
        BY <3>1, <3>2, <4>1
    <3> QED
      BY <1>10, <3>1, <3>2 DEF Ping
  <2> QED
    BY <1>10, <2>1 DEF Ping, BeatsOK
<1>11. ASSUME NEW d \in Ends, KeepaliveAgain(d) \/ KeepaliveStop(d) PROVE BeatsOK'
  BY <1>11 DEF KeepaliveAgain, KeepaliveStop, PingFails, BeatsOK
<1> QED
  BY <1>4, <1>5, <1>6, <1>7, <1>8, <1>9, <1>10, <1>11 DEF Next, Recv, Keepalive

\* Every variable keeps its type, and a channel that is in a pool has been served.
THEOREM TypeCorrect == Spec => []TypeOK
<1>1. IInv /\ BeatsOK => TypeOK
  <2> SUFFICES ASSUME IInv, BeatsOK PROVE TypeOK
    OBVIOUS
  <2>1. Types
    BY DEF IInv
  <2>2. ASSUME NEW o \in Objects PROVE nread[o] \in 0 .. Limit(o) /\ written[o] \in Seq(Data)
    <3>1. nread[o] \in 0 .. Limit(o)
      BY <2>1, ReadFacts
    <3>2. PICK c \in Channels, w \in Seq(Chunks) : c = o.ch /\ w = written[o]
      BY <2>1, ObjectFacts, TypeFacts
    <3>3. PICK u \in Nat, d \in Nat : u = NUp[c] /\ d = NDown[c] /\ u > 0
      BY ObjectFacts
    <3>4. \A k \in 1 .. u + d : <<1, k>> \in Data
      <4>1. 1 \in 1 .. u
        BY <3>3
      <4>2. ASSUME NEW k \in 1 .. u + d PROVE <<1, k>> \in {<<g, j>> : g \in 1 .. u, j \in 1 .. u + d}
        BY <4>1
      <4> QED
        BY <3>3, <4>2 DEF Data
    <3>5. /\ nread[Cl(c)] <= u /\ nread[Cl(c)] \in Nat
          /\ nread[Sv(c, 1)] <= d /\ nread[Sv(c, 1)] \in Nat
      BY <2>1, <3>3, ReadFacts, TypeFacts, ObjectFacts DEF Limit
    <3>6. \A k \in DOMAIN w : w[k] \in Data
      <4>1. DOMAIN w = 1 .. Len(w) /\ Len(w) \in Nat
        OBVIOUS
      <4>2. CASE o.end = "F"
        <5>1. o = Cl(c)
          BY <3>2, <4>2, ObjectFacts
        <5>2. Len(w) <= nread[Sv(c, 1)] /\ \A k \in DOMAIN w : w[k] = <<1, k>>
          BY <3>2, <5>1, WrittenFacts
        <5>3. \A k \in DOMAIN w : k \in 1 .. u + d
          BY <3>5, <4>1, <5>2
        <5> QED
          BY <3>4, <5>2, <5>3
      <4>3. CASE o.end = "R"
        <5>1. PICK g \in Gens("R", c) : o = Sv(c, g)
          BY <3>2, <4>3, ObjectFacts
        <5>2. PICK base \in [Nat -> Nat] :
                /\ base[NUp[c] + 1] <= nread[Cl(c)]
                /\ \A h \in Gens("R", c) :
                     /\ base[h + 1] = base[h] + Len(written[Sv(c, h)]) /\ base[h + 1] <= base[NUp[c] + 1]
                     /\ \A k \in DOMAIN written[Sv(c, h)] : written[Sv(c, h)][k] = <<1, base[h] + k>>
          BY WrittenFacts
        <5>3. /\ base[g + 1] = base[g] + Len(w) /\ base[g + 1] <= base[NUp[c] + 1]
              /\ \A k \in DOMAIN w : w[k] = <<1, base[g] + k>>
          BY <3>2, <5>1, <5>2
        <5>4. PICK l \in Nat, h \in Nat, t \in Nat : l = base[g] /\ h = base[g + 1] /\ t = base[NUp[c] + 1]
          <6>1. g \in Nat /\ g + 1 \in Nat
            BY GenBounds
          <6>2. u + 1 \in Nat
            OBVIOUS
          <6>3. base[g] \in Nat /\ base[g + 1] \in Nat /\ base[u + 1] \in Nat
            BY <6>1, <6>2
          <6> QED
            BY <3>3, <6>3
        <5>5. h <= u /\ h = l + Len(w)
          <6>1. h <= t /\ h = l + Len(w)
            BY <5>3, <5>4
          <6>2. PICK v \in Nat : v = nread[Cl(c)]
            BY <3>5
          <6>3. t <= v /\ v <= u
            BY <3>5, <5>2, <5>4, <6>2
          <6>4. h <= u
            BY <6>1, <6>3
          <6> QED
            BY <6>1, <6>4
        <5>6. \A k \in DOMAIN w : l + k \in 1 .. u + d
          <6>1. PICK n \in Nat : n = Len(w) /\ DOMAIN w = 1 .. n
            BY <4>1
          <6>2. \A k \in 1 .. n : l + k \in 1 .. u + d
            BY <5>5, <6>1
          <6> QED
            BY <6>1, <6>2
        <5>7. \A k \in DOMAIN w : w[k] = <<1, l + k>>
          BY <5>3, <5>4
        <5>8. ASSUME NEW k \in DOMAIN w PROVE w[k] \in Data
          <6>1. PICK j : j = l + k
            OBVIOUS
          <6>2. w[k] = <<1, j>> /\ j \in 1 .. u + d
            BY <5>6, <5>7, <6>1
          <6> QED
            BY <3>4, <6>2
        <5> QED
          BY <5>8
      <4> QED
        BY <4>2, <4>3, ObjectFacts, EndFacts
    <3>7. w \in Seq(Data)
      <4>1. w \in [1 .. Len(w) -> Data] /\ Len(w) \in Nat
        BY <3>6
      <4> QED
        BY <4>1, SeqDef
    <3> QED
      BY <3>1, <3>2, <3>7
  <2>3. ASSUME NEW e \in Ends, NEW c \in Channels, pool[e][c] # 0
        PROVE  pool[e][c] \in Gens(e, c) /\ phase[Tcp(e, c, pool[e][c])] # "none"
    <3>1. PICK n \in Nat : GensOK(c, n)
      BY DEF IInv, ChannelOK, ChannelOf
    <3>2. CASE e = "F"
      <4>1. pool["F"][c] = 1 /\ phase[Cl(c)] # "none"
        BY <2>3, <3>1, <3>2 DEF GensOK
      <4> QED
        BY <3>2, <4>1, ObjectFacts DEF Cl
    <3>3. CASE e = "R"
      <4>1. pool["R"][c] = n /\ n > 0
        BY <2>3, <3>1, <3>3 DEF GensOK
      <4>2. n \in Gens("R", c) /\ n <= n
        BY <3>1, <4>1, LastIsGen
      <4>3. phase[Sv(c, n)] # "none"
        BY <3>1, <4>2 DEF GensOK
      <4> QED
        BY <3>3, <4>1, <4>2, <4>3 DEF Sv
    <3> QED
      BY <3>2, <3>3, EndFacts
  <2>4. \A e \in Ends : /\ Len(queue[e]) <= Cap
                        /\ rx[e].at \in {"idle", "write", "close", "mark", "delete"}
    BY <2>1, RxFacts DEF Types
  <2>5. \A o \in Objects : nread[o] \in 0 .. Limit(o) /\ written[o] \in Seq(Data)
    BY <2>2
  <2>6. \A e \in Ends, c \in Channels :
          pool[e][c] # 0 => pool[e][c] \in Gens(e, c) /\ phase[Tcp(e, c, pool[e][c])] # "none"
    BY <2>3
  <2>7. phase \in [Objects -> {"none", "read", "send", "defer", "panic", "check", "notify",
                               "exist", "delete", "done"}]
    BY <2>1 DEF Types, Phases
  <2>8. closed \subseteq Objects /\ byRemote \subseteq closed /\ gone \cup stuck \subseteq Objects
        /\ up \subseteq Ends /\ shut \subseteq Ends \ up
    BY <2>1 DEF Types
  <2> QED
    BY <2>4, <2>5, <2>6, <2>7, <2>8 DEF TypeOK, BeatsOK
<1>2. Init => BeatsOK
  <2>1. 0 \in 0 .. MaxPings
    BY LimitAssumption
  <2> QED
    BY <2>1 DEF Init, BeatsOK
<1>3. IInv /\ BeatsOK /\ [Next]_vars => BeatsOK'
  <2>1. ASSUME BeatsOK, UNCHANGED vars PROVE BeatsOK'
    BY <2>1 DEF vars, beats, BeatsOK
  <2> QED
    BY <2>1, BeatsTyped DEF IInv
<1> QED
  BY <1>1, <1>2, <1>3, Invariance, PTL DEF Spec

-------------------------------------------------------------------------------
\* Why a connection is closed.

\* An application at end e has closed its connection of channel c.
Caused(e, c) == \E p \in gone : p.ch = c /\ p.end = e

\* While the link is up, every close there is on the way from one application to the other
\* can be traced to the application it began with: the close itself, the goroutine that has
\* read its end, the notice in a queue, and the notice the receive loop has in hand.
Traced ==
  /\ \A o \in closed : o \in gone \/ Caused(Other(o.end), o.ch)
  /\ \A o \in Objects : phase[o] \in {"defer", "check", "notify"} => o \in gone
  /\ \A e \in Ends, c \in Channels : Has(queue[e], c) => Caused(e, c)
  /\ \A e \in Ends : rx[e].at = "close" => Caused(Other(e), rx[e].obj.ch)

CauseOK == up = Ends => Traced

\* What makes a goroutine, a queue, a receive loop or a closed connection one of those.
LEMMA PhaseCause ==
  ASSUME IInv, Next, NEW o \in Objects, phase'[o] \in {"defer", "check", "notify"}
  PROVE  o \in gone \/ phase[o] \in {"defer", "check", "notify"}
<1>1. Types /\ DOMAIN phase = Objects
  BY TypeFacts DEF IInv
<1>2. \A q, p : Goto(q, p) => phase'[o] = phase[o] \/ (o = q /\ phase'[o] = p)
  BY <1>1 DEF Goto
<1>3. ASSUME NEW c \in Channels, Accept(c) PROVE phase'[o] = phase[o] \/ phase'[o] = "read"
  <2>1. Goto(Tcp("F", c, 1), "read")
    BY <1>3 DEF Accept
  <2> QED
    BY <1>2, <2>1
<1>4. ASSUME NEW q \in Objects, ReadChunk(q) \/ ServeChannel(q) \/ Leave(q) \/ Stall(q)
      PROVE  o \in gone \/ phase[o] \in {"defer", "check", "notify"}
  <2>1. CASE ReadChunk(q)
    BY <1>2, <2>1 DEF ReadChunk
  <2>2. CASE ReadError(q)
    BY <1>2, <2>2 DEF ReadError
  <2>3. CASE SendChunk(q)
    BY <1>2, <2>3 DEF SendChunk
  <2>4. CASE DeferredClose(q)
    <3>1. phase[q] = "defer" \/ (phase[q] = "panic" /\ Goto(q, "exist"))
      BY <2>4 DEF DeferredClose
    <3>2. \E p : Goto(q, p)
      BY <2>4 DEF DeferredClose
    <3> QED
      BY <1>2, <3>1, <3>2
  <2>5. CASE Check(q)
    BY <1>2, <2>5 DEF Check
  <2>6. CASE Notify(q)
    BY <1>2, <2>6 DEF Notify
  <2>7. CASE Exist(q)
    <3>1. Goto(q, "done") \/ Goto(q, "delete")
      BY <2>7 DEF Exist
    <3> QED
      BY <1>2, <3>1
  <2>8. CASE DeleteSelf(q)
    BY <1>2, <2>8 DEF DeleteSelf
  <2>9. CASE Leave(q) \/ Stall(q)
    BY <2>9 DEF Leave, Stall
  <2> QED
    BY <1>4, <2>1, <2>2, <2>3, <2>4, <2>5, <2>6, <2>7, <2>8, <2>9 DEF ServeChannel
<1>5. ASSUME NEW e \in Ends, Recv(e) \/ PeerLost(e) \/ CloseLink(e)
      PROVE  phase'[o] = phase[o] \/ phase'[o] = "read"
  <2>1. CASE Receive(e)
    <3> DEFINE m == Head(queue[Other(e)])
    <3>1. ReceiveUnknown(e, m) \/ ReceiveKnown(e, m) \/ ReceiveClose(e, m) \/ ReceivePing(e, m)
      BY <2>1 DEF Receive
    <3> HIDE DEF m
    <3>2. Goto(Tcp(e, m.ch, Opened(m.ch)), "read") \/ UNCHANGED phase
      BY <3>1 DEF ReceiveUnknown, ReceiveKnown, ReceiveClose, ReceivePing, Served
    <3> QED
      BY <1>2, <3>2
  <2>2. CASE WriteChunk(e) \/ HandleChannelClose(e) \/ PeerLost(e) \/ CloseLink(e)
    BY <2>2 DEF WriteChunk, HandleChannelClose, PeerLost, CloseLink
  <2> QED
    BY <1>5, <2>1, <2>2 DEF Recv
<1>6. ASSUME NEW e \in Ends, Reply(e) \/ Keepalive(e) PROVE phase'[o] = phase[o]
  BY <1>6, BeatFacts
<1> QED
  BY <1>3, <1>4, <1>5, <1>6 DEF Next

LEMMA CloseCause ==
  ASSUME IInv, Next, NEW o \in closed'
  PROVE  \/ o \in closed
         \/ o \in Objects /\ phase[o] \in {"defer", "panic"}
         \/ \E e \in Ends : rx[e].at = "close" /\ o = rx[e].obj
<1>1. ASSUME NEW c \in Channels, Accept(c) PROVE o \in closed
  BY <1>1 DEF Accept
<1>2. ASSUME NEW q \in Objects, ReadChunk(q) \/ ServeChannel(q) \/ Leave(q) \/ Stall(q)
      PROVE  o \in closed \/ (o \in Objects /\ phase[o] \in {"defer", "panic"})
  <2>1. CASE DeferredClose(q)
    BY <2>1 DEF DeferredClose
  <2>2. CASE ReadChunk(q) \/ ReadError(q) \/ SendChunk(q) \/ Check(q) \/ Notify(q) \/ Exist(q)
             \/ DeleteSelf(q) \/ Leave(q) \/ Stall(q)
    BY <2>2 DEF ReadChunk, ReadError, SendChunk, Check, Notify, Exist, DeleteSelf, Leave, Stall
  <2> QED
    BY <1>2, <2>1, <2>2 DEF ServeChannel
<1>3. ASSUME NEW e \in Ends, Recv(e) \/ PeerLost(e) \/ CloseLink(e)
      PROVE  o \in closed \/ (rx[e].at = "close" /\ o = rx[e].obj)
  <2>1. CASE HandleChannelClose(e)
    BY <2>1 DEF HandleChannelClose
  <2>2. CASE Receive(e) \/ WriteChunk(e) \/ PeerLost(e) \/ CloseLink(e)
    BY <2>2 DEF Receive, WriteChunk, PeerLost, CloseLink
  <2> QED
    BY <1>3, <2>1, <2>2 DEF Recv
<1>4. ASSUME NEW e \in Ends, Reply(e) \/ Keepalive(e) PROVE o \in closed
  BY <1>4, BeatFacts
<1> QED
  BY <1>1, <1>2, <1>3, <1>4 DEF Next

LEMMA NoticeCause ==
  ASSUME IInv, Next, NEW e \in Ends, NEW c \in Channels, Has(queue'[e], c)
  PROVE  \/ Has(queue[e], c)
         \/ \E o \in Objects : phase[o] = "notify" /\ o.end = e /\ o.ch = c
<1>1. Types /\ queue[e] \in Seq(Messages) /\ queue \in [Ends -> Seq(Messages)]
  BY TypeFacts DEF IInv, Types
<1>2. ASSUME NEW d \in Ends, NEW m, Put(d, m)
      PROVE  Has(queue[e], c) \/ (d = e /\ m = ChannelClose(c))
  <2>1. queue'[e] = queue[e] \/ (d = e /\ queue'[e] = Append(queue[e], m))
    BY <1>1, <1>2 DEF Put
  <2>2. CASE queue'[e] = queue[e]
    BY <2>2
  <2>3. CASE d = e /\ queue'[e] = Append(queue[e], m)
    <3>1. PICK i \in DOMAIN Append(queue[e], m) : Append(queue[e], m)[i] = ChannelClose(c)
      BY <2>3 DEF Has
    <3>2. /\ DOMAIN Append(queue[e], m) = 1 .. Len(queue[e]) + 1 /\ DOMAIN queue[e] = 1 .. Len(queue[e])
          /\ Append(queue[e], m)[Len(queue[e]) + 1] = m /\ Len(queue[e]) \in Nat
          /\ \A k \in 1 .. Len(queue[e]) : Append(queue[e], m)[k] = queue[e][k]
      BY <1>1
    <3>3. i \in DOMAIN queue[e] \/ i = Len(queue[e]) + 1
      BY <3>1, <3>2
    <3>4. CASE i \in DOMAIN queue[e]
      <4>1. queue[e][i] = ChannelClose(c)
        BY <3>1, <3>2, <3>4
      <4> QED
        BY <3>4, <4>1 DEF Has
    <3>5. CASE i = Len(queue[e]) + 1
      BY <2>3, <3>1, <3>2, <3>5
    <3> QED
      BY <3>3, <3>4, <3>5
  <2> QED
    BY <2>1, <2>2, <2>3
<1>3. ASSUME NEW d \in Channels, Accept(d) PROVE Has(queue[e], c)
  BY <1>3 DEF Accept
<1>4. ASSUME NEW o \in Objects, ReadChunk(o) \/ ServeChannel(o) \/ Leave(o) \/ Stall(o)
      PROVE  Has(queue[e], c) \/ (phase[o] = "notify" /\ o.end = e /\ o.ch = c)
  <2>0. o.end \in Ends /\ o.ch \in Channels
    BY ObjectFacts
  <2>1. CASE SendChunk(o)
    <3>1. UNCHANGED queue \/ Put(o.end, Forward(o.ch, o, nread[o]))
      BY <2>1 DEF SendChunk
    <3>2. Forward(o.ch, o, nread[o]) # ChannelClose(c)
      <4>1. Forward(o.ch, o, nread[o]).type = "forward" /\ ChannelClose(c).type = "close"
        BY DEF Forward, ChannelClose
      <4> QED
        BY <4>1
    <3> QED
      BY <1>2, <2>0, <3>1, <3>2
  <2>2. CASE Notify(o)
    <3>1. (UNCHANGED queue \/ Put(o.end, ChannelClose(o.ch))) /\ phase[o] = "notify"
      BY <2>2 DEF Notify
    <3>2. ChannelClose(o.ch) = ChannelClose(c) => o.ch = c
      BY MessageFacts
    <3> QED
      BY <1>2, <2>0, <3>1, <3>2
  <2>3. CASE ReadChunk(o) \/ ReadError(o) \/ DeferredClose(o) \/ Check(o) \/ Exist(o)
             \/ DeleteSelf(o) \/ Leave(o) \/ Stall(o)
    BY <2>3 DEF ReadChunk, ReadError, DeferredClose, Check, Exist, DeleteSelf, Leave, Stall
  <2> QED
    BY <1>4, <2>1, <2>2, <2>3 DEF ServeChannel
<1>5. ASSUME NEW d \in Ends, Recv(d) \/ PeerLost(d) \/ CloseLink(d)
      PROVE  Has(queue[e], c)
  <2>1. CASE Receive(d)
    <3>1. queue[Other(d)] # <<>> /\ queue' = [queue EXCEPT ![Other(d)] = Tail(@)]
      BY <2>1 DEF Receive
    <3>2. queue'[e] = queue[e] \/ (queue[e] # <<>> /\ queue'[e] = Tail(queue[e]))
      BY <1>1, <3>1
    <3>3. CASE queue[e] # <<>> /\ queue'[e] = Tail(queue[e])
      <4>1. PICK i \in DOMAIN Tail(queue[e]) : Tail(queue[e])[i] = ChannelClose(c)
        BY <3>3 DEF Has
      <4>2. i + 1 \in DOMAIN queue[e] /\ Tail(queue[e])[i] = queue[e][i + 1]
        BY <1>1, <3>3, <4>1
      <4> QED
        BY <4>1, <4>2 DEF Has
    <3> QED
      BY <3>2, <3>3
  <2>2. CASE WriteChunk(d) \/ HandleChannelClose(d) \/ PeerLost(d) \/ CloseLink(d)
    BY <2>2 DEF WriteChunk, HandleChannelClose, PeerLost, CloseLink
  <2> QED
    BY <1>5, <2>1, <2>2 DEF Recv
<1>6. ASSUME NEW d \in Ends, Reply(d) \/ Keepalive(d) PROVE Has(queue[e], c)
  <2>1. UNCHANGED queue \/ \E m \in Beats : Put(d, m)
    BY <1>6, BeatFacts
  <2>2. \A m \in Beats : m # ChannelClose(c)
    <3>1. \A m \in Beats : m.type # ChannelClose(c).type
      BY DEF Beats, PingRequest, PingResponse, ChannelClose
    <3> QED
      BY <3>1
  <2> QED
    BY <1>2, <2>1, <2>2
<1> QED
  BY <1>3, <1>4, <1>5, <1>6 DEF Next

LEMMA HandledCause ==
  ASSUME IInv, Next, NEW e \in Ends, rx'[e].at = "close"
  PROVE  \/ rx[e].at = "close" /\ rx'[e].obj.ch = rx[e].obj.ch
         \/ rx'[e].obj.ch \in Channels /\ Has(queue[Other(e)], rx'[e].obj.ch)
<1>1. Types /\ DOMAIN rx = Ends
  BY RxFacts DEF IInv
<1>2. \A d, x : rx' = [rx EXCEPT ![d] = x] => rx'[e] = rx[e] \/ (d = e /\ rx'[e] = x)
  BY <1>1
<1>3. CASE rx'[e] = rx[e]
  BY <1>3
<1>4. CASE rx'[e] # rx[e]
  <2>1. PICK d \in Ends : Recv(d)
    <3>1. ASSUME NEW c \in Channels, Accept(c) PROVE FALSE
      BY <1>4, <3>1 DEF Accept
    <3>2. ASSUME NEW o \in Objects, ReadChunk(o) \/ ServeChannel(o) \/ Leave(o) \/ Stall(o) PROVE FALSE
      BY <1>4, <3>2 DEF ReadChunk, ServeChannel, ReadError, SendChunk, DeferredClose, Check, Notify,
         Exist, DeleteSelf, Leave, Stall
    <3>3. ASSUME NEW d \in Ends, PeerLost(d) \/ CloseLink(d) PROVE FALSE
      BY <1>4, <3>3 DEF PeerLost, CloseLink
    <3>4. ASSUME NEW d \in Ends, Reply(d) \/ Keepalive(d) PROVE FALSE
      BY <1>4, <3>4, BeatFacts
    <3> QED
      BY <3>1, <3>2, <3>3, <3>4 DEF Next
  <2>2. CASE Receive(d)
    <3> DEFINE m == Head(queue[Other(d)])
    <3>1. /\ queue[Other(d)] # <<>>
          /\ ReceiveUnknown(d, m) \/ ReceiveKnown(d, m) \/ ReceiveClose(d, m) \/ ReceivePing(d, m)
      BY <2>2 DEF Receive
    <3>2. m \in Messages /\ (m.type = "close" => m.ch \in Channels)
      BY <1>1, <3>1, HeadFacts
    <3>3. m.type = "close" => Has(queue[Other(d)], m.ch)
      <4>1. m.type = "close" => m = ChannelClose(m.ch)
        BY <3>2, MessageFacts
      <4>2. queue[Other(d)] \in Seq(Messages)
        BY <1>1, TypeFacts, EndFacts
      <4>3. 1 \in DOMAIN queue[Other(d)] /\ queue[Other(d)][1] = m
        BY <3>1, <4>2
      <4> QED
        BY <4>1, <4>3 DEF Has
    <3> HIDE DEF m
    <3>4. CASE ReceiveUnknown(d, m) \/ ReceiveKnown(d, m)
      <4>1. rx' = rx \/ \E x, o : rx' = [rx EXCEPT ![o.end] = Writing(o, x)]
        BY <3>4 DEF ReceiveUnknown, ReceiveKnown, HandleIn, FirstWrite
      <4>2. PICK x, o : rx'[e] = Writing(o, x)
        BY <1>2, <1>4, <4>1
      <4> QED
        BY <4>2 DEF Writing
    <3>5. CASE ReceiveClose(d, m)
      <4>1. /\ m.type = "close"
            /\ rx' = rx \/ rx' = [rx EXCEPT ![d] = Closing("close", Tcp(d, m.ch, pool[d][m.ch]))]
        BY <3>5 DEF ReceiveClose
      <4>2. d = e /\ rx'[e] = Closing("close", Tcp(d, m.ch, pool[d][m.ch]))
        BY <1>2, <1>4, <4>1
      <4>3. rx'[e].obj.ch = m.ch
        BY <4>2 DEF Closing, Tcp
      <4> QED
        BY <3>2, <3>3, <4>1, <4>2, <4>3
    <3>6. ~ReceivePing(d, m)
      BY <1>4 DEF ReceivePing
    <3> QED
      BY <3>1, <3>4, <3>5, <3>6
  <2>3. CASE WriteChunk(d)
    <3>1. rx' = [rx EXCEPT ![d] = Idle]
      BY <2>3 DEF WriteChunk
    <3>2. rx'[e] = Idle
      BY <1>2, <1>4, <3>1
    <3> QED
      BY <3>2 DEF Idle
  <2>4. CASE HandleChannelClose(d)
    <3>1. \/ rx' = [rx EXCEPT ![d] = Closing("mark", rx[d].obj)]
          \/ rx' = [rx EXCEPT ![d] = Closing("delete", rx[d].obj)]
          \/ rx' = [rx EXCEPT ![d] = Idle]
      BY <2>4 DEF HandleChannelClose
    <3>2. rx'[e] \in {Closing("mark", rx[d].obj), Closing("delete", rx[d].obj), Idle}
      BY <1>2, <1>4, <3>1
    <3> QED
      BY <3>2 DEF Closing, Idle
  <2> QED
    BY <2>1, <2>2, <2>3, <2>4 DEF Recv
<1> QED
  BY <1>3, <1>4

\* The link never comes back, and an application that has left never does.
LEMMA OnlyMore ==
  ASSUME IInv, Next
  PROVE  up' \subseteq up /\ gone \subseteq gone'
<1>1. ASSUME NEW c \in Channels, Accept(c) PROVE up' \subseteq up /\ gone \subseteq gone'
  BY <1>1 DEF Accept
<1>2. ASSUME NEW o \in Objects, ReadChunk(o) \/ ServeChannel(o) \/ Leave(o) \/ Stall(o)
      PROVE  up' \subseteq up /\ gone \subseteq gone'
  BY <1>2 DEF ReadChunk, ServeChannel, ReadError, SendChunk, DeferredClose, Check, Notify, Exist,
     DeleteSelf, Leave, Stall
<1>3. ASSUME NEW e \in Ends, Recv(e) \/ PeerLost(e) \/ CloseLink(e)
      PROVE  up' \subseteq up /\ gone \subseteq gone'
  <2>1. CASE Receive(e)
    <3>1. \E m : ReceiveUnknown(e, m) \/ ReceiveKnown(e, m) \/ ReceiveClose(e, m) \/ ReceivePing(e, m)
      BY <2>1 DEF Receive
    <3> QED
      BY <2>1, <3>1 DEF Receive, ReceiveUnknown, ReceiveKnown, ReceiveClose, ReceivePing
  <2>2. CASE WriteChunk(e) \/ HandleChannelClose(e) \/ PeerLost(e) \/ CloseLink(e)
    BY <2>2 DEF WriteChunk, HandleChannelClose, PeerLost, CloseLink
  <2> QED
    BY <1>3, <2>1, <2>2 DEF Recv
<1>4. ASSUME NEW e \in Ends, Reply(e) \/ Keepalive(e) PROVE up' \subseteq up /\ gone \subseteq gone'
  BY <1>4, BeatFacts
<1> QED
  BY <1>1, <1>2, <1>3, <1>4 DEF Next

LEMMA TracedStep ==
  ASSUME IInv, CauseOK, Next, up' = Ends
  PROVE  Traced'
<1>1. up = Ends /\ shut = {} /\ Types /\ EachOK
  BY OnlyMore DEF IInv, Types
<1>2. Traced
  BY <1>1 DEF CauseOK
<1>3. gone \subseteq gone' /\ \A e, c : Caused(e, c) => Caused(e, c)'
  <2>1. gone \subseteq gone'
    BY OnlyMore
  <2> QED
    BY <2>1 DEF Caused
<1>4. ASSUME NEW o \in closed' PROVE o \in gone' \/ Caused(Other(o.end), o.ch)'
  <2>1. CASE o \in closed
    BY <1>2, <1>3, <2>1 DEF Traced
  <2>2. CASE o \in Objects /\ phase[o] \in {"defer", "panic"}
    <3>1. phase[o] # "panic"
      BY <1>1, <2>2 DEF EachOK
    <3> QED
      BY <1>2, <1>3, <2>2, <3>1 DEF Traced
  <2>3. ASSUME NEW e \in Ends, rx[e].at = "close", o = rx[e].obj PROVE Caused(Other(o.end), o.ch)'
    <3>1. o.end = e
      BY <1>1, <2>3 DEF EachOK
    <3>2. Caused(Other(e), o.ch)
      BY <1>2, <2>3 DEF Traced
    <3> QED
      BY <1>3, <3>1, <3>2
  <2> QED
    BY <2>1, <2>2, <2>3, CloseCause
<1>5. ASSUME NEW o \in Objects, phase'[o] \in {"defer", "check", "notify"} PROVE o \in gone'
  BY <1>2, <1>3, <1>5, PhaseCause DEF Traced
<1>6. ASSUME NEW e \in Ends, NEW c \in Channels, Has(queue'[e], c) PROVE Caused(e, c)'
  <2>1. CASE Has(queue[e], c)
    BY <1>2, <1>3, <2>1 DEF Traced
  <2>2. ASSUME NEW o \in Objects, phase[o] = "notify", o.end = e, o.ch = c PROVE Caused(e, c)
    BY <1>2, <2>2 DEF Traced, Caused
  <2> QED
    BY <1>3, <1>6, <2>1, <2>2, NoticeCause
<1>7. ASSUME NEW e \in Ends, rx'[e].at = "close"
      PROVE  \E p \in gone' : p.ch = rx'[e].obj.ch /\ p.end = Other(e)
  <2>1. CASE rx[e].at = "close" /\ rx'[e].obj.ch = rx[e].obj.ch
    <3>1. Caused(Other(e), rx'[e].obj.ch)
      BY <1>2, <2>1 DEF Traced
    <3> QED
      BY OnlyMore, <3>1 DEF Caused
  <2>2. CASE rx'[e].obj.ch \in Channels /\ Has(queue[Other(e)], rx'[e].obj.ch)
    <3>1. Other(e) \in Ends
      BY EndFacts
    <3>2. Caused(Other(e), rx'[e].obj.ch)
      BY <1>2, <2>2, <3>1 DEF Traced
    <3> QED
      BY OnlyMore, <3>2 DEF Caused
  <2> QED
    BY <1>7, <2>1, <2>2, HandledCause
<1> QED
  BY <1>4, <1>5, <1>6, <1>7 DEF Traced, Caused

\* While the link is up nothing is closed without an application that wanted it: the close
\* of a channel at one end never makes the other end send a close of its own, which would
\* hit the next connection under the id.
THEOREM ClosesAreCaused == Spec => []ClosesHaveCause
<1>1. Init => CauseOK
  <2> SUFFICES ASSUME Init PROVE Traced
    BY DEF CauseOK
  <2>1. \A o \in Objects : phase[o] = "none"
    BY DEF Init
  <2>2. closed = {} /\ \A e \in Ends : rx[e].at = "idle"
    BY DEF Init, Idle
  <2>3. \A e \in Ends, c \in Channels : ~Has(queue[e], c)
    <3>1. \A e \in Ends : queue[e] = <<>>
      BY DEF Init
    <3>2. DOMAIN (<<>>) = {}
      OBVIOUS
    <3> QED
      BY <3>1, <3>2 DEF Has
  <2> QED
    BY <2>1, <2>2, <2>3 DEF Traced
<1>2. IInv /\ CauseOK /\ [Next]_vars => CauseOK'
  <2>1. ASSUME IInv, CauseOK, UNCHANGED vars PROVE CauseOK'
    BY <2>1 DEF vars, CauseOK, Traced, Caused
  <2>2. ASSUME IInv, CauseOK, Next PROVE CauseOK'
    BY <2>2, TracedStep DEF CauseOK
  <2> QED
    BY <2>1, <2>2
<1>3. IInv /\ CauseOK => ClosesHaveCause
  <2> SUFFICES ASSUME IInv, Traced, NEW o \in closed
               PROVE  \E p \in gone : p = o \/ (p.ch = o.ch /\ p.end # o.end)
    BY DEF CauseOK, ClosesHaveCause
  <2>1. o \in Objects /\ Other(o.end) # o.end
    BY ObjectFacts, EndFacts DEF IInv, Types
  <2> QED
    BY <2>1 DEF Traced, Caused
<1> QED
  BY <1>1, <1>2, <1>3, Invariance, PTL DEF Spec

================================================================================
