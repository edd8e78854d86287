---------------------------- MODULE FramingProofs ----------------------------
(***************************************************************************)
(* Proofs about Framing, for every message, every size of a byte and every *)
(* way in which the stream may be cut into what its Reads return.          *)
(***************************************************************************)
EXTENDS MCLink, WellFoundedInduction, SequenceTheorems, TLAPS

Streams == Seq(Seq(Bytes))
Wants   == Nat \X Streams
Results == [ok : BOOLEAN, data : Seq(Bytes), rest : Streams]

LEMMA LeastNumber ==
  ASSUME NEW S \in SUBSET Nat, S # {}
  PROVE  \E k \in S : \A j \in S : k <= j
<1>1. IsWellFoundedOn(OpToRel(<, Nat), Nat)
  BY NatLessThanWellFounded
<1>2. PICK k \in S : \A j \in S : ~(<<j, k>> \in OpToRel(<, Nat))
  BY <1>1, WFMin
<1>3. \A j \in S : ~(j < k)
  BY <1>2 DEF OpToRel
<1> QED
  BY <1>3

-------------------------------------------------------------------------------
\* MustRecv is defined by recursion.  That there is a function as its definition says:
\* the Reads become fewer, or nothing is wanted any more.

Prefixed(head, more) == [more EXCEPT !.data = head \o @]

\* One Read, when what the others return is f.
Rest(w)    == <<w[1] - Read(w[1], w[2]), Unread(w[1], w[2])>>
Step(f, w) ==
  IF w[1] = 0 THEN [ok |-> TRUE, data |-> <<>>, rest |-> w[2]]
  ELSE IF w[2] = <<>> THEN Failed
  ELSE Prefixed(SubSeq(Head(w[2]), 1, Read(w[1], w[2])), f[Rest(w)])

\* More than the Reads there can be.
Level(w) == IF w[1] = 0 THEN 0 ELSE Len(w[2]) + 1

LEMMA PrefixedFacts ==
  ASSUME NEW head \in Seq(Bytes), NEW more \in Results
  PROVE  /\ Prefixed(head, more) \in Results
         /\ Prefixed(head, more).ok = more.ok /\ Prefixed(head, more).rest = more.rest
         /\ Prefixed(head, more).data = head \o more.data
<1>1. head \o more.data \in Seq(Bytes)
  BY ConcatProperties DEF Results
<1> QED
  BY <1>1 DEF Prefixed, Results

LEMMA WantFacts ==
  ASSUME NEW n \in Nat, NEW chunks \in Streams
  PROVE  /\ <<n, chunks>> \in Wants /\ <<n, chunks>>[1] = n /\ <<n, chunks>>[2] = chunks
         /\ Len(chunks) \in Nat
BY LenProperties DEF Wants, Streams

\* One Read of n bytes takes a chunk, or n bytes of it and is the last one.
LEMMA ReadFacts ==
  ASSUME NEW n \in Nat \ {0}, NEW chunks \in Streams, chunks # <<>>
  PROVE  /\ Head(chunks) \in Seq(Bytes) /\ Len(Head(chunks)) \in Nat /\ Tail(chunks) \in Streams
         /\ Len(Tail(chunks)) = Len(chunks) - 1
         /\ Read(n, chunks) \in 0 .. n /\ Read(n, chunks) \in 0 .. Len(Head(chunks))
         /\ Unread(n, chunks) \in Streams
         /\ Len(Head(chunks)) <= n => /\ Read(n, chunks) = Len(Head(chunks))
                                      /\ Unread(n, chunks) = Tail(chunks)
         /\ Len(Head(chunks)) > n =>
              /\ Read(n, chunks) = n
              /\ Unread(n, chunks) = <<SubSeq(Head(chunks), n + 1, Len(Head(chunks)))>> \o Tail(chunks)
<1>1. PICK c \in Seq(Bytes), t \in Streams : c = Head(chunks) /\ t = Tail(chunks)
  BY HeadTailProperties DEF Streams
<1>2. Len(c) \in Nat /\ Len(t) = Len(chunks) - 1
  BY <1>1, HeadTailProperties, LenProperties DEF Streams
<1>3. PICK r : r = Read(n, chunks)
  OBVIOUS
<1>4. r = IF Len(c) <= n THEN Len(c) ELSE n
  BY <1>1, <1>3 DEF Read
<1>5. r \in 0 .. n /\ r \in 0 .. Len(c)
  BY <1>2, <1>4
<1>6. PICK d : d = SubSeq(c, r + 1, Len(c))
  OBVIOUS
<1>7. d \in Seq(Bytes) /\ Len(d) = Len(c) - r
  <2>1. r + 1 \in Int /\ Len(c) \in Int
    BY <1>2, <1>5
  <2>2. \A i \in r + 1 .. Len(c) : c[i] \in Bytes
    <3> TAKE i \in r + 1 .. Len(c)
    <3>1. i \in 1 .. Len(c)
      BY <1>2, <1>5
    <3> QED
      BY <3>1, ElementOfSeq
  <2> QED
    BY <1>2, <1>5, <1>6, <2>1, <2>2, SubSeqProperties
<1>8. Unread(n, chunks) = (IF d = <<>> THEN <<>> ELSE <<d>>) \o t
  BY <1>1, <1>3, <1>6 DEF Unread
<1>9. CASE Len(c) <= n
  <2>1. r = Len(c) /\ Len(d) = 0
    BY <1>2, <1>4, <1>7, <1>9
  <2>2. d = <<>>
    BY <1>7, <2>1, EmptySeq
  <2>3. Unread(n, chunks) = t
    BY <1>8, <2>2, ConcatEmptySeq DEF Streams
  <2>4. ~(Len(c) > n)
    BY <1>2, <1>9
  <2>5. t \in Streams /\ Read(n, chunks) = Len(c) /\ Read(n, chunks) \in 0 .. n /\ Read(n, chunks) \in 0 .. Len(c)
    BY <1>3, <1>5, <2>1
  <2> QED
    BY <1>1, <1>2, <2>3, <2>4, <2>5
<1>10. CASE ~(Len(c) <= n)
  <2>1. r = n /\ Len(d) # 0 /\ n \in Nat
    BY <1>2, <1>4, <1>7, <1>10
  <2>2. d # <<>>
    BY <2>1, EmptySeq
  <2>3. Unread(n, chunks) = <<d>> \o t
    BY <1>8, <2>2
  <2>4. <<d>> \in Streams
    BY <1>7 DEF Streams
  <2>5. <<d>> \o t \in Streams
    BY <2>4, ConcatProperties DEF Streams
  <2> QED
    BY <1>1, <1>2, <1>3, <1>5, <1>6, <1>10, <2>1, <2>3, <2>5
<1> QED
  BY <1>9, <1>10

LEMMA RestFacts ==
  ASSUME NEW w \in Wants
  PROVE  /\ w[1] \in Nat /\ w[2] \in Streams /\ Level(w) \in Nat
         /\ w[1] # 0 /\ w[2] # <<>> =>
              /\ Rest(w) \in Wants /\ Level(Rest(w)) < Level(w)
              /\ SubSeq(Head(w[2]), 1, Read(w[1], w[2])) \in Seq(Bytes)
<1>1. PICK n \in Nat, chunks \in Streams : n = w[1] /\ chunks = w[2]
  BY DEF Wants
<1>2. Len(chunks) \in Nat
  BY LenProperties DEF Streams
<1>3. Level(w) \in Nat /\ Level(w) = IF n = 0 THEN 0 ELSE Len(chunks) + 1
  BY <1>1, <1>2 DEF Level
<1>4. ASSUME n # 0, chunks # <<>>
      PROVE  /\ Rest(w) \in Wants /\ Level(Rest(w)) < Level(w)
             /\ SubSeq(Head(chunks), 1, Read(n, chunks)) \in Seq(Bytes)
  <2>1. PICK r \in Nat, u \in Streams, c \in Seq(Bytes) :
          r = Read(n, chunks) /\ u = Unread(n, chunks) /\ c = Head(chunks)
    <3>1. /\ Read(n, chunks) \in 0 .. n /\ Unread(n, chunks) \in Streams
          /\ Head(chunks) \in Seq(Bytes)
      BY <1>4, ReadFacts
    <3>2. Read(n, chunks) \in Nat
      BY <3>1
    <3> QED
      BY <3>1, <3>2
  <2>2. /\ r \in 0 .. n /\ r \in 0 .. Len(c) /\ Len(c) \in Nat
        /\ r = n \/ Len(u) = Len(chunks) - 1
    <3>1. r \in 0 .. n /\ r \in 0 .. Len(c) /\ Len(c) \in Nat
      BY <1>4, <2>1, ReadFacts
    <3>2. Len(c) <= n => u = Tail(chunks) /\ Len(Tail(chunks)) = Len(chunks) - 1
      BY <1>4, <2>1, ReadFacts
    <3>3. Len(c) > n => r = n
      BY <1>4, <2>1, ReadFacts
    <3>4. Len(c) <= n \/ Len(c) > n
      BY <3>1
    <3> QED
      BY <3>1, <3>2, <3>3, <3>4
  <2>3. n - r \in Nat
    BY <2>2
  <2>4. Rest(w) = <<n - r, u>>
    BY <1>1, <2>1 DEF Rest
  <2>5. Rest(w) \in Wants /\ Rest(w)[1] = n - r /\ Rest(w)[2] = u
    BY <2>3, <2>4, WantFacts
  <2>6. Level(Rest(w)) = IF n - r = 0 THEN 0 ELSE Len(u) + 1
    BY <2>5 DEF Level
  <2>7. Level(Rest(w)) < Level(w)
    <3>1. CASE r = n
      BY <1>2, <1>3, <1>4, <2>6, <3>1
    <3>2. CASE Len(u) = Len(chunks) - 1
      BY <1>2, <1>3, <1>4, <2>6, <3>2
    <3> QED
      BY <2>2, <3>1, <3>2
  <2>8. SubSeq(c, 1, r) \in Seq(Bytes)
    <3>1. \A i \in 1 .. r : c[i] \in Bytes
      <4> TAKE i \in 1 .. r
      <4>1. i \in 1 .. Len(c)
        BY <2>2
      <4> QED
        BY <4>1, ElementOfSeq
    <3>2. 1 \in Int /\ r \in Int
      OBVIOUS
    <3> QED
      BY <3>1, <3>2, SubSeqProperties
  <2> QED
    BY <2>1, <2>5, <2>7, <2>8
<1> QED
  BY <1>1, <1>3, <1>4

LEMMA StepFacts ==
  ASSUME NEW f \in [Wants -> Results], NEW w \in Wants
  PROVE  Step(f, w) \in Results
<1>1. CASE w[1] = 0
  <2>1. <<>> \in Seq(Bytes) /\ w[2] \in Streams
    BY RestFacts
  <2> QED
    BY <1>1, <2>1 DEF Step, Results
<1>2. CASE w[1] # 0 /\ w[2] = <<>>
  <2>1. <<>> \in Seq(Bytes) /\ <<>> \in Streams
    BY DEF Streams
  <2>2. Failed \in Results
    BY <2>1 DEF Failed, Results
  <2> QED
    BY <1>2, <2>2 DEF Step
<1>3. CASE w[1] # 0 /\ w[2] # <<>>
  <2>1. f[Rest(w)] \in Results
    BY <1>3, RestFacts
  <2>2. Prefixed(SubSeq(Head(w[2]), 1, Read(w[1], w[2])), f[Rest(w)]) \in Results
    BY <1>3, <2>1, RestFacts, PrefixedFacts
  <2> QED
    BY <1>3, <2>2 DEF Step
<1> QED
  BY <1>1, <1>2, <1>3

\* Step looks at f in one place only.
LEMMA StepAgrees ==
  ASSUME NEW f, NEW g, NEW w \in Wants, w[1] # 0 /\ w[2] # <<>> => f[Rest(w)] = g[Rest(w)]
  PROVE  Step(f, w) = Step(g, w)
BY DEF Step

\* f is as the definition says up to a level.
Solves(f, k) ==
  /\ f \in [Wants -> Results]
  /\ \A w \in Wants : Level(w) <= k => f[w] = Step(f, w)

LEMMA SolutionExists == ASSUME NEW k \in Nat PROVE \E f : Solves(f, k)
<1> DEFINE Bad == {j \in Nat : ~(\E f : Solves(f, j))}
<1>1. SUFFICES ASSUME Bad # {} PROVE FALSE
  BY <1>1
<1>2. PICK b \in Bad : \A j \in Bad : b <= j
  <2>1. Bad \in SUBSET Nat
    OBVIOUS
  <2> HIDE DEF Bad
  <2> QED
    BY <1>1, <2>1, LeastNumber
<1>3. b \in Nat /\ ~(\E f : Solves(f, b))
  BY <1>2
\* f is right below b; one more step from it is right at b too.
<1>4. PICK f \in [Wants -> Results] : \A w \in Wants : Level(w) < b => f[w] = Step(f, w)
  <2>1. CASE b = 0
    <3> DEFINE some == [ok |-> FALSE, data |-> <<>>, rest |-> <<>>]
    <3>1. some \in Results
      BY DEF Results, Streams
    <3>2. [w \in Wants |-> some] \in [Wants -> Results]
      BY <3>1
    <3>3. \A w \in Wants : ~(Level(w) < b)
      BY <2>1, RestFacts
    <3> QED
      BY <3>2, <3>3
  <2>2. CASE b # 0
    <3>1. b - 1 \in Nat /\ ~(b <= b - 1)
      BY <1>3, <2>2
    <3>2. PICK f : Solves(f, b - 1)
      BY <1>2, <3>1
    <3>3. \A w \in Wants : Level(w) < b => Level(w) <= b - 1
      BY <1>3, RestFacts
    <3> QED
      BY <3>2, <3>3 DEF Solves
  <2> QED
    BY <2>1, <2>2
<1>5. PICK g : g = [w \in Wants |-> Step(f, w)]
  OBVIOUS
<1>6. g \in [Wants -> Results] /\ \A w \in Wants : g[w] = Step(f, w)
  BY <1>5, StepFacts
<1>7. ASSUME NEW w \in Wants, Level(w) <= b
      PROVE  g[w] = Step(g, w)
  <2>1. ASSUME w[1] # 0 /\ w[2] # <<>>
        PROVE  f[Rest(w)] = g[Rest(w)]
    <3>1. Rest(w) \in Wants /\ Level(Rest(w)) < Level(w) /\ Level(w) \in Nat
      BY <2>1, RestFacts
    <3>2. Level(Rest(w)) \in Nat
      BY <3>1, RestFacts
    <3>3. Level(Rest(w)) < b
      BY <1>3, <1>7, <3>1, <3>2
    <3> QED
      BY <1>4, <1>6, <3>1, <3>3
  <2>2. Step(f, w) = Step(g, w)
    BY <2>1, StepAgrees
  <2> QED
    BY <1>6, <2>2
<1>8. Solves(g, b)
  BY <1>6, <1>7 DEF Solves
<1> QED
  BY <1>3, <1>8

LEMMA SolutionUnique ==
  ASSUME NEW k \in Nat, NEW l \in Nat, NEW f, NEW g, Solves(f, k), Solves(g, l),
         NEW v \in Wants, Level(v) <= k, Level(v) <= l
  PROVE  f[v] = g[v]
<1> DEFINE Bad == {j \in Nat : \E w \in Wants : /\ Level(w) = j /\ f[w] # g[w]
                                                /\ Level(w) <= k /\ Level(w) <= l}
<1>1. SUFFICES ASSUME Bad # {} PROVE FALSE
  <2>1. Level(v) \in Nat
    BY RestFacts
  <2> QED
    BY <1>1, <2>1
<1>2. PICK b \in Bad : \A j \in Bad : b <= j
  <2>1. Bad \in SUBSET Nat
    OBVIOUS
  <2> HIDE DEF Bad
  <2> QED
    BY <1>1, <2>1, LeastNumber
<1>3. PICK w \in Wants : Level(w) = b /\ f[w] # g[w] /\ b <= k /\ b <= l
  BY <1>2
<1>4. b \in Nat
  BY <1>2
<1>5. ASSUME w[1] # 0 /\ w[2] # <<>>
      PROVE  f[Rest(w)] = g[Rest(w)]
  <2>1. Rest(w) \in Wants /\ Level(Rest(w)) < b
    BY <1>3, <1>5, RestFacts
  <2>2. PICK j \in Nat : j = Level(Rest(w))
    BY <2>1, RestFacts
  <2>3. j < b /\ ~(b <= j) /\ j <= k /\ j <= l
    BY <1>3, <1>4, <2>1, <2>2
  <2>4. j \notin Bad
    BY <1>2, <2>3
  <2> QED
    BY <2>1, <2>2, <2>3, <2>4
<1>6. Step(f, w) = Step(g, w)
  BY <1>5, StepAgrees
<1>7. f[w] = Step(f, w) /\ g[w] = Step(g, w)
  BY <1>3 DEF Solves
<1> QED
  BY <1>3, <1>6, <1>7

\* The equation that defines MustRecv.
LEMMA MustRecvDef ==
  /\ MustRecv \in [Wants -> Results]
  /\ \A w \in Wants : MustRecv[w] = Step(MustRecv, w)
<1> DEFINE sol(k) == CHOOSE f : Solves(f, k)
<1>1. \A k \in Nat : Solves(sol(k), k)
  BY SolutionExists
<1> HIDE DEF sol
<1>2. PICK g : g = [w \in Wants |-> sol(Level(w))[w]]
  OBVIOUS
<1>3. \A w \in Wants : g[w] = sol(Level(w))[w] /\ g[w] \in Results
  BY <1>1, <1>2, RestFacts DEF Solves
<1>4. ASSUME NEW w \in Wants PROVE g[w] = Step(g, w)
  <2>1. PICK k \in Nat : k = Level(w)
    BY RestFacts
  <2>2. g[w] = sol(k)[w] /\ Solves(sol(k), k)
    BY <1>1, <1>3, <2>1
  <2>3. sol(k)[w] = Step(sol(k), w)
    BY <2>1, <2>2 DEF Solves
  <2>4. ASSUME w[1] # 0 /\ w[2] # <<>>
        PROVE  sol(k)[Rest(w)] = g[Rest(w)]
    <3>1. Rest(w) \in Wants /\ Level(Rest(w)) < k
      BY <2>1, <2>4, RestFacts
    <3>2. PICK j \in Nat : j = Level(Rest(w))
      BY <3>1, RestFacts
    <3>3. g[Rest(w)] = sol(j)[Rest(w)] /\ Solves(sol(j), j)
      BY <1>1, <1>3, <3>1, <3>2
    <3>4. Level(Rest(w)) <= j /\ Level(Rest(w)) <= k
      BY <3>1, <3>2
    <3> QED
      BY <2>2, <3>1, <3>3, <3>4, SolutionUnique
  <2>5. Step(sol(k), w) = Step(g, w)
    BY <2>4, StepAgrees
  <2> QED
    BY <2>2, <2>3, <2>5
<1>5. g = [w \in Wants |-> Step(g, w)]
  BY <1>2, <1>4
<1>6. MustRecv = [w \in Wants |-> Step(MustRecv, w)]
  <2> DEFINE Eq(f) == f = [w \in Wants |-> Step(f, w)]
  <2>1. MustRecv = CHOOSE f : Eq(f)
    BY DEF MustRecv, Step, Prefixed, Wants, Streams, Rest
  <2>2. Eq(g)
    BY <1>5
  <2>3. Eq(MustRecv)
    <3> HIDE DEF Eq
    <3> QED
      BY <2>1, <2>2
  <2> QED
    BY <2>3
<1>7. \A w \in Wants : MustRecv[w] = Step(MustRecv, w)
  BY <1>6
\* It is g, by the same argument: both are right at every level.
<1>8. \A w \in Wants : MustRecv[w] \in Results
  <2> DEFINE Bad == {j \in Nat : \E w \in Wants : Level(w) = j /\ MustRecv[w] \notin Results}
  <2>1. SUFFICES ASSUME Bad # {} PROVE FALSE
    BY <2>1, RestFacts
  <2>2. PICK b \in Bad : \A j \in Bad : b <= j
    <3>1. Bad \in SUBSET Nat
      OBVIOUS
    <3> HIDE DEF Bad
    <3> QED
      BY <2>1, <3>1, LeastNumber
  <2>3. PICK w \in Wants : Level(w) = b /\ MustRecv[w] \notin Results
    BY <2>2
  <2>4. b \in Nat
    BY <2>2
  <2>5. CASE w[1] # 0 /\ w[2] # <<>>
    <3>1. Rest(w) \in Wants /\ Level(Rest(w)) < b
      BY <2>3, <2>5, RestFacts
    <3>2. PICK j \in Nat : j = Level(Rest(w))
      BY <3>1, RestFacts
    <3>3. j \notin Bad
      BY <2>2, <2>4, <3>1, <3>2
    <3>4. MustRecv[Rest(w)] \in Results
      BY <3>1, <3>2, <3>3
    <3>5. PICK f \in [Wants -> Results] : f[Rest(w)] = MustRecv[Rest(w)]
      <4>1. [v \in Wants |-> MustRecv[Rest(w)]] \in [Wants -> Results]
        BY <3>4
      <4> QED
        BY <3>1, <4>1
    <3>6. Step(f, w) = Step(MustRecv, w)
      BY <3>5, StepAgrees
    <3> QED
      BY <1>7, <2>3, <3>6, StepFacts
  <2>6. CASE ~(w[1] # 0 /\ w[2] # <<>>)
    <3>1. Step(g, w) = Step(MustRecv, w)
      BY <2>6, StepAgrees
    <3> QED
      BY <1>3, <1>4, <1>7, <2>3, <3>1
  <2> QED
    BY <2>5, <2>6
<1> QED
  BY <1>6, <1>7, <1>8

-------------------------------------------------------------------------------
\* Streams and the chunks they are delivered in.

\* The chunks are what a stream s of bytes is cut into: the i-th one is what follows the
\* first pos[i - 1] bytes, up to pos[i].
CutAt(chunks, s, pos) ==
  /\ pos[0] = 0 /\ pos[Len(chunks)] = Len(s)
  /\ \A i, j \in 0 .. Len(chunks) : i <= j => pos[i] <= pos[j]
  /\ \A i \in 1 .. Len(chunks) :
       /\ pos[i] = pos[i - 1] + Len(chunks[i])
       /\ \A k \in 1 .. Len(chunks[i]) : chunks[i][k] = s[pos[i - 1] + k]

Delivers(chunks, s) ==
  /\ chunks \in Streams /\ s \in Seq(Bytes)
  /\ \E pos \in [0 .. Len(chunks) -> Nat] : CutAt(chunks, s, pos)

LEMMA NothingDelivered == Delivers(<<>>, <<>>) /\ \A s : Delivers(<<>>, s) => s = <<>>
<1>1. Len(<<>>) = 0
  OBVIOUS
<1>2. Delivers(<<>>, <<>>)
  <2> DEFINE pos == [i \in 0 .. 0 |-> 0]
  <2>1. pos \in [0 .. 0 -> Nat] /\ pos[0] = 0
    OBVIOUS
  <2>2. <<>> \in Streams /\ <<>> \in Seq(Bytes)
    BY DEF Streams
  <2>3. CutAt(<<>>, <<>>, pos)
    BY <1>1, <2>1 DEF CutAt
  <2> HIDE DEF pos
  <2> QED
    BY <1>1, <2>1, <2>2, <2>3 DEF Delivers
<1>3. ASSUME NEW s, Delivers(<<>>, s) PROVE s = <<>>
  <2>1. s \in Seq(Bytes) /\ Len(s) = 0
    BY <1>1, <1>3 DEF Delivers, CutAt
  <2> QED
    BY <2>1, EmptySeq
<1> QED
  BY <1>2, <1>3

\* The part of a stream that follows its first n bytes.
LEMMA SuffixFacts ==
  ASSUME NEW s \in Seq(Bytes), NEW n \in 0 .. Len(s)
  PROVE  /\ SubSeq(s, n + 1, Len(s)) \in Seq(Bytes)
         /\ Len(SubSeq(s, n + 1, Len(s))) = Len(s) - n
         /\ \A k \in 1 .. Len(s) - n : SubSeq(s, n + 1, Len(s))[k] = s[n + k]
<1>1. Len(s) \in Nat /\ n \in Nat /\ n <= Len(s)
  BY LenProperties
<1>2. PICK l \in Nat : l = Len(s)
  BY <1>1
<1>3. \A i \in n + 1 .. l : s[i] \in Bytes
  <2> TAKE i \in n + 1 .. l
  <2>1. i \in 1 .. Len(s)
    BY <1>1, <1>2
  <2> QED
    BY <2>1, ElementOfSeq
<1>4. n + 1 \in Int /\ l \in Int
  BY <1>1
<1>5. /\ SubSeq(s, n + 1, l) \in Seq(Bytes)
      /\ Len(SubSeq(s, n + 1, l)) = IF n + 1 <= l THEN l - (n + 1) + 1 ELSE 0
      /\ \A i \in 1 .. l - (n + 1) + 1 : SubSeq(s, n + 1, l)[i] = s[n + 1 + i - 1]
  BY <1>3, <1>4, SubSeqProperties
<1>6. PICK t \in Seq(Bytes) : t = SubSeq(s, n + 1, l)
  BY <1>5
<1>7. Len(t) = l - n
  BY <1>1, <1>2, <1>5, <1>6
<1>8. \A k \in 1 .. l - n : t[k] = s[n + k]
  <2> TAKE k \in 1 .. l - n
  <2>1. k \in 1 .. l - (n + 1) + 1 /\ n + 1 + k - 1 = n + k
    BY <1>1
  <2> QED
    BY <1>5, <1>6, <2>1
<1> QED
  BY <1>2, <1>6, <1>7, <1>8

\* And its first n bytes.
LEMMA PrefixFacts ==
  ASSUME NEW s \in Seq(Bytes), NEW n \in 0 .. Len(s)
  PROVE  /\ SubSeq(s, 1, n) \in Seq(Bytes)
         /\ Len(SubSeq(s, 1, n)) = n
         /\ \A k \in 1 .. n : SubSeq(s, 1, n)[k] = s[k]
<1>1. Len(s) \in Nat /\ n \in Nat /\ n <= Len(s)
  BY LenProperties
<1>2. \A i \in 1 .. n : s[i] \in Bytes
  <2> TAKE i \in 1 .. n
  <2>1. i \in 1 .. Len(s)
    BY <1>1
  <2> QED
    BY <2>1, ElementOfSeq
<1>3. 1 \in Int /\ n \in Int
  BY <1>1
<1>4. /\ SubSeq(s, 1, n) \in Seq(Bytes)
      /\ Len(SubSeq(s, 1, n)) = IF 1 <= n THEN n - 1 + 1 ELSE 0
      /\ \A i \in 1 .. n - 1 + 1 : SubSeq(s, 1, n)[i] = s[1 + i - 1]
  BY <1>2, <1>3, SubSeqProperties
<1>5. PICK t \in Seq(Bytes) : t = SubSeq(s, 1, n)
  BY <1>4
<1>6. Len(t) = n
  BY <1>1, <1>4, <1>5
<1>7. \A k \in 1 .. n : t[k] = s[k]
  <2> TAKE k \in 1 .. n
  <2>1. k \in 1 .. n - 1 + 1 /\ 1 + k - 1 = k
    BY <1>1
  <2> QED
    BY <1>4, <1>5, <2>1
<1> QED
  BY <1>5, <1>6, <1>7

\* The first chunk is how the stream begins, and the others deliver what follows.
LEMMA FirstChunk ==
  ASSUME NEW chunks, NEW s, Delivers(chunks, s), chunks # <<>>
  PROVE  /\ Len(Head(chunks)) \in 0 .. Len(s)
         /\ Head(chunks) = SubSeq(s, 1, Len(Head(chunks)))
         /\ Delivers(Tail(chunks), SubSeq(s, Len(Head(chunks)) + 1, Len(s)))
<1>1. chunks \in Streams /\ s \in Seq(Bytes)
  BY DEF Delivers
<1>2. PICK pos \in [0 .. Len(chunks) -> Nat] : CutAt(chunks, s, pos)
  BY DEF Delivers
<1>3. PICK c \in Seq(Bytes), t \in Streams, l \in Nat :
        /\ c = Head(chunks) /\ t = Tail(chunks) /\ l = Len(t) /\ Len(chunks) = l + 1
        /\ \A i \in 1 .. l : t[i] = chunks[i + 1]
  <2>1. /\ Head(chunks) \in Seq(Bytes) /\ Tail(chunks) \in Streams
        /\ Len(Tail(chunks)) = Len(chunks) - 1
        /\ \A i \in 1 .. Len(Tail(chunks)) : Tail(chunks)[i] = chunks[i + 1]
    BY <1>1, HeadTailProperties DEF Streams
  <2>2. Len(chunks) \in Nat /\ Len(Tail(chunks)) \in Nat
    BY <1>1, <2>1, LenProperties DEF Streams
  <2>3. Len(chunks) = Len(Tail(chunks)) + 1
    BY <2>1, <2>2
  <2> QED
    BY <2>1, <2>2, <2>3
<1>4. c = chunks[1]
  BY <1>3
<1>5. PICK p \in Nat : p = Len(c)
  BY <1>3, LenProperties
<1>6. PICK m \in Nat : m = Len(s)
  BY <1>1, LenProperties
<1>7. /\ pos[0] = 0 /\ pos[l + 1] = m
      /\ \A i, j \in 0 .. l + 1 : i <= j => pos[i] <= pos[j]
      /\ \A i \in 1 .. l + 1 :
           /\ pos[i] = pos[i - 1] + Len(chunks[i])
           /\ \A k \in 1 .. Len(chunks[i]) : chunks[i][k] = s[pos[i - 1] + k]
  BY <1>2, <1>3, <1>6 DEF CutAt
<1>8. pos[1] = p /\ p <= m
  <2>1. 1 \in 1 .. l + 1 /\ 1 - 1 = 0 /\ 1 \in 0 .. l + 1 /\ l + 1 \in 0 .. l + 1 /\ 1 <= l + 1
    OBVIOUS
  <2>2. pos[1] = pos[0] + Len(chunks[1])
    BY <1>7, <2>1
  <2>3. pos[1] <= pos[l + 1]
    BY <1>7, <2>1
  <2> QED
    BY <1>4, <1>5, <1>7, <2>2, <2>3
<1>9. c = SubSeq(s, 1, p)
  <2>1. p \in 0 .. Len(s)
    BY <1>6, <1>8
  <2>2. PICK u \in Seq(Bytes) : u = SubSeq(s, 1, p) /\ Len(u) = p /\ \A k \in 1 .. p : u[k] = s[k]
    BY <1>1, <2>1, PrefixFacts
  <2>3. \A k \in 1 .. p : c[k] = s[k]
    <3> TAKE k \in 1 .. p
    <3>1. 1 \in 1 .. l + 1 /\ 1 - 1 = 0 /\ 0 + k = k
      OBVIOUS
    <3>2. chunks[1][k] = s[pos[0] + k]
      BY <1>4, <1>5, <1>7, <3>1
    <3> QED
      BY <1>4, <1>7, <3>1, <3>2
  <2>4. \A k \in 1 .. Len(c) : c[k] = u[k]
    BY <1>5, <2>2, <2>3
  <2>5. c = u
    BY <1>3, <1>5, <2>2, <2>4, SeqEqual
  <2> QED
    BY <2>2, <2>5
<1>10. Delivers(t, SubSeq(s, p + 1, m))
  <2>1. p \in 0 .. Len(s)
    BY <1>6, <1>8
  <2>2. PICK u \in Seq(Bytes) : /\ u = SubSeq(s, p + 1, m) /\ Len(u) = m - p
                                /\ \A k \in 1 .. m - p : u[k] = s[p + k]
    BY <1>1, <1>6, <2>1, SuffixFacts
  <2>3. \A i \in 0 .. l : pos[i + 1] \in Nat /\ p <= pos[i + 1] /\ pos[i + 1] <= m
    <3> TAKE i \in 0 .. l
    <3>1. i + 1 \in 0 .. l + 1 /\ 1 \in 0 .. l + 1 /\ 1 <= i + 1 /\ l + 1 \in 0 .. l + 1 /\ i + 1 <= l + 1
      OBVIOUS
    <3> QED
      BY <1>3, <1>7, <1>8, <3>1
  <2>4. PICK new : new = [i \in 0 .. l |-> pos[i + 1] - p]
    OBVIOUS
  <2>5. new \in [0 .. l -> Nat]
    BY <2>3, <2>4
  <2>6. new[0] = 0 /\ new[l] = m - p
    BY <1>7, <1>8, <2>4
  <2>7. ASSUME NEW i \in 0 .. l, NEW j \in 0 .. l, i <= j PROVE new[i] <= new[j]
    <3>1. i + 1 \in 0 .. l + 1 /\ j + 1 \in 0 .. l + 1 /\ i + 1 <= j + 1
      BY <2>7
    <3>2. pos[i + 1] <= pos[j + 1]
      BY <1>7, <3>1
    <3> QED
      BY <2>3, <2>4, <3>2
  <2>8. ASSUME NEW i \in 1 .. l
        PROVE  /\ new[i] = new[i - 1] + Len(t[i])
               /\ \A k \in 1 .. Len(t[i]) : t[i][k] = u[new[i - 1] + k]
    <3>1. PICK d \in Seq(Bytes) : d = t[i] /\ d = chunks[i + 1]
      <4>1. t[i] \in Seq(Bytes)
        BY <1>3, ElementOfSeq DEF Streams
      <4> QED
        BY <1>3, <4>1
    <3>2. i + 1 \in 1 .. l + 1 /\ (i + 1) - 1 = i /\ i \in 0 .. l /\ i - 1 \in 0 .. l /\ (i - 1) + 1 = i
      OBVIOUS
    <3>3. PICK a \in Nat, b \in Nat, n \in Nat : a = pos[i] /\ b = pos[i + 1] /\ n = Len(d)
      <4>1. pos[i] \in Nat /\ pos[i + 1] \in Nat
        BY <2>3, <3>2
      <4> QED
        BY <3>1, <4>1, LenProperties
    <3>4. b = a + n /\ \A k \in 1 .. n : d[k] = s[a + k]
      BY <1>7, <3>1, <3>2, <3>3
    <3>5. new[i] = b - p /\ new[i - 1] = a - p /\ p <= a /\ b <= m
      BY <2>3, <2>4, <3>2, <3>3
    <3>6. ASSUME NEW k \in 1 .. n PROVE d[k] = u[(a - p) + k]
      <4>1. (a - p) + k \in 1 .. m - p /\ p + ((a - p) + k) = a + k
        BY <3>4, <3>5
      <4>2. u[(a - p) + k] = s[p + ((a - p) + k)]
        BY <2>2, <4>1
      <4> QED
        BY <3>4, <4>1, <4>2
    <3>7. b - p = (a - p) + n
      BY <3>4
    <3> QED
      BY <3>1, <3>3, <3>5, <3>6, <3>7
  <2>9. CutAt(t, u, new)
    BY <1>3, <2>2, <2>6, <2>7, <2>8 DEF CutAt
  <2>10. Delivers(t, u)
    BY <1>3, <2>2, <2>5, <2>9 DEF Delivers
  <2> QED
    BY <2>2, <2>10
<1>11. Len(c) \in 0 .. Len(s)
  BY <1>5, <1>6, <1>8
<1> QED
  BY <1>3, <1>5, <1>6, <1>9, <1>10, <1>11

\* A chunk more in front.
LEMMA ChunkBefore ==
  ASSUME NEW c \in Seq(Bytes), NEW t, NEW u, Delivers(t, u)
  PROVE  Delivers(<<c>> \o t, c \o u)
<1>1. t \in Streams /\ u \in Seq(Bytes)
  BY DEF Delivers
<1>2. PICK l \in Nat, m \in Nat, p \in Nat : l = Len(t) /\ m = Len(u) /\ p = Len(c)
  BY <1>1, LenProperties DEF Streams
<1>3. PICK pos \in [0 .. l -> Nat] : CutAt(t, u, pos)
  BY <1>2 DEF Delivers
<1>4. /\ pos[0] = 0 /\ pos[l] = m
      /\ \A i, j \in 0 .. l : i <= j => pos[i] <= pos[j]
      /\ \A i \in 1 .. l :
           /\ pos[i] = pos[i - 1] + Len(t[i])
           /\ \A k \in 1 .. Len(t[i]) : t[i][k] = u[pos[i - 1] + k]
  BY <1>2, <1>3 DEF CutAt
<1>5. PICK s \in Seq(Bytes) : /\ s = c \o u /\ Len(s) = p + m
                              /\ \A k \in 1 .. p + m : s[k] = IF k <= p THEN c[k] ELSE u[k - p]
  <2>1. /\ c \o u \in Seq(Bytes) /\ Len(c \o u) = p + m
        /\ \A k \in 1 .. p + m : (c \o u)[k] = IF k <= p THEN c[k] ELSE u[k - p]
    BY <1>1, <1>2, ConcatProperties
  <2>2. PICK s \in Seq(Bytes) : s = c \o u
    BY <2>1
  <2> QED
    BY <2>1, <2>2
<1>6. PICK chunks \in Streams : /\ chunks = <<c>> \o t /\ Len(chunks) = l + 1
                                /\ \A i \in 1 .. l + 1 : chunks[i] = IF i = 1 THEN c ELSE t[i - 1]
  <2>1. <<c>> \in Seq(Seq(Bytes)) /\ Len(<<c>>) = 1 /\ <<c>>[1] = c
    OBVIOUS
  <2>2. /\ <<c>> \o t \in Seq(Seq(Bytes)) /\ Len(<<c>> \o t) = 1 + l
        /\ \A i \in 1 .. 1 + l : (<<c>> \o t)[i] = IF i <= 1 THEN <<c>>[i] ELSE t[i - 1]
    BY <1>1, <1>2, <2>1, ConcatProperties DEF Streams
  <2>3. PICK q \in Streams : q = <<c>> \o t
    BY <2>2 DEF Streams
  <2>4. ASSUME NEW i \in 1 .. l + 1 PROVE q[i] = IF i = 1 THEN c ELSE t[i - 1]
    <3>1. i \in 1 .. 1 + l /\ (i <= 1 <=> i = 1)
      OBVIOUS
    <3> QED
      BY <2>1, <2>2, <2>3, <3>1
  <2>5. Len(q) = l + 1
    BY <2>2, <2>3
  <2> QED
    BY <2>3, <2>4, <2>5
<1>7. PICK new : new = [i \in 0 .. l + 1 |-> IF i = 0 THEN 0 ELSE p + pos[i - 1]]
  OBVIOUS
<1>8. \A i \in 0 .. l + 1 : i # 0 => i - 1 \in 0 .. l /\ pos[i - 1] \in Nat /\ new[i] = p + pos[i - 1]
  BY <1>7
<1>9. new \in [0 .. l + 1 -> Nat] /\ new[0] = 0
  BY <1>7, <1>8
<1>10. new[l + 1] = p + m
  BY <1>4, <1>7
<1>11. ASSUME NEW i \in 0 .. l + 1, NEW j \in 0 .. l + 1, i <= j PROVE new[i] <= new[j]
  <2>1. CASE i = 0
    BY <1>9, <2>1
  <2>2. CASE i # 0
    <3>1. i - 1 \in 0 .. l /\ j - 1 \in 0 .. l /\ i - 1 <= j - 1 /\ j # 0
      BY <1>11, <2>2
    <3>2. pos[i - 1] <= pos[j - 1]
      BY <1>4, <3>1
    <3> QED
      BY <1>8, <2>2, <3>1, <3>2
  <2> QED
    BY <2>1, <2>2
<1>12. ASSUME NEW i \in 1 .. l + 1
       PROVE  /\ new[i] = new[i - 1] + Len(chunks[i])
              /\ \A k \in 1 .. Len(chunks[i]) : chunks[i][k] = s[new[i - 1] + k]
  <2>1. CASE i = 1
    <3>1. new[1] = p + 0 /\ new[0] = 0 /\ chunks[1] = c /\ 1 - 1 = 0
      BY <1>4, <1>6, <1>7, <2>1
    <3>2. \A k \in 1 .. p : c[k] = s[0 + k]
      <4> TAKE k \in 1 .. p
      <4>1. k \in 1 .. p + m /\ k <= p /\ 0 + k = k
        OBVIOUS
      <4> QED
        BY <1>5, <4>1
    <3> QED
      BY <1>2, <2>1, <3>1, <3>2
  <2>2. CASE i # 1
    <3>1. PICK h \in 1 .. l : i = h + 1
      <4>1. i - 1 \in 1 .. l /\ i = (i - 1) + 1
        BY <2>2
      <4> QED
        BY <4>1
    <3>2. h \in 0 .. l /\ h - 1 \in 0 .. l /\ h + 1 \in 0 .. l + 1 /\ h \in 0 .. l + 1 /\ h # 0
          /\ h + 1 # 0 /\ (h + 1) - 1 = h /\ h + 1 \in 1 .. l + 1 /\ h + 1 # 1
      OBVIOUS
    <3>3. PICK d \in Seq(Bytes) : d = t[h] /\ d = chunks[i]
      <4>1. t[h] \in Seq(Bytes)
        BY <1>1, <1>2, ElementOfSeq DEF Streams
      <4>2. chunks[h + 1] = t[h]
        BY <1>6, <3>2
      <4> QED
        BY <3>1, <4>1, <4>2
    <3>4. PICK a \in Nat, b \in Nat, n \in Nat : a = pos[h - 1] /\ b = pos[h] /\ n = Len(d)
      BY <3>2, <3>3, LenProperties
    <3>5. b = a + n /\ \A k \in 1 .. n : d[k] = u[a + k]
      BY <1>4, <3>3, <3>4
    <3>6. new[h + 1] = p + b /\ new[h] = p + a
      BY <1>8, <3>2, <3>4
    <3>7. a <= b /\ b <= m
      <4>1. l \in 0 .. l /\ h <= l
        OBVIOUS
      <4>2. pos[h] <= pos[l]
        BY <1>4, <3>2, <4>1
      <4> QED
        BY <1>4, <3>4, <3>5, <4>2
    <3>8. ASSUME NEW k \in 1 .. n PROVE d[k] = s[(p + a) + k]
      <4>1. (p + a) + k \in 1 .. p + m /\ ~((p + a) + k <= p) /\ ((p + a) + k) - p = a + k
        BY <3>5, <3>7
      <4>2. s[(p + a) + k] = u[((p + a) + k) - p]
        BY <1>5, <4>1
      <4> QED
        BY <3>5, <4>1, <4>2
    <3>9. p + b = (p + a) + n
      BY <3>5
    <3>10. new[i] = p + b /\ new[i - 1] = p + a
      BY <3>1, <3>2, <3>6
    <3> QED
      BY <3>3, <3>4, <3>8, <3>9, <3>10
  <2> QED
    BY <2>1, <2>2
<1>13. CutAt(chunks, s, new)
  <2>1. PICK n \in Nat : n = l + 1 /\ Len(chunks) = n
    BY <1>6
  <2>2. new[n] = Len(s) /\ new[0] = 0
    BY <1>5, <1>9, <1>10, <2>1
  <2>3. \A i, j \in 0 .. n : i <= j => new[i] <= new[j]
    BY <1>11, <2>1
  <2>4. \A i \in 1 .. n : /\ new[i] = new[i - 1] + Len(chunks[i])
                          /\ \A k \in 1 .. Len(chunks[i]) : chunks[i][k] = s[new[i - 1] + k]
    BY <1>12, <2>1
  <2> QED
    BY <2>1, <2>2, <2>3, <2>4 DEF CutAt
<1>14. Delivers(chunks, s)
  BY <1>6, <1>5, <1>9, <1>13 DEF Delivers
<1> QED
  BY <1>5, <1>6, <1>14

\* What follows n bytes of the part of a stream that follows p bytes.
LEMMA SubSeqAfter ==
  ASSUME NEW q \in Seq(Bytes), NEW p \in 0 .. Len(q), NEW h \in 0 .. Len(q) - p,
         NEW v, v = SubSeq(q, p + 1, Len(q))
  PROVE  /\ SubSeq(q, 1, p) \o SubSeq(v, 1, h) = SubSeq(q, 1, p + h)
         /\ SubSeq(v, h + 1, Len(v)) = SubSeq(q, p + h + 1, Len(q))
<1>a. PICK m \in Nat : m = Len(q)
  BY LenProperties
<1>b. p \in Nat /\ h \in Nat /\ p <= m /\ p + h <= m /\ v = SubSeq(q, p + 1, m)
  BY <1>a
<1>c. PICK n \in Nat : n = p + h /\ p <= n /\ n <= m
  BY <1>b
<1>1. p \in 0 .. Len(q) /\ n \in 0 .. Len(q)
  BY <1>a, <1>b, <1>c
<1>2. v \in Seq(Bytes) /\ Len(v) = m - p /\ \A k \in 1 .. m - p : v[k] = q[p + k]
  BY <1>1, <1>a, <1>b, SuffixFacts
<1>3. h = n - p
  BY <1>a, <1>b, <1>c
<1>4. h \in 0 .. Len(v)
  BY <1>2, <1>3, <1>b, <1>c
<1>5. PICK a \in Seq(Bytes) : a = SubSeq(v, 1, h) /\ Len(a) = h /\ \A k \in 1 .. h : a[k] = v[k]
  BY <1>2, <1>4, PrefixFacts
<1>6. PICK c \in Seq(Bytes) : c = SubSeq(q, 1, p) /\ Len(c) = p /\ \A k \in 1 .. p : c[k] = q[k]
  BY <1>1, PrefixFacts
<1>7. PICK d \in Seq(Bytes) : d = SubSeq(q, 1, n) /\ Len(d) = n /\ \A k \in 1 .. n : d[k] = q[k]
  BY <1>1, PrefixFacts
<1>8. c \o a = d
  <2>1. /\ c \o a \in Seq(Bytes) /\ Len(c \o a) = p + h
        /\ \A k \in 1 .. p + h : (c \o a)[k] = IF k <= p THEN c[k] ELSE a[k - p]
    <3>1. /\ c \o a \in Seq(Bytes) /\ Len(c \o a) = Len(c) + Len(a)
          /\ \A k \in 1 .. Len(c) + Len(a) : (c \o a)[k] = IF k <= Len(c) THEN c[k] ELSE a[k - Len(c)]
      BY ConcatProperties
    <3>2. Len(c) = p /\ Len(a) = h
      BY <1>5, <1>6
    <3> QED
      BY <3>1, <3>2
  <2>2. PICK e \in Seq(Bytes) : e = c \o a
    BY <2>1
  <2>3. p + h = n
    BY <1>c
  <2>4. ASSUME NEW k \in 1 .. n PROVE e[k] = d[k]
    <3>1. CASE k <= p
      <4>1. k \in 1 .. p
        BY <3>1
      <4>2. e[k] = c[k]
        BY <2>1, <2>2, <2>3, <3>1
      <4> QED
        BY <1>6, <1>7, <4>1, <4>2
    <3>2. CASE ~(k <= p)
      <4>1. k - p \in 1 .. h /\ k - p \in 1 .. m - p /\ p + (k - p) = k
        BY <2>3, <3>2, <1>c, <1>b
      <4>2. e[k] = a[k - p]
        BY <2>1, <2>2, <2>3, <3>2
      <4>3. a[k - p] = v[k - p] /\ v[k - p] = q[p + (k - p)]
        BY <1>2, <1>5, <4>1
      <4> QED
        BY <1>7, <4>1, <4>2, <4>3
    <3> QED
      BY <3>1, <3>2
  <2>5. Len(e) = n
    BY <2>1, <2>2, <2>3
  <2>6. e = d
    BY <1>7, <2>4, <2>5, SeqEqual
  <2> QED
    BY <2>2, <2>6
<1>9. PICK e \in Seq(Bytes) : /\ e = SubSeq(v, h + 1, Len(v)) /\ Len(e) = Len(v) - h
                              /\ \A k \in 1 .. Len(v) - h : e[k] = v[h + k]
  BY <1>2, <1>4, SuffixFacts
<1>10. PICK f \in Seq(Bytes) : /\ f = SubSeq(q, n + 1, m) /\ Len(f) = m - n
                               /\ \A k \in 1 .. m - n : f[k] = q[n + k]
  BY <1>1, <1>a, <1>b, SuffixFacts
<1>11. e = f
  <2>1. Len(v) - h = m - n
    BY <1>2, <1>3, <1>b, <1>c
  <2>2. ASSUME NEW k \in 1 .. m - n PROVE e[k] = f[k]
    <3>1. h + k \in 1 .. m - p /\ p + (h + k) = n + k
      BY <1>c, <1>b
    <3>2. e[k] = v[h + k]
      BY <1>9, <2>1
    <3>3. v[h + k] = q[p + (h + k)]
      BY <1>2, <3>1
    <3> QED
      BY <1>10, <3>1, <3>2, <3>3
  <2>3. Len(e) = m - n /\ Len(f) = m - n
    BY <1>9, <1>10, <2>1
  <2> QED
    BY <2>2, <2>3, SeqEqual
<1> QED
  BY <1>a, <1>c, <1>5, <1>6, <1>7, <1>8, <1>9, <1>10, <1>11

\* The first n bytes of a longer beginning of a stream, and what follows them.
LEMMA SubSeqWithin ==
  ASSUME NEW q \in Seq(Bytes), NEW p \in 0 .. Len(q), NEW n \in 0 .. p - 1,
         NEW c, c = SubSeq(q, 1, p)
  PROVE  /\ SubSeq(c, 1, n) = SubSeq(q, 1, n)
         /\ SubSeq(c, n + 1, p) \o SubSeq(q, p + 1, Len(q)) = SubSeq(q, n + 1, Len(q))
<1>a. PICK m \in Nat : m = Len(q)
  BY LenProperties
<1>b. p \in Nat /\ n \in Nat /\ p <= m /\ n < p
  BY <1>a
<1>1. p \in 0 .. Len(q) /\ n \in 0 .. Len(q)
  BY <1>a, <1>b
<1>2. c \in Seq(Bytes) /\ Len(c) = p /\ \A k \in 1 .. p : c[k] = q[k]
  BY <1>1, PrefixFacts
<1>3. n \in 0 .. Len(c)
  BY <1>2, <1>b
<1>4. PICK a \in Seq(Bytes) : a = SubSeq(c, 1, n) /\ Len(a) = n /\ \A k \in 1 .. n : a[k] = c[k]
  BY <1>2, <1>3, PrefixFacts
<1>5. PICK b \in Seq(Bytes) : b = SubSeq(q, 1, n) /\ Len(b) = n /\ \A k \in 1 .. n : b[k] = q[k]
  BY <1>1, PrefixFacts
<1>6. a = b
  <2>1. \A k \in 1 .. n : a[k] = b[k]
    <3> TAKE k \in 1 .. n
    <3>1. k \in 1 .. p
      BY <1>b
    <3> QED
      BY <1>2, <1>4, <1>5, <3>1
  <2> QED
    BY <1>4, <1>5, <2>1, SeqEqual
<1>7. PICK d \in Seq(Bytes) : d = SubSeq(c, n + 1, p) /\ Len(d) = p - n /\ \A k \in 1 .. p - n : d[k] = c[n + k]
  <2>1. /\ SubSeq(c, n + 1, Len(c)) \in Seq(Bytes) /\ Len(SubSeq(c, n + 1, Len(c))) = Len(c) - n
        /\ \A k \in 1 .. Len(c) - n : SubSeq(c, n + 1, Len(c))[k] = c[n + k]
    BY <1>2, <1>3, SuffixFacts
  <2>2. Len(c) = p
    BY <1>2
  <2> QED
    BY <2>1, <2>2
<1>8. PICK v \in Seq(Bytes) : v = SubSeq(q, p + 1, m) /\ Len(v) = m - p /\ \A k \in 1 .. m - p : v[k] = q[p + k]
  BY <1>1, <1>a, <1>b, SuffixFacts
<1>9. PICK f \in Seq(Bytes) : f = SubSeq(q, n + 1, m) /\ Len(f) = m - n /\ \A k \in 1 .. m - n : f[k] = q[n + k]
  BY <1>1, <1>a, <1>b, SuffixFacts
<1>10. PICK g \in Nat, h \in Nat : g = p - n /\ h = m - p /\ g + h = m - n
  <2>1. p - n \in Nat /\ m - p \in Nat /\ (p - n) + (m - p) = m - n
    BY <1>b
  <2> QED
    BY <2>1
<1>11. d \o v = f
  <2>1. /\ d \o v \in Seq(Bytes) /\ Len(d \o v) = g + h
        /\ \A k \in 1 .. g + h : (d \o v)[k] = IF k <= g THEN d[k] ELSE v[k - g]
    <3>1. /\ d \o v \in Seq(Bytes) /\ Len(d \o v) = Len(d) + Len(v)
          /\ \A k \in 1 .. Len(d) + Len(v) : (d \o v)[k] = IF k <= Len(d) THEN d[k] ELSE v[k - Len(d)]
      BY ConcatProperties
    <3>2. Len(d) = g /\ Len(v) = h
      BY <1>7, <1>8, <1>10
    <3> QED
      BY <3>1, <3>2
  <2>2. PICK e \in Seq(Bytes) : e = d \o v
    BY <2>1
  <2>3. ASSUME NEW k \in 1 .. g + h PROVE e[k] = f[k]
    <3>1. CASE k <= g
      <4>1. k \in 1 .. p - n /\ n + k \in 1 .. p /\ k \in 1 .. m - n
        BY <1>10, <1>b, <3>1
      <4>2. e[k] = d[k]
        BY <2>1, <2>2, <3>1
      <4>3. d[k] = c[n + k] /\ c[n + k] = q[n + k]
        BY <1>2, <1>7, <4>1
      <4> QED
        BY <1>9, <4>1, <4>2, <4>3
    <3>2. CASE ~(k <= g)
      <4>1. k - g \in 1 .. m - p /\ p + (k - g) = n + k /\ k \in 1 .. m - n
        BY <1>10, <1>b, <3>2
      <4>2. e[k] = v[k - g]
        BY <2>1, <2>2, <3>2
      <4>3. v[k - g] = q[p + (k - g)]
        BY <1>8, <4>1
      <4> QED
        BY <1>9, <4>1, <4>2, <4>3
    <3> QED
      BY <3>1, <3>2
  <2>4. Len(e) = g + h /\ Len(f) = g + h
    BY <1>9, <1>10, <2>1, <2>2
  <2>5. e = f
    BY <2>3, <2>4, SeqEqual
  <2> QED
    BY <2>2, <2>5
<1> QED
  BY <1>a, <1>4, <1>5, <1>6, <1>7, <1>8, <1>9, <1>11

\* mustRecv has returned, asked for n bytes of a stream s: all of the first n bytes, and
\* what is left of the stream is what follows them; or an error, when s is shorter.
Fetched(n, s, result) ==
  IF n <= Len(s)
  THEN /\ result.ok /\ result.data = SubSeq(s, 1, n)
       /\ Delivers(result.rest, SubSeq(s, n + 1, Len(s)))
  ELSE ~result.ok

\* What one Read leaves to be delivered.
LEMMA ReadDelivers ==
  ASSUME NEW n \in Nat \ {0}, NEW chunks, NEW q, Delivers(chunks, q), chunks # <<>>
  PROVE  /\ Read(n, chunks) \in 0 .. n /\ Read(n, chunks) \in 0 .. Len(q)
         /\ SubSeq(Head(chunks), 1, Read(n, chunks)) = SubSeq(q, 1, Read(n, chunks))
         /\ Delivers(Unread(n, chunks), SubSeq(q, Read(n, chunks) + 1, Len(q)))
<1>1. chunks \in Streams /\ q \in Seq(Bytes)
  BY DEF Delivers
<1>2. PICK c \in Seq(Bytes), t \in Streams, p \in Nat : c = Head(chunks) /\ t = Tail(chunks) /\ p = Len(c)
  BY <1>1, ReadFacts
<1>3. PICK m \in Nat : m = Len(q)
  BY <1>1, LenProperties
<1>4. p <= m /\ p \in 0 .. Len(q) /\ c = SubSeq(q, 1, p) /\ Delivers(t, SubSeq(q, p + 1, m))
  <2>1. p \in 0 .. Len(q) /\ c = SubSeq(q, 1, p) /\ Delivers(t, SubSeq(q, p + 1, m))
    BY <1>2, <1>3, FirstChunk
  <2> QED
    BY <1>3, <2>1
<1>5. CASE p <= n
  <2>1. Read(n, chunks) = p /\ Unread(n, chunks) = t
    BY <1>1, <1>2, <1>5, ReadFacts
  <2>2. SubSeq(c, 1, p) = c
    BY <1>2, SubSeqFull
  <2>3. p \in 0 .. n
    BY <1>5
  <2> QED
    BY <1>2, <1>3, <1>4, <2>1, <2>2, <2>3
<1>6. CASE ~(p <= n)
  <2>1. p > n /\ n < p /\ n \in Nat /\ n \in 0 .. n /\ n \in 0 .. m
    BY <1>4, <1>6
  <2>2. PICK d : d = SubSeq(c, n + 1, p)
    OBVIOUS
  <2>3. Read(n, chunks) = n /\ Unread(n, chunks) = <<d>> \o t
    BY <1>1, <1>2, <2>1, <2>2, ReadFacts
  <2>4. d \in Seq(Bytes)
    <3>1. n \in 0 .. Len(c)
      BY <1>2, <2>1
    <3> QED
      BY <1>2, <2>2, <3>1, SuffixFacts
  <2>5. SubSeq(c, 1, n) = SubSeq(q, 1, n) /\ d \o SubSeq(q, p + 1, m) = SubSeq(q, n + 1, m)
    <3>1. n \in 0 .. p - 1
      BY <2>1
    <3>2. /\ SubSeq(c, 1, n) = SubSeq(q, 1, n)
          /\ SubSeq(c, n + 1, p) \o SubSeq(q, p + 1, Len(q)) = SubSeq(q, n + 1, Len(q))
      BY <1>1, <1>4, <3>1, SubSeqWithin
    <3> QED
      BY <1>3, <2>2, <3>2
  <2>6. Delivers(<<d>> \o t, SubSeq(q, n + 1, m))
    BY <1>4, <2>4, <2>5, ChunkBefore
  <2> QED
    BY <1>2, <1>3, <2>1, <2>3, <2>5, <2>6
<1> QED
  BY <1>5, <1>6

\* What a Read and the Reads after it have returned together.
LEMMA FetchedAfter ==
  ASSUME NEW q \in Seq(Bytes), NEW r \in 0 .. Len(q), NEW h \in Nat, NEW more \in Results,
         Fetched(h, SubSeq(q, r + 1, Len(q)), more)
  PROVE  Fetched(r + h, q, Prefixed(SubSeq(q, 1, r), more))
<1>1. PICK m \in Nat : m = Len(q)
  BY LenProperties
<1>2. r \in Nat /\ r <= m
  BY <1>1
<1>3. PICK v \in Seq(Bytes) : v = SubSeq(q, r + 1, m) /\ Len(v) = m - r
  BY <1>1, SuffixFacts
<1>4. PICK head \in Seq(Bytes) : head = SubSeq(q, 1, r)
  BY PrefixFacts
<1>5. PICK all : all = Prefixed(head, more)
  OBVIOUS
<1>6. all.ok = more.ok /\ all.rest = more.rest /\ all.data = head \o more.data
  BY <1>5, PrefixedFacts
<1>7. h <= Len(v) <=> r + h <= m
  BY <1>2, <1>3
<1>8. CASE r + h <= m
  <2>1. more.ok /\ more.data = SubSeq(v, 1, h) /\ Delivers(more.rest, SubSeq(v, h + 1, Len(v)))
    BY <1>1, <1>3, <1>7, <1>8 DEF Fetched
  <2>2. /\ SubSeq(q, 1, r) \o SubSeq(v, 1, h) = SubSeq(q, 1, r + h)
        /\ SubSeq(v, h + 1, Len(v)) = SubSeq(q, r + h + 1, Len(q))
    <3>1. h \in 0 .. Len(q) - r
      BY <1>1, <1>2, <1>8
    <3>2. v = SubSeq(q, r + 1, Len(q))
      BY <1>1, <1>3
    <3> QED
      BY <3>1, <3>2, SubSeqAfter
  <2>3. all.ok /\ all.data = SubSeq(q, 1, r + h) /\ Delivers(all.rest, SubSeq(q, r + h + 1, m))
    BY <1>1, <1>4, <1>6, <2>1, <2>2
  <2> QED
    BY <1>1, <1>4, <1>5, <1>8, <2>3 DEF Fetched
<1>9. CASE ~(r + h <= m)
  <2>1. ~more.ok
    BY <1>1, <1>3, <1>7, <1>9 DEF Fetched
  <2> QED
    BY <1>1, <1>4, <1>5, <1>6, <1>9, <2>1 DEF Fetched
<1> QED
  BY <1>8, <1>9

\* mustRecv does what io.ReadFull would: it returns exactly the bytes that were asked for,
\* however few of them each Read gives, and an error at the end of the stream.
THEOREM MustRecvTakes ==
  ASSUME NEW n \in Nat, NEW s \in Seq(Bytes), NEW chunks, Delivers(chunks, s)
  PROVE  Fetched(n, s, MustRecv[<<n, chunks>>])
<1> DEFINE Good(w) == \A q \in Seq(Bytes) : Delivers(w[2], q) => Fetched(w[1], q, MustRecv[w])
<1> DEFINE Bad == {j \in Nat : \E w \in Wants : Level(w) = j /\ ~Good(w)}
<1>1. SUFFICES ASSUME Bad # {} PROVE FALSE
  <2>1. chunks \in Streams
    BY DEF Delivers
  <2>2. <<n, chunks>> \in Wants /\ <<n, chunks>>[1] = n /\ <<n, chunks>>[2] = chunks
    BY <2>1, WantFacts
  <2>3. Level(<<n, chunks>>) \in Nat
    BY <2>2, RestFacts
  <2>4. Good(<<n, chunks>>)
    BY <1>1, <2>2, <2>3
  <2> QED
    BY <2>2, <2>4
<1>2. PICK b \in Bad : \A j \in Bad : b <= j
  <2>1. Bad \in SUBSET Nat
    OBVIOUS
  <2> HIDE DEF Bad
  <2> QED
    BY <1>1, <2>1, LeastNumber
<1>3. PICK w \in Wants : Level(w) = b /\ ~Good(w)
  BY <1>2
<1>4. b \in Nat
  BY <1>2
<1>5. PICK want \in Nat, left1 \in Streams : want = w[1] /\ left1 = w[2]
  BY RestFacts
<1>6. PICK q \in Seq(Bytes) : Delivers(left1, q) /\ ~Fetched(want, q, MustRecv[w])
  BY <1>3, <1>5
<1>7. MustRecv[w] = Step(MustRecv, w)
  BY MustRecvDef
<1>8. PICK m \in Nat : m = Len(q)
  BY LenProperties
<1>9. CASE want = 0
  <2>1. MustRecv[w] = [ok |-> TRUE, data |-> <<>>, rest |-> left1]
    BY <1>5, <1>7, <1>9 DEF Step
  <2>2. SubSeq(q, 1, 0) = <<>>
    BY SubSeqEmpty
  <2>3. SubSeq(q, 0 + 1, Len(q)) = q
    BY SubSeqFull
  <2>4. MustRecv[w].ok /\ MustRecv[w].data = <<>> /\ MustRecv[w].rest = left1
    BY <2>1
  <2>5. Delivers(MustRecv[w].rest, SubSeq(q, 0 + 1, Len(q)))
    BY <1>6, <2>3, <2>4
  <2>6. 0 <= Len(q)
    BY <1>8
  <2>7. Fetched(0, q, MustRecv[w])
    BY <2>2, <2>4, <2>5, <2>6 DEF Fetched
  <2> QED
    BY <1>6, <1>9, <2>7
<1>10. CASE want # 0 /\ left1 = <<>>
  <2>1. q = <<>>
    BY <1>6, <1>10, NothingDelivered
  <2>2. ~(want <= Len(q))
    BY <1>10, <2>1
  <2>3. ~MustRecv[w].ok
    BY <1>5, <1>7, <1>10 DEF Step, Failed
  <2> QED
    BY <1>6, <2>2, <2>3 DEF Fetched
<1>11. CASE want # 0 /\ left1 # <<>>
  <2>1. PICK r, u : r = Read(want, left1) /\ u = Unread(want, left1)
    OBVIOUS
  <2>2. /\ r \in 0 .. want /\ r \in 0 .. Len(q) /\ SubSeq(Head(left1), 1, r) = SubSeq(q, 1, r)
        /\ Delivers(u, SubSeq(q, r + 1, Len(q)))
    BY <1>6, <1>11, <2>1, ReadDelivers
  <2>3. PICK h \in Nat : h = want - r /\ want = r + h
    <3>1. want - r \in Nat /\ want = r + (want - r)
      BY <2>2
    <3> QED
      BY <3>1
  <2>4. Rest(w) = <<h, u>> /\ Rest(w) \in Wants /\ Level(Rest(w)) < b
    BY <1>3, <1>5, <1>11, <2>1, <2>3, RestFacts DEF Rest
  <2>5. Good(Rest(w))
    <3>1. PICK j \in Nat : j = Level(Rest(w))
      BY <2>4, RestFacts
    <3>2. ~(b <= j)
      BY <1>4, <2>4, <3>1
    <3>3. j \notin Bad
      <4> HIDE DEF Bad
      <4> QED
        BY <1>2, <3>2
    <3>4. Rest(w) \in Wants /\ Level(Rest(w)) = j
      BY <2>4, <3>1
    <3> HIDE DEF Good
    <3> QED
      BY <3>3, <3>4
  <2>6. PICK more \in Results : more = MustRecv[Rest(w)]
    BY <2>4, MustRecvDef
  <2>7. Fetched(h, SubSeq(q, r + 1, Len(q)), more)
    <3>1. SubSeq(q, r + 1, Len(q)) \in Seq(Bytes)
      BY <2>2, SuffixFacts
    <3>2. Rest(w)[1] = h /\ Rest(w)[2] = u
      BY <2>4
    <3> QED
      BY <2>2, <2>5, <2>6, <3>1, <3>2
  <2>8. MustRecv[w] = Prefixed(SubSeq(q, 1, r), more)
    BY <1>5, <1>7, <1>11, <2>1, <2>2, <2>6 DEF Step
  <2>9. Fetched(want, q, MustRecv[w])
    BY <2>2, <2>3, <2>7, <2>8, FetchedAfter
  <2> QED
    BY <1>6, <2>9
<1> QED
  BY <1>9, <1>10, <1>11

-------------------------------------------------------------------------------
\* Recv of what Send has written.

\* What the two bytes of the length say.
Decoded(n) == n % (Base * Base)

LEMMA FieldFacts ==
  ASSUME NEW n \in Nat
  PROVE  /\ Decoded(n) \in Nat /\ Decoded(n) <= MaxLength /\ Decoded(n) <= n
         /\ n <= MaxLength => Decoded(n) = n
         /\ Field(n) \in Seq(Bytes) /\ Len(Field(n)) = 2
         /\ Field(n)[1] * Base + Field(n)[2] = Decoded(n)
<1>1. PICK b \in Nat : b = Base /\ b > 1
  BY BaseAssumption
<1>2. PICK bb \in Nat : bb = b * b /\ bb > 1
  <2>1. b * b \in Nat /\ b * b > 1
    BY <1>1
  <2> QED
    BY <2>1
<1>3. PICK d \in Nat : d = n % bb
  BY <1>2
<1>4. d < bb /\ d <= n /\ (n < bb => d = n)
  BY <1>2, <1>3
<1>5. PICK h \in Nat, l \in Nat : h = d \div b /\ l = d % b
  BY <1>1
<1>6. d = b * h + l /\ l < b
  BY <1>1, <1>5
<1>7. h < b
  <2>1. SUFFICES ASSUME h >= b PROVE FALSE
    OBVIOUS
  <2>2. b * h >= b * b
    BY <2>1, <1>1
  <2> QED
    BY <1>2, <1>4, <1>6, <2>2
<1>8. Decoded(n) = d /\ MaxLength = bb - 1 /\ Bytes = 0 .. b - 1
  BY <1>1, <1>2, <1>3 DEF Decoded, MaxLength, Bytes
<1>9. Field(n) = <<h, l>>
  BY <1>1, <1>2, <1>3, <1>5 DEF Field
<1>10. h \in 0 .. b - 1 /\ l \in 0 .. b - 1
  BY <1>6, <1>7
<1>11. <<h, l>> \in Seq(Bytes) /\ Len(<<h, l>>) = 2 /\ <<h, l>>[1] = h /\ <<h, l>>[2] = l
  BY <1>8, <1>10
<1>12. h * b + l = d
  BY <1>6
<1> QED
  BY <1>1, <1>2, <1>4, <1>8, <1>9, <1>11, <1>12

\* Where the parts of a frame are in a stream that begins with it.
LEMMA FrameFacts ==
  ASSUME NEW m \in Seq(Bytes), NEW t \in Seq(Bytes)
  PROVE  /\ Frame(m) \in Seq(Bytes) /\ Frame(m) \o t \in Seq(Bytes) /\ m \o t \in Seq(Bytes)
         /\ Len(Frame(m) \o t) = 2 + Len(m \o t)
         /\ SubSeq(Frame(m) \o t, 1, 2) = Field(Len(m))
         /\ SubSeq(Frame(m) \o t, 2 + 1, Len(Frame(m) \o t)) = m \o t
<1>1. PICK f \in Seq(Bytes) : f = Field(Len(m)) /\ Len(f) = 2
  BY LenProperties, FieldFacts
<1>2. PICK u \in Seq(Bytes) : u = m \o t
  BY ConcatProperties
<1>3. Frame(m) \in Seq(Bytes) /\ Frame(m) \o t = f \o u
  <2>1. Frame(m) = f \o m
    BY <1>1 DEF Frame
  <2>2. f \o m \in Seq(Bytes)
    BY ConcatProperties
  <2>3. (f \o m) \o t = f \o (m \o t)
    BY ConcatAssociative
  <2> QED
    BY <1>2, <2>1, <2>2, <2>3
<1>4. PICK l \in Nat : l = Len(u)
  BY LenProperties
<1>5. PICK s \in Seq(Bytes) : /\ s = f \o u /\ Len(s) = 2 + l
                              /\ \A k \in 1 .. 2 + l : s[k] = IF k <= 2 THEN f[k] ELSE u[k - 2]
  <2>1. /\ f \o u \in Seq(Bytes) /\ Len(f \o u) = 2 + l
        /\ \A k \in 1 .. 2 + l : (f \o u)[k] = IF k <= 2 THEN f[k] ELSE u[k - 2]
    <3>1. /\ f \o u \in Seq(Bytes) /\ Len(f \o u) = Len(f) + Len(u)
          /\ \A k \in 1 .. Len(f) + Len(u) : (f \o u)[k] = IF k <= Len(f) THEN f[k] ELSE u[k - Len(f)]
      BY ConcatProperties
    <3>2. Len(f) = 2 /\ Len(u) = l
      BY <1>1, <1>4
    <3> QED
      BY <3>1, <3>2
  <2>2. PICK s \in Seq(Bytes) : s = f \o u
    BY <2>1
  <2> QED
    BY <2>1, <2>2
<1>6. 2 \in 0 .. Len(s)
  BY <1>5
<1>7. SubSeq(s, 1, 2) = f
  <2>1. PICK a \in Seq(Bytes) : a = SubSeq(s, 1, 2) /\ Len(a) = 2 /\ \A k \in 1 .. 2 : a[k] = s[k]
    BY <1>6, PrefixFacts
  <2>2. \A k \in 1 .. 2 : a[k] = f[k]
    <3> TAKE k \in 1 .. 2
    <3>1. k \in 1 .. 2 + l /\ k <= 2
      OBVIOUS
    <3> QED
      BY <1>5, <2>1, <3>1
  <2> QED
    BY <1>1, <2>1, <2>2, SeqEqual
<1>8. SubSeq(s, 2 + 1, Len(s)) = u
  <2>1. PICK a \in Seq(Bytes) : a = SubSeq(s, 2 + 1, Len(s)) /\ Len(a) = Len(s) - 2
                                /\ \A k \in 1 .. Len(s) - 2 : a[k] = s[2 + k]
    BY <1>6, SuffixFacts
  <2>2. Len(s) - 2 = l
    BY <1>5
  <2>3. \A k \in 1 .. l : a[k] = u[k]
    <3> TAKE k \in 1 .. l
    <3>1. 2 + k \in 1 .. 2 + l /\ ~(2 + k <= 2) /\ (2 + k) - 2 = k
      OBVIOUS
    <3>2. s[2 + k] = u[(2 + k) - 2]
      BY <1>5, <3>1
    <3> QED
      BY <2>1, <2>2, <3>1, <3>2
  <2> QED
    BY <1>4, <2>1, <2>2, <2>3, SeqEqual
<1> QED
  BY <1>1, <1>2, <1>3, <1>4, <1>5, <1>7, <1>8

\* Recv reads two bytes and then as many as they say, out of everything that follows
\* them.
LEMMA RecvReads ==
  ASSUME NEW m \in Seq(Bytes), NEW t \in Seq(Bytes), NEW chunks, Delivers(chunks, Frame(m) \o t)
  PROVE  Fetched(Decoded(Len(m)), m \o t, Recved(chunks))
<1>1. PICK s \in Seq(Bytes) : s = Frame(m) \o t
  BY FrameFacts
<1>2. PICK u \in Seq(Bytes) : u = m \o t /\ Len(s) = 2 + Len(u)
  <2>1. m \o t \in Seq(Bytes) /\ Len(s) = 2 + Len(m \o t)
    BY <1>1, FrameFacts
  <2> QED
    BY <2>1
<1>3. SubSeq(s, 1, 2) = Field(Len(m)) /\ SubSeq(s, 2 + 1, Len(s)) = u
  BY <1>1, <1>2, FrameFacts
<1>4. PICK head : head = MustRecv[<<2, chunks>>]
  OBVIOUS
<1>5. Fetched(2, s, head)
  BY <1>1, <1>4, MustRecvTakes
<1>6. 2 <= Len(s)
  BY <1>2, LenProperties
<1>7. head.ok /\ head.data = Field(Len(m)) /\ Delivers(head.rest, u)
  BY <1>3, <1>5, <1>6 DEF Fetched
<1>8. PICK n \in Nat : n = Decoded(Len(m)) /\ head.data[1] * Base + head.data[2] = n
  BY <1>7, LenProperties, FieldFacts
<1>9. Recved(chunks) = MustRecv[<<n, head.rest>>]
  BY <1>4, <1>7, <1>8 DEF Recved
<1>10. Fetched(n, u, MustRecv[<<n, head.rest>>])
  BY <1>7, MustRecvTakes
<1> QED
  BY <1>2, <1>8, <1>9, <1>10

\* A message that is not longer than maxMessageLength is received as it was sent, from
\* any stream that begins with it, and the stream goes on with what was sent after it:
\* so the messages that follow are received as well, one Recv after the other.
THEOREM RecvGivesMessage ==
  ASSUME NEW m \in Seq(Bytes), Len(m) <= MaxLength, NEW t \in Seq(Bytes),
         NEW chunks, Delivers(chunks, Frame(m) \o t)
  PROVE  Recved(chunks).ok /\ Recved(chunks).data = m /\ Delivers(Recved(chunks).rest, t)
<1>1. PICK n \in Nat : n = Len(m)
  BY LenProperties
<1>2. Decoded(Len(m)) = n
  BY <1>1, FieldFacts
<1>3. PICK l \in Nat : l = Len(t)
  BY LenProperties
<1>4. PICK u \in Seq(Bytes) : /\ u = m \o t /\ Len(u) = n + l
                              /\ \A k \in 1 .. n + l : u[k] = IF k <= n THEN m[k] ELSE t[k - n]
  <2>1. /\ m \o t \in Seq(Bytes) /\ Len(m \o t) = n + l
        /\ \A k \in 1 .. n + l : (m \o t)[k] = IF k <= n THEN m[k] ELSE t[k - n]
    BY <1>1, <1>3, ConcatProperties
  <2>2. PICK u \in Seq(Bytes) : u = m \o t
    BY <2>1
  <2> QED
    BY <2>1, <2>2
<1>5. n \in 0 .. Len(u) /\ n <= Len(u)
  BY <1>4
<1>6. SubSeq(u, 1, n) = m
  <2>1. PICK a \in Seq(Bytes) : a = SubSeq(u, 1, n) /\ Len(a) = n /\ \A k \in 1 .. n : a[k] = u[k]
    BY <1>5, PrefixFacts
  <2>2. \A k \in 1 .. n : a[k] = m[k]
    BY <1>4, <2>1
  <2> QED
    BY <1>1, <2>1, <2>2, SeqEqual
<1>7. SubSeq(u, n + 1, Len(u)) = t
  <2>1. PICK a \in Seq(Bytes) : a = SubSeq(u, n + 1, Len(u)) /\ Len(a) = Len(u) - n
                                /\ \A k \in 1 .. Len(u) - n : a[k] = u[n + k]
    BY <1>5, SuffixFacts
  <2>2. Len(u) - n = l
    BY <1>4
  <2>3. \A k \in 1 .. l : a[k] = t[k]
    <3> TAKE k \in 1 .. l
    <3>1. n + k \in 1 .. n + l /\ ~(n + k <= n) /\ (n + k) - n = k
      OBVIOUS
    <3>2. u[n + k] = t[(n + k) - n]
      BY <1>4, <3>1
    <3> QED
      BY <2>1, <2>2, <3>1, <3>2
  <2> QED
    BY <1>3, <2>1, <2>2, <2>3, SeqEqual
<1>8. Fetched(n, u, Recved(chunks))
  BY <1>2, <1>4, RecvReads
<1> QED
  BY <1>5, <1>6, <1>7, <1>8 DEF Fetched

\* A stream that breaks off within a frame gives an error, never a part of the message.
THEOREM RecvNeedsAll ==
  ASSUME NEW m \in Seq(Bytes), Len(m) <= MaxLength, NEW n \in 0 .. Len(Frame(m)) - 1,
         NEW chunks, Delivers(chunks, SubSeq(Frame(m), 1, n))
  PROVE  ~Recved(chunks).ok
<1>1. PICK l \in Nat : l = Len(m)
  BY LenProperties
<1>2. PICK f \in Seq(Bytes) : f = Frame(m) /\ Len(f) = 2 + l /\ SubSeq(f, 1, 2) = Field(l)
  <2>1. <<>> \in Seq(Bytes) /\ Frame(m) \in Seq(Bytes) /\ m \o <<>> = m
    BY FrameFacts, ConcatEmptySeq
  <2>2. Frame(m) \o <<>> = Frame(m)
    BY <2>1, ConcatEmptySeq
  <2>3. /\ Len(Frame(m) \o <<>>) = 2 + Len(m \o <<>>)
        /\ SubSeq(Frame(m) \o <<>>, 1, 2) = Field(Len(m))
    BY <2>1, FrameFacts
  <2>4. Len(Frame(m)) = 2 + l /\ SubSeq(Frame(m), 1, 2) = Field(l)
    BY <1>1, <2>1, <2>2, <2>3
  <2> QED
    BY <2>1, <2>4
<1>3. n \in Nat /\ n <= 1 + l /\ n \in 0 .. Len(f)
  BY <1>2
<1>4. PICK s \in Seq(Bytes) : s = SubSeq(f, 1, n) /\ Len(s) = n /\ \A k \in 1 .. n : s[k] = f[k]
  BY <1>3, PrefixFacts
<1>5. PICK head : head = MustRecv[<<2, chunks>>]
  OBVIOUS
<1>6. Fetched(2, s, head)
  BY <1>2, <1>4, <1>5, MustRecvTakes
<1>7. CASE ~(2 <= n)
  <2>1. ~head.ok
    BY <1>4, <1>6, <1>7 DEF Fetched
  <2>2. Recved(chunks) = Failed
    BY <1>5, <2>1 DEF Recved
  <2> QED
    BY <2>2 DEF Failed
<1>8. CASE 2 <= n
  <2>1. 2 \in 0 .. Len(s)
    BY <1>3, <1>4, <1>8
  <2>2. SubSeq(s, 1, 2) = Field(l)
    <3>1. PICK a \in Seq(Bytes) : a = SubSeq(s, 1, 2) /\ Len(a) = 2 /\ \A k \in 1 .. 2 : a[k] = s[k]
      BY <2>1, PrefixFacts
    <3>2. 2 \in 0 .. Len(f)
      BY <1>2
    <3>3. PICK b \in Seq(Bytes) : b = SubSeq(f, 1, 2) /\ Len(b) = 2 /\ \A k \in 1 .. 2 : b[k] = f[k]
      BY <3>2, PrefixFacts
    <3>4. \A k \in 1 .. 2 : a[k] = b[k]
      <4> TAKE k \in 1 .. 2
      <4>1. k \in 1 .. n
        BY <1>3, <1>8
      <4> QED
        BY <1>4, <3>1, <3>3, <4>1
    <3>5. a = b
      BY <3>1, <3>3, <3>4, SeqEqual
    <3> QED
      BY <1>2, <3>1, <3>3, <3>5
  <2>3. PICK u \in Seq(Bytes) : u = SubSeq(s, 2 + 1, Len(s)) /\ Len(u) = Len(s) - 2
    BY <2>1, SuffixFacts
  <2>4. head.ok /\ head.data = Field(l) /\ Delivers(head.rest, u)
    BY <1>4, <1>6, <1>8, <2>2, <2>3 DEF Fetched
  <2>5. head.data[1] * Base + head.data[2] = l
    BY <1>1, <2>4, FieldFacts
  <2>6. Recved(chunks) = MustRecv[<<l, head.rest>>]
    BY <1>5, <2>4, <2>5 DEF Recved
  <2>7. Fetched(l, u, MustRecv[<<l, head.rest>>])
    BY <2>4, MustRecvTakes
  <2>8. ~(l <= Len(u))
    BY <1>3, <1>4, <1>8, <2>3
  <2> QED
    BY <2>6, <2>7, <2>8 DEF Fetched
<1> QED
  BY <1>7, <1>8

-------------------------------------------------------------------------------
\* What FramesSurvive says.

\* A message that is too long is cut off at what its length field says.
THEOREM RecvCutsOff ==
  ASSUME NEW m \in Seq(Bytes), NEW t \in Seq(Bytes), NEW chunks, Delivers(chunks, Frame(m) \o t)
  PROVE  Recved(chunks).ok /\ Recved(chunks).data = SubSeq(m, 1, Decoded(Len(m)))
<1>1. PICK l \in Nat : l = Len(m)
  BY LenProperties
<1>2. PICK n \in Nat : n = Decoded(Len(m)) /\ n <= l
  BY <1>1, FieldFacts
<1>3. PICK h \in Nat : h = Len(t)
  BY LenProperties
<1>4. PICK u \in Seq(Bytes) : /\ u = m \o t /\ Len(u) = l + h
                              /\ \A k \in 1 .. l + h : u[k] = IF k <= l THEN m[k] ELSE t[k - l]
  <2>1. /\ m \o t \in Seq(Bytes) /\ Len(m \o t) = l + h
        /\ \A k \in 1 .. l + h : (m \o t)[k] = IF k <= l THEN m[k] ELSE t[k - l]
    BY <1>1, <1>3, ConcatProperties
  <2>2. PICK u \in Seq(Bytes) : u = m \o t
    BY <2>1
  <2> QED
    BY <2>1, <2>2
<1>5. n \in 0 .. Len(u) /\ n <= Len(u) /\ n \in 0 .. Len(m)
  BY <1>1, <1>2, <1>4
<1>6. SubSeq(u, 1, n) = SubSeq(m, 1, n)
  <2>1. PICK a \in Seq(Bytes) : a = SubSeq(u, 1, n) /\ Len(a) = n /\ \A k \in 1 .. n : a[k] = u[k]
    BY <1>5, PrefixFacts
  <2>2. PICK b \in Seq(Bytes) : b = SubSeq(m, 1, n) /\ Len(b) = n /\ \A k \in 1 .. n : b[k] = m[k]
    BY <1>5, PrefixFacts
  <2>3. \A k \in 1 .. n : a[k] = b[k]
    <3> TAKE k \in 1 .. n
    <3>1. k \in 1 .. l + h /\ k <= l
      BY <1>2
    <3> QED
      BY <1>4, <2>1, <2>2, <3>1
  <2> QED
    BY <2>1, <2>2, <2>3, SeqEqual
<1>7. Fetched(n, u, Recved(chunks))
  BY <1>2, <1>4, RecvReads
<1> QED
  BY <1>2, <1>5, <1>6, <1>7 DEF Fetched

\* One chunk for each byte.
LEMMA ByteByByte ==
  ASSUME NEW s \in Seq(Bytes)
  PROVE  Delivers([i \in DOMAIN s |-> <<s[i]>>], s)
<1>1. PICK l \in Nat : l = Len(s) /\ DOMAIN s = 1 .. l
  BY LenProperties
<1>2. PICK chunks : chunks = [i \in 1 .. l |-> <<s[i]>>]
  OBVIOUS
<1>3. \A i \in 1 .. l : s[i] \in Bytes
  BY <1>1, ElementOfSeq
<1>4. \A i \in 1 .. l : <<s[i]>> \in Seq(Bytes) /\ Len(<<s[i]>>) = 1 /\ <<s[i]>>[1] = s[i]
  BY <1>3
<1>5. chunks \in Streams /\ Len(chunks) = l /\ \A i \in 1 .. l : chunks[i] = <<s[i]>>
  <2>1. chunks \in [1 .. l -> Seq(Bytes)]
    BY <1>2, <1>4
  <2>2. chunks \in Seq(Seq(Bytes)) /\ Len(chunks) = l
    BY <2>1
  <2> QED
    BY <1>2, <2>2 DEF Streams
<1>6. PICK pos : pos = [i \in 0 .. l |-> i]
  OBVIOUS
<1>7. pos \in [0 .. l -> Nat] /\ \A i \in 0 .. l : pos[i] = i
  BY <1>6
<1>8. ASSUME NEW i \in 1 .. l
      PROVE  /\ pos[i] = pos[i - 1] + Len(chunks[i])
             /\ \A k \in 1 .. Len(chunks[i]) : chunks[i][k] = s[pos[i - 1] + k]
  <2>1. i \in 0 .. l /\ i - 1 \in 0 .. l /\ (i - 1) + 1 = i
    OBVIOUS
  <2>2. pos[i] = i /\ pos[i - 1] = i - 1
    BY <1>7, <2>1
  <2>3. Len(chunks[i]) = 1 /\ chunks[i][1] = s[i]
    BY <1>4, <1>5
  <2>4. \A k \in 1 .. 1 : k = 1
    OBVIOUS
  <2> QED
    BY <2>1, <2>2, <2>3, <2>4
<1>9. CutAt(chunks, s, pos)
  <2>1. pos[0] = 0 /\ pos[l] = l
    BY <1>7
  <2>2. \A i, j \in 0 .. l : i <= j => pos[i] <= pos[j]
    BY <1>7
  <2> QED
    BY <1>1, <1>5, <1>8, <2>1, <2>2 DEF CutAt
<1>10. Delivers(chunks, s)
  BY <1>5, <1>7, <1>9 DEF Delivers
<1> QED
  BY <1>1, <1>2, <1>10

\* A part of a stream, and two that are next to each other.
LEMMA MiddleFacts ==
  ASSUME NEW s \in Seq(Bytes), NEW a \in Nat, NEW b \in Nat, a <= b, b <= Len(s)
  PROVE  SubSeq(s, a + 1, b) \in Seq(Bytes)
<1>1. \A k \in a + 1 .. b : s[k] \in Bytes
  <2> TAKE k \in a + 1 .. b
  <2>1. k \in 1 .. Len(s)
    BY LenProperties
  <2> QED
    BY <2>1, ElementOfSeq
<1>2. a + 1 \in Int /\ b \in Int
  OBVIOUS
<1> QED
  BY <1>1, <1>2, SubSeqProperties

LEMMA Joined ==
  ASSUME NEW s \in Seq(Bytes), NEW c \in 0 .. Len(s), NEW b \in 0 .. c, NEW a \in 0 .. b
  PROVE  SubSeq(s, a + 1, b) \o SubSeq(s, b + 1, c) = SubSeq(s, a + 1, c)
<1>1. a + 1 \in 1 .. Len(s) + 1 /\ b \in (a + 1) - 1 .. Len(s) /\ c \in b .. Len(s)
  BY LenProperties
<1> QED
  BY <1>1, ConcatAdjacentSubSeq

\* A chunk in front of one, two and three others.
LEMMA TwoChunks ==
  ASSUME NEW a \in Seq(Bytes), NEW b \in Seq(Bytes)
  PROVE  <<a>> \o <<b>> = <<a, b>>
<1>1. <<a>> \in Seq(Seq(Bytes)) /\ <<b>> \in Seq(Seq(Bytes)) /\ <<a, b>> \in Seq(Seq(Bytes))
  OBVIOUS
<1>2. Len(<<a>>) = 1 /\ Len(<<b>>) = 1 /\ Len(<<a, b>>) = 2
  OBVIOUS
<1>3. PICK f \in Seq(Seq(Bytes)), g \in Seq(Seq(Bytes)), h \in Seq(Seq(Bytes)) : f = <<a>> /\ g = <<b>> /\ h = <<a, b>>
  BY <1>1
<1>4. /\ f[1] = a
      /\ g[1] = b
      /\ h[1] = a
      /\ h[2] = b
  BY <1>3
<1>5. /\ f \o g \in Seq(Seq(Bytes)) /\ Len(f \o g) = Len(f) + Len(g)
      /\ \A i \in 1 .. Len(f) + Len(g) : (f \o g)[i] = IF i <= Len(f) THEN f[i] ELSE g[i - Len(f)]
  BY ConcatProperties
<1>6. Len(f) = 1 /\ Len(g) = 1 /\ Len(h) = 2
  BY <1>2, <1>3
<1>7. PICK e \in Seq(Seq(Bytes)) : e = f \o g
  BY <1>5
<1>10. Len(e) = 2 /\ \A i \in 1 .. 2 : e[i] = IF i <= 1 THEN f[i] ELSE g[i - 1]
  <2>1. Len(f) + Len(g) = 2
    BY <1>6
  <2>2. \A i \in 1 .. 2 : e[i] = IF i <= Len(f) THEN f[i] ELSE g[i - Len(f)]
    BY <1>5, <1>7, <2>1
  <2> QED
    BY <1>5, <1>6, <1>7, <2>1, <2>2
<1>8. \A i \in 1 .. 2 : e[i] = h[i]
  <2> TAKE i \in 1 .. 2
  <2>1. i = 1 \/ i = 2
    OBVIOUS
  <2>2. e[1] = f[1] /\ e[2] = g[1]
    BY <1>10
  <2>3. e[1] = h[1] /\ e[2] = h[2]
    BY <1>4, <2>2
  <2> QED
    BY <2>1, <2>3
<1>9. e = h
  <2>1. Len(e) = Len(h) /\ \A i \in 1 .. Len(e) : e[i] = h[i]
    BY <1>6, <1>8, <1>10
  <2> QED
    BY <2>1, SeqEqual
<1> QED
  BY <1>3, <1>7, <1>9

LEMMA ThreeChunks ==
  ASSUME NEW a \in Seq(Bytes), NEW b \in Seq(Bytes), NEW c \in Seq(Bytes)
  PROVE  <<a>> \o <<b, c>> = <<a, b, c>>
<1>1. <<a>> \in Seq(Seq(Bytes)) /\ <<b, c>> \in Seq(Seq(Bytes)) /\ <<a, b, c>> \in Seq(Seq(Bytes))
  OBVIOUS
<1>2. Len(<<a>>) = 1 /\ Len(<<b, c>>) = 2 /\ Len(<<a, b, c>>) = 3
  OBVIOUS
<1>3. PICK f \in Seq(Seq(Bytes)), g \in Seq(Seq(Bytes)), h \in Seq(Seq(Bytes)) : f = <<a>> /\ g = <<b, c>> /\ h = <<a, b, c>>
  BY <1>1
<1>4. /\ f[1] = a
      /\ g[1] = b
      /\ g[2] = c
      /\ h[1] = a
      /\ h[2] = b
      /\ h[3] = c
  BY <1>3
<1>5. /\ f \o g \in Seq(Seq(Bytes)) /\ Len(f \o g) = Len(f) + Len(g)
      /\ \A i \in 1 .. Len(f) + Len(g) : (f \o g)[i] = IF i <= Len(f) THEN f[i] ELSE g[i - Len(f)]
  BY ConcatProperties
<1>6. Len(f) = 1 /\ Len(g) = 2 /\ Len(h) = 3
  BY <1>2, <1>3
<1>7. PICK e \in Seq(Seq(Bytes)) : e = f \o g
  BY <1>5
<1>10. Len(e) = 3 /\ \A i \in 1 .. 3 : e[i] = IF i <= 1 THEN f[i] ELSE g[i - 1]
  <2>1. Len(f) + Len(g) = 3
    BY <1>6
  <2>2. \A i \in 1 .. 3 : e[i] = IF i <= Len(f) THEN f[i] ELSE g[i - Len(f)]
    BY <1>5, <1>7, <2>1
  <2> QED
    BY <1>5, <1>6, <1>7, <2>1, <2>2
<1>8. \A i \in 1 .. 3 : e[i] = h[i]
  <2> TAKE i \in 1 .. 3
  <2>1. i = 1 \/ i = 2 \/ i = 3
    OBVIOUS
  <2>2. e[1] = f[1] /\ e[2] = g[1] /\ e[3] = g[2]
    BY <1>10
  <2>3. e[1] = h[1] /\ e[2] = h[2] /\ e[3] = h[3]
    BY <1>4, <2>2
  <2> QED
    BY <2>1, <2>3
<1>9. e = h
  <2>1. Len(e) = Len(h) /\ \A i \in 1 .. Len(e) : e[i] = h[i]
    BY <1>6, <1>8, <1>10
  <2> QED
    BY <2>1, SeqEqual
<1> QED
  BY <1>3, <1>7, <1>9

LEMMA FourChunks ==
  ASSUME NEW a \in Seq(Bytes), NEW b \in Seq(Bytes), NEW c \in Seq(Bytes), NEW d \in Seq(Bytes)
  PROVE  <<a>> \o <<b, c, d>> = <<a, b, c, d>>
<1>1. <<a>> \in Seq(Seq(Bytes)) /\ <<b, c, d>> \in Seq(Seq(Bytes)) /\ <<a, b, c, d>> \in Seq(Seq(Bytes))
  OBVIOUS
<1>2. Len(<<a>>) = 1 /\ Len(<<b, c, d>>) = 3 /\ Len(<<a, b, c, d>>) = 4
  OBVIOUS
<1>3. PICK f \in Seq(Seq(Bytes)), g \in Seq(Seq(Bytes)), h \in Seq(Seq(Bytes)) : f = <<a>> /\ g = <<b, c, d>> /\ h = <<a, b, c, d>>
  BY <1>1
<1>4. /\ f[1] = a
      /\ g[1] = b
      /\ g[2] = c
      /\ g[3] = d
      /\ h[1] = a
      /\ h[2] = b
      /\ h[3] = c
      /\ h[4] = d
  BY <1>3
<1>5. /\ f \o g \in Seq(Seq(Bytes)) /\ Len(f \o g) = Len(f) + Len(g)
      /\ \A i \in 1 .. Len(f) + Len(g) : (f \o g)[i] = IF i <= Len(f) THEN f[i] ELSE g[i - Len(f)]
  BY ConcatProperties
<1>6. Len(f) = 1 /\ Len(g) = 3 /\ Len(h) = 4
  BY <1>2, <1>3
<1>7. PICK e \in Seq(Seq(Bytes)) : e = f \o g
  BY <1>5
<1>10. Len(e) = 4 /\ \A i \in 1 .. 4 : e[i] = IF i <= 1 THEN f[i] ELSE g[i - 1]
  <2>1. Len(f) + Len(g) = 4
    BY <1>6
  <2>2. \A i \in 1 .. 4 : e[i] = IF i <= Len(f) THEN f[i] ELSE g[i - Len(f)]
    BY <1>5, <1>7, <2>1
  <2> QED
    BY <1>5, <1>6, <1>7, <2>1, <2>2
<1>8. \A i \in 1 .. 4 : e[i] = h[i]
  <2> TAKE i \in 1 .. 4
  <2>1. i = 1 \/ i = 2 \/ i = 3 \/ i = 4
    OBVIOUS
  <2>2. e[1] = f[1] /\ e[2] = g[1] /\ e[3] = g[2] /\ e[4] = g[3]
    BY <1>10
  <2>3. e[1] = h[1] /\ e[2] = h[2] /\ e[3] = h[3] /\ e[4] = h[4]
    BY <1>4, <2>2
  <2> QED
    BY <2>1, <2>3
<1>9. e = h
  <2>1. Len(e) = Len(h) /\ \A i \in 1 .. Len(e) : e[i] = h[i]
    BY <1>6, <1>8, <1>10
  <2> QED
    BY <2>1, SeqEqual
<1> QED
  BY <1>3, <1>7, <1>9

\* Four chunks, some of which may be empty.
LEMMA InFourChunks ==
  ASSUME NEW s \in Seq(Bytes), NEW c \in Cuts(Len(s))
  PROVE  Delivers(<<SubSeq(s, 1, c[1]), SubSeq(s, c[1] + 1, c[2]), SubSeq(s, c[2] + 1, c[3]),
                    SubSeq(s, c[3] + 1, Len(s))>>, s)
<1>1. PICK l \in Nat : l = Len(s)
  BY LenProperties
<1>2. PICK i \in Nat, j \in Nat, k \in Nat :
        i = c[1] /\ j = c[2] /\ k = c[3] /\ i <= j /\ j <= k /\ k <= l
  BY <1>1 DEF Cuts
<1>13. /\ j <= Len(s) /\ k <= Len(s) /\ l <= Len(s) /\ l \in 0 .. Len(s)
       /\ i \in 0 .. l /\ j \in 0 .. l /\ k \in 0 .. l /\ i \in 0 .. j /\ j \in 0 .. k /\ 0 \in 0 .. i
  BY <1>1, <1>2
<1>3. PICK p \in Seq(Bytes) : p = SubSeq(s, 1, i)
  <2>1. i \in 0 .. Len(s)
    BY <1>1, <1>2
  <2> QED
    BY <2>1, PrefixFacts
<1>4. PICK q \in Seq(Bytes) : q = SubSeq(s, i + 1, j)
  <2>1. SubSeq(s, i + 1, j) \in Seq(Bytes)
    BY <1>2, <1>13, MiddleFacts
  <2> QED
    BY <2>1
<1>5. PICK u \in Seq(Bytes) : u = SubSeq(s, j + 1, k)
  <2>1. SubSeq(s, j + 1, k) \in Seq(Bytes)
    BY <1>2, <1>13, MiddleFacts
  <2> QED
    BY <2>1
<1>6. PICK v \in Seq(Bytes) : v = SubSeq(s, k + 1, l)
  <2>1. SubSeq(s, k + 1, l) \in Seq(Bytes)
    BY <1>2, <1>13, MiddleFacts
  <2> QED
    BY <2>1
<1>7. Delivers(<<v>>, v)
  <2>1. Delivers(<<v>> \o <<>>, v \o <<>>)
    BY NothingDelivered, ChunkBefore
  <2>2. <<v>> \o <<>> = <<v>> /\ v \o <<>> = v
    <3>1. <<v>> \in Seq(Seq(Bytes))
      OBVIOUS
    <3> QED
      BY <3>1, ConcatEmptySeq
  <2> QED
    BY <2>1, <2>2
<1>8. Delivers(<<u>> \o <<v>>, u \o v)
  BY <1>7, ChunkBefore
<1>9. Delivers(<<q>> \o (<<u>> \o <<v>>), q \o (u \o v))
  BY <1>8, ChunkBefore
<1>10. Delivers(<<p>> \o (<<q>> \o (<<u>> \o <<v>>)), p \o (q \o (u \o v)))
  BY <1>9, ChunkBefore
<1>11. <<p>> \o (<<q>> \o (<<u>> \o <<v>>)) = <<p, q, u, v>>
  <2>1. <<u>> \o <<v>> = <<u, v>>
    BY TwoChunks
  <2>2. <<q>> \o <<u, v>> = <<q, u, v>>
    BY ThreeChunks
  <2>3. <<p>> \o <<q, u, v>> = <<p, q, u, v>>
    BY FourChunks
  <2> QED
    BY <2>1, <2>2, <2>3
<1>12. p \o (q \o (u \o v)) = s
  <2>1. u \o v = SubSeq(s, j + 1, l)
    <3>1. SubSeq(s, j + 1, k) \o SubSeq(s, k + 1, l) = SubSeq(s, j + 1, l)
      BY <1>13, Joined
    <3> QED
      BY <1>5, <1>6, <3>1
  <2>2. q \o SubSeq(s, j + 1, l) = SubSeq(s, i + 1, l)
    <3>1. SubSeq(s, i + 1, j) \o SubSeq(s, j + 1, l) = SubSeq(s, i + 1, l)
      BY <1>13, Joined
    <3> QED
      BY <1>4, <3>1
  <2>3. p \o SubSeq(s, i + 1, l) = SubSeq(s, 0 + 1, l)
    <3>1. p = SubSeq(s, 0 + 1, i)
      BY <1>3
    <3>3. SubSeq(s, 0 + 1, i) \o SubSeq(s, i + 1, l) = SubSeq(s, 0 + 1, l)
      BY <1>13, Joined
    <3> QED
      BY <3>1, <3>3
  <2>4. SubSeq(s, 0 + 1, l) = s
    BY <1>1, SubSeqFull
  <2> QED
    BY <2>1, <2>2, <2>3, <2>4
<1> QED
  BY <1>1, <1>2, <1>3, <1>4, <1>5, <1>6, <1>10, <1>11, <1>12

LEMMA EveryDelivery ==
  ASSUME NEW s \in Seq(Bytes), NEW chunks \in Deliveries(s)
  PROVE  Delivers(chunks, s)
BY ByteByByte, InFourChunks DEF Deliveries

LEMMA PairFacts ==
  ASSUME NEW two \in Pairs
  PROVE  two[1] \in Seq(Bytes) /\ two[2] \in Seq(Bytes) /\ Len(two[2]) <= MaxLength
<1>1. PICK b \in Nat : b = Base /\ b > 1
  BY BaseAssumption
<1>2. b * b - 1 \in Nat /\ b * b - 1 >= 2
  BY <1>1
<1>3. 1 \in Bytes /\ MaxLength = b * b - 1
  BY <1>1 DEF Bytes, MaxLength
<1>4. PICK n \in 0 .. MaxLength + 2, l \in 0 .. 2 : two[1] \in [1 .. n -> {1}] /\ two[2] \in [1 .. l -> Bytes]
  BY DEF Pairs
<1>5. n \in Nat /\ l \in Nat /\ l <= MaxLength
  BY <1>2, <1>3, <1>4
<1>6. two[1] \in [1 .. n -> Bytes]
  BY <1>3, <1>4
<1>7. two[1] \in Seq(Bytes)
  BY <1>5, <1>6
<1>8. two[2] \in Seq(Bytes) /\ Len(two[2]) = l
  BY <1>4, <1>5
<1> QED
  BY <1>5, <1>7, <1>8

\* However the stream cuts two messages that were sent one after the other, they are
\* received as they were sent, and a message that is too long is cut off.
THEOREM FramesAlwaysSurvive == Spec => []FramesSurvive
<1>1. KeepsMessages
  <2> SUFFICES ASSUME NEW two \in Pairs PROVE Survive(two[1], two[2])
    BY DEF KeepsMessages
  <2>1. PICK m \in Seq(Bytes), next \in Seq(Bytes) :
          m = two[1] /\ next = two[2] /\ Len(next) <= MaxLength
    BY PairFacts
  <2>2. PICK t \in Seq(Bytes) : t = Frame(next) /\ t = Frame(next) \o <<>> /\ Frame(m) \o t \in Seq(Bytes)
    <3>1. Frame(next) \in Seq(Bytes) /\ <<>> \in Seq(Bytes)
      BY FrameFacts
    <3>2. Frame(next) = Frame(next) \o <<>> /\ Frame(m) \o Frame(next) \in Seq(Bytes)
      BY <3>1, ConcatEmptySeq, FrameFacts
    <3> QED
      BY <3>1, <3>2
  <2>3. ASSUME NEW chunks \in Deliveries(Frame(m) \o t)
        PROVE  /\ Recved(chunks).ok
               /\ Recved(chunks).data = SubSeq(m, 1, Len(m) % (MaxLength + 1))
               /\ Len(m) <= MaxLength =>
                    Recved(Recved(chunks).rest).ok /\ Recved(Recved(chunks).rest).data = next
    <3>1. Delivers(chunks, Frame(m) \o t)
      BY <2>2, EveryDelivery
    <3>2. Recved(chunks).ok /\ Recved(chunks).data = SubSeq(m, 1, Decoded(Len(m)))
      BY <3>1, RecvCutsOff
    <3>3. Decoded(Len(m)) = Len(m) % (MaxLength + 1)
      <4>1. Base * Base \in Nat
        BY BaseAssumption
      <4>2. Base * Base - 1 + 1 = Base * Base
        BY <4>1
      <4> QED
        BY <4>2 DEF Decoded, MaxLength
    <3>4. ASSUME Len(m) <= MaxLength
          PROVE  Recved(Recved(chunks).rest).ok /\ Recved(Recved(chunks).rest).data = next
      <4>1. Delivers(Recved(chunks).rest, t)
        BY <3>1, <3>4, RecvGivesMessage
      <4>2. Delivers(Recved(chunks).rest, Frame(next) \o <<>>)
        BY <2>2, <4>1
      <4>3. <<>> \in Seq(Bytes)
        OBVIOUS
      <4>4. PICK after : after = Recved(chunks).rest
        OBVIOUS
      <4>5. Recved(after).ok /\ Recved(after).data = next
        <5>1. PICK nothing \in Seq(Bytes) : nothing = <<>>
          BY <4>3
        <5>2. Delivers(after, Frame(next) \o nothing)
          BY <4>2, <4>4, <5>1
        <5> QED
          BY <2>1, <5>2, RecvGivesMessage
      <4> QED
        BY <4>4, <4>5
    <3> QED
      BY <3>2, <3>3, <3>4
  <2> QED
    BY <2>1, <2>2, <2>3 DEF Survive
<1>2. FramesSurvive
  BY <1>1 DEF FramesSurvive
<1> QED
  BY <1>2, PTL
===============================================================================
