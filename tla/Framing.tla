------------------------------- MODULE Framing -------------------------------
(***************************************************************************)
(* Messages on a byte stream: BaseConn and SafeConn of conn.go.  A message *)
(* is sent as its length in two bytes and its bytes, in one Write; the     *)
(* other end reads the length and then as many bytes, in as many Reads as  *)
(* the stream takes to deliver them.  The cipher of SafeConn is a stream   *)
(* cipher that is applied byte by byte and changes nothing here.           *)
(***************************************************************************)
EXTENDS Integers, Sequences

CONSTANT Base        \* how many values a byte has: 256 in the code

ASSUME BaseAssumption == Base \in Nat \ {0, 1}

Bytes     == 0 .. Base - 1
MaxLength == Base * Base - 1

\* binary.Write(buf, binary.BigEndian, uint16(len(message)))
Field(n) == LET dlen == n % (Base * Base) IN <<dlen \div Base, dlen % Base>>

\* `if dlen > maxMessageLength' looks at the uint16, so nothing is ever refused.
Frame(m) == Field(Len(m)) \o m

Failed == [ok |-> FALSE, data |-> <<>>, rest |-> <<>>]

\* conn.Read: at most what is left of one chunk and at most what is wanted.
Read(n, chunks) == IF Len(Head(chunks)) <= n THEN Len(Head(chunks)) ELSE n

\* What the stream has left after it.
Unread(n, chunks) ==
  LET chunk == SubSeq(Head(chunks), Read(n, chunks) + 1, Len(Head(chunks)))
  IN  (IF chunk = <<>> THEN <<>> ELSE <<chunk>>) \o Tail(chunks)

\* mustRecv, of n bytes from a stream that delivers the chunks: Reads until they are there.
MustRecv[want \in Nat \X Seq(Seq(Bytes))] ==
  LET n == want[1]
      chunks == want[2]
  IN  IF n = 0 THEN [ok |-> TRUE, data |-> <<>>, rest |-> chunks]
      ELSE IF chunks = <<>> THEN Failed
      ELSE [MustRecv[<<n - Read(n, chunks), Unread(n, chunks)>>]
              EXCEPT !.data = SubSeq(Head(chunks), 1, Read(n, chunks)) \o @]

\* mistake: one Read is taken for all of the data
RecvedAtOnce(chunks) ==
  LET head == MustRecv[<<2, chunks>>]
  IN  IF head.ok /\ head.rest # <<>>
      THEN [ok |-> TRUE, rest |-> Tail(head.rest), data |-> Head(head.rest)]
      ELSE Failed

\* Recv of both: the length, then that many bytes.
Recved(chunks) ==
  LET head == MustRecv[<<2, chunks>>]
  IN  IF head.ok THEN MustRecv[<<head.data[1] * Base + head.data[2], head.rest>>] ELSE Failed

-------------------------------------------------------------------------------
\* What is checked.

\* Deliveries of a stream s: byte by byte, or in four chunks, some of them empty.
Cuts(n) == {c \in (0 .. n) \X (0 .. n) \X (0 .. n) : c[1] <= c[2] /\ c[2] <= c[3]}

Deliveries(s) ==
  {[i \in DOMAIN s |-> <<s[i]>>]} \cup
  {<<SubSeq(s, 1, c[1]), SubSeq(s, c[1] + 1, c[2]), SubSeq(s, c[2] + 1, c[3]),
     SubSeq(s, c[3] + 1, Len(s))>> : c \in Cuts(Len(s))}

\* Recv, twice, gives both messages.
Survive(m, next) ==
  \A chunks \in Deliveries(Frame(m) \o Frame(next)) :
    LET first == Recved(chunks)
    IN  /\ first.ok /\ first.data = SubSeq(m, 1, Len(m) % (MaxLength + 1))
        /\ Len(m) <= MaxLength => Recved(first.rest).ok /\ Recved(first.rest).data = next

\* A message of every length up to one that is too long, and another one.
Pairs == (UNION {[1 .. n -> {1}] : n \in 0 .. MaxLength + 2})
           \X (UNION {[1 .. n -> Bytes] : n \in 0 .. 2})

\* What FramesSurvive (MCLink) says of every pair.
KeepsMessages == \A two \in Pairs : Survive(two[1], two[2])
===============================================================================
