------------------------------ MODULE MsgRecving ------------------------------
(***************************************************************************)
(* Segmentation and reassembly of one message of the UDP transport         *)
(* (proto/udp/udp.go, msgSending and msgRecving), as pure operators.       *)
(*                                                                         *)
(* Bytes are abstracted: a segment is the pair of the message it was cut   *)
(* from and its order id, and what has been written to readBuf together    *)
(* with what is parked in `saved' is one function `body' from order ids to *)
(* segments: the code always concatenates in increasing order id, the ids  *)
(* below `next' being in readBuf already and the others in `saved'.        *)
(* Lengths are kept, because completion is decided by a sum of lengths.    *)
(***************************************************************************)
EXTENDS Integers, FiniteSets

CONSTANTS
  Messages,     \* the messages given to SendMsg, one per call
  Need,         \* Need[m]: length of m with its 4-byte length prefix
  SegSize,      \* segmentBodyMaxSize
  MaxSegments   \* the most segments a message is cut into (uint16 in the code)

\* Cutting Need[m] bytes into bodies of SegSize bytes.
SegmentCount(m) ==
  Need[m] \div SegSize + (IF Need[m] % SegSize = 0 THEN 0 ELSE 1)

ASSUME SegSizeAssumption == SegSize \in Nat /\ SegSize > 4
ASSUME NeedAssumption    == /\ Need \in [Messages -> Nat]
                            /\ \A m \in Messages : Need[m] > 4
ASSUME CountAssumption   == /\ MaxSegments \in Nat
                            /\ \A m \in Messages : SegmentCount(m) <= MaxSegments

OrderIDs == 0 .. MaxSegments - 1

MaxOrderID(m) == SegmentCount(m) - 1

Segment(m, i) == [msg |-> m, oid |-> i]
Segments      == [msg : Messages, oid : OrderIDs]

\* The body of a segment is full but for the last one of its message.
BodyLen(s) ==
  IF (s.oid + 1) * SegSize > Need[s.msg]
  THEN Need[s.msg] - s.oid * SegSize
  ELSE SegSize

\* What a receiver that has the whole of m, and nothing else, holds.
Whole(m) == [i \in 0 .. MaxOrderID(m) |-> Segment(m, i)]

-------------------------------------------------------------------------------
\* Receiving records.

Bodies   == UNION {[D -> Segments] : D \in SUBSET OrderIDs}
Recvings == [body : Bodies, need : Nat, read : Int, next : OrderIDs \cup {MaxSegments},
             largest : OrderIDs \cup {0}, completed : BOOLEAN]

NewRecving == [body |-> [i \in {} |-> i],
               need |-> 0, read |-> 0, next |-> 0, largest |-> 0,
               completed |-> FALSE]

\* Order ids that have not been written to readBuf yet.
Parked(r) == {i \in DOMAIN r.body : i >= r.next}

\* The first test of Save: a segment that is there already is dropped.
Duplicate(r, s) == s.oid < r.next \/ s.oid \in DOMAIN r.body

\* mistake: one step per saved segment, those written before included
NextGapCounted(n, D) == n + 1 + Cardinality(D)

\* The value at which the loop `for { m.nextID++ ... }' stops.
NextGap(n, D) ==
  CHOOSE k \in (n + 1) .. MaxSegments :
    /\ k \notin D
    /\ \A j \in (n + 1) .. (k - 1) : j \in D

LargestLatest(r, s) == s.oid                \* mistake: not the maximum

\* m.largestOrderID after s.
Largest(r, s) == IF r.largest < s.oid THEN s.oid ELSE r.largest

EnoughUndeclared(need, read) == need <= read    \* mistake: no length read yet

\* The test for completion: the declared length has been read from segment 0
\* and the lengths of ALL the segments held, those that do not follow readBuf
\* included, add up to it.
Enough(need, read) == need > 0 /\ need <= read

\* Save of a segment that is not a duplicate.
SaveFresh(r, s) ==
  LET body == [i \in DOMAIN r.body \cup {s.oid} |->
                 IF i = s.oid THEN s ELSE r.body[i]]
      need == IF s.oid = 0 /\ r.next = 0 THEN Need[s.msg] ELSE r.need
      read == r.read + BodyLen(s)
  IN  [body      |-> body,
       need      |-> need,
       read      |-> read,
       next      |-> IF s.oid = r.next THEN NextGap(r.next, DOMAIN r.body) ELSE r.next,
       largest   |-> Largest(r, s),
       completed |-> r.completed \/ Enough(need, read)]

Save(r, s) == IF Duplicate(r, s) THEN r ELSE SaveFresh(r, s)

\* GetMissing, without the largest order id it also returns.
GetMissing(r) ==
  IF r.completed THEN {}
  ELSE {i \in OrderIDs : r.next <= i /\ i < r.largest /\ i \notin DOMAIN r.body}

\* The n smallest members of a set of order ids: a loop over a list in
\* increasing order that stops when n of them have been used up.
FirstN(S, n) == {i \in S : Cardinality({j \in S : j < i}) < n}

===============================================================================
