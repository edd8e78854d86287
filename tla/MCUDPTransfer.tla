---------------------------- MODULE MCUDPTransfer ----------------------------
(***************************************************************************)
(* Small instances of UDPTransfer.  Segment bodies have 5 units, so that   *)
(* the 4 of the length prefix fit into segment 0.                          *)
(***************************************************************************)
EXTENDS UDPTransfer, TLC

CONSTANTS m1, m2, m3

\* m1: two segments; m2: two segments, the second one short.
TwoTwo == (m1 :> 10) @@ (m2 :> 8)
\* m1: three segments, the last one short; m2: one segment.
ThreeOne == (m1 :> 13) @@ (m2 :> 5)
\* m1: three segments; m2: two; m3: one.
ThreeTwoOne == (m1 :> 13) @@ (m2 :> 8) @@ (m3 :> 5)
===============================================================================
