----------------------------- MODULE MCOpenTunnel -----------------------------
(***************************************************************************)
(* A small instance of OpenTunnel: two calls at one end and one at the     *)
(* other, all listening at that one, two of them on the same address.      *)
(***************************************************************************)
EXTENDS OpenTunnel

CONSTANTS a1, a2, b1, x, y

MCOwner   == [k \in Calls |-> IF k = b1 THEN "B" ELSE "A"]
MCReverse == [k \in Calls |-> k # b1]
MCAddr    == [k \in Calls |-> IF k = a2 THEN y ELSE x]
===============================================================================
