------------------------------- MODULE MCTunnel -------------------------------
(***************************************************************************)
(* Small instances of Tunnel.                                              *)
(***************************************************************************)
EXTENDS Tunnel

CONSTANTS c1, c2

One    == [c \in Channels |-> 1]
Two    == [c \in Channels |-> 2]
===============================================================================
