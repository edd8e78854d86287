------------------------------ MODULE MCUDPSocket ------------------------------
(***************************************************************************)
(* A small instance of UDPSocket: a server, and a client everything        *)
(* happens to.                                                             *)
(***************************************************************************)
EXTENDS UDPSocket

CONSTANTS client, server

MCClients  == {client}
MCMaxConns == [s \in {client, server} |-> IF s = client THEN 3 ELSE 2]
MCFaults   == [s \in {client, server} |->
                 IF s = server THEN {"idle", "close", "stop"}
                 ELSE {"lose", "idle", "close", "stop", "restart"}]
===============================================================================
