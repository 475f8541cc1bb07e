----------------------------- MODULE MCUdpQueue -----------------------------
(* A small instance of UdpQueue: the thread that pings and the requester.   *)
EXTENDS UdpQueue

MCKindsOf == [t \in {"Ping", "MontarListaPedidos"} |->
                 IF t = "Ping" THEN {"ping"} ELSE {"request"}]
MCSizeOf == [k \in Kinds |-> 1]
=============================================================================
