---------------------------- MODULE MCBootstrap ----------------------------
(* Small instances of Bootstrap: peer 1 is the server, 2 and 3 can serve. *)
EXTENDS Bootstrap

MCPeers == 1..4
MCServerCandidates == {2, 3}
MCPerfPeers == {3}
MCOutOf == [p \in MCPeers |-> 1]
=============================================================================
