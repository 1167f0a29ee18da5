---------------------------- MODULE MCPeerClients ----------------------------
(* PeerClients with two peers: a config may have one, both or none of them. *)
EXTENDS PeerClients, TLC

CONSTANTS p1, p2, main, timer1, timer2, s1, s2, s3

MCPeerSets == {{p1}, {p1, p2}}

=============================================================================
