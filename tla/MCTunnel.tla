------------------------------ MODULE MCTunnel ------------------------------
(* Each kind of source with each kind of target; pipes are like TCP connections. *)
EXTENDS Tunnel

MCModes == {<<"tcp", "tcp">>, <<"tcp", "udp">>, <<"udp", "tcp">>, <<"udp", "icmp">>, <<"icmp", "udp">>}
=============================================================================
