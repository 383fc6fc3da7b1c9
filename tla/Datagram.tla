------------------------------ MODULE Datagram ------------------------------
(***************************************************************************)
(* The socket of a UDP or ICMP listener (udp-socket.c, icmp-socket.c,      *)
(* raw-socket.c).  It has one receive buffer and one send buffer for all   *)
(* its peers; remote_addr is the peer it heard of last, or the one a       *)
(* server has set to answer.  A datagram is put into the send buffer with  *)
(* the address it is for.  A payload is named by the peer whose            *)
(* conversation it belongs to.                                             *)
(***************************************************************************)
EXTENDS Integers, Sequences

CONSTANTS
    Peer, NULL,
    Denied,           \* peers that svz_sock_check_access turns away
    MaxRecv, MaxSend  \* sizes of the buffers in datagrams

ASSUME DatagramAssumption ==
    Denied \subseteq Peer /\ NULL \notin Peer /\ MaxRecv \in Nat \ {0} /\ MaxSend \in Nat \ {0}

Idle == [remote |-> NULL, recv |-> <<>>, send |-> <<>>]

\* check_packet, after svz_raw_check_ip_header: a raw socket sees what is sent to others,
\* too.  A listener takes all packets of its type, a connected socket those that carry
\* its own number.
Accepts(listening, s, number) == listening \/ number = s

\* A packet that is not accepted (of another type, or one that this process sent) has
\* changed the remote address already.
Rejected(d, p) == [d EXCEPT !.remote = p]

\* udp_read_socket and read_socket: the packet is added to what is in the buffer.
Received(d, p) == [d EXCEPT !.remote = p, !.recv = Append(@, p)]

\* What svz_udp_check_request hands on: all that is in the buffer.
Contents(d) == {d.recv[i] : i \in 1..Len(d.recv)}

RecvFull(d) == Len(d.recv) = MaxRecv

\* svz_udp_check_request and svz_icmp_check_request clear the buffer when the request
\* has been handled; a packet that was denied access stays.
Handled(d) == [d EXCEPT !.recv = <<>>]

\* svz_udp_write and svz_icmp_write: to the remote address of the moment.  The buffer
\* of a socket that is not connected is not flushed; without space the write fails.
SendFull(d) == Len(d.send) = MaxSend

Written(d, kind, payload) ==
    [d EXCEPT !.send = Append(@, [to |-> d.remote, kind |-> kind, payload |-> payload])]

\* Mutation: packets go to the socket's remote address of the moment.
Sent_Remote(d) == [Head(d.send) EXCEPT !.to = d.remote]

\* svz_udp_write_socket and svz_icmp_write_socket: what goes out.
Sent(d) == Head(d.send)

Reduced(d) == [d EXCEPT !.send = Tail(@)]
=============================================================================
