----------------------------- MODULE RecvBuffer -----------------------------
(***************************************************************************)
(* How input arrives at a server: svz_tcp_read_socket (tcp-socket.c) reads *)
(* what fits into the receive buffer, svz_sock_flood_protect kicks senders *)
(* that are too busy, and the check_request routine that                   *)
(* svz_sock_check_request installs (socket.c) cuts the buffer into packets *)
(* for handle_request, either behind each boundary or at a fixed size.     *)
(* svz_pipe_read_socket does the same for pipes.                           *)
(***************************************************************************)
EXTENDS Integers, Sequences, SequencesExt, FiniteSetsExt

CONSTANTS
    Byte,           \* the values of bytes
    Boundaries,     \* packet boundaries of servers, <<>> if there is none
    FixedSize,      \* boundary_size of packets without a boundary
    RecvSize,       \* recv_buffer_size
    FloodLimit,     \* flood_limit (100 in the code), 0: SVZ_SOFLG_NOFLOOD
    FloodGrain,     \* bytes that cost one more point (50 in the code)
    MaxStream       \* bound: number of bytes ever received

ASSUME BoundaryAssumption == Boundaries \subseteq Seq(Byte)
ASSUME SizeAssumption ==
    /\ FixedSize \in Nat \ {0} /\ RecvSize \in Nat \ {0}
    /\ FloodLimit \in Nat /\ FloodGrain \in Nat \ {0} /\ MaxStream \in Nat

VARIABLES
    boundary,       \* the boundary of this connection's server
    recv_buffer,    \* its first recv_buffer_fill bytes
    packets,        \* what handle_request was called with
    flood_points,
    killed,         \* "no", or why read_socket returned non-zero
    stream          \* history: all bytes received

vars == <<boundary, recv_buffer, packets, flood_points, killed, stream>>

boundary_size == IF boundary = <<>> THEN FixedSize ELSE Len(boundary)

Init ==
    /\ boundary \in Boundaries
    /\ recv_buffer = <<>> /\ packets = <<>> /\ stream = <<>>
    /\ flood_points = 0
    /\ killed = "no"

-----------------------------------------------------------------------------
(* Cutting the buffer: where the packet that begins at index p ends, 0 if    *)
(* there is no complete one.                                                 *)

\* Mutation: a boundary is only looked for where the packet begins.
BoundaryEnd_Unscanned(buf, p) ==
    IF p + boundary_size - 1 <= Len(buf)
         /\ SubSeq(buf, p, p + boundary_size - 1) = boundary
    THEN p + boundary_size - 1 ELSE 0

\* split_packet_and_dispatch and split_packet_unibyte_and_dispatch
BoundaryEnd(buf, p) ==
    LET found == {q \in p..(Len(buf) - boundary_size + 1) :
                    SubSeq(buf, q, q + boundary_size - 1) = boundary}
    IN  IF found = {} THEN 0 ELSE Min(found) + boundary_size - 1

\* split_packet_fixed_and_dispatch
FixedEnd(buf, p) ==
    IF p + boundary_size <= Len(buf) THEN p + boundary_size - 1 ELSE 0

PacketEnd(buf, p) ==
    IF boundary = <<>> THEN FixedEnd(buf, p) ELSE BoundaryEnd(buf, p)

\* The packets from index p on, and the bytes left behind the last of them.
RECURSIVE Cut(_, _)
Cut(buf, p) ==
    LET e == PacketEnd(buf, p)
    IN  IF e = 0 THEN [packets |-> <<>>, rest |-> SubSeq(buf, p, Len(buf))]
        ELSE LET more == Cut(buf, e + 1)
             IN  [more EXCEPT !.packets = <<SubSeq(buf, p, e)>> \o @]

-----------------------------------------------------------------------------
(* Operations *)

\* svz_sock_reduce_recv
Reduced(buf, cut) == cut.rest

\* handle_request is called for the packets in turn until it refuses one, in
\* which case the buffer stays as it is and the socket is given up.
CheckRequest(buf) ==
    LET cut == Cut(buf, 1)
    IN  \/ /\ packets' = packets \o cut.packets
           /\ recv_buffer' = Reduced(buf, cut)
           /\ killed' = "no"
        \/ \E n \in 1..Len(cut.packets) :
             /\ packets' = packets \o SubSeq(cut.packets, 1, n)
             /\ recv_buffer' = buf
             /\ killed' = "refused"

\* svz_sock_flood_protect
FloodPoints(n) ==
    IF FloodLimit = 0 THEN 0 ELSE flood_points + 1 + (n \div FloodGrain)

\* do_read
Space == RecvSize - Len(recv_buffer)

svz_tcp_read_socket(data) ==
    /\ killed = "no"
    /\ Len(stream) + Len(data) <= MaxStream
    /\ Len(data) <= Space
    /\ stream' = stream \o data
    /\ flood_points' = FloodPoints(Len(data))
    /\ IF flood_points' > FloodLimit
       THEN killed' = "flood" /\ UNCHANGED <<recv_buffer, packets>>
       ELSE CheckRequest(recv_buffer \o data)
    /\ UNCHANGED boundary

Overflow ==
    /\ killed = "no"
    /\ Space <= 0
    /\ killed' = "overflow"
    /\ UNCHANGED <<boundary, recv_buffer, packets, flood_points, stream>>

\* The peer closed the connection, or recv failed.
NoData ==
    /\ killed = "no" /\ Space > 0
    /\ killed' = "closed"
    /\ UNCHANGED <<boundary, recv_buffer, packets, flood_points, stream>>

\* svz_periodic_tasks, once a second
Second ==
    /\ killed = "no" /\ flood_points > 0
    /\ flood_points' = flood_points - 1
    /\ UNCHANGED <<boundary, recv_buffer, packets, killed, stream>>

Next ==
    \/ \E n \in 1..RecvSize : \E data \in [1..n -> Byte] :
         svz_tcp_read_socket(data)
    \/ Overflow \/ NoData \/ Second

Spec == Init /\ [][Next]_vars

-----------------------------------------------------------------------------
(* Properties *)

TypeOK ==
    /\ recv_buffer \in Seq(Byte) /\ Len(recv_buffer) <= RecvSize
    /\ packets \in Seq(Seq(Byte))
    /\ stream \in Seq(Byte) /\ Len(stream) <= MaxStream
    /\ boundary \in Boundaries
    /\ flood_points \in Nat
    /\ killed \in {"no", "refused", "flood", "overflow", "closed"}

\* Reference: a packet is complete with the byte that makes it end in the
\* boundary or gives it its size.
Complete(p) ==
    IF boundary = <<>> THEN Len(p) = FixedSize ELSE IsSuffix(boundary, p)

Arrives(acc, byte) ==
    LET p == Append(acc.rest, byte)
    IN  IF Complete(p) THEN [packets |-> Append(acc.packets, p), rest |-> <<>>]
                       ELSE [acc EXCEPT !.rest = p]

Reference ==
    FoldLeft(Arrives, [packets |-> <<>>, rest |-> <<>>], stream)

\* handle_request sees the packets of the stream, whatever pieces the stream
\* was received in, and only an incomplete packet is left waiting: the
\* boundary may be cut in two, come twice in one read or overlap itself.
\* Whatever happens to the connection, handle_request never sees a packet that
\* was not sent, nor one twice or out of order.  Packets of a fixed size may wait
\* for one byte of the next packet, but no second one is held back.
Reassembled ==
    /\ TypeOK
    /\ killed = "no" /\ boundary # <<>> =>
         [packets |-> packets, rest |-> recv_buffer] = Reference
    /\ IsPrefix(packets, Reference.packets)
    /\ killed = "no" => Len(Reference.packets) - Len(packets) <= 1
=============================================================================
