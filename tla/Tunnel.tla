------------------------------- MODULE Tunnel -------------------------------
(***************************************************************************)
(* The tunnel server (tunnel.c): what comes from a source goes to a target *)
(* connection made for it, and back.  A stream source (TCP, pipe) is a     *)
(* connection of its own; datagram sources (UDP, ICMP) share the listener  *)
(* and are told apart by their addresses.  Source and target are linked by *)
(* plain pointers through a tnl_connect_t, which each end may free.        *)
(*                                                                         *)
(* A tnl_connect_t is named by its target.  ENABLE_DEBUG is on, as it is   *)
(* by default; without it the checks for a missing link are not compiled.  *)
(***************************************************************************)
EXTENDS Datagram, FiniteSets

CONSTANTS
    Source, Target,  \* sockets of stream sources and of targets
    Listener,
    Modes            \* pairs of source and target protocol

Stream == {"tcp", "pipe"}
Dgram == {"udp", "icmp"}

ASSUME ModeAssumption == Modes \subseteq (Stream \cup Dgram) \X (Stream \cup Dgram)

\* A tnl_connect_t, and that sockets and structures are told apart.
Connect == [source : Source \cup {Listener}, peer : Peer \cup {NULL}]

ASSUME SocketAssumption ==
    /\ Source \cap Target = {} /\ Listener \notin Source \cup Target
    /\ NULL \notin Target \cup Connect

VARIABLES
    mode,    \* cfg->source->proto and cfg->target->proto
    sock,    \* sock[s]: "free", "open" or "killed"
    data,    \* data[s]: the tnl_connect_t of a source or a target
    conn,    \* conn[t]: its fields source_sock and ip:port, or NULL
    client,  \* client[p]: cfg->client of datagram sources
    port,    \* the listener's buffers, see Datagram
    heard,   \* heard[t]: whose requests went to the target
    wire,    \* the last datagram the listener sent
    down     \* svz_shutting_down_p

links == <<data, conn, client>>
vars == <<mode, sock, links, port, heard, wire, down>>

SrcStream == mode[1] \in Stream
TgtStream == mode[2] \in Stream

Init ==
    /\ mode \in Modes
    /\ sock = [s \in Source \cup Target \cup {Listener} |-> IF s = Listener THEN "open" ELSE "free"]
    /\ data = [s \in Source \cup Target |-> NULL] /\ conn = [t \in Target |-> NULL]
    /\ client = [p \in Peer |-> NULL] /\ port = Idle
    /\ heard = [t \in Target |-> {}] /\ wire = NULL /\ down = FALSE

Live(s) == sock[s] = "open" /\ ~down

\* A freed socket at the other end: nothing is said about what happens then.
Dangling(t) == data[t] # NULL /\ sock[conn[data[t]].source] = "free"

Kill(S) == sock' = [s \in DOMAIN sock |-> IF s \in S /\ sock[s] = "open" THEN "killed" ELSE sock[s]]

-----------------------------------------------------------------------------
(* Stream sources *)

\* tnl_create_socket: a new target, linked with its source.
tnl_create_socket(t, s, p) ==
    /\ sock[t] = "free"
    /\ data' = [x \in DOMAIN data |-> IF x \in {s, t} THEN t ELSE data[x]]
    /\ conn' = [conn EXCEPT ![t] = [source |-> s, peer |-> p]]

\* tnl_connect_socket: without a target the source is shut down, unlinked.
tnl_connect_socket(s) ==
    /\ SrcStream /\ sock[s] = "free" /\ Live(Listener)
    /\ \/ \E t \in Target :
            tnl_create_socket(t, s, NULL) /\ sock' = [sock EXCEPT ![s] = "open", ![t] = "open"]
       \/ sock' = [sock EXCEPT ![s] = "killed"] /\ UNCHANGED <<data, conn>>
    /\ UNCHANGED <<mode, client, port, heard, wire, down>>

\* The source's connection ends, or tnl_check_request_tcp_source cannot write to the
\* target; svz_udp_write and svz_icmp_write mark a target of theirs as killed then.
SourceEnds(s) ==
    /\ Live(s)
    /\ \/ Kill({s})
       \/ ~TgtStream /\ data[s] # NULL /\ Kill({s, data[s]})
    /\ UNCHANGED <<mode, links, port, heard, wire, down>>

\* tnl_disconnect_source: a stream target follows.
tnl_disconnect_source(s) ==
    IF TgtStream /\ data[s] # NULL
    THEN /\ sock' = [sock EXCEPT ![s] = "free", ![data[s]] = "killed"]
         /\ data' = [data EXCEPT ![s] = NULL, ![data[s]] = NULL]
         /\ conn' = [conn EXCEPT ![data[s]] = NULL]
    ELSE sock' = [sock EXCEPT ![s] = "free"] /\ data' = [data EXCEPT ![s] = NULL] /\ UNCHANGED conn

-----------------------------------------------------------------------------
(* Datagram sources *)

\* tnl_send_request_source: what is in the receive buffer goes to the target of a peer;
\* a write that fails kills the target, and none gets to a killed one.
tnl_send_request_source(t, requests) ==
    \/ /\ sock[t] # "killed" /\ sock' = [sock EXCEPT ![t] = "open"]
       /\ heard' = [heard EXCEPT ![t] = @ \cup requests]
    \/ sock' = [sock EXCEPT ![t] = "killed"] /\ UNCHANGED heard

\* tnl_handle_request_udp_source and tnl_handle_request_icmp_source: to the target that
\* the peer has, or to a new one.
tnl_handle_request_source(p, requests) ==
    \/ client[p] # NULL /\ tnl_send_request_source(client[p], requests) /\ UNCHANGED links
    \/ /\ client[p] = NULL
       /\ \E t \in Target :
            /\ tnl_create_socket(t, Listener, p)
            /\ client' = [client EXCEPT ![p] = t]
            /\ tnl_send_request_source(t, requests)
    \/ client[p] = NULL /\ UNCHANGED <<sock, links, heard>>  \* no target could be made

\* udp_read_socket and read_socket of the listener.
ListenerPacket(p) ==
    /\ ~SrcStream /\ Live(Listener) /\ ~RecvFull(port)
    /\ \/ /\ p \in Denied
          /\ port' = Received(port, p) /\ UNCHANGED <<sock, links, heard>>
       \/ /\ p \notin Denied
          /\ port' = Handled(Received(port, p))
          /\ tnl_handle_request_source(p, Contents(Received(port, p)))
    /\ UNCHANGED <<mode, wire, down>>

\* read_socket of the ICMP listener: not a packet for it.
ListenerNoise(p) ==
    /\ mode[1] = "icmp" /\ Live(Listener) /\ port' = Rejected(port, p)
    /\ UNCHANGED <<mode, sock, links, heard, wire, down>>

\* The buffer is full of denied packets, or an ICMP close packet comes: the listener is
\* shut down like a connection.
ListenerLost ==
    /\ ~SrcStream /\ Live(Listener)
    /\ RecvFull(port) \/ mode[1] = "icmp"
    /\ Kill({Listener})
    /\ UNCHANGED <<mode, links, port, heard, wire, down>>

\* svz_udp_write_socket and svz_icmp_write_socket of the listener.  A peer that cannot be
\* sent to costs all of them the listener.
ListenerSend ==
    /\ ~SrcStream /\ Live(Listener) /\ port.send # <<>>
    /\ \/ wire' = Sent(port) /\ port' = Reduced(port) /\ UNCHANGED sock
       \/ Kill({Listener}) /\ UNCHANGED <<wire, port>>
    /\ UNCHANGED <<mode, links, heard, down>>

-----------------------------------------------------------------------------
(* Targets *)

\* tnl_check_request_tcp_target and tnl_handle_request_udp_target and _icmp_target:
\* back to the source.  The listener gets the address of the peer first (not the one
\* with the last request).
Remote(t) == [port EXCEPT !.remote = conn[data[t]].peer]

\* The source, and the target unless it is an ICMP socket: read_socket does not look at
\* what check_request returns.
With(t, s) == {s} \cup IF mode[2] = "icmp" THEN {} ELSE {t}

\* tnl_send_request_target to the listener, of data that came for target q: what svz_udp_write
\* or svz_icmp_write makes of it.  The write that does not fit marks the listener as killed.
tnl_send_request_target(t, q) ==
    \/ sock[Listener] = "killed" /\ port' = Remote(t) /\ UNCHANGED sock
    \/ /\ sock[Listener] = "open" /\ ~SendFull(port)
       /\ port' = Written(Remote(t), "data", conn[q].peer) /\ UNCHANGED sock
    \/ /\ sock[Listener] = "open" /\ SendFull(port) /\ port' = Remote(t)
       /\ Kill(With(t, Listener))

\* A stream source that cannot be written to is shut down with the target; success leaves
\* no trace here.  An ICMP target sees the packets for the others, too.
TargetData(t) == \E q \in Target :
    /\ Live(t) /\ data[t] # NULL /\ ~Dangling(t)
    /\ conn[q] # NULL /\ IF mode[2] = "icmp" THEN Accepts(FALSE, t, q) ELSE q = t
    /\ \/ SrcStream /\ Kill(With(t, conn[data[t]].source)) /\ UNCHANGED port
       \/ ~SrcStream /\ tnl_send_request_target(t, q)
    /\ UNCHANGED <<mode, links, heard, wire, down>>

\* The target's connection ends, fails, or is idle for too long (tnl_idle); one that
\* was unlinked by its source ends, too.
TargetEnds(t) ==
    /\ Live(t) /\ Kill({t})
    /\ UNCHANGED <<mode, links, port, heard, wire, down>>

\* Mutation: the source is not shut down with its target.
SourceFollows_Not(t, s) ==
    /\ data' = [data EXCEPT ![t] = NULL, ![s] = NULL]
    /\ conn' = [conn EXCEPT ![t] = NULL]
    /\ sock' = [sock EXCEPT ![t] = "free"]
    /\ UNCHANGED <<client, port>>

\* tnl_disconnect_target: a stream source follows, a datagram source is forgotten; an
\* ICMP source is told so, by way of the listener's remote address of the moment.
\* While the server shuts down the entries of cfg->client are left to tnl_finalize.
SourceFollows(t, s) ==
    /\ data' = [data EXCEPT ![t] = NULL, ![s] = NULL]
    /\ conn' = [conn EXCEPT ![t] = NULL]
    /\ sock' = [sock EXCEPT ![t] = "free", ![s] = IF down THEN @ ELSE "killed"]
    /\ UNCHANGED <<client, port>>

\* Mutation: the peer stays in the hash of clients.
ClientForgotten_Stays(t) ==
    /\ data' = [data EXCEPT ![t] = NULL]
    /\ conn' = [conn EXCEPT ![t] = NULL]
    /\ UNCHANGED client

ClientForgotten(t) ==
    /\ data' = [data EXCEPT ![t] = NULL]
    /\ conn' = [conn EXCEPT ![t] = NULL]
    /\ client' = [p \in Peer |-> IF client[p] = t THEN NULL ELSE client[p]]

ListenerTold(t) ==
    IF mode[1] = "icmp" /\ sock[Listener] = "open"
    THEN IF SendFull(port)
         THEN sock' = [sock EXCEPT ![t] = "free", ![Listener] = "killed"] /\ UNCHANGED port
         ELSE /\ sock' = [sock EXCEPT ![t] = "free"]
              /\ port' = Written(port, "close", conn[data[t]].peer)
    ELSE sock' = [sock EXCEPT ![t] = "free"] /\ UNCHANGED port

tnl_disconnect_target(t) ==
    \/ data[t] = NULL /\ sock' = [sock EXCEPT ![t] = "free"] /\ UNCHANGED <<links, port>>
    \/ data[t] # NULL /\ SrcStream /\ SourceFollows(t, conn[data[t]].source)
    \/ data[t] # NULL /\ ~SrcStream /\ ~down /\ ClientForgotten(t) /\ ListenerTold(t)
    \/ /\ data[t] # NULL /\ ~SrcStream /\ down
       /\ sock' = [sock EXCEPT ![t] = "free"] /\ data' = [data EXCEPT ![t] = NULL]
       /\ UNCHANGED <<conn, client, port>>

-----------------------------------------------------------------------------
\* The sweep, or svz_loop_post for all sockets.
Freed(s) == sock[s] = "killed" \/ (down /\ sock[s] = "open")

SweepSource(s) ==
    /\ Freed(s) /\ tnl_disconnect_source(s)
    /\ UNCHANGED <<mode, client, port, heard, wire, down>>

\* The source is looked at if it is a stream, or to tell an ICMP peer.
SweepTarget(t) ==
    /\ Freed(t) /\ (SrcStream \/ (mode[1] = "icmp" /\ ~down) => ~Dangling(t))
    /\ tnl_disconnect_target(t)
    /\ heard' = [heard EXCEPT ![t] = {}]
    /\ UNCHANGED <<mode, wire, down>>

SweepListener ==
    /\ Freed(Listener) /\ sock' = [sock EXCEPT ![Listener] = "free"]
    /\ UNCHANGED <<mode, links, port, heard, wire, down>>

Stop == ~down /\ down' = TRUE /\ UNCHANGED <<mode, sock, links, port, heard, wire>>

\* tnl_finalize after the last socket: svz_hash_destroy frees what cfg->client leads to.
tnl_finalize ==
    /\ down /\ \A s \in DOMAIN sock : sock[s] = "free"
    /\ client' = [p \in Peer |-> NULL]
    /\ conn' = [t \in Target |-> IF t \in {client[p] : p \in Peer} THEN NULL ELSE conn[t]]
    /\ UNCHANGED <<mode, sock, data, port, heard, wire, down>>

Next ==
    \/ \E s \in Source : tnl_connect_socket(s) \/ SourceEnds(s) \/ SweepSource(s)
    \/ \E p \in Peer : ListenerPacket(p) \/ ListenerNoise(p)
    \/ \E t \in Target : TargetData(t) \/ TargetEnds(t) \/ SweepTarget(t)
    \/ ListenerLost \/ ListenerSend \/ SweepListener \/ Stop \/ tnl_finalize

Spec ==
    /\ Init /\ [][Next]_vars
    /\ \A s \in Source : WF_vars(SweepSource(s))
    /\ \A t \in Target : WF_vars(SweepTarget(t))

-----------------------------------------------------------------------------
(* Properties *)

\* The pointers between the ends of a tunnel hold, in whatever order the ends go away,
\* while the server runs and while it stops.  A source's leads to a target that leads
\* back.  A target's leads to its own tnl_connect_t, and from there to a source that is
\* not freed; two kinds of freed sources are left behind, and these are all: those of
\* datagram targets (tnl_disconnect_source leaves the target linked to a stream), and
\* the listener, which the error of one peer ends.  The hash of clients leads a peer to
\* a target of its own, until the server stops.
LinksLive ==
    /\ \A s \in Source : data[s] # NULL =>
         /\ conn[data[s]] # NULL /\ conn[data[s]].source = s
         /\ sock[data[s]] # "free" /\ data[data[s]] = data[s]
    /\ \A t \in Target : data[t] # NULL =>
         /\ data[t] = t /\ conn[t] # NULL
         /\ sock[conn[t].source] = "free" => ~TgtStream \/ conn[t].source = Listener
    /\ ~down => \A p \in Peer : client[p] # NULL =>
         /\ sock[client[p]] # "free" /\ conn[client[p]] # NULL /\ conn[client[p]].peer = p

\* Peers of a datagram listener do not get each other's data, though they share its
\* buffers and its remote address, and each has a target of its own; what a peer sends
\* is mixed with nothing but packets of peers that were denied access, which stay in the
\* receive buffer.  Close messages of ICMP are an exception (tnl_disconnect_target does
\* not set the address).
Addressed ==
    /\ wire # NULL /\ wire.kind = "data" => wire.to = wire.payload
    /\ \A t \in Target : conn[t] # NULL /\ ~SrcStream => heard[t] \subseteq {conn[t].peer} \cup Denied

\* What svz_sock_check_access is for: nothing that a denied peer sends gets to a target.
\* It does: a denied packet waits in the receive buffer for the next one that is allowed.
DeniedUnheard == \A t \in Target : heard[t] \cap Denied = {}

\* The ends of a tunnel between streams go together.
EndsTogether ==
    \A s \in Source, t \in Target :
        /\ (sock[s] = "killed" /\ data[s] = t /\ TgtStream) ~> (sock[t] = "free")
        /\ (sock[t] = "killed" /\ data[s] = t /\ data[t] = t) ~> (sock[s] = "free")
=============================================================================
