---------------------------- MODULE TunnelProofs ----------------------------
(***************************************************************************)
(* LinksLive and Addressed for any number of sources, targets and peers,   *)
(* any sizes of the buffers, and every pair of protocols.                  *)
(*                                                                         *)
(* The two ends of a tunnel know each other.  A source's tnl_connect_t is  *)
(* its target's, and leads back (SourceLinks).  A target has its own, made *)
(* for a stream source, whose target it stays if it is a stream, or for    *)
(* the listener (TargetLinks); the target that cfg->client has for a peer  *)
(* carries that peer's address (ClientLinks).  A target that was freed is  *)
(* known to nobody, so that its structure can be handed out again.         *)
(***************************************************************************)
EXTENDS Tunnel, TLAPS

USE SocketAssumption

Socket == Source \cup Target \cup {Listener}

\* A datagram of the send buffer: data go to the peer they are for.
Packet ==
    {m \in [to : Peer \cup {NULL}, kind : {"data", "close"}, payload : Peer \cup {NULL}] :
        m.kind = "data" => m.to = m.payload}

TypeOK ==
    /\ sock \in [Socket -> {"free", "open", "killed"}]
    /\ data \in [Source \cup Target -> Target \cup {NULL}]
    /\ conn \in [Target -> Connect \cup {NULL}]
    /\ client \in [Peer -> Target \cup {NULL}]
    /\ heard \in [Target -> SUBSET Peer]

Buffers ==
    /\ port.remote \in Peer \cup {NULL} /\ port.recv \in Seq(Denied) /\ port.send \in Seq(Packet)
    /\ port = [remote |-> port.remote, recv |-> port.recv, send |-> port.send]
    /\ wire \in Packet \cup {NULL}

SourceLinks ==
    \A s \in Source : data[s] # NULL =>
        /\ data[data[s]] = data[s] /\ conn[data[s]] # NULL /\ conn[data[s]].source = s
        /\ sock[s] # "free" /\ sock[data[s]] # "free"

TargetLinks ==
    \A t \in Target : data[t] # NULL =>
        /\ data[t] = t /\ conn[t] # NULL /\ sock[t] # "free"
        /\ SrcStream => conn[t].source \in Source
        /\ SrcStream /\ TgtStream => data[conn[t].source] = t
        /\ ~SrcStream => conn[t].source = Listener

ClientLinks ==
    \A p \in Peer : client[p] # NULL =>
        data[client[p]] = client[p] /\ conn[client[p]].peer = p

NoSources == \A s \in Source : sock[s] = "free" /\ data[s] = NULL
NoClients == \A p \in Peer : client[p] = NULL

Links ==
    /\ SrcStream => NoClients
    /\ ~SrcStream => NoSources
    /\ SourceLinks /\ TargetLinks
    /\ ~down => ClientLinks

Heard ==
    \A t \in Target :
        /\ sock[t] = "free" => heard[t] = {}
        /\ conn[t] # NULL /\ ~SrcStream => heard[t] \subseteq {conn[t].peer} \cup Denied

IInv == TypeOK /\ Buffers /\ Links /\ Heard

LEMMA InvLinksLive == IInv => LinksLive
<1> SUFFICES ASSUME IInv PROVE LinksLive
  OBVIOUS
<1>1. ASSUME NEW s \in Source, data[s] # NULL
      PROVE  /\ conn[data[s]] # NULL /\ conn[data[s]].source = s
             /\ sock[data[s]] # "free" /\ data[data[s]] = data[s]
  BY <1>1 DEF IInv, Links, SourceLinks
<1>2. ASSUME NEW t \in Target, data[t] # NULL
      PROVE  /\ data[t] = t /\ conn[t] # NULL
             /\ sock[conn[t].source] = "free" => ~TgtStream \/ conn[t].source = Listener
  BY <1>2 DEF IInv, Links, TargetLinks, SourceLinks
<1>3. ASSUME ~down, NEW p \in Peer, client[p] # NULL
      PROVE  sock[client[p]] # "free" /\ conn[client[p]] # NULL /\ conn[client[p]].peer = p
  BY <1>3 DEF IInv, TypeOK, Links, ClientLinks, TargetLinks
<1> QED
  BY <1>1, <1>2, <1>3 DEF LinksLive

LEMMA InvAddressed == IInv => Addressed
BY DEF IInv, Buffers, Packet, Heard, Addressed

LEMMA InitOK == Init => IInv
<1> SUFFICES ASSUME Init PROVE IInv
  OBVIOUS
<1>1. TypeOK
  BY DEF Init, TypeOK, Socket
<1>2. Buffers
  BY DEF Init, Idle, Buffers
<1>3. Links
  BY DEF Init, Links, NoClients, NoSources, SourceLinks, TargetLinks, ClientLinks
<1>4. Heard
  BY DEF Init, Heard
<1> QED
  BY <1>1, <1>2, <1>3, <1>4 DEF IInv

-----------------------------------------------------------------------------
(* What steps leave alone *)

\* Sockets are killed and nothing else happens to them.
LEMMA KillType ==
  ASSUME TypeOK, NEW S, Kill(S)
  PROVE  /\ sock' \in [Socket -> {"free", "open", "killed"}]
         /\ \A s \in Socket : sock'[s] = "free" <=> sock[s] = "free"
BY DEF Kill, TypeOK, Socket

\* The invariant is about which sockets are free.
LEMMA SameLinks ==
  ASSUME IInv, UNCHANGED <<mode, links, heard, down>>,
         sock' \in [Socket -> {"free", "open", "killed"}],
         \A s \in Source \cup Target : sock'[s] = "free" <=> sock[s] = "free"
  PROVE  TypeOK' /\ Links' /\ Heard'
<1>1. TypeOK' /\ Heard'
  BY DEF IInv, TypeOK, Heard, SrcStream, links
<1>2. Links'
  BY DEF IInv, TypeOK, Links, NoClients, NoSources, SourceLinks, TargetLinks, ClientLinks,
         SrcStream, TgtStream, links
<1> QED
  BY <1>1, <1>2

LEMMA SameBuffers == ASSUME IInv, UNCHANGED <<port, wire>> PROVE Buffers'
BY DEF IInv, Buffers

LEMMA Killing ==
  ASSUME IInv, NEW S, Kill(S), UNCHANGED <<mode, links, heard, down>>
  PROVE  TypeOK' /\ Links' /\ Heard'
BY KillType, SameLinks DEF IInv, Socket

-----------------------------------------------------------------------------
(* Stream sources *)

LEMMA ConnectOK == ASSUME IInv, NEW s \in Source, tnl_connect_socket(s) PROVE IInv'
<1>1. SrcStream /\ sock[s] = "free" /\ UNCHANGED <<mode, client, port, heard, wire, down>>
  BY DEF tnl_connect_socket
<1>2. CASE sock' = [sock EXCEPT ![s] = "killed"] /\ UNCHANGED <<data, conn>>
  <2>1. TypeOK'
    BY <1>1, <1>2 DEF IInv, TypeOK, Socket
  <2>2. SourceLinks' /\ TargetLinks'
    BY <1>1, <1>2 DEF IInv, TypeOK, Links, SourceLinks, TargetLinks, SrcStream, TgtStream, Socket
  <2>3. Links'
    BY <1>1, <1>2, <2>2 DEF IInv, Links, NoClients, ClientLinks, SrcStream
  <2> QED
    BY <1>1, <1>2, <2>1, <2>3, SameBuffers DEF IInv, TypeOK, Heard, SrcStream, Socket
<1>3. CASE \E t \in Target :
             tnl_create_socket(t, s, NULL) /\ sock' = [sock EXCEPT ![s] = "open", ![t] = "open"]
  <2>1. PICK t \in Target :
           tnl_create_socket(t, s, NULL) /\ sock' = [sock EXCEPT ![s] = "open", ![t] = "open"]
    BY <1>3
  <2>2. /\ sock[t] = "free" /\ sock' = [sock EXCEPT ![s] = "open", ![t] = "open"]
        /\ data' = [x \in Source \cup Target |-> IF x \in {s, t} THEN t ELSE data[x]]
        /\ conn' = [conn EXCEPT ![t] = [source |-> s, peer |-> NULL]]
    BY <2>1 DEF tnl_create_socket, IInv, TypeOK
  <2>3. [source |-> s, peer |-> NULL] \in Connect
    BY DEF Connect
  <2>4. TypeOK'
    BY <1>1, <2>2, <2>3 DEF IInv, TypeOK, Socket
  <2>5. data[s] = NULL /\ data[t] = NULL /\ s # t
    BY <1>1, <2>2 DEF SourceLinks, TargetLinks, IInv, Links, TypeOK
  <2>6. SourceLinks'
    <3> SUFFICES ASSUME NEW x \in Source, data'[x] # NULL
                 PROVE  /\ data'[data'[x]] = data'[x] /\ conn'[data'[x]] # NULL
                        /\ conn'[data'[x]].source = x
                        /\ sock'[x] # "free" /\ sock'[data'[x]] # "free"
      BY DEF SourceLinks
    <3> QED
      BY <2>2, <2>3, <2>5 DEF SourceLinks, IInv, Links, TypeOK, Socket
  <2>7. TargetLinks'
    <3> SUFFICES ASSUME NEW x \in Target, data'[x] # NULL
                 PROVE  /\ data'[x] = x /\ conn'[x] # NULL /\ sock'[x] # "free"
                        /\ SrcStream' => conn'[x].source \in Source
                        /\ SrcStream' /\ TgtStream' => data'[conn'[x].source] = x
                        /\ ~SrcStream' => conn'[x].source = Listener
      BY DEF TargetLinks
    <3>1. SrcStream /\ SrcStream' /\ (TgtStream' <=> TgtStream)
      BY <1>1 DEF SrcStream, TgtStream
    <3> QED
      BY <2>2, <2>3, <2>5, <3>1 DEF TargetLinks, IInv, Links, TypeOK, Socket
  <2>8. Links'
    BY <1>1, <2>6, <2>7 DEF IInv, Links, NoClients, ClientLinks, SrcStream
  <2> QED
    BY <1>1, <2>2, <2>4, <2>8, SameBuffers DEF IInv, TypeOK, Heard, SrcStream, Socket
<1> QED
  BY <1>2, <1>3 DEF tnl_connect_socket

LEMMA SourceEndsOK == ASSUME IInv, NEW s \in Source, SourceEnds(s) PROVE IInv'
BY Killing, SameBuffers DEF SourceEnds, IInv

LEMMA SweepSourceOK == ASSUME IInv, NEW s \in Source, SweepSource(s) PROVE IInv'
<1>1. UNCHANGED <<mode, client, port, heard, wire, down>> /\ sock[s] # "free"
  BY DEF SweepSource, Freed
<1>2. SrcStream
  BY <1>1 DEF IInv, Links, NoSources
<1>3. CASE /\ TgtStream /\ data[s] # NULL
           /\ sock' = [sock EXCEPT ![s] = "free", ![data[s]] = "killed"]
           /\ data' = [data EXCEPT ![s] = NULL, ![data[s]] = NULL]
           /\ conn' = [conn EXCEPT ![data[s]] = NULL]
  <2>1. TypeOK'
    BY <1>1, <1>3 DEF IInv, TypeOK, Socket
  <2>2. data[data[s]] = data[s] /\ data[s] \in Target
    BY <1>3 DEF IInv, TypeOK, Links, SourceLinks
  <2>3. SourceLinks'
    BY <1>3, <2>2 DEF IInv, TypeOK, Links, SourceLinks, Socket
  <2>4. TargetLinks'
    BY <1>1, <1>3, <2>2 DEF IInv, TypeOK, Links, TargetLinks, SrcStream, TgtStream, Socket
  <2> QED
    BY <1>1, <1>2, <1>3, <2>1, <2>2, <2>3, <2>4, SameBuffers
       DEF IInv, TypeOK, Links, NoClients, ClientLinks, Heard, SrcStream, Socket
<1>4. CASE /\ TgtStream => data[s] = NULL
           /\ sock' = [sock EXCEPT ![s] = "free"] /\ data' = [data EXCEPT ![s] = NULL]
           /\ UNCHANGED conn
  <2>1. TypeOK'
    BY <1>1, <1>4 DEF IInv, TypeOK, Socket
  <2>2. SourceLinks'
    BY <1>4 DEF IInv, TypeOK, Links, SourceLinks, Socket
  <2>3. TargetLinks'
    BY <1>1, <1>4 DEF IInv, TypeOK, Links, TargetLinks, SrcStream, TgtStream, Socket
  <2> QED
    BY <1>1, <1>2, <1>4, <2>1, <2>2, <2>3, SameBuffers
       DEF IInv, TypeOK, Links, NoClients, ClientLinks, Heard, SrcStream, Socket
<1> QED
  BY <1>3, <1>4 DEF SweepSource, tnl_disconnect_source

-----------------------------------------------------------------------------
(* The listener's buffers *)

LEMMA BuffersNoise ==
  ASSUME IInv, NEW p \in Peer, UNCHANGED wire,
         \/ p \in Denied /\ port' = Received(port, p)
         \/ port' \in {Handled(Received(port, p)), Rejected(port, p)}
  PROVE  Buffers'
<1>1. <<>> \in Seq(Denied) /\ (p \in Denied => Append(port.recv, p) \in Seq(Denied))
  BY DEF IInv, Buffers
<1> QED
  BY <1>1 DEF IInv, Buffers, Received, Handled, Rejected

\* A request comes with nothing but what was denied before.
LEMMA WhatIsHandedOn ==
  ASSUME IInv, NEW p \in Peer
  PROVE  Contents(Received(port, p)) \subseteq {p} \cup Denied
<1>1. Received(port, p).recv = Append(port.recv, p) /\ port.recv \in Seq(Denied)
  BY DEF IInv, Buffers, Received
<1> HIDE DEF Received
<1>2. ASSUME NEW i \in 1..Len(Append(port.recv, p))
      PROVE  Append(port.recv, p)[i] \in {p} \cup Denied
  BY <1>1
<1> QED
  BY <1>1, <1>2 DEF Contents

LEMMA BuffersSend ==
  ASSUME IInv, port.send # <<>>, wire' = Sent(port), port' = Reduced(port)
  PROVE  Buffers'
<1>1. Head(port.send) \in Packet /\ Tail(port.send) \in Seq(Packet)
  BY DEF IInv, Buffers
<1> QED
  BY <1>1 DEF IInv, Buffers, Sent, Reduced

\* What is written is data for the remote address, or not data.
LEMMA BuffersWritten ==
  ASSUME IInv, NEW r \in Peer \cup {NULL}, NEW p \in Peer \cup {NULL}, NEW kind \in {"data", "close"},
         kind = "data" => p = r, UNCHANGED wire,
         port' = Written([port EXCEPT !.remote = r], kind, p)
  PROVE  Buffers'
<1> DEFINE m == [to |-> r, kind |-> kind, payload |-> p]
<1>1. m \in Packet
  BY DEF Packet
<1> HIDE DEF m
<1>2. Append(port.send, m) \in Seq(Packet)
  BY <1>1 DEF IInv, Buffers
<1> DEFINE d == [remote |-> r, recv |-> port.recv, send |-> port.send]
<1>3. [port EXCEPT !.remote = r] = d /\ d.remote = r
  BY DEF IInv, Buffers
<1>4. port' = [d EXCEPT !.send = Append(@, m)]
  BY <1>3 DEF Written, m
<1>5. port' = [remote |-> r, recv |-> port.recv, send |-> Append(port.send, m)]
  BY <1>4
<1>6. port'.remote = r /\ port'.recv = port.recv /\ port'.send = Append(port.send, m)
  BY <1>5
<1>7. port' = [remote |-> port'.remote, recv |-> port'.recv, send |-> port'.send]
  BY <1>5, <1>6
<1>8. wire' \in Packet \cup {NULL} /\ port.recv \in Seq(Denied)
  BY DEF IInv, Buffers
<1> HIDE DEF d
<1> QED
  BY <1>2, <1>6, <1>7, <1>8 DEF Buffers

LEMMA BuffersRemote ==
  ASSUME IInv, NEW r \in Peer \cup {NULL}, UNCHANGED wire, port' = [port EXCEPT !.remote = r]
  PROVE  Buffers'
BY DEF IInv, Buffers

-----------------------------------------------------------------------------
(* Datagram sources *)

\* A target of the peer p, new or not, is told what is in the buffer, or killed.
LEMMA RequestSent ==
  ASSUME IInv, NEW t \in Target, NEW R, tnl_send_request_source(t, R), R \subseteq Peer
  PROVE  /\ sock' \in [Socket -> {"free", "open", "killed"}] /\ sock'[t] # "free"
         /\ \A s \in Socket : s # t => sock'[s] = sock[s]
         /\ heard' \in [Target -> SUBSET Peer] /\ heard'[t] \subseteq heard[t] \cup R
         /\ \A x \in Target : x # t => heard'[x] = heard[x]
BY DEF tnl_send_request_source, IInv, TypeOK, Socket

LEMMA NewTarget ==
  ASSUME IInv, NEW p \in Peer, NEW t \in Target, NEW R, ~SrcStream, ~down, client[p] = NULL,
         R \subseteq {p} \cup Denied, Denied \subseteq Peer,
         tnl_create_socket(t, Listener, p), client' = [client EXCEPT ![p] = t],
         tnl_send_request_source(t, R), UNCHANGED <<mode, down>>
  PROVE  TypeOK' /\ Links' /\ Heard'
<1> DEFINE r == [source |-> Listener, peer |-> p]
<1>1. /\ sock[t] = "free"
      /\ data' = [x \in Source \cup Target |-> IF x \in {Listener, t} THEN t ELSE data[x]]
      /\ conn' = [conn EXCEPT ![t] = r]
  BY DEF tnl_create_socket, IInv, TypeOK
<1>2. r \in Connect /\ r # NULL /\ r.source = Listener /\ r.peer = p
  BY DEF Connect
<1> HIDE DEF r
<1>3. /\ sock' \in [Socket -> {"free", "open", "killed"}] /\ sock'[t] # "free"
      /\ \A s \in Socket : s # t => sock'[s] = sock[s]
      /\ heard' \in [Target -> SUBSET Peer] /\ heard'[t] \subseteq heard[t] \cup R
      /\ \A x \in Target : x # t => heard'[x] = heard[x]
  BY RequestSent
<1>4. TypeOK'
  BY <1>1, <1>2, <1>3 DEF IInv, TypeOK
<1>5. NoSources /\ SourceLinks /\ TargetLinks /\ ClientLinks /\ ~SrcStream' /\ ~down'
  BY DEF IInv, Links, SrcStream
<1>6. data[t] = NULL /\ \A q \in Peer : client[q] # t
  BY <1>1, <1>5 DEF TargetLinks, ClientLinks, IInv, TypeOK
<1>7. NoSources' /\ SourceLinks'
  BY <1>1, <1>3, <1>5 DEF NoSources, SourceLinks, IInv, TypeOK, Socket
<1>8. TargetLinks'
  <2> SUFFICES ASSUME NEW x \in Target, data'[x] # NULL
               PROVE  data'[x] = x /\ conn'[x] # NULL /\ conn'[x].source = Listener /\ sock'[x] # "free"
    BY <1>5 DEF TargetLinks
  <2> QED
    BY <1>1, <1>2, <1>3, <1>5, <1>6 DEF TargetLinks, IInv, TypeOK, Socket
<1>9. ClientLinks'
  <2> SUFFICES ASSUME NEW q \in Peer, client'[q] # NULL
               PROVE  data'[client'[q]] = client'[q] /\ conn'[client'[q]].peer = q
    BY DEF ClientLinks
  <2> QED
    BY <1>1, <1>2, <1>5, <1>6 DEF ClientLinks, IInv, TypeOK
<1>10. Heard'
  <2> SUFFICES ASSUME NEW x \in Target
               PROVE  /\ sock'[x] = "free" => heard'[x] = {}
                      /\ conn'[x] # NULL => heard'[x] \subseteq {conn'[x].peer} \cup Denied
    BY DEF Heard
  <2>1. CASE x = t
    BY <1>1, <1>2, <1>3, <2>1 DEF IInv, Heard, TypeOK
  <2>2. CASE x # t
    BY <1>1, <1>3, <2>2 DEF IInv, Heard, TypeOK, Socket
  <2> QED
    BY <2>1, <2>2
<1> QED
  BY <1>4, <1>5, <1>7, <1>8, <1>9, <1>10 DEF Links

LEMMA PacketOK == ASSUME IInv, NEW p \in Peer, ListenerPacket(p) PROVE IInv'
<1>1. ~SrcStream /\ ~down /\ UNCHANGED <<mode, wire, down>> /\ Denied \subseteq Peer
  BY DatagramAssumption DEF ListenerPacket, Live
<1>2. Buffers'
  BY BuffersNoise DEF ListenerPacket
<1>3. CASE UNCHANGED <<sock, links, heard>>
  BY <1>1, <1>2, <1>3, SameLinks DEF IInv, TypeOK
<1> DEFINE R == Contents(Received(port, p))
<1>4. R \subseteq {p} \cup Denied
  BY WhatIsHandedOn
<1> HIDE DEF R
<1>5. CASE client[p] # NULL /\ tnl_send_request_source(client[p], R) /\ UNCHANGED links
  <2> DEFINE t == client[p]
  <2>1. t \in Target /\ conn[t].peer = p /\ sock[t] # "free"
    BY <1>1, <1>5 DEF IInv, TypeOK, Links, ClientLinks, TargetLinks
  <2> HIDE DEF t
  <2>2. tnl_send_request_source(t, R)
    BY <1>5 DEF t
  <2>3. /\ sock' \in [Socket -> {"free", "open", "killed"}] /\ sock'[t] # "free"
        /\ \A s \in Socket : s # t => sock'[s] = sock[s]
        /\ heard' \in [Target -> SUBSET Peer] /\ heard'[t] \subseteq heard[t] \cup R
        /\ \A x \in Target : x # t => heard'[x] = heard[x]
    BY <1>1, <1>4, <2>1, <2>2, RequestSent
  <2>4. TypeOK'
    BY <1>5, <2>3 DEF IInv, TypeOK, links
  <2>5. Heard'
    BY <1>1, <1>4, <1>5, <2>1, <2>3 DEF IInv, TypeOK, Heard, SrcStream, links, Socket
  <2>6. Links'
    BY <1>1, <1>5, <2>1, <2>3
       DEF IInv, TypeOK, Links, NoClients, NoSources, SourceLinks, TargetLinks, ClientLinks,
           SrcStream, TgtStream, links, Socket
  <2> QED
    BY <1>2, <2>4, <2>5, <2>6 DEF IInv
<1>6. CASE /\ client[p] = NULL
           /\ \E t \in Target :
                /\ tnl_create_socket(t, Listener, p)
                /\ client' = [client EXCEPT ![p] = t]
                /\ tnl_send_request_source(t, R)
  BY <1>1, <1>2, <1>4, <1>6, NewTarget DEF IInv
<1> QED
  BY <1>3, <1>5, <1>6 DEF ListenerPacket, tnl_handle_request_source, R

LEMMA NoiseOK == ASSUME IInv, NEW p \in Peer, ListenerNoise(p) PROVE IInv'
<1>1. Buffers'
  BY BuffersNoise DEF ListenerNoise
<1> QED
  BY <1>1, SameLinks DEF ListenerNoise, IInv, TypeOK

LEMMA ListenerOK == ASSUME IInv, ListenerLost \/ ListenerSend \/ SweepListener PROVE IInv'
<1>1. CASE ListenerLost
  BY <1>1, Killing, SameBuffers DEF ListenerLost, IInv
<1>2. CASE ListenerSend
  <2>1. CASE wire' = Sent(port) /\ port' = Reduced(port) /\ UNCHANGED sock
    BY <1>2, <2>1, BuffersSend, SameLinks DEF ListenerSend, IInv, TypeOK
  <2>2. CASE Kill({Listener}) /\ UNCHANGED <<wire, port>>
    BY <1>2, <2>2, Killing, SameBuffers DEF ListenerSend, IInv
  <2> QED
    BY <1>2, <2>1, <2>2 DEF ListenerSend
<1>3. CASE SweepListener
  <2>1. /\ sock' \in [Socket -> {"free", "open", "killed"}]
        /\ \A s \in Source \cup Target : sock'[s] = sock[s]
    BY <1>3 DEF SweepListener, IInv, TypeOK, Socket
  <2> QED
    BY <1>3, <2>1, SameLinks, SameBuffers DEF SweepListener, IInv
<1> QED
  BY <1>1, <1>2, <1>3

-----------------------------------------------------------------------------
(* Targets *)

LEMMA TargetDataOK == ASSUME IInv, NEW t \in Target, TargetData(t) PROVE IInv'
<1>1. PICK q \in Target :
         /\ Live(t) /\ data[t] # NULL
         /\ conn[q] # NULL /\ IF mode[2] = "icmp" THEN Accepts(FALSE, t, q) ELSE q = t
         /\ \/ SrcStream /\ Kill(With(t, conn[data[t]].source)) /\ UNCHANGED port
            \/ ~SrcStream /\ tnl_send_request_target(t, q)
         /\ UNCHANGED <<mode, links, heard, wire, down>>
  BY DEF TargetData
<1>2. CASE SrcStream
  BY <1>1, <1>2, Killing, SameBuffers DEF IInv
<1>3. CASE ~SrcStream
  <2>1. q = t
    BY <1>1 DEF Accepts
  <2>2. data[t] = t /\ conn[t].peer \in Peer \cup {NULL}
    BY <1>1, <1>3, <2>1 DEF IInv, TypeOK, Links, TargetLinks, Connect
  <2>3. Remote(t) = [port EXCEPT !.remote = conn[t].peer]
    BY <2>2 DEF Remote
  <2>4. Buffers'
    BY <1>1, <1>3, <2>1, <2>2, <2>3, BuffersRemote, BuffersWritten DEF tnl_send_request_target
  <2>5. CASE UNCHANGED sock
    BY <1>1, <2>4, <2>5, SameLinks DEF IInv, TypeOK
  <2>6. CASE Kill(With(t, Listener))
    BY <1>1, <2>4, <2>6, Killing DEF IInv
  <2> QED
    BY <1>1, <1>3, <2>5, <2>6 DEF tnl_send_request_target
<1> QED
  BY <1>2, <1>3

LEMMA TargetEndsOK == ASSUME IInv, NEW t \in Target, TargetEnds(t) PROVE IInv'
BY Killing, SameBuffers DEF TargetEnds, IInv

\* A target that is swept is forgotten by its source, or by the hash of clients.
LEMMA SweepTargetOK == ASSUME IInv, NEW t \in Target, SweepTarget(t) PROVE IInv'
<1>1. heard' = [heard EXCEPT ![t] = {}] /\ UNCHANGED <<mode, wire, down>> /\ sock[t] # "free"
  BY DEF SweepTarget, Freed
<1>2. CASE data[t] = NULL /\ sock' = [sock EXCEPT ![t] = "free"] /\ UNCHANGED <<links, port>>
  <2>1. TypeOK'
    BY <1>1, <1>2 DEF IInv, TypeOK, Socket, links
  <2>2. Heard'
    BY <1>1, <1>2 DEF IInv, TypeOK, Heard, SrcStream, links, Socket
  <2>3. SourceLinks' /\ TargetLinks'
    BY <1>1, <1>2 DEF IInv, TypeOK, Links, SourceLinks, TargetLinks, SrcStream, TgtStream, links,
                      Socket
  <2>4. Links'
    BY <1>1, <1>2, <2>3 DEF IInv, TypeOK, Links, NoClients, NoSources, ClientLinks, SrcStream,
                            links, Socket
  <2> QED
    BY <1>1, <1>2, <2>1, <2>2, <2>4, SameBuffers DEF IInv
<1>3. CASE data[t] # NULL /\ SrcStream /\ SourceFollows(t, conn[data[t]].source)
  <2> DEFINE s == conn[t].source
  <2>1. /\ data[t] = t /\ conn[t] # NULL /\ s \in Source /\ (TgtStream => data[s] = t)
        /\ SourceLinks
    BY <1>3 DEF IInv, Links, TargetLinks
  <2>2. /\ data' = [data EXCEPT ![t] = NULL, ![s] = NULL]
        /\ conn' = [conn EXCEPT ![t] = NULL]
        /\ sock' = [sock EXCEPT ![t] = "free", ![s] = IF down THEN @ ELSE "killed"]
        /\ UNCHANGED <<client, port>>
    BY <1>3, <2>1 DEF SourceFollows
  <2>3. \A x \in Source : data[x] = t => x = s
    BY <2>1 DEF SourceLinks
  <2> HIDE DEF s
  <2>4. TypeOK'
    BY <1>1, <2>1, <2>2 DEF IInv, TypeOK, Socket
  <2>5. SourceLinks'
    BY <2>1, <2>2, <2>3 DEF IInv, TypeOK, SourceLinks, Socket
  <2>6. TargetLinks'
    BY <1>1, <1>3, <2>1, <2>2 DEF IInv, TypeOK, Links, TargetLinks, SrcStream, TgtStream, Socket
  <2>7. Links'
    BY <1>1, <1>3, <2>2, <2>5, <2>6 DEF IInv, Links, NoClients, ClientLinks, SrcStream
  <2>8. Heard'
    BY <1>1, <1>3, <2>1, <2>2 DEF IInv, TypeOK, Heard, SrcStream, Socket
  <2> QED
    BY <1>1, <2>2, <2>4, <2>7, <2>8, SameBuffers DEF IInv
<1>4. CASE data[t] # NULL /\ ~SrcStream /\ ~down /\ ClientForgotten(t) /\ ListenerTold(t)
  <2>1. /\ TargetLinks /\ ClientLinks /\ NoSources
        /\ data[t] = t /\ conn[t] # NULL /\ conn[t].peer \in Peer \cup {NULL}
    BY <1>4 DEF IInv, Links, TargetLinks, TypeOK, Connect
  <2>2. /\ sock' \in [Socket -> {"free", "open", "killed"}]
        /\ \A x \in Source \cup Target : x # t => sock'[x] = sock[x]
    BY <1>4 DEF ListenerTold, IInv, TypeOK, Socket
  <2>3. Buffers'
    <3>1. CASE UNCHANGED port
      BY <1>1, <3>1, SameBuffers
    <3>2. CASE port' = Written(port, "close", conn[t].peer)
      <4>1. port.remote \in Peer \cup {NULL} /\ port = [port EXCEPT !.remote = port.remote]
        BY DEF IInv, Buffers
      <4> QED
        BY <1>1, <2>1, <3>2, <4>1, BuffersWritten
    <3> QED
      BY <1>4, <2>1, <3>1, <3>2 DEF ListenerTold
  <2>4. TypeOK'
    BY <1>1, <1>4, <2>2 DEF ClientForgotten, IInv, TypeOK
  <2>5. Heard'
    BY <1>1, <1>4, <2>2 DEF ClientForgotten, IInv, TypeOK, Heard, SrcStream
  <2>6. NoSources' /\ SourceLinks'
    BY <1>4, <2>1, <2>2 DEF ClientForgotten, IInv, TypeOK, NoSources, SourceLinks
  <2>7. TargetLinks'
    BY <1>1, <1>4, <2>1, <2>2 DEF ClientForgotten, IInv, TypeOK, TargetLinks, SrcStream, TgtStream
  <2>8. ClientLinks'
    BY <1>4, <2>1 DEF ClientForgotten, IInv, TypeOK, ClientLinks
  <2> QED
    BY <1>1, <1>4, <2>3, <2>4, <2>5, <2>6, <2>7, <2>8 DEF IInv, Links, SrcStream
<1>5. CASE /\ data[t] # NULL /\ ~SrcStream /\ down
           /\ sock' = [sock EXCEPT ![t] = "free"] /\ data' = [data EXCEPT ![t] = NULL]
           /\ UNCHANGED <<conn, client, port>>
  <2>1. TypeOK' /\ Heard'
    BY <1>1, <1>5 DEF IInv, TypeOK, Heard, SrcStream, Socket
  <2>2. NoSources' /\ SourceLinks'
    BY <1>1, <1>5 DEF IInv, TypeOK, Links, NoSources, SourceLinks, Socket
  <2>3. TargetLinks'
    BY <1>1, <1>5 DEF IInv, TypeOK, Links, TargetLinks, SrcStream, TgtStream, Socket
  <2> QED
    BY <1>1, <1>5, <2>1, <2>2, <2>3, SameBuffers DEF IInv, Links, SrcStream
<1> QED
  BY <1>2, <1>3, <1>4, <1>5 DEF SweepTarget, tnl_disconnect_target

LEMMA StopOK == ASSUME IInv, Stop PROVE IInv'
<1>1. TypeOK' /\ Heard' /\ Buffers'
  BY DEF Stop, IInv, TypeOK, Heard, Buffers, SrcStream, links
<1>2. Links'
  BY DEF Stop, IInv, Links, NoClients, NoSources, SourceLinks, TargetLinks, SrcStream, TgtStream,
         links
<1> QED
  BY <1>1, <1>2 DEF IInv

LEMMA FinalizeOK == ASSUME IInv, tnl_finalize PROVE IInv'
<1>1. TypeOK'
  BY DEF tnl_finalize, IInv, TypeOK
<1>2. \A x \in Source \cup Target : data[x] = NULL
  BY DEF tnl_finalize, IInv, TypeOK, Links, SourceLinks, TargetLinks, Socket
<1>3. SourceLinks' /\ TargetLinks'
  BY <1>2 DEF tnl_finalize, SourceLinks, TargetLinks
<1>4. Links' /\ Heard'
  BY <1>3 DEF tnl_finalize, IInv, TypeOK, Links, NoClients, NoSources, Heard, SrcStream
<1> QED
  BY <1>1, <1>4, SameBuffers DEF tnl_finalize, IInv

-----------------------------------------------------------------------------
(* The invariant *)

LEMMA NextOK == IInv /\ [Next]_vars => IInv'
<1> SUFFICES ASSUME IInv, [Next]_vars PROVE IInv'
  OBVIOUS
<1>1. CASE UNCHANGED vars
  <2>1. UNCHANGED <<mode, links, heard, down, port, wire, sock>>
    BY <1>1 DEF vars
  <2> QED
    BY <2>1, SameLinks, SameBuffers DEF IInv, TypeOK
<1>2. CASE Next
  BY <1>2, ConnectOK, SourceEndsOK, SweepSourceOK, PacketOK, NoiseOK, ListenerOK, TargetDataOK,
     TargetEndsOK, SweepTargetOK, StopOK, FinalizeOK DEF Next
<1> QED
  BY <1>1, <1>2

LEMMA Invariant == Spec => []IInv
BY InitOK, NextOK, PTL DEF Spec

\* While the server runs and while it stops, and for every pair of protocols: no order of
\* tnl_disconnect_source, tnl_disconnect_target, failing writes and new connections
\* leaves a source, or an entry of cfg->client, that leads to a freed target, or a target
\* without its tnl_connect_t.  A target leads to a freed source only if it is a datagram
\* target (of a stream), or if the source is the listener.
THEOREM LinksLiveCorrect == Spec => []LinksLive
BY Invariant, InvLinksLive, PTL

\* tnl_handle_request_udp_target and its ICMP twin send what came for a peer to that
\* peer, whatever the listener's remote address was and whatever is queued before; the
\* target of a peer hears of no other peer but those that are denied access.
THEOREM AddressedCorrect == Spec => []Addressed
BY Invariant, InvAddressed, PTL

=============================================================================
