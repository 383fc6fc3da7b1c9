------------------------------ MODULE NutRoute ------------------------------
(***************************************************************************)
(* A network of Gnutella servers (gnutella.c, nut-route.c, nut-request.c). *)
(* Requests are flooded: a node passes on what it has not seen, until the  *)
(* TTL is used up, and remembers the connection a request came from.       *)
(* Replies go back along these connections.  A push request goes where the *)
(* query hit of its target came from.  Connections may break at any time,  *)
(* and each end learns of it on its own.                                   *)
(*                                                                         *)
(* Two nodes have at most one connection at a time; a node's socket for it *)
(* is named by the other node.  Packet ids are drawn in sequence, as GUIDs *)
(* do not collide.  Transfers of files are in NutTransfer.                 *)
(***************************************************************************)
EXTENDS Integers, Sequences, FiniteSets, FiniteSetsExt, Functions

CONSTANTS
    Node, NULL,
    Link,         \* pairs of nodes connected at first
    Hosts,        \* Hosts[n]: nodes in n's host catcher
    Searchers,    \* nodes that search
    Sharers,      \* nodes that have the file
    connections,  \* connections[n]: cfg->connections of n
    cfg_ttl, max_ttl,
    MaxId,        \* bound: packets the nodes send on their own
    MaxFaults     \* bound: broken connections and forgotten packets

ASSUME TtlAssumption == cfg_ttl \in 1..255 /\ max_ttl \in 1..255
ASSUME CountAssumption == MaxId \in Nat /\ MaxFaults \in Nat /\ connections \in [Node -> Nat]
ASSUME NodeAssumption ==
    /\ Link \subseteq {l \in Node \X Node : l[1] # l[2]} /\ NULL \notin Node
    /\ Searchers \subseteq Node /\ Sharers \subseteq Node /\ Hosts \in [Node -> SUBSET Node]

Id == 1..MaxId

VARIABLES
    peer,     \* peer[n][m]: n's socket to m: "none", "calling", "open", "killed"
    chan,     \* chan[n][m]: what n wrote and m has not read
    route,    \* route[n][i]: where a foreign request came from
    packet,   \* packet[n][i]: the socket an own packet was sent to
    reply,    \* reply[n][g]: where a query hit of g came from
    conn,     \* conn[n]: established connections
    query,    \* query[n]: the last search text: "none", "recent", "old"
    nodes,    \* nodes[n]: cfg->nodes
    cnodes,   \* cnodes[n][m]: client->nodes
    offers,   \* offers[n]: downloads, by connection of the query hit and its sender
    nextId, faults,
    answered, got,  \* <<id, node>>: answers given in time, answers received
    pushed          \* <<id, node, what>>: push requests "sent" and "arrived"

tables == <<route, packet, reply, conn, query, nodes, cnodes>>
history == <<answered, got, pushed>>
routeVars == <<peer, chan, tables, offers, nextId, faults, history>>

Linked(n, m) == <<n, m>> \in Link \/ <<m, n>> \in Link

RouteInit ==
    /\ peer = [n \in Node |-> [m \in Node |-> IF Linked(n, m) THEN "open" ELSE "none"]]
    /\ chan = [n \in Node |-> [m \in Node |-> <<>>]]
    /\ route = [n \in Node |-> [i \in Id |-> NULL]]
    /\ packet = [n \in Node |-> [i \in Id |-> NULL]]
    /\ reply = [n \in Node |-> [g \in Node |-> NULL]]
    /\ conn = [n \in Node |-> {m \in Node : Linked(n, m)}]
    /\ query = [n \in Node |-> "none"]
    /\ nodes = [n \in Node |-> 0] /\ cnodes = [n \in Node |-> [m \in Node |-> 0]]
    /\ offers = [n \in Node |-> {}]
    /\ nextId = 1 /\ faults = 0 /\ answered = {} /\ got = {} /\ pushed = {}

-----------------------------------------------------------------------------
(* Writing *)

Packet(fn, i, ttl, hop, g) == [fn |-> fn, id |-> i, ttl |-> ttl, hop |-> hop, guid |-> g]
Greeting(fn) == Packet(fn, 0, 0, 0, NULL)

\* The peer closed its end: what is written is lost or the write fails.
Gone(n, m) == peer[m][n] = "none"

\* A write by n to all of ms; one to a killed socket is without effect.
Put(ch, n, ms, p) ==
    [ch EXCEPT ![n] = [m \in Node |->
        IF m \in ms /\ peer[n][m] # "killed" /\ ~Gone(n, m) THEN Append(@[m], p) ELSE @[m]]]

MayFail(n, m) == peer[n][m] = "open" /\ Gone(n, m)

-----------------------------------------------------------------------------
(* Connections *)

\* nut_connect_ip: from the configured hosts or the host catcher.
nut_connect_ip(n, m) ==
    /\ peer[n][m] = "none" /\ peer[m][n] = "none" /\ chan[n][m] = <<>> /\ chan[m][n] = <<>>
    /\ m \in Hosts[n] /\ m # n /\ m \notin conn[n]
    /\ Cardinality(conn[n]) < connections[n]
    /\ nextId < MaxId
    /\ peer' = [peer EXCEPT ![n][m] = "calling", ![m][n] = "calling"]
    /\ chan' = [chan EXCEPT ![n][m] = <<Greeting("CONNECT")>>]
    /\ UNCHANGED <<tables, offers, nextId, faults, history>>

\* nut_init_ping at the end of nut_connect_socket.
Ping(i) == Packet("ping", i, cfg_ttl, 0, NULL)

nut_init_ping(n, m) ==
    /\ nextId \in Id /\ nextId' = nextId + 1
    /\ packet' = [packet EXCEPT ![n][nextId] = m]
    /\ nodes' = [nodes EXCEPT ![n] = @ - cnodes[n][m]]
    /\ cnodes' = [cnodes EXCEPT ![n][m] = 0]

\* The socket n had for m is freed; the other end will read the end of the stream.
Closed(ch, n, m) ==
    [ch EXCEPT ![n][m] = IF Gone(n, m) THEN <<>> ELSE Append(@, Greeting("EOF")),
               ![m][n] = <<>>]

\* nut_connect_socket for the greeting or for the answer to one's own; too many
\* connections end it before nut_disconnect is installed.
nut_connect_socket(n, m) ==
    /\ peer[n][m] = "calling" /\ chan[m][n] # <<>>
    /\ Head(chan[m][n]).fn \in {"CONNECT", "OK"}
    /\ LET ok == Head(chan[m][n]).fn = "CONNECT"
           ch == [chan EXCEPT ![m][n] = Tail(@)]
       IN \/ /\ Cardinality(conn[n]) > connections[n]
             /\ peer' = [peer EXCEPT ![n][m] = "none"]
             /\ chan' = Closed(ch, n, m)
             /\ UNCHANGED <<tables, nextId>>
          \/ /\ Cardinality(conn[n]) <= connections[n]
             /\ nut_init_ping(n, m)
             /\ peer' = [peer EXCEPT ![n][m] = "open"]
             /\ chan' = Put(IF ok THEN Put(ch, n, {m}, Greeting("OK")) ELSE ch,
                            n, {m}, Ping(nextId))
             /\ conn' = [conn EXCEPT ![n] = @ \cup {m}]
             /\ UNCHANGED <<route, reply, query>>
    /\ UNCHANGED <<offers, faults, history>>

\* Mutation: only the first entry of the connection is removed.
Forget_One(table, m) ==
    IF m \in Range(table) THEN [table EXCEPT ![CHOOSE k \in DOMAIN table : table[k] = m] = NULL]
    ELSE table

\* nut_disconnect: all routes over the connection are forgotten, but of one's own
\* packets only the first one found.
Forget(table, m) == [k \in DOMAIN table |-> IF table[k] = m THEN NULL ELSE table[k]]

FirstOf(n, m) == {i \in Id : packet[n][i] = m}

\* Mutation: the nodes behind the connection stay counted.
NodesLeft_All(n, m) == nodes[n]

\* cfg->nodes without the nodes behind the connection.
NodesLeft(n, m) == nodes[n] - cnodes[n][m]

nut_disconnect(n, m) ==
    /\ route' = [route EXCEPT ![n] = Forget(@, m)]
    /\ reply' = [reply EXCEPT ![n] = Forget(@, m)]
    /\ \/ FirstOf(n, m) = {} /\ UNCHANGED packet
       \/ \E i \in FirstOf(n, m) : packet' = [packet EXCEPT ![n][i] = NULL]
    /\ conn' = [conn EXCEPT ![n] = @ \ {m}]
    /\ nodes' = [nodes EXCEPT ![n] = NodesLeft(n, m)]
    /\ cnodes' = [cnodes EXCEPT ![n][m] = 0]
    /\ offers' = [offers EXCEPT ![n] = {o \in @ : o[1] # m}]
    /\ UNCHANGED query

\* A connection breaks or is kicked: an error on n's side.
Break(n, m) ==
    /\ peer[n][m] = "open" /\ faults < MaxFaults
    /\ peer' = [peer EXCEPT ![n][m] = "killed"] /\ faults' = faults + 1
    /\ UNCHANGED <<chan, tables, offers, nextId, history>>

\* The sweep at the end of a round frees killed sockets.
Disconnect(n, m) ==
    /\ peer[n][m] = "killed"
    /\ nut_disconnect(n, m)
    /\ peer' = [peer EXCEPT ![n][m] = "none"] /\ chan' = Closed(chan, n, m)
    /\ UNCHANGED <<nextId, faults, history>>

\* The peer closed: reading fails.  A socket that is not established yet has no
\* nut_disconnect.  nut_connect_timeout has the same effect on one that waits.
Ended(n, m) ==
    /\ chan[m][n] # <<>> /\ Head(chan[m][n]).fn = "EOF"
    /\ \/ peer[n][m] = "open" /\ peer' = [peer EXCEPT ![n][m] = "killed"] /\ UNCHANGED chan
       \/ /\ peer[n][m] = "calling"
          /\ peer' = [peer EXCEPT ![n][m] = "none"] /\ chan' = Closed(chan, n, m)
    /\ UNCHANGED <<tables, offers, nextId, faults, history>>

-----------------------------------------------------------------------------
(* Packets *)

\* nut_canonize_query: whether the text was seen lately; an entry keeps its time.
Canonized(q) == IF q = "none" THEN "recent" ELSE q

\* nut_validate_packet: -1 do not process, 0 process but do not pass on, 1 pass on.
Validity(n, p) ==
    IF p.fn = "query" /\ query[n] = "recent" THEN -1
    ELSE IF p.ttl <= 1 \/ p.hop + 1 > max_ttl \/ p.ttl - 1 > 50 THEN 0
    ELSE 1

\* The header as nut_validate_packet leaves it.
Stepped(p) ==
    LET hop == (p.hop + 1) % 256
        ttl == IF p.ttl - 1 > max_ttl THEN max_ttl ELSE p.ttl - 1
    IN IF p.ttl <= 1 THEN p
       ELSE IF hop > max_ttl \/ p.ttl - 1 > 50 THEN [p EXCEPT !.hop = hop, !.ttl = @ - 1]
       ELSE [p EXCEPT !.hop = hop, !.ttl = IF ttl + hop > max_ttl THEN max_ttl - hop ELSE ttl]

\* A packet that nut_check_request takes from the receive buffer.
Incoming(n, m) ==
    /\ peer[n][m] = "open" /\ chan[m][n] # <<>>
    /\ Head(chan[m][n]).fn \in {"ping", "pong", "query", "hit", "push"}

Read(n, m) == [chan EXCEPT ![m][n] = Tail(@)]

Seen(n, p) == query' = IF p.fn = "query" THEN [query EXCEPT ![n] = Canonized(@)] ELSE query

IsRequest(p) == p.fn \in {"ping", "query"}
Known(n, p) == route[n][p.id] # NULL \/ packet[n][p.id] # NULL

\* Packets that are neither passed on nor processed: searches that come too fast,
\* requests that were seen before or are one's own, replies to nothing known.
Dropped(n, m) ==
    /\ Incoming(n, m)
    /\ LET p == Head(chan[m][n])
       IN /\ \/ Validity(n, p) = -1
             \/ Validity(n, p) = 1 /\ IsRequest(p) /\ Known(n, p)
             \/ Validity(n, p) = 1 /\ p.fn \in {"pong", "hit"} /\ ~Known(n, p)
          /\ Seen(n, p)
    /\ chan' = Read(n, m)
    /\ UNCHANGED <<peer, route, packet, reply, conn, nodes, cnodes, offers, nextId, faults, history>>

\* nut_ping and nut_query: the answer takes as many hops as the request took.
Answers(n, p) == p.fn = "ping" \/ n \in Sharers

\* Mutation: the answer gets one hop too few.
Answer_Short(n, p) ==
    Packet(IF p.fn = "ping" THEN "pong" ELSE "hit", p.id, p.hop - 1, 0, n)

Answer(n, p) ==
    Packet(IF p.fn = "ping" THEN "pong" ELSE "hit", p.id, p.hop, 0, n)

Answered(ch, n, m, p) == IF Answers(n, p) THEN Put(ch, n, {m}, Answer(n, p)) ELSE ch

\* A failed write of a pong shuts the connection down, one of a query hit does not.
AnswerFails(n, m, p) == p.fn = "ping" /\ MayFail(n, m)

\* The broadcast over cfg->conn stops at the first write that fails: the connections
\* that were written to, and the one that failed.
Broadcast(n, m) ==
    LET targets == conn[n] \ {m}
    IN {<<targets, {}>>} \cup
       {<<S, {f}>> : S \in SUBSET targets, f \in {x \in targets : MayFail(n, x)}}

ShutDown(n, ms) == peer' = [peer EXCEPT ![n] = [m \in Node |-> IF m \in ms THEN "killed" ELSE @[m]]]

\* nut_check_request for a request: nut_route remembers it and passes it on, nut_ping
\* or nut_query answers it.  One whose TTL is used up is only answered.
Request(n, m) ==
    /\ Incoming(n, m)
    /\ LET p == Stepped(Head(chan[m][n]))
           valid == Validity(n, Head(chan[m][n]))
       IN /\ IsRequest(p) /\ valid >= 0 /\ (valid = 1 => ~Known(n, p))
          /\ Seen(n, p)
          /\ \E out \in IF valid = 1 THEN Broadcast(n, m) ELSE {<<{}, {}>>},
                fails \in SUBSET (IF AnswerFails(n, m, p) THEN {m} ELSE {}) :
                /\ chan' = Answered(Put(Read(n, m), n, out[1] \ out[2], p), n, m, p)
                /\ ShutDown(n, out[2] \cup fails)
          /\ route' = IF valid = 1 THEN [route EXCEPT ![n][p.id] = m] ELSE route
          /\ answered' = IF valid = 1 /\ Answers(n, p) THEN answered \cup {<<p.id, n>>}
                         ELSE answered
    /\ UNCHANGED <<packet, reply, conn, nodes, cnodes, offers, nextId, faults, got, pushed>>

\* A pong to one's own ping is one more node.
nut_pong(n, m, own) ==
    /\ IF own THEN /\ nodes' = [nodes EXCEPT ![n] = @ + 1]
                   /\ cnodes' = [cnodes EXCEPT ![n][m] = @ + 1]
              ELSE UNCHANGED <<nodes, cnodes>>
    /\ UNCHANGED <<reply, offers>>

\* A query hit for one's own search starts a download, unless its sender is too slow or
\* there are too many; another one shows the way for push requests.
nut_reply(n, m, p, own) ==
    /\ \/ own /\ offers' = [offers EXCEPT ![n] = @ \cup {<<m, p.guid>>}] /\ UNCHANGED reply
       \/ own /\ UNCHANGED <<offers, reply>>
       \/ ~own /\ reply' = [reply EXCEPT ![n][p.guid] = m] /\ UNCHANGED offers
    /\ UNCHANGED <<nodes, cnodes>>

\* nut_check_request for a reply: to the connection its request came from; nut_pong
\* and nut_reply look at it in any case.
Reply(n, m) ==
    /\ Incoming(n, m)
    /\ LET p == Stepped(Head(chan[m][n]))
           valid == Validity(n, Head(chan[m][n]))
           back == IF valid = 1 THEN {route[n][p.id]} \ {NULL} ELSE {}
           own == packet[n][p.id] # NULL
       IN /\ p.fn \in {"pong", "hit"} /\ (valid = 1 => Known(n, p))
          /\ \E fails \in SUBSET {x \in back : MayFail(n, x)} :
                chan' = Put(Read(n, m), n, back \ fails, p) /\ ShutDown(n, fails)
          /\ got' = IF own THEN got \cup {<<p.id, p.guid>>} ELSE got
          /\ IF p.fn = "pong" THEN nut_pong(n, m, own) ELSE nut_reply(n, m, p, own)
    /\ UNCHANGED <<route, packet, conn, query, nextId, faults, answered, pushed>>


\* The socket a push request is passed on to.
PushTarget(n, p) == {reply[n][p.guid]} \ {NULL}

\* nut_push_request, also for a packet whose TTL is used up.
nut_push_request(n, m) ==
    /\ Incoming(n, m)
    /\ LET p == Stepped(Head(chan[m][n]))
           to == PushTarget(n, p)
       IN /\ p.fn = "push"
          /\ \E fails \in SUBSET {x \in to : MayFail(n, x)} :
                chan' = Put(Read(n, m), n, to \ fails, p) /\ ShutDown(n, fails)
          /\ pushed' = IF to = {} /\ p.guid = n THEN pushed \cup {<<p.id, n, "arrived">>}
                       ELSE pushed
    /\ UNCHANGED <<tables, offers, nextId, faults, answered, got>>

-----------------------------------------------------------------------------
(* What a node does on its own *)

\* The packet is remembered when it is written; a failed write is a shutdown.
Send(n, m, p) ==
    \/ /\ chan' = Put(chan, n, {m}, p) /\ UNCHANGED peer
       /\ packet' = [packet EXCEPT ![n][p.id] = m] /\ nextId' = nextId + 1
    \/ MayFail(n, m) /\ ShutDown(n, {m}) /\ UNCHANGED <<chan, packet, nextId>>

nut_idle_searching(n, m) ==
    /\ n \in Searchers /\ peer[n][m] = "open" /\ nextId \in Id
    /\ Send(n, m, Packet("query", nextId, cfg_ttl, 0, NULL))
    /\ UNCHANGED <<route, reply, conn, query, nodes, cnodes, offers, faults, history>>

\* nut_send_push: a download could not be connected; the request goes to the connection
\* the query hit came from, if it is still there.
nut_send_push(n, m, g) ==
    /\ <<m, g>> \in offers[n] /\ nextId \in Id
    /\ offers' = [offers EXCEPT ![n] = @ \ {<<m, g>>}]
    /\ Send(n, m, Packet("push", nextId, cfg_ttl, 0, g))
    /\ pushed' = IF chan' # chan THEN pushed \cup {<<nextId, g, "sent">>} ELSE pushed
    /\ UNCHANGED <<route, reply, conn, query, nodes, cnodes, faults, answered, got>>

\* Ten seconds pass: searches for the same text are welcome again.
Tick ==
    /\ \E n \in Node : query[n] = "recent"
    /\ query' = [n \in Node |-> IF query[n] = "recent" THEN "old" ELSE query[n]]
    /\ UNCHANGED <<peer, chan, route, packet, reply, conn, nodes, cnodes, offers, nextId,
                   faults, history>>

\* nut_server_notify drops entries that are three minutes old.
nut_server_notify(n) ==
    /\ faults < MaxFaults
    /\ \E i \in Id : packet[n][i] # NULL
    /\ packet' = [packet EXCEPT ![n] = [i \in Id |-> NULL]]
    /\ query' = [query EXCEPT ![n] = IF @ = "old" THEN "none" ELSE @]
    /\ faults' = faults + 1
    /\ UNCHANGED <<peer, chan, route, reply, conn, nodes, cnodes, offers, nextId, history>>

-----------------------------------------------------------------------------
RouteNext ==
    \/ Tick
    \/ \E n \in Node :
        \/ nut_server_notify(n)
        \/ \E m \in Node :
            \/ nut_connect_ip(n, m)
            \/ nut_connect_socket(n, m)
            \/ Break(n, m)
            \/ Disconnect(n, m)
            \/ Ended(n, m)
            \/ Dropped(n, m)
            \/ Request(n, m)
            \/ Reply(n, m)
            \/ nut_push_request(n, m)
            \/ nut_idle_searching(n, m)
            \/ \E g \in Node : nut_send_push(n, m, g)

\* The loop reads what has arrived and sweeps what was killed.
Served(n, m) ==
    \/ Disconnect(n, m) \/ Ended(n, m) \/ Dropped(n, m) \/ Request(n, m) \/ Reply(n, m)
    \/ nut_push_request(n, m)

MayLink(n, m) == Linked(n, m) \/ n \in Hosts[m] \/ m \in Hosts[n]

RouteSpec ==
    /\ RouteInit /\ [][RouteNext]_routeVars
    /\ \A n, m \in Node : MayLink(n, m) => WF_routeVars(Served(n, m))

-----------------------------------------------------------------------------
(* Properties *)

\* The routing tables hold plain pointers to sockets.  Every one of them leads to a
\* connection that has not been freed (nut_disconnect).
RoutesLive ==
    \A n, m \in Node :
        peer[n][m] \in {"none", "calling"} =>
            m \notin conn[n] \cup Range(route[n]) \cup Range(reply[n])

\* cfg->nodes is the number of nodes known through the connections of the moment, through
\* pongs, renewed pings and connections that end (nut_pong, nut_init_ping, nut_disconnect).
NodesCounted ==
    \A n \in Node : nodes[n] = MapThenSumSet(LAMBDA m : cnodes[n][m], Node)

\* An answer that was given in time gets back to the node that asked, along the
\* connections the request came by, if none of them breaks (nut_route, nut_ping).  Where
\* the TTL of a request is used up it is answered, too, but nut_validate_packet has not
\* counted that last hop, so that the answer dies one hop short of the node that asked:
\* these answers are not in answered.
AnswersReturn == <>[](faults > 0 \/ answered \subseteq got)

\* The hash of query hits is there for "routing push requests": following its entries for
\* a servent, from node to node, one does not go round in a circle.  One may: hits of two
\* searches that came to a node by different ways overwrite each other's entries.
PushRoutes ==
    \A g \in Node : ~\E S \in SUBSET Node :
        S # {} /\ \A n \in S : reply[n][g] \in S

=============================================================================
