----------------------------- MODULE IrcProofs ------------------------------
(***************************************************************************)
(* Membership and OpsFromOps for any number of connections, clients, nicks *)
(* and channels.  Membership is inductive once the types of the pointers   *)
(* are added; its parts are about sockets (ConnInv), nicks (NickInv) and   *)
(* channels (ChanInv), and what ties them together is that whoever is in   *)
(* a channel or in the hash of nicks is a client that has not been freed,  *)
(* so that a write to it goes to a socket of the list.                     *)
(***************************************************************************)
EXTENDS Irc, TLAPS

USE NullAssumption, ChannelAssumption

ConnInv ==
    /\ killed \subseteq enq /\ enq \subseteq Sock
    /\ data \in [Sock -> Client \cup {NULL}] /\ sock \in [Client -> Sock \cup {NULL}]
    /\ heap \subseteq Client
    /\ SocketsOK

NickInv ==
    /\ clients \in [Nick -> Client \cup {NULL}] /\ nick \in [Client -> Nick \cup {NULL}]
    /\ registered \subseteq heap
    /\ \A k \in Nick : clients[k] # NULL => clients[k] \in registered /\ nick[clients[k]] = k

ChanInv ==
    /\ chan \in [Chan -> Channel \cup {NULL}] /\ channel \in [Client -> SUBSET Chan]
    /\ \A n \in Chan, c \in Client : InChannel(c, n) <=> n \in channel[c]
    /\ \A c \in Client : channel[c] # {} => c \in heap
    /\ \A n \in Chan : Exists(n) => chan[n].member # {} /\ chan[n].op \subseteq chan[n].member

IInv == ConnInv /\ NickInv /\ ChanInv

LEMMA InvMembership == IInv => Membership
BY DEF IInv, ConnInv, NickInv, ChanInv, Membership, TypeOK

LEMMA InitOK == Init => IInv
BY DEF Init, IInv, ConnInv, NickInv, ChanInv, SocketsOK, InChannel, Exists

-----------------------------------------------------------------------------
(* Sending *)

\* A socket that a client is written to is in the list.
LEMMA PrintfOK ==
  ASSUME ConnInv, NEW R \in SUBSET heap, NEW dead \in SUBSET enq, irc_printf(R, dead)
  PROVE  killed' \subseteq enq
BY DEF ConnInv, SocketsOK, irc_printf

\* Whom handlers write to.
LEMMA Written ==
  ASSUME IInv
  PROVE  /\ \A s \in Sock : data[s] # NULL => data[s] \in heap
         /\ \A k \in Nick : clients[k] # NULL => clients[k] \in heap
         /\ \A n \in Chan : Exists(n) => chan[n].member \subseteq heap
         /\ \A c \in Client : UNION {chan[n].member : n \in channel[c]} \subseteq heap
<1>1. \A n \in Chan : Exists(n) => chan[n].member \subseteq heap
  BY DEF IInv, ChanInv, InChannel, Exists, Channel
<1>2. ASSUME NEW c \in Client, NEW n \in channel[c] PROVE chan[n].member \subseteq heap
  BY <1>1 DEF IInv, ChanInv, InChannel
<1>3. \A c \in Client : UNION {chan[n].member : n \in channel[c]} \subseteq heap
  BY <1>2
<1> QED
  BY <1>1, <1>3 DEF IInv, ConnInv, NickInv, SocketsOK

\* Only the marks of sockets change.
LEMMA KilledOK ==
  ASSUME IInv, killed' \subseteq enq,
         UNCHANGED <<connVars, heap, fieldVars, channel, clients, chan>>
  PROVE  IInv'
BY DEF IInv, ConnInv, NickInv, ChanInv, SocketsOK, InChannel, Exists, connVars, fieldVars

LEMMA ReplyOK == ASSUME IInv, NEW s \in Sock, data[s] # NULL, Reply(s) PROVE IInv'
<1>1. killed' \subseteq enq
  BY Written, PrintfOK DEF Reply, IInv
<1> QED
  BY <1>1, KilledOK DEF Reply

LEMMA TellOK == ASSUME IInv, NEW R \in SUBSET heap, Tell(R) PROVE IInv'
<1>1. killed' \subseteq enq
  BY PrintfOK DEF Tell, IInv
<1> QED
  BY <1>1, KilledOK DEF Tell

LEMMA KillOK == ASSUME IInv, NEW s \in enq, Killed(s) PROVE IInv'
BY KilledOK DEF Killed, IInv, ConnInv

-----------------------------------------------------------------------------
(* What steps leave alone *)

LEMMA ConnKept ==
  ASSUME ConnInv, killed' \subseteq enq, UNCHANGED <<connVars, heap, sock>>
  PROVE  ConnInv'
BY DEF ConnInv, SocketsOK, connVars

LEMMA NickKept ==
  ASSUME NickInv, UNCHANGED <<heap, nick, registered, clients>>
  PROVE  NickInv'
BY DEF NickInv

LEMMA ChanKept ==
  ASSUME ChanInv, heap \subseteq heap', UNCHANGED <<channel, chan>>
  PROVE  ChanInv'
BY DEF ChanInv, InChannel, Exists

-----------------------------------------------------------------------------
(* Connections and nicks *)

LEMMA ConnectOK == ASSUME IInv, NEW s \in Sock, irc_connect_socket(s) PROVE IInv'
<1>1. PICK c \in Client \ heap :
         /\ heap' = heap \cup {c}
         /\ data' = [data EXCEPT ![s] = c] /\ sock' = [sock EXCEPT ![c] = s]
  BY DEF irc_connect_socket
<1>2. data[s] = NULL /\ s \notin enq
  BY DEF irc_connect_socket, IInv, ConnInv, SocketsOK
<1>3. ConnInv'
  BY <1>1, <1>2 DEF irc_connect_socket, IInv, ConnInv, SocketsOK
<1>4. NickInv'
  BY <1>1 DEF irc_connect_socket, IInv, NickInv
<1>5. ChanInv'
  BY <1>1, ChanKept DEF irc_connect_socket, IInv
<1> QED
  BY <1>3, <1>4, <1>5 DEF IInv

LEMMA CoserverDoneOK ==
  ASSUME IInv, NEW s \in Sock, NEW a \in Coservers, CoserverDone(s, a)
  PROVE  IInv'
<1>1. killed' \subseteq enq
  BY Written, PrintfOK DEF CoserverDone, IInv, ConnInv
<1> QED
  BY <1>1 DEF CoserverDone, IInv, ConnInv, NickInv, ChanInv, SocketsOK, InChannel, Exists,
              fieldVars

LEMMA UserOK == ASSUME IInv, NEW s \in Talking, irc_user_callback(s) PROVE IInv'
<1>1. s \in Sock /\ data[s] # NULL
  BY DEF Talking, IInv, ConnInv
<1>2. killed' \subseteq enq
  BY <1>1, Written, PrintfOK DEF irc_user_callback, IInv, ConnInv
<1> QED
  BY <1>2, ConnKept, NickKept, ChanKept DEF irc_user_callback, IInv

\* The hash knows a registered client under its new nick only, and a client that
\* is not registered under none.
LEMMA NickOK ==
  ASSUME IInv, NEW s \in Talking, NEW k \in Nick, irc_nick_callback(s, k)
  PROVE  IInv'
<1> DEFINE c == data[s]
<1>1. s \in Sock /\ c # NULL /\ c \in Client /\ c \in heap
  BY DEF Talking, IInv, ConnInv, SocketsOK
<1> HIDE DEF c
<1>2. killed' \subseteq enq
  BY <1>1, Written, PrintfOK DEF irc_nick_callback, IInv, ConnInv, c
<1>3. NickInv'
  <2>1. CASE UNCHANGED <<nick, clients>>
    BY <2>1, NickKept DEF irc_nick_callback, IInv
  <2>2. CASE clients[k] = NULL /\ nick' = [nick EXCEPT ![c] = k] /\ c \in registered
             /\ clients' = Renamed(c, k)
    BY <1>1, <2>2 DEF irc_nick_callback, Renamed, IInv, NickInv
  <2>3. CASE clients[k] = NULL /\ nick' = [nick EXCEPT ![c] = k] /\ c \notin registered
             /\ clients' = clients
    BY <1>1, <2>3 DEF irc_nick_callback, IInv, NickInv
  <2> QED
    BY <2>1, <2>2, <2>3 DEF irc_nick_callback, irc_find_nick, c
<1> QED
  BY <1>2, <1>3, ConnKept, ChanKept DEF irc_nick_callback, IInv

LEMMA RegisterOK ==
  ASSUME IInv, NEW s \in enq, data[s] # NULL, Register(s)
  PROVE  IInv'
<1> DEFINE c == data[s]
<1>1. s \in Sock /\ c # NULL /\ c \in Client /\ c \in heap /\ nick[c] # NULL /\ nick[c] \in Nick
  BY DEF IInv, ConnInv, SocketsOK, Register, UMODE_REGISTERED, NickInv
<1> HIDE DEF c
<1>2. killed' \subseteq enq
  BY <1>1, PrintfOK DEF Register, IInv, ConnInv, c
<1>3. NickInv'
  <2>1. CASE UNCHANGED <<registered, clients>>
    BY <2>1, NickKept DEF Register, IInv
  <2>2. CASE clients' = irc_add_client(c) /\ registered' = registered \cup {c}
    BY <1>1, <2>2 DEF Register, irc_add_client, IInv, NickInv
  <2> QED
    BY <2>1, <2>2 DEF Register, c
<1> QED
  BY <1>2, <1>3, ConnKept, ChanKept DEF Register, IInv

LEMMA IdleOK == ASSUME IInv, NEW s \in Sock, irc_idle(s) PROVE IInv'
<1>1. CASE data[s] = NULL
  BY <1>1, KilledOK DEF irc_idle, Register, Ping, Reply, Killed, IInv, ConnInv
<1>2. CASE data[s] # NULL
  BY <1>2, RegisterOK, ReplyOK, KillOK DEF irc_idle, Ping
<1> QED
  BY <1>1, <1>2

-----------------------------------------------------------------------------
(* Leaving *)

\* A channel that a client left is deleted or still has a member.
LEMMA Left ==
  ASSUME NEW r \in Channel, NEW c \in Client, r.op \subseteq r.member
  PROVE  /\ irc_leave_channel(r, c) \in Channel \cup {NULL}
         /\ irc_leave_channel(r, c) = NULL => r.member \subseteq {c}
         /\ irc_leave_channel(r, c) # NULL =>
              /\ irc_leave_channel(r, c).member = r.member \ {c}
              /\ irc_leave_channel(r, c).op = r.op \ {c}
              /\ irc_leave_channel(r, c).member # {}
              /\ irc_leave_channel(r, c).op \subseteq irc_leave_channel(r, c).member
<1> DEFINE q == [r EXCEPT !.member = @ \ {c}, !.op = @ \ {c}]
<1>1. q \in Channel /\ q.member = r.member \ {c} /\ q.op = r.op \ {c}
  BY DEF Channel
<1>2. r.member \subseteq Client
  BY DEF Channel
<1> HIDE DEF q
<1>3. irc_leave_channel(r, c) = IF r.member \subseteq {c} THEN NULL ELSE q
  BY DEF irc_leave_channel, q
<1> QED
  BY <1>1, <1>2, <1>3

\* A client leaves one channel.
LEMMA ChanLeave ==
  ASSUME ChanInv, NEW n \in Chan, NEW c \in Client, InChannel(c, n),
         chan' = [chan EXCEPT ![n] = irc_leave_channel(@, c)],
         channel' = [channel EXCEPT ![c] = @ \ {n}], heap' = heap
  PROVE  ChanInv'
<1> DEFINE q == irc_leave_channel(chan[n], c)
<1>1. /\ chan[n] \in Channel /\ chan[n].op \subseteq chan[n].member /\ chan[n] # NULL
  BY DEF ChanInv, InChannel, Exists
<1>2. /\ q \in Channel \cup {NULL}
      /\ q = NULL => chan[n].member \subseteq {c}
      /\ q # NULL => /\ q.member = chan[n].member \ {c} /\ q.member # {}
                     /\ q.op \subseteq q.member
  BY <1>1, Left
<1>3. chan' = [chan EXCEPT ![n] = q]
  OBVIOUS
<1> HIDE DEF q
<1> QED
  BY <1>1, <1>2, <1>3 DEF ChanInv, InChannel, Exists

\* A client leaves all of its channels and is freed.
LEMMA ChanLeaveAll ==
  ASSUME ChanInv, NEW c \in Client, heap' = heap \ {c},
         chan' = [n \in Chan |-> IF n \in channel[c] THEN irc_leave_channel(chan[n], c)
                                 ELSE chan[n]],
         channel' = [channel EXCEPT ![c] = {}]
  PROVE  ChanInv'
<1>1. ASSUME NEW n \in channel[c]
      PROVE  /\ n \in Chan
             /\ chan'[n] \in Channel \cup {NULL}
             /\ chan[n] # NULL
             /\ chan'[n] = NULL => chan[n].member \subseteq {c}
             /\ chan'[n] # NULL => /\ chan'[n].member = chan[n].member \ {c}
                                   /\ chan'[n].member # {}
                                   /\ chan'[n].op \subseteq chan'[n].member
  <2>1. n \in Chan /\ chan[n] # NULL /\ chan[n] \in Channel /\ chan[n].op \subseteq chan[n].member
    BY DEF ChanInv, InChannel, Exists
  <2>2. chan'[n] = irc_leave_channel(chan[n], c)
    BY <2>1
  <2> QED
    BY <2>1, <2>2, Left
<1>2. \A n \in Chan : n \notin channel[c] => chan'[n] = chan[n]
  OBVIOUS
<1>3. chan' \in [Chan -> Channel \cup {NULL}]
  BY <1>1, <1>2 DEF ChanInv
<1>4. channel' \in [Client -> SUBSET Chan]
  BY DEF ChanInv
<1>5. ASSUME NEW n \in Chan, NEW d \in Client PROVE InChannel(d, n)' <=> n \in channel'[d]
  <2>1. InChannel(d, n) <=> n \in channel[d]
    BY DEF ChanInv
  <2>2. channel'[d] = IF d = c THEN {} ELSE channel[d]
    BY DEF ChanInv
  <2>3. CASE n \in channel[c]
    BY <1>1, <2>1, <2>2, <2>3 DEF InChannel, Exists
  <2>4. CASE n \notin channel[c]
    BY <1>2, <2>1, <2>2, <2>4 DEF InChannel, Exists
  <2> QED
    BY <2>3, <2>4
<1>6. \A n \in Chan : Exists(n)' => chan'[n].member # {} /\ chan'[n].op \subseteq chan'[n].member
  BY <1>1, <1>2 DEF ChanInv, Exists
<1>7. \A d \in Client : channel'[d] # {} => d \in heap'
  BY DEF ChanInv
<1> QED
  BY <1>3, <1>4, <1>5, <1>6, <1>7 DEF ChanInv

\* After irc_leave_all_channels nothing points to the client that was freed.
LEMMA LeaveAllOK ==
  ASSUME IInv, NEW s \in Sock, data[s] # NULL, irc_leave_all_channels(s)
  PROVE  /\ NickInv' /\ ChanInv'
         /\ enq' \in {enq, enq \ {s}} /\ killed' \subseteq enq' => ConnInv'
<1> DEFINE c == data[s]
<1>1. c # NULL /\ c \in Client /\ c \in heap /\ sock[c] = s
  BY DEF IInv, ConnInv, SocketsOK
<1>2. /\ data' = [data EXCEPT ![s] = NULL] /\ sock' = [sock EXCEPT ![c] = NULL]
      /\ heap' = heap \ {c} /\ nick' = [nick EXCEPT ![c] = NULL]
      /\ registered' = registered \ {c}
      /\ clients' = IF nick[c] = NULL THEN clients ELSE [clients EXCEPT ![nick[c]] = NULL]
  BY DEF irc_leave_all_channels, irc_delete_client
<1>3. ChanInv'
  BY <1>1, <1>2, ChanLeaveAll DEF irc_leave_all_channels, IInv
<1> HIDE DEF c
<1>4. NickInv'
  BY <1>1, <1>2 DEF IInv, NickInv
<1>5. enq' \in {enq, enq \ {s}} /\ killed' \subseteq enq' => ConnInv'
  BY <1>1, <1>2 DEF IInv, ConnInv, SocketsOK, c
<1> QED
  BY <1>3, <1>4, <1>5

LEMMA PeersWritten ==
  ASSUME IInv, NEW c \in Client
  PROVE  Peers(c) \subseteq heap /\ {sock[d] : d \in Peers(c)} \subseteq enq
<1>1. Peers(c) \subseteq heap
  BY Written DEF Peers
<1> QED
  BY <1>1 DEF IInv, ConnInv, SocketsOK

LEMMA QuitOK == ASSUME IInv, NEW s \in Talking, irc_quit_callback(s) PROVE IInv'
<1>1. s \in Sock /\ s \in enq /\ data[s] # NULL /\ data[s] \in Client
  BY DEF Talking, IInv, ConnInv
<1>2. killed' \subseteq enq
  BY <1>1, PeersWritten, PrintfOK DEF irc_quit_callback, IInv
<1> QED
  BY <1>1, <1>2, LeaveAllOK DEF irc_quit_callback, IInv

LEMMA DisconnectOK == ASSUME IInv, NEW s \in Sock, irc_disconnect(s) PROVE IInv'
<1>1. CASE data[s] = NULL
  BY <1>1 DEF irc_disconnect, IInv, ConnInv, NickInv, ChanInv, SocketsOK, InChannel, Exists,
              fieldVars
<1>2. CASE data[s] # NULL
  <2>1. data[s] \in Client /\ killed \subseteq enq
    BY <1>2 DEF IInv, ConnInv
  <2>2. killed' \subseteq enq'
    BY <1>2, <2>1, PeersWritten DEF irc_disconnect
  <2> QED
    BY <1>2, <2>2, LeaveAllOK DEF irc_disconnect, IInv
<1> QED
  BY <1>1, <1>2

LEMMA PartOK ==
  ASSUME IInv, NEW s \in Talking, NEW n \in Chan, irc_part_callback(s, n)
  PROVE  IInv'
<1>1. s \in Sock /\ data[s] # NULL /\ data[s] \in Client
  BY DEF Talking, IInv, ConnInv
<1>2. killed' \subseteq enq
  BY <1>1, Written, PrintfOK DEF irc_part_callback, InChannel, IInv
<1>3. ChanInv'
  BY <1>1, ChanLeave, ChanKept DEF irc_part_callback, IInv
<1> QED
  BY <1>2, <1>3, ConnKept, NickKept DEF irc_part_callback, fieldVars, IInv

LEMMA KickOK ==
  ASSUME IInv, NEW s \in Talking, NEW n \in Chan, NEW k \in Nick, irc_kick_callback(s, n, k)
  PROVE  IInv'
<1>1. s \in Sock /\ data[s] # NULL /\ data[s] \in Client
  BY DEF Talking, IInv, ConnInv
<1>2. killed' \subseteq enq
  BY <1>1, Written, PrintfOK DEF irc_kick_callback, InChannel, IInv, ConnInv
<1>3. clients[k] # NULL => clients[k] \in Client
  BY DEF IInv, NickInv
<1>4. ChanInv'
  BY <1>3, ChanLeave, ChanKept DEF irc_kick_callback, irc_find_nick, IInv
<1> QED
  BY <1>2, <1>4, ConnKept, NickKept DEF irc_kick_callback, fieldVars, IInv

-----------------------------------------------------------------------------
(* Joining *)

\* A channel changes and its members do not.
LEMMA ChanModify ==
  ASSUME ChanInv, NEW n \in Chan, Exists(n), NEW q \in Channel,
         q.member = chan[n].member, q.op \subseteq q.member,
         chan' = [chan EXCEPT ![n] = q], channel' = channel, heap' = heap
  PROVE  ChanInv'
BY DEF ChanInv, InChannel, Exists

\* A client enters the channel n, of which q is the new state.
LEMMA ChanEnter ==
  ASSUME ChanInv, NEW n \in Chan, NEW c \in heap, NEW q \in Channel, c \in Client,
         q.member = IF Exists(n) THEN chan[n].member \cup {c} ELSE {c},
         q.op \subseteq q.member,
         chan' = [chan EXCEPT ![n] = q],
         channel' = [channel EXCEPT ![c] = @ \cup {n}], heap' = heap
  PROVE  ChanInv'
<1>1. chan' \in [Chan -> Channel \cup {NULL}] /\ channel' \in [Client -> SUBSET Chan]
  BY DEF ChanInv
<1>2. ASSUME NEW m \in Chan, NEW d \in Client PROVE InChannel(d, m)' <=> m \in channel'[d]
  BY DEF ChanInv, InChannel, Exists
<1>3. \A d \in Client : channel'[d] # {} => d \in heap'
  BY DEF ChanInv
<1>4. \A m \in Chan : Exists(m)' => chan'[m].member # {} /\ chan'[m].op \subseteq chan'[m].member
  BY DEF ChanInv, Exists
<1> QED
  BY <1>1, <1>2, <1>3, <1>4 DEF ChanInv

LEMMA NewChannelOK ==
  ASSUME NEW c \in Client
  PROVE  /\ NewChannel(c) \in Channel
         /\ NewChannel(c).member = {c} /\ NewChannel(c).op = {c}
<1>1. 0 \in 0..MaxList
  BY BoundAssumption
<1> QED
  BY <1>1 DEF NewChannel, Channel

LEMMA InvitedOK ==
  ASSUME NEW r \in Channel, NEW c \in Client, MayCome(r, c)
  PROVE  /\ Invited(r, c) \in Channel
         /\ Invited(r, c).member = r.member /\ Invited(r, c).op = r.op
<1>1. CASE "i" \in r.mode
  <2>1. r.invite[c] \in 0..MaxList /\ r.invite[c] > 0
    BY <1>1 DEF MayCome, Channel
  <2>2. r.invite[c] - 1 \in 0..MaxList
    BY <2>1, BoundAssumption
  <2> QED
    BY <1>1, <2>2 DEF Invited, Channel
<1>2. CASE "i" \notin r.mode
  BY <1>2 DEF Invited
<1> QED
  BY <1>1, <1>2

\* r is the state of a channel that exists, or of a new one.
LEMMA JoinChannelOK ==
  ASSUME IInv, NEW n \in Chan, NEW c \in heap, NEW r \in Channel,
         IF Exists(n) THEN r.member = chan[n].member ELSE r.member = {c},
         r.op \subseteq r.member, irc_join_channel(r, c, n), heap' = heap
  PROVE  ChanInv'
<1>1. c \in Client
  BY DEF IInv, ConnInv
<1>2. CASE channel' = channel /\ chan' = [chan EXCEPT ![n] = IF Exists(n) THEN r ELSE NULL]
  <2>1. CASE Exists(n)
    BY <1>2, <2>1, ChanModify DEF IInv
  <2>2. CASE ~Exists(n)
    <3>1. chan' = chan
      BY <1>2, <2>2 DEF Exists, IInv, ChanInv
    <3> QED
      BY <1>2, <3>1, ChanKept DEF IInv
  <2> QED
    BY <2>1, <2>2
<1>3. CASE Entered(r, c, n)
  <2> DEFINE q == [r EXCEPT !.member = @ \cup {c}]
  <2>1. q \in Channel /\ q.member = r.member \cup {c} /\ q.op = r.op
    BY <1>1 DEF Channel
  <2>2. chan' = [chan EXCEPT ![n] = q] /\ channel' = [channel EXCEPT ![c] = @ \cup {n}]
    BY <1>3 DEF Entered
  <2> HIDE DEF q
  <2>3. q.member = (IF Exists(n) THEN chan[n].member \cup {c} ELSE {c}) /\ q.op \subseteq q.member
    BY <2>1
  <2> QED
    BY <1>1, <2>1, <2>2, <2>3, ChanEnter DEF IInv
<1> QED
  BY <1>2, <1>3 DEF irc_join_channel

LEMMA JoinOK ==
  ASSUME IInv, NEW s \in Talking, NEW n \in Chan, irc_join_callback(s, n)
  PROVE  IInv'
<1> DEFINE c == data[s]
           r == chan[n]
<1>1. s \in Sock /\ c # NULL /\ c \in Client /\ c \in heap
  BY DEF Talking, IInv, ConnInv, SocketsOK
<1>2. Exists(n) => r \in Channel /\ r.op \subseteq r.member /\ r.member \subseteq heap
  BY Written DEF IInv, ChanInv, Exists
<1>3. Exists(n) /\ MayCome(r, c) =>
        /\ Invited(r, c) \in Channel
        /\ Invited(r, c).member = r.member /\ Invited(r, c).op = r.op
  BY <1>1, <1>2, InvitedOK
<1>4. /\ UNCHANGED <<connVars, heap, fieldVars, clients>>
      /\ \/ /\ ~Exists(n)
            /\ irc_join_channel(NewChannel(c), c, n)
            /\ irc_printf({c}, {})
         \/ /\ Exists(n)
            /\ irc_printf({c}, {}) /\ UNCHANGED <<chan, channel>>
         \/ /\ Exists(n) /\ MayCome(r, c)
            /\ chan' = [chan EXCEPT ![n] = Invited(r, c)]
            /\ irc_printf({c}, {}) /\ UNCHANGED channel
         \/ UNCHANGED <<chan, channel, killed>>
         \/ /\ Exists(n) /\ MayCome(r, c)
            /\ irc_join_channel(Invited(r, c), c, n)
            /\ irc_printf(r.member \cup {c}, {})
  BY DEF irc_join_callback
<1> HIDE DEF c, r
<1>5. heap' = heap
  BY <1>4
<1>6. killed' \subseteq enq
  <2>1. irc_printf({c}, {}) => killed' \subseteq enq
    BY <1>1, PrintfOK DEF IInv
  <2>2. Exists(n) /\ irc_printf(r.member \cup {c}, {}) => killed' \subseteq enq
    BY <1>1, <1>2, PrintfOK DEF IInv
  <2> QED
    BY <1>4, <2>1, <2>2 DEF IInv, ConnInv
<1>7. ChanInv'
  <2>1. CASE ~Exists(n) /\ irc_join_channel(NewChannel(c), c, n)
    BY <1>1, <1>5, <2>1, NewChannelOK, JoinChannelOK
  <2>2. CASE UNCHANGED <<chan, channel>>
    BY <1>5, <2>2, ChanKept DEF IInv
  <2>3. CASE Exists(n) /\ MayCome(r, c) /\ chan' = [chan EXCEPT ![n] = Invited(r, c)]
             /\ UNCHANGED channel
    BY <1>2, <1>3, <1>5, <2>3, ChanModify DEF IInv, r
  <2>4. CASE Exists(n) /\ MayCome(r, c) /\ irc_join_channel(Invited(r, c), c, n)
    BY <1>1, <1>2, <1>3, <1>5, <2>4, JoinChannelOK DEF r
  <2> QED
    BY <1>4, <2>1, <2>2, <2>3, <2>4
<1> QED
  BY <1>4, <1>6, <1>7, ConnKept, NickKept DEF fieldVars, IInv

\* An invitation is added to a list that has room for it.
LEMMA InviteOK ==
  ASSUME IInv, NEW s \in Talking, NEW n \in Chan, NEW k \in Nick, irc_invite_callback(s, n, k)
  PROVE  IInv'
<1> DEFINE cl == clients[k]
           q == [chan[n] EXCEPT !.invite[cl] = @ + 1]
<1>1. s \in Sock /\ data[s] # NULL /\ data[s] \in Client
  BY DEF Talking, IInv, ConnInv
<1>2. killed' \subseteq enq
  BY <1>1, Written, PrintfOK DEF irc_invite_callback, irc_find_nick, IInv
<1>3. ChanInv'
  <2>1. CASE UNCHANGED chan
    BY <2>1, ChanKept DEF irc_invite_callback, IInv
  <2>2. CASE /\ cl # NULL /\ Exists(n) /\ chan[n].invite[cl] < MaxList
             /\ chan' = [chan EXCEPT ![n] = q]
    <3>1. cl \in Client /\ chan[n] \in Channel /\ chan[n].op \subseteq chan[n].member
      BY <2>2 DEF IInv, ChanInv, NickInv, Exists
    <3>2. chan[n].invite[cl] + 1 \in 0..MaxList
      BY <2>2, <3>1, BoundAssumption DEF Channel
    <3>3. q \in Channel /\ q.member = chan[n].member /\ q.op = chan[n].op
      BY <3>1, <3>2 DEF Channel
    <3> HIDE DEF q
    <3>4. channel' = channel /\ heap' = heap
      BY DEF irc_invite_callback
    <3> QED
      BY <2>2, <3>1, <3>3, <3>4, ChanModify DEF IInv
  <2> QED
    BY <2>1, <2>2 DEF irc_invite_callback, irc_find_nick, InChannel
<1> QED
  BY <1>2, <1>3, ConnKept, NickKept DEF irc_invite_callback, fieldVars, IInv

-----------------------------------------------------------------------------
(* Modes and messages *)

\* What a MODE request of an operator of the channel n may do to it.
Moded(n, q) ==
    /\ q \in Channel /\ q.member = chan[n].member /\ q.op \subseteq q.member
    /\ chan' = [chan EXCEPT ![n] = q]

LEMMA FlagsOK ==
  ASSUME IInv, NEW n \in Chan, Exists(n), NEW set \in BOOLEAN
  PROVE  /\ \A k \in Nick : irc_client_flag(n, k, set) =>
              UNCHANGED chan \/ \E q \in Channel : Moded(n, q)
         /\ \A m \in ChannelModes :
              irc_channel_flag(n, m, set) \/ irc_channel_arg(n, m, set) =>
                UNCHANGED chan \/ \E q \in Channel : Moded(n, q) /\ q.op = chan[n].op
<1>1. chan[n] \in Channel /\ chan[n].op \subseteq chan[n].member
  BY DEF IInv, ChanInv, Exists
<1>2. ASSUME NEW k \in Nick, irc_client_flag(n, k, set)
      PROVE  UNCHANGED chan \/ \E q \in Channel : Moded(n, q)
  <2>1. SUFFICES ASSUME NEW c \in chan[n].member,
                        chan' = [chan EXCEPT ![n].op = IF set THEN @ \cup {c} ELSE @ \ {c}]
                 PROVE  \E q \in Channel : Moded(n, q)
    BY <1>2 DEF irc_client_flag
  <2> DEFINE o == IF set THEN chan[n].op \cup {c} ELSE chan[n].op \ {c}
             q == [chan[n] EXCEPT !.op = o]
  <2>2. o \subseteq chan[n].member /\ o \in SUBSET Client
    BY <1>1 DEF Channel
  <2>3. chan' = [chan EXCEPT ![n] = q]
    BY <2>1
  <2> HIDE DEF o
  <2>4. q \in Channel /\ q.member = chan[n].member /\ q.op = o
    BY <1>1, <2>2 DEF Channel
  <2> HIDE DEF q
  <2> QED
    BY <2>2, <2>3, <2>4 DEF Moded
<1>3. ASSUME NEW m \in ChannelModes, irc_channel_flag(n, m, set) \/ irc_channel_arg(n, m, set)
      PROVE  UNCHANGED chan \/ \E q \in Channel : Moded(n, q) /\ q.op = chan[n].op
  <2> DEFINE o == IF set THEN chan[n].mode \cup {m} ELSE chan[n].mode \ {m}
             q1 == [chan[n] EXCEPT !.mode = o]
             q2(l) == [chan[n] EXCEPT !.mode = o, !.users = l]
  <2>1. o \in SUBSET ChannelModes
    BY <1>1 DEF Channel
  <2>2. \/ chan' = [chan EXCEPT ![n] = q1]
        \/ \E l \in Limits \cup {0} : chan' = [chan EXCEPT ![n] = q2(l)]
        \/ UNCHANGED chan
    <3>1. CASE irc_channel_flag(n, m, set)
      BY <3>1 DEF irc_channel_flag
    <3>2. CASE irc_channel_arg(n, m, set)
      <4>1. chan[n].users \in Limits \cup {0}
        BY <1>1 DEF Channel
      <4>2. ASSUME NEW l,
                   chan' = [chan EXCEPT ![n].mode = IF set THEN @ \cup {m} ELSE @ \ {m},
                                        ![n].users = l]
            PROVE  chan' = [chan EXCEPT ![n] = q2(l)]
        BY <1>1, <4>2 DEF IInv, ChanInv
      <4>3. UNCHANGED chan \/
            \E l \in IF m = "l" THEN (IF set THEN Limits ELSE {0}) ELSE {chan[n].users} :
               chan' = [chan EXCEPT ![n].mode = IF set THEN @ \cup {m} ELSE @ \ {m},
                                    ![n].users = l]
        BY <3>2 DEF irc_channel_arg
      <4> HIDE DEF q2
      <4> QED
        BY <4>1, <4>2, <4>3
    <3> QED
      BY <1>3, <3>1, <3>2
  <2> HIDE DEF o
  <2>3. q1 \in Channel /\ q1.member = chan[n].member /\ q1.op = chan[n].op
    BY <1>1, <2>1 DEF Channel
  <2>4. \A l \in Limits \cup {0} :
          q2(l) \in Channel /\ q2(l).member = chan[n].member /\ q2(l).op = chan[n].op
    BY <1>1, <2>1 DEF Channel
  <2> HIDE DEF q1, q2
  <2> QED
    BY <1>1, <2>2, <2>3, <2>4 DEF Moded
<1> QED
  BY <1>2, <1>3

LEMMA ModeOK ==
  ASSUME IInv, NEW s \in Talking, NEW n \in Chan, irc_mode_callback(s, n)
  PROVE  IInv'
<1>1. s \in Sock /\ data[s] # NULL /\ data[s] \in Client
  BY DEF Talking, IInv, ConnInv
<1>2. channel' = channel /\ heap' = heap
  BY DEF irc_mode_callback
<1>3. CASE InChannel(data[s], n) /\ data[s] \in chan[n].op
  <2>1. Exists(n)
    BY <1>3 DEF InChannel
  <2>2. PICK set \in BOOLEAN :
           \/ \E k \in Nick : irc_client_flag(n, k, set)
           \/ \E m \in ChannelModes :
                irc_channel_flag(n, m, set) \/ irc_channel_arg(n, m, set)
    BY <1>3, Zenon DEF irc_mode_callback
  <2>3. UNCHANGED chan \/ \E q \in Channel : Moded(n, q)
    BY <2>1, <2>2, FlagsOK, Zenon
  <2>4. ChanInv'
    BY <1>2, <2>1, <2>3, ChanKept, ChanModify DEF IInv, Moded
  <2>5. killed' = killed \/ irc_printf(chan[n].member, {})
    BY <2>2 DEF irc_client_flag, irc_channel_flag, irc_channel_arg
  <2>6. killed' \subseteq enq
    BY <2>1, <2>5, Written, PrintfOK DEF IInv, ConnInv
  <2> QED
    BY <2>4, <2>6, ConnKept, NickKept DEF irc_mode_callback, fieldVars, IInv
<1>4. CASE ~(InChannel(data[s], n) /\ data[s] \in chan[n].op)
  <2>1. irc_printf({data[s]}, {}) /\ chan' = chan
    BY <1>4 DEF irc_mode_callback
  <2>2. killed' \subseteq enq
    BY <1>1, <2>1, Written, PrintfOK DEF IInv
  <2> QED
    BY <1>2, <2>1, <2>2, KilledOK DEF irc_mode_callback
<1> QED
  BY <1>3, <1>4

-----------------------------------------------------------------------------
(* The invariant *)

LEMMA RequestOK == ASSUME IInv, NEW s \in Sock, irc_handle_request(s) PROVE IInv'
<1>1. s \in Talking /\ data[s] # NULL
  BY DEF irc_handle_request, Talking
<1>2. CASE Reply(s)
  BY <1>1, <1>2, ReplyOK
<1>3. CASE irc_user_callback(s) \/ irc_quit_callback(s)
  BY <1>1, <1>3, UserOK, QuitOK
<1>4. CASE \E k \in Nick : irc_nick_callback(s, k)
  BY <1>1, <1>4, NickOK
<1>5. CASE \E n \in Chan : \/ irc_join_callback(s, n) \/ irc_part_callback(s, n)
                           \/ irc_mode_callback(s, n)
  BY <1>1, <1>5, JoinOK, PartOK, ModeOK
<1>6. CASE \E n \in Chan, k \in Nick :
             irc_kick_callback(s, n, k) \/ irc_invite_callback(s, n, k)
  BY <1>1, <1>6, KickOK, InviteOK
<1>7. CASE \/ \E k \in Nick : irc_note_callback(s, k)
           \/ \E n \in Chan : irc_topic_callback(s, n)
           \/ \E n \in Chan, k \in Nick : irc_priv_callback(s, k, n)
  <2>1. \E R \in SUBSET heap : Tell(R)
    BY <1>1, <1>7, Written
       DEF irc_priv_callback, irc_note_callback, irc_topic_callback, irc_find_nick
  <2> QED
    BY <2>1, TellOK
<1> QED
  BY <1>2, <1>3, <1>4, <1>5, <1>6, <1>7
     DEF irc_handle_request, irc_motd_callback, irc_names_callback, irc_list_callback,
         irc_lusers_callback, irc_stats_callback, irc_info_callback, irc_whowas_callback,
         irc_whois_callback, irc_who_callback, irc_userhost_callback, irc_users_callback,
         irc_ping_callback

LEMMA NextOK == IInv /\ [Next]_vars => IInv'
<1> SUFFICES ASSUME IInv, [Next]_vars PROVE IInv'
  OBVIOUS
<1>1. CASE UNCHANGED vars
  BY <1>1 DEF IInv, ConnInv, NickInv, ChanInv, SocketsOK, InChannel, Exists, vars, connVars,
              fieldVars
<1>2. CASE Next
  <2>1. PICK s \in Sock :
           \/ irc_connect_socket(s) \/ \E a \in Coservers : CoserverDone(s, a)
           \/ irc_handle_request(s) \/ irc_idle(s) \/ irc_disconnect(s) \/ Lost(s)
    BY <1>2 DEF Next
  <2> QED
    BY <2>1, ConnectOK, CoserverDoneOK, RequestOK, IdleOK, DisconnectOK, KillOK DEF Lost
<1> QED
  BY <1>1, <1>2

\* The pointers between sockets, clients, nicks and channels agree in every
\* reachable state (irc_join_channel, irc_leave_channel, irc_leave_all_channels,
\* irc_add_client, irc_delete_client), however many there are of each.
THEOREM MembershipCorrect == Spec => []Membership
<1>1. Spec => []IInv
  BY InitOK, NextOK, PTL DEF Spec
<1> QED
  BY <1>1, InvMembership, PTL

-----------------------------------------------------------------------------
(* Operators *)

\* What OpsFromOps says of a step, and a stronger fact that all steps but MODE
\* satisfy.
OpStep ==
    \A n \in Chan : Exists(n) /\ chan'[n] # NULL =>
        \A c \in chan'[n].op \ chan[n].op : chan[n].op # {} /\ InChannel(c, n)

NoNewOp == \A n \in Chan : Exists(n) /\ chan'[n] # NULL => chan'[n].op \subseteq chan[n].op

LEMMA NoNewOpStep == NoNewOp => OpStep
BY DEF NoNewOp, OpStep

LEMMA OpsKept == chan' = chan => NoNewOp
BY DEF NoNewOp

\* One channel becomes q, which has no operator more.
LEMMA OpsUpdate ==
  ASSUME ChanInv, NEW n \in Chan, NEW q, chan' = [chan EXCEPT ![n] = q],
         Exists(n) /\ q # NULL => q.op \subseteq chan[n].op
  PROVE  NoNewOp
BY DEF NoNewOp, ChanInv, Exists

LEMMA OpsLeave ==
  ASSUME ChanInv, NEW n \in Chan, NEW c \in Client, Exists(n)
  PROVE  irc_leave_channel(chan[n], c) # NULL =>
           irc_leave_channel(chan[n], c).op \subseteq chan[n].op
<1>1. chan[n] \in Channel /\ chan[n].op \subseteq chan[n].member
  BY DEF ChanInv, Exists
<1> QED
  BY <1>1, Left

LEMMA OpsLeaveAll ==
  ASSUME IInv, NEW s \in Sock, data[s] # NULL, irc_leave_all_channels(s)
  PROVE  NoNewOp
<1>1. data[s] \in Client
  BY DEF IInv, ConnInv
<1>2. chan' = [n \in Chan |-> IF n \in channel[data[s]]
                              THEN irc_leave_channel(chan[n], data[s]) ELSE chan[n]]
  BY DEF irc_leave_all_channels
<1> QED
  BY <1>1, <1>2, OpsLeave DEF NoNewOp, IInv

LEMMA OpsJoin ==
  ASSUME IInv, NEW s \in Talking, NEW n \in Chan, irc_join_callback(s, n)
  PROVE  NoNewOp
<1> DEFINE c == data[s]
           r == chan[n]
           i == Invited(r, c)
<1>1. c \in Client
  BY DEF Talking, IInv, ConnInv
<1>2. Exists(n) => r \in Channel
  BY DEF IInv, ChanInv, Exists
<1>3. Exists(n) /\ MayCome(r, c) => i \in Channel /\ i.op = r.op
  BY <1>1, <1>2, InvitedOK
<1>4. i \in Channel => [i EXCEPT !.member = @ \cup {c}].op = i.op
  BY DEF Channel
<1>5. \/ ~Exists(n) /\ \E q : chan' = [chan EXCEPT ![n] = q]
      \/ chan' = chan
      \/ Exists(n) /\ MayCome(r, c) /\ chan' = [chan EXCEPT ![n] = i]
      \/ Exists(n) /\ MayCome(r, c) /\ chan' = [chan EXCEPT ![n] = [i EXCEPT !.member = @ \cup {c}]]
  BY DEF irc_join_callback, irc_join_channel, Entered
<1> HIDE DEF c, i
<1> QED
  BY <1>3, <1>4, <1>5, OpsKept, OpsUpdate DEF IInv

LEMMA OpsInvite ==
  ASSUME IInv, NEW s \in Talking, NEW n \in Chan, NEW k \in Nick, irc_invite_callback(s, n, k)
  PROVE  NoNewOp
<1>1. CASE chan' = chan
  BY <1>1, OpsKept
<1>2. CASE Exists(n) /\ chan' = [chan EXCEPT ![n].invite[clients[k]] = @ + 1]
  <2>1. chan[n] \in Channel
    BY <1>2 DEF IInv, ChanInv, Exists
  <2>2. [chan[n] EXCEPT !.invite[clients[k]] = @ + 1].op = chan[n].op
    BY <2>1 DEF Channel
  <2> QED
    BY <1>2, <2>2, OpsUpdate DEF IInv
<1> QED
  BY <1>1, <1>2 DEF irc_invite_callback, irc_find_nick, InChannel

LEMMA OpsMode ==
  ASSUME IInv, NEW s \in Talking, NEW n \in Chan, irc_mode_callback(s, n)
  PROVE  OpStep
<1>1. CASE chan' = chan
  BY <1>1, OpsKept, NoNewOpStep
<1>2. CASE InChannel(data[s], n) /\ data[s] \in chan[n].op /\ chan' # chan
  <2>1. PICK set \in BOOLEAN :
           \/ \E k \in Nick : irc_client_flag(n, k, set)
           \/ \E m \in ChannelModes :
                irc_channel_flag(n, m, set) \/ irc_channel_arg(n, m, set)
    BY <1>2, Zenon DEF irc_mode_callback
  <2>2. PICK q \in Channel : Moded(n, q)
    BY <1>2, <2>1, FlagsOK, Zenon DEF InChannel
  <2> QED
    BY <1>2, <2>2 DEF Moded, OpStep, InChannel, Exists, IInv, ChanInv
<1> QED
  BY <1>1, <1>2 DEF irc_mode_callback

LEMMA OpsRequest == ASSUME IInv, NEW s \in Sock, irc_handle_request(s) PROVE OpStep
<1>1. s \in Talking /\ data[s] # NULL /\ data[s] \in Client
  BY DEF irc_handle_request, Talking, IInv, ConnInv
<1>2. CASE chan' = chan
  BY <1>2, OpsKept, NoNewOpStep
<1>3. CASE irc_quit_callback(s)
  BY <1>1, <1>3, OpsLeaveAll, NoNewOpStep DEF irc_quit_callback
<1>4. CASE \E n \in Chan : irc_join_callback(s, n)
  BY <1>1, <1>4, OpsJoin, NoNewOpStep
<1>5. CASE \E n \in Chan : irc_part_callback(s, n)
  BY <1>1, <1>5, OpsLeave, OpsUpdate, OpsKept, NoNewOpStep DEF irc_part_callback, InChannel, IInv
<1>6. CASE \E n \in Chan : irc_mode_callback(s, n)
  BY <1>1, <1>6, OpsMode
<1>7. CASE \E n \in Chan, k \in Nick : irc_kick_callback(s, n, k)
  <2>1. PICK n \in Chan, k \in Nick : irc_kick_callback(s, n, k)
    BY <1>7
  <2>2. clients[k] # NULL => clients[k] \in Client
    BY DEF IInv, NickInv
  <2>3. CASE InChannel(clients[k], n) /\ clients[k] # NULL
             /\ chan' = [chan EXCEPT ![n] = irc_leave_channel(@, clients[k])]
    BY <2>2, <2>3, OpsLeave, OpsUpdate, NoNewOpStep DEF InChannel, IInv
  <2> QED
    BY <1>2, <2>1, <2>3 DEF irc_kick_callback, irc_find_nick
<1>8. CASE \E n \in Chan, k \in Nick : irc_invite_callback(s, n, k)
  BY <1>1, <1>8, OpsInvite, NoNewOpStep
<1>9. CASE Reply(s) \/ irc_user_callback(s) \/ (\E k \in Nick : irc_nick_callback(s, k))
           \/ (\E k \in Nick : irc_note_callback(s, k))
           \/ (\E n \in Chan : irc_topic_callback(s, n))
           \/ (\E n \in Chan, k \in Nick : irc_priv_callback(s, k, n))
  BY <1>2, <1>9 DEF Reply, irc_user_callback, irc_nick_callback, irc_note_callback,
                    irc_topic_callback, irc_priv_callback, Tell
<1> QED
  BY <1>3, <1>4, <1>5, <1>6, <1>7, <1>8, <1>9
     DEF irc_handle_request, irc_motd_callback, irc_names_callback, irc_list_callback,
         irc_lusers_callback, irc_stats_callback, irc_info_callback, irc_whowas_callback,
         irc_whois_callback, irc_who_callback, irc_userhost_callback, irc_users_callback,
         irc_ping_callback

LEMMA OpsNext == IInv /\ Next => OpStep
<1> SUFFICES ASSUME IInv, Next PROVE OpStep
  OBVIOUS
<1>1. PICK s \in Sock :
         \/ irc_connect_socket(s) \/ \E a \in Coservers : CoserverDone(s, a)
         \/ irc_handle_request(s) \/ irc_idle(s) \/ irc_disconnect(s) \/ Lost(s)
  BY DEF Next
<1>2. CASE irc_disconnect(s) /\ data[s] # NULL
  BY <1>2, OpsLeaveAll, NoNewOpStep DEF irc_disconnect
<1>3. CASE irc_handle_request(s)
  BY <1>3, OpsRequest
<1>4. CASE chan' = chan
  BY <1>4, OpsKept, NoNewOpStep
<1> QED
  BY <1>1, <1>2, <1>3, <1>4
     DEF irc_connect_socket, CoserverDone, irc_idle, Register, Ping, Reply, Killed, Lost,
         irc_disconnect

\* Who becomes operator of an existing channel is a member of it, and the channel
\* has an operator at that time, the one whose MODE does it (irc_mode_callback);
\* JOIN, PART, KICK, NICK and disconnections make none.
THEOREM OpsFromOpsCorrect == Spec => OpsFromOps
<1>1. Spec => []IInv
  BY InitOK, NextOK, PTL DEF Spec
<1>2. IInv /\ [Next]_vars => [OpStep]_vars
  BY OpsNext
<1>3. Spec => [][OpStep]_vars
  BY <1>1, <1>2, PTL DEF Spec
<1> QED
  BY <1>3 DEF OpsFromOps, OpStep

=============================================================================
