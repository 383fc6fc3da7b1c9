-------------------------------- MODULE Irc --------------------------------
(***************************************************************************)
(* The IRC server (irc-proto.c, irc-event-*.c, irc-core.c, irc-config.c):  *)
(* clients, nicks, channels and who is in which.  Clients and channels     *)
(* point at each other, the hash "clients" finds a client by its nick, and *)
(* a socket points to its client; every request, every line that cannot be *)
(* delivered, every answer of a coserver and every lost connection changes *)
(* some of that.                                                           *)
(*                                                                         *)
(* A client structure is an address that calloc hands out again.  Nicks    *)
(* and channel names stand for classes of equal strings (irc_string_equal).*)
(* A request that names several targets is a sequence of requests here.    *)
(* What replies say is left out; that a reply can fail is not.  The server *)
(* has no password (cfg->pass), so that PASS changes nothing modelled.     *)
(***************************************************************************)
EXTENDS Naturals, FiniteSets

CONSTANTS
    Sock,              \* connections
    Client,            \* addresses of client structures
    Nick, Chan,        \* nicks and channel names
    NULL,
    Coservers,         \* coservers asked about a client: "dns", "ident"
    ChannelModes,      \* flags of a channel, of "psitnmlk"
    Limits,            \* user limits that clients set
    channels_per_user,
    MaxList            \* bound: entries per client in an invite list

ASSUME NullAssumption == NULL \notin Sock \cup Client \cup Nick
ASSUME BoundAssumption ==
    channels_per_user \in Nat /\ MaxList \in Nat /\ Limits \subseteq Nat

VARIABLES
    enq, killed,  \* IRC connections in the list, those with SVZ_SOFLG_KILLED
    data,         \* the client of a socket
    asked,        \* coservers that have not answered about a socket
    heap,         \* client structures in use
    nick, sock, channel,       \* their fields: name, connection, channels,
    user, registered,          \* those with UMODE_USER, those registered
    clients,      \* the hash from nicks to clients
    chan,         \* the channels, NULL for names not in the hash
    up            \* the program has not died of a null pointer

connVars == <<enq, data, asked>>
fieldVars == <<nick, sock, user, registered>>
vars == <<connVars, killed, heap, fieldVars, channel, clients, chan, up>>

\* Fields of a channel: its members, the operators among them, mode flags, the
\* invited (how often), the user limit (0 if there is none).
Channel == [member : SUBSET Client, op : SUBSET Client,
            mode : SUBSET ChannelModes, invite : [Client -> 0..MaxList],
            users : Limits \cup {0}]

ASSUME ChannelAssumption == NULL \notin Channel

Exists(n) == chan[n] # NULL
InChannel(c, n) == Exists(n) /\ c \in chan[n].member

Init ==
    /\ enq = {} /\ killed = {} /\ data = [s \in Sock |-> NULL]
    /\ asked = [s \in Sock |-> {}]
    /\ heap = {} /\ user = {} /\ registered = {}
    /\ nick = [c \in Client |-> NULL] /\ sock = [c \in Client |-> NULL]
    /\ channel = [c \in Client |-> {}]
    /\ clients = [k \in Nick |-> NULL] /\ chan = [n \in Chan |-> NULL]
    /\ up = TRUE

-----------------------------------------------------------------------------
(* Sending *)

\* irc_printf to the clients R: those whose write fails are marked as killed
\* on the spot, without their disconnect function being run.
irc_printf(R, dead) ==
    \E F \in SUBSET ({sock[c] : c \in R} \ (killed \cup dead)) :
        killed' = killed \cup dead \cup F

\* A handler that only answers.
Reply(s) ==
    /\ irc_printf({data[s]}, {})
    /\ UNCHANGED <<connVars, heap, fieldVars, channel, clients, chan, up>>

\* The socket is scheduled for shutdown.
Killed(s) ==
    /\ killed' = killed \cup {s}
    /\ UNCHANGED <<connVars, heap, fieldVars, channel, clients, chan, up>>

\* Sockets whose requests are handled.
Talking == {s \in enq \ killed : data[s] # NULL}

-----------------------------------------------------------------------------
(* Connections and registration *)

\* irc_connect_socket and irc_start_auth, with irc_create_client.
irc_connect_socket(s) ==
    /\ s \notin enq
    /\ \E c \in Client \ heap :
         /\ heap' = heap \cup {c}
         /\ data' = [data EXCEPT ![s] = c] /\ sock' = [sock EXCEPT ![c] = s]
    /\ enq' = enq \cup {s}
    /\ asked' = [asked EXCEPT ![s] = Coservers]
    /\ killed' = killed \/ killed' = killed \cup {s}
    /\ UNCHANGED <<nick, user, registered, channel, clients, chan, up>>

\* irc_rdns_done and irc_ident_done: the socket is still in the list, but the
\* client may be gone after a QUIT, and then its structure is written to.
CoserverDone(s, a) ==
    /\ s \in enq /\ a \in asked[s]
    /\ asked' = [asked EXCEPT ![s] = @ \ {a}]
    /\ IF data[s] = NULL THEN up' = FALSE /\ UNCHANGED killed
                         ELSE irc_printf({data[s]}, {}) /\ UNCHANGED up
    /\ UNCHANGED <<enq, data, heap, fieldVars, channel, clients, chan>>

irc_user_callback(s) ==
    /\ user' = user \cup {data[s]}
    /\ IF data[s] \in user THEN irc_printf({data[s]}, {})
                                   ELSE UNCHANGED killed
    /\ UNCHANGED <<connVars, heap, nick, sock, registered, channel, clients,
                   chan, up>>

\* The hash after the client c changed its nick to k.
Renamed(c, k) == [x \in Nick |-> IF x = k THEN c ELSE IF x = nick[c] THEN NULL
                                 ELSE clients[x]]

irc_find_nick(k) == clients[k]

\* A nick that is in the hash is refused; others, of clients that have not
\* registered yet, are not looked at.
irc_nick_callback(s, k) ==
    LET c == data[s]
    IN  /\ IF irc_find_nick(k) # NULL
           THEN /\ UNCHANGED <<nick, clients>>
                /\ IF irc_find_nick(k) = c THEN UNCHANGED killed ELSE irc_printf({c}, {})
           ELSE /\ nick' = [nick EXCEPT ![c] = k]
                /\ IF c \in registered
                   THEN /\ clients' = Renamed(c, k)
                        /\ irc_printf(UNION {chan[n].member : n \in channel[c]}, {})
                   ELSE UNCHANGED <<clients, killed>>
        /\ UNCHANGED <<connVars, heap, sock, user, registered, channel, chan,
                       up>>

\* The client has NICK and USER, and the coservers have answered.
UMODE_REGISTERED(s) ==
    nick[data[s]] # NULL /\ data[s] \in user /\ asked[s] = {}

\* irc_add_client does nothing if the nick was taken meanwhile, and
\* irc_register_client does not look at the result.
irc_add_client(c) ==
    IF clients[nick[c]] = NULL THEN [clients EXCEPT ![nick[c]] = c] ELSE clients

\* Patterns, passwords and the links of connection classes decide whether a
\* client is let in (class->links is never decreased).
irc_client_valid == BOOLEAN

\* irc_idle of a client that is not registered, with irc_register_client.
Register(s) ==
    LET c == data[s]
    IN  /\ c \notin registered /\ UMODE_REGISTERED(s)
        /\ \E valid \in irc_client_valid :
             \/ ~valid /\ irc_printf({}, {s}) /\ UNCHANGED <<registered, clients>>
             \/ /\ valid /\ clients' = irc_add_client(c)
                /\ registered' = registered \cup {c}
                /\ irc_printf({c}, {})
        /\ UNCHANGED <<connVars, heap, nick, sock, user, channel, chan, up>>

\* irc_idle of a registered client: if it has been silent for some time it is
\* pinged, and shut down if it has not answered the last one (client->ping is
\* left out, and with it irc_pong_callback).
Ping(s) ==
    /\ data[s] \in registered
    /\ Reply(s) \/ Killed(s)

\* Idle functions run on killed sockets too; after a QUIT there is no client.
irc_idle(s) ==
    /\ s \in enq
    /\ \/ /\ data[s] = NULL /\ up' = FALSE
          /\ UNCHANGED <<connVars, killed, heap, fieldVars, channel, clients, chan>>
       \/ data[s] # NULL /\ (Register(s) \/ Ping(s))

-----------------------------------------------------------------------------
(* Leaving *)

\* Mutation: the channel forgets the client's membership only.
irc_leave_channel_Member(r, c) ==
    [r EXCEPT !.member = @ \ {c}]

\* The channel r without the client c, or NULL if that was the last one and
\* the channel was deleted.
irc_leave_channel(r, c) ==
    IF r.member \subseteq {c} THEN NULL
    ELSE [r EXCEPT !.member = @ \ {c}, !.op = @ \ {c}]

\* The structure is freed and the hash entry of its nick deleted, whosever it is.
irc_delete_client(c) ==
    /\ clients' = IF nick[c] = NULL THEN clients ELSE [clients EXCEPT ![nick[c]] = NULL]
    /\ heap' = heap \ {c}

\* irc_leave_all_channels for the client of the socket s, which ends up killed.
irc_leave_all_channels(s) ==
    LET c == data[s]
    IN  /\ chan' = [n \in Chan |-> IF n \in channel[c] THEN irc_leave_channel(chan[n], c)
                                   ELSE chan[n]]
        /\ channel' = [channel EXCEPT ![c] = {}]
        /\ irc_delete_client(c)
        /\ data' = [data EXCEPT ![s] = NULL]
        /\ nick' = [nick EXCEPT ![c] = NULL] /\ sock' = [sock EXCEPT ![c] = NULL]
        /\ user' = user \ {c}
        /\ registered' = registered \ {c}
        /\ UNCHANGED up

\* Who shares a channel with c.
Peers(c) == UNION {chan[n].member : n \in channel[c]} \ {c}

irc_quit_callback(s) ==
    /\ irc_leave_all_channels(s)
    /\ irc_printf(Peers(data[s]), {s})
    /\ UNCHANGED <<enq, asked>>

\* The sweep of a killed socket; a lost connection is one that gets killed.
irc_disconnect(s) ==
    /\ s \in killed
    /\ enq' = enq \ {s} /\ asked' = [asked EXCEPT ![s] = {}]
    /\ IF data[s] = NULL
       THEN /\ killed' = killed \ {s}
            /\ UNCHANGED <<data, heap, fieldVars, channel, clients, chan, up>>
       ELSE /\ irc_leave_all_channels(s)
            /\ \E F \in SUBSET ({sock[c] : c \in Peers(data[s])} \ killed) :
                 killed' = (killed \cup F) \ {s}

\* The connection is lost.
Lost(s) == s \in enq /\ Killed(s)

irc_part_callback(s, n) ==
    LET c == data[s]
    IN  /\ IF InChannel(c, n)
           THEN /\ chan' = [chan EXCEPT ![n] = irc_leave_channel(@, c)]
                /\ channel' = [channel EXCEPT ![c] = @ \ {n}]
                /\ irc_printf(chan[n].member, {})
           ELSE irc_printf({c}, {}) /\ UNCHANGED <<chan, channel>>
        /\ UNCHANGED <<connVars, heap, fieldVars, clients, up>>

irc_kick_callback(s, n, k) ==
    LET c == data[s]
        victim == irc_find_nick(k)
    IN  /\ IF InChannel(c, n) /\ c \in chan[n].op
           THEN IF victim # NULL /\ InChannel(victim, n)
                THEN /\ chan' = [chan EXCEPT ![n] = irc_leave_channel(@, victim)]
                     /\ channel' = [channel EXCEPT ![victim] = @ \ {n}]
                     /\ irc_printf(chan[n].member, {})
                ELSE UNCHANGED <<chan, channel, killed>>
           ELSE irc_printf({c}, {}) /\ UNCHANGED <<chan, channel>>
        /\ UNCHANGED <<connVars, heap, fieldVars, clients, up>>

-----------------------------------------------------------------------------
(* Joining *)

NewChannel(c) ==
    [member |-> {c}, op |-> {c}, mode |-> {},
     invite |-> [x \in Client |-> 0], users |-> 0]

\* The channel once the check of invitations let c pass; an invitation is used
\* up even if c does not get in after that.
Invited(r, c) == IF "i" \in r.mode THEN [r EXCEPT !.invite[c] = @ - 1] ELSE r
MayCome(r, c) == "i" \in r.mode => r.invite[c] > 0
Full(r) == "l" \in r.mode /\ Cardinality(r.member) >= r.users


\* Mutation: whoever joins becomes operator.
Entered_Op(r, c, n) ==
    /\ chan' = [chan EXCEPT ![n] = [r EXCEPT !.member = @ \cup {c}, !.op = @ \cup {c}]]
    /\ channel' = [channel EXCEPT ![c] = @ \cup {n}]

\* c is put into the channel n, whose state is r.
Entered(r, c, n) ==
    /\ chan' = [chan EXCEPT ![n] = [r EXCEPT !.member = @ \cup {c}]]
    /\ channel' = [channel EXCEPT ![c] = @ \cup {n}]

\* irc_join_channel: into an existing channel with the state r, or a new one.
irc_join_channel(r, c, n) ==
    IF InChannel(c, n) \/ Cardinality(channel[c]) >= channels_per_user
    THEN chan' = [chan EXCEPT ![n] = IF Exists(n) THEN r ELSE NULL] /\ UNCHANGED channel
    ELSE Entered(r, c, n)

\* The checks of irc_join_callback in their order: key, invitation, limit and
\* bans.  The list of bans is left out: an existing channel may hold one that
\* matches, and since nick, user and host are compared with it, a client that
\* has not sent them, or a mask that lacks one, is a null pointer.
irc_join_callback(s, n) ==
    LET c == data[s]
        r == chan[n]
    IN  /\ \/ /\ ~Exists(n)
              /\ irc_join_channel(NewChannel(c), c, n)
              /\ irc_printf({c}, {}) /\ UNCHANGED up
           \/ /\ Exists(n) /\ ("k" \in r.mode \/ ~MayCome(r, c))
              /\ irc_printf({c}, {}) /\ UNCHANGED <<chan, channel, up>>
           \/ /\ Exists(n) /\ MayCome(r, c)
              /\ chan' = [chan EXCEPT ![n] = Invited(r, c)]
              /\ irc_printf({c}, {}) /\ UNCHANGED <<channel, up>>
           \/ /\ Exists(n) /\ MayCome(r, c) /\ ~Full(r)
              /\ up' = FALSE /\ UNCHANGED <<chan, channel, killed>>
           \/ /\ Exists(n) /\ MayCome(r, c) /\ ~Full(r)
              /\ irc_join_channel(Invited(r, c), c, n)
              /\ irc_printf(r.member \cup {c}, {}) /\ UNCHANGED up
        /\ UNCHANGED <<connVars, heap, fieldVars, clients>>

\* A client that is away (UMODE_AWAY is left out) is not invited.
irc_invite_callback(s, n, k) ==
    LET c == data[s]
        cl == irc_find_nick(k)
    IN  /\ \/ /\ cl # NULL /\ InChannel(c, n) /\ ~InChannel(cl, n) /\ c \in chan[n].op
              /\ chan[n].invite[cl] < MaxList
              /\ chan' = [chan EXCEPT ![n].invite[cl] = @ + 1]
              /\ irc_printf({cl}, {})
           \/ irc_printf({c}, {}) /\ UNCHANGED chan
        /\ UNCHANGED <<connVars, heap, fieldVars, channel, clients, up>>

-----------------------------------------------------------------------------
(* Modes.  A request with several changes is a sequence of requests: that the
   operator flag is read only once makes no difference, because losing it
   commutes with the other changes. *)

\* irc_client_flag for the member with the nick k (voice is left out).  strcmp
\* gets a null pointer for a member that has not sent NICK.
irc_client_flag(n, k, set) ==
    LET M == {c \in chan[n].member : nick[c] = k}
    IN  \/ /\ \E c \in chan[n].member : nick[c] = NULL
           /\ up' = FALSE /\ UNCHANGED <<chan, killed>>
        \/ /\ \E c \in M :
                chan' = [chan EXCEPT ![n].op = IF set THEN @ \cup {c} ELSE @ \ {c}]
           /\ irc_printf(chan[n].member, {}) /\ UNCHANGED up

irc_channel_flag(n, m, set) ==
    /\ m \in ChannelModes \ {"l", "k"}
    /\ chan' = [chan EXCEPT ![n].mode = IF set THEN @ \cup {m} ELSE @ \ {m}]
    /\ irc_printf(chan[n].member, {}) /\ UNCHANGED up

\* irc_channel_arg: key, user limit and bans.
irc_channel_arg(n, m, set) ==
    /\ \/ /\ m \in ChannelModes \cap {"l", "k"}
          /\ (m = "k" /\ set) => m \notin chan[n].mode
          /\ \E l \in IF m = "l" THEN (IF set THEN Limits ELSE {0}) ELSE {chan[n].users} :
               chan' = [chan EXCEPT ![n].mode = IF set THEN @ \cup {m} ELSE @ \ {m},
                                    ![n].users = l]
       \/ UNCHANGED chan  \* a ban
    /\ irc_printf(chan[n].member, {}) /\ UNCHANGED up

irc_mode_callback(s, n) ==
    LET c == data[s]
    IN  /\ IF InChannel(c, n) /\ c \in chan[n].op
           THEN \E set \in BOOLEAN :
                  \/ \E k \in Nick : irc_client_flag(n, k, set)
                  \/ \E m \in ChannelModes :
                       irc_channel_flag(n, m, set) \/ irc_channel_arg(n, m, set)
           ELSE irc_printf({c}, {}) /\ UNCHANGED <<chan, up>>
        /\ UNCHANGED <<connVars, heap, fieldVars, channel, clients>>

-----------------------------------------------------------------------------
(* Messages and questions *)

Tell(R) ==
    /\ irc_printf(R, {})
    /\ UNCHANGED <<connVars, heap, fieldVars, channel, clients, chan, up>>

\* To a nick, or an answer if that client is away; to the other members of a
\* channel, or an answer if the channel is closed to c or moderated.
irc_priv_callback(s, k, n) ==
    LET c == data[s]
    IN  \/ irc_find_nick(k) # NULL /\ (Tell({irc_find_nick(k)}) \/ Tell({c}))
        \/ /\ Exists(n)
           /\ \/ ("n" \in chan[n].mode => InChannel(c, n)) /\ Tell(chan[n].member \ {c})
              \/ c \notin chan[n].op /\ Tell({c})

irc_note_callback(s, k) ==
    irc_find_nick(k) # NULL /\ (Tell({irc_find_nick(k)}) \/ Tell({data[s]}))

irc_topic_callback(s, n) ==
    /\ Exists(n)
    /\ IF ~InChannel(data[s], n) \/ ("t" \in chan[n].mode /\ data[s] \notin chan[n].op)
       THEN Tell({data[s]})
       ELSE Tell(chan[n].member)

\* Requests that change nothing modelled here are answered: MOTD and OPER;
\* NAMES; LIST; ADMIN, TIME and LUSERS; STATS; VERSION and INFO; WHOWAS; WHOIS;
\* WHO; ISON, USERHOST and AWAY; USERS; PING, PONG, ERROR and KILL.
irc_motd_callback(s) == Reply(s)
irc_names_callback(s) == Reply(s)
irc_list_callback(s) == Reply(s)
irc_lusers_callback(s) == Reply(s)
irc_stats_callback(s) == Reply(s)
irc_info_callback(s) == Reply(s)
irc_whowas_callback(s) == Reply(s)
irc_whois_callback(s) == Reply(s)
irc_who_callback(s) == Reply(s)
irc_userhost_callback(s) == Reply(s)
irc_users_callback(s) == Reply(s)
irc_ping_callback(s) == Reply(s)

\* A client that sends requests.  Nothing asks whether it is registered.
irc_handle_request(s) ==
    /\ s \in Talking
    /\ \/ irc_user_callback(s) \/ irc_quit_callback(s)
       \/ irc_motd_callback(s) \/ irc_names_callback(s) \/ irc_list_callback(s)
       \/ irc_lusers_callback(s) \/ irc_stats_callback(s) \/ irc_info_callback(s)
       \/ irc_whowas_callback(s) \/ irc_whois_callback(s) \/ irc_who_callback(s)
       \/ irc_userhost_callback(s) \/ irc_users_callback(s) \/ irc_ping_callback(s)
       \/ \E k \in Nick : irc_nick_callback(s, k) \/ irc_note_callback(s, k)
       \/ \E n \in Chan : \/ irc_join_callback(s, n) \/ irc_part_callback(s, n)
                          \/ irc_mode_callback(s, n) \/ irc_topic_callback(s, n)
       \/ \E n \in Chan, k \in Nick :
            \/ irc_kick_callback(s, n, k) \/ irc_invite_callback(s, n, k)
            \/ irc_priv_callback(s, k, n)

Next ==
    /\ up
    /\ \E s \in Sock :
         \/ irc_connect_socket(s) \/ \E a \in Coservers : CoserverDone(s, a)
         \/ irc_handle_request(s) \/ irc_idle(s) \/ irc_disconnect(s) \/ Lost(s)

Spec == Init /\ [][Next]_vars

-----------------------------------------------------------------------------
(* Properties *)

TypeOK ==
    /\ killed \subseteq enq /\ enq \subseteq Sock
    /\ chan \in [Chan -> Channel \cup {NULL}] /\ channel \in [Client -> SUBSET Chan]
    /\ clients \in [Nick -> Client \cup {NULL}]

\* Sockets and clients point at each other, and both are there: irc_disconnect,
\* QUIT and failed writes never leave a pointer to a client that was freed.
SocketsOK ==
    /\ \A s \in Sock : data[s] # NULL => s \in enq /\ data[s] \in heap /\ sock[data[s]] = s
    /\ \A c \in heap : sock[c] # NULL /\ data[sock[c]] = c

\* The two arrays that say who is where agree, whatever the order of joining,
\* parting, being kicked and disconnecting: a client is in the channel's list
\* iff the channel is in the client's (irc_client_in_channel's index is used
\* unchecked), no freed client is in a channel, operators are members and a
\* channel without members is deleted.  What irc_find_nick returns is a client
\* that exists, has registered and has that nick, even though two clients may
\* have registered with the same one.
Membership ==
    /\ TypeOK /\ SocketsOK
    /\ \A n \in Chan, c \in Client : InChannel(c, n) <=> n \in channel[c]
    /\ \A c \in Client : channel[c] # {} => c \in heap
    /\ \A n \in Chan : Exists(n) => chan[n].member # {} /\ chan[n].op \subseteq chan[n].member
    /\ \A k \in Nick : clients[k] # NULL => clients[k] \in registered \cap heap /\ nick[clients[k]] = k

\* What irc_nick_callback takes for granted (it logs "client hash inconsistence"
\* otherwise): the hash has every registered client under its nick.  It has not: two
\* clients may pass the check of the same nick before either of them is registered, and
\* irc_delete_client takes whoever has it out of the hash.
NicksFound == \A c \in registered : clients[nick[c]] = c

\* A client becomes operator of a channel by creating it or from an operator of
\* the channel, while it is in it; a channel that lost all of them (PART and
\* JOIN again, KICK, disconnections) gets none before it is empty.
OpsFromOps ==
    [][\A n \in Chan : Exists(n) /\ chan'[n] # NULL =>
          \A c \in chan'[n].op \ chan[n].op : chan[n].op # {} /\ InChannel(c, n)]_vars
=============================================================================
