------------------------------ MODULE Bindings ------------------------------
(***************************************************************************)
(* Servers, port configurations and the listeners that connect them        *)
(* (binding.c, server.c, cfg.c, dynload.c, server-socket.c, pipe-socket.c, *)
(* guile.c).                                                               *)
(*                                                                         *)
(* A listener has an array of bindings and is shared by all servers whose  *)
(* port configurations fit; a more general one replaces the listeners it   *)
(* contains and takes over their bindings.  A connection leads to the      *)
(* array of its listener until one of the servers has recognised its       *)
(* protocol.  A listening pipe has one client at a time.                   *)
(*                                                                         *)
(* Listeners are not used again, so that a pointer to one that was freed   *)
(* is told from a pointer to its successor.  The effective user and group  *)
(* and the umask, which the process changes while it makes or opens a      *)
(* named pipe and sets back before it goes on, are left out.               *)
(***************************************************************************)
EXTENDS Options, FiniteSetsExt

CONSTANTS
    Server, Type, TypeOf,  \* instances and their types
    PortName, PortText,    \* PortText[p]: what the configuration may say of a port
    ServerText,            \* ServerText[o]: what it may say of a server
    Listener, Client, Remote,
    Setups,                \* which of these texts are used, on what hosts, and how
    MaxRefs                \* references of a library

ASSUME BindingAssumption ==
    /\ TypeOf \in [Server -> Type]
    /\ MaxRefs \in Nat
    /\ \A u \in Setups : u.own \subseteq Addr /\ u.binds \in Nat /\ u.servers \subseteq DOMAIN ServerText

VARIABLES
    setup,   \* one of Setups: the texts that ports and servers are defined with, the lists of
             \* addresses the system may have, those the user adds, the calls of bind-server!
    phase,   \* "config", "loop", "post", "down", "exit" or "crash"
    error,   \* guile_global_error
    iface,   \* interfaces
    ports,   \* portcfgs: ports[p] is a configuration or NULL
    types,   \* servertypes
    refs,    \* refs[y]: references of the library of a type
    servers, \* the instances: servers[s] is [text, cfg, late]
    lis,     \* lis[l]: [state, port (sock->port), ears, inited, ref]
    cli,     \* cli[c]: [state, parent, addr, ref, server]
    binds,   \* calls of bind-server! so far
    bound    \* who was bound to what: pairs of server and configuration

config == <<error, iface, ports, types, refs, servers>>
vars == <<setup, phase, config, lis, cli, binds, bound>>

NoListener == [state |-> "unused", port |-> NULL, ears |-> <<>>, inited |-> FALSE, ref |-> NULL]
NoClient == [state |-> "free", parent |-> NULL, addr |-> NULL, ref |-> NULL, server |-> NULL]

Init ==
    /\ setup \in Setups /\ iface \in {collect(sys) : sys \in setup.system}
    /\ phase = "config" /\ error = FALSE
    /\ ports = [p \in PortName |-> NULL] /\ types = {} /\ refs = [y \in Type |-> 0] /\ servers = <<>>
    /\ lis = [l \in Listener |-> NoListener] /\ cli = [c \in Client |-> NoClient]
    /\ binds = 0 /\ bound = {}

\* What is promised to a server, be it expanded from "*" or not: what it is bound to,
\* whatever else the configuration says.
Promise(e) ==
    LET c == e.port IN
    [server |-> e.server, port |-> [proto |-> c.proto, addr |-> c.addr, port |-> c.port, dev |-> c.dev,
                                    flags |-> c.flags \ {"all"}, pipe |-> IF c.proto = "pipe" THEN c.recv.name ELSE NULL]]
Promises(ears) == {Promise(e) : e \in Range(ears)}

\* The sockets, passed on from one step of an operation to the next.
Sockets == [lis |-> lis, cli |-> cli, bound |-> bound]

Become(b) == lis' = b.lis /\ cli' = b.cli /\ bound' = b.bound

InList(b) == {l \in Listener : b.lis[l].state \in {"open", "killed"}}
Connected(b) == {c \in Client : b.cli[c].state # "free"}

-----------------------------------------------------------------------------
(* Shutting down *)

\* svz_pipe_disconnect of a client: the listener that has created it, if it is still
\* there, waits for another one.
ClientGone(b, c) ==
    LET l == b.cli[c].ref IN
    IF l = NULL THEN b ELSE [b EXCEPT !.lis[l].inited = FALSE, !.lis[l].ref = NULL]

\* svz_pipe_disconnect of a listener: its client must not lead to it any more.
ListenerGone(b, l) ==
    LET c == b.lis[l].ref IN IF c = NULL THEN b ELSE [b EXCEPT !.cli[c].ref = NULL]

\* svz_sock_shutdown and svz_sock_free
FreeClient(b, c) == [ClientGone(b, c) EXCEPT !.cli[c] = NoClient]

FreeListener(b, l, how) ==
    [ListenerGone(b, l) EXCEPT !.lis[l] = [NoListener EXCEPT !.state = how],
                               !.bound = @ \ Promises(b.lis[l].ears)]

FreeAll(b, clients, listeners) == FoldSet(LAMBDA l, x : FreeListener(x, l, "gone"), FoldSet(LAMBDA c, x : FreeClient(x, c), b, clients), listeners)

\* svz_sock_schedule_for_shutdown
KillClients(b, cs) == [b EXCEPT !.cli = [c \in Client |-> IF c \in cs THEN [b.cli[c] EXCEPT !.state = "killed"] ELSE b.cli[c]]]

Children(b, l) == {c \in Connected(b) : b.cli[c].parent = l}

\* Mutation: a listener's connections are left alone.
KillListener_Alone(b, l) == [b EXCEPT !.lis[l].state = "killed"]

KillListener(b, l) == KillClients([b EXCEPT !.lis[l].state = "killed"], Children(b, l))

-----------------------------------------------------------------------------
(* Configuration *)

\* The procedures may be called by the configuration file and by callbacks.  After an error
\* of the file guile_entry exits; what the rest of it does before that is left out.
Configuring == (phase = "config" /\ ~error) \/ phase = "loop"

\* guile_global_error is looked at when the configuration file has been loaded, not later.
GlobalError(e) == error' = (phase = "config" /\ e)

\* serveez-interfaces, with further addresses
AddInterface(a) ==
    /\ Configuring
    /\ iface' = svz_interface_add(iface, [addr |-> a, detected |-> FALSE])
    /\ UNCHANGED <<phase, error, ports, types, refs, servers, lis, cli, binds, bound>>

svz_portcfg_add(p, c) == ports' = [ports EXCEPT ![p] = c]

\* define-port!: a wrong or a second definition is an error and changes nothing; one whose
\* access lists have lost elements is an error, too.
guile_define_port(p, i) ==
    LET c == PortOptions(PortText[p][i], iface) IN
    /\ Configuring
    /\ IF c = NULL \/ ports[p] # NULL
       THEN GlobalError(TRUE) /\ UNCHANGED ports
       ELSE svz_portcfg_add(p, c) /\ GlobalError(PortSkips(PortText[p][i]))
    /\ UNCHANGED <<phase, iface, types, refs, servers, lis, cli, binds, bound>>

dyn_load_library(r, y) == [r EXCEPT ![y] = @ + 1]
dyn_unload_library(r, y) == [r EXCEPT ![y] = IF @ > 0 THEN @ - 1 ELSE @]

\* dyn_load_symbol: the definition of the type, if the library has it.
dyn_load_symbol(y) == {y, NULL}

\* svz_servertype_load: no library, a library without the definition, which is given up
\* again, or a type.
svz_servertype_load(y, type) ==
    /\ type \in dyn_load_symbol(y)
    /\ \/ type = NULL /\ refs' \in {refs, dyn_unload_library(dyn_load_library(refs, y), y)}
       \/ type = y /\ refs[y] < MaxRefs /\ refs' = dyn_load_library(refs, y)

\* svz_servertype_add: an invalid type, or one whose global initializer fails, is not
\* registered.
svz_servertype_add(y) == types' \in {types, types \cup {y}}

\* svz_servertype_get: what was loaded is used, registered or not.
svz_servertype_get(y, type) ==
    \/ y \in types /\ type = y /\ UNCHANGED <<types, refs>>
    \/ /\ y \notin types /\ svz_servertype_load(y, type)
       /\ IF type = y THEN svz_servertype_add(y) ELSE UNCHANGED types

instantiate_server(text, cfg) == [text |-> text, cfg |-> cfg, late |-> phase = "loop"]

\* A type without configuration takes any options, wrong ones too.
instantiate_servertype(s, o, h, ok) ==
    LET cfg == svz_config_instantiate(h, ports) IN
    \E type \in {TypeOf[s], NULL} :
      /\ svz_servertype_get(TypeOf[s], type)
      /\ ok = (type # NULL /\ (cfg # Nothing \/ Prototype = <<>>) /\ s \notin DOMAIN servers)
      /\ servers' = IF ok THEN [x \in DOMAIN servers \cup {s} |->
                                  IF x = s THEN instantiate_server(o, cfg) ELSE servers[x]]
                    ELSE servers

\* Elements of arrays were left out.
ServerSkips(h) ==
    \E n \in DOMAIN Prototype :
        Prototype[n].name \in DOMAIN h /\ Skips(Prototype[n].type, h[Prototype[n].name].value)

guile_config_instantiate(s, o) ==
    LET h == guile_to_optionhash(ServerText[o]) IN
    IF h = Nothing THEN GlobalError(TRUE) /\ UNCHANGED <<types, refs, servers>>
    ELSE \E ok \in BOOLEAN : instantiate_servertype(s, o, h[1], ok) /\ GlobalError(~ok \/ ServerSkips(h[1]))

\* define-server!.  A name without a type is reported, and is no error for guile_entry.
guile_define_server(s, o) ==
    /\ Configuring
    /\ guile_config_instantiate(s, o)
    /\ UNCHANGED <<phase, iface, ports, lis, cli, binds, bound>>

-----------------------------------------------------------------------------
(* Binding *)

\* sockets_with_portcfg; socket_with_portcfg is one of them.  Listeners that are to be shut
\* down are still in the list.
sockets_with_portcfg(b, c) == {l \in InList(b) : portcfg_matching_or_equal(b.lis[l].port, c)}

\* find_binding does the same with the array of a listener.
bindings_contain(ears, e) ==
    \E i \in DOMAIN ears : ears[i].server = e.server /\ svz_portcfg_equal(ears[i].port, e.port) = "equal"

find_binding(ears, e) == bindings_contain(ears, e)

add_server(ears, e) == IF find_binding(ears, e) THEN ears ELSE Append(ears, e)

\* Mutation: a listener that is joined replaces the ones before.
adjoin_Last(ears, old) == old

\* adjoin: the bindings of a further listener, each once.
adjoin(ears, old) == FoldLeft(LAMBDA x, e : IF bindings_contain(x, e) THEN x ELSE Append(x, e), ears, old)

\* svz_pipe_listener: one of the two files cannot be made with the permissions of its
\* configuration, or the first one cannot be opened.
svz_pipe_listener(fails) == fails # "pipe"

\* svz_server_create
svz_server_create(b, c, fails) ==
    IF c.proto = "pipe" THEN svz_pipe_listener(fails)
    ELSE c.addr # fails /\ ~InUse(c, {b.lis[o].port : o \in InList(b)})

make_listener_socket(b, e, joined, fails) ==
    LET c == e.port
        new == {l \in Listener : b.lis[l].state = "unused"}
        l == CHOOSE x \in new : TRUE
    IN  IF new = {} \/ ~svz_server_create(b, c, fails) THEN b
        ELSE [b EXCEPT !.lis[l] = [NoListener EXCEPT !.state = "open", !.port = c, !.ears = add_server(joined, e)],
                       !.bound = @ \cup {Promise(e)}]

\* The listeners that the new port contains are freed at once, their connections are not;
\* what was bound to them is lost if the new listener cannot be made.
Replace(b, old, e, fails) ==
    LET ears == FoldSet(LAMBDA l, x : adjoin(x, b.lis[l].ears), <<>>, old)
        closed == FoldSet(LAMBDA l, x : FreeListener(x, l, "replaced"), b, old)
        made == make_listener_socket(closed, e, ears, fails)
    IN  IF made = closed THEN closed ELSE [made EXCEPT !.bound = @ \cup b.bound]

make_binding(s, c) == [server |-> s, port |-> c]

svz_server_bind_one(b, s, copy, fails) ==
    LET c == svz_portcfg_prepare(copy)
        e == make_binding(s, c)
        old == sockets_with_portcfg(b, c)
        l == CHOOSE x \in old : TRUE
    IN  IF old = {} THEN make_listener_socket(b, e, <<>>, fails)
        ELSE IF "any" \in c.flags /\ "any" \notin b.lis[l].port.flags THEN Replace(b, old, e, fails)
        ELSE [b EXCEPT !.lis[l].ears = add_server(@, e), !.bound = @ \cup {Promise(e)}]

\* svz_server_bind reports no error.
svz_server_bind(s, p) ==
    \E fails \in IF ports[p].proto = "pipe" THEN {"pipe", "none"} ELSE Addr \cup {"0", "none"} :
      Become(FoldLeft(LAMBDA x, c : svz_server_bind_one(x, s, c, fails), Sockets, svz_portcfg_expand(ports[p], iface)))

\* bind-server!
guile_bind_server(s, p) ==
    /\ Configuring
    /\ binds < setup.binds /\ binds' = binds + 1
    /\ IF s \in DOMAIN servers /\ ports[p] # NULL
       THEN svz_server_bind(s, p) /\ UNCHANGED error
       ELSE GlobalError(TRUE) /\ UNCHANGED <<lis, cli, bound>>
    /\ UNCHANGED <<phase, iface, ports, types, refs, servers>>

\* guile_entry: the configuration was loaded; init_all runs the initializers of the servers.
init_all ==
    /\ phase = "config"
    /\ phase' \in IF error THEN {"exit"} ELSE {"loop", "exit"}
    /\ UNCHANGED <<config, lis, cli, binds, bound>>

-----------------------------------------------------------------------------
(* Connections *)

\* svz_sock_portcfg: the port of the parent, if that is still there.
svz_sock_portcfg(b, k) == IF k.parent \in InList(b) THEN b.lis[k.parent].port ELSE NULL

\* filter_net, for the local address of the connection; filter_pipe gives all bindings.
filter_net(ears, a, port) ==
    {e \in Range(ears) : (e.port.addr = a \/ e.port.flags \cap {"any", "device"} # {}) /\ e.port.port = port}

filter_pipe(ears) == Range(ears)

svz_binding_filter(b, k) ==
    LET l == b.lis[k.parent] IN
    IF k.addr = NULL THEN filter_pipe(l.ears) ELSE filter_net(l.ears, k.addr, l.port.port)

\* svz_sock_detect_proto: the servers are asked in turn.  The one that recognises the
\* protocol takes the connection or refuses it; if none does, it may have sent too much.
\* The array of a listener that was freed may hold anything by now, and if nobody takes
\* the connection there is no port to ask for its limit: see Crash.
svz_sock_detect_proto(b, k, full) ==
    LET there == k.parent \in InList(b)
        s == IF there THEN {e.server : e \in svz_binding_filter(b, k)} ELSE DOMAIN servers
    IN  {[k EXCEPT !.state = "up", !.server = x] : x \in s}
          \cup {[k EXCEPT !.state = "killed", !.server = x] : x \in s}
          \cup IF there THEN {IF full THEN [k EXCEPT !.state = "killed"] ELSE k} ELSE {}

\* svz_sock_check_access: by the lists of the port that the listener was made for.
svz_sock_check_access(l, r) ==
    LET c == lis[l].port
        In(list) == \E i \in DOMAIN list : list[i] = r
    IN  (c.deny = NULL \/ ~In(c.deny)) /\ (c.allow = NULL \/ In(c.allow))

\* check_frequency: nr connections of the host in the last four seconds.
check_frequency(c, nr) == nr \div 4 <= c.freq

\* tcp_accept: a connection that is refused, also because the host connects too often, is
\* shown to the servers before it is shut down.
tcp_accept(l, c, a, r) ==
    /\ phase = "loop" /\ cli[c].state = "free"
    /\ lis[l].state = "open" /\ lis[l].port.proto = "tcp" /\ Covers(lis[l].port, a)
    /\ \E nr \in {0, 4 * lis[l].port.freq + 4} :
       \E k \in svz_sock_detect_proto(Sockets, [NoClient EXCEPT !.state = "new", !.parent = l, !.addr = a], FALSE) :
         cli' = [cli EXCEPT ![c] =
                   IF ~svz_sock_check_access(l, r) \/ ~check_frequency(lis[l].port, nr) THEN [k EXCEPT !.state = "killed"] ELSE k]
    /\ UNCHANGED <<phase, config, lis, binds, bound>>

\* svz_pipe_create and what pipe_accept does to the new socket.
svz_pipe_create(l) == [NoClient EXCEPT !.state = "new", !.parent = l, !.ref = l]

\* pipe_accept, for a listener without a client: the send pipe cannot be opened, or it
\* has been opened by a client.
pipe_accept(l, c) ==
    LET b == [Sockets EXCEPT !.lis[l].inited = TRUE, !.lis[l].ref = c] IN
    /\ phase = "loop" /\ lis[l].state = "open" /\ lis[l].port.proto = "pipe" /\ ~lis[l].inited
    /\ \/ Become(KillListener(Sockets, l))
       \/ /\ cli[c].state = "free"
          /\ \E k \in svz_sock_detect_proto(b, svz_pipe_create(l), FALSE) :
               Become([b EXCEPT !.cli[c] = k])
    /\ UNCHANGED <<phase, config, binds>>

\* svz_pipe_connect: the pair of named pipes of a port of another program; files that are
\* missing, are no pipes or cannot be opened as their owner leave nothing behind.
svz_pipe_connect(c, p) ==
    /\ phase = "loop" /\ cli[c].state = "free" /\ ports[p] # NULL /\ ports[p].proto = "pipe"
    /\ cli' \in {cli, [cli EXCEPT ![c] = [NoClient EXCEPT !.state = "up"]]}
    /\ UNCHANGED <<phase, config, lis, binds, bound>>

\* svz_pipe_read_socket: an overflow, an error, the end or too many reads; nothing there
\* yet; or data that is shown to the servers.
svz_pipe_read_socket(k, full) ==
    {[k EXCEPT !.state = "killed"], k} \cup svz_sock_detect_proto(Sockets, k, full)

\* A connection that is not recognised yet is read from; svz_tcp_read_socket has the same
\* outcomes.
Read(c) ==
    /\ phase = "loop" /\ cli[c].state = "new"
    /\ \E full \in BOOLEAN : \E k \in svz_pipe_read_socket(cli[c], full) : cli' = [cli EXCEPT ![c] = k]
    /\ UNCHANGED <<phase, config, lis, binds, bound>>

\* idle_protect: the time to recognise the protocol is over.
idle_protect(c) ==
    /\ phase = "loop" /\ cli[c].state = "new" /\ svz_sock_portcfg(Sockets, cli[c]) # NULL
    /\ Become(KillClients(Sockets, {c}))
    /\ UNCHANGED <<phase, config, binds>>

\* The array or the port of a listener that is gone is used, when the connection is read
\* from or its time is looked at.
Crash(c) ==
    /\ phase = "loop" /\ cli[c].state = "new" /\ svz_sock_portcfg(Sockets, cli[c]) = NULL
    /\ phase' = "crash"
    /\ UNCHANGED <<config, lis, cli, binds, bound>>

\* Errors, the end of a connection, or the administrator.
svz_sock_schedule_for_shutdown ==
    /\ phase = "loop"
    /\ \/ \E c \in Client : cli[c].state \in {"new", "up"} /\ Become(KillClients(Sockets, {c}))
       \/ \E l \in Listener : lis[l].state = "open" /\ Become(KillListener(Sockets, l))
    /\ UNCHANGED <<phase, config, binds>>

\* svz_loop_one: what was marked is freed.
Sweep ==
    /\ phase = "loop"
    /\ LET cs == {c \in Client : cli[c].state = "killed"}
           ls == {l \in Listener : lis[l].state = "killed"}
       IN  cs \cup ls # {} /\ Become(FreeAll(Sockets, cs, ls))
    /\ UNCHANGED <<phase, config, binds>>

\* reset, after SIGHUP
Reset ==
    /\ phase = "loop"
    /\ \E sys \in setup.system \cup {<<>>} : iface' = svz_interface_check(iface, sys)
    /\ UNCHANGED <<phase, error, ports, types, refs, servers, lis, cli, binds, bound>>

-----------------------------------------------------------------------------
(* The end *)

\* svz_loop_post frees all sockets.
svz_loop_post ==
    /\ phase = "loop" /\ phase' = "post"
    /\ Become(FreeAll(Sockets, Connected(Sockets), InList(Sockets)))
    /\ UNCHANGED <<config, binds>>

svz_sock_bindings_zonk_server(ears, s) == SelectSeq(ears, LAMBDA e : e.server # s)

svz_binding_contains_server(ears, s) == \E e \in Range(ears) : e.server = s

\* server_unbind
server_unbind(b, s) ==
    LET has == {l \in InList(b) : svz_binding_contains_server(b.lis[l].ears, s)}
        cut == [KillClients(b, UNION {Children(b, l) : l \in has}) EXCEPT !.lis =
                  [l \in Listener |-> [b.lis[l] EXCEPT !.ears = svz_sock_bindings_zonk_server(@, s)]]]
    IN  FoldSet(LAMBDA l, x : KillListener(x, l), cut, {l \in InList(cut) : cut.lis[l].ears = <<>>})

servertype_finalize == types' = {}

dynload_finalize == refs' = [y \in Type |-> 0]

svz_portcfg_finalize == ports' = [p \in PortName |-> NULL]

\* finalize_all runs finalize_server for each instance; svz_halt does the rest.
finalize_all ==
    /\ phase = "post" /\ phase' = "down"
    /\ Become(FoldSet(LAMBDA s, x : server_unbind(x, s), Sockets, DOMAIN servers))
    /\ servers' = <<>> /\ servertype_finalize /\ dynload_finalize /\ svz_portcfg_finalize
    /\ UNCHANGED <<error, iface, binds>>

Step ==
    \/ \E a \in setup.own : AddInterface(a)
    \/ \E p \in PortName : \E i \in setup.ports[p] : guile_define_port(p, i)
    \/ \E s \in Server, o \in setup.servers : guile_define_server(s, o)
    \/ \E s \in Server, p \in PortName : guile_bind_server(s, p)
    \/ init_all
    \/ \E l \in Listener, c \in Client, a \in Addr, r \in Remote : tcp_accept(l, c, a, r)
    \/ \E l \in Listener, c \in Client : pipe_accept(l, c)
    \/ \E c \in Client, p \in PortName : svz_pipe_connect(c, p)
    \/ \E c \in Client : Read(c) \/ idle_protect(c) \/ Crash(c)
    \/ svz_sock_schedule_for_shutdown \/ Sweep \/ Reset \/ svz_loop_post \/ finalize_all

Next == Step /\ UNCHANGED setup

Spec == Init /\ [][Next]_vars

-----------------------------------------------------------------------------
(* Properties *)

TcpPorts == {e.port.port : e \in {x \in bound : x.port.proto = "tcp"}}

Offers(a, port) ==
    UNION {{e.server : e \in filter_net(lis[l].ears, a, port)} :
             l \in {x \in InList(Sockets) : lis[x].port.proto = "tcp" /\ lis[x].port.port = port /\ Covers(lis[x].port, a)}}

\* A connection to any address of this host is offered to exactly the servers that
\* svz_server_bind has bound to a configuration for that address and port, whatever the
\* order in which specific, general and expanded ports have shared or replaced listeners.
Served ==
    \A a \in Addr, port \in TcpPorts :
        Offers(a, port) = {e.server : e \in {x \in bound : x.port.proto = "tcp" /\ x.port.port = port /\ Covers(x.port, a)}}

\* A connection that still leads to the array of bindings of its listener does not outlive
\* it, unless svz_server_bind has replaced the listener by a more general one, and every
\* binding of a listener leads to a server that exists and whose code is loaded, until the
\* very end.  A listening pipe that does not wait for a client has one, which will make it
\* wait again when it is disconnected.
BindingsLive ==
    /\ \A c \in Client : cli[c].state = "new" =>
         cli[c].parent \in InList(Sockets) \/ lis[cli[c].parent].state = "replaced"
    /\ \A l \in InList(Sockets) : \A e \in Range(lis[l].ears) : e.server \in DOMAIN servers /\ refs[TypeOf[e.server]] > 0
    /\ \A l \in InList(Sockets) : lis[l].inited => lis[l].ref # NULL /\ cli[lis[l].ref].state # "free" /\ cli[lis[l].ref].ref = l

\* The array of bindings "is shared by the listener socket" with its connections, and its
\* destruction "happens only when the listener socket is destroyed" (binding.c): as long
\* as a connection leads to the array, the listener is there.  adjoin destroys the array
\* of a listener that is replaced, and its connections still lead to it.
BindingsShared == \A c \in Client : cli[c].state = "new" => cli[c].parent \in InList(Sockets)

\* What an option says, read off its text, and whether this is more than an int can hold.
Number(v) == IF v.kind = "int" THEN v.val ELSE Num[v.val]

Fits(v) == v.kind = "int" \/ v.val \notin DOMAIN Num \/ Num[v.val] \in -(2 ^ (IntBits - 1)) .. 2 ^ (IntBits - 1) - 1

Says(type, v, value) ==
    CASE type = "int"      -> Fits(v) => value = Number(v)
      [] type = "bool"     -> (value = 1) = IF v.kind = "bool" THEN v.val ELSE v.val \in {"yes", "on", "true"}
      [] type = "str"      -> value = v.val
      [] type = "strarray" -> value = [i \in DOMAIN v.val |-> v.val[i].val]
      [] type = "intarray" -> /\ DOMAIN value = DOMAIN v.val
                              /\ \A i \in DOMAIN value : Fits(v.val[i]) => value[i] = Number(v.val[i])
      [] type = "hash"     -> /\ DOMAIN value = {v.val[i].key.val : i \in DOMAIN v.val}
                              /\ \A i \in DOMAIN v.val : \E j \in i .. Len(v.val) :
                                   v.val[j].key.val = v.val[i].key.val /\ value[v.val[i].key.val] = v.val[j].val.val
      [] type = "portcfg"  -> value = ports[v.val]

Arrays == {"strarray", "intarray"}

\* The options that server s was given for item n.
Given(s, n) == SelectSeq(ServerText[servers[s].text].val, LAMBDA q : q.key.val = Prototype[n].name)

\* No mistake in the options of a server goes unnoticed: once the loop runs, every option
\* was given once and is known, and every item has the value that its option says, or its
\* default.  A number that is beyond an int may have become another one, and an array of a
\* server that a callback has defined may have lost elements: see IntegersRead and
\* ErrorsReturned.
Configured ==
    phase = "loop" => \A s \in DOMAIN servers :
        LET pairs == ServerText[servers[s].text].val
            value == servers[s].cfg[1]
        IN  /\ \A i, j \in DOMAIN pairs : pairs[i].key.val = pairs[j].key.val => i = j
            /\ \A i \in DOMAIN pairs : \E n \in DOMAIN Prototype : Prototype[n].name = pairs[i].key.val
            /\ \A n \in DOMAIN Prototype :
                 IF Given(s, n) = <<>> THEN Prototype[n].def = <<value[n]>>
                 ELSE \/ servers[s].late /\ Prototype[n].type \in Arrays
                      \/ Says(Prototype[n].type, Given(s, n)[1].val, value[n])

\* guile_to_integer stores "the integer value" of a cell if it is successful: the text of a
\* number is refused or becomes that number.  strtol's result is checked against the range
\* of a long and stored in an int.
IntegersRead ==
    \A s \in DOMAIN servers, n \in DOMAIN Prototype :
        Prototype[n].type = "int" /\ Given(s, n) # <<>> => servers[s].cfg[1][n] = Number(Given(s, n)[1].val)

\* define-server! returns "#f in case of any error": a server that exists, for which it has
\* returned #t, has every element of the arrays of its options.
ErrorsReturned ==
    \A s \in DOMAIN servers, n \in DOMAIN Prototype :
        Prototype[n].type \in Arrays /\ Given(s, n) # <<>> =>
            Len(servers[s].cfg[1][n]) = Len(Given(s, n)[1].val.val)
=============================================================================
