----------------------------- MODULE PortConfig -----------------------------
(***************************************************************************)
(* Port configurations (portcfg.c) and the list of network interfaces      *)
(* (interface.c).  A setting is what define-port! is given; a port         *)
(* configuration has its address and flags worked out.                     *)
(***************************************************************************)
EXTENDS Integers, Sequences, FiniteSets, SequencesExt

CONSTANTS
    NULL,
    Addr,    \* addresses of this host
    Device,  \* network devices
    DevOf,   \* DevOf[a]: the device of an address
    Users,   \* Users[u]: the user's id and group, by name
    Groups   \* Groups[g]: the group's id and members, by name

ASSUME PortAssumption == DevOf \in [Addr -> Device] /\ NULL \notin Addr \cup Device /\ "0" \notin Addr

Net == {"tcp", "udp", "icmp", "raw"}

\* convert_addr: the name of a device that is in the list, "*" for INADDR_ANY, or an address.
svz_interface_search(iface, d) == {i \in Range(iface) : DevOf[i.addr] = d}

convert_addr(ip, iface) ==
    LET dev == svz_interface_search(iface, ip) IN
    IF dev # {} THEN (CHOOSE i \in dev : TRUE).addr
    ELSE IF ip = "*" THEN "0" ELSE IF ip \in Addr THEN ip ELSE NULL

\* No id is given.
Undefined == -1

\* The name and the id of the user, as far as one leads to the other, and the user's group.
svz_pipe_check_user(p) ==
    LET named == {u \in DOMAIN Users : IF p.user # NULL THEN u = p.user ELSE Users[u].uid = p.uid}
        u == CHOOSE x \in named : TRUE
    IN  [uid |-> IF named = {} THEN p.uid ELSE Users[u].uid, user |-> IF named = {} THEN p.user ELSE u,
         pgid |-> IF named = {} THEN 0 ELSE Users[u].gid]

\* The same for the group; a user who is not in it is only warned of.
svz_pipe_check_group(p) ==
    LET named == {g \in DOMAIN Groups : IF p.group # NULL THEN g = p.group ELSE Groups[g] = p.gid}
        g == CHOOSE x \in named : TRUE
    IN  [gid |-> IF named = {} THEN p.gid ELSE Groups[g], group |-> IF named = {} THEN p.group ELSE g]

CheckedPipe(p) ==
    LET u == svz_pipe_check_user(p)
        g == svz_pipe_check_group(p)
    IN  [p EXCEPT !.uid = u.uid, !.user = u.user, !.gid = g.gid, !.group = g.group]

SOMAXCONN == 4096

\* svz_portcfg_mkaddr; NULL if the setting is wrong.  "any" and "*" are known for TCP
\* and UDP only.
svz_portcfg_mkaddr(s, iface) ==
    LET Keep == {"proto", "port", "dev", "recv", "send", "deny", "allow", "sbuf", "rbuf", "freq", "backlog"}
        Cfg(a, f) == [k \in Keep \cup {"addr", "flags"} |-> IF k = "addr" THEN a ELSE IF k = "flags" THEN f ELSE s[k]]
    IN  CASE s.proto = "tcp" /\ s.backlog > SOMAXCONN -> NULL
          [] s.proto = "pipe" -> [Cfg(NULL, {}) EXCEPT !.recv = CheckedPipe(@), !.send = CheckedPipe(@)]
          [] s.proto # "pipe" /\ s.dev # NULL -> Cfg("0", {"device"})
          [] s.proto \in {"tcp", "udp"} /\ s.dev = NULL /\ s.ip = "any" -> Cfg("0", {"any"})
          [] s.proto \in {"tcp", "udp"} /\ s.dev = NULL /\ s.ip = "*"   -> Cfg("0", {"all"})
          [] OTHER -> IF convert_addr(s.ip, iface) = NULL THEN NULL ELSE Cfg(convert_addr(s.ip, iface), {})

\* svz_portcfg_equal.  port is the type of an ICMP port and 0 for a raw one.
Devices(a, b) == "device" \in a.flags \cup b.flags

OneDevice(a, b) == "device" \in a.flags \cap b.flags /\ a.dev = b.dev

svz_portcfg_equal(a, b) ==
    IF a.proto # b.proto \/ a.port # b.port THEN "nomatch"
    ELSE IF a.proto = "pipe"
         THEN IF a.recv.name = b.recv.name /\ a.send.name = b.send.name THEN "equal" ELSE "nomatch"
    ELSE IF Devices(a, b)
         THEN IF OneDevice(a, b) THEN "equal"
              ELSE IF "device" \in a.flags \cap b.flags /\ a.proto \in {"tcp", "udp"} THEN "nomatch"
              ELSE "conflict"
    ELSE IF a.addr = b.addr THEN "equal"
    ELSE IF "any" \in a.flags \cup b.flags THEN "match" ELSE "nomatch"

portcfg_matching_or_equal(a, b) == svz_portcfg_equal(a, b) \in {"equal", "match"}

\* svz_portcfg_expand: a copy for each known interface.
svz_portcfg_expand(c, iface) ==
    IF c.proto \in Net /\ "all" \in c.flags /\ "device" \notin c.flags
    THEN [i \in DOMAIN iface |-> [c EXCEPT !.addr = iface[i].addr]]
    ELSE <<c>>

\* svz_portcfg_prepare: defaults for what is not given or makes no sense.
MAX_BUF_SIZE == 1024 * 1024 * 16
BufSize(proto) ==
    CASE proto \in {"tcp", "pipe"} -> 1024 * 8
      [] proto = "udp"             -> 4 * (64 * 1024 + 24)
      [] proto \in {"icmp", "raw"} -> 4 * (64 * 1024 + 10 + 24)

svz_portcfg_prepare(c) ==
    LET Size(n) == IF n <= 0 \/ n >= MAX_BUF_SIZE THEN BufSize(c.proto) ELSE n
    IN  [c EXCEPT !.sbuf = Size(@), !.rbuf = Size(@), !.freq = IF @ <= 0 THEN 100 ELSE @,
                  !.backlog = IF c.proto = "tcp" /\ (@ <= 0 \/ @ > SOMAXCONN) THEN SOMAXCONN ELSE @]

\* The addresses that a configuration is about.
Covers(c, a) ==
    \/ c.addr = a
    \/ c.addr = "0" /\ "device" \notin c.flags
    \/ "device" \in c.flags /\ c.dev = DevOf[a]

\* svz_interface_add, once for each address.
by_address(list, a) == \E i \in Range(list) : i.addr = a

svz_interface_add(list, i) == IF by_address(list, i.addr) THEN list ELSE Append(list, i)

\* svz_interface_check: what collect finds now, nothing if it fails, and those of the old
\* ones that had not been detected.  An empty list stays empty.
collect(sys) == FoldLeft(svz_interface_add, <<>>, [i \in DOMAIN sys |-> [addr |-> sys[i], detected |-> TRUE]])

svz_interface_check(was, sys) ==
    IF was = <<>> THEN was ELSE FoldLeft(svz_interface_add, collect(sys), SelectSeq(was, LAMBDA i : ~i.detected))

\* bind(2) fails if another listener holds the port already; an address that is given up
\* can be used again at once (SO_REUSEADDR).  Pipes and datagrams do not exclude others.
InUse(c, others) ==
    c.proto = "tcp" /\ \E o \in others :
        /\ o.proto = "tcp" /\ o.port = c.port
        /\ o.addr = c.addr \/ "0" \in {o.addr, c.addr}
        /\ NULL \in {o.dev, c.dev} \/ o.dev = c.dev
=============================================================================
