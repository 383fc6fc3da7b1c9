------------------------------ MODULE Options ------------------------------
(***************************************************************************)
(* Options of servers and ports in the configuration file (guile.c), and   *)
(* the prototypes they are checked against (cfg.c).                        *)
(*                                                                         *)
(* A Scheme value is a record with its kind: "int", "bool", "str", "sym",  *)
(* "list" (of values) or "pair" (of a key and a value).  A result that may *)
(* be missing is a sequence of at most one element.                        *)
(***************************************************************************)
EXTENDS PortConfig

CONSTANTS
    Num,        \* Num[t]: the number that the text t stands for, if it does
    IntBits,    \* the width of an int
    Prototype   \* the items of a server's configuration: [name, type, def]

ASSUME OptionAssumption == IntBits \in Nat \ {0}

Nothing == <<>>

\* GI_GET_XREP_MAYBE
Text(c) == c.kind \in {"str", "sym"}

-----------------------------------------------------------------------------
(* Values *)

\* A long that is stored in an int.
Narrow(n) == ((n + 2 ^ (IntBits - 1)) % 2 ^ IntBits) - 2 ^ (IntBits - 1)

\* Exact numbers are within the range of an int: others raise an exception in Scheme, which
\* ends the call.  The result of strtol is within that of a long, and is not checked again.
guile_to_integer(c) ==
    IF c.kind = "int" THEN <<c.val>>
    ELSE IF Text(c) /\ c.val \in DOMAIN Num THEN <<Narrow(Num[c.val])>> ELSE Nothing

guile_to_boolean(c) ==
    LET i == guile_to_integer(c) IN
    CASE c.kind = "bool" -> <<IF c.val THEN 1 ELSE 0>>
      [] i # Nothing     -> <<IF i[1] = 0 THEN 0 ELSE 1>>
      [] OTHER           -> IF Text(c) /\ c.val \in {"yes", "on", "true"} THEN <<1>>
                            ELSE IF Text(c) /\ c.val \in {"no", "off", "false"} THEN <<0>> ELSE Nothing

GetString(c) == IF Text(c) THEN <<c.val>> ELSE Nothing

\* An array has the elements that can be converted; those that cannot are left out, and
\* are an error of the whole configuration only.
NonEmpty(s) == IF s = <<>> THEN Nothing ELSE <<s>>

guile_to_strarray(c) ==
    IF c.kind # "list" THEN Nothing
    ELSE LET ok == SelectSeq(c.val, LAMBDA x : x.kind = "str") IN NonEmpty([i \in DOMAIN ok |-> ok[i].val])

guile_to_intarray(c) ==
    IF c.kind # "list" THEN Nothing
    ELSE LET ok == SelectSeq(c.val, LAMBDA x : guile_to_integer(x) # Nothing)
         IN  NonEmpty([i \in DOMAIN ok |-> guile_to_integer(ok[i])[1]])

Skips(type, c) ==
    /\ c.kind = "list"
    /\ \E i \in DOMAIN c.val : \/ type = "strarray" /\ c.val[i].kind # "str"
                               \/ type = "intarray" /\ guile_to_integer(c.val[i]) = Nothing

\* The last one of several pairs with one key counts.
LastOf(pairs, k) == Max({i \in DOMAIN pairs : pairs[i].key.val = k})

Keys(pairs) == {pairs[i].key.val : i \in DOMAIN pairs}

guile_to_hash(c) ==
    IF c.kind # "list" \/ \E i \in DOMAIN c.val : c.val[i].kind # "pair" \/ ~Text(c.val[i].key) \/ ~Text(c.val[i].val)
    THEN Nothing
    ELSE <<[k \in Keys(c.val) |-> c.val[LastOf(c.val, k)].val.val]>>

-----------------------------------------------------------------------------
(* Option hashes *)

guile_to_optionhash(c) ==
    IF c.kind # "list" \/ \E i \in DOMAIN c.val : c.val[i].kind # "pair" \/ ~Text(c.val[i].key) THEN Nothing
    ELSE <<[k \in Keys(c.val) |-> [value   |-> c.val[LastOf(c.val, k)].val,
                                   defined |-> Cardinality({i \in DOMAIN c.val : c.val[i].key.val = k})]]>>

\* Mutation: options that nobody asked for are accepted.
optionhash_validate_Once(h, what, used) == what = 1 => \A k \in DOMAIN h : h[k].defined = 1

\* Every key is defined once (1), or has been used (0).
optionhash_validate(h, what, used) ==
    IF what = 1 THEN \A k \in DOMAIN h : h[k].defined = 1 ELSE DOMAIN h \subseteq used

optionhash_get(h, k) == IF k \in DOMAIN h THEN <<h[k].value>> ELSE Nothing

\* The default is missing if there is none.
optionhash_extract_int(h, k, def) == IF k \in DOMAIN h THEN guile_to_integer(h[k].value) ELSE def

optionhash_extract_string(h, k, def) == IF k \in DOMAIN h THEN GetString(h[k].value) ELSE def

-----------------------------------------------------------------------------
(* Servers *)

Item(h, k, hasdef, Convert(_)) ==
    LET c == optionhash_get(h, k) IN
    IF c = Nothing THEN [is |-> IF hasdef THEN "default" ELSE "failed", val |-> Nothing]
    ELSE [is |-> IF Convert(c[1]) = Nothing THEN "failed" ELSE "ok", val |-> Convert(c[1])]

optionhash_cb_before(h) == optionhash_validate(h, 1, {})
optionhash_cb_integer(h, k, hasdef) == Item(h, k, hasdef, guile_to_integer)
optionhash_cb_boolean(h, k, hasdef) == Item(h, k, hasdef, guile_to_boolean)
optionhash_cb_intarray(h, k, hasdef) == Item(h, k, hasdef, guile_to_intarray)
optionhash_cb_string(h, k, hasdef) == Item(h, k, hasdef, GetString)
optionhash_cb_strarray(h, k, hasdef) == Item(h, k, hasdef, guile_to_strarray)
optionhash_cb_hash(h, k, hasdef) == Item(h, k, hasdef, guile_to_hash)

svz_portcfg_get(ports, c) ==
    IF Text(c) /\ c.val \in DOMAIN ports /\ ports[c.val] # NULL THEN <<ports[c.val]>> ELSE Nothing

optionhash_cb_portcfg(h, k, hasdef, ports) == Item(h, k, hasdef, LAMBDA c : svz_portcfg_get(ports, c))

optionhash_cb_after(h) == optionhash_validate(h, 0, {Prototype[n].name : n \in DOMAIN Prototype})

\* The accessor of an item, and what becomes of its answer.
Access(h, ports, item) ==
    LET d == item.def # Nothing
        k == item.name
    IN  CASE item.type = "int"      -> optionhash_cb_integer(h, k, d)
          [] item.type = "bool"     -> optionhash_cb_boolean(h, k, d)
          [] item.type = "intarray" -> optionhash_cb_intarray(h, k, d)
          [] item.type = "str"      -> optionhash_cb_string(h, k, d)
          [] item.type = "strarray" -> optionhash_cb_strarray(h, k, d)
          [] item.type = "hash"     -> optionhash_cb_hash(h, k, d)
          [] item.type = "portcfg"  -> optionhash_cb_portcfg(h, k, d, ports)

ItemValue(h, ports, item) ==
    LET a == Access(h, ports, item) IN
    CASE a.is = "ok" -> a.val [] a.is = "default" -> item.def [] a.is = "failed" -> Nothing

\* svz_config_instantiate: all items or nothing.
svz_config_instantiate(h, ports) ==
    LET v == [n \in DOMAIN Prototype |-> ItemValue(h, ports, Prototype[n])] IN
    IF optionhash_cb_before(h) /\ optionhash_cb_after(h) /\ \A n \in DOMAIN v : v[n] # Nothing
    THEN <<[n \in DOMAIN v |-> v[n][1]]>> ELSE Nothing

-----------------------------------------------------------------------------
(* Ports *)

PlainPipe(name) == [name |-> name, user |-> NULL, group |-> NULL, uid |-> Undefined, gid |-> Undefined, permissions |-> Undefined]

optionhash_extract_pipe(h) ==
    LET Str(k, def) == optionhash_extract_string(h, k, def)
        Id(k) == optionhash_extract_int(h, k, <<Undefined>>)
        got == [name |-> Str("name", Nothing), user |-> Str("user", <<NULL>>), group |-> Str("group", <<NULL>>),
                uid |-> Id("uid"), gid |-> Id("gid"), permissions |-> Id("permissions")]
    IN  IF /\ optionhash_validate(h, 1, {}) /\ optionhash_validate(h, 0, DOMAIN got)
           /\ \A f \in DOMAIN got : got[f] # Nothing
        THEN <<[f \in DOMAIN got |-> got[f][1]]>> ELSE Nothing

\* A pipe is a name, or has options of its own.
PipeOption(h, k) ==
    LET p == optionhash_get(h, k)
        sub == guile_to_optionhash(p[1])
    IN  IF p = Nothing THEN Nothing
        ELSE IF Text(p[1]) THEN <<PlainPipe(p[1].val)>>
        ELSE IF sub = Nothing THEN Nothing ELSE optionhash_extract_pipe(sub[1])

\* GUILE_VALIDATE_PORT, and the type of an ICMP port.
InRange(i, max) == IF i # Nothing /\ i[1] \in 0..max THEN i ELSE Nothing

PortNumber(h, proto) ==
    CASE proto \in {"tcp", "udp"} -> InRange(optionhash_extract_int(h, "port", Nothing), 65535)
      [] proto = "icmp"           -> InRange(optionhash_extract_int(h, "type", <<42>>), 255)
      [] proto \in {"raw", "pipe"} -> <<0>>

AccessList(h, k) ==
    LET c == optionhash_get(h, k) IN IF c = Nothing THEN <<NULL>> ELSE guile_to_strarray(c[1])

\* The options of a port with this protocol.
PortFields(h, proto) ==
    LET pipe == proto = "pipe" IN
    [port  |-> PortNumber(h, proto),
     ip    |-> IF pipe THEN <<NULL>> ELSE optionhash_extract_string(h, "ipaddr", <<"*">>),
     dev   |-> IF pipe THEN <<NULL>> ELSE optionhash_extract_string(h, "device", <<NULL>>),
     recv  |-> IF pipe THEN PipeOption(h, "recv") ELSE <<NULL>>,
     send  |-> IF pipe THEN PipeOption(h, "send") ELSE <<NULL>>,
     deny  |-> IF pipe THEN <<NULL>> ELSE AccessList(h, "deny"),
     allow |-> IF pipe THEN <<NULL>> ELSE AccessList(h, "allow"),
     sbuf  |-> optionhash_extract_int(h, "send-buffer-size", <<0>>),
     rbuf  |-> optionhash_extract_int(h, "recv-buffer-size", <<0>>),
     freq  |-> IF proto = "tcp" THEN optionhash_extract_int(h, "connect-frequency", <<0>>) ELSE <<0>>,
     backlog |-> IF proto = "tcp" THEN optionhash_extract_int(h, "backlog", <<0>>) ELSE <<0>>]

PortKeys(proto) ==
    {"proto", "send-buffer-size", "recv-buffer-size"}
      \cup (IF proto = "pipe" THEN {"recv", "send"} ELSE {"ipaddr", "device", "deny", "allow"})
      \cup (IF proto \in {"tcp", "udp"} THEN {"port"} ELSE IF proto = "icmp" THEN {"type"} ELSE {})
      \cup (IF proto = "tcp" THEN {"backlog", "connect-frequency"} ELSE {})

\* define-port!: the configuration that the options stand for, or NULL.
PortOptions(c, iface) ==
    LET o == guile_to_optionhash(c)
        p == optionhash_extract_string(o[1], "proto", Nothing)
        f == PortFields(o[1], p[1])
    IN  IF o = Nothing THEN NULL
        ELSE IF p = Nothing \/ p[1] \notin Net \cup {"pipe"} THEN NULL
        ELSE IF /\ optionhash_validate(o[1], 1, {}) /\ optionhash_validate(o[1], 0, PortKeys(p[1]))
                /\ \A k \in DOMAIN f : f[k] # Nothing
        THEN svz_portcfg_mkaddr([k \in DOMAIN f \cup {"proto"} |-> IF k = "proto" THEN p[1] ELSE f[k][1]], iface)
        ELSE NULL

\* Elements of the access lists were left out.
PortSkips(c) ==
    LET o == guile_to_optionhash(c) IN
    o # Nothing /\ \E k \in {"deny", "allow"} \cap DOMAIN o[1] : Skips("strarray", o[1][k].value)
=============================================================================
