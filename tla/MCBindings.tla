---------------------------- MODULE MCBindings ----------------------------
(* Two servers, an address on each of two devices, TCP ports for one        *)
(* address, any and all addresses and a device, and a named pipe.           *)
EXTENDS Bindings

Str(v) == [kind |-> "str", val |-> v]
Sym(v) == [kind |-> "sym", val |-> v]
Whole(v) == [kind |-> "int", val |-> v]
List(l) == [kind |-> "list", val |-> l]
Pair(k, v) == [kind |-> "pair", key |-> Sym(k), val |-> v]

MCDevOf == [a \in Addr |-> IF a = "a1" THEN "eth0" ELSE "eth1"]
MCTypeOf == [s \in Server |-> CHOOSE y \in Type : TRUE]
MCNum == [seven |-> 7, huge |-> 2 ^ IntBits + 7]
MCUsers == [root |-> [uid |-> 0, gid |-> 0], owner |-> [uid |-> 1, gid |-> 1]]
MCGroups == [wheel |-> 1]

MCPrototype == <<[name |-> "depth", type |-> "int", def |-> <<>>],
                 [name |-> "nice", type |-> "bool", def |-> <<0>>],
                 [name |-> "motd", type |-> "str", def |-> <<"hello">>],
                 [name |-> "users", type |-> "strarray", def |-> <<<<"root">>>>],
                 [name |-> "sizes", type |-> "intarray", def |-> <<NULL>>],
                 [name |-> "types", type |-> "hash", def |-> <<NULL>>],
                 [name |-> "source", type |-> "portcfg", def |-> <<NULL>>]>>

Depth == Pair("depth", Str("seven"))
Full == <<Depth, Pair("nice", Str("yes")), Pair("users", List(<<Str("me"), Str("you")>>)),
          Pair("sizes", List(<<Whole(3), Str("seven")>>)), Pair("types", List(<<Pair("c", Str("text"))>>)),
          Pair("source", Sym("one"))>>
MCServerText ==
    [plain |-> List(<<Depth>>), full |-> List(Full), twice |-> List(<<Depth, Depth>>), unknown |-> List(<<Depth, Pair("deep", Whole(1))>>),
     missing |-> List(<<Pair("nice", [kind |-> "bool", val |-> TRUE])>>),
     wrong |-> List(<<Depth, Pair("nice", Str("maybe"))>>),
     lost |-> List(<<Depth, Pair("users", List(<<Str("me"), Whole(1)>>))>>),
     huge |-> List(<<Pair("depth", Str("huge"))>>),
     nohash |-> List(<<Depth, Pair("types", List(<<Str("c")>>))>>), nolist |-> Str("depth")]

Tcp(more) == List(<<Pair("proto", Sym("tcp")), Pair("port", Whole(80))>> \o more)
Ip(a) == Pair("ipaddr", Str(a))
MCPortText ==
    [one |-> <<Tcp(<<Ip("a1"), Pair("deny", List(<<Str("r1")>>))>>),
               Tcp(<<Ip("a1"), Pair("deny", List(<<Sym("r1"), Str("r2")>>))>>)>>,
     any |-> <<Tcp(<<Ip("any")>>), List(<<Pair("proto", Sym("tcp")), Pair("port", Whole(65536))>>),
              Tcp(<<Ip("any"), Pair("backlog", Whole(4097))>>)>>,
     all |-> <<Tcp(<<>>), Tcp(<<Pair("recv", Str("fifo"))>>)>>,
     dev |-> <<Tcp(<<Ip("any"), Pair("device", Str("eth1"))>>), Tcp(<<Pair("port", Whole(81))>>)>>,
     pipe |-> <<List(<<Pair("proto", Sym("pipe")), Pair("recv", Str("in")),
                       Pair("send", List(<<Pair("name", Str("out")), Pair("user", Str("owner")), Pair("gid", Whole(1)),
                                           Pair("permissions", Whole(384))>>))>>),
                List(<<Pair("proto", Sym("pipe")), Pair("recv", Str("in")), Pair("send", List(<<Pair("uid", Whole(1))>>))>>)>>]

\* Right options and two binds to two ports on a host with both addresses, and options that
\* are wrong in one way each on one whose addresses change.
MCSetups ==
    {[servers |-> {"plain"}, ports |-> [p \in PortName |-> IF p \in two THEN {1} ELSE {}],
      system |-> {<<"a1", "a2">>}, own |-> {}, binds |-> 2] : two \in kSubset(2, PortName)} \cup
    {[servers |-> DOMAIN MCServerText \ {"plain"}, ports |-> [p \in PortName |-> DOMAIN MCPortText[p]],
      system |-> {<<"a1">>, <<"a1", "a2">>}, own |-> {"a2"}, binds |-> 0]}

Symmetry == Permutations(Server)
===========================================================================
