---------------------------- MODULE MCServerLoop ----------------------------
(* ServerLoop on a few sockets, once for each of two builds and servers: the *)
(* one polls and its server runs programs, the other selects and opens       *)
(* connections and pipes.                                                    *)
EXTENDS ServerLoop

MCSetups ==
    {[method |-> "poll", opens |-> {"shuffle"}],
     [method |-> "select", opens |-> {"tcp", "pipe"}]}
=============================================================================
