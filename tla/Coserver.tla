------------------------------ MODULE Coserver ------------------------------
(***************************************************************************)
(* Internal coservers of one type (coserver.c, Unix part): helper          *)
(* processes that answer requests over a pair of pipes, so that the server *)
(* does not block.  send_request puts a callback into the hash "callbacks" *)
(* under a fresh id and sends the id along with the request to the least   *)
(* busy coserver; the answer brings the id back and check_request and      *)
(* handle_request run the callback.  svz_coserver_check, called once a     *)
(* second, starts coservers that are missing and one more when a send      *)
(* buffer is filling up; the control protocol's restart command            *)
(* (control-proto.c) destroys and creates them at any time.                *)
(*                                                                         *)
(* Requests and answers are lines and travel whole here (their bytes are   *)
(* the matter of SendBuffer); both are represented by the request's id.    *)
(* Coserver structures are addresses that malloc hands out again, and so   *)
(* are socket structures with their ids.  The types of coservers share     *)
(* nothing but the array and the callback ids; there is one type here.     *)
(***************************************************************************)
EXTENDS Integers, Sequences, SequencesExt

CONSTANTS
    Cos,          \* addresses of coserver structures
    Sock,         \* pipe socket structures, each with its id
    NULL,         \* the null pointer
    Instances,    \* the type's number of instances
    SendSize,     \* lines that fit into a send buffer
    PipeSize,     \* lines that fit into the pipe to a coserver
    MaxRequests,  \* bound: requests ever made
    MaxRestarts   \* bound: restart commands

ASSUME NullAssumption == NULL \notin Cos
ASSUME SizeAssumption ==
    Instances \in Nat /\ SendSize \in Nat \ {0} /\ PipeSize \in Nat \ {0}
ASSUME BoundAssumption == MaxRequests \in Nat /\ MaxRestarts \in Nat

VARIABLES
    coservers,    \* the array of coserver structures
    busy, cosock, \* fields of the structures in the array: busy, sock
    friendly,     \* maps socket ids to coserver structures
    enq, killed,  \* coserver sockets in the list, those scheduled for shutdown
    alive,        \* sockets whose coserver process is running
    send_buffer,  \* of a socket
    inpipe,       \* sent and not yet answered by the process
    outpipe,      \* answered and not yet read by the server
    callbacks,    \* ids with a callback in the hash
    callback_id,
    recent,       \* last_start is less than three seconds ago
    restarts      \* history: how often the restart command was used

chanVars == <<send_buffer, inpipe, outpipe>>
cosVars == <<coservers, cosock, friendly>>
cbVars == <<callbacks, callback_id>>
vars == <<cosVars, busy, enq, killed, alive, chanVars, cbVars, recent, restarts>>

Running == Range(coservers)
count_type == Len(coservers)

-----------------------------------------------------------------------------
(* Starting *)

\* Which free socket structure is taken makes no difference.
FreeSock == CHOOSE s \in Sock : s \notin enq

\* The structures of start: a coserver c appended to the array cs, its socket
\* and its process; dead are sockets whose process was killed just before.
start(cs, dead) ==
    /\ Sock \ enq # {}
    /\ \E c \in Cos \ Range(cs) :
         /\ coservers' = Append(cs, c)
         /\ busy' = [x \in Range(cs) \cup {c} |-> IF x = c THEN 0 ELSE busy[x]]
         /\ cosock' = [x \in Range(cs) \cup {c} |->
                         IF x = c THEN FreeSock ELSE cosock[x]]
         /\ friendly' = [friendly EXCEPT ![FreeSock] = c]
    /\ enq' = enq \cup {FreeSock}
    /\ alive' = (alive \ dead) \cup {FreeSock}
    /\ recent' = TRUE
    /\ UNCHANGED <<killed, chanVars, cbVars>>

\* What init leaves if every start in it failed: the hashes are empty and
\* svz_coserver_check may start coservers at once.  If they succeeded, it is
\* as after that.
Init ==
    /\ coservers = <<>>
    /\ busy = <<>> /\ cosock = <<>>
    /\ friendly = [s \in Sock |-> NULL]
    /\ enq = {} /\ killed = {} /\ alive = {}
    /\ send_buffer = [s \in Sock |-> <<>>]
    /\ inpipe = [s \in Sock |-> <<>>] /\ outpipe = [s \in Sock |-> <<>>]
    /\ callbacks = {} /\ callback_id = 1
    /\ recent = FALSE /\ restarts = 0

\* A buffer overrun is in sight (send buffer fill >= 75 percent).
InSight(c) ==
    /\ (Len(send_buffer[cosock[c]]) * 100) \div SendSize >= 75
    /\ count_type <= Instances

\* A start that fails (pipe, fork) leaves everything as it was.
svz_coserver_check ==
    /\ ~recent
    /\ count_type < Instances \/ \E c \in Running : InSight(c)
    /\ start(coservers, {})
    /\ UNCHANGED restarts

\* Three seconds have passed since the last start.
TimePasses ==
    /\ recent /\ recent' = FALSE
    /\ UNCHANGED <<cosVars, busy, enq, killed, alive, chanVars, cbVars, restarts>>

-----------------------------------------------------------------------------
(* Requests *)

\* The last of the least busy coservers in the array.
LeastBusy ==
    LET i == CHOOSE i \in DOMAIN coservers :
                \A j \in DOMAIN coservers :
                    /\ busy[coservers[i]] <= busy[coservers[j]]
                    /\ j > i => busy[coservers[i]] < busy[coservers[j]]
    IN  coservers[i]

\* svz_pipe_write_socket: the first k lines of the send buffer get into the
\* pipe.
Moved(s, k) == inpipe' = [inpipe EXCEPT ![s] = @ \o SubSeq(send_buffer[s], 1, k)]
Fits(s, k) ==
    /\ k <= Len(send_buffer[s]) /\ Len(inpipe[s]) + k <= PipeSize
    /\ k > 0 => s \in alive

HasSpace(buf) == Len(buf) < SendSize

\* svz_sock_printf on the socket s: nothing for a killed one; else it may
\* flush k lines, and fails if the buffer is full or the pipe broken, after
\* which send_request schedules the socket for shutdown.
Sent(s, line) ==
    \/ s \in killed /\ UNCHANGED <<killed, chanVars>>
    \/ /\ s \notin killed
       /\ \E k \in 0..SendSize :
            /\ Fits(s, k) /\ Moved(s, k)
            /\ LET rest == SubSeq(send_buffer[s], k + 1, Len(send_buffer[s]))
               IN  IF HasSpace(rest)
                   THEN /\ send_buffer' = [send_buffer EXCEPT ![s] = Append(rest, line)]
                        /\ UNCHANGED killed
                   ELSE /\ send_buffer' = [send_buffer EXCEPT ![s] = rest]
                        /\ killed' = killed \cup {s}
       /\ UNCHANGED outpipe
    \/ /\ s \notin killed \cup alive /\ send_buffer[s] # <<>>
       /\ killed' = killed \cup {s}
       /\ UNCHANGED chanVars

\* Mutation: the hash entry is made after the counter was increased.
Entered_Next == callback_id + 1

\* The id under which a request's callback is entered into the hash.
Entered == callback_id

\* Without any coserver the request is dropped without a trace.
send_request ==
    /\ coservers # <<>>
    /\ callback_id <= MaxRequests
    /\ callbacks' = callbacks \cup {Entered}
    /\ callback_id' = callback_id + 1
    /\ busy' = [busy EXCEPT ![LeastBusy] = @ + 1]
    /\ Sent(cosock[LeastBusy], callback_id)
    /\ UNCHANGED <<cosVars, enq, alive, recent, restarts>>

-----------------------------------------------------------------------------
(* The coserver process *)

\* Mutation: a request without result is not answered.
Answer_OnlyResults(s) ==
    \/ outpipe' = [outpipe EXCEPT ![s] = Append(@, Head(inpipe[s]))]
    \/ outpipe' = outpipe

\* A failing callback's answer is an empty line with the id.
Answer(s) == outpipe' = [outpipe EXCEPT ![s] = Append(@, Head(inpipe[s]))]

big_loop(s) ==
    /\ s \in alive /\ inpipe[s] # <<>>
    /\ inpipe' = [inpipe EXCEPT ![s] = Tail(@)]
    /\ Answer(s)
    /\ UNCHANGED <<cosVars, busy, enq, killed, alive, send_buffer, cbVars, recent,
                   restarts>>

\* The process ends by itself or is killed from outside.
Die(s) ==
    /\ s \in alive
    /\ alive' = alive \ {s}
    /\ UNCHANGED <<cosVars, busy, enq, killed, chanVars, cbVars, recent, restarts>>

-----------------------------------------------------------------------------
(* The server loop on a coserver's socket *)

Write(s) ==
    /\ s \in enq \ killed /\ send_buffer[s] # <<>>
    /\ \/ \E k \in 1..SendSize :
            /\ Fits(s, k) /\ Moved(s, k)
            /\ send_buffer' = [send_buffer EXCEPT
                                 ![s] = SubSeq(@, k + 1, Len(@))]
            /\ UNCHANGED <<killed, outpipe>>
       \/ s \notin alive /\ killed' = killed \cup {s} /\ UNCHANGED chanVars
    /\ UNCHANGED <<cosVars, busy, enq, alive, cbVars, recent, restarts>>

\* Mutation: the coserver stays as busy as it was.
Relieved_Not(s) == busy

\* check_request finds the structure by the socket's id.  One that was freed
\* and not handed out again is taken to be of no consequence.
Relieved(s) ==
    IF friendly[s] \in Running THEN [busy EXCEPT ![friendly[s]] = @ - 1] ELSE busy

\* An answer is read: check_request and handle_request.  A read that brings
\* several lines is several of these steps.
Read(s) ==
    /\ s \in enq \ killed /\ outpipe[s] # <<>>
    /\ outpipe' = [outpipe EXCEPT ![s] = Tail(@)]
    /\ busy' = Relieved(s)
    /\ callbacks' = callbacks \ {Head(outpipe[s])}
    /\ UNCHANGED <<cosVars, enq, killed, alive, send_buffer, inpipe, callback_id,
                   recent, restarts>>

\* The end of file that a process leaves behind.  poll reports the hang-up
\* along with what is left to read, of which a read gets as much as there is
\* room for, so that answers may get lost.
ReadEof(s) ==
    /\ s \in enq \ (killed \cup alive)
    /\ killed' = killed \cup {s}
    /\ UNCHANGED <<cosVars, busy, enq, alive, chanVars, cbVars, recent, restarts>>

\* Mutation: the array keeps the structure.
disconnect_Keeps(s) == coservers

\* The array without the first coserver whose socket is s, if there is one.
disconnect(s) == RemoveFirstMatch(coservers, LAMBDA c : cosock[c] = s)

forget_sock(s) == [friendly EXCEPT ![s] = NULL]

\* A killed socket is swept: disconnect kills the process, and forget_sock is
\* called before the socket structure is freed.
svz_sock_shutdown(s) ==
    /\ s \in killed
    /\ coservers' = disconnect(s)
    /\ busy' = Restrict(busy, Range(disconnect(s)))
    /\ cosock' = Restrict(cosock, Range(disconnect(s)))
    /\ alive' = alive \ {s}
    /\ friendly' = forget_sock(s)
    /\ enq' = enq \ {s} /\ killed' = killed \ {s}
    /\ send_buffer' = [send_buffer EXCEPT ![s] = <<>>]
    /\ inpipe' = [inpipe EXCEPT ![s] = <<>>]
    /\ outpipe' = [outpipe EXCEPT ![s] = <<>>]
    /\ UNCHANGED <<cbVars, recent, restarts>>

\* svz_coserver_destroy frees every structure and kills every process, but
\* leaves their sockets to the loop; those whose process it kills.
svz_coserver_destroy == {cosock[c] : c \in Running}

\* All coservers are destroyed, and svz_coserver_create starts a new one, or
\* fails to.
ctrl_restart ==
    /\ restarts < MaxRestarts
    /\ restarts' = restarts + 1
    /\ \/ start(<<>>, svz_coserver_destroy)
       \/ /\ coservers' = <<>> /\ busy' = <<>> /\ cosock' = <<>>
          /\ alive' = alive \ svz_coserver_destroy
          /\ UNCHANGED <<friendly, enq, killed, chanVars, cbVars, recent>>

Next ==
    \/ svz_coserver_check \/ TimePasses \/ send_request \/ ctrl_restart
    \/ \E s \in Sock : \/ big_loop(s) \/ Die(s) \/ Write(s) \/ Read(s)
                       \/ ReadEof(s) \/ svz_sock_shutdown(s)

Spec == Init /\ [][Next]_vars

\* The loop serves every socket and sweeps in each round, time passes, a
\* coserver gets its answers done, and starting one does not fail for ever.
FairSpec ==
    /\ Spec
    /\ WF_vars(svz_coserver_check) /\ WF_vars(TimePasses)
    /\ \A s \in Sock :
         /\ WF_vars(big_loop(s)) /\ WF_vars(Write(s)) /\ WF_vars(Read(s))
         /\ WF_vars(ReadEof(s)) /\ WF_vars(svz_sock_shutdown(s))

-----------------------------------------------------------------------------
(* Properties *)

Lines(s) == send_buffer[s] \o inpipe[s] \o outpipe[s]

TypeOK ==
    /\ coservers \in Seq(Cos) /\ IsInjective(coservers)
    /\ busy \in [Running -> Int] /\ cosock \in [Running -> Sock]
    /\ friendly \in [Sock -> Cos \cup {NULL}]
    /\ killed \subseteq enq /\ alive \subseteq enq /\ enq \subseteq Sock
    /\ \A s \in Sock : Lines(s) \in Seq(Nat)
                       /\ Len(send_buffer[s]) <= SendSize
                       /\ Len(inpipe[s]) <= PipeSize
    /\ callbacks \subseteq Nat /\ callback_id \in Nat
    /\ recent \in BOOLEAN /\ restarts \in 0..MaxRestarts

\* "Hash table to map a socket to a coserver": every coserver socket in the
\* list leads to the structure it belongs to, and no other socket leads
\* anywhere, so that check_request neither fails its assertion nor touches a
\* freed structure; as long as the restart command was not used.
FriendlyExact ==
    restarts = 0 => \A s \in Sock :
        IF s \in enq THEN friendly[s] \in Running /\ cosock[friendly[s]] = s
                     ELSE friendly[s] = NULL

\* "The least busiest" is chosen by a number that is right: busy is the number
\* of requests under way to, in and from the coserver.  A coserver under load
\* gets help from one more, and not from ever more.
BusyExact ==
    /\ TypeOK /\ FriendlyExact
    /\ restarts = 0 => \A c \in Running :
         cosock[c] \notin killed => busy[c] = Len(Lines(cosock[c]))
    /\ count_type <= Instances + 1

\* An answer always finds its callback ("invalid callback for id" cannot
\* happen), and no request is answered twice, whatever coservers died or were
\* restarted meanwhile.
CallbackKnown ==
    /\ \A s \in enq : \A i \in DOMAIN Lines(s) : Lines(s)[i] \in callbacks
    /\ \A s, t \in enq : \A i \in DOMAIN Lines(s), j \in DOMAIN Lines(t) :
         Lines(s)[i] = Lines(t)[j] => s = t /\ i = j

\* svz_coserver_check is to "keep the coserver threads/processes alive": when
\* the last process has died, its structure and socket make way for a new one.
KeptAlive ==
    LET Live == {c \in Running : cosock[c] \in alive}
    IN  Instances > 0 => (Live = {} ~> Live # {})

\* A request that a coserver got is answered by running its callback, unless
\* the coserver goes down.
Answered ==
    \A s \in Sock, r \in 1..MaxRequests :
        (s \in enq /\ \E i \in DOMAIN Lines(s) : Lines(s)[i] = r) ~>
            (r \notin callbacks \/ s \notin enq)
=============================================================================
