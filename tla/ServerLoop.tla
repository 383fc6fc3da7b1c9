----------------------------- MODULE ServerLoop -----------------------------
(***************************************************************************)
(* The server loop: svz_loop and svz_loop_one (server-core.c) around       *)
(* check_sockets_poll or check_sockets_select (server-loop.c), with the    *)
(* callbacks a socket runs on the way: tcp_accept (server-socket.c),       *)
(* svz_tcp_connect and tcp_default_connect (tcp-socket.c), the periodic    *)
(* idle functions, and the disconnection of sockets that were scheduled    *)
(* for shutdown.                                                           *)
(*                                                                         *)
(* One thread runs all of it, so a callback is atomic; what varies is      *)
(* which descriptors are ready, what the callbacks decide and in which     *)
(* order the sockets are visited.  The list of sockets is the set enq, and *)
(* a walk along it visits the sockets of "left" in any order: the order of *)
(* the list is the matter of SockList, rechaining makes each of them       *)
(* possible, and a socket enqueued during a walk goes to the end of the    *)
(* list and is visited by it.  Parents and referrers are pointers here     *)
(* that become NULL when the other structure is freed, as                  *)
(* SocketProofs!ReferencesExact shows of the pairs the code stores.        *)
(***************************************************************************)
EXTENDS Integers, Sequences, FiniteSets

CONSTANTS
    Sock,         \* addresses of socket structures
    NULL,         \* the null pointer
    Listeners,    \* the sockets bound before the loop starts
    Setups,       \* builds and servers; one of them is what runs:
                  \*   method: svz_check_sockets is "poll" or "select"
                  \*   opens: what callbacks open, of {"tcp", "pipe", "shuffle"}
    MaxSockets,   \* SVZ_RUNPARM_MAX_SOCKETS
    ConnBound     \* bound: how far connections may drift by pipes, shuffles

ASSUME NullAssumption == NULL \notin Sock
ASSUME ListenersAssumption == Listeners \subseteq Sock
ASSUME SetupsAssumption ==
    Setups \subseteq [method : {"poll", "select"},
                      opens : SUBSET {"tcp", "pipe", "shuffle"}]
ASSUME LimitAssumption == MaxSockets \in Nat
ASSUME BoundAssumption == ConnBound \in Nat

VARIABLES
    enq,                      \* the enqueued structures
    listening, killed,        \* SVZ_SOFLG_LISTENING, _KILLED
    connecting, connected,    \* SVZ_SOFLG_CONNECTING, _CONNECTED
    pipes,                    \* SVZ_SOFLG_PIPE; the others are SVZ_SOFLG_SOCK
    undetected,               \* idle_func is idle_protect
    parent, referrer,         \* the structures referred to, or NULL
    connections,              \* svz_sock_connections
    pc,                       \* where the loop is
    left,                     \* still to be visited by the current walk
    cur, todo,                \* dispatched socket, stages it still goes through
    nuke,                     \* svz_nuke_happened
    setup                     \* the setup that runs; never changes

flagVars == <<listening, connecting, connected, pipes, undetected>>
sockVars == <<enq, killed, flagVars, parent, referrer, connections>>
ctrlVars == <<pc, left, cur, todo, nuke, setup>>
vars == <<sockVars, ctrlVars>>

Ptr == Sock \cup {NULL}
Walks == {"prepare", "idle", "idle2", "children", "sweep"}

-----------------------------------------------------------------------------
(* Shutdown *)

\* Everything that is killed after the sockets K have been scheduled for
\* shutdown: a listener that was not yet killed takes its children along.
Scheduled(K) ==
    killed \cup K \cup {c \in enq : parent[c] \in (K \cap listening) \ killed}

\* disconnected_socket: the one s refers to is scheduled for shutdown too
\* (disconnect_passthrough, shut_down_referrer).
Disconnected(s) ==
    IF referrer[s] # NULL THEN Scheduled({referrer[s]}) ELSE killed

\* svz_sock_shutdown with dequeue, svz_sock_disconnect and svz_sock_free.
svz_sock_shutdown(s) ==
    /\ enq' = enq \ {s}
    /\ killed' = Disconnected(s) \ {s}
    /\ connections' = IF s \in connected \ pipes THEN connections - 1
                                                 ELSE connections
    /\ listening' = listening \ {s}
    /\ connecting' = connecting \ {s}
    /\ connected' = connected \ {s}
    /\ pipes' = pipes \ {s}
    /\ undetected' = undetected \ {s}
    /\ parent' = [x \in Sock |-> IF x = s \/ parent[x] = s THEN NULL
                                 ELSE parent[x]]
    /\ referrer' = [x \in Sock |-> IF x = s \/ referrer[x] = s THEN NULL
                                   ELSE referrer[x]]

\* Mutation: the socket is shut down at once.
svz_sock_schedule_for_shutdown_AtOnce(s) == svz_sock_shutdown(s)

svz_sock_schedule_for_shutdown(s) ==
    /\ killed' = Scheduled({s})
    /\ UNCHANGED <<enq, flagVars, parent, referrer, connections>>

-----------------------------------------------------------------------------
(* What callbacks do to sockets *)

Quiet == UNCHANGED sockVars

\* svz_tcp_connect: connections counts the socket once it is connected.
svz_tcp_connect(t) ==
    /\ "tcp" \in setup.opens
    /\ enq' = enq \cup {t}
    /\ connecting' = connecting \cup {t}
    /\ UNCHANGED <<killed, listening, connected, pipes, undetected, parent,
                   referrer, connections>>

svz_pipe_connect(t) ==
    /\ "pipe" \in setup.opens /\ connections < ConnBound
    /\ enq' = enq \cup {t}
    /\ pipes' = pipes \cup {t}
    /\ connected' = connected \cup {t}
    /\ connections' = connections + 1
    /\ UNCHANGED <<killed, listening, connecting, undetected, parent, referrer>>

\* A program is run for s, and t passes its data through a socket pair.
shuffle(s, t) ==
    /\ "shuffle" \in setup.opens /\ connections > -ConnBound
    /\ s \notin listening /\ referrer[s] = NULL
    /\ enq' = enq \cup {t}
    /\ connected' = connected \cup {t}
    /\ referrer' = [referrer EXCEPT ![s] = t, ![t] = s]
    /\ UNCHANGED <<killed, listening, connecting, pipes, undetected, parent,
                   connections>>

\* What a server's callback may do and return zero: nothing, schedule any
\* socket for shutdown, or open one more.
Handler(s) ==
    \/ Quiet
    \/ \E v \in enq : svz_sock_schedule_for_shutdown(v)
    \/ \E t \in Sock \ enq :
         svz_tcp_connect(t) \/ svz_pipe_connect(t) \/ shuffle(s, t)

HasRoom == connections < MaxSockets

\* A connection on the listener s.  A client that is denied access or comes
\* too often is scheduled for shutdown, and check_request is run in any case;
\* it may detect the protocol at once, fail, or schedule another socket v.
tcp_accept(s) ==
    \/ Quiet
    \/ \E t \in Sock \ enq, v \in enq \cup {NULL},
          denied, detected, fails \in BOOLEAN :
         /\ HasRoom
         /\ enq' = enq \cup {t}
         /\ connected' = connected \cup {t}
         /\ parent' = [parent EXCEPT ![t] = s]
         /\ connections' = connections + 1
         /\ undetected' = IF detected THEN undetected ELSE undetected \cup {t}
         /\ killed' = Scheduled({v} \cap enq) \cup
                      (IF denied \/ fails \/ v = s THEN {t} ELSE {})
         /\ UNCHANGED <<listening, connecting, pipes, referrer>>

\* Data on a connection: its protocol may be detected by it.
Received(s) ==
    \/ Handler(s)
    \/ /\ s \in undetected
       /\ undetected' = undetected \ {s}
       /\ UNCHANGED <<enq, killed, listening, connecting, connected, pipes,
                      parent, referrer, connections>>

\* The connection is up; if it is not yet, the callback does nothing.
tcp_default_connect(s) ==
    /\ connecting' = connecting \ {s}
    /\ connected' = connected \cup {s}
    /\ connections' = connections + 1
    /\ UNCHANGED <<enq, killed, listening, pipes, undetected, parent, referrer>>

-----------------------------------------------------------------------------
(* The loop *)

Init ==
    /\ enq = Listeners /\ listening = Listeners
    /\ killed = {} /\ connecting = {} /\ connected = {} /\ pipes = {}
    /\ undetected = {}
    /\ parent = [s \in Sock |-> NULL] /\ referrer = [s \in Sock |-> NULL]
    /\ connections = 0
    /\ pc = "prepare" /\ left = enq /\ cur = NULL /\ todo = <<>>
    /\ nuke = FALSE /\ setup \in Setups

Ctrl == <<cur, todo, nuke, setup>>

\* The loop goes on to p; a walk starts with every enqueued socket to visit.
Goto(p) ==
    /\ pc' = p
    /\ left' = IF p \in Walks THEN enq ELSE {}
    /\ UNCHANGED <<sockVars, Ctrl>>

WalkEnds(w, p) == pc = w /\ left = {} /\ Goto(p)

\* The walk w comes to s, is done with it and meets what was enqueued then.
Visits(w, s) == pc = w /\ s \in left
Passes(s) ==
    /\ left' = (left \ {s}) \cup (enq' \ enq)
    /\ UNCHANGED <<pc, Ctrl>>

\* A callback of s during a walk; non-zero results schedule s for shutdown.
Called(s) == Handler(s) \/ svz_sock_schedule_for_shutdown(s)

\* First pass of svz_check_sockets: the file and trigger callbacks of the
\* sockets that are not killed, whose descriptors are collected.
Prepare(s) ==
    /\ Visits("prepare", s)
    /\ Quiet \/ (s \notin killed /\ Called(s))
    /\ Passes(s)

\* The entries of s in the arrays for poll, or what select's second pass does
\* with s in one go.
Entries(s) ==
    {<<s, side>> : side \in IF s \notin pipes THEN {"sock"}
                            ELSE IF setup.method = "poll" THEN {"recv", "send"}
                            ELSE {"pipe"}}

\* What is looked at for an entry, in this order.
Stages(side) ==
    CASE side = "sock" -> IF setup.method = "poll" THEN <<"oob", "in", "out", "err">>
                                             ELSE <<"except", "in", "out">>
      [] side = "recv" -> <<"in", "err">>
      [] side = "send" -> <<"out", "err">>
      [] side = "pipe" -> <<"err", "in", "err", "out">>

\* Descriptors are ready.  Killed sockets have no entry, or one that is passed
\* over in any case.
Polled ==
    /\ pc = "prepare" /\ left = {}
    /\ pc' = "dispatch"
    /\ left' = UNION {Entries(s) : s \in enq}
    /\ UNCHANGED <<sockVars, Ctrl>>

\* Nothing was ready until the next periodic tasks are due.
TimedOut == WalkEnds("prepare", "idle")

\* Mutation: a failing call starts the next round at once.
PollFailed_StartsOver ==
    /\ pc = "prepare" /\ left = {}
    /\ \E bogus \in SUBSET enq : killed' = Scheduled(bogus)
    /\ pc' = "prepare" /\ left' = enq
    /\ UNCHANGED <<enq, flagVars, parent, referrer, connections, Ctrl>>

\* The call failed: the round goes on without periodic tasks, after
\* svz_sock_check_bogus if there was a bad descriptor.
PollFailed ==
    /\ pc = "prepare" /\ left = {}
    /\ \E bogus \in SUBSET enq : killed' = Scheduled(bogus)
    /\ pc' = "children" /\ left' = enq
    /\ UNCHANGED <<enq, flagVars, parent, referrer, connections, Ctrl>>

\* Mutation: entries of killed sockets are not passed over.
PassedOver_Never(s) == FALSE

PassedOver(s) == s \in killed

\* The next entry; those of killed sockets are passed over.
Begin ==
    /\ pc = "dispatch" /\ todo = <<>>
    /\ \E e \in left :
         /\ left' = left \ {e}
         /\ IF PassedOver(e[1])
            THEN UNCHANGED <<cur, todo>>
            ELSE cur' = e[1] /\ todo' = Stages(e[2])
    /\ UNCHANGED <<sockVars, pc, nuke, setup>>

\* The stage at the head of todo is over, or the whole entry is (continue).
Stage(st) == pc = "dispatch" /\ todo # <<>> /\ Head(todo) = st
Proceed ==
    /\ todo' = Tail(todo)
    /\ cur' = IF Tail(todo) = <<>> THEN NULL ELSE cur
    /\ UNCHANGED <<pc, left, nuke, setup>>
Continue ==
    /\ todo' = <<>> /\ cur' = NULL
    /\ UNCHANGED <<pc, left, nuke, setup>>

\* A callback that returns non-zero ends the entry, save for pipes in select.
Failed ==
    /\ svz_sock_schedule_for_shutdown(cur)
    /\ IF setup.method = "select" /\ cur \in pipes THEN Proceed ELSE Continue

Unready == \E st \in {"oob", "except", "in", "out", "err"} :
               Stage(st) /\ Quiet /\ Proceed

ReadOob ==
    /\ Stage("oob") \/ Stage("except")
    /\ cur \notin connecting
    /\ \/ /\ cur \notin listening
          /\ Handler(cur) /\ Proceed
       \/ Failed

\* select reports a connection that could not be made as an exception.
ConnectException ==
    /\ Stage("except") /\ cur \in connecting
    /\ svz_sock_schedule_for_shutdown(cur) /\ Continue

Read ==
    /\ Stage("in") /\ cur \notin connecting
    /\ \/ cur \in listening /\ tcp_accept(cur) /\ Proceed
       \/ /\ cur \notin listening
          /\ Received(cur) /\ Proceed
       \/ Failed

Connect ==
    /\ Stage("out") /\ cur \in connecting
    /\ \/ tcp_default_connect(cur) /\ Proceed
       \/ Failed

Write ==
    /\ Stage("out") /\ cur \notin connecting \cup listening
    /\ \/ Handler(cur) /\ Proceed
       \/ Failed

Error ==
    /\ Stage("err")
    /\ svz_sock_schedule_for_shutdown(cur) /\ Proceed

\* Behind the dispatching, the periodic tasks are done if they are due.
DispatchEnds ==
    /\ pc = "dispatch" /\ left = {} /\ todo = <<>>
    /\ Goto("idle2") \/ Goto("children")

\* svz_periodic_tasks: the idle function of a socket, killed or not, if it is
\* its time.  idle_protect gives up an undetected connection after a while.
Idle(s) ==
    /\ Visits("idle", s) \/ Visits("idle2", s)
    /\ \/ Quiet
       \/ /\ s \in undetected
          /\ Quiet \/ svz_sock_schedule_for_shutdown(s)
         
       \/ s \notin undetected \cup listening /\ Called(s)
    /\ Passes(s)

IdleEnds ==
    \/ WalkEnds("idle", "idle2") \/ WalkEnds("idle", "children")
    \/ WalkEnds("idle2", "children")

\* check_children: the callback of a socket whose process died.
ChildDied(s) ==
    /\ Visits("children", s)
    /\ Quiet \/ (s \notin listening /\ Called(s))
    /\ Passes(s)

\* The list may be rechained, which leaves the set of sockets alone, and the
\* shutdown pass begins.
Rechain == WalkEnds("children", "sweep")

\* Last pass of svz_loop_one: killed sockets are disconnected and freed.
Sweep(s) ==
    /\ Visits("sweep", s)
    /\ IF s \in killed THEN svz_sock_shutdown(s) ELSE Quiet
    /\ Passes(s)

\* Mutation: a request to stop is only seen by chance.
Again_IgnoresNuke == WalkEnds("sweep", "prepare")

\* while (!svz_nuke_happened)
Again == ~nuke /\ WalkEnds("sweep", "prepare")

Leave == nuke /\ WalkEnds("sweep", "post")

\* svz_loop_post: the remaining sockets are shut down.
svz_loop_post(s) ==
    /\ pc = "post" /\ s \in enq
    /\ svz_sock_shutdown(s)
    /\ UNCHANGED ctrlVars

Finished == pc = "post" /\ enq = {} /\ Goto("done")

\* A signal, or a command on a control connection, asks the loop to stop.
Nuke ==
    /\ ~nuke /\ pc # "done"
    /\ nuke' = TRUE
    /\ UNCHANGED <<sockVars, pc, left, cur, todo, setup>>

Loop ==
    \/ \E s \in Sock : Prepare(s) \/ Idle(s) \/ ChildDied(s)
    \/ Polled \/ TimedOut \/ PollFailed
    \/ Begin \/ Unready \/ ReadOob \/ ConnectException \/ Read \/ Connect
    \/ Write \/ Error \/ DispatchEnds \/ IdleEnds \/ Rechain
    \/ \E s \in Sock : Sweep(s) \/ svz_loop_post(s)
    \/ Again \/ Leave \/ Finished

Next == Loop \/ Nuke

Spec == Init /\ [][Next]_vars

\* The thread never waits for ever: poll and select return at a timeout.
FairSpec == Spec /\ WF_vars(Loop)

-----------------------------------------------------------------------------
(* Properties *)

TypeOK ==
    /\ enq \subseteq Sock
    /\ \A f \in {listening, killed, connecting, connected, pipes, undetected} :
         f \subseteq enq
    /\ parent \in [Sock -> Ptr] /\ referrer \in [Sock -> Ptr]
    /\ connections \in Int
    /\ pc \in Walks \cup {"dispatch", "post", "done"}
    /\ cur \in Ptr /\ todo \in Seq({"oob", "except", "in", "out", "err"})
    /\ nuke \in BOOLEAN
    /\ setup \in Setups

\* No pointer leads to a structure that was freed: the sockets a walk or the
\* dispatching has still to visit are enqueued, whatever the callbacks of other
\* sockets did meanwhile, and where callbacks may run an undetected connection
\* has a listener whose port configuration idle_protect and
\* svz_sock_detect_proto can dereference.
PointersLive ==
    /\ TypeOK
    /\ pc \in Walks => left \subseteq enq
    /\ pc = "dispatch" =>
         /\ \A e \in left : e[1] \in enq
         /\ cur \in enq \cup {NULL} /\ (cur = NULL <=> todo = <<>>)
    /\ pc \notin {"sweep", "post"} =>
         \A s \in undetected : parent[s] \in listening

\* A listener that is killed took all its connections with it, those it
\* accepted in the same round included.
ChildrenKilled ==
    \A c \in enq : parent[c] \in killed => c \in killed

\* A socket that was scheduled for shutdown gets disconnected and freed, and
\* one does not depend on others to do so: "All marked sockets will be deleted
\* once the server loop is through".  When one end of a passed-through
\* connection is killed, the other goes too.
KilledFreed ==
    /\ \A s \in Sock : s \in killed ~> s \notin enq
    /\ \A s, t \in Sock : (referrer[s] = t /\ s \in killed) ~> t \notin enq

\* Once it is asked to, the loop comes to its end with every socket freed.
Terminates == nuke ~> (pc = "done" /\ enq = {})
=============================================================================
