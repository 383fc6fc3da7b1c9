-------------------------- MODULE ServerLoopProofs --------------------------
(***************************************************************************)
(* PointersLive and ChildrenKilled for any number of sockets, listeners    *)
(* and builds.  A callback may schedule any socket for shutdown at any     *)
(* time, so the argument is about what the loop still has to do then:      *)
(* parents are listeners and have no parents (Families), so that one level *)
(* of children is all there is to kill; a listener that was killed is not  *)
(* accepted on any more in the same round (Dispatching); and the sweep     *)
(* comes to every connection of a listener it frees (Sweeping).            *)
(***************************************************************************)
EXTENDS ServerLoop, TLAPS

USE NullAssumption, ListenersAssumption

\* Only sockets in the list have parents and referrers.  Parents are listeners,
\* what a listener accepts is no listener, and no listener is referred to.
Families ==
    \A s \in Sock :
        /\ parent[s] # NULL => s \in enq \ listening /\ parent[s] \in listening
        /\ referrer[s] # NULL => s \in enq /\ referrer[s] \in enq \ listening
        /\ s \in listening => s \notin pipes

\* What is being dispatched: the entry of a pipe is one of a pipe until the end.
\* A listener has not been killed when the loop comes to accept on it.
Dispatching ==
    IF pc = "dispatch"
    THEN /\ \A e \in left : e[2] \in IF e[1] \in pipes THEN {"recv", "send", "pipe"} ELSE {"sock"}
         /\ cur \notin pipes =>
              \A i, j \in 1..Len(todo) : i < j /\ todo[j] = "in" => todo[i] \notin {"in", "err"}
         /\ cur \in listening /\ cur \in killed => \A i \in 1..Len(todo) : todo[i] # "in"
    ELSE cur = NULL /\ todo = <<>>

\* In the sweep the connections of a killed listener have not been visited, and
\* those that lost their listener will be freed.
Sweeping ==
    pc = "sweep" =>
        /\ \A s \in enq : parent[s] \in killed => s \in left
        /\ \A s \in undetected : parent[s] \in listening \/ s \in killed \cap left

IInv == PointersLive /\ ChildrenKilled /\ Families /\ Dispatching /\ Sweeping

-----------------------------------------------------------------------------
(* The invariant in parts: the sockets, the variables of the loop, and what   *)
(* ties the one to the other at the place where the loop is.                  *)

SockInv ==
    /\ enq \subseteq Sock
    /\ listening \subseteq enq /\ killed \subseteq enq /\ connecting \subseteq enq
    /\ connected \subseteq enq /\ pipes \subseteq enq /\ undetected \subseteq enq
    /\ parent \in [Sock -> Ptr] /\ referrer \in [Sock -> Ptr]
    /\ connections \in Int
    /\ ChildrenKilled /\ Families

CtrlInv ==
    /\ pc \in Walks \cup {"dispatch", "post", "done"}
    /\ cur \in Ptr /\ todo \in Seq({"oob", "except", "in", "out", "err"})
    /\ nuke \in BOOLEAN
    /\ setup \in Setups

\* Every undetected connection has its listener.
Attended == \A s \in undetected : parent[s] \in listening

Placed ==
    /\ pc \in Walks => left \subseteq enq
    /\ pc = "dispatch" =>
         /\ \A e \in left : e[1] \in enq
         /\ cur \in enq \cup {NULL} /\ (cur = NULL <=> todo = <<>>)
    /\ pc \notin {"sweep", "post"} => Attended
    /\ Dispatching /\ Sweeping

LEMMA Parts == IInv <=> SockInv /\ CtrlInv /\ Placed
BY DEF IInv, PointersLive, TypeOK, SockInv, CtrlInv, Placed, Attended

LEMMA PartsPrimed == IInv' <=> SockInv' /\ CtrlInv' /\ Placed'
BY Parts, PTL

LEMMA InitOK == Init => IInv
<1> SUFFICES ASSUME Init PROVE IInv
  OBVIOUS
<1>1. SockInv
  BY DEF Init, SockInv, ChildrenKilled, Families, Ptr
<1>2. CtrlInv
  <2>1. nuke \in BOOLEAN
    BY Zenon DEF Init
  <2>2. todo \in Seq({"oob", "except", "in", "out", "err"})
    BY DEF Init
  <2> QED
    BY <2>1, <2>2 DEF Init, CtrlInv, Ptr, Walks
<1>3. Placed
  BY DEF Init, Placed, Attended, Dispatching, Sweeping, Walks
<1> QED
  BY <1>1, <1>2, <1>3, Parts

-----------------------------------------------------------------------------
(* What callbacks do to sockets *)

\* A step of a callback: nothing is freed, no listener comes or goes, and what
\* is a pipe stays one.
Grown ==
    /\ SockInv' /\ (Attended => Attended')
    /\ enq \subseteq enq' /\ listening' = listening
    /\ \A s \in enq : s \in pipes' <=> s \in pipes

LEMMA QuietOK == ASSUME SockInv, Quiet PROVE Grown /\ killed' = killed
BY DEF SockInv, Quiet, sockVars, flagVars, Grown, Attended, ChildrenKilled, Families

\* Killing takes the children of listeners along, and no one else has any.
LEMMA ScheduledOK ==
  ASSUME SockInv, NEW K \in SUBSET enq, killed' = Scheduled(K),
         UNCHANGED <<enq, flagVars, parent, referrer, connections>>
  PROVE  Grown
<1> USE DEF flagVars
<1>1. Scheduled(K) \subseteq enq
  BY DEF SockInv, Scheduled
<1>2. ChildrenKilled'
  BY DEF SockInv, Scheduled, ChildrenKilled, Families, Ptr
<1>3. Families'
  BY DEF SockInv, Families
<1>4. SockInv'
  BY <1>1, <1>2, <1>3 DEF SockInv
<1> QED
  BY <1>4 DEF Grown, Attended, SockInv

LEMMA ScheduleOK ==
  ASSUME SockInv, NEW s \in enq, svz_sock_schedule_for_shutdown(s)
  PROVE  Grown
BY ScheduledOK DEF svz_sock_schedule_for_shutdown

LEMMA TcpConnectOK ==
  ASSUME SockInv, NEW t \in Sock \ enq, svz_tcp_connect(t)
  PROVE  Grown
<1> USE DEF svz_tcp_connect
<1>1. ChildrenKilled' /\ Families'
  BY DEF SockInv, ChildrenKilled, Families, Ptr
<1> QED
  BY <1>1 DEF SockInv, Grown, Attended

LEMMA PipeConnectOK ==
  ASSUME SockInv, NEW t \in Sock \ enq, svz_pipe_connect(t)
  PROVE  Grown
<1> USE DEF svz_pipe_connect
<1>1. ChildrenKilled' /\ Families'
  BY DEF SockInv, ChildrenKilled, Families, Ptr
<1> QED
  BY <1>1 DEF SockInv, Grown, Attended

LEMMA ShuffleOK ==
  ASSUME SockInv, NEW s \in enq, NEW t \in Sock \ enq, shuffle(s, t)
  PROVE  Grown
<1> USE DEF shuffle
<1>1. ChildrenKilled'
  BY DEF SockInv, ChildrenKilled, Families, Ptr
<1>2. referrer' \in [Sock -> Ptr]
  BY DEF SockInv, Ptr
<1>3. Families'
  BY DEF SockInv, Families, Ptr
<1> QED
  BY <1>1, <1>2, <1>3 DEF SockInv, Grown, Attended

LEMMA HandlerOK == ASSUME SockInv, NEW s \in enq, Handler(s) PROVE Grown
BY QuietOK, ScheduleOK, TcpConnectOK, PipeConnectOK, ShuffleOK DEF Handler

LEMMA CalledOK == ASSUME SockInv, NEW s \in enq, Called(s) PROVE Grown
BY HandlerOK, ScheduleOK DEF Called

\* A listener that accepts has not been killed; the new connection is killed if
\* the callback schedules the listener.
LEMMA AcceptOK ==
  ASSUME SockInv, NEW s \in listening, s \notin killed, tcp_accept(s)
  PROVE  Grown
<1>1. CASE Quiet
  BY <1>1, QuietOK
<1>2. ASSUME NEW t \in Sock \ enq, NEW v \in enq \cup {NULL},
             NEW denied \in BOOLEAN, NEW detected \in BOOLEAN, NEW fails \in BOOLEAN,
             enq' = enq \cup {t}, connected' = connected \cup {t},
             parent' = [parent EXCEPT ![t] = s], connections' = connections + 1,
             undetected' = IF detected THEN undetected ELSE undetected \cup {t},
             killed' = Scheduled({v} \cap enq) \cup
                       (IF denied \/ fails \/ v = s THEN {t} ELSE {}),
             UNCHANGED <<listening, connecting, pipes, referrer>>
      PROVE  Grown
  <2> USE <1>2
  <2>1. killed' \subseteq enq' /\ parent' \in [Sock -> Ptr]
    BY DEF SockInv, Scheduled, Ptr
  <2>2. Families'
    BY DEF SockInv, Families, Ptr
  <2>3. \A x \in listening : x \in killed' => x \in killed \/ x = v
    BY DEF SockInv, Families, Scheduled, Ptr
  <2>4. ASSUME NEW c \in enq', parent'[c] \in killed' PROVE c \in killed'
    <3>1. CASE c = t
      BY <2>3, <2>4, <3>1 DEF SockInv, Ptr
    <3>2. CASE c # t
      <4>1. c \in enq /\ parent'[c] = parent[c] /\ parent[c] \in listening
        BY <2>4, <3>2 DEF SockInv, Families, Scheduled, Ptr
      <4>2. parent[c] \in killed \/ parent[c] = v
        BY <2>3, <2>4, <4>1
      <4> QED
        BY <2>4, <4>1, <4>2 DEF SockInv, ChildrenKilled, Scheduled
    <3> QED
      BY <3>1, <3>2
  <2>5. ChildrenKilled'
    BY <2>4 DEF ChildrenKilled
  <2>6. undetected' \subseteq undetected \cup {t}
    OBVIOUS
  <2>7. SockInv'
    BY <2>1, <2>2, <2>5, <2>6 DEF SockInv
  <2>8. Attended => Attended'
    BY <2>6 DEF SockInv, Attended
  <2> QED
    BY <2>7, <2>8 DEF Grown
<1> QED
  BY <1>1, <1>2 DEF tcp_accept

LEMMA ReceivedOK == ASSUME SockInv, NEW s \in enq, Received(s) PROVE Grown
<1>1. CASE Handler(s)
  BY <1>1, HandlerOK
<1>2. ASSUME undetected' = undetected \ {s},
             UNCHANGED <<enq, killed, listening, connecting, connected, pipes,
                         parent, referrer, connections>>
      PROVE  Grown
  BY <1>2 DEF SockInv, Grown, Attended, ChildrenKilled, Families
<1> QED
  BY <1>1, <1>2 DEF Received

LEMMA DefaultConnectOK ==
  ASSUME SockInv, NEW s \in enq, tcp_default_connect(s)
  PROVE  Grown
BY DEF tcp_default_connect, SockInv, Grown, Attended, ChildrenKilled, Families

\* Nothing leads to a socket that was freed.
LEMMA ShutdownOK ==
  ASSUME SockInv, NEW s \in enq, svz_sock_shutdown(s)
  PROVE  /\ SockInv'
         /\ enq' = enq \ {s}
         /\ killed \ {s} \subseteq killed'
         /\ \A x \in listening : x \in killed' => x \in killed
         /\ \A x \in undetected' : x \in undetected \ {s} /\
              parent'[x] = IF parent[x] = s THEN NULL ELSE parent[x]
         /\ \A x \in enq' : parent'[x] # NULL => parent'[x] = parent[x]
         /\ listening' = listening \ {s}
<1> USE DEF svz_sock_shutdown
<1>1. killed \subseteq Disconnected(s) /\ Disconnected(s) \subseteq enq
  BY DEF SockInv, Disconnected, Scheduled, Families, Ptr
<1>2. \A x \in listening : x \in Disconnected(s) => x \in killed
  BY DEF SockInv, Disconnected, Scheduled, Families, Ptr
<1>3. parent' \in [Sock -> Ptr] /\ referrer' \in [Sock -> Ptr]
  BY DEF SockInv, Ptr
<1>4. Families'
  BY DEF SockInv, Families, Ptr
<1>5. ChildrenKilled'
  BY <1>1, <1>2 DEF SockInv, ChildrenKilled, Families, Ptr
<1>6. connections' \in Int
  BY DEF SockInv
<1>7. SockInv'
  BY <1>1, <1>3, <1>4, <1>5, <1>6 DEF SockInv
<1> QED
  BY <1>1, <1>2, <1>7 DEF SockInv

-----------------------------------------------------------------------------
(* The steps of the loop *)

\* A walk passes a socket whose callback was called.
LEMMA WalkStepOK ==
  ASSUME IInv, pc \in {"prepare", "idle", "idle2", "children"},
         NEW s \in left, Grown, Passes(s)
  PROVE  IInv'
<1> USE Parts, PartsPrimed DEF Passes, Ctrl
<1>1. CtrlInv'
  BY DEF CtrlInv
<1>2. Placed'
  BY DEF Placed, Grown, Dispatching, Sweeping, Walks
<1> QED
  BY <1>1, <1>2 DEF Grown

\* The loop goes on, and if callbacks may run there, every undetected connection
\* has its listener.
LEMMA GotoOK ==
  ASSUME IInv, NEW p \in Walks \cup {"post", "done"}, Goto(p),
         cur = NULL, todo = <<>>, p # "post" => Attended
  PROVE  IInv'
<1> USE Parts, PartsPrimed DEF Goto, Ctrl
<1>1. Grown
  BY QuietOK DEF Quiet
<1>2. CtrlInv'
  BY DEF CtrlInv
<1>3. Placed'
  <2>1. enq' = enq /\ undetected' = undetected
    BY DEF sockVars, flagVars
  <2>2. pc' = p /\ left' = IF p \in Walks THEN enq ELSE {}
    OBVIOUS
  <2>3. p # "post" => Attended'
    BY <1>1 DEF Grown
  <2>4. Dispatching'
    BY <2>2 DEF Dispatching, Walks
  <2>5. Sweeping'
    <3> SUFFICES ASSUME p = "sweep" PROVE Sweeping'
      BY <2>2 DEF Sweeping
    <3>1. left' = enq'
      BY <2>1, <2>2 DEF Walks
    <3>2. Attended'
      BY <2>3
    <3> QED
      BY <3>1, <3>2 DEF Sweeping, Attended
  <2> QED
    BY <2>1, <2>2, <2>3, <2>4, <2>5 DEF Placed, Walks
<1> QED
  BY <1>1, <1>2, <1>3 DEF Grown

\* The rest of a sequence of stages is one in the same order.
LEMMA RestOfStages ==
  ASSUME CtrlInv, todo # <<>>
  PROVE  /\ Tail(todo) \in Seq({"oob", "except", "in", "out", "err"})
         /\ Len(Tail(todo)) = Len(todo) - 1
         /\ \A i \in 1..Len(Tail(todo)) : i + 1 \in 1..Len(todo) /\ Tail(todo)[i] = todo[i + 1]
         /\ 1 \in 1..Len(todo) /\ Head(todo) = todo[1]
BY DEF CtrlInv

\* A stage is over, unless it has killed a listener that is to be accepted on.
LEMMA DispatchStepOK ==
  ASSUME IInv, pc = "dispatch", todo # <<>>, Grown, Proceed \/ Continue,
         cur \in listening /\ cur \in killed' => \A i \in 1..Len(todo') : todo'[i] # "in"
  PROVE  IInv'
<1> USE Parts, PartsPrimed
<1>1. /\ pc' = pc /\ left' = left /\ nuke' = nuke /\ setup' = setup
      /\ cur' \in {cur, NULL} /\ (cur' = NULL <=> todo' = <<>>)
      /\ todo' \in {Tail(todo), <<>>}
  BY DEF Proceed, Continue, Placed
<1>2. todo' \in Seq({"oob", "except", "in", "out", "err"})
  <2>1. <<>> \in Seq({"oob", "except", "in", "out", "err"})
    OBVIOUS
  <2>2. Tail(todo) \in Seq({"oob", "except", "in", "out", "err"})
    BY RestOfStages
  <2> QED
    BY <1>1, <2>1, <2>2, Zenon
<1>3. CtrlInv'
  BY <1>1, <1>2 DEF CtrlInv, Ptr
<1>4. cur \in enq
  BY DEF Placed
<1>5. Dispatching'
  <2>1. \A e \in left' : e[2] \in IF e[1] \in pipes' THEN {"recv", "send", "pipe"} ELSE {"sock"}
    BY <1>1 DEF Placed, Dispatching, Grown
  <2>2. ASSUME cur' \notin pipes', NEW i \in 1..Len(todo'), NEW j \in 1..Len(todo'),
               i < j, todo'[j] = "in"
        PROVE  todo'[i] \notin {"in", "err"}
    <3>1. todo' = Tail(todo) /\ cur' = cur
      <4>1. ASSUME todo' = <<>> PROVE FALSE
        BY <2>2, <4>1
      <4> QED
        BY <1>1, <4>1, Zenon
    <3>2. cur \notin pipes
      BY <1>4, <2>2, <3>1 DEF Grown
    <3>3. i + 1 \in 1..Len(todo) /\ j + 1 \in 1..Len(todo) /\ i + 1 < j + 1
          /\ todo'[i] = todo[i + 1] /\ todo'[j] = todo[j + 1]
      BY <2>2, <3>1, RestOfStages
    <3> QED
      BY <2>2, <3>2, <3>3 DEF Placed, Dispatching
  <2>3. ASSUME cur' \in listening', cur' \in killed', NEW i \in 1..Len(todo')
        PROVE  todo'[i] # "in"
    BY <1>1, <2>3 DEF Grown, SockInv
  <2> QED
    BY <1>1, <2>1, <2>2, <2>3 DEF Dispatching
<1>6. Placed'
  BY <1>1, <1>4, <1>5 DEF Placed, Grown, Sweeping, Walks
<1> QED
  BY <1>3, <1>6 DEF Grown

-----------------------------------------------------------------------------
(* One lemma per action, or for those of a kind *)

LEMMA PrepareOK == ASSUME IInv, NEW s \in Sock, Prepare(s) PROVE IInv'
<1>1. s \in left /\ s \in enq /\ pc = "prepare"
  BY Parts DEF Prepare, Visits, Placed, Walks
<1>2. Grown
  BY <1>1, QuietOK, CalledOK, Parts DEF Prepare
<1> QED
  BY <1>1, <1>2, WalkStepOK DEF Prepare

LEMMA IdleOK == ASSUME IInv, NEW s \in Sock, Idle(s) PROVE IInv'
<1>1. s \in left /\ s \in enq /\ pc \in {"idle", "idle2"}
  BY Parts DEF Idle, Visits, Placed, Walks
<1>2. Grown
  BY <1>1, QuietOK, CalledOK, ScheduleOK, Parts DEF Idle
<1> QED
  BY <1>1, <1>2, WalkStepOK DEF Idle

LEMMA ChildDiedOK == ASSUME IInv, NEW s \in Sock, ChildDied(s) PROVE IInv'
<1>1. s \in left /\ s \in enq /\ pc = "children"
  BY Parts DEF ChildDied, Visits, Placed, Walks
<1>2. Grown
  BY <1>1, QuietOK, CalledOK, Parts DEF ChildDied
<1> QED
  BY <1>1, <1>2, WalkStepOK DEF ChildDied

\* In the walks before the sweep nothing is being dispatched and every undetected
\* connection has its listener.
LEMMA Between ==
  ASSUME IInv, pc \in {"prepare", "idle", "idle2", "children"}
  PROVE  cur = NULL /\ todo = <<>> /\ Attended
BY Parts DEF Placed, Dispatching

LEMMA TimedOutOK == ASSUME IInv, TimedOut PROVE IInv'
BY Between, GotoOK DEF TimedOut, WalkEnds, Walks

LEMMA IdleEndsOK == ASSUME IInv, IdleEnds PROVE IInv'
BY Between, GotoOK DEF IdleEnds, WalkEnds, Walks

LEMMA RechainOK == ASSUME IInv, Rechain PROVE IInv'
BY Between, GotoOK DEF Rechain, WalkEnds, Walks

LEMMA DispatchEndsOK == ASSUME IInv, DispatchEnds PROVE IInv'
<1>1. cur = NULL /\ todo = <<>> /\ Attended
  BY Parts DEF DispatchEnds, Placed
<1> QED
  BY <1>1, GotoOK DEF DispatchEnds, Walks

\* The sweep has freed every connection that lost its listener.
LEMMA AgainOK == ASSUME IInv, Again \/ Leave PROVE IInv'
<1>1. pc = "sweep" /\ left = {}
  BY DEF Again, Leave, WalkEnds
<1>2. cur = NULL /\ todo = <<>> /\ Attended
  BY <1>1, Parts DEF Placed, Dispatching, Sweeping, Attended
<1> QED
  BY <1>2, GotoOK DEF Again, Leave, WalkEnds, Walks

LEMMA FinishedOK == ASSUME IInv, Finished PROVE IInv'
<1>1. cur = NULL /\ todo = <<>> /\ Attended
  BY Parts DEF Finished, Placed, Dispatching, Attended, SockInv
<1> QED
  BY <1>1, GotoOK DEF Finished

\* The arrays for poll hold sockets of the list.
LEMMA PolledOK == ASSUME IInv, Polled PROVE IInv'
<1> USE Parts, PartsPrimed DEF Polled, Ctrl
<1>1. Grown /\ killed' = killed
  BY QuietOK DEF Quiet
<1>2. CtrlInv'
  BY DEF CtrlInv
<1>3. cur' = NULL /\ todo' = <<>> /\ Attended
  BY Between
<1>4. enq' = enq /\ pipes' = pipes
  BY DEF sockVars, flagVars
<1>5. \A e \in left' : e[1] \in enq /\ e[2] \in IF e[1] \in pipes THEN {"recv", "send", "pipe"} ELSE {"sock"}
  BY DEF Entries
<1>6. Placed'
  BY <1>1, <1>3, <1>4, <1>5 DEF Placed, Grown, Dispatching, Sweeping, Walks
<1> QED
  BY <1>1, <1>2, <1>6 DEF Grown

LEMMA PollFailedOK == ASSUME IInv, PollFailed PROVE IInv'
<1> USE Parts, PartsPrimed DEF PollFailed, Ctrl
<1>1. Grown
  BY ScheduledOK
<1>2. CtrlInv'
  BY DEF CtrlInv, Walks
<1>3. cur' = NULL /\ todo' = <<>> /\ Attended
  BY Between
<1>4. Placed'
  BY <1>1, <1>3 DEF Placed, Grown, Dispatching, Sweeping, Walks
<1> QED
  BY <1>1, <1>2, <1>4 DEF Grown

\* An entry that is not passed over has its stages in an order in which a
\* listener is accepted on before anything can go wrong with it.
LEMMA StagesOK ==
  ASSUME NEW side \in {"sock", "recv", "send", "pipe"}
  PROVE  /\ Stages(side) \in Seq({"oob", "except", "in", "out", "err"})
         /\ Stages(side) # <<>>
         /\ side = "sock" => \A i, j \in 1..Len(Stages(side)) :
              i < j /\ Stages(side)[j] = "in" => Stages(side)[i] \notin {"in", "err"}
<1>1. CASE side = "sock" /\ setup.method = "poll"
  <2>1. Stages(side) = <<"oob", "in", "out", "err">>
    BY <1>1 DEF Stages
  <2>2. Stages(side) \in Seq({"oob", "except", "in", "out", "err"}) /\ Stages(side) # <<>>
    BY <2>1
  <2>3. Len(Stages(side)) = 4 /\ Stages(side)[1] = "oob" /\ Stages(side)[2] = "in" /\ Stages(side)[3] = "out" /\ Stages(side)[4] = "err"
    BY <2>1
  <2>4. ASSUME NEW i \in 1..Len(Stages(side)), NEW j \in 1..Len(Stages(side)),
               i < j, Stages(side)[j] = "in"
        PROVE  Stages(side)[i] \notin {"in", "err"}
    <3>1. j = 2 /\ i = 1
      BY <2>3, <2>4
    <3> QED
      BY <2>3, <3>1
  <2> QED
    BY <2>2, <2>4
<1>2. CASE side = "sock" /\ setup.method # "poll"
  <2>1. Stages(side) = <<"except", "in", "out">>
    BY <1>2 DEF Stages
  <2>2. Stages(side) \in Seq({"oob", "except", "in", "out", "err"}) /\ Stages(side) # <<>>
    BY <2>1
  <2>3. Len(Stages(side)) = 3 /\ Stages(side)[1] = "except" /\ Stages(side)[2] = "in" /\ Stages(side)[3] = "out"
    BY <2>1
  <2>4. ASSUME NEW i \in 1..Len(Stages(side)), NEW j \in 1..Len(Stages(side)),
               i < j, Stages(side)[j] = "in"
        PROVE  Stages(side)[i] \notin {"in", "err"}
    <3>1. j = 2 /\ i = 1
      BY <2>3, <2>4
    <3> QED
      BY <2>3, <3>1
  <2> QED
    BY <2>2, <2>4
<1>3. CASE side = "recv"
  <2>1. Stages(side) = <<"in", "err">>
    BY <1>3 DEF Stages
  <2>2. Stages(side) \in Seq({"oob", "except", "in", "out", "err"}) /\ Stages(side) # <<>>
    BY <2>1
  <2> QED
    BY <1>3, <2>2
<1>4. CASE side = "send"
  <2>1. Stages(side) = <<"out", "err">>
    BY <1>4 DEF Stages
  <2>2. Stages(side) \in Seq({"oob", "except", "in", "out", "err"}) /\ Stages(side) # <<>>
    BY <2>1
  <2> QED
    BY <1>4, <2>2
<1>5. CASE side = "pipe"
  <2>1. Stages(side) = <<"err", "in", "err", "out">>
    BY <1>5 DEF Stages
  <2>2. Stages(side) \in Seq({"oob", "except", "in", "out", "err"}) /\ Stages(side) # <<>>
    BY <2>1
  <2> QED
    BY <1>5, <2>2
<1> QED
  BY <1>1, <1>2, <1>3, <1>4, <1>5

LEMMA BeginOK == ASSUME IInv, Begin PROVE IInv'
<1> USE Parts, PartsPrimed
<1>1. Grown /\ killed' = killed
  BY QuietOK DEF Quiet, Begin
<1>2. PICK e \in left : /\ left' = left \ {e}
                        /\ IF e[1] \in killed THEN UNCHANGED <<cur, todo>>
                           ELSE cur' = e[1] /\ todo' = Stages(e[2])
  BY DEF Begin, PassedOver
<1>3. /\ pc' = "dispatch" /\ pc = "dispatch" /\ nuke' = nuke /\ setup' = setup /\ enq' = enq
      /\ todo = <<>> /\ cur = NULL /\ pipes' = pipes /\ listening' = listening
  BY DEF Begin, Placed, sockVars, flagVars
<1>4. e[1] \in enq /\ e[2] \in IF e[1] \in pipes THEN {"recv", "send", "pipe"} ELSE {"sock"}
  BY <1>3 DEF Placed, Dispatching
<1>5. ASSUME e[1] \in killed PROVE IInv'
  <2>1. cur' = cur /\ todo' = todo
    BY <1>2, <1>5
  <2>2. CtrlInv'
    BY <1>3, <2>1 DEF CtrlInv
  <2>3. Dispatching'
    BY <1>2, <1>3, <2>1, <1>1 DEF Placed, Dispatching
  <2>4. Placed'
    BY <1>1, <1>2, <1>3, <2>1, <2>3 DEF Placed, Grown, Sweeping, Walks
  <2> QED
    BY <1>1, <2>2, <2>4 DEF Grown
<1>6. ASSUME e[1] \notin killed PROVE IInv'
  <2>1. cur' = e[1] /\ todo' = Stages(e[2])
    BY <1>2, <1>6
  <2>2. e[2] \in {"sock", "recv", "send", "pipe"} /\ e[1] # NULL
    BY <1>4 DEF SockInv
  <2>3. /\ todo' \in Seq({"oob", "except", "in", "out", "err"}) /\ todo' # <<>>
        /\ cur' \notin pipes' => \A i, j \in 1..Len(todo') :
             i < j /\ todo'[j] = "in" => todo'[i] \notin {"in", "err"}
    BY <1>3, <1>4, <2>1, <2>2, StagesOK
  <2>4. CtrlInv'
    BY <1>3, <1>4, <2>1, <2>3 DEF CtrlInv, SockInv, Ptr
  <2>5. Dispatching'
    BY <1>1, <1>2, <1>3, <1>6, <2>1, <2>3 DEF Placed, Dispatching
  <2>6. Placed'
    BY <1>1, <1>2, <1>3, <1>4, <2>1, <2>2, <2>3, <2>5 DEF Placed, Grown, Sweeping, Walks
  <2> QED
    BY <1>1, <2>4, <2>6 DEF Grown
<1> QED
  BY <1>5, <1>6

\* What is known at every stage of an entry.
LEMMA AtStage ==
  ASSUME IInv, pc = "dispatch", todo # <<>>
  PROVE  /\ SockInv /\ CtrlInv /\ cur \in enq
         /\ cur \in listening => cur \notin pipes
         /\ cur \in listening /\ Head(todo) = "in" => cur \notin killed
         /\ cur \in listening /\ Head(todo) \in {"in", "err"} =>
              \A i \in 1..Len(Tail(todo)) : Tail(todo)[i] # "in"
         /\ cur \in listening /\ cur \in killed =>
              \A i \in 1..Len(Tail(todo)) : Tail(todo)[i] # "in"
<1> USE Parts
<1>1. SockInv /\ CtrlInv /\ cur \in enq
  BY DEF Placed
<1>2. cur \in listening => cur \notin pipes
  BY <1>1 DEF SockInv, Families
<1>3. cur \in listening /\ Head(todo) = "in" => cur \notin killed
  BY RestOfStages DEF Placed, Dispatching
<1>4. ASSUME cur \in listening, Head(todo) \in {"in", "err"}, NEW i \in 1..Len(Tail(todo))
      PROVE  Tail(todo)[i] # "in"
  <2>1. 1 < i + 1 /\ i + 1 \in 1..Len(todo) /\ Tail(todo)[i] = todo[i + 1]
        /\ 1 \in 1..Len(todo) /\ Head(todo) = todo[1]
    BY <1>4, RestOfStages
  <2> QED
    BY <1>2, <1>4, <2>1 DEF Placed, Dispatching
<1>5. ASSUME cur \in listening, cur \in killed, NEW i \in 1..Len(Tail(todo))
      PROVE  Tail(todo)[i] # "in"
  BY <1>5, RestOfStages DEF Placed, Dispatching
<1> QED
  BY <1>1, <1>2, <1>3, <1>4, <1>5

\* The entry is over: nothing is left to do for the socket.
LEMMA ContinueOK ==
  ASSUME IInv, pc = "dispatch", todo # <<>>, Grown, Continue
  PROVE  IInv'
BY DispatchStepOK DEF Continue

\* A stage of a socket that is no listener.
LEMMA ProceedOK ==
  ASSUME IInv, pc = "dispatch", todo # <<>>, Grown, Proceed, cur \notin listening
  PROVE  IInv'
BY DispatchStepOK

LEMMA FailedOK ==
  ASSUME IInv, pc = "dispatch", todo # <<>>, Failed
  PROVE  IInv'
<1>1. Grown
  BY AtStage, ScheduleOK DEF Failed
<1>2. CASE Continue
  BY <1>1, <1>2, ContinueOK
<1>3. CASE cur \in pipes /\ Proceed
  BY <1>1, <1>3, ProceedOK, AtStage
<1> QED
  BY <1>2, <1>3 DEF Failed

LEMMA UnreadyOK == ASSUME IInv, Unready PROVE IInv'
<1>1. pc = "dispatch" /\ todo # <<>> /\ Quiet /\ Proceed
  BY DEF Unready, Stage
<1>2. Grown /\ killed' = killed
  BY <1>1, AtStage, QuietOK
<1>3. todo' = Tail(todo)
  BY <1>1 DEF Proceed
<1> QED
  BY <1>1, <1>2, <1>3, AtStage, DispatchStepOK

LEMMA ReadOobOK == ASSUME IInv, ReadOob PROVE IInv'
<1>1. pc = "dispatch" /\ todo # <<>>
  BY DEF ReadOob, Stage
<1>2. ASSUME cur \notin listening, Handler(cur), Proceed PROVE IInv'
  BY <1>1, <1>2, AtStage, HandlerOK, ProceedOK
<1> QED
  BY <1>1, <1>2, FailedOK DEF ReadOob

LEMMA ConnectExceptionOK == ASSUME IInv, ConnectException PROVE IInv'
BY AtStage, ScheduleOK, ContinueOK DEF ConnectException, Stage

LEMMA ReadOK == ASSUME IInv, Read PROVE IInv'
<1>1. pc = "dispatch" /\ todo # <<>> /\ Head(todo) = "in"
  BY DEF Read, Stage
<1>2. ASSUME cur \in listening, tcp_accept(cur), Proceed PROVE IInv'
  <2>1. Grown
    BY <1>1, <1>2, AtStage, AcceptOK
  <2>2. todo' = Tail(todo)
    BY <1>2 DEF Proceed
  <2> QED
    BY <1>1, <1>2, <2>1, <2>2, AtStage, DispatchStepOK
<1>3. ASSUME cur \notin listening, Received(cur), Proceed PROVE IInv'
  BY <1>1, <1>3, AtStage, ReceivedOK, ProceedOK
<1> QED
  BY <1>1, <1>2, <1>3, FailedOK DEF Read

LEMMA ConnectOK == ASSUME IInv, Connect PROVE IInv'
<1>1. pc = "dispatch" /\ todo # <<>> /\ cur \in connecting
  BY DEF Connect, Stage
<1>2. ASSUME tcp_default_connect(cur), Proceed PROVE IInv'
  <2>1. Grown /\ killed' = killed
    BY <1>1, <1>2, AtStage, DefaultConnectOK DEF tcp_default_connect
  <2>2. todo' = Tail(todo)
    BY <1>2 DEF Proceed
  <2> QED
    BY <1>1, <1>2, <2>1, <2>2, AtStage, DispatchStepOK
<1> QED
  BY <1>1, <1>2, FailedOK DEF Connect

LEMMA WriteOK == ASSUME IInv, Write PROVE IInv'
<1>1. pc = "dispatch" /\ todo # <<>> /\ cur \notin listening
  BY DEF Write, Stage
<1>2. ASSUME Handler(cur), Proceed PROVE IInv'
  BY <1>1, <1>2, AtStage, HandlerOK, ProceedOK
<1> QED
  BY <1>1, <1>2, FailedOK DEF Write

LEMMA ErrorOK == ASSUME IInv, Error PROVE IInv'
<1>1. pc = "dispatch" /\ todo # <<>> /\ Head(todo) = "err" /\ Proceed
  BY DEF Error, Stage
<1>2. Grown
  BY <1>1, AtStage, ScheduleOK DEF Error
<1>3. todo' = Tail(todo)
  BY <1>1 DEF Proceed
<1> QED
  BY <1>1, <1>2, <1>3, AtStage, DispatchStepOK

\* The sweep frees a killed socket.  The connections of a listener are killed
\* with it and have not been visited, so that they are freed as well.
LEMMA SweepOK == ASSUME IInv, NEW s \in Sock, Sweep(s) PROVE IInv'
<1> USE Parts, PartsPrimed
<1>1. /\ pc = "sweep" /\ s \in left /\ s \in enq /\ left \subseteq enq
      /\ pc' = pc /\ cur' = cur /\ todo' = todo /\ nuke' = nuke /\ setup' = setup
  BY DEF Sweep, Visits, Passes, Ctrl, Placed, Walks
<1>2. CtrlInv'
  BY <1>1 DEF CtrlInv
<1>3. ASSUME s \notin killed, Quiet PROVE IInv'
  <2>1. Grown /\ killed' = killed /\ enq' = enq /\ undetected' = undetected /\ parent' = parent
    BY <1>3, QuietOK DEF Quiet, sockVars, flagVars
  <2>2. left' = left \ {s}
    BY <2>1 DEF Sweep, Passes
  <2>3. Sweeping'
    BY <1>1, <1>3, <2>1, <2>2 DEF Placed, Sweeping, ChildrenKilled, SockInv, Grown
  <2>4. Placed'
    BY <1>1, <2>1, <2>2, <2>3 DEF Placed, Dispatching, Walks
  <2> QED
    BY <1>2, <2>1, <2>4 DEF Grown
<1>4. ASSUME s \in killed, svz_sock_shutdown(s) PROVE IInv'
  <2>1. left' = left \ {s}
    BY <1>4 DEF Sweep, Passes, svz_sock_shutdown
  <2>2. /\ SockInv' /\ enq' = enq \ {s} /\ killed \ {s} \subseteq killed'
        /\ \A x \in listening : x \in killed' => x \in killed
        /\ \A x \in undetected' : x \in undetected \ {s} /\
             parent'[x] = IF parent[x] = s THEN NULL ELSE parent[x]
        /\ \A x \in enq' : parent'[x] # NULL => parent'[x] = parent[x]
        /\ listening' = listening \ {s}
    BY <1>1, <1>4, ShutdownOK
  <2>3. ASSUME NEW x \in enq', parent'[x] \in killed' PROVE x \in left'
    <3>1. parent'[x] # NULL /\ x \in Sock
      BY <2>2, <2>3 DEF SockInv
    <3>2. parent[x] \in killed
      BY <2>2, <2>3, <3>1 DEF SockInv, Families
    <3> QED
      BY <1>1, <2>1, <2>2, <3>2 DEF Placed, Sweeping
  <2>4. ASSUME NEW x \in undetected'
        PROVE  parent'[x] \in listening' \/ x \in killed' \cap left'
    <3>1. x \in undetected /\ x # s /\ x \in enq
      BY <2>2 DEF SockInv
    <3>2. CASE parent[x] = s
      BY <1>1, <1>4, <2>1, <2>2, <3>1, <3>2 DEF Placed, Sweeping, SockInv, ChildrenKilled
    <3>3. CASE parent[x] # s
      BY <1>1, <2>1, <2>2, <3>1, <3>3 DEF Placed, Sweeping
    <3> QED
      BY <3>2, <3>3
  <2>5. Sweeping'
    BY <2>3, <2>4 DEF Sweeping
  <2>6. Placed'
    BY <1>1, <2>1, <2>2, <2>5 DEF Placed, Dispatching, Walks
  <2> QED
    BY <1>2, <2>2, <2>6
<1> QED
  BY <1>3, <1>4 DEF Sweep

LEMMA LoopPostOK == ASSUME IInv, NEW s \in Sock, svz_loop_post(s) PROVE IInv'
<1> USE Parts, PartsPrimed
<1>1. pc = "post" /\ s \in enq /\ UNCHANGED ctrlVars
  BY DEF svz_loop_post
<1>2. SockInv'
  BY <1>1, ShutdownOK DEF svz_loop_post
<1>3. CtrlInv' /\ Placed'
  BY <1>1 DEF CtrlInv, Placed, Dispatching, Sweeping, Walks, ctrlVars
<1> QED
  BY <1>2, <1>3

LEMMA NukeOK == ASSUME IInv, Nuke PROVE IInv'
<1> USE Parts, PartsPrimed
<1>1. Grown
  BY QuietOK DEF Nuke, Quiet
<1>2. CtrlInv'
  <2>1. nuke' \in BOOLEAN
    BY Zenon DEF Nuke
  <2> QED
    BY <2>1 DEF Nuke, CtrlInv
<1>3. Placed'
  BY <1>1 DEF Nuke, Placed, Attended, Dispatching, Sweeping, sockVars, flagVars
<1> QED
  BY <1>1, <1>2, <1>3 DEF Grown

LEMMA StutterOK == ASSUME IInv, UNCHANGED vars PROVE IInv'
<1> USE Parts, PartsPrimed
<1>1. Grown
  BY QuietOK DEF vars, Quiet
<1>2. CtrlInv' /\ Placed'
  BY DEF CtrlInv, Placed, Attended, Dispatching, Sweeping, vars, ctrlVars, sockVars, flagVars
<1> QED
  BY <1>1, <1>2 DEF Grown

LEMMA NextOK == ASSUME IInv, [Next]_vars PROVE IInv'
BY PrepareOK, IdleOK, ChildDiedOK, PolledOK, TimedOutOK, PollFailedOK, BeginOK,
   UnreadyOK, ReadOobOK, ConnectExceptionOK, ReadOK, ConnectOK, WriteOK, ErrorOK,
   DispatchEndsOK, IdleEndsOK, RechainOK, SweepOK, LoopPostOK, AgainOK, FinishedOK,
   NukeOK, StutterOK
   DEF Next, Loop

LEMMA Invariance == Spec => []IInv
BY InitOK, NextOK, PTL DEF Spec

-----------------------------------------------------------------------------

\* PointersLive, of every behaviour of svz_loop: neither a walk along the list nor
\* the dispatching of check_sockets_poll or check_sockets_select comes to a socket
\* that was freed, whatever callbacks do to other sockets meanwhile, and idle_protect
\* and svz_sock_detect_proto find the listener of an undetected connection.
THEOREM PointersLiveCorrect == Spec => []PointersLive
BY Invariance, PTL DEF IInv

\* ChildrenKilled, of every behaviour of svz_loop: svz_sock_schedule_for_shutdown of
\* a listener leaves no connection of it behind, be it accepted before or later in
\* the same round.
THEOREM ChildrenKilledCorrect == Spec => []ChildrenKilled
BY Invariance, PTL DEF IInv
=============================================================================
