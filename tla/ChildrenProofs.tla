--------------------------- MODULE ChildrenProofs ---------------------------
(***************************************************************************)
(* WaitsForChild for any number of sockets and processes.  A listener      *)
(* reads again when check_child_died says so; that this means its own      *)
(* child needs the id in svz_child_died to be one that was collected       *)
(* (Reported), the recorded id to be the child's (Recorded), and a child   *)
(* to stay in the process table until it is collected (Started).           *)
(***************************************************************************)
EXTENDS Children, TLAPS

\* The id a signal left behind belongs to a process that was collected.
Reported == svz_child_died \in Proc => proc[svz_child_died] = "gone"

\* A listener has recorded its own child, if any.
Recorded == \A s \in Udp : pid[s] # Invalid => pid[s] = child[s]

\* What was started for a socket is a process, alive, dead or collected.
Started == \A s \in Sock : child[s] \in Proc => proc[child[s]] # "unused"

\* A listener that reads has no program, or one that was collected.
Idle == \A s \in reading : child[s] \in Proc => proc[child[s]] = "gone"

IInv == TypeOK /\ Reported /\ Recorded /\ Started /\ Idle

USE DEF Sock

LEMMA InitOK == Init => IInv
BY ValuesAssumption
   DEF Init, IInv, TypeOK, Reported, Recorded, Started, Idle, Alive

\* What a process may become: it is never unused again, and once collected it
\* stays so.
Ages(p) ==
    /\ proc[p] # "unused" => proc'[p] # "unused"
    /\ proc[p] = "gone" => proc'[p] = "gone"

\* A step that keeps the sockets' records preserves the invariant if processes
\* only age and what it reports was collected.
LEMMA KeepsRecords ==
  ASSUME IInv, TypeOK', \A p \in Proc : Ages(p),
         svz_child_died' \in Proc => proc'[svz_child_died'] = "gone",
         child' = child, reading' = reading,
         \A s \in Udp : pid'[s] = pid[s] \/ pid'[s] = Invalid
  PROVE  IInv'
<1>1. Reported'
  BY DEF Reported
<1>2. Recorded'
  BY DEF IInv, Recorded
<1>3. Started'
  BY DEF IInv, Started, Ages
<1>4. Idle'
  BY DEF IInv, Idle, Ages
<1> QED
  BY <1>1, <1>2, <1>3, <1>4 DEF IInv

\* waitpid collects dead processes only.
LEMMA WaitedAges ==
  ASSUME TypeOK, NEW w \in Proc \cup {Invalid}, Waited(w)
  PROVE  /\ proc' \in [Proc -> {"unused", "running", "zombie", "gone"}]
         /\ \A p \in Proc : Ages(p)
         /\ \A p \in Alive : proc'[p] = "running"
BY DEF TypeOK, Waited, Zombies, Alive, Ages

LEMMA ExitOK == ASSUME IInv, NEW p \in Proc, Exit(p) PROVE IInv'
<1>1. TypeOK'
  BY DEF IInv, TypeOK, Exit, sockVars, ctrlVars, Alive
<1>2. \A q \in Proc : Ages(q)
  BY DEF IInv, TypeOK, Exit, Ages
<1> QED
  BY <1>1, <1>2, KeepsRecords DEF Exit, sockVars, IInv, Reported, Ages

LEMMA StopOK == ASSUME IInv, NEW p \in Proc, Stop(p) PROVE IInv'
<1>1. TypeOK'
  BY DEF IInv, TypeOK, Stop, sockVars, ctrlVars, Alive
<1>2. \A q \in Proc : Ages(q)
  BY DEF Stop, Ages
<1> QED
  BY <1>1, <1>2, KeepsRecords DEF Stop, sockVars, IInv, Reported

LEMMA SignalOK == ASSUME IInv, handle_signal PROVE IInv'
<1> USE DEF handle_signal, sockVars, ctrlVars
<1>1. ASSUME NEW z \in Zombies, proc' = [proc EXCEPT ![z] = "gone"],
             svz_child_died' = z, UNCHANGED stopped
      PROVE  IInv'
  <2>1. TypeOK'
    BY <1>1 DEF IInv, TypeOK, Zombies, Alive
  <2>2. \A q \in Proc : Ages(q)
    BY <1>1 DEF IInv, TypeOK, Ages, Zombies
  <2>3. svz_child_died' \in Proc => proc'[svz_child_died'] = "gone"
    BY <1>1 DEF IInv, TypeOK, Zombies
  <2> QED
    BY <2>1, <2>2, <2>3, KeepsRecords
<1>2. ASSUME NEW p \in stopped, stopped' = stopped \ {p},
             UNCHANGED <<proc, svz_child_died>>
      PROVE  IInv'
  <2>1. TypeOK'
    BY <1>2 DEF IInv, TypeOK, Alive
  <2>2. \A q \in Proc : Ages(q)
    BY <1>2 DEF Ages
  <2> QED
    BY <1>2, <2>1, <2>2, KeepsRecords DEF IInv, Reported
<1>3. ASSUME svz_child_died' \in Unreported, UNCHANGED <<proc, stopped>>
      PROVE  IInv'
  <2>1. svz_child_died' \in {svz_child_died, None}
    BY <1>3 DEF Unreported
  <2>2. TypeOK'
    BY <1>3, <2>1 DEF IInv, TypeOK, Alive
  <2>3. \A q \in Proc : Ages(q)
    BY <1>3 DEF Ages
  <2> QED
    BY <1>3, <2>1, <2>2, <2>3, KeepsRecords, ValuesAssumption DEF IInv, Reported
<1> QED
  BY <1>1, <1>2, <1>3

\* A process that is started was unused, so nobody's child, and not reported.
LEMMA ForkOK ==
  ASSUME IInv, NEW s \in Sock, NEW p \in Proc, Forked(s, p),
         reading' = reading \ {s}, open' \subseteq Cgi \cup Shuffle
  PROVE  IInv'
<1> USE DEF Forked, ctrlVars
<1>1. TypeOK'
  BY DEF IInv, TypeOK, Alive
<1>2. Reported'
  BY DEF IInv, TypeOK, Reported
<1>3. Recorded'
  BY DEF IInv, TypeOK, Recorded
<1>4. Started'
  BY DEF IInv, TypeOK, Started
<1>5. Idle'
  <2> SUFFICES ASSUME NEW t \in reading', child'[t] \in Proc
               PROVE  proc'[child'[t]] = "gone"
    BY DEF Idle
  <2>1. t \in reading /\ t # s /\ child'[t] = child[t]
    BY DEF IInv, TypeOK
  <2>2. proc[child[t]] = "gone"
    BY <2>1 DEF IInv, Idle
  <2> QED
    BY <2>1, <2>2 DEF IInv, TypeOK
<1> QED
  BY <1>1, <1>2, <1>3, <1>4, <1>5 DEF IInv

LEMMA StartsOK ==
  ASSUME IInv, NEW s \in Sock, NEW p \in Proc,
         prog_read_socket(s, p) \/ Start(s, p)
  PROVE  IInv'
<1>1. reading' = reading \ {s} /\ open' \subseteq Cgi \cup Shuffle
  BY RolesAssumption DEF prog_read_socket, Start, IInv, TypeOK
<1> QED
  BY <1>1, ForkOK DEF prog_read_socket, Start

LEMMA EndsOK ==
  ASSUME IInv, NEW s \in Sock, EndShuffle(s) \/ http_cgi_disconnect(s)
  PROVE  IInv'
<1>1. CASE EndShuffle(s)
  <2>1. TypeOK'
    BY <1>1 DEF IInv, TypeOK, EndShuffle, osVars, ctrlVars, Alive
  <2>2. \A q \in Proc : Ages(q)
    BY <1>1 DEF EndShuffle, osVars, Ages
  <2>3. \A t \in Udp : pid'[t] = pid[t] \/ pid'[t] = Invalid
    BY <1>1 DEF EndShuffle, IInv, TypeOK
  <2> QED
    BY <1>1, <2>1, <2>2, <2>3, KeepsRecords
       DEF EndShuffle, osVars, IInv, Reported
<1>2. CASE http_cgi_disconnect(s)
  <2>1. \A t \in Udp : pid'[t] = pid[t] \/ pid'[t] = Invalid
    BY <1>2 DEF http_cgi_disconnect, IInv, TypeOK
  <2>2. CASE pid[s] \in Zombies \cup Alive
    <3>1. pid[s] \in Proc
      BY <2>2 DEF Zombies, Alive
    <3>2. TypeOK'
      BY <1>2, <2>2, <3>1 DEF http_cgi_disconnect, IInv, TypeOK, ctrlVars, Alive
    <3>3. \A q \in Proc : Ages(q)
      BY <1>2, <2>2, <3>1 DEF http_cgi_disconnect, IInv, TypeOK, Ages
    <3>4. svz_child_died' \in Proc => proc'[svz_child_died'] = "gone"
      BY <1>2, <2>2, <3>1 DEF http_cgi_disconnect, IInv, TypeOK, Reported
    <3> QED
      BY <1>2, <2>1, <3>2, <3>3, <3>4, KeepsRecords DEF http_cgi_disconnect
  <2>3. CASE pid[s] \notin Zombies \cup Alive
    <3>1. TypeOK'
      BY <1>2, <2>3
         DEF http_cgi_disconnect, IInv, TypeOK, osVars, ctrlVars, Alive
    <3>2. \A q \in Proc : Ages(q)
      BY <1>2, <2>3 DEF http_cgi_disconnect, osVars, Ages
    <3> QED
      BY <1>2, <2>1, <2>3, <3>1, <3>2, KeepsRecords
         DEF http_cgi_disconnect, osVars, IInv, Reported
  <2> QED
    BY <2>2, <2>3
<1> QED
  BY <1>1, <1>2

LEMMA GotoOK ==
  ASSUME IInv, NEW p \in {"sockets", "idle", "children"},
         NEW walk \in SUBSET Sock, Goto(p, walk)
  PROVE  IInv'
<1> USE DEF Goto, osVars, sockVars
<1>1. TypeOK'
  BY DEF IInv, TypeOK, Alive
<1>2. \A q \in Proc : Ages(q)
  BY DEF Ages
<1> QED
  BY <1>1, <1>2, KeepsRecords DEF IInv, Reported

LEMMA IdleFunctionsOK ==
  ASSUME IInv, NEW s \in Sock, http_cgi_died(s) \/ mind_children(s)
  PROVE  IInv'
<1> USE DEF Visits
<1>1. /\ proc' \in [Proc -> {"unused", "running", "zombie", "gone"}]
      /\ \A p \in Proc : Ages(p)
      /\ \A p \in Alive : proc'[p] = "running"
  <2>1. CASE Waited(pid[s])
    BY <2>1, WaitedAges DEF IInv, TypeOK
  <2>2. CASE proc' = proc
    BY <2>2 DEF IInv, TypeOK, Ages, Alive
  <2> QED
    BY <2>1, <2>2 DEF http_cgi_died, mind_children
<1>2. svz_child_died' \in {svz_child_died, None}
  BY DEF http_cgi_died, mind_children
<1>3. pid' \in [Sock -> Proc \cup {Invalid}]
      /\ \A t \in Udp : pid'[t] = pid[t] \/ pid'[t] = Invalid
  BY DEF http_cgi_died, mind_children, IInv, TypeOK
<1>4. open' \subseteq Cgi \cup Shuffle
  BY DEF http_cgi_died, mind_children, IInv, TypeOK
<1>5. UNCHANGED <<reading, pc, stopped, sigchld, child>>
      /\ left' \subseteq Sock
  BY DEF http_cgi_died, mind_children, IInv, TypeOK
<1>6. TypeOK'
  BY <1>1, <1>2, <1>3, <1>4, <1>5 DEF IInv, TypeOK, Alive
<1>7. svz_child_died' \in Proc => proc'[svz_child_died'] = "gone"
  BY <1>1, <1>2, ValuesAssumption DEF IInv, Reported, Ages
<1> QED
  BY <1>1, <1>3, <1>5, <1>6, <1>7, KeepsRecords

LEMMA CheckOK == ASSUME IInv, NEW s \in Sock, check_children(s) PROVE IInv'
<1> USE DEF check_children, Visits
<1>1. CASE s \in Cgi \/ pid[s] = Invalid
  <2>1. TypeOK'
    BY <1>1 DEF IInv, TypeOK, Alive
  <2>2. \A q \in Proc : Ages(q)
    BY <1>1 DEF Ages
  <2> QED
    BY <1>1, <2>1, <2>2, KeepsRecords DEF IInv, Reported
<1>2. CASE ~(s \in Cgi \/ pid[s] = Invalid) /\ check_child_died(s)
  <2>1. pid[s] \in Proc /\ proc' = proc
    BY <1>2 DEF IInv, TypeOK
  <2>2. TypeOK'
    BY <1>2 DEF IInv, TypeOK, Alive
  <2>3. Reported' /\ Recorded' /\ Started'
    BY <1>2, <2>1 DEF IInv, TypeOK, Reported, Recorded, Started
  <2>4. Idle'
    <3> SUFFICES ASSUME NEW t \in reading', child'[t] \in Proc
                 PROVE  proc'[child'[t]] = "gone"
      BY DEF Idle
    <3>1. CASE t \in reading
      BY <3>1, <2>1 DEF IInv, Idle
    <3>2. CASE t \notin reading
      <4>1. t = s /\ s \in Udp
        BY <1>2, <3>2
      <4>2. child[s] = pid[s]
        BY <1>2, <4>1 DEF IInv, Recorded
      <4>3. CASE svz_child_died = pid[s]
        BY <2>1, <4>1, <4>2, <4>3 DEF IInv, Reported
      <4>4. CASE NoChild(pid[s])
        <5>1. pid[s] \notin Zombies \cup Alive
          BY <1>2, <4>4 DEF NoChild
        <5>2. proc[pid[s]] # "unused"
          BY <2>1, <4>2 DEF IInv, Started
        <5> QED
          BY <2>1, <4>1, <4>2, <5>1, <5>2 DEF IInv, TypeOK, Zombies, Alive
      <4> QED
        BY <1>2, <4>3, <4>4 DEF check_child_died
    <3> QED
      BY <3>1, <3>2
  <2> QED
    BY <2>2, <2>3, <2>4 DEF IInv
<1>3. CASE ~(s \in Cgi \/ pid[s] = Invalid) /\ ~check_child_died(s)
  <2>1. Waited(pid[s]) /\ UNCHANGED <<pid, reading>>
    BY <1>3
  <2>2. /\ proc' \in [Proc -> {"unused", "running", "zombie", "gone"}]
        /\ \A p \in Proc : Ages(p)
        /\ \A p \in Alive : proc'[p] = "running"
    BY <2>1, WaitedAges DEF IInv, TypeOK
  <2>3. TypeOK'
    BY <2>1, <2>2 DEF IInv, TypeOK, Alive
  <2> QED
    BY <2>1, <2>2, <2>3, KeepsRecords DEF IInv, Reported, Ages
<1> QED
  BY <1>1, <1>2, <1>3

LEMMA ForgetOK == ASSUME IInv, Forget PROVE IInv'
<1> USE DEF Forget, osVars, sockVars
<1>1. TypeOK'
  BY DEF IInv, TypeOK, Alive
<1>2. \A q \in Proc : Ages(q)
  BY DEF Ages
<1> QED
  BY <1>1, <1>2, KeepsRecords, ValuesAssumption

LEMMA StepOK == IInv /\ [Next]_vars => IInv'
<1> SUFFICES ASSUME IInv, [Next]_vars PROVE IInv'
  OBVIOUS
<1>1. ASSUME NEW p \in Proc, Exit(p) \/ Stop(p) PROVE IInv'
  BY <1>1, ExitOK, StopOK
<1>2. CASE handle_signal
  BY <1>2, SignalOK
<1>3. ASSUME NEW s \in Sock, NEW p \in Proc,
             prog_read_socket(s, p) \/ Start(s, p)
      PROVE  IInv'
  BY <1>3, StartsOK
<1>4. ASSUME NEW s \in Sock, EndShuffle(s) \/ http_cgi_disconnect(s)
      PROVE  IInv'
  BY <1>4, EndsOK
<1>5. CASE Periodic \/ NoPeriodic \/ IdleEnds
  BY <1>5, GotoOK DEF Periodic, NoPeriodic, IdleEnds
<1>6. CASE Forget
  BY <1>6, ForgetOK
<1>7. ASSUME NEW s \in Sock,
             http_cgi_died(s) \/ mind_children(s) \/ check_children(s)
      PROVE  IInv'
  BY <1>7, IdleFunctionsOK, CheckOK
<1>8. CASE UNCHANGED vars
  BY <1>8 DEF vars, osVars, sockVars, ctrlVars, IInv, TypeOK, Reported,
              Recorded, Started, Idle, Alive
<1> QED
  BY <1>1, <1>2, <1>3, <1>4, <1>5, <1>6, <1>7, <1>8 DEF Next, Walk

\* Whatever the signal handler reports and however its calls fall between the
\* steps of the loop, a listener of a single-threaded prog server reads again
\* only when the program it started is gone.
THEOREM WaitsForChildCorrect == Spec => [](TypeOK /\ WaitsForChild)
<1>1. IInv => TypeOK /\ WaitsForChild
  <2> SUFFICES ASSUME IInv PROVE TypeOK /\ WaitsForChild
    OBVIOUS
  <2>1. ASSUME NEW s \in reading PROVE child[s] \notin Alive
    BY DEF IInv, Idle, Alive
  <2> QED
    BY <2>1 DEF IInv, WaitsForChild
<1> QED
  BY <1>1, InitOK, StepOK, PTL DEF Spec
=============================================================================
