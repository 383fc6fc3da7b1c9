------------------------------ MODULE Children ------------------------------
(***************************************************************************)
(* Child processes and who learns of their death.  The SIGCHLD handler     *)
(* (handle_signal, server-core.c) collects one child and leaves its id in  *)
(* svz_child_died; check_children, run once a round, tells the sockets     *)
(* that recorded the id of a child; mind_children (passthrough.c) and      *)
(* http_cgi_died (http-cgi.c) look for their own once a second.            *)
(*                                                                         *)
(* Signals are not queued, so one call of the handler may stand for        *)
(* several deaths, and it may interrupt the loop between any two steps.    *)
(* waitpid takes effect on the table of processes, and only the first to   *)
(* wait for a dead child gets its id; ECHILD is what the others see.       *)
(* Sockets are UDP listeners of a single-threaded prog server that forks,  *)
(* HTTP connections with a CGI script, and passed-through connections; the *)
(* two structures of the latter record the same id and are taken as one.   *)
(* Every element of Proc is forked once: an id is not handed out again.    *)
(***************************************************************************)
EXTENDS Naturals, FiniteSets

CONSTANTS
    Proc,       \* ids of processes
    Udp,        \* UDP listeners of a prog server
    Cgi,        \* connections of an HTTP server
    Shuffle,    \* passed-through connections of a prog server
    None,       \* svz_child_died = 0
    Invalid     \* INVALID_HANDLE, -1

ASSUME ValuesAssumption == None \notin Proc /\ Invalid \notin Proc
ASSUME RolesAssumption ==
    Udp \cap Cgi = {} /\ Udp \cap Shuffle = {} /\ Cgi \cap Shuffle = {}

VARIABLES
    proc,             \* the operating system's view of each process
    stopped,          \* children whose stopping was not yet reported
    sigchld,          \* SIGCHLD is pending
    svz_child_died,
    pid,              \* sock->pid, or http->pid of a CGI connection
    reading,          \* listeners whose read_socket is prog_read_socket
    open,             \* connections in use
    child,            \* history: the process last started for a socket
    pc, left          \* where the loop is, and what a pass has to visit

osVars == <<proc, stopped, sigchld>>
sockVars == <<pid, reading, open, child>>
ctrlVars == <<pc, left>>
vars == <<osVars, svz_child_died, sockVars, ctrlVars>>

Sock == Udp \cup Cgi \cup Shuffle
Zombies == {p \in Proc : proc[p] = "zombie"}
Alive == {p \in Proc : proc[p] = "running"}

Init ==
    /\ proc = [p \in Proc |-> "unused"] /\ stopped = {} /\ sigchld = FALSE
    /\ svz_child_died = None
    /\ pid = [s \in Sock |-> Invalid] /\ child = [s \in Sock |-> None]
    /\ reading = Udp /\ open = {}
    /\ pc = "sockets" /\ left = {}

-----------------------------------------------------------------------------
(* Processes and the signal handler *)

Exit(p) ==
    /\ proc[p] = "running"
    /\ proc' = [proc EXCEPT ![p] = "zombie"]
    /\ stopped' = stopped \ {p} /\ sigchld' = TRUE
    /\ UNCHANGED <<svz_child_died, sockVars, ctrlVars>>

Stop(p) ==
    /\ proc[p] = "running" /\ p \notin stopped
    /\ stopped' = stopped \cup {p} /\ sigchld' = TRUE
    /\ UNCHANGED <<proc, svz_child_died, sockVars, ctrlVars>>

\* The values of svz_child_died if nobody is to be reported: waitpid fails
\* without children, otherwise it returns zero and does not set status, so
\* what WIFSTOPPED makes of that is open.
Unreported == {svz_child_died} \cup (IF Alive = {} THEN {} ELSE {None})

\* waitpid (-1, &status, WNOHANG | WUNTRACED) reports one child.
handle_signal ==
    /\ sigchld /\ sigchld' = FALSE
    /\ \/ \E z \in Zombies :
            /\ proc' = [proc EXCEPT ![z] = "gone"]
            /\ svz_child_died' = z
            /\ UNCHANGED stopped
       \/ \E p \in stopped :
            /\ stopped' = stopped \ {p}
            /\ UNCHANGED <<proc, svz_child_died>>
       \/ /\ Zombies = {} /\ stopped = {}
          /\ svz_child_died' \in Unreported
          /\ UNCHANGED <<proc, stopped>>
    /\ UNCHANGED <<sockVars, ctrlVars>>

\* waitpid (w, NULL, WNOHANG): a dead process is collected, any one of them if
\* w is -1.
Waited(w) ==
    IF w = Invalid
    THEN \/ Zombies = {} /\ UNCHANGED proc
         \/ \E z \in Zombies : proc' = [proc EXCEPT ![z] = "gone"]
    ELSE proc' = IF w \in Zombies THEN [proc EXCEPT ![w] = "gone"] ELSE proc

\* That call fails with ECHILD.
NoChild(w) ==
    IF w = Invalid THEN Zombies \cup Alive = {}
                   ELSE w \notin Zombies \cup Alive

-----------------------------------------------------------------------------
(* Starting programs and giving them up *)

Forked(s, p) ==
    /\ pc = "sockets" /\ proc[p] = "unused"
    /\ proc' = [proc EXCEPT ![p] = "running"]
    /\ pid' = [pid EXCEPT ![s] = p] /\ child' = [child EXCEPT ![s] = p]
    /\ UNCHANGED <<stopped, sigchld, svz_child_died, ctrlVars>>

\* A packet arrives: the program is to read it from the listener's descriptor,
\* and the listener waits for the program to die.
prog_read_socket(s, p) ==
    /\ s \in Udp \cap reading
    /\ Forked(s, p)
    /\ reading' = reading \ {s} /\ UNCHANGED open

\* A request for a CGI script, or a connection that is passed through.
Start(s, p) ==
    /\ s \in (Cgi \cup Shuffle) \ open
    /\ Forked(s, p)
    /\ open' = open \cup {s} /\ UNCHANGED reading

\* A passed-through connection ends; its process is left alone.
EndShuffle(s) ==
    /\ pc = "sockets" /\ s \in Shuffle \cap open
    /\ open' = open \ {s} /\ pid' = [pid EXCEPT ![s] = Invalid]
    /\ UNCHANGED <<osVars, svz_child_died, reading, child, ctrlVars>>

\* The connection ends: the script is killed and waited for.  The signal this
\* causes may be handled before waitpid is called or after it.  An id that was
\* collected before is sent SIGKILL too, which nobody in the model receives.
http_cgi_disconnect(s) ==
    /\ pc = "sockets" /\ s \in Cgi \cap open
    /\ open' = open \ {s} /\ pid' = [pid EXCEPT ![s] = Invalid]
    /\ IF pid[s] \in Zombies \cup Alive
       THEN /\ proc' = [proc EXCEPT ![pid[s]] = "gone"]
            /\ stopped' = stopped \ {pid[s]}
            /\ sigchld' \in {sigchld, TRUE}
            /\ svz_child_died' \in {svz_child_died, pid[s]}
       ELSE UNCHANGED <<osVars, svz_child_died>>
    /\ UNCHANGED <<reading, child, ctrlVars>>

-----------------------------------------------------------------------------
(* The loop *)

Goto(p, walk) ==
    /\ pc' = p /\ left' = walk
    /\ UNCHANGED <<osVars, svz_child_died, sockVars>>

Visits(p, s) ==
    /\ pc = p /\ s \in left
    /\ left' = left \ {s} /\ UNCHANGED <<pc, stopped, sigchld, child>>

\* svz_periodic_tasks are due, or they are not.
Periodic == pc = "sockets" /\ Goto("idle", Cgi \cup Shuffle)
NoPeriodic == pc = "sockets" /\ Goto("children", Sock)

http_cgi_died(s) ==
    /\ Visits("idle", s) /\ s \in Cgi
    /\ IF s \in open
       THEN /\ svz_child_died' =
                 IF svz_child_died = pid[s] THEN None ELSE svz_child_died
            /\ Waited(pid[s])
            /\ pid' = IF pid[s] \in Zombies THEN [pid EXCEPT ![s] = Invalid]
                                            ELSE pid
       ELSE UNCHANGED <<proc, svz_child_died, pid>>
    /\ UNCHANGED <<reading, open>>

mind_children(s) ==
    /\ Visits("idle", s) /\ s \in Shuffle
    /\ IF s \in open /\ NoChild(pid[s])
       THEN /\ open' = open \ {s} /\ pid' = [pid EXCEPT ![s] = Invalid]
            /\ UNCHANGED proc
       ELSE /\ IF s \in open THEN Waited(pid[s]) ELSE UNCHANGED proc
            /\ UNCHANGED <<open, pid>>
    /\ UNCHANGED <<svz_child_died, reading>>

IdleEnds == pc = "idle" /\ left = {} /\ Goto("children", Sock)

\* Mutation: any death counts.
check_child_died_Any(s) == svz_child_died # None \/ NoChild(pid[s])

\* Mutation: only the last death that was signalled counts.
check_child_died_Signalled(s) == svz_child_died = pid[s]

check_child_died(s) == svz_child_died = pid[s] \/ NoChild(pid[s])

\* A socket that recorded a child learns of its death; prog_child_died lets the
\* listener read again.  HTTP connections do not use sock->pid.
check_children(s) ==
    /\ Visits("children", s)
    /\ IF s \in Cgi \/ pid[s] = Invalid
       THEN UNCHANGED <<proc, pid, reading>>
       ELSE IF check_child_died(s)
       THEN /\ pid' = [pid EXCEPT ![s] = Invalid]
            /\ reading' = reading \cup ({s} \cap Udp)
            /\ UNCHANGED proc
       ELSE Waited(pid[s]) /\ UNCHANGED <<pid, reading>>
    /\ UNCHANGED <<svz_child_died, open>>

\* Behind check_children the id is logged and forgotten.
Forget ==
    /\ pc = "children" /\ left = {}
    /\ svz_child_died' = None
    /\ pc' = "sockets" /\ left' = {}
    /\ UNCHANGED <<osVars, sockVars>>

Walk ==
    \/ NoPeriodic \/ IdleEnds \/ Forget
    \/ \E s \in Sock : http_cgi_died(s) \/ mind_children(s) \/ check_children(s)

Next ==
    \/ \E p \in Proc : Exit(p) \/ Stop(p)
    \/ handle_signal
    \/ \E s \in Sock, p \in Proc : prog_read_socket(s, p) \/ Start(s, p)
    \/ \E s \in Sock : EndShuffle(s) \/ http_cgi_disconnect(s)
    \/ Periodic \/ Walk

Spec == Init /\ [][Next]_vars

\* Signals are delivered, the loop goes round, and time passes, so that the
\* periodic tasks are due again and again.  No process has to exit.
FairSpec ==
    Spec /\ WF_vars(handle_signal) /\ WF_vars(Walk) /\ SF_vars(Periodic)

-----------------------------------------------------------------------------
(* Properties *)

TypeOK ==
    /\ proc \in [Proc -> {"unused", "running", "zombie", "gone"}]
    /\ stopped \subseteq Alive /\ sigchld \in BOOLEAN
    /\ svz_child_died \in Proc \cup {None}
    /\ pid \in [Sock -> Proc \cup {Invalid}]
    /\ child \in [Sock -> Proc \cup {None}]
    /\ reading \subseteq Udp /\ open \subseteq Cgi \cup Shuffle
    /\ pc \in {"sockets", "idle", "children"} /\ left \subseteq Sock

\* "Disable the read callback and wait for the child process to die": a
\* listener that reads again has no program left that reads from its
\* descriptor as well, whichever deaths were signalled meanwhile.
WaitsForChild == \A s \in reading : child[s] \notin Alive

\* And it does read again once its program is dead, even if the one SIGCHLD
\* reported another child, or its id was overwritten or forgotten.
ReadsAgain ==
    \A s \in Udp, p \in Proc :
        (child[s] = p /\ proc[p] \in {"zombie", "gone"}) ~>
            (s \in reading \/ child[s] # p)

\* No dead child is left uncollected while a socket has its id recorded,
\* although one signal may stand for several deaths.
Collected ==
    \A s \in Sock, p \in Proc :
        (pid[s] = p /\ p \in Zombies) ~> (p \notin Zombies \/ pid[s] # p)

\* A passed-through connection is given up when its program died and no other
\* child is left.
GivenUp ==
    \A s \in Shuffle :
        (s \in open /\ child[s] \notin Alive) ~>
            (s \notin open \/ Alive # {} \/ child[s] \in Alive)

\* svz_child_died, the calls of waitpid and the periodic checks together notice the
\* deaths that a listener waits for and those of children that are recorded; those of
\* passed-through programs once there is no other child (see Minded).
DeathsNoticed == ReadsAgain /\ Collected /\ GivenUp

\* What is said of mind_children: "If not [still valid] it schedules the connection for
\* shutdown".  It does not if check_children learnt of the death first, and has
\* invalidated the recorded id: waitpid then waits for any child, and one is alive.
Minded ==
    \A s \in Shuffle :
        (s \in open /\ child[s] \notin Alive) ~> (s \notin open \/ child[s] \in Alive)
=============================================================================
