------------------------------ MODULE SockQueue ------------------------------
(***************************************************************************)
(* What the socket list of server-core.c promises to the server loop, with *)
(* no pointers: the enqueued socket structures form a sequence without     *)
(* repetitions, a new one goes to its end, any one may be taken out, and   *)
(* rechaining moves the last one forward so that nobody starves at the     *)
(* end.  SockList implements this specification.                           *)
(***************************************************************************)
EXTENDS Naturals, Sequences, SequencesExt

CONSTANT Sock

VARIABLES
    queue,      \* the enqueued sockets, svz_sock_root first
    listening   \* the sockets with SVZ_SOFLG_LISTENING

qvars == <<queue, listening>>

Queued == {queue[i] : i \in DOMAIN queue}

\* The number of listeners that lead the queue without a gap.
LeadingListeners ==
    CHOOSE k \in 0..Len(queue) :
        /\ \A i \in 1..k : queue[i] \in listening
        /\ k = Len(queue) \/ queue[k + 1] \notin listening

\* The last socket in the place behind the listeners, a listener in the first.
Rotated ==
    LET s == queue[Len(queue)]
        k == IF s \in listening THEN 0 ELSE LeadingListeners
    IN  InsertAt(Front(queue), k + 1, s)

QInit == queue = <<>> /\ listening = {}

Join(s) ==
    /\ s \notin Queued
    /\ queue' = Append(queue, s)
    /\ \/ listening' = listening \cup {s}
       \/ listening' = listening \ {s}

Leave(s) ==
    /\ \E i \in DOMAIN queue : queue[i] = s /\ queue' = RemoveAt(queue, i)
    /\ listening' = listening \ {s}

Rotate ==
    /\ Len(queue) > 1
    /\ queue' = Rotated
    /\ UNCHANGED listening

QNext ==
    \/ \E s \in Sock : Join(s) \/ Leave(s)
    \/ Rotate

QSpec == QInit /\ [][QNext]_qvars
=============================================================================
