------------------------------ MODULE SockList ------------------------------
(***************************************************************************)
(* The socket structures of libserveez at pointer level: the doubly linked *)
(* list svz_sock_root .. last_socket, the lookup table socktab indexed by  *)
(* socket id, the (id, version) pairs handed out by svz_sock_unique_id and *)
(* the references (parent, referrer) that sockets keep to each other as    *)
(* such pairs instead of pointers (server-core.c, socket.c).               *)
(*                                                                         *)
(* A structure's address may be reused after svz_sock_free, as may its id; *)
(* only the version distinguishes two lives of one address.  The           *)
(* descriptors of a socket that gets enqueued are valid, so the validity   *)
(* checks of svz_sock_enqueue and dequeue only leave the table checks.     *)
(***************************************************************************)
EXTENDS Integers, Sequences, FiniteSets

CONSTANTS
    Sock,        \* addresses of socket structures
    NULL,        \* the null pointer
    SockLimit,   \* initial size of socktab (1024 in the code)
    MaxVersion   \* bound: number of structures ever created

ASSUME NullAssumption == NULL \notin Sock
\* sock_limit "must be binary size", and has room for the ids 0 and 1.
ASSUME LimitAssumption == SockLimit \in Nat /\ SockLimit >= 2
ASSUME VersionAssumption == MaxVersion \in Nat

VARIABLES
    svz_sock_root, last_socket,          \* ends of the list
    next, prev,                          \* list fields of a structure
    socktab, sock_limit,                 \* lookup table and its size
    sock_id, sock_version,               \* last id and next version given out
    heap,                                \* allocated structures
    id, version,                         \* identity fields of a structure
    enqueued, listening,                 \* SVZ_SOFLG_ENQUEUED, _LISTENING
    floating,                            \* created, not yet enqueued or NULL
    parent, referrer,                    \* <<id, version>> references
    trueParent, trueReferrer             \* history: the structures meant

listVars == <<svz_sock_root, last_socket, next, prev>>
tabVars  == <<socktab, sock_limit, sock_id, sock_version, id, version>>
refVars  == <<parent, referrer, trueParent, trueReferrer>>
vars == <<listVars, tabVars, heap, enqueued, listening, floating, refVars>>

Ptr == Sock \cup {NULL}
Slots == 0..(sock_limit - 1)
Unset == <<0, 0>>         \* the fields of a structure fresh from svz_calloc

NoReferrer == <<-1, -1>>  \* svz_sock_setreferrer (sock, NULL)

-----------------------------------------------------------------------------
(* Lookup *)

\* Mutation: the version is not compared.
svz_sock_find_AnyVersion(i, v) == IF i \notin Slots THEN NULL ELSE socktab[i]

svz_sock_find(i, v) ==
    IF i \notin Slots THEN NULL
    ELSE LET s == socktab[i]
         IN  IF v # -1 /\ s # NULL /\ version[s] # v THEN NULL ELSE s

svz_sock_getparent(s) == svz_sock_find(parent[s][1], parent[s][2])
svz_sock_getreferrer(s) == svz_sock_find(referrer[s][1], referrer[s][2])

\* Masking with sock_limit - 1.
Masked(n) == n % sock_limit

\* The probe of svz_sock_unique_id: the first free slot after sock_id, going
\* round once; a full table is doubled and its first new slot taken.
FreeAfter(i) ==
    /\ socktab[Masked(sock_id + i)] = NULL
    /\ \A j \in 1..(i - 1) : socktab[Masked(sock_id + j)] # NULL

svz_sock_unique_id(s) ==
    /\ \/ \E i \in 1..sock_limit :
            /\ FreeAfter(i)
            /\ sock_id' = Masked(sock_id + i)
            /\ UNCHANGED <<socktab, sock_limit>>
       \/ /\ \A i \in Slots : socktab[i] # NULL
          /\ sock_id' = sock_limit
          /\ sock_limit' = 2 * sock_limit
          /\ socktab' = [i \in 0..(2 * sock_limit - 1) |->
                            IF i \in Slots THEN socktab[i] ELSE NULL]
    /\ id' = [id EXCEPT ![s] = sock_id']
    /\ version' = [version EXCEPT ![s] = sock_version]
    /\ sock_version' = sock_version + 1

-----------------------------------------------------------------------------
(* Operations *)

Init ==
    /\ svz_sock_root = NULL /\ last_socket = NULL
    /\ next = [s \in Sock |-> NULL] /\ prev = [s \in Sock |-> NULL]
    /\ sock_limit = SockLimit
    /\ socktab = [i \in 0..(SockLimit - 1) |-> NULL]
    /\ sock_id = 0 /\ sock_version = 0
    /\ heap = {} /\ enqueued = {} /\ listening = {} /\ floating = NULL
    /\ id = [s \in Sock |-> 0] /\ version = [s \in Sock |-> 0]
    /\ parent = [s \in Sock |-> Unset] /\ referrer = [s \in Sock |-> Unset]
    /\ trueParent = [s \in Sock |-> NULL]
    /\ trueReferrer = [s \in Sock |-> NULL]

\* svz_sock_alloc and svz_sock_unique_id: zeroed memory with an identity.
svz_sock_create(s, isListener) ==
    /\ floating = NULL
    /\ s \notin heap
    /\ sock_version < MaxVersion
    /\ heap' = heap \cup {s}
    /\ floating' = s
    /\ listening' = IF isListener THEN listening \cup {s} ELSE listening
    /\ svz_sock_unique_id(s)
    /\ UNCHANGED <<listVars, enqueued, refVars>>

Refused(s) == socktab[id[s]] # NULL \/ s \in enqueued

svz_sock_enqueue(s) ==
    IF Refused(s)
    THEN UNCHANGED <<listVars, socktab, enqueued>>
    ELSE /\ IF svz_sock_root = NULL
            THEN /\ svz_sock_root' = s
                 /\ next' = [next EXCEPT ![s] = NULL]
                 /\ prev' = [prev EXCEPT ![s] = NULL]
            ELSE /\ next' = [next EXCEPT ![s] = NULL, ![last_socket] = s]
                 /\ prev' = [prev EXCEPT ![s] = last_socket]
                 /\ UNCHANGED svz_sock_root
         /\ last_socket' = s
         /\ enqueued' = enqueued \cup {s}
         /\ socktab' = [socktab EXCEPT ![id[s]] = s]

\* A listener accepts: the new socket is enqueued, then gets its parent.
Accept(p) ==
    /\ floating # NULL /\ floating \notin listening
    /\ p \in enqueued \cap listening
    /\ svz_sock_enqueue(floating)
    /\ parent' = [parent EXCEPT ![floating] = <<id[p], version[p]>>]
    /\ trueParent' = [trueParent EXCEPT ![floating] = p]
    /\ floating' = NULL
    /\ UNCHANGED <<sock_limit, sock_id, sock_version, id, version, heap,
                   listening, referrer, trueReferrer>>

\* Listeners, coservers and outgoing connections are enqueued parentless.
Enqueue ==
    /\ floating # NULL
    /\ svz_sock_enqueue(floating)
    /\ floating' = NULL
    /\ UNCHANGED <<sock_limit, sock_id, sock_version, id, version, heap,
                   listening, refVars>>

\* svz_sock_free: the address is gone, and with it what it was the parent or
\* the referrer of; a later svz_sock_alloc finds zeroed fields there.
svz_sock_free(s) ==
    /\ heap' = heap \ {s}
    /\ listening' = listening \ {s}
    /\ parent' = [parent EXCEPT ![s] = Unset]
    /\ referrer' = [referrer EXCEPT ![s] = Unset]
    /\ trueParent' = [x \in Sock |->
                        IF x = s \/ trueParent[x] = s THEN NULL
                        ELSE trueParent[x]]
    /\ trueReferrer' = [x \in Sock |->
                          IF x = s \/ trueReferrer[x] = s THEN NULL
                          ELSE trueReferrer[x]]

\* Creating failed half way: the structure is freed without being enqueued.
Discard ==
    /\ floating # NULL
    /\ svz_sock_free(floating)
    /\ floating' = NULL
    /\ UNCHANGED <<listVars, tabVars, enqueued>>

\* Mutation: last_socket is not moved back when the last socket leaves.
dequeue_KeepsLast(s) ==
    /\ next' = [x \in Sock |-> IF x = s THEN NULL
                              ELSE IF x = prev[s] THEN next[s] ELSE next[x]]
    /\ prev' = [x \in Sock |-> IF x = s THEN NULL
                              ELSE IF x = next[s] THEN prev[s] ELSE prev[x]]
    /\ svz_sock_root' = IF prev[s] = NULL THEN next[s] ELSE svz_sock_root
    /\ enqueued' = enqueued \ {s}
    /\ socktab' = [socktab EXCEPT ![id[s]] = NULL]
    /\ UNCHANGED last_socket

\* Mutation: the lookup table keeps the entry of the socket that leaves.
dequeue_KeepsEntry(s) ==
    /\ next' = [x \in Sock |-> IF x = s THEN NULL
                              ELSE IF x = prev[s] THEN next[s] ELSE next[x]]
    /\ prev' = [x \in Sock |-> IF x = s THEN NULL
                              ELSE IF x = next[s] THEN prev[s] ELSE prev[x]]
    /\ last_socket' = IF next[s] = NULL THEN prev[s] ELSE last_socket
    /\ svz_sock_root' = IF prev[s] = NULL THEN next[s] ELSE svz_sock_root
    /\ enqueued' = enqueued \ {s}
    /\ UNCHANGED socktab

dequeue(s) ==
    IF socktab[id[s]] = NULL \/ s \notin enqueued
    THEN UNCHANGED <<listVars, socktab, enqueued>>
    ELSE /\ next' = [x \in Sock |->
                       IF x = s THEN NULL
                       ELSE IF x = prev[s] THEN next[s] ELSE next[x]]
         /\ prev' = [x \in Sock |->
                       IF x = s THEN NULL
                       ELSE IF x = next[s] THEN prev[s] ELSE prev[x]]
         /\ last_socket' = IF next[s] = NULL THEN prev[s] ELSE last_socket
         /\ svz_sock_root' = IF prev[s] = NULL THEN next[s] ELSE svz_sock_root
         /\ enqueued' = enqueued \ {s}
         /\ socktab' = [socktab EXCEPT ![id[s]] = NULL]

svz_sock_shutdown(s) ==
    /\ s \in enqueued
    /\ dequeue(s)
    /\ svz_sock_free(s)
    /\ UNCHANGED <<sock_limit, sock_id, sock_version, id, version, floating>>

\* Two sockets made to refer to each other (pipe_accept, shuffle).
SetReferrers(s, t) ==
    /\ s # t
    /\ {s, t} \subseteq enqueued
    /\ referrer' = [referrer EXCEPT ![s] = <<id[t], version[t]>>,
                                    ![t] = <<id[s], version[s]>>]
    /\ trueReferrer' = [trueReferrer EXCEPT ![s] = t, ![t] = s]
    /\ UNCHANGED <<listVars, tabVars, heap, enqueued, listening, floating,
                   parent, trueParent>>

\* The disconnect callbacks clear the reference on both of its ends
\* (disconnect_passthrough, shut_down_referrer).
ClearReferrers(s) ==
    /\ s \in enqueued
    /\ LET x == svz_sock_getreferrer(s)
       IN  /\ x # NULL
           /\ referrer' = [referrer EXCEPT ![s] = NoReferrer,
                                           ![x] = NoReferrer]
           /\ trueReferrer' = [trueReferrer EXCEPT ![s] = NULL, ![x] = NULL]
    /\ UNCHANGED <<listVars, tabVars, heap, enqueued, listening, floating,
                   parent, trueParent>>

\* Mutation: the last two sockets change places.
StopsAt_End(sock, at) == at = prev[sock]

\* Where rechain_list_of_socks stops when it walks from the root: at the root
\* for a listener, else behind the unbroken run of leading listeners.
StopsAt(sock, at) ==
    \/ sock \in listening /\ at = svz_sock_root
    \/ /\ sock \notin listening
       /\ at \notin listening
       /\ \E run \in SUBSET (enqueued \cap listening) :
            /\ IF run = {} THEN at = svz_sock_root ELSE svz_sock_root \in run
            /\ \A r \in run : next[r] \in run \cup {at}

\* The last socket moves in front of the place where the walk stops.
rechain_list_of_socks ==
    /\ last_socket # NULL
    /\ prev[last_socket] # NULL
    /\ \E at \in enqueued :
         LET sock == last_socket
             end_socket == prev[sock]
             before == prev[at]
         IN  /\ StopsAt(sock, at)
             /\ at # sock
             /\ next' = [x \in Sock |->
                           IF x = end_socket THEN NULL
                           ELSE IF x = sock THEN at
                           ELSE IF x = before THEN sock ELSE next[x]]
             /\ prev' = [prev EXCEPT ![sock] = before, ![at] = sock]
             /\ svz_sock_root' = IF before = NULL THEN sock ELSE svz_sock_root
             /\ last_socket' = end_socket
    /\ UNCHANGED <<tabVars, heap, enqueued, listening, floating, refVars>>

Next ==
    \/ \E s \in Sock, l \in BOOLEAN : svz_sock_create(s, l)
    \/ \E p \in Sock : Accept(p)
    \/ Enqueue
    \/ Discard
    \/ \E s \in Sock : svz_sock_shutdown(s)
    \/ \E s, t \in Sock : SetReferrers(s, t)
    \/ \E s \in Sock : ClearReferrers(s)
    \/ rechain_list_of_socks

Spec == Init /\ [][Next]_vars

\* The server loop runs for ever and rechains in 16 of 32 rounds.
FairSpec == Spec /\ WF_vars(rechain_list_of_socks)

-----------------------------------------------------------------------------
(* Properties *)

TypeOK ==
    /\ svz_sock_root \in Ptr /\ last_socket \in Ptr
    /\ next \in [Sock -> Ptr] /\ prev \in [Sock -> Ptr]
    /\ sock_limit \in Nat /\ sock_limit >= SockLimit
    /\ socktab \in [Slots -> Ptr]
    /\ sock_id \in Slots /\ sock_version \in 0..MaxVersion
    /\ heap \subseteq Sock /\ enqueued \subseteq heap /\ listening \subseteq heap
    /\ floating \in heap \cup {NULL} /\ floating \notin enqueued
    /\ id \in [Sock -> Nat] /\ version \in [Sock -> Nat]
    /\ parent \in [Sock -> Int \X Int] /\ referrer \in [Sock -> Int \X Int]
    /\ trueParent \in [Sock -> Ptr] /\ trueReferrer \in [Sock -> Ptr]

\* What validate_list_of_socks asserts of the links before every round of the
\* loop: prev mirrors next, and the ends are svz_sock_root and last_socket.
LinksOK ==
    /\ svz_sock_root \in enqueued \cup {NULL}
    /\ last_socket \in enqueued \cup {NULL}
    /\ (svz_sock_root = NULL) <=> (enqueued = {})
    /\ (last_socket = NULL) <=> (enqueued = {})
    /\ \A s \in enqueued :
         /\ next[s] \in enqueued \cup {NULL}
         /\ prev[s] \in enqueued \cup {NULL}
         /\ (prev[s] = NULL) <=> (s = svz_sock_root)
         /\ (next[s] = NULL) <=> (s = last_socket)
         /\ next[s] # NULL => prev[next[s]] = s
         /\ prev[s] # NULL => next[prev[s]] = s

\* "lookup table corrupted" (validate_list_of_socks) never happens: socktab
\* holds exactly the enqueued sockets, each under its own id.
TableOK ==
    /\ \A s \in enqueued : id[s] \in Slots /\ socktab[id[s]] = s
    /\ \A i \in Slots : socktab[i] # NULL =>
                            socktab[i] \in enqueued /\ id[socktab[i]] = i

\* The id of a socket that waits to be enqueued is not taken meanwhile, so
\* svz_sock_enqueue never refuses and, as its callers ignore the result, no
\* structure is left allocated outside of the list.
IdReserved ==
    /\ floating # NULL => id[floating] \in Slots /\ socktab[id[floating]] = NULL
    /\ heap \subseteq enqueued \cup {floating}

\* A parent reference resolves to the very structure that accepted the socket
\* while that one is enqueued, and to NULL afterwards or when there was none,
\* however often ids and addresses were reused (svz_sock_getparent).
ParentExact == \A s \in heap : svz_sock_getparent(s) = trueParent[s]

\* The same for the referrer, which may also have been cleared.
ReferrerExact == \A s \in heap : svz_sock_getreferrer(s) = trueReferrer[s]

\* What svz_sock_foreach meets when it goes from root along the next fields,
\* and the walk of that kind which passes as many sockets as there are.
IsWalk(q, root, nxt) ==
    /\ root = IF q = <<>> THEN NULL ELSE q[1]
    /\ \A i \in DOMAIN q : nxt[q[i]] = IF i = Len(q) THEN NULL ELSE q[i + 1]

Walk(socks, root, nxt) ==
    CHOOSE q \in [1..Cardinality(socks) -> socks] : IsWalk(q, root, nxt)

Chain == Walk(enqueued, svz_sock_root, next)

Queue == INSTANCE SockQueue
         WITH queue <- Chain, listening <- listening \cap enqueued

\* The pointer operations implement the queue: a walk from svz_sock_root meets
\* every enqueued socket once, in the order SockQueue prescribes.
ImplementsQueue == Queue!QSpec

\* Only listeners come before s.
InFront(s) ==
    \E run \in SUBSET (enqueued \cap listening) :
        /\ svz_sock_root \in run \cup {s}
        /\ \A r \in run : next[r] \in run \cup {s}

\* rechain_list_of_socks is there "to prevent sockets from starving at the end of
\* this list": a connected socket that stays gets to the place behind the listeners
\* again and again, unless others join for ever.  If they do, each round may move
\* a newcomer forward that leaves again, and the old socket stays behind.
NoStarvation ==
    \A s \in Sock :
        <>[](s \in enqueued \ listening) =>
            []<>InFront(s) \/ []<><<~(enqueued' \subseteq enqueued)>>_vars
=============================================================================
