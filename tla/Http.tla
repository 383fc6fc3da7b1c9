-------------------------------- MODULE Http --------------------------------
(***************************************************************************)
(* The HTTP server (http-proto.c, http-core.c, http-cache.c, http-cgi.c).  *)
(* A connection carries one response at a time: a short text, a file that  *)
(* is read (and put into the cache), a copy from the cache, a file that is *)
(* handed to sendfile, or the output of a CGI program.  The callbacks of   *)
(* the socket change from phase to phase, and the entries of the cache are *)
(* shared by all connections: one fills an entry, others send from it, and *)
(* a new file may need its place.                                          *)
(*                                                                         *)
(* Sizes are in chunks, what one read gets.  A chunk of a file is the      *)
(* version it was read from.  The list of cache entries is a sequence,     *)
(* most recently used first.  Memory that is freed under a connection that *)
(* goes on using it ends a behaviour: torn says that this has happened.    *)
(***************************************************************************)
EXTENDS Integers, Sequences, FiniteSets, SequencesExt

CONSTANTS
    Sock, File, Entry, Pid, NULL,
    Mutable,             \* files that change
    Size,                \* Size[v]: chunks of a file's version v
    Second,              \* Second[v]: its st_mtime; several versions may share one
    http_cache_entries,  \* limit of the cache
    keepalive,           \* requests per connection with Keep-Alive
    Simple,              \* whether requests are HTTP/0.9: a subset of BOOLEAN
    Pipelining           \* clients do not wait for the response

ASSUME NullAssumption == NULL \notin Entry /\ NULL \notin Pid /\ NULL \notin File
ASSUME SizeAssumption == Size \in Seq(Nat \ {0}) /\ Len(Size) > 0
ASSUME SecondAssumption ==
    /\ Second \in Seq(Nat) /\ Len(Second) = Len(Size)
    /\ \A v, w \in 1..Len(Second) : v <= w => Second[v] <= Second[w]
ASSUME BoundAssumption ==
    http_cache_entries \in Nat /\ keepalive \in Nat
ASSUME ChoiceAssumption ==
    /\ Mutable \subseteq File
    /\ Simple \subseteq BOOLEAN /\ Pipelining \in BOOLEAN

VARIABLES
    enq, killed,  \* HTTP connections in the list, those with SVZ_SOFLG_KILLED
    conn,         \* their fields, see Fresh
    version,      \* the files
    order, ent,   \* the cache: list of entries, their fields
    torn,         \* an entry was emptied or freed while a connection used it
    proc          \* CGI programs: "none", "run", "dead" (not yet waited for)

cacheVars == <<order, ent, torn>>
vars == <<enq, killed, conn, version, cacheVars, proc>>

\* http_connect_socket.  Flags are "DONE", "KEEP", "CACHE", "SENDFILE", "CGI" and
\* "POST"; reader and writer are the functions read_socket and write_socket, disc
\* is disconnected_socket; entry and buf are http->cache, file and left the open
\* file and http->filelength, post is http->contentlength, and fill says whether
\* the send buffer holds anything.  asked is the version of the file that was there
\* when it was found in the cache, which only the properties look at.
Fresh ==
    [flags |-> {}, reader |-> "tcp", writer |-> "default", disc |-> "http", fill |-> FALSE,
     entry |-> NULL, buf |-> <<>>, file |-> NULL, left |-> 0, pid |-> NULL, post |-> 0,
     asked |-> 1, keepalive |-> keepalive]

NoEntry ==
    [file |-> NULL, ready |-> FALSE, usage |-> 0, date |-> 0, size |-> 0, buf |-> <<>>]

Init ==
    /\ enq = {} /\ killed = {} /\ conn = [s \in Sock |-> Fresh]
    /\ version = [f \in File |-> 1]
    /\ order = <<>> /\ ent = [e \in Entry |-> NoEntry] /\ torn = FALSE
    /\ proc = [p \in Pid |-> "none"]

http_connect_socket(s) ==
    /\ s \notin enq /\ enq' = enq \cup {s}
    /\ conn' = [conn EXCEPT ![s] = Fresh]
    /\ UNCHANGED <<killed, version, cacheVars, proc>>

-----------------------------------------------------------------------------
(* The end of a response *)

\* The connection c is to be closed: from now on only what its disconnect function
\* looks at matters.
Kill(s, c) ==
    /\ killed' = killed \cup {s}
    /\ conn' = [conn EXCEPT ![s] =
         [Fresh EXCEPT !.flags = c.flags \cap {"CACHE"}, !.disc = c.disc,
                       !.entry = c.entry, !.buf = c.buf, !.pid = c.pid,
                       !.asked = c.asked]]

\* http_free_socket's part on the cache: the entry's use is over.
Released(c, es) ==
    IF "CACHE" \in c.flags THEN [es EXCEPT ![c.entry].usage = @ - 1] ELSE es

\* http_keep_alive with http_free_socket: the connection waits for the next
\* request, or it is closed.
http_keep_alive(s, c) ==
    IF "KEEP" \in c.flags
    THEN /\ conn' = [conn EXCEPT ![s] = [Fresh EXCEPT !.disc = c.disc, !.pid = c.pid,
                                                      !.keepalive = c.keepalive]]
         /\ ent' = Released(c, ent)
         /\ UNCHANGED killed
    ELSE Kill(s, c) /\ UNCHANGED ent

\* The connection fails in the middle of whatever it does.
Fail(s) ==
    /\ s \in enq \ killed /\ Kill(s, conn[s])
    /\ UNCHANGED <<enq, version, cacheVars, proc>>

-----------------------------------------------------------------------------
(* The cache *)

InCache(f) == \E e \in Range(order) : ent[e].file = f
Cached(f) == CHOOSE e \in Range(order) : ent[e].file = f

\* http_urgent_cache: the entry is moved to the front.
http_urgent_cache(e, o) == <<e>> \o RemoveFirst(o, e)

http_check_cache(f) ==
    IF ~InCache(f) THEN "NO" ELSE IF ent[Cached(f)].ready THEN "COMPLETE" ELSE "INCOMPLETE"

\* http_cache_destroy_entry
Destroyed(e, o) == RemoveFirst(o, e)

\* Mutation: entries that are being filled are taken, too.
Victims_Filling == {e \in Range(order) : ent[e].usage = 0}

\* Entries whose place http_init_cache may take; it takes the one used longest ago.
Victims == {e \in Range(order) : ent[e].ready /\ ent[e].usage = 0}

\* http_init_cache: the list with a new entry e for the file f, which takes the
\* place of the last victim if the cache is full.
http_init_cache(e, f) ==
    /\ \/ /\ Len(order) < http_cache_entries
          /\ e \notin Range(order) /\ order' = <<e>> \o order
       \/ /\ Len(order) >= http_cache_entries
          /\ \E i \in 1..Len(order) :
               /\ order[i] \in Victims /\ \A j \in i+1..Len(order) : order[j] \notin Victims
               /\ e \notin Range(order) \/ e = order[i]
               /\ order' = <<e>> \o Destroyed(order[i], order)
    /\ ent' = [ent EXCEPT ![e] = [NoEntry EXCEPT !.file = f, !.date = Second[version[f]]]]

\* Whether http_init_cache finds a place.
HasPlace == Len(order) < http_cache_entries \/ Victims # {}

\* http_refresh_cache.  The entry's size stays what it was.
Refreshed(e, f) ==
    [ent EXCEPT ![e] = [@ EXCEPT !.ready = FALSE, !.usage = 0, !.buf = <<>>,
                                 !.date = Second[version[f]]]]

\* Connections that send from the entry e, and those whose http->cache leads to
\* e and that fill it.
Readers(e) == {s \in enq : conn[s].entry = e /\ "CACHE" \in conn[s].flags}
Fillers(e) == {s \in enq : conn[s].entry = e /\ "CACHE" \notin conn[s].flags}

\* ctrl_kill_cache: the control protocol's "kill cache" frees all entries, with
\* http_free_cache, and starts with an empty list.
ctrl_kill_cache ==
    /\ order' = <<>> /\ ent' = [e \in Entry |-> NoEntry]
    /\ torn' = \E s \in enq : conn[s].entry # NULL
    /\ UNCHANGED <<enq, killed, conn, version, proc>>

-----------------------------------------------------------------------------
(* Requests *)

\* No response is under way.
Idle(c) == c.flags = {} /\ ~c.fill /\ c.reader = "tcp" /\ c.writer = "default"

\* Requests are looked at when the socket is read from.
Listening(s) ==
    /\ s \in enq \ killed /\ conn[s].reader = "tcp"
    /\ Idle(conn[s]) \/ Pipelining

\* A response that is complete at once.
Complete(s, c) ==
    /\ conn' = [conn EXCEPT ![s] = [c EXCEPT !.flags = @ \cup {"DONE"}, !.fill = TRUE]]
    /\ UNCHANGED <<enq, killed, version, cacheVars, proc>>

\* Not found, forbidden, bad range, not implemented, no CGI program, no process;
\* the listing of a directory, which becomes the send buffer.
http_error_response(s) == Complete(s, conn[s])
http_default_response(s) == http_error_response(s)
http_dirlist(s) == Complete(s, conn[s])

\* Header fields of the request are there or not, a range is valid or not, and the
\* URI names a CGI program or a file.
http_find_property == BOOLEAN
http_get_range == BOOLEAN
check_cgi == BOOLEAN

\* http_check_keepalive, and the header of a response with a body.
Header(c, simple, keep) ==
    IF simple THEN [c EXCEPT !.flags = IF keep THEN @ \cup {"KEEP"} ELSE @]
    ELSE [c EXCEPT !.fill = TRUE,
                   !.flags = IF keep /\ c.keepalive > 0 THEN @ \cup {"KEEP"}
                             ELSE @ \ {"KEEP"},
                   !.keepalive = IF keep /\ @ > 0 THEN @ - 1 ELSE @]

\* HEAD, or "If-Modified-Since" and the file has not changed.
http_head_response(s, keep) == Complete(s, Header(conn[s], FALSE, keep))

\* Mutation: only the sizes are compared.
Changed_SizeOnly(e, f) == Size[version[f]] # ent[e].size

\* The file is later than the entry, in seconds, or has another size.
Changed(e, f) == Second[version[f]] > ent[e].date \/ Size[version[f]] # ent[e].size

\* The connection reads the file f into the entry e.
Filling(c, e, f) ==
    [c EXCEPT !.reader = "cache", !.disc = "cache", !.entry = e, !.buf = <<>>,
              !.file = f, !.left = Size[version[f]]]

\* A build with sendfile uses it, others read the file.
Plain(c, f) ==
    {[c EXCEPT !.reader = "none", !.flags = @ \cup {"SENDFILE"}, !.entry = NULL,
               !.buf = <<>>, !.file = f, !.left = Size[version[f]]],
     [c EXCEPT !.reader = "file", !.entry = NULL, !.buf = <<>>, !.file = f,
               !.left = Size[version[f]]]}

\* The last part of http_get_response, for a file that can be read.  Ranges, and
\* files that are too large, are not cached.  A changed file is read into its
\* entry again whether or not others are still sending what it held.
http_get_response(s, f, simple, keep, range) ==
    LET c == Header(conn[s], simple, keep)
        status == IF range THEN "INHIBIT" ELSE http_check_cache(f)
        e == Cached(f)
    IN  /\ \/ /\ status = "COMPLETE" /\ Changed(e, f)
              /\ ent' = Refreshed(e, f) /\ order' = http_urgent_cache(e, order)
              /\ torn' = (Readers(e) # {})
              /\ conn' = [conn EXCEPT ![s] = Filling(c, e, f)]
           \/ /\ status = "COMPLETE" /\ ~Changed(e, f)
              /\ ent' = [ent EXCEPT ![e].usage = @ + 1]
              /\ order' = http_urgent_cache(e, order)
              /\ conn' = [conn EXCEPT ![s] =
                   [c EXCEPT !.flags = @ \cup {"CACHE"}, !.entry = e, !.buf = ent[e].buf,
                             !.fill = TRUE, !.asked = version[f],
                             !.writer = IF simple THEN "cache" ELSE @]]
              /\ UNCHANGED torn
           \/ /\ status = "NO" /\ HasPlace
              /\ \E n \in Entry : /\ http_init_cache(n, f)
                                  /\ conn' = [conn EXCEPT ![s] = Filling(c, n, f)]
              /\ UNCHANGED torn
           \/ /\ status = "NO" => ~HasPlace
              /\ status \in {"NO", "INHIBIT", "INCOMPLETE"}
              /\ \E p \in Plain(c, f) : conn' = [conn EXCEPT ![s] = p]
              /\ order' = IF status = "INCOMPLETE" THEN http_urgent_cache(e, order) ELSE order
              /\ UNCHANGED <<ent, torn>>
        /\ UNCHANGED <<enq, killed, version, proc>>

\* http_cgi_accepted: the header can fail to get into the send buffer only if that
\* is not empty, after requests that did not wait for their responses.
http_cgi_accepted(c) == IF c.fill THEN BOOLEAN ELSE {TRUE}

\* cgi_exec, called with a connection that becomes c if all is well: the program
\* is forked, and the connection learns its process id once the header is written.
\* After an error the response is complete, and bad is what the connection becomes;
\* http_cgi_disconnect stays its disconnect function.
cgi_exec(s, p, c, bad) ==
    LET failed == [bad EXCEPT !.fill = TRUE, !.disc = "cgi", !.flags = @ \cup {"DONE"}]
    IN  /\ \/ /\ proc[p] = "none" /\ proc' = [proc EXCEPT ![p] = "run"]
              /\ \E accepted \in http_cgi_accepted(c) :
                   conn' = [conn EXCEPT ![s] =
                     IF accepted THEN [c EXCEPT !.fill = TRUE, !.disc = "cgi", !.pid = p]
                     ELSE failed]
           \/ conn' = [conn EXCEPT ![s] = failed] /\ UNCHANGED proc
        /\ UNCHANGED <<enq, killed, version, cacheVars>>

http_cgi_get_response(s, p) ==
    LET c == [conn[s] EXCEPT !.flags = @ \cup {"CGI"}]
    IN  cgi_exec(s, p, [c EXCEPT !.reader = "cgi"], c)

\* http_post_response, for a body of one chunk.
http_post_response(s, p) ==
    LET c == [conn[s] EXCEPT !.post = 1]
    IN  cgi_exec(s, p, [c EXCEPT !.flags = @ \cup {"POST"}, !.writer = "cgi"],
                 [c EXCEPT !.writer = "default"])

\* http_check_request and http_handle_request; a request that is not understood
\* closes the connection.
http_handle_request(s) ==
    /\ Listening(s)
    /\ \/ Fail(s) \/ http_error_response(s) \/ http_default_response(s) \/ http_dirlist(s)
       \/ \E keep \in http_find_property : http_head_response(s, keep)
       \/ \E cgi \in check_cgi :
            \/ cgi /\ \E p \in Pid : http_cgi_get_response(s, p) \/ http_post_response(s, p)
            \/ /\ ~cgi
               /\ \E f \in File, simple \in Simple, keep \in http_find_property,
                     range \in http_get_range : http_get_response(s, f, simple, keep, range)

-----------------------------------------------------------------------------
(* Callbacks of the loop *)

\* Mutation: the file is not handed to sendfile after the header.
NextWriter_NoSendfile(c) ==
    IF "CACHE" \in c.flags THEN [c EXCEPT !.fill = TRUE, !.writer = "cache"] ELSE c

\* What follows the header once it is sent.  The fill of 42 only makes the loop
\* call the new function.
NextWriter(c) ==
    IF "CACHE" \in c.flags THEN [c EXCEPT !.fill = TRUE, !.writer = "cache"]
    ELSE IF "SENDFILE" \in c.flags THEN [c EXCEPT !.fill = TRUE, !.writer = "sendfile"]
    ELSE c

\* The rest of the buffer is sent.
http_default_write(s) ==
    LET c == conn[s]
        d == [c EXCEPT !.fill = FALSE]
    IN  /\ s \in enq \ killed /\ c.writer = "default" /\ c.fill
        /\ IF "DONE" \in c.flags THEN http_keep_alive(s, d)
           ELSE conn' = [conn EXCEPT ![s] = NextWriter(d)] /\ UNCHANGED <<killed, ent>>
        /\ UNCHANGED <<enq, version, order, torn, proc>>

http_cache_write(s) ==
    LET c == conn[s]
    IN  /\ s \in enq \ killed /\ c.writer = "cache"
        /\ \E n \in 1..Len(c.buf) :
             LET d == [c EXCEPT !.buf = SubSeq(@, n + 1, Len(@))]
             IN  IF d.buf = <<>> THEN http_keep_alive(s, d)
                 ELSE conn' = [conn EXCEPT ![s] = d] /\ UNCHANGED <<killed, ent>>
        /\ UNCHANGED <<enq, version, order, torn, proc>>

\* The next chunk of the connection's file is there; the file may have become
\* shorter meanwhile.
HasMore(c, done) == done < Size[version[c.file]]

\* One chunk by sendfile.  The connection is closed if the file has become shorter.
http_send_file(s) ==
    LET c == conn[s]
        d == [c EXCEPT !.left = @ - 1]
    IN  /\ s \in enq \ killed /\ c.writer = "sendfile"
        /\ \/ c.left > 1 /\ conn' = [conn EXCEPT ![s] = d] /\ UNCHANGED <<killed, ent>>
           \/ c.left = 1 /\ http_keep_alive(s, d)
           \/ Kill(s, c) /\ UNCHANGED ent
        /\ UNCHANGED <<enq, version, order, torn, proc>>

\* The file has been read: what is left is to send the buffer.
ReadDone(c) ==
    IF c.left > 0 THEN c
    ELSE [c EXCEPT !.reader = "tcp", !.flags = @ \cup {"DONE"}, !.file = NULL]

http_file_read(s) ==
    LET c == conn[s]
    IN  /\ s \in enq \ killed /\ c.reader = "file"
        /\ \/ /\ conn' = [conn EXCEPT ![s] =
                            ReadDone([c EXCEPT !.fill = TRUE, !.left = @ - 1])]
              /\ UNCHANGED killed
           \/ Kill(s, c)
        /\ UNCHANGED <<enq, version, cacheVars, proc>>

\* http_cache_reset
Reset(c) == [c EXCEPT !.entry = NULL, !.buf = <<>>]

\* One chunk into the send buffer and into the copy; the copy becomes the entry's
\* when the file is finished or has turned out shorter than it was.  After an
\* error the copy is dropped, and with it the way back to the entry.
http_cache_read(s) ==
    LET c == conn[s]
        d == [c EXCEPT !.fill = TRUE, !.left = @ - 1, !.buf = Append(@, version[c.file])]
        Ready(x) == [ent EXCEPT ![x.entry].ready = TRUE, ![x.entry].buf = x.buf,
                                ![x.entry].size = Len(x.buf)]
    IN  /\ s \in enq \ killed /\ c.reader = "cache"
        /\ \/ /\ HasMore(c, Len(c.buf))
              /\ conn' = [conn EXCEPT ![s] = IF d.left > 0 THEN d ELSE ReadDone(Reset(d))]
              /\ ent' = IF d.left > 0 THEN ent ELSE Ready(d)
              /\ UNCHANGED killed
           \/ ~HasMore(c, Len(c.buf)) /\ ent' = Ready(c) /\ Kill(s, Reset(c))
           \/ Kill(s, IF c.buf # <<>> THEN Reset(c) ELSE c) /\ UNCHANGED ent
        /\ UNCHANGED <<enq, version, order, torn, proc>>

\* Output of the program, or its end: the pipe is closed when the program has
\* gone, and an error counts as the end.
http_cgi_read(s) ==
    LET c == conn[s]
    IN  /\ s \in enq \ killed /\ c.reader = "cgi"
        /\ \/ /\ c.pid # NULL /\ proc[c.pid] = "run"
              /\ conn' = [conn EXCEPT ![s].fill = TRUE] /\ UNCHANGED killed
           \/ /\ c.fill
              /\ conn' = [conn EXCEPT ![s].flags = @ \cup {"DONE"}] /\ UNCHANGED killed
           \/ ~c.fill /\ Kill(s, c)
        /\ UNCHANGED <<enq, version, cacheVars, proc>>

\* The body of a POST goes to the program; then its output is waited for.
http_cgi_write(s) ==
    LET c == conn[s]
        d == [c EXCEPT !.post = @ - 1]
    IN  /\ s \in enq \ killed /\ c.writer = "cgi"
        /\ conn' = [conn EXCEPT ![s] =
             IF d.post > 0 THEN d
             ELSE [d EXCEPT !.flags = (@ \ {"POST"}) \cup {"CGI"}, !.reader = "cgi",
                            !.writer = "default"]]
        /\ UNCHANGED <<enq, killed, version, cacheVars, proc>>

\* The idle function, once per second: the program is waited for.
http_cgi_died(s) ==
    LET p == conn[s].pid
    IN  /\ s \in enq /\ p # NULL /\ proc[p] = "dead"
        /\ proc' = [proc EXCEPT ![p] = "none"]
        /\ conn' = [conn EXCEPT ![s].pid = NULL]
        /\ UNCHANGED <<enq, killed, version, cacheVars>>

\* http_idle of a connection kept alive: it has been silent for too long.
http_idle(s) ==
    /\ Idle(conn[s]) /\ conn[s].keepalive < keepalive
    /\ Fail(s)

-----------------------------------------------------------------------------
(* Disconnection *)

\* Mutation: the program is left to itself.
Terminated_Not(p) == UNCHANGED proc

\* kill and waitpid of http_cgi_disconnect.
Terminated(p) == proc' = [q \in Pid |-> IF q = p THEN "none" ELSE proc[q]]

\* http_cache_disconnect: an entry that is not filled yet is given up.
http_cache_disconnect(c) ==
    LET drop == c.disc = "cache" /\ c.entry # NULL /\ ~ent[c.entry].ready
    IN  /\ order' = IF drop THEN Destroyed(c.entry, order) ELSE order
        /\ ent' = IF drop THEN [ent EXCEPT ![c.entry] = NoEntry] ELSE Released(c, ent)

\* The sweep with http_disconnect, http_cache_disconnect or http_cgi_disconnect.
http_disconnect(s) ==
    /\ s \in killed
    /\ http_cache_disconnect(conn[s])
    /\ IF conn[s].disc = "cgi" THEN Terminated(conn[s].pid) ELSE UNCHANGED proc
    /\ enq' = enq \ {s} /\ killed' = killed \ {s}
    /\ conn' = [conn EXCEPT ![s] = Fresh]
    /\ UNCHANGED <<version, torn>>

-----------------------------------------------------------------------------
(* Files and programs *)

\* A file is overwritten.
Modify(f) ==
    /\ version[f] < Len(Size)
    /\ version' = [version EXCEPT ![f] = @ + 1]
    /\ UNCHANGED <<enq, killed, conn, cacheVars, proc>>

\* A program ends.
Exit(p) ==
    /\ proc[p] = "run" /\ proc' = [proc EXCEPT ![p] = "dead"]
    /\ UNCHANGED <<enq, killed, conn, version, cacheVars>>

\* What the server does after it has torn an entry is undefined.
Next ==
    /\ ~torn
    /\ \/ \E s \in Sock :
            \/ http_connect_socket(s) \/ http_handle_request(s) \/ http_default_write(s)
            \/ http_cache_write(s) \/ http_send_file(s) \/ http_file_read(s)
            \/ http_cache_read(s) \/ http_cgi_read(s) \/ http_cgi_write(s)
            \/ http_cgi_died(s) \/ http_idle(s) \/ http_disconnect(s) \/ Fail(s)
       \/ \E f \in Mutable : Modify(f)
       \/ \E p \in Pid : Exit(p)
       \/ ctrl_kill_cache

\* Clients take what they are sent and send the bodies they announced, files can
\* be read, programs end, and the loop gets round to every socket.
Fairness ==
    /\ \A s \in Sock :
         /\ WF_vars(~torn /\ (\/ http_default_write(s) \/ http_cache_write(s)
                               \/ http_send_file(s) \/ http_cgi_write(s)))
         /\ WF_vars(~torn /\ (\/ http_file_read(s) \/ http_cache_read(s)
                               \/ http_cgi_read(s)))
         /\ WF_vars(~torn /\ http_disconnect(s))
    /\ \A p \in Pid : WF_vars(~torn /\ Exit(p))

Spec == Init /\ [][Next]_vars /\ Fairness

-----------------------------------------------------------------------------
(* Properties *)

TypeOK ==
    /\ killed \subseteq enq /\ enq \subseteq Sock
    /\ \A s \in Sock : conn[s].fill \in BOOLEAN /\ conn[s].left \in Nat
    /\ \A e \in Entry : ent[e].usage \in Nat

\* The cache holds at most one entry per file and not more entries than
\* configured, and an entry is filled by one connection at most, as long as it
\* is not ready and in the cache: what http_cache_read and
\* http_cache_disconnect rely on when they follow http->cache->entry.  Nobody
\* is sent a freed buffer: an entry's usage is the number of connections that
\* send from it, each of which began when the entry was ready and has the rest
\* of what it holds.  All this as long as no changed file is asked for while its
\* cached copy is being sent, and nobody frees a cache in use by "kill cache".
CacheOK ==
    ~torn =>
    /\ TypeOK
    /\ IsInjective(order) /\ Len(order) <= http_cache_entries
    /\ \A e, d \in Range(order) : ent[e].file = ent[d].file => e = d
    /\ \A e \in Entry :
         /\ Cardinality(Fillers(e)) <= 1
         /\ Fillers(e) # {} => e \in Range(order) /\ ~ent[e].ready
         /\ Readers(e) # {} => e \in Range(order) /\ ent[e].ready
         /\ e \in Range(order) => ent[e].usage = Cardinality(Readers(e))
         /\ \A s \in Readers(e) : IsSuffix(conn[s].buf, ent[e].buf)

\* What is sent from the cache is as long as the file was when the request came,
\* and all of it was written in the second in which the file had last been written
\* then, although files change while they are read into the cache and between the
\* requests.
HitFresh ==
    \A s \in enq : ~torn /\ "CACHE" \in conn[s].flags =>
        LET buf == ent[conn[s].entry].buf
            v   == conn[s].asked
        IN  Len(buf) = Size[v] /\ \A i \in DOMAIN buf : Second[buf[i]] = Second[v]

\* "the file on disk has changed?" - "no" (http-proto.c:1270, 1284): what is sent
\* from the cache is the file as it was when the request came.
HitExact ==
    \A s \in enq : ~torn /\ "CACHE" \in conn[s].flags =>
        \A i \in DOMAIN ent[conn[s].entry].buf :
            ent[conn[s].entry].buf[i] = conn[s].asked

\* "Cache entry must be completely unused if not ready": the assertion of
\* http-cache.c:113, made at every look into the cache.
CacheConsistent ==
    \A e \in Range(order) : ~ent[e].ready => ent[e].size = 0 /\ ent[e].buf = <<>>

\* An entry's usage is "how often this is currently used" (http-cache.h:43).
UsageExact == \A e \in Range(order) : ent[e].usage = Cardinality(Readers(e))

\* A CGI program that runs, or waits to be collected, is known to a connection:
\* none is left over, whichever way the connection ends, if the clients wait for
\* their responses.
CgiOwned == \A p \in Pid : proc[p] # "none" => \E s \in enq : conn[s].pid = p

\* Every response comes to an end: the callbacks that take turns in a connection
\* never leave one that nothing is going to call again.
Responded ==
    \A s \in Sock :
        s \in enq /\ ~Idle(conn[s]) ~> s \notin enq \/ Idle(conn[s]) \/ torn
=============================================================================
