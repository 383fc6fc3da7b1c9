---------------------------- MODULE NutTransfer -----------------------------
(***************************************************************************)
(* Downloads, uploads and host lists of the Gnutella server                *)
(* (nut-transfer.c, nut-hostlist.c).  A query hit starts a download over a *)
(* connection of its own.  If its sender cannot be reached, a push request *)
(* asks it to connect to us and give the file.  The directory of downloads *)
(* is shared by all of them, and limits count the transfers.               *)
(*                                                                         *)
(* An offer is a file index and a GUID, the key of a push request; offers  *)
(* of different hosts may be of the same file.  Sizes are in chunks, what  *)
(* one read gets.  Query hits come and push requests leave by one          *)
(* connection to the network, see NutRoute.                                *)
(***************************************************************************)
EXTENDS Integers, FiniteSets

CONSTANTS
    Sock, NoOffer, Offer, File,
    FileOf,                    \* FileOf[o]: the file an offer is about
    max_dnloads, max_uploads,
    MaxLength,                 \* bound: chunks of a file
    Pipelining                 \* peers send a second GET while they are being served

ASSUME OfferAssumption == FileOf \in [Offer -> File] /\ NoOffer \notin Offer
ASSUME BoundAssumption ==
    /\ max_dnloads \in Nat /\ max_uploads \in Nat /\ MaxLength \in Nat \ {0}
    /\ Pipelining \in BOOLEAN

VARIABLES
    sock,      \* the sockets of transfers and host lists
    net,       \* whether the connection the query hits came by is still there
    disk,      \* disk[f]: "none", "empty", "part", "whole", or "cut": ended too early
    push,      \* offers for which a push request was sent
    dnloads, uploads

counters == <<dnloads, uploads>>
vars == <<sock, net, disk, push, counters>>

\* A socket's check_request: "transfer" is nut_check_transfer or, with hdr, then
\* nut_save_transfer; "given" nut_check_given; "upload" nut_check_upload; "hosts"
\* nut_hosts_check.  disc is disconnected_socket, left transfer->size, fill whether
\* the send buffer holds anything, and timer whether nut_connect_timeout is installed.
\* wrapped: the length that was announced is more than an int can hold.
\* linked: file_desc is what the directory has under the file's name.
Free ==
    [check |-> "none", disc |-> "none", offer |-> NoOffer, hdr |-> FALSE, left |-> 0,
     wrapped |-> FALSE, fill |-> FALSE, timer |-> FALSE, linked |-> FALSE, killed |-> FALSE]

Init ==
    /\ sock = [s \in Sock |-> Free]
    /\ net = TRUE /\ disk = [f \in File |-> "none"] /\ push = {}
    /\ dnloads = 0 /\ uploads = 0

Live(s) == sock[s].check # "none" /\ ~sock[s].killed
Set(s, changes) == sock' = [sock EXCEPT ![s] = changes]
Kill(s) == sock' = [sock EXCEPT ![s].killed = TRUE]
Name(s) == FileOf[sock[s].offer]

\* svz_tcp_connect, or an accepted connection whose protocol was detected.
New(s, fields) == sock[s] = Free /\ Set(s, fields)

-----------------------------------------------------------------------------
(* Downloads *)

Download(o) ==
    [Free EXCEPT !.check = "transfer", !.disc = "transfer", !.offer = o, !.linked = TRUE]

\* nut_init_transfer for a record of a query hit.  The file is made first; when no
\* socket can be had it stays.
nut_init_transfer(o) ==
    /\ net /\ dnloads < max_dnloads
    /\ disk[FileOf[o]] = "none"
    /\ disk' = [disk EXCEPT ![FileOf[o]] = "empty"]
    /\ \/ /\ \E s \in Sock : New(s, [Download(o) EXCEPT !.timer = TRUE])
          /\ dnloads' = dnloads + 1
       \/ UNCHANGED <<sock, dnloads>>
    /\ UNCHANGED <<net, push, uploads>>

\* nut_send_push, once for each offer; a write that fails costs the connection.
SendPush(o) ==
    \/ (~net \/ o \in push) /\ UNCHANGED <<net, push>>
    \/ net /\ o \notin push /\ push' = push \cup {o} /\ UNCHANGED net
    \/ net /\ o \notin push /\ net' = FALSE /\ UNCHANGED push

\* The header of the response; without a length the transfer is given up.  A length that
\* does not fit transfer->size, an int, becomes a negative or a smaller one.
nut_check_transfer(s) ==
    /\ Live(s) /\ sock[s].check = "transfer" /\ ~sock[s].hdr
    /\ \/ \E n \in -1..MaxLength, wrapped \in BOOLEAN :
             /\ n < 0 => wrapped
             /\ Set(s, [sock[s] EXCEPT !.hdr = TRUE, !.left = n, !.wrapped = wrapped, !.timer = FALSE])
       \/ Kill(s)
    /\ UNCHANGED <<net, disk, push, counters>>

\* What is in the directory when nothing seems to be left.
Received(s) == IF sock[s].wrapped THEN "cut" ELSE "whole"

\* nut_save_transfer: n chunks, perhaps more than announced.
nut_save_transfer(s) ==
    /\ Live(s) /\ sock[s].check = "transfer" /\ sock[s].hdr
    /\ \/ \E n \in 1..MaxLength :
             LET left == IF n >= sock[s].left THEN 0 ELSE sock[s].left - n
             IN /\ Set(s, [sock[s] EXCEPT !.left = left, !.killed = (left = 0)])
                /\ disk' = IF sock[s].linked
                           THEN [disk EXCEPT ![Name(s)] = IF left = 0 THEN Received(s) ELSE "part"]
                           ELSE disk
       \/ Kill(s) /\ UNCHANGED disk
    /\ UNCHANGED <<net, push, counters>>

\* nut_connect_timeout asks for a push if a download waits for its connection.
nut_connect_timeout(s) ==
    /\ Live(s) /\ sock[s].timer
    /\ IF sock[s].disc = "transfer" THEN SendPush(sock[s].offer) ELSE UNCHANGED <<net, push>>
    /\ Kill(s)
    /\ UNCHANGED <<disk, counters>>

\* Whether nut_disconnect_transfer removes the file.
Aborted(s) == sock[s].left > 0 \/ ~sock[s].hdr

\* nut_disconnect_transfer in the sweep.  The name is unlinked, whoever writes to it.
nut_disconnect_transfer(s) ==
    /\ sock[s].killed /\ sock[s].disc = "transfer"
    /\ dnloads' = dnloads - 1
    /\ LET unlinked == [x \in Sock |->
               IF sock[x].offer # NoOffer /\ Name(x) = Name(s)
               THEN [sock[x] EXCEPT !.linked = FALSE] ELSE sock[x]]
       IN /\ sock' = [(IF Aborted(s) THEN unlinked ELSE sock) EXCEPT ![s] = Free]
          /\ disk' = IF Aborted(s) THEN [disk EXCEPT ![Name(s)] = "none"] ELSE disk
    /\ IF sock[s].hdr THEN UNCHANGED <<net, push>> ELSE SendPush(sock[s].offer)
    /\ UNCHANGED uploads

\* A connection that announces itself with GIV.
Given(s) ==
    /\ New(s, [Free EXCEPT !.check = "given"])
    /\ UNCHANGED <<net, disk, push, counters>>

\* Mutation: nobody looks whether the file is there.
GivenFile_Unchecked(o) == {"none", "empty", "part", "whole", "cut"}

\* nut_check_given: the GIV line must name a push request.  The socket is a download
\* from then on, also when the file exists or cannot be opened.
GivenFile(o) == {"none"}

nut_check_given(s) ==
    /\ Live(s) /\ sock[s].check = "given"
    /\ \/ /\ \E o \in Offer \ push : Kill(s)
          /\ UNCHANGED <<push, disk, dnloads>>
       \/ \E o \in push :
             /\ push' = push \ {o} /\ dnloads' = dnloads + 1
             /\ \/ /\ disk[FileOf[o]] \in GivenFile(o)
                   /\ Set(s, Download(o))
                   /\ disk' = [disk EXCEPT ![FileOf[o]] = "empty"]
                \/ /\ Set(s, [Download(o) EXCEPT !.linked = FALSE, !.killed = TRUE])
                   /\ UNCHANGED disk
    /\ UNCHANGED <<net, uploads>>

-----------------------------------------------------------------------------
(* Uploads *)

Awaiting == [Free EXCEPT !.check = "upload"]

\* nut_connect_socket for a GET, or nut_push_request, which connects to the peer.
Upload(s) ==
    /\ uploads <= max_uploads
    /\ \E timer \in BOOLEAN : New(s, [Awaiting EXCEPT !.timer = timer])
    /\ UNCHANGED <<net, disk, push, counters>>

\* nut_check_upload and nut_init_upload.  The callback stays, so that a GET that is
\* read after the file's last chunk starts a second upload on the socket.
nut_check_upload(s) ==
    /\ Live(s) /\ sock[s].check = "upload"
    /\ sock[s].disc = "upload" => Pipelining /\ sock[s].left = 0
    /\ \/ /\ \E n \in 1..MaxLength :
                Set(s, [Awaiting EXCEPT !.disc = "upload", !.hdr = TRUE, !.left = n, !.fill = TRUE])
          /\ uploads' = uploads + 1
       \/ Kill(s) /\ UNCHANGED uploads
    /\ UNCHANGED <<net, disk, push, dnloads>>

\* nut_file_read puts a chunk into the send buffer; the file may end early.
nut_file_read(s) ==
    /\ Live(s) /\ sock[s].disc = "upload" /\ sock[s].left > 0
    /\ \/ Set(s, [sock[s] EXCEPT !.left = @ - 1, !.fill = TRUE])
       \/ Kill(s)
    /\ UNCHANGED <<net, disk, push, counters>>

\* Mutation: the buffer is never found empty.
Sent_Never(s) == FALSE

\* nut_file_write sends a part or all of the buffer; polled while there is some.
Sent(s) == sock[s].left = 0

nut_file_write(s) ==
    /\ Live(s) /\ sock[s].disc = "upload" /\ sock[s].fill
    /\ Set(s, [sock[s] EXCEPT !.fill = FALSE, !.killed = Sent(s)])
    /\ UNCHANGED <<net, disk, push, counters>>

\* Mutation: the upload stays counted.
nut_disconnect_upload_Keeps(s) ==
    /\ sock[s].killed /\ sock[s].disc = "upload"
    /\ Set(s, Free)
    /\ UNCHANGED <<net, disk, push, counters>>

\* nut_disconnect_upload in the sweep.
nut_disconnect_upload(s) ==
    /\ sock[s].killed /\ sock[s].disc = "upload"
    /\ uploads' = uploads - 1 /\ Set(s, Free)
    /\ UNCHANGED <<net, disk, push, dnloads>>

-----------------------------------------------------------------------------
(* Host lists *)

\* hdr says that the list is complete: NUT_FLAG_HOSTS is off.
HostList(s) ==
    /\ New(s, [Free EXCEPT !.check = "hosts"])
    /\ UNCHANGED <<net, disk, push, counters>>

\* nut_hosts_check writes the list at the first request; later ones are ignored.
nut_hosts_check(s) ==
    /\ Live(s) /\ sock[s].check = "hosts" /\ ~sock[s].hdr
    /\ \/ \E fill \in BOOLEAN :
             Set(s, [sock[s] EXCEPT !.hdr = TRUE, !.fill = fill, !.killed = ~fill])
       \/ Kill(s)
    /\ UNCHANGED <<net, disk, push, counters>>

\* nut_hosts_write: the connection ends with the buffer.
nut_hosts_write(s) ==
    /\ Live(s) /\ sock[s].check = "hosts" /\ sock[s].fill
    /\ Set(s, [sock[s] EXCEPT !.fill = FALSE, !.killed = sock[s].hdr])
    /\ UNCHANGED <<net, disk, push, counters>>

-----------------------------------------------------------------------------
\* The peer or the network fails.
Lost(s) ==
    /\ Live(s) /\ Kill(s)
    /\ UNCHANGED <<net, disk, push, counters>>

\* The sweep for sockets without a callback of this server.
Sweep(s) ==
    /\ sock[s].killed /\ sock[s].disc = "none" /\ Set(s, Free)
    /\ UNCHANGED <<net, disk, push, counters>>

\* The connection to the network goes away, another one comes.
NetLost == net /\ net' = FALSE /\ UNCHANGED <<sock, disk, push, counters>>
NetBack == ~net /\ net' = TRUE /\ UNCHANGED <<sock, disk, push, counters>>

Swept(s) == nut_disconnect_transfer(s) \/ nut_disconnect_upload(s) \/ Sweep(s)
Written(s) == nut_file_read(s) \/ nut_file_write(s) \/ nut_hosts_write(s)

Next ==
    \/ \E o \in Offer : nut_init_transfer(o)
    \/ \E s \in Sock :
        \/ nut_check_transfer(s) \/ nut_save_transfer(s) \/ nut_connect_timeout(s)
        \/ nut_disconnect_transfer(s) \/ Given(s) \/ nut_check_given(s)
        \/ Upload(s) \/ nut_check_upload(s) \/ nut_file_read(s) \/ nut_file_write(s)
        \/ nut_disconnect_upload(s)
        \/ HostList(s) \/ nut_hosts_check(s) \/ nut_hosts_write(s)
        \/ Lost(s) \/ Sweep(s)
    \/ NetLost \/ NetBack

\* The loop sweeps what was killed and writes what a peer that reads will take.
Spec ==
    /\ Init /\ [][Next]_vars
    /\ \A s \in Sock : WF_vars(Swept(s)) /\ WF_vars(Written(s))

-----------------------------------------------------------------------------
(* Properties *)

\* The counters the limits are compared with are the numbers of downloads and uploads
\* that have not been freed, whatever way they came about and ended, as long as no peer
\* sends a second GET while it is being served: nut_init_upload counts that one again, and
\* the socket is freed once (Pipelining).
Counted ==
    /\ dnloads = Cardinality({s \in Sock : sock[s].disc = "transfer"})
    /\ uploads = Cardinality({s \in Sock : sock[s].disc = "upload"})

\* No aborted download is left in the directory: what is only a part of a file is being
\* written to (nut_disconnect_transfer), if the announced length fits an int: see WholeFiles.  Two downloads never write to one file, though a
\* file may be offered by several hosts, and given by one that was given up
\* (nut_init_transfer, nut_check_given).
FilesOwned ==
    /\ \A f \in File : disk[f] = "part" =>
         \E s \in Sock : sock[s].disc = "transfer" /\ sock[s].linked /\ Name(s) = f
    /\ \A s, t \in Sock :
         /\ s # t /\ sock[s].linked /\ sock[t].linked
         /\ sock[s].offer # NoOffer /\ sock[t].offer # NoOffer
         => Name(s) # Name(t)

\* A file is taken for complete when "we get all data", and removed "if the transfer was
\* really aborted" (nut_save_transfer, nut_disconnect_transfer): what stays is all that was
\* announced.  A length beyond an int makes transfer->size negative or too small.
WholeFiles == \A f \in File : disk[f] # "cut"

\* An upload ends if the peer reads, and so does a host list that was asked for.
UploadsEnd ==
    \A s \in Sock :
        (sock[s].disc = "upload" \/ (sock[s].check = "hosts" /\ sock[s].fill)) ~> (sock[s] = Free)
=============================================================================
