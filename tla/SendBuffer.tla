----------------------------- MODULE SendBuffer -----------------------------
(***************************************************************************)
(* How output leaves a connection: svz_sock_write (socket.c) copies what a *)
(* server hands it into the send buffer and flushes the buffer on the way, *)
(* the server loop flushes what remains through svz_tcp_write_socket or    *)
(* svz_pipe_write_socket, and SVZ_SOFLG_FINAL_WRITE asks for the           *)
(* connection to be closed when everything has been sent.                  *)
(*                                                                         *)
(* The bytes handed over are numbered, so that the buffer and the wire     *)
(* show which bytes are where.  Several calls of write_socket may happen   *)
(* within one svz_sock_write, each with its own result, so its loop is     *)
(* taken in steps.  A caller that gets a non-zero result schedules the     *)
(* socket for shutdown, after which nothing is written any more.           *)
(***************************************************************************)
EXTENDS Integers, Sequences

CONSTANTS
    Transport,   \* "tcp" or "pipe": which write_socket the socket has
    SendSize,    \* send_buffer_size
    MaxWrite,    \* SVZ_SOCK_MAX_WRITE, the most one svz_tcp_write_socket sends
    MaxMsg,      \* bound: the longest message handed to svz_sock_write
    MaxBytes     \* bound: bytes handed over in all

ASSUME TransportAssumption == Transport \in {"tcp", "pipe"}
ASSUME SizeAssumption == SendSize \in Nat \ {0} /\ MaxWrite \in Nat \ {0}
ASSUME BoundAssumption == MaxMsg \in Nat /\ MaxBytes \in Nat

VARIABLES
    send_buffer,     \* its first send_buffer_fill bytes
    unavailable,     \* the descriptor did not take data a moment ago
    connected,       \* SVZ_SOFLG_CONNECTED
    final,           \* SVZ_SOFLG_FINAL_WRITE
    pc,              \* "idle", or where svz_sock_write is: "flush", "copy"
    given,           \* bytes handed over so far
    len, orig_len,   \* of them not yet copied by svz_sock_write, and at first
    wire,            \* the bytes sent
    killed           \* "no", or why the socket was scheduled for shutdown

sendVars == <<send_buffer, unavailable, connected, final, pc, given, len, orig_len,
          wire, killed>>

Fill == Len(send_buffer)
Smaller(a, b) == IF a <= b THEN a ELSE b

SendInit ==
    /\ send_buffer = <<>> /\ wire = <<>>
    /\ unavailable = FALSE
    /\ connected \in BOOLEAN
    /\ final = FALSE
    /\ pc = "idle" /\ given = 0 /\ len = 0 /\ orig_len = 0
    /\ killed = "no"

-----------------------------------------------------------------------------
(* write_socket *)

\* What one call may report as written: an error, nothing because the
\* descriptor is unavailable, or some of the buffered bytes.
Results ==
    -1..(IF Transport = "tcp" THEN Smaller(Fill, MaxWrite) ELSE Fill)

\* Mutation: the rest of the buffer is taken from one byte too far behind.
Kept_OffByOne(n) == SubSeq(send_buffer, n + 2, Fill)

\* svz_sock_reduce_send
Kept(n) == SubSeq(send_buffer, n + 1, Fill)

Written(n) ==
    IF n > 0
    THEN /\ wire' = wire \o SubSeq(send_buffer, 1, n)
         /\ send_buffer' = Kept(n)
         /\ UNCHANGED unavailable
    ELSE /\ unavailable' = (unavailable \/ n = 0)
         /\ UNCHANGED <<wire, send_buffer>>

\* svz_tcp_write_socket fails on purpose to get the socket closed.
Closes(flag, n) ==
    Transport = "tcp" /\ flag /\ Fill = (IF n > 0 THEN n ELSE 0)

Verdict(flag, n) ==
    IF n < 0 THEN "error" ELSE IF Closes(flag, n) THEN "final" ELSE "no"

-----------------------------------------------------------------------------
(* svz_sock_write *)

\* A server hands over n bytes; for a killed socket that is a no-op.
svz_sock_write(n) ==
    /\ pc = "idle" /\ killed = "no"
    /\ given + n <= MaxBytes
    /\ given' = given + n
    /\ len' = n /\ orig_len' = n
    /\ pc' = "flush"
    /\ UNCHANGED <<send_buffer, unavailable, connected, final, wire, killed>>

\* Mutation: the buffer is flushed at the start only.
Flushable_Once == ~unavailable /\ connected /\ Fill > 0 /\ orig_len = len

Flushable == ~unavailable /\ connected /\ Fill > 0

\* Mutation: the flag is inhibited and not set again.
Restored_Not(inhibitp, failed) == final /\ ~inhibitp

\* The flag after an inhibited call; a failing one leaves it cleared.
Restored(inhibitp, failed) == final /\ ~(inhibitp /\ failed)

\* Mutation: the flag is not inhibited.
Inhibit_Never == FALSE

\* What is flushed before the first byte is copied stems from earlier writes.
Inhibit == final /\ Transport = "tcp" /\ orig_len = len

Flush ==
    /\ pc = "flush"
    /\ IF Flushable
       THEN \E n \in Results :
              LET inhibitp == Inhibit
              IN  /\ Written(n)
                  /\ killed' = Verdict(final /\ ~inhibitp, n)
                  /\ final' = Restored(inhibitp, killed' # "no")
                  /\ pc' = IF killed' # "no" THEN "idle" ELSE "copy"
       ELSE /\ pc' = "copy"
            /\ UNCHANGED <<send_buffer, unavailable, wire, killed, final>>
    /\ UNCHANGED <<connected, given, len, orig_len>>

\* The buffer takes the next n bytes.
Copied(n) == send_buffer \o [i \in 1..n |-> given - len + i]

Copy ==
    /\ pc = "copy" /\ Fill < SendSize
    /\ LET n == Smaller(len, SendSize - Fill)
       IN  /\ send_buffer' = Copied(n)
           /\ len' = len - n
           /\ pc' = IF n = len THEN "idle" ELSE "flush"
    /\ UNCHANGED <<unavailable, connected, final, given, orig_len, wire, killed>>

Overflow ==
    /\ pc = "copy" /\ Fill >= SendSize
    /\ killed' = "overflow"
    /\ pc' = "idle"
    /\ UNCHANGED <<send_buffer, unavailable, connected, final, given, len,
                   orig_len, wire>>

-----------------------------------------------------------------------------
(* The server loop and the world *)

\* The loop finds the descriptor writable.  It respects "unavailable" and
\* resets it after a second for sockets, but does neither for pipes.
LoopWrite(n) ==
    /\ pc = "idle" /\ killed = "no"
    /\ connected /\ Fill > 0
    /\ Transport = "tcp" => ~unavailable
    /\ n \in Results
    /\ Written(n)
    /\ killed' = Verdict(final, n)
    /\ UNCHANGED <<connected, final, pc, given, len, orig_len>>

Available ==
    /\ Transport = "tcp" /\ unavailable
    /\ pc = "idle" /\ killed = "no"
    /\ unavailable' = FALSE
    /\ UNCHANGED <<send_buffer, connected, final, pc, given, len, orig_len,
                   wire, killed>>

Connected ==
    /\ ~connected
    /\ pc = "idle" /\ killed = "no"
    /\ connected' = TRUE
    /\ UNCHANGED <<send_buffer, unavailable, final, pc, given, len, orig_len,
                   wire, killed>>

\* The next message is to be the last one.
SetFinal ==
    /\ ~final
    /\ pc = "idle" /\ killed = "no"
    /\ final' = TRUE
    /\ UNCHANGED <<send_buffer, unavailable, connected, pc, given, len,
                   orig_len, wire, killed>>

SendNext ==
    \/ \E n \in 1..MaxMsg : svz_sock_write(n)
    \/ Flush \/ Copy \/ Overflow
    \/ \E n \in -1..SendSize : LoopWrite(n)
    \/ Available \/ Connected \/ SetFinal

SendSpec == SendInit /\ [][SendNext]_sendVars

\* svz_sock_write runs to its end, time passes, and a peer that keeps reading
\* makes the loop's writes succeed again and again.
SendFairSpec ==
    /\ SendSpec
    /\ WF_sendVars(Flush) /\ WF_sendVars(Copy) /\ WF_sendVars(Overflow)
    /\ WF_sendVars(Available) /\ WF_sendVars(Connected)
    /\ SF_sendVars(\E n \in 1..SendSize : LoopWrite(n))

-----------------------------------------------------------------------------
(* Properties *)

SendTypeOK ==
    /\ send_buffer \in Seq(Nat) /\ Fill <= SendSize
    /\ wire \in Seq(Nat)
    /\ unavailable \in BOOLEAN /\ connected \in BOOLEAN /\ final \in BOOLEAN
    /\ pc \in {"idle", "flush", "copy"}
    /\ given \in 0..MaxBytes
    /\ len \in 0..given /\ orig_len \in len..given
    /\ killed \in {"no", "error", "final", "overflow"}

\* The peer sees the bytes in the order they were handed over, none of them
\* missing or repeated, however the writes were cut into pieces: wire and
\* buffer together hold all bytes but those svz_sock_write has not copied.
InOrder == wire \o send_buffer = [i \in 1..(given - len) |-> i]

\* SVZ_SOFLG_FINAL_WRITE, "disconnect as soon as send queue is empty", never
\* costs a byte of the last write: svz_sock_write inhibits it to prevent
\* "silently dropping the current write".
FinalComplete == killed = "final" => Len(wire) = given

\* A socket is kicked for a "send buffer overflow" only when its descriptor
\* has not taken data or is not connected; a reading peer is not kicked.
OverflowMeansStalled == killed = "overflow" => unavailable \/ ~connected

\* A connection whose last message was handed over gets closed.
FinalCloses == (final /\ Fill > 0) ~> killed # "no"
=============================================================================
