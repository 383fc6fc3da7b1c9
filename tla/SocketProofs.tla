---------------------------- MODULE SocketProofs ----------------------------
(***************************************************************************)
(* Proofs about the sockets of the core: SendBuffer and SockList.          *)
(*                                                                         *)
(* For all sizes, bounds and transports the bytes on the wire are the      *)
(* bytes handed over in their order, and the last message is sent in full  *)
(* whenever the send buffer is larger than what one svz_tcp_write_socket   *)
(* sends.  For any set of addresses, any table size and any number of      *)
(* sockets the id table and the list agree, and the list implements the    *)
(* queue of SockQueue.                                                     *)
(***************************************************************************)
EXTENDS SendBuffer, SockList, FiniteSetTheorems, SequenceTheorems, NaturalsInduction,
        WellFoundedInduction, TLAPS

-----------------------------------------------------------------------------
(* The send buffer *)

\* While svz_sock_write is under way the socket is alive and something is left
\* to be copied; once it has copied something and must go on, the buffer is
\* full; and when it is through, nothing is left.
Progress ==
    /\ pc # "idle" => killed = "no" /\ len > 0
    /\ pc = "flush" /\ len # orig_len => Fill = SendSize
    /\ pc = "idle" /\ killed = "no" => len = 0

Inv == SendTypeOK /\ InOrder /\ Progress

FirstBytes(n) == [i \in 1..n |-> i]

LEMMA FirstBytesSeq ==
    ASSUME NEW n \in Nat
    PROVE  FirstBytes(n) \in Seq(Nat) /\ Len(FirstBytes(n)) = n
  BY DEF FirstBytes

LEMMA Concat ==
    ASSUME NEW s \in Seq(Nat), NEW t \in Seq(Nat)
    PROVE  /\ s \o t \in Seq(Nat)
           /\ Len(s \o t) = Len(s) + Len(t)
           /\ \A i \in 1..(Len(s) + Len(t)) :
                (s \o t)[i] = IF i <= Len(s) THEN s[i] ELSE t[i - Len(s)]
  BY ConcatProperties

LEMMA Associative ==
    ASSUME NEW s \in Seq(Nat), NEW t \in Seq(Nat), NEW u \in Seq(Nat)
    PROVE  (s \o t) \o u = s \o (t \o u)
  BY ConcatAssociative, SMTT(60)

LEMMA Equal ==
    ASSUME NEW s \in Seq(Nat), NEW t \in Seq(Nat), Len(s) = Len(t),
           \A i \in 1..Len(s) : s[i] = t[i]
    PROVE  s = t
  BY SeqEqual

LEMMA NextBytes ==
    ASSUME NEW k \in Nat, NEW m \in Nat, NEW t, t = [i \in 1..k |-> m + i]
    PROVE  t \in Seq(Nat) /\ Len(t) = k
<1>1. \A i \in 1..k : m + i \in Nat
  OBVIOUS
<1> QED BY <1>1

\* Copying the next k bytes behind the first m gives the first m + k.
LEMMA FirstBytesConcat ==
    ASSUME NEW m \in Nat, NEW k \in Nat
    PROVE  /\ [i \in 1..k |-> m + i] \in Seq(Nat)
           /\ Len([i \in 1..k |-> m + i]) = k
           /\ FirstBytes(m) \o [i \in 1..k |-> m + i] = FirstBytes(m + k)
<1>1. PICK s \in Seq(Nat) : s = FirstBytes(m) /\ Len(s) = m
  BY FirstBytesSeq
<1>2. PICK t \in Seq(Nat) : t = [i \in 1..k |-> m + i] /\ Len(t) = k
  BY NextBytes
<1>3. PICK u \in Seq(Nat) : u = FirstBytes(m + k) /\ Len(u) = m + k
  BY FirstBytesSeq
<1>4. \A i \in 1..m : s[i] = i
  BY <1>1 DEF FirstBytes
<1>5. \A i \in 1..k : t[i] = m + i
  BY <1>2
<1>6. \A i \in 1..(m + k) : u[i] = i
  BY <1>3 DEF FirstBytes
<1>7. s \o t \in Seq(Nat) /\ Len(s \o t) = m + k
  <2>1. Len(s) = m /\ Len(t) = k
    BY <1>1, <1>2
  <2>2. s \o t \in Seq(Nat) /\ Len(s \o t) = Len(s) + Len(t)
    BY Concat
  <2> QED BY <2>1, <2>2
<1>8. ASSUME NEW i \in 1..(m + k) PROVE (s \o t)[i] = i
  <2>1. (s \o t)[i] = IF i <= m THEN s[i] ELSE t[i - m]
    BY <1>1, <1>2, Concat
  <2>2. CASE i <= m
    BY <1>4, <2>1, <2>2
  <2>3. CASE ~(i <= m)
    <3>1. i - m \in 1..k
      BY <2>3
    <3> QED BY <1>5, <2>1, <2>3, <3>1
  <2> QED BY <2>2, <2>3
<1>9. s \o t = u
  BY <1>3, <1>6, <1>7, <1>8, Equal
<1> QED BY <1>1, <1>2, <1>3, <1>9

\* svz_sock_reduce_send: sending the first n buffered bytes moves them from
\* the buffer to the wire and changes nothing else.
LEMMA WrittenKeeps ==
    ASSUME SendTypeOK, NEW n \in Results, Written(n)
    PROVE  /\ wire' \in Seq(Nat) /\ send_buffer' \in Seq(Nat)
           /\ wire' \o send_buffer' = wire \o send_buffer
           /\ Len(send_buffer') = Fill - (IF n > 0 THEN n ELSE 0)
           /\ unavailable' \in BOOLEAN
<1>1. wire \in Seq(Nat) /\ send_buffer \in Seq(Nat) /\ Fill \in Nat
  BY LenProperties DEF SendTypeOK, Fill
<1>2. CASE ~(n > 0)
  <2>1. UNCHANGED <<wire, send_buffer>> /\ unavailable' = (unavailable \/ n = 0)
    BY <1>2 DEF Written
  <2>2. wire' \o send_buffer' = wire \o send_buffer
    BY <2>1
  <2>3. unavailable' \in BOOLEAN
    BY <2>1
  <2>4. Len(send_buffer') = Fill
    BY <2>1 DEF Fill
  <2> QED BY <1>1, <1>2, <2>1, <2>2, <2>3, <2>4
<1>3. CASE n > 0
  <2>1. n \in 1..Fill
    <3>1. Smaller(Fill, MaxWrite) \in Int /\ Smaller(Fill, MaxWrite) <= Fill
      BY <1>1, SizeAssumption DEF Smaller
    <3> QED BY <1>1, <1>3, <3>1 DEF Results
  <2> DEFINE a == SubSeq(send_buffer, 1, n)
             b == SubSeq(send_buffer, n + 1, Fill)
  <2>2. wire' = wire \o a /\ send_buffer' = b /\ unavailable' = unavailable
    BY <1>3 DEF Written, Kept
  <2>3. \A i \in 1..Fill : send_buffer[i] \in Nat
    BY <1>1, ElementOfSeq DEF Fill
  <2>4. a \in Seq(Nat)
    BY <1>1, <2>1, <2>3, SubSeqProperties
  <2>5. b \in Seq(Nat) /\ Len(b) = Fill - n
    BY <1>1, <2>1, <2>3, SubSeqProperties
  <2>6. a \o b = send_buffer
    <3>1. a \o b = SubSeq(send_buffer, 1, Fill)
      BY <1>1, <2>1, ConcatAdjacentSubSeq DEF Fill
    <3> QED BY <1>1, <3>1, SubSeqFull DEF Fill
  <2> HIDE DEF a, b
  <2>7. (wire \o a) \o b = wire \o send_buffer
    BY <1>1, <2>4, <2>5, <2>6, Associative
  <2>8. wire \o a \in Seq(Nat)
    BY <1>1, <2>4, Concat
  <2> QED BY <1>3, <2>2, <2>5, <2>7, <2>8 DEF SendTypeOK
<1> QED BY <1>2, <1>3

LEMMA InitInv == SendInit => Inv
<1> SUFFICES ASSUME SendInit PROVE Inv
  OBVIOUS
<1>1. SendTypeOK
  <2>1. send_buffer \in Seq(Nat) /\ wire \in Seq(Nat) /\ Fill = 0
    BY DEF SendInit, Fill
  <2>2. given \in 0..MaxBytes /\ len \in 0..given /\ orig_len \in len..given
    BY BoundAssumption DEF SendInit
  <2>3. Fill <= SendSize
    BY <2>1, SizeAssumption
  <2>4. /\ unavailable \in BOOLEAN /\ connected \in BOOLEAN /\ final \in BOOLEAN
        /\ pc \in {"idle", "flush", "copy"}
        /\ killed \in {"no", "error", "final", "overflow"}
    BY DEF SendInit
  <2> QED BY <2>1, <2>2, <2>3, <2>4 DEF SendTypeOK
<1>2. InOrder
  <2>1. given - len = 0 /\ wire \o send_buffer = <<>>
    BY DEF SendInit
  <2> QED BY <2>1 DEF InOrder
<1>3. Progress
  BY DEF SendInit, Progress
<1> QED BY <1>1, <1>2, <1>3 DEF Inv

\* What write_socket does to the part of the state it may change.
LEMMA WriteStep ==
    ASSUME Inv, NEW n \in Results, Written(n), NEW f,
           killed' = Verdict(f, n),
           UNCHANGED <<connected, given, len, orig_len>>,
           pc' \in {"idle", "flush", "copy"}, final' \in BOOLEAN
    PROVE  SendTypeOK' /\ InOrder'
<1>1. /\ wire' \in Seq(Nat) /\ send_buffer' \in Seq(Nat)
      /\ wire' \o send_buffer' = wire \o send_buffer
      /\ Len(send_buffer') = Fill - (IF n > 0 THEN n ELSE 0)
      /\ unavailable' \in BOOLEAN
  BY WrittenKeeps DEF Inv
<1>2. Len(send_buffer') <= SendSize
  <2>1. Fill \in Nat /\ Fill <= SendSize
    BY LenProperties DEF Inv, SendTypeOK, Fill
  <2>2. n \in Int
    BY <2>1, SizeAssumption DEF Results, Smaller
  <2> QED BY <1>1, <2>1, <2>2, SizeAssumption
<1>3. killed' \in {"no", "error", "final", "overflow"}
  BY DEF Verdict
<1>4. SendTypeOK'
  BY <1>1, <1>2, <1>3 DEF Inv, SendTypeOK, Fill
<1>5. InOrder'
  BY <1>1 DEF Inv, InOrder
<1> QED BY <1>4, <1>5

LEMMA FlushStep == Inv /\ Flush => Inv'
<1> SUFFICES ASSUME Inv, Flush PROVE Inv'
  OBVIOUS
<1>1. UNCHANGED <<connected, given, len, orig_len>> /\ pc = "flush"
  BY DEF Flush
<1>2. killed = "no" /\ len > 0 /\ final \in BOOLEAN
  BY <1>1 DEF Inv, Progress, SendTypeOK
<1>3. CASE Flushable
  <2>1. PICK n \in Results :
          /\ Written(n)
          /\ killed' = Verdict(final /\ ~Inhibit, n)
          /\ final' = Restored(Inhibit, killed' # "no")
          /\ pc' = IF killed' # "no" THEN "idle" ELSE "copy"
    BY <1>3 DEF Flush
  <2>2. final' \in BOOLEAN /\ pc' \in {"idle", "copy"}
    BY <1>2, <2>1 DEF Restored
  <2>3. SendTypeOK' /\ InOrder'
    BY <1>1, <2>1, <2>2, WriteStep
  <2>4. Progress'
    BY <1>1, <1>2, <2>1 DEF Progress
  <2> QED BY <2>3, <2>4 DEF Inv
<1>4. CASE ~Flushable
  <2>1. pc' = "copy" /\ UNCHANGED <<send_buffer, unavailable, wire, killed, final>>
    BY <1>4 DEF Flush
  <2>2. SendTypeOK' /\ InOrder'
    BY <1>1, <2>1 DEF Inv, SendTypeOK, InOrder, Fill
  <2>3. Progress'
    BY <1>1, <1>2, <2>1 DEF Progress
  <2> QED BY <2>2, <2>3 DEF Inv
<1> QED BY <1>3, <1>4

LEMMA LoopWriteStep == ASSUME Inv, NEW n, LoopWrite(n) PROVE Inv'
<1>1. /\ n \in Results /\ Written(n) /\ killed' = Verdict(final, n)
      /\ pc = "idle" /\ killed = "no"
      /\ UNCHANGED <<connected, final, pc, given, len, orig_len>>
  BY DEF LoopWrite
<1>2. final' \in BOOLEAN /\ pc' \in {"idle", "flush", "copy"}
  BY <1>1 DEF Inv, SendTypeOK
<1>3. SendTypeOK' /\ InOrder'
  BY <1>1, <1>2, WriteStep
<1>4. Progress'
  BY <1>1 DEF Inv, Progress
<1> QED BY <1>3, <1>4 DEF Inv

\* Copying fills the buffer or finishes the message.
LEMMA CopyStep == Inv /\ Copy => Inv'
<1> SUFFICES ASSUME Inv, Copy PROVE Inv'
  OBVIOUS
<1>1. PICK n : n = Smaller(len, SendSize - Fill)
  OBVIOUS
<1>2. /\ pc = "copy" /\ Fill < SendSize
      /\ send_buffer' = Copied(n) /\ len' = len - n
      /\ pc' = IF n = len THEN "idle" ELSE "flush"
      /\ UNCHANGED <<unavailable, connected, final, given, orig_len, wire, killed>>
  BY <1>1 DEF Copy
<1>3. killed = "no" /\ len > 0
  BY <1>2 DEF Inv, Progress
<1>4. /\ wire \in Seq(Nat) /\ send_buffer \in Seq(Nat) /\ Fill \in Nat
      /\ given \in Nat /\ given <= MaxBytes
      /\ len \in Nat /\ len <= given
      /\ orig_len \in Nat /\ len <= orig_len /\ orig_len <= given
      /\ SendSize \in Nat /\ MaxBytes \in Nat
  BY LenProperties, SizeAssumption, BoundAssumption DEF Inv, SendTypeOK, Fill
<1>5. n \in Nat /\ n > 0 /\ n <= len /\ n <= SendSize - Fill
      /\ (n # len => n = SendSize - Fill)
  BY <1>1, <1>2, <1>3, <1>4 DEF Smaller
<1>6. PICK t : t = [i \in 1..n |-> given - len + i]
  OBVIOUS
<1>7. PICK m \in Nat : m = given - len
  BY <1>4
<1>8. /\ t \in Seq(Nat) /\ Len(t) = n
      /\ FirstBytes(m) \o t = FirstBytes(m + n)
  <2>1. t = [i \in 1..n |-> m + i]
    BY <1>6, <1>7
  <2> QED BY <1>5, <2>1, FirstBytesConcat
<1>9. wire \o send_buffer = FirstBytes(m)
  BY <1>7 DEF Inv, InOrder, FirstBytes
<1>10. send_buffer' = send_buffer \o t
  BY <1>2, <1>6 DEF Copied
<1>11. send_buffer' \in Seq(Nat) /\ Len(send_buffer') = Fill + n
  BY <1>4, <1>8, <1>10, Concat DEF Fill
<1>12. SendTypeOK'
  <2>1. Len(send_buffer') <= SendSize
    BY <1>4, <1>5, <1>11
  <2>2. len' \in 0..given' /\ orig_len' \in len'..given' /\ given' \in 0..MaxBytes
    BY <1>2, <1>4, <1>5
  <2>3. pc' \in {"idle", "flush", "copy"}
    BY <1>2
  <2> QED BY <1>2, <1>11, <2>1, <2>2, <2>3 DEF Inv, SendTypeOK, Fill
<1>13. InOrder'
  <2>1. wire \o (send_buffer \o t) = (wire \o send_buffer) \o t
    BY <1>4, <1>8, Associative
  <2>2. wire' \o send_buffer' = FirstBytes(m + n)
    BY <1>2, <1>8, <1>9, <1>10, <2>1
  <2>3. given' - len' = m + n
    BY <1>2, <1>4, <1>5, <1>7
  <2> QED BY <2>2, <2>3 DEF InOrder, FirstBytes
<1>14. Progress'
  <2>1. CASE n = len
    BY <1>2, <1>4, <2>1 DEF Progress
  <2>2. CASE n # len
    <3>1. len' > 0 /\ Len(send_buffer') = SendSize
      BY <1>2, <1>4, <1>5, <1>11, <2>2
    <3> QED BY <1>2, <1>3, <2>2, <3>1 DEF Progress, Fill
  <2> QED BY <2>1, <2>2
<1> QED BY <1>12, <1>13, <1>14 DEF Inv

LEMMA NextInv == Inv /\ [SendNext]_sendVars => Inv'
<1> SUFFICES ASSUME Inv, [SendNext]_sendVars PROVE Inv'
  OBVIOUS
<1>1. ASSUME NEW n \in 1..MaxMsg, svz_sock_write(n) PROVE Inv'
  <2>1. /\ given \in Nat /\ n \in Nat /\ n > 0 /\ len = 0
        /\ given' = given + n /\ given' <= MaxBytes /\ len' = n /\ orig_len' = n
        /\ MaxBytes \in Nat
    BY <1>1, BoundAssumption DEF svz_sock_write, Inv, SendTypeOK, Progress
  <2>2. /\ given' \in 0..MaxBytes /\ len' \in 0..given' /\ orig_len' \in len'..given'
        /\ given' - len' = given - len
    BY <2>1
  <2>3. SendTypeOK'
    BY <1>1, <2>2 DEF svz_sock_write, Inv, SendTypeOK, Fill
  <2>4. InOrder'
    BY <1>1, <2>2 DEF svz_sock_write, Inv, InOrder
  <2>5. Progress'
    BY <1>1, <2>1 DEF svz_sock_write, Progress
  <2> QED BY <2>3, <2>4, <2>5 DEF Inv
<1>2. CASE Overflow
  <2>1. SendTypeOK'
    BY <1>2 DEF Overflow, Inv, SendTypeOK, Fill
  <2>2. InOrder' /\ Progress'
    BY <1>2 DEF Overflow, Inv, InOrder, Progress
  <2> QED BY <2>1, <2>2 DEF Inv
<1>3. CASE Available
  <2>1. SendTypeOK'
    BY <1>3 DEF Available, Inv, SendTypeOK, Fill
  <2>2. InOrder' /\ Progress'
    BY <1>3 DEF Available, Inv, InOrder, Progress, Fill
  <2> QED BY <2>1, <2>2 DEF Inv
<1>4. CASE Connected
  <2>1. SendTypeOK'
    BY <1>4 DEF Connected, Inv, SendTypeOK, Fill
  <2>2. InOrder' /\ Progress'
    BY <1>4 DEF Connected, Inv, InOrder, Progress, Fill
  <2> QED BY <2>1, <2>2 DEF Inv
<1>5. CASE SetFinal
  <2>1. SendTypeOK'
    BY <1>5 DEF SetFinal, Inv, SendTypeOK, Fill
  <2>2. InOrder' /\ Progress'
    BY <1>5 DEF SetFinal, Inv, InOrder, Progress, Fill
  <2> QED BY <2>1, <2>2 DEF Inv
<1>6. CASE UNCHANGED sendVars
  <2>1. SendTypeOK'
    BY <1>6 DEF sendVars, Inv, SendTypeOK, Fill
  <2>2. InOrder' /\ Progress'
    BY <1>6 DEF sendVars, Inv, InOrder, Progress, Fill
  <2> QED BY <2>1, <2>2 DEF Inv
<1> QED BY <1>1, <1>2, <1>3, <1>4, <1>5, <1>6, FlushStep, CopyStep,
           LoopWriteStep DEF SendNext

\* svz_sock_write and write_socket never lose, repeat or reorder a byte on a
\* connection that lives, for any buffer size and any results of send.
THEOREM InOrderCorrect == SendSpec => [](SendTypeOK /\ InOrder)
<1>1. SendInit => Inv
  BY InitInv
<1>2. Inv /\ [SendNext]_sendVars => Inv'
  BY NextInv
<1>3. Inv => SendTypeOK /\ InOrder
  BY DEF Inv
<1> QED BY <1>1, <1>2, <1>3, PTL DEF SendSpec

\* Closing because of SVZ_SOFLG_FINAL_WRITE empties the buffer in one call.
\* That never happens in the middle of svz_sock_write if the buffer, which is
\* full then, is larger than what one call sends; between two calls of it all
\* bytes have been copied.
LEMMA FinalStep ==
    ASSUME MaxWrite < SendSize, Inv, FinalComplete, [SendNext]_sendVars
    PROVE  FinalComplete'
<1>1. /\ wire \in Seq(Nat) /\ send_buffer \in Seq(Nat) /\ Fill \in Nat
      /\ given \in Nat /\ len \in Nat /\ SendSize \in Nat /\ MaxWrite \in Nat
  BY LenProperties, SizeAssumption DEF Inv, SendTypeOK, Fill
<1>2. ASSUME NEW n \in Results, Written(n), NEW f, killed' = Verdict(f, n),
             UNCHANGED given, len = 0
      PROVE  FinalComplete'
  <2> SUFFICES ASSUME Verdict(f, n) = "final" PROVE Len(wire') = given
    BY <1>2 DEF FinalComplete
  <2>1. Closes(f, n)
    BY DEF Verdict
  <2>2. PICK w \in Seq(Nat), b \in Seq(Nat) : w = wire' /\ b = send_buffer'
    BY <1>2, WrittenKeeps DEF Inv
  <2>3. Len(b) = 0
    <3>1. Len(b) = Fill - (IF n > 0 THEN n ELSE 0)
      BY <1>2, <2>2, WrittenKeeps DEF Inv
    <3> QED BY <1>1, <2>1, <3>1 DEF Closes
  <2>4. w \o b = FirstBytes(given)
    <3>1. w \o b = wire \o send_buffer
      BY <1>2, <2>2, WrittenKeeps DEF Inv
    <3> QED BY <1>1, <1>2, <3>1 DEF Inv, InOrder, FirstBytes
  <2>5. Len(w) + Len(b) = given
    <3>1. Len(w \o b) = Len(w) + Len(b)
      BY Concat
    <3>2. Len(FirstBytes(given)) = given
      BY <1>1, FirstBytesSeq
    <3> QED BY <2>4, <3>1, <3>2
  <2>6. Len(w) \in Nat
    BY LenProperties
  <2> QED BY <2>2, <2>3, <2>5, <2>6
<1>3. CASE Flush
  <2>1. CASE Flushable
    <3>1. PICK n \in Results :
            Written(n) /\ killed' = Verdict(final /\ ~Inhibit, n)
      BY <1>3, <2>1 DEF Flush
    <3>2. SUFFICES ~Closes(final /\ ~Inhibit, n)
      BY <3>1 DEF FinalComplete, Verdict
    <3>3. SUFFICES ASSUME Transport = "tcp", final, ~Inhibit,
                          Fill = IF n > 0 THEN n ELSE 0
                   PROVE  FALSE
      BY DEF Closes
    <3>4. Fill = SendSize
      <4>1. orig_len # len
        BY <3>3 DEF Inhibit
      <4> QED BY <1>3, <4>1 DEF Flush, Inv, Progress
    <3>5. n <= MaxWrite
      BY <1>1, <3>3 DEF Results, Smaller
    <3>6. n \in Int
      BY <1>1 DEF Results, Smaller
    <3> QED BY <1>1, <3>3, <3>4, <3>5, <3>6
  <2>2. CASE ~Flushable
    BY <1>3, <2>2 DEF Flush, FinalComplete
  <2> QED BY <2>1, <2>2
<1>4. ASSUME NEW n, LoopWrite(n) PROVE FinalComplete'
  <2>1. len = 0
    BY <1>4 DEF LoopWrite, Inv, Progress
  <2> QED BY <1>2, <1>4, <2>1 DEF LoopWrite
<1>5. ASSUME NEW n, svz_sock_write(n) PROVE FinalComplete'
  BY <1>5 DEF svz_sock_write, FinalComplete
<1>6. CASE Copy
  BY <1>6 DEF Copy, FinalComplete
<1>7. CASE Overflow
  BY <1>7 DEF Overflow, FinalComplete
<1>8. CASE Available
  BY <1>8 DEF Available, FinalComplete
<1>9. CASE Connected
  BY <1>9 DEF Connected, FinalComplete
<1>10. CASE SetFinal
  BY <1>10 DEF SetFinal, FinalComplete
<1>11. CASE UNCHANGED sendVars
  BY <1>11 DEF sendVars, FinalComplete
<1> QED BY <1>3, <1>4, <1>5, <1>6, <1>7, <1>8, <1>9, <1>10, <1>11 DEF SendNext

\* With a send buffer larger than SVZ_SOCK_MAX_WRITE a connection that is
\* closed by SVZ_SOFLG_FINAL_WRITE has sent all that was handed over.  The
\* hypothesis is needed: MCSendBufferSmall shows a loss without it.
THEOREM FinalWriteComplete ==
    ASSUME MaxWrite < SendSize
    PROVE  SendSpec => []FinalComplete
<1>1. SendInit => Inv /\ FinalComplete
  BY InitInv DEF SendInit, FinalComplete
<1>2. Inv /\ FinalComplete /\ [SendNext]_sendVars => Inv' /\ FinalComplete'
  BY NextInv, FinalStep
<1> QED BY <1>1, <1>2, PTL DEF SendSpec

\* A flush of an available, connected socket makes room, so that overflows
\* only hit sockets that do not take data.
THEOREM OverflowCorrect == SendSpec => []OverflowMeansStalled
<1> DEFINE Stalled ==
             /\ OverflowMeansStalled
             /\ pc = "copy" => unavailable \/ ~connected \/ Fill < SendSize
<1>1. SendInit => Inv /\ Stalled
  BY InitInv DEF SendInit, OverflowMeansStalled
<1>2. ASSUME Inv, Stalled, [SendNext]_sendVars PROVE Stalled'
  <2>1. CASE Flush
    <3>1. /\ Fill \in Nat /\ SendSize \in Nat \ {0} /\ MaxWrite \in Nat
          /\ Fill <= SendSize /\ pc = "flush" /\ killed = "no"
          /\ connected' = connected
      BY <1>2, <2>1, LenProperties, SizeAssumption
         DEF Flush, Inv, SendTypeOK, Fill, Progress
    <3>2. CASE Flushable
      <4>1. PICK n \in Results :
              /\ Written(n) /\ killed' = Verdict(final /\ ~Inhibit, n)
              /\ pc' = IF killed' # "no" THEN "idle" ELSE "copy"
        BY <2>1, <3>2 DEF Flush
      <4>2. killed' # "overflow"
        BY <4>1 DEF Verdict
      <4>3. n \in Int
        BY <3>1 DEF Results, Smaller
      <4>4. CASE n > 0
        <5>1. Len(send_buffer') = Fill - n
          BY <4>1, <4>4, WrittenKeeps, <1>2 DEF Inv
        <5>2. Len(send_buffer') < SendSize
          BY <3>1, <4>3, <4>4, <5>1
        <5> QED BY <4>2, <5>2 DEF OverflowMeansStalled, Fill
      <4>5. CASE n = 0
        <5>1. ~(n > 0)
          BY <4>5
        <5>2. unavailable' = (unavailable \/ n = 0)
          BY <4>1, <5>1 DEF Written
        <5>3. unavailable'
          BY <4>5, <5>2, Zenon
        <5> QED BY <4>2, <5>3 DEF OverflowMeansStalled
      <4>6. CASE n < 0
        <5>1. pc' = "idle"
          BY <4>1, <4>6 DEF Verdict
        <5> QED BY <4>2, <5>1 DEF OverflowMeansStalled
      <4> QED BY <4>3, <4>4, <4>5, <4>6
    <3>3. CASE ~Flushable
      <4>1. UNCHANGED <<send_buffer, unavailable, killed>>
        BY <2>1, <3>3 DEF Flush
      <4>2. unavailable \/ ~connected \/ Fill = 0
        BY <3>1, <3>3 DEF Flushable
      <4>3. unavailable' \/ ~connected' \/ Len(send_buffer') < SendSize
        BY <3>1, <4>1, <4>2 DEF Fill
      <4> QED BY <3>1, <4>1, <4>3 DEF OverflowMeansStalled, Fill
    <3> QED BY <3>2, <3>3
  <2>2. ASSUME NEW n, LoopWrite(n) PROVE Stalled'
    <3>1. pc' = "idle" /\ killed' # "overflow"
      BY <2>2 DEF LoopWrite, Verdict
    <3> QED BY <3>1 DEF OverflowMeansStalled
  <2>3. ASSUME NEW n, svz_sock_write(n) PROVE Stalled'
    BY <1>2, <2>3 DEF svz_sock_write, OverflowMeansStalled
  <2>4. CASE Copy
    <3>1. pc' # "copy" /\ UNCHANGED <<unavailable, connected, killed>>
      BY <2>4 DEF Copy
    <3> QED BY <1>2, <3>1 DEF OverflowMeansStalled
  <2>5. CASE Overflow
    <3>1. /\ Fill \in Nat /\ SendSize \in Nat /\ pc = "copy" /\ pc' = "idle"
          /\ Fill >= SendSize /\ UNCHANGED <<unavailable, connected>>
      BY <1>2, <2>5, LenProperties, SizeAssumption DEF Overflow, Inv, SendTypeOK, Fill
    <3>2. unavailable' \/ ~connected'
      BY <1>2, <3>1
    <3> QED BY <3>1, <3>2 DEF OverflowMeansStalled
  <2>6. CASE Available
    BY <1>2, <2>6 DEF Available, OverflowMeansStalled
  <2>7. CASE Connected
    BY <1>2, <2>7 DEF Connected, OverflowMeansStalled
  <2>8. CASE SetFinal
    BY <1>2, <2>8 DEF SetFinal, OverflowMeansStalled
  <2>9. CASE UNCHANGED sendVars
    BY <1>2, <2>9 DEF sendVars, OverflowMeansStalled, Fill
  <2> QED BY <1>2, <2>1, <2>2, <2>3, <2>4, <2>5, <2>6, <2>7, <2>8, <2>9 DEF SendNext
<1>3. Stalled => OverflowMeansStalled
  OBVIOUS
<1> HIDE DEF Stalled
<1>4. Inv /\ Stalled /\ [SendNext]_sendVars => Inv' /\ Stalled'
  BY <1>2, NextInv
<1> QED BY <1>1, <1>3, <1>4, PTL DEF SendSpec

-----------------------------------------------------------------------------
(* The list of sockets and the id table *)

USE NullAssumption, LimitAssumption, VersionAssumption

\* Masking keeps a probe inside of the table.
LEMMA MaskedInRange ==
    ASSUME TypeOK, NEW i \in Nat
    PROVE  Masked(sock_id + i) \in Slots
BY DEF TypeOK, Masked, Slots

\* svz_sock_unique_id hands out an id of the (new) table.
LEMMA UniqueIdType ==
    ASSUME TypeOK, NEW s \in Sock, sock_version < MaxVersion,
           svz_sock_unique_id(s)
    PROVE  /\ sock_limit' \in Nat /\ sock_limit' >= SockLimit
           /\ socktab' \in [Slots' -> Ptr]
           /\ sock_id' \in Slots'
           /\ sock_version' \in 0..MaxVersion
           /\ id' \in [Sock -> Nat] /\ version' \in [Sock -> Nat]
<1>1. ASSUME NEW i \in 1..sock_limit,
             sock_id' = Masked(sock_id + i), UNCHANGED <<socktab, sock_limit>>
      PROVE  /\ sock_limit' \in Nat /\ sock_limit' >= SockLimit
             /\ socktab' \in [Slots' -> Ptr]
             /\ sock_id' \in Slots'
  <2>1. Masked(sock_id + i) \in Slots
    BY MaskedInRange
  <2> QED BY <1>1, <2>1 DEF TypeOK, Slots
<1>2. ASSUME sock_id' = sock_limit, sock_limit' = 2 * sock_limit,
             socktab' = [i \in 0..(2 * sock_limit - 1) |->
                            IF i \in Slots THEN socktab[i] ELSE NULL]
      PROVE  /\ sock_limit' \in Nat /\ sock_limit' >= SockLimit
             /\ socktab' \in [Slots' -> Ptr]
             /\ sock_id' \in Slots'
  BY <1>2 DEF TypeOK, Slots, Ptr
<1>3. /\ sock_limit' \in Nat /\ sock_limit' >= SockLimit
      /\ socktab' \in [Slots' -> Ptr]
      /\ sock_id' \in Slots'
  BY <1>1, <1>2 DEF svz_sock_unique_id
<1>4. sock_id' \in Nat
  BY <1>3 DEF Slots
<1> QED BY <1>3, <1>4 DEF svz_sock_unique_id, TypeOK

\* By TableOK and IdReserved svz_sock_enqueue does not refuse, so this is all
\* that Accept and Enqueue do to the table.
LEMMA EnqueueEffect ==
    ASSUME TypeOK, TableOK, IdReserved, floating # NULL,
           svz_sock_enqueue(floating), UNCHANGED sock_limit
    PROVE  /\ floating \in heap /\ floating \in Sock
           /\ ~Refused(floating)
           /\ last_socket' = floating
           /\ enqueued' = enqueued \cup {floating}
           /\ socktab' = [socktab EXCEPT ![id[floating]] = floating]
           /\ Slots' = Slots /\ socktab' \in [Slots' -> Ptr]
           /\ svz_sock_root' \in Ptr
           /\ next' \in [Sock -> Ptr] /\ prev' \in [Sock -> Ptr]
<1>1. floating \in heap /\ floating \in Sock
  BY DEF TypeOK
<1>2. ~Refused(floating)
  BY DEF Refused, IdReserved, TypeOK
<1>3. /\ last_socket' = floating
      /\ enqueued' = enqueued \cup {floating}
      /\ socktab' = [socktab EXCEPT ![id[floating]] = floating]
  BY <1>2 DEF svz_sock_enqueue
<1>4. /\ next \in [Sock -> Ptr] /\ prev \in [Sock -> Ptr]
      /\ socktab \in [Slots -> Ptr] /\ svz_sock_root \in Ptr
      /\ last_socket \in Ptr /\ floating \in Ptr /\ NULL \in Ptr
      /\ Slots' = Slots
  BY <1>1 DEF TypeOK, Ptr, Slots
<1>5. next' \in [Sock -> Ptr]
  <2>1. CASE svz_sock_root = NULL
    BY <1>2, <1>4, <2>1 DEF svz_sock_enqueue
  <2>2. CASE svz_sock_root # NULL
    BY <1>2, <1>4, <2>2 DEF svz_sock_enqueue
  <2> QED BY <2>1, <2>2
<1>6. prev' \in [Sock -> Ptr] /\ svz_sock_root' \in Ptr
  BY <1>2, <1>4 DEF svz_sock_enqueue
<1>7. socktab' \in [Slots' -> Ptr]
  BY <1>3, <1>4
<1> QED BY <1>1, <1>2, <1>3, <1>4, <1>5, <1>6, <1>7

\* By TableOK dequeue finds an enqueued socket in the table.
LEMMA DequeueEffect ==
    ASSUME TypeOK, TableOK, NEW s \in enqueued, dequeue(s),
           UNCHANGED sock_limit
    PROVE  /\ s \in heap /\ s \in Sock
           /\ next' = [x \in Sock |->
                        IF x = s THEN NULL
                        ELSE IF x = prev[s] THEN next[s] ELSE next[x]]
           /\ prev' = [x \in Sock |->
                        IF x = s THEN NULL
                        ELSE IF x = next[s] THEN prev[s] ELSE prev[x]]
           /\ last_socket' = IF next[s] = NULL THEN prev[s] ELSE last_socket
           /\ svz_sock_root' = IF prev[s] = NULL THEN next[s]
                               ELSE svz_sock_root
           /\ enqueued' = enqueued \ {s}
           /\ socktab' = [socktab EXCEPT ![id[s]] = NULL]
           /\ Slots' = Slots /\ socktab' \in [Slots' -> Ptr]
           /\ svz_sock_root' \in Ptr /\ last_socket' \in Ptr
           /\ next' \in [Sock -> Ptr] /\ prev' \in [Sock -> Ptr]
<1>1. s \in heap /\ s \in Sock
  BY DEF TypeOK
<1>2. ~(socktab[id[s]] = NULL \/ s \notin enqueued)
  BY <1>1 DEF TableOK
<1>3. /\ next' = [x \in Sock |->
                   IF x = s THEN NULL
                   ELSE IF x = prev[s] THEN next[s] ELSE next[x]]
      /\ prev' = [x \in Sock |->
                   IF x = s THEN NULL
                   ELSE IF x = next[s] THEN prev[s] ELSE prev[x]]
      /\ last_socket' = IF next[s] = NULL THEN prev[s] ELSE last_socket
      /\ svz_sock_root' = IF prev[s] = NULL THEN next[s] ELSE svz_sock_root
      /\ enqueued' = enqueued \ {s}
      /\ socktab' = [socktab EXCEPT ![id[s]] = NULL]
  BY <1>2 DEF dequeue
<1>4. /\ next \in [Sock -> Ptr] /\ prev \in [Sock -> Ptr]
      /\ socktab \in [Slots -> Ptr] /\ svz_sock_root \in Ptr
      /\ last_socket \in Ptr /\ NULL \in Ptr
      /\ Slots' = Slots
  BY DEF TypeOK, Ptr, Slots
<1>5. next' \in [Sock -> Ptr]
  BY <1>1, <1>3, <1>4
<1>6. prev' \in [Sock -> Ptr]
  BY <1>1, <1>3, <1>4
<1>7. svz_sock_root' \in Ptr /\ last_socket' \in Ptr
  BY <1>1, <1>3, <1>4
<1>8. socktab' \in [Slots' -> Ptr]
  BY <1>3, <1>4
<1> QED BY <1>1, <1>3, <1>4, <1>5, <1>6, <1>7, <1>8

LEMMA FreeType ==
    ASSUME TypeOK, NEW s \in heap, svz_sock_free(s)
    PROVE  /\ parent' \in [Sock -> Int \X Int]
           /\ referrer' \in [Sock -> Int \X Int]
           /\ trueParent' \in [Sock -> Ptr] /\ trueReferrer' \in [Sock -> Ptr]
BY DEF TypeOK, Ptr, svz_sock_free, Unset

\* Every step keeps the types.
LEMMA TypeStep ==
    ASSUME TypeOK, TableOK, IdReserved, [Next]_vars
    PROVE  TypeOK'
<1>1. ASSUME NEW s \in Sock, NEW l \in BOOLEAN, svz_sock_create(s, l)
      PROVE  TypeOK'
  <2>1. svz_sock_unique_id(s) /\ sock_version < MaxVersion
    BY <1>1 DEF svz_sock_create
  <2>2. /\ sock_limit' \in Nat /\ sock_limit' >= SockLimit
        /\ socktab' \in [Slots' -> Ptr]
        /\ sock_id' \in Slots'
        /\ sock_version' \in 0..MaxVersion
        /\ id' \in [Sock -> Nat] /\ version' \in [Sock -> Nat]
    BY <2>1, UniqueIdType
  <2>3. /\ heap' \subseteq Sock /\ enqueued' \subseteq heap'
        /\ listening' \subseteq heap'
        /\ floating' \in heap' \cup {NULL} /\ floating' \notin enqueued'
    BY <1>1 DEF svz_sock_create, TypeOK
  <2> QED BY <1>1, <2>2, <2>3 DEF svz_sock_create, TypeOK, listVars, refVars
<1>2. ASSUME NEW p \in Sock, Accept(p)
      PROVE  TypeOK'
  <2>1. /\ svz_sock_root' \in Ptr /\ last_socket' = floating
        /\ next' \in [Sock -> Ptr] /\ prev' \in [Sock -> Ptr]
        /\ socktab' \in [Slots' -> Ptr] /\ Slots' = Slots
        /\ enqueued' = enqueued \cup {floating}
        /\ floating \in heap /\ floating \in Sock
    BY <1>2, EnqueueEffect DEF Accept
  <2>2. /\ parent' \in [Sock -> Int \X Int]
        /\ trueParent' \in [Sock -> Ptr]
    BY <1>2, <2>1 DEF Accept, TypeOK, Ptr
  <2>3. floating' = NULL /\ NULL \notin heap' /\ enqueued' \subseteq heap'
    BY <1>2, <2>1 DEF Accept, TypeOK
  <2>4. last_socket' \in Ptr
    BY <2>1 DEF Ptr
  <2> QED BY <1>2, <2>1, <2>2, <2>3, <2>4 DEF Accept, TypeOK
<1>3. ASSUME Enqueue
      PROVE  TypeOK'
  <2>1. /\ svz_sock_root' \in Ptr /\ last_socket' = floating
        /\ next' \in [Sock -> Ptr] /\ prev' \in [Sock -> Ptr]
        /\ socktab' \in [Slots' -> Ptr] /\ Slots' = Slots
        /\ enqueued' = enqueued \cup {floating}
        /\ floating \in heap /\ floating \in Sock
    BY <1>3, EnqueueEffect DEF Enqueue
  <2>2. floating' = NULL /\ NULL \notin heap' /\ enqueued' \subseteq heap'
    BY <1>3, <2>1 DEF Enqueue, TypeOK
  <2>3. last_socket' \in Ptr
    BY <2>1 DEF Ptr
  <2> QED BY <1>3, <2>1, <2>2, <2>3 DEF Enqueue, TypeOK, refVars
<1>4. ASSUME Discard
      PROVE  TypeOK'
  <2>1. floating \in heap
    BY <1>4 DEF Discard, TypeOK
  <2>2. /\ parent' \in [Sock -> Int \X Int]
        /\ referrer' \in [Sock -> Int \X Int]
        /\ trueParent' \in [Sock -> Ptr] /\ trueReferrer' \in [Sock -> Ptr]
    BY <1>4, <2>1, FreeType DEF Discard
  <2>3. /\ heap' \subseteq Sock /\ enqueued' \subseteq heap'
        /\ listening' \subseteq heap'
        /\ floating' \in heap' \cup {NULL} /\ floating' \notin enqueued'
    BY <1>4 DEF Discard, svz_sock_free, TypeOK
  <2> QED BY <1>4, <2>2, <2>3 DEF Discard, TypeOK, listVars, tabVars, Slots
<1>5. ASSUME NEW s \in Sock, svz_sock_shutdown(s)
      PROVE  TypeOK'
  <2>1. s \in enqueued /\ s \in heap
    BY <1>5 DEF svz_sock_shutdown, TypeOK
  <2>2. /\ svz_sock_root' \in Ptr /\ last_socket' \in Ptr
        /\ next' \in [Sock -> Ptr] /\ prev' \in [Sock -> Ptr]
        /\ socktab' \in [Slots' -> Ptr] /\ Slots' = Slots
        /\ enqueued' = enqueued \ {s}
    BY <1>5, <2>1, DequeueEffect DEF svz_sock_shutdown
  <2>3. /\ parent' \in [Sock -> Int \X Int]
        /\ referrer' \in [Sock -> Int \X Int]
        /\ trueParent' \in [Sock -> Ptr] /\ trueReferrer' \in [Sock -> Ptr]
    BY <1>5, <2>1, FreeType DEF svz_sock_shutdown
  <2>4. /\ heap' \subseteq Sock /\ enqueued' \subseteq heap'
        /\ listening' \subseteq heap'
        /\ floating' \in heap' \cup {NULL} /\ floating' \notin enqueued'
    BY <1>5, <2>1, <2>2 DEF svz_sock_shutdown, svz_sock_free, TypeOK
  <2> QED BY <1>5, <2>2, <2>3, <2>4 DEF svz_sock_shutdown, TypeOK
<1>6. ASSUME NEW s \in Sock, NEW t \in Sock, SetReferrers(s, t)
      PROVE  TypeOK'
  <2>1. referrer' \in [Sock -> Int \X Int]
    <3>1. <<id[s], version[s]>> \in Int \X Int /\ <<id[t], version[t]>> \in Int \X Int
      BY DEF TypeOK
    <3> QED BY <1>6, <3>1 DEF SetReferrers, TypeOK
  <2>2. trueReferrer' \in [Sock -> Ptr]
    BY <1>6 DEF SetReferrers, TypeOK, Ptr
  <2> QED BY <1>6, <2>1, <2>2 DEF SetReferrers, TypeOK, listVars, tabVars, Slots
<1>7. ASSUME NEW s \in Sock, ClearReferrers(s)
      PROVE  TypeOK'
  <2> DEFINE x == svz_sock_getreferrer(s)
  <2>0. /\ referrer' = [referrer EXCEPT ![s] = NoReferrer, ![x] = NoReferrer]
        /\ trueReferrer' = [trueReferrer EXCEPT ![s] = NULL, ![x] = NULL]
    BY <1>7 DEF ClearReferrers
  <2> HIDE DEF x
  <2>1. referrer' \in [Sock -> Int \X Int]
    <3>1. NoReferrer \in Int \X Int
      BY DEF NoReferrer
    <3> QED BY <2>0, <3>1 DEF TypeOK
  <2>2. trueReferrer' \in [Sock -> Ptr]
    <3>1. NULL \in Ptr
      BY DEF Ptr
    <3> QED BY <2>0, <3>1 DEF TypeOK
  <2> QED BY <1>7, <2>1, <2>2
          DEF ClearReferrers, TypeOK, listVars, tabVars, Slots
<1>8. ASSUME rechain_list_of_socks
      PROVE  TypeOK'
  <2>1. PICK at \in enqueued :
          /\ next' = [x \in Sock |->
                        IF x = prev[last_socket] THEN NULL
                        ELSE IF x = last_socket THEN at
                        ELSE IF x = prev[at] THEN last_socket ELSE next[x]]
          /\ prev' = [prev EXCEPT ![last_socket] = prev[at],
                                  ![at] = last_socket]
          /\ svz_sock_root' = IF prev[at] = NULL THEN last_socket
                              ELSE svz_sock_root
          /\ last_socket' = prev[last_socket]
    BY <1>8 DEF rechain_list_of_socks
  <2>2. at \in Sock /\ last_socket \in Sock
    BY <1>8 DEF TypeOK, Ptr, rechain_list_of_socks
  <2>3. /\ next \in [Sock -> Ptr] /\ prev \in [Sock -> Ptr] /\ NULL \in Ptr
        /\ at \in Ptr /\ last_socket \in Ptr /\ svz_sock_root \in Ptr
    BY <2>2 DEF TypeOK, Ptr
  <2>4. next' \in [Sock -> Ptr]
    BY <2>1, <2>2, <2>3
  <2>5. prev' \in [Sock -> Ptr]
    BY <2>1, <2>2, <2>3
  <2>6. svz_sock_root' \in Ptr /\ last_socket' \in Ptr
    BY <2>1, <2>2, <2>3
  <2> QED BY <1>8, <2>4, <2>5, <2>6
          DEF rechain_list_of_socks, TypeOK, tabVars, refVars, Slots
<1>9. CASE UNCHANGED vars
  BY <1>9 DEF vars, listVars, tabVars, refVars, TypeOK, Slots
<1> QED BY <1>1, <1>2, <1>3, <1>4, <1>5, <1>6, <1>7, <1>8, <1>9 DEF Next

-----------------------------------------------------------------------------
(* The lookup table *)

\* The slot svz_sock_unique_id decides on is free, and no entry is lost.
LEMMA UniqueIdEffect ==
    ASSUME TypeOK, NEW s \in Sock, svz_sock_unique_id(s)
    PROVE  /\ sock_id' \in Slots' /\ socktab'[sock_id'] = NULL
           /\ Slots \subseteq Slots'
           /\ \A i \in Slots : socktab'[i] = socktab[i]
           /\ \A i \in Slots' \ Slots : socktab'[i] = NULL
<1>1. ASSUME NEW i \in 1..sock_limit, FreeAfter(i),
             sock_id' = Masked(sock_id + i), UNCHANGED <<socktab, sock_limit>>
      PROVE  /\ sock_id' \in Slots' /\ socktab'[sock_id'] = NULL
             /\ Slots' = Slots /\ socktab' = socktab
  <2>1. Masked(sock_id + i) \in Slots
    BY MaskedInRange
  <2>2. socktab[Masked(sock_id + i)] = NULL
    BY <1>1 DEF FreeAfter
  <2> QED BY <1>1, <2>1, <2>2 DEF Slots
<1>2. ASSUME sock_id' = sock_limit, sock_limit' = 2 * sock_limit,
             socktab' = [i \in 0..(2 * sock_limit - 1) |->
                            IF i \in Slots THEN socktab[i] ELSE NULL]
      PROVE  /\ sock_id' \in Slots' /\ socktab'[sock_id'] = NULL
             /\ Slots \subseteq Slots'
             /\ \A i \in Slots : socktab'[i] = socktab[i]
             /\ \A i \in Slots' \ Slots : socktab'[i] = NULL
  BY <1>2 DEF TypeOK, Slots
<1> QED BY <1>1, <1>2 DEF svz_sock_unique_id

\* Enqueuing enters the socket under its id and touches no other entry.
LEMMA EnqueueTable ==
    ASSUME TypeOK, TableOK, IdReserved, floating # NULL,
           svz_sock_enqueue(floating), UNCHANGED <<sock_limit, id, heap>>,
           floating' = NULL
    PROVE  TableOK' /\ IdReserved'
<1>1. /\ enqueued' = enqueued \cup {floating}
      /\ socktab' = [socktab EXCEPT ![id[floating]] = floating]
      /\ Slots' = Slots
  BY EnqueueEffect
<1>2. /\ id[floating] \in Slots /\ socktab[id[floating]] = NULL
      /\ socktab \in [Slots -> Ptr]
  BY DEF IdReserved, TypeOK
<1>3. \A s \in enqueued : s # NULL /\ id[s] # id[floating]
  BY <1>2 DEF TableOK, TypeOK
<1>4. ASSUME NEW s \in enqueued'
      PROVE  id'[s] \in Slots' /\ socktab'[id'[s]] = s
  BY <1>1, <1>2, <1>3 DEF TableOK
<1>5. ASSUME NEW i \in Slots', socktab'[i] # NULL
      PROVE  socktab'[i] \in enqueued' /\ id'[socktab'[i]] = i
  BY <1>1, <1>2, <1>5 DEF TableOK
<1>6. TableOK'
  BY <1>4, <1>5 DEF TableOK
<1>7. IdReserved'
  BY <1>1 DEF IdReserved
<1> QED BY <1>6, <1>7

\* Every step keeps the table and the reservation of the floating id.
LEMMA TableStep ==
    ASSUME TypeOK, TableOK, IdReserved, [Next]_vars
    PROVE  TableOK' /\ IdReserved'
<1>1. ASSUME NEW s \in Sock, NEW l \in BOOLEAN, svz_sock_create(s, l)
      PROVE  TableOK' /\ IdReserved'
  <2>1. /\ sock_id' \in Slots' /\ socktab'[sock_id'] = NULL
        /\ Slots \subseteq Slots'
        /\ \A i \in Slots : socktab'[i] = socktab[i]
        /\ \A i \in Slots' \ Slots : socktab'[i] = NULL
    BY <1>1, UniqueIdEffect DEF svz_sock_create
  <2>2. /\ s \notin enqueued /\ enqueued' = enqueued /\ floating' = s
        /\ heap' = heap \cup {s} /\ floating = NULL /\ s \notin heap
    BY <1>1 DEF svz_sock_create, TypeOK
  <2>3. id'[s] = sock_id' /\ \A x \in Sock : x # s => id'[x] = id[x]
    BY <1>1 DEF svz_sock_create, svz_sock_unique_id, TypeOK
  <2>4. enqueued \subseteq Sock
    BY DEF TypeOK
  <2>5. \A x \in enqueued' : id'[x] \in Slots' /\ socktab'[id'[x]] = x
    BY <2>1, <2>2, <2>3, <2>4 DEF TableOK
  <2>6. ASSUME NEW i \in Slots', socktab'[i] # NULL
        PROVE  socktab'[i] \in enqueued' /\ id'[socktab'[i]] = i
    BY <2>1, <2>2, <2>3, <2>4, <2>6 DEF TableOK
  <2>7. TableOK'
    BY <2>5, <2>6 DEF TableOK
  <2>8. IdReserved'
    BY <2>1, <2>2, <2>3 DEF IdReserved, TypeOK
  <2> QED BY <2>7, <2>8
<1>2. ASSUME NEW p \in Sock, Accept(p)
      PROVE  TableOK' /\ IdReserved'
  BY <1>2, EnqueueTable DEF Accept
<1>3. ASSUME Enqueue
      PROVE  TableOK' /\ IdReserved'
  BY <1>3, EnqueueTable DEF Enqueue
<1>4. ASSUME Discard
      PROVE  TableOK' /\ IdReserved'
  BY <1>4 DEF Discard, svz_sock_free, TableOK, IdReserved, tabVars, Slots
<1>5. ASSUME NEW s \in Sock, svz_sock_shutdown(s)
      PROVE  TableOK' /\ IdReserved'
  <2>1. /\ s \in enqueued /\ enqueued' = enqueued \ {s}
        /\ socktab' = [socktab EXCEPT ![id[s]] = NULL]
        /\ Slots' = Slots /\ id' = id /\ floating' = floating
        /\ heap' = heap \ {s}
    BY <1>5, DequeueEffect DEF svz_sock_shutdown, svz_sock_free
  <2>2. socktab \in [Slots -> Ptr]
    BY DEF TypeOK
  <2>3. \A x \in enqueued' : id'[x] \in Slots' /\ socktab'[id'[x]] = x
    BY <2>1, <2>2 DEF TableOK
  <2>4. ASSUME NEW i \in Slots', socktab'[i] # NULL
        PROVE  socktab'[i] \in enqueued' /\ id'[socktab'[i]] = i
    BY <2>1, <2>2, <2>4 DEF TableOK
  <2>5. TableOK'
    BY <2>3, <2>4 DEF TableOK
  <2>6. IdReserved'
    BY <2>1, <2>2 DEF IdReserved
  <2> QED BY <2>5, <2>6
<1>6. ASSUME NEW s \in Sock, NEW t \in Sock, SetReferrers(s, t)
      PROVE  TableOK' /\ IdReserved'
  BY <1>6 DEF SetReferrers, TableOK, IdReserved, tabVars, Slots
<1>7. ASSUME NEW s \in Sock, ClearReferrers(s)
      PROVE  TableOK' /\ IdReserved'
  BY <1>7 DEF ClearReferrers, TableOK, IdReserved, tabVars, Slots
<1>8. ASSUME rechain_list_of_socks
      PROVE  TableOK' /\ IdReserved'
  BY <1>8 DEF rechain_list_of_socks, TableOK, IdReserved, tabVars, Slots
<1>9. CASE UNCHANGED vars
  BY <1>9 DEF vars, tabVars, TableOK, IdReserved, Slots
<1> QED BY <1>1, <1>2, <1>3, <1>4, <1>5, <1>6, <1>7, <1>8, <1>9 DEF Next

-----------------------------------------------------------------------------
(* The theorems on types and table *)

CoreInv == TypeOK /\ TableOK /\ IdReserved

LEMMA CoreInit == Init => CoreInv
BY DEF Init, CoreInv, TypeOK, TableOK, IdReserved, Slots, Ptr, Unset

\* The invariants of the table hold in every reachable state.
THEOREM CoreCorrect == Spec => []CoreInv
<1>1. CoreInv /\ [Next]_vars => CoreInv'
  BY TypeStep, TableStep DEF CoreInv
<1> QED BY <1>1, CoreInit, PTL DEF Spec

\* Socket structures keep their types: ids stay within the table, only
\* allocated structures are enqueued, and a floating one is not.
THEOREM TypeCorrect == Spec => []TypeOK
<1>1. CoreInv => TypeOK
  BY DEF CoreInv
<1> QED BY <1>1, CoreCorrect, PTL

\* "lookup table corrupted" and "has been already enqueued" are unreachable.
THEOREM TableCorrect == Spec => [](TableOK /\ IdReserved)
<1>1. CoreInv => TableOK /\ IdReserved
  BY DEF CoreInv
<1> QED BY <1>1, CoreCorrect, PTL

-----------------------------------------------------------------------------
(***************************************************************************)
(* The doubly linked list.  LinksOK is not inductive: a ring of sockets    *)
(* next to the list would satisfy it, and taking the last socket out of    *)
(* the list would then leave svz_sock_root NULL with sockets enqueued.     *)
(* The strengthening numbers the enqueued sockets 1..n along the list.     *)
(***************************************************************************)

Placed(pos, n) ==
    /\ \A s \in enqueued : pos[s] \in 1..n
    /\ \A s, t \in enqueued : pos[s] = pos[t] => s = t
    /\ \A k \in 1..n : \E s \in enqueued : pos[s] = k
    /\ \A s \in enqueued :
         IF pos[s] = n THEN next[s] = NULL
         ELSE next[s] \in enqueued /\ pos[next[s]] = pos[s] + 1
    /\ \A s \in enqueued :
         IF pos[s] = 1 THEN prev[s] = NULL
         ELSE prev[s] \in enqueued /\ pos[prev[s]] = pos[s] - 1
    /\ IF n = 0 THEN svz_sock_root = NULL /\ last_socket = NULL
       ELSE /\ svz_sock_root \in enqueued /\ pos[svz_sock_root] = 1
            /\ last_socket \in enqueued /\ pos[last_socket] = n

\* A walk along next meets every enqueued socket exactly once.
Chained == \E n \in Nat : \E pos \in [Sock -> Int] : Placed(pos, n)

\* A numbered list satisfies what validate_list_of_socks asserts.
LEMMA ChainedLinks == TypeOK /\ Chained => LinksOK
<1> SUFFICES ASSUME TypeOK, NEW n \in Nat, NEW pos \in [Sock -> Int],
                    Placed(pos, n)
             PROVE  LinksOK
  BY DEF Chained
<1>1. enqueued \subseteq Sock /\ NULL \notin enqueued
  BY DEF TypeOK
<1>2. (n = 0) <=> (enqueued = {})
  BY <1>1 DEF Placed
<1>3. ASSUME NEW s \in enqueued
      PROVE  /\ next[s] \in enqueued \cup {NULL}
             /\ prev[s] \in enqueued \cup {NULL}
             /\ (prev[s] = NULL) <=> (s = svz_sock_root)
             /\ (next[s] = NULL) <=> (s = last_socket)
  BY <1>1, <1>2 DEF Placed
<1>4. ASSUME NEW s \in enqueued, next[s] # NULL
      PROVE  prev[next[s]] = s
  <2>1. /\ next[s] \in enqueued /\ pos[next[s]] = pos[s] + 1
        /\ pos[s] \in 1..n
    BY <1>1, <1>4 DEF Placed
  <2>2. /\ prev[next[s]] \in enqueued
        /\ pos[prev[next[s]]] = pos[s] + 1 - 1
    BY <2>1 DEF Placed
  <2> QED BY <2>1, <2>2 DEF Placed
<1>5. ASSUME NEW s \in enqueued, prev[s] # NULL
      PROVE  next[prev[s]] = s
  <2>1. /\ prev[s] \in enqueued /\ pos[prev[s]] = pos[s] - 1
        /\ pos[s] \in 1..n
    BY <1>1, <1>5 DEF Placed
  <2>2. /\ next[prev[s]] \in enqueued
        /\ pos[next[prev[s]]] = pos[s] - 1 + 1
    BY <2>1 DEF Placed
  <2> QED BY <2>1, <2>2 DEF Placed
<1> QED BY <1>1, <1>2, <1>3, <1>4, <1>5 DEF LinksOK, Placed

\* What the operations do to the numbers: a new socket gets the next one, one
\* that leaves closes the gap, one that moves takes the number of its place.
Entered(pos, n, s) == [pos EXCEPT ![s] = n + 1]

Left(pos, s) == [x \in Sock |-> IF pos[x] > pos[s] THEN pos[x] - 1 ELSE pos[x]]

Moved(pos, s, at) ==
    [x \in Sock |-> IF x = s THEN pos[at]
                    ELSE IF pos[x] >= pos[at] THEN pos[x] + 1 ELSE pos[x]]

\* Appending gives the new socket the number n + 1.
LEMMA EnqueueChain ==
    ASSUME TypeOK, TableOK, IdReserved, floating # NULL,
           svz_sock_enqueue(floating), UNCHANGED sock_limit,
           NEW f, f = floating,
           NEW n \in Nat, NEW pos \in [Sock -> Int], Placed(pos, n)
    PROVE  /\ Entered(pos, n, f) \in [Sock -> Int]
           /\ Placed(Entered(pos, n, f), n + 1)'
<1>1. Placed(pos, n)
  OBVIOUS
<1>2. /\ f \in Sock /\ f \notin enqueued /\ f # NULL /\ ~Refused(f)
      /\ enqueued' = enqueued \cup {f} /\ last_socket' = f
      /\ enqueued \subseteq Sock /\ NULL \notin enqueued
      /\ next \in [Sock -> Ptr] /\ prev \in [Sock -> Ptr]
  BY EnqueueEffect DEF TypeOK
<1> DEFINE pos2 == Entered(pos, n, f)
<1>3. /\ pos2 \in [Sock -> Int] /\ pos2[f] = n + 1
      /\ \A x \in enqueued : pos2[x] = pos[x]
  BY <1>2 DEF Entered
<1> HIDE DEF pos2
<1>4. CASE n = 0
  <2>1. enqueued = {} /\ svz_sock_root = NULL
    BY <1>1, <1>4 DEF Placed
  <2>2. svz_sock_root' = f /\ next'[f] = NULL /\ prev'[f] = NULL
    BY <1>2, <2>1 DEF svz_sock_enqueue
  <2>3. Placed(pos2, n + 1)'
    BY <1>2, <1>3, <1>4, <2>1, <2>2 DEF Placed
  <2> QED BY <1>3, <2>3 DEF pos2
<1>5. CASE n # 0
  <2>1. /\ svz_sock_root # NULL /\ last_socket \in enqueued
        /\ pos[last_socket] = n
    BY <1>1, <1>2, <1>5 DEF Placed
  <2>2. /\ svz_sock_root' = svz_sock_root
        /\ next'[f] = NULL /\ next'[last_socket] = f
        /\ prev'[f] = last_socket
        /\ \A x \in enqueued : x # last_socket => next'[x] = next[x]
        /\ \A x \in enqueued : prev'[x] = prev[x]
    BY <1>2, <2>1 DEF svz_sock_enqueue
  <2>3. Placed(pos2, n + 1)'
    <3>1. /\ \A s \in enqueued' : pos2[s] \in 1..(n + 1)
          /\ \A s, t \in enqueued' : pos2[s] = pos2[t] => s = t
      BY <1>1, <1>2, <1>3 DEF Placed
    <3>2. \A k \in 1..(n + 1) : \E s \in enqueued' : pos2[s] = k
      BY <1>1, <1>2, <1>3 DEF Placed
    <3>3. \A s \in enqueued' :
            IF pos2[s] = n + 1 THEN next'[s] = NULL
            ELSE next'[s] \in enqueued' /\ pos2[next'[s]] = pos2[s] + 1
      BY <1>1, <1>2, <1>3, <2>1, <2>2 DEF Placed
    <3>4. \A s \in enqueued' :
            IF pos2[s] = 1 THEN prev'[s] = NULL
            ELSE prev'[s] \in enqueued' /\ pos2[prev'[s]] = pos2[s] - 1
      BY <1>1, <1>2, <1>3, <1>5, <2>1, <2>2 DEF Placed
    <3>5. /\ svz_sock_root' \in enqueued' /\ pos2[svz_sock_root'] = 1
          /\ last_socket' \in enqueued' /\ pos2[last_socket'] = n + 1
      BY <1>1, <1>2, <1>3, <1>5, <2>2 DEF Placed
    <3> QED BY <3>1, <3>2, <3>3, <3>4, <3>5 DEF Placed
  <2> QED BY <1>3, <2>3 DEF pos2
<1> QED BY <1>4, <1>5

\* Taking a socket out closes the gap in the numbering.
LEMMA DequeueChain ==
    ASSUME TypeOK, TableOK, NEW s \in enqueued, dequeue(s),
           UNCHANGED sock_limit,
           NEW n \in Nat, NEW pos \in [Sock -> Int], Placed(pos, n)
    PROVE  /\ n - 1 \in Nat /\ Left(pos, s) \in [Sock -> Int]
           /\ Placed(Left(pos, s), n - 1)'
<1>1. Placed(pos, n)
  OBVIOUS
<1>2. /\ s \in Sock /\ enqueued \subseteq Sock /\ NULL \notin enqueued
      /\ enqueued' = enqueued \ {s}
      /\ last_socket' = IF next[s] = NULL THEN prev[s] ELSE last_socket
      /\ svz_sock_root' = IF prev[s] = NULL THEN next[s] ELSE svz_sock_root
  BY DequeueEffect DEF TypeOK
<1>3. /\ \A x \in enqueued' :
            next'[x] = IF x = prev[s] THEN next[s] ELSE next[x]
      /\ \A x \in enqueued' :
            prev'[x] = IF x = next[s] THEN prev[s] ELSE prev[x]
  BY <1>2, DequeueEffect
<1> DEFINE k == pos[s]
           pos2 == Left(pos, s)
<1>4. k \in 1..n /\ n - 1 \in Nat /\ pos2 \in [Sock -> Int]
  BY <1>1, <1>2 DEF Placed, Left
<1>5. \A x \in enqueued : pos2[x] = IF pos[x] > k THEN pos[x] - 1 ELSE pos[x]
  BY <1>2 DEF Left
<1> HIDE DEF pos2
<1>6. /\ \A x \in enqueued' : pos2[x] \in 1..(n - 1)
      /\ \A x, y \in enqueued' : pos2[x] = pos2[y] => x = y
  BY <1>1, <1>2, <1>4, <1>5 DEF Placed
<1>7. \A j \in 1..(n - 1) : \E x \in enqueued' : pos2[x] = j
  <2> SUFFICES ASSUME NEW j \in 1..(n - 1)
               PROVE  \E x \in enqueued' : pos2[x] = j
    OBVIOUS
  <2>1. CASE j < k
    <3>1. PICK x \in enqueued : pos[x] = j
      BY <1>1, <1>4 DEF Placed
    <3> QED BY <1>2, <1>4, <1>5, <2>1, <3>1
  <2>2. CASE j >= k
    <3>1. PICK x \in enqueued : pos[x] = j + 1
      BY <1>1, <1>4 DEF Placed
    <3> QED BY <1>2, <1>4, <1>5, <2>2, <3>1
  <2> QED BY <1>4, <2>1, <2>2
<1>8. ASSUME NEW x \in enqueued'
      PROVE  IF pos2[x] = n - 1 THEN next'[x] = NULL
             ELSE next'[x] \in enqueued' /\ pos2[next'[x]] = pos2[x] + 1
  <2>1. CASE x = prev[s]
    BY <1>1, <1>2, <1>3, <1>4, <1>5, <2>1 DEF Placed
  <2>2. CASE x # prev[s]
    <3>1. pos[x] \in 1..n /\ pos[x] # k - 1 /\ pos[x] # k
      BY <1>1, <1>2, <1>4, <2>2 DEF Placed
    <3>2. next'[x] = next[x]
      BY <1>3, <2>2
    <3>3. CASE pos[x] = n
      BY <1>1, <1>2, <1>4, <1>5, <3>1, <3>2, <3>3 DEF Placed
    <3>4. CASE pos[x] # n
      <4>1. next[x] \in enqueued' /\ pos[next[x]] = pos[x] + 1
        BY <1>1, <1>2, <3>1, <3>4 DEF Placed
      <4>2. pos2[x] # n - 1
        BY <1>2, <1>4, <1>5, <3>1, <3>4
      <4> QED BY <1>2, <1>4, <1>5, <3>1, <3>2, <4>1, <4>2
    <3> QED BY <3>3, <3>4
  <2> QED BY <2>1, <2>2
<1>9. ASSUME NEW x \in enqueued'
      PROVE  IF pos2[x] = 1 THEN prev'[x] = NULL
             ELSE prev'[x] \in enqueued' /\ pos2[prev'[x]] = pos2[x] - 1
  <2>1. CASE x = next[s]
    BY <1>1, <1>2, <1>3, <1>4, <1>5, <2>1 DEF Placed
  <2>2. CASE x # next[s]
    <3>1. pos[x] \in 1..n /\ pos[x] # k + 1 /\ pos[x] # k
      BY <1>1, <1>2, <2>2 DEF Placed
    <3>2. prev'[x] = prev[x]
      BY <1>3, <2>2
    <3>3. CASE pos[x] = 1
      BY <1>1, <1>2, <1>4, <1>5, <3>1, <3>2, <3>3 DEF Placed
    <3>4. CASE pos[x] # 1
      <4>1. prev[x] \in enqueued' /\ pos[prev[x]] = pos[x] - 1
        BY <1>1, <1>2, <3>1, <3>4 DEF Placed
      <4>2. pos2[x] # 1
        BY <1>2, <1>4, <1>5, <3>1, <3>4
      <4> QED BY <1>2, <1>4, <1>5, <3>1, <3>2, <4>1, <4>2
    <3> QED BY <3>3, <3>4
  <2> QED BY <2>1, <2>2
<1>10. IF n - 1 = 0 THEN svz_sock_root' = NULL /\ last_socket' = NULL
       ELSE /\ svz_sock_root' \in enqueued' /\ pos2[svz_sock_root'] = 1
            /\ last_socket' \in enqueued' /\ pos2[last_socket'] = n - 1
  BY <1>1, <1>2, <1>4, <1>5 DEF Placed
<1>11. Placed(pos2, n - 1)'
  BY <1>6, <1>7, <1>8, <1>9, <1>10 DEF Placed
<1> QED BY <1>4, <1>11 DEF pos2

\* Rechaining gives the last socket the number of the place it moves to.
LEMMA RechainChain ==
    ASSUME TypeOK, rechain_list_of_socks,
           NEW n \in Nat, NEW pos \in [Sock -> Int], Placed(pos, n)
    PROVE  \E s, at \in enqueued :
             /\ s = last_socket /\ at # s /\ StopsAt(s, at)
             /\ Moved(pos, s, at) \in [Sock -> Int]
             /\ Placed(Moved(pos, s, at), n)'
<1>1. Placed(pos, n)
  OBVIOUS
<1>2. PICK at \in enqueued, sock \in Ptr, end \in Ptr, before \in Ptr :
        /\ sock = last_socket /\ end = prev[sock] /\ before = prev[at]
        /\ sock # NULL /\ end # NULL /\ at # sock /\ StopsAt(sock, at)
        /\ next' = [x \in Sock |->
                      IF x = end THEN NULL
                      ELSE IF x = sock THEN at
                      ELSE IF x = before THEN sock ELSE next[x]]
        /\ prev' = [prev EXCEPT ![sock] = before, ![at] = sock]
        /\ svz_sock_root' = IF before = NULL THEN sock ELSE svz_sock_root
        /\ last_socket' = end
        /\ enqueued' = enqueued
  BY DEF rechain_list_of_socks, TypeOK, Ptr
<1>3. /\ enqueued \subseteq Sock /\ NULL \notin enqueued
      /\ sock \in enqueued /\ pos[sock] = n /\ n >= 2
      /\ end \in enqueued /\ pos[end] = n - 1 /\ sock # end
      /\ svz_sock_root \in enqueued /\ pos[svz_sock_root] = 1
  BY <1>1, <1>2 DEF Placed, TypeOK
<1> DEFINE m == pos[at]
           pos2 == Moved(pos, sock, at)
<1>4. m \in 1..(n - 1) /\ pos2 \in [Sock -> Int]
  BY <1>1, <1>2, <1>3 DEF Placed, Moved
<1>5. /\ pos2[sock] = m
      /\ \A x \in enqueued : x # sock =>
            pos2[x] = IF pos[x] >= m THEN pos[x] + 1 ELSE pos[x]
  BY <1>3 DEF Moved
<1> HIDE DEF pos2
<1>6. IF m = 1 THEN before = NULL
      ELSE before \in enqueued /\ pos[before] = m - 1
  BY <1>1, <1>2 DEF Placed
<1>7. /\ \A x \in enqueued : next'[x] =
            IF x = end THEN NULL ELSE IF x = sock THEN at
            ELSE IF x = before THEN sock ELSE next[x]
      /\ \A x \in enqueued : prev'[x] =
            IF x = at THEN sock ELSE IF x = sock THEN before ELSE prev[x]
  BY <1>2, <1>3 DEF TypeOK
<1>8. /\ \A x \in enqueued : pos2[x] \in 1..n
      /\ \A x, y \in enqueued : pos2[x] = pos2[y] => x = y
  BY <1>1, <1>3, <1>4, <1>5 DEF Placed
<1>9. \A j \in 1..n : \E x \in enqueued : pos2[x] = j
  <2> SUFFICES ASSUME NEW j \in 1..n
               PROVE  \E x \in enqueued : pos2[x] = j
    OBVIOUS
  <2>1. CASE j = m
    BY <1>3, <1>5, <2>1
  <2>2. CASE j < m
    <3>1. PICK x \in enqueued : pos[x] = j
      BY <1>1 DEF Placed
    <3> QED BY <1>3, <1>4, <1>5, <2>2, <3>1
  <2>3. CASE j > m
    <3>1. PICK x \in enqueued : pos[x] = j - 1
      BY <1>1, <1>4, <2>3 DEF Placed
    <3> QED BY <1>3, <1>4, <1>5, <2>3, <3>1
  <2> QED BY <1>4, <2>1, <2>2, <2>3
<1>10. ASSUME NEW x \in enqueued
       PROVE  IF pos2[x] = n THEN next'[x] = NULL
              ELSE next'[x] \in enqueued /\ pos2[next'[x]] = pos2[x] + 1
  <2>1. CASE x = end
    BY <1>3, <1>4, <1>5, <1>7, <2>1
  <2>2. CASE x = sock
    BY <1>2, <1>3, <1>4, <1>5, <1>7, <2>2
  <2>3. CASE x = before /\ x # end /\ x # sock
    BY <1>2, <1>3, <1>4, <1>5, <1>6, <1>7, <2>3
  <2>4. CASE x # before /\ x # end /\ x # sock
    <3>1. /\ pos[x] \in 1..n /\ pos[x] # n /\ pos[x] # n - 1
          /\ pos[x] # m - 1
      BY <1>1, <1>3, <1>4, <1>6, <2>4 DEF Placed
    <3>2. next[x] \in enqueued /\ pos[next[x]] = pos[x] + 1
      BY <1>1, <3>1 DEF Placed
    <3>3. next[x] # sock /\ next'[x] = next[x]
      BY <1>3, <1>7, <2>4, <3>1, <3>2
    <3> QED BY <1>3, <1>4, <1>5, <2>4, <3>1, <3>2, <3>3
  <2> QED BY <2>1, <2>2, <2>3, <2>4
<1>11. ASSUME NEW x \in enqueued
       PROVE  IF pos2[x] = 1 THEN prev'[x] = NULL
              ELSE prev'[x] \in enqueued /\ pos2[prev'[x]] = pos2[x] - 1
  <2>1. CASE x = at
    <3>1. at # sock
      BY <1>2
    <3>2. prev'[at] = sock
      BY <1>7
    <3>3. pos2[at] = m + 1
      BY <1>4, <1>5, <3>1
    <3> QED BY <1>3, <1>4, <1>5, <2>1, <3>2, <3>3
  <2>2. CASE x = sock
    <3>1. prev'[sock] = before
      BY <1>2, <1>3, <1>7
    <3>2. CASE m = 1
      BY <1>5, <1>6, <2>2, <3>1, <3>2
    <3>3. CASE m # 1
      <4>1. before \in enqueued /\ pos[before] = m - 1 /\ before # sock
        BY <1>3, <1>4, <1>6, <3>3
      <4>2. pos2[before] = m - 1
        BY <1>4, <1>5, <4>1
      <4> QED BY <1>5, <2>2, <3>1, <3>3, <4>1, <4>2
    <3> QED BY <3>2, <3>3
  <2>3. CASE x # at /\ x # sock
    <3>1. pos[x] \in 1..n /\ pos[x] # n /\ pos[x] # m
      BY <1>1, <1>3, <1>4, <2>3 DEF Placed
    <3>2. prev'[x] = prev[x]
      BY <1>7, <2>3
    <3>3. CASE pos[x] = 1
      BY <1>1, <1>4, <1>5, <2>3, <3>1, <3>2, <3>3 DEF Placed
    <3>4. CASE pos[x] # 1
      <4>1. prev[x] \in enqueued /\ pos[prev[x]] = pos[x] - 1
        BY <1>1, <3>4 DEF Placed
      <4>2. prev[x] # sock
        BY <1>3, <3>1, <4>1
      <4> QED BY <1>4, <1>5, <2>3, <3>1, <3>2, <3>4, <4>1, <4>2
    <3> QED BY <3>3, <3>4
  <2> QED BY <2>1, <2>2, <2>3
<1>12. /\ svz_sock_root' \in enqueued /\ pos2[svz_sock_root'] = 1
       /\ last_socket' \in enqueued /\ pos2[last_socket'] = n
  BY <1>1, <1>2, <1>3, <1>4, <1>5, <1>6 DEF Placed
<1>13. Placed(pos2, n)'
  <2>1. enqueued' = enqueued /\ n # 0
    BY <1>2, <1>3
  <2> QED BY <1>8, <1>9, <1>10, <1>11, <1>12, <2>1 DEF Placed
<1> QED BY <1>2, <1>3, <1>4, <1>13 DEF pos2

\* Every step keeps the list numbered.
LEMMA ChainStep ==
    ASSUME TypeOK, TableOK, IdReserved, Chained, [Next]_vars
    PROVE  Chained'
<1>1. ASSUME NEW s \in Sock, NEW l \in BOOLEAN, svz_sock_create(s, l)
      PROVE  Chained'
  BY <1>1 DEF svz_sock_create, listVars, Chained, Placed
<1>2. ASSUME NEW p \in Sock, Accept(p)
      PROVE  Chained'
  <2>1. PICK f : f = floating
    OBVIOUS
  <2>2. PICK n \in Nat, pos \in [Sock -> Int] : Placed(pos, n)
    BY DEF Chained
  <2>3. /\ Entered(pos, n, f) \in [Sock -> Int]
        /\ Placed(Entered(pos, n, f), n + 1)'
    BY <1>2, <2>1, <2>2, EnqueueChain DEF Accept
  <2> QED BY <2>3 DEF Chained
<1>3. ASSUME Enqueue
      PROVE  Chained'
  <2>1. PICK f : f = floating
    OBVIOUS
  <2>2. PICK n \in Nat, pos \in [Sock -> Int] : Placed(pos, n)
    BY DEF Chained
  <2>3. /\ Entered(pos, n, f) \in [Sock -> Int]
        /\ Placed(Entered(pos, n, f), n + 1)'
    BY <1>3, <2>1, <2>2, EnqueueChain DEF Enqueue
  <2> QED BY <2>3 DEF Chained
<1>4. ASSUME Discard
      PROVE  Chained'
  BY <1>4 DEF Discard, listVars, Chained, Placed
<1>5. ASSUME NEW s \in Sock, svz_sock_shutdown(s)
      PROVE  Chained'
  <2>1. PICK n \in Nat, pos \in [Sock -> Int] : Placed(pos, n)
    BY DEF Chained
  <2>2. /\ n - 1 \in Nat /\ Left(pos, s) \in [Sock -> Int]
        /\ Placed(Left(pos, s), n - 1)'
    BY <1>5, <2>1, DequeueChain DEF svz_sock_shutdown
  <2> QED BY <2>2 DEF Chained
<1>6. ASSUME NEW s \in Sock, NEW t \in Sock, SetReferrers(s, t)
      PROVE  Chained'
  <2>1. UNCHANGED <<svz_sock_root, last_socket, next, prev, enqueued>>
    BY <1>6 DEF SetReferrers, listVars
  <2> QED BY <2>1 DEF Chained, Placed
<1>7. ASSUME NEW s \in Sock, ClearReferrers(s)
      PROVE  Chained'
  BY <1>7 DEF ClearReferrers, listVars, Chained, Placed
<1>8. ASSUME rechain_list_of_socks
      PROVE  Chained'
  <2>1. PICK n \in Nat, pos \in [Sock -> Int] : Placed(pos, n)
    BY DEF Chained
  <2>2. PICK s \in enqueued, at \in enqueued :
          /\ Moved(pos, s, at) \in [Sock -> Int]
          /\ Placed(Moved(pos, s, at), n)'
    BY <1>8, <2>1, RechainChain
  <2> QED BY <2>2 DEF Chained
<1>9. CASE UNCHANGED vars
  <2>1. PICK n \in Nat, pos \in [Sock -> Int] : Placed(pos, n)
    BY DEF Chained
  <2>2. UNCHANGED <<svz_sock_root, last_socket, next, prev, enqueued>>
    BY <1>9 DEF vars, listVars
  <2>3. Placed(pos, n)'
    BY <2>1, <2>2 DEF Placed
  <2> QED BY <2>3 DEF Chained
<1> QED BY <1>1, <1>2, <1>3, <1>4, <1>5, <1>6, <1>7, <1>8, <1>9 DEF Next

\* The list runs through every enqueued socket once, in both directions.
THEOREM ChainCorrect == Spec => []Chained
<1>1. Init => Chained
  <2>1. ASSUME Init PROVE Placed([s \in Sock |-> 0], 0)
    BY <2>1 DEF Init, Placed
  <2> QED BY <2>1 DEF Chained
<1>2. CoreInv /\ Chained /\ [Next]_vars => Chained'
  BY ChainStep DEF CoreInv
<1> QED BY <1>1, <1>2, CoreCorrect, PTL DEF Spec

\* The assertions of validate_list_of_socks on the links never fail.
THEOREM LinksCorrect == Spec => []LinksOK
<1>1. CoreInv /\ Chained => LinksOK
  BY ChainedLinks DEF CoreInv
<1> QED BY <1>1, CoreCorrect, ChainCorrect, PTL

-----------------------------------------------------------------------------
(***************************************************************************)
(* References.  A version is given out once, so a dead reference stays     *)
(* dead; and the first structure ever created, whose version 0 is that of  *)
(* an unset reference, does not get the id 0 of one.                       *)
(***************************************************************************)

VersionOK ==
    /\ \A s \in heap : version[s] < sock_version
    /\ \A s, t \in heap : version[s] = version[t] => s = t
    /\ \A s \in heap : version[s] = 0 => id[s] # 0
    /\ sock_version = 0 => heap = {} /\ sock_id = 0

Dead(ref) ==
    \/ ref = NoReferrer
    \/ ref = Unset
    \/ ref[2] \in Nat /\ ref[2] < sock_version
       /\ \A t \in heap : version[t] # ref[2]

Resolves(ref, meant) ==
    /\ \A s \in heap :
         IF meant[s] = NULL THEN Dead(ref[s])
         ELSE meant[s] \in enqueued /\ ref[s] = <<id[meant[s]], version[meant[s]]>>
    /\ \A s \in Sock \ heap : ref[s] = Unset /\ meant[s] = NULL

RefInv == VersionOK /\ Resolves(parent, trueParent)
                    /\ Resolves(referrer, trueReferrer)

\* A dead reference is found nowhere, a live one at its socket.
LEMMA FindDead ==
    ASSUME CoreInv, VersionOK, NEW ref \in Int \X Int, Dead(ref)
    PROVE  svz_sock_find(ref[1], ref[2]) = NULL
<1>1. CASE ref = NoReferrer
  BY <1>1 DEF NoReferrer, svz_sock_find, Slots
<1>2. CASE ref[1] \notin Slots
  BY <1>2 DEF svz_sock_find
<1>3. CASE ref[1] \in Slots /\ ref # NoReferrer
  <2> DEFINE t == socktab[ref[1]]
  <2>1. CASE t = NULL
    BY <2>1, <1>3 DEF svz_sock_find
  <2>2. CASE t # NULL
    <3>1. t \in enqueued /\ t \in heap /\ id[t] = ref[1]
      BY <1>3, <2>2 DEF CoreInv, TableOK, TypeOK
    <3>2. ref[2] # -1 /\ version[t] # ref[2]
      BY <1>3, <3>1 DEF Dead, Unset, VersionOK
    <3> QED BY <1>3, <2>2, <3>2 DEF svz_sock_find
  <2> QED BY <2>1, <2>2
<1> QED BY <1>1, <1>2, <1>3

LEMMA FindLive ==
    ASSUME CoreInv, NEW t \in enqueued
    PROVE  svz_sock_find(id[t], version[t]) = t
BY DEF CoreInv, TableOK, svz_sock_find

\* Resolving references makes both kinds exact.
LEMMA RefExact == CoreInv /\ RefInv => ParentExact /\ ReferrerExact
<1> SUFFICES ASSUME CoreInv, RefInv PROVE ParentExact /\ ReferrerExact
  OBVIOUS
<1>1. ASSUME NEW s \in heap
      PROVE  svz_sock_getparent(s) = trueParent[s]
  <2>1. parent[s] \in Int \X Int
    BY DEF CoreInv, TypeOK
  <2>2. CASE trueParent[s] = NULL
    BY <2>1, <2>2, FindDead DEF RefInv, Resolves, svz_sock_getparent
  <2>3. CASE trueParent[s] # NULL
    BY <2>1, <2>3, FindLive DEF RefInv, Resolves, svz_sock_getparent
  <2> QED BY <2>2, <2>3
<1>2. ASSUME NEW s \in heap
      PROVE  svz_sock_getreferrer(s) = trueReferrer[s]
  <2>1. referrer[s] \in Int \X Int
    BY DEF CoreInv, TypeOK
  <2>2. CASE trueReferrer[s] = NULL
    BY <2>1, <2>2, FindDead DEF RefInv, Resolves, svz_sock_getreferrer
  <2>3. CASE trueReferrer[s] # NULL
    BY <2>1, <2>3, FindLive DEF RefInv, Resolves, svz_sock_getreferrer
  <2> QED BY <2>2, <2>3
<1> QED BY <1>1, <1>2 DEF ParentExact, ReferrerExact

\* The first id given out is 1: the probe starts behind sock_id = 0 and the
\* table is empty.
LEMMA FirstId ==
    ASSUME CoreInv, VersionOK, NEW s \in Sock, svz_sock_unique_id(s),
           sock_version = 0
    PROVE  sock_id' # 0
<1>1. heap = {} /\ sock_id = 0 /\ enqueued = {}
  BY DEF CoreInv, TypeOK, VersionOK
<1>2. \A i \in Slots : socktab[i] = NULL
  BY <1>1 DEF CoreInv, TableOK
<1>3. sock_limit \in Nat /\ sock_limit >= 2 /\ 0 \in Slots /\ 1 \in Slots
  BY DEF CoreInv, TypeOK, Slots
<1>4. Masked(sock_id + 1) = 1
  BY <1>1, <1>3 DEF Masked
<1>5. ASSUME NEW i \in 1..sock_limit, FreeAfter(i)
      PROVE  i = 1
  BY <1>2, <1>3, <1>4, <1>5 DEF FreeAfter
<1>6. PICK i \in 1..sock_limit : FreeAfter(i) /\ sock_id' = Masked(sock_id + i)
  BY <1>2, <1>3 DEF svz_sock_unique_id
<1> QED BY <1>4, <1>5, <1>6

\* Every step keeps versions unique.
LEMMA VersionStep ==
    ASSUME CoreInv, VersionOK, [Next]_vars
    PROVE  VersionOK'
<1>1. ASSUME NEW s \in Sock, NEW l \in BOOLEAN, svz_sock_create(s, l)
      PROVE  VersionOK'
  <2>1. /\ heap' = heap \cup {s} /\ s \notin heap /\ heap \subseteq Sock
        /\ svz_sock_unique_id(s) /\ sock_version \in Nat
    BY <1>1 DEF svz_sock_create, CoreInv, TypeOK
  <2>2. /\ version'[s] = sock_version /\ id'[s] = sock_id'
        /\ sock_version' = sock_version + 1
        /\ \A x \in heap : version'[x] = version[x] /\ id'[x] = id[x]
    BY <2>1 DEF svz_sock_unique_id, CoreInv, TypeOK
  <2>3. sock_version = 0 => sock_id' # 0
    BY <2>1, FirstId
  <2>4. \A x \in heap : version[x] \in Nat
    BY DEF CoreInv, TypeOK
  <2> QED BY <2>1, <2>2, <2>3, <2>4 DEF VersionOK
<1>2. ASSUME heap' \subseteq heap,
             UNCHANGED <<id, version, sock_version, sock_id>>
      PROVE  VersionOK'
  BY <1>2 DEF VersionOK
<1>3. ASSUME NEW p \in Sock, Accept(p)
      PROVE  VersionOK'
  BY <1>2, <1>3 DEF Accept
<1>4. ASSUME Enqueue
      PROVE  VersionOK'
  BY <1>2, <1>4 DEF Enqueue
<1>5. ASSUME Discard
      PROVE  VersionOK'
  BY <1>2, <1>5 DEF Discard, svz_sock_free, tabVars
<1>6. ASSUME NEW s \in Sock, svz_sock_shutdown(s)
      PROVE  VersionOK'
  BY <1>2, <1>6 DEF svz_sock_shutdown, svz_sock_free
<1>7. ASSUME NEW s \in Sock, NEW t \in Sock, SetReferrers(s, t)
      PROVE  VersionOK'
  BY <1>2, <1>7 DEF SetReferrers, tabVars
<1>8. ASSUME NEW s \in Sock, ClearReferrers(s)
      PROVE  VersionOK'
  BY <1>2, <1>8 DEF ClearReferrers, tabVars
<1>9. ASSUME rechain_list_of_socks
      PROVE  VersionOK'
  BY <1>2, <1>9 DEF rechain_list_of_socks, tabVars
<1>10. CASE UNCHANGED vars
  BY <1>2, <1>10 DEF vars, tabVars
<1> QED BY <1>1, <1>3, <1>4, <1>5, <1>6, <1>7, <1>8, <1>9, <1>10 DEF Next

\* A new structure disturbs no reference and starts with an unset one.
LEMMA CreateResolves ==
    ASSUME CoreInv, VersionOK, NEW s \in Sock, NEW l \in BOOLEAN,
           svz_sock_create(s, l),
           NEW r \in [Sock -> Int \X Int], NEW m \in [Sock -> Ptr],
           Resolves(r, m)
    PROVE  Resolves(r, m)'
<1>1. /\ heap' = heap \cup {s} /\ s \notin heap /\ heap \subseteq Sock
      /\ enqueued' = enqueued /\ enqueued \subseteq heap
      /\ svz_sock_unique_id(s) /\ sock_version \in Nat
  BY DEF svz_sock_create, CoreInv, TypeOK
<1>2. /\ version'[s] = sock_version /\ sock_version' = sock_version + 1
      /\ \A x \in heap : version'[x] = version[x] /\ id'[x] = id[x]
  BY <1>1 DEF svz_sock_unique_id, CoreInv, TypeOK
<1>3. ASSUME NEW ref \in Int \X Int, Dead(ref) PROVE Dead(ref)'
  BY <1>1, <1>2, <1>3 DEF Dead
<1>4. ASSUME NEW x \in heap', m[x] = NULL PROVE Dead(r[x])'
  <2>1. CASE x \in heap
    BY <1>1, <1>3, <1>4, <2>1 DEF Resolves
  <2>2. CASE x = s
    <3>1. r[s] = Unset
      BY <1>1 DEF Resolves
    <3> QED BY <2>2, <3>1 DEF Dead
  <2> QED BY <1>1, <2>1, <2>2
<1>5. ASSUME NEW x \in heap', m[x] # NULL
      PROVE  m[x] \in enqueued' /\ r[x] = <<id'[m[x]], version'[m[x]]>>
  BY <1>1, <1>2, <1>5 DEF Resolves
<1>6. \A x \in Sock \ heap' : r[x] = Unset /\ m[x] = NULL
  BY <1>1 DEF Resolves
<1> QED BY <1>4, <1>5, <1>6 DEF Resolves

\* Enqueuing and everything that leaves identities alone keeps references.
LEMMA SameResolves ==
    ASSUME enqueued \subseteq enqueued',
           UNCHANGED <<heap, id, version, sock_version>>,
           NEW r, NEW m, Resolves(r, m)
    PROVE  Resolves(r, m)'
BY DEF Resolves, Dead

\* What svz_sock_free(s) makes of references r and of their meanings m.
Cleared(s, r, r2) == \A x \in Sock : r2[x] = IF x = s THEN Unset ELSE r[x]
Lost(s, m, m2) ==
    \A x \in Sock : m2[x] = IF x = s \/ m[x] = s THEN NULL ELSE m[x]

\* Freeing a structure kills the references to it and clears its own.
LEMMA FreeResolves ==
    ASSUME CoreInv, VersionOK, NEW s \in heap, heap' = heap \ {s},
           enqueued' = enqueued \ {s}, UNCHANGED <<id, version, sock_version>>,
           NEW r \in [Sock -> Int \X Int], NEW m \in [Sock -> Ptr],
           Resolves(r, m),
           NEW r2, NEW m2, Cleared(s, r, r2), Lost(s, m, m2)
    PROVE  Resolves(r2, m2)'
<1>1. heap \subseteq Sock /\ enqueued \subseteq heap /\ s \in Sock
  BY DEF CoreInv, TypeOK
<1>2. ASSUME NEW ref, Dead(ref) PROVE Dead(ref)'
  BY <1>2 DEF Dead
<1>3. ASSUME NEW x \in heap' PROVE r2[x] = r[x] /\ x \in heap /\ x # s /\ x \in Sock
  BY <1>1 DEF Cleared
<1>4. ASSUME NEW x \in heap', m2[x] = NULL PROVE Dead(r2[x])'
  <2>1. CASE m[x] = NULL
    BY <1>2, <1>3, <2>1 DEF Resolves
  <2>2. CASE m[x] # NULL
    <3>1. m[x] = s
      BY <1>3, <1>4, <2>2 DEF Lost
    <3>2. r[x] = <<id[s], version[s]>>
      BY <1>3, <2>2, <3>1 DEF Resolves
    <3>3. version[s] \in Nat /\ version[s] < sock_version
      BY <1>1 DEF VersionOK, CoreInv, TypeOK
    <3>4. \A t \in heap' : version'[t] # version[s]
      BY DEF VersionOK
    <3> QED BY <1>3, <3>2, <3>3, <3>4 DEF Dead
  <2> QED BY <2>1, <2>2
<1>5. ASSUME NEW x \in heap', m2[x] # NULL
      PROVE  m2[x] \in enqueued' /\ r2[x] = <<id'[m2[x]], version'[m2[x]]>>
  <2>1. m2[x] = m[x] /\ m[x] # s /\ m[x] # NULL
    BY <1>3, <1>5 DEF Lost
  <2> QED BY <1>3, <2>1 DEF Resolves
<1>6. ASSUME NEW x \in Sock \ heap' PROVE r2[x] = Unset /\ m2[x] = NULL
  <2>1. CASE x = s
    BY <2>1 DEF Cleared, Lost
  <2>2. CASE x # s
    BY <1>1, <2>2 DEF Resolves, Cleared, Lost
  <2> QED BY <2>1, <2>2
<1> QED BY <1>4, <1>5, <1>6 DEF Resolves

\* Storing the identity of an enqueued socket makes the reference live.
LEMMA PointResolves ==
    ASSUME CoreInv, NEW x \in heap, NEW t \in enqueued,
           NEW r \in [Sock -> Int \X Int], NEW m \in [Sock -> Ptr],
           Resolves(r, m)
    PROVE  Resolves([r EXCEPT ![x] = <<id[t], version[t]>>],
                    [m EXCEPT ![x] = t])
<1>1. heap \subseteq Sock /\ NULL \notin enqueued
  BY DEF CoreInv, TypeOK
<1> DEFINE r2 == [r EXCEPT ![x] = <<id[t], version[t]>>]
           m2 == [m EXCEPT ![x] = t]
<1>2. /\ r2[x] = <<id[t], version[t]>> /\ m2[x] = t
      /\ \A y \in Sock : y # x => r2[y] = r[y] /\ m2[y] = m[y]
  BY <1>1
<1> HIDE DEF r2, m2
<1>3. Resolves(r2, m2)
  BY <1>1, <1>2 DEF Resolves
<1> QED BY <1>3 DEF r2, m2

\* svz_sock_setreferrer (sock, NULL) makes it dead.
LEMMA ClearResolves ==
    ASSUME CoreInv, NEW x \in heap,
           NEW r \in [Sock -> Int \X Int], NEW m \in [Sock -> Ptr],
           Resolves(r, m)
    PROVE  Resolves([r EXCEPT ![x] = NoReferrer], [m EXCEPT ![x] = NULL])
<1>1. heap \subseteq Sock
  BY DEF CoreInv, TypeOK
<1> DEFINE r2 == [r EXCEPT ![x] = NoReferrer]
           m2 == [m EXCEPT ![x] = NULL]
<1>2. /\ r2[x] = NoReferrer /\ m2[x] = NULL
      /\ \A y \in Sock : y # x => r2[y] = r[y] /\ m2[y] = m[y]
  BY <1>1
<1> HIDE DEF r2, m2
<1>3. Dead(r2[x])
  BY <1>2 DEF Dead
<1>4. Resolves(r2, m2)
  BY <1>1, <1>2, <1>3 DEF Resolves
<1> QED BY <1>4 DEF r2, m2

\* Every step keeps all references resolving.
LEMMA RefStep ==
    ASSUME CoreInv, RefInv, [Next]_vars
    PROVE  RefInv'
<1> DEFINE RTyp == [Sock -> Int \X Int]
           MTyp == [Sock -> Ptr]
<1>1. PICK p \in RTyp, tp \in MTyp, r \in RTyp, tr \in MTyp :
        p = parent /\ tp = trueParent /\ r = referrer /\ tr = trueReferrer
  BY DEF CoreInv, TypeOK
<1>2. VersionOK /\ Resolves(p, tp) /\ Resolves(r, tr)
  BY <1>1 DEF RefInv
<1>3. VersionOK'
  BY <1>2, VersionStep
<1>4. ASSUME NEW p2, NEW tp2, NEW r2, NEW tr2,
             p2 = parent', tp2 = trueParent', r2 = referrer',
             tr2 = trueReferrer', Resolves(p2, tp2)', Resolves(r2, tr2)'
      PROVE  RefInv'
  BY <1>3, <1>4 DEF RefInv
<1>5. ASSUME UNCHANGED refVars, Resolves(p, tp)', Resolves(r, tr)'
      PROVE  RefInv'
  BY <1>1, <1>4, <1>5 DEF refVars
<1>6. ASSUME NEW s \in Sock, NEW l \in BOOLEAN, svz_sock_create(s, l)
      PROVE  RefInv'
  <2>1. Resolves(p, tp)'
    BY <1>2, <1>6, CreateResolves
  <2>2. Resolves(r, tr)'
    BY <1>2, <1>6, CreateResolves
  <2> QED BY <1>5, <1>6, <2>1, <2>2 DEF svz_sock_create
<1>7. ASSUME NEW a \in Sock, Accept(a)
      PROVE  RefInv'
  <2>1. PICK f \in heap : f = floating
    BY <1>7 DEF Accept, CoreInv, TypeOK
  <2>2. enqueued \subseteq enqueued'
    BY <1>7, EnqueueEffect DEF Accept, CoreInv
  <2>3. PICK p2, tp2 : /\ p2 = [p EXCEPT ![f] = <<id[a], version[a]>>]
                       /\ tp2 = [tp EXCEPT ![f] = a]
    OBVIOUS
  <2>4. Resolves(p2, tp2)
    BY <1>2, <1>7, <2>3, PointResolves DEF Accept
  <2>5. Resolves(p2, tp2)' /\ Resolves(r, tr)'
    BY <1>2, <1>7, <2>2, <2>4, SameResolves DEF Accept
  <2>6. p2 = parent' /\ tp2 = trueParent' /\ r = referrer' /\ tr = trueReferrer'
    BY <1>1, <1>7, <2>1, <2>3 DEF Accept
  <2> QED BY <1>4, <2>5, <2>6
<1>8. ASSUME Enqueue
      PROVE  RefInv'
  <2>1. enqueued \subseteq enqueued'
    BY <1>8, EnqueueEffect DEF Enqueue, CoreInv
  <2>2. Resolves(p, tp)' /\ Resolves(r, tr)'
    BY <1>2, <1>8, <2>1, SameResolves DEF Enqueue
  <2> QED BY <1>5, <1>8, <2>2 DEF Enqueue
<1>9. ASSUME NEW s \in heap, svz_sock_free(s), enqueued' = enqueued \ {s},
             UNCHANGED <<id, version, sock_version>>
      PROVE  RefInv'
  <2>1. PICK p2, tp2, r2, tr2 :
          /\ p2 = [p EXCEPT ![s] = Unset]
          /\ tp2 = [x \in Sock |-> IF x = s \/ tp[x] = s THEN NULL ELSE tp[x]]
          /\ r2 = [r EXCEPT ![s] = Unset]
          /\ tr2 = [x \in Sock |-> IF x = s \/ tr[x] = s THEN NULL ELSE tr[x]]
    OBVIOUS
  <2>2. heap' = heap \ {s}
    BY <1>9 DEF svz_sock_free
  <2>3. Cleared(s, p, p2) /\ Cleared(s, r, r2)
    BY <2>1 DEF Cleared
  <2>4. Lost(s, tp, tp2) /\ Lost(s, tr, tr2)
    BY <2>1 DEF Lost
  <2>5. Resolves(p2, tp2)'
    BY <1>2, <1>9, <2>2, <2>3, <2>4, FreeResolves
  <2>6. Resolves(r2, tr2)'
    BY <1>2, <1>9, <2>2, <2>3, <2>4, FreeResolves
  <2>7. /\ p2 = parent' /\ tp2 = trueParent'
        /\ r2 = referrer' /\ tr2 = trueReferrer'
    BY <1>1, <1>9, <2>1 DEF svz_sock_free
  <2> QED BY <1>4, <2>5, <2>6, <2>7
<1>10. ASSUME Discard
       PROVE  RefInv'
  <2>1. floating \in heap /\ floating \notin enqueued
    BY <1>10 DEF Discard, CoreInv, TypeOK
  <2> QED BY <1>9, <1>10, <2>1 DEF Discard, tabVars
<1>11. ASSUME NEW s \in Sock, svz_sock_shutdown(s)
       PROVE  RefInv'
  <2>1. s \in heap /\ enqueued' = enqueued \ {s}
    BY <1>11, DequeueEffect DEF svz_sock_shutdown, CoreInv
  <2> QED BY <1>9, <1>11, <2>1 DEF svz_sock_shutdown
<1>12. ASSUME NEW s \in Sock, NEW t \in Sock, SetReferrers(s, t)
       PROVE  RefInv'
  <2>1. s \in enqueued /\ t \in enqueued /\ s \in heap /\ t \in heap /\ s # t
    BY <1>12 DEF SetReferrers, CoreInv, TypeOK
  <2>2. PICK r1, tr1, r2, tr2 :
          /\ r1 = [r EXCEPT ![s] = <<id[t], version[t]>>]
          /\ tr1 = [tr EXCEPT ![s] = t]
          /\ r2 = [r1 EXCEPT ![t] = <<id[s], version[s]>>]
          /\ tr2 = [tr1 EXCEPT ![t] = s]
    OBVIOUS
  <2>3. Resolves(r1, tr1)
    BY <1>2, <2>1, <2>2, PointResolves
  <2>4. <<id[t], version[t]>> \in Int \X Int /\ t \in Ptr
    BY DEF CoreInv, TypeOK, Ptr
  <2>5. r1 \in RTyp /\ tr1 \in MTyp
    BY <2>2, <2>4
  <2>6. Resolves(r2, tr2)
    BY <2>1, <2>2, <2>3, <2>5, PointResolves
  <2>7. UNCHANGED <<enqueued, heap, id, version, sock_version, parent, trueParent>>
    BY <1>12 DEF SetReferrers, tabVars
  <2>8. Resolves(p, tp)' /\ Resolves(r2, tr2)'
    BY <1>2, <2>6, <2>7, SameResolves
  <2>9. r2 = referrer' /\ tr2 = trueReferrer'
    BY <1>1, <1>12, <2>2 DEF SetReferrers
  <2> QED BY <1>1, <1>4, <2>7, <2>8, <2>9
<1>13. ASSUME NEW s \in Sock, ClearReferrers(s)
       PROVE  RefInv'
  <2>1. PICK x : x = svz_sock_getreferrer(s)
    OBVIOUS
  <2>2. /\ s \in heap /\ x # NULL
        /\ referrer' = [referrer EXCEPT ![s] = NoReferrer, ![x] = NoReferrer]
        /\ trueReferrer' = [trueReferrer EXCEPT ![s] = NULL, ![x] = NULL]
        /\ UNCHANGED <<enqueued, heap, id, version, sock_version, parent,
                       trueParent>>
    BY <1>13, <2>1 DEF ClearReferrers, tabVars, CoreInv, TypeOK
  <2>3. x \in heap
    <3>1. svz_sock_getreferrer(s) = trueReferrer[s]
      BY <2>2, RefExact DEF ReferrerExact
    <3> QED BY <2>1, <2>2, <3>1 DEF RefInv, Resolves, CoreInv, TypeOK
  <2>4. PICK r1, tr1, r2, tr2 :
          /\ r1 = [r EXCEPT ![s] = NoReferrer] /\ tr1 = [tr EXCEPT ![s] = NULL]
          /\ r2 = [r1 EXCEPT ![x] = NoReferrer] /\ tr2 = [tr1 EXCEPT ![x] = NULL]
    OBVIOUS
  <2>5. Resolves(r1, tr1)
    BY <1>2, <2>2, <2>4, ClearResolves
  <2>6. r1 \in RTyp /\ tr1 \in MTyp
    BY <2>4 DEF NoReferrer, Ptr
  <2>7. Resolves(r2, tr2)
    BY <2>3, <2>4, <2>5, <2>6, ClearResolves
  <2>8. Resolves(p, tp)' /\ Resolves(r2, tr2)'
    BY <1>2, <2>2, <2>7, SameResolves
  <2>9. r2 = referrer' /\ tr2 = trueReferrer'
    BY <1>1, <2>2, <2>4
  <2> QED BY <1>1, <1>4, <2>2, <2>8, <2>9
<1>14. ASSUME rechain_list_of_socks
       PROVE  RefInv'
  <2>1. Resolves(p, tp)' /\ Resolves(r, tr)'
    BY <1>2, <1>14, SameResolves DEF rechain_list_of_socks, tabVars
  <2> QED BY <1>5, <1>14, <2>1 DEF rechain_list_of_socks
<1>15. CASE UNCHANGED vars
  <2>1. Resolves(p, tp)' /\ Resolves(r, tr)'
    BY <1>2, <1>15, SameResolves DEF vars, tabVars
  <2> QED BY <1>5, <1>15, <2>1 DEF vars
<1> QED BY <1>6, <1>7, <1>8, <1>10, <1>11, <1>12, <1>13, <1>14, <1>15 DEF Next

\* However ids and addresses are reused, svz_sock_getparent returns the
\* listener that accepted a socket for as long as that one lives and NULL
\* ever after, and svz_sock_getreferrer does the same for referrers.
THEOREM ReferencesExact == Spec => [](ParentExact /\ ReferrerExact)
<1>1. Init => RefInv
  BY DEF Init, RefInv, VersionOK, Resolves
<1>2. CoreInv /\ RefInv /\ [Next]_vars => RefInv'
  BY RefStep
<1>3. CoreInv /\ RefInv => ParentExact /\ ReferrerExact
  BY RefExact
<1> QED BY <1>1, <1>2, <1>3, CoreCorrect, PTL DEF Spec

-----------------------------------------------------------------------------
(***************************************************************************)
(* The refinement of SockQueue.  Chained says that a numbering exists; the *)
(* walk along next is the only sequence that spells it, so each operation  *)
(* is followed on the numbers, and the sequence read off afterwards.       *)
(***************************************************************************)

\* The part of Placed that fixes the walk from root along nxt through E.
Numbered(E, root, nxt, pos, n) ==
    /\ \A s \in E : pos[s] \in 1..n
    /\ \A s, t \in E : pos[s] = pos[t] => s = t
    /\ \A k \in 1..n : \E s \in E : pos[s] = k
    /\ \A s \in E : IF pos[s] = n THEN nxt[s] = NULL
                    ELSE nxt[s] \in E /\ pos[nxt[s]] = pos[s] + 1
    /\ IF n = 0 THEN root = NULL ELSE root \in E /\ pos[root] = 1

\* Sets of numbers have least elements.
LEMMA LeastWF ==
    ASSUME NEW R, IsWellFoundedOn(R, Nat), NEW I, I \subseteq Nat, I # {}
    PROVE  \E i \in I : \A j \in I : ~(<<j, i>> \in R)
BY WFMin, Zenon

LEMMA Least ==
    ASSUME NEW I \in SUBSET Nat, I # {}
    PROVE  \E i \in I : \A j \in I : i <= j
<1>1. IsWellFoundedOn(OpToRel(<, Nat), Nat)
  BY NatLessThanWellFounded, Zenon
<1>2. \A i, j \in Nat : j < i => <<j, i>> \in OpToRel(<, Nat)
  BY DEF OpToRel
<1>3. PICK R : IsWellFoundedOn(R, Nat) /\ \A i, j \in Nat : j < i => <<j, i>> \in R
  BY <1>1, <1>2, Zenon
<1>4. PICK i \in I : \A j \in I : ~(<<j, i>> \in R)
  BY <1>3, LeastWF, Zenon
<1>5. \A j \in I : ~(j < i)
  BY <1>3, <1>4
<1> QED BY <1>5

\* The numbers spell a sequence of the members of E.
LEMMA Spelled ==
    ASSUME NEW E, NEW root, NEW nxt, NEW pos, NEW n \in Nat,
           Numbered(E, root, nxt, pos, n)
    PROVE  \E q \in [1..n -> E] : \A i \in 1..n : pos[q[i]] = i
<1> DEFINE q == [k \in 1..n |-> CHOOSE s \in E : pos[s] = k]
<1>1. \A k \in 1..n : q[k] \in E /\ pos[q[k]] = k
  BY DEF Numbered
<1>2. q \in [1..n -> E]
  BY <1>1
<1> HIDE DEF q
<1> QED BY <1>1, <1>2

\* There are as many members of E as numbers.
LEMMA Counted ==
    ASSUME NEW E, NEW root, NEW nxt, NEW pos, NEW n \in Nat,
           Numbered(E, root, nxt, pos, n)
    PROVE  Cardinality(E) = n
<1>1. PICK q \in [1..n -> E] : \A i \in 1..n : pos[q[i]] = i
  BY Spelled
<1>2. \A i, j \in 1..n : q[i] = q[j] => i = j
  BY <1>1
<1>3. \A s \in E : \E i \in 1..n : q[i] = s
  <2> SUFFICES ASSUME NEW s \in E PROVE \E i \in 1..n : q[i] = s
    OBVIOUS
  <2>1. pos[s] \in 1..n
    BY DEF Numbered
  <2>2. pos[q[pos[s]]] = pos[s] /\ q[pos[s]] \in E
    BY <1>1, <2>1
  <2> QED BY <2>1, <2>2 DEF Numbered
<1>4. q \in Bijection(1..n, E)
  BY <1>2, <1>3 DEF Bijection, Injection, Surjection, IsInjective
<1>5. ExistsBijection(1..n, E)
  BY <1>4 DEF ExistsBijection
<1> QED BY <1>5, FS_CountingElements

\* Only one sequence goes along the links.
LEMMA OneWalk ==
    ASSUME NEW E, NEW root, NEW nxt, NEW n \in Nat,
           NEW p \in [1..n -> E], NEW q \in [1..n -> E],
           IsWalk(p, root, nxt), IsWalk(q, root, nxt)
    PROVE  p = q
<1>1. p \in Seq(E) /\ q \in Seq(E) /\ Len(p) = n /\ Len(q) = n
  OBVIOUS
<1> DEFINE I == {i \in 1..n : p[i] # q[i]}
<1>2. SUFFICES ASSUME I # {} PROVE FALSE
  OBVIOUS
<1>3. PICK i \in I : \A j \in I : i <= j
  <2>1. I \in SUBSET Nat
    OBVIOUS
  <2> HIDE DEF I
  <2> QED BY <1>2, <2>1, Least
<1>4. i # 1
  <2>1. n >= 1 /\ p # <<>> /\ q # <<>>
    BY <1>1, <1>3
  <2>2. p[1] = root /\ q[1] = root
    BY <2>1 DEF IsWalk
  <2> QED BY <1>3, <2>2
<1>5. i - 1 \in 1..n /\ i - 1 # n /\ p[i - 1] = q[i - 1]
  BY <1>3, <1>4
<1>6. p[i] = nxt[p[i - 1]]
  BY <1>1, <1>5 DEF IsWalk
<1>7. q[i] = nxt[q[i - 1]]
  BY <1>1, <1>5 DEF IsWalk
<1> QED BY <1>3, <1>5, <1>6, <1>7

\* The sequence that the numbers spell is the walk.
LEMMA WalkIs ==
    ASSUME NEW E, NEW root, NEW nxt, NEW pos, NEW n \in Nat,
           Numbered(E, root, nxt, pos, n),
           NEW q \in [1..n -> E], \A i \in 1..n : pos[q[i]] = i
    PROVE  Walk(E, root, nxt) = q
<1>1. Cardinality(E) = n
  BY Counted
<1>2. q \in Seq(E) /\ Len(q) = n /\ DOMAIN q = 1..n
  OBVIOUS
<1>3. IsWalk(q, root, nxt)
  <2>1. root = IF q = <<>> THEN NULL ELSE q[1]
    <3>1. CASE n = 0
      BY <1>2, <3>1 DEF Numbered
    <3>2. CASE n # 0
      <4>1. q # <<>> /\ 1 \in 1..n
        BY <1>2, <3>2
      <4>2. root \in E /\ pos[root] = 1 /\ q[1] \in E /\ pos[q[1]] = 1
        BY <3>2, <4>1 DEF Numbered
      <4> QED BY <4>1, <4>2 DEF Numbered
    <3> QED BY <3>1, <3>2
  <2>2. ASSUME NEW i \in 1..n
        PROVE  nxt[q[i]] = IF i = n THEN NULL ELSE q[i + 1]
    <3>1. q[i] \in E /\ pos[q[i]] = i
      OBVIOUS
    <3>2. CASE i = n
      BY <3>1, <3>2 DEF Numbered
    <3>3. CASE i # n
      <4>1. i + 1 \in 1..n
        BY <3>3
      <4>2. q[i + 1] \in E /\ pos[q[i + 1]] = i + 1
        BY <4>1
      <4>3. nxt[q[i]] \in E /\ pos[nxt[q[i]]] = i + 1
        BY <3>1, <3>3 DEF Numbered
      <4> QED BY <3>3, <4>2, <4>3 DEF Numbered
    <3> QED BY <3>2, <3>3
  <2> QED BY <1>2, <2>1, <2>2 DEF IsWalk
<1>4. \A p \in [1..n -> E] : IsWalk(p, root, nxt) => p = q
  BY <1>3, OneWalk
<1> QED BY <1>1, <1>3, <1>4 DEF Walk

\* A sequence as a function.
LEMMA SeqFun ==
    ASSUME NEW S, NEW n \in Nat, NEW r \in Seq(S), Len(r) = n
    PROVE  r \in [1..n -> S]
OBVIOUS

\* What appending, taking out and moving the last element do at every index.
LEMMA AppendAt ==
    ASSUME NEW S, NEW n \in Nat, NEW q \in [1..n -> S], NEW e
    PROVE  /\ Append(q, e) \in [1..(n + 1) -> S \cup {e}]
           /\ Append(q, e)[n + 1] = e
           /\ \A i \in 1..n : Append(q, e)[i] = q[i]
<1>1. q \in Seq(S \cup {e}) /\ Len(q) = n /\ e \in S \cup {e}
  OBVIOUS
<1>2. /\ Append(q, e) \in Seq(S \cup {e}) /\ Len(Append(q, e)) = n + 1
      /\ \A i \in 1..n : Append(q, e)[i] = q[i]
      /\ Append(q, e)[n + 1] = e
  BY <1>1, AppendProperties
<1>3. Append(q, e) \in [1..(n + 1) -> S \cup {e}]
  <2>1. n + 1 \in Nat
    OBVIOUS
  <2> QED BY <1>2, <2>1, SeqFun
<1> QED BY <1>2, <1>3

WithoutAt(r, q, k, n) ==
    \A i \in 1..(n - 1) : r[i] = IF i < k THEN q[i] ELSE q[i + 1]

LEMMA RemovedAt ==
    ASSUME NEW S, NEW n \in Nat, NEW q, q \in [1..n -> S], NEW k \in 1..n,
           NEW r, r = Queue!RemoveAt(q, k)
    PROVE  /\ r \in [1..(n - 1) -> S]
           /\ WithoutAt(r, q, k, n)
<1>1. q \in Seq(S) /\ Len(q) = n
  OBVIOUS
<1> DEFINE a == SubSeq(q, 1, k - 1)
           b == SubSeq(q, k + 1, n)
<1>2. /\ a \in Seq(S) /\ Len(a) = k - 1
      /\ \A i \in 1..(k - 1) : a[i] = q[i]
  BY <1>1
<1>3. /\ b \in Seq(S) /\ Len(b) = n - k
      /\ \A i \in 1..(n - k) : b[i] = q[k + i]
  BY <1>1
<1>4. Queue!RemoveAt(q, k) = a \o b
  BY <1>1 DEF Queue!RemoveAt
<1> HIDE DEF a, b
<1>5. a \o b \in Seq(S) /\ Len(a \o b) = n - 1
  <2>1. a \o b \in Seq(S) /\ Len(a \o b) = Len(a) + Len(b)
    BY <1>2, <1>3, ConcatProperties
  <2> QED BY <1>2, <1>3, <2>1
<1>6. ASSUME NEW i \in 1..(n - 1)
      PROVE  (a \o b)[i] = IF i < k THEN q[i] ELSE q[i + 1]
  <2>1. CASE i < k
    <3>1. (a \o b)[i] = a[i] /\ i \in 1..(k - 1)
      BY <1>2, <1>3, <2>1
    <3> QED BY <1>2, <2>1, <3>1
  <2>2. CASE i >= k
    <3>1. (a \o b)[i] = b[i - (k - 1)] /\ i - (k - 1) \in 1..(n - k)
      BY <1>2, <1>3, <2>2
    <3> QED BY <1>3, <2>2, <3>1
  <2>3. i < k \/ i >= k
    OBVIOUS
  <2> QED BY <2>1, <2>2, <2>3, Zenon
<1>7. a \o b \in [1..(n - 1) -> S]
  <2>1. n - 1 \in Nat
    OBVIOUS
  <2> QED BY <1>5, <2>1, SeqFun
<1>8. r = a \o b
  BY <1>4
<1> QED BY <1>6, <1>7, <1>8 DEF WithoutAt

LEMMA RotatedAt ==
    ASSUME NEW S, NEW n \in Nat, NEW q \in [1..n -> S], NEW k \in 0..(n - 1)
    PROVE  LET r == Queue!InsertAt(Queue!Front(q), k + 1, q[n])
           IN  /\ r \in [1..n -> S]
               /\ \A i \in 1..n : r[i] = IF i <= k THEN q[i]
                                         ELSE IF i = k + 1 THEN q[n]
                                         ELSE q[i - 1]
<1>1. q \in Seq(S) /\ Len(q) = n
  OBVIOUS
<1> DEFINE f == SubSeq(q, 1, n - 1)
           a == SubSeq(f, 1, k)
           b == SubSeq(f, k + 1, n - 1)
           c == a \o <<q[n]>>
<1>2. /\ f \in Seq(S) /\ Len(f) = n - 1
      /\ \A i \in 1..(n - 1) : f[i] = q[i]
  BY <1>1
<1>3. Queue!InsertAt(Queue!Front(q), k + 1, q[n]) = c \o b
  <2>1. Queue!Front(q) = f
    BY <1>1 DEF Queue!Front
  <2>2. k + 1 - 1 = k /\ Len(f) = n - 1
    BY <1>2
  <2> HIDE DEF f
  <2> QED BY <2>1, <2>2 DEF Queue!InsertAt
<1> HIDE DEF f
<1>4. /\ a \in Seq(S) /\ Len(a) = k
      /\ \A i \in 1..k : a[i] = q[i]
  BY <1>2
<1>5. /\ b \in Seq(S) /\ Len(b) = n - 1 - k
      /\ \A i \in 1..(n - 1 - k) : b[i] = q[k + i]
  BY <1>2
<1> HIDE DEF a, b
<1>6. /\ c \in Seq(S) /\ Len(c) = k + 1 /\ c[k + 1] = q[n]
      /\ \A i \in 1..k : c[i] = q[i]
  BY <1>1, <1>4
<1> HIDE DEF c
<1>7. c \o b \in Seq(S) /\ Len(c \o b) = n
  <2>1. c \o b \in Seq(S) /\ Len(c \o b) = Len(c) + Len(b)
    BY <1>5, <1>6, ConcatProperties
  <2> QED BY <1>5, <1>6, <2>1
<1>8. ASSUME NEW i \in 1..n
      PROVE  (c \o b)[i] = IF i <= k THEN q[i]
                           ELSE IF i = k + 1 THEN q[n] ELSE q[i - 1]
  <2>1. CASE i <= k + 1
    <3>1. (c \o b)[i] = c[i]
      BY <1>5, <1>6, <2>1
    <3> QED BY <1>6, <2>1, <3>1
  <2>2. CASE i > k + 1
    <3>1. (c \o b)[i] = b[i - (k + 1)] /\ i - (k + 1) \in 1..(n - 1 - k)
      BY <1>5, <1>6, <2>2
    <3>2. b[i - (k + 1)] = q[i - 1]
      <4>1. PICK j \in 1..(n - 1 - k) : j = i - (k + 1)
        BY <3>1
      <4>2. b[j] = q[k + j] /\ k + j = i - 1
        BY <1>5, <4>1
      <4> QED BY <4>1, <4>2, Zenon
    <3>3. ~(i <= k) /\ i # k + 1
      BY <2>2
    <3> QED BY <3>1, <3>2, <3>3, Zenon
  <2>3. i <= k + 1 \/ i > k + 1
    OBVIOUS
  <2> QED BY <2>1, <2>2, <2>3, Zenon
<1>9. c \o b \in [1..n -> S]
  BY <1>7, SeqFun
<1> QED BY <1>3, <1>8, <1>9

\* The sequence of the present state, read through the numbering.
LEMMA ChainAt ==
    ASSUME NEW n \in Nat, NEW pos, Placed(pos, n)
    PROVE  /\ Chain \in [1..n -> enqueued] /\ Len(Chain) = n
           /\ \A i \in 1..n : pos[Chain[i]] = i
<1>1. Numbered(enqueued, svz_sock_root, next, pos, n)
  BY DEF Placed, Numbered
<1>2. PICK q \in [1..n -> enqueued] : \A i \in 1..n : pos[q[i]] = i
  BY <1>1, Spelled
<1>3. Chain = q
  BY <1>1, <1>2, WalkIs DEF Chain
<1>4. Len(q) = n
  OBVIOUS
<1> QED BY <1>2, <1>3, <1>4

\* What spells the new numbering is the new sequence.
LEMMA ChainNext ==
    ASSUME NEW n \in Nat, NEW pos, Placed(pos, n)',
           NEW q \in [1..n -> enqueued'], \A i \in 1..n : pos[q[i]] = i
    PROVE  Chain' = q
<1>1. Numbered(enqueued', svz_sock_root', next', pos, n)
  BY DEF Placed, Numbered
<1>2. Walk(enqueued', svz_sock_root', next') = q
  BY <1>1, WalkIs
<1> QED BY <1>2 DEF Chain

\* Accept and Enqueue put the new socket behind the others.
LEMMA JoinStep ==
    ASSUME TypeOK, TableOK, IdReserved, Chained, floating # NULL,
           svz_sock_enqueue(floating), UNCHANGED <<sock_limit, listening>>
    PROVE  \E s \in Sock : Queue!Join(s)
<1>1. PICK n \in Nat, pos \in [Sock -> Int] : Placed(pos, n)
  BY DEF Chained
<1>2. PICK f : f = floating
  OBVIOUS
<1>3. /\ f \in Sock /\ f \notin enqueued /\ enqueued' = enqueued \cup {f}
      /\ enqueued \subseteq Sock
  BY <1>2, EnqueueEffect DEF TypeOK
<1>4. Placed(Entered(pos, n, f), n + 1)'
  BY <1>1, <1>2, EnqueueChain
<1>5. PICK q : q = Chain
  OBVIOUS
<1>6. /\ q \in [1..n -> enqueued]
      /\ \A i \in 1..n : pos[q[i]] = i
  BY <1>1, <1>5, ChainAt
<1>7. /\ Append(q, f) \in [1..(n + 1) -> enqueued']
      /\ Append(q, f)[n + 1] = f
      /\ \A i \in 1..n : Append(q, f)[i] = q[i]
  <2>1. /\ Append(q, f) \in [1..(n + 1) -> enqueued \cup {f}]
        /\ Append(q, f)[n + 1] = f
        /\ \A i \in 1..n : Append(q, f)[i] = q[i]
    <3>1. PICK E : E = enqueued
      OBVIOUS
    <3>2. q \in [1..n -> E]
      BY <1>6, <3>1
    <3>3. Append(q, f) \in [1..(n + 1) -> E \cup {f}]
      BY <3>2, AppendAt
    <3>4. Append(q, f)[n + 1] = f
      BY <3>2, AppendAt
    <3>5. \A i \in 1..n : Append(q, f)[i] = q[i]
      BY <3>2, AppendAt
    <3> QED BY <3>1, <3>3, <3>4, <3>5, Zenon
  <2> QED BY <1>3, <2>1, Zenon
<1>8. ASSUME NEW i \in 1..(n + 1)
      PROVE  Entered(pos, n, f)[Append(q, f)[i]] = i
  <2>1. CASE i = n + 1
    BY <1>3, <1>7, <2>1 DEF Entered
  <2>2. CASE i # n + 1
    <3>1. i \in 1..n
      BY <2>2
    <3>2. q[i] \in enqueued /\ q[i] # f /\ q[i] \in Sock
      BY <1>3, <1>6, <3>1
    <3> QED BY <1>6, <1>7, <3>1, <3>2 DEF Entered
  <2> QED BY <2>1, <2>2
<1>9. Chain' = Append(q, f)
  <2>1. n + 1 \in Nat
    OBVIOUS
  <2> QED BY <1>4, <1>7, <1>8, <2>1, ChainNext
<1>10. f \notin Queue!Queued
  BY <1>3, <1>5, <1>6 DEF Queue!Queued
<1>11. \/ (listening \cap enqueued)' = (listening \cap enqueued) \cup {f}
       \/ (listening \cap enqueued)' = (listening \cap enqueued) \ {f}
  BY <1>3
<1> QED BY <1>3, <1>5, <1>9, <1>10, <1>11 DEF Queue!Join

\* svz_sock_shutdown takes one socket out and leaves the others in order.
LEMMA LeaveStep ==
    ASSUME TypeOK, TableOK, Chained, NEW s \in Sock, svz_sock_shutdown(s)
    PROVE  Queue!Leave(s)
<1>1. PICK n \in Nat, pos \in [Sock -> Int] : Placed(pos, n)
  BY DEF Chained
<1>2. /\ s \in enqueued /\ enqueued' = enqueued \ {s} /\ dequeue(s)
      /\ listening' = listening \ {s} /\ enqueued \subseteq Sock
      /\ UNCHANGED sock_limit
  BY DequeueEffect DEF svz_sock_shutdown, svz_sock_free, TypeOK
<1>3. n - 1 \in Nat /\ Placed(Left(pos, s), n - 1)'
  BY <1>1, <1>2, DequeueChain
<1>4. PICK q : q = Chain
  OBVIOUS
<1>5. /\ q \in [1..n -> enqueued] /\ DOMAIN q = 1..n
      /\ \A i \in 1..n : pos[q[i]] = i
  BY <1>1, <1>4, ChainAt
<1>6. PICK k \in 1..n : k = pos[s] /\ q[k] = s
  <2>1. pos[s] \in 1..n
    BY <1>1, <1>2 DEF Placed
  <2>2. q[pos[s]] \in enqueued /\ pos[q[pos[s]]] = pos[s]
    BY <1>5, <2>1
  <2> QED BY <1>1, <1>2, <2>1, <2>2 DEF Placed
<1> DEFINE r == Queue!RemoveAt(q, k)
<1>7. /\ r \in [1..(n - 1) -> enqueued]
      /\ \A i \in 1..(n - 1) : r[i] = IF i < k THEN q[i] ELSE q[i + 1]
  <2>1. PICK E : E = enqueued
    OBVIOUS
  <2>2. q \in [1..n -> E]
    BY <1>5, <2>1
  <2>3. r = Queue!RemoveAt(q, k)
    OBVIOUS
  <2> HIDE DEF r
  <2>4. r \in [1..(n - 1) -> E] /\ WithoutAt(r, q, k, n)
    BY <2>2, <2>3, RemovedAt
  <2> QED BY <2>1, <2>4, Zenon DEF WithoutAt
<1> HIDE DEF r
<1>8. ASSUME NEW i \in 1..(n - 1)
      PROVE  r[i] \in enqueued' /\ Left(pos, s)[r[i]] = i
  <2>1. r[i] \in enqueued /\ r[i] \in Sock
    BY <1>2, <1>7
  <2>2. pos[r[i]] = IF i < k THEN i ELSE i + 1
    BY <1>5, <1>7
  <2>3. r[i] # s
    BY <1>6, <2>2
  <2>4. Left(pos, s)[r[i]] = i
    BY <1>6, <2>1, <2>2 DEF Left
  <2> QED BY <1>2, <2>1, <2>3, <2>4
<1>9. r \in [1..(n - 1) -> enqueued']
  BY <1>7, <1>8
<1>10. Chain' = r
  BY <1>3, <1>8, <1>9, ChainNext
<1>11. (listening \cap enqueued)' = (listening \cap enqueued) \ {s}
  BY <1>2
<1> QED BY <1>4, <1>5, <1>6, <1>10, <1>11 DEF Queue!Leave, r

\* The walk of rechain_list_of_socks stops behind the leading listeners.
LEMMA StopsBehind ==
    ASSUME NEW n \in Nat, NEW pos, Placed(pos, n),
           NEW s \in enqueued, NEW at \in enqueued, StopsAt(s, at),
           NEW m \in 1..n, m = pos[at]
    PROVE  IF s \in listening THEN m = 1 ELSE Queue!LeadingListeners = m - 1
<1>1. CASE s \in listening
  BY <1>1 DEF StopsAt, Placed
<1>2. CASE s \notin listening
  <2>1. PICK run \in SUBSET (enqueued \cap listening) :
          /\ IF run = {} THEN at = svz_sock_root ELSE svz_sock_root \in run
          /\ \A r \in run : next[r] \in run \cup {at}
    BY <1>2 DEF StopsAt
  <2>2. at \notin listening
    BY <1>2 DEF StopsAt
  <2>3. PICK q : q = Chain
    OBVIOUS
  <2>4. /\ q \in [1..n -> enqueued] /\ Len(q) = n
        /\ \A i \in 1..n : pos[q[i]] = i
    BY <2>3, ChainAt
  <2>5. q[m] = at
    <3>1. q[m] \in enqueued /\ pos[q[m]] = m
      BY <2>4
    <3> QED BY <3>1 DEF Placed
  <2>6. \A i \in 1..(m - 1) : q[i] \in run
    <3> DEFINE I == {i \in 1..(m - 1) : q[i] \notin run}
    <3>1. SUFFICES ASSUME I # {} PROVE FALSE
      OBVIOUS
    <3>2. PICK i \in I : \A j \in I : i <= j
      <4>1. I \in SUBSET Nat
        OBVIOUS
      <4> HIDE DEF I
      <4> QED BY <3>1, <4>1, Least
    <3>3. i \in 1..(m - 1) /\ i \in 1..n /\ q[i] \notin run /\ q[i] \in enqueued
      BY <2>4, <3>2
    <3>4. CASE i = 1
      <4>1. svz_sock_root \in enqueued /\ pos[svz_sock_root] = 1
        BY <3>3 DEF Placed
      <4>2. q[i] = svz_sock_root
        BY <2>4, <3>3, <3>4, <4>1 DEF Placed
      <4>3. at = svz_sock_root
        BY <2>1, <3>3, <4>2
      <4> QED BY <3>3, <4>1, <4>3
    <3>5. CASE i # 1
      <4>1. i - 1 \in 1..(m - 1) /\ i - 1 \in 1..n /\ i - 1 # n
        BY <3>3, <3>5
      <4>2. q[i - 1] \in run
        BY <3>2, <4>1
      <4>3. q[i - 1] \in enqueued /\ pos[q[i - 1]] = i - 1
        BY <2>4, <4>1
      <4>4. next[q[i - 1]] \in enqueued /\ pos[next[q[i - 1]]] = i
        BY <4>1, <4>3 DEF Placed
      <4>5. next[q[i - 1]] = q[i]
        BY <2>4, <3>3, <4>4 DEF Placed
      <4>6. q[i] = at
        BY <2>1, <3>3, <4>2, <4>5
      <4>7. pos[q[i]] = i /\ i # m
        BY <2>4, <3>3
      <4> QED BY <4>6, <4>7
    <3> QED BY <3>4, <3>5
  <2> DEFINE L == listening \cap enqueued
             Leads(k) == /\ \A i \in 1..k : q[i] \in L
                         /\ k = n \/ q[k + 1] \notin L
  <2>7. Leads(m - 1)
    BY <2>2, <2>5, <2>6
  <2>8. ASSUME NEW k \in 0..n, Leads(k)
        PROVE  k = m - 1
    <3>1. ~(k < m - 1)
      <4> SUFFICES ASSUME k < m - 1 PROVE FALSE
        OBVIOUS
      <4>1. k + 1 \in 1..(m - 1) /\ k # n
        OBVIOUS
      <4>2. q[k + 1] \in L
        BY <2>7, <4>1
      <4> QED BY <2>8, <4>1, <4>2
    <3>2. ~(k > m - 1)
      <4> SUFFICES ASSUME k > m - 1 PROVE FALSE
        OBVIOUS
      <4>1. m \in 1..k
        OBVIOUS
      <4>2. q[m] \in L
        BY <2>8, <4>1
      <4> QED BY <2>2, <2>5, <4>2
    <3> QED BY <3>1, <3>2
  <2>9. Queue!LeadingListeners = CHOOSE k \in 0..n : Leads(k)
    BY <2>3, <2>4 DEF Queue!LeadingListeners
  <2>10. m - 1 \in 0..n
    OBVIOUS
  <2> HIDE DEF Leads
  <2>11. Queue!LeadingListeners = m - 1
    BY <2>7, <2>8, <2>9, <2>10
  <2> QED BY <1>2, <2>11
<1> QED BY <1>1, <1>2

\* rechain_list_of_socks moves the last socket forward as Rotate does.
LEMMA RotateStep ==
    ASSUME TypeOK, Chained, rechain_list_of_socks
    PROVE  Queue!Rotate
<1>1. PICK n \in Nat, pos \in [Sock -> Int] : Placed(pos, n)
  BY DEF Chained
<1>2. PICK s \in enqueued, at \in enqueued :
        /\ s = last_socket /\ at # s /\ StopsAt(s, at)
        /\ Placed(Moved(pos, s, at), n)'
  BY <1>1, RechainChain
<1>3. enqueued' = enqueued /\ listening' = listening /\ enqueued \subseteq Sock
  BY DEF rechain_list_of_socks, TypeOK
<1>4. PICK q : q = Chain
  OBVIOUS
<1>5. /\ q \in [1..n -> enqueued] /\ Len(q) = n
      /\ \A i \in 1..n : pos[q[i]] = i
  BY <1>1, <1>4, ChainAt
<1>6. PICK m \in 1..n : m = pos[at]
  BY <1>1 DEF Placed
<1>7. n \in 1..n /\ pos[s] = n /\ m # n
  BY <1>1, <1>2, <1>6 DEF Placed
<1>8. q[n] = s
  <2>1. q[n] \in enqueued /\ pos[q[n]] = n
    BY <1>5, <1>7
  <2> QED BY <1>1, <1>7, <2>1 DEF Placed
<1> DEFINE k == IF s \in listening \cap enqueued THEN 0
                ELSE Queue!LeadingListeners
           r == Queue!InsertAt(Queue!Front(q), k + 1, q[n])
<1>9. k = m - 1 /\ k \in 0..(n - 1)
  <2>1. IF s \in listening THEN m = 1 ELSE Queue!LeadingListeners = m - 1
    BY <1>1, <1>2, <1>6, StopsBehind
  <2>2. m = 1 => m - 1 = 0
    OBVIOUS
  <2>3. k = m - 1
    BY <2>1, <2>2
  <2>4. m - 1 \in 0..(n - 1)
    OBVIOUS
  <2> QED BY <2>3, <2>4, Zenon
<1>10. Queue!Rotated = r
  BY <1>4, <1>5, <1>8 DEF Queue!Rotated
<1> HIDE DEF k
<1>11. /\ r \in [1..n -> enqueued]
       /\ \A i \in 1..n : r[i] = IF i <= k THEN q[i]
                                 ELSE IF i = k + 1 THEN q[n] ELSE q[i - 1]
  <2>1. PICK E : E = enqueued
    OBVIOUS
  <2>2. q \in [1..n -> E]
    BY <1>5, <2>1
  <2>3. PICK j \in 0..(n - 1) : j = k
    BY <1>9
  <2> QED BY <2>1, <2>2, <2>3, RotatedAt
<1> HIDE DEF r
<1>12. ASSUME NEW i \in 1..n
       PROVE  Moved(pos, s, at)[r[i]] = i
  <2>1. CASE i = m
    <3>1. r[i] = s
      BY <1>8, <1>9, <1>11, <2>1
    <3> QED BY <1>3, <1>6, <2>1, <3>1 DEF Moved
  <2>2. CASE i < m
    <3>1. r[i] = q[i] /\ q[i] \in enqueued /\ pos[q[i]] = i
      BY <1>5, <1>9, <1>11, <2>2
    <3>2. q[i] # s /\ q[i] \in Sock
      BY <1>3, <1>7, <2>2, <3>1
    <3> QED BY <1>6, <2>2, <3>1, <3>2 DEF Moved
  <2>3. CASE i > m
    <3>1. i - 1 \in 1..n /\ i - 1 >= m /\ i - 1 # n
      BY <2>3
    <3>2. r[i] = q[i - 1] /\ q[i - 1] \in enqueued /\ pos[q[i - 1]] = i - 1
      BY <1>5, <1>9, <1>11, <2>3, <3>1
    <3>3. q[i - 1] # s /\ q[i - 1] \in Sock
      BY <1>3, <1>7, <3>1, <3>2
    <3> QED BY <1>6, <3>1, <3>2, <3>3 DEF Moved
  <2>4. i = m \/ i < m \/ i > m
    OBVIOUS
  <2> QED BY <2>1, <2>2, <2>3, <2>4
<1>13. Chain' = r
  <2>1. r \in [1..n -> enqueued']
    BY <1>3, <1>11
  <2> QED BY <1>2, <1>12, <2>1, ChainNext
<1>14. Len(Chain) > 1
  BY <1>4, <1>5, <1>6, <1>7
<1> QED BY <1>3, <1>10, <1>13, <1>14 DEF Queue!Rotate

\* Every step is a step of the queue or leaves the sequence alone.
LEMMA QueueStep ==
    ASSUME TypeOK, TableOK, IdReserved, Chained, [Next]_vars
    PROVE  [Queue!QNext]_(Queue!qvars)
<1>0. ASSUME UNCHANGED <<svz_sock_root, next, enqueued>>,
             (listening \cap enqueued)' = listening \cap enqueued
      PROVE  UNCHANGED Queue!qvars
  BY <1>0 DEF Queue!qvars, Chain
<1>1. ASSUME NEW s \in Sock, NEW l \in BOOLEAN, svz_sock_create(s, l)
      PROVE  UNCHANGED Queue!qvars
  <2>1. (listening \cap enqueued)' = listening \cap enqueued
    BY <1>1 DEF svz_sock_create, TypeOK
  <2> QED BY <1>0, <1>1, <2>1 DEF svz_sock_create, listVars
<1>2. ASSUME NEW p \in Sock, Accept(p)
      PROVE  Queue!QNext
  BY <1>2, JoinStep DEF Accept, Queue!QNext
<1>3. ASSUME Enqueue
      PROVE  Queue!QNext
  BY <1>3, JoinStep DEF Enqueue, Queue!QNext
<1>4. ASSUME Discard
      PROVE  UNCHANGED Queue!qvars
  <2>1. (listening \cap enqueued)' = listening \cap enqueued
    BY <1>4 DEF Discard, svz_sock_free, TypeOK
  <2> QED BY <1>0, <1>4, <2>1 DEF Discard, listVars
<1>5. ASSUME NEW s \in Sock, svz_sock_shutdown(s)
      PROVE  Queue!QNext
  BY <1>5, LeaveStep DEF Queue!QNext
<1>6. ASSUME NEW s \in Sock, NEW t \in Sock, SetReferrers(s, t)
      PROVE  UNCHANGED Queue!qvars
  BY <1>0, <1>6 DEF SetReferrers, listVars
<1>7. ASSUME NEW s \in Sock, ClearReferrers(s)
      PROVE  UNCHANGED Queue!qvars
  BY <1>0, <1>7 DEF ClearReferrers, listVars
<1>8. ASSUME rechain_list_of_socks
      PROVE  Queue!QNext
  BY <1>8, RotateStep DEF Queue!QNext
<1>9. CASE UNCHANGED vars
  BY <1>0, <1>9 DEF vars, listVars
<1> QED BY <1>1, <1>2, <1>3, <1>4, <1>5, <1>6, <1>7, <1>8, <1>9 DEF Next

\* The socket list implements the abstract queue, for any number of sockets:
\* a walk of svz_sock_foreach meets every enqueued socket once, the operations
\* change its order exactly as SockQueue says, and nothing else changes it.
THEOREM QueueCorrect == Spec => ImplementsQueue
<1>1. Init => Queue!QInit
  <2> SUFFICES ASSUME Init PROVE Queue!QInit
    OBVIOUS
  <2>1. Placed([s \in Sock |-> 0], 0)
    BY DEF Init, Placed
  <2>2. Chain \in [1..0 -> enqueued] /\ Len(Chain) = 0
    BY <2>1, ChainAt
  <2>3. Chain = <<>>
    BY <2>2
  <2> QED BY <2>3 DEF Init, Queue!QInit
<1>2. CoreInv /\ Chained /\ [Next]_vars => [Queue!QNext]_(Queue!qvars)
  BY QueueStep DEF CoreInv
<1> QED BY <1>1, <1>2, CoreCorrect, ChainCorrect, PTL
        DEF Spec, ImplementsQueue, Queue!QSpec
=============================================================================
