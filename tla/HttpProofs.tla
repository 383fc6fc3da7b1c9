----------------------------- MODULE HttpProofs -----------------------------
(***************************************************************************)
(* CacheOK, HitFresh and CgiOwned for any number of connections, files,    *)
(* cache entries and CGI programs, any sizes of the files and any limits,  *)
(* as long as clients wait for the response (if they do not, TLC finds     *)
(* CacheOK violated).  A connection has one of three roles toward the      *)
(* cache: it fills an entry, it reads one, or it has none (Role); which    *)
(* one follows from the callbacks that are installed (Phase).  An entry    *)
(* holds chunks that were written in the second of its date or later, and  *)
(* not after now, so that one whose date is the file's holds only what was *)
(* written in that second (Within).  All this lasts until an entry is      *)
(* torn, with which a behaviour ends.                                      *)
(***************************************************************************)
EXTENDS Http, FiniteSetTheorems, SequenceTheorems, TLAPS

-----------------------------------------------------------------------------
(* The inductive invariant *)

Flag == {"DONE", "KEEP", "CACHE", "SENDFILE", "CGI", "POST"}
Reader == {"tcp", "none", "file", "cache", "cgi"}
Writer == {"default", "cache", "sendfile", "cgi"}

Conn ==
    [flags : SUBSET Flag, reader : Reader, writer : Writer, disc : {"http", "cache", "cgi"},
     fill : BOOLEAN, entry : Entry \cup {NULL}, buf : Seq(Nat), file : File \cup {NULL},
     left : Nat, pid : Pid \cup {NULL}, post : Int, asked : 1..Len(Size), keepalive : Nat]

CacheEntry ==
    [file : File \cup {NULL}, ready : BOOLEAN, usage : Nat, date : Nat, size : Nat,
     buf : Seq(Nat)]

Distinct(q) == \A i, j \in 1..Len(q) : q[i] = q[j] => i = j

Types ==
    /\ enq \subseteq Sock /\ killed \subseteq enq /\ IsFiniteSet(enq)
    /\ conn \in [Sock -> Conn] /\ ent \in [Entry -> CacheEntry]
    /\ version \in [File -> 1..Len(Size)]
    /\ order \in Seq(Entry) /\ Distinct(order) /\ Len(order) <= http_cache_entries

\* The connection c reads from an entry, or fills it.
Reads(c) == "CACHE" \in c.flags
Fills(c) == c.entry # NULL /\ "CACHE" \notin c.flags

\* What the callbacks of a connection c say about it; dead if it is killed.
Phase(c, dead) ==
    /\ c.reader = "cache" =>
         /\ Fills(c) /\ "SENDFILE" \notin c.flags /\ "DONE" \notin c.flags
         /\ c.left > 0 /\ c.writer = "default" /\ ~dead
    /\ c.reader = "file" => c.left > 0
    /\ Fills(c) => c.disc = "cache" /\ (dead \/ c.reader = "cache")
    /\ c.pid # NULL =>
         /\ c.disc = "cgi"
         /\ dead \/ (("CGI" \in c.flags \/ "POST" \in c.flags) /\ "KEEP" \notin c.flags)

\* The disconnect function of c takes care of what it holds.
Held(c) == (Fills(c) => c.disc = "cache") /\ (c.pid # NULL => c.disc = "cgi")

\* Every chunk of b was read from the file of the entry x, as it was in the second
\* of its date or later.
Within(b, x) == \A i \in 1..Len(b) : b[i] \in 1..version[x.file] /\ x.date <= Second[b[i]]

\* The chunks of b are as many as those of the version v and of its second.
OfSecond(b, v) == Len(b) = Size[v] /\ \A i \in 1..Len(b) : Second[b[i]] = Second[v]

Suffix(b, c) == \E n \in 0..Len(c) : b = SubSeq(c, n + 1, Len(c))

\* What a connection c may take for granted about the entry it uses.
Role(c) ==
    /\ Fills(c) => /\ c.entry \in Range(order) /\ ~ent[c.entry].ready
                   /\ Within(c.buf, ent[c.entry])
                   /\ c.reader = "cache" => c.file = ent[c.entry].file
    /\ Reads(c) => /\ c.entry \in Range(order) /\ ent[c.entry].ready
                   /\ OfSecond(ent[c.entry].buf, c.asked)
                   /\ Suffix(c.buf, ent[c.entry].buf)

EntryOK(e) ==
    /\ ent[e].file \in File /\ ent[e].date <= Second[version[ent[e].file]]
    /\ Within(ent[e].buf, ent[e]) /\ (ent[e].ready => ent[e].size = Len(ent[e].buf))
    /\ ent[e].usage = Cardinality(Readers(e))

Entries ==
    /\ \A e \in Range(order) : EntryOK(e)
    /\ \A e, d \in Range(order) : ent[e].file = ent[d].file => e = d

Conns ==
    /\ \A s \in enq : Phase(conn[s], s \in killed) /\ Role(conn[s])
    /\ \A s, t \in enq :
         Fills(conn[s]) /\ Fills(conn[t]) /\ conn[s].entry = conn[t].entry => s = t

Programs == proc \in [Pid -> {"none", "run", "dead"}] /\ CgiOwned

IInv == Types /\ Entries /\ Conns /\ Programs

-----------------------------------------------------------------------------
(* Sequences without repetition *)

LEMMA RangeIs ==
  ASSUME NEW S, NEW q \in Seq(S)
  PROVE  /\ Range(q) = {q[i] : i \in 1..Len(q)} /\ Range(q) \subseteq S
         /\ q # <<>> <=> Len(q) > 0
         /\ Len(q) \in Nat /\ DOMAIN q = 1..Len(q)
BY RangeEquality

LEMMA Joining ==
  ASSUME NEW S, NEW u \in Seq(S), NEW v \in Seq(S)
  PROVE  /\ u \o v \in Seq(S) /\ Len(u \o v) = Len(u) + Len(v)
         /\ Range(u \o v) = Range(u) \cup Range(v)
         /\ Distinct(u) /\ Distinct(v) /\ Range(u) \cap Range(v) = {} => Distinct(u \o v)
<1> DEFINE w == u \o v
<1>1. /\ w \in Seq(S) /\ Len(w) = Len(u) + Len(v) /\ Len(u) \in Nat /\ Len(v) \in Nat
      /\ \A i \in 1..Len(w) : w[i] = IF i <= Len(u) THEN u[i] ELSE v[i - Len(u)]
  BY ConcatProperties
<1>2. /\ Range(u) = {u[i] : i \in 1..Len(u)} /\ Range(v) = {v[i] : i \in 1..Len(v)}
      /\ Range(w) = Range(u) \cup Range(v)
  BY RangeIs, RangeConcatenation
<1> HIDE DEF w
<1>3. ASSUME Distinct(u), Distinct(v), Range(u) \cap Range(v) = {},
             NEW i \in 1..Len(w), NEW j \in 1..Len(w), w[i] = w[j]
      PROVE  i = j
  <2>1. CASE i <= Len(u) /\ j <= Len(u)
    <3>1. i \in 1..Len(u) /\ j \in 1..Len(u)
      BY <1>1, <2>1
    <3> QED
      BY <1>1, <1>3, <2>1, <3>1 DEF Distinct
  <2>2. CASE ~(i <= Len(u)) /\ ~(j <= Len(u))
    <3>1. i - Len(u) \in 1..Len(v) /\ j - Len(u) \in 1..Len(v)
      BY <1>1, <2>2
    <3>2. i - Len(u) = j - Len(u)
      BY <1>1, <1>3, <2>2, <3>1 DEF Distinct
    <3> QED
      BY <1>1, <3>2
  <2>3. CASE i <= Len(u) /\ ~(j <= Len(u))
    <3>1. i \in 1..Len(u) /\ j - Len(u) \in 1..Len(v)
      BY <1>1, <2>3
    <3>2. w[i] \in Range(u) /\ w[j] \in Range(v)
      BY <1>1, <1>2, <2>3, <3>1
    <3> QED
      BY <1>3, <3>2
  <2>4. CASE ~(i <= Len(u)) /\ j <= Len(u)
    <3>1. j \in 1..Len(u) /\ i - Len(u) \in 1..Len(v)
      BY <1>1, <2>4
    <3>2. w[j] \in Range(u) /\ w[i] \in Range(v)
      BY <1>1, <1>2, <2>4, <3>1
    <3> QED
      BY <1>3, <3>2
  <2> QED
    BY <2>1, <2>2, <2>3, <2>4
<1> QED
  BY <1>1, <1>2, <1>3 DEF w, Distinct

\* The part of a sequence from m to n.
LEMMA Part ==
  ASSUME NEW S, NEW q \in Seq(S), NEW m \in 1..(Len(q) + 1), NEW n \in (m - 1)..Len(q)
  PROVE  /\ SubSeq(q, m, n) \in Seq(S) /\ Len(SubSeq(q, m, n)) = n - m + 1
         /\ Range(SubSeq(q, m, n)) = {q[i] : i \in m..n}
         /\ Distinct(q) => Distinct(SubSeq(q, m, n))
<1> DEFINE r == SubSeq(q, m, n)
<1>1. Len(q) \in Nat /\ m \in Int /\ n \in Int /\ \A i \in m..n : i \in 1..Len(q) /\ q[i] \in S
  OBVIOUS
<1>2. /\ r \in Seq(S) /\ Len(r) = n - m + 1
      /\ \A i \in 1..Len(r) : r[i] = q[m + i - 1]
  BY <1>1, SubSeqProperties
<1>3. Range(r) = {r[i] : i \in 1..Len(r)}
  BY <1>2, RangeIs
<1> HIDE DEF r
<1>4. /\ \A i \in 1..Len(r) : m + i - 1 \in m..n
      /\ \A i \in m..n : i - m + 1 \in 1..Len(r) /\ m + (i - m + 1) - 1 = i
  BY <1>1, <1>2
<1>5. Range(r) = {q[i] : i \in m..n}
  <2>1. ASSUME NEW i \in m..n PROVE q[i] = r[i - m + 1]
    BY <1>2, <1>4
  <2>2. \A i \in 1..Len(r) : r[i] \in {q[j] : j \in m..n}
    BY <1>2, <1>4
  <2>3. \A i \in m..n : q[i] \in Range(r)
    BY <1>3, <1>4, <2>1
  <2> QED
    BY <1>3, <2>2, <2>3
<1>6. ASSUME Distinct(q), NEW i \in 1..Len(r), NEW j \in 1..Len(r), r[i] = r[j] PROVE i = j
  <2> DEFINE x == m + i - 1
             y == m + j - 1
  <2>1. x \in 1..Len(q) /\ y \in 1..Len(q) /\ q[x] = q[y]
    BY <1>1, <1>2, <1>4, <1>6
  <2> HIDE DEF x, y
  <2>2. x = y
    BY <1>6, <2>1 DEF Distinct
  <2> QED
    BY <2>2 DEF x, y
<1> QED
  BY <1>2, <1>5, <1>6 DEF r, Distinct

\* The sequence without its element i.
LEMMA Removing ==
  ASSUME NEW S, NEW q \in Seq(S), NEW i \in 1..Len(q), Distinct(q)
  PROVE  /\ RemoveAt(q, i) \in Seq(S) /\ Len(RemoveAt(q, i)) = Len(q) - 1
         /\ Distinct(RemoveAt(q, i)) /\ Range(RemoveAt(q, i)) = Range(q) \ {q[i]}
<1> DEFINE p == SubSeq(q, 1, i - 1)
           r == SubSeq(q, i + 1, Len(q))
<1>1. Len(q) \in Nat /\ i \in Int
  OBVIOUS
<1>2. /\ p \in Seq(S) /\ Len(p) = i - 1 /\ Range(p) = {q[j] : j \in 1..(i - 1)}
      /\ Distinct(p)
  <2>1. 1 \in 1..(Len(q) + 1) /\ i - 1 \in (1 - 1)..Len(q) /\ (i - 1) - 1 + 1 = i - 1
    BY <1>1
  <2> QED
    BY <2>1, Part
<1>3. /\ r \in Seq(S) /\ Len(r) = Len(q) - i /\ Range(r) = {q[j] : j \in (i + 1)..Len(q)}
      /\ Distinct(r)
  <2>1. /\ i + 1 \in 1..(Len(q) + 1) /\ Len(q) \in ((i + 1) - 1)..Len(q)
        /\ Len(q) - (i + 1) + 1 = Len(q) - i
    BY <1>1
  <2> DEFINE m == i + 1
             n == Len(q)
  <2>2. m \in 1..(Len(q) + 1) /\ n \in (m - 1)..Len(q)
    BY <2>1
  <2> HIDE DEF m, n
  <2>3. /\ SubSeq(q, m, n) \in Seq(S) /\ Len(SubSeq(q, m, n)) = n - m + 1
        /\ Range(SubSeq(q, m, n)) = {q[j] : j \in m..n}
        /\ Distinct(q) => Distinct(SubSeq(q, m, n))
    BY <2>2, Part
  <2> QED
    BY <2>1, <2>3 DEF m, n
<1>4. RemoveAt(q, i) = p \o r
  BY DEF RemoveAt
<1> HIDE DEF p, r
<1>5. Range(q) = {q[j] : j \in 1..Len(q)}
  BY RangeIs
<1>6. \A j \in 1..Len(q) : j = i \/ j \in 1..(i - 1) \/ j \in (i + 1)..Len(q)
  BY <1>1
<1>7. /\ \A j \in 1..(i - 1) : j \in 1..Len(q) /\ j # i /\ j \notin (i + 1)..Len(q)
      /\ \A j \in (i + 1)..Len(q) : j \in 1..Len(q) /\ j # i
  BY <1>1
<1>8. Range(p) \cup Range(r) = Range(q) \ {q[i]}
  <2>1. Range(p) \cup Range(r) \subseteq Range(q) \ {q[i]}
    BY <1>2, <1>3, <1>5, <1>7 DEF Distinct
  <2>2. Range(q) \ {q[i]} \subseteq Range(p) \cup Range(r)
    BY <1>2, <1>3, <1>5, <1>6
  <2> QED
    BY <2>1, <2>2
<1>9. Range(p) \cap Range(r) = {}
  <2>1. ASSUME NEW a \in 1..(i - 1), NEW b \in (i + 1)..Len(q) PROVE q[a] # q[b]
    BY <1>7 DEF Distinct
  <2> QED
    BY <1>2, <1>3, <2>1
<1>10. p \in Seq(S) /\ r \in Seq(S) /\ Distinct(p) /\ Distinct(r)
  BY <1>2, <1>3
<1>11. /\ p \o r \in Seq(S) /\ Len(p \o r) = Len(p) + Len(r)
       /\ Range(p \o r) = Range(p) \cup Range(r)
       /\ Distinct(p) /\ Distinct(r) /\ Range(p) \cap Range(r) = {} => Distinct(p \o r)
  BY <1>10, Joining, Zenon
<1>12. /\ p \o r \in Seq(S) /\ Len(p \o r) = Len(p) + Len(r)
       /\ Range(p \o r) = Range(p) \cup Range(r)
  BY <1>11
<1>13. Distinct(p \o r)
  BY <1>9, <1>10, <1>11
<1>14. Len(p) + Len(r) = Len(q) - 1
  BY <1>1, <1>2, <1>3
<1> QED
  BY <1>4, <1>8, <1>12, <1>14, <1>13

\* The list without the entry e.
LEMMA Removed ==
  ASSUME NEW S, NEW o \in Seq(S), Distinct(o), NEW e
  PROVE  /\ RemoveFirst(o, e) \in Seq(S) /\ Distinct(RemoveFirst(o, e))
         /\ Range(RemoveFirst(o, e)) = Range(o) \ {e}
         /\ Len(RemoveFirst(o, e)) = IF e \in Range(o) THEN Len(o) - 1 ELSE Len(o)
<1>1. Range(o) = {o[i] : i \in 1..Len(o)} /\ Len(o) \in Nat
  BY RangeIs
<1>2. CASE e \notin Range(o)
  <2>1. RemoveFirst(o, e) = o
    BY <1>1, <1>2 DEF RemoveFirst
  <2> QED
    BY <1>2, <2>1
<1>3. CASE e \in Range(o)
  <2>1. PICK i \in 1..Len(o) : o[i] = e
    BY <1>1, <1>3
  <2>2. {j \in 1..Len(o) : o[j] = e} = {i}
    BY <2>1 DEF Distinct
  <2>3. SelectInSeq(o, LAMBDA v : v = e) = Min({i})
    BY <2>2 DEF SelectInSeq
  <2>4. Min({i}) = i
    BY DEF Min
  <2>5. RemoveFirst(o, e) = RemoveAt(o, i)
    BY <2>1, <2>3, <2>4 DEF RemoveFirst
  <2>6. /\ RemoveAt(o, i) \in Seq(S) /\ Len(RemoveAt(o, i)) = Len(o) - 1
        /\ Distinct(RemoveAt(o, i)) /\ Range(RemoveAt(o, i)) = Range(o) \ {o[i]}
    BY <2>1, Removing
  <2> QED
    BY <1>3, <2>1, <2>5, <2>6
<1> QED
  BY <1>2, <1>3

\* The list with the entry e put before it.
LEMMA Fronted ==
  ASSUME NEW S, NEW o \in Seq(S), Distinct(o), NEW e \in S, e \notin Range(o)
  PROVE  /\ <<e>> \o o \in Seq(S) /\ Distinct(<<e>> \o o)
         /\ Range(<<e>> \o o) = Range(o) \cup {e} /\ Len(<<e>> \o o) = Len(o) + 1
<1> DEFINE u == <<e>>
<1>1. u \in Seq(S) /\ Len(u) = 1 /\ u[1] = e
  OBVIOUS
<1> HIDE DEF u
<1>2. Range(u) = {u[i] : i \in 1..Len(u)} /\ Len(o) \in Nat
  BY <1>1, RangeIs
<1>3. Range(u) = {e}
  BY <1>1, <1>2
<1>4. Distinct(u)
  BY <1>1 DEF Distinct
<1>5. u \o o \in Seq(S) /\ Len(u \o o) = 1 + Len(o)
  BY <1>1, ConcatProperties
<1>6. Range(u \o o) = Range(u) \cup Range(o)
  BY <1>1, RangeConcatenation
<1>7. Distinct(u \o o)
  BY <1>1, <1>3, <1>4, Joining
<1>8. 1 + Len(o) = Len(o) + 1
  BY <1>2
<1> QED
  BY <1>3, <1>5, <1>6, <1>7, <1>8 DEF u

\* http_urgent_cache only changes the order of the list.
LEMMA Urgent ==
  ASSUME NEW S, NEW o \in Seq(S), Distinct(o), NEW e \in Range(o)
  PROVE  /\ http_urgent_cache(e, o) \in Seq(S) /\ Distinct(http_urgent_cache(e, o))
         /\ Range(http_urgent_cache(e, o)) = Range(o) /\ Len(http_urgent_cache(e, o)) = Len(o)
<1> DEFINE r == RemoveFirst(o, e)
<1>1. /\ r \in Seq(S) /\ Distinct(r) /\ Range(r) = Range(o) \ {e} /\ Len(r) = Len(o) - 1
      /\ e \in S /\ Len(o) \in Nat
  BY Removed, RangeIs
<1> HIDE DEF r
<1>2. /\ <<e>> \o r \in Seq(S) /\ Distinct(<<e>> \o r)
      /\ Range(<<e>> \o r) = Range(r) \cup {e} /\ Len(<<e>> \o r) = Len(r) + 1
  BY <1>1, Fronted
<1>3. Len(o) - 1 + 1 = Len(o)
  BY <1>1
<1> QED
  BY <1>1, <1>2, <1>3 DEF http_urgent_cache, r

-----------------------------------------------------------------------------
(* Connections *)

LEMMA FreshConn ==
  /\ Fresh \in Conn /\ ~Fills(Fresh) /\ ~Reads(Fresh)
  /\ \A dead \in BOOLEAN : Phase(Fresh, dead)
  /\ Fresh.pid = NULL
<1>1. <<>> \in Seq(Nat)
  BY EmptySeq
<1>2. Fresh \in Conn
  BY <1>1, BoundAssumption, SizeAssumption DEF Fresh, Conn, Flag, Reader, Writer
<1>3. ~Fills(Fresh) /\ ~Reads(Fresh) /\ \A dead \in BOOLEAN : Phase(Fresh, dead)
  BY DEF Fresh, Fills, Reads, Phase
<1> QED
  BY <1>2, <1>3 DEF Fresh

\* What Kill makes of the connection c.
Killed(c) ==
    [Fresh EXCEPT !.flags = c.flags \cap {"CACHE"}, !.disc = c.disc,
                  !.entry = c.entry, !.buf = c.buf, !.pid = c.pid, !.asked = c.asked]

LEMMA KilledConn ==
  ASSUME NEW c \in Conn
  PROVE  /\ Killed(c) \in Conn
         /\ Killed(c).entry = c.entry /\ Killed(c).buf = c.buf /\ Killed(c).pid = c.pid
         /\ Killed(c).reader = "tcp" /\ Killed(c).disc = c.disc /\ Killed(c).asked = c.asked
         /\ (Fills(Killed(c)) <=> Fills(c)) /\ (Reads(Killed(c)) <=> Reads(c))
         /\ Held(c) => Phase(Killed(c), TRUE)
<1>1. Fresh \in Conn
  BY FreshConn
<1>2. Killed(c) \in Conn
  BY <1>1 DEF Killed, Conn, Flag
<1>3. /\ Killed(c).entry = c.entry /\ Killed(c).buf = c.buf /\ Killed(c).pid = c.pid
      /\ Killed(c).reader = "tcp" /\ Killed(c).disc = c.disc /\ Killed(c).asked = c.asked
      /\ Killed(c).flags = c.flags \cap {"CACHE"}
  BY <1>1 DEF Killed, Conn, Fresh
<1>4. (Fills(Killed(c)) <=> Fills(c)) /\ (Reads(Killed(c)) <=> Reads(c))
  BY <1>3 DEF Fills, Reads
<1>5. Held(c) => Phase(Killed(c), TRUE)
  BY <1>3, <1>4 DEF Phase, Held
<1> QED
  BY <1>2, <1>3, <1>4, <1>5

-----------------------------------------------------------------------------
(* What a step does to the connections and to the cache *)

\* The order of the list may change, but not which entries it has.
SameList ==
    /\ order' \in Seq(Entry) /\ Distinct(order') /\ Len(order') <= http_cache_entries
    /\ Range(order') = Range(order)

\* The connection s becomes c, in the list or not, killed or not.
Becomes(s, c) ==
    /\ conn' = [conn EXCEPT ![s] = c]
    /\ enq' \subseteq enq \cup {s} /\ killed' \subseteq enq'
    /\ \A t \in Sock \ {s} : (t \in enq' <=> t \in enq) /\ (t \in killed' <=> t \in killed)
    /\ s \in enq' => Phase(c, s \in killed')

LEMMA BecomesFacts ==
  ASSUME Types, NEW s \in Sock, NEW c \in Conn, Becomes(s, c)
  PROVE  /\ enq' \subseteq Sock /\ killed' \subseteq enq' /\ IsFiniteSet(enq')
         /\ conn' \in [Sock -> Conn] /\ conn'[s] = c
         /\ \A t \in Sock \ {s} : conn'[t] = conn[t]
<1>1. IsFiniteSet(enq \cup {s})
  BY FS_AddElement DEF Types
<1>2. IsFiniteSet(enq')
  BY <1>1, FS_Subset DEF Becomes
<1> QED
  BY <1>2 DEF Types, Becomes

\* The connection s keeps its role; nothing happens to the entries.
LEMMA Inner ==
  ASSUME Types, Entries, Conns, NEW s \in Sock, NEW c \in Conn, Becomes(s, c),
         s \in enq, s \in enq', SameList, UNCHANGED <<ent, version>>,
         Reads(c) <=> Reads(conn[s]), Fills(c) <=> Fills(conn[s]),
         Reads(c) \/ Fills(c) => c.entry = conn[s].entry, Role(c)
  PROVE  Types' /\ Entries' /\ Conns'
<1>1. /\ enq' \subseteq Sock /\ killed' \subseteq enq' /\ IsFiniteSet(enq')
      /\ conn' \in [Sock -> Conn] /\ conn'[s] = c
      /\ \A t \in Sock \ {s} : conn'[t] = conn[t]
  BY BecomesFacts
<1>2. Types'
  BY <1>1 DEF Types, SameList
<1>3. \A e : Readers(e)' = Readers(e)
  BY <1>1 DEF Readers, Reads, Types, Becomes
<1>4. Entries'
  BY <1>3 DEF Entries, EntryOK, Within, SameList
<1>5. \A t \in enq' : (Fills(conn'[t]) <=> Fills(conn[t])) /\ (Fills(conn'[t]) => conn'[t].entry = conn[t].entry)
                     /\ t \in enq
  BY <1>1 DEF Becomes, Types
<1>6. \A x : Role(x) => Role(x)'
  BY DEF Role, Within, Suffix, SameList, OfSecond
<1>7. ASSUME NEW t \in enq' PROVE Phase(conn'[t], t \in killed') /\ Role(conn[t])'
  <2>1. CASE t = s
    <3>1. Role(conn'[t])
      BY <1>1, <2>1
    <3> QED
      BY <1>1, <1>6, <2>1, <3>1 DEF Becomes, Role, Within, Suffix, SameList, OfSecond
  <2>2. CASE t # s
    <3>1. conn'[t] = conn[t] /\ t \in enq /\ Role(conn[t]) /\ Phase(conn[t], t \in killed)
      BY <1>1, <1>5, <2>2 DEF Conns
    <3>2. Phase(conn'[t], t \in killed')
      BY <1>1, <2>2, <3>1 DEF Becomes, Types, Phase
    <3> QED
      BY <3>1, <3>2 DEF Role, Within, Suffix, SameList, OfSecond
  <2> QED
    BY <2>1, <2>2
<1>8. \A t, u \in enq' :
         Fills(conn'[t]) /\ Fills(conn'[u]) /\ conn'[t].entry = conn'[u].entry => t = u
  BY <1>5 DEF Conns
<1> QED
  BY <1>2, <1>4, <1>7, <1>8 DEF Conns

\* No program starts or ends, and every connection keeps its own.
LEMMA ProgramsKept ==
  ASSUME Types, Programs, UNCHANGED proc, NEW s \in Sock, NEW c,
         conn' = [conn EXCEPT ![s] = c], c.pid = conn[s].pid, enq \subseteq enq'
  PROVE  Programs'
<1>1. \A t \in enq : conn'[t].pid = conn[t].pid
  BY DEF Types
<1> QED
  BY <1>1 DEF Programs, CgiOwned

\* The connection is closed in the middle of what it does; d is as the connection
\* was when that was decided.
LEMMA Closed ==
  ASSUME Types, Entries, Conns, NEW s \in enq, NEW d \in Conn,
         Kill(s, d), UNCHANGED <<enq, ent, version, order>>,
         Held(d), Role(d),
         Reads(d) <=> Reads(conn[s]), Fills(d) <=> Fills(conn[s]),
         Reads(d) \/ Fills(d) => d.entry = conn[s].entry
  PROVE  Types' /\ Entries' /\ Conns'
<1> DEFINE c == Killed(d)
<1>1. /\ c \in Conn /\ c.entry = d.entry /\ c.buf = d.buf /\ c.reader = "tcp"
      /\ c.asked = d.asked
      /\ (Fills(c) <=> Fills(d)) /\ (Reads(c) <=> Reads(d)) /\ Phase(c, TRUE)
  BY KilledConn
<1>2. s \in Sock /\ s \in enq'
  BY DEF Types
<1>3. conn' = [conn EXCEPT ![s] = c] /\ killed' = killed \cup {s}
  BY DEF Kill, Killed
<1> HIDE DEF c
<1>4. Becomes(s, c)
  BY <1>1, <1>3 DEF Becomes, Types
<1>5. Role(c)
  BY <1>1 DEF Role
<1>6. SameList
  BY DEF SameList, Types
<1> QED
  BY <1>1, <1>2, <1>4, <1>5, <1>6, Inner

\* A role goes on if nothing but the usage of the entry changes.
LEMMA RoleKept ==
  ASSUME NEW x, Role(x), UNCHANGED version,
         Reads(x) \/ Fills(x) =>
           /\ x.entry \in Range(order')
           /\ ent'[x.entry].file = ent[x.entry].file /\ ent'[x.entry].ready = ent[x.entry].ready
           /\ ent'[x.entry].date = ent[x.entry].date /\ ent'[x.entry].buf = ent[x.entry].buf
  PROVE  Role(x)'
BY DEF Role, Within, OfSecond

\* The connection s gives up its role; if it was a reader, it is not counted any more.
LEMMA Ended ==
  ASSUME Types, Entries, Conns, NEW s \in enq, NEW c \in Conn, Becomes(s, c),
         UNCHANGED <<version, order>>, ~Reads(c), ~Fills(c),
         ent' = IF Reads(conn[s]) THEN [ent EXCEPT ![conn[s].entry].usage = @ - 1] ELSE ent
  PROVE  Types' /\ Entries' /\ Conns'
<1> s \in Sock
  BY DEF Types
<1>1. /\ enq' \subseteq Sock /\ killed' \subseteq enq' /\ IsFiniteSet(enq')
      /\ conn' \in [Sock -> Conn] /\ conn'[s] = c
      /\ \A t \in Sock \ {s} : conn'[t] = conn[t]
  BY BecomesFacts
<1>2. \A t \in enq' : t # s => t \in enq /\ (t \in killed' <=> t \in killed)
  BY <1>1 DEF Becomes
<1>3. \A e : Readers(e)' = IF Reads(conn[s]) /\ conn[s].entry = e THEN Readers(e) \ {s} ELSE Readers(e)
  BY <1>1, <1>2 DEF Readers, Reads, Types, Becomes
<1>4. \A e : IsFiniteSet(Readers(e)) /\ Cardinality(Readers(e)) \in Nat
  <2> TAKE e
  <2>1. IsFiniteSet(enq) /\ Readers(e) \subseteq enq
    BY DEF Types, Readers
  <2> QED
    BY <2>1, FS_Subset, FS_CardinalityType
<1>5. Reads(conn[s]) => conn[s].entry \in Range(order) /\ conn[s].entry \in Entry
  BY RangeIs DEF Conns, Role, Types
<1>6. Reads(conn[s]) => /\ s \in Readers(conn[s].entry)
                        /\ ent[conn[s].entry].usage = Cardinality(Readers(conn[s].entry))
  BY <1>5 DEF Readers, Reads, Entries, EntryOK
<1>7. Reads(conn[s]) => /\ Cardinality(Readers(conn[s].entry) \ {s}) = ent[conn[s].entry].usage - 1
                        /\ ent[conn[s].entry].usage - 1 \in Nat
  <2> HAVE Reads(conn[s])
  <2>1. /\ IsFiniteSet(Readers(conn[s].entry) \ {s})
        /\ Cardinality(Readers(conn[s].entry) \ {s}) = Cardinality(Readers(conn[s].entry)) - 1
    BY <1>4, <1>6, FS_RemoveElement
  <2>2. Cardinality(Readers(conn[s].entry) \ {s}) \in Nat
    BY <2>1, FS_CardinalityType
  <2> QED
    BY <1>6, <2>1, <2>2
<1>8. \A e \in Entry : /\ ent'[e].file = ent[e].file /\ ent'[e].ready = ent[e].ready
                       /\ ent'[e].date = ent[e].date /\ ent'[e].buf = ent[e].buf
                       /\ ent'[e].size = ent[e].size
                       /\ ent'[e].usage = IF Reads(conn[s]) /\ conn[s].entry = e
                                          THEN ent[e].usage - 1 ELSE ent[e].usage
  BY <1>5 DEF Types, CacheEntry
<1>9. ent' \in [Entry -> CacheEntry]
  BY <1>5, <1>7 DEF Types, CacheEntry
<1>10. Types'
  BY <1>1, <1>9 DEF Types
<1>11. Range(order) \subseteq Entry
  BY RangeIs DEF Types
<1>12. ASSUME NEW e \in Range(order) PROVE EntryOK(e)'
  <2>1. e \in Entry /\ EntryOK(e)
    BY <1>11 DEF Entries
  <2>2. ent'[e].usage = Cardinality(Readers(e)')
    BY <1>3, <1>7, <1>8, <2>1 DEF EntryOK
  <2> QED
    BY <1>8, <2>1, <2>2 DEF EntryOK, Within
<1>13. Entries'
  BY <1>8, <1>11, <1>12 DEF Entries
<1>14. ASSUME NEW t \in enq' PROVE Phase(conn'[t], t \in killed') /\ Role(conn[t])'
  <2>1. CASE t = s
    BY <1>1, <2>1 DEF Becomes, Role
  <2>2. CASE t # s
    <3>1. conn'[t] = conn[t] /\ t \in enq /\ Role(conn[t]) /\ Phase(conn[t], t \in killed)
      BY <1>1, <1>2, <2>2 DEF Conns
    <3>2. Phase(conn'[t], t \in killed')
      BY <1>2, <2>2, <3>1 DEF Phase
    <3>3. PICK x : x = conn[t] /\ x = conn'[t]
      BY <3>1
    <3>4. Role(x)
      BY <3>1, <3>3
    <3>5. Reads(x) \/ Fills(x) =>
            /\ x.entry \in Range(order')
            /\ ent'[x.entry].file = ent[x.entry].file /\ ent'[x.entry].ready = ent[x.entry].ready
            /\ ent'[x.entry].date = ent[x.entry].date /\ ent'[x.entry].buf = ent[x.entry].buf
      BY <1>8, <1>11, <3>4 DEF Role
    <3>6. Role(x)'
      BY <3>4, <3>5, RoleKept
    <3> QED
      BY <3>2, <3>3, <3>6
  <2> QED
    BY <2>1, <2>2
<1>15. \A t, u \in enq' :
         Fills(conn'[t]) /\ Fills(conn'[u]) /\ conn'[t].entry = conn'[u].entry => t = u
  BY <1>1, <1>2 DEF Conns
<1> QED
  BY <1>10, <1>13, <1>14, <1>15 DEF Conns

\* x is an entry for the file f that is to be filled.
Blank(x, f) ==
    /\ x.file = f /\ x.date = Second[version[f]] /\ x.usage = 0
    /\ x.ready = FALSE /\ x.buf = <<>>

LEMMA SizeIs ==
  ASSUME Types, NEW f \in File
  PROVE  /\ version[f] \in 1..Len(Size) /\ version[f] \in Nat /\ Len(Size) \in Nat
         /\ Size[version[f]] \in Nat /\ Size[version[f]] > 0 /\ Second[version[f]] \in Nat
<1>1. version[f] \in 1..Len(Size) /\ Len(Size) \in Nat
  BY SizeAssumption DEF Types
<1>2. Size[version[f]] \in Nat \ {0}
  BY <1>1, SizeAssumption
<1>3. Second[version[f]] \in Nat
  BY <1>1, SecondAssumption
<1> QED
  BY <1>1, <1>2, <1>3

\* Later versions are of the same second or of a later one.
LEMMA LaterSecond ==
  ASSUME NEW v \in 1..Len(Size), NEW w \in 1..v
  PROVE  Second[w] \in Nat /\ Second[v] \in Nat /\ Second[w] <= Second[v]
<1>1. w \in 1..Len(Second) /\ v \in 1..Len(Second) /\ w <= v
  BY SizeAssumption, SecondAssumption
<1> QED
  BY <1>1, SecondAssumption

LEMMA BlankEntry ==
  ASSUME Types, NEW f \in File
  PROVE  /\ NoEntry \in CacheEntry
         /\ LET x == [NoEntry EXCEPT !.file = f, !.date = Second[version[f]]]
            IN  x \in CacheEntry /\ Blank(x, f)
         /\ \A y \in CacheEntry : y.file = f =>
              LET x == [y EXCEPT !.ready = FALSE, !.usage = 0, !.buf = <<>>,
                                 !.date = Second[version[f]]]
              IN  x \in CacheEntry /\ Blank(x, f)
<1> DEFINE t == Second[version[f]]
<1>1. <<>> \in Seq(Nat) /\ t \in Nat
  BY EmptySeq, SizeIs
<1>2. NoEntry \in CacheEntry
  BY <1>1 DEF NoEntry, CacheEntry
<1> HIDE DEF t
<1>3. [NoEntry EXCEPT !.file = f, !.date = t] \in CacheEntry
  BY <1>1, <1>2 DEF CacheEntry
<1>4. LET x == [NoEntry EXCEPT !.file = f, !.date = t]
      IN  /\ x.file = f /\ x.date = t /\ x.usage = 0 /\ x.ready = FALSE /\ x.buf = <<>>
  BY DEF NoEntry
<1>5. ASSUME NEW y \in CacheEntry, y.file = f
      PROVE  LET x == [y EXCEPT !.ready = FALSE, !.usage = 0, !.buf = <<>>, !.date = t]
             IN  /\ x \in CacheEntry /\ x.file = f /\ x.date = t /\ x.usage = 0
                 /\ x.ready = FALSE /\ x.buf = <<>>
  BY <1>1, <1>5 DEF CacheEntry
<1> QED
  BY <1>2, <1>3, <1>4, <1>5 DEF Blank, t

\* Nobody has a role with the entry e.
Unused(e) == \A t \in enq : Reads(conn[t]) \/ Fills(conn[t]) => conn[t].entry # e

\* The connection s starts to fill the entry e, which is new or made anew.
LEMMA Begun ==
  ASSUME Types, Entries, Conns, NEW s \in enq, NEW c \in Conn, Becomes(s, c), s \in enq',
         UNCHANGED version, NEW e \in Entry, NEW f \in File, Unused(e),
         ~Reads(conn[s]), ~Fills(conn[s]),
         NEW x \in CacheEntry, Blank(x, f), ent' = [ent EXCEPT ![e] = x],
         order' \in Seq(Entry), Distinct(order'), Len(order') <= http_cache_entries,
         e \in Range(order'),
         \A d \in Range(order') \ {e} : d \in Range(order) /\ ent[d].file # f,
         \A d \in Range(order) \ Range(order') : Unused(d),
         Fills(c), ~Reads(c), c.entry = e, c.buf = <<>>, c.file = f
  PROVE  Types' /\ Entries' /\ Conns'
<1> s \in Sock
  BY DEF Types
<1>1. /\ enq' \subseteq Sock /\ killed' \subseteq enq' /\ IsFiniteSet(enq')
      /\ conn' \in [Sock -> Conn] /\ conn'[s] = c
      /\ \A t \in Sock \ {s} : conn'[t] = conn[t]
  BY BecomesFacts
<1>2. \A t \in enq' : t # s => t \in enq /\ (t \in killed' <=> t \in killed)
  BY <1>1 DEF Becomes
<1>3. \A d : Readers(d)' = Readers(d)
  BY <1>1, <1>2 DEF Readers, Reads, Types, Becomes
<1>4. /\ x.file = f /\ x.date = Second[version[f]] /\ x.usage = 0 /\ ~x.ready /\ x.buf = <<>>
      /\ Second[version[f]] \in Nat
  BY SizeIs DEF Blank
<1>5. ent'[e] = x /\ \A d \in Entry \ {e} : ent'[d] = ent[d]
  BY DEF Types
<1>6. Types'
  BY <1>1, <1>4 DEF Types
<1>7. Range(order) \subseteq Entry /\ Range(order') \subseteq Entry
  BY RangeIs DEF Types
<1>8. Readers(e) = {}
  BY DEF Unused, Readers, Reads
<1>9. EntryOK(e)'
  <2>1. Cardinality(Readers(e)') = 0
    BY <1>3, <1>8, FS_EmptySet
  <2>2. Len(<<>>) = 0
    OBVIOUS
  <2>3. ent'[e].file \in File /\ ent'[e].date <= Second[version'[ent'[e].file]]
    BY <1>4, <1>5, <2>2
  <2>4. Within(ent[e].buf, ent[e])'
    BY <1>4, <1>5, <2>2 DEF Within
  <2> QED
    BY <1>4, <1>5, <2>1, <2>3, <2>4 DEF EntryOK
<1>10. ASSUME NEW d \in Range(order'), d # e PROVE EntryOK(d)' /\ ent'[d].file # f
  <2>1. d \in Entry /\ EntryOK(d) /\ ent'[d] = ent[d] /\ ent[d].file # f
    BY <1>5, <1>7, <1>10 DEF Entries
  <2> QED
    BY <1>3, <2>1 DEF EntryOK, Within
<1>11. Entries'
  <2>1. \A d, g \in Range(order') : ent'[d].file = ent'[g].file => d = g
    <3>1. ASSUME NEW d \in Range(order'), NEW g \in Range(order'), ent'[d].file = ent'[g].file
          PROVE  d = g
      <4>1. CASE d # e /\ g # e
        BY <1>5, <1>7, <3>1, <4>1 DEF Entries
      <4>2. CASE d = e \/ g = e
        BY <1>4, <1>5, <1>10, <3>1, <4>2
      <4> QED
        BY <4>1, <4>2
    <3> QED
      BY <3>1
  <2> QED
    BY <1>9, <1>10, <2>1 DEF Entries
<1>12. ASSUME NEW t \in enq' PROVE Phase(conn'[t], t \in killed') /\ Role(conn[t])'
  <2>1. CASE t = s
    <3>1. Phase(conn'[t], t \in killed')
      BY <1>1, <2>1 DEF Becomes
    <3>2. Len(<<>>) = 0
      OBVIOUS
    <3>3. Role(c)'
      BY <1>4, <1>5, <3>2 DEF Role, Within
    <3> QED
      BY <1>1, <2>1, <3>1, <3>3 DEF Role, Within, Suffix, OfSecond
  <2>2. CASE t # s
    <3>1. conn'[t] = conn[t] /\ t \in enq /\ Role(conn[t]) /\ Phase(conn[t], t \in killed)
      BY <1>1, <1>2, <2>2 DEF Conns
    <3>2. Phase(conn'[t], t \in killed')
      BY <1>2, <2>2, <3>1 DEF Phase
    <3>3. Reads(conn[t]) \/ Fills(conn[t]) =>
            /\ conn[t].entry \in Range(order') /\ conn[t].entry \in Entry
            /\ ent'[conn[t].entry] = ent[conn[t].entry]
      BY <1>5, <1>7, <3>1 DEF Unused, Role
    <3> QED
      BY <3>1, <3>2, <3>3 DEF Role, Within, Suffix, OfSecond
  <2> QED
    BY <2>1, <2>2
<1>13. \A t, u \in enq' :
         Fills(conn'[t]) /\ Fills(conn'[u]) /\ conn'[t].entry = conn'[u].entry => t = u
  BY <1>1, <1>2 DEF Conns, Unused
<1> QED
  BY <1>6, <1>11, <1>12, <1>13 DEF Conns

\* The connection s starts to read the entry e.
LEMMA Hit ==
  ASSUME Types, Entries, Conns, NEW s \in enq, NEW c \in Conn, Becomes(s, c), s \in enq',
         UNCHANGED version, SameList, NEW e \in Range(order), ~Reads(conn[s]), ~Fills(conn[s]),
         ent[e].ready, OfSecond(ent[e].buf, c.asked),
         ent' = [ent EXCEPT ![e].usage = @ + 1],
         Reads(c), ~Fills(c), c.entry = e, c.buf = ent[e].buf
  PROVE  Types' /\ Entries' /\ Conns'
<1> s \in Sock
  BY DEF Types
<1>1. /\ enq' \subseteq Sock /\ killed' \subseteq enq' /\ IsFiniteSet(enq')
      /\ conn' \in [Sock -> Conn] /\ conn'[s] = c
      /\ \A t \in Sock \ {s} : conn'[t] = conn[t]
  BY BecomesFacts
<1>2. \A t \in enq' : t # s => t \in enq /\ (t \in killed' <=> t \in killed)
  BY <1>1 DEF Becomes
<1>3. \A d : Readers(d)' = IF d = e THEN Readers(d) \cup {s} ELSE Readers(d)
  BY <1>1, <1>2 DEF Readers, Reads, Types, Becomes
<1>4. s \notin Readers(e) /\ IsFiniteSet(Readers(e))
  <2>1. IsFiniteSet(enq) /\ Readers(e) \subseteq enq
    BY DEF Types, Readers
  <2> QED
    BY <2>1, FS_Subset DEF Readers, Reads
<1>5. Range(order) \subseteq Entry /\ e \in Entry
  BY RangeIs DEF Types
<1>6. \A d \in Entry : /\ ent'[d].file = ent[d].file /\ ent'[d].ready = ent[d].ready
                       /\ ent'[d].date = ent[d].date /\ ent'[d].buf = ent[d].buf
                       /\ ent'[d].size = ent[d].size
                       /\ ent'[d].usage = IF d = e THEN ent[d].usage + 1 ELSE ent[d].usage
  BY <1>5 DEF Types, CacheEntry
<1>7. ent' \in [Entry -> CacheEntry]
  <2>1. ent \in [Entry -> CacheEntry] /\ ent[e].usage + 1 \in Nat
    BY <1>5 DEF Types, CacheEntry
  <2>2. [ent[e] EXCEPT !.usage = ent[e].usage + 1] \in CacheEntry
    BY <1>5, <2>1 DEF CacheEntry
  <2> QED
    BY <1>5, <2>1, <2>2
<1>8. Types'
  BY <1>1, <1>7 DEF Types, SameList
<1>9. Cardinality(Readers(e)') = Cardinality(Readers(e)) + 1
  BY <1>3, <1>4, FS_AddElement
<1>10. ASSUME NEW d \in Range(order) PROVE EntryOK(d)'
  <2>1. d \in Entry /\ EntryOK(d)
    BY <1>5 DEF Entries
  <2>2. ent'[d].usage = Cardinality(Readers(d)')
    BY <1>3, <1>6, <1>9, <2>1 DEF EntryOK
  <2> QED
    BY <1>6, <2>1, <2>2 DEF EntryOK, Within
<1>11. Entries'
  BY <1>5, <1>6, <1>10 DEF Entries, SameList
<1>12. Suffix(ent[e].buf, ent[e].buf)
  <2>1. ent[e].buf \in Seq(Nat)
    BY <1>5 DEF Types, CacheEntry
  <2>2. SubSeq(ent[e].buf, 1, Len(ent[e].buf)) = ent[e].buf /\ 0 \in 0..Len(ent[e].buf) /\ 0 + 1 = 1
    BY <2>1, SubSeqFull
  <2> QED
    BY <2>2 DEF Suffix
<1>13. ASSUME NEW t \in enq' PROVE Phase(conn'[t], t \in killed') /\ Role(conn[t])'
  <2>1. CASE t = s
    <3>1. Phase(conn'[t], t \in killed')
      BY <1>1, <2>1 DEF Becomes
    <3>2. Role(c)'
      BY <1>5, <1>6, <1>12 DEF Role, SameList, OfSecond
    <3> QED
      BY <1>1, <2>1, <3>1, <3>2
  <2>2. CASE t # s
    <3>1. conn'[t] = conn[t] /\ t \in enq /\ Role(conn[t]) /\ Phase(conn[t], t \in killed)
      BY <1>1, <1>2, <2>2 DEF Conns
    <3>2. Phase(conn'[t], t \in killed')
      BY <1>2, <2>2, <3>1 DEF Phase
    <3>3. PICK x : x = conn[t] /\ x = conn'[t]
      BY <3>1
    <3>4. Role(x)
      BY <3>1, <3>3
    <3>5. Reads(x) \/ Fills(x) =>
            /\ x.entry \in Range(order')
            /\ ent'[x.entry].file = ent[x.entry].file /\ ent'[x.entry].ready = ent[x.entry].ready
            /\ ent'[x.entry].date = ent[x.entry].date /\ ent'[x.entry].buf = ent[x.entry].buf
      BY <1>5, <1>6, <3>4 DEF Role, SameList
    <3>6. Role(x)'
      BY <3>4, <3>5, RoleKept
    <3> QED
      BY <3>2, <3>3, <3>6
  <2> QED
    BY <2>1, <2>2
<1>14. \A t, u \in enq' :
         Fills(conn'[t]) /\ Fills(conn'[u]) /\ conn'[t].entry = conn'[u].entry => t = u
  BY <1>1, <1>2 DEF Conns
<1> QED
  BY <1>8, <1>11, <1>13, <1>14 DEF Conns

LEMMA Updated ==
  ASSUME NEW S, NEW T, NEW g \in [S -> T], NEW a \in S, NEW y \in T
  PROVE  /\ [g EXCEPT ![a] = y] \in [S -> T] /\ [g EXCEPT ![a] = y][a] = y
         /\ \A d \in S \ {a} : [g EXCEPT ![a] = y][d] = g[d]
OBVIOUS

\* The connection s fills e, and makes it ready with what it has read.
LEMMA Finished ==
  ASSUME Types, Entries, Conns, NEW s \in enq, NEW c \in Conn, Becomes(s, c),
         UNCHANGED <<version, order>>, NEW e \in Entry, Fills(conn[s]), conn[s].entry = e,
         NEW b \in Seq(Nat), Within(b, ent[e]),
         ent' = [ent EXCEPT ![e].ready = TRUE, ![e].buf = b, ![e].size = Len(b)],
         ~Reads(c), ~Fills(c)
  PROVE  Types' /\ Entries' /\ Conns'
<1> s \in Sock
  BY DEF Types
<1>1. /\ enq' \subseteq Sock /\ killed' \subseteq enq' /\ IsFiniteSet(enq')
      /\ conn' \in [Sock -> Conn] /\ conn'[s] = c
      /\ \A t \in Sock \ {s} : conn'[t] = conn[t]
  BY BecomesFacts
<1>2. \A t \in enq' : t # s => t \in enq /\ (t \in killed' <=> t \in killed)
  BY <1>1 DEF Becomes
<1>3. ~Reads(conn[s])
  BY DEF Fills, Reads
<1>4. \A d : Readers(d)' = Readers(d)
  BY <1>1, <1>2, <1>3 DEF Readers, Reads, Types, Becomes
<1>5. Range(order) \subseteq Entry
  BY RangeIs DEF Types
<1>6. /\ ent'[e].file = ent[e].file /\ ent'[e].date = ent[e].date /\ ent'[e].buf = b
      /\ ent'[e].size = Len(b)
      /\ ent'[e].usage = ent[e].usage /\ ent' \in [Entry -> CacheEntry]
      /\ \A d \in Entry \ {e} : ent'[d] = ent[d]
  <2> DEFINE l == Len(b)
             y == [ent[e] EXCEPT !.ready = TRUE, !.buf = b, !.size = l]
  <2>1. l \in Nat /\ ent[e] \in CacheEntry /\ ent \in [Entry -> CacheEntry]
    BY DEF Types
  <2>2. ent' = [ent EXCEPT ![e] = y]
    BY <2>1
  <2> HIDE DEF l
  <2>3. /\ y \in CacheEntry /\ y.file = ent[e].file /\ y.date = ent[e].date /\ y.buf = b
        /\ y.size = l /\ y.usage = ent[e].usage
    BY <2>1 DEF CacheEntry
  <2> HIDE DEF y
  <2>4. ent'[e] = y /\ ent' \in [Entry -> CacheEntry] /\ \A d \in Entry \ {e} : ent'[d] = ent[d]
    <3> DEFINE g == [ent EXCEPT ![e] = y]
    <3>1. g[e] = y /\ g \in [Entry -> CacheEntry] /\ \A d \in Entry \ {e} : g[d] = ent[d]
      BY <2>1, <2>3, Updated
    <3>2. ent' = g
      BY <2>2
    <3> HIDE DEF g
    <3> QED
      BY ONLY <3>1, <3>2
  <2>5. l = Len(b)
    BY DEF l
  <2> QED
    BY <2>3, <2>4, <2>5
<1>7. Types'
  BY <1>1, <1>6 DEF Types
<1>8. ASSUME NEW d \in Range(order) PROVE EntryOK(d)' /\ ent'[d].file = ent[d].file
  <2>1. d \in Entry /\ EntryOK(d)
    BY <1>5 DEF Entries
  <2>2. CASE d = e
    <3>1. Within(b, ent[e])'
      BY <1>6 DEF Within
    <3> QED
      BY <1>4, <1>6, <2>1, <2>2, <3>1 DEF EntryOK, Within
  <2>3. CASE d # e
    <3>1. ent'[d] = ent[d]
      BY <1>6, <2>1, <2>3
    <3> QED
      BY <1>4, <2>1, <3>1 DEF EntryOK, Within
  <2> QED
    BY <2>2, <2>3
<1>9. Entries'
  BY <1>8 DEF Entries
<1>10. ASSUME NEW t \in enq' PROVE Phase(conn'[t], t \in killed') /\ Role(conn[t])'
  <2>1. CASE t = s
    <3>1. Role(c)'
      BY DEF Role
    <3> QED
      BY <1>1, <2>1, <3>1 DEF Becomes
  <2>2. CASE t # s
    <3>1. conn'[t] = conn[t] /\ t \in enq /\ Role(conn[t]) /\ Phase(conn[t], t \in killed)
      BY <1>1, <1>2, <2>2 DEF Conns
    <3>2. Phase(conn'[t], t \in killed')
      BY <1>2, <2>2, <3>1 DEF Phase
    <3>3. PICK x : x = conn[t] /\ x = conn'[t]
      BY <3>1
    <3>4. Role(x)
      BY <3>1, <3>3
    <3>7. Reads(x) \/ Fills(x) => x.entry # e
      <4>1. ~ent[e].ready
        BY DEF Conns, Role
      <4>2. Fills(x) => x.entry # e
        BY <2>2, <3>1, <3>3 DEF Conns
      <4>3. Reads(x) => x.entry # e
        BY <3>4, <4>1 DEF Role
      <4> QED
        BY <4>2, <4>3
    <3>5. Reads(x) \/ Fills(x) =>
            /\ x.entry \in Range(order')
            /\ ent'[x.entry].file = ent[x.entry].file /\ ent'[x.entry].ready = ent[x.entry].ready
            /\ ent'[x.entry].date = ent[x.entry].date /\ ent'[x.entry].buf = ent[x.entry].buf
      BY <1>5, <1>6, <3>4, <3>7 DEF Role
    <3>6. Role(x)'
      BY <3>4, <3>5, RoleKept
    <3> QED
      BY <3>2, <3>3, <3>6
  <2> QED
    BY <2>1, <2>2
<1>11. \A t, u \in enq' :
         Fills(conn'[t]) /\ Fills(conn'[u]) /\ conn'[t].entry = conn'[u].entry => t = u
  BY <1>1, <1>2 DEF Conns
<1> QED
  BY <1>7, <1>9, <1>10, <1>11 DEF Conns

\* The connection s, which fills e, goes away, and the entry with it.
LEMMA Dropped ==
  ASSUME Types, Entries, Conns, NEW s \in enq, NEW c \in Conn, Becomes(s, c),
         UNCHANGED version, NEW e \in Entry, Fills(conn[s]), conn[s].entry = e,
         order' = Destroyed(e, order), ent' = [ent EXCEPT ![e] = NoEntry],
         ~Reads(c), ~Fills(c)
  PROVE  Types' /\ Entries' /\ Conns'
<1> s \in Sock
  BY DEF Types
<1>1. /\ enq' \subseteq Sock /\ killed' \subseteq enq' /\ IsFiniteSet(enq')
      /\ conn' \in [Sock -> Conn] /\ conn'[s] = c
      /\ \A t \in Sock \ {s} : conn'[t] = conn[t]
  BY BecomesFacts
<1>2. \A t \in enq' : t # s => t \in enq /\ (t \in killed' <=> t \in killed)
  BY <1>1 DEF Becomes
<1>3. ~Reads(conn[s])
  BY DEF Fills, Reads
<1>4. \A d : Readers(d)' = Readers(d)
  BY <1>1, <1>2, <1>3 DEF Readers, Reads, Types, Becomes
<1>5. Range(order) \subseteq Entry
  BY RangeIs DEF Types
<1>6. order \in Seq(Entry) /\ Distinct(order) /\ Len(order) \in Nat /\ Len(order) <= http_cache_entries
  BY DEF Types
<1>7. /\ order' \in Seq(Entry) /\ Distinct(order') /\ Range(order') = Range(order) \ {e}
      /\ Len(order') = IF e \in Range(order) THEN Len(order) - 1 ELSE Len(order)
  BY <1>6, Removed DEF Destroyed
<1>8. Len(order') <= http_cache_entries
  BY <1>6, <1>7, BoundAssumption
<1>9. NoEntry \in CacheEntry
  BY EmptySeq DEF NoEntry, CacheEntry
<1>10. \A d \in Entry \ {e} : ent'[d] = ent[d]
  BY DEF Types
<1>11. Types'
  BY <1>1, <1>7, <1>8, <1>9 DEF Types
<1>12. ASSUME NEW d \in Range(order') PROVE EntryOK(d)' /\ ent'[d] = ent[d]
  <2>1. d \in Entry /\ EntryOK(d) /\ ent'[d] = ent[d]
    BY <1>5, <1>7, <1>10 DEF Entries
  <2> QED
    BY <1>4, <2>1 DEF EntryOK, Within
<1>13. Entries'
  BY <1>7, <1>12 DEF Entries
<1>14. ASSUME NEW t \in enq' PROVE Phase(conn'[t], t \in killed') /\ Role(conn[t])'
  <2>1. CASE t = s
    <3>1. Role(c)'
      BY DEF Role
    <3> QED
      BY <1>1, <2>1, <3>1 DEF Becomes
  <2>2. CASE t # s
    <3>1. conn'[t] = conn[t] /\ t \in enq /\ Role(conn[t]) /\ Phase(conn[t], t \in killed)
      BY <1>1, <1>2, <2>2 DEF Conns
    <3>2. Phase(conn'[t], t \in killed')
      BY <1>2, <2>2, <3>1 DEF Phase
    <3>3. PICK x : x = conn[t] /\ x = conn'[t]
      BY <3>1
    <3>4. Role(x)
      BY <3>1, <3>3
    <3>7. Reads(x) \/ Fills(x) => x.entry # e
      <4>1. ~ent[e].ready
        BY DEF Conns, Role
      <4>2. Fills(x) => x.entry # e
        BY <2>2, <3>1, <3>3 DEF Conns
      <4>3. Reads(x) => x.entry # e
        BY <3>4, <4>1 DEF Role
      <4> QED
        BY <4>2, <4>3
    <3>5. Reads(x) \/ Fills(x) => x.entry \in Range(order') /\ ent'[x.entry] = ent[x.entry]
      BY <1>5, <1>7, <1>10, <3>4, <3>7 DEF Role
    <3>6. Role(x)'
      BY <3>4, <3>5, RoleKept
    <3> QED
      BY <3>2, <3>3, <3>6
  <2> QED
    BY <2>1, <2>2
<1>15. \A t, u \in enq' :
         Fills(conn'[t]) /\ Fills(conn'[u]) /\ conn'[t].entry = conn'[u].entry => t = u
  BY <1>1, <1>2 DEF Conns
<1> QED
  BY <1>11, <1>13, <1>14, <1>15 DEF Conns

-----------------------------------------------------------------------------
(* Callbacks *)

\* Becomes, for a connection that stays in the list.
LEMMA Stays ==
  ASSUME Types, NEW s \in enq, NEW c \in Conn, conn' = [conn EXCEPT ![s] = c],
         UNCHANGED <<enq, killed>>, Phase(c, s \in killed)
  PROVE  Becomes(s, c) /\ s \in enq' /\ s \in Sock
BY DEF Becomes, Types

LEMMA ListKept == ASSUME Types, UNCHANGED order PROVE SameList
BY DEF SameList, Types

LEMMA TheConn ==
  ASSUME IInv, NEW s \in enq
  PROVE  /\ s \in Sock /\ conn[s] \in Conn /\ Phase(conn[s], s \in killed) /\ Role(conn[s])
         /\ Types /\ Entries /\ Conns /\ Programs /\ conn \in [Sock -> Conn] /\ Held(conn[s])
BY DEF IInv, Types, Conns, Phase, Held

LEMMA LiveConn ==
  ASSUME IInv, NEW s \in enq, s \notin killed
  PROVE  /\ s \in Sock /\ conn[s] \in Conn /\ Phase(conn[s], FALSE) /\ Role(conn[s])
         /\ Types /\ Entries /\ Conns /\ Programs /\ Held(conn[s])
<1>1. Phase(conn[s], s \in killed)
  BY TheConn
<1>2. Phase(conn[s], FALSE)
  BY <1>1 DEF Phase
<1> QED
  BY <1>2, TheConn

\* A connection that the list keeps changes in a way that its role allows.
LEMMA Moves ==
  ASSUME IInv, NEW s \in enq, NEW c \in Conn, conn' = [conn EXCEPT ![s] = c],
         UNCHANGED <<enq, killed, version, cacheVars, proc>>,
         Phase(c, s \in killed), Role(c), c.pid = conn[s].pid,
         Reads(c) <=> Reads(conn[s]), Fills(c) <=> Fills(conn[s]),
         Reads(c) \/ Fills(c) => c.entry = conn[s].entry
  PROVE  IInv'
<1>1. Types /\ Entries /\ Conns /\ Programs /\ s \in Sock
  BY TheConn
<1>2. Becomes(s, c) /\ s \in enq'
  BY <1>1, Stays
<1>3. SameList /\ UNCHANGED <<ent, version>>
  BY <1>1, ListKept DEF cacheVars
<1>4. Types' /\ Entries' /\ Conns'
  BY <1>1, <1>2, <1>3, Inner
<1>5. Programs'
  BY <1>1, ProgramsKept
<1> QED
  BY <1>4, <1>5 DEF IInv

\* Kill, for what is left of the connection when it is decided.
LEMMA Kills ==
  ASSUME IInv, NEW s \in enq, NEW d \in Conn, Kill(s, d),
         UNCHANGED <<enq, version, cacheVars, proc>>,
         Held(d), Role(d), d.pid = conn[s].pid,
         Reads(d) <=> Reads(conn[s]), Fills(d) <=> Fills(conn[s]),
         Reads(d) \/ Fills(d) => d.entry = conn[s].entry
  PROVE  IInv'
<1>1. Types /\ Entries /\ Conns /\ Programs /\ s \in Sock
  BY TheConn
<1>2. Types' /\ Entries' /\ Conns'
  BY <1>1, Closed DEF cacheVars
<1>3. conn' = [conn EXCEPT ![s] = Killed(d)] /\ Killed(d).pid = conn[s].pid
  BY KilledConn DEF Kill, Killed
<1>4. Programs'
  BY <1>1, <1>3, ProgramsKept
<1> QED
  BY <1>2, <1>4 DEF IInv

LEMMA StepFail == ASSUME IInv, NEW s \in Sock, Fail(s) PROVE IInv'
<1>1. s \in enq /\ Kill(s, conn[s]) /\ UNCHANGED <<enq, version, cacheVars, proc>>
  BY DEF Fail
<1>2. conn[s] \in Conn /\ Held(conn[s]) /\ Role(conn[s])
  BY <1>1, TheConn
<1> QED
  BY <1>1, <1>2, Kills

\* http_keep_alive, when the response that d has sent is over.
LEMMA KeepAlive ==
  ASSUME IInv, NEW s \in enq, s \notin killed, NEW d \in Conn, http_keep_alive(s, d),
         UNCHANGED <<enq, version, order, torn, proc>>,
         d.flags = conn[s].flags, d.entry = conn[s].entry, d.pid = conn[s].pid,
         d.disc = conn[s].disc, Role(d), ~Fills(conn[s])
  PROVE  IInv'
<1>1. Types /\ Entries /\ Conns /\ Programs /\ s \in Sock
  BY TheConn
<1>5. Phase(conn[s], FALSE) /\ Held(conn[s])
  BY LiveConn
<1>2. (Reads(d) <=> Reads(conn[s])) /\ (Fills(d) <=> Fills(conn[s])) /\ Held(d)
  BY <1>5 DEF Reads, Fills, Held
<1>3. CASE "KEEP" \notin d.flags
  BY <1>2, <1>3, Kills DEF http_keep_alive, cacheVars
<1>4. CASE "KEEP" \in d.flags
  <2> DEFINE c == [Fresh EXCEPT !.disc = d.disc, !.pid = d.pid, !.keepalive = d.keepalive]
  <2>1. /\ conn' = [conn EXCEPT ![s] = c] /\ UNCHANGED killed
        /\ ent' = IF Reads(conn[s]) THEN [ent EXCEPT ![conn[s].entry].usage = @ - 1] ELSE ent
    BY <1>2, <1>4 DEF http_keep_alive, Released, Reads
  <2>2. Fresh \in Conn
    BY FreshConn
  <2>3. /\ c \in Conn /\ c.flags = {} /\ c.reader = "tcp" /\ c.pid = d.pid /\ c.entry = NULL
    BY <2>2 DEF Conn, Fresh
  <2>4. d.pid = NULL
    BY <1>4, <1>5 DEF Phase
  <2>5. ~Reads(c) /\ ~Fills(c) /\ Phase(c, s \in killed)
    BY <2>3, <2>4 DEF Reads, Fills, Phase
  <2> HIDE DEF c
  <2>6. Becomes(s, c)
    BY <1>1, <2>1, <2>3, <2>5, Stays
  <2>7. Types' /\ Entries' /\ Conns'
    BY <1>1, <2>1, <2>3, <2>5, <2>6, Ended
  <2>8. Programs'
    BY <1>1, <2>1, <2>3, ProgramsKept
  <2> QED
    BY <2>7, <2>8 DEF IInv
<1> QED
  BY <1>3, <1>4

LEMMA Stephttp_default_write == ASSUME IInv, NEW s \in Sock, http_default_write(s) PROVE IInv'
<1> DEFINE c == conn[s]
           d == [c EXCEPT !.fill = FALSE]
           n == NextWriter(d)
<1>1. /\ s \in enq \ killed /\ c.writer = "default" /\ c.fill
      /\ IF "DONE" \in c.flags THEN http_keep_alive(s, d)
         ELSE conn' = [conn EXCEPT ![s] = n] /\ UNCHANGED <<killed, ent>>
      /\ UNCHANGED <<enq, version, order, torn, proc>>
  BY DEF http_default_write
<1>2. s \in enq /\ s \notin killed /\ c \in Conn /\ Phase(c, FALSE) /\ Role(c)
  BY <1>1, LiveConn
<1>3. /\ d \in Conn /\ d.flags = c.flags /\ d.entry = c.entry /\ d.pid = c.pid /\ d.buf = c.buf
      /\ d.reader = c.reader /\ d.disc = c.disc /\ d.left = c.left /\ d.writer = c.writer
      /\ d.file = c.file /\ d.asked = c.asked
  BY <1>2 DEF Conn
<1>4. (Reads(d) <=> Reads(c)) /\ (Fills(d) <=> Fills(c)) /\ Phase(d, FALSE) /\ Role(d)
  BY <1>2, <1>3 DEF Reads, Fills, Phase, Role
<1>5. CASE "DONE" \in c.flags
  <2>1. ~Fills(conn[s])
    BY <1>2, <1>5 DEF Phase
  <2>2. http_keep_alive(s, d) /\ d.flags = conn[s].flags /\ d.entry = conn[s].entry /\ d.pid = conn[s].pid
    BY <1>1, <1>3, <1>5
  <2> HIDE DEF d
  <2> QED
    BY <1>1, <1>2, <1>3, <1>4, <2>1, <2>2, KeepAlive
<1>6. CASE "DONE" \notin c.flags
  <2>1. /\ n \in Conn /\ n.flags = c.flags /\ n.entry = c.entry /\ n.pid = c.pid /\ n.buf = c.buf
        /\ n.reader = c.reader /\ n.disc = c.disc /\ n.left = c.left /\ n.file = c.file
        /\ n.asked = c.asked
        /\ ("CACHE" \notin c.flags /\ "SENDFILE" \notin c.flags) => n.writer = c.writer
    <3> HIDE DEF d
    <3> QED
      BY <1>3 DEF NextWriter, Conn, Writer
  <2>2. (Reads(n) <=> Reads(c)) /\ (Fills(n) <=> Fills(c))
    BY <2>1 DEF Reads, Fills
  <2>3. Phase(n, s \in killed)
    BY <1>2, <2>1, <2>2 DEF Phase, Fills
  <2>4. Role(n)
    BY <1>2, <2>1, <2>2 DEF Role
  <2> HIDE DEF n
  <2> QED
    BY <1>1, <1>2, <1>6, <2>1, <2>2, <2>3, <2>4, Moves DEF cacheVars
<1> QED
  BY <1>5, <1>6

\* What is left of a copy after n chunks more are sent.
LEMMA SuffixOfSuffix ==
  ASSUME NEW b \in Seq(Nat), NEW q \in Seq(Nat), Suffix(b, q), NEW n \in 1..Len(b)
  PROVE  SubSeq(b, n + 1, Len(b)) \in Seq(Nat) /\ Suffix(SubSeq(b, n + 1, Len(b)), q)
<1>1. PICK m \in 0..Len(q) : b = SubSeq(q, m + 1, Len(q))
  BY DEF Suffix
<1>2. Len(q) \in Nat /\ Len(b) \in Nat
  OBVIOUS
<1>3. Len(b) = Len(q) - m
  <2>1. \A i \in (m + 1)..Len(q) : q[i] \in Nat
    BY <1>1
  <2>2. Len(SubSeq(q, m + 1, Len(q))) = IF m + 1 <= Len(q) THEN Len(q) - (m + 1) + 1 ELSE 0
    BY <1>1, <1>2, <2>1, SubSeqProperties
  <2> QED
    BY <1>1, <1>2, <2>2
<1> DEFINE r == SubSeq(b, n + 1, Len(b))
           u == SubSeq(q, m + n + 1, Len(q))
<1>4. m + n \in 0..Len(q)
  BY <1>1, <1>2, <1>3
<1>5. r \in Seq(Nat) /\ Len(r) = Len(b) - n /\ \A i \in 1..Len(r) : r[i] = b[n + i]
  BY <1>2, SubSeqProperties
<1>6. u \in Seq(Nat) /\ Len(u) = Len(q) - (m + n) /\ \A i \in 1..Len(u) : u[i] = q[m + n + i]
  BY <1>2, <1>4, SubSeqProperties
<1>7. \A i \in 1..Len(b) : b[i] = q[m + i]
  BY <1>1, <1>2, <1>3, SubSeqProperties
<1> HIDE DEF r, u
<1>8. Len(r) = Len(u)
  BY <1>1, <1>2, <1>3, <1>5, <1>6
<1>9. \A i \in 1..Len(r) : n + i \in 1..Len(b) /\ m + (n + i) = m + n + i
  <2> DEFINE x == Len(b)
             y == Len(r)
  <2>1. x \in Nat /\ y = x - n /\ n \in 1..x /\ m \in Int
    BY <1>1, <1>2, <1>5
  <2> HIDE DEF x, y
  <2>2. \A i \in 1..y : n + i \in 1..x /\ m + (n + i) = m + n + i
    BY <2>1
  <2> QED
    BY <2>2 DEF x, y
<1>10. \A i \in 1..Len(r) : r[i] = u[i]
  BY <1>5, <1>6, <1>7, <1>8, <1>9
<1>11. r = u
  BY <1>5, <1>6, <1>8, <1>10, SeqEqual
<1> QED
  BY <1>4, <1>5, <1>11 DEF Suffix, r, u

LEMMA Stephttp_cache_write == ASSUME IInv, NEW s \in Sock, http_cache_write(s) PROVE IInv'
<1> DEFINE c == conn[s]
           D(n) == [c EXCEPT !.buf = SubSeq(@, n + 1, Len(@))]
<1>1. /\ s \in enq \ killed /\ c.writer = "cache"
      /\ \E n \in 1..Len(c.buf) :
           IF D(n).buf = <<>> THEN http_keep_alive(s, D(n))
           ELSE conn' = [conn EXCEPT ![s] = D(n)] /\ UNCHANGED <<killed, ent>>
      /\ UNCHANGED <<enq, version, order, torn, proc>>
  BY DEF http_cache_write
<1>2. s \in enq /\ s \notin killed /\ c \in Conn /\ Phase(c, FALSE) /\ Role(c) /\ Types
  BY <1>1, LiveConn
<1>3. PICK n \in 1..Len(c.buf) :
           IF D(n).buf = <<>> THEN http_keep_alive(s, D(n))
           ELSE conn' = [conn EXCEPT ![s] = D(n)] /\ UNCHANGED <<killed, ent>>
  BY <1>1
<1> DEFINE d == D(n)
           b == SubSeq(c.buf, n + 1, Len(c.buf))
<1>4. c.buf \in Seq(Nat) /\ b \in Seq(Nat)
  <2>1. c.buf \in Seq(Nat)
    BY <1>2 DEF Conn
  <2> DEFINE q == c.buf
  <2> HIDE DEF q
  <2>2. q \in Seq(Nat) /\ n \in 1..Len(q)
    BY <2>1 DEF q
  <2>3. SubSeq(q, n + 1, Len(q)) \in Seq(Nat)
    BY <2>2, SubSeqProperties
  <2> QED
    BY <2>1, <2>3 DEF q
<1>5. /\ d \in Conn /\ d.flags = c.flags /\ d.entry = c.entry /\ d.pid = c.pid /\ d.buf = b
      /\ d.reader = c.reader /\ d.disc = c.disc /\ d.left = c.left /\ d.writer = c.writer
      /\ d.file = c.file /\ d.asked = c.asked
  <2> HIDE DEF b
  <2>1. d = [c EXCEPT !.buf = b]
    BY DEF b
  <2> QED
    BY <1>2, <1>4, <2>1 DEF Conn
<1>6. ~Fills(conn[s])
  BY <1>1, <1>2 DEF Phase
<1>7. Reads(c) => Suffix(b, ent[c.entry].buf)
  <2> HAVE Reads(c)
  <2>1. Suffix(c.buf, ent[c.entry].buf) /\ c.entry \in Range(order)
    BY <1>2 DEF Role
  <2>2. ent[c.entry].buf \in Seq(Nat)
    BY <1>2, <2>1, RangeIs DEF Types, CacheEntry
  <2> DEFINE q == ent[c.entry].buf
             p == c.buf
  <2>3. p \in Seq(Nat) /\ q \in Seq(Nat) /\ Suffix(p, q) /\ n \in 1..Len(p)
    BY <1>4, <2>1, <2>2
  <2> HIDE DEF p, q
  <2>4. Suffix(SubSeq(p, n + 1, Len(p)), q)
    BY <2>3, SuffixOfSuffix
  <2> QED
    BY <2>4 DEF p, q
<1>8. IF d.buf = <<>> THEN http_keep_alive(s, d)
      ELSE conn' = [conn EXCEPT ![s] = d] /\ UNCHANGED <<killed, ent>>
  BY <1>3
<1> HIDE DEF d, b
<1>9. (Reads(d) <=> Reads(c)) /\ (Fills(d) <=> Fills(c)) /\ Phase(d, FALSE)
  BY <1>2, <1>5 DEF Reads, Fills, Phase
<1>10. Role(d)
  BY <1>2, <1>5, <1>6, <1>7, <1>9 DEF Role
<1>11. CASE d.buf = <<>>
  BY <1>1, <1>2, <1>5, <1>6, <1>8, <1>9, <1>10, <1>11, KeepAlive
<1>12. CASE d.buf # <<>>
  <2>1. Phase(d, s \in killed)
    BY <1>2, <1>9 DEF Phase
  <2> QED
    BY <1>1, <1>2, <1>5, <1>8, <1>9, <1>10, <1>12, <2>1, Moves DEF cacheVars
<1> QED
  BY <1>11, <1>12

LEMMA Stephttp_send_file == ASSUME IInv, NEW s \in Sock, http_send_file(s) PROVE IInv'
<1> DEFINE c == conn[s]
           d == [c EXCEPT !.left = @ - 1]
<1>1. /\ s \in enq \ killed /\ c.writer = "sendfile"
      /\ \/ c.left > 1 /\ conn' = [conn EXCEPT ![s] = d] /\ UNCHANGED <<killed, ent>>
         \/ c.left = 1 /\ http_keep_alive(s, d)
         \/ Kill(s, c) /\ UNCHANGED ent
      /\ UNCHANGED <<enq, version, order, torn, proc>>
  BY DEF http_send_file
<1>2. s \in enq /\ s \notin killed /\ c \in Conn /\ Phase(c, FALSE) /\ Role(c) /\ Held(c)
  BY <1>1, LiveConn
<1>3. CASE Kill(s, c) /\ UNCHANGED ent
  BY <1>1, <1>2, <1>3, Kills DEF cacheVars
<1>4. CASE c.left > 1 \/ c.left = 1
  <2>1. /\ d \in Conn /\ d.flags = c.flags /\ d.entry = c.entry /\ d.pid = c.pid /\ d.buf = c.buf
        /\ d.reader = c.reader /\ d.disc = c.disc /\ d.left = c.left - 1 /\ d.writer = c.writer
        /\ d.file = c.file /\ d.asked = c.asked
    <3> DEFINE k == c.left - 1
    <3>1. k \in Nat
      BY <1>2, <1>4 DEF Conn
    <3> HIDE DEF k, c
    <3>2. [c EXCEPT !.left = k] \in Conn
      BY <1>2, <3>1 DEF Conn
    <3>3. c.left - 1 = k /\ d = [c EXCEPT !.left = k]
      BY DEF k
    <3> QED
      BY <1>2, <3>2, <3>3 DEF Conn
  <2>2. c.reader # "cache" /\ ~Fills(conn[s])
    BY <1>1, <1>2 DEF Phase
  <2> HIDE DEF d
  <2>3. (Reads(d) <=> Reads(c)) /\ (Fills(d) <=> Fills(c)) /\ Role(d)
    BY <1>2, <2>1 DEF Reads, Fills, Role
  <2>4. CASE c.left > 1 /\ conn' = [conn EXCEPT ![s] = d] /\ UNCHANGED <<killed, ent>>
    <3>1. Phase(d, s \in killed)
      BY <1>2, <2>1, <2>2, <2>3, <2>4 DEF Phase, Conn
    <3> QED
      BY <1>1, <1>2, <2>1, <2>3, <2>4, <3>1, Moves DEF cacheVars
  <2>5. CASE c.left = 1 /\ http_keep_alive(s, d)
    BY <1>1, <1>2, <2>1, <2>2, <2>3, <2>5, KeepAlive
  <2> QED
    BY <1>1, <1>3, <1>4, <2>4, <2>5
<1> QED
  BY <1>1, <1>3, <1>4

LEMMA Stephttp_file_read == ASSUME IInv, NEW s \in Sock, http_file_read(s) PROVE IInv'
<1> DEFINE c == conn[s]
           d == [c EXCEPT !.fill = TRUE, !.left = @ - 1]
           n == ReadDone(d)
<1>1. /\ s \in enq \ killed /\ c.reader = "file"
      /\ (conn' = [conn EXCEPT ![s] = n] /\ UNCHANGED killed) \/ Kill(s, c)
      /\ UNCHANGED <<enq, version, cacheVars, proc>>
  BY DEF http_file_read
<1>2. s \in enq /\ s \notin killed /\ c \in Conn /\ Phase(c, FALSE) /\ Role(c) /\ Held(c)
  BY <1>1, LiveConn
<1>3. CASE Kill(s, c)
  BY <1>1, <1>2, <1>3, Kills
<1>4. CASE conn' = [conn EXCEPT ![s] = n] /\ UNCHANGED killed
  <2>1. c.left \in Nat /\ c.left > 0
    BY <1>1, <1>2 DEF Phase, Conn
  <2>2. /\ d \in Conn /\ d.flags = c.flags /\ d.entry = c.entry /\ d.pid = c.pid /\ d.buf = c.buf
        /\ d.reader = "file" /\ d.disc = c.disc /\ d.left = c.left - 1
        /\ d.asked = c.asked
    <3> HIDE DEF c
    <3>1. c.left - 1 \in Nat
      BY <2>1
    <3>2. d \in Conn
      BY <1>2, <3>1 DEF Conn
    <3> QED
      BY <1>1, <1>2, <3>2 DEF Conn
  <2> HIDE DEF d
  <2>3. /\ n \in Conn /\ n.entry = c.entry /\ n.pid = c.pid /\ n.buf = c.buf /\ n.disc = c.disc
        /\ n.asked = c.asked
        /\ n.flags = c.flags \/ n.flags = c.flags \cup {"DONE"}
        /\ n.reader # "cache" /\ (n.reader = "file" => n.left > 0)
    BY <2>2 DEF ReadDone, Conn, Flag, Reader
  <2> HIDE DEF n
  <2>4. (Reads(n) <=> Reads(c)) /\ (Fills(n) <=> Fills(c)) /\ ~Fills(c)
    BY <1>1, <1>2, <2>3 DEF Reads, Fills, Phase
  <2>5. Phase(n, s \in killed)
    BY <1>2, <2>3, <2>4 DEF Phase
  <2>6. Role(n)
    BY <1>2, <2>3, <2>4 DEF Role
  <2> QED
    BY <1>1, <1>2, <1>4, <2>3, <2>4, <2>5, <2>6, Moves
<1> QED
  BY <1>1, <1>3, <1>4

LEMMA Stephttp_cgi_read == ASSUME IInv, NEW s \in Sock, http_cgi_read(s) PROVE IInv'
<1> DEFINE c == conn[s]
           f == [c EXCEPT !.fill = TRUE]
           g == [c EXCEPT !.flags = @ \cup {"DONE"}]
<1>1. /\ s \in enq \ killed /\ c.reader = "cgi" /\ UNCHANGED <<enq, version, cacheVars, proc>>
      /\ \/ conn' = [conn EXCEPT ![s] = f] /\ UNCHANGED killed
         \/ conn' = [conn EXCEPT ![s] = g] /\ UNCHANGED killed
         \/ Kill(s, c)
  BY DEF http_cgi_read
<1>2. s \in enq /\ s \notin killed /\ c \in Conn /\ Phase(c, FALSE) /\ Role(c) /\ Held(c)
  BY <1>1, LiveConn
<1>3. CASE Kill(s, c)
  BY <1>1, <1>2, <1>3, Kills
<1>4. ASSUME NEW n, n = f \/ n = g, conn' = [conn EXCEPT ![s] = n], UNCHANGED killed
      PROVE  IInv'
  <2>1. /\ n \in Conn /\ n.entry = c.entry /\ n.pid = c.pid /\ n.buf = c.buf /\ n.disc = c.disc
        /\ n.asked = c.asked
        /\ n.flags = c.flags \/ n.flags = c.flags \cup {"DONE"}
        /\ n.reader = "cgi"
    <3> HIDE DEF c
    <3>1. CASE n = f
      BY <1>1, <1>2, <3>1 DEF Conn, f
    <3>2. CASE n = g
      <4>1. c.flags \cup {"DONE"} \in SUBSET Flag
        BY <1>2 DEF Conn, Flag
      <4> QED
        BY <1>1, <1>2, <3>2, <4>1 DEF Conn, g
    <3> QED
      BY <1>4, <3>1, <3>2
  <2>2. (Reads(n) <=> Reads(c)) /\ (Fills(n) <=> Fills(c))
    BY <2>1 DEF Reads, Fills
  <2>3. Phase(n, s \in killed)
    BY <1>1, <1>2, <2>1, <2>2 DEF Phase
  <2>4. Role(n)
    BY <1>2, <2>1, <2>2 DEF Role
  <2> QED
    BY <1>1, <1>2, <1>4, <2>1, <2>2, <2>3, <2>4, Moves
<1> HIDE DEF f, g
<1> QED
  BY <1>1, <1>3, <1>4

LEMMA Stephttp_cgi_write == ASSUME IInv, NEW s \in Sock, http_cgi_write(s) PROVE IInv'
<1> DEFINE c == conn[s]
           d == [c EXCEPT !.post = @ - 1]
           n == IF d.post > 0 THEN d
                ELSE [d EXCEPT !.flags = (@ \ {"POST"}) \cup {"CGI"}, !.reader = "cgi",
                               !.writer = "default"]
<1>1. /\ s \in enq \ killed /\ c.writer = "cgi" /\ conn' = [conn EXCEPT ![s] = n]
      /\ UNCHANGED <<enq, killed, version, cacheVars, proc>>
  BY DEF http_cgi_write
<1>2. s \in enq /\ s \notin killed /\ c \in Conn /\ Phase(c, FALSE) /\ Role(c) /\ Held(c)
  BY <1>1, LiveConn
<1>3. /\ d \in Conn /\ d.flags = c.flags /\ d.entry = c.entry /\ d.pid = c.pid /\ d.buf = c.buf
      /\ d.reader = c.reader /\ d.disc = c.disc /\ d.left = c.left /\ d.writer = "cgi"
      /\ d.asked = c.asked
  <2> HIDE DEF c
  <2>1. c.post - 1 \in Int
    BY <1>2 DEF Conn
  <2> QED
    BY <1>1, <1>2, <2>1 DEF Conn
<1> HIDE DEF d
<1>4. /\ n \in Conn /\ n.entry = c.entry /\ n.pid = c.pid /\ n.buf = c.buf /\ n.disc = c.disc
      /\ n.flags = c.flags \/ n.flags = (c.flags \ {"POST"}) \cup {"CGI"}
      /\ n.reader = c.reader \/ n.reader = "cgi"
      /\ n.left = c.left /\ n.asked = c.asked
  BY <1>3 DEF Conn, Flag, Reader, Writer
<1> HIDE DEF n
<1>5. (Reads(n) <=> Reads(c)) /\ (Fills(n) <=> Fills(c)) /\ ~Fills(c) /\ c.reader # "cache"
  BY <1>1, <1>2, <1>4 DEF Reads, Fills, Phase
<1>6. Phase(n, s \in killed)
  BY <1>2, <1>4, <1>5 DEF Phase
<1>7. Role(n)
  BY <1>2, <1>4, <1>5 DEF Role
<1> QED
  BY <1>1, <1>2, <1>4, <1>5, <1>6, <1>7, Moves

LEMMA Stephttp_cgi_died == ASSUME IInv, NEW s \in Sock, http_cgi_died(s) PROVE IInv'
<1> DEFINE p == conn[s].pid
           c == conn[s]
           n == [c EXCEPT !.pid = NULL]
<1>1. /\ s \in enq /\ p # NULL /\ proc' = [proc EXCEPT ![p] = "none"]
      /\ conn' = [conn EXCEPT ![s] = n] /\ UNCHANGED <<enq, killed, version, cacheVars>>
  BY DEF http_cgi_died
<1>2. /\ s \in Sock /\ c \in Conn /\ Phase(c, s \in killed) /\ Role(c)
      /\ Types /\ Entries /\ Conns /\ Programs
  BY <1>1, TheConn
<1>3. /\ n \in Conn /\ n.entry = c.entry /\ n.pid = NULL /\ n.buf = c.buf /\ n.disc = c.disc
      /\ n.flags = c.flags /\ n.reader = c.reader /\ n.left = c.left /\ n.writer = c.writer
      /\ n.file = c.file /\ n.asked = c.asked
  BY <1>2 DEF Conn
<1> HIDE DEF n
<1>4. (Reads(n) <=> Reads(c)) /\ (Fills(n) <=> Fills(c))
  BY <1>3 DEF Reads, Fills
<1>5. Phase(n, s \in killed) /\ Role(n)
  BY <1>2, <1>3, <1>4 DEF Phase, Role
<1>6. Becomes(s, n) /\ s \in enq' /\ SameList /\ UNCHANGED <<ent, version>>
  BY <1>1, <1>2, <1>3, <1>5, Stays, ListKept DEF cacheVars
<1>7. Types' /\ Entries' /\ Conns'
  BY <1>1, <1>2, <1>3, <1>4, <1>5, <1>6, Inner
<1>8. p \in Pid
  BY <1>1, <1>2 DEF Conn
<1>9. Programs'
  <2>1. proc' \in [Pid -> {"none", "run", "dead"}]
    BY <1>1, <1>2, <1>8 DEF Programs
  <2>2. ASSUME NEW q \in Pid, proc'[q] # "none" PROVE \E t \in enq' : conn'[t].pid = q
    <3>1. q # p /\ proc[q] # "none"
      BY <1>1, <1>2, <1>8, <2>2 DEF Programs
    <3>2. PICK t \in enq : conn[t].pid = q
      BY <1>2, <3>1 DEF Programs, CgiOwned
    <3>3. t # s /\ t \in Sock
      BY <1>2, <3>1, <3>2 DEF Types
    <3> QED
      BY <1>1, <1>2, <3>2, <3>3 DEF Types
  <2> QED
    BY <2>1, <2>2 DEF Programs, CgiOwned
<1> QED
  BY <1>7, <1>9 DEF IInv

\* Nothing happens to the connections and the cache.
LEMMA CacheStutter ==
  ASSUME Types, Entries, Conns, UNCHANGED <<enq, killed, conn, version, cacheVars>>
  PROVE  Types' /\ Entries' /\ Conns'
<1>1. UNCHANGED <<enq, killed, conn, version, order, ent>>
  BY DEF cacheVars
<1>2. Types'
  BY <1>1 DEF Types
<1>3. Entries'
  BY <1>1 DEF Entries, EntryOK, Within, Readers
<1>4. \A x : Role(x) => Role(x)'
  BY <1>1 DEF Role, Within, OfSecond
<1>5. ASSUME NEW t \in enq' PROVE Role(conn[t])'
  <2>1. PICK x : x = conn[t] /\ x = conn'[t]
    BY <1>1
  <2>2. Role(x)
    BY <1>1, <2>1 DEF Conns
  <2>3. Role(x)'
    BY <1>4, <2>2
  <2> QED
    BY <2>1, <2>3
<1>6. Conns'
  BY <1>1, <1>5 DEF Conns
<1> QED
  BY <1>2, <1>3, <1>6

LEMMA StepExit == ASSUME IInv, NEW p \in Pid, Exit(p) PROVE IInv'
<1>1. Types /\ Entries /\ Conns /\ Programs
  BY DEF IInv
<1>2. proc[p] = "run" /\ proc' = [proc EXCEPT ![p] = "dead"] /\ UNCHANGED <<enq, killed, conn, version, cacheVars>>
  BY DEF Exit
<1>3. Types' /\ Entries' /\ Conns'
  BY <1>1, <1>2, CacheStutter
<1>4. Programs'
  BY <1>1, <1>2 DEF Programs, CgiOwned
<1> QED
  BY <1>3, <1>4 DEF IInv

LEMMA Stephttp_disconnect == ASSUME IInv, NEW s \in Sock, http_disconnect(s) PROVE IInv'
<1> DEFINE c == conn[s]
<1>1. /\ s \in killed /\ http_cache_disconnect(c)
      /\ IF c.disc = "cgi" THEN Terminated(c.pid) ELSE UNCHANGED proc
      /\ enq' = enq \ {s} /\ killed' = killed \ {s} /\ conn' = [conn EXCEPT ![s] = Fresh]
      /\ UNCHANGED version
  BY DEF http_disconnect
<1>2. s \in enq
  BY <1>1 DEF IInv, Types
<1>3. /\ c \in Conn /\ Role(c) /\ Held(c) /\ Types /\ Entries /\ Conns /\ Programs
  BY <1>2, TheConn
<1>4. Becomes(s, Fresh) /\ Fresh \in Conn /\ ~Fills(Fresh) /\ ~Reads(Fresh)
  BY <1>1, <1>3, FreshConn DEF Becomes, Types
<1>5. Types' /\ Entries' /\ Conns'
  <2>1. CASE c.disc = "cache" /\ c.entry # NULL /\ ~ent[c.entry].ready
    <3>1. order' = Destroyed(c.entry, order) /\ ent' = [ent EXCEPT ![c.entry] = NoEntry]
      BY <1>1, <2>1 DEF http_cache_disconnect
    <3>2. Fills(conn[s]) /\ c.entry \in Entry
      BY <1>3, <2>1 DEF Role, Reads, Fills, Conn
    <3> QED
      BY <1>1, <1>2, <1>3, <1>4, <3>1, <3>2, Dropped
  <2>2. CASE ~(c.disc = "cache" /\ c.entry # NULL /\ ~ent[c.entry].ready)
    <3>1. UNCHANGED <<version, order>> /\ ent' = Released(c, ent)
      BY <1>1, <2>2 DEF http_cache_disconnect
    <3>2. ent' = IF Reads(conn[s]) THEN [ent EXCEPT ![conn[s].entry].usage = @ - 1] ELSE ent
      BY <3>1 DEF Released, Reads
    <3> QED
      BY <1>2, <1>3, <1>4, <3>1, <3>2, Ended
  <2> QED
    BY <2>1, <2>2
<1>6. Programs'
  <2>1. proc' \in [Pid -> {"none", "run", "dead"}]
    BY <1>1, <1>3 DEF Programs, Terminated
  <2>2. ASSUME NEW q \in Pid, proc'[q] # "none" PROVE \E t \in enq' : conn'[t].pid = q
    <3>1. proc[q] # "none" /\ (c.disc = "cgi" => q # c.pid)
      BY <1>1, <2>2 DEF Terminated
    <3>2. PICK t \in enq : conn[t].pid = q
      BY <1>3, <3>1 DEF Programs, CgiOwned
    <3>3. t # s /\ t \in Sock
      BY <1>3, <3>1, <3>2, NullAssumption DEF Types, Held
    <3> QED
      BY <1>1, <1>3, <3>2, <3>3 DEF Types
  <2> QED
    BY <2>1, <2>2 DEF Programs, CgiOwned
<1> QED
  BY <1>5, <1>6 DEF IInv

\* Becomes, for a connection that is closed.
LEMMA KillBecomes ==
  ASSUME Types, NEW s \in enq, NEW d \in Conn, Kill(s, d), UNCHANGED enq, Held(d)
  PROVE  /\ Becomes(s, Killed(d)) /\ Killed(d) \in Conn /\ Killed(d).pid = d.pid
         /\ conn' = [conn EXCEPT ![s] = Killed(d)]
         /\ (Fills(Killed(d)) <=> Fills(d)) /\ (Reads(Killed(d)) <=> Reads(d))
<1> DEFINE c == Killed(d)
<1>1. /\ c \in Conn /\ c.pid = d.pid /\ Phase(c, TRUE)
      /\ (Fills(c) <=> Fills(d)) /\ (Reads(c) <=> Reads(d))
  BY KilledConn
<1>2. conn' = [conn EXCEPT ![s] = c] /\ killed' = killed \cup {s}
  BY DEF Kill, Killed
<1> HIDE DEF c
<1>3. Becomes(s, c)
  BY <1>1, <1>2 DEF Becomes, Types
<1> QED
  BY <1>1, <1>2, <1>3 DEF c

\* http_cache_reset takes the role away.
LEMMA ResetConn ==
  ASSUME NEW c \in Conn, ~Reads(c), c.pid = NULL
  PROVE  /\ Reset(c) \in Conn /\ Reset(c).flags = c.flags /\ Reset(c).entry = NULL
         /\ Reset(c).pid = NULL /\ Reset(c).left = c.left /\ Reset(c).reader = c.reader
         /\ ~Reads(Reset(c)) /\ ~Fills(Reset(c)) /\ Held(Reset(c))
<1>1. <<>> \in Seq(Nat)
  BY EmptySeq
<1>2. Reset(c) \in Conn
  BY <1>1 DEF Reset, Conn
<1>3. /\ Reset(c).flags = c.flags /\ Reset(c).entry = NULL /\ Reset(c).pid = NULL
      /\ Reset(c).left = c.left /\ Reset(c).reader = c.reader
  BY DEF Reset, Conn
<1> QED
  BY <1>2, <1>3 DEF Reads, Fills, Held

LEMMA Stephttp_cache_read == ASSUME IInv, NEW s \in Sock, http_cache_read(s) PROVE IInv'
<1> DEFINE c == conn[s]
           e == c.entry
           b == Append(c.buf, version[c.file])
           d == [c EXCEPT !.fill = TRUE, !.left = @ - 1, !.buf = b]
           Ready(q) == [ent EXCEPT ![e].ready = TRUE, ![e].buf = q, ![e].size = Len(q)]
<1>1. s \in enq \ killed /\ c.reader = "cache" /\ UNCHANGED <<enq, version, order, torn, proc>>
  BY DEF http_cache_read
<1>2. /\ s \in enq /\ s \notin killed /\ c \in Conn /\ Phase(c, FALSE) /\ Role(c) /\ Held(c)
      /\ Types /\ Entries /\ Conns /\ Programs
  BY <1>1, LiveConn
<1>3. /\ Fills(c) /\ ~Reads(c) /\ c.left > 0 /\ c.left \in Nat /\ c.disc = "cache" /\ c.pid = NULL
      /\ c.writer = "default" /\ "SENDFILE" \notin c.flags /\ "DONE" \notin c.flags
  BY <1>1, <1>2 DEF Phase, Fills, Reads, Conn
<1>4. /\ e \in Range(order) /\ ~ent[e].ready /\ Within(c.buf, ent[e]) /\ c.file = ent[e].file
      /\ EntryOK(e) /\ e \in Entry
  BY <1>1, <1>2, <1>3, RangeIs DEF Role, Entries, Types
<1>5. /\ c.file \in File /\ ent[e].date <= Second[version[c.file]] /\ version[c.file] \in Nat
      /\ version[c.file] > 0
  <2>1. c.file \in File /\ ent[e].date <= Second[version[c.file]]
    BY <1>4 DEF EntryOK
  <2>2. version[c.file] \in 1..Len(Size) /\ Len(Size) \in Nat
    BY <1>2, <2>1, SizeIs
  <2> QED
    BY <2>1, <2>2
<1>6. c.buf \in Seq(Nat)
  BY <1>2 DEF Conn
<1>7. b \in Seq(Nat) /\ Within(b, ent[e])
  <2> DEFINE q == c.buf
             v == version[c.file]
  <2>1. /\ q \in Seq(Nat) /\ v \in Nat /\ v > 0 /\ Within(q, ent[e])
        /\ v = version[ent[e].file] /\ ent[e].date <= Second[v]
    BY <1>4, <1>5, <1>6
  <2> HIDE DEF q, v
  <2>2. /\ Append(q, v) \in Seq(Nat) /\ Len(Append(q, v)) = Len(q) + 1
        /\ Append(q, v)[Len(q) + 1] = v
        /\ \A i \in 1..Len(q) : Append(q, v)[i] = q[i]
    BY <2>1, AppendProperties
  <2>3. \A i \in 1..(Len(q) + 1) : i \in 1..Len(q) \/ i = Len(q) + 1
    BY <2>1
  <2>4. Within(Append(q, v), ent[e])
    <3>1. v \in 1..v
      BY <2>1
    <3> QED
      BY <2>1, <2>2, <2>3, <3>1 DEF Within
  <2> QED
    BY <2>2, <2>4 DEF q, v
<1>8. /\ d \in Conn /\ d.flags = c.flags /\ d.entry = c.entry /\ d.pid = c.pid /\ d.buf = b
      /\ d.reader = c.reader /\ d.disc = c.disc /\ d.left = c.left - 1 /\ d.writer = c.writer
      /\ d.file = c.file
  <2> HIDE DEF c, b
  <2>1. c.left - 1 \in Nat
    BY <1>3
  <2>2. d \in Conn
    BY <1>2, <1>7, <2>1 DEF Conn
  <2> QED
    BY <1>2, <2>2 DEF Conn
<1>9. \/ /\ conn' = [conn EXCEPT ![s] = IF d.left > 0 THEN d ELSE ReadDone(Reset(d))]
         /\ ent' = IF d.left > 0 THEN ent ELSE Ready(b)
         /\ UNCHANGED killed
      \/ ent' = Ready(c.buf) /\ Kill(s, Reset(c))
      \/ Kill(s, IF c.buf # <<>> THEN Reset(c) ELSE c) /\ UNCHANGED ent
  <2>1. d.entry = e /\ d.buf = b
    BY <1>8
  <2> QED
    BY <2>1 DEF http_cache_read
<1> HIDE DEF d, b
<1>10. (Reads(d) <=> Reads(c)) /\ (Fills(d) <=> Fills(c))
  BY <1>8 DEF Reads, Fills
<1>11. ASSUME conn' = [conn EXCEPT ![s] = IF d.left > 0 THEN d ELSE ReadDone(Reset(d))],
              ent' = IF d.left > 0 THEN ent ELSE Ready(b), UNCHANGED killed
       PROVE  IInv'
  <2>1. CASE d.left > 0
    <3>1. Phase(d, s \in killed)
      BY <1>2, <1>3, <1>8, <1>10, <2>1 DEF Phase
    <3>2. Role(d)
      BY <1>2, <1>3, <1>4, <1>7, <1>8, <1>10 DEF Role
    <3> QED
      BY <1>1, <1>2, <1>8, <1>10, <1>11, <2>1, <3>1, <3>2, Moves DEF cacheVars
  <2>2. CASE ~(d.left > 0)
    <3> DEFINE r == Reset(d)
               n == ReadDone(r)
    <3>1. /\ r \in Conn /\ r.flags = d.flags /\ r.entry = NULL /\ r.pid = NULL /\ r.left = d.left
          /\ ~Reads(r) /\ ~Fills(r)
      BY <1>3, <1>8, <1>10, ResetConn
    <3> HIDE DEF r
    <3>2. /\ n \in Conn /\ n.flags = r.flags \cup {"DONE"} /\ n.entry = NULL /\ n.pid = NULL
          /\ n.reader = "tcp"
      BY <2>2, <3>1 DEF ReadDone, Conn, Flag, Reader
    <3>3. ~Reads(n) /\ ~Fills(n)
      BY <3>1, <3>2 DEF Reads, Fills
    <3>4. Phase(n, s \in killed)
      BY <3>2, <3>3 DEF Phase
    <3>5. conn' = [conn EXCEPT ![s] = n] /\ ent' = Ready(b)
      BY <1>11, <2>2 DEF r
    <3> HIDE DEF n
    <3>6. Becomes(s, n)
      BY <1>1, <1>2, <1>11, <3>2, <3>4, <3>5, Stays
    <3>7. Types' /\ Entries' /\ Conns'
      BY <1>1, <1>2, <1>3, <1>4, <1>7, <3>2, <3>3, <3>5, <3>6, Finished
    <3>8. Programs'
      BY <1>1, <1>2, <1>3, <3>2, <3>5, ProgramsKept
    <3> QED
      BY <3>7, <3>8 DEF IInv
  <2> QED
    BY <2>1, <2>2
<1>12. /\ Reset(c) \in Conn /\ Reset(c).pid = NULL
       /\ ~Reads(Reset(c)) /\ ~Fills(Reset(c)) /\ Held(Reset(c))
  BY <1>2, <1>3, ResetConn
<1>13. ASSUME Kill(s, Reset(c)), ent' = Ready(c.buf) \/ UNCHANGED ent PROVE IInv'
  <2> DEFINE n == Killed(Reset(c))
  <2>1. /\ Becomes(s, n) /\ n \in Conn /\ n.pid = NULL /\ conn' = [conn EXCEPT ![s] = n]
        /\ ~Fills(n) /\ ~Reads(n)
    BY <1>1, <1>2, <1>12, <1>13, KillBecomes
  <2> HIDE DEF n
  <2>2. Types' /\ Entries' /\ Conns'
    <3>1. CASE ent' = Ready(c.buf)
      BY <1>1, <1>2, <1>3, <1>4, <1>6, <2>1, <3>1, Finished
    <3>2. CASE UNCHANGED ent
      BY <1>1, <1>2, <1>3, <2>1, <3>2, Ended
    <3> QED
      BY <1>13, <3>1, <3>2
  <2>3. Programs'
    BY <1>1, <1>2, <1>3, <2>1, ProgramsKept
  <2> QED
    BY <2>2, <2>3 DEF IInv
<1>14. ASSUME Kill(s, c), UNCHANGED ent PROVE IInv'
  BY <1>1, <1>2, <1>14, Kills DEF cacheVars
<1> QED
  BY <1>9, <1>11, <1>13, <1>14

LEMMA Stephttp_connect_socket == ASSUME IInv, NEW s \in Sock, http_connect_socket(s) PROVE IInv'
<1>1. /\ s \notin enq /\ enq' = enq \cup {s} /\ conn' = [conn EXCEPT ![s] = Fresh]
      /\ UNCHANGED <<killed, version, order, ent, proc>>
  BY DEF http_connect_socket, cacheVars
<1>2. Types /\ Entries /\ Conns /\ Programs
  BY DEF IInv
<1>3. /\ Fresh \in Conn /\ ~Fills(Fresh) /\ ~Reads(Fresh)
      /\ \A dead \in BOOLEAN : Phase(Fresh, dead)
  BY FreshConn
<1>4. Phase(Fresh, s \in killed')
  BY <1>3 DEF Phase
<1>5. Becomes(s, Fresh)
  BY <1>1, <1>2, <1>3, <1>4 DEF Becomes, Types
<1>6. /\ enq' \subseteq Sock /\ killed' \subseteq enq' /\ IsFiniteSet(enq')
      /\ conn' \in [Sock -> Conn] /\ conn'[s] = Fresh
      /\ \A t \in Sock \ {s} : conn'[t] = conn[t]
  BY <1>2, <1>3, <1>5, BecomesFacts
<1>7. Types'
  BY <1>1, <1>2, <1>6 DEF Types
<1>8. \A e : Readers(e)' = Readers(e)
  BY <1>1, <1>2, <1>3, <1>6 DEF Readers, Reads, Types
<1>9. Entries'
  BY <1>1, <1>2, <1>8 DEF Entries, EntryOK, Within
<1>10. \A x : Role(x) => Role(x)'
  BY <1>1 DEF Role, Within, OfSecond
<1>11. ASSUME NEW t \in enq' PROVE Phase(conn'[t], t \in killed') /\ Role(conn[t])'
  <2>1. CASE t = s
    <3>1. Role(Fresh)'
      BY <1>3 DEF Role
    <3> QED
      BY <1>4, <1>6, <2>1, <3>1
  <2>2. CASE t # s
    <3>1. PICK x : x = conn[t] /\ x = conn'[t]
      BY <1>6, <2>2
    <3>2. t \in enq /\ Phase(x, t \in killed) /\ Role(x)
      BY <1>1, <1>2, <2>2, <3>1 DEF Conns
    <3>3. Role(x)'
      BY <1>10, <3>2
    <3> QED
      BY <1>1, <3>1, <3>2, <3>3
  <2> QED
    BY <2>1, <2>2
<1>12. \A t, u \in enq' :
         Fills(conn'[t]) /\ Fills(conn'[u]) /\ conn'[t].entry = conn'[u].entry => t = u
  BY <1>1, <1>2, <1>3, <1>6 DEF Conns
<1>13. Programs'
  <2>1. \A t \in enq : conn'[t] = conn[t]
    BY <1>1, <1>2, <1>6 DEF Types
  <2> QED
    BY <1>1, <1>2, <2>1 DEF Programs, CgiOwned
<1> QED
  BY <1>7, <1>9, <1>11, <1>12, <1>13 DEF IInv, Conns

LEMMA Stephttp_idle == ASSUME IInv, NEW s \in Sock, http_idle(s) PROVE IInv'
BY StepFail DEF http_idle

\* A file is overwritten.  What was read of it before remains of the seconds it was of.
LEMMA StepModify == ASSUME IInv, NEW f \in Mutable, Modify(f) PROVE IInv'
<1>1. /\ version' = [version EXCEPT ![f] = @ + 1] /\ version[f] < Len(Size)
      /\ UNCHANGED <<enq, killed, conn, order, ent, proc>>
  BY DEF Modify, cacheVars
<1>2. Types /\ Entries /\ Conns /\ Programs /\ f \in File
  BY ChoiceAssumption DEF IInv
<1>3. Len(Size) \in Nat
  BY SizeAssumption
<1>4. /\ version' \in [File -> 1..Len(Size)]
      /\ \A g \in File : /\ version[g] \in Nat /\ version'[g] \in Nat /\ version[g] <= version'[g]
                         /\ version[g] \in 1..version'[g] /\ version'[g] \in 1..Len(Size)
  BY <1>1, <1>2, <1>3 DEF Types
<1>5. Types'
  BY <1>1, <1>2, <1>4 DEF Types
<1>6. ASSUME NEW x, NEW b, x.file \in File, Within(b, x) PROVE Within(b, x)'
  BY <1>4, <1>6 DEF Within
<1>7. Range(order) \subseteq Entry
  BY <1>2, RangeIs DEF Types
<1>8. ASSUME NEW e \in Range(order) PROVE EntryOK(e)'
  <2>1. PICK x : x = ent[e]
    OBVIOUS
  <2>2. x.date \in Nat
    BY <1>2, <1>7, <2>1 DEF Types, CacheEntry
  <2>3. /\ x.file \in File /\ x.date <= Second[version[x.file]] /\ Within(x.buf, x)
        /\ (x.ready => x.size = Len(x.buf)) /\ x.usage = Cardinality(Readers(e))
    BY <1>2, <2>1 DEF Entries, EntryOK
  <2>4. Within(x.buf, x)'
    BY <1>6, <2>3
  <2>5. x.date <= Second[version'[x.file]]
    <3>1. /\ Second[version[x.file]] \in Nat /\ Second[version'[x.file]] \in Nat
          /\ Second[version[x.file]] <= Second[version'[x.file]]
      BY <1>4, <2>3, LaterSecond
    <3> QED
      BY <2>2, <2>3, <3>1
  <2>6. Readers(e)' = Readers(e) /\ x = ent'[e]
    BY <1>1, <2>1 DEF Readers
  <2> QED
    BY <2>1, <2>3, <2>4, <2>5, <2>6 DEF EntryOK
<1>9. Entries'
  BY <1>1, <1>2, <1>8 DEF Entries
<1>10. ASSUME NEW t \in enq PROVE Role(conn[t])'
  <2>1. PICK c : c = conn[t] /\ c = conn'[t]
    BY <1>1
  <2>2. Role(c)
    BY <1>2, <2>1 DEF Conns
  <2>3. PICK x : x = ent[c.entry] /\ x = ent'[c.entry]
    BY <1>1
  <2>4. Fills(c) => Within(c.buf, x)'
    <3>1. Fills(c) => x.file \in File /\ Within(c.buf, x)
      BY <1>2, <2>2, <2>3 DEF Entries, EntryOK, Role
    <3> QED
      BY <1>6, <3>1
  <2>5. Role(c)'
    BY <1>1, <2>2, <2>3, <2>4 DEF Role, OfSecond
  <2> QED
    BY <2>1, <2>5
<1>11. Conns'
  BY <1>1, <1>2, <1>10 DEF Conns
<1>12. Programs'
  BY <1>1, <1>2 DEF Programs, CgiOwned
<1> QED
  BY <1>5, <1>9, <1>11, <1>12 DEF IInv

\* "kill cache", when no connection has anything to do with the cache.
LEMMA StepKillCache == ASSUME IInv, ctrl_kill_cache, ~torn' PROVE IInv'
<1>1. /\ order' = <<>> /\ ent' = [e \in Entry |-> NoEntry]
      /\ UNCHANGED <<enq, killed, conn, version, proc>> /\ \A s \in enq : conn[s].entry = NULL
  BY DEF ctrl_kill_cache
<1>2. Types /\ Conns /\ Programs
  BY DEF IInv
<1>3. order' \in Seq(Entry) /\ Len(order') = 0 /\ Range(order') = {}
  <2>1. <<>> \in Seq(Entry) /\ Len(<<>>) = 0
    OBVIOUS
  <2>2. Range(order') = {order'[i] : i \in 1..Len(order')}
    BY <1>1, <2>1, RangeIs
  <2> QED
    BY <1>1, <2>1, <2>2
<1>4. ent' \in [Entry -> CacheEntry]
  BY <1>1, EmptySeq DEF NoEntry, CacheEntry
<1>5. Types'
  BY <1>1, <1>2, <1>3, <1>4, BoundAssumption DEF Types, Distinct
<1>6. Entries'
  BY <1>3 DEF Entries
<1>7. \A s \in enq : ~Fills(conn[s]) /\ ~Reads(conn[s])
  <2>1. ASSUME NEW s \in enq, Reads(conn[s]) PROVE FALSE
    <3>1. conn[s].entry \in Range(order) /\ Range(order) \subseteq Entry
      BY <1>2, <2>1, RangeIs DEF Conns, Role, Types
    <3> QED
      BY <1>1, <3>1, NullAssumption
  <2> QED
    BY <1>1, <2>1 DEF Fills
<1>8. \A s \in enq : Role(conn[s])'
  BY <1>1, <1>7 DEF Role
<1>9. Conns'
  BY <1>1, <1>2, <1>8 DEF Conns
<1>10. Programs'
  BY <1>1, <1>2 DEF Programs, CgiOwned
<1> QED
  BY <1>5, <1>6, <1>9, <1>10 DEF IInv

-----------------------------------------------------------------------------
(* Requests *)

\* Between two responses a connection has no role, no program and no flags.
LEMMA IdleConn ==
  ASSUME IInv, NEW s \in Sock, Listening(s), ~Pipelining
  PROVE  /\ s \in enq /\ s \notin killed /\ conn[s] \in Conn
         /\ Types /\ Entries /\ Conns /\ Programs
         /\ conn[s].flags = {} /\ conn[s].reader = "tcp" /\ conn[s].writer = "default"
         /\ conn[s].entry = NULL /\ conn[s].pid = NULL /\ ~Reads(conn[s]) /\ ~Fills(conn[s])
         /\ ~conn[s].fill
<1>1. /\ s \in enq /\ s \notin killed /\ ~conn[s].fill
      /\ conn[s].flags = {} /\ conn[s].reader = "tcp" /\ conn[s].writer = "default"
  BY DEF Listening, Idle
<1>2. conn[s] \in Conn /\ Types /\ Entries /\ Conns /\ Programs /\ Phase(conn[s], FALSE)
  BY <1>1, LiveConn
<1>3. ~Reads(conn[s]) /\ ~Fills(conn[s]) /\ conn[s].pid = NULL
  BY <1>1, <1>2 DEF Phase, Reads
<1>4. conn[s].entry = NULL
  BY <1>1, <1>3 DEF Fills
<1> QED
  BY <1>1, <1>2, <1>3, <1>4

\* The header changes nothing but the flag for Keep-Alive.
LEMMA HeaderConn ==
  ASSUME NEW c \in Conn, c.flags = {}, NEW simple \in BOOLEAN, NEW keep \in BOOLEAN
  PROVE  LET h == Header(c, simple, keep)
         IN  /\ h \in Conn /\ h.flags \in SUBSET {"KEEP"} /\ h.reader = c.reader
             /\ h.writer = c.writer /\ h.entry = c.entry /\ h.pid = c.pid /\ h.disc = c.disc
<1>1. c.keepalive \in Nat /\ (c.keepalive > 0 => c.keepalive - 1 \in Nat)
  BY DEF Conn
<1>2. CASE simple
  BY <1>2 DEF Header, Conn, Flag
<1>3. CASE ~simple /\ keep /\ c.keepalive > 0
  BY <1>1, <1>3 DEF Header, Conn, Flag
<1>4. CASE ~simple /\ ~(keep /\ c.keepalive > 0)
  BY <1>1, <1>4 DEF Header, Conn, Flag
<1> QED
  BY <1>2, <1>3, <1>4

\* A connection without a role changes, and gets none.
LEMMA NoRole ==
  ASSUME IInv, NEW s \in enq, s \notin killed, NEW n \in Conn, conn' = [conn EXCEPT ![s] = n],
         UNCHANGED <<enq, killed, version, ent, proc>>, SameList,
         ~Reads(conn[s]), ~Fills(conn[s]), conn[s].pid = NULL,
         n.entry = NULL, ~Reads(n), n.pid = NULL, n.reader # "cache",
         n.reader = "file" => n.left > 0
  PROVE  IInv'
<1>1. Types /\ Entries /\ Conns /\ Programs /\ s \in Sock
  BY TheConn
<1>2. ~Fills(n)
  BY DEF Fills
<1>3. Phase(n, s \in killed) /\ Role(n)
  BY <1>2 DEF Phase, Role
<1>4. Becomes(s, n) /\ s \in enq'
  BY <1>1, <1>3, Stays
<1>5. Types' /\ Entries' /\ Conns'
  BY <1>1, <1>2, <1>3, <1>4, Inner
<1>6. Programs'
  BY <1>1, ProgramsKept
<1> QED
  BY <1>5, <1>6 DEF IInv

LEMMA StepComplete ==
  ASSUME IInv, NEW s \in Sock, Listening(s), ~Pipelining, NEW h \in Conn, Complete(s, h),
         h.flags \in SUBSET {"KEEP"}, h.reader = "tcp", h.entry = NULL, h.pid = NULL
  PROVE  IInv'
<1> DEFINE n == [h EXCEPT !.flags = @ \cup {"DONE"}, !.fill = TRUE]
<1>1. /\ conn' = [conn EXCEPT ![s] = n] /\ UNCHANGED <<enq, killed, version, order, ent, proc>>
  BY DEF Complete, cacheVars
<1>2. /\ s \in enq /\ s \notin killed /\ Types
      /\ ~Reads(conn[s]) /\ ~Fills(conn[s]) /\ conn[s].pid = NULL
  BY IdleConn
<1>3. h.flags \cup {"DONE"} \in SUBSET Flag
  BY DEF Flag
<1>4. /\ n \in Conn /\ n.flags = h.flags \cup {"DONE"} /\ n.reader = "tcp" /\ n.entry = NULL
      /\ n.pid = NULL
  BY <1>3 DEF Conn
<1>5. ~Reads(n)
  BY <1>4 DEF Reads
<1>6. SameList
  BY <1>1, <1>2, ListKept
<1> HIDE DEF n
<1> QED
  BY <1>1, <1>2, <1>4, <1>5, <1>6, NoRole

\* A program is forked, and the header does not fail; or nothing was forked.
LEMMA Stepcgi_exec ==
  ASSUME IInv, NEW s \in Sock, Listening(s), ~Pipelining, NEW p \in Pid, NEW c \in Conn,
         NEW bad \in Conn, cgi_exec(s, p, c, bad), c.flags = {"CGI"} \/ c.flags = {"POST"},
         c.reader = "tcp" \/ c.reader = "cgi", c.entry = NULL, ~c.fill,
         bad.flags \subseteq {"CGI"}, bad.reader = "tcp", bad.entry = NULL, bad.pid = NULL
  PROVE  IInv'
<1> DEFINE n == [c EXCEPT !.fill = TRUE, !.disc = "cgi", !.pid = p]
           m == [bad EXCEPT !.fill = TRUE, !.disc = "cgi", !.flags = @ \cup {"DONE"}]
<1>1. /\ \/ /\ proc[p] = "none" /\ proc' = [proc EXCEPT ![p] = "run"]
            /\ conn' = [conn EXCEPT ![s] = n]
         \/ conn' = [conn EXCEPT ![s] = m] /\ UNCHANGED proc
      /\ UNCHANGED <<enq, killed, version, order, ent>>
  BY DEF cgi_exec, http_cgi_accepted, cacheVars
<1>2. /\ s \in enq /\ s \notin killed /\ Types /\ Entries /\ Conns /\ Programs
      /\ ~Reads(conn[s]) /\ ~Fills(conn[s]) /\ conn[s].pid = NULL
  BY IdleConn
<1>3. /\ n \in Conn /\ n.flags = c.flags /\ n.reader = c.reader /\ n.entry = NULL /\ n.pid = p
      /\ n.disc = "cgi"
  BY DEF Conn
<1>4. m \in Conn /\ m.flags = bad.flags \cup {"DONE"} /\ m.reader = "tcp" /\ m.entry = NULL
      /\ m.pid = NULL
  <2>1. bad.flags \cup {"DONE"} \in SUBSET Flag
    BY DEF Flag
  <2> QED
    BY <2>1 DEF Conn
<1> HIDE DEF n, m
<1>5. SameList
  BY <1>1, <1>2, ListKept
<1>6. CASE conn' = [conn EXCEPT ![s] = m] /\ UNCHANGED proc
  <2>1. ~Reads(m)
    BY <1>4 DEF Reads
  <2> QED
    BY <1>1, <1>2, <1>4, <1>5, <1>6, <2>1, NoRole
<1>7. CASE /\ proc[p] = "none" /\ proc' = [proc EXCEPT ![p] = "run"]
           /\ conn' = [conn EXCEPT ![s] = n]
  <2>1. ~Reads(n) /\ ~Fills(n)
    BY <1>3 DEF Reads, Fills
  <2>2. Phase(n, s \in killed) /\ Role(n)
    BY <1>3, <2>1 DEF Phase, Role
  <2>3. Becomes(s, n) /\ s \in enq'
    BY <1>1, <1>2, <1>3, <1>7, <2>2, Stays
  <2>4. Types' /\ Entries' /\ Conns'
    BY <1>1, <1>2, <1>3, <1>5, <2>1, <2>2, <2>3, Inner
  <2>5. proc' \in [Pid -> {"none", "run", "dead"}]
    BY <1>2, <1>7 DEF Programs
  <2>6. ASSUME NEW q \in Pid, proc'[q] # "none" PROVE \E t \in enq' : conn'[t].pid = q
    <3>1. CASE q = p
      BY <1>1, <1>2, <1>3, <1>7, <3>1 DEF Types
    <3>2. CASE q # p
      <4>1. proc[q] # "none"
        BY <1>2, <1>7, <2>6, <3>2 DEF Programs
      <4>2. PICK t \in enq : conn[t].pid = q
        BY <1>2, <4>1 DEF Programs, CgiOwned
      <4>3. t # s /\ t \in Sock
        BY <1>2, <4>2, NullAssumption DEF Types
      <4> QED
        BY <1>1, <1>2, <1>7, <4>2, <4>3 DEF Types
    <3> QED
      BY <3>1, <3>2
  <2>7. Programs'
    BY <2>5, <2>6 DEF Programs, CgiOwned
  <2> QED
    BY <2>4, <2>7 DEF IInv
<1> QED
  BY <1>1, <1>6, <1>7

LEMMA CachedIs ==
  ASSUME NEW f, InCache(f)
  PROVE  Cached(f) \in Range(order) /\ ent[Cached(f)].file = f
BY DEF InCache, Cached

\* http_get_response puts the connection s to filling the entry e, which is new, or
\* made anew, and which nobody uses.
LEMMA BeginsFilling ==
  ASSUME IInv, NEW s \in enq, s \notin killed, ~Reads(conn[s]), ~Fills(conn[s]),
         conn[s].pid = NULL, NEW h \in Conn, h.flags \in SUBSET {"KEEP"}, h.writer = "default",
         h.pid = NULL, NEW e \in Entry, NEW f \in File, Unused(e),
         conn' = [conn EXCEPT ![s] = Filling(h, e, f)], UNCHANGED <<enq, killed, version, proc>>,
         NEW x \in CacheEntry, Blank(x, f), ent' = [ent EXCEPT ![e] = x],
         order' \in Seq(Entry), Distinct(order'), Len(order') <= http_cache_entries,
         e \in Range(order'),
         \A d \in Range(order') \ {e} : d \in Range(order) /\ ent[d].file # f,
         \A d \in Range(order) \ Range(order') : Unused(d)
  PROVE  IInv'
<1> DEFINE n == Filling(h, e, f)
<1>1. Types /\ Entries /\ Conns /\ Programs /\ s \in Sock
  BY TheConn
<1>2. Size[version[f]] \in Nat /\ Size[version[f]] > 0 /\ <<>> \in Seq(Nat)
  BY <1>1, SizeIs, EmptySeq
<1>3. n \in Conn
  BY <1>2 DEF Filling, Conn, Reader
<1>4. /\ n.flags = h.flags /\ n.reader = "cache" /\ n.disc = "cache" /\ n.entry = e
      /\ n.buf = <<>> /\ n.file = f /\ n.left = Size[version[f]] /\ n.writer = "default"
      /\ n.pid = NULL
  BY DEF Filling, Conn
<1> HIDE DEF n
<1>5. Fills(n) /\ ~Reads(n)
  BY <1>4, NullAssumption DEF Fills, Reads
<1>6. Phase(n, s \in killed)
  BY <1>2, <1>4, <1>5 DEF Phase
<1>7. conn' = [conn EXCEPT ![s] = n] /\ UNCHANGED <<enq, killed>>
  BY DEF n
<1>8. Becomes(s, n) /\ s \in enq'
  BY <1>1, <1>3, <1>6, <1>7, Stays
<1>9. Types' /\ Entries' /\ Conns'
  BY <1>1, <1>3, <1>4, <1>5, <1>8, Begun
<1>10. Programs'
  <2>1. UNCHANGED proc /\ n.pid = conn[s].pid /\ enq \subseteq enq'
    BY <1>4
  <2> QED
    BY <1>1, <1>7, <2>1, ProgramsKept
<1> QED
  BY <1>9, <1>10 DEF IInv

\* The entry that a new file takes the place of has no users.
LEMMA VictimUnused ==
  ASSUME Types, Entries, Conns, NEW e \in Victims
  PROVE  Unused(e)
<1>1. e \in Range(order) /\ ent[e].ready /\ ent[e].usage = 0
  BY DEF Victims
<1>2. IsFiniteSet(Readers(e)) /\ Cardinality(Readers(e)) = 0
  <2>1. IsFiniteSet(enq) /\ Readers(e) \subseteq enq
    BY DEF Types, Readers
  <2> QED
    BY <1>1, <2>1, FS_Subset DEF Entries, EntryOK
<1>3. Readers(e) = {}
  BY <1>2, FS_EmptySet
<1>4. ASSUME NEW t \in enq, Fills(conn[t]) PROVE conn[t].entry # e
  BY <1>1, <1>4 DEF Conns, Role
<1> QED
  BY <1>3, <1>4 DEF Unused, Readers, Reads

\* http_get_response for a request that has its header h.
LEMMA Stephttp_get_response ==
  ASSUME IInv, NEW s \in Sock, Listening(s), ~Pipelining, NEW f \in File,
         NEW simple \in BOOLEAN, NEW keep \in BOOLEAN, NEW range \in BOOLEAN,
         http_get_response(s, f, simple, keep, range), ~torn'
  PROVE  IInv'
<1> DEFINE h == Header(conn[s], simple, keep)
           status == IF range THEN "INHIBIT" ELSE http_check_cache(f)
           e == Cached(f)
           n == [h EXCEPT !.flags = @ \cup {"CACHE"}, !.entry = e, !.buf = ent[e].buf,
                          !.fill = TRUE, !.asked = version[f],
                          !.writer = IF simple THEN "cache" ELSE @]
<1>1. /\ s \in enq /\ s \notin killed /\ conn[s] \in Conn
      /\ Types /\ Entries /\ Conns /\ Programs
      /\ conn[s].flags = {} /\ conn[s].reader = "tcp" /\ conn[s].writer = "default"
      /\ conn[s].entry = NULL /\ conn[s].pid = NULL /\ ~Reads(conn[s]) /\ ~Fills(conn[s])
  BY IdleConn
<1>2. /\ h \in Conn /\ h.flags \in SUBSET {"KEEP"} /\ h.reader = "tcp" /\ h.writer = "default"
      /\ h.entry = NULL /\ h.pid = NULL
  BY <1>1, HeaderConn
<1>3. /\ UNCHANGED <<enq, killed, version, proc>>
      /\ \/ /\ status = "COMPLETE" /\ Changed(e, f)
            /\ ent' = Refreshed(e, f) /\ order' = http_urgent_cache(e, order)
            /\ Readers(e) = {} /\ conn' = [conn EXCEPT ![s] = Filling(h, e, f)]
         \/ /\ status = "COMPLETE" /\ ~Changed(e, f)
            /\ ent' = [ent EXCEPT ![e].usage = @ + 1]
            /\ order' = http_urgent_cache(e, order) /\ conn' = [conn EXCEPT ![s] = n]
         \/ /\ status = "NO"
            /\ \E m \in Entry : http_init_cache(m, f) /\ conn' = [conn EXCEPT ![s] = Filling(h, m, f)]
         \/ /\ \E p \in Plain(h, f) : conn' = [conn EXCEPT ![s] = p]
            /\ order' = IF status = "INCOMPLETE" THEN http_urgent_cache(e, order) ELSE order
            /\ UNCHANGED ent
  BY DEF http_get_response
<1>4. /\ status = "COMPLETE" => InCache(f) /\ ent[e].ready
      /\ status = "INCOMPLETE" => InCache(f)
      /\ status = "NO" => ~InCache(f)
  BY DEF http_check_cache
<1>5. InCache(f) => e \in Range(order) /\ ent[e].file = f
  BY CachedIs
<1> HIDE DEF h, status, e
<1>6. order \in Seq(Entry) /\ Distinct(order) /\ Len(order) \in Nat /\ Len(order) <= http_cache_entries
  BY <1>1 DEF Types
<1>7. Range(order) \subseteq Entry
  BY <1>6, RangeIs
<1>8. InCache(f) => /\ http_urgent_cache(e, order) \in Seq(Entry)
                    /\ Distinct(http_urgent_cache(e, order))
                    /\ Range(http_urgent_cache(e, order)) = Range(order)
                    /\ Len(http_urgent_cache(e, order)) <= http_cache_entries
  BY <1>5, <1>6, Urgent
<1>9. /\ version[f] \in 1..Len(Size) /\ Size[version[f]] \in Nat /\ Size[version[f]] > 0
      /\ Second[version[f]] \in Nat
  BY <1>1, SizeIs
<1>10. \A t \in enq : Reads(conn[t]) \/ Fills(conn[t]) => conn[t].entry \in Range(order)
  BY <1>1 DEF Conns, Role
<1>11. ASSUME status = "COMPLETE", Readers(e) = {}, ent' = Refreshed(e, f),
              order' = http_urgent_cache(e, order), conn' = [conn EXCEPT ![s] = Filling(h, e, f)]
       PROVE  IInv'
  <2>1. e \in Range(order) /\ e \in Entry /\ ent[e].file = f /\ ent[e].ready
    BY <1>4, <1>5, <1>7, <1>11
  <2>2. Unused(e)
    <3>1. ASSUME NEW t \in enq, Fills(conn[t]) PROVE conn[t].entry # e
      BY <1>1, <2>1, <3>1 DEF Conns, Role
    <3> QED
      BY <1>11, <3>1 DEF Unused, Readers, Reads
  <2> DEFINE x == [ent[e] EXCEPT !.ready = FALSE, !.usage = 0, !.buf = <<>>,
                                 !.date = Second[version[f]]]
  <2>3. x \in CacheEntry /\ Blank(x, f) /\ ent' = [ent EXCEPT ![e] = x]
    <3>1. ent[e] \in CacheEntry
      BY <1>1, <2>1 DEF Types
    <3>2. x \in CacheEntry /\ Blank(x, f)
      BY <1>1, <2>1, <3>1, BlankEntry
    <3>3. ent' = [ent EXCEPT ![e] = x]
      BY <1>11 DEF Refreshed
    <3> QED
      BY <3>2, <3>3
  <2> HIDE DEF x
  <2>4. /\ order' \in Seq(Entry) /\ Distinct(order') /\ Len(order') <= http_cache_entries
        /\ Range(order') = Range(order)
    BY <1>4, <1>8, <1>11
  <2>5. \A d \in Range(order') \ {e} : d \in Range(order) /\ ent[d].file # f
    BY <1>1, <2>1, <2>4 DEF Entries
  <2>6. e \in Range(order') /\ \A d \in Range(order) \ Range(order') : Unused(d)
    BY <2>1, <2>4
  <2>7. conn' = [conn EXCEPT ![s] = Filling(h, e, f)] /\ UNCHANGED <<enq, killed, version, proc>>
    BY <1>3, <1>11
  <2>8. e \in Entry /\ order' \in Seq(Entry) /\ Distinct(order') /\ Len(order') <= http_cache_entries
    BY <2>1, <2>4
  <2> QED
    BY <1>1, <1>2, <2>2, <2>3, <2>5, <2>6, <2>7, <2>8, BeginsFilling
<1>12. ASSUME status = "COMPLETE", ~Changed(e, f), ent' = [ent EXCEPT ![e].usage = @ + 1],
              order' = http_urgent_cache(e, order), conn' = [conn EXCEPT ![s] = n]
       PROVE  IInv'
  <2>1. e \in Range(order) /\ e \in Entry /\ ent[e].file = f /\ ent[e].ready
    BY <1>4, <1>5, <1>7, <1>12
  <2>2. /\ ent[e].date \in Nat /\ ent[e].buf \in Seq(Nat) /\ ent[e].date <= Second[version[f]]
        /\ Within(ent[e].buf, ent[e]) /\ ent[e].size = Len(ent[e].buf)
    BY <1>1, <2>1 DEF Types, CacheEntry, Entries, EntryOK
  <2>3. OfSecond(ent[e].buf, version[f])
    <3>1. ent[e].date = Second[version[f]] /\ Len(ent[e].buf) = Size[version[f]]
      BY <1>9, <1>12, <2>2 DEF Changed
    <3>2. ASSUME NEW i \in 1..Len(ent[e].buf) PROVE Second[ent[e].buf[i]] = Second[version[f]]
      <4>1. ent[e].buf[i] \in 1..version[f] /\ Second[version[f]] <= Second[ent[e].buf[i]]
        BY <2>1, <2>2, <3>1 DEF Within
      <4>2. /\ Second[ent[e].buf[i]] \in Nat /\ Second[version[f]] \in Nat
            /\ Second[ent[e].buf[i]] <= Second[version[f]]
        BY <1>9, <4>1, LaterSecond
      <4> QED
        BY <4>1, <4>2
    <3> QED
      BY <3>1, <3>2 DEF OfSecond
  <2>4. SameList
    BY <1>4, <1>8, <1>12 DEF SameList
  <2>5. n \in Conn
    <3> DEFINE w == IF simple THEN "cache" ELSE h.writer
               q == ent[e].buf
               v == version[f]
    <3>1. /\ w \in Writer /\ h.flags \cup {"CACHE"} \in SUBSET Flag /\ q \in Seq(Nat)
          /\ v \in 1..Len(Size)
      BY <1>2, <1>9, <2>2 DEF Writer, Flag
    <3>2. n = [h EXCEPT !.flags = @ \cup {"CACHE"}, !.entry = e, !.buf = q, !.fill = TRUE,
                        !.asked = v, !.writer = w]
      OBVIOUS
    <3> HIDE DEF w, q, v, n
    <3> QED
      BY <1>2, <2>1, <3>1, <3>2 DEF Conn
  <2>6. /\ n.flags = h.flags \cup {"CACHE"} /\ n.entry = e /\ n.buf = ent[e].buf
        /\ n.reader = "tcp" /\ n.pid = NULL /\ n.asked = version[f]
    BY <1>2 DEF Conn
  <2> HIDE DEF n
  <2>7. Reads(n) /\ ~Fills(n)
    BY <2>6 DEF Reads, Fills
  <2>8. Phase(n, s \in killed)
    BY <2>6, <2>7 DEF Phase
  <2>9. Becomes(s, n) /\ s \in enq'
    BY <1>1, <1>3, <1>12, <2>5, <2>8, Stays
  <2>10. Types' /\ Entries' /\ Conns'
    BY <1>1, <1>3, <1>12, <2>1, <2>3, <2>4, <2>5, <2>6, <2>7, <2>9, Hit
  <2>11. Programs'
    BY <1>1, <1>3, <1>12, <2>6, ProgramsKept
  <2> QED
    BY <2>10, <2>11 DEF IInv
<1>13. ASSUME status = "NO", NEW m \in Entry, http_init_cache(m, f),
              conn' = [conn EXCEPT ![s] = Filling(h, m, f)]
       PROVE  IInv'
  <2>1. \A d \in Range(order) : ent[d].file # f
    BY <1>4, <1>13 DEF InCache
  <2> DEFINE y == [NoEntry EXCEPT !.file = f, !.date = Second[version[f]]]
  <2>2. y \in CacheEntry /\ Blank(y, f) /\ ent' = [ent EXCEPT ![m] = y]
    BY <1>1, <1>13, BlankEntry DEF http_init_cache
  <2> HIDE DEF y
  <2>3. CASE /\ Len(order) < http_cache_entries /\ m \notin Range(order)
             /\ order' = <<m>> \o order
    <3>1. /\ order' \in Seq(Entry) /\ Distinct(order')
          /\ Range(order') = Range(order) \cup {m} /\ Len(order') = Len(order) + 1
      BY <1>6, <2>3, Fronted
    <3>2. Len(order') <= http_cache_entries
      BY <1>6, <2>3, <3>1, BoundAssumption
    <3>3. Unused(m)
      BY <1>10, <2>3 DEF Unused
    <3> QED
      BY <1>1, <1>2, <1>3, <1>13, <2>1, <2>2, <3>1, <3>2, <3>3, BeginsFilling
  <2>4. ASSUME NEW x \in Victims, m \notin Range(order) \/ m = x,
               order' = <<m>> \o Destroyed(x, order)
        PROVE  IInv'
    <3> DEFINE o == Destroyed(x, order)
    <3>1. x \in Range(order) /\ Unused(x)
      BY <1>1, VictimUnused DEF Victims
    <3>2. /\ o \in Seq(Entry) /\ Distinct(o) /\ Range(o) = Range(order) \ {x}
          /\ Len(o) = Len(order) - 1
      BY <1>6, <3>1, Removed DEF Destroyed
    <3>3. m \notin Range(o) /\ order' = <<m>> \o o
      BY <2>4, <3>2
    <3> HIDE DEF o
    <3>4. /\ order' \in Seq(Entry) /\ Distinct(order')
          /\ Range(order') = Range(o) \cup {m} /\ Len(order') = Len(o) + 1
      BY <3>2, <3>3, Fronted
    <3>5. Len(order') <= http_cache_entries
      BY <1>6, <3>2, <3>4
    <3>6. Unused(m)
      BY <1>10, <2>4, <3>1 DEF Unused
    <3>7. /\ m \in Range(order')
          /\ \A d \in Range(order') \ {m} : d \in Range(order) /\ ent[d].file # f
          /\ \A d \in Range(order) \ Range(order') : Unused(d)
      BY <2>1, <3>1, <3>2, <3>4
    <3> QED
      BY <1>1, <1>2, <1>3, <1>13, <2>2, <3>4, <3>5, <3>6, <3>7, BeginsFilling
  <2> QED
    BY <1>13, <2>3, <2>4 DEF http_init_cache
<1>14. ASSUME NEW p \in Plain(h, f), conn' = [conn EXCEPT ![s] = p], UNCHANGED ent,
              order' = IF status = "INCOMPLETE" THEN http_urgent_cache(e, order) ELSE order
       PROVE  IInv'
  <2>1. SameList
    BY <1>4, <1>6, <1>8, <1>14 DEF SameList
  <2> DEFINE z == Size[version[f]]
  <2>2. z \in Nat /\ z > 0 /\ <<>> \in Seq(Nat)
    BY <1>9, EmptySeq
  <2>3. \/ p = [h EXCEPT !.reader = "none", !.flags = @ \cup {"SENDFILE"}, !.entry = NULL,
                         !.buf = <<>>, !.file = f, !.left = z]
        \/ p = [h EXCEPT !.reader = "file", !.entry = NULL, !.buf = <<>>, !.file = f,
                         !.left = z]
    BY <1>14 DEF Plain
  <2> HIDE DEF z
  <2>4. h.flags \cup {"SENDFILE"} \in SUBSET Flag
    BY <1>2 DEF Flag
  <2>5. p \in Conn
    <3>1. CASE p = [h EXCEPT !.reader = "none", !.flags = @ \cup {"SENDFILE"}, !.entry = NULL,
                             !.buf = <<>>, !.file = f, !.left = z]
      BY <1>2, <2>2, <2>4, <3>1 DEF Conn, Reader
    <3>2. CASE p = [h EXCEPT !.reader = "file", !.entry = NULL, !.buf = <<>>, !.file = f,
                             !.left = z]
      BY <1>2, <2>2, <3>2 DEF Conn, Reader
    <3> QED
      BY <2>3, <3>1, <3>2
  <2>6. /\ p.flags = h.flags \/ p.flags = h.flags \cup {"SENDFILE"}
        /\ p.reader = "none" \/ p.reader = "file"
        /\ p.entry = NULL /\ p.pid = NULL /\ p.left = z
    BY <1>2, <2>3 DEF Conn
  <2>7. ~Reads(p)
    BY <1>2, <2>6 DEF Reads
  <2> QED
    BY <1>1, <1>3, <1>14, <2>1, <2>2, <2>5, <2>6, <2>7, NoRole
<1> QED
  BY <1>3, <1>11, <1>12, <1>13, <1>14

LEMMA Stephttp_handle_request ==
  ASSUME IInv, NEW s \in Sock, http_handle_request(s), ~Pipelining, ~torn'
  PROVE  IInv'
<1>1. Listening(s)
  BY DEF http_handle_request
<1>2. /\ s \in enq /\ conn[s] \in Conn /\ conn[s].flags = {} /\ conn[s].reader = "tcp"
      /\ conn[s].writer = "default" /\ conn[s].entry = NULL /\ conn[s].pid = NULL
      /\ ~conn[s].fill
  BY <1>1, IdleConn
<1>3. CASE Fail(s)
  BY <1>3, StepFail
<1>4. CASE Complete(s, conn[s])
  <2>1. conn[s].flags \in SUBSET {"KEEP"}
    BY <1>2
  <2> QED
    BY <1>1, <1>2, <1>4, <2>1, StepComplete
<1>5. ASSUME NEW keep \in BOOLEAN, http_head_response(s, keep) PROVE IInv'
  <2> DEFINE h == Header(conn[s], FALSE, keep)
  <2>1. /\ h \in Conn /\ h.flags \in SUBSET {"KEEP"} /\ h.reader = "tcp"
        /\ h.entry = NULL /\ h.pid = NULL
    BY <1>2, HeaderConn
  <2>2. Complete(s, h)
    BY <1>5 DEF http_head_response
  <2> HIDE DEF h
  <2> QED
    BY <1>1, <2>1, <2>2, StepComplete
<1>6. ASSUME NEW p \in Pid, http_cgi_get_response(s, p) PROVE IInv'
  <2> DEFINE b == [conn[s] EXCEPT !.flags = @ \cup {"CGI"}]
             c == [b EXCEPT !.reader = "cgi"]
  <2>1. cgi_exec(s, p, c, b)
    BY <1>6 DEF http_cgi_get_response
  <2>2. /\ b \in Conn /\ b.flags = {"CGI"} /\ b.reader = "tcp" /\ b.entry = NULL
        /\ b.pid = NULL /\ ~b.fill
    BY <1>2 DEF Conn, Flag
  <2> HIDE DEF b
  <2>3. /\ c \in Conn /\ c.flags = {"CGI"} /\ c.reader = "cgi" /\ c.entry = NULL /\ ~c.fill
    BY <2>2 DEF Conn, Reader
  <2> HIDE DEF c
  <2> QED
    BY <1>1, <2>1, <2>2, <2>3, Stepcgi_exec
<1>7. ASSUME NEW p \in Pid, http_post_response(s, p) PROVE IInv'
  <2> DEFINE a == [conn[s] EXCEPT !.post = 1]
             c == [a EXCEPT !.flags = @ \cup {"POST"}, !.writer = "cgi"]
             b == [a EXCEPT !.writer = "default"]
  <2>1. cgi_exec(s, p, c, b)
    BY <1>7 DEF http_post_response
  <2>2. /\ a \in Conn /\ a.flags = {} /\ a.reader = "tcp" /\ a.entry = NULL
        /\ a.pid = NULL /\ ~a.fill
    <3>1. a \in Conn
      <4> DEFINE x == conn[s]
      <4>1. x \in Conn /\ 1 \in Int
        BY <1>2
      <4> HIDE DEF x
      <4>2. [x EXCEPT !.post = 1] \in Conn
        BY <4>1 DEF Conn
      <4> QED
        BY <4>2 DEF x
    <3>2. /\ a.flags = conn[s].flags /\ a.reader = conn[s].reader /\ a.pid = conn[s].pid
          /\ a.entry = conn[s].entry /\ a.fill = conn[s].fill
      BY <1>2 DEF Conn
    <3> QED
      BY <1>2, <3>1, <3>2
  <2> HIDE DEF a
  <2>3. /\ b \in Conn /\ b.flags = {} /\ b.reader = "tcp" /\ b.entry = NULL /\ b.pid = NULL
    BY <2>2 DEF Conn, Writer
  <2>4. /\ c \in Conn /\ c.flags = {"POST"} /\ c.reader = "tcp" /\ c.entry = NULL /\ ~c.fill
    <3>1. a.flags \cup {"POST"} \in SUBSET Flag /\ "cgi" \in Writer
      BY <2>2 DEF Flag, Writer
    <3> QED
      BY <2>2, <3>1 DEF Conn
  <2> HIDE DEF b, c
  <2> QED
    BY <1>1, <2>1, <2>2, <2>3, <2>4, Stepcgi_exec
<1>8. ASSUME NEW f \in File, NEW simple \in Simple, NEW keep \in BOOLEAN, NEW range \in BOOLEAN,
             http_get_response(s, f, simple, keep, range)
      PROVE  IInv'
  <2>1. simple \in BOOLEAN
    BY ChoiceAssumption
  <2> QED
    BY <1>1, <1>8, <2>1, Stephttp_get_response
<1> QED
  BY <1>3, <1>4, <1>5, <1>6, <1>7, <1>8
  DEF http_handle_request, http_error_response, http_default_response, http_dirlist,
      http_find_property, http_get_range, check_cgi

-----------------------------------------------------------------------------
(* The invariant *)

LEMMA InitIInv == Init => IInv
<1> SUFFICES ASSUME Init PROVE IInv
  OBVIOUS
<1>1. /\ enq = {} /\ killed = {} /\ conn = [s \in Sock |-> Fresh] /\ version = [f \in File |-> 1]
      /\ order = <<>> /\ ent = [e \in Entry |-> NoEntry] /\ proc = [p \in Pid |-> "none"]
  BY DEF Init
<1>2. <<>> \in Seq(Entry) /\ Len(<<>>) = 0 /\ Range(order) = {}
  <2>1. <<>> \in Seq(Entry) /\ Len(<<>>) = 0
    OBVIOUS
  <2>2. Range(order) = {order[i] : i \in 1..Len(order)}
    BY <1>1, <2>1, RangeIs
  <2> QED
    BY <1>1, <2>1, <2>2
<1>3. Distinct(order) /\ order \in Seq(Entry) /\ Len(order) <= http_cache_entries
  BY <1>1, <1>2, BoundAssumption DEF Distinct
<1>4. conn \in [Sock -> Conn] /\ ent \in [Entry -> CacheEntry]
  BY <1>1, FreshConn, EmptySeq DEF NoEntry, CacheEntry
<1>5. version \in [File -> 1..Len(Size)]
  BY <1>1, SizeAssumption
<1>6. IsFiniteSet(enq)
  BY <1>1, FS_EmptySet
<1>7. Types
  BY <1>1, <1>3, <1>4, <1>5, <1>6 DEF Types
<1>8. Entries /\ Conns
  BY <1>1, <1>2 DEF Entries, Conns
<1>9. Programs
  BY <1>1 DEF Programs, CgiOwned
<1> QED
  BY <1>7, <1>8, <1>9 DEF IInv

LEMMA StepIInv ==
  ASSUME ~Pipelining, IInv, Next, ~torn'
  PROVE  IInv'
<1>1. ASSUME NEW s \in Sock,
             \/ http_connect_socket(s) \/ http_handle_request(s) \/ http_default_write(s)
             \/ http_cache_write(s) \/ http_send_file(s) \/ http_file_read(s)
             \/ http_cache_read(s) \/ http_cgi_read(s) \/ http_cgi_write(s)
             \/ http_cgi_died(s) \/ http_idle(s) \/ http_disconnect(s) \/ Fail(s)
      PROVE  IInv'
  BY <1>1, Stephttp_connect_socket, Stephttp_handle_request, Stephttp_default_write,
     Stephttp_cache_write, Stephttp_send_file, Stephttp_file_read, Stephttp_cache_read,
     Stephttp_cgi_read, Stephttp_cgi_write, Stephttp_cgi_died, Stephttp_idle,
     Stephttp_disconnect, StepFail
<1>2. ASSUME NEW f \in Mutable, Modify(f) PROVE IInv'
  BY <1>2, StepModify
<1>3. ASSUME NEW p \in Pid, Exit(p) PROVE IInv'
  BY <1>3, StepExit
<1>4. CASE ctrl_kill_cache
  BY <1>4, StepKillCache
<1> QED
  BY <1>1, <1>2, <1>3, <1>4 DEF Next

\* With the tearing of an entry a behaviour ends.
FInv == torn \/ IInv

LEMMA InvariantFInv ==
  ASSUME ~Pipelining
  PROVE  Spec => []FInv
<1>1. Init => FInv
  BY InitIInv DEF FInv
<1>2. FInv /\ [Next]_vars => FInv'
  <2> SUFFICES ASSUME FInv, [Next]_vars PROVE FInv'
    OBVIOUS
  <2>1. CASE Next
    BY <2>1, StepIInv DEF FInv, Next
  <2>2. CASE UNCHANGED vars
    <3>1. UNCHANGED <<enq, killed, conn, version, cacheVars, proc>> /\ torn' = torn
      BY <2>2 DEF vars, cacheVars
    <3>2. IInv => Types' /\ Entries' /\ Conns'
      BY <3>1, CacheStutter DEF IInv
    <3>3. IInv => Programs'
      BY <3>1 DEF IInv, Programs, CgiOwned
    <3> QED
      BY <3>1, <3>2, <3>3 DEF FInv, IInv
  <2> QED
    BY <2>1, <2>2
<1> QED
  BY <1>1, <1>2, PTL DEF Spec

LEMMA SuffixIs ==
  ASSUME NEW b \in Seq(Nat), NEW q \in Seq(Nat), Suffix(b, q)
  PROVE  IsSuffix(b, q)
<1>1. PICK m \in 0..Len(q) : b = SubSeq(q, m + 1, Len(q))
  BY DEF Suffix
<1> DEFINE x == Len(b)
           y == Len(q)
           R == Reverse(b)
           T == Reverse(q)
<1>2. x \in Nat /\ y \in Nat /\ m \in 0..y
  BY <1>1
<1>3. x = y - m
  <2>1. \A i \in (m + 1)..Len(q) : q[i] \in Nat
    BY <1>1
  <2>2. Len(SubSeq(q, m + 1, Len(q))) = IF m + 1 <= Len(q) THEN Len(q) - (m + 1) + 1 ELSE 0
    BY <1>1, <1>2, <2>1, SubSeqProperties
  <2> QED
    BY <1>1, <1>2, <2>2
<1>4. \A i \in 1..x : b[i] = q[m + i]
  BY <1>1, <1>2, <1>3, SubSeqProperties
<1>5. /\ R = [i \in 1..x |-> b[(x - i) + 1]] /\ T = [i \in 1..y |-> q[(y - i) + 1]]
      /\ \A i \in 1..x : b[i] \in Nat
      /\ \A i \in 1..y : q[i] \in Nat
  BY DEF Reverse
<1> HIDE DEF x, y, R, T
<1>6. /\ \A i \in 1..x : (x - i) + 1 \in 1..x /\ m + ((x - i) + 1) = (y - i) + 1 /\ i \in 1..y
      /\ \A i \in 1..y : (y - i) + 1 \in 1..y
      /\ x <= y
  BY <1>2, <1>3
<1>7. R \in [1..x -> Nat] /\ T \in [1..y -> Nat]
  BY <1>5, <1>6
<1>8. R \in Seq(Nat) /\ Len(R) = x /\ T \in Seq(Nat) /\ Len(T) = y
  BY <1>2, <1>7
<1>9. \A i \in 1..x : R[i] = T[i]
  BY <1>4, <1>5, <1>6
<1>10. SubSeq(R, 1, x) = SubSeq(T, 1, x)
  <2> DEFINE u == SubSeq(R, 1, x)
             v == SubSeq(T, 1, x)
  <2>1. u \in Seq(Nat) /\ Len(u) = x /\ \A i \in 1..x : u[i] = R[i]
    BY <1>2, <1>8, SubSeqProperties
  <2>2. v \in Seq(Nat) /\ Len(v) = x /\ \A i \in 1..x : v[i] = T[i]
    BY <1>2, <1>6, <1>8, SubSeqProperties
  <2> HIDE DEF u, v
  <2>3. u = v
    BY <1>9, <2>1, <2>2, SeqEqual
  <2> QED
    BY <2>3 DEF u, v
<1> QED
  BY <1>6, <1>8, <1>10 DEF IsSuffix, IsPrefix, R, T

LEMMA InvCacheOK == FInv => CacheOK
<1> SUFFICES ASSUME IInv, ~torn PROVE CacheOK
  BY DEF FInv, CacheOK
<1>1. Types /\ Entries /\ Conns
  BY DEF IInv
<1>2. TypeOK
  <2>1. \A s \in Sock : conn[s].fill \in BOOLEAN /\ conn[s].left \in Nat
    BY <1>1 DEF Types, Conn
  <2>2. \A e \in Entry : ent[e].usage \in Nat
    BY <1>1 DEF Types, CacheEntry
  <2> QED
    BY <1>1, <2>1, <2>2 DEF TypeOK, Types
<1>3. IsInjective(order) /\ Len(order) <= http_cache_entries
  BY <1>1, RangeIs DEF Types, Distinct, IsInjective
<1>4. \A e, d \in Range(order) : ent[e].file = ent[d].file => e = d
  BY <1>1 DEF Entries
<1>5. ASSUME NEW e \in Entry
      PROVE  /\ Cardinality(Fillers(e)) <= 1
             /\ Fillers(e) # {} => e \in Range(order) /\ ~ent[e].ready
             /\ Readers(e) # {} => e \in Range(order) /\ ent[e].ready
             /\ e \in Range(order) => ent[e].usage = Cardinality(Readers(e))
             /\ \A s \in Readers(e) : IsSuffix(conn[s].buf, ent[e].buf)
  <2>1. \A s \in Fillers(e) : s \in enq /\ Fills(conn[s]) /\ conn[s].entry = e
    BY NullAssumption DEF Fillers, Fills
  <2>2. \A s \in Readers(e) : s \in enq /\ Reads(conn[s]) /\ conn[s].entry = e
    BY DEF Readers, Reads
  <2>3. Cardinality(Fillers(e)) <= 1
    <3>1. CASE Fillers(e) = {}
      BY <3>1, FS_EmptySet
    <3>2. CASE Fillers(e) # {}
      <4>1. PICK s : s \in Fillers(e)
        BY <3>2
      <4>2. Fillers(e) = {s}
        BY <1>1, <2>1, <4>1 DEF Conns
      <4>3. Cardinality({s}) = 1
        BY FS_Singleton
      <4> QED
        BY <4>2, <4>3
    <3> QED
      BY <3>1, <3>2
  <2>4. Fillers(e) # {} => e \in Range(order) /\ ~ent[e].ready
    BY <1>1, <2>1 DEF Conns, Role
  <2>5. Readers(e) # {} => e \in Range(order) /\ ent[e].ready
    BY <1>1, <2>2 DEF Conns, Role
  <2>6. e \in Range(order) => ent[e].usage = Cardinality(Readers(e))
    BY <1>1 DEF Entries, EntryOK
  <2>7. ASSUME NEW s \in Readers(e) PROVE IsSuffix(conn[s].buf, ent[e].buf)
    <3>1. Suffix(conn[s].buf, ent[e].buf)
      BY <1>1, <2>2 DEF Conns, Role
    <3>2. conn[s].buf \in Seq(Nat)
      BY <1>1, <2>2 DEF Types, Conn
    <3>3. ent[e].buf \in Seq(Nat)
      BY <1>1 DEF Types, CacheEntry
    <3> QED
      BY <3>1, <3>2, <3>3, SuffixIs
  <2> QED
    BY <2>3, <2>4, <2>5, <2>6, <2>7
<1> QED
  BY <1>2, <1>3, <1>4, <1>5 DEF CacheOK

LEMMA InvHitFresh == FInv => HitFresh
<1> SUFFICES ASSUME IInv, NEW s \in enq, "CACHE" \in conn[s].flags
             PROVE  LET buf == ent[conn[s].entry].buf
                        v   == conn[s].asked
                    IN  Len(buf) = Size[v] /\ \A i \in DOMAIN buf : Second[buf[i]] = Second[v]
  BY DEF FInv, HitFresh
<1>1. Types /\ Role(conn[s]) /\ Reads(conn[s])
  BY DEF IInv, Conns, Reads
<1>2. OfSecond(ent[conn[s].entry].buf, conn[s].asked) /\ conn[s].entry \in Range(order)
  BY <1>1 DEF Role
<1>3. conn[s].entry \in Entry
  BY <1>1, <1>2, RangeIs DEF Types
<1>4. ent[conn[s].entry].buf \in Seq(Nat)
  BY <1>1, <1>3 DEF Types, CacheEntry
<1> QED
  BY <1>2, <1>4 DEF OfSecond

-----------------------------------------------------------------------------
(* Theorems *)

\* Whatever order the loop calls the callbacks in, wherever connections fail and
\* however files change, the list of entries that http_init_cache,
\* http_urgent_cache and http_cache_destroy_entry keep has no two entries for a file
\* and no more than configured, an entry's usage is the number of connections that
\* send from it, and no buffer that is still sent from is freed or replaced, until
\* http_refresh_cache or "kill cache" takes an entry away from its readers.  Clients
\* wait for the response before they send the next request.
THEOREM CacheOKCorrect ==
  ASSUME ~Pipelining
  PROVE  Spec => []CacheOK
BY InvariantFInv, InvCacheOK, PTL

\* What http_cache_write sends has the length of the file that was there when the
\* request came, and all of it is of the second of that file's st_mtime, however often
\* the file was overwritten while http_cache_read filled the entry, before the request
\* or after it.
THEOREM HitFreshCorrect ==
  ASSUME ~Pipelining
  PROVE  Spec => []HitFresh
BY InvariantFInv, InvHitFresh, PTL

-----------------------------------------------------------------------------
(* CGI programs *)

Fields ==
    {"flags", "reader", "writer", "disc", "fill", "entry", "buf", "file", "left", "pid",
     "post", "asked", "keepalive"}

\* The part of Phase that is about programs.  It is kept whatever happens to the
\* cache and the files, so that these need not be known here: a connection with a
\* program ends with http_cgi_disconnect, and is not ready for the next request.
CgiPhase(c, dead) ==
    c.pid # NULL =>
      /\ c.disc = "cgi"
      /\ dead \/ (("CGI" \in c.flags \/ "POST" \in c.flags) /\ "KEEP" \notin c.flags)

CgiInv ==
    /\ DOMAIN conn = Sock /\ killed \subseteq enq /\ enq \subseteq Sock
    /\ \A s \in Sock : DOMAIN conn[s] = Fields
    /\ \A s \in enq : CgiPhase(conn[s], s \in killed)
    /\ Programs

\* The connection becomes n, and nothing happens to its program.
LEMMA CgiMoves ==
  ASSUME CgiInv, NEW s \in enq, NEW n, conn' = [conn EXCEPT ![s] = n], DOMAIN n = Fields,
         UNCHANGED <<enq, proc>>, killed' = killed \/ killed' = killed \cup {s},
         n.pid = conn[s].pid, CgiPhase(n, s \in killed')
  PROVE  CgiInv'
<1>1. DOMAIN conn' = Sock /\ conn'[s] = n /\ \A t \in Sock : t # s => conn'[t] = conn[t]
  BY DEF CgiInv
<1>2. killed' \subseteq enq' /\ enq' \subseteq Sock
  BY DEF CgiInv
<1>3. \A t \in Sock : DOMAIN conn'[t] = Fields
  BY <1>1 DEF CgiInv
<1>4. ASSUME NEW t \in enq' PROVE CgiPhase(conn'[t], t \in killed')
  <2>1. CASE t = s
    BY <1>1, <2>1
  <2>2. CASE t # s
    <3>1. conn'[t] = conn[t] /\ (t \in killed' <=> t \in killed) /\ t \in enq
      BY <1>1, <1>2, <2>2
    <3> QED
      BY <3>1 DEF CgiInv, CgiPhase
  <2> QED
    BY <2>1, <2>2
<1>5. Programs'
  <2>1. \A t \in enq : conn'[t].pid = conn[t].pid
    BY <1>1 DEF CgiInv
  <2> QED
    BY <2>1 DEF CgiInv, Programs, CgiOwned
<1> QED
  BY <1>1, <1>2, <1>3, <1>4, <1>5 DEF CgiInv

LEMMA CgiKills ==
  ASSUME CgiInv, NEW s \in enq, NEW d, Kill(s, d), UNCHANGED <<enq, proc>>,
         d.pid = conn[s].pid, d.disc = conn[s].disc
  PROVE  CgiInv'
<1>1. conn' = [conn EXCEPT ![s] = Killed(d)] /\ killed' = killed \cup {s}
  BY DEF Kill, Killed
<1>2. DOMAIN Killed(d) = Fields /\ Killed(d).pid = d.pid /\ Killed(d).disc = d.disc
  BY DEF Killed, Fresh, Fields
<1>3. CgiPhase(conn[s], s \in killed)
  BY DEF CgiInv
<1>4. CgiPhase(Killed(d), s \in killed')
  BY <1>1, <1>2, <1>3 DEF CgiPhase
<1> QED
  BY <1>1, <1>2, <1>4, CgiMoves

LEMMA CgiKeepAlive ==
  ASSUME CgiInv, NEW s \in enq, s \notin killed, NEW d, http_keep_alive(s, d),
         UNCHANGED <<enq, proc>>,
         d.pid = conn[s].pid, d.disc = conn[s].disc, d.flags = conn[s].flags
  PROVE  CgiInv'
<1>1. CASE "KEEP" \notin d.flags
  BY <1>1, CgiKills DEF http_keep_alive
<1>2. CASE "KEEP" \in d.flags
  <2> DEFINE n == [Fresh EXCEPT !.disc = d.disc, !.pid = d.pid, !.keepalive = d.keepalive]
  <2>1. conn' = [conn EXCEPT ![s] = n] /\ killed' = killed
    BY <1>2 DEF http_keep_alive
  <2>2. DOMAIN n = Fields /\ n.pid = d.pid
    BY DEF Fresh, Fields
  <2>3. CgiPhase(conn[s], s \in killed)
    BY DEF CgiInv
  <2>4. d.pid = NULL
    BY <1>2, <2>3 DEF CgiPhase
  <2> HIDE DEF n
  <2>5. CgiPhase(n, s \in killed')
    BY <2>2, <2>4 DEF CgiPhase
  <2> QED
    BY <2>1, <2>2, <2>5, CgiMoves
<1> QED
  BY <1>1, <1>2

\* A step of a response that goes on: the flags that tell of a program stay.
LEMMA CgiGoesOn ==
  ASSUME CgiInv, NEW s \in enq, NEW n, conn' = [conn EXCEPT ![s] = n], DOMAIN n = Fields,
         UNCHANGED <<enq, killed, proc>>, n.pid = conn[s].pid, n.disc = conn[s].disc,
         "CGI" \in conn[s].flags \/ "POST" \in conn[s].flags
             => "CGI" \in n.flags \/ "POST" \in n.flags,
         "KEEP" \in n.flags => "KEEP" \in conn[s].flags
  PROVE  CgiInv'
<1>1. CgiPhase(conn[s], s \in killed)
  BY DEF CgiInv
<1>2. CgiPhase(n, s \in killed')
  BY <1>1 DEF CgiPhase
<1> QED
  BY <1>2, CgiMoves

\* The callbacks that write.
LEMMA CgiWrites ==
  ASSUME CgiInv, NEW s \in Sock,
         \/ http_default_write(s) \/ http_cache_write(s) \/ http_send_file(s)
         \/ http_cgi_write(s)
  PROVE  CgiInv'
<1>1. DOMAIN conn[s] = Fields
  BY DEF CgiInv
<1>2. CASE http_default_write(s)
  <2> DEFINE d == [conn[s] EXCEPT !.fill = FALSE]
             n == NextWriter(d)
  <2>1. /\ s \in enq /\ s \notin killed /\ UNCHANGED <<enq, proc>>
        /\ IF "DONE" \in conn[s].flags THEN http_keep_alive(s, d)
           ELSE conn' = [conn EXCEPT ![s] = n] /\ UNCHANGED <<killed, ent>>
    BY <1>2 DEF http_default_write
  <2>2. /\ DOMAIN d = Fields /\ d.pid = conn[s].pid /\ d.disc = conn[s].disc
        /\ d.flags = conn[s].flags
    BY <1>1 DEF Fields
  <2> HIDE DEF d
  <2>3. DOMAIN n = Fields /\ n.pid = d.pid /\ n.disc = d.disc /\ n.flags = d.flags
    BY <2>2 DEF NextWriter, Fields
  <2> HIDE DEF n
  <2>4. CASE "DONE" \in conn[s].flags
    BY <2>1, <2>2, <2>4, CgiKeepAlive
  <2>5. CASE "DONE" \notin conn[s].flags
    BY <2>1, <2>2, <2>3, <2>5, CgiGoesOn
  <2> QED
    BY <2>4, <2>5
<1>3. CASE http_cache_write(s)
  <2>1. s \in enq /\ s \notin killed /\ UNCHANGED <<enq, proc>>
    BY <1>3 DEF http_cache_write
  <2>2. PICK k \in 1..Len(conn[s].buf) :
           LET d == [conn[s] EXCEPT !.buf = SubSeq(@, k + 1, Len(@))]
           IN  IF d.buf = <<>> THEN http_keep_alive(s, d)
               ELSE conn' = [conn EXCEPT ![s] = d] /\ UNCHANGED <<killed, ent>>
    BY <1>3 DEF http_cache_write
  <2> DEFINE b == SubSeq(conn[s].buf, k + 1, Len(conn[s].buf))
  <2> HIDE DEF b
  <2> DEFINE d == [conn[s] EXCEPT !.buf = b]
  <2>3. IF d.buf = <<>> THEN http_keep_alive(s, d)
        ELSE conn' = [conn EXCEPT ![s] = d] /\ UNCHANGED <<killed, ent>>
    BY <2>2 DEF b
  <2>4. /\ DOMAIN d = Fields /\ d.pid = conn[s].pid /\ d.disc = conn[s].disc
        /\ d.flags = conn[s].flags
    BY <1>1 DEF Fields
  <2> HIDE DEF d
  <2>5. CASE d.buf = <<>>
    BY <2>1, <2>3, <2>4, <2>5, CgiKeepAlive
  <2>6. CASE d.buf # <<>>
    BY <2>1, <2>3, <2>4, <2>6, CgiGoesOn
  <2> QED
    BY <2>5, <2>6
<1>4. CASE http_send_file(s)
  <2> DEFINE d == [conn[s] EXCEPT !.left = @ - 1]
  <2>1. s \in enq /\ s \notin killed /\ UNCHANGED <<enq, proc>>
    BY <1>4 DEF http_send_file
  <2>2. \/ conn' = [conn EXCEPT ![s] = d] /\ UNCHANGED <<killed, ent>>
        \/ http_keep_alive(s, d)
        \/ Kill(s, conn[s])
    BY <1>4 DEF http_send_file
  <2>3. /\ DOMAIN d = Fields /\ d.pid = conn[s].pid /\ d.disc = conn[s].disc
        /\ d.flags = conn[s].flags
    BY <1>1 DEF Fields
  <2> HIDE DEF d
  <2>4. CASE conn' = [conn EXCEPT ![s] = d] /\ UNCHANGED <<killed, ent>>
    BY <2>1, <2>3, <2>4, CgiGoesOn
  <2>5. CASE http_keep_alive(s, d)
    BY <2>1, <2>3, <2>5, CgiKeepAlive
  <2>6. CASE Kill(s, conn[s])
    BY <2>1, <2>6, CgiKills
  <2> QED
    BY <2>2, <2>4, <2>5, <2>6
<1>5. CASE http_cgi_write(s)
  <2> DEFINE d == [conn[s] EXCEPT !.post = @ - 1]
             n == IF d.post > 0 THEN d
                  ELSE [d EXCEPT !.flags = (@ \ {"POST"}) \cup {"CGI"}, !.reader = "cgi",
                                 !.writer = "default"]
  <2>1. s \in enq /\ UNCHANGED <<enq, killed, proc>> /\ conn' = [conn EXCEPT ![s] = n]
    BY <1>5 DEF http_cgi_write
  <2>2. /\ DOMAIN d = Fields /\ d.pid = conn[s].pid /\ d.disc = conn[s].disc
        /\ d.flags = conn[s].flags
    BY <1>1 DEF Fields
  <2> HIDE DEF d
  <2>3. /\ DOMAIN n = Fields /\ n.pid = d.pid /\ n.disc = d.disc
        /\ n.flags = d.flags \/ n.flags = (d.flags \ {"POST"}) \cup {"CGI"}
    BY <2>2 DEF Fields
  <2> HIDE DEF n
  <2> QED
    BY <2>1, <2>2, <2>3, CgiGoesOn
<1> QED
  BY <1>2, <1>3, <1>4, <1>5

\* The callbacks that read.
LEMMA CgiReads ==
  ASSUME CgiInv, NEW s \in Sock, http_file_read(s) \/ http_cache_read(s) \/ http_cgi_read(s)
  PROVE  CgiInv'
<1>1. DOMAIN conn[s] = Fields
  BY DEF CgiInv
<1>2. CASE http_file_read(s)
  <2> DEFINE d == [conn[s] EXCEPT !.fill = TRUE, !.left = @ - 1]
             n == ReadDone(d)
  <2>1. s \in enq /\ UNCHANGED <<enq, proc>>
    BY <1>2 DEF http_file_read
  <2>2. (conn' = [conn EXCEPT ![s] = n] /\ UNCHANGED killed) \/ Kill(s, conn[s])
    BY <1>2 DEF http_file_read
  <2>3. /\ DOMAIN d = Fields /\ d.pid = conn[s].pid /\ d.disc = conn[s].disc
        /\ d.flags = conn[s].flags
    BY <1>1 DEF Fields
  <2> HIDE DEF d
  <2>4. /\ DOMAIN n = Fields /\ n.pid = d.pid /\ n.disc = d.disc
        /\ n.flags = d.flags \/ n.flags = d.flags \cup {"DONE"}
    BY <2>3 DEF ReadDone, Fields
  <2> HIDE DEF n
  <2>5. CASE conn' = [conn EXCEPT ![s] = n] /\ UNCHANGED killed
    BY <2>1, <2>3, <2>4, <2>5, CgiGoesOn
  <2>6. CASE Kill(s, conn[s])
    BY <2>1, <2>6, CgiKills
  <2> QED
    BY <2>2, <2>5, <2>6
<1>3. CASE http_cache_read(s)
  <2> DEFINE c == conn[s]
             b == Append(c.buf, version[c.file])
  <2> HIDE DEF b
  <2> DEFINE d == [c EXCEPT !.fill = TRUE, !.left = @ - 1, !.buf = b]
             r == ReadDone(Reset(d))
             n == IF d.left > 0 THEN d ELSE r
             k == IF c.buf # <<>> THEN Reset(c) ELSE c
  <2>1. s \in enq /\ UNCHANGED <<enq, proc>>
    BY <1>3 DEF http_cache_read
  <2>2. \/ conn' = [conn EXCEPT ![s] = n] /\ UNCHANGED killed
        \/ Kill(s, Reset(c))
        \/ Kill(s, k)
    BY <1>3 DEF http_cache_read, b
  <2>3. /\ DOMAIN d = Fields /\ d.pid = c.pid /\ d.disc = c.disc /\ d.flags = c.flags
    BY <1>1 DEF Fields
  <2>4. /\ Reset(c).pid = c.pid /\ Reset(c).disc = c.disc /\ k.pid = c.pid /\ k.disc = c.disc
    BY <1>1 DEF Reset, Fields
  <2> HIDE DEF d, k
  <2>5. /\ DOMAIN r = Fields /\ r.pid = d.pid /\ r.disc = d.disc
        /\ r.flags = d.flags \/ r.flags = d.flags \cup {"DONE"}
    BY <2>3 DEF ReadDone, Reset, Fields
  <2> HIDE DEF r
  <2>6. /\ DOMAIN n = Fields /\ n.pid = c.pid /\ n.disc = c.disc
        /\ n.flags = c.flags \/ n.flags = c.flags \cup {"DONE"}
    BY <2>3, <2>5
  <2> HIDE DEF n
  <2>7. CASE conn' = [conn EXCEPT ![s] = n] /\ UNCHANGED killed
    BY <2>1, <2>6, <2>7, CgiGoesOn
  <2>8. CASE Kill(s, Reset(c)) \/ Kill(s, k)
    BY <2>1, <2>4, <2>8, CgiKills
  <2> QED
    BY <2>2, <2>7, <2>8
<1>4. CASE http_cgi_read(s)
  <2> DEFINE n == [conn[s] EXCEPT !.fill = TRUE]
             m == [conn[s] EXCEPT !.flags = @ \cup {"DONE"}]
  <2>1. s \in enq /\ UNCHANGED <<enq, proc>>
    BY <1>4 DEF http_cgi_read
  <2>2. \/ conn' = [conn EXCEPT ![s] = n] /\ UNCHANGED killed
        \/ conn' = [conn EXCEPT ![s] = m] /\ UNCHANGED killed
        \/ Kill(s, conn[s])
    BY <1>4 DEF http_cgi_read
  <2>3. /\ DOMAIN n = Fields /\ n.pid = conn[s].pid /\ n.disc = conn[s].disc
        /\ n.flags = conn[s].flags
    BY <1>1 DEF Fields
  <2>4. /\ DOMAIN m = Fields /\ m.pid = conn[s].pid /\ m.disc = conn[s].disc
        /\ m.flags = conn[s].flags \cup {"DONE"}
    BY <1>1 DEF Fields
  <2> HIDE DEF n, m
  <2>5. CASE conn' = [conn EXCEPT ![s] = n] /\ UNCHANGED killed
    BY <2>1, <2>3, <2>5, CgiGoesOn
  <2>6. CASE conn' = [conn EXCEPT ![s] = m] /\ UNCHANGED killed
    BY <2>1, <2>4, <2>6, CgiGoesOn
  <2>7. CASE Kill(s, conn[s])
    BY <2>1, <2>7, CgiKills
  <2> QED
    BY <2>2, <2>5, <2>6, <2>7
<1> QED
  BY <1>2, <1>3, <1>4

\* A connection that waits for a request has no program.
LEMMA CgiIdle ==
  ASSUME CgiInv, NEW s \in Sock, Listening(s), ~Pipelining
  PROVE  /\ s \in enq /\ s \notin killed /\ conn[s].pid = NULL /\ conn[s].flags = {}
         /\ DOMAIN conn[s] = Fields /\ ~conn[s].fill
<1>1. s \in enq /\ s \notin killed /\ conn[s].flags = {} /\ ~conn[s].fill
  BY DEF Listening, Idle
<1>2. CgiPhase(conn[s], s \in killed)
  BY <1>1 DEF CgiInv
<1> QED
  BY <1>1, <1>2 DEF CgiPhase, CgiInv

\* A request that starts no program.
LEMMA CgiQuiet ==
  ASSUME CgiInv, NEW s \in enq, conn[s].pid = NULL, NEW n, conn' = [conn EXCEPT ![s] = n],
         DOMAIN n = Fields, n.pid = NULL, UNCHANGED <<enq, killed, proc>>
  PROVE  CgiInv'
<1>1. CgiPhase(n, s \in killed')
  BY DEF CgiPhase
<1> QED
  BY <1>1, CgiMoves

LEMMA CgiHeader ==
  ASSUME NEW c, DOMAIN c = Fields, c.pid = NULL, NEW simple, NEW keep
  PROVE  DOMAIN Header(c, simple, keep) = Fields /\ Header(c, simple, keep).pid = NULL
BY DEF Header, Fields

LEMMA CgiComplete ==
  ASSUME CgiInv, NEW s \in enq, conn[s].pid = NULL, NEW c, DOMAIN c = Fields, c.pid = NULL,
         Complete(s, c)
  PROVE  CgiInv'
<1> DEFINE n == [c EXCEPT !.flags = @ \cup {"DONE"}, !.fill = TRUE]
<1>1. conn' = [conn EXCEPT ![s] = n] /\ UNCHANGED <<enq, killed, proc>>
  BY DEF Complete
<1>2. DOMAIN n = Fields /\ n.pid = NULL
  BY DEF Fields
<1> HIDE DEF n
<1> QED
  BY <1>1, <1>2, CgiQuiet

LEMMA CgiGet ==
  ASSUME CgiInv, NEW s \in Sock, Listening(s), ~Pipelining, NEW f \in File,
         NEW simple, NEW keep, NEW range, http_get_response(s, f, simple, keep, range)
  PROVE  CgiInv'
<1> DEFINE c == Header(conn[s], simple, keep)
           e == Cached(f)
<1>1. s \in enq /\ conn[s].pid = NULL /\ DOMAIN conn[s] = Fields
  BY CgiIdle
<1>2. DOMAIN c = Fields /\ c.pid = NULL
  BY <1>1, CgiHeader
<1> HIDE DEF c, e
<1>3. UNCHANGED <<enq, killed, proc>>
  BY DEF http_get_response
<1> DEFINE hit == [c EXCEPT !.flags = @ \cup {"CACHE"}, !.entry = e, !.buf = ent[e].buf,
                            !.fill = TRUE, !.asked = version[f],
                            !.writer = IF simple THEN "cache" ELSE @]
<1>4. \/ \E x : conn' = [conn EXCEPT ![s] = Filling(c, x, f)]
      \/ conn' = [conn EXCEPT ![s] = hit]
      \/ \E x \in Plain(c, f) : conn' = [conn EXCEPT ![s] = x]
  BY Zenon DEF http_get_response, c, e
<1>5. ASSUME NEW x, conn' = [conn EXCEPT ![s] = Filling(c, x, f)] PROVE CgiInv'
  <2>1. DOMAIN Filling(c, x, f) = Fields /\ Filling(c, x, f).pid = NULL
    BY <1>2 DEF Filling, Fields
  <2> QED
    BY <1>1, <1>3, <1>5, <2>1, CgiQuiet
<1>6. CASE conn' = [conn EXCEPT ![s] = hit]
  <2>1. DOMAIN hit = Fields /\ hit.pid = NULL
    BY <1>2 DEF Fields
  <2> HIDE DEF hit
  <2> QED
    BY <1>1, <1>3, <1>6, <2>1, CgiQuiet
<1>7. ASSUME NEW x \in Plain(c, f), conn' = [conn EXCEPT ![s] = x] PROVE CgiInv'
  <2>1. DOMAIN x = Fields /\ x.pid = NULL
    BY <1>2 DEF Plain, Fields
  <2> QED
    BY <1>1, <1>3, <1>7, <2>1, CgiQuiet
<1> QED
  BY <1>4, <1>5, <1>6, <1>7

\* The program p is forked for the connection, which becomes c with it and can take
\* the header at once, or nothing is forked.
LEMMA CgiExec ==
  ASSUME CgiInv, NEW s \in enq, conn[s].pid = NULL, NEW p \in Pid, NEW c, NEW bad,
         cgi_exec(s, p, c, bad), ~c.fill,
         DOMAIN c = Fields, c.flags = {"CGI"} \/ c.flags = {"POST"},
         DOMAIN bad = Fields, bad.pid = NULL
  PROVE  CgiInv'
<1> DEFINE n == [c EXCEPT !.fill = TRUE, !.disc = "cgi", !.pid = p]
           m == [bad EXCEPT !.fill = TRUE, !.disc = "cgi", !.flags = @ \cup {"DONE"}]
<1>0. /\ UNCHANGED <<enq, killed>>
      /\ \/ /\ proc[p] = "none" /\ proc' = [proc EXCEPT ![p] = "run"]
            /\ conn' = [conn EXCEPT ![s] = n]
         \/ conn' = [conn EXCEPT ![s] = m] /\ UNCHANGED proc
  BY DEF cgi_exec, http_cgi_accepted
<1>1. CASE conn' = [conn EXCEPT ![s] = m] /\ UNCHANGED proc
  <2>1. DOMAIN m = Fields /\ m.pid = NULL
    BY DEF Fields
  <2> HIDE DEF m
  <2> QED
    BY <1>0, <1>1, <2>1, CgiQuiet
<1>2. CASE /\ proc[p] = "none" /\ proc' = [proc EXCEPT ![p] = "run"]
           /\ conn' = [conn EXCEPT ![s] = n]
  <2>1. DOMAIN n = Fields /\ n.pid = p /\ n.disc = "cgi" /\ n.flags = c.flags
    BY DEF Fields
  <2> HIDE DEF n
  <2>2. DOMAIN conn' = Sock /\ conn'[s] = n /\ \A t \in Sock : t # s => conn'[t] = conn[t]
    BY <1>2 DEF CgiInv
  <2>3. \A t \in Sock : DOMAIN conn'[t] = Fields
    BY <2>1, <2>2 DEF CgiInv
  <2>4. ASSUME NEW t \in enq' PROVE CgiPhase(conn'[t], t \in killed')
    <3>1. CASE t = s
      BY <2>1, <2>2, <3>1 DEF CgiPhase
    <3>2. CASE t # s
      BY <1>0, <2>2, <3>2 DEF CgiInv
    <3> QED
      BY <3>1, <3>2
  <2>5. proc' \in [Pid -> {"none", "run", "dead"}]
    BY <1>2 DEF CgiInv, Programs
  <2>6. ASSUME NEW q \in Pid, proc'[q] # "none" PROVE \E t \in enq' : conn'[t].pid = q
    <3>1. CASE q = p
      BY <1>0, <2>1, <2>2, <3>1
    <3>2. CASE q # p
      <4>1. proc[q] # "none"
        BY <1>2, <2>6, <3>2 DEF CgiInv, Programs
      <4>2. PICK t \in enq : conn[t].pid = q
        BY <4>1 DEF CgiInv, Programs, CgiOwned
      <4>3. t # s /\ t \in Sock
        BY <4>2, NullAssumption DEF CgiInv
      <4> QED
        BY <1>0, <2>2, <4>2, <4>3
    <3> QED
      BY <3>1, <3>2
  <2>7. Programs'
    BY <2>5, <2>6 DEF Programs, CgiOwned
  <2> QED
    BY <1>0, <2>2, <2>3, <2>4, <2>7 DEF CgiInv
<1> QED
  BY <1>0, <1>1, <1>2

LEMMA CgiRequests ==
  ASSUME CgiInv, NEW s \in Sock, http_handle_request(s), ~Pipelining
  PROVE  CgiInv'
<1>1. /\ Listening(s) /\ s \in enq /\ conn[s].pid = NULL /\ conn[s].flags = {}
      /\ DOMAIN conn[s] = Fields /\ ~conn[s].fill
  BY CgiIdle DEF http_handle_request
<1>2. CASE Fail(s)
  BY <1>1, <1>2, CgiKills DEF Fail
<1>3. CASE Complete(s, conn[s])
  BY <1>1, <1>3, CgiComplete
<1>4. ASSUME NEW keep, http_head_response(s, keep) PROVE CgiInv'
  <2>1. DOMAIN Header(conn[s], FALSE, keep) = Fields /\ Header(conn[s], FALSE, keep).pid = NULL
    BY <1>1, CgiHeader
  <2> QED
    BY <1>1, <1>4, <2>1, CgiComplete DEF http_head_response
<1>5. ASSUME NEW p \in Pid, http_cgi_get_response(s, p) PROVE CgiInv'
  <2> DEFINE b == [conn[s] EXCEPT !.flags = @ \cup {"CGI"}]
             c == [b EXCEPT !.reader = "cgi"]
  <2>1. DOMAIN b = Fields /\ b.flags = {"CGI"} /\ b.pid = NULL /\ ~b.fill
    BY <1>1 DEF Fields
  <2>2. cgi_exec(s, p, c, b)
    BY <1>5 DEF http_cgi_get_response
  <2> HIDE DEF b
  <2>3. DOMAIN c = Fields /\ c.flags = {"CGI"} /\ ~c.fill
    BY <2>1 DEF Fields
  <2> HIDE DEF c
  <2> QED
    BY <1>1, <2>1, <2>2, <2>3, CgiExec
<1>6. ASSUME NEW p \in Pid, http_post_response(s, p) PROVE CgiInv'
  <2> DEFINE a == [conn[s] EXCEPT !.post = 1]
             c == [a EXCEPT !.flags = @ \cup {"POST"}, !.writer = "cgi"]
             b == [a EXCEPT !.writer = "default"]
  <2>1. DOMAIN a = Fields /\ a.flags = {} /\ a.pid = NULL /\ ~a.fill
    BY <1>1 DEF Fields
  <2>2. cgi_exec(s, p, c, b)
    BY <1>6 DEF http_post_response
  <2> HIDE DEF a
  <2>3. /\ DOMAIN c = Fields /\ c.flags = {"POST"} /\ ~c.fill
        /\ DOMAIN b = Fields /\ b.pid = NULL
    BY <2>1 DEF Fields
  <2> HIDE DEF b, c
  <2> QED
    BY <1>1, <2>2, <2>3, CgiExec
<1>7. ASSUME NEW f \in File, NEW simple, NEW keep, NEW range,
             http_get_response(s, f, simple, keep, range)
      PROVE  CgiInv'
  BY <1>1, <1>7, CgiGet
<1>8. \/ Fail(s) \/ Complete(s, conn[s])
      \/ \E keep : http_head_response(s, keep)
      \/ \E p \in Pid : http_cgi_get_response(s, p) \/ http_post_response(s, p)
      \/ \E f \in File : \E simple, keep, range : http_get_response(s, f, simple, keep, range)
  BY Zenon DEF http_handle_request, http_error_response, http_default_response, http_dirlist
<1> QED
  BY <1>2, <1>3, <1>4, <1>5, <1>6, <1>7, <1>8

\* A connection begins or is freed, a program is waited for or ends, a file changes.
LEMMA CgiEnds ==
  ASSUME CgiInv, NEW s \in Sock,
         http_connect_socket(s) \/ http_disconnect(s) \/ http_cgi_died(s)
  PROVE  CgiInv'
<1>1. DOMAIN Fresh = Fields /\ Fresh.pid = NULL
  BY DEF Fresh, Fields
<1>2. CASE http_connect_socket(s)
  <2>1. /\ s \notin enq /\ enq' = enq \cup {s} /\ conn' = [conn EXCEPT ![s] = Fresh]
        /\ UNCHANGED <<killed, proc>>
    BY <1>2 DEF http_connect_socket
  <2>2. DOMAIN conn' = Sock /\ conn'[s] = Fresh /\ \A t \in Sock : t # s => conn'[t] = conn[t]
    BY <2>1 DEF CgiInv
  <2>3. \A t \in enq' : CgiPhase(conn'[t], t \in killed')
    BY <1>1, <2>1, <2>2 DEF CgiInv, CgiPhase
  <2>4. Programs'
    BY <2>1, <2>2 DEF CgiInv, Programs, CgiOwned
  <2> QED
    BY <1>1, <2>1, <2>2, <2>3, <2>4 DEF CgiInv
<1>3. CASE http_disconnect(s)
  <2>1. /\ s \in killed /\ enq' = enq \ {s} /\ killed' = killed \ {s}
        /\ conn' = [conn EXCEPT ![s] = Fresh]
        /\ IF conn[s].disc = "cgi" THEN Terminated(conn[s].pid) ELSE UNCHANGED proc
    BY <1>3 DEF http_disconnect
  <2>2. DOMAIN conn' = Sock /\ conn'[s] = Fresh /\ \A t \in Sock : t # s => conn'[t] = conn[t]
    BY <2>1 DEF CgiInv
  <2>3. \A t \in enq' : CgiPhase(conn'[t], t \in killed')
    BY <2>1, <2>2 DEF CgiInv, CgiPhase
  <2>4. CgiPhase(conn[s], s \in killed)
    BY <2>1 DEF CgiInv
  <2>5. proc' \in [Pid -> {"none", "run", "dead"}]
    BY <2>1 DEF CgiInv, Programs, Terminated
  <2>6. ASSUME NEW q \in Pid, proc'[q] # "none" PROVE \E t \in enq' : conn'[t].pid = q
    <3>1. proc[q] # "none" /\ (conn[s].disc = "cgi" => q # conn[s].pid)
      BY <2>1, <2>6 DEF Terminated
    <3>2. PICK t \in enq : conn[t].pid = q
      BY <3>1 DEF CgiInv, Programs, CgiOwned
    <3>3. t # s /\ t \in Sock
      BY <2>4, <3>1, <3>2, NullAssumption DEF CgiInv, CgiPhase
    <3> QED
      BY <2>1, <2>2, <3>2, <3>3
  <2>7. Programs'
    BY <2>5, <2>6 DEF Programs, CgiOwned
  <2> QED
    BY <1>1, <2>1, <2>2, <2>3, <2>7 DEF CgiInv
<1>4. CASE http_cgi_died(s)
  <2> DEFINE n == [conn[s] EXCEPT !.pid = NULL]
  <2>1. /\ s \in enq /\ UNCHANGED <<enq, killed>> /\ conn' = [conn EXCEPT ![s] = n]
        /\ conn[s].pid # NULL /\ proc' = [proc EXCEPT ![conn[s].pid] = "none"]
    BY <1>4 DEF http_cgi_died
  <2>2. DOMAIN n = Fields /\ n.pid = NULL
    BY DEF CgiInv, Fields
  <2> HIDE DEF n
  <2>3. DOMAIN conn' = Sock /\ conn'[s] = n /\ \A t \in Sock : t # s => conn'[t] = conn[t]
    BY <2>1 DEF CgiInv
  <2>4. \A t \in enq' : CgiPhase(conn'[t], t \in killed')
    BY <2>1, <2>2, <2>3 DEF CgiInv, CgiPhase
  <2>5. proc' \in [Pid -> {"none", "run", "dead"}]
    BY <2>1 DEF CgiInv, Programs
  <2>6. ASSUME NEW q \in Pid, proc'[q] # "none" PROVE \E t \in enq' : conn'[t].pid = q
    <3>1. q # conn[s].pid /\ proc[q] # "none"
      BY <2>1, <2>6 DEF CgiInv, Programs
    <3>2. PICK t \in enq : conn[t].pid = q
      BY <3>1 DEF CgiInv, Programs, CgiOwned
    <3>3. t # s /\ t \in Sock
      BY <3>1, <3>2 DEF CgiInv
    <3> QED
      BY <2>1, <2>3, <3>2, <3>3
  <2>7. Programs'
    BY <2>5, <2>6 DEF Programs, CgiOwned
  <2> QED
    BY <2>1, <2>2, <2>3, <2>4, <2>7 DEF CgiInv
<1> QED
  BY <1>2, <1>3, <1>4

LEMMA CgiStep ==
  ASSUME ~Pipelining
  PROVE  CgiInv /\ [Next]_vars => CgiInv'
<1> SUFFICES ASSUME CgiInv, [Next]_vars PROVE CgiInv'
  OBVIOUS
<1>1. ASSUME UNCHANGED <<enq, killed, conn>>, proc' \in [Pid -> {"none", "run", "dead"}],
             \A p \in Pid : proc'[p] # "none" => proc[p] # "none"
      PROVE  CgiInv'
  BY <1>1 DEF CgiInv, CgiPhase, Programs, CgiOwned
<1>2. CASE UNCHANGED vars
  BY <1>1, <1>2 DEF vars, CgiInv, Programs
<1>3. ASSUME NEW s \in Sock,
             \/ http_connect_socket(s) \/ http_handle_request(s) \/ http_default_write(s)
             \/ http_cache_write(s) \/ http_send_file(s) \/ http_file_read(s)
             \/ http_cache_read(s) \/ http_cgi_read(s) \/ http_cgi_write(s)
             \/ http_cgi_died(s) \/ http_idle(s) \/ http_disconnect(s) \/ Fail(s)
      PROVE  CgiInv'
  <2>1. CASE Fail(s)
    BY <2>1, CgiKills DEF Fail
  <2> QED
    BY <1>3, <2>1, CgiRequests, CgiWrites, CgiReads, CgiEnds DEF http_idle
<1>4. ASSUME NEW f \in Mutable, Modify(f) PROVE CgiInv'
  BY <1>1, <1>4 DEF Modify, CgiInv, Programs
<1>5. ASSUME NEW p \in Pid, Exit(p) PROVE CgiInv'
  BY <1>1, <1>5 DEF Exit, CgiInv, Programs
<1>6. CASE ctrl_kill_cache
  BY <1>1, <1>6 DEF ctrl_kill_cache, CgiInv, Programs
<1> QED
  BY <1>2, <1>3, <1>4, <1>5, <1>6 DEF Next

\* A CGI program is waited for: by http_cgi_died of its connection, or by
\* http_cgi_disconnect when the connection ends first; also when the fork fails, and
\* whatever happens to the files and to the cache.  Clients wait for the response: if
\* they do not, http_cgi_accepted can fail after the fork, and nobody knows the program.
THEOREM CgiOwnedCorrect ==
  ASSUME ~Pipelining
  PROVE  Spec => []CgiOwned
<1>1. Init => CgiInv
  BY DEF Init, CgiInv, Fresh, Fields, Programs, CgiOwned
<1>2. CgiInv /\ [Next]_vars => CgiInv'
  BY CgiStep
<1>3. CgiInv => CgiOwned
  BY DEF CgiInv, Programs
<1> QED
  BY <1>1, <1>2, <1>3, PTL DEF Spec

=============================================================================
