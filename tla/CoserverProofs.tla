--------------------------- MODULE CoserverProofs ---------------------------
(***************************************************************************)
(* BusyExact and CallbackKnown for any number of coservers, sockets and    *)
(* requests, and any sizes of the buffers.  A line never exists twice: an  *)
(* id that has a callback is in at most one place of one of the three      *)
(* queues of one socket (QueueInv, CallbackInv), so that taking one        *)
(* callback out of the hash cannot make another line's callback unknown.   *)
(* A coserver's socket is its own and in the list (SockInv), so that a     *)
(* line that is added to or taken from its queues is counted by its own    *)
(* counter (BusyInv).                                                      *)
(***************************************************************************)
EXTENDS Coserver, SequenceTheorems, NaturalsInduction, WellFoundedInduction, TLAPS

-----------------------------------------------------------------------------
(* Sequences without repetition *)

Distinct(q) == \A i, j \in 1..Len(q) : q[i] = q[j] => i = j

LEMMA RangeIs ==
  ASSUME NEW S, NEW q \in Seq(S)
  PROVE  /\ Range(q) = {q[i] : i \in 1..Len(q)} /\ Range(q) \subseteq S
         /\ q # <<>> <=> Len(q) > 0
         /\ Len(q) \in Nat /\ DOMAIN q = 1..Len(q)
BY RangeEquality

LEMMA Appending ==
  ASSUME NEW S, NEW q \in Seq(S), NEW e \in S
  PROVE  /\ Append(q, e) \in Seq(S) /\ Len(Append(q, e)) = Len(q) + 1
         /\ Range(Append(q, e)) = Range(q) \cup {e}
         /\ Distinct(q) /\ e \notin Range(q) => Distinct(Append(q, e))
<1> DEFINE r == Append(q, e)
<1>1. /\ r \in Seq(S) /\ Len(r) = Len(q) + 1 /\ Len(q) \in Nat
      /\ \A i \in 1..Len(q) : r[i] = q[i] /\ r[Len(q) + 1] = e
  BY AppendProperties
<1>2. Range(q) = {q[i] : i \in 1..Len(q)} /\ Range(r) = {r[i] : i \in 1..Len(r)}
  BY <1>1, RangeIs
<1>3. r[Len(q) + 1] = e
  OBVIOUS
<1> HIDE DEF r
<1>4. Range(r) = Range(q) \cup {e}
  <2>1. \A i \in 1..Len(r) : i \in 1..Len(q) \/ i = Len(q) + 1
    BY <1>1
  <2>2. \A i \in 1..Len(q) : i \in 1..Len(r)
    BY <1>1
  <2>3. Len(q) + 1 \in 1..Len(r)
    BY <1>1
  <2> QED
    BY <1>1, <1>2, <1>3, <2>1, <2>2, <2>3
<1>5. Distinct(q) /\ e \notin Range(q) => Distinct(r)
  BY <1>1, <1>2, <1>3 DEF Distinct
<1> QED
  BY <1>1, <1>4, <1>5 DEF r

LEMMA Taking ==
  ASSUME NEW S, NEW q \in Seq(S), q # <<>>
  PROVE  /\ Tail(q) \in Seq(S) /\ Len(Tail(q)) = Len(q) - 1 /\ Head(q) \in S
         /\ Range(q) = Range(Tail(q)) \cup {Head(q)}
         /\ Distinct(q) => Distinct(Tail(q)) /\ Head(q) \notin Range(Tail(q))
<1> DEFINE r == Tail(q)
<1>1. /\ r \in Seq(S) /\ Len(r) = Len(q) - 1 /\ Len(q) \in Nat /\ Len(q) > 0
      /\ \A i \in 1..Len(r) : r[i] = q[i + 1]
      /\ Head(q) = q[1] /\ Head(q) \in S
  BY HeadTailProperties
<1>2. Range(q) = {q[i] : i \in 1..Len(q)} /\ Range(r) = {r[i] : i \in 1..Len(r)}
  BY <1>1, RangeIs
<1> HIDE DEF r
<1>3. Range(q) = Range(r) \cup {Head(q)}
  <2>1. \A i \in 1..Len(q) : i = 1 \/ (i - 1 \in 1..Len(r) /\ q[i] = r[i - 1])
    BY <1>1
  <2>2. 1 \in 1..Len(q) /\ \A i \in 1..Len(r) : i + 1 \in 1..Len(q)
    BY <1>1
  <2> QED
    BY <1>1, <1>2, <2>1, <2>2
<1>4. ASSUME Distinct(q) PROVE Distinct(r) /\ Head(q) \notin Range(r)
  <2>1. \A i \in 1..Len(r) : i + 1 \in 1..Len(q) /\ i + 1 # 1 /\ 1 \in 1..Len(q)
    BY <1>1
  <2>2. Distinct(r)
    BY <1>1, <1>4, <2>1 DEF Distinct
  <2>3. \A i \in 1..Len(r) : r[i] # q[1]
    BY <1>1, <1>4, <2>1 DEF Distinct
  <2> QED
    BY <1>1, <1>2, <2>2, <2>3
<1> QED
  BY <1>1, <1>3, <1>4 DEF r

LEMMA Joining ==
  ASSUME NEW S, NEW u \in Seq(S), NEW v \in Seq(S)
  PROVE  /\ u \o v \in Seq(S) /\ Len(u \o v) = Len(u) + Len(v)
         /\ Range(u \o v) = Range(u) \cup Range(v)
         /\ Distinct(u) /\ Distinct(v) /\ Range(u) \cap Range(v) = {} => Distinct(u \o v)
<1> DEFINE w == u \o v
<1>1. /\ w \in Seq(S) /\ Len(w) = Len(u) + Len(v) /\ Len(u) \in Nat /\ Len(v) \in Nat
      /\ \A i \in 1..Len(w) : w[i] = IF i <= Len(u) THEN u[i] ELSE v[i - Len(u)]
  BY ConcatProperties
<1>2. /\ Range(u) = {u[i] : i \in 1..Len(u)} /\ Range(v) = {v[i] : i \in 1..Len(v)}
      /\ Range(w) = Range(u) \cup Range(v)
  BY RangeIs, RangeConcatenation
<1> HIDE DEF w
<1>3. ASSUME Distinct(u), Distinct(v), Range(u) \cap Range(v) = {},
             NEW i \in 1..Len(w), NEW j \in 1..Len(w), w[i] = w[j]
      PROVE  i = j
  <2>1. CASE i <= Len(u) /\ j <= Len(u)
    <3>1. i \in 1..Len(u) /\ j \in 1..Len(u)
      BY <1>1, <2>1
    <3> QED
      BY <1>1, <1>3, <2>1, <3>1 DEF Distinct
  <2>2. CASE ~(i <= Len(u)) /\ ~(j <= Len(u))
    <3>1. i - Len(u) \in 1..Len(v) /\ j - Len(u) \in 1..Len(v)
      BY <1>1, <2>2
    <3>2. i - Len(u) = j - Len(u)
      BY <1>1, <1>3, <2>2, <3>1 DEF Distinct
    <3> QED
      BY <1>1, <3>2
  <2>3. CASE i <= Len(u) /\ ~(j <= Len(u))
    <3>1. i \in 1..Len(u) /\ j - Len(u) \in 1..Len(v)
      BY <1>1, <2>3
    <3>2. w[i] \in Range(u) /\ w[j] \in Range(v)
      BY <1>1, <1>2, <2>3, <3>1
    <3> QED
      BY <1>3, <3>2
  <2>4. CASE ~(i <= Len(u)) /\ j <= Len(u)
    <3>1. j \in 1..Len(u) /\ i - Len(u) \in 1..Len(v)
      BY <1>1, <2>4
    <3>2. w[j] \in Range(u) /\ w[i] \in Range(v)
      BY <1>1, <1>2, <2>4, <3>1
    <3> QED
      BY <1>3, <3>2
  <2> QED
    BY <2>1, <2>2, <2>3, <2>4
<1> QED
  BY <1>1, <1>2, <1>3 DEF w, Distinct

\* The part of a sequence from m to n.
LEMMA Part ==
  ASSUME NEW S, NEW q \in Seq(S), NEW m \in 1..(Len(q) + 1), NEW n \in (m - 1)..Len(q)
  PROVE  /\ SubSeq(q, m, n) \in Seq(S) /\ Len(SubSeq(q, m, n)) = n - m + 1
         /\ Range(SubSeq(q, m, n)) = {q[i] : i \in m..n}
         /\ Distinct(q) => Distinct(SubSeq(q, m, n))
<1> DEFINE r == SubSeq(q, m, n)
<1>1. Len(q) \in Nat /\ m \in Int /\ n \in Int /\ \A i \in m..n : i \in 1..Len(q) /\ q[i] \in S
  OBVIOUS
<1>2. /\ r \in Seq(S) /\ Len(r) = n - m + 1
      /\ \A i \in 1..Len(r) : r[i] = q[m + i - 1]
  BY <1>1, SubSeqProperties
<1>3. Range(r) = {r[i] : i \in 1..Len(r)}
  BY <1>2, RangeIs
<1> HIDE DEF r
<1>4. /\ \A i \in 1..Len(r) : m + i - 1 \in m..n
      /\ \A i \in m..n : i - m + 1 \in 1..Len(r) /\ m + (i - m + 1) - 1 = i
  BY <1>1, <1>2
<1>5. Range(r) = {q[i] : i \in m..n}
  <2>1. ASSUME NEW i \in m..n PROVE q[i] = r[i - m + 1]
    BY <1>2, <1>4
  <2>2. \A i \in 1..Len(r) : r[i] \in {q[j] : j \in m..n}
    BY <1>2, <1>4
  <2>3. \A i \in m..n : q[i] \in Range(r)
    BY <1>3, <1>4, <2>1
  <2> QED
    BY <1>3, <2>2, <2>3
<1>6. ASSUME Distinct(q), NEW i \in 1..Len(r), NEW j \in 1..Len(r), r[i] = r[j] PROVE i = j
  <2> DEFINE x == m + i - 1
             y == m + j - 1
  <2>1. x \in 1..Len(q) /\ y \in 1..Len(q) /\ q[x] = q[y]
    BY <1>1, <1>2, <1>4, <1>6
  <2> HIDE DEF x, y
  <2>2. x = y
    BY <1>6, <2>1 DEF Distinct
  <2> QED
    BY <2>2 DEF x, y
<1> QED
  BY <1>2, <1>5, <1>6 DEF r, Distinct

\* A sequence falls into its first k elements and the rest.
LEMMA Splitting ==
  ASSUME NEW S, NEW q \in Seq(S), NEW k \in 0..Len(q)
  PROVE  LET p == SubSeq(q, 1, k)
             r == SubSeq(q, k + 1, Len(q))
         IN  /\ p \in Seq(S) /\ Len(p) = k /\ r \in Seq(S) /\ Len(r) = Len(q) - k
             /\ Range(q) = Range(p) \cup Range(r)
             /\ Distinct(q) => Distinct(p) /\ Distinct(r) /\ Range(p) \cap Range(r) = {}
<1> DEFINE p == SubSeq(q, 1, k)
           r == SubSeq(q, k + 1, Len(q))
<1>1. Len(q) \in Nat /\ k \in Int
  OBVIOUS
<1>2. /\ p \in Seq(S) /\ Len(p) = k /\ Range(p) = {q[i] : i \in 1..k}
      /\ Distinct(q) => Distinct(p)
  <2>1. 1 \in 1..(Len(q) + 1) /\ k \in (1 - 1)..Len(q) /\ k - 1 + 1 = k
    BY <1>1
  <2> QED
    BY <2>1, Part
<1>3. /\ r \in Seq(S) /\ Len(r) = Len(q) - k /\ Range(r) = {q[i] : i \in (k + 1)..Len(q)}
      /\ Distinct(q) => Distinct(r)
  <2>1. /\ k + 1 \in 1..(Len(q) + 1) /\ Len(q) \in ((k + 1) - 1)..Len(q)
        /\ Len(q) - (k + 1) + 1 = Len(q) - k
    BY <1>1
  <2> DEFINE m == k + 1
             n == Len(q)
  <2>2. m \in 1..(Len(q) + 1) /\ n \in (m - 1)..Len(q)
    BY <2>1
  <2> HIDE DEF m, n
  <2>3. /\ SubSeq(q, m, n) \in Seq(S) /\ Len(SubSeq(q, m, n)) = n - m + 1
        /\ Range(SubSeq(q, m, n)) = {q[i] : i \in m..n}
        /\ Distinct(q) => Distinct(SubSeq(q, m, n))
    BY <2>2, Part
  <2> QED
    BY <2>1, <2>3 DEF m, n
<1> HIDE DEF p, r
<1>4. Range(q) = {q[i] : i \in 1..Len(q)}
  BY RangeIs
<1>5. \A i \in 1..Len(q) : i \in 1..k \/ i \in (k + 1)..Len(q)
  BY <1>1
<1>6. /\ \A i \in 1..k : i \in 1..Len(q) /\ i \notin (k + 1)..Len(q)
      /\ \A i \in (k + 1)..Len(q) : i \in 1..Len(q)
  BY <1>1
<1>7. Range(q) = Range(p) \cup Range(r)
  BY <1>2, <1>3, <1>4, <1>5, <1>6
<1>8. Distinct(q) => Range(p) \cap Range(r) = {}
  BY <1>2, <1>3, <1>6 DEF Distinct
<1> QED
  BY <1>2, <1>3, <1>7, <1>8 DEF p, r

\* The sequence without its element i.
LEMMA Removing ==
  ASSUME NEW S, NEW q \in Seq(S), NEW i \in 1..Len(q), Distinct(q)
  PROVE  /\ RemoveAt(q, i) \in Seq(S) /\ Len(RemoveAt(q, i)) = Len(q) - 1
         /\ Distinct(RemoveAt(q, i)) /\ Range(RemoveAt(q, i)) = Range(q) \ {q[i]}
<1> DEFINE p == SubSeq(q, 1, i - 1)
           r == SubSeq(q, i + 1, Len(q))
<1>1. Len(q) \in Nat /\ i \in Int
  OBVIOUS
<1>2. /\ p \in Seq(S) /\ Len(p) = i - 1 /\ Range(p) = {q[j] : j \in 1..(i - 1)}
      /\ Distinct(p)
  <2>1. 1 \in 1..(Len(q) + 1) /\ i - 1 \in (1 - 1)..Len(q) /\ (i - 1) - 1 + 1 = i - 1
    BY <1>1
  <2> QED
    BY <2>1, Part
<1>3. /\ r \in Seq(S) /\ Len(r) = Len(q) - i /\ Range(r) = {q[j] : j \in (i + 1)..Len(q)}
      /\ Distinct(r)
  <2>1. /\ i + 1 \in 1..(Len(q) + 1) /\ Len(q) \in ((i + 1) - 1)..Len(q)
        /\ Len(q) - (i + 1) + 1 = Len(q) - i
    BY <1>1
  <2> DEFINE m == i + 1
             n == Len(q)
  <2>2. m \in 1..(Len(q) + 1) /\ n \in (m - 1)..Len(q)
    BY <2>1
  <2> HIDE DEF m, n
  <2>3. /\ SubSeq(q, m, n) \in Seq(S) /\ Len(SubSeq(q, m, n)) = n - m + 1
        /\ Range(SubSeq(q, m, n)) = {q[j] : j \in m..n}
        /\ Distinct(q) => Distinct(SubSeq(q, m, n))
    BY <2>2, Part
  <2> QED
    BY <2>1, <2>3 DEF m, n
<1>4. RemoveAt(q, i) = p \o r
  BY DEF RemoveAt
<1> HIDE DEF p, r
<1>5. Range(q) = {q[j] : j \in 1..Len(q)}
  BY RangeIs
<1>6. \A j \in 1..Len(q) : j = i \/ j \in 1..(i - 1) \/ j \in (i + 1)..Len(q)
  BY <1>1
<1>7. /\ \A j \in 1..(i - 1) : j \in 1..Len(q) /\ j # i /\ j \notin (i + 1)..Len(q)
      /\ \A j \in (i + 1)..Len(q) : j \in 1..Len(q) /\ j # i
  BY <1>1
<1>8. Range(p) \cup Range(r) = Range(q) \ {q[i]}
  <2>1. Range(p) \cup Range(r) \subseteq Range(q) \ {q[i]}
    BY <1>2, <1>3, <1>5, <1>7 DEF Distinct
  <2>2. Range(q) \ {q[i]} \subseteq Range(p) \cup Range(r)
    BY <1>2, <1>3, <1>5, <1>6
  <2> QED
    BY <2>1, <2>2
<1>9. Range(p) \cap Range(r) = {}
  <2>1. ASSUME NEW a \in 1..(i - 1), NEW b \in (i + 1)..Len(q) PROVE q[a] # q[b]
    BY <1>7 DEF Distinct
  <2> QED
    BY <1>2, <1>3, <2>1
<1>10. p \in Seq(S) /\ r \in Seq(S) /\ Distinct(p) /\ Distinct(r)
  BY <1>2, <1>3
<1>11. /\ p \o r \in Seq(S) /\ Len(p \o r) = Len(p) + Len(r)
       /\ Range(p \o r) = Range(p) \cup Range(r)
       /\ Distinct(p) /\ Distinct(r) /\ Range(p) \cap Range(r) = {} => Distinct(p \o r)
  BY <1>10, Joining, Zenon
<1>12. /\ p \o r \in Seq(S) /\ Len(p \o r) = Len(p) + Len(r)
       /\ Range(p \o r) = Range(p) \cup Range(r)
  BY <1>11
<1>13. Distinct(p \o r)
  BY <1>9, <1>10, <1>11
<1>14. Len(p) + Len(r) = Len(q) - 1
  BY <1>1, <1>2, <1>3
<1> QED
  BY <1>4, <1>8, <1>12, <1>14, <1>13

-----------------------------------------------------------------------------
(* The three queues of a socket *)

\* No line is in two places of the queues a, b and c.
Apart(a, b, c) ==
    /\ Distinct(a) /\ Distinct(b) /\ Distinct(c)
    /\ Range(a) \cap Range(b) = {} /\ Range(a) \cap Range(c) = {} /\ Range(b) \cap Range(c) = {}

All(a, b, c) == Range(a) \cup Range(b) \cup Range(c)

\* Lines(s), put together from the queues.
LEMMA Queues ==
  ASSUME NEW a \in Seq(Nat), NEW b \in Seq(Nat), NEW c \in Seq(Nat)
  PROVE  /\ a \o b \o c \in Seq(Nat) /\ Len(a \o b \o c) = Len(a) + Len(b) + Len(c)
         /\ Range(a \o b \o c) = All(a, b, c)
         /\ Apart(a, b, c) => Distinct(a \o b \o c)
<1> DEFINE p == a \o b
<1>1. /\ p \in Seq(Nat) /\ Len(p) = Len(a) + Len(b) /\ Range(p) = Range(a) \cup Range(b)
      /\ Apart(a, b, c) => Distinct(p)
  BY Joining DEF Apart
<1> HIDE DEF p
<1>2. p \o c \in Seq(Nat) /\ Len(p \o c) = Len(p) + Len(c)
  BY <1>1, ConcatProperties
<1>5. Range(p \o c) = Range(p) \cup Range(c)
  BY <1>1, RangeConcatenation
<1>3. Apart(a, b, c) => Distinct(p) /\ Distinct(c) /\ Range(p) \cap Range(c) = {}
  BY <1>1 DEF Apart
<1>4. Apart(a, b, c) => Distinct(p \o c)
  BY <1>1, <1>3, Joining
<1> QED
  BY <1>1, <1>2, <1>4, <1>5 DEF p, All

LEMMA AddedLine ==
  ASSUME NEW a \in Seq(Nat), NEW b \in Seq(Nat), NEW c \in Seq(Nat), NEW e \in Nat,
         Apart(a, b, c), e \notin All(a, b, c)
  PROVE  Apart(Append(a, e), b, c) /\ All(Append(a, e), b, c) = All(a, b, c) \cup {e}
BY Appending DEF Apart, All

LEMMA MovedLines ==
  ASSUME NEW a \in Seq(Nat), NEW b \in Seq(Nat), NEW c \in Seq(Nat), NEW k \in 0..Len(a),
         Apart(a, b, c)
  PROVE  LET r == SubSeq(a, k + 1, Len(a))
             n == b \o SubSeq(a, 1, k)
         IN  /\ r \in Seq(Nat) /\ n \in Seq(Nat)
             /\ Len(r) = Len(a) - k /\ Len(n) = Len(b) + k
             /\ Apart(r, n, c) /\ All(r, n, c) = All(a, b, c)
<1> DEFINE p == SubSeq(a, 1, k)
           r == SubSeq(a, k + 1, Len(a))
           n == b \o p
<1>1. /\ p \in Seq(Nat) /\ Len(p) = k /\ r \in Seq(Nat) /\ Len(r) = Len(a) - k
      /\ Range(a) = Range(p) \cup Range(r)
      /\ Distinct(p) /\ Distinct(r) /\ Range(p) \cap Range(r) = {}
  BY Splitting DEF Apart
<1> HIDE DEF p, r
<1>2. /\ n \in Seq(Nat) /\ Len(n) = Len(b) + k /\ Range(n) = Range(b) \cup Range(p)
      /\ Distinct(n)
  <2>1. Distinct(b) /\ Range(b) \cap Range(p) = {}
    BY <1>1 DEF Apart
  <2>2. n \in Seq(Nat) /\ Len(n) = Len(b) + k
    BY <1>1, ConcatProperties
  <2>4. Range(n) = Range(b) \cup Range(p)
    BY <1>1, RangeConcatenation
  <2>3. Distinct(n)
    BY <1>1, <2>1, Joining
  <2> QED
    BY <2>2, <2>3, <2>4
<1> HIDE DEF n
<1>3. Apart(r, n, c) /\ All(r, n, c) = All(a, b, c)
  BY <1>1, <1>2 DEF Apart, All
<1> QED
  BY <1>1, <1>2, <1>3 DEF p, r, n

LEMMA AnsweredLine ==
  ASSUME NEW a \in Seq(Nat), NEW b \in Seq(Nat), NEW c \in Seq(Nat), b # <<>>, Apart(a, b, c)
  PROVE  /\ Tail(b) \in Seq(Nat) /\ Len(Tail(b)) = Len(b) - 1
         /\ Append(c, Head(b)) \in Seq(Nat) /\ Len(Append(c, Head(b))) = Len(c) + 1
         /\ Apart(a, Tail(b), Append(c, Head(b)))
         /\ All(a, Tail(b), Append(c, Head(b))) = All(a, b, c)
BY Taking, Appending DEF Apart, All

LEMMA ReadLine ==
  ASSUME NEW a \in Seq(Nat), NEW b \in Seq(Nat), NEW c \in Seq(Nat), c # <<>>, Apart(a, b, c)
  PROVE  /\ Tail(c) \in Seq(Nat) /\ Len(Tail(c)) = Len(c) - 1
         /\ Apart(a, b, Tail(c)) /\ All(a, b, Tail(c)) = All(a, b, c) \ {Head(c)}
         /\ Head(c) \in All(a, b, c)
BY Taking DEF Apart, All

-----------------------------------------------------------------------------
(* Least elements *)

LEMMA LeastWF ==
  ASSUME NEW R, IsWellFoundedOn(R, Nat), NEW I, I \subseteq Nat, I # {}
  PROVE  \E i \in I : \A j \in I : ~(<<j, i>> \in R)
BY WFMin, Zenon

\* The order of the numbers as a set of pairs.
LEMMA NatOrder ==
  \E R : IsWellFoundedOn(R, Nat) /\ \A i, j \in Nat : j < i => <<j, i>> \in R
<1>1. IsWellFoundedOn(OpToRel(<, Nat), Nat)
  BY NatLessThanWellFounded, Zenon
<1>2. \A i, j \in Nat : j < i => <<j, i>> \in OpToRel(<, Nat)
  BY DEF OpToRel
<1> QED
  BY <1>1, <1>2, Zenon

LEMMA Least ==
  ASSUME NEW I \in SUBSET Nat, I # {}
  PROVE  \E i \in I : \A j \in I : i <= j
<1>1. PICK R : IsWellFoundedOn(R, Nat) /\ \A i, j \in Nat : j < i => <<j, i>> \in R
  BY NatOrder, Zenon
<1>2. IsWellFoundedOn(R, Nat) /\ I \subseteq Nat /\ I # {}
  BY <1>1, Zenon
<1>3. \E i \in I : \A j \in I : ~(<<j, i>> \in R)
  BY <1>2, LeastWF, Zenon
<1>4. PICK i \in I : \A j \in I : ~(<<j, i>> \in R)
  BY <1>3, Zenon
<1>5. ASSUME NEW j \in I PROVE ~(j < i)
  BY <1>1, <1>2, <1>4, Zenon
<1>6. \A j \in I : i <= j
  BY <1>2, <1>5
<1> QED
  BY <1>6

LEMMA MinIs == ASSUME NEW I \in SUBSET Nat, I # {} PROVE Min(I) \in I
<1>1. \E i \in I : \A j \in I : i =< j
  BY Least
<1> QED
  BY <1>1 DEF Min

\* Among the first n coservers of the array there is a last least busy one.
LEMMA LeastBusyExists ==
  ASSUME NEW q \in Seq(Cos), NEW f \in [Range(q) -> Int], q # <<>>
  PROVE  \E i \in 1..Len(q) : \A j \in 1..Len(q) :
            f[q[i]] <= f[q[j]] /\ (j > i => f[q[i]] < f[q[j]])
<1> DEFINE Best(n, i) == \A j \in 1..n : f[q[i]] <= f[q[j]] /\ (j > i => f[q[i]] < f[q[j]])
           Bad == {n \in 1..Len(q) : ~\E i \in 1..n : Best(n, i)}
<1>1. Len(q) \in Nat /\ Len(q) > 0 /\ \A i \in 1..Len(q) : f[q[i]] \in Int
  BY RangeIs
<1>2. Bad = {}
  <2>1. SUFFICES ASSUME Bad # {} PROVE FALSE
    OBVIOUS
  <2>2. Bad \in SUBSET Nat
    BY <1>1
  <2>3. PICK n \in Bad : \A m \in Bad : n <= m
    BY <2>1, <2>2, Least
  <2>4. n \in 1..Len(q) /\ ~\E i \in 1..n : Best(n, i)
    OBVIOUS
  <2>5. CASE n = 1
    <3>1. Best(1, 1)
      BY <1>1
    <3> QED
      BY <2>4, <2>5, <3>1
  <2>6. CASE n # 1
    <3>1. n - 1 \in 1..Len(q) /\ n - 1 \notin Bad
      <4>1. n - 1 \in 1..Len(q) /\ ~(n <= n - 1)
        BY <1>1, <2>4, <2>6
      <4> HIDE DEF Bad
      <4> QED
        BY <2>3, <4>1
    <3>2. PICK i \in 1..(n - 1) : Best(n - 1, i)
      <4> HIDE DEF Best
      <4> QED
        BY <3>1
    <3>3. \A j \in 1..n : j = n \/ j \in 1..(n - 1)
      BY <2>4
    <3>4. i \in 1..n /\ n \in 1..n /\ i < n /\ i \in 1..Len(q)
      BY <2>4, <3>2
    <3>5. \A j \in 1..(n - 1) : j \in 1..Len(q) /\ j < n
      BY <2>4
    <3>6. CASE f[q[i]] < f[q[n]]
      <4>1. Best(n, i)
        BY <1>1, <2>4, <3>2, <3>3, <3>4, <3>6
      <4> QED
        BY <2>4, <3>4, <4>1
    <3>7. CASE ~(f[q[i]] < f[q[n]])
      <4>1. ASSUME NEW j \in 1..n
            PROVE  f[q[n]] <= f[q[j]] /\ (j > n => f[q[n]] < f[q[j]])
        <5>1. CASE j = n
          BY <1>1, <2>4, <5>1
        <5>2. CASE j \in 1..(n - 1)
          BY <1>1, <2>4, <3>2, <3>4, <3>5, <3>7, <5>2
        <5> QED
          BY <3>3, <5>1, <5>2
      <4> QED
        BY <2>4, <3>4, <4>1
    <3> QED
      BY <3>6, <3>7
  <2> QED
    BY <2>5, <2>6
<1>3. Len(q) \in 1..Len(q) /\ \E i \in 1..Len(q) : Best(Len(q), i)
  <2>1. Len(q) \in 1..Len(q)
    BY <1>1
  <2> HIDE DEF Best
  <2> QED
    BY <1>2, <2>1
<1> QED
  BY <1>3, Zenon

-----------------------------------------------------------------------------
(* The inductive invariant *)

\* The requests on their way to, in and from the coserver of the socket s.
Ids(s) == All(send_buffer[s], inpipe[s], outpipe[s])

ArrayInv ==
    /\ coservers \in Seq(Cos) /\ Distinct(coservers) /\ Len(coservers) <= Instances + 1
    /\ busy \in [Running -> Int] /\ cosock \in [Running -> Sock]

\* A coserver's socket is in the list and no other coserver's.
SockInv ==
    /\ friendly \in [Sock -> Cos \cup {NULL}]
    /\ killed \subseteq enq /\ alive \subseteq enq /\ enq \subseteq Sock
    /\ \A c \in Running : cosock[c] \in enq
    /\ \A c, d \in Running : cosock[c] = cosock[d] => c = d
    /\ FriendlyExact

QueueOK(s) ==
    /\ Len(send_buffer[s]) <= SendSize /\ Len(inpipe[s]) <= PipeSize
    /\ Apart(send_buffer[s], inpipe[s], outpipe[s])
    /\ s \notin enq => send_buffer[s] = <<>> /\ inpipe[s] = <<>> /\ outpipe[s] = <<>>
    /\ Ids(s) \subseteq callbacks

QueueType ==
    /\ send_buffer \in [Sock -> Seq(Nat)]
    /\ inpipe \in [Sock -> Seq(Nat)] /\ outpipe \in [Sock -> Seq(Nat)]

\* Every line has its callback, and no id is in two places.
QueueInv ==
    /\ QueueType
    /\ \A s \in Sock : QueueOK(s)
    /\ \A s, t \in Sock : s # t => Ids(s) \cap Ids(t) = {}

CallbackInv ==
    /\ callback_id \in Nat
    /\ \A x \in callbacks : x \in Nat /\ x < callback_id

Load(s) == Len(send_buffer[s]) + Len(inpipe[s]) + Len(outpipe[s])

BusyInv ==
    restarts = 0 => \A c \in Running : cosock[c] \notin killed => busy[c] = Load(cosock[c])

Flags == recent \in BOOLEAN

Restarts == restarts \in 0..MaxRestarts

IInv == ArrayInv /\ SockInv /\ QueueInv /\ CallbackInv /\ BusyInv /\ Flags /\ Restarts

-----------------------------------------------------------------------------
(* The queues after a step *)

LEMMA Empty == <<>> \in Seq(Nat) /\ Len(<<>>) = 0 /\ Apart(<<>>, <<>>, <<>>) /\ All(<<>>, <<>>, <<>>) = {}
<1>1. <<>> \in Seq(Nat) /\ Len(<<>>) = 0 /\ Range(<<>>) = {}
  BY EmptySeq DEF Range
<1>2. Distinct(<<>>)
  BY <1>1 DEF Distinct
<1> QED
  BY <1>1, <1>2 DEF Apart, All

\* Nothing happens to the queues of any socket but s.
LEMMA QueueStep ==
  ASSUME QueueInv, NEW s \in Sock, NEW a \in Seq(Nat), NEW b \in Seq(Nat), NEW c \in Seq(Nat),
         send_buffer' = [send_buffer EXCEPT ![s] = a],
         inpipe' = [inpipe EXCEPT ![s] = b],
         outpipe' = [outpipe EXCEPT ![s] = c],
         Len(a) <= SendSize, Len(b) <= PipeSize, Apart(a, b, c),
         s \notin enq' => a = <<>> /\ b = <<>> /\ c = <<>>,
         \A t \in Sock \ {s} : t \in enq => t \in enq',
         All(a, b, c) \subseteq callbacks',
         \A t \in Sock \ {s} : Ids(t) \subseteq callbacks' /\ All(a, b, c) \cap Ids(t) = {}
  PROVE  QueueInv'
<1> USE DEF QueueInv
<1>1. QueueType'
  BY DEF QueueType
<1>2. /\ send_buffer'[s] = a /\ inpipe'[s] = b /\ outpipe'[s] = c
      /\ \A t \in Sock \ {s} : /\ send_buffer'[t] = send_buffer[t]
                               /\ inpipe'[t] = inpipe[t] /\ outpipe'[t] = outpipe[t]
  BY DEF QueueType
<1>3. Ids(s)' = All(a, b, c) /\ \A t \in Sock \ {s} : Ids(t)' = Ids(t)
  BY <1>2 DEF Ids
<1>4. QueueOK(s)'
  BY <1>2, <1>3 DEF QueueOK
<1>5. \A t \in Sock \ {s} : QueueOK(t)'
  <2> TAKE t \in Sock \ {s}
  <2>1. QueueOK(t) /\ (t \in enq => t \in enq')
    OBVIOUS
  <2>2. send_buffer'[t] = send_buffer[t] /\ inpipe'[t] = inpipe[t] /\ outpipe'[t] = outpipe[t]
    BY <1>2
  <2> QED
    BY <2>1, <2>2, <1>3 DEF QueueOK
<1>6. \A t \in Sock : QueueOK(t)'
  BY <1>4, <1>5
<1>7. ASSUME NEW t \in Sock, NEW u \in Sock, t # u PROVE Ids(t)' \cap Ids(u)' = {}
  <2>1. Ids(t) \cap Ids(u) = {}
    BY <1>7
  <2>2. CASE t = s
    BY <1>3, <1>7, <2>2
  <2>3. CASE u = s
    BY <1>3, <1>7, <2>3
  <2>4. CASE t # s /\ u # s
    BY <1>3, <2>1, <2>4
  <2> QED
    BY <2>2, <2>3, <2>4
<1> QED
  BY <1>1, <1>6, <1>7

\* Nothing happens to any queue, and no request is forgotten.
LEMMA QueueStutter ==
  ASSUME QueueInv, UNCHANGED chanVars, callbacks \subseteq callbacks', enq \subseteq enq'
  PROVE  QueueInv'
<1>1. \A s \in Sock : Ids(s)' = Ids(s)
  BY DEF Ids, chanVars
<1>2. \A s \in Sock : QueueOK(s) => QueueOK(s)'
  BY <1>1 DEF QueueOK, chanVars
<1>3. QueueType'
  BY DEF QueueInv, QueueType, chanVars
<1> QED
  BY <1>1, <1>2, <1>3 DEF QueueInv

\* A socket's queues, and what is in them.
LEMMA QueueFacts ==
  ASSUME QueueInv, NEW s \in Sock
  PROVE  /\ send_buffer[s] \in Seq(Nat) /\ inpipe[s] \in Seq(Nat) /\ outpipe[s] \in Seq(Nat)
         /\ Len(send_buffer[s]) \in Nat /\ Len(inpipe[s]) \in Nat /\ Len(outpipe[s]) \in Nat
         /\ QueueOK(s) /\ Load(s) \in Nat
BY DEF QueueInv, QueueType, Load

LEMMA CallbackStutter ==
  ASSUME CallbackInv, UNCHANGED cbVars
  PROVE  CallbackInv'
BY DEF CallbackInv, cbVars

LEMMA ArrayStutter ==
  ASSUME ArrayInv, UNCHANGED <<coservers, cosock>>, busy' \in [Running -> Int]
  PROVE  ArrayInv'
BY DEF ArrayInv, Running

\* The structures are left alone, and so is the list but for new killed or
\* dead sockets in it.
LEMMA SockStutter ==
  ASSUME SockInv, UNCHANGED <<cosVars, enq, restarts>>, killed' \subseteq enq, alive' \subseteq enq
  PROVE  SockInv'
BY DEF SockInv, cosVars, Running, FriendlyExact

LEMMA BusyStutter ==
  ASSUME BusyInv, UNCHANGED <<cosVars, busy, chanVars, restarts>>, killed \subseteq killed'
  PROVE  BusyInv'
BY DEF BusyInv, cosVars, chanVars, Running, Load

-----------------------------------------------------------------------------
(* One lemma per action *)

LEMMA InitIInv == Init => IInv
<1> SUFFICES ASSUME Init PROVE IInv
  OBVIOUS
<1>1. Running = {} /\ coservers = <<>> /\ coservers \in Seq(Cos) /\ Len(coservers) = 0
  BY EmptySeq DEF Init, Running, Range
<1>2. ArrayInv
  BY <1>1, SizeAssumption DEF ArrayInv, Init, Distinct
<1>3. SockInv
  BY <1>1 DEF SockInv, Init, FriendlyExact
<1>4. QueueType
  BY Empty DEF QueueType, Init
<1>5. \A s \in Sock : Ids(s) = {}
  BY Empty DEF Ids, Init
<1>6. \A s \in Sock : QueueOK(s)
  BY <1>5, Empty, SizeAssumption DEF QueueOK, Init
<1>7. CallbackInv /\ BusyInv
  BY <1>1 DEF CallbackInv, BusyInv, Init
<1>8. Restarts
  BY BoundAssumption DEF Restarts, Init
<1>9. Flags
  BY Zenon DEF Flags, Init
<1> QED
  BY <1>2, <1>3, <1>4, <1>5, <1>6, <1>7, <1>8, <1>9 DEF IInv, QueueInv

LEMMA StepTimePasses == ASSUME IInv, TimePasses PROVE IInv'
<1> USE DEF IInv, TimePasses
<1>1. ArrayInv' /\ SockInv'
  BY ArrayStutter, SockStutter DEF cosVars, ArrayInv, SockInv
<1>2. QueueInv' /\ CallbackInv' /\ BusyInv'
  BY QueueStutter, CallbackStutter, BusyStutter DEF cbVars
<1>3. Flags'
  BY Zenon DEF Flags
<1>4. Restarts'
  BY DEF Restarts
<1> QED
  BY <1>1, <1>2, <1>3, <1>4

LEMMA StepDie == ASSUME IInv, NEW s \in Sock, Die(s) PROVE IInv'
<1> USE DEF IInv, Die
<1>1. ArrayInv' /\ SockInv'
  BY ArrayStutter, SockStutter DEF cosVars, ArrayInv, SockInv
<1>2. QueueInv' /\ CallbackInv' /\ BusyInv'
  BY QueueStutter, CallbackStutter, BusyStutter DEF cbVars
<1>3. Flags'
  BY Zenon DEF Flags
<1>4. Restarts'
  BY DEF Restarts
<1> QED
  BY <1>1, <1>2, <1>3, <1>4

LEMMA StepReadEof == ASSUME IInv, NEW s \in Sock, ReadEof(s) PROVE IInv'
<1> USE DEF IInv, ReadEof
<1>1. ArrayInv' /\ SockInv'
  BY ArrayStutter, SockStutter DEF cosVars, ArrayInv, SockInv
<1>2. QueueInv' /\ CallbackInv' /\ BusyInv'
  BY QueueStutter, CallbackStutter, BusyStutter DEF cbVars
<1>3. Flags'
  BY Zenon DEF Flags
<1>4. Restarts'
  BY DEF Restarts
<1> QED
  BY <1>1, <1>2, <1>3, <1>4

\* A step that moves lines from one queue of s to another.
LEMMA BusyMoved ==
  ASSUME BusyInv, UNCHANGED <<cosVars, busy, restarts>>, killed \subseteq killed',
         NEW s \in Sock, QueueInv, QueueInv', \A t \in Sock : Load(t)' = Load(t),
         cosock \in [Running -> Sock]
  PROVE  BusyInv'
<1>1. Running' = Running
  BY DEF Running, cosVars
<1>2. SUFFICES ASSUME restarts = 0, NEW c \in Running, cosock[c] \notin killed
               PROVE  busy'[c] = Load(cosock[c])'
  BY <1>1 DEF BusyInv, cosVars
<1>3. busy[c] = Load(cosock[c]) /\ cosock[c] \in Sock /\ cosock'[c] = cosock[c]
  BY <1>2 DEF BusyInv, cosVars
<1> QED
  BY <1>3 DEF cosVars

\* Lines move from one queue of s to another.
LEMMA Shifted ==
  ASSUME QueueInv, NEW s \in Sock, NEW a \in Seq(Nat), NEW b \in Seq(Nat), NEW c \in Seq(Nat),
         send_buffer' = [send_buffer EXCEPT ![s] = a],
         inpipe' = [inpipe EXCEPT ![s] = b],
         outpipe' = [outpipe EXCEPT ![s] = c],
         Len(a) <= SendSize, Len(b) <= PipeSize, Apart(a, b, c),
         All(a, b, c) = Ids(s), Len(a) + Len(b) + Len(c) = Load(s),
         s \in enq, enq' = enq, callbacks \subseteq callbacks'
  PROVE  QueueInv' /\ \A t \in Sock : Load(t)' = Load(t)
<1>1. /\ Ids(s) \subseteq callbacks'
      /\ \A t \in Sock \ {s} : Ids(t) \subseteq callbacks' /\ Ids(s) \cap Ids(t) = {}
  BY DEF QueueInv, QueueOK
<1>2. QueueInv'
  BY <1>1, QueueStep
<1>3. send_buffer'[s] = a /\ inpipe'[s] = b /\ outpipe'[s] = c
  BY DEF QueueInv, QueueType
<1>4. Load(s)' = Load(s)
  BY <1>3 DEF Load
<1>5. ASSUME NEW t \in Sock, t # s PROVE Load(t)' = Load(t)
  BY <1>5 DEF Load, QueueInv, QueueType
<1> QED
  BY <1>2, <1>4, <1>5

LEMMA Stepbig_loop == ASSUME IInv, NEW s \in Sock, big_loop(s) PROVE IInv'
<1>1. /\ s \in alive /\ inpipe[s] # <<>>
      /\ inpipe' = [inpipe EXCEPT ![s] = Tail(inpipe[s])]
      /\ outpipe' = [outpipe EXCEPT ![s] = Append(outpipe[s], Head(inpipe[s]))]
      /\ UNCHANGED <<cosVars, busy, enq, killed, alive, send_buffer, cbVars, recent, restarts>>
  BY DEF big_loop, Answer
<1>2. ArrayInv /\ SockInv /\ QueueInv /\ CallbackInv /\ BusyInv /\ Flags /\ Restarts
  BY DEF IInv
<1> DEFINE a == send_buffer[s]
           b == Tail(inpipe[s])
           c == Append(outpipe[s], Head(inpipe[s]))
<1>3. /\ send_buffer[s] \in Seq(Nat) /\ inpipe[s] \in Seq(Nat) /\ outpipe[s] \in Seq(Nat)
      /\ Len(send_buffer[s]) \in Nat /\ Len(inpipe[s]) \in Nat /\ Len(outpipe[s]) \in Nat
      /\ QueueOK(s)
  BY <1>2, QueueFacts
<1>4. Apart(send_buffer[s], inpipe[s], outpipe[s])
  BY <1>3 DEF QueueOK
<1>5. /\ a \in Seq(Nat) /\ b \in Seq(Nat) /\ Len(b) = Len(inpipe[s]) - 1
      /\ c \in Seq(Nat) /\ Len(c) = Len(outpipe[s]) + 1
      /\ Apart(a, b, c) /\ All(a, b, c) = Ids(s)
  BY <1>1, <1>3, <1>4, AnsweredLine DEF Ids
<1>6. s \in enq /\ enq' = enq /\ callbacks' = callbacks
  BY <1>1, <1>2 DEF SockInv, cbVars
<1>7. Len(a) <= SendSize /\ Len(b) <= PipeSize
  BY <1>3, <1>5, SizeAssumption DEF QueueOK
<1>8. Len(a) + Len(b) + Len(c) = Load(s)
  <2>1. Load(s) = Len(a) + Len(inpipe[s]) + Len(outpipe[s]) /\ Len(a) \in Nat
    BY <1>3 DEF Load
  <2> DEFINE x == Len(a)
             y == Len(inpipe[s])
             z == Len(outpipe[s])
             u == Len(b)
             v == Len(c)
  <2>2. x \in Nat /\ y \in Nat /\ z \in Nat /\ u = y - 1 /\ v = z + 1
    BY <1>3, <1>5
  <2> HIDE DEF x, y, z, u, v
  <2>3. x + u + v = x + y + z
    BY <2>2
  <2> QED
    BY <2>1, <2>3 DEF x, y, z, u, v
<1>9. /\ send_buffer' = [send_buffer EXCEPT ![s] = a]
      /\ inpipe' = [inpipe EXCEPT ![s] = b] /\ outpipe' = [outpipe EXCEPT ![s] = c]
  BY <1>1, <1>2 DEF QueueInv, QueueType
<1> HIDE DEF a, b, c
<1>10. QueueInv' /\ \A t \in Sock : Load(t)' = Load(t)
  BY <1>2, <1>5, <1>6, <1>7, <1>8, <1>9, Shifted
<1>11. ArrayInv' /\ SockInv'
  BY <1>1, <1>2, ArrayStutter, SockStutter DEF cosVars, ArrayInv, SockInv
<1>12. CallbackInv'
  BY <1>1, <1>2, CallbackStutter
<1>15. BusyInv'
  BY <1>1, <1>2, <1>10, BusyMoved DEF ArrayInv
<1>13. Flags'
  BY <1>1, <1>2, Zenon DEF Flags
<1>14. Restarts'
  BY <1>1, <1>2 DEF Restarts
<1> QED
  BY <1>10, <1>11, <1>12, <1>13, <1>14, <1>15 DEF IInv

\* What Write and Sent flush.
LEMMA Flushed ==
  ASSUME QueueInv, NEW s \in Sock, NEW k \in 0..SendSize, Fits(s, k), Moved(s, k)
  PROVE  LET r == SubSeq(send_buffer[s], k + 1, Len(send_buffer[s]))
             n == inpipe[s] \o SubSeq(send_buffer[s], 1, k)
         IN  /\ r \in Seq(Nat) /\ n \in Seq(Nat) /\ inpipe' = [inpipe EXCEPT ![s] = n]
             /\ Len(r) <= SendSize /\ Len(n) <= PipeSize
             /\ Apart(r, n, outpipe[s]) /\ All(r, n, outpipe[s]) = Ids(s)
             /\ Len(r) + Len(n) + Len(outpipe[s]) = Load(s)
<1> DEFINE a == send_buffer[s]
           r == SubSeq(a, k + 1, Len(a))
           n == inpipe[s] \o SubSeq(a, 1, k)
<1>1. /\ a \in Seq(Nat) /\ inpipe[s] \in Seq(Nat) /\ outpipe[s] \in Seq(Nat)
      /\ Len(a) \in Nat /\ Len(inpipe[s]) \in Nat /\ Len(outpipe[s]) \in Nat /\ QueueOK(s)
  BY QueueFacts
<1>2. k \in 0..Len(a) /\ Len(inpipe[s]) + k <= PipeSize
  BY <1>1, SizeAssumption DEF Fits
<1>3. Apart(a, inpipe[s], outpipe[s]) /\ Len(a) <= SendSize
  BY <1>1 DEF QueueOK
<1>4. inpipe' = [inpipe EXCEPT ![s] = n]
  BY DEF Moved
<1> HIDE DEF a
<1>5. /\ r \in Seq(Nat) /\ n \in Seq(Nat) /\ Len(r) = Len(a) - k /\ Len(n) = Len(inpipe[s]) + k
      /\ Apart(r, n, outpipe[s]) /\ All(r, n, outpipe[s]) = All(a, inpipe[s], outpipe[s])
  <2>1. k \in Nat /\ inpipe[s] \in Seq(Nat) /\ outpipe[s] \in Seq(Nat) /\ a \in Seq(Nat)
    BY <1>1, <1>2
  <2> DEFINE b == inpipe[s]
             c == outpipe[s]
  <2> HIDE DEF b, c
  <2>2. b \in Seq(Nat) /\ c \in Seq(Nat) /\ Apart(a, b, c)
    BY <1>1, <1>3 DEF b, c
  <2>3. LET r2 == SubSeq(a, k + 1, Len(a))
            n2 == b \o SubSeq(a, 1, k)
        IN  /\ r2 \in Seq(Nat) /\ n2 \in Seq(Nat)
            /\ Len(r2) = Len(a) - k /\ Len(n2) = Len(b) + k
            /\ Apart(r2, n2, c) /\ All(r2, n2, c) = All(a, b, c)
    BY <1>1, <1>2, <2>2, MovedLines
  <2> QED
    BY <2>3 DEF b, c
<1> HIDE DEF r, n
<1>6. Len(r) <= SendSize /\ Len(n) <= PipeSize
  BY <1>1, <1>2, <1>3, <1>5, SizeAssumption
<1>7. Len(r) + Len(n) + Len(outpipe[s]) = Len(a) + Len(inpipe[s]) + Len(outpipe[s])
  <2> DEFINE x == Len(a)
             y == Len(inpipe[s])
             z == Len(outpipe[s])
             u == Len(r)
             v == Len(n)
  <2>1. x \in Nat /\ y \in Nat /\ z \in Nat /\ k \in Int /\ u = x - k /\ v = y + k
    BY <1>1, <1>2, <1>5
  <2> HIDE DEF x, y, z, u, v
  <2>2. u + v + z = x + y + z
    BY <2>1
  <2> QED
    BY <2>2 DEF x, y, z, u, v
<1>8. Load(s) = Len(a) + Len(inpipe[s]) + Len(outpipe[s]) /\ Ids(s) = All(a, inpipe[s], outpipe[s])
  BY DEF Load, Ids, a
<1> QED
  BY <1>4, <1>5, <1>6, <1>7, <1>8 DEF a, r, n

LEMMA StepWrite == ASSUME IInv, NEW s \in Sock, Write(s) PROVE IInv'
<1>1. /\ s \in enq \ killed
      /\ UNCHANGED <<cosVars, busy, enq, alive, cbVars, recent, restarts>>
  BY DEF Write
<1>2. ArrayInv /\ SockInv /\ QueueInv /\ CallbackInv /\ BusyInv /\ Flags /\ Restarts
  BY DEF IInv
<1>3. CallbackInv'
  BY <1>1, <1>2, CallbackStutter
<1>4. Flags'
  BY <1>1, <1>2, Zenon DEF Flags
<1>5. Restarts'
  BY <1>1, <1>2 DEF Restarts
<1>6. ArrayInv'
  BY <1>1, <1>2, ArrayStutter DEF cosVars, ArrayInv
<1>7. CASE s \notin alive /\ killed' = killed \cup {s} /\ UNCHANGED chanVars
  <2>1. SockInv'
    BY <1>1, <1>2, <1>7, SockStutter DEF SockInv
  <2>2. QueueInv'
    BY <1>1, <1>2, <1>7, QueueStutter DEF cbVars
  <2>3. BusyInv'
    BY <1>1, <1>2, <1>7, BusyStutter
  <2> QED
    BY <1>3, <1>4, <1>5, <1>6, <2>1, <2>2, <2>3 DEF IInv
<1>8. CASE \E k \in 1..SendSize :
              /\ Fits(s, k) /\ Moved(s, k)
              /\ send_buffer' = [send_buffer EXCEPT ![s] = SubSeq(@, k + 1, Len(@))]
              /\ UNCHANGED <<killed, outpipe>>
  <2>1. PICK k \in 1..SendSize :
              /\ Fits(s, k) /\ Moved(s, k)
              /\ send_buffer' = [send_buffer EXCEPT ![s] = SubSeq(@, k + 1, Len(@))]
              /\ UNCHANGED <<killed, outpipe>>
    BY <1>8
  <2> DEFINE a == SubSeq(send_buffer[s], k + 1, Len(send_buffer[s]))
             b == inpipe[s] \o SubSeq(send_buffer[s], 1, k)
             c == outpipe[s]
  <2>2. k \in 0..SendSize
    BY SizeAssumption
  <2>3. /\ a \in Seq(Nat) /\ b \in Seq(Nat) /\ inpipe' = [inpipe EXCEPT ![s] = b]
        /\ Len(a) <= SendSize /\ Len(b) <= PipeSize
        /\ Apart(a, b, c) /\ All(a, b, c) = Ids(s) /\ Len(a) + Len(b) + Len(c) = Load(s)
    BY <1>2, <2>1, <2>2, Flushed
  <2>4. c \in Seq(Nat) /\ outpipe' = [outpipe EXCEPT ![s] = c]
    BY <1>2, <2>1 DEF QueueInv, QueueType
  <2>5. send_buffer' = [send_buffer EXCEPT ![s] = a]
    BY <2>1
  <2>6. s \in enq /\ enq' = enq /\ callbacks \subseteq callbacks'
    BY <1>1 DEF cbVars
  <2> HIDE DEF a, b, c
  <2>7. QueueInv' /\ \A t \in Sock : Load(t)' = Load(t)
    BY <1>2, <2>3, <2>4, <2>5, <2>6, Shifted
  <2>8. SockInv'
    BY <1>1, <1>2, <2>1, SockStutter DEF SockInv
  <2>9. BusyInv'
    BY <1>1, <1>2, <2>1, <2>7, BusyMoved DEF ArrayInv
  <2> QED
    BY <1>3, <1>4, <1>5, <1>6, <2>7, <2>8, <2>9 DEF IInv
<1> QED
  BY <1>7, <1>8 DEF Write

LEMMA StepRead == ASSUME IInv, NEW s \in Sock, Read(s) PROVE IInv'
<1>1. /\ s \in enq \ killed /\ outpipe[s] # <<>>
      /\ outpipe' = [outpipe EXCEPT ![s] = Tail(outpipe[s])]
      /\ busy' = Relieved(s)
      /\ callbacks' = callbacks \ {Head(outpipe[s])}
      /\ UNCHANGED <<cosVars, enq, killed, alive, send_buffer, inpipe, callback_id,
                     recent, restarts>>
  BY DEF Read
<1>2. ArrayInv /\ SockInv /\ QueueInv /\ CallbackInv /\ BusyInv /\ Flags /\ Restarts
  BY DEF IInv
<1> DEFINE a == send_buffer[s]
           b == inpipe[s]
           c == Tail(outpipe[s])
           x == Head(outpipe[s])
<1>3. /\ a \in Seq(Nat) /\ b \in Seq(Nat) /\ outpipe[s] \in Seq(Nat)
      /\ Len(a) \in Nat /\ Len(b) \in Nat /\ Len(outpipe[s]) \in Nat
      /\ QueueOK(s)
  BY <1>2, QueueFacts
<1>4. Apart(a, b, outpipe[s]) /\ Ids(s) = All(a, b, outpipe[s])
  BY <1>3 DEF QueueOK, Ids
<1>5. /\ c \in Seq(Nat) /\ Len(c) = Len(outpipe[s]) - 1
      /\ Apart(a, b, c) /\ All(a, b, c) = Ids(s) \ {x} /\ x \in Ids(s)
  BY <1>1, <1>3, <1>4, ReadLine
<1>6. /\ send_buffer' = [send_buffer EXCEPT ![s] = a]
      /\ inpipe' = [inpipe EXCEPT ![s] = b] /\ outpipe' = [outpipe EXCEPT ![s] = c]
  BY <1>1, <1>2 DEF QueueInv, QueueType
<1>7. /\ Len(a) <= SendSize /\ Len(b) <= PipeSize /\ Ids(s) \subseteq callbacks
      /\ \A t \in Sock \ {s} : Ids(t) \subseteq callbacks /\ Ids(s) \cap Ids(t) = {}
  BY <1>2, <1>3 DEF QueueOK, QueueInv
<1>8. s \in enq /\ enq' = enq /\ callbacks' = callbacks \ {x}
  BY <1>1
<1>9. send_buffer'[s] = a /\ inpipe'[s] = b /\ outpipe'[s] = c
  BY <1>2, <1>6 DEF QueueInv, QueueType
<1>10. Load(s)' = Load(s) - 1
  <2>1. Load(s) = Len(a) + Len(b) + Len(outpipe[s])
    BY DEF Load
  <2> HIDE DEF a, b, c
  <2>2. Load(s)' = Len(a) + Len(b) + Len(c)
    BY <1>9 DEF Load
  <2> QED
    BY <1>3, <1>5, <2>1, <2>2
<1>11. ASSUME NEW t \in Sock, t # s PROVE Load(t)' = Load(t)
  BY <1>2, <1>6, <1>11 DEF Load, QueueInv, QueueType
<1> HIDE DEF a, b, c, x
<1>12. /\ All(a, b, c) \subseteq callbacks'
       /\ \A t \in Sock \ {s} : Ids(t) \subseteq callbacks' /\ All(a, b, c) \cap Ids(t) = {}
  BY <1>5, <1>7, <1>8
<1>13. QueueInv'
  BY <1>2, <1>3, <1>5, <1>6, <1>7, <1>8, <1>12, QueueStep
<1>14. CallbackInv'
  BY <1>1, <1>2 DEF CallbackInv
<1>15. busy' \in [Running -> Int]
  BY <1>1, <1>2 DEF Relieved, ArrayInv
<1>16. ArrayInv'
  BY <1>1, <1>2, <1>15, ArrayStutter DEF cosVars
<1>17. SockInv'
  BY <1>1, <1>2, SockStutter DEF SockInv
<1>18. BusyInv'
  <2>1. Running' = Running /\ cosock' = cosock
    BY <1>1 DEF Running, cosVars
  <2>2. SUFFICES ASSUME restarts = 0, NEW c1 \in Running, cosock[c1] \notin killed
                 PROVE  busy'[c1] = Load(cosock[c1])'
    BY <1>1, <2>1 DEF BusyInv
  <2>3. friendly[s] \in Running /\ cosock[friendly[s]] = s
    BY <1>1, <1>2, <2>2 DEF SockInv, FriendlyExact
  <2>4. busy' = [busy EXCEPT ![friendly[s]] = @ - 1]
    BY <1>1, <2>3 DEF Relieved
  <2>5. busy[c1] = Load(cosock[c1]) /\ cosock[c1] \in Sock
    BY <1>2, <2>2 DEF BusyInv, ArrayInv
  <2>6. CASE c1 = friendly[s]
    BY <1>2, <1>10, <2>1, <2>3, <2>4, <2>5, <2>6 DEF ArrayInv
  <2>7. CASE c1 # friendly[s]
    <3>1. cosock[c1] # s
      BY <1>2, <2>3, <2>7 DEF SockInv
    <3> QED
      BY <1>2, <1>11, <2>1, <2>4, <2>5, <2>7, <3>1 DEF ArrayInv
  <2> QED
    BY <2>6, <2>7
<1>19. Flags'
  BY <1>1, <1>2, Zenon DEF Flags
<1>20. Restarts'
  BY <1>1, <1>2 DEF Restarts
<1> QED
  BY <1>13, <1>14, <1>16, <1>17, <1>18, <1>19, <1>20 DEF IInv

LEMMA LeastBusyIs ==
  ASSUME ArrayInv, coservers # <<>>
  PROVE  LeastBusy \in Running
<1> DEFINE Best(i) == \A j \in DOMAIN coservers :
                         /\ busy[coservers[i]] <= busy[coservers[j]]
                         /\ j > i => busy[coservers[i]] < busy[coservers[j]]
           b == CHOOSE i \in DOMAIN coservers : Best(i)
<1>1. coservers \in Seq(Cos) /\ busy \in [Range(coservers) -> Int]
  BY DEF ArrayInv, Running
<1>2. DOMAIN coservers = 1..Len(coservers) /\ Range(coservers) = {coservers[i] : i \in 1..Len(coservers)}
  BY <1>1, RangeIs
<1>3. \E i \in 1..Len(coservers) : \A j \in 1..Len(coservers) :
         /\ busy[coservers[i]] <= busy[coservers[j]]
         /\ j > i => busy[coservers[i]] < busy[coservers[j]]
  BY <1>1, LeastBusyExists
<1>4. \E i \in DOMAIN coservers : Best(i)
  BY <1>2, <1>3
<1>5. b \in DOMAIN coservers
  <2> HIDE DEF Best
  <2> QED
    BY <1>4
<1>6. LeastBusy = coservers[b]
  BY DEF LeastBusy
<1> HIDE DEF b
<1> QED
  BY <1>2, <1>5, <1>6 DEF Running

\* One more request for the coserver d, unless its socket is killed.
LEMMA BusyRaised ==
  ASSUME ArrayInv, SockInv, BusyInv, NEW d \in Running,
         busy' = [busy EXCEPT ![d] = @ + 1], UNCHANGED <<cosVars, restarts>>,
         killed \subseteq killed',
         NEW s \in Sock, cosock[d] = s,
         \A t \in Sock : t # s => Load(t)' = Load(t),
         s \notin killed' => Load(s)' = Load(s) + 1
  PROVE  BusyInv'
<1>1. Running' = Running /\ cosock' = cosock
  BY DEF Running, cosVars
<1>2. SUFFICES ASSUME restarts = 0, NEW c \in Running, cosock[c] \notin killed'
               PROVE  busy'[c] = Load(cosock[c])'
  BY <1>1 DEF BusyInv
<1>3. busy[c] = Load(cosock[c]) /\ cosock[c] \in Sock
  BY <1>2 DEF BusyInv, ArrayInv
<1>4. CASE c = d
  BY <1>1, <1>2, <1>3, <1>4 DEF ArrayInv
<1>5. CASE c # d
  <2>1. cosock[c] # cosock[d]
    BY <1>5 DEF SockInv
  <2> QED
    BY <1>1, <1>3, <1>5, <2>1 DEF ArrayInv
<1> QED
  BY <1>4, <1>5

LEMMA Stepsend_request == ASSUME IInv, send_request PROVE IInv'
<1>1. /\ coservers # <<>>
      /\ callbacks' = callbacks \cup {callback_id}
      /\ callback_id' = callback_id + 1
      /\ busy' = [busy EXCEPT ![LeastBusy] = @ + 1]
      /\ Sent(cosock[LeastBusy], callback_id)
      /\ UNCHANGED <<cosVars, enq, alive, recent, restarts>>
  BY DEF send_request, Entered
<1>2. ArrayInv /\ SockInv /\ QueueInv /\ CallbackInv /\ BusyInv /\ Flags /\ Restarts
  BY DEF IInv
<1>3. PICK d \in Running : d = LeastBusy
  BY <1>1, <1>2, LeastBusyIs
<1>4. PICK s \in Sock : s = cosock[d] /\ s \in enq
  BY <1>2, <1>3 DEF ArrayInv, SockInv
<1>16. PICK e : e = callback_id
  OBVIOUS
<1>5. Sent(s, e)
  BY <1>1, <1>3, <1>4, <1>16
<1>6. ArrayInv'
  <2>1. busy' \in [Running -> Int]
    BY <1>1, <1>2, <1>3 DEF ArrayInv
  <2> QED
    BY <1>1, <1>2, <2>1, ArrayStutter DEF cosVars
<1>7. CallbackInv'
  BY <1>1, <1>2 DEF CallbackInv
<1>8. Flags'
  BY <1>1, <1>2, Zenon DEF Flags
<1>9. Restarts'
  BY <1>1, <1>2 DEF Restarts
<1>10. e \in Nat /\ e \notin callbacks /\ callbacks \subseteq callbacks' /\ e \in callbacks'
  BY <1>1, <1>2, <1>16 DEF CallbackInv
<1>11. SUFFICES /\ killed \subseteq killed' /\ killed' \subseteq killed \cup {s} /\ QueueInv'
                /\ \A t \in Sock : t # s => Load(t)' = Load(t)
                /\ s \notin killed' => Load(s)' = Load(s) + 1
  <2>1. SockInv'
    BY <1>1, <1>2, <1>4, <1>11, SockStutter DEF SockInv
  <2>2. BusyInv'
    BY <1>1, <1>2, <1>3, <1>4, <1>11, BusyRaised
  <2> QED
    BY <1>6, <1>7, <1>8, <1>9, <1>11, <2>1, <2>2 DEF IInv
<1>12. CASE UNCHANGED chanVars /\ killed' = killed \cup {s}
  <2>1. QueueInv'
    BY <1>1, <1>2, <1>10, <1>12, QueueStutter
  <2>2. \A t \in Sock : Load(t)' = Load(t)
    BY <1>12 DEF Load, chanVars
  <2> QED
    BY <1>12, <2>1, <2>2
<1>13. CASE \E k \in 0..SendSize :
              /\ Fits(s, k) /\ Moved(s, k)
              /\ LET rest == SubSeq(send_buffer[s], k + 1, Len(send_buffer[s]))
                 IN  IF HasSpace(rest)
                     THEN /\ send_buffer' = [send_buffer EXCEPT ![s] = Append(rest, e)]
                          /\ UNCHANGED killed
                     ELSE /\ send_buffer' = [send_buffer EXCEPT ![s] = rest]
                          /\ killed' = killed \cup {s}
              /\ UNCHANGED outpipe
  <2>1. PICK k \in 0..SendSize :
              /\ Fits(s, k) /\ Moved(s, k)
              /\ LET rest == SubSeq(send_buffer[s], k + 1, Len(send_buffer[s]))
                 IN  IF HasSpace(rest)
                     THEN /\ send_buffer' = [send_buffer EXCEPT ![s] = Append(rest, e)]
                          /\ UNCHANGED killed
                     ELSE /\ send_buffer' = [send_buffer EXCEPT ![s] = rest]
                          /\ killed' = killed \cup {s}
              /\ UNCHANGED outpipe
    BY <1>13
  <2> DEFINE a == SubSeq(send_buffer[s], k + 1, Len(send_buffer[s]))
             b == inpipe[s] \o SubSeq(send_buffer[s], 1, k)
             c == outpipe[s]
  <2>2. /\ a \in Seq(Nat) /\ b \in Seq(Nat) /\ inpipe' = [inpipe EXCEPT ![s] = b]
        /\ Len(a) <= SendSize /\ Len(b) <= PipeSize
        /\ Apart(a, b, c) /\ All(a, b, c) = Ids(s) /\ Len(a) + Len(b) + Len(c) = Load(s)
    BY <1>2, <1>4, <2>1, Flushed
  <2>3. c \in Seq(Nat) /\ outpipe' = [outpipe EXCEPT ![s] = c]
    BY <1>2, <1>4, <2>1 DEF QueueInv, QueueType
  <2>4. IF HasSpace(a) THEN /\ send_buffer' = [send_buffer EXCEPT ![s] = Append(a, e)]
                            /\ UNCHANGED killed
                       ELSE /\ send_buffer' = [send_buffer EXCEPT ![s] = a]
                            /\ killed' = killed \cup {s}
    BY <2>1
  <2> HIDE DEF a, b, c
  <2>5. CASE ~HasSpace(a)
    <3>1. QueueInv' /\ \A t \in Sock : Load(t)' = Load(t)
      BY <1>1, <1>2, <1>4, <1>10, <2>2, <2>3, <2>4, <2>5, Shifted
    <3> QED
      BY <2>4, <2>5, <3>1
  <2>6. CASE HasSpace(a)
    <3> DEFINE f == Append(a, e)
    <3>1. f \in Seq(Nat) /\ Len(f) = Len(a) + 1
      BY <1>10, <2>2, AppendProperties
    <3>2. /\ e \notin Ids(s) /\ Ids(s) \subseteq callbacks'
          /\ \A t \in Sock \ {s} : Ids(t) \subseteq callbacks' /\ Ids(s) \cap Ids(t) = {} /\ e \notin Ids(t)
      BY <1>2, <1>4, <1>10 DEF QueueInv, QueueOK
    <3>3. Apart(f, b, c) /\ All(f, b, c) = Ids(s) \cup {e}
      BY <1>10, <2>2, <2>3, <3>2, AddedLine
    <3>4. Len(f) <= SendSize
      BY <2>2, <2>6, <3>1, SizeAssumption DEF HasSpace
    <3>5. send_buffer' = [send_buffer EXCEPT ![s] = f] /\ killed' = killed
      BY <2>4, <2>6
    <3> HIDE DEF f
    <3>6. All(f, b, c) \subseteq callbacks'
      BY <1>10, <3>2, <3>3
    <3>7. \A t \in Sock \ {s} : Ids(t) \subseteq callbacks' /\ All(f, b, c) \cap Ids(t) = {}
      BY <3>2, <3>3
    <3>8. QueueInv'
      BY <1>1, <1>2, <1>4, <2>2, <2>3, <3>1, <3>3, <3>4, <3>5, <3>6, <3>7, QueueStep
    <3>9. ASSUME NEW t \in Sock, t # s PROVE Load(t)' = Load(t)
      BY <1>2, <2>2, <2>3, <3>5, <3>9 DEF Load, QueueInv, QueueType
    <3>10. Load(s)' = Load(s) + 1
      <4>1. send_buffer'[s] = f /\ inpipe'[s] = b /\ outpipe'[s] = c
        BY <1>2, <1>4, <2>2, <2>3, <3>5 DEF QueueInv, QueueType
      <4>2. Load(s)' = Len(f) + Len(b) + Len(c)
        BY <4>1 DEF Load
      <4> DEFINE x == Len(a)
                 y == Len(b)
                 z == Len(c)
                 u == Len(f)
      <4>3. x \in Nat /\ y \in Nat /\ z \in Nat /\ u = x + 1
        BY <2>2, <2>3, <3>1
      <4> HIDE DEF x, y, z, u
      <4>4. u + y + z = x + y + z + 1
        BY <4>3
      <4> QED
        BY <2>2, <4>2, <4>4 DEF x, y, z, u
    <3> QED
      BY <3>5, <3>8, <3>9, <3>10
  <2> QED
    BY <2>5, <2>6
<1>14. CASE s \in killed /\ UNCHANGED <<killed, chanVars>>
  BY <1>12, <1>14
<1>15. CASE s \notin killed \cup alive /\ killed' = killed \cup {s} /\ UNCHANGED chanVars
  BY <1>12, <1>15
<1> QED
  BY <1>5, <1>13, <1>14, <1>15 DEF Sent

\* A socket is one coserver's, so that disconnect takes out that one.
LEMMA Disconnected ==
  ASSUME ArrayInv, SockInv, NEW s
  PROVE  /\ disconnect(s) \in Seq(Cos) /\ Distinct(disconnect(s))
         /\ Len(disconnect(s)) <= Len(coservers)
         /\ Range(disconnect(s)) = {c \in Running : cosock[c] # s}
<1> DEFINE I == {i \in 1..Len(coservers) : cosock[coservers[i]] = s}
<1>1. /\ coservers \in Seq(Cos) /\ Distinct(coservers) /\ Len(coservers) \in Nat
      /\ Running = {coservers[i] : i \in 1..Len(coservers)}
  BY RangeIs DEF ArrayInv, Running
<1>2. CASE I = {}
  <2>1. disconnect(s) = coservers
    BY <1>2 DEF disconnect, RemoveFirstMatch
  <2> QED
    BY <1>1, <1>2, <2>1 DEF Running
<1>3. CASE I # {}
  <2>1. I \in SUBSET Nat
    OBVIOUS
  <2>2. PICK i \in I : i = Min(I)
    <3> HIDE DEF I
    <3> QED
      BY <1>3, <2>1, MinIs
  <2>3. disconnect(s) = RemoveAt(coservers, Min(I))
    BY <1>3 DEF disconnect, RemoveFirstMatch, SelectInSeq
  <2>4. i \in 1..Len(coservers) /\ cosock[coservers[i]] = s
    OBVIOUS
  <2> HIDE DEF I
  <2>5. /\ disconnect(s) \in Seq(Cos) /\ Distinct(disconnect(s))
        /\ Len(disconnect(s)) = Len(coservers) - 1
        /\ Range(disconnect(s)) = Range(coservers) \ {coservers[i]}
    BY <1>1, <2>2, <2>3, <2>4, Removing
  <2>6. coservers[i] \in Running
    BY <1>1, <2>4
  <2>7. Running \ {coservers[i]} = {c \in Running : cosock[c] # s}
    BY <2>4, <2>6 DEF SockInv
  <2> QED
    BY <1>1, <2>5, <2>7 DEF Running
<1> QED
  BY <1>2, <1>3

LEMMA Stepsvz_sock_shutdown == ASSUME IInv, NEW s \in Sock, svz_sock_shutdown(s) PROVE IInv'
<1>1. /\ s \in killed
      /\ coservers' = disconnect(s)
      /\ busy' = Restrict(busy, Range(disconnect(s)))
      /\ cosock' = Restrict(cosock, Range(disconnect(s)))
      /\ alive' = alive \ {s}
      /\ friendly' = [friendly EXCEPT ![s] = NULL]
      /\ enq' = enq \ {s} /\ killed' = killed \ {s}
      /\ send_buffer' = [send_buffer EXCEPT ![s] = <<>>]
      /\ inpipe' = [inpipe EXCEPT ![s] = <<>>]
      /\ outpipe' = [outpipe EXCEPT ![s] = <<>>]
      /\ UNCHANGED <<cbVars, recent, restarts>>
  BY DEF svz_sock_shutdown, forget_sock
<1>2. ArrayInv /\ SockInv /\ QueueInv /\ CallbackInv /\ BusyInv /\ Flags /\ Restarts
  BY DEF IInv
<1>3. /\ coservers' \in Seq(Cos) /\ Distinct(coservers') /\ Len(coservers') <= Len(coservers)
      /\ Running' = {c \in Running : cosock[c] # s}
      /\ Range(disconnect(s)) = Running'
  BY <1>1, <1>2, Disconnected DEF Running
<1>4. /\ busy' = [c \in Running' |-> busy[c]] /\ cosock' = [c \in Running' |-> cosock[c]]
  BY <1>1, <1>3 DEF Restrict
<1>5. ArrayInv'
  <2>1. Len(coservers') <= Instances + 1
    BY <1>2, <1>3, SizeAssumption DEF ArrayInv
  <2>2. busy' \in [Running' -> Int] /\ cosock' \in [Running' -> Sock]
    BY <1>2, <1>3, <1>4 DEF ArrayInv
  <2> QED
    BY <1>3, <2>1, <2>2 DEF ArrayInv
<1>6. /\ \A c \in Running' : c \in Running /\ cosock'[c] = cosock[c] /\ busy'[c] = busy[c] /\ cosock[c] # s
      /\ \A c \in Running : cosock[c] # s => c \in Running'
  BY <1>3, <1>4
<1>7. FriendlyExact'
  <2>1. SUFFICES ASSUME restarts = 0, NEW t \in Sock
                 PROVE  IF t \in enq' THEN friendly'[t] \in Running' /\ cosock'[friendly'[t]] = t
                                      ELSE friendly'[t] = NULL
    BY <1>1 DEF FriendlyExact
  <2>2. IF t \in enq THEN friendly[t] \in Running /\ cosock[friendly[t]] = t
                     ELSE friendly[t] = NULL
    BY <1>2, <2>1 DEF SockInv, FriendlyExact
  <2>3. CASE t = s
    BY <1>1, <1>2, <2>3 DEF SockInv
  <2>4. CASE t # s
    <3>1. friendly'[t] = friendly[t] /\ (t \in enq' <=> t \in enq)
      BY <1>1, <1>2, <2>4 DEF SockInv
    <3> QED
      BY <1>6, <2>2, <2>4, <3>1
  <2> QED
    BY <2>3, <2>4
<1>8. SockInv'
  <2>1. friendly' \in [Sock -> Cos \cup {NULL}]
    BY <1>1, <1>2 DEF SockInv
  <2>2. killed' \subseteq enq' /\ alive' \subseteq enq' /\ enq' \subseteq Sock
    BY <1>1, <1>2 DEF SockInv
  <2>3. /\ \A c \in Running' : cosock'[c] \in enq'
        /\ \A c, d \in Running' : cosock'[c] = cosock'[d] => c = d
    BY <1>1, <1>2, <1>6 DEF SockInv
  <2> QED
    BY <1>7, <2>1, <2>2, <2>3 DEF SockInv
<1>9. QueueInv'
  <2>1. \A t \in Sock \ {s} : t \in enq => t \in enq'
    BY <1>1
  <2>2. \A t \in Sock \ {s} : Ids(t) \subseteq callbacks'
    BY <1>1, <1>2 DEF QueueInv, QueueOK, cbVars
  <2>3. Len(<<>>) <= SendSize /\ Len(<<>>) <= PipeSize
    BY Empty, SizeAssumption
  <2>4. QueueInv
    BY <1>2
  <2>5. /\ All(<<>>, <<>>, <<>>) \subseteq callbacks'
        /\ \A t \in Sock \ {s} : Ids(t) \subseteq callbacks' /\ All(<<>>, <<>>, <<>>) \cap Ids(t) = {}
    BY <2>2, Empty
  <2> DEFINE n == <<>>
  <2>6. /\ n \in Seq(Nat) /\ Len(n) <= SendSize /\ Len(n) <= PipeSize /\ Apart(n, n, n)
        /\ All(n, n, n) \subseteq callbacks'
        /\ \A t \in Sock \ {s} : Ids(t) \subseteq callbacks' /\ All(n, n, n) \cap Ids(t) = {}
        /\ send_buffer' = [send_buffer EXCEPT ![s] = n] /\ inpipe' = [inpipe EXCEPT ![s] = n]
        /\ outpipe' = [outpipe EXCEPT ![s] = n] /\ n = <<>>
    BY <1>1, <2>3, <2>5, Empty
  <2> HIDE DEF n
  <2> QED
    BY <2>1, <2>4, <2>6, QueueStep
<1>10. CallbackInv'
  BY <1>1, <1>2, CallbackStutter
<1>11. BusyInv'
  <2>1. SUFFICES ASSUME restarts = 0, NEW c \in Running', cosock'[c] \notin killed'
                 PROVE  busy'[c] = Load(cosock[c])'
    BY <1>1 DEF BusyInv
  <2>2. PICK t \in Sock : t = cosock[c] /\ t = cosock'[c] /\ t # s /\ c \in Running /\ busy'[c] = busy[c]
    BY <1>2, <1>6 DEF ArrayInv
  <2>3. t \notin killed
    BY <1>1, <2>1, <2>2
  <2>4. busy[c] = Load(t)
    BY <1>1, <1>2, <2>1, <2>2, <2>3 DEF BusyInv
  <2>5. Load(t)' = Load(t)
    BY <1>1, <1>2, <2>2 DEF Load, QueueInv, QueueType
  <2> QED
    BY <2>2, <2>4, <2>5
<1>12. Flags'
  BY <1>1, <1>2, Zenon DEF Flags
<1>13. Restarts'
  BY <1>1, <1>2 DEF Restarts
<1> QED
  BY <1>5, <1>8, <1>9, <1>10, <1>11, <1>12, <1>13 DEF IInv

\* What start makes of the array cs: the whole array, or after the restart
\* command the empty one.
LEMMA Started ==
  ASSUME IInv, NEW cs \in Seq(Cos), Distinct(cs), Range(cs) \subseteq Running,
         Len(cs) <= Instances, NEW dead, start(cs, dead),
         restarts' = 0 => restarts = 0 /\ Range(cs) = Running
  PROVE  ArrayInv' /\ SockInv' /\ QueueInv' /\ CallbackInv' /\ BusyInv' /\ Flags'
<1>1. PICK f \in Sock \ enq : f = FreeSock
  BY DEF start, FreeSock
<1>2. PICK c \in Cos \ Range(cs) :
         /\ coservers' = Append(cs, c)
         /\ busy' = [x \in Range(cs) \cup {c} |-> IF x = c THEN 0 ELSE busy[x]]
         /\ cosock' = [x \in Range(cs) \cup {c} |-> IF x = c THEN f ELSE cosock[x]]
         /\ friendly' = [friendly EXCEPT ![f] = c]
  BY <1>1 DEF start
<1>3. /\ enq' = enq \cup {f} /\ alive' = (alive \ dead) \cup {f} /\ recent' = TRUE
      /\ UNCHANGED <<killed, chanVars, cbVars>>
  BY <1>1 DEF start
<1>4. ArrayInv /\ SockInv /\ QueueInv /\ CallbackInv /\ BusyInv
  BY DEF IInv
<1>5. /\ coservers' \in Seq(Cos) /\ Len(coservers') = Len(cs) + 1 /\ Distinct(coservers')
      /\ Range(coservers') = Range(cs) \cup {c}
  BY <1>2, Appending
<1>6. Running' = Range(cs) \cup {c} /\ Len(cs) \in Nat
  BY <1>5 DEF Running
<1>7. ArrayInv'
  <2>1. Len(coservers') <= Instances + 1
    BY <1>5, <1>6, SizeAssumption
  <2>2. busy' \in [Running' -> Int] /\ cosock' \in [Running' -> Sock]
    BY <1>1, <1>2, <1>4, <1>6 DEF ArrayInv
  <2> QED
    BY <1>5, <2>1, <2>2 DEF ArrayInv
<1>8. /\ c \in Running' /\ cosock'[c] = f /\ busy'[c] = 0
      /\ \A x \in Range(cs) : /\ x \in Running' /\ x # c /\ x \in Running
                             /\ cosock'[x] = cosock[x] /\ busy'[x] = busy[x]
      /\ \A x \in Running' : x = c \/ x \in Range(cs)
  BY <1>2, <1>6
<1>9. FriendlyExact'
  <2>1. SUFFICES ASSUME restarts = 0, Range(cs) = Running, NEW t \in Sock
                 PROVE  IF t \in enq' THEN friendly'[t] \in Running' /\ cosock'[friendly'[t]] = t
                                      ELSE friendly'[t] = NULL
    BY DEF FriendlyExact
  <2>2. IF t \in enq THEN friendly[t] \in Running /\ cosock[friendly[t]] = t
                     ELSE friendly[t] = NULL
    BY <1>4, <2>1 DEF SockInv, FriendlyExact
  <2>3. CASE t = f
    BY <1>1, <1>2, <1>3, <1>4, <1>8, <2>3 DEF SockInv
  <2>4. CASE t # f
    <3>1. friendly'[t] = friendly[t] /\ (t \in enq' <=> t \in enq)
      BY <1>2, <1>3, <1>4, <2>4 DEF SockInv
    <3> QED
      BY <1>8, <2>1, <2>2, <3>1
  <2> QED
    BY <2>3, <2>4
<1>10. SockInv'
  <2>1. friendly' \in [Sock -> Cos \cup {NULL}]
    BY <1>2, <1>4 DEF SockInv
  <2>2. killed' \subseteq enq' /\ alive' \subseteq enq' /\ enq' \subseteq Sock
    BY <1>1, <1>3, <1>4 DEF SockInv
  <2>3. \A x \in Running' : cosock'[x] \in enq'
    BY <1>3, <1>4, <1>8 DEF SockInv
  <2>4. \A x \in Range(cs) : cosock'[x] # f
    BY <1>1, <1>4, <1>8 DEF SockInv
  <2>5. \A x, y \in Range(cs) : cosock'[x] = cosock'[y] => x = y
    BY <1>4, <1>8 DEF SockInv
  <2>6. \A x, y \in Running' : cosock'[x] = cosock'[y] => x = y
    BY <1>8, <2>4, <2>5
  <2> QED
    BY <1>9, <2>1, <2>2, <2>3, <2>6 DEF SockInv
<1>11. QueueInv'
  BY <1>3, <1>4, QueueStutter DEF cbVars
<1>12. CallbackInv'
  BY <1>3, <1>4, CallbackStutter
<1>13. \A t \in Sock : Load(t)' = Load(t)
  BY <1>3 DEF Load, chanVars
<1>14. BusyInv'
  <2>1. SUFFICES ASSUME restarts = 0, Range(cs) = Running, NEW x \in Running', cosock'[x] \notin killed'
                 PROVE  busy'[x] = Load(cosock[x])'
    BY DEF BusyInv
  <2>2. CASE x = c
    <3>1. send_buffer[f] = <<>> /\ inpipe[f] = <<>> /\ outpipe[f] = <<>>
      BY <1>1, <1>4 DEF QueueInv, QueueOK
    <3>2. Load(f) = 0
      BY <3>1, Empty DEF Load
    <3>3. Load(f)' = 0
      BY <1>1, <1>13, <3>2
    <3> QED
      BY <1>8, <2>2, <3>3
  <2>3. CASE x # c
    <3>1. PICK t \in Sock : t = cosock[x] /\ t = cosock'[x] /\ x \in Running /\ busy'[x] = busy[x]
      BY <1>4, <1>8, <2>3 DEF ArrayInv
    <3>2. busy[x] = Load(t)
      BY <1>3, <1>4, <2>1, <3>1 DEF BusyInv
    <3>3. Load(t)' = Load(t)
      BY <1>13
    <3> QED
      BY <3>1, <3>2, <3>3
  <2> QED
    BY <2>2, <2>3
<1>15. Flags'
  BY <1>3, Zenon DEF Flags
<1> QED
  BY <1>7, <1>10, <1>11, <1>12, <1>14, <1>15

LEMMA Stepsvz_coserver_check == ASSUME IInv, svz_coserver_check PROVE IInv'
<1>1. ArrayInv /\ Restarts
  BY DEF IInv
<1>2. coservers \in Seq(Cos) /\ Distinct(coservers) /\ Len(coservers) \in Nat
  BY <1>1 DEF ArrayInv
<1>3. Len(coservers) <= Instances
  <2>1. count_type < Instances \/ \E c \in Running : InSight(c)
    BY Zenon DEF svz_coserver_check
  <2>2. (\E c \in Running : InSight(c)) => count_type <= Instances
    BY Zenon DEF InSight
  <2> QED
    BY <1>2, <2>1, <2>2, SizeAssumption DEF count_type
<1>4. start(coservers, {}) /\ restarts' = restarts /\ Range(coservers) = Running
  BY DEF svz_coserver_check, Running
<1>5. ArrayInv' /\ SockInv' /\ QueueInv' /\ CallbackInv' /\ BusyInv' /\ Flags'
  BY <1>2, <1>3, <1>4, Started
<1>6. Restarts'
  BY <1>1, <1>4 DEF Restarts
<1> QED
  BY <1>5, <1>6 DEF IInv

LEMMA Stepctrl_restart == ASSUME IInv, ctrl_restart PROVE IInv'
<1>1. ArrayInv /\ SockInv /\ QueueInv /\ CallbackInv /\ BusyInv /\ Flags /\ Restarts
  BY DEF IInv
<1>2. restarts < MaxRestarts /\ restarts' = restarts + 1
  BY DEF ctrl_restart
<1>3. Restarts' /\ restarts' # 0
  BY <1>1, <1>2, BoundAssumption DEF Restarts
<1>4. <<>> \in Seq(Cos) /\ Range(<<>>) = {} /\ Len(<<>>) = 0
  BY EmptySeq DEF Range
<1>5. Distinct(<<>>)
  BY <1>4 DEF Distinct
<1>6. CASE start(<<>>, svz_coserver_destroy)
  <2> DEFINE n == <<>>
             dead == svz_coserver_destroy
  <2>1. /\ n \in Seq(Cos) /\ Distinct(n) /\ Range(n) \subseteq Running /\ Len(n) <= Instances
        /\ start(n, dead)
    BY <1>4, <1>5, <1>6, SizeAssumption
  <2> HIDE DEF n, dead
  <2>2. ArrayInv' /\ SockInv' /\ QueueInv' /\ CallbackInv' /\ BusyInv' /\ Flags'
    BY <1>3, <2>1, Started
  <2> QED
    BY <1>3, <2>2 DEF IInv
<1>7. CASE /\ coservers' = <<>> /\ busy' = <<>> /\ cosock' = <<>>
           /\ alive' = alive \ svz_coserver_destroy
           /\ UNCHANGED <<friendly, enq, killed, chanVars, cbVars, recent>>
  <2>1. Running' = {}
    BY <1>4, <1>7 DEF Running
  <2>2. ArrayInv'
    BY <1>4, <1>5, <1>7, <2>1, SizeAssumption DEF ArrayInv
  <2>3. SockInv'
    BY <1>1, <1>3, <1>7, <2>1 DEF SockInv, FriendlyExact
  <2>4. QueueInv'
    BY <1>1, <1>7, QueueStutter DEF cbVars
  <2>5. CallbackInv' /\ BusyInv'
    BY <1>1, <1>3, <1>7, CallbackStutter DEF BusyInv
  <2>6. Flags'
    BY <1>1, <1>7, Zenon DEF Flags
  <2> QED
    BY <1>3, <2>2, <2>3, <2>4, <2>5, <2>6 DEF IInv
<1> QED
  BY <1>6, <1>7 DEF ctrl_restart

-----------------------------------------------------------------------------
(* The theorems *)

LEMMA StepIInv == IInv /\ [Next]_vars => IInv'
<1> SUFFICES ASSUME IInv, [Next]_vars PROVE IInv'
  OBVIOUS
<1>1. CASE UNCHANGED vars
  <2>1. /\ UNCHANGED <<cosVars, busy, enq, killed, alive, chanVars, cbVars, recent, restarts>>
    BY <1>1 DEF vars
  <2>2. ArrayInv /\ SockInv /\ QueueInv /\ CallbackInv /\ BusyInv /\ Flags /\ Restarts
    BY DEF IInv
  <2>3. ArrayInv' /\ SockInv'
    BY <2>1, <2>2, ArrayStutter, SockStutter DEF cosVars, ArrayInv, SockInv
  <2>4. QueueInv' /\ CallbackInv' /\ BusyInv'
    BY <2>1, <2>2, QueueStutter, CallbackStutter, BusyStutter DEF cbVars
  <2>5. Flags'
    BY <2>1, <2>2, Zenon DEF Flags
  <2>6. Restarts'
    BY <2>1, <2>2 DEF Restarts
  <2> QED
    BY <2>3, <2>4, <2>5, <2>6 DEF IInv
<1>2. CASE svz_coserver_check \/ TimePasses \/ send_request \/ ctrl_restart
  BY <1>2, Stepsvz_coserver_check, StepTimePasses, Stepsend_request, Stepctrl_restart
<1>3. ASSUME NEW s \in Sock, big_loop(s) \/ Die(s) \/ Write(s) \/ Read(s) \/ ReadEof(s)
                             \/ svz_sock_shutdown(s)
      PROVE  IInv'
  BY <1>3, Stepbig_loop, StepDie, StepWrite, StepRead, StepReadEof, Stepsvz_sock_shutdown
<1> QED
  BY <1>1, <1>2, <1>3 DEF Next

\* A socket's lines, seen as one sequence.
LEMMA LinesAre ==
  ASSUME QueueInv, NEW s \in Sock
  PROVE  /\ Lines(s) \in Seq(Nat) /\ Len(Lines(s)) = Load(s)
         /\ Range(Lines(s)) = Ids(s) /\ Distinct(Lines(s))
         /\ DOMAIN Lines(s) = 1..Len(Lines(s))
         /\ \A i \in DOMAIN Lines(s) : Lines(s)[i] \in Ids(s)
<1> DEFINE a == send_buffer[s]
           b == inpipe[s]
           c == outpipe[s]
           q == a \o b \o c
<1>1. a \in Seq(Nat) /\ b \in Seq(Nat) /\ c \in Seq(Nat) /\ Apart(a, b, c)
  BY QueueFacts DEF QueueOK
<1>2. Lines(s) = q /\ Load(s) = Len(a) + Len(b) + Len(c) /\ Ids(s) = All(a, b, c)
  BY DEF Lines, Load, Ids
<1> HIDE DEF a, b, c
<1>3. /\ q \in Seq(Nat) /\ Len(q) = Len(a) + Len(b) + Len(c)
      /\ Range(q) = All(a, b, c) /\ Distinct(q)
  BY <1>1, Queues
<1> HIDE DEF q
<1>4. Range(q) = {q[i] : i \in 1..Len(q)} /\ DOMAIN q = 1..Len(q)
  BY <1>3, RangeIs
<1> QED
  BY <1>2, <1>3, <1>4

LEMMA InvBusyExact == IInv => BusyExact
<1> SUFFICES ASSUME IInv PROVE BusyExact
  OBVIOUS
<1>1. ArrayInv /\ SockInv /\ QueueInv /\ CallbackInv /\ BusyInv /\ Flags /\ Restarts
  BY DEF IInv
<1>2. coservers \in Seq(Cos) /\ DOMAIN coservers = 1..Len(coservers)
  BY <1>1, RangeIs DEF ArrayInv
<1>3. IsInjective(coservers)
  BY <1>1, <1>2 DEF ArrayInv, Distinct, IsInjective
<1>4. \A s \in Sock : /\ Lines(s) \in Seq(Nat) /\ Len(Lines(s)) = Load(s)
                      /\ Len(send_buffer[s]) <= SendSize /\ Len(inpipe[s]) <= PipeSize
  BY <1>1, LinesAre DEF QueueInv, QueueOK
<1>5. callbacks \subseteq Nat /\ callback_id \in Nat
  BY <1>1 DEF CallbackInv
<1>6. TypeOK
  BY <1>1, <1>2, <1>3, <1>4, <1>5 DEF TypeOK, ArrayInv, SockInv, Flags, Restarts
<1>7. ASSUME restarts = 0, NEW c \in Running, cosock[c] \notin killed
      PROVE  busy[c] = Len(Lines(cosock[c]))
  <2>1. busy[c] = Load(cosock[c]) /\ cosock[c] \in Sock
    BY <1>1, <1>7 DEF BusyInv, ArrayInv
  <2> QED
    BY <1>4, <2>1
<1> QED
  BY <1>1, <1>6, <1>7 DEF BusyExact, ArrayInv, SockInv, count_type

LEMMA InvCallbackKnown == IInv => CallbackKnown
<1> SUFFICES ASSUME IInv PROVE CallbackKnown
  OBVIOUS
<1>1. SockInv /\ QueueInv
  BY DEF IInv
<1>2. enq \subseteq Sock
  BY <1>1 DEF SockInv
<1>3. \A s \in Sock : Ids(s) \subseteq callbacks
  BY <1>1 DEF QueueInv, QueueOK
<1>4. \A s \in enq : \A i \in DOMAIN Lines(s) : Lines(s)[i] \in callbacks
  BY <1>1, <1>2, <1>3, LinesAre
<1>5. ASSUME NEW s \in enq, NEW t \in enq, NEW i \in DOMAIN Lines(s), NEW j \in DOMAIN Lines(t),
             Lines(s)[i] = Lines(t)[j]
      PROVE  s = t /\ i = j
  <2>1. /\ s \in Sock /\ t \in Sock /\ Lines(s)[i] \in Ids(s) /\ Lines(t)[j] \in Ids(t)
        /\ Distinct(Lines(s)) /\ DOMAIN Lines(s) = 1..Len(Lines(s))
    BY <1>1, <1>2, LinesAre
  <2>2. s = t
    BY <1>1, <1>5, <2>1 DEF QueueInv
  <2>3. i = j
    BY <1>5, <2>1, <2>2 DEF Distinct
  <2> QED
    BY <2>2, <2>3
<1> QED
  BY <1>4, <1>5 DEF CallbackKnown

\* The number by which send_request chooses a coserver is the number of
\* requests under way to it, the hash that check_request uses leads from every
\* coserver socket to its structure, and svz_coserver_check never has more
\* than one coserver above the configured number.
THEOREM BusyExactCorrect == Spec => []BusyExact
<1>1. Init => IInv
  BY InitIInv
<1>2. IInv /\ [Next]_vars => IInv'
  BY StepIInv
<1>3. IInv => BusyExact
  BY InvBusyExact
<1> QED
  BY <1>1, <1>2, <1>3, PTL DEF Spec

\* The id in an answer that handle_request reads is in the hash of callbacks,
\* and is in no other answer, whatever coservers died or were restarted.
THEOREM CallbackKnownCorrect == Spec => []CallbackKnown
<1>1. Init => IInv
  BY InitIInv
<1>2. IInv /\ [Next]_vars => IInv'
  BY StepIInv
<1>3. IInv => CallbackKnown
  BY InvCallbackKnown
<1> QED
  BY <1>1, <1>2, <1>3, PTL DEF Spec
=============================================================================
